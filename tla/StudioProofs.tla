---------------------------- MODULE StudioProofs ----------------------------
(***************************************************************************)
(* Theorems about the studio, for every schema and every set of edits: it  *)
(* changes an agent only as the gate allows, a turn of the builder reports *)
(* what it saved, the panel shows what the server has accepted, and the    *)
(* connections of the tenants match their tokens.                          *)
(***************************************************************************)
EXTENDS Studio, ConfigGateProofs, FiniteSetTheorems

(***************************************************************************)
(* The gate, further: how the history grows and what a call comes to.      *)
(***************************************************************************)
\* The history is only appended to.
Grows == Latest <= Latest' /\ \A i \in 1 .. Latest : versions'[i] = versions[i]

\* Every call in progress has room for the version it may append.
RoomInv ==
    /\ Latest + Cardinality(Busy) <= MaxVersions
    /\ \A c \in Callers : calls[c].base <= Latest

\* An accepted patch is in the version that it made.
MadeBy(call, history1) ==
    /\ call.base \in 1 .. Len(history1)
    /\ \A l \in Under(call.path) : history1[call.base].cfg[l] = call.value

LEMMA LatestTyped == ASSUME GateInv PROVE Latest \in Nat /\ Latest >= 1 /\ calls \in [Callers -> Calls]
BY LenProperties DEF GateInv, HistoryInv, CallsInv, Latest

LEMMA AppendGrows ==
    ASSUME GateInv, NEW cfg \in Configs, Append1(cfg)
    PROVE  Grows /\ Latest' = Latest + 1 /\ versions'[Latest + 1] = Snapshot(cfg)
<1>1. Snapshot(cfg) \in Snapshots BY DEF Snapshot, Snapshots, StatusOf
<1>2. /\ Latest' = Latest + 1 /\ versions'[Latest + 1] = Snapshot(cfg)
      /\ \A i \in 1 .. Latest : versions'[i] = versions[i]
  BY <1>1, AppendProperties DEF Append1, GateInv, HistoryInv, Latest
<1>3. QED BY <1>2, LatestTyped DEF Grows

\* A step of the service for one caller.
LEMMA ServiceStep ==
    ASSUME GateInv, NEW c \in Callers, GateStep(c)
    PROVE  /\ Grows /\ calls' \in [Callers -> Calls]
           /\ \A d \in Callers \ {c} : calls'[d] = calls[d]
           /\ calls'[c].path = calls[c].path /\ calls'[c].value = calls[c].value
           /\ calls'[c].expected = calls[c].expected
           /\ calls[c].pc # "idle"
           /\ \/ calls'[c].pc = "save" /\ calls[c].pc = "read" /\ Latest' = Latest
                 /\ calls'[c].result = calls[c].result
                 /\ calls'[c].base = Latest
              \/ calls'[c].pc = "idle" /\ Latest' \in {Latest, Latest + 1}
                 /\ calls'[c].base \in {calls[c].base, Latest'}
           /\ calls[c].pc = "read" /\ calls'[c].pc = "idle" =>
                calls'[c].result = GateVerdict(calls[c].path, calls[c].value)
                /\ calls'[c].result # "accepted"
           /\ calls[c].pc = "save" =>
                \/ calls'[c].result = "error"
                \/ calls'[c].result = "conflict" /\ calls[c].expected # NoVersion
                \/ calls'[c].result = "accepted" /\ MadeBy(calls'[c], versions')
<1>0. Latest \in Nat /\ Latest >= 1 /\ calls \in [Callers -> Calls] BY LatestTyped
<1> DEFINE verdict == GateVerdict(calls[c].path, calls[c].value)
<1>1. CASE GateRead(c) /\ verdict = "accepted"
  <2> DEFINE call == [calls[c] EXCEPT !.pc = "save", !.base = Latest]
  <2>1. /\ call \in Calls /\ call.pc = "save" /\ call.base = Latest /\ call.path = calls[c].path
        /\ call.expected = calls[c].expected /\ call.value = calls[c].value
        /\ call.result = calls[c].result
    BY <1>0 DEF Calls, CallPhases
  <2>2. calls' = [calls EXCEPT ![c] = call] /\ UNCHANGED versions /\ calls[c].pc = "read"
    BY <1>1 DEF GateRead
  <2> HIDE DEF call
  <2>3. Latest' = Latest /\ Grows BY <1>0, <2>2 DEF Grows, Latest
  <2>4. QED BY <1>0, <2>1, <2>2, <2>3
<1>2. CASE GateRead(c) /\ verdict # "accepted"
  <2> DEFINE call == [calls[c] EXCEPT !.pc = "idle", !.result = verdict]
  <2>1. /\ call \in Calls /\ call.pc = "idle" /\ call.base = calls[c].base /\ call.path = calls[c].path
        /\ call.expected = calls[c].expected /\ call.value = calls[c].value
        /\ call.result = verdict
    BY <1>0 DEF Calls, CallPhases, CallResults, GateVerdict
  <2>2. calls' = [calls EXCEPT ![c] = call] /\ UNCHANGED versions /\ calls[c].pc = "read"
    BY <1>2 DEF GateRead
  <2> HIDE DEF call
  <2>3. Latest' = Latest /\ Grows BY <1>0, <2>2 DEF Grows, Latest
  <2>4. QED BY <1>0, <1>2, <2>1, <2>2, <2>3
<1>3. ASSUME NEW result \in {"error", "conflict"}, calls[c].pc = "save", UNCHANGED versions,
             result = "conflict" => calls[c].expected # NoVersion,
             calls' = [calls EXCEPT ![c] = [calls[c] EXCEPT !.pc = "idle", !.result = result]]
      PROVE  /\ Grows /\ Latest' = Latest /\ calls' \in [Callers -> Calls]
             /\ \A d \in Callers \ {c} : calls'[d] = calls[d]
             /\ calls'[c].path = calls[c].path /\ calls'[c].value = calls[c].value
             /\ calls'[c].expected = calls[c].expected /\ calls'[c].pc = "idle"
             /\ calls'[c].base = calls[c].base /\ calls'[c].result = result
  <2> DEFINE call == [calls[c] EXCEPT !.pc = "idle", !.result = result]
  <2>1. /\ call \in Calls /\ call.pc = "idle" /\ call.base = calls[c].base /\ call.path = calls[c].path
        /\ call.expected = calls[c].expected /\ call.value = calls[c].value
        /\ call.result = result
    BY <1>0 DEF Calls, CallPhases, CallResults
  <2>2. calls' = [calls EXCEPT ![c] = call] BY <1>3
  <2> HIDE DEF call
  <2>3. Latest' = Latest /\ Grows BY <1>0, <1>3 DEF Grows, Latest
  <2>4. QED BY <1>0, <2>1, <2>2, <2>3
<1>4. CASE GateSave(c) /\ Conflicts(c)
  <2>1. /\ calls' = [calls EXCEPT ![c] = [calls[c] EXCEPT !.pc = "idle", !.result = "conflict"]]
        /\ UNCHANGED versions /\ calls[c].pc = "save" /\ calls[c].expected # NoVersion
    BY <1>0, <1>4 DEF GateSave, Conflicts
  <2>2. QED BY <1>3, <2>1
<1>5. CASE GateSaveFails(c)
  <2>1. /\ calls' = [calls EXCEPT ![c] = [calls[c] EXCEPT !.pc = "idle", !.result = "error"]]
        /\ UNCHANGED versions /\ calls[c].pc = "save"
    BY <1>0, <1>5 DEF GateSaveFails
  <2>2. QED BY <1>3, <2>1
<1>6. ASSUME NEW cfg \in Configs, Append1(cfg),
             calls' = [calls EXCEPT ![c] = [calls[c] EXCEPT !.pc = "idle", !.result = "accepted",
                                                            !.base = Latest + 1]]
      PROVE  /\ Grows /\ Latest' = Latest + 1 /\ calls' \in [Callers -> Calls]
             /\ \A d \in Callers \ {c} : calls'[d] = calls[d]
             /\ calls'[c].path = calls[c].path /\ calls'[c].value = calls[c].value
             /\ calls'[c].expected = calls[c].expected /\ calls'[c].pc = "idle"
             /\ calls'[c].base = Latest + 1 /\ calls'[c].result = "accepted"
             /\ versions'[Latest + 1].cfg = cfg
  <2> DEFINE call == [calls[c] EXCEPT !.pc = "idle", !.result = "accepted", !.base = Latest + 1]
  <2>0. Latest + 1 \in Nat BY <1>0
  <2>1. /\ call \in Calls /\ call.pc = "idle" /\ call.base = Latest + 1 /\ call.path = calls[c].path
        /\ call.expected = calls[c].expected /\ call.value = calls[c].value
        /\ call.result = "accepted"
    BY <1>0, <2>0 DEF Calls, CallPhases, CallResults
  <2>2. calls' = [calls EXCEPT ![c] = call] BY <1>6
  <2> HIDE DEF call
  <2>3. Latest' = Latest + 1 /\ Grows /\ versions'[Latest + 1] = Snapshot(cfg) BY <1>6, AppendGrows
  <2>4. QED BY <1>0, <2>1, <2>2, <2>3 DEF Snapshot
<1>7. CASE GateSave(c) /\ ~Conflicts(c)
  <2> DEFINE old == versions[calls[c].base].cfg
             cfg == Patched(old, calls[c].path, calls[c].value)
  <2>1. /\ Append1(cfg) /\ calls[c].pc = "save"
        /\ calls' = [calls EXCEPT ![c] = [calls[c] EXCEPT !.pc = "idle", !.result = "accepted",
                                                          !.base = Latest + 1]]
    BY <1>0, <1>7 DEF GateSave
  <2>2. old \in Configs /\ calls[c].value \in SUBSET Atoms
    BY <1>0, <2>1, VersionIsLawful DEF GateInv, CallsInv, Calls
  <2>3. cfg \in Configs /\ \A l \in Under(calls[c].path) : cfg[l] = calls[c].value
    BY <2>2 DEF Patched, Configs, Under
  <2> HIDE DEF cfg, old
  <2>4. /\ Grows /\ Latest' = Latest + 1 /\ calls' \in [Callers -> Calls]
        /\ \A d \in Callers \ {c} : calls'[d] = calls[d]
        /\ calls'[c].path = calls[c].path /\ calls'[c].value = calls[c].value
        /\ calls'[c].expected = calls[c].expected /\ calls'[c].pc = "idle"
        /\ calls'[c].base = Latest + 1 /\ calls'[c].result = "accepted"
        /\ versions'[Latest + 1].cfg = cfg
    BY <1>6, <2>1, <2>3
  <2>5. MadeBy(calls'[c], versions')
    <3>1. Len(versions') = Latest + 1 BY <2>4 DEF Latest
    <3>2. QED BY <1>0, <2>3, <2>4, <3>1 DEF MadeBy
  <2>6. QED BY <2>1, <2>4, <2>5
<1>8. CASE GateRevertSave(c)
  <2> DEFINE cfg == versions[calls[c].base].cfg
  <2>1. /\ Append1(cfg) /\ calls[c].pc = "revert"
        /\ calls' = [calls EXCEPT ![c] = [calls[c] EXCEPT !.pc = "idle", !.result = "accepted",
                                                          !.base = Latest + 1]]
    BY <1>0, <1>8 DEF GateRevertSave
  <2>2. cfg \in Configs BY <2>1, VersionIsLawful DEF GateInv, CallsInv
  <2> HIDE DEF cfg
  <2>3. QED BY <1>6, <2>1, <2>2
<1>9. QED BY <1>1, <1>2, <1>4, <1>5, <1>7, <1>8 DEF GateStep


LEMMA BusyCount == IsFiniteSet(Busy) /\ Cardinality(Busy) \in Nat
<1>1. IsFiniteSet(Callers) /\ Busy \subseteq Callers BY GateAssumption DEF Busy
<1>2. QED BY <1>1, FS_Subset, FS_CardinalityType

\* Who enters takes the room, who ends gives it back with the version it appended.
LEMMA RoomKeeps == GateInv /\ RoomInv /\ [GateNext]_gateVars => RoomInv' /\ Grows
<1> SUFFICES ASSUME GateInv, RoomInv, [GateNext]_gateVars PROVE RoomInv' /\ Grows
  OBVIOUS
<1>0. /\ Latest \in Nat /\ Latest >= 1 /\ calls \in [Callers -> Calls] /\ MaxVersions \in Nat
      /\ IsFiniteSet(Busy) /\ Cardinality(Busy) \in Nat
      /\ \A c \in Callers : calls[c].base \in Nat
  BY LatestTyped, BusyCount, GateAssumption DEF Calls
<1>1. ASSUME NEW c \in Callers, calls[c].pc = "idle", Room, UNCHANGED versions, NEW call,
             call.pc # "idle", call.base <= Latest, calls' = [calls EXCEPT ![c] = call]
      PROVE  RoomInv' /\ Grows
  <2>1. Busy' = Busy \cup {c} /\ c \notin Busy BY <1>0, <1>1 DEF Busy
  <2>2. Cardinality(Busy') = Cardinality(Busy) + 1 BY <1>0, <2>1, FS_AddElement
  <2>3. Latest' = Latest /\ Grows BY <1>0, <1>1 DEF Latest, Grows
  <2>4. \A d \in Callers : calls'[d].base <= Latest' BY <1>0, <1>1, <2>3 DEF RoomInv
  <2>5. Latest' + Cardinality(Busy') <= MaxVersions BY <1>0, <1>1, <2>2, <2>3 DEF Room
  <2>6. QED BY <2>3, <2>4, <2>5 DEF RoomInv
<1>2. ASSUME NEW c \in Callers, NEW path, NEW value, NEW expected, GateCall(c, path, value, expected)
      PROVE  RoomInv' /\ Grows
  <2> DEFINE call == [pc |-> "read", path |-> path, value |-> value, expected |-> expected,
                      base |-> NoVersion, result |-> "none"]
  <2>1. call.pc = "read" /\ call.base = 0 BY DEF NoVersion
  <2>2. calls' = [calls EXCEPT ![c] = call] /\ UNCHANGED versions /\ calls[c].pc = "idle" /\ Room
    BY <1>2 DEF GateCall
  <2> HIDE DEF call
  <2>3. call.pc # "idle" /\ call.base <= Latest BY <1>0, <2>1
  <2>4. QED BY <1>1, <2>2, <2>3
<1>3. ASSUME NEW c \in Callers, NEW n \in 1 .. Latest, GateRevert(c, n) PROVE RoomInv' /\ Grows
  <2> DEFINE call == [Idle EXCEPT !.pc = "revert", !.base = n]
  <2>1. call.pc = "revert" /\ call.base = n BY DEF Idle
  <2>2. calls' = [calls EXCEPT ![c] = call] /\ UNCHANGED versions /\ calls[c].pc = "idle" /\ Room
    BY <1>3 DEF GateRevert
  <2> HIDE DEF call
  <2>3. call.pc # "idle" /\ call.base <= Latest BY <1>0, <2>1
  <2>4. QED BY <1>1, <2>2, <2>3
<1>4. ASSUME NEW c \in Callers, GateStep(c) PROVE RoomInv' /\ Grows
  <2>1. /\ Grows /\ calls' \in [Callers -> Calls] /\ calls[c].pc # "idle"
        /\ \A d \in Callers \ {c} : calls'[d] = calls[d]
        /\ \/ calls'[c].pc = "save" /\ Latest' = Latest /\ calls'[c].base = Latest
           \/ calls'[c].pc = "idle" /\ Latest' \in {Latest, Latest + 1}
              /\ calls'[c].base \in {calls[c].base, Latest'}
    BY <1>4, ServiceStep
  <2>2. \A d \in Callers : calls'[d].base <= Latest'
    BY <1>0, <2>1 DEF RoomInv
  <2>3. CASE calls'[c].pc = "save"
    <3>1. Busy' = Busy BY <2>1, <2>3 DEF Busy
    <3>2. Latest' = Latest BY <2>1, <2>3
    <3>3. QED BY <2>1, <2>2, <3>1, <3>2 DEF RoomInv
  <2>4. CASE calls'[c].pc = "idle"
    <3>1. Busy' = Busy \ {c} /\ c \in Busy BY <2>1, <2>4 DEF Busy
    <3>2. Cardinality(Busy') = Cardinality(Busy) - 1 BY <1>0, <3>1, FS_RemoveElement
    <3>3. Latest' <= Latest + 1 /\ Latest' \in Nat BY <1>0, <2>1, <2>4
    <3>4. Latest' + Cardinality(Busy') <= MaxVersions BY <1>0, <3>2, <3>3 DEF RoomInv
    <3>5. QED BY <2>1, <2>2, <3>4 DEF RoomInv
  <2>5. QED BY <2>1, <2>3, <2>4
<1>5. ASSUME NEW c \in Callers, Take(c) PROVE RoomInv' /\ Grows
  <2>1. calls' = [calls EXCEPT ![c] = Idle] /\ versions' = versions BY <1>5 DEF Take
  <2>2. Busy' \subseteq Busy BY <1>0, <2>1 DEF Busy, Idle
  <2>3. Cardinality(Busy') <= Cardinality(Busy) /\ Cardinality(Busy') \in Nat
    BY <1>0, <2>2, FS_Subset, FS_CardinalityType
  <2>4. Latest' = Latest /\ Grows BY <1>0, <2>1 DEF Latest, Grows
  <2>5. \A d \in Callers : calls'[d].base <= Latest'
    BY <1>0, <2>1, <2>4 DEF RoomInv, Idle, NoVersion
  <2>6. QED BY <1>0, <2>3, <2>4, <2>5 DEF RoomInv
<1>6. CASE UNCHANGED gateVars
  BY <1>0, <1>6 DEF gateVars, RoomInv, Busy, Latest, Grows
<1>7. QED BY <1>2, <1>3, <1>4, <1>5, <1>6 DEF GateNext

LEMMA RoomAtFirst == GateInit => RoomInv
<1> SUFFICES ASSUME GateInit PROVE RoomInv
  OBVIOUS
<1>1. Latest = 1 BY DEF GateInit, Latest
<1>2. Busy = {} /\ \A c \in Callers : calls[c].base = 0 BY DEF GateInit, Busy, Idle, NoVersion
<1>3. QED BY <1>1, <1>2, FS_EmptySet, GateAssumption DEF RoomInv

LEMMA GateIsTyped == GateInv /\ RoomInv => GateTypeOK
<1> SUFFICES ASSUME GateInv, RoomInv PROVE GateTypeOK
  OBVIOUS
<1>1. /\ Latest \in Nat /\ Latest >= 1 /\ calls \in [Callers -> Calls] /\ MaxVersions \in Nat
      /\ Cardinality(Busy) \in Nat
  BY LatestTyped, BusyCount, GateAssumption
<1>2. versions \in Seq([cfg : [Leaves -> SUBSET Atoms], status : {"draft", "ready"}])
  BY DEF GateInv, HistoryInv, Snapshots, Configs
<1>3. Latest \in 1 .. MaxVersions BY <1>1 DEF RoomInv
<1>4. ASSUME NEW c \in Callers
      PROVE  /\ calls[c].pc \in CallPhases /\ calls[c].result \in CallResults
             /\ calls[c].base \in 0 .. Latest
             /\ calls[c].pc \in {"save", "revert"} => calls[c].base # NoVersion
  <2>1. calls[c].pc \in CallPhases /\ calls[c].result \in CallResults /\ calls[c].base \in Nat
    BY <1>1 DEF Calls
  <2>2. calls[c].base <= Latest BY DEF RoomInv
  <2>3. calls[c].pc \in {"save", "revert"} => calls[c].base # NoVersion
    BY <1>1 DEF GateInv, CallsInv, NoVersion
  <2>4. QED BY <1>1, <2>1, <2>2, <2>3
<1>5. QED BY <1>2, <1>3, <1>4 DEF GateTypeOK


(***************************************************************************)
(* The builder's turn: what it holds.                                      *)
(***************************************************************************)
Requests ==
    {t \in [tool : {"set", "add", "clear", "unknown", "malformed"}, path : Paths, value : SUBSET Atoms] :
        t.tool = "add" => t.path \in Leaves}
Patches == [path : Seq(Segments), value : SUBSET Atoms, ready : BOOLEAN]
Turns ==
    [pc : {"idle", "model", "apply", "patch", "gate", "cascade", "reply", "tokens"},
     attempt : Nat, todo : Seq(Requests), done : Seq(Patches), report : Seq(Patches),
     rejected : BOOLEAN, before : {"draft", "ready"}, saved : Seq(Patches),
     reported : Seq(Patches), turns : Nat]

TurnInv ==
    /\ turn \in Turns
    /\ turn.attempt <= MaxRetries /\ turn.turns <= MaxTurns /\ Len(turn.todo) <= MaxCalls
    /\ turn.pc \in {"patch", "gate", "cascade"} => turn.todo # <<>>

LEMMA Call1Typed ==
    ASSUME TurnInv, turn.todo # <<>>
    PROVE  /\ Call1 \in Requests /\ Tail(turn.todo) \in Seq(Requests)
           /\ Len(Tail(turn.todo)) = Len(turn.todo) - 1
           /\ Len(turn.todo) \in Nat \ {0} /\ turn.todo[1] = Call1
<1>1. turn.todo \in Seq(Requests) BY DEF TurnInv, Turns
<1>2. QED BY <1>1, HeadTailProperties, LenProperties, EmptySeq DEF Call1

LEMMA NoTurnTyped ==
    ASSUME TurnInv, NEW n \in Nat
    PROVE  /\ NoTurn \in Turns /\ [NoTurn EXCEPT !.turns = n] \in Turns
           /\ NoTurn.todo = <<>> /\ NoTurn.pc = "idle" /\ NoTurn.attempt = 0
<1>1. <<>> \in Seq(Requests) /\ <<>> \in Seq(Patches) BY EmptySeq
<1>2. QED BY <1>1 DEF NoTurn, Turns

LEMMA ValueTyped ==
    ASSUME GateInv, NEW call \in Requests, call.tool \in {"set", "add", "clear"}
    PROVE  ValueOf(call) \in SUBSET Atoms
<1>1. versions[Latest].cfg \in Configs BY VersionIsLawful, LatestTyped
<1>2. call.tool = "add" => Current[call.path] \in SUBSET Atoms
  BY <1>1 DEF Configs, Current, Requests
<1>3. QED BY <1>2 DEF ValueOf, Requests

LEMMA AcceptedTyped == ASSUME GateInv PROVE Accepted \in Patches
<1>1. calls[TheBuilder] \in Calls BY LatestTyped, BuilderAssumption
<1>2. QED BY <1>1 DEF Accepted, Outcome, Patches, Calls

\* The turn alone, in one step of the builder.
LEMMA TurnMoves ==
    ASSUME GateInv, TurnInv, BuilderNext
    PROVE  /\ turn' \in Turns /\ turn'.attempt <= MaxRetries /\ turn'.turns <= MaxTurns
           /\ Len(turn'.todo) <= MaxCalls
           /\ turn'.pc \in {"patch", "gate", "cascade"} => turn'.todo # <<>>
<1> DEFINE Goal == /\ turn' \in Turns /\ turn'.attempt <= MaxRetries /\ turn'.turns <= MaxTurns
                   /\ Len(turn'.todo) <= MaxCalls
                   /\ turn'.pc \in {"patch", "gate", "cascade"} => turn'.todo # <<>>
<1>0. /\ turn \in Turns /\ turn.attempt <= MaxRetries /\ turn.turns <= MaxTurns
      /\ Len(turn.todo) <= MaxCalls /\ Len(turn.todo) \in Nat
      /\ MaxRetries \in Nat /\ MaxTurns \in Nat /\ MaxCalls \in Nat
      /\ turn.attempt \in Nat /\ turn.turns \in Nat
      /\ turn.todo \in Seq(Requests)
  BY BuilderAssumption, LenProperties DEF TurnInv, Turns
<1>1. ASSUME turn' \in Turns, turn'.attempt = turn.attempt, turn'.turns = turn.turns,
             turn'.todo = turn.todo, turn'.pc \in {"patch", "gate", "cascade"} => turn.todo # <<>>
      PROVE  Goal
  BY <1>0, <1>1
<1>2. ASSUME NEW n \in Nat, n <= MaxTurns, NEW pc \in {"idle", "tokens", "model"},
             turn' = [[NoTurn EXCEPT !.turns = n] EXCEPT !.pc = pc]
      PROVE  Goal
  <2>1. [NoTurn EXCEPT !.turns = n] \in Turns BY NoTurnTyped
  <2>2. <<>> \in Seq(Requests) /\ Len(<<>>) = 0 BY EmptySeq
  <2>3. /\ turn' \in Turns /\ turn'.attempt = 0 /\ turn'.turns = n /\ turn'.todo = <<>>
        /\ turn'.pc = pc
    BY <1>2, <2>1 DEF Turns, NoTurn
  <2>4. QED BY <1>0, <1>2, <2>2, <2>3
<1>3. CASE BuilderOpens \/ BuilderStarts
  <2>1. turn.turns < MaxTurns BY <1>3 DEF BuilderOpens, BuilderStarts
  <2>2. PICK n \in Nat : n = turn.turns + 1 BY <1>0
  <2>3. n <= MaxTurns BY <1>0, <2>1, <2>2
  <2>4. \E pc \in {"tokens", "model"} : turn' = [NoTurn EXCEPT !.pc = pc, !.turns = n]
    BY <1>3, <2>2 DEF BuilderOpens, BuilderStarts
  <2>5. \E pc \in {"idle", "tokens", "model"} : turn' = [[NoTurn EXCEPT !.turns = n] EXCEPT !.pc = pc]
    BY <2>4 DEF NoTurn
  <2>6. QED BY <1>2, <2>3, <2>5
<1>4. CASE BuilderEnds \/ BuilderFails \/ BuilderClientLeaves
  <2>1. turn' = [NoTurn EXCEPT !.turns = turn.turns]
    BY <1>4 DEF BuilderEnds, BuilderFails, BuilderClientLeaves
  <2>2. <<>> \in Seq(Requests) /\ Len(<<>>) = 0 BY EmptySeq
  <2>3. /\ turn' \in Turns /\ turn'.attempt = 0 /\ turn'.turns = turn.turns
        /\ turn'.todo = <<>> /\ turn'.pc = "idle"
    BY <1>0, <2>1, NoTurnTyped DEF NoTurn
  <2>4. QED BY <1>0, <2>2, <2>3
<1>5. CASE BuilderModelAnswers
  <2>1. PICK answer \in UNION {[1 .. k -> ToolCalls] : k \in 0 .. MaxCalls} :
          turn' = [turn EXCEPT !.pc = "apply", !.todo = answer, !.report = <<>>, !.rejected = FALSE]
    BY <1>5 DEF BuilderModelAnswers
  <2>2. PICK n \in 0 .. MaxCalls : answer \in [1 .. n -> ToolCalls]
    BY <2>1
  <2>3. n \in Nat /\ n <= MaxCalls BY <1>0, <2>2
  <2>4. ToolCalls \subseteq Requests BY BuilderAssumption DEF Requests
  <2>5. answer \in Seq(Requests) /\ Len(answer) = n
    <3>1. answer \in [1 .. n -> Requests] BY <2>2, <2>4
    <3>2. QED BY <2>3, <3>1, SeqDef
  <2>6. <<>> \in Seq(Patches) BY EmptySeq
  <2>7. /\ turn' \in Turns /\ turn'.attempt = turn.attempt /\ turn'.turns = turn.turns
        /\ turn'.todo = answer /\ turn'.pc = "apply"
    BY <1>0, <2>1, <2>5, <2>6 DEF Turns
  <2>8. QED BY <1>0, <2>3, <2>5, <2>7
<1>6. CASE BuilderApplies
  <2>1. turn.todo # <<>> /\ Call1.tool \in {"set", "add", "clear"} BY <1>6 DEF BuilderApplies
  <2>2. /\ Call1 \in Requests /\ turn.todo[1] = Call1 /\ Len(turn.todo) \in Nat \ {0}
    BY <2>1, Call1Typed
  <2>3. PICK value \in SUBSET Atoms : value = ValueOf(Call1) BY <2>1, <2>2, ValueTyped
  <2>4. PICK call \in Requests : call = [Call1 EXCEPT !.value = value] BY <2>2 DEF Requests
  <2>5. PICK todo : todo = [turn.todo EXCEPT ![1] = call] OBVIOUS
  <2>6. todo \in Seq(Requests) /\ Len(todo) = Len(turn.todo) BY <1>0, <2>2, <2>4, <2>5
  <2>7. turn' = [turn EXCEPT !.pc = "patch", !.todo = todo]
    BY <1>0, <1>6, <2>2, <2>3, <2>4, <2>5 DEF BuilderApplies, Turns
  <2>8. /\ turn' \in Turns /\ turn'.attempt = turn.attempt /\ turn'.turns = turn.turns
        /\ turn'.todo = todo /\ turn'.pc = "patch"
    BY <1>0, <2>6, <2>7 DEF Turns
  <2>9. todo # <<>> BY <2>2, <2>6, EmptySeq
  <2>10. QED BY <1>0, <2>6, <2>8, <2>9
<1>7. ASSUME NEW path, NEW value, GateAsked(path, value), turn.todo # <<>> PROVE Goal
  <2>0. versions[Latest] \in Snapshots
    BY LatestTyped, ElementOfSeq DEF GateInv, HistoryInv, Latest
  <2>1. versions[Latest].status \in {"draft", "ready"} BY <2>0 DEF Snapshots
  <2>2. /\ turn' \in Turns /\ turn'.attempt = turn.attempt /\ turn'.turns = turn.turns
        /\ turn'.todo = turn.todo /\ turn'.pc = "gate"
    BY <1>0, <1>7, <2>1 DEF GateAsked, Turns
  <2>3. QED BY <1>1, <1>7, <2>2
<1>8. CASE BuilderPatches \/ BuilderCascades
  BY <1>7, <1>8 DEF BuilderPatches, BuilderCascades, TurnInv
<1>9. ASSUME turn' \in Turns, turn'.attempt = turn.attempt, turn'.turns = turn.turns,
             turn.todo # <<>>, turn'.todo = Tail(turn.todo), turn'.pc = "apply"
      PROVE  Goal
  <2>1. Len(Tail(turn.todo)) = Len(turn.todo) - 1 BY <1>9, Call1Typed
  <2>2. QED BY <1>0, <1>9, <2>1
<1>10. CASE BuilderRejects
  <2>1. turn.todo # <<>> BY <1>10 DEF BuilderRejects
  <2>2. Tail(turn.todo) \in Seq(Requests) BY <2>1, Call1Typed
  <2>3. /\ turn' \in Turns /\ turn'.attempt = turn.attempt /\ turn'.turns = turn.turns
        /\ turn'.todo = Tail(turn.todo) /\ turn'.pc = "apply"
    BY <1>0, <1>10, <2>2 DEF BuilderRejects, Turns
  <2>4. QED BY <1>9, <2>1, <2>3
<1>11. CASE BuilderAccepted
  <2>1. PICK accepted \in Patches : accepted = Accepted BY AcceptedTyped
  <2>2. turn.todo # <<>> BY <1>11 DEF BuilderAccepted, GateReturned, TurnInv
  <2>3. Tail(turn.todo) \in Seq(Requests) BY <2>2, Call1Typed
  <2>4. PICK saved \in Seq(Patches), results \in Seq(Patches) :
          saved = Append(turn.saved, accepted) /\ results = Append(turn.done, accepted)
    BY <1>0, <2>1, AppendProperties DEF Turns
  <2>5. CASE Cascades(Call1)
    <3>1. turn' = [turn EXCEPT !.saved = saved, !.pc = "cascade", !.done = results]
      BY <1>0, <1>11, <2>1, <2>4, <2>5 DEF BuilderAccepted, Turns
    <3>2. /\ turn' \in Turns /\ turn'.attempt = turn.attempt /\ turn'.turns = turn.turns
          /\ turn'.todo = turn.todo
      BY <1>0, <2>4, <3>1 DEF Turns
    <3>3. QED BY <1>1, <2>2, <3>2
  <2>6. CASE ~Cascades(Call1)
    <3>1. PICK report \in Seq(Patches) : report = turn.report \o results
      BY <1>0, <2>4, ConcatProperties DEF Turns
    <3>2. turn' = [turn EXCEPT !.saved = saved, !.pc = "apply", !.done = <<>>,
                               !.todo = Tail(turn.todo), !.report = report]
      BY <1>0, <1>11, <2>1, <2>4, <2>6, <3>1 DEF BuilderAccepted, Turns
    <3>3. <<>> \in Seq(Patches) BY EmptySeq
    <3>4. /\ turn' \in Turns /\ turn'.attempt = turn.attempt /\ turn'.turns = turn.turns
          /\ turn'.todo = Tail(turn.todo) /\ turn'.pc = "apply"
      BY <1>0, <2>3, <2>4, <3>1, <3>2, <3>3 DEF Turns
    <3>5. QED BY <1>9, <2>2, <3>4
  <2>7. QED BY <2>5, <2>6
<1>12. CASE BuilderRejected
  <2>1. turn.todo # <<>> BY <1>12 DEF BuilderRejected, GateReturned, TurnInv
  <2>2. Tail(turn.todo) \in Seq(Requests) /\ <<>> \in Seq(Patches) BY <2>1, Call1Typed, EmptySeq
  <2>3. /\ turn' \in Turns /\ turn'.attempt = turn.attempt /\ turn'.turns = turn.turns
        /\ turn'.todo = Tail(turn.todo) /\ turn'.pc = "apply"
    BY <1>0, <1>12, <2>2 DEF BuilderRejected, Turns
  <2>4. QED BY <1>9, <2>1, <2>3
<1>13. CASE BuilderReports
  <2>1. PICK p \in Patches, rest \in Seq(Patches) : p = Head(turn.report) /\ rest = Tail(turn.report)
    BY <1>0, <1>13, HeadTailProperties DEF BuilderReports, Turns
  <2>2. PICK reported \in Seq(Patches) : reported = Append(turn.reported, p)
    BY <1>0, <2>1, AppendProperties DEF Turns
  <2>3. turn' = [turn EXCEPT !.report = rest, !.reported = reported]
    BY <1>0, <1>13, <2>1, <2>2 DEF BuilderReports, Turns
  <2>4. /\ turn' \in Turns /\ turn'.attempt = turn.attempt /\ turn'.turns = turn.turns
        /\ turn'.todo = turn.todo /\ turn'.pc = turn.pc
    BY <1>0, <2>1, <2>2, <2>3 DEF Turns
  <2>5. turn.pc = "apply" BY <1>13 DEF BuilderReports
  <2>6. QED BY <1>1, <2>4, <2>5
<1>14. CASE BuilderRetries
  <2>1. PICK n \in Nat : n = turn.attempt + 1 BY <1>0
  <2>2. n <= MaxRetries BY <1>0, <1>14, <2>1 DEF BuilderRetries
  <2>3. turn' = [turn EXCEPT !.pc = "model", !.attempt = n] BY <1>0, <1>14, <2>1 DEF BuilderRetries
  <2>4. /\ turn' \in Turns /\ turn'.attempt = n /\ turn'.turns = turn.turns
        /\ turn'.todo = turn.todo /\ turn'.pc = "model"
    BY <1>0, <2>3 DEF Turns
  <2>5. QED BY <1>0, <2>2, <2>4
<1>15. CASE BuilderConcludes \/ BuilderReplies
  <2>1. PICK pc \in {"tokens", "reply"} : turn' = [turn EXCEPT !.pc = pc]
    BY <1>15 DEF BuilderConcludes, BuilderReplies
  <2>2. /\ turn' \in Turns /\ turn'.attempt = turn.attempt /\ turn'.turns = turn.turns
        /\ turn'.todo = turn.todo /\ turn'.pc = pc
    BY <1>0, <2>1 DEF Turns
  <2>3. QED BY <1>1, <2>2
<1>16. QED
  BY <1>3, <1>4, <1>5, <1>6, <1>8, <1>10, <1>11, <1>12, <1>13, <1>14, <1>15 DEF BuilderNext

\* Who has a call of its own: the builder's is touched by the builder and the
\* service only.
LEMMA OthersLeaveTheCall ==
    ASSUME GateInv, NEW b \in Callers, NEW c \in Callers \ {b},
           \/ \E path, value, expected : GateCall(c, path, value, expected)
           \/ \E n : GateRevert(c, n)
           \/ GateStep(c) \/ Take(c)
    PROVE  calls'[b] = calls[b]
<1>0. calls \in [Callers -> Calls] BY LatestTyped
<1>1. ASSUME NEW call, calls' = [calls EXCEPT ![c] = call] PROVE calls'[b] = calls[b]
  BY <1>0, <1>1
<1>2. CASE \E path, value, expected : GateCall(c, path, value, expected)
  BY <1>1, <1>2 DEF GateCall
<1>3. CASE \E n : GateRevert(c, n) BY <1>1, <1>3 DEF GateRevert
<1>4. CASE GateStep(c) BY <1>4, ServiceStep
<1>5. CASE Take(c) BY <1>1, <1>5 DEF Take
<1>6. QED BY <1>2, <1>3, <1>4, <1>5

LEMMA TurnKept == ASSUME GateInv, TurnInv, [Next]_vars PROVE TurnInv'
<1>1. CASE BuilderNext BY <1>1, TurnMoves DEF TurnInv
<1>2. CASE turn' = turn BY <1>2 DEF TurnInv
<1>3. CASE ServiceNext BY <1>2, <1>3 DEF ServiceNext, builderVars
<1>4. CASE PanelNext
  BY <1>2, <1>4 DEF PanelNext, PanelAsks, PanelLoads, PanelReceives, PanelEdits, PanelEdited, builderVars
<1>5. CASE ClientNext
  BY <1>2, <1>5 DEF ClientNext, ClientEdits, ClientReverts, ClientTakes, builderVars
<1>6. CASE UNCHANGED builderVars BY <1>2, <1>6 DEF builderVars
<1>7. CASE UNCHANGED vars BY <1>2, <1>7 DEF vars, studioVars
<1>8. QED BY <1>1, <1>3, <1>4, <1>5, <1>6, <1>7 DEF Next

(***************************************************************************)
(* What the turn saved is what it has reported, what it is about to        *)
(* report, and what the tool call in progress has done.  The last part is  *)
(* lost with a refused call; the second patch of a call is the calendar's, *)
(* which the gate does not refuse.                                         *)
(***************************************************************************)
CascadeCall(call) ==
    /\ call.path = Calendar /\ call.value = {"on"} /\ call.expected = NoVersion
    /\ call.pc \in {"read", "save", "idle"} /\ call.result \in {"none", "accepted", "error"}

\* The two operators on lists, named so that a proof can keep them folded.
Joined(s, t) == s \o t
With(s, e) == Append(s, e)

ReportInv ==
    /\ turn.saved = Joined(Joined(turn.reported, turn.report), turn.done)
    /\ turn.pc \notin {"gate", "cascade"} => turn.done = <<>>
    /\ turn.pc \notin {"apply", "patch", "gate", "cascade"} => turn.report = <<>>
    /\ turn.pc = "gate" /\ turn.done # <<>> => CascadeCall(calls[TheBuilder])

LEMMA FreshTurnReports ==
    ASSUME turn'.saved = <<>>, turn'.reported = <<>>, turn'.report = <<>>, turn'.done = <<>>
    PROVE  ReportInv'
<1>1. <<>> \in Seq({}) BY EmptySeq
<1>2. <<>> \o <<>> = <<>> BY <1>1, ConcatEmptySeq
<1>3. QED BY <1>2 DEF ReportInv, Joined

\* A turn whose lists stay keeps its report.
LEMMA SameReport ==
    ASSUME ReportInv, UNCHANGED <<turn.saved, turn.reported, turn.report, turn.done>>,
           turn'.pc \notin {"gate", "cascade"} => turn.done = <<>>,
           turn'.pc \notin {"apply", "patch", "gate", "cascade"} => turn.report = <<>>,
           turn'.pc = "gate" /\ turn.done # <<>> => CascadeCall(calls'[TheBuilder])
    PROVE  ReportInv'
BY DEF ReportInv

LEMMA Lists ==
    ASSUME NEW S, NEW s \in Seq(S), NEW t \in Seq(S)
    PROVE  Joined(s, t) \in Seq(S) /\ Joined(s, <<>>) = s
BY ConcatProperties, ConcatEmptySeq DEF Joined

LEMMA ListsWith ==
    ASSUME NEW S, NEW s \in Seq(S), NEW t \in Seq(S), NEW e \in S
    PROVE  With(s, e) \in Seq(S) /\ With(Joined(s, t), e) = Joined(s, With(t, e))
<1>1. /\ Append(s \o t, e) = (s \o t) \o <<e>> /\ Append(t, e) = t \o <<e>>
      /\ <<e>> \in Seq(S) /\ s \o t \in Seq(S)
  BY AppendIsConcat, ConcatProperties
<1>2. Append(s \o t, e) = s \o Append(t, e) BY <1>1, ConcatAssociative
<1>3. Append(s, e) \in Seq(S) BY AppendProperties
<1>4. QED BY <1>2, <1>3 DEF Joined, With

LEMMA ListsJoined ==
    ASSUME NEW S, NEW s \in Seq(S), NEW t \in Seq(S), NEW u \in Seq(S)
    PROVE  Joined(Joined(s, t), u) = Joined(s, Joined(t, u))
BY ConcatAssociative DEF Joined

LEMMA HeadMovesOver ==
    ASSUME NEW S, NEW s \in Seq(S), NEW t \in Seq(S), t # <<>>
    PROVE  Joined(s, t) = Joined(With(s, Head(t)), Tail(t))
<1>1. Head(t) \in S /\ Tail(t) \in Seq(S) /\ <<Head(t)>> \in Seq(S) BY HeadTailProperties
<1>2. t = <<Head(t)>> \o Tail(t)
  <2>1. Len(t) \in Nat \ {0} BY EmptySeq
  <2>2. SubSeq(t, 1, Len(t)) = <<t[1]>> \o SubSeq(t, 1 + 1, Len(t))
    BY <2>1, SubSeqRecursiveFirst
  <2>3. SubSeq(t, 1, Len(t)) = t /\ SubSeq(t, 2, Len(t)) = Tail(t) /\ 1 + 1 = 2
    BY SubSeqFull, TailIsSubSeq
  <2>4. Head(t) = t[1] OBVIOUS
  <2>5. QED BY <2>2, <2>3, <2>4
<1>3. Append(s, Head(t)) = s \o <<Head(t)>> BY <1>1, AppendIsConcat
<1>4. s \o (<<Head(t)>> \o Tail(t)) = (s \o <<Head(t)>>) \o Tail(t) BY <1>1, ConcatAssociative
<1>5. QED BY <1>2, <1>3, <1>4 DEF Joined, With

LEMMA ReportKept == ASSUME GateInv, TurnInv, ReportInv, [Next]_vars PROVE ReportInv'
<1>0. /\ turn \in Turns /\ TheBuilder \in Callers
      /\ turn.saved \in Seq(Patches) /\ turn.reported \in Seq(Patches)
      /\ turn.report \in Seq(Patches) /\ turn.done \in Seq(Patches)
  <2>1. turn \in Turns /\ TheBuilder \in Callers BY BuilderAssumption DEF TurnInv
  <2>2. /\ turn.saved \in Seq(Patches) /\ turn.reported \in Seq(Patches)
        /\ turn.report \in Seq(Patches) /\ turn.done \in Seq(Patches)
    BY <2>1 DEF Turns
  <2>3. QED BY <2>1, <2>2
\* The turn waits: its call is served, or somebody else moves.
<1>1. CASE turn' = turn /\ calls'[TheBuilder] = calls[TheBuilder]
  BY <1>1 DEF ReportInv
<1>2. CASE turn' = turn /\ GateStep(TheBuilder)
  <2> DEFINE old == calls[TheBuilder]
             new == calls'[TheBuilder]
  <2>1. /\ new.path = old.path /\ new.value = old.value /\ new.expected = old.expected
        /\ \/ new.pc = "save" /\ old.pc = "read" /\ new.result = old.result
           \/ new.pc = "idle"
        /\ old.pc = "read" /\ new.pc = "idle" =>
              new.result = GateVerdict(old.path, old.value) /\ new.result # "accepted"
        /\ old.pc = "save" =>
              \/ new.result = "error"
              \/ new.result = "conflict" /\ old.expected # NoVersion
              \/ new.result = "accepted"
        /\ old.pc # "idle"
    BY <1>0, <1>2, ServiceStep
  <2> HIDE DEF old, new
  <2>2. CascadeCall(old) => CascadeCall(new)
    BY <2>1, BuilderAssumption DEF CascadeCall
  <2>3. QED BY <1>2, <2>2 DEF ReportInv, old, new
<1>3. CASE ServiceNext
  <2>1. PICK c \in Callers : GateStep(c) /\ turn' = turn BY <1>3 DEF ServiceNext, builderVars
  <2>2. CASE c = TheBuilder BY <1>2, <2>1, <2>2
  <2>3. CASE c # TheBuilder BY <1>0, <1>1, <2>1, <2>3, OthersLeaveTheCall
  <2>4. QED BY <2>2, <2>3
<1>4. CASE PanelNext
  <2>1. ThePanel \in Callers \ {TheBuilder} BY BuilderAssumption DEF ThePanel, TheBuilder
  <2>2. turn' = turn
    BY <1>4 DEF PanelNext, PanelAsks, PanelLoads, PanelReceives, PanelEdits, PanelEdited, builderVars
  <2>3. \/ calls' = calls
        \/ \E path, value, expected : GateCall(ThePanel, path, value, expected)
        \/ Take(ThePanel)
    BY <1>4 DEF PanelNext, PanelAsks, PanelLoads, PanelReceives, PanelEdits, PanelEdited
  <2>4. QED BY <1>0, <1>1, <2>1, <2>2, <2>3, OthersLeaveTheCall
<1>5. CASE ClientNext
  <2>1. TheClient \in Callers \ {TheBuilder} BY BuilderAssumption DEF TheClient, TheBuilder
  <2>2. turn' = turn BY <1>5 DEF ClientNext, ClientEdits, ClientReverts, ClientTakes, builderVars
  <2>3. \/ \E path, value, expected : GateCall(TheClient, path, value, expected)
        \/ \E n : GateRevert(TheClient, n)
        \/ Take(TheClient)
    BY <1>5 DEF ClientNext, ClientEdits, ClientReverts, ClientTakes
  <2>4. QED BY <1>0, <1>1, <2>1, <2>2, <2>3, OthersLeaveTheCall
<1>6. CASE LinksNext /\ UNCHANGED builderVars
  <2>1. TheSync \in Callers \ {TheBuilder} BY ConnectionsAssumption DEF TheSync, TheBuilder
  <2>2. turn' = turn BY <1>6 DEF builderVars
  <2>3. \/ calls' = calls
        \/ \E path, value, expected : GateCall(TheSync, path, value, expected)
        \/ Take(TheSync)
    BY <1>6 DEF LinksNext, BeginConnect, Callback, ExchangeFails, ExchangeDone, LinkAdded,
                DisconnectFinds, Revokes, Removes, Login, SeedsConnection, SeedsToken,
                SyncReads, SyncPatches, SyncReturns, SyncMovesOn, gateVars
  <2>4. QED BY <1>0, <1>1, <2>1, <2>2, <2>3, OthersLeaveTheCall
\* The turn moves.
<1>7. CASE BuilderOpens \/ BuilderStarts \/ BuilderEnds \/ BuilderFails \/ BuilderClientLeaves
  <2>1. turn'.saved = <<>> /\ turn'.reported = <<>> /\ turn'.report = <<>> /\ turn'.done = <<>>
    BY <1>7 DEF BuilderOpens, BuilderStarts, BuilderEnds, BuilderFails, BuilderClientLeaves, NoTurn
  <2>2. QED BY <2>1, FreshTurnReports
<1>8. CASE BuilderModelAnswers
  <2>1. PICK answer :
          turn' = [turn EXCEPT !.pc = "apply", !.todo = answer, !.report = <<>>, !.rejected = FALSE]
    BY <1>8 DEF BuilderModelAnswers
  <2>2. turn.pc = "model" BY <1>8 DEF BuilderModelAnswers
  <2>3. turn.report = <<>> /\ turn.done = <<>> BY <2>2 DEF ReportInv
  <2>4. /\ turn'.saved = turn.saved /\ turn'.reported = turn.reported /\ turn'.report = <<>>
        /\ turn'.done = turn.done /\ turn'.pc = "apply"
    BY <1>0, <2>1 DEF Turns
  <2>5. QED BY <2>3, <2>4, SameReport
<1>9. CASE BuilderApplies \/ BuilderRejects \/ BuilderRetries \/ BuilderReplies \/ BuilderConcludes
  <2>1. /\ UNCHANGED <<turn.saved, turn.reported, turn.report, turn.done>>
        /\ \/ turn'.pc = "patch" /\ turn.pc = "apply"
           \/ turn'.pc = "apply" /\ turn.pc = "apply"
           \/ turn'.pc \in {"model", "tokens", "reply"} /\ turn.report = <<>> /\ turn.pc = "apply"
           \/ turn'.pc = "tokens" /\ turn.pc = "reply"
    BY <1>0, <1>9 DEF BuilderApplies, BuilderRejects, BuilderRetries, BuilderReplies,
                      BuilderConcludes, Reported, Turns
  <2>2. turn.done = <<>> BY <2>1 DEF ReportInv
  <2>3. turn'.pc \notin {"apply", "patch", "gate", "cascade"} => turn.report = <<>>
    BY <2>1 DEF ReportInv
  <2>4. QED BY <2>1, <2>2, <2>3, SameReport
<1>10. ASSUME NEW path, NEW value, GateAsked(path, value),
              turn.done # <<>> => path = Calendar /\ value = {"on"}
       PROVE  ReportInv'
  <2>1. /\ UNCHANGED <<turn.saved, turn.reported, turn.report, turn.done>> /\ turn'.pc = "gate"
    BY <1>0, <1>10 DEF GateAsked, Turns
  <2> DEFINE call == [pc |-> "read", path |-> path, value |-> value, expected |-> NoVersion,
                      base |-> NoVersion, result |-> "none"]
  <2>2. calls' = [calls EXCEPT ![TheBuilder] = call] BY <1>10 DEF GateAsked, GateCall
  <2>3. turn.done # <<>> => CascadeCall(call) BY <1>10 DEF CascadeCall
  <2> HIDE DEF call
  <2>4. calls'[TheBuilder] = call BY <1>0, <2>2, LatestTyped
  <2>5. QED BY <2>1, <2>3, <2>4, SameReport
<1>11. CASE BuilderPatches
  <2>1. turn.done = <<>> BY <1>11 DEF BuilderPatches, ReportInv
  <2>2. QED BY <1>10, <1>11, <2>1 DEF BuilderPatches
<1>12. CASE BuilderCascades BY <1>10, <1>12 DEF BuilderCascades
<1>13. CASE BuilderAccepted
  <2>1. PICK accepted \in Patches : accepted = Accepted BY AcceptedTyped
  <2>2. PICK saved \in Seq(Patches), results \in Seq(Patches) :
          saved = With(turn.saved, accepted) /\ results = With(turn.done, accepted)
    BY <1>0, <2>1, ListsWith
  <2>3. saved = Joined(Joined(turn.reported, turn.report), results)
    <3>1. PICK all \in Seq(Patches) : all = Joined(turn.reported, turn.report) BY <1>0, Lists, <2>1
    <3>2. With(Joined(all, turn.done), accepted) = Joined(all, With(turn.done, accepted))
      BY <1>0, <2>1, <3>1, ListsWith
    <3>3. QED BY <2>2, <3>1, <3>2 DEF ReportInv
  <2>4. CASE Cascades(Call1)
    <3>1. turn' = [turn EXCEPT !.saved = saved, !.pc = "cascade", !.done = results]
      BY <1>0, <1>13, <2>1, <2>2, <2>4 DEF BuilderAccepted, Turns, With
    <3>2. /\ turn'.saved = saved /\ turn'.reported = turn.reported /\ turn'.report = turn.report
          /\ turn'.done = results /\ turn'.pc = "cascade"
      BY <1>0, <3>1 DEF Turns
    <3>3. QED BY <2>3, <3>2 DEF ReportInv
  <2>5. CASE ~Cascades(Call1)
    <3>1. PICK report \in Seq(Patches) : report = Joined(turn.report, results)
      BY <1>0, <2>1, <2>2, Lists
    <3>2. PICK todo : todo = Tail(turn.todo) OBVIOUS
    <3>3. turn' = [turn EXCEPT !.saved = saved, !.pc = "apply", !.done = <<>>,
                               !.todo = todo, !.report = report]
      BY <1>0, <1>13, <2>1, <2>2, <2>5, <3>1, <3>2 DEF BuilderAccepted, Turns, With, Joined
    <3>4. /\ turn'.saved = saved /\ turn'.reported = turn.reported /\ turn'.report = report
          /\ turn'.done = <<>> /\ turn'.pc = "apply"
      BY <1>0, <3>3 DEF Turns
    <3>5. saved = Joined(Joined(turn.reported, report), <<>>)
      <4>1. Joined(Joined(turn.reported, turn.report), results)
              = Joined(turn.reported, Joined(turn.report, results))
        BY <1>0, <2>2, ListsJoined
      <4>2. PICK all \in Seq(Patches) : all = Joined(turn.reported, report)
        BY <1>0, <2>1, <3>1, Lists
      <4>3. Joined(all, <<>>) = all BY <2>1, <4>2, Lists
      <4>4. QED BY <2>3, <3>1, <4>1, <4>2, <4>3
    <3>6. QED BY <3>4, <3>5 DEF ReportInv
  <2>6. QED BY <2>4, <2>5
<1>14. CASE BuilderRejected
  <2>1. turn.done = <<>>
    BY <1>14 DEF BuilderRejected, GateReturned, Outcome, ReportInv, CascadeCall, Returned
  <2>2. /\ UNCHANGED <<turn.saved, turn.reported, turn.report>> /\ turn'.done = <<>>
        /\ turn'.pc = "apply"
    BY <1>0, <1>14 DEF BuilderRejected, Turns
  <2>3. QED BY <2>1, <2>2, SameReport
<1>15. CASE BuilderReports
  <2>1. turn.report # <<>> /\ turn.pc = "apply" BY <1>15 DEF BuilderReports
  <2>2. PICK p \in Patches, rest \in Seq(Patches) : p = Head(turn.report) /\ rest = Tail(turn.report)
    BY <1>0, <2>1, HeadTailProperties
  <2>3. PICK reported \in Seq(Patches) : reported = With(turn.reported, p)
    BY <1>0, <2>2, ListsWith
  <2>4. turn' = [turn EXCEPT !.report = rest, !.reported = reported]
    BY <1>0, <1>15, <2>2, <2>3 DEF BuilderReports, Turns, With
  <2>5. /\ turn'.saved = turn.saved /\ turn'.reported = reported /\ turn'.report = rest
        /\ turn'.done = turn.done /\ turn'.pc = "apply"
    BY <1>0, <2>1, <2>4 DEF Turns
  <2>6. Joined(turn.reported, turn.report) = Joined(reported, rest)
    BY <1>0, <2>1, <2>2, <2>3, HeadMovesOver
  <2>7. turn.done = <<>> BY <2>1 DEF ReportInv
  <2>8. QED BY <2>5, <2>6, <2>7 DEF ReportInv
<1>16. CASE BuilderNext
  BY <1>7, <1>8, <1>9, <1>11, <1>12, <1>13, <1>14, <1>15, <1>16 DEF BuilderNext
<1>17. CASE UNCHANGED vars BY <1>1, <1>17 DEF vars, studioVars
<1>18. QED BY <1>3, <1>4, <1>5, <1>6, <1>16, <1>17 DEF Next

(***************************************************************************)
(* The connections: the reconciliation patches fields that anybody may     *)
(* patch, and a connection is what its flow, or a login, made.             *)
(***************************************************************************)
Known == Range(Providers)
Fields == Leaves \cap Paths
Syncs == [pc : {"idle", "seed", "token", "link", "provider", "patch", "gate"},
          todo : Seq(Known), patches : Seq(Fields)]
FlowStates == [pc : {"none", "pending", "exchange", "store", "used"}, tenant : Tenants,
               provider : Known]
Refs == [kind : {"flow"}, of : Flows] \cup [kind : {"dev"}, of : Known]
Links == [tenant : Tenants, provider : Known, ref : Refs]
Works == [pc : {"free", "revoke", "remove"}, ref : Refs]

SyncInv ==
    /\ sync \in Syncs /\ logins \in Nat /\ logins <= MaxLogins
    /\ sync.pc \in {"seed", "token"} => sync.todo # <<>>

LinksTyped ==
    flows \in [Flows -> FlowStates] /\ links \in Seq(Links) /\ workers \in [Workers -> Works]

LinksDiffer == \A i, j \in DOMAIN links : links[i].ref = links[j].ref => i = j

\* What a connection comes from: a login's placeholder or a flow that is used up.
Rightful(l, started) ==
    \/ l.tenant = Owner /\ l.ref = Placeholder(l.provider)
    \/ \E s \in Flows : /\ started[s].pc = "used"
                        /\ l = Link(started[s].tenant, started[s].provider, FlowRef(s))

LinksAreRightful == \A i \in DOMAIN links : Rightful(links[i], flows)

\* A reference has its token, or will in a moment, or its connection goes in a moment.
Live(ref) ==
    \/ ref \in creds
    \/ sync.pc = "token" /\ ref = Placeholder(Head(sync.todo))
    \/ \E w \in Workers : workers[w].pc = "remove" /\ workers[w].ref = ref

LinksAreLive == \A i \in DOMAIN links : Live(links[i].ref)

\* The token of a flow: from the callback's first write to the first of a disconnect.
FlowTokens ==
    /\ \A s \in Flows : flows[s].pc = "store" => FlowRef(s) \in creds
    /\ \A s \in Flows : FlowRef(s) \in creds =>
          flows[s].pc = "store" \/ \E i \in DOMAIN links : links[i].ref = FlowRef(s)
    /\ \A w \in Workers, s \in Flows : workers[w].ref = FlowRef(s) =>
          flows[s].pc = "used" /\ (workers[w].pc = "remove" => FlowRef(s) \notin creds)

LinksInv == LinksTyped /\ LinksDiffer /\ LinksAreRightful /\ LinksAreLive /\ FlowTokens

(***************************************************************************)
(* The panel: what it shows, what is on its way to it and what the builder *)
(* is about to report are values of some version of the history.           *)
(***************************************************************************)
Served(p) ==
    \E i \in 1 .. Latest : /\ \A l \in Under(p.path) : versions[i].cfg[l] = p.value
                           /\ p.ready => versions[i].status = "ready"
ServedPatches == {p \in Patches : Served(p)}
ServedMessages ==
    {m \in [kind : {"patch", "notice", "done"}, patch : Patches] : m.kind = "patch" => Served(m.patch)}

CallServed(c) ==
    /\ calls[c].pc # "revert"
    /\ calls[c].pc # "idle" => calls[c].result = "none"
    /\ calls[c].result = "accepted" => MadeBy(calls[c], versions)

ServedInv ==
    /\ turn.done \in Seq(ServedPatches) /\ turn.report \in Seq(ServedPatches)
    /\ wire \in Seq(ServedMessages)
    /\ CallServed(TheBuilder) /\ CallServed(ThePanel)

Panels == [cfg : [Leaves -> SUBSET (Atoms \cup {BadType})], ready : BOOLEAN, load : Nat,
           editing : BOOLEAN]

PanelInv ==
    /\ panel \in Panels /\ panel.load <= Latest
    /\ Loaded => \A l \in Leaves : \E i \in 1 .. Latest : panel.cfg[l] = versions[i].cfg[l]
    /\ panel.ready => \E i \in 1 .. Latest : versions[i].status = "ready"

\* The inductive invariant of the studio.
StudioInv ==
    /\ GateInv /\ RoomInv /\ TurnInv /\ ReportInv /\ SyncInv
    /\ LinksInv /\ ServedInv /\ PanelInv

(***************************************************************************)
(* The studio changes the agent only as the gate allows: every step of it  *)
(* is a step of GateNext, or leaves the history and the calls alone.       *)
(***************************************************************************)
LEMMA SomebodyCalls ==
    ASSUME NEW c \in Callers, NEW path \in Paths, NEW value \in SUBSET Atoms,
           NEW expected \in 0 .. Latest, GateCall(c, path, value, expected)
    PROVE  GateNext
BY DEF GateNext

LEMMA SomebodyTakes == ASSUME NEW c \in Callers, Take(c) PROVE GateNext
BY DEF GateNext

LEMMA StudioStepIsGateStep == ASSUME GateInv, TurnInv, SyncInv, [Next]_vars PROVE [GateNext]_gateVars
<1>0. /\ Latest \in Nat /\ Latest >= 1 /\ NoVersion \in 0 .. Latest
      /\ TheBuilder \in Callers /\ ThePanel \in Callers /\ TheClient \in Callers /\ TheSync \in Callers
      /\ {"on"} \in SUBSET Atoms /\ Calendar \in Paths
  BY LatestTyped, BuilderAssumption, ConnectionsAssumption DEF NoVersion
<1>1. CASE UNCHANGED gateVars BY <1>1
<1>2. CASE ServiceNext BY <1>2 DEF ServiceNext, GateNext
<1>3. CASE BuilderPatches
  <2>1. Call1 \in Requests
    <3>1. turn.pc = "patch" BY <1>3 DEF BuilderPatches
    <3>2. turn.todo # <<>> BY <3>1 DEF TurnInv
    <3>3. QED BY <3>2, Call1Typed
  <2>2. Call1.path \in Paths /\ Call1.value \in SUBSET Atoms BY <2>1 DEF Requests
  <2>3. GateCall(TheBuilder, Call1.path, Call1.value, NoVersion)
    BY <1>3 DEF BuilderPatches, GateAsked
  <2>4. QED BY <1>0, <2>2, <2>3, SomebodyCalls
<1>4. CASE BuilderCascades
  <2>1. GateCall(TheBuilder, Calendar, {"on"}, NoVersion) BY <1>4 DEF BuilderCascades, GateAsked
  <2>2. QED BY <1>0, <2>1, SomebodyCalls
<1>5. CASE BuilderAccepted \/ BuilderRejected \/ BuilderFails
  <2>1. Take(TheBuilder) BY <1>5 DEF BuilderAccepted, BuilderRejected, BuilderFails
  <2>2. QED BY <1>0, <2>1, SomebodyTakes
<1>6. CASE BuilderNext
  BY <1>1, <1>3, <1>4, <1>5, <1>6
     DEF BuilderNext, gateVars, BuilderOpens, BuilderStarts, BuilderModelAnswers, BuilderApplies,
         BuilderRejects, BuilderReports, BuilderRetries, BuilderConcludes, BuilderReplies,
         BuilderEnds, BuilderClientLeaves
<1>7. CASE PanelNext
  <2>1. CASE PanelEdits
    <3>1. PICK p \in PanelPatches : GateCall(ThePanel, p[1], p[2], NoVersion)
      BY <2>1 DEF PanelEdits
    <3>2. p[1] \in Paths /\ p[2] \in SUBSET Atoms BY <3>1, BuilderAssumption
    <3>3. QED BY <1>0, <3>1, <3>2, SomebodyCalls
  <2>2. CASE PanelEdited
    <3>1. Take(ThePanel) BY <2>2 DEF PanelEdited
    <3>2. QED BY <1>0, <3>1, SomebodyTakes
  <2>3. QED
    BY <1>1, <1>7, <2>1, <2>2 DEF PanelNext, PanelAsks, PanelLoads, PanelReceives, gateVars
<1>8. CASE ClientNext
  <2>1. CASE ClientEdits
    <3>1. PICK p \in ApiPatches, v \in 1 .. Latest : GateCall(TheClient, p[1], p[2], v)
      BY <2>1 DEF ClientEdits
    <3>2. p[1] \in Paths /\ p[2] \in SUBSET Atoms /\ v \in 0 .. Latest
      BY <1>0, <3>1, BuilderAssumption
    <3>3. QED BY <1>0, <3>1, <3>2, SomebodyCalls
  <2>2. CASE ClientReverts
    <3>1. PICK n \in 1 .. Latest - 1 : GateRevert(TheClient, n) BY <2>2 DEF ClientReverts
    <3>2. n \in 1 .. Latest BY <1>0, <3>1
    <3>3. QED BY <1>0, <3>1, <3>2 DEF GateNext
  <2>3. CASE ClientTakes
    <3>1. Take(TheClient) BY <2>3 DEF ClientTakes
    <3>2. QED BY <1>0, <3>1, SomebodyTakes
  <2>4. QED BY <1>8, <2>1, <2>2, <2>3 DEF ClientNext
<1>9. CASE LinksNext
  <2>1. CASE SyncPatches
    <3>1. sync.patches # <<>> /\ sync.patches \in Seq(Fields) BY <2>1 DEF SyncPatches, SyncInv, Syncs
    <3>2. Head(sync.patches) \in Fields BY <3>1, HeadTailProperties
    <3>3. PICK path \in Paths : path = Head(sync.patches) BY <3>2 DEF Fields
    <3>4. GateCall(TheSync, path, {"on"}, NoVersion) BY <2>1, <3>3 DEF SyncPatches
    <3>5. QED BY <1>0, <3>3, <3>4, SomebodyCalls
  <2>2. CASE SyncReturns
    <3>1. Take(TheSync) BY <2>2 DEF SyncReturns
    <3>2. QED BY <1>0, <3>1, SomebodyTakes
  <2>3. QED
    BY <1>1, <1>9, <2>1, <2>2 DEF LinksNext, BeginConnect, Callback, ExchangeFails, ExchangeDone,
                                  LinkAdded, DisconnectFinds, Revokes, Removes, Login,
                                  SeedsConnection, SeedsToken, SyncReads, SyncMovesOn
<1>10. CASE UNCHANGED vars BY <1>1, <1>10 DEF vars, studioVars, gateVars
<1>11. QED BY <1>2, <1>6, <1>7, <1>8, <1>9, <1>10 DEF Next

(***************************************************************************)
(* What was served stays served.                                           *)
(***************************************************************************)
LEMMA ServedStays ==
    ASSUME GateInv, Grows
    PROVE  /\ ServedPatches \subseteq ServedPatches' /\ ServedMessages \subseteq ServedMessages'
           /\ \A call : MadeBy(call, versions) => MadeBy(call, versions')
<1>0. Latest \in Nat /\ Latest = Len(versions) /\ Latest' = Len(versions') /\ Latest <= Latest'
  BY LatestTyped DEF Latest, Grows
<1>1. \A i \in 1 .. Latest : i \in 1 .. Latest' /\ versions'[i] = versions[i]
  BY <1>0 DEF Grows
<1>2. \A p : Served(p) => Served(p)' BY <1>1 DEF Served
<1>3. ServedPatches \subseteq ServedPatches' BY <1>2 DEF ServedPatches
<1>4. ServedMessages \subseteq ServedMessages' BY <1>2 DEF ServedMessages
<1>5. \A call : MadeBy(call, versions) => MadeBy(call, versions') BY <1>0, <1>1 DEF MadeBy
<1>6. QED BY <1>3, <1>4, <1>5

LEMMA ListsStayServed ==
    ASSUME GateInv, Grows, turn'.done \in Seq(ServedPatches), turn'.report \in Seq(ServedPatches),
           wire' \in Seq(ServedMessages), CallServed(TheBuilder)', CallServed(ThePanel)'
    PROVE  ServedInv'
<1>1. turn'.done \in Seq(ServedPatches') /\ turn'.report \in Seq(ServedPatches')
  BY ServedStays, SeqMonotonic
<1>2. wire' \in Seq(ServedMessages') BY ServedStays, SeqMonotonic
<1>3. QED BY <1>1, <1>2 DEF ServedInv

LEMMA CallStaysServed ==
    ASSUME GateInv, Grows, NEW c \in Callers, CallServed(c),
           \/ calls'[c] = calls[c]
           \/ \E path, value, expected : GateCall(c, path, value, expected)
           \/ GateStep(c) \/ Take(c)
    PROVE  CallServed(c)'
<1>0. calls \in [Callers -> Calls] BY LatestTyped
<1>1. CASE calls'[c] = calls[c] BY <1>1, ServedStays DEF CallServed
<1>2. CASE \E path, value, expected : GateCall(c, path, value, expected)
  <2>1. \E path, value, expected :
          calls' = [calls EXCEPT ![c] =
             [pc |-> "read", path |-> path, value |-> value, expected |-> expected,
              base |-> NoVersion, result |-> "none"]]
    BY <1>2 DEF GateCall
  <2>2. calls'[c].pc = "read" /\ calls'[c].result = "none" BY <1>0, <2>1
  <2>3. QED BY <2>2 DEF CallServed
<1>3. CASE GateStep(c)
  <2>1. /\ calls[c].pc # "idle"
        /\ \/ calls'[c].pc = "save" /\ calls[c].pc = "read" /\ calls'[c].result = calls[c].result
           \/ calls'[c].pc = "idle"
        /\ calls[c].pc = "read" /\ calls'[c].pc = "idle" => calls'[c].result # "accepted"
        /\ calls[c].pc = "save" =>
             \/ calls'[c].result = "error"
             \/ calls'[c].result = "conflict"
             \/ calls'[c].result = "accepted" /\ MadeBy(calls'[c], versions')
    BY <1>3, ServiceStep
  <2>2. calls[c].pc \in {"read", "save"}
    BY <1>0, <2>1 DEF CallServed, Calls, CallPhases
  <2>3. QED BY <2>1, <2>2 DEF CallServed
<1>4. CASE Take(c)
  <2>1. calls' = [calls EXCEPT ![c] = Idle] BY <1>4 DEF Take
  <2>2. calls'[c].pc = "idle" /\ calls'[c].result = "none" BY <1>0, <2>1 DEF Idle
  <2>3. QED BY <2>2 DEF CallServed
<1>5. QED BY <1>1, <1>2, <1>3, <1>4

\* The builder and the panel never restore a version.
LEMMA WhoseCall ==
    ASSUME GateInv, [Next]_vars, NEW c \in {TheBuilder, ThePanel}
    PROVE  \/ calls'[c] = calls[c]
           \/ \E path, value, expected : GateCall(c, path, value, expected)
           \/ GateStep(c) \/ Take(c)
<1> DEFINE Goal == \/ calls'[c] = calls[c]
                   \/ \E path, value, expected : GateCall(c, path, value, expected)
                   \/ GateStep(c) \/ Take(c)
<1>0. c \in Callers /\ c \notin {TheClient, TheSync}
  BY BuilderAssumption DEF TheBuilder, ThePanel, TheClient, TheSync
<1>1. ASSUME NEW d \in Callers,
             \/ calls' = calls
             \/ \E path, value, expected : GateCall(d, path, value, expected)
             \/ GateStep(d) \/ Take(d)
      PROVE  Goal
  <2>1. CASE c = d BY <1>1, <2>1
  <2>2. CASE c # d BY <1>0, <1>1, <2>2, OthersLeaveTheCall
  <2>3. QED BY <2>1, <2>2
<1>2. CASE ServiceNext BY <1>1, <1>2 DEF ServiceNext
<1>3. CASE BuilderNext
  <2>1. \/ calls' = calls
        \/ \E path, value, expected : GateCall(TheBuilder, path, value, expected)
        \/ Take(TheBuilder)
    BY <1>3 DEF BuilderNext, BuilderOpens, BuilderStarts, BuilderModelAnswers, BuilderApplies,
                BuilderPatches, BuilderRejects, BuilderAccepted, BuilderCascades, BuilderRejected,
                BuilderReports, BuilderRetries, BuilderConcludes, BuilderReplies, BuilderEnds,
                BuilderFails, BuilderClientLeaves, GateAsked
  <2>2. QED BY <1>1, <2>1, BuilderAssumption
<1>4. CASE PanelNext
  <2>1. \/ calls' = calls
        \/ \E path, value, expected : GateCall(ThePanel, path, value, expected)
        \/ Take(ThePanel)
    BY <1>4 DEF PanelNext, PanelAsks, PanelLoads, PanelReceives, PanelEdits, PanelEdited
  <2>2. QED BY <1>1, <2>1, BuilderAssumption
<1>5. CASE ClientNext
  <2>1. \/ \E path, value, expected : GateCall(TheClient, path, value, expected)
        \/ \E n : GateRevert(TheClient, n)
        \/ Take(TheClient)
    BY <1>5 DEF ClientNext, ClientEdits, ClientReverts, ClientTakes
  <2>2. QED BY <1>0, <2>1, BuilderAssumption, OthersLeaveTheCall
<1>6. CASE LinksNext
  <2>1. \/ calls' = calls
        \/ \E path, value, expected : GateCall(TheSync, path, value, expected)
        \/ Take(TheSync)
    BY <1>6 DEF LinksNext, BeginConnect, Callback, ExchangeFails, ExchangeDone, LinkAdded,
                DisconnectFinds, Revokes, Removes, Login, SeedsConnection, SeedsToken,
                SyncReads, SyncPatches, SyncReturns, SyncMovesOn, gateVars
  <2>2. QED BY <1>0, <1>1, <2>1, ConnectionsAssumption
<1>7. CASE UNCHANGED vars BY <1>7 DEF vars, studioVars
<1>8. QED BY <1>2, <1>3, <1>4, <1>5, <1>6, <1>7 DEF Next

\* What the builder is about to record was made by its call.
LEMMA AcceptedServed ==
    ASSUME GateInv, CallServed(TheBuilder), Outcome.result = "accepted"
    PROVE  Accepted \in ServedPatches
<1>1. MadeBy(calls[TheBuilder], versions) BY DEF CallServed, Outcome
<1>2. PICK i \in 1 .. Latest : i = Outcome.base BY <1>1 DEF MadeBy, Outcome, Latest
<1>3. \A l \in Under(Outcome.path) : versions[i].cfg[l] = Outcome.value
  BY <1>1, <1>2 DEF MadeBy, Outcome
<1>4. /\ Accepted.path = Outcome.path /\ Accepted.value = Outcome.value
      /\ Accepted.ready => versions[i].status = "ready"
  BY <1>2 DEF Accepted
<1>5. Served(Accepted) BY <1>3, <1>4 DEF Served
<1>6. QED BY <1>5, AcceptedTyped DEF ServedPatches

LEMMA NoEventServed == \A kind \in {"notice", "done"} : Event(kind, NoEvent) \in ServedMessages
<1>1. <<>> \in Seq(Segments) BY EmptySeq
<1>2. QED BY <1>1 DEF Event, NoEvent, NoPatch, ServedMessages, Patches

LEMMA PatchEventServed == \A p \in ServedPatches : Event("patch", p) \in ServedMessages
BY DEF Event, ServedMessages, ServedPatches

LEMMA PairIsSeq == ASSUME NEW S, NEW m \in S, NEW n \in S PROVE <<m, n>> \in Seq(S)
OBVIOUS

LEMMA OneIsSeq == ASSUME NEW S, NEW m \in S PROVE <<m>> \in Seq(S)
OBVIOUS

LEMMA ServedKept ==
    ASSUME GateInv, RoomInv, TurnInv, SyncInv, ServedInv, [Next]_vars
    PROVE  ServedInv'
<1>0. /\ Grows /\ turn \in Turns
      /\ turn.done \in Seq(ServedPatches) /\ turn.report \in Seq(ServedPatches)
      /\ wire \in Seq(ServedMessages)
  BY StudioStepIsGateStep, RoomKeeps DEF TurnInv, ServedInv
<1>1. CallServed(TheBuilder)' /\ CallServed(ThePanel)'
  <2>1. ASSUME NEW c \in {TheBuilder, ThePanel} PROVE CallServed(c)'
    <3>1. c \in Callers /\ CallServed(c) BY BuilderAssumption DEF ServedInv
    <3>2. QED BY <1>0, <3>1, WhoseCall, CallStaysServed
  <2>2. QED BY <2>1
<1>2. ASSUME turn'.done \in Seq(ServedPatches), turn'.report \in Seq(ServedPatches),
             wire' \in Seq(ServedMessages)
      PROVE  ServedInv'
  BY <1>0, <1>1, <1>2, ListsStayServed
<1>3. <<>> \in Seq(ServedPatches) /\ <<>> \in Seq(ServedMessages) BY EmptySeq
<1>4. CASE UNCHANGED <<turn, wire>> BY <1>0, <1>2, <1>4
<1>5. CASE BuilderOpens \/ BuilderStarts \/ BuilderClientLeaves
  <2>1. turn'.done = <<>> /\ turn'.report = <<>> /\ wire' \in {wire, <<>>}
    BY <1>5 DEF BuilderOpens, BuilderStarts, BuilderClientLeaves, NoTurn
  <2>2. QED BY <1>0, <1>2, <1>3, <2>1
<1>6. CASE BuilderEnds
  <2>1. turn'.done = <<>> /\ turn'.report = <<>> /\ wire' = Append(wire, Event("done", NoEvent))
    BY <1>6 DEF BuilderEnds, NoTurn
  <2>2. PICK m \in ServedMessages : m = Event("done", NoEvent) BY NoEventServed
  <2>3. Append(wire, m) \in Seq(ServedMessages) BY <1>0, <2>2, AppendProperties
  <2>4. QED BY <1>2, <1>3, <2>1, <2>2, <2>3
<1>7. CASE BuilderFails
  <2>1. /\ turn'.done = <<>> /\ turn'.report = <<>>
        /\ wire' = wire \o <<Event("notice", NoEvent), Event("done", NoEvent)>>
    BY <1>7 DEF BuilderFails, NoTurn
  <2>2. PICK m \in ServedMessages, n \in ServedMessages :
          m = Event("notice", NoEvent) /\ n = Event("done", NoEvent)
    BY NoEventServed
  <2>3. PICK end \in Seq(ServedMessages) : end = <<m, n>> BY <2>2, PairIsSeq
  <2>4. wire \o end \in Seq(ServedMessages) BY <1>0, <2>3, ConcatProperties
  <2>5. QED BY <1>2, <1>3, <2>1, <2>2, <2>3, <2>4
<1>8. CASE BuilderConcludes
  <2>1. /\ turn'.done = turn.done /\ turn'.report = turn.report
        /\ wire' = wire \/ wire' = Append(wire, Event("notice", NoEvent))
    BY <1>0, <1>8 DEF BuilderConcludes, Turns
  <2>2. PICK m \in ServedMessages : m = Event("notice", NoEvent) BY NoEventServed
  <2>3. Append(wire, m) \in Seq(ServedMessages) BY <1>0, <2>2, AppendProperties
  <2>4. QED BY <1>0, <1>2, <2>1, <2>2, <2>3
<1>9. CASE \/ BuilderModelAnswers \/ BuilderApplies \/ BuilderPatches \/ BuilderRejects
           \/ BuilderCascades \/ BuilderRejected \/ BuilderRetries \/ BuilderReplies
  <2>1. /\ turn'.done \in {turn.done, <<>>} /\ turn'.report \in {turn.report, <<>>} /\ wire' = wire
    BY <1>0, <1>9 DEF BuilderModelAnswers, BuilderApplies, BuilderPatches, BuilderRejects,
         BuilderCascades, BuilderRejected, BuilderRetries, BuilderReplies, GateAsked, Turns
  <2>2. QED BY <1>0, <1>2, <1>3, <2>1
<1>10. CASE BuilderAccepted
  <2>1. PICK accepted \in ServedPatches : accepted = Accepted
    BY <1>10, AcceptedServed DEF BuilderAccepted, ServedInv
  <2>2. PICK results \in Seq(ServedPatches) : results = With(turn.done, accepted)
    BY <1>0, <2>1, ListsWith
  <2>3. PICK report \in Seq(ServedPatches) : report = Joined(turn.report, results)
    BY <1>0, <2>2, Lists
  <2>4. /\ turn'.done \in {results, <<>>} /\ turn'.report \in {turn.report, report} /\ wire' = wire
    BY <1>0, <1>10, <2>1, <2>2, <2>3 DEF BuilderAccepted, Turns, With, Joined
  <2>5. QED BY <1>0, <1>2, <1>3, <2>2, <2>3, <2>4
<1>11. CASE BuilderReports
  <2>1. turn.report # <<>> BY <1>11 DEF BuilderReports
  <2>2. PICK p \in ServedPatches, rest \in Seq(ServedPatches) :
          p = Head(turn.report) /\ rest = Tail(turn.report)
    BY <1>0, <2>1, HeadTailProperties
  <2>3. PICK m \in ServedMessages : m = Event("patch", p) BY <2>2, PatchEventServed
  <2>4. wire' = Append(wire, m) /\ turn'.done = turn.done /\ turn'.report = rest
    BY <1>0, <1>11, <2>2, <2>3 DEF BuilderReports, Turns
  <2>5. Append(wire, m) \in Seq(ServedMessages) BY <1>0, <2>3, AppendProperties
  <2>6. QED BY <1>0, <1>2, <2>2, <2>4, <2>5
<1>12. CASE BuilderNext
  BY <1>5, <1>6, <1>7, <1>8, <1>9, <1>10, <1>11, <1>12 DEF BuilderNext
<1>13. CASE PanelNext
  <2>1. CASE PanelReceives
    <3>1. wire # <<>> /\ wire' = Tail(wire) /\ turn' = turn BY <2>1 DEF PanelReceives
    <3>2. Tail(wire) \in Seq(ServedMessages) BY <1>0, <3>1, HeadTailProperties
    <3>3. QED BY <1>0, <1>2, <3>1, <3>2
  <2>2. QED
    BY <1>4, <1>13, <2>1 DEF PanelNext, PanelAsks, PanelLoads, PanelEdits, PanelEdited, builderVars
<1>14. CASE ServiceNext \/ ClientNext \/ UNCHANGED builderVars \/ UNCHANGED vars
  BY <1>4, <1>14 DEF ServiceNext, ClientNext, ClientEdits, ClientReverts, ClientTakes, builderVars,
                     vars, studioVars
<1>15. QED BY <1>12, <1>13, <1>14 DEF Next

(***************************************************************************)
(* The panel.                                                              *)
(***************************************************************************)
Showing(cfg) ==
    /\ cfg \in [Leaves -> SUBSET (Atoms \cup {BadType})]
    /\ cfg # NotLoaded => \A l \in Leaves : \E i \in 1 .. Latest : cfg[l] = versions[i].cfg[l]

Deployable == \E i \in 1 .. Latest : versions[i].status = "ready"

\* A panel that shows what the history holds still does when the history has grown.
LEMMA PanelMoves ==
    ASSUME GateInv, Grows, panel' \in Panels, panel'.load <= Latest, Showing(panel'.cfg),
           panel'.ready => Deployable
    PROVE  PanelInv'
<1>0. Latest \in Nat /\ Latest' = Len(versions') /\ Latest <= Latest'
  BY LatestTyped DEF Grows, Latest
<1>1. \A i \in 1 .. Latest : i \in 1 .. Latest' /\ versions'[i] = versions[i] BY <1>0 DEF Grows
<1>2. panel'.load <= Latest' BY <1>0 DEF Panels
<1>4. panel'.cfg # NotLoaded => \A l \in Leaves : \E i \in 1 .. Latest' : panel'.cfg[l] = versions'[i].cfg[l]
  BY <1>1 DEF Showing
<1>5. panel'.ready => \E i \in 1 .. Latest' : versions'[i].status = "ready" BY <1>1 DEF Deployable
<1>6. QED BY <1>2, <1>4, <1>5 DEF PanelInv, Loaded

\* One accepted patch, on a panel that shows something.
LEMMA PatchIsShown ==
    ASSUME PanelInv, NEW path, NEW value \in SUBSET Atoms, NEW i \in 1 .. Latest,
           \A l \in Under(path) : versions[i].cfg[l] = value
    PROVE  Showing(Shown(path, value))
<1>1. /\ panel.cfg \in [Leaves -> SUBSET (Atoms \cup {BadType})]
      /\ Loaded => \A l \in Leaves : \E j \in 1 .. Latest : panel.cfg[l] = versions[j].cfg[l]
  BY DEF PanelInv, Panels
<1>2. CASE ~Loaded BY <1>1, <1>2 DEF Shown, Showing, Loaded
<1>3. CASE Loaded
  <2>1. Shown(path, value) = Patched(panel.cfg, path, value) BY <1>3 DEF Shown
  <2>2. Patched(panel.cfg, path, value) \in [Leaves -> SUBSET (Atoms \cup {BadType})]
    BY <1>1 DEF Patched
  <2>3. \A l \in Leaves : Patched(panel.cfg, path, value)[l]
                            = IF l \in Under(path) THEN value ELSE panel.cfg[l]
    BY DEF Patched
  <2>4. \A l \in Leaves : \E j \in 1 .. Latest :
          Patched(panel.cfg, path, value)[l] = versions[j].cfg[l]
    BY <1>1, <1>3, <2>3
  <2>5. QED BY <2>1, <2>2, <2>4 DEF Showing
<1>4. QED BY <1>2, <1>3

LEMMA PanelKept ==
    ASSUME GateInv, RoomInv, TurnInv, SyncInv, ServedInv, PanelInv, [Next]_vars
    PROVE  PanelInv'
<1>0. /\ Grows /\ Latest \in Nat /\ panel \in Panels /\ panel.load <= Latest
      /\ Showing(panel.cfg)
      /\ panel.ready => Deployable
  <2>1. Grows /\ Latest \in Nat BY StudioStepIsGateStep, RoomKeeps, LatestTyped
  <2>2. panel \in Panels /\ panel.load <= Latest BY DEF PanelInv
  <2>3. Showing(panel.cfg) BY <2>2 DEF PanelInv, Panels, Showing, Loaded
  <2>4. panel.ready => Deployable BY DEF PanelInv, Deployable
  <2>5. QED BY <2>1, <2>2, <2>3, <2>4
<1>1. CASE panel' = panel BY <1>0, <1>1, PanelMoves
<1>2. CASE PanelAsks
  <2>1. panel' = [panel EXCEPT !.load = Latest] BY <1>2 DEF PanelAsks
  <2>2. /\ panel' \in Panels /\ panel'.load = Latest /\ panel'.cfg = panel.cfg
        /\ panel'.ready = panel.ready
    BY <1>0, <2>1 DEF Panels
  <2>3. QED BY <1>0, <2>2, PanelMoves
<1>3. CASE PanelLoads
  <2>1. PICK n \in 1 .. Latest : n = panel.load
    BY <1>0, <1>3 DEF PanelLoads, NoVersion, Panels
  <2>2. versions[n] \in Snapshots BY ElementOfSeq DEF GateInv, HistoryInv, Latest
  <2>3. PICK cfg \in Configs, ready \in BOOLEAN :
          cfg = versions[n].cfg /\ ready = (versions[n].status = "ready")
    BY <2>2 DEF Snapshots
  <2>4. panel' = [panel EXCEPT !.cfg = cfg, !.ready = ready, !.load = NoVersion]
    BY <1>3, <2>1, <2>3 DEF PanelLoads
  <2>5. /\ panel' \in Panels /\ panel'.load = 0 /\ panel'.cfg = cfg /\ panel'.ready = ready
    BY <1>0, <2>3, <2>4 DEF Panels, Configs, NoVersion
  <2>6. Showing(cfg) BY <2>3 DEF Showing, Configs
  <2>7. ready => Deployable BY <2>3 DEF Deployable
  <2>8. QED BY <1>0, <2>5, <2>6, <2>7, PanelMoves
<1>4. CASE PanelReceives
  <2>1. PICK e \in ServedMessages : e = Head(wire)
    BY <1>4, HeadTailProperties DEF PanelReceives, ServedInv
  <2>2. CASE e.kind # "patch" BY <1>1, <1>4, <2>1, <2>2 DEF PanelReceives
  <2>3. CASE e.kind = "patch"
    <3>1. e.patch \in Patches /\ Served(e.patch) BY <2>3 DEF ServedMessages
    <3>2. PICK i \in 1 .. Latest : /\ \A l \in Under(e.patch.path) : versions[i].cfg[l] = e.patch.value
                                   /\ e.patch.ready => versions[i].status = "ready"
      BY <3>1 DEF Served
    <3>3. e.patch.value \in SUBSET Atoms /\ e.patch.ready \in BOOLEAN BY <3>1 DEF Patches
    <3>4. Showing(Shown(e.patch.path, e.patch.value)) BY <3>2, <3>3, PatchIsShown
    <3>5. PICK cfg : cfg = Shown(e.patch.path, e.patch.value) OBVIOUS
    <3>a. PICK ready \in BOOLEAN : ready = (panel.ready \/ (Loaded /\ e.patch.ready))
      BY Zenon
    <3>6. panel' = [panel EXCEPT !.cfg = cfg, !.ready = ready]
      BY <1>0, <1>4, <2>1, <2>3, <3>5, <3>a DEF PanelReceives, Panels
    <3>7. /\ panel' \in Panels /\ panel'.load = panel.load /\ panel'.cfg = cfg
          /\ panel'.ready = ready
      BY <1>0, <3>4, <3>5, <3>a, <3>6 DEF Panels, Showing
    <3>8. ready => Deployable BY <1>0, <3>2, <3>5, <3>a DEF Deployable
    <3>9. QED BY <1>0, <3>4, <3>5, <3>a, <3>7, <3>8, PanelMoves
  <2>4. QED BY <2>2, <2>3
<1>5. CASE PanelEdits
  <2>1. panel' = [panel EXCEPT !.editing = TRUE] BY <1>5 DEF PanelEdits
  <2>2. /\ panel' \in Panels /\ panel'.load = panel.load /\ panel'.cfg = panel.cfg
        /\ panel'.ready = panel.ready
    BY <1>0, <2>1 DEF Panels
  <2>3. QED BY <1>0, <2>2, PanelMoves
<1>6. CASE PanelEdited
  <2> DEFINE call == calls[ThePanel]
  <2>1. PICK cfg : cfg = IF call.result = "accepted" THEN Shown(call.path, call.value) ELSE panel.cfg
    OBVIOUS
  <2>2. panel' = [panel EXCEPT !.editing = FALSE, !.cfg = cfg] BY <1>0, <1>6, <2>1 DEF PanelEdited, Panels
  <2>3. Showing(cfg)
    <3>1. CASE call.result # "accepted" BY <1>0, <2>1, <3>1
    <3>2. CASE call.result = "accepted"
      <4>1. call \in Calls BY LatestTyped, BuilderAssumption
      <4>2. MadeBy(call, versions) BY <3>2 DEF ServedInv, CallServed
      <4>3. PICK i \in 1 .. Latest : i = call.base BY <4>2 DEF MadeBy, Latest
      <4>4. \A l \in Under(call.path) : versions[i].cfg[l] = call.value BY <4>2, <4>3 DEF MadeBy
      <4>5. call.value \in SUBSET Atoms BY <4>1 DEF Calls
      <4>6. QED BY <2>1, <3>2, <4>4, <4>5, PatchIsShown
    <3>3. QED BY <3>1, <3>2
  <2>4. /\ panel' \in Panels /\ panel'.load = panel.load /\ panel'.cfg = cfg
        /\ panel'.ready = panel.ready
    BY <1>0, <2>2, <2>3 DEF Panels, Showing
  <2>5. QED BY <1>0, <2>3, <2>4, PanelMoves
<1>7. CASE PanelNext BY <1>2, <1>3, <1>4, <1>5, <1>6, <1>7 DEF PanelNext
<1>8. CASE BuilderNext
  BY <1>1, <1>8
     DEF BuilderNext, BuilderOpens, BuilderStarts, BuilderModelAnswers, BuilderApplies,
         BuilderPatches, BuilderRejects, BuilderAccepted, BuilderCascades, BuilderRejected,
         BuilderReports, BuilderRetries, BuilderConcludes, BuilderReplies, BuilderEnds,
         BuilderFails, BuilderClientLeaves, GateAsked
<1>9. CASE ServiceNext \/ ClientNext \/ UNCHANGED <<builderVars, panel>> \/ UNCHANGED vars
  BY <1>1, <1>9 DEF ServiceNext, ClientNext, ClientEdits, ClientReverts, ClientTakes, vars, studioVars
<1>10. QED BY <1>7, <1>8, <1>9 DEF Next

(***************************************************************************)
(* Lists: a part of a list, and a list without one of its members.         *)
(***************************************************************************)
LEMMA SublistIsOrdered ==
    ASSUME NEW S, NEW list \in Seq(S), NEW places \in SUBSET DOMAIN list,
           NEW part \in Sublists(list, places)
    PROVE  /\ part \in Seq(S)
           /\ \E order \in [1 .. Len(part) -> places] :
                 /\ \A j, k \in 1 .. Len(part) : j < k => order[j] < order[k]
                 /\ \A k \in 1 .. Len(part) : part[k] = list[order[k]]
<1>1. DOMAIN list = 1 .. Len(list) /\ Len(list) \in Nat BY LenProperties
<1>2. IsFiniteSet(places)
  <2>1. IsFiniteSet(1 .. Len(list))
    <3>1. 1 \in Int /\ Len(list) \in Int BY <1>1
    <3>2. QED BY <3>1, FS_Interval, Zenon
  <2>2. QED BY <1>1, <2>1, FS_Subset
<1>3. PICK n \in Nat : n = Cardinality(places) BY <1>2, FS_CardinalityType
<1>4. PICK order \in [1 .. n -> places] :
        /\ \A j, k \in 1 .. n : j < k => order[j] < order[k]
        /\ part = [k \in 1 .. n |-> list[order[k]]]
  BY <1>3 DEF Sublists
<1>5. \A k \in 1 .. n : list[order[k]] \in S BY <1>1, <1>4, ElementOfSeq
<1>6. part \in Seq(S) /\ Len(part) = n BY <1>3, <1>4, <1>5
<1>7. QED BY <1>4, <1>6

LEMMA RemovedAt ==
    ASSUME NEW S, NEW s \in Seq(S), NEW r \in 1 .. Len(s)
    PROVE  /\ RemoveAt(s, r) \in Seq(S) /\ Len(RemoveAt(s, r)) = Len(s) - 1
           /\ \A i \in 1 .. Len(s) - 1 : RemoveAt(s, r)[i] = s[IF i < r THEN i ELSE i + 1]
<1>1. Len(s) \in Nat /\ r \in Nat /\ r >= 1 /\ r <= Len(s) BY LenProperties
<1> DEFINE head == SubSeq(s, 1, r - 1)
           tail == SubSeq(s, r + 1, Len(s))
<1>2. /\ head \in Seq(S) /\ Len(head) = r - 1 /\ \A i \in 1 .. r - 1 : head[i] = s[i]
  <2>1. \A i \in 1 .. r - 1 : s[i] \in S BY <1>1, ElementOfSeq
  <2>2. QED BY <1>1, <2>1, SubSeqProperties
<1>3. /\ tail \in Seq(S) /\ Len(tail) = Len(s) - r
      /\ \A i \in 1 .. Len(s) - r : tail[i] = s[r + i]
  <2>1. \A i \in r + 1 .. Len(s) : s[i] \in S BY <1>1, ElementOfSeq
  <2>2. QED BY <1>1, <2>1, SubSeqProperties
<1>4. RemoveAt(s, r) = head \o tail BY DEF RemoveAt
<1> HIDE DEF head, tail
<1>5. /\ head \o tail \in Seq(S) /\ Len(head \o tail) = Len(s) - 1
      /\ \A i \in 1 .. Len(s) - 1 :
            (head \o tail)[i] = IF i <= r - 1 THEN head[i] ELSE tail[i - (r - 1)]
  <2>1. head \in Seq(S) /\ tail \in Seq(S) BY <1>2, <1>3
  <2>2. /\ head \o tail \in Seq(S) /\ Len(head \o tail) = Len(head) + Len(tail)
        /\ \A i \in 1 .. Len(head) + Len(tail) :
              (head \o tail)[i] = IF i <= Len(head) THEN head[i] ELSE tail[i - Len(head)]
    BY <2>1, ConcatProperties
  <2>3. Len(head) = r - 1 /\ Len(head) + Len(tail) = Len(s) - 1 BY <1>1, <1>2, <1>3
  <2>4. QED BY <2>2, <2>3
<1>6. ASSUME NEW i \in 1 .. Len(s) - 1 PROVE RemoveAt(s, r)[i] = s[IF i < r THEN i ELSE i + 1]
  <2>1. CASE i < r BY <1>1, <1>2, <1>4, <1>5, <2>1
  <2>2. CASE i >= r
    <3>1. i - (r - 1) \in 1 .. Len(s) - r /\ r + (i - (r - 1)) = i + 1 BY <1>1, <2>2
    <3>2. PICK j \in 1 .. Len(s) - r : j = i - (r - 1) BY <3>1
    <3>4. tail[j] = s[i + 1] BY <1>3, <3>1, <3>2
    <3>5. (head \o tail)[i] = tail[j] BY <1>1, <1>5, <2>2, <3>2
    <3>6. QED BY <1>1, <1>4, <2>2, <3>4, <3>5
  <2>3. QED BY <1>1, <2>1, <2>2
<1>7. QED BY <1>4, <1>5, <1>6

(***************************************************************************)
(* The reconciliation.                                                     *)
(***************************************************************************)
LEMMA KnownProviders ==
    /\ Providers \in Seq(Known) /\ DOMAIN Providers = 1 .. Len(Providers) /\ Len(Providers) \in Nat
    /\ Providers[1] \in Known /\ Known = {Providers[i] : i \in 1 .. Len(Providers)}
    /\ \A i, j \in 1 .. Len(Providers) : Providers[i] = Providers[j] => i = j
<1>1. /\ Len(Providers) \in Nat \ {0}
      /\ Providers = [i \in 1 .. Len(Providers) |-> Providers[i]]
  BY ConnectionsAssumption
<1>2. PICK n \in Nat \ {0} : n = Len(Providers) BY <1>1
<1>3. DOMAIN Providers = 1 .. n BY <1>1, <1>2
<1>4. Known = {Providers[i] : i \in 1 .. n} BY <1>3 DEF Known, Range
<1>5. Providers \in [1 .. n -> Known] BY <1>1, <1>2, <1>4
<1>6. Providers \in Seq(Known) BY <1>2, <1>5, SeqDef
<1>7. \A i, j \in 1 .. n : Providers[i] = Providers[j] => i = j
  BY <1>3, ConnectionsAssumption DEF IsInjective
<1>8. QED BY <1>2, <1>3, <1>4, <1>6, <1>7

LEMMA NoSyncTyped == NoSync \in Syncs
<1>1. <<>> \in Seq(Known) /\ <<>> \in Seq(Fields) BY EmptySeq
<1>2. QED BY <1>1 DEF NoSync, Syncs

LEMMA SyncForTyped ==
    ASSUME NEW tenant, NEW todo \in Seq(Known)
    PROVE  SyncFor(tenant, todo) \in Syncs /\ SyncFor(tenant, todo).pc \in {"idle", "provider"}
<1>1. <<>> \in Seq(Known) /\ <<>> \in Seq(Fields) BY EmptySeq
<1>2. QED BY <1>1 DEF SyncFor, NoSync, Syncs

LEMMA SeedingTyped ==
    ASSUME NEW todo \in Seq(Known)
    PROVE  /\ Seeding(todo) \in Syncs /\ Seeding(todo).pc \in {"idle", "seed", "provider"}
           /\ Seeding(todo).pc = "seed" => Seeding(todo).todo # <<>>
<1>1. <<>> \in Seq(Known) /\ <<>> \in Seq(Fields) BY EmptySeq
<1>2. CASE todo = <<>>
  <2>1. Seeding(todo) = SyncFor(Owner, Providers) BY <1>2 DEF Seeding
  <2>2. /\ SyncFor(Owner, Providers) \in Syncs
        /\ SyncFor(Owner, Providers).pc \in {"idle", "provider"}
    BY SyncForTyped, KnownProviders
  <2>3. QED BY <2>1, <2>2
<1>3. CASE todo # <<>> BY <1>1, <1>3 DEF Seeding, NoSync, Syncs
<1>4. QED BY <1>2, <1>3

LEMMA SyncKept ==
    ASSUME GateInv, SyncInv, LinksInv, [Next]_vars
    PROVE  SyncInv'
<1>0. /\ sync \in Syncs /\ logins \in Nat /\ logins <= MaxLogins /\ MaxLogins \in Nat
      /\ sync.todo \in Seq(Known) /\ sync.patches \in Seq(Fields)
      /\ <<>> \in Seq(Known) /\ <<>> \in Seq(Fields)
  BY ConnectionsAssumption, EmptySeq DEF SyncInv, Syncs
<1>1. ASSUME sync' \in Syncs, logins' = logins, sync'.pc \notin {"seed", "token"} PROVE SyncInv'
  BY <1>0, <1>1 DEF SyncInv
<1>2. CASE UNCHANGED <<sync, logins>> BY <1>2 DEF SyncInv
<1>3. ASSUME NEW s \in Flows PROVE (\E browser \in Tenants : LinkAdded(s, browser)) => SyncInv'
  <2> SUFFICES ASSUME NEW browser \in Tenants, LinkAdded(s, browser) PROVE SyncInv'
    OBVIOUS
  <2>1. sync' = SyncFor(flows[s].tenant, <<flows[s].provider>>) /\ logins' = logins
    BY DEF LinkAdded
  <2>2. PICK known \in Known : known = flows[s].provider BY DEF LinksInv, LinksTyped, FlowStates
  <2>3. <<known>> \in Seq(Known) BY <2>2
  <2>4. QED BY <1>1, <2>1, <2>2, <2>3, SyncForTyped
<1>4. CASE Login \/ SeedsConnection \/ SeedsToken
  <2>1. sync.pc \in {"seed", "token"} =>
           /\ sync.todo # <<>> /\ Head(sync.todo) \in Known /\ Tail(sync.todo) \in Seq(Known)
    BY <1>0, HeadTailProperties DEF SyncInv
  <2>2. Seeded \in Seq(Known) BY ConnectionsAssumption DEF Known
  <2>3. \/ \E todo \in Seq(Known) : sync' = Seeding(todo)
        \/ sync' = [sync EXCEPT !.pc = "token"] /\ sync.pc = "seed"
    BY <1>4, <2>1, <2>2 DEF Login, SeedsConnection, SeedsToken
  <2>4. sync' \in Syncs /\ (sync'.pc \in {"seed", "token"} => sync'.todo # <<>>)
    BY <1>0, <2>1, <2>3, SeedingTyped DEF Syncs
  <2>5. logins' \in Nat /\ logins' <= MaxLogins
    BY <1>0, <1>4 DEF Login, SeedsConnection, SeedsToken
  <2>6. QED BY <2>4, <2>5 DEF SyncInv
<1>12. ASSUME NEW s \in Flows, ExchangeDone(s) PROVE SyncInv'
  <2>1. sync' = [NoSync EXCEPT !.pc = "link"] /\ logins' = logins BY <1>12 DEF ExchangeDone
  <2>2. QED BY <1>0, <1>1, <2>1 DEF NoSync, Syncs
<1>13. ASSUME NEW w \in Workers, Removes(w) PROVE SyncInv'
  <2>1. logins' = logins /\ (sync' = sync \/ sync' = NoSync) BY <1>13 DEF Removes
  <2>2. CASE sync' = NoSync BY <1>1, <2>1, <2>2, NoSyncTyped DEF NoSync
  <2>3. QED BY <1>2, <2>1, <2>2
<1>5. CASE SyncReads
  <2>1. sync.todo # <<>> /\ logins' = logins BY <1>5 DEF SyncReads
  <2>2. PICK p \in Known, rest \in Seq(Known) : p = Head(sync.todo) /\ rest = Tail(sync.todo)
    BY <1>0, <2>1, HeadTailProperties
  <2>3. Unlocks[p] \in Seq(Fields) BY <2>2, ConnectionsAssumption DEF Known, Fields
  <2> DEFINE unfilled == {i \in DOMAIN Unlocks[p] : Current[Unlocks[p][i]] = {}}
  <2>4. CASE Connected(Owner, p)
    <3>1. PICK needed \in Sublists(Unlocks[p], unfilled) :
            sync' = [pc |-> "patch", todo |-> rest, patches |-> needed]
      BY <1>5, <2>2, <2>4 DEF SyncReads
    <3>2. unfilled \in SUBSET DOMAIN Unlocks[p] OBVIOUS
    <3> HIDE DEF unfilled
    <3>3. needed \in Seq(Fields) BY <2>3, <3>1, <3>2, SublistIsOrdered
    <3>4. QED BY <1>1, <2>1, <2>2, <3>1, <3>3 DEF Syncs
  <2>5. CASE ~Connected(Owner, p)
    <3>1. sync' = [sync EXCEPT !.todo = rest] /\ sync.pc = "provider"
      BY <1>0, <1>5, <2>2, <2>5 DEF SyncReads, Syncs
    <3>2. QED BY <1>0, <1>1, <2>1, <2>2, <3>1 DEF Syncs
  <2>6. QED BY <2>4, <2>5
<1>6. CASE SyncPatches
  <2>1. sync.patches # <<>> /\ logins' = logins BY <1>6 DEF SyncPatches
  <2>2. PICK rest \in Seq(Fields) : rest = Tail(sync.patches) BY <1>0, <2>1, HeadTailProperties
  <2>3. sync' = [sync EXCEPT !.pc = "gate", !.patches = rest] BY <1>0, <1>6, <2>2 DEF SyncPatches, Syncs
  <2>4. QED BY <1>0, <1>1, <2>1, <2>2, <2>3 DEF Syncs
<1>7. CASE SyncReturns
  <2>1. PICK rest \in Seq(Fields) :
          rest = IF calls[TheSync].result = "accepted" THEN sync.patches ELSE <<>>
    BY <1>0
  <2>2. sync' = [sync EXCEPT !.pc = "patch", !.patches = rest] /\ logins' = logins
    BY <1>0, <1>7, <2>1 DEF SyncReturns, Syncs
  <2>3. QED BY <1>0, <1>1, <2>1, <2>2 DEF Syncs
<1>8. CASE SyncMovesOn
  <2>1. logins' = logins /\ (sync' = NoSync \/ sync' = [sync EXCEPT !.pc = "provider"])
    BY <1>8 DEF SyncMovesOn
  <2>2. sync' \in Syncs /\ sync'.pc \in {"idle", "provider"}
    BY <1>0, <2>1, NoSyncTyped DEF Syncs, NoSync
  <2>3. QED BY <1>1, <2>1, <2>2
<1>9. CASE LinksNext
  BY <1>2, <1>3, <1>4, <1>5, <1>6, <1>7, <1>8, <1>9, <1>12, <1>13
     DEF LinksNext, BeginConnect, Callback, ExchangeFails, DisconnectFinds, Revokes
<1>10. CASE UNCHANGED linkVars \/ UNCHANGED vars BY <1>2, <1>10 DEF linkVars, vars
<1>11. QED BY <1>9, <1>10 DEF Next

(***************************************************************************)
(* The connections and their tokens.                                       *)
(***************************************************************************)
LEMMA ReferencesDiffer ==
    /\ \A p, q : Placeholder(p) = Placeholder(q) => p = q
    /\ \A s, t : FlowRef(s) = FlowRef(t) => s = t
    /\ \A p, s : Placeholder(p) # FlowRef(s)
BY DEF Placeholder, FlowRef

\* What a rightful connection says of its flow.
LEMMA RightfulFlow ==
    ASSUME NEW l, NEW s, NEW started, Rightful(l, started), l.ref = FlowRef(s)
    PROVE  started[s].pc = "used"
<1>1. \A u, p, t : Link(u, p, FlowRef(t)).ref = FlowRef(t) BY DEF Link
<1>2. QED BY <1>1, ReferencesDiffer DEF Rightful

\* A flow that has made nothing may go on, up to its token.
LEMMA FlowGoesOn ==
    ASSUME LinksInv, NEW s \in Flows, NEW flow \in FlowStates, flows[s].pc \notin {"store", "used"},
           flow.pc # "store", flows' = [flows EXCEPT ![s] = flow],
           UNCHANGED <<links, creds, sync, workers>>
    PROVE  LinksInv'
<1>1. LinksTyped' BY DEF LinksInv, LinksTyped
<1>2. \A t \in Flows : t # s => flows'[t] = flows[t] BY DEF LinksInv, LinksTyped
<1>3. flows'[s] = flow BY DEF LinksInv, LinksTyped
<1>4. LinksAreRightful' BY <1>2 DEF LinksInv, LinksAreRightful, Rightful
<1>5. LinksDiffer' /\ LinksAreLive' BY DEF LinksInv, LinksDiffer, LinksAreLive, Live
<1>6. FlowTokens'
  <2>1. \A w \in Workers : workers[w].ref # FlowRef(s) BY DEF LinksInv, FlowTokens
  <2>2. QED BY <1>2, <1>3, <2>1 DEF LinksInv, FlowTokens
<1>7. QED BY <1>1, <1>4, <1>5, <1>6 DEF LinksInv

\* The loop may go on where it is not between the two writes of a seeding.
LEMMA LoopGoesOn ==
    ASSUME LinksInv, UNCHANGED <<flows, links, creds, workers>>, sync' = sync \/ sync.pc # "token"
    PROVE  LinksInv'
BY DEF LinksInv, LinksTyped, LinksDiffer, LinksAreRightful, LinksAreLive, Live, FlowTokens

\* One more connection.
LEMMA AddedLink ==
    ASSUME LinksTyped, LinksDiffer, NEW l \in Links, links' = Append(links, l),
           \A i \in DOMAIN links : links[i].ref # l.ref
    PROVE  /\ links' \in Seq(Links) /\ LinksDiffer'
           /\ \A i \in DOMAIN links : i \in DOMAIN links' /\ links'[i] = links[i]
           /\ \E n \in DOMAIN links' : links'[n] = l
           /\ \A i \in DOMAIN links' : links'[i] = l \/ (i \in DOMAIN links /\ links'[i] = links[i])
<1>1. /\ links \in Seq(Links) /\ DOMAIN links = 1 .. Len(links) /\ Len(links) \in Nat
  BY LenProperties DEF LinksTyped
<1>2. /\ links' \in Seq(Links) /\ Len(links') = Len(links) + 1
      /\ \A i \in 1 .. Len(links) : links'[i] = links[i]
      /\ links'[Len(links) + 1] = l
  BY <1>1, AppendProperties
<1>3. DOMAIN links' = 1 .. Len(links) + 1 BY <1>2, LenProperties
<1>4. \A i \in DOMAIN links' : i \in DOMAIN links \/ i = Len(links) + 1 BY <1>1, <1>3
<1>5. LinksDiffer'
  <2> SUFFICES ASSUME NEW i \in DOMAIN links', NEW j \in DOMAIN links', links'[i].ref = links'[j].ref
               PROVE  i = j
    BY DEF LinksDiffer
  <2>1. CASE i \in DOMAIN links /\ j \in DOMAIN links BY <1>1, <1>2, <2>1 DEF LinksDiffer
  <2>2. CASE i \in DOMAIN links /\ j = Len(links) + 1 BY <1>1, <1>2, <2>2
  <2>3. CASE i = Len(links) + 1 /\ j \in DOMAIN links BY <1>1, <1>2, <2>3
  <2>4. QED BY <1>4, <2>1, <2>2, <2>3
<1>6. \A i \in DOMAIN links : i \in DOMAIN links' /\ links'[i] = links[i] BY <1>1, <1>2, <1>3
<1>7. \E n \in DOMAIN links' : links'[n] = l
  <2>1. Len(links) + 1 \in DOMAIN links' BY <1>1, <1>3
  <2>2. QED BY <1>2, <2>1
<1>8. \A i \in DOMAIN links' : links'[i] = l \/ (i \in DOMAIN links /\ links'[i] = links[i])
  BY <1>2, <1>4, <1>6
<1>9. QED BY <1>2, <1>5, <1>6, <1>7, <1>8

\* One connection less.
LEMMA RemovedLink ==
    ASSUME LinksTyped, LinksDiffer, NEW r \in DOMAIN links, links' = RemoveAt(links, r)
    PROVE  /\ links' \in Seq(Links) /\ LinksDiffer'
           /\ \A i \in DOMAIN links' : \E k \in DOMAIN links \ {r} : links'[i] = links[k]
           /\ \A k \in DOMAIN links \ {r} : \E i \in DOMAIN links' : links'[i] = links[k]
<1>1. links \in Seq(Links) /\ DOMAIN links = 1 .. Len(links) /\ Len(links) \in Nat
  BY LenProperties DEF LinksTyped
<1>2. /\ links' \in Seq(Links) /\ Len(links') = Len(links) - 1
      /\ \A i \in 1 .. Len(links) - 1 : links'[i] = links[IF i < r THEN i ELSE i + 1]
  <2>1. r \in 1 .. Len(links) BY <1>1
  <2>2. /\ RemoveAt(links, r) \in Seq(Links) /\ Len(RemoveAt(links, r)) = Len(links) - 1
        /\ \A i \in 1 .. Len(links) - 1 :
              RemoveAt(links, r)[i] = links[IF i < r THEN i ELSE i + 1]
    BY <1>1, <2>1, RemovedAt, Zenon
  <2>3. QED BY <2>2
<1>3. DOMAIN links' = 1 .. Len(links) - 1 BY <1>2, LenProperties
<1> DEFINE was(i) == IF i < r THEN i ELSE i + 1
<1>4. \A i \in DOMAIN links' : was(i) \in DOMAIN links \ {r} /\ links'[i] = links[was(i)]
  BY <1>1, <1>2, <1>3
<1>5. \A i, j \in DOMAIN links' : was(i) = was(j) => i = j BY <1>1, <1>3
<1>6. ASSUME NEW k \in DOMAIN links \ {r} PROVE \E i \in DOMAIN links' : was(i) = k
  <2>1. CASE k < r
    <3>1. k \in DOMAIN links' BY <1>1, <1>3, <2>1
    <3>2. QED BY <2>1, <3>1
  <2>2. CASE k > r
    <3>1. k - 1 \in DOMAIN links' /\ ~(k - 1 < r) BY <1>1, <1>3, <2>2
    <3>2. was(k - 1) = k BY <1>1, <2>2
    <3>3. QED BY <3>1, <3>2
  <2>3. QED BY <1>1, <2>1, <2>2
<1> HIDE DEF was
<1>7. LinksDiffer' BY <1>4, <1>5 DEF LinksDiffer
<1>8. QED BY <1>2, <1>4, <1>6, <1>7

\* The callback's two writes.
LEMMA ExchangeKeeps == ASSUME LinksInv, NEW s \in Flows, ExchangeDone(s) PROVE LinksInv'
<1>0. LinksTyped /\ flows[s] \in FlowStates /\ flows[s].pc = "exchange" /\ sync.pc = "idle"
  BY DEF ExchangeDone, LinksInv, LinksTyped
<1>1. /\ UNCHANGED <<links, workers>> /\ creds' = creds \cup {FlowRef(s)}
      /\ flows' \in [Flows -> FlowStates] /\ flows'[s].pc = "store"
      /\ \A t \in Flows : t # s => flows'[t] = flows[t]
  BY <1>0 DEF ExchangeDone, LinksTyped, FlowStates
<1>2. LinksTyped' BY <1>0, <1>1 DEF LinksTyped
<1>3. LinksAreRightful' BY <1>0, <1>1 DEF LinksInv, LinksAreRightful, Rightful
<1>4. LinksDiffer' /\ LinksAreLive' BY <1>0, <1>1 DEF LinksInv, LinksDiffer, LinksAreLive, Live
<1>5. FlowTokens'
  <2>1. \A w \in Workers : workers[w].ref # FlowRef(s) BY <1>0 DEF LinksInv, FlowTokens
  <2>2. \A t \in Flows : t # s => (FlowRef(t) \in creds' <=> FlowRef(t) \in creds)
    BY <1>1, ReferencesDiffer
  <2>3. FlowRef(s) \in creds' BY <1>1
  <2>4. QED BY <1>1, <2>1, <2>2, <2>3 DEF LinksInv, FlowTokens
<1>6. QED BY <1>2, <1>3, <1>4, <1>5 DEF LinksInv

LEMMA LinkAddedKeeps ==
    ASSUME LinksInv, NEW s \in Flows, NEW browser \in Tenants, LinkAdded(s, browser)
    PROVE  LinksInv'
<1>0. /\ LinksTyped /\ LinksDiffer /\ flows[s] \in FlowStates /\ flows[s].pc = "store"
      /\ sync.pc = "link" /\ FlowRef(s) \in creds
  BY DEF LinkAdded, LinksInv, LinksTyped, FlowTokens
<1>1. PICK link \in Links : link = Link(flows[s].tenant, flows[s].provider, FlowRef(s))
  BY <1>0 DEF Links, Link, Refs, FlowRef, FlowStates
<1>2. /\ UNCHANGED <<creds, workers>> /\ links' = Append(links, link)
      /\ flows' \in [Flows -> FlowStates] /\ flows'[s].pc = "used"
      /\ flows'[s].tenant = flows[s].tenant /\ flows'[s].provider = flows[s].provider
      /\ \A t \in Flows : t # s => flows'[t] = flows[t]
  BY <1>0, <1>1 DEF LinkAdded, LinksTyped, FlowStates
<1>3. link.ref = FlowRef(s) BY <1>1 DEF Link
<1>4. \A i \in DOMAIN links : links[i].ref # link.ref
  BY <1>0, <1>3, RightfulFlow DEF LinksInv, LinksAreRightful
<1>5. /\ links' \in Seq(Links) /\ LinksDiffer'
      /\ \A i \in DOMAIN links : i \in DOMAIN links' /\ links'[i] = links[i]
      /\ \E n \in DOMAIN links' : links'[n] = link
      /\ \A i \in DOMAIN links' : links'[i] = link \/ (i \in DOMAIN links /\ links'[i] = links[i])
  BY <1>0, <1>2, <1>4, AddedLink
<1>6. LinksTyped' BY <1>0, <1>2, <1>5 DEF LinksTyped
<1>7. LinksAreRightful'
  <2>1. Rightful(link, flows') BY <1>1, <1>2 DEF Rightful
  <2>2. \A l : Rightful(l, flows) => Rightful(l, flows') BY <1>0, <1>2 DEF Rightful
  <2>3. QED BY <1>5, <2>1, <2>2 DEF LinksInv, LinksAreRightful
<1>8. LinksAreLive'
  <2>1. \A ref : Live(ref) => Live(ref)' BY <1>0, <1>2 DEF Live
  <2>2. Live(link.ref)' BY <1>0, <1>2, <1>3 DEF Live
  <2>3. QED BY <1>5, <2>1, <2>2 DEF LinksInv, LinksAreLive
<1>9. FlowTokens'
  <2>1. \A w \in Workers : workers[w].ref # FlowRef(s) BY <1>0 DEF LinksInv, FlowTokens
  <2>2. \E n \in DOMAIN links' : links'[n].ref = FlowRef(s) BY <1>3, <1>5
  <2>3. \A t \in Flows : t # s /\ FlowRef(t) \in creds =>
           flows[t].pc = "store" \/ \E i \in DOMAIN links' : links'[i].ref = FlowRef(t)
    BY <1>5 DEF LinksInv, FlowTokens
  <2>4. QED BY <1>2, <2>1, <2>2, <2>3 DEF LinksInv, FlowTokens
<1>10. QED BY <1>5, <1>6, <1>7, <1>8, <1>9 DEF LinksInv

\* The steps of a disconnect.
LEMMA FindsKeeps ==
    ASSUME LinksInv, NEW w \in Workers, NEW t \in Tenants, NEW p \in Known,
           DisconnectFinds(w, t, p)
    PROVE  LinksInv'
<1>0. LinksTyped /\ workers[w].pc = "free" BY DEF DisconnectFinds, LinksInv
<1>1. PICK first \in DOMAIN links :
         workers' = [workers EXCEPT ![w] = [pc |-> "revoke", ref |-> links[first].ref]]
  BY DEF DisconnectFinds, PlacesOf
<1>2. UNCHANGED <<flows, links, creds, sync>> BY DEF DisconnectFinds
<1>3. links[first].ref \in Refs
  <2>1. links \in Seq(Links) /\ first \in 1 .. Len(links)
    BY <1>0, LenProperties DEF LinksTyped
  <2>2. links[first] \in Links BY <2>1, ElementOfSeq
  <2>3. QED BY <2>2 DEF Links
<1>4. /\ workers' \in [Workers -> Works] /\ workers'[w].pc = "revoke"
      /\ workers'[w].ref = links[first].ref
      /\ \A v \in Workers : v # w => workers'[v] = workers[v]
  BY <1>0, <1>1, <1>3 DEF LinksTyped, Works
<1>5. LinksTyped' BY <1>0, <1>2, <1>4 DEF LinksTyped
<1>6. LinksDiffer' /\ LinksAreRightful' BY <1>2 DEF LinksInv, LinksDiffer, LinksAreRightful
<1>7. LinksAreLive' BY <1>0, <1>2, <1>4 DEF LinksInv, LinksAreLive, Live
<1>8. \A s \in Flows : links[first].ref = FlowRef(s) => flows[s].pc = "used"
  BY RightfulFlow DEF LinksInv, LinksAreRightful
<1>9. FlowTokens' BY <1>2, <1>4, <1>8 DEF LinksInv, FlowTokens
<1>10. QED BY <1>5, <1>6, <1>7, <1>9 DEF LinksInv

LEMMA RevokesKeeps == ASSUME LinksInv, NEW w \in Workers, Revokes(w) PROVE LinksInv'
<1>0. LinksTyped /\ workers[w] \in Works /\ workers[w].pc = "revoke"
  BY DEF Revokes, LinksInv, LinksTyped
<1>1. /\ UNCHANGED <<flows, links, sync>> /\ creds' = creds \ {workers[w].ref}
      /\ workers' \in [Workers -> Works] /\ workers'[w].pc = "remove"
      /\ workers'[w].ref = workers[w].ref
      /\ \A v \in Workers : v # w => workers'[v] = workers[v]
  BY <1>0 DEF Revokes, LinksTyped, Works
<1>2. LinksTyped' BY <1>0, <1>1 DEF LinksTyped
<1>3. LinksDiffer' /\ LinksAreRightful' BY <1>1 DEF LinksInv, LinksDiffer, LinksAreRightful
<1>4. ASSUME NEW ref, Live(ref) PROVE Live(ref)'
  <2>1. CASE ref = workers[w].ref BY <1>1, <2>1 DEF Live
  <2>2. CASE ref # workers[w].ref BY <1>0, <1>1, <1>4, <2>2 DEF Live
  <2>3. QED BY <2>1, <2>2
<1>5. LinksAreLive' BY <1>1, <1>4 DEF LinksInv, LinksAreLive
<1>6. \A s \in Flows : workers[w].ref = FlowRef(s) => flows[s].pc = "used"
  BY DEF LinksInv, FlowTokens
<1>7. FlowTokens' BY <1>1, <1>6 DEF LinksInv, FlowTokens
<1>8. QED BY <1>2, <1>3, <1>5, <1>7 DEF LinksInv

LEMMA RemovesKeeps == ASSUME LinksInv, NEW w \in Workers, Removes(w) PROVE LinksInv'
<1>0. LinksTyped /\ LinksDiffer /\ workers[w] \in Works /\ workers[w].pc = "remove"
  BY DEF Removes, LinksInv, LinksTyped
<1>1. NoWork \in Works /\ NoWork.pc = "free" /\ \A s : NoWork.ref # FlowRef(s)
  BY KnownProviders, ReferencesDiffer DEF NoWork, Works, Refs, Placeholder
<1>2. /\ UNCHANGED <<flows, creds>> /\ workers' \in [Workers -> Works] /\ workers'[w] = NoWork
      /\ \A v \in Workers : v # w => workers'[v] = workers[v]
  BY <1>0, <1>1 DEF Removes, LinksTyped
<1>3. sync' = sync \/ sync.pc # "token" BY DEF Removes, LookingUp
<1>4. \A ref : ref # workers[w].ref /\ Live(ref) => Live(ref)'
  BY <1>2, <1>3 DEF Live
<1>5. ASSUME links' \in Seq(Links), LinksDiffer',
             \A i \in DOMAIN links' : \E k \in DOMAIN links :
                 links[k].ref # workers[w].ref /\ links'[i] = links[k],
             \A k \in DOMAIN links : links[k].ref # workers[w].ref =>
                 \E i \in DOMAIN links' : links'[i] = links[k]
      PROVE  LinksInv'
  <2>1. LinksTyped' BY <1>0, <1>2, <1>5 DEF LinksTyped
  <2>2. LinksAreRightful' BY <1>2, <1>5 DEF LinksInv, LinksAreRightful
  <2>3. LinksAreLive' BY <1>4, <1>5 DEF LinksInv, LinksAreLive
  <2>4. ASSUME NEW s \in Flows, FlowRef(s) \in creds, flows[s].pc # "store"
        PROVE  \E i \in DOMAIN links' : links'[i].ref = FlowRef(s)
    <3>1. PICK k \in DOMAIN links : links[k].ref = FlowRef(s) BY <2>4 DEF LinksInv, FlowTokens
    <3>2. workers[w].ref # FlowRef(s) BY <1>0, <2>4 DEF LinksInv, FlowTokens
    <3>3. QED BY <1>5, <3>1, <3>2
  <2>5. FlowTokens' BY <1>1, <1>2, <2>4 DEF LinksInv, FlowTokens
  <2>6. QED BY <1>5, <2>1, <2>2, <2>3, <2>5 DEF LinksInv
<1>6. ASSUME NEW r \in DOMAIN links, links[r].ref = workers[w].ref, links' = RemoveAt(links, r)
      PROVE  LinksInv'
  <2>1. \A k \in DOMAIN links : k # r <=> links[k].ref # workers[w].ref
    BY <1>0, <1>6 DEF LinksDiffer
  <2>2. /\ links' \in Seq(Links) /\ LinksDiffer'
        /\ \A i \in DOMAIN links' : \E k \in DOMAIN links \ {r} : links'[i] = links[k]
        /\ \A k \in DOMAIN links \ {r} : \E i \in DOMAIN links' : links'[i] = links[k]
    BY <1>0, <1>6, RemovedLink
  <2>3. QED BY <1>5, <2>1, <2>2
<1>7. CASE (\A i \in DOMAIN links : links[i].ref # workers[w].ref) /\ UNCHANGED links
  BY <1>0, <1>5, <1>7 DEF LinksTyped, LinksDiffer
<1>8. QED BY <1>6, <1>7 DEF Removes

\* The two writes of a seeding.
LEMMA SeedsConnectionKeeps == ASSUME LinksInv, SyncInv, SeedsConnection PROVE LinksInv'
<1>0. /\ LinksTyped /\ LinksDiffer /\ sync.pc = "seed" /\ Owner \in Tenants
      /\ UNCHANGED <<flows, creds, workers>> /\ sync \in Syncs
  BY ConnectionsAssumption DEF SeedsConnection, LinksInv, SyncInv
<1>1. PICK p \in Known : p = Head(sync.todo) BY <1>0, HeadTailProperties DEF SyncInv, Syncs
<1>2. CASE Connected(Owner, p)
  <2>1. UNCHANGED links BY <1>1, <1>2 DEF SeedsConnection
  <2>2. QED BY <1>0, <2>1, LoopGoesOn
<1>3. CASE ~Connected(Owner, p)
  <2>1. PICK link \in Links : link = Link(Owner, p, Placeholder(p))
    BY <1>0, <1>1 DEF Links, Link, Refs, Placeholder
  <2>2. links' = Append(links, link) /\ sync' = [sync EXCEPT !.pc = "token"]
    BY <1>1, <1>3, <2>1 DEF SeedsConnection
  <2>3. link.tenant = Owner /\ link.provider = p /\ link.ref = Placeholder(p) BY <2>1 DEF Link
  <2>4. ASSUME NEW i \in DOMAIN links, links[i].ref = link.ref PROVE FALSE
    <3>1. Rightful(links[i], flows) BY DEF LinksInv, LinksAreRightful
    <3>2. \A u, q, s : Link(u, q, FlowRef(s)).ref = FlowRef(s) BY DEF Link
    <3>3. links[i].tenant = Owner /\ links[i].provider = p
      BY <2>3, <2>4, <3>1, <3>2, ReferencesDiffer DEF Rightful
    <3>4. QED BY <1>3, <3>3 DEF Connected, PlacesOf
  <2>5. /\ links' \in Seq(Links) /\ LinksDiffer'
        /\ \A i \in DOMAIN links : i \in DOMAIN links' /\ links'[i] = links[i]
        /\ \A i \in DOMAIN links' : links'[i] = link \/ (i \in DOMAIN links /\ links'[i] = links[i])
    BY <1>0, <2>2, <2>4, AddedLink
  <2>6. LinksTyped' BY <1>0, <2>5 DEF LinksTyped
  <2>7. LinksAreRightful'
    <3>1. Rightful(link, flows) BY <2>3 DEF Rightful
    <3>2. QED BY <1>0, <2>5, <3>1 DEF LinksInv, LinksAreRightful
  <2>8. LinksAreLive'
    <3>1. \A ref : Live(ref) => Live(ref)' BY <1>0 DEF Live
    <3>2. sync'.pc = "token" /\ Head(sync'.todo) = p BY <1>0, <1>1, <2>2 DEF Syncs
    <3>3. Live(link.ref)' BY <2>3, <3>2 DEF Live
    <3>4. QED BY <2>5, <3>1, <3>3 DEF LinksInv, LinksAreLive
  <2>9. FlowTokens'
    <3>1. \A s \in Flows : FlowRef(s) \in creds =>
             flows[s].pc = "store" \/ \E i \in DOMAIN links' : links'[i].ref = FlowRef(s)
      BY <2>5 DEF LinksInv, FlowTokens
    <3>2. QED BY <1>0, <3>1 DEF LinksInv, FlowTokens
  <2>10. QED BY <2>5, <2>6, <2>7, <2>8, <2>9 DEF LinksInv
<1>4. QED BY <1>2, <1>3

LEMMA SeedsTokenKeeps == ASSUME LinksInv, SeedsToken PROVE LinksInv'
<1>1. /\ UNCHANGED <<flows, links, workers>> /\ sync.pc = "token"
      /\ creds' = creds \cup {Placeholder(Head(sync.todo))}
  BY DEF SeedsToken
<1>2. LinksTyped' /\ LinksDiffer' /\ LinksAreRightful'
  BY <1>1 DEF LinksInv, LinksTyped, LinksDiffer, LinksAreRightful
<1>3. LinksAreLive'
  <2>1. \A ref : Live(ref) => Live(ref)' BY <1>1 DEF Live
  <2>2. QED BY <1>1, <2>1 DEF LinksInv, LinksAreLive
<1>4. FlowTokens'
  <2>1. \A s \in Flows : FlowRef(s) \in creds' <=> FlowRef(s) \in creds BY <1>1, ReferencesDiffer
  <2>2. QED BY <1>1, <2>1 DEF LinksInv, FlowTokens
<1>5. QED BY <1>2, <1>3, <1>4 DEF LinksInv

LEMMA LinksKept == ASSUME LinksInv, SyncInv, [Next]_vars PROVE LinksInv'
<1>0. flows \in [Flows -> FlowStates] BY DEF LinksInv, LinksTyped
<1>1. ASSUME NEW s \in Flows, NEW t \in Tenants, NEW p \in Known, BeginConnect(s, t, p)
      PROVE  LinksInv'
  <2>1. PICK flow \in FlowStates : flow = [pc |-> "pending", tenant |-> t, provider |-> p]
    BY DEF FlowStates
  <2>2. /\ flows' = [flows EXCEPT ![s] = flow] /\ flows[s].pc = "none" /\ flow.pc = "pending"
        /\ UNCHANGED <<links, creds, sync, workers>>
    BY <1>1, <2>1 DEF BeginConnect
  <2>3. QED BY <2>2, FlowGoesOn
<1>2. ASSUME NEW s \in Flows, Callback(s) \/ ExchangeFails(s) PROVE LinksInv'
  <2>1. PICK pc \in {"exchange", "used"} : flows' = [flows EXCEPT ![s].pc = pc]
    BY <1>2 DEF Callback, ExchangeFails
  <2>2. flows[s].pc \in {"pending", "exchange"} /\ UNCHANGED <<links, creds, sync, workers>>
    BY <1>2 DEF Callback, ExchangeFails
  <2> DEFINE flow == [flows[s] EXCEPT !.pc = pc]
  <2>3. flow \in FlowStates /\ flow.pc # "store" BY <1>0, <2>1 DEF FlowStates
  <2>4. flows' = [flows EXCEPT ![s] = flow] BY <1>0, <2>1
  <2> HIDE DEF flow
  <2>5. QED BY <2>2, <2>3, <2>4, FlowGoesOn
<1>3. CASE Login \/ SyncReads \/ SyncPatches \/ SyncReturns \/ SyncMovesOn
  <2>1. UNCHANGED <<flows, links, creds, workers>> /\ sync.pc # "token"
    BY <1>3 DEF Login, SyncReads, SyncPatches, SyncReturns, SyncMovesOn
  <2>2. QED BY <2>1, LoopGoesOn
<1>4. CASE UNCHANGED <<flows, links, creds, workers, sync>> BY <1>4, LoopGoesOn
<1>5. CASE LinksNext
  BY <1>1, <1>2, <1>3, <1>5, ExchangeKeeps, LinkAddedKeeps, FindsKeeps, RevokesKeeps, RemovesKeeps,
     SeedsConnectionKeeps, SeedsTokenKeeps DEF LinksNext, Known
<1>6. CASE UNCHANGED linkVars \/ UNCHANGED vars BY <1>4, <1>6 DEF linkVars, vars
<1>7. QED BY <1>5, <1>6 DEF Next

(***************************************************************************)
(* The theorems.                                                           *)
(***************************************************************************)
LEMMA NothingYet == BuilderInit /\ PanelInit /\ LinksInit => TurnInv /\ ReportInv /\ SyncInv /\ LinksInv
<1> SUFFICES ASSUME BuilderInit, PanelInit, LinksInit PROVE TurnInv /\ ReportInv /\ SyncInv /\ LinksInv
  OBVIOUS
<1>0. /\ <<>> \in Seq(Requests) /\ <<>> \in Seq(Patches) /\ <<>> \in Seq(Links)
      /\ <<>> \in Seq({}) /\ Len(<<>>) = 0
  BY EmptySeq
<1>1. TurnInv
  <2>1. turn = NoTurn BY DEF BuilderInit
  <2>2. NoTurn \in Turns BY <1>0 DEF NoTurn, Turns
  <2>3. QED BY <1>0, <2>1, <2>2, BuilderAssumption DEF TurnInv, NoTurn
<1>2. ReportInv
  <2>1. turn = NoTurn BY DEF BuilderInit
  <2>2. Joined(Joined(<<>>, <<>>), <<>>) = <<>>
    <3>1. <<>> \o <<>> = <<>> BY <1>0, ConcatEmptySeq
    <3>2. QED BY <3>1 DEF Joined
  <2>3. QED BY <2>1, <2>2 DEF ReportInv, NoTurn
<1>3. SyncInv BY NoSyncTyped, ConnectionsAssumption DEF LinksInit, SyncInv, NoSync
<1>4. LinksInv
  <2>1. NoFlow \in FlowStates BY KnownProviders, ConnectionsAssumption DEF NoFlow, FlowStates
  <2>2. NoWork \in Works /\ \A s : NoWork.ref # FlowRef(s)
    BY KnownProviders, ReferencesDiffer DEF NoWork, Works, Refs, Placeholder
  <2>3. links = <<>> /\ creds = {} /\ flows = [s \in Flows |-> NoFlow] /\ NoFlow.pc = "none"
    BY DEF LinksInit, NoFlow
  <2>4. workers = [w \in Workers |-> NoWork] BY DEF LinksInit
  <2>5. DOMAIN links = {} BY <1>0, <2>3, LenProperties
  <2>6. LinksTyped BY <1>0, <2>1, <2>2, <2>3, <2>4 DEF LinksTyped
  <2>7. FlowTokens BY <2>2, <2>3, <2>4 DEF FlowTokens
  <2>8. QED BY <2>5, <2>6, <2>7 DEF LinksInv, LinksDiffer, LinksAreRightful, LinksAreLive
<1>5. QED BY <1>1, <1>2, <1>3, <1>4

LEMMA NothingShownYet == GateInit /\ BuilderInit /\ PanelInit => ServedInv /\ PanelInv
<1> SUFFICES ASSUME GateInit, BuilderInit, PanelInit PROVE ServedInv /\ PanelInv
  OBVIOUS
<1>1. ServedInv
  <2>1. <<>> \in Seq(ServedPatches) /\ <<>> \in Seq(ServedMessages) BY EmptySeq
  <2>2. turn = NoTurn /\ wire = <<>> BY DEF BuilderInit
  <2>3. \A c \in {TheBuilder, ThePanel} : calls[c] = Idle BY BuilderAssumption DEF GateInit
  <2>4. CallServed(TheBuilder) /\ CallServed(ThePanel) BY <2>3 DEF CallServed, Idle
  <2>5. QED BY <2>1, <2>2, <2>4 DEF ServedInv, NoTurn
<1>2. PanelInv
  <2>1. panel = [cfg |-> NotLoaded, ready |-> FALSE, load |-> NoVersion, editing |-> FALSE]
    BY DEF PanelInit
  <2>2. NotLoaded \in [Leaves -> SUBSET (Atoms \cup {BadType})] BY DEF NotLoaded
  <2>3. panel \in Panels /\ panel.load = 0 /\ ~panel.ready /\ ~Loaded
    BY <2>1, <2>2 DEF Panels, NoVersion, Loaded
  <2>4. Latest \in Nat BY InitInv, LatestTyped
  <2>5. QED BY <2>3, <2>4 DEF PanelInv
<1>3. QED BY <1>1, <1>2

\* What every reachable state of the studio satisfies (the gate, the builder,
\* the panel, the connections and the sync together).
THEOREM StudioInvariant == Spec => []StudioInv
<1>1. Init => StudioInv
  BY InitInv, RoomAtFirst, NothingYet, NothingShownYet DEF Init, StudioInit, StudioInv
<1>2. StudioInv /\ [Next]_vars => StudioInv'
  <2> SUFFICES ASSUME StudioInv, [Next]_vars PROVE StudioInv'
    OBVIOUS
  <2>1. /\ GateInv /\ RoomInv /\ TurnInv /\ ReportInv /\ SyncInv
        /\ LinksInv /\ ServedInv /\ PanelInv
    BY DEF StudioInv
  <2>2. GateInv' /\ RoomInv' BY <2>1, StudioStepIsGateStep, NextInv, RoomKeeps
  <2>3. TurnInv' /\ ReportInv' BY <2>1, TurnKept, ReportKept
  <2>4. SyncInv' /\ LinksInv' BY <2>1, SyncKept, LinksKept
  <2>5. ServedInv' /\ PanelInv' BY <2>1, ServedKept, PanelKept
  <2>6. QED BY <2>2, <2>3, <2>4, <2>5 DEF StudioInv
<1>3. QED BY <1>1, <1>2, PTL DEF Spec

\* The studio implements the gate: whatever the builder, the panel, a client and
\* the sync do (builder_loop, app.py, capability_sync.py), the history of the
\* agent is one that ConfigGate allows.
THEOREM StudioImplementsGate == Spec => GateSpec
<1>1. Init => GateInit BY DEF Init, StudioInit
<1>2. StudioInv /\ [Next]_vars => [GateNext]_gateVars BY StudioStepIsGateStep DEF StudioInv
<1>3. QED BY <1>1, <1>2, StudioInvariant, PTL DEF Spec, GateSpec

\* So no edit of the studio reaches a locked field, and each version has the
\* status that it deserves (gate.py, repository.py).
THEOREM StudioVersionsPassedTheGate == Spec => []EveryVersionPassedTheGate
BY StudioImplementsGate, GateHolds

\* And an edit that names its version loses no other edit, whoever saves in between.
THEOREM StudioEditsLoseNothing == Spec => CheckedEditLosesNothing
BY StudioImplementsGate, CheckedEdits

\* A turn that comes to its reply has put on the stream every patch that it
\* saved, in order (loop.py, run_turn and _apply).
THEOREM TurnsReportEverything == Spec => []TurnReportsWhatItSaved
<1>1. StudioInv => TurnReportsWhatItSaved
  <2> SUFFICES ASSUME StudioInv, turn.pc \in {"reply", "tokens"} PROVE turn.reported = turn.saved
    BY DEF TurnReportsWhatItSaved
  <2>1. turn.report = <<>> /\ turn.done = <<>> /\ turn.reported \in Seq(Patches)
    BY DEF StudioInv, ReportInv, TurnInv, Turns
  <2>2. Joined(Joined(turn.reported, <<>>), <<>>) = turn.reported BY <2>1, Lists
  <2>3. QED BY <2>1, <2>2 DEF StudioInv, ReportInv
<1>2. QED BY <1>1, StudioInvariant, PTL

\* Whatever order edits, events of the stream and loads arrive in, what the panel
\* shows was accepted by the server (agentStore.ts, app.py).
THEOREM PanelIsServed == Spec => []PanelShowsOnlyServerValues
<1>1. StudioInv => PanelShowsOnlyServerValues
  BY DEF StudioInv, PanelInv, PanelShowsOnlyServerValues
<1>2. QED BY <1>1, StudioInvariant, PTL

\* However callbacks, logins and disconnects overlap, write by write, a connection is
\* rightful and lives or is about to go, and the token of a flow has its connection
\* (runtime.py, connections.py, connections_router.py).
THEOREM ConnectionsHaveTokens == Spec => []ConnectionsMatchTokens
<1>1. StudioInv => ConnectionsMatchTokens
  <2> SUFFICES ASSUME StudioInv PROVE ConnectionsMatchTokens
    OBVIOUS
  <2>1. LinksDiffer /\ LinksAreRightful /\ LinksAreLive /\ FlowTokens BY DEF StudioInv, LinksInv
  <2>2. Range(links) = {links[i] : i \in DOMAIN links} BY DEF Range
  <2>3. \A l \in Range(links) : Rightful(l, flows) /\ Live(l.ref)
    BY <2>1, <2>2 DEF LinksAreRightful, LinksAreLive
  <2>4. \A s \in Flows : FlowRef(s) \in creds =>
           flows[s].pc = "store" \/ \E l \in Range(links) : l.ref = FlowRef(s)
    BY <2>1, <2>2 DEF FlowTokens
  <2>5. \A l \in Range(links) :
           \/ l.tenant = Owner /\ l.ref = Placeholder(l.provider)
           \/ \E s \in Flows : l = Link(flows[s].tenant, flows[s].provider, FlowRef(s))
    BY <2>3 DEF Rightful
  <2>6. QED BY <2>1, <2>3, <2>4, <2>5 DEF ConnectionsMatchTokens, LinksDiffer, Live
<1>2. QED BY <1>1, StudioInvariant, PTL

\* The types of the whole studio, with the bounds the code sets: the retries of a
\* turn, the version a load has asked for.
THEOREM StudioIsTyped == Spec => []StudioTypeOK
<1>1. StudioInv => StudioTypeOK
  <2> SUFFICES ASSUME StudioInv PROVE StudioTypeOK
    OBVIOUS
  <2>1. GateTypeOK BY GateIsTyped DEF StudioInv
  <2>2. BuilderTypeOK
    <3>1. /\ turn \in Turns /\ turn.attempt <= MaxRetries /\ turn.turns <= MaxTurns
          /\ Len(turn.todo) <= MaxCalls /\ panel \in Panels /\ panel.load <= Latest
      BY DEF StudioInv, TurnInv, PanelInv
    <3>2. MaxRetries \in Nat /\ MaxTurns \in Nat /\ Latest \in Nat
      BY BuilderAssumption, LatestTyped DEF StudioInv
    <3>3. /\ turn.pc \in {"idle", "model", "apply", "patch", "gate", "cascade", "reply", "tokens"}
          /\ turn.attempt \in Nat /\ turn.turns \in Nat /\ panel.load \in Nat
      BY <3>1 DEF Turns, Panels
    <3>4. QED BY <3>1, <3>2, <3>3 DEF BuilderTypeOK
  <2>3. LinksTypeOK
    BY ConnectionsAssumption
       DEF StudioInv, LinksInv, LinksTyped, SyncInv, Syncs, FlowStates, Works, LinksTypeOK
  <2>4. QED BY <2>1, <2>2, <2>3 DEF StudioTypeOK
<1>2. QED BY <1>1, StudioInvariant, PTL
=============================================================================

-------------------------- MODULE ConfigGateProofs --------------------------
(***************************************************************************)
(* Theorems about ConfigGate, for every schema, every policy, every set of *)
(* callers and every patch.  The lock is decided by comparing the segments *)
(* of two paths in both directions; the facts about prefixes show that     *)
(* this is enough: a path that is not locked has no locked field below it. *)
(* The rest is that whatever waits to be saved was judged, and that the    *)
(* version it was judged against is still in the history.                  *)
(***************************************************************************)
EXTENDS ConfigGate, SequenceTheorems, TLAPS

(***************************************************************************)
(* Prefixes.                                                               *)
(***************************************************************************)
LEMMA PrefixIsPointwise ==
    ASSUME NEW S, NEW s \in Seq(S), NEW t \in Seq(S)
    PROVE  IsPrefix(s, t) <=> /\ Len(s) <= Len(t)
                              /\ \A i \in 1 .. Len(s) : s[i] = t[i]
<1>1. Len(s) \in Nat /\ Len(t) \in Nat
  BY LenProperties
<1>2. ASSUME Len(s) <= Len(t)
      PROVE  SubSeq(s, 1, Len(s)) = SubSeq(t, 1, Len(s))
             <=> \A i \in 1 .. Len(s) : s[i] = t[i]
  <2>1. /\ \A i \in 1 .. Len(s) : s[i] \in S
        /\ \A i \in 1 .. Len(s) : t[i] \in S
    BY <1>1, <1>2, ElementOfSeq
  <2>2. /\ SubSeq(t, 1, Len(s)) \in Seq(S)
        /\ Len(SubSeq(t, 1, Len(s))) = Len(s)
        /\ \A i \in 1 .. Len(s) : SubSeq(t, 1, Len(s))[i] = t[i]
    <3>1. /\ SubSeq(t, 1, Len(s)) \in Seq(S)
          /\ Len(SubSeq(t, 1, Len(s))) = IF 1 <= Len(s) THEN Len(s) - 1 + 1 ELSE 0
          /\ \A i \in 1 .. Len(s) - 1 + 1 : SubSeq(t, 1, Len(s))[i] = t[1 + i - 1]
      BY <1>1, <2>1, SubSeqProperties
    <3>2. QED
      BY <1>1, <3>1
  <2>3. SubSeq(s, 1, Len(s)) = s
    BY SubSeqFull
  <2>4. QED
    BY <2>2, <2>3, SeqEqual
<1>3. QED
  BY <1>2 DEF IsPrefix

LEMMA PrefixesOfOnePath ==
    ASSUME NEW S, NEW s \in Seq(S), NEW t \in Seq(S), NEW u \in Seq(S),
           IsPrefix(s, u), IsPrefix(t, u)
    PROVE  IsPrefix(s, t) \/ IsPrefix(t, s)
<1>1. Len(s) \in Nat /\ Len(t) \in Nat /\ Len(u) \in Nat
  BY LenProperties
<1>2. \A i \in 1 .. Len(s) : s[i] = u[i]
  BY PrefixIsPointwise
<1>3. \A i \in 1 .. Len(t) : t[i] = u[i]
  BY PrefixIsPointwise
<1>4. CASE Len(s) <= Len(t)
  BY <1>1, <1>2, <1>3, <1>4, PrefixIsPointwise
<1>5. CASE Len(t) <= Len(s)
  BY <1>1, <1>2, <1>3, <1>5, PrefixIsPointwise
<1>6. QED
  BY <1>1, <1>4, <1>5

LEMMA PrefixIsTransitive ==
    ASSUME NEW S, NEW s \in Seq(S), NEW t \in Seq(S), NEW u \in Seq(S),
           IsPrefix(s, t), IsPrefix(t, u)
    PROVE  IsPrefix(s, u)
<1>1. Len(s) \in Nat /\ Len(t) \in Nat /\ Len(u) \in Nat
  BY LenProperties
<1>2. Len(s) <= Len(t) /\ \A i \in 1 .. Len(s) : s[i] = t[i]
  BY PrefixIsPointwise
<1>3. Len(t) <= Len(u) /\ \A i \in 1 .. Len(t) : t[i] = u[i]
  BY PrefixIsPointwise
<1>4. QED
  BY <1>1, <1>2, <1>3, PrefixIsPointwise

(***************************************************************************)
(* A path that is not locked has no locked field at or below it.           *)
(***************************************************************************)
LEMMA NothingLockedBelow ==
    ASSUME NEW path \in Seq(Segments), ~IsLocked(path), NEW l \in Under(path)
    PROVE  ~IsLocked(l)
<1>1. l \in Seq(Segments) /\ IsPrefix(path, l)
  BY GateAssumption DEF Under
<1>2. ASSUME NEW p \in Seq(Segments), Covers(p, l)
      PROVE  Covers(p, path)
  <2>1. CASE IsPrefix(p, l)
    BY <1>1, <2>1, PrefixesOfOnePath DEF Covers
  <2>2. CASE IsPrefix(l, p)
    BY <1>1, <2>2, PrefixIsTransitive DEF Covers
  <2>3. QED
    BY <1>2, <2>1, <2>2 DEF Covers
<1>3. <<"meta">> \in Seq(Segments)
  BY GateAssumption
<1>4. LockedPaths \subseteq Seq(Segments)
  BY GateAssumption
<1>5. QED
  BY <1>2, <1>3, <1>4 DEF IsLocked

(***************************************************************************)
(* The inductive invariant.                                                *)
(***************************************************************************)
Configs == [Leaves -> SUBSET Atoms]
Snapshots == [cfg : Configs, status : {"draft", "ready"}]
Calls == [pc : CallPhases, path : Seq(Segments), value : SUBSET Atoms, expected : Nat,
          base : Nat, result : CallResults]

\* A configuration that changes nothing the platform locks.
Lawful(cfg) == \A l \in Leaves : IsLocked(l) => cfg[l] = Defaults[l]

HistoryInv ==
    /\ versions \in Seq(Snapshots)
    /\ Latest >= 1
    /\ \A i \in 1 .. Latest : /\ Lawful(versions[i].cfg)
                               /\ versions[i].status = StatusOf(versions[i].cfg)

\* What waits to be saved was judged, against a version that is still there and
\* is not older than the one the caller named.
CallsInv ==
    /\ calls \in [Callers -> Calls]
    /\ \A c \in Callers :
        /\ calls[c].pc \in {"read", "save"} => calls[c].expected <= Latest
        /\ calls[c].pc \in {"save", "revert"} => calls[c].base \in 1 .. Latest
        /\ calls[c].pc = "save" => /\ ~IsLocked(calls[c].path)
                                   /\ calls[c].expected <= calls[c].base

GateInv == HistoryInv /\ CallsInv

LEMMA PatchIsLawful ==
    ASSUME NEW cfg \in Configs, Lawful(cfg), NEW path \in Seq(Segments), ~IsLocked(path),
           NEW value \in SUBSET Atoms
    PROVE  Patched(cfg, path, value) \in Configs /\ Lawful(Patched(cfg, path, value))
<1>1. Patched(cfg, path, value) \in Configs
  BY DEF Patched, Configs
<1>2. ASSUME NEW l \in Leaves, IsLocked(l)
      PROVE  Patched(cfg, path, value)[l] = Defaults[l]
  <2>1. l \notin Under(path)
    BY <1>2, NothingLockedBelow
  <2>2. QED
    BY <1>2, <2>1 DEF Patched, Lawful
<1>3. QED
  BY <1>1, <1>2 DEF Lawful

\* The append of a lawful configuration keeps the history.
LEMMA AppendKeepsHistory ==
    ASSUME HistoryInv, NEW cfg \in Configs, Lawful(cfg), Append1(cfg)
    PROVE  HistoryInv' /\ Latest' = Latest + 1
<1>1. Snapshot(cfg) \in Snapshots
  BY DEF Snapshot, Snapshots, StatusOf
<1>2. Latest \in Nat
  BY LenProperties DEF HistoryInv, Latest
<1>3. /\ versions' \in Seq(Snapshots)
      /\ Latest' = Latest + 1
      /\ \A i \in 1 .. Latest : versions'[i] = versions[i]
      /\ versions'[Latest'] = Snapshot(cfg)
  BY <1>1, AppendProperties DEF Append1, HistoryInv, Latest
<1>4. ASSUME NEW i \in 1 .. Latest'
      PROVE  /\ Lawful(versions'[i].cfg)
             /\ versions'[i].status = StatusOf(versions'[i].cfg)
  <2>1. CASE i \in 1 .. Latest
    BY <1>3, <2>1 DEF HistoryInv
  <2>2. CASE i = Latest'
    BY <1>3, <2>2 DEF Snapshot
  <2>3. QED
    BY <1>2, <1>3, <2>1, <2>2
<1>5. QED
  BY <1>2, <1>3, <1>4 DEF HistoryInv

LEMMA InitInv == GateInit => GateInv
<1> SUFFICES ASSUME GateInit PROVE GateInv
  OBVIOUS
<1>1. Snapshot(Defaults) \in Snapshots
  BY GateAssumption DEF Snapshot, Snapshots, Configs, StatusOf
<1>2. versions \in Seq(Snapshots) /\ Len(versions) = 1 /\ versions[1] = Snapshot(Defaults)
  BY <1>1 DEF GateInit
<1>3. HistoryInv
  BY <1>2 DEF HistoryInv, Latest, Lawful, Snapshot
<1>4. Idle \in Calls
  <2>1. <<>> \in Seq(Segments)
    BY EmptySeq
  <2>2. QED
    BY <2>1 DEF Idle, Calls, CallPhases, CallResults, NoVersion
<1>5. CallsInv
  BY <1>4 DEF GateInit, CallsInv, Idle
<1>6. QED
  BY <1>3, <1>5 DEF GateInv


(***************************************************************************)
(* The steps.                                                              *)
(***************************************************************************)
LEMMA IdleIsACall ==
    /\ Idle \in Calls
    /\ Idle.pc = "idle"
<1>1. <<>> \in Seq(Segments)
  BY EmptySeq
<1>2. QED
  BY <1>1 DEF Idle, Calls, CallPhases, CallResults, NoVersion

LEMMA CallIsMade ==
    ASSUME NEW path \in Seq(Segments), NEW value \in SUBSET Atoms, NEW expected \in Nat,
           NEW call, call = [pc |-> "read", path |-> path, value |-> value,
                             expected |-> expected, base |-> NoVersion, result |-> "none"]
    PROVE  call \in Calls /\ call.pc = "read" /\ call.expected = expected
BY DEF Calls, CallPhases, CallResults, NoVersion

LEMMA RevertIsMade ==
    ASSUME NEW n \in Nat, NEW call, call = [Idle EXCEPT !.pc = "revert", !.base = n]
    PROVE  call \in Calls /\ call.pc = "revert" /\ call.base = n
<1>1. <<>> \in Seq(Segments)
  BY EmptySeq
<1>2. QED
  BY <1>1 DEF Idle, Calls, CallPhases, CallResults, NoVersion

LEMMA CallEnds ==
    ASSUME NEW call \in Calls, NEW n \in Nat,
           NEW end, end = [call EXCEPT !.pc = "idle", !.result = "accepted", !.base = n]
    PROVE  end \in Calls /\ end.pc = "idle"
<1>1. end = [pc |-> "idle", path |-> call.path, value |-> call.value,
             expected |-> call.expected, base |-> n, result |-> "accepted"]
  BY DEF Calls
<1>2. QED
  BY <1>1 DEF Calls, CallPhases, CallResults

\* A step that appends nothing keeps the invariant when the call it changes
\* meets it.
LEMMA CallStep ==
    ASSUME GateInv, NEW c \in Callers, NEW call \in Calls,
           calls' = [calls EXCEPT ![c] = call], UNCHANGED versions,
           call.pc \in {"read", "save"} => call.expected <= Latest,
           call.pc \in {"save", "revert"} => call.base \in 1 .. Latest,
           call.pc = "save" => ~IsLocked(call.path) /\ call.expected <= call.base
    PROVE  GateInv'
<1>1. HistoryInv'
  BY DEF GateInv, HistoryInv, Latest
<1>2. CallsInv'
  BY DEF GateInv, CallsInv, Latest
<1>3. QED
  BY <1>1, <1>2 DEF GateInv

\* A step that appends a lawful configuration ends the call that made it.
LEMMA AppendStep ==
    ASSUME GateInv, NEW c \in Callers, NEW call \in Calls, call.pc = "idle",
           calls' = [calls EXCEPT ![c] = call],
           NEW cfg \in Configs, Lawful(cfg), Append1(cfg)
    PROVE  GateInv'
<1>1. HistoryInv' /\ Latest' = Latest + 1 /\ Latest \in Nat
  BY AppendKeepsHistory, LenProperties DEF GateInv, HistoryInv, Latest
<1>2. CallsInv'
  BY <1>1 DEF GateInv, CallsInv, Calls
<1>3. QED
  BY <1>1, <1>2 DEF GateInv

\* The configuration of a version of the history is lawful.
LEMMA VersionIsLawful ==
    ASSUME GateInv, NEW i \in 1 .. Latest
    PROVE  versions[i].cfg \in Configs /\ Lawful(versions[i].cfg)
<1>1. versions[i] \in Snapshots
  BY ElementOfSeq DEF GateInv, HistoryInv, Latest
<1>2. QED
  BY <1>1 DEF GateInv, HistoryInv, Snapshots

LEMMA NextInv ==
    ASSUME GateInv, [GateNext]_gateVars
    PROVE  GateInv'
<1> USE DEF GateInv
<1>0. Latest \in Nat /\ Latest >= 1
  BY LenProperties DEF HistoryInv, Latest
<1>a. \A c \in Callers : calls[c] \in Calls
  BY DEF CallsInv
<1>1. ASSUME NEW c \in Callers, NEW path \in Paths, NEW value \in SUBSET Atoms,
             NEW expected \in 0 .. Latest, GateCall(c, path, value, expected)
      PROVE  GateInv'
  <2> DEFINE call == [pc |-> "read", path |-> path, value |-> value, expected |-> expected,
                      base |-> NoVersion, result |-> "none"]
  <2>1. path \in Seq(Segments)
    BY GateAssumption
  <2>2. call \in Calls /\ call.pc = "read" /\ call.expected = expected
    <3>1. expected \in Nat
      BY <1>0
    <3>2. QED
      BY <2>1, <3>1, CallIsMade
  <2>3. calls' = [calls EXCEPT ![c] = call] /\ UNCHANGED versions
    BY <1>1 DEF GateCall
  <2>4. expected <= Latest
    BY <1>0
  <2> HIDE DEF call
  <2>5. QED
    BY <2>2, <2>3, <2>4, CallStep
<1>2. ASSUME NEW c \in Callers, NEW n \in 1 .. Latest, GateRevert(c, n)
      PROVE  GateInv'
  <2> DEFINE call == [Idle EXCEPT !.pc = "revert", !.base = n]
  <2>1. call \in Calls /\ call.pc = "revert" /\ call.base = n
    <3>1. n \in Nat
      BY <1>0
    <3>2. QED
      BY <3>1, RevertIsMade
  <2>2. calls' = [calls EXCEPT ![c] = call] /\ UNCHANGED versions
    BY <1>2 DEF GateRevert
  <2> HIDE DEF call
  <2>3. QED
    BY <2>1, <2>2, CallStep
<1>3. ASSUME NEW c \in Callers, GateRead(c)
      PROVE  GateInv'
  <2> DEFINE verdict == GateVerdict(calls[c].path, calls[c].value)
  <2>1. CASE verdict = "accepted"
    <3> DEFINE call == [calls[c] EXCEPT !.pc = "save", !.base = Latest]
    <3>1. ~IsLocked(calls[c].path)
      BY <2>1 DEF GateVerdict
    <3>2. /\ call \in Calls /\ call.pc = "save" /\ call.base = Latest
          /\ call.path = calls[c].path /\ call.expected = calls[c].expected
      BY <1>0, <1>a DEF Calls, CallPhases
    <3>3. calls' = [calls EXCEPT ![c] = call] /\ UNCHANGED versions
      BY <1>3, <2>1 DEF GateRead
    <3>4. calls[c].expected <= Latest
      BY <1>3 DEF GateRead, CallsInv
    <3>5. call.base \in 1 .. Latest /\ ~IsLocked(call.path) /\ call.expected <= call.base
      BY <1>0, <3>1, <3>2, <3>4
    <3>6. call.pc \in {"read", "save"} => call.expected <= Latest
      BY <3>2, <3>4
    <3> HIDE DEF call
    <3>7. QED
      BY <3>2, <3>3, <3>5, <3>6, CallStep
  <2>2. CASE verdict # "accepted"
    <3> DEFINE call == [calls[c] EXCEPT !.pc = "idle", !.result = verdict]
    <3>1. call \in Calls /\ call.pc = "idle"
      BY <1>a DEF Calls, CallPhases, CallResults, GateVerdict
    <3>2. calls' = [calls EXCEPT ![c] = call] /\ UNCHANGED versions
      BY <1>3, <2>2 DEF GateRead
    <3> HIDE DEF call
    <3>3. QED
      BY <3>1, <3>2, CallStep
  <2>3. QED
    BY <2>1, <2>2
<1>4. ASSUME NEW c \in Callers, GateSave(c)
      PROVE  GateInv'
  <2>1. CASE Conflicts(c)
    <3> DEFINE call == [calls[c] EXCEPT !.pc = "idle", !.result = "conflict"]
    <3>1. call \in Calls /\ call.pc = "idle"
      BY <1>a DEF Calls, CallPhases, CallResults
    <3>2. calls' = [calls EXCEPT ![c] = call] /\ UNCHANGED versions
      BY <1>4, <2>1 DEF GateSave, CallsInv
    <3> HIDE DEF call
    <3>3. QED
      BY <3>1, <3>2, CallStep
  <2>2. CASE ~Conflicts(c)
    <3> DEFINE call == [calls[c] EXCEPT !.pc = "idle", !.result = "accepted",
                                        !.base = Latest + 1]
               old == versions[calls[c].base].cfg
               cfg == Patched(old, calls[c].path, calls[c].value)
    <3>1. call \in Calls /\ call.pc = "idle"
      <4>1. Latest + 1 \in Nat
        BY <1>0
      <4>2. QED
        BY <1>a, <4>1, CallEnds
    <3>2. calls' = [calls EXCEPT ![c] = call] /\ Append1(cfg)
      BY <1>4, <2>2 DEF GateSave, CallsInv
    <3>3. calls[c].base \in 1 .. Latest /\ ~IsLocked(calls[c].path)
      BY <1>4 DEF GateSave, CallsInv
    <3>4. old \in Configs /\ Lawful(old)
      BY <3>3, VersionIsLawful
    <3>5. calls[c].path \in Seq(Segments) /\ calls[c].value \in SUBSET Atoms
      BY <1>a DEF Calls
    <3> HIDE DEF call, old
    <3>6. cfg \in Configs /\ Lawful(cfg)
      BY <3>3, <3>4, <3>5, PatchIsLawful
    <3> HIDE DEF cfg
    <3>7. QED
      BY <3>1, <3>2, <3>6, AppendStep
  <2>3. QED
    BY <2>1, <2>2
<1>5. ASSUME NEW c \in Callers, GateSaveFails(c)
      PROVE  GateInv'
  <2> DEFINE call == [calls[c] EXCEPT !.pc = "idle", !.result = "error"]
  <2>1. call \in Calls /\ call.pc = "idle"
    BY <1>a DEF Calls, CallPhases, CallResults
  <2>2. calls' = [calls EXCEPT ![c] = call] /\ UNCHANGED versions
    BY <1>5 DEF GateSaveFails, CallsInv
  <2> HIDE DEF call
  <2>3. QED
    BY <2>1, <2>2, CallStep
<1>6. ASSUME NEW c \in Callers, GateRevertSave(c)
      PROVE  GateInv'
  <2> DEFINE call == [calls[c] EXCEPT !.pc = "idle", !.result = "accepted",
                                      !.base = Latest + 1]
             old == versions[calls[c].base].cfg
  <2>1. call \in Calls /\ call.pc = "idle"
    <3>1. Latest + 1 \in Nat
      BY <1>0
    <3>2. QED
      BY <1>a, <3>1, CallEnds
  <2>2. calls' = [calls EXCEPT ![c] = call] /\ Append1(old)
    BY <1>6 DEF GateRevertSave, CallsInv
  <2>3. calls[c].base \in 1 .. Latest
    BY <1>6 DEF GateRevertSave, CallsInv
  <2>4. old \in Configs /\ Lawful(old)
    BY <2>3, VersionIsLawful
  <2> HIDE DEF call, old
  <2>5. QED
    BY <2>1, <2>2, <2>4, AppendStep
<1>7. ASSUME NEW c \in Callers, Take(c)
      PROVE  GateInv'
  BY <1>7, IdleIsACall, CallStep DEF Take
<1>8. CASE UNCHANGED gateVars
  BY <1>8 DEF gateVars, HistoryInv, CallsInv, Latest
<1>9. QED
  BY <1>1, <1>2, <1>3, <1>4, <1>5, <1>6, <1>7, <1>8 DEF GateNext, GateStep

(***************************************************************************)
(* The theorems.                                                           *)
(***************************************************************************)
\* What the history holds and what each call under way has read (service.py, apply_patch).
THEOREM GateInvariant == GateSpec => []GateInv
<1>1. GateInit => GateInv
  BY InitInv
<1>2. GateInv /\ [GateNext]_gateVars => GateInv'
  BY NextInv
<1>3. QED
  BY <1>1, <1>2, PTL DEF GateSpec

\* Whatever the callers patch or restore, and however their calls interleave,
\* no version changes what the platform locks (gate.py, policy.py), and the
\* status stored with a version is the one its content deserves.
THEOREM GateHolds == GateSpec => []EveryVersionPassedTheGate
<1>1. GateInv => EveryVersionPassedTheGate
  BY DEF GateInv, HistoryInv, EveryVersionPassedTheGate, Lawful
<1>2. QED
  BY <1>1, GateInvariant, PTL

\* A save that names the version it was made for was judged against exactly the
\* version it replaces (repository.save, expected_version).
THEOREM CheckedEdits == GateSpec => CheckedEditLosesNothing
<1>1. ASSUME GateInv, [GateNext]_gateVars, NEW c \in Callers,
             calls[c].pc = "save", calls[c].expected # NoVersion, versions' # versions,
             calls'[c].pc = "idle", NEW l \in Leaves \ Under(calls[c].path)
      PROVE  versions'[Latest'].cfg[l] = versions[Latest].cfg[l]
  <2>1. GateSave(c) /\ ~Conflicts(c)
    <3>1. ASSUME NEW d \in Callers, GateStep(d)
          PROVE  d = c
      BY <1>1, <3>1 DEF GateStep, GateRead, GateSave, GateSaveFails, GateRevertSave,
                        GateInv, CallsInv
    <3>2. GateStep(c)
      BY <1>1, <3>1 DEF GateNext, GateCall, GateRevert, Take, gateVars
    <3>3. QED
      BY <1>1, <3>2 DEF GateStep, GateRead, GateSave, GateSaveFails, GateRevertSave
  <2> DEFINE cfg == Patched(versions[calls[c].base].cfg, calls[c].path, calls[c].value)
  <2>2. Append1(cfg) /\ Latest \in Nat
    BY <2>1, <1>1, LenProperties DEF GateSave, GateInv, HistoryInv, Latest
  <2>3. calls[c].base = Latest
    <3>1. calls[c].base \in 1 .. Latest /\ calls[c].expected <= calls[c].base
      BY <1>1 DEF GateInv, CallsInv
    <3>2. calls[c].expected = Latest
      BY <1>1, <2>1 DEF Conflicts
    <3>3. QED
      BY <2>2, <3>1, <3>2
  <2>4. versions[calls[c].base].cfg \in Configs /\ Lawful(versions[calls[c].base].cfg)
    BY <1>1, <2>2, <2>3, VersionIsLawful DEF GateInv, HistoryInv
  <2>5. calls[c].path \in Seq(Segments) /\ calls[c].value \in SUBSET Atoms
        /\ ~IsLocked(calls[c].path)
    BY <1>1 DEF GateInv, CallsInv, Calls
  <2>6. cfg \in Configs /\ Lawful(cfg)
    BY <2>4, <2>5, PatchIsLawful
  <2>7. Snapshot(cfg) \in Snapshots
    <3> HIDE DEF cfg
    <3>1. QED
      BY <2>6 DEF Snapshot, Snapshots, StatusOf
  <2>8. versions'[Latest'] = Snapshot(cfg)
    BY <1>1, <2>2, <2>7, AppendProperties DEF Append1, GateInv, HistoryInv, Latest
  <2>9. versions'[Latest'].cfg[l] = versions[calls[c].base].cfg[l]
    BY <1>1, <2>8 DEF Snapshot, Patched
  <2>10. QED
    BY <2>3, <2>9
<1>2. GateInv /\ [GateNext]_gateVars
      => [ \A c \in Callers :
             (calls[c].pc = "save" /\ calls[c].expected # NoVersion /\ versions' # versions
                /\ calls'[c].pc = "idle")
             => \A l \in Leaves \ Under(calls[c].path) :
                   versions'[Latest'].cfg[l] = versions[Latest].cfg[l] ]_gateVars
  BY <1>1
<1>3. QED
  BY <1>2, GateInvariant, PTL DEF CheckedEditLosesNothing, GateSpec
=============================================================================

------------------------------ MODULE Builder -------------------------------
(***************************************************************************)
(* The builder (backend/builder_loop, and the SSE route of backend/app.py  *)
(* that drives it) and the panel of the studio (frontend agentStore) over  *)
(* the configuration gate.  A turn asks the model, routes each tool call   *)
(* to the gate, reports the accepted patches on the stream of the turn,    *)
(* lets the model correct what was rejected within a bounded budget, and   *)
(* speaks.  The panel applies the patches of the stream and those of its   *)
(* own edits, and loads the whole configuration at times.                  *)
(***************************************************************************)
EXTENDS ConfigGate

CONSTANTS
    ToolCalls,      \* the tool calls the model may make
    MaxCalls,       \* bound: tool calls in one answer of the model
    MaxRetries,     \* max_retries of the loop
    MaxTurns,       \* bound: builder turns
    PanelPatches,   \* the edits the user makes in the panel
    ApiPatches,     \* those of a client of the API that sends versions
    Book, Calendar  \* closing.book_meeting, automation.calendar.enabled

TheBuilder == "builder"
ThePanel == "panel"
TheClient == "client"

ASSUME BuilderAssumption ==
    /\ {TheBuilder, ThePanel, TheClient} \subseteq Callers
    /\ MaxRetries \in Nat /\ MaxTurns \in Nat /\ MaxCalls \in Nat
    /\ PanelPatches \cup ApiPatches \subseteq Paths \X SUBSET Atoms
    /\ Book \in Leaves /\ Calendar \in Leaves \cap Paths /\ "on" \in Atoms
    /\ ToolCalls \subseteq [tool : {"set", "add", "clear", "unknown", "malformed"},
                             path : Paths, value : SUBSET Atoms]
    /\ \A t \in ToolCalls : t.tool = "add" => t.path \in Leaves
    \* The calendar is a field that anybody may switch on.
    /\ GateVerdict(Calendar, {"on"}) = "accepted"

VARIABLES
    turn,       \* the builder turn in progress
    history,    \* whether the session has messages
    wire,       \* events of the turn on their way to the panel
    panel       \* what the panel shows, and the requests it waits for

builderVars == <<turn, history, wire>>
studioVars == <<versions, calls, turn, history, wire, panel>>

NoPatch == [path |-> <<>>, value |-> {}, ready |-> FALSE]
NoTurn == [pc |-> "idle", attempt |-> 0, todo |-> <<>>, done |-> <<>>,
           report |-> <<>>, rejected |-> FALSE,
           before |-> "draft", saved |-> <<>>, reported |-> <<>>, turns |-> 0]

BuilderInit == turn = NoTurn /\ history = FALSE /\ wire = <<>>

Call1 == Head(turn.todo)
Event(kind, patch) == [kind |-> kind, patch |-> patch]
NoEvent == NoPatch

(***************************************************************************)
(* The start of a turn.  An empty message opens the conversation, once.    *)
(***************************************************************************)
BuilderOpens ==
    /\ turn.pc = "idle" /\ wire = <<>> /\ turn.turns < MaxTurns /\ ~history
    /\ turn' = [NoTurn EXCEPT !.pc = "tokens", !.turns = turn.turns + 1]
    /\ UNCHANGED <<versions, calls, history, wire, panel>>

BuilderStarts ==
    /\ turn.pc = "idle" /\ wire = <<>> /\ turn.turns < MaxTurns
    /\ turn' = [NoTurn EXCEPT !.pc = "model", !.turns = turn.turns + 1]
    /\ history' = TRUE
    /\ UNCHANGED <<versions, calls, wire, panel>>

\* The model answers with tool calls, with text, or with both.
BuilderModelAnswers ==
    /\ turn.pc = "model"
    /\ \E answer \in UNION {[1 .. n -> ToolCalls] : n \in 0 .. MaxCalls} :
         turn' = [turn EXCEPT !.pc = "apply", !.todo = answer, !.report = <<>>,
                              !.rejected = FALSE]
    /\ UNCHANGED <<versions, calls, history, wire, panel>>

(***************************************************************************)
(* _apply: one tool call.  The helpers that add to a list or clear a field *)
(* read the configuration first and patch with what they computed from it. *)
(***************************************************************************)
ValueOf(call) ==
    CASE call.tool = "set"   -> call.value
      [] call.tool = "add"   -> Current[call.path] \cup call.value
      [] call.tool = "clear" -> {}

\* ServiceBuilderGate.apply_patch reads the status before it patches.
GateAsked(path, value) ==
    /\ GateCall(TheBuilder, path, value, NoVersion)
    /\ turn' = [turn EXCEPT !.pc = "gate", !.before = versions[Latest].status]
    /\ UNCHANGED <<history, wire, panel>>

BuilderApplies ==
    /\ turn.pc = "apply" /\ turn.todo # <<>> /\ Call1.tool \in {"set", "add", "clear"}
    /\ turn.done = <<>>
    /\ turn' = [turn EXCEPT !.pc = "patch", !.todo[1].value = ValueOf(Call1)]
    /\ UNCHANGED <<versions, calls, history, wire, panel>>

BuilderPatches == turn.pc = "patch" /\ GateAsked(Call1.path, Call1.value)

\* A tool the loop does not know is a rejection like one of the gate.
BuilderRejects ==
    /\ turn.pc = "apply" /\ turn.todo # <<>> /\ Call1.tool = "unknown"
    /\ turn' = [turn EXCEPT !.todo = Tail(@), !.rejected = TRUE]
    /\ UNCHANGED <<versions, calls, history, wire, panel>>

\* A meeting in the closing switches the calendar on, in a second patch.
Cascades(call) ==
    /\ call.tool = "set" /\ call.path = Book /\ call.value # {}
    /\ Current[Calendar] = {} /\ Len(turn.done) = 0

GateReturned == turn.pc = "gate" /\ Returned(TheBuilder)
Outcome == calls[TheBuilder]
Accepted ==
    LET v == versions[Outcome.base] IN
    [path |-> Outcome.path, value |-> Outcome.value,
     ready |-> v.status # turn.before /\ v.status = "ready"]

BuilderAccepted ==
    /\ GateReturned /\ Outcome.result = "accepted"
    /\ LET results == Append(turn.done, Accepted)
           recorded == [turn EXCEPT !.saved = Append(@, Accepted)] IN
       IF Cascades(Call1)
       THEN turn' = [recorded EXCEPT !.pc = "cascade", !.done = results]
       ELSE turn' = [recorded EXCEPT !.pc = "apply", !.done = <<>>, !.todo = Tail(@),
                                     !.report = @ \o results]
    /\ Take(TheBuilder) /\ UNCHANGED <<history, wire, panel>>

BuilderCascades == turn.pc = "cascade" /\ GateAsked(Calendar, {"on"})

\* What the call had applied before the rejection is not reported.
BuilderRejected ==
    /\ GateReturned /\ Outcome.result \notin {"accepted", "error"}
    /\ turn' = [turn EXCEPT !.pc = "apply", !.done = <<>>, !.todo = Tail(@), !.rejected = TRUE]
    /\ Take(TheBuilder) /\ UNCHANGED <<history, wire, panel>>

(***************************************************************************)
(* The report, the retry, the reply.                                       *)
(***************************************************************************)
\* One accepted patch goes on the stream, with the status it made ready.
BuilderReports ==
    /\ turn.pc = "apply" /\ turn.todo = <<>> /\ turn.report # <<>>
    /\ LET p == Head(turn.report) IN
       /\ wire' = Append(wire, Event("patch", p))
       /\ turn' = [turn EXCEPT !.report = Tail(@), !.reported = Append(@, p)]
    /\ UNCHANGED <<versions, calls, history, panel>>

MutantReported == turn.pc = "apply" /\ turn.todo = <<>>
Reported == turn.pc = "apply" /\ turn.todo = <<>> /\ turn.report = <<>>

MutantBuilderRetries ==
    /\ Reported /\ turn.rejected
    /\ turn' = [turn EXCEPT !.pc = "model", !.attempt = @ + 1]
    /\ UNCHANGED <<versions, calls, history, wire, panel>>

BuilderRetries ==
    /\ Reported /\ turn.rejected /\ turn.attempt < MaxRetries
    /\ turn' = [turn EXCEPT !.pc = "model", !.attempt = @ + 1]
    /\ UNCHANGED <<versions, calls, history, wire, panel>>

\* The rejections that are left become notices; a silent model is asked to speak,
\* and what it fails to say has a fallback.
BuilderConcludes ==
    /\ Reported /\ ~(turn.rejected /\ turn.attempt < MaxRetries)
    /\ wire' = IF turn.rejected THEN Append(wire, Event("notice", NoEvent)) ELSE wire
    /\ \E spoken \in {"tokens", "reply"} : turn' = [turn EXCEPT !.pc = spoken]
    /\ UNCHANGED <<versions, calls, history, panel>>

BuilderReplies ==
    /\ turn.pc = "reply"
    /\ turn' = [turn EXCEPT !.pc = "tokens"]
    /\ UNCHANGED <<versions, calls, history, wire, panel>>

BuilderEnds ==
    /\ turn.pc = "tokens"
    /\ history' = TRUE
    /\ wire' = Append(wire, Event("done", NoEvent))
    /\ turn' = [NoTurn EXCEPT !.turns = turn.turns]
    /\ UNCHANGED <<versions, calls, panel>>

(***************************************************************************)
(* The ways a turn ends early: the model raises or is blocked, a tool call *)
(* lacks an argument, the storage raises.  The route answers with a notice *)
(* and the end of the stream; what was accepted and not yet reported stays *)
(* saved, and the user's message stays in the session.                     *)
(***************************************************************************)
BuilderRaises ==
    \/ turn.pc = "model"
    \/ turn.pc = "apply" /\ turn.todo # <<>> /\ Call1.tool = "malformed"
    \/ GateReturned /\ Outcome.result = "error"

BuilderFails ==
    /\ BuilderRaises
    /\ wire' = wire \o <<Event("notice", NoEvent), Event("done", NoEvent)>>
    /\ turn' = [NoTurn EXCEPT !.turns = turn.turns]
    /\ Take(TheBuilder) /\ UNCHANGED <<history, panel>>

\* The browser is gone: the route is cancelled where it awaits or sends.
BuilderClientLeaves ==
    /\ turn.pc \in {"model", "reply", "tokens"} \/ (turn.pc = "apply" /\ turn.todo = <<>>)
    /\ turn' = [NoTurn EXCEPT !.turns = turn.turns]
    /\ wire' = <<>>
    /\ UNCHANGED <<versions, calls, history, panel>>

BuilderNext ==
    \/ BuilderOpens \/ BuilderStarts \/ BuilderModelAnswers \/ BuilderApplies
    \/ BuilderPatches \/ BuilderRejects \/ BuilderAccepted \/ BuilderCascades
    \/ BuilderRejected \/ BuilderReports \/ BuilderRetries \/ BuilderConcludes
    \/ BuilderReplies \/ BuilderEnds \/ BuilderFails \/ BuilderClientLeaves

(***************************************************************************)
(* The panel.                                                              *)
(***************************************************************************)
NotLoaded == [l \in Leaves |-> {BadType}]
PanelInit == panel = [cfg |-> NotLoaded, ready |-> FALSE, load |-> NoVersion, editing |-> FALSE]
Loaded == panel.cfg # NotLoaded

\* GET /agents/{id}: the server reads a snapshot, which arrives later.
PanelAsks ==
    /\ panel.load = NoVersion
    /\ panel' = [panel EXCEPT !.load = Latest]
    /\ UNCHANGED <<versions, calls, builderVars>>

PanelLoads ==
    /\ panel.load # NoVersion
    /\ LET v == versions[panel.load] IN
       panel' = [panel EXCEPT !.cfg = v.cfg, !.ready = v.status = "ready", !.load = NoVersion]
    /\ UNCHANGED <<versions, calls, builderVars>>

\* applyPatch of the store: the one path, nothing while nothing is loaded.
Shown(path, value) == IF Loaded THEN Patched(panel.cfg, path, value) ELSE panel.cfg

PanelReceives ==
    /\ wire # <<>>
    /\ wire' = Tail(wire)
    /\ LET e == Head(wire) IN
       panel' = IF e.kind # "patch" THEN panel
                ELSE [panel EXCEPT !.cfg = Shown(e.patch.path, e.patch.value),
                                   !.ready = @ \/ (Loaded /\ e.patch.ready)]
    /\ UNCHANGED <<versions, calls, turn, history>>

PanelEdits ==
    /\ ~panel.editing /\ Loaded
    /\ \E p \in PanelPatches : GateCall(ThePanel, p[1], p[2], NoVersion)
    /\ panel' = [panel EXCEPT !.editing = TRUE]
    /\ UNCHANGED builderVars

MutantPanelEdited ==
    /\ panel.editing /\ Returned(ThePanel)
    /\ panel' = [panel EXCEPT !.editing = FALSE,
                   !.cfg = Shown(calls[ThePanel].path, calls[ThePanel].value)]
    /\ Take(ThePanel) /\ UNCHANGED builderVars

\* The panel shows an edit when the gate has accepted it; a failure is a notice.
PanelEdited ==
    /\ panel.editing /\ Returned(ThePanel)
    /\ panel' = [panel EXCEPT !.editing = FALSE,
                   !.cfg = IF calls[ThePanel].result = "accepted"
                           THEN Shown(calls[ThePanel].path, calls[ThePanel].value) ELSE @]
    /\ Take(ThePanel) /\ UNCHANGED builderVars

PanelNext == PanelAsks \/ PanelLoads \/ PanelReceives \/ PanelEdits \/ PanelEdited

(***************************************************************************)
(* A client of the API that names the version its edit is for, or reverts. *)
(***************************************************************************)
ClientEdits ==
    /\ \E p \in ApiPatches, v \in 1 .. Latest : GateCall(TheClient, p[1], p[2], v)
    /\ UNCHANGED <<builderVars, panel>>

ClientReverts ==
    /\ \E n \in 1 .. Latest - 1 : GateRevert(TheClient, n)
    /\ UNCHANGED <<builderVars, panel>>

ClientTakes == Returned(TheClient) /\ Take(TheClient) /\ UNCHANGED <<builderVars, panel>>

ClientNext == ClientEdits \/ ClientReverts \/ ClientTakes

ServiceNext == \E c \in Callers : GateStep(c) /\ UNCHANGED <<builderVars, panel>>

StudioInit == GateInit /\ BuilderInit /\ PanelInit

(***************************************************************************)
(* Properties.                                                             *)
(***************************************************************************)
BuilderTypeOK ==
    /\ turn.pc \in {"idle", "model", "apply", "patch", "gate", "cascade", "reply", "tokens"}
    /\ turn.attempt \in 0 .. MaxRetries /\ turn.turns \in 0 .. MaxTurns
    /\ Len(turn.todo) <= MaxCalls
    /\ panel.load \in 0 .. Latest

\* A turn that comes to its reply has put on the stream every patch it saved,
\* in the order it saved them, whatever was rejected, retried or cascaded, and
\* whatever other callers saved in between.
TurnReportsWhatItSaved ==
    turn.pc \in {"reply", "tokens"} => turn.reported = turn.saved

\* Whatever order edits, patches of the stream and loads arrive in, the panel
\* never shows a value the server has not accepted, and never calls an agent
\* ready that never was.
PanelShowsOnlyServerValues ==
    Loaded =>
        /\ \A l \in Leaves : \E i \in 1 .. Latest : panel.cfg[l] = versions[i].cfg[l]
        /\ panel.ready => \E i \in 1 .. Latest : versions[i].status = "ready"
=============================================================================

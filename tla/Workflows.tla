----------------------------- MODULE Workflows ------------------------------
(***************************************************************************)
(* The post-call automations (backend/async_workflows): an outcome event   *)
(* starts the workflow it is routed to; a step invokes a tool or parks a   *)
(* follow-up until it is due.  Events are delivered at least once and a    *)
(* run may fail in the middle, so every effect is fenced by a key that is  *)
(* recorded, in one test-and-set, before the effect.                       *)
(*                                                                         *)
(* Runs interleave at their awaits: of the ledger, the tool, the store and *)
(* the sink.                                                               *)
(***************************************************************************)
EXTENDS Integers, FiniteSets, SequencesExt

CONSTANTS
    Library,            \* [workflow -> its steps]
    Routes,             \* [outcome -> workflow]
    Events,             \* ids of lead.outcome events
    Outcomes, Attempts, \* what they may carry
    MaxAttempts,        \* of the campaign's envelope
    BackoffBase, BackoffCap,
    MaxClock, MaxDeliveries     \* bounds

ToolStep(tool) == [kind |-> "tool", what |-> tool, backoff |-> FALSE, bounded |-> FALSE]
ScheduleStep(workflow, backoff, bounded) ==
    [kind |-> "schedule", what |-> workflow, backoff |-> backoff, bounded |-> bounded]

\* The shipped automations: a refusal is only recorded, the other outcomes plan a
\* follow-up; an outcome that is not listed does nothing.
DefaultLibrary ==
    [booking_confirmation |-> <<ToolStep("email"), ToolStep("crm")>>,
     qualified_nurture    |-> <<ToolStep("crm"), ScheduleStep("nurture_touch", FALSE, FALSE)>>,
     nurture_touch        |-> <<ToolStep("email")>>,
     no_answer_followup   |-> <<ScheduleStep("no_answer_touch", TRUE, TRUE)>>,
     no_answer_touch      |-> <<ToolStep("email")>>,
     opt_out_record       |-> <<ToolStep("crm")>>]

DefaultRoutes ==
    [booked    |-> "booking_confirmation", qualified |-> "qualified_nurture",
     no_answer |-> "no_answer_followup",   voicemail |-> "no_answer_followup",
     opted_out |-> "opt_out_record"]

Unanswered == {"no_answer", "voicemail"}

\* Workflows that plan only what the attempts bound, and only each other.
KeepsCadence(workflows) ==
    \A w \in workflows : \A i \in DOMAIN Library[w] :
        Library[w][i].kind = "schedule" => Library[w][i].bounded /\ Library[w][i].what \in workflows

ASSUME WorkflowsAssumption ==
    /\ MaxAttempts \in Nat /\ MaxClock \in Nat /\ MaxDeliveries \in Nat
    /\ BackoffBase \in Nat /\ BackoffCap \in Nat /\ Attempts \subseteq Nat

\* A library is closed, and what follows an unanswered call keeps the cadence.
ASSUME LibraryAssumption ==
    /\ \A w \in DOMAIN Library :
          /\ Library[w] = [i \in 1 .. Len(Library[w]) |-> Library[w][i]] /\ Len(Library[w]) \in Nat \ {0}
          /\ \A i \in 1 .. Len(Library[w]) :
                Library[w][i].kind # "tool" =>
                    Library[w][i].kind = "schedule" /\ Library[w][i].what \in DOMAIN Library
    /\ "none" \notin DOMAIN Routes
    /\ \A outcome \in DOMAIN Routes : Routes[outcome] \in DOMAIN Library
    /\ \E workflows \in SUBSET DOMAIN Library :
          /\ KeepsCadence(workflows)
          /\ \A outcome \in Unanswered \cap DOMAIN Routes : Routes[outcome] \in workflows

VARIABLES
    emitted,    \* the lead.outcome events: [id -> outcome and attempts]
    runs,       \* the runs in progress
    ledger,     \* the keys recorded
    effects,    \* the keys whose effect took place
    repeated,   \* those of them whose effect took place again
    timers,     \* ScheduleStore
    failed,     \* the keys whose step raised
    hour, deliveries

wfVars == <<emitted, runs, ledger, effects, repeated, timers, failed, hour, deliveries>>

NotEmitted == [outcome |-> "none", attempts |-> 0]

WfInit ==
    /\ emitted = [e \in Events |-> NotEmitted]
    /\ runs = <<>> /\ ledger = {} /\ effects = {} /\ repeated = {} /\ timers = {} /\ failed = {}
    /\ hour = 0 /\ deliveries = 0

(***************************************************************************)
(* A run's id is the path of what started it: the event, then the steps    *)
(* that parked it.                                                         *)
(***************************************************************************)
StepKey(run, index) == Append(run, index)
EventOf(run) == run[1]

OutcomeRecorded(e, outcome, attempts) ==
    /\ emitted[e] = NotEmitted
    /\ emitted' = [emitted EXCEPT ![e] = [outcome |-> outcome, attempts |-> attempts]]
    /\ UNCHANGED <<runs, ledger, effects, repeated, timers, failed, hour, deliveries>>

\* `then' is what a tick of the scheduler runs after this run.
Start(id, workflow, then) ==
    [id |-> id, workflow |-> workflow, at |-> 1, pc |-> "step", then |-> then]

\* dispatcher.handle, for the first delivery and for every other.
Delivered(e) ==
    /\ emitted[e].outcome \in DOMAIN Routes /\ deliveries < MaxDeliveries
    /\ deliveries' = deliveries + 1
    /\ runs' = Append(runs, Start(<<e>>, Routes[emitted[e].outcome], <<>>))
    /\ UNCHANGED <<emitted, ledger, effects, repeated, timers, failed, hour>>

StepOf(r) == Library[runs[r].workflow][runs[r].at]
KeyOf(r) == StepKey(runs[r].id, runs[r].at)
AttemptsOf(r) == emitted[EventOf(runs[r].id)].attempts

Batch(timersDue) ==
    Start(Head(timersDue).id, Head(timersDue).workflow, Tail(timersDue))

MovesOn(r) ==
    IF runs[r].at < Len(Library[runs[r].workflow])
    THEN [runs EXCEPT ![r].at = @ + 1, ![r].pc = "step"]
    ELSE IF runs[r].then = <<>> THEN RemoveAt(runs, r)
    ELSE [runs EXCEPT ![r] = Batch(@.then)]

Exhausted(r) == StepOf(r).bounded /\ AttemptsOf(r) >= MaxAttempts

MutantStepFenced(r) ==
    /\ runs[r].pc = "step" /\ ~Exhausted(r)
    /\ IF KeyOf(r) \in effects THEN runs' = MovesOn(r) /\ UNCHANGED ledger
       ELSE /\ ledger' = ledger \cup {KeyOf(r)}
            /\ runs' = [runs EXCEPT ![r].pc = "act"]
    /\ UNCHANGED <<emitted, effects, repeated, timers, failed, hour, deliveries>>

\* check_and_record: a key already there is skipped.
StepFenced(r) ==
    /\ runs[r].pc = "step" /\ ~Exhausted(r)
    /\ IF KeyOf(r) \in ledger THEN runs' = MovesOn(r) /\ UNCHANGED ledger
       ELSE /\ ledger' = ledger \cup {KeyOf(r)}
            /\ runs' = [runs EXCEPT ![r].pc = "act"]
    /\ UNCHANGED <<emitted, effects, repeated, timers, failed, hour, deliveries>>

CadenceSpent(r) ==
    /\ runs[r].pc = "step" /\ Exhausted(r)
    /\ runs' = MovesOn(r)
    /\ UNCHANGED <<emitted, ledger, effects, repeated, timers, failed, hour, deliveries>>

Lesser(a, b) == IF a <= b THEN a ELSE b
BackoffSeconds(attempts) ==
    Lesser(BackoffBase * 2 ^ ((IF attempts < 1 THEN 1 ELSE attempts) - 1), BackoffCap)

\* A step without backoff waits a fixed time; BackoffCap stands for that too.
DueAt(r) == hour + IF StepOf(r).backoff THEN BackoffSeconds(AttemptsOf(r)) ELSE BackoffCap

\* The effect; its event is a second await.  The store takes an id once.
StepTakesEffect(r) ==
    /\ runs[r].pc = "act"
    /\ effects' = effects \cup {KeyOf(r)}
    /\ repeated' = IF KeyOf(r) \in effects THEN repeated \cup {KeyOf(r)} ELSE repeated
    /\ timers' = IF StepOf(r).kind = "tool" \/ \E t \in timers : t.id = KeyOf(r) THEN timers
                 ELSE timers \cup {[id |-> KeyOf(r), due |-> DueAt(r), workflow |-> StepOf(r).what]}
    /\ runs' = [runs EXCEPT ![r].pc = "report"]
    /\ UNCHANGED <<emitted, ledger, failed, hour, deliveries>>

StepReported(r) ==
    /\ runs[r].pc = "report"
    /\ runs' = MovesOn(r)
    /\ UNCHANGED <<emitted, ledger, effects, repeated, timers, failed, hour, deliveries>>

\* The tool, its lookup or the sink raises: the exception ends the run, and the
\* tick with what it had still to run.
StepRaises(r) ==
    /\ runs[r].pc \in {"act", "report"}
    /\ failed' = failed \cup {KeyOf(r)}
    /\ runs' = RemoveAt(runs, r)
    /\ UNCHANGED <<emitted, ledger, effects, repeated, timers, hour, deliveries>>

HourPasses ==
    /\ hour < MaxClock
    /\ hour' = hour + 1
    /\ UNCHANGED <<emitted, runs, ledger, effects, repeated, timers, failed, deliveries>>

\* The lists of a set of timers in the order they are due.
Orders(due) ==
    {list \in [1 .. Cardinality(due) -> due] :
        \A i, j \in 1 .. Cardinality(due) : i < j => list[i] # list[j] /\ list[i].due <= list[j].due}

\* pop_due forgets what is due, then it is run in the order it was due.
SchedulerTicks ==
    LET due == {t \in timers : t.due <= hour} IN
    /\ due # {}
    /\ timers' = timers \ due
    /\ \E list \in Orders(due) : runs' = Append(runs, Batch(list))
    /\ UNCHANGED <<emitted, ledger, effects, repeated, failed, hour, deliveries>>

WfNext ==
    \/ \E e \in Events : \/ \E outcome \in Outcomes, n \in Attempts :
                                      OutcomeRecorded(e, outcome, n)
                                \/ Delivered(e)
    \/ \E r \in DOMAIN runs : \/ StepFenced(r) \/ CadenceSpent(r) \/ StepTakesEffect(r)
                              \/ StepReported(r) \/ StepRaises(r)
    \/ HourPasses \/ SchedulerTicks

WfSpec == WfInit /\ [][WfNext]_wfVars

(***************************************************************************)
(* Properties.                                                             *)
(***************************************************************************)
WfTypeOK ==
    /\ \A r \in DOMAIN runs : /\ runs[r].at \in DOMAIN Library[runs[r].workflow]
                              /\ runs[r].pc \in {"step", "act", "report"}
    /\ effects \subseteq ledger

\* However often an outcome is delivered and however its runs interleave, fail and
\* are delivered again, every automation of it takes effect at most once; one that
\* is recorded has taken effect, is about to, or has failed; and a lead whose
\* attempts are spent gets no timer.
AutomationsRunOnce ==
    /\ repeated = {}
    /\ \A key \in ledger : \/ key \in effects \/ key \in failed
                           \/ \E r \in DOMAIN runs : runs[r].pc = "act" /\ KeyOf(r) = key
    /\ \A t \in timers : emitted[EventOf(t.id)].outcome \in Unanswered =>
                            emitted[EventOf(t.id)].attempts < MaxAttempts
=============================================================================

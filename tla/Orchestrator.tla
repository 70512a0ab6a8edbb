---------------------------- MODULE Orchestrator ----------------------------
(***************************************************************************)
(* The campaign orchestrator: OrchestratorService (authorize and the kill  *)
(* switch), SupervisedOrchestrator (one background _drive task per         *)
(* campaign), CampaignRunner (the dispatch loop) and the leads table that  *)
(* is its queue, for the campaigns of one tenant.                          *)
(*                                                                         *)
(* Everything runs on one asyncio event loop.  A coroutine keeps the loop  *)
(* until it awaits something that is not ready, so:                        *)
(*   - a request handler is one action (no sink that the application wires *)
(*     suspends inside emit);                                              *)
(*   - the dispatch loop is a sequence of steps, taken while its pc is     *)
(*     "loop", that no other coroutine interleaves with; it lets the loop  *)
(*     go when it waits for a call, sleeps, drains, or returns.            *)
(* The process may die between any two steps.                              *)
(*                                                                         *)
(* Bounds: MaxFaults limits how often the environment may fail, Faults is  *)
(* the set of ways it may fail, Commands is the set of requests users may  *)
(* send.  All the other state is finite by itself.                         *)
(*                                                                         *)
(* The operators named Mutant... are the definition that follows them with *)
(* one mistake; no action uses them.  They show which mistake each         *)
(* property catches.                                                       *)
(***************************************************************************)
EXTENDS Integers, FiniteSets

CONSTANTS
    Campaigns,       \* the campaigns of the tenant
    Leads,           \* the rows of the leads table
    CampaignOf,      \* CampaignOf[l]: the campaign that lead l belongs to
    Drives,          \* identities of the supervisor's _drive tasks, reused
    None,            \* "no drive": an empty registry slot, an orphaned call
    Outcomes,        \* the call outcomes the dialer may report here
    MaxAttempts,     \* envelope.max_attempts_per_lead
    MaxConcurrent,   \* envelope.max_concurrent_calls
    CallsPerMinute,  \* envelope.calls_per_minute
    Commands,        \* which requests the users send
    Faults,          \* which failures may happen
    MaxFaults        \* bound on the number of failures

Terminal  == {"booked", "qualified", "not_qualified", "opted_out", "transferred"}
Retriable == {"no_answer", "voicemail", "failed"}

AllCommands == {"authorize", "pause", "resume", "autopause", "stop", "clear"}

\* The process dies; an emit in a request handler raises; save_lead raises after
\* a call; run_campaign raises.
FaultKinds == {"crash", "emit", "save", "runner"}

ASSUME OrchestratorAssumption ==
    /\ CampaignOf \in [Leads -> Campaigns]
    /\ IsFiniteSet(Leads)
    /\ Drives # {}
    /\ None \notin Drives
    /\ Outcomes \subseteq Terminal \cup Retriable
    /\ MaxAttempts \in Nat
    /\ MaxConcurrent \in Nat
    /\ CallsPerMinute \in Nat \ {0}   \* RateLimiter takes max(1, per_minute)
    /\ Commands \subseteq AllCommands
    /\ Faults \subseteq FaultKinds
    /\ MaxFaults \in Nat

VARIABLES
    camp,       \* Campaign.state; "absent" before authorize creates the row
    autopaused, \* autopause_reason is set
    stopped,    \* the tenant's row in the global stops
    leadState,  \* Lead.state
    attempts,   \* Lead.attempts
    outcome,    \* Lead.outcome; "none" before the first call returns
    waiting,    \* the leads whose next_action_at is in the future
    registry,   \* SupervisedOrchestrator._runners: the drive of a campaign
    pc,         \* where each drive of each campaign is
    limiter,    \* stamps in the RateLimiter of a drive
    tasks,      \* the _handle_lead tasks: one dial each, in flight
    open,       \* now is within the calling window
    recent,     \* dials each campaign placed in the trailing minute: the age of its stamps
    dials,      \* history: calls placed for each attempt of each lead
    optedOut,   \* history: leads that opted out in some call that returned
    faults      \* history: how often each kind of failure happened

dbVars    == <<camp, autopaused, stopped, leadState, attempts, outcome, waiting>>
leadVars  == <<leadState, attempts, outcome, waiting>>
loopVars  == <<registry, pc, limiter, tasks>>
histVars  == <<recent, dials, optedOut>>
vars == <<camp, autopaused, stopped, leadState, attempts, outcome, waiting,
          registry, pc, limiter, tasks, open, recent, dials, optedOut, faults>>

CampaignStates == {"absent", "running", "paused", "completed"}
LeadStates     == {"queued", "dialing", "retry", "done"}
Sleeping       == {"sleepHours", "sleepRate", "sleepRetry"}
Pcs == {"none", "spawned", "loop", "wait", "ready", "drain"} \cup Sleeping

AttemptNumbers == 1 .. (IF MaxAttempts = 0 THEN 1 ELSE MaxAttempts)
Task == [lead : Leads, attempt : AttemptNumbers, nth : Nat \ {0},
         drive : Drives \cup {None}]

-----------------------------------------------------------------------------
\* Queries the handlers make.

LeadsOf(c)    == {l \in Leads : CampaignOf[l] = c}
Own(c, d)     == {t \in tasks : t.drive = d /\ CampaignOf[t.lead] = c}
Interrupted(c) == {l \in LeadsOf(c) : leadState[l] = "dialing"}
MutantEligibleDone(c) == {l \in LeadsOf(c) : leadState[l] # "dialing" /\ l \notin waiting}
Eligible(c) == {l \in LeadsOf(c) : leadState[l] \in {"queued", "retry"} /\ l \notin waiting}
HasUnfinished(c)  == \E l \in LeadsOf(c) : leadState[l] # "done"
MutantFutureQueued(c) == \E l \in LeadsOf(c) : leadState[l] = "queued" /\ l \in waiting
HasFutureRetry(c) == \E l \in LeadsOf(c) : leadState[l] = "retry" /\ l \in waiting

\* No coroutine holds the event loop.
LoopFree == \A c \in Campaigns, d \in Drives : pc[c][d] # "loop"

\* The registered task exists and is not done.
Driven(c) == registry[c] # None /\ pc[c][registry[c]] # "none"

\* A failure of kind k happens in this step.
Fails(k) ==
    /\ k \in Faults
    /\ faults["crash"] + faults["emit"] + faults["save"] + faults["runner"] < MaxFaults
    /\ faults' = [faults EXCEPT ![k] = @ + 1]

GoTo(c, d, p) == pc' = [pc EXCEPT ![c][d] = p]

-----------------------------------------------------------------------------
Init ==
    /\ camp = [c \in Campaigns |-> "absent"]
    /\ autopaused = [c \in Campaigns |-> FALSE]
    /\ stopped = FALSE
    /\ leadState = [l \in Leads |-> "queued"]
    /\ attempts = [l \in Leads |-> 0]
    /\ outcome = [l \in Leads |-> "none"]
    /\ waiting = {}
    /\ registry = [c \in Campaigns |-> None]
    /\ pc = [c \in Campaigns |-> [d \in Drives |-> "none"]]
    /\ limiter = [c \in Campaigns |-> [d \in Drives |-> 0]]
    /\ tasks = {}
    /\ open \in BOOLEAN
    /\ recent = [c \in Campaigns |-> 0]
    /\ dials = [l \in Leads |-> [a \in AttemptNumbers |-> 0]]
    /\ optedOut = {}
    /\ faults = [k \in FaultKinds |-> 0]

-----------------------------------------------------------------------------
\* The supervisor.

MutantSpawnAlways(c) ==
    \E d \in Drives :
        /\ pc[c][d] = "none"
        /\ registry' = [registry EXCEPT ![c] = d]
        /\ GoTo(c, d, "spawned")

\* _ensure_running: one task per campaign; a live one makes this a no-op.
EnsureRunning(c) ==
    IF Driven(c)
    THEN UNCHANGED <<registry, pc>>
    ELSE \E d \in Drives :
            /\ pc[c][d] = "none"
            /\ registry' = [registry EXCEPT ![c] = d]
            /\ GoTo(c, d, "spawned")

\* The handler's emit may raise: the row is saved, the call after it is not made.
EmitThenEnsureRunning(c) ==
    \/ EnsureRunning(c) /\ UNCHANGED faults
    \/ Fails("emit") /\ UNCHANGED <<registry, pc>>

\* authorize_campaign: creates the campaign RUNNING, whatever the global stop.
Authorize(c) ==
    /\ "authorize" \in Commands
    /\ LoopFree
    /\ camp[c] = "absent"
    /\ camp' = [camp EXCEPT ![c] = "running"]
    /\ EmitThenEnsureRunning(c)
    /\ UNCHANGED <<autopaused, stopped, leadVars, limiter, tasks, open, histVars>>

\* pause: manual kill switch; already paused is a no-op, other states are refused.
Pause(c) ==
    /\ "pause" \in Commands
    /\ LoopFree
    /\ camp[c] = "running"
    /\ camp' = [camp EXCEPT ![c] = "paused"]
    /\ UNCHANGED <<autopaused, stopped, leadVars, loopVars, open, histVars, faults>>

\* resume: refused under a global stop; a RUNNING campaign is only re-driven.
Resume(c) ==
    /\ "resume" \in Commands
    /\ LoopFree
    /\ ~stopped
    /\ \/ /\ camp[c] = "running"
          /\ EnsureRunning(c)
          /\ UNCHANGED <<camp, autopaused, faults>>
       \/ /\ camp[c] = "paused"
          /\ camp' = [camp EXCEPT ![c] = "running"]
          /\ autopaused' = [autopaused EXCEPT ![c] = FALSE]
          /\ EmitThenEnsureRunning(c)
    /\ UNCHANGED <<stopped, leadVars, limiter, tasks, open, histVars>>

\* autopause: the hook of the auto-pause engine; refused only when COMPLETED.
Autopause(c) ==
    /\ "autopause" \in Commands
    /\ LoopFree
    /\ camp[c] \in {"running", "paused"}
    /\ camp' = [camp EXCEPT ![c] = "paused"]
    /\ autopaused' = [autopaused EXCEPT ![c] = TRUE]
    /\ UNCHANGED <<stopped, leadVars, loopVars, open, histVars, faults>>

\* emergency_stop: the flag, then every RUNNING campaign in turn; an emit that
\* raises leaves the campaigns after it RUNNING.
EmergencyStop ==
    LET Running == {c \in Campaigns : camp[c] = "running"} IN
    /\ "stop" \in Commands
    /\ LoopFree
    /\ stopped' = TRUE
    /\ \E halted \in SUBSET Running :
          /\ camp' = [c \in Campaigns |-> IF c \in halted THEN "paused" ELSE camp[c]]
          /\ \/ halted = Running /\ UNCHANGED faults
             \/ halted # {} /\ Fails("emit")
    /\ UNCHANGED <<autopaused, leadVars, loopVars, open, histVars>>

\* clear_emergency_stop: only the flag; paused campaigns stay paused.
ClearEmergencyStop ==
    /\ "clear" \in Commands
    /\ LoopFree
    /\ stopped
    /\ stopped' = FALSE
    /\ UNCHANGED <<camp, autopaused, leadVars, loopVars, open, histVars, faults>>

-----------------------------------------------------------------------------
\* The dispatch loop of drive d of campaign c.

\* _launch: one more _handle_lead task, and the call it places.
NewTask(l, a, d) == [lead |-> l, attempt |-> a, nth |-> dials[l][a] + 1, drive |-> d]

\* run() up to the loop: the leads a previous process left
\* mid-call are dialed again, before any gate and without a rate stamp.
Start(c, d) ==
    /\ LoopFree
    /\ pc[c][d] = "spawned"
    /\ GoTo(c, d, "loop")
    /\ tasks' = tasks \cup {NewTask(l, attempts[l], d) : l \in Interrupted(c)}
    /\ dials' = [l \in Leads |->
                    IF l \in Interrupted(c)
                    THEN [dials[l] EXCEPT ![attempts[l]] = @ + 1]
                    ELSE dials[l]]
    /\ recent' = [recent EXCEPT ![c] = @ + Cardinality(Interrupted(c))]
    /\ UNCHANGED <<dbVars, registry, limiter, open, optedOut, faults>>

\* The end of _drive: the registry lets a later resume spawn a fresh loop, and
\* the rate limiter is gone with the runner.
Exit(c, d) ==
    /\ GoTo(c, d, "none")
    /\ registry' = [registry EXCEPT ![c] = IF @ = d THEN None ELSE @]
    /\ limiter' = [limiter EXCEPT ![c][d] = 0]

MutantLeaveAtOnce(c, d) == Exit(c, d)

\* Out of the dispatch loop: wait for the calls in flight, then return.
Leave(c, d) ==
    \/ Own(c, d) = {} /\ Exit(c, d)
    \/ Own(c, d) # {} /\ GoTo(c, d, "drain") /\ UNCHANGED <<registry, limiter>>

MutantOnlyGlobalStop(c) == stopped
MutantOnlyOwnState(c)   == camp[c] # "running"

Halted(c) == camp[c] # "running" \/ stopped

\* 1. kill switch.
StopDispatch(c, d) ==
    /\ pc[c][d] = "loop"
    /\ Halted(c)
    /\ Leave(c, d)
    /\ UNCHANGED <<dbVars, tasks, open, histVars, faults>>

\* 2. completion: nothing in flight and every lead terminal.
Complete(c, d) ==
    /\ pc[c][d] = "loop"
    /\ ~Halted(c)
    /\ Own(c, d) = {}
    /\ ~HasUnfinished(c)
    /\ camp' = [camp EXCEPT ![c] = "completed"]
    /\ Leave(c, d)
    /\ UNCHANGED <<autopaused, stopped, leadVars, tasks, open, histVars, faults>>

\* Past the first two gates.
Working(c, d) ==
    /\ pc[c][d] = "loop"
    /\ ~Halted(c)
    /\ Own(c, d) # {} \/ HasUnfinished(c)

MutantAtCapLate(c, d) == Cardinality(Own(c, d)) > MaxConcurrent
AtCap(c, d) == Cardinality(Own(c, d)) >= MaxConcurrent

\* 3. calling hours: wait for a call, else sleep until the window opens.
AwaitWindow(c, d) ==
    /\ Working(c, d)
    /\ ~open
    /\ GoTo(c, d, IF Own(c, d) = {} THEN "sleepHours" ELSE "wait")
    /\ UNCHANGED <<dbVars, registry, limiter, tasks, open, histVars, faults>>

\* 4. concurrency: _wait_one, which returns at once when there is no task.
AwaitCall(c, d) ==
    /\ Working(c, d)
    /\ open
    /\ AtCap(c, d)
    /\ GoTo(c, d, IF Own(c, d) = {} THEN "loop" ELSE "wait")
    /\ UNCHANGED <<dbVars, registry, limiter, tasks, open, histVars, faults>>

\* 5. rate limit.
AwaitRate(c, d) ==
    /\ Working(c, d)
    /\ open
    /\ ~AtCap(c, d)
    /\ limiter[c][d] >= CallsPerMinute
    /\ GoTo(c, d, "sleepRate")
    /\ UNCHANGED <<dbVars, registry, limiter, tasks, open, histVars, faults>>

MutantMayDialAnytime(c, d) ==
    /\ Working(c, d)
    /\ ~AtCap(c, d)
    /\ limiter[c][d] < CallsPerMinute

MayDial(c, d) ==
    /\ Working(c, d)
    /\ open
    /\ ~AtCap(c, d)
    /\ limiter[c][d] < CallsPerMinute

\* 6. claim_next_lead and _launch; the loop goes round without an await.
Claim(c, d, l) ==
    /\ MayDial(c, d)
    /\ l \in Eligible(c)
    /\ leadState' = [leadState EXCEPT ![l] = "dialing"]
    /\ attempts' = [attempts EXCEPT ![l] = @ + 1]
    /\ waiting' = waiting \ {l}
    /\ tasks' = tasks \cup {NewTask(l, attempts[l] + 1, d)}
    /\ dials' = [dials EXCEPT ![l][attempts[l] + 1] = @ + 1]
    /\ limiter' = [limiter EXCEPT ![c][d] = @ + 1]
    /\ recent' = [recent EXCEPT ![c] = @ + 1]
    /\ UNCHANGED <<camp, autopaused, stopped, outcome, registry, pc, open, optedOut, faults>>

\* Nothing eligible: wait for a call, else sleep to the next retry, else give up.
AwaitWork(c, d) ==
    /\ MayDial(c, d)
    /\ Eligible(c) = {}
    /\ \/ Own(c, d) # {} /\ GoTo(c, d, "wait") /\ UNCHANGED <<registry, limiter>>
       \/ /\ Own(c, d) = {} /\ HasFutureRetry(c)
          /\ GoTo(c, d, "sleepRetry")
          /\ UNCHANGED <<registry, limiter>>
       \/ Own(c, d) = {} /\ ~HasFutureRetry(c) /\ Exit(c, d)
    /\ UNCHANGED <<dbVars, tasks, open, histVars, faults>>

\* The await of a waiting or sleeping loop is over.
WakeUp(c, d) ==
    /\ LoopFree
    /\ \/ pc[c][d] = "ready"
       \/ pc[c][d] = "sleepHours" /\ open
       \/ pc[c][d] = "sleepRate" /\ limiter[c][d] < CallsPerMinute
       \/ pc[c][d] = "sleepRetry" /\ Eligible(c) # {}
    /\ GoTo(c, d, "loop")
    /\ UNCHANGED <<dbVars, registry, limiter, tasks, open, histVars, faults>>

\* The gather after the loop is over: run() returns.
Drained(c, d) ==
    /\ LoopFree
    /\ pc[c][d] = "drain"
    /\ Own(c, d) = {}
    /\ Leave(c, d)
    /\ UNCHANGED <<dbVars, tasks, open, histVars, faults>>

-----------------------------------------------------------------------------
\* _handle_lead: the dial returned (or raised: "failed").

MutantEndTaskSilently(t) == tasks' = tasks \ {t} /\ UNCHANGED pc

\* Task t ends; a loop that waits for one of its tasks becomes ready.
EndTask(t) ==
    LET c == CampaignOf[t.lead] IN
    /\ tasks' = tasks \ {t}
    /\ pc' = IF t.drive # None /\ pc[c][t.drive] = "wait"
             THEN [pc EXCEPT ![c][t.drive] = "ready"]
             ELSE pc

MutantRetryAnything(t, o) == IF t.attempt < MaxAttempts THEN "retry" ELSE "done"

\* resolve_outcome: terminal, retried while attempts are left, or exhausted.
NextLeadState(t, o) ==
    IF o \in Retriable /\ t.attempt < MaxAttempts THEN "retry" ELSE "done"

\* The outcome is resolved on the task's copy of the lead, and the copy saved.
CallReturns(t, o) ==
    /\ LoopFree
    /\ leadState' = [leadState EXCEPT ![t.lead] = NextLeadState(t, o)]
    /\ attempts' = [attempts EXCEPT ![t.lead] = t.attempt]
    /\ outcome' = [outcome EXCEPT ![t.lead] = o]
    /\ waiting' = IF NextLeadState(t, o) = "retry"
                  THEN waiting \cup {t.lead} ELSE waiting \ {t.lead}
    /\ optedOut' = IF o = "opted_out" THEN optedOut \cup {t.lead} ELSE optedOut
    /\ EndTask(t)
    /\ UNCHANGED <<camp, autopaused, stopped, registry, limiter, open, recent, dials, faults>>

\* The dial returned but save_lead raises: the task dies with the outcome, the
\* row stays DIALING, and nobody looks at the exception.
SaveFails(t, o) ==
    /\ LoopFree
    /\ Fails("save")
    /\ optedOut' = IF o = "opted_out" THEN optedOut \cup {t.lead} ELSE optedOut
    /\ EndTask(t)
    /\ UNCHANGED <<dbVars, registry, limiter, open, recent, dials>>

-----------------------------------------------------------------------------
\* The environment.

\* A repository call of run_campaign raises: _drive logs it and leaves the
\* registry; the calls of that loop go on without it.
RunnerFault(c, d) ==
    /\ pc[c][d] = "loop" \/ (LoopFree /\ pc[c][d] = "spawned")
    /\ Fails("runner")
    /\ Exit(c, d)
    /\ tasks' = {IF t \in Own(c, d) THEN [t EXCEPT !.drive = None] ELSE t : t \in tasks}
    /\ UNCHANGED <<dbVars, open, histVars>>

\* The process dies (or shutdown() cancels it); the tables survive.  Nothing is
\* driven again before a resume.
Crash ==
    /\ Fails("crash")
    /\ registry' = [c \in Campaigns |-> None]
    /\ pc' = [c \in Campaigns |-> [d \in Drives |-> "none"]]
    /\ limiter' = [c \in Campaigns |-> [d \in Drives |-> 0]]
    /\ tasks' = {}
    /\ UNCHANGED <<dbVars, open, histVars>>

WindowOpens ==
    /\ LoopFree
    /\ ~open
    /\ open' = TRUE
    /\ UNCHANGED <<dbVars, loopVars, histVars, faults>>

\* The window closes hours later: a loop whose timer is due has long woken.
WindowCloses ==
    /\ LoopFree
    /\ open
    /\ \A c \in Campaigns, d \in Drives : pc[c][d] # "sleepHours"
    /\ open' = FALSE
    /\ UNCHANGED <<dbVars, loopVars, histVars, faults>>

\* next_action_at arrives; it was pushed into an open window.
BackoffElapses(l) ==
    /\ LoopFree
    /\ open
    /\ l \in waiting
    /\ waiting' = waiting \ {l}
    /\ UNCHANGED <<camp, autopaused, stopped, leadState, attempts, outcome,
                   loopVars, open, histVars, faults>>

MutantPruneForeign(c) ==
    /\ LoopFree
    /\ recent[c] > 0
    /\ recent' = [recent EXCEPT ![c] = @ - 1]
    /\ limiter' = [limiter EXCEPT ![c] = [d \in Drives |-> @[d] - 1]]
    /\ UNCHANGED <<dbVars, registry, pc, tasks, open, dials, optedOut, faults>>

\* The oldest dial of campaign c is 60 seconds old.
DialAges(c) ==
    /\ LoopFree
    /\ recent[c] > 0
    /\ recent' = [recent EXCEPT ![c] = @ - 1]
    /\ limiter' = [limiter EXCEPT ![c] =
                      [d \in Drives |-> IF @[d] = recent[c] THEN @[d] - 1 ELSE @[d]]]
    /\ UNCHANGED <<dbVars, registry, pc, tasks, open, dials, optedOut, faults>>

-----------------------------------------------------------------------------
Request ==
    \/ \E c \in Campaigns : Authorize(c) \/ Pause(c) \/ Resume(c) \/ Autopause(c)
    \/ EmergencyStop
    \/ ClearEmergencyStop

RunnerStep(c, d) ==
    \/ Start(c, d)
    \/ StopDispatch(c, d)
    \/ Complete(c, d)
    \/ AwaitWindow(c, d)
    \/ AwaitCall(c, d)
    \/ AwaitRate(c, d)
    \/ \E l \in Leads : Claim(c, d, l)
    \/ AwaitWork(c, d)
    \/ WakeUp(c, d)
    \/ Drained(c, d)

CallStep ==
    \E t \in tasks, o \in Outcomes : CallReturns(t, o) \/ SaveFails(t, o)

Environment ==
    \/ Crash
    \/ WindowOpens
    \/ WindowCloses
    \/ \E l \in Leads : BackoffElapses(l)
    \/ \E c \in Campaigns : DialAges(c)
    \/ \E c \in Campaigns, d \in Drives : RunnerFault(c, d)

Next ==
    \/ Request
    \/ \E c \in Campaigns, d \in Drives : RunnerStep(c, d)
    \/ CallStep
    \/ Environment

Spec == Init /\ [][Next]_vars

\* asyncio runs every task that is ready, every dial returns (the transports
\* have timeouts), and time passes; nobody has to send a request.
Fairness ==
    /\ \A c \in Campaigns, d \in Drives : WF_vars(RunnerStep(c, d))
    /\ \A l \in Leads :
          WF_vars(\E t \in tasks : t.lead = l /\ \E o \in Outcomes : CallReturns(t, o))
    /\ WF_vars(WindowOpens)
    /\ \A l \in Leads : SF_vars(BackoffElapses(l))
    /\ \A c \in Campaigns : WF_vars(DialAges(c))

FairSpec == Spec /\ Fairness

-----------------------------------------------------------------------------
(***************************************************************************)
(* Properties.                                                             *)
(***************************************************************************)

\* Every variable stays in its domain; in particular no lead is claimed more
\* often than the envelope's attempt cap (once, when the cap is zero).
TypeOK ==
    /\ camp \in [Campaigns -> CampaignStates]
    /\ autopaused \in [Campaigns -> BOOLEAN]
    /\ stopped \in BOOLEAN
    /\ leadState \in [Leads -> LeadStates]
    /\ attempts \in [Leads -> {0} \cup AttemptNumbers]
    /\ outcome \in [Leads -> {"none"} \cup Outcomes]
    /\ waiting \in SUBSET Leads
    /\ registry \in [Campaigns -> Drives \cup {None}]
    /\ pc \in [Campaigns -> [Drives -> Pcs]]
    /\ limiter \in [Campaigns -> [Drives -> Nat]]
    /\ tasks \in SUBSET Task
    /\ open \in BOOLEAN
    /\ recent \in [Campaigns -> Nat]
    /\ dials \in [Leads -> [AttemptNumbers -> Nat]]
    /\ optedOut \in SUBSET Leads
    /\ faults \in [FaultKinds -> Nat]

\* The failures after which the orchestrator promises less.
LoopsNeverFailed == faults["runner"] = 0
RowsNeverLost    == LoopsNeverFailed /\ faults["save"] = 0
NothingFailed    == RowsNeverLost /\ faults["crash"] = 0

\* Supervisor: authorize and resume never leave a campaign with two dispatch
\* loops, however they interleave with loops that drain, end or die.
OneLoopPerCampaign ==
    \A c \in Campaigns, d, e \in Drives :
        pc[c][d] # "none" /\ pc[c][e] # "none" => d = e

\* The auto-pause reason the dashboard shows survives until a human resumes, and
\* a campaign that runs or completed carries none.
AutopauseExplainsPause ==
    \A c \in Campaigns : autopaused[c] => camp[c] = "paused"

\* A lead is never on two calls at once, across retries, crashes, resumes and
\* failed saves, as long as no exception escapes a dispatch loop.
OneCallPerLead ==
    LoopsNeverFailed => \A t, u \in tasks : t.lead = u.lead => t = u

\* A call in flight belongs to the live loop of its campaign, which will wait
\* for it, and to the attempt its row records: what the call saves at its end is
\* never stale.
CallsAreOwned ==
    LoopsNeverFailed =>
        \A t \in tasks :
            /\ leadState[t.lead] = "dialing"
            /\ t.attempt = attempts[t.lead]
            /\ t.drive = registry[CampaignOf[t.lead]]
            /\ t.drive # None

\* A campaign is only marked COMPLETED when each of its leads is terminal, and
\* stays so: no call of a completed campaign is in flight.
CompletedIsSettled ==
    LoopsNeverFailed =>
        \A c \in Campaigns : camp[c] = "completed" =>
            /\ \A l \in LeadsOf(c) : leadState[l] = "done"
            /\ \A t \in tasks : CampaignOf[t.lead] # c

\* A lead that is DONE is never touched again: not redialed, not rescheduled,
\* and its recorded outcome is not overwritten.
DoneIsFinal ==
    [][LoopsNeverFailed =>
          \A l \in Leads : leadState[l] = "done" =>
              UNCHANGED <<leadState[l], attempts[l], outcome[l], dials[l]>>]_vars

\* The lead's row as the ledger of promises sees it.
StageOf(l) ==
    IF leadState[l] = "dialing" THEN "attempted"
    ELSE IF leadState[l] = "done" THEN "settled" ELSE "waiting"

Ledger == INSTANCE LeadLedger WITH
    People <- Leads, Lists <- Campaigns, ListOf <- CampaignOf, Answers <- Outcomes,
    MaxTries <- MaxAttempts,
    stage <- [l \in Leads |-> StageOf(l)],
    tries <- attempts,
    answer <- outcome,
    onPhone <- {t.lead : t \in tasks},
    closed <- {c \in Campaigns : camp[c] = "completed"},
    trusted <- LoopsNeverFailed

\* The orchestrator, with its retries, kill switch, crashes and lost writes, keeps
\* what the ledger promises each person, until a dispatch loop fails.
LedgerIsKept == Ledger!LedgerSpec

\* A lead that opted out in any call that returned is never dialed again, unless
\* the write of that outcome failed.
OptedOutNeverRedialed ==
    [][RowsNeverLost => \A l \in optedOut : UNCHANGED dials[l]]_vars

\* A campaign never has more calls in flight than max_concurrent_calls, the
\* ones dialed again after a crash included.
ConcurrencyCap ==
    RowsNeverLost =>
        \A c \in Campaigns :
            Cardinality({t \in tasks : CampaignOf[t.lead] = c}) <= MaxConcurrent

\* Each attempt that was claimed is dialed at most once, as long as the process
\* lives and rows are saved.
OneDialPerAttempt ==
    NothingFailed => \A l \in Leads : \A a \in AttemptNumbers : dials[l][a] <= 1

\* Calls are only placed inside the calling window.
DialsWithinCallingHours == [][NothingFailed /\ dials' # dials => open]_vars

\* The kill switch: no call is placed for a campaign that is not RUNNING, or
\* under a global stop.
KillSwitchHonored ==
    [][NothingFailed =>
          \A l \in Leads :
              camp[CampaignOf[l]] # "running" \/ stopped => UNCHANGED dials[l]]_vars

\* P2-D2 as documented: an attempt is dialed at most once, crashes included.
NoDoubleDial == \A l \in Leads : \A a \in AttemptNumbers : dials[l][a] <= 1

\* Pausing needs no cancellation: the calls in flight end, wherever the dispatch
\* loop waits or sleeps it notices, and it returns, unless a human resumes first.
PauseDrains ==
    \A c \in Campaigns :
        camp[c] = "paused" ~>
            \/ camp[c] # "paused"
            \/ ~Driven(c) /\ \A t \in tasks : CampaignOf[t.lead] # c

\* A campaign that runs completes, through closed windows, retries and the rate
\* limit, unless the kill switch is used.
RunningCompletes ==
    \A c \in Campaigns : camp[c] = "running" ~> camp[c] \in {"completed", "paused"} \/ stopped

\* The supervisor's promise: a campaign that a human authorized or resumed has a
\* dispatch loop, or gets one.
RunningIsDriven ==
    \A c \in Campaigns : camp[c] = "running" ~> camp[c] # "running" \/ Driven(c)
=============================================================================

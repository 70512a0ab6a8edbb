# Voice Agent Studio in TLA+

Specifications, model checks and proofs for the program under `src/`: the campaign
orchestrator that dials leads and the clock it sleeps by, the live agent and the text
engine that hold each call, the studio in which an agent is built and connected, and
the event backbone, dashboard and automations around a campaign. Every definition is
translated from the source; `PROJECT.json` maps each one to the lines it stands for.

## 1. The system

One Python process, one asyncio event loop, a database, and a browser
application. A user builds an agent by chatting (builder, config gate), connects
tools (calendar, email), and authorizes a campaign. The orchestrator then dials
the campaign's leads without further supervision, inside a guardrail envelope,
until the campaign completes or someone uses the kill switch. Each dial is a
telephone call through Twilio on which a Gemini Live model speaks; code around
the model enforces what must not be left to it (opt-out, moderation, disclosure).

### Components

| Component | State | Operations | Works with |
|---|---|---|---|
| Orchestrator service (`orchestrator/service.py`) | campaign rows, global stops | authorize, pause, resume, autopause, emergency stop, clear | repository, event log, supervisor |
| Supervisor (`integration/supervisor.py`) | the task that drives each campaign | `_ensure_running`, `_drive`, shutdown | service, runner |
| Runner (`orchestrator/runner.py`) | calls in flight, rate limiter | recovery, dispatch loop, `_handle_lead` | repository, dialer, clock |
| Repository (`orchestrator/*_repository.py`) | leads, campaigns, stops | claim, save, queries | SQLite or Postgres |
| Live dialer (`integration/live_dialer.py`) | none | dial | phone transport, session |
| Live session (`live_agent/session.py`) | one call's `_CallState`, two pumps | run, pumps, tools, opt-out, moderation, email | transport, Live connection, tools |
| Phone transport (`live_agent/phone_transport.py`) | pending tokens, inbound queue, closed flag | start, recv, send, end, media route | Twilio |
| Scheduler, limiter, envelope (`orchestrator/scheduling.py`, `envelope.py`) | dial stamps | clamp, next window, backoff, rate | runner |
| Event service (`events/`) | append-only log, subscriptions | emit, query, stream | everybody |
| Auto-pause (`autopause/`) | windows, cooldowns | handle | event log, kill switch |
| Workflows (`async_workflows/`) | ledger, timers, runs | dispatch, run, tick | event log, tools |
| Config gate (`config_gate/`) | versions of each agent | patch, revert | builder, panel, capability sync |
| Builder (`builder_loop/`) | chat session, a turn's stream | run a turn | model, config gate |
| Panel (`frontend/src/store/agentStore.ts`) | the configuration shown | load, edit, apply streamed patches | config gate, builder's stream |
| Connections (`tool_registry/`) | connections, credentials, pending OAuth states | begin, callback, disconnect | capability sync |
| Text call engine (`voice_runtime/`) | one call's turns, its leg | run_call | tools, transports, event log |
| Stream moderator (`live_agent/moderation.py`, `security/`) | the turn screened so far | check | live session |
| Browser preview (`live_agent/preview_transport.py`, `frontend/src/preview/`) | two tasks, a socket, the page's session | start, stop, the race | live session |
| Sign-in (`auth/`) | login states, sessions, cookies | login, callback, me, logout | connections (seeding) |
| Dashboard (`frontend/src/dashboard/`) | snapshots, history, live events | load, ingest, open, control | event stream, control API |

Everything else (prompt compilers, audio codecs, screening classifiers, HTTP
clients, wiring, views) computes or displays and keeps no state that interacts;
`PROJECT.json` lists each with the reason it is left out.

### What is hard

* **Interleaving at awaits.** A coroutine runs alone until it awaits something
  that is not ready. Requests, dispatch loops, calls, pumps, the media route and
  the Twilio client meet at those points only, and the code's correctness depends
  on what it has read before one and uses after it.
* **Crashes and restarts.** The tables survive, the tasks do not. A lead that was
  on a call is DIALING in the table.
* **Partial failure.** Any event, save, placing request or tool may raise between
  two changes that belong together.
* **Cancellation.** The first pump of a call to finish cancels the other at
  whatever await it has reached.
* **Time.** Calling windows, backoff, the rate limit, the answer timeout, cooldowns,
  debounces, and states and sessions that expire.
* **Threads.** Some handlers run in a thread pool: calls of the config gate interleave
  between their read and their save, sweeps of login states overlap, and a disconnect
  revokes and removes while the event loop connects.
* **Two views of one thing.** The panel and the dashboard mix snapshots with streamed
  changes, and either may arrive first.
* **Repetition.** Callbacks, streams and outcome events may be delivered again.

### What makes each part correct

* Orchestrator: one loop per campaign, one call per lead, one dial per attempt;
  nothing terminal is touched again, opt-outs least of all; no dial outside the
  hours, above the caps or past the kill switch; a campaign that runs completes,
  a paused one drains, and one that runs has a loop.
* Live session: an opt-out ends the call and is what the call reports; a booking
  is reported and confirmed once; no pump outlives the call, and no leg that Twilio
  was asked to end and did; either side hanging up ends it.
* Phone transport: a dial that is over has no token, and no call unless the request to
  hang up failed; a token admits
  one stream; a callee who leaves ends the dial.
* Clock: every dial is inside the locked hours and the campaign's own, within the rate,
  and not before its backoff; the loop does not sleep past a dial it could make.
* Studio: no version touches what the platform locks; an edit that names its version
  loses nobody's; a turn reports what it saved; the panel shows what the server
  accepted; a connection and its token belong to each other and to the right tenant.
* Around a campaign: a stream has no gap unless its queue overflowed; the dashboard
  invents no state; a text call reports what happened on it; a breach stops its
  campaign; an automation takes effect once; a preview leaves nothing running; harmful
  speech is cut; a sign-in is spent once.

## 2. Modules

| Module | What it is |
|---|---|
| `Orchestrator` | service, supervisor, runner and leads table, any number of campaigns of a tenant |
| `OrchestratorProofs` | its theorems |
| `LiveSession` | one call: dial, run and the two pumps |
| `LiveSessionProofs` | its theorems |
| `PhoneTransport` | the phone leg of one dial, with Twilio and the callee |
| `PhoneTransportProofs` | its theorems |
| `LeadLedger` | abstract specification: what each person on a campaign's list is promised |
| `LeadLedgerProofs` | the orchestrator implements it |
| `CampaignClock` | the envelope, the window, backoff and rate in seconds, in the loop that sleeps by them |
| `CampaignClockProofs` | its theorems |
| `ConfigGate` | the versions of an agent and the calls that race through the gate |
| `ConfigGateProofs` | its theorems |
| `Builder` | the builder's turn and the panel, over `ConfigGate` |
| `Connections` | OAuth flows, credentials and the capability sync, over `ConfigGate` |
| `Studio` | `Builder` and `Connections` composed on one gate |
| `StudioProofs` | its theorems |
| `EventFeed` | the log, its subscriptions and the streams |
| `Dashboard` | the dashboard's store over `EventFeed` |
| `CallEngine` | one call of the text engine, with its leg, tools and sink |
| `AutoPause` | rules, windows and cooldowns |
| `Workflows` | the automations after a call |
| `Preview` | the browser preview: page, socket and route |
| `Moderator` | the debounced moderator and the screening behind it |
| `Login` | sign-in |
| `Operations` | what runs around a campaign, put side by side |
| `OperationsProofs` | its theorems |
| `MCOrchestrator`, `MCLiveSession`, `MCPhoneTransport`, `MCStudio`, `MCOperations` | instances for TLC |

An operator called `Mutant...` is the definition after it with one plausible
mistake. No action uses it; it shows which mistake each property detects.

### Orchestrator

`camp`, `autopaused`, `stopped`, `leadState`, `attempts`, `outcome` and `waiting`
are the tables (`waiting`: `next_action_at` is in the future). `registry` is
`_runners`, `pc[c][d]` is where drive `d` of campaign `c` is, `limiter` the stamps
of its RateLimiter, and `tasks` the `_handle_lead` tasks, each with the copy of
the attempt number it carries. `recent`, `dials`, `optedOut` and `faults` are
history: they observe, no guard reads them except the bound on failures.

*Atomicity.* A request handler is one action: the repositories are synchronous
and no event sink the application wires suspends (the in-process bus uses
`put_nowait`, the Postgres bus does nothing in `publish`). The dispatch loop is a
sequence of small steps while `pc = "loop"`; every other coroutine's action
requires `LoopFree`, so nothing interleaves with them, as in asyncio. It lets go
at `"wait"` (`_wait_one`), the three sleeps and `"drain"`.

*Time.* `open` says whether now is inside the window, `BackoffElapses` that a due
time has come (only in an open window: `next_action_at` is pushed into one),
`DialAges` that the oldest dial is a minute old.

*Failures.* `Crash` at any point, also inside the loop; `Fails("emit")` in a
handler after its row is written; `SaveFails` after a call; `RunnerFault` for an
exception out of `run`. The event at the end of `_handle_lead` may raise too, and
does for outcomes that the event service's payload model does not know; the row
is saved by then and nobody awaits the task, so it changes nothing here.

*Conditional properties.* Several invariants hold only as long as a kind of
failure has not happened, since the code promises less after it: `LoopsNeverFailed`
(no exception escaped a loop), `RowsNeverLost` (nor did a save fail) and
`NothingFailed` (nor did the process die). What is lost after the failure is in
the hazards.

### LiveSession

`phase` is where `dial` and `run` are; `mic` and `live` are the two tasks. The
values of `live` are the awaits of `_pump_live`; code between two awaits is one
step, so cancellation and the caller come exactly where they can. What an event
of the model contains is chosen when the pump looks at it. `outcome` to `email`
are the fields of `_CallState`; `callerLeft`, `ackSpoken`, `meeting`, `emails` and
`raised` are history. `RaisesAt` says which collaborator may raise at which await,
and `Faults` which of them do in an instance.

`leg` distinguishes a caller who has left before the end (`"left"`). `LegAfterEnd` is
what `transport.end` makes of the leg: the request to hang up may fail in silence
(`phone_transport.py:82-93` passes over an exception and does not look at the status), or
never be sent because something before it raises, and a caller who is still on the line
then stays on it after the outcome is reported. `LegIsFreed` excepts exactly this, and a
first event that cannot be logged.

Abstracted: text, audio and tool arguments. Whether an opt-out phrase is detected
is a choice, so the splitting of a phrase over deltas is not visible here.

### PhoneTransport

`pending` is the token in `_PENDING`, `ready` the event, `inbox` the queue with
`"end"` for None, `closed` the flag; `session` is where the dial is, `reader` the
consumer of `recv_audio`, `stream` Twilio's websocket, `leg` the call at Twilio, and
`hangup` history: what became of the request to end it. `HangUp` is
`TwilioRestPlacer.hangup`; in an instance with the fault `"hangup"` it may fail, which
nothing in the code notices. `DialLeavesNoCall` therefore says that a finished dial has no
call *unless that request failed*; a placing request that raised is the other case the
code does not make good. The orchestrator counts calls by the tasks that drive them:
`ConcurrencyCap` does not count a leg that was left up in this way.

### How they fit

`Ledger` in Orchestrator is `INSTANCE LeadLedger` under a refinement mapping: a person
is attempted while the row is DIALING, settled when it is DONE, on the phone while a
task holds the lead, and a campaign is closed when it is COMPLETED. The promise is
forfeited (`trusted`) when an exception escapes a dispatch loop, since the loop's calls
then go on without an owner.

`CallReturns(t, o)` of Orchestrator is the result of one whole LiveSession, and
`result` there ranges over the outcomes Orchestrator may be given. An escaped
exception is `"failed"` in both. The end of `reader` in PhoneTransport is the
action `CallerHangsUp` of LiveSession; `StartRaises`, `NotAnswered` and `Answered`
there are `PlaceRaises`, `Timeout` and `Connected` here. These three correspondences
are by name and not checked.

`CampaignClock` and Orchestrator model the same loop at two scales. Orchestrator has
requests, failures and several loops, with time as three conditions that change when
they like, so it covers every clock. CampaignClock has one loop that nobody pauses and
real arithmetic. Its `Unfinished`, `Eligible` and cap are the same conditions.

### CampaignClock

`ticks` is the time in seconds, `hours` the envelope after `clamp_envelope`, `book` the
leads' rows (`at` is `next_action_at`, or the end of the call while it lasts), `dials`
the stamps of the limiter (never pruned; `RecentAt` is what `_prune` leaves) and `wake`
when the loop's sleep is over, or `OnCall` in `_wait_one`. Time jumps to the next thing
that is due, or a little beyond (`Delays`): a sleep may return late.

### The studio

`ConfigGate`: `versions` is the append-only history and `calls[c]` the call of
`apply_patch` or `revert` that caller `c` has in progress, with what it has read. A
configuration maps leaves of the schema to sets of atoms, so that missing, filled, list,
switch, mistyped and harmful values differ and nothing else does. Paths are sequences of
segments, because the lock is decided on prefixes in both directions. Calls interleave
between read and save; the save is one transaction, and may fail.

`Builder`: `turn` is the frame of `run_turn` (attempt, calls left, what was saved,
reported and rejected), `wire` what the page has yet to read of its stream, `panel`
the store of the page.

`Connections`: `flows` are the pending states, `links` and `creds` the two stores. Who
writes to them runs in two places. A callback and a login are code of the event loop
without an await between their writes, so the loop is at one of them at a time: `sync`
says at which write (token, then connection, of a callback; connection, then token, of a
login's placeholder) or at which step of the capability sync, which is one more caller of
the gate. A disconnect is a synchronous route and runs on a thread: `workers` says which
of its three steps each is at (find the connection, revoke its token, remove it). The
stores have no lock, so the steps of the threads fall between any two of the loop's.
When one removes a connection while the loop iterates over them (`for_provider`), the
iteration may raise (`Removes`); nothing in the login's callback catches it
(`auth/router.py:82-83`), and the login or the hook ends there. What the code leaves
behind in the end is in the property `ConnectionsMatchTokens`: no connection without a
token, no token of a flow without its connection, but possibly the token of a placeholder
whose connection was removed between the two writes of its seeding.

### Around a campaign

`EventFeed`: `log` and, for each connection, its cursor, queue and what it has sent.
`Dashboard`: `state` is where the orchestrator has each campaign, `dash` the store with
the requests under way. `CallEngine`: `tcall` is the frame of `run_call`, `tleg` the leg
(a script, or a call at the platform that dials back), `tlog` what the sink took, `slots`
the bookings. What the tools of a call may do is in it too: the guardrails of the
agent's policy that `CalendarHandler` applies before the provider, and the grid of slots
that `AvailabilityHandler` offers; times are minutes from a midnight. The comment at
`handlers.py:196` speaks of a full step of buffer after the next boundary, which the
code does not add: the first slot is the next boundary itself. `AutoPause`: `windows` and `last` in event time, `handled` the last event.
`Workflows` runs the shipped library (`defaults.py`): `runs` in progress, `ledger`, `timers`, and `effects` and `repeated` as
history. Neither auto-pause nor the workflows are wired into the application
(`integrated_app.py` and `phase2_app.py` construct neither): both are modelled as the
packages are written and tested, fed with the events they would consume.

`Preview`: `page`, `server`, and the socket as the queues `up` and `down`. A call that was
started is told `"ended"` exactly once to a page that still listens, before the socket is
closed; a refusal and an exception while the session is prepared only close it.

`Moderator`: the four fields of the moderator, its clock, and when the last delta came
(`heard`, history). A text is a sequence of words. A harmful phrase is a promise and a
discount with at most `MaxGap` words between them and none with a character that the
pattern does not allow there (`"stop"`), as `guardrail_domains.py:70-71` has 30 characters
of `[\w\s,'-]`. `HarmIsCut` says exactly what gets past the debounce: a phrase completed
after the last screening, by fewer words than `MinNew` and within `MinInterval` of it. The
comment at `moderation.py:28-29`, that a short utterance cannot slip through for being
under the threshold, is true of its first delta only.

 `Login`: `pending` states, the sweeps that run on threads, `sessions`, `cookies`.

## 3. Runs

| Run | Specification | Distinct states | What it asks |
|---|---|---|---|
| `OrchSafety` | `Spec` | 602,311 | Two leads, two drives, every request, one failure of any kind: the ledger of promises (refinement), one loop, owned calls, one dial per attempt, opt-outs, hours |
| `OrchTwo` | `Spec` | 191,200 | Two campaigns, emergency stops that fail half way, a crash and its recovery: the concurrency cap and the kill switch |
| `OrchLiveness` | `FairSpec` | 4,331 | Completion, and draining after a pause |
| `OrchResumeRace` | `FairSpec` | to the violation | Finding: a campaign RUNNING without a loop |
| `OrchCrashRedial` | `Spec` | to the violation | Finding: a crash during a call dials again |
| `LiveCall` | `FairSpec` | 38,294 | One call, every collaborator may raise and the hang-up request fail: opt-out, booking, hang-ups, the leg |
| `LiveOptOutLost` | `Spec` | to the violation | Finding: an opt-out reported as failed |
| `LiveAckCut` | `Spec` | to the violation | Finding: the acknowledgement cut off |
| `PhoneCall` | `FairSpec` | 293 | One dial with failures of Twilio and the network, the hang-up request included |
| `PhoneAudioHangs` | `FairSpec` | to the violation | Finding: the reader never ends |
| `Studio` | `Spec` | 1,064,708 | Two callers at a time edit one agent, storage fails, clients leave, flows, logins and disconnecting threads overlap: the gate, the turn, the panel, the connections |
| `Operations` | `Spec` | 1,944,712 | Nine parts around a campaign, each on its own: one property each |

### Operations: one part at a time

The nine parts of `Operations` meet the rest of the system only at an edge: events they
consume, calls that begin and end. In the instance each is followed against every
sequence of what comes over that edge, and by itself: `part` is chosen in `Init` and the
others stand still. Letting them interleave would multiply states that have nothing to
do with each other, since no part reads a variable of another, except the dashboard,
which reads the log and is composed with it. What two parts do to one thing (the kill
switch of auto-pause and the campaign, the moderator's verdict and the call) is in the
module that owns the thing: `Autopause` in Orchestrator, `Moderate` in LiveSession.

### Bounds

* Two leads are enough for what relates two calls (cap, completion with one left,
  the second claimed while the first is recovered); a third adds states and no new
  relation. Two campaigns where one request acts on several.
* Two drives per campaign, so that a second loop could be spawned beside a live one;
  one where nobody resumes (`OrchLiveness`). `OneLoop` is the proof that more show
  nothing new.
* Two attempts: one retry, one exhaustion. A cap of two concurrent calls where the
  hazard needs both leads on a call, one where the cap itself is in question.
* One failure in `OrchSafety` (`MaxFaults`); its kind and its moment are free.
  After it every request and step remains possible.
* `MaxInbox = 2` frames in the phone queue: frames carry nothing, so what matters
  is empty, not empty, and an end behind a frame.
* A LiveSession has finitely many states without any bound.
* `Studio`: two callers act in one behaviour (`Casts`), in every pair of builder, panel
  and client, and the sync by itself with its flows and logins; a third caller adds to
  a race of two only another that is like them. Four versions, one turn of at most two
  calls and one retry: a rejected call beside an accepted one, the cascade, a save of
  another caller in between. Two tenants, two flows, two disconnecting threads and two
  logins: the flows of one provider overlap, a callback comes from the other tenant's
  browser, two threads disconnect the same connection, and a seeding meets both. Patches and tool calls
  are those that the gate treats differently: plain, harmful, mistyped, locked, above a
  locked field, nowhere, list, cascading.
* `Operations`: four events on queues of two, so that a queue overflows while a backfill
  is under way and a client reconnects; two campaigns for the dashboard and auto-pause,
  so that answers and trips of one meet the other; two tool hops and two utterances,
  one more than needed to book, be refused and opt out, a call at half past six, so that
  what is asked for is past, free or after hours, with a calendar that is empty or busy
  across the night; two outcomes delivered twice with two attempts; a debounce of three words or two
  instants over turns of five words, with a phrase that spans at most one word between, so
  that a longer gap and a stop in the gap both occur; two browsers, two
  threads and two login states that expire after a day.
* The clock runs two days (`Horizon`), from midnight, from just before the window opens
  and from just before it closes, with calls of half a minute and of an hour, sleeps on
  time and late, and five envelopes: the locked one, wider, across its end, outside,
  across its start. `DialsKeepTheClock` proves the same without any of these bounds.

Symmetry is used in runs of safety properties only: over drives and leads, and in `Studio`
over the flows and the threads.

### Deadlock

A call and a dial end: `Terminated` is an explicit stuttering step of the finished
state, so every other stop is reported. Orchestrator never stops (its environment
always can move) except where the instance leaves nothing to do. `Studio` and `Operations`
stop when their bounds are spent, and their runs do not ask for deadlocks.

### Fairness, and why the code gives it

* Steps of loops, pumps, the route and the reader: asyncio runs every ready task.
* `CallReturns`: every dial returns. This is an assumption about the callee and
  the model: the transport bounds the wait for an answer, but nothing bounds the
  length of a call.
* `BackoffElapses` is strongly fair: windows close and open, and time passes while
  they are open. `DialAges`, `WindowOpens`: time passes.
* Users and failures have no fairness. In PhoneTransport neither the callee nor
  the live pump need ever end the call.
* In LiveSession a call to a collaborator returns or raises; the caller need not
  hang up and the model need not send anything.
* `Studio`, `Operations` and `CampaignClock` state no fairness: their properties are
  about what may have happened. That the loop does not sleep past a dial
  (`DialsAreTimely`) is a safety property about the time it sleeps to.

## 4. What is proved

TLAPS checks these for every number of campaigns, leads, drives, attempts, caps,
failures, windows, rates, times, schemas, policies, callers, streams, queues, libraries
and browsers, under the assumptions on the constants that the modules name
(`OrchestratorAssumption`, `LiveSessionAssumption`, `PhoneTransportAssumption`,
`ClockAssumption`, `GateAssumption`, `BuilderAssumption`, `ConnectionsAssumption`,
`FeedAssumption`, `DashboardAssumption`, `CallEngineAssumption`, `AutoPauseAssumption`,
`WorkflowsAssumption`, `LibraryAssumption`, `PreviewAssumption`, `ModeratorAssumption`,
`LoginAssumption`) only. TLC evaluates each on the instances. Every invariant and every
action property that a passing run checks is stated by one of the theorems.

### OrchestratorProofs

`TypeCorrect` (`TypeOK`), `OneLoop`, `OneCall`, `NoStaleCall`, `CompletionIsSound`,
`AutopauseReasonIsKept`, `DialedOnce`, `CallsAreCapped` (invariants) and
`DoneStaysDone`, `OptOutsAreFinal`, `KillSwitchStopsCalls`, `CallsKeepHours` (action
properties).

None of the invariants is inductive alone. `OneLoopPerCampaign` needs that a drive
that exists is the registered one (`LoopInv`): otherwise `_ensure_running` could
find an empty slot beside a live loop. `OneCallPerLead` needs that a call in
flight means a DIALING row, the row's attempt number and the registered loop as its
owner, and that this loop has passed its start (`CallInv`): a loop that is about to
recover then has no call beside it. `TypeCorrect` needs that a row which may be
claimed has an attempt left (`AttemptsLeft`). `SafeInv` joins the three. `DialedOnce`
and the two properties of placed calls rest on `SafeDialInv`: as long as nothing
failed, every DIALING row is on a call, so recovery dials nobody, and an attempt has
been dialed once if the row has used it and never beyond. `OptOutsAreFinal` needs that
the row of every lead that opted out is DONE (`SafeOptOutInv`), and then that a DONE
row is never touched. `CallsAreCapped` counts rows instead of calls, because a crash
forgets the calls (`SafeCapInv`): the DIALING rows of a campaign are within the cap,
and a loop that has started has a call for each of them. Calls map one to one into
those rows, so the cap that the loop checks on its own calls is the cap on rows, and
recovery dials within it. Each proof has one lemma or step per action.

### LiveSessionProofs

`Inv` is the conjunction of `TypeOK`, `PhaseInv` (which values the tasks may have in
which phase), `PumpsStop`, `LiveIsCutOff`, `RaisedInv` (a task that raised implies a
collaborator did), `OutcomeInv` (an opt-out or a booking is in the outcome from the
step that caused it), `EmailConfirmsBooking` and `LegIsFreed`. From it:
`TypeCorrect`, `OptOutIsReported`, `BookingsAreReported`, `OptOutSilencesLive`,
`CallIsWoundUp`. `AgentHangsUpVerified` is about steps, and needs that the check of the
opening turn is recorded before the pump waits for its event (`VerifyInv`): of all the
steps that may end the pump without an opt-out or the end of the stream, only `TurnOver`
is left, and it comes after that check.

### PhoneTransportProofs

`TypeCorrect`, `NoCallIsLeft`, `OneStreamPerToken`. The token, the stream and the
phase of a dial hold each other (`Inv`): a stream exists only after it took the token,
a token is pending only while its dial waits or after its placing request raised, and
a dial past that request knows the call it has to hang up. `NoCallIsLeft` follows the
request to hang up: a dial that is over has sent it, so the call is down or that request
failed. The length of the queue is
bounded by counting the ends that have been put on it (`QueueIsBounded`).

### LeadLedgerProofs

`OrchestratorKeepsLedger`: `Spec => LedgerIsKept`, that is, Orchestrator implements
`LeadLedger`. The initial tables map to the blank ledger (`InitIsBlank`) and every step
maps to an entry or to a stutter (`StepIsEntry`): a claim is an `Attempt`, the start of a
loop is a `CallAgain` of the interrupted leads, a call that returns is a `HangUp`, a
failed save and a crash are a `CutOff`, completion is a `Close`, and requests, waking
and time show nothing. The steps need `SafeInv` of OrchestratorProofs: without it the
recovery might call somebody who is on the phone, and a call that ends might write to a
row that is settled. `OneCall`, `CompletionIsSound` and `DoneStaysDone` are what the
ledger says, one by one, and stay as theorems on the orchestrator's own variables.

### CampaignClockProofs

`ClampIsStricter` and `NextOpenIsFirst` are about the arithmetic alone.
`DialsKeepTheClock` is an invariant of the loop: `CcInv` adds to the types that the
stamps are in order and none is in the future, that a person who waits is not due within
five minutes of any earlier dial to them (`Rested`), that the hours are inside the locked ones, and, for a loop that
sleeps with no call in flight, the reason it sleeps for (`Asleep`): the rate is used up
until it wakes, or the window is shut until then, or no lead is due before. One of the
three has to hold at every instant of the sleep, which is what excludes a missed dial.

### ConfigGateProofs

`GateHolds` and `CheckedEdits`. Whether a path is locked is decided by comparing two
paths in both directions; the lemmas on prefixes show that a path that is not locked has
no locked field below it (`NothingLockedBelow`), so a patch that is let through is
lawful (`PatchIsLawful`). `GateInv` says that the history is lawful and that whatever a
call has ready to be saved was made from a version still in the history.

### StudioProofs

`StudioInvariant` is one inductive invariant of everything that edits an agent:
`GateInv` of ConfigGateProofs and `RoomInv` (each call in progress has room for the
version it may append, so the bound on versions is never what stops a save), `TurnInv`
and `SyncInv` (types and limits), and four that say something:

* `ReportInv`: what a turn has saved is what it has reported, then what waits to be
  reported, then what the call in progress has made, in this order. When the turn comes
  to its reply the last two are empty, which is `TurnsReportEverything`.
* `LinksInv`: no two connections share a token, and each comes from a login of the owner
  or from a flow that is used up. A connection has its token unless the loop is between
  the two writes of its seeding or a thread that revoked it has still to remove it
  (`LinksAreLive`); the token of a flow has its connection unless the callback is between
  its two writes (`FlowTokens`). That a thread has found a connection and not yet revoked
  it matters: the flow of that connection is used up, so its token does not come back
  (`ConnectionsHaveTokens`). The token of a placeholder may come back, and the invariant
  does not claim otherwise.
* `ServedInv`: what the builder is about to report and what is on the stream to the page
  are values of some version, as is what a call of the builder or the panel was told was
  accepted. `PanelInv` (`PanelIsServed`) rests on it: the panel takes values from its
  loads, from its own edits and from that stream.

`StudioImplementsGate` is the refinement `Spec => GateSpec`: each step of builder, panel,
client or sync is a step of the gate or leaves it alone. It carries the theorems about
the gate over to the studio (`StudioVersionsPassedTheGate`, `StudioEditsLoseNothing`).
List operators are used folded (`Joined`, `With`, `ServedPatches` as the set a sequence
is over), so that each leaf deals with one fact about lists.

### OperationsProofs

A behaviour of `Operations` is one of each of its parts (`EngineIsAPart` and so on),
and the parts are proved one by one; `OperationsAreTyped` puts them together.

* `StreamsHaveNoGap` (`FeedInv`): what a stream has sent lies before what its query still
  has, that before its queue, and nothing that it owes is missing from the three unless
  the queue overflowed. Reconnects and events between subscribing and querying are
  covered, since the query ends where the queue begins.
* `DashboardsInventNothing` (`DashInv`): what a store shows, and what the requests under
  way are about to tell it, were true once (`Honest`), and what was true stays so
  (`HonestyLasts`).
* `TextCallsEndHonestly` (`EngineInv`): until the call is classified its outcome is that
  of what happened on it (`SoFar`), and what the provider is asked kept the policy.
  `OffersMayBeBooked` is the arithmetic of the grid: a slot that is offered passes the
  guardrails a booking is checked against.
* `AutomationsTakeEffectOnce`: a key whose effect is due is recorded, not yet in effect
  and due in one run only (`ActInv`); a run and a timer of an unanswered call stay within
  the workflows that keep the cadence (`RunInv`), by induction over steps, not over the
  library, whatever set `LibraryAssumption` says exists.
* `BreachesStopCampaigns` (`ApInv`): a pause that still suppresses another left its
  campaign stopped, since a resume forgets it.
* `PreviewsAreTornDown` (`PreviewInv`): the server's tasks run within the race only; the
  page is told of the end once, by the step that ends the handler and before the socket is
  closed (`SentLast`, `TellsAreFew`); and a microphone that was asked for after the end
  belongs to a user who hurried.
* `HarmIsAlwaysCut` (`ModerationInv`): what was screened of an unblocked turn is clean, and
  what was not is shorter than the debounce and came sooner than the interval
  (`Debounced`); and a turn that has words has been screened, since its first was
  (`WasScreened`).
* `SignInsAreSpentOnce` (`LoginInv`): a state is pending, or at one callback, or that of
  one session; two sweeps may both take it out, and neither puts it back.
* `OperationsDialInTime` is `DialsKeepTheClock` within the whole.

### Only model-checked

The liveness properties (`PauseDrains`, `RunningCompletes`, `OptOutEndsCall`,
`CallerHangupEndsCall`, `CalleeLeavingEndsDial`): fairness and ENABLED are outside the
prover's reach. The findings are counterexamples, which only TLC gives.

## 5. Where code and documentation disagree

1. `OrchResumeRace`: `supervisor.py:53` takes a draining loop for a driving one; a
   resume that meets it leaves the campaign RUNNING with nobody dialing.
2. `OrchCrashRedial`: `runner.py:85` promises that recovery does not dial twice
   because the runtime is idempotent in `last_call_id`; neither runtime reads it.
3. `LiveOptOutLost`: `session.py:213` overwrites an opt-out with FAILED, which the
   orchestrator retries.
4. `LiveAckCut`: `session.py:347` ends the call on the next audio frame, while the
   acknowledgement is being spoken.
5. `PhoneAudioHangs`: `phone_transport.py:221` sets the flag that `serve` takes for
   "already ended", and the reader is never told.

Where code and its documentation agree but the code does less than a reader may
expect, the property says so and the hazard in `PROJECT.json` has a note. The main ones:

* No event says that a campaign completed (`contracts/events/schema.py:42`), so a stream
  replayed over a fresh snapshot shows it as running; a slow snapshot overwrites newer
  events; the details of a campaign left on screen may be another's (`store.ts:247`).
* With the event service's validation, several events of the text engine and some lead
  outcomes are rejected, and the exception leaves the call or the task that emits them.
* The platform leg of the text engine may be dialed back before it is registered, and a
  timeout leaves the placed call up at the platform (`transports.py:254`).
* A follow-up fires by its timer although the lead has opted out in the meantime, and a
  due action that raises takes the later ones of its batch with it (`scheduler.py:59`).
* The request to hang up is sent once, and its failure is neither seen nor retried
  (`phone_transport.py:82`): the dial is over and the person is still on the line.
* A short turn spoken quickly is screened at its first delta only, which the comment at
  `moderation.py:28-29` denies. No run shows it alone: `HarmIsCut` states what gets past.
* A disconnect during a login's seeding leaves a token behind (`runtime.py:113-118`), and a
  login that iterates over connections while one is removed may fail.
* Hanging up while the browser asks for the microphone does not cancel the start
  (`liveVoiceSession.ts:119`).
* A campaign whose window lies outside the locked one gets the whole locked window
  (`envelope.py:37`).
* A loop that waits for a call does not look at the clock: a lead that becomes due
  meanwhile is dialed when the call ends (`runner.py:165`).

## 6. Not modelled

* Text, audio and samples: the compilers of prompts, the codec, the speaker, the SDK
  wrapper, the interviewer's questions, the views and derived figures of the frontend.
  They are pure, or their result is a choice of the model that uses it.
* The preview chat (`runtime_loop/`) and the older preview (`voice_preview/`): one
  request or one socket around an engine that is modelled elsewhere; no application
  mounts the latter.
* SQL, migrations, row locks, and several processes on one Postgres database: the
  application runs one process. `LISTEN` and `NOTIFY` and the order of commits would be
  the next thing to add to `EventFeed` if it ran more.
* The reader thread inside the Gemini SDK connection, scopes and encryption of
  credentials, argument schemas of tools, the query language of the audit route.

What remains worth doing: an abstract dial that LiveSession and CallEngine both
implement and that `CallReturns` assumes, and an abstract specification of the event
log that `EventFeed` implements.

## 7. Running

    tlasany Orchestrator.tla
    tlc -workers 2 -config OrchSafety.cfg MCOrchestrator
    tlc -workers 2 -config LiveCall.cfg MCLiveSession
    tlc -workers 2 -config PhoneCall.cfg MCPhoneTransport
    tlc -workers 2 -config Studio.cfg MCStudio
    tlc -workers 2 -config Operations.cfg MCOperations
    tlapm OrchestratorProofs.tla
    tlapm LiveSessionProofs.tla
    tlapm PhoneTransportProofs.tla
    tlapm LeadLedgerProofs.tla
    tlapm CampaignClockProofs.tla
    tlapm ConfigGateProofs.tla
    tlapm StudioProofs.tla
    tlapm OperationsProofs.tla

The last two take several minutes each.

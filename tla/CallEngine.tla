----------------------------- MODULE CallEngine -----------------------------
(***************************************************************************)
(* The text engine (backend/voice_runtime) that runs a campaign call when  *)
(* no telephony account is configured, over its two legs: the scripted one *)
(* and the managed platform, which places the call over REST and dials     *)
(* back a shared websocket server.  Tools are executed by the registry of  *)
(* the agent (backend/tool_registry).                                      *)
(*                                                                         *)
(* One call.  The sink is the event service, which refuses a payload that  *)
(* lacks a required field, or one that keeps what it is given (the tests'  *)
(* and the demo's); what is raised leaves run_call through its `finally'.  *)
(***************************************************************************)
EXTENDS Integers, FiniteSets, SequencesExt

CONSTANTS
    Legs,               \* \subseteq {"scripted", "platform"}
    Sinks,              \* \subseteq {"validating", "keeping"}
    EnabledBlocks,      \* \subseteq {"calendar", "email"}: automation of the agent
    MaxToolHops,        \* MAX_TOOL_HOPS
    MaxModelRetries,    \* max_retries of the model's wrapper
    Policy,             \* GuardrailPolicy: hours, booking window, length of a meeting
    CallMinute,         \* the minute of the call, from a midnight
    AskedMinutes,       \* when the model may ask for a slot, offered or not
    BusyTimes,          \* what may stand in the tenant's calendar: sets of intervals
    MaxUtterances       \* bound: what the lead says

Cadence == 30
MaxSlots == 5
MinutesOfDay == 1440

\* Hours of the day, days, minutes.
Policies == [from : 0 .. 23, to : 0 .. 23, days : Nat, length : Nat \ {0}]

ASSUME CallEngineAssumption ==
    /\ MaxToolHops \in Nat /\ MaxModelRetries \in Nat /\ MaxUtterances \in Nat
    /\ CallMinute \in Nat /\ AskedMinutes \subseteq Int
    /\ Policy \in Policies

VARIABLES
    tcall,      \* CallSession and the frame of run_call
    tleg,       \* the transport, the bridge's registration and the websocket
    tlog,       \* the types of the events the sink has taken: a set
    slots       \* bookings on the tenant's calendar, and whether the call knows of them

engineVars == <<tcall, tleg, tlog, slots>>

NoOutcome == "none"
CallOver == {"returned", "raised"}
NoAsk == [at |-> 0, email |-> "unasked"]

EngineInit ==
    /\ \E kind \in Legs, sink \in Sinks :
         /\ tcall = [pc |-> "new", kind |-> kind, sink |-> sink, forced |-> FALSE,
                     opening |-> TRUE, disclosed |-> FALSE, outcome |-> NoOutcome, hops |-> 0,
                     tries |-> 0, todo |-> <<>>, offered |-> {}, ask |-> NoAsk, turns |-> 0, said |-> 0, optedOut |-> FALSE, human |-> FALSE]
    /\ tleg = [at |-> "idle", pending |-> FALSE, ready |-> FALSE, queue |-> <<>>, told |-> 0,
               closed |-> FALSE]
    /\ tlog = {} /\ slots = {}

(***************************************************************************)
(* Events: those whose payload, as the engine builds it, the service       *)
(* accepts.                                                                *)
(***************************************************************************)
Valid(type, outcome) ==
    \/ type \in {"call.started", "disclosure.spoken", "call.escalated", "call.ended"}
    \/ type = "lead.outcome" /\ outcome \in {"no_answer", "qualified", "not_qualified", "voicemail"}

Taken(type, outcome) == tcall.sink = "keeping" \/ Valid(type, outcome)

Emits(types) == tlog' = tlog \cup types

\* finally: the leg ends and the call is forgotten; then the exception goes on.
Hangs(leg) == [leg EXCEPT !.closed = TRUE, !.pending = FALSE,
                          !.at = IF @ = "connected" THEN "over" ELSE @]

Raise == tcall' = [tcall EXCEPT !.pc = "raised"] /\ tleg' = Hangs(tleg)

(***************************************************************************)
(* The platform's leg: the answer of the REST call and the connection it   *)
(* announces are two messages.                                             *)
(***************************************************************************)
Started(call) ==
    /\ Emits({"call.started"})
    /\ tcall' = [call EXCEPT !.pc = IF call.forced THEN "closing" ELSE "turn"]

EngineStarts(forced) ==
    /\ tcall.pc = "new"
    /\ IF tcall.kind = "scripted"
       THEN /\ Started([tcall EXCEPT !.forced = forced,
                          !.outcome = IF forced THEN "no_answer" ELSE @])
            /\ tleg' = [tleg EXCEPT !.at = "connected", !.ready = TRUE]
       ELSE /\ ~forced
            /\ tcall' = [tcall EXCEPT !.pc = "dialing"]
            /\ tleg' = [tleg EXCEPT !.at = "placing"]
            /\ UNCHANGED tlog
    /\ UNCHANGED slots

CallPlaced ==
    /\ tcall.pc = "dialing" /\ tleg.at = "placing"
    /\ \/ tleg' = [tleg EXCEPT !.at = "placed", !.pending = TRUE] /\ UNCHANGED tcall
       \/ Raise
    /\ UNCHANGED <<tlog, slots>>

\* An unknown call id is refused; the call stays up on the platform.
PlatformDialsBack ==
    /\ tleg.at \in {"placing", "placed"} /\ tleg.pending
    /\ tleg' = [tleg EXCEPT !.at = "connected", !.pending = FALSE]
    /\ Started(tcall)
    /\ UNCHANGED slots

ConnectTimesOut ==
    /\ tcall.pc = "dialing" /\ tleg.at = "placed"
    /\ Raise
    /\ UNCHANGED <<tlog, slots>>

\* _on_message and feed; the stream of lead turns ends with the script or when
\* the platform hangs up.
LeadSpeaks(what) ==
    /\ tleg.at = "connected" /\ ~tleg.closed /\ tleg.told < MaxUtterances /\ ~tcall.forced
    /\ tleg' = [tleg EXCEPT !.queue = Append(@, what), !.told = @ + 1, !.ready = TRUE]
    /\ UNCHANGED <<tcall, tlog, slots>>

ResponseRequired ==
    /\ tleg.at = "connected" /\ ~tleg.ready
    /\ tleg' = [tleg EXCEPT !.ready = TRUE]
    /\ UNCHANGED <<tcall, tlog, slots>>

LeadHangsUp ==
    /\ tleg.at = "connected" /\ ~tleg.closed
    /\ tleg' = [tleg EXCEPT !.at = "over", !.queue = Append(@, "none")]
    /\ UNCHANGED <<tcall, tlog, slots>>

\* send_agent_utterance: a response needs a fresh response id and an open websocket.
CanSay == tcall.kind = "scripted" \/ (tleg.ready /\ tleg.at = "connected")
Said(leg) == [leg EXCEPT !.ready = tcall.kind = "scripted"]

(***************************************************************************)
(* A turn of the agent.                                                    *)
(***************************************************************************)
\* Noted as spoken before the event that records it.  What the tools answered in an
\* earlier turn is no part of the transcript.
TurnBegins ==
    /\ tcall.pc = "turn"
    /\ tcall' = [tcall EXCEPT !.pc = "model", !.hops = 0, !.disclosed = TRUE,
                           !.offered = {}]
    /\ tlog' = IF tcall.disclosed THEN tlog ELSE tlog \cup {"disclosure.spoken"}
    /\ UNCHANGED <<tleg, slots>>

Offered == EnabledBlocks \cap {"calendar"}
Registered == (EnabledBlocks \cap {"calendar", "email"}) \cup
              (IF "calendar" \in EnabledBlocks THEN {"check_availability"} ELSE {})

\* _with_retry: a transient error is tried again, after a pause; any other is raised.
ModelRetries ==
    /\ tcall.pc = "model" /\ tcall.tries < MaxModelRetries
    /\ tcall' = [tcall EXCEPT !.tries = @ + 1]
    /\ UNCHANGED <<tleg, tlog, slots>>

ModelFails ==
    /\ tcall.pc = "model"
    /\ Raise
    /\ UNCHANGED <<tlog, slots>>

ModelCallsTools(calls) ==
    /\ tcall.pc = "model" /\ tcall.hops < MaxToolHops /\ Offered # {}
    /\ tcall' = [tcall EXCEPT !.pc = "tool", !.todo = calls, !.tries = 0]
    /\ UNCHANGED <<tleg, tlog, slots>>

\* The disclosure, if any, and the text; a turn with neither says nothing.
ModelSpeaks ==
    /\ tcall.pc = "model"
    /\ \/ /\ CanSay
          /\ tcall' = [tcall EXCEPT !.pc = "listening", !.opening = FALSE, !.said = 1,
                                    !.tries = 0]
          /\ tleg' = Said(tleg)
       \/ /\ ~tcall.opening
          /\ tcall' = [tcall EXCEPT !.pc = "listening", !.tries = 0]
          /\ UNCHANGED tleg
       \/ ~CanSay /\ Raise
    /\ UNCHANGED <<tlog, slots>>

\* resolve_context knows the tools of this agent.
Resolves(name) == name \in Registered

\* The event comes first and the registry resolves the context outside the try.
ToolInvoked ==
    /\ tcall.pc = "tool"
    /\ IF ~Taken("tool.invoked", NoOutcome)
       THEN Raise /\ UNCHANGED tlog
       ELSE /\ Emits({"tool.invoked"})
            /\ IF Resolves(Head(tcall.todo))
               THEN tcall' = [tcall EXCEPT !.pc = "handler"] /\ UNCHANGED tleg
               ELSE Raise
    /\ UNCHANGED slots

(***************************************************************************)
(* The handlers.  The first event of a call of a tool lets only a sink     *)
(* that keeps what it is given get here, so that no later one raises.      *)
(***************************************************************************)
Handled(call) ==
    LET rest == Tail(tcall.todo) IN
    tcall' = [call EXCEPT !.todo = rest, !.ask = NoAsk,
                          !.pc = IF rest = <<>> THEN "model" ELSE "tool",
                          !.hops = IF rest = <<>> THEN @ + 1 ELSE @]

\* Whatever a handler raises is logged, and told to the model.
Rejected == Emits({"guardrail.tripped"}) /\ Handled(tcall)

\* Half-open, on the hour that the lead's clock shows.
LocalHour(at) == (at \div 60) % 24
OutOfHours(at) == LocalHour(at) < Policy.from \/ LocalHour(at) >= Policy.to
OutOfWindow(at) == at < CallMinute \/ at - CallMinute > Policy.days * MinutesOfDay

\* Malformed, or of a domain that is reserved for examples.
BadAddress(email) == email \in {"malformed", "placeholder"}

Breaches(ask) == OutOfHours(ask.at) \/ OutOfWindow(ask.at) \/ BadAddress(ask.email)

\* The guardrails come before the provider.
CalendarChecked(ask) ==
    /\ tcall.pc = "handler" /\ Head(tcall.todo) = "calendar"
    /\ IF Breaches(ask) THEN Rejected
       ELSE tcall' = [tcall EXCEPT !.pc = "provider", !.ask = ask] /\ UNCHANGED tlog
    /\ UNCHANGED <<tleg, slots>>

Booking(known) == [at |-> tcall.ask.at, email |-> tcall.ask.email, known |-> known]

\* CalendarHandler books and logs twice; the engine logs the slot once more.
CalendarBooks ==
    /\ tcall.pc = "provider"
    /\ slots' = slots \cup {Booking(TRUE)}
    /\ Emits({"tool.invoked", "slot.booked"})
    /\ Handled([tcall EXCEPT !.outcome = "booked"])
    /\ UNCHANGED tleg

\* Nothing forbids two bookings at one time: the calendar takes each.  The request
\* may time out, or its answer lack the id, when the booking was made.
BookingFails ==
    /\ tcall.pc = "provider"
    /\ slots' \in {slots, slots \cup {Booking(FALSE)}}
    /\ Rejected
    /\ UNCHANGED tleg

DayStart(d) == d * MinutesOfDay + Policy.from * 60
DayEnd(d) == d * MinutesOfDay + Policy.to * 60

FirstSlot(d) ==
    IF CallMinute > DayStart(d)
    THEN DayStart(d) + ((CallMinute - DayStart(d)) \div Cadence + 1) * Cadence
    ELSE DayStart(d)

Overlaps(at, busy) == busy[1] < at + Policy.length /\ busy[2] > at

Grid(d) == {FirstSlot(d) + k * Cadence : k \in 0 .. MinutesOfDay \div Cadence}

OpenSlots(d, busy) ==
    {at \in Grid(d) :
        /\ at + Policy.length <= DayEnd(d)
        /\ at - CallMinute <= Policy.days * MinutesOfDay
        /\ ~\E b \in busy : Overlaps(at, b)}

\* The first ones.
Offers(d, busy) ==
    LET open == OpenSlots(d, busy) IN
    {at \in open : Cardinality({u \in open : u < at}) < MaxSlots}

\* busy_periods: what stood there, and what this call has booked.
BusyPeriods(others) == others \cup {<<b.at, b.at + Policy.length>> : b \in slots}

AvailabilityRead(d, others) ==
    /\ tcall.pc = "handler" /\ Head(tcall.todo) = "check_availability"
    /\ Emits({"tool.invoked"})
    /\ Handled([tcall EXCEPT !.offered = Offers(d, BusyPeriods(others))])
    /\ UNCHANGED <<tleg, slots>>

\* An argument that cannot be read, no connection, a provider that fails; an email
\* never has a recipient, for the context this engine resolves names no address.
HandlerRejects ==
    /\ tcall.pc = "handler"
    /\ Rejected
    /\ UNCHANGED <<tleg, slots>>

(***************************************************************************)
(* _converse and the end of run_call.                                      *)
(***************************************************************************)
HearsTurn ==
    /\ tcall.pc = "listening" /\ tleg.queue # <<>>
    /\ LET what == Head(tleg.queue)
           leg == [tleg EXCEPT !.queue = Tail(@)]
           listened == [tcall EXCEPT !.turns = @ + 1] IN
       CASE what = "none" ->
              tcall' = [tcall EXCEPT !.pc = "closing"] /\ tleg' = leg /\ UNCHANGED tlog
         [] what = "talk" ->
              tcall' = [listened EXCEPT !.pc = "turn"] /\ tleg' = leg /\ UNCHANGED tlog
         [] what = "optOut" ->
              LET call == [listened EXCEPT !.outcome = "opted_out", !.optedOut = TRUE] IN
              /\ IF CanSay THEN tcall' = [call EXCEPT !.pc = "closing"] /\ tleg' = Said(leg)
                 ELSE tcall' = [call EXCEPT !.pc = "raised"] /\ tleg' = Hangs(leg)
              /\ UNCHANGED tlog
         [] what = "human" ->
              LET call == [listened EXCEPT !.human = TRUE] IN
              /\ Emits({"call.escalated"})
              /\ \/ /\ tcall.kind = "scripted" \/ tleg.at = "connected"
                    /\ tcall' = [call EXCEPT !.pc = "closing", !.outcome = "transferred"]
                    /\ tleg' = leg
                 \/ /\ tcall.kind = "platform"
                    /\ tcall' = [call EXCEPT !.pc = "raised"] /\ tleg' = Hangs(leg)
    /\ UNCHANGED slots

MutantClassified ==
    IF tcall.turns = 0 THEN "no_answer" ELSE "qualified"

Classified ==
    IF tcall.outcome # NoOutcome THEN tcall.outcome
    ELSE IF tcall.turns = 0 THEN "no_answer" ELSE "qualified"

\* The leg ends first; an outcome the service refuses is raised by the report.
EngineConcludes ==
    /\ tcall.pc = "closing"
    /\ tleg' = Hangs(tleg)
    /\ IF Taken("lead.outcome", Classified)
       THEN /\ Emits({"lead.outcome", "call.ended"})
            /\ tcall' = [tcall EXCEPT !.pc = "returned", !.outcome = Classified]
       ELSE /\ tcall' = [tcall EXCEPT !.pc = "raised", !.outcome = Classified]
            /\ UNCHANGED tlog
    /\ UNCHANGED slots

EngineNext ==
    \/ \E forced \in BOOLEAN : EngineStarts(forced)
    \/ CallPlaced \/ PlatformDialsBack \/ ConnectTimesOut \/ ResponseRequired \/ LeadHangsUp
    \/ \E what \in {"talk", "optOut", "human"} : LeadSpeaks(what)
    \/ TurnBegins \/ ModelRetries \/ ModelFails \/ ModelSpeaks \/ ToolInvoked
    \/ \E calls \in {<<"calendar">>, <<"email">>, <<"unknown">>, <<"check_availability", "calendar">>} :
          ModelCallsTools(calls)
    \/ \E at \in AskedMinutes, email \in {"none", "placeholder"} :
          CalendarChecked([at |-> at, email |-> email])
    \/ \E d \in 0 .. 1, others \in BusyTimes : AvailabilityRead(d, others)
    \/ CalendarBooks \/ BookingFails \/ HandlerRejects
    \/ HearsTurn \/ EngineConcludes

EngineSpec == EngineInit /\ [][EngineNext]_engineVars

(***************************************************************************)
(* Properties.                                                             *)
(***************************************************************************)
EngineTypeOK ==
    /\ tcall.hops \in 0 .. MaxToolHops /\ tcall.tries \in 0 .. MaxModelRetries
    /\ tcall.pc = "provider" => tcall.ask # NoAsk
    /\ Len(tleg.queue) <= MaxUtterances + 1

\* A call that returns reports what happened on it, the lead's refusal before
\* everything else and a booking it knows of whatever is said after it; it said
\* nothing before the disclosure was logged; however it ends, its leg has been told
\* to end and the bridge no longer waits for it; and nothing is offered, or stands
\* on the calendar because of it, that the agent's policy forbids.
TextCallEndsHonestly ==
    /\ tcall.said > 0 => "disclosure.spoken" \in tlog
    /\ tcall.pc \in CallOver => tleg.closed /\ ~tleg.pending
    /\ tcall.pc = "returned" =>
         /\ tcall.outcome = IF tcall.optedOut THEN "opted_out"
                            ELSE IF tcall.human THEN "transferred"
                            ELSE IF \E b \in slots : b.known THEN "booked"
                            ELSE IF tcall.turns = 0 THEN "no_answer" ELSE "qualified"
         /\ "call.ended" \in tlog
    /\ \A b \in slots : ~Breaches(b)
    /\ \A at \in tcall.offered : ~OutOfHours(at) /\ ~OutOfWindow(at)
=============================================================================

----------------------------- MODULE LiveSession -----------------------------
(***************************************************************************)
(* One phone call of the live agent: LiveDialer.dial around                *)
(* GeminiLiveAgentSession.run, from the claimed lead to the outcome that   *)
(* the dispatch loop of module Orchestrator records.                       *)
(*                                                                         *)
(* A call is a main coroutine and two tasks.  The mic pump forwards the    *)
(* caller's audio; the live pump handles the events of the Live model one  *)
(* at a time.  The first of the two to finish ends the call: the other one *)
(* is cancelled at whatever await it has reached.  The stages of the live  *)
(* pump are its awaits, so the mic pump, the caller and the cancellation   *)
(* may come between any two of them; what the code does between two awaits *)
(* is one step.                                                            *)
(*                                                                         *)
(* Any await may raise: Faults is the set of collaborators that do.  Text, *)
(* audio and tool arguments are left out; what an event contains is chosen *)
(* when the pump looks at it, because nobody else sees it before.          *)
(*                                                                         *)
(* The operators named Mutant... are the definition that follows them with *)
(* one mistake; no action uses them.                                       *)
(***************************************************************************)
EXTENDS Naturals

CONSTANTS
    Faults,       \* which collaborators may raise
    HasTemplate   \* the agent has a confirmation email to send after a booking

\* The audio transport; the Live connection; the text-to-speech of the fixed
\* lines; the output moderator; the event log; and the request to hang up, whose
\* failure the transport passes over in silence.
FaultKinds == {"transport", "live", "tts", "moderator", "emit", "hangup"}

ASSUME LiveSessionAssumption == Faults \subseteq FaultKinds /\ HasTemplate \in BOOLEAN

VARIABLES
    phase,       \* where dial and run are
    leg,         \* the call leg: none, up, down, or left by a hang-up that failed
    mic,         \* the task _pump_mic
    live,        \* the task _pump_live: the await it has reached
    outcome,     \* state.outcome, and after the call the outcome run returns
    leadSpoke,   \* state.lead_spoke
    blocked,     \* state.blocked
    ended,       \* state.ended: the caller said an opt-out phrase
    disclosure,  \* the check of the opening turn, and what its event says
    hangup,      \* state.hangup
    email,       \* state.attendee_email is known
    result,      \* the CallOutcome the dispatch loop sees; "none" before
    callerLeft,  \* history: the caller hung up
    ackSpoken,   \* history: the acknowledgement was played in full
    meeting,     \* history: a tool booked a meeting
    emails,      \* history: confirmation emails sent
    raised       \* history: the collaborators that raised

stateVars == <<outcome, leadSpoke, blocked, ended, disclosure, hangup, email>>
histVars  == <<callerLeft, ackSpoken, meeting, emails>>
vars == <<phase, leg, mic, live, outcome, leadSpoke, blocked, ended,
          disclosure, hangup, email, result, callerLeft, ackSpoken, meeting, emails, raised>>

Phases   == {"idle", "starting", "connecting", "driving", "closing", "post", "report", "over"}
Finished == {"done", "raised", "cancelled"}
Stages   == {"recv", "tool", "input", "output", "moderate", "steer", "audio", "turn",
             "verify", "ackCut", "ackSpeak"}
LiveOutcomes == {"booked", "qualified", "not_qualified", "opted_out", "no_answer",
                 "failed", "ended"}

\* LiveDialer._to_call_outcome: ENDED is no CallOutcome.
ToCallOutcome(o) == IF o = "ended" THEN "no_answer" ELSE o

Init ==
    /\ phase = "idle"
    /\ leg = "none"
    /\ mic = "off"
    /\ live = "off"
    /\ outcome = "none"
    /\ leadSpoke = FALSE
    /\ blocked = FALSE
    /\ ended = FALSE
    /\ disclosure = "unchecked"
    /\ hangup = FALSE
    /\ email = FALSE
    /\ result = "none"
    /\ callerLeft = FALSE
    /\ ackSpoken = FALSE
    /\ meeting = FALSE
    /\ emails = 0
    /\ raised = {}

\* Collaborator k raises in this step, or none does.
Raises(k)    == k \in Faults /\ raised' = raised \cup {k}
NothingRaises == UNCHANGED raised

-----------------------------------------------------------------------------
\* The main coroutine.

\* An exception leaves run and dial; _handle_lead records FAILED.
Escapes == phase' = "over" /\ result' = "failed"

\* dial: run starts the transport.
Dial ==
    /\ phase = "idle"
    /\ phase' = "starting"
    /\ UNCHANGED <<leg, mic, live, stateVars, result, histVars, raised>>

\* end sends no request, or one that fails.
EndMayFail == Faults \cap {"hangup", "transport"} # {}

\* What end makes of the leg: a call that the caller has left stays down; a request
\* that fails, or is never sent, leaves any other call as it is.
LegAfterEnd(mayFail) ==
    IF leg # "down" /\ mayFail THEN {"down", "left"} ELSE {"down"}

\* PhoneNotAnswered: dial hangs up the leg itself, whatever end raises; a normal
\* outcome.
NotAnswered ==
    /\ phase = "starting"
    /\ phase' = "over"
    /\ leg' \in LegAfterEnd(EndMayFail)
    /\ result' = "no_answer"
    /\ UNCHANGED <<mic, live, stateVars, histVars, raised>>

\* start raises anything else.
StartRaises ==
    /\ phase = "starting"
    /\ Raises("transport")
    /\ Escapes
    /\ UNCHANGED <<leg, mic, live, stateVars, histVars>>

\* The caller answers; CALL_STARTED is emitted before the try that hangs up.
Answered ==
    /\ phase = "starting"
    /\ leg' = "up"
    /\ \/ phase' = "connecting" /\ NothingRaises /\ UNCHANGED result
       \/ Raises("emit") /\ Escapes
    /\ UNCHANGED <<mic, live, stateVars, histVars>>

\* The Live connection and the kick-off of the opening turn; then both pumps.
Connect ==
    /\ phase = "connecting"
    /\ \/ /\ phase' = "driving"
          /\ mic' = "on"
          /\ live' = "recv"
          /\ NothingRaises
          /\ UNCHANGED outcome
       \/ /\ Raises("live")
          /\ phase' = "closing"
          /\ outcome' = "failed"
          /\ UNCHANGED <<mic, live>>
    /\ UNCHANGED <<leg, leadSpoke, blocked, ended, disclosure, hangup, email,
                   result, histVars>>

Cancel(task) == IF task \in Finished THEN task ELSE "cancelled"

MutantSettleOnBoth ==
    /\ phase = "driving"
    /\ mic \in Finished /\ live \in Finished
    /\ phase' = "closing"
    /\ outcome' = IF "raised" \in {mic, live} THEN "failed" ELSE outcome
    /\ UNCHANGED <<leg, mic, live, leadSpoke, blocked, ended, disclosure, hangup, email,
                   result, histVars, raised>>

\* _drive wakes when a pump is finished and cancels the other.  An exception of
\* either, or of the connection as it closes, replaces the outcome.
Settle ==
    /\ phase = "driving"
    /\ mic \in Finished \/ live \in Finished
    /\ mic' = Cancel(mic)
    /\ live' = Cancel(live)
    /\ phase' = "closing"
    /\ \/ NothingRaises /\ outcome' = IF "raised" \in {mic, live} THEN "failed" ELSE outcome
       \/ Raises("live") /\ outcome' = "failed"
    /\ UNCHANGED <<leg, leadSpoke, blocked, ended, disclosure, hangup, email,
                   result, histVars>>

MutantHangUp ==
    /\ phase = "closing"
    /\ leg' = IF outcome = "failed" THEN leg ELSE "down"
    /\ phase' = "post"
    /\ outcome' = IF outcome # "none" THEN outcome
                  ELSE IF leadSpoke THEN "qualified" ELSE "no_answer"
    /\ UNCHANGED <<mic, live, leadSpoke, blocked, ended, disclosure, hangup, email, result,
                   histVars, raised>>

\* The finally of run.  The error event before it may raise, and the leg is hung up
\* all the same; end itself may raise before it has sent the request.
HangUp ==
    /\ phase = "closing"
    /\ \/ /\ NothingRaises
          /\ leg' \in LegAfterEnd("hangup" \in Faults)
          /\ phase' = "post"
          /\ outcome' = IF outcome # "none" THEN outcome
                        ELSE IF leadSpoke THEN "qualified" ELSE "no_answer"
          /\ UNCHANGED result
       \/ /\ Raises("transport") /\ Escapes
          /\ leg' \in LegAfterEnd(TRUE)
          /\ UNCHANGED outcome
    /\ UNCHANGED <<mic, live, leadSpoke, blocked, ended, disclosure, hangup, email,
                   histVars>>

MaySend == outcome = "booked" /\ HasTemplate /\ email

MutantPostCall ==
    /\ phase = "post"
    /\ IF MaySend THEN emails' = emails + 1 ELSE UNCHANGED emails
    /\ phase' \in IF MaySend THEN {"post", "report"} ELSE {"report"}
    /\ UNCHANGED <<leg, mic, live, stateVars, result, callerLeft, ackSpoken, meeting, raised>>

\* _send_confirmation_email, whose failures become an event, which may raise.
PostCall ==
    /\ phase = "post"
    /\ IF MaySend
       THEN \/ /\ emails' \in {emails, emails + 1}
               /\ phase' = "report"
               /\ UNCHANGED <<result, raised>>
            \/ emails' \in {emails, emails + 1} /\ Raises("emit") /\ Escapes
       ELSE phase' = "report" /\ UNCHANGED <<emails, result, raised>>
    /\ UNCHANGED <<leg, mic, live, stateVars, callerLeft, ackSpoken, meeting>>

\* LEAD_OUTCOME and CALL_ENDED, then the outcome goes back to the dispatch loop.
Report ==
    /\ phase = "report"
    /\ \/ NothingRaises /\ phase' = "over" /\ result' = ToCallOutcome(outcome)
       \/ Raises("emit") /\ Escapes
    /\ UNCHANGED <<leg, mic, live, stateVars, histVars>>

-----------------------------------------------------------------------------
\* The mic pump.

\* The caller hangs up: the stream of frames ends.
CallerHangsUp ==
    /\ phase = "driving"
    /\ mic = "on"
    /\ callerLeft' = TRUE
    /\ leg' = "down"
    /\ mic' = "done"
    /\ UNCHANGED <<phase, live, stateVars, result, ackSpoken, meeting, emails, raised>>

\* The next frame of a caller who is still on the line, after a hard stop.
MicStops ==
    /\ phase = "driving"
    /\ mic = "on"
    /\ ended
    /\ mic' = "done"
    /\ UNCHANGED <<phase, leg, live, stateVars, result, histVars, raised>>

\* The Live connection refuses the audio.
MicRaises ==
    /\ phase = "driving"
    /\ mic = "on"
    /\ Raises("live")
    /\ mic' = "raised"
    /\ UNCHANGED <<phase, leg, live, stateVars, result, histVars>>

-----------------------------------------------------------------------------
\* The live pump.

At(stage) == phase = "driving" /\ live = stage
Go(stage) == live' = stage

\* What the awaits at a stage may raise.  The stream of Live events itself never
\* does: its errors end the stream.
RaisesAt(stage) ==
    CASE stage \in {"input", "output", "audio", "ackCut"} -> {"transport"}
      [] stage \in {"turn", "verify"}   -> {"transport", "emit"}
      [] stage \in {"tool", "steer"}    -> {"transport", "emit", "live"}
      [] stage = "moderate"             -> {"transport", "moderator"}
      [] stage = "ackSpeak"             -> {"transport", "tts"}
      [] OTHER                          -> {}

LiveRaises ==
    /\ \E stage \in Stages :
          /\ At(stage)
          /\ \E k \in RaisesAt(stage) : Raises(k)
    /\ Go("raised")
    /\ UNCHANGED <<phase, leg, mic, stateVars, result, histVars>>

\* The next event: function calls, or content; or the stream is over.
Receive ==
    /\ At("recv")
    /\ \E next \in {"tool", "input", "done"} : Go(next)
    /\ UNCHANGED <<phase, leg, mic, stateVars, result, histVars, raised>>

\* The calendar tool booked a meeting; the pump records it at once.
Books ==
    /\ At("tool")
    /\ meeting' = TRUE
    /\ outcome' = "booked"
    /\ email' \in {email, TRUE}
    /\ \/ NothingRaises /\ UNCHANGED live
       \/ Raises("emit") /\ Go("raised")
    /\ UNCHANGED <<phase, leg, mic, leadSpoke, blocked, ended, disclosure, hangup,
                   result, callerLeft, ackSpoken, emails>>

\* The tool booked, and its own event raised: the pump takes it for a tool error.
BooksUnrecorded ==
    /\ At("tool")
    /\ meeting' = TRUE
    /\ Raises("emit")
    /\ UNCHANGED <<phase, leg, mic, live, stateVars, result, callerLeft, ackSpoken, emails>>

MutantAgentVerdict(judged) == judged

\* _handle_end_call never downgrades a booking; without a verdict an earlier one stays.
AgentVerdict(judged) ==
    IF outcome = "booked" THEN "booked"
    ELSE IF judged # "ended" THEN judged
    ELSE IF outcome # "none" THEN outcome
    ELSE "ended"

\* The agent calls end_call with a verdict, or with none it knows.
EndCall ==
    /\ At("tool")
    /\ \E judged \in {"qualified", "not_qualified", "ended"} : outcome' = AgentVerdict(judged)
    /\ hangup' = TRUE
    /\ UNCHANGED <<phase, leg, mic, live, leadSpoke, blocked, ended, disclosure,
                   email, result, histVars, raised>>

\* All calls of the event are answered; those that neither book nor end the call
\* change nothing here, failed ones included.
Respond ==
    /\ At("tool")
    /\ Go("recv")
    /\ UNCHANGED <<phase, leg, mic, stateVars, result, histVars, raised>>

\* Caller speech, if the event has any, without an opt-out phrase.
Hears ==
    /\ At("input")
    /\ leadSpoke' \in {leadSpoke, TRUE}
    /\ Go("output")
    /\ UNCHANGED <<phase, leg, mic, outcome, blocked, ended, disclosure, hangup,
                   email, result, histVars, raised>>

MutantHearsOptOut ==
    /\ At("input")
    /\ leadSpoke' = TRUE
    /\ ended' = TRUE
    /\ blocked' = TRUE
    /\ Go("ackCut")
    /\ UNCHANGED <<phase, leg, mic, outcome, disclosure, hangup, email, result,
                   callerLeft, ackSpoken, meeting, emails, raised>>

\* detect_opt_out: the outcome is settled before the first await of the handler.
HearsOptOut ==
    /\ At("input")
    /\ leadSpoke' = TRUE
    /\ outcome' = "opted_out"
    /\ ended' = TRUE
    /\ blocked' = TRUE
    /\ Go("ackCut")
    /\ UNCHANGED <<phase, leg, mic, disclosure, hangup, email, result,
                   callerLeft, ackSpoken, meeting, emails, raised>>

AckCut ==
    /\ At("ackCut")
    /\ Go("ackSpeak")
    /\ UNCHANGED <<phase, leg, mic, stateVars, result, histVars, raised>>

MutantAckSpeak ==
    /\ At("ackSpeak")
    /\ ackSpoken' = TRUE
    /\ Go("output")
    /\ UNCHANGED <<phase, leg, mic, stateVars, result, callerLeft, meeting, emails, raised>>

\* The acknowledgement has been played to its end; the pump returns.
AckSpeak ==
    /\ At("ackSpeak")
    /\ ackSpoken' = TRUE
    /\ Go("done")
    /\ UNCHANGED <<phase, leg, mic, stateVars, result, callerLeft, meeting, emails, raised>>

\* Agent speech, if the event has any, goes to the moderator first.
Speaks ==
    /\ At("output")
    /\ Go("moderate") \/ Go("audio")
    /\ UNCHANGED <<phase, leg, mic, stateVars, result, histVars, raised>>

\* _check_moderation: ALLOW, FLAG, or BLOCK, which only the first time in a turn
\* cuts and steers.
Moderate ==
    /\ At("moderate")
    /\ \/ Go("audio") /\ UNCHANGED blocked
       \/ ~blocked /\ blocked' = TRUE /\ Go("steer")
    /\ UNCHANGED <<phase, leg, mic, outcome, leadSpoke, ended, disclosure, hangup,
                   email, result, histVars, raised>>

Steer ==
    /\ At("steer")
    /\ Go("audio")
    /\ UNCHANGED <<phase, leg, mic, stateVars, result, histVars, raised>>

\* The audio of the event is shipped unless the turn is blocked.
Audio ==
    /\ At("audio")
    /\ Go("turn")
    /\ UNCHANGED <<phase, leg, mic, stateVars, result, histVars, raised>>

\* The event does not complete the agent's turn.
TurnGoesOn ==
    /\ At("turn")
    /\ Go("recv")
    /\ UNCHANGED <<phase, leg, mic, stateVars, result, histVars, raised>>

\* turn_complete of the opening turn: a missing disclosure is in the event log
\* before the next await, a spoken one only after it.
Verify ==
    /\ At("turn")
    /\ disclosure = "unchecked"
    /\ disclosure' \in {"checking", "missing"}
    /\ Go("verify")
    /\ UNCHANGED <<phase, leg, mic, outcome, leadSpoke, blocked, ended, hangup, email,
                   result, histVars, raised>>

MutantTurnIsOver == At("turn") \/ At("verify")
TurnIsOver == At("verify") \/ (At("turn") /\ disclosure # "unchecked")

\* The rest of a turn_complete; after end_call it was the closing turn.
TurnOver ==
    /\ TurnIsOver
    /\ disclosure' = IF disclosure = "checking" THEN "spoken" ELSE disclosure
    /\ blocked' = FALSE
    /\ Go(IF hangup THEN "done" ELSE "recv")
    /\ UNCHANGED <<phase, leg, mic, outcome, leadSpoke, ended, hangup, email,
                   result, histVars, raised>>

-----------------------------------------------------------------------------
MainStep == Dial \/ NotAnswered \/ StartRaises \/ Answered \/ Connect \/ Settle
            \/ HangUp \/ PostCall \/ Report

MicStep == CallerHangsUp \/ MicStops \/ MicRaises

\* What the live pump does with an event; Live chooses when one arrives.
Content == Hears \/ HearsOptOut \/ AckCut \/ AckSpeak \/ Speaks \/ Moderate \/ Steer
           \/ Audio \/ TurnGoesOn \/ Verify \/ TurnOver
ToolStep == Books \/ BooksUnrecorded \/ EndCall \/ Respond
LiveStep == Receive \/ Content \/ ToolStep \/ LiveRaises

\* The call is over; nothing more happens.
Terminated == phase = "over" /\ UNCHANGED vars

Next == MainStep \/ MicStep \/ LiveStep \/ Terminated

Spec == Init /\ [][Next]_vars

\* asyncio runs what is ready, and each call to a collaborator returns or raises.
\* Nothing bounds a call: Live need not send, and the caller need not hang up.
Fairness ==
    /\ WF_vars(MainStep)
    /\ WF_vars(Content)
    /\ WF_vars(Respond)

FairSpec == Spec /\ Fairness

-----------------------------------------------------------------------------
(***************************************************************************)
(* Properties.                                                             *)
(***************************************************************************)

\* Every variable stays in its domain; at most one confirmation email is sent.
TypeOK ==
    /\ phase \in Phases
    /\ leg \in {"none", "up", "down", "left"}
    /\ mic \in {"off", "on"} \cup Finished
    /\ live \in {"off"} \cup Stages \cup Finished
    /\ outcome \in {"none"} \cup LiveOutcomes
    /\ leadSpoke \in BOOLEAN
    /\ blocked \in BOOLEAN
    /\ ended \in BOOLEAN
    /\ disclosure \in {"unchecked", "checking", "spoken", "missing"}
    /\ hangup \in BOOLEAN
    /\ email \in BOOLEAN
    /\ result \in {"none"} \cup (LiveOutcomes \ {"ended"})
    /\ callerLeft \in BOOLEAN
    /\ ackSpoken \in BOOLEAN
    /\ meeting \in BOOLEAN
    /\ emails \in 0 .. 1
    /\ raised \in SUBSET Faults

\* A caller who opted out is reported opted_out, wherever the pumps were when the
\* call was cut short, booked or not, unless some collaborator raised.
OptOutWins == phase = "over" /\ ended /\ raised = {} => result = "opted_out"

\* A meeting that was booked is reported, whatever verdict the agent gives later
\* and whoever ends the call, unless the caller then opted out.
BookingIsReported ==
    phase = "over" /\ meeting /\ raised = {} => result \in {"booked", "opted_out"}

\* The confirmation email goes out after the call, and only for a booking whose
\* lead gave an address: not when a booked caller then opted out, or it failed.
EmailConfirmsBooking ==
    emails > 0 => meeting /\ email /\ leg # "up" /\ outcome = "booked" /\ ~ended

\* Once the caller opted out the Live model is cut off: its events are not even
\* looked at, so no tool runs, nothing is steered and no audio of its is shipped.
LiveIsCutOff == ended => live \in {"ackCut", "ackSpeak"} \cup Finished

\* No pump outlives the call: none works on a leg that is being hung up.
PumpsStop ==
    phase \in {"closing", "post", "report", "over"} => {mic, live} \subseteq {"off"} \cup Finished

\* When the dispatch loop gets an outcome the leg is down.  Two things leave it up:
\* an event log that rejects the first event of a call, before anything could hang
\* up; and a hang-up request that failed, on a caller who had not left by then.
LegIsFreed ==
    phase = "over" =>
        /\ leg = "up" => mic = "off" /\ "emit" \in raised
        /\ leg = "left" => ~callerLeft /\ EndMayFail

\* The agent cannot hang up on a turn before the opening turn was checked for the
\* disclosure and the result was logged.
AgentHangupIsVerified ==
    [][live # "done" /\ live' = "done" /\ ~ended /\ live # "recv" =>
          hangup /\ disclosure' \in {"spoken", "missing"}]_vars

\* An opt-out ends the call.
OptOutEndsCall == ended ~> phase = "over"

\* When the caller hangs up the call is wound up and reported, whatever the live
\* pump is doing.
CallerHangupEndsCall == callerLeft ~> phase = "over" /\ leg = "down"

\* As documented: OPTED_OUT ends the lead for good, so a call in which the caller
\* opted out reports nothing else.
OptOutIsFinal == phase = "over" /\ ended => result = "opted_out"

\* As documented: an opt-out ends the call with the spoken acknowledgement, if
\* the caller stays to hear it.
OptOutIsAcknowledged == phase = "over" /\ ended /\ ~callerLeft => ackSpoken
=============================================================================

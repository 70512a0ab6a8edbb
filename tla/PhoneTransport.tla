--------------------------- MODULE PhoneTransport ---------------------------
(***************************************************************************)
(* The phone leg of one dial: PhoneAudioTransport, the media route that    *)
(* Twilio dials back, and what LiveDialer and the session do with them.    *)
(*                                                                         *)
(* Four parties interleave: the session's start / recv_audio / send / end, *)
(* the route that serves Twilio's websocket, Twilio, and the callee.  They *)
(* meet in the one-time token (_PENDING), the ready event, the queue of    *)
(* inbound frames and the closed flag.  A dial has its own token, so one   *)
(* dial is enough.                                                         *)
(*                                                                         *)
(* Bounds: MaxInbox limits the frames that wait in the queue.              *)
(***************************************************************************)
EXTENDS Naturals, Sequences

CONSTANTS
    Faults,     \* what may fail: the requests to place and to hang up, a send, the goodbye frame
    MaxInbox    \* bound on the queue of inbound frames

FaultKinds == {"place", "send", "stop", "hangup"}

ASSUME PhoneTransportAssumption == Faults \subseteq FaultKinds /\ MaxInbox \in Nat \ {0}

VARIABLES
    session,   \* where dial is: start, the call, end
    outcome,   \* what start told dial: answered, no_answer or failed
    pending,   \* the token is in _PENDING
    callSid,   \* _call_sid is known
    ready,     \* _ready is set: Twilio's start frame arrived
    closed,    \* _closed
    inbox,     \* _incoming: frames, and "end" for None
    reader,    \* recv_audio, as the mic pump drives it
    stream,    \* Twilio's websocket on the media route
    leg,       \* the telephone call at Twilio
    stopped,   \* Twilio said stop on this stream
    hangup     \* history: what became of the request to hang up

vars == <<session, outcome, pending, callSid, ready, closed, inbox, reader, stream, leg,
          stopped, hangup>>

Sessions == {"idle", "placing", "waiting", "live", "ending", "ended"}
Outcomes == {"none", "answered", "no_answer", "failed"}

Init ==
    /\ session = "idle"
    /\ outcome = "none"
    /\ pending = FALSE
    /\ callSid = FALSE
    /\ ready = FALSE
    /\ closed = FALSE
    /\ inbox = <<>>
    /\ reader = "off"
    /\ stream = "none"
    /\ leg = "none"
    /\ stopped = FALSE
    /\ hangup = "none"

-----------------------------------------------------------------------------
\* start, as dial awaits it.

Register ==
    /\ session = "idle"
    /\ session' = "placing"
    /\ pending' = TRUE
    /\ UNCHANGED <<outcome, callSid, ready, closed, inbox, reader, stream, leg, stopped,
                   hangup>>

\* The placing request returns the call sid.
Placed ==
    /\ session = "placing"
    /\ leg # "none"
    /\ session' = "waiting"
    /\ callSid' = TRUE
    /\ UNCHANGED <<outcome, pending, ready, closed, inbox, reader, stream, leg, stopped,
                   hangup>>

\* The placing request raises, before or after Twilio took it: only a timeout of
\* the wait cleans up, so the exception leaves the token behind, and dial fails.
PlaceRaises ==
    /\ session = "placing"
    /\ "place" \in Faults
    /\ session' = "ended"
    /\ outcome' = "failed"
    /\ UNCHANGED <<pending, callSid, ready, closed, inbox, reader, stream, leg, stopped,
                   hangup>>

\* The wait ends with the start frame; the pumps start.
Connected ==
    /\ session = "waiting"
    /\ ready
    /\ session' = "live"
    /\ outcome' = "answered"
    /\ reader' = "reading"
    /\ UNCHANGED <<pending, callSid, ready, closed, inbox, stream, leg, stopped, hangup>>

MutantTimeout ==
    /\ session = "waiting"
    /\ ~ready
    /\ session' = "ended"
    /\ outcome' = "no_answer"
    /\ pending' = FALSE
    /\ UNCHANGED <<callSid, ready, closed, inbox, reader, stream, leg, stopped, hangup>>

\* connect_timeout: PhoneNotAnswered, and dial ends the leg.
Timeout ==
    /\ session = "waiting"
    /\ ~ready
    /\ session' = "ending"
    /\ outcome' = "no_answer"
    /\ pending' = FALSE
    /\ UNCHANGED <<callSid, ready, closed, inbox, reader, stream, leg, stopped, hangup>>

-----------------------------------------------------------------------------
\* The call.

\* recv_audio takes the next frame; None is the end of the audio.
Read ==
    /\ reader = "reading"
    /\ inbox # <<>>
    /\ inbox' = Tail(inbox)
    /\ reader' = IF Head(inbox) = "end" THEN "finished" ELSE reader
    /\ UNCHANGED <<session, outcome, pending, callSid, ready, closed, stream, leg, stopped,
                   hangup>>

\* send_audio or cut_playback on a websocket whose peer is gone: _safe_send only
\* notes it.
SendFails ==
    /\ session = "live"
    /\ "send" \in Faults
    /\ leg = "down"
    /\ closed' = TRUE
    /\ UNCHANGED <<session, outcome, pending, callSid, ready, inbox, reader, stream, leg,
                   stopped, hangup>>

\* The session is over: the audio ended, or the live pump did.
SessionEnds ==
    /\ session = "live"
    /\ session' = "ending"
    /\ reader' = "finished"
    /\ UNCHANGED <<outcome, pending, callSid, ready, closed, inbox, stream, leg, stopped,
                   hangup>>

\* TwilioRestPlacer.hangup: the request ends the call; one that raises or is refused
\* is passed over in silence, and the call goes on.
HangUp ==
    \/ hangup' = "done" /\ leg' = "down"
    \/ "hangup" \in Faults /\ hangup' = "failed" /\ UNCHANGED leg

MutantEnd ==
    /\ session = "ending"
    /\ session' \in {"ending", "ended"}
    /\ closed' = TRUE
    /\ inbox' = Append(inbox, "end")
    /\ pending' = FALSE
    /\ IF callSid THEN HangUp ELSE UNCHANGED <<leg, hangup>>
    /\ UNCHANGED <<outcome, callSid, ready, reader, stream, stopped>>

\* end: the token is dropped, and Twilio asked to hang up.
End ==
    /\ session = "ending"
    /\ session' = "ended"
    /\ closed' = TRUE
    /\ inbox' = Append(inbox, "end")
    /\ pending' = FALSE
    /\ IF callSid THEN HangUp ELSE UNCHANGED <<leg, hangup>>
    /\ UNCHANGED <<outcome, callSid, ready, reader, stream, stopped>>

-----------------------------------------------------------------------------
\* The media route.

MutantDialBack ==
    /\ leg = "up"
    /\ stream = "none"
    /\ stream' = "open"
    /\ pending' = FALSE
    /\ UNCHANGED <<session, outcome, callSid, ready, closed, inbox, reader, leg, stopped,
                   hangup>>

\* Twilio dials back: the token is taken, or the socket is closed with 4404 and
\* the call with it.
DialBack ==
    /\ leg = "up"
    /\ stream = "none"
    /\ IF pending
       THEN stream' = "open" /\ UNCHANGED leg
       ELSE stream' = "refused" /\ leg' = "down"
    /\ pending' = FALSE
    /\ UNCHANGED <<session, outcome, callSid, ready, closed, inbox, reader, stopped, hangup>>

StartFrame ==
    /\ stream = "open"
    /\ ~ready
    /\ ready' = TRUE
    /\ UNCHANGED <<session, outcome, pending, callSid, closed, inbox, reader, stream, leg,
                   stopped, hangup>>

MediaFrame ==
    /\ stream = "open" /\ ready /\ ~stopped
    /\ Len(inbox) < MaxInbox
    /\ inbox' = Append(inbox, "frame")
    /\ UNCHANGED <<session, outcome, pending, callSid, ready, closed, reader, stream, leg,
                   stopped, hangup>>

\* Twilio's goodbye.
StopFrame ==
    /\ stream = "open" /\ ~stopped
    /\ leg = "down"
    /\ stopped' = TRUE
    /\ inbox' = Append(inbox, "end")
    /\ UNCHANGED <<session, outcome, pending, callSid, ready, closed, reader, stream, leg,
                   hangup>>

MutantDisconnect ==
    /\ stream = "open"
    /\ leg = "down"
    /\ stopped \/ "stop" \in Faults
    /\ stream' = "closed"
    /\ UNCHANGED <<session, outcome, pending, callSid, ready, closed, inbox, reader, leg,
                   stopped, hangup>>

\* The websocket is gone, with a goodbye or, when the network fails, without one.
Disconnect ==
    /\ stream = "open"
    /\ leg = "down"
    /\ stopped \/ "stop" \in Faults
    /\ stream' = "closed"
    /\ inbox' = IF closed THEN inbox ELSE Append(inbox, "end")
    /\ UNCHANGED <<session, outcome, pending, callSid, ready, closed, reader, leg, stopped,
                   hangup>>

-----------------------------------------------------------------------------
\* Twilio and the callee.

\* Twilio takes the placing request.
Rings ==
    /\ session = "placing"
    /\ leg = "none"
    /\ leg' = "ringing"
    /\ UNCHANGED <<session, outcome, pending, callSid, ready, closed, inbox, reader, stream,
                   stopped, hangup>>

Answers ==
    /\ leg = "ringing"
    /\ leg' = "up"
    /\ UNCHANGED <<session, outcome, pending, callSid, ready, closed, inbox, reader, stream,
                   stopped, hangup>>

\* The callee is busy, does not answer, or hangs up.
CalleeLeaves ==
    /\ leg \in {"ringing", "up"}
    /\ leg' = "down"
    /\ UNCHANGED <<session, outcome, pending, callSid, ready, closed, inbox, reader, stream,
                   stopped, hangup>>

-----------------------------------------------------------------------------
StartStep == Register \/ Placed \/ PlaceRaises \/ Connected \/ Timeout
RouteStep == DialBack \/ StartFrame \/ StopFrame \/ Disconnect

\* The dial has returned and Twilio is done with the call, which after a hang-up
\* that failed only the callee ends.
Terminated == session = "ended" /\ leg \in {"none", "down"} /\ stream # "open" /\ UNCHANGED vars

Next ==
    \/ StartStep
    \/ Read \/ SendFails \/ SessionEnds \/ End
    \/ RouteStep \/ MediaFrame
    \/ Rings \/ Answers \/ CalleeLeaves
    \/ Terminated

Spec == Init /\ [][Next]_vars

\* The placing request returns or raises, the timer fires, the route and the reader
\* run, and Twilio takes the request.  Neither the callee nor the live pump need
\* ever end the call.
Fairness ==
    /\ WF_vars(Rings)
    /\ WF_vars(StartStep)
    /\ WF_vars(Read)
    /\ WF_vars(RouteStep)
    /\ WF_vars(End)
    /\ WF_vars(session = "live" /\ reader = "finished" /\ SessionEnds)

FairSpec == Spec /\ Fairness

-----------------------------------------------------------------------------
(***************************************************************************)
(* Properties.                                                             *)
(***************************************************************************)

\* Every variable stays in its domain; the ends of the audio that can pile up are
\* Twilio's, the socket's and the session's.
TypeOK ==
    /\ session \in Sessions
    /\ outcome \in Outcomes
    /\ pending \in BOOLEAN
    /\ callSid \in BOOLEAN
    /\ ready \in BOOLEAN
    /\ closed \in BOOLEAN
    /\ inbox \in Seq({"frame", "end"})
    /\ Len(inbox) <= MaxInbox + 3
    /\ reader \in {"off", "reading", "finished"}
    /\ stream \in {"none", "open", "refused", "closed"}
    /\ leg \in {"none", "ringing", "up", "down"}
    /\ stopped \in BOOLEAN
    /\ hangup \in {"none", "done", "failed"}

\* A dial that is over has left no token, so that a callee who picks up late finds
\* no agent, and no call either, answered or not.  Two failures are not made good:
\* a placing request that raised may leave both, and after a hang-up request that
\* failed the call is up until the callee ends it.
DialLeavesNoCall ==
    session = "ended" /\ outcome # "failed" =>
        /\ ~pending
        /\ leg = "down" \/ hangup = "failed"

\* A token admits one stream, and only while its dial waits or has failed to place:
\* no stream is accepted once the dial gave up or the session began.
TokenAdmitsOneStream ==
    [][stream # "open" /\ stream' = "open" =>
          /\ stream = "none" /\ pending /\ ~pending'
          /\ session \in {"placing", "waiting"} \/ outcome = "failed"]_vars

\* A callee who leaves, before or after the answer and with or without Twilio's
\* goodbye, ends the dial, unless a send failed before the socket was found gone.
CalleeLeavingEndsDial ==
    session # "idle" /\ leg = "down" ~> session = "ended" \/ (session = "live" /\ closed)

\* As documented: the caller's audio ends when Twilio stops.
AudioEndsWithCall == reader = "reading" /\ stream = "closed" ~> reader = "finished"
=============================================================================

------------------------------ MODULE Preview -------------------------------
(***************************************************************************)
(* A preview call in the browser (backend/live_agent/preview_transport and *)
(* frontend/src/preview/liveVoiceSession): the page asks for the           *)
(* microphone, then opens a websocket; the router races the live session   *)
(* against its only reader of the socket and winds the call up when either *)
(* ends.  The live session itself is that of LiveSession.                  *)
(*                                                                         *)
(* One call.  The socket is two channels in order; it may break.  Of the   *)
(* frames only those that change a state are told apart.                   *)
(***************************************************************************)
EXTENDS Integers, SequencesExt

CONSTANT MaxFrames      \* bound: frames under way in each direction

ASSUME PreviewAssumption == MaxFrames \in Nat

VARIABLES
    page,       \* LiveVoiceSession
    server,     \* preview_voice, its two tasks and the transport
    up, down    \* the socket

previewVars == <<page, server, up, down>>

Over == {"ended", "error"}

PreviewInit ==
    /\ page = [status |-> "idle", mic |-> "off", sock |-> "none", playing |-> FALSE,
               hurried |-> FALSE, ends |-> 0]
    /\ server = [pc |-> "none", run |-> "none", inbound |-> "none", stopped |-> FALSE,
                 muted |-> FALSE]
    /\ up = <<>> /\ down = <<>>

(***************************************************************************)
(* The page.                                                               *)
(***************************************************************************)
PageStarts ==
    /\ page.status = "idle"
    /\ page' = [page EXCEPT !.status = "connecting", !.mic = "asked"]
    /\ UNCHANGED <<server, up, down>>

\* Whatever the status has become meanwhile, the socket is opened.
MicGranted ==
    /\ page.mic = "asked"
    /\ page' = [page EXCEPT !.mic = "on", !.sock = "connecting", !.playing = TRUE]
    /\ UNCHANGED <<server, up, down>>

MicDenied ==
    /\ page.mic = "asked"
    /\ page' = [page EXCEPT !.mic = "off", !.status = "error"]
    /\ UNCHANGED <<server, up, down>>

SocketOpens ==
    /\ page.sock = "connecting" /\ server.pc = "none"
    /\ page' = [page EXCEPT !.sock = "open", !.status = "live"]
    /\ server' = [server EXCEPT !.pc = "first"]
    /\ up' = Append(up, "start")
    /\ UNCHANGED down

TornDown(p) == [p EXCEPT !.mic = IF @ = "on" THEN "off" ELSE @, !.playing = FALSE]

MicFrame ==
    /\ page.mic = "on" /\ page.sock = "open" /\ Len(up) < MaxFrames
    /\ up' = Append(up, "audio")
    /\ UNCHANGED <<page, server, down>>

Closes(sock) == IF sock \in {"connecting", "open", "broken"} THEN "closing" ELSE sock

\* A socket that is closed before it was open never sends what was said on it.
PageStops ==
    /\ page.status \notin {"idle", "ended"}
    /\ page' = [TornDown(page) EXCEPT !.status = "ended", !.sock = Closes(@),
                                      !.hurried = @ \/ page.mic = "asked"]
    /\ up' = IF page.sock = "open" THEN up \o <<"stop", "gone">> ELSE up
    /\ UNCHANGED <<server, down>>

PageReceives ==
    /\ down # <<>> /\ page.sock \in {"open", "broken"}
    /\ down' = Tail(down)
    /\ page' = CASE Head(down) = "ended" ->
                      [TornDown(page) EXCEPT !.status = "ended", !.ends = @ + 1]
                 [] Head(down) \in {"audio", "cut", "event", "error"} -> page
                 [] Head(down) = "closed" ->
                      IF page.status \in {"connecting", "live"}
                      THEN [TornDown(page) EXCEPT !.status = "error", !.sock = "closed"]
                      ELSE [page EXCEPT !.sock = "closed"]
    /\ UNCHANGED <<server, up>>

\* Its close event: ours, or of a socket that was never accepted.
PageCloses ==
    /\ page.sock = "closing" \/ (page.sock = "connecting" /\ server.pc = "none")
    /\ page' = IF page.status \in {"connecting", "live"}
               THEN [TornDown(page) EXCEPT !.status = "error", !.sock = "closed"]
               ELSE [page EXCEPT !.sock = "closed"]
    /\ down' = <<>>
    /\ UNCHANGED <<server, up>>

SocketBreaks ==
    /\ page.sock = "open"
    /\ page' = [page EXCEPT !.sock = "broken"]
    /\ up' = Append(up, "gone")
    /\ down' = <<"closed">>
    /\ UNCHANGED server

(***************************************************************************)
(* The router.                                                             *)
(***************************************************************************)
Reachable == page.sock = "open"

Sends(frames) == down' = IF Reachable THEN down \o frames ELSE down

\* The agent does not exist.
Refuses ==
    /\ server.pc = "first"
    /\ server' = [server EXCEPT !.pc = "done"]
    /\ Sends(<<"error", "closed">>)
    /\ UNCHANGED <<page, up>>

\* The first frame of our page is its start.  What prepares the session may raise, and
\* out of the handler: the server then closes the socket.
CallStarts ==
    /\ server.pc = "first" /\ up # <<>>
    /\ up' = Tail(up)
    /\ \/ /\ server' = [server EXCEPT !.pc = "racing", !.run = "running", !.inbound = "running"]
          /\ UNCHANGED down
       \/ server' = [server EXCEPT !.pc = "done"] /\ Sends(<<"closed">>)
    /\ UNCHANGED page

\* _pump_inbound: the call ends at a stop or when the socket is gone.
InboundReads ==
    /\ server.inbound = "running" /\ up # <<>>
    /\ up' = Tail(up)
    /\ server' = IF Head(up) \in {"stop", "gone"} THEN [server EXCEPT !.inbound = "done"] ELSE server
    /\ UNCHANGED <<page, down>>

\* _SerializedSender: a send that fails ends all later ones, and never the session.
SessionSends(frame) ==
    /\ server.run = "running" /\ Len(down) < MaxFrames
    /\ IF server.muted THEN UNCHANGED <<server, down>>
       ELSE /\ Sends(<<frame>>)
            /\ server' = [server EXCEPT !.muted = ~Reachable]
    /\ UNCHANGED <<page, up>>

\* The session ends because its caller is gone, by itself, or because it raises.
SessionEnds(how) ==
    /\ server.run = "running"
    /\ server' = [server EXCEPT !.run = how]
    /\ UNCHANGED <<page, up, down>>

\* push_stop lets a run end whose microphone is silent; the reader is cancelled.
RaceEnds ==
    /\ server.pc = "racing" /\ (server.run # "running" \/ server.inbound = "done")
    /\ server' = [server EXCEPT !.pc = "ending", !.stopped = TRUE, !.inbound = "done"]
    /\ UNCHANGED <<page, up, down>>

MutantConcludes ==
    /\ server.pc = "ending" /\ server.run # "running"
    /\ server' = [server EXCEPT !.pc = "done"]
    /\ Sends(IF server.run = "raised" THEN <<"error", "closed">> ELSE <<"ended", "closed">>)
    /\ UNCHANGED <<page, up>>

Concludes ==
    /\ server.pc = "ending" /\ server.run # "running"
    /\ server' = [server EXCEPT !.pc = "done"]
    /\ Sends((IF server.run = "raised" THEN <<"error">> ELSE <<>>) \o <<"ended", "closed">>)
    /\ UNCHANGED <<page, up>>

PreviewNext ==
    \/ PageStarts \/ MicGranted \/ MicDenied \/ SocketOpens \/ MicFrame \/ PageStops
    \/ PageReceives \/ PageCloses \/ SocketBreaks
    \/ Refuses \/ CallStarts \/ InboundReads \/ RaceEnds \/ Concludes
    \/ \E frame \in {"audio", "cut", "event"} : SessionSends(frame)
    \/ \E how \in {"returned", "raised"} : SessionEnds(how)

PreviewSpec == PreviewInit /\ [][PreviewNext]_previewVars

(***************************************************************************)
(* Properties.                                                             *)
(***************************************************************************)
PreviewTypeOK ==
    /\ page.status \in {"idle", "connecting", "live"} \cup Over
    /\ server.pc \in {"none", "first", "racing", "ending", "done"}
    /\ server.run \in {"none", "running", "returned", "raised"}

\* The frames on their way that say that the call ended.
Tells == {i \in DOMAIN down : down[i] = "ended"}

\* Whoever ends the call and wherever the socket breaks: a handler that is through
\* has left no task behind, and a page that still listens is told by it exactly once
\* that a call it started has ended, never before, and last of all that the socket is
\* closed: that alone is what a page learns whose call never started.  A page whose
\* socket is closed knows the call is over; and a page whose call is over holds neither
\* the microphone nor the speaker, unless the user hung up while the browser still
\* asked for permission.
PreviewIsTornDown ==
    /\ server.pc = "done" => server.run # "running" /\ server.inbound # "running"
    /\ server.pc # "done" => page.ends = 0 /\ Tells = {}
    /\ page.ends + Cardinality(Tells) <= 1
    /\ server.pc = "done" /\ page.sock = "open" =>
          /\ down # <<>> /\ Last(down) = "closed"
          /\ server.run # "none" => page.ends + Cardinality(Tells) = 1
    /\ page.sock = "closed" => page.status \in Over
    /\ page.status \in Over /\ ~page.hurried => page.mic # "on" /\ ~page.playing
=============================================================================

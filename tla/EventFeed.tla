----------------------------- MODULE EventFeed ------------------------------
(***************************************************************************)
(* The event backbone (backend/events).  Emitting validates, appends to    *)
(* the durable log and offers the event to the live subscriptions.  A      *)
(* stream subscribes before it reads its backfill, sends the backfill and  *)
(* then the tail; a subscription that is full drops its oldest event.      *)
(*                                                                         *)
(* The in-process bus, on one event loop: an emit has no await between its *)
(* append and its last offer.  A payload that does not validate raises     *)
(* before anything is stored.                                              *)
(***************************************************************************)
EXTENDS Integers, FiniteSets, SequencesExt

CONSTANTS
    Viewer,             \* the tenant whose streams are modelled
    Streams,            \* their connections
    Produced,           \* the events that may be emitted
    MaxLog,             \* bound of the log
    QueueSize           \* maxsize of a subscription

ASSUME FeedAssumption ==
    /\ IsFiniteSet(Streams) /\ MaxLog \in Nat /\ QueueSize \in Nat \ {0}
    /\ \A event \in Produced : DOMAIN event = {"tenant", "campaign", "type"}

VARIABLES
    log,        \* the stored events; the sequence number is the index
    streams     \* the server's side of each connection

feedVars == <<log, streams>>

StoredEvent(tenant, campaign, type) == [tenant |-> tenant, campaign |-> campaign, type |-> type]

(***************************************************************************)
(* emit.                                                                   *)
(***************************************************************************)
Matches(event) == event.tenant = Viewer

MutantOffer(queue, seq) == Append(queue, seq)

\* Never block the publisher: the oldest goes.
Offer(queue, seq) ==
    IF Len(queue) = QueueSize THEN Append(Tail(queue), seq) ELSE Append(queue, seq)

Subscribed(s) == streams[s].pc \in {"backfill", "tail"}

Emit(event) ==
    /\ Len(log) < MaxLog
    /\ log' = Append(log, event)
    /\ streams' = [s \in Streams |->
         IF Subscribed(s) /\ Matches(event)
         THEN [streams[s] EXCEPT !.queue = Offer(@, Len(log) + 1),
                 !.dropped = IF Len(streams[s].queue) = QueueSize THEN @ + 1 ELSE @]
         ELSE streams[s]]

(***************************************************************************)
(* event_sse_stream.                                                       *)
(***************************************************************************)
NotOpen == [pc |-> "off", todo |-> {}, queue |-> <<>>, dropped |-> 0, after |-> 0,
            upto |-> 0, sent |-> <<>>, gone |-> FALSE]

\* What a query answers; it is sent in the order of the sequence numbers.
MatchingAfter(n) == {i \in DOMAIN log : i > n /\ Matches(log[i])}

MutantOpen(s, after) ==
    /\ streams[s].pc = "off"
    /\ streams' = [streams EXCEPT ![s] = [NotOpen EXCEPT !.pc = "backfill",
         !.todo = MatchingAfter(after) \ {Len(log)}, !.after = after,
         !.upto = after]]
    /\ UNCHANGED log

\* The subscription, then the query, without an await between them; a client
\* that resumes names the last event it has.
Open(s, after) ==
    /\ streams[s].pc = "off"
    /\ streams' = [streams EXCEPT ![s] = [NotOpen EXCEPT !.pc = "backfill",
         !.todo = MatchingAfter(after), !.after = after, !.upto = after]]
    /\ UNCHANGED log

SendBackfill(s) ==
    /\ streams[s].pc = "backfill"
    /\ \/ /\ streams[s].todo = {}
          /\ streams' = [streams EXCEPT ![s].pc = "tail"]
       \/ \E first \in streams[s].todo :
             /\ \A other \in streams[s].todo : first <= other
             /\ streams' = [streams EXCEPT ![s].sent = Append(@, first), ![s].upto = first,
                                           ![s].todo = @ \ {first}]
    /\ UNCHANGED log

Ended(s) == [streams EXCEPT ![s].pc = "closed", ![s].todo = {}, ![s].queue = <<>>]

Duplicate(s) == Head(streams[s].queue) <= streams[s].upto

SendTail(s) ==
    /\ streams[s].pc = "tail" /\ streams[s].queue # <<>>
    /\ streams' =
         IF Duplicate(s) THEN [streams EXCEPT ![s].queue = Tail(@)]
         ELSE IF streams[s].gone THEN Ended(s)
         ELSE [streams EXCEPT ![s].queue = Tail(@),
                              ![s].sent = Append(@, Head(streams[s].queue))]
    /\ UNCHANGED log

ClientGoes(s) ==
    /\ Subscribed(s) /\ ~streams[s].gone
    /\ streams' = [streams EXCEPT ![s].gone = TRUE]
    /\ UNCHANGED log

\* The heartbeat finds the client gone, or the server cancels the response.
StreamEnds(s) ==
    /\ Subscribed(s) /\ streams[s].gone
    /\ streams' = Ended(s)
    /\ UNCHANGED log

FeedInit == log = <<>> /\ streams = [s \in Streams |-> NotOpen]

FeedNext ==
    \/ \E event \in Produced : Emit(event)
    \/ \E s \in Streams :
          \/ \E after \in 0 .. Len(log) : Open(s, after)
          \/ SendBackfill(s) \/ SendTail(s) \/ ClientGoes(s) \/ StreamEnds(s)

(***************************************************************************)
(* Properties.                                                             *)
(***************************************************************************)
FeedTypeOK ==
    /\ Len(log) <= MaxLog
    /\ \A s \in Streams : /\ streams[s].pc \in {"off", "backfill", "tail", "closed"}
                          /\ Len(streams[s].queue) <= QueueSize

\* A stream sends events of its tenant only, in the order of the log, none
\* twice; and unless its queue overflowed none is missing between the cursor it
\* started from and the last one it sent, whatever was emitted during the backfill.
StreamHasNoGap ==
    \A s \in Streams :
        LET sent == streams[s].sent IN
        /\ \A i \in DOMAIN sent : Matches(log[sent[i]])
        /\ \A i, j \in DOMAIN sent : i < j => sent[i] < sent[j]
        /\ \A i \in DOMAIN sent : sent[i] > streams[s].after
        /\ streams[s].dropped = 0 =>
              \A i \in DOMAIN sent : \A n \in MatchingAfter(streams[s].after) :
                  n < sent[i] => \E j \in DOMAIN sent : sent[j] = n
=============================================================================

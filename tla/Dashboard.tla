----------------------------- MODULE Dashboard ------------------------------
(***************************************************************************)
(* The dashboard's store (frontend/src/dashboard/store.ts) over the event  *)
(* log.  It loads snapshots of the campaigns, replays the whole stream     *)
(* onto them each time it mounts, and asks for the detail and the history  *)
(* of the campaign the user opens; responses and events arrive in any      *)
(* order.  It never changes the state of a campaign by itself: a control   *)
(* is a request, and the event that follows shows its effect.  The stream  *)
(* delivers the log in order, as EventFeed shows.                          *)
(***************************************************************************)
EXTENDS EventFeed

CONSTANTS
    Campaigns,          \* of the viewer
    MaxLive,            \* MAX_LIVE_EVENTS
    MaxMounts, MaxOpens, MaxMoves \* bounds

ASSUME DashboardAssumption ==
    /\ MaxLive \in Nat \ {0} /\ MaxMounts \in Nat /\ MaxOpens \in Nat
    /\ MaxMoves \in Nat

VARIABLES
    state,      \* CampaignState of each campaign, at the orchestrator
    dash        \* the store

dashVars == <<log, streams, state, dash>>

(***************************************************************************)
(* The orchestrator moves a campaign; that one has completed is no event.  *)
(***************************************************************************)
Moves == { <<"draft", "running", "started">>, <<"running", "paused", "paused">>,
           <<"running", "paused", "autopaused">>, <<"paused", "running", "resumed">> }
Lifecycle == {m[3] : m \in Moves}

Transition(c, types) ==
    /\ Len(log) < MaxMoves
    /\ \E m \in Moves :
        /\ m[3] \in types /\ state[c] = m[1]
        /\ state' = [state EXCEPT ![c] = m[2]]
        /\ Emit(StoredEvent(Viewer, c, m[3]))

OrchestratorMoves(c) == Transition(c, {"started", "autopaused"}) /\ UNCHANGED dash

CampaignCompletes(c) ==
    /\ state[c] = "running"
    /\ state' = [state EXCEPT ![c] = "completed"]
    /\ UNCHANGED <<log, streams, dash>>

(***************************************************************************)
(* The store.                                                              *)
(***************************************************************************)
Unknown == [c \in Campaigns |-> "unknown"]
NoCampaign == "none"

DashInit ==
    /\ log = <<>> /\ streams = [s \in Streams |-> NotOpen]
    /\ state = [c \in Campaigns |-> "draft"]
    /\ dash = [open |-> FALSE, mounts |-> 0, read |-> 0, live |-> <<>>,
               fleet |-> Unknown, loading |-> Unknown,
               selected |-> NoCampaign, opens |-> 0, asked |-> {}, history |-> {},
               detail |-> [of |-> NoCampaign, state |-> "unknown"], pending |-> {}]

\* The fleet is asked for and the stream started again from the first event; the
\* store outlives the view.
Mount ==
    /\ ~dash.open /\ dash.mounts < MaxMounts
    /\ dash' = [dash EXCEPT !.open = TRUE, !.mounts = @ + 1, !.read = 0, !.loading = state]
    /\ UNCHANGED <<log, streams, state>>

Unmount ==
    /\ dash.open
    /\ dash' = [dash EXCEPT !.open = FALSE]
    /\ UNCHANGED <<log, streams, state>>

FleetLoads ==
    /\ dash.loading # Unknown
    /\ dash' = [dash EXCEPT !.fleet = dash.loading, !.loading = Unknown]
    /\ UNCHANGED <<log, streams, state>>

\* applyLifecycle.
ShownAs(type) == IF type \in {"started", "resumed"} THEN "running" ELSE "paused"

Ingest ==
    /\ dash.open /\ dash.read < Len(log)
    /\ LET ev == log[dash.read + 1]
           live == Append(dash.live, dash.read + 1)
           reflects(c) == ev.type \in Lifecycle /\ ev.campaign = c IN
       dash' = [dash EXCEPT
          !.read = @ + 1,
          !.live = IF Len(live) > MaxLive THEN Tail(live) ELSE live,
          !.fleet = [c \in Campaigns |-> IF reflects(c) /\ @[c] # "unknown"
                                         THEN ShownAs(ev.type) ELSE @[c]],
          !.detail = IF reflects(@.of) THEN [@ EXCEPT !.state = ShownAs(ev.type)] ELSE @]
    /\ UNCHANGED <<log, streams, state>>

\* The server answers at once; what is slow is the answer's way back.
Answer(kind, c) == [kind |-> kind, of |-> c, state |-> state[c], upto |-> Len(log)]

\* openCampaign asks for the detail and for the history of the campaign, and
\* forgets the history it shows.
OpenCampaign(c) ==
    /\ dash.open /\ dash.opens < MaxOpens
    /\ dash' = [dash EXCEPT !.selected = c, !.history = {}, !.opens = @ + 1,
                  !.asked = @ \cup {Answer("detail", c), Answer("history", c)}]
    /\ UNCHANGED <<log, streams, state>>

DetailLoads(r) ==
    /\ r.kind = "detail"
    /\ dash' = [dash EXCEPT !.detail = [of |-> r.of, state |-> r.state], !.asked = @ \ {r}]
    /\ UNCHANGED <<log, streams, state>>

HistoryOf(c, n) == {i \in 1 .. n : log[i].campaign = c}

MutantHistoryLoads(r) ==
    /\ r.kind = "history"
    /\ dash' = [dash EXCEPT !.history = HistoryOf(r.of, r.upto), !.asked = @ \ {r}]
    /\ UNCHANGED <<log, streams, state>>

\* A slow response for a campaign the user has left is dropped.
HistoryLoads(r) ==
    /\ r.kind = "history"
    /\ dash' = [dash EXCEPT !.history = IF dash.selected = r.of THEN HistoryOf(r.of, r.upto) ELSE @,
                            !.asked = @ \ {r}]
    /\ UNCHANGED <<log, streams, state>>

RequestFails(r) ==
    /\ dash' = [dash EXCEPT !.asked = @ \ {r}]
    /\ UNCHANGED <<log, streams, state>>

LeaveCampaign ==
    /\ dash.selected # NoCampaign
    /\ dash' = [dash EXCEPT !.selected = NoCampaign]
    /\ UNCHANGED <<log, streams, state>>

\* A control is one request at a time: a pause of what is shown running, a resume
\* of what is shown paused.
Click(c, control) ==
    /\ dash.open /\ \A p \in dash.pending : p[1] # c
    /\ LET shown == IF control = "paused" THEN "running" ELSE "paused" IN
       dash.fleet[c] = shown \/ (dash.selected = c /\ dash.detail.state = shown)
    /\ dash' = [dash EXCEPT !.pending = @ \cup {<<c, control>>}]
    /\ UNCHANGED <<log, streams, state>>

\* The orchestrator obeys or refuses; only its event changes what is shown.
ControlDone(c, control) ==
    /\ <<c, control>> \in dash.pending
    /\ dash' = [dash EXCEPT !.pending = @ \ {<<c, control>>}]
    /\ Transition(c, {control}) \/ UNCHANGED <<log, streams, state>>

DashNext ==
    \/ Mount \/ Unmount \/ FleetLoads \/ Ingest \/ LeaveCampaign
    \/ \E c \in Campaigns : \/ OrchestratorMoves(c) \/ CampaignCompletes(c)
                            \/ OpenCampaign(c)
                            \/ \E control \in {"paused", "resumed"} :
                                  Click(c, control) \/ ControlDone(c, control)
    \/ \E r \in dash.asked : DetailLoads(r) \/ HistoryLoads(r) \/ RequestFails(r)

\* With the streams that follow the same log.
DashSpec == DashInit /\ [][DashNext \/ (FeedNext /\ UNCHANGED <<state, dash>>)]_dashVars

(***************************************************************************)
(* Properties.                                                             *)
(***************************************************************************)
DashTypeOK ==
    /\ \A c \in Campaigns : state[c] \in {"draft", "running", "paused", "completed"}
    /\ Len(dash.live) <= MaxLive /\ dash.read <= Len(log)

\* Whatever order responses, events and replays arrive in, the dashboard shows no
\* campaign in a state that it never had, and never the history of another
\* campaign than the one selected.
DashboardInventsNothing ==
    /\ \A c \in Campaigns :
          LET had == {state[c], "draft", "unknown"} \cup
                     {ShownAs(log[i].type) : i \in HistoryOf(c, Len(log))}
          IN  dash.fleet[c] \in had /\ (dash.detail.of = c => dash.detail.state \in had)
    /\ dash.selected # NoCampaign => dash.history \subseteq HistoryOf(dash.selected, Len(log))
=============================================================================

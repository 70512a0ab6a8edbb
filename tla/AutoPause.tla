----------------------------- MODULE AutoPause ------------------------------
(***************************************************************************)
(* The auto-pause engine (backend/autopause): rules over the event stream, *)
(* sliding windows and cooldowns in event time, and a kill switch.  A      *)
(* critical trip pauses a campaign at once, a burst of trips pauses it, a  *)
(* burst of escalations pages a human.                                     *)
(*                                                                         *)
(* Events are handled in the order of their times, one at a time.  The     *)
(* kill switch and the escalator are ports: pausing shows at once.         *)
(***************************************************************************)
EXTENDS Integers, FiniteSets, SequencesExt

CONSTANTS
    Watched,            \* campaigns
    Threshold,          \* of both burst rules
    Window,             \* window_seconds of both
    PauseCooldown,      \* autopause_cooldown_seconds
    PageCooldown,       \* escalation_cooldown_seconds
    MaxTime, MaxEvents  \* bounds

ASSUME AutoPauseAssumption ==
    /\ Threshold \in Nat \ {0} /\ Window \in Nat /\ PauseCooldown \in Nat /\ PageCooldown \in Nat
    /\ MaxTime \in Nat /\ MaxEvents \in Nat

VARIABLES
    clock,      \* occurred_at of the next event
    windows,    \* [rule -> [campaign -> times]]
    last,       \* _last_action: [action -> [campaign -> time]]
    paused,     \* the campaigns the kill switch has stopped
    handled     \* the last event, the signals it raised and those acted on

apVars == <<clock, windows, last, paused, handled>>

Never == -1
NoHandling == [type |-> "none", of |-> "none", raised |-> 0, acted |-> 0, nth |-> 0]
Handling(type, c, raised, acted) ==
    [type |-> type, of |-> c, raised |-> raised, acted |-> acted, nth |-> handled.nth + 1]

ApInit ==
    /\ clock = 0
    /\ windows = [rule \in {"trips", "escalations"} |-> [c \in Watched |-> <<>>]]
    /\ last = [action \in {"autopause", "escalate"} |-> [c \in Watched |-> Never]]
    /\ paused = {} /\ handled = NoHandling

Tick ==
    /\ clock < MaxTime
    /\ clock' = clock + 1
    /\ UNCHANGED <<windows, last, paused, handled>>

(***************************************************************************)
(* SlidingWindow.add: what is strictly older than the window goes, from    *)
(* the front, for the times are in order.                                  *)
(***************************************************************************)
Added(times) ==
    LET all == Append(times, clock)
        older == {i \in DOMAIN all : all[i] < clock - Window}
    IN  SubSeq(all, Cardinality(older) + 1, Len(all))

Cooldown(action) == IF action = "autopause" THEN PauseCooldown ELSE PageCooldown

MutantSuppressed(action, c) ==
    \E d \in Watched : last[action][d] # Never /\ clock - last[action][d] < Cooldown(action)

Suppressed(action, c) ==
    last[action][c] # Never /\ clock - last[action][c] < Cooldown(action)

\* The rules are observed in order: the second signal of an event finds the
\* cooldown that the first one started.
Acted(type, action, c, signals) ==
    LET n == IF signals = 0 \/ Suppressed(action, c) THEN 0
             ELSE IF Cooldown(action) = 0 THEN signals ELSE 1 IN
    /\ handled' = Handling(type, c, signals, n)
    /\ last' = IF n = 0 THEN last ELSE [last EXCEPT ![action][c] = clock]
    /\ paused' = IF n > 0 /\ action = "autopause" THEN paused \cup {c} ELSE paused

Burst(times) == IF Len(times) >= Threshold THEN 1 ELSE 0

\* CriticalGuardrailRule, then GuardrailTripRule, which counts the trip too.
GuardrailTripped(c, critical) ==
    LET times == Added(windows["trips"][c]) IN
    /\ handled.nth < MaxEvents
    /\ windows' = [windows EXCEPT !["trips"][c] = times]
    /\ Acted("trip", "autopause", c, Burst(times) + IF critical THEN 1 ELSE 0)
    /\ UNCHANGED clock

CallEscalated(c) ==
    LET times == Added(windows["escalations"][c]) IN
    /\ handled.nth < MaxEvents
    /\ windows' = [windows EXCEPT !["escalations"][c] = times]
    /\ Acted("escalation", "escalate", c, Burst(times))
    /\ UNCHANGED clock

\* A resume forgets the cooldowns of the campaign and keeps its windows.
CampaignResumed(c) ==
    /\ c \in paused /\ handled.nth < MaxEvents
    /\ paused' = paused \ {c}
    /\ last' = [action \in DOMAIN last |-> [last[action] EXCEPT ![c] = Never]]
    /\ handled' = Handling("resumed", c, 0, 0)
    /\ UNCHANGED <<clock, windows>>

ApNext ==
    \/ Tick
    \/ \E c \in Watched : \/ \E critical \in BOOLEAN : GuardrailTripped(c, critical)
                          \/ CallEscalated(c) \/ CampaignResumed(c)

ApSpec == ApInit /\ [][ApNext]_apVars

(***************************************************************************)
(* Properties.                                                             *)
(***************************************************************************)
ApTypeOK ==
    \A rule \in DOMAIN windows : \A c \in Watched :
        \A i \in DOMAIN windows[rule][c] : windows[rule][c][i] \in 0 .. clock

\* A trip that breaches a rule leaves its campaign stopped, even when it is
\* suppressed because of an earlier one; a campaign is stopped by nothing else, in
\* particular not by the trips of another campaign.
BreachStopsTheCampaign ==
    [][/\ handled'.type = "trip" /\ handled'.raised > 0 => handled'.of \in paused'
       /\ \A c \in paused' \ paused :
             handled'.type = "trip" /\ handled'.of = c /\ handled'.raised > 0]_apVars
=============================================================================

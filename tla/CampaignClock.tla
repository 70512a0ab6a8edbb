--------------------------- MODULE CampaignClock ----------------------------
(***************************************************************************)
(* The arithmetic of when a lead is dialed (backend/orchestrator, envelope *)
(* and scheduling): the window a campaign is authorised for, retries,      *)
(* backoff and the sliding minute of the rate limiter, in the loop that    *)
(* sleeps on them.  Orchestrator has the loop's other concerns, with time  *)
(* abstracted to phases; here time is in seconds.                          *)
(*                                                                         *)
(* One campaign that nobody pauses.  Calls end when they like; the loop    *)
(* may wake late.                                                          *)
(***************************************************************************)
EXTENDS Integers, FiniteSets, SequencesExt

CONSTANTS
    Locked,             \* the guardrails: [from, to, attempts, calls]
    Envelopes,          \* what the owner may ask for
    People,             \* the campaign's leads
    PerMinute,          \* calls_per_minute
    Starts, Durations, Delays, Horizon  \* bounds: when it starts, how long calls last,
                                        \* how late things happen, when it stops

Envelope == [from : 0 .. 24, to : 0 .. 24, attempts : Nat, calls : Nat]

ASSUME ClockAssumption ==
    /\ Locked \in Envelope /\ Locked.from < Locked.to /\ Envelopes \subseteq Envelope
    /\ PerMinute \in Nat \ {0}
    /\ Starts \subseteq Nat /\ Durations \subseteq Nat /\ Delays \subseteq Nat /\ Horizon \in Nat

VARIABLES
    ticks,      \* the clock
    hours,      \* the envelope of the campaign, as it was authorised
    book,       \* [person -> [state, attempts, at]]: the lead's row
    dials,      \* every dial, as the limiter stamps it
    wake        \* when the loop goes on

clockVars == <<ticks, hours, book, dials, wake>>

(***************************************************************************)
(* Pure arithmetic.                                                        *)
(***************************************************************************)
Hour == 3600
Day == 86400

MutantClamped(e) ==
    [from |-> IF e.from < Locked.from THEN Locked.from ELSE e.from, to |-> e.to,
     attempts |-> IF e.attempts < Locked.attempts THEN e.attempts ELSE Locked.attempts,
     calls |-> e.calls]

\* clamp_envelope: the intersection, or the locked window where that is empty.
Clamped(e) ==
    LET from == IF e.from < Locked.from THEN Locked.from ELSE e.from
        to == IF e.to < Locked.to THEN e.to ELSE Locked.to IN
    [from |-> IF from >= to THEN Locked.from ELSE from,
     to |-> IF from >= to THEN Locked.to ELSE to,
     attempts |-> IF e.attempts < Locked.attempts THEN e.attempts ELSE Locked.attempts,
     calls |-> e.calls]

HourOf(t) == (t % Day) \div Hour

WithinHours(t, e) == e.from <= HourOf(t) /\ HourOf(t) < e.to

NextOpen(t, e) ==
    LET candidate == t - (t % Day) + e.from * Hour IN
    IF WithinHours(t, e) THEN t
    ELSE IF HourOf(t) >= e.to \/ candidate <= t THEN candidate + Day ELSE candidate

\* Five minutes, doubled with every attempt made (there was one), at most two hours.
BackoffDelay(attempts) ==
    LET doubled == <<300, 600, 1200, 2400, 4800>> IN
    IF attempts \in 1 .. 5 THEN doubled[attempts] ELSE 2 * Hour

(***************************************************************************)
(* The loop.                                                               *)
(***************************************************************************)
OnCall == -1
Finished == -2

CcInit ==
    /\ ticks \in Starts
    /\ hours \in {Clamped(e) : e \in Envelopes}
    /\ book = [p \in People |-> [state |-> "queued", attempts |-> 0, at |-> 0]]
    /\ dials = <<>> /\ wake = 0

InFlight == {p \in People : book[p].state = "dialing"}
Eligible(p) == book[p].state = "queued" /\ book[p].at <= ticks

\* A dial leaves the limiter's window when it is a minute old.
RecentAt(t) == {i \in DOMAIN dials : dials[i].at > t - 60}
Full(t) == Cardinality(RecentAt(t)) >= PerMinute

Awake == wake >= 0 /\ wake <= ticks /\ ticks < Horizon
Unfinished == \E p \in People : book[p].state # "done"
MayDial == Awake /\ Unfinished /\ WithinHours(ticks, hours) /\ Cardinality(InFlight) < hours.calls

Sleeps(t) ==
    /\ wake' = t
    /\ UNCHANGED <<ticks, hours, book, dials>>

Completes == Awake /\ ~Unfinished /\ Sleeps(Finished)

OutsideHours ==
    /\ Awake /\ Unfinished /\ ~WithinHours(ticks, hours)
    /\ Sleeps(IF InFlight = {} THEN NextOpen(ticks, hours) ELSE OnCall)

AtTheCap ==
    /\ Awake /\ Unfinished /\ WithinHours(ticks, hours) /\ Cardinality(InFlight) >= hours.calls
    /\ Sleeps(OnCall)

\* seconds_until_free: until the oldest dial of the window leaves it.
RateBound ==
    /\ MayDial /\ Full(ticks)
    /\ \E i \in RecentAt(ticks) :
          (\A j \in RecentAt(ticks) : i <= j) /\ Sleeps(dials[i].at + 60)

\* The lead is claimed and dialed; the call will end some time later.
Dials(p) ==
    /\ MayDial /\ ~Full(ticks) /\ Eligible(p)
    /\ \E d \in Durations :
          book' = [book EXCEPT ![p] =
                     [state |-> "dialing", attempts |-> @.attempts + 1, at |-> ticks + d]]
    /\ dials' = Append(dials, [who |-> p, at |-> ticks])
    /\ UNCHANGED <<ticks, hours, wake>>

Times == {book[p].at : p \in {q \in People : book[q].state = "queued"}}

NothingEligible ==
    /\ MayDial /\ ~Full(ticks) /\ \A p \in People : ~Eligible(p)
    /\ \/ InFlight # {} /\ Sleeps(OnCall)
       \/ InFlight = {} /\ \E t \in Times : (\A u \in Times : t <= u) /\ Sleeps(t)

\* A call that was not answered is tried again, until the attempts are spent.
CallEnds(p, answered) ==
    /\ p \in InFlight /\ book[p].at <= ticks
    /\ book' = [book EXCEPT ![p] =
         IF answered \/ @.attempts >= hours.attempts THEN [@ EXCEPT !.state = "done"]
         ELSE [state |-> "queued", attempts |-> @.attempts,
               at |-> NextOpen(ticks + BackoffDelay(@.attempts), hours)]]
    /\ wake' = IF wake = OnCall THEN ticks ELSE wake
    /\ UNCHANGED <<ticks, hours, dials>>

\* Time goes to the next thing that happens, or a little further.
Awaited == {wake} \cup {book[p].at : p \in InFlight}
TimePasses(late) ==
    /\ ticks < Horizon
    /\ \E t \in Awaited :
          /\ t > ticks /\ \A u \in Awaited : u \in {OnCall, Finished} \/ t <= u
          /\ ticks' = t + late
    /\ UNCHANGED <<hours, book, dials, wake>>

CcNext ==
    \/ Completes \/ OutsideHours \/ AtTheCap \/ RateBound \/ NothingEligible
    \/ \E p \in People : Dials(p) \/ \E answered \in BOOLEAN : CallEnds(p, answered)
    \/ \E late \in Delays : TimePasses(late)

CcSpec == CcInit /\ [][CcNext]_clockVars

(***************************************************************************)
(* Properties.                                                             *)
(***************************************************************************)
CcTypeOK ==
    /\ ticks \in Nat /\ wake \in Int
    /\ hours \in Envelope
    /\ book \in [People -> [state : {"queued", "dialing", "done"}, attempts : Nat, at : Nat]]
    /\ dials \in Seq([who : People, at : Nat])

\* Every dial is made within the locked hours and within what the owner asked for,
\* except where that lies outside the locked hours altogether.
DialedInHours == \A i \in DOMAIN dials : WithinHours(dials[i].at, hours) /\ WithinHours(dials[i].at, Locked)

\* The limiter holds in every minute, and a person is left alone between attempts.
DialedInMeasure ==
    /\ \A i \in DOMAIN dials : i + PerMinute \in DOMAIN dials =>
          dials[i + PerMinute].at - dials[i].at >= 60
    /\ \A i, j \in DOMAIN dials : i < j /\ dials[i].who = dials[j].who =>
          dials[j].at - dials[i].at >= 300

\* The instants at which something may become possible.
Turning == {ticks} \cup Times \cup {dials[i].at + 60 : i \in DOMAIN dials} \cup
           {ticks - (ticks % Day) + hours.from * Hour + n * Day : n \in 0 .. 2}

Possible(t) ==
    /\ WithinHours(t, hours)
    /\ ~Full(t)
    /\ \E p \in People : book[p].state = "queued" /\ book[p].at <= t

\* The loop keeps the envelope, and it does not sleep past a dial: while no call is
\* in flight, no lead could be dialed before the loop wakes.
DialsAreTimely ==
    /\ DialedInHours /\ DialedInMeasure
    /\ wake > ticks /\ InFlight = {} => \A t \in Turning : ticks <= t /\ t < wake => ~Possible(t)
=============================================================================

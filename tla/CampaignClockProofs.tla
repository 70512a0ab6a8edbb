------------------------ MODULE CampaignClockProofs ------------------------
(***************************************************************************)
(* Proofs about the campaign clock: the envelope is never wider than the   *)
(* locked guardrails, a window's opening is the first instant inside it,   *)
(* and every dial is made within both windows.                             *)
(***************************************************************************)
EXTENDS CampaignClock, FiniteSetTheorems, SequenceTheorems, TLAPS

\* What the runner can count on: an envelope that admits some hour.
Opens(e) == e \in Envelope /\ e.from < e.to

\* The start of the day a time lies in, and the second of that day.
LEMMA DayOf ==
    ASSUME NEW t \in Nat
    PROVE  /\ t \div 86400 \in Nat
           /\ t % Day \in Nat /\ t % Day < 86400
           /\ t = 86400 * (t \div 86400) + (t % Day)
<1>1. t \div 86400 \in Nat BY SMT
<1>2. t % 86400 \in Nat BY SMT
<1>3. t % 86400 < 86400 BY SMT
<1>4. t = 86400 * (t \div 86400) + (t % 86400) BY SMT
<1>5. t % Day = t % 86400 BY SMT DEF Day
<1>6. QED BY <1>1, <1>2, <1>3, <1>4, <1>5, SMT

LEMMA HourOfDay ==
    ASSUME NEW r \in Nat, r < 86400
    PROVE  /\ r \div 3600 \in Nat /\ r \div 3600 < 24
           /\ (r \div 3600) * 3600 <= r /\ r < (r \div 3600) * 3600 + 3600
<1>1. r \div 3600 \in Nat BY SMT
<1>2. (r \div 3600) * 3600 <= r BY SMT
<1>3. r < (r \div 3600) * 3600 + 3600 BY SMT
<1>4. r \div 3600 < 24 BY <1>1, <1>2, SMT
<1>5. QED BY <1>1, <1>2, <1>3, <1>4, SMT

\* A window, in seconds of the day.
LEMMA WindowInSeconds ==
    ASSUME NEW t \in Nat, NEW e \in Envelope
    PROVE  /\ HourOf(t) \in Nat
           /\ WithinHours(t, e) <=> 3600 * e.from <= t % Day /\ t % Day < 3600 * e.to
           /\ HourOf(t) >= e.to <=> t % Day >= 3600 * e.to
<1>1. t % Day \in Nat /\ t % Day < 86400 BY DayOf, SMT
<1>2. HourOf(t) = (t % Day) \div 3600 BY SMT DEF HourOf, Hour
<1>3. /\ HourOf(t) \in Nat
      /\ HourOf(t) * 3600 <= t % Day /\ t % Day < HourOf(t) * 3600 + 3600
  BY <1>1, <1>2, HourOfDay, SMT
<1>4. e.from \in 0 .. 24 /\ e.to \in 0 .. 24 BY SMT DEF Envelope
<1>5. QED BY <1>1, <1>3, <1>4, SMT DEF WithinHours

\* clamp_envelope yields a window that opens, inside the locked one, and no more attempts.
THEOREM ClampIsStricter ==
    ASSUME NEW e \in Envelope
    PROVE  /\ Opens(Clamped(e))
           /\ Locked.from <= Clamped(e).from /\ Clamped(e).to <= Locked.to
           /\ Clamped(e).attempts <= e.attempts /\ Clamped(e).attempts <= Locked.attempts
BY ClockAssumption, SMT DEF ClockAssumption, Clamped, Envelope, Opens

\* next_window_open: the first instant, from t on, that lies within the window.
THEOREM NextOpenIsFirst ==
    ASSUME NEW t \in Nat, NEW e, Opens(e)
    PROVE  /\ NextOpen(t, e) \in Nat /\ t <= NextOpen(t, e)
           /\ WithinHours(NextOpen(t, e), e)
           /\ \A u \in Nat : t <= u /\ u < NextOpen(t, e) => ~WithinHours(u, e)
<1> DEFINE open == NextOpen(t, e)
           q == t \div 86400
           r == t % Day
<1>1. e \in Envelope /\ e.from \in 0 .. 24 /\ e.to \in 0 .. 24 /\ e.from < e.to
  BY SMT DEF Opens, Envelope
<1>2. q \in Nat /\ t = 86400 * q + r /\ r \in Nat /\ r < 86400 BY DayOf, SMT
<1> HIDE DEF q, r
<1>3. CASE WithinHours(t, e)
  BY <1>3, SMT DEF NextOpen
<1>4. CASE ~WithinHours(t, e)
  <2>1. open = 86400 * q + 3600 * e.from \/ open = 86400 * q + 3600 * e.from + 86400
    BY <1>1, <1>2, <1>4, SMT DEF NextOpen, Hour, Day, r
  <2>2. IF r < 3600 * e.from THEN open = 86400 * q + 3600 * e.from
        ELSE open = 86400 * q + 3600 * e.from + 86400 /\ r >= 3600 * e.to
    <3> DEFINE candidate == 86400 * q + 3600 * e.from
    <3>1. /\ WithinHours(t, e) <=> 3600 * e.from <= r /\ r < 3600 * e.to
          /\ HourOf(t) >= e.to <=> r >= 3600 * e.to
      BY <1>1, WindowInSeconds DEF r
    <3>2. t - (t % Day) + e.from * Hour = candidate
      BY <1>1, <1>2, SMTT(30) DEF Hour, r
    <3>3. candidate \in Nat /\ (candidate <= t <=> 3600 * e.from <= r)
      BY <1>1, <1>2, SMTT(30)
    <3>4. open = IF HourOf(t) >= e.to \/ candidate <= t THEN candidate + 86400 ELSE candidate
      BY <1>4, <3>2 DEF NextOpen, Day
    <3> HIDE DEF candidate, open
    <3>5. r \in Nat /\ e.from \in Nat /\ e.to \in Nat /\ e.from < e.to BY <1>1, <1>2, SMT
    <3>6. IF r < 3600 * e.from THEN open = candidate
          ELSE open = candidate + 86400 /\ r >= 3600 * e.to
      BY <1>4, <3>1, <3>3, <3>4, <3>5, SMTT(30)
    <3>7. QED BY <3>6 DEF candidate
  <2>3. open \in Nat /\ t <= open BY <1>1, <1>2, <2>2, SMT
  <2>4. PICK q1 \in Nat : open = 86400 * q1 + (open % Day) 
                                /\ open % Day \in Nat /\ open % Day < 86400
    BY <2>3, DayOf, SMT
  <2>5. open % Day = 3600 * e.from
    BY <1>1, <1>2, <2>1, <2>4, SMT
  <2>6. WithinHours(open, e) BY <1>1, <2>3, <2>5, WindowInSeconds, SMT
  <2>7. ASSUME NEW u \in Nat, t <= u, u < open PROVE ~WithinHours(u, e)
    <3> DEFINE q2 == u \div 86400
    <3>1. /\ q2 \in Nat /\ u = 86400 * q2 + (u % Day)
          /\ u % Day \in Nat /\ u % Day < 86400
      BY DayOf, SMT
    <3> HIDE DEF q2
    <3>2. ~(3600 * e.from <= u % Day /\ u % Day < 3600 * e.to)
      BY <1>1, <1>2, <2>2, <2>7, <3>1, SMT
    <3>3. QED BY <1>1, <3>2, WindowInSeconds, SMT
  <2>8. QED BY <2>3, <2>6, <2>7, SMT
<1>5. QED BY <1>3, <1>4, SMT

(***************************************************************************)
(* The inductive invariant.  The dials are in the order they were made; a  *)
(* person who was dialed rests; and the loop sleeps for one of three       *)
(* reasons, each of which lasts until it wakes.                            *)
(***************************************************************************)
HoursInside == Opens(hours) /\ Locked.from <= hours.from /\ hours.to <= Locked.to

InOrder ==
    /\ \A i \in DOMAIN dials : dials[i].at <= ticks
    /\ \A i, j \in DOMAIN dials : i <= j => dials[i].at <= dials[j].at

Rested ==
    \A i \in DOMAIN dials : book[dials[i].who].state = "queued" =>
        book[dials[i].who].at >= dials[i].at + 300

SleepsForARate == \A t \in Nat : ticks <= t /\ t < wake => Full(t)
SleepsForHours == InFlight = {} /\ \A t \in Nat : ticks <= t /\ t < wake => ~WithinHours(t, hours)
SleepsForALead == InFlight = {} /\ \A p \in People : book[p].state = "queued" => book[p].at >= wake
Asleep == wake > ticks => SleepsForARate \/ SleepsForHours \/ SleepsForALead

CcInv ==
    CcTypeOK /\ HoursInside /\ InOrder /\ Rested /\ Asleep /\ DialedInHours /\ DialedInMeasure

LEMMA BackoffIsARest == ASSUME NEW n \in Nat PROVE BackoffDelay(n) \in Nat /\ BackoffDelay(n) >= 300
<1>1. CASE n \in 1 .. 5
  <2>1. n = 1 \/ n = 2 \/ n = 3 \/ n = 4 \/ n = 5 BY <1>1, SMT
  <2>2. QED BY <1>1, <2>1, SMT DEF BackoffDelay
<1>2. CASE n \notin 1 .. 5 BY <1>2, SMT DEF BackoffDelay, Hour
<1>3. QED BY <1>1, <1>2

LEMMA CcInvInit == CcInit => CcInv
<1> SUFFICES ASSUME CcInit PROVE CcInv OBVIOUS
<1>1. PICK e \in Envelopes : hours = Clamped(e) BY DEF CcInit
<1>2. e \in Envelope BY ClockAssumption DEF ClockAssumption
<1>3. HoursInside BY <1>1, <1>2, ClampIsStricter DEF HoursInside
<1>4. CcTypeOK
  BY <1>3, ClockAssumption, SMT DEF CcInit, CcTypeOK, ClockAssumption, HoursInside, Opens
<1>5. InOrder /\ Rested /\ DialedInHours /\ DialedInMeasure
  BY SMT DEF CcInit, InOrder, Rested, DialedInHours, DialedInMeasure
<1>6. Asleep BY <1>4, SMT DEF CcInit, Asleep, CcTypeOK
<1>7. QED BY <1>3, <1>4, <1>5, <1>6 DEF CcInv

\* The loop going to sleep disturbs nothing but the reason it sleeps for.
LEMMA SleepingKeeps ==
    ASSUME CcInv, NEW t \in Int, Sleeps(t), Asleep'
    PROVE  CcInv'
<1>1. CcTypeOK' BY SMT DEF CcInv, CcTypeOK, Sleeps
<1>2. HoursInside' /\ InOrder' /\ Rested' /\ DialedInHours' /\ DialedInMeasure'
  BY DEF CcInv, Sleeps, HoursInside, InOrder, Rested, DialedInHours, DialedInMeasure
<1>3. QED BY <1>1, <1>2 DEF CcInv

LEMMA AwakeReason ==
    ASSUME CcInv, NEW t \in Int, Sleeps(t), t <= ticks
    PROVE  Asleep'
BY SMT DEF CcInv, CcTypeOK, Sleeps, Asleep

LEMMA OutsideHoursKeeps == ASSUME CcInv, OutsideHours PROVE CcInv'
<1>1. ticks \in Nat /\ Opens(hours) BY DEF CcInv, CcTypeOK, HoursInside
<1>2. CASE InFlight = {}
  <2>1. Sleeps(NextOpen(ticks, hours)) BY <1>2 DEF OutsideHours
  <2>2. NextOpen(ticks, hours) \in Nat BY <1>1, NextOpenIsFirst
  <2>3. \A u \in Nat : ticks <= u /\ u < NextOpen(ticks, hours) => ~WithinHours(u, hours)
    BY <1>1, NextOpenIsFirst
  <2>4. SleepsForHours' BY <1>2, <2>1, <2>3 DEF Sleeps, SleepsForHours, InFlight, WithinHours, HourOf
  <2>5. QED BY <2>1, <2>2, <2>4, SleepingKeeps DEF Asleep
<1>3. CASE InFlight # {}
  <2>1. Sleeps(OnCall) BY <1>3 DEF OutsideHours
  <2>2. OnCall \in Int /\ OnCall <= ticks BY <1>1, SMT DEF OnCall
  <2>3. QED BY <2>1, <2>2, AwakeReason, SleepingKeeps
<1>4. QED BY <1>2, <1>3

LEMMA DialsAreTyped ==
    ASSUME dials \in Seq([who : People, at : Nat]), NEW i \in DOMAIN dials
    PROVE  dials[i].who \in People /\ dials[i].at \in Nat
<1>1. i \in 1 .. Len(dials) BY LenProperties
<1>2. dials[i] \in [who : People, at : Nat] BY <1>1, ElementOfSeq
<1>3. QED BY <1>2

LEMMA RecentIsFinite ==
    ASSUME dials \in Seq([who : People, at : Nat]), NEW t
    PROVE  IsFiniteSet(RecentAt(t))
<1>1. DOMAIN dials = 1 .. Len(dials) /\ Len(dials) \in Nat BY LenProperties
<1>2. IsFiniteSet(1 .. Len(dials)) BY <1>1, FS_Interval, SMT
<1>3. RecentAt(t) \subseteq 1 .. Len(dials) BY <1>1 DEF RecentAt
<1>4. QED BY <1>2, <1>3, FS_Subset

LEMMA RateBoundKeeps == ASSUME CcInv, RateBound PROVE CcInv'
<1>1. ticks \in Nat /\ dials \in Seq([who : People, at : Nat]) BY DEF CcInv, CcTypeOK
<1>2. PICK i \in RecentAt(ticks) :
         (\A j \in RecentAt(ticks) : i <= j) /\ Sleeps(dials[i].at + 60)
  BY DEF RateBound
<1>3. i \in DOMAIN dials BY <1>2 DEF RecentAt
<1>4. dials[i].at \in Nat BY <1>1, <1>3, DialsAreTyped
<1>5. ASSUME NEW t \in Nat, ticks <= t, t < dials[i].at + 60 PROVE Full(t)
  <2>1. RecentAt(ticks) \subseteq RecentAt(t)
    <3> SUFFICES ASSUME NEW j \in RecentAt(ticks) PROVE j \in RecentAt(t) OBVIOUS
    <3>1. j \in DOMAIN dials /\ i <= j BY <1>2 DEF RecentAt
    <3>2. dials[j].at \in Nat BY <1>1, <3>1, DialsAreTyped
    <3>3. dials[i].at <= dials[j].at BY <1>3, <3>1 DEF CcInv, InOrder
    <3>4. dials[j].at > t - 60 BY <1>4, <1>5, <3>2, <3>3, SMT
    <3>5. QED BY <3>1, <3>4 DEF RecentAt
  <2>2. IsFiniteSet(RecentAt(t)) BY RecentIsFinite, <1>1
  <2>3. /\ Cardinality(RecentAt(ticks)) <= Cardinality(RecentAt(t))
        /\ IsFiniteSet(RecentAt(ticks))
    BY <2>1, <2>2, FS_Subset
  <2>4. Cardinality(RecentAt(ticks)) \in Nat /\ Cardinality(RecentAt(t)) \in Nat
    BY <2>2, <2>3, FS_CardinalityType
  <2>5. Cardinality(RecentAt(ticks)) >= PerMinute BY DEF RateBound, Full
  <2>6. PerMinute \in Nat BY ClockAssumption DEF ClockAssumption
  <2>7. QED BY <2>3, <2>4, <2>5, <2>6, SMT DEF Full
<1>6. SleepsForARate'
  BY <1>2, <1>5 DEF Sleeps, SleepsForARate, Full, RecentAt
<1>7. QED BY <1>2, <1>4, <1>6, SleepingKeeps, SMT DEF Asleep

LEMMA NothingEligibleKeeps == ASSUME CcInv, NothingEligible PROVE CcInv'
<1>1. ticks \in Nat /\ book \in [People -> [state : {"queued", "dialing", "done"},
                                          attempts : Nat, at : Nat]]
  BY DEF CcInv, CcTypeOK
<1>2. CASE InFlight # {}
  <2>1. Sleeps(OnCall) BY <1>2 DEF NothingEligible
  <2>2. OnCall \in Int /\ OnCall <= ticks BY <1>1, SMT DEF OnCall
  <2>3. QED BY <2>1, <2>2, AwakeReason, SleepingKeeps
<1>3. CASE InFlight = {}
  <2>1. PICK t \in Times : (\A u \in Times : t <= u) /\ Sleeps(t)
    BY <1>3 DEF NothingEligible
  <2>2. t \in Nat BY <1>1 DEF Times
  <2>3. \A p \in People : book[p].state = "queued" => book[p].at \in Times /\ book[p].at \in Nat
    BY <1>1 DEF Times
  <2>4. \A p \in People : book[p].state = "queued" => book[p].at >= t
    BY <2>1, <2>2, <2>3, SMT
  <2>5. SleepsForALead' BY <1>3, <2>1, <2>4 DEF Sleeps, SleepsForALead, InFlight
  <2>6. QED BY <2>1, <2>2, <2>5, SleepingKeeps, SMT DEF Asleep
<1>4. QED BY <1>2, <1>3

LEMMA TimePassesKeeps ==
    ASSUME CcInv, NEW late \in Delays, TimePasses(late)
    PROVE  CcInv'
<1>1. late \in Nat BY ClockAssumption DEF ClockAssumption
<1>2. PICK t \in Awaited : t > ticks /\ ticks' = t + late BY DEF TimePasses
<1>3. t \in Int BY <1>2, SMT DEF Awaited, InFlight, CcInv, CcTypeOK
<1>4. ticks \in Nat /\ ticks' \in Nat /\ ticks <= ticks'
  BY <1>1, <1>2, <1>3, SMT DEF CcInv, CcTypeOK
<1>5. UNCHANGED <<hours, book, dials, wake>> BY DEF TimePasses
<1>6. CcTypeOK' BY <1>4, <1>5 DEF CcInv, CcTypeOK
<1>7. HoursInside' /\ Rested' /\ DialedInHours' /\ DialedInMeasure'
  BY <1>5 DEF CcInv, HoursInside, Rested, DialedInHours, DialedInMeasure
<1>8. InOrder'
  <2>1. \A i \in DOMAIN dials : dials[i].at \in Nat
    BY DialsAreTyped DEF CcInv, CcTypeOK
  <2>2. QED BY <1>4, <1>5, <2>1, SMT DEF CcInv, InOrder
<1>9. Asleep'
  <2> SUFFICES ASSUME wake > ticks'
               PROVE  SleepsForARate' \/ SleepsForHours' \/ SleepsForALead'
    BY <1>5 DEF Asleep
  <2>1. wake > ticks BY <1>4, <1>5, SMT DEF CcInv, CcTypeOK
  <2>2. CASE SleepsForARate
    BY <1>4, <1>5, <2>2, SMT DEF SleepsForARate, Full, RecentAt
  <2>3. CASE SleepsForHours
    BY <1>4, <1>5, <2>3, SMT DEF SleepsForHours, InFlight, WithinHours, HourOf
  <2>4. CASE SleepsForALead
    BY <1>5, <2>4 DEF SleepsForALead, InFlight
  <2>5. QED BY <2>1, <2>2, <2>3, <2>4 DEF CcInv, Asleep
<1>10. QED BY <1>6, <1>7, <1>8, <1>9 DEF CcInv

LEMMA CallEndsKeeps ==
    ASSUME CcInv, NEW p \in People, NEW answered \in BOOLEAN, CallEnds(p, answered)
    PROVE  CcInv'
<1>1. /\ ticks \in Nat /\ hours \in Envelope /\ Opens(hours)
      /\ book \in [People -> [state : {"queued", "dialing", "done"}, attempts : Nat, at : Nat]]
      /\ dials \in Seq([who : People, at : Nat]) /\ wake \in Int
  BY DEF CcInv, CcTypeOK, HoursInside
<1>2. UNCHANGED <<ticks, hours, dials>> BY DEF CallEnds
<1>3. book[p].state = "dialing" BY DEF CallEnds, InFlight
<1> DEFINE later == ticks + BackoffDelay(book[p].attempts)
           next == NextOpen(later, hours)
<1>4. later \in Nat /\ later >= ticks + 300
  <2>1. book[p].attempts \in Nat BY <1>1
  <2> DEFINE rest == BackoffDelay(book[p].attempts)
  <2>2. rest \in Nat /\ rest >= 300 BY <2>1, BackoffIsARest
  <2> HIDE DEF rest
  <2>3. ticks + rest \in Nat /\ ticks + rest >= ticks + 300 BY <1>1, <2>2, SMT
  <2>4. QED BY <2>3 DEF rest
<1>5. next \in Nat /\ later <= next BY <1>1, <1>4, NextOpenIsFirst
<1> HIDE DEF later, next
<1>6. \/ book' = [book EXCEPT ![p] = [book[p] EXCEPT !.state = "done"]]
      \/ book' = [book EXCEPT ![p] = [state |-> "queued", attempts |-> book[p].attempts,
                                      at |-> next]]
  BY <1>1 DEF CallEnds, later, next
<1>7. wake' \in Int /\ (wake' = wake \/ wake' = ticks) BY <1>1 DEF CallEnds
<1>8. book' \in [People -> [state : {"queued", "dialing", "done"}, attempts : Nat, at : Nat]]
  <2>1. [state |-> "queued", attempts |-> book[p].attempts, at |-> next]
           \in [state : {"queued", "dialing", "done"}, attempts : Nat, at : Nat]
    BY <1>1, <1>5
  <2>2. [book[p] EXCEPT !.state = "done"]
           \in [state : {"queued", "dialing", "done"}, attempts : Nat, at : Nat]
    BY <1>1
  <2>3. QED BY <1>1, <1>6, <2>1, <2>2
<1>9. CcTypeOK' BY <1>1, <1>2, <1>7, <1>8 DEF CcTypeOK
<1>10. HoursInside' /\ InOrder' /\ DialedInHours' /\ DialedInMeasure'
  BY <1>2 DEF CcInv, HoursInside, InOrder, DialedInHours, DialedInMeasure
<1>11. Rested'
  <2> SUFFICES ASSUME NEW i \in DOMAIN dials, book'[dials[i].who].state = "queued"
               PROVE  book'[dials[i].who].at >= dials[i].at + 300
    BY <1>2 DEF Rested
  <2>1. dials[i].who \in People /\ dials[i].at \in Nat /\ dials[i].at <= ticks
    BY <1>1, DialsAreTyped DEF CcInv, InOrder
  <2>2. CASE dials[i].who # p
    <3>1. book'[dials[i].who] = book[dials[i].who] BY <1>1, <1>6, <2>1, <2>2
    <3>2. QED BY <3>1 DEF CcInv, Rested
  <2>3. CASE dials[i].who = p
    <3>1. book'[p].at = next BY <1>1, <1>6, <2>3
    <3> DEFINE dialed == dials[i].at
    <3>2. dialed \in Nat /\ dialed <= ticks /\ ticks \in Nat BY <1>1, <2>1
    <3> HIDE DEF dialed
    <3>3. next >= dialed + 300 BY <1>4, <1>5, <3>2, SMT
    <3>4. QED BY <2>3, <3>1, <3>3 DEF dialed
  <2>4. QED BY <2>2, <2>3
<1>12. Asleep'
  <2> SUFFICES ASSUME wake' > ticks'
               PROVE  SleepsForARate' \/ SleepsForHours' \/ SleepsForALead'
    BY DEF Asleep
  <2>1. wake' = wake /\ wake > ticks BY <1>1, <1>2, <1>7, SMT
  <2>2. InFlight # {} BY DEF CallEnds
  <2>3. SleepsForARate BY <2>1, <2>2 DEF CcInv, Asleep, SleepsForHours, SleepsForALead
  <2>4. SleepsForARate' BY <1>2, <2>1, <2>3 DEF SleepsForARate, Full, RecentAt
  <2>5. QED BY <2>4
<1>13. QED BY <1>9, <1>10, <1>11, <1>12 DEF CcInv

LEMMA EnvelopeTyped == ASSUME NEW e \in Envelope PROVE e.from \in Nat /\ e.to \in Nat
<1>1. e.from \in 0 .. 24 /\ e.to \in 0 .. 24 BY DEF Envelope
<1>2. QED BY <1>1, SMT

LEMMA DialsKeeps ==
    ASSUME CcInv, NEW p \in People, Dials(p)
    PROVE  CcInv'
<1> DEFINE n == Len(dials)
<1>1. /\ ticks \in Nat /\ hours \in Envelope /\ Opens(hours)
      /\ book \in [People -> [state : {"queued", "dialing", "done"}, attempts : Nat, at : Nat]]
      /\ dials \in Seq([who : People, at : Nat]) /\ wake \in Int
  BY DEF CcInv, CcTypeOK, HoursInside
<1>0. ticks \in Nat BY <1>1
<1>2. /\ UNCHANGED <<ticks, hours, wake>>
      /\ dials' = Append(dials, [who |-> p, at |-> ticks])
      /\ wake <= ticks /\ ~Full(ticks) /\ WithinHours(ticks, hours)
      /\ book[p].state = "queued" /\ book[p].at <= ticks
  BY DEF Dials, MayDial, Awake, Eligible
<1>3. PICK d \in Durations :
        book' = [book EXCEPT ![p] =
                   [state |-> "dialing", attempts |-> @.attempts + 1, at |-> ticks + d]]
  BY DEF Dials
<1>4. d \in Nat BY ClockAssumption DEF ClockAssumption
<1>5. /\ n \in Nat /\ DOMAIN dials = 1 .. n /\ DOMAIN dials' = 1 .. (n + 1)
      /\ dials' \in Seq([who : People, at : Nat])
      /\ \A i \in 1 .. n : dials'[i] = dials[i]
      /\ dials'[n + 1] = [who |-> p, at |-> ticks]
  BY <1>1, <1>2, AppendProperties, LenProperties
<1> HIDE DEF n
<1>6. \A i \in 1 .. n : dials[i].who \in People /\ dials[i].at \in Nat /\ dials[i].at <= ticks
  BY <1>1, <1>5, DialsAreTyped DEF CcInv, InOrder
<1>7. CcTypeOK'
  <2>1. book' \in [People -> [state : {"queued", "dialing", "done"}, attempts : Nat, at : Nat]]
    BY <1>1, <1>3, <1>4
  <2>2. QED BY <1>1, <1>2, <1>5, <2>1 DEF CcTypeOK
<1>8. HoursInside' BY <1>2 DEF CcInv, HoursInside
<1>9. InOrder' BY <1>1, <1>2, <1>5, <1>6, SMT DEF CcInv, InOrder
<1>10. Rested'
  <2> SUFFICES ASSUME NEW i \in 1 .. (n + 1), book'[dials'[i].who].state = "queued"
               PROVE  book'[dials'[i].who].at >= dials'[i].at + 300
    BY <1>5 DEF Rested
  <2>1. dials'[i].who # p BY <1>1, <1>3
  <2>2. i \in 1 .. n BY <1>5, <2>1, SMT
  <2>3. book'[dials[i].who] = book[dials[i].who] BY <1>1, <1>3, <1>5, <1>6, <2>1, <2>2
  <2>4. QED BY <1>5, <2>2, <2>3 DEF CcInv, Rested
<1>11. Asleep' BY <1>1, <1>2, SMT DEF Asleep
<1>12. DialedInHours'
  <2>1. WithinHours(ticks, Locked)
    <3>1. HourOf(ticks) \in Nat BY <1>1, WindowInSeconds
    <3>2. /\ Locked.from \in Nat /\ Locked.to \in Nat
          /\ hours.from \in Nat /\ hours.to \in Nat
      BY <1>1, EnvelopeTyped, ClockAssumption DEF ClockAssumption
    <3>3. Locked.from <= hours.from /\ hours.to <= Locked.to BY DEF CcInv, HoursInside
    <3>4. QED BY <1>2, <3>1, <3>2, <3>3, SMT DEF WithinHours
  <2>2. \A i \in 1 .. n : WithinHours(dials[i].at, hours) /\ WithinHours(dials[i].at, Locked)
    BY <1>5 DEF CcInv, DialedInHours
  <2> SUFFICES ASSUME NEW i \in 1 .. (n + 1)
               PROVE  WithinHours(dials'[i].at, hours) /\ WithinHours(dials'[i].at, Locked)
    BY <1>2, <1>5 DEF DialedInHours, WithinHours, HourOf
  <2>3. CASE i \in 1 .. n BY <1>5, <2>2, <2>3
  <2>4. CASE i = n + 1 BY <1>2, <1>5, <2>1, <2>4
  <2>5. QED BY <1>5, <2>3, <2>4, SMT
<1>13. DialedInMeasure'
  <2>1. ASSUME NEW i \in 1 .. (n + 1), i + PerMinute \in 1 .. (n + 1)
        PROVE  dials'[i + PerMinute].at - dials'[i].at >= 60
    <3>1. PerMinute \in Nat \ {0} BY ClockAssumption DEF ClockAssumption
    <3>2. i \in 1 .. n BY <1>5, <2>1, <3>1, SMT
    <3>3. CASE i + PerMinute \in 1 .. n
      BY <1>5, <3>2, <3>3 DEF CcInv, DialedInMeasure
    <3>4. CASE i + PerMinute = n + 1
      <4>a. dials'[i + PerMinute].at = ticks /\ dials'[i].at = dials[i].at
        BY <1>5, <3>2, <3>4
      <4>b. dials[i].at \in Nat BY <1>6, <3>2
      <4> DEFINE since == ticks - dials[i].at
      <4>c. since \in Int BY <1>0, <4>b, SMT
      <4>d. dials'[i + PerMinute].at - dials'[i].at = since BY <4>a
      <4> HIDE DEF since
      <4> SUFFICES ASSUME since < 60 PROVE FALSE
        BY <4>c, <4>d, SMT
      <4>1. i .. n \subseteq RecentAt(ticks)
        <5> SUFFICES ASSUME NEW j \in i .. n PROVE j \in RecentAt(ticks) OBVIOUS
        <5>1. j \in 1 .. n /\ i <= j BY <3>2, SMT
        <5>2. dials[i].at <= dials[j].at BY <1>5, <3>2, <5>1 DEF CcInv, InOrder
        <5>3. dials[j].at \in Nat BY <1>6, <5>1
        <5>4. dials[j].at > ticks - 60 BY <1>0, <4>b, <5>2, <5>3, SMTT(30) DEF since
        <5>5. QED BY <1>5, <5>1, <5>4 DEF RecentAt
      <4>2. IsFiniteSet(RecentAt(ticks)) BY <1>1, RecentIsFinite
      <4>3. Cardinality(i .. n) <= Cardinality(RecentAt(ticks)) BY <4>1, <4>2, FS_Subset
      <4>4. Cardinality(i .. n) = PerMinute
        <5>1. i \in Int /\ n \in Int /\ ~(i > n) BY <1>5, <3>2, SMT
        <5>2. Cardinality(i .. n) = n - i + 1 BY <5>1, FS_Interval
        <5>3. QED BY <1>5, <3>1, <3>2, <3>4, <5>2, SMT
      <4>5. Cardinality(RecentAt(ticks)) \in Nat BY <4>2, FS_CardinalityType
      <4>6. QED BY <1>2, <3>1, <4>3, <4>4, <4>5, SMT DEF Full
    <3>5. QED BY <1>5, <2>1, <3>1, <3>3, <3>4, SMT
  <2>2. ASSUME NEW i \in 1 .. (n + 1), NEW j \in 1 .. (n + 1), i < j, dials'[i].who = dials'[j].who
        PROVE  dials'[j].at - dials'[i].at >= 300
    <3>1. i \in 1 .. n BY <1>5, <2>2, SMT
    <3>2. CASE j \in 1 .. n
      BY <1>5, <2>2, <3>1, <3>2 DEF CcInv, DialedInMeasure
    <3>3. CASE j = n + 1
      <4>1. dials[i].who = p /\ dials'[j].at = ticks BY <1>5, <2>2, <3>1, <3>3
      <4>2. book[p].at >= dials[i].at + 300 BY <1>2, <1>5, <3>1, <4>1 DEF CcInv, Rested
      <4>3. dials'[i].at = dials[i].at /\ dials[i].at \in Nat BY <1>5, <1>6, <3>1
      <4>4. book[p].at \in Nat BY <1>1
      <4>5. book[p].at <= ticks BY <1>2
      <4>6. ticks - dials[i].at >= 300 BY <1>0, <4>2, <4>3, <4>4, <4>5, SMT
      <4>7. QED BY <4>1, <4>3, <4>6
    <3>4. QED BY <1>5, <3>2, <3>3, SMT
  <2>3. QED BY <1>5, <2>1, <2>2 DEF DialedInMeasure
<1>14. QED BY <1>7, <1>8, <1>9, <1>10, <1>11, <1>12, <1>13 DEF CcInv

LEMMA CcInvNext == CcInv /\ [CcNext]_clockVars => CcInv'
<1> SUFFICES ASSUME CcInv, [CcNext]_clockVars PROVE CcInv' OBVIOUS
<1>1. ticks \in Nat BY DEF CcInv, CcTypeOK
<1>2. CASE Completes
  BY <1>1, <1>2, AwakeReason, SleepingKeeps, SMT DEF Completes, Finished
<1>3. CASE OutsideHours BY <1>3, OutsideHoursKeeps
<1>4. CASE AtTheCap
  BY <1>1, <1>4, AwakeReason, SleepingKeeps, SMT DEF AtTheCap, OnCall
<1>5. CASE RateBound BY <1>5, RateBoundKeeps
<1>6. CASE NothingEligible BY <1>6, NothingEligibleKeeps
<1>7. ASSUME NEW p \in People, Dials(p) PROVE CcInv' BY <1>7, DialsKeeps
<1>8. ASSUME NEW p \in People, NEW answered \in BOOLEAN, CallEnds(p, answered) PROVE CcInv'
  BY <1>8, CallEndsKeeps
<1>9. ASSUME NEW late \in Delays, TimePasses(late) PROVE CcInv' BY <1>9, TimePassesKeeps
<1>10. CASE UNCHANGED clockVars
  <2>1. UNCHANGED <<ticks, hours, book, dials, wake>> BY <1>10 DEF clockVars
  <2>2. CcTypeOK' /\ HoursInside' /\ InOrder' /\ Rested' /\ DialedInHours' /\ DialedInMeasure'
    BY <2>1 DEF CcInv, CcTypeOK, HoursInside, InOrder, Rested, DialedInHours, DialedInMeasure
  <2>3. (Asleep <=> Asleep')
    BY <2>1 DEF Asleep, InFlight, SleepsForARate, SleepsForHours, SleepsForALead, Full, RecentAt
  <2>4. QED BY <2>2, <2>3 DEF CcInv
<1>11. QED BY <1>2, <1>3, <1>4, <1>5, <1>6, <1>7, <1>8, <1>9, <1>10 DEF CcNext

\* The rows, the stamps and the loop's next waking stay in step (runner.py, run).
THEOREM ClockInvariant == CcSpec => []CcInv
<1>1. CcInit => CcInv BY CcInvInit
<1>2. CcInv /\ [CcNext]_clockVars => CcInv' BY CcInvNext
<1>3. QED BY <1>1, <1>2, PTL DEF CcSpec

\* Every dial keeps the hours, the rate and the rest of its person, and the loop never
\* sleeps past an instant at which it could have dialed.
THEOREM DialsKeepTheClock == CcSpec => []DialsAreTimely
<1>1. CcInv => DialsAreTimely
  <2> SUFFICES ASSUME CcInv, wake > ticks, InFlight = {},
                      NEW t \in Turning, ticks <= t, t < wake, Possible(t)
               PROVE  FALSE
    BY DEF DialsAreTimely, CcInv
  <2>1. t \in Nat
    <3>0. hours.from \in Nat BY EnvelopeTyped DEF CcInv, CcTypeOK
    <3>1. /\ ticks \in Nat /\ hours.from \in Nat
          /\ book \in [People -> [state : {"queued", "dialing", "done"}, attempts : Nat, at : Nat]]
          /\ dials \in Seq([who : People, at : Nat])
      BY <3>0 DEF CcInv, CcTypeOK
    <3>2. CASE t \in {ticks} \cup Times BY <3>1, <3>2 DEF Times
    <3>3. CASE t \in {dials[i].at + 60 : i \in DOMAIN dials}
      <4>1. PICK i \in DOMAIN dials : t = dials[i].at + 60 BY <3>3
      <4>2. dials[i].at \in Nat BY <3>1, DialsAreTyped
      <4>3. QED BY <4>1, <4>2, SMT
    <3>4. CASE t \in {ticks - (ticks % Day) + hours.from * Hour + n * Day : n \in 0 .. 2}
      <4>1. PICK n \in 0 .. 2 : t = ticks - (ticks % Day) + hours.from * Hour + n * Day
        BY <3>4
      <4>2. ticks % Day \in Nat BY <3>1, DayOf
      <4>3. t \in Int BY <3>1, <4>1, <4>2, SMT DEF Hour, Day
      <4>4. QED BY <3>1, <4>3, SMT
    <3>5. QED BY <3>2, <3>3, <3>4 DEF Turning
  <2>2. ~SleepsForARate BY <2>1 DEF SleepsForARate, Possible
  <2>3. ~SleepsForHours BY <2>1 DEF SleepsForHours, Possible
  <2>4. ~SleepsForALead
    <3>1. PICK p \in People : book[p].state = "queued" /\ book[p].at <= t BY DEF Possible
    <3>2. book[p].at \in Nat /\ wake \in Int BY DEF CcInv, CcTypeOK
    <3>3. QED BY <2>1, <3>1, <3>2, SMT DEF SleepsForALead
  <2>5. QED BY <2>2, <2>3, <2>4 DEF CcInv, Asleep
<1>2. QED BY <1>1, ClockInvariant, PTL
=============================================================================

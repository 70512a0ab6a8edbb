-------------------------- MODULE OperationsProofs --------------------------
(***************************************************************************)
(* Theorems about what runs around a campaign, for every value of the      *)
(* constants.  Each part is proved against its own specification; a        *)
(* behaviour of Operations is a behaviour of each part, since a step of    *)
(* one leaves the others where they are.                                   *)
(***************************************************************************)
EXTENDS Operations, CampaignClockProofs

(***************************************************************************)
(* A behaviour of the whole is one of every part.                          *)
(***************************************************************************)
LEMMA EngineIsAPart == Spec => EngineSpec
<1>1. Init => EngineInit BY DEF Init
<1>2. [Next]_operationsVars => [EngineNext]_engineVars
  BY DEF Next, operationsVars, engineVars
<1>3. QED BY <1>1, <1>2, PTL DEF Spec, EngineSpec

LEMMA AutoPauseIsAPart == Spec => ApSpec
<1>1. Init => ApInit BY DEF Init
<1>2. [Next]_operationsVars => [ApNext]_apVars
  BY DEF Next, operationsVars, apVars
<1>3. QED BY <1>1, <1>2, PTL DEF Spec, ApSpec

LEMMA WorkflowsAreAPart == Spec => WfSpec
<1>1. Init => WfInit BY DEF Init
<1>2. [Next]_operationsVars => [WfNext]_wfVars
  BY DEF Next, operationsVars, wfVars
<1>3. QED BY <1>1, <1>2, PTL DEF Spec, WfSpec

LEMMA PreviewIsAPart == Spec => PreviewSpec
<1>1. Init => PreviewInit BY DEF Init
<1>2. [Next]_operationsVars => [PreviewNext]_previewVars
  BY DEF Next, operationsVars, previewVars
<1>3. QED BY <1>1, <1>2, PTL DEF Spec, PreviewSpec

LEMMA ModerationIsAPart == Spec => ModerationSpec
<1>1. Init => ModerationInit BY DEF Init
<1>2. [Next]_operationsVars => [ModerationNext]_moderationVars
  BY DEF Next, operationsVars, moderationVars
<1>3. QED BY <1>1, <1>2, PTL DEF Spec, ModerationSpec

LEMMA LoginIsAPart == Spec => LoginSpec
<1>1. Init => LoginInit BY DEF Init
<1>2. [Next]_operationsVars => [LoginNext]_loginVars
  BY DEF Next, operationsVars, loginVars
<1>3. QED BY <1>1, <1>2, PTL DEF Spec, LoginSpec

LEMMA ClockIsAPart == Spec => CcSpec
<1>1. Init => CcInit BY DEF Init
<1>2. [Next]_operationsVars => [CcNext]_clockVars
  BY DEF Next, operationsVars, clockVars
<1>3. QED BY <1>1, <1>2, PTL DEF Spec, CcSpec

LEMMA DashboardIsAPart == Spec => DashSpec
<1>1. Init => DashInit BY DEF Init
<1>2. [Next]_operationsVars => [DashNext \/ (FeedNext /\ UNCHANGED <<state, dash>>)]_dashVars
  BY DEF Next, operationsVars, dashVars
<1>3. QED BY <1>1, <1>2, PTL DEF Spec, DashSpec

(***************************************************************************)
(* Sequences.                                                              *)
(***************************************************************************)
LEMMA PrefixIsPointwise ==
    ASSUME NEW S, NEW s \in Seq(S), NEW t \in Seq(S), IsPrefix(s, t)
    PROVE  Len(s) <= Len(t) /\ \A i \in 1 .. Len(s) : s[i] = t[i]
<1>1. Len(s) \in Nat /\ Len(t) \in Nat BY LenProperties
<1>2. Len(s) <= Len(t) /\ SubSeq(s, 1, Len(s)) = SubSeq(t, 1, Len(s)) BY DEF IsPrefix
<1>3. SubSeq(s, 1, Len(s)) = s BY SubSeqFull
<1>4. \A i \in 1 .. Len(s) : SubSeq(t, 1, Len(s))[i] = t[i]
  <2>1. \A i \in 1 .. Len(s) : t[i] \in S BY <1>1, <1>2, ElementOfSeq
  <2>2. QED BY <1>1, <2>1, SubSeqProperties
<1>5. QED BY <1>2, <1>3, <1>4

LEMMA SomeElement == ASSUME NEW S, NEW s \in Seq(S), Len(s) >= 1 PROVE s # <<>>
OBVIOUS

LEMMA SeqsGrow == ASSUME NEW S, NEW T, S \subseteq T PROVE Seq(S) \subseteq Seq(T)
<1> SUFFICES ASSUME NEW s \in Seq(S) PROVE s \in Seq(T) OBVIOUS
<1>1. Len(s) \in Nat /\ s \in [1 .. Len(s) -> S] BY LenProperties
<1>2. s \in [1 .. Len(s) -> T] BY <1>1
<1>3. QED BY <1>1, <1>2, SeqDef

LEMMA StartOf ==
    ASSUME NEW S, NEW s \in Seq(S), NEW n \in 0 .. Len(s)
    PROVE  /\ SubSeq(s, 1, n) \in Seq(S) /\ Len(SubSeq(s, 1, n)) = n
           /\ \A i \in 1 .. n : SubSeq(s, 1, n)[i] = s[i]
<1>1. Len(s) \in Nat BY LenProperties
<1>2. \A i \in 1 .. n : s[i] \in S BY <1>1, ElementOfSeq
<1>3. QED BY <1>1, <1>2, SubSeqProperties

(***************************************************************************)
(* The moderator.                                                          *)
(***************************************************************************)
Moderators == [text : Seq(Words), screened : Nat, at : Int, verdict : {"allow", "flag", "block"}]

\* A harmful phrase within the first n words.
HarmWithin(text, n) ==
    \E i, j \in 1 .. n :
        /\ text[i] = "promise" /\ text[j] = "discount" /\ j - i - 1 \in 0 .. MaxGap
        /\ \A k \in 1 .. n : i < k /\ k < j => text[k] # "stop"

\* A screening is of some words, and only a screening blocks.
WasScreened(memory) ==
    /\ memory.at # Unchecked => memory.screened >= 1
    /\ memory.verdict = "block" => memory.at # Unchecked

\* A memory that has not blocked: what was screened is clean.
CleanSoFar(memory) ==
    /\ memory \in Moderators /\ memory.screened <= Len(memory.text) /\ WasScreened(memory)
    /\ memory.verdict # "block" => ~HarmWithin(memory.text, memory.screened)

\* A memory of words heard at time t: some of them were screened, and those that were
\* not are fewer than the debounce and came sooner than the interval.
Debounced(memory, t) ==
    memory.text # <<>> =>
       /\ memory.screened >= 1
       /\ memory.verdict # "block" =>
             Len(memory.text) - memory.screened < MinNew /\ t - memory.at < MinInterval

\* What was screened is clean, and what was not is within the debounce.
ModerationInv ==
    /\ CleanSoFar(moderator) /\ Debounced(moderator, heard)
    /\ now \in Nat /\ moderator.at \in Unchecked .. now /\ heard \in 0 .. now
    /\ Len(moderator.text) <= MaxWords

LEMMA SameHarm ==
    ASSUME NEW n \in Nat, NEW s, NEW t, \A i \in 1 .. n : s[i] = t[i]
    PROVE  HarmWithin(s, n) => HarmWithin(t, n)
<1> SUFFICES ASSUME HarmWithin(s, n) PROVE HarmWithin(t, n)
  OBVIOUS
<1>1. PICK i \in 1 .. n, j \in 1 .. n :
         /\ s[i] = "promise" /\ s[j] = "discount" /\ j - i - 1 \in 0 .. MaxGap
         /\ \A k \in 1 .. n : i < k /\ k < j => s[k] # "stop"
  BY DEF HarmWithin
<1>2. /\ t[i] = "promise" /\ t[j] = "discount" /\ j - i - 1 \in 0 .. MaxGap
      /\ \A k \in 1 .. n : i < k /\ k < j => t[k] # "stop"
  BY <1>1
<1>3. QED BY <1>2 DEF HarmWithin

LEMMA RememberedIsClean ==
    ASSUME ModerationInv, NEW text \in Seq(Words)
    PROVE  /\ Remembered(text) \in Moderators
           /\ Remembered(text).at \in Unchecked .. now
           /\ Remembered(text).screened <= Len(text)
           /\ WasScreened(Remembered(text))
           /\ Remembered(text).verdict # "block" => ~HarmWithin(text, Remembered(text).screened)
<1>1. CASE IsPrefix(moderator.text, text)
  <2>1. Remembered(text) = moderator BY <1>1 DEF Remembered
  <2>2. moderator.text \in Seq(Words) BY DEF ModerationInv, CleanSoFar, Moderators
  <2>3. /\ Len(moderator.text) <= Len(text)
        /\ \A i \in 1 .. Len(moderator.text) : moderator.text[i] = text[i]
    BY <1>1, <2>2, PrefixIsPointwise
  <2>4. Len(moderator.text) \in Nat /\ Len(text) \in Nat BY <2>2, LenProperties
  <2>5. moderator.screened \in Nat /\ moderator.screened <= Len(moderator.text)
    BY DEF ModerationInv, CleanSoFar, Moderators
  <2>6. HarmWithin(text, moderator.screened) => HarmWithin(moderator.text, moderator.screened)
    <3>1. \A i \in 1 .. moderator.screened : text[i] = moderator.text[i] BY <2>3, <2>4, <2>5
    <3>2. QED BY <2>5, <3>1, SameHarm
  <2>7. WasScreened(moderator) /\ moderator \in Moderators /\ moderator.at \in Unchecked .. now
        /\ (moderator.verdict # "block" => ~HarmWithin(moderator.text, moderator.screened))
    BY DEF ModerationInv, CleanSoFar
  <2>8. moderator.screened <= Len(text) BY <2>3, <2>4, <2>5
  <2>9. QED BY <2>1, <2>6, <2>7, <2>8
<1>2. CASE ~IsPrefix(moderator.text, text)
  <2>1. Remembered(text) = Forgotten BY <1>2 DEF Remembered
  <2>2. Len(text) \in Nat BY LenProperties
  <2>3. <<>> \in Seq(Words) BY EmptySeq
  <2>4. QED BY <2>1, <2>2, <2>3 DEF Forgotten, Unchecked, Moderators, HarmWithin, ModerationInv, WasScreened
<1>3. QED BY <1>1, <1>2

LEMMA HarmIsTouched ==
    ASSUME NEW text \in Seq(Words), NEW n \in 0 .. Len(text)
    PROVE  TouchesGuardrail(SubSeq(text, 1, n)) <=> HarmWithin(text, n)
<1>1. Len(SubSeq(text, 1, n)) = n /\ \A i \in 1 .. n : SubSeq(text, 1, n)[i] = text[i]
  BY StartOf
<1>2. DOMAIN SubSeq(text, 1, n) = 1 .. n BY <1>1, StartOf, LenProperties
<1>3. PICK start : start = SubSeq(text, 1, n) OBVIOUS
<1>4. DOMAIN start = 1 .. n /\ \A i \in 1 .. n : start[i] = text[i] BY <1>1, <1>2, <1>3
<1>5. TouchesGuardrail(start) <=> HarmWithin(start, n) BY <1>4 DEF TouchesGuardrail, HarmWithin
<1>6. n \in Nat BY LenProperties
<1>7. HarmWithin(start, n) <=> HarmWithin(text, n) BY <1>4, <1>6, SameHarm
<1>8. QED BY <1>3, <1>5, <1>7

LEMMA HarmIsAll ==
    ASSUME NEW text \in Seq(Words)
    PROVE  TouchesGuardrail(text) <=> HarmWithin(text, Len(text))
<1>1. DOMAIN text = 1 .. Len(text) BY LenProperties
<1>2. QED BY <1>1 DEF TouchesGuardrail, HarmWithin

LEMMA CheckKeeps ==
    ASSUME ModerationInv, NEW text \in Seq(Words), Len(text) <= MaxWords, Check(text)
    PROVE  ModerationInv'
<1> DEFINE memory == Remembered(text)
<1>0. Len(text) \in Nat BY LenProperties
<1>1. /\ memory \in Moderators /\ memory.at \in Unchecked .. now
      /\ memory.screened <= Len(text) /\ WasScreened(memory)
      /\ memory.verdict # "block" => ~HarmWithin(text, memory.screened)
  BY RememberedIsClean
<1>2. now' = now /\ now \in Nat /\ heard' = now BY DEF Check, ModerationInv
<1>3. CASE /\ memory.verdict = "block" \/ ~Due(memory, text)
           /\ moderator' = [memory EXCEPT !.text = text]
  <2>1. /\ moderator' \in Moderators /\ moderator'.text = text /\ moderator'.at = memory.at
        /\ moderator'.screened = memory.screened /\ moderator'.verdict = memory.verdict
    BY <1>1, <1>3 DEF Moderators
  <2>2. memory.screened \in Nat /\ memory.at \in Int BY <1>1 DEF Moderators
  <2>3. CASE text = <<>>
    <3> HIDE DEF memory
    <3>1. Debounced(moderator', heard') /\ WasScreened(moderator')
      BY <1>1, <2>1, <2>3 DEF Debounced, WasScreened
    <3>2. QED BY <1>1, <1>2, <2>1, <3>1 DEF ModerationInv, CleanSoFar
  <2>4. CASE text # <<>>
    <3>1. memory.verdict # "block" =>
             /\ memory.at # Unchecked
             /\ Len(text) - memory.screened < MinNew /\ now - memory.at < MinInterval
      BY <1>0, <1>2, <1>3, <2>2, <2>4, ModeratorAssumption DEF Due
    <3> HIDE DEF memory
    <3>2. Debounced(moderator', heard') /\ WasScreened(moderator')
      BY <1>1, <1>2, <2>1, <3>1 DEF Debounced, WasScreened
    <3>3. QED BY <1>1, <1>2, <2>1, <3>2 DEF ModerationInv, CleanSoFar
  <2>5. QED BY <2>3, <2>4
<1>4. ASSUME text # <<>>, NEW verdict \in Screened(text),
             moderator' = [text |-> text, screened |-> Len(text), at |-> now, verdict |-> verdict]
      PROVE  ModerationInv'
  <2>1. PICK result \in ScreenResults : verdict = Decide(text, result) BY DEF Screened
  <2>2. verdict \in {"allow", "flag", "block"} BY <2>1 DEF Decide
  <2>3. verdict # "block" => ~HarmWithin(text, Len(text)) BY <2>1, HarmIsAll DEF Decide
  <2>4. /\ moderator' \in Moderators /\ moderator'.text = text /\ moderator'.at = now
        /\ moderator'.screened = Len(text) /\ moderator'.verdict = verdict
    BY <1>0, <1>2, <1>4, <2>2 DEF Moderators
  <2>5. Len(text) - Len(text) < MinNew /\ now - now < MinInterval
    BY <1>0, <1>2, ModeratorAssumption
  <2>6. Len(text) >= 1 BY <1>0, <1>4, EmptySeq
  <2>7. Debounced(moderator', heard') /\ WasScreened(moderator')
    BY <1>2, <2>4, <2>5, <2>6 DEF Debounced, WasScreened, Unchecked
  <2>8. QED BY <1>0, <1>2, <2>3, <2>4, <2>7 DEF ModerationInv, CleanSoFar, Unchecked
<1>5. QED BY <1>3, <1>4 DEF Check, Due

LEMMA ModerationInvNext == ModerationInv /\ [ModerationNext]_moderationVars => ModerationInv'
<1> SUFFICES ASSUME ModerationInv, [ModerationNext]_moderationVars PROVE ModerationInv'
  OBVIOUS
<1>1. CASE Later
  BY <1>1 DEF Later, ModerationInv, CleanSoFar, WasScreened, Debounced, Unchecked, Moderators
<1>2. ASSUME NEW word \in Words, Delta(word) PROVE ModerationInv'
  <2>1. moderator.text \in Seq(Words) BY DEF ModerationInv, CleanSoFar, Moderators
  <2>2. /\ Append(moderator.text, word) \in Seq(Words)
        /\ Len(Append(moderator.text, word)) = Len(moderator.text) + 1
    BY <2>1, AppendProperties
  <2>3. Len(moderator.text) + 1 <= MaxWords
    BY <1>2, <2>1, LenProperties, ModeratorAssumption DEF Delta
  <2>4. QED BY <1>2, <2>2, <2>3, CheckKeeps DEF Delta
<1>3. ASSUME NEW words \in Seq(Words), Len(words) <= MaxWords, NewTurn(words) PROVE ModerationInv'
  BY <1>3, CheckKeeps DEF NewTurn
<1>4. CASE UNCHANGED moderationVars
  BY <1>4 DEF moderationVars, ModerationInv, CleanSoFar, WasScreened, Debounced
<1>5. \A word \in Words : <<word>> \in Seq(Words) /\ Len(<<word>>) <= MaxWords
  BY ModeratorAssumption
<1>6. <<"promise", "discount">> \in Seq(Words) /\ Len(<<"promise", "discount">>) <= MaxWords
  BY ModeratorAssumption DEF Words
<1>7. QED BY <1>1, <1>2, <1>3, <1>4, <1>5, <1>6 DEF ModerationNext, Words

LEMMA ModerationInvariant == Spec => [](ModerationInv /\ ModerationTypeOK)
<1>1. ModerationInit => ModerationInv
  <2>1. <<>> \in Seq(Words) BY EmptySeq
  <2>2. QED BY <2>1, ModeratorAssumption
          DEF ModerationInit, ModerationInv, CleanSoFar, WasScreened, Debounced, Forgotten,
              Unchecked, Moderators, HarmWithin
<1>2. ModerationInv => ModerationTypeOK
  <2> SUFFICES ASSUME ModerationInv PROVE ModerationTypeOK OBVIOUS
  <2>1. moderator \in Moderators BY DEF ModerationInv, CleanSoFar
  <2>2. Len(moderator.text) \in Nat BY <2>1, LenProperties DEF Moderators
  <2>3. QED BY <2>1, <2>2, ModeratorAssumption DEF ModerationInv, CleanSoFar, Moderators, ModerationTypeOK
<1>3. QED BY <1>1, <1>2, ModerationInvNext, ModerationIsAPart, PTL DEF ModerationSpec

\* Harmful speech is cut off (moderation.py, check): a phrase goes on only while every
\* screening was of a harmless beginning, the words since are fewer than the debounce
\* and the last came sooner than the interval, for every debounce and gap.
THEOREM HarmIsAlwaysCut == Spec => []HarmIsCut
<1>1. ModerationInv => HarmIsCut
  <2> SUFFICES ASSUME ModerationInv, TouchesGuardrail(moderator.text), moderator.verdict # "block"
               PROVE  /\ moderator.screened \in 1 .. Len(moderator.text) - 1
                      /\ ~TouchesGuardrail(SubSeq(moderator.text, 1, moderator.screened))
                      /\ Len(moderator.text) - moderator.screened < MinNew
                      /\ heard - moderator.at < MinInterval
    BY DEF HarmIsCut
  <2>1. PICK text \in Seq(Words), n \in Nat : text = moderator.text /\ n = moderator.screened
    BY DEF ModerationInv, CleanSoFar, Moderators
  <2>2. Len(text) \in Nat /\ n \in 0 .. Len(text) /\ ~HarmWithin(text, n)
    BY <2>1, LenProperties DEF ModerationInv, CleanSoFar
  <2>3. HarmWithin(text, Len(text)) BY <2>1, HarmIsAll
  <2>4. n # Len(text) BY <2>2, <2>3
  <2>5. text # <<>> BY <2>2, <2>4
  <2>6. n >= 1 /\ Len(text) - n < MinNew /\ heard - moderator.at < MinInterval
    BY <2>1, <2>5 DEF ModerationInv, Debounced
  <2>7. n \in 1 .. Len(text) - 1 BY <2>2, <2>4, <2>6
  <2>8. ~TouchesGuardrail(SubSeq(text, 1, n)) BY <2>2, HarmIsTouched
  <2>9. QED BY <2>1, <2>6, <2>7, <2>8
<1>2. QED BY <1>1, ModerationInvariant, PTL

(***************************************************************************)
(* Sign-in.                                                                *)
(***************************************************************************)
Sessions == [user : Accounts, state : Nat, at : Nat, expires : Nat, live : BOOLEAN]
Callbacks == [browser : Browsers, state : Nat, at : Nat]

\* A state that was issued, and is not for sale any more.
Spent(s) == s \in 1 .. Len(issued) /\ s \notin DOMAIN pending

\* The browser came back before the state expired.
InTime(x) == x.at - issued[x.state] <= StateTtl

LoginTyped ==
    /\ day \in Nat /\ issued \in Seq(Nat) /\ sessions \in Seq(Sessions)
    /\ callbacks \subseteq Callbacks
    /\ cookies \in [Browsers -> {NoCookie} \cup DOMAIN sessions]

\* A state is pending, at one callback, or the state of one session.
LoginInv ==
    /\ LoginTyped
    /\ DOMAIN pending \subseteq 1 .. Len(issued)
    /\ \A s \in DOMAIN pending : pending[s] = issued[s] + StateTtl
    /\ \A c \in callbacks : Spent(c.state) /\ InTime(c)
    /\ \A c, d \in callbacks : c.state = d.state => c = d
    /\ \A i \in DOMAIN sessions : Spent(sessions[i].state) /\ InTime(sessions[i])
    /\ \A i, j \in DOMAIN sessions : sessions[i].state = sessions[j].state => i = j
    /\ \A i \in DOMAIN sessions : \A c \in callbacks : sessions[i].state # c.state

\* Taking states out of the table makes them spent.
LEMMA WithoutKeeps ==
    ASSUME LoginInv, NEW states, pending' = Without(states), UNCHANGED issued
    PROVE  /\ DOMAIN pending' = DOMAIN pending \ states
           /\ \A s \in DOMAIN pending' : pending'[s] = issued'[s] + StateTtl
           /\ \A s : Spent(s) => Spent(s)'
           /\ \A s \in DOMAIN pending \cap states : Spent(s)'
BY DEF LoginInv, Without, Spent

LEMMA StateIssuedKeeps == ASSUME LoginInv, NEW w, StateIssued(w) PROVE LoginInv'
<1>1. /\ issued \in Seq(Nat) /\ day \in Nat /\ Len(issued) \in Nat
  BY LenProperties DEF LoginInv, LoginTyped
<1>2. /\ issued' \in Seq(Nat) /\ Len(issued') = Len(issued) + 1
      /\ \A i \in 1 .. Len(issued) : issued'[i] = issued[i]
      /\ issued'[Len(issued')] = day
  BY <1>1, AppendProperties DEF StateIssued
<1>3. /\ DOMAIN pending' = DOMAIN pending \cup {Len(issued')}
      /\ pending'[Len(issued')] = day + StateTtl
      /\ \A s \in DOMAIN pending' : s # Len(issued') => pending'[s] = pending[s]
  BY DEF StateIssued
<1>4. \A s : Spent(s) => Spent(s)' BY <1>1, <1>2, <1>3 DEF Spent
<1>5. \A s \in 1 .. Len(issued) : issued'[s] = issued[s] BY <1>2
<1>6. UNCHANGED <<day, callbacks, sessions, cookies>> BY DEF StateIssued
<1>7. LoginTyped' BY <1>2, <1>6 DEF LoginInv, LoginTyped
<1>8. DOMAIN pending' \subseteq 1 .. Len(issued') BY <1>1, <1>2, <1>3 DEF LoginInv
<1>9. \A s \in DOMAIN pending' : pending'[s] = issued'[s] + StateTtl
  BY <1>1, <1>2, <1>3 DEF LoginInv
<1>10. \A c \in callbacks' : Spent(c.state)' /\ InTime(c)'
  BY <1>4, <1>5, <1>6 DEF LoginInv, InTime, Spent
<1>11. \A i \in DOMAIN sessions' : Spent(sessions[i].state)' /\ InTime(sessions[i])'
  BY <1>4, <1>5, <1>6 DEF LoginInv, InTime, Spent
<1>12. QED BY <1>6, <1>7, <1>8, <1>9, <1>10, <1>11 DEF LoginInv

\* What a callback, a sweep or a failure may do: states leave the table or the set
\* of callbacks.
LEMMA StatesLeaveKeep ==
    ASSUME LoginInv, NEW states, pending' = Without(states),
           callbacks' \subseteq callbacks, UNCHANGED <<day, issued, sessions, cookies>>
    PROVE  LoginInv'
<1>1. /\ DOMAIN pending' = DOMAIN pending \ states
      /\ \A s \in DOMAIN pending' : pending'[s] = issued'[s] + StateTtl
      /\ \A s : Spent(s) => Spent(s)'
  BY WithoutKeeps
<1>2. LoginTyped' BY DEF LoginInv, LoginTyped
<1>3. DOMAIN pending' \subseteq 1 .. Len(issued') BY <1>1 DEF LoginInv
<1>4. \A c \in callbacks' : Spent(c.state)' /\ InTime(c)' BY <1>1 DEF LoginInv, InTime
<1>5. \A i \in DOMAIN sessions' : Spent(sessions[i].state)' /\ InTime(sessions[i])'
  BY <1>1 DEF LoginInv, InTime
<1>6. QED BY <1>1, <1>2, <1>3, <1>4, <1>5 DEF LoginInv

LEMMA CallbackArrivesKeeps ==
    ASSUME LoginInv, NEW b \in Browsers, NEW s, CallbackArrives(b, s)
    PROVE  LoginInv'
<1>0. PICK c : c = [browser |-> b, state |-> s, at |-> day] OBVIOUS
<1>1. /\ pending' = Without({s}) /\ s \in DOMAIN pending
      /\ UNCHANGED <<day, issued, sessions, cookies>>
  BY DEF CallbackArrives, Consumed
<1>2. CASE callbacks' = callbacks BY <1>1, <1>2, StatesLeaveKeep
<1>3. CASE pending[s] >= day /\ callbacks' = callbacks \cup {c}
  <2>1. /\ DOMAIN pending' = DOMAIN pending \ {s}
        /\ \A r \in DOMAIN pending' : pending'[r] = issued'[r] + StateTtl
        /\ \A r : Spent(r) => Spent(r)'
        /\ Spent(s)'
    BY <1>1, WithoutKeeps
  <2>2. Len(issued) \in Nat /\ issued \in Seq(Nat) /\ day \in Nat
    BY LenProperties DEF LoginInv, LoginTyped
  <2>3. s \in 1 .. Len(issued) /\ pending[s] = issued[s] + StateTtl
    BY <1>1 DEF LoginInv
  <2>4. s \in Nat /\ issued[s] \in Nat BY <2>2, <2>3, ElementOfSeq
  <2>5. c \in Callbacks /\ c.state = s /\ c.at = day BY <1>0, <2>2, <2>4 DEF Callbacks
  <2>6. InTime(c)
    <3>1. day - issued[s] <= StateTtl BY <1>3, <2>2, <2>3, <2>4, LoginAssumption
    <3>2. QED BY <2>5, <3>1 DEF InTime
  <2>7. InTime(c)' BY <1>1, <2>6 DEF InTime
  <2>8. ~Spent(s) BY <1>1 DEF Spent
  <2>9. LoginTyped' BY <1>1, <1>3, <2>5 DEF LoginInv, LoginTyped
  <2>10. DOMAIN pending' \subseteq 1 .. Len(issued') BY <1>1, <2>1 DEF LoginInv
  <2>11. \A d \in callbacks' : Spent(d.state)' /\ InTime(d)'
    <3>1. \A d \in callbacks : Spent(d.state)' /\ InTime(d)'
      BY <1>1, <2>1 DEF LoginInv, InTime
    <3>2. Spent(c.state)' BY <2>1, <2>5
    <3>3. QED BY <1>3, <2>7, <3>1, <3>2
  <2>12. \A i \in DOMAIN sessions' : Spent(sessions[i].state)' /\ InTime(sessions[i])'
    BY <1>1, <2>1 DEF LoginInv, InTime
  <2>13. \A d, e \in callbacks' : d.state = e.state => d = e
    BY <1>3, <2>5, <2>8 DEF LoginInv
  <2>14. \A i \in DOMAIN sessions' : \A d \in callbacks' : sessions'[i].state # d.state
    BY <1>1, <1>3, <2>5, <2>8 DEF LoginInv
  <2>15. QED BY <1>1, <2>1, <2>9, <2>10, <2>11, <2>12, <2>13, <2>14 DEF LoginInv
<1>4. QED BY <1>0, <1>2, <1>3 DEF CallbackArrives

LEMMA SignedInKeeps ==
    ASSUME LoginInv, NEW c \in callbacks, NEW account \in Accounts, SignedIn(c, account)
    PROVE  LoginInv'
<1> DEFINE new == [user |-> account, state |-> c.state, at |-> c.at,
                   expires |-> day + SessionTtl, live |-> TRUE]
<1>1. /\ sessions \in Seq(Sessions) /\ day \in Nat /\ c \in Callbacks
      /\ cookies \in [Browsers -> {NoCookie} \cup DOMAIN sessions]
  BY DEF LoginInv, LoginTyped
<1>2. new \in Sessions /\ new.state = c.state /\ new.at = c.at
  BY <1>1, LoginAssumption DEF Sessions, Callbacks
<1>3. /\ callbacks' = callbacks \ {c} /\ sessions' = Append(sessions, new)
      /\ UNCHANGED <<day, issued, pending, sweeps>>
      /\ cookies' = [cookies EXCEPT ![c.browser] = Len(sessions')]
  BY DEF SignedIn
<1> HIDE DEF new
<1>4. /\ sessions' \in Seq(Sessions) /\ Len(sessions') = Len(sessions) + 1
      /\ \A i \in 1 .. Len(sessions) : sessions'[i] = sessions[i]
      /\ sessions'[Len(sessions) + 1] = new /\ Len(sessions) \in Nat
  BY <1>1, <1>2, <1>3, AppendProperties, LenProperties
<1>5. DOMAIN sessions = 1 .. Len(sessions) /\ DOMAIN sessions' = 1 .. Len(sessions')
  BY <1>1, <1>4, LenProperties
<1>6. cookies' \in [Browsers -> {NoCookie} \cup DOMAIN sessions']
  <2>1. Len(sessions') \in DOMAIN sessions' /\ DOMAIN sessions \subseteq DOMAIN sessions'
    BY <1>4, <1>5
  <2>2. QED BY <1>1, <1>3, <2>1
<1>7. LoginTyped' BY <1>3, <1>4, <1>6 DEF LoginInv, LoginTyped
<1>8. \A s : Spent(s) <=> Spent(s)' BY <1>3 DEF Spent
<1>9. \A d \in callbacks' : Spent(d.state)' /\ InTime(d)' BY <1>3, <1>8 DEF LoginInv, InTime
<1>10. Spent(c.state) /\ c.at - issued[c.state] <= StateTtl BY DEF LoginInv, InTime
<1>11. \A i \in DOMAIN sessions' : i \in DOMAIN sessions \/ sessions'[i] = new
  BY <1>4, <1>5
<1>12. \A i \in DOMAIN sessions' : Spent(sessions[i].state)' /\ InTime(sessions[i])'
  <2>1. SUFFICES ASSUME NEW i \in DOMAIN sessions'
                 PROVE  Spent(sessions[i].state)' /\ InTime(sessions[i])'
    OBVIOUS
  <2>2. CASE i \in DOMAIN sessions
    BY <1>3, <1>4, <1>5, <1>8, <2>2 DEF LoginInv, InTime
  <2>3. CASE sessions'[i] = new
    BY <1>2, <1>3, <1>8, <1>10, <2>3 DEF InTime
  <2>4. QED BY <1>11, <2>1, <2>2, <2>3
<1>13. \A i \in DOMAIN sessions : sessions[i].state # c.state BY DEF LoginInv
<1>14. \A i, j \in DOMAIN sessions' : sessions'[i].state = sessions'[j].state => i = j
  BY <1>2, <1>4, <1>5, <1>13 DEF LoginInv
<1>15. \A i \in DOMAIN sessions' : \A d \in callbacks' : sessions'[i].state # d.state
  BY <1>2, <1>3, <1>4, <1>5, <1>11 DEF LoginInv
<1>16. QED BY <1>3, <1>7, <1>9, <1>12, <1>14, <1>15 DEF LoginInv

\* A session that is deleted keeps its place, its state and its time.
LEMMA SessionDeletedKeeps ==
    ASSUME LoginInv, NEW k \in DOMAIN sessions,
           sessions' = [sessions EXCEPT ![k].live = FALSE],
           cookies' \in [Browsers -> {NoCookie} \cup DOMAIN sessions],
           UNCHANGED <<day, issued, pending, callbacks>>
    PROVE  LoginInv'
<1>1. sessions \in Seq(Sessions) BY DEF LoginInv, LoginTyped
<1>2. DOMAIN sessions = 1 .. Len(sessions) /\ Len(sessions) \in Nat BY <1>1, LenProperties
<1>3. sessions[k] \in Sessions BY <1>1, <1>2, ElementOfSeq
<1>4. [sessions[k] EXCEPT !.live = FALSE] \in Sessions BY <1>3 DEF Sessions
<1>5. sessions' \in Seq(Sessions) /\ DOMAIN sessions' = DOMAIN sessions
  BY <1>1, <1>2, <1>4, ExceptSeq, LenProperties
<1>6. \A i \in DOMAIN sessions :
          sessions'[i].state = sessions[i].state /\ sessions'[i].at = sessions[i].at
  BY <1>3 DEF Sessions
<1>7. LoginTyped' BY <1>5 DEF LoginInv, LoginTyped
<1>8. QED BY <1>5, <1>6, <1>7 DEF LoginInv, Spent, InTime

LEMMA LoginInvNext == LoginInv /\ [LoginNext]_loginVars => LoginInv'
<1> SUFFICES ASSUME LoginInv, [LoginNext]_loginVars PROVE LoginInv'
  OBVIOUS
<1>1. CASE NextDay
  BY <1>1 DEF NextDay, LoginInv, LoginTyped, Spent, InTime
<1>2. ASSUME NEW w, SweepBegins(w) PROVE LoginInv'
  BY <1>2 DEF SweepBegins, LoginInv, LoginTyped, Spent, InTime
<1>3. ASSUME NEW w, SweepDeletes(w) PROVE LoginInv'
  BY <1>3, StatesLeaveKeep DEF SweepDeletes
<1>4. ASSUME NEW w, StateIssued(w) PROVE LoginInv'
  BY <1>4, StateIssuedKeeps
<1>5. ASSUME NEW b \in Browsers, NEW s, CallbackArrives(b, s) PROVE LoginInv'
  BY <1>5, CallbackArrivesKeeps
<1>6. ASSUME NEW c \in callbacks, ExchangeFails(c) PROVE LoginInv'
  BY <1>6 DEF ExchangeFails, LoginInv, LoginTyped, Spent, InTime
<1>7. ASSUME NEW c \in callbacks, NEW account \in Accounts, SignedIn(c, account) PROVE LoginInv'
  BY <1>7, SignedInKeeps
<1>8. ASSUME NEW b \in Browsers, Me(b) PROVE LoginInv'
  BY <1>8, SessionDeletedKeeps DEF Me, LoginInv, LoginTyped
<1>9. ASSUME NEW b \in Browsers, Logout(b) PROVE LoginInv'
  <2>1. cookies[b] \in DOMAIN sessions BY <1>9 DEF Logout, LoginInv, LoginTyped
  <2>2. cookies' \in [Browsers -> {NoCookie} \cup DOMAIN sessions]
    BY <1>9 DEF Logout, LoginInv, LoginTyped
  <2>3. QED BY <1>9, <2>1, <2>2, SessionDeletedKeeps DEF Logout
<1>10. CASE UNCHANGED loginVars
  BY <1>10 DEF loginVars, LoginInv, LoginTyped, Spent, InTime
<1>11. QED BY <1>1, <1>2, <1>3, <1>4, <1>5, <1>6, <1>7, <1>8, <1>9, <1>10 DEF LoginNext

LEMMA LoginInvariant == Spec => [](LoginInv /\ LoginTypeOK)
<1>1. LoginInit => LoginInv
  BY DEF LoginInit, LoginInv, LoginTyped, NoCookie
<1>2. LoginInv => LoginTypeOK
  <2> SUFFICES ASSUME LoginInv PROVE LoginTypeOK OBVIOUS
  <2>1. /\ sessions \in Seq(Sessions) /\ issued \in Seq(Nat)
        /\ cookies \in [Browsers -> {NoCookie} \cup DOMAIN sessions]
    BY DEF LoginInv, LoginTyped
  <2>2. DOMAIN issued = 1 .. Len(issued) /\ DOMAIN sessions = 1 .. Len(sessions)
    BY <2>1, LenProperties
  <2>3. \A i \in DOMAIN sessions : sessions[i].user \in Accounts
    <3>1. \A i \in DOMAIN sessions : sessions[i] \in Sessions
      BY <2>1, <2>2, ElementOfSeq
    <3>2. QED BY <3>1 DEF Sessions
  <2>4. \A b \in Browsers : CurrentUser(b) \in Accounts \cup {Guest}
    BY <2>1, <2>3 DEF CurrentUser
  <2>5. QED BY <2>1, <2>2, <2>4 DEF LoginTypeOK, LoginInv
<1>3. QED BY <1>1, <1>2, LoginInvNext, LoginIsAPart, PTL DEF LoginSpec

\* A login opens at most one session, and in time (router.py, callback; store.py), for
\* any number of browsers, sweeping threads and states.
THEOREM SignInsAreSpentOnce == Spec => []SignInIsSpentOnce
<1>1. LoginInv => SignInIsSpentOnce BY DEF LoginInv, SignInIsSpentOnce, InTime
<1>2. QED BY <1>1, LoginInvariant, PTL

(***************************************************************************)
(* Auto-pause.                                                             *)
(***************************************************************************)
Rules == {"trips", "escalations"}
Actions == {"autopause", "escalate"}
Instants == Seq(0 .. clock)

\* What still holds off a second pause of a campaign left it stopped.
ApInv ==
    /\ clock \in Nat
    /\ windows \in [Rules -> [Watched -> Instants]]
    /\ last \in [Actions -> [Watched -> Int]]
    /\ paused \subseteq Watched
    /\ \A c \in Watched : last["autopause"][c] # Never => c \in paused
    /\ handled.type = "trip" /\ handled.raised > 0 => handled.of \in paused

\* The first n positions are n.
LEMMA CountUpTo ==
    ASSUME NEW n \in Nat PROVE IsFiniteSet(1 .. n) /\ Cardinality(1 .. n) = n
<1>1. n \in Int /\ 1 \in Int OBVIOUS
<1>2. IsFiniteSet(1 .. n) /\ Cardinality(1 .. n) = IF 1 > n THEN 0 ELSE n - 1 + 1
  BY <1>1, FS_Interval, Zenon
<1>3. (IF 1 > n THEN 0 ELSE n - 1 + 1) = n OBVIOUS
<1>4. QED BY <1>2, <1>3

LEMMA AddedIsInOrder ==
    ASSUME clock \in Nat, NEW times \in Instants
    PROVE  Added(times) \in Instants
<1> DEFINE all == Append(times, clock)
           older == {i \in DOMAIN all : all[i] < clock - Window}
<1>0. Len(times) \in Nat BY LenProperties DEF Instants
<1>1. all \in Seq(0 .. clock) /\ Len(all) = Len(times) + 1 /\ all[Len(all)] = clock
  BY AppendProperties DEF Instants
<1>2. DOMAIN all = 1 .. Len(all) BY <1>1, LenProperties
<1>3. older \subseteq 1 .. Len(times)
  <2> SUFFICES ASSUME NEW i \in older PROVE i \in 1 .. Len(times) OBVIOUS
  <2>1. i \in 1 .. Len(all) /\ all[i] < clock - Window BY <1>2
  <2>2. i # Len(all) BY <1>1, <2>1, AutoPauseAssumption
  <2> HIDE DEF all, older
  <2>3. QED BY <1>0, <1>1, <2>1, <2>2
<1> HIDE DEF older
<1>4. Cardinality(older) \in Nat /\ Cardinality(older) <= Len(times)
  <2>1. IsFiniteSet(1 .. Len(times)) /\ Cardinality(1 .. Len(times)) = Len(times)
    BY <1>0, CountUpTo
  <2>2. QED BY <1>3, <2>1, FS_Subset, FS_CardinalityType
<1>5. SubSeq(all, Cardinality(older) + 1, Len(all)) \in Seq(0 .. clock)
  <2> HIDE DEF all
  <2>1. \A i \in (Cardinality(older) + 1) .. Len(all) : all[i] \in 0 .. clock
    BY <1>0, <1>1, <1>4, ElementOfSeq
  <2>2. QED BY <1>0, <1>1, <1>4, <2>1, SubSeqProperties
<1>6. QED BY <1>5 DEF Added, older, Instants

LEMMA WindowsGrow ==
    ASSUME ApInv, NEW rule \in Rules, NEW c \in Watched, UNCHANGED clock,
           windows' = [windows EXCEPT ![rule][c] = Added(windows[rule][c])]
    PROVE  windows' \in [Rules -> [Watched -> Instants']]
<1>1. Instants' = Instants BY DEF Instants
<1>2. Added(windows[rule][c]) \in Instants BY AddedIsInOrder DEF ApInv
<1>3. windows' \in [Rules -> [Watched -> Instants]] BY <1>2 DEF ApInv
<1>4. QED BY <1>1, <1>3

\* A trip that raises a signal leaves its campaign stopped; nothing else stops one.
LEMMA ActedStops ==
    ASSUME ApInv, NEW c \in Watched, NEW type, NEW action \in Actions, NEW signals \in Nat,
           Acted(type, action, c, signals), UNCHANGED clock
    PROVE  /\ last' \in [Actions -> [Watched -> Int]]
           /\ paused' \subseteq Watched /\ paused \subseteq paused'
           /\ \A d \in Watched : last'["autopause"][d] # Never => d \in paused'
           /\ handled'.type = type /\ handled'.of = c /\ handled'.raised = signals
           /\ action = "autopause" /\ signals > 0 => c \in paused'
           /\ \A d \in paused' \ paused : action = "autopause" /\ d = c /\ signals > 0
<1> DEFINE n == IF signals = 0 \/ Suppressed(action, c) THEN 0
                ELSE IF Cooldown(action) = 0 THEN signals ELSE 1
<1>1. /\ handled' = Handling(type, c, signals, n)
      /\ last' = IF n = 0 THEN last ELSE [last EXCEPT ![action][c] = clock]
      /\ paused' = IF n > 0 /\ action = "autopause" THEN paused \cup {c} ELSE paused
  BY DEF Acted
<1>2. n \in Nat /\ (n = 0 => signals = 0 \/ Suppressed(action, c)) /\ (n > 0 => signals > 0)
  OBVIOUS
<1> HIDE DEF n
<1>3. handled'.type = type /\ handled'.of = c /\ handled'.raised = signals
  BY <1>1 DEF Handling
<1>4. last' \in [Actions -> [Watched -> Int]] BY <1>1 DEF ApInv
<1>5. \A d \in Watched : last'["autopause"][d] # Never => d \in paused'
  <2>1. CASE n = 0 BY <1>1, <2>1 DEF ApInv
  <2>2. CASE n > 0 /\ action = "autopause" BY <1>1, <1>2, <2>2 DEF ApInv
  <2>3. CASE n > 0 /\ action = "escalate" BY <1>1, <1>2, <2>3 DEF ApInv, Actions
  <2>4. QED BY <1>2, <2>1, <2>2, <2>3 DEF Actions
<1>6. action = "autopause" /\ signals > 0 => c \in paused'
  BY <1>1, <1>2 DEF ApInv, Suppressed
<1>7. paused' \subseteq Watched /\ paused \subseteq paused' BY <1>1 DEF ApInv
<1>8. \A d \in paused' \ paused : action = "autopause" /\ d = c /\ signals > 0
  BY <1>1, <1>2
<1>9. QED BY <1>3, <1>4, <1>5, <1>6, <1>7, <1>8

LEMMA TripStops ==
    ASSUME ApInv, NEW c \in Watched, NEW critical \in BOOLEAN, GuardrailTripped(c, critical)
    PROVE  /\ ApInv'
           /\ handled'.type = "trip" /\ handled'.of = c
           /\ handled'.raised > 0 => c \in paused'
           /\ \A d \in paused' \ paused : d = c /\ handled'.raised > 0
<1>0. PICK signals : signals = Burst(Added(windows["trips"][c])) + IF critical THEN 1 ELSE 0
  OBVIOUS
<1>1. Acted("trip", "autopause", c, signals) /\ UNCHANGED clock
  BY <1>0 DEF GuardrailTripped
<1>2. windows' = [windows EXCEPT !["trips"][c] = Added(windows["trips"][c])]
  BY DEF GuardrailTripped
<1>3. signals \in Nat /\ "autopause" \in Actions BY <1>0 DEF Burst, Actions
<1>4. windows' \in [Rules -> [Watched -> Instants']] BY <1>1, <1>2, WindowsGrow DEF Rules
<1>5. /\ last' \in [Actions -> [Watched -> Int]] /\ paused' \subseteq Watched
      /\ \A d \in Watched : last'["autopause"][d] # Never => d \in paused'
      /\ handled'.type = "trip" /\ handled'.of = c /\ handled'.raised = signals
  BY <1>1, <1>3, ActedStops
<1>6. /\ signals > 0 => c \in paused'
      /\ \A d \in paused' \ paused : d = c /\ signals > 0
  BY <1>1, <1>3, ActedStops
<1>7. clock' \in Nat BY <1>1 DEF ApInv
<1>8. QED BY <1>4, <1>5, <1>6, <1>7 DEF ApInv

LEMMA EscalationStopsNothing ==
    ASSUME ApInv, NEW c \in Watched, CallEscalated(c)
    PROVE  ApInv' /\ handled'.type = "escalation" /\ paused' = paused
<1>0. PICK signals : signals = Burst(Added(windows["escalations"][c])) OBVIOUS
<1>1. Acted("escalation", "escalate", c, signals) /\ UNCHANGED clock
  BY <1>0 DEF CallEscalated
<1>2. windows' = [windows EXCEPT !["escalations"][c] = Added(windows["escalations"][c])]
  BY DEF CallEscalated
<1>3. signals \in Nat /\ "escalate" \in Actions BY <1>0 DEF Burst, Actions
<1>4. windows' \in [Rules -> [Watched -> Instants']] BY <1>1, <1>2, WindowsGrow DEF Rules
<1>5. /\ last' \in [Actions -> [Watched -> Int]] /\ paused' \subseteq Watched
      /\ \A d \in Watched : last'["autopause"][d] # Never => d \in paused'
      /\ handled'.type = "escalation"
  BY <1>1, <1>3, ActedStops
<1>6. paused' = paused BY <1>1 DEF Acted
<1>7. clock' \in Nat BY <1>1 DEF ApInv
<1>8. QED BY <1>4, <1>5, <1>6, <1>7 DEF ApInv

LEMMA ResumedKeeps ==
    ASSUME ApInv, NEW c \in Watched, CampaignResumed(c)
    PROVE  ApInv' /\ handled'.type = "resumed" /\ paused' \subseteq paused
<1>1. handled'.type = "resumed" /\ paused' = paused \ {c} /\ UNCHANGED <<clock, windows>>
  BY DEF CampaignResumed, Handling
<1>2. /\ last' \in [Actions -> [Watched -> Int]]
      /\ \A d \in Watched : last'["autopause"][d] # Never => d # c /\ last["autopause"][d] # Never
  BY DEF CampaignResumed, ApInv, Actions, Never
<1>3. QED BY <1>1, <1>2 DEF ApInv, Instants

\* A breach stops its campaign, and nothing else does, whatever the step.
LEMMA ApStep ==
    ASSUME ApInv, [ApNext]_apVars
    PROVE  /\ ApInv'
           /\ handled'.type = "trip" /\ handled'.raised > 0 => handled'.of \in paused'
           /\ \A c \in paused' \ paused :
                 handled'.type = "trip" /\ handled'.of = c /\ handled'.raised > 0
<1> DEFINE Goal == /\ ApInv'
                   /\ handled'.type = "trip" /\ handled'.raised > 0 => handled'.of \in paused'
                   /\ \A c \in paused' \ paused :
                         handled'.type = "trip" /\ handled'.of = c /\ handled'.raised > 0
<1>1. CASE Tick
  <2>1. clock' = clock + 1 /\ UNCHANGED <<windows, last, paused, handled>> /\ clock \in Nat
    BY <1>1 DEF Tick, ApInv
  <2>2. 0 .. clock \subseteq 0 .. clock' BY <2>1
  <2>3. Instants \subseteq Instants' BY <2>2, SeqsGrow DEF Instants
  <2>4. windows' \in [Rules -> [Watched -> Instants']] BY <2>1, <2>3 DEF ApInv
  <2>5. QED BY <2>1, <2>4 DEF ApInv
<1>2. ASSUME NEW c \in Watched, NEW critical \in BOOLEAN, GuardrailTripped(c, critical) PROVE Goal
  BY <1>2, TripStops
<1>3. ASSUME NEW c \in Watched, CallEscalated(c) PROVE Goal
  BY <1>3, EscalationStopsNothing
<1>4. ASSUME NEW c \in Watched, CampaignResumed(c) PROVE Goal
  BY <1>4, ResumedKeeps
<1>5. CASE UNCHANGED apVars BY <1>5 DEF apVars, ApInv, Instants
<1>6. QED BY <1>1, <1>2, <1>3, <1>4, <1>5 DEF ApNext

LEMMA ApInvariant == Spec => [](ApInv /\ ApTypeOK)
<1>1. ApInit => ApInv
  <2> SUFFICES ASSUME ApInit PROVE ApInv OBVIOUS
  <2>1. <<>> \in Instants BY EmptySeq DEF Instants
  <2>2. windows \in [Rules -> [Watched -> Instants]] BY <2>1 DEF ApInit, Rules
  <2>3. /\ last \in [Actions -> [Watched -> Int]]
        /\ \A c \in Watched : last["autopause"][c] = Never
    BY DEF ApInit, Actions, Never
  <2>4. QED BY <2>2, <2>3 DEF ApInit, ApInv, NoHandling
<1>2. ApInv => ApTypeOK
  <2> SUFFICES ASSUME ApInv, NEW rule \in DOMAIN windows, NEW c \in Watched,
                      NEW i \in DOMAIN windows[rule][c]
               PROVE  windows[rule][c][i] \in 0 .. clock
    BY DEF ApTypeOK
  <2>1. windows[rule][c] \in Seq(0 .. clock) BY DEF ApInv, Instants
  <2>2. QED BY <2>1, ElementOfSeq, LenProperties
<1>3. ApInv /\ [ApNext]_apVars => ApInv' BY ApStep
<1>4. QED BY <1>1, <1>2, <1>3, AutoPauseIsAPart, PTL DEF ApSpec

\* A trip that breaches a rule leaves its campaign stopped, suppressed or not, and no
\* other event stops one (engine.py, _act; resume forgets the cooldown), for any
\* campaigns, thresholds, windows and cooldowns.
THEOREM BreachesStopCampaigns == Spec => BreachStopsTheCampaign
<1>1. ApInv /\ [ApNext]_apVars
          => [/\ handled'.type = "trip" /\ handled'.raised > 0 => handled'.of \in paused'
              /\ \A c \in paused' \ paused :
                    handled'.type = "trip" /\ handled'.of = c /\ handled'.raised > 0]_apVars
  BY ApStep
<1>2. QED BY <1>1, ApInvariant, AutoPauseIsAPart, PTL DEF ApSpec, BreachStopsTheCampaign

(***************************************************************************)
(* The browser preview.                                                    *)
(***************************************************************************)
Frames == {"audio", "cut", "event", "error", "ended", "closed"}

Quiet(frames) == \A i \in DOMAIN frames : frames[i] # "ended"
AtMostOnce(frames) ==
    \A i, j \in DOMAIN frames : frames[i] = "ended" /\ frames[j] = "ended" => i = j

Pages == [status : {"idle", "connecting", "live", "ended", "error"}, mic : {"off", "asked", "on"},
          sock : {"none", "connecting", "open", "broken", "closing", "closed"},
          playing : BOOLEAN, hurried : BOOLEAN, ends : Nat]
Servers == [pc : {"none", "first", "racing", "ending", "done"},
            run : {"none", "running", "returned", "raised"},
            inbound : {"none", "running", "done"}, stopped : BOOLEAN, muted : BOOLEAN]

\* The page: the microphone is on, or being asked for, only where it may be.
PageInv ==
    /\ page \in Pages
    /\ page.status = "idle" => page.mic = "off" /\ page.sock = "none" /\ ~page.playing
    /\ page.mic = "asked" => page.sock = "none" /\ ~page.playing
    /\ page.mic = "asked" /\ page.status \in Over => page.hurried
    /\ page.status \in Over /\ ~page.hurried => page.mic # "on" /\ ~page.playing
    /\ page.sock = "closed" => page.status \in Over

\* The router: its tasks run only within the race.
ServerInv ==
    /\ server \in Servers
    /\ server.run = "running" => server.pc \in {"racing", "ending"}
    /\ server.pc \in {"none", "first"} => server.run = "none"
    /\ server.inbound = "running" => server.pc = "racing"

\* What says that the call ended is sent once, at the end, and read once.
EndInv ==
    /\ down \in Seq(Frames) /\ AtMostOnce(down) /\ page.ends \in 0 .. 1
    /\ page.ends = 1 => Quiet(down)
    /\ server.pc # "done" => page.ends = 0 /\ Quiet(down)

\* A page that still listens when the handler is through has been told, or will be.
ToldInv ==
    server.pc = "done" /\ page.sock = "open" =>
       /\ down # <<>> /\ down[Len(down)] = "closed"
       /\ server.run # "none" => page.ends = 1 \/ ~Quiet(down)

PreviewInv == PageInv /\ ServerInv /\ EndInv /\ ToldInv

LEMMA PageKeeps == PreviewInv /\ PreviewNext => PageInv'
<1> SUFFICES ASSUME PreviewInv, PreviewNext PROVE PageInv'
  OBVIOUS
<1> USE DEF PageInv, Pages, Over
<1>1. PageInv /\ down \in Seq(Frames) BY DEF PreviewInv, EndInv
<1>2. CASE PageStarts BY <1>1, <1>2 DEF PageStarts
<1>3. CASE MicGranted BY <1>1, <1>3 DEF MicGranted
<1>4. CASE MicDenied BY <1>1, <1>4 DEF MicDenied
<1>5. CASE SocketOpens BY <1>1, <1>5 DEF SocketOpens
<1>6. CASE PageStops
  <2>1. PICK torn \in Pages : torn = TornDown(page) BY <1>1 DEF TornDown
  <2>2. /\ torn.mic = (IF page.mic = "on" THEN "off" ELSE page.mic) /\ ~torn.playing
        /\ torn.sock = page.sock /\ torn.hurried = page.hurried
    BY <1>1, <2>1 DEF TornDown
  <2>3. page' = [torn EXCEPT !.status = "ended", !.sock = Closes(@),
                             !.hurried = @ \/ page.mic = "asked"]
    BY <1>6, <2>1 DEF PageStops
  <2>4. QED BY <1>1, <2>2, <2>3 DEF Closes
<1>7. CASE PageReceives
  <2>1. Head(down) \in Frames BY <1>1, <1>7, HeadTailProperties DEF PageReceives
  <2>2. /\ page.sock \in {"open", "broken"}
        /\ \/ page' = [TornDown(page) EXCEPT !.status = "ended", !.ends = @ + 1]
           \/ page' = page
           \/ page' = [TornDown(page) EXCEPT !.status = "error", !.sock = "closed"]
           \/ page.status \in {"idle", "ended", "error"} /\ page' = [page EXCEPT !.sock = "closed"]
    BY <1>1, <1>7, <2>1 DEF PageReceives, Frames
  <2>3. page.mic # "asked" /\ page.status # "idle" BY <1>1, <2>2
  <2>4. /\ TornDown(page) \in Pages /\ TornDown(page).mic = "off" /\ ~TornDown(page).playing
        /\ TornDown(page).status # "idle"
    BY <1>1, <2>3 DEF TornDown
  <2>5. PICK torn \in Pages : torn = TornDown(page) BY <2>4
  <2>6. torn.mic = "off" /\ ~torn.playing /\ torn.ends + 1 \in Nat BY <2>4, <2>5
  <2>7. CASE page' = page BY <1>1, <2>7
  <2>8. CASE page' = [torn EXCEPT !.status = "ended", !.ends = @ + 1] BY <2>6, <2>8
  <2>9. CASE page' = [torn EXCEPT !.status = "error", !.sock = "closed"] BY <2>6, <2>9
  <2>10. CASE page.status \in {"idle", "ended", "error"} /\ page' = [page EXCEPT !.sock = "closed"]
    BY <1>1, <2>3, <2>10
  <2>11. QED BY <2>2, <2>5, <2>7, <2>8, <2>9, <2>10
<1>8. CASE PageCloses BY <1>1, <1>8 DEF PageCloses, TornDown
<1>9. CASE SocketBreaks BY <1>1, <1>9 DEF SocketBreaks
<1>10. CASE UNCHANGED page BY <1>1, <1>10
<1>11. QED
  BY <1>2, <1>3, <1>4, <1>5, <1>6, <1>7, <1>8, <1>9, <1>10
  DEF PreviewNext, MicFrame, Refuses, CallStarts, InboundReads, SessionSends, SessionEnds,
      RaceEnds, Concludes

LEMMA ServerKeeps == PreviewInv /\ PreviewNext => ServerInv'
<1> SUFFICES ASSUME PreviewInv, PreviewNext PROVE ServerInv'
  OBVIOUS
<1> USE DEF ServerInv, Servers
<1>1. ServerInv BY DEF PreviewInv
<1>2. CASE SocketOpens BY <1>1, <1>2 DEF SocketOpens
<1>3. CASE Refuses BY <1>1, <1>3 DEF Refuses
<1>4. CASE CallStarts BY <1>1, <1>4 DEF CallStarts
<1>5. CASE InboundReads BY <1>1, <1>5 DEF InboundReads
<1>6. ASSUME NEW frame, SessionSends(frame) PROVE ServerInv'
  BY <1>1, <1>6 DEF SessionSends, Reachable
<1>7. ASSUME NEW how \in {"returned", "raised"}, SessionEnds(how) PROVE ServerInv'
  BY <1>1, <1>7 DEF SessionEnds
<1>8. CASE RaceEnds BY <1>1, <1>8 DEF RaceEnds
<1>9. CASE Concludes BY <1>1, <1>9 DEF Concludes
<1>10. CASE UNCHANGED server BY <1>1, <1>10
<1>11. QED
  BY <1>2, <1>3, <1>4, <1>5, <1>6, <1>7, <1>8, <1>9, <1>10
  DEF PreviewNext, PageStarts, MicGranted, MicDenied, MicFrame, PageStops, PageReceives,
      PageCloses, SocketBreaks

\* Frames that follow those already on the way.
LEMMA SentAfter ==
    ASSUME NEW s \in Seq(Frames), NEW t \in Seq(Frames), Quiet(s)
    PROVE  /\ s \o t \in Seq(Frames)
           /\ AtMostOnce(t) => AtMostOnce(s \o t)
           /\ Quiet(t) => Quiet(s \o t)
<1>1. /\ s \o t \in Seq(Frames) /\ Len(s \o t) = Len(s) + Len(t)
      /\ \A i \in 1 .. Len(s) + Len(t) :
            (s \o t)[i] = IF i <= Len(s) THEN s[i] ELSE t[i - Len(s)]
  BY ConcatProperties
<1>2. /\ Len(s) \in Nat /\ Len(t) \in Nat /\ DOMAIN s = 1 .. Len(s) /\ DOMAIN t = 1 .. Len(t)
      /\ DOMAIN (s \o t) = 1 .. Len(s) + Len(t)
  BY <1>1, LenProperties
<1>3. \A i \in DOMAIN (s \o t) : (s \o t)[i] = "ended" =>
          i > Len(s) /\ i - Len(s) \in DOMAIN t /\ t[i - Len(s)] = "ended"
  BY <1>1, <1>2 DEF Quiet
<1>4. AtMostOnce(t) => AtMostOnce(s \o t)
  <2> SUFFICES ASSUME AtMostOnce(t), NEW i \in DOMAIN (s \o t), NEW j \in DOMAIN (s \o t),
                      (s \o t)[i] = "ended", (s \o t)[j] = "ended"
               PROVE  i = j
    BY DEF AtMostOnce
  <2>1. i - Len(s) = j - Len(s) BY <1>3 DEF AtMostOnce
  <2>2. QED BY <1>2, <2>1
<1>5. QED BY <1>1, <1>3, <1>4 DEF Quiet

LEMMA FewFrames ==
    /\ \A frame \in Frames \ {"ended"} : <<frame>> \in Seq(Frames) /\ Quiet(<<frame>>)
    /\ <<>> \in Seq(Frames) /\ Quiet(<<>>)
    /\ <<"error", "closed">> \in Seq(Frames) /\ Quiet(<<"error", "closed">>)
    /\ <<"ended", "closed">> \in Seq(Frames) /\ AtMostOnce(<<"ended", "closed">>)
<1>1. <<"ended", "closed">> \in Seq(Frames) /\ AtMostOnce(<<"ended", "closed">>)
  <2>1. <<"ended", "closed">>[1] = "ended" /\ <<"ended", "closed">>[2] = "closed"
        /\ DOMAIN <<"ended", "closed">> = {1, 2}
    OBVIOUS
  <2>2. QED BY <2>1 DEF AtMostOnce, Frames
<1>2. QED BY <1>1 DEF Frames, Quiet

LEMMA EndKeeps == PreviewInv /\ PreviewNext => EndInv'
<1> SUFFICES ASSUME PreviewInv, PreviewNext PROVE EndInv'
  OBVIOUS
<1>0. EndInv /\ page \in Pages /\ server \in Servers BY DEF PreviewInv, PageInv, ServerInv
<1>1. CASE PageReceives
  <2>1. /\ Head(down) = down[1] /\ Head(down) \in Frames /\ Tail(down) \in Seq(Frames)
        /\ Len(Tail(down)) = Len(down) - 1
        /\ \A i \in 1 .. Len(Tail(down)) : Tail(down)[i] = down[i + 1]
    BY <1>0, <1>1, HeadTailProperties DEF PageReceives, EndInv
  <2>2. /\ Len(down) \in Nat \ {0} /\ DOMAIN down = 1 .. Len(down)
        /\ DOMAIN Tail(down) = 1 .. Len(Tail(down))
    BY <1>0, <1>1, <2>1, LenProperties, EmptySeq DEF PageReceives, EndInv
  <2>3. /\ AtMostOnce(Tail(down)) /\ (Quiet(down) => Quiet(Tail(down)))
        /\ (Head(down) = "ended" => Quiet(Tail(down)))
    BY <1>0, <2>1, <2>2 DEF EndInv, AtMostOnce, Quiet
  <2>4. /\ down' = Tail(down) /\ UNCHANGED server
        /\ page'.ends = IF Head(down) = "ended" THEN page.ends + 1 ELSE page.ends
    BY <1>0, <1>1, <2>1 DEF PageReceives, Frames, Pages, TornDown
  <2>5. Quiet(down) => Head(down) # "ended" BY <2>1, <2>2 DEF Quiet
  <2>6. QED BY <1>0, <2>1, <2>3, <2>4, <2>5 DEF EndInv
<1>2. ASSUME NEW frames \in Seq(Frames), Quiet(frames), Sends(frames), UNCHANGED page,
             server.pc # "done"
      PROVE  EndInv'
  BY <1>0, <1>2, SentAfter DEF EndInv, Sends, AtMostOnce, Quiet
<1>3. CASE Concludes
  <2>1. PICK first \in {<<>>, <<"error">>} : Sends(first \o <<"ended", "closed">>)
    BY <1>3 DEF Concludes
  <2>2. first \in Seq(Frames) /\ Quiet(first) BY <2>1, FewFrames DEF Frames
  <2>3. /\ first \o <<"ended", "closed">> \in Seq(Frames)
        /\ AtMostOnce(first \o <<"ended", "closed">>)
    BY <2>2, FewFrames, SentAfter
  <2>4. server.pc # "done" /\ server'.pc = "done" /\ UNCHANGED page
    BY <1>0, <1>3 DEF Concludes, Servers
  <2>5. down' \in Seq(Frames) /\ AtMostOnce(down')
    BY <1>0, <2>1, <2>3, <2>4, SentAfter DEF EndInv, Sends
  <2>6. QED BY <1>0, <2>4, <2>5 DEF EndInv
<1>4. CASE Refuses \/ (CallStarts /\ Sends(<<"closed">>))
  BY <1>0, <1>2, <1>4, FewFrames DEF Refuses, CallStarts, Frames
<1>5. ASSUME NEW frame \in {"audio", "cut", "event"}, SessionSends(frame) PROVE EndInv'
  <2>1. server.pc # "done" BY <1>5 DEF SessionSends, PreviewInv, ServerInv
  <2>2. CASE server.muted BY <1>0, <1>5, <2>2 DEF SessionSends, EndInv
  <2>3. CASE ~server.muted
    <3>1. Sends(<<frame>>) /\ UNCHANGED page BY <1>5, <2>3 DEF SessionSends
    <3>2. <<frame>> \in Seq(Frames) /\ Quiet(<<frame>>) BY FewFrames DEF Frames
    <3>3. QED BY <1>2, <2>1, <3>1, <3>2
  <2>4. QED BY <2>2, <2>3
<1>6. CASE PageCloses \/ SocketBreaks
  <2>1. /\ down' \in {<<>>, <<"closed">>} /\ UNCHANGED server /\ page'.ends = page.ends
    BY <1>0, <1>6 DEF PageCloses, SocketBreaks, Pages, TornDown
  <2>2. down' \in Seq(Frames) /\ Quiet(down') BY <2>1, FewFrames DEF Frames
  <2>3. QED BY <1>0, <2>1, <2>2 DEF EndInv, AtMostOnce, Quiet
<1>7. CASE UNCHANGED down /\ page'.ends = page.ends /\ (server'.pc # "done" => server.pc # "done")
  BY <1>0, <1>7 DEF EndInv
<1>8. CASE PageStarts \/ MicGranted \/ MicDenied \/ SocketOpens \/ MicFrame \/ PageStops
  BY <1>0, <1>7, <1>8
  DEF PageStarts, MicGranted, MicDenied, SocketOpens, MicFrame, PageStops, TornDown, Pages, Servers
<1>9. CASE \/ CallStarts /\ UNCHANGED down
           \/ InboundReads \/ RaceEnds \/ \E how \in {"returned", "raised"} : SessionEnds(how)
  BY <1>0, <1>7, <1>9 DEF CallStarts, InboundReads, RaceEnds, SessionEnds, Servers
<1>10. CallStarts => UNCHANGED down \/ Sends(<<"closed">>) BY DEF CallStarts
<1>11. QED BY <1>1, <1>3, <1>4, <1>5, <1>6, <1>8, <1>9, <1>10 DEF PreviewNext

\* What a handler says last.
LEMMA SentLast ==
    ASSUME NEW s \in Seq(Frames), NEW t \in Seq(Frames), t # <<>>
    PROVE  /\ s \o t # <<>> /\ (s \o t)[Len(s \o t)] = t[Len(t)]
           /\ ~Quiet(t) => ~Quiet(s \o t)
<1>1. /\ s \o t \in Seq(Frames) /\ Len(s \o t) = Len(s) + Len(t)
      /\ \A i \in 1 .. Len(s) + Len(t) :
            (s \o t)[i] = IF i <= Len(s) THEN s[i] ELSE t[i - Len(s)]
  BY ConcatProperties
<1>2. /\ Len(s) \in Nat /\ Len(t) \in Nat \ {0} /\ DOMAIN t = 1 .. Len(t)
      /\ DOMAIN (s \o t) = 1 .. Len(s) + Len(t)
  BY <1>1, LenProperties, EmptySeq
<1>3. s \o t # <<>> BY <1>1, <1>2
<1>4. (s \o t)[Len(s \o t)] = t[Len(t)] BY <1>1, <1>2
<1>5. ASSUME ~Quiet(t) PROVE ~Quiet(s \o t)
  <2>1. PICK i \in 1 .. Len(t) : t[i] = "ended" BY <1>2, <1>5 DEF Quiet
  <2>2. Len(s) + i \in DOMAIN (s \o t) /\ (s \o t)[Len(s) + i] = t[i] BY <1>1, <1>2
  <2>3. QED BY <2>1, <2>2 DEF Quiet
<1>6. QED BY <1>3, <1>4, <1>5

LEMMA ToldKeeps == PreviewInv /\ PreviewNext => ToldInv'
<1> SUFFICES ASSUME PreviewInv, PreviewNext PROVE ToldInv'
  OBVIOUS
<1>0. /\ ToldInv /\ page \in Pages /\ server \in Servers /\ down \in Seq(Frames)
      /\ page.ends \in 0 .. 1
  BY DEF PreviewInv, PageInv, ServerInv, EndInv
<1>1. CASE PageReceives
  <2>1. /\ Head(down) = down[1] /\ Tail(down) \in Seq(Frames)
        /\ Len(Tail(down)) = Len(down) - 1
        /\ \A i \in 1 .. Len(Tail(down)) : Tail(down)[i] = down[i + 1]
    BY <1>0, <1>1, HeadTailProperties DEF PageReceives
  <2>2. /\ Len(down) \in Nat \ {0} /\ DOMAIN down = 1 .. Len(down)
        /\ DOMAIN Tail(down) = 1 .. Len(Tail(down)) /\ Head(down) \in Frames
    BY <1>0, <1>1, <2>1, LenProperties, EmptySeq, HeadTailProperties DEF PageReceives
  <2>3. /\ down' = Tail(down) /\ UNCHANGED server
        /\ page'.ends = (IF Head(down) = "ended" THEN page.ends + 1 ELSE page.ends)
        /\ page'.sock = (IF Head(down) = "closed" THEN "closed" ELSE page.sock)
    BY <1>0, <1>1, <2>2 DEF PageReceives, Frames, Pages, TornDown
  <2>4. CASE Head(down) = "closed" BY <2>3, <2>4 DEF ToldInv
  <2>5. CASE Head(down) # "closed" /\ server.pc = "done" /\ page.sock = "open"
    <3>1. /\ down[Len(down)] = "closed"
          /\ server.run # "none" => page.ends = 1 \/ ~Quiet(down)
      BY <1>0, <2>5 DEF ToldInv
    <3>2. Len(down) > 1 BY <2>1, <2>2, <2>5, <3>1
    <3>3. Tail(down) # <<>> /\ Tail(down)[Len(Tail(down))] = "closed"
      <4>1. Len(Tail(down)) >= 1 BY <2>1, <2>2, <3>2
      <4>2. Tail(down)[Len(Tail(down))] = down[Len(Tail(down)) + 1] BY <2>1, <2>2, <4>1
      <4>3. Len(Tail(down)) + 1 = Len(down) BY <2>1, <2>2
      <4>4. Tail(down) # <<>> BY <2>1, <4>1, SomeElement
      <4>5. QED BY <3>1, <4>2, <4>3, <4>4
    <3>4. Head(down) # "ended" /\ ~Quiet(down) => ~Quiet(Tail(down))
      <4> SUFFICES ASSUME Head(down) # "ended", ~Quiet(down) PROVE ~Quiet(Tail(down))
        OBVIOUS
      <4>1. PICK i \in 1 .. Len(down) : down[i] = "ended" BY <2>2 DEF Quiet
      <4>2. i # 1 BY <2>1, <4>1
      <4>3. i - 1 \in 1 .. Len(Tail(down)) BY <2>1, <2>2, <4>2
      <4>4. Tail(down)[i - 1] = "ended" BY <2>1, <4>1, <4>3
      <4>5. QED BY <2>2, <4>3, <4>4 DEF Quiet
    <3>5. Head(down) = "ended" => page.ends = 0
      BY <2>1, <2>2 DEF PreviewInv, EndInv, Quiet
    <3>6. server.run # "none" => page'.ends = 1 \/ ~Quiet(Tail(down))
      BY <2>3, <3>1, <3>4, <3>5
    <3>7. QED BY <2>3, <3>3, <3>6 DEF ToldInv
  <2>6. CASE server.pc # "done" \/ (Head(down) # "closed" /\ page.sock # "open")
    BY <2>3, <2>6 DEF ToldInv
  <2>7. QED BY <2>4, <2>5, <2>6
<1>2. CASE Concludes
  <2>1. PICK first \in {<<>>, <<"error">>} : Sends(first \o <<"ended", "closed">>)
    BY <1>2 DEF Concludes
  <2>2. PICK said \in Seq(Frames) : /\ said = first \o <<"ended", "closed">> /\ said # <<>>
                                     /\ said[Len(said)] = "closed" /\ ~Quiet(said)
    <3>1. first \in Seq(Frames) /\ <<"ended", "closed">> \in Seq(Frames) BY <2>1, FewFrames DEF Frames
    <3>2. /\ <<"ended", "closed">> # <<>> /\ Len(<<"ended", "closed">>) = 2
          /\ <<"ended", "closed">>[2] = "closed" /\ <<"ended", "closed">>[1] = "ended"
          /\ DOMAIN <<"ended", "closed">> = {1, 2}
      OBVIOUS
    <3>3. ~Quiet(<<"ended", "closed">>) BY <3>2 DEF Quiet
    <3>4. first \o <<"ended", "closed">> \in Seq(Frames) BY <3>1, ConcatProperties
    <3>5. QED BY <3>1, <3>2, <3>3, <3>4, SentLast
  <2>3. UNCHANGED page /\ Sends(said) BY <1>2, <2>1, <2>2 DEF Concludes
  <2>4. QED BY <1>0, <2>2, <2>3, SentLast DEF Sends, Reachable, ToldInv
<1>3. CASE Refuses \/ (CallStarts /\ server'.pc = "done")
  <2>1. PICK said \in {<<"error", "closed">>, <<"closed">>} : Sends(said)
    BY <1>0, <1>3 DEF Refuses, CallStarts, Servers
  <2>2. /\ said \in Seq(Frames) /\ said # <<>> /\ said[Len(said)] = "closed"
    <3>1. CASE said = <<"error", "closed">>
      <4>1. said \in Seq(Frames) BY <3>1, FewFrames DEF Frames
      <4>2. Len(said) = 2 /\ said[2] = "closed" /\ said # <<>> BY <3>1
      <4>3. QED BY <4>1, <4>2
    <3>2. CASE said = <<"closed">>
      <4>1. said \in Seq(Frames) BY <3>2, FewFrames DEF Frames
      <4>2. Len(said) = 1 /\ said[1] = "closed" /\ said # <<>> BY <3>2
      <4>3. QED BY <4>1, <4>2
    <3>3. QED BY <2>1, <3>1, <3>2
  <2>3. UNCHANGED page /\ server'.run = "none"
    BY <1>0, <1>3 DEF Refuses, CallStarts, PreviewInv, ServerInv, Servers
  <2>4. QED BY <1>0, <2>1, <2>2, <2>3, SentLast DEF Sends, Reachable, ToldInv
<1>4. CASE MicGranted \/ PageStops \/ PageCloses \/ SocketBreaks
  BY <1>0, <1>4 DEF MicGranted, PageStops, PageCloses, SocketBreaks, Closes, TornDown, Pages, ToldInv
<1>5. CASE SocketOpens BY <1>0, <1>5 DEF SocketOpens, Servers, ToldInv
<1>6. CASE PageStarts \/ MicDenied \/ MicFrame
  BY <1>0, <1>6 DEF PageStarts, MicDenied, MicFrame, Pages, ToldInv
<1>7. CASE CallStarts /\ server'.pc # "done" BY <1>7 DEF ToldInv
<1>8. CASE InboundReads \/ RaceEnds
  BY <1>0, <1>8 DEF InboundReads, RaceEnds, PreviewInv, ServerInv, Servers, ToldInv
<1>9. ASSUME NEW frame \in {"audio", "cut", "event"}, SessionSends(frame) PROVE ToldInv'
  BY <1>0, <1>9 DEF SessionSends, Reachable, PreviewInv, ServerInv, Servers, ToldInv
<1>10. ASSUME NEW how \in {"returned", "raised"}, SessionEnds(how) PROVE ToldInv'
  BY <1>0, <1>10 DEF SessionEnds, PreviewInv, ServerInv, Servers, ToldInv
<1>11. QED
  BY <1>1, <1>2, <1>3, <1>4, <1>5, <1>6, <1>7, <1>8, <1>9, <1>10 DEF PreviewNext

LEMMA PreviewInvariant == Spec => [](PreviewInv /\ PreviewTypeOK)
<1>1. PreviewInit => PreviewInv
  BY EmptySeq
  DEF PreviewInit, PreviewInv, PageInv, ServerInv, EndInv, ToldInv, Pages, Servers, Over, AtMostOnce,
      Quiet
<1>2. PreviewInv /\ [PreviewNext]_previewVars => PreviewInv'
  <2>1. PreviewInv /\ UNCHANGED previewVars => PreviewInv'
    BY DEF previewVars, PreviewInv, PageInv, ServerInv, EndInv, ToldInv
  <2>2. QED BY <2>1, PageKeeps, ServerKeeps, EndKeeps, ToldKeeps DEF PreviewInv
<1>3. PreviewInv => PreviewTypeOK
  BY DEF PreviewInv, PageInv, ServerInv, Pages, Servers, PreviewTypeOK, Over
<1>4. QED BY <1>1, <1>2, <1>3, PreviewIsAPart, PTL DEF PreviewSpec

\* What says that the call ended, counted.
LEMMA TellsAreFew ==
    ASSUME EndInv
    PROVE  /\ Quiet(down) => Tells = {} /\ Cardinality(Tells) = 0
           /\ ~Quiet(down) => Cardinality(Tells) = 1
<1>1. CASE Quiet(down)
  <2>1. Tells = {} BY <1>1 DEF Quiet, Tells
  <2>2. QED BY <1>1, <2>1, FS_EmptySet
<1>2. CASE ~Quiet(down)
  <2>1. PICK i \in DOMAIN down : down[i] = "ended" BY <1>2 DEF Quiet
  <2>2. Tells = {i} BY <2>1 DEF EndInv, AtMostOnce, Tells
  <2>3. QED BY <1>2, <2>2, FS_Singleton
<1>3. QED BY <1>1, <1>2

\* A preview call leaves nothing behind (preview_transport.py, liveVoiceSession.ts),
\* and its page is told once that it ended, whoever ends it and however many frames
\* are under way.
THEOREM PreviewsAreTornDown == Spec => []PreviewIsTornDown
<1>1. PreviewInv => PreviewIsTornDown
  <2> SUFFICES ASSUME PreviewInv PROVE PreviewIsTornDown
    OBVIOUS
  <2>0. /\ EndInv /\ ToldInv /\ down \in Seq(Frames) /\ page.ends \in 0 .. 1
        /\ page.ends = 1 => Quiet(down)
    BY DEF PreviewInv, EndInv
  <2>1. server.pc = "done" => server.run # "running" /\ server.inbound # "running"
    BY DEF PreviewInv, ServerInv, Servers
  <2>2. server.pc # "done" => page.ends = 0 /\ Tells = {} BY <2>0, TellsAreFew DEF EndInv
  <2>3. page.ends + Cardinality(Tells) <= 1 BY <2>0, TellsAreFew
  <2>4. ASSUME server.pc = "done", page.sock = "open"
        PROVE  /\ down # <<>> /\ Last(down) = "closed"
               /\ server.run # "none" => page.ends + Cardinality(Tells) = 1
    BY <2>0, <2>4, TellsAreFew DEF ToldInv, Last
  <2>5. /\ page.sock = "closed" => page.status \in Over
        /\ page.status \in Over /\ ~page.hurried => page.mic # "on" /\ ~page.playing
    BY DEF PreviewInv, PageInv
  <2>6. QED BY <2>1, <2>2, <2>3, <2>4, <2>5 DEF PreviewIsTornDown
<1>2. QED BY <1>1, PreviewInvariant, PTL

(***************************************************************************)
(* The event log and its streams.                                          *)
(***************************************************************************)
Emitted == Produced \cup {StoredEvent(Viewer, c, type) : c \in Campaigns, type \in Lifecycle}

StreamStates == [pc : {"off", "backfill", "tail", "closed"}, todo : SUBSET Nat, queue : Seq(Nat),
                 dropped : Nat, after : Nat, upto : Nat, sent : Seq(Nat), gone : BOOLEAN]

Ascending(q) == \A i, j \in DOMAIN q : i < j => q[i] < q[j]

\* Nothing that the stream owes is lost unless its queue overflowed.
Complete(r, owed) ==
    r.dropped = 0 =>
       /\ r.pc \in {"backfill", "tail"} => owed \subseteq r.todo \cup ToSet(r.queue) \cup ToSet(r.sent)
       /\ \A x \in ToSet(r.sent) : \A n \in owed : n < x => n \in ToSet(r.sent)

\* What was sent comes before what the query still has, and that before the queue.
Sound(r, len, seen) ==
    /\ r \in StreamStates /\ r.after <= len /\ r.upto <= len /\ Len(r.queue) <= QueueSize
    /\ Ascending(r.queue) /\ Ascending(r.sent)
    /\ r.todo \cup ToSet(r.queue) \cup ToSet(r.sent) \subseteq {n \in seen : n > r.after}
    /\ \A x \in ToSet(r.sent) : \A y \in r.todo : x < y
    /\ \A x \in r.todo \cup ToSet(r.sent) \cup {r.upto} : \A y \in ToSet(r.queue) : x < y
    /\ r.pc = "tail" => r.todo = {}
    /\ Complete(r, {n \in seen : n > r.after})

FeedInv ==
    /\ log \in Seq(Emitted) /\ Len(log) <= MaxLog
    /\ streams \in [Streams -> StreamStates]
    /\ \A s \in Streams : Sound(streams[s], Len(log), MatchingAfter(0))

LEMMA AscendingAppend ==
    ASSUME NEW q \in Seq(Nat), Ascending(q), NEW x \in Nat, \A y \in ToSet(q) : y < x
    PROVE  /\ Append(q, x) \in Seq(Nat) /\ Len(Append(q, x)) = Len(q) + 1
           /\ Ascending(Append(q, x)) /\ ToSet(Append(q, x)) = ToSet(q) \cup {x}
<1>1. /\ Append(q, x) \in Seq(Nat) /\ Len(Append(q, x)) = Len(q) + 1
      /\ \A i \in 1 .. Len(q) : Append(q, x)[i] = q[i]
      /\ Append(q, x)[Len(q) + 1] = x
  BY AppendProperties
<1>2. /\ Len(q) \in Nat /\ DOMAIN q = 1 .. Len(q)
      /\ DOMAIN Append(q, x) = 1 .. Len(q) + 1
  BY <1>1, LenProperties
<1>3. ToSet(Append(q, x)) = ToSet(q) \cup {x} BY <1>1, <1>2 DEF ToSet
<1>4. Ascending(Append(q, x)) BY <1>1, <1>2 DEF Ascending, ToSet
<1>5. QED BY <1>1, <1>3, <1>4

LEMMA AscendingTail ==
    ASSUME NEW q \in Seq(Nat), Ascending(q), q # <<>>
    PROVE  /\ Tail(q) \in Seq(Nat) /\ Len(Tail(q)) = Len(q) - 1 /\ Head(q) \in Nat
           /\ Ascending(Tail(q)) /\ ToSet(q) = {Head(q)} \cup ToSet(Tail(q))
           /\ \A y \in ToSet(Tail(q)) : Head(q) < y
<1>1. /\ Tail(q) \in Seq(Nat) /\ Len(Tail(q)) = Len(q) - 1 /\ Head(q) \in Nat /\ Head(q) = q[1]
      /\ \A i \in 1 .. Len(Tail(q)) : Tail(q)[i] = q[i + 1]
  BY HeadTailProperties
<1>2. /\ Len(q) \in Nat \ {0} /\ DOMAIN q = 1 .. Len(q)
      /\ DOMAIN Tail(q) = 1 .. Len(q) - 1
  BY <1>1, LenProperties, EmptySeq
<1>3. Ascending(Tail(q))
  <2> SUFFICES ASSUME NEW i \in 1 .. Len(q) - 1, NEW j \in 1 .. Len(q) - 1, i < j
               PROVE  Tail(q)[i] < Tail(q)[j]
    BY <1>2 DEF Ascending
  <2>1. i + 1 \in DOMAIN q /\ j + 1 \in DOMAIN q /\ i + 1 < j + 1 BY <1>2
  <2>2. q[i + 1] < q[j + 1] BY <2>1 DEF Ascending
  <2>3. Tail(q)[i] = q[i + 1] /\ Tail(q)[j] = q[j + 1] BY <1>1
  <2>4. QED BY <2>2, <2>3
<1>4. \A y \in ToSet(Tail(q)) : Head(q) < y BY <1>1, <1>2 DEF Ascending, ToSet
<1>5. ToSet(q) = {Head(q)} \cup ToSet(Tail(q))
  <2>1. \A i \in 1 .. Len(q) : i = 1 \/ (i - 1 \in 1 .. Len(q) - 1 /\ q[i] = Tail(q)[i - 1])
    BY <1>1, <1>2
  <2>2. ASSUME NEW y \in ToSet(q) PROVE y = Head(q) \/ y \in ToSet(Tail(q))
    <3>1. PICK i \in 1 .. Len(q) : y = q[i] BY <1>2 DEF ToSet
    <3>2. QED BY <1>1, <1>2, <2>1, <3>1 DEF ToSet
  <2>3. ASSUME NEW y \in ToSet(Tail(q)) PROVE y \in ToSet(q)
    <3>1. PICK i \in 1 .. Len(q) - 1 : y = q[i + 1] BY <1>1, <1>2 DEF ToSet
    <3>2. i + 1 \in 1 .. Len(q) BY <1>2
    <3>3. QED BY <1>2, <3>1, <3>2 DEF ToSet
  <2>4. Head(q) \in ToSet(q) BY <1>1, <1>2 DEF ToSet
  <2>5. QED BY <2>2, <2>3, <2>4
<1>6. QED BY <1>1, <1>3, <1>4, <1>5

LEMMA NotOpenTyped == NotOpen \in StreamStates /\ ToSet(NotOpen.queue) = {} /\ ToSet(NotOpen.sent) = {}
BY EmptySeq DEF NotOpen, StreamStates, ToSet

\* The query answers all that is owed so far.
LEMMA OpenedIsSound ==
    ASSUME NEW len \in Nat, NEW seen \in SUBSET (1 .. len), NEW after \in 0 .. len
    PROVE  Sound([NotOpen EXCEPT !.pc = "backfill", !.todo = {n \in seen : n > after},
                                 !.after = after, !.upto = after], len, seen)
<1> DEFINE r == [NotOpen EXCEPT !.pc = "backfill", !.todo = {n \in seen : n > after},
                                !.after = after, !.upto = after]
<1>0. after \in Nat /\ seen \subseteq Nat OBVIOUS
<1>1. PICK owed \in SUBSET Nat : owed = {n \in seen : n > after} BY <1>0
<1>2. /\ r \in StreamStates /\ r.pc = "backfill" /\ r.todo = owed
      /\ r.after = after /\ r.upto = after /\ r.queue = <<>> /\ r.sent = <<>>
  <2>1. r = [NotOpen EXCEPT !.pc = "backfill", !.todo = owed, !.after = after, !.upto = after]
    BY <1>1
  <2> HIDE DEF r
  <2>2. r \in StreamStates BY <1>0, <2>1, NotOpenTyped DEF StreamStates
  <2>3. QED BY <2>1, <2>2 DEF NotOpen, StreamStates
<1> HIDE DEF r
<1>3. ToSet(r.queue) = {} /\ ToSet(r.sent) = {} /\ Ascending(r.queue) /\ Ascending(r.sent)
  BY <1>2 DEF ToSet, Ascending
<1>4. /\ Len(r.queue) <= QueueSize /\ r.after <= len /\ r.upto <= len
      /\ r.todo = {n \in seen : n > r.after} /\ r.pc # "tail"
  BY <1>0, <1>1, <1>2, EmptySeq, FeedAssumption
<1>5. Complete(r, {n \in seen : n > r.after}) BY <1>3, <1>4 DEF Complete
<1>6. Sound(r, len, seen)
  BY <1>2, <1>3, <1>4, <1>5 DEF Sound
<1>7. QED BY <1>6 DEF r

LEMMA BackfillSends ==
    ASSUME NEW len \in Nat, NEW seen \in SUBSET (1 .. len), NEW r, Sound(r, len, seen),
           r.pc = "backfill", NEW first \in r.todo, \A other \in r.todo : first <= other
    PROVE  Sound([r EXCEPT !.sent = Append(@, first), !.upto = first, !.todo = @ \ {first}], len, seen)
<1> DEFINE t == [r EXCEPT !.sent = Append(@, first), !.upto = first, !.todo = @ \ {first}]
<1>1. r \in StreamStates /\ first \in Nat /\ first <= len BY DEF Sound, StreamStates
<1>2. /\ Append(r.sent, first) \in Seq(Nat)
      /\ Ascending(Append(r.sent, first)) /\ ToSet(Append(r.sent, first)) = ToSet(r.sent) \cup {first}
  <2>1. r.sent \in Seq(Nat) BY <1>1 DEF StreamStates
  <2>2. QED BY <1>1, <2>1, AscendingAppend DEF Sound
<1>3. /\ t \in StreamStates /\ t.sent = Append(r.sent, first) /\ t.upto = first
      /\ t.todo = r.todo \ {first} /\ t.pc = r.pc /\ t.queue = r.queue
      /\ t.dropped = r.dropped /\ t.after = r.after
  BY <1>1, <1>2 DEF StreamStates
<1> HIDE DEF t
<1>4. \A y \in t.todo : first < y
  <2>1. \A y \in t.todo : y \in Nat /\ first <= y /\ y # first BY <1>1, <1>3 DEF StreamStates
  <2>2. QED BY <1>1, <2>1
<1>5. Complete(t, {n \in seen : n > t.after})
  <2> SUFFICES ASSUME t.dropped = 0
               PROVE  /\ {n \in seen : n > t.after} \subseteq t.todo \cup ToSet(t.queue) \cup ToSet(t.sent)
                      /\ \A x \in ToSet(t.sent) : \A n \in seen :
                            n > t.after /\ n < x => n \in ToSet(t.sent)
    BY DEF Complete
  <2>1. {n \in seen : n > t.after} \subseteq t.todo \cup ToSet(t.queue) \cup ToSet(t.sent)
    BY <1>2, <1>3 DEF Sound, Complete
  <2>2. \A y \in t.todo : first < y BY <1>4
  <2>3. \A y \in ToSet(t.queue) : first < y BY <1>3 DEF Sound
  <2>4. \A x \in ToSet(r.sent) : \A n \in seen : n > r.after /\ n < x => n \in ToSet(r.sent)
    BY <1>3 DEF Sound, Complete
  <2>5. QED BY <1>1, <1>2, <1>3, <2>1, <2>2, <2>3, <2>4
<1>6. \A x \in ToSet(t.sent) : \A y \in t.todo : x < y BY <1>2, <1>3, <1>4 DEF Sound
<1>7. \A x \in t.todo \cup ToSet(t.sent) \cup {t.upto} : \A y \in ToSet(t.queue) : x < y
  BY <1>2, <1>3 DEF Sound
<1>8. t.todo \cup ToSet(t.queue) \cup ToSet(t.sent) \subseteq {n \in seen : n > t.after}
  BY <1>2, <1>3 DEF Sound
<1>9. Len(t.queue) <= QueueSize /\ t.after <= len /\ t.upto <= len /\ t.pc # "tail"
  BY <1>1, <1>3 DEF Sound
<1>10. Ascending(t.queue) /\ Ascending(t.sent) BY <1>2, <1>3 DEF Sound
<1>11. Sound(t, len, seen)
  BY <1>3, <1>5, <1>6, <1>7, <1>8, <1>9, <1>10 DEF Sound
<1>12. QED BY <1>11 DEF t

LEMMA TailSends ==
    ASSUME NEW len \in Nat, NEW seen \in SUBSET (1 .. len), NEW r, Sound(r, len, seen),
           r.pc = "tail", r.queue # <<>>
    PROVE  /\ ~(Head(r.queue) <= r.upto)
           /\ Sound([r EXCEPT !.queue = Tail(@), !.sent = Append(@, Head(r.queue))], len, seen)
<1> DEFINE first == Head(r.queue)
           t == [r EXCEPT !.queue = Tail(@), !.sent = Append(@, first)]
<1>1. r \in StreamStates /\ r.todo = {} BY DEF Sound
<1>2. /\ Tail(r.queue) \in Seq(Nat) /\ Len(Tail(r.queue)) = Len(r.queue) - 1 /\ first \in Nat
      /\ Ascending(Tail(r.queue)) /\ ToSet(r.queue) = {first} \cup ToSet(Tail(r.queue))
      /\ \A y \in ToSet(Tail(r.queue)) : first < y
  <2>1. r.queue \in Seq(Nat) BY <1>1 DEF StreamStates
  <2>2. QED BY <2>1, AscendingTail DEF Sound
<1>3. r.upto < first /\ \A x \in ToSet(r.sent) : x < first BY <1>2 DEF Sound
<1>4. /\ Append(r.sent, first) \in Seq(Nat)
      /\ Ascending(Append(r.sent, first)) /\ ToSet(Append(r.sent, first)) = ToSet(r.sent) \cup {first}
  <2>1. r.sent \in Seq(Nat) BY <1>1 DEF StreamStates
  <2>2. QED BY <1>2, <1>3, <2>1, AscendingAppend DEF Sound
<1>5. /\ t \in StreamStates /\ t.sent = Append(r.sent, first) /\ t.upto = r.upto
      /\ t.todo = {} /\ t.pc = r.pc /\ t.queue = Tail(r.queue)
      /\ t.dropped = r.dropped /\ t.after = r.after
  BY <1>1, <1>2, <1>4 DEF StreamStates
<1>6. r.upto \in Nat /\ Len(r.queue) \in Nat BY <1>1, LenProperties DEF StreamStates
<1> HIDE DEF t, first
<1>7. Complete(t, {n \in seen : n > t.after})
  <2> SUFFICES ASSUME t.dropped = 0
               PROVE  /\ {n \in seen : n > t.after} \subseteq t.todo \cup ToSet(t.queue) \cup ToSet(t.sent)
                      /\ \A x \in ToSet(t.sent) : \A n \in seen :
                            n > t.after /\ n < x => n \in ToSet(t.sent)
    BY DEF Complete
  <2>1. {n \in seen : n > t.after} \subseteq t.todo \cup ToSet(t.queue) \cup ToSet(t.sent)
    BY <1>1, <1>2, <1>4, <1>5 DEF Sound, Complete
  <2>2. \A x \in ToSet(r.sent) : \A n \in seen : n > r.after /\ n < x => n \in ToSet(r.sent)
    BY <1>5 DEF Sound, Complete
  <2>3. QED BY <1>2, <1>4, <1>5, <2>1, <2>2
<1>8. \A x \in t.todo \cup ToSet(t.sent) \cup {t.upto} : \A y \in ToSet(t.queue) : x < y
  BY <1>2, <1>4, <1>5 DEF Sound
<1>9. t.todo \cup ToSet(t.queue) \cup ToSet(t.sent) \subseteq {n \in seen : n > t.after}
  BY <1>1, <1>2, <1>4, <1>5 DEF Sound
<1>10. /\ Len(t.queue) <= QueueSize /\ t.after <= len /\ t.upto <= len
       /\ \A x \in ToSet(t.sent) : \A y \in t.todo : x < y
  <2>1. Len(r.queue) <= QueueSize /\ r.after <= len /\ r.upto <= len BY DEF Sound
  <2>2. QED BY <1>2, <1>5, <1>6, <2>1, FeedAssumption
<1>11. Sound(t, len, seen)
  BY <1>2, <1>4, <1>5, <1>7, <1>8, <1>9, <1>10 DEF Sound
<1>12. ~(first <= r.upto)
  <2>1. first \in Nat BY <1>2
  <2>2. QED BY <1>3, <1>6, <2>1
<1>13. QED BY <1>11, <1>12 DEF t, first

\* An event that the stream follows: the queue keeps the order, or has overflowed.
Queued(r, seq) ==
    [r EXCEPT !.queue = Offer(@, seq), !.dropped = IF Len(r.queue) = QueueSize THEN @ + 1 ELSE @]

LEMMA OfferedIsSound ==
    ASSUME NEW len \in Nat, NEW seen \in SUBSET (1 .. len), NEW r, Sound(r, len, seen)
    PROVE  Sound(Queued(r, len + 1), len + 1, seen \cup {len + 1})
<1> DEFINE t == Queued(r, len + 1)
           now1 == seen \cup {len + 1}
<1>1. r \in StreamStates /\ r.queue \in Seq(Nat) /\ Len(r.queue) \in Nat /\ len + 1 \in Nat
  BY LenProperties DEF Sound, StreamStates
<1>2. /\ r.after < len + 1 /\ r.upto < len + 1 /\ r.after \in Nat /\ r.upto \in Nat
      /\ \A x \in r.todo \cup ToSet(r.queue) \cup ToSet(r.sent) : x < len + 1
  <2>1. \A x \in seen : x < len + 1 OBVIOUS
  <2>2. QED BY <1>1, <2>1 DEF Sound, StreamStates
<1>3. PICK kept \in Seq(Nat) :
         /\ kept = IF Len(r.queue) = QueueSize THEN Tail(r.queue) ELSE r.queue
         /\ Ascending(kept) /\ ToSet(kept) \subseteq ToSet(r.queue) /\ Len(kept) + 1 <= QueueSize
  <2>1. CASE Len(r.queue) = QueueSize
    <3>1. r.queue # <<>> BY <2>1, FeedAssumption, EmptySeq
    <3>2. /\ Tail(r.queue) \in Seq(Nat) /\ Len(Tail(r.queue)) = Len(r.queue) - 1
          /\ Ascending(Tail(r.queue)) /\ ToSet(Tail(r.queue)) \subseteq ToSet(r.queue)
      BY <1>1, <3>1, AscendingTail DEF Sound
    <3>3. Len(Tail(r.queue)) + 1 <= QueueSize BY <1>1, <2>1, <3>2, FeedAssumption
    <3>4. QED BY <2>1, <3>2, <3>3
  <2>2. CASE Len(r.queue) # QueueSize
    <3>1. Len(r.queue) <= QueueSize /\ Ascending(r.queue) BY DEF Sound
    <3>2. Len(r.queue) + 1 <= QueueSize BY <1>1, <2>2, <3>1, FeedAssumption
    <3>3. QED BY <1>1, <2>2, <3>1, <3>2
  <2>3. QED BY <2>1, <2>2
<1>4. /\ Append(kept, len + 1) \in Seq(Nat) /\ Len(Append(kept, len + 1)) = Len(kept) + 1
      /\ Ascending(Append(kept, len + 1)) /\ ToSet(Append(kept, len + 1)) = ToSet(kept) \cup {len + 1}
  <2>1. \A y \in ToSet(kept) : y < len + 1 BY <1>2, <1>3
  <2>2. QED BY <1>1, <1>3, <2>1, AscendingAppend
<1>5. PICK lost \in Nat :
         /\ lost = IF Len(r.queue) = QueueSize THEN r.dropped + 1 ELSE r.dropped
         /\ lost = 0 => kept = r.queue /\ r.dropped = 0
  BY <1>1, <1>3 DEF StreamStates
<1>6. t = [r EXCEPT !.queue = Append(kept, len + 1), !.dropped = lost]
  BY <1>1, <1>3, <1>5 DEF Queued, Offer, StreamStates
<1> HIDE DEF t
<1>7. /\ t \in StreamStates /\ t.queue = Append(kept, len + 1) /\ t.dropped = lost
      /\ t.sent = r.sent /\ t.upto = r.upto /\ t.todo = r.todo /\ t.pc = r.pc /\ t.after = r.after
  BY <1>1, <1>4, <1>5, <1>6 DEF StreamStates
<1>8. Complete(t, {n \in now1 : n > t.after})
  <2> SUFFICES ASSUME t.dropped = 0
               PROVE  /\ t.pc \in {"backfill", "tail"} => {n \in now1 : n > t.after}
                            \subseteq t.todo \cup ToSet(t.queue) \cup ToSet(t.sent)
                      /\ \A x \in ToSet(t.sent) : \A n \in now1 :
                            n > t.after /\ n < x => n \in ToSet(t.sent)
    BY DEF Complete
  <2>1. ToSet(t.queue) = ToSet(r.queue) \cup {len + 1} /\ r.dropped = 0 BY <1>4, <1>5, <1>7
  <2>2. r.pc \in {"backfill", "tail"} => {n \in seen : n > r.after}
            \subseteq r.todo \cup ToSet(r.queue) \cup ToSet(r.sent)
    BY <2>1 DEF Sound, Complete
  <2>3. \A x \in ToSet(r.sent) : \A n \in seen : n > r.after /\ n < x => n \in ToSet(r.sent)
    BY <2>1 DEF Sound, Complete
  <2>4. \A x \in ToSet(r.sent) : x \in Nat /\ x < len + 1
    <3>1. \A x \in seen : x \in Nat OBVIOUS
    <3>2. QED BY <1>2, <3>1 DEF Sound
  <2>5. QED BY <1>7, <2>1, <2>2, <2>3, <2>4
<1>9. /\ Len(t.queue) <= QueueSize /\ t.after <= len + 1 /\ t.upto <= len + 1
      /\ t.pc = "tail" => t.todo = {}
      /\ \A x \in ToSet(t.sent) : \A y \in t.todo : x < y
  <2>1. /\ r.pc = "tail" => r.todo = {}
        /\ \A x \in ToSet(r.sent) : \A y \in r.todo : x < y
    BY DEF Sound
  <2>2. r.after <= len + 1 /\ r.upto <= len + 1 BY <1>2
  <2>3. QED BY <1>3, <1>4, <1>7, <2>1, <2>2
<1>10. t.todo \cup ToSet(t.queue) \cup ToSet(t.sent) \subseteq {n \in now1 : n > t.after}
  <2>1. r.todo \cup ToSet(r.queue) \cup ToSet(r.sent) \subseteq {n \in seen : n > r.after}
    BY DEF Sound
  <2>2. len + 1 > r.after BY <1>2
  <2>3. QED BY <1>3, <1>4, <1>7, <2>1, <2>2
<1>11. \A x \in t.todo \cup ToSet(t.sent) \cup {t.upto} : \A y \in ToSet(t.queue) : x < y
  <2>1. \A x \in r.todo \cup ToSet(r.sent) \cup {r.upto} : \A y \in ToSet(r.queue) : x < y
    BY DEF Sound
  <2>2. QED BY <1>2, <1>3, <1>4, <1>7, <2>1
<1>12. Ascending(t.queue) /\ Ascending(t.sent) BY <1>4, <1>7 DEF Sound
<1>13. Sound(t, len + 1, now1)
  <2> HIDE DEF now1
  <2>1. QED BY <1>7, <1>8, <1>9, <1>10, <1>11, <1>12 DEF Sound
<1>14. QED BY <1>13 DEF t

\* An event that it does not follow.
LEMMA PassedIsSound ==
    ASSUME NEW len \in Nat, NEW seen \in SUBSET (1 .. len), NEW r, Sound(r, len, seen),
           NEW more \in SUBSET {len + 1}, more = {} \/ r.pc \notin {"backfill", "tail"}
    PROVE  Sound(r, len + 1, seen \cup more)
<1>1. r \in StreamStates /\ r.after <= len + 1 /\ r.upto <= len + 1
  BY DEF Sound, StreamStates
<1>2. \A x \in ToSet(r.sent) : x \in Nat /\ x < len + 1
  <2>1. \A x \in seen : x \in Nat /\ x < len + 1 OBVIOUS
  <2>2. QED BY <2>1 DEF Sound
<1>3. Complete(r, {n \in seen \cup more : n > r.after})
  <2>1. r.dropped = 0 => \A x \in ToSet(r.sent) : \A n \in seen : n > r.after /\ n < x => n \in ToSet(r.sent)
    BY DEF Sound, Complete
  <2>2. r.dropped = 0 => \A x \in ToSet(r.sent) : \A n \in seen \cup more :
            n > r.after /\ n < x => n \in ToSet(r.sent)
    BY <1>2, <2>1
  <2>3. CASE more = {}
    <3>1. seen \cup more = seen BY <2>3
    <3>2. QED BY <3>1 DEF Sound
  <2>4. CASE r.pc \notin {"backfill", "tail"} BY <2>2, <2>4 DEF Complete
  <2>5. QED BY <2>3, <2>4
<1>4. r.todo \cup ToSet(r.queue) \cup ToSet(r.sent) \subseteq {n \in seen \cup more : n > r.after}
  BY DEF Sound
<1>5. QED BY <1>1, <1>3, <1>4 DEF Sound

\* A stream that stops forgets what it owed.
LEMMA StoppedIsSound ==
    ASSUME NEW len, NEW seen, NEW r, Sound(r, len, seen)
    PROVE  Sound([r EXCEPT !.pc = "closed", !.todo = {}, !.queue = <<>>], len, seen)
<1> DEFINE t == [r EXCEPT !.pc = "closed", !.todo = {}, !.queue = <<>>]
<1>1. /\ t \in StreamStates /\ t.pc = "closed" /\ t.todo = {} /\ t.queue = <<>>
      /\ t.dropped = r.dropped /\ t.after = r.after /\ t.upto = r.upto /\ t.sent = r.sent
  BY EmptySeq DEF Sound, StreamStates
<1> HIDE DEF t
<1>2. ToSet(t.queue) = {} /\ Ascending(t.queue) /\ Len(t.queue) <= QueueSize
  BY <1>1, EmptySeq, FeedAssumption DEF ToSet, Ascending
<1>3. Complete(t, {n \in seen : n > t.after}) BY <1>1 DEF Sound, Complete
<1>4. Sound(t, len, seen) BY <1>1, <1>2, <1>3 DEF Sound
<1>5. QED BY <1>4 DEF t

LEMMA StreamMoves ==
    ASSUME FeedInv, NEW s \in Streams, NEW r, Sound(r, Len(log), MatchingAfter(0)),
           streams' = [streams EXCEPT ![s] = r], UNCHANGED log
    PROVE  FeedInv'
<1>1. r \in StreamStates BY DEF Sound
<1>2. streams' \in [Streams -> StreamStates] BY <1>1 DEF FeedInv
<1>3. MatchingAfter(0)' = MatchingAfter(0) BY DEF MatchingAfter
<1>4. \A q \in Streams : Sound(streams'[q], Len(log'), MatchingAfter(0)') BY <1>3 DEF FeedInv
<1>5. QED BY <1>2, <1>4 DEF FeedInv

LEMMA MatchingIsInTheLog ==
    ASSUME FeedInv
    PROVE  /\ Len(log) \in Nat /\ DOMAIN log = 1 .. Len(log)
           /\ MatchingAfter(0) \in SUBSET (1 .. Len(log))
           /\ \A n \in Nat : MatchingAfter(n) = {i \in MatchingAfter(0) : i > n}
<1>1. Len(log) \in Nat /\ DOMAIN log = 1 .. Len(log) BY LenProperties DEF FeedInv
<1>2. \A n \in Nat : \A i \in 1 .. Len(log) : i > n => i > 0 BY <1>1
<1>3. QED BY <1>1, <1>2 DEF MatchingAfter

\* An event is stored and offered to every subscription in one step.
LEMMA EmitKeeps ==
    ASSUME FeedInv, NEW event \in Emitted, Emit(event)
    PROVE  FeedInv'
<1> DEFINE more == IF Matches(event) THEN {Len(log) + 1} ELSE {}
<1>1. /\ Len(log) \in Nat /\ DOMAIN log = 1 .. Len(log) /\ MatchingAfter(0) \in SUBSET (1 .. Len(log))
      /\ log \in Seq(Emitted)
  BY MatchingIsInTheLog DEF FeedInv
<1>2. /\ log' \in Seq(Emitted) /\ Len(log') = Len(log) + 1 /\ log'[Len(log) + 1] = event
      /\ \A i \in 1 .. Len(log) : log'[i] = log[i]
  <2>1. log' = Append(log, event) BY DEF Emit
  <2>2. QED BY <1>1, <2>1, AppendProperties
<1>3. DOMAIN log' = 1 .. Len(log) + 1 BY <1>2, LenProperties
<1>4. MatchingAfter(0)' = MatchingAfter(0) \cup more
  BY <1>1, <1>2, <1>3 DEF MatchingAfter, Matches
<1>5. ASSUME NEW s \in Streams
      PROVE  /\ streams'[s] \in StreamStates
             /\ Sound(streams'[s], Len(log) + 1, MatchingAfter(0) \cup more)
  <2>1. Sound(streams[s], Len(log), MatchingAfter(0)) BY DEF FeedInv
  <2>2. CASE Subscribed(s) /\ Matches(event)
    <3>1. streams'[s] = Queued(streams[s], Len(log) + 1)
      BY <2>2 DEF Emit, Queued
    <3>2. Sound(streams'[s], Len(log) + 1, MatchingAfter(0) \cup {Len(log) + 1})
      BY <1>1, <2>1, <3>1, OfferedIsSound
    <3>3. QED BY <2>2, <3>2 DEF Sound
  <2>3. CASE ~(Subscribed(s) /\ Matches(event))
    <3>1. streams'[s] = streams[s] BY <2>3 DEF Emit
    <3>2. more = {} \/ streams[s].pc \notin {"backfill", "tail"} BY <2>3 DEF Subscribed
    <3>3. more \in SUBSET {Len(log) + 1} OBVIOUS
    <3> HIDE DEF more
    <3>4. Sound(streams'[s], Len(log) + 1, MatchingAfter(0) \cup more)
      BY <1>1, <2>1, <3>1, <3>2, <3>3, PassedIsSound
    <3>5. QED BY <3>4 DEF Sound
  <2>4. QED BY <2>2, <2>3
<1> HIDE DEF more
<1>6. streams' \in [Streams -> StreamStates] BY <1>5 DEF Emit
<1>7. Len(log') <= MaxLog
  <2>1. Len(log) < MaxLog BY DEF Emit
  <2>2. QED BY <1>1, <1>2, <2>1, FeedAssumption
<1>8. QED BY <1>2, <1>4, <1>5, <1>6, <1>7 DEF FeedInv

LEMMA FeedInvNext == FeedInv /\ FeedNext => FeedInv'
<1> SUFFICES ASSUME FeedInv, FeedNext PROVE FeedInv'
  OBVIOUS
<1>0. /\ Len(log) \in Nat /\ MatchingAfter(0) \in SUBSET (1 .. Len(log))
      /\ \A n \in Nat : MatchingAfter(n) = {i \in MatchingAfter(0) : i > n}
  BY MatchingIsInTheLog
<1>1. ASSUME NEW event \in Produced, Emit(event) PROVE FeedInv'
  BY <1>1, EmitKeeps DEF Emitted
<1>2. ASSUME NEW s \in Streams
      PROVE  /\ Sound(streams[s], Len(log), MatchingAfter(0))
             /\ streams[s] \in StreamStates /\ streams \in [Streams -> StreamStates]
  BY DEF FeedInv
<1>3. ASSUME NEW s \in Streams, NEW after \in 0 .. Len(log), Open(s, after) PROVE FeedInv'
  <2>1. MatchingAfter(after) = {i \in MatchingAfter(0) : i > after} BY <1>0
  <2>2. /\ UNCHANGED log
        /\ streams' = [streams EXCEPT ![s] = [NotOpen EXCEPT !.pc = "backfill",
                          !.todo = MatchingAfter(after), !.after = after, !.upto = after]]
    BY <1>3 DEF Open
  <2>3. QED BY <1>0, <2>1, <2>2, OpenedIsSound, StreamMoves
<1>4. ASSUME NEW s \in Streams, SendBackfill(s) PROVE FeedInv'
  <2>1. CASE streams' = [streams EXCEPT ![s].pc = "tail"] /\ streams[s].todo = {}
    <3>1. PICK r \in StreamStates : r = [streams[s] EXCEPT !.pc = "tail"]
      BY <1>2 DEF StreamStates
    <3>2. /\ r.todo = {} /\ r.queue = streams[s].queue /\ r.sent = streams[s].sent
          /\ r.after = streams[s].after /\ r.upto = streams[s].upto
          /\ r.dropped = streams[s].dropped /\ streams[s].pc = "backfill"
      BY <1>2, <1>4, <2>1, <3>1 DEF StreamStates, SendBackfill
    <3>3. Sound(r, Len(log), MatchingAfter(0)) BY <1>2, <2>1, <3>2 DEF Sound, Complete
    <3>4. QED BY <1>2, <1>4, <2>1, <3>1, <3>3, StreamMoves DEF SendBackfill
  <2>2. ASSUME NEW first \in streams[s].todo, \A other \in streams[s].todo : first <= other,
               streams' = [streams EXCEPT ![s].sent = Append(@, first), ![s].upto = first,
                                          ![s].todo = @ \ {first}]
        PROVE  FeedInv'
    <3>1. streams' = [streams EXCEPT ![s] = [streams[s] EXCEPT !.sent = Append(@, first),
                         !.upto = first, !.todo = @ \ {first}]]
      BY <1>2, <2>2
    <3>2. Sound([streams[s] EXCEPT !.sent = Append(@, first), !.upto = first,
                    !.todo = @ \ {first}], Len(log), MatchingAfter(0))
      BY <1>0, <1>2, <1>4, <2>2, BackfillSends DEF SendBackfill
    <3>3. QED BY <1>4, <3>1, <3>2, StreamMoves DEF SendBackfill
  <2>3. QED BY <1>4, <2>1, <2>2 DEF SendBackfill
<1>5. ASSUME NEW s \in Streams, UNCHANGED log, streams' = Ended(s) PROVE FeedInv'
  <2>1. streams' = [streams EXCEPT ![s] = [streams[s] EXCEPT !.pc = "closed", !.todo = {},
                       !.queue = <<>>]]
    BY <1>2, <1>5 DEF Ended
  <2>2. QED BY <1>2, <1>5, <2>1, StoppedIsSound, StreamMoves
<1>6. ASSUME NEW s \in Streams, SendTail(s) PROVE FeedInv'
  <2>1. /\ ~Duplicate(s)
        /\ Sound([streams[s] EXCEPT !.queue = Tail(@), !.sent = Append(@, Head(streams[s].queue))],
                 Len(log), MatchingAfter(0))
    BY <1>0, <1>2, <1>6, TailSends DEF SendTail, Duplicate
  <2>2. CASE streams[s].gone BY <1>5, <1>6, <2>1, <2>2 DEF SendTail
  <2>3. CASE ~streams[s].gone
    <3>1. streams' = [streams EXCEPT ![s] = [streams[s] EXCEPT !.queue = Tail(@),
                         !.sent = Append(@, Head(streams[s].queue))]]
      BY <1>2, <1>6, <2>1, <2>3 DEF SendTail
    <3>2. QED BY <1>6, <2>1, <3>1, StreamMoves DEF SendTail
  <2>4. QED BY <2>2, <2>3
<1>7. ASSUME NEW s \in Streams, ClientGoes(s) PROVE FeedInv'
  <2>1. PICK r \in StreamStates : r = [streams[s] EXCEPT !.gone = TRUE]
    BY <1>2 DEF StreamStates
  <2>2. /\ r.todo = streams[s].todo /\ r.queue = streams[s].queue /\ r.sent = streams[s].sent
        /\ r.after = streams[s].after /\ r.upto = streams[s].upto
        /\ r.dropped = streams[s].dropped /\ r.pc = streams[s].pc
    BY <1>2, <2>1 DEF StreamStates
  <2>3. Sound(r, Len(log), MatchingAfter(0)) BY <1>2, <2>2 DEF Sound, Complete
  <2>4. QED BY <1>2, <1>7, <2>1, <2>3, StreamMoves DEF ClientGoes
<1>8. ASSUME NEW s \in Streams, StreamEnds(s) PROVE FeedInv'
  BY <1>5, <1>8 DEF StreamEnds
<1>9. QED BY <1>1, <1>3, <1>4, <1>6, <1>7, <1>8 DEF FeedNext

(***************************************************************************)
(* The dashboard.                                                          *)
(***************************************************************************)
Names == {"unknown", "draft", "running", "paused", "completed"}
Answers == [kind : {"detail", "history"}, of : Campaigns, state : Names, upto : Nat]
Stores == [open : BOOLEAN, mounts : Nat, read : Nat, live : Seq(Nat),
           fleet : [Campaigns -> Names], loading : [Campaigns -> Names],
           selected : Campaigns \cup {NoCampaign}, opens : Nat, asked : SUBSET Answers,
           history : SUBSET Nat,
           detail : [of : Campaigns \cup {NoCampaign}, state : Names],
           pending : SUBSET (Campaigns \X {"paused", "resumed"})]

Shown(c) == {ShownAs(log[i].type) : i \in HistoryOf(c, Len(log))}

\* The states a campaign may be shown in, and the events of its history.
Had == [c \in Campaigns |-> {state[c], "draft", "unknown"} \cup Shown(c)]
Histories == [c \in Campaigns |-> HistoryOf(c, Len(log))]

\* A store shows, and is about to be told, only what was.
Honest(d, len, had, histories) ==
    /\ d \in Stores /\ d.read <= len /\ Len(d.live) <= MaxLive
    /\ \A c \in Campaigns : d.fleet[c] \in had[c] /\ d.loading[c] \in had[c]
    /\ d.detail.of \in Campaigns => d.detail.state \in had[d.detail.of]
    /\ \A a \in d.asked : a.state \in had[a.of] /\ a.upto <= len
    /\ d.selected # NoCampaign => d.history \subseteq histories[d.selected]

DashInv ==
    /\ FeedInv
    /\ state \in [Campaigns -> Names \ {"unknown"}]
    \* That a campaign has been started is in the log.
    /\ \A c \in Campaigns : state[c] \in {"draft", "completed"} \cup Shown(c)
    /\ Honest(dash, Len(log), Had, Histories)

LEMMA HonestyLasts ==
    ASSUME NEW len \in Nat, NEW len2 \in Nat, len <= len2, NEW had, NEW had2,
           NEW histories, NEW histories2, NEW d, Honest(d, len, had, histories),
           \A c \in Campaigns : had[c] \subseteq had2[c] /\ histories[c] \subseteq histories2[c]
    PROVE  Honest(d, len2, had2, histories2)
<1>1. d \in Stores /\ Len(d.live) <= MaxLive BY DEF Honest
<1>2. d.read <= len2 BY <1>1 DEF Honest, Stores
<1>3. \A c \in Campaigns : d.fleet[c] \in had2[c] /\ d.loading[c] \in had2[c] BY DEF Honest
<1>4. d.detail.of \in Campaigns => d.detail.state \in had2[d.detail.of] BY DEF Honest
<1>5. ASSUME NEW a \in d.asked PROVE a.state \in had2[a.of] /\ a.upto <= len2
  <2>1. a \in Answers BY <1>1 DEF Stores
  <2>2. a.of \in Campaigns /\ a.upto \in Nat BY <2>1 DEF Answers
  <2>3. a.state \in had[a.of] /\ a.upto <= len BY DEF Honest
  <2>4. QED BY <2>2, <2>3
<1>6. d.selected # NoCampaign => d.history \subseteq histories2[d.selected]
  <2>1. d.selected \in Campaigns \cup {NoCampaign} BY <1>1 DEF Stores
  <2>2. QED BY <2>1 DEF Honest
<1>7. QED BY <1>1, <1>2, <1>3, <1>4, <1>5, <1>6 DEF Honest

\* An event is added to the history of its campaign.
LEMMA LogGrows ==
    ASSUME FeedInv, NEW event \in Emitted, Emit(event)
    PROVE  /\ Len(log) \in Nat /\ Len(log') = Len(log) + 1
           /\ \A c : HistoryOf(c, Len(log)) \subseteq HistoryOf(c, Len(log))'
           /\ \A c : Shown(c) \subseteq Shown(c)'
           /\ ShownAs(event.type) \in Shown(event.campaign)'
<1>1. Len(log) \in Nat BY LenProperties DEF FeedInv
<1>2. log' = Append(log, event) BY DEF Emit
<1>3. /\ Len(log') = Len(log) + 1 /\ log'[Len(log) + 1] = event
      /\ \A i \in 1 .. Len(log) : log'[i] = log[i]
  BY <1>2, AppendProperties DEF FeedInv
<1>4. \A c : HistoryOf(c, Len(log)) \subseteq HistoryOf(c, Len(log))' BY <1>1, <1>3 DEF HistoryOf
<1>5. \A c : \A i \in HistoryOf(c, Len(log)) : i \in HistoryOf(c, Len(log))' /\ log'[i] = log[i]
  BY <1>3, <1>4 DEF HistoryOf
<1>6. \A c : Shown(c) \subseteq Shown(c)' BY <1>5 DEF Shown
<1>7. Len(log) + 1 \in HistoryOf(event.campaign, Len(log))' BY <1>1, <1>3 DEF HistoryOf
<1>8. ShownAs(event.type) \in Shown(event.campaign)' BY <1>3, <1>7 DEF Shown
<1>9. QED BY <1>1, <1>3, <1>4, <1>6, <1>8

\* Steps of the store.
LEMMA StoreKeeps ==
    ASSUME DashInv, UNCHANGED <<log, streams, state>>, Honest(dash', Len(log), Had, Histories)
    PROVE  DashInv'
<1>1. FeedInv' BY DEF DashInv, FeedInv, MatchingAfter
<1>2. Had' = Had /\ Histories' = Histories /\ \A c : Shown(c)' = Shown(c)
  BY DEF Had, Histories, Shown, HistoryOf
<1>3. QED BY <1>1, <1>2 DEF DashInv

\* Steps elsewhere: whatever was shown may still be shown.
LEMMA WorldKeeps ==
    ASSUME DashInv, FeedInv', NEW d, d = dash', Honest(d, Len(log), Had, Histories),
           Len(log) <= Len(log'), state' \in [Campaigns -> Names \ {"unknown"}],
           \A c \in Campaigns : /\ HistoryOf(c, Len(log)) \subseteq HistoryOf(c, Len(log))'
                                /\ Shown(c) \subseteq Shown(c)'
                                /\ state'[c] = state[c] \/ state[c] \in {"draft"} \cup Shown(c)
                                /\ state'[c] \in {"draft", "completed"} \cup Shown(c)'
    PROVE  DashInv'
<1>1. Len(log) \in Nat /\ Len(log') \in Nat
  <2>1. log \in Seq(Emitted) /\ log' \in Seq(Emitted) BY DEF DashInv, FeedInv
  <2>2. QED BY <2>1, LenProperties
<1>2. \A c \in Campaigns : Had[c] \subseteq Had'[c] /\ Histories[c] \subseteq Histories'[c]
  BY DEF Had, Histories
<1>3. Honest(d, Len(log'), Had', Histories') BY <1>1, <1>2, HonestyLasts
<1>4. QED BY <1>3 DEF DashInv

LEMMA EmitKeepsDash ==
    ASSUME DashInv, NEW event \in Emitted, Emit(event), NEW d, d = dash',
           Honest(d, Len(log), Had, Histories), state' \in [Campaigns -> Names \ {"unknown"}],
           \A c \in Campaigns : state'[c] = state[c]
              \/ (state[c] # "completed" /\ c = event.campaign /\ state'[c] = ShownAs(event.type))
    PROVE  DashInv'
<1>1. FeedInv' BY EmitKeeps DEF DashInv
<1>2. /\ Len(log) \in Nat /\ Len(log') = Len(log) + 1
      /\ \A c : HistoryOf(c, Len(log)) \subseteq HistoryOf(c, Len(log))'
      /\ \A c : Shown(c) \subseteq Shown(c)'
      /\ ShownAs(event.type) \in Shown(event.campaign)'
  BY LogGrows DEF DashInv
<1>3. Len(log) <= Len(log') BY <1>2
<1>4. ASSUME NEW c \in Campaigns
      PROVE  /\ state'[c] = state[c] \/ state[c] \in {"draft"} \cup Shown(c)
             /\ state'[c] \in {"draft", "completed"} \cup Shown(c)'
  <2>1. state[c] \in {"draft", "completed"} \cup Shown(c) BY DEF DashInv
  <2>2. CASE state'[c] = state[c] BY <1>2, <2>1, <2>2
  <2>3. CASE state[c] # "completed" /\ c = event.campaign /\ state'[c] = ShownAs(event.type)
    BY <1>2, <2>1, <2>3
  <2>4. QED BY <2>2, <2>3
<1>5. QED BY <1>1, <1>2, <1>3, <1>4, WorldKeeps

LEMMA TransitionKeeps ==
    ASSUME DashInv, NEW c \in Campaigns, NEW types, Transition(c, types), NEW d, d = dash',
           Honest(d, Len(log), Had, Histories)
    PROVE  DashInv'
<1>1. PICK m \in Moves : /\ state[c] = m[1] /\ state' = [state EXCEPT ![c] = m[2]]
                         /\ Emit(StoredEvent(Viewer, c, m[3]))
  BY DEF Transition
<1>2. StoredEvent(Viewer, c, m[3]) \in Emitted BY DEF Emitted, Lifecycle
<1>3. m[1] # "completed" /\ m[2] \in Names \ {"unknown"} /\ m[2] = ShownAs(m[3])
  BY DEF Moves, Names, ShownAs
<1>4. /\ StoredEvent(Viewer, c, m[3]).campaign = c /\ StoredEvent(Viewer, c, m[3]).type = m[3]
  BY DEF StoredEvent
<1>5. state \in [Campaigns -> Names \ {"unknown"}] BY DEF DashInv
<1>6. state' \in [Campaigns -> Names \ {"unknown"}] BY <1>1, <1>3, <1>5
<1>7. \A b \in Campaigns : state'[b] = state[b]
              \/ (state[b] # "completed" /\ b = c /\ state'[b] = ShownAs(m[3]))
  BY <1>1, <1>3, <1>5
<1>8. QED BY <1>1, <1>2, <1>4, <1>6, <1>7, EmitKeepsDash

\* The stream's events are shown as they come, whatever was loaded before.
LEMMA IngestKeeps == ASSUME DashInv, Ingest PROVE Honest(dash', Len(log), Had, Histories)
<1> DEFINE n == dash.read + 1
           ev == log[n]
           all == Append(dash.live, n)
           reflects(c) == ev.type \in Lifecycle /\ ev.campaign = c
           live == IF Len(all) > MaxLive THEN Tail(all) ELSE all
           fleet == [c \in Campaigns |-> IF reflects(c) /\ dash.fleet[c] # "unknown"
                                         THEN ShownAs(ev.type) ELSE dash.fleet[c]]
           detail == IF reflects(dash.detail.of) THEN [dash.detail EXCEPT !.state = ShownAs(ev.type)]
                     ELSE dash.detail
<1>1. /\ Len(log) \in Nat /\ dash \in Stores /\ dash.read < Len(log) /\ dash.read \in Nat
      /\ Honest(dash, Len(log), Had, Histories)
  <2>1. log \in Seq(Emitted) BY DEF DashInv, FeedInv
  <2>2. dash \in Stores BY DEF DashInv, Honest
  <2>3. QED BY <2>1, <2>2, LenProperties DEF DashInv, Ingest, Stores
<1>2. dash' = [dash EXCEPT !.read = n, !.live = live, !.fleet = fleet, !.detail = detail]
  BY <1>1 DEF Ingest, Stores
<1>3. \A c \in Campaigns : reflects(c) => ShownAs(ev.type) \in Had[c]
  <2>1. n \in 1 .. Len(log) BY <1>1
  <2>2. \A c \in Campaigns : reflects(c) => ShownAs(ev.type) \in Shown(c)
    BY <2>1 DEF Shown, HistoryOf
  <2>3. QED BY <2>2 DEF Had
<1>4. ShownAs(ev.type) \in Names BY DEF ShownAs, Names
<1>5. fleet \in [Campaigns -> Names] /\ \A c \in Campaigns : fleet[c] \in Had[c]
  BY <1>1, <1>3, <1>4 DEF Honest, Stores
<1>6. /\ detail \in [of : Campaigns \cup {NoCampaign}, state : Names]
      /\ detail.of = dash.detail.of /\ (detail.of \in Campaigns => detail.state \in Had[detail.of])
  <2>1. /\ dash.detail \in [of : Campaigns \cup {NoCampaign}, state : Names]
        /\ dash.detail.of \in Campaigns => dash.detail.state \in Had[dash.detail.of]
    BY <1>1 DEF Honest, Stores
  <2>2. CASE reflects(dash.detail.of) BY <1>3, <1>4, <2>1, <2>2
  <2>3. CASE ~reflects(dash.detail.of) BY <2>1, <2>3
  <2>4. QED BY <2>2, <2>3
<1>7. live \in Seq(Nat) /\ Len(live) <= MaxLive
  <2>1. dash.live \in Seq(Nat) /\ Len(dash.live) \in Nat /\ Len(dash.live) <= MaxLive
    BY <1>1, LenProperties DEF Honest, Stores
  <2>2. all \in Seq(Nat) /\ all # <<>> /\ Len(all) = Len(dash.live) + 1
    BY <1>1, <2>1, AppendProperties
  <2>3. Tail(all) \in Seq(Nat) /\ Len(Tail(all)) = Len(all) - 1 BY <2>2, HeadTailProperties
  <2> HIDE DEF all
  <2>4. QED BY <2>1, <2>2, <2>3, DashboardAssumption
<1> HIDE DEF fleet, detail, live
<1>8. /\ dash' \in Stores /\ dash'.read = n /\ dash'.live = live /\ dash'.fleet = fleet
      /\ dash'.detail = detail /\ dash'.loading = dash.loading /\ dash'.asked = dash.asked
      /\ dash'.selected = dash.selected /\ dash'.history = dash.history
  <2>1. n \in Nat BY <1>1
  <2>2. QED BY <1>1, <1>2, <1>5, <1>6, <1>7, <2>1 DEF Stores
<1>9. n <= Len(log) BY <1>1
<1>10. QED BY <1>1, <1>5, <1>6, <1>7, <1>8, <1>9 DEF Honest

\* Where the events, the fleet, the detail and the history of the store stay.
LEMMA AskedKeeps ==
    ASSUME DashInv, dash' \in Stores, dash'.asked \subseteq dash.asked,
           dash'.read \in {0, dash.read}, dash'.live = dash.live,
           dash'.fleet \in {dash.fleet, dash.loading}, dash'.loading \in {dash.loading, Unknown},
           dash'.detail = dash.detail,
           dash'.selected = NoCampaign \/ UNCHANGED <<dash.selected, dash.history>>
    PROVE  Honest(dash', Len(log), Had, Histories)
<1>1. Honest(dash, Len(log), Had, Histories) BY DEF DashInv
<1>2. \A c \in Campaigns : Unknown[c] \in Had[c] BY DEF Unknown, Had
<1>3. 0 <= Len(log)
  <2>1. log \in Seq(Emitted) BY DEF DashInv, FeedInv
  <2>2. QED BY <2>1, LenProperties
<1>4. QED BY <1>1, <1>2, <1>3 DEF Honest

LEMMA DashInvNext == DashInv /\ DashNext => DashInv'
<1> SUFFICES ASSUME DashInv, DashNext PROVE DashInv'
  OBVIOUS
<1>0. /\ dash \in Stores /\ Honest(dash, Len(log), Had, Histories) /\ Len(log) \in Nat
      /\ state \in [Campaigns -> Names] /\ \A c \in Campaigns : state[c] \in Had[c]
  <2>1. log \in Seq(Emitted) /\ state \in [Campaigns -> Names \ {"unknown"}] BY DEF DashInv, FeedInv
  <2>2. QED BY <2>1, LenProperties DEF DashInv, Honest, Had
<1>1. CASE Mount
  <2>1. /\ dash' \in Stores /\ dash'.read = 0 /\ dash'.loading = state /\ dash'.fleet = dash.fleet
        /\ dash'.live = dash.live /\ dash'.detail = dash.detail /\ dash'.asked = dash.asked
        /\ dash'.selected = dash.selected /\ dash'.history = dash.history
    <3>1. dash.mounts + 1 \in Nat /\ 0 \in Nat BY <1>0 DEF Stores
    <3>2. dash' = [dash EXCEPT !.open = TRUE, !.mounts = dash.mounts + 1, !.read = 0, !.loading = state]
      BY <1>1 DEF Mount
    <3>3. QED BY <1>0, <3>1, <3>2 DEF Stores
  <2>2. Honest(dash', Len(log), Had, Histories) BY <1>0, <2>1 DEF Honest
  <2>3. QED BY <1>1, <2>2, StoreKeeps DEF Mount
<1>2. CASE Unmount
  <2>1. /\ dash' \in Stores /\ dash'.read = dash.read /\ dash'.loading = dash.loading
        /\ dash'.live = dash.live /\ dash'.detail = dash.detail /\ dash'.asked = dash.asked
        /\ dash'.selected = dash.selected /\ dash'.history = dash.history /\ dash'.fleet = dash.fleet
    BY <1>0, <1>2 DEF Unmount, Stores
  <2>2. QED BY <1>2, <2>1, AskedKeeps, StoreKeeps DEF Unmount
<1>3. CASE FleetLoads
  <2>1. Unknown \in [Campaigns -> Names] BY DEF Unknown, Names
  <2>2. /\ dash' \in Stores /\ dash'.read = dash.read /\ dash'.loading = Unknown
        /\ dash'.live = dash.live /\ dash'.detail = dash.detail /\ dash'.asked = dash.asked
        /\ dash'.selected = dash.selected /\ dash'.history = dash.history /\ dash'.fleet = dash.loading
    BY <1>0, <1>3, <2>1 DEF FleetLoads, Stores
  <2>3. QED BY <1>3, <2>2, AskedKeeps, StoreKeeps DEF FleetLoads
<1>4. CASE Ingest BY <1>4, IngestKeeps, StoreKeeps DEF Ingest
<1>5. CASE LeaveCampaign
  <2>1. /\ dash' \in Stores /\ dash'.read = dash.read /\ dash'.loading = dash.loading
        /\ dash'.live = dash.live /\ dash'.detail = dash.detail /\ dash'.asked = dash.asked
        /\ dash'.selected = NoCampaign /\ dash'.fleet = dash.fleet
    BY <1>0, <1>5 DEF LeaveCampaign, Stores
  <2>2. QED BY <1>5, <2>1, AskedKeeps, StoreKeeps DEF LeaveCampaign
<1>6. ASSUME NEW c \in Campaigns, OrchestratorMoves(c) PROVE DashInv'
  BY <1>0, <1>6, TransitionKeeps DEF OrchestratorMoves
<1>7. ASSUME NEW c \in Campaigns, CampaignCompletes(c) PROVE DashInv'
  <2>1. /\ state[c] = "running" /\ state' = [state EXCEPT ![c] = "completed"]
        /\ UNCHANGED <<log, streams, dash>>
    BY <1>7 DEF CampaignCompletes
  <2>2. FeedInv' BY <2>1 DEF DashInv, FeedInv, MatchingAfter
  <2>3. \A b : HistoryOf(b, Len(log))' = HistoryOf(b, Len(log)) /\ Shown(b)' = Shown(b)
    BY <2>1 DEF HistoryOf, Shown
  <2>4. /\ state' \in [Campaigns -> Names \ {"unknown"}]
        /\ \A b \in Campaigns : state[b] \in {"draft", "completed"} \cup Shown(b)
        /\ \A b \in Campaigns : state'[b] = IF b = c THEN "completed" ELSE state[b]
    BY <2>1 DEF DashInv, Names
  <2>5. \A b \in Campaigns : /\ state'[b] = state[b] \/ state[b] \in {"draft"} \cup Shown(b)
                             /\ state'[b] \in {"draft", "completed"} \cup Shown(b)'
    BY <2>1, <2>3, <2>4
  <2>6. Len(log) <= Len(log') /\ Honest(dash, Len(log), Had, Histories) BY <1>0, <2>1
  <2>7. QED BY <2>1, <2>2, <2>3, <2>4, <2>5, <2>6, WorldKeeps
<1>8. ASSUME NEW c \in Campaigns, OpenCampaign(c) PROVE DashInv'
  <2>1. ASSUME NEW kind \in {"detail", "history"} PROVE Answer(kind, c) \in Answers
    BY <1>0 DEF Answer, Answers
  <2>2. /\ dash' \in Stores /\ dash'.read = dash.read /\ dash'.loading = dash.loading
        /\ dash'.live = dash.live /\ dash'.detail = dash.detail /\ dash'.fleet = dash.fleet
        /\ dash'.asked = dash.asked \cup {Answer("detail", c), Answer("history", c)}
        /\ dash'.selected = c /\ dash'.history = {}
    <3>1. dash.opens + 1 \in Nat BY <1>0 DEF Stores
    <3>2. PICK asked \in SUBSET Answers :
             asked = dash.asked \cup {Answer("detail", c), Answer("history", c)}
      BY <1>0, <2>1 DEF Stores
    <3>3. dash' = [dash EXCEPT !.selected = c, !.history = {}, !.opens = dash.opens + 1, !.asked = asked]
      BY <1>8, <3>2 DEF OpenCampaign
    <3>4. QED BY <1>0, <3>1, <3>2, <3>3 DEF Stores
  <2>3. \A a \in dash'.asked : a.state \in Had[a.of] /\ a.upto <= Len(log)
    <3>1. \A a \in dash.asked : a.state \in Had[a.of] /\ a.upto <= Len(log)
      BY <1>0 DEF Honest
    <3>2. \A kind : Answer(kind, c).state \in Had[Answer(kind, c).of] /\ Answer(kind, c).upto <= Len(log)
      BY <1>0 DEF Answer
    <3>3. QED BY <2>2, <3>1, <3>2
  <2>4. Honest(dash', Len(log), Had, Histories) BY <1>0, <2>2, <2>3 DEF Honest
  <2>5. QED BY <1>8, <2>4, StoreKeeps DEF OpenCampaign
<1>9. ASSUME NEW r \in dash.asked
      PROVE  r \in Answers /\ r.of \in Campaigns /\ r.state \in Names /\ r.state \in Had[r.of] /\ r.upto <= Len(log)
  BY <1>0 DEF Stores, Answers, Honest
<1>10. ASSUME NEW r \in dash.asked, DetailLoads(r) PROVE DashInv'
  <2>1. [of |-> r.of, state |-> r.state] \in [of : Campaigns \cup {NoCampaign}, state : Names]
    BY <1>9
  <2>2. /\ dash' \in Stores /\ dash'.read = dash.read /\ dash'.loading = dash.loading
        /\ dash'.live = dash.live /\ dash'.fleet = dash.fleet
        /\ dash'.detail.of = r.of /\ dash'.detail.state = r.state /\ dash'.asked = dash.asked \ {r}
        /\ dash'.selected = dash.selected /\ dash'.history = dash.history
    BY <1>0, <1>10, <2>1 DEF DetailLoads, Stores
  <2>3. Honest(dash', Len(log), Had, Histories) BY <1>0, <1>9, <2>2 DEF Honest
  <2>4. QED BY <1>10, <2>3, StoreKeeps DEF DetailLoads
<1>11. ASSUME NEW r \in dash.asked, HistoryLoads(r) PROVE DashInv'
  <2>1. HistoryOf(r.of, r.upto) \in SUBSET Nat /\ HistoryOf(r.of, r.upto) \subseteq Histories[r.of]
    <3>1. r.upto \in Nat BY <1>9 DEF Answers
    <3>2. \A i \in 1 .. r.upto : i \in 1 .. Len(log) /\ i \in Nat BY <1>0, <1>9, <3>1
    <3>3. QED BY <1>9, <3>2 DEF HistoryOf, Histories
  <2>2. /\ dash' \in Stores /\ dash'.read = dash.read /\ dash'.loading = dash.loading
        /\ dash'.live = dash.live /\ dash'.fleet = dash.fleet
        /\ dash'.detail = dash.detail /\ dash'.asked = dash.asked \ {r} /\ dash'.selected = dash.selected
        /\ dash'.history = IF dash.selected = r.of THEN HistoryOf(r.of, r.upto) ELSE dash.history
    BY <1>0, <1>11, <2>1 DEF HistoryLoads, Stores
  <2>3. dash'.selected # NoCampaign => dash'.history \subseteq Histories[dash'.selected]
    BY <1>0, <2>1, <2>2 DEF Honest
  <2>4. Honest(dash', Len(log), Had, Histories) BY <1>0, <2>2, <2>3 DEF Honest
  <2>5. QED BY <1>11, <2>4, StoreKeeps DEF HistoryLoads
<1>12. ASSUME NEW r \in dash.asked, RequestFails(r) PROVE DashInv'
  <2>1. /\ dash' \in Stores /\ dash'.read = dash.read /\ dash'.loading = dash.loading
        /\ dash'.live = dash.live /\ dash'.detail = dash.detail /\ dash'.asked = dash.asked \ {r}
        /\ dash'.selected = dash.selected /\ dash'.history = dash.history /\ dash'.fleet = dash.fleet
    BY <1>0, <1>12 DEF RequestFails, Stores
  <2>2. QED BY <1>12, <2>1, AskedKeeps, StoreKeeps DEF RequestFails
<1>13. ASSUME NEW asked \in SUBSET (Campaigns \X {"paused", "resumed"}),
              dash' = [dash EXCEPT !.pending = asked]
       PROVE  Honest(dash', Len(log), Had, Histories)
  <2>1. /\ dash' \in Stores /\ dash'.read = dash.read /\ dash'.loading = dash.loading
        /\ dash'.live = dash.live /\ dash'.detail = dash.detail /\ dash'.asked = dash.asked
        /\ dash'.selected = dash.selected /\ dash'.history = dash.history /\ dash'.fleet = dash.fleet
    BY <1>0, <1>13 DEF Stores
  <2>2. QED BY <2>1, AskedKeeps
<1>14. dash.pending \in SUBSET (Campaigns \X {"paused", "resumed"}) BY <1>0 DEF Stores
<1>15. ASSUME NEW c \in Campaigns, NEW control \in {"paused", "resumed"}, Click(c, control) PROVE DashInv'
  <2>1. dash.pending \cup {<<c, control>>} \in SUBSET (Campaigns \X {"paused", "resumed"})
    BY <1>14
  <2>2. dash' = [dash EXCEPT !.pending = dash.pending \cup {<<c, control>>}]
    BY <1>15 DEF Click
  <2>3. QED BY <1>13, <1>15, <2>1, <2>2, StoreKeeps DEF Click
<1>16. ASSUME NEW c \in Campaigns, NEW control \in {"paused", "resumed"}, ControlDone(c, control) PROVE DashInv'
  <2>1. dash.pending \ {<<c, control>>} \in SUBSET (Campaigns \X {"paused", "resumed"})
    BY <1>14
  <2>2. dash' = [dash EXCEPT !.pending = dash.pending \ {<<c, control>>}]
    BY <1>16 DEF ControlDone
  <2>3. Honest(dash', Len(log), Had, Histories) BY <1>13, <2>1, <2>2
  <2>4. CASE UNCHANGED <<log, streams, state>> BY <2>3, <2>4, StoreKeeps
  <2>5. CASE Transition(c, {control}) BY <2>3, <2>5, TransitionKeeps
  <2>6. QED BY <1>16, <2>4, <2>5 DEF ControlDone
<1>17. QED
  BY <1>1, <1>2, <1>3, <1>4, <1>5, <1>6, <1>7, <1>8, <1>10, <1>11, <1>12, <1>15, <1>16
  DEF DashNext

LEMMA DashStep == DashInv /\ [DashNext \/ (FeedNext /\ UNCHANGED <<state, dash>>)]_dashVars => DashInv'
<1> SUFFICES ASSUME DashInv, [DashNext \/ (FeedNext /\ UNCHANGED <<state, dash>>)]_dashVars
             PROVE  DashInv'
  OBVIOUS
<1>1. CASE DashNext BY <1>1, DashInvNext
<1>2. ASSUME FeedNext, UNCHANGED <<state, dash>> PROVE DashInv'
  <2>1. Honest(dash, Len(log), Had, Histories) /\ state' \in [Campaigns -> Names \ {"unknown"}]
    BY <1>2 DEF DashInv
  <2>2. CASE UNCHANGED log
    <3>1. FeedInv' BY <1>2, FeedInvNext DEF DashInv
    <3>2. \A c : HistoryOf(c, Len(log))' = HistoryOf(c, Len(log)) /\ Shown(c)' = Shown(c)
      BY <2>2 DEF HistoryOf, Shown
    <3>3. Had' = Had /\ Histories' = Histories BY <1>2, <3>2 DEF Had, Histories
    <3>4. QED BY <1>2, <2>2, <3>1, <3>2, <3>3 DEF DashInv
  <2>3. ASSUME NEW event \in Produced, Emit(event) PROVE DashInv'
    BY <1>2, <2>1, <2>3, EmitKeepsDash DEF Emitted
  <2>4. QED
    BY <1>2, <2>2, <2>3 DEF FeedNext, Open, SendBackfill, SendTail, ClientGoes, StreamEnds
<1>3. CASE UNCHANGED dashVars
  BY <1>3 DEF dashVars, DashInv, FeedInv, MatchingAfter, Had, Histories, Shown, HistoryOf
<1>4. QED BY <1>1, <1>2, <1>3

LEMMA DashInitHolds == DashInit => DashInv
<1> SUFFICES ASSUME DashInit PROVE DashInv
  OBVIOUS
<1>1. log = <<>> /\ Len(log) = 0 /\ log \in Seq(Emitted) BY EmptySeq DEF DashInit
<1>2. ASSUME NEW len, NEW seen, len = 0, seen = {} PROVE Sound(NotOpen, len, seen)
  <2>1. /\ NotOpen.pc = "off" /\ NotOpen.todo = {} /\ NotOpen.queue = <<>> /\ NotOpen.sent = <<>>
        /\ NotOpen.after = 0 /\ NotOpen.upto = 0
    BY DEF NotOpen
  <2>2. Ascending(<<>>) /\ Len(<<>>) <= QueueSize BY EmptySeq, FeedAssumption DEF Ascending
  <2>3. QED BY <1>2, <2>1, <2>2, NotOpenTyped DEF Sound, Complete
<1>3. MatchingAfter(0) = {} BY <1>1 DEF MatchingAfter
<1>4. FeedInv
  <2>1. streams = [s \in Streams |-> NotOpen] BY DEF DashInit
  <2>2. QED BY <1>1, <1>2, <1>3, <2>1, NotOpenTyped, FeedAssumption DEF FeedInv
<1>5. state = [c \in Campaigns |-> "draft"] BY DEF DashInit
<1>6. /\ dash \in Stores /\ dash.read = 0 /\ dash.live = <<>> /\ dash.fleet = Unknown
      /\ dash.loading = Unknown /\ dash.detail.state = "unknown" /\ dash.asked = {}
      /\ dash.selected = NoCampaign
  <2>1. Unknown \in [Campaigns -> Names] /\ "unknown" \in Names BY DEF Unknown, Names
  <2>2. <<>> \in Seq(Nat) BY EmptySeq
  <2>3. QED BY <2>1, <2>2 DEF DashInit, Stores
<1>7. Honest(dash, Len(log), Had, Histories)
  <2>1. Len(<<>>) <= MaxLive BY EmptySeq, DashboardAssumption
  <2>2. \A c \in Campaigns : Unknown[c] \in Had[c] /\ "unknown" \in Had[c] BY DEF Unknown, Had
  <2>3. QED BY <1>1, <1>6, <2>1, <2>2 DEF Honest
<1>8. QED BY <1>4, <1>5, <1>7 DEF DashInv, Names

LEMMA DashInvariant == Spec => [](DashInv /\ FeedTypeOK /\ DashTypeOK)
<1>1. DashInv => FeedTypeOK BY DEF DashInv, FeedInv, Sound, StreamStates, FeedTypeOK
<1>2. DashInv => DashTypeOK BY DEF DashInv, Honest, Names, DashTypeOK
<1>3. QED BY <1>1, <1>2, DashInitHolds, DashStep, DashboardIsAPart, PTL DEF DashSpec

\* A stream sends the events of its tenant in order and once, and unless its queue
\* overflowed all of them since its cursor (router.py, event_sse_stream: it subscribes
\* before it queries), for any number of streams and events.
THEOREM StreamsHaveNoGap == Spec => []StreamHasNoGap
<1>1. DashInv => StreamHasNoGap
  <2> SUFFICES ASSUME DashInv, NEW s \in Streams, NEW r, r = streams[s]
               PROVE  /\ \A i \in DOMAIN r.sent : Matches(log[r.sent[i]])
                      /\ \A i, j \in DOMAIN r.sent : i < j => r.sent[i] < r.sent[j]
                      /\ \A i \in DOMAIN r.sent : r.sent[i] > r.after
                      /\ r.dropped = 0 =>
                            \A i \in DOMAIN r.sent : \A n \in MatchingAfter(r.after) :
                                n < r.sent[i] => \E j \in DOMAIN r.sent : r.sent[j] = n
    BY DEF StreamHasNoGap
  <2>1. FeedInv /\ Sound(r, Len(log), MatchingAfter(0)) BY DEF DashInv, FeedInv
  <2>2. r \in StreamStates /\ r.after \in Nat BY <2>1 DEF Sound, StreamStates
  <2>3. MatchingAfter(r.after) = {i \in MatchingAfter(0) : i > r.after}
    BY <2>1, <2>2, MatchingIsInTheLog
  <2>4. \A i \in DOMAIN r.sent : r.sent[i] \in ToSet(r.sent) BY DEF ToSet
  <2>5. \A x \in ToSet(r.sent) : x \in MatchingAfter(0) /\ x > r.after BY <2>1 DEF Sound
  <2>6. \A x \in MatchingAfter(0) : Matches(log[x]) BY DEF MatchingAfter
  <2>7. \A i, j \in DOMAIN r.sent : i < j => r.sent[i] < r.sent[j] BY <2>1 DEF Sound, Ascending
  <2>8. r.dropped = 0 => \A x \in ToSet(r.sent) : \A n \in MatchingAfter(r.after) :
            n < x => n \in ToSet(r.sent)
    BY <2>1, <2>3 DEF Sound, Complete
  <2>9. \A n \in ToSet(r.sent) : \E j \in DOMAIN r.sent : r.sent[j] = n BY DEF ToSet
  <2>10. QED BY <2>4, <2>5, <2>6, <2>7, <2>8, <2>9
<1>2. QED BY <1>1, DashInvariant, PTL

\* The dashboard shows no campaign in a state it never had, nor the history of another
\* (store.ts, ingest, openCampaign), whatever order answers and events come in.
THEOREM DashboardsInventNothing == Spec => []DashboardInventsNothing
<1>1. DashInv => DashboardInventsNothing
  <2> SUFFICES ASSUME DashInv PROVE DashboardInventsNothing OBVIOUS
  <2>1. Honest(dash, Len(log), Had, Histories) BY DEF DashInv
  <2>2. \A c \in Campaigns : Had[c] = {state[c], "draft", "unknown"} \cup
                     {ShownAs(log[i].type) : i \in HistoryOf(c, Len(log))}
    BY DEF Had, Shown
  <2>3. \A c \in Campaigns : dash.fleet[c] \in Had[c] /\ (dash.detail.of = c => dash.detail.state \in Had[c])
    BY <2>1 DEF Honest
  <2>4. dash.selected # NoCampaign => dash.history \subseteq HistoryOf(dash.selected, Len(log))
    <3>1. dash.selected \in Campaigns \cup {NoCampaign} BY <2>1 DEF Honest, Stores
    <3>2. QED BY <2>1, <3>1 DEF Honest, Histories
  <2>5. QED BY <2>2, <2>3, <2>4 DEF DashboardInventsNothing
<1>2. QED BY <1>1, DashInvariant, PTL

\* What dials, and what a lead consented to (CampaignClock), holds within the whole.
THEOREM OperationsDialInTime == Spec => []DialsAreTimely
BY ClockIsAPart, DialsKeepTheClock, PTL

(***************************************************************************)
(* The text engine.                                                        *)
(***************************************************************************)
Tools == {"calendar", "email", "unknown", "check_availability"}
Asks == [at : Int, email : {"none", "placeholder", "unasked"}]
TextCalls ==
    [pc : {"new", "dialing", "turn", "model", "tool", "handler", "provider", "listening",
           "closing", "returned", "raised"},
     kind : Legs, sink : Sinks, forced : BOOLEAN, opening : BOOLEAN, disclosed : BOOLEAN,
     outcome : {"none", "no_answer", "booked", "opted_out", "transferred", "qualified"},
     hops : Nat, tries : Nat, todo : Seq(Tools), offered : SUBSET Int,
     ask : Asks, turns : Nat, said : {0, 1}, optedOut : BOOLEAN, human : BOOLEAN]
TextLegs ==
    [at : {"idle", "placing", "placed", "connected", "over"}, pending : BOOLEAN, ready : BOOLEAN,
     queue : Seq({"none", "talk", "optOut", "human"}), told : Nat, closed : BOOLEAN]

Working == {"tool", "handler", "provider"}

\* The end of the leg is the last thing its queue may hold.
LegInv ==
    /\ tleg \in TextLegs /\ tleg.told <= MaxUtterances
    /\ Len(tleg.queue) <= tleg.told + IF tleg.at = "over" THEN 1 ELSE 0
    /\ tleg.pending => tcall.pc = "dialing"
    /\ tcall.pc \in CallOver => tleg.closed /\ ~tleg.pending
    /\ tcall.pc = "new" => tleg.at = "idle"

\* Nothing is said before the disclosure is logged.
SpeechInv ==
    /\ tcall.disclosed => "disclosure.spoken" \in tlog
    /\ tcall.pc \in Working \cup {"model"} \/ tcall.said > 0 => tcall.disclosed
    /\ tcall.hops <= MaxToolHops /\ tcall.tries <= MaxModelRetries
    /\ tcall.pc \in Working => tcall.hops < MaxToolHops /\ tcall.todo # <<>>

\* What the outcome is until the call is classified.
SoFar ==
    IF tcall.optedOut THEN "opted_out"
    ELSE IF tcall.human THEN "transferred"
    ELSE IF \E b \in slots : b.known THEN "booked"
    ELSE IF tcall.forced THEN "no_answer" ELSE "none"

ReportInv ==
    /\ tcall.pc \notin CallOver => tcall.outcome = SoFar
    /\ tcall.pc \notin CallOver \cup {"closing"} => ~tcall.optedOut /\ ~tcall.human /\ ~tcall.forced
    /\ tcall.forced => tcall.turns = 0
    /\ tcall.pc = "new" => slots = {} /\ tcall.turns = 0
    /\ tcall.pc = "returned" =>
         /\ tcall.outcome = IF SoFar # "none" THEN SoFar
                            ELSE IF tcall.turns = 0 THEN "no_answer" ELSE "qualified"
         /\ "call.ended" \in tlog

\* What the provider is asked, and what it took, kept the policy.
PolicyInv ==
    /\ tcall.pc = "provider" => ~Breaches(tcall.ask) /\ tcall.ask.email # "unasked"
    /\ \A b \in slots : ~Breaches(b)
    /\ \A at \in tcall.offered : ~OutOfHours(at) /\ ~OutOfWindow(at)

EngineInv == tcall \in TextCalls /\ LegInv /\ SpeechInv /\ ReportInv /\ PolicyInv

\* A slot that is offered is one that may be booked: the grid starts after the call and
\* within the hours, and a meeting ends before they do.
THEOREM OffersMayBeBooked ==
    ASSUME NEW d \in 0 .. 1, NEW busy, NEW at \in Offers(d, busy)
    PROVE  at \in Int /\ ~OutOfHours(at) /\ ~OutOfWindow(at)
<1> DEFINE from == Policy.from
           to == Policy.to
           length == Policy.length
           days == Policy.days
<1>1. /\ from \in 0 .. 23 /\ to \in 0 .. 23 /\ length \in Nat \ {0} /\ days \in Nat /\ CallMinute \in Nat
  BY CallEngineAssumption DEF Policies
<1>2. PICK k \in 0 .. MinutesOfDay \div Cadence : at = FirstSlot(d) + k * Cadence
  BY DEF Offers, OpenSlots, Grid
<1>3. at + length <= DayEnd(d) /\ at - CallMinute <= days * MinutesOfDay
  BY DEF Offers, OpenSlots
<1> HIDE DEF from, to, length, days
<1>4. DayStart(d) = d * 1440 + from * 60 /\ DayEnd(d) = d * 1440 + to * 60
  BY DEF DayStart, DayEnd, MinutesOfDay, from, to
<1>5. FirstSlot(d) \in Int /\ FirstSlot(d) >= DayStart(d) /\ FirstSlot(d) >= CallMinute
  <2>1. PICK start \in Int : start = DayStart(d) BY <1>1, <1>4
  <2>2. CASE CallMinute > start
    <3>1. PICK gap \in Nat : gap = CallMinute - start BY <1>1, <2>1, <2>2
    <3>2. (gap \div 30 + 1) * 30 > gap BY <3>1
    <3>3. FirstSlot(d) = start + (gap \div 30 + 1) * 30 BY <2>1, <2>2, <3>1 DEF FirstSlot, Cadence
    <3>4. QED BY <1>1, <2>1, <3>1, <3>2, <3>3
  <2>3. CASE ~(CallMinute > start) BY <1>1, <2>1, <2>3 DEF FirstSlot
  <2>4. QED BY <2>2, <2>3
<1>6. k \in Nat /\ at = FirstSlot(d) + k * 30 BY <1>2 DEF Cadence, MinutesOfDay
<1>7. at \in Int /\ at >= DayStart(d) /\ at >= CallMinute /\ at < DayEnd(d)
  BY <1>1, <1>3, <1>4, <1>5, <1>6
<1>8. PICK m \in Int : m = at - d * 1440 BY <1>7
<1>9. m >= from * 60 /\ m < to * 60 /\ m \in 0 .. 1439 BY <1>1, <1>4, <1>7, <1>8
<1>10. (at \div 60) % 24 = m \div 60
  <2>1. m \div 60 \in 0 .. 23 BY <1>9
  <2>2. CASE d = 0 BY <1>7, <1>8, <2>1, <2>2
  <2>3. CASE d = 1
    <3>1. at = m + 1440 BY <1>7, <1>8, <2>3
    <3>2. (m + 1440) \div 60 = m \div 60 + 24 BY <1>8
    <3>3. (m \div 60 + 24) % 24 = m \div 60 BY <2>1
    <3>4. QED BY <3>1, <3>2, <3>3
  <2>4. QED BY <2>2, <2>3
<1>11. m \div 60 >= from /\ m \div 60 < to BY <1>1, <1>9
<1>12. ~OutOfHours(at) BY <1>1, <1>10, <1>11 DEF OutOfHours, LocalHour, from, to
<1>13. ~OutOfWindow(at) BY <1>1, <1>3, <1>7 DEF OutOfWindow, MinutesOfDay, days
<1>14. QED BY <1>7, <1>12, <1>13

LEMMA ToolCallsTyped ==
    \A calls \in {<<"calendar">>, <<"email">>, <<"unknown">>, <<"check_availability", "calendar">>} :
        calls \in Seq(Tools) /\ calls # <<>>
<1>1. \A tool \in Tools : <<tool>> \in Seq(Tools) /\ <<tool>> # <<>> OBVIOUS
<1>2. \A one, two \in Tools : <<one, two>> \in Seq(Tools) /\ <<one, two>> # <<>> OBVIOUS
<1>3. QED BY <1>1, <1>2 DEF Tools

\* The leg's part of every step.
LEMMA LegTyped == EngineInv /\ EngineNext => tleg' \in TextLegs
<1> SUFFICES ASSUME EngineInv, EngineNext PROVE tleg' \in TextLegs
  OBVIOUS
<1>0. tleg \in TextLegs BY DEF EngineInv, LegInv
<1>1. Hangs(tleg) \in TextLegs BY <1>0 DEF Hangs, TextLegs
<1>2. ASSUME NEW forced, EngineStarts(forced) PROVE tleg' \in TextLegs
  BY <1>0, <1>2 DEF EngineStarts, TextLegs
<1>3. CASE CallPlaced BY <1>0, <1>1, <1>3 DEF CallPlaced, Raise, TextLegs
<1>4. CASE PlatformDialsBack BY <1>0, <1>4 DEF PlatformDialsBack, TextLegs
<1>5. CASE ConnectTimesOut BY <1>1, <1>5 DEF ConnectTimesOut, Raise
<1>6. CASE ResponseRequired BY <1>0, <1>6 DEF ResponseRequired, TextLegs
<1>7. ASSUME NEW what \in {"none", "talk", "optOut", "human"}
      PROVE  Append(tleg.queue, what) \in Seq({"none", "talk", "optOut", "human"})
  BY <1>0, AppendProperties DEF TextLegs
<1>8. CASE LeadHangsUp BY <1>0, <1>7, <1>8 DEF LeadHangsUp, TextLegs
<1>9. ASSUME NEW what \in {"talk", "optOut", "human"}, LeadSpeaks(what) PROVE tleg' \in TextLegs
  <2>1. tleg.told + 1 \in Nat BY <1>0 DEF TextLegs
  <2>2. QED BY <1>0, <1>7, <1>9, <2>1 DEF LeadSpeaks, TextLegs
<1>10. Said(tleg) \in TextLegs BY <1>0 DEF Said, TextLegs
<1>11. CASE ModelSpeaks BY <1>0, <1>1, <1>10, <1>11 DEF ModelSpeaks, Raise
<1>12. CASE ToolInvoked BY <1>0, <1>1, <1>12 DEF ToolInvoked, Raise
<1>13. CASE ModelFails BY <1>1, <1>13 DEF ModelFails, Raise
<1>14. CASE HearsTurn
  <2>1. PICK leg \in TextLegs : leg = [tleg EXCEPT !.queue = Tail(@)]
    <3>1. Tail(tleg.queue) \in Seq({"none", "talk", "optOut", "human"})
      BY <1>0, <1>14, HeadTailProperties DEF HearsTurn, TextLegs
    <3>2. QED BY <1>0, <3>1 DEF TextLegs
  <2>2. Head(tleg.queue) \in {"none", "talk", "optOut", "human"}
    BY <1>0, <1>14, HeadTailProperties DEF HearsTurn, TextLegs
  <2>3. tleg' \in {leg, Said(leg), Hangs(leg)} BY <1>14, <2>1, <2>2 DEF HearsTurn
  <2>4. QED BY <2>1, <2>3 DEF Said, Hangs, TextLegs
<1>15. CASE EngineConcludes BY <1>1, <1>15 DEF EngineConcludes
<1>16. CASE UNCHANGED tleg BY <1>0, <1>16
<1>17. QED
  BY <1>2, <1>3, <1>4, <1>5, <1>6, <1>8, <1>9, <1>11, <1>12, <1>13, <1>14, <1>15, <1>16
  DEF EngineNext, TurnBegins, ModelRetries, ModelCallsTools, CalendarChecked, AvailabilityRead,
      CalendarBooks, BookingFails, HandlerRejects

\* What is handled is taken off the list.
LEMMA HandledTyped ==
    ASSUME EngineInv, tcall.pc \in Working, NEW call \in TextCalls,
           call.todo = tcall.todo, call.hops = tcall.hops, Handled(call)
    PROVE  /\ tcall' \in TextCalls
           /\ tcall'.pc \in {"model", "tool"} /\ tcall'.todo = Tail(tcall.todo)
           /\ tcall'.pc = "tool" => tcall'.todo # <<>> /\ tcall'.hops = tcall.hops
           /\ tcall'.hops \in {tcall.hops, tcall.hops + 1} /\ tcall'.tries = call.tries
           /\ tcall'.kind = call.kind /\ tcall'.sink = call.sink /\ tcall'.forced = call.forced
           /\ tcall'.opening = call.opening /\ tcall'.disclosed = call.disclosed
           /\ tcall'.outcome = call.outcome /\ tcall'.offered = call.offered
           /\ tcall'.turns = call.turns /\ tcall'.said = call.said
           /\ tcall'.optedOut = call.optedOut /\ tcall'.human = call.human
<1>1. PICK rest \in Seq(Tools) : rest = Tail(tcall.todo)
  <2>1. tcall.todo \in Seq(Tools) /\ tcall.todo # <<>> BY DEF EngineInv, SpeechInv, TextCalls
  <2>2. QED BY <2>1, HeadTailProperties
<1>2. PICK pc \in {"model", "tool"} : pc = IF rest = <<>> THEN "model" ELSE "tool" OBVIOUS
<1>3. PICK hops \in Nat : hops = IF rest = <<>> THEN tcall.hops + 1 ELSE tcall.hops
  BY DEF EngineInv, TextCalls
<1>4. NoAsk \in Asks BY DEF NoAsk, Asks
<1>5. tcall' = [call EXCEPT !.todo = rest, !.ask = NoAsk, !.pc = pc, !.hops = hops]
  BY <1>1, <1>2, <1>3 DEF Handled, TextCalls
<1>6. tcall' \in TextCalls BY <1>4, <1>5 DEF TextCalls
<1>7. /\ tcall'.kind = call.kind /\ tcall'.sink = call.sink /\ tcall'.forced = call.forced
      /\ tcall'.opening = call.opening /\ tcall'.disclosed = call.disclosed
      /\ tcall'.outcome = call.outcome /\ tcall'.offered = call.offered
      /\ tcall'.turns = call.turns /\ tcall'.said = call.said /\ tcall'.tries = call.tries
      /\ tcall'.optedOut = call.optedOut /\ tcall'.human = call.human
      /\ tcall'.pc = pc /\ tcall'.hops = hops /\ tcall'.todo = rest
  BY <1>5 DEF TextCalls
<1>8. /\ pc = "tool" => rest # <<>> /\ hops = tcall.hops
      /\ hops \in {tcall.hops, tcall.hops + 1}
  BY <1>2, <1>3
<1>9. QED BY <1>1, <1>6, <1>7, <1>8

\* The policy's part: where a slot comes from.
LEMMA PolicyKeeps == EngineInv /\ EngineNext => tcall' \in TextCalls /\ PolicyInv'
<1> SUFFICES ASSUME EngineInv, EngineNext PROVE tcall' \in TextCalls /\ PolicyInv'
  OBVIOUS
<1> DEFINE Goal == tcall' \in TextCalls /\ PolicyInv'
<1>0. /\ tcall \in TextCalls /\ PolicyInv /\ tleg \in TextLegs
      /\ tcall.pc \in Working => tcall.hops < MaxToolHops /\ tcall.todo # <<>>
  BY DEF EngineInv, LegInv, SpeechInv
<1>1. ASSUME tcall' \in TextCalls, slots' = slots, tcall'.offered \in {{}, tcall.offered}, tcall'.pc # "provider"
      PROVE  Goal
  BY <1>0, <1>1 DEF PolicyInv, Breaches, OutOfHours, OutOfWindow, LocalHour, BadAddress
<1>2. ASSUME tcall' = tcall, slots' = slots PROVE Goal
  BY <1>0, <1>2 DEF PolicyInv, Breaches, OutOfHours, OutOfWindow, LocalHour, BadAddress
<1>3. ASSUME tcall' = [tcall EXCEPT !.pc = "raised"], slots' = slots PROVE Goal
  BY <1>0, <1>1, <1>3 DEF TextCalls
<1>4. ASSUME NEW forced \in BOOLEAN, EngineStarts(forced) PROVE Goal
  <2>1. CASE tcall.kind = "scripted"
    <3> DEFINE call == [tcall EXCEPT !.forced = forced, !.outcome = IF forced THEN "no_answer" ELSE @]
    <3>1. call \in TextCalls /\ call.offered = tcall.offered BY <1>0 DEF TextCalls
    <3>2. Started(call) /\ slots' = slots BY <1>4, <2>1 DEF EngineStarts
    <3> HIDE DEF call
    <3>3. QED BY <1>1, <3>1, <3>2 DEF Started, TextCalls
  <2>2. CASE tcall.kind # "scripted"
    BY <1>0, <1>1, <1>4, <2>2 DEF EngineStarts, TextCalls
  <2>3. QED BY <2>1, <2>2
<1>5. CASE CallPlaced BY <1>2, <1>3, <1>5 DEF CallPlaced, Raise
<1>6. CASE PlatformDialsBack BY <1>0, <1>1, <1>6 DEF PlatformDialsBack, Started, TextCalls
<1>7. CASE ConnectTimesOut \/ ModelFails BY <1>3, <1>7 DEF ConnectTimesOut, ModelFails, Raise
<1>8. CASE ResponseRequired \/ LeadHangsUp \/ \E what \in {"talk", "optOut", "human"} : LeadSpeaks(what)
  BY <1>2, <1>8 DEF ResponseRequired, LeadHangsUp, LeadSpeaks
<1>9. CASE TurnBegins BY <1>0, <1>1, <1>9 DEF TurnBegins, TextCalls
<1>10. CASE ModelRetries
  <2>1. tcall.tries + 1 \in Nat BY <1>0 DEF TextCalls
  <2>2. QED BY <1>0, <1>1, <1>10, <2>1 DEF ModelRetries, TextCalls
<1>11. ASSUME NEW calls \in Seq(Tools), ModelCallsTools(calls) PROVE Goal
  BY <1>0, <1>1, <1>11 DEF ModelCallsTools, TextCalls
<1>12. CASE ModelSpeaks
  <2>1. CASE tcall' = [tcall EXCEPT !.pc = "listening", !.opening = FALSE, !.said = 1, !.tries = 0]
    BY <1>0, <1>1, <1>12, <2>1 DEF ModelSpeaks, TextCalls
  <2>2. CASE tcall' = [tcall EXCEPT !.pc = "listening", !.tries = 0]
    BY <1>0, <1>1, <1>12, <2>2 DEF ModelSpeaks, TextCalls
  <2>3. QED BY <1>3, <1>12, <2>1, <2>2 DEF ModelSpeaks, Raise
<1>13. CASE ToolInvoked BY <1>0, <1>1, <1>3, <1>13 DEF ToolInvoked, Raise, TextCalls
<1>14. ASSUME tcall.pc \in Working, Handled(tcall), slots' = slots PROVE Goal
  <2>1. tcall' \in TextCalls /\ tcall'.offered = tcall.offered /\ tcall'.pc # "provider"
    BY <1>0, <1>14, HandledTyped
  <2>2. QED BY <1>1, <1>14, <2>1
<1>15. ASSUME NEW at \in AskedMinutes, NEW email \in {"none", "placeholder"},
              CalendarChecked([at |-> at, email |-> email])
       PROVE  Goal
  <2> DEFINE ask == [at |-> at, email |-> email]
  <2>1. ask \in Asks /\ ask.email # "unasked" /\ CalendarChecked(ask)
    BY <1>15, CallEngineAssumption DEF Asks
  <2> HIDE DEF ask
  <2>2. CASE Breaches(ask) BY <1>14, <2>1, <2>2 DEF CalendarChecked, Rejected, Working
  <2>3. CASE ~Breaches(ask)
    <3>1. tcall' = [tcall EXCEPT !.pc = "provider", !.ask = ask] /\ slots' = slots
      BY <2>1, <2>3 DEF CalendarChecked
    <3>2. tcall' \in TextCalls /\ tcall'.ask = ask /\ tcall'.offered = tcall.offered
      BY <1>0, <2>1, <3>1 DEF TextCalls
    <3>3. QED BY <1>0, <2>1, <2>3, <3>1, <3>2
            DEF PolicyInv, Breaches, OutOfHours, OutOfWindow, LocalHour, BadAddress
  <2>4. QED BY <2>2, <2>3
<1>16. ASSUME NEW known \in BOOLEAN, tcall.pc = "provider" PROVE ~Breaches(Booking(known))
  <2>1. ~Breaches(tcall.ask) BY <1>0, <1>16 DEF PolicyInv
  <2>2. Booking(known).at = tcall.ask.at /\ Booking(known).email = tcall.ask.email BY DEF Booking
  <2>3. QED BY <2>1, <2>2 DEF Breaches
<1>17. ASSUME tcall' \in TextCalls, tcall'.offered = tcall.offered, tcall'.pc # "provider",
              \A b \in slots' : ~Breaches(b)
       PROVE  Goal
  BY <1>0, <1>17 DEF PolicyInv, Breaches, OutOfHours, OutOfWindow, LocalHour, BadAddress
<1>18. CASE CalendarBooks
  <2> DEFINE call == [tcall EXCEPT !.outcome = "booked"]
  <2>1. call \in TextCalls /\ call.todo = tcall.todo /\ call.hops = tcall.hops /\ call.offered = tcall.offered
    BY <1>0 DEF TextCalls
  <2>2. Handled(call) /\ tcall.pc \in Working BY <1>18 DEF CalendarBooks, Working
  <2> HIDE DEF call
  <2>3. tcall' \in TextCalls /\ tcall'.offered = tcall.offered /\ tcall'.pc # "provider"
    BY <2>1, <2>2, HandledTyped
  <2>4. \A b \in slots' : ~Breaches(b) BY <1>0, <1>16, <1>18 DEF CalendarBooks, PolicyInv
  <2>5. QED BY <1>17, <2>3, <2>4
<1>19. CASE BookingFails
  <2>1. Handled(tcall) /\ tcall.pc \in Working BY <1>19 DEF BookingFails, Rejected, Working
  <2>2. tcall' \in TextCalls /\ tcall'.offered = tcall.offered /\ tcall'.pc # "provider"
    BY <1>0, <2>1, HandledTyped
  <2>3. \A b \in slots' : ~Breaches(b) BY <1>0, <1>16, <1>19 DEF BookingFails, PolicyInv
  <2>4. QED BY <1>17, <2>2, <2>3
<1>20. ASSUME NEW d \in 0 .. 1, NEW others, AvailabilityRead(d, others) PROVE Goal
  <2>1. PICK offers \in SUBSET Int : /\ offers = Offers(d, BusyPeriods(others))
                                     /\ \A at \in offers : ~OutOfHours(at) /\ ~OutOfWindow(at)
    BY OffersMayBeBooked
  <2> DEFINE call == [tcall EXCEPT !.offered = offers]
  <2>2. call \in TextCalls /\ call.todo = tcall.todo /\ call.hops = tcall.hops /\ call.offered = offers
    BY <1>0 DEF TextCalls
  <2>3. Handled(call) /\ tcall.pc \in Working /\ slots' = slots
    BY <1>20, <2>1 DEF AvailabilityRead, Working
  <2> HIDE DEF call
  <2>4. tcall' \in TextCalls /\ tcall'.offered = offers /\ tcall'.pc # "provider"
    BY <2>2, <2>3, HandledTyped
  <2>5. QED BY <1>0, <2>1, <2>3, <2>4
          DEF PolicyInv, Breaches, OutOfHours, OutOfWindow, LocalHour, BadAddress
<1>21. CASE HandlerRejects BY <1>14, <1>21 DEF HandlerRejects, Rejected, Working
<1>22. CASE HearsTurn
  <2>1. Head(tleg.queue) \in {"none", "talk", "optOut", "human"}
    BY <1>0, <1>22, HeadTailProperties DEF HearsTurn, TextLegs
  <2> DEFINE listened == [tcall EXCEPT !.turns = @ + 1]
  <2>2. listened \in TextCalls /\ listened.offered = tcall.offered
    <3>1. tcall.turns + 1 \in Nat BY <1>0 DEF TextCalls
    <3>2. QED BY <1>0, <3>1 DEF TextCalls
  <2>3. /\ slots' = slots
        /\ \/ tcall' = [tcall EXCEPT !.pc = "closing"]
           \/ tcall' = [listened EXCEPT !.pc = "turn"]
           \/ \E pc \in {"closing", "raised"} :
                 tcall' = [[listened EXCEPT !.outcome = "opted_out", !.optedOut = TRUE] EXCEPT !.pc = pc]
           \/ tcall' = [[listened EXCEPT !.human = TRUE] EXCEPT !.pc = "closing", !.outcome = "transferred"]
           \/ tcall' = [[listened EXCEPT !.human = TRUE] EXCEPT !.pc = "raised"]
    BY <1>22, <2>1 DEF HearsTurn
  <2> HIDE DEF listened
  <2>4. ASSUME NEW from \in {tcall, listened}, NEW pc \in {"closing", "turn"}, tcall' = [from EXCEPT !.pc = pc]
        PROVE  Goal
    <3>1. from \in TextCalls /\ from.offered = tcall.offered BY <1>0, <2>2
    <3>2. tcall' \in TextCalls /\ tcall'.offered = tcall.offered /\ tcall'.pc # "provider"
      BY <2>4, <3>1 DEF TextCalls
    <3>3. QED BY <1>1, <2>3, <3>2
  <2>5. ASSUME NEW pc \in {"closing", "raised"},
               tcall' = [[listened EXCEPT !.outcome = "opted_out", !.optedOut = TRUE] EXCEPT !.pc = pc]
        PROVE  Goal
    <3>1. tcall' = [listened EXCEPT !.outcome = "opted_out", !.optedOut = TRUE, !.pc = pc]
      BY <2>2, <2>5 DEF TextCalls
    <3>2. tcall' \in TextCalls /\ tcall'.offered = tcall.offered /\ tcall'.pc # "provider"
      BY <2>2, <3>1 DEF TextCalls
    <3>3. QED BY <1>1, <2>3, <3>2
  <2>6. CASE tcall' = [[listened EXCEPT !.human = TRUE] EXCEPT !.pc = "closing", !.outcome = "transferred"]
    <3>1. tcall' = [listened EXCEPT !.human = TRUE, !.pc = "closing", !.outcome = "transferred"]
      BY <2>2, <2>6 DEF TextCalls
    <3>2. tcall' \in TextCalls /\ tcall'.offered = tcall.offered /\ tcall'.pc # "provider"
      BY <2>2, <3>1 DEF TextCalls
    <3>3. QED BY <1>1, <2>3, <3>2
  <2>7. CASE tcall' = [[listened EXCEPT !.human = TRUE] EXCEPT !.pc = "raised"]
    <3>1. tcall' = [listened EXCEPT !.human = TRUE, !.pc = "raised"]
      BY <2>2, <2>7 DEF TextCalls
    <3>2. tcall' \in TextCalls /\ tcall'.offered = tcall.offered /\ tcall'.pc # "provider"
      BY <2>2, <3>1 DEF TextCalls
    <3>3. QED BY <1>1, <2>3, <3>2
  <2>8. QED BY <2>3, <2>4, <2>5, <2>6, <2>7
<1>23. CASE EngineConcludes
  <2>1. Classified \in {"no_answer", "booked", "opted_out", "transferred", "qualified"}
    <3>1. tcall.outcome \in {"none", "no_answer", "booked", "opted_out", "transferred", "qualified"}
      BY <1>0 DEF TextCalls
    <3>2. QED BY <3>1 DEF Classified, NoOutcome
  <2>2. PICK pc \in {"returned", "raised"} :
            slots' = slots /\ tcall' = [tcall EXCEPT !.pc = pc, !.outcome = Classified]
    BY <1>23 DEF EngineConcludes
  <2>3. tcall' \in TextCalls /\ tcall'.offered = tcall.offered /\ tcall'.pc # "provider"
    BY <1>0, <2>1, <2>2 DEF TextCalls
  <2>4. QED BY <1>1, <2>2, <2>3
<1>24. QED
  BY <1>4, <1>5, <1>6, <1>7, <1>8, <1>9, <1>10, <1>11, <1>12, <1>13, <1>15, <1>18, <1>19,
     <1>20, <1>21, <1>22, <1>23, ToolCallsTyped
  DEF EngineNext

\* The leg's part: what may still arrive on it, and how it ends.
LEMMA LegKeeps == EngineInv /\ EngineNext => LegInv'
<1> SUFFICES ASSUME EngineInv, EngineNext PROVE LegInv'
  OBVIOUS
<1>0. /\ LegInv /\ tleg \in TextLegs /\ tcall \in TextCalls /\ tleg' \in TextLegs
      /\ Len(tleg.queue) \in Nat /\ tleg.told \in Nat
  BY LegTyped, LenProperties DEF EngineInv, LegInv, TextLegs
<1>1. ASSUME tleg'.told = tleg.told, Len(tleg'.queue) <= Len(tleg.queue), Len(tleg'.queue) \in Nat,
             tleg.at = "over" => tleg'.at = "over",
             tleg'.pending => tcall'.pc = "dialing",
             tcall'.pc \in CallOver => tleg'.closed /\ ~tleg'.pending,
             tcall'.pc = "new" => tleg'.at = "idle"
      PROVE  LegInv'
  BY <1>0, <1>1 DEF LegInv
<1>2. ASSUME tleg' = tleg, tcall'.pc = tcall.pc \/ (tcall.pc \notin CallOver \cup {"dialing"} /\ tcall'.pc \notin CallOver \cup {"new"})
      PROVE  LegInv'
  BY <1>0, <1>1, <1>2 DEF LegInv, CallOver
<1>3. ASSUME tleg' = Hangs(tleg), tcall'.pc # "new" PROVE LegInv'
  <2>1. /\ tleg'.told = tleg.told /\ tleg'.queue = tleg.queue /\ tleg'.closed /\ ~tleg'.pending
        /\ tleg.at = "over" => tleg'.at = "over"
    BY <1>0, <1>3 DEF Hangs, TextLegs
  <2>2. QED BY <1>0, <1>1, <1>3, <2>1
<1>4. ASSUME Raise PROVE LegInv'
  <2>1. tleg' = Hangs(tleg) /\ tcall'.pc = "raised" BY <1>0, <1>4 DEF Raise, TextCalls
  <2>2. QED BY <1>3, <2>1
<1>5. ASSUME NEW call \in TextCalls, Started(call) PROVE tcall'.pc \in {"closing", "turn"}
  BY <1>5 DEF Started, TextCalls
<1>6. ASSUME NEW forced \in BOOLEAN, EngineStarts(forced) PROVE LegInv'
  <2>1. tcall.pc = "new" /\ tleg.at = "idle" /\ ~tleg.pending BY <1>0, <1>6 DEF EngineStarts, LegInv
  <2>2. CASE tcall.kind = "scripted"
    <3> DEFINE call == [tcall EXCEPT !.forced = forced, !.outcome = IF forced THEN "no_answer" ELSE @]
    <3>1. call \in TextCalls BY <1>0 DEF TextCalls
    <3>2. Started(call) BY <1>6, <2>2 DEF EngineStarts
    <3>3. tcall'.pc \in {"closing", "turn"} BY <1>5, <3>1, <3>2
    <3>4. /\ tleg'.told = tleg.told /\ tleg'.queue = tleg.queue /\ ~tleg'.pending
      BY <1>0, <1>6, <2>1, <2>2 DEF EngineStarts, TextLegs
    <3>5. QED BY <1>0, <1>1, <2>1, <3>3, <3>4 DEF CallOver
  <2>3. CASE tcall.kind # "scripted"
    <3>1. tcall'.pc = "dialing" /\ tleg'.told = tleg.told /\ tleg'.queue = tleg.queue
      BY <1>0, <1>6, <2>3 DEF EngineStarts, TextCalls, TextLegs
    <3>2. QED BY <1>0, <1>1, <2>1, <3>1 DEF CallOver
  <2>4. QED BY <2>2, <2>3
<1>7. CASE CallPlaced
  <2>1. CASE tleg' = [tleg EXCEPT !.at = "placed", !.pending = TRUE] /\ UNCHANGED tcall
    BY <1>0, <1>1, <1>7, <2>1 DEF CallPlaced, TextLegs, CallOver
  <2>2. QED BY <1>4, <1>7, <2>1 DEF CallPlaced
<1>8. CASE PlatformDialsBack
  <2>1. tcall'.pc \in {"closing", "turn"} BY <1>0, <1>5, <1>8 DEF PlatformDialsBack
  <2>2. tleg'.told = tleg.told /\ tleg'.queue = tleg.queue /\ ~tleg'.pending /\ tleg.at # "over"
    BY <1>0, <1>8 DEF PlatformDialsBack, TextLegs
  <2>3. QED BY <1>0, <1>1, <2>1, <2>2 DEF CallOver
<1>9. CASE ConnectTimesOut \/ ModelFails BY <1>4, <1>9 DEF ConnectTimesOut, ModelFails
<1>10. CASE ResponseRequired
  <2>1. /\ tleg'.told = tleg.told /\ tleg'.queue = tleg.queue /\ tleg'.pending = tleg.pending
        /\ tleg'.at = tleg.at /\ tleg'.closed = tleg.closed /\ tcall' = tcall
    BY <1>0, <1>10 DEF ResponseRequired, TextLegs
  <2>2. QED BY <1>0, <1>1, <2>1 DEF LegInv
<1>11. ASSUME NEW what \in {"none", "talk", "optOut", "human"},
              tleg'.queue = Append(tleg.queue, what)
       PROVE  Len(tleg'.queue) = Len(tleg.queue) + 1
  BY <1>0, <1>11, AppendProperties DEF TextLegs
<1>12. CASE LeadHangsUp
  <2>1. /\ tleg'.told = tleg.told /\ tleg'.queue = Append(tleg.queue, "none") /\ tleg'.pending = tleg.pending
        /\ tleg'.at = "over" /\ tleg'.closed = tleg.closed /\ tcall' = tcall
        /\ tleg.at = "connected"
    BY <1>0, <1>12 DEF LeadHangsUp, TextLegs
  <2>2. Len(tleg'.queue) = Len(tleg.queue) + 1 BY <1>11, <2>1
  <2>3. QED BY <1>0, <2>1, <2>2 DEF LegInv
<1>13. ASSUME NEW what \in {"talk", "optOut", "human"}, LeadSpeaks(what) PROVE LegInv'
  <2>1. /\ tleg'.told = tleg.told + 1 /\ tleg'.queue = Append(tleg.queue, what)
        /\ tleg'.pending = tleg.pending /\ tleg.told < MaxUtterances
        /\ tleg'.at = "connected" /\ tleg'.closed = tleg.closed /\ tcall' = tcall
        /\ tleg.at = "connected"
    BY <1>0, <1>13 DEF LeadSpeaks, TextLegs
  <2>2. Len(tleg'.queue) = Len(tleg.queue) + 1 BY <1>11, <2>1
  <2>3. tleg.told + 1 <= MaxUtterances BY <1>0, <2>1, CallEngineAssumption
  <2>4. QED BY <1>0, <2>1, <2>2, <2>3 DEF LegInv
<1>14. CASE TurnBegins BY <1>0, <1>2, <1>14 DEF TurnBegins, TextCalls, CallOver
<1>15. CASE ModelRetries BY <1>0, <1>2, <1>15 DEF ModelRetries, TextCalls, CallOver
<1>16. ASSUME NEW calls \in Seq(Tools), ModelCallsTools(calls) PROVE LegInv'
  BY <1>0, <1>2, <1>16 DEF ModelCallsTools, TextCalls, CallOver
<1>17. CASE ModelSpeaks
  <2>1. CASE tleg' = Said(tleg) /\ tcall'.pc = "listening"
    <3>1. /\ tleg'.told = tleg.told /\ tleg'.queue = tleg.queue /\ tleg'.pending = tleg.pending
          /\ tleg'.at = tleg.at
      BY <1>0, <2>1 DEF Said, TextLegs
    <3>2. QED BY <1>0, <1>1, <1>17, <2>1, <3>1 DEF LegInv, CallOver, ModelSpeaks
  <2>2. CASE UNCHANGED tleg /\ tcall'.pc = "listening"
    BY <1>2, <1>17, <2>2 DEF ModelSpeaks, CallOver
  <2>3. tcall'.pc = "listening" \/ Raise BY <1>0, <1>17 DEF ModelSpeaks, TextCalls
  <2>4. QED BY <1>4, <1>17, <2>1, <2>2, <2>3 DEF ModelSpeaks
<1>18. CASE ToolInvoked
  <2>1. CASE tcall' = [tcall EXCEPT !.pc = "handler"] /\ UNCHANGED tleg
    BY <1>0, <1>2, <1>18, <2>1 DEF ToolInvoked, TextCalls, CallOver
  <2>2. QED BY <1>4, <1>18, <2>1 DEF ToolInvoked
<1>19. ASSUME tcall.pc \in Working, UNCHANGED tleg, tcall'.pc \in {"model", "tool", "provider"}
       PROVE  LegInv'
  BY <1>2, <1>19 DEF Working, CallOver
<1>20. ASSUME NEW ask, CalendarChecked(ask) PROVE LegInv'
  <2>1. tcall'.pc \in {"model", "tool", "provider"}
    BY <1>0, <1>20 DEF CalendarChecked, Rejected, Handled, TextCalls
  <2>2. QED BY <1>19, <1>20, <2>1 DEF CalendarChecked, Working
<1>21. ASSUME NEW d, NEW others, AvailabilityRead(d, others) PROVE LegInv'
  <2>1. tcall'.pc \in {"model", "tool"} BY <1>0, <1>21 DEF AvailabilityRead, Handled, TextCalls
  <2>2. QED BY <1>19, <1>21, <2>1 DEF AvailabilityRead, Working
<1>22. CASE CalendarBooks \/ BookingFails \/ HandlerRejects
  <2>1. tcall'.pc \in {"model", "tool"}
    BY <1>0, <1>22 DEF CalendarBooks, BookingFails, HandlerRejects, Rejected, Handled, TextCalls
  <2>2. QED BY <1>19, <1>22, <2>1 DEF CalendarBooks, BookingFails, HandlerRejects, Working
<1>23. CASE HearsTurn
  <2> DEFINE leg == [tleg EXCEPT !.queue = Tail(@)]
  <2>1. /\ Head(tleg.queue) \in {"none", "talk", "optOut", "human"}
        /\ Tail(tleg.queue) \in Seq({"none", "talk", "optOut", "human"})
        /\ Len(Tail(tleg.queue)) = Len(tleg.queue) - 1
    BY <1>0, <1>23, HeadTailProperties DEF HearsTurn, TextLegs
  <2>2. /\ leg \in TextLegs /\ leg.told = tleg.told /\ leg.queue = Tail(tleg.queue)
        /\ leg.pending = tleg.pending /\ leg.at = tleg.at
    BY <1>0, <2>1 DEF TextLegs
  <2>3. \/ tleg' \in {leg, Said(leg)} /\ tcall'.pc \in {"closing", "turn"}
        \/ tleg' = Hangs(leg) /\ tcall'.pc = "raised"
    BY <1>0, <1>23, <2>1 DEF HearsTurn, TextCalls
  <2> HIDE DEF leg
  <2>4. /\ tleg'.told = tleg.told /\ tleg'.queue = Tail(tleg.queue)
        /\ tleg.at = "over" => tleg'.at = "over"
        /\ tleg'.pending => tleg.pending
        /\ tcall'.pc = "raised" => tleg'.closed /\ ~tleg'.pending
    BY <2>2, <2>3 DEF Said, Hangs, TextLegs
  <2>5. ~tleg.pending BY <1>0, <1>23 DEF HearsTurn, LegInv
  <2>6. Len(tleg'.queue) <= Len(tleg.queue) /\ Len(tleg'.queue) \in Nat
    BY <1>0, <2>1, <2>4, LenProperties DEF TextLegs
  <2>7. QED BY <1>1, <2>3, <2>4, <2>5, <2>6 DEF CallOver
<1>24. CASE EngineConcludes
  <2>1. tleg' = Hangs(tleg) /\ tcall'.pc \in {"returned", "raised"}
    BY <1>0, <1>24 DEF EngineConcludes, TextCalls
  <2>2. QED BY <1>3, <2>1
<1>25. QED
  BY <1>6, <1>7, <1>8, <1>9, <1>10, <1>12, <1>13, <1>14, <1>15, <1>16, <1>17, <1>18, <1>20,
     <1>21, <1>22, <1>23, <1>24, ToolCallsTyped
  DEF EngineNext

\* The part of what is said and of the tools' rounds.
LEMMA SpeechKeeps == EngineInv /\ EngineNext => SpeechInv'
<1> SUFFICES ASSUME EngineInv, EngineNext PROVE SpeechInv'
  OBVIOUS
<1>0. /\ SpeechInv /\ tcall \in TextCalls /\ tcall.hops \in Nat /\ tcall.tries \in Nat
  BY DEF EngineInv, TextCalls
<1>1. ASSUME tlog \subseteq tlog', tcall'.disclosed = tcall.disclosed, tcall'.said = tcall.said,
             tcall'.hops = tcall.hops, tcall'.tries \in {0, tcall.tries},
             tcall'.pc \notin Working \cup {"model"}
      PROVE  SpeechInv'
  BY <1>0, <1>1, CallEngineAssumption DEF SpeechInv
<1>2. ASSUME tcall' = tcall, tlog' = tlog PROVE SpeechInv'
  BY <1>0, <1>2 DEF SpeechInv
<1>3. ASSUME Raise, tlog \subseteq tlog' PROVE SpeechInv'
  BY <1>0, <1>1, <1>3 DEF Raise, Working, TextCalls
<1>4. ASSUME NEW forced \in BOOLEAN, EngineStarts(forced) PROVE SpeechInv'
  <2>1. CASE tcall.kind = "scripted"
    <3> DEFINE call == [tcall EXCEPT !.forced = forced, !.outcome = IF forced THEN "no_answer" ELSE @]
    <3>1. /\ call \in TextCalls /\ call.disclosed = tcall.disclosed /\ call.said = tcall.said
          /\ call.hops = tcall.hops /\ call.tries = tcall.tries
      BY <1>0 DEF TextCalls
    <3>2. Started(call) BY <1>4, <2>1 DEF EngineStarts
    <3> HIDE DEF call
    <3>3. QED BY <1>1, <3>1, <3>2 DEF Started, Emits, TextCalls, Working
  <2>2. CASE tcall.kind # "scripted"
    BY <1>0, <1>1, <1>4, <2>2 DEF EngineStarts, TextCalls, Working
  <2>3. QED BY <2>1, <2>2
<1>5. CASE CallPlaced BY <1>2, <1>3, <1>5 DEF CallPlaced
<1>6. CASE PlatformDialsBack
  BY <1>0, <1>1, <1>6 DEF PlatformDialsBack, Started, Emits, TextCalls, Working
<1>7. CASE ConnectTimesOut \/ ModelFails BY <1>3, <1>7 DEF ConnectTimesOut, ModelFails
<1>8. CASE ResponseRequired \/ LeadHangsUp \/ \E what \in {"talk", "optOut", "human"} : LeadSpeaks(what)
  BY <1>2, <1>8 DEF ResponseRequired, LeadHangsUp, LeadSpeaks
<1>9. CASE TurnBegins
  <2>1. /\ tcall'.pc = "model" /\ tcall'.hops = 0 /\ tcall'.disclosed /\ tcall'.tries = tcall.tries
        /\ tcall'.said = tcall.said
    BY <1>0, <1>9 DEF TurnBegins, TextCalls
  <2>2. "disclosure.spoken" \in tlog' BY <1>0, <1>9 DEF TurnBegins, SpeechInv
  <2>3. QED BY <1>0, <2>1, <2>2, CallEngineAssumption DEF SpeechInv, Working
<1>10. CASE ModelRetries
  <2>1. /\ tcall'.pc = "model" /\ tcall'.hops = tcall.hops /\ tcall'.disclosed = tcall.disclosed
        /\ tcall'.said = tcall.said /\ tcall'.tries = tcall.tries + 1
        /\ tcall.pc = "model" /\ tcall.tries < MaxModelRetries /\ tlog' = tlog
    BY <1>0, <1>10 DEF ModelRetries, TextCalls
  <2>2. tcall.tries + 1 <= MaxModelRetries BY <1>0, <2>1, CallEngineAssumption
  <2>3. QED BY <1>0, <2>1, <2>2 DEF SpeechInv, Working
<1>11. ASSUME NEW calls \in Seq(Tools), calls # <<>>, ModelCallsTools(calls) PROVE SpeechInv'
  <2>1. /\ tcall'.pc = "tool" /\ tcall'.hops = tcall.hops /\ tcall'.disclosed = tcall.disclosed
        /\ tcall'.said = tcall.said /\ tcall'.tries = 0 /\ tcall'.todo = calls
        /\ tcall.pc = "model" /\ tcall.hops < MaxToolHops /\ tlog' = tlog
    BY <1>0, <1>11 DEF ModelCallsTools, TextCalls
  <2>2. QED BY <1>0, <1>11, <2>1, CallEngineAssumption DEF SpeechInv
<1>12. CASE ModelSpeaks
  <2>1. CASE tcall' = [tcall EXCEPT !.pc = "listening", !.opening = FALSE, !.said = 1, !.tries = 0]
    <3>1. /\ tcall'.pc = "listening" /\ tcall'.hops = tcall.hops /\ tcall'.disclosed = tcall.disclosed
          /\ tcall'.tries = 0
      BY <1>0, <2>1 DEF TextCalls
    <3>2. tcall.pc = "model" /\ tlog' = tlog BY <1>12 DEF ModelSpeaks
    <3>3. QED BY <1>0, <3>1, <3>2, CallEngineAssumption DEF SpeechInv, Working
  <2>2. CASE tcall' = [tcall EXCEPT !.pc = "listening", !.tries = 0]
    BY <1>0, <1>1, <1>12, <2>2 DEF ModelSpeaks, TextCalls, Working
  <2>3. QED BY <1>3, <1>12, <2>1, <2>2 DEF ModelSpeaks
<1>13. CASE ToolInvoked
  <2>1. CASE tcall' = [tcall EXCEPT !.pc = "handler"]
    <3>1. /\ tcall'.pc = "handler" /\ tcall'.hops = tcall.hops /\ tcall'.disclosed = tcall.disclosed
          /\ tcall'.tries = tcall.tries /\ tcall'.said = tcall.said /\ tcall'.todo = tcall.todo
      BY <1>0, <2>1 DEF TextCalls
    <3>2. tcall.pc = "tool" /\ tlog \subseteq tlog' BY <1>13 DEF ToolInvoked, Emits
    <3>3. QED BY <1>0, <3>1, <3>2 DEF SpeechInv, Working
  <2>2. QED BY <1>3, <1>13, <2>1 DEF ToolInvoked, Emits
<1>14. ASSUME tcall.pc \in Working, NEW call \in TextCalls, Handled(call), tlog \subseteq tlog',
              call.todo = tcall.todo, call.hops = tcall.hops, call.disclosed = tcall.disclosed,
              call.said = tcall.said, call.tries = tcall.tries
       PROVE  SpeechInv'
  <2>1. /\ tcall'.pc \in {"model", "tool"} /\ tcall'.disclosed = tcall.disclosed
        /\ tcall'.said = tcall.said /\ tcall'.tries = tcall.tries
        /\ tcall'.pc = "tool" => tcall'.todo # <<>> /\ tcall'.hops = tcall.hops
        /\ tcall'.hops \in {tcall.hops, tcall.hops + 1}
    BY <1>14, HandledTyped
  <2>2. tcall.hops < MaxToolHops /\ tcall.hops + 1 <= MaxToolHops
    BY <1>0, <1>14, CallEngineAssumption DEF SpeechInv
  <2>3. QED BY <1>0, <1>14, <2>1, <2>2 DEF SpeechInv, Working
<1>15. ASSUME NEW ask, CalendarChecked(ask) PROVE SpeechInv'
  <2>1. tcall.pc = "handler" BY <1>15 DEF CalendarChecked
  <2>2. CASE Rejected BY <1>0, <1>14, <2>1, <2>2 DEF Rejected, Emits, Working
  <2>3. CASE tcall' = [tcall EXCEPT !.pc = "provider", !.ask = ask] /\ UNCHANGED tlog
    <3>1. /\ tcall'.pc = "provider" /\ tcall'.hops = tcall.hops /\ tcall'.disclosed = tcall.disclosed
          /\ tcall'.tries = tcall.tries /\ tcall'.said = tcall.said /\ tcall'.todo = tcall.todo
      BY <1>0, <2>3 DEF TextCalls
    <3>2. QED BY <1>0, <2>1, <2>3, <3>1 DEF SpeechInv, Working
  <2>4. QED BY <1>15, <2>2, <2>3 DEF CalendarChecked
<1>16. CASE CalendarBooks
  <2> DEFINE call == [tcall EXCEPT !.outcome = "booked"]
  <2>1. /\ call \in TextCalls /\ call.todo = tcall.todo /\ call.hops = tcall.hops
        /\ call.disclosed = tcall.disclosed /\ call.said = tcall.said /\ call.tries = tcall.tries
    BY <1>0 DEF TextCalls
  <2>2. Handled(call) /\ tcall.pc \in Working /\ tlog \subseteq tlog'
    BY <1>16 DEF CalendarBooks, Working, Emits
  <2> HIDE DEF call
  <2>3. QED BY <1>14, <2>1, <2>2
<1>17. CASE BookingFails \/ HandlerRejects
  BY <1>0, <1>14, <1>17 DEF BookingFails, HandlerRejects, Rejected, Emits, Working
<1>18. ASSUME NEW d \in 0 .. 1, NEW others, AvailabilityRead(d, others) PROVE SpeechInv'
  <2>1. PICK offers \in SUBSET Int : offers = Offers(d, BusyPeriods(others))
    BY OffersMayBeBooked
  <2> DEFINE call == [tcall EXCEPT !.offered = offers]
  <2>2. /\ call \in TextCalls /\ call.todo = tcall.todo /\ call.hops = tcall.hops
        /\ call.disclosed = tcall.disclosed /\ call.said = tcall.said /\ call.tries = tcall.tries
    BY <1>0 DEF TextCalls
  <2>3. Handled(call) /\ tcall.pc \in Working /\ tlog \subseteq tlog'
    BY <1>18, <2>1 DEF AvailabilityRead, Working, Emits
  <2> HIDE DEF call
  <2>4. QED BY <1>14, <2>2, <2>3
<1>19. CASE HearsTurn
  <2>1. Head(tleg.queue) \in {"none", "talk", "optOut", "human"}
    BY <1>19, HeadTailProperties DEF HearsTurn, EngineInv, LegInv, TextLegs
  <2> DEFINE listened == [tcall EXCEPT !.turns = @ + 1]
  <2>2. \/ tcall' = [tcall EXCEPT !.pc = "closing"]
        \/ tcall' = [listened EXCEPT !.pc = "turn"]
        \/ \E pc \in {"closing", "raised"} :
              tcall' = [[listened EXCEPT !.outcome = "opted_out", !.optedOut = TRUE] EXCEPT !.pc = pc]
        \/ tcall' = [[listened EXCEPT !.human = TRUE] EXCEPT !.pc = "closing", !.outcome = "transferred"]
        \/ tcall' = [[listened EXCEPT !.human = TRUE] EXCEPT !.pc = "raised"]
    BY <1>19, <2>1 DEF HearsTurn
  <2>3. tlog \subseteq tlog' BY <1>19, <2>1 DEF HearsTurn, Emits
  <2>4. /\ tcall'.disclosed = tcall.disclosed /\ tcall'.said = tcall.said
        /\ tcall'.hops = tcall.hops /\ tcall'.tries = tcall.tries
        /\ tcall'.pc \in {"closing", "turn", "raised"} /\ tlog \subseteq tlog'
    BY <1>0, <2>2, <2>3 DEF TextCalls
  <2>5. QED BY <1>1, <2>4 DEF Working
<1>20. CASE EngineConcludes
  BY <1>0, <1>1, <1>20 DEF EngineConcludes, TextCalls, Emits, Working
<1>21. QED
  BY <1>4, <1>5, <1>6, <1>7, <1>8, <1>9, <1>10, <1>11, <1>12, <1>13, <1>15, <1>16, <1>17,
     <1>18, <1>19, <1>20, ToolCallsTyped
  DEF EngineNext


\* The part of the outcome, from what was heard and what was booked.
LEMMA ReportKeeps == EngineInv /\ EngineNext => ReportInv'
<1> SUFFICES ASSUME EngineInv, EngineNext PROVE ReportInv'
  OBVIOUS
<1>0. ReportInv /\ tcall \in TextCalls BY DEF EngineInv
<1> DEFINE Same ==
             /\ tcall'.outcome = tcall.outcome /\ tcall'.optedOut = tcall.optedOut
             /\ tcall'.human = tcall.human /\ tcall'.forced = tcall.forced
             /\ tcall'.turns = tcall.turns
<1>1. ASSUME Same, (\E b \in slots' : b.known) <=> (\E b \in slots : b.known),
             tcall.pc \notin CallOver \cup {"closing"}, tcall'.pc \notin CallOver \cup {"new"}
      PROVE  ReportInv'
  <2>1. SoFar' = SoFar BY <1>1 DEF SoFar
  <2>2. QED BY <1>0, <1>1, <2>1 DEF ReportInv, CallOver
<1>2. ASSUME tcall' = tcall, slots' = slots, tlog' = tlog PROVE ReportInv'
  <2>1. SoFar' = SoFar BY <1>2 DEF SoFar
  <2>2. QED BY <1>0, <1>2, <2>1 DEF ReportInv
<1>3. ASSUME tcall'.pc = "raised", tcall'.forced => tcall'.turns = 0 PROVE ReportInv'
  BY <1>3 DEF ReportInv, CallOver
<1>4. ASSUME Raise PROVE ReportInv'
  BY <1>0, <1>3, <1>4 DEF Raise, TextCalls, ReportInv
<1>5. ASSUME NEW forced \in BOOLEAN, EngineStarts(forced) PROVE ReportInv'
  <2>1. CASE tcall.kind = "scripted"
    <3> DEFINE call == [tcall EXCEPT !.forced = forced, !.outcome = IF forced THEN "no_answer" ELSE @]
    <3>1. /\ call.optedOut = tcall.optedOut /\ call.human = tcall.human /\ call.forced = forced
          /\ call.turns = tcall.turns /\ call.outcome = IF forced THEN "no_answer" ELSE tcall.outcome
          /\ call \in TextCalls
      BY <1>0 DEF TextCalls
    <3>2. Started(call) /\ tcall.pc = "new" /\ slots' = slots BY <1>5, <2>1 DEF EngineStarts
    <3> HIDE DEF call
    <3>3. /\ tcall'.pc = IF forced THEN "closing" ELSE "turn"
          /\ tcall'.optedOut = tcall.optedOut /\ tcall'.human = tcall.human
          /\ tcall'.forced = forced /\ tcall'.turns = tcall.turns
          /\ tcall'.outcome = IF forced THEN "no_answer" ELSE tcall.outcome
      BY <3>1, <3>2 DEF Started, TextCalls
    <3>4. /\ ~tcall.optedOut /\ ~tcall.human /\ ~tcall.forced /\ slots = {} /\ tcall.turns = 0
          /\ tcall.outcome = "none"
      BY <1>0, <3>2 DEF ReportInv, CallOver, SoFar
    <3>5. SoFar' = IF forced THEN "no_answer" ELSE "none" BY <3>2, <3>3, <3>4 DEF SoFar
    <3>6. QED BY <3>3, <3>4, <3>5 DEF ReportInv, CallOver
  <2>2. CASE tcall.kind # "scripted"
    <3>1. Same /\ tcall'.pc = "dialing" /\ tcall.pc = "new" /\ slots' = slots
      BY <1>0, <1>5, <2>2 DEF EngineStarts, TextCalls
    <3>2. QED BY <1>1, <3>1 DEF CallOver
  <2>3. QED BY <2>1, <2>2
<1>6. CASE CallPlaced BY <1>2, <1>4, <1>6 DEF CallPlaced
<1>7. CASE PlatformDialsBack
  <2>1. tcall.pc = "dialing" /\ slots' = slots
    BY <1>7 DEF PlatformDialsBack, EngineInv, LegInv
  <2>2. ~tcall.forced BY <1>0, <2>1 DEF ReportInv, CallOver
  <2>3. Same /\ tcall'.pc = "turn"
    BY <1>0, <1>7, <2>2 DEF PlatformDialsBack, Started, TextCalls
  <2>4. QED BY <1>1, <2>1, <2>3 DEF CallOver
<1>8. CASE ConnectTimesOut \/ ModelFails BY <1>4, <1>8 DEF ConnectTimesOut, ModelFails
<1>9. CASE ResponseRequired \/ LeadHangsUp \/ \E what \in {"talk", "optOut", "human"} : LeadSpeaks(what)
  BY <1>2, <1>9 DEF ResponseRequired, LeadHangsUp, LeadSpeaks
<1>10. CASE TurnBegins
  BY <1>0, <1>1, <1>10 DEF TurnBegins, TextCalls, CallOver
<1>11. CASE ModelRetries
  BY <1>0, <1>1, <1>11 DEF ModelRetries, TextCalls, CallOver
<1>12. ASSUME NEW calls \in Seq(Tools), ModelCallsTools(calls) PROVE ReportInv'
  BY <1>0, <1>1, <1>12 DEF ModelCallsTools, TextCalls, CallOver
<1>13. CASE ModelSpeaks
  <2>1. CASE tcall' = [tcall EXCEPT !.pc = "listening", !.opening = FALSE, !.said = 1, !.tries = 0]
    BY <1>0, <1>1, <1>13, <2>1 DEF ModelSpeaks, TextCalls, CallOver
  <2>2. CASE tcall' = [tcall EXCEPT !.pc = "listening", !.tries = 0]
    BY <1>0, <1>1, <1>13, <2>2 DEF ModelSpeaks, TextCalls, CallOver
  <2>3. QED BY <1>4, <1>13, <2>1, <2>2 DEF ModelSpeaks
<1>14. CASE ToolInvoked
  <2>1. CASE tcall' = [tcall EXCEPT !.pc = "handler"]
    BY <1>0, <1>1, <1>14, <2>1 DEF ToolInvoked, TextCalls, CallOver
  <2>2. QED BY <1>4, <1>14, <2>1 DEF ToolInvoked
<1>15. ASSUME tcall.pc \in Working, NEW call \in TextCalls, Handled(call),
              call.todo = tcall.todo, call.hops = tcall.hops, call.outcome = tcall.outcome,
              call.optedOut = tcall.optedOut, call.human = tcall.human,
              call.forced = tcall.forced, call.turns = tcall.turns,
              (\E b \in slots' : b.known) <=> (\E b \in slots : b.known)
       PROVE  ReportInv'
  <2>1. Same /\ tcall'.pc \in {"model", "tool"} BY <1>15, HandledTyped
  <2>2. QED BY <1>1, <1>15, <2>1 DEF Working, CallOver
<1>16. ASSUME NEW ask, CalendarChecked(ask) PROVE ReportInv'
  <2>1. tcall.pc = "handler" /\ slots' = slots BY <1>16 DEF CalendarChecked
  <2>2. CASE Rejected BY <1>0, <1>15, <2>1, <2>2 DEF Rejected, Working
  <2>3. CASE tcall' = [tcall EXCEPT !.pc = "provider", !.ask = ask]
    <3>1. Same /\ tcall'.pc = "provider" BY <1>0, <2>3 DEF TextCalls
    <3>2. QED BY <1>1, <2>1, <3>1 DEF CallOver
  <2>4. QED BY <1>16, <2>2, <2>3 DEF CalendarChecked
<1>17. CASE CalendarBooks
  <2> DEFINE call == [tcall EXCEPT !.outcome = "booked"]
  <2>1. /\ call \in TextCalls /\ call.todo = tcall.todo /\ call.hops = tcall.hops
        /\ call.optedOut = tcall.optedOut /\ call.human = tcall.human
        /\ call.forced = tcall.forced /\ call.turns = tcall.turns /\ call.outcome = "booked"
    BY <1>0 DEF TextCalls
  <2>2. Handled(call) /\ tcall.pc = "provider" /\ slots' = slots \cup {Booking(TRUE)}
    BY <1>17 DEF CalendarBooks
  <2> HIDE DEF call
  <2>3. /\ tcall'.pc \in {"model", "tool"} /\ tcall'.outcome = "booked"
        /\ tcall'.optedOut = tcall.optedOut /\ tcall'.human = tcall.human
        /\ tcall'.forced = tcall.forced /\ tcall'.turns = tcall.turns
    BY <2>1, <2>2, HandledTyped DEF Working
  <2>4. ~tcall.optedOut /\ ~tcall.human /\ ~tcall.forced BY <1>0, <2>2 DEF ReportInv, CallOver
  <2>5. \E b \in slots' : b.known
    <3>1. Booking(TRUE) \in slots' BY <2>2
    <3>2. Booking(TRUE).known = TRUE BY DEF Booking
    <3>3. QED BY <3>1, <3>2, Zenon
  <2>6. SoFar' = "booked" BY <2>3, <2>4, <2>5 DEF SoFar
  <2>7. QED BY <2>3, <2>4, <2>6 DEF ReportInv, CallOver
<1>18. CASE BookingFails
  <2>1. (\E b \in slots' : b.known) <=> (\E b \in slots : b.known)
    BY <1>18 DEF BookingFails, Booking
  <2>2. tcall.pc = "provider" /\ Handled(tcall) BY <1>18 DEF BookingFails, Rejected
  <2>3. QED BY <1>0, <1>15, <2>1, <2>2 DEF Working
<1>19. CASE HandlerRejects
  BY <1>0, <1>15, <1>19 DEF HandlerRejects, Rejected, Working
<1>20. ASSUME NEW d \in 0 .. 1, NEW others, AvailabilityRead(d, others) PROVE ReportInv'
  <2>1. PICK offers \in SUBSET Int : offers = Offers(d, BusyPeriods(others))
    BY OffersMayBeBooked
  <2> DEFINE call == [tcall EXCEPT !.offered = offers]
  <2>2. /\ call \in TextCalls /\ call.todo = tcall.todo /\ call.hops = tcall.hops
        /\ call.optedOut = tcall.optedOut /\ call.human = tcall.human
        /\ call.forced = tcall.forced /\ call.turns = tcall.turns /\ call.outcome = tcall.outcome
    BY <1>0 DEF TextCalls
  <2>3. Handled(call) /\ tcall.pc \in Working /\ slots' = slots
    BY <1>20, <2>1 DEF AvailabilityRead, Working
  <2> HIDE DEF call
  <2>4. QED BY <1>15, <2>2, <2>3
<1>21. CASE HearsTurn
  <2>1. Head(tleg.queue) \in {"none", "talk", "optOut", "human"}
    BY <1>21, HeadTailProperties DEF HearsTurn, EngineInv, LegInv, TextLegs
  <2>2. tcall.pc = "listening" /\ slots' = slots BY <1>21 DEF HearsTurn
  <2>3. /\ ~tcall.optedOut /\ ~tcall.human /\ ~tcall.forced /\ tcall.outcome = SoFar
    BY <1>0, <2>2 DEF ReportInv, CallOver
  <2>4. CASE Head(tleg.queue) = "none"
    <3>1. Same /\ tcall'.pc = "closing" BY <1>0, <1>21, <2>4 DEF HearsTurn, TextCalls
    <3>2. QED BY <1>1, <2>2, <3>1 DEF CallOver
  <2>5. CASE Head(tleg.queue) = "talk"
    <3>1. /\ tcall'.pc = "turn" /\ tcall'.outcome = tcall.outcome
          /\ tcall'.optedOut = tcall.optedOut /\ tcall'.human = tcall.human
          /\ tcall'.forced = tcall.forced
      BY <1>0, <1>21, <2>5 DEF HearsTurn, TextCalls
    <3>2. SoFar' = SoFar BY <2>2, <3>1 DEF SoFar
    <3>3. QED BY <2>3, <3>1, <3>2 DEF ReportInv, CallOver
  <2>6. CASE Head(tleg.queue) = "optOut"
    <3>1. /\ tcall'.pc \in {"closing", "raised"} /\ tcall'.outcome = "opted_out"
          /\ tcall'.optedOut /\ ~tcall'.forced
      BY <1>0, <1>21, <2>3, <2>6 DEF HearsTurn, TextCalls
    <3>2. SoFar' = "opted_out" BY <3>1 DEF SoFar
    <3>3. QED BY <3>1, <3>2 DEF ReportInv, CallOver
  <2>7. CASE Head(tleg.queue) = "human"
    <3>1. /\ tcall'.pc \in {"closing", "raised"} /\ ~tcall'.forced
          /\ tcall'.pc = "closing" => tcall'.outcome = "transferred" /\ tcall'.human /\ ~tcall'.optedOut
      BY <1>0, <1>21, <2>3, <2>7 DEF HearsTurn, TextCalls
    <3>2. tcall'.pc = "closing" => SoFar' = "transferred" BY <3>1 DEF SoFar
    <3>3. QED BY <3>1, <3>2 DEF ReportInv, CallOver
  <2>8. QED BY <2>1, <2>4, <2>5, <2>6, <2>7
<1>22. CASE EngineConcludes
  <2>1. /\ tcall'.pc \in {"returned", "raised"} /\ tcall'.outcome = Classified
        /\ tcall'.optedOut = tcall.optedOut /\ tcall'.human = tcall.human
        /\ tcall'.forced = tcall.forced /\ tcall'.turns = tcall.turns
        /\ tcall'.pc = "returned" => "call.ended" \in tlog'
        /\ tcall.pc = "closing" /\ slots' = slots
    BY <1>0, <1>22 DEF EngineConcludes, TextCalls, Emits
  <2>2. SoFar' = SoFar /\ tcall.outcome = SoFar
    BY <1>0, <2>1 DEF SoFar, ReportInv, CallOver
  <2>3. Classified = IF SoFar # "none" THEN SoFar
                     ELSE IF tcall.turns = 0 THEN "no_answer" ELSE "qualified"
    BY <2>2 DEF Classified, NoOutcome
  <2>4. QED BY <1>0, <2>1, <2>2, <2>3 DEF ReportInv, CallOver
<1>23. QED
  BY <1>5, <1>6, <1>7, <1>8, <1>9, <1>10, <1>11, <1>12, <1>13, <1>14, <1>16, <1>17, <1>18,
     <1>19, <1>20, <1>21, <1>22, ToolCallsTyped
  DEF EngineNext


\* The engine keeps what it is built on, from the moment it is asked for a call.
LEMMA EngineInvariant == Spec => [](EngineInv /\ EngineTypeOK)
<1>1. EngineInit => EngineInv
  <2> SUFFICES ASSUME EngineInit PROVE EngineInv
    OBVIOUS
  <2>1. PICK kind \in Legs, sink \in Sinks :
          tcall = [pc |-> "new", kind |-> kind, sink |-> sink, forced |-> FALSE,
                   opening |-> TRUE, disclosed |-> FALSE, outcome |-> NoOutcome, hops |-> 0,
                   tries |-> 0, todo |-> <<>>, offered |-> {}, ask |-> NoAsk, turns |-> 0,
                   said |-> 0, optedOut |-> FALSE, human |-> FALSE]
    BY DEF EngineInit
  <2>2. NoAsk \in Asks /\ <<>> \in Seq(Tools) BY DEF NoAsk, Asks
  <2>3. tcall \in TextCalls BY <2>1, <2>2 DEF TextCalls, NoOutcome
  <2>4. tleg \in TextLegs /\ tleg.queue = <<>> /\ tleg.told = 0 /\ tleg.at = "idle" /\ ~tleg.pending
    BY DEF EngineInit, TextLegs
  <2>5. LegInv BY <2>1, <2>4, CallEngineAssumption DEF LegInv, CallOver
  <2>6. SpeechInv BY <2>1, CallEngineAssumption DEF SpeechInv, Working
  <2>7. slots = {} BY DEF EngineInit
  <2>8. ReportInv BY <2>1, <2>7 DEF ReportInv, SoFar, NoOutcome, CallOver
  <2>9. PolicyInv BY <2>1, <2>7 DEF PolicyInv
  <2>10. QED BY <2>3, <2>5, <2>6, <2>8, <2>9 DEF EngineInv
<1>2. EngineInv /\ [EngineNext]_engineVars => EngineInv'
  <2> SUFFICES ASSUME EngineInv, [EngineNext]_engineVars PROVE EngineInv'
    OBVIOUS
  <2>1. CASE EngineNext
    BY <2>1, PolicyKeeps, LegKeeps, SpeechKeeps, ReportKeeps DEF EngineInv
  <2>2. CASE UNCHANGED engineVars
    BY <2>2 DEF engineVars, EngineInv, LegInv, SpeechInv, ReportInv, SoFar, PolicyInv,
       Breaches, OutOfHours, OutOfWindow, LocalHour, BadAddress
  <2>3. QED BY <2>1, <2>2
<1>3. EngineInv => EngineTypeOK
  <2> SUFFICES ASSUME EngineInv PROVE EngineTypeOK
    OBVIOUS
  <2>1. tcall \in TextCalls /\ tleg \in TextLegs /\ SpeechInv BY DEF EngineInv, LegInv
  <2>2. tcall.hops \in 0 .. MaxToolHops /\ tcall.tries \in 0 .. MaxModelRetries
    BY <2>1, CallEngineAssumption DEF SpeechInv, TextCalls
  <2>3. tcall.pc = "provider" => tcall.ask # NoAsk
    BY DEF EngineInv, PolicyInv, NoAsk
  <2>4. Len(tleg.queue) <= MaxUtterances + 1
    <3>1. tleg.told \in Nat /\ Len(tleg.queue) \in Nat /\ MaxUtterances \in Nat
      BY <2>1, CallEngineAssumption, LenProperties DEF TextLegs
    <3>2. QED BY <3>1 DEF EngineInv, LegInv
  <2>5. QED BY <2>2, <2>3, <2>4 DEF EngineTypeOK
<1>4. QED BY <1>1, <1>2, <1>3, EngineIsAPart, PTL DEF EngineSpec

\* A call that returns reports what happened on it: a refusal first, then the
\* transfer, then a booking that it knows of (run_call, _converse and the report in
\* its end); it says nothing before the disclosure is logged, its leg is told to end
\* however it ends, and what it offers and books keeps the policy of the agent
\* (the guardrails that CalendarHandler and AvailabilityHandler apply).
THEOREM TextCallsEndHonestly == Spec => []TextCallEndsHonestly
<1>1. EngineInv => TextCallEndsHonestly
  <2> SUFFICES ASSUME EngineInv PROVE TextCallEndsHonestly
    OBVIOUS
  <2>1. tcall \in TextCalls /\ LegInv /\ SpeechInv /\ ReportInv /\ PolicyInv BY DEF EngineInv
  <2>2. tcall.said > 0 => "disclosure.spoken" \in tlog BY <2>1 DEF SpeechInv
  <2>3. tcall.pc \in CallOver => tleg.closed /\ ~tleg.pending BY <2>1 DEF LegInv
  <2>4. tcall.pc = "returned" =>
          /\ tcall.outcome = IF tcall.optedOut THEN "opted_out"
                             ELSE IF tcall.human THEN "transferred"
                             ELSE IF \E b \in slots : b.known THEN "booked"
                             ELSE IF tcall.turns = 0 THEN "no_answer" ELSE "qualified"
          /\ "call.ended" \in tlog
    BY <2>1 DEF ReportInv, SoFar
  <2>5. (\A b \in slots : ~Breaches(b)) /\ \A at \in tcall.offered : ~OutOfHours(at) /\ ~OutOfWindow(at)
    BY <2>1 DEF PolicyInv
  <2>6. QED BY <2>2, <2>3, <2>4, <2>5 DEF TextCallEndsHonestly
<1>2. QED BY <1>1, EngineInvariant, PTL


(***************************************************************************)
(* The automations.                                                        *)
(***************************************************************************)
\* The path of what started a run begins with an event.
Paths == {path \in Seq(Events \cup Nat) : path # <<>> /\ path[1] \in Events}
Dues == {at + wait : at \in Nat, wait \in {BackoffSeconds(n) : n \in Nat} \cup {BackoffCap}}
Timers == [id : Paths, due : Dues, workflow : DOMAIN Library]
Runs ==
    [id : Paths, workflow : DOMAIN Library, at : Nat \ {0}, pc : {"step", "act", "report"},
     then : Seq(Timers)]

\* What may follow an unanswered call.
Cadenced ==
    CHOOSE workflows \in SUBSET DOMAIN Library :
        /\ KeepsCadence(workflows)
        /\ \A outcome \in Unanswered \cap DOMAIN Routes : Routes[outcome] \in workflows

\* A run or a timer stands for an outcome that was recorded and has a workflow.
Routed(x, seen) ==
    /\ seen[EventOf(x.id)].outcome \in DOMAIN Routes
    /\ seen[EventOf(x.id)].outcome \in Unanswered => x.workflow \in Cadenced

Whole(run, seen) ==
    /\ Routed(run, seen) /\ run.at <= Len(Library[run.workflow])
    /\ \A i \in DOMAIN run.then : Routed(run.then[i], seen)

RunInv ==
    /\ emitted \in [Events -> [outcome : Outcomes \cup {"none"}, attempts : Nat]]
    /\ runs \in Seq(Runs) /\ \A r \in DOMAIN runs : Whole(runs[r], emitted)
    /\ timers \subseteq Timers /\ IsFiniteSet(timers) /\ hour \in Nat
    /\ \A t \in timers :
          /\ Routed(t, emitted)
          /\ emitted[EventOf(t.id)].outcome \in Unanswered =>
                emitted[EventOf(t.id)].attempts < MaxAttempts

\* A key is recorded before its effect, and only one run is about to cause it.
ActInv ==
    /\ effects \subseteq ledger /\ repeated = {}
    /\ \A r \in DOMAIN runs :
          runs[r].pc = "act" => KeyOf(r) \in ledger \ effects /\ ~Exhausted(r)
    /\ \A r, s \in DOMAIN runs :
          runs[r].pc = "act" /\ runs[s].pc = "act" /\ KeyOf(r) = KeyOf(s) => r = s
    /\ \A key \in ledger : \/ key \in effects \/ key \in failed
                           \/ \E r \in DOMAIN runs : runs[r].pc = "act" /\ KeyOf(r) = key

LEMMA CadencedIs ==
    /\ Cadenced \subseteq DOMAIN Library /\ KeepsCadence(Cadenced)
    /\ \A outcome \in Unanswered \cap DOMAIN Routes : Routes[outcome] \in Cadenced
BY LibraryAssumption DEF Cadenced

LEMMA PathGrows ==
    ASSUME NEW path \in Paths, NEW at \in Nat
    PROVE  StepKey(path, at) \in Paths /\ EventOf(StepKey(path, at)) = EventOf(path)
<1>1. path \in Seq(Events \cup Nat) /\ path # <<>> /\ path[1] \in Events BY DEF Paths
<1>2. Len(path) \in Nat \ {0} BY <1>1, EmptySeq, LenProperties
<1>3. /\ Append(path, at) \in Seq(Events \cup Nat) /\ Append(path, at) # <<>>
      /\ Append(path, at)[1] = path[1]
  BY <1>1, <1>2, AppendProperties
<1>4. QED BY <1>1, <1>3 DEF StepKey, EventOf, Paths

LEMMA RemovedAt ==
    ASSUME NEW S, NEW s \in Seq(S), NEW r \in 1 .. Len(s)
    PROVE  /\ RemoveAt(s, r) \in Seq(S) /\ Len(RemoveAt(s, r)) = Len(s) - 1
           /\ \A i \in 1 .. Len(s) - 1 : RemoveAt(s, r)[i] = s[IF i < r THEN i ELSE i + 1]
<1>1. Len(s) \in Nat /\ r \in Nat /\ r >= 1 /\ r <= Len(s) BY LenProperties
<1> DEFINE head == SubSeq(s, 1, r - 1)
           tail == SubSeq(s, r + 1, Len(s))
<1>2. /\ head \in Seq(S) /\ Len(head) = r - 1 /\ \A i \in 1 .. r - 1 : head[i] = s[i]
  <2>1. \A i \in 1 .. r - 1 : s[i] \in S BY <1>1, ElementOfSeq
  <2>2. QED BY <1>1, <2>1, SubSeqProperties
<1>3. /\ tail \in Seq(S) /\ Len(tail) = Len(s) - r
      /\ \A i \in 1 .. Len(s) - r : tail[i] = s[r + i]
  <2>1. \A i \in r + 1 .. Len(s) : s[i] \in S BY <1>1, ElementOfSeq
  <2>2. QED BY <1>1, <2>1, SubSeqProperties
<1>4. RemoveAt(s, r) = head \o tail BY DEF RemoveAt
<1> HIDE DEF head, tail
<1>5. /\ head \o tail \in Seq(S) /\ Len(head \o tail) = Len(s) - 1
      /\ \A i \in 1 .. Len(s) - 1 :
            (head \o tail)[i] = IF i <= r - 1 THEN head[i] ELSE tail[i - (r - 1)]
  <2>1. head \in Seq(S) /\ tail \in Seq(S) BY <1>2, <1>3
  <2>2. /\ head \o tail \in Seq(S) /\ Len(head \o tail) = Len(head) + Len(tail)
        /\ \A i \in 1 .. Len(head) + Len(tail) :
              (head \o tail)[i] = IF i <= Len(head) THEN head[i] ELSE tail[i - Len(head)]
    BY <2>1, ConcatProperties
  <2>3. Len(head) = r - 1 /\ Len(head) + Len(tail) = Len(s) - 1 BY <1>1, <1>2, <1>3
  <2>4. QED BY <2>2, <2>3
<1>6. ASSUME NEW i \in 1 .. Len(s) - 1 PROVE RemoveAt(s, r)[i] = s[IF i < r THEN i ELSE i + 1]
  <2>1. CASE i < r BY <1>1, <1>2, <1>4, <1>5, <2>1
  <2>2. CASE i >= r
    <3>1. i - (r - 1) \in 1 .. Len(s) - r /\ r + (i - (r - 1)) = i + 1 BY <1>1, <2>2
    <3>2. PICK j \in 1 .. Len(s) - r : j = i - (r - 1) BY <3>1
    <3>4. tail[j] = s[i + 1] BY <1>3, <3>1, <3>2
    <3>5. (head \o tail)[i] = tail[j] BY <1>1, <1>5, <2>2, <3>2
    <3>6. QED BY <1>1, <1>4, <2>2, <3>4, <3>5
  <2>3. QED BY <1>1, <2>1, <2>2
<1>7. QED BY <1>4, <1>5, <1>6


\* What is started from a list of timers that were due.
LEMMA BatchIsWhole ==
    ASSUME RunInv, NEW list \in Seq(Timers), list # <<>>,
           \A i \in DOMAIN list : Routed(list[i], emitted)
    PROVE  /\ Batch(list) \in Runs /\ Whole(Batch(list), emitted)
           /\ Batch(list).pc = "step"
<1>1. /\ Head(list) \in Timers /\ Tail(list) \in Seq(Timers)
      /\ Len(Tail(list)) = Len(list) - 1 /\ Len(list) \in Nat
      /\ \A i \in 1 .. Len(Tail(list)) : Tail(list)[i] = list[i + 1]
  BY HeadTailProperties, LenProperties
<1>2. PICK timer \in Timers, rest \in Seq(Timers) : timer = Head(list) /\ rest = Tail(list)
  BY <1>1
<1>3. Batch(list) = [id |-> timer.id, workflow |-> timer.workflow, at |-> 1, pc |-> "step", then |-> rest]
  BY <1>2 DEF Batch, Start
<1>4. Batch(list) \in Runs BY <1>2, <1>3 DEF Runs, Timers
<1>5. Len(list) >= 1 /\ DOMAIN list = 1 .. Len(list) /\ Head(list) = list[1]
  BY <1>1, EmptySeq, LenProperties
<1>6. Routed(timer, emitted) BY <1>2, <1>5
<1>7. ASSUME NEW i \in DOMAIN rest PROVE Routed(rest[i], emitted)
  <2>1. i \in 1 .. Len(rest) BY <1>2, <1>7, LenProperties
  <2>2. i + 1 \in DOMAIN list /\ rest[i] = list[i + 1] BY <1>1, <1>2, <1>5, <2>1
  <2>3. QED BY <2>2
<1>8. Len(Library[timer.workflow]) \in Nat \ {0} BY <1>2, LibraryAssumption DEF Timers
<1>9. Whole(Batch(list), emitted) BY <1>3, <1>6, <1>7, <1>8 DEF Whole, Routed
<1>10. QED BY <1>3, <1>4, <1>9

\* A run that was delivered, or a batch, joins the others.
LEMMA RunJoins ==
    ASSUME RunInv, ActInv, NEW run \in Runs, Whole(run, emitted), run.pc = "step",
           runs' = Append(runs, run), UNCHANGED <<emitted, ledger, effects, repeated, failed>>
    PROVE  /\ runs' \in Seq(Runs) /\ \A r \in DOMAIN runs' : Whole(runs'[r], emitted')
           /\ ActInv'
<1>1. /\ runs' \in Seq(Runs) /\ Len(runs') = Len(runs) + 1 /\ runs'[Len(runs) + 1] = run
      /\ \A r \in 1 .. Len(runs) : runs'[r] = runs[r]
      /\ DOMAIN runs = 1 .. Len(runs) /\ DOMAIN runs' = 1 .. Len(runs) + 1 /\ Len(runs) \in Nat
  BY AppendProperties, LenProperties DEF RunInv
<1>2. \A r \in DOMAIN runs' : (r \in DOMAIN runs /\ runs'[r] = runs[r]) \/ runs'[r] = run
  BY <1>1
<1>3. \A r \in DOMAIN runs' : Whole(runs'[r], emitted') BY <1>2 DEF RunInv
<1>4. \A r \in DOMAIN runs' : runs'[r].pc = "act" => r \in DOMAIN runs /\ runs'[r] = runs[r]
  BY <1>2
<1>5. \A r \in DOMAIN runs : r \in DOMAIN runs' /\ runs'[r] = runs[r] BY <1>1
<1>6. ActInv'
  <2>1. \A r \in DOMAIN runs : KeyOf(r)' = KeyOf(r) /\ (Exhausted(r)' <=> Exhausted(r))
    BY <1>5 DEF KeyOf, Exhausted, StepOf, AttemptsOf
  <2>2. QED BY <1>4, <1>5, <2>1 DEF ActInv
<1>7. QED BY <1>1, <1>3, <1>6


\* A run that is at an end, or raised, is taken out; the others stay in order.
LEMMA RunLeaves ==
    ASSUME RunInv, ActInv, NEW r \in DOMAIN runs, runs' = RemoveAt(runs, r),
           UNCHANGED <<emitted, ledger, effects, repeated>>, failed \subseteq failed',
           runs[r].pc = "act" => KeyOf(r) \in failed'
    PROVE  /\ runs' \in Seq(Runs) /\ \A i \in DOMAIN runs' : Whole(runs'[i], emitted')
           /\ ActInv'
<1>1. DOMAIN runs = 1 .. Len(runs) /\ Len(runs) \in Nat /\ runs \in Seq(Runs)
  BY LenProperties DEF RunInv
<1>2. /\ runs' \in Seq(Runs) /\ Len(runs') = Len(runs) - 1
      /\ \A i \in 1 .. Len(runs) - 1 : runs'[i] = runs[IF i < r THEN i ELSE i + 1]
  BY <1>1, RemovedAt
<1>3. DOMAIN runs' = 1 .. Len(runs) - 1 BY <1>2, LenProperties
<1> DEFINE was(i) == IF i < r THEN i ELSE i + 1
<1>4. \A i \in DOMAIN runs' : was(i) \in DOMAIN runs \ {r} /\ runs'[i] = runs[was(i)]
  BY <1>1, <1>2, <1>3
<1>5. \A i, j \in DOMAIN runs' : was(i) = was(j) => i = j BY <1>1, <1>3
<1>6. ASSUME NEW k \in DOMAIN runs \ {r} PROVE \E i \in DOMAIN runs' : was(i) = k
  <2>1. CASE k < r
    <3>1. k \in DOMAIN runs' BY <1>1, <1>3, <2>1
    <3>2. QED BY <2>1, <3>1
  <2>2. CASE k > r
    <3>1. k - 1 \in DOMAIN runs' /\ ~(k - 1 < r) BY <1>1, <1>3, <2>2
    <3>2. was(k - 1) = k BY <1>1, <2>2
    <3>3. QED BY <3>1, <3>2
  <2>3. QED BY <1>1, <2>1, <2>2
<1> HIDE DEF was
<1>7. \A i \in DOMAIN runs' : Whole(runs'[i], emitted') BY <1>4 DEF RunInv
<1>8. \A i \in DOMAIN runs' : KeyOf(i)' = KeyOf(was(i)) /\ (Exhausted(i)' <=> Exhausted(was(i)))
  BY <1>4 DEF KeyOf, Exhausted, StepOf, AttemptsOf
<1>9. ActInv'
  <2>1. \A i \in DOMAIN runs' : runs'[i].pc = "act" => KeyOf(i)' \in ledger' \ effects' /\ ~Exhausted(i)'
    BY <1>4, <1>8 DEF ActInv
  <2>2. \A i, j \in DOMAIN runs' :
          runs'[i].pc = "act" /\ runs'[j].pc = "act" /\ KeyOf(i)' = KeyOf(j)' => i = j
    BY <1>4, <1>5, <1>8 DEF ActInv
  <2>3. ASSUME NEW key \in ledger', key \notin effects', key \notin failed'
        PROVE  \E i \in DOMAIN runs' : runs'[i].pc = "act" /\ KeyOf(i)' = key
    <3>1. PICK k \in DOMAIN runs : runs[k].pc = "act" /\ KeyOf(k) = key BY <2>3 DEF ActInv
    <3>2. k # r BY <2>3, <3>1
    <3>3. PICK i \in DOMAIN runs' : was(i) = k BY <1>6, <3>2
    <3>4. QED BY <1>4, <1>8, <3>1, <3>3
  <2>4. effects' \subseteq ledger' /\ repeated' = {} BY DEF ActInv
  <2>5. QED BY <2>1, <2>2, <2>3, <2>4 DEF ActInv
<1>10. QED BY <1>2, <1>7, <1>9

\* A run goes on with something that is not yet about to take effect.
LEMMA RunGoesOn ==
    ASSUME RunInv, ActInv, NEW r \in DOMAIN runs, runs[r].pc # "act",
           NEW run \in Runs, Whole(run, emitted), run.pc # "act",
           runs' = [runs EXCEPT ![r] = run],
           UNCHANGED <<emitted, ledger, effects, repeated, failed>>
    PROVE  /\ runs' \in Seq(Runs) /\ \A i \in DOMAIN runs' : Whole(runs'[i], emitted')
           /\ ActInv'
<1>1. DOMAIN runs = 1 .. Len(runs) /\ Len(runs) \in Nat /\ runs \in Seq(Runs)
  BY LenProperties DEF RunInv
<1>2. runs' \in Seq(Runs) /\ DOMAIN runs' = DOMAIN runs BY <1>1
<1>3. \A i \in DOMAIN runs' : runs'[i] = IF i = r THEN run ELSE runs[i] BY <1>1
<1>4. \A i \in DOMAIN runs' : Whole(runs'[i], emitted') BY <1>2, <1>3 DEF RunInv
<1>5. \A i \in DOMAIN runs : i # r => KeyOf(i)' = KeyOf(i) /\ (Exhausted(i)' <=> Exhausted(i))
  BY <1>2, <1>3 DEF KeyOf, Exhausted, StepOf, AttemptsOf
<1>6. ActInv' BY <1>2, <1>3, <1>5 DEF ActInv
<1>7. QED BY <1>2, <1>4, <1>6

LEMMA RunMoves ==
    ASSUME RunInv, ActInv, NEW r \in DOMAIN runs, runs[r].pc # "act", runs' = MovesOn(r),
           UNCHANGED <<emitted, ledger, effects, repeated, failed>>
    PROVE  /\ runs' \in Seq(Runs) /\ \A i \in DOMAIN runs' : Whole(runs'[i], emitted')
           /\ ActInv'
<1>1. runs[r] \in Runs /\ Whole(runs[r], emitted) BY ElementOfSeq, LenProperties DEF RunInv
<1>2. CASE runs[r].at < Len(Library[runs[r].workflow])
  <2> DEFINE run == [runs[r] EXCEPT !.at = @ + 1, !.pc = "step"]
  <2>1. runs[r].at + 1 \in Nat \ {0} BY <1>1 DEF Runs
  <2>2. /\ run \in Runs /\ run.pc = "step" /\ run.id = runs[r].id /\ run.at = runs[r].at + 1
        /\ run.workflow = runs[r].workflow /\ run.then = runs[r].then
    BY <1>1, <2>1 DEF Runs
  <2>3. runs' = [runs EXCEPT ![r] = run] BY <1>2 DEF MovesOn
  <2>4. Len(Library[runs[r].workflow]) \in Nat BY <1>1, LibraryAssumption DEF Runs
  <2> HIDE DEF run
  <2>5. run.at <= Len(Library[run.workflow]) BY <1>1, <1>2, <2>2, <2>4 DEF Runs
  <2>6. Whole(run, emitted) BY <1>1, <2>2, <2>5 DEF Whole, Routed
  <2>7. QED BY <2>2, <2>3, <2>6, RunGoesOn
<1>3. CASE ~(runs[r].at < Len(Library[runs[r].workflow])) /\ runs[r].then = <<>>
  BY <1>3, RunLeaves DEF MovesOn
<1>4. CASE ~(runs[r].at < Len(Library[runs[r].workflow])) /\ runs[r].then # <<>>
  <2>1. runs[r].then \in Seq(Timers) /\ \A i \in DOMAIN runs[r].then : Routed(runs[r].then[i], emitted)
    BY <1>1 DEF Runs, Whole
  <2>2. PICK run \in Runs : run = Batch(runs[r].then) /\ Whole(run, emitted) /\ run.pc = "step"
    BY <1>4, <2>1, BatchIsWhole
  <2>3. runs' = [runs EXCEPT ![r] = run] BY <1>4, <2>2 DEF MovesOn
  <2>4. QED BY <2>2, <2>3, RunGoesOn
<1>5. QED BY <1>2, <1>3, <1>4


LEMMA RoutedLasts ==
    ASSUME RunInv, NEW e \in Events, NEW outcome, NEW attempts, OutcomeRecorded(e, outcome, attempts),
           NEW x, x.id \in Paths, Routed(x, emitted)
    PROVE  Routed(x, emitted') /\ emitted'[EventOf(x.id)] = emitted[EventOf(x.id)]
<1>1. emitted[e].outcome \notin DOMAIN Routes
  BY LibraryAssumption DEF OutcomeRecorded, NotEmitted
<1>2. EventOf(x.id) \in Events /\ EventOf(x.id) # e BY <1>1 DEF Routed, EventOf, Paths
<1>3. emitted'[EventOf(x.id)] = emitted[EventOf(x.id)] BY <1>2 DEF OutcomeRecorded, RunInv
<1>4. QED BY <1>3 DEF Routed

LEMMA RecordingKeeps ==
    ASSUME RunInv, ActInv, NEW e \in Events, NEW outcome \in Outcomes, NEW attempts \in Attempts,
           OutcomeRecorded(e, outcome, attempts)
    PROVE  RunInv' /\ ActInv'
<1>1. attempts \in Nat BY WorkflowsAssumption
<1>2. /\ UNCHANGED <<runs, ledger, effects, repeated, timers, failed, hour>>
      /\ emitted' \in [Events -> [outcome : Outcomes \cup {"none"}, attempts : Nat]]
  BY <1>1 DEF OutcomeRecorded, RunInv
<1>3. \A r \in DOMAIN runs : runs[r] \in Runs /\ Whole(runs[r], emitted)
  BY ElementOfSeq, LenProperties DEF RunInv
<1>4. ASSUME NEW r \in DOMAIN runs
      PROVE  Whole(runs[r], emitted') /\ emitted'[EventOf(runs[r].id)] = emitted[EventOf(runs[r].id)]
  <2>1. runs[r].id \in Paths /\ runs[r].then \in Seq(Timers) BY <1>3 DEF Runs
  <2>2. \A i \in DOMAIN runs[r].then : runs[r].then[i].id \in Paths
    <3>1. \A i \in DOMAIN runs[r].then : runs[r].then[i] \in Timers BY <2>1, ElementOfSeq, LenProperties
    <3>2. QED BY <3>1 DEF Timers
  <2>3. \A i \in DOMAIN runs[r].then : Routed(runs[r].then[i], emitted')
    BY <1>3, <2>2, RoutedLasts DEF Whole
  <2>4. Routed(runs[r], emitted') /\ emitted'[EventOf(runs[r].id)] = emitted[EventOf(runs[r].id)]
    BY <1>3, <2>1, RoutedLasts DEF Whole
  <2>5. QED BY <1>3, <2>3, <2>4 DEF Whole
<1>5. ASSUME NEW t \in timers
      PROVE  Routed(t, emitted') /\ emitted'[EventOf(t.id)] = emitted[EventOf(t.id)]
  <2>1. t.id \in Paths /\ Routed(t, emitted) BY DEF RunInv, Timers
  <2>2. QED BY <2>1, RoutedLasts
<1>6. RunInv' BY <1>2, <1>4, <1>5 DEF RunInv
<1>7. \A r \in DOMAIN runs : KeyOf(r)' = KeyOf(r) /\ (Exhausted(r)' <=> Exhausted(r))
  BY <1>2, <1>4 DEF KeyOf, Exhausted, StepOf, AttemptsOf
<1>8. ActInv' BY <1>2, <1>7 DEF ActInv
<1>9. QED BY <1>6, <1>8

\* A step that is recorded is about to take effect; nothing else had its key.
LEMMA FenceKeeps ==
    ASSUME RunInv, ActInv, NEW r \in DOMAIN runs, StepFenced(r)
    PROVE  runs' \in Seq(Runs) /\ (\A i \in DOMAIN runs' : Whole(runs'[i], emitted')) /\ ActInv'
<1>1. /\ DOMAIN runs = 1 .. Len(runs) /\ runs \in Seq(Runs)
      /\ \A i \in DOMAIN runs : runs[i] \in Runs /\ Whole(runs[i], emitted)
  BY ElementOfSeq, LenProperties DEF RunInv
<1>2. UNCHANGED <<emitted, effects, repeated, failed>> /\ runs[r].pc = "step" /\ ~Exhausted(r)
  BY DEF StepFenced
<1>3. CASE KeyOf(r) \in ledger BY <1>2, <1>3, RunMoves DEF StepFenced
<1>4. CASE KeyOf(r) \notin ledger
  <2>1. PICK run \in Runs : run = [runs[r] EXCEPT !.pc = "act"] BY <1>1 DEF Runs
  <2>2. /\ run.pc = "act" /\ run.id = runs[r].id /\ run.at = runs[r].at
        /\ run.workflow = runs[r].workflow /\ run.then = runs[r].then
    BY <1>1, <2>1 DEF Runs
  <2>3. runs' = [runs EXCEPT ![r] = run] /\ ledger' = ledger \cup {KeyOf(r)}
    BY <1>4, <2>1 DEF StepFenced
  <2>4. /\ runs' \in Seq(Runs) /\ DOMAIN runs' = DOMAIN runs
        /\ \A i \in DOMAIN runs' : runs'[i] = IF i = r THEN run ELSE runs[i]
    BY <1>1, <2>3
  <2>5. Whole(run, emitted) BY <1>1, <2>2 DEF Whole, Routed
  <2>6. \A i \in DOMAIN runs' : Whole(runs'[i], emitted') BY <1>1, <1>2, <2>4, <2>5
  <2>7. \A i \in DOMAIN runs : KeyOf(i)' = KeyOf(i) /\ (Exhausted(i)' <=> Exhausted(i))
    <3>1. ASSUME NEW i \in DOMAIN runs
          PROVE  /\ runs'[i].id = runs[i].id /\ runs'[i].at = runs[i].at
                 /\ runs'[i].workflow = runs[i].workflow
      BY <2>2, <2>4
    <3>2. QED BY <1>2, <3>1 DEF KeyOf, Exhausted, StepOf, AttemptsOf
  <2>8. ActInv'
    <3>1. \A i \in DOMAIN runs' : runs'[i].pc = "act" =>
             KeyOf(i)' \in ledger' \ effects' /\ ~Exhausted(i)'
      BY <1>2, <1>4, <2>3, <2>4, <2>7 DEF ActInv
    <3>2. \A i, j \in DOMAIN runs' :
            runs'[i].pc = "act" /\ runs'[j].pc = "act" /\ KeyOf(i)' = KeyOf(j)' => i = j
      BY <1>4, <2>4, <2>7 DEF ActInv
    <3>3. ASSUME NEW key \in ledger', key \notin effects', key \notin failed'
          PROVE  \E i \in DOMAIN runs' : runs'[i].pc = "act" /\ KeyOf(i)' = key
      <4>1. CASE key = KeyOf(r) BY <2>2, <2>4, <2>7, <4>1
      <4>2. CASE key # KeyOf(r)
        <5>1. PICK k \in DOMAIN runs : runs[k].pc = "act" /\ KeyOf(k) = key
          BY <1>2, <2>3, <3>3, <4>2 DEF ActInv
        <5>2. QED BY <2>4, <2>7, <4>2, <5>1
      <4>3. QED BY <4>1, <4>2
    <3>4. QED BY <1>2, <2>3, <3>1, <3>2, <3>3 DEF ActInv
  <2>9. QED BY <2>4, <2>6, <2>8
<1>5. QED BY <1>3, <1>4


\* The effect that a run was about to cause, and the timer it parks.
LEMMA EffectKeeps ==
    ASSUME RunInv, ActInv, NEW r \in DOMAIN runs, StepTakesEffect(r)
    PROVE  RunInv' /\ ActInv'
<1>1. /\ DOMAIN runs = 1 .. Len(runs) /\ runs \in Seq(Runs)
      /\ \A i \in DOMAIN runs : runs[i] \in Runs /\ Whole(runs[i], emitted)
  BY ElementOfSeq, LenProperties DEF RunInv
<1>2. UNCHANGED <<emitted, ledger, failed, hour>> /\ runs[r].pc = "act" BY DEF StepTakesEffect
<1>3. KeyOf(r) \in ledger \ effects /\ ~Exhausted(r) BY <1>2 DEF ActInv
<1>4. effects' = effects \cup {KeyOf(r)} /\ repeated' = {} BY <1>3 DEF StepTakesEffect, ActInv
<1>5. PICK run \in Runs : run = [runs[r] EXCEPT !.pc = "report"] BY <1>1 DEF Runs
<1>6. /\ run.pc = "report" /\ run.id = runs[r].id /\ run.at = runs[r].at
      /\ run.workflow = runs[r].workflow /\ run.then = runs[r].then
  BY <1>1, <1>5 DEF Runs
<1>7. runs' = [runs EXCEPT ![r] = run] BY <1>5 DEF StepTakesEffect
<1>8. /\ runs' \in Seq(Runs) /\ DOMAIN runs' = DOMAIN runs
      /\ \A i \in DOMAIN runs' : runs'[i] = IF i = r THEN run ELSE runs[i]
  BY <1>1, <1>7
<1>9. Whole(run, emitted) BY <1>1, <1>6 DEF Whole, Routed
<1>10. \A i \in DOMAIN runs' : Whole(runs'[i], emitted') BY <1>1, <1>2, <1>8, <1>9
<1>11. \A i \in DOMAIN runs : KeyOf(i)' = KeyOf(i) /\ (Exhausted(i)' <=> Exhausted(i))
  <2>1. ASSUME NEW i \in DOMAIN runs
        PROVE  /\ runs'[i].id = runs[i].id /\ runs'[i].at = runs[i].at
               /\ runs'[i].workflow = runs[i].workflow
    BY <1>6, <1>8
  <2>2. QED BY <1>2, <2>1 DEF KeyOf, Exhausted, StepOf, AttemptsOf
<1>12. ActInv'
  <2>1. \A i \in DOMAIN runs' : runs'[i].pc = "act" => i # r /\ runs[i].pc = "act"
    BY <1>6, <1>8
  <2>2. \A i \in DOMAIN runs' : runs'[i].pc = "act" =>
           KeyOf(i)' \in ledger' \ effects' /\ ~Exhausted(i)'
    BY <1>2, <1>4, <1>8, <1>11, <2>1 DEF ActInv
  <2>3. \A i, j \in DOMAIN runs' :
          runs'[i].pc = "act" /\ runs'[j].pc = "act" /\ KeyOf(i)' = KeyOf(j)' => i = j
    BY <1>8, <1>11, <2>1 DEF ActInv
  <2>4. ASSUME NEW key \in ledger', key \notin effects', key \notin failed'
        PROVE  \E i \in DOMAIN runs' : runs'[i].pc = "act" /\ KeyOf(i)' = key
    <3>1. PICK k \in DOMAIN runs : runs[k].pc = "act" /\ KeyOf(k) = key
      BY <1>2, <1>4, <2>4 DEF ActInv
    <3>2. QED BY <1>4, <1>8, <1>11, <2>4, <3>1
  <2>5. effects' \subseteq ledger' BY <1>2, <1>3, <1>4 DEF ActInv
  <2>6. QED BY <1>4, <2>2, <2>3, <2>4, <2>5 DEF ActInv
<1> DEFINE parked == [id |-> KeyOf(r), due |-> DueAt(r), workflow |-> StepOf(r).what]
<1>13. CASE timers' = timers
  <2>1. QED BY <1>2, <1>8, <1>10, <1>12, <1>13 DEF RunInv
<1>14. CASE StepOf(r).kind # "tool" /\ timers' = timers \cup {parked}
  <2>1. /\ runs[r].id \in Paths /\ runs[r].at \in Nat /\ runs[r].workflow \in DOMAIN Library
        /\ runs[r].at \in 1 .. Len(Library[runs[r].workflow])
    BY <1>1, LibraryAssumption DEF Runs, Whole
  <2>2. KeyOf(r) \in Paths /\ EventOf(KeyOf(r)) = EventOf(runs[r].id)
    BY <2>1, PathGrows DEF KeyOf
  <2>3. StepOf(r).kind = "schedule" /\ StepOf(r).what \in DOMAIN Library
    BY <1>14, <2>1, LibraryAssumption DEF StepOf
  <2>4. EventOf(runs[r].id) \in Events BY <2>1 DEF EventOf, Paths
  <2>5. AttemptsOf(r) \in Nat BY <2>4 DEF AttemptsOf, RunInv
  <2>6. DueAt(r) \in Dues
    <3>1. PICK wait \in {BackoffSeconds(n) : n \in Nat} \cup {BackoffCap} :
            wait = IF StepOf(r).backoff THEN BackoffSeconds(AttemptsOf(r)) ELSE BackoffCap
      BY <2>5
    <3>2. hour \in Nat /\ DueAt(r) = hour + wait BY <3>1 DEF DueAt, RunInv
    <3>3. QED BY <3>1, <3>2 DEF Dues
  <2>7. parked \in Timers BY <2>2, <2>3, <2>6 DEF Timers
  <2>8. /\ emitted[EventOf(runs[r].id)].outcome \in DOMAIN Routes
        /\ emitted[EventOf(runs[r].id)].outcome \in Unanswered =>
              /\ StepOf(r).bounded /\ StepOf(r).what \in Cadenced
              /\ AttemptsOf(r) < MaxAttempts
    <3>1. Routed(runs[r], emitted) BY <1>1 DEF Whole
    <3>2. ASSUME emitted[EventOf(runs[r].id)].outcome \in Unanswered
          PROVE  StepOf(r).bounded /\ StepOf(r).what \in Cadenced
      <4>1. runs[r].workflow \in Cadenced BY <3>1, <3>2 DEF Routed
      <4>2. runs[r].at \in DOMAIN Library[runs[r].workflow] BY <2>1, LibraryAssumption
      <4>3. QED BY <2>3, <4>1, <4>2, CadencedIs DEF KeepsCadence, StepOf
    <3>3. StepOf(r).bounded => AttemptsOf(r) < MaxAttempts
      BY <1>3, <2>5, WorkflowsAssumption DEF Exhausted
    <3>4. QED BY <3>1, <3>2, <3>3 DEF Routed
  <2>9. /\ Routed(parked, emitted)
        /\ emitted[EventOf(parked.id)].outcome \in Unanswered =>
              emitted[EventOf(parked.id)].attempts < MaxAttempts
    BY <2>2, <2>8 DEF Routed, AttemptsOf
  <2> HIDE DEF parked
  <2>10. timers' \subseteq Timers /\ IsFiniteSet(timers')
    BY <1>14, <2>7, FS_AddElement DEF RunInv
  <2>11. ASSUME NEW t \in timers'
         PROVE  /\ Routed(t, emitted')
                /\ emitted'[EventOf(t.id)].outcome \in Unanswered =>
                      emitted'[EventOf(t.id)].attempts < MaxAttempts
    BY <1>2, <1>14, <2>9 DEF RunInv
  <2>12. QED BY <1>2, <1>8, <1>10, <1>12, <2>10, <2>11 DEF RunInv
<1>15. QED BY <1>13, <1>14 DEF StepTakesEffect

\* A tick takes what is due from the store and runs it as one batch.
LEMMA TickKeeps ==
    ASSUME RunInv, ActInv, SchedulerTicks
    PROVE  RunInv' /\ ActInv'
<1>1. PICK due \in SUBSET timers : due # {} /\ timers' = timers \ due
                                   /\ \E list \in Orders(due) : runs' = Append(runs, Batch(list))
  BY DEF SchedulerTicks
<1>2. IsFiniteSet(due) /\ IsFiniteSet(timers') /\ timers' \subseteq timers
  BY <1>1, FS_Subset DEF RunInv
<1>3. Cardinality(due) \in Nat /\ Cardinality(due) # 0 BY <1>1, <1>2, FS_CardinalityType, FS_EmptySet
<1>4. PICK list \in [1 .. Cardinality(due) -> due] : runs' = Append(runs, Batch(list))
  BY <1>1 DEF Orders
<1>5. /\ list \in Seq(Timers) /\ list # <<>>
      /\ \A i \in DOMAIN list : Routed(list[i], emitted)
  <2>1. due \subseteq Timers /\ \A t \in due : Routed(t, emitted) BY DEF RunInv
  <2>2. list \in [1 .. Cardinality(due) -> Timers] BY <2>1
  <2>3. list \in Seq(Timers) BY <1>3, <2>2, SeqDef
  <2>4. list # <<>> BY <1>3
  <2>5. QED BY <2>1, <2>3, <2>4
<1>6. PICK run \in Runs : run = Batch(list) /\ Whole(run, emitted) /\ run.pc = "step"
  BY <1>5, BatchIsWhole
<1>7. UNCHANGED <<emitted, ledger, effects, repeated, failed, hour>> BY DEF SchedulerTicks
<1>8. /\ runs' \in Seq(Runs) /\ \A r \in DOMAIN runs' : Whole(runs'[r], emitted')
      /\ ActInv'
  BY <1>4, <1>6, <1>7, RunJoins
<1>9. RunInv' BY <1>2, <1>7, <1>8 DEF RunInv
<1>10. QED BY <1>8, <1>9

LEMMA WfInvNext == RunInv /\ ActInv /\ WfNext => RunInv' /\ ActInv'
<1> SUFFICES ASSUME RunInv, ActInv, WfNext PROVE RunInv' /\ ActInv'
  OBVIOUS
<1>1. ASSUME NEW e \in Events, Delivered(e) PROVE RunInv' /\ ActInv'
  <2>1. UNCHANGED <<emitted, ledger, effects, repeated, timers, failed, hour>> BY <1>1 DEF Delivered
  <2> DEFINE run == Start(<<e>>, Routes[emitted[e].outcome], <<>>)
  <2>2. <<e>> \in Paths /\ EventOf(<<e>>) = e BY DEF Paths, EventOf
  <2>3. emitted[e].outcome \in DOMAIN Routes BY <1>1 DEF Delivered
  <2>4. Routes[emitted[e].outcome] \in DOMAIN Library BY <2>3, LibraryAssumption
  <2>5. /\ run \in Runs /\ run.pc = "step" /\ run.id = <<e>> /\ run.at = 1 /\ run.then = <<>>
        /\ run.workflow = Routes[emitted[e].outcome]
    BY <2>2, <2>4 DEF Start, Runs
  <2>6. runs' = Append(runs, run) BY <1>1 DEF Delivered
  <2> HIDE DEF run
  <2>7. Routed(run, emitted) BY <2>2, <2>3, <2>5, CadencedIs DEF Routed
  <2>8. Len(Library[run.workflow]) \in Nat \ {0} BY <2>4, <2>5, LibraryAssumption
  <2>9. Whole(run, emitted) BY <2>5, <2>7, <2>8 DEF Whole
  <2>10. /\ runs' \in Seq(Runs) /\ \A r \in DOMAIN runs' : Whole(runs'[r], emitted')
         /\ ActInv'
    BY <2>1, <2>5, <2>6, <2>9, RunJoins
  <2>11. RunInv' BY <2>1, <2>10 DEF RunInv
  <2>12. QED BY <2>10, <2>11
<1>2. ASSUME NEW r \in DOMAIN runs, StepFenced(r) PROVE RunInv' /\ ActInv'
  <2>1. UNCHANGED <<emitted, timers, hour>> BY <1>2 DEF StepFenced
  <2>2. QED BY <1>2, <2>1, FenceKeeps DEF RunInv
<1>3. ASSUME NEW r \in DOMAIN runs, CadenceSpent(r) \/ StepReported(r) PROVE RunInv' /\ ActInv'
  <2>1. /\ UNCHANGED <<emitted, ledger, effects, repeated, timers, failed, hour>>
        /\ runs[r].pc # "act" /\ runs' = MovesOn(r)
    BY <1>3 DEF CadenceSpent, StepReported
  <2>2. QED BY <2>1, RunMoves DEF RunInv
<1>4. ASSUME NEW r \in DOMAIN runs, StepRaises(r) PROVE RunInv' /\ ActInv'
  <2>1. /\ UNCHANGED <<emitted, ledger, effects, repeated, timers, hour>>
        /\ failed \subseteq failed' /\ KeyOf(r) \in failed' /\ runs' = RemoveAt(runs, r)
    BY <1>4 DEF StepRaises
  <2>2. QED BY <2>1, RunLeaves DEF RunInv
<1>5. CASE HourPasses
  <2>1. UNCHANGED <<emitted, runs, ledger, effects, repeated, timers, failed>> /\ hour' \in Nat
    BY <1>5 DEF HourPasses, RunInv
  <2>2. \A r \in DOMAIN runs : KeyOf(r)' = KeyOf(r) /\ (Exhausted(r)' <=> Exhausted(r))
    BY <2>1 DEF KeyOf, Exhausted, StepOf, AttemptsOf
  <2>3. QED BY <2>1, <2>2 DEF RunInv, ActInv
<1>6. QED
  BY <1>1, <1>2, <1>3, <1>4, <1>5, RecordingKeeps, EffectKeeps, TickKeeps DEF WfNext

LEMMA WfInvariant == Spec => [](RunInv /\ ActInv /\ WfTypeOK)
<1>1. WfInit => RunInv /\ ActInv
  <2> SUFFICES ASSUME WfInit PROVE RunInv /\ ActInv
    OBVIOUS
  <2>1. RunInv BY FS_EmptySet DEF WfInit, RunInv, NotEmitted
  <2>2. ActInv BY DEF WfInit, ActInv
  <2>3. QED BY <2>1, <2>2
<1>2. RunInv /\ ActInv /\ [WfNext]_wfVars => RunInv' /\ ActInv'
  <2> SUFFICES ASSUME RunInv, ActInv, [WfNext]_wfVars PROVE RunInv' /\ ActInv'
    OBVIOUS
  <2>1. CASE WfNext BY <2>1, WfInvNext
  <2>2. CASE UNCHANGED wfVars
    <3>1. UNCHANGED <<emitted, runs, ledger, effects, repeated, timers, failed, hour>>
      BY <2>2 DEF wfVars
    <3>2. \A r \in DOMAIN runs : KeyOf(r)' = KeyOf(r) /\ (Exhausted(r)' <=> Exhausted(r))
      BY <3>1 DEF KeyOf, Exhausted, StepOf, AttemptsOf
    <3>3. QED BY <3>1, <3>2 DEF RunInv, ActInv
  <2>3. QED BY <2>1, <2>2
<1>3. RunInv /\ ActInv => WfTypeOK
  <2> SUFFICES ASSUME RunInv, ActInv PROVE WfTypeOK
    OBVIOUS
  <2>1. ASSUME NEW r \in DOMAIN runs
        PROVE  /\ runs[r].at \in DOMAIN Library[runs[r].workflow]
               /\ runs[r].pc \in {"step", "act", "report"}
    <3>1. runs[r] \in Runs /\ Whole(runs[r], emitted) BY ElementOfSeq, LenProperties DEF RunInv
    <3>2. runs[r].workflow \in DOMAIN Library BY <3>1 DEF Runs
    <3>3. /\ Len(Library[runs[r].workflow]) \in Nat
          /\ DOMAIN Library[runs[r].workflow] = 1 .. Len(Library[runs[r].workflow])
      BY <3>2, LibraryAssumption
    <3>4. QED BY <3>1, <3>3 DEF Runs, Whole
  <2>2. QED BY <2>1 DEF WfTypeOK, ActInv
<1>4. QED BY <1>1, <1>2, <1>3, WorkflowsAreAPart, PTL DEF WfSpec

\* Whatever is delivered again, fails or is interleaved (the dispatcher, the runner
\* and the scheduler of async_workflows), no automation takes effect twice, none that
\* is recorded is forgotten without a failure, and a lead whose attempts are spent
\* has no timer.
THEOREM AutomationsTakeEffectOnce == Spec => []AutomationsRunOnce
<1>1. RunInv /\ ActInv => AutomationsRunOnce
  <2> SUFFICES ASSUME RunInv, ActInv PROVE AutomationsRunOnce
    OBVIOUS
  <2>1. \A t \in timers : emitted[EventOf(t.id)].outcome \in Unanswered =>
                             emitted[EventOf(t.id)].attempts < MaxAttempts
    BY DEF RunInv
  <2>2. QED BY <2>1 DEF AutomationsRunOnce, ActInv
<1>2. QED BY <1>1, WfInvariant, PTL


(***************************************************************************)
(* The whole.                                                              *)
(***************************************************************************)
OneIsFollowed == part \in Parts

\* Every part of the state is what its module says, whichever part is followed: the
\* rounds of tools and the retries of the text engine never exceed their limits, a
\* window holds no instant to come, and nothing has taken effect unrecorded.
THEOREM OperationsAreTyped == Spec => []OperationsTypeOK
<1>1. Spec => []OneIsFollowed
  <2>1. Init => OneIsFollowed BY DEF Init, OneIsFollowed
  <2>2. OneIsFollowed /\ [Next]_operationsVars => OneIsFollowed'
    <3>1. Next => part' = part BY DEF Next, Follows
    <3>2. UNCHANGED operationsVars => part' = part BY DEF operationsVars
    <3>3. QED BY <3>1, <3>2 DEF OneIsFollowed
  <2>3. QED BY <2>1, <2>2, PTL DEF Spec
<1>2. CcInv => CcTypeOK BY DEF CcInv
<1>3. /\ OneIsFollowed /\ FeedTypeOK /\ DashTypeOK /\ EngineTypeOK /\ ApTypeOK /\ WfTypeOK
      /\ PreviewTypeOK /\ ModerationTypeOK /\ LoginTypeOK /\ CcTypeOK
      => OperationsTypeOK
  BY DEF OperationsTypeOK, OneIsFollowed
<1>4. QED
  BY <1>1, <1>2, <1>3, DashInvariant, EngineInvariant, ApInvariant, WfInvariant, PreviewInvariant,
     ModerationInvariant, LoginInvariant, ClockInvariant, ClockIsAPart, PTL
=============================================================================

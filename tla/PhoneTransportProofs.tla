------------------------ MODULE PhoneTransportProofs ------------------------
(***************************************************************************)
(* Theorems about PhoneTransport, for every bound on the queue and every   *)
(* set of failures.  The token, the stream and the phases of a dial are    *)
(* tied together by one inductive invariant: a stream exists only after it *)
(* took the token, a token is pending only while its dial waits, and a     *)
(* dial past the placing request knows the call it has to hang up.         *)
(***************************************************************************)
EXTENDS PhoneTransport, SequenceTheorems, TLAPS

\* How many ends of the audio have been queued so far.
Ends ==
      (IF stopped THEN 1 ELSE 0)
    + (IF stream = "closed" THEN 1 ELSE 0)
    + (IF session = "ended" /\ outcome # "failed" THEN 1 ELSE 0)

\* The domains, without the length of the queue.
Domains ==
    /\ session \in Sessions
    /\ outcome \in Outcomes
    /\ pending \in BOOLEAN
    /\ callSid \in BOOLEAN
    /\ ready \in BOOLEAN
    /\ closed \in BOOLEAN
    /\ inbox \in Seq({"frame", "end"})
    /\ reader \in {"off", "reading", "finished"}
    /\ stream \in {"none", "open", "refused", "closed"}
    /\ leg \in {"none", "ringing", "up", "down"}
    /\ stopped \in BOOLEAN
    /\ hangup \in {"none", "done", "failed"}

QueueIsBounded == Len(inbox) <= MaxInbox + Ends

\* A dial that has not begun has touched nothing outside; one past the placing
\* request knows its call.
PhaseInv ==
    /\ session = "idle" => leg = "none" /\ stream = "none"
    /\ session \in {"waiting", "live", "ending"} => callSid /\ leg # "none"
    /\ outcome = "failed" => session = "ended"

\* The token is taken by a stream or dropped by the end of its dial.
TokenInv ==
    /\ ready => stream # "none"
    /\ stream # "none" => ~pending
    /\ pending => session \in {"placing", "waiting"} \/ outcome = "failed"

Inv == Domains /\ QueueIsBounded /\ PhaseInv /\ TokenInv /\ DialLeavesNoCall

LEMMA InitInv == Init => Inv
<1> SUFFICES ASSUME Init PROVE Inv
  OBVIOUS
<1> USE DEF Init
<1>0. <<>> \in Seq({"frame", "end"}) /\ Len(<<>>) = 0
  BY EmptySeq
<1>1. Domains /\ PhaseInv /\ TokenInv /\ DialLeavesNoCall
  BY <1>0 DEF Domains, Sessions, Outcomes, PhaseInv, TokenInv, DialLeavesNoCall
<1>2. QueueIsBounded
  BY <1>0, PhoneTransportAssumption DEF QueueIsBounded, Ends
<1>3. QED
  BY <1>1, <1>2 DEF Inv

\* The domains and the relations between the phases: no step needs more than its
\* own definition.
LEMMA NextKeepsDomains ==
    ASSUME Inv, [Next]_vars
    PROVE  Domains'
<1> USE DEF Inv, Domains, Sessions, Outcomes, Next, StartStep, RouteStep, Terminated, vars
<1>1. CASE StartStep
  BY <1>1 DEF Register, Placed, PlaceRaises, Connected, Timeout
<1>2. CASE Read
  <2>1. Tail(inbox) \in Seq({"frame", "end"})
    BY <1>2, HeadTailProperties DEF Read
  <2>2. QED
    BY <1>2, <2>1 DEF Read
<1>3. CASE SendFails \/ SessionEnds
  BY <1>3 DEF SendFails, SessionEnds
<1>4. CASE End
  <2>1. Append(inbox, "end") \in Seq({"frame", "end"})
    BY AppendProperties
  <2>2. QED
    BY <1>4, <2>1 DEF End, HangUp
<1>5. CASE RouteStep
  <2>1. CASE DialBack \/ StartFrame
    BY <2>1 DEF DialBack, StartFrame
  <2>2. CASE StopFrame
    BY <2>2 DEF StopFrame
  <2>3. CASE Disconnect
    BY <2>3 DEF Disconnect
  <2>4. QED
    BY <1>5, <2>1, <2>2, <2>3
<1>6. CASE MediaFrame
  BY <1>6 DEF MediaFrame
<1>7. CASE Rings \/ Answers \/ CalleeLeaves
  BY <1>7 DEF Rings, Answers, CalleeLeaves
<1>8. CASE UNCHANGED vars
  BY <1>8
<1>9. QED
  BY <1>1, <1>2, <1>3, <1>4, <1>5, <1>6, <1>7, <1>8

LEMMA NextKeepsTokenAndLeg ==
    ASSUME Inv, [Next]_vars
    PROVE  PhaseInv' /\ TokenInv' /\ DialLeavesNoCall'
<1> USE DEF Inv, Domains, Sessions, Outcomes, PhaseInv, TokenInv, DialLeavesNoCall
<1>1. CASE StartStep
  BY <1>1 DEF StartStep, Register, Placed, PlaceRaises, Connected, Timeout
<1>2. CASE Read \/ SendFails \/ SessionEnds
  BY <1>2 DEF Read, SendFails, SessionEnds
<1>3. CASE End
  BY <1>3 DEF End, HangUp
<1>4. CASE RouteStep
  BY <1>4 DEF RouteStep, DialBack, StartFrame, StopFrame, Disconnect
<1>5. CASE MediaFrame
  BY <1>5 DEF MediaFrame
<1>6. CASE Rings \/ Answers \/ CalleeLeaves
  BY <1>6 DEF Rings, Answers, CalleeLeaves
<1>7. CASE UNCHANGED vars
  BY <1>7 DEF vars
<1>8. QED
  BY <1>1, <1>2, <1>3, <1>4, <1>5, <1>6, <1>7 DEF Next, Terminated

\* A frame is queued only below the bound, and each source of an end adds one.
LEMMA NextKeepsQueue ==
    ASSUME Inv, [Next]_vars
    PROVE  QueueIsBounded'
<1> USE PhoneTransportAssumption
    DEF Inv, Domains, Sessions, Outcomes, PhaseInv, QueueIsBounded, Ends
<1>0. Len(inbox) \in Nat /\ \A x : Len(Append(inbox, x)) = Len(inbox) + 1
  BY LenProperties, AppendProperties
<1>1. CASE StartStep
  BY <1>1, <1>0 DEF StartStep, Register, Placed, PlaceRaises, Connected, Timeout
<1>2. CASE Read
  <2>1. Len(Tail(inbox)) = Len(inbox) - 1
    BY <1>2, HeadTailProperties DEF Read
  <2>2. QED
    BY <1>2, <1>0, <2>1 DEF Read
<1>3. CASE SendFails \/ SessionEnds
  BY <1>3, <1>0 DEF SendFails, SessionEnds
<1>4. CASE End
  BY <1>4, <1>0 DEF End, HangUp
<1>5. CASE RouteStep
  BY <1>5, <1>0 DEF RouteStep, DialBack, StartFrame, StopFrame, Disconnect
<1>6. CASE MediaFrame
  BY <1>6, <1>0 DEF MediaFrame
<1>7. CASE Rings \/ Answers \/ CalleeLeaves
  BY <1>7, <1>0 DEF Rings, Answers, CalleeLeaves
<1>8. CASE UNCHANGED vars
  BY <1>8 DEF vars
<1>9. QED
  BY <1>1, <1>2, <1>3, <1>4, <1>5, <1>6, <1>7, <1>8 DEF Next, Terminated

LEMMA Invariance == Spec => []Inv
<1>1. Inv /\ [Next]_vars => Inv'
  BY NextKeepsDomains, NextKeepsTokenAndLeg, NextKeepsQueue DEF Inv
<1>2. QED
  BY <1>1, InitInv, PTL DEF Spec

\* Whatever fails, every variable of a dial keeps its type, and at most three ends
\* of the audio wait behind the frames: serve, _on_message and end queue one each.
THEOREM TypeCorrect == Spec => []TypeOK
<1>1. Inv => TypeOK
  <2> SUFFICES ASSUME Inv PROVE TypeOK
    OBVIOUS
  <2>1. Len(inbox) \in Nat
    BY LenProperties DEF Inv, Domains
  <2>2. Len(inbox) <= MaxInbox + 3
    BY <2>1, PhoneTransportAssumption DEF Inv, QueueIsBounded, Ends
  <2>3. QED
    BY <2>2 DEF Inv, Domains, TypeOK
<1>2. QED
  BY <1>1, Invariance, PTL

\* Whatever the order of the answer, the timeout and the hang-ups, a dial that
\* start and end have finished leaves no token behind unless the placing request
\* raised, and no call unless that request or the one to hang up failed.
THEOREM NoCallIsLeft == Spec => []DialLeavesNoCall
<1>1. Inv => DialLeavesNoCall
  BY DEF Inv
<1>2. QED
  BY <1>1, Invariance, PTL

\* The media route accepts one stream per token, and none once the dial gave up or
\* its session began.
THEOREM OneStreamPerToken == Spec => TokenAdmitsOneStream
<1>1. Inv /\ [Next]_vars =>
        [stream # "open" /\ stream' = "open" =>
            /\ stream = "none" /\ pending /\ ~pending'
            /\ session \in {"placing", "waiting"} \/ outcome = "failed"]_vars
  <2> SUFFICES ASSUME Inv, Next, stream # "open", stream' = "open"
               PROVE  /\ stream = "none" /\ pending /\ ~pending'
                      /\ session \in {"placing", "waiting"} \/ outcome = "failed"
    OBVIOUS
  <2>1. DialBack
    BY DEF Next, StartStep, RouteStep, Terminated, vars, Register, Placed, PlaceRaises, Connected,
           Timeout, Read, SendFails, SessionEnds, End, HangUp, StartFrame, StopFrame, Disconnect,
           MediaFrame, Rings, Answers, CalleeLeaves
  <2>2. QED
    BY <2>1 DEF DialBack, Inv, TokenInv
<1>2. QED
  BY <1>1, Invariance, PTL DEF Spec, TokenAdmitsOneStream
=============================================================================

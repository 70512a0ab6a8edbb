-------------------------- MODULE LiveSessionProofs --------------------------
(***************************************************************************)
(* Theorems about LiveSession, for every set of collaborators that may     *)
(* raise.  One inductive invariant carries all but the last: where the     *)
(* pumps are in each phase of the call, and how the outcome, the opt-out,  *)
(* the booking and the result relate before and after the call is over.    *)
(***************************************************************************)
EXTENDS LiveSession, TLAPS

\* Before the pumps start nothing has been said, booked or sent; a leg is given up by
\* its caller or by the end of the call, and left only by a request that failed.
PhaseInv ==
    /\ phase \in {"idle", "starting"} => leg = "none"
    /\ phase \in {"idle", "starting", "connecting"} =>
          mic = "off" /\ live = "off" /\ ~ended /\ ~meeting /\ ~callerLeft /\ outcome = "none"
    /\ phase = "driving" => mic # "off" /\ live # "off"
    /\ phase \in {"post", "report"} => leg \in {"down", "left"}
    /\ phase # "over" => (leg = "down" <=> callerLeft) \/ phase \in {"post", "report"}
    /\ leg = "left" => ~callerLeft /\ EndMayFail
    /\ phase # "over" => result = "none"
    /\ phase \notin {"report", "over"} => emails = 0

\* What a pump raised is recorded.
RaisedInv == "raised" \in {mic, live} => raised # {}

\* As long as nothing raised, an opt-out is the outcome, a booking is the outcome
\* or was followed by an opt-out, and the result is the outcome.
OutcomeInv ==
    /\ outcome = "booked" => meeting /\ ~ended
    /\ outcome = "opted_out" => ended
    /\ ended /\ raised = {} => outcome = "opted_out"
    /\ meeting /\ raised = {} => outcome \in {"booked", "opted_out"}
    /\ phase = "over" /\ raised = {} /\ outcome # "none" => result = ToCallOutcome(outcome)

Inv ==
    /\ TypeOK
    /\ PhaseInv
    /\ PumpsStop
    /\ LiveIsCutOff
    /\ RaisedInv
    /\ OutcomeInv
    /\ EmailConfirmsBooking
    /\ LegIsFreed

\* Every step keeps the types.
LEMMA TypeStep ==
  ASSUME Inv, [Next]_vars PROVE TypeOK'
<1> USE LiveSessionAssumption
    DEF stateVars, histVars, Raises, NothingRaises, Escapes, At, Go, Inv, TypeOK, PhaseInv, FaultKinds, Finished, Stages, Phases,
        LiveOutcomes, ToCallOutcome
<1>1. CASE Dial
  BY <1>1 DEF Dial
<1>2. CASE NotAnswered
  BY <1>2 DEF NotAnswered, LegAfterEnd, EndMayFail
<1>3. CASE StartRaises
  BY <1>3 DEF StartRaises
<1>4. CASE Answered
  BY <1>4 DEF Answered
<1>5. CASE Connect
  BY <1>5 DEF Connect
<1>6. CASE Settle
  <2>1. {mic', live'} \subseteq Finished
    BY <1>6 DEF Cancel, Settle
  <2>2. outcome' \in {"none"} \cup LiveOutcomes /\ raised' \in SUBSET Faults
    BY <1>6 DEF Settle
  <2> QED
    BY <1>6, <2>1, <2>2 DEF Settle
<1>7. CASE HangUp
  <2>1. outcome' \in {"none"} \cup LiveOutcomes /\ raised' \in SUBSET Faults
    BY <1>7 DEF HangUp, LegAfterEnd, EndMayFail
  <2>2. phase' \in Phases /\ result' \in {"none"} \cup (LiveOutcomes \ {"ended"})
    BY <1>7 DEF HangUp, LegAfterEnd, EndMayFail
  <2> QED
    BY <1>7, <2>1, <2>2 DEF HangUp, LegAfterEnd, EndMayFail
<1>8. CASE PostCall
  <2>0. emails = 0
    BY <1>8 DEF PostCall
  <2>1. emails' \in {0, 1}
    BY <1>8, <2>0 DEF PostCall
  <2>2. phase' \in Phases /\ result' \in {"none"} \cup (LiveOutcomes \ {"ended"})
    BY <1>8 DEF PostCall
  <2>3. raised' \in SUBSET Faults
    BY <1>8 DEF PostCall
  <2> QED
    BY <1>8, <2>1, <2>2, <2>3 DEF PostCall
<1>9. CASE Report
  <2>1. result' \in {"none"} \cup (LiveOutcomes \ {"ended"}) /\ raised' \in SUBSET Faults
    BY <1>9 DEF Report
  <2> QED
    BY <1>9, <2>1 DEF Report
<1>10. CASE CallerHangsUp
  BY <1>10 DEF CallerHangsUp
<1>11. CASE MicStops
  BY <1>11 DEF MicStops
<1>12. CASE MicRaises
  BY <1>12 DEF MicRaises
<1>13. CASE Receive
  BY <1>13 DEF Receive
<1>14. CASE Hears
  <2>1. leadSpoke' \in BOOLEAN
    BY <1>14, Zenon DEF Hears
  <2> QED
    BY <1>14, <2>1 DEF Hears
<1>15. CASE HearsOptOut
  BY <1>15 DEF HearsOptOut
<1>16. CASE AckCut
  BY <1>16 DEF AckCut
<1>17. CASE AckSpeak
  BY <1>17 DEF AckSpeak
<1>18. CASE Speaks
  BY <1>18 DEF Speaks
<1>19. CASE Moderate
  <2>1. blocked' \in BOOLEAN
    BY <1>19, Zenon DEF Moderate
  <2> QED
    BY <1>19, <2>1 DEF Moderate
<1>20. CASE Steer
  BY <1>20 DEF Steer
<1>21. CASE Audio
  BY <1>21 DEF Audio
<1>22. CASE TurnGoesOn
  BY <1>22 DEF TurnGoesOn
<1>23. CASE Verify
  BY <1>23 DEF Verify
<1>24. CASE TurnOver
  <2>1. blocked' \in BOOLEAN
    BY <1>24, Zenon DEF TurnIsOver, TurnOver
  <2> QED
    BY <1>24, <2>1 DEF TurnIsOver, TurnOver
<1>25. CASE Books
  <2>1. email' \in BOOLEAN /\ meeting' \in BOOLEAN
    BY <1>25, Zenon DEF Books
  <2>2. live' \in {"off"} \cup Stages \cup Finished /\ raised' \in SUBSET Faults
    BY <1>25 DEF Books
  <2>3. UNCHANGED <<leadSpoke, blocked, ended, hangup, callerLeft, ackSpoken>>
    BY <1>25 DEF Books
  <2> QED
    BY <1>25, <2>1, <2>2, <2>3 DEF Books
<1>26. CASE BooksUnrecorded
  BY <1>26 DEF BooksUnrecorded
<1>27. CASE EndCall
  BY <1>27 DEF AgentVerdict, EndCall
<1>28. CASE Respond
  BY <1>28 DEF Respond
<1>29. CASE LiveRaises
  BY <1>29 DEF RaisesAt, LiveRaises
<1>30. CASE UNCHANGED vars
  BY <1>30 DEF vars
<1> QED
  BY <1>1, <1>2, <1>3, <1>4, <1>5, <1>6, <1>7, <1>8, <1>9, <1>10, <1>11, <1>12, <1>13, <1>14, <1>15, <1>16, <1>17, <1>18, <1>19, <1>20, <1>21, <1>22, <1>23, <1>24, <1>25, <1>26, <1>27, <1>28, <1>29, <1>30
     DEF Next, MainStep, MicStep, LiveStep, Content, ToolStep, Terminated

\* Every step keeps the pumps where the phase allows them.
LEMMA PumpStep ==
  ASSUME Inv, [Next]_vars PROVE (PhaseInv /\ PumpsStop /\ LiveIsCutOff /\ RaisedInv)'
<1> USE LiveSessionAssumption
    DEF stateVars, histVars, Raises, NothingRaises, Escapes, At, Go, Inv, TypeOK, Finished, Stages, PhaseInv, PumpsStop,
        LiveIsCutOff, RaisedInv
<1>1. CASE Dial
  BY <1>1 DEF Dial
<1>2. CASE NotAnswered
  BY <1>2 DEF NotAnswered, LegAfterEnd, EndMayFail
<1>3. CASE StartRaises
  BY <1>3 DEF StartRaises
<1>4. CASE Answered
  BY <1>4 DEF Answered
<1>5. CASE Connect
  BY <1>5 DEF Connect
<1>6. CASE Settle
  BY <1>6 DEF Cancel, Settle
<1>7. CASE HangUp
  BY <1>7 DEF HangUp, LegAfterEnd, EndMayFail
<1>8. CASE PostCall
  BY <1>8 DEF MaySend, PostCall
<1>9. CASE Report
  BY <1>9 DEF Report
<1>10. CASE CallerHangsUp
  BY <1>10 DEF CallerHangsUp
<1>11. CASE MicStops
  BY <1>11 DEF MicStops
<1>12. CASE MicRaises
  BY <1>12 DEF MicRaises
<1>13. CASE Receive
  BY <1>13 DEF Receive
<1>14. CASE Hears
  BY <1>14 DEF Hears
<1>15. CASE HearsOptOut
  BY <1>15 DEF HearsOptOut
<1>16. CASE AckCut
  BY <1>16 DEF AckCut
<1>17. CASE AckSpeak
  BY <1>17 DEF AckSpeak
<1>18. CASE Speaks
  BY <1>18 DEF Speaks
<1>19. CASE Moderate
  BY <1>19 DEF Moderate
<1>20. CASE Steer
  BY <1>20 DEF Steer
<1>21. CASE Audio
  BY <1>21 DEF Audio
<1>22. CASE TurnGoesOn
  BY <1>22 DEF TurnGoesOn
<1>23. CASE Verify
  BY <1>23 DEF Verify
<1>24. CASE TurnOver
  BY <1>24 DEF TurnIsOver, TurnOver
<1>25. CASE Books
  BY <1>25 DEF Books
<1>26. CASE BooksUnrecorded
  BY <1>26 DEF BooksUnrecorded
<1>27. CASE EndCall
  BY <1>27 DEF AgentVerdict, EndCall
<1>28. CASE Respond
  BY <1>28 DEF Respond
<1>29. CASE LiveRaises
  BY <1>29 DEF RaisesAt, LiveRaises
<1>30. CASE UNCHANGED vars
  BY <1>30 DEF vars
<1> QED
  BY <1>1, <1>2, <1>3, <1>4, <1>5, <1>6, <1>7, <1>8, <1>9, <1>10, <1>11, <1>12, <1>13, <1>14, <1>15, <1>16, <1>17, <1>18, <1>19, <1>20, <1>21, <1>22, <1>23, <1>24, <1>25, <1>26, <1>27, <1>28, <1>29, <1>30
     DEF Next, MainStep, MicStep, LiveStep, Content, ToolStep, Terminated

\* Every step keeps opt-out, booking, outcome and result together.
LEMMA OutcomeStep ==
  ASSUME Inv, [Next]_vars PROVE OutcomeInv'
<1> USE LiveSessionAssumption
    DEF stateVars, histVars, Raises, NothingRaises, Escapes, At, Go, Inv, TypeOK, Finished, PhaseInv, LiveIsCutOff, RaisedInv, OutcomeInv
<1>1. CASE Dial
  BY <1>1 DEF Dial
<1>2. CASE NotAnswered
  BY <1>2 DEF NotAnswered, LegAfterEnd, EndMayFail
<1>3. CASE StartRaises
  BY <1>3 DEF StartRaises
<1>4. CASE Answered
  BY <1>4 DEF Answered
<1>5. CASE Connect
  BY <1>5 DEF Connect
<1>6. CASE Settle
  BY <1>6 DEF Cancel, Settle
<1>7. CASE HangUp
  BY <1>7 DEF HangUp, LegAfterEnd, EndMayFail
<1>8. CASE PostCall
  BY <1>8 DEF MaySend, PostCall
<1>9. CASE Report
  BY <1>9 DEF Report
<1>10. CASE CallerHangsUp
  BY <1>10 DEF CallerHangsUp
<1>11. CASE MicStops
  BY <1>11 DEF MicStops
<1>12. CASE MicRaises
  BY <1>12 DEF MicRaises
<1>13. CASE Receive
  BY <1>13 DEF Receive
<1>14. CASE Hears
  BY <1>14 DEF Hears
<1>15. CASE HearsOptOut
  BY <1>15 DEF HearsOptOut
<1>16. CASE AckCut
  BY <1>16 DEF AckCut
<1>17. CASE AckSpeak
  BY <1>17 DEF AckSpeak
<1>18. CASE Speaks
  BY <1>18 DEF Speaks
<1>19. CASE Moderate
  BY <1>19 DEF Moderate
<1>20. CASE Steer
  BY <1>20 DEF Steer
<1>21. CASE Audio
  BY <1>21 DEF Audio
<1>22. CASE TurnGoesOn
  BY <1>22 DEF TurnGoesOn
<1>23. CASE Verify
  BY <1>23 DEF Verify
<1>24. CASE TurnOver
  BY <1>24 DEF TurnIsOver, TurnOver
<1>25. CASE Books
  BY <1>25 DEF Books
<1>26. CASE BooksUnrecorded
  BY <1>26 DEF BooksUnrecorded
<1>27. CASE EndCall
  <2>1. ~ended /\ UNCHANGED <<ended, meeting, raised, phase, result>>
    BY <1>27 DEF EndCall
  <2>2. (outcome' = "booked" <=> outcome = "booked") /\ outcome' # "opted_out"
    BY <1>27 DEF AgentVerdict, EndCall
  <2>3. phase = "driving"
    BY <1>27 DEF EndCall
  <2> QED
    BY <2>1, <2>2, <2>3
<1>28. CASE Respond
  BY <1>28 DEF Respond
<1>29. CASE LiveRaises
  BY <1>29 DEF RaisesAt, LiveRaises
<1>30. CASE UNCHANGED vars
  BY <1>30 DEF vars
<1> QED
  BY <1>1, <1>2, <1>3, <1>4, <1>5, <1>6, <1>7, <1>8, <1>9, <1>10, <1>11, <1>12, <1>13, <1>14, <1>15, <1>16, <1>17, <1>18, <1>19, <1>20, <1>21, <1>22, <1>23, <1>24, <1>25, <1>26, <1>27, <1>28, <1>29, <1>30
     DEF Next, MainStep, MicStep, LiveStep, Content, ToolStep, Terminated

\* Every step keeps the email and the leg right.
LEMMA CloseStep ==
  ASSUME Inv, [Next]_vars PROVE (EmailConfirmsBooking /\ LegIsFreed)'
<1> USE LiveSessionAssumption
    DEF stateVars, histVars, Raises, NothingRaises, Escapes, At, Go, Inv, TypeOK, Finished, PhaseInv, PumpsStop, LiveIsCutOff, OutcomeInv,
        EmailConfirmsBooking, LegIsFreed
<1>1. CASE Dial
  BY <1>1 DEF Dial
<1>2. CASE NotAnswered
  BY <1>2 DEF NotAnswered, LegAfterEnd, EndMayFail
<1>3. CASE StartRaises
  BY <1>3 DEF StartRaises
<1>4. CASE Answered
  BY <1>4 DEF Answered
<1>5. CASE Connect
  BY <1>5 DEF Connect
<1>6. CASE Settle
  BY <1>6 DEF Cancel, Settle
<1>7. CASE HangUp
  BY <1>7 DEF HangUp, LegAfterEnd, EndMayFail
<1>8. CASE PostCall
  BY <1>8 DEF MaySend, PostCall
<1>9. CASE Report
  BY <1>9 DEF Report
<1>10. CASE CallerHangsUp
  BY <1>10 DEF CallerHangsUp
<1>11. CASE MicStops
  BY <1>11 DEF MicStops
<1>12. CASE MicRaises
  BY <1>12 DEF MicRaises
<1>13. CASE Receive
  BY <1>13 DEF Receive
<1>14. CASE Hears
  BY <1>14 DEF Hears
<1>15. CASE HearsOptOut
  BY <1>15 DEF HearsOptOut
<1>16. CASE AckCut
  BY <1>16 DEF AckCut
<1>17. CASE AckSpeak
  BY <1>17 DEF AckSpeak
<1>18. CASE Speaks
  BY <1>18 DEF Speaks
<1>19. CASE Moderate
  BY <1>19 DEF Moderate
<1>20. CASE Steer
  BY <1>20 DEF Steer
<1>21. CASE Audio
  BY <1>21 DEF Audio
<1>22. CASE TurnGoesOn
  BY <1>22 DEF TurnGoesOn
<1>23. CASE Verify
  BY <1>23 DEF Verify
<1>24. CASE TurnOver
  BY <1>24 DEF TurnIsOver, TurnOver
<1>25. CASE Books
  BY <1>25 DEF Books
<1>26. CASE BooksUnrecorded
  BY <1>26 DEF BooksUnrecorded
<1>27. CASE EndCall
  BY <1>27 DEF AgentVerdict, EndCall
<1>28. CASE Respond
  BY <1>28 DEF Respond
<1>29. CASE LiveRaises
  BY <1>29 DEF RaisesAt, LiveRaises
<1>30. CASE UNCHANGED vars
  BY <1>30 DEF vars
<1> QED
  BY <1>1, <1>2, <1>3, <1>4, <1>5, <1>6, <1>7, <1>8, <1>9, <1>10, <1>11, <1>12, <1>13, <1>14, <1>15, <1>16, <1>17, <1>18, <1>19, <1>20, <1>21, <1>22, <1>23, <1>24, <1>25, <1>26, <1>27, <1>28, <1>29, <1>30
     DEF Next, MainStep, MicStep, LiveStep, Content, ToolStep, Terminated

\* The invariant of a call.
LEMMA Inductive == Spec => []Inv
<1>1. Init => Inv
  <2> SUFFICES ASSUME Init PROVE Inv
    OBVIOUS
  <2> USE LiveSessionAssumption DEF Init, Finished, Stages
  <2>1. TypeOK
    <3>1. leadSpoke \in BOOLEAN /\ blocked \in BOOLEAN /\ ended \in BOOLEAN /\ hangup \in BOOLEAN
          /\ email \in BOOLEAN /\ callerLeft \in BOOLEAN /\ ackSpoken \in BOOLEAN /\ meeting \in BOOLEAN
      BY Zenon
    <3> QED
      BY <3>1 DEF TypeOK, Phases
  <2>2. PhaseInv /\ PumpsStop /\ LiveIsCutOff /\ RaisedInv
    BY DEF PhaseInv, PumpsStop, LiveIsCutOff, RaisedInv
  <2>3. OutcomeInv /\ EmailConfirmsBooking /\ LegIsFreed
    BY DEF OutcomeInv, EmailConfirmsBooking, LegIsFreed
  <2> QED
    BY <2>1, <2>2, <2>3 DEF Inv
<1>2. Inv /\ [Next]_vars => Inv'
  <2> SUFFICES ASSUME Inv, [Next]_vars PROVE Inv'
    OBVIOUS
  <2> QED
    BY TypeStep, PumpStep, OutcomeStep, CloseStep DEF Inv
<1> QED
  BY <1>1, <1>2, PTL DEF Spec

\* Every variable of a call keeps its type, and at most one confirmation email is
\* sent, whichever collaborators raise.
THEOREM TypeCorrect == Spec => []TypeOK
<1>1. Inv => TypeOK
  BY DEF Inv
<1> QED
  BY <1>1, Inductive, PTL

\* A call in which nothing raised reports an opt-out as opted_out.
THEOREM OptOutIsReported == Spec => []OptOutWins
<1>1. Inv => OptOutWins
  BY DEF Inv, OutcomeInv, OptOutWins, ToCallOutcome
<1> QED
  BY <1>1, Inductive, PTL

\* A call in which nothing raised reports a booked meeting, unless the caller
\* opted out.
THEOREM BookingsAreReported == Spec => []BookingIsReported
<1>1. Inv => BookingIsReported
  BY DEF Inv, OutcomeInv, BookingIsReported, ToCallOutcome
<1> QED
  BY <1>1, Inductive, PTL

\* After an opt-out no event of the Live model is handled, and no email is sent;
\* an email always confirms a booking, after the call.
THEOREM OptOutSilencesLive == Spec => [](LiveIsCutOff /\ EmailConfirmsBooking)
<1>1. Inv => LiveIsCutOff /\ EmailConfirmsBooking
  BY DEF Inv
<1> QED
  BY <1>1, Inductive, PTL

\* No pump outlives the call, and the leg is down when the outcome is reported,
\* unless the first event of the call could not be logged or the request to hang up
\* failed on a caller who was still there.
THEOREM CallIsWoundUp == Spec => [](PumpsStop /\ LegIsFreed)
<1>1. Inv => PumpsStop /\ LegIsFreed
  BY DEF Inv
<1> QED
  BY <1>1, Inductive, PTL

(***************************************************************************)
(* The opening turn.                                                       *)
(***************************************************************************)
\* The check of the opening turn comes before the await that logs it, and only an
\* opt-out is acknowledged.
VerifyInv ==
    /\ live = "verify" => disclosure # "unchecked"
    /\ live \in {"ackCut", "ackSpeak"} => ended

\* The steps of the main coroutine and of the mic pump touch neither the check nor
\* the stage of the live pump, other than to start or to cancel it.
LEMMA OthersKeepTheCheck ==
  ASSUME MainStep \/ MicStep \/ Terminated
  PROVE  /\ UNCHANGED <<disclosure, ended>>
         /\ live' \in {live, "recv", "cancelled"}
<1> USE DEF stateVars, Escapes
<1>1. CASE Dial \/ NotAnswered \/ StartRaises \/ Answered
  BY <1>1 DEF Dial, NotAnswered, StartRaises, Answered
<1>2. CASE Connect
  BY <1>2 DEF Connect
<1>3. CASE Settle
  BY <1>3 DEF Settle, Cancel
<1>4. CASE HangUp
  BY <1>4 DEF HangUp, LegAfterEnd, EndMayFail
<1>5. CASE PostCall \/ Report
  BY <1>5 DEF PostCall, Report
<1>6. CASE MicStep
  BY <1>6 DEF MicStep, CallerHangsUp, MicStops, MicRaises
<1>7. CASE Terminated
  BY <1>7 DEF Terminated, vars
<1> QED
  BY <1>1, <1>2, <1>3, <1>4, <1>5, <1>6, <1>7 DEF MainStep

\* A step of the live pump that neither begins nor ends the check.
Unchecking == LiveStep /\ ~Verify /\ ~TurnOver

\* Such a step ends the pump only at the end of the stream of events or after an
\* opt-out, and acknowledges only that.
LEMMA PumpKeepsTheCheck ==
  ASSUME VerifyInv, Unchecking
  PROVE  /\ disclosure' = disclosure /\ live' # "verify"
         /\ live' \in {"ackCut", "ackSpeak"} => ended'
         /\ live' = "done" => live = "recv" \/ ended
<1> USE DEF stateVars, At, Go, VerifyInv
<1>1. CASE Receive
  BY <1>1 DEF Receive
<1>2. CASE Hears
  BY <1>2 DEF Hears
<1>3. CASE HearsOptOut
  BY <1>3 DEF HearsOptOut
<1>4. CASE AckCut
  BY <1>4 DEF AckCut
<1>5. CASE AckSpeak
  BY <1>5 DEF AckSpeak
<1>6. CASE Speaks
  BY <1>6 DEF Speaks
<1>7. CASE Moderate
  BY <1>7 DEF Moderate
<1>8. CASE Steer \/ Audio \/ TurnGoesOn
  BY <1>8 DEF Steer, Audio, TurnGoesOn
<1>9. CASE ToolStep
  BY <1>9 DEF ToolStep, Books, BooksUnrecorded, EndCall, Respond
<1>10. CASE LiveRaises
  BY <1>10 DEF LiveRaises
<1> QED
  BY <1>1, <1>2, <1>3, <1>4, <1>5, <1>6, <1>7, <1>8, <1>9, <1>10 DEF Unchecking, LiveStep, Content

\* The end of a turn that was checked.
LEMMA TurnOverIsChecked ==
  ASSUME TypeOK, VerifyInv, TurnOver
  PROVE  /\ disclosure' \in {"spoken", "missing"}
         /\ live' = IF hangup THEN "done" ELSE "recv"
<1>1. disclosure \in {"checking", "spoken", "missing"}
  BY DEF TypeOK, VerifyInv, TurnOver, TurnIsOver, At
<1> QED
  BY <1>1 DEF TurnOver, Go

\* The check stands before its await, and an opt-out before its acknowledgement.
LEMMA VerifyStep ==
  ASSUME TypeOK, VerifyInv, [Next]_vars PROVE VerifyInv'
<1>1. CASE MainStep \/ MicStep \/ Terminated \/ UNCHANGED vars
  <2>1. UNCHANGED <<disclosure, ended>> /\ live' \in {live, "recv", "cancelled"}
    BY <1>1, OthersKeepTheCheck DEF vars
  <2> QED
    BY <2>1 DEF VerifyInv
<1>2. CASE Verify
  BY <1>2 DEF Verify, Go, VerifyInv
<1>3. CASE TurnOver
  BY <1>3, TurnOverIsChecked DEF VerifyInv
<1>4. CASE Unchecking
  BY <1>4, PumpKeepsTheCheck DEF VerifyInv
<1> QED
  BY <1>1, <1>2, <1>3, <1>4 DEF Next, Unchecking

\* The agent hangs up only after a turn, the opening one included, whose disclosure
\* has been checked and logged (session.py, _pump_live and _verify_disclosure).
THEOREM AgentHangsUpVerified == Spec => AgentHangupIsVerified
<1>1. Init => VerifyInv
  BY DEF Init, VerifyInv
<1>2. TypeOK /\ VerifyInv /\ [Next]_vars => VerifyInv'
  BY VerifyStep
<1>3. TypeOK /\ VerifyInv /\ [Next]_vars =>
          [live # "done" /\ live' = "done" /\ ~ended /\ live # "recv" =>
              hangup /\ disclosure' \in {"spoken", "missing"}]_vars
  <2> SUFFICES ASSUME TypeOK, VerifyInv, [Next]_vars,
                      live # "done", live' = "done", ~ended, live # "recv"
               PROVE  hangup /\ disclosure' \in {"spoken", "missing"}
    OBVIOUS
  <2>1. ~(MainStep \/ MicStep \/ Terminated) /\ ~UNCHANGED vars
    BY OthersKeepTheCheck DEF vars
  <2>2. ~Unchecking /\ ~Verify
    BY PumpKeepsTheCheck DEF Verify, Go
  <2>3. TurnOver
    BY <2>1, <2>2 DEF Next, Unchecking
  <2> QED
    BY <2>3, TurnOverIsChecked
<1> QED
  BY <1>1, <1>2, <1>3, TypeCorrect, PTL DEF Spec, AgentHangupIsVerified
=============================================================================

------------------------- MODULE OrchestratorProofs -------------------------
(***************************************************************************)
(* Theorems about Orchestrator, for every set of campaigns and leads and   *)
(* every envelope.                                                         *)
(***************************************************************************)
EXTENDS Orchestrator, FiniteSetTheorems, TLAPS

-----------------------------------------------------------------------------
(***************************************************************************)
(* The registry names the one live loop of a campaign.                     *)
(***************************************************************************)

LoopTypes ==
    /\ registry \in [Campaigns -> Drives \cup {None}]
    /\ pc \in [Campaigns -> [Drives -> Pcs]]

RegistryNamesLoop == \A c \in Campaigns, d \in Drives : pc[c][d] # "none" => registry[c] = d

LoopInv == LoopTypes /\ RegistryNamesLoop

\* Leaving the registry alone and moving a loop that is live, or ending it,
\* keeps the registry exact.
LEMMA MoveKeepsLoopInv ==
    ASSUME LoopInv, NEW c \in Campaigns, NEW d \in Drives, NEW p \in Pcs,
           pc[c][d] # "none", GoTo(c, d, p), UNCHANGED registry
    PROVE  LoopInv'
BY DEF LoopInv, LoopTypes, RegistryNamesLoop, GoTo

LEMMA ExitKeepsLoopInv ==
    ASSUME LoopInv, NEW c \in Campaigns, NEW d \in Drives, Exit(c, d)
    PROVE  LoopInv'
BY DEF LoopInv, LoopTypes, RegistryNamesLoop, GoTo, Exit, Pcs

LEMMA SpawnKeepsLoopInv ==
    ASSUME LoopInv, NEW c \in Campaigns, EnsureRunning(c)
    PROVE  LoopInv'
<1>1. CASE Driven(c)
  BY <1>1 DEF EnsureRunning, LoopInv, LoopTypes, RegistryNamesLoop
<1>2. CASE ~Driven(c)
  <2>1. PICK d \in Drives : /\ pc[c][d] = "none"
                            /\ registry' = [registry EXCEPT ![c] = d]
                            /\ GoTo(c, d, "spawned")
    BY <1>2 DEF EnsureRunning
  <2>2. \A e \in Drives : pc[c][e] = "none"
    BY <1>2, OrchestratorAssumption DEF Driven, LoopInv, LoopTypes, RegistryNamesLoop
  <2>3. QED
    BY <2>1, <2>2 DEF LoopInv, LoopTypes, RegistryNamesLoop, GoTo, Pcs
<1>3. QED
  BY <1>1, <1>2

LEMMA EndTaskKeepsLoopInv ==
    ASSUME LoopInv, NEW t, EndTask(t), UNCHANGED registry
    PROVE  LoopInv'
<1> DEFINE k == CampaignOf[t.lead]
<1>1. CASE pc' = pc
  BY <1>1 DEF LoopInv, LoopTypes, RegistryNamesLoop
<1>2. CASE pc[k][t.drive] = "wait" /\ pc' = [pc EXCEPT ![k][t.drive] = "ready"]
  <2>1. pc' \in [Campaigns -> [Drives -> Pcs]]
    BY <1>2 DEF LoopInv, LoopTypes, Pcs
  <2>2. \A c \in Campaigns, d \in Drives : pc'[c][d] # "none" => pc[c][d] # "none"
    BY <1>2 DEF LoopInv, LoopTypes
  <2>3. QED
    BY <2>1, <2>2 DEF LoopInv, LoopTypes, RegistryNamesLoop
<1>3. QED
  BY <1>1, <1>2 DEF EndTask

LEMMA LeaveKeepsLoopInv ==
    ASSUME LoopInv, NEW c \in Campaigns, NEW d \in Drives,
           pc[c][d] # "none", Leave(c, d)
    PROVE  LoopInv'
<1>1. "drain" \in Pcs
  BY DEF Pcs
<1>2. QED
  BY <1>1, MoveKeepsLoopInv, ExitKeepsLoopInv DEF Leave

LEMMA LoopInvInductive == LoopInv /\ [Next]_vars => LoopInv'
<1> SUFFICES ASSUME LoopInv, [Next]_vars
             PROVE  LoopInv'
  OBVIOUS
<1> USE DEF dbVars, leadVars, loopVars, histVars
<1>1. CASE UNCHANGED <<registry, pc>>
  BY <1>1 DEF LoopInv, LoopTypes, RegistryNamesLoop
<1>2. ASSUME NEW c \in Campaigns, Authorize(c)
      PROVE  LoopInv'
  BY <1>1, <1>2, SpawnKeepsLoopInv DEF Authorize, EmitThenEnsureRunning
<1>3. ASSUME NEW c \in Campaigns, Resume(c)
      PROVE  LoopInv'
  BY <1>1, <1>3, SpawnKeepsLoopInv DEF Resume, EmitThenEnsureRunning
<1>4. ASSUME NEW c \in Campaigns, NEW d \in Drives, RunnerStep(c, d)
      PROVE  LoopInv'
  <2> USE MoveKeepsLoopInv, LeaveKeepsLoopInv, ExitKeepsLoopInv DEF Pcs, Sleeping
  <2>1. CASE Start(c, d)
    BY <2>1 DEF Start
  <2>2. CASE StopDispatch(c, d)
    BY <2>2 DEF StopDispatch
  <2>3. CASE Complete(c, d)
    BY <2>3 DEF Complete
  <2>4. CASE AwaitWindow(c, d)
    BY <2>4 DEF AwaitWindow, Working
  <2>5. CASE AwaitCall(c, d)
    BY <2>5 DEF AwaitCall, Working
  <2>6. CASE AwaitRate(c, d)
    BY <2>6 DEF AwaitRate, Working
  <2>7. CASE \E l \in Leads : Claim(c, d, l)
    BY <2>7, <1>1 DEF Claim
  <2>8. CASE AwaitWork(c, d)
    BY <2>8 DEF AwaitWork, MayDial, Working
  <2>9. CASE WakeUp(c, d)
    BY <2>9 DEF WakeUp
  <2>10. CASE Drained(c, d)
    BY <2>10 DEF Drained
  <2>11. QED
    BY <1>4, <2>1, <2>2, <2>3, <2>4, <2>5, <2>6, <2>7, <2>8, <2>9, <2>10 DEF RunnerStep
<1>5. CASE CallStep
  BY <1>5, EndTaskKeepsLoopInv DEF CallStep, CallReturns, SaveFails
<1>6. ASSUME NEW c \in Campaigns, NEW d \in Drives, RunnerFault(c, d)
      PROVE  LoopInv'
  BY <1>6, ExitKeepsLoopInv DEF RunnerFault
<1>7. CASE Crash
  BY <1>7 DEF Crash, LoopInv, LoopTypes, RegistryNamesLoop, Pcs
<1>8. ASSUME NEW c \in Campaigns, Pause(c) \/ Autopause(c) \/ DialAges(c)
      PROVE  LoopInv'
  BY <1>1, <1>8 DEF Pause, Autopause, DialAges
<1>9. CASE EmergencyStop \/ ClearEmergencyStop \/ WindowOpens \/ WindowCloses
  BY <1>1, <1>9 DEF EmergencyStop, ClearEmergencyStop, WindowOpens, WindowCloses
<1>10. ASSUME NEW l \in Leads, BackoffElapses(l)
       PROVE  LoopInv'
  BY <1>1, <1>10 DEF BackoffElapses
<1>11. QED
  BY <1>1, <1>2, <1>3, <1>4, <1>5, <1>6, <1>7, <1>8, <1>9, <1>10
     DEF Next, Request, Environment, vars

\* authorize, resume, draining, ended and failed loops, and crashes never leave
\* a campaign with two dispatch loops.
THEOREM OneLoop == Spec => []OneLoopPerCampaign
<1>1. Init => LoopInv
  BY DEF Init, LoopInv, LoopTypes, RegistryNamesLoop, Pcs
<1>2. LoopInv => OneLoopPerCampaign
  BY DEF LoopInv, RegistryNamesLoop, OneLoopPerCampaign
<1>3. QED
  BY <1>1, <1>2, LoopInvInductive, PTL DEF Spec

-----------------------------------------------------------------------------
LEMMA FaultTypes ==
    ASSUME faults \in [FaultKinds -> Nat], NEW k, Fails(k)
    PROVE  /\ faults' \in [FaultKinds -> Nat]
           /\ \A j \in FaultKinds : faults'[j] = IF j = k THEN faults[j] + 1 ELSE faults[j]
<1>1. k \in FaultKinds
  BY OrchestratorAssumption DEF Fails
<1>2. faults' = [faults EXCEPT ![k] = @ + 1]
  BY DEF Fails
<1>3. QED
  BY <1>1, <1>2

(***************************************************************************)
(* Types.  Only the attempt cap needs more than the types: a lead that may *)
(* be claimed has an attempt left.                                         *)
(***************************************************************************)

AttemptsLeft ==
    \A l \in Leads :
        /\ leadState[l] = "queued" => attempts[l] = 0
        /\ leadState[l] = "retry" => attempts[l] < MaxAttempts
        /\ leadState[l] = "dialing" => attempts[l] # 0

TypeInv == TypeOK /\ AttemptsLeft

LEMMA InterruptedIsFinite ==
    ASSUME NEW c \in Campaigns
    PROVE  Cardinality(Interrupted(c)) \in Nat
<1>1. Interrupted(c) \subseteq Leads
  BY DEF Interrupted, LeadsOf
<1>2. QED
  BY <1>1, OrchestratorAssumption, FS_Subset, FS_CardinalityType

LEMMA TypeInvStart ==
    ASSUME TypeInv, NEW c \in Campaigns, NEW d \in Drives, Start(c, d)
    PROVE  TypeInv'
<1> USE DEF TypeInv, TypeOK, AttemptsLeft
<1>1. \A l \in Interrupted(c) : l \in Leads /\ attempts[l] \in AttemptNumbers
  BY DEF Interrupted, LeadsOf
<1>2. tasks' \in SUBSET Task
  <2>1. \A l \in Interrupted(c) : NewTask(l, attempts[l], d) \in Task
    BY <1>1 DEF NewTask, Task
  <2>2. QED
    BY <2>1 DEF Start
<1>3. dials' \in [Leads -> [AttemptNumbers -> Nat]]
  BY <1>1 DEF Start
<1>4. recent' \in [Campaigns -> Nat]
  BY InterruptedIsFinite DEF Start
<1>5. pc' \in [Campaigns -> [Drives -> Pcs]]
  BY DEF Start, GoTo, Pcs
<1>6. QED
  BY <1>2, <1>3, <1>4, <1>5 DEF Start, dbVars, leadVars

LEMMA TypeInvClaim ==
    ASSUME TypeInv, NEW c \in Campaigns, NEW d \in Drives, NEW l \in Leads,
           Claim(c, d, l)
    PROVE  TypeInv'
<1> USE DEF TypeInv, TypeOK, AttemptsLeft
<1>1. leadState[l] \in {"queued", "retry"}
  BY DEF Claim, Eligible
<1>2. attempts[l] + 1 \in AttemptNumbers
  BY <1>1, OrchestratorAssumption DEF AttemptNumbers
<1>3. attempts' \in [Leads -> {0} \cup AttemptNumbers]
  BY <1>2 DEF Claim
<1>4. leadState' \in [Leads -> LeadStates]
  BY DEF Claim, LeadStates
<1>5. tasks' \in SUBSET Task
  <2>1. NewTask(l, attempts[l] + 1, d) \in Task
    BY <1>2 DEF NewTask, Task
  <2>2. QED
    BY <2>1 DEF Claim
<1>6. dials' \in [Leads -> [AttemptNumbers -> Nat]]
  BY <1>2 DEF Claim
<1>7. /\ limiter' \in [Campaigns -> [Drives -> Nat]]
      /\ recent' \in [Campaigns -> Nat]
      /\ waiting' \in SUBSET Leads
  BY DEF Claim
<1>8. AttemptsLeft'
  BY <1>2 DEF Claim, AttemptNumbers
<1>9. QED
  BY <1>3, <1>4, <1>5, <1>6, <1>7, <1>8 DEF Claim

\* What every step of a loop that is not a dial leaves in its domain.
LEMMA TypeInvLoopMoves ==
    ASSUME TypeInv, UNCHANGED <<autopaused, stopped, leadVars, open, histVars, faults>>,
           tasks' \in SUBSET Task,
           camp' \in [Campaigns -> CampaignStates],
           registry' \in [Campaigns -> Drives \cup {None}],
           pc' \in [Campaigns -> [Drives -> Pcs]],
           limiter' \in [Campaigns -> [Drives -> Nat]]
    PROVE  TypeInv'
BY DEF TypeInv, TypeOK, AttemptsLeft, leadVars, histVars

LEMMA LeaveTypes ==
    ASSUME TypeInv, NEW c \in Campaigns, NEW d \in Drives,
           Leave(c, d) \/ Exit(c, d)
    PROVE  /\ registry' \in [Campaigns -> Drives \cup {None}]
           /\ pc' \in [Campaigns -> [Drives -> Pcs]]
           /\ limiter' \in [Campaigns -> [Drives -> Nat]]
<1>1. /\ registry \in [Campaigns -> Drives \cup {None}]
      /\ pc \in [Campaigns -> [Drives -> Pcs]]
      /\ limiter \in [Campaigns -> [Drives -> Nat]]
  BY DEF TypeInv, TypeOK
<1>2. \A p \in Pcs : GoTo(c, d, p) => pc' \in [Campaigns -> [Drives -> Pcs]]
  BY <1>1 DEF GoTo
<1>3. "drain" \in Pcs /\ "none" \in Pcs
  BY DEF Pcs
<1>4. CASE Exit(c, d)
  BY <1>1, <1>2, <1>3, <1>4 DEF Exit
<1>5. CASE GoTo(c, d, "drain") /\ UNCHANGED <<registry, limiter>>
  BY <1>1, <1>2, <1>3, <1>5
<1>6. QED
  BY <1>4, <1>5 DEF Leave

LEMMA TypeInvRunnerStep ==
    ASSUME TypeInv, NEW c \in Campaigns, NEW d \in Drives, RunnerStep(c, d)
    PROVE  TypeInv'
<1> USE DEF dbVars, leadVars
<1>0. TypeInv => /\ tasks \in SUBSET Task
                 /\ camp \in [Campaigns -> CampaignStates]
                 /\ registry \in [Campaigns -> Drives \cup {None}]
                 /\ pc \in [Campaigns -> [Drives -> Pcs]]
                 /\ limiter \in [Campaigns -> [Drives -> Nat]]
  BY DEF TypeInv, TypeOK
<1>1. \A p \in Pcs : GoTo(c, d, p) => pc' \in [Campaigns -> [Drives -> Pcs]]
  BY <1>0 DEF GoTo
<1>2. Pcs = {"none", "spawned", "loop", "wait", "ready", "drain",
             "sleepHours", "sleepRate", "sleepRetry"}
  BY DEF Pcs, Sleeping
<1>3. CASE Start(c, d)
  BY <1>3, TypeInvStart
<1>4. CASE \E l \in Leads : Claim(c, d, l)
  BY <1>4, TypeInvClaim
<1>5. CASE Complete(c, d)
  <2>1. camp' \in [Campaigns -> CampaignStates]
    BY <1>5, <1>0 DEF Complete, CampaignStates
  <2>2. QED
    BY <1>5, <1>0, <2>1, LeaveTypes, TypeInvLoopMoves DEF Complete
<1>6. CASE StopDispatch(c, d) \/ Drained(c, d)
  BY <1>6, <1>0, LeaveTypes, TypeInvLoopMoves DEF StopDispatch, Drained
<1>7. CASE AwaitWindow(c, d)
  BY <1>7, <1>0, <1>1, <1>2, TypeInvLoopMoves DEF AwaitWindow
<1>8. CASE AwaitCall(c, d)
  BY <1>8, <1>0, <1>1, <1>2, TypeInvLoopMoves DEF AwaitCall
<1>9. CASE AwaitRate(c, d)
  BY <1>9, <1>0, <1>1, <1>2, TypeInvLoopMoves DEF AwaitRate
<1>10. CASE AwaitWork(c, d)
  BY <1>10, <1>0, <1>1, <1>2, LeaveTypes, TypeInvLoopMoves DEF AwaitWork
<1>11. CASE WakeUp(c, d)
  BY <1>11, <1>0, <1>1, <1>2, TypeInvLoopMoves DEF WakeUp
<1>12. QED
  BY <1>3, <1>4, <1>5, <1>6, <1>7, <1>8, <1>9, <1>10, <1>11 DEF RunnerStep

LEMMA TypeInvCallStep ==
    ASSUME TypeInv, CallStep
    PROVE  TypeInv'
<1> USE DEF TypeInv, TypeOK, AttemptsLeft
<1>1. PICK t \in tasks, o \in Outcomes : CallReturns(t, o) \/ SaveFails(t, o)
  BY DEF CallStep
<1>2. /\ t.lead \in Leads
      /\ t.attempt \in AttemptNumbers
  BY DEF Task
<1>3. /\ tasks' \in SUBSET Task
      /\ pc' \in [Campaigns -> [Drives -> Pcs]]
  <2>1. EndTask(t)
    BY <1>1 DEF CallReturns, SaveFails
  <2>2. QED
    BY <2>1 DEF EndTask, Pcs
<1>4. optedOut' \in SUBSET Leads
  BY <1>1, <1>2 DEF CallReturns, SaveFails
<1>5. CASE CallReturns(t, o)
  <2>1. /\ NextLeadState(t, o) \in {"retry", "done"}
        /\ NextLeadState(t, o) = "retry" => t.attempt < MaxAttempts
    BY DEF NextLeadState
  <2>2. /\ leadState' = [leadState EXCEPT ![t.lead] = NextLeadState(t, o)]
        /\ attempts' = [attempts EXCEPT ![t.lead] = t.attempt]
    BY <1>5 DEF CallReturns
  <2>3. /\ leadState' \in [Leads -> LeadStates]
        /\ attempts' \in [Leads -> {0} \cup AttemptNumbers]
        /\ outcome' \in [Leads -> {"none"} \cup Outcomes]
        /\ waiting' \in SUBSET Leads
    BY <1>2, <1>5, <2>1 DEF CallReturns, LeadStates
  <2>4. AttemptsLeft'
    BY <1>2, <2>1, <2>2
  <2>5. QED
    BY <1>3, <1>4, <1>5, <2>3, <2>4 DEF CallReturns
<1>6. CASE SaveFails(t, o)
  <2>1. faults' \in [FaultKinds -> Nat]
    BY <1>6, FaultTypes DEF SaveFails
  <2>2. QED
    BY <1>3, <1>4, <1>6, <2>1 DEF SaveFails, dbVars
<1>7. QED
  BY <1>1, <1>5, <1>6

LEMMA EnsureRunningTypes ==
    ASSUME TypeInv, NEW c \in Campaigns, EnsureRunning(c)
    PROVE  /\ registry' \in [Campaigns -> Drives \cup {None}]
           /\ pc' \in [Campaigns -> [Drives -> Pcs]]
<1>1. /\ registry \in [Campaigns -> Drives \cup {None}]
      /\ pc \in [Campaigns -> [Drives -> Pcs]]
  BY DEF TypeInv, TypeOK
<1>2. "spawned" \in Pcs
  BY DEF Pcs
<1>3. CASE UNCHANGED <<registry, pc>>
  BY <1>1, <1>3
<1>4. ASSUME NEW d \in Drives, registry' = [registry EXCEPT ![c] = d],
             GoTo(c, d, "spawned")
      PROVE  /\ registry' \in [Campaigns -> Drives \cup {None}]
             /\ pc' \in [Campaigns -> [Drives -> Pcs]]
  BY <1>1, <1>2, <1>4 DEF GoTo
<1>5. QED
  BY <1>3, <1>4 DEF EnsureRunning

LEMMA EmitTypes ==
    ASSUME TypeInv, NEW c \in Campaigns, EmitThenEnsureRunning(c)
    PROVE  /\ registry' \in [Campaigns -> Drives \cup {None}]
           /\ pc' \in [Campaigns -> [Drives -> Pcs]]
           /\ faults' \in [FaultKinds -> Nat]
<1>1. /\ registry \in [Campaigns -> Drives \cup {None}]
      /\ pc \in [Campaigns -> [Drives -> Pcs]]
      /\ faults \in [FaultKinds -> Nat]
  BY DEF TypeInv, TypeOK
<1>2. CASE EnsureRunning(c) /\ UNCHANGED faults
  BY <1>1, <1>2, EnsureRunningTypes
<1>3. CASE Fails("emit") /\ UNCHANGED <<registry, pc>>
  BY <1>1, <1>3, FaultTypes
<1>4. QED
  BY <1>2, <1>3 DEF EmitThenEnsureRunning

LEMMA TypeInvRequest ==
    ASSUME TypeInv, Request
    PROVE  TypeInv'
<1> USE DEF TypeInv, TypeOK, AttemptsLeft, leadVars, loopVars, histVars, CampaignStates
<1>1. ASSUME NEW c \in Campaigns, Authorize(c)
      PROVE  TypeInv'
  <2>1. /\ registry' \in [Campaigns -> Drives \cup {None}]
        /\ pc' \in [Campaigns -> [Drives -> Pcs]]
        /\ faults' \in [FaultKinds -> Nat]
    BY <1>1, EmitTypes DEF Authorize
  <2>2. QED
    BY <1>1, <2>1 DEF Authorize
<1>2. ASSUME NEW c \in Campaigns, Resume(c)
      PROVE  TypeInv'
  <2>1. /\ registry' \in [Campaigns -> Drives \cup {None}]
        /\ pc' \in [Campaigns -> [Drives -> Pcs]]
        /\ faults' \in [FaultKinds -> Nat]
    BY <1>2, EnsureRunningTypes, EmitTypes DEF Resume
  <2>2. /\ camp' \in [Campaigns -> CampaignStates]
        /\ autopaused' \in [Campaigns -> BOOLEAN]
    BY <1>2 DEF Resume
  <2>3. QED
    BY <1>2, <2>1, <2>2 DEF Resume
<1>3. ASSUME NEW c \in Campaigns, Pause(c) \/ Autopause(c)
      PROVE  TypeInv'
  BY <1>3 DEF Pause, Autopause
<1>4. CASE EmergencyStop
  <2>1. faults' \in [FaultKinds -> Nat]
    BY <1>4, FaultTypes DEF EmergencyStop
  <2>2. camp' \in [Campaigns -> {"absent", "running", "paused", "completed"}]
    BY <1>4 DEF EmergencyStop
  <2>3. QED
    BY <1>4, <2>1, <2>2 DEF EmergencyStop
<1>5. CASE ClearEmergencyStop
  BY <1>5 DEF ClearEmergencyStop
<1>6. QED
  BY <1>1, <1>2, <1>3, <1>4, <1>5 DEF Request

LEMMA TypeInvEnvironment ==
    ASSUME TypeInv, Environment
    PROVE  TypeInv'
<1> USE DEF TypeInv, TypeOK, AttemptsLeft, dbVars, leadVars, loopVars, histVars
<1>1. CASE Crash
  <2>1. faults' \in [FaultKinds -> Nat]
    BY <1>1, FaultTypes DEF Crash
  <2>2. pc' \in [Campaigns -> [Drives -> Pcs]]
    BY <1>1 DEF Crash, Pcs
  <2>3. /\ registry' \in [Campaigns -> Drives \cup {None}]
        /\ limiter' \in [Campaigns -> [Drives -> Nat]]
    BY <1>1 DEF Crash
  <2>4. QED
    BY <1>1, <2>1, <2>2, <2>3 DEF Crash
<1>2. CASE WindowOpens \/ WindowCloses
  <2>1. open' \in BOOLEAN
    BY <1>2 DEF WindowOpens, WindowCloses
  <2>2. UNCHANGED <<camp, autopaused, stopped, leadState, attempts, outcome, waiting,
                    registry, pc, limiter, tasks, recent, dials, optedOut, faults>>
    BY <1>2 DEF WindowOpens, WindowCloses
  <2>3. QED
    BY <2>1, <2>2
<1>3. ASSUME NEW l \in Leads, BackoffElapses(l)
      PROVE  TypeInv'
  BY <1>3 DEF BackoffElapses
<1>4. ASSUME NEW c \in Campaigns, DialAges(c)
      PROVE  TypeInv'
  <2>1. /\ recent' \in [Campaigns -> Nat]
        /\ limiter' \in [Campaigns -> [Drives -> Nat]]
    BY <1>4 DEF DialAges
  <2>2. QED
    BY <1>4, <2>1 DEF DialAges
<1>5. ASSUME NEW c \in Campaigns, NEW d \in Drives, RunnerFault(c, d)
      PROVE  TypeInv'
  <2>1. tasks' \in SUBSET Task
    <3>1. \A t \in Task : [t EXCEPT !.drive = None] \in Task
      BY DEF Task
    <3>2. QED
      BY <1>5, <3>1 DEF RunnerFault
  <2>2. faults' \in [FaultKinds -> Nat]
    BY <1>5, FaultTypes DEF RunnerFault
  <2>3. QED
    BY <1>5, <2>1, <2>2, LeaveTypes DEF RunnerFault
<1>6. QED
  BY <1>1, <1>2, <1>3, <1>4, <1>5 DEF Environment

LEMMA InitTypeInv == Init => TypeInv
<1> SUFFICES ASSUME Init PROVE TypeInv
  OBVIOUS
<1>1. /\ camp \in [Campaigns -> CampaignStates]
      /\ leadState \in [Leads -> LeadStates]
      /\ attempts \in [Leads -> {0} \cup AttemptNumbers]
      /\ outcome \in [Leads -> {"none"} \cup Outcomes]
  BY DEF Init, CampaignStates, LeadStates
<1>2. /\ registry \in [Campaigns -> Drives \cup {None}]
      /\ limiter \in [Campaigns -> [Drives -> Nat]]
      /\ recent \in [Campaigns -> Nat]
      /\ dials \in [Leads -> [AttemptNumbers -> Nat]]
  BY DEF Init
<1>3. pc \in [Campaigns -> [Drives -> Pcs]]
  BY DEF Init, Pcs
<1>4. autopaused \in [Campaigns -> BOOLEAN] /\ stopped \in BOOLEAN /\ open \in BOOLEAN
  BY DEF Init
<1>5. /\ waiting \in SUBSET Leads
      /\ tasks \in SUBSET Task
      /\ optedOut \in SUBSET Leads
      /\ faults \in [FaultKinds -> Nat]
  BY DEF Init
<1>6. AttemptsLeft
  BY DEF Init, AttemptsLeft
<1>7. QED
  BY <1>1, <1>2, <1>3, <1>4, <1>5, <1>6 DEF TypeInv, TypeOK

LEMMA NextKeepsTypeInv == TypeInv /\ [Next]_vars => TypeInv'
<1>1. TypeInv /\ UNCHANGED vars => TypeInv'
  BY DEF vars, TypeInv, TypeOK, AttemptsLeft
<1>2. QED
  BY <1>1, TypeInvRequest, TypeInvRunnerStep, TypeInvCallStep, TypeInvEnvironment DEF Next

\* Type correctness, and with it the attempt cap: no lead is claimed more often
\* than the envelope allows.
THEOREM TypeCorrect == Spec => []TypeOK
<1>1. TypeInv => TypeOK
  BY DEF TypeInv
<1>2. QED
  BY <1>1, InitTypeInv, NextKeepsTypeInv, PTL DEF Spec

-----------------------------------------------------------------------------
(***************************************************************************)
(* Calls.  As long as no exception escapes the dispatch loop, a call in    *)
(* flight belongs to the live loop of its campaign, and that loop has      *)
(* passed its recovery; so recovery never finds a lead that is on a call,  *)
(* a claim never takes one, and what a call saves is never stale.          *)
(***************************************************************************)

Started == {"loop", "wait", "ready", "drain", "sleepHours", "sleepRate", "sleepRetry"}

CallsHaveStartedLoops ==
    LoopsNeverFailed => \A t \in tasks : pc[CampaignOf[t.lead]][t.drive] \in Started

CallInv ==
    /\ CallsAreOwned
    /\ CallsHaveStartedLoops
    /\ OneCallPerLead
    /\ CompletedIsSettled

SafeInv == TypeInv /\ LoopInv /\ CallInv

\* Before the first exception in a loop; the lemmas on steps start from here.
Inv == SafeInv /\ LoopsNeverFailed

\* What the types say about a call that has an owner.
LEMMA CallTypes ==
    ASSUME Inv, NEW t \in tasks
    PROVE  /\ t.lead \in Leads
           /\ CampaignOf[t.lead] \in Campaigns
           /\ t.drive \in Drives
           /\ t.drive = registry[CampaignOf[t.lead]]
           /\ leadState[t.lead] = "dialing"
           /\ t.attempt = attempts[t.lead]
           /\ pc[CampaignOf[t.lead]][t.drive] \in Started
BY OrchestratorAssumption
   DEF Inv, SafeInv, TypeInv, TypeOK, Task, CallInv, CallsAreOwned, CallsHaveStartedLoops

\* A step that touches no call, no lead and no registry keeps CallInv, if it
\* completes no campaign and neither ends a started loop nor sends it back.
LEMMA QuietKeepsCallInv ==
    ASSUME Inv, UNCHANGED <<leadState, attempts, tasks, registry>>,
           \A c \in Campaigns : camp'[c] = "completed" => camp[c] = "completed",
           \A c \in Campaigns, d \in Drives : pc[c][d] \in Started => pc'[c][d] \in Started
    PROVE  CallInv'
<1>1. CallsAreOwned' /\ OneCallPerLead' /\ CompletedIsSettled'
  BY DEF Inv, SafeInv, CallInv, CallsAreOwned, OneCallPerLead, CompletedIsSettled
<1>2. CallsHaveStartedLoops'
  BY CallTypes DEF CallsHaveStartedLoops
<1>3. QED
  BY <1>1, <1>2 DEF CallInv

\* The live loop of a campaign owns all the calls of the campaign.
LEMMA OwnIsAll ==
    ASSUME Inv, NEW c \in Campaigns, NEW d \in Drives, pc[c][d] # "none"
    PROVE  Own(c, d) = {t \in tasks : CampaignOf[t.lead] = c}
<1>1. registry[c] = d
  BY DEF Inv, SafeInv, LoopInv, RegistryNamesLoop
<1>2. QED
  BY <1>1, CallTypes DEF Own

\* A loop may go on waiting, sleeping or looping without touching the calls.
LEMMA MoveKeepsCallInv ==
    ASSUME Inv, NEW c \in Campaigns, NEW d \in Drives, NEW p \in Started,
           GoTo(c, d, p), UNCHANGED <<camp, leadState, attempts, tasks, registry>>
    PROVE  CallInv'
<1>1. pc \in [Campaigns -> [Drives -> Pcs]]
  BY DEF Inv, SafeInv, LoopInv, LoopTypes
<1>2. \A b \in Campaigns, e \in Drives : pc[b][e] \in Started => pc'[b][e] \in Started
  BY <1>1 DEF GoTo
<1>3. QED
  BY <1>2, QuietKeepsCallInv

\* A loop that ends leaves no call behind, whether it completes its campaign or not.
LEMMA ExitKeepsCallInv ==
    ASSUME Inv, NEW c \in Campaigns, NEW d \in Drives, pc[c][d] # "none",
           Exit(c, d), Own(c, d) = {}, UNCHANGED <<leadState, attempts, tasks>>,
           \A b \in Campaigns : camp'[b] = "completed" =>
              \/ camp[b] = "completed"
              \/ b = c /\ ~HasUnfinished(c)
    PROVE  CallInv'
<1>1. \A t \in tasks : CampaignOf[t.lead] # c
  BY OwnIsAll
<1>2. pc \in [Campaigns -> [Drives -> Pcs]] /\ registry \in [Campaigns -> Drives \cup {None}]
  BY DEF Inv, SafeInv, LoopInv, LoopTypes
<1>3. \A b \in Campaigns : b # c => registry'[b] = registry[b] /\ pc'[b] = pc[b]
  BY <1>2 DEF Exit, GoTo
<1>4. CallsAreOwned' /\ CallsHaveStartedLoops'
  BY <1>1, <1>3, CallTypes, OrchestratorAssumption DEF CallsAreOwned, CallsHaveStartedLoops
<1>5. OneCallPerLead'
  BY DEF Inv, SafeInv, CallInv, OneCallPerLead
<1>6. CompletedIsSettled'
  <2>1. ~HasUnfinished(c) => \A l \in LeadsOf(c) : leadState[l] = "done"
    BY DEF HasUnfinished
  <2>2. QED
    BY <1>1, <2>1 DEF Inv, SafeInv, CallInv, CompletedIsSettled, LeadsOf
<1>7. QED
  BY <1>4, <1>5, <1>6 DEF CallInv

\* Recovery: a loop that has not started has no calls, so each interrupted lead
\* gets exactly one.
LEMMA StartKeepsCallInv ==
    ASSUME Inv, NEW c \in Campaigns, NEW d \in Drives, Start(c, d)
    PROVE  CallInv'
<1>1. registry[c] = d /\ pc[c][d] = "spawned"
  BY DEF Start, Inv, SafeInv, LoopInv, RegistryNamesLoop
<1>2. \A t \in tasks : CampaignOf[t.lead] # c
  BY <1>1, CallTypes DEF Started
<1>3. tasks' = tasks \cup {NewTask(l, attempts[l], d) : l \in Interrupted(c)}
  BY DEF Start
<1>4. \A l \in Interrupted(c) : l \in Leads /\ CampaignOf[l] = c /\ leadState[l] = "dialing"
  BY DEF Interrupted, LeadsOf
<1>5. \A l \in Interrupted(c) :
         /\ NewTask(l, attempts[l], d).lead = l
         /\ NewTask(l, attempts[l], d).attempt = attempts[l]
         /\ NewTask(l, attempts[l], d).drive = d
  BY DEF NewTask
<1>6. UNCHANGED <<camp, leadState, attempts, registry>>
  BY DEF Start, dbVars
<1>7. pc \in [Campaigns -> [Drives -> Pcs]]
  BY DEF Inv, SafeInv, LoopInv, LoopTypes
<1>8. pc'[c][d] = "loop" /\ \A b \in Campaigns : b # c => pc'[b] = pc[b]
  BY <1>7 DEF Start, GoTo
<1>9. CallsAreOwned'
  BY <1>1, <1>3, <1>4, <1>5, <1>6, CallTypes, OrchestratorAssumption DEF CallsAreOwned
<1>10. CallsHaveStartedLoops'
  BY <1>2, <1>3, <1>4, <1>5, <1>8, CallTypes DEF CallsHaveStartedLoops, Started
<1>11. OneCallPerLead'
  BY <1>2, <1>3, <1>4, <1>5 DEF Inv, SafeInv, CallInv, OneCallPerLead
<1>12. CompletedIsSettled'
  <2>1. \A l \in Interrupted(c) : camp[CampaignOf[l]] # "completed"
    BY <1>4 DEF Inv, SafeInv, CallInv, CompletedIsSettled, LeadsOf
  <2>2. QED
    BY <1>3, <1>4, <1>5, <1>6, <2>1 DEF Inv, SafeInv, CallInv, CompletedIsSettled
<1>13. QED
  BY <1>9, <1>10, <1>11, <1>12 DEF CallInv

\* A claimed lead is on no call.
LEMMA ClaimKeepsCallInv ==
    ASSUME Inv, NEW c \in Campaigns, NEW d \in Drives, NEW l \in Leads,
           Claim(c, d, l)
    PROVE  CallInv'
<1> DEFINE n == NewTask(l, attempts[l] + 1, d)
<1>1. /\ leadState[l] \in {"queued", "retry"}
      /\ CampaignOf[l] = c
      /\ pc[c][d] = "loop"
      /\ camp[c] = "running"
  BY DEF Claim, Eligible, LeadsOf, MayDial, Working, Halted
<1>2. registry[c] = d
  BY <1>1 DEF Inv, SafeInv, LoopInv, RegistryNamesLoop
<1>3. n.lead = l /\ n.attempt = attempts[l] + 1 /\ n.drive = d
  BY DEF NewTask
<1>4. /\ tasks' = tasks \cup {n}
      /\ leadState' = [leadState EXCEPT ![l] = "dialing"]
      /\ attempts' = [attempts EXCEPT ![l] = @ + 1]
      /\ UNCHANGED <<camp, registry, pc>>
  BY DEF Claim
<1>5. \A t \in tasks : t.lead # l
  BY <1>1, CallTypes
<1>6. leadState \in [Leads -> LeadStates] /\ DOMAIN attempts = Leads
  BY DEF Inv, SafeInv, TypeInv, TypeOK
<1>7. leadState'[l] = "dialing" /\ attempts'[l] = attempts[l] + 1
  BY <1>4, <1>6
<1>8. \A k \in Leads : k # l => leadState'[k] = leadState[k] /\ attempts'[k] = attempts[k]
  BY <1>4, <1>6
<1>9. CallsAreOwned'
  BY <1>1, <1>2, <1>3, <1>4, <1>5, <1>7, <1>8, CallTypes, OrchestratorAssumption
     DEF CallsAreOwned
<1>10. CallsHaveStartedLoops'
  BY <1>1, <1>3, <1>4, CallTypes DEF CallsHaveStartedLoops, Started
<1>11. OneCallPerLead'
  BY <1>3, <1>4, <1>5 DEF Inv, SafeInv, CallInv, OneCallPerLead
<1>12. CompletedIsSettled'
  BY <1>1, <1>3, <1>4, <1>8 DEF Inv, SafeInv, CallInv, CompletedIsSettled, LeadsOf
<1>13. QED
  BY <1>9, <1>10, <1>11, <1>12 DEF CallInv

LEMMA RunnerStepKeepsCallInv ==
    ASSUME Inv, NEW c \in Campaigns, NEW d \in Drives, RunnerStep(c, d)
    PROVE  CallInv'
<1> USE DEF dbVars, leadVars
<1>1. \A p : p \in {"loop", "wait", "ready", "drain", "sleepHours", "sleepRate", "sleepRetry"}
              => p \in Started
  BY DEF Started
<1>2. CASE Start(c, d)
  BY <1>2, StartKeepsCallInv
<1>3. CASE \E l \in Leads : Claim(c, d, l)
  BY <1>3, ClaimKeepsCallInv
<1>4. CASE StopDispatch(c, d)
  BY <1>1, <1>4, MoveKeepsCallInv, ExitKeepsCallInv DEF StopDispatch, Leave
<1>5. CASE Complete(c, d)
  <2>1. Own(c, d) = {} /\ ~HasUnfinished(c) /\ pc[c][d] # "none"
    BY <1>5 DEF Complete
  <2>2. Exit(c, d)
    BY <1>5, <2>1 DEF Complete, Leave
  <2>3. \A b \in Campaigns : camp'[b] = "completed" => camp[b] = "completed" \/ b = c
    BY <1>5 DEF Complete, Inv, SafeInv, TypeInv, TypeOK
  <2>4. QED
    BY <1>5, <2>1, <2>2, <2>3, ExitKeepsCallInv DEF Complete
<1>6. CASE AwaitWindow(c, d)
  BY <1>1, <1>6, MoveKeepsCallInv DEF AwaitWindow
<1>7. CASE AwaitCall(c, d)
  BY <1>1, <1>7, MoveKeepsCallInv DEF AwaitCall
<1>8. CASE AwaitRate(c, d)
  BY <1>1, <1>8, MoveKeepsCallInv DEF AwaitRate
<1>9. CASE AwaitWork(c, d)
  <2>1. pc[c][d] # "none"
    BY <1>9 DEF AwaitWork, MayDial, Working
  <2>2. QED
    BY <1>1, <1>9, <2>1, MoveKeepsCallInv, ExitKeepsCallInv DEF AwaitWork
<1>10. CASE WakeUp(c, d)
  BY <1>1, <1>10, MoveKeepsCallInv DEF WakeUp
<1>11. CASE Drained(c, d)
  BY <1>1, <1>11, MoveKeepsCallInv, ExitKeepsCallInv DEF Drained, Leave
<1>12. QED
  BY <1>2, <1>3, <1>4, <1>5, <1>6, <1>7, <1>8, <1>9, <1>10, <1>11 DEF RunnerStep

\* The end of a call touches its own lead only, and no other call is on it.
LEMMA CallStepKeepsCallInv ==
    ASSUME Inv, CallStep
    PROVE  CallInv'
<1>1. PICK t \in tasks, o \in Outcomes : CallReturns(t, o) \/ SaveFails(t, o)
  BY DEF CallStep
<1> DEFINE k == CampaignOf[t.lead]
<1>2. t.lead \in Leads /\ k \in Campaigns /\ camp[k] # "completed"
  BY <1>1, CallTypes DEF Inv, SafeInv, CallInv, CompletedIsSettled
<1>3. tasks' = tasks \ {t} /\ UNCHANGED <<camp, registry>>
  BY <1>1 DEF CallReturns, SaveFails, EndTask, dbVars
<1>4. \A u \in tasks' : u \in tasks /\ u.lead # t.lead
  BY <1>1, <1>3 DEF Inv, SafeInv, CallInv, OneCallPerLead
<1>5. leadState \in [Leads -> LeadStates] /\ DOMAIN attempts = Leads
  BY DEF Inv, SafeInv, TypeInv, TypeOK
<1>6. \A l \in Leads : l # t.lead => leadState'[l] = leadState[l] /\ attempts'[l] = attempts[l]
  BY <1>1, <1>5 DEF CallReturns, SaveFails, dbVars
<1>7. \A c \in Campaigns, d \in Drives : pc[c][d] \in Started => pc'[c][d] \in Started
  <2>1. pc \in [Campaigns -> [Drives -> Pcs]]
    BY DEF Inv, SafeInv, LoopInv, LoopTypes
  <2>2. pc' = pc \/ pc' = [pc EXCEPT ![k][t.drive] = "ready"]
    BY <1>1 DEF CallReturns, SaveFails, EndTask
  <2>3. "ready" \in Started
    BY DEF Started
  <2>4. QED
    BY <2>1, <2>2, <2>3
<1>8. CallsAreOwned'
  BY <1>3, <1>4, <1>6, CallTypes, OrchestratorAssumption DEF CallsAreOwned
<1>9. CallsHaveStartedLoops'
  BY <1>4, <1>7, CallTypes DEF CallsHaveStartedLoops
<1>10. OneCallPerLead'
  BY <1>4 DEF Inv, SafeInv, CallInv, OneCallPerLead
<1>11. CompletedIsSettled'
  BY <1>2, <1>3, <1>4, <1>6 DEF Inv, SafeInv, CallInv, CompletedIsSettled, LeadsOf
<1>12. QED
  BY <1>8, <1>9, <1>10, <1>11 DEF CallInv

\* A request neither completes a campaign nor disturbs a loop that has started.
LEMMA RequestKeepsCallInv ==
    ASSUME Inv, Request
    PROVE  CallInv'
<1> USE DEF leadVars, loopVars
<1>1. camp \in [Campaigns -> CampaignStates]
  BY DEF Inv, SafeInv, TypeInv, TypeOK
<1>2. \A c \in Campaigns :
         EnsureRunning(c) /\ UNCHANGED <<leadState, attempts, tasks>> /\
         (\A b \in Campaigns : camp'[b] = "completed" => camp[b] = "completed")
         => CallInv'
  <2> SUFFICES ASSUME NEW c \in Campaigns, EnsureRunning(c),
                      UNCHANGED <<leadState, attempts, tasks>>,
                      \A b \in Campaigns : camp'[b] = "completed" => camp[b] = "completed"
               PROVE  CallInv'
    OBVIOUS
  <2>1. CASE Driven(c)
    BY <2>1, QuietKeepsCallInv DEF EnsureRunning
  <2>2. CASE ~Driven(c)
    <3>1. PICK d \in Drives : /\ pc[c][d] = "none"
                              /\ registry' = [registry EXCEPT ![c] = d]
                              /\ GoTo(c, d, "spawned")
      BY <2>2 DEF EnsureRunning
    <3>2. \A t \in tasks : CampaignOf[t.lead] # c
      BY <2>2, CallTypes, OrchestratorAssumption DEF Driven, Started
    <3>3. pc \in [Campaigns -> [Drives -> Pcs]] /\ registry \in [Campaigns -> Drives \cup {None}]
      BY DEF Inv, SafeInv, LoopInv, LoopTypes
    <3>4. \A b \in Campaigns : b # c => registry'[b] = registry[b] /\ pc'[b] = pc[b]
      BY <3>1, <3>3 DEF GoTo
    <3>5. CallsAreOwned' /\ CallsHaveStartedLoops'
      BY <3>2, <3>4, CallTypes, OrchestratorAssumption DEF CallsAreOwned, CallsHaveStartedLoops
    <3>6. OneCallPerLead' /\ CompletedIsSettled'
      BY DEF Inv, SafeInv, CallInv, OneCallPerLead, CompletedIsSettled
    <3>7. QED
      BY <3>5, <3>6 DEF CallInv
  <2>3. QED
    BY <2>1, <2>2
<1>3. ASSUME NEW c \in Campaigns, Authorize(c)
      PROVE  CallInv'
  <2>1. \A b \in Campaigns : camp'[b] = "completed" => camp[b] = "completed"
    BY <1>1, <1>3 DEF Authorize
  <2>2. QED
    BY <1>2, <1>3, <2>1, QuietKeepsCallInv DEF Authorize, EmitThenEnsureRunning
<1>4. ASSUME NEW c \in Campaigns, Resume(c)
      PROVE  CallInv'
  <2>1. \A b \in Campaigns : camp'[b] = "completed" => camp[b] = "completed"
    BY <1>1, <1>4 DEF Resume
  <2>2. QED
    BY <1>2, <1>4, <2>1, QuietKeepsCallInv DEF Resume, EmitThenEnsureRunning
<1>5. ASSUME NEW c \in Campaigns, Pause(c) \/ Autopause(c)
      PROVE  CallInv'
  <2>1. \A b \in Campaigns : camp'[b] = "completed" => camp[b] = "completed"
    BY <1>1, <1>5 DEF Pause, Autopause
  <2>2. QED
    BY <1>5, <2>1, QuietKeepsCallInv DEF Pause, Autopause
<1>6. CASE EmergencyStop
  <2>1. \A b \in Campaigns : camp'[b] = "completed" => camp[b] = "completed"
    BY <1>6 DEF EmergencyStop
  <2>2. QED
    BY <1>6, <2>1, QuietKeepsCallInv DEF EmergencyStop
<1>7. CASE ClearEmergencyStop
  BY <1>7, QuietKeepsCallInv DEF ClearEmergencyStop
<1>8. QED
  BY <1>3, <1>4, <1>5, <1>6, <1>7 DEF Request

LEMMA EnvironmentKeepsCallInv ==
    ASSUME Inv, Environment, LoopsNeverFailed'
    PROVE  CallInv'
<1> USE DEF dbVars, leadVars, loopVars
<1>1. CASE Crash
  BY <1>1 DEF Crash, Inv, SafeInv, CallInv, CallsAreOwned, CallsHaveStartedLoops,
              OneCallPerLead, CompletedIsSettled
<1>2. CASE WindowOpens \/ WindowCloses
  BY <1>2, QuietKeepsCallInv DEF WindowOpens, WindowCloses
<1>3. ASSUME NEW l \in Leads, BackoffElapses(l)
      PROVE  CallInv'
  BY <1>3, QuietKeepsCallInv DEF BackoffElapses
<1>4. ASSUME NEW c \in Campaigns, DialAges(c)
      PROVE  CallInv'
  BY <1>4, QuietKeepsCallInv DEF DialAges
<1>5. ASSUME NEW c \in Campaigns, NEW d \in Drives, RunnerFault(c, d)
      PROVE  FALSE
  <2>1. faults \in [FaultKinds -> Nat] /\ "runner" \in FaultKinds
    BY DEF Inv, SafeInv, TypeInv, TypeOK, FaultKinds
  <2>2. faults'["runner"] = faults["runner"] + 1 /\ faults["runner"] \in Nat
    BY <1>5, <2>1, FaultTypes DEF RunnerFault
  <2>3. QED
    BY <2>2 DEF LoopsNeverFailed
<1>6. QED
  BY <1>1, <1>2, <1>3, <1>4, <1>5 DEF Environment

\* Failures are never forgotten.
LEMMA FaultsGrow ==
    ASSUME TypeInv, [Next]_vars
    PROVE  \A k \in FaultKinds : faults[k] \in Nat /\ faults'[k] >= faults[k]
<1>1. faults \in [FaultKinds -> Nat]
  BY DEF TypeInv, TypeOK
<1>2. CASE UNCHANGED faults
  BY <1>1, <1>2
<1>3. ASSUME NEW k, Fails(k)
      PROVE  \A j \in FaultKinds : faults'[j] >= faults[j]
  BY <1>1, <1>3, FaultTypes
<1>4. UNCHANGED faults \/ \E k \in FaultKinds : Fails(k)
  <2> USE DEF FaultKinds
  <2>1. CASE Request
    BY <2>1 DEF Request, Authorize, Pause, Resume, Autopause, EmergencyStop,
                ClearEmergencyStop, EmitThenEnsureRunning
  <2>2. ASSUME NEW c \in Campaigns, NEW d \in Drives, RunnerStep(c, d)
        PROVE  UNCHANGED faults
    BY <2>2 DEF RunnerStep, Start, StopDispatch, Complete, AwaitWindow, AwaitCall, AwaitRate,
                Claim, AwaitWork, WakeUp, Drained
  <2>3. CASE CallStep
    BY <2>3 DEF CallStep, CallReturns, SaveFails
  <2>4. CASE Environment
    BY <2>4 DEF Environment, Crash, WindowOpens, WindowCloses, BackoffElapses, DialAges,
                RunnerFault
  <2>5. QED
    BY <2>1, <2>2, <2>3, <2>4 DEF Next, vars
<1>5. QED
  BY <1>1, <1>2, <1>3, <1>4

LEMMA NextKeepsSafeInv == SafeInv /\ [Next]_vars => SafeInv'
<1> SUFFICES ASSUME SafeInv, [Next]_vars
             PROVE  CallInv'
  BY NextKeepsTypeInv, LoopInvInductive DEF SafeInv
<1>1. CASE ~LoopsNeverFailed'
  BY <1>1 DEF CallInv, CallsAreOwned, CallsHaveStartedLoops, OneCallPerLead, CompletedIsSettled
<1>2. CASE LoopsNeverFailed'
  <2>1. "runner" \in FaultKinds
    BY DEF FaultKinds
  <2>2. Inv
    BY <1>2, <2>1, FaultsGrow DEF Inv, SafeInv, LoopsNeverFailed
  <2>3. CASE UNCHANGED vars
    BY <2>2, <2>3, QuietKeepsCallInv DEF vars
  <2>4. QED
    BY <1>2, <2>2, <2>3, RequestKeepsCallInv, RunnerStepKeepsCallInv, CallStepKeepsCallInv,
       EnvironmentKeepsCallInv DEF Next
<1>3. QED
  BY <1>1, <1>2

LEMMA InitSafeInv == Init => SafeInv
<1>1. Init => LoopInv
  BY DEF Init, LoopInv, LoopTypes, RegistryNamesLoop, Pcs
<1>2. Init => CallInv
  BY DEF Init, CallInv, CallsAreOwned, CallsHaveStartedLoops, OneCallPerLead, CompletedIsSettled
<1>3. QED
  BY <1>1, <1>2, InitTypeInv DEF SafeInv

LEMMA SafeInvariance == Spec => []SafeInv
BY InitSafeInv, NextKeepsSafeInv, PTL DEF Spec

\* No lead is ever on two calls at once: not across retries, crashes, resumes or
\* failed saves, as long as no exception escapes a dispatch loop.
THEOREM OneCall == Spec => []OneCallPerLead
<1>1. SafeInv => OneCallPerLead
  BY DEF SafeInv, CallInv
<1>2. QED
  BY <1>1, SafeInvariance, PTL

\* The state a call saves when it ends is the one its row has.
THEOREM NoStaleCall == Spec => []CallsAreOwned
<1>1. SafeInv => CallsAreOwned
  BY DEF SafeInv, CallInv
<1>2. QED
  BY <1>1, SafeInvariance, PTL

\* A completed campaign has neither an unfinished lead nor a call in flight.
THEOREM CompletionIsSound == Spec => []CompletedIsSettled
<1>1. SafeInv => CompletedIsSettled
  BY DEF SafeInv, CallInv
<1>2. QED
  BY <1>1, SafeInvariance, PTL

-----------------------------------------------------------------------------
(***************************************************************************)
(* What a finished lead and a recorded pause reason can rely on.           *)
(***************************************************************************)

Untouched(l) == UNCHANGED <<leadState[l], attempts[l], outcome[l], dials[l]>>

LEMMA RunnerStepSparesDone ==
    ASSUME Inv, NEW c \in Campaigns, NEW d \in Drives, RunnerStep(c, d),
           NEW k \in Leads, leadState[k] = "done"
    PROVE  Untouched(k)
<1> USE DEF dbVars, leadVars, histVars
<1>1. CASE Start(c, d)
  <2>1. k \notin Interrupted(c)
    BY DEF Interrupted
  <2>2. QED
    BY <1>1, <2>1 DEF Start, Untouched
<1>2. CASE \E l \in Leads : Claim(c, d, l)
  <2>1. PICK l \in Leads : Claim(c, d, l)
    BY <1>2
  <2>2. l # k
    BY <2>1 DEF Claim, Eligible
  <2>3. QED
    BY <2>1, <2>2 DEF Claim, Untouched, Inv, SafeInv, TypeInv, TypeOK
<1>3. CASE ~Start(c, d) /\ ~(\E l \in Leads : Claim(c, d, l))
  <2>1. UNCHANGED <<leadVars, dials>>
    BY <1>3 DEF RunnerStep, StopDispatch, Complete, AwaitWindow, AwaitCall, AwaitRate,
                AwaitWork, WakeUp, Drained
  <2>2. QED
    BY <2>1 DEF Untouched
<1>4. QED
  BY <1>1, <1>2, <1>3

LEMMA CallStepSparesDone ==
    ASSUME Inv, CallStep, NEW k \in Leads, leadState[k] = "done"
    PROVE  Untouched(k)
<1>1. PICK t \in tasks, o \in Outcomes : CallReturns(t, o) \/ SaveFails(t, o)
  BY DEF CallStep
<1>2. t.lead # k
  BY <1>1, CallTypes
<1>3. QED
  BY <1>1, <1>2
     DEF CallReturns, SaveFails, Untouched, dbVars, leadVars, Inv, SafeInv, TypeInv, TypeOK

LEMMA DoneIsUntouched ==
    ASSUME Inv, [Next]_vars, NEW k \in Leads, leadState[k] = "done"
    PROVE  Untouched(k)
<1> USE DEF dbVars, leadVars, histVars
<1>1. CASE UNCHANGED vars
  BY <1>1 DEF vars, Untouched
<1>2. CASE Request
  BY <1>2 DEF Request, Authorize, Pause, Resume, Autopause, EmergencyStop,
              ClearEmergencyStop, Untouched
<1>3. CASE Environment
  BY <1>3 DEF Environment, Crash, WindowOpens, WindowCloses, BackoffElapses, DialAges,
              RunnerFault, Untouched
<1>4. QED
  BY <1>1, <1>2, <1>3, RunnerStepSparesDone, CallStepSparesDone DEF Next

\* Whatever the users, the calls and the failures do, a lead that is done keeps
\* its outcome and is never dialed again.
THEOREM DoneStaysDone == Spec => DoneIsFinal
<1>1. SafeInv /\ [Next]_vars =>
        [LoopsNeverFailed => \A l \in Leads : leadState[l] = "done" =>
            UNCHANGED <<leadState[l], attempts[l], outcome[l], dials[l]>>]_vars
  BY DoneIsUntouched DEF Untouched, Inv
<1>2. QED
  BY <1>1, SafeInvariance, PTL DEF Spec, DoneIsFinal

\* An opt-out in any call makes its lead done, for good.
OptOutsAreDone == RowsNeverLost => \A l \in optedOut : leadState[l] = "done"

SafeOptOutInv == SafeInv /\ OptOutsAreDone

LEMMA RowsWereNotLost ==
    ASSUME SafeInv, [Next]_vars, RowsNeverLost'
    PROVE  Inv /\ RowsNeverLost
<1>1. "runner" \in FaultKinds /\ "save" \in FaultKinds
  BY DEF FaultKinds
<1>2. RowsNeverLost
  BY <1>1, FaultsGrow DEF SafeInv, RowsNeverLost, LoopsNeverFailed
<1>3. QED
  BY <1>2 DEF Inv, RowsNeverLost

LEMMA CallsAreSaved ==
    ASSUME Inv, NEW t, NEW o, SaveFails(t, o)
    PROVE  ~RowsNeverLost'
<1>1. faults \in [FaultKinds -> Nat] /\ "save" \in FaultKinds
  BY DEF Inv, SafeInv, TypeInv, TypeOK, FaultKinds
<1>2. faults'["save"] = faults["save"] + 1 /\ faults["save"] \in Nat
  BY <1>1, FaultTypes DEF SaveFails
<1>3. QED
  BY <1>2 DEF RowsNeverLost

LEMMA NextKeepsOptOut == SafeOptOutInv /\ [Next]_vars => SafeOptOutInv'
<1> SUFFICES ASSUME SafeOptOutInv, [Next]_vars, RowsNeverLost', NEW k \in optedOut'
             PROVE  leadState'[k] = "done"
  BY NextKeepsSafeInv DEF SafeOptOutInv, OptOutsAreDone
<1>1. Inv /\ RowsNeverLost
  BY RowsWereNotLost DEF SafeOptOutInv
<1>2. leadState \in [Leads -> LeadStates] /\ optedOut \subseteq Leads
  BY <1>1 DEF Inv, SafeInv, TypeInv, TypeOK
<1>3. CASE k \in optedOut
  <2>1. k \in Leads /\ leadState[k] = "done"
    BY <1>1, <1>2, <1>3 DEF SafeOptOutInv, OptOutsAreDone
  <2>2. QED
    BY <1>1, <2>1, DoneIsUntouched DEF Untouched
<1>4. CASE CallStep /\ k \notin optedOut
  <2>1. PICK t \in tasks, o \in Outcomes : CallReturns(t, o)
    BY <1>1, <1>4, CallsAreSaved DEF CallStep
  <2>2. o = "opted_out" /\ k = t.lead
    BY <1>4, <2>1 DEF CallReturns
  <2>3. NextLeadState(t, o) = "done"
    BY <2>2 DEF NextLeadState, Retriable
  <2>4. QED
    BY <1>1, <1>2, <2>1, <2>2, <2>3, CallTypes DEF CallReturns
<1>5. CASE optedOut' = optedOut
  BY <1>3, <1>5
<1>6. ~CallStep => optedOut' = optedOut
  <2> USE DEF histVars
  <2>1. CASE Request
    BY <2>1 DEF Request, Authorize, Pause, Resume, Autopause, EmergencyStop, ClearEmergencyStop
  <2>2. ASSUME NEW c \in Campaigns, NEW d \in Drives, RunnerStep(c, d)
        PROVE  optedOut' = optedOut
    BY <2>2 DEF RunnerStep, Start, StopDispatch, Complete, AwaitWindow, AwaitCall, AwaitRate,
                Claim, AwaitWork, WakeUp, Drained
  <2>3. CASE Environment
    BY <2>3 DEF Environment, Crash, WindowOpens, WindowCloses, BackoffElapses, DialAges,
                RunnerFault
  <2>4. QED
    BY <2>1, <2>2, <2>3 DEF Next, vars
<1>7. QED
  BY <1>3, <1>4, <1>5, <1>6

\* Until a save or a loop fails, a lead that opted out is never dialed again: not
\* by a retry, nor by the recovery after a crash.
THEOREM OptOutsAreFinal == Spec => OptedOutNeverRedialed
<1>1. Init => SafeOptOutInv
  BY InitSafeInv DEF Init, SafeOptOutInv, OptOutsAreDone
<1>2. SafeOptOutInv /\ [Next]_vars =>
        [RowsNeverLost => \A l \in optedOut : UNCHANGED dials[l]]_vars
  <2> SUFFICES ASSUME SafeOptOutInv, [Next]_vars, RowsNeverLost, NEW l \in optedOut
               PROVE  UNCHANGED dials[l]
    OBVIOUS
  <2>1. Inv
    BY DEF SafeOptOutInv, Inv, RowsNeverLost
  <2>2. l \in Leads /\ leadState[l] = "done"
    BY <2>1 DEF SafeOptOutInv, OptOutsAreDone, Inv, SafeInv, TypeInv, TypeOK
  <2>3. QED
    BY <2>1, <2>2, DoneIsUntouched DEF Untouched
<1>3. QED
  BY <1>1, <1>2, NextKeepsOptOut, PTL DEF Spec, OptedOutNeverRedialed

\* A campaign that carries an auto-pause reason is paused, under every failure.
THEOREM AutopauseReasonIsKept == Spec => []AutopauseExplainsPause
<1> DEFINE P == TypeInv /\ AutopauseExplainsPause
<1>1. Init => P
  BY InitTypeInv DEF Init, AutopauseExplainsPause
<1>2. P /\ [Next]_vars => P'
  <2> SUFFICES ASSUME TypeInv, AutopauseExplainsPause, [Next]_vars
               PROVE  AutopauseExplainsPause'
    BY NextKeepsTypeInv
  <2> USE DEF AutopauseExplainsPause, dbVars, leadVars
  <2>0. camp \in [Campaigns -> CampaignStates] /\ autopaused \in [Campaigns -> BOOLEAN]
    BY DEF TypeInv, TypeOK
  <2>1. CASE UNCHANGED <<camp, autopaused>>
    BY <2>1
  <2>2. CASE Request
    BY <2>0, <2>1, <2>2 DEF Request, Authorize, Pause, Resume, Autopause, EmergencyStop,
                            ClearEmergencyStop
  <2>3. ASSUME NEW c \in Campaigns, NEW d \in Drives, RunnerStep(c, d)
        PROVE  AutopauseExplainsPause'
    <3>1. CASE Complete(c, d)
      BY <2>0, <3>1 DEF Complete, Halted
    <3>2. CASE ~Complete(c, d)
      BY <2>1, <2>3, <3>2 DEF RunnerStep, Start, StopDispatch, AwaitWindow, AwaitCall,
                              AwaitRate, Claim, AwaitWork, WakeUp, Drained
    <3>3. QED
      BY <3>1, <3>2
  <2>4. CASE CallStep
    BY <2>1, <2>4 DEF CallStep, CallReturns, SaveFails
  <2>5. CASE Environment
    BY <2>1, <2>5 DEF Environment, Crash, WindowOpens, WindowCloses, BackoffElapses,
                      DialAges, RunnerFault
  <2>6. QED
    BY <2>1, <2>2, <2>3, <2>4, <2>5 DEF Next, vars
<1>3. P => AutopauseExplainsPause
  OBVIOUS
<1>4. QED
  BY <1>1, <1>2, <1>3, PTL DEF Spec

-----------------------------------------------------------------------------
(***************************************************************************)
(* Dials.  While the process lives and every outcome is saved, a lead that *)
(* is DIALING is on a call, so recovery has nothing to do and every dial   *)
(* is a claim: once per attempt, past every gate of the loop.              *)
(***************************************************************************)

DialingIsOnCall == \A l \in Leads : leadState[l] = "dialing" => \E t \in tasks : t.lead = l

DialsFollowAttempts ==
    \A l \in Leads, a \in AttemptNumbers :
        dials[l][a] = IF a <= attempts[l] THEN 1 ELSE 0

SafeDialInv == SafeInv /\ (NothingFailed => DialingIsOnCall /\ DialsFollowAttempts)

\* Before the first failure of that kind.
DialInv == Inv /\ NothingFailed /\ DialingIsOnCall /\ DialsFollowAttempts

LEMMA NothingToRecover ==
    ASSUME DialInv, NEW c \in Campaigns, NEW d \in Drives, Start(c, d)
    PROVE  Interrupted(c) = {}
<1>1. registry[c] = d /\ pc[c][d] = "spawned"
  BY DEF Start, DialInv, Inv, SafeInv, LoopInv, RegistryNamesLoop
<1>2. \A t \in tasks : CampaignOf[t.lead] # c
  BY <1>1, CallTypes DEF Started, DialInv
<1>3. QED
  BY <1>2 DEF Interrupted, LeadsOf, DialInv, DialingIsOnCall

LEMMA ClaimKeepsDialInv ==
    ASSUME DialInv, NEW c \in Campaigns, NEW d \in Drives, NEW l \in Leads,
           Claim(c, d, l)
    PROVE  DialingIsOnCall' /\ DialsFollowAttempts'
<1>1. /\ attempts \in [Leads -> {0} \cup AttemptNumbers]
      /\ dials \in [Leads -> [AttemptNumbers -> Nat]]
      /\ leadState \in [Leads -> LeadStates]
  BY DEF DialInv, Inv, SafeInv, TypeInv, TypeOK
<1>2. /\ leadState' = [leadState EXCEPT ![l] = "dialing"]
      /\ attempts' = [attempts EXCEPT ![l] = @ + 1]
      /\ dials' = [dials EXCEPT ![l][attempts[l] + 1] = @ + 1]
      /\ tasks' = tasks \cup {NewTask(l, attempts[l] + 1, d)}
  BY DEF Claim
<1>3. NewTask(l, attempts[l] + 1, d).lead = l
  BY DEF NewTask
<1>4. DialingIsOnCall'
  BY <1>1, <1>2, <1>3 DEF DialInv, DialingIsOnCall
<1>5. AttemptNumbers \subseteq Nat \ {0} /\ attempts[l] \in Nat
  BY <1>1, OrchestratorAssumption DEF AttemptNumbers
<1>6. \A k \in Leads, a \in AttemptNumbers :
         dials'[k][a] = IF a <= attempts'[k] THEN 1 ELSE 0
  <2> SUFFICES ASSUME NEW k \in Leads, NEW a \in AttemptNumbers
               PROVE  dials'[k][a] = IF a <= attempts'[k] THEN 1 ELSE 0
    OBVIOUS
  <2>1. dials[k][a] = IF a <= attempts[k] THEN 1 ELSE 0
    BY DEF DialInv, DialsFollowAttempts
  <2>2. CASE k # l
    BY <1>1, <1>2, <2>1, <2>2
  <2>3. CASE k = l /\ a = attempts[l] + 1
    <3>1. dials[l][a] = 0 /\ dials'[l][a] = dials[l][a] + 1 /\ attempts'[l] = a
      BY <1>1, <1>2, <1>5, <2>1, <2>3
    <3>2. QED
      BY <1>5, <2>3, <3>1
  <2>4. CASE k = l /\ a # attempts[l] + 1
    <3>1. dials'[l][a] = dials[l][a] /\ attempts'[l] = attempts[l] + 1
      BY <1>1, <1>2, <2>4
    <3>2. a \in Nat /\ (a <= attempts[l] + 1 <=> a <= attempts[l])
      BY <1>5, <2>4
    <3>3. QED
      BY <2>1, <2>4, <3>1, <3>2
  <2>5. QED
    BY <2>2, <2>3, <2>4
<1>7. QED
  BY <1>4, <1>6 DEF DialsFollowAttempts

LEMMA StillNothingFailed ==
    ASSUME DialInv, NothingFailed', NEW k \in {"crash", "save", "runner"}
    PROVE  ~Fails(k)
<1>1. faults \in [FaultKinds -> Nat] /\ k \in FaultKinds
  BY DEF DialInv, Inv, SafeInv, TypeInv, TypeOK, FaultKinds
<1>2. Fails(k) => faults'[k] = faults[k] + 1 /\ faults[k] \in Nat
  BY <1>1, FaultTypes
<1>3. faults'[k] = 0
  BY DEF NothingFailed, RowsNeverLost, LoopsNeverFailed
<1>4. QED
  BY <1>2, <1>3

LEMMA CallStepKeepsDialInv ==
    ASSUME DialInv, CallStep, NothingFailed'
    PROVE  DialingIsOnCall' /\ DialsFollowAttempts'
<1>1. PICK t \in tasks, o \in Outcomes : CallReturns(t, o) \/ SaveFails(t, o)
  BY DEF CallStep
<1>2. CallReturns(t, o)
  BY <1>1, StillNothingFailed DEF SaveFails
<1>3. t.lead \in Leads /\ t.attempt = attempts[t.lead]
  BY <1>1, CallTypes DEF DialInv
<1>4. /\ attempts \in [Leads -> {0} \cup AttemptNumbers]
      /\ leadState \in [Leads -> LeadStates]
  BY DEF DialInv, Inv, SafeInv, TypeInv, TypeOK
<1>5. attempts' = attempts /\ dials' = dials
  BY <1>2, <1>3, <1>4 DEF CallReturns
<1>6. /\ leadState' = [leadState EXCEPT ![t.lead] = NextLeadState(t, o)]
      /\ tasks' = tasks \ {t}
      /\ NextLeadState(t, o) # "dialing"
  BY <1>2 DEF CallReturns, EndTask, NextLeadState
<1>7. DialingIsOnCall'
  BY <1>3, <1>4, <1>6 DEF DialInv, DialingIsOnCall
<1>8. QED
  BY <1>5, <1>7 DEF DialInv, DialsFollowAttempts

LEMMA NextKeepsSafeDialInv == SafeDialInv /\ [Next]_vars => SafeDialInv'
<1> SUFFICES ASSUME SafeDialInv, [Next]_vars, NothingFailed'
             PROVE  DialingIsOnCall' /\ DialsFollowAttempts'
  BY NextKeepsSafeInv DEF SafeDialInv
<1>0. DialInv
  <2>1. {"crash", "save", "runner"} \subseteq FaultKinds
    BY DEF FaultKinds
  <2>2. NothingFailed
    BY <2>1, FaultsGrow DEF SafeDialInv, SafeInv, NothingFailed, RowsNeverLost, LoopsNeverFailed
  <2>3. QED
    BY <2>2 DEF SafeDialInv, DialInv, Inv, NothingFailed, RowsNeverLost
<1> USE DEF dbVars, leadVars, loopVars, histVars
<1>1. CASE UNCHANGED <<leadState, attempts, tasks, dials>>
  BY <1>0, <1>1 DEF DialInv, DialingIsOnCall, DialsFollowAttempts
<1>2. CASE Request
  BY <1>1, <1>2 DEF Request, Authorize, Pause, Resume, Autopause, EmergencyStop,
                    ClearEmergencyStop
<1>3. ASSUME NEW c \in Campaigns, NEW d \in Drives, RunnerStep(c, d)
      PROVE  DialingIsOnCall' /\ DialsFollowAttempts'
  <2>1. CASE Start(c, d)
    <3>1. Interrupted(c) = {}
      BY <1>0, <2>1, NothingToRecover
    <3>2. tasks' = tasks /\ dials' = dials
      BY <1>0, <2>1, <3>1 DEF Start, DialInv, Inv, SafeInv, TypeInv, TypeOK
    <3>3. QED
      BY <1>1, <2>1, <3>2 DEF Start
  <2>2. CASE \E l \in Leads : Claim(c, d, l)
    BY <1>0, <2>2, ClaimKeepsDialInv
  <2>3. CASE ~Start(c, d) /\ ~(\E l \in Leads : Claim(c, d, l))
    BY <1>1, <1>3, <2>3
       DEF RunnerStep, StopDispatch, Complete, AwaitWindow, AwaitCall, AwaitRate,
           AwaitWork, WakeUp, Drained
  <2>4. QED
    BY <2>1, <2>2, <2>3
<1>4. CASE CallStep
  BY <1>0, <1>4, CallStepKeepsDialInv
<1>5. CASE Environment
  <2>1. ~Crash /\ ~(\E c \in Campaigns, d \in Drives : RunnerFault(c, d))
    BY <1>0, StillNothingFailed DEF Crash, RunnerFault
  <2>2. QED
    BY <1>1, <1>5, <2>1 DEF Environment, WindowOpens, WindowCloses, BackoffElapses, DialAges
<1>6. QED
  BY <1>1, <1>2, <1>3, <1>4, <1>5 DEF Next, vars

LEMMA InitSafeDialInv == Init => SafeDialInv
<1> SUFFICES ASSUME Init PROVE DialingIsOnCall /\ DialsFollowAttempts
  BY InitSafeInv DEF SafeDialInv
<1>1. AttemptNumbers \subseteq Nat \ {0}
  BY OrchestratorAssumption DEF AttemptNumbers
<1>2. QED
  BY <1>1 DEF Init, DialingIsOnCall, DialsFollowAttempts

LEMMA DialInvariance == Spec => []SafeDialInv
BY InitSafeDialInv, NextKeepsSafeDialInv, PTL DEF Spec

\* Until a crash, a failed save or a failed loop, an attempt that was claimed is
\* dialed once.
THEOREM DialedOnce == Spec => []OneDialPerAttempt
<1>1. SafeDialInv => OneDialPerAttempt
  BY DEF SafeDialInv, DialsFollowAttempts, OneDialPerAttempt
<1>2. QED
  BY <1>1, DialInvariance, PTL

\* Every dial is a claim, behind the kill switch and the calling hours.
LEMMA DialsAreClaims ==
    ASSUME DialInv, Next
    PROVE  \/ UNCHANGED dials
           \/ /\ open
              /\ \A l \in Leads : camp[CampaignOf[l]] # "running" \/ stopped => UNCHANGED dials[l]
<1> USE DEF dbVars, leadVars, loopVars, histVars
<1>1. CASE Request
  BY <1>1 DEF Request, Authorize, Pause, Resume, Autopause, EmergencyStop, ClearEmergencyStop
<1>2. ASSUME NEW c \in Campaigns, NEW d \in Drives, Start(c, d)
      PROVE  UNCHANGED dials
  BY <1>2, NothingToRecover DEF Start, DialInv, Inv, SafeInv, TypeInv, TypeOK
<1>3. ASSUME NEW c \in Campaigns, NEW d \in Drives, NEW l \in Leads, Claim(c, d, l)
      PROVE  /\ open
             /\ \A k \in Leads : camp[CampaignOf[k]] # "running" \/ stopped => UNCHANGED dials[k]
  <2>1. /\ open
        /\ CampaignOf[l] = c
        /\ camp[c] = "running" /\ ~stopped
        /\ dials' = [dials EXCEPT ![l][attempts[l] + 1] = @ + 1]
    BY <1>3 DEF Claim, MayDial, Working, Halted, Eligible, LeadsOf
  <2>2. QED
    BY <2>1 DEF DialInv, Inv, SafeInv, TypeInv, TypeOK
<1>4. CASE CallStep
  BY <1>4 DEF CallStep, CallReturns, SaveFails
<1>5. CASE Environment
  BY <1>5 DEF Environment, Crash, WindowOpens, WindowCloses, BackoffElapses, DialAges, RunnerFault
<1>6. ASSUME NEW c \in Campaigns, NEW d \in Drives, RunnerStep(c, d), ~Start(c, d),
             ~(\E l \in Leads : Claim(c, d, l))
      PROVE  UNCHANGED dials
  BY <1>6 DEF RunnerStep, StopDispatch, Complete, AwaitWindow, AwaitCall, AwaitRate,
              AwaitWork, WakeUp, Drained
<1>7. QED
  BY <1>1, <1>2, <1>3, <1>4, <1>5, <1>6 DEF Next, RunnerStep

\* Until a crash, a failed save or a failed loop, the kill switch stops every new
\* call.
THEOREM KillSwitchStopsCalls == Spec => KillSwitchHonored
<1>1. SafeDialInv /\ [Next]_vars =>
        [NothingFailed => \A l \in Leads :
            camp[CampaignOf[l]] # "running" \/ stopped => UNCHANGED dials[l]]_vars
  BY DialsAreClaims DEF SafeDialInv, DialInv, Inv, NothingFailed, RowsNeverLost
<1>2. QED
  BY <1>1, DialInvariance, PTL DEF Spec, KillSwitchHonored

\* Until a crash, a failed save or a failed loop, no call is placed outside the
\* calling window.
THEOREM CallsKeepHours == Spec => DialsWithinCallingHours
<1>1. SafeDialInv /\ [Next]_vars => [NothingFailed /\ dials' # dials => open]_vars
  BY DialsAreClaims DEF SafeDialInv, DialInv, Inv, NothingFailed, RowsNeverLost
<1>2. QED
  BY <1>1, DialInvariance, PTL DEF Spec, DialsWithinCallingHours

-----------------------------------------------------------------------------
(***************************************************************************)
(* The concurrency cap.  While rows and loops do not fail, the DIALING     *)
(* rows of a campaign are never more than the cap, because a loop that has *)
(* started has a call for each of them; after a crash they are what the    *)
(* next loop dials again, so recovery stays below the cap as well.         *)
(***************************************************************************)

CallsOf(c) == {t \in tasks : CampaignOf[t.lead] = c}

StartedLoopsCoverDialing ==
    \A c \in Campaigns, d \in Drives : pc[c][d] \in Started =>
        \A l \in Interrupted(c) : \E t \in tasks : t.lead = l

DialingIsCapped == \A c \in Campaigns : Cardinality(Interrupted(c)) <= MaxConcurrent

SafeCapInv == SafeInv /\ (RowsNeverLost => StartedLoopsCoverDialing /\ DialingIsCapped)

CapInv == Inv /\ RowsNeverLost /\ StartedLoopsCoverDialing /\ DialingIsCapped

LEMMA InterruptedFinite ==
    ASSUME NEW c \in Campaigns
    PROVE  IsFiniteSet(Interrupted(c))
<1>1. Interrupted(c) \subseteq Leads
  BY DEF Interrupted, LeadsOf
<1>2. QED
  BY <1>1, OrchestratorAssumption, FS_Subset

\* Calls are on different DIALING rows.
LEMMA CallsAreFewer ==
    ASSUME Inv, NEW c \in Campaigns
    PROVE  /\ IsFiniteSet(CallsOf(c))
           /\ Cardinality(CallsOf(c)) <= Cardinality(Interrupted(c))
<1> DEFINE f == [t \in CallsOf(c) |-> t.lead]
<1>1. \A t \in CallsOf(c) : t.lead \in Interrupted(c)
  BY CallTypes DEF CallsOf, Interrupted, LeadsOf
<1>2. \A t, u \in CallsOf(c) : t.lead = u.lead => t = u
  BY DEF CallsOf, Inv, SafeInv, CallInv, OneCallPerLead
<1>3. f \in Injection(CallsOf(c), Interrupted(c))
  BY <1>1, <1>2 DEF Injection, IsInjective
<1>4. QED
  BY <1>3, InterruptedFinite, FS_Injection

\* A started loop has a call for each DIALING row.
LEMMA DialingIsFewer ==
    ASSUME CapInv, NEW c \in Campaigns, NEW d \in Drives, pc[c][d] \in Started
    PROVE  Cardinality(Interrupted(c)) <= Cardinality(CallsOf(c))
<1> DEFINE f == [t \in CallsOf(c) |-> t.lead]
<1>1. \A t \in CallsOf(c) : t.lead \in Interrupted(c)
  BY CallTypes DEF CallsOf, Interrupted, LeadsOf, CapInv
<1>2. \A l \in Interrupted(c) : \E t \in CallsOf(c) : t.lead = l
  BY DEF CapInv, StartedLoopsCoverDialing, CallsOf, Interrupted, LeadsOf
<1>3. f \in Surjection(CallsOf(c), Interrupted(c))
  BY <1>1, <1>2 DEF Surjection
<1>4. IsFiniteSet(CallsOf(c))
  BY CallsAreFewer DEF CapInv
<1>5. QED
  BY <1>3, <1>4, FS_Surjection

\* A claim finds a call slot free, and so a row below the cap.
LEMMA ClaimKeepsCap ==
    ASSUME CapInv, NEW c \in Campaigns, NEW d \in Drives, NEW l \in Leads,
           Claim(c, d, l)
    PROVE  StartedLoopsCoverDialing' /\ DialingIsCapped'
<1>1. /\ CampaignOf[l] = c
      /\ pc[c][d] = "loop"
      /\ leadState' = [leadState EXCEPT ![l] = "dialing"]
      /\ tasks' = tasks \cup {NewTask(l, attempts[l] + 1, d)}
      /\ UNCHANGED pc
      /\ ~AtCap(c, d)
  BY DEF Claim, Eligible, LeadsOf, MayDial, Working
<1>2. leadState \in [Leads -> LeadStates]
  BY DEF CapInv, Inv, SafeInv, TypeInv, TypeOK
<1>3. NewTask(l, attempts[l] + 1, d).lead = l
  BY DEF NewTask
<1>4. Interrupted(c)' = Interrupted(c) \cup {l}
  BY <1>1, <1>2 DEF Interrupted, LeadsOf
<1>5. \A b \in Campaigns : b # c => Interrupted(b)' = Interrupted(b)
  BY <1>1, <1>2 DEF Interrupted, LeadsOf
<1>6. StartedLoopsCoverDialing'
  BY <1>1, <1>3, <1>4, <1>5 DEF CapInv, StartedLoopsCoverDialing
<1>7. Cardinality(Interrupted(c)) < MaxConcurrent
  <2>1. Own(c, d) = CallsOf(c)
    BY <1>1, OwnIsAll DEF CallsOf, CapInv
  <2>2. IsFiniteSet(CallsOf(c)) /\ Cardinality(Interrupted(c)) <= Cardinality(CallsOf(c))
    BY <1>1, CallsAreFewer, DialingIsFewer DEF CapInv, Started
  <2>3. Cardinality(CallsOf(c)) \in Nat /\ Cardinality(Interrupted(c)) \in Nat
    BY <2>2, FS_CardinalityType, InterruptedIsFinite
  <2>4. QED
    BY <1>1, <2>1, <2>2, <2>3, OrchestratorAssumption DEF AtCap
<1>8. Cardinality(Interrupted(c) \cup {l}) <= Cardinality(Interrupted(c)) + 1
  <2>1. Cardinality(Interrupted(c)) \in Nat
    BY InterruptedIsFinite
  <2>2. Cardinality(Interrupted(c) \cup {l}) =
           IF l \in Interrupted(c) THEN Cardinality(Interrupted(c))
           ELSE Cardinality(Interrupted(c)) + 1
    BY InterruptedFinite, FS_AddElement
  <2>3. QED
    BY <2>1, <2>2
<1>9. DialingIsCapped'
  <2>1. /\ Cardinality(Interrupted(c)) \in Nat
        /\ Cardinality(Interrupted(c) \cup {l}) \in Nat
    BY InterruptedIsFinite, InterruptedFinite, FS_AddElement
  <2>2. Cardinality(Interrupted(c) \cup {l}) <= MaxConcurrent
    BY <1>7, <1>8, <2>1, OrchestratorAssumption
  <2>3. QED
    BY <1>4, <1>5, <2>2 DEF CapInv, DialingIsCapped
<1>10. QED
  BY <1>6, <1>9

\* Recovery places a call for each DIALING row and makes no row DIALING.
LEMMA StartKeepsCap ==
    ASSUME CapInv, NEW c \in Campaigns, NEW d \in Drives, Start(c, d)
    PROVE  StartedLoopsCoverDialing' /\ DialingIsCapped'
<1>1. /\ tasks' = tasks \cup {NewTask(l, attempts[l], d) : l \in Interrupted(c)}
      /\ UNCHANGED leadState
      /\ GoTo(c, d, "loop")
  BY DEF Start, dbVars
<1>2. \A b \in Campaigns : Interrupted(b)' = Interrupted(b)
  BY <1>1 DEF Interrupted, LeadsOf
<1>3. pc \in [Campaigns -> [Drives -> Pcs]]
  BY DEF CapInv, Inv, SafeInv, LoopInv, LoopTypes
<1>4. \A b \in Campaigns, e \in Drives : b # c => pc'[b][e] = pc[b][e]
  BY <1>1, <1>3 DEF GoTo
<1>5. \A l \in Interrupted(c) : NewTask(l, attempts[l], d).lead = l
  BY DEF NewTask
<1>6. StartedLoopsCoverDialing'
  BY <1>1, <1>2, <1>4, <1>5 DEF CapInv, StartedLoopsCoverDialing
<1>7. QED
  BY <1>2, <1>6 DEF CapInv, DialingIsCapped

\* A call that ends takes its own row out of DIALING.
LEMMA CallReturnsKeepsCap ==
    ASSUME CapInv, NEW t \in tasks, NEW o \in Outcomes, CallReturns(t, o)
    PROVE  StartedLoopsCoverDialing' /\ DialingIsCapped'
<1>1. t.lead \in Leads /\ pc[CampaignOf[t.lead]][t.drive] \in Started
  BY CallTypes DEF CapInv
<1>2. /\ leadState \in [Leads -> LeadStates]
      /\ pc \in [Campaigns -> [Drives -> Pcs]]
  BY DEF CapInv, Inv, SafeInv, TypeInv, TypeOK
<1>3. /\ leadState' = [leadState EXCEPT ![t.lead] = NextLeadState(t, o)]
      /\ tasks' = tasks \ {t}
      /\ NextLeadState(t, o) # "dialing"
  BY DEF CallReturns, EndTask, NextLeadState
<1>4. \A c \in Campaigns : Interrupted(c)' = Interrupted(c) \ {t.lead}
  BY <1>1, <1>2, <1>3 DEF Interrupted, LeadsOf
<1>5. \A c \in Campaigns, d \in Drives : pc'[c][d] \in Started => pc[c][d] \in Started
  BY <1>1, <1>2 DEF CallReturns, EndTask, Started
<1>6. StartedLoopsCoverDialing'
  <2> SUFFICES ASSUME NEW c \in Campaigns, NEW d \in Drives, pc'[c][d] \in Started,
                      NEW l \in Interrupted(c)'
               PROVE  \E u \in tasks' : u.lead = l
    BY DEF StartedLoopsCoverDialing
  <2>1. l \in Interrupted(c) /\ l # t.lead
    BY <1>4
  <2>2. PICK u \in tasks : u.lead = l
    BY <1>5, <2>1 DEF CapInv, StartedLoopsCoverDialing
  <2>3. QED
    BY <1>3, <2>1, <2>2
<1>7. ASSUME NEW c \in Campaigns
      PROVE  Cardinality(Interrupted(c)') <= MaxConcurrent
  <2>1. /\ IsFiniteSet(Interrupted(c) \ {t.lead})
        /\ Cardinality(Interrupted(c) \ {t.lead}) <= Cardinality(Interrupted(c))
    BY InterruptedFinite, FS_Subset
  <2>2. Cardinality(Interrupted(c) \ {t.lead}) \in Nat /\ Cardinality(Interrupted(c)) \in Nat
    BY <2>1, FS_CardinalityType, InterruptedIsFinite
  <2>3. QED
    BY <1>4, <2>1, <2>2, OrchestratorAssumption DEF CapInv, DialingIsCapped
<1>8. DialingIsCapped'
  BY <1>4, <1>7 DEF DialingIsCapped
<1>9. QED
  BY <1>6, <1>8

\* A step that neither touches rows and calls nor starts a loop changes nothing here.
LEMMA QuietKeepsCap ==
    ASSUME CapInv, UNCHANGED leadState, tasks' = tasks,
           \A c \in Campaigns, d \in Drives :
              pc'[c][d] \in Started => \E e \in Drives : pc[c][e] \in Started
    PROVE  StartedLoopsCoverDialing' /\ DialingIsCapped'
<1>1. \A c \in Campaigns : Interrupted(c)' = Interrupted(c)
  BY DEF Interrupted, LeadsOf
<1>2. QED
  BY <1>1 DEF CapInv, StartedLoopsCoverDialing, DialingIsCapped

\* Only Start lets a loop begin.
LEMMA QuietStepsStartNothing ==
    ASSUME CapInv, NEW c \in Campaigns, NEW d \in Drives,
           \/ EnsureRunning(c) \/ Exit(c, d)
           \/ pc[c][d] \in Started /\ \E p \in Pcs : GoTo(c, d, p)
    PROVE  \A b \in Campaigns, e \in Drives :
              pc'[b][e] \in Started => \E g \in Drives : pc[b][g] \in Started
<1>1. pc \in [Campaigns -> [Drives -> Pcs]]
  BY DEF CapInv, Inv, SafeInv, LoopInv, LoopTypes
<1>2. CASE EnsureRunning(c)
  BY <1>1, <1>2 DEF EnsureRunning, GoTo, Started
<1>3. CASE Exit(c, d)
  BY <1>1, <1>3 DEF Exit, GoTo, Started
<1>4. CASE pc[c][d] \in Started /\ \E p \in Pcs : GoTo(c, d, p)
  BY <1>1, <1>4 DEF GoTo
<1>5. QED
  BY <1>2, <1>3, <1>4

LEMMA RunnerStepKeepsCap ==
    ASSUME CapInv, NEW c \in Campaigns, NEW d \in Drives, RunnerStep(c, d)
    PROVE  StartedLoopsCoverDialing' /\ DialingIsCapped'
<1>1. CASE Start(c, d)
  BY <1>1, StartKeepsCap
<1>2. CASE \E l \in Leads : Claim(c, d, l)
  BY <1>2, ClaimKeepsCap
<1>3. CASE ~Start(c, d) /\ ~(\E l \in Leads : Claim(c, d, l))
  <2>1. UNCHANGED leadState /\ tasks' = tasks
    BY <1>3 DEF RunnerStep, StopDispatch, Complete, AwaitWindow, AwaitCall, AwaitRate,
                AwaitWork, WakeUp, Drained, dbVars, leadVars
  <2>2. pc[c][d] \in Started
    BY <1>3 DEF RunnerStep, StopDispatch, Complete, AwaitWindow, AwaitCall, AwaitRate,
                AwaitWork, WakeUp, Drained, MayDial, Working, Started
  <2>3. Exit(c, d) \/ \E p \in Pcs : GoTo(c, d, p)
    BY <1>3 DEF RunnerStep, StopDispatch, Complete, AwaitWindow, AwaitCall, AwaitRate,
                AwaitWork, WakeUp, Drained, Leave, Pcs, Sleeping
  <2>4. QED
    BY <2>1, <2>2, <2>3, QuietStepsStartNothing, QuietKeepsCap
<1>4. QED
  BY <1>1, <1>2, <1>3

LEMMA NextKeepsSafeCap == SafeCapInv /\ [Next]_vars => SafeCapInv'
<1> SUFFICES ASSUME SafeCapInv, [Next]_vars, RowsNeverLost'
             PROVE  StartedLoopsCoverDialing' /\ DialingIsCapped'
  BY NextKeepsSafeInv DEF SafeCapInv
<1>0. CapInv
  BY RowsWereNotLost DEF SafeCapInv, CapInv
<1> USE DEF dbVars, leadVars, loopVars
<1>1. CASE UNCHANGED <<leadState, tasks, pc>>
  BY <1>0, <1>1, QuietKeepsCap
<1>2. CASE Request
  <2>1. UNCHANGED leadState /\ tasks' = tasks
    BY <1>2 DEF Request, Authorize, Pause, Resume, Autopause, EmergencyStop,
                ClearEmergencyStop
  <2>2. UNCHANGED pc \/ \E c \in Campaigns : EnsureRunning(c)
    BY <1>2 DEF Request, Authorize, Pause, Resume, Autopause, EmergencyStop,
                ClearEmergencyStop, EmitThenEnsureRunning
  <2>3. QED
    BY <1>0, <1>1, <2>1, <2>2, QuietStepsStartNothing, QuietKeepsCap, OrchestratorAssumption
<1>3. CASE CallStep
  BY <1>0, <1>3, CallsAreSaved, CallReturnsKeepsCap DEF CallStep, CapInv
<1>4. CASE Crash
  <2>1. \A c \in Campaigns : Interrupted(c)' = Interrupted(c)
    BY <1>4 DEF Crash, Interrupted, LeadsOf
  <2>2. \A c \in Campaigns, d \in Drives : pc'[c][d] \notin Started
    BY <1>4 DEF Crash, Started
  <2>3. QED
    BY <1>0, <2>1, <2>2 DEF CapInv, StartedLoopsCoverDialing, DialingIsCapped
<1>5. CASE Environment /\ ~Crash
  <2>1. ~(\E c \in Campaigns, d \in Drives : RunnerFault(c, d))
    <3>1. faults \in [FaultKinds -> Nat] /\ "runner" \in FaultKinds
      BY <1>0 DEF CapInv, Inv, SafeInv, TypeInv, TypeOK, FaultKinds
    <3>2. Fails("runner") => faults'["runner"] = faults["runner"] + 1 /\ faults["runner"] \in Nat
      BY <3>1, FaultTypes
    <3>3. QED
      BY <3>2 DEF RunnerFault, RowsNeverLost, LoopsNeverFailed
  <2>2. QED
    BY <1>1, <1>5, <2>1 DEF Environment, WindowOpens, WindowCloses, BackoffElapses, DialAges
<1>6. QED
  BY <1>0, <1>1, <1>2, <1>3, <1>4, <1>5, RunnerStepKeepsCap DEF Next, vars

\* Until a save or a loop fails, a campaign never has more calls in flight than
\* its envelope allows, those that a recovery dials again included.
THEOREM CallsAreCapped == Spec => []ConcurrencyCap
<1>1. Init => SafeCapInv
  <2> SUFFICES ASSUME Init PROVE StartedLoopsCoverDialing /\ DialingIsCapped
    BY InitSafeInv DEF SafeCapInv
  <2>1. \A c \in Campaigns : Interrupted(c) = {}
    BY DEF Init, Interrupted, LeadsOf
  <2>2. QED
    BY <2>1, FS_EmptySet, OrchestratorAssumption DEF StartedLoopsCoverDialing, DialingIsCapped
<1>2. SafeCapInv => ConcurrencyCap
  <2> SUFFICES ASSUME SafeCapInv, RowsNeverLost, NEW c \in Campaigns
               PROVE  Cardinality(CallsOf(c)) <= MaxConcurrent
    BY DEF ConcurrencyCap, CallsOf
  <2>1. Inv /\ Cardinality(Interrupted(c)) <= MaxConcurrent
    BY DEF SafeCapInv, Inv, RowsNeverLost, DialingIsCapped
  <2>2. IsFiniteSet(CallsOf(c)) /\ Cardinality(CallsOf(c)) <= Cardinality(Interrupted(c))
    BY <2>1, CallsAreFewer
  <2>3. Cardinality(CallsOf(c)) \in Nat /\ Cardinality(Interrupted(c)) \in Nat
    BY <2>2, FS_CardinalityType, InterruptedIsFinite
  <2>4. QED
    BY <2>1, <2>2, <2>3, OrchestratorAssumption
<1>3. QED
  BY <1>1, <1>2, NextKeepsSafeCap, PTL DEF Spec
=============================================================================

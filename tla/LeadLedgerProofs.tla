-------------------------- MODULE LeadLedgerProofs --------------------------
(***************************************************************************)
(* Proof that the orchestrator implements LeadLedger: each of its steps is *)
(* one entry of the ledger, or none.                                       *)
(***************************************************************************)
EXTENDS OrchestratorProofs

Stages == [l \in Leads |-> StageOf(l)]
OnPhone == {t.lead : t \in tasks}
Closed == {c \in Campaigns : camp[c] = "completed"}

LEMMA NothingShown ==
    ASSUME Inv, LoopsNeverFailed', UNCHANGED <<leadState, attempts, outcome, tasks>>,
           camp \in [Campaigns -> CampaignStates],
           \A c \in Campaigns : camp'[c] = "completed" <=> camp[c] = "completed"
    PROVE  UNCHANGED Ledger!ledgerVars
<1>1. Stages' = Stages BY DEF Stages, StageOf
<1>2. OnPhone' = OnPhone BY DEF OnPhone
<1>3. Closed' = Closed BY DEF Closed
<1>4. LoopsNeverFailed' = LoopsNeverFailed BY DEF Inv
<1>5. QED BY <1>1, <1>2, <1>3, <1>4 DEF Ledger!ledgerVars, Stages, OnPhone, Closed

\* An entry of the ledger, made while the promise holds.
LEMMA EntryMade ==
    ASSUME Inv, LoopsNeverFailed', Ledger!Promised
    PROVE  Ledger!LedgerNext
BY DEF Ledger!LedgerNext, Inv

LEMMA LinesMove ==
    ASSUME NEW some, some \subseteq Leads, Ledger!CallAgain(some) \/ Ledger!CutOff(some)
    PROVE  Ledger!Promised
<1> SUFFICES \E these \in SUBSET Leads : Ledger!CallAgain(these) \/ Ledger!CutOff(these)
  BY DEF Ledger!Promised
<1> WITNESS some \in SUBSET Leads
<1> QED OBVIOUS

LEMMA StartIsCallAgain ==
    ASSUME Inv, LoopsNeverFailed', NEW c \in Campaigns, NEW d \in Drives, Start(c, d)
    PROVE  Ledger!LedgerNext
<1>1. /\ pc[c][d] = "spawned" /\ UNCHANGED <<leadState, attempts, outcome, camp>>
      /\ tasks' = tasks \cup {NewTask(l, attempts[l], d) : l \in Interrupted(c)}
  BY DEF Start, dbVars
<1>2. ASSUME NEW l \in Interrupted(c)
      PROVE  Stages[l] = "attempted" /\ l \notin OnPhone
  <2>1. l \in Leads /\ CampaignOf[l] = c /\ leadState[l] = "dialing"
    BY DEF Interrupted, LeadsOf
  <2>2. Stages[l] = "attempted" BY <2>1 DEF Stages, StageOf
  <2>3. \A t \in tasks : t.lead # l
    <3> SUFFICES ASSUME NEW t \in tasks, t.lead = l PROVE FALSE OBVIOUS
    <3>1. t.drive \in Drives /\ t.drive = registry[c] /\ pc[c][t.drive] \in Started
      BY <2>1, CallTypes
    <3>2. registry[c] = d BY <1>1 DEF Inv, SafeInv, LoopInv, RegistryNamesLoop
    <3>3. QED BY <1>1, <3>1, <3>2 DEF Started
  <2>4. QED BY <2>2, <2>3 DEF OnPhone
<1>3. OnPhone' = OnPhone \cup Interrupted(c)
  <2>1. \A l : NewTask(l, attempts[l], d).lead = l BY DEF NewTask
  <2> DEFINE new == {NewTask(l, attempts[l], d) : l \in Interrupted(c)}
  <2>2. {t.lead : t \in new} = Interrupted(c) BY <2>1
  <2>3. tasks' = tasks \cup new BY <1>1
  <2> HIDE DEF new
  <2>4. QED BY <2>2, <2>3 DEF OnPhone
<1>4. Stages' = Stages /\ Closed' = Closed BY <1>1 DEF Stages, StageOf, Closed
<1>5. PICK some : some = Interrupted(c) OBVIOUS
<1>6. some \subseteq Leads BY <1>5 DEF Interrupted, LeadsOf
<1>7. Ledger!CallAgain(some)
  BY <1>1, <1>2, <1>3, <1>4, <1>5 DEF Ledger!CallAgain, Stages, OnPhone, Closed
<1>8. Ledger!Promised BY <1>6, <1>7, LinesMove
<1>9. QED BY <1>8, EntryMade

LEMMA ClaimIsAttempt ==
    ASSUME Inv, LoopsNeverFailed', NEW c \in Campaigns, NEW d \in Drives, NEW l \in Leads,
           Claim(c, d, l)
    PROVE  Ledger!LedgerNext
<1>1. /\ leadState[l] \in {"queued", "retry"}
      /\ leadState' = [leadState EXCEPT ![l] = "dialing"]
      /\ attempts' = [attempts EXCEPT ![l] = @ + 1]
      /\ tasks' = tasks \cup {NewTask(l, attempts[l] + 1, d)}
      /\ UNCHANGED <<camp, outcome>>
  BY DEF Claim, Eligible
<1>2. /\ leadState \in [Leads -> LeadStates] /\ AttemptsLeft
  BY DEF Inv, SafeInv, TypeInv, TypeOK
<1>3. Stages[l] = "waiting" BY <1>1 DEF Stages, StageOf
<1>4. l \notin OnPhone BY <1>1, CallTypes DEF OnPhone
<1>5. attempts[l] < MaxAttempts \/ attempts[l] = 0 BY <1>1, <1>2 DEF AttemptsLeft
<1>6. Stages' = [Stages EXCEPT ![l] = "attempted"] BY <1>1, <1>2 DEF Stages, StageOf
<1>7. OnPhone' = OnPhone \cup {l}
  <2> DEFINE new == NewTask(l, attempts[l] + 1, d)
  <2>1. new.lead = l BY DEF NewTask
  <2>2. tasks' = tasks \cup {new} BY <1>1
  <2> HIDE DEF new
  <2>3. QED BY <2>1, <2>2 DEF OnPhone
<1>8. Closed' = Closed BY <1>1 DEF Closed
<1>9. Ledger!Attempt(l)
  BY <1>1, <1>3, <1>4, <1>5, <1>6, <1>7, <1>8 DEF Ledger!Attempt, Stages, OnPhone, Closed
<1>10. QED BY <1>9, EntryMade DEF Ledger!Promised

LEMMA CompleteIsClose ==
    ASSUME Inv, LoopsNeverFailed', NEW c \in Campaigns, NEW d \in Drives, Complete(c, d)
    PROVE  Ledger!LedgerNext
<1>1. /\ pc[c][d] = "loop" /\ Own(c, d) = {} /\ ~HasUnfinished(c)
      /\ camp' = [camp EXCEPT ![c] = "completed"]
      /\ UNCHANGED <<leadState, attempts, outcome, tasks>>
  BY DEF Complete, leadVars
<1>2. camp \in [Campaigns -> CampaignStates] BY DEF Inv, SafeInv, TypeInv, TypeOK
<1>3. \A t \in tasks : CampaignOf[t.lead] # c BY <1>1, OwnIsAll
<1>4. \A l \in Leads : CampaignOf[l] = c => Stages[l] = "settled" /\ l \notin OnPhone
  BY <1>1, <1>3 DEF HasUnfinished, LeadsOf, Stages, StageOf, OnPhone
<1>5. Closed' = Closed \cup {c} BY <1>1, <1>2 DEF Closed
<1>6. Stages' = Stages /\ OnPhone' = OnPhone BY <1>1 DEF Stages, StageOf, OnPhone
<1>7. Ledger!Close(c)
  BY <1>1, <1>4, <1>5, <1>6 DEF Ledger!Close, Stages, OnPhone, Closed
<1>8. QED BY <1>7, EntryMade DEF Ledger!Promised

LEMMA CallStepIsEntry ==
    ASSUME Inv, LoopsNeverFailed', CallStep
    PROVE  Ledger!LedgerNext
<1>1. PICK t \in tasks, o \in Outcomes : CallReturns(t, o) \/ SaveFails(t, o) BY DEF CallStep
<1>2. /\ t.lead \in Leads /\ leadState[t.lead] = "dialing" /\ t.attempt = attempts[t.lead]
  BY CallTypes
<1>3. tasks' = tasks \ {t} /\ UNCHANGED camp
  BY <1>1 DEF CallReturns, SaveFails, EndTask, dbVars
<1>4. OnPhone' = OnPhone \ {t.lead}
  <2>1. \A u \in tasks : u.lead = t.lead => u = t
    BY DEF Inv, SafeInv, CallInv, OneCallPerLead
  <2>2. QED BY <1>3, <2>1 DEF OnPhone
<1>5. t.lead \in OnPhone /\ Stages[t.lead] = "attempted" BY <1>2 DEF OnPhone, Stages, StageOf
<1>6. Closed' = Closed BY <1>3 DEF Closed
<1>7. /\ leadState \in [Leads -> LeadStates]
      /\ attempts \in [Leads -> {0} \cup AttemptNumbers]
      /\ outcome \in [Leads -> {"none"} \cup Outcomes]
  BY DEF Inv, SafeInv, TypeInv, TypeOK
<1>8. CASE CallReturns(t, o)
  <2>1. /\ leadState' = [leadState EXCEPT ![t.lead] = NextLeadState(t, o)]
        /\ attempts' = [attempts EXCEPT ![t.lead] = t.attempt]
        /\ outcome' = [outcome EXCEPT ![t.lead] = o]
    BY <1>8 DEF CallReturns
  <2>2. attempts' = attempts BY <1>2, <1>7, <2>1
  <2>3. \/ Stages' = [Stages EXCEPT ![t.lead] = "settled"]
        \/ /\ o \in Retriable /\ attempts[t.lead] < MaxAttempts
           /\ Stages' = [Stages EXCEPT ![t.lead] = "waiting"]
    <3>1. CASE o \in Retriable /\ t.attempt < MaxAttempts
      <4>1. leadState' = [leadState EXCEPT ![t.lead] = "retry"]
        BY <2>1, <3>1 DEF NextLeadState
      <4>2. Stages' = [Stages EXCEPT ![t.lead] = "waiting"]
        BY <1>2, <1>7, <4>1 DEF Stages, StageOf
      <4>3. QED BY <1>2, <3>1, <4>2
    <3>2. CASE ~(o \in Retriable /\ t.attempt < MaxAttempts)
      <4>1. leadState' = [leadState EXCEPT ![t.lead] = "done"]
        BY <2>1, <3>2 DEF NextLeadState
      <4>2. QED BY <1>2, <1>7, <4>1 DEF Stages, StageOf
    <3>3. QED BY <3>1, <3>2
  <2>4. Ledger!HangUp(t.lead, o)
    BY <1>4, <1>5, <1>6, <2>1, <2>2, <2>3
       DEF Ledger!HangUp, Stages, OnPhone, Closed, Retriable
  <2>5. QED BY <1>2, <2>4, EntryMade DEF Ledger!Promised
<1>9. CASE SaveFails(t, o)
  <2>1. UNCHANGED <<leadState, attempts, outcome>> BY <1>9 DEF SaveFails, dbVars
  <2>2. Stages' = Stages BY <2>1 DEF Stages, StageOf
  <2>3. Ledger!CutOff({t.lead})
    BY <1>4, <1>5, <1>6, <2>1, <2>2 DEF Ledger!CutOff, Stages, OnPhone, Closed
  <2>4. QED BY <1>2, <2>3, EntryMade DEF Ledger!Promised
<1>10. QED BY <1>1, <1>8, <1>9

LEMMA CrashIsCutOff ==
    ASSUME Inv, LoopsNeverFailed', Crash
    PROVE  Ledger!LedgerNext
<1>1. tasks' = {} /\ UNCHANGED <<leadState, attempts, outcome, camp>> BY DEF Crash, dbVars
<1>2. Stages' = Stages /\ Closed' = Closed /\ OnPhone' = OnPhone \ OnPhone
  BY <1>1 DEF Stages, StageOf, Closed, OnPhone
<1>3. PICK some : some = OnPhone OBVIOUS
<1>4. some \subseteq Leads BY <1>3, CallTypes DEF OnPhone
<1>5. Ledger!CutOff(some)
  BY <1>1, <1>2, <1>3 DEF Ledger!CutOff, Stages, OnPhone, Closed
<1>6. Ledger!Promised BY <1>4, <1>5, LinesMove
<1>7. QED BY <1>6, EntryMade

LEMMA RequestShowsNothing ==
    ASSUME Inv, LoopsNeverFailed', Request
    PROVE  UNCHANGED Ledger!ledgerVars
<1>1. camp \in [Campaigns -> CampaignStates] BY DEF Inv, SafeInv, TypeInv, TypeOK
<1>2. UNCHANGED <<leadState, attempts, outcome, tasks>>
  BY DEF Request, Authorize, Pause, Resume, Autopause, EmergencyStop, ClearEmergencyStop,
         leadVars, loopVars
<1>3. \A c \in Campaigns : camp'[c] = "completed" <=> camp[c] = "completed"
  <2>1. ASSUME NEW b \in Campaigns, Authorize(b) \/ Pause(b) \/ Resume(b) \/ Autopause(b)
        PROVE  \A c \in Campaigns : camp'[c] = "completed" <=> camp[c] = "completed"
    BY <1>1, <2>1 DEF Authorize, Pause, Resume, Autopause
  <2>2. CASE EmergencyStop \/ ClearEmergencyStop
    BY <1>1, <2>2 DEF EmergencyStop, ClearEmergencyStop
  <2>3. QED BY <2>1, <2>2 DEF Request
<1>4. QED BY <1>1, <1>2, <1>3, NothingShown

LEMMA StepIsEntry ==
    ASSUME SafeInv, [Next]_vars
    PROVE  [Ledger!LedgerNext]_(Ledger!ledgerVars)
<1> USE DEF dbVars, leadVars, loopVars, histVars
<1>1. CASE ~LoopsNeverFailed' BY <1>1 DEF Ledger!LedgerNext
<1>2. CASE LoopsNeverFailed'
  <2>1. "runner" \in FaultKinds BY DEF FaultKinds
  <2>2. Inv BY <1>2, <2>1, FaultsGrow DEF Inv, SafeInv, LoopsNeverFailed
  <2>3. camp \in [Campaigns -> CampaignStates] BY DEF SafeInv, TypeInv, TypeOK
  <2>4. CASE UNCHANGED vars BY <1>2, <2>2, <2>3, <2>4, NothingShown DEF vars
  <2>5. CASE Request BY <1>2, <2>2, <2>5, RequestShowsNothing
  <2>6. ASSUME NEW c \in Campaigns, NEW d \in Drives, RunnerStep(c, d)
        PROVE  [Ledger!LedgerNext]_(Ledger!ledgerVars)
    <3>1. CASE Start(c, d) BY <1>2, <2>2, <3>1, StartIsCallAgain
    <3>2. CASE \E l \in Leads : Claim(c, d, l) BY <1>2, <2>2, <3>2, ClaimIsAttempt
    <3>3. CASE Complete(c, d) BY <1>2, <2>2, <3>3, CompleteIsClose
    <3>4. CASE StopDispatch(c, d) \/ AwaitWindow(c, d) \/ AwaitCall(c, d) \/ AwaitRate(c, d)
               \/ AwaitWork(c, d) \/ WakeUp(c, d) \/ Drained(c, d)
      <4>1. UNCHANGED <<leadState, attempts, outcome, tasks, camp>>
        BY <3>4 DEF StopDispatch, AwaitWindow, AwaitCall, AwaitRate, AwaitWork, WakeUp, Drained
      <4>2. QED BY <1>2, <2>2, <2>3, <4>1, NothingShown
    <3>5. QED BY <2>6, <3>1, <3>2, <3>3, <3>4 DEF RunnerStep
  <2>7. CASE CallStep BY <1>2, <2>2, <2>7, CallStepIsEntry
  <2>8. CASE Crash BY <1>2, <2>2, <2>8, CrashIsCutOff
  <2>9. ASSUME NEW c \in Campaigns, NEW d \in Drives, RunnerFault(c, d) PROVE FALSE
    <3>1. faults \in [FaultKinds -> Nat] BY DEF SafeInv, TypeInv, TypeOK
    <3>2. faults'["runner"] = faults["runner"] + 1 BY <2>1, <2>9, <3>1, FaultTypes DEF RunnerFault
    <3>3. QED BY <1>2, <2>1, <3>1, <3>2 DEF LoopsNeverFailed
  <2>10. CASE Environment /\ ~Crash
    <3>1. UNCHANGED <<leadState, attempts, outcome, tasks, camp>>
      BY <2>9, <2>10 DEF Environment, WindowOpens, WindowCloses, BackoffElapses, DialAges
    <3>2. QED BY <1>2, <2>2, <2>3, <3>1, NothingShown
  <2>11. QED BY <2>4, <2>5, <2>6, <2>7, <2>8, <2>10 DEF Next
<1>3. QED BY <1>1, <1>2

LEMMA InitIsBlank == Init => Ledger!LedgerInit
<1> SUFFICES ASSUME Init PROVE Ledger!LedgerInit OBVIOUS
<1>1. \A l \in Leads : StageOf(l) = "waiting" BY DEF Init, StageOf
<1>2. {t.lead : t \in tasks} = {} /\ {c \in Campaigns : camp[c] = "completed"} = {} BY DEF Init
<1>3. LoopsNeverFailed = TRUE BY DEF Init, LoopsNeverFailed, FaultKinds
<1>4. QED BY <1>1, <1>2, <1>3 DEF Init, Ledger!LedgerInit

\* Through pauses, retries, crashes and lost writes the orchestrator keeps the ledger of
\* promises to each person, until an exception escapes a dispatch loop.
THEOREM OrchestratorKeepsLedger == Spec => LedgerIsKept
<1>1. SafeInv /\ [Next]_vars => [Ledger!LedgerNext]_(Ledger!ledgerVars) BY StepIsEntry
<1>2. QED BY <1>1, InitIsBlank, SafeInvariance, PTL DEF Spec, LedgerIsKept, Ledger!LedgerSpec
=============================================================================

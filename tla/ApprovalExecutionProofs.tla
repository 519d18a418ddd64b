---------------------- MODULE ApprovalExecutionProofs ----------------------
(***************************************************************************)
(* Proofs about ApprovalExecution, for any workers, commands and attempt   *)
(* budget.  The inductive invariant is TypeOK with three of the checked    *)
(* invariants: the effect count follows the status, the epoch counts the   *)
(* attempts within the budget, and open claims carry distinct epochs no    *)
(* newer than the row's.                                                   *)
(***************************************************************************)
EXTENDS ApprovalExecution, TLAPS

Inv == TypeOK /\ EffectExactlyWhenExecuted /\ AttemptsWithinBudget /\ ClaimsFenced

----------------------------------------------------------------------------
\* The types hold initially, and every action keeps them.
LEMMA TypeInit == Init => TypeOK
<1>1. Init => reconcileRequired \in BOOLEAN
  BY Zenon DEF Init
<1> QED BY <1>1 DEF Init, TypeOK, Statuses, Outcomes, Failures

\* Every step keeps the types.
LEMMA TypeNext == TypeOK /\ [Next]_vars => TypeOK'
<1> SUFFICES ASSUME TypeOK, [Next]_vars PROVE TypeOK'
  OBVIOUS
<1> USE DEF TypeOK, Statuses, Outcomes, Failures, ClearClaim, Goes
<1>1. ASSUME NEW w \in Workers, Claim(w) PROVE TypeOK'
  BY <1>1 DEF Claim, FreshFence, ExpiredReclaim, operator
<1>2. ASSUME NEW w \in Workers, ClaimExhausts(w) PROVE TypeOK'
  BY <1>2 DEF ClaimExhausts, operator, memory
<1>3. ASSUME NEW w \in Workers, Heartbeat(w) PROVE TypeOK'
  BY <1>3 DEF Heartbeat, operator
<1>4. ASSUME NEW w \in Workers, ExecuteCommit(w) PROVE TypeOK'
  <2>1. reconcileRequired' \in BOOLEAN
    BY <1>4, Zenon DEF ExecuteCommit
  <2> QED BY <1>4, <2>1 DEF ExecuteCommit, operator
<1>5. ASSUME NEW w \in Workers, ExecuteSeesExecuted(w) PROVE TypeOK'
  BY <1>5 DEF ExecuteSeesExecuted, operator, row
<1>6. ASSUME NEW w \in Workers, ExecuteFails(w) PROVE TypeOK'
  <2>1. ExecuteOutcomes(w) \subseteq Failures \cup {"idle"}
    BY DEF ExecuteOutcomes
  <2> QED BY <1>6, <2>1 DEF ExecuteFails, operator, row
<1>7. ASSUME NEW w \in Workers, RecordFailure(w) PROVE TypeOK'
  <2>1. FailureStatus(w) \in Statuses
    BY <1>7 DEF RecordFailure, FailureStatus
  <2> QED BY <1>7, <2>1 DEF RecordFailure, operator
<1>8. ASSUME NEW w \in Workers, RecordRefused(w) PROVE TypeOK'
  BY <1>8 DEF RecordRefused, operator, row
<1>9. ASSUME NEW w \in Workers, Crash(w) PROVE TypeOK'
  BY <1>9 DEF Crash, operator, row
<1>10. ASSUME NEW k \in OperatorKeys, OperatorStep(k) PROVE TypeOK'
  <2>1. CASE IncidentRetry(k)
    <3>1. reconcileRequired' \in BOOLEAN
      BY <2>1, Zenon DEF IncidentRetry
    <3> QED BY <2>1, <3>1 DEF IncidentRetry, memory
  <2>2. CASE IncidentPartial(k)
    BY <2>2 DEF IncidentPartial, memory
  <2>3. CASE IncidentReplay(k)
    BY <2>3 DEF IncidentReplay, memory, row
  <2> QED BY <1>10, <2>1, <2>2, <2>3 DEF OperatorStep
<1>11. ASSUME LeaseExpires \/ RetryComesDue PROVE TypeOK'
  BY <1>11 DEF LeaseExpires, RetryComesDue, operator, memory
<1>12. ASSUME NEW m \in {"enforce", "shadow", "disabled"}, SetMode(m) PROVE TypeOK'
  BY <1>12 DEF SetMode, row, operator, memory
<1>13. ASSUME NEW r \in {"none", "domain", "evidence"}, Drift(r) PROVE TypeOK'
  BY <1>13 DEF Drift, row, operator, memory
<1>14. CASE UNCHANGED vars
  BY <1>14 DEF vars, row, operator, memory
<1> QED
  BY <1>1, <1>2, <1>3, <1>4, <1>5, <1>6, <1>7, <1>8, <1>9, <1>10, <1>11, <1>12,
     <1>13, <1>14 DEF Next, WorkerStep, Execute

\* Every reachable state is well typed.
THEOREM TypeCorrect == Spec => []TypeOK
  BY TypeInit, TypeNext, PTL DEF Spec

----------------------------------------------------------------------------
\* What each kind of step does to the row: the case analysis the invariants
\* and the action properties share.

\* A worker's step that is not a claim leaves epoch, attempts and claims alone.
LEMMA StepsKeepFences ==
  ASSUME TypeOK, NEW w \in Workers,
         ClaimExhausts(w) \/ Heartbeat(w) \/ Execute(w) \/ RecordFailure(w)
           \/ RecordRefused(w) \/ Crash(w)
  PROVE  /\ UNCHANGED <<epoch, attempts, heldEpoch>>
         /\ \A u \in Workers : pc'[u] # "idle" => pc[u] # "idle"
<1> USE DEF TypeOK, Failures
<1>1. CASE ClaimExhausts(w)
  BY <1>1 DEF ClaimExhausts, memory
<1>2. CASE Heartbeat(w)
  BY <1>2 DEF Heartbeat
<1>3. CASE Execute(w)
  BY <1>3 DEF Execute, ExecuteCommit, ExecuteSeesExecuted, ExecuteFails, Admitted, Goes, row
<1>4. CASE RecordFailure(w)
  BY <1>4 DEF RecordFailure, Goes
<1>5. CASE RecordRefused(w) \/ Crash(w)
  BY <1>5 DEF RecordRefused, Crash, Goes, row
<1> QED BY <1>1, <1>2, <1>3, <1>4, <1>5

\* No step of an operator or of the environment touches fences or memories.
LEMMA OthersKeepFences ==
  ASSUME \/ \E k \in OperatorKeys : OperatorStep(k)
         \/ LeaseExpires \/ RetryComesDue
         \/ \E m \in {"enforce", "shadow", "disabled"} : SetMode(m)
         \/ \E r \in {"none", "domain", "evidence"} : Drift(r)
         \/ UNCHANGED vars
  PROVE  UNCHANGED <<epoch, attempts, pc, heldEpoch, heldVersion, effects>>
BY DEF OperatorStep, IncidentRetry, IncidentPartial, IncidentReplay, LeaseExpires,
       RetryComesDue, SetMode, Drift, vars, row, memory

----------------------------------------------------------------------------
\* The attempts are bounded, and counted by the epoch.
LEMMA BudgetNext == TypeOK /\ AttemptsWithinBudget /\ [Next]_vars => AttemptsWithinBudget'
<1> SUFFICES ASSUME TypeOK, AttemptsWithinBudget, [Next]_vars PROVE AttemptsWithinBudget'
  OBVIOUS
<1> USE DEF AttemptsWithinBudget
<1>1. ASSUME NEW w \in Workers, Claim(w) PROVE AttemptsWithinBudget'
  BY <1>1, BudgetAssumption DEF Claim, FreshFence, BudgetSpent, TypeOK
<1>2. ASSUME NEW w \in Workers, WorkerStep(w), ~Claim(w) PROVE AttemptsWithinBudget'
  BY <1>2, StepsKeepFences DEF WorkerStep
<1> QED BY <1>1, <1>2, OthersKeepFences DEF Next

\* The fences of open claims stay distinct and not newer than the row's.
LEMMA FenceNext == TypeOK /\ ClaimsFenced /\ [Next]_vars => ClaimsFenced'
<1> SUFFICES ASSUME TypeOK, ClaimsFenced, [Next]_vars PROVE ClaimsFenced'
  OBVIOUS
<1> USE DEF ClaimsFenced
<1>1. ASSUME NEW w \in Workers, Claim(w) PROVE ClaimsFenced'
  <2>1. epoch' = epoch + 1 /\ epoch \in Nat /\ heldEpoch \in [Workers -> Nat]
    BY <1>1 DEF Claim, FreshFence, TypeOK
  <2>2. /\ heldEpoch'[w] = epoch + 1
        /\ \A u \in Workers \ {w} : heldEpoch'[u] = heldEpoch[u] /\ pc'[u] = pc[u]
    BY <1>1, <2>1 DEF Claim, FreshFence, TypeOK
  <2> QED BY <2>1, <2>2
<1>2. ASSUME NEW w \in Workers, WorkerStep(w), ~Claim(w) PROVE ClaimsFenced'
  BY <1>2, StepsKeepFences DEF WorkerStep
<1> QED BY <1>1, <1>2, OthersKeepFences DEF Next

\* The effect count follows the status: only a step from a live claim commits
\* the effect, and no step leaves "executed".
LEMMA EffectNext ==
  TypeOK /\ EffectExactlyWhenExecuted /\ [Next]_vars => EffectExactlyWhenExecuted'
<1> SUFFICES ASSUME TypeOK, EffectExactlyWhenExecuted, [Next]_vars
             PROVE  EffectExactlyWhenExecuted'
  OBVIOUS
<1> USE DEF EffectExactlyWhenExecuted
<1>1. ASSUME NEW w \in Workers, Claim(w) PROVE EffectExactlyWhenExecuted'
  BY <1>1 DEF Claim, Claimable, ExpiredReclaim, DueRetry
<1>2. ASSUME NEW w \in Workers, ClaimExhausts(w) PROVE EffectExactlyWhenExecuted'
  BY <1>2 DEF ClaimExhausts, Claimable, ExpiredReclaim, DueRetry
<1>3. ASSUME NEW w \in Workers, Heartbeat(w) PROVE EffectExactlyWhenExecuted'
  BY <1>3 DEF Heartbeat
<1>4. ASSUME NEW w \in Workers, ExecuteCommit(w) PROVE EffectExactlyWhenExecuted'
  BY <1>4 DEF ExecuteCommit, Admitted, Current
<1>5. ASSUME NEW w \in Workers,
             ExecuteSeesExecuted(w) \/ ExecuteFails(w) \/ RecordRefused(w) \/ Crash(w)
      PROVE  EffectExactlyWhenExecuted'
  BY <1>5 DEF ExecuteSeesExecuted, ExecuteFails, RecordRefused, Crash, row
<1>6. ASSUME NEW w \in Workers, RecordFailure(w) PROVE EffectExactlyWhenExecuted'
  <2>1. FailureStatus(w) # "executed"
    BY <1>6 DEF RecordFailure, FailureStatus, Failures
  <2> QED BY <1>6, <2>1 DEF RecordFailure, Quarantines, Current
<1>7. ASSUME NEW k \in OperatorKeys, OperatorStep(k) PROVE EffectExactlyWhenExecuted'
  BY <1>7 DEF OperatorStep, IncidentRetry, IncidentPartial, IncidentReplay, row
<1>8. CASE \/ LeaseExpires \/ RetryComesDue
           \/ \E m \in {"enforce", "shadow", "disabled"} : SetMode(m)
           \/ \E r \in {"none", "domain", "evidence"} : Drift(r)
           \/ UNCHANGED vars
  BY <1>8 DEF LeaseExpires, RetryComesDue, SetMode, Drift, vars, row
<1> QED BY <1>1, <1>2, <1>3, <1>4, <1>5, <1>6, <1>7, <1>8 DEF Next, WorkerStep, Execute

\* The inductive invariant.
THEOREM Invariance == Spec => []Inv
<1>1. Init => Inv
  BY TypeInit, BudgetAssumption
  DEF Inv, Init, EffectExactlyWhenExecuted, AttemptsWithinBudget, ClaimsFenced
<1>2. Inv /\ [Next]_vars => Inv'
  BY TypeNext, BudgetNext, FenceNext, EffectNext DEF Inv
<1> QED BY <1>1, <1>2, PTL DEF Spec

\* The approved effect is committed exactly when the request is executed, and
\* then exactly once.
THEOREM EffectOnceTheorem == Spec => []EffectExactlyWhenExecuted
  BY Invariance, PTL DEF Inv

\* The newest fence is held by at most one worker.
THEOREM FenceTheorem == Spec => []ClaimsFenced
  BY Invariance, PTL DEF Inv

\* The attempts stay within the budget.
THEOREM BudgetTheorem == Spec => []AttemptsWithinBudget
  BY Invariance, PTL DEF Inv

----------------------------------------------------------------------------
\* The action properties.

\* What a worker does with a claim in hand, by the action it takes.
LEMMA ClaimedWorkerStep ==
  ASSUME TypeOK, [Next]_vars, NEW w \in Workers, pc[w] # "idle", pc'[w] # pc[w]
  PROVE  \/ ExecuteCommit(w)
         \/ UNCHANGED <<row, effects>>
         \/ RecordFailure(w)
<1> USE DEF TypeOK
<1>1. PICK u \in Workers : WorkerStep(u)
  BY OthersKeepFences DEF Next
<1>2. u = w
  BY <1>1 DEF WorkerStep, Claim, ClaimExhausts, Heartbeat, Execute, ExecuteCommit,
              ExecuteSeesExecuted, ExecuteFails, RecordFailure, RecordRefused, Crash, Goes, memory
<1> QED
  BY <1>1, <1>2 DEF WorkerStep, Claim, ClaimExhausts, Heartbeat, Execute,
     ExecuteSeesExecuted, ExecuteFails, RecordRefused, Crash, memory

\* A worker whose claim is stale changes nothing but by a quarantine.
THEOREM StaleTheorem == Spec => StaleWorkerHarmless
<1> DEFINE Harmless == \A w \in Workers :
              /\ pc[w] # "idle" /\ pc'[w] # pc[w]
              /\ heldEpoch[w] # epoch \/ status # "executing"
              => \/ UNCHANGED <<row, effects>>
                 \/ pc[w] = "partial" /\ status' = "infra_exhausted" /\ UNCHANGED effects
<1>1. TypeOK /\ [Next]_vars => Harmless
  <2> SUFFICES ASSUME TypeOK, [Next]_vars, NEW w \in Workers,
                      pc[w] # "idle", pc'[w] # pc[w],
                      heldEpoch[w] # epoch \/ status # "executing"
               PROVE  \/ UNCHANGED <<row, effects>>
                      \/ pc[w] = "partial" /\ status' = "infra_exhausted" /\ UNCHANGED effects
    OBVIOUS
  <2>1. ~Current(w)
    BY DEF Current
  <2>2. CASE ExecuteCommit(w)
    BY <2>1, <2>2 DEF ExecuteCommit, Admitted
  <2>3. CASE RecordFailure(w)
    BY <2>1, <2>3 DEF RecordFailure, Quarantines, FailureStatus
  <2> QED BY <2>2, <2>3, ClaimedWorkerStep
<1> QED BY <1>1, TypeCorrect, PTL DEF Spec, StaleWorkerHarmless

\* Which steps leave quarantine: only the operator's, over an empty key.
LEMMA LeavingQuarantine ==
  ASSUME [Next]_vars, status = "infra_exhausted", status' # status
  PROVE  \E k \in OperatorKeys : IncidentRetry(k)
<1>1. ~ UNCHANGED status
  OBVIOUS
<1>2. ASSUME NEW w \in Workers, WorkerStep(w) PROVE FALSE
  <2>1. CASE Claim(w) \/ ClaimExhausts(w)
    BY <2>1 DEF Claim, ClaimExhausts, Claimable, ExpiredReclaim, DueRetry
  <2>2. CASE ExecuteCommit(w)
    BY <2>2 DEF ExecuteCommit, Admitted, Current
  <2>3. CASE RecordFailure(w)
    BY <2>3 DEF RecordFailure, Quarantines, Current, FailureStatus
  <2>4. CASE Heartbeat(w) \/ ExecuteSeesExecuted(w) \/ ExecuteFails(w)
               \/ RecordRefused(w) \/ Crash(w)
    BY <2>4, <1>1 DEF Heartbeat, ExecuteSeesExecuted, ExecuteFails, RecordRefused, Crash, row
  <2> QED BY <1>2, <2>1, <2>2, <2>3, <2>4 DEF WorkerStep, Execute
<1> QED
  BY <1>1, <1>2 DEF Next, OperatorStep, IncidentPartial, IncidentReplay, LeaseExpires,
     RetryComesDue, SetMode, Drift, vars, row

\* A parked request is reopened by an operator command used for the first time
\* that found nothing under the execution key.
THEOREM ParkedTheorem == Spec => ParkedUntilOperator
<1> DEFINE Reopens ==
      status = "infra_exhausted" /\ status' # status
      => /\ status' = "retry_wait"
         /\ residue = "none"
         /\ \E k \in OperatorKeys : receipt[k] = "none" /\ receipt'[k] = "absent"
<1>1. TypeOK /\ [Next]_vars => Reopens
  BY LeavingQuarantine DEF IncidentRetry, TypeOK
<1> QED BY <1>1, TypeCorrect, PTL DEF Spec, ParkedUntilOperator

----------------------------------------------------------------------------
\* An operator's retry of a request whose budget is spent, a dead end: see
\* IncidentRetryResumes.  No claim passes, since the table refuses the row that
\* ClaimExhausts writes, and no operator can reach the request any more.
RetriedInVain == status = "retry_wait" /\ BudgetSpent

\* No step leads out of it, whatever the time, the mode or the operator.
LEMMA VainNext == TypeOK /\ RetriedInVain /\ [Next]_vars => RetriedInVain'
<1> SUFFICES ASSUME TypeOK, RetriedInVain, [Next]_vars PROVE RetriedInVain'
  OBVIOUS
<1> USE DEF RetriedInVain, BudgetSpent
<1>1. ASSUME NEW w \in Workers, Claim(w) \/ ClaimExhausts(w) PROVE FALSE
  <2>1. ~Claim(w)
    BY DEF Claim
  <2>2. retryAt # "none" /\ UNCHANGED retryAt /\ status' = "infra_exhausted" /\ RowChecks'
    BY <1>1, <2>1 DEF ClaimExhausts, Claimable, ExpiredReclaim, DueRetry
  <2> QED BY <2>2 DEF RowChecks
<1>2. ASSUME NEW w \in Workers, Heartbeat(w) \/ ExecuteCommit(w) \/ RecordFailure(w)
      PROVE  FALSE
  BY <1>2 DEF Heartbeat, ExecuteCommit, Admitted, RecordFailure, Quarantines, Current
<1>3. ASSUME NEW w \in Workers,
             ExecuteSeesExecuted(w) \/ ExecuteFails(w) \/ RecordRefused(w) \/ Crash(w)
      PROVE  RetriedInVain'
  BY <1>3 DEF ExecuteSeesExecuted, ExecuteFails, RecordRefused, Crash, row
<1>4. ASSUME NEW k \in OperatorKeys, OperatorStep(k) PROVE RetriedInVain'
  BY <1>4 DEF OperatorStep, IncidentRetry, IncidentPartial, IncidentReplay, row
<1>5. CASE \/ LeaseExpires \/ RetryComesDue
           \/ \E m \in {"enforce", "shadow", "disabled"} : SetMode(m)
           \/ \E r \in {"none", "domain", "evidence"} : Drift(r)
           \/ UNCHANGED vars
  BY <1>5 DEF LeaseExpires, RetryComesDue, SetMode, Drift, vars, row
<1> QED BY <1>1, <1>2, <1>3, <1>4, <1>5 DEF Next, WorkerStep, Execute

\* For every budget: once an incident retry has requeued a request without an
\* attempt left, it waits for ever, and its effect is never committed.
THEOREM VainTheorem == Spec => [](RetriedInVain => [](RetriedInVain /\ effects = 0))
<1>1. Inv /\ RetriedInVain => effects = 0
  BY DEF Inv, EffectExactlyWhenExecuted, RetriedInVain
<1> QED BY <1>1, VainNext, Invariance, PTL DEF Spec, Inv

\* And that is where the retry leads from every request parked for its budget.
LEMMA VainRetry ==
  ASSUME TypeOK, BudgetSpent, NEW k \in OperatorKeys, IncidentRetry(k)
  PROVE  RetriedInVain'
BY DEF IncidentRetry, RetriedInVain, BudgetSpent

----------------------------------------------------------------------------
\* Refinement: the abstract outcome of every step.

\* The initial states are initial states of the abstract specification.
LEMMA AbstractInit == Init => Abstract!Init
  BY DEF Init, Abstract!Init, Outcome

\* Every step is a step of the abstract specification, or changes nothing of it.
LEMMA AbstractNext == Inv /\ [Next]_vars => [Abstract!Next]_(Abstract!vars)
<1> SUFFICES ASSUME Inv, [Next]_vars PROVE [Abstract!Next]_(Abstract!vars)
  OBVIOUS
<1> USE DEF Abstract!vars, Abstract!Next, Abstract!Apply, Abstract!Refuse, Abstract!Park,
            Abstract!Reopen, Outcome
<1>1. ASSUME NEW w \in Workers, Claim(w) PROVE UNCHANGED Abstract!vars
  BY <1>1 DEF Claim, Claimable, ExpiredReclaim, DueRetry
<1>2. ASSUME NEW w \in Workers, ClaimExhausts(w) PROVE Abstract!Park
  BY <1>2 DEF ClaimExhausts, Claimable, ExpiredReclaim, DueRetry
<1>3. ASSUME NEW w \in Workers, ExecuteCommit(w) PROVE Abstract!Apply
  BY <1>3 DEF ExecuteCommit, Admitted, Current
<1>4. ASSUME NEW w \in Workers, RecordFailure(w) PROVE [Abstract!Next]_(Abstract!vars)
  <2>1. status \in {"executing", "infra_exhausted"}
    BY <1>4 DEF RecordFailure, Quarantines, Current
  <2>2. CASE pc[w] = "partial"
    BY <1>4, <2>1, <2>2 DEF RecordFailure, FailureStatus
  <2>3. CASE pc[w] # "partial"
    <3>1. status = "executing"
      BY <1>4, <2>3 DEF RecordFailure, Quarantines, Current
    <3>2. FailureStatus(w) \in {"infra_exhausted", "execution_failed", "retry_wait"}
      BY <1>4, <2>3 DEF RecordFailure, FailureStatus, Failures
    <3> QED BY <1>4, <3>1, <3>2 DEF RecordFailure
  <2> QED BY <2>2, <2>3
<1>5. ASSUME NEW w \in Workers,
             Heartbeat(w) \/ ExecuteSeesExecuted(w) \/ ExecuteFails(w)
               \/ RecordRefused(w) \/ Crash(w)
      PROVE  UNCHANGED Abstract!vars
  BY <1>5 DEF Heartbeat, ExecuteSeesExecuted, ExecuteFails, RecordRefused, Crash, row
<1>6. ASSUME NEW k \in OperatorKeys, IncidentRetry(k) PROVE Abstract!Reopen
  BY <1>6 DEF IncidentRetry
<1>7. ASSUME NEW k \in OperatorKeys, IncidentPartial(k) \/ IncidentReplay(k)
      PROVE  UNCHANGED Abstract!vars
  BY <1>7 DEF IncidentPartial, IncidentReplay, row
<1>8. CASE \/ LeaseExpires \/ RetryComesDue
           \/ \E m \in {"enforce", "shadow", "disabled"} : SetMode(m)
           \/ \E r \in {"none", "domain", "evidence"} : Drift(r)
           \/ UNCHANGED vars
  BY <1>8 DEF LeaseExpires, RetryComesDue, SetMode, Drift, vars, row
<1> QED
  BY <1>1, <1>2, <1>3, <1>4, <1>5, <1>6, <1>7, <1>8
  DEF Next, WorkerStep, Execute, OperatorStep

\* The execution runtime implements the promise that the effect happens once.
THEOREM Refinement == Spec => AbstractSpec
  BY AbstractInit, AbstractNext, Invariance, PTL DEF Spec, AbstractSpec, Abstract!Spec
============================================================================

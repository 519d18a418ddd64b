-------------------------- MODULE ApprovalExecution --------------------------
(***************************************************************************)
(* The execution of ONE approved property request by the API processes'    *)
(* execution workers (property-approvals/property-approval.service.ts,     *)
(* claimExecution ... recordExecutionFailure) and by the incident          *)
(* operator (reconcileExhaustedExecution).  Every handler runs one         *)
(* database transaction that starts with SELECT ... FOR UPDATE of the      *)
(* request row, so one handler transaction is one action, and requests do  *)
(* not interact.  The compare-and-set of every UPDATE succeeds under that  *)
(* lock.  Wall-clock time is abstracted to what the code compares it with: *)
(* has the lease expired, is the retry due.                                *)
(***************************************************************************)
EXTENDS Integers, FiniteSets

CONSTANTS Workers,       \* execution workers, one per running API process
          NoWorker,      \* holder of an unclaimed row (claim_token IS NULL)
          OperatorKeys,  \* client keys of incident-retry commands
          MaxAttempts,   \* APPROVAL_EXECUTION_MAX_ATTEMPTS, 8 in the code
          MaxVersion     \* bound: heartbeats stop at this row version

ASSUME WorkerAssumption == NoWorker \notin Workers
ASSUME BudgetAssumption == MaxAttempts \in Nat \ {0} /\ MaxVersion \in Nat

VARIABLES
  \* the row of biz_property_approval_request
  status,             \* execution_status
  version,            \* execution_version
  epoch,              \* claim_epoch; a claim's random token is fresh with it
  holder,             \* worker_id, cleared together with token, lease, heartbeat
  lease,              \* lease_expires_at: "none" (NULL), "live", "expired"
  attempts,           \* attempt_count
  retryAt,            \* next_retry_at: "none" (NULL), "later", "due"
  reconcileRequired,  \* reconcile_required
  \* what is committed under the request's execution key
  effects,            \* effect transactions committed by this runtime
  residue,            \* rows someone else left there: "none", "domain", "evidence"
  \* the runtime control row of the scope, and the incident mutation receipts
  mode,               \* "enforce", "shadow", "disabled"
  receipt,            \* outcome stored with each client key, "none" before
  answer,             \* last outcome returned for each client key
  \* the memory of each worker
  pc,                 \* "idle", "claimed", or the failure it has to record
  heldEpoch, heldVersion  \* the claim it was given

row == <<status, version, epoch, holder, lease, attempts, retryAt, reconcileRequired>>
memory == <<pc, heldEpoch, heldVersion>>
operator == <<receipt, answer>>
vars == <<row, effects, residue, mode, operator, memory>>

Statuses == {"not_started", "executing", "retry_wait", "executed",
             "execution_failed", "infra_exhausted"}
Failures == {"infra", "business", "partial"}
Outcomes == {"none", "absent", "partial", "complete"}

\* The row, the receipts and the workers' memory stay within the columns' values:
\* in particular a failure category is never stored as a status.
TypeOK ==
  /\ status \in Statuses
  /\ version \in Nat /\ epoch \in Nat /\ attempts \in Nat /\ effects \in Nat
  /\ holder \in Workers \cup {NoWorker}
  /\ lease \in {"none", "live", "expired"} /\ reconcileRequired \in BOOLEAN
  /\ retryAt \in {"none", "later", "due"}
  /\ residue \in {"none", "domain", "evidence"}
  /\ mode \in {"enforce", "shadow", "disabled"}
  /\ receipt \in [OperatorKeys -> Outcomes] /\ answer \in [OperatorKeys -> Outcomes]
  /\ pc \in [Workers -> {"idle", "claimed"} \cup Failures]
  /\ heldEpoch \in [Workers -> Nat] /\ heldVersion \in [Workers -> Nat]

Init ==
  /\ status = "not_started" /\ version = 1 /\ epoch = 0 /\ attempts = 0
  /\ holder = NoWorker /\ lease = "none"
  /\ retryAt = "none" /\ reconcileRequired = FALSE
  /\ effects = 0 /\ residue = "none" /\ mode = "enforce"
  /\ receipt = [k \in OperatorKeys |-> "none"]
  /\ answer = [k \in OperatorKeys |-> "none"]
  /\ pc = [w \in Workers |-> "idle"]
  /\ heldEpoch = [w \in Workers |-> 0] /\ heldVersion = [w \in Workers |-> 0]

-----------------------------------------------------------------------------
\* The CHECK constraints of the row: an UPDATE that breaks one aborts its
\* transaction, which then has not happened.
RowChecks == /\ (status = "executing") <=> (holder # NoWorker)
             /\ (status = "executing") <=> (lease # "none")
             /\ (status = "retry_wait") <=> (retryAt # "none")

\* clearClaim
ClearClaim == holder' = NoWorker /\ lease' = "none"

\* Mutants: a stale claim checked by its epoch only; not checked at all.
CurrentByEpoch(w) == heldEpoch[w] = epoch
CurrentUnchecked(w) == status = "executing"

\* assertClaim without the lease: the row is still the one this worker claimed
Current(w) == /\ status = "executing"
              /\ holder = w
              /\ epoch = heldEpoch[w]
              /\ version = heldVersion[w]

\* worker w goes on to step p of its run
Goes(w, p) == /\ pc' = [pc EXCEPT ![w] = p]
              /\ UNCHANGED <<heldEpoch, heldVersion>>

\* Mutant: a budget that is checked too late.
BudgetOverrun == attempts > MaxAttempts

\* The fence of a new claim: the next epoch, and a random token fresh with it.
FreshFence == epoch + 1
BudgetSpent == attempts >= MaxAttempts

ExpiredReclaim == status = "executing" /\ lease = "expired"
DueRetry == status = "retry_wait" /\ retryAt = "due"

\* Mutants: an executor that forgets dead workers; one that retries the parked.
ClaimableNotExpired == status = "not_started" \/ DueRetry
ClaimableParked == \/ status \in {"not_started", "infra_exhausted"}
                   \/ ExpiredReclaim \/ DueRetry

\* A candidate of listExecutionCandidates, and what claimExecution re-checks.
Claimable == status = "not_started" \/ ExpiredReclaim \/ DueRetry

-----------------------------------------------------------------------------
(* claimExecution: a fresh fence, one more attempt, and a reclaimed claim   *)
(* has to reconcile before it executes.                                     *)
Claim(w) ==
  /\ pc[w] = "idle" /\ mode = "enforce" /\ Claimable
  /\ ~BudgetSpent
  /\ status' = "executing"
  /\ version' = version + 1
  /\ epoch' = FreshFence
  /\ holder' = w /\ lease' = "live"
  /\ attempts' = attempts + 1
  /\ retryAt' = "none"
  /\ reconcileRequired' = ExpiredReclaim
  /\ pc' = [pc EXCEPT ![w] = "claimed"]
  /\ heldEpoch' = [heldEpoch EXCEPT ![w] = FreshFence]
  /\ heldVersion' = [heldVersion EXCEPT ![w] = version + 1]
  /\ UNCHANGED <<effects, residue, mode, operator>>
  /\ RowChecks'

\* claimExecution when the budget is spent.  It leaves next_retry_at as it
\* was, so RowChecks aborts it when the row is in retry_wait.
ClaimExhausts(w) ==
  /\ pc[w] = "idle" /\ mode = "enforce" /\ Claimable
  /\ BudgetSpent
  /\ status' = "infra_exhausted"
  /\ version' = version + 1
  /\ ClearClaim
  /\ UNCHANGED <<epoch, attempts, retryAt, reconcileRequired,
                 effects, residue, mode, operator, memory>>
  /\ RowChecks'

\* heartbeatExecution
Heartbeat(w) ==
  /\ pc[w] = "claimed" /\ Current(w) /\ lease = "live"
  /\ version < MaxVersion
  /\ version' = version + 1
  /\ heldVersion' = [heldVersion EXCEPT ![w] = version + 1]
  /\ UNCHANGED <<status, epoch, holder, lease, attempts, retryAt, reconcileRequired,
                 effects, residue, mode, operator, pc, heldEpoch>>

-----------------------------------------------------------------------------
(* executeClaim, one transaction.                                           *)

\* It reaches the adapter: enforced, not executed, no evidence, live claim.
Admitted(w) == /\ pc[w] = "claimed" /\ mode = "enforce"
               /\ residue # "evidence"
               /\ Current(w) /\ lease = "live"

\* The effect, its receipts, the executed row, the audit and the outbox event
\* commit together.  The worker sees the commit, or loses the acknowledgement
\* and takes it for a failure of the infrastructure or of the driver.
ExecuteCommit(w) ==
  /\ Admitted(w) /\ residue = "none"
  /\ status' = "executed"
  /\ version' = version + 1
  /\ ClearClaim
  /\ retryAt' = "none" /\ reconcileRequired' = FALSE
  /\ effects' = effects + 1
  /\ \E p \in {"idle", "infra"} : Goes(w, p)
  /\ UNCHANGED <<epoch, attempts, residue, mode, operator>>
  /\ RowChecks'

\* The request is executed already: its evidence is validated and returned.
ExecuteSeesExecuted(w) ==
  /\ pc[w] = "claimed" /\ mode = "enforce" /\ status = "executed"
  /\ Goes(w, "idle")
  /\ UNCHANGED <<row, effects, residue, mode, operator>>

\* A rolled back attempt, and how classifyExecutionError sorts its error:
\* runtime control off, lease lost or adapter error are "infra"; a rejection by
\* the domain is "business"; evidence, or a reconcile that finds domain rows,
\* is "partial"; any other database error is not recorded at all ("idle").
ExecuteOutcomes(w) ==
  IF mode # "enforce" THEN {"infra"}
  ELSE IF residue = "evidence" THEN {"partial"}
  ELSE IF ~(Current(w) /\ lease = "live") THEN {"infra"}
  ELSE IF residue = "none" THEN Failures \cup {"idle"}
  ELSE IF reconcileRequired THEN {"partial", "infra", "idle"}
  ELSE Failures \cup {"idle"}

ExecuteFails(w) ==
  /\ pc[w] = "claimed"
  /\ mode # "enforce" \/ status # "executed"
  /\ \E p \in ExecuteOutcomes(w) : Goes(w, p)
  /\ UNCHANGED <<row, effects, residue, mode, operator>>

Execute(w) == ExecuteCommit(w) \/ ExecuteSeesExecuted(w) \/ ExecuteFails(w)

-----------------------------------------------------------------------------
(* recordExecutionFailure, a transaction of its own.                        *)

\* Mutants: a quarantine that overrides final states; a category stored as status.
QuarantinesAnything(w) == pc[w] = "partial"
FailureStatusRaw(w) == pc[w]

\* Partial evidence stops the request whoever holds it now.
Quarantines(w) == pc[w] = "partial" /\ status \in {"executing", "infra_exhausted"}

FailureStatus(w) ==
  CASE pc[w] = "partial" -> "infra_exhausted"
    [] pc[w] = "business" -> "execution_failed"
    [] pc[w] = "infra" -> IF BudgetSpent THEN "infra_exhausted" ELSE "retry_wait"

RecordFailure(w) ==
  /\ pc[w] \in Failures
  /\ Quarantines(w) \/ Current(w)
  /\ status' = FailureStatus(w)
  /\ version' = version + 1
  /\ ClearClaim
  /\ retryAt' = IF FailureStatus(w) = "retry_wait" THEN "later" ELSE retryAt
  /\ Goes(w, "idle")
  /\ UNCHANGED <<epoch, attempts, reconcileRequired, effects, residue, mode, operator>>
  /\ RowChecks'

\* The claim is stale: the transaction is refused, the failure forgotten.
RecordRefused(w) ==
  /\ pc[w] \in Failures
  /\ ~(Quarantines(w) \/ Current(w))
  /\ Goes(w, "idle")
  /\ UNCHANGED <<row, effects, residue, mode, operator>>

-----------------------------------------------------------------------------
(* reconcileExhaustedExecution.  A command with a stale expected version is *)
(* refused without a trace, so k stands for a command with the right one.   *)

\* Read-only reconcile finds nothing: back to the automatic executor.
IncidentRetry(k) ==
  /\ mode = "enforce" /\ receipt[k] = "none"
  /\ status = "infra_exhausted" /\ residue = "none"
  /\ status' = "retry_wait"
  /\ retryAt' = "due"
  /\ reconcileRequired' = FALSE
  /\ version' = version + 1
  /\ receipt' = [receipt EXCEPT ![k] = "absent"]
  /\ answer' = [answer EXCEPT ![k] = "absent"]
  /\ UNCHANGED <<epoch, holder, lease, attempts, effects, residue, mode, memory>>
  /\ RowChecks'

\* It finds domain rows, of part of the effect or of all of it: stays parked.
IncidentPartial(k) ==
  /\ mode = "enforce" /\ receipt[k] = "none"
  /\ status = "infra_exhausted" /\ residue = "domain"
  /\ version' = version + 1
  /\ receipt' = [receipt EXCEPT ![k] = "partial"]
  /\ answer' = [answer EXCEPT ![k] = "partial"]
  /\ UNCHANGED <<status, epoch, holder, lease, attempts, retryAt, reconcileRequired,
                 effects, residue, mode, memory>>

\* The command is delivered again, or the request is executed by now.
IncidentReplay(k) ==
  /\ mode = "enforce"
  /\ receipt[k] # "none" \/ status = "executed"
  /\ answer' = [answer EXCEPT ![k] = IF status = "executed" THEN "complete" ELSE "absent"]
  /\ UNCHANGED <<row, effects, residue, mode, receipt, memory>>

-----------------------------------------------------------------------------
(* The environment.                                                         *)

LeaseExpires ==
  /\ lease = "live"
  /\ lease' = "expired"
  /\ UNCHANGED <<status, version, epoch, holder, attempts, retryAt, reconcileRequired,
                 effects, residue, mode, operator, memory>>

RetryComesDue ==
  /\ retryAt = "later"
  /\ retryAt' = "due"
  /\ UNCHANGED <<status, version, epoch, holder, lease, attempts, reconcileRequired,
                 effects, residue, mode, operator, memory>>

\* The process dies between two of its transactions, or its database
\* connection does: the claim stays on the row, the memory is lost.
Crash(w) ==
  /\ pc[w] # "idle"
  /\ Goes(w, "idle")
  /\ UNCHANGED <<row, effects, residue, mode, operator>>

\* An administrator switches the runtime control of the scope.
SetMode(m) ==
  /\ mode # m
  /\ mode' = m
  /\ UNCHANGED <<row, effects, residue, operator, memory>>

\* Someone else (a data repair, a restored backup) leaves or removes rows
\* under the execution key of a request that is not executed.
Drift(r) ==
  /\ status # "executed" /\ residue # r
  /\ residue' = r
  /\ UNCHANGED <<row, effects, mode, operator, memory>>

WorkerStep(w) == \/ Claim(w) \/ ClaimExhausts(w) \/ Heartbeat(w)
                 \/ Execute(w) \/ RecordFailure(w) \/ RecordRefused(w)
                 \/ Crash(w)

OperatorStep(k) == IncidentRetry(k) \/ IncidentPartial(k) \/ IncidentReplay(k)

Next == \/ \E w \in Workers : WorkerStep(w)
        \/ \E k \in OperatorKeys : OperatorStep(k)
        \/ LeaseExpires \/ RetryComesDue
        \/ \E m \in {"enforce", "shadow", "disabled"} : SetMode(m)
        \/ \E r \in {"none", "domain", "evidence"} : Drift(r)

Spec == Init /\ [][Next]_vars

\* Time passes, and the interval timer of every process keeps running its
\* cycle: it claims what is listed, executes what it claimed and records what
\* failed.  Nothing obliges an operator, an administrator or a heartbeat.
Fairness ==
  /\ WF_vars(LeaseExpires) /\ WF_vars(RetryComesDue)
  /\ \A w \in Workers : /\ WF_vars(Claim(w) \/ ClaimExhausts(w))
                        /\ WF_vars(Execute(w))
                        /\ WF_vars(RecordFailure(w) \/ RecordRefused(w))

FairSpec == Spec /\ Fairness

-----------------------------------------------------------------------------
(* Properties.                                                              *)

\* The approved effect is committed exactly once, and the request says so:
\* no crash, reclaim, lost acknowledgement, retry or late worker duplicates
\* it, and no request is reported executed without it.
EffectExactlyWhenExecuted == effects = IF status = "executed" THEN 1 ELSE 0

\* No two workers ever hold claims with the same fence, and the fence of the
\* row is the newest: whoever holds an older one can be told apart.
ClaimsFenced ==
  \A u \in Workers : pc[u] # "idle" =>
    /\ heldEpoch[u] <= epoch
    /\ \A w \in Workers \ {u} : pc[w] # "idle" => heldEpoch[u] # heldEpoch[w]

\* Every start of an execution is paid from the budget, whoever dies before
\* recording how it ended, and operators do not extend the budget.
AttemptsWithinBudget == epoch = attempts /\ attempts <= MaxAttempts

\* A worker whose claim was taken over or has ended changes nothing, except
\* that partial evidence it found stops a request that is not executed.
StaleWorkerHarmless ==
  [][ \A w \in Workers :
        /\ pc[w] # "idle" /\ pc'[w] # pc[w]
        /\ heldEpoch[w] # epoch \/ status # "executing"
        => \/ UNCHANGED <<row, effects>>
           \/ pc[w] = "partial" /\ status' = "infra_exhausted" /\ UNCHANGED effects ]_vars

\* A quarantined request is reopened only by an operator command that was not
\* used before, whose reconcile found nothing under the execution key, and it
\* goes to the automatic executor, never straight into execution.
ParkedUntilOperator ==
  [][ status = "infra_exhausted" /\ status' # status
      => /\ status' = "retry_wait"
         /\ residue = "none"
         /\ \E k \in OperatorKeys : receipt[k] = "none" /\ receipt'[k] = "absent" ]_vars

\* The abstract specification it implements.
Outcome == CASE status = "executed" -> "applied"
             [] status = "execution_failed" -> "refused"
             [] status = "infra_exhausted" -> "parked"
             [] status \in {"not_started", "executing", "retry_wait"} -> "open"

Abstract == INSTANCE EffectOnce WITH outcome <- Outcome, effects <- effects

\* The execution protocol implements EffectOnce: one effect, committed by the step
\* that makes the request executed, and never out of a refused or parked one.
AbstractSpec == Abstract!Spec

\* While execution stays enforced, a request that is new or whose worker may
\* have died is executed, refused or parked: nothing is left executing.
Settled == status \in {"executed", "execution_failed", "infra_exhausted"}
ClaimsSettle ==
  <>[](mode = "enforce") => (status \in {"not_started", "executing"} ~> Settled)

\* What the access contract promises of an authorised incident retry: the
\* ordinary executor claims the request again.
IncidentRetryResumes ==
  <>[](mode = "enforce") => (status = "retry_wait" ~> status # "retry_wait")

\* What the runtime contract promises of a repeated client key: it never
\* tells the operator of a parked request that it was requeued.
ReplayKeepsOutcome ==
  \A k \in OperatorKeys : receipt[k] = "partial" => answer[k] # "absent"
=============================================================================

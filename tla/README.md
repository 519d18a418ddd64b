# Verification of jinhu-smart-park

TLA+ models of the core protocols of the smart-park platform, TLC runs on small
instances, and TLAPS proofs. Paths are relative to the repository;
`PA` stands for `apps/api/src/modules/property-approvals`, and line numbers are
those of the commit the models were written from; `CA` stands for
`apps/api/src/modules/canteen`, `HO` for `apps/api/src/modules/housing`, `LE` for
`apps/api/src/modules` and `SH` for `apps/api/src/shared`. `PROJECT.json` maps every
definition to the lines it models.

Run `tlc -workers 2 -config X.cfg M` for a run of the table below and
`tlapm M.tla` for the proofs of a module `M` named `*Proofs`.

## 1. Inventory

The repository is a NestJS API over PostgreSQL, a web client and an Android
client. Most of the modules are forms over single rows guarded by permissions. The
protocols, where several processes act on shared state over several
transactions, are concentrated in the property domain, and there in
`property-approvals`: its workers run in every API process, talk only through
the database, and decide whether money, keys and occupancies really change. Money
itself is kept by the canteen and by leasing, each with services of its own that
write the same rows in separate transactions.

| Component | State it keeps | Operations | Correct means |
|---|---|---|---|
| Approval decision (`PA/property-approval.service.ts`) | request row, stage rows, decision rows, mutation receipts | draft, submit, decide, withdraw | approved only by a quorum of different eligible checkers in stage order; one command per view; final stays final |
| Approval execution (same file, `property-approval.execution.worker.ts`) | `execution_*`, claim, lease, retry and reconcile columns of the request; receipts of incident commands | claim, heartbeat, execute, record failure, incident reconcile | effect committed exactly once; stale workers harmless; budget; nothing left executing |
| Runtime control (`property-runtime-control.ts`) | one row per scope: enforce, shadow, disabled | read by each execution transaction, set by administrators | switching never commits half an effect or strands a request |
| Event outbox and publisher (`PA/outbox/property-event*.ts`) | outbox rows with claim, lease, attempts | append, claim, publish, mark | per ordering key published in order, none lost |
| Consumer inbox | inbox rows; the consumer's own tables in the same transaction | consume, quarantine a checksum mismatch | handled at most once, in order |
| Dead letter queue | DLQ rows with version | operator replay of a publisher or consumer failure | every dead event has exactly one way out, a replay ends |
| Request port (`createPendingRequest`) | the requests of a source | called in the domain's transaction, under the lock of the source's row | no request beside a live or after a final one of the same version |
| Idempotent writes (`SH/interceptors/idempotency.interceptor.ts`, `SH/services/idempotency*.ts`) | a row per user, path and key: reservation, answer | reserve, take over, answer from the row, mark, clean up | a repeated command is answered as the first time |
| Housing lease (`HO/housing-lease-command.service.ts`, `HO/housing-lease-approval-executor.service.ts`) | the lease: status, version, signature | submit, ask for approval or voiding, sign, activate, execute | the lease is where its executed approvals brought it |
| Notification delivery (`PA/outbox/property-notification*.ts`) | deliveries per recipient and channel, their audit | project, claim, send, retry, exhaust, replay, mark read | reported delivered only if sent; sent or handed to an operator |
| Property tasks, occupancies, identity | tasks, occupancies, submissions | orchestrate, reconcile, verify | no overlapping exclusive occupancy |
| Canteen sales and subsidy (`CA/canteen-{checkout,payment-app,webhook,refund,subsidy,subsidy-grant}.service.ts`, `canteen-timeout.scheduler.ts`) | orders, payments, meals, refunds; wallet, its journal, grants | check out, channel callback, time out, ask for, approve or reject a refund, grant, expire | tables of one sale agree; money comes back once; the journal explains the wallet |
| Leasing receivables and payments (`LE/leasing-{receivables,payments,waivers,invoices}`) | receivables, payments and their applications, waivers, invoices and their allocations | generate, apply, waive, invoice, edit, void, recalculate, cancel, adjust | rows agree with themselves and with what refers to them |
| Leasing contracts and leads; canteen menu, sessions, settlements | contracts, checkouts, leads; menus, settlements | status changes of single rows | |
| Authentication, roles, data scopes | sessions, refresh tokens, grants | login, refresh, authorise | a rotated token is used once |
| HR, safety, engineering, work orders, IoT, robots, energy, park master data, files, audit | rows of their own | forms, imports, device I/O | mostly single-row status checks |
| Clients, packages, migrations, scripts | | | |

**How they interact.** A domain service asks for approval through the port inside
its own transaction. People submit and decide over HTTP. A scheduler in every API
process (`PA/property-approval.runtime.scheduler.ts:30-74`) runs a cycle every few
seconds: execute approved requests, publish events, republish consumer replays,
deliver notifications. An execution calls the domain's effect adapter, writes the
receipts and appends the outbox event in one transaction. The publisher hands an
event to a `PropertyEventPublisherPort`; the one in production,
`PropertyLocalEventPublisher`, calls the notification consumer directly. Operators
step in through the incident and the DLQ commands.

**What is hard.** Any process may die between two of its transactions; a lease may
expire under a slow worker that still acts; a commit may succeed and its
acknowledgement be lost; commands and events are delivered late, twice and out of
order; runtime control is switched in between; exhausted work waits for operators
whose own commands are repeated. Clients repeat their writes under a key, and the layer
that answers repetitions has reservations that run out under a slow handler. `PROJECT.json` lists these hazards at the line
where they bite, with the properties that would notice.

## 2. The modules

| Module | What it is |
|---|---|
| `EffectOnce` | abstract: an approved effect is applied, refused or parked, and applied once |
| `ApprovalExecution` | workers, incident operator, runtime control and leases around one request |
| `ApprovalExecutionProofs` | the theorems about it |
| `MCApprovalExecution` | its instances |
| `ApprovalDecision` | submit, decide and withdraw of one request with its stages |
| `MCApprovalDecision` | its instance: four actors, stages of two checkers and one |
| `OrderedDelivery` | abstract: a consumer handles the appended events, each once, in order |
| `PropertyOutbox` | outbox, publishers, broker or local transport, inbox, DLQ, replay |
| `MCPropertyOutbox` | its instances |
| `NotificationDelivery` | delivery workers, channel and operator replay around one delivery |
| `MCNotificationDelivery` | its instances |
| `SaleLifecycle` | abstract: a sale is settled, dropped or given back, charged once and returned once |
| `CanteenSales` | the sales to one employee, the subsidy wallet, payment channel, refunds, grants |
| `MCCanteenSales` | its instance: two orders on one wallet over two months |
| `LeasingLedger` | the receivables of one tenant with payments, waivers, invoices and stale editors |
| `MCLeasingLedger` | its instance: two receivables, one of everything else |
| `IdempotentWrites` | the layer in front of write operations: rows, calls, marks, cleanup; the handler is open |
| `ApprovalPort` | extends it: the port's lookups and the requests of one source |
| `HousingLease` | extends that: a lease, its operations and the executor, the whole from client to effect |
| `MCHousingLease` | its instance: two calls at a time, two keys |
| `ApprovalDecisionProofs`, `PropertyOutboxProofs`, `NotificationDeliveryProofs`, `CanteenSalesProofs`, `LeasingLedgerProofs`, `HousingLeaseProofs` | the theorems about the module each is named after |
| `SumTheorems` | sums over finite sets, as far as the proofs of the ledger need them |

`ApprovalExecution` implements `EffectOnce`, `PropertyOutbox` implements
`OrderedDelivery` (`AbstractSpec` in both) and `CanteenSales` implements
`SaleLifecycle` (`SaleSpec`). Each is checked as a property and proved.

### ApprovalExecution

Every handler is one transaction that begins with `SELECT ... FOR UPDATE` of the
request row. So a handler's transaction is one action, its compare-and-set always
matches under that lock, and requests are independent: one request is enough. The
variables are the columns, the workers' memory between two transactions (`pc`, the
claim held), the committed effects under the execution key, the control row and
the receipts of the incident commands.

- `Claim`, `ClaimExhausts`: `claimExecution` (service 1045-1169), with the check
  constraints of the table (`RowChecks`), which abort a transaction.
- `ExecuteCommit`, `ExecuteSeesExecuted`, `ExecuteFails`: `executeClaim` (1205-1372).
  The commit may lose its acknowledgement. What an attempt that rolls back is
  classified as follows `classifyExecutionError`.
- `RecordFailure`, `RecordRefused`: `recordExecutionFailure` (1700-1769), a separate
  transaction; `FailureStatus` and `Quarantines` are its branches.
- `IncidentRetry`, `IncidentPartial`, `IncidentReplay`:
  `reconcileExhaustedExecution` (1374-1611).
- `Heartbeat`: no worker calls `heartbeatExecution` in production; it is modelled
  because it is part of the service, and gets no fairness.

Time is abstracted to what the SQL compares: a lease is live or expired, a retry due
or not. A claim's token is fresh with its epoch, so the epoch stands for both. A
command with a stale expected version is refused without trace and left out.
`Drift` is external: rows under the execution key that the runtime did not write, the
reason the code reconciles. Effect adapters are external, reduced to their outcome.

### ApprovalDecision

Every command a client has sent stays in `sent`, so it can reach its handler late,
repeatedly and in any order. A handler that finds its receipt, or fails a check,
changes nothing and is no action. `Eligible` is a constant, although the code
evaluates permissions at each decision: grants that change in between are not
modelled. The draft with its frozen policy is the initial state. No handler
expires a request, although schema and contract know the status, so nor does the
model.

### PropertyOutbox

Every condition of the SQL is per ordering key, so the module has one key, its
events named by position, and one consumer. `transport`, chosen at start, is the publisher port:
`"broker"`, an at-least-once broker that keeps, repeats and reorders copies and may
have taken one although the call failed; or `"local"`, the port in production.
`Routed` are the events the local one has a projection for. The branch of
`prepareEventReplay` for a dead letter whose event is not dead is unreachable by
`DeadLettersMatch`. Runtime control of the publisher only delays it and is left out, as
are receipts of replay commands. A later migration's trigger
(`fn_guard_property_outbox_runtime_integrity`) forbids transitions the model never
takes.

### NotificationDelivery

A worker claims a batch of deliveries and works through it one by one
(`property-notification.worker.ts`); the rows do not interact, so the module has one.
Its `Crash` is also the run that `failDelivery` throws out of its batch: both leave
claims behind.

- `Claim`: `claimDeliveries` (notification repository 270-309). Every update of the row
  moves its version, epoch or status, so a claim is known by its epoch.
- `Deliver`: the call of the channel, which may have taken the message though the call fails.
- `CompleteDelivery`, `CompleteFails`: `completeDelivery` (311-373) with the dead letter a
  replay left `replaying`; its commit may be lost, and a failure of it sends the worker to
  `failDelivery`, as any error of the channel does (worker 29-46).
- `FailDelivery`: 375-438, with the dead letter of an exhausted delivery.
- `StaleClaim`: either of them finds no row under the claim.
- `Replay`: `prepareEventReplay` for a delivery (event runtime repository 527-598). Its
  quarantine of a dead letter whose delivery is not exhausted is unreachable by
  `DeadLetterMatches`.
- `blocked`: a consumer replay that cannot be published ends the cycle of its process
  before the deliveries (event worker 121-137, scheduler 66-74). It says what
  `PropertyOutbox` says in its own terms; here it comes and goes as it pleases.

The check constraints of the row hold by `AttemptsExplained`, so no report aborts. The
projection that inserts the row is the consumer of `PropertyOutbox`.

### CanteenSales

Wallets of different employees do not interact, so the module has one employee, whose
orders share a wallet. A transaction that holds the row lock of the wallet or the order
from its first read to its commit is one action; a repeated callback or a refused request
changes nothing and is none. Not everything is under a lock:

- `CheckoutMixed` (subsidy 166-171) plans the subsidy share from the balance it reads and
  reserves nothing; `ApplySuccess` takes it when the channel reports the payment. Between
  them other orders, grants and the expiry use the same balance. `Charge` consumes what is
  missing all the same and stops the balance at zero, as 432-435 do.
- `Timeout` (timeout scheduler 38-51) closes without asking the channel; the channel may have
  taken the money and report it later. The report is then refused and changes nothing,
  so the money the channel keeps is not part of the state.
- `ApproveCall`, `ApproveCommit`, `ApproveAbort`: `approve` calls the channel from within
  its transaction (refund 153), so what the channel did stays when the commit fails.
  `back` is what it did. `ApproveWallet` needs no channel and is one action.
- `ExpireList`, `ExpireOne`: `runExpire` lists wallets of a period and locks them by id
  later, whatever their period is by then (subsidy grant 278-329).
- `GrantRead`, `GrantOne`, `GrantFail`: `grantOneEmployee` locks nothing. TypeORM's `save`
  (subsidy grant 155) reads the wallet again, to find the columns in which it differs from
  the new period's, and updates these after waiting for whoever holds the row's lock. What a
  charge or an expiry has committed meanwhile stays in the other columns, while the line of
  the journal (189) says what the wallet should have been. `GrantRead` is that comparison,
  `granting` what it has read, `GrantOne` the update and the rest of the transaction. A
  wallet is inserted where none was read; a second one of the employee, and a second
  grant of a period, are refused by unique indexes (`GrantFail`).
- `RefundedCallback`: the webhook handles the channel's report of a refund as a closing.

The buyer and the channel are external: callbacks that may come at any time. Stock,
settings, eligibility and freezing of wallets are not modelled.

### LeasingLedger

Applications, approvals of waivers and invoices lock the receivables in the order of
their ids, then their own row, and repeat their checks: one action each (`Apply`,
`WaiverApprove`, `InvoiceSave`, `InvoiceDelete`). So are the parts of a checkout and of a
contract change that touch receivables (`Cancel`, `Adjust`). The other handlers
(`Edit`, `Void`, `Regenerate`, `Recalculate` of a receivable, `EditPayment`, `VoidPayment`)
lock nothing. They read a row and decide: an editor's `memory` is what it read and what
it wants to write. Then TypeORM saves it in two steps. `SaveCompare` reads the row once more,
not waiting for a lock, and keeps the names of the columns that differ from the entity;
`SaveUpdate` writes these columns, once nobody else holds the row's lock, and leaves the
others as they are by then. So a row may mix what two writers decided. A `generated` or
`partial` row may be written as `overdue` or not, so its status may differ though the model
gives it one name (`dated`). `GiveUp` is a later check that fails or a process that dies.

The update of an invoice without `receivables` locks, but trusts what it read before
(invoices 111-128): under the locks it validates the old amounts (141) and writes the old status
or the client's (154), rechecks nothing but the set of ids (138), and keeps the allocations
there are by now (160). `EditInvoice` is the read, `InvoiceUpdate` the transaction. The set of ids
is read after the amounts, so it may be as new as the locks, and the check excludes nothing.
With `receivables`, allocations are replaced by what was validated: `InvoiceSave`, as `create`.

`recalculateOverdue` saves the rows it has read one by one; here each is an editor of its
own. Overdue days only decide whether `generated` and `partial` read `overdue`, and are
left out, as are manual receivables, late fees, dues of zero and queries.

### IdempotentWrites, ApprovalPort, HousingLease

One client call runs through all three: the interceptor reserves a row, the handler locks
the lease and asks the port, and the answer is kept in the row. So the modules extend
each other, and `HousingLease` has the next-state relation.

- `TryBegin` (`SH/services/idempotency.service.ts` 64-78): the row of a key stays locked from lookup
  to commit, so it is one step. `InsertProcessing` and `TakeOver` are the ways to
  begin; a call refused for another body or a live reservation changes nothing.
- `Succeed`, `Fail` (interceptor 96-119): the answer is marked in the row, or the mark fails
  and is only logged. `Mark` matches the row by its id, whoever has reserved it by now.
  `Fail` is also the death of the process.
- `CleanupFinds`, `CleanupDeletes` (137-162): rows are listed, then deleted by their ids.
- `Ask`: `approve` and `void` (lease service 110-146, 183-218) up to the port's first lookup, which
  is the first read after the lock was taken. `ReadActive` and `Create` are steps of their
  own, because decisions and executions are committed in between without the lock
  (READ COMMITTED). `LeaseFree` is that lock.
- `Submit`, `Sign`, `Activate`, `Execute`: single transactions under the lock. They raise the
  version, a TypeORM version column or `version+1` in the executor's SQL.
- `RefuseExecution`: the executor finds another version (executor 145), which is classified as
  a business failure and final. Any other trouble of the executor is taken for
  infrastructure and leaves the request approved.

There are no clocks: a reservation may have run out whenever it is looked at, a row may
be old whenever no call works under its key. `RetryableStates` has one member for rejected
and withdrawn, which the port treats alike; `approved` stands for what `ApprovalExecution` does between
approval and its two ends. A body is what a client sends and as whom. `told` is a history
that only properties read. `resolvePortConflict` (service 556-606) is reached when an insert
meets a row the lookups did not see; callers hold the lock of the source, so for one source it
is not reached. `submit`, `sign` and `activate` stand behind the same interceptor, but what a
repetition of them does is decided by the status of the lease; it is modelled for the two
that go to the port. Occupants, checkout, handover and what an activation does to
occupancies and receivables are left out.

## 3. Runs

| Run | Shows |
|---|---|
| `execution` | two workers, a budget of three, two incident commands: effect exactly once, budget, stale workers, quarantine, refinement of `EffectOnce`; while execution stays enforced, a new or claimed request settles |
| `decision` | quorum, order of stages, counters, one command per view, finality, with people who send under two client keys |
| `outbox` | two publishers, two events, broker or local port: order, dead letters, stale publishers, refinement of `OrderedDelivery`; each appended event that a broker, or a route of the local port, takes is handled, or it or a predecessor waits for an operator |
| `delivery` | two workers: dead letter and audit match the delivery, delivered means sent, stale reports are harmless; it settles while nothing holds up the cycle |
| `canteen` | two orders on one wallet over two months: tables of a sale agree, money comes back once, the journal explains the wallet, its identity breaks by a shortfall or a late grant only, refinement of `SaleLifecycle`; an open sale closes |
| `leasing` | two receivables, payment, waiver, two invoices and a stale editor: rows agree with themselves and with what refers to them until an editor saves a row, or updates an invoice, that changed under its hands |
| `housing_lease` | two calls at a time under two keys, two insertions of a row, a lease up to version 5: requests for one action stand in line, the lease follows its executed requests, answers stay with the command of their key |
| `incident_retry`, `incident_replay`, `local_transport`, `consumer_replay`, `replay_trouble` | findings, below: one violated property each |

**Bounds.** Two workers and two publishers are what a race needs: one that holds a stale
claim and one that holds the current one. A budget of three attempts allows a first
claim, a takeover and an exhaustion, 8 in the code. `MaxVersion` only stops
heartbeats, since each of them moves the version. Two events give a predecessor and
a successor, and with the local port an event without a route before one with a route; two
publication attempts reach retry and dead letter. `MaxEpoch` bounds lease
expiries, crashes and publisher replays of an event, `MaxIncidents` its checksum
mismatches; one of each happens before, during and after every other step. `MaxSent` of 5
is a submit, the three approvals that complete the request and one command too many,
or two that race at each step. A client key serves an actor for one decision, so one
person who tries to decide in both stages needs a second key; the keys are symmetric.
The maker, who drafts and submits, holds the checker's permission, and one checker is
eligible in both stages. `Excluded` is empty there: `MayCheck` treats an exclusion as
it treats the maker. In `delivery`, a budget of two attempts reaches retry and exhaustion
and `MaxEpoch` of 5 lets a replayed delivery be reclaimed and exhausted again.
The copies a broker may hold are those of versions up to
`MaxIncidents + 2`, the last replay's version included.

In `canteen`, two orders are what a wallet needs to be promised twice: at a price of 2 and a
grant of 3, two mixed orders overdraw it, and so does one whose share expires first. Two
months let a grant, a refund and an expiry meet the wallet of another period; two
refunds of the first order let a second one follow a rejected one, and one of the second
order (`MaxRefunds` is a bound per order) suffices beside them. In `leasing`, two dues of 2 settled in units of 1 make
a receivable generated, partial and paid, by a payment, a waiver or both; one payment may be
spread over both receivables, `MaxApplied` and `MaxInvoiced` of 2 cover a receivable in full
and split an invoice; one editor is stale already when a transaction runs between two of its
steps. Two invoices share a receivable, so that an update of one may be outrun by the other.
The second receivable is one that is only paid or one that was voided: `MaxOfBoth` bounds
what is applied, waived and invoiced of both while it is paid, `MaxOfOne` what is raised of
the first once it is void. Each drift the properties except happens within them, and the
theorems have no such bounds.

In `housing_lease`, two calls are one that works under a reservation and one that takes it over,
or two that meet at the lock. Two keys, not both for the approval, are two users who ask
for the same action, or for one each; keys are symmetric, and so are calls. `MaxRows` of 2
lets a row be deleted and its key used again. Five versions are a submission, an approval, a
signature and an activation or a voiding. Two bodies per key, and the third key that the
conflict branch of `ReadActive` needs, make the instance too large for one
run: these cases are covered by the proofs, which hold for all keys and bodies. The safety
properties of `outbox` are proved for all bounds, so its bounds serve its liveness property:
one checksum mismatch, and two publishers of whom each may die with its claim.

**Deadlock** is checked in the execution and delivery runs. In the decision, outbox,
canteen, leasing and lease runs it is off: clients stop sending, a delivered outbox has nothing
to do, a canteen or ledger whose sales and dues are settled may come to rest, and so may a
lease that is void or active.

**Fairness.** Weak fairness of the workers' steps is the interval timer, which goes on
after a failed cycle (scheduler 49-66) and starts again with the process; of lease
expiry and due retries, that time passes; of the broker, that a copy it holds is
delivered; of `Timeout`, that the interval of the payment timeout scheduler goes on. Operators, buyers, the payment channel, reviewers, administrators, clients, heartbeats and crashes are not fair.
`ClaimsSettle` assumes that runtime control stays at enforce from some time on, since
otherwise the code rightly executes nothing; `DeliverySettles` that
consumer replays hold up the cycle no more from some time on. The bounds end crashes and
expiries: a claim is no attempt, so a message that kills its worker each time would be
claimed for ever.

## 4. What is proved

Every theorem holds for all values of the constants that satisfy the module's
assumptions. Each module of proofs ends its invariants in one theorem, `Invariance`
(`SpecIInv` for the lease, `BookInvariance` besides for the ledger), from which the others follow.

Some state a checked property for every instance, some say how far a finding of section 5
reaches (`VainTheorem`, `RouteTheorem`, `NeverResolvedTheorem`): no budget, number of
processes or operator leads out of these dead ends. Others say what a defect is alone to
blame for: `BackedTheorem` and `BalancedTheorem` assume that its steps are not taken, and
the books agree.

**`ApprovalExecutionProofs`**, under `WorkerAssumption` (`NoWorker` is no worker) and
`BudgetAssumption` (the budget is a positive number): `TypeCorrect` (`[]TypeOK`),
`EffectOnceTheorem` (`[]EffectExactlyWhenExecuted`), `FenceTheorem` (`[]ClaimsFenced`),
`BudgetTheorem` (`[]AttemptsWithinBudget`), `StaleTheorem` (`StaleWorkerHarmless`),
`ParkedTheorem` (`ParkedUntilOperator`), `Refinement` (`AbstractSpec`, under the mapping
`Outcome`). That the effect is committed once follows from
`Current`, which an executed row never satisfies, and from the absence of any step
out of `executed`; the fence needs that each claim draws a larger epoch than all that
are held, and the budget that the epoch counts the claims. `LeavingQuarantine` is the key to
`ParkedTheorem`: of all actions only an incident retry leaves quarantine. `VainTheorem` is
finding 1 for every budget: a request that is requeued without an attempt left
(`RetriedInVain`, where `VainRetry` shows the retry to lead) stays so in every behaviour, and its
effect is never committed.

**`ApprovalDecisionProofs`**, under `PolicyAssumption`: `TypeCorrect`, `QuorumTheorem`
(`[]ApprovedByQuorum`), `OrderTheorem` (`[]StagesInOrder`), `CountsTheorem`
(`[]CountsMatchRows`), `ViewTheorem` (`[]OneCommandPerView`), `EndsTheorem`
(`[]EndsAreExplained`), `FinalTheorem` (`FinalIsFinal`). The quorum is not inductive: the
handler compares a counter, not the rows. `Inv` adds that the counters
count the rows, the stages follow their counters, the request follows its stages, and
each stage was decided in turn by people who were allowed to.

**`PropertyOutboxProofs`**, under `OutboxAssumption`: `TypeCorrect`, `OrderTheorem`
(`[]PublishedInOrder`), `DeadLettersTheorem` (`[]DeadLettersMatch`), `StalePublisherTheorem`
(`StalePublisherHarmless`), `Refinement` (`AbstractSpec`). `Inv` adds that the appended events
leave no gap, that a replay is the last attempt of its event, that dead letters' versions
are bounded, and that what the consumer handled is a prefix of the published events, which
is what the refinement rests on. `RouteTheorem` (finding 3): with the local port no routed
event is published, by an invariant of its own, and nothing is ever handled.
`NeverResolvedTheorem` (finding 4): once an event has an open dead letter of the consumer, and was
handled before, or is not published and nobody is publishing it, this stays so and the key
stays isolated; a publisher's stale claim does not help, since no one remembers a claim newer than
the event's last (`ClaimsFenced`).

**`NotificationDeliveryProofs`**, under `DeliveryAssumption`: `TypeCorrect`,
`DeadLetterTheorem` (`[]DeadLetterMatches`), `AttemptsTheorem` (`[]AttemptsExplained`),
`ReportedTheorem` (`[]ReportedIsSent`), `StaleReportTheorem` (`StaleReportHarmless`). `Inv` adds
that claims are ordered by epoch and none is older than the audit, and that a worker
about to report a message as sent holds a claim under which the channel took it.

**`CanteenSalesProofs`**, under `CanteenAssumption`: `TypeCorrect`, `RecordsTheorem`
(`[]RecordsAgree`), `ReturnedTheorem` (`[]ReturnedOnce`), `JournalTheorem`
(`JournalExplains`), `BalanceTheorem` (`[]JournalAgrees` under `NoLateGrant`),
`ShortfallTheorem` (`BrokenByShortfallOrLateGrant`), `Refinement` (`SaleSpec`).
`Inv` says of every sale what its tables say (`Agrees`): at most one refund is under review
and only of a settled sale, the channel is called for that one only, and the lines of a
sale in the journal follow its order. The proof has a lemma for every group of actions;
sales that an action does not touch keep what is said of them (`UntouchedAgrees`). The
abstract counters turn out to be functions of the order's row (`Counts`), so the
refinement needs no more than `OrderMoves`, the moves of that row. `JournalExplains` is about
steps, since a late grant leaves a balance that no line says; `BalanceTheorem` concludes
that without one (`NoLateGrant`, which a lock in `grantOneEmployee` would enforce) the last line
is the balance at all times. `GrantWrites` says what a grant leaves in the wallet, late or not.
`BalancedTheorem`: without a `Shortfall` and a late grant the wallet's identity holds at all times.

**`LeasingLedgerProofs`**, under `LedgerAssumption` (a tenant has finitely many rows, amounts are
positive, receivables, payments and invoices have different names): `LedgerTyped`
(`[]TypeOK`), `MixedTheorem` (`MixedOnlyByStaleSave`), `ShrinksTheorem` (`ShrinksOnlyByStaleSave`),
`DriftTheorem` (`DriftOnlyByStaleWrite`), `RowsTheorem`, `BackedTheorem`. `Inv` says of an editor
that what it is about to save is decided on the row that it has read, however stale: the
paid and waived amounts are those it has read, and the result agrees with itself if what it has
read does. `BookInv` adds the types, and what an editor leaves as it has read it (`Careful`):
the invoice status, the dues of a row with activity, and of a payment, that its rest is the
amount less the applications it has counted. A `SaveUpdate` that is not a `StaleSave` leaves
the row the editor decided on, whichever columns it writes. `DriftTheorem` then has a lemma for each side of
a step: what the transactions under the locks do to a receivable they do to what refers to it
(`SettleBacks`), and to a payment (`SettlePays`); a save of a row that is as it was read
changes neither, and so does an update of an invoice whose allocations are.
`RowsTheorem` and `BackedTheorem` draw the conclusions: under `NoStaleSave`, which a
version column would enforce, every row agrees with itself at all times; under `NoStaleInvoice`
besides, which a read under the locks would, all rows are backed by what refers to them at
all times, and what was paid of the receivables is in all what was used of the payments
(`Conserved`), which sums the table of applications both ways.

**`SumTheorems`** is about `SumFunctionOnSet` for finite sets, the fold that the ledger's sums
are: taking out a summand (`SumOut`), changing one (`SumUpdate`), adding two sums (`SumPlus`), leaving out
zeros (`SumWithoutZeros`), exchanging two sums (`SumSwap`). The fold declares a recursive function
over the subsets, whose existence has to be proved first (`SumsExists`, `SumsUnique`). The library's
induction theorems take a predicate as a parameter, which the provers cannot instantiate;
`SubsetInduction` takes the set of the subsets for which the claim holds instead,
and rests on a minimal element of the others, by well-foundedness of the subsets of a finite set.

**`HousingLeaseProofs`**, under the assumptions of the three modules (bounds are positive, no
body is `NoBody`, a key is used for an approval or a voiding): `SpecTypeOK`,
`SpecRequestsInLine`, `SpecLeaseFollowsRequests`, `SpecAnswersFollowKey`, all from `SpecIInv`.
`IInv` adds `PortHoldsLock` (a call in the port holds the lock alone, its
key has made no request, and once the second lookup found none under way there is none until
it is over), `VersionsFit` (executed requests are behind the lease, those of its version fit its
status), `OneRequestPerKey`, `RowsMatch` and `AnswersFit` (an answer kept, sent or on its way is about
its command and not later than the key's own request). `NewRequestInLine` is the heart
of it: the port looks at the latest terminal request only, and this suffices because the
requests of an action already stand in line. The type of an answer says that it names a request
there is, so even `SpecTypeOK` needs the whole of `IInv`. `SpecHistoryStands` is about steps: none rewrites a
request or reopens one that has ended, and the version rises by one with every change of the
lease; so what was asked for under older terms is never carried out (`OutOfDateTheorem`).

**Only model-checked:** liveness (`ClaimsSettle`, `NoEventLost`, `DeliverySettles`,
`OpenSaleCloses`), which is out of the prover's reach. Every other property of the passing
runs has a theorem.

## 5. Findings

1. `incident_retry` (service 1090): a request parked because its attempt budget is spent
   is requeued by the incident command into `retry_wait`; the next claim wants to park it
   again but leaves `next_retry_at` set, which the table's check constraint refuses. The
   request is never claimed again.
2. `incident_replay` (service 1427): repeating a command whose outcome was `partial` is
   answered `absent`, that is, requeued, though the request stays parked.
3. `local_transport` (event runtime repository 259): the local publisher calls the consumer before the event is
   marked published, and the consumer requires it to be. No routed event can be
   published; each ends dead and holds up its ordering key.
4. `consumer_replay` (82): the isolation after a checksum mismatch includes the
   event itself and lasts while its dead letter is replaying; if the event was not published yet, replay and
   publication wait for each other. A replay of an event handled before never ends either.
5. `replay_trouble` (event worker 133): a consumer replay whose publication throws ends the
   cycle before the deliveries, in every process and cycle, so one stuck replay (of an event
   that was not published, finding 4) stops all notification deliveries.

Seen in the code while modelling, and not a run of their own, since the models contain them
as steps that their properties name:

- The wallet's identity grant - consumed - expired = balance
  (`docs/canteen/data-model.md:179`) and the promise that concurrent sales never overdraw it
  (`docs/canteen/canteen-design-baseline.md:163`) fail when two mixed orders were planned from
  the same balance: `BrokenByShortfallOrLateGrant` says that this, a refund of more than was
  consumed, and a late grant are the only ways.
- A grant that waits for a charge or an expiry writes only the columns that differed before
  (subsidy grant 155): the wallet has the new period with the other's consumed or expired amount and
  balance, while the journal says the full grant. `JournalExplains` excepts exactly this
  (`LateGrant`).
- `provider.refund` runs before the commit: after a crash and a rejection, a second refund
  returns the money again. `ReturnedOnce` excepts exactly rejected refunds.
- A mixed sale is returned in full by the channel (refund 79-83), although part of it was
  paid from the wallet, which is not credited; a refund in a later month is credited nowhere.
- A payment reported after `Timeout` has closed it is refused; nothing returns it.
- Editors of receivables and payments save what they read without a lock or a version
  (receivables 252, 415, 801; payments 133), over an application or a waiver that was
  committed in between: the stale save of `DriftOnlyByStaleWrite`. As only the columns that
  differ are written, a row may also contradict itself, such as status overdue with nothing
  remaining, or a new due with what was paid of the old: `MixedOnlyByStaleSave`.
- The update of an invoice without `receivables` (invoices 115, 126, 141, 154, 160) may bring back a
  voided invoice with allocations it has not validated: the receivable is then invoiced beyond
  its due, with no editor involved. `DriftOnlyByStaleWrite` names it (`StaleInvoice`).
- An event that the local port has no route for is published without an inbox row (transport 64; its
  spec, 46-54, wants it ignored) and will hold up the routed events after it at the consumer, once
  finding 3 lets them get that far. `NoEventLost` is about routed events there.
- The status a checkout gives is unknown to the receivables service: a recalculation calls a
  canceled receivable paid, an ordinary edit or regeneration makes it due again.
- Waived and paid are told apart differently by the three services that derive them
  (waivers 438, receivables 1193, payments 553).
- A command whose key was answered with another key's request, by its business intent, is a new
  command once that request was rejected or withdrawn and the row was not marked or was cleaned
  up: its repetition then makes a request of its own. `AnswersFollowKey` allows exactly this.
- A repetition of a command that made a request, after the version moved on and without a row,
  is a conflict (service 2180), though the runtime contract (`b0-runtime-contract-freeze.md`
  section 4.2) says that the same key with the same payload returns the original request.
- A handler that outlives its reservation and fails marks the row failed over the success of the
  call that took it over.
- After a rejection the same version may be asked for again, as a later task note wants it; the
  frozen contract (lines 157-160) asks for a greater version.

## 6. Not modelled, and the plan

Planned, most important first:

1. `PropertyApproval`: decision and execution composed, the legal status pairs of the
   table, several requests in one candidate list (a batch of 50 by `updated_at` that
   unclaimable requests can fill).
2. The other owners of the port (housing finance, homestay bookings, property tasks), whose
   payloads freeze more than a version, and the checkout of a lease.
3. The consumer's projection and mark-read beside `NotificationDelivery`, and the scheduler
   cycle composed with `PropertyOutbox`, so that `blocked` is what the outbox makes of it.
4. `PropertyOccupancies` and the task orchestrator with its receipts.
5. Canteen stock, whose counts are read before the lock (checkout 82, 166), and the
   settlement with contractors; checkouts and contract changes of leasing, which lock
   the same receivables in an order of their own (checkouts 413).
6. Refresh token rotation; the IoT action executor.
7. Proofs: the refinement of an abstract lease by `HousingLease`.

Left out for good: forms over single rows without a protocol (HR, safety, engineering,
master data), device and file I/O, clients, packages, deployment. `PROJECT.json`
gives the reason for each.

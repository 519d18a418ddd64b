------------------------ MODULE NotificationDelivery ------------------------
(***************************************************************************)
(* The delivery of ONE notification to one recipient over one channel      *)
(* (property-notification.repository.ts and .worker.ts): the row that the  *)
(* projection inserted, the delivery workers of the API processes, the     *)
(* channel, and the operator's replay of an exhausted delivery.  A worker  *)
(* claims a batch and works through it row by row; rows do not interact,   *)
(* so the model has one, and a run that is thrown out of its batch loses   *)
(* the claims it still held like a crash does.  Every update of the row    *)
(* moves version, epoch or status, so the epoch stands for the claim.      *)
(***************************************************************************)
EXTENDS Naturals, FiniteSets

CONSTANTS Workers,      \* delivery workers, one per API process
          MaxAttempts,  \* max_attempts of the row, 8 by default
          MaxEpoch      \* bound: leases expire, processes die, operators
                        \* replay below this epoch

ASSUME DeliveryAssumption == MaxAttempts \in Nat \ {0} /\ MaxEpoch \in Nat

VARIABLES
  \* the row of biz_property_notification_delivery
  status, epoch, lease, attempts, retryAt,
  audit,     \* rows of biz_property_notification_delivery_audit
  dlq,       \* status of the delivery's row of biz_property_event_dlq, or "none"
  cycle,     \* history: the epoch at the last replay
  accepted,  \* history: the claims for which the channel took the message
  blocked,   \* a consumer replay is waiting whose publication fails
  pc, heldEpoch  \* the memory of each worker

row == <<status, epoch, lease, attempts, retryAt>>
records == <<audit, dlq, cycle>>
memory == <<pc, heldEpoch>>
vars == <<row, records, accepted, blocked, memory>>

Statuses == {"pending", "delivering", "delivered", "delivery_failed", "delivery_exhausted"}
Audit == [attempt : Nat, to : Statuses]

\* The delivery row, its audit and dead letter stay within the values of their columns.
TypeOK ==
  /\ status \in Statuses
  /\ epoch \in Nat /\ attempts \in Nat /\ cycle \in Nat
  /\ lease \in {"none", "live", "expired"} /\ retryAt \in {"none", "later", "due"}
  /\ audit \subseteq Audit /\ accepted \subseteq Nat
  /\ dlq \in {"none", "active", "replaying", "resolved"}
  /\ blocked \in BOOLEAN
  /\ pc \in [Workers -> {"idle", "claimed", "sent", "failed"}]
  /\ heldEpoch \in [Workers -> Nat]

Init ==
  /\ status = "pending" /\ epoch = 0 /\ attempts = 0 /\ cycle = 0
  /\ lease = "none" /\ retryAt = "none"
  /\ audit = {} /\ accepted = {} /\ dlq = "none" /\ blocked = FALSE
  /\ pc = [w \in Workers |-> "idle"] /\ heldEpoch = [w \in Workers |-> 0]

-----------------------------------------------------------------------------
\* Mutant: a worker that forgets the claims of the dead.
DueUnclaimed == status = "pending" \/ (status = "delivery_failed" /\ retryAt = "due")

Due == \/ status = "pending"
       \/ status = "delivery_failed" /\ retryAt = "due"
       \/ status = "delivering" /\ lease = "expired"

FreshFence == epoch + 1

\* A consumer replay that cannot be published ends the cycle of its process
\* before the deliveries: runConsumerReplays lets the failure through.
CycleReachesDeliveries == ~blocked

\* claimDeliveries
Claim(w) ==
  /\ pc[w] = "idle" /\ CycleReachesDeliveries /\ Due
  /\ status' = "delivering" /\ epoch' = FreshFence
  /\ lease' = "live" /\ retryAt' = "none"
  /\ pc' = [pc EXCEPT ![w] = "claimed"]
  /\ heldEpoch' = [heldEpoch EXCEPT ![w] = FreshFence]
  /\ UNCHANGED <<attempts, records, accepted, blocked>>

Goes(w, p) == pc' = [pc EXCEPT ![w] = p] /\ UNCHANGED heldEpoch

\* Mutant: a worker that reports a message the channel did not take.
SentOrNot(w) == /\ Goes(w, "sent")
                /\ accepted' \in {accepted, accepted \cup {heldEpoch[w]}}

\* The channel takes the message and says so, or the call fails, with or without
\* the channel having taken it.
Answers(w) == \/ /\ accepted' = accepted \cup {heldEpoch[w]}
                 /\ Goes(w, "sent") \/ Goes(w, "failed")
              \/ UNCHANGED accepted /\ Goes(w, "failed")

Deliver(w) == pc[w] = "claimed" /\ Answers(w) /\ UNCHANGED <<row, records, blocked>>

\* Mutant: a report by whoever remembers the delivery.
HoldsDelivery(w) == status = "delivering"

\* The UPDATE matches: the row is still under this worker's claim.
Holds(w) == status = "delivering" /\ epoch = heldEpoch[w]

\* Mutant: a delivery that leaves the dead letter it was replayed for.
LeftReplaying == dlq

\* Mutant: a dead letter that takes over the status of its delivery.
DeliveredAsStatus == IF dlq = "replaying" THEN "delivered" ELSE dlq

AfterDelivery == IF dlq = "replaying" THEN "resolved" ELSE dlq

\* completeDelivery; the worker may lose the acknowledgement of the commit.
CompleteDelivery(w) ==
  /\ pc[w] = "sent" /\ Holds(w)
  /\ status' = "delivered" /\ lease' = "none"
  /\ attempts' = attempts + 1
  /\ audit' = audit \cup {[attempt |-> epoch, to |-> "delivered"]}
  /\ dlq' = AfterDelivery
  /\ Goes(w, "idle") \/ Goes(w, "failed")
  /\ UNCHANGED <<epoch, retryAt, cycle, accepted, blocked>>

\* The database fails in completeDelivery, and the delivery counts as failed.
CompleteFails(w) ==
  /\ pc[w] = "sent" /\ Goes(w, "failed")
  /\ UNCHANGED <<row, records, accepted, blocked>>

\* Mutant: a budget compared before the attempt that just failed is counted.
LastAttemptLate == attempts >= MaxAttempts
LastAttempt == attempts + 1 >= MaxAttempts

\* failDelivery: retry later, or exhausted with a dead letter.
FailDelivery(w) ==
  /\ pc[w] = "failed" /\ Holds(w)
  /\ status' = IF LastAttempt THEN "delivery_exhausted" ELSE "delivery_failed"
  /\ attempts' = attempts + 1 /\ lease' = "none"
  /\ retryAt' = IF LastAttempt THEN "none" ELSE "later"
  /\ audit' = audit \cup {[attempt |-> epoch, to |-> status']}
  /\ dlq' = IF LastAttempt THEN "active" ELSE dlq
  /\ Goes(w, "idle")
  /\ UNCHANGED <<epoch, cycle, accepted, blocked>>

\* completeDelivery or failDelivery finds no row under the claim.
StaleClaim(w) ==
  /\ pc[w] \in {"sent", "failed"} /\ ~Holds(w)
  /\ Goes(w, "idle")
  /\ UNCHANGED <<row, records, accepted, blocked>>

-----------------------------------------------------------------------------
\* prepareEventReplay of the delivery's dead letter.  Its branch for a delivery
\* that is not exhausted cannot be reached: see DeadLetterMatches.
Replay ==
  /\ dlq = "active" /\ status = "delivery_exhausted" /\ epoch < MaxEpoch
  /\ status' = "pending" /\ attempts' = 0
  /\ dlq' = "replaying" /\ cycle' = epoch
  /\ UNCHANGED <<epoch, lease, retryAt, audit, accepted, blocked, memory>>

LeaseExpires ==
  /\ lease = "live" /\ epoch < MaxEpoch
  /\ lease' = "expired"
  /\ UNCHANGED <<status, epoch, attempts, retryAt, records, accepted, blocked, memory>>

RetryComesDue ==
  /\ retryAt = "later" /\ retryAt' = "due"
  /\ UNCHANGED <<status, epoch, lease, attempts, records, accepted, blocked, memory>>

\* The process dies, or failDelivery fails and the run is thrown out of its batch.
Crash(w) ==
  /\ pc[w] # "idle" /\ epoch < MaxEpoch
  /\ Goes(w, "idle")
  /\ UNCHANGED <<row, records, accepted, blocked>>

\* A consumer replay starts or stops to fail.
ReplayTrouble == blocked' = ~blocked /\ UNCHANGED <<row, records, accepted, memory>>

Next == \/ \E w \in Workers : \/ Claim(w) \/ Deliver(w) \/ CompleteDelivery(w)
                              \/ CompleteFails(w) \/ FailDelivery(w) \/ StaleClaim(w)
                              \/ Crash(w)
        \/ Replay \/ LeaseExpires \/ RetryComesDue \/ ReplayTrouble

Spec == Init /\ [][Next]_vars

\* The interval timer keeps running its cycle and time passes.  Nothing obliges
\* an operator.
Fairness ==
  /\ \A w \in Workers :
       /\ WF_vars(Claim(w)) /\ WF_vars(Deliver(w))
       /\ WF_vars(CompleteDelivery(w) \/ FailDelivery(w) \/ StaleClaim(w))
  /\ WF_vars(LeaseExpires) /\ WF_vars(RetryComesDue)

FairSpec == Spec /\ Fairness

-----------------------------------------------------------------------------
(* Properties.                                                              *)

\* An exhausted delivery has exactly one way out: its dead letter is open while
\* it is exhausted, replaying while it is under way again, then resolved.
DeadLetterMatches ==
  /\ status = "delivery_exhausted" <=> dlq = "active"
  /\ dlq = "replaying" => status \in {"pending", "delivering", "delivery_failed"}
  /\ dlq = "resolved" => status = "delivered"

\* The attempts of the current cycle are those the audit explains, across reclaims,
\* crashes and replays, and no CHECK constraint of the row aborts a report.
AttemptsExplained ==
  /\ attempts = Cardinality({a \in audit : a.attempt > cycle})
  /\ status = "delivery_exhausted" => attempts = MaxAttempts
  /\ status \in {"pending", "delivering", "delivery_failed"} => attempts < MaxAttempts

\* What is reported delivered was taken by the channel under the very claim that
\* reports it, and is reported once.
ReportedIsSent ==
  LET reports == {a \in audit : a.to = "delivered"}
  IN  /\ \A a \in reports : a.attempt \in accepted /\ a.attempt = epoch
      /\ status = "delivered" <=> Cardinality(reports) = 1
      /\ \A a, b \in audit : a.attempt = b.attempt => a = b

\* A worker whose claim was taken over reports to nobody.
StaleReportHarmless ==
  [][ \A w \in Workers :
        /\ pc[w] # "idle" /\ pc'[w] # pc[w] /\ heldEpoch[w] # epoch
        => UNCHANGED <<row, records>> ]_vars

Settled == status \in {"delivered", "delivery_exhausted"}

\* While no replay holds up the cycle, a delivery is made or exhausted, whoever dies.
DeliverySettles == <>[](~blocked) => (~Settled ~> Settled)

\* What the access contract says of a failed delivery, whatever becomes of the
\* consumer replays: the worker claims it again by itself.
RetriesAlways ==
  <>[]blocked \/ <>[](~blocked) => (status = "delivery_failed" ~> status # "delivery_failed")
=============================================================================

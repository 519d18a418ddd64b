--------------------------- MODULE PropertyOutbox ---------------------------
(***************************************************************************)
(* The outbox of property events, its publisher workers, one consumer with *)
(* an inbox, and the dead letter queue with its operator                   *)
(* (property-approvals/outbox/).  Every condition of the SQL is per        *)
(* ordering key, so the module models the events of ONE ordering key, by   *)
(* their position.  A transaction of the store is one action; the lease    *)
(* and the retry time are abstracted to what the SQL compares them with.   *)
(* transport is "broker" for a publisher port that hands events to an      *)
(* at-least-once broker, and "local" for PropertyLocalEventPublisher,      *)
(* which calls the consumer inside publish.                                *)
(***************************************************************************)
EXTENDS Naturals, Sequences, FiniteSets

CONSTANTS MaxEvents,    \* bound: events appended
          Publishers,   \* publisher workers, one per API process
          MaxAttempts,  \* maxAttempts of the worker, 8 in the code
          Transports,   \* publisher ports that may be registered
          Routed,       \* events the local publisher has a projection for
          MaxEpoch,     \* bound: leases expire, processes die, below this epoch
          MaxIncidents  \* bound: checksum mismatches and replays of an event

Events == 1 .. MaxEvents

ASSUME OutboxAssumption == /\ MaxEvents \in Nat \ {0} /\ MaxAttempts \in Nat \ {0}
                           /\ MaxEpoch \in Nat /\ MaxIncidents \in Nat
                           /\ Transports \subseteq {"broker", "local"} /\ Routed \subseteq Events

VARIABLES
  \* the rows of biz_property_outbox; "absent" before the append
  status, epoch, lease, attempts, retryAt,
  \* the rows of biz_property_event_dlq, by failure side; "none" before
  publisherDlq, consumerDlq, dlqVersion,
  \* the broker: copies it may deliver, any number of times, in any order;
  \* replay is the DLQ version a replay carries, 0 for an ordinary copy
  channel,
  transport,  \* the port registered at start, for good
  \* biz_property_inbox, and the order in which the handler ran
  inbox, handled,
  \* the memory of each publisher: "idle", "claimed", "sent", "failed"
  pc, heldEvent, heldEpoch

outbox == <<status, epoch, lease, attempts, retryAt>>
dlq == <<publisherDlq, consumerDlq, dlqVersion>>
consumer == <<inbox, handled>>
memory == <<pc, heldEvent, heldEpoch>>
vars == <<outbox, dlq, channel, transport, consumer, memory>>

Statuses == {"absent", "pending", "publishing", "published", "retry_wait", "dlq"}
DlqStatuses == {"none", "active", "replaying", "resolved", "quarantined"}
\* An isolation of version MaxIncidents may still be replayed and resolved.
Copy == [event : Events, replay : 0 .. MaxIncidents + 2]

\* The outbox, dead letter and inbox rows and the publishers' memory stay within
\* the values of their columns.
TypeOK ==
  /\ status \in [Events -> Statuses]
  /\ epoch \in [Events -> Nat] /\ attempts \in [Events -> Nat]
  /\ lease \in [Events -> {"none", "live", "expired"}]
  /\ retryAt \in [Events -> {"none", "later", "due"}]
  /\ publisherDlq \in [Events -> DlqStatuses] /\ consumerDlq \in [Events -> DlqStatuses]
  /\ dlqVersion \in [Events -> Nat]
  /\ channel \subseteq Copy /\ transport \in Transports
  /\ inbox \subseteq Events /\ handled \in Seq(Events)
  /\ pc \in [Publishers -> {"idle", "claimed", "sent", "failed"}]
  /\ heldEvent \in [Publishers -> Events] /\ heldEpoch \in [Publishers -> Nat]

Init ==
  /\ status = [e \in Events |-> "absent"]
  /\ epoch = [e \in Events |-> 0] /\ attempts = [e \in Events |-> 0]
  /\ lease = [e \in Events |-> "none"] /\ retryAt = [e \in Events |-> "none"]
  /\ publisherDlq = [e \in Events |-> "none"] /\ consumerDlq = [e \in Events |-> "none"]
  /\ dlqVersion = [e \in Events |-> 0]
  /\ transport \in Transports
  /\ channel = {} /\ inbox = {} /\ handled = <<>>
  /\ pc = [p \in Publishers |-> "idle"]
  /\ heldEvent = [p \in Publishers |-> 1] /\ heldEpoch = [p \in Publishers |-> 0]

-----------------------------------------------------------------------------
\* The producer's transaction takes the next sequence of the ordering key.
AppendEvent(e) ==
  /\ status[e] = "absent" /\ \A d \in 1 .. e - 1 : status[d] # "absent"
  /\ status' = [status EXCEPT ![e] = "pending"]
  /\ UNCHANGED <<epoch, lease, attempts, retryAt, dlq, channel, consumer, memory, transport>>

\* Mutants: an order that a predecessor in retry does not hold up; a publisher
\* that forgets the claims of the dead.
PriorsTried(e) == \A d \in 1 .. e - 1 : status[d] \in {"published", "retry_wait"}
DueUnclaimed(e) == status[e] = "pending" \/ (status[e] = "retry_wait" /\ retryAt[e] = "due")

Due(e) == \/ status[e] = "pending"
          \/ status[e] = "retry_wait" /\ retryAt[e] = "due"
          \/ status[e] = "publishing" /\ lease[e] = "expired"

PriorsPublished(e) == \A d \in 1 .. e - 1 : status[d] = "published"

\* A checksum incident at or before the event stops the ordering key.
Isolated(e) == \E d \in 1 .. e : consumerDlq[d] \in {"active", "replaying", "quarantined"}

\* claimPublishable: a batch holds at most one event of an ordering key.
ClaimPublishable(p, e) ==
  /\ pc[p] = "idle"
  /\ Due(e) /\ PriorsPublished(e) /\ ~Isolated(e)
  /\ status' = [status EXCEPT ![e] = "publishing"]
  /\ epoch' = [epoch EXCEPT ![e] = @ + 1]
  /\ lease' = [lease EXCEPT ![e] = "live"]
  /\ retryAt' = [retryAt EXCEPT ![e] = "none"]
  /\ pc' = [pc EXCEPT ![p] = "claimed"]
  /\ heldEvent' = [heldEvent EXCEPT ![p] = e]
  /\ heldEpoch' = [heldEpoch EXCEPT ![p] = epoch[e] + 1]
  /\ UNCHANGED <<attempts, dlq, channel, consumer, transport>>

Goes(p, s) == pc' = [pc EXCEPT ![p] = s] /\ UNCHANGED <<heldEvent, heldEpoch>>

\* Mutant: a mark by whoever remembers the event.
HoldsEvent(p) == status[heldEvent[p]] = "publishing"

\* The UPDATE matches: status, claim_epoch and claim_token are still this claim's.
Holds(p) == /\ status[heldEvent[p]] = "publishing"
            /\ epoch[heldEvent[p]] = heldEpoch[p]

-----------------------------------------------------------------------------
(* consumeInbox.  r is the DLQ version the delivery replays, or 0.          *)

\* Mutant: a consumer that does not look an event up in its inbox.
AcceptsAgain(e, r) ==
  /\ status[e] = "published" /\ \A d \in 1 .. e - 1 : d \in inbox
  /\ r = 0 \/ (consumerDlq[e] = "replaying" /\ dlqVersion[e] = r)

\* The event is published, was not handled, and everything before it was; a
\* replay still matches its dead letter.  Otherwise nothing is committed.
Accepts(e, r) ==
  /\ status[e] = "published" /\ e \notin inbox
  /\ \A d \in 1 .. e - 1 : d \in inbox
  /\ r = 0 \/ (consumerDlq[e] = "replaying" /\ dlqVersion[e] = r)

\* The handler's effect, the inbox row and the end of the replay commit together.
Consume(e, r) ==
  /\ inbox' = inbox \cup {e}
  /\ handled' = Append(handled, e)
  /\ consumerDlq' = IF r = 0 THEN consumerDlq ELSE [consumerDlq EXCEPT ![e] = "resolved"]
  /\ dlqVersion' = IF r = 0 THEN dlqVersion ELSE [dlqVersion EXCEPT ![e] = @ + 1]

\* The broker delivers a copy.
Deliver(c) ==
  /\ transport = "broker" /\ Accepts(c.event, c.replay)
  /\ Consume(c.event, c.replay)
  /\ UNCHANGED <<outbox, publisherDlq, channel, memory, transport>>

\* A copy arrives whose payload does not hash to the stored one, whatever the
\* state of the event: quarantineChecksumMismatch.
DeliverCorrupted(c) ==
  /\ transport = "broker" /\ dlqVersion[c.event] < MaxIncidents
  /\ consumerDlq' = [consumerDlq EXCEPT ![c.event] = "quarantined"]
  /\ dlqVersion' = [dlqVersion EXCEPT ![c.event] = @ + 1]
  /\ UNCHANGED <<outbox, publisherDlq, channel, consumer, memory, transport>>

-----------------------------------------------------------------------------
(* PropertyEventPublisherWorker.run, after the claim.                       *)

\* publish: the broker takes a copy and acknowledges it, or the call fails,
\* with or without the broker having taken it.
PublishToBroker(p) ==
  /\ transport = "broker" /\ pc[p] = "claimed"
  /\ \/ /\ channel' = channel \cup {[event |-> heldEvent[p], replay |-> 0]}
        /\ Goes(p, "sent") \/ Goes(p, "failed")
     \/ UNCHANGED channel /\ Goes(p, "failed")
  /\ UNCHANGED <<outbox, dlq, consumer, transport>>

\* The local publisher ignores an event it has no projection for, and calls the
\* consumer with any other: publish fails if the consumer refuses the event.
PublishLocally(p) ==
  LET e == heldEvent[p] IN
  /\ transport = "local" /\ pc[p] = "claimed"
  /\ IF e \in Routed /\ Accepts(e, 0) THEN Consume(e, 0)
     ELSE UNCHANGED <<consumer, consumerDlq, dlqVersion>>
  /\ Goes(p, IF \/ e \notin Routed \/ Accepts(e, 0)
                \/ status[e] = "published" /\ e \in inbox
             THEN "sent" ELSE "failed")
  /\ UNCHANGED <<outbox, publisherDlq, channel, transport>>

Publish(p) == PublishToBroker(p) \/ PublishLocally(p)

\* Mutants: a publication that leaves its dead letter open; one that stores the
\* status of the event in it.
LeftReplaying(s) == s
PublishedAsStatus(s) == IF s = "replaying" THEN "published" ELSE s

\* A successful publication ends the replay of the event's dead letter.
AfterPublish(s) == IF s = "replaying" THEN "resolved" ELSE s

\* markPublished; the worker may lose the acknowledgement of the commit.
MarkPublished(p) ==
  LET e == heldEvent[p] IN
  /\ pc[p] = "sent" /\ Holds(p)
  /\ status' = [status EXCEPT ![e] = "published"]
  /\ lease' = [lease EXCEPT ![e] = "none"]
  /\ publisherDlq' = [publisherDlq EXCEPT ![e] = AfterPublish(@)]
  /\ Goes(p, "idle") \/ Goes(p, "failed")
  /\ UNCHANGED <<epoch, attempts, retryAt, consumerDlq, dlqVersion, channel, consumer, transport>>

\* The database fails in markPublished, and the worker takes the event for failed.
MarkFails(p) ==
  /\ pc[p] = "sent"
  /\ Goes(p, "failed")
  /\ UNCHANGED <<outbox, dlq, channel, consumer, transport>>

\* markPublishFailure: wait and retry, or the dead letter queue at the limit.
MarkPublishFailure(p) ==
  LET e == heldEvent[p]
      last == attempts[e] + 1 >= MaxAttempts
  IN
  /\ pc[p] = "failed" /\ Holds(p)
  /\ attempts' = [attempts EXCEPT ![e] = @ + 1]
  /\ status' = [status EXCEPT ![e] = IF last THEN "dlq" ELSE "retry_wait"]
  /\ retryAt' = [retryAt EXCEPT ![e] = IF last THEN "none" ELSE "later"]
  /\ lease' = [lease EXCEPT ![e] = "none"]
  /\ publisherDlq' = IF last THEN [publisherDlq EXCEPT ![e] = "active"] ELSE publisherDlq
  /\ Goes(p, "idle")
  /\ UNCHANGED <<epoch, consumerDlq, dlqVersion, channel, consumer, transport>>

\* The claim was taken over meanwhile: the mark finds no row.
StaleClaim(p) ==
  /\ pc[p] \in {"sent", "failed"} /\ ~Holds(p)
  /\ Goes(p, "idle")
  /\ UNCHANGED <<outbox, dlq, channel, consumer, transport>>

\* runConsumerReplays publishes the event of a replaying dead letter again.  A
\* dead letter of the consumer needs a corrupted copy, so a broker.
RepublishReplay(e) ==
  /\ consumerDlq[e] = "replaying"
  /\ channel' = channel \cup {[event |-> e, replay |-> dlqVersion[e]]}
  /\ UNCHANGED <<outbox, dlq, consumer, memory, transport>>

-----------------------------------------------------------------------------
(* prepareEventReplay: the operator's replay of a dead letter.  Its branch  *)
(* for an event that is not dead cannot be reached: see DeadLettersMatch.   *)

ReplayPublisher(e) ==
  /\ publisherDlq[e] \in {"active", "quarantined"}
  /\ status[e] = "dlq" /\ epoch[e] < MaxEpoch
  /\ status' = [status EXCEPT ![e] = "publishing"]
  /\ epoch' = [epoch EXCEPT ![e] = @ + 1]
  /\ lease' = [lease EXCEPT ![e] = "expired"]
  /\ publisherDlq' = [publisherDlq EXCEPT ![e] = "replaying"]
  /\ UNCHANGED <<attempts, retryAt, consumerDlq, dlqVersion, channel, consumer, memory, transport>>

ReplayConsumer(e) ==
  /\ consumerDlq[e] \in {"active", "quarantined"}
  /\ consumerDlq' = [consumerDlq EXCEPT ![e] = "replaying"]
  /\ dlqVersion' = [dlqVersion EXCEPT ![e] = @ + 1]
  /\ UNCHANGED <<outbox, publisherDlq, channel, consumer, memory, transport>>

-----------------------------------------------------------------------------
LeaseExpires(e) ==
  /\ lease[e] = "live" /\ epoch[e] < MaxEpoch
  /\ lease' = [lease EXCEPT ![e] = "expired"]
  /\ UNCHANGED <<status, epoch, attempts, retryAt, dlq, channel, consumer, memory, transport>>

RetryComesDue(e) ==
  /\ retryAt[e] = "later"
  /\ retryAt' = [retryAt EXCEPT ![e] = "due"]
  /\ UNCHANGED <<status, epoch, lease, attempts, dlq, channel, consumer, memory, transport>>

Crash(p) ==
  /\ pc[p] # "idle" /\ epoch[heldEvent[p]] < MaxEpoch
  /\ Goes(p, "idle")
  /\ UNCHANGED <<outbox, dlq, channel, consumer, transport>>

Next ==
  \/ \E e \in Events : \/ AppendEvent(e) \/ LeaseExpires(e) \/ RetryComesDue(e)
                       \/ ReplayPublisher(e) \/ ReplayConsumer(e) \/ RepublishReplay(e)
  \/ \E p \in Publishers : \/ \E e \in Events : ClaimPublishable(p, e)
                           \/ Publish(p) \/ MarkPublished(p) \/ MarkFails(p)
                           \/ MarkPublishFailure(p) \/ StaleClaim(p) \/ Crash(p)
  \/ \E c \in channel : Deliver(c) \/ DeliverCorrupted(c)

Spec == Init /\ [][Next]_vars

\* The interval timer of every process keeps running its cycle, time passes, and
\* the broker goes on delivering each copy it has.  Nothing obliges an operator.
Fairness ==
  /\ \A p \in Publishers : /\ WF_vars(\E e \in Events : ClaimPublishable(p, e))
                           /\ WF_vars(Publish(p))
                           /\ WF_vars(MarkPublished(p) \/ MarkPublishFailure(p) \/ StaleClaim(p))
  /\ \A e \in Events : /\ WF_vars(LeaseExpires(e)) /\ WF_vars(RetryComesDue(e))
                       /\ WF_vars(RepublishReplay(e))
  /\ \A c \in Copy : WF_vars(c \in channel /\ Deliver(c))

FairSpec == Spec /\ Fairness

-----------------------------------------------------------------------------
(* Properties.                                                              *)

\* The events appended so far.
Appended == [i \in 1 .. Cardinality({e \in Events : status[e] # "absent"}) |-> i]
Abstract == INSTANCE OrderedDelivery WITH appended <- Appended, handled <- handled

\* The contract with a consumer: its handler runs for the events in the order of
\* their append, for none twice and past none.
AbstractSpec == Abstract!Spec

\* An event is touched only when all before it are published: a predecessor that
\* waits, is in flight or dead holds the ordering key, and nothing unpublishes it.
PublishedInOrder ==
  \A e \in Events : status[e] \notin {"absent", "pending"} => PriorsPublished(e)

\* A dead event has exactly one way out: its dead letter is open for the operator
\* while it is dead, replaying while it is in flight again, and then resolved.
DeadLettersMatch ==
  \A e \in Events : /\ status[e] = "dlq" <=> publisherDlq[e] = "active"
                    /\ publisherDlq[e] = "replaying" => status[e] = "publishing"
                    /\ publisherDlq[e] = "resolved" => status[e] = "published"

\* A publisher whose claim was reclaimed reports to nobody: neither its success
\* nor its failure changes the event another publisher holds by now.
StalePublisherHarmless ==
  [][ \A p \in Publishers :
        /\ pc[p] # "idle" /\ pc'[p] # pc[p]
        /\ heldEpoch[p] # epoch[heldEvent[p]]
        => UNCHANGED <<outbox, publisherDlq>> ]_vars

\* No event is lost that the port takes, a broker all and the local publisher those
\* it has a projection for: it reaches the consumer, unless it or one before it
\* waits for an operator, dead or isolated.
NoEventLost ==
  \A e \in Events :
    status[e] # "absent" /\ (transport = "broker" \/ e \in Routed)
      ~> \/ e \in inbox
         \/ \E d \in 1 .. e : status[d] = "dlq"
         \/ Isolated(e)

\* What the runtime contract promises the operator: a replay ends.
ReplayEnds ==
  \A e \in Events : consumerDlq[e] = "replaying" ~> consumerDlq[e] # "replaying"

\* What the test of the local transport says it does for an event with a route.
RoutedIsProjected ==
  \A e \in Routed : status[e] = "pending" ~> e \in inbox
=============================================================================

------------------------ MODULE PropertyOutboxProofs ------------------------
(***************************************************************************)
(* Proofs about PropertyOutbox, for any events, publishers, attempt budget  *)
(* and transport.  The inductive invariant adds to the checked ones that    *)
(* the key has no gaps, that a replayed event has spent its attempts, and   *)
(* that the consumer has handled a prefix of the events.                    *)
(***************************************************************************)
EXTENDS PropertyOutbox, FiniteSetTheorems, TLAPS

\* The sequences of an ordering key are taken in order.
AppendedEvents == {e \in Events : status[e] # "absent"}
NoGaps == \E n \in Nat : AppendedEvents = 1 .. n

\* A replay leaves the attempts as they are: the next failure is the last again.
ReplaysAreLast ==
  \A e \in Events : publisherDlq[e] \in {"active", "replaying"} => attempts[e] + 1 >= MaxAttempts

\* The versions a copy can carry.
VersionsBounded ==
  \A e \in Events :
    /\ consumerDlq[e] = "quarantined" => dlqVersion[e] <= MaxIncidents
    /\ consumerDlq[e] = "replaying" => dlqVersion[e] <= MaxIncidents + 1
    /\ consumerDlq[e] # "active"

\* The handler ran for the first events, in order, and all of them are published.
HandledPrefix ==
  /\ inbox = 1 .. Len(handled)
  /\ \A i \in 1 .. Len(handled) : handled[i] = i
  /\ \A e \in inbox : status[e] = "published"

Inv == /\ TypeOK /\ VersionsBounded
       /\ PublishedInOrder /\ DeadLettersMatch /\ ReplaysAreLast
       /\ NoGaps /\ HandledPrefix

----------------------------------------------------------------------------
\* The types hold initially, and every action keeps them.
LEMMA TypeInit == Init => TypeOK /\ VersionsBounded
<1> SUFFICES ASSUME Init PROVE TypeOK /\ VersionsBounded
  OBVIOUS
<1>1. 1 \in Events
  BY OutboxAssumption DEF Events
<1>2. handled \in Seq(Events)
  BY DEF Init
<1> QED BY <1>1, <1>2, OutboxAssumption DEF Init, TypeOK, Statuses, DlqStatuses, VersionsBounded

\* Consuming an event keeps the types of the consumer.
LEMMA ConsumeTypes ==
  ASSUME TypeOK, VersionsBounded, NEW e \in Events, NEW r, Accepts(e, r), Consume(e, r)
  PROVE  /\ inbox' \subseteq Events /\ handled' \in Seq(Events)
         /\ consumerDlq' \in [Events -> DlqStatuses] /\ dlqVersion' \in [Events -> Nat]
         /\ VersionsBounded'
<1>1. inbox' \subseteq Events /\ handled' \in Seq(Events)
  BY DEF Consume, TypeOK
<1>2. consumerDlq' \in [Events -> DlqStatuses] /\ dlqVersion' \in [Events -> Nat]
  BY DEF Consume, TypeOK, DlqStatuses
<1>3. VersionsBounded'
  BY OutboxAssumption DEF Consume, Accepts, TypeOK, VersionsBounded
<1> QED BY <1>1, <1>2, <1>3

\* Every step keeps the types.
LEMMA TypeNext ==
  TypeOK /\ VersionsBounded /\ [Next]_vars => TypeOK' /\ VersionsBounded'
<1> SUFFICES ASSUME TypeOK, VersionsBounded, [Next]_vars PROVE TypeOK' /\ VersionsBounded'
  OBVIOUS
<1> USE DEF outbox, dlq, consumer, memory, Goes
<1>1. ASSUME NEW e \in Events, AppendEvent(e) \/ LeaseExpires(e) \/ RetryComesDue(e)
      PROVE  TypeOK' /\ VersionsBounded'
  BY <1>1 DEF AppendEvent, LeaseExpires, RetryComesDue, TypeOK, VersionsBounded, Statuses
<1>2. ASSUME NEW e \in Events, ReplayPublisher(e) PROVE TypeOK' /\ VersionsBounded'
  BY <1>2 DEF ReplayPublisher, TypeOK, VersionsBounded, Statuses, DlqStatuses
<1>3. ASSUME NEW e \in Events, ReplayConsumer(e) PROVE TypeOK' /\ VersionsBounded'
  BY <1>3, OutboxAssumption DEF ReplayConsumer, TypeOK, VersionsBounded, DlqStatuses
<1>4. ASSUME NEW e \in Events, RepublishReplay(e) PROVE TypeOK' /\ VersionsBounded'
  <2>1. dlqVersion[e] \in 0 .. MaxIncidents + 2
    BY <1>4, OutboxAssumption DEF RepublishReplay, TypeOK, VersionsBounded
  <2>2. channel' \subseteq Copy
    BY <1>4, <2>1 DEF RepublishReplay, TypeOK, Copy
  <2> QED BY <1>4, <2>2 DEF RepublishReplay, TypeOK, VersionsBounded
<1>5. ASSUME NEW p \in Publishers, NEW e \in Events, ClaimPublishable(p, e)
      PROVE  TypeOK' /\ VersionsBounded'
  BY <1>5 DEF ClaimPublishable, TypeOK, VersionsBounded, Statuses
<1>6. ASSUME NEW p \in Publishers, PublishToBroker(p) PROVE TypeOK' /\ VersionsBounded'
  <2>1. [event |-> heldEvent[p], replay |-> 0] \in Copy
    BY OutboxAssumption DEF TypeOK, Copy
  <2> QED BY <1>6, <2>1 DEF PublishToBroker, TypeOK, VersionsBounded
<1>7. ASSUME NEW p \in Publishers, PublishLocally(p) PROVE TypeOK' /\ VersionsBounded'
  <2>1. heldEvent[p] \in Events
    BY DEF TypeOK
  <2>2. /\ inbox' \subseteq Events /\ handled' \in Seq(Events)
        /\ consumerDlq' \in [Events -> DlqStatuses] /\ dlqVersion' \in [Events -> Nat]
        /\ VersionsBounded'
    <3>1. CASE heldEvent[p] \in Routed /\ Accepts(heldEvent[p], 0)
      BY <1>7, <2>1, <3>1, ConsumeTypes DEF PublishLocally
    <3>2. CASE ~(heldEvent[p] \in Routed /\ Accepts(heldEvent[p], 0))
      BY <1>7, <3>2 DEF PublishLocally, TypeOK, VersionsBounded
    <3> QED BY <3>1, <3>2
  <2>3. pc' \in [Publishers -> {"idle", "claimed", "sent", "failed"}]
    BY <1>7 DEF PublishLocally, TypeOK
  <2> QED BY <1>7, <2>2, <2>3 DEF PublishLocally, TypeOK
<1>8. ASSUME NEW p \in Publishers, MarkPublished(p) PROVE TypeOK' /\ VersionsBounded'
  BY <1>8 DEF MarkPublished, AfterPublish, TypeOK, VersionsBounded, Statuses, DlqStatuses
<1>9. ASSUME NEW p \in Publishers, MarkPublishFailure(p) PROVE TypeOK' /\ VersionsBounded'
  BY <1>9 DEF MarkPublishFailure, TypeOK, VersionsBounded, Statuses, DlqStatuses
<1>10. ASSUME NEW p \in Publishers, MarkFails(p) \/ StaleClaim(p) \/ Crash(p)
       PROVE  TypeOK' /\ VersionsBounded'
  BY <1>10 DEF MarkFails, StaleClaim, Crash, TypeOK, VersionsBounded
<1>11. ASSUME NEW c \in channel, Deliver(c) PROVE TypeOK' /\ VersionsBounded'
  <2>1. c.event \in Events
    BY DEF TypeOK, Copy
  <2> QED BY <1>11, <2>1, ConsumeTypes DEF Deliver, TypeOK
<1>12. ASSUME NEW c \in channel, DeliverCorrupted(c) PROVE TypeOK' /\ VersionsBounded'
  <2>1. c.event \in Events
    BY DEF TypeOK, Copy
  <2>2. /\ consumerDlq' \in [Events -> DlqStatuses] /\ dlqVersion' \in [Events -> Nat]
        /\ UNCHANGED <<outbox, publisherDlq, channel, consumer, memory, transport>>
    BY <1>12, <2>1 DEF DeliverCorrupted, TypeOK, DlqStatuses
  <2>3. TypeOK'
    BY <2>2 DEF TypeOK
  <2>4. VersionsBounded'
    BY <1>12, <2>1, OutboxAssumption DEF DeliverCorrupted, TypeOK, VersionsBounded
  <2> QED BY <2>3, <2>4
<1>13. CASE UNCHANGED vars
  BY <1>13 DEF vars, TypeOK, VersionsBounded
<1> QED BY <1>1, <1>2, <1>3, <1>4, <1>5, <1>6, <1>7, <1>8, <1>9, <1>10, <1>11, <1>12, <1>13
        DEF Next, Publish

\* Every reachable state is well typed.
THEOREM TypeCorrect == Spec => []TypeOK
<1>1. Spec => [](TypeOK /\ VersionsBounded)
  BY TypeInit, TypeNext, PTL DEF Spec
<1> QED BY <1>1, PTL

----------------------------------------------------------------------------
\* The steps that change the status of an event, and the one that handles it.
LEMMA RowSteps ==
  ASSUME TypeOK, [Next]_vars
  PROVE  \/ UNCHANGED <<status, attempts, publisherDlq>>
         \/ \E e \in Events : AppendEvent(e) \/ ReplayPublisher(e)
         \/ \E p \in Publishers : \/ \E e \in Events : ClaimPublishable(p, e)
                                  \/ MarkPublished(p) \/ MarkPublishFailure(p)
BY DEF Next, LeaseExpires, RetryComesDue, ReplayConsumer, RepublishReplay, Publish,
       PublishToBroker, PublishLocally, MarkFails, StaleClaim, Crash, Deliver,
       DeliverCorrupted, vars, outbox, dlq

\* The consumer stays as it is, or consumes a copy it accepts.
LEMMA ConsumerSteps ==
  ASSUME TypeOK, [Next]_vars
  PROVE  \/ UNCHANGED consumer
         \/ UNCHANGED status /\ \E e \in Events, r \in Nat : Accepts(e, r) /\ Consume(e, r)
<1>1. ASSUME NEW c \in channel, Deliver(c)
      PROVE  UNCHANGED status /\ \E e \in Events, r \in Nat : Accepts(e, r) /\ Consume(e, r)
  <2>1. c.event \in Events /\ c.replay \in Nat
    BY OutboxAssumption DEF TypeOK, Copy
  <2> QED BY <1>1, <2>1 DEF Deliver, outbox
<1>2. ASSUME NEW p \in Publishers, PublishLocally(p)
      PROVE  \/ UNCHANGED consumer
             \/ UNCHANGED status /\ \E e \in Events, r \in Nat : Accepts(e, r) /\ Consume(e, r)
  <2>1. heldEvent[p] \in Events
    BY DEF TypeOK
  <2> QED BY <1>2, <2>1 DEF PublishLocally, outbox
<1> QED
  BY <1>1, <1>2 DEF Next, AppendEvent, LeaseExpires, RetryComesDue, ReplayPublisher,
     ReplayConsumer, RepublishReplay, ClaimPublishable, Publish, PublishToBroker,
     MarkPublished, MarkFails, MarkPublishFailure, StaleClaim, Crash, DeliverCorrupted, vars

----------------------------------------------------------------------------
\* An event that is not published and has only published ones before it may go on
\* as it likes: what comes after it has not been touched.
LEMMA OneMoves ==
  ASSUME TypeOK, PublishedInOrder, NEW e \in Events, NEW s \in Statuses,
         status[e] # "published", status' = [status EXCEPT ![e] = s],
         s \notin {"absent", "pending"} => PriorsPublished(e)
  PROVE  PublishedInOrder'
<1>1. ASSUME NEW f \in Events, status'[f] \notin {"absent", "pending"}, NEW d \in 1 .. f - 1
      PROVE  status'[d] = "published"
  <2>1. d \in Events /\ d # f /\ d \in Nat /\ f \in Nat /\ d < f
    BY OutboxAssumption DEF Events
  <2>2. CASE f = e
    BY <1>1, <2>1, <2>2 DEF TypeOK, PriorsPublished
  <2>3. CASE f # e
    <3>1. PriorsPublished(f)
      BY <1>1, <2>3 DEF TypeOK, PublishedInOrder
    <3> QED BY <2>1, <3>1 DEF TypeOK, PriorsPublished
  <2> QED BY <2>2, <2>3
<1> QED BY <1>1 DEF PublishedInOrder, PriorsPublished

\* Every step keeps the publications in order.
LEMMA OrderNext == TypeOK /\ PublishedInOrder /\ [Next]_vars => PublishedInOrder'
<1> SUFFICES ASSUME TypeOK, PublishedInOrder, [Next]_vars PROVE PublishedInOrder'
  OBVIOUS
<1>1. ASSUME NEW e \in Events, AppendEvent(e) PROVE PublishedInOrder'
  BY <1>1, OneMoves DEF AppendEvent, Statuses
<1>2. ASSUME NEW e \in Events, ReplayPublisher(e) PROVE PublishedInOrder'
  <2>1. PriorsPublished(e)
    BY <1>2 DEF ReplayPublisher, PublishedInOrder
  <2> QED BY <1>2, <2>1, OneMoves DEF ReplayPublisher, Statuses
<1>3. ASSUME NEW p \in Publishers, NEW e \in Events, ClaimPublishable(p, e)
      PROVE  PublishedInOrder'
  BY <1>3, OneMoves DEF ClaimPublishable, Due, Statuses
<1>4. ASSUME NEW p \in Publishers, MarkPublished(p) \/ MarkPublishFailure(p)
      PROVE  PublishedInOrder'
  <2> DEFINE e == heldEvent[p]
  <2>1. e \in Events /\ status[e] = "publishing"
    BY <1>4 DEF MarkPublished, MarkPublishFailure, Holds, TypeOK
  <2>2. PriorsPublished(e)
    BY <2>1 DEF PublishedInOrder
  <2>3. \E s \in Statuses : status' = [status EXCEPT ![e] = s]
    BY <1>4 DEF MarkPublished, MarkPublishFailure, Statuses
  <2> HIDE DEF e
  <2> QED BY <2>1, <2>2, <2>3, OneMoves
<1>5. CASE UNCHANGED status
  BY <1>5 DEF PublishedInOrder, PriorsPublished
<1> QED BY <1>1, <1>2, <1>3, <1>4, <1>5, RowSteps

\* A dead letter follows its event, since a replay never ends in another retry.
LEMMA DeadLettersNext ==
  TypeOK /\ DeadLettersMatch /\ ReplaysAreLast /\ [Next]_vars
  => DeadLettersMatch' /\ ReplaysAreLast'
<1> SUFFICES ASSUME TypeOK, DeadLettersMatch, ReplaysAreLast, [Next]_vars
             PROVE  DeadLettersMatch' /\ ReplaysAreLast'
  OBVIOUS
<1> USE DEF TypeOK, DeadLettersMatch, ReplaysAreLast, dlq
<1>1. ASSUME NEW e \in Events, AppendEvent(e) PROVE DeadLettersMatch' /\ ReplaysAreLast'
  BY <1>1 DEF AppendEvent
<1>2. ASSUME NEW e \in Events, ReplayPublisher(e) PROVE DeadLettersMatch' /\ ReplaysAreLast'
  BY <1>2 DEF ReplayPublisher
<1>3. ASSUME NEW p \in Publishers, NEW e \in Events, ClaimPublishable(p, e)
      PROVE  DeadLettersMatch' /\ ReplaysAreLast'
  BY <1>3 DEF ClaimPublishable, Due
<1>4. ASSUME NEW p \in Publishers, MarkPublished(p)
      PROVE  DeadLettersMatch' /\ ReplaysAreLast'
  BY <1>4 DEF MarkPublished, Holds, AfterPublish
<1>5. ASSUME NEW p \in Publishers, MarkPublishFailure(p)
      PROVE  DeadLettersMatch' /\ ReplaysAreLast'
  BY <1>5, OutboxAssumption DEF MarkPublishFailure, Holds
<1>6. CASE UNCHANGED <<status, attempts, publisherDlq>>
  BY <1>6
<1> QED BY <1>1, <1>2, <1>3, <1>4, <1>5, <1>6, RowSteps

\* The event that is appended is the one after those that are.
LEMMA NextAppended ==
  ASSUME TypeOK, NEW n \in Nat, AppendedEvents = 1 .. n, NEW e \in Events, AppendEvent(e)
  PROVE  e = n + 1 /\ AppendedEvents' = 1 .. n + 1
<1>1. e \in Nat /\ e >= 1 /\ e \notin 1 .. n
  BY DEF AppendEvent, AppendedEvents, Events
<1>2. 1 .. e - 1 \subseteq 1 .. n
  <2>1. 1 .. e - 1 \subseteq Events
    BY OutboxAssumption DEF Events
  <2> QED BY <2>1 DEF AppendEvent, AppendedEvents
<1>3. e = n + 1
  <2> SUFFICES ASSUME e > n + 1 PROVE FALSE
    BY <1>1
  <2>1. n + 1 \in 1 .. e - 1 /\ n + 1 \notin 1 .. n
    BY <1>1
  <2> QED BY <1>2, <2>1
<1>4. AppendedEvents' = AppendedEvents \cup {e}
  BY DEF AppendEvent, AppendedEvents, TypeOK
<1> QED BY <1>3, <1>4

\* No other step makes an event absent or appends one.
LEMMA OthersAppendNothing ==
  ASSUME TypeOK, [Next]_vars, ~ \E e \in Events : AppendEvent(e)
  PROVE  AppendedEvents' = AppendedEvents
<1> USE DEF AppendedEvents, TypeOK
<1>1. ASSUME NEW e \in Events, ReplayPublisher(e) PROVE AppendedEvents' = AppendedEvents
  BY <1>1 DEF ReplayPublisher
<1>2. ASSUME NEW p \in Publishers, NEW e \in Events, ClaimPublishable(p, e)
      PROVE  AppendedEvents' = AppendedEvents
  BY <1>2 DEF ClaimPublishable, Due
<1>3. ASSUME NEW p \in Publishers, MarkPublished(p) \/ MarkPublishFailure(p)
      PROVE  AppendedEvents' = AppendedEvents
  BY <1>3 DEF MarkPublished, MarkPublishFailure, Holds
<1>4. CASE UNCHANGED status
  BY <1>4
<1> QED BY <1>1, <1>2, <1>3, <1>4, RowSteps

\* Every step keeps the appended events without gaps.
LEMMA GapsNext == TypeOK /\ NoGaps /\ [Next]_vars => NoGaps'
<1> SUFFICES ASSUME TypeOK, NEW n \in Nat, AppendedEvents = 1 .. n, [Next]_vars PROVE NoGaps'
  BY DEF NoGaps
<1>1. \E m \in Nat : AppendedEvents' = 1 .. m
  BY NextAppended, OthersAppendNothing
<1> QED BY <1>1 DEF NoGaps

\* The consumer takes the event after the ones it has handled, and no other.
LEMMA NextHandled ==
  ASSUME TypeOK, HandledPrefix, NEW e \in Events, NEW r \in Nat, Accepts(e, r)
  PROVE  e = Len(handled) + 1
<1>1. Len(handled) \in Nat /\ e \in Nat /\ e >= 1
  BY DEF TypeOK, Events
<1>2. e \notin 1 .. Len(handled) /\ \A d \in 1 .. e - 1 : d \in 1 .. Len(handled)
  BY DEF Accepts, HandledPrefix
<1>3. ~(e > Len(handled) + 1)
  <2> SUFFICES ASSUME e > Len(handled) + 1 PROVE FALSE
    OBVIOUS
  <2>1. Len(handled) + 1 \in 1 .. e - 1
    BY <1>1
  <2> QED BY <1>1, <1>2, <2>1
<1> QED BY <1>1, <1>2, <1>3

\* Every step keeps what was handled a prefix.
LEMMA HandledNext == TypeOK /\ HandledPrefix /\ [Next]_vars => HandledPrefix'
<1> SUFFICES ASSUME TypeOK, HandledPrefix, [Next]_vars PROVE HandledPrefix'
  OBVIOUS
<1>1. ASSUME NEW e \in Events, NEW r \in Nat, Accepts(e, r), Consume(e, r), UNCHANGED status
      PROVE  HandledPrefix'
  <2>1. e = Len(handled) + 1 /\ handled \in Seq(Events) /\ Len(handled) \in Nat
    BY <1>1, NextHandled DEF TypeOK
  <2>2. handled' = Append(handled, e) /\ inbox' = inbox \cup {e}
    BY <1>1 DEF Consume
  <2>3. /\ Len(handled') = Len(handled) + 1 /\ handled'[Len(handled) + 1] = e
        /\ \A i \in 1 .. Len(handled) : handled'[i] = handled[i]
    BY <2>1, <2>2
  <2>4. inbox' = 1 .. Len(handled')
    BY <2>1, <2>2, <2>3 DEF HandledPrefix
  <2>5. \A i \in 1 .. Len(handled') : handled'[i] = i
    BY <2>1, <2>3 DEF HandledPrefix
  <2> QED BY <1>1, <2>2, <2>4, <2>5 DEF HandledPrefix, Accepts
<1>2. ASSUME UNCHANGED consumer PROVE HandledPrefix'
  <2>1. \A e \in Events : status[e] = "published" => status'[e] = "published"
    BY RowSteps DEF AppendEvent, ReplayPublisher, ClaimPublishable, Due, MarkPublished,
                    MarkPublishFailure, Holds, TypeOK
  <2> QED BY <1>2, <2>1 DEF HandledPrefix, consumer, TypeOK
<1> QED BY <1>1, <1>2, ConsumerSteps

\* The inductive invariant.
THEOREM Invariance == Spec => []Inv
<1>1. Init => Inv
  <2> SUFFICES ASSUME Init PROVE Inv
    OBVIOUS
  <2>1. HandledPrefix
    BY DEF Init, HandledPrefix
  <2>2. AppendedEvents = 1 .. 0
    BY DEF Init, AppendedEvents
  <2>3. PublishedInOrder /\ DeadLettersMatch /\ ReplaysAreLast
    BY DEF Init, PublishedInOrder, DeadLettersMatch, ReplaysAreLast
  <2> QED BY <2>1, <2>2, <2>3, TypeInit DEF Inv, NoGaps
<1>2. Inv /\ [Next]_vars => Inv'
  BY TypeNext, OrderNext, DeadLettersNext, GapsNext, HandledNext DEF Inv
<1> QED BY <1>1, <1>2, PTL DEF Spec

\* An event is touched only when all before it are published.
THEOREM OrderTheorem == Spec => []PublishedInOrder
  BY Invariance, PTL DEF Inv

\* A dead event has exactly one way out.
THEOREM DeadLettersTheorem == Spec => []DeadLettersMatch
  BY Invariance, PTL DEF Inv

\* A publisher whose claim was reclaimed reports to nobody.
THEOREM StalePublisherTheorem == Spec => StalePublisherHarmless
<1> DEFINE Harmless == \A p \in Publishers :
      /\ pc[p] # "idle" /\ pc'[p] # pc[p]
      /\ heldEpoch[p] # epoch[heldEvent[p]]
      => UNCHANGED <<outbox, publisherDlq>>
<1>1. TypeOK /\ [Next]_vars => Harmless
  <2> SUFFICES ASSUME TypeOK, [Next]_vars, NEW p \in Publishers, pc[p] # "idle",
                      pc'[p] # pc[p], heldEpoch[p] # epoch[heldEvent[p]]
               PROVE  UNCHANGED <<outbox, publisherDlq>>
    OBVIOUS
  <2> USE DEF TypeOK, Goes
  <2>1. PICK q \in Publishers : \/ \E e \in Events : ClaimPublishable(q, e)
                                \/ Publish(q) \/ MarkPublished(q) \/ MarkFails(q)
                                \/ MarkPublishFailure(q) \/ StaleClaim(q) \/ Crash(q)
    BY DEF Next, AppendEvent, LeaseExpires, RetryComesDue, ReplayPublisher, ReplayConsumer,
           RepublishReplay, Deliver, DeliverCorrupted, vars, memory
  <2>2. q = p
    BY <2>1 DEF ClaimPublishable, Publish, PublishToBroker, PublishLocally, MarkPublished,
                MarkFails, MarkPublishFailure, StaleClaim, Crash
  <2> QED BY <2>1, <2>2 DEF ClaimPublishable, Publish, PublishToBroker, PublishLocally,
                MarkPublished, MarkFails, MarkPublishFailure, StaleClaim, Crash, Holds, dlq
<1> QED BY <1>1, TypeCorrect, PTL DEF Spec, StalePublisherHarmless

----------------------------------------------------------------------------
(* The dead ends of the findings, for every number of events and attempts.  *)

\* With the local port an event that has a route is never published, nobody
\* even gets to the mark, and the consumer has handled nothing.
RouteIsDeadEnd ==
  transport = "local" =>
    /\ handled = <<>>
    /\ \A e \in Routed : status[e] # "published"
    /\ \A p \in Publishers : pc[p] = "sent" => heldEvent[p] \notin Routed

\* The local publisher waits for the consumer, which waits for the publication.
LEMMA RouteNext == TypeOK /\ RouteIsDeadEnd /\ [Next]_vars => RouteIsDeadEnd'
<1> SUFFICES ASSUME TypeOK, RouteIsDeadEnd, [Next]_vars, transport' = "local"
             PROVE  RouteIsDeadEnd'
  BY DEF RouteIsDeadEnd
<1> USE DEF RouteIsDeadEnd
<1>0. transport = "local" /\ Routed \subseteq Events
  BY OutboxAssumption
     DEF Next, AppendEvent, LeaseExpires, RetryComesDue, ReplayPublisher, ReplayConsumer,
         RepublishReplay, ClaimPublishable, Publish, PublishToBroker, PublishLocally,
         MarkPublished, MarkFails, MarkPublishFailure, StaleClaim, Crash, Deliver,
         DeliverCorrupted, vars
<1>1. ASSUME NEW e \in Events, AppendEvent(e) \/ ReplayPublisher(e) PROVE RouteIsDeadEnd'
  BY <1>0, <1>1 DEF AppendEvent, ReplayPublisher, TypeOK, consumer, memory
<1>2. ASSUME NEW e \in Events,
             LeaseExpires(e) \/ RetryComesDue(e) \/ ReplayConsumer(e) \/ RepublishReplay(e)
      PROVE  RouteIsDeadEnd'
  BY <1>0, <1>2 DEF LeaseExpires, RetryComesDue, ReplayConsumer, RepublishReplay, outbox,
                    consumer, memory
<1>3. ASSUME NEW p \in Publishers, NEW e \in Events, ClaimPublishable(p, e)
      PROVE  RouteIsDeadEnd'
  BY <1>0, <1>3 DEF ClaimPublishable, TypeOK, consumer
<1>4. ASSUME NEW p \in Publishers, PublishLocally(p) PROVE RouteIsDeadEnd'
  <2>1. ~ (heldEvent[p] \in Routed /\ Accepts(heldEvent[p], 0))
    BY <1>0 DEF Accepts
  <2>2. handled' = handled /\ UNCHANGED <<status, heldEvent>>
    BY <1>4, <2>1 DEF PublishLocally, consumer, outbox, Goes
  <2>3. \A q \in Publishers : pc'[q] = "sent" => heldEvent[q] \notin Routed
    BY <1>0, <1>4, <2>1 DEF PublishLocally, TypeOK, Goes
  <2> QED BY <1>0, <2>2, <2>3
<1>5. ASSUME NEW p \in Publishers, MarkPublished(p) PROVE RouteIsDeadEnd'
  BY <1>0, <1>5 DEF MarkPublished, Goes, TypeOK, consumer
<1>6. ASSUME NEW p \in Publishers, MarkPublishFailure(p) PROVE RouteIsDeadEnd'
  BY <1>0, <1>6 DEF MarkPublishFailure, Goes, TypeOK, consumer
<1>7. ASSUME NEW p \in Publishers, MarkFails(p) \/ StaleClaim(p) \/ Crash(p)
      PROVE  RouteIsDeadEnd'
  BY <1>0, <1>7 DEF MarkFails, StaleClaim, Crash, Goes, TypeOK, consumer, outbox
<1>8. ASSUME NEW c \in channel, Deliver(c) \/ DeliverCorrupted(c) PROVE FALSE
  BY <1>0, <1>8 DEF Deliver, DeliverCorrupted
<1>9. ASSUME NEW p \in Publishers, PublishToBroker(p) PROVE FALSE
  BY <1>0, <1>9 DEF PublishToBroker
<1>10. CASE UNCHANGED vars
  BY <1>0, <1>10 DEF vars, outbox, consumer, memory
<1> QED BY <1>1, <1>2, <1>3, <1>4, <1>5, <1>6, <1>7, <1>8, <1>9, <1>10 DEF Next, Publish

\* With the local port no event that has a route is ever published, and the
\* consumer never handles any: no schedule and no operator changes that.
THEOREM RouteTheorem == Spec => []RouteIsDeadEnd
<1>1. Init => RouteIsDeadEnd
  <2> SUFFICES ASSUME Init PROVE RouteIsDeadEnd
    OBVIOUS
  <2> QED BY OutboxAssumption DEF Init, RouteIsDeadEnd
<1> QED BY <1>1, RouteNext, TypeCorrect, PTL DEF Spec

\* Nobody remembers a claim newer than the event's last.
ClaimsFenced == \A p \in Publishers : heldEpoch[p] <= epoch[heldEvent[p]]

\* Every step keeps it: epochs only grow.
LEMMA FencesNext == TypeOK /\ ClaimsFenced /\ [Next]_vars => ClaimsFenced'
<1> SUFFICES ASSUME TypeOK, ClaimsFenced, [Next]_vars PROVE ClaimsFenced'
  OBVIOUS
<1> USE DEF ClaimsFenced, TypeOK
<1>1. ASSUME NEW e \in Events, ReplayPublisher(e) PROVE ClaimsFenced'
  BY <1>1 DEF ReplayPublisher, memory
<1>2. ASSUME NEW p \in Publishers, NEW e \in Events, ClaimPublishable(p, e)
      PROVE  ClaimsFenced'
  BY <1>2 DEF ClaimPublishable
<1>3. CASE UNCHANGED <<epoch, heldEvent, heldEpoch>>
  BY <1>3
<1> QED
  BY <1>1, <1>2, <1>3
     DEF Next, AppendEvent, LeaseExpires, RetryComesDue, ReplayConsumer, RepublishReplay,
         Publish, PublishToBroker, PublishLocally, MarkPublished, MarkFails,
         MarkPublishFailure, StaleClaim, Crash, Deliver, DeliverCorrupted, Goes,
         vars, outbox, memory

\* The dead letter of the consumer is not resolved, and its event was handled
\* already, or it is not published and no publisher is at it any more.
NeverResolved(e) ==
  /\ consumerDlq[e] \in {"replaying", "quarantined"}
  /\ \/ e \in inbox
     \/ /\ status[e] # "published"
        /\ \A p \in Publishers : pc[p] # "idle" /\ heldEvent[p] = e => ~Holds(p)

\* Which steps touch the consumer's dead letters.
LEMMA DeadLetterSteps ==
  ASSUME TypeOK, VersionsBounded, [Next]_vars, NEW e \in Events,
         consumerDlq[e] \in {"replaying", "quarantined"},
         consumerDlq'[e] \notin {"replaying", "quarantined"}
  PROVE  status[e] = "published" /\ e \notin inbox
<1> USE DEF TypeOK
<1>1. ASSUME NEW c \in channel, Deliver(c) PROVE status[e] = "published" /\ e \notin inbox
  BY <1>1 DEF Deliver, Consume, Accepts, Copy
<1>2. ASSUME NEW c \in channel, DeliverCorrupted(c) PROVE FALSE
  BY <1>2 DEF DeliverCorrupted, Copy
<1>3. ASSUME NEW f \in Events, ReplayConsumer(f) PROVE FALSE
  BY <1>3 DEF ReplayConsumer
<1>4. ASSUME NEW p \in Publishers, PublishLocally(p) PROVE FALSE
  BY <1>4 DEF PublishLocally, Consume
<1>5. consumerDlq' # consumerDlq
  OBVIOUS
<1> QED
  BY <1>1, <1>2, <1>3, <1>4, <1>5
     DEF Next, AppendEvent, LeaseExpires, RetryComesDue, ReplayPublisher, RepublishReplay,
         ClaimPublishable, Publish, PublishToBroker, MarkPublished, MarkFails,
         MarkPublishFailure, StaleClaim, Crash, vars, dlq

\* What was handled stays so.
LEMMA InboxGrows == ASSUME TypeOK, [Next]_vars PROVE inbox \subseteq inbox'
BY ConsumerSteps DEF Consume, consumer

\* An isolated event that nobody is publishing is not claimed, and stays as it is.
LEMMA NobodyPublishes ==
  ASSUME TypeOK, ClaimsFenced, [Next]_vars, NEW e \in Events, Isolated(e),
         status[e] # "published",
         \A p \in Publishers : pc[p] # "idle" /\ heldEvent[p] = e => ~Holds(p)
  PROVE  /\ status'[e] # "published"
         /\ \A p \in Publishers :
              pc'[p] # "idle" /\ heldEvent'[p] = e
              => ~(status'[heldEvent'[p]] = "publishing" /\ epoch'[heldEvent'[p]] = heldEpoch'[p])
<1> DEFINE Unheld ==
      /\ status'[e] # "published"
      /\ \A p \in Publishers :
           pc'[p] # "idle" /\ heldEvent'[p] = e
           => ~(status'[heldEvent'[p]] = "publishing" /\ epoch'[heldEvent'[p]] = heldEpoch'[p])
<1> USE DEF TypeOK, Holds
<1>1. ASSUME NEW f \in Events, AppendEvent(f) PROVE Unheld
  BY <1>1 DEF AppendEvent, memory
<1>2. ASSUME NEW f \in Events, ReplayPublisher(f) PROVE Unheld
  <2>1. CASE f = e
    BY <1>2, <2>1 DEF ReplayPublisher, memory, ClaimsFenced
  <2>2. CASE f # e
    BY <1>2, <2>2 DEF ReplayPublisher, memory
  <2> QED BY <2>1, <2>2
<1>3. ASSUME NEW p \in Publishers, NEW f \in Events, ClaimPublishable(p, f) PROVE Unheld
  <2>1. f # e
    BY <1>3 DEF ClaimPublishable
  <2> QED BY <1>3, <2>1 DEF ClaimPublishable
<1>4. ASSUME NEW p \in Publishers, MarkPublished(p) \/ MarkPublishFailure(p) PROVE Unheld
  <2>1. heldEvent[p] # e
    BY <1>4 DEF MarkPublished, MarkPublishFailure
  <2> QED BY <1>4, <2>1 DEF MarkPublished, MarkPublishFailure, Goes
<1>5. ASSUME UNCHANGED <<status, epoch, heldEvent, heldEpoch>>,
             \A p \in Publishers : pc'[p] # "idle" => pc[p] # "idle"
      PROVE  Unheld
  BY <1>5
<1>6. ASSUME NEW p \in Publishers,
             Publish(p) \/ MarkFails(p) \/ StaleClaim(p) \/ Crash(p)
      PROVE  Unheld
  BY <1>6 DEF Publish, PublishToBroker, PublishLocally, MarkFails, StaleClaim, Crash,
              Goes, outbox
<1>7. ASSUME NEW f \in Events,
             LeaseExpires(f) \/ RetryComesDue(f) \/ ReplayConsumer(f) \/ RepublishReplay(f)
      PROVE  Unheld
  BY <1>5, <1>7 DEF LeaseExpires, RetryComesDue, ReplayConsumer, RepublishReplay, outbox, memory
<1>8. ASSUME NEW c \in channel, Deliver(c) \/ DeliverCorrupted(c) PROVE Unheld
  BY <1>5, <1>8 DEF Deliver, DeliverCorrupted, outbox, memory
<1>9. CASE UNCHANGED vars
  BY <1>5, <1>9 DEF vars, outbox, memory
<1>10. Unheld
  BY <1>1, <1>2, <1>3, <1>4, <1>6, <1>7, <1>8, <1>9 DEF Next
<1> QED BY <1>10

\* No step leads out of it.
LEMMA NeverNext ==
  ASSUME NEW e \in Events
  PROVE  TypeOK /\ VersionsBounded /\ ClaimsFenced /\ NeverResolved(e) /\ [Next]_vars
         => NeverResolved(e)'
<1> SUFFICES ASSUME TypeOK, VersionsBounded, ClaimsFenced, NeverResolved(e), [Next]_vars
             PROVE  NeverResolved(e)'
  OBVIOUS
<1>1. consumerDlq'[e] \in {"replaying", "quarantined"}
  BY DeadLetterSteps DEF NeverResolved
<1>2. CASE e \in inbox
  BY <1>1, <1>2, InboxGrows DEF NeverResolved
<1>3. CASE e \notin inbox
  <2>1. e \in 1 .. e
    BY OutboxAssumption DEF Events
  <2>2. Isolated(e)
    BY <2>1 DEF Isolated, NeverResolved
  <2> QED BY <1>1, <1>3, <2>2, NobodyPublishes DEF NeverResolved, Holds
<1> QED BY <1>2, <1>3

\* A replay of an event that was handled before, or that is not published and
\* that nobody is publishing, never ends, and holds up what comes after it.
THEOREM NeverResolvedTheorem ==
  ASSUME NEW e \in Events
  PROVE  Spec => [](NeverResolved(e) => [](NeverResolved(e) /\ Isolated(e)))
<1>1. Init => ClaimsFenced
  <2> SUFFICES ASSUME Init, NEW p \in Publishers PROVE heldEpoch[p] <= epoch[heldEvent[p]]
    BY DEF ClaimsFenced
  <2> QED BY OutboxAssumption DEF Init, Events
<1>2. Spec => []ClaimsFenced
  BY <1>1, FencesNext, TypeCorrect, PTL DEF Spec
<1>3. NeverResolved(e) => Isolated(e)
  <2>1. e \in 1 .. e
    BY OutboxAssumption DEF Events
  <2> QED BY <2>1 DEF Isolated, NeverResolved
<1>4. Inv => TypeOK /\ VersionsBounded
  BY DEF Inv
<1>5. TypeOK /\ VersionsBounded /\ ClaimsFenced /\ NeverResolved(e) /\ [Next]_vars
      => NeverResolved(e)'
  BY NeverNext
<1> HIDE DEF NeverResolved
<1> QED BY <1>2, <1>3, <1>4, <1>5, Invariance, PTL DEF Spec

----------------------------------------------------------------------------
(* Refinement: the events appended are a prefix of the key.                 *)

\* Appended lists them.
LEMMA AppendedLists ==
  ASSUME NEW n \in Nat, AppendedEvents = 1 .. n
  PROVE  Appended = [i \in 1 .. n |-> i]
<1>1. Cardinality(1 .. n) = n
  BY FS_Interval
<1> QED BY <1>1 DEF Appended, AppendedEvents

\* So it does after the step.
LEMMA AppendedListsNext ==
  ASSUME NEW n \in Nat, AppendedEvents' = 1 .. n
  PROVE  Appended' = [i \in 1 .. n |-> i]
<1>1. Cardinality(1 .. n) = n
  BY FS_Interval
<1> QED BY <1>1 DEF Appended, AppendedEvents

\* The initial states are initial states of the contract.
LEMMA AbstractInit == Init => Abstract!Init
<1> SUFFICES ASSUME Init PROVE Abstract!Init
  OBVIOUS
<1>1. AppendedEvents = 1 .. 0
  BY DEF Init, AppendedEvents
<1>2. Appended = <<>>
  BY <1>1, AppendedLists
<1> QED BY <1>2 DEF Init, Abstract!Init

\* Every step is a step of the contract, or changes nothing of it.
LEMMA AbstractNext ==
  Inv /\ [Next]_vars => [Abstract!AppendEvent \/ Abstract!Handle]_<<Appended, handled>>
<1> SUFFICES ASSUME Inv, [Next]_vars
             PROVE  [Abstract!AppendEvent \/ Abstract!Handle]_<<Appended, handled>>
  OBVIOUS
<1>1. PICK n \in Nat : AppendedEvents = 1 .. n
  BY DEF Inv, NoGaps
<1>2. Appended = [i \in 1 .. n |-> i]
  BY <1>1, AppendedLists
<1>3. ASSUME NEW e \in Events, AppendEvent(e) PROVE Abstract!AppendEvent
  <2>1. AppendedEvents' = 1 .. n + 1
    BY <1>1, <1>3, NextAppended DEF Inv
  <2>2. Appended' = [i \in 1 .. n + 1 |-> i]
    BY <2>1, AppendedListsNext
  <2>3. Appended' = Append(Appended, Len(Appended) + 1)
    BY <1>2, <2>2
  <2> QED BY <1>3, <2>3 DEF Abstract!AppendEvent, AppendEvent, consumer
<1>4. ASSUME ~ \E e \in Events : AppendEvent(e)
      PROVE  Appended' = Appended
  <2>1. AppendedEvents' = 1 .. n
    BY <1>1, <1>4, OthersAppendNothing DEF Inv
  <2> QED BY <1>2, <2>1, AppendedListsNext
<1>5. ASSUME NEW e \in Events, NEW r \in Nat, Accepts(e, r), Consume(e, r), UNCHANGED status
      PROVE  Abstract!Handle
  <2>1. e = Len(handled) + 1 /\ handled' = Append(handled, e) /\ Len(handled) \in Nat
    BY <1>5, NextHandled DEF Inv, Consume, TypeOK
  <2>2. e \in AppendedEvents
    BY <1>5 DEF Accepts, AppendedEvents
  <2>3. Len(handled) < Len(Appended) /\ Appended[Len(handled) + 1] = e
    BY <1>1, <1>2, <2>1, <2>2
  <2>4. UNCHANGED Appended
    BY <1>5 DEF Appended
  <2> QED BY <2>1, <2>3, <2>4 DEF Abstract!Handle
<1>6. CASE UNCHANGED consumer
  BY <1>3, <1>4, <1>6 DEF consumer
<1> QED BY <1>5, <1>6, ConsumerSteps DEF Inv

\* Outbox and inbox together keep the contract with a consumer.
THEOREM Refinement == Spec => AbstractSpec
  BY AbstractInit, AbstractNext, Invariance, PTL DEF Spec, AbstractSpec, Abstract!Spec
============================================================================

--------------------- MODULE NotificationDeliveryProofs ---------------------
(***************************************************************************)
(* Proofs about NotificationDelivery, for any workers and any attempt       *)
(* budget.  The inductive invariant adds to the checked ones what they rest *)
(* on: no claim is newer than the row's, a claim that is reported sent was  *)
(* taken by the channel, and the claim under way has no audit row yet.      *)
(***************************************************************************)
EXTENDS NotificationDelivery, FiniteSetTheorems, TLAPS

Reports == {a \in audit : a.to = "delivered"}
OfCycle(rows, c) == {a \in rows : a.attempt > c}

\* The claims in the workers' memory and in the audit are the row's or older.
ClaimsOrdered ==
  /\ cycle <= epoch
  /\ \A w \in Workers : heldEpoch[w] <= epoch
  /\ \A a \in audit : a.attempt <= epoch
  /\ status = "delivering" => cycle < epoch /\ \A a \in audit : a.attempt < epoch

\* A message reported sent is at the channel, and the audit says so once.
SentIsAccepted ==
  /\ \A w \in Workers : pc[w] = "sent" => heldEpoch[w] \in accepted
  /\ \A a \in Reports : a.attempt \in accepted /\ a.attempt = epoch
  /\ status = "delivered" <=> Reports # {}
  /\ \A a, b \in audit : a.attempt = b.attempt => a = b

\* AttemptsExplained, and what makes its count grow by one.
AttemptsCounted == IsFiniteSet(audit) /\ AttemptsExplained

Inv == TypeOK /\ DeadLetterMatches /\ ClaimsOrdered /\ SentIsAccepted /\ AttemptsCounted

----------------------------------------------------------------------------
\* The types hold initially, and every action keeps them.
LEMMA TypeInit == Init => TypeOK
<1>1. Init => blocked \in BOOLEAN
  BY Zenon DEF Init
<1> QED BY <1>1 DEF Init, TypeOK, Statuses

\* Every step keeps the types.
LEMMA TypeNext == TypeOK /\ [Next]_vars => TypeOK'
<1> SUFFICES ASSUME TypeOK, [Next]_vars PROVE TypeOK'
  OBVIOUS
<1> USE DEF TypeOK, Statuses, Audit, row, records, memory, Goes
<1>1. ASSUME NEW w \in Workers, Claim(w) PROVE TypeOK'
  BY <1>1 DEF Claim, FreshFence
<1>2. ASSUME NEW w \in Workers, Deliver(w) PROVE TypeOK'
  BY <1>2 DEF Deliver, Answers
<1>3. ASSUME NEW w \in Workers, CompleteDelivery(w) PROVE TypeOK'
  BY <1>3 DEF CompleteDelivery, AfterDelivery
<1>4. ASSUME NEW w \in Workers, CompleteFails(w) \/ StaleClaim(w) \/ Crash(w) PROVE TypeOK'
  BY <1>4 DEF CompleteFails, StaleClaim, Crash
<1>5. ASSUME NEW w \in Workers, FailDelivery(w) PROVE TypeOK'
  BY <1>5 DEF FailDelivery
<1>6. CASE Replay
  BY <1>6 DEF Replay
<1>7. CASE LeaseExpires \/ RetryComesDue
  BY <1>7 DEF LeaseExpires, RetryComesDue
<1>8. CASE ReplayTrouble
  <2>1. blocked' \in BOOLEAN
    BY <1>8, Zenon DEF ReplayTrouble
  <2> QED BY <1>8, <2>1 DEF ReplayTrouble
<1>9. CASE UNCHANGED vars
  BY <1>9 DEF vars
<1> QED BY <1>1, <1>2, <1>3, <1>4, <1>5, <1>6, <1>7, <1>8, <1>9 DEF Next

\* Every reachable state is well typed.
THEOREM TypeCorrect == Spec => []TypeOK
  BY TypeInit, TypeNext, PTL DEF Spec

----------------------------------------------------------------------------
\* What is common to the steps that touch neither the delivery nor its records.
LEMMA QuietSteps ==
  ASSUME TypeOK, [Next]_vars,
         ~ \E w \in Workers : Claim(w) \/ CompleteDelivery(w) \/ FailDelivery(w),
         ~ Replay
  PROVE  /\ UNCHANGED <<status, epoch, attempts, records>>
         /\ UNCHANGED heldEpoch
         /\ accepted \subseteq accepted'
         /\ \A w \in Workers : pc'[w] = "sent" => pc[w] = "sent" \/ heldEpoch[w] \in accepted'
<1> USE DEF TypeOK, row, records, memory, Goes
<1>1. ASSUME NEW w \in Workers, Deliver(w)
      PROVE  /\ UNCHANGED <<status, epoch, attempts, records, heldEpoch>>
             /\ accepted \subseteq accepted'
             /\ \A u \in Workers : pc'[u] = "sent" => pc[u] = "sent" \/ heldEpoch[u] \in accepted'
  BY <1>1 DEF Deliver, Answers
<1>2. ASSUME NEW w \in Workers, CompleteFails(w) \/ StaleClaim(w) \/ Crash(w)
      PROVE  /\ UNCHANGED <<status, epoch, attempts, records, heldEpoch, accepted>>
             /\ \A u \in Workers : pc'[u] = "sent" => pc[u] = "sent"
  BY <1>2 DEF CompleteFails, StaleClaim, Crash
<1>3. ASSUME LeaseExpires \/ RetryComesDue \/ ReplayTrouble \/ UNCHANGED vars
      PROVE  UNCHANGED <<status, epoch, attempts, records, memory, accepted>>
  BY <1>3 DEF LeaseExpires, RetryComesDue, ReplayTrouble, vars
<1> QED BY <1>1, <1>2, <1>3 DEF Next

\* A dead letter follows its delivery.
LEMMA DeadLetterNext == TypeOK /\ DeadLetterMatches /\ [Next]_vars => DeadLetterMatches'
<1> SUFFICES ASSUME TypeOK, DeadLetterMatches, [Next]_vars PROVE DeadLetterMatches'
  OBVIOUS
<1> USE DEF DeadLetterMatches, records
<1>1. ASSUME NEW w \in Workers, Claim(w) PROVE DeadLetterMatches'
  BY <1>1 DEF Claim, Due
<1>2. ASSUME NEW w \in Workers, CompleteDelivery(w) PROVE DeadLetterMatches'
  BY <1>2 DEF CompleteDelivery, Holds, AfterDelivery, TypeOK
<1>3. ASSUME NEW w \in Workers, FailDelivery(w) PROVE DeadLetterMatches'
  BY <1>3 DEF FailDelivery, Holds
<1>4. CASE Replay
  BY <1>4 DEF Replay
<1> QED BY <1>1, <1>2, <1>3, <1>4, QuietSteps

\* The fences grow with the claims.
LEMMA OrderNext == TypeOK /\ ClaimsOrdered /\ [Next]_vars => ClaimsOrdered'
<1> SUFFICES ASSUME TypeOK, ClaimsOrdered, [Next]_vars PROVE ClaimsOrdered'
  OBVIOUS
<1> USE DEF ClaimsOrdered, TypeOK, Audit, records, Goes
<1>1. ASSUME NEW w \in Workers, Claim(w) PROVE ClaimsOrdered'
  BY <1>1 DEF Claim, FreshFence
<1>2. ASSUME NEW w \in Workers, CompleteDelivery(w) PROVE ClaimsOrdered'
  BY <1>2 DEF CompleteDelivery
<1>3. ASSUME NEW w \in Workers, FailDelivery(w) PROVE ClaimsOrdered'
  BY <1>3 DEF FailDelivery
<1>4. CASE Replay
  BY <1>4 DEF Replay, memory
<1> QED BY <1>1, <1>2, <1>3, <1>4, QuietSteps

\* A report is made under the claim for which the channel took the message.
LEMMA SentNext ==
  TypeOK /\ ClaimsOrdered /\ SentIsAccepted /\ [Next]_vars => SentIsAccepted'
<1> SUFFICES ASSUME TypeOK, ClaimsOrdered, SentIsAccepted, [Next]_vars PROVE SentIsAccepted'
  OBVIOUS
<1> USE DEF ClaimsOrdered, SentIsAccepted, TypeOK, Audit, records, Goes, Reports
<1>1. ASSUME NEW w \in Workers, Claim(w) PROVE SentIsAccepted'
  BY <1>1 DEF Claim, FreshFence, Due
<1>2. ASSUME NEW w \in Workers, CompleteDelivery(w) PROVE SentIsAccepted'
  <2> DEFINE report == [attempt |-> epoch, to |-> "delivered"]
  <2>1. /\ status = "delivering" /\ epoch = heldEpoch[w] /\ epoch \in accepted
        /\ UNCHANGED <<epoch, accepted, heldEpoch>> /\ status' = "delivered"
        /\ audit' = audit \cup {report}
    BY <1>2 DEF CompleteDelivery, Holds
  <2>2. \A u \in Workers : pc'[u] = "sent" => pc[u] = "sent"
    BY <1>2 DEF CompleteDelivery
  <2>3. Reports = {} /\ \A a \in audit : a.attempt < epoch
    BY <2>1
  <2>4. report \in Reports' /\ Reports' = {report}
    BY <2>1, <2>3
  <2>5. \A a, b \in audit' : a.attempt = b.attempt => a = b
    BY <2>1, <2>3
  <2> HIDE DEF report, Reports
  <2>6. \A a \in Reports' : a.attempt \in accepted' /\ a.attempt = epoch'
    BY <2>1, <2>4 DEF report
  <2>7. \A u \in Workers : pc'[u] = "sent" => heldEpoch'[u] \in accepted'
    BY <2>1, <2>2
  <2> QED BY <2>1, <2>4, <2>5, <2>6, <2>7
<1>3. ASSUME NEW w \in Workers, FailDelivery(w) PROVE SentIsAccepted'
  BY <1>3 DEF FailDelivery, Holds
<1>4. CASE Replay
  BY <1>4 DEF Replay, memory
<1> QED BY <1>1, <1>2, <1>3, <1>4, QuietSteps

----------------------------------------------------------------------------
\* One report under a claim that has no audit row yet counts one more attempt.
LEMMA CountOne ==
  ASSUME NEW rows, IsFiniteSet(rows), NEW x, x \notin rows, NEW c, x.attempt > c
  PROVE  /\ IsFiniteSet(rows \cup {x})
         /\ Cardinality(OfCycle(rows \cup {x}, c)) = Cardinality(OfCycle(rows, c)) + 1
<1>1. OfCycle(rows \cup {x}, c) = OfCycle(rows, c) \cup {x}
  BY DEF OfCycle
<1>2. IsFiniteSet(OfCycle(rows, c)) /\ x \notin OfCycle(rows, c)
  BY FS_Subset DEF OfCycle
<1> QED BY <1>1, <1>2, FS_AddElement

\* Every step keeps the attempts explained.
LEMMA AttemptsNext ==
  TypeOK /\ ClaimsOrdered /\ AttemptsCounted /\ [Next]_vars => AttemptsCounted'
<1> SUFFICES ASSUME TypeOK, ClaimsOrdered, AttemptsCounted, [Next]_vars PROVE AttemptsCounted'
  OBVIOUS
<1> USE DEF AttemptsCounted, AttemptsExplained, OfCycle
<1>1. ASSUME NEW w \in Workers, Claim(w) PROVE AttemptsCounted'
  BY <1>1 DEF Claim, Due, records
<1>2. ASSUME NEW w \in Workers, NEW to, audit' = audit \cup {[attempt |-> epoch, to |-> to]},
             status = "delivering", attempts' = attempts + 1, cycle' = cycle
      PROVE  /\ IsFiniteSet(audit')
             /\ attempts' = Cardinality({a \in audit' : a.attempt > cycle'})
             /\ attempts' <= MaxAttempts /\ attempts' \in Nat
  <2> DEFINE x == [attempt |-> epoch, to |-> to]
  <2>1. x \notin audit /\ x.attempt > cycle
    BY <1>2 DEF ClaimsOrdered, TypeOK
  <2>2. /\ IsFiniteSet(audit \cup {x})
        /\ Cardinality(OfCycle(audit \cup {x}, cycle)) = Cardinality(OfCycle(audit, cycle)) + 1
    BY <2>1, CountOne
  <2> QED BY <1>2, <2>2, DeliveryAssumption DEF TypeOK
<1>3. ASSUME NEW w \in Workers, CompleteDelivery(w) PROVE AttemptsCounted'
  BY <1>2, <1>3 DEF CompleteDelivery, Holds
<1>4. ASSUME NEW w \in Workers, FailDelivery(w) PROVE AttemptsCounted'
  <2>1. /\ IsFiniteSet(audit')
        /\ attempts' = Cardinality({a \in audit' : a.attempt > cycle'})
        /\ attempts' <= MaxAttempts /\ attempts' \in Nat
    BY <1>2, <1>4 DEF FailDelivery, Holds
  <2> QED BY <1>4, <2>1, DeliveryAssumption DEF FailDelivery, LastAttempt, TypeOK
<1>5. CASE Replay
  <2>1. {a \in audit' : a.attempt > cycle'} = {}
    BY <1>5 DEF Replay, ClaimsOrdered, TypeOK, Audit
  <2> QED BY <1>5, <2>1, FS_EmptySet, DeliveryAssumption DEF Replay
<1> QED BY <1>1, <1>3, <1>4, <1>5, QuietSteps DEF records

\* The inductive invariant.
THEOREM Invariance == Spec => []Inv
<1>1. Init => Inv
  <2> SUFFICES ASSUME Init PROVE Inv
    OBVIOUS
  <2>1. {a \in audit : a.attempt > cycle} = {} /\ audit = {}
    BY DEF Init
  <2>2. AttemptsCounted
    BY <2>1, FS_EmptySet, DeliveryAssumption DEF Init, AttemptsCounted, AttemptsExplained
  <2> QED BY <2>2, TypeInit
          DEF Init, Inv, DeadLetterMatches, ClaimsOrdered, SentIsAccepted, Reports
<1>2. Inv /\ [Next]_vars => Inv'
  BY TypeNext, DeadLetterNext, OrderNext, SentNext, AttemptsNext DEF Inv
<1> QED BY <1>1, <1>2, PTL DEF Spec

\* An exhausted delivery has exactly one way out, its dead letter.
THEOREM DeadLetterTheorem == Spec => []DeadLetterMatches
  BY Invariance, PTL DEF Inv

\* The attempts of the cycle are those in the audit, and within the budget.
THEOREM AttemptsTheorem == Spec => []AttemptsExplained
  BY Invariance, PTL DEF Inv, AttemptsCounted

\* What is reported delivered was taken by the channel, under the claim that reports
\* it, and is reported once.
THEOREM ReportedTheorem == Spec => []ReportedIsSent
<1>1. Inv => ReportedIsSent
  <2> SUFFICES ASSUME Inv PROVE ReportedIsSent
    OBVIOUS
  <2> USE DEF Inv, SentIsAccepted
  <2>1. IsFiniteSet(Reports)
    BY FS_Subset DEF AttemptsCounted, Reports
  <2>2. Reports # {} <=> \E x : Reports = {x}
    BY DEF Reports
  <2>3. status = "delivered" <=> Cardinality(Reports) = 1
    BY <2>1, <2>2, FS_Singleton
  <2> QED BY <2>3 DEF ReportedIsSent, Reports
<1> QED BY <1>1, Invariance, PTL

\* A worker whose claim was taken over reports to nobody.
THEOREM StaleReportTheorem == Spec => StaleReportHarmless
<1> DEFINE Harmless == \A w \in Workers :
             /\ pc[w] # "idle" /\ pc'[w] # pc[w] /\ heldEpoch[w] # epoch
             => UNCHANGED <<row, records>>
<1>1. TypeOK /\ [Next]_vars => Harmless
  <2> SUFFICES ASSUME TypeOK, [Next]_vars, NEW w \in Workers,
                      pc[w] # "idle", pc'[w] # pc[w], heldEpoch[w] # epoch
               PROVE  UNCHANGED <<row, records>>
    OBVIOUS
  <2> USE DEF TypeOK, Goes
  <2>1. PICK u \in Workers : \/ Claim(u) \/ Deliver(u) \/ CompleteDelivery(u)
                             \/ CompleteFails(u) \/ FailDelivery(u) \/ StaleClaim(u)
                             \/ Crash(u)
    BY DEF Next, Replay, LeaseExpires, RetryComesDue, ReplayTrouble, vars, memory
  <2>2. u = w
    BY <2>1 DEF Claim, Deliver, Answers, CompleteDelivery, CompleteFails, FailDelivery,
                StaleClaim, Crash
  <2> QED BY <2>1, <2>2 DEF Claim, Deliver, CompleteDelivery, CompleteFails, FailDelivery,
                StaleClaim, Crash, Holds
<1> QED BY <1>1, TypeCorrect, PTL DEF Spec, StaleReportHarmless
============================================================================

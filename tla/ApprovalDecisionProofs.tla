----------------------- MODULE ApprovalDecisionProofs -----------------------
(***************************************************************************)
(* Proofs about ApprovalDecision, for any actors, stages, quorums and       *)
(* eligibility.  The inductive invariant says of each table what the others *)
(* say of it: the counters of a stage count its decision rows, its status   *)
(* follows the counters, the request follows its stages, and the decision   *)
(* rows are of different, eligible people in the order of the stages.       *)
(***************************************************************************)
EXTENDS ApprovalDecision, FiniteSetTheorems, TLAPS

\* Every decision is by an eligible person of its own, after the earlier stages.
DecidedInTurn ==
  /\ \A d \in decisions : d.actor \in Eligible[d.stage] \ ({Requester, Submitter} \cup Excluded)
  /\ \A d, e \in decisions : d.actor = e.actor => d = e
  /\ \A d \in decisions : \A t \in 1 .. d.stage - 1 : stageStatus[t] = "approved"

\* The counters count the decision rows.
Counted ==
  /\ IsFiniteSet(decisions)
  /\ \A s \in Stages : /\ approvedCount[s] = Cardinality(RowsOf(s, "approve"))
                       /\ rejectedCount[s] = Cardinality(RowsOf(s, "reject"))

\* A stage follows its counters.
StageFollows(s) ==
  /\ approvedCount[s] <= Required[s] /\ rejectedCount[s] <= 1
  /\ stageStatus[s] = "approved" <=> approvedCount[s] = Required[s]
  /\ stageStatus[s] = "rejected" <=> rejectedCount[s] = 1

\* The request follows its stages.
RequestFollows ==
  /\ decisionStatus = "approved" <=> \A s \in Stages : stageStatus[s] = "approved"
  /\ decisionStatus = "rejected" <=> \E s \in Stages : stageStatus[s] = "rejected"
  /\ \A s, t \in Stages : stageStatus[s] = "rejected" /\ stageStatus[t] = "rejected" => s = t
  /\ decisionStatus \in {"draft", "withdrawn"} => decisions = {}
  /\ executionStatus = "not_required" <=> decisionStatus \in {"rejected", "withdrawn"}

Inv == /\ TypeOK /\ OneCommandPerView /\ DecidedInTurn /\ Counted
       /\ \A s \in Stages : StageFollows(s)
       /\ RequestFollows

----------------------------------------------------------------------------
\* What a command carries.
LEMMA DecideCommand ==
  ASSUME NEW c \in Command, c.action = "decide"
  PROVE  c.stage \in Stages /\ c.actor \in Actors /\ c.verdict \in Verdicts
BY DEF Command

\* Every step is a client's or the handling of a command that was sent.
LEMMA Steps ==
  ASSUME [Next]_vars, TypeOK
  PROVE  UNCHANGED rows \/ \E c \in Command : Handle(c)
BY DEF Next, Send, SendSubmit, SendWithdraw, SendDecide, TypeOK, vars

\* The types hold initially, and every action keeps them.
LEMMA TypeInit == Init => TypeOK
  BY DEF Init, TypeOK

\* Every step keeps the types.
LEMMA TypeNext == TypeOK /\ [Next]_vars => TypeOK'
<1> SUFFICES ASSUME TypeOK, [Next]_vars PROVE TypeOK'
  OBVIOUS
<1>1. ASSUME NEW c \in Command, Send(c) PROVE TypeOK'
  BY <1>1 DEF Send, TypeOK, rows, request, stageRows
<1>2. ASSUME NEW k \in Keys, SendSubmit(k) \/ SendWithdraw(k) PROVE TypeOK'
  BY <1>1, <1>2, PolicyAssumption DEF SendSubmit, SendWithdraw, Command, TypeOK
<1>3. ASSUME NEW k \in Keys, NEW a \in Actors, NEW s \in Stages, NEW v \in Verdicts,
             SendDecide(a, k, s, v)
      PROVE  TypeOK'
  <2>1. [action |-> "decide", actor |-> a, key |-> k, requestVersion |-> decisionVersion,
         stage |-> s, stageVersion |-> stageVersion[s], verdict |-> v] \in Command
    BY DEF Command, TypeOK
  <2> QED BY <1>1, <1>3, <2>1 DEF SendDecide
<1>4. ASSUME NEW c \in sent, Submit(c) \/ Withdraw(c) PROVE TypeOK'
  BY <1>4 DEF Submit, Withdraw, Advance, TypeOK, stageRows
<1>5. ASSUME NEW c \in sent, Decide(c)
      PROVE  /\ decisions' \subseteq Decision /\ receipts' \subseteq Command
             /\ sent' \subseteq Command /\ decisionVersion' \in Nat
             /\ stageVersion' \in [Stages -> Nat]
             /\ approvedCount' \in [Stages -> Nat] /\ rejectedCount' \in [Stages -> Nat]
  <2>1. c \in Command /\ c.action = "decide"
    BY <1>5 DEF Decide, TypeOK
  <2>2. c.stage \in Stages /\ c.actor \in Actors /\ c.verdict \in Verdicts
    BY <2>1, DecideCommand
  <2>3. decisions' \subseteq Decision
    BY <1>5, <2>2 DEF Decide, Decision, TypeOK
  <2>4. approvedCount' \in [Stages -> Nat] /\ rejectedCount' \in [Stages -> Nat]
    BY <1>5, <2>2 DEF Decide, Count, TypeOK
  <2>5. stageVersion' \in [Stages -> Nat]
    BY <1>5, <2>2 DEF Decide, TypeOK
  <2>6. /\ receipts' = receipts \cup {c} /\ sent' = sent
        /\ decisionVersion' = decisionVersion + 1
    BY <1>5 DEF Decide, Advance
  <2> QED BY <2>1, <2>3, <2>4, <2>5, <2>6 DEF TypeOK
<1>6. ASSUME NEW c \in sent, Approve(c) PROVE TypeOK'
  BY <1>5, <1>6 DEF Approve, VerdictStatus, TypeOK
<1>7. ASSUME NEW c \in sent, Reject(c) PROVE TypeOK'
  BY <1>5, <1>7 DEF Reject, VerdictStatus, TypeOK
<1>8. CASE UNCHANGED vars
  BY <1>8 DEF vars, rows, request, stageRows, TypeOK
<1> QED BY <1>2, <1>3, <1>4, <1>6, <1>7, <1>8 DEF Next, Handle

\* Every reachable state is well typed.
THEOREM TypeCorrect == Spec => []TypeOK
  BY TypeInit, TypeNext, PTL DEF Spec

----------------------------------------------------------------------------
\* A command that takes effect was formed on the current view and makes it old.
LEMMA ViewNext ==
  ASSUME TypeOK, OneCommandPerView, NEW c \in Command, Handle(c)
  PROVE  OneCommandPerView'
<1>1. c.requestVersion = decisionVersion /\ decisionVersion \in Nat
  BY DEF Handle, Submit, Withdraw, Approve, Reject, Decide, Fresh, TypeOK
<1>2. receipts' = receipts \cup {c} /\ decisionVersion' = decisionVersion + 1
  BY DEF Handle, Submit, Withdraw, Approve, Reject, Decide, Advance
<1>3. \A e \in receipts : e.requestVersion \in Nat
  BY DEF TypeOK, Command
<1> QED BY <1>1, <1>2, <1>3 DEF OneCommandPerView

----------------------------------------------------------------------------
\* What a decision does to the tables, whichever the verdict.
LEMMA DecisionAdds ==
  ASSUME Inv, NEW c \in Command, Decide(c)
  PROVE  LET d == [actor |-> c.actor, stage |-> c.stage, verdict |-> c.verdict]
         IN  /\ c.stage \in Stages /\ c.verdict \in Verdicts
             /\ decisions' = decisions \cup {d} /\ d \notin decisions
             /\ stageStatus[c.stage] = "pending" /\ decisionStatus = "pending_approval"
             /\ \A e \in decisions : e.actor # c.actor
             /\ \A t \in 1 .. c.stage - 1 : stageStatus[t] = "approved"
             /\ c.actor \in Eligible[c.stage] \ ({Requester, Submitter} \cup Excluded)
<1>1. c.stage \in Stages /\ c.actor \in Actors /\ c.verdict \in Verdicts
  BY DecideCommand DEF Decide
<1> QED BY <1>1 DEF Decide, MayCheck, Turn, Undecided

\* Every step keeps the counters equal to the decision rows they count.
LEMMA CountsNext ==
  ASSUME Inv, NEW c \in Command, Decide(c)
  PROVE  Counted'
<1> DEFINE d == [actor |-> c.actor, stage |-> c.stage, verdict |-> c.verdict]
<1>1. /\ c.stage \in Stages /\ c.verdict \in Verdicts
      /\ decisions' = decisions \cup {d} /\ d \notin decisions
  BY DecisionAdds
<1>2. IsFiniteSet(decisions) /\ IsFiniteSet(decisions')
  BY <1>1, FS_AddElement DEF Inv, Counted
<1>3. ASSUME NEW s \in Stages, NEW v \in Verdicts
      PROVE  Cardinality(RowsOf(s, v)') =
               Cardinality(RowsOf(s, v)) + IF s = c.stage /\ v = c.verdict THEN 1 ELSE 0
  <2>1. IsFiniteSet(RowsOf(s, v)) /\ d \notin RowsOf(s, v)
    BY <1>1, <1>2, FS_Subset DEF RowsOf
  <2>2. Cardinality(RowsOf(s, v)) \in Nat
    BY <2>1, FS_CardinalityType
  <2>3. CASE s = c.stage /\ v = c.verdict
    <3>1. RowsOf(s, v)' = RowsOf(s, v) \cup {d}
      BY <1>1, <2>3 DEF RowsOf
    <3>2. Cardinality(RowsOf(s, v) \cup {d}) = Cardinality(RowsOf(s, v)) + 1
      BY <2>1, FS_AddElement
    <3> QED BY <2>3, <3>1, <3>2
  <2>4. CASE ~(s = c.stage /\ v = c.verdict)
    <3>1. RowsOf(s, v)' = RowsOf(s, v)
      BY <1>1, <2>4 DEF RowsOf
    <3> QED BY <2>2, <2>4, <3>1
  <2> QED BY <2>3, <2>4
<1>4. ASSUME NEW s \in Stages
      PROVE  /\ approvedCount'[s] = approvedCount[s] +
                  IF s = c.stage /\ c.verdict = "approve" THEN 1 ELSE 0
             /\ rejectedCount'[s] = rejectedCount[s] +
                  IF s = c.stage /\ c.verdict = "reject" THEN 1 ELSE 0
  BY <1>1 DEF Decide, Count, Inv, TypeOK, Verdicts
<1> QED BY <1>2, <1>3, <1>4 DEF Inv, Counted, Verdicts

\* A decision keeps the people apart, whatever it makes of its stage, as long as no
\* stage loses its approval.
LEMMA TurnNext ==
  ASSUME Inv, NEW c \in Command, Decide(c),
         \A t \in Stages : stageStatus[t] = "approved" => stageStatus'[t] = "approved"
  PROVE  DecidedInTurn'
<1> DEFINE d == [actor |-> c.actor, stage |-> c.stage, verdict |-> c.verdict]
<1>1. /\ decisions' = decisions \cup {d} /\ c.stage \in Stages
      /\ \A e \in decisions : e.actor # c.actor
      /\ \A t \in 1 .. c.stage - 1 : stageStatus[t] = "approved"
      /\ c.actor \in Eligible[c.stage] \ ({Requester, Submitter} \cup Excluded)
  BY DecisionAdds
<1>2. \A e \in decisions : e.stage \in Stages
  BY DEF Inv, TypeOK, Decision
<1>3. \A s \in Stages : 1 .. s - 1 \subseteq Stages
  BY PolicyAssumption DEF Stages
<1> QED BY <1>1, <1>2, <1>3 DEF Inv, DecidedInTurn

\* An approval keeps the inductive invariant.
LEMMA ApproveNext == ASSUME Inv, NEW c \in Command, Approve(c), TypeOK' PROVE Inv'
<1> DEFINE s == c.stage
<1>1. Decide(c) /\ c.verdict = "approve"
  BY DEF Approve
<1>2. /\ s \in Stages /\ stageStatus[s] = "pending" /\ decisionStatus = "pending_approval"
      /\ decisions' # {}
  BY <1>1, DecisionAdds
<1>3. /\ approvedCount' = [approvedCount EXCEPT ![s] = @ + 1] /\ rejectedCount' = rejectedCount
      /\ stageStatus' = IF Quorum(s) THEN [stageStatus EXCEPT ![s] = "approved"] ELSE stageStatus
      /\ executionStatus' = executionStatus
      /\ decisionStatus' = IF \A t \in Stages : stageStatus'[t] = "approved"
                           THEN "approved" ELSE "pending_approval"
  BY <1>1, <1>2 DEF Approve, Decide, Count, VerdictStatus
<1>4. \A t \in Stages : StageFollows(t)'
  <2>1. ASSUME NEW t \in Stages, t # s PROVE StageFollows(t)'
    BY <1>2, <1>3, <2>1 DEF Inv, TypeOK, StageFollows
  <2>2. /\ approvedCount'[s] = approvedCount[s] + 1 /\ rejectedCount'[s] = rejectedCount[s]
        /\ stageStatus'[s] = IF Quorum(s) THEN "approved" ELSE "pending"
    BY <1>2, <1>3 DEF Inv, TypeOK
  <2>3. /\ approvedCount[s] \in Nat /\ rejectedCount[s] \in Nat /\ Required[s] \in Nat
        /\ StageFollows(s)
    BY <1>2, PolicyAssumption DEF Inv, TypeOK
  <2>4. StageFollows(s)'
    BY <1>2, <2>2, <2>3 DEF StageFollows, Quorum
  <2> QED BY <2>1, <2>4
<1>5. \A t \in Stages : /\ stageStatus[t] = "approved" => stageStatus'[t] = "approved"
                        /\ stageStatus[t] = "rejected" <=> stageStatus'[t] = "rejected"
  BY <1>2, <1>3 DEF Inv, TypeOK
<1>6. RequestFollows'
  BY <1>2, <1>3, <1>5, PolicyAssumption DEF Inv, RequestFollows, Stages
<1>7. DecidedInTurn' /\ Counted'
  BY <1>1, <1>5, TurnNext, CountsNext
<1>8. OneCommandPerView'
  BY ViewNext DEF Inv, Handle
<1> QED BY <1>4, <1>6, <1>7, <1>8 DEF Inv

\* A rejection keeps the inductive invariant.
LEMMA RejectNext == ASSUME Inv, NEW c \in Command, Reject(c), TypeOK' PROVE Inv'
<1> DEFINE s == c.stage
<1>1. Decide(c) /\ c.verdict = "reject"
  BY DEF Reject
<1>2. /\ s \in Stages /\ stageStatus[s] = "pending" /\ decisionStatus = "pending_approval"
  BY <1>1, DecisionAdds
<1>3. /\ rejectedCount' = [rejectedCount EXCEPT ![s] = @ + 1] /\ approvedCount' = approvedCount
      /\ stageStatus' = [stageStatus EXCEPT ![s] = "rejected"]
      /\ executionStatus' = "not_required" /\ decisionStatus' = "rejected"
  BY <1>1 DEF Reject, Decide, Count, VerdictStatus
<1>4. \A t \in Stages : StageFollows(t)'
  <2>1. ASSUME NEW t \in Stages, t # s PROVE StageFollows(t)'
    BY <1>2, <1>3, <2>1 DEF Inv, TypeOK, StageFollows
  <2>2. /\ rejectedCount'[s] = rejectedCount[s] + 1 /\ approvedCount'[s] = approvedCount[s]
        /\ stageStatus'[s] = "rejected"
    BY <1>2, <1>3 DEF Inv, TypeOK
  <2>3. /\ approvedCount[s] \in Nat /\ rejectedCount[s] \in Nat /\ Required[s] \in Nat
        /\ StageFollows(s)
    BY <1>2, PolicyAssumption DEF Inv, TypeOK
  <2>4. StageFollows(s)'
    BY <1>2, <2>2, <2>3 DEF StageFollows
  <2> QED BY <2>1, <2>4
<1>5. \A t \in Stages : /\ stageStatus[t] = "approved" => stageStatus'[t] = "approved"
                        /\ stageStatus'[t] = "rejected" <=> t = s
  BY <1>2, <1>3 DEF Inv, TypeOK, RequestFollows
<1>6. RequestFollows'
  BY <1>2, <1>3, <1>5 DEF Inv, TypeOK, RequestFollows
<1>7. DecidedInTurn' /\ Counted'
  BY <1>1, <1>5, TurnNext, CountsNext
<1>8. OneCommandPerView'
  BY ViewNext DEF Inv, Handle
<1> QED BY <1>4, <1>6, <1>7, <1>8 DEF Inv

\* Submission and withdrawal move the request alone.
LEMMA RequestNext == ASSUME Inv, NEW c \in Command, Submit(c) \/ Withdraw(c), TypeOK' PROVE Inv'
<1>1. UNCHANGED <<stageRows, decisions>>
  BY DEF Submit, Withdraw
<1>2. decisions = {}
  BY DEF Submit, Withdraw, Untouched, Inv, RequestFollows
<1>3. RequestFollows'
  BY <1>1, <1>2 DEF Submit, Withdraw, Inv, RequestFollows, stageRows
<1>4. DecidedInTurn' /\ Counted' /\ \A s \in Stages : StageFollows(s)'
  BY <1>1 DEF Inv, DecidedInTurn, Counted, StageFollows, RowsOf, stageRows
<1>5. OneCommandPerView'
  BY ViewNext DEF Inv, Handle
<1> QED BY <1>3, <1>4, <1>5 DEF Inv

\* The inductive invariant.
THEOREM Invariance == Spec => []Inv
<1>1. Init => Inv
  <2> SUFFICES ASSUME Init PROVE Inv
    OBVIOUS
  <2>1. IsFiniteSet(decisions) /\ \A s \in Stages, v \in Verdicts : Cardinality(RowsOf(s, v)) = 0
    <3>1. \A s \in Stages, v \in Verdicts : RowsOf(s, v) = {}
      BY DEF Init, RowsOf
    <3> QED BY <3>1, FS_EmptySet DEF Init
  <2>2. Counted
    BY <2>1 DEF Init, Counted, Verdicts
  <2>3. \A s \in Stages : StageFollows(s)
    BY PolicyAssumption DEF Init, StageFollows
  <2>4. RequestFollows
    <3>1. 1 \in Stages
      BY PolicyAssumption DEF Stages
    <3>2. \A s \in Stages : stageStatus[s] = "pending"
      BY DEF Init
    <3> QED BY <3>1, <3>2 DEF Init, RequestFollows
  <2> QED BY <2>2, <2>3, <2>4, TypeInit DEF Init, Inv, OneCommandPerView, DecidedInTurn
<1>2. Inv /\ [Next]_vars => Inv'
  <2> SUFFICES ASSUME Inv, [Next]_vars PROVE Inv'
    OBVIOUS
  <2>1. TypeOK'
    BY TypeNext DEF Inv
  <2>2. CASE UNCHANGED rows
    BY <2>1, <2>2 DEF rows, request, stageRows, Inv, OneCommandPerView, DecidedInTurn, Counted,
                      RowsOf, StageFollows, RequestFollows
  <2>3. ASSUME NEW c \in Command, Handle(c) PROVE Inv'
    BY <2>1, <2>3, ApproveNext, RejectNext, RequestNext DEF Handle
  <2> QED BY <2>2, <2>3, Steps DEF Inv
<1> QED BY <1>1, <1>2, PTL DEF Spec

----------------------------------------------------------------------------
\* Decision rows are of different people, so a stage has as many checkers as approvals.
LEMMA CheckersCounted ==
  ASSUME Inv, NEW s \in Stages
  PROVE  Cardinality(Checkers(s)) = approvedCount[s]
<1> DEFINE R == RowsOf(s, "approve")
           f == [d \in R |-> d.actor]
<1>1. IsFiniteSet(R) /\ approvedCount[s] = Cardinality(R)
  BY FS_Subset DEF Inv, Counted, RowsOf
<1>2. f \in Bijection(R, Checkers(s))
  <2>1. \A d, e \in R : f[d] = f[e] => d = e
    BY DEF RowsOf, Inv, DecidedInTurn
  <2>2. f \in [R -> Checkers(s)] /\ \A a \in Checkers(s) : \E d \in R : f[d] = a
    BY DEF Checkers
  <2> QED BY <2>1, <2>2 DEF Bijection, Injection, Surjection, IsInjective
<1> QED BY <1>1, <1>2, FS_Bijection DEF ExistsBijection

\* A stage that is not rejected has no rejection among its rows.
LEMMA NoRejection ==
  ASSUME Inv, NEW s \in Stages
  PROVE  RowsOf(s, "reject") = {} <=> stageStatus[s] # "rejected"
<1>1. IsFiniteSet(RowsOf(s, "reject")) /\ rejectedCount[s] = Cardinality(RowsOf(s, "reject"))
  BY FS_Subset DEF Inv, Counted, RowsOf
<1>2. rejectedCount[s] \in Nat /\ StageFollows(s)
  BY DEF Inv, TypeOK
<1> QED BY <1>1, <1>2, FS_EmptySet DEF StageFollows

\* A request is approved exactly when every stage has its quorum of different
\* eligible people.
THEOREM QuorumTheorem == Spec => []ApprovedByQuorum
<1>1. Inv => ApprovedByQuorum
  <2> SUFFICES ASSUME Inv PROVE ApprovedByQuorum
    OBVIOUS
  <2>1. ASSUME NEW s \in Stages
        PROVE  /\ Cardinality(Checkers(s)) >= Required[s] <=> stageStatus[s] = "approved"
               /\ Checkers(s) \subseteq Eligible[s] \ ({Requester, Submitter} \cup Excluded)
               /\ stageStatus[s] = "approved" => RowsOf(s, "reject") = {}
    <3>1. approvedCount[s] \in Nat /\ Required[s] \in Nat /\ StageFollows(s)
      BY PolicyAssumption DEF Inv, TypeOK
    <3>2. Cardinality(Checkers(s)) >= Required[s] <=> stageStatus[s] = "approved"
      BY <3>1, CheckersCounted DEF StageFollows
    <3>3. Checkers(s) \subseteq Eligible[s] \ ({Requester, Submitter} \cup Excluded)
      BY DEF Checkers, RowsOf, Inv, DecidedInTurn
    <3> QED BY <3>2, <3>3, NoRejection
  <2>2. ASSUME NEW s \in Stages, NEW t \in Stages, s # t
        PROVE  Checkers(s) \cap Checkers(t) = {}
    BY <2>2 DEF Checkers, RowsOf, Inv, DecidedInTurn
  <2>3. decisionStatus = "approved" <=> \A s \in Stages : stageStatus[s] = "approved"
    BY DEF Inv, RequestFollows
  <2> QED BY <2>1, <2>2, <2>3 DEF ApprovedByQuorum
<1> QED BY <1>1, Invariance, PTL

\* Nobody decides at a stage before the earlier stages have their quorum.
THEOREM OrderTheorem == Spec => []StagesInOrder
<1>1. Inv => StagesInOrder
  <2> SUFFICES ASSUME Inv, NEW d \in decisions, NEW t \in 1 .. d.stage - 1
               PROVE  Cardinality(Checkers(t)) = Required[t] /\ RowsOf(t, "reject") = {}
    BY DEF StagesInOrder
  <2>1. t \in Stages
    BY PolicyAssumption DEF Stages, Inv, TypeOK, Decision
  <2>2. stageStatus[t] = "approved" /\ StageFollows(t)
    BY <2>1 DEF Inv, DecidedInTurn
  <2> QED BY <2>1, <2>2, CheckersCounted, NoRejection DEF StageFollows
<1> QED BY <1>1, Invariance, PTL

\* The counters and states of the stage rows say what the decision rows say.
THEOREM CountsTheorem == Spec => []CountsMatchRows
<1>1. Inv => CountsMatchRows
  BY DEF Inv, Counted, StageFollows, CountsMatchRows
<1> QED BY <1>1, Invariance, PTL

\* Of the commands formed on one view at most one takes effect.
THEOREM ViewTheorem == Spec => []OneCommandPerView
  BY Invariance, PTL DEF Inv

\* A withdrawn request was decided on by nobody, a rejected one by one refusal.
THEOREM EndsTheorem == Spec => []EndsAreExplained
<1>1. Inv => EndsAreExplained
  <2> SUFFICES ASSUME Inv PROVE EndsAreExplained
    OBVIOUS
  <2> DEFINE R == {d \in decisions : d.verdict = "reject"}
  <2>1. IsFiniteSet(R)
    BY FS_Subset DEF Inv, Counted
  <2>2. \A d \in R : d.stage \in Stages /\ d \in RowsOf(d.stage, "reject")
    BY DEF RowsOf, Inv, TypeOK, Decision
  <2>3. CASE decisionStatus = "rejected"
    <3>1. PICK s \in Stages : /\ stageStatus[s] = "rejected"
                              /\ \A t \in Stages : stageStatus[t] = "rejected" => t = s
      BY <2>3 DEF Inv, RequestFollows
    <3>2. R = RowsOf(s, "reject")
      BY <2>2, <3>1, NoRejection DEF RowsOf
    <3>3. Cardinality(RowsOf(s, "reject")) = 1
      BY <3>1 DEF Inv, Counted, StageFollows
    <3> QED BY <2>3, <3>2, <3>3 DEF EndsAreExplained, Inv, RequestFollows
  <2>4. CASE decisionStatus # "rejected"
    <3>1. R = {}
      BY <2>2, <2>4, NoRejection DEF Inv, RequestFollows
    <3>2. Cardinality(R) = 0
      BY <3>1, FS_EmptySet
    <3> QED BY <2>4, <3>2 DEF EndsAreExplained, Inv, RequestFollows
  <2> QED BY <2>3, <2>4
<1> QED BY <1>1, Invariance, PTL

\* A decided request never changes again.
THEOREM FinalTheorem == Spec => FinalIsFinal
<1> DEFINE Final ==
      (decisionStatus \in {"approved", "rejected", "withdrawn"}) => UNCHANGED rows
<1>1. TypeOK /\ [Next]_vars => Final
  BY Steps DEF Handle, Submit, Withdraw, Approve, Reject, Decide, Undecided
<1> QED BY <1>1, TypeCorrect, PTL DEF Spec, FinalIsFinal
============================================================================

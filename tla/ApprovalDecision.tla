-------------------------- MODULE ApprovalDecision --------------------------
(***************************************************************************)
(* The decision on ONE property approval request: submit, decide and       *)
(* withdraw of property-approval.service.ts.  The request was drafted with *)
(* a frozen policy: ordered stages, how many checkers each stage requires, *)
(* and which actors may not check.  A client sends a command with the      *)
(* versions it read and a client key, and repeats it when it sees no       *)
(* answer, so every command sent may reach its handler at any later time,  *)
(* any number of times.  A handler is one transaction under the lock of    *)
(* the request row: one action.  A delivery that finds its receipt, or     *)
(* fails a check, changes nothing and is no action.                        *)
(***************************************************************************)
EXTENDS Naturals, FiniteSets

CONSTANTS Actors,
          Requester, Submitter,  \* requester_id, submitter_id
          Excluded,              \* actors of the frozen exclusion rows
          StageCount,            \* stages of the frozen policy, by ordinal
          Required,              \* required_count of each stage
          Eligible,              \* whom authorizeDecision lets check a stage
          Keys,                  \* client keys
          MaxSent                \* bound on the commands clients send

Stages == 1 .. StageCount

ASSUME PolicyAssumption ==
  /\ Requester \in Actors /\ Submitter \in Actors /\ Excluded \subseteq Actors
  /\ StageCount \in Nat \ {0}
  /\ Required \in [Stages -> Nat \ {0}]
  /\ Eligible \in [Stages -> SUBSET Actors]
  /\ MaxSent \in Nat

VARIABLES
  decisionStatus, decisionVersion, executionStatus,    \* the request row
  stageStatus, stageVersion,                           \* the stage rows
  approvedCount, rejectedCount,
  decisions,  \* rows of biz_property_approval_decision
  receipts,   \* completed mutation receipts, with the command as request hash
  sent        \* commands on their way, delivered or not

request == <<decisionStatus, decisionVersion, executionStatus>>
stageRows == <<stageStatus, stageVersion, approvedCount, rejectedCount>>
rows == <<request, stageRows, decisions, receipts>>
vars == <<rows, sent>>

Verdicts == {"approve", "reject"}
Decision == [actor : Actors, stage : Stages, verdict : Verdicts]
Command ==
       [action : {"submit", "withdraw"}, actor : Actors, key : Keys, requestVersion : Nat]
  \cup [action : {"decide"}, actor : Actors, key : Keys, requestVersion : Nat,
        stage : Stages, stageVersion : Nat, verdict : Verdicts]

\* The request, its stages and its receipts stay within the values of their columns.
TypeOK ==
  /\ decisionStatus \in {"draft", "pending_approval", "approved", "rejected", "withdrawn"}
  /\ executionStatus \in {"not_started", "not_required"}
  /\ decisionVersion \in Nat
  /\ stageStatus \in [Stages -> {"pending", "approved", "rejected"}]
  /\ stageVersion \in [Stages -> Nat]
  /\ approvedCount \in [Stages -> Nat] /\ rejectedCount \in [Stages -> Nat]
  /\ decisions \subseteq Decision
  /\ receipts \subseteq Command /\ sent \subseteq Command

\* createDraftWithManager
Init ==
  /\ decisionStatus = "draft" /\ executionStatus = "not_started" /\ decisionVersion = 1
  /\ stageStatus = [s \in Stages |-> "pending"]
  /\ stageVersion = [s \in Stages |-> 1]
  /\ approvedCount = [s \in Stages |-> 0] /\ rejectedCount = [s \in Stages |-> 0]
  /\ decisions = {} /\ receipts = {} /\ sent = {}

-----------------------------------------------------------------------------
\* A client reads the request and sends a command about what it read.  Commands
\* that are refused in every state, a submit or withdrawal by a third person, are
\* left out.
Send(c) ==
  /\ Cardinality(sent) < MaxSent
  /\ sent' = sent \cup {c}
  /\ UNCHANGED rows

SendSubmit(k) ==
  Send([action |-> "submit", actor |-> Submitter, key |-> k, requestVersion |-> decisionVersion])

SendWithdraw(k) ==
  Send([action |-> "withdraw", actor |-> Requester, key |-> k, requestVersion |-> decisionVersion])

SendDecide(a, k, s, v) ==
  Send([action |-> "decide", actor |-> a, key |-> k, requestVersion |-> decisionVersion,
        stage |-> s, stageVersion |-> stageVersion[s], verdict |-> v])

\* findMutation: a receipt of this actor, action and key.  The same command
\* gets the same answer back; another command under its key is refused.
Answered(c) ==
  \E r \in receipts : r.action = c.action /\ r.actor = c.actor /\ r.key = c.key

\* The transaction's receipt, and the row version every command moves.
Advance(c) == /\ receipts' = receipts \cup {c}
              /\ decisionVersion' = decisionVersion + 1

\* Mutants: a view that is not compared; an actor checked only as a maker; a
\* stage decided out of turn; a verdict counted for the other side; a verdict on a
\* request already decided; the verdict stored as the state of the stage.
FreshAssumed(c) == TRUE
MayCheckAgain(a) == a \notin {Requester, Submitter} \cup Excluded
AnyTurn(s) == stageStatus[s] = "pending"
CountAsApproval(d) == /\ approvedCount' = [approvedCount EXCEPT ![d.stage] = @ + 1]
                      /\ UNCHANGED rejectedCount
SubmittedOnce == decisionStatus # "draft"
VerdictRaw(v) == v

\* expectedRequestVersion, expectedStageVersion: nothing changed since it was read.
Fresh(c) == c.requestVersion = decisionVersion

\* Maker and checker are different people, and nobody checks twice.
MayCheck(a) == /\ a \notin {Requester, Submitter} \cup Excluded
               /\ \A d \in decisions : d.actor # a

\* The first pending stage, with every earlier stage approved.
Turn(s) == /\ stageStatus[s] = "pending"
           /\ \A t \in 1 .. s - 1 : stageStatus[t] = "approved"

Untouched == decisions = {}
Undecided == decisionStatus = "pending_approval"

Count(d) == IF d.verdict = "approve"
            THEN /\ approvedCount' = [approvedCount EXCEPT ![d.stage] = @ + 1]
                 /\ UNCHANGED rejectedCount
            ELSE /\ rejectedCount' = [rejectedCount EXCEPT ![d.stage] = @ + 1]
                 /\ UNCHANGED approvedCount

VerdictStatus(v) == IF v = "approve" THEN "approved" ELSE "rejected"

\* One more approval completes the stage.
Quorum(s) == approvedCount[s] + 1 >= Required[s]

-----------------------------------------------------------------------------
\* submitWithManager
Submit(c) ==
  /\ c.action = "submit" /\ ~Answered(c)
  /\ c.actor = Submitter /\ decisionStatus = "draft" /\ Fresh(c)
  /\ decisionStatus' = "pending_approval"
  /\ Advance(c)
  /\ UNCHANGED <<executionStatus, stageRows, decisions, sent>>

\* withdraw
Withdraw(c) ==
  /\ c.action = "withdraw" /\ ~Answered(c)
  /\ c.actor = Requester /\ decisionStatus = "pending_approval" /\ Fresh(c)
  /\ Untouched
  /\ decisionStatus' = "withdrawn"
  /\ executionStatus' = "not_required"
  /\ Advance(c)
  /\ UNCHANGED <<stageRows, decisions, sent>>

\* decide, as far as both verdicts go: the checks, the decision row, the count
\* and the versions.
Decide(c) ==
  /\ c.action = "decide" /\ ~Answered(c)
  /\ Undecided /\ Fresh(c)
  /\ c.stageVersion = stageVersion[c.stage]
  /\ Turn(c.stage)
  /\ MayCheck(c.actor) /\ c.actor \in Eligible[c.stage]
  /\ LET d == [actor |-> c.actor, stage |-> c.stage, verdict |-> c.verdict]
     IN  decisions' = decisions \cup {d} /\ Count(d)
  /\ stageVersion' = [stageVersion EXCEPT ![c.stage] = @ + 1]
  /\ Advance(c)
  /\ UNCHANGED sent

\* An approval completes its stage at the quorum, and the request with its last
\* stage.
Approve(c) ==
  /\ Decide(c) /\ c.verdict = "approve"
  /\ stageStatus' = IF Quorum(c.stage)
                    THEN [stageStatus EXCEPT ![c.stage] = VerdictStatus(c.verdict)] ELSE stageStatus
  /\ decisionStatus' = IF \A s \in Stages : stageStatus'[s] = "approved"
                       THEN "approved" ELSE decisionStatus
  /\ UNCHANGED executionStatus

\* One rejection decides the request.
Reject(c) ==
  /\ Decide(c) /\ c.verdict = "reject"
  /\ stageStatus' = [stageStatus EXCEPT ![c.stage] = VerdictStatus(c.verdict)]
  /\ decisionStatus' = "rejected"
  /\ executionStatus' = "not_required"

Handle(c) == Submit(c) \/ Withdraw(c) \/ Approve(c) \/ Reject(c)

Next == \/ \E k \in Keys :
             \/ SendSubmit(k) \/ SendWithdraw(k)
             \/ \E a \in Actors, s \in Stages, v \in Verdicts : SendDecide(a, k, s, v)
        \/ \E c \in sent : Handle(c)

Spec == Init /\ [][Next]_vars

-----------------------------------------------------------------------------
(* Properties.                                                              *)

RowsOf(s, v) == {d \in decisions : d.stage = s /\ d.verdict = v}
Checkers(s) == {d.actor : d \in RowsOf(s, "approve")}

\* A request is approved exactly when every stage has its quorum of different
\* eligible people, none of them a maker and none counted in two stages.
ApprovedByQuorum ==
  decisionStatus = "approved" <=>
    /\ \A s \in Stages : Cardinality(Checkers(s)) >= Required[s]
    /\ \A s \in Stages : Checkers(s) \subseteq
         Eligible[s] \ ({Requester, Submitter} \cup Excluded)
    /\ \A s, t \in Stages : s # t => Checkers(s) \cap Checkers(t) = {}
    /\ \A s \in Stages : RowsOf(s, "reject") = {}

\* Nobody decides at a stage before the earlier stages have their quorum.
StagesInOrder ==
  \A d \in decisions : \A t \in 1 .. d.stage - 1 :
    Cardinality(Checkers(t)) = Required[t] /\ RowsOf(t, "reject") = {}

\* The counters and states of the stage rows say what the decision rows say.
CountsMatchRows ==
  \A s \in Stages :
    /\ approvedCount[s] = Cardinality(RowsOf(s, "approve"))
    /\ rejectedCount[s] = Cardinality(RowsOf(s, "reject"))
    /\ stageStatus[s] = "approved" <=> approvedCount[s] = Required[s]
    /\ stageStatus[s] = "rejected" <=> rejectedCount[s] = 1

\* Of the commands that two clients formed on the same view of the request at
\* most one takes effect, however often and in whatever order they arrive.
OneCommandPerView ==
  /\ \A c, e \in receipts : c.requestVersion = e.requestVersion => c = e
  /\ \A c \in receipts : c.requestVersion < decisionVersion

\* A decided request never changes again: neither its decision, stages, decision rows
\* and receipts nor the execution that is to follow.
FinalIsFinal ==
  [][ (decisionStatus \in {"approved", "rejected", "withdrawn"}) => UNCHANGED rows ]_vars

\* A withdrawn request was decided on by nobody, a rejected one by one refusal.
EndsAreExplained ==
  /\ decisionStatus = "withdrawn" => decisions = {}
  /\ decisionStatus = "rejected"
       <=> Cardinality({d \in decisions : d.verdict = "reject"}) = 1
  /\ executionStatus = "not_required" <=> decisionStatus \in {"rejected", "withdrawn"}
=============================================================================

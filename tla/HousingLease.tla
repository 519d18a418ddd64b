----------------------------- MODULE HousingLease -----------------------------
(***************************************************************************)
(* A housing lease from its draft to its activation or voiding: the        *)
(* operations of HousingLeaseCommandService, two of which only ask for an  *)
(* approval through the port, behind the idempotency layer of the API, and *)
(* the executor that carries out what was approved.  Every write of the    *)
(* lease raises its version; the lease's row is locked from the read of    *)
(* the version to the commit.                                              *)
(***************************************************************************)
EXTENDS ApprovalPort

CONSTANT MaxVersion   \* bound: the versions of the lease that operations reach
ASSUME VersionAssumption == MaxVersion \in Nat \ {0}

VARIABLE lease   \* [status, version, signed]: the row of the lease

vars == <<layer, use, requests, lease>>

LeaseStatuses == {"draft", "pending_approval", "pending_signature", "active", "void"}
Locking == {"active", "terminal"}
Phases == {"begun", "done", "error"} \cup Locking

Results == 0 .. Len(requests)
Row == [id : 0 .. MaxRows, body : Bodies \cup {NoBody}, result : Results]
Command == [at : Phases, key : Keys, body : Bodies, row : 1 .. MaxRows, result : Results]
Answer == [key : Keys, body : Bodies, result : Results \ {NoResult}]
Request == [key : Keys, body : Bodies, version : 1 .. MaxVersion, again : BOOLEAN, state : States]
Lease == [status : LeaseStatuses, version : 1 .. MaxVersion, signed : BOOLEAN]

TypeOK ==
  /\ row \in [Keys -> Row]
  /\ found \subseteq Keys \X (1 .. MaxRows)
  /\ call \in [Calls -> {Idle} \cup Command]
  /\ told \subseteq Answer
  /\ use \in Uses
  /\ requests \in Seq(Request)
  /\ lease \in Lease

Init == /\ LayerInit /\ PortInit
        /\ lease = [status |-> "draft", version |-> 1, signed |-> FALSE]

-----------------------------------------------------------------------------
(* Commands.                                                                *)

\* Mutant: the lease is read without its lock.
LeaseNeverHeld == TRUE

\* Nobody holds the lock of the lease.
LeaseFree == \A c \in Calls : call[c].at \notin Locking

Writes(new) == /\ LeaseFree /\ lease.version < MaxVersion
               /\ lease' = [new EXCEPT !.version = lease.version + 1]

Submit == /\ lease.status = "draft"
          /\ Writes([lease EXCEPT !.status = "pending_approval"])
          /\ UNCHANGED <<layer, use, requests>>

Sign == /\ lease.status = "pending_signature"
        /\ Writes([lease EXCEPT !.signed = TRUE])
        /\ UNCHANGED <<layer, use, requests>>

Activate == /\ lease.status = "pending_signature" /\ lease.signed
            /\ Writes([lease EXCEPT !.status = "active"])
            /\ UNCHANGED <<layer, use, requests>>

\* approve and void lock the lease, check its status and go on to the port.
AllowedIn(action) == CASE action = "approve" -> {"pending_approval"}
                       [] action = "void" -> {"draft", "pending_approval", "pending_signature"}

Ask(c) ==
  /\ call[c].at = "begun" /\ LeaseFree
  /\ IF lease.status \in AllowedIn(use[call[c].key])
     THEN ReadIdentity(c, lease.version)
     ELSE Goes(c, "error") /\ UNCHANGED <<row, found, told, use, requests>>
  /\ UNCHANGED lease

\* The handler throws for a reason outside: a unit that is not eligible, a refused
\* access, a policy without checkers, the database.  Its transaction is rolled back.
Throw(c) ==
  /\ call[c].at \in {"begun"} \cup Locking
  /\ Goes(c, "error")
  /\ UNCHANGED <<row, found, told, use, requests, lease>>

-----------------------------------------------------------------------------
(* Execution of approved requests.                                          *)

\* The executor finds the lease as it was asked for.
Effect(i) == CASE use[requests[i].key] = "approve" -> "pending_signature"
               [] use[requests[i].key] = "void" -> "void"

\* Mutant: the executor does not compare the version.
ExecuteAnyVersion(i) ==
  /\ Writes([lease EXCEPT !.status = Effect(i)])
  /\ Moves(i, "approved", "executed")
  /\ UNCHANGED layer

Execute(i) ==
  /\ requests[i].version = lease.version
  /\ Writes([lease EXCEPT !.status = Effect(i)])
  /\ Moves(i, "approved", "executed")
  /\ UNCHANGED layer

\* It finds another version: a failure for good, which is recorded in a transaction of
\* its own, without the lock.  Versions only grow, so it is still another one by then.
RefuseExecution(i) ==
  /\ requests[i].version # lease.version
  /\ Moves(i, "approved", "failed")
  /\ UNCHANGED <<layer, lease>>

Next ==
  \/ LayerStep /\ UNCHANGED <<use, requests, lease>>
  \/ \E c \in Calls :
       \/ Ask(c) \/ Throw(c)
       \/ (ReadActive(c, lease.version) \/ Create(c, lease.version)) /\ UNCHANGED lease
  \/ \E i \in DOMAIN requests :
       \/ \E verdict \in {"approved"} \cup RetryableStates : Decide(i, verdict) /\ UNCHANGED lease
       \/ Execute(i) \/ RefuseExecution(i)
  \/ Submit \/ Sign \/ Activate

Spec == Init /\ [][Next]_vars

-----------------------------------------------------------------------------
(* Properties.                                                              *)

SameAction(i, j) == use[requests[i].key] = use[requests[j].key]

\* The requests for one action on a lease stand in line: none is created for an older
\* version than one before it, and none beside or after one of its own version that is
\* still under way, was executed or failed for good, whatever checkers and executors
\* commit while the port looks.
RequestsInLine ==
  \A i, j \in DOMAIN requests :
    i < j /\ SameAction(i, j) =>
      /\ requests[i].version <= requests[j].version
      /\ requests[i].version = requests[j].version => Retryable(i)

\* The lease is where its executed requests have brought it: each acted on a version of
\* its own, one made it ready for signature, and one voided it, even if both were
\* approved for the same version.
LeaseFollowsRequests ==
  LET executed == {i \in DOMAIN requests : requests[i].state = "executed"}
      done(action) == \E i \in executed : use[requests[i].key] = action
  IN  /\ \A i, j \in executed : i # j => ~SameAction(i, j) /\ requests[i].version # requests[j].version
      /\ lease.status = "void" <=> done("void")
      /\ lease.status \in {"pending_signature", "active"} <=> done("approve") /\ ~done("void")

\* What a client is told under a key is about the command it sent.  Once the key has
\* made a request, it is told of that one only, whatever the layer forgets, takes over
\* or overwrites.  Before, it may be told of a request with the same intent, and of
\* another one later only if that was rejected, withdrawn or for an older version.
AnswersFollowKey ==
  \A t \in told :
    /\ requests[t.result].body = t.body
    /\ use[requests[t.result].key] = use[t.key]
    /\ \A u \in told : u.key = t.key /\ t.result < u.result =>
         /\ requests[t.result].key # t.key
         /\ Retryable(t.result) \/ requests[t.result].version < requests[u.result].version
=============================================================================

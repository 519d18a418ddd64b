----------------------------- MODULE ApprovalPort -----------------------------
(***************************************************************************)
(* The port through which the owner of a source asks for the approval of   *)
(* an action on it (PropertyApprovalService.createPendingRequest).  The    *)
(* caller holds the lock of the source's row in its own transaction, and   *)
(* names the version of the source it has read.  The port tells a repeated *)
(* command by its client key or its business intent, refuses a second      *)
(* request while one of the same version is under way, and one of a        *)
(* version that is decided for good; after a rejection or a withdrawal the *)
(* same version may be asked for again.                                    *)
(*                                                                         *)
(* The statements of the port read what checkers and executors commit in   *)
(* between, so its lookups are steps of their own.  A request is what the  *)
(* modules ApprovalDecision and ApprovalExecution make of it in the end:   *)
(* "approved" stands for all states of an approved request that is not     *)
(* executed and not failed, "rejected" also for a withdrawn one.           *)
(***************************************************************************)
EXTENDS IdempotentWrites, Sequences

CONSTANT Uses       \* what the keys may be used for: their paths name the action
ASSUME UsesAssumption == Uses \subseteq [Keys -> {"approve", "void"}]

VARIABLES use,      \* use[k]: the action key k is used for
          requests  \* the approval requests of the source, as they were created

ActiveStates == {"pending", "approved"}
RetryableStates == {"rejected"}
States == ActiveStates \cup RetryableStates \cup {"executed", "failed"}

PortInit == use \in Uses /\ requests = <<>>

RequestsFor(k) == {i \in DOMAIN requests : use[requests[i].key] = use[k]}
Retryable(i) == requests[i].state \in RetryableStates

\* Lookups of the repository.
ByClientKey(k) == {i \in DOMAIN requests : requests[i].key = k}
ByIntent(k, v) == {i \in RequestsFor(k) : requests[i].version = v /\ ~requests[i].again}
ActiveOf(k, v) ==
  {i \in RequestsFor(k) : requests[i].version = v /\ requests[i].state \in ActiveStates}
TerminalOf(k) == {i \in RequestsFor(k) : requests[i].state \notin ActiveStates}
Newer(i, j) == \/ requests[i].version > requests[j].version
               \/ requests[i].version = requests[j].version /\ i >= j
LatestTerminal(k) == {i \in TerminalOf(k) : \A j \in TerminalOf(k) : Newer(i, j)}

\* Mutant: the client's key is not looked up.
KnownByIntent(k, v) == {i \in ByIntent(k, v) : ~Retryable(i)}

\* The request a command is a repetition of: by its key, else by its intent.
Known(k, v) == IF ByClientKey(k) # {} THEN ByClientKey(k)
               ELSE {i \in ByIntent(k, v) : ~Retryable(i)}

\* resolvePortIdentityReplay: a repetition must agree with what it repeats.  It is the
\* first lookup after the lock was taken, and one step with that.
ReadIdentity(c, v) ==
  LET known == Known(call[c].key, v)
  IN  /\ call[c].at = "begun"
      /\ IF known = {} THEN Goes(c, "active")
         ELSE \E i \in known :
                IF requests[i].version = v /\ requests[i].body = call[c].body
                THEN Returns(c, i) ELSE Goes(c, "error")
      /\ UNCHANGED <<use, requests, row, found, told>>

\* findActiveBySource: one request of a version at a time.
ReadActive(c, v) ==
  /\ call[c].at = "active"
  /\ Goes(c, IF ActiveOf(call[c].key, v) = {} THEN "terminal" ELSE "error")
  /\ UNCHANGED <<use, requests, row, found, told>>

\* findLatestTerminalBySource: older versions are out, and so is this one unless its
\* last request was rejected or withdrawn.
MayCreate(k, v) ==
  \A i \in LatestTerminal(k) :
    requests[i].version < v \/ (requests[i].version = v /\ Retryable(i))

\* Mutant: the answer leaves before the request is inserted.
CreateUnwritten(c, v) ==
  /\ call[c].at = "terminal" /\ MayCreate(call[c].key, v)
  /\ Returns(c, Len(requests) + 1)
  /\ UNCHANGED <<use, requests, row, found, told>>

\* The new request is inserted, submitted and committed with the caller's transaction.  An
\* attempt after a terminal one of the same version has an intent of its own.  The
\* acknowledgement of the commit may be lost.
Create(c, v) ==
  LET k == call[c].key
  IN  /\ call[c].at = "terminal"
      /\ IF MayCreate(k, v)
         THEN /\ requests' = Append(requests,
                   [key |-> k, body |-> call[c].body, version |-> v, state |-> "pending",
                    again |-> \E i \in LatestTerminal(k) : requests[i].version = v])
              /\ Returns(c, Len(requests) + 1) \/ Goes(c, "error")
         ELSE Goes(c, "error") /\ UNCHANGED requests
      /\ UNCHANGED <<use, row, found, told>>

\* What becomes of a request, without the lock of the source.
Moves(i, from, to) ==
  /\ requests[i].state = from
  /\ requests' = [requests EXCEPT ![i].state = to]
  /\ UNCHANGED use

Decide(i, verdict) == Moves(i, "pending", verdict) /\ UNCHANGED layer
=============================================================================

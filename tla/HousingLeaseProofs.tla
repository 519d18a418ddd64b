-------------------------- MODULE HousingLeaseProofs --------------------------
(***************************************************************************)
(* The invariants of HousingLease hold for any calls, keys and bodies, and *)
(* no step rewrites the history of the requests.                           *)
(***************************************************************************)
EXTENDS HousingLease, SequenceTheorems, TLAPS

\* A call in the port holds the lock of the lease, alone: the lease is in a status that
\* allows what the call asks for, its key has no request, and once the port has found no
\* request of this version under way there is none until the call is over.
PortHoldsLock ==
  \A c \in Calls : call[c].at \in Locking =>
    /\ \A d \in Calls : call[d].at \in Locking => d = c
    /\ lease.status \in AllowedIn(use[call[c].key])
    /\ \A i \in DOMAIN requests :
         /\ requests[i].key # call[c].key
         /\ /\ call[c].at = "terminal"
            /\ use[requests[i].key] = use[call[c].key] /\ requests[i].version = lease.version
            => requests[i].state \notin ActiveStates

\* No request is ahead of the lease, an executed one is behind it, and the lease is in a
\* status that allows what those of its own version ask for.
VersionsFit ==
  \A i \in DOMAIN requests :
    /\ requests[i].version <= lease.version
    /\ requests[i].state = "executed" => requests[i].version < lease.version
    /\ requests[i].version = lease.version => lease.status \in AllowedIn(use[requests[i].key])

\* A key makes one request.
OneRequestPerKey ==
  \A i, j \in DOMAIN requests : requests[i].key = requests[j].key => i = j

\* Rows are numbered from one.  A call never knows a later row of its key than there is,
\* and the body of the row it has reserved is its own.
RowsMatch ==
  /\ \A k \in Keys : ~Absent(k) => row[k].id > 0
  /\ \A c \in Calls : call[c].at # "idle" =>
       /\ call[c].row <= row[call[c].key].id
       /\ call[c].row = row[call[c].key].id /\ ~Absent(call[c].key) =>
            row[call[c].key].body = call[c].body

\* The answer r to the command b under key k is about this command, and no later than
\* the request the key has made.
Fits(k, b, r) ==
  /\ r \in DOMAIN requests
  /\ requests[r].body = b /\ use[requests[r].key] = use[k]
  /\ \A j \in ByClientKey(k) : r <= j

AnswersFit ==
  /\ \A c \in Calls : call[c].at = "done" => Fits(call[c].key, call[c].body, call[c].result)
  /\ \A k \in Keys : Succeeded(k) => Fits(k, row[k].body, row[k].result)
  /\ \A t \in told : Fits(t.key, t.body, t.result)

IInv == /\ TypeOK
        /\ RequestsInLine
        /\ LeaseFollowsRequests
        /\ PortHoldsLock
        /\ VersionsFit
        /\ OneRequestPerKey
        /\ RowsMatch
        /\ AnswersFit

-----------------------------------------------------------------------------
(* What the steps do to calls and requests.                                 *)

\* A command a call handles has its fields, and only an idle call has none.
LEMMA CommandFields ==
  ASSUME TypeOK, NEW c \in Calls
  PROVE  /\ call[c].at # "idle" => call[c] \in Command
         /\ call[c].at = "idle" => call[c] = Idle
BY DEF TypeOK, Command, Idle, Phases, Locking

\* Moving a call on changes its place only.
LEMMA GoesFacts ==
  ASSUME TypeOK, NEW c \in Calls, call[c].at # "idle", NEW at \in Phases, Goes(c, at)
  PROVE  /\ call' \in [Calls -> {Idle} \cup Command]
         /\ \A d \in Calls : d # c => call'[d] = call[d]
         /\ call'[c].at = at
         /\ call'[c].key = call[c].key /\ call'[c].body = call[c].body
         /\ call'[c].row = call[c].row
<1>1. call \in [Calls -> {Idle} \cup Command] /\ call[c] \in Command
  BY CommandFields DEF TypeOK
<1>2. call' = [call EXCEPT ![c] = [call[c] EXCEPT !.at = at]]
  BY <1>1 DEF Goes
<1>3. [call[c] EXCEPT !.at = at] \in Command
  BY <1>1 DEF Command
<1> QED BY <1>1, <1>2, <1>3 DEF Command

\* A call that returns keeps its command.
LEMMA ReturnsFacts ==
  ASSUME TypeOK, NEW c \in Calls, call[c].at # "idle", NEW r \in Nat, Returns(c, r)
  PROVE  /\ r \in Results => call' \in [Calls -> {Idle} \cup Command]
         /\ \A d \in Calls : d # c => call'[d] = call[d]
         /\ call'[c] = [call[c] EXCEPT !.at = "done", !.result = r]
         /\ call'[c].at = "done" /\ call'[c].result = r
         /\ call'[c].key = call[c].key /\ call'[c].body = call[c].body
         /\ call'[c].row = call[c].row
<1>1. call \in [Calls -> {Idle} \cup Command] /\ call[c] \in Command
  BY CommandFields DEF TypeOK
<1>2. call' = [call EXCEPT ![c] = [call[c] EXCEPT !.at = "done", !.result = r]]
  BY <1>1 DEF Returns
<1>3. r \in Results => [call[c] EXCEPT !.at = "done", !.result = r] \in Command
  BY <1>1 DEF Command, Phases, Locking
<1> QED BY <1>1, <1>2, <1>3 DEF Command

\* Requests have their fields.
LEMMA RequestFields ==
  ASSUME TypeOK, NEW i \in DOMAIN requests
  PROVE  /\ requests[i] \in Request
         /\ requests[i].key \in Keys /\ requests[i].version \in Nat
         /\ i \in Nat /\ i > 0 /\ i <= Len(requests)
         /\ Len(requests) \in Nat
<1>1. requests \in Seq(Request) BY DEF TypeOK
<1>2. requests[i] \in Request /\ DOMAIN requests = 1 .. Len(requests) /\ Len(requests) \in Nat
  BY <1>1, ElementOfSeq, LenProperties
<1>3. MaxVersion \in Nat BY VersionAssumption
<1> QED BY <1>2, <1>3 DEF Request

\* What becomes of a request changes its state only.
LEMMA MovesFacts ==
  ASSUME TypeOK, NEW i \in DOMAIN requests, NEW from \in States, NEW to \in States,
         Moves(i, from, to)
  PROVE  /\ requests' \in Seq(Request)
         /\ DOMAIN requests' = DOMAIN requests /\ Len(requests') = Len(requests)
         /\ \A j \in DOMAIN requests :
              /\ requests'[j].key = requests[j].key
              /\ requests'[j].body = requests[j].body
              /\ requests'[j].version = requests[j].version
              /\ requests'[j].state = IF j = i THEN to ELSE requests[j].state
         /\ requests[i].state = from
         /\ use' = use
<1>1. requests \in Seq(Request) /\ requests[i] \in Request
  BY RequestFields DEF TypeOK
<1>2. requests' = [requests EXCEPT ![i] = [requests[i] EXCEPT !.state = to]]
  BY <1>1 DEF Moves
<1>3. [requests[i] EXCEPT !.state = to] \in Request
  BY <1>1 DEF Request
<1>4. /\ requests' \in Seq(Request) /\ Len(requests') = Len(requests)
      /\ \A j \in 1 .. Len(requests) : requests'[j] = IF j = i THEN [requests[i] EXCEPT !.state = to] ELSE requests[j]
  BY <1>1, <1>2, <1>3, ExceptSeq, LenProperties
<1>5. DOMAIN requests' = DOMAIN requests /\ DOMAIN requests = 1 .. Len(requests)
  BY <1>1, <1>4, LenProperties
<1>6. \A j \in DOMAIN requests : requests[j] \in Request BY RequestFields
<1> QED BY <1>1, <1>4, <1>5, <1>6 DEF Moves, Request

-----------------------------------------------------------------------------
(* The idempotency layer.                                                   *)

\* What is said of requests and lease alone outlasts a step that leaves them.
LEMMA RequestsLeft ==
  ASSUME UNCHANGED <<use, requests, lease>>
  PROVE  /\ RequestsInLine => RequestsInLine'
         /\ LeaseFollowsRequests => LeaseFollowsRequests'
         /\ VersionsFit => VersionsFit'
         /\ OneRequestPerKey => OneRequestPerKey'
         /\ \A k \in Keys, b \in Bodies \cup {NoBody}, r \in Nat : Fits(k, b, r) => Fits(k, b, r)'
<1>1. RequestsInLine => RequestsInLine' BY DEF RequestsInLine, SameAction, Retryable
<1>2. LeaseFollowsRequests => LeaseFollowsRequests' BY DEF LeaseFollowsRequests, SameAction
<1>3. VersionsFit => VersionsFit' BY DEF VersionsFit, AllowedIn
<1>4. OneRequestPerKey => OneRequestPerKey' BY DEF OneRequestPerKey
<1>5. \A k \in Keys, b \in Bodies \cup {NoBody}, r \in Nat : Fits(k, b, r) => Fits(k, b, r)'
  BY DEF Fits, ByClientKey
<1> QED BY <1>1, <1>2, <1>3, <1>4, <1>5

\* So does what is said of the calls in the port, when no other comes there.
LEMMA PortLeft ==
  ASSUME PortHoldsLock, UNCHANGED <<use, requests, lease>>,
         \A d \in Calls : call'[d].at \in Locking => call'[d] = call[d]
  PROVE  PortHoldsLock'
<1>1. /\ use' = use /\ requests' = requests /\ lease' = lease
  OBVIOUS
<1>2. ASSUME NEW c \in Calls, call'[c].at \in Locking
      PROVE  /\ \A d \in Calls : call'[d].at \in Locking => d = c
             /\ lease'.status \in AllowedIn(use'[call'[c].key])
             /\ \A i \in DOMAIN requests' :
                  /\ requests'[i].key # call'[c].key
                  /\ /\ call'[c].at = "terminal"
                     /\ use'[requests'[i].key] = use'[call'[c].key]
                     /\ requests'[i].version = lease'.version
                     => requests'[i].state \notin ActiveStates
  BY <1>1, <1>2 DEF PortHoldsLock
<1> QED BY <1>2 DEF PortHoldsLock

\* A call that reserves a row knows it as it is.
LEMMA TryBeginKeeps ==
  ASSUME IInv, UNCHANGED <<use, requests, lease>>,
         NEW c \in Calls, NEW k \in Keys, NEW b \in Bodies, TryBegin(c, k, b)
  PROVE  IInv'
<1> DEFINE new == [at |-> "begun", key |-> k, body |-> b, row |-> row'[k].id, result |-> NoResult]
<1>1. TypeOK /\ RowsMatch /\ row \in [Keys -> Row] /\ b # NoBody /\ MaxRows \in Nat
  BY RowsAssumption, BodiesAssumption DEF IInv, TypeOK
<1>2. /\ row' \in [Keys -> Row] /\ row'[k].id > 0 /\ row'[k].body = b
      /\ row[k].id <= row'[k].id /\ ~Succeeded(k)'
      /\ row[k].id = row'[k].id => row'[k].body = row[k].body /\ row[k].body = b
      /\ \A j \in Keys : j # k => row'[j] = row[j]
  <2>1. CASE InsertProcessing(k, b)
    BY <1>1, <2>1 DEF InsertProcessing, Row, Absent, Succeeded, NoResult, Results, IInv, TypeOK
  <2>2. CASE TakeOver(k, b)
    BY <1>1, <2>2 DEF TakeOver, RowsMatch, Row, Absent, Succeeded
  <2> QED BY <2>1, <2>2 DEF TryBegin
<1>3. new \in Command
  BY <1>1, <1>2 DEF Row, Command, Phases, Results, NoResult, IInv, TypeOK
<1>4. /\ call \in [Calls -> {Idle} \cup Command] /\ call[c].at = "idle"
      /\ call' = [call EXCEPT ![c] = new]
  BY DEF TryBegin, IInv, TypeOK
<1>5. TypeOK'
  BY <1>1, <1>2, <1>3, <1>4 DEF TryBegin, TypeOK, Row, Command, Answer, Results
<1>6. PortHoldsLock'
  <2>1. \A d \in Calls : call'[d].at \in Locking => call'[d] = call[d]
    BY <1>4 DEF Locking
  <2> QED BY <2>1, PortLeft DEF IInv
<1>7. RowsMatch'
  <2>1. \A j \in Keys : ~Absent(j)' => row'[j].id > 0
    BY <1>1, <1>2 DEF RowsMatch, Absent
  <2>2. ASSUME NEW d \in Calls, call'[d].at # "idle"
        PROVE  /\ call'[d].row <= row'[call'[d].key].id
               /\ call'[d].row = row'[call'[d].key].id /\ row'[call'[d].key].body # NoBody =>
                    row'[call'[d].key].body = call'[d].body
    <3>1. CASE d = c
      <4>1. call'[d] = new BY <1>4, <3>1
      <4> QED BY <1>1, <1>2, <4>1 DEF Row
    <3>2. CASE d # c
      <4>1. call'[d] = call[d] /\ call[d] \in Command
        BY <1>4, <2>2, <3>2, CommandFields DEF IInv
      <4>2. /\ call[d].row <= row[call[d].key].id
            /\ call[d].row = row[call[d].key].id /\ ~Absent(call[d].key) =>
                 row[call[d].key].body = call[d].body
        BY <1>1, <2>2, <4>1 DEF RowsMatch
      <4>3. CASE call[d].key = k
        <5>1. CASE InsertProcessing(k, b)
          BY <1>1, <4>1, <4>2, <4>3, <5>1 DEF InsertProcessing, Row, Command
        <5>2. CASE TakeOver(k, b)
          BY <1>1, <4>1, <4>2, <5>2 DEF TakeOver, Absent
        <5> QED BY <5>1, <5>2 DEF TryBegin
      <4>4. CASE call[d].key # k
        BY <1>1, <1>2, <4>1, <4>2, <4>4 DEF Absent, Command
      <4> QED BY <4>3, <4>4
    <3> QED BY <3>1, <3>2
  <2> QED BY <2>1, <2>2 DEF RowsMatch, Absent
<1>8. AnswersFit'
  <2>1. \A d \in Calls : call'[d].at = "done" => call'[d] = call[d] /\ call[d] \in Command
    BY <1>4, CommandFields DEF IInv
  <2>2. \A j \in Keys : Succeeded(j)' => row'[j] = row[j] /\ Succeeded(j) /\ row[j] \in Row
    BY <1>1, <1>2 DEF Succeeded
  <2>3. told' = told /\ told \subseteq Answer /\ Len(requests) \in Nat
    BY LenProperties DEF TryBegin, IInv, TypeOK
  <2>4. \A j \in Keys, a \in Bodies \cup {NoBody}, r \in Results : Fits(j, a, r) => Fits(j, a, r)'
    BY <2>3, RequestsLeft DEF Results
  <2> QED BY <2>1, <2>2, <2>3, <2>4 DEF IInv, AnswersFit, Command, Row, Answer
<1> QED BY <1>5, <1>6, <1>7, <1>8, RequestsLeft DEF IInv

\* A call marks the row it has reserved, if this is still there, and its body is its own.
LEMMA MarkFacts ==
  ASSUME TypeOK, RowsMatch, NEW c \in Calls, call[c].at # "idle",
         NEW r \in Results, Mark(c, r) \/ UNCHANGED row
  PROVE  /\ row' \in [Keys -> Row]
         /\ \A j \in Keys :
              /\ row'[j].id = row[j].id /\ row'[j].body = row[j].body
              /\ \/ row'[j].result = row[j].result
                 \/ j = call[c].key /\ row'[j].result = r /\ row[j].body = call[c].body
<1>1. row \in [Keys -> Row] /\ call[c] \in Command /\ call[c].key \in Keys
  BY CommandFields DEF TypeOK, Command
<1> DEFINE k == call[c].key
           marked == [row[k] EXCEPT !.result = r]
<1>2. CASE row' = row BY <1>1, <1>2
<1>3. CASE row' # row
  <2>1. row' = [row EXCEPT ![k] = marked] /\ ~Absent(k) /\ row[k].id = call[c].row
    BY <1>1, <1>3 DEF Mark
  <2>2. /\ marked \in Row /\ marked.id = row[k].id /\ marked.body = row[k].body
        /\ marked.result = r
    BY <1>1 DEF Row
  <2>3. row[k].body = call[c].body
    BY <1>1, <2>1 DEF RowsMatch
  <2> QED BY <1>1, <2>1, <2>2, <2>3
<1> QED BY <1>2, <1>3

\* A call ends with what it has marked and told.
LEMMA EndsKeeps ==
  ASSUME IInv, UNCHANGED <<use, requests, lease, found>>,
         NEW c \in Calls, call[c].at # "idle", Ends(c),
         NEW r \in Results, Mark(c, r) \/ UNCHANGED row,
         r # NoResult => Fits(call[c].key, call[c].body, r),
         UNCHANGED told \/ (r # NoResult /\ Tells(call[c].key, call[c].body, r))
  PROVE  IInv'
<1>1. /\ TypeOK /\ RowsMatch /\ row \in [Keys -> Row] /\ Len(requests) \in Nat
      /\ call[c] \in Command /\ call \in [Calls -> {Idle} \cup Command]
  BY CommandFields, LenProperties DEF IInv, TypeOK
<1>2. /\ row' \in [Keys -> Row]
      /\ \A j \in Keys :
           /\ row'[j].id = row[j].id /\ row'[j].body = row[j].body
           /\ \/ row'[j].result = row[j].result
              \/ j = call[c].key /\ row'[j].result = r /\ row[j].body = call[c].body
  BY <1>1, MarkFacts
<1>3. \A d \in Calls : call'[d] = IF d = c THEN Idle ELSE call[d]
  BY <1>1 DEF Ends
<1>4. TypeOK'
  <2>1. call' \in [Calls -> {Idle} \cup Command]
    BY <1>1 DEF Ends
  <2>2. told' \subseteq Answer
    BY <1>1 DEF IInv, TypeOK, Tells, Answer, Command
  <2> QED BY <1>2, <2>1, <2>2 DEF IInv, TypeOK, Row, Command, Answer, Results
<1>5. PortHoldsLock'
  <2>1. \A d \in Calls : call'[d].at \in Locking => call'[d] = call[d]
    BY <1>3 DEF Idle, Locking
  <2> QED BY <2>1, PortLeft DEF IInv
<1>6. RowsMatch'
  <2>1. \A d \in Calls : call'[d].at # "idle" => call'[d] = call[d] /\ call[d] \in Command /\ call[d].at # "idle"
    BY <1>3, CommandFields DEF IInv, Idle
  <2> QED BY <1>1, <1>2, <2>1 DEF RowsMatch, Absent, Command
<1>7. AnswersFit'
  <2>1. \A j \in Keys, a \in Bodies \cup {NoBody}, q \in Results : Fits(j, a, q) => Fits(j, a, q)'
    BY <1>1, RequestsLeft DEF Results
  <2>2. \A d \in Calls : call'[d].at = "done" => Fits(call[d].key, call[d].body, call[d].result)'
    <3>1. \A d \in Calls : call'[d].at = "done" => call'[d] = call[d] /\ call[d] \in Command
      BY <1>3, CommandFields DEF IInv, Idle
    <3> QED BY <2>1, <3>1 DEF IInv, AnswersFit, Command
  <2>3. ASSUME NEW j \in Keys, row'[j].result # NoResult
        PROVE  Fits(j, row[j].body, row[j].result)'
    <3>1. row[j] \in Row /\ row'[j].body = row[j].body BY <1>1, <1>2
    <3>2. CASE row'[j].result = row[j].result
      BY <2>1, <2>3, <3>1, <3>2 DEF IInv, AnswersFit, Succeeded, Row
    <3>3. CASE j = call[c].key /\ row'[j].result = r /\ row[j].body = call[c].body
      BY <2>1, <2>3, <3>1, <3>3, <1>1 DEF Row
    <3> QED BY <1>2, <3>2, <3>3
  <2>4. ASSUME NEW t \in told' PROVE Fits(t.key, t.body, t.result)'
    <3>1. CASE t \in told
      BY <2>1, <3>1 DEF IInv, AnswersFit, TypeOK, Answer
    <3>2. CASE t \notin told
      <4>1. t = [key |-> call[c].key, body |-> call[c].body, result |-> r] /\ r # NoResult
        BY <2>4, <3>2 DEF Tells
      <4> QED BY <1>1, <2>1, <4>1 DEF Command
    <3> QED BY <3>1, <3>2
  <2> QED BY <2>2, <2>3, <2>4 DEF AnswersFit, Succeeded
<1> QED BY <1>4, <1>5, <1>6, <1>7, RequestsLeft DEF IInv

\* A row that succeeded answers for its key.
LEMMA AnswerFromCacheKeeps ==
  ASSUME IInv, UNCHANGED <<use, requests, lease>>,
         NEW k \in Keys, NEW b \in Bodies, AnswerFromCache(k, b)
  PROVE  IInv'
<1>1. /\ row' = row /\ found' = found /\ call' = call
      /\ told' = told \cup {[key |-> k, body |-> b, result |-> row[k].result]}
      /\ row[k] \in Row /\ row[k].result # NoResult /\ row[k].body = b
      /\ Len(requests) \in Nat
  BY LenProperties DEF AnswerFromCache, Tells, Succeeded, IInv, TypeOK
<1>2. TypeOK'
  BY <1>1 DEF IInv, TypeOK, Row, Command, Answer, Results
<1>3. PortHoldsLock' /\ RowsMatch'
  <2>1. PortHoldsLock' BY <1>1, PortLeft DEF IInv
  <2>2. RowsMatch' BY <1>1 DEF IInv, RowsMatch, Absent
  <2> QED BY <2>1, <2>2
<1>4. AnswersFit'
  <2>1. \A j \in Keys, a \in Bodies \cup {NoBody}, q \in Results : Fits(j, a, q) => Fits(j, a, q)'
    BY <1>1, RequestsLeft DEF Results
  <2>2. \A d \in Calls : call'[d].at = "done" => Fits(call[d].key, call[d].body, call[d].result)'
    <3>1. \A d \in Calls : call'[d].at = "done" => call'[d] = call[d] /\ call[d] \in Command
      BY <1>1, CommandFields DEF IInv, Idle
    <3> QED BY <2>1, <3>1 DEF IInv, AnswersFit, Command
  <2>3. \A j \in Keys : row'[j].result # NoResult => Fits(j, row[j].body, row[j].result)'
    BY <1>1, <2>1 DEF IInv, AnswersFit, TypeOK, Row, Succeeded
  <2>4. ASSUME NEW t \in told' PROVE Fits(t.key, t.body, t.result)'
    <3>1. CASE t \in told
      BY <2>1, <3>1 DEF IInv, AnswersFit, TypeOK, Answer
    <3>2. CASE t \notin told
      <4>1. t = [key |-> k, body |-> row[k].body, result |-> row[k].result]
        BY <1>1, <2>4, <3>2
      <4>2. Fits(k, row[k].body, row[k].result)
        BY <1>1 DEF IInv, AnswersFit, Succeeded
      <4> QED BY <1>1, <2>1, <4>1, <4>2 DEF Row
    <3> QED BY <3>1, <3>2
  <2> QED BY <2>2, <2>3, <2>4 DEF AnswersFit, Succeeded
<1> QED BY <1>2, <1>3, <1>4, RequestsLeft DEF IInv

\* The cleanup takes rows away, and nothing that is said of those that stay.
LEMMA CleanupKeeps ==
  ASSUME IInv, UNCHANGED <<use, requests, lease>>,
         CleanupDeletes \/ \E k \in Keys : CleanupFinds(k)
  PROVE  IInv'
<1>1. /\ row \in [Keys -> Row] /\ call' = call /\ told' = told
      /\ Len(requests) \in Nat /\ MaxRows \in Nat
  BY RowsAssumption, LenProperties DEF CleanupDeletes, CleanupFinds, IInv, TypeOK
<1>2. /\ row' \in [Keys -> Row]
      /\ \A j \in Keys :
           row'[j] = row[j] \/ (row'[j] = AbsentRow(row[j].id))
  <2>1. CASE CleanupDeletes
    <3>1. \A j \in Keys : AbsentRow(row[j].id) \in Row
      BY <1>1 DEF AbsentRow, Row, Results, NoResult
    <3> QED BY <1>1, <2>1, <3>1 DEF CleanupDeletes
  <2>2. CASE \E k \in Keys : CleanupFinds(k)
    BY <1>1, <2>2 DEF CleanupFinds
  <2> QED BY <2>1, <2>2
<1>3. found' \subseteq Keys \X (1 .. MaxRows)
  <2>1. CASE CleanupDeletes BY <2>1 DEF CleanupDeletes
  <2>2. ASSUME NEW k \in Keys, CleanupFinds(k) PROVE found' \subseteq Keys \X (1 .. MaxRows)
    BY <1>1, <2>2 DEF CleanupFinds, Row, IInv, RowsMatch
  <2> QED BY <2>1, <2>2
<1>4. TypeOK'
  BY <1>1, <1>2, <1>3 DEF IInv, TypeOK, Row, Command, Answer, Results
<1>5. PortHoldsLock'
  BY <1>1, PortLeft DEF IInv
<1>6. RowsMatch'
  <2>1. \A j \in Keys : row'[j].id = row[j].id /\ (row'[j].body = row[j].body \/ row'[j].body = NoBody)
    BY <1>1, <1>2 DEF AbsentRow, Row
  <2>2. \A d \in Calls : call'[d].at # "idle" => call'[d] = call[d] /\ call[d] \in Command /\ call[d].at # "idle"
    BY <1>1, CommandFields DEF IInv
  <2> QED BY <2>1, <2>2 DEF IInv, RowsMatch, Absent, Command
<1>7. AnswersFit'
  <2>1. \A j \in Keys, a \in Bodies \cup {NoBody}, q \in Results : Fits(j, a, q) => Fits(j, a, q)'
    BY <1>1, RequestsLeft DEF Results
  <2>2. \A d \in Calls : call'[d].at = "done" => Fits(call[d].key, call[d].body, call[d].result)'
    <3>1. \A d \in Calls : call'[d].at = "done" => call'[d] = call[d] /\ call[d] \in Command
      BY <1>1, CommandFields DEF IInv, Idle
    <3> QED BY <2>1, <3>1 DEF IInv, AnswersFit, Command
  <2>3. \A j \in Keys : row'[j].result # NoResult => Fits(j, row[j].body, row[j].result)'
    <3>1. \A j \in Keys : row'[j].result # NoResult => row'[j] = row[j] /\ row[j] \in Row
      BY <1>1, <1>2 DEF AbsentRow
    <3> QED BY <2>1, <3>1 DEF IInv, AnswersFit, Row, Succeeded
  <2>4. \A t \in told' : Fits(t.key, t.body, t.result)'
    BY <1>1, <2>1 DEF IInv, AnswersFit, TypeOK, Answer
  <2> QED BY <2>2, <2>3, <2>4 DEF AnswersFit, Succeeded
<1> QED BY <1>4, <1>5, <1>6, <1>7, RequestsLeft DEF IInv

\* Every step of the idempotency layer keeps the invariant.
LEMMA LayerKeeps ==
  ASSUME IInv, LayerStep, UNCHANGED <<use, requests, lease>>
  PROVE  IInv'
<1>1. ASSUME NEW c \in Calls, NEW k \in Keys, NEW b \in Bodies, TryBegin(c, k, b) PROVE IInv'
  BY <1>1, TryBeginKeeps
<1>2. ASSUME NEW c \in Calls, Succeed(c) PROVE IInv'
  <2>1. call[c] \in Command /\ call[c].at = "done" /\ Fits(call[c].key, call[c].body, call[c].result)
    BY <1>2, CommandFields DEF Succeed, IInv, AnswersFit
  <2>2. call[c].result \in Results /\ call[c].result # NoResult
    <3>1. requests \in Seq(Request) BY DEF IInv, TypeOK
    <3>2. Len(requests) \in Nat /\ DOMAIN requests = 1 .. Len(requests) BY <3>1, LenProperties
    <3> QED BY <2>1, <3>2 DEF Fits, Results, NoResult
  <2> QED BY <1>2, <2>1, <2>2, EndsKeeps DEF Succeed
<1>3. ASSUME NEW c \in Calls, Fail(c) PROVE IInv'
  <2>1. NoResult \in Results
    BY LenProperties DEF IInv, TypeOK, NoResult, Results
  <2> QED BY <1>3, <2>1, EndsKeeps DEF Fail
<1>4. ASSUME NEW k \in Keys, NEW b \in Bodies, AnswerFromCache(k, b) PROVE IInv'
  BY <1>4, AnswerFromCacheKeeps
<1>5. CASE CleanupDeletes \/ \E k \in Keys : CleanupFinds(k)
  BY <1>5, CleanupKeeps
<1> QED BY <1>1, <1>2, <1>3, <1>4, <1>5 DEF LayerStep

-----------------------------------------------------------------------------
(* The port.                                                                *)

\* A call that goes on in the port keeps the invariant if it finds what the next place
\* asks for.
LEMMA CallKeeps ==
  ASSUME IInv, UNCHANGED <<row, found, told, use, requests, lease>>,
         NEW c \in Calls, call[c].at # "idle", call'[c].at # "idle",
         call' \in [Calls -> {Idle} \cup Command],
         \A d \in Calls : d # c => call'[d] = call[d],
         call'[c].key = call[c].key, call'[c].body = call[c].body, call'[c].row = call[c].row,
         call'[c].at \in Locking =>
           /\ \A d \in Calls : d # c => call[d].at \notin Locking
           /\ lease.status \in AllowedIn(use[call[c].key])
           /\ \A i \in DOMAIN requests :
                /\ requests[i].key # call[c].key
                /\ /\ call'[c].at = "terminal"
                   /\ use[requests[i].key] = use[call[c].key] /\ requests[i].version = lease.version
                   => requests[i].state \notin ActiveStates,
         call'[c].at = "done" => Fits(call[c].key, call[c].body, call'[c].result)
  PROVE  IInv'
<1>1. /\ row' = row /\ found' = found /\ told' = told
      /\ use' = use /\ requests' = requests /\ lease' = lease
      /\ call[c] \in Command /\ call'[c] \in Command /\ Len(requests) \in Nat
  BY CommandFields, LenProperties DEF IInv, TypeOK, Idle
<1>2. TypeOK'
  BY <1>1 DEF IInv, TypeOK, Row, Command, Answer, Results
<1>3. PortHoldsLock'
  <2>1. ASSUME NEW e \in Calls, call'[e].at \in Locking
        PROVE  /\ \A d \in Calls : call'[d].at \in Locking => d = e
               /\ lease'.status \in AllowedIn(use'[call'[e].key])
               /\ \A i \in DOMAIN requests' :
                    /\ requests'[i].key # call'[e].key
                    /\ /\ call'[e].at = "terminal"
                       /\ use'[requests'[i].key] = use'[call'[e].key]
                       /\ requests'[i].version = lease'.version
                       => requests'[i].state \notin ActiveStates
    <3>1. CASE e = c
      BY <1>1, <2>1, <3>1
    <3>2. CASE e # c
      <4>1. call'[e] = call[e] /\ call'[c].at \notin Locking
        BY <2>1, <3>2
      <4> QED BY <1>1, <2>1, <3>2, <4>1 DEF IInv, PortHoldsLock
    <3> QED BY <3>1, <3>2
  <2> QED BY <2>1 DEF PortHoldsLock
<1>4. RowsMatch'
  <2>1. \A d \in Calls : call'[d].at # "idle" =>
          /\ call'[d].key = call[d].key /\ call'[d].body = call[d].body
          /\ call'[d].row = call[d].row /\ call[d].at # "idle"
    OBVIOUS
  <2> QED BY <1>1, <2>1 DEF IInv, RowsMatch, Absent
<1>5. AnswersFit'
  <2>1. \A j \in Keys, a \in Bodies \cup {NoBody}, q \in Results : Fits(j, a, q) => Fits(j, a, q)'
    BY <1>1, RequestsLeft DEF Results
  <2>2. ASSUME NEW d \in Calls, call'[d].at = "done"
        PROVE  Fits(call[d].key, call[d].body, call[d].result)'
    <3>1. /\ call'[d] \in Command /\ Fits(call'[d].key, call'[d].body, call'[d].result)
      BY <1>1, <2>2, CommandFields DEF IInv, AnswersFit
    <3> QED BY <2>1, <3>1 DEF Command
  <2>3. \A j \in Keys : row'[j].result # NoResult => Fits(j, row[j].body, row[j].result)'
    BY <1>1, <2>1 DEF IInv, AnswersFit, TypeOK, Row, Succeeded
  <2>4. \A t \in told' : Fits(t.key, t.body, t.result)'
    BY <1>1, <2>1 DEF IInv, AnswersFit, TypeOK, Answer
  <2> QED BY <2>2, <2>3, <2>4 DEF AnswersFit, Succeeded
<1> QED BY <1>2, <1>3, <1>4, <1>5, RequestsLeft DEF IInv

\* A handler that throws leaves the port.
LEMMA ErrorKeeps ==
  ASSUME IInv, UNCHANGED <<row, found, told, use, requests, lease>>,
         NEW c \in Calls, call[c].at # "idle", Goes(c, "error")
  PROVE  IInv'
<1>1. "error" \in Phases /\ "error" \notin Locking
  BY DEF Phases, Locking
<1>2. TypeOK BY DEF IInv
<1> QED BY <1>1, <1>2, GoesFacts, CallKeeps

\* What the port finds first fits the command, or it finds nothing of its key.
LEMMA AskKeeps ==
  ASSUME IInv, NEW c \in Calls, Ask(c)
  PROVE  IInv'
<1>1. /\ call[c].at = "begun" /\ LeaseFree /\ TypeOK
      /\ call[c] \in Command /\ call[c].key \in Keys /\ call[c].body \in Bodies
  BY CommandFields DEF Ask, ReadIdentity, IInv, Command
<1> DEFINE k == call[c].key
           v == lease.version
<1>2. CASE lease.status \notin AllowedIn(use[k])
  <2>1. Goes(c, "error") /\ UNCHANGED <<row, found, told, use, requests, lease>>
    BY <1>2 DEF Ask
  <2> QED BY <1>1, <2>1, ErrorKeeps
<1>3. CASE lease.status \in AllowedIn(use[k]) /\ Known(k, v) = {}
  <2>1. Goes(c, "active") /\ UNCHANGED <<row, found, told, use, requests, lease>>
    BY <1>3 DEF Ask, ReadIdentity
  <2>2. "active" \in Phases /\ "active" \in Locking BY DEF Phases, Locking
  <2>3. \A i \in DOMAIN requests : requests[i].key # k
    BY <1>3 DEF Known, ByClientKey
  <2> QED BY <1>1, <1>3, <2>1, <2>2, <2>3, GoesFacts, CallKeeps DEF LeaseFree
<1>4. CASE lease.status \in AllowedIn(use[k]) /\ Known(k, v) # {}
  <2>1. PICK i \in Known(k, v) :
          /\ IF requests[i].version = v /\ requests[i].body = call[c].body
             THEN Returns(c, i) ELSE Goes(c, "error")
          /\ UNCHANGED <<row, found, told, use, requests, lease>>
    BY <1>4 DEF Ask, ReadIdentity
  <2>2. /\ i \in DOMAIN requests /\ use[requests[i].key] = use[k]
        /\ \A j \in ByClientKey(k) : i <= j
    <3>1. CASE ByClientKey(k) # {}
      <4>1. i \in DOMAIN requests /\ requests[i].key = k
        BY <2>1, <3>1 DEF Known, ByClientKey
      <4>2. \A j \in ByClientKey(k) : i = j
        BY <4>1 DEF IInv, OneRequestPerKey, ByClientKey
      <4> QED BY <1>1, <4>1, <4>2, RequestFields
    <3>2. CASE ByClientKey(k) = {}
      BY <2>1, <3>2 DEF Known, ByIntent, RequestsFor
    <3> QED BY <3>1, <3>2
  <2>3. CASE requests[i].version = v /\ requests[i].body = call[c].body
    <3>1. Fits(k, call[c].body, i) BY <2>2, <2>3 DEF Fits
    <3>2. i \in Nat /\ i \in Results
      BY <1>1, <2>2, RequestFields DEF Results
    <3>3. "done" \notin Locking BY DEF Locking
    <3> QED BY <1>1, <2>1, <2>3, <3>1, <3>2, <3>3, ReturnsFacts, CallKeeps
  <2>4. CASE ~(requests[i].version = v /\ requests[i].body = call[c].body)
    BY <1>1, <2>1, <2>4, ErrorKeeps
  <2> QED BY <2>3, <2>4
<1> QED BY <1>2, <1>3, <1>4

\* The second lookup finds none under way, or the call is over.
LEMMA ReadActiveKeeps ==
  ASSUME IInv, NEW c \in Calls, ReadActive(c, lease.version), lease' = lease
  PROVE  IInv'
<1>1. /\ call[c].at = "active" /\ TypeOK
      /\ UNCHANGED <<row, found, told, use, requests, lease>>
      /\ call[c].at \in Locking
  BY DEF ReadActive, IInv, Locking
<1>2. CASE ActiveOf(call[c].key, lease.version) = {}
  <2>1. Goes(c, "terminal") BY <1>2 DEF ReadActive
  <2>2. "terminal" \in Phases /\ "terminal" \in Locking BY DEF Phases, Locking
  <2>3. \A i \in DOMAIN requests :
          /\ requests[i].key # call[c].key
          /\ /\ use[requests[i].key] = use[call[c].key] /\ requests[i].version = lease.version
             => requests[i].state \notin ActiveStates
    BY <1>1, <1>2 DEF ActiveOf, RequestsFor, IInv, PortHoldsLock
  <2>4. /\ \A d \in Calls : d # c => call[d].at \notin Locking
        /\ lease.status \in AllowedIn(use[call[c].key])
    BY <1>1 DEF IInv, PortHoldsLock
  <2> QED BY <1>1, <2>1, <2>2, <2>3, <2>4, GoesFacts, CallKeeps
<1>3. CASE ActiveOf(call[c].key, lease.version) # {}
  BY <1>1, <1>3, ErrorKeeps DEF ReadActive
<1> QED BY <1>2, <1>3

\* After both lookups all requests for the action are older, or were rejected or withdrawn:
\* one of this version that was not would be the last, and the port would have seen it.
LEMMA NewRequestInLine ==
  ASSUME IInv, NEW c \in Calls, call[c].at = "terminal", MayCreate(call[c].key, lease.version),
         NEW i \in DOMAIN requests, use[requests[i].key] = use[call[c].key]
  PROVE  /\ requests[i].version <= lease.version
         /\ requests[i].version = lease.version => Retryable(i)
<1> DEFINE k == call[c].key
           v == lease.version
<1>1. /\ requests[i].version <= v /\ v \in Nat
      /\ \A j \in DOMAIN requests : /\ requests[j].version <= v /\ requests[j].version \in Nat
                                    /\ j \in Nat
  BY RequestFields, VersionAssumption DEF IInv, VersionsFit, TypeOK, Lease
<1>2. ASSUME requests[i].version = v, ~Retryable(i) PROVE FALSE
  <2>1. \A j \in DOMAIN requests :
          use[requests[j].key] = use[k] /\ requests[j].version = v => j <= i
    BY <1>1, <1>2 DEF IInv, RequestsInLine, SameAction
  <2>2. requests[i].state \notin ActiveStates
    BY <1>2 DEF IInv, PortHoldsLock, Locking
  <2>3. i \in TerminalOf(k) /\ \A j \in TerminalOf(k) : Newer(i, j)
    <3>1. i \in TerminalOf(k) BY <2>2 DEF TerminalOf, RequestsFor
    <3>2. ASSUME NEW j \in TerminalOf(k) PROVE Newer(i, j)
      <4>1. j \in DOMAIN requests /\ use[requests[j].key] = use[k]
        BY <3>2 DEF TerminalOf, RequestsFor
      <4> QED BY <1>1, <1>2, <2>1, <4>1 DEF Newer
    <3> QED BY <3>1, <3>2
  <2>4. i \in LatestTerminal(k) BY <2>3 DEF LatestTerminal
  <2> QED BY <1>1, <1>2, <2>4 DEF MayCreate
<1> QED BY <1>1, <1>2

\* What fits a command fits it when a request of another key is made, or of its own.
LEMMA CreateKeeps ==
  ASSUME IInv, NEW c \in Calls, Create(c, lease.version), lease' = lease
  PROVE  IInv'
<1> DEFINE k == call[c].key
           v == lease.version
           n == Len(requests) + 1
           new == [key |-> k, body |-> call[c].body, version |-> v, state |-> "pending",
                   again |-> \E i \in LatestTerminal(k) : requests[i].version = v]
<1>1. /\ call[c].at = "terminal" /\ TypeOK /\ call[c] \in Command
      /\ UNCHANGED <<use, row, found, told, lease>>
      /\ k \in Keys /\ call[c].body \in Bodies /\ v \in 1 .. MaxVersion /\ v \in Nat
  BY CommandFields, VersionAssumption DEF Create, IInv, Command, TypeOK, Lease
<1>2. CASE ~MayCreate(k, v)
  <2>1. Goes(c, "error") /\ requests' = requests BY <1>2 DEF Create
  <2> QED BY <1>1, <2>1, ErrorKeeps
<1>3. CASE MayCreate(k, v)
  <2>1. /\ requests' = Append(requests, new)
        /\ Returns(c, n) \/ Goes(c, "error")
    BY <1>3 DEF Create
  <2>2. new \in Request BY <1>1 DEF Request, States, ActiveStates
  <2>3. /\ requests \in Seq(Request) /\ requests' \in Seq(Request)
        /\ Len(requests) \in Nat /\ Len(requests') = n
        /\ DOMAIN requests = 1 .. Len(requests) /\ DOMAIN requests' = 1 .. n
        /\ \A i \in DOMAIN requests : requests'[i] = requests[i]
        /\ requests'[n] = new
    <3>1. requests \in Seq(Request) BY <1>1 DEF TypeOK
    <3>2. /\ requests' \in Seq(Request) /\ Len(requests') = n
          /\ \A i \in 1 .. Len(requests) : requests'[i] = requests[i]
          /\ requests'[n] = new
      BY <2>1, <2>2, <3>1, AppendProperties
    <3> QED BY <3>1, <3>2, LenProperties
  <2>4. \A i \in DOMAIN requests : requests[i].key # k
    BY <1>1 DEF IInv, PortHoldsLock, Locking
  <2>5. /\ \A d \in Calls : d # c => call'[d] = call[d]
        /\ call'[c].key = k /\ call'[c].body = call[c].body /\ call'[c].row = call[c].row
        /\ \/ call'[c].at = "done" /\ call'[c].result = n
           \/ call'[c].at = "error"
        /\ call' \in [Calls -> {Idle} \cup Command']
    <3>1. Command \subseteq Command' /\ call \in [Calls -> {Idle} \cup Command]
      BY <1>1, <2>3 DEF Command, Results, TypeOK
    <3>2. CASE Returns(c, n)
      <4>1. /\ call'[c] = [call[c] EXCEPT !.at = "done", !.result = n]
            /\ \A d \in Calls : d # c => call'[d] = call[d]
            /\ call'[c].at = "done" /\ call'[c].result = n
            /\ call'[c].key = k /\ call'[c].body = call[c].body /\ call'[c].row = call[c].row
        <5>1. n \in Nat /\ TypeOK /\ call[c].at # "idle" BY <1>1, <2>3
        <5> HIDE DEF n
        <5> QED BY <3>2, <5>1, ReturnsFacts
      <4>2. DOMAIN call' = Calls /\ call' = [d \in Calls |-> call'[d]]
        BY <3>1, <3>2 DEF Returns
      <4>3. Command' = [at : Phases, key : Keys, body : Bodies, row : 1 .. MaxRows, result : 0 .. n]
        BY <2>3 DEF Command, Results
      <4>4. /\ n \in 0 .. n /\ "done" \in Phases
            /\ call[c] \in [at : Phases, key : Keys, body : Bodies, row : 1 .. MaxRows,
                            result : 0 .. Len(requests)]
        BY <1>1, <2>3 DEF Phases, Command, Results
      <4>5. [call[c] EXCEPT !.at = "done", !.result = n] \in
               [at : Phases, key : Keys, body : Bodies, row : 1 .. MaxRows, result : 0 .. n]
        BY <4>4
      <4>6. \A d \in Calls : call'[d] \in {Idle} \cup Command'
        BY <3>1, <4>1, <4>3, <4>5
      <4> QED BY <4>1, <4>2, <4>6
    <3>3. CASE Goes(c, "error")
      <4>1. "error" \in Phases BY DEF Phases
      <4>2. call' \in [Calls -> {Idle} \cup Command] BY <1>1, <3>3, <4>1, GoesFacts
      <4> QED BY <1>1, <3>1, <3>3, <4>1, <4>2, GoesFacts
    <3> QED BY <2>1, <3>2, <3>3
  <2>6. TypeOK'
    <3>1. Row \subseteq Row' /\ Answer \subseteq Answer'
      BY <2>3 DEF Row, Answer, Results
    <3> QED BY <1>1, <2>3, <2>5, <3>1 DEF TypeOK, Request, Lease
  <2>7. RequestsInLine'
    <3>1. ASSUME NEW i \in 1 .. n, NEW j \in 1 .. n, i < j,
                 use[requests'[i].key] = use[requests'[j].key]
          PROVE  /\ requests'[i].version <= requests'[j].version
                 /\ requests'[i].version = requests'[j].version =>
                      requests'[i].state \in RetryableStates
      <4>1. i \in DOMAIN requests BY <2>3, <3>1
      <4>2. CASE j = n
        BY <1>1, <1>3, <2>3, <3>1, <4>1, <4>2, NewRequestInLine DEF Retryable
      <4>3. CASE j # n
        <5>1. j \in DOMAIN requests BY <2>3, <4>3
        <5> QED BY <2>3, <3>1, <4>1, <5>1 DEF IInv, RequestsInLine, SameAction, Retryable
      <4> QED BY <4>2, <4>3
    <3> QED BY <1>1, <2>3, <3>1 DEF RequestsInLine, SameAction, Retryable
  <2>8. LeaseFollowsRequests'
    <3>1. \A i \in DOMAIN requests' :
            requests'[i].state = "executed" => i \in DOMAIN requests /\ requests'[i] = requests[i]
      BY <2>3
    <3>2. DOMAIN requests \subseteq DOMAIN requests' BY <2>3
    <3> QED BY <1>1, <2>3, <3>1, <3>2 DEF IInv, LeaseFollowsRequests, SameAction
  <2>9. PortHoldsLock'
    <3>1. \A d \in Calls : call'[d].at \notin Locking
      BY <1>1, <2>5 DEF IInv, PortHoldsLock, Locking
    <3> QED BY <3>1 DEF PortHoldsLock
  <2>10. VersionsFit'
    <3>1. lease.status \in AllowedIn(use[k])
      BY <1>1 DEF IInv, PortHoldsLock, Locking
    <3>2. \A i \in 1 .. n :
            /\ requests'[i].version <= v
            /\ requests'[i].state = "executed" => requests'[i].version < v
            /\ requests'[i].version = v => lease.status \in AllowedIn(use[requests'[i].key])
      BY <1>1, <2>3, <3>1 DEF IInv, VersionsFit
    <3> QED BY <1>1, <2>3, <3>2 DEF VersionsFit
  <2>11. OneRequestPerKey'
    BY <2>3, <2>4 DEF IInv, OneRequestPerKey
  <2>12. RowsMatch'
    <3>1. \A d \in Calls : call'[d].at # "idle" =>
            /\ call'[d].key = call[d].key /\ call'[d].body = call[d].body
            /\ call'[d].row = call[d].row /\ call[d].at # "idle"
      BY <1>1, <2>5
    <3> QED BY <1>1, <3>1 DEF IInv, RowsMatch, Absent
  <2>13. AnswersFit'
    <3>1. ASSUME NEW j \in Keys, NEW a \in Bodies \cup {NoBody}, NEW r \in Nat, Fits(j, a, r)
          PROVE  Fits(j, a, r)'
      BY <1>1, <2>3, <3>1 DEF Fits, ByClientKey
    <3>2. ASSUME NEW d \in Calls, call'[d].at = "done"
          PROVE  Fits(call[d].key, call[d].body, call[d].result)'
      <4>1. CASE d = c
        <5>1. \A j \in DOMAIN requests' : requests'[j].key = k => n <= j
          BY <2>3, <2>4
        <5>2. call'[d].key = k /\ call'[d].body = call[c].body /\ call'[d].result = n
          BY <2>5, <3>2, <4>1
        <5> QED BY <1>1, <2>3, <5>1, <5>2 DEF Fits, ByClientKey
      <4>2. CASE d # c
        <5>1. call'[d] = call[d] /\ call[d] \in Command /\ call[d].at = "done"
          BY <1>1, <2>5, <3>2, <4>2, CommandFields
        <5> QED BY <2>3, <3>1, <5>1 DEF IInv, AnswersFit, Command, Results
      <4> QED BY <4>1, <4>2
    <3>3. ASSUME NEW j \in Keys, row'[j].result # NoResult
          PROVE  Fits(j, row[j].body, row[j].result)'
      <4>1. row' = row /\ row[j] \in Row /\ Fits(j, row[j].body, row[j].result)
        BY <1>1, <3>3 DEF IInv, AnswersFit, TypeOK, Succeeded
      <4>2. row[j].body \in Bodies \cup {NoBody} /\ row[j].result \in Nat
        BY <2>3, <4>1 DEF Row, Results
      <4> QED BY <3>1, <4>1, <4>2
    <3>4. \A t \in told' : Fits(t.key, t.body, t.result)'
      BY <1>1, <2>3, <3>1 DEF IInv, AnswersFit, TypeOK, Answer, Results
    <3> QED BY <3>2, <3>3, <3>4 DEF AnswersFit, Succeeded
  <2> QED BY <2>6, <2>7, <2>8, <2>9, <2>10, <2>11, <2>12, <2>13 DEF IInv
<1> QED BY <1>2, <1>3

-----------------------------------------------------------------------------
(* Decisions, executions and writes of the lease.                           *)

\* A request that is under way is not one another stands after, and the answers name it
\* whatever becomes of it.
LEMMA MovesKeeps ==
  ASSUME IInv, NEW i \in DOMAIN requests, NEW from \in ActiveStates, NEW to \in States,
         Moves(i, from, to), UNCHANGED layer, lease' \in Lease
  PROVE  TypeOK' /\ RequestsInLine' /\ OneRequestPerKey' /\ RowsMatch' /\ AnswersFit'
<1>1. /\ row' = row /\ found' = found /\ call' = call /\ told' = told
      /\ TypeOK /\ from \in States /\ from \notin RetryableStates
  BY DEF layer, IInv, States, ActiveStates, RetryableStates
<1>2. /\ requests' \in Seq(Request)
      /\ DOMAIN requests' = DOMAIN requests /\ Len(requests') = Len(requests)
      /\ \A j \in DOMAIN requests :
           /\ requests'[j].key = requests[j].key
           /\ requests'[j].body = requests[j].body
           /\ requests'[j].version = requests[j].version
           /\ requests'[j].state = IF j = i THEN to ELSE requests[j].state
      /\ requests[i].state = from
      /\ use' = use
  BY <1>1, MovesFacts
<1>3. TypeOK'
  BY <1>1, <1>2 DEF TypeOK, Row, Command, Answer, Results, Request, Lease
<1>4. RequestsInLine'
  <2>1. \A j, l \in DOMAIN requests :
          j < l /\ use[requests[j].key] = use[requests[l].key] =>
            /\ requests[j].version <= requests[l].version
            /\ requests[j].version = requests[l].version =>
                 requests[j].state \in RetryableStates /\ requests'[j].state = requests[j].state
    BY <1>1, <1>2 DEF IInv, RequestsInLine, SameAction, Retryable
  <2> QED BY <1>2, <2>1 DEF RequestsInLine, SameAction, Retryable
<1>5. OneRequestPerKey'
  BY <1>2 DEF IInv, OneRequestPerKey
<1>6. RowsMatch'
  BY <1>1 DEF IInv, RowsMatch, Absent
<1>7. AnswersFit'
  <2>1. ASSUME NEW j \in Keys, NEW a \in Bodies \cup {NoBody}, NEW r \in Nat, Fits(j, a, r)
        PROVE  Fits(j, a, r)'
    BY <1>2, <2>1 DEF Fits, ByClientKey
  <2>2. Len(requests) \in Nat BY <1>1, LenProperties DEF TypeOK
  <2>3. ASSUME NEW d \in Calls, call'[d].at = "done"
        PROVE  Fits(call[d].key, call[d].body, call[d].result)'
    <3>1. /\ call' = call /\ call[d] \in Command
          /\ Fits(call[d].key, call[d].body, call[d].result)
      BY <1>1, <2>3, CommandFields DEF IInv, AnswersFit
    <3> QED BY <2>1, <2>2, <3>1 DEF Command, Results
  <2>4. ASSUME NEW j \in Keys, row'[j].result # NoResult
        PROVE  Fits(j, row[j].body, row[j].result)'
    <3>1. row' = row /\ row[j] \in Row /\ Fits(j, row[j].body, row[j].result)
      BY <1>1, <2>4 DEF IInv, AnswersFit, TypeOK, Succeeded
    <3>2. row[j].body \in Bodies \cup {NoBody} /\ row[j].result \in Nat
      BY <2>2, <3>1 DEF Row, Results
    <3> QED BY <2>1, <3>1, <3>2
  <2>5. \A t \in told' : Fits(t.key, t.body, t.result)'
    BY <1>1, <2>1, <2>2 DEF IInv, AnswersFit, TypeOK, Answer, Results
  <2> QED BY <2>3, <2>4, <2>5 DEF AnswersFit, Succeeded
<1> QED BY <1>3, <1>4, <1>5, <1>6, <1>7

\* A request that is not executed moves nothing else: the port only finds fewer of its
\* version under way.
LEMMA DecideKeeps ==
  ASSUME IInv, NEW i \in DOMAIN requests, NEW from \in ActiveStates,
         NEW to \in States \ {"executed"}, to \in ActiveStates => from = "pending",
         Moves(i, from, to), UNCHANGED <<layer, lease>>
  PROVE  IInv'
<1>1. /\ row' = row /\ found' = found /\ call' = call /\ told' = told /\ lease' = lease
      /\ TypeOK /\ from \in States /\ to \in States /\ lease' \in Lease
      /\ UNCHANGED layer
  BY DEF layer, IInv, States, TypeOK
<1>2. /\ DOMAIN requests' = DOMAIN requests
      /\ \A j \in DOMAIN requests :
           /\ requests'[j].key = requests[j].key
           /\ requests'[j].version = requests[j].version
           /\ requests'[j].state = IF j = i THEN to ELSE requests[j].state
      /\ requests[i].state = from
      /\ use' = use
  BY <1>1, MovesFacts
<1>3. /\ \A j \in DOMAIN requests :
           /\ requests'[j].state = "executed" <=> requests[j].state = "executed"
           /\ requests[j].state \notin ActiveStates => requests'[j].state \notin ActiveStates
  BY <1>2 DEF ActiveStates
<1>4. VersionsFit'
  BY <1>1, <1>2, <1>3 DEF IInv, VersionsFit, AllowedIn
<1>5. LeaseFollowsRequests'
  BY <1>1, <1>2, <1>3 DEF IInv, LeaseFollowsRequests, SameAction
<1>6. PortHoldsLock'
  <2>1. ASSUME NEW c \in Calls, call[c].at \in Locking
        PROVE  /\ \A d \in Calls : call[d].at \in Locking => d = c
               /\ lease'.status \in AllowedIn(use'[call[c].key])
               /\ \A j \in DOMAIN requests' :
                    /\ requests'[j].key # call[c].key
                    /\ /\ call[c].at = "terminal"
                       /\ use'[requests'[j].key] = use'[call[c].key]
                       /\ requests'[j].version = lease'.version
                       => requests'[j].state \notin ActiveStates
    BY <1>1, <1>2, <1>3, <2>1 DEF IInv, PortHoldsLock
  <2> QED BY <1>1, <2>1 DEF PortHoldsLock
<1> QED BY <1>1, <1>4, <1>5, <1>6, MovesKeeps DEF IInv

\* An executed request finds the lease in the status it was asked for, and none before it
\* has done the same.
LEMMA ExecuteKeeps ==
  ASSUME IInv, NEW i \in DOMAIN requests, Execute(i)
  PROVE  IInv'
<1> DEFINE v == lease.version
<1>1. /\ TypeOK /\ UNCHANGED layer /\ call' = call
      /\ requests[i].version = v /\ v \in Nat /\ v < MaxVersion /\ lease \in Lease
      /\ Moves(i, "approved", "executed")
      /\ lease' = [lease EXCEPT !.status = Effect(i), !.version = v + 1]
  BY VersionAssumption DEF Execute, Writes, layer, IInv, TypeOK, Lease
<1>2. /\ "approved" \in ActiveStates /\ "approved" \in States /\ "executed" \in States
  BY DEF ActiveStates, States
<1>3. /\ DOMAIN requests' = DOMAIN requests
      /\ \A j \in DOMAIN requests :
           /\ requests'[j].key = requests[j].key
           /\ requests'[j].version = requests[j].version
           /\ requests'[j].state = IF j = i THEN "executed" ELSE requests[j].state
      /\ requests[i].state = "approved"
      /\ use' = use
  BY <1>1, <1>2, MovesFacts
<1>4. \A j \in DOMAIN requests :
        /\ use[requests[j].key] \in {"approve", "void"}
        /\ requests[j].version \in Nat /\ requests[j].version <= v
        /\ requests[j].state = "executed" => requests[j].version < v
  BY <1>1, RequestFields, UsesAssumption DEF IInv, VersionsFit, TypeOK
<1>5. /\ use[requests[i].key] = "approve" =>
           lease.status = "pending_approval" /\ lease'.status = "pending_signature"
      /\ use[requests[i].key] = "void" =>
           /\ lease.status \in {"draft", "pending_approval", "pending_signature"}
           /\ lease'.status = "void"
      /\ lease'.version = v + 1 /\ lease' \in Lease
  <2>1. lease.status \in AllowedIn(use[requests[i].key])
    BY <1>1 DEF IInv, VersionsFit
  <2>2. Effect(i) \in LeaseStatuses
    BY <1>4 DEF Effect, LeaseStatuses
  <2>3. v + 1 \in 1 .. MaxVersion
    BY <1>1, VersionAssumption
  <2>4. lease' \in Lease /\ lease'.status = Effect(i) /\ lease'.version = v + 1
    BY <1>1, <2>2, <2>3 DEF Lease
  <2> QED BY <2>1, <2>4 DEF AllowedIn, Effect
<1>6. VersionsFit'
  <2>1. \A j \in DOMAIN requests :
          /\ requests'[j].version <= lease'.version /\ requests'[j].version # lease'.version
          /\ requests'[j].version < lease'.version
    BY <1>1, <1>3, <1>4, <1>5
  <2> QED BY <1>3, <2>1 DEF VersionsFit
<1>7. PortHoldsLock'
  BY <1>1 DEF Execute, Writes, LeaseFree, PortHoldsLock
<1>8. LeaseFollowsRequests'
  <2>1. \A j \in DOMAIN requests : requests[j].state = "executed" =>
          use[requests[j].key] # use[requests[i].key]
    BY <1>4, <1>5 DEF IInv, LeaseFollowsRequests
  <2>2. \A j \in DOMAIN requests :
          requests'[j].state = "executed" <=> j = i \/ requests[j].state = "executed"
    BY <1>3
  <2>3. \A j, l \in DOMAIN requests' :
          requests'[j].state = "executed" /\ requests'[l].state = "executed" /\ j # l =>
            /\ use'[requests'[j].key] # use'[requests'[l].key]
            /\ requests'[j].version # requests'[l].version
    BY <1>1, <1>3, <1>4, <2>1, <2>2 DEF IInv, LeaseFollowsRequests, SameAction
  <2>4. \A action \in {"approve", "void"} :
          (\E j \in DOMAIN requests' :
             requests'[j].state = "executed" /\ use'[requests'[j].key] = action)
          <=> \/ use[requests[i].key] = action
              \/ \E j \in DOMAIN requests :
                   requests[j].state = "executed" /\ use[requests[j].key] = action
    BY <1>3, <2>2
  <2>5. /\ lease.status = "void" <=>
             \E j \in DOMAIN requests :
               requests[j].state = "executed" /\ use[requests[j].key] = "void"
        /\ lease.status \in {"pending_signature", "active"} <=>
             /\ \E j \in DOMAIN requests :
                  requests[j].state = "executed" /\ use[requests[j].key] = "approve"
             /\ lease.status # "void"
    BY DEF IInv, LeaseFollowsRequests
  <2>6. /\ lease'.status = "void" <=>
             \E j \in DOMAIN requests' :
               requests'[j].state = "executed" /\ use'[requests'[j].key] = "void"
        /\ lease'.status \in {"pending_signature", "active"} <=>
             /\ \E j \in DOMAIN requests' :
                  requests'[j].state = "executed" /\ use'[requests'[j].key] = "approve"
             /\ lease'.status # "void"
    <3>1. CASE use[requests[i].key] = "approve"
      BY <1>5, <2>4, <2>5, <3>1
    <3>2. CASE use[requests[i].key] = "void"
      BY <1>5, <2>4, <3>2
    <3> QED BY <1>4, <3>1, <3>2
  <2> QED BY <2>3, <2>6 DEF LeaseFollowsRequests, SameAction
<1> QED BY <1>1, <1>2, <1>5, <1>6, <1>7, <1>8, MovesKeeps DEF IInv

\* A write of the lease leaves all requests behind it, and no call in the port.
LEMMA WritesKeeps ==
  ASSUME IInv, NEW new \in Lease, Writes(new), UNCHANGED <<layer, use, requests>>,
         new.status \in {"pending_signature", "active"} <=>
           lease.status \in {"pending_signature", "active"},
         new.status = "void" <=> lease.status = "void"
  PROVE  IInv'
<1>1. /\ row' = row /\ found' = found /\ call' = call /\ told' = told
      /\ use' = use /\ requests' = requests
      /\ TypeOK /\ lease.version \in Nat /\ lease.version < MaxVersion
      /\ lease' = [new EXCEPT !.version = lease.version + 1]
  BY VersionAssumption DEF Writes, layer, IInv, TypeOK, Lease
<1>2. lease' \in Lease /\ lease'.version = lease.version + 1 /\ lease'.status = new.status
  BY <1>1, VersionAssumption DEF Lease
<1>3. TypeOK'
  BY <1>1, <1>2 DEF TypeOK, Row, Command, Answer, Results, Lease
<1>4. RequestsInLine' /\ OneRequestPerKey'
  BY <1>1 DEF IInv, RequestsInLine, OneRequestPerKey, SameAction, Retryable
<1>5. LeaseFollowsRequests'
  <2>1. /\ use' = use /\ requests' = requests
        /\ lease'.status = "void" <=> lease.status = "void"
        /\ lease'.status \in {"pending_signature", "active"} <=>
             lease.status \in {"pending_signature", "active"}
    BY <1>1, <1>2
  <2> QED BY <2>1 DEF IInv, LeaseFollowsRequests, SameAction
<1>6. PortHoldsLock'
  BY <1>1 DEF Writes, LeaseFree, PortHoldsLock
<1>7. VersionsFit'
  <2>1. \A i \in DOMAIN requests :
          requests[i].version \in Nat /\ requests[i].version <= lease.version
    BY <1>1, RequestFields DEF IInv, VersionsFit
  <2>2. use' = use /\ requests' = requests /\ lease'.version = lease.version + 1
    BY <1>1, <1>2
  <2>3. \A i \in DOMAIN requests :
          requests[i].version < lease'.version
    BY <1>1, <2>1, <2>2
  <2>4. \A i \in DOMAIN requests :
          requests[i].version <= lease'.version /\ requests[i].version # lease'.version
    BY <1>1, <2>1, <2>2
  <2> QED BY <2>2, <2>3, <2>4 DEF VersionsFit
<1>8. RowsMatch'
  BY <1>1 DEF IInv, RowsMatch, Absent
<1>9. AnswersFit'
  BY <1>1 DEF IInv, AnswersFit, Fits, ByClientKey, Succeeded
<1> QED BY <1>3, <1>4, <1>5, <1>6, <1>7, <1>8, <1>9 DEF IInv

-----------------------------------------------------------------------------
(* The invariant.                                                           *)

\* The invariant holds of a new draft nobody has asked for.
LEMMA InitIInv == Init => IInv
<1> SUFFICES ASSUME Init PROVE IInv
  OBVIOUS
<1> USE DEF Init, LayerInit, PortInit
<1>1. /\ requests \in Seq(Request) /\ Len(requests) = 0 /\ DOMAIN requests = {}
  BY EmptySeq
<1>2. /\ row = [k \in Keys |-> AbsentRow(0)] /\ call = [c \in Calls |-> Idle]
      /\ told = {} /\ found = {}
  OBVIOUS
<1>3. TypeOK
  <2>1. AbsentRow(0) \in Row
    BY <1>1, RowsAssumption DEF AbsentRow, Row, NoResult, Results
  <2>2. lease \in Lease
    BY VersionAssumption DEF Lease, LeaseStatuses
  <2> QED BY <1>1, <1>2, <2>1, <2>2 DEF TypeOK
<1>4. /\ \A c \in Calls : call[c].at = "idle"
      /\ \A k \in Keys : Absent(k) /\ ~Succeeded(k)
  BY <1>2 DEF Idle, AbsentRow, Absent, Succeeded, NoBody, NoResult
<1>5. RequestsInLine /\ OneRequestPerKey /\ VersionsFit
  BY <1>1 DEF RequestsInLine, OneRequestPerKey, VersionsFit
<1>6. LeaseFollowsRequests
  BY <1>1 DEF LeaseFollowsRequests
<1>7. PortHoldsLock /\ RowsMatch /\ AnswersFit
  BY <1>2, <1>4 DEF PortHoldsLock, RowsMatch, AnswersFit, Locking
<1> QED BY <1>3, <1>5, <1>6, <1>7 DEF IInv

\* Submitting the draft keeps it ...
LEMMA SubmitKeeps == IInv /\ Submit => IInv'
<1> SUFFICES ASSUME IInv, Submit PROVE IInv'
  OBVIOUS
<1> DEFINE new == [lease EXCEPT !.status = "pending_approval"]
<1>1. /\ new \in Lease /\ new.status = "pending_approval" /\ lease.status = "draft"
      /\ Writes(new) /\ UNCHANGED <<layer, use, requests>>
  BY DEF Submit, IInv, TypeOK, Lease, LeaseStatuses
<1> HIDE DEF new
<1> QED BY <1>1, WritesKeeps

\* ... and so do the signature ...
LEMMA SignKeeps == IInv /\ Sign => IInv'
<1> SUFFICES ASSUME IInv, Sign PROVE IInv'
  OBVIOUS
<1> DEFINE new == [lease EXCEPT !.signed = TRUE]
<1>1. /\ new \in Lease /\ new.status = lease.status
      /\ Writes(new) /\ UNCHANGED <<layer, use, requests>>
  BY DEF Sign, IInv, TypeOK, Lease
<1> HIDE DEF new
<1> QED BY <1>1, WritesKeeps

\* ... and the activation.
LEMMA ActivateKeeps == IInv /\ Activate => IInv'
<1> SUFFICES ASSUME IInv, Activate PROVE IInv'
  OBVIOUS
<1> DEFINE new == [lease EXCEPT !.status = "active"]
<1>1. /\ new \in Lease /\ new.status = "active" /\ lease.status = "pending_signature"
      /\ Writes(new) /\ UNCHANGED <<layer, use, requests>>
  BY DEF Activate, IInv, TypeOK, Lease, LeaseStatuses
<1> HIDE DEF new
<1> QED BY <1>1, WritesKeeps

\* Every step keeps the invariant.
LEMMA NextIInv == IInv /\ [Next]_vars => IInv'
<1> SUFFICES ASSUME IInv, [Next]_vars PROVE IInv'
  OBVIOUS
<1>1. CASE LayerStep /\ UNCHANGED <<use, requests, lease>>
  BY <1>1, LayerKeeps
<1>2. ASSUME NEW c \in Calls, Ask(c) PROVE IInv'
  BY <1>2, AskKeeps
<1>3. ASSUME NEW c \in Calls, Throw(c) PROVE IInv'
  <2>1. call[c].at # "idle" BY <1>3 DEF Throw, Locking
  <2> QED BY <1>3, <2>1, ErrorKeeps DEF Throw
<1>4. ASSUME NEW c \in Calls, ReadActive(c, lease.version), UNCHANGED lease PROVE IInv'
  BY <1>4, ReadActiveKeeps
<1>5. ASSUME NEW c \in Calls, Create(c, lease.version), UNCHANGED lease PROVE IInv'
  BY <1>5, CreateKeeps
<1>6. ASSUME NEW i \in DOMAIN requests, NEW verdict \in {"approved"} \cup RetryableStates,
             Decide(i, verdict), UNCHANGED lease
      PROVE  IInv'
  <2>1. /\ Moves(i, "pending", verdict) /\ UNCHANGED <<layer, lease>>
        /\ verdict \in States \ {"executed"} /\ "pending" \in ActiveStates
    BY <1>6 DEF Decide, States, ActiveStates, RetryableStates
  <2> QED BY <2>1, DecideKeeps
<1>7. ASSUME NEW i \in DOMAIN requests, Execute(i) PROVE IInv'
  BY <1>7, ExecuteKeeps
<1>8. ASSUME NEW i \in DOMAIN requests, RefuseExecution(i) PROVE IInv'
  <2>1. /\ Moves(i, "approved", "failed") /\ UNCHANGED <<layer, lease>>
        /\ "failed" \in States \ {"executed"} /\ "failed" \notin ActiveStates
        /\ "approved" \in ActiveStates
    BY <1>8 DEF RefuseExecution, States, ActiveStates, RetryableStates
  <2> QED BY <2>1, DecideKeeps
<1>9. CASE Submit \/ Sign \/ Activate
  BY <1>9, SubmitKeeps, SignKeeps, ActivateKeeps
<1>10. CASE UNCHANGED vars
  <2>1. UNCHANGED <<row, found, call, told>> /\ UNCHANGED <<use, requests, lease>>
    BY <1>10 DEF vars, layer
  <2>2. TypeOK'
    BY <2>1 DEF IInv, TypeOK, Row, Command, Answer, Results
  <2>3. PortHoldsLock' BY <2>1, PortLeft DEF IInv
  <2>4. RowsMatch' BY <2>1 DEF IInv, RowsMatch, Absent
  <2>5. AnswersFit' BY <2>1 DEF IInv, AnswersFit, Fits, ByClientKey, Succeeded
  <2> QED BY <2>1, <2>2, <2>3, <2>4, <2>5, RequestsLeft DEF IInv
<1> QED BY <1>1, <1>2, <1>3, <1>4, <1>5, <1>6, <1>7, <1>8, <1>9, <1>10 DEF Next

\* A later answer under the same key is about a later request for the same action, so the
\* earlier request is not the key's own, and stands before it in line.
LEMMA IInvAnswers == IInv => AnswersFollowKey
<1> SUFFICES ASSUME IInv PROVE AnswersFollowKey
  OBVIOUS
<1>1. \A t \in told : /\ Fits(t.key, t.body, t.result)
                      /\ t.result \in DOMAIN requests
                      /\ t.result \in Nat /\ requests[t.result].version \in Nat
  BY RequestFields DEF IInv, AnswersFit, Fits
<1>2. ASSUME NEW t \in told, NEW u \in told, u.key = t.key, t.result < u.result
      PROVE  /\ requests[t.result].key # t.key
             /\ Retryable(t.result) \/ requests[t.result].version < requests[u.result].version
  <2>1. requests[t.result].key # t.key
    BY <1>1, <1>2 DEF Fits, ByClientKey
  <2>2. SameAction(t.result, u.result)
    BY <1>1, <1>2 DEF Fits, SameAction
  <2> QED BY <1>1, <1>2, <2>1, <2>2 DEF IInv, RequestsInLine
<1> QED BY <1>1, <1>2 DEF AnswersFollowKey, Fits

-----------------------------------------------------------------------------
(* What always holds.                                                       *)

\* The inductive invariant.
THEOREM SpecIInv == Spec => []IInv
BY InitIInv, NextIInv, PTL DEF Spec

\* Rows, commands, answers, requests and the lease keep their shape, and no answer names
\* a request there is not.
THEOREM SpecTypeOK == Spec => []TypeOK
<1>1. IInv => TypeOK BY DEF IInv
<1> QED BY <1>1, SpecIInv, PTL

\* createPendingRequest never puts a request beside or after another for the same action
\* and version that is under way, executed or failed, with any number of commands,
\* checkers and executors.
THEOREM SpecRequestsInLine == Spec => []RequestsInLine
<1>1. IInv => RequestsInLine BY DEF IInv
<1> QED BY <1>1, SpecIInv, PTL

\* The executor brings the lease where its executed requests say, each once and on a
\* version of its own.
THEOREM SpecLeaseFollowsRequests == Spec => []LeaseFollowsRequests
<1>1. IInv => LeaseFollowsRequests BY DEF IInv
<1> QED BY <1>1, SpecIInv, PTL

\* Whatever the idempotency layer forgets, takes over or overwrites, the answers under a
\* key are about its command, and no longer change once the key has made a request.
THEOREM SpecAnswersFollowKey == Spec => []AnswersFollowKey
<1> QED BY IInvAnswers, SpecIInv, PTL

-----------------------------------------------------------------------------
(* History: what a step never takes back.                                   *)

\* A request keeps its key, body and version, and its state once it has ended; it is
\* executed out of "approved" and on the version that the lease has, which goes up by
\* one with everything that changes the lease.
Stands(i) ==
  /\ i \in DOMAIN requests'
  /\ requests'[i].key = requests[i].key /\ requests'[i].body = requests[i].body
  /\ requests'[i].version = requests[i].version
  /\ requests[i].state \notin ActiveStates => requests'[i].state = requests[i].state
  /\ requests[i].state # "executed" /\ requests'[i].state = "executed"
     => requests[i].state = "approved" /\ requests[i].version = lease.version

HistoryStands == [][ /\ \A i \in DOMAIN requests : Stands(i)
                     /\ lease' # lease => lease'.version = lease.version + 1 ]_vars

\* A request that nothing touches stands.
LEMMA UntouchedStands == ASSUME requests' = requests PROVE \A i \in DOMAIN requests : Stands(i)
BY DEF Stands

\* A move from an active state leaves the requests standing.
LEMMA MovesStand ==
  ASSUME TypeOK, NEW j \in DOMAIN requests, NEW from \in ActiveStates, NEW to \in States,
         Moves(j, from, to),
         to = "executed" => from = "approved" /\ requests[j].version = lease.version
  PROVE  \A i \in DOMAIN requests : Stands(i)
<1>1. from \in States
  BY DEF States
<1>2. /\ DOMAIN requests' = DOMAIN requests /\ requests[j].state = from
      /\ \A i \in DOMAIN requests :
           /\ requests'[i].key = requests[i].key /\ requests'[i].body = requests[i].body
           /\ requests'[i].version = requests[i].version
           /\ requests'[i].state = IF i = j THEN to ELSE requests[i].state
  BY <1>1, MovesFacts
<1> QED BY <1>2 DEF Stands

\* Every step leaves the requests standing, and counts the changes of the lease.
LEMMA StepsStand ==
  ASSUME TypeOK, [Next]_vars
  PROVE  /\ \A i \in DOMAIN requests : Stands(i)
         /\ lease' # lease => lease'.version = lease.version + 1
<1> DEFINE Stand == /\ \A i \in DOMAIN requests : Stands(i)
                    /\ lease' # lease => lease'.version = lease.version + 1
<1>1. ASSUME requests' = requests, lease' = lease PROVE Stand
  BY <1>1, UntouchedStands
<1>2. ASSUME NEW c \in Calls, Create(c, lease.version), UNCHANGED lease PROVE Stand
  <2>1. requests \in Seq(Request)
    BY DEF TypeOK
  <2>2. requests' = requests \/ \E r : requests' = Append(requests, r)
    BY <1>2 DEF Create
  <2>3. \A i \in DOMAIN requests : i \in DOMAIN requests' /\ requests'[i] = requests[i]
    BY <2>1, <2>2
  <2> QED BY <1>2, <2>3 DEF Stands
<1>3. ASSUME NEW i \in DOMAIN requests, NEW verdict \in {"approved"} \cup RetryableStates,
             Decide(i, verdict), UNCHANGED lease
      PROVE  Stand
  <2>1. Moves(i, "pending", verdict) /\ "pending" \in ActiveStates
        /\ verdict \in States /\ verdict # "executed"
    BY <1>3 DEF Decide, States, ActiveStates, RetryableStates
  <2> QED BY <1>3, <2>1, MovesStand
<1>4. ASSUME NEW i \in DOMAIN requests, Execute(i) PROVE Stand
  <2>1. Moves(i, "approved", "executed") /\ requests[i].version = lease.version
        /\ "approved" \in ActiveStates /\ "executed" \in States
    BY <1>4 DEF Execute, States, ActiveStates
  <2>2. \A j \in DOMAIN requests : Stands(j)
    BY <2>1, MovesStand
  <2>3. lease' = [lease EXCEPT !.status = Effect(i), !.version = lease.version + 1]
    BY <1>4 DEF Execute, Writes
  <2>4. lease'.version = lease.version + 1
    BY <2>3 DEF TypeOK, Lease
  <2> QED BY <2>2, <2>4
<1>5. ASSUME NEW i \in DOMAIN requests, RefuseExecution(i) PROVE Stand
  <2>1. Moves(i, "approved", "failed") /\ "approved" \in ActiveStates /\ "failed" \in States
        /\ UNCHANGED lease
    BY <1>5 DEF RefuseExecution, States, ActiveStates
  <2> QED BY <2>1, MovesStand
<1>6. CASE Submit \/ Sign \/ Activate
  <2>1. UNCHANGED requests
    BY <1>6 DEF Submit, Sign, Activate
  <2>2. lease'.version = lease.version + 1
    BY <1>6 DEF Submit, Sign, Activate, Writes, TypeOK, Lease
  <2> QED BY <2>1, <2>2, UntouchedStands
<1>7. ASSUME NEW c \in Calls, Ask(c) \/ Throw(c) PROVE Stand
  BY <1>1, <1>7 DEF Ask, Throw, ReadIdentity
<1>8. ASSUME NEW c \in Calls, ReadActive(c, lease.version), UNCHANGED lease
      PROVE  Stand
  BY <1>1, <1>8 DEF ReadActive
<1>9. CASE LayerStep /\ UNCHANGED <<use, requests, lease>>
  BY <1>1, <1>9
<1>10. CASE UNCHANGED vars
  BY <1>1, <1>10 DEF vars
<1> QED BY <1>2, <1>3, <1>4, <1>5, <1>6, <1>7, <1>8, <1>9, <1>10 DEF Next

\* No step rewrites a request or reopens one that has ended, and none changes the lease
\* without raising its version.
THEOREM SpecHistoryStands == Spec => HistoryStands
<1> DEFINE Stand == /\ \A i \in DOMAIN requests : Stands(i)
                    /\ lease' # lease => lease'.version = lease.version + 1
<1>1. TypeOK /\ [Next]_vars => [Stand]_vars
  BY StepsStand
<1> QED BY <1>1, SpecTypeOK, PTL DEF Spec, HistoryStands

\* A request for terms of the lease that have changed since.
OutOfDate(i) == /\ i \in DOMAIN requests /\ requests[i].version < lease.version
                /\ requests[i].state # "executed"

\* What was asked for under older terms is never carried out, even if it has been or
\* will be approved.
THEOREM OutOfDateTheorem ==
  ASSUME NEW i
  PROVE  Spec => [](OutOfDate(i) => []OutOfDate(i))
<1>1. TypeOK /\ OutOfDate(i) /\ [Next]_vars => OutOfDate(i)'
  <2> SUFFICES ASSUME TypeOK, OutOfDate(i), [Next]_vars PROVE OutOfDate(i)'
    OBVIOUS
  <2>1. Stands(i) /\ (lease' # lease => lease'.version = lease.version + 1)
    BY StepsStand DEF OutOfDate
  <2>2. requests[i].version \in Nat /\ lease.version \in Nat
    BY RequestFields, VersionAssumption DEF OutOfDate, TypeOK, Lease
  <2>3. requests[i].version < lease'.version
    BY <2>1, <2>2 DEF OutOfDate
  <2> QED BY <2>1, <2>2, <2>3 DEF OutOfDate, Stands
<1> HIDE DEF OutOfDate
<1> QED BY <1>1, SpecTypeOK, PTL DEF Spec
=============================================================================

--------------------------- MODULE IdempotentWrites ---------------------------
(***************************************************************************)
(* The idempotency layer in front of the write operations of the API: the  *)
(* IdempotencyInterceptor reserves a row of sys_idempotency_request for    *)
(* the X-Idempotency-Key of a call, runs the handler, and keeps its answer *)
(* in the row for the repetitions of the call.  Rows are reserved for a    *)
(* limited time only and removed by a timer; nothing fences a call whose   *)
(* reservation another call has taken over.  There are no clocks: a        *)
(* reservation may have run out whenever its row is looked at.             *)
(*                                                                         *)
(* A key stands for one user, one path and one X-Idempotency-Key, a body   *)
(* for what a client sends, and as whom.  The handler is left to the       *)
(* module that extends this one: it takes a call from "begun" to "done",   *)
(* with its result, or to "error".                                         *)
(***************************************************************************)
EXTENDS Integers

CONSTANTS Calls,    \* HTTP requests a server is working on at the same time
          Keys,     \* idempotency keys, each of one user and path
          Bodies,   \* what clients send under a key
          MaxRows   \* bound: how often the row of a key is inserted

ASSUME RowsAssumption == MaxRows \in Nat \ {0}

VARIABLES row,      \* row[k]: the reservation of key k
          found,    \* the expired row the cleanup has listed and will delete, if any
          call,     \* call[c]: the command the server handles as c
          told      \* the answers given: a history that nothing reads

layer == <<row, found, call, told>>

NoResult == 0
NoBody == "none"
ASSUME BodiesAssumption == NoBody \notin Bodies

Idle == [at |-> "idle"]

\* A row is absent, or succeeded with a result, or open: processing under a reservation
\* that may have run out, or failed.  Open rows are reserved anew alike.
AbsentRow(id) == [id |-> id, body |-> NoBody, result |-> NoResult]
Absent(k) == row[k].body = NoBody
Succeeded(k) == row[k].result # NoResult

LayerInit == /\ row = [k \in Keys |-> AbsentRow(0)]
             /\ found = {}
             /\ call = [c \in Calls |-> Idle]
             /\ told = {}

Goes(c, at) == call' = [call EXCEPT ![c].at = at]
Returns(c, r) == call' = [call EXCEPT ![c].at = "done", ![c].result = r]
Ends(c) == call' = [call EXCEPT ![c] = Idle]
Tells(k, b, r) == told' = told \cup {[key |-> k, body |-> b, result |-> r]}

\* insertProcessing: nobody holds the key.
InsertProcessing(k, b) ==
  /\ Absent(k) /\ row[k].id < MaxRows
  /\ row' = [row EXCEPT ![k] = [id |-> @.id + 1, body |-> b, result |-> NoResult]]

\* resolveExisting: the same command failed, or whoever reserved it has taken longer
\* than five minutes.
TakeOver(k, b) == row[k].body = b /\ ~Succeeded(k) /\ UNCHANGED row

\* The row of a key is locked from the lookup to the commit, so tryBegin is one step.
\* A call that meets another body, or a live reservation, is refused and changes nothing.
TryBegin(c, k, b) ==
  /\ call[c].at = "idle"
  /\ InsertProcessing(k, b) \/ TakeOver(k, b)
  /\ call' = [call EXCEPT ![c] = [at |-> "begun", key |-> k, body |-> b,
                                  row |-> row'[k].id, result |-> NoResult]]
  /\ UNCHANGED <<found, told>>

\* The repeated call is answered from the row.
AnswerFromCache(k, b) ==
  /\ Succeeded(k) /\ row[k].body = b
  /\ Tells(k, b, row[k].result)
  /\ UNCHANGED <<row, found, call>>

\* markSucceeded and markFailed write the row by its id alone, whoever reserved it by
\* now; they hit nothing if it was deleted.
Mark(c, result) ==
  LET k == call[c].key
  IN  row' = IF ~Absent(k) /\ row[k].id = call[c].row
             THEN [row EXCEPT ![k].result = result]
             ELSE row

\* The handler has returned: its answer is kept in the row, unless that fails, and sent.
Succeed(c) ==
  /\ call[c].at = "done"
  /\ Mark(c, call[c].result) \/ UNCHANGED row
  /\ Tells(call[c].key, call[c].body, call[c].result)
  /\ Ends(c) /\ UNCHANGED found

\* The handler has thrown, or the process has died and leaves the row as it is.
Fail(c) ==
  /\ call[c].at = "error"
  /\ Mark(c, NoResult) \/ UNCHANGED row
  /\ Ends(c) /\ UNCHANGED <<found, told>>

\* cleanupExpired lists expired rows: seven days have passed since they were written,
\* which is longer than any handler runs.  Rows are independent: one is enough.
CleanupFinds(k) ==
  /\ found = {} /\ ~Absent(k)
  /\ \A c \in Calls : call[c].at # "idle" => call[c].key # k
  /\ found' = {<<k, row[k].id>>}
  /\ UNCHANGED <<row, call, told>>

\* Then it deletes them by their ids.
CleanupDeletes ==
  /\ found # {}
  /\ row' = [k \in Keys |-> IF <<k, row[k].id>> \in found THEN AbsentRow(row[k].id) ELSE row[k]]
  /\ found' = {}
  /\ UNCHANGED <<call, told>>

LayerStep ==
  \/ \E c \in Calls : \/ \E k \in Keys, b \in Bodies : TryBegin(c, k, b)
                      \/ Succeed(c) \/ Fail(c)
  \/ \E k \in Keys : CleanupFinds(k) \/ \E b \in Bodies : AnswerFromCache(k, b)
  \/ CleanupDeletes
=============================================================================

---------------------------- MODULE LeasingLedger ----------------------------
(***************************************************************************)
(* The receivables of ONE park tenant and what changes them: payments that  *)
(* are applied, waivers that are approved, invoices, and the editors of the *)
(* rows (leasing-payments, -waivers, -invoices, -receivables and            *)
(* -contract-changes).  Payments, waivers and invoices are settled in a     *)
(* transaction that locks the receivables in the order of their ids, then   *)
(* its own row, and checks again what was checked before: one action.       *)
(* Editors lock nothing.  They read a row and decide; later TypeORM reads   *)
(* it again to find the columns that differ from what they decided, and     *)
(* updates these, without a version and after waiting for the row's lock:   *)
(* three actions, anything in between.  So does an invoice that is updated  *)
(* without its allocations: it locks, but trusts what it has read before.   *)
(* Rows of a receivable are those that generation inserts; late fees are    *)
(* zero there.  Overdue days only decide whether "generated" and "partial"  *)
(* read "overdue", and are left out.                                        *)
(***************************************************************************)
EXTENDS Integers, SequencesExt

CONSTANTS Receivables, Payments, Waivers, Invoices,
          Editors,     \* requests that read a row and write it later
          Dues,        \* amounts due, and amounts of payments
          Amounts,     \* amounts of applications, waivers and invoice allocations
          Tolerance,   \* AMOUNT_TOLERANCE of invoices
          MaxApplied,  \* bound: what a payment pays of a receivable
          MaxInvoiced  \* bound: what an invoice allocates in all

\* Of a tenant there are finitely many rows.
ASSUME LedgerAssumption ==
  /\ IsFiniteSet(Receivables) /\ IsFiniteSet(Payments)
  /\ IsFiniteSet(Waivers) /\ IsFiniteSet(Invoices)
  /\ Dues \cup Amounts \subseteq Nat \ {0}
  /\ Tolerance \in Nat /\ MaxApplied \in Nat /\ MaxInvoiced \in Nat
  /\ Receivables \cap Payments = {} /\ Invoices \cap (Receivables \cup Payments) = {}
  /\ "none" \notin Receivables \cup Payments \cup Invoices

VARIABLES
  recv,     \* biz_leasing_receivable
  pay,      \* biz_leasing_payment
  applied,  \* cents in rel_leasing_payment_receivable, per payment and receivable
  waiver,   \* biz_leasing_waiver
  invoice,  \* biz_leasing_invoice with rel_leasing_invoice_receivable
  memory    \* what each editor has read, wants to write, and which columns it will

books == <<recv, pay, applied, waiver, invoice>>
vars == <<books, memory>>

Row == [due : Dues, paid : Nat, waived : Nat, remain : Nat, deleted : BOOLEAN,
        status : {"generated", "partial", "paid", "waived", "void", "canceled"},
        invoiced : {"none", "partial", "invoiced"}]
Payment == [amount : Dues, unapplied : Nat, deleted : BOOLEAN]
Waiver == [status : {"none", "pending", "approved", "rejected"},
           recv : Receivables, amount : Amounts]
\* counted: saved, neither deleted nor of status void
Invoice == [alloc : [Receivables -> Nat], counted : BOOLEAN, deleted : BOOLEAN]
Idle == [row |-> "none", read |-> <<>>, write |-> <<>>, columns |-> {}]

\* Every row stays within its columns and CHECK constraints: nothing negative, and no
\* more unapplied than was paid.
TypeOK ==
  /\ recv \in [Receivables -> Row]
  /\ pay \in [Payments -> Payment]
  /\ \A p \in Payments : pay[p].unapplied <= pay[p].amount
  /\ applied \in [Payments -> [Receivables -> 0 .. MaxApplied]]
  /\ waiver \in [Waivers -> Waiver]
  /\ invoice \in [Invoices -> Invoice]

NewRow(due) == [due |-> due, paid |-> 0, waived |-> 0, remain |-> due, deleted |-> FALSE,
                status |-> "generated", invoiced |-> "none"]

\* Rows as generateForContract inserts them, payments as create does.
Init ==
  /\ recv \in [Receivables -> {NewRow(due) : due \in Dues}]
  /\ pay \in [Payments -> {[amount |-> a, unapplied |-> a, deleted |-> FALSE] : a \in Dues}]
  /\ applied = [p \in Payments |-> [r \in Receivables |-> 0]]
  /\ waiver \in [Waivers -> {[status |-> "none", recv |-> r, amount |-> a] :
                             r \in Receivables, a \in Amounts}]
  /\ invoice = [i \in Invoices |-> [alloc |-> [r \in Receivables |-> 0],
                                    counted |-> FALSE, deleted |-> FALSE]]
  /\ memory = [e \in Editors |-> Idle]

-----------------------------------------------------------------------------
(* What the services derive.                                                *)

AppliedTo(r) == SumFunction([p \in Payments |-> applied[p][r]])
AppliedFrom(p) == SumFunction(applied[p])

WaivedFrom(r) ==
  SumFunctionOnSet([w \in Waivers |-> waiver[w].amount],
                   {w \in Waivers : waiver[w].recv = r /\ waiver[w].status = "approved"})

InvoicedIn(inv, r, except) ==
  SumFunctionOnSet([i \in Invoices |-> inv[i].alloc[r]], {i \in Invoices \ except : inv[i].counted})

Untouched(row) == row.paid = 0 /\ row.waived = 0 /\ row.invoiced = "none"

Remain(row) == row.due - row.paid - row.waived

\* deriveStatus of the receivables service and deriveReceivableStatus of the payments
\* and waivers services differ in which of two settled statuses they choose.
Derived(row, settled) ==
  CASE row.remain = 0 -> settled
    [] row.remain > 0 /\ (row.paid > 0 \/ row.waived > 0) -> "partial"
    [] OTHER -> "generated"
SettledStatus(row) == IF row.waived >= row.due + row.paid THEN "waived" ELSE "paid"

InvoiceStatus(sum, due) == CASE sum = 0 -> "none"
                             [] sum > 0 /\ sum + Tolerance >= due -> "invoiced"
                             [] OTHER -> "partial"

-----------------------------------------------------------------------------
(* Transactions under the locks of the receivables they touch.              *)

\* Mutant: an application that trusts the check made before the locks.
CoversAny(r, a) == ~recv[r].deleted
\* The conservation assertion of apply refuses a row whose remain is not what is left.
Covers(r, a) == ~recv[r].deleted /\ a <= recv[r].remain /\ recv[r].remain = Remain(recv[r])

Paying(row, a) ==
  LET paid == [row EXCEPT !.paid = @ + a, !.remain = @ - a]
  IN  [paid EXCEPT !.status = Derived(paid, "paid")]

\* apply: a payment is spread over one or more receivables.
Apply(p, parts) ==
  /\ ~pay[p].deleted /\ SumFunction(parts) <= pay[p].unapplied
  /\ \A r \in DOMAIN parts : Covers(r, parts[r]) /\ applied[p][r] + parts[r] <= MaxApplied
  /\ recv' = [r \in Receivables |-> IF r \in DOMAIN parts THEN Paying(recv[r], parts[r]) ELSE recv[r]]
  /\ applied' = [applied EXCEPT ![p] =
       [r \in Receivables |-> @[r] + IF r \in DOMAIN parts THEN parts[r] ELSE 0]]
  /\ pay' = [pay EXCEPT ![p].unapplied = @ - SumFunction(parts)]
  /\ UNCHANGED <<waiver, invoice, memory>>

CanWaive(r, a) == /\ ~recv[r].deleted /\ a <= recv[r].remain
                  /\ recv[r].status \notin {"paid", "waived", "void"}

WaiverCreate(w) ==
  /\ waiver[w].status = "none" /\ CanWaive(waiver[w].recv, waiver[w].amount)
  /\ waiver' = [waiver EXCEPT ![w].status = "pending"]
  /\ UNCHANGED <<recv, pay, applied, invoice, memory>>

\* Mutant: an approval that reads the waiver's status before it locks the waiver.
Decidable(w) == waiver[w].status \in {"pending", "approved"}
Undecided(w) == waiver[w].status = "pending"

\* Mutant: a waiver that leaves what remains as it was.
WaivingPaidIn(row, a) ==
  LET waived == [row EXCEPT !.waived = @ + a]
  IN  [waived EXCEPT !.status = Derived(waived, "waived")]

Waiving(row, a) ==
  LET waived == [row EXCEPT !.waived = @ + a, !.remain = Remain(row) - a]
  IN  [waived EXCEPT !.status = Derived(waived, "waived")]

WaiverApprove(w) ==
  LET r == waiver[w].recv
      a == waiver[w].amount
  IN  /\ Undecided(w) /\ CanWaive(r, a) /\ a <= Remain(recv[r])
      /\ recv' = [recv EXCEPT ![r] = Waiving(@, a)]
      /\ waiver' = [waiver EXCEPT ![w].status = "approved"]
      /\ UNCHANGED <<pay, applied, invoice, memory>>

WaiverReject(w) ==
  /\ waiver[w].status = "pending"
  /\ waiver' = [waiver EXCEPT ![w].status = "rejected"]
  /\ UNCHANGED <<recv, pay, applied, invoice, memory>>

\* recalculateReceivableInvoiceStatuses
Invoiced(inv, touched) ==
  recv' = [r \in Receivables |->
             IF r \in touched /\ ~recv[r].deleted
             THEN [recv[r] EXCEPT !.invoiced = InvoiceStatus(InvoicedIn(inv, r, {}), recv[r].due)]
             ELSE recv[r]]

Allocated(alloc) == {r \in Receivables : alloc[r] > 0}

\* validateAllocations: what the other invoices leave of the receivables is enough.
Room(i, alloc) ==
  \A r \in Allocated(alloc) :
    ~recv[r].deleted /\ InvoicedIn(invoice, r, {i}) + alloc[r] <= recv[r].due + Tolerance

\* create, and update with allocations, which are validated and replaced; the status a
\* client gives may be void.
InvoiceSave(i, alloc, counted) ==
  LET new == [invoice EXCEPT ![i] = [alloc |-> alloc, counted |-> counted, deleted |-> FALSE]]
  IN  /\ ~invoice[i].deleted /\ Allocated(alloc) # {} /\ SumFunction(alloc) <= MaxInvoiced
      /\ Room(i, alloc)
      /\ invoice' = new
      /\ Invoiced(new, Allocated(invoice[i].alloc) \cup Allocated(alloc))
      /\ UNCHANGED <<pay, applied, waiver, memory>>

\* softDelete of an invoice
InvoiceDelete(i) ==
  LET new == [invoice EXCEPT ![i].deleted = TRUE, ![i].counted = FALSE,
                             ![i].alloc = [r \in Receivables |-> 0]]
  IN  /\ Allocated(invoice[i].alloc) # {}
      /\ invoice' = new
      /\ Invoiced(new, Allocated(invoice[i].alloc))
      /\ UNCHANGED <<pay, applied, waiver, memory>>

\* A checkout cancels the receivables of the time after it: nothing remains to be paid.
Cancel(r) ==
  /\ ~recv[r].deleted /\ recv[r].remain > 0 /\ recv[r].status # "canceled"
  /\ Untouched(recv[r])
  /\ recv' = [recv EXCEPT ![r].status = "canceled", ![r].remain = 0]
  /\ UNCHANGED <<pay, applied, waiver, invoice, memory>>

\* applyFutureReceivableAdjustments: a contract change that takes effect sets new dues.
Adjust(r, due) ==
  /\ ~recv[r].deleted /\ Untouched(recv[r]) /\ recv[r].status \in {"generated", "canceled"}
  /\ recv' = [recv EXCEPT ![r] = NewRow(due)]
  /\ UNCHANGED <<pay, applied, waiver, invoice, memory>>

-----------------------------------------------------------------------------
(* Editors: each handler is a read that decides what will be written, and save. *)

\* What an editor reads of a row: a payment with the sum of its applications, of an
\* invoice its allocations.
View(x) == CASE x \in Receivables -> recv[x]
             [] x \in Payments -> [payment |-> pay[x], sum |-> AppliedFrom(x)]
             [] OTHER -> invoice[x].alloc

Reads(e, x, write) ==
  /\ memory[e] = Idle
  /\ memory' = [memory EXCEPT ![e] = [row |-> x, read |-> View(x), write |-> write, columns |-> {}]]
  /\ UNCHANGED books

Edited(row) == LET new == [row EXCEPT !.remain = Remain(row)]
               IN  [new EXCEPT !.status = Derived(new, SettledStatus(new))]

\* update of a receivable's due date or remark: the status of a canceled receivable is
\* not among those that are refused.
Edit(e, r) ==
  /\ ~recv[r].deleted /\ Untouched(recv[r]) /\ recv[r].status \in {"generated", "canceled"}
  /\ Reads(e, r, Edited(recv[r]))

\* softDelete of a receivable
Void(e, r) ==
  /\ ~recv[r].deleted /\ Untouched(recv[r]) /\ recv[r].status \in {"generated", "canceled"}
  /\ AppliedTo(r) = 0
  /\ Reads(e, r, [recv[r] EXCEPT !.deleted = TRUE, !.status = "void"])

\* Mutant: a regeneration of whatever exists.
Existing(row) == ~row.deleted
NoActivity(row) == ~row.deleted /\ Untouched(row)

\* generateForContract with force_regenerate: what exists is set to the contract's terms.
Regenerate(e, r, due) == NoActivity(recv[r]) /\ Reads(e, r, NewRow(due))

\* recalculateOverdue saves the rows it has read one by one, here an editor each:
\* overdue days go on for what remains, settled and canceled rows are derived anew.
Recalculate(e, r) ==
  LET status == Derived(recv[r], SettledStatus(recv[r]))
  IN  /\ ~recv[r].deleted
      /\ recv[r].remain > 0 \/ recv[r].status # status
      /\ Reads(e, r, [recv[r] EXCEPT !.status = status])

\* update of a payment: its new amount covers what was applied.
EditPayment(e, p, a) ==
  /\ ~pay[p].deleted /\ a >= AppliedFrom(p)
  /\ Reads(e, p, [amount |-> a, unapplied |-> a - AppliedFrom(p), deleted |-> FALSE])

\* softDelete of a payment
VoidPayment(e, p) ==
  /\ ~pay[p].deleted /\ pay[p].unapplied = pay[p].amount /\ AppliedFrom(p) = 0
  /\ Reads(e, p, [pay[p] EXCEPT !.deleted = TRUE])

\* The row that an editor of a receivable or a payment saves.
Stored(x) == IF x \in Receivables THEN recv[x] ELSE pay[x]

Saving(e) == memory[e].row \in Receivables \cup Payments

\* save reads the row again, locking nothing, and remembers the columns that differ, among
\* them the status of what may read overdue by now.  If none does it has nothing to do.
SaveCompare(e) ==
  LET write == memory[e].write
      differing == {c \in DOMAIN write : write[c] # Stored(memory[e].row)[c]}
      dated == IF memory[e].row \in Receivables /\ write.status \in {"generated", "partial"}
               THEN {"status"} ELSE {}
  IN  /\ Saving(e) /\ memory[e].columns = {}
      /\ \E columns \in {differing, differing \cup dated} :
           memory' = [memory EXCEPT ![e] = IF columns = {} THEN Idle ELSE [@ EXCEPT !.columns = columns]]
      /\ UNCHANGED books

Written(row, write, columns) == [c \in DOMAIN row |-> IF c \in columns THEN write[c] ELSE row[c]]

\* The UPDATE of these columns, once nobody else holds the row's lock; what the CHECK of a
\* payment refuses is given up.
SaveUpdate(e) ==
  LET x == memory[e].row
      new == Written(Stored(x), memory[e].write, memory[e].columns)
  IN  /\ Saving(e) /\ memory[e].columns # {}
      /\ x \in Payments => new.unapplied <= new.amount
      /\ recv' = IF x \in Receivables THEN [recv EXCEPT ![x] = new] ELSE recv
      /\ pay' = IF x \in Payments THEN [pay EXCEPT ![x] = new] ELSE pay
      /\ memory' = [memory EXCEPT ![e] = Idle]
      /\ UNCHANGED <<applied, waiver, invoice>>

\* update of an invoice without allocations reads those it has ...
EditInvoice(e, i) == /\ ~invoice[i].deleted /\ Allocated(invoice[i].alloc) # {}
                     /\ Reads(e, i, invoice[i].alloc)

\* ... and, under the locks, validates what it has read but keeps what is there by now.
\* The ids that it compares were read after the amounts, maybe just before the locks.
\* The status, the client's or the one the invoice had when it was read, is any.
InvoiceUpdate(e, counted) ==
  LET i == memory[e].row
      new == [invoice EXCEPT ![i].counted = counted]
  IN  /\ i \in Invoices /\ ~invoice[i].deleted /\ Room(i, memory[e].write)
      /\ invoice' = new
      /\ Invoiced(new, Allocated(invoice[i].alloc) \cup Allocated(memory[e].write))
      /\ memory' = [memory EXCEPT ![e] = Idle]
      /\ UNCHANGED <<pay, applied, waiver>>

\* The request ends without an update: a check fails later, or the process dies.
GiveUp(e) == /\ memory[e] # Idle
             /\ memory' = [memory EXCEPT ![e] = Idle]
             /\ UNCHANGED books

-----------------------------------------------------------------------------
Settle ==
  \/ \E p \in Payments, S \in SUBSET Receivables \ {{}} : \E parts \in [S -> Amounts] : Apply(p, parts)
  \/ \E w \in Waivers : WaiverCreate(w) \/ WaiverApprove(w) \/ WaiverReject(w)
  \/ \E i \in Invoices :
       \/ \E alloc \in [Receivables -> {0} \cup Amounts \cup Dues], counted \in BOOLEAN : InvoiceSave(i, alloc, counted)
       \/ InvoiceDelete(i)
  \/ \E r \in Receivables : Cancel(r) \/ \E due \in Dues : Adjust(r, due)

EditorStep(e) ==
  \/ \E r \in Receivables : \/ Edit(e, r) \/ Void(e, r) \/ Recalculate(e, r)
                             \/ \E due \in Dues : Regenerate(e, r, due)
  \/ \E p \in Payments : VoidPayment(e, p) \/ \E a \in Dues : EditPayment(e, p, a)
  \/ SaveCompare(e) \/ SaveUpdate(e)
  \/ \E i \in Invoices : EditInvoice(e, i)
  \/ \E counted \in BOOLEAN : InvoiceUpdate(e, counted)
  \/ GiveUp(e)

Next == Settle \/ \E e \in Editors : EditorStep(e)

Spec == Init /\ [][Next]_vars

-----------------------------------------------------------------------------
(* Properties.                                                              *)

\* A row agrees with itself: what remains is what is due less what was paid and waived, and
\* the status says the same, but for a receivable canceled by a checkout, which a
\* recalculation calls paid.
Consistent(row) ==
  /\ row.remain = Remain(row)
     \/ (row.remain = 0 /\ row.paid + row.waived = 0 /\ row.status \in {"canceled", "paid", "void"})
  /\ row.deleted <=> row.status = "void"
  /\ row.status = "partial" <=> ~row.deleted /\ row.remain > 0 /\ row.paid + row.waived > 0
  /\ row.status = "generated" <=> ~row.deleted /\ row.remain > 0 /\ row.paid + row.waived = 0

\* A receivable agrees with the payments, waivers and invoices that refer to it.
RecvBacked(r) ==
  LET invoiced == InvoicedIn(invoice, r, {})
  IN  /\ recv[r].deleted => Untouched(recv[r])
      /\ recv[r].paid = AppliedTo(r) /\ recv[r].waived = WaivedFrom(r)
      /\ recv[r].invoiced = InvoiceStatus(invoiced, recv[r].due)
      /\ invoiced <= recv[r].due + Tolerance

PayBacked(p) == /\ pay[p].unapplied = pay[p].amount - AppliedFrom(p)
                /\ pay[p].deleted => AppliedFrom(p) = 0

\* An editor updates row x, which is not as it was read, or was not when it was compared,
\* so that the update leaves another row than the one decided on.
StaleSave(x) == \E e \in Editors :
  /\ memory[e].row = x /\ memory'[e] = Idle
  /\ memory[e].read # View(x) \/ Stored(x)' # memory[e].write

\* An invoice is updated that no longer allocates to r what was read and validated.
StaleInvoice(r) == \E e \in Editors, i \in Invoices :
  /\ memory[e].row = i /\ memory'[e] = Idle
  /\ memory[e].read[r] # invoice[i].alloc[r]

\* A row agrees with itself until a stale save mixes what two of its writers decided.
MixedOnlyByStaleSave ==
  [][ \A r \in Receivables : Consistent(recv[r]) /\ ~Consistent(recv'[r]) => StaleSave(r) ]_books

\* Not a cent is lost or made up under the locks: only an editor that saves a row which
\* changed under its hands can part a receivable or a payment from what refers to it, and
\* an invoice whose allocations changed while it was being updated.
DriftOnlyByStaleWrite ==
  [][ /\ \A r \in Receivables : ~RecvBacked(r)' => ~RecvBacked(r) \/ StaleSave(r) \/ StaleInvoice(r)
      /\ \A p \in Payments : ~PayBacked(p)' => ~PayBacked(p) \/ StaleSave(p) ]_books

\* Even in books that have drifted apart, paid and waived amounts shrink by a stale save only.
ShrinksOnlyByStaleSave ==
  [][ \A r \in Receivables :
        recv'[r].paid < recv[r].paid \/ recv'[r].waived < recv[r].waived => StaleSave(r) ]_books
=============================================================================

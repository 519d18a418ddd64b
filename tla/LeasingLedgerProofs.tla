------------------------ MODULE LeasingLedgerProofs ------------------------
(***************************************************************************)
(* Proofs about LeasingLedger, for any receivables, payments, waivers,      *)
(* invoices and editors.  Inv says of what an editor remembers of a row     *)
(* that it is consistent if the row was when it was read, and leaves its    *)
(* paid and waived amounts as the editor has read them.  BookInv adds the   *)
(* types and what editors leave alone besides; with the sums of             *)
(* SumTheorems it shows which steps part a row from those that refer to     *)
(* it, and that none does where nothing stale is written.                   *)
(***************************************************************************)
EXTENDS LeasingLedger, SumTheorems, TLAPS

GoodRow(row) == row \in Row /\ Consistent(row)

\* A row that is consistent if the one before it was.
Follows(row, new) == new \in Row /\ (Consistent(row) => Consistent(new))

\* An editor of a receivable decides on a row that follows the one it has read, with the
\* amounts it has read.
Prudent(m) == /\ Follows(m.read, m.write)
              /\ m.write.paid = m.read.paid /\ m.write.waived = m.read.waived

Remembers ==
  /\ memory = [e \in Editors |-> memory[e]]
  /\ \A e \in Editors : memory[e].row \in Receivables => Prudent(memory[e])

Inv == /\ recv \in [Receivables -> Row] /\ waiver \in [Waivers -> Waiver]
       /\ Remembers

----------------------------------------------------------------------------
(* What is computed of a row is consistent.                                 *)

\* A receivable is consistent when it is created ...
LEMMA NewRowGood == ASSUME NEW due \in Dues PROVE GoodRow(NewRow(due))
  BY LedgerAssumption DEF NewRow, GoodRow, Consistent, Remain, Row

\* A row by its columns.
LEMMA GoodColumns ==
  ASSUME NEW row \in Row, NEW x \in Row, x.due = row.due, x.remain = Remain(x),
         ~x.deleted, NEW settled \in {"paid", "waived"}, x.status = Derived(x, settled)
  PROVE  GoodRow(x)
BY LedgerAssumption DEF Derived, GoodRow, Consistent, Remain, Row

\* Money taken off what remains.
LEMMA PayingGood ==
  ASSUME NEW row \in Row, NEW a \in Amounts,
         ~row.deleted, a <= row.remain, row.remain = Remain(row)
  PROVE  GoodRow(Paying(row, a)) /\ Paying(row, a).paid = row.paid + a
         /\ Paying(row, a).waived = row.waived
<1> DEFINE paid == [row EXCEPT !.paid = @ + a, !.remain = @ - a]
           x == Paying(row, a)
<1>1. paid \in Row /\ paid.paid = row.paid + a /\ paid.remain = row.remain - a
      /\ paid.due = row.due /\ paid.waived = row.waived /\ paid.deleted = row.deleted
  <2>1. a \in Nat /\ row.remain - a \in Nat /\ row.paid + a \in Nat
    BY LedgerAssumption DEF Row
  <2> QED BY <2>1 DEF Row
<1>2. Derived(paid, "paid") \in {"paid", "partial", "generated"}
  BY DEF Derived
<1>3. x = [paid EXCEPT !.status = Derived(paid, "paid")]
  BY DEF Paying
<1> HIDE DEF paid, x
<1>4. /\ x \in Row /\ x.status = Derived(paid, "paid") /\ x.due = paid.due
      /\ x.paid = paid.paid /\ x.waived = paid.waived /\ x.remain = paid.remain
      /\ x.deleted = paid.deleted
  BY <1>1, <1>2, <1>3 DEF Row
<1>5. x.remain = Remain(x)
  BY <1>1, <1>4, LedgerAssumption DEF Remain, Row
<1>6. x.status = Derived(x, "paid")
  BY <1>4 DEF Derived
<1>7. GoodRow(x)
  BY <1>1, <1>4, <1>5, <1>6, GoodColumns
<1> QED BY <1>1, <1>4, <1>7 DEF x

\* ... when a waiver is approved ...
LEMMA WaivingGood ==
  ASSUME NEW row \in Row, NEW a \in Amounts, ~row.deleted, a <= Remain(row)
  PROVE  GoodRow(Waiving(row, a)) /\ Waiving(row, a).waived = row.waived + a
         /\ Waiving(row, a).paid = row.paid
<1> DEFINE waived == [row EXCEPT !.waived = @ + a, !.remain = Remain(row) - a]
           x == Waiving(row, a)
<1>1. waived \in Row /\ waived.waived = row.waived + a /\ waived.remain = Remain(row) - a
      /\ waived.due = row.due /\ waived.paid = row.paid /\ waived.deleted = row.deleted
  <2>1. a \in Nat /\ Remain(row) - a \in Nat /\ row.waived + a \in Nat
    BY LedgerAssumption DEF Row, Remain
  <2> HIDE DEF Remain
  <2> QED BY <2>1 DEF Row
<1>2. Derived(waived, "waived") \in {"waived", "partial", "generated"}
  BY DEF Derived
<1>3. x = [waived EXCEPT !.status = Derived(waived, "waived")]
  BY DEF Waiving
<1> HIDE DEF waived, x
<1>4. /\ x \in Row /\ x.status = Derived(waived, "waived") /\ x.due = waived.due
      /\ x.paid = waived.paid /\ x.waived = waived.waived /\ x.remain = waived.remain
      /\ x.deleted = waived.deleted
  BY <1>1, <1>2, <1>3 DEF Row
<1>5. x.remain = Remain(x)
  BY <1>1, <1>4, LedgerAssumption DEF Remain, Row
<1>6. x.status = Derived(x, "waived")
  BY <1>4 DEF Derived
<1>7. GoodRow(x)
  BY <1>1, <1>4, <1>5, <1>6, GoodColumns
<1> QED BY <1>1, <1>4, <1>7 DEF x

\* ... and when an editor decides on it ...
LEMMA EditedGood ==
  ASSUME NEW row \in Row, Untouched(row), ~row.deleted
  PROVE  GoodRow(Edited(row)) /\ Edited(row).paid = row.paid /\ Edited(row).waived = row.waived
<1> DEFINE new == [row EXCEPT !.remain = Remain(row)]
           x == Edited(row)
<1>1. Remain(row) \in Nat
  BY LedgerAssumption DEF Untouched, Remain, Row
<1>2. new \in Row /\ new.remain = Remain(row) /\ new.due = row.due /\ new.paid = row.paid
      /\ new.waived = row.waived /\ new.deleted = row.deleted
  BY <1>1 DEF Row
<1>3. SettledStatus(new) \in {"paid", "waived"}
  BY DEF SettledStatus
<1>4. x = [new EXCEPT !.status = Derived(new, SettledStatus(new))]
  BY DEF Edited
<1> HIDE DEF new, x
<1>5. Derived(new, SettledStatus(new)) \in {"paid", "waived", "partial", "generated"}
  BY <1>3 DEF Derived
<1>6. /\ x \in Row /\ x.status = Derived(new, SettledStatus(new)) /\ x.due = new.due
      /\ x.paid = new.paid /\ x.waived = new.waived /\ x.remain = new.remain
      /\ x.deleted = new.deleted
  BY <1>2, <1>4, <1>5 DEF Row
<1>7. x.remain = Remain(x)
  BY <1>2, <1>6 DEF Remain
<1>8. x.status = Derived(x, SettledStatus(new))
  BY <1>6 DEF Derived
<1>9. GoodRow(x)
  BY <1>2, <1>3, <1>6, <1>7, <1>8, GoodColumns
<1> QED BY <1>2, <1>6, <1>9 DEF x

\* ... and, if it was before, when it is recalculated ...
LEMMA RecalculatedFollows ==
  ASSUME NEW row \in Row, ~row.deleted
  PROVE  Follows(row, [row EXCEPT !.status = Derived(row, SettledStatus(row))])
<1>1. [row EXCEPT !.status = Derived(row, SettledStatus(row))] \in Row
  BY DEF Derived, SettledStatus, Row
<1>2. Consistent(row) => Consistent([row EXCEPT !.status = Derived(row, SettledStatus(row))])
  BY LedgerAssumption DEF Derived, SettledStatus, Consistent, Remain, Row
<1> QED BY <1>1, <1>2 DEF Follows

\* ... voided ...
LEMMA VoidedFollows ==
  ASSUME NEW row \in Row, Untouched(row), ~row.deleted, NEW write,
         write = [row EXCEPT !.deleted = TRUE, !.status = "void"]
  PROVE  Follows(row, write) /\ write.paid = row.paid /\ write.waived = row.waived
<1>1. /\ write \in Row /\ write.deleted /\ write.status = "void"
      /\ write.paid = row.paid /\ write.waived = row.waived
      /\ write.remain = row.remain /\ write.due = row.due
  BY DEF Row
<1>2. Consistent(row) => Consistent(write)
  BY <1>1 DEF Consistent, Remain, Untouched
<1> QED BY <1>1, <1>2 DEF Follows

\* ... or given another invoice status.
LEMMA InvoicedRows ==
  ASSUME recv \in [Receivables -> Row], NEW inv, NEW touched, Invoiced(inv, touched)
  PROVE  /\ recv' = [r \in Receivables |-> recv'[r]]
         /\ \A r \in Receivables :
              /\ Follows(recv[r], recv'[r])
              /\ recv'[r].paid = recv[r].paid /\ recv'[r].waived = recv[r].waived
<1>1. ASSUME NEW r \in Receivables
      PROVE  Follows(recv[r], recv'[r]) /\ recv'[r].paid = recv[r].paid
             /\ recv'[r].waived = recv[r].waived
  <2>1. CASE r \in touched /\ ~recv[r].deleted
    <3> DEFINE v == InvoiceStatus(InvoicedIn(inv, r, {}), recv[r].due)
    <3>1. v \in {"none", "partial", "invoiced"}
      BY DEF InvoiceStatus
    <3>2. recv'[r] = [recv[r] EXCEPT !.invoiced = v]
      BY <2>1 DEF Invoiced
    <3> HIDE DEF v
    <3> QED BY <3>1, <3>2 DEF Follows, Consistent, Remain, Row
  <2>2. CASE ~(r \in touched /\ ~recv[r].deleted)
    BY <2>2 DEF Invoiced, Follows
  <2> QED BY <2>1, <2>2
<1>2. recv' = [r \in Receivables |-> recv'[r]]
  BY DEF Invoiced
<1> QED BY <1>1, <1>2

\* A row that is updated in some columns is one still.
LEMMA WrittenRow ==
  ASSUME NEW row \in Row, NEW write \in Row, NEW columns
  PROVE  /\ Written(row, write, columns) \in Row
         /\ Written(row, write, columns).paid \in {row.paid, write.paid}
         /\ Written(row, write, columns).waived \in {row.waived, write.waived}
BY DEF Written, Row

LEMMA WrittenPayment ==
  ASSUME NEW row \in Payment, NEW write \in Payment, NEW columns
  PROVE  Written(row, write, columns) \in Payment
BY DEF Written, Payment

\* What an editor reads of the three tables.
LEMMA Views ==
  /\ \A r \in Receivables : View(r) = recv[r]
  /\ \A p \in Payments : View(p) = [payment |-> pay[p], sum |-> AppliedFrom(p)]
  /\ \A i \in Invoices : View(i) = invoice[i].alloc
BY LedgerAssumption DEF View

----------------------------------------------------------------------------
\* The transactions under the locks leave each row alone or settle a part of it.
LEMMA SettleRows ==
  ASSUME Inv, Settle
  PROVE  /\ recv' = [r \in Receivables |-> recv'[r]]
         /\ UNCHANGED memory
         /\ \A r \in Receivables :
              /\ Follows(recv[r], recv'[r])
              /\ recv'[r].paid >= recv[r].paid /\ recv'[r].waived >= recv[r].waived
<1> DEFINE Kept == /\ recv' = [r \in Receivables |-> recv'[r]]
                   /\ UNCHANGED memory
                   /\ \A r \in Receivables :
                        /\ Follows(recv[r], recv'[r])
                        /\ recv'[r].paid >= recv[r].paid /\ recv'[r].waived >= recv[r].waived
<1>0. ASSUME NEW r \in Receivables
      PROVE  recv[r] \in Row /\ Follows(recv[r], recv[r])
             /\ recv[r].paid \in Nat /\ recv[r].waived \in Nat
  BY DEF Inv, Follows, Row
<1>1. ASSUME NEW p \in Payments, NEW S \in SUBSET Receivables, NEW parts \in [S -> Amounts],
             Apply(p, parts)
      PROVE  Kept
  <2>1. /\ recv' = [r \in Receivables |->
                     IF r \in S THEN Paying(recv[r], parts[r]) ELSE recv[r]]
        /\ \A r \in S : Covers(r, parts[r])
    BY <1>1 DEF Apply
  <2>2. UNCHANGED memory
    BY <1>1 DEF Apply
  <2>3. ASSUME NEW r \in Receivables
        PROVE  Follows(recv[r], recv'[r]) /\ recv'[r].paid >= recv[r].paid
               /\ recv'[r].waived >= recv[r].waived
    <3>1. CASE r \in S
      <4>1. parts[r] \in Amounts /\ parts[r] \in Nat
        BY <3>1, LedgerAssumption
      <4>2. Covers(r, parts[r])
        BY <2>1, <3>1
      <4>3. recv'[r] = Paying(recv[r], parts[r])
        BY <2>1, <3>1
      <4>4. /\ GoodRow(Paying(recv[r], parts[r]))
            /\ Paying(recv[r], parts[r]).paid = recv[r].paid + parts[r]
            /\ Paying(recv[r], parts[r]).waived = recv[r].waived
        BY <1>0, <4>1, <4>2, PayingGood DEF Covers
      <4>5. Follows(recv[r], recv'[r])
        BY <4>3, <4>4 DEF GoodRow, Follows
      <4> QED BY <1>0, <4>1, <4>3, <4>4, <4>5
    <3>2. CASE r \notin S
      BY <1>0, <2>1, <3>2
    <3> QED BY <3>1, <3>2
  <2> QED BY <2>1, <2>2, <2>3
<1>2. ASSUME UNCHANGED <<recv, memory>> PROVE Kept
  BY <1>0, <1>2 DEF Inv
<1>3. ASSUME NEW w \in Waivers, WaiverApprove(w) PROVE Kept
  <2> DEFINE r == waiver[w].recv
             a == waiver[w].amount
  <2>1. recv' = [recv EXCEPT ![r] = Waiving(recv[r], a)] /\ UNCHANGED memory
    BY <1>3 DEF WaiverApprove
  <2>2. ~recv[r].deleted /\ a <= Remain(recv[r])
    BY <1>3 DEF WaiverApprove, CanWaive
  <2> HIDE DEF r, a
  <2>3. CASE r \in Receivables /\ a \in Amounts
    <3>1. a \in Nat
      BY <2>3, LedgerAssumption
    <3>2. /\ GoodRow(Waiving(recv[r], a)) /\ Waiving(recv[r], a).paid = recv[r].paid
          /\ Waiving(recv[r], a).waived = recv[r].waived + a
      BY <1>0, <2>2, <2>3, WaivingGood
    <3>3. recv'[r] = Waiving(recv[r], a) /\ \A q \in Receivables \ {r} : recv'[q] = recv[q]
      BY <2>1, <2>3 DEF Inv
    <3>4. recv' = [q \in Receivables |-> recv'[q]]
      BY <2>1 DEF Inv
    <3>5. Follows(recv[r], recv'[r])
      BY <3>2, <3>3 DEF GoodRow, Follows
    <3> QED BY <1>0, <2>1, <2>3, <3>1, <3>2, <3>3, <3>4, <3>5
  <2>4. r \in Receivables /\ a \in Amounts
    BY DEF Inv, r, a, Waiver
  <2> QED BY <2>3, <2>4
<1>4. ASSUME NEW inv, NEW touched, Invoiced(inv, touched), UNCHANGED memory PROVE Kept
  <2>1. /\ recv' = [r \in Receivables |-> recv'[r]]
        /\ \A r \in Receivables :
             /\ Follows(recv[r], recv'[r])
             /\ recv'[r].paid = recv[r].paid /\ recv'[r].waived = recv[r].waived
    BY <1>4, InvoicedRows DEF Inv
  <2> QED BY <1>0, <1>4, <2>1
<1>5. ASSUME NEW i \in Invoices, NEW alloc, NEW counted, InvoiceSave(i, alloc, counted) PROVE Kept
  BY <1>4, <1>5 DEF InvoiceSave
<1>6. ASSUME NEW i \in Invoices, InvoiceDelete(i) PROVE Kept
  BY <1>4, <1>6 DEF InvoiceDelete
<1>7. ASSUME NEW r \in Receivables, Cancel(r) PROVE Kept
  <2>1. recv' = [recv EXCEPT ![r].status = "canceled", ![r].remain = 0]
        /\ ~recv[r].deleted /\ Untouched(recv[r]) /\ UNCHANGED memory
    BY <1>7 DEF Cancel
  <2>2. recv'[r] = [recv[r] EXCEPT !.status = "canceled", !.remain = 0]
        /\ \A q \in Receivables \ {r} : recv'[q] = recv[q]
    BY <2>1 DEF Inv
  <2>3. Follows(recv[r], recv'[r]) /\ recv'[r].paid = recv[r].paid /\ recv'[r].waived = recv[r].waived
    <3> DEFINE x == recv'[r]
    <3>1. /\ recv[r] \in Row /\ recv[r].paid = 0 /\ recv[r].waived = 0 /\ ~recv[r].deleted
          /\ recv[r].paid \in Nat /\ recv[r].waived \in Nat
      BY <1>0, <2>1 DEF Untouched
    <3>2. x = [recv[r] EXCEPT !.status = "canceled", !.remain = 0]
      BY <2>2
    <3> HIDE DEF x
    <3>3. /\ x \in Row /\ x.status = "canceled" /\ x.remain = 0 /\ x.paid = 0 /\ x.waived = 0
          /\ ~x.deleted
      BY <3>1, <3>2 DEF Row
    <3>4. Follows(recv[r], x)
      BY <3>3 DEF Follows, Consistent
    <3> QED BY <3>1, <3>3, <3>4 DEF x
  <2>4. recv' = [q \in Receivables |-> recv'[q]]
    BY <2>1 DEF Inv
  <2>5. UNCHANGED memory
    BY <2>1
  <2>6. \A q \in Receivables \ {r} : recv'[q] = recv[q]
    BY <2>2
  <2> QED BY <1>0, <2>3, <2>4, <2>5, <2>6
<1>8. ASSUME NEW r \in Receivables, NEW due \in Dues, Adjust(r, due) PROVE Kept
  <2>1. recv' = [recv EXCEPT ![r] = NewRow(due)] /\ Untouched(recv[r]) /\ UNCHANGED memory
    BY <1>8 DEF Adjust
  <2>2. recv'[r] = NewRow(due) /\ \A q \in Receivables \ {r} : recv'[q] = recv[q]
    BY <2>1 DEF Inv
  <2>3. Follows(recv[r], recv'[r]) /\ recv'[r].paid = recv[r].paid /\ recv'[r].waived = recv[r].waived
    <3>1. GoodRow(recv'[r])
      BY <2>2, NewRowGood
    <3> QED BY <2>1, <2>2, <3>1 DEF Untouched, NewRow, GoodRow, Follows
  <2>4. recv' = [q \in Receivables |-> recv'[q]]
    BY <2>1 DEF Inv
  <2> QED BY <1>0, <2>1, <2>2, <2>3, <2>4
<1> QED
  BY <1>1, <1>2, <1>3, <1>5, <1>6, <1>7, <1>8 DEF Settle, WaiverCreate, WaiverReject

\* Every step keeps the waivers typed.
LEMMA WaiverNext ==
  ASSUME waiver \in [Waivers -> Waiver], [Next]_vars PROVE waiver' \in [Waivers -> Waiver]
<1>1. ASSUME NEW w \in Waivers, NEW s \in {"none", "pending", "approved", "rejected"},
             waiver' = [waiver EXCEPT ![w].status = s]
      PROVE  waiver' \in [Waivers -> Waiver]
  BY <1>1 DEF Waiver
<1>2. CASE Settle
  BY <1>1, <1>2 DEF Settle, Apply, WaiverCreate, WaiverApprove, WaiverReject, InvoiceSave,
                    InvoiceDelete, Cancel, Adjust
<1>3. ASSUME NEW e \in Editors, EditorStep(e) PROVE UNCHANGED waiver
  BY <1>3 DEF EditorStep, Edit, Void, Recalculate, Regenerate, EditPayment, VoidPayment,
              Reads, SaveCompare, SaveUpdate, EditInvoice, InvoiceUpdate, GiveUp, books
<1> QED BY <1>2, <1>3 DEF Next, vars, books

----------------------------------------------------------------------------
(* Editors.                                                                 *)

\* The two steps of editors that write.
Updates(e) == SaveUpdate(e) \/ \E counted \in BOOLEAN : InvoiceUpdate(e, counted)

\* An editor that reads a row prudently goes on to remember it so.
LEMMA ReadsGood ==
  ASSUME Inv, NEW e \in Editors, NEW x, NEW write, Reads(e, x, write),
         x \in Receivables => /\ Follows(recv[x], write)
                              /\ write.paid = recv[x].paid /\ write.waived = recv[x].waived
  PROVE  UNCHANGED recv /\ Remembers'
<1> DEFINE m == [row |-> x, read |-> View(x), write |-> write, columns |-> {}]
<1>1. UNCHANGED recv /\ memory' = [memory EXCEPT ![e] = m]
  BY DEF Reads, books
<1>2. memory'[e] = m /\ \A f \in Editors \ {e} : memory'[f] = memory[f]
  BY <1>1 DEF Inv, Remembers
<1>3. x \in Receivables => Prudent(m)
  BY Views DEF Prudent
<1>4. memory' = [f \in Editors |-> memory'[f]]
  BY <1>1 DEF Inv, Remembers
<1>5. m.row = x
  OBVIOUS
<1> HIDE DEF m
<1> QED BY <1>1, <1>2, <1>3, <1>4, <1>5 DEF Inv, Remembers

\* Every editor decides so.
LEMMA EditorReads ==
  ASSUME Inv, NEW e \in Editors, EditorStep(e), ~Updates(e)
  PROVE  UNCHANGED recv /\ Remembers'
<1>0. ASSUME NEW r \in Receivables PROVE recv[r] \in Row
  BY DEF Inv
<1>1. ASSUME NEW r \in Receivables, Edit(e, r) PROVE UNCHANGED recv /\ Remembers'
  <2>1. recv[r] \in Row /\ Untouched(recv[r]) /\ ~recv[r].deleted /\ Reads(e, r, Edited(recv[r]))
    BY <1>0, <1>1 DEF Edit
  <2>2. GoodRow(Edited(recv[r])) /\ Edited(recv[r]).paid = recv[r].paid
        /\ Edited(recv[r]).waived = recv[r].waived
    BY <2>1, EditedGood
  <2>3. Follows(recv[r], Edited(recv[r]))
    BY <2>2 DEF GoodRow, Follows
  <2> QED BY <2>1, <2>2, <2>3, ReadsGood
<1>2. ASSUME NEW r \in Receivables, Void(e, r) PROVE UNCHANGED recv /\ Remembers'
  <2> DEFINE write == [recv[r] EXCEPT !.deleted = TRUE, !.status = "void"]
  <2>1. recv[r] \in Row /\ ~recv[r].deleted /\ Untouched(recv[r]) /\ Reads(e, r, write)
    BY <1>0, <1>2 DEF Void
  <2>2. Follows(recv[r], write) /\ write.paid = recv[r].paid /\ write.waived = recv[r].waived
    BY <2>1, VoidedFollows
  <2> HIDE DEF write
  <2> QED BY <2>1, <2>2, ReadsGood
<1>3. ASSUME NEW r \in Receivables, Recalculate(e, r) PROVE UNCHANGED recv /\ Remembers'
  <2> DEFINE write == [recv[r] EXCEPT !.status = Derived(recv[r], SettledStatus(recv[r]))]
  <2>1. recv[r] \in Row /\ ~recv[r].deleted
    BY <1>0, <1>3 DEF Recalculate
  <2>2. Follows(recv[r], write)
    BY <2>1, RecalculatedFollows
  <2>3. write.paid = recv[r].paid /\ write.waived = recv[r].waived
    BY <2>1 DEF Row
  <2>4. Reads(e, r, write)
    BY <1>3 DEF Recalculate
  <2> HIDE DEF write
  <2> QED BY <2>2, <2>3, <2>4, ReadsGood
<1>4. ASSUME NEW r \in Receivables, NEW due \in Dues, Regenerate(e, r, due)
      PROVE  UNCHANGED recv /\ Remembers'
  <2>1. GoodRow(NewRow(due)) /\ NewRow(due).paid = 0 /\ NewRow(due).waived = 0
    BY NewRowGood DEF NewRow
  <2>2. Reads(e, r, NewRow(due)) /\ recv[r].paid = 0 /\ recv[r].waived = 0
    BY <1>4 DEF Regenerate, NoActivity, Untouched
  <2>3. Follows(recv[r], NewRow(due))
    BY <2>1 DEF GoodRow, Follows
  <2> QED BY <2>1, <2>2, <2>3, ReadsGood
<1>5. ASSUME NEW x \in Payments \cup Invoices, NEW write, Reads(e, x, write)
      PROVE  UNCHANGED recv /\ Remembers'
  <2>1. x \notin Receivables
    BY LedgerAssumption
  <2> QED BY <1>5, <2>1, ReadsGood
<1>6. CASE GiveUp(e)
  <2>1. UNCHANGED recv /\ memory' = [memory EXCEPT ![e] = Idle]
    BY <1>6 DEF GiveUp, books
  <2>2. Idle.row \notin Receivables
    BY LedgerAssumption DEF Idle
  <2> HIDE DEF Idle
  <2> QED BY <2>1, <2>2 DEF Inv, Remembers
<1>7. CASE SaveCompare(e)
  <2>1. PICK columns :
          memory' = [memory EXCEPT ![e] = IF columns = {} THEN Idle ELSE [@ EXCEPT !.columns = columns]]
    BY <1>7 DEF SaveCompare
  <2>2. UNCHANGED recv
    BY <1>7 DEF SaveCompare, books
  <2> DEFINE m == IF columns = {} THEN Idle ELSE [memory[e] EXCEPT !.columns = columns]
  <2>3. memory'[e] = m /\ (\A f \in Editors \ {e} : memory'[f] = memory[f])
        /\ memory' = [f \in Editors |-> memory'[f]]
    BY <2>1 DEF Inv, Remembers
  <2>4. Idle.row \notin Receivables
    BY LedgerAssumption DEF Idle
  <2>5. m = Idle \/ (m.row = memory[e].row /\ m.read = memory[e].read /\ m.write = memory[e].write)
    OBVIOUS
  <2>6. m.row \in Receivables => Prudent(m)
    <3> HIDE DEF m, Idle
    <3> QED BY <2>4, <2>5 DEF Inv, Remembers, Prudent
  <2> HIDE DEF m
  <2> QED BY <2>2, <2>3, <2>6 DEF Inv, Remembers
<1> QED
  BY <1>1, <1>2, <1>3, <1>4, <1>5, <1>6, <1>7 DEF EditorStep, Updates, EditPayment, VoidPayment, EditInvoice

\* An editor forgets what it has updated.
LEMMA Forgets ==
  ASSUME Inv, NEW e \in Editors, Updates(e)
  PROVE  Remembers' /\ memory'[e] = Idle /\ \A f \in Editors \ {e} : memory'[f] = memory[f]
<1>1. memory' = [memory EXCEPT ![e] = Idle]
  BY DEF Updates, SaveUpdate, InvoiceUpdate
<1>2. memory'[e] = Idle /\ \A f \in Editors \ {e} : memory'[f] = memory[f]
  BY <1>1 DEF Inv, Remembers
<1>3. Idle.row \notin Receivables
  BY LedgerAssumption DEF Idle
<1> HIDE DEF Idle
<1> QED BY <1>1, <1>2, <1>3 DEF Inv, Remembers

\* An editor that updates a row writes what it prudently decided, in some columns; it is
\* stale or leaves that row as decided.
LEMMA EditorUpdates ==
  ASSUME Inv, NEW e \in Editors, SaveUpdate(e)
  PROVE  /\ recv' \in [Receivables -> Row]
         /\ \A r \in Receivables :
              \/ recv'[r] = recv[r]
              \/ /\ memory[e].row = r /\ memory'[e] = Idle /\ Prudent(memory[e])
                 /\ recv'[r].paid \in {recv[r].paid, memory[e].write.paid}
                 /\ recv'[r].waived \in {recv[r].waived, memory[e].write.waived}
                 /\ StaleSave(r) \/ (memory[e].read = recv[r] /\ recv'[r] = memory[e].write)
<1>1. memory'[e] = Idle
  BY Forgets DEF Updates
<1>2. CASE memory[e].row \in Receivables
  <2> DEFINE x == memory[e].row
             write == memory[e].write
             columns == memory[e].columns
             new == Written(recv[x], write, columns)
  <2>1. Prudent(memory[e]) /\ write \in Row /\ recv[x] \in Row
    BY <1>2 DEF Inv, Remembers, Prudent, Follows
  <2>2. recv' = [recv EXCEPT ![x] = new]
    BY <1>2 DEF SaveUpdate, Stored
  <2>3. /\ new \in Row /\ new.paid \in {recv[x].paid, write.paid}
        /\ new.waived \in {recv[x].waived, write.waived}
    BY <2>1, WrittenRow
  <2>4. ASSUME NEW r \in Receivables, r = x
        PROVE  StaleSave(r) \/ (memory[e].read = recv[r] /\ recv'[r] = write)
    <3>1. View(r) = recv[r] /\ Stored(r)' = recv'[r]
      BY Views DEF Stored
    <3> HIDE DEF new, write, Idle
    <3> QED BY <1>1, <2>4, <3>1 DEF StaleSave, write
  <2> HIDE DEF Idle, new
  <2>5. recv'[x] = new /\ \A r \in Receivables \ {x} : recv'[r] = recv[r]
    BY <1>2, <2>2 DEF Inv
  <2>6. recv' \in [Receivables -> Row]
    BY <1>2, <2>2, <2>3 DEF Inv
  <2> HIDE DEF write
  <2>7. \A r \in Receivables : r # x => recv'[r] = recv[r]
    BY <2>5
  <2> QED BY <1>1, <2>1, <2>3, <2>4, <2>5, <2>6, <2>7 DEF write
<1>3. CASE memory[e].row \notin Receivables
  BY <1>3 DEF SaveUpdate, Inv
<1> QED BY <1>2, <1>3

----------------------------------------------------------------------------
\* Every step keeps what Inv says.
LEMMA InvKept == ASSUME Inv, [Next]_vars PROVE Inv'
<1>1. waiver' \in [Waivers -> Waiver]
  BY WaiverNext DEF Inv
<1>2. CASE Settle
  <2>1. UNCHANGED memory /\ recv' = [r \in Receivables |-> recv'[r]]
    BY <1>2, SettleRows
  <2>2. \A r \in Receivables : recv'[r] \in Row
    BY <1>2, SettleRows DEF Follows
  <2>3. recv' \in [Receivables -> Row]
    BY <2>1, <2>2
  <2> QED BY <1>1, <2>1, <2>3 DEF Inv, Remembers
<1>3. ASSUME NEW e \in Editors, EditorStep(e), ~Updates(e) PROVE Inv'
  BY <1>1, <1>3, EditorReads DEF Inv
<1>4. ASSUME NEW e \in Editors, SaveUpdate(e) PROVE Inv'
  BY <1>1, <1>4, EditorUpdates, Forgets DEF Inv, Updates
<1>5. ASSUME NEW e \in Editors, NEW counted \in BOOLEAN, InvoiceUpdate(e, counted) PROVE Inv'
  <2>1. Remembers'
    BY <1>5, Forgets DEF Updates
  <2>2. recv' = [r \in Receivables |-> recv'[r]] /\ \A r \in Receivables : recv'[r] \in Row
    BY <1>5, InvoicedRows DEF InvoiceUpdate, Inv, Follows
  <2> QED BY <1>1, <2>1, <2>2 DEF Inv
<1>6. CASE UNCHANGED vars
  BY <1>6 DEF Inv, Remembers, vars, books
<1> QED BY <1>2, <1>3, <1>4, <1>5, <1>6 DEF Next, Updates

\* The inductive invariant.
THEOREM Invariance == Spec => []Inv
<1>1. Init => Inv
  <2> SUFFICES ASSUME Init PROVE Inv
    OBVIOUS
  <2>1. ASSUME NEW r \in Receivables PROVE recv[r] \in Row
    BY NewRowGood DEF Init, GoodRow
  <2>2. recv \in [Receivables -> Row]
    BY <2>1 DEF Init
  <2>3. waiver \in [Waivers -> Waiver]
    BY DEF Init, Waiver
  <2>4. Remembers
    BY LedgerAssumption DEF Init, Remembers, Idle
  <2> QED BY <2>2, <2>3, <2>4 DEF Inv
<1>2. Inv /\ [Next]_vars => Inv'
  BY InvKept
<1> QED BY <1>1, <1>2, PTL DEF Spec

\* A row that a step changes follows the one before, and has as much paid and waived, or an
\* editor has just updated it.
LEMMA RowSteps ==
  ASSUME Inv, [Next]_vars, NEW r \in Receivables
  PROVE  \/ /\ Follows(recv[r], recv'[r])
            /\ recv'[r].paid >= recv[r].paid /\ recv'[r].waived >= recv[r].waived
         \/ \E e \in Editors :
              /\ memory[e].row = r /\ memory'[e] = Idle /\ Prudent(memory[e])
              /\ recv'[r].paid \in {recv[r].paid, memory[e].write.paid}
              /\ recv'[r].waived \in {recv[r].waived, memory[e].write.waived}
              /\ StaleSave(r) \/ (memory[e].read = recv[r] /\ recv'[r] = memory[e].write)
<1>0. recv[r] \in Row /\ recv[r].paid \in Nat /\ recv[r].waived \in Nat
  BY DEF Inv, Row
<1>1. CASE recv'[r] = recv[r]
  BY <1>0, <1>1 DEF Follows
<1>2. CASE Settle
  BY <1>2, SettleRows
<1>3. ASSUME NEW e \in Editors, EditorStep(e), ~Updates(e) PROVE recv'[r] = recv[r]
  BY <1>3, EditorReads
<1>4. ASSUME NEW e \in Editors, NEW counted \in BOOLEAN, InvoiceUpdate(e, counted)
      PROVE  /\ Follows(recv[r], recv'[r])
             /\ recv'[r].paid >= recv[r].paid /\ recv'[r].waived >= recv[r].waived
  <2>1. /\ Follows(recv[r], recv'[r])
        /\ recv'[r].paid = recv[r].paid /\ recv'[r].waived = recv[r].waived
    BY <1>4, InvoicedRows DEF InvoiceUpdate, Inv
  <2> QED BY <1>0, <2>1
<1>5. ASSUME NEW e \in Editors, SaveUpdate(e)
      PROVE  \/ recv'[r] = recv[r]
             \/ /\ memory[e].row = r /\ memory'[e] = Idle /\ Prudent(memory[e])
                /\ recv'[r].paid \in {recv[r].paid, memory[e].write.paid}
                /\ recv'[r].waived \in {recv[r].waived, memory[e].write.waived}
                /\ StaleSave(r) \/ (memory[e].read = recv[r] /\ recv'[r] = memory[e].write)
  BY <1>5, EditorUpdates
<1>6. CASE UNCHANGED vars
  BY <1>1, <1>6 DEF vars, books
<1> HIDE DEF Idle
<1> QED BY <1>1, <1>2, <1>3, <1>4, <1>5, <1>6 DEF Next, Updates

\* A row agrees with itself until a stale save mixes what two of its writers decided.
THEOREM MixedTheorem == Spec => MixedOnlyByStaleSave
<1> DEFINE Mixed == \A r \in Receivables :
      Consistent(recv[r]) /\ ~Consistent(recv'[r]) => StaleSave(r)
<1>1. Inv /\ [Next]_vars => Mixed
  BY RowSteps DEF Follows, Prudent
<1> QED BY <1>1, Invariance, PTL DEF Spec, MixedOnlyByStaleSave

\* Paid and waived amounts shrink by a stale save only.
THEOREM ShrinksTheorem == Spec => ShrinksOnlyByStaleSave
<1> DEFINE Shrinks == \A r \in Receivables :
      recv'[r].paid < recv[r].paid \/ recv'[r].waived < recv[r].waived => StaleSave(r)
<1>1. Inv /\ [Next]_vars => Shrinks
  <2> SUFFICES ASSUME Inv, [Next]_vars, NEW r \in Receivables,
                      recv'[r].paid < recv[r].paid \/ recv'[r].waived < recv[r].waived
               PROVE  StaleSave(r)
    OBVIOUS
  <2>1. recv[r].paid \in Nat /\ recv[r].waived \in Nat
    BY DEF Inv, Row
  <2>2. recv'[r].paid \in Nat /\ recv'[r].waived \in Nat
    <3>1. Inv'
      BY InvKept
    <3> QED BY <3>1 DEF Inv, Row
  <2>3. PICK e \in Editors :
          /\ Prudent(memory[e])
          /\ recv'[r].paid \in {recv[r].paid, memory[e].write.paid}
          /\ recv'[r].waived \in {recv[r].waived, memory[e].write.waived}
          /\ StaleSave(r) \/ (memory[e].read = recv[r] /\ recv'[r] = memory[e].write)
    BY <2>1, <2>2, RowSteps
  <2>4. CASE memory[e].read = recv[r] /\ recv'[r] = memory[e].write
    BY <2>1, <2>2, <2>3, <2>4 DEF Prudent
  <2> QED BY <2>3, <2>4
<1> QED BY <1>1, Invariance, PTL DEF Spec, ShrinksOnlyByStaleSave

----------------------------------------------------------------------------
(* The sums by which the books are compared.                                *)

\* What a payment has paid, of books applied ...
From(ap, p) == SumFunctionOnSet(ap[p], Receivables)
\* ... what is paid of a receivable ...
To(ap, r) == SumFunctionOnSet([p \in Payments |-> ap[p][r]], Payments)
\* ... and what is waived of it.
ApprovedOf(wv, r) == {w \in Waivers : wv[w].recv = r /\ wv[w].status = "approved"}
Waived(wv, r) == SumFunctionOnSet([w \in Waivers |-> wv[w].amount], ApprovedOf(wv, r))

Applications == [Payments -> [Receivables -> Nat]]

\* They are the sums of the model, before a step and after it.
LEMMA SumsOfBooks ==
  /\ applied \in Applications => /\ \A p \in Payments : AppliedFrom(p) = From(applied, p)
                                 /\ \A r \in Receivables : AppliedTo(r) = To(applied, r)
  /\ applied' \in Applications => /\ \A p \in Payments : AppliedFrom(p)' = From(applied', p)
                                  /\ \A r \in Receivables : AppliedTo(r)' = To(applied', r)
  /\ \A r : WaivedFrom(r) = Waived(waiver, r) /\ WaivedFrom(r)' = Waived(waiver', r)
BY DEF AppliedFrom, AppliedTo, WaivedFrom, From, To, Waived, ApprovedOf, SumFunction, Applications

\* What is invoiced of a receivable is a natural number ...
LEMMA InvoicedNat ==
  ASSUME NEW inv \in [Invoices -> Invoice], NEW r \in Receivables, NEW except
  PROVE  InvoicedIn(inv, r, except) \in Nat
<1> DEFINE f == [i \in Invoices |-> inv[i].alloc[r]]
           I == {i \in Invoices \ except : inv[i].counted}
<1>1. \A i \in Invoices : f[i] \in Nat
  BY DEF Invoice
<1>2. IsFiniteSet(I) /\ I \subseteq Invoices
  BY FS_Subset, LedgerAssumption
<1> HIDE DEF f, I
<1>3. SumFunctionOnSet(f, I) \in Nat
  BY <1>1, <1>2, SumNat
<1> QED BY <1>3 DEF InvoicedIn, f, I

\* ... and so are what is paid and what is waived.
LEMMA SumsTyped ==
  ASSUME NEW ap \in Applications, NEW wv \in [Waivers -> Waiver]
  PROVE  /\ \A p \in Payments : From(ap, p) \in Nat
         /\ \A r \in Receivables : To(ap, r) \in Nat /\ Waived(wv, r) \in Nat
<1>1. ASSUME NEW p \in Payments PROVE From(ap, p) \in Nat
  <2>1. \A r \in Receivables : ap[p][r] \in Nat
    BY DEF Applications
  <2> QED BY <2>1, SumNat, LedgerAssumption DEF From
<1>2. ASSUME NEW r \in Receivables PROVE To(ap, r) \in Nat
  <2> DEFINE f == [p \in Payments |-> ap[p][r]]
  <2>1. \A p \in Payments : f[p] \in Nat
    BY DEF Applications
  <2> HIDE DEF f
  <2>2. SumFunctionOnSet(f, Payments) \in Nat
    BY <2>1, SumNat, LedgerAssumption
  <2> QED BY <2>2 DEF To, f
<1>3. ASSUME NEW r \in Receivables PROVE Waived(wv, r) \in Nat
  <2> DEFINE f == [w \in Waivers |-> wv[w].amount]
             W == ApprovedOf(wv, r)
  <2>1. \A w \in Waivers : f[w] \in Nat
    BY LedgerAssumption DEF Waiver
  <2>2. IsFiniteSet(W) /\ W \subseteq Waivers
    BY FS_Subset, LedgerAssumption DEF ApprovedOf
  <2> HIDE DEF f, W
  <2>3. SumFunctionOnSet(f, W) \in Nat
    BY <2>1, <2>2, SumNat
  <2> QED BY <2>3 DEF Waived, f, W
<1> QED BY <1>1, <1>2, <1>3

\* What one invoice adds to what the others allocate of a receivable.
LEMMA OneInvoiceMore ==
  ASSUME NEW old \in [Invoices -> Invoice], NEW new \in [Invoices -> Invoice], NEW i \in Invoices,
         \A j \in Invoices \ {i} : new[j] = old[j], NEW r \in Receivables
  PROVE  InvoicedIn(new, r, {}) =
           InvoicedIn(old, r, {i}) + IF new[i].counted THEN new[i].alloc[r] ELSE 0
<1> DEFINE f == [j \in Invoices |-> old[j].alloc[r]]
           g == [j \in Invoices |-> new[j].alloc[r]]
           Others == {j \in Invoices \ {i} : old[j].counted}
           All == {j \in Invoices \ {} : new[j].counted}
<1>1. /\ InvoicedIn(old, r, {i}) = SumFunctionOnSet(f, Others)
      /\ InvoicedIn(new, r, {}) = SumFunctionOnSet(g, All)
  BY DEF InvoicedIn
<1>2. IsFiniteSet(Others) /\ IsFiniteSet(All)
  BY FS_Subset, LedgerAssumption
<1>3. \A j \in Others : f[j] = g[j]
  OBVIOUS
<1>4. \A j \in All : g[j] \in Int
  BY DEF Invoice
<1>5. \A j \in Others : g[j] \in Nat
  BY DEF Invoice
<1>6. g[i] = new[i].alloc[r]
  OBVIOUS
<1>7. new[i].counted => i \in All /\ All \ {i} = Others
  OBVIOUS
<1>8. ~new[i].counted => All = Others
  OBVIOUS
<1> HIDE DEF f, g, Others, All
<1>9. SumFunctionOnSet(f, Others) = SumFunctionOnSet(g, Others)
  BY <1>2, <1>3, SumSame
<1>10. SumFunctionOnSet(g, Others) \in Nat
  BY <1>2, <1>5, SumNat
<1>11. \A j \in All : SumFunctionOnSet(g, All) = g[j] + SumFunctionOnSet(g, All \ {j})
  BY <1>2, <1>4, SumOut
<1>12. new[i].alloc[r] \in Nat
  BY DEF Invoice
<1>13. CASE new[i].counted
  <2>1. SumFunctionOnSet(g, All) = g[i] + SumFunctionOnSet(g, Others)
    BY <1>7, <1>11, <1>13
  <2> QED BY <1>1, <1>6, <1>9, <1>10, <1>12, <1>13, <2>1
<1>14. CASE ~new[i].counted
  BY <1>1, <1>8, <1>9, <1>10, <1>14
<1> QED BY <1>13, <1>14

\* Waivers of the same amounts, as many of them approved, waive as much.
LEMMA WaivedAlike ==
  ASSUME NEW old, NEW new, NEW r,
         \A w \in Waivers : /\ new[w].recv = old[w].recv /\ new[w].amount = old[w].amount
                            /\ new[w].status = "approved" <=> old[w].status = "approved"
  PROVE  Waived(new, r) = Waived(old, r)
<1>1. ApprovedOf(new, r) = ApprovedOf(old, r)
  BY DEF ApprovedOf
<1>2. [w \in Waivers |-> new[w].amount] = [w \in Waivers |-> old[w].amount]
  OBVIOUS
<1> QED BY <1>1, <1>2 DEF Waived

\* One more approved waiver adds its amount to its receivable.
LEMMA OneWaiverMore ==
  ASSUME NEW old \in [Waivers -> Waiver], NEW v \in Waivers, old[v].status # "approved",
         NEW new, new[v].status = "approved",
         \A w \in Waivers \ {v} : new[w].status = old[w].status,
         \A w \in Waivers : new[w].recv = old[w].recv /\ new[w].amount = old[w].amount, NEW r
  PROVE  Waived(new, r) = Waived(old, r) + IF old[v].recv = r THEN old[v].amount ELSE 0
<1> DEFINE f == [w \in Waivers |-> old[w].amount]
<1>1. \A w \in Waivers : new[w].amount = old[w].amount /\ new[w].recv = old[w].recv
  OBVIOUS
<1>2. f = [w \in Waivers |-> new[w].amount]
  BY <1>1
<1>3. \A w \in Waivers : f[w] \in Nat
  BY LedgerAssumption DEF Waiver
<1>4. new[v].status = "approved" /\ \A w \in Waivers \ {v} : new[w].status = old[w].status
  OBVIOUS
<1>5. f[v] = old[v].amount
  OBVIOUS
<1> HIDE DEF f
<1>6. Waived(new, r) = SumFunctionOnSet(f, ApprovedOf(new, r))
  BY <1>2 DEF Waived
<1>7. Waived(old, r) = SumFunctionOnSet(f, ApprovedOf(old, r))
  BY DEF Waived, f
<1>8. v \notin ApprovedOf(old, r) /\ ApprovedOf(old, r) \subseteq Waivers
      /\ ApprovedOf(new, r) \subseteq Waivers
  BY DEF ApprovedOf
<1>9. IsFiniteSet(ApprovedOf(new, r)) /\ IsFiniteSet(ApprovedOf(old, r))
  BY <1>8, FS_Subset, LedgerAssumption
<1>10. SumFunctionOnSet(f, ApprovedOf(old, r)) \in Nat
  BY <1>3, <1>8, <1>9, SumNat
<1>11. CASE old[v].recv = r
  <2>1. v \in ApprovedOf(new, r) /\ ApprovedOf(new, r) \ {v} = ApprovedOf(old, r)
    BY <1>1, <1>4, <1>11 DEF ApprovedOf
  <2>2. \A w \in ApprovedOf(new, r) : f[w] \in Int
    BY <1>3, <1>8
  <2>5. \A w \in ApprovedOf(new, r) : SumFunctionOnSet(f, ApprovedOf(new, r))
                                       = f[w] + SumFunctionOnSet(f, ApprovedOf(new, r) \ {w})
    <3> DEFINE W == ApprovedOf(new, r)
    <3>1. IsFiniteSet(W) /\ \A w \in W : f[w] \in Int
      BY <1>9, <2>2
    <3> HIDE DEF W
    <3>2. \A w \in W : SumFunctionOnSet(f, W) = f[w] + SumFunctionOnSet(f, W \ {w})
      BY <3>1, SumOut
    <3> QED BY <3>2 DEF W
  <2>3. SumFunctionOnSet(f, ApprovedOf(new, r)) = f[v] + SumFunctionOnSet(f, ApprovedOf(old, r))
    BY <2>1, <2>5
  <2>4. f[v] \in Nat
    BY <1>3
  <2> QED BY <1>5, <1>6, <1>7, <1>10, <1>11, <2>3, <2>4
<1>12. CASE old[v].recv # r
  <2>1. ApprovedOf(new, r) = ApprovedOf(old, r)
    BY <1>1, <1>4, <1>12 DEF ApprovedOf
  <2> QED BY <1>6, <1>7, <1>10, <1>12, <2>1
<1> QED BY <1>11, <1>12

\* The parts of an application are cents.
LEMMA PartsTyped ==
  ASSUME NEW S \in SUBSET Receivables, NEW parts \in [S -> Amounts]
  PROVE  SumFunction(parts) \in Nat
<1>1. \A r \in S : parts[r] \in Nat
  BY LedgerAssumption
<1>2. IsFiniteSet(S)
  BY FS_Subset, LedgerAssumption
<1>3. SumFunctionOnSet(parts, S) \in Nat
  BY <1>1, <1>2, SumNat
<1> QED BY <1>3 DEF SumFunction

\* An application adds its parts to what the payment has paid ...
LEMMA PaymentMore ==
  ASSUME NEW old \in Applications, NEW p \in Payments, NEW S \in SUBSET Receivables,
         NEW parts \in [S -> Amounts], NEW new \in Applications,
         \A r \in Receivables : new[p][r] = old[p][r] + IF r \in S THEN parts[r] ELSE 0
  PROVE  From(new, p) = From(old, p) + SumFunction(parts)
<1> DEFINE add == [r \in Receivables |-> IF r \in S THEN parts[r] ELSE 0]
           f == old[p]
           h == new[p]
<1>1. \A r \in S : parts[r] \in Nat /\ parts[r] = add[r]
  BY LedgerAssumption
<1>2. \A r \in Receivables : add[r] \in Int
  BY LedgerAssumption
<1>3. \A r \in Receivables \ S : add[r] = 0
  OBVIOUS
<1>4. \A r \in Receivables : f[r] \in Int /\ add[r] \in Int /\ h[r] = f[r] + add[r]
  BY <1>2 DEF Applications
<1>5. IsFiniteSet(S)
  BY FS_Subset, LedgerAssumption
<1> HIDE DEF add, f, h
<1>6. SumFunctionOnSet(parts, S) = SumFunctionOnSet(add, S)
  BY <1>1, <1>5, SumSame
<1>7. SumFunctionOnSet(add, Receivables) = SumFunctionOnSet(add, S)
  BY <1>2, <1>3, SumWithoutZeros, LedgerAssumption
<1>8. SumFunctionOnSet(h, Receivables)
        = SumFunctionOnSet(f, Receivables) + SumFunctionOnSet(add, Receivables)
  BY <1>4, SumPlus, LedgerAssumption
<1> QED BY <1>6, <1>7, <1>8 DEF From, SumFunction, f, h

\* ... and each part to what is paid of its receivable.
LEMMA ReceivableMore ==
  ASSUME NEW old \in Applications, NEW p \in Payments, NEW new \in Applications,
         \A q \in Payments \ {p} : new[q] = old[q],
         NEW r \in Receivables, NEW a \in Nat, new[p][r] = old[p][r] + a
  PROVE  To(new, r) = To(old, r) + a
<1> DEFINE f == [q \in Payments |-> old[q][r]]
           g == [q \in Payments |-> new[q][r]]
<1>1. \A q \in Payments : f[q] \in Int /\ g[q] \in Int
  BY DEF Applications
<1>2. \A q \in Payments : q # p => f[q] = g[q]
  OBVIOUS
<1>3. g[p] = f[p] + a /\ f[p] \in Nat
  BY DEF Applications
<1> HIDE DEF f, g
<1>4. SumFunctionOnSet(g, Payments) = SumFunctionOnSet(f, Payments) + (g[p] - f[p])
  BY <1>1, <1>2, SumUpdate, LedgerAssumption
<1>5. g[p] - f[p] = a
  BY <1>3
<1>6. To(new, r) = SumFunctionOnSet(g, Payments) /\ To(old, r) = SumFunctionOnSet(f, Payments)
  BY DEF To, f, g
<1> QED BY <1>4, <1>5, <1>6

----------------------------------------------------------------------------
(* Types, and what an editor may write without harm to the books.           *)

\* Of a receivable: rows with activity keep their dues and are not deleted.
Harmless(m) ==
  /\ m.write.invoiced = m.read.invoiced
  /\ Untouched(m.read) \/ (m.write.due = m.read.due /\ ~m.write.deleted)

\* Of a payment: what is not applied is its amount less the applications that were read.
Frugal(m) ==
  /\ m.write \in Payment /\ m.write.unapplied <= m.write.amount
  /\ m.write.unapplied = m.write.amount - m.read.sum
  /\ m.write.deleted => m.read.sum = 0

Careful == \A e \in Editors :
             /\ memory[e].row \in Receivables => Harmless(memory[e])
             /\ memory[e].row \in Payments => Frugal(memory[e])
             /\ memory[e].row \in Invoices => memory[e].write = memory[e].read

\* The inductive invariant of the books.
BookInv == Inv /\ TypeOK /\ Careful

\* Applications are counted in cents, before a step and after it.
LEMMA AppliedCents ==
  /\ TypeOK => applied \in Applications
  /\ TypeOK' => applied' \in Applications
BY LedgerAssumption DEF TypeOK, Applications

\* The transactions under the locks keep the types.
LEMMA SettleTyped ==
  ASSUME BookInv, Settle
  PROVE  /\ pay' \in [Payments -> Payment] /\ \A p \in Payments : pay'[p].unapplied <= pay'[p].amount
         /\ applied' \in [Payments -> [Receivables -> 0 .. MaxApplied]]
         /\ invoice' \in [Invoices -> Invoice]
<1> DEFINE Typed == /\ pay' \in [Payments -> Payment]
                    /\ \A p \in Payments : pay'[p].unapplied <= pay'[p].amount
                    /\ applied' \in [Payments -> [Receivables -> 0 .. MaxApplied]]
                    /\ invoice' \in [Invoices -> Invoice]
<1>0. TypeOK
  BY DEF BookInv
<1>1. ASSUME NEW p \in Payments, NEW S \in SUBSET Receivables, NEW parts \in [S -> Amounts],
             Apply(p, parts)
      PROVE  Typed
  <2> DEFINE sum == SumFunction(parts)
  <2>1. sum \in Nat
    BY PartsTyped
  <2>2. sum <= pay[p].unapplied /\ pay' = [pay EXCEPT ![p].unapplied = @ - sum]
    BY <1>1 DEF Apply
  <2>3. pay[p] \in Payment /\ pay[p].unapplied \in Nat /\ pay[p].amount \in Nat
        /\ pay[p].unapplied <= pay[p].amount
    BY <1>0, LedgerAssumption DEF TypeOK, Payment
  <2> HIDE DEF sum
  <2>4. pay[p].unapplied - sum \in Nat /\ pay[p].unapplied - sum <= pay[p].amount
    BY <2>1, <2>2, <2>3
  <2>5. /\ pay' \in [Payments -> Payment]
        /\ \A q \in Payments : pay'[q].unapplied <= pay'[q].amount
    BY <1>0, <2>2, <2>3, <2>4 DEF TypeOK, Payment
  <2>6. applied' \in [Payments -> [Receivables -> 0 .. MaxApplied]]
    <3> DEFINE row == [r \in Receivables |->
                         applied[p][r] + IF r \in DOMAIN parts THEN parts[r] ELSE 0]
    <3>1. applied' = [applied EXCEPT ![p] = row]
      BY <1>1 DEF Apply
    <3>2. ASSUME NEW r \in Receivables PROVE row[r] \in 0 .. MaxApplied
      <4>1. applied[p][r] \in 0 .. MaxApplied
        BY <1>0 DEF TypeOK
      <4>2. CASE r \in S
        <5>1. parts[r] \in Nat
          BY <4>2, LedgerAssumption
        <5>2. applied[p][r] + parts[r] <= MaxApplied
          BY <1>1, <4>2 DEF Apply
        <5> QED BY <4>1, <4>2, <5>1, <5>2, LedgerAssumption
      <4>3. CASE r \notin S
        BY <4>1, <4>3
      <4> QED BY <4>2, <4>3
    <3>3. row \in [Receivables -> 0 .. MaxApplied]
      BY <3>2
    <3> HIDE DEF row
    <3> QED BY <1>0, <3>1, <3>3 DEF TypeOK
  <2>7. invoice' = invoice
    BY <1>1 DEF Apply
  <2> QED BY <1>0, <2>5, <2>6, <2>7 DEF TypeOK
<1>2. ASSUME UNCHANGED <<pay, applied, invoice>> PROVE Typed
  BY <1>0, <1>2 DEF TypeOK
<1>3. ASSUME NEW w \in Waivers, WaiverCreate(w) \/ WaiverApprove(w) \/ WaiverReject(w)
      PROVE  Typed
  BY <1>2, <1>3 DEF WaiverCreate, WaiverApprove, WaiverReject
<1>4. ASSUME NEW i \in Invoices, NEW alloc \in [Receivables -> {0} \cup Amounts \cup Dues],
             NEW counted \in BOOLEAN, InvoiceSave(i, alloc, counted)
      PROVE  Typed
  <2>1. alloc \in [Receivables -> Nat]
    BY LedgerAssumption
  <2>2. /\ invoice' = [invoice EXCEPT ![i] = [alloc |-> alloc, counted |-> counted, deleted |-> FALSE]]
        /\ pay' = pay /\ applied' = applied
    BY <1>4 DEF InvoiceSave
  <2>3. [alloc |-> alloc, counted |-> counted, deleted |-> FALSE] \in Invoice
    BY <2>1 DEF Invoice
  <2> QED BY <1>0, <2>2, <2>3 DEF TypeOK
<1>5. ASSUME NEW i \in Invoices, InvoiceDelete(i) PROVE Typed
  <2>1. /\ invoice' = [invoice EXCEPT ![i].deleted = TRUE, ![i].counted = FALSE,
                                      ![i].alloc = [r \in Receivables |-> 0]]
        /\ pay' = pay /\ applied' = applied
    BY <1>5 DEF InvoiceDelete
  <2>2. [r \in Receivables |-> 0] \in [Receivables -> Nat]
    OBVIOUS
  <2>3. invoice' \in [Invoices -> Invoice]
    BY <1>0, <2>1, <2>2 DEF TypeOK, Invoice
  <2> QED BY <1>0, <2>1, <2>3 DEF TypeOK
<1>6. ASSUME NEW r \in Receivables, NEW due, Cancel(r) \/ Adjust(r, due) PROVE Typed
  BY <1>2, <1>6 DEF Cancel, Adjust
<1> QED BY <1>1, <1>3, <1>4, <1>5, <1>6 DEF Settle

\* An editor that reads a row and decides without harm goes on to remember it so.
LEMMA ReadsCareful ==
  ASSUME BookInv, NEW e \in Editors, NEW x, NEW write, Reads(e, x, write),
         x \in Receivables =>
           /\ write.invoiced = recv[x].invoiced
           /\ Untouched(recv[x]) \/ (write.due = recv[x].due /\ ~write.deleted),
         x \in Payments =>
           /\ write \in Payment /\ write.unapplied <= write.amount
           /\ write.unapplied = write.amount - AppliedFrom(x)
           /\ write.deleted => AppliedFrom(x) = 0,
         x \in Invoices => write = invoice[x].alloc
  PROVE  UNCHANGED books /\ Careful'
<1> DEFINE m == [row |-> x, read |-> View(x), write |-> write, columns |-> {}]
<1>1. UNCHANGED books /\ memory' = [memory EXCEPT ![e] = m]
  BY DEF Reads
<1>2. memory'[e] = m /\ \A f \in Editors \ {e} : memory'[f] = memory[f]
  BY <1>1 DEF BookInv, Inv, Remembers
<1>3. m.row = x /\ m.read = View(x) /\ m.write = write
  OBVIOUS
<1> HIDE DEF m
<1>4. x \in Receivables => Harmless(m)
  BY <1>3, Views DEF Harmless
<1>5. x \in Payments => Frugal(m)
  <2>1. x \in Payments => View(x).sum = AppliedFrom(x)
    BY Views
  <2> QED BY <1>3, <2>1 DEF Frugal
<1>6. x \in Invoices => m.write = m.read
  BY <1>3, Views
<1> QED BY <1>1, <1>2, <1>3, <1>4, <1>5, <1>6 DEF BookInv, Careful

\* What is computed of a receivable keeps the columns that are not computed.
LEMMA EditedColumns ==
  ASSUME NEW row \in Row
  PROVE  /\ Edited(row).invoiced = row.invoiced
         /\ [row EXCEPT !.status = Derived(row, SettledStatus(row))].invoiced = row.invoiced
         /\ [row EXCEPT !.status = Derived(row, SettledStatus(row))].due = row.due
         /\ [row EXCEPT !.status = Derived(row, SettledStatus(row))].deleted = row.deleted
         /\ [row EXCEPT !.deleted = TRUE, !.status = "void"].invoiced = row.invoiced
<1> DEFINE d == Derived(row, SettledStatus(row))
           new == [row EXCEPT !.remain = Remain(row)]
           n == Derived(new, SettledStatus(new))
<1>1. Edited(row) = [new EXCEPT !.status = n]
  BY DEF Edited
<1>2. Edited(row).invoiced = row.invoiced
  <2>1. new.invoiced = row.invoiced
    BY DEF Row
  <2>2. [new EXCEPT !.status = n].invoiced = new.invoiced
    <3> HIDE DEF n
    <3> QED BY DEF Row
  <2> HIDE DEF new, n
  <2> QED BY <1>1, <2>1, <2>2
<1> HIDE DEF d
<1> QED BY <1>2 DEF Row, d

\* Every editor decides without harm.
LEMMA EditorCareful ==
  ASSUME BookInv, NEW e \in Editors, EditorStep(e), ~Updates(e)
  PROVE  UNCHANGED books /\ Careful'
<1>0. TypeOK /\ \A r \in Receivables : recv[r] \in Row /\ r \notin Payments \cup Invoices
  BY LedgerAssumption DEF BookInv, TypeOK
<1>1. ASSUME NEW r \in Receivables, Edit(e, r) PROVE UNCHANGED books /\ Careful'
  BY <1>0, <1>1, EditedColumns, ReadsCareful DEF Edit
<1>2. ASSUME NEW r \in Receivables, Void(e, r) PROVE UNCHANGED books /\ Careful'
  BY <1>0, <1>2, EditedColumns, ReadsCareful DEF Void
<1>3. ASSUME NEW r \in Receivables, Recalculate(e, r) PROVE UNCHANGED books /\ Careful'
  BY <1>0, <1>3, EditedColumns, ReadsCareful DEF Recalculate
<1>4. ASSUME NEW r \in Receivables, NEW due \in Dues, Regenerate(e, r, due)
      PROVE  UNCHANGED books /\ Careful'
  <2>1. Reads(e, r, NewRow(due)) /\ Untouched(recv[r])
    BY <1>4 DEF Regenerate, NoActivity
  <2>2. NewRow(due).invoiced = recv[r].invoiced
    BY <2>1 DEF NewRow, Untouched
  <2> QED BY <1>0, <2>1, <2>2, ReadsCareful
<1>5. ASSUME NEW p \in Payments PROVE p \notin Receivables \cup Invoices /\ AppliedFrom(p) \in Nat
  <2>1. From(applied, p) \in Nat
    BY <1>0, AppliedCents, SumsTyped DEF TypeOK
  <2> QED BY <1>0, <2>1, AppliedCents, SumsOfBooks, LedgerAssumption
<1>6. ASSUME NEW p \in Payments, NEW a \in Dues, EditPayment(e, p, a)
      PROVE  UNCHANGED books /\ Careful'
  <2> DEFINE write == [amount |-> a, unapplied |-> a - AppliedFrom(p), deleted |-> FALSE]
  <2>1. Reads(e, p, write) /\ a >= AppliedFrom(p)
    BY <1>6 DEF EditPayment
  <2>2. AppliedFrom(p) \in Nat /\ a \in Nat /\ p \notin Receivables \cup Invoices
    BY <1>5, LedgerAssumption
  <2>3. /\ write \in Payment /\ write.unapplied <= write.amount
        /\ write.unapplied = write.amount - AppliedFrom(p) /\ ~write.deleted
    BY <2>1, <2>2 DEF Payment
  <2> HIDE DEF write
  <2> QED BY <2>1, <2>2, <2>3, ReadsCareful
<1>7. ASSUME NEW p \in Payments, VoidPayment(e, p) PROVE UNCHANGED books /\ Careful'
  <2> DEFINE write == [pay[p] EXCEPT !.deleted = TRUE]
  <2>1. Reads(e, p, write) /\ pay[p].unapplied = pay[p].amount /\ AppliedFrom(p) = 0
    BY <1>7 DEF VoidPayment
  <2>2. pay[p] \in Payment /\ pay[p].amount \in Nat
    BY <1>0, LedgerAssumption DEF TypeOK, Payment
  <2>3. write \in Payment /\ write.unapplied = pay[p].amount /\ write.amount = pay[p].amount
    BY <2>1, <2>2 DEF Payment
  <2> HIDE DEF write
  <2> QED BY <1>5, <2>1, <2>2, <2>3, ReadsCareful
<1>8. CASE GiveUp(e)
  <2>1. UNCHANGED books /\ memory' = [memory EXCEPT ![e] = Idle]
    BY <1>8 DEF GiveUp
  <2>2. Idle.row \notin Receivables \cup Payments \cup Invoices
    BY LedgerAssumption DEF Idle
  <2> HIDE DEF Idle
  <2> QED BY <2>1, <2>2 DEF BookInv, Inv, Remembers, Careful
<1>9. CASE SaveCompare(e)
  <2>1. PICK columns :
          memory' = [memory EXCEPT ![e] = IF columns = {} THEN Idle ELSE [@ EXCEPT !.columns = columns]]
    BY <1>9 DEF SaveCompare
  <2>2. UNCHANGED books
    BY <1>9 DEF SaveCompare
  <2> DEFINE m == IF columns = {} THEN Idle ELSE [memory[e] EXCEPT !.columns = columns]
  <2>3. memory'[e] = m /\ \A f \in Editors \ {e} : memory'[f] = memory[f]
    BY <2>1 DEF BookInv, Inv, Remembers
  <2>4. Idle.row \notin Receivables \cup Payments \cup Invoices
    BY LedgerAssumption DEF Idle
  <2>5. m = Idle \/ (m.row = memory[e].row /\ m.read = memory[e].read /\ m.write = memory[e].write)
    OBVIOUS
  <2>6. /\ m.row \in Receivables => Harmless(m)
        /\ m.row \in Payments => Frugal(m)
        /\ m.row \in Invoices => m.write = m.read
    <3> HIDE DEF m, Idle
    <3> QED BY <2>4, <2>5 DEF BookInv, Careful, Harmless, Frugal
  <2> HIDE DEF m
  <2> QED BY <2>2, <2>3, <2>6 DEF BookInv, Careful
<1>10. ASSUME NEW i \in Invoices, EditInvoice(e, i) PROVE UNCHANGED books /\ Careful'
  <2>1. i \notin Receivables \cup Payments
    BY LedgerAssumption
  <2> QED BY <1>10, <2>1, ReadsCareful DEF EditInvoice
<1> QED
  BY <1>1, <1>2, <1>3, <1>4, <1>6, <1>7, <1>8, <1>9, <1>10 DEF EditorStep, Updates

\* What the other editors remember is as harmless after an update as before.
LEMMA UpdatesCareful ==
  ASSUME BookInv, NEW e \in Editors, Updates(e) PROVE Careful' /\ memory'[e] = Idle
<1>1. memory'[e] = Idle /\ \A f \in Editors \ {e} : memory'[f] = memory[f]
  BY Forgets DEF BookInv
<1>2. Idle.row \notin Receivables \cup Payments \cup Invoices
  BY LedgerAssumption DEF Idle
<1> HIDE DEF Idle
<1> QED BY <1>1, <1>2 DEF BookInv, Careful

\* An editor that updates a receivable or a payment leaves all else alone, and that row as
\* it decided on what it still is, unless it is stale.
LEMMA EditorSavesOne ==
  ASSUME BookInv, NEW e \in Editors, SaveUpdate(e)
  PROVE  /\ UNCHANGED <<applied, waiver, invoice>>
         /\ \A r \in Receivables :
              \/ recv'[r] = recv[r]
              \/ /\ memory[e].row = r /\ Harmless(memory[e])
                 /\ StaleSave(r) \/ (memory[e].read = recv[r] /\ recv'[r] = memory[e].write)
         /\ pay' \in [Payments -> Payment]
         /\ \A p \in Payments : pay'[p].unapplied <= pay'[p].amount
         /\ \A p \in Payments :
              \/ pay'[p] = pay[p]
              \/ /\ memory[e].row = p /\ Frugal(memory[e])
                 /\ \/ StaleSave(p)
                    \/ memory[e].read.sum = AppliedFrom(p) /\ pay'[p] = memory[e].write
<1> DEFINE x == memory[e].row
           write == memory[e].write
           new == Written(pay[x], write, memory[e].columns)
<1>0. UNCHANGED <<applied, waiver, invoice>>
  BY DEF SaveUpdate
<1>1. TypeOK /\ memory'[e] = Idle
  BY Forgets DEF BookInv, Updates
<1>2. /\ x \in Receivables => Harmless(memory[e])
      /\ x \in Payments => Frugal(memory[e])
  BY DEF BookInv, Careful
<1>3. \A r \in Receivables :
        \/ recv'[r] = recv[r]
        \/ /\ x = r /\ Harmless(memory[e])
           /\ StaleSave(r) \/ (memory[e].read = recv[r] /\ recv'[r] = write)
  <2> HIDE DEF Idle
  <2> QED BY <1>2, EditorUpdates DEF BookInv
<1>4. CASE x \in Payments
  <2>1. pay' = [pay EXCEPT ![x] = new] /\ new.unapplied <= new.amount
    BY <1>4, LedgerAssumption DEF SaveUpdate, Stored
  <2>2. write \in Payment /\ pay[x] \in Payment
    BY <1>1, <1>2, <1>4 DEF Frugal, TypeOK
  <2>3. new \in Payment
    BY <2>2, WrittenPayment
  <2> HIDE DEF new, Idle
  <2>4. pay'[x] = new /\ \A p \in Payments : p # x => pay'[p] = pay[p]
    BY <1>1, <1>4, <2>1 DEF TypeOK
  <2>5. pay' \in [Payments -> Payment]
    BY <1>1, <1>4, <2>1, <2>3 DEF TypeOK
  <2>6. \A p \in Payments : pay'[p].unapplied <= pay'[p].amount
    BY <1>1, <2>1, <2>4 DEF TypeOK
  <2>7. ASSUME NEW p \in Payments, p = x
        PROVE  StaleSave(p) \/ (memory[e].read.sum = AppliedFrom(p) /\ pay'[p] = write)
    <3>1. View(p).sum = AppliedFrom(p) /\ Stored(p)' = pay'[p]
      BY Views, LedgerAssumption DEF Stored
    <3>2. CASE memory[e].read # View(p) \/ Stored(p)' # write
      BY <1>1, <2>7, <3>2 DEF StaleSave, write
    <3>3. CASE memory[e].read = View(p) /\ Stored(p)' = write
      BY <3>1, <3>3
    <3> QED BY <3>2, <3>3
  <2>8. \A p \in Payments :
          \/ pay'[p] = pay[p]
          \/ /\ x = p /\ Frugal(memory[e])
             /\ StaleSave(p) \/ (memory[e].read.sum = AppliedFrom(p) /\ pay'[p] = write)
    BY <1>2, <1>4, <2>4, <2>7
  <2> QED BY <1>0, <1>3, <2>5, <2>6, <2>8
<1>5. CASE x \notin Payments
  <2>1. pay' = pay
    BY <1>5 DEF SaveUpdate
  <2> QED BY <1>0, <1>1, <1>3, <2>1 DEF TypeOK
<1> QED BY <1>4, <1>5

\* An invoice that is updated without its allocations keeps them, and they are typed.
LEMMA InvoiceUpdateTyped ==
  ASSUME BookInv, NEW e \in Editors, NEW counted \in BOOLEAN, InvoiceUpdate(e, counted)
  PROVE  invoice' \in [Invoices -> Invoice] /\ UNCHANGED <<pay, applied, waiver>>
<1>1. invoice' = [invoice EXCEPT ![memory[e].row].counted = counted]
      /\ UNCHANGED <<pay, applied, waiver>>
  BY DEF InvoiceUpdate
<1> QED BY <1>1 DEF BookInv, TypeOK, Invoice

----------------------------------------------------------------------------
\* The inductive invariant of the books.
THEOREM BookInvariance == Spec => []BookInv
<1>1. Init /\ Inv => BookInv
  <2> SUFFICES ASSUME Init, Inv PROVE TypeOK /\ Careful
    BY DEF BookInv
  <2>1. pay \in [Payments -> Payment] /\ \A p \in Payments : pay[p].unapplied <= pay[p].amount
    <3>1. \A a \in Dues : /\ [amount |-> a, unapplied |-> a, deleted |-> FALSE] \in Payment
                          /\ a <= a
      BY LedgerAssumption DEF Payment
    <3>2. \A p \in Payments : \E a \in Dues :
            pay[p] = [amount |-> a, unapplied |-> a, deleted |-> FALSE]
      BY DEF Init
    <3>3. pay = [p \in Payments |-> pay[p]]
      BY DEF Init
    <3> QED BY <3>1, <3>2, <3>3
  <2>2. applied \in [Payments -> [Receivables -> 0 .. MaxApplied]]
    BY LedgerAssumption DEF Init
  <2>3. invoice \in [Invoices -> Invoice]
    BY DEF Init, Invoice
  <2>4. Careful
    BY LedgerAssumption DEF Init, Careful, Idle
  <2> QED BY <2>1, <2>2, <2>3, <2>4 DEF Inv, TypeOK
<1>2. BookInv /\ [Next]_vars /\ Inv' => BookInv'
  <2> SUFFICES ASSUME BookInv, [Next]_vars, Inv' PROVE TypeOK' /\ Careful'
    BY DEF BookInv
  <2>1. recv' \in [Receivables -> Row] /\ waiver' \in [Waivers -> Waiver]
    BY DEF Inv
  <2>2. CASE Settle
    <3>1. UNCHANGED memory
      BY <2>2, SettleRows DEF BookInv
    <3> QED BY <2>1, <2>2, <3>1, SettleTyped DEF TypeOK, BookInv, Careful
  <2>3. ASSUME NEW e \in Editors, EditorStep(e), ~Updates(e) PROVE TypeOK' /\ Careful'
    BY <2>3, EditorCareful DEF TypeOK, BookInv, books
  <2>4. ASSUME NEW e \in Editors, SaveUpdate(e) PROVE TypeOK' /\ Careful'
    <3>1. Careful'
      BY <2>4, UpdatesCareful DEF Updates
    <3>2. /\ applied' = applied /\ invoice' = invoice /\ pay' \in [Payments -> Payment]
          /\ \A p \in Payments : pay'[p].unapplied <= pay'[p].amount
      BY <2>4, EditorSavesOne
    <3> QED BY <2>1, <3>1, <3>2 DEF BookInv, TypeOK
  <2>6. ASSUME NEW e \in Editors, NEW counted \in BOOLEAN, InvoiceUpdate(e, counted)
        PROVE  TypeOK' /\ Careful'
    <3>1. Careful'
      BY <2>6, UpdatesCareful DEF Updates
    <3>2. invoice' \in [Invoices -> Invoice] /\ pay' = pay /\ applied' = applied
      BY <2>6, InvoiceUpdateTyped
    <3> QED BY <2>1, <3>1, <3>2 DEF BookInv, TypeOK
  <2>5. CASE UNCHANGED vars
    BY <2>5 DEF BookInv, TypeOK, Careful, vars, books
  <2> QED BY <2>2, <2>3, <2>4, <2>5, <2>6 DEF Next, Updates
<1> QED BY <1>1, <1>2, Invariance, PTL DEF Spec

\* Every row stays within its columns and CHECK constraints.
THEOREM LedgerTyped == Spec => []TypeOK
<1>1. BookInv => TypeOK
  BY DEF BookInv
<1> QED BY <1>1, BookInvariance, PTL

----------------------------------------------------------------------------
(* A step keeps backed what was backed.                                     *)

\* RecvBacked of a row, by what its payments, waivers and invoices sum up to.
RowBacked(row, paid, waived, invoiced) ==
  /\ row.deleted => Untouched(row)
  /\ row.paid = paid /\ row.waived = waived
  /\ row.invoiced = InvoiceStatus(invoiced, row.due)
  /\ invoiced <= row.due + Tolerance

\* It is, before a step and after it.
LEMMA BackedRows ==
  ASSUME applied \in Applications, applied' \in Applications, NEW r \in Receivables
  PROVE  /\ RecvBacked(r) <=> RowBacked(recv[r], To(applied, r), Waived(waiver, r),
                                        InvoicedIn(invoice, r, {}))
         /\ RecvBacked(r)' <=> RowBacked(recv'[r], To(applied', r), Waived(waiver', r),
                                         InvoicedIn(invoice', r, {}))
<1>1. /\ AppliedTo(r) = To(applied, r) /\ AppliedTo(r)' = To(applied', r)
      /\ WaivedFrom(r) = Waived(waiver, r) /\ WaivedFrom(r)' = Waived(waiver', r)
  BY SumsOfBooks
<1>2. RecvBacked(r) <=> RowBacked(recv[r], AppliedTo(r), WaivedFrom(r), InvoicedIn(invoice, r, {}))
  BY DEF RecvBacked, RowBacked
<1>3. RecvBacked(r)' <=> RowBacked(recv'[r], AppliedTo(r)', WaivedFrom(r)', InvoicedIn(invoice', r, {}))
  BY DEF RecvBacked, RowBacked
<1> QED BY <1>1, <1>2, <1>3

\* An invoice status of none is said of nothing invoiced.
LEMMA NoneInvoiced ==
  ASSUME NEW sum \in Nat, NEW due \in Nat
  PROVE  InvoiceStatus(sum, due) = "none" <=> sum = 0
BY LedgerAssumption DEF InvoiceStatus

\* A payment moves a row and the sum of its payments alike ...
LEMMA PayingBacked ==
  ASSUME NEW row \in Row, ~row.deleted, NEW a \in Amounts, NEW paid \in Nat, NEW waived, NEW invoiced,
         RowBacked(row, paid, waived, invoiced)
  PROVE  RowBacked(Paying(row, a), paid + a, waived, invoiced)
<1> DEFINE part == [row EXCEPT !.paid = @ + a, !.remain = @ - a]
           d == Derived(part, "paid")
<1>1. Paying(row, a) = [part EXCEPT !.status = d]
  BY DEF Paying
<1> HIDE DEF d
<1>2. LET x == Paying(row, a)
      IN  x.due = row.due /\ x.paid = row.paid + a /\ x.waived = row.waived
          /\ x.invoiced = row.invoiced /\ x.deleted = row.deleted
  BY <1>1 DEF Row
<1> QED BY <1>2 DEF RowBacked

\* ... and so does a waiver.
LEMMA WaivingBacked ==
  ASSUME NEW row \in Row, ~row.deleted, NEW a \in Amounts, NEW paid, NEW waived \in Nat, NEW invoiced,
         RowBacked(row, paid, waived, invoiced)
  PROVE  RowBacked(Waiving(row, a), paid, waived + a, invoiced)
<1> DEFINE part == [row EXCEPT !.waived = @ + a, !.remain = Remain(row) - a]
           d == Derived(part, "waived")
<1>1. Waiving(row, a) = [part EXCEPT !.status = d]
  BY DEF Waiving
<1> HIDE DEF d
<1>2. LET x == Waiving(row, a)
      IN  x.due = row.due /\ x.paid = row.paid /\ x.waived = row.waived + a
          /\ x.invoiced = row.invoiced /\ x.deleted = row.deleted
  BY <1>1 DEF Row
<1> QED BY <1>2 DEF RowBacked

\* A row without activity is backed by nothing, whatever is due of it.
LEMMA UntouchedBacked ==
  ASSUME NEW row, row.due \in Nat, NEW paid, NEW waived, NEW invoiced \in Nat,
         Untouched(row), RowBacked(row, paid, waived, invoiced),
         NEW x, x.due \in Nat, Untouched(x)
  PROVE  RowBacked(x, paid, waived, invoiced)
<1>1. invoiced = 0
  BY NoneInvoiced DEF RowBacked, Untouched
<1>2. InvoiceStatus(invoiced, x.due) = "none" /\ invoiced <= x.due + Tolerance
  BY <1>1, LedgerAssumption DEF InvoiceStatus
<1> QED BY <1>2 DEF RowBacked, Untouched

\* An invoice that changes is counted in the status of every receivable it touches.
LEMMA InvoicesBacked ==
  ASSUME NEW old \in [Invoices -> Invoice], NEW new \in [Invoices -> Invoice], NEW i \in Invoices,
         \A j \in Invoices \ {i} : new[j] = old[j],
         NEW r \in Receivables, NEW row \in Row, NEW paid, NEW waived,
         RowBacked(row, paid, waived, InvoicedIn(old, r, {})),
         new[i].alloc[r] > 0 =>
           ~row.deleted /\ InvoicedIn(old, r, {i}) + new[i].alloc[r] <= row.due + Tolerance,
         NEW x,
         x = IF (old[i].alloc[r] > 0 \/ new[i].alloc[r] > 0) /\ ~row.deleted
             THEN [row EXCEPT !.invoiced = InvoiceStatus(InvoicedIn(new, r, {}), row.due)]
             ELSE row
  PROVE  RowBacked(x, paid, waived, InvoicedIn(new, r, {}))
<1> DEFINE rest == InvoicedIn(old, r, {i})
           before == InvoicedIn(old, r, {})
           after == InvoicedIn(new, r, {})
           had == old[i].alloc[r]
           has == new[i].alloc[r]
           v == InvoiceStatus(after, row.due)
<1>1. had \in Nat /\ has \in Nat
  BY DEF Invoice
<1>2. rest \in Nat /\ before \in Nat /\ after \in Nat
  BY InvoicedNat
<1>3. before = rest + IF old[i].counted THEN had ELSE 0
  BY OneInvoiceMore
<1>4. after = rest + IF new[i].counted THEN has ELSE 0
  BY OneInvoiceMore
<1>5. row.due \in Nat /\ Tolerance \in Nat
  BY LedgerAssumption DEF Row
<1>6. RowBacked(row, paid, waived, before)
  OBVIOUS
<1>7. has > 0 => ~row.deleted /\ rest + has <= row.due + Tolerance
  OBVIOUS
<1>8. x = IF (had > 0 \/ has > 0) /\ ~row.deleted THEN [row EXCEPT !.invoiced = v] ELSE row
  OBVIOUS
<1>9. v = InvoiceStatus(after, row.due)
  OBVIOUS
<1> SUFFICES RowBacked(x, paid, waived, after)
  OBVIOUS
<1> HIDE DEF rest, before, after, had, has, v
<1>10. after <= row.due + Tolerance
  BY <1>1, <1>2, <1>3, <1>4, <1>5, <1>6, <1>7 DEF RowBacked
<1>11. CASE (had > 0 \/ has > 0) /\ ~row.deleted
  <2>1. x = [row EXCEPT !.invoiced = v]
    BY <1>8, <1>11
  <2>2. x.due = row.due /\ x.paid = row.paid /\ x.waived = row.waived
        /\ x.deleted = row.deleted /\ x.invoiced = v
    BY <2>1 DEF Row
  <2> QED BY <1>6, <1>9, <1>10, <1>11, <2>2 DEF RowBacked
<1>12. CASE row.deleted
  <2>1. before = 0
    BY <1>2, <1>5, <1>6, <1>12, NoneInvoiced DEF RowBacked, Untouched
  <2>2. has = 0
    BY <1>1, <1>7, <1>12
  <2>3. after = 0
    BY <1>1, <1>2, <1>3, <1>4, <2>1, <2>2
  <2> QED BY <1>6, <1>8, <1>12, <2>1, <2>3
<1>13. CASE had = 0 /\ has = 0
  <2>1. after = before
    BY <1>2, <1>3, <1>4, <1>13
  <2>2. x = row
    BY <1>8, <1>13
  <2> QED BY <1>6, <2>1, <2>2
<1> QED BY <1>1, <1>11, <1>12, <1>13

\* So a receivable is backed after an invoice as it was before, if the invoice left room.
LEMMA InvoiceBacks ==
  ASSUME BookInv, TypeOK', NEW r \in Receivables, RecvBacked(r),
         NEW i \in Invoices, NEW new \in [Invoices -> Invoice], invoice' = new,
         \A j \in Invoices \ {i} : new[j] = invoice[j],
         NEW touched, Invoiced(new, touched),
         r \in touched <=> invoice[i].alloc[r] > 0 \/ new[i].alloc[r] > 0,
         new[i].alloc[r] > 0 =>
           ~recv[r].deleted /\ InvoicedIn(invoice, r, {i}) + new[i].alloc[r] <= recv[r].due + Tolerance,
         UNCHANGED <<applied, waiver>>
  PROVE  RecvBacked(r)'
<1> DEFINE row == recv[r]
           paid == To(applied, r)
           waived == Waived(waiver, r)
           x == recv'[r]
           old == invoice
<1>1. /\ row \in Row /\ applied \in Applications /\ applied' \in Applications
      /\ old \in [Invoices -> Invoice]
  BY AppliedCents DEF BookInv, TypeOK
<1>2. RowBacked(row, paid, waived, InvoicedIn(old, r, {}))
  BY <1>1, BackedRows
<1>3. \A j \in Invoices \ {i} : new[j] = old[j]
  OBVIOUS
<1>4. new[i].alloc[r] > 0 =>
        ~row.deleted /\ InvoicedIn(old, r, {i}) + new[i].alloc[r] <= row.due + Tolerance
  OBVIOUS
<1>5. x = IF (old[i].alloc[r] > 0 \/ new[i].alloc[r] > 0) /\ ~row.deleted
          THEN [row EXCEPT !.invoiced = InvoiceStatus(InvoicedIn(new, r, {}), row.due)]
          ELSE row
  BY DEF Invoiced
<1>6. RowBacked(x, paid, waived, InvoicedIn(new, r, {}))
  <2> HIDE DEF x, old, row, paid, waived
  <2> QED BY <1>1, <1>2, <1>3, <1>4, <1>5, InvoicesBacked, SMTT(60)
<1> QED BY <1>1, <1>6, BackedRows

\* What the transactions under the locks do to a receivable, they do to what refers to it.
LEMMA SettleBacks ==
  ASSUME BookInv, Settle, TypeOK', NEW r \in Receivables, RecvBacked(r) PROVE RecvBacked(r)'
<1> DEFINE row == recv[r]
           paid == To(applied, r)
           waived == Waived(waiver, r)
           invoiced == InvoicedIn(invoice, r, {})
<1>0. TypeOK /\ row \in Row /\ row.due \in Nat
  BY LedgerAssumption DEF BookInv, TypeOK, Row
<1>1. /\ applied \in Applications /\ applied' \in Applications
      /\ waiver \in [Waivers -> Waiver] /\ waiver' \in [Waivers -> Waiver]
      /\ invoice \in [Invoices -> Invoice] /\ invoice' \in [Invoices -> Invoice]
  BY <1>0, AppliedCents DEF TypeOK
<1>2. RowBacked(row, paid, waived, invoiced)
  BY <1>1, BackedRows
<1>3. paid \in Nat /\ waived \in Nat /\ invoiced \in Nat
  BY <1>1, SumsTyped, InvoicedNat
<1>4. SUFFICES RowBacked(recv'[r], To(applied', r), Waived(waiver', r), InvoicedIn(invoice', r, {}))
  BY <1>1, BackedRows
<1> DEFINE Backed == RowBacked(recv'[r], To(applied', r), Waived(waiver', r), InvoicedIn(invoice', r, {}))
<1>5. ASSUME NEW p \in Payments, NEW S \in SUBSET Receivables, NEW parts \in [S -> Amounts],
             Apply(p, parts)
      PROVE  Backed
  <2>1. /\ recv' = [q \in Receivables |-> IF q \in S THEN Paying(recv[q], parts[q]) ELSE recv[q]]
        /\ \A q \in S : Covers(q, parts[q])
        /\ UNCHANGED <<waiver, invoice>>
    BY <1>5 DEF Apply
  <2>2. applied' = [applied EXCEPT ![p] =
                     [q \in Receivables |-> @[q] + IF q \in DOMAIN parts THEN parts[q] ELSE 0]]
    BY <1>5 DEF Apply
  <2>3. To(applied', r) = paid + IF r \in S THEN parts[r] ELSE 0
    <3> DEFINE old == applied
               new == applied'
               a == IF r \in S THEN parts[r] ELSE 0
    <3>1. old \in Applications /\ new \in Applications
      BY <1>1
    <3>2. /\ new[p][r] = old[p][r] + a /\ a \in Nat
          /\ \A o \in Payments \ {p} : new[o] = old[o]
      BY <1>1, <2>2, LedgerAssumption DEF Applications
    <3> HIDE DEF old, new, a
    <3>3. To(new, r) = To(old, r) + a
      BY <3>1, <3>2, ReceivableMore
    <3> QED BY <3>3 DEF old, new, a
  <2>4. CASE r \in S
    <3>1. ~row.deleted /\ parts[r] \in Amounts /\ recv'[r] = Paying(row, parts[r])
      BY <2>1, <2>4 DEF Covers
    <3>2. RowBacked(Paying(row, parts[r]), paid + parts[r], waived, invoiced)
      <4> HIDE DEF row, paid, waived, invoiced
      <4> QED BY <1>0, <1>2, <1>3, <3>1, PayingBacked
    <3> QED BY <2>1, <2>3, <2>4, <3>1, <3>2
  <2>5. CASE r \notin S
    <3>1. recv'[r] = row /\ To(applied', r) = paid
      BY <1>3, <2>1, <2>3, <2>5
    <3> QED BY <1>2, <2>1, <3>1
  <2> QED BY <2>4, <2>5
<1>6. ASSUME NEW w \in Waivers, WaiverCreate(w) \/ WaiverReject(w) PROVE Backed
  <2>1. PICK s \in {"pending", "rejected"} : waiver' = [waiver EXCEPT ![w].status = s]
    BY <1>6 DEF WaiverCreate, WaiverReject
  <2>2. waiver[w].status # "approved" /\ UNCHANGED <<recv, applied, invoice>>
    BY <1>6 DEF WaiverCreate, WaiverReject
  <2>3. \A v \in Waivers : /\ waiver'[v].recv = waiver[v].recv /\ waiver'[v].amount = waiver[v].amount
                           /\ waiver'[v].status = "approved" <=> waiver[v].status = "approved"
    BY <1>1, <2>1, <2>2 DEF Waiver
  <2>4. Waived(waiver', r) = waived
    BY <2>3, WaivedAlike
  <2> QED BY <1>2, <2>2, <2>4
<1>7. ASSUME NEW w \in Waivers, WaiverApprove(w) PROVE Backed
  <2> DEFINE q == waiver[w].recv
             a == waiver[w].amount
  <2>1. /\ recv' = [recv EXCEPT ![q] = Waiving(recv[q], a)] /\ ~recv[q].deleted
        /\ waiver' = [waiver EXCEPT ![w].status = "approved"] /\ waiver[w].status = "pending"
        /\ UNCHANGED <<applied, invoice>>
    BY <1>7 DEF WaiverApprove, CanWaive, Undecided
  <2>2. q \in Receivables /\ a \in Amounts /\ a \in Nat
    BY <1>1, LedgerAssumption DEF Waiver
  <2>3. Waived(waiver', r) = waived + IF q = r THEN a ELSE 0
    <3> DEFINE old == waiver
               new == waiver'
    <3>1. old \in [Waivers -> Waiver] /\ old[w].status # "approved"
      BY <1>1, <2>1
    <3>2. /\ new[w].status = "approved" /\ \A v \in Waivers \ {w} : new[v].status = old[v].status
          /\ \A v \in Waivers : new[v].recv = old[v].recv /\ new[v].amount = old[v].amount
      BY <1>1, <2>1 DEF Waiver
    <3> HIDE DEF old, new
    <3>3. Waived(new, r) = Waived(old, r) + IF old[w].recv = r THEN old[w].amount ELSE 0
      BY <3>1, <3>2, OneWaiverMore
    <3> QED BY <3>3 DEF old, new
  <2>4. recv'[r] = IF q = r THEN Waiving(row, a) ELSE row
    BY <1>0, <2>1, <2>2 DEF TypeOK
  <2>5. CASE q = r
    <3>1. ~row.deleted
      BY <2>1, <2>5
    <3>2. RowBacked(Waiving(row, a), paid, waived + a, invoiced)
      <4> HIDE DEF row, paid, waived, invoiced, q, a
      <4> QED BY <1>0, <1>2, <1>3, <2>2, <3>1, WaivingBacked
    <3> QED BY <2>1, <2>3, <2>4, <2>5, <3>2
  <2>6. CASE q # r
    BY <1>2, <1>3, <2>1, <2>3, <2>4, <2>6
  <2> QED BY <2>5, <2>6
<1>9. ASSUME NEW i \in Invoices, NEW alloc \in [Receivables -> {0} \cup Amounts \cup Dues],
             NEW counted \in BOOLEAN, InvoiceSave(i, alloc, counted)
      PROVE  Backed
  <2> DEFINE new == [invoice EXCEPT ![i] = [alloc |-> alloc, counted |-> counted, deleted |-> FALSE]]
  <2>1. invoice' = new /\ Invoiced(new, Allocated(invoice[i].alloc) \cup Allocated(alloc))
        /\ UNCHANGED <<applied, waiver>>
    BY <1>9 DEF InvoiceSave
  <2>2. \A q \in Allocated(alloc) :
          ~recv[q].deleted /\ InvoicedIn(invoice, q, {i}) + alloc[q] <= recv[q].due + Tolerance
    BY <1>9 DEF InvoiceSave, Room
  <2>3. new[i].alloc = alloc /\ \A j \in Invoices \ {i} : new[j] = invoice[j]
    BY <1>1
  <2>4. new \in [Invoices -> Invoice]
    BY <1>1, <2>1
  <2> HIDE DEF new
  <2>5. r \in Allocated(invoice[i].alloc) \cup Allocated(alloc)
          <=> invoice[i].alloc[r] > 0 \/ new[i].alloc[r] > 0
    BY <2>3 DEF Allocated
  <2>6. new[i].alloc[r] > 0 =>
          ~row.deleted /\ InvoicedIn(invoice, r, {i}) + new[i].alloc[r] <= row.due + Tolerance
    BY <2>2, <2>3 DEF Allocated
  <2>7. RecvBacked(r)'
    <3> HIDE DEF Backed, row
    <3> QED BY <2>1, <2>3, <2>4, <2>5, <2>6, InvoiceBacks DEF row
  <2> QED BY <1>1, <2>7, BackedRows
<1>10. ASSUME NEW i \in Invoices, InvoiceDelete(i) PROVE Backed
  <2> DEFINE new == [invoice EXCEPT ![i].deleted = TRUE, ![i].counted = FALSE,
                                    ![i].alloc = [q \in Receivables |-> 0]]
  <2>1. invoice' = new /\ Invoiced(new, Allocated(invoice[i].alloc))
        /\ UNCHANGED <<applied, waiver>>
    BY <1>10 DEF InvoiceDelete
  <2>2. new[i].alloc[r] = 0 /\ \A j \in Invoices \ {i} : new[j] = invoice[j]
    BY <1>1 DEF Invoice
  <2>3. new \in [Invoices -> Invoice]
    BY <1>1, <2>1
  <2> HIDE DEF new
  <2>4. r \in Allocated(invoice[i].alloc) <=> invoice[i].alloc[r] > 0 \/ new[i].alloc[r] > 0
    BY <2>2 DEF Allocated
  <2>5. ~(new[i].alloc[r] > 0)
    BY <2>2
  <2>6. RecvBacked(r)'
    <3> HIDE DEF Backed, row
    <3> QED BY <2>1, <2>2, <2>3, <2>4, <2>5, InvoiceBacks DEF row
  <2> QED BY <1>1, <2>6, BackedRows
<1>11. ASSUME NEW q \in Receivables, Cancel(q) PROVE Backed
  <2>1. recv' = [recv EXCEPT ![q].status = "canceled", ![q].remain = 0]
        /\ UNCHANGED <<applied, waiver, invoice>>
    BY <1>11 DEF Cancel
  <2>2. recv'[r].due = row.due /\ recv'[r].paid = row.paid /\ recv'[r].waived = row.waived
        /\ recv'[r].deleted = row.deleted /\ recv'[r].invoiced = row.invoiced
    BY <1>0, <2>1 DEF TypeOK, Row
  <2> QED BY <1>2, <2>1, <2>2 DEF RowBacked, Untouched
<1>12. ASSUME NEW q \in Receivables, NEW due \in Dues, Adjust(q, due) PROVE Backed
  <2>1. recv' = [recv EXCEPT ![q] = NewRow(due)] /\ Untouched(recv[q])
        /\ UNCHANGED <<applied, waiver, invoice>>
    BY <1>12 DEF Adjust
  <2>2. NewRow(due).due \in Nat /\ Untouched(NewRow(due))
    BY LedgerAssumption DEF NewRow, Untouched
  <2>3. recv'[r] = IF q = r THEN NewRow(due) ELSE row
    BY <1>0, <2>1 DEF TypeOK
  <2>4. CASE q = r
    <3>1. Untouched(row)
      BY <2>1, <2>4
    <3> DEFINE x == NewRow(due)
    <3>2. x.due \in Nat /\ Untouched(x)
      BY <2>2
    <3> HIDE DEF x, row, paid, waived, invoiced
    <3>3. RowBacked(x, paid, waived, invoiced)
      BY <1>0, <1>2, <1>3, <3>1, <3>2, UntouchedBacked
    <3> QED BY <2>1, <2>3, <2>4, <3>3 DEF x, paid, waived, invoiced
  <2>5. CASE q # r
    BY <1>2, <2>1, <2>3, <2>5
  <2> QED BY <2>4, <2>5
<1> QED
  BY <1>5, <1>6, <1>7, <1>9, <1>10, <1>11, <1>12 DEF Settle

\* ... and to a payment, what they do to its applications.
LEMMA SettlePays ==
  ASSUME BookInv, Settle, TypeOK', NEW p \in Payments, PayBacked(p) PROVE PayBacked(p)'
<1>0. /\ TypeOK /\ applied \in Applications /\ applied' \in Applications
      /\ AppliedFrom(p) = From(applied, p) /\ AppliedFrom(p)' = From(applied', p)
  BY AppliedCents, SumsOfBooks DEF BookInv
<1>1. /\ pay[p].unapplied = pay[p].amount - From(applied, p)
      /\ pay[p].deleted => From(applied, p) = 0
  BY <1>0 DEF PayBacked
<1>2. SUFFICES /\ pay'[p].unapplied = pay'[p].amount - From(applied', p)
               /\ pay'[p].deleted => From(applied', p) = 0
  BY <1>0 DEF PayBacked
<1> DEFINE Backed == /\ pay'[p].unapplied = pay'[p].amount - From(applied', p)
                     /\ pay'[p].deleted => From(applied', p) = 0
<1>3. ASSUME UNCHANGED <<pay, applied>> PROVE Backed
  BY <1>1, <1>3
<1>4. ASSUME NEW q \in Payments, NEW S \in SUBSET Receivables, NEW parts \in [S -> Amounts],
             Apply(q, parts)
      PROVE  Backed
  <2> DEFINE sum == SumFunction(parts)
  <2>1. /\ pay' = [pay EXCEPT ![q].unapplied = @ - sum] /\ ~pay[q].deleted
        /\ applied' = [applied EXCEPT ![q] =
              [r \in Receivables |-> @[r] + IF r \in DOMAIN parts THEN parts[r] ELSE 0]]
    BY <1>4 DEF Apply
  <2>2. sum \in Nat
    BY PartsTyped
  <2>3. CASE q = p
    <3>1. From(applied', p) = From(applied, p) + sum
      <4> DEFINE old == applied
                 new == applied'
      <4>1. old \in Applications /\ new \in Applications
        BY <1>0
      <4>2. \A r \in Receivables : new[p][r] = old[p][r] + IF r \in S THEN parts[r] ELSE 0
        BY <1>0, <2>1, <2>3 DEF Applications
      <4> HIDE DEF old, new
      <4>3. From(new, p) = From(old, p) + SumFunction(parts)
        BY <4>1, <4>2, PaymentMore
      <4> QED BY <4>3 DEF old, new
    <3>2. pay'[p].unapplied = pay[p].unapplied - sum /\ pay'[p].amount = pay[p].amount
          /\ ~pay'[p].deleted
      BY <1>0, <2>1, <2>3 DEF TypeOK, Payment
    <3>3. From(applied, p) \in Nat /\ pay[p].amount \in Nat
      BY <1>0, SumsTyped, LedgerAssumption DEF TypeOK, Payment
    <3> HIDE DEF sum
    <3> QED BY <1>1, <2>2, <3>1, <3>2, <3>3
  <2>4. CASE q # p
    <3>1. pay'[p] = pay[p] /\ applied'[p] = applied[p]
      BY <1>0, <2>1, <2>4 DEF TypeOK
    <3> QED BY <1>1, <3>1 DEF From
  <2> QED BY <2>3, <2>4
<1> HIDE DEF Backed
<1>5. ASSUME NEW w \in Waivers, WaiverCreate(w) \/ WaiverApprove(w) \/ WaiverReject(w) PROVE Backed
  BY <1>3, <1>5 DEF WaiverCreate, WaiverApprove, WaiverReject
<1>6. ASSUME NEW i \in Invoices, NEW alloc, NEW counted,
             InvoiceSave(i, alloc, counted) \/ InvoiceDelete(i)
      PROVE  Backed
  BY <1>3, <1>6 DEF InvoiceSave, InvoiceDelete
<1>7. ASSUME NEW r \in Receivables, NEW due, Cancel(r) \/ Adjust(r, due) PROVE Backed
  BY <1>3, <1>7 DEF Cancel, Adjust
<1>8. Backed
  BY <1>4, <1>5, <1>6, <1>7 DEF Settle
<1> QED BY <1>8 DEF Backed

\* An editor that saves a receivable as it still is leaves it backed ...
LEMMA SaveBacks ==
  ASSUME BookInv, TypeOK', NEW e \in Editors, SaveUpdate(e), NEW r \in Receivables,
         RecvBacked(r), ~StaleSave(r)
  PROVE  RecvBacked(r)'
<1> DEFINE paid == To(applied, r)
           waived == Waived(waiver, r)
           invoiced == InvoicedIn(invoice, r, {})
           x == recv'[r]
<1>1. /\ applied \in Applications /\ applied' \in Applications /\ TypeOK
      /\ UNCHANGED <<applied, waiver, invoice>>
  BY AppliedCents, EditorSavesOne DEF BookInv
<1>2. RowBacked(recv[r], paid, waived, invoiced)
  BY <1>1, BackedRows
<1>3. SUFFICES RowBacked(x, paid, waived, invoiced)
  BY <1>1, BackedRows
<1>4. CASE x = recv[r]
  BY <1>2, <1>4
<1>5. CASE /\ memory[e].row = r /\ Harmless(memory[e])
           /\ memory[e].read = recv[r] /\ x = memory[e].write
  <2>2. Prudent(memory[e])
    BY <1>5 DEF BookInv, Inv, Remembers
  <2>3. /\ x.paid = recv[r].paid /\ x.waived = recv[r].waived /\ x.invoiced = recv[r].invoiced
        /\ Untouched(recv[r]) \/ (x.due = recv[r].due /\ ~x.deleted)
    BY <1>5, <2>2 DEF Prudent, Harmless
  <2>4. x.due \in Nat /\ recv[r].due \in Nat
    BY <1>1, LedgerAssumption DEF TypeOK, Row
  <2>5. invoiced \in Nat
    BY <1>1, InvoicedNat DEF TypeOK
  <2> DEFINE row == recv[r]
  <2>6. CASE Untouched(row)
    <3>1. Untouched(x)
      BY <2>3, <2>6 DEF Untouched
    <3> HIDE DEF x, row, paid, waived, invoiced
    <3>2. RowBacked(row, paid, waived, invoiced) /\ row.due \in Nat
      BY <1>2, <2>4 DEF row
    <3> QED BY <2>4, <2>5, <2>6, <3>1, <3>2, UntouchedBacked
  <2>7. CASE x.due = recv[r].due /\ ~x.deleted
    BY <1>2, <2>3, <2>7 DEF RowBacked
  <2> QED BY <2>3, <2>6, <2>7
<1>6. \/ x = recv[r]
      \/ /\ memory[e].row = r /\ Harmless(memory[e])
         /\ memory[e].read = recv[r] /\ x = memory[e].write
  BY EditorSavesOne
<1> QED BY <1>4, <1>5, <1>6

\* ... and so with a payment ...
LEMMA SavePays ==
  ASSUME BookInv, NEW e \in Editors, SaveUpdate(e), NEW p \in Payments, PayBacked(p), ~StaleSave(p)
  PROVE  PayBacked(p)'
<1>1. UNCHANGED applied
  BY EditorSavesOne
<1>2. AppliedFrom(p)' = AppliedFrom(p)
  BY <1>1 DEF AppliedFrom
<1>3. CASE pay'[p] = pay[p]
  BY <1>2, <1>3 DEF PayBacked
<1>4. CASE /\ Frugal(memory[e]) /\ memory[e].read.sum = AppliedFrom(p)
           /\ pay'[p] = memory[e].write
  BY <1>2, <1>4 DEF Frugal, PayBacked
<1>5. \/ pay'[p] = pay[p]
      \/ /\ Frugal(memory[e]) /\ memory[e].read.sum = AppliedFrom(p)
         /\ pay'[p] = memory[e].write
  BY EditorSavesOne
<1> QED BY <1>3, <1>4, <1>5

\* ... and with an invoice whose allocations are those that were validated.
LEMMA InvoiceUpdateBacks ==
  ASSUME BookInv, TypeOK', NEW e \in Editors, NEW counted \in BOOLEAN, InvoiceUpdate(e, counted),
         NEW r \in Receivables, RecvBacked(r), ~StaleInvoice(r)
  PROVE  RecvBacked(r)'
<1> DEFINE i == memory[e].row
           write == memory[e].write
           new == [invoice EXCEPT ![i].counted = counted]
<1>1. /\ i \in Invoices /\ Room(i, write) /\ invoice' = new
      /\ Invoiced(new, Allocated(invoice[i].alloc) \cup Allocated(write))
      /\ UNCHANGED <<applied, waiver>>
  BY DEF InvoiceUpdate
<1>2. memory'[e] = Idle /\ write = memory[e].read
  BY <1>1, UpdatesCareful DEF Updates, BookInv, Careful
<1>3. write[r] = invoice[i].alloc[r]
  <2> HIDE DEF Idle
  <2> QED BY <1>1, <1>2 DEF StaleInvoice
<1>4. /\ new \in [Invoices -> Invoice]
      /\ new[i].alloc = invoice[i].alloc /\ \A j \in Invoices \ {i} : new[j] = invoice[j]
  BY <1>1 DEF BookInv, TypeOK, Invoice
<1> HIDE DEF new, write
<1>5. r \in Allocated(invoice[i].alloc) \cup Allocated(write)
        <=> invoice[i].alloc[r] > 0 \/ new[i].alloc[r] > 0
  BY <1>3, <1>4 DEF Allocated
<1>6. new[i].alloc[r] > 0 =>
        ~recv[r].deleted /\ InvoicedIn(invoice, r, {i}) + new[i].alloc[r] <= recv[r].due + Tolerance
  BY <1>1, <1>3, <1>4 DEF Room, Allocated
<1> QED BY <1>1, <1>4, <1>5, <1>6, InvoiceBacks

\* Not a cent is lost or made up under the locks: only a stale save parts a receivable or a
\* payment from what refers to it, and a stale update of an invoice.
THEOREM DriftTheorem == Spec => DriftOnlyByStaleWrite
<1> DEFINE Drift ==
      /\ \A r \in Receivables : ~RecvBacked(r)' => ~RecvBacked(r) \/ StaleSave(r) \/ StaleInvoice(r)
      /\ \A p \in Payments : ~PayBacked(p)' => ~PayBacked(p) \/ StaleSave(p)
<1>1. BookInv /\ BookInv' /\ [Next]_vars => [Drift]_books
  <2> SUFFICES ASSUME BookInv, BookInv', [Next]_vars, ~UNCHANGED books PROVE Drift
    OBVIOUS
  <2>1. TypeOK'
    BY DEF BookInv
  <2>2. CASE Settle
    BY <2>1, <2>2, SettleBacks, SettlePays
  <2>3. ASSUME NEW e \in Editors, SaveUpdate(e) PROVE Drift
    BY <2>1, <2>3, SaveBacks, SavePays
  <2>4. ASSUME NEW e \in Editors, EditorStep(e), ~Updates(e) PROVE FALSE
    BY <2>4, EditorCareful
  <2>5. ~UNCHANGED vars
    BY DEF vars
  <2>6. ASSUME NEW e \in Editors, NEW counted \in BOOLEAN, InvoiceUpdate(e, counted) PROVE Drift
    <3>1. UNCHANGED <<pay, applied>>
      BY <2>6, InvoiceUpdateTyped
    <3>2. \A p \in Payments : PayBacked(p) => PayBacked(p)'
      BY <3>1 DEF PayBacked, AppliedFrom
    <3> QED BY <2>1, <2>6, <3>2, InvoiceUpdateBacks
  <2> QED BY <2>2, <2>3, <2>4, <2>5, <2>6 DEF Next, Updates
<1> QED BY <1>1, BookInvariance, PTL DEF Spec, DriftOnlyByStaleWrite

----------------------------------------------------------------------------
(* What holds if no editor saves a row that has changed, as with a version    *)
(* column that TypeORM compares, and what if no invoice is updated so either. *)

NoStaleSave == [][ \A x \in Receivables \cup Payments : ~StaleSave(x) ]_books
NoStaleInvoice == [][ \A r \in Receivables : ~StaleInvoice(r) ]_books

\* Nothing else mixes the columns of a receivable: without stale saves its row agrees with
\* itself at all times.
THEOREM RowsTheorem == Spec /\ NoStaleSave => [](\A r \in Receivables : Consistent(recv[r]))
<1> DEFINE Rows == \A r \in Receivables : Consistent(recv[r])
           Mixed == \A r \in Receivables :
             Consistent(recv[r]) /\ ~Consistent(recv'[r]) => StaleSave(r)
           Fresh == \A x \in Receivables \cup Payments : ~StaleSave(x)
<1>1. Init => Rows
  BY NewRowGood DEF Init, GoodRow
<1>2. Rows /\ [Mixed]_books /\ [Fresh]_books => Rows'
  BY DEF books
<1>3. Spec => [][Mixed]_books
  BY MixedTheorem DEF MixedOnlyByStaleSave
<1>4. NoStaleSave => [][Fresh]_books
  BY DEF NoStaleSave
<1> HIDE DEF Rows, Mixed, Fresh
<1>5. Spec /\ NoStaleSave => []Rows
  BY <1>1, <1>2, <1>3, <1>4, PTL DEF Spec
<1> QED BY <1>5 DEF Rows

\* Every row agrees with all that refer to it ...
AllBacked == /\ \A r \in Receivables : RecvBacked(r)
             /\ \A p \in Payments : PayBacked(p)

\* ... and what was paid of the receivables is what was used of the payments.
Conserved ==
  SumFunction([r \in Receivables |-> recv[r].paid])
  = SumFunction([p \in Payments |-> pay[p].amount - pay[p].unapplied])

\* New rows have nothing that refers to them.
LEMMA BackedInit == Init => AllBacked
<1> SUFFICES ASSUME Init PROVE AllBacked
  OBVIOUS
<1>1. ASSUME NEW r \in Receivables PROVE RecvBacked(r)
  <2> DEFINE f == [p \in Payments |-> applied[p][r]]
             g == [w \in Waivers |-> waiver[w].amount]
             W == {w \in Waivers : waiver[w].recv = r /\ waiver[w].status = "approved"}
             h == [i \in Invoices |-> invoice[i].alloc[r]]
             I == {i \in Invoices : invoice[i].counted}
  <2>1. \A p \in Payments : f[p] = 0
    BY DEF Init
  <2>2. W = {} /\ I = {}
    BY DEF Init
  <2>3. AppliedTo(r) = SumFunctionOnSet(f, Payments)
    BY DEF AppliedTo, SumFunction
  <2>4. WaivedFrom(r) = SumFunctionOnSet(g, W)
    BY DEF WaivedFrom
  <2>5. InvoicedIn(invoice, r, {}) = SumFunctionOnSet(h, I)
    <3>1. Invoices \ {} = Invoices
      OBVIOUS
    <3> QED BY <3>1 DEF InvoicedIn
  <2>6. PICK due \in Dues : recv[r] = NewRow(due)
    BY DEF Init
  <2> HIDE DEF f, g, W, h, I
  <2>7. AppliedTo(r) = 0 /\ WaivedFrom(r) = 0 /\ InvoicedIn(invoice, r, {}) = 0
    BY <2>1, <2>2, <2>3, <2>4, <2>5, SumOfZeros, SumEmpty, LedgerAssumption
  <2>8. 0 <= due + Tolerance
    BY LedgerAssumption
  <2> QED BY <2>6, <2>7, <2>8 DEF RecvBacked, NewRow, InvoiceStatus
<1>2. ASSUME NEW p \in Payments PROVE PayBacked(p)
  <2> DEFINE f == applied[p]
  <2>1. \A r \in Receivables : f[r] = 0
    BY DEF Init
  <2>2. AppliedFrom(p) = SumFunctionOnSet(f, Receivables)
    BY DEF AppliedFrom, SumFunction, Init
  <2>3. PICK a \in Dues : pay[p] = [amount |-> a, unapplied |-> a, deleted |-> FALSE]
    BY DEF Init
  <2> HIDE DEF f
  <2>4. AppliedFrom(p) = 0
    BY <2>1, <2>2, SumOfZeros, LedgerAssumption
  <2> QED BY <2>3, <2>4, LedgerAssumption DEF PayBacked
<1> QED BY <1>1, <1>2 DEF AllBacked

\* The table of the applications has one sum, by receivables and by payments.
LEMMA BackedConserves == TypeOK /\ AllBacked => Conserved
<1> SUFFICES ASSUME TypeOK, AllBacked PROVE Conserved
  OBVIOUS
<1> DEFINE table == applied
           byPayment == [p \in Payments |-> SumFunctionOnSet(table[p], Receivables)]
           byReceivable == [r \in Receivables |->
                              SumFunctionOnSet([p \in Payments |-> table[p][r]], Payments)]
           paid == [r \in Receivables |-> recv[r].paid]
           used == [p \in Payments |-> pay[p].amount - pay[p].unapplied]
<1>1. applied \in Applications
  BY AppliedCents
<1>2. \A r \in Receivables : paid[r] = byReceivable[r]
  <2> SUFFICES ASSUME NEW r \in Receivables PROVE paid[r] = byReceivable[r]
    OBVIOUS
  <2>1. recv[r].paid = AppliedTo(r)
    BY DEF AllBacked, RecvBacked
  <2>2. AppliedTo(r) = To(applied, r)
    BY <1>1, SumsOfBooks
  <2> QED BY <2>1, <2>2 DEF To
<1>3. \A p \in Payments : used[p] = byPayment[p]
  <2> SUFFICES ASSUME NEW p \in Payments PROVE used[p] = byPayment[p]
    OBVIOUS
  <2>1. pay[p].unapplied = pay[p].amount - AppliedFrom(p)
    BY DEF AllBacked, PayBacked
  <2>2. AppliedFrom(p) = From(applied, p)
    BY <1>1, SumsOfBooks
  <2>3. From(applied, p) \in Nat /\ pay[p].amount \in Nat
    BY <1>1, SumsTyped, LedgerAssumption DEF TypeOK, Payment
  <2>4. From(applied, p) = byPayment[p]
    BY DEF From
  <2> HIDE DEF byPayment
  <2>5. pay[p].amount - pay[p].unapplied = byPayment[p]
    BY <2>1, <2>2, <2>3, <2>4
  <2> QED BY <2>5
<1>4. \A p \in Payments, r \in Receivables : table[p][r] \in Int
  BY <1>1 DEF Applications
<1>5. SumFunction(paid) = SumFunctionOnSet(paid, Receivables)
      /\ SumFunction(used) = SumFunctionOnSet(used, Payments)
  BY DEF SumFunction
<1>6. SumFunctionOnSet(byPayment, Payments) = SumFunctionOnSet(byReceivable, Receivables)
  <2> HIDE DEF table
  <2> QED BY <1>4, SumSwap, LedgerAssumption
<1> HIDE DEF table, byPayment, byReceivable
<1>7. SumFunctionOnSet(paid, Receivables) = SumFunctionOnSet(byReceivable, Receivables)
  <2> HIDE DEF paid
  <2> QED BY <1>2, SumSame, LedgerAssumption
<1>8. SumFunctionOnSet(used, Payments) = SumFunctionOnSet(byPayment, Payments)
  <2> HIDE DEF used
  <2> QED BY <1>3, SumSame, LedgerAssumption
<1> QED BY <1>5, <1>6, <1>7, <1>8 DEF Conserved

\* The stale writes are the only defect of the books: without them every receivable and every
\* payment agrees with what refers to it, at all times, and no cent is lost or made up.
THEOREM BackedTheorem == Spec /\ NoStaleSave /\ NoStaleInvoice => [](AllBacked /\ Conserved)
<1> DEFINE Drift ==
      /\ \A r \in Receivables : ~RecvBacked(r)' => ~RecvBacked(r) \/ StaleSave(r) \/ StaleInvoice(r)
      /\ \A p \in Payments : ~PayBacked(p)' => ~PayBacked(p) \/ StaleSave(p)
           Fresh == \A x \in Receivables \cup Payments : ~StaleSave(x)
           Current == \A r \in Receivables : ~StaleInvoice(r)
<1>1. AllBacked /\ [Drift]_books /\ [Fresh]_books /\ [Current]_books => AllBacked'
  <2>1. AllBacked /\ Drift /\ Fresh /\ Current => AllBacked'
    BY DEF AllBacked
  <2>2. AllBacked /\ UNCHANGED books => AllBacked'
    BY DEF AllBacked, RecvBacked, PayBacked, books, InvoicedIn, AppliedTo, AppliedFrom,
           WaivedFrom, Untouched
  <2> QED BY <2>1, <2>2
<1>2. Spec => [][Drift]_books
  BY DriftTheorem DEF DriftOnlyByStaleWrite
<1>3. NoStaleSave => [][Fresh]_books
  BY DEF NoStaleSave
<1>4. NoStaleInvoice => [][Current]_books
  BY DEF NoStaleInvoice
<1> HIDE DEF Drift, Fresh, Current
<1>5. Spec /\ NoStaleSave /\ NoStaleInvoice => []AllBacked
  BY <1>1, <1>2, <1>3, <1>4, BackedInit, PTL DEF Spec
<1> QED BY <1>5, BackedConserves, LedgerTyped, PTL
=============================================================================

--------------------------- MODULE MCLeasingLedger ---------------------------
\* The instance of LeasingLedger for TLC: two receivables and two invoices, one of
\* everything else.
EXTENDS LeasingLedger

CONSTANTS r1, r2, p1, w1, i1, i2, e1,
          MaxOfOne,  \* bound: what is raised for r1 when r2 was voided before
          MaxOfBoth  \* bound: what is raised for both while r2 is only paid

TwoReceivables == {r1, r2}
OnePayment == {p1}
OneWaiver == {w1}
TwoInvoices == {i1, i2}
OneEditor == {e1}
\* Two units are due of a receivable: two steps, a payment's and a waiver's, may settle it.
Due == {2}
Unit == {1}

\* The units applied, the waiver and the invoices of a receivable.
Raised(r) == AppliedTo(r)
             + Cardinality({w \in Waivers : waiver[w].recv = r /\ waiver[w].status # "none"})
             + Cardinality({i \in Invoices : invoice[i].alloc[r] > 0})
Withdrawn == Cardinality({i \in Invoices : invoice[i].deleted})

OnlyPaid(r) == /\ recv[r].status \in {"generated", "partial", "paid"}
               /\ Raised(r) = AppliedTo(r)
               /\ memory[e1].row = r => memory[e1].write.deleted
Voided(r) == recv[r].deleted /\ Raised(r) = 0

\* Much may happen to one receivable, and less to two that share a payment.
Bounded ==
  \/ OnlyPaid(r2) /\ Raised(r1) + Raised(r2) + Withdrawn <= MaxOfBoth
  \/ Voided(r2) /\ Raised(r1) + Withdrawn <= MaxOfOne

\* Invoices differ in nothing but their name.
InvoiceSymmetry == Permutations(TwoInvoices)
=============================================================================

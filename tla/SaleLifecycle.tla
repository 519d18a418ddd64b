--------------------------- MODULE SaleLifecycle ---------------------------
(* What the canteen promises about the sales of one employee: a sale that    *)
(* was dropped or given back stays so, the subsidy of a sale is charged at   *)
(* most once, in the very step that settles it, and nothing is given back    *)
(* before it was settled.                                                    *)
EXTENDS Naturals

CONSTANT Orders

VARIABLES sale,     \* "none", "open", "settled", "dropped" or "returned"
          charged,  \* how often the subsidy of a sale was charged
          returned  \* how often a sale was given back

vars == <<sale, charged, returned>>

Init == /\ sale = [o \in Orders |-> "none"]
        /\ charged = [o \in Orders |-> 0]
        /\ returned = [o \in Orders |-> 0]

Move(o, from, to) == /\ sale[o] \in from
                     /\ sale' = [sale EXCEPT ![o] = to]

Open(o) == Move(o, {"none"}, "open") /\ UNCHANGED <<charged, returned>>

Settle(o) == /\ Move(o, {"none", "open"}, "settled")
             /\ \E c \in {0, 1} : charged' = [charged EXCEPT ![o] = c]
             /\ UNCHANGED returned

Drop(o) == Move(o, {"open"}, "dropped") /\ UNCHANGED <<charged, returned>>

GiveBack(o) == /\ Move(o, {"settled"}, "returned")
               /\ returned' = [returned EXCEPT ![o] = 1]
               /\ UNCHANGED charged

Next == \E o \in Orders : Open(o) \/ Settle(o) \/ Drop(o) \/ GiveBack(o)

Spec == Init /\ [][Next]_vars
=============================================================================

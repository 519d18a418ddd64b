------------------------- MODULE CanteenSalesProofs -------------------------
(***************************************************************************)
(* Proofs about CanteenSales, for any orders, prices, grant and months.     *)
(***************************************************************************)
EXTENDS CanteenSales, FiniteSetTheorems, TLAPS

GrantStatuses == {"none", "granted", "partially_consumed", "consumed", "expired"}

\* TypeOK with the tables as sequences, and the periods of orders that exist.
BooksTyped == /\ wallet \in Wallet /\ grants \in [Periods -> GrantStatuses]
              /\ journal \in Seq(Line)
SalesTyped == /\ order \in [Orders -> Order]
              /\ payment \in [Orders -> {"none", "pending", "paid", "closed", "refunded"}]
              /\ meal \in [Orders -> {"none", "normal", "voided"}]
              /\ \A o \in Orders : order[o].status # "none" => order[o].period \in Periods
ReviewsTyped == /\ refunds \in [Orders -> Seq(Refund)]
                /\ calling \subseteq back /\ back \subseteq Orders \X Nat
GrantsTyped == /\ granting = [p \in Periods |-> granting[p]]
               /\ \A p \in Periods : granting[p] = {} \/ \E row \in Wallet : granting[p] = {row}
Typed == /\ month \in Periods /\ sweep \in 0 .. Months
         /\ BooksTyped /\ SalesTyped /\ ReviewsTyped /\ GrantsTyped

----------------------------------------------------------------------------
(* What the helpers compute.                                                *)

\* The amount left of x, not less than zero.
LEMMA MaxZero == ASSUME NEW x \in Int PROVE Max({0, x}) = IF x > 0 THEN x ELSE 0
<1> DEFINE m == IF x > 0 THEN x ELSE 0
<1>1. m \in {0, x} /\ \A y \in {0, x} : m >= y
  OBVIOUS
<1>2. \A z \in {0, x} : (\A y \in {0, x} : z >= y) => z = m
  OBVIOUS
<1> HIDE DEF m
<1>3. (CHOOSE z \in {0, x} : \A y \in {0, x} : z >= y) = m
  BY <1>1, <1>2
<1> QED BY <1>3 DEF Max, m

\* The smaller of two amounts.
LEMMA MinOf == ASSUME NEW a \in Nat, NEW b \in Nat PROVE Min({a, b}) = IF a < b THEN a ELSE b
<1> DEFINE m == IF a < b THEN a ELSE b
<1>1. m \in {a, b} /\ \A y \in {a, b} : m <= y
  OBVIOUS
<1>2. \A z \in {a, b} : (\A y \in {a, b} : z <= y) => z = m
  OBVIOUS
<1> HIDE DEF m
<1>3. (CHOOSE z \in {a, b} : \A y \in {a, b} : z <= y) = m
  BY <1>1, <1>2
<1> QED BY <1>3 DEF Min, m

\* A line is entered after the others.
LEMMA EnterTypes ==
  ASSUME BooksTyped, NEW type \in {"grant", "consume", "refund", "expire"},
         NEW o \in Orders \cup {"none"}, NEW p \in Periods, NEW a \in Int, NEW left \in Nat,
         Enter(type, o, p, a, left)
  PROVE  journal' \in Seq(Line)
<1>1. [type |-> type, order |-> o, period |-> p, amount |-> a, after |-> left] \in Line
  BY DEF Line
<1> QED BY <1>1 DEF Enter, BooksTyped

\* A charge: the consume line, the wallet and the grant it leaves.
LEMMA ChargeTypes ==
  ASSUME BooksTyped, NEW o \in Orders, NEW p \in Periods, NEW a \in Nat, Charge(o, p, a)
  PROVE  /\ BooksTyped'
         /\ wallet'.balance = (IF wallet.balance > a THEN wallet.balance - a ELSE 0)
         /\ wallet'.consumed = wallet.consumed + a
         /\ wallet'.grant = wallet.grant /\ wallet'.expired = wallet.expired
         /\ Enter("consume", o, p, -a, wallet'.balance)
<1> DEFINE left == Max({0, wallet.balance - a})
<1>1. wallet.balance \in Nat /\ wallet.consumed \in Nat /\ wallet \in Wallet
  BY DEF BooksTyped, Wallet
<1>2. left = (IF wallet.balance > a THEN wallet.balance - a ELSE 0) /\ left \in Nat
  BY <1>1, MaxZero
<1>3. /\ wallet' = [wallet EXCEPT !.consumed = @ + a, !.balance = left]
      /\ Enter("consume", o, p, -a, left)
      /\ grants' = [grants EXCEPT ![p] = IF left = 0 THEN "consumed" ELSE "partially_consumed"]
  BY DEF Charge
<1> HIDE DEF left
<1>4. journal' \in Seq(Line)
  <2>1. -a \in Int
    OBVIOUS
  <2> QED BY <1>2, <1>3, <2>1, EnterTypes
<1>5. wallet.consumed + a \in Nat /\ left \in Nat
  BY <1>1, <1>2
<1>6. wallet' \in Wallet /\ wallet'.balance = left /\ wallet'.consumed = wallet.consumed + a
      /\ wallet'.grant = wallet.grant /\ wallet'.expired = wallet.expired
  BY <1>1, <1>3, <1>5 DEF Wallet
<1>7. grants' \in [Periods -> GrantStatuses]
  BY <1>3 DEF BooksTyped, GrantStatuses
<1> QED BY <1>2, <1>3, <1>4, <1>6, <1>7 DEF BooksTyped

\* An order that is opened.
LEMMA OpensTypes ==
  ASSUME Typed, NEW o \in Orders, NEW a \in Nat, NEW s \in Nat,
         NEW status \in {"pending", "paid"}, NEW channel \in {"qr_pay", "subsidy", "mixed"},
         Opens(o, status, channel, a, s)
  PROVE  /\ order' \in [Orders -> Order]
         /\ \A q \in Orders : order'[q].status # "none" => order'[q].period \in Periods
         /\ \A q \in Orders \ {o} : order'[q] = order[q]
         /\ order'[o].status = status /\ order'[o].channel = channel
         /\ order'[o].pay = a /\ order'[o].subsidy = s
<1> DEFINE x == [status |-> status, channel |-> channel, pay |-> a, subsidy |-> s,
                 period |-> month]
<1>1. x \in Order /\ x.period \in Periods
  BY CanteenAssumption DEF Order, Typed, Periods
<1>2. order' = [order EXCEPT ![o] = x]
  BY DEF Opens
<1> HIDE DEF x
<1>3. order'[o] = x /\ order' \in [Orders -> Order] /\ \A q \in Orders \ {o} : order'[q] = order[q]
  BY <1>1, <1>2 DEF Typed, SalesTyped
<1> QED BY <1>1, <1>3 DEF x, Typed, SalesTyped

\* An order whose status changes is otherwise what it was.
LEMMA StatusTypes ==
  ASSUME SalesTyped, NEW o \in Orders, order[o].status # "none",
         NEW status \in {"paid", "completed", "cancelled", "refunded", order[o].status},
         order' = [order EXCEPT ![o].status = status]
  PROVE  /\ order' \in [Orders -> Order]
         /\ \A q \in Orders : order'[q].status # "none" => order'[q].period \in Periods
         /\ \A q \in Orders \ {o} : order'[q] = order[q]
         /\ order'[o].status = status /\ order'[o].channel = order[o].channel
         /\ order'[o].pay = order[o].pay /\ order'[o].subsidy = order[o].subsidy
<1>1. /\ order'[o] = [order[o] EXCEPT !.status = status] /\ order[o] \in Order
      /\ \A q \in Orders \ {o} : order'[q] = order[q]
      /\ order' = [q \in Orders |-> order'[q]]
  BY DEF SalesTyped
<1>2. /\ order'[o] \in Order /\ order'[o].status = status
      /\ order'[o].channel = order[o].channel /\ order'[o].pay = order[o].pay
      /\ order'[o].subsidy = order[o].subsidy /\ order'[o].period = order[o].period
  BY <1>1 DEF Order
<1>3. order' \in [Orders -> Order]
  BY <1>1, <1>2 DEF SalesTyped
<1> QED BY <1>1, <1>2, <1>3 DEF SalesTyped

\* A refund whose status changes.
LEMMA RefundTypes ==
  ASSUME ReviewsTyped, NEW o \in Orders, NEW i \in DOMAIN refunds[o],
         NEW status \in {"succeeded", "failed"},
         refunds' = [refunds EXCEPT ![o][i].status = status]
  PROVE  /\ refunds' \in [Orders -> Seq(Refund)]
         /\ \A q \in Orders \ {o} : refunds'[q] = refunds[q]
         /\ DOMAIN refunds'[o] = DOMAIN refunds[o] /\ Len(refunds'[o]) = Len(refunds[o])
         /\ refunds'[o][i].status = status
         /\ \A j \in DOMAIN refunds[o] \ {i} : refunds'[o][j] = refunds[o][j]
<1>1. refunds[o] \in Seq(Refund) /\ refunds[o][i] \in Refund
  BY DEF ReviewsTyped
<1> DEFINE row == [refunds[o][i] EXCEPT !.status = status]
           list == [refunds[o] EXCEPT ![i] = row]
<1>2. row \in Refund /\ row.status = status
  BY <1>1 DEF Refund
<1>3. refunds' = [refunds EXCEPT ![o] = list]
  OBVIOUS
<1> HIDE DEF row
<1>4. /\ list \in Seq(Refund) /\ DOMAIN list = DOMAIN refunds[o] /\ Len(list) = Len(refunds[o])
      /\ list[i] = row /\ \A j \in DOMAIN refunds[o] \ {i} : list[j] = refunds[o][j]
  BY <1>1, <1>2
<1> HIDE DEF list
<1> QED BY <1>2, <1>3, <1>4 DEF ReviewsTyped

----------------------------------------------------------------------------
(* Type correctness.                                                        *)

\* What has been read for a grant and is kept.
LEMMA GrantsKept == ASSUME GrantsTyped, granting' = granting PROVE GrantsTyped'
  BY DEF GrantsTyped

\* A check-out keeps the types.
LEMMA CheckoutTypes == ASSUME Typed, NEW o \in Orders, Checkout(o) PROVE Typed'
<1> USE DEF books, sales, reviews, jobs
<1>0. PICK a \in Amounts : CheckoutQr(o, a) \/ CheckoutSubsidy(o, a) \/ CheckoutMixed(o, a)
  BY DEF Checkout
<1>1. a \in Nat /\ Available \in Nat /\ month \in Periods
  BY CanteenAssumption DEF Available, Typed, BooksTyped, Wallet
<1>2. CASE CheckoutQr(o, a)
  <2>1. Opens(o, "pending", "qr_pay", a, 0)
    BY <1>2 DEF CheckoutQr
  <2>2. /\ order' \in [Orders -> Order]
        /\ \A q \in Orders : order'[q].status # "none" => order'[q].period \in Periods
    BY <1>1, <2>1, OpensTypes
  <2> QED BY <1>2, <2>2 DEF CheckoutQr, Typed, BooksTyped, SalesTyped, ReviewsTyped, GrantsTyped
<1>3. CASE CheckoutSubsidy(o, a)
  <2>1. Opens(o, "paid", "subsidy", a, a) /\ Charge(o, month, a)
    BY <1>3 DEF CheckoutSubsidy
  <2>2. /\ order' \in [Orders -> Order]
        /\ \A q \in Orders : order'[q].status # "none" => order'[q].period \in Periods
    BY <1>1, <2>1, OpensTypes
  <2>3. BooksTyped'
    BY <1>1, <2>1, ChargeTypes DEF Typed
  <2> QED BY <1>3, <2>2, <2>3 DEF CheckoutSubsidy, Typed, SalesTyped, ReviewsTyped, GrantsTyped
<1>4. CASE CheckoutMixed(o, a)
  <2>1. Min({Available, a}) \in Nat
    BY <1>1, MinOf
  <2>2. Opens(o, "pending", "mixed", a, Min({Available, a}))
    BY <1>4 DEF CheckoutMixed
  <2>3. /\ order' \in [Orders -> Order]
        /\ \A q \in Orders : order'[q].status # "none" => order'[q].period \in Periods
    BY <1>1, <2>1, <2>2, OpensTypes
  <2> QED BY <1>4, <2>3 DEF CheckoutMixed, Typed, BooksTyped, SalesTyped, ReviewsTyped, GrantsTyped
<1> QED BY <1>0, <1>2, <1>3, <1>4

\* A sale that settles or closes.
LEMMA PaymentTypes ==
  ASSUME Typed, NEW o \in Orders, order[o].status # "none",
         ApplySuccess(o) \/ Timeout(o) \/ RefundedCallback(o)
  PROVE  Typed'
<1> USE DEF books, sales, reviews, jobs
<1>1. CASE ApplySuccess(o)
  <2>1. order' = [order EXCEPT ![o].status = "completed"]
    BY <1>1 DEF ApplySuccess
  <2>2. /\ order' \in [Orders -> Order]
        /\ \A q \in Orders : order'[q].status # "none" => order'[q].period \in Periods
    BY <2>1, StatusTypes DEF Typed
  <2>3. order[o].period \in Periods /\ order[o].subsidy \in Nat
    BY DEF Typed, SalesTyped, Order
  <2>4. BooksTyped'
    <3>1. CASE order[o].channel = "mixed"
      BY <1>1, <2>3, <3>1, ChargeTypes DEF ApplySuccess, Typed
    <3>2. CASE order[o].channel # "mixed"
      BY <1>1, <3>2 DEF ApplySuccess, Typed, BooksTyped
    <3> QED BY <3>1, <3>2
  <2> QED BY <1>1, <2>2, <2>4 DEF ApplySuccess, Typed, SalesTyped, ReviewsTyped, GrantsTyped
<1>2. CASE ApplyClosed(o)
  <2> DEFINE status == IF order[o].status = "pending" THEN "cancelled" ELSE order[o].status
  <2>1. order' = [order EXCEPT ![o].status = status]
    BY <1>2 DEF ApplyClosed, CancelPending
  <2>2. status \in {"paid", "completed", "cancelled", "refunded", order[o].status}
    OBVIOUS
  <2> HIDE DEF status
  <2>3. /\ order' \in [Orders -> Order]
        /\ \A q \in Orders : order'[q].status # "none" => order'[q].period \in Periods
    BY <2>1, <2>2, StatusTypes DEF Typed
  <2>4. /\ payment' \in [Orders -> {"none", "pending", "paid", "closed", "refunded"}]
        /\ meal' \in [Orders -> {"none", "normal", "voided"}]
    BY <1>2 DEF ApplyClosed, CancelPending, Typed, SalesTyped
  <2> QED BY <1>2, <2>3, <2>4 DEF ApplyClosed, Typed, BooksTyped, SalesTyped, ReviewsTyped, GrantsTyped
<1> QED BY <1>1, <1>2 DEF Timeout, RefundedCallback

\* What the review of a refund does to the sale.
LEMMA ReviewTypes ==
  ASSUME Typed, NEW o \in Orders, order[o].status # "none", NEW i \in DOMAIN refunds[o],
         \/ ApproveWallet(o, i) \/ ApproveCall(o, i) \/ ApproveCommit(o, i)
         \/ ApproveAbort(o, i) \/ Reject(o, i)
  PROVE  Typed'
<1> USE DEF books, sales, reviews, jobs
<1>1. ASSUME Succeeds(o, i)
      PROVE  /\ refunds' \in [Orders -> Seq(Refund)] /\ order' \in [Orders -> Order]
             /\ \A q \in Orders : order'[q].status # "none" => order'[q].period \in Periods
  BY <1>1, RefundTypes, StatusTypes DEF Succeeds, Typed
<1>2. refunds[o][i] \in Refund /\ refunds[o][i].amount \in Nat /\ i \in Nat
  <2>1. refunds[o] \in Seq(Refund) /\ i \in 1 .. Len(refunds[o])
    BY DEF Typed, ReviewsTyped
  <2>2. refunds[o][i] \in Refund
    BY <2>1
  <2>3. refunds[o][i].amount \in Amounts
    BY <2>2 DEF Refund
  <2>4. refunds[o][i].amount \in Nat
    BY <2>3, CanteenAssumption
  <2>5. i \in Nat
    BY <2>1
  <2> QED BY <2>2, <2>4, <2>5
<1>3. CASE ApproveWallet(o, i)
  <2> DEFINE a == refunds[o][i].amount
  <2>1. a \in Nat /\ Credit(a) \in Nat /\ ConsumedLess(a) \in Nat /\ wallet \in Wallet
    <3>1. wallet.balance \in Nat /\ wallet.consumed \in Nat /\ wallet \in Wallet
      BY DEF Typed, BooksTyped, Wallet
    <3> QED BY <1>2, <3>1, MaxZero DEF Credit, ConsumedLess
  <2>2. CASE /\ wallet' = [wallet EXCEPT !.consumed = ConsumedLess(a), !.balance = Credit(a)]
             /\ Enter("refund", o, month, a, Credit(a))
    <3>1. wallet' \in Wallet
      BY <2>1, <2>2 DEF Wallet
    <3>2. journal' \in Seq(Line)
      BY <2>1, <2>2, EnterTypes DEF Typed
    <3> QED BY <1>1, <1>3, <3>1, <3>2
            DEF ApproveWallet, Typed, BooksTyped, SalesTyped, ReviewsTyped, GrantsTyped
  <2>3. CASE UNCHANGED <<wallet, journal>>
    BY <1>1, <1>3, <2>3 DEF ApproveWallet, Typed, BooksTyped, SalesTyped, ReviewsTyped, GrantsTyped
  <2> QED BY <1>3, <2>2, <2>3 DEF ApproveWallet
<1>4. CASE ApproveCall(o, i) \/ ApproveAbort(o, i)
  <2>1. GrantsTyped'
    BY <1>4, GrantsKept DEF ApproveCall, ApproveAbort, Typed
  <2> QED BY <1>2, <1>4, <2>1 DEF ApproveCall, ApproveAbort, Typed, BooksTyped, SalesTyped, ReviewsTyped
<1>5. CASE ApproveCommit(o, i)
  BY <1>1, <1>5 DEF ApproveCommit, Typed, BooksTyped, SalesTyped, ReviewsTyped, GrantsTyped
<1>6. CASE Reject(o, i)
  <2>1. refunds' \in [Orders -> Seq(Refund)]
    BY <1>6, RefundTypes DEF Reject, Typed
  <2> QED BY <1>6, <2>1 DEF Reject, Typed, BooksTyped, SalesTyped, ReviewsTyped, GrantsTyped
<1> QED BY <1>3, <1>4, <1>5, <1>6

\* Asking for a refund keeps the types, and appends a refund under review.
LEMMA CreateRefundTypes ==
  ASSUME Typed, NEW o \in Orders, NEW a \in Amounts, CreateRefund(o, a)
  PROVE  /\ Typed' /\ refunds[o] \in Seq(Refund)
         /\ refunds'[o] = Append(refunds[o], [status |-> "pending", amount |-> a])
         /\ \A q \in Orders \ {o} : refunds'[q] = refunds[q]
<1> DEFINE row == [status |-> "pending", amount |-> a]
<1>1. row \in Refund
  BY DEF Refund
<1>2. refunds' = [refunds EXCEPT ![o] = Append(@, row)]
  BY DEF CreateRefund
<1> HIDE DEF row
<1>3. /\ refunds' \in [Orders -> Seq(Refund)] /\ refunds[o] \in Seq(Refund)
      /\ refunds'[o] = Append(refunds[o], row)
      /\ \A q \in Orders \ {o} : refunds'[q] = refunds[q]
  BY <1>1, <1>2 DEF Typed, ReviewsTyped
<1>4. Typed'
  BY <1>3 DEF CreateRefund, books, sales, jobs, Typed, BooksTyped, SalesTyped, ReviewsTyped, GrantsTyped
<1> QED BY <1>3, <1>4 DEF row

\* A grant enters what it would grant, and leaves that in the wallet or, if it is late, some
\* of what it finds there.
LEMMA GrantWrites ==
  ASSUME Typed, NEW p \in Periods, GrantOne(p)
  PROVE  /\ wallet' \in Wallet /\ Enter("grant", "none", p, Grant, Grant)
         /\ wallet'.balance = Grant \/ (LateGrant /\ wallet'.balance = wallet.balance)
         /\ \/ LateGrant
            \/ /\ wallet'.balance = Grant /\ wallet'.grant = Grant
               /\ wallet'.consumed = 0 /\ wallet'.expired = 0
<1> DEFINE new == Reset(p)
<1>1. PICK read \in granting[p] :
        /\ grants[p] = "none" /\ grants' = [grants EXCEPT ![p] = "granted"]
        /\ wallet' = [c \in DOMAIN wallet |-> IF read[c] = new[c] THEN wallet[c] ELSE new[c]]
        /\ Enter("grant", "none", p, Grant, Grant)
  BY DEF GrantOne
<1>2. wallet \in Wallet /\ read \in Wallet /\ granting[p] = {read}
  BY DEF Typed, BooksTyped, GrantsTyped
<1>3. /\ new \in Wallet /\ new.balance = Grant /\ new.grant = Grant
      /\ new.consumed = 0 /\ new.expired = 0
  BY CanteenAssumption DEF Reset, Wallet, Periods
<1> HIDE DEF new
<1>4. /\ wallet' \in Wallet
      /\ wallet'.balance = (IF read.balance = new.balance THEN wallet.balance ELSE new.balance)
      /\ wallet'.grant = (IF read.grant = new.grant THEN wallet.grant ELSE new.grant)
      /\ wallet'.consumed = (IF read.consumed = new.consumed THEN wallet.consumed ELSE new.consumed)
      /\ wallet'.expired = (IF read.expired = new.expired THEN wallet.expired ELSE new.expired)
  BY <1>1, <1>2, <1>3 DEF Wallet
<1>5. LateGrant \/ read = wallet
  <2>1. grants'[p] = "granted"
    BY <1>1 DEF Typed, BooksTyped
  <2> QED BY <1>1, <1>2, <2>1 DEF LateGrant
<1>6. read = wallet => /\ wallet'.balance = Grant /\ wallet'.grant = Grant
                       /\ wallet'.consumed = 0 /\ wallet'.expired = 0
  BY <1>3, <1>4
<1>7. wallet'.balance = Grant \/ wallet'.balance = wallet.balance
  BY <1>3, <1>4
<1> QED BY <1>1, <1>4, <1>5, <1>6, <1>7

\* Grants, expiry and the calendar.
LEMMA SubsidyTypes ==
  ASSUME Typed, \/ \E p \in Periods : \/ GrantRead(p) \/ GrantOne(p) \/ GrantFail(p)
                                       \/ ExpireList(p)
                \/ ExpireOne \/ ExpireNothing \/ NewMonth
  PROVE  Typed'
<1> USE DEF books, sales, reviews, jobs
<1>1. ASSUME NEW p \in Periods, GrantOne(p) PROVE Typed'
  <2>1. wallet' \in Wallet /\ Enter("grant", "none", p, Grant, Grant)
        /\ Grant \in Nat /\ Grant \in Int
    BY <1>1, GrantWrites, CanteenAssumption
  <2>2. journal' \in Seq(Line)
    BY <2>1, EnterTypes DEF Typed
  <2>3. grants' \in [Periods -> GrantStatuses]
    BY <1>1 DEF GrantOne, Typed, BooksTyped, GrantStatuses
  <2>4. GrantsTyped'
    BY <1>1 DEF GrantOne, Typed, GrantsTyped
  <2> QED BY <1>1, <2>1, <2>2, <2>3, <2>4
          DEF GrantOne, Typed, BooksTyped, SalesTyped, ReviewsTyped
<1>2. ASSUME NEW p \in Periods, ExpireList(p) PROVE Typed'
  <2>1. GrantsTyped'
    BY <1>2, GrantsKept DEF ExpireList, Typed
  <2> QED BY <1>2, <2>1, CanteenAssumption
          DEF ExpireList, Typed, BooksTyped, SalesTyped, ReviewsTyped, Periods
<1>3. CASE ExpireOne
  <2>1. sweep \in Periods /\ wallet \in Wallet /\ wallet.balance \in Nat /\ wallet.expired \in Nat
    BY <1>3, CanteenAssumption DEF ExpireOne, Typed, BooksTyped, Wallet, Periods
  <2>2. -wallet.balance \in Int /\ wallet.expired + wallet.balance \in Nat
    BY <2>1
  <2>3. wallet' \in Wallet
    BY <1>3, <2>1, <2>2 DEF ExpireOne, Wallet
  <2>4. journal' \in Seq(Line)
    BY <1>3, <2>1, <2>2, EnterTypes DEF ExpireOne, Typed
  <2>5. grants' \in [Periods -> GrantStatuses]
    BY <1>3, <2>1 DEF ExpireOne, Typed, BooksTyped, GrantStatuses
  <2>6. GrantsTyped'
    BY <1>3, GrantsKept DEF ExpireOne, Typed
  <2> QED BY <1>3, <2>3, <2>4, <2>5, <2>6, CanteenAssumption
          DEF ExpireOne, Typed, BooksTyped, SalesTyped, ReviewsTyped
<1>4. CASE ExpireNothing \/ NewMonth
  <2>1. GrantsTyped'
    BY <1>4, GrantsKept DEF ExpireNothing, NewMonth, Typed
  <2> QED BY <1>4, <2>1, CanteenAssumption
          DEF ExpireNothing, NewMonth, Typed, BooksTyped, SalesTyped, ReviewsTyped, Periods
<1>5. ASSUME NEW p \in Periods, GrantRead(p) \/ GrantFail(p) PROVE Typed'
  <2>1. wallet \in Wallet
    BY DEF Typed, BooksTyped
  <2>2. GrantsTyped'
    BY <1>5, <2>1 DEF GrantRead, GrantFail, Typed, GrantsTyped
  <2> QED BY <1>5, <2>2 DEF GrantRead, GrantFail, Typed, BooksTyped, SalesTyped, ReviewsTyped
<1> QED BY <1>1, <1>2, <1>3, <1>4, <1>5

----------------------------------------------------------------------------
(* The inductive invariant: what the tables say of one sale.                *)

SaleAgrees(o) ==
  /\ payment[o] = "pending" <=> order[o].status = "pending"
  /\ payment[o] = "paid" =>
       order[o].status = "completed" \/ (order[o].status = "refunded" /\ ByWallet(o))
  /\ payment[o] = "refunded" => order[o].status = "refunded"
  /\ payment[o] = "closed" => order[o].status \in {"cancelled", "refunded"}
  /\ meal[o] = "voided" <=> order[o].status = "cancelled" /\ order[o].channel = "mixed"
  /\ order[o].channel = "qr_pay" <=> order[o].subsidy = 0
  /\ order[o].status = "pending" => order[o].channel # "subsidy"

\* One refund is under review, of a settled sale; one succeeds; and the channel is
\* called for refunds of the sale that are under review.
RefundsAgree(o) ==
  /\ \A i, j \in Pending(o) : i = j
  /\ Pending(o) # {} => order[o].status \in {"paid", "completed"}
  /\ refunds[o] # <<>> => Settled(o)
  /\ \A i, j \in Returned(o) : i = j
  /\ order[o].status = "refunded" <=> Returned(o) # {}
  /\ \A i \in Nat : <<o, i>> \in calling => i \in Pending(o)
  /\ \A i \in Nat : <<o, i>> \in back => i \in DOMAIN refunds[o] /\ ~ByWallet(o)

LinesAgree(o) ==
  /\ IF Settled(o) /\ order[o].subsidy > 0 THEN \E k \in Nat : Lines(o, "consume") = {k}
                                            ELSE Lines(o, "consume") = {}
  /\ \A k, l \in Lines(o, "refund") : k = l
  /\ Lines(o, "refund") # {} => order[o].status = "refunded" /\ ByWallet(o)

Agrees(o) == SaleAgrees(o) /\ RefundsAgree(o) /\ LinesAgree(o)

Inv == Typed /\ \A o \in Orders : Agrees(o)

\* What a step enters in the journal explains what it does to the balance.
Explains ==
  /\ wallet'.balance # wallet.balance => journal' # journal
  /\ journal' # journal =>
       LET line == Last(journal')
       IN  /\ journal' # <<>>
           /\ wallet'.balance = line.after \/ (LateGrant /\ wallet'.balance = wallet.balance)
           /\ \/ line.type = "grant" /\ line.after = line.amount
              \/ line.after = wallet.balance + line.amount
              \/ line.type = "consume" /\ wallet.balance + line.amount < 0 /\ line.after = 0

\* A sale whose rows do not change.
Untouched(o) ==
  /\ order'[o] = order[o] /\ payment'[o] = payment[o] /\ meal'[o] = meal[o]
  /\ refunds'[o] = refunds[o]
  /\ \A i \in Nat : /\ <<o, i>> \in calling' => <<o, i>> \in calling
                    /\ <<o, i>> \in back' => <<o, i>> \in back
LinesKept(o) == \A t \in {"consume", "refund"} : Lines(o, t)' = Lines(o, t)

\* What the tables say of a sale holds on while its rows and its lines stay.
LEMMA UntouchedAgrees ==
  ASSUME NEW o \in Orders, Agrees(o), Untouched(o), LinesKept(o) PROVE Agrees(o)'
<1>1. SaleAgrees(o)'
  BY DEF Agrees, SaleAgrees, Untouched, ByWallet
<1>2. RefundsAgree(o)'
  BY DEF Agrees, RefundsAgree, Untouched, ByWallet, Pending, Returned, Settled
<1>3. LinesAgree(o)'
  <2> HIDE DEF Lines
  <2> QED BY DEF Agrees, LinesAgree, Untouched, LinesKept, ByWallet, Settled
<1> QED BY <1>1, <1>2, <1>3 DEF Agrees

\* What a new line of the journal adds to the lines of a sale.
LEMMA EnterLines ==
  ASSUME BooksTyped, NEW type, NEW x, NEW p, NEW a, NEW left, Enter(type, x, p, a, left),
         NEW o \in Orders, NEW t
  PROVE  /\ Lines(o, t)' = Lines(o, t) \cup (IF x = o /\ type = t THEN {Len(journal) + 1} ELSE {})
         /\ Len(journal) + 1 \in Nat
<1> DEFINE line == [type |-> type, order |-> x, period |-> p, amount |-> a, after |-> left]
           n == Len(journal)
<1>1. journal' = Append(journal, line) /\ journal \in Seq(Line) /\ n \in Nat
  BY DEF Enter, BooksTyped
<1>2. /\ DOMAIN journal = 1 .. n /\ DOMAIN journal' = 1 .. n + 1
      /\ \A i \in 1 .. n : journal'[i] = journal[i]
      /\ journal'[n + 1] = line
  <2> HIDE DEF line
  <2> QED BY <1>1
<1>3. journal'[n + 1].order = x /\ journal'[n + 1].type = type
  BY <1>2
<1> HIDE DEF line, n
<1>4. Lines(o, t)' = Lines(o, t) \cup (IF x = o /\ type = t THEN {n + 1} ELSE {})
  BY <1>1, <1>2, <1>3 DEF Lines
<1> QED BY <1>1, <1>4 DEF n

\* It adds nothing to other sales, and to no sale when it is about none.
LEMMA EnterKeeps ==
  ASSUME BooksTyped, NEW type, NEW x, NEW p, NEW a, NEW left, Enter(type, x, p, a, left),
         NEW q \in Orders, q # x \/ type \notin {"consume", "refund"}
  PROVE  LinesKept(q)
<1> SUFFICES ASSUME NEW t \in {"consume", "refund"} PROVE Lines(q, t)' = Lines(q, t)
  BY DEF LinesKept
<1>1. Lines(q, t)' = Lines(q, t) \cup (IF x = q /\ type = t THEN {Len(journal) + 1} ELSE {})
  BY EnterLines
<1>2. ~(x = q /\ type = t)
  OBVIOUS
<1> HIDE DEF Lines
<1> QED BY <1>1, <1>2

\* Without a new line every sale keeps its lines.
LEMMA NoLines == ASSUME UNCHANGED journal, NEW o PROVE LinesKept(o)
  BY DEF LinesKept, Lines

\* A new line is the last one.
LEMMA EnterLast ==
  ASSUME BooksTyped, NEW type, NEW x, NEW p, NEW a, NEW left, Enter(type, x, p, a, left)
  PROVE  /\ Last(journal').type = type /\ Last(journal').order = x
         /\ Last(journal').amount = a /\ Last(journal').after = left
         /\ journal' # journal /\ journal' # <<>>
<1> DEFINE line == [type |-> type, order |-> x, period |-> p, amount |-> a, after |-> left]
<1>1. journal' = Append(journal, line) /\ journal \in Seq(Line)
  BY DEF Enter, BooksTyped
<1>2. line.type = type /\ line.order = x /\ line.amount = a /\ line.after = left
  OBVIOUS
<1> HIDE DEF line
<1>3. Len(journal') = Len(journal) + 1 /\ journal'[Len(journal) + 1] = line
      /\ journal' # journal /\ journal' # <<>>
  BY <1>1
<1>4. Last(journal') = line
  BY <1>3 DEF Last
<1> QED BY <1>2, <1>3, <1>4

\* It explains the balance if it ends at it, or is a late grant that leaves the balance.
LEMMA EnterExplains ==
  ASSUME BooksTyped, NEW type, NEW x, NEW p, NEW a, NEW left, Enter(type, x, p, a, left),
         wallet'.balance = left \/ (LateGrant /\ wallet'.balance = wallet.balance),
         \/ type = "grant" /\ left = a
         \/ left = wallet.balance + a
         \/ type = "consume" /\ wallet.balance + a < 0 /\ left = 0
  PROVE  Explains
<1> DEFINE line == Last(journal')
<1>1. line.type = type /\ line.amount = a /\ line.after = left
      /\ journal' # journal /\ journal' # <<>>
  BY EnterLast
<1> HIDE DEF line
<1>2. /\ wallet'.balance = line.after \/ (LateGrant /\ wallet'.balance = wallet.balance)
      /\ \/ line.type = "grant" /\ line.after = line.amount
         \/ line.after = wallet.balance + line.amount
         \/ line.type = "consume" /\ wallet.balance + line.amount < 0 /\ line.after = 0
  BY <1>1
<1> QED BY <1>1, <1>2 DEF Explains, line

\* A step that touches neither has nothing to explain.
LEMMA QuietExplains == ASSUME UNCHANGED <<wallet, journal>> PROVE Explains
  BY DEF Explains

\* A charge keeps the journal explaining the wallet.
LEMMA ChargeExplains ==
  ASSUME BooksTyped, NEW o \in Orders, NEW p \in Periods, NEW a \in Nat,
         Charge(o, p, a)
  PROVE  Explains
<1>1. wallet.balance \in Nat /\ -a \in Int
  BY DEF BooksTyped, Wallet
<1>2. /\ wallet'.balance = (IF wallet.balance > a THEN wallet.balance - a ELSE 0)
      /\ Enter("consume", o, p, -a, wallet'.balance)
  BY ChargeTypes
<1>3. wallet'.balance \in Nat
  BY <1>1, <1>2
<1>4. \/ wallet'.balance = wallet.balance + (-a)
      \/ wallet.balance + (-a) < 0 /\ wallet'.balance = 0
  BY <1>1, <1>2
<1> QED BY <1>1, <1>2, <1>3, <1>4, EnterExplains

----------------------------------------------------------------------------
(* Every action keeps what the tables say of a sale, and of the wallet.     *)

\* A sale that is not settled was never charged, and nobody asked for its refund.
LEMMA Unsettled ==
  ASSUME Typed, NEW o \in Orders, Agrees(o), ~Settled(o)
  PROVE  /\ refunds[o] = <<>> /\ Pending(o) = {} /\ Returned(o) = {}
         /\ \A i \in Nat : <<o, i>> \notin calling /\ <<o, i>> \notin back
         /\ Lines(o, "consume") = {} /\ Lines(o, "refund") = {}
<1>1. refunds[o] = <<>>
  BY DEF Agrees, RefundsAgree
<1>2. DOMAIN refunds[o] = {}
  BY <1>1
<1>3. Pending(o) = {} /\ Returned(o) = {}
  BY <1>2 DEF Pending, Returned
<1>4. \A i \in Nat : <<o, i>> \notin calling /\ <<o, i>> \notin back
  BY <1>2, <1>3 DEF Agrees, RefundsAgree
<1>5. Lines(o, "consume") = {} /\ Lines(o, "refund") = {}
  <2> HIDE DEF Lines
  <2> QED BY DEF Agrees, LinesAgree, Settled
<1> QED BY <1>1, <1>3, <1>4, <1>5

\* Refunds that are as they were, none, agree with any order that is not refunded.
LEMMA NoRefundsAgree ==
  ASSUME Typed, NEW o \in Orders, Agrees(o), ~Settled(o), order'[o].status # "refunded",
         UNCHANGED reviews
  PROVE  RefundsAgree(o)'
<1>1. /\ refunds'[o] = <<>> /\ Pending(o)' = {} /\ Returned(o)' = {}
      /\ \A i \in Nat : <<o, i>> \notin calling' /\ <<o, i>> \notin back'
  BY Unsettled DEF reviews, Pending, Returned
<1> HIDE DEF Pending, Returned
<1> QED BY <1>1 DEF RefundsAgree

\* A check-out keeps the sales and the journal consistent.
LEMMA CheckoutAgrees ==
  ASSUME Inv, NEW o \in Orders, Checkout(o)
  PROVE  (\A q \in Orders : Agrees(q)') /\ Explains
<1> USE DEF books, reviews, jobs
<1>0. PICK a \in Amounts : CheckoutQr(o, a) \/ CheckoutSubsidy(o, a) \/ CheckoutMixed(o, a)
  BY DEF Checkout
<1>1. /\ Typed /\ BooksTyped /\ a \in Nat /\ a > 0 /\ Available \in Nat /\ month \in Periods
      /\ \A q \in Orders : Agrees(q)
  BY CanteenAssumption DEF Available, Inv, Typed, BooksTyped, Wallet
<1>2. ASSUME NEW status \in {"pending", "paid"}, NEW channel \in {"qr_pay", "subsidy", "mixed"},
             NEW s \in Nat, Opens(o, status, channel, a, s), UNCHANGED reviews,
             status = "pending" => payment' = [payment EXCEPT ![o] = "pending"]
                                   /\ UNCHANGED <<wallet, journal>> /\ channel # "subsidy",
             status = "paid" => payment' = payment /\ Charge(o, month, a) /\ s > 0,
             meal' = meal \/ meal' = [meal EXCEPT ![o] = "normal"],
             channel = "qr_pay" <=> s = 0
      PROVE  (\A q \in Orders : Agrees(q)') /\ Explains
    <2>0. Opens(o, status, channel, a, s) /\ Typed /\ a \in Nat /\ s \in Nat
      BY <1>1, <1>2
    <2>1. /\ order'[o].status = status /\ order'[o].channel = channel
          /\ order'[o].pay = a /\ order'[o].subsidy = s
          /\ \A q \in Orders \ {o} : order'[q] = order[q]
      BY <2>0, OpensTypes
    <2>2. order[o].status = "none" /\ ~Settled(o)
      BY <1>2 DEF Opens, Settled
    <2>3. /\ payment'[o] = (IF status = "pending" THEN "pending" ELSE payment[o])
          /\ payment[o] \notin {"pending", "paid", "closed", "refunded"}
          /\ meal'[o] # "voided"
          /\ \A q \in Orders \ {o} : payment'[q] = payment[q] /\ meal'[q] = meal[q]
      BY <1>1, <1>2, <2>2 DEF Typed, SalesTyped, Agrees, SaleAgrees
    <2>4. SaleAgrees(o)'
      BY <1>2, <2>1, <2>3 DEF SaleAgrees
    <2>5. RefundsAgree(o)'
      BY <1>1, <1>2, <2>1, <2>2, NoRefundsAgree
    <2>6. \A q \in Orders \ {o} : Untouched(q)
      BY <1>2, <2>1, <2>3 DEF Untouched
    <2>7. CASE status = "pending"
      <3>1. \A q \in Orders : LinesKept(q)
        BY <1>2, <2>7, NoLines
      <3>2. LinesAgree(o)'
        <4>1. Lines(o, "consume")' = {} /\ Lines(o, "refund")' = {}
          BY <1>1, <2>2, <3>1, Unsettled DEF LinesKept
        <4> HIDE DEF Lines
        <4> QED BY <2>1, <2>7, <4>1 DEF LinesAgree, Settled
      <3>3. Explains
        BY <1>2, <2>7, QuietExplains
      <3> QED BY <1>1, <2>4, <2>5, <2>6, <3>1, <3>2, <3>3, UntouchedAgrees DEF Agrees
    <2>8. CASE status = "paid"
      <3>1. Charge(o, month, a)
        BY <1>2, <2>8
      <3>2. Enter("consume", o, month, -a, wallet'.balance)
        BY <1>1, <3>1, ChargeTypes
      <3>3. \A q \in Orders \ {o} : LinesKept(q)
        BY <1>1, <3>2, EnterKeeps
      <3>4. Lines(o, "consume")' = {Len(journal) + 1} /\ Lines(o, "refund")' = {}
            /\ Len(journal) + 1 \in Nat
        BY <1>1, <2>2, <3>2, EnterLines, Unsettled
      <3>5. LinesAgree(o)'
        <4> HIDE DEF Lines
        <4> QED BY <1>2, <2>1, <2>8, <3>4 DEF LinesAgree, Settled
      <3>6. Explains
        BY <1>1, <3>1, ChargeExplains
      <3> QED BY <1>1, <2>4, <2>5, <2>6, <3>3, <3>5, <3>6, UntouchedAgrees DEF Agrees
    <2> QED BY <1>2, <2>7, <2>8
<1>3. CASE CheckoutQr(o, a)
  BY <1>1, <1>2, <1>3 DEF CheckoutQr
<1>4. CASE CheckoutSubsidy(o, a)
  BY <1>1, <1>2, <1>4 DEF CheckoutSubsidy
<1>5. CASE CheckoutMixed(o, a)
  <2>1. Min({Available, a}) \in Nat /\ Min({Available, a}) # 0
    BY <1>1, <1>5, MinOf DEF CheckoutMixed
  <2> QED BY <1>2, <1>5, <2>1 DEF CheckoutMixed
<1> QED BY <1>0, <1>3, <1>4, <1>5

\* So do the outcomes of a payment, and they are about orders that exist.
LEMMA PaymentAgrees ==
  ASSUME Inv, NEW o \in Orders, ApplySuccess(o) \/ Timeout(o) \/ RefundedCallback(o)
  PROVE  /\ (\A q \in Orders : Agrees(q)') /\ Explains
         /\ order[o].status # "none"
<1> USE DEF books, reviews, jobs
<1>1. Typed /\ BooksTyped /\ SalesTyped /\ \A q \in Orders : Agrees(q)
  BY DEF Inv, Typed
<1>2. /\ payment[o] \in {"pending", "refunded"}
      /\ ApplySuccess(o) => payment[o] = "pending"
      /\ payment[o] = "pending" => order[o].status = "pending"
      /\ payment[o] = "refunded" => order[o].status = "refunded"
      /\ order[o].channel = "qr_pay" <=> order[o].subsidy = 0
      /\ order[o].status = "pending" => order[o].channel # "subsidy" /\ meal[o] # "voided"
      /\ meal[o] = "voided" <=> order[o].status = "cancelled" /\ order[o].channel = "mixed"
  BY <1>1 DEF ApplySuccess, Timeout, Overdue, RefundedCallback, Agrees, SaleAgrees
<1>3. CASE ApplySuccess(o)
  <2>1. order[o].status = "pending" /\ ~Settled(o)
    BY <1>2, <1>3 DEF Settled
  <2>2. order' = [order EXCEPT ![o].status = "completed"]
    BY <1>3 DEF ApplySuccess
  <2>3. /\ order'[o].status = "completed" /\ order'[o].channel = order[o].channel
        /\ order'[o].subsidy = order[o].subsidy
        /\ \A q \in Orders \ {o} : order'[q] = order[q]
    BY <1>1, <2>1, <2>2, StatusTypes
  <2>4. /\ payment'[o] = "paid" /\ meal' = meal
        /\ \A q \in Orders \ {o} : payment'[q] = payment[q]
    BY <1>1, <1>3 DEF ApplySuccess, SalesTyped
  <2>5. SaleAgrees(o)'
    BY <1>2, <2>1, <2>3, <2>4 DEF SaleAgrees
  <2>6. RefundsAgree(o)'
    BY <1>1, <1>3, <2>1, <2>3, NoRefundsAgree DEF ApplySuccess
  <2>7. \A q \in Orders \ {o} : Untouched(q)
    BY <1>3, <2>3, <2>4 DEF ApplySuccess, Untouched
  <2>8. order[o].subsidy \in Nat /\ order[o].period \in Periods
    BY <1>1, <2>1 DEF SalesTyped, Order
  <2>9. Lines(o, "consume") = {} /\ Lines(o, "refund") = {}
    BY <1>1, <2>1, Unsettled
  <2>10. CASE order[o].channel = "mixed"
    <3>1. Charge(o, order[o].period, order[o].subsidy)
      BY <1>3, <2>10 DEF ApplySuccess
    <3>2. PICK left : Enter("consume", o, order[o].period, -order[o].subsidy, left)
      BY <1>1, <2>8, <3>1, ChargeTypes
    <3>3. \A q \in Orders \ {o} : LinesKept(q)
      BY <1>1, <3>2, EnterKeeps
    <3>4. /\ Lines(o, "consume")' = {Len(journal) + 1} /\ Lines(o, "refund")' = {}
          /\ Len(journal) + 1 \in Nat
      BY <1>1, <2>9, <3>2, EnterLines
    <3>5. LinesAgree(o)'
      <4> HIDE DEF Lines
      <4>1. order'[o].subsidy > 0
        BY <1>2, <2>3, <2>8, <2>10
      <4> QED BY <2>3, <3>4, <4>1 DEF LinesAgree, Settled
    <3>6. Explains
      BY <1>1, <2>8, <3>1, ChargeExplains
    <3> QED BY <1>1, <2>1, <2>5, <2>6, <2>7, <3>3, <3>5, <3>6, UntouchedAgrees DEF Agrees
  <2>11. CASE order[o].channel # "mixed"
    <3>1. UNCHANGED <<wallet, journal>>
      BY <1>3, <2>11 DEF ApplySuccess
    <3>2. \A q \in Orders : LinesKept(q)
      BY <3>1, NoLines
    <3>3. LinesAgree(o)'
      <4>1. Lines(o, "consume")' = {} /\ Lines(o, "refund")' = {}
        BY <2>9, <3>2 DEF LinesKept
      <4>2. order'[o].subsidy = 0
        <5>1. order[o].channel \in {"qr_pay", "subsidy", "mixed"}
          BY <1>1 DEF SalesTyped, Order
        <5> QED BY <1>2, <2>1, <2>3, <2>11, <5>1
      <4> HIDE DEF Lines
      <4> QED BY <4>1, <4>2 DEF LinesAgree
    <3>4. Explains
      BY <3>1, QuietExplains
    <3> QED BY <1>1, <2>1, <2>5, <2>6, <2>7, <3>2, <3>3, <3>4, UntouchedAgrees DEF Agrees
  <2> QED BY <2>10, <2>11
<1>4. CASE ~ApplySuccess(o)
  <2>0. ApplyClosed(o)
    BY <1>4 DEF Timeout, RefundedCallback
  <2> DEFINE status == IF order[o].status = "pending" THEN "cancelled" ELSE order[o].status
  <2>1. order' = [order EXCEPT ![o].status = status] /\ order[o].status # "none"
        /\ status \in {"paid", "completed", "cancelled", "refunded", order[o].status}
    BY <1>2, <2>0 DEF ApplyClosed, CancelPending
  <2>2. status = IF payment[o] = "pending" THEN "cancelled" ELSE "refunded"
    BY <1>2
  <2> HIDE DEF status
  <2>3. /\ order'[o].status = status /\ order'[o].channel = order[o].channel
        /\ order'[o].subsidy = order[o].subsidy /\ order'[o].pay = order[o].pay
        /\ \A q \in Orders \ {o} : order'[q] = order[q]
    BY <1>1, <2>1, StatusTypes
  <2>4. /\ payment'[o] = "closed" /\ UNCHANGED <<reviews, wallet, journal>>
        /\ meal'[o] = (IF order[o].status = "pending" /\ order[o].channel = "mixed"
                         THEN "voided" ELSE meal[o])
        /\ \A q \in Orders \ {o} : payment'[q] = payment[q] /\ meal'[q] = meal[q]
    BY <1>1, <2>0 DEF ApplyClosed, CancelPending, SalesTyped
  <2>5. SaleAgrees(o)'
    BY <1>2, <2>2, <2>3, <2>4 DEF SaleAgrees
  <2>6. \A q \in Orders \ {o} : Untouched(q)
    BY <2>3, <2>4 DEF Untouched
  <2>7. \A q \in Orders : LinesKept(q)
    BY <2>4, NoLines
  <2>8. Explains
    BY <2>4, QuietExplains
  <2>9. RefundsAgree(o)' /\ LinesAgree(o)'
    <3>1. CASE payment[o] = "pending"
      <4>1. ~Settled(o)
        BY <1>2, <3>1 DEF Settled
      <4>2. RefundsAgree(o)'
        BY <1>1, <2>2, <2>3, <2>4, <3>1, <4>1, NoRefundsAgree
      <4>3. Lines(o, "consume")' = {} /\ Lines(o, "refund")' = {}
        BY <1>1, <2>7, <4>1, Unsettled DEF LinesKept
      <4>4. LinesAgree(o)'
        <5> HIDE DEF Lines
        <5> QED BY <2>2, <2>3, <3>1, <4>3 DEF LinesAgree, Settled
      <4> QED BY <4>2, <4>4
    <3>2. CASE payment[o] = "refunded"
      <4>1. order'[o].status = order[o].status
        BY <1>2, <2>2, <2>3, <3>2
      <4>2. Pending(o)' = Pending(o) /\ Returned(o)' = Returned(o) /\ ByWallet(o)' = ByWallet(o)
        BY <2>3, <2>4 DEF Pending, Returned, ByWallet
      <4>3. RefundsAgree(o)'
        <5> HIDE DEF Pending, Returned, ByWallet
        <5> QED BY <1>1, <2>4, <4>1, <4>2 DEF Agrees, RefundsAgree, Settled
      <4>4. LinesAgree(o)'
        <5> HIDE DEF Lines, ByWallet
        <5> QED BY <1>1, <2>3, <2>7, <4>1, <4>2 DEF Agrees, LinesAgree, LinesKept, Settled
      <4> QED BY <4>3, <4>4
    <3> QED BY <1>2, <3>1, <3>2
  <2> QED BY <1>1, <2>1, <2>5, <2>6, <2>7, <2>8, <2>9, UntouchedAgrees DEF Agrees
<1> QED BY <1>3, <1>4

\* A review of a refund, or the second half of one, is about a settled sale.
LEMMA Reviewing ==
  ASSUME Inv, NEW o \in Orders, NEW i \in Nat, i \in Pending(o) \/ <<o, i>> \in calling
  PROVE  /\ Agrees(o) /\ i \in Pending(o) /\ i \in DOMAIN refunds[o] /\ Pending(o) = {i}
         /\ order[o].status \in {"paid", "completed"} /\ Settled(o) /\ Returned(o) = {}
         /\ \A j \in Nat : <<o, j>> \in calling => j = i
<1>1. Agrees(o)
  BY DEF Inv
<1>2. i \in Pending(o)
  <2> HIDE DEF Pending
  <2> QED BY <1>1 DEF Agrees, RefundsAgree
<1>3. /\ Pending(o) = {i} /\ \A j \in Nat : <<o, j>> \in calling => j = i
      /\ order[o].status \in {"paid", "completed"} /\ Returned(o) = {}
  <2> HIDE DEF Pending, Returned
  <2> QED BY <1>1, <1>2 DEF Agrees, RefundsAgree
<1>4. i \in DOMAIN refunds[o]
  BY <1>2 DEF Pending
<1> QED BY <1>1, <1>2, <1>3, <1>4 DEF Settled

\* The refund under review succeeds: none is left under review, this one has succeeded.
LEMMA SuccessAgrees ==
  ASSUME Inv, NEW o \in Orders, NEW i \in Nat, i \in Pending(o), Succeeds(o, i),
         back' = back, \A j \in Nat : <<o, j>> \notin calling'
  PROVE  /\ order'[o].status = "refunded" /\ order'[o].channel = order[o].channel
         /\ order'[o].pay = order[o].pay /\ order'[o].subsidy = order[o].subsidy
         /\ \A q \in Orders \ {o} : order'[q] = order[q] /\ refunds'[q] = refunds[q]
         /\ RefundsAgree(o)'
<1>1. /\ Agrees(o) /\ i \in DOMAIN refunds[o] /\ Pending(o) = {i} /\ Returned(o) = {}
      /\ order[o].status # "none" /\ SalesTyped /\ ReviewsTyped
  BY Reviewing DEF Inv, Typed
<1>2. /\ order'[o].status = "refunded" /\ order'[o].channel = order[o].channel
      /\ order'[o].pay = order[o].pay /\ order'[o].subsidy = order[o].subsidy
      /\ \A q \in Orders \ {o} : order'[q] = order[q]
  <2>1. order' = [order EXCEPT ![o].status = "refunded"]
    BY DEF Succeeds
  <2> QED BY <1>1, <2>1, StatusTypes
<1>3. /\ \A q \in Orders \ {o} : refunds'[q] = refunds[q]
      /\ DOMAIN refunds'[o] = DOMAIN refunds[o] /\ refunds'[o][i].status = "succeeded"
      /\ \A j \in DOMAIN refunds[o] \ {i} : refunds'[o][j] = refunds[o][j]
  <2>1. refunds' = [refunds EXCEPT ![o][i].status = "succeeded"]
    BY DEF Succeeds
  <2> QED BY <1>1, <2>1, RefundTypes
<1>4. Pending(o)' = {} /\ Returned(o)' = {i}
  BY <1>1, <1>3 DEF Pending, Returned
<1>5. ByWallet(o)' = ByWallet(o)
  BY <1>2 DEF ByWallet
<1>6. RefundsAgree(o)'
  <2>1. \A j \in Nat : <<o, j>> \in back => j \in DOMAIN refunds[o] /\ ~ByWallet(o)
    BY <1>1 DEF Agrees, RefundsAgree
  <2> HIDE DEF Pending, Returned, ByWallet
  <2> QED BY <1>2, <1>3, <1>4, <1>5, <2>1 DEF RefundsAgree, Settled
<1> QED BY <1>2, <1>3, <1>6

\* So does every step of a review.
LEMMA ReviewAgrees ==
  ASSUME Inv, NEW o \in Orders, Review(o)
  PROVE  (\A q \in Orders : Agrees(q)') /\ Explains /\ Typed'
<1> USE DEF books, sales, jobs
<1>0. PICK i \in 1 .. MaxRefunds[o] : \/ ApproveWallet(o, i) \/ ApproveCall(o, i)
                                  \/ ApproveCommit(o, i) \/ ApproveAbort(o, i) \/ Reject(o, i)
  BY DEF Review
<1>1. /\ Typed /\ BooksTyped /\ SalesTyped /\ ReviewsTyped
      /\ \A q \in Orders : Agrees(q)
  BY DEF Inv, Typed
<1>2. i \in Nat /\ (i \in Pending(o) \/ <<o, i>> \in calling)
  <2> HIDE DEF Pending
  <2> QED BY <1>0, CanteenAssumption
          DEF ApproveWallet, ApproveCall, ApproveCommit, ApproveAbort, Reject, Reviewed
<1>3. /\ i \in Pending(o) /\ i \in DOMAIN refunds[o] /\ Pending(o) = {i}
      /\ order[o].status \in {"paid", "completed"} /\ Settled(o) /\ Returned(o) = {}
      /\ \A j \in Nat : <<o, j>> \in calling => j = i
  BY <1>2, Reviewing
<1>4. Typed'
  BY <1>0, <1>1, <1>3, ReviewTypes
<1>5. SaleAgrees(o) /\ RefundsAgree(o) /\ LinesAgree(o)
  BY <1>1 DEF Agrees
<1>6. CASE ApproveWallet(o, i)
  <2>1. Succeeds(o, i) /\ ByWallet(o) /\ UNCHANGED <<payment, meal, back, calling>>
        /\ \A j \in Nat : <<o, j>> \notin calling'
    BY <1>3, <1>6 DEF ApproveWallet, Reviewed
  <2>2. /\ order'[o].status = "refunded" /\ order'[o].channel = order[o].channel
        /\ order'[o].pay = order[o].pay /\ order'[o].subsidy = order[o].subsidy
        /\ \A q \in Orders \ {o} : order'[q] = order[q] /\ refunds'[q] = refunds[q]
        /\ RefundsAgree(o)'
    BY <1>2, <1>3, <2>1, SuccessAgrees
  <2>3. SaleAgrees(o)' /\ ByWallet(o)'
    BY <1>3, <1>5, <2>1, <2>2 DEF SaleAgrees, ByWallet
  <2>4. \A q \in Orders \ {o} : Untouched(q)
    BY <2>1, <2>2 DEF Untouched
  <2>5. /\ IF order[o].subsidy > 0 THEN \E k \in Nat : Lines(o, "consume") = {k}
                                  ELSE Lines(o, "consume") = {}
        /\ Lines(o, "refund") = {}
    <3> HIDE DEF Lines
    <3> QED BY <1>3, <1>5 DEF LinesAgree
  <2>6. ASSUME Lines(o, "consume")' = Lines(o, "consume"),
               Lines(o, "refund")' = {} \/ \E k \in Nat : Lines(o, "refund")' = {k}
        PROVE  LinesAgree(o)'
    <3> HIDE DEF Lines, ByWallet
    <3> QED BY <2>2, <2>3, <2>5, <2>6 DEF LinesAgree, Settled
  <2> DEFINE a == refunds[o][i].amount
  <2>7. CASE /\ wallet' = [wallet EXCEPT !.consumed = ConsumedLess(a), !.balance = Credit(a)]
             /\ Enter("refund", o, month, a, Credit(a))
    <3>1. a \in Nat /\ Credit(a) \in Nat /\ wallet.balance \in Nat
      <4>1. refunds[o] \in Seq(Refund) /\ wallet.balance \in Nat
        BY <1>1 DEF ReviewsTyped, BooksTyped, Wallet
      <4>2. refunds[o][i] \in Refund
        BY <1>3, <4>1
      <4>3. a \in Nat
        BY <4>2, CanteenAssumption DEF Refund
      <4> QED BY <4>1, <4>3 DEF Credit
    <3>2. wallet'.balance = Credit(a) /\ Credit(a) = wallet.balance + a
      BY <1>1, <2>7 DEF BooksTyped, Wallet, Credit
    <3> HIDE DEF a
    <3>3. Explains
      BY <1>1, <2>7, <3>1, <3>2, EnterExplains
    <3>4. \A q \in Orders \ {o} : LinesKept(q)
      BY <1>1, <2>7, EnterKeeps
    <3>5. /\ Lines(o, "consume")' = Lines(o, "consume")
          /\ Lines(o, "refund")' = Lines(o, "refund") \cup {Len(journal) + 1}
          /\ Len(journal) + 1 \in Nat
      <4>1. \A t : /\ Len(journal) + 1 \in Nat
                   /\ Lines(o, t)' = Lines(o, t) \cup
                        (IF o = o /\ "refund" = t THEN {Len(journal) + 1} ELSE {})
        BY <1>1, <2>7, EnterLines
      <4> HIDE DEF Lines
      <4> QED BY <4>1
    <3>6. LinesAgree(o)'
      <4> HIDE DEF Lines
      <4> QED BY <2>5, <2>6, <3>5
    <3> QED BY <1>1, <1>4, <2>2, <2>3, <2>4, <3>3, <3>4, <3>6, UntouchedAgrees DEF Agrees
  <2>8. CASE UNCHANGED <<wallet, journal>>
    <3>1. \A q \in Orders : LinesKept(q)
      BY <2>8, NoLines
    <3>2. LinesAgree(o)'
      BY <2>5, <2>6, <3>1 DEF LinesKept
    <3>3. Explains
      BY <2>8, QuietExplains
    <3> QED BY <1>1, <1>4, <2>2, <2>3, <2>4, <3>1, <3>2, <3>3, UntouchedAgrees DEF Agrees
  <2> QED BY <1>6, <2>7, <2>8 DEF ApproveWallet
<1>7. CASE ApproveCall(o, i) \/ ApproveCommit(o, i) \/ ApproveAbort(o, i) \/ Reject(o, i)
  <2>1. UNCHANGED <<wallet, journal>>
    BY <1>7 DEF ApproveCall, ApproveCommit, ApproveAbort, Reject
  <2>2. (\A q \in Orders : LinesKept(q)) /\ Explains
    BY <2>1, NoLines, QuietExplains
  <2>3. \A q \in Orders \ {o} : Untouched(q)
    <3>1. CASE ApproveCall(o, i) \/ ApproveAbort(o, i)
      BY <3>1 DEF ApproveCall, ApproveAbort, Untouched
    <3>2. CASE ApproveCommit(o, i) \/ Reject(o, i)
      BY <1>1, <3>2 DEF ApproveCommit, Succeeds, Reject, Untouched, SalesTyped, ReviewsTyped
    <3> QED BY <1>7, <3>1, <3>2
  <2>4. ASSUME order'[o].status \in {order[o].status, "refunded"},
               order'[o].subsidy = order[o].subsidy, order'[o].pay = order[o].pay
        PROVE  LinesAgree(o)'
    <3>1. Settled(o)'
      BY <1>3, <2>4 DEF Settled
    <3>2. ByWallet(o)' = ByWallet(o)
      BY <2>4 DEF ByWallet
    <3>3. order[o].status # "refunded"
      BY <1>3
    <3> HIDE DEF Lines, ByWallet, Settled
    <3> QED BY <1>3, <1>5, <2>2, <2>4, <3>1, <3>2, <3>3 DEF LinesAgree, LinesKept
  <2>5. SaleAgrees(o)' /\ RefundsAgree(o)' /\ LinesAgree(o)'
    <3>1. CASE ApproveCall(o, i) \/ ApproveAbort(o, i)
      <4>1. /\ UNCHANGED <<order, payment, meal, refunds>>
            /\ back' = back \/ (~ByWallet(o) /\ back' = back \cup {<<o, i>>})
            /\ calling' \subseteq calling \cup {<<o, i>>}
        BY <3>1 DEF ApproveCall, ApproveAbort
      <4>2. /\ SaleAgrees(o)' = SaleAgrees(o) /\ Pending(o)' = Pending(o)
            /\ Returned(o)' = Returned(o) /\ ByWallet(o)' = ByWallet(o)
        BY <4>1 DEF SaleAgrees, Pending, Returned, ByWallet
      <4>3. \A j \in Nat : <<o, j>> \in calling' => j = i
        BY <1>3, <4>1
      <4>4. \A j \in Nat : <<o, j>> \in back' => j \in DOMAIN refunds'[o] /\ ~ByWallet(o)'
        BY <1>3, <1>5, <4>1, <4>2 DEF RefundsAgree
      <4>5. RefundsAgree(o)'
        <5> HIDE DEF Pending, Returned, ByWallet
        <5> QED BY <1>3, <1>5, <4>1, <4>2, <4>3, <4>4 DEF RefundsAgree, Settled
      <4> QED BY <1>5, <2>4, <4>1, <4>2, <4>5
    <3>2. CASE ApproveCommit(o, i)
      <4>1. /\ Succeeds(o, i) /\ back' = back /\ meal' = meal
            /\ calling' = calling \ {<<o, i>>} /\ <<o, i>> \in calling
            /\ payment'[o] = "refunded"
        BY <1>1, <3>2 DEF ApproveCommit, SalesTyped
      <4>2. \A j \in Nat : <<o, j>> \notin calling'
        BY <1>3, <4>1
      <4>3. /\ order'[o].status = "refunded" /\ order'[o].channel = order[o].channel
            /\ order'[o].pay = order[o].pay /\ order'[o].subsidy = order[o].subsidy
            /\ RefundsAgree(o)'
        BY <1>2, <1>3, <4>1, <4>2, SuccessAgrees
      <4>4. SaleAgrees(o)'
        BY <1>3, <1>5, <4>1, <4>3 DEF SaleAgrees
      <4> QED BY <2>4, <4>3, <4>4
    <3>3. CASE Reject(o, i)
      <4>1. /\ UNCHANGED <<order, payment, meal, back, calling>>
            /\ refunds' = [refunds EXCEPT ![o][i].status = "failed"]
            /\ <<o, i>> \notin calling
        BY <1>3, <3>3 DEF Reject, Reviewed
      <4>2. /\ DOMAIN refunds'[o] = DOMAIN refunds[o] /\ refunds'[o][i].status = "failed"
            /\ \A j \in DOMAIN refunds[o] \ {i} : refunds'[o][j] = refunds[o][j]
        BY <1>1, <1>3, <4>1, RefundTypes
      <4>3. Pending(o)' = {} /\ Returned(o)' = {}
        BY <1>3, <4>2 DEF Pending, Returned
      <4>4. SaleAgrees(o)' = SaleAgrees(o) /\ ByWallet(o)' = ByWallet(o) /\ Settled(o)'
        BY <1>3, <4>1 DEF SaleAgrees, ByWallet, Settled
      <4>5. \A j \in Nat : <<o, j>> \notin calling'
        BY <1>3, <4>1
      <4>6. RefundsAgree(o)'
        <5> HIDE DEF Pending, Returned, ByWallet, Settled
        <5> QED BY <1>3, <1>5, <4>1, <4>2, <4>3, <4>4, <4>5 DEF RefundsAgree
      <4> QED BY <1>5, <2>4, <4>1, <4>4, <4>6
    <3> QED BY <1>7, <3>1, <3>2, <3>3
  <2> QED BY <1>1, <1>4, <2>2, <2>3, <2>5, UntouchedAgrees DEF Agrees
<1> QED BY <1>0, <1>6, <1>7

\* So does asking for a refund.
LEMMA CreateRefundAgrees ==
  ASSUME Inv, NEW o \in Orders, NEW a \in Amounts, CreateRefund(o, a)
  PROVE  (\A q \in Orders : Agrees(q)') /\ Explains /\ Typed'
<1> USE DEF books, sales, jobs
<1> DEFINE n == Len(refunds[o])
<1>1. /\ Typed /\ \A q \in Orders : Agrees(q)
      /\ SaleAgrees(o) /\ RefundsAgree(o) /\ LinesAgree(o)
  BY DEF Inv, Agrees
<1>2. /\ Typed' /\ refunds[o] \in Seq(Refund)
      /\ refunds'[o] = Append(refunds[o], [status |-> "pending", amount |-> a])
      /\ \A q \in Orders \ {o} : refunds'[q] = refunds[q]
  BY <1>1, CreateRefundTypes
<1>3. /\ DOMAIN refunds[o] = 1 .. n /\ DOMAIN refunds'[o] = 1 .. n + 1 /\ n \in Nat
      /\ refunds'[o][n + 1].status = "pending"
      /\ \A i \in 1 .. n : refunds'[o][i] = refunds[o][i]
      /\ refunds'[o] # <<>>
  BY <1>2
<1>4. /\ order[o].status \in {"paid", "completed"} /\ Pending(o) = {}
      /\ UNCHANGED <<month, wallet, journal, order, payment, meal, back, calling>>
  BY DEF CreateRefund, NoneOpen
<1> HIDE DEF n
<1>5. Pending(o)' = {n + 1} /\ Returned(o)' = Returned(o)
  BY <1>3, <1>4 DEF Pending, Returned
<1>6. SaleAgrees(o)' /\ ByWallet(o)' = ByWallet(o) /\ Settled(o)' /\ Settled(o)
  BY <1>1, <1>4 DEF SaleAgrees, ByWallet, Settled
<1>7. RefundsAgree(o)'
  <2>1. \A i \in Nat : <<o, i>> \notin calling'
    <3> HIDE DEF Pending
    <3> QED BY <1>1, <1>4 DEF RefundsAgree
  <2>2. \A i \in Nat : <<o, i>> \in back' => i \in DOMAIN refunds'[o] /\ ~ByWallet(o)'
    BY <1>1, <1>3, <1>4, <1>6 DEF RefundsAgree
  <2> HIDE DEF Pending, Returned, ByWallet, Settled
  <2> QED BY <1>1, <1>4, <1>5, <1>6, <2>1, <2>2 DEF RefundsAgree
<1>8. \A q \in Orders : LinesKept(q)
  BY <1>4, NoLines
<1>9. LinesAgree(o)'
  <2> HIDE DEF Lines, ByWallet, Settled
  <2> QED BY <1>1, <1>4, <1>6, <1>8 DEF LinesAgree, LinesKept
<1>10. \A q \in Orders \ {o} : Untouched(q)
  BY <1>2, <1>4 DEF Untouched
<1>11. Explains
  BY <1>4, QuietExplains
<1> QED BY <1>1, <1>2, <1>6, <1>7, <1>8, <1>9, <1>10, <1>11, UntouchedAgrees DEF Agrees

\* The subsidy and the calendar leave the sales alone.
LEMMA SubsidyAgrees ==
  ASSUME Inv, \/ \E p \in Periods : \/ GrantRead(p) \/ GrantOne(p) \/ GrantFail(p)
                                     \/ ExpireList(p)
              \/ ExpireOne \/ ExpireNothing \/ NewMonth
  PROVE  (\A q \in Orders : Agrees(q)') /\ Explains
<1> USE DEF books, sales, reviews, jobs
<1>1. /\ Typed /\ BooksTyped /\ wallet.balance \in Nat
      /\ \A q \in Orders : Agrees(q)
  BY DEF Inv, Typed, BooksTyped, Wallet
<1>2. \A q \in Orders : Untouched(q)
  BY DEF GrantRead, GrantOne, GrantFail, ExpireList, ExpireOne, ExpireNothing, NewMonth, Untouched
<1>3. CASE \E p \in Periods : GrantOne(p)
  <2>1. PICK p \in Periods :
          /\ Enter("grant", "none", p, Grant, Grant)
          /\ wallet'.balance = Grant \/ (LateGrant /\ wallet'.balance = wallet.balance)
    BY <1>1, <1>3, GrantWrites
  <2>3. Explains
    BY <1>1, <2>1, EnterExplains
  <2>4. \A q \in Orders : LinesKept(q)
    BY <1>1, <2>1, EnterKeeps
  <2> QED BY <1>1, <1>2, <2>3, <2>4, UntouchedAgrees
<1>4. CASE ExpireOne
  <2>1. /\ Enter("expire", "none", sweep, -wallet.balance, 0) /\ wallet'.balance = 0
        /\ -wallet.balance \in Int /\ 0 = wallet.balance + (-wallet.balance)
    BY <1>1, <1>4 DEF ExpireOne, BooksTyped, Wallet
  <2>2. Explains
    BY <1>1, <2>1, EnterExplains
  <2>3. \A q \in Orders : LinesKept(q)
    BY <1>1, <2>1, EnterKeeps
  <2> QED BY <1>1, <1>2, <2>2, <2>3, UntouchedAgrees
<1>5. CASE \/ \E p \in Periods : GrantRead(p) \/ GrantFail(p) \/ ExpireList(p)
           \/ ExpireNothing \/ NewMonth
  <2>1. UNCHANGED <<wallet, journal>>
    BY <1>5 DEF GrantRead, GrantFail, ExpireList, ExpireNothing, NewMonth
  <2>2. Explains /\ \A q \in Orders : LinesKept(q)
    BY <2>1, NoLines, QuietExplains
  <2> QED BY <1>1, <1>2, <2>2, UntouchedAgrees
<1> QED BY <1>3, <1>4, <1>5

\* The invariant holds at first ...
LEMMA InvInit == Init => Inv
<1> SUFFICES ASSUME Init PROVE Inv
  OBVIOUS
<1> USE DEF Init
<1>1. Typed
  <2>1. NoWallet \in Wallet /\ NoOrder \in Order /\ NoOrder.status = "none"
    BY CanteenAssumption DEF NoWallet, NoOrder, Wallet, Order
  <2>2. BooksTyped
    BY <2>1 DEF BooksTyped, GrantStatuses
  <2>3. SalesTyped /\ ReviewsTyped
    BY <2>1 DEF SalesTyped, ReviewsTyped
  <2>4. month \in Periods /\ sweep \in 0 .. Months
    BY CanteenAssumption DEF Periods
  <2>5. GrantsTyped
    BY DEF GrantsTyped
  <2> QED BY <2>2, <2>3, <2>4, <2>5 DEF Typed
<1>2. ASSUME NEW o \in Orders PROVE Agrees(o)
  <2>1. /\ order[o].status = "none" /\ order[o].channel = "qr_pay"
        /\ order[o].subsidy = 0 /\ refunds[o] = <<>>
    BY DEF NoOrder
  <2>2. Pending(o) = {} /\ Returned(o) = {} /\ \A t : Lines(o, t) = {}
    BY <2>1 DEF Pending, Returned, Lines
  <2>3. SaleAgrees(o)
    BY <2>1 DEF SaleAgrees
  <2>4. RefundsAgree(o) /\ LinesAgree(o)
    <3> HIDE DEF Pending, Returned, Lines
    <3> QED BY <2>1, <2>2 DEF RefundsAgree, LinesAgree, Settled
  <2> QED BY <2>3, <2>4 DEF Agrees
<1> QED BY <1>1, <1>2 DEF Inv

\* ... and every step keeps it, and explains the balance.
LEMMA InvNext == Inv /\ [Next]_vars => Inv' /\ Explains
<1> SUFFICES ASSUME Inv, [Next]_vars PROVE Inv' /\ Explains
  OBVIOUS
<1>1. Typed
  BY DEF Inv
<1>2. ASSUME NEW o \in Orders, Checkout(o) PROVE Inv' /\ Explains
  BY <1>1, <1>2, CheckoutTypes, CheckoutAgrees DEF Inv
<1>3. ASSUME NEW o \in Orders, ApplySuccess(o) \/ Timeout(o) \/ RefundedCallback(o) PROVE Inv' /\ Explains
  BY <1>1, <1>3, PaymentAgrees, PaymentTypes DEF Inv
<1>4. ASSUME NEW o \in Orders, Review(o) PROVE Inv' /\ Explains
  BY <1>4, ReviewAgrees DEF Inv
<1>5. ASSUME NEW o \in Orders, NEW a \in Amounts, CreateRefund(o, a) PROVE Inv' /\ Explains
  BY <1>5, CreateRefundAgrees DEF Inv
<1>6. CASE \/ \E p \in Periods : GrantRead(p) \/ GrantOne(p) \/ GrantFail(p) \/ ExpireList(p)
           \/ ExpireOne \/ ExpireNothing \/ NewMonth
  BY <1>1, <1>6, SubsidyTypes, SubsidyAgrees DEF Inv
<1>7. CASE UNCHANGED vars
  <2>1. Typed'
    BY <1>1, <1>7 DEF vars, books, sales, reviews, jobs, Typed, BooksTyped, SalesTyped, ReviewsTyped, GrantsTyped
  <2>2. Explains /\ \A q \in Orders : Untouched(q) /\ LinesKept(q)
    BY <1>7, NoLines, QuietExplains DEF vars, books, sales, reviews, Inv, Untouched
  <2> QED BY <2>1, <2>2, UntouchedAgrees DEF Inv
<1> QED BY <1>2, <1>3, <1>4, <1>5, <1>6, <1>7 DEF Next

\* It always holds.
THEOREM Invariance == Spec => []Inv
<1>1. Inv /\ [Next]_vars => Inv'
  BY InvNext
<1> QED BY InvInit, <1>1, PTL DEF Spec

----------------------------------------------------------------------------
(* What the runs check, for any orders, prices, grant and months.           *)

\* Every table stays within its columns: amounts never turn negative.
THEOREM TypeCorrect == Spec => []TypeOK
<1>1. Inv => TypeOK
  <2> SUFFICES ASSUME Inv PROVE TypeOK
    OBVIOUS
  <2>1. \A i \in DOMAIN journal : journal[i] \in Line
    BY DEF Inv, Typed, BooksTyped
  <2>2. ASSUME NEW o \in Orders, NEW i \in DOMAIN refunds[o] PROVE refunds[o][i] \in Refund
    BY DEF Inv, Typed, ReviewsTyped
  <2>3. ASSUME NEW p \in Periods
        PROVE  Cardinality(granting[p]) <= 1 /\ granting[p] \subseteq Wallet
    <3>1. CASE granting[p] = {}
      BY <3>1, FS_EmptySet
    <3>2. ASSUME NEW row \in Wallet, granting[p] = {row}
          PROVE  Cardinality(granting[p]) <= 1 /\ granting[p] \subseteq Wallet
      BY <3>2, FS_Singleton
    <3> QED BY <3>1, <3>2 DEF Inv, Typed, GrantsTyped
  <2> QED BY <2>1, <2>2, <2>3
          DEF Inv, Typed, BooksTyped, SalesTyped, ReviewsTyped, GrantStatuses, TypeOK
<1> QED BY <1>1, Invariance, PTL

\* How often a sale was charged and given back follows from its order.
LEMMA Counts ==
  ASSUME Inv, NEW o \in Orders
  PROVE  /\ Cardinality(Lines(o, "consume")) =
              IF Settled(o) /\ order[o].subsidy > 0 THEN 1 ELSE 0
         /\ Cardinality(Returned(o)) = IF order[o].status = "refunded" THEN 1 ELSE 0
<1>1. LinesAgree(o) /\ RefundsAgree(o)
  BY DEF Inv, Agrees
<1>2. Cardinality(Lines(o, "consume")) = IF Settled(o) /\ order[o].subsidy > 0 THEN 1 ELSE 0
  <2> HIDE DEF Lines, Settled
  <2> QED BY <1>1, FS_EmptySet, FS_Singleton DEF LinesAgree
<1>3. Returned(o) = {} \/ \E i : Returned(o) = {i}
  <2> HIDE DEF Returned
  <2>1. \A i, j \in Returned(o) : i = j
    BY <1>1 DEF RefundsAgree
  <2>2. ASSUME NEW i \in Returned(o) PROVE Returned(o) = {i}
    BY <2>1
  <2> QED BY <2>2
<1>4. Cardinality(Returned(o)) = IF order[o].status = "refunded" THEN 1 ELSE 0
  <2> HIDE DEF Returned
  <2>1. order[o].status = "refunded" <=> Returned(o) # {}
    BY <1>1 DEF RefundsAgree
  <2> QED BY <1>3, <2>1, FS_EmptySet, FS_Singleton
<1> QED BY <1>2, <1>4

\* The tables of the different services tell the same story of every sale.
THEOREM RecordsTheorem == Spec => []RecordsAgree
<1>1. Inv => RecordsAgree
  <2> SUFFICES ASSUME Inv, NEW o \in Orders, Agrees(o)
               PROVE  /\ payment[o] = "pending" <=> order[o].status = "pending"
                      /\ payment[o] = "paid" =>
                           order[o].status = "completed"
                           \/ (order[o].status = "refunded" /\ ByWallet(o))
                      /\ payment[o] = "refunded" => order[o].status = "refunded"
                      /\ payment[o] = "closed" => order[o].status \in {"cancelled", "refunded"}
                      /\ meal[o] = "voided" <=>
                           order[o].status = "cancelled" /\ order[o].channel = "mixed"
                      /\ Cardinality(Lines(o, "consume")) =
                           IF Settled(o) /\ order[o].subsidy > 0 THEN 1 ELSE 0
                      /\ order[o].status = "refunded" <=> Returned(o) # {}
    BY DEF Inv, RecordsAgree
  <2> HIDE DEF Lines, Settled, ByWallet, Returned
  <2> QED BY Counts DEF Agrees, SaleAgrees, RefundsAgree
<1> QED BY <1>1, Invariance, PTL

\* Money comes back once, from the wallet or from the channel.
THEOREM ReturnedTheorem == Spec => []ReturnedOnce
<1>1. ASSUME Inv, NEW o \in Orders
      PROVE  /\ Cardinality(Returned(o)) <= 1
             /\ \A i, j \in 1 .. MaxRefunds[o] :
                  /\ <<o, i>> \in back /\ <<o, j>> \in back /\ i # j
                  => "failed" \in {refunds[o][i].status, refunds[o][j].status}
             /\ Cardinality(Lines(o, "refund")) <= 1
             /\ Lines(o, "refund") # {} => \A i \in 1 .. MaxRefunds[o] : <<o, i>> \notin back
  <2>1. LinesAgree(o) /\ RefundsAgree(o)
    BY <1>1 DEF Inv, Agrees
  <2>2. Cardinality(Returned(o)) <= 1
    BY <1>1, Counts
  <2>3. Lines(o, "refund") = {} \/ \E k : Lines(o, "refund") = {k}
    <3> HIDE DEF Lines
    <3>1. \A k, l \in Lines(o, "refund") : k = l
      BY <2>1 DEF LinesAgree
    <3>2. ASSUME NEW k \in Lines(o, "refund") PROVE Lines(o, "refund") = {k}
      BY <3>1
    <3> QED BY <3>2
  <2>4. Cardinality(Lines(o, "refund")) <= 1
    <3> HIDE DEF Lines
    <3>1. CASE Lines(o, "refund") = {}
      BY <3>1, FS_EmptySet
    <3>2. ASSUME NEW k, Lines(o, "refund") = {k} PROVE Cardinality(Lines(o, "refund")) <= 1
      <4>1. Cardinality({k}) = 1
        BY FS_Singleton
      <4> QED BY <3>2, <4>1
    <3> QED BY <2>3, <3>1, <3>2
  <2>5. \A i \in 1 .. MaxRefunds[o] : i \in Nat
    BY CanteenAssumption
  <2>6. Lines(o, "refund") # {} => \A i \in 1 .. MaxRefunds[o] : <<o, i>> \notin back
    <3> HIDE DEF Lines, ByWallet
    <3> QED BY <2>1, <2>5 DEF LinesAgree, RefundsAgree
  <2>7. ASSUME NEW i \in 1 .. MaxRefunds[o], NEW j \in 1 .. MaxRefunds[o],
               <<o, i>> \in back, <<o, j>> \in back, i # j,
               refunds[o][i].status # "failed", refunds[o][j].status # "failed"
        PROVE  FALSE
    <3>1. i \in DOMAIN refunds[o] /\ j \in DOMAIN refunds[o]
      BY <2>1, <2>5, <2>7 DEF RefundsAgree
    <3>2. refunds[o] \in Seq(Refund)
      BY <1>1 DEF Inv, Typed, ReviewsTyped
    <3>3. refunds[o][i] \in Refund /\ refunds[o][j] \in Refund
      BY <3>1, <3>2
    <3>4. /\ i \in Pending(o) \/ i \in Returned(o)
          /\ j \in Pending(o) \/ j \in Returned(o)
      BY <2>7, <3>1, <3>3 DEF Refund, Pending, Returned
    <3>5. Pending(o) = {} \/ Returned(o) = {}
      <4> HIDE DEF Pending, Returned
      <4> QED BY <2>1 DEF RefundsAgree
    <3> HIDE DEF Pending, Returned
    <3> QED BY <2>1, <2>7, <3>4, <3>5 DEF RefundsAgree
  <2> QED BY <2>2, <2>4, <2>6, <2>7
<1>2. Inv => ReturnedOnce
  BY <1>1 DEF ReturnedOnce
<1> QED BY <1>2, Invariance, PTL

\* The journal explains the balance of the wallet, step by step.
THEOREM JournalTheorem == Spec => JournalExplains
<1>1. Inv /\ [Next]_vars => Explains
  BY InvNext
<1>2. Explains =>
        /\ wallet'.balance # wallet.balance => journal' # journal
        /\ journal' # journal =>
             LET line == Last(journal')
             IN  /\ wallet'.balance = line.after \/ (LateGrant /\ wallet'.balance = wallet.balance)
                 /\ \/ line.type = "grant" /\ line.after = line.amount
                    \/ line.after = wallet.balance + line.amount
                    \/ line.type = "consume" /\ wallet.balance + line.amount < 0 /\ line.after = 0
  BY DEF Explains
<1> QED BY <1>1, <1>2, Invariance, PTL DEF Spec, JournalExplains

\* Where no grant is late ...
NoLateGrant == [][~LateGrant]_vars

\* ... the journal ends at the balance.
JournalAgrees == wallet.balance = IF journal = <<>> THEN 0 ELSE Last(journal).after

\* Late grants are all that can part the journal from the wallet.
THEOREM BalanceTheorem == Spec /\ NoLateGrant => []JournalAgrees
<1>1. Init => JournalAgrees
  BY DEF Init, NoWallet, JournalAgrees
<1>2. JournalAgrees /\ [Explains]_vars /\ [~LateGrant]_vars => JournalAgrees'
  <2>1. JournalAgrees /\ Explains /\ ~LateGrant => JournalAgrees'
    BY DEF JournalAgrees, Explains
  <2>2. JournalAgrees /\ UNCHANGED vars => JournalAgrees'
    BY DEF JournalAgrees, vars, books
  <2> QED BY <2>1, <2>2
<1>3. Inv /\ [Next]_vars => Explains
  BY InvNext
<1>4. NoLateGrant => [][~LateGrant]_vars
  BY DEF NoLateGrant
<1> HIDE DEF JournalAgrees
<1> QED BY <1>1, <1>2, <1>3, <1>4, Invariance, PTL DEF Spec

----------------------------------------------------------------------------
(* The identity of the wallet.                                              *)

\* A charge that the balance covers keeps the identity.
LEMMA ChargeBalanced ==
  ASSUME BooksTyped, NEW o \in Orders, NEW p \in Periods, NEW a \in Nat, Charge(o, p, a),
         Balanced
  PROVE  /\ a <= wallet.balance => Balanced'
         /\ Last(journal').type = "consume" /\ Last(journal').order = o
         /\ -Last(journal').amount = a /\ journal' # journal
<1>1. /\ wallet'.balance = (IF wallet.balance > a THEN wallet.balance - a ELSE 0)
      /\ wallet'.consumed = wallet.consumed + a
      /\ wallet'.grant = wallet.grant /\ wallet'.expired = wallet.expired
      /\ Enter("consume", o, p, -a, wallet'.balance)
  BY ChargeTypes
<1>2. /\ wallet.balance \in Nat /\ wallet.consumed \in Nat /\ wallet.expired \in Nat
      /\ wallet.grant \in Nat
  BY DEF BooksTyped, Wallet
<1>3. a <= wallet.balance => Balanced'
  BY <1>1, <1>2 DEF Balanced
<1>4. /\ Last(journal').type = "consume" /\ Last(journal').order = o
      /\ Last(journal').amount = -a /\ journal' # journal
  BY <1>1, EnterLast
<1> QED BY <1>3, <1>4

\* Only a mixed sale whose share is no longer there, a refund of more than the period has
\* consumed, or a late grant, breaks grant - consumed - expired = balance.
THEOREM ShortfallTheorem == Spec => BrokenByShortfallOrLateGrant
<1>1. Inv /\ [Next]_vars => [Balanced /\ ~Balanced' => Shortfall \/ LateGrant]_vars
  <2> SUFFICES ASSUME Inv, [Next]_vars, Balanced, ~Balanced' PROVE Shortfall \/ LateGrant
    OBVIOUS
  <2>1. /\ Typed /\ BooksTyped /\ SalesTyped /\ ReviewsTyped /\ month \in Periods
        /\ wallet \in Wallet /\ wallet.balance \in Nat /\ wallet.consumed \in Nat
        /\ wallet.expired \in Nat /\ wallet.grant \in Nat
    BY DEF Inv, Typed, BooksTyped, Wallet
  <2>2. wallet' # wallet
    BY DEF Balanced
  <2>3. ASSUME NEW o \in Orders, NEW a \in Amounts, CheckoutSubsidy(o, a) PROVE FALSE
    <3>1. a \in Nat /\ a # 0 /\ Charge(o, month, a) /\ Available >= a
      BY <2>3, CanteenAssumption DEF CheckoutSubsidy
    <3>2. a <= wallet.balance
      BY <2>1, <3>1 DEF Available
    <3> QED BY <2>1, <3>1, <3>2, ChargeBalanced
  <2>4. ASSUME NEW o \in Orders, ApplySuccess(o) PROVE Shortfall
    <3>1. order[o].channel = "mixed" /\ Charge(o, order[o].period, order[o].subsidy)
      BY <2>2, <2>4 DEF ApplySuccess, books
    <3>2. order[o].status = "pending"
      BY <2>4 DEF ApplySuccess, Inv, Agrees, SaleAgrees
    <3>3. order[o].period \in Periods /\ order[o].subsidy \in Nat
      BY <2>1, <3>2 DEF SalesTyped, Order
    <3>4. /\ order[o].subsidy <= wallet.balance => Balanced'
          /\ Last(journal').type = "consume" /\ Last(journal').order = o
          /\ -Last(journal').amount = order[o].subsidy /\ journal' # journal
      BY <2>1, <3>1, <3>3, ChargeBalanced
    <3> QED BY <2>1, <3>1, <3>3, <3>4 DEF Shortfall
  <2>5. ASSUME NEW o \in Orders, NEW i \in 1 .. MaxRefunds[o], ApproveWallet(o, i) PROVE Shortfall
    <3> DEFINE a == refunds[o][i].amount
    <3>1. /\ wallet' = [wallet EXCEPT !.consumed = ConsumedLess(a), !.balance = Credit(a)]
          /\ Enter("refund", o, month, a, Credit(a))
      BY <2>2, <2>5 DEF ApproveWallet
    <3>2. a \in Nat
      <4>1. i \in DOMAIN refunds[o] /\ refunds[o] \in Seq(Refund)
        BY <2>1, <2>5 DEF ApproveWallet, Reviewed, Pending, ReviewsTyped
      <4>2. refunds[o][i] \in Refund
        BY <4>1
      <4> QED BY <4>2, CanteenAssumption DEF Refund
    <3> HIDE DEF a
    <3>3. Last(journal').type = "refund" /\ Last(journal').amount = a /\ journal' # journal
      BY <2>1, <3>1, EnterLast
    <3>4. /\ wallet'.consumed = ConsumedLess(a) /\ wallet'.balance = wallet.balance + a
          /\ wallet'.grant = wallet.grant /\ wallet'.expired = wallet.expired
      BY <2>1, <3>1 DEF Wallet, Credit
    <3>5. a <= wallet.consumed => wallet'.consumed = wallet.consumed - a
      BY <2>1, <3>2, <3>4, MaxZero DEF ConsumedLess
    <3>6. a > wallet.consumed
      BY <2>1, <3>2, <3>4, <3>5 DEF Balanced
    <3> QED BY <3>3, <3>6 DEF Shortfall
  <2>6. ASSUME NEW p \in Periods, GrantOne(p) PROVE LateGrant
    BY <2>1, <2>6, GrantWrites, CanteenAssumption DEF Balanced
  <2>7. CASE ExpireOne
    <3>1. /\ wallet'.consumed = wallet.consumed /\ wallet'.grant = wallet.grant
          /\ wallet'.expired = wallet.expired + wallet.balance /\ wallet'.balance = 0
      BY <2>1, <2>7 DEF ExpireOne, Wallet
    <3> QED BY <2>1, <3>1 DEF Balanced
  <2>8. CASE \/ UNCHANGED vars \/ ExpireNothing \/ NewMonth
             \/ \E p \in Periods : GrantRead(p) \/ GrantFail(p) \/ ExpireList(p)
             \/ \E o \in Orders : \E a \in Amounts : \/ CheckoutQr(o, a) \/ CheckoutMixed(o, a)
                                                     \/ CreateRefund(o, a)
             \/ \E o \in Orders : Timeout(o) \/ RefundedCallback(o)
             \/ \E o \in Orders : \E i \in 1 .. MaxRefunds[o] :
                  \/ ApproveCall(o, i) \/ ApproveCommit(o, i) \/ ApproveAbort(o, i)
                  \/ Reject(o, i)
    <3>1. wallet' = wallet
      BY <2>8 DEF vars, books, ExpireNothing, NewMonth, GrantRead, GrantFail, ExpireList, CheckoutQr, CheckoutMixed,
                  CreateRefund, Timeout, RefundedCallback, ApplyClosed,
                  ApproveCall, ApproveCommit, ApproveAbort, Reject
    <3> QED BY <2>2, <3>1
  <2> QED BY <2>3, <2>4, <2>5, <2>6, <2>7, <2>8 DEF Next, Checkout, Review
<1> QED BY <1>1, Invariance, PTL DEF Spec, BrokenByShortfallOrLateGrant

NoShortfall == [][~Shortfall]_vars

\* The identity of the data model holds at all times for an employee whose wallet no grant
\* is late for, none of whose mixed sales finds its planned share gone, and none of whose
\* refunds exceeds what the month's wallet has consumed.
THEOREM BalancedTheorem == Spec /\ NoShortfall /\ NoLateGrant => []Balanced
<1>1. Init => Balanced
  BY DEF Init, NoWallet, Balanced
<1>2. ASSUME Balanced, [Balanced /\ ~Balanced' => Shortfall \/ LateGrant]_vars,
             [~Shortfall]_vars, [~LateGrant]_vars
      PROVE  Balanced'
  <2>1. CASE UNCHANGED vars
    BY <1>2, <2>1 DEF Balanced, vars, books
  <2>2. CASE ~UNCHANGED vars
    BY <1>2, <2>2
  <2> QED BY <2>1, <2>2
<1>3. Spec => [][Balanced /\ ~Balanced' => Shortfall \/ LateGrant]_vars
  BY ShortfallTheorem DEF BrokenByShortfallOrLateGrant
<1>4. NoShortfall => [][~Shortfall]_vars
  BY DEF NoShortfall
<1>5. NoLateGrant => [][~LateGrant]_vars
  BY DEF NoLateGrant
<1> HIDE DEF Balanced, Shortfall, LateGrant
<1> QED BY <1>1, <1>2, <1>3, <1>4, <1>5, PTL DEF Spec

----------------------------------------------------------------------------
(* Refinement: what a step does to the status of an order.                  *)

\* An order moves along its life cycle and keeps its subsidy share.
Moves(o) ==
  /\ \A q \in Orders \ {o} : order'[q] = order[q]
  /\ \/ order[o].status = "none" /\ order'[o].status \in {"pending", "paid"}
     \/ /\ order'[o].subsidy = order[o].subsidy
        /\ \/ order[o].status = "pending" /\ order'[o].status \in {"completed", "cancelled"}
           \/ order[o].status \in {"paid", "completed"} /\ order'[o].status = "refunded"

\* Every step moves at most one order, along its life cycle.
LEMMA OrderMoves ==
  ASSUME Inv, [Next]_vars
  PROVE  (\E o \in Orders : Moves(o)) \/ order' = order
<1>1. Typed /\ SalesTyped /\ \A o \in Orders : SaleAgrees(o)
  BY DEF Inv, Typed, Agrees
<1>2. ASSUME NEW o \in Orders, Checkout(o) PROVE Moves(o)
  <2>1. Available \in Nat
    BY <1>1 DEF Available, Typed, BooksTyped, Wallet
  <2>2. PICK a \in Amounts, s \in Nat, status \in {"pending", "paid"},
             channel \in {"qr_pay", "subsidy", "mixed"} : Opens(o, status, channel, a, s)
    <3>1. PICK a \in Amounts : CheckoutQr(o, a) \/ CheckoutSubsidy(o, a) \/ CheckoutMixed(o, a)
      BY <1>2 DEF Checkout
    <3>2. a \in Nat /\ Min({Available, a}) \in Nat
      BY <2>1, MinOf, CanteenAssumption
    <3>3. \/ Opens(o, "pending", "qr_pay", a, 0) \/ Opens(o, "paid", "subsidy", a, a)
          \/ Opens(o, "pending", "mixed", a, Min({Available, a}))
      BY <3>1 DEF CheckoutQr, CheckoutSubsidy, CheckoutMixed
    <3> QED BY <3>2, <3>3
  <2>3. a \in Nat /\ order[o].status = "none"
    BY <2>2, CanteenAssumption DEF Opens
  <2>4. order'[o].status = status /\ \A q \in Orders \ {o} : order'[q] = order[q]
    BY <1>1, <2>2, <2>3, OpensTypes
  <2> QED BY <2>3, <2>4 DEF Moves
<1>3. ASSUME NEW o \in Orders, NEW status \in {"paid", "completed", "cancelled", "refunded"},
             order' = [order EXCEPT ![o].status = status],
             \/ order[o].status = "pending" /\ status \in {"completed", "cancelled"}
             \/ order[o].status \in {"paid", "completed"} /\ status = "refunded"
      PROVE  Moves(o)
  <2>1. /\ order'[o].status = status /\ order'[o].subsidy = order[o].subsidy
        /\ \A q \in Orders \ {o} : order'[q] = order[q]
    BY <1>1, <1>3, StatusTypes
  <2> QED BY <1>3, <2>1 DEF Moves
<1>4. ASSUME NEW o \in Orders, ApplySuccess(o) PROVE Moves(o)
  BY <1>1, <1>3, <1>4 DEF ApplySuccess, SaleAgrees
<1>5. ASSUME NEW o \in Orders, ApplyClosed(o) PROVE Moves(o) \/ order' = order
  <2>1. CASE order[o].status = "pending"
    BY <1>3, <1>5, <2>1 DEF ApplyClosed, CancelPending
  <2>2. CASE order[o].status # "pending"
    <3>1. order' = [order EXCEPT ![o].status = order[o].status]
      BY <1>5, <2>2 DEF ApplyClosed, CancelPending
    <3>2. order'[o] = order[o]
      BY <1>1, <3>1 DEF SalesTyped, Order
    <3> QED BY <1>1, <3>1, <3>2 DEF SalesTyped
  <2> QED BY <2>1, <2>2
<1>6. ASSUME NEW o \in Orders, NEW i \in Nat, Succeeds(o, i),
             i \in Pending(o) \/ <<o, i>> \in calling
      PROVE  Moves(o)
  <2>1. order[o].status \in {"paid", "completed"}
    BY <1>6, Reviewing
  <2> QED BY <1>3, <1>6, <2>1 DEF Succeeds
<1>7. ASSUME NEW o \in Orders, Review(o) PROVE Moves(o) \/ order' = order
  <2>1. PICK i \in 1 .. MaxRefunds[o] : \/ ApproveWallet(o, i) \/ ApproveCall(o, i)
                                    \/ ApproveCommit(o, i) \/ ApproveAbort(o, i) \/ Reject(o, i)
    BY <1>7 DEF Review
  <2>2. i \in Nat
    BY CanteenAssumption
  <2>3. CASE ApproveWallet(o, i) \/ ApproveCommit(o, i)
    <3> HIDE DEF Pending
    <3> QED BY <1>6, <2>2, <2>3 DEF ApproveWallet, ApproveCommit, Reviewed
  <2>4. CASE ApproveCall(o, i) \/ ApproveAbort(o, i) \/ Reject(o, i)
    BY <2>4 DEF ApproveCall, ApproveAbort, Reject, sales
  <2> QED BY <2>1, <2>3, <2>4
<1>8. CASE \/ UNCHANGED vars \/ ExpireOne \/ ExpireNothing \/ NewMonth
           \/ \E p \in Periods : GrantRead(p) \/ GrantOne(p) \/ GrantFail(p) \/ ExpireList(p)
           \/ \E o \in Orders : \E a \in Amounts : CreateRefund(o, a)
  BY <1>8 DEF vars, sales, ExpireOne, ExpireNothing, NewMonth, GrantRead, GrantOne, GrantFail,
              ExpireList, CreateRefund
<1> QED BY <1>2, <1>4, <1>5, <1>7, <1>8 DEF Next, Timeout, RefundedCallback

\* The abstract counters of the sales follow from the orders.
CountersFollow ==
  /\ [o \in Orders |-> Cardinality(Lines(o, "consume"))] =
       [o \in Orders |-> IF Settled(o) /\ order[o].subsidy > 0 THEN 1 ELSE 0]
  /\ [o \in Orders |-> Cardinality(Returned(o))] =
       [o \in Orders |-> IF order[o].status = "refunded" THEN 1 ELSE 0]

\* They do so wherever the invariant holds, before a step and after it.
LEMMA Mapped == Inv => CountersFollow
<1> HIDE DEF Settled, Lines, Returned
<1> QED BY Counts DEF CountersFollow

\* ... after the step.
LEMMA MappedNext == Inv' => CountersFollow'
BY Mapped, PTL

\* The initial states are initial states of the life cycle ...
LEMMA LifeInit == Init => Life!Init
<1> SUFFICES ASSUME Init PROVE Life!Init
  OBVIOUS
<1>1. \A o \in Orders : order[o].status = "none" /\ SaleOf(o) = "none" /\ ~Settled(o)
  BY DEF Init, NoOrder, SaleOf, Settled
<1>2. /\ [o \in Orders |-> Cardinality(Lines(o, "consume"))] = [o \in Orders |-> 0]
      /\ [o \in Orders |-> Cardinality(Returned(o))] = [o \in Orders |-> 0]
  <2> HIDE DEF Settled, Lines, Returned
  <2> QED BY <1>1, InvInit, Counts
<1> HIDE DEF SaleOf, Lines, Returned
<1> QED BY <1>1, <1>2 DEF Life!Init

\* ... and every step is one of its steps, or changes nothing of it.
LEMMA LifeNext == Inv /\ Inv' /\ [Next]_vars => [Life!Next]_(Life!vars)
<1> SUFFICES ASSUME Inv, Inv', [Next]_vars PROVE [Life!Next]_(Life!vars)
  OBVIOUS
<1> DEFINE sale == [o \in Orders |-> SaleOf(o)]
           charged == [o \in Orders |-> Cardinality(Lines(o, "consume"))]
           returned == [o \in Orders |-> Cardinality(Returned(o))]
           c(o) == IF Settled(o) /\ order[o].subsidy > 0 THEN 1 ELSE 0
           r(o) == IF order[o].status = "refunded" THEN 1 ELSE 0
<1>1. /\ charged = [o \in Orders |-> c(o)] /\ charged' = [o \in Orders |-> c(o)']
      /\ returned = [o \in Orders |-> r(o)] /\ returned' = [o \in Orders |-> r(o)']
  BY Mapped, MappedNext DEF CountersFollow
<1>2. sale' = [o \in Orders |-> SaleOf(o)']
  OBVIOUS
<1> HIDE DEF charged, returned
<1>3. CASE order' = order
  <2>1. \A o \in Orders : SaleOf(o)' = SaleOf(o) /\ c(o)' = c(o) /\ r(o)' = r(o)
    BY <1>3 DEF SaleOf, Settled
  <2> HIDE DEF SaleOf, c, r
  <2>2. sale' = sale /\ charged' = charged /\ returned' = returned
    BY <1>1, <1>2, <2>1
  <2> QED BY <2>2 DEF Life!vars, sale, charged, returned
<1>4. ASSUME NEW o \in Orders, Moves(o) PROVE Life!Next
  <2>1. \A q \in Orders \ {o} : SaleOf(q)' = SaleOf(q) /\ c(q)' = c(q) /\ r(q)' = r(q)
    BY <1>4 DEF Moves, SaleOf, Settled
  <2>2. /\ sale' = [sale EXCEPT ![o] = SaleOf(o)'] /\ sale[o] = SaleOf(o)
        /\ charged' = [charged EXCEPT ![o] = c(o)'] /\ charged[o] = c(o)
        /\ returned' = [returned EXCEPT ![o] = r(o)'] /\ returned[o] = r(o)
    <3> HIDE DEF SaleOf, c, r
    <3> QED BY <1>1, <1>2, <2>1
  <2>3. /\ c(o)' = c(o) => charged' = charged
        /\ r(o)' = r(o) => returned' = returned
    <3> HIDE DEF c, r
    <3> QED BY <1>1, <2>1
  <2>4. \/ Life!Open(o) \/ Life!Settle(o) \/ Life!Drop(o) \/ Life!GiveBack(o)
    <3>1. CASE order[o].status = "none" /\ order'[o].status = "pending"
      <4>1. SaleOf(o) = "none" /\ SaleOf(o)' = "open" /\ c(o)' = c(o) /\ r(o)' = r(o)
        BY <3>1 DEF SaleOf, Settled
      <4> HIDE DEF c, r, SaleOf
      <4> QED BY <2>2, <2>3, <4>1 DEF Life!Open, Life!Move, sale, charged, returned
    <3>2. CASE /\ order[o].status \in {"none", "pending"}
               /\ order'[o].status \in {"paid", "completed"}
      <4>1. /\ SaleOf(o) \in {"none", "open"} /\ SaleOf(o)' = "settled"
            /\ c(o)' \in {0, 1} /\ r(o)' = r(o)
        BY <3>2 DEF SaleOf
      <4> HIDE DEF c, r, SaleOf
      <4> QED BY <2>2, <2>3, <4>1 DEF Life!Settle, Life!Move, sale, charged, returned
    <3>3. CASE order[o].status = "pending" /\ order'[o].status = "cancelled"
      <4>1. SaleOf(o) = "open" /\ SaleOf(o)' = "dropped" /\ c(o)' = c(o) /\ r(o)' = r(o)
        BY <3>3 DEF SaleOf, Settled
      <4> HIDE DEF c, r, SaleOf
      <4> QED BY <2>2, <2>3, <4>1 DEF Life!Drop, Life!Move, sale, charged, returned
    <3>4. CASE /\ order[o].status \in {"paid", "completed"} /\ order'[o].status = "refunded"
               /\ order'[o].subsidy = order[o].subsidy
      <4>1. SaleOf(o) = "settled" /\ SaleOf(o)' = "returned" /\ c(o)' = c(o) /\ r(o)' = 1
        BY <3>4 DEF SaleOf, Settled
      <4> HIDE DEF c, r, SaleOf
      <4> QED BY <2>2, <2>3, <4>1 DEF Life!GiveBack, Life!Move, sale, charged, returned
    <3> QED BY <1>4, <3>1, <3>2, <3>3, <3>4 DEF Moves
  <2> QED BY <2>4 DEF Life!Next
<1> QED BY <1>3, <1>4, OrderMoves

\* Every sale lives the life that SaleLifecycle describes.
THEOREM Refinement == Spec => SaleSpec
<1>1. Spec => Life!Init
  BY LifeInit DEF Spec
<1> QED BY <1>1, LifeNext, Invariance, PTL DEF Spec, SaleSpec, Life!Spec
============================================================================

---------------------------- MODULE CanteenSales ----------------------------
(***************************************************************************)
(* The sales of the canteen to ONE employee, and the employee's virtual     *)
(* subsidy wallet (apps/api/src/modules/canteen): check-out, the callbacks  *)
(* of the payment channel, the scheduler that closes unpaid orders, refunds *)
(* with their review, and the monthly grant and expiry of the subsidy.      *)
(* Wallets of different employees do not interact.  A transaction that      *)
(* holds the wallet's or the order's row lock from its first read to its    *)
(* commit is one action.  Two are those that act before they lock or        *)
(* commit: the expiry lists its wallets and then locks one, the review of a *)
(* refund calls the channel and then commits, and a grant, which locks      *)
(* nothing, reads the wallet and then updates the columns that are to       *)
(* change, after waiting for whoever holds the row's lock.  A handler that  *)
(* finds nothing to do, such as one called with a repeated callback, is no  *)
(* action.                                                                  *)
(***************************************************************************)
EXTENDS Integers, SequencesExt

CONSTANTS Orders,      \* orders of the employee
          Amounts,     \* what an order may cost, and a refund may be asked for
          Grant,       \* monthlyLunchSubsidy
          Months,      \* bound: account periods 1 .. Months
          MaxRefunds   \* bound: refunds asked for each order

ASSUME CanteenAssumption ==
  /\ Amounts \subseteq Nat \ {0}
  /\ Grant \in Nat \ {0} /\ Months \in Nat \ {0} /\ MaxRefunds \in [Orders -> Nat]

VARIABLES
  month,    \* periodOf(now)
  wallet,   \* biz_canteen_wallets: its account period and amounts
  grants,   \* status of biz_canteen_subsidy_grants, per period
  journal,  \* biz_canteen_wallet_txns, in the order they were committed
  order, payment, meal,  \* biz_canteen_orders, _payments, _meal_records
  refunds,  \* biz_canteen_refunds of each order
  back,     \* at the channel: the refunds it has executed
  calling,  \* reviews that called the channel and did not commit yet
  granting, \* the wallet's row as the grant of a period has read it, while it is under way
  sweep     \* the period whose wallets runExpire has listed, or 0

books == <<wallet, grants, journal>>
sales == <<order, payment, meal>>
reviews == <<refunds, back, calling>>
jobs == <<granting, sweep>>
vars == <<month, books, sales, reviews, jobs>>

Periods == 1 .. Months
Wallet == [period : 0 .. Months, grant : Nat, consumed : Nat, expired : Nat, balance : Nat]
Order == [status : {"none", "pending", "paid", "completed", "cancelled", "refunded"},
          channel : {"qr_pay", "subsidy", "mixed"}, pay : Nat, subsidy : Nat, period : 0 .. Months]
Refund == [status : {"pending", "succeeded", "failed"}, amount : Amounts]
Line == [type : {"grant", "consume", "refund", "expire"}, order : Orders \cup {"none"},
         period : Periods, amount : Int, after : Nat]

\* Every table stays within its columns and CHECK constraints, amounts of the wallet
\* and balance_after not being negative among them.
TypeOK ==
  /\ month \in Periods /\ wallet \in Wallet /\ sweep \in 0 .. Months
  /\ \A p \in Periods : Cardinality(granting[p]) <= 1 /\ granting[p] \subseteq Wallet
  /\ grants \in [Periods -> {"none", "granted", "partially_consumed", "consumed", "expired"}]
  /\ \A i \in DOMAIN journal : journal[i] \in Line
  /\ order \in [Orders -> Order]
  /\ payment \in [Orders -> {"none", "pending", "paid", "closed", "refunded"}]
  /\ meal \in [Orders -> {"none", "normal", "voided"}]
  /\ \A o \in Orders : \A i \in DOMAIN refunds[o] : refunds[o][i] \in Refund
  /\ calling \subseteq back /\ back \subseteq Orders \X Nat

NoOrder == [status |-> "none", channel |-> "qr_pay", pay |-> 0, subsidy |-> 0, period |-> 0]
NoWallet == [period |-> 0, grant |-> 0, consumed |-> 0, expired |-> 0, balance |-> 0]

Init ==
  /\ month = 1 /\ wallet = NoWallet /\ sweep = 0 /\ granting = [p \in Periods |-> {}]
  /\ grants = [p \in Periods |-> "none"] /\ journal = <<>>
  /\ order = [o \in Orders |-> NoOrder]
  /\ payment = [o \in Orders |-> "none"] /\ meal = [o \in Orders |-> "none"]
  /\ refunds = [o \in Orders |-> <<>>]
  /\ back = {} /\ calling = {}

-----------------------------------------------------------------------------
(* The wallet's journal and the grant of a period.                          *)

Enter(type, o, p, amount, after) ==
  journal' = Append(journal, [type |-> type, order |-> o, period |-> p,
                              amount |-> amount, after |-> after])

ConsumeLines(o) == {i \in DOMAIN journal : journal[i].type = "consume" /\ journal[i].order = o}

\* A consume line, the wallet and the grant it comes from.  What the balance does not
\* cover is consumed all the same; the balance stops at zero.
Charge(o, p, amount) ==
  LET left == Max({0, wallet.balance - amount})
  IN  /\ wallet' = [wallet EXCEPT !.consumed = @ + amount, !.balance = left]
      /\ Enter("consume", o, p, -amount, left)
      /\ grants' = [grants EXCEPT ![p] = IF left = 0 THEN "consumed" ELSE "partially_consumed"]

\* The balance a check-out may use: that of the current period.
Available == IF wallet.period = month THEN wallet.balance ELSE 0

-----------------------------------------------------------------------------
(* Check-out.                                                               *)

Opens(o, status, channel, a, s) ==
  /\ order[o].status = "none"
  /\ order' = [order EXCEPT ![o] = [status |-> status, channel |-> channel,
                                    pay |-> a, subsidy |-> s, period |-> month]]

\* checkout by QR code: order and payment pending, the code is shown to the buyer.
CheckoutQr(o, a) ==
  /\ Opens(o, "pending", "qr_pay", a, 0)
  /\ payment' = [payment EXCEPT ![o] = "pending"]
  /\ UNCHANGED <<month, books, meal, reviews, jobs>>

\* settlePureSubsidy: the whole amount is taken from the locked wallet at once.
CheckoutSubsidy(o, a) ==
  /\ Available >= a
  /\ Opens(o, "paid", "subsidy", a, a)
  /\ meal' = [meal EXCEPT ![o] = "normal"]
  /\ Charge(o, month, a)
  /\ UNCHANGED <<month, payment, reviews, jobs>>

\* createMixedOrder: the subsidy is planned from the balance but not reserved; the
\* difference, maybe nothing, is to be paid by QR code.
CheckoutMixed(o, a) ==
  /\ Available > 0
  /\ Opens(o, "pending", "mixed", a, Min({Available, a}))
  /\ payment' = [payment EXCEPT ![o] = "pending"]
  /\ meal' = [meal EXCEPT ![o] = "normal"]
  /\ UNCHANGED <<month, books, reviews, jobs>>

-----------------------------------------------------------------------------
(* The outcome of a payment.                                                *)

\* applySuccess, and settleMixedOnPaymentSuccess for a mixed order: the channel may
\* report a payment at any time.  A callback for a closed or refunded payment is
\* refused, one for a paid payment acknowledged.
ApplySuccess(o) ==
  /\ payment[o] = "pending"
  /\ payment' = [payment EXCEPT ![o] = "paid"]
  /\ order' = [order EXCEPT ![o].status = "completed"]
  /\ IF order[o].channel = "mixed" THEN Charge(o, order[o].period, order[o].subsidy)
                                   ELSE UNCHANGED books
  /\ UNCHANGED <<month, meal, reviews, jobs>>

\* Mutant: closing that does not ask whether the order is still pending.
CancelAny(o) == /\ order' = [order EXCEPT ![o].status = "cancelled"]
                /\ UNCHANGED meal

\* Mutant: closing that keeps the meal reserved for a mixed order.
CancelKeepsMeal(o) == /\ order' = [order EXCEPT ![o].status =
                            IF @ = "pending" THEN "cancelled" ELSE @]
                      /\ UNCHANGED meal

\* Only a pending order is cancelled; reverseMixedOnClose voids the reserved meal.
CancelPending(o) ==
  /\ order' = [order EXCEPT ![o].status = IF @ = "pending" THEN "cancelled" ELSE @]
  /\ meal' = [meal EXCEPT ![o] =
       IF order[o].status = "pending" /\ order[o].channel = "mixed" THEN "voided" ELSE @]

\* applyClosed: whoever calls it, a payment that is neither paid nor closed is closed.
ApplyClosed(o) ==
  /\ payment' = [payment EXCEPT ![o] = "closed"]
  /\ CancelPending(o)
  /\ UNCHANGED <<month, books, reviews, jobs>>

\* Mutant: a sweep that spares the orders with a subsidy share.
OverdueQr(o) == payment[o] = "pending" /\ order[o].channel = "qr_pay"
Overdue(o) == payment[o] = "pending"

\* closeExpiredPendingPayments; the channel is not asked.  Its own callback for a code
\* that ran out does the same.
Timeout(o) == Overdue(o) /\ ApplyClosed(o)

\* The channel reports its refund by a callback, which the webhook handles as closing.
RefundedCallback(o) ==
  /\ payment[o] = "refunded"
  /\ ApplyClosed(o)

-----------------------------------------------------------------------------
(* Refunds.                                                                 *)

Pending(o) == {i \in DOMAIN refunds[o] : refunds[o][i].status = "pending"}

\* Mutant: a refund that may be asked for while another one is under review.
NoneAsked(o) == TRUE
NoneOpen(o) == Pending(o) = {}

CreateRefund(o, a) ==
  /\ order[o].status \in {"paid", "completed"}
  /\ NoneOpen(o) /\ Len(refunds[o]) < MaxRefunds[o]
  /\ refunds' = [refunds EXCEPT ![o] = Append(@, [status |-> "pending", amount |-> a])]
  /\ UNCHANGED <<month, books, sales, back, calling, jobs>>

\* A refund under review whose row, like its order's, nobody has locked.
Reviewed(o, i) == i \in Pending(o) /\ \A j \in Pending(o) : <<o, j>> \notin calling

\* refund_channel of the orders that nothing was to be paid for by QR code.
ByWallet(o) == order[o].subsidy = order[o].pay

\* approve marks refund and order, in full whatever the refund's amount.
Succeeds(o, i) ==
  /\ order[o].status # "refunded"
  /\ refunds' = [refunds EXCEPT ![o][i].status = "succeeded"]
  /\ order' = [order EXCEPT ![o].status = "refunded"]

\* Mutant: a credit that lets the consumed amount go below zero.
ConsumedBack(amount) == wallet.consumed - amount
ConsumedLess(amount) == Max({0, wallet.consumed - amount})

\* Mutant: a credit that is cut at the grant, but entered in full.
CreditCut(amount) == Min({wallet.grant, wallet.balance + amount})
Credit(amount) == wallet.balance + amount

\* creditWallet: only a wallet of the current period is credited.
ApproveWallet(o, i) ==
  /\ Reviewed(o, i) /\ ByWallet(o) /\ Succeeds(o, i)
  /\ LET amount == refunds[o][i].amount
     IN  \/ /\ wallet.period = month /\ ConsumeLines(o) # {}
            /\ wallet' = [wallet EXCEPT !.consumed = ConsumedLess(amount), !.balance = Credit(amount)]
            /\ Enter("refund", o, month, amount, Credit(amount))
         \/ wallet.period # month /\ UNCHANGED <<wallet, journal>>
  /\ UNCHANGED <<month, grants, payment, meal, back, calling, jobs>>

\* approve calls the channel from within its transaction.
ApproveCall(o, i) ==
  /\ Reviewed(o, i) /\ ~ByWallet(o) /\ order[o].status # "refunded"
  /\ back' = back \cup {<<o, i>>} /\ calling' = calling \cup {<<o, i>>}
  /\ UNCHANGED <<month, books, sales, refunds, jobs>>

ApproveCommit(o, i) ==
  /\ <<o, i>> \in calling /\ Succeeds(o, i)
  /\ payment' = [payment EXCEPT ![o] = "refunded"]
  /\ calling' = calling \ {<<o, i>>}
  /\ UNCHANGED <<month, books, meal, back, jobs>>

\* The process dies, or a write fails: all is rolled back but what the channel did.
ApproveAbort(o, i) ==
  /\ <<o, i>> \in calling
  /\ calling' = calling \ {<<o, i>>}
  /\ UNCHANGED <<month, books, sales, refunds, back, jobs>>

Reject(o, i) ==
  /\ Reviewed(o, i)
  /\ refunds' = [refunds EXCEPT ![o][i].status = "failed"]
  /\ UNCHANGED <<month, books, sales, back, calling, jobs>>

-----------------------------------------------------------------------------
(* The monthly subsidy.                                                     *)

\* Mutant: a grant that adds up what was consumed over the months.
ResetKeeps(p) == [wallet EXCEPT !.period = p, !.grant = Grant, !.expired = 0, !.balance = Grant]
Reset(p) == [period |-> p, grant |-> Grant, consumed |-> 0, expired |-> 0, balance |-> Grant]

\* grantOneEmployee, by the scheduler for this month or by hand for any.  save reads the
\* wallet again, to find the columns that differ from the new period's: the period does.
\* A wallet of this period has its grant already, or is about to: the grant then fails.
GrantRead(p) ==
  /\ grants[p] = "none" /\ granting[p] = {}
  /\ granting' = [granting EXCEPT ![p] = {wallet}]
  /\ UNCHANGED <<month, books, sales, reviews, sweep>>

\* Only these columns are written, to the row there is when its lock is free.  A wallet that
\* was not there is inserted, unless one is by now.  The journal has what was to be.
GrantOne(p) ==
  \E read \in granting[p] :
    /\ grants[p] = "none" /\ (read.period = 0 => wallet.period = 0)
    /\ wallet' = [c \in DOMAIN wallet |-> IF read[c] = Reset(p)[c] THEN wallet[c] ELSE Reset(p)[c]]
    /\ grants' = [grants EXCEPT ![p] = "granted"]
    /\ Enter("grant", "none", p, Grant, Grant)
    /\ granting' = [granting EXCEPT ![p] = {}]
    /\ UNCHANGED <<month, sales, reviews, sweep>>

\* A unique index refuses the wallet or the grant, or the process dies.
GrantFail(p) ==
  /\ granting[p] # {}
  /\ granting' = [granting EXCEPT ![p] = {}]
  /\ UNCHANGED <<month, books, sales, reviews, sweep>>

\* runExpire lists the wallets of a period ...
ExpireList(p) ==
  /\ sweep = 0 /\ wallet.period = p
  /\ sweep' = p
  /\ UNCHANGED <<month, books, sales, reviews, granting>>

\* ... and expireOneWallet empties one, whatever its period is by then.
ExpireOne ==
  /\ sweep # 0 /\ wallet.balance > 0
  /\ wallet' = [wallet EXCEPT !.expired = @ + wallet.balance, !.balance = 0]
  /\ Enter("expire", "none", sweep, -wallet.balance, 0)
  /\ grants' = [grants EXCEPT ![sweep] =
       IF @ \in {"granted", "partially_consumed"} THEN "expired" ELSE @]
  /\ sweep' = 0
  /\ UNCHANGED <<month, sales, reviews, granting>>

ExpireNothing ==
  /\ sweep # 0 /\ wallet.balance = 0
  /\ sweep' = 0
  /\ UNCHANGED <<month, books, sales, reviews, granting>>

NewMonth ==
  /\ month < Months
  /\ month' = month + 1
  /\ UNCHANGED <<books, sales, reviews, jobs>>

-----------------------------------------------------------------------------
Checkout(o) == \E a \in Amounts :
  CheckoutQr(o, a) \/ CheckoutSubsidy(o, a) \/ CheckoutMixed(o, a)

Review(o) == \E i \in 1 .. MaxRefunds[o] :
  ApproveWallet(o, i) \/ ApproveCall(o, i) \/ ApproveCommit(o, i) \/ ApproveAbort(o, i)
  \/ Reject(o, i)

Next ==
  \/ \E o \in Orders : \/ Checkout(o) \/ ApplySuccess(o) \/ Timeout(o)
                       \/ RefundedCallback(o) \/ Review(o)
                       \/ \E a \in Amounts : CreateRefund(o, a)
  \/ \E p \in Periods : GrantRead(p) \/ GrantOne(p) \/ GrantFail(p) \/ ExpireList(p)
  \/ ExpireOne \/ ExpireNothing \/ NewMonth

Spec == Init /\ [][Next]_vars

\* The interval timer of the timeout scheduler goes on.  Nothing obliges buyers, the
\* channel's callbacks or reviewers.
FairSpec == Spec /\ \A o \in Orders : WF_vars(Timeout(o))

-----------------------------------------------------------------------------
(* Properties.                                                              *)

Returned(o) == {i \in DOMAIN refunds[o] : refunds[o][i].status = "succeeded"}
Lines(o, type) == {i \in DOMAIN journal : journal[i].order = o /\ journal[i].type = type}
Settled(o) == order[o].status \in {"paid", "completed", "refunded"}

\* The tables that different services write tell the same story of a sale: its payment,
\* its meal, its consume line and its refund follow its order, and nothing but a
\* settled order with a subsidy share has a consume line.
RecordsAgree ==
  \A o \in Orders :
    /\ payment[o] = "pending" <=> order[o].status = "pending"
    /\ payment[o] = "paid" =>
         order[o].status = "completed" \/ (order[o].status = "refunded" /\ ByWallet(o))
    /\ payment[o] = "refunded" => order[o].status = "refunded"
    /\ payment[o] = "closed" => order[o].status \in {"cancelled", "refunded"}
    /\ meal[o] = "voided" <=> order[o].status = "cancelled" /\ order[o].channel = "mixed"
    /\ Cardinality(Lines(o, "consume")) =
         IF Settled(o) /\ order[o].subsidy > 0 THEN 1 ELSE 0
    /\ order[o].status = "refunded" <=> Returned(o) # {}

\* Money comes back once: one refund of an order succeeds, the channel executes one
\* refund beside those that were rejected after all, and what the channel returns is
\* not credited to the wallet too.
ReturnedOnce ==
  \A o \in Orders :
    /\ Cardinality(Returned(o)) <= 1
    /\ \A i, j \in 1 .. MaxRefunds[o] :
         /\ <<o, i>> \in back /\ <<o, j>> \in back /\ i # j
         => "failed" \in {refunds[o][i].status, refunds[o][j].status}
    /\ Cardinality(Lines(o, "refund")) <= 1
    /\ Lines(o, "refund") # {} => \A i \in 1 .. MaxRefunds[o] : <<o, i>> \notin back

\* A grant is written to a wallet that is no longer as the grant has read it: one was
\* charged, credited, expired or granted in between.
LateGrant == \E p \in Periods :
  grants[p] = "none" /\ grants'[p] = "granted" /\ granting[p] # {wallet}

\* The journal explains the wallet: the balance moves by a line, and the line ends at the
\* balance, which a late grant may leave as it finds it.  Each line carries on from the
\* balance, but for a grant, which starts anew, and a charge that the balance did not
\* cover, which ends at zero.
JournalExplains ==
  [][ /\ wallet'.balance # wallet.balance => journal' # journal
      /\ journal' # journal =>
           LET line == Last(journal')
           IN  /\ wallet'.balance = line.after \/ (LateGrant /\ wallet'.balance = wallet.balance)
               /\ \/ line.type = "grant" /\ line.after = line.amount
                  \/ line.after = wallet.balance + line.amount
                  \/ line.type = "consume" /\ wallet.balance + line.amount < 0 /\ line.after = 0 ]_books

Balanced == wallet.grant = wallet.consumed + wallet.expired + wallet.balance

\* A sale or a refund that the wallet does not cover: the last line of the journal is it.
Shortfall ==
  LET line == Last(journal')
  IN  /\ journal' # journal
      /\ \/ /\ line.type = "consume" /\ -line.amount > wallet.balance
            /\ order[line.order].channel = "mixed"
         \/ line.type = "refund" /\ line.amount > wallet.consumed

\* grant - consumed - expired = balance, as the data model says, can only be broken by a
\* mixed sale whose planned share is no longer there when it settles, by a refund of more
\* than the period has consumed, or by a late grant, which mixes two periods' amounts.
BrokenByShortfallOrLateGrant ==
  [][ Balanced /\ ~Balanced' => Shortfall \/ LateGrant ]_vars

\* Each sale follows its life cycle: charged in the step that settles it, given back
\* once, final when dropped or given back.
SaleOf(o) == CASE order[o].status = "pending" -> "open"
               [] order[o].status \in {"paid", "completed"} -> "settled"
               [] order[o].status = "cancelled" -> "dropped"
               [] order[o].status = "refunded" -> "returned"
               [] OTHER -> "none"

Life == INSTANCE SaleLifecycle
  WITH sale <- [o \in Orders |-> SaleOf(o)],
       charged <- [o \in Orders |-> Cardinality(Lines(o, "consume"))],
       returned <- [o \in Orders |-> Cardinality(Returned(o))]

\* Every sale lives the life SaleLifecycle describes.
SaleSpec == Life!Spec

\* A sale does not stay open: it is settled or closed, whatever buyer and channel do.
OpenSaleCloses == \A o \in Orders : order[o].status = "pending" ~> order[o].status # "pending"
=============================================================================

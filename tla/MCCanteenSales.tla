--------------------------- MODULE MCCanteenSales ---------------------------
\* The instance of CanteenSales for TLC: two orders share a wallet over two months.
EXTENDS CanteenSales

CONSTANTS o1, o2

TwoOrders == {o1, o2}
OnePrice == {2}
TwoOfTheFirst == o1 :> 2 @@ o2 :> 1
=============================================================================

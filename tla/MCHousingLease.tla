---------------------------- MODULE MCHousingLease ----------------------------
(* An instance of HousingLease: two calls at a time, and two keys, both for  *)
(* voiding the lease or one for its approval.                                *)
EXTENDS HousingLease, TLC

CONSTANTS c1, c2, k1, k2, b1

TwoCalls == {c1, c2}
TwoKeys == {k1, k2}
OneBody == {b1}
VoidAtLeastOnce ==
  {u \in [TwoKeys -> {"approve", "void"}] : \E k \in TwoKeys : u[k] = "void"}
Symmetric == Permutations(TwoCalls) \cup Permutations(TwoKeys)
=============================================================================

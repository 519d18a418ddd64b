------------------------- MODULE MCApprovalDecision -------------------------
\* An instance of ApprovalDecision for TLC: a request with two stages, of two
\* checkers and one.  bob may check both, and with two client keys may try to; the
\* maker holds the checker's permission too.
EXTENDS ApprovalDecision, TLC

CONSTANTS maker, ann, bob, cai, k1, k2

MCRequired == <<2, 1>>
MCEligible == <<{maker, ann, bob}, {bob, cai}>>
TwoKeys == {k1, k2}
KeySymmetry == Permutations(TwoKeys)
=============================================================================

------------------------ MODULE MCApprovalExecution ------------------------
\* Instances of ApprovalExecution for TLC: two processes that race for one
\* request and one or two incident commands.
EXTENDS ApprovalExecution

CONSTANTS w1, w2, k1, k2

TwoWorkers == {w1, w2}
OneKey == {k1}
TwoKeys == {k1, k2}
=============================================================================

-------------------------- MODULE MCPropertyOutbox --------------------------
\* Instances of PropertyOutbox for TLC: two publishers race for the first two
\* events of an ordering key.
EXTENDS PropertyOutbox

CONSTANTS p1, p2

OnePublisher == {p1}
TwoPublishers == {p1, p2}
=============================================================================

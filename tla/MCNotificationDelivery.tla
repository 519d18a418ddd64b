----------------------- MODULE MCNotificationDelivery -----------------------
\* Instances of NotificationDelivery for TLC: two workers race for a delivery.
EXTENDS NotificationDelivery

CONSTANTS w1, w2

TwoWorkers == {w1, w2}
=============================================================================

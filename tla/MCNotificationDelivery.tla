----------------------- MODULE MCNotificationDelivery -----------------------
(* NotificationDelivery for TLC: an SMS and an e-mail, or two SMSs. *)
EXTENDS NotificationDelivery

CONSTANTS n1, n2, w1, w2, c1, c2

OnePart == [r \in Rows |-> 1]

FirstOnly == [r \in Rows |-> IF r = n1 THEN 1 ELSE 0]
Never == [r \in Rows |-> 0]
=============================================================================

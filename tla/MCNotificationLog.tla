------------------------- MODULE MCNotificationLog -------------------------
(* NotificationLog with two broadcasts and a send to one user. *)
EXTENDS NotificationLog, TLC

CONSTANTS b1, b2, u1
=============================================================================

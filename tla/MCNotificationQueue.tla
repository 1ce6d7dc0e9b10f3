------------------------ MODULE MCNotificationQueue ------------------------
(***************************************************************************)
(* NotificationQueue with a few notices for one recipient.                 *)
(***************************************************************************)
EXTENDS NotificationQueue

CONSTANTS Recipient, Keyed

OneRecipient == [n \in Notices |-> Recipient]
KeyOfKeyed   == [n \in Notices |-> IF n \in Keyed THEN "key" ELSE "none"]

=============================================================================

------------------------ MODULE MCNotificationManager ------------------------
(* Two threads, two or three listeners, and broadcasts made from callbacks. *)
EXTENDS NotificationManager
=============================================================================

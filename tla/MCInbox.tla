------------------------------- MODULE MCInbox -------------------------------
(* Inbox for TLC: the users as model values. *)
EXTENDS Inbox

CONSTANTS me, you
=============================================================================

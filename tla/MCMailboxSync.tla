--------------------------- MODULE MCMailboxSync ---------------------------
(* MailboxSync on small mailboxes; the bounds of each run are in its .cfg. *)
EXTENDS MailboxSync
====

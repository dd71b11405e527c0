------------------------------ MODULE MCMirror ------------------------------
(***************************************************************************)
(* The mirror of an account, for TLC: a mailbox's rows and cursor, and the *)
(* bytes behind them.  A behaviour is about one of the two; the other      *)
(* rests in an initial state.                                              *)
(***************************************************************************)
EXTENDS MailboxSync, BlobStore, TLC

VARIABLE part

MirrorSymmetry == Permutations(Blobs) \cup Permutations(Writers) \cup Permutations(Accounts)

mirrorVars == <<part, vars, blobVars>>

MCInit ==
  \/ part = "sync"  /\ Init /\ BlobInit
  \/ part = "blobs" /\ BlobInit /\ row = NullRow /\ Init

MCNext ==
  \/ part = "sync"  /\ Next /\ UNCHANGED <<part, blobVars>>
  \/ part = "blobs" /\ BlobNext /\ UNCHANGED <<part, vars>>

MCSpec == MCInit /\ [][MCNext]_mirrorVars
=============================================================================

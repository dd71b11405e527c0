----------------------------- MODULE Submission -----------------------------
(***************************************************************************)
(* What the outbox promises of a submission, with no executor, no rows and *)
(* no mailboxes: internal/submit/doc.go's rules as one small machine.      *)
(*                                                                         *)
(* A submission is pending until it is sent, canceled or failed, and each  *)
(* of those is final.  The mail server takes the message of a pending      *)
(* submission only; it takes it again only if there is doubt, which is to  *)
(* say that it took it and Moov does not know.  What is canceled or failed *)
(* was never taken, or is in doubt.                                        *)
(***************************************************************************)
EXTENDS Naturals

CONSTANTS Submissions,
          MayAdopt      \* TRUE: a message found in Sent counts as sent

VARIABLES fate,   \* what became of each submission
          taken,  \* how often the mail server took its message: 0, 1, 2 (or more)
          doubt   \* submissions whose message was taken and not known to be

submissionVars == <<fate, taken, doubt>>

SubInit ==
    /\ fate = [i \in Submissions |-> "draft"]
    /\ taken = [i \in Submissions |-> 0]
    /\ doubt = {}

Settle(i, f) ==
    /\ fate[i] = "pending"
    /\ fate' = [fate EXCEPT ![i] = f]
    /\ UNCHANGED <<taken, doubt>>

Create(i) ==
    /\ fate[i] = "draft"
    /\ fate' = [fate EXCEPT ![i] = "pending"]
    /\ UNCHANGED <<taken, doubt>>

Untaken(i) == taken[i] = 0 \/ i \in doubt

Take(i) ==
    /\ fate[i] = "pending" /\ Untaken(i)
    /\ taken' = [taken EXCEPT ![i] = IF @ < 2 THEN @ + 1 ELSE @]
    /\ UNCHANGED <<fate, doubt>>

LoseTrack(i) ==
    /\ fate[i] = "pending" /\ taken[i] > 0
    /\ doubt' = doubt \cup {i}
    /\ UNCHANGED <<fate, taken>>

Confirm(i) == (taken[i] > 0 \/ MayAdopt) /\ Settle(i, "sent")

GiveUp(i) == Untaken(i) /\ \E f \in {"canceled", "failed"} : Settle(i, f)

SubNext ==
    \E i \in Submissions : Create(i) \/ Take(i) \/ LoseTrack(i) \/ Confirm(i) \/ GiveUp(i)

SubSpec == SubInit /\ [][SubNext]_submissionVars
=============================================================================

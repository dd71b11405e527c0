------------------------------- MODULE MCMail -------------------------------
(***************************************************************************)
(* The user's mail for TLC: writes to messages, operations on folders, the *)
(* threading of what arrives, and the debouncer that decides when changes  *)
(* become a sync pass.  They share no state in the code beyond the rows    *)
(* each of them models, so a behaviour is about one of them and leaves the *)
(* others in one of their initial states.                                  *)
(***************************************************************************)
EXTENDS MailWrites, Folders, Threads, Dispatch

VARIABLE part

mailVars == <<part, writeVars, folderVars, threadVars, dispatchVars>>

MCMaxWrites == [flags |-> 2, moves |-> 2, pair |-> 1]

MCPatches ==
  {[kind |-> "replace", set |-> {"k1"}, add |-> {}, rem |-> {}],
   [kind |-> "delta", set |-> {}, add |-> {"k2"}, rem |-> {"k1"}]}

(* A root and a reply to it, an unrelated message whose subject looks like *)
(* a reply, a bridge that names both roots, and a message without          *)
(* Message-ID; the dates make the message that arrives later the older one *)
(* in some orders.                                                         *)
Message(mid, refs, subject, date) ==
  [mid |-> mid, refs |-> refs, subject |-> subject, date |-> date]

MCContents == {
  Message("a", <<>>, <<"w">>, 2),
  Message("b", <<"a">>, <<"Re:", "w">>, 3),
  Message("c", <<>>, <<"Re:", "w">>, 1),
  Message("d", <<"a", "c">>, <<"s">>, 4),
  Message("none", <<"b">>, <<"s">>, 2)}

(* A behaviour is about one part and the actors of the others stand alike, *)
(* so exchanging all pairs at once says as much as exchanging each.        *)
Actors == Handlers \cup Editors \cup Workers

MailSymmetry ==
  {p \in Permutations(Actors) :
     /\ \A S \in {Handlers, Editors, Workers} : {p[x] : x \in S} = S
     /\ (\A x \in Actors : p[x] = x) \/ (\A x \in Actors : p[x] # x)}

WritesRest  == kind = "moves" /\ WritesInit /\ rows[1].mod = 0
ThreadsRest == topic = "threads" /\ ThreadsInit

MCInit ==
  \/ part = "writes"   /\ WritesInit /\ FoldersInit /\ ThreadsRest /\ DispatchInit
  \/ part = "folders"  /\ WritesRest /\ FoldersInit /\ ThreadsRest /\ DispatchInit
  \/ part = "threads"  /\ WritesRest /\ FoldersInit /\ ThreadsInit /\ DispatchInit
  \/ part = "dispatch" /\ WritesRest /\ FoldersInit /\ ThreadsRest /\ DispatchInit

MCNext ==
  \/ part = "writes"   /\ WritesNext   /\ UNCHANGED <<part, folderVars, threadVars, dispatchVars>>
  \/ part = "folders"  /\ FoldersNext  /\ UNCHANGED <<part, writeVars, threadVars, dispatchVars>>
  \/ part = "threads"  /\ ThreadsNext  /\ UNCHANGED <<part, writeVars, folderVars, dispatchVars>>
  \/ part = "dispatch" /\ DispatchNext /\ UNCHANGED <<part, writeVars, folderVars, threadVars>>

MCSpec == MCInit /\ [][MCNext]_mailVars

\* What no step may do: a write touches mail it does not name or replaces
\* flags it did not know, deletes mail that never was in Trash, a folder goes
\* with letters in it that were seen, a rename changes the parent, a message
\* moves to a younger thread or does so unreported, a pass runs into a burst.
MailSteps ==
  /\ OnlyNamedMail /\ ReplacesWhatWasKnown /\ TrashFirst
  /\ DeletedOnlyUnseen /\ EmptiedIntoTrash /\ RenameKeepsParent
  /\ NeverYounger /\ MergesReported
  /\ PassesAfterBurst
=============================================================================

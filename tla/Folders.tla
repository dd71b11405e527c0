------------------------------ MODULE Folders ------------------------------
(***************************************************************************)
(* The folder tree of one account: Mailbox/set (create, rename or move,    *)
(* destroy) of the JMAP layer over the write executor's folder operations, *)
(* the IMAP server's folders and the store's mailbox rows.                 *)
(*                                                                         *)
(* A request decides on a tree it read from the store, checks again in the *)
(* executor, changes the server, and then reflects the change.  Nothing    *)
(* holds the tree meanwhile: another request, another mail client, a       *)
(* delivery or a discovery of the sync engine may come in between.         *)
(*                                                                         *)
(* A path is the sequence of its names.  The rows have no parent column:   *)
(* parentID and pathOf derive the hierarchy that clients see from the      *)
(* paths and back.  The moves of messages are single steps here; the steps *)
(* of one are in MailWrites.                                               *)
(***************************************************************************)
EXTENDS Naturals, FiniteSets, Sequences

CONSTANTS Leaves,      \* names a client gives to folders
          Letters,        \* messages (naturals: later ones are listed first)
          Editors,    \* requests that run at the same time
          BoxIds,         \* ids the store may give to mailbox rows
          MaxDepth,    \* bound: length of a path
          DefaultSearchWindow,      \* messages one listing returns
          maxEmptyMailboxPasses,
          MaxRequests, \* bound: Mailbox/set operations
          MaxOthers    \* bound: lost connections and steps of others together

VARIABLES srv, at, mb, row, req, asked, happened, drift, had

folderVars == <<srv, at, mb, row, req, asked, happened, drift, had>>

Inbox == <<"INBOX">>
Trash == <<"Trash">>
NoPath == <<>>

Names == Leaves \cup {"INBOX", "Trash"}

Paths == {Inbox, Trash} \cup UNION {[1..n -> Leaves] : n \in 1..MaxDepth}

NoBox == [path |-> NoPath, role |-> ""]

NoMail == [mb |-> 0, dead |-> FALSE]

Waiting == [pc |-> "idle", id |-> 0, path |-> NoPath, from |-> NoPath,
            parent |-> TRUE, rm |-> FALSE, todo |-> {}, done |-> {}, passes |-> 0,
            late |-> {}]

-----------------------------------------------------------------------------
(* The tree as clients see it.                                             *)

Boxes == {id \in BoxIds : mb[id].path # NoPath}

IsUnder(p, q) == Len(p) > Len(q) /\ SubSeq(p, 1, Len(q)) = q

(* leafName and parentID: the last name, and the row that has the path     *)
(* before it; 0, the top level, if there is none.                          *)
leafName(id) == mb[id].path[Len(mb[id].path)]

parentIDNone(id) == 0

parentID(id) ==
  LET p == mb[id].path
      up == {i \in Boxes : Len(p) > 1 /\ mb[i].path = SubSeq(p, 1, Len(p) - 1)} IN
  IF up = {} THEN 0 ELSE CHOOSE i \in up : TRUE

(* pathOf: the names of the row and of its ancestors, joined again.  With  *)
(* every ancestor present it is the row's own path; above a gap it stops.  *)
pathOfTwoLevels(id) ==
  LET p == mb[id].path IN IF Len(p) <= 2 THEN p ELSE SubSeq(p, Len(p) - 1, Len(p))

pathOf(id) ==
  LET p == mb[id].path
      whole == {n \in 1..Len(p) : \A k \in n..(Len(p) - 1) :
                  \E i \in Boxes : mb[i].path = SubSeq(p, 1, k)}
      from == CHOOSE n \in whole : \A k \in whole : n <= k IN
  SubSeq(p, from, Len(p))

childPath(parent, leaf) ==
  IF parent = 0 THEN <<leaf>> ELSE Append(pathOf(parent), leaf)

findByPath(p) == {id \in Boxes : pathOf(id) = p}

descendants(id) == {i \in Boxes : IsUnder(pathOf(i), pathOf(id))
                                  /\ IsUnder(mb[i].path, mb[id].path)}

isDescendantOf(candidate, ancestor) ==
  candidate = ancestor \/ candidate \in descendants(ancestor)

isProtectedRole(role) == role # ""

TotalEmails(id) == Cardinality({m \in Letters : row[m].mb = id /\ ~row[m].dead})

TrashId == CHOOSE id \in Boxes : mb[id].role = "trash"

-----------------------------------------------------------------------------
FoldersInit ==
  /\ srv = {Inbox, Trash, <<"a">>, <<"a", "b">>}
  /\ mb = [id \in BoxIds |-> CASE id = 1 -> [path |-> Inbox, role |-> "inbox"]
                            [] id = 2 -> [path |-> Trash, role |-> "trash"]
                            [] id = 3 -> [path |-> <<"a">>, role |-> ""]
                            [] id = 4 -> [path |-> <<"a", "b">>, role |-> ""]
                            [] OTHER  -> NoBox]
  /\ at = [m \in Letters |-> <<"a", "b">>]
  /\ row = [m \in Letters |-> [mb |-> 4, dead |-> FALSE]]
  /\ req = [h \in Editors |-> Waiting]
  /\ asked = 0 /\ happened = 0
  /\ drift = FALSE
  /\ had = Letters

Done(h) == req' = [req EXCEPT ![h] = Waiting]

Overlapping(h) == \E g \in Editors \ {h} : req[g].pc # "idle"

Begin(h) ==
  /\ req[h].pc = "idle" /\ asked < MaxRequests
  /\ asked' = asked + 1
  /\ drift' = (drift \/ Overlapping(h))
  /\ UNCHANGED <<srv, at, mb, row, happened, had>>

-----------------------------------------------------------------------------
(* The JMAP layer: what is decided on the tree read from the store.        *)

(* applyMailboxCreate: under an existing parent, a path nobody has.        *)
validateLeafName(leaf) == leaf \in Leaves

interpretMailboxCreate(spec) ==
  /\ validateLeafName(spec.name)
  /\ spec.parent \in Boxes \cup {0}
  /\ spec.role = ""

applyMailboxCreate(h) ==
  /\ Begin(h)
  /\ \E spec \in [name : Leaves \cup {"a/b"}, parent : {0} \cup BoxIds, role : {"", "junk"}] :
       LET p == childPath(spec.parent, spec.name) IN
       /\ interpretMailboxCreate(spec)
       /\ findByPath(p) = {}
       /\ p \in Paths
       /\ req' = [req EXCEPT ![h] = [Waiting EXCEPT !.pc = "create", !.path = p]]

(* applyMailboxUpdate: a new name, a new parent or both; not for the role  *)
(* folders, not under itself, not onto another one.  parent records        *)
(* whether the folder keeps the parent it has.                             *)
notItsOwnAncestor(parent, id) == parent # 0 => ~isDescendantOf(parent, id)

pathFree(p, id) == findByPath(p) \subseteq {id}

interpretMailboxPatch(patch) ==
  /\ patch.sawName => validateLeafName(patch.name)
  /\ patch.sawParent => patch.parent \in Boxes \cup {0}

MailboxPatches ==
  [sawName : {TRUE}, name : Leaves \cup {"a/b"}, sawParent : {FALSE}, parent : {0}] \cup
  [sawName : {FALSE}, name : {""}, sawParent : {TRUE}, parent : {0} \cup BoxIds] \cup
  [sawName : {TRUE}, name : Leaves, sawParent : {TRUE}, parent : {0} \cup BoxIds]

applyMailboxUpdate(h) ==
  /\ Begin(h)
  /\ \E id \in Boxes, patch \in MailboxPatches :
       LET leaf == IF patch.sawName THEN patch.name ELSE leafName(id)
           sawParent == patch.sawParent
           up == IF sawParent THEN patch.parent ELSE parentID(id)
           p == childPath(up, leaf) IN
       /\ interpretMailboxPatch(patch)
       /\ ~isProtectedRole(mb[id].role)
       /\ sawParent => notItsOwnAncestor(up, id)
       /\ p # pathOf(id)
       /\ pathFree(p, id)
       /\ p \in Paths
       /\ \A i \in descendants(id) :
            Len(p) + Len(mb[i].path) - Len(mb[id].path) <= MaxDepth
       /\ req' = [req EXCEPT ![h] =
            [Waiting EXCEPT !.pc = "rename", !.id = id, !.path = p,
                            !.parent = sawParent]]

(* applyMailboxDestroy: no role folder, no children; mail in it is refused *)
(* or, if the client says so, moved to Trash first.                        *)
hasNoChild(id) == descendants(id) = {}

mayDestroyAlways(id, rm) == TRUE

mayDestroyWithMail(id, rm) == TotalEmails(id) > 0 => rm

(* Messages that the cache does not show in the folder.                    *)
Unseen(id) == {m \in Letters : row[m].mb # id \/ row[m].dead}

applyMailboxDestroy(h) ==
  /\ Begin(h)
  /\ \E id \in Boxes, rm \in BOOLEAN :
       /\ ~isProtectedRole(mb[id].role)
       /\ hasNoChild(id)
       /\ mayDestroyWithMail(id, rm)
       /\ req' = [req EXCEPT ![h] =
            [Waiting EXCEPT !.pc = IF TotalEmails(id) > 0 /\ rm THEN "list" ELSE "destroy",
                            !.id = id, !.rm = rm, !.late = Unseen(id)]]

(* emptyMailboxToTrash: one window of the folder's cached messages per     *)
(* pass, until a pass shows nothing that was not tried before.             *)
Window(id) ==
  LET live == Letters \ Unseen(id) IN
  {m \in live : Cardinality({n \in live : n > m}) < DefaultSearchWindow}

emptyMailboxToTrash(h) ==
  /\ req[h].pc = "list"
  /\ LET fresh == Window(req[h].id) \ req[h].done IN
     IF req[h].passes = maxEmptyMailboxPasses THEN Done(h)
     ELSE req' = [req EXCEPT ![h] =
            [@ EXCEPT !.pc = IF fresh = {} THEN "destroy" ELSE "empty",
                      !.todo = fresh, !.passes = @ + 1,
                      !.late = IF fresh = {} THEN (@ \cap req[h].done) \cup
                                                  (Letters \ Window(req[h].id))
                               ELSE @]]
  /\ UNCHANGED <<srv, at, mb, row, asked, happened, drift, had>>

(* Each message is destroyed as Email/set would: moved to Trash, or, if it *)
(* is in Trash by now, expunged.  One whose folder cannot be selected ends *)
(* the request.                                                            *)
emptyOneExpunged(h) ==
  /\ req[h].pc = "empty"
  /\ \E m \in req[h].todo :
       LET rest == req[h].todo \ {m} IN
       /\ req' = [req EXCEPT ![h] =
            [@ EXCEPT !.todo = rest, !.done = @ \cup {m},
                      !.pc = IF rest = {} THEN "list" ELSE "empty"]]
       /\ at' = [at EXCEPT ![m] = NoPath]
       /\ row' = [row EXCEPT ![m].dead = TRUE]
  /\ UNCHANGED <<srv, mb, asked, happened, drift, had>>

emptyOne(h) ==
  /\ req[h].pc = "empty"
  /\ \E m \in req[h].todo :
       LET rest == req[h].todo \ {m}
           inTrash == row[m].mb = TrashId
           there == row[m].mb # 0 /\ at[m] = mb[row[m].mb].path IN
       /\ req' = [req EXCEPT ![h] =
            IF row[m].mb # 0 /\ mb[row[m].mb].path \notin srv THEN Waiting
            ELSE [@ EXCEPT !.todo = rest, !.done = @ \cup {m},
                           !.late = IF there THEN @ \ {m} ELSE @,
                           !.pc = IF rest = {} THEN "list" ELSE "empty"]]
       /\ IF row[m].dead \/ row[m].mb = 0 \/ mb[row[m].mb].path \notin srv
          THEN UNCHANGED <<at, row>>
          ELSE /\ at' = IF ~there THEN at
                        ELSE [at EXCEPT ![m] = IF inTrash THEN NoPath ELSE Trash]
               /\ row' = [row EXCEPT ![m] =
                    IF there /\ ~inTrash THEN [mb |-> TrashId, dead |-> FALSE]
                    ELSE [@ EXCEPT !.dead = TRUE]]
  /\ UNCHANGED <<srv, mb, asked, happened, drift, had>>

-----------------------------------------------------------------------------
(* The executor: check on the store, change the server, reflect.           *)

NameTaken(p) == \E id \in Boxes : mb[id].path = p

owned(id) == id \in Boxes

ListChildMailboxes(id) == {i \in Boxes : IsUnder(mb[i].path, mb[id].path)}

CheckCreate(h) ==
  /\ req[h].pc = "create"
  /\ IF NameTaken(req[h].path) THEN Done(h)
     ELSE req' = [req EXCEPT ![h].pc = "CREATE"]
  /\ UNCHANGED <<srv, at, mb, row, asked, happened, drift, had>>

CheckRename(h) ==
  /\ req[h].pc = "rename"
  /\ LET id == req[h].id IN
     IF ~owned(id) \/ mb[id].path \in {req[h].path, Inbox} \/ NameTaken(req[h].path)
     THEN Done(h)
     ELSE req' = [req EXCEPT ![h] = [@ EXCEPT !.pc = "RENAME", !.from = mb[id].path]]
  /\ UNCHANGED <<srv, at, mb, row, asked, happened, drift, had>>

CheckDestroy(h) ==
  /\ req[h].pc = "destroy"
  /\ LET id == req[h].id IN
     IF ~owned(id) \/ mb[id].path = Inbox \/ ListChildMailboxes(id) # {}
     THEN Done(h)
     ELSE req' = [req EXCEPT ![h] = [@ EXCEPT !.pc = "DELETE", !.from = mb[id].path]]
  /\ UNCHANGED <<srv, at, mb, row, asked, happened, drift, had>>

(* What happens to messages while a folder is being destroyed, the request *)
(* that destroys it has not seen.                                          *)
Late(ms, rs) == [h \in Editors |-> IF rs[h].pc = "idle" THEN rs[h]
                                    ELSE [rs[h] EXCEPT !.late = @ \cup ms]]

(* The server: CREATE fails on a name it has; RENAME carries the children  *)
(* and the mail of the folder and fails on a missing source or an existing *)
(* target; DELETE takes the mail of the folder with it.                    *)
Renamed(p, from, to) ==
  IF p = from THEN to
  ELSE IF IsUnder(p, from) THEN to \o SubSeq(p, Len(from) + 1, Len(p)) ELSE p

CreateMailbox(h) ==
  /\ req[h].pc = "CREATE"
  /\ IF req[h].path \in srv THEN Done(h) /\ UNCHANGED srv
     ELSE /\ srv' = srv \cup {req[h].path}
          /\ req' = [req EXCEPT ![h].pc = "upsert"]
  /\ UNCHANGED <<at, mb, row, asked, happened, drift, had>>

RenameMailbox(h) ==
  /\ req[h].pc = "RENAME"
  /\ LET from == req[h].from
         to == req[h].path IN
     IF \/ from \notin srv \/ IsUnder(to, from)
        \/ \E p \in srv : p = to \/ IsUnder(p, to)
     THEN Done(h) /\ UNCHANGED <<srv, at>>
     ELSE /\ srv' = {Renamed(p, from, to) : p \in srv}
          /\ at' = [m \in Letters |-> Renamed(at[m], from, to)]
          /\ req' = Late({m \in Letters : at'[m] # at[m]}, [req EXCEPT ![h].pc = "reflect"])
  /\ UNCHANGED <<mb, row, asked, happened, drift, had>>

DeleteMailbox(h) ==
  /\ req[h].pc = "DELETE"
  /\ srv' = srv \ {req[h].from}
  /\ at' = [m \in Letters |-> IF at[m] = req[h].from THEN NoPath ELSE at[m]]
  /\ req' = [req EXCEPT ![h].pc = "tombstone"]
  /\ UNCHANGED <<mb, row, asked, happened, drift, had>>

(* UpsertMailbox: a row of that name keeps its id.                         *)
UpsertAlways(boxes, p) ==
  LET free == {id \in BoxIds : boxes[id].path = NoPath}
      new == CHOOSE id \in free : \A i \in free : id <= i IN
  [boxes EXCEPT ![new] = [path |-> p, role |-> ""]]

Upsert(boxes, p) ==
  IF \E id \in BoxIds : boxes[id].path = p THEN boxes
  ELSE LET free == {id \in BoxIds : boxes[id].path = NoPath}
           new == CHOOSE id \in free : \A i \in free : id <= i IN
       [boxes EXCEPT ![new] = [path |-> p, role |-> ""]]

UpsertMailbox(h) ==
  /\ req[h].pc = "upsert"
  /\ mb' = Upsert(mb, req[h].path)
  /\ Done(h)
  /\ UNCHANGED <<srv, at, row, asked, happened, drift, had>>

(* RenameMailbox of the store: in place, with the rows under the name the  *)
(* row has by now; two rows of one name make the transaction fail.         *)
RenamedRowsAlone(id, to) == [mb EXCEPT ![id].path = to]

RenamedRows(id, to) ==
  [i \in BoxIds |-> [mb[i] EXCEPT !.path = IF i = id THEN to
                                        ELSE Renamed(@, mb[id].path, to)]]

Distinct(boxes) ==
  LET used == {i \in BoxIds : boxes[i].path # NoPath} IN
  Cardinality({boxes[i].path : i \in used}) = Cardinality(used)

ReflectRenameAnew(h) ==
  /\ req[h].pc = "reflect"
  /\ mb' = IF req[h].id \in Boxes /\ Distinct(RenamedRows(req[h].id, req[h].path))
           THEN [Upsert([RenamedRows(req[h].id, req[h].path) EXCEPT ![req[h].id] = mb[1]],
                        req[h].path) EXCEPT ![req[h].id] = NoBox]
           ELSE mb
  /\ Done(h)
  /\ UNCHANGED <<srv, at, row, asked, happened, drift, had>>

ReflectRename(h) ==
  /\ req[h].pc = "reflect"
  /\ mb' = IF req[h].id \in Boxes /\ Distinct(RenamedRows(req[h].id, req[h].path))
           THEN RenamedRows(req[h].id, req[h].path) ELSE mb
  /\ Done(h)
  /\ UNCHANGED <<srv, at, row, asked, happened, drift, had>>

TombstoneMailbox(h) ==
  /\ req[h].pc = "tombstone"
  /\ row' = [m \in Letters |-> IF row[m].mb = req[h].id THEN [row[m] EXCEPT !.dead = TRUE]
                            ELSE row[m]]
  /\ req' = [req EXCEPT ![h].pc = "remove"]
  /\ UNCHANGED <<srv, at, mb, asked, happened, drift, had>>

(* DeleteMailbox of the store: message_state cascades with the row.        *)
RemoveRow(h) ==
  /\ req[h].pc = "remove"
  /\ mb' = [mb EXCEPT ![req[h].id] = NoBox]
  /\ row' = [m \in Letters |-> IF row[m].mb = req[h].id THEN NoMail ELSE row[m]]
  /\ Done(h)
  /\ UNCHANGED <<srv, at, asked, happened, drift, had>>

-----------------------------------------------------------------------------
(* The others.                                                             *)

Happens == happened < MaxOthers /\ happened' = happened + 1

(* The connection or the database is lost under a request: the step it was *)
(* at did not happen, and the client gets an error.                        *)
Fail(h) ==
  /\ Happens
  /\ req[h].pc \in {"CREATE", "RENAME", "DELETE", "upsert", "reflect", "tombstone",
                    "remove", "empty"}
  /\ Done(h)
  /\ drift' = TRUE
  /\ UNCHANGED <<srv, at, mb, row, asked, had>>

(* withConn: the connection is lost after the server did what it was asked *)
(* to.  The second attempt meets the result of the first: the name is      *)
(* taken, the folder is missing; for DELETE that is as good as done.       *)
LostAnswer(h) ==
  /\ Happens
  /\ req[h].pc \in {"CREATE", "RENAME"}
  /\ LET from == req[h].from
         to == req[h].path IN
     /\ \A p \in srv : p # to /\ ~IsUnder(p, to)
     /\ IF req[h].pc = "CREATE" THEN srv' = srv \cup {to} /\ UNCHANGED at
        ELSE /\ from \in srv /\ ~IsUnder(to, from)
             /\ srv' = {Renamed(p, from, to) : p \in srv}
             /\ at' = [m \in Letters |-> Renamed(at[m], from, to)]
  /\ req' = Late({m \in Letters : at'[m] # at[m]}, [req EXCEPT ![h] = Waiting])
  /\ drift' = TRUE
  /\ UNCHANGED <<mb, row, asked, had>>

OtherMovesMail(m) ==
  /\ Happens
  /\ at[m] # NoPath
  /\ \E p \in srv \ {at[m]} : at' = [at EXCEPT ![m] = p]
  /\ req' = Late({m}, req)
  /\ UNCHANGED <<srv, mb, row, asked, drift, had>>

(* Another client creates or renames a folder.  (A folder created again    *)
(* under the name of a row is another incarnation; see MailboxSync.)       *)
OtherFolder ==
  /\ Happens
  /\ drift' = TRUE
  /\ \/ \E p \in {q \in Paths : Len(q) <= 2 /\ ~NameTaken(q)} \ srv :
          srv' = srv \cup {p} /\ UNCHANGED <<at, req>>
     \/ \E p \in srv \ {Inbox, Trash}, q \in {r \in Paths : Len(r) = 1 /\ ~NameTaken(r)} \ srv :
          /\ \A x \in srv : ~IsUnder(x, q)
          /\ srv' = {Renamed(x, p, q) : x \in srv}
          /\ at' = [m \in Letters |-> Renamed(at[m], p, q)]
          /\ req' = Late({m \in Letters : at'[m] # at[m]}, req)
  /\ UNCHANGED <<mb, row, asked, had>>

(* Sync passes move a message's row to where the server has it; a folder   *)
(* that cannot be selected has no pass.                                    *)
SyncMail(m) ==
  /\ LET here == {id \in Boxes : mb[id].path = at[m]} IN
     IF here = {}
     THEN /\ row[m].mb # 0 /\ ~row[m].dead /\ mb[row[m].mb].path \in srv
          /\ row' = [row EXCEPT ![m].dead = TRUE]
     ELSE /\ row[m] # [mb |-> CHOOSE id \in here : TRUE, dead |-> FALSE]
          /\ row' = [row EXCEPT ![m] = [mb |-> CHOOSE id \in here : TRUE, dead |-> FALSE]]
  /\ had' = had \cup {m}
  /\ UNCHANGED <<srv, at, mb, req, asked, happened, drift>>

(* discover: a row for every folder of the listing that has none; one that *)
(* the server no longer lists keeps its row.                               *)
discover ==
  /\ Happens
  /\ \E p \in srv : ~NameTaken(p) /\ mb' = Upsert(mb, p)
  /\ drift' = (drift \/ \E h \in Editors : req[h].pc # "idle")
  /\ UNCHANGED <<srv, at, row, req, asked, had>>

-----------------------------------------------------------------------------
FoldersNext ==
  \/ \E h \in Editors :
       \/ applyMailboxCreate(h) \/ applyMailboxUpdate(h) \/ applyMailboxDestroy(h)
       \/ emptyMailboxToTrash(h) \/ emptyOne(h)
       \/ CheckCreate(h) \/ CheckRename(h) \/ CheckDestroy(h)
       \/ CreateMailbox(h) \/ RenameMailbox(h) \/ DeleteMailbox(h)
       \/ UpsertMailbox(h) \/ ReflectRename(h) \/ TombstoneMailbox(h) \/ RemoveRow(h)
       \/ Fail(h) \/ LostAnswer(h)
  \/ \E m \in Letters : OtherMovesMail(m) \/ SyncMail(m)
  \/ OtherFolder \/ discover

FoldersSpec == FoldersInit /\ [][FoldersNext]_folderVars

-----------------------------------------------------------------------------
(* Paths, rows and letters hold values of their kinds.                     *)
FoldersTypeOK ==
  /\ srv \subseteq Seq(Names) \ {NoPath}
  /\ \A m \in Letters : at[m] \in srv \cup {NoPath} /\ row[m].mb \in BoxIds \cup {0}
  /\ \A id \in BoxIds : mb[id].path \in Seq(Names)
  /\ Distinct(mb)

Quiet == (\A h \in Editors : req[h].pc = "idle") /\ ~drift

(* Requests one after the other keep the two trees together: the rows name *)
(* exactly the server's folders, children of renamed ones included.        *)
TreesAgree == Quiet => {mb[id].path : id \in Boxes} = srv

(* Requests one after the other leave no folder whose parent has no row:   *)
(* what clients see (parentID, pathOf) is the whole path of every folder.  *)
NoGaps == Quiet => \A id \in Boxes : pathOf(id) = mb[id].path

(* A rename keeps the id: whatever requests did to the tree, a message no  *)
(* one else moved is shown in the folder that the server has it in.        *)
MailKeepsItsFolder ==
  Quiet => \A m \in Letters :
    row[m].mb # 0 /\ ~row[m].dead /\ happened = 0 => at[m] = mb[row[m].mb].path

(* A message is deleted with its folder only if the last look at the cache *)
(* did not show it there (it was not in it, or was behind a window full of *)
(* messages tried before), or it came in or came back after that.  No      *)
(* check stands between such a message and DELETE: "the executor's own     *)
(* emptiness check below is the authority" (mailbox_set.go:845-846), but   *)
(* ApplyMailboxDestroy checks the name and the children only.              *)
DeletedOnlyUnseen ==
  [][\A h \in Editors : req[h].pc = "DELETE" /\ req'[h].pc = "tombstone" =>
       \A m \in Letters : at[m] = req[h].from => m \in req[h].late]_folderVars

(* Emptying a folder expunges nothing that was not in Trash by then.       *)
EmptiedIntoTrash ==
  [][\A h \in Editors : req[h].todo # req'[h].todo /\ req[h].pc = "empty" =>
       \A m \in Letters : at'[m] # at[m] => at'[m] = Trash \/ at[m] = Trash]_folderVars

(* A folder keeps its parent if the client asked for a new name only, and  *)
(* is not below a gap.                                                     *)
RenameKeepsParent ==
  [][\A h \in Editors : req[h].pc = "idle" /\ ~req'[h].parent /\ ~drift =>
       LET p == mb[req'[h].id].path IN
       SubSeq(req'[h].path, 1, Len(req'[h].path) - 1) = SubSeq(p, 1, Len(p) - 1)]_folderVars

\* Mailbox/set keeps the two trees the same: at rest the rows name exactly the
\* server's folders, a path follows from the parents, and a message that no
\* other client moved is where its row says (write_mailbox.go).
FoldersSafe == FoldersTypeOK /\ TreesAgree /\ NoGaps /\ MailKeepsItsFolder
=============================================================================

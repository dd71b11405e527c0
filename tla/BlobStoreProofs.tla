-------------------------- MODULE BlobStoreProofs --------------------------
(***************************************************************************)
(* Proofs for BlobStore, for any set of blobs, accounts and writers.  The  *)
(* inductive invariant adds to the checked ones that the reference rows    *)
(* are finitely many, that a young blob stays young while its writer works *)
(* (GraceProtects alone does not survive the collector, which looks at the *)
(* age), and that a blob whose file is about to be removed has a row again *)
(* only if it raced.                                                       *)
(***************************************************************************)
EXTENDS BlobStore, FiniteSetTheorems, TLAPS

USE BlobAssumption DEF Ids, Ages

\* A writer that is not idle holds a task.
LEMMA Busy ==
    ASSUME BlobTypeOK, NEW w \in Writers, task[w].at # "idle"
    PROVE  task[w] \in Job
BY DEF BlobTypeOK, NoJob

\* The reference rows of a blob are finitely many, so their number is a
\* natural number, and fewer rows never count more.
LEMMA RefsFinite ==
    ASSUME NEW S, IsFiniteSet(S), NEW h, NEW T, T \subseteq S
    PROVE  /\ IsFiniteSet(T)
           /\ Cardinality(RefsOf(T, h)) \in Nat
           /\ Cardinality(RefsOf(T, h)) <= Cardinality(RefsOf(S, h))
<1>1. RefsOf(S, h) \subseteq S /\ RefsOf(T, h) \subseteq RefsOf(S, h)
  BY DEF RefsOf
<1>2. IsFiniteSet(RefsOf(S, h)) /\ IsFiniteSet(T)
  BY <1>1, FS_Subset
<1>3. QED
  BY <1>1, <1>2, FS_Subset, FS_CardinalityType

\* syncRefcount leaves a well-typed row whose count is exact for its blob and
\* whose age does not grow.
LEMMA Recount ==
    ASSUME BlobTypeOK, NEW h \in blobRow, NEW S, IsFiniteSet(S), syncRefcount(h, S)
    PROVE  /\ count' \in [Blobs -> Nat] /\ age' \in [Blobs -> Ages]
           /\ blobRow' = blobRow /\ zero' \subseteq {g \in blobRow : count'[g] = 0}
           /\ count'[h] = Cardinality(RefsOf(S, h))
           /\ \A g \in Blobs : g # h => count'[g] = count[g]
           /\ \A g \in Blobs : (g \in zero => age[g] = 0)
                                  => (g \in zero' => age'[g] = 0)
<1>1. Cardinality(RefsOf(S, h)) \in Nat
  BY RefsFinite
<1>2. RefsOf(S, h) = {} => Cardinality(RefsOf(S, h)) = 0
  BY FS_EmptySet
<1>3. h \in Blobs
  BY DEF BlobTypeOK
<1>4. age' \in [Blobs -> Ages]
  BY <1>3 DEF syncRefcount, BlobTypeOK
<1>5. \A g \in Blobs : (g \in zero => age[g] = 0) => (g \in zero' => age'[g] = 0)
  BY <1>3 DEF syncRefcount, BlobTypeOK
<1>6. QED
  BY <1>1, <1>2, <1>3, <1>4, <1>5 DEF syncRefcount, BlobTypeOK

\* The initial state: nothing is stored and nobody works.
LEMMA InitInv == BlobInit => BlobInv
<1>1. SUFFICES ASSUME BlobInit PROVE BlobInv
  OBVIOUS
<1>2. BlobTypeOK
  BY <1>1 DEF BlobInit, BlobTypeOK
<1>3. Counted
  BY <1>1, FS_EmptySet DEF BlobInit, Counted, CountCovers
<1>4. QED
  BY <1>1, <1>2, <1>3 DEF BlobInit, BlobInv, NothingDangles, YoungKept, Window, NoJob

\* Every step keeps the types.
LEMMA TypeStep == BlobInv /\ [BlobNext]_blobVars => BlobTypeOK'
<1> SUFFICES ASSUME BlobInv, [BlobNext]_blobVars PROVE BlobTypeOK'
  OBVIOUS
<1> USE DEF BlobInv, BlobTypeOK, Counted, blobRowVars, Finish
<1>1. ASSUME NEW w \in Writers, Put(w) PROVE BlobTypeOK'
  BY <1>1 DEF Put, Job, Owners, Pin, MessageRef, NoJob
<1>2. ASSUME NEW w \in Writers, recordBlob(w) PROVE BlobTypeOK'
  <2>1. task[w] \in Job
    BY <1>2, Busy DEF recordBlob
  <2>2. task' \in [Writers -> Job \cup {NoJob}]
    BY <1>2, <2>1 DEF recordBlob, Job
  <2> QED
    BY <1>2, <2>1, <2>2 DEF recordBlob, Job
<1>3. ASSUME NEW w \in Writers, InsertMessage(w) PROVE BlobTypeOK'
  <2>1. task[w] \in Job
    BY <1>3, Busy DEF InsertMessage
  <2>2. task' \in [Writers -> Job \cup {NoJob}]
    <3>1. CASE task' = [task EXCEPT ![w] = NoJob]
      BY <3>1
    <3>2. CASE /\ nextId \in Ids
               /\ task' = [task EXCEPT ![w].at = "ref",
                                    ![w].owner = MessageRef(task[w].owner.acct, nextId)]
      <4> DEFINE o == MessageRef(task[w].owner.acct, nextId)
      <4>1. o \in Owners
        BY <2>1, <3>2 DEF Job, Owners, MessageRef
      <4>2. task' = [task EXCEPT ![w].at = "ref", ![w].owner = o]
        BY <3>2
      <4> HIDE DEF o
      <4> QED
        BY <2>1, <4>1, <4>2 DEF Job
    <3> QED
      BY <1>3, <3>1, <3>2 DEF InsertMessage
  <2>3. msgs' \subseteq Message
    BY <1>3, <2>1 DEF InsertMessage, Job, Owners, Message
  <2> QED
    BY <1>3, <2>1, <2>2, <2>3 DEF InsertMessage
<1>4. ASSUME NEW w \in Writers, AddRef(w) PROVE BlobTypeOK'
  <2>1. task[w] \in Job
    BY <1>4, Busy DEF AddRef
  <2>2. CASE refs' = refs /\ UNCHANGED <<blobRowVars, pinAge, upAge>>
    BY <1>4, <2>2 DEF AddRef
  <2>3. CASE /\ task[w].blob \in blobRow
             /\ refs' = refs \cup {<<task[w].blob, task[w].owner>>}
             /\ syncRefcount(task[w].blob, refs')
    <3>1. IsFiniteSet(refs')
      BY <2>3, FS_AddElement
    <3>2. refs' \subseteq Blobs \X Owners
      BY <2>1, <2>3 DEF Job
    <3>3. pinAge' \in [Blobs \X Accounts -> Ages] /\ upAge' \in [Blobs \X Accounts -> Ages]
      <4>1. <<task[w].blob, task[w].owner.acct>> \in Blobs \X Accounts
        BY <2>1 DEF Job, Owners
      <4>2. ASSUME NEW f \in [Blobs \X Accounts -> Ages]
            PROVE  [f EXCEPT ![<<task[w].blob, task[w].owner.acct>>] = 0] \in [Blobs \X Accounts -> Ages]
        BY <4>1
      <4>3. pinAge' \in {pinAge, [pinAge EXCEPT ![<<task[w].blob, task[w].owner.acct>>] = 0]}
        BY <1>4, <2>3 DEF AddRef
      <4>4. upAge' \in {upAge, [upAge EXCEPT ![<<task[w].blob, task[w].owner.acct>>] = 0]}
        BY <1>4, <2>3 DEF AddRef
      <4> QED
        BY <4>2, <4>3, <4>4
    <3>4. /\ count' \in [Blobs -> Nat] /\ age' \in [Blobs -> Ages]
          /\ blobRow' = blobRow /\ zero' \subseteq {g \in blobRow : count'[g] = 0}
      BY <2>3, <3>1, Recount
    <3> QED
      BY <1>4, <2>3, <3>2, <3>3, <3>4 DEF AddRef
  <2> QED
    BY <1>4, <2>2, <2>3 DEF AddRef
<1>5. ASSUME NEW w \in Writers, WriterFails(w) PROVE BlobTypeOK'
  BY <1>5 DEF WriterFails
<1>6. ASSUME NEW a \in Accounts, DropMailbox(a) PROVE BlobTypeOK'
  BY <1>6 DEF DropMailbox
<1>7. ASSUME NEW a \in Accounts, DeleteAccount(a) PROVE BlobTypeOK'
  BY <1>7 DEF DeleteAccount
<1>8. ASSUME NEW h \in Blobs, expirePinsOf(h) PROVE BlobTypeOK'
  <2>1. IsFiniteSet(refs')
    BY <1>8, RefsFinite DEF expirePinsOf
  <2>2. /\ count' \in [Blobs -> Nat] /\ age' \in [Blobs -> Ages]
        /\ blobRow' = blobRow /\ zero' \subseteq {g \in blobRow : count'[g] = 0}
    BY <1>8, <2>1, Recount DEF expirePinsOf
  <2> QED
    BY <1>8, <2>2 DEF expirePinsOf
<1>9. CASE GC
  BY <1>9 DEF GC, Collectable
<1>10. CASE collectOne
  BY <1>10 DEF collectOne, NextCandidate, Oldest
<1>11. CASE RemoveFile
  BY <1>11 DEF RemoveFile, NextCandidate
<1>12. CASE GCFails
  BY <1>12 DEF GCFails, NextCandidate
<1>13. CASE Tick
  BY <1>13 DEF Tick
<1>14. CASE UNCHANGED blobVars
  BY <1>14 DEF blobVars
<1> QED
  BY <1>1, <1>2, <1>3, <1>4, <1>5, <1>6, <1>7, <1>8, <1>9, <1>10, <1>11, <1>12, <1>13, <1>14 DEF BlobNext

\* Every step keeps the counts above the reference rows.
LEMMA CountedStep == BlobInv /\ [BlobNext]_blobVars => Counted'
<1> SUFFICES ASSUME BlobInv, [BlobNext]_blobVars PROVE Counted'
  OBVIOUS
<1> USE DEF BlobInv, BlobTypeOK, Counted, CountCovers, blobRowVars
<1>1. ASSUME NEW w \in Writers, Put(w) PROVE Counted'
  BY <1>1 DEF Put
<1>2. ASSUME NEW w \in Writers, recordBlob(w) PROVE Counted'
  <2>1. \A g \in Blobs \ blobRow : Cardinality(RefsOf(refs, g)) = 0
    <3>1. \A g \in Blobs \ blobRow : RefsOf(refs, g) = {}
      BY DEF NothingDangles, RefsOf
    <3> QED
      BY <3>1, FS_EmptySet
  <2>2. task[w] \in Job
    BY <1>2, Busy DEF recordBlob
  <2> QED
    BY <1>2, <2>1, <2>2 DEF recordBlob, Job
<1>3. ASSUME NEW w \in Writers, InsertMessage(w) PROVE Counted'
  BY <1>3 DEF InsertMessage
<1>4. ASSUME NEW w \in Writers, AddRef(w) PROVE Counted'
  <2>1. CASE refs' = refs /\ UNCHANGED blobRowVars
    BY <2>1
  <2>2. CASE /\ task[w].blob \in blobRow
             /\ refs' = refs \cup {<<task[w].blob, task[w].owner>>}
             /\ syncRefcount(task[w].blob, refs')
    <3>1. IsFiniteSet(refs')
      BY <2>2, FS_AddElement
    <3>2. \A g : g # task[w].blob => RefsOf(refs', g) = RefsOf(refs, g)
      BY <2>2 DEF RefsOf
    <3>3. /\ blobRow' = blobRow
          /\ count'[task[w].blob] = Cardinality(RefsOf(refs', task[w].blob))
          /\ \A g \in Blobs : g # task[w].blob => count'[g] = count[g]
      BY <2>2, <3>1, Recount
    <3>4. Cardinality(RefsOf(refs', task[w].blob)) \in Nat
      BY <3>1, RefsFinite
    <3> QED
      BY <3>1, <3>2, <3>3, <3>4
  <2> QED
    BY <1>4, <2>1, <2>2 DEF AddRef
<1>5. ASSUME NEW w \in Writers, WriterFails(w) PROVE Counted'
  BY <1>5 DEF WriterFails
<1>6. ASSUME NEW a \in Accounts, DropMailbox(a) PROVE Counted'
  BY <1>6 DEF DropMailbox
<1>7. ASSUME NEW a \in Accounts, DeleteAccount(a) PROVE Counted'
  <2>1. refs' \subseteq refs
    BY <1>7 DEF DeleteAccount
  <2>2. \A g \in blobRow : /\ Cardinality(RefsOf(refs', g)) \in Nat
                       /\ Cardinality(RefsOf(refs, g)) \in Nat
                       /\ Cardinality(RefsOf(refs', g)) <= Cardinality(RefsOf(refs, g))
    BY <2>1, RefsFinite
  <2>3. IsFiniteSet(refs')
    BY <2>1, FS_Subset
  <2> QED
    BY <1>7, <2>2, <2>3 DEF DeleteAccount
<1>8. ASSUME NEW h \in Blobs, expirePinsOf(h) PROVE Counted'
  <2>1. IsFiniteSet(refs')
    BY <1>8, RefsFinite DEF expirePinsOf
  <2>2. \A g : g # h => RefsOf(refs', g) = RefsOf(refs, g)
    BY <1>8 DEF expirePinsOf, ExpiredPins, RefsOf
  <2>3. /\ blobRow' = blobRow /\ count'[h] = Cardinality(RefsOf(refs', h))
        /\ \A g \in Blobs : g # h => count'[g] = count[g]
    BY <1>8, <2>1, Recount DEF expirePinsOf
  <2>4. Cardinality(RefsOf(refs', h)) \in Nat
    BY <2>1, RefsFinite
  <2> QED
    BY <2>1, <2>2, <2>3, <2>4
<1>9. CASE GC
  BY <1>9 DEF GC
<1>10. CASE collectOne
  BY <1>10 DEF collectOne
<1>11. CASE RemoveFile
  BY <1>11 DEF RemoveFile
<1>12. CASE GCFails
  BY <1>12 DEF GCFails
<1>13. CASE Tick
  BY <1>13 DEF Tick
<1>14. CASE UNCHANGED blobVars
  BY <1>14 DEF blobVars
<1> QED
  BY <1>1, <1>2, <1>3, <1>4, <1>5, <1>6, <1>7, <1>8, <1>9, <1>10, <1>11, <1>12, <1>13, <1>14 DEF BlobNext

\* Every step keeps the rows that references and messages name.
LEMMA DanglesStep == BlobInv /\ [BlobNext]_blobVars => NothingDangles'
<1> SUFFICES ASSUME BlobInv, [BlobNext]_blobVars PROVE NothingDangles'
  OBVIOUS
<1> USE DEF BlobInv, BlobTypeOK, NothingDangles, blobRowVars
<1>1. ASSUME NEW w \in Writers, Put(w) PROVE NothingDangles'
  BY <1>1 DEF Put
<1>2. ASSUME NEW w \in Writers, recordBlob(w) PROVE NothingDangles'
  BY <1>2 DEF recordBlob
<1>3. ASSUME NEW w \in Writers, InsertMessage(w) PROVE NothingDangles'
  BY <1>3 DEF InsertMessage
<1>4. ASSUME NEW w \in Writers, AddRef(w) PROVE NothingDangles'
  BY <1>4 DEF AddRef, syncRefcount
<1>5. ASSUME NEW w \in Writers, WriterFails(w) PROVE NothingDangles'
  BY <1>5 DEF WriterFails
<1>6. ASSUME NEW a \in Accounts, DropMailbox(a) PROVE NothingDangles'
  BY <1>6 DEF DropMailbox
<1>7. ASSUME NEW a \in Accounts, DeleteAccount(a) PROVE NothingDangles'
  BY <1>7 DEF DeleteAccount
<1>8. ASSUME NEW h \in Blobs, expirePinsOf(h) PROVE NothingDangles'
  BY <1>8 DEF expirePinsOf, syncRefcount
<1>9. CASE GC
  BY <1>9 DEF GC
<1>10. CASE collectOne
  BY <1>10 DEF collectOne, Restricted, RefsOf
<1>11. CASE RemoveFile
  BY <1>11 DEF RemoveFile
<1>12. CASE GCFails
  BY <1>12 DEF GCFails
<1>13. CASE Tick
  BY <1>13 DEF Tick
<1>14. CASE UNCHANGED blobVars
  BY <1>14 DEF blobVars
<1> QED
  BY <1>1, <1>2, <1>3, <1>4, <1>5, <1>6, <1>7, <1>8, <1>9, <1>10, <1>11, <1>12, <1>13, <1>14 DEF BlobNext

\* Every step keeps a young blob young until its writer is done.
LEMMA YoungStep == BlobInv /\ [BlobNext]_blobVars => YoungKept'
<1> SUFFICES ASSUME BlobInv, [BlobNext]_blobVars PROVE YoungKept'
  OBVIOUS
<1> USE DEF BlobInv, BlobTypeOK, YoungKept, blobRowVars, Finish, NoJob
<1>1. ASSUME NEW w \in Writers, Put(w) PROVE YoungKept'
  BY <1>1 DEF Put
<1>2. ASSUME NEW w \in Writers, recordBlob(w) PROVE YoungKept'
  <2>1. task[w] \in Job
    BY <1>2, Busy DEF recordBlob
  <2> QED
    BY <1>2, <2>1 DEF recordBlob, Job
<1>3. ASSUME NEW w \in Writers, InsertMessage(w) PROVE YoungKept'
  <2>1. task[w] \in Job
    BY <1>3, Busy DEF InsertMessage
  <2> QED
    BY <1>3, <2>1 DEF InsertMessage, Job
<1>4. ASSUME NEW w \in Writers, AddRef(w) PROVE YoungKept'
  <2>1. CASE UNCHANGED blobRowVars
    BY <1>4, <2>1 DEF AddRef
  <2>2. CASE /\ task[w].blob \in blobRow
             /\ refs' = refs \cup {<<task[w].blob, task[w].owner>>}
             /\ syncRefcount(task[w].blob, refs')
    <3>1. IsFiniteSet(refs')
      BY <2>2, FS_AddElement DEF Counted
    <3>2. /\ blobRow' = blobRow
          /\ \A g \in Blobs : (g \in zero => age[g] = 0)
                                  => (g \in zero' => age'[g] = 0)
      BY <2>2, <3>1, Recount
    <3> QED
      BY <1>4, <3>2 DEF AddRef
  <2> QED
    BY <1>4, <2>1, <2>2 DEF AddRef
<1>5. ASSUME NEW w \in Writers, WriterFails(w) PROVE YoungKept'
  BY <1>5 DEF WriterFails
<1>6. ASSUME NEW a \in Accounts, DropMailbox(a) PROVE YoungKept'
  BY <1>6 DEF DropMailbox
<1>7. ASSUME NEW a \in Accounts, DeleteAccount(a) PROVE YoungKept'
  BY <1>7 DEF DeleteAccount
<1>8. ASSUME NEW h \in Blobs, expirePinsOf(h) PROVE YoungKept'
  <2>1. IsFiniteSet(refs')
    BY <1>8, RefsFinite DEF expirePinsOf, Counted
  <2>2. /\ blobRow' = blobRow
        /\ \A g \in Blobs : (g \in zero => age[g] = 0)
                                => (g \in zero' => age'[g] = 0)
    BY <1>8, <2>1, Recount DEF expirePinsOf
  <2> QED
    BY <1>8, <2>2 DEF expirePinsOf
<1>9. CASE GC
  BY <1>9 DEF GC
<1>10. CASE collectOne
  BY <1>10 DEF collectOne, Collectable, NextCandidate, Oldest
<1>11. CASE RemoveFile
  BY <1>11 DEF RemoveFile
<1>12. CASE GCFails
  BY <1>12 DEF GCFails
<1>13. CASE Tick
  BY <1>13 DEF Tick, Quiet
<1>14. CASE UNCHANGED blobVars
  BY <1>14 DEF blobVars
<1> QED
  BY <1>1, <1>2, <1>3, <1>4, <1>5, <1>6, <1>7, <1>8, <1>9, <1>10, <1>11, <1>12, <1>13, <1>14 DEF BlobNext

\* Every step keeps the bytes of a row that did not race.
LEMMA WindowStep == BlobInv /\ [BlobNext]_blobVars => Window'
<1> SUFFICES ASSUME BlobInv, [BlobNext]_blobVars PROVE Window'
  OBVIOUS
<1> USE DEF BlobInv, BlobTypeOK, Window, blobRowVars
<1>1. ASSUME NEW w \in Writers, Put(w) PROVE Window'
  BY <1>1 DEF Put
<1>2. ASSUME NEW w \in Writers, recordBlob(w) PROVE Window'
  BY <1>2 DEF recordBlob
<1>3. ASSUME NEW w \in Writers, InsertMessage(w) PROVE Window'
  BY <1>3 DEF InsertMessage
<1>4. ASSUME NEW w \in Writers, AddRef(w) PROVE Window'
  BY <1>4 DEF AddRef, syncRefcount
<1>5. ASSUME NEW w \in Writers, WriterFails(w) PROVE Window'
  BY <1>5 DEF WriterFails
<1>6. ASSUME NEW a \in Accounts, DropMailbox(a) PROVE Window'
  BY <1>6 DEF DropMailbox
<1>7. ASSUME NEW a \in Accounts, DeleteAccount(a) PROVE Window'
  BY <1>7 DEF DeleteAccount
<1>8. ASSUME NEW h \in Blobs, expirePinsOf(h) PROVE Window'
  BY <1>8 DEF expirePinsOf, syncRefcount
<1>9. CASE GC
  BY <1>9 DEF GC
<1>10. CASE collectOne
  BY <1>10 DEF collectOne, NextCandidate
<1>11. CASE RemoveFile
  BY <1>11 DEF RemoveFile, NextCandidate
<1>12. CASE GCFails
  BY <1>12 DEF GCFails, NextCandidate
<1>13. CASE Tick
  BY <1>13 DEF Tick
<1>14. CASE UNCHANGED blobVars
  BY <1>14 DEF blobVars
<1> QED
  BY <1>1, <1>2, <1>3, <1>4, <1>5, <1>6, <1>7, <1>8, <1>9, <1>10, <1>11, <1>12, <1>13, <1>14 DEF BlobNext

\* The invariant is inductive and holds in every state of the blob store.
THEOREM Inductive == BlobSpec => []BlobInv
<1>1. BlobInv /\ [BlobNext]_blobVars => BlobInv'
  BY TypeStep, CountedStep, DanglesStep, YoungStep, WindowStep DEF BlobInv
<1> QED
  BY InitInv, <1>1, PTL DEF BlobSpec

\* Type correctness, and zero_ref_since is NULL while the count is not zero.
THEOREM TypeCorrect == BlobSpec => []BlobTypeOK
<1>1. BlobInv => BlobTypeOK
  BY DEF BlobInv
<1> QED
  BY <1>1, Inductive, PTL

\* The refcount is never below the number of reference rows, so GC never takes
\* a referenced blob for garbage.
THEOREM CountNeverTooLow == BlobSpec => []CountCovers
<1>1. BlobInv => CountCovers
  BY DEF BlobInv, Counted
<1> QED
  BY <1>1, Inductive, PTL

\* Every reference and every message names a blob that has a row.
THEOREM ReferencesResolve == BlobSpec => []NothingDangles
<1>1. BlobInv => NothingDangles
  BY DEF BlobInv
<1> QED
  BY <1>1, Inductive, PTL

\* A grace period longer than the longest write protects every blob that was
\* young when it was recorded.
THEOREM GraceIsEnough == BlobSpec => []GraceProtects
<1>1. BlobInv => GraceProtects
  BY DEF BlobInv, YoungKept, GraceProtects
<1> QED
  BY <1>1, Inductive, PTL

\* A crash anywhere leaves no row without bytes: only a Put that raced the
\* removal of the file of the same content can.
THEOREM BytesOutliveRow == BlobSpec => []BytesLostOnlyInWindow
<1>1. BlobInv => BytesLostOnlyInWindow
  BY DEF BlobInv, Window, BytesLostOnlyInWindow
<1> QED
  BY <1>1, Inductive, PTL
=============================================================================

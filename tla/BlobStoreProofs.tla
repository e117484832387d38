---------------------------- MODULE BlobStoreProofs ----------------------------
(***************************************************************************)
(* Theorems about BlobStore, for any hashes, documents, uploads and grace. *)
(***************************************************************************)
EXTENDS BlobStore, TLAPS

\* Between SELECT and DELETE the candidates keep their rows and their age.
CandidatesStay ==
    sweep.step = "selected" =>
        \A h \in sweep.todo : h \in rows /\ createdAt[h] < sweep.at - Grace

\* A row, or an upload that is about to insert one, has its file, unless the
\* sweep struck it.
InUseHasFile == InUse \subseteq files \cup struck

IInv == TypeOK /\ RefsHaveRows /\ CandidatesStay /\ InUseHasFile

LEMMA InvInit == Init => IInv
  BY HashAssumption, GraceAssumption
  DEF Init, IInv, TypeOK, RefsHaveRows, CandidatesStay, InUseHasFile, InUse,
      NoPut, Put, NoSweep, Sweep

LEMMA TypeStep ==
  ASSUME TypeOK, [Next]_vars
  PROVE  TypeOK'
  <1> USE GraceAssumption DEF TypeOK, database, history
  <1>1. ASSUME NEW u \in Uploads, PutWrite(u)
        PROVE  TypeOK'
    BY <1>1 DEF PutWrite, Put
  <1>2. ASSUME NEW u \in Uploads, PutRename(u)
        PROVE  TypeOK'
    <2>1. put[u] \in [step: {"written", "renamed"}, hash: Hashes, at: Nat]
      BY <1>2 DEF PutRename, Put, NoPut
    <2>2. [put[u] EXCEPT !.step = "renamed"] \in Put
      BY <2>1 DEF Put
    <2> QED
      BY <1>2, <2>1, <2>2 DEF PutRename
  <1>3. ASSUME NEW u \in Uploads, PutInsert(u)
        PROVE  TypeOK'
    <2>1. put[u] \in [step: {"written", "renamed"}, hash: Hashes, at: Nat]
      BY <1>3 DEF PutInsert, Put, NoPut
    <2> QED
      BY <1>3, <2>1 DEF PutInsert, CreatedAt, Put
  <1>4. ASSUME NEW u \in Uploads, PutFail(u)
        PROVE  TypeOK'
    BY <1>4 DEF PutFail, Put, NoPut
  <1>5. ASSUME NEW d \in Docs, Push(d)
        PROVE  TypeOK'
    BY <1>5 DEF Push
  <1>6. CASE BeginSweep
    BY <1>6 DEF BeginSweep, Sweep
  <1>7. CASE SelectCandidates
    BY <1>7 DEF SelectCandidates, Sweep, NoSweep, Candidates
  <1>8. CASE DeleteRows
    BY <1>8 DEF DeleteRows, Sweep
  <1>9. CASE SweepFails
    BY <1>9 DEF SweepFails, Sweep, NoSweep
  <1>10. ASSUME NEW h \in Hashes, RemoveFile(h)
         PROVE  TypeOK'
    BY <1>10 DEF RemoveFile, Sweep, NoSweep
  <1>11. CASE Restart
    BY <1>11 DEF Restart, Put, NoPut, Sweep, NoSweep
  <1>12. CASE SetClock
    BY <1>12 DEF SetClock
  <1>13. CASE UNCHANGED vars
    BY <1>13 DEF vars
  <1> QED
    BY <1>1, <1>2, <1>3, <1>4, <1>5, <1>6, <1>7, <1>8, <1>9, <1>10, <1>11,
       <1>12, <1>13 DEF Next

\* An upload's rename and insert, and the sweep's removal, against the files.
LEMMA FileStep ==
  ASSUME TypeOK, InUseHasFile, [Next]_vars
  PROVE  InUseHasFile'
  <1> USE DEF InUseHasFile, InUse, database, history, NoPut
  <1>0. put \in [Uploads -> Put]
    BY DEF TypeOK
  <1>1. ASSUME NEW u \in Uploads, PutWrite(u)
        PROVE  InUseHasFile'
    BY <1>0, <1>1 DEF PutWrite
  <1>2. ASSUME NEW u \in Uploads, PutRename(u)
        PROVE  InUseHasFile'
    <2>1. \A v \in Uploads : put'[v] = IF v = u THEN [put[u] EXCEPT !.step = "renamed"]
                                       ELSE put[v]
      BY <1>0, <1>2 DEF PutRename
    <2>2. [put[u] EXCEPT !.step = "renamed"].hash = put[u].hash
      BY <1>0 DEF Put
    <2>3. InUse' \subseteq InUse \cup {put[u].hash}
      BY <1>2, <2>1, <2>2 DEF PutRename
    <2>4. files' = files \cup {put[u].hash} /\ struck' = struck \ {put[u].hash}
      BY <1>2 DEF PutRename
    <2> QED
      BY <2>3, <2>4
  <1>3. ASSUME NEW u \in Uploads, PutInsert(u)
        PROVE  InUseHasFile'
    BY <1>0, <1>3 DEF PutInsert
  <1>4. ASSUME NEW u \in Uploads, PutFail(u)
        PROVE  InUseHasFile'
    BY <1>0, <1>4 DEF PutFail
  <1>5. CASE DeleteRows
    BY <1>5 DEF DeleteRows
  <1>6. ASSUME NEW h \in Hashes, RemoveFile(h)
        PROVE  InUseHasFile'
    BY <1>6 DEF RemoveFile
  <1>7. CASE Restart
    BY <1>7 DEF Restart
  <1>8. CASE UNCHANGED <<files, rows, put, struck>>
    BY <1>8
  <1> QED
    BY <1>1, <1>2, <1>3, <1>4, <1>5, <1>6, <1>7, <1>8
    DEF Next, vars, Push, BeginSweep, SelectCandidates, SweepFails, SetClock

LEMMA CandidatesStep ==
  ASSUME TypeOK, CandidatesStay, [Next]_vars
  PROVE  CandidatesStay'
  <1> USE DEF CandidatesStay, database, history, NoSweep
  <1>1. CASE UNCHANGED <<rows, createdAt, sweep>>
    BY <1>1
  <1>2. ASSUME NEW u \in Uploads, PutInsert(u)
        PROVE  CandidatesStay'
    BY <1>2 DEF PutInsert, CreatedAt
  <1>3. CASE SelectCandidates
    BY <1>3 DEF SelectCandidates, Candidates
  <1>4. CASE BeginSweep \/ DeleteRows \/ SweepFails \/ Restart
    <2>1. sweep'.step # "selected"
      BY <1>4 DEF BeginSweep, DeleteRows, SweepFails, Restart, TypeOK, Sweep
    <2> QED
      BY <2>1
  <1>5. ASSUME NEW h \in Hashes, RemoveFile(h)
        PROVE  CandidatesStay'
    <2>1. sweep'.step # "selected"
      BY <1>5 DEF RemoveFile, TypeOK, Sweep
    <2> QED
      BY <2>1
  <1> QED
    BY <1>1, <1>2, <1>3, <1>4, <1>5
    DEF Next, vars, PutWrite, PutRename, PutFail, Push, SetClock

LEMMA RefsStep ==
  ASSUME TypeOK, RefsHaveRows, [Next]_vars
  PROVE  RefsHaveRows'
  <1> USE DEF RefsHaveRows, database, history
  <1>1. ASSUME NEW d \in Docs, Push(d)
        PROVE  RefsHaveRows'
    BY <1>1 DEF Push, HasBlobs, TypeOK
  <1>2. CASE DeleteRows
    BY <1>2 DEF DeleteRows, DeleteAllowed, Referenced
  <1>3. CASE refs' = refs /\ rows \subseteq rows'
    BY <1>3
  <1> QED
    BY <1>1, <1>2, <1>3
    DEF Next, vars, PutWrite, PutRename, PutInsert, PutFail, BeginSweep,
        SelectCandidates, SweepFails, RemoveFile, Restart, SetClock

LEMMA Inductive == Spec => []IInv
  <1>1. IInv /\ [Next]_vars => IInv'
    BY TypeStep, FileStep, CandidatesStep, RefsStep DEF IInv
  <1> QED
    BY InvInit, <1>1, PTL DEF Spec

\* Type correctness.
THEOREM TypeCorrect == Spec => []TypeOK
  BY Inductive, PTL DEF IInv

\* A document's blobs keep their rows: the missing check of a push and the
\* foreign key together close the gap between the sweep's two statements.
THEOREM ReferencesHold == Spec => []RefsHaveRows
  BY Inductive, PTL DEF IInv

\* Every row without a file was struck by a sweep racing an upload.
THEOREM OnlyStruckPhantoms == Spec => []PhantomsAreStruck
  <1>1. IInv => PhantomsAreStruck
    BY DEF IInv, InUseHasFile, InUse, PhantomsAreStruck
  <1> QED
    BY Inductive, <1>1, PTL

\* No row younger than the grace period is deleted.
THEOREM YoungRowsAreKept == Spec => YoungRowsStay
  <1>1. IInv /\ [Next]_vars =>
           [\A h \in rows \ rows' : createdAt[h] < sweep.at - Grace]_vars
    <2> SUFFICES ASSUME IInv, [Next]_vars, NEW h \in rows \ rows'
                 PROVE  createdAt[h] < sweep.at - Grace
      OBVIOUS
    <2>1. DeleteRows
      BY DEF Next, vars, PutWrite, PutRename, PutInsert, PutFail, Push, BeginSweep,
             SelectCandidates, SweepFails, RemoveFile, Restart, SetClock,
             database, history
    <2> QED
      BY <2>1 DEF DeleteRows, IInv, CandidatesStay
  <1> QED
    BY Inductive, <1>1, PTL DEF Spec, YoungRowsStay
=============================================================================

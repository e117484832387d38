-------------------------- MODULE SyncRecordsProofs --------------------------
(***************************************************************************)
(* Theorems about SyncRecords, for every value of its constants.           *)
(***************************************************************************)
EXTENDS SyncRecords, FiniteSetTheorems, TLAPS

\* The two databases a step can see have handed out at least no seq, and a
\* sweep that is not under way has collected nothing.
Counting ==
    /\ db.next >= 1 /\ tx.work.next >= 1
    /\ ~sweep.open => sweep = NoSweep

\* NoRow is a row, and the empty database is a database.
LEMMA NoRowType == NoRow \in Row /\ NoRows \in [Keys -> Row] /\ EmptyDb \in Db
  BY HashAssumption DEF NoRow, NoRows, Row, EmptyDb, Db

\* The version a push record carries makes a row.
LEMMA AsRowType ==
  ASSUME NEW r \in PushRecord, NEW seq \in Nat
  PROVE  /\ AsRow(r, seq) \in Row /\ AsRow(r, seq).seq = seq
         /\ AsRow(r, seq).hash = r.hash /\ AsRow(r, seq).at = r.at
         /\ AsRow(r, seq).deleted = r.deleted
  BY DEF AsRow, Row, PushRecord

\* What answering for a version does to a database: the history alone moves.
LEMMA AckedType ==
  ASSUME NEW d \in Db, NEW r \in PushRecord
  PROVE  /\ Acked(d, r) \in Db
         /\ Acked(d, r).rows = d.rows /\ Acked(d, r).next = d.next
         /\ Acked(d, r).serverAt = d.serverAt
  <1>1. r.key \in Keys
    BY DEF PushRecord
  <1>2. AsRow(r, 1) \in Row
    BY AsRowType
  <1> QED
    BY <1>1, <1>2 DEF Acked, Db

\* What storing a record does to a database.
LEMMA StoreType ==
  ASSUME NEW d \in Db, NEW r \in PushRecord, NEW stamp \in Nat
  PROVE  /\ Store(d, r, stamp) \in Db
         /\ Store(d, r, stamp).rows = [d.rows EXCEPT ![r.key] = AsRow(r, d.next)]
         /\ Store(d, r, stamp).next = d.next + 1
         /\ Store(d, r, stamp).newest = d.newest
  <1>1. r.key \in Keys
    BY DEF PushRecord
  <1>2. AsRow(r, d.next) \in Row
    BY AsRowType DEF Db
  <1> QED
    BY <1>1, <1>2 DEF Store, Db

\* Deleting rows leaves a database.
LEMMA WithoutType ==
  ASSUME NEW d \in Db, NEW K \in SUBSET Keys
  PROVE  Without(d, K) \in Db /\ Without(d, K).next = d.next
  BY NoRowType DEF Without, Db

\* A merged view is a view.
LEMMA MergedType ==
  ASSUME NEW old \in [Keys -> Row], NEW r \in Reply
  PROVE  Merged(old, r) \in [Keys -> Row]
  BY NoRowType DEF Merged, Reply

\* An answer is a reply.
LEMMA AnswerType ==
  ASSUME db \in Db, NEW kind \in ReplyKinds, NEW since \in Nat, NEW n \in Nat,
         NEW have \in SUBSET Keys
  PROVE  Answer(kind, since, n, have) \in Reply
  BY NoRowType DEF Answer, Reply, Db

LEMMA NoReplyType == NoReply \in Reply
  BY NoRowType DEF NoReply, Reply, ReplyKinds

-----------------------------------------------------------------------------
(* Types.                                                                  *)

TypeInv == TypeOK /\ Counting

LEMMA TypeInit == Init => TypeInv
  <1> SUFFICES ASSUME Init PROVE TypeInv
    OBVIOUS
  <1>1. EmptyDb \in Db /\ EmptyDb.next = 1
    BY NoRowType DEF EmptyDb
  <1>2. db \in Db /\ Counting /\ sweep \in Sweep
    BY <1>1 DEF Init, NoTx, Counting, Sweep, NoSweep
  <1>3. tx \in [open: BOOLEAN, todo: Seq(Pushes), work: Db]
    BY <1>1 DEF Init, NoTx
  <1>4. view \in [Clients -> [Keys -> Row]] /\ reply \in [Clients -> Reply]
    BY NoRowType, NoReplyType DEF Init
  <1> QED
    BY <1>2, <1>3, <1>4, BoundAssumption DEF Init, TypeInv, TypeOK

\* A record of a push in progress is one a device sends.
LEMMA HeadOfTodo ==
  ASSUME TypeOK, tx.open, tx.todo # <<>>
  PROVE  Head(tx.todo) \in Pushes /\ Head(tx.todo) \in PushRecord
         /\ Tail(tx.todo) \in Seq(Pushes)
  BY PushesAssumption DEF TypeOK

LEMMA PushOneType ==
  ASSUME TypeInv, PushOne
  PROVE  TypeInv'
  <1> DEFINE r == Head(tx.todo)
  <1>1. r \in PushRecord /\ Tail(tx.todo) \in Seq(Pushes)
    BY HeadOfTodo DEF TypeInv, PushOne
  <1>2. PICK w :
        /\ tx' = [open |-> TRUE, todo |-> Tail(tx.todo), work |-> w]
        /\ UNCHANGED <<db, sweep, floor, clients, now, cursor, view, reply, orphans>>
    BY DEF PushOne, HoldBack, KeepStored, Apply, SetWork, deviceVars
  <1>3. tx'.work \in Db /\ tx'.work.next >= tx.work.next
    <2>1. tx.work \in Db /\ now \in Nat
      BY DEF TypeInv, TypeOK
    <2>2. CASE HoldBack(r)
      BY <2>1, <2>2 DEF HoldBack, SetWork, Db
    <2>3. CASE KeepStored(r)
      <3>1. tx'.work = Acked(tx.work, r)
        BY <2>3 DEF KeepStored, SetWork
      <3> QED
        BY <2>1, <3>1, <1>1, AckedType DEF Db
    <2>4. CASE Apply(r)
      <3>1. Store(tx.work, r, now) \in Db
            /\ Store(tx.work, r, now).next = tx.work.next + 1
        BY <2>1, <1>1, StoreType
      <3>2. tx'.work = Acked(Store(tx.work, r, now), r)
        BY <2>4 DEF Apply, SetWork
      <3>3. tx'.work \in Db /\ tx'.work.next = tx.work.next + 1
        BY <3>1, <3>2, <1>1, AckedType
      <3> QED
        BY <3>3, <2>1 DEF Db
    <2> QED
      BY <2>2, <2>3, <2>4 DEF PushOne
  <1>4. TypeOK'
    <2>1. w \in Db
      BY <1>2, <1>3
    <2>2. tx' \in [open: BOOLEAN, todo: Seq(Pushes), work: Db]
      BY <1>1, <1>2, <2>1
    <2> QED
      BY <1>2, <2>2 DEF TypeInv, TypeOK
  <1>5. Counting'
    <2>1. db'.next >= 1 /\ (~sweep'.open => sweep' = NoSweep)
      BY <1>2 DEF TypeInv, Counting
    <2>2. tx.work.next \in Nat /\ tx'.work.next \in Nat /\ tx.work.next >= 1
      BY <1>3 DEF TypeInv, TypeOK, Counting, Db
    <2> QED
      BY <1>3, <2>1, <2>2 DEF Counting
  <1> QED
    BY <1>4, <1>5 DEF TypeInv

\* Types are preserved by every step.
LEMMA TypeStep ==
  ASSUME TypeInv, [Next]_vars
  PROVE  TypeInv'
  <1> USE DEF TypeInv, Counting, deviceVars
  <1>1. CASE BeginPush
    <2>1. PICK batch \in Batches :
             tx' = [open |-> TRUE, todo |-> batch, work |-> db]
      BY <1>1 DEF BeginPush
    <2>2. batch \in Seq(Pushes)
      BY BatchesAssumption
    <2> QED
      BY <1>1, <2>1, <2>2 DEF BeginPush, TypeOK
  <1>2. CASE PushOne
    BY <1>2, PushOneType
  <1>3. CASE Commit
    BY <1>3, NoRowType DEF Commit, NoTx, EmptyDb, TypeOK
  <1>4. CASE Rollback
    BY <1>4, NoRowType DEF Rollback, NoTx, EmptyDb, TypeOK
  <1>5. CASE ReapTombstones
    <2>1. PICK f \in Nat :
            /\ db' = Without(db, Reaped(f))
            /\ sweep' = [open |-> TRUE, floor |-> f, gone |-> Reaped(f)]
      <3>1. PICK cf \in 0..MaxSeq, tf \in 0..MaxSeq :
              /\ db' = Without(db, Reaped(NewFloor(cf, tf)))
              /\ sweep' = [open |-> TRUE, floor |-> NewFloor(cf, tf),
                           gone |-> Reaped(NewFloor(cf, tf))]
        BY <1>5 DEF ReapTombstones
      <3>2. NewFloor(cf, tf) \in Nat
        BY BoundAssumption DEF NewFloor, Largest, TypeOK
      <3> QED
        BY <3>1, <3>2
    <2>2. sweep' \in Sweep /\ sweep'.open
      BY <2>1 DEF Sweep, Reaped
    <2>3. db' \in Db /\ db'.next = db.next
      BY <2>1, WithoutType DEF Reaped, TypeOK
    <2> QED
      BY <1>5, <2>2, <2>3 DEF ReapTombstones, TypeOK
  <1>15. CASE RaiseFloor \/ SweepCut
    <2>1. NoSweep \in Sweep
      BY DEF NoSweep, Sweep
    <2> QED
      BY <1>15, <2>1 DEF RaiseFloor, SweepCut, TypeOK, Sweep
  <1>6. CASE SetClock
    BY <1>6 DEF SetClock, TypeOK
  <1>7. ASSUME NEW c \in Clients, Pull(c)
        PROVE  TypeInv'
    <2>1. reply' \in [Clients -> Reply]
      <3>1. CASE Refused(cursor[c])
        <4>1. [NoReply EXCEPT !.kind = "refused"] \in Reply
          BY NoReplyType DEF NoReply, Reply, ReplyKinds
        <4> QED
          BY <4>1, <3>1, <1>7 DEF Pull, TypeOK
      <3>2. CASE ~Refused(cursor[c])
        <4>1. PICK page \in SUBSET Candidates(c, cursor[c]), n \in 0..MaxSeq :
                reply' = [reply EXCEPT ![c] = Answer("page", cursor[c], n, page)]
          BY <3>2, <1>7 DEF Pull
        <4>2. page \in SUBSET Keys /\ n \in Nat /\ cursor[c] \in Nat
          BY ScopeAssumption, BoundAssumption DEF Candidates, TypeOK
        <4>3. Answer("page", cursor[c], n, page) \in Reply
          BY <4>2, AnswerType DEF ReplyKinds, TypeOK
        <4> QED
          BY <4>1, <4>3 DEF TypeOK
      <3> QED
        BY <3>1, <3>2
    <2> QED
      BY <1>7, <2>1 DEF Pull, TypeOK
  <1>8. ASSUME NEW c \in Clients, PullKeys(c)
        PROVE  TypeInv'
    <2>1. PICK wanted \in SUBSET Keys :
             reply' = [reply EXCEPT ![c] = Answer("keys", cursor[c], HeadSeq,
                         {k \in wanted : Exists(db.rows[k])})]
      BY <1>8 DEF PullKeys
    <2>2. HeadSeq \in Nat /\ cursor[c] \in Nat
      BY DEF HeadSeq, TypeOK, Db
    <2>3. Answer("keys", cursor[c], HeadSeq,
                         {k \in wanted : Exists(db.rows[k])}) \in Reply
      BY <2>2, AnswerType DEF ReplyKinds, TypeOK
    <2> QED
      BY <1>8, <2>1, <2>3 DEF PullKeys, TypeOK
  <1>9. ASSUME NEW c \in Clients, RecordClientCursor(c)
        PROVE  TypeInv'
    <2>1. reply[c] \in Reply
      BY DEF TypeOK
    <2>2. [reply[c] EXCEPT !.recorded = TRUE] \in Reply /\ reply[c].cursor \in Nat
      BY <2>1 DEF Reply
    <2> QED
      BY <1>9, <2>2 DEF RecordClientCursor, TypeOK
  <1>10. ASSUME NEW c \in Clients, ReceivePage(c)
         PROVE  TypeInv'
    <2>1. reply[c] \in Reply /\ view[c] \in [Keys -> Row]
      BY DEF TypeOK
    <2>2. Merged(view[c], reply[c]) \in [Keys -> Row] /\ reply[c].cursor \in Nat
      BY <2>1, MergedType DEF Reply
    <2> QED
      BY <1>10, <2>2, NoReplyType DEF ReceivePage, TypeOK
  <1>11. ASSUME NEW c \in Clients, ReceiveKeys(c)
         PROVE  TypeInv'
    <2>1. reply[c] \in Reply /\ view[c] \in [Keys -> Row]
      BY DEF TypeOK
    <2>2. Merged(view[c], reply[c]) \in [Keys -> Row]
      BY <2>1, MergedType
    <2> QED
      BY <1>11, <2>2, NoReplyType DEF ReceiveKeys, TypeOK
  <1>12. ASSUME NEW c \in Clients, ReceiveRefusal(c)
         PROVE  TypeInv'
    BY <1>12, NoReplyType DEF ReceiveRefusal, TypeOK
  <1>13. ASSUME NEW c \in Clients, LoseReply(c)
         PROVE  TypeInv'
    BY <1>13, NoReplyType DEF LoseReply, TypeOK
  <1>14. CASE UNCHANGED vars
    BY <1>14 DEF vars, TypeOK
  <1> QED
    BY <1>1, <1>2, <1>3, <1>4, <1>5, <1>6, <1>7, <1>8, <1>9, <1>10, <1>11,
       <1>12, <1>13, <1>14, <1>15 DEF Next

\* Type correctness: the seqs, floors and cursors the code gets by
\* subtraction are never negative.
THEOREM TypeCorrect == Spec => []TypeOK
  <1>1. TypeInv /\ [Next]_vars => TypeInv'
    BY TypeStep
  <1>2. TypeInv => TypeOK
    BY DEF TypeInv
  <1> QED
    BY TypeInit, <1>1, <1>2, PTL DEF Spec

-----------------------------------------------------------------------------
(* The conflict order.                                                     *)

\* `Newer` is transitive: versions of a key cannot win in a circle.
LEMMA NewerTransitive ==
  ASSUME NEW u, NEW v, NEW w,
         u.at \in Int, v.at \in Int, w.at \in Int,
         u.hash \in Nat, v.hash \in Nat, w.hash \in Nat,
         u.deleted \in BOOLEAN, v.deleted \in BOOLEAN, w.deleted \in BOOLEAN,
         Newer(u, v), Newer(v, w)
  PROVE  Newer(u, w)
  BY DEF Newer

\* A version that wins is newer than the row it replaces.
LEMMA WinsIsNewer ==
  ASSUME NEW v, NEW w, Wins(v, w),
         v.deleted \in BOOLEAN, w.deleted \in BOOLEAN
  PROVE  Newer(v, w)
  BY DEF Wins, Newer

-----------------------------------------------------------------------------
(* The inductive invariant.                                                *)

\* Every seq in use has been handed out.
Below(d) == \A k \in Keys : d.rows[k].seq < d.next

\* The open batch only adds to what is committed, under fresh seqs.
BatchExtends ==
    /\ tx.work.next >= db.next
    /\ \A k \in Keys :
          \/ tx.work.rows[k] = db.rows[k]
          \/ /\ tx.work.rows[k].seq >= db.next
             /\ Exists(db.rows[k]) => Newer(tx.work.rows[k], db.rows[k])

SeqInv == Below(db) /\ (tx.open => Below(tx.work) /\ BatchExtends)

\* A sweep under way holds the lock and has done its DELETE: no tombstone at or
\* below its floor is left.
SweepInv ==
    sweep.open =>
        /\ ~tx.open
        /\ floor <= sweep.floor /\ sweep.floor <= HeadSeq
        /\ \A k \in Keys : Tombstone(db.rows[k]) => db.rows[k].seq > sweep.floor

\* No cursor anywhere is ahead of the head.
CursorsBelowHead ==
    \A c \in Clients : /\ cursor[c] <= HeadSeq
                       /\ clients[c].cursor <= HeadSeq
                       /\ reply[c].cursor <= HeadSeq

\* An answer on its way leaves the device complete when it arrives.
RepliesComplete ==
    \A c \in Clients :
        /\ reply[c].kind = "page" =>
              UpToDate(c, Merged(view[c], reply[c]), reply[c].cursor)
        /\ reply[c].kind = "keys" =>
              UpToDate(c, Merged(view[c], reply[c]), cursor[c])

\* What one record of a batch may do to the batch's database.
LEMMA PushOneSeq ==
  ASSUME TypeInv, SeqInv, PushOne
  PROVE  Below(tx.work)' /\ BatchExtends'
  <1> DEFINE r == Head(tx.todo)
  <1>1. r \in PushRecord /\ r.key \in Keys /\ db' = db
    BY HeadOfTodo DEF TypeInv, PushOne, PushRecord, HoldBack, KeepStored, Apply, SetWork
  <1>2. tx.open /\ tx.work \in Db /\ db \in Db /\ now \in Nat /\ db.next >= 1
    BY DEF TypeInv, TypeOK, Counting, PushOne
  <1>3. CASE HoldBack(r) \/ KeepStored(r)
    <2>1. tx'.work.rows = tx.work.rows /\ tx'.work.next = tx.work.next
      BY <1>1, <1>2, <1>3, AckedType DEF HoldBack, KeepStored, SetWork
    <2> QED
      BY <1>1, <1>2, <2>1 DEF SeqInv, Below, BatchExtends
  <1>4. CASE Apply(r)
    <2> DEFINE new == AsRow(r, tx.work.next)
    <2>1. Store(tx.work, r, now) \in Db
          /\ Store(tx.work, r, now).rows = [tx.work.rows EXCEPT ![r.key] = new]
          /\ Store(tx.work, r, now).next = tx.work.next + 1
      BY <1>1, <1>2, StoreType
    <2>2. tx'.work = Acked(Store(tx.work, r, now), r)
      BY <1>4 DEF Apply, SetWork
    <2>3. tx'.work.rows = [tx.work.rows EXCEPT ![r.key] = new]
          /\ tx'.work.next = tx.work.next + 1
      BY <1>1, <2>1, <2>2, AckedType
    <2>4. new \in Row /\ new.seq = tx.work.next /\ new.at = r.at
          /\ new.hash = r.hash /\ new.deleted = r.deleted
      BY <1>1, <1>2, AsRowType DEF Db
    <2>5. tx.work.rows \in [Keys -> Row] /\ tx.work.next \in Nat
          /\ db.rows \in [Keys -> Row] /\ db.next \in Nat
      BY <1>2 DEF Db
    <2>6. Below(tx.work)'
      <3>1. ASSUME NEW k \in Keys
            PROVE  tx'.work.rows[k].seq < tx'.work.next
        <4>1. tx.work.rows[k].seq < tx.work.next /\ tx.work.rows[k].seq \in Nat
          BY <1>2, <2>5 DEF SeqInv, Below, Row
        <4> QED
          BY <1>1, <2>3, <2>4, <2>5, <4>1
      <3> QED
        BY <3>1 DEF Below
    <2>7. new.seq >= db.next
      BY <1>2, <2>4, <2>5 DEF SeqInv, BatchExtends
    <2>8. Exists(db.rows[r.key]) => Newer(new, db.rows[r.key])
      <3> DEFINE old == tx.work.rows[r.key]  base == db.rows[r.key]
      <3>1. old \in Row /\ base \in Row
        BY <1>1, <2>5
      <3>2. SUFFICES ASSUME Exists(base) PROVE Newer(new, base)
        OBVIOUS
      <3>3. Exists(old)
        BY <1>1, <1>2, <2>5, <3>1, <3>2 DEF SeqInv, BatchExtends, Exists, Row
      <3>4. Wins(r, old)
        BY <1>4, <3>3 DEF Apply
      <3>5. Newer(new, old)
        BY <2>4, <3>4 DEF Wins, Newer
      <3>6. CASE old = base
        BY <3>5, <3>6
      <3>7. CASE Newer(old, base)
        BY <2>4, <3>1, <3>5, <3>7, NewerTransitive DEF Row
      <3> QED
        BY <1>1, <1>2, <3>2, <3>6, <3>7 DEF SeqInv, BatchExtends
    <2>9. BatchExtends'
      BY <1>1, <1>2, <2>3, <2>5, <2>7, <2>8 DEF SeqInv, BatchExtends
    <2> QED
      BY <2>6, <2>9
  <1> QED
    BY <1>3, <1>4 DEF PushOne

\* What a step may do to the committed rows.
RowMoves(k) ==
    \/ db'.rows[k] = db.rows[k]
    \/ /\ Exists(db'.rows[k]) /\ db'.rows[k].seq >= db.next
       /\ Exists(db.rows[k]) => Newer(db'.rows[k], db.rows[k])
    \/ /\ ~Exists(db'.rows[k]) /\ Tombstone(db.rows[k]) /\ MayGo(db.rows[k].seq)
       /\ k \in sweep'.gone /\ db.rows[k].seq <= sweep'.floor

\* A sweep deletes exactly the tombstones at or below its floor, and it had a
\* reason for each.
LEMMA ReapRows ==
  ASSUME TypeInv, ReapTombstones
  PROVE  /\ sweep'.floor \in Nat /\ sweep'.floor >= floor /\ sweep'.open
         /\ floor' = floor /\ db'.next = db.next
         /\ sweep'.gone = {k \in Keys : Tombstone(db.rows[k])
                                           /\ db.rows[k].seq <= sweep'.floor}
         /\ \A k \in Keys :
               db'.rows[k] = IF Tombstone(db.rows[k]) /\ db.rows[k].seq <= sweep'.floor
                             THEN NoRow ELSE db.rows[k]
         /\ \A n \in Nat \ {0} : n <= sweep'.floor => MayGo(n)
  <1>1. PICK cf \in 0..MaxSeq, tf \in 0..MaxSeq :
          /\ IsClientFloor(cf) /\ IsTtlFloor(tf)
          /\ db' = Without(db, Reaped(NewFloor(cf, tf)))
          /\ sweep' = [open |-> TRUE, floor |-> NewFloor(cf, tf),
                       gone |-> Reaped(NewFloor(cf, tf))]
    BY DEF ReapTombstones
  <1>2. /\ floor \in Nat /\ cf \in Nat /\ tf \in Nat
        /\ \A c \in Clients : clients[c].cursor \in Nat
        /\ \A k \in Keys : db.rows[k].seq \in Nat
    BY BoundAssumption DEF TypeInv, TypeOK, Db, Row
  <1>3. sweep'.floor = NewFloor(cf, tf) /\ sweep'.floor \in Nat /\ sweep'.floor >= floor
    BY <1>1, <1>2 DEF NewFloor, Largest
  <1>4. db' = Without(db, Reaped(sweep'.floor)) /\ sweep'.gone = Reaped(sweep'.floor)
        /\ sweep'.open
    BY <1>1
  <1>5. ASSUME NEW n \in Nat \ {0}, n <= sweep'.floor
        PROVE  MayGo(n)
    <2>1. n <= floor \/ n <= cf \/ n <= tf
      BY <1>2, <1>3, <1>5 DEF NewFloor, Largest
    <2>2. ASSUME n <= cf PROVE Active # {} /\ \A c \in Active : n <= clients[c].cursor
      BY <1>1, <1>2, <2>2 DEF IsClientFloor, Active
    <2>3. ASSUME n <= tf PROVE \E k \in Expired : n <= db.rows[k].seq
      BY <1>1, <1>2, <2>3 DEF IsTtlFloor, Expired
    <2> QED
      BY <2>1, <2>2, <2>3 DEF MayGo
  <1>6. floor' = floor
    BY DEF ReapTombstones
  <1> QED
    BY <1>3, <1>4, <1>5, <1>6 DEF Without, Reaped

LEMMA RowsStep ==
  ASSUME TypeInv, SeqInv, SweepInv, [Next]_vars
  PROVE  /\ db'.next >= db.next /\ floor' >= floor
         /\ \A k \in Keys : RowMoves(k)
  <1> USE DEF deviceVars
  <1>0. db \in Db /\ tx.work \in Db /\ floor \in Nat /\ db.next \in Nat
        /\ db.next >= 1 /\ db.rows \in [Keys -> Row] /\ tx.work.rows \in [Keys -> Row]
    BY DEF TypeInv, TypeOK, Counting, Db
  <1>1. CASE Commit
    <2>1. db' = tx.work /\ floor' = floor /\ tx.open
      BY <1>1 DEF Commit
    <2>2. BatchExtends
      BY <2>1 DEF SeqInv
    <2>3. ASSUME NEW k \in Keys PROVE RowMoves(k)
      <3>1. db.rows[k].seq \in Nat /\ tx.work.rows[k].seq \in Nat
        BY <1>0 DEF Row
      <3> QED
        BY <1>0, <2>1, <2>2, <3>1 DEF BatchExtends, RowMoves, Exists
    <2> QED
      BY <1>0, <2>1, <2>2, <2>3 DEF BatchExtends
  <1>2. CASE ReapTombstones
    <2>1. ASSUME NEW k \in Keys PROVE RowMoves(k)
      <3>1. db.rows[k].seq \in Nat
        BY <1>0 DEF Row
      <3> QED
        BY <1>2, <3>1, ReapRows DEF RowMoves, Tombstone, Exists, NoRow
    <2> QED
      BY <1>0, <1>2, <2>1, ReapRows
  <1>3. CASE UNCHANGED <<db, floor>>
    BY <1>0, <1>3 DEF RowMoves
  <1>4. CASE RaiseFloor
    BY <1>0, <1>4 DEF RaiseFloor, SweepInv, RowMoves
  <1>5. Commit \/ ReapTombstones \/ RaiseFloor \/ UNCHANGED <<db, floor>>
    BY DEF Next, vars, BeginPush, PushOne, HoldBack, KeepStored, Apply, SetWork,
           Rollback, SweepCut, SetClock, Pull, PullKeys, RecordClientCursor,
           ReceivePage, ReceiveKeys, ReceiveRefusal, LoseReply
  <1> QED
    BY <1>1, <1>2, <1>3, <1>4, <1>5

LEMMA SeqStep ==
  ASSUME TypeInv, SeqInv, [Next]_vars
  PROVE  SeqInv'
  <1>0. db \in Db /\ tx.work \in Db /\ db.next \in Nat /\ db.next >= 1
        /\ db.rows \in [Keys -> Row]
    BY DEF TypeInv, TypeOK, Counting, Db
  <1>1. CASE BeginPush
    <2>1. db' = db /\ tx'.work = db
      BY <1>1 DEF BeginPush
    <2> QED
      BY <1>0, <2>1 DEF SeqInv, Below, BatchExtends
  <1>2. CASE PushOne
    <2>1. db' = db
      BY <1>2 DEF PushOne, HoldBack, KeepStored, Apply, SetWork
    <2> QED
      BY <1>2, <2>1, PushOneSeq DEF SeqInv, Below
  <1>3. CASE Commit
    BY <1>3 DEF Commit, NoTx, SeqInv, Below
  <1>4. CASE Rollback
    BY <1>4 DEF Rollback, NoTx, SeqInv, Below
  <1>5. CASE ReapTombstones
    <2>1. ~tx.open /\ tx' = tx
      BY <1>5 DEF ReapTombstones, Free
    <2>2. Below(db)'
      BY <1>0, <1>5, ReapRows DEF SeqInv, Below, NoRow
    <2> QED
      BY <2>1, <2>2 DEF SeqInv
  <1>6. CASE UNCHANGED <<db, tx>>
    BY <1>6 DEF SeqInv, Below, BatchExtends
  <1> QED
    BY <1>1, <1>2, <1>3, <1>4, <1>5, <1>6
    DEF Next, vars, RaiseFloor, SweepCut, SetClock, Pull, PullKeys,
        RecordClientCursor, ReceivePage, ReceiveKeys, ReceiveRefusal, LoseReply

-----------------------------------------------------------------------------
(* The floor and the cursors.                                              *)

FloorInv == TypeInv /\ SeqInv /\ SweepInv /\ FloorExact /\ CursorsBelowHead

\* The numbers the invariants compare are numbers.
LEMMA Numbers ==
  ASSUME TypeInv
  PROVE  /\ floor \in Nat /\ db.next \in Nat /\ HeadSeq \in Nat
         /\ HeadSeq = db.next - 1
         /\ \A k \in Keys : db.rows[k] \in Row /\ db.rows[k].seq \in Nat
         /\ \A c \in Clients : /\ cursor[c] \in Nat /\ clients[c].cursor \in Nat
                               /\ reply[c] \in Reply /\ reply[c].cursor \in Nat
                               /\ view[c] \in [Keys -> Row]
  <1>1. db \in Db /\ db.next >= 1 /\ reply \in [Clients -> Reply]
    BY DEF TypeInv, TypeOK, Counting
  <1>2. \A k \in Keys : db.rows[k] \in Row /\ db.rows[k].seq \in Nat
    BY <1>1 DEF Db, Row
  <1>3. \A c \in Clients : reply[c] \in Reply /\ reply[c].cursor \in Nat
    BY <1>1 DEF Reply
  <1> QED
    BY <1>1, <1>2, <1>3 DEF TypeInv, TypeOK, HeadSeq, Db

\* A sweep's floor is a seq already handed out.
LEMMA ReapFloor ==
  ASSUME FloorInv, ReapTombstones
  PROVE  sweep'.floor <= HeadSeq
  <1>1. PICK cf \in 0..MaxSeq, tf \in 0..MaxSeq :
          IsClientFloor(cf) /\ IsTtlFloor(tf) /\ sweep'.floor = NewFloor(cf, tf)
    BY DEF ReapTombstones
  <1>2. cf <= HeadSeq
    BY <1>1, Numbers DEF IsClientFloor, Active, FloorInv, CursorsBelowHead
  <1>3. tf <= HeadSeq
    BY <1>1, Numbers DEF IsTtlFloor, Expired, FloorInv, SeqInv, Below
  <1> QED
    BY <1>1, <1>2, <1>3, Numbers, BoundAssumption
    DEF NewFloor, Largest, FloorInv, FloorExact

\* No tombstone at or below a number the head has reached appears.
LEMMA NoLowTombstone ==
  ASSUME TypeInv, TypeInv', NEW k \in Keys, RowMoves(k), NEW n \in Nat, n <= HeadSeq,
         Tombstone(db.rows[k]) => db.rows[k].seq > n, Tombstone(db'.rows[k])
  PROVE  db'.rows[k].seq > n
  <1>1. db'.rows[k].seq \in Nat
    BY DEF TypeInv, TypeOK, Db, Row
  <1>2. CASE db'.rows[k] = db.rows[k]
    BY <1>2
  <1>3. CASE db'.rows[k].seq >= db.next
    BY <1>1, <1>3, Numbers
  <1> QED
    BY <1>2, <1>3 DEF RowMoves, Tombstone

LEMMA FloorStep ==
  ASSUME FloorInv, [Next]_vars
  PROVE  FloorExact' /\ SweepInv'
  <1>1. /\ db'.next >= db.next /\ floor' >= floor
        /\ \A k \in Keys : RowMoves(k)
    BY RowsStep DEF FloorInv
  <1>2. TypeInv' /\ TypeInv /\ FloorExact /\ SweepInv
    BY TypeStep DEF FloorInv
  <1>3. /\ db' \in Db /\ floor' \in Nat /\ sweep.floor \in Nat /\ sweep'.floor \in Nat
        /\ db'.next \in Nat /\ HeadSeq' = db'.next - 1 /\ HeadSeq' >= HeadSeq
    <2>1. db' \in Db /\ db'.next \in Nat
      BY <1>2 DEF TypeInv, TypeOK, Db
    <2> QED
      BY <1>1, <1>2, <2>1, Numbers DEF TypeInv, TypeOK, Sweep, HeadSeq
  <1>4. CASE ReapTombstones
    <2>1. floor' = floor /\ sweep'.floor <= HeadSeq /\ floor <= sweep'.floor
          /\ ~tx'.open
      BY <1>4, ReapRows, ReapFloor DEF FloorInv, ReapTombstones, Free
    <2>2. \A k \in Keys : Tombstone(db'.rows[k]) => db'.rows[k].seq > sweep'.floor
      BY <1>2, <1>3, <1>4, ReapRows, Numbers DEF NoRow, Tombstone, Exists
    <2>3. sweep'.floor <= HeadSeq' /\ floor' <= HeadSeq'
      BY <1>2, <1>3, <2>1, Numbers
    <2>4. \A k \in Keys : Tombstone(db'.rows[k]) => db'.rows[k].seq > floor'
      <3>1. \A k \in Keys : db'.rows[k].seq \in Nat
        BY <1>3 DEF Db, Row
      <3> QED
        BY <1>2, <1>3, <2>1, <2>2, <3>1, Numbers
    <2> QED
      BY <2>1, <2>2, <2>3, <2>4 DEF FloorExact, SweepInv
  <1>5. CASE RaiseFloor
    <2>1. sweep.open /\ floor' = sweep.floor /\ db' = db /\ ~sweep'.open
      BY <1>5 DEF RaiseFloor, NoSweep
    <2> QED
      BY <1>2, <2>1 DEF SweepInv, FloorExact, HeadSeq
  <1>6. CASE floor' = floor /\ ~ReapTombstones
    <2>1. floor' <= HeadSeq'
      BY <1>2, <1>3, <1>6, Numbers DEF FloorExact
    <2>2. ASSUME NEW k \in Keys, Tombstone(db'.rows[k])
          PROVE  db'.rows[k].seq > floor'
      BY <1>1, <1>2, <1>6, <2>2, NoLowTombstone, Numbers DEF FloorExact
    <2>3. ~sweep'.open \/ (sweep' = sweep /\ ~tx'.open /\ db' = db)
      <3>1. CASE sweep.open
        <4>1. ~tx.open
          BY <1>2, <3>1 DEF SweepInv
        <4>2. \/ sweep' = NoSweep
              \/ UNCHANGED <<db, tx, sweep>>
          BY <1>6, <3>1, <4>1
          DEF Next, vars, Free, BeginPush, PushOne, Commit, Rollback, RaiseFloor,
              SweepCut, SetClock, Pull, PullKeys, RecordClientCursor, ReceivePage,
              ReceiveKeys, ReceiveRefusal, LoseReply
        <4> QED
          BY <4>1, <4>2 DEF NoSweep
      <3>2. CASE ~sweep.open
        <4>1. sweep' = sweep \/ sweep' = NoSweep
          BY <1>6 DEF Next, vars, BeginPush, PushOne, HoldBack, KeepStored, Apply,
              SetWork, Commit, Rollback, RaiseFloor, SweepCut, SetClock, Pull,
              PullKeys, RecordClientCursor, ReceivePage, ReceiveKeys,
              ReceiveRefusal, LoseReply
        <4> QED
          BY <3>2, <4>1 DEF NoSweep
      <3> QED
        BY <3>1, <3>2
    <2>4. SweepInv'
      BY <1>2, <1>6, <2>3 DEF SweepInv, HeadSeq
    <2> QED
      BY <2>1, <2>2, <2>4 DEF FloorExact
  <1>7. ReapTombstones \/ RaiseFloor \/ floor' = floor
    BY DEF Next, vars, BeginPush, PushOne, HoldBack, KeepStored, Apply, SetWork,
           Commit, Rollback, SweepCut, SetClock, Pull, PullKeys, RecordClientCursor,
           ReceivePage, ReceiveKeys, ReceiveRefusal, LoseReply
  <1> QED
    BY <1>4, <1>5, <1>6, <1>7

\* The cursor of a page is not ahead of the head.
LEMMA PageCursorBelowHead ==
  ASSUME TypeInv, SeqInv, NEW c \in Clients,
         NEW page \in SUBSET Candidates(c, cursor[c]), NEW n \in Nat,
         IsPageCursor(n, page)
  PROVE  n <= HeadSeq
  <1>1. page \in SUBSET Keys
    BY ScopeAssumption DEF Candidates
  <1> QED
    BY <1>1, Numbers DEF IsPageCursor, SeqInv, Below

LEMMA CursorsStep ==
  ASSUME FloorInv, [Next]_vars
  PROVE  CursorsBelowHead'
  <1>1. HeadSeq' >= HeadSeq /\ HeadSeq \in Nat /\ HeadSeq' \in Int
    <2>1. db'.next >= db.next /\ TypeInv' /\ TypeInv
      BY RowsStep, TypeStep DEF FloorInv
    <2>2. db'.next \in Nat /\ db.next \in Nat
      BY <2>1 DEF TypeInv, TypeOK, Db
    <2> QED
      BY <2>1, <2>2, Numbers DEF HeadSeq
  <1>2. TypeInv /\ CursorsBelowHead
    BY DEF FloorInv
  <1> DEFINE Low(n) == n \in Nat /\ n <= HeadSeq
  <1>3. \A c \in Clients : Low(cursor[c]) /\ Low(clients[c].cursor) /\ Low(reply[c].cursor)
    BY <1>2, Numbers DEF CursorsBelowHead
  <1>4. Low(NoReply.cursor) /\ Low(0)
    BY <1>1 DEF NoReply
  <1>5. ASSUME NEW c \in Clients
        PROVE  Low(cursor'[c]) /\ Low(clients'[c].cursor) /\ Low(reply'[c].cursor)
    <2> USE DEF deviceVars, TypeInv, TypeOK
    <2>1. ASSUME NEW d \in Clients, Pull(d)
          PROVE  Low(reply'[c].cursor) /\ UNCHANGED <<cursor, clients>>
      <3>0. UNCHANGED <<cursor, clients>>
        BY <2>1 DEF Pull
      <3>1. CASE Refused(cursor[d])
        BY <1>2, <1>3, <1>4, <2>1, <3>1 DEF Pull, NoReply
      <3>2. CASE ~Refused(cursor[d])
        <4>1. PICK page \in SUBSET Candidates(d, cursor[d]), n \in 0..MaxSeq :
                /\ IsPageCursor(n, page)
                /\ reply' = [reply EXCEPT ![d] = Answer("page", cursor[d], n, page)]
          BY <3>2, <2>1 DEF Pull
        <4>2. Low(n)
          BY <4>1, <1>2, BoundAssumption, PageCursorBelowHead DEF FloorInv
        <4>3. Answer("page", cursor[d], n, page).cursor = n
          BY DEF Answer
        <4>4. reply \in [Clients -> Reply]
          BY <1>2
        <4> HIDE DEF Low
        <4>5. CASE c = d
          <5>1. reply'[c] = Answer("page", cursor[d], n, page)
            BY <4>1, <4>4, <4>5
          <5>2. Low(reply'[c].cursor)
            BY <4>2, <4>3, <5>1
          <5> QED
            BY <3>0, <5>2
        <4>6. CASE c # d
          <5>1. reply'[c] = reply[c]
            BY <4>1, <4>4, <4>6
          <5> QED
            BY <1>3, <3>0, <5>1
        <4> QED
          BY <4>5, <4>6
      <3> QED
        BY <3>0, <3>1, <3>2
    <2>2. ASSUME NEW d \in Clients, PullKeys(d)
          PROVE  Low(reply'[c].cursor) /\ UNCHANGED <<cursor, clients>>
      <3>0. UNCHANGED <<cursor, clients>>
        BY <2>2 DEF PullKeys
      <3>1. PICK have : reply' = [reply EXCEPT ![d] =
                                     Answer("keys", cursor[d], HeadSeq, have)]
        BY <2>2 DEF PullKeys
      <3>2. Answer("keys", cursor[d], HeadSeq, have).cursor = HeadSeq
        BY DEF Answer
      <3> QED
        BY <1>1, <1>2, <1>3, <3>0, <3>1, <3>2
    <2>3. ASSUME NEW d \in Clients, RecordClientCursor(d)
          PROVE  Low(reply'[c].cursor) /\ Low(clients'[c].cursor) /\ UNCHANGED cursor
      <3>1. reply[d] \in Reply
        BY <1>2
      <3>2. [reply[d] EXCEPT !.recorded = TRUE].cursor = reply[d].cursor
        BY <3>1 DEF Reply
      <3> QED
        BY <1>2, <1>3, <2>3, <3>2 DEF RecordClientCursor
    <2>4. ASSUME NEW d \in Clients,
                 ReceivePage(d) \/ ReceiveKeys(d) \/ ReceiveRefusal(d) \/ LoseReply(d)
          PROVE  Low(reply'[c].cursor) /\ Low(cursor'[c]) /\ UNCHANGED clients
      BY <1>2, <1>3, <1>4, <2>4
      DEF ReceivePage, ReceiveKeys, ReceiveRefusal, LoseReply
    <2>5. CASE UNCHANGED <<cursor, clients, reply>>
      BY <1>3, <2>5
    <2>6. \/ UNCHANGED <<cursor, clients, reply>>
          \/ \E d \in Clients :
                \/ Pull(d) \/ PullKeys(d) \/ RecordClientCursor(d)
                \/ ReceivePage(d) \/ ReceiveKeys(d) \/ ReceiveRefusal(d) \/ LoseReply(d)
      BY DEF Next, vars, BeginPush, PushOne, HoldBack, KeepStored, Apply, SetWork,
             Commit, Rollback, ReapTombstones, RaiseFloor, SweepCut, SetClock
    <2> QED
      BY <1>3, <2>1, <2>2, <2>3, <2>4, <2>5, <2>6
  <1> QED
    BY <1>1, <1>5 DEF CursorsBelowHead

-----------------------------------------------------------------------------
(* Completeness of incremental pulls.                                      *)

\* A device is told to start again only once the floor has left 0.
RefusalsDue == \A c \in Clients : reply[c].kind = "refused" => floor > 0

IInv == FloorInv /\ CursorComplete /\ RepliesComplete /\ RefusalsDue

\* `Untold` of the next state.
UntoldNext(k, n) == k \in orphans' \/ (k \in sweep'.gone /\ n < sweep'.floor)

\* UpToDate of the next state, for a fixed view and cursor.
UpToDateNext(c, v, n) ==
    n >= floor' =>
        \A k \in Scope[c] :
            /\ Exists(db'.rows[k]) /\ db'.rows[k].seq <= n => v[k] = db'.rows[k]
            /\ ~Exists(db'.rows[k]) => ~Exists(v[k]) \/ v[k].deleted \/ UntoldNext(k, n)

\* A tombstone a device was not told of stays so until its key has a row again or
\* the floor has passed the device.
LEMMA UntoldStays ==
  ASSUME FloorInv, [Next]_vars, NEW k \in Keys, NEW n \in Nat,
         Untold(k, n), n >= floor', ~Exists(db'.rows[k])
  PROVE  UntoldNext(k, n)
  <1>1. /\ sweep.floor \in Nat /\ (~sweep.open => sweep.gone = {})
        /\ (sweep.open => ~tx.open)
    BY DEF FloorInv, TypeInv, TypeOK, Counting, Sweep, NoSweep, SweepInv
  <1>2. CASE Commit
    BY <1>1, <1>2 DEF Commit, Untold, UntoldNext
  <1>3. CASE ReapTombstones
    BY <1>1, <1>3 DEF ReapTombstones, Free, Untold, UntoldNext
  <1>4. CASE RaiseFloor
    BY <1>1, <1>4 DEF RaiseFloor, Untold, UntoldNext
  <1>5. CASE SweepCut
    BY <1>5 DEF SweepCut, Untold, UntoldNext
  <1>6. CASE UNCHANGED <<sweep, orphans>>
    BY <1>6 DEF Untold, UntoldNext
  <1> QED
    BY <1>2, <1>3, <1>4, <1>5, <1>6
    DEF Next, vars, BeginPush, PushOne, HoldBack, KeepStored, Apply, SetWork,
        Rollback, SetClock, Pull, PullKeys, RecordClientCursor, ReceivePage,
        ReceiveKeys, ReceiveRefusal, LoseReply

\* A device complete at a cursor n stays complete while the database moves:
\* every row that changes gets a seq above n, and a row that goes was a
\* tombstone the device has, unless the sweep's floor is past n.
LEMMA UpToDateStable ==
  ASSUME FloorInv, [Next]_vars, NEW c \in Clients,
         NEW v \in [Keys -> Row], NEW n \in Nat, n <= HeadSeq, UpToDate(c, v, n)
  PROVE  UpToDateNext(c, v, n)
  <1> SUFFICES ASSUME n >= floor', NEW k \in Scope[c]
               PROVE  /\ Exists(db'.rows[k]) /\ db'.rows[k].seq <= n => v[k] = db'.rows[k]
                      /\ ~Exists(db'.rows[k]) =>
                            ~Exists(v[k]) \/ v[k].deleted \/ UntoldNext(k, n)
    BY DEF UpToDateNext
  <1>1. k \in Keys
    BY ScopeAssumption
  <1>2. RowMoves(k) /\ floor' >= floor /\ TypeInv
    BY <1>1, RowsStep DEF FloorInv
  <1>3. TypeInv'
    BY TypeStep DEF FloorInv
  <1>4. floor' \in Nat /\ db'.rows[k].seq \in Nat /\ sweep'.floor \in Nat
    BY <1>1, <1>3 DEF TypeInv, TypeOK, Db, Row, Sweep
  <1>5. n >= floor
    BY <1>2, <1>4, Numbers
  <1>6. /\ Exists(db.rows[k]) /\ db.rows[k].seq <= n => v[k] = db.rows[k]
        /\ ~Exists(db.rows[k]) => ~Exists(v[k]) \/ v[k].deleted \/ Untold(k, n)
    BY <1>5 DEF UpToDate
  <1>7. CASE db'.rows[k] = db.rows[k]
    BY <1>1, <1>6, <1>7, UntoldStays
  <1>8. CASE Exists(db'.rows[k]) /\ db'.rows[k].seq >= db.next
    BY <1>2, <1>4, <1>8, Numbers
  <1>9. CASE /\ ~Exists(db'.rows[k]) /\ Tombstone(db.rows[k])
             /\ k \in sweep'.gone /\ db.rows[k].seq <= sweep'.floor
    <2>1. CASE db.rows[k].seq <= n
      BY <1>6, <1>9, <2>1 DEF Tombstone
    <2>2. CASE ~(db.rows[k].seq <= n)
      <3>1. n < sweep'.floor
        BY <1>1, <1>2, <1>4, <1>9, <2>2, Numbers
      <3> QED
        BY <1>9, <3>1 DEF UntoldNext
    <2> QED
      BY <2>1, <2>2
  <1> QED
    BY <1>2, <1>7, <1>8, <1>9 DEF RowMoves

\* A page that was not refused completes the device up to the page's cursor.
LEMMA PageCompletes ==
  ASSUME IInv, NEW c \in Clients, Free, ~Refused(cursor[c]),
         NEW page \in SUBSET Candidates(c, cursor[c]), NEW n \in Nat,
         IsPage(page, Candidates(c, cursor[c])), IsPageCursor(n, page)
  PROVE  UpToDate(c, Merged(view[c], Answer("page", cursor[c], n, page)), n)
  <1> DEFINE all == Candidates(c, cursor[c])
             r == Answer("page", cursor[c], n, page)
             v == Merged(view[c], r)
  <1>1. all \in SUBSET Keys /\ IsFiniteSet(all) /\ IsFiniteSet(page)
    BY ScopeAssumption, KeysAssumption, FS_Subset DEF Candidates
  <1>2. TypeInv
    BY DEF IInv, FloorInv
  <1>3. ASSUME page = {} PROVE all = {}
    <2>1. Cardinality(page) = 0
      BY <1>3, FS_EmptySet
    <2>2. Cardinality(all) = 0
      <3>1. Cardinality(all) \in Nat /\ PageLimit \in Nat /\ PageLimit > 0
        BY <1>1, FS_CardinalityType, LimitAssumption
      <3> QED
        BY <2>1, <3>1 DEF IsPage
    <2> QED
      BY <1>1, <2>2, FS_EmptySet
  <1>4. ASSUME NEW k \in Keys
        PROVE  v[k] = IF k \in page THEN db.rows[k]
                      ELSE IF cursor[c] = 0 THEN NoRow ELSE view[c][k]
    BY <1>1, <1>4 DEF Merged, Answer
  <1>5. SUFFICES ASSUME n >= floor, NEW k \in Scope[c]
                 PROVE  /\ Exists(db.rows[k]) /\ db.rows[k].seq <= n => v[k] = db.rows[k]
                        /\ ~Exists(db.rows[k]) =>
                              ~Exists(v[k]) \/ v[k].deleted \/ Untold(k, n)
    BY DEF UpToDate
  <1>6. k \in Keys /\ db.rows[k].seq \in Nat /\ cursor[c] \in Nat
    BY <1>2, ScopeAssumption, Numbers
  <1>7. CASE k \in page
    BY <1>4, <1>6, <1>7 DEF Candidates, Exists
  <1>8. CASE k \notin page /\ cursor[c] = 0
    <2>1. v[k] = NoRow
      BY <1>4, <1>6, <1>8
    <2>2. ~(Exists(db.rows[k]) /\ db.rows[k].seq <= n)
      <3>1. SUFFICES ASSUME Exists(db.rows[k]), db.rows[k].seq <= n PROVE FALSE
        OBVIOUS
      <3>2. k \in all
        BY <1>6, <1>8, <3>1 DEF Candidates, Exists
      <3>3. page # {}
        BY <1>3, <3>2
      <3>4. PICK j \in page : n = db.rows[j].seq
        BY <3>3 DEF IsPageCursor
      <3> QED
        BY <1>8, <3>1, <3>2, <3>4 DEF IsPage
    <2> QED
      BY <2>1, <2>2 DEF NoRow, Exists
  <1>9. CASE k \notin page /\ cursor[c] # 0
    <2>1. v[k] = view[c][k]
      BY <1>4, <1>6, <1>9
    <2>2. cursor[c] >= floor /\ UpToDate(c, view[c], cursor[c])
      BY <1>2, <1>6, <1>9, Numbers DEF Refused, IInv, CursorComplete
    <2>3. /\ Exists(db.rows[k]) /\ db.rows[k].seq <= cursor[c] => view[c][k] = db.rows[k]
          /\ ~Exists(db.rows[k]) =>
                ~Exists(view[c][k]) \/ view[c][k].deleted \/ Untold(k, cursor[c])
      BY <2>2 DEF UpToDate
    <2>5. Untold(k, cursor[c]) => Untold(k, n)
      BY <1>2 DEF Free, TypeInv, Counting, NoSweep, Untold
    <2>4. ASSUME Exists(db.rows[k]), db.rows[k].seq <= n
          PROVE  db.rows[k].seq <= cursor[c]
      <3>1. SUFFICES ASSUME db.rows[k].seq > cursor[c] PROVE FALSE
        BY <1>6
      <3>2. k \in all
        BY <3>1 DEF Candidates
      <3>3. page # {}
        BY <1>3, <3>2
      <3>4. PICK j \in page : n = db.rows[j].seq
        BY <3>3 DEF IsPageCursor
      <3> QED
        BY <1>9, <2>4, <3>2, <3>4 DEF IsPage
    <2> QED
      BY <2>1, <2>3, <2>4, <2>5
  <1> QED
    BY <1>7, <1>8, <1>9

\* The keys of an answer by keys leave the device as complete as it was.
LEMMA KeysComplete ==
  ASSUME IInv, NEW c \in Clients, ~Refused(cursor[c]),
         NEW n \in Nat, NEW have \in SUBSET {k \in Keys : Exists(db.rows[k])}
  PROVE  UpToDate(c, Merged(view[c], Answer("keys", cursor[c], n, have)), cursor[c])
  <1> DEFINE v == Merged(view[c], Answer("keys", cursor[c], n, have))
  <1>1. \A k \in Keys : v[k] = IF k \in have THEN db.rows[k] ELSE view[c][k]
    BY DEF Merged, Answer
  <1>2. Scope[c] \subseteq Keys
    BY ScopeAssumption
  <1>3. UpToDate(c, view[c], cursor[c])
    BY DEF IInv, CursorComplete
  <1> QED
    BY <1>1, <1>2, <1>3 DEF UpToDate

\* Nothing the device holds, or will hold, changes.
Quiet(c) ==
    /\ view'[c] = view[c] /\ cursor'[c] = cursor[c]
    /\ \/ reply'[c].kind \in {"none", "refused"}
       \/ /\ reply'[c].kind = reply[c].kind /\ reply'[c].cursor = reply[c].cursor
          /\ Merged(view[c], reply'[c]) = Merged(view[c], reply[c])

CompleteNext(c) ==
    /\ UpToDateNext(c, view'[c], cursor'[c])
    /\ reply'[c].kind = "page" =>
          UpToDateNext(c, Merged(view'[c], reply'[c]), reply'[c].cursor)
    /\ reply'[c].kind = "keys" =>
          UpToDateNext(c, Merged(view'[c], reply'[c]), cursor'[c])

LEMMA QuietComplete ==
  ASSUME IInv, [Next]_vars, NEW c \in Clients, Quiet(c)
  PROVE  CompleteNext(c)
  <1>1. FloorInv /\ TypeInv /\ CursorsBelowHead
    BY DEF IInv, FloorInv
  <1>2. UpToDateNext(c, view[c], cursor[c])
    <2>1. /\ view[c] \in [Keys -> Row] /\ cursor[c] \in Nat /\ cursor[c] <= HeadSeq
          /\ UpToDate(c, view[c], cursor[c])
      BY <1>1, Numbers DEF IInv, CursorComplete, CursorsBelowHead
    <2> QED
      BY <1>1, <2>1, UpToDateStable DEF UpToDateNext
  <1>3. Merged(view[c], reply[c]) \in [Keys -> Row]
    BY <1>1, Numbers, MergedType
  <1>4. ASSUME reply[c].kind = "page"
        PROVE  UpToDateNext(c, Merged(view[c], reply[c]), reply[c].cursor)
    <2>1. /\ reply[c].cursor \in Nat /\ reply[c].cursor <= HeadSeq
          /\ UpToDate(c, Merged(view[c], reply[c]), reply[c].cursor)
      BY <1>1, <1>4, Numbers DEF IInv, RepliesComplete, CursorsBelowHead
    <2> QED
      BY <1>1, <1>3, <2>1, UpToDateStable DEF UpToDateNext
  <1>5. ASSUME reply[c].kind = "keys"
        PROVE  UpToDateNext(c, Merged(view[c], reply[c]), cursor[c])
    <2>1. /\ cursor[c] \in Nat /\ cursor[c] <= HeadSeq
          /\ UpToDate(c, Merged(view[c], reply[c]), cursor[c])
      BY <1>1, <1>5, Numbers DEF IInv, RepliesComplete, CursorsBelowHead
    <2> QED
      BY <1>1, <1>3, <2>1, UpToDateStable DEF UpToDateNext
  <1>6. /\ reply'[c].kind = "page" =>
              /\ reply[c].kind = "page" /\ reply'[c].cursor = reply[c].cursor
              /\ Merged(view'[c], reply'[c]) = Merged(view[c], reply[c])
        /\ reply'[c].kind = "keys" =>
              /\ reply[c].kind = "keys"
              /\ Merged(view'[c], reply'[c]) = Merged(view[c], reply[c])
        /\ view'[c] = view[c] /\ cursor'[c] = cursor[c]
    BY DEF Quiet
  <1> QED
    BY <1>2, <1>4, <1>5, <1>6 DEF CompleteNext

\* The two pulls answer with what completes the device.
LEMMA PullComplete ==
  ASSUME IInv, NEW c \in Clients, Pull(c) \/ PullKeys(c)
  PROVE  CompleteNext(c) \/ Quiet(c)
  <1>1. /\ UNCHANGED <<db, floor, sweep, orphans>> /\ Free
        /\ view'[c] = view[c] /\ cursor'[c] = cursor[c] /\ reply \in [Clients -> Reply]
    BY DEF Pull, PullKeys, deviceVars, IInv, FloorInv, TypeInv, TypeOK
  <1>2. UpToDateNext(c, view'[c], cursor'[c])
    BY <1>1 DEF UpToDateNext, UpToDate, Untold, UntoldNext, IInv, CursorComplete
  <1>3. CASE Pull(c) /\ Refused(cursor[c])
    <2>1. reply'[c].kind = "refused"
      BY <1>1, <1>3 DEF Pull, NoReply
    <2> QED
      BY <1>1, <2>1 DEF Quiet
  <1>4. CASE Pull(c) /\ ~Refused(cursor[c])
    <2>1. PICK page \in SUBSET Candidates(c, cursor[c]), n \in 0..MaxSeq :
            /\ IsPage(page, Candidates(c, cursor[c]))
            /\ IsPageCursor(n, page)
            /\ reply' = [reply EXCEPT ![c] = Answer("page", cursor[c], n, page)]
      BY <1>4 DEF Pull
    <2>2. n \in Nat
      BY BoundAssumption
    <2>3. UpToDate(c, Merged(view[c], Answer("page", cursor[c], n, page)), n)
      BY <1>1, <1>4, <2>1, <2>2, PageCompletes
    <2>4. reply'[c] = Answer("page", cursor[c], n, page)
      BY <1>1, <2>1
    <2>5. reply'[c].kind = "page" /\ reply'[c].cursor = n
      BY <2>4 DEF Answer
    <2>6. UpToDateNext(c, Merged(view'[c], reply'[c]), reply'[c].cursor)
      BY <1>1, <2>3, <2>4, <2>5 DEF UpToDateNext, UpToDate, Untold, UntoldNext
    <2> QED
      BY <1>2, <2>5, <2>6 DEF CompleteNext
  <1>5. CASE PullKeys(c)
    <2>1. PICK wanted \in SUBSET Keys :
            reply' = [reply EXCEPT ![c] = Answer("keys", cursor[c], HeadSeq,
                         {k \in wanted : Exists(db.rows[k])})]
      BY <1>5 DEF PullKeys
    <2> DEFINE have == {k \in wanted : Exists(db.rows[k])}
    <2>2. have \in SUBSET {k \in Keys : Exists(db.rows[k])} /\ HeadSeq \in Nat
      BY Numbers DEF IInv, FloorInv
    <2>3. ~Refused(cursor[c])
      BY <1>5 DEF PullKeys
    <2> HIDE DEF have
    <2>4. UpToDate(c, Merged(view[c], Answer("keys", cursor[c], HeadSeq, have)), cursor[c])
      BY <2>2, <2>3, KeysComplete
    <2>5. reply'[c] = Answer("keys", cursor[c], HeadSeq, have)
      BY <1>1, <2>1 DEF have
    <2>6. reply'[c].kind = "keys"
      BY <2>5 DEF Answer
    <2>7. UpToDateNext(c, Merged(view'[c], reply'[c]), cursor'[c])
      BY <1>1, <2>4, <2>5 DEF UpToDateNext, UpToDate, Untold, UntoldNext
    <2> QED
      BY <1>2, <2>6, <2>7 DEF CompleteNext
  <1> QED
    BY <1>3, <1>4, <1>5

\* Taking in an answer.
LEMMA ReceiveComplete ==
  ASSUME IInv, NEW c \in Clients,
         ReceivePage(c) \/ ReceiveKeys(c) \/ ReceiveRefusal(c)
  PROVE  CompleteNext(c)
  <1>1. /\ UNCHANGED <<db, floor, sweep, orphans>> /\ reply'[c].kind = "none"
        /\ view \in [Clients -> [Keys -> Row]] /\ cursor \in [Clients -> Nat]
    BY DEF ReceivePage, ReceiveKeys, ReceiveRefusal, NoReply, IInv, FloorInv,
           TypeInv, TypeOK
  <1>2. CASE ReceivePage(c)
    <2>1. view'[c] = Merged(view[c], reply[c]) /\ cursor'[c] = reply[c].cursor
      BY <1>1, <1>2 DEF ReceivePage
    <2>2. UpToDate(c, Merged(view[c], reply[c]), reply[c].cursor)
      BY <1>2 DEF ReceivePage, IInv, RepliesComplete
    <2> QED
      BY <1>1, <2>1, <2>2 DEF CompleteNext, UpToDateNext, UpToDate, Untold, UntoldNext
  <1>3. CASE ReceiveKeys(c)
    <2>1. view'[c] = Merged(view[c], reply[c]) /\ cursor'[c] = cursor[c]
      BY <1>1, <1>3 DEF ReceiveKeys
    <2>2. UpToDate(c, Merged(view[c], reply[c]), cursor[c])
      BY <1>3 DEF ReceiveKeys, IInv, RepliesComplete
    <2> QED
      BY <1>1, <2>1, <2>2 DEF CompleteNext, UpToDateNext, UpToDate, Untold, UntoldNext
  <1>4. CASE ReceiveRefusal(c)
    <2>1. cursor'[c] = 0 /\ floor > 0
      BY <1>1, <1>4 DEF ReceiveRefusal, IInv, RefusalsDue
    <2>2. floor' = floor /\ floor \in Nat
      BY <1>1, Numbers DEF IInv, FloorInv
    <2>3. ~(cursor'[c] >= floor')
      BY <2>1, <2>2
    <2> QED
      BY <1>1, <2>3 DEF CompleteNext, UpToDateNext
  <1> QED
    BY <1>2, <1>3, <1>4

LEMMA CompleteStep ==
  ASSUME IInv, [Next]_vars, NEW c \in Clients
  PROVE  CompleteNext(c)
  <1>1. SUFFICES CompleteNext(c) \/ Quiet(c)
    BY QuietComplete
  <1>2. /\ view \in [Clients -> [Keys -> Row]] /\ cursor \in [Clients -> Nat]
        /\ reply \in [Clients -> Reply] /\ reply[c] \in Reply
    BY DEF IInv, FloorInv, TypeInv, TypeOK
  <1>3. CASE UNCHANGED <<view, cursor, reply>>
    BY <1>3 DEF Quiet
  <1>4. ASSUME NEW d \in Clients, Pull(d) \/ PullKeys(d)
        PROVE  CompleteNext(c) \/ Quiet(c)
    <2>1. CASE d = c
      BY <1>4, <2>1, PullComplete
    <2>2. CASE d # c
      BY <1>2, <1>4, <2>2 DEF Pull, PullKeys, deviceVars, Quiet
    <2> QED
      BY <2>1, <2>2
  <1>5. ASSUME NEW d \in Clients,
               ReceivePage(d) \/ ReceiveKeys(d) \/ ReceiveRefusal(d)
        PROVE  CompleteNext(c) \/ Quiet(c)
    <2>1. CASE d = c
      BY <1>5, <2>1, ReceiveComplete
    <2>2. CASE d # c
      BY <1>2, <1>5, <2>2 DEF ReceivePage, ReceiveKeys, ReceiveRefusal, Quiet
    <2> QED
      BY <2>1, <2>2
  <1>6. ASSUME NEW d \in Clients, LoseReply(d)
        PROVE  Quiet(c)
    BY <1>2, <1>6 DEF LoseReply, deviceVars, Quiet, NoReply
  <1>7. ASSUME NEW d \in Clients, RecordClientCursor(d)
        PROVE  Quiet(c)
    <2>1. UNCHANGED <<view, cursor>>
      BY <1>7 DEF RecordClientCursor, deviceVars
    <2>2. CASE d # c
      BY <1>2, <1>7, <2>1, <2>2 DEF RecordClientCursor, Quiet
    <2>3. CASE d = c
      <3>1. reply'[c] = [reply[c] EXCEPT !.recorded = TRUE]
        BY <1>2, <1>7, <2>3 DEF RecordClientCursor
      <3>2. /\ reply'[c].kind = reply[c].kind /\ reply'[c].since = reply[c].since
            /\ reply'[c].cursor = reply[c].cursor /\ reply'[c].have = reply[c].have
            /\ reply'[c].rows = reply[c].rows
        BY <1>2, <3>1 DEF Reply
      <3>3. Merged(view[c], reply'[c]) = Merged(view[c], reply[c])
        BY <3>2 DEF Merged
      <3> QED
        BY <2>1, <3>2, <3>3 DEF Quiet
    <2> QED
      BY <2>2, <2>3
  <1>8. \/ UNCHANGED <<view, cursor, reply>>
        \/ \E d \in Clients :
              \/ Pull(d) \/ PullKeys(d) \/ RecordClientCursor(d)
              \/ ReceivePage(d) \/ ReceiveKeys(d) \/ ReceiveRefusal(d) \/ LoseReply(d)
    BY DEF Next, vars, deviceVars, BeginPush, PushOne, HoldBack, KeepStored, Apply,
           SetWork, Commit, Rollback, ReapTombstones, RaiseFloor, SweepCut, SetClock
  <1> QED
    BY <1>3, <1>4, <1>5, <1>6, <1>7, <1>8

LEMMA RefusalsStep ==
  ASSUME IInv, [Next]_vars
  PROVE  RefusalsDue'
  <1>1. TypeInv /\ RefusalsDue /\ reply \in [Clients -> Reply]
    BY DEF IInv, FloorInv, TypeInv, TypeOK
  <1>2. floor' >= floor /\ floor' \in Nat /\ floor \in Nat
    <2>1. floor' >= floor /\ TypeInv'
      BY RowsStep, TypeStep DEF IInv, FloorInv
    <2> QED
      BY <2>1 DEF TypeInv, TypeOK, IInv, FloorInv
  <1>3. ASSUME NEW c \in Clients, reply'[c].kind = "refused"
        PROVE  reply[c].kind = "refused" \/ floor > 0
    <2>1. ASSUME NEW d \in Clients, Pull(d)
          PROVE  reply[c].kind = "refused" \/ floor > 0
      <3>1. CASE Refused(cursor[d])
        BY <1>1, <1>2, <3>1, Numbers DEF Refused
      <3>2. CASE ~Refused(cursor[d])
        <4>1. PICK n, page :
                reply' = [reply EXCEPT ![d] = Answer("page", cursor[d], n, page)]
          BY <2>1, <3>2 DEF Pull
        <4> QED
          BY <1>1, <1>3, <4>1 DEF Answer
      <3> QED
        BY <3>1, <3>2
    <2>2. ASSUME NEW d \in Clients, PullKeys(d)
          PROVE  reply[c].kind = "refused"
      <3>1. PICK have : reply' = [reply EXCEPT ![d] =
                                     Answer("keys", cursor[d], HeadSeq, have)]
        BY <2>2 DEF PullKeys
      <3> QED
        BY <1>1, <1>3, <3>1 DEF Answer
    <2>3. ASSUME NEW d \in Clients, RecordClientCursor(d)
          PROVE  reply[c].kind = "refused"
      <3>1. [reply[d] EXCEPT !.recorded = TRUE].kind = reply[d].kind
        BY <1>1 DEF Reply
      <3> QED
        BY <1>1, <1>3, <2>3, <3>1 DEF RecordClientCursor
    <2>4. ASSUME NEW d \in Clients,
                 ReceivePage(d) \/ ReceiveKeys(d) \/ ReceiveRefusal(d) \/ LoseReply(d)
          PROVE  reply[c].kind = "refused"
      BY <1>1, <1>3, <2>4
      DEF ReceivePage, ReceiveKeys, ReceiveRefusal, LoseReply, NoReply
    <2>5. \/ UNCHANGED reply
          \/ \E d \in Clients :
                \/ Pull(d) \/ PullKeys(d) \/ RecordClientCursor(d)
                \/ ReceivePage(d) \/ ReceiveKeys(d) \/ ReceiveRefusal(d) \/ LoseReply(d)
      BY DEF Next, vars, BeginPush, PushOne, HoldBack, KeepStored, Apply, SetWork,
             Commit, Rollback, ReapTombstones, RaiseFloor, SweepCut, SetClock
    <2> QED
      BY <1>3, <2>1, <2>2, <2>3, <2>4, <2>5
  <1> QED
    BY <1>1, <1>2, <1>3 DEF RefusalsDue

LEMMA InvInit == Init => IInv
  <1> SUFFICES ASSUME Init PROVE IInv
    OBVIOUS
  <1>1. TypeInv
    BY TypeInit
  <1>2. db.next = 1 /\ HeadSeq = 0 /\ floor = 0 /\ ~tx.open /\ ~sweep.open
        /\ \A k \in Keys : db.rows[k] = NoRow
    BY DEF Init, EmptyDb, NoTx, NoSweep, HeadSeq, NoRows
  <1>3. SeqInv /\ FloorExact /\ SweepInv
    BY <1>2 DEF SeqInv, Below, FloorExact, SweepInv, NoRow, Tombstone, Exists
  <1>4. \A c \in Clients : /\ cursor[c] = 0 /\ clients[c].cursor = 0
                           /\ reply[c].cursor = 0 /\ reply[c].kind = "none"
                           /\ view[c] = NoRows
    BY DEF Init, NoReply
  <1>5. CursorsBelowHead /\ RepliesComplete /\ RefusalsDue
    BY <1>2, <1>4 DEF CursorsBelowHead, RepliesComplete, RefusalsDue
  <1>6. CursorComplete
    BY <1>2, <1>4, ScopeAssumption DEF CursorComplete, UpToDate, NoRows, NoRow, Exists
  <1> QED
    BY <1>1, <1>3, <1>5, <1>6 DEF IInv, FloorInv

LEMMA InvStep ==
  ASSUME IInv, [Next]_vars
  PROVE  IInv'
  <1>1. FloorInv
    BY DEF IInv
  <1>2. FloorInv'
    BY <1>1, TypeStep, SeqStep, FloorStep, CursorsStep DEF FloorInv
  <1>3. CursorComplete' /\ RepliesComplete'
    BY CompleteStep
    DEF CompleteNext, UpToDateNext, CursorComplete, RepliesComplete, UpToDate,
        Untold, UntoldNext
  <1> QED
    BY <1>2, <1>3, RefusalsStep DEF IInv

LEMMA Inductive == Spec => []IInv
  BY InvInit, InvStep, PTL DEF Spec

\* What the reap floor says was collected is collected, and it never names a seq
\* that was not handed out, wherever sweeps are cut off (reap_tombstones).
THEOREM FloorIsExact == Spec => []FloorExact
  <1>1. IInv => FloorExact
    BY DEF IInv, FloorInv
  <1> QED
    BY Inductive, <1>1, PTL

\* Incremental pulls never leave a hole below a cursor the server accepts, nor a
\* document whose tombstone the device never got but those of the sweeps cut off
\* before they wrote their floor: for any number of devices, keys, page sizes and
\* interleavings with pushes, sweeps, lost answers and clock steps (pull, the 409
\* check, reap_tombstones).
THEOREM CursorIsComplete == Spec => []CursorComplete
  <1>1. IInv => CursorComplete
    BY DEF IInv
  <1> QED
    BY Inductive, <1>1, PTL

\* A committed row is only ever replaced by a newer version under a fresh seq,
\* or collected as a tombstone that every device seen lately is past or that has
\* lived its time, wherever a batch or a sweep is cut off (push_one, reap).
THEOREM RowsMoveUp == Spec => RowsOnlyMoveUp
  <1>1. IInv /\ [Next]_vars =>
          [ /\ db'.next >= db.next /\ floor' >= floor
            /\ \A k \in Keys :
                  LET old == db.rows[k]  new == db'.rows[k] IN
                  new # old =>
                      \/ Exists(new) /\ new.seq >= db.next /\ (Exists(old) => Newer(new, old))
                      \/ ~Exists(new) /\ Tombstone(old) /\ MayGo(old.seq) ]_<<db, floor>>
    BY RowsStep DEF IInv, FloorInv, RowMoves
  <1> QED
    BY Inductive, <1>1, PTL DEF Spec, RowsOnlyMoveUp

-----------------------------------------------------------------------------
(* What a device has come to.                                              *)

\* The document a row holds, if it holds one.
Document(row) == IF Exists(row) /\ ~row.deleted THEN {<<row.hash, row.at>>} ELSE {}

\* A device at the head has the documents of its scope, all of them, and no
\* others but those a sweep cut off has forgotten.
HeadIsWhole ==
    \A c \in Clients :
        cursor[c] = HeadSeq =>
            \A k \in Scope[c] \ orphans : Document(view[c][k]) = Document(db.rows[k])

\* For any devices, scopes and interleavings, a device whose cursor is the head
\* has exactly the server's documents, and so any two such devices agree on what
\* they share, but for the keys whose tombstone went with a sweep that was cut
\* off before it wrote its floor, until they are pushed again (pull,
\* RecordClientCursor and the reaping of tombstones together).
THEOREM AtHeadAllAgree == Spec => []HeadIsWhole
  <1>1. IInv => HeadIsWhole
    <2> SUFFICES ASSUME IInv, NEW c \in Clients, cursor[c] = HeadSeq,
                        NEW k \in Scope[c] \ orphans
                 PROVE  Document(view[c][k]) = Document(db.rows[k])
      BY DEF HeadIsWhole
    <2>1. k \in Keys
      BY ScopeAssumption
    <2>2. UpToDate(c, view[c], cursor[c]) /\ cursor[c] >= floor
      BY Numbers DEF IInv, FloorInv, CursorComplete, FloorExact
    <2>3. CASE Exists(db.rows[k])
      <3>1. db.rows[k].seq <= cursor[c]
        BY <2>1, Numbers DEF IInv, FloorInv, SeqInv, Below
      <3> QED
        BY <2>2, <2>3, <3>1 DEF UpToDate
    <2>4. CASE ~Exists(db.rows[k])
      <3>1. ~Untold(k, cursor[c])
        <4>1. sweep.floor \in Nat /\ (k \in sweep.gone => sweep.open)
          BY DEF IInv, FloorInv, TypeInv, TypeOK, Counting, Sweep, NoSweep
        <4> QED
          BY <4>1, Numbers DEF Untold, IInv, FloorInv, SweepInv
      <3> QED
        BY <2>2, <2>4, <3>1 DEF UpToDate, Document
    <2> QED
      BY <2>3, <2>4
  <1> QED
    BY Inductive, <1>1, PTL

\* A page takes the device on, or there was nothing after its cursor and the
\* cursor it gets is the head of that moment.
PageAdvances(r) ==
    r.kind = "page" => r.since <= r.cursor /\ (r.have # {} => r.since < r.cursor)
PagesAdvance == \A c \in Clients : PageAdvances(reply[c])

LEMMA PullAdvances ==
  ASSUME IInv, NEW c \in Clients, Pull(c)
  PROVE  PageAdvances(reply'[c])
  <1>1. reply \in [Clients -> Reply] /\ cursor[c] \in Nat /\ cursor[c] <= HeadSeq
    BY DEF IInv, FloorInv, TypeInv, TypeOK, CursorsBelowHead
  <1>2. CASE Refused(cursor[c])
    BY <1>1, <1>2 DEF Pull, PageAdvances, NoReply
  <1>3. CASE ~Refused(cursor[c])
    <2>1. PICK page \in SUBSET Candidates(c, cursor[c]), n \in 0..MaxSeq :
             /\ IsPageCursor(n, page)
             /\ reply' = [reply EXCEPT ![c] = Answer("page", cursor[c], n, page)]
      BY <1>3 DEF Pull
    <2>2. /\ reply'[c].since = cursor[c] /\ reply'[c].cursor = n /\ reply'[c].have = page
      BY <1>1, <2>1 DEF Answer
    <2>3. CASE page = {}
      BY <1>1, <2>1, <2>2, <2>3 DEF PageAdvances, IsPageCursor
    <2>4. CASE page # {}
      <3>1. PICK k \in page : n = db.rows[k].seq
        BY <2>1, <2>4 DEF IsPageCursor
      <3>2. n > cursor[c]
        BY <2>1, <3>1 DEF Candidates
      <3> QED
        BY <1>1, <2>1, <2>2, <3>2 DEF PageAdvances
    <2> QED
      BY <2>3, <2>4
  <1> QED
    BY <1>2, <1>3

\* Every page that holds a row moves its device forward, whatever the size of
\* the pages: a device that goes on pulling and is not refused comes nearer to the
\* head with every answer it gets (pull and its cursor).
THEOREM PagesGoForward == Spec => []PagesAdvance
  <1>1. Init => PagesAdvance
    BY DEF Init, PagesAdvance, PageAdvances, NoReply
  <1>2. IInv /\ PagesAdvance /\ [Next]_vars => PagesAdvance'
    <2> SUFFICES ASSUME IInv, PagesAdvance, [Next]_vars, NEW c \in Clients
                 PROVE  PageAdvances(reply'[c])
      BY DEF PagesAdvance, PageAdvances
    <2>1. PageAdvances(reply[c]) /\ reply \in [Clients -> Reply]
      BY DEF PagesAdvance, IInv, FloorInv, TypeInv, TypeOK
    <2>2. CASE UNCHANGED reply
      BY <2>1, <2>2
    <2>3. ASSUME NEW d \in Clients, Pull(d)
          PROVE  PageAdvances(reply'[c])
      <3>1. CASE d = c
        BY <2>3, <3>1, PullAdvances
      <3>2. CASE d # c
        BY <2>1, <2>3, <3>2 DEF Pull
      <3> QED
        BY <3>1, <3>2
    <2>4. ASSUME NEW d \in Clients,
                 \/ PullKeys(d) \/ RecordClientCursor(d)
                 \/ ReceivePage(d) \/ ReceiveKeys(d) \/ ReceiveRefusal(d) \/ LoseReply(d)
          PROVE  PageAdvances(reply'[c])
      <3>1. CASE d = c
        <4>1. \/ reply'[c].kind = "keys"
              \/ reply'[c] = [reply[c] EXCEPT !.recorded = TRUE]
              \/ reply'[c] = NoReply
          <5>1. CASE PullKeys(c)
            <6>1. PICK have : reply' = [reply EXCEPT ![c] =
                                           Answer("keys", cursor[c], HeadSeq, have)]
              BY <5>1 DEF PullKeys
            <6> QED
              BY <2>1, <6>1 DEF Answer
          <5>2. CASE RecordClientCursor(c)
            BY <2>1, <5>2 DEF RecordClientCursor
          <5>3. CASE ReceivePage(c) \/ ReceiveKeys(c) \/ ReceiveRefusal(c) \/ LoseReply(c)
            BY <2>1, <5>3 DEF ReceivePage, ReceiveKeys, ReceiveRefusal, LoseReply
          <5> QED
            BY <2>4, <3>1, <5>1, <5>2, <5>3
        <4> QED
          BY <2>1, <4>1 DEF PageAdvances, NoReply, Reply
      <3>2. CASE d # c
        BY <2>1, <2>4, <3>2 DEF PullKeys, RecordClientCursor, ReceivePage, ReceiveKeys,
           ReceiveRefusal, LoseReply
      <3> QED
        BY <3>1, <3>2
    <2>5. \/ UNCHANGED reply
          \/ \E d \in Clients :
                \/ Pull(d) \/ PullKeys(d) \/ RecordClientCursor(d)
                \/ ReceivePage(d) \/ ReceiveKeys(d) \/ ReceiveRefusal(d) \/ LoseReply(d)
      BY DEF Next, vars, BeginPush, PushOne, HoldBack, KeepStored, Apply, SetWork,
             Commit, Rollback, ReapTombstones, RaiseFloor, SweepCut, SetClock
    <2> QED
      BY <2>2, <2>3, <2>4, <2>5
  <1> QED
    BY Inductive, <1>1, <1>2, PTL DEF Spec

-----------------------------------------------------------------------------
(* Arrival order, when every content of a key has one time.                *)

OneStamp ==
    \A r, s \in Pushes :
        WellFormed(r) /\ WellFormed(s) /\ r.key = s.key /\ r.hash = s.hash
            => r.at = s.at /\ r.deleted = s.deleted

\* A stored row is the version of a pushed record, and the newest one.
Sourced(k, row) ==
    \E r \in Pushes : /\ WellFormed(r) /\ r.key = k
                      /\ row.hash = r.hash /\ row.at = r.at /\ row.deleted = r.deleted

SameVersion(v, w) == v.hash = w.hash /\ v.at = w.at /\ v.deleted = w.deleted

Newest(d) ==
    \A k \in Keys :
        /\ Exists(d.rows[k]) <=> Exists(d.newest[k])
        /\ Exists(d.rows[k]) => SameVersion(d.rows[k], d.newest[k])
                                /\ Sourced(k, d.rows[k])

NewestInv == TypeInv /\ SeqInv /\ Newest(db) /\ (tx.open => Newest(tx.work))

\* A record that does not win is not newer than the newest.
LEMMA KeepNewest ==
  ASSUME OneStamp, NEW d \in Db, Newest(d), NEW r \in Pushes, WellFormed(r),
         Exists(d.rows[r.key]), ~Wins(r, d.rows[r.key])
  PROVE  Newest(Acked(d, r))
  <1> DEFINE row == d.rows[r.key]
  <1>1. r \in PushRecord /\ r.key \in Keys /\ row \in Row /\ d.newest[r.key] \in Row
    BY PushesAssumption DEF PushRecord, Db
  <1>2. Exists(d.newest[r.key]) /\ SameVersion(row, d.newest[r.key]) /\ Sourced(r.key, row)
    BY <1>1 DEF Newest
  <1>3. r.hash = row.hash => r.at = row.at /\ r.deleted = row.deleted
    BY <1>2 DEF Sourced, OneStamp
  <1>4. ~Newer(r, row)
    BY <1>1, <1>3 DEF Wins, Newer, PushRecord, Row
  <1>5. ~Newer(r, d.newest[r.key])
    BY <1>2, <1>4 DEF Newer, SameVersion
  <1>6. Acked(d, r).newest = d.newest /\ Acked(d, r).rows = d.rows
    BY <1>2, <1>5 DEF Acked
  <1> QED
    BY <1>6 DEF Newest

\* A record that is stored is the newest.
LEMMA ApplyNewest ==
  ASSUME NEW d \in Db, Newest(d), d.next >= 1, NEW r \in Pushes, WellFormed(r),
         NEW stamp \in Nat, Exists(d.rows[r.key]) => Wins(r, d.rows[r.key])
  PROVE  Newest(Acked(Store(d, r, stamp), r))
  <1> DEFINE e == Store(d, r, stamp)
             f == Acked(e, r)
  <1>1. r \in PushRecord /\ r.key \in Keys /\ d.rows[r.key] \in Row
        /\ d.newest[r.key] \in Row /\ d.next \in Nat
    BY PushesAssumption DEF PushRecord, Db
  <1>2. /\ e \in Db /\ e.rows = [d.rows EXCEPT ![r.key] = AsRow(r, d.next)]
        /\ e.newest = d.newest
    BY <1>1, StoreType
  <1>3. Exists(d.newest[r.key]) => Newer(r, d.newest[r.key])
    <2>1. SUFFICES ASSUME Exists(d.newest[r.key]) PROVE Newer(r, d.newest[r.key])
      OBVIOUS
    <2>2. Exists(d.rows[r.key]) /\ SameVersion(d.rows[r.key], d.newest[r.key])
      BY <1>1, <2>1 DEF Newest
    <2>3. Newer(r, d.rows[r.key])
      BY <1>1, <2>2, WinsIsNewer DEF PushRecord, Row
    <2> QED
      BY <2>2, <2>3 DEF Newer, SameVersion
  <1> HIDE DEF e
  <1>4. f.rows = e.rows /\ f.newest = [d.newest EXCEPT ![r.key] = AsRow(r, 1)]
    BY <1>2, <1>3 DEF Acked
  <1> HIDE DEF f
  <1>5. /\ AsRow(r, d.next).seq = d.next /\ AsRow(r, 1).seq = 1
        /\ SameVersion(AsRow(r, d.next), AsRow(r, 1)) /\ Sourced(r.key, AsRow(r, d.next))
    BY <1>1, AsRowType DEF SameVersion, Sourced
  <1>6. ASSUME NEW k \in Keys
        PROVE  /\ Exists(f.rows[k]) <=> Exists(f.newest[k])
               /\ Exists(f.rows[k]) => SameVersion(f.rows[k], f.newest[k])
                                       /\ Sourced(k, f.rows[k])
    <2>0. d.rows \in [Keys -> Row] /\ d.newest \in [Keys -> Row]
      BY DEF Db
    <2>1. CASE k = r.key
      <3>1. f.rows[k] = AsRow(r, d.next) /\ f.newest[k] = AsRow(r, 1)
        BY <1>2, <1>4, <2>0, <2>1
      <3> QED
        BY <1>1, <1>5, <2>1, <3>1 DEF Exists
    <2>2. CASE k # r.key
      <3>1. f.rows[k] = d.rows[k] /\ f.newest[k] = d.newest[k]
        BY <1>2, <1>4, <2>0, <2>2
      <3> QED
        BY <3>1 DEF Newest
    <2> QED
      BY <2>1, <2>2
  <1> QED
    BY <1>6 DEF Newest, f, e

LEMMA NewestStep ==
  ASSUME OneStamp, NewestInv, [Next]_vars
  PROVE  Newest(db)' /\ (tx.open => Newest(tx.work))'
  <1>1. db \in Db /\ tx.work \in Db /\ now \in Nat /\ tx.work.next >= 1
    BY DEF NewestInv, TypeInv, TypeOK, Counting
  <1>2. CASE BeginPush
    <2>1. db' = db /\ tx'.work = db
      BY <1>2 DEF BeginPush
    <2> QED
      BY <2>1 DEF NewestInv, Newest
  <1>3. CASE PushOne
    <2> DEFINE r == Head(tx.todo)
    <2>1. r \in Pushes /\ r \in PushRecord /\ tx.open
      BY <1>3, HeadOfTodo DEF NewestInv, TypeInv, PushOne
    <2>2. Newest(tx.work)
      BY <2>1 DEF NewestInv
    <2> HIDE DEF r
    <2>3. CASE HoldBack(r)
      BY <2>2, <2>3 DEF HoldBack, SetWork, NewestInv, Newest
    <2>4. CASE KeepStored(r)
      <3>1. Newest(Acked(tx.work, r))
        BY <1>1, <2>1, <2>2, <2>4, KeepNewest DEF KeepStored
      <3>2. tx'.work = Acked(tx.work, r) /\ db' = db
        BY <2>4 DEF KeepStored, SetWork
      <3> QED
        BY <3>1, <3>2 DEF NewestInv, Newest
    <2>5. CASE Apply(r)
      <3>1. Newest(Acked(Store(tx.work, r, now), r))
        BY <1>1, <2>1, <2>2, <2>5, ApplyNewest DEF Apply
      <3>2. tx'.work = Acked(Store(tx.work, r, now), r) /\ db' = db
        BY <2>5 DEF Apply, SetWork
      <3> QED
        BY <3>1, <3>2 DEF NewestInv, Newest
    <2> QED
      BY <1>3, <2>3, <2>4, <2>5 DEF PushOne, r
  <1>4. CASE Commit
    BY <1>4 DEF Commit, NoTx, NewestInv, Newest
  <1>5. CASE Rollback
    BY <1>5 DEF Rollback, NoTx, NewestInv, Newest
  <1>6. CASE ReapTombstones
    <2>1. ~tx.open /\ tx' = tx
      BY <1>6 DEF ReapTombstones, Free
    <2>2. PICK K : db' = Without(db, K)
      BY <1>6 DEF ReapTombstones
    <2>3. /\ db'.rows = [k \in Keys |-> IF k \in K THEN NoRow ELSE db.rows[k]]
          /\ db'.newest = [k \in Keys |-> IF k \in K THEN NoRow ELSE db.newest[k]]
      BY <2>2 DEF Without
    <2>4. Newest(db)'
      BY <2>3 DEF NewestInv, Newest, NoRow, Exists
    <2> QED
      BY <2>1, <2>4
  <1>7. CASE UNCHANGED <<db, tx>>
    BY <1>7 DEF NewestInv, Newest
  <1> QED
    BY <1>2, <1>3, <1>4, <1>5, <1>6, <1>7
    DEF Next, vars, RaiseFloor, SweepCut, SetClock, Pull, PullKeys,
        RecordClientCursor, ReceivePage, ReceiveKeys, ReceiveRefusal, LoseReply

\* Arrival order does not matter, for any records in any batches, as long as
\* the records give each content of a key a single time (push, wins).
THEOREM ArrivalOrderIrrelevant ==
  ASSUME OneStamp
  PROVE  Spec => []StoredIsNewest
  <1>1. Init => NewestInv
    <2> SUFFICES ASSUME Init PROVE NewestInv
      OBVIOUS
    <2>1. TypeInv /\ SeqInv
      BY InvInit DEF IInv, FloorInv
    <2>2. \A k \in Keys : ~Exists(db.rows[k]) /\ ~Exists(db.newest[k])
      BY DEF Init, EmptyDb, NoRows, NoRow, Exists
    <2>3. ~tx.open
      BY DEF Init, NoTx
    <2> QED
      BY <2>1, <2>2, <2>3 DEF NewestInv, Newest
  <1>2. NewestInv /\ [Next]_vars => NewestInv'
    BY NewestStep, TypeStep, SeqStep DEF NewestInv
  <1>3. NewestInv => StoredIsNewest
    BY DEF NewestInv, Newest, StoredIsNewest, SameVersion
  <1> QED
    BY <1>1, <1>2, <1>3, PTL DEF Spec
=============================================================================

------------------------------ MODULE SyncRecords ------------------------------
(***************************************************************************)
(* The document half of the store behind /extended/v1 (store/records.rs,   *)
(* the pull and push handlers of api/v1.rs): pushes in one SQLite          *)
(* transaction, conflict resolution, the server-assigned seq, paged pulls, *)
(* the per-device cursors and the reaping of tombstones.                   *)
(*                                                                         *)
(* A document is known here by its content hash: `data` is the hash of     *)
(* the bytes pushed, hashes are numbers in the order of their hex text.    *)
(* A key stands for a (namespace, key) pair.  The mutex around the         *)
(* connection makes every operation atomic against the others.  Two have   *)
(* points inside at which they can fail or the process can die: a push,    *)
(* record by record in one transaction (tx), and a sweep, whose DELETE and *)
(* whose new floor are two statements, each committed by itself (sweep).   *)
(***************************************************************************)
EXTENDS Integers, Sequences, FiniteSets

CONSTANTS
    Keys,        \* the (namespace, key) pairs
    Clients,     \* the devices that pull
    Pushes,      \* the push records devices send
    Batches,     \* the batches they send them in
    Scope,       \* Scope[c]: the keys of the namespaces c's pulls name
    PageLimit,   \* `limit` of a pull, clamped to at least 1
    Retention,   \* client_retention_ms
    Ttl,         \* tombstone_ttl_ms
    EmptyHash,   \* hash::EMPTY_HASH, the hash of every tombstone
    NoData,      \* the absent `data` of a tombstone
    MaxSeq,      \* bound: seqs handed out
    MaxNow       \* bound: values of the wall clock

PushRecord == [key: Keys, hash: Nat, at: Int, deleted: BOOLEAN,
               data: Nat \cup {NoData}]

Row == [seq: Nat, hash: Nat, at: Int, deleted: BOOLEAN]

ASSUME KeysAssumption == IsFiniteSet(Keys)
ASSUME PushesAssumption == Pushes \subseteq PushRecord
ASSUME BatchesAssumption == Batches \subseteq Seq(Pushes)
ASSUME ScopeAssumption == Scope \in [Clients -> SUBSET Keys]
ASSUME LimitAssumption == PageLimit \in Nat \ {0}
ASSUME HashAssumption == EmptyHash \in Nat
ASSUME BoundAssumption ==
    /\ MaxSeq \in Nat /\ MaxNow \in Nat
    /\ Retention \in Nat /\ Ttl \in Nat

VARIABLES
    db,        \* what is committed: rows, their server_at, seq_counter.next
    tx,        \* the push transaction in progress, holder of the lock
    sweep,     \* the sweep between its two statements, holder of the lock
    floor,     \* meta.reap_floor
    clients,   \* the clients table
    now,       \* the wall clock, which may be stepped either way
    cursor,    \* cursor[c]: the cursor of the last page device c received
    view,      \* view[c]: the rows device c has received
    reply,     \* reply[c]: the answer to c's pull, in the server or in flight
    orphans    \* history: keys without a row since a sweep collected their
               \* tombstone and did not come to write its floor

vars == <<db, tx, sweep, floor, clients, now, cursor, view, reply, orphans>>
deviceVars == <<cursor, view>>

\* seqs start at 1, so a row with seq 0 is no row.
NoRow == [seq |-> 0, hash |-> EmptyHash, at |-> 0, deleted |-> FALSE]
NoRows == [k \in Keys |-> NoRow]
Exists(row) == row.seq # 0
Tombstone(row) == Exists(row) /\ row.deleted

\* `newest` is a history variable: the newest version of each key that a
\* committed push answered applied, duplicate or superseded since the key
\* last had no row.
Db == [rows: [Keys -> Row], serverAt: [Keys -> Nat], next: Nat,
       newest: [Keys -> Row]]
EmptyDb == [rows |-> NoRows, serverAt |-> [k \in Keys |-> 0], next |-> 1,
            newest |-> NoRows]
NoTx == [open |-> FALSE, todo |-> <<>>, work |-> EmptyDb]

\* `gone`: the keys whose tombstones this sweep has collected.
Sweep == [open: BOOLEAN, floor: Nat, gone: SUBSET Keys]
NoSweep == [open |-> FALSE, floor |-> 0, gone |-> {}]

\* Nobody holds the lock.
Free == ~tx.open /\ ~sweep.open

ReplyKinds == {"none", "page", "keys", "refused"}
Reply == [kind: ReplyKinds, since: Nat, cursor: Nat, have: SUBSET Keys,
          rows: [Keys -> Row], recorded: BOOLEAN]
NoReply == [kind |-> "none", since |-> 0, cursor |-> 0, have |-> {},
            rows |-> NoRows, recorded |-> FALSE]

Init ==
    /\ db = EmptyDb
    /\ tx = NoTx
    /\ sweep = NoSweep
    /\ floor = 0
    /\ clients = [c \in Clients |-> [known |-> FALSE, cursor |-> 0, seen |-> 0]]
    /\ now = 0
    /\ cursor = [c \in Clients |-> 0]
    /\ view = [c \in Clients |-> NoRows]
    /\ reply = [c \in Clients |-> NoReply]
    /\ orphans = {}

-----------------------------------------------------------------------------
(* Conflict resolution.                                                    *)

\* The order the versions of one key are meant to be in: the time first, a
\* delete before a document of the same time, then the hash.
Newer(v, w) ==
    \/ v.at > w.at
    \/ v.at = w.at /\ v.deleted /\ ~w.deleted
    \/ v.at = w.at /\ v.deleted = w.deleted /\ v.hash > w.hash

\* Mutant: the delete no longer breaks the tie.
WinsByHashOnly(v, row) ==
    /\ v.hash # row.hash
    /\ v.at > row.at \/ (v.at = row.at /\ v.hash > row.hash)

\* Mutant: two documents of one millisecond both win.
WinsOnEqualTime(v, row) ==
    v.hash # row.hash /\ v.at >= row.at

\* Does an incoming version replace the stored row?
Wins(v, row) ==
    /\ v.hash # row.hash
    /\ \/ v.at > row.at
       \/ /\ v.at = row.at
          /\ \/ v.deleted /\ ~row.deleted
             \/ v.deleted = row.deleted /\ v.hash > row.hash

\* expected_hash: a live record carries data and its hash, a tombstone no
\* data and the fixed empty hash.
WellFormed(r) ==
    IF r.deleted THEN r.data = NoData /\ r.hash = EmptyHash
                 ELSE r.data # NoData /\ r.hash = r.data

AsRow(r, seq) ==
    [seq |-> seq, hash |-> r.hash, at |-> r.at, deleted |-> r.deleted]

\* A version the server answered for: applied, duplicate or superseded.
Acked(d, r) ==
    [rows |-> d.rows, serverAt |-> d.serverAt, next |-> d.next,
     newest |-> IF Exists(d.newest[r.key]) /\ ~Newer(r, d.newest[r.key])
                THEN d.newest
                ELSE [d.newest EXCEPT ![r.key] = AsRow(r, 1)]]

\* The upsert with the next seq.
Store(d, r, stamp) ==
    [rows |-> [d.rows EXCEPT ![r.key] = AsRow(r, d.next)],
     serverAt |-> [d.serverAt EXCEPT ![r.key] = stamp],
     next |-> d.next + 1,
     newest |-> d.newest]

-----------------------------------------------------------------------------
(* POST push: one transaction for the batch.                               *)

BeginPush ==
    /\ Free
    /\ \E batch \in Batches : tx' = [open |-> TRUE, todo |-> batch, work |-> db]
    /\ UNCHANGED <<db, sweep, floor, clients, now, deviceVars, reply, orphans>>

SetWork(d) ==
    /\ tx' = [open |-> TRUE, todo |-> Tail(tx.todo), work |-> d]
    /\ UNCHANGED <<db, sweep, floor, clients, now, deviceVars, reply, orphans>>

\* Rejected, or (a live record only) missingBlobs: nothing is written.
HoldBack(r) ==
    /\ ~WellFormed(r) \/ ~r.deleted
    /\ SetWork(tx.work)

\* Duplicate and superseded: nothing is written either.
KeepStored(r) ==
    /\ WellFormed(r)
    /\ Exists(tx.work.rows[r.key])
    /\ ~Wins(r, tx.work.rows[r.key])
    /\ SetWork(Acked(tx.work, r))

Apply(r) ==
    /\ WellFormed(r)
    /\ Exists(tx.work.rows[r.key]) => Wins(r, tx.work.rows[r.key])
    /\ tx.work.next <= MaxSeq
    /\ SetWork(Acked(Store(tx.work, r, now), r))

PushOne ==
    /\ tx.open /\ tx.todo # <<>>
    /\ LET r == Head(tx.todo) IN HoldBack(r) \/ KeepStored(r) \/ Apply(r)

Commit ==
    /\ tx.open /\ tx.todo = <<>>
    /\ db' = tx.work
    /\ tx' = NoTx
    /\ orphans' = {k \in orphans : ~Exists(tx.work.rows[k])}
    /\ UNCHANGED <<sweep, floor, clients, now, deviceVars, reply>>

\* A statement fails, or the process dies: SQLite rolls the batch back.
Rollback ==
    /\ tx.open
    /\ tx' = NoTx
    /\ UNCHANGED <<db, sweep, floor, clients, now, deviceVars, reply, orphans>>

-----------------------------------------------------------------------------
(* POST pull.  The answer is computed under the lock, the device's cursor  *)
(* is recorded under a second one, then the answer travels.                *)

\* Mutant: off by one.
HeadSeqOffByOne == db.next - 2

HeadSeq == db.next - 1

Candidates(c, since) == {k \in Scope[c] : db.rows[k].seq > since}

\* ORDER BY seq LIMIT: the PageLimit candidates of the smallest seqs.
IsPage(page, all) ==
    /\ \A k \in page, j \in all : db.rows[j].seq <= db.rows[k].seq => j \in page
    /\ Cardinality(page) = IF Cardinality(all) <= PageLimit
                           THEN Cardinality(all) ELSE PageLimit

\* Mutant: the head as the cursor of a page that was cut.
IsPageCursorHead(n, page) == n = HeadSeq

\* The page's largest seq, the head when it is empty.
IsPageCursor(n, page) ==
    IF page = {} THEN n = HeadSeq
    ELSE /\ \E k \in page : n = db.rows[k].seq
         /\ \A k \in page : db.rows[k].seq <= n

\* 409 cursorBelowReapFloor.
Refused(since) == since > 0 /\ since < floor

Answer(kind, since, n, have) ==
    [kind |-> kind, since |-> since, cursor |-> n, have |-> have,
     rows |-> [k \in Keys |-> IF k \in have THEN db.rows[k] ELSE NoRow],
     recorded |-> FALSE]

Pull(c) ==
    /\ Free
    /\ reply[c].kind = "none"
    /\ IF Refused(cursor[c])
       THEN reply' = [reply EXCEPT ![c] = [NoReply EXCEPT !.kind = "refused"]]
       ELSE \E page \in SUBSET Candidates(c, cursor[c]), n \in 0..MaxSeq :
               /\ IsPage(page, Candidates(c, cursor[c]))
               /\ IsPageCursor(n, page)
               /\ reply' = [reply EXCEPT ![c] = Answer("page", cursor[c], n, page)]
    /\ UNCHANGED <<db, tx, sweep, floor, clients, now, deviceVars, orphans>>

\* A pull by keys ignores since and answers head as its cursor; the refusal
\* still looks at since.
PullKeys(c) ==
    /\ Free
    /\ reply[c].kind = "none"
    /\ ~Refused(cursor[c])
    /\ \E wanted \in SUBSET Keys :
          LET found == {k \in wanted : Exists(db.rows[k])} IN
          /\ wanted # {}
          /\ reply' = [reply EXCEPT ![c] =
                          Answer("keys", cursor[c], HeadSeq, found)]
    /\ UNCHANGED <<db, tx, sweep, floor, clients, now, deviceVars, orphans>>

\* The handler goes on without it when the request names no client or the
\* write fails, so nothing waits for this step.
RecordClientCursor(c) ==
    /\ Free
    /\ reply[c].kind \in {"page", "keys"}
    /\ ~reply[c].recorded
    /\ clients' = [clients EXCEPT ![c] =
                      [known |-> TRUE, cursor |-> reply[c].cursor, seen |-> now]]
    /\ reply' = [reply EXCEPT ![c].recorded = TRUE]
    /\ UNCHANGED <<db, tx, sweep, floor, now, deviceVars, orphans>>

-----------------------------------------------------------------------------
(* The device, as the protocol asks of it: it keeps the cursor it was      *)
(* answered, starts again from 0 when it is refused, and takes the pages   *)
(* from 0 on as a reconcile that replaces what it had.                     *)

\* What the device holds once it has taken in an answer.
Merged(old, r) ==
    [k \in Keys |-> IF k \in r.have THEN r.rows[k]
                    ELSE IF r.kind = "page" /\ r.since = 0 THEN NoRow
                    ELSE old[k]]

ReceivePage(c) ==
    /\ reply[c].kind = "page"
    /\ view' = [view EXCEPT ![c] = Merged(@, reply[c])]
    /\ cursor' = [cursor EXCEPT ![c] = reply[c].cursor]
    /\ reply' = [reply EXCEPT ![c] = NoReply]
    /\ UNCHANGED <<db, tx, sweep, floor, clients, now, orphans>>

ReceiveKeys(c) ==
    /\ reply[c].kind = "keys"
    /\ view' = [view EXCEPT ![c] = Merged(@, reply[c])]
    /\ reply' = [reply EXCEPT ![c] = NoReply]
    /\ UNCHANGED <<db, tx, sweep, floor, clients, now, cursor, orphans>>

ReceiveRefusal(c) ==
    /\ reply[c].kind = "refused"
    /\ cursor' = [cursor EXCEPT ![c] = 0]
    /\ reply' = [reply EXCEPT ![c] = NoReply]
    /\ UNCHANGED <<db, tx, sweep, floor, clients, now, view, orphans>>

LoseReply(c) ==
    /\ reply[c].kind # "none"
    /\ reply' = [reply EXCEPT ![c] = NoReply]
    /\ UNCHANGED <<db, tx, sweep, floor, clients, now, deviceVars, orphans>>

-----------------------------------------------------------------------------
(* Maintenance, and the clock.                                             *)

Active == {c \in Clients : clients[c].known /\ clients[c].seen >= now - Retention}

\* MIN(last_cursor) over the devices seen recently, 0 when there is none.
IsClientFloor(n) ==
    IF Active = {} THEN n = 0
    ELSE /\ \E c \in Active : n = clients[c].cursor
         /\ \A c \in Active : n <= clients[c].cursor

Expired == {k \in Keys : Tombstone(db.rows[k]) /\ db.serverAt[k] < now - Ttl}

\* MAX(seq) over the tombstones older than the ttl, 0 when there is none.
IsTtlFloor(n) ==
    IF Expired = {} THEN n = 0
    ELSE /\ \E k \in Expired : n = db.rows[k].seq
         /\ \A k \in Expired : db.rows[k].seq <= n

Largest(a, b) == IF a >= b THEN a ELSE b

NewFloor(clientFloor, ttlFloor) == Largest(floor, Largest(clientFloor, ttlFloor))

\* Mutant: the tombstone at the floor stays.
ReapedBelow(f) == {k \in Keys : Tombstone(db.rows[k]) /\ db.rows[k].seq < f}

\* DELETE ... WHERE deleted = 1 AND seq <= floor.
Reaped(f) == {k \in Keys : Tombstone(db.rows[k]) /\ db.rows[k].seq <= f}

\* The database once the rows of the keys K are deleted.
Without(d, K) ==
    LET Cleared(old) == [k \in Keys |-> IF k \in K THEN NoRow ELSE old[k]] IN
    [rows |-> Cleared(d.rows),
     serverAt |-> [k \in Keys |-> IF k \in K THEN 0 ELSE d.serverAt[k]],
     next |-> d.next,
     newest |-> Cleared(d.newest)]

\* The DELETE of a sweep, the floor not yet written.
ReapTombstones ==
    /\ Free
    /\ \E clientFloor, ttlFloor \in 0..MaxSeq :
          LET f == NewFloor(clientFloor, ttlFloor) IN
          /\ IsClientFloor(clientFloor)
          /\ IsTtlFloor(ttlFloor)
          /\ db' = Without(db, Reaped(f))
          /\ sweep' = [open |-> TRUE, floor |-> f, gone |-> Reaped(f)]
    /\ UNCHANGED <<tx, floor, clients, now, deviceVars, reply, orphans>>

RaiseFloor ==
    /\ sweep.open
    /\ floor' = sweep.floor
    /\ sweep' = NoSweep
    /\ UNCHANGED <<db, tx, clients, now, deviceVars, reply, orphans>>

\* The process dies between the two, or the second fails: the tombstones are
\* gone, and the floor of before stands.
SweepCut ==
    /\ sweep.open
    /\ orphans' = orphans \cup sweep.gone
    /\ sweep' = NoSweep
    /\ UNCHANGED <<db, tx, floor, clients, now, deviceVars, reply>>

SetClock ==
    /\ now' \in 0..MaxNow
    /\ UNCHANGED <<db, tx, sweep, floor, clients, deviceVars, reply, orphans>>

Next ==
    \/ BeginPush \/ PushOne \/ Commit \/ Rollback
    \/ ReapTombstones \/ RaiseFloor \/ SweepCut \/ SetClock
    \/ \E c \in Clients :
          \/ Pull(c) \/ PullKeys(c) \/ RecordClientCursor(c)
          \/ ReceivePage(c) \/ ReceiveKeys(c) \/ ReceiveRefusal(c) \/ LoseReply(c)

Spec == Init /\ [][Next]_vars

\* External: a device pulls again and again, and its answers do not get lost
\* for ever.  Whoever holds the lock comes to let go of it.
Fairness ==
    /\ WF_vars(PushOne \/ Commit \/ Rollback) /\ WF_vars(RaiseFloor \/ SweepCut)
    /\ \A c \in Clients :
          /\ SF_vars(Pull(c)) /\ SF_vars(ReceivePage(c))
          /\ SF_vars(ReceiveKeys(c)) /\ SF_vars(ReceiveRefusal(c))

FairSpec == Spec /\ Fairness

-----------------------------------------------------------------------------
(* Properties.                                                             *)

\* Types of the variables; in particular the seqs, cursors and floors the
\* code computes by subtraction never become negative.
TypeOK ==
    /\ db \in Db
    /\ tx \in [open: BOOLEAN, todo: Seq(Pushes), work: Db]
    /\ sweep \in Sweep
    /\ floor \in Nat
    /\ clients \in [Clients -> [known: BOOLEAN, cursor: Nat, seen: Nat]]
    /\ now \in 0..MaxNow
    /\ cursor \in [Clients -> Nat]
    /\ view \in [Clients -> [Keys -> Row]]
    /\ reply \in [Clients -> Reply]
    /\ orphans \subseteq Keys

\* The floor is a seq already handed out, and no tombstone at or below it is
\* left: what the floor says was collected is collected.  The converse is not
\* so: the floor passes seqs at which there was no tombstone, and tombstones
\* above it may be gone (`orphans`).
FloorExact ==
    /\ floor <= HeadSeq
    /\ \A k \in Keys : Tombstone(db.rows[k]) => db.rows[k].seq > floor

\* The tombstone of k is collected, and the floor does not tell a device at n:
\* not yet, or never.
Untold(k, n) == k \in orphans \/ (k \in sweep.gone /\ n < sweep.floor)

\* A device holding rows `v` at cursor `n` that the server still accepts has
\* missed nothing up to n: it holds every stored row up to n as stored, and
\* no document the server has forgotten, but those of a sweep cut off.
UpToDate(c, v, n) ==
    n >= floor =>
        \A k \in Scope[c] :
            /\ Exists(db.rows[k]) /\ db.rows[k].seq <= n => v[k] = db.rows[k]
            /\ ~Exists(db.rows[k]) => ~Exists(v[k]) \/ v[k].deleted \/ Untold(k, n)

\* Incremental pulls are complete: paging, concurrent pushes, answers that
\* are lost, pulls by keys and reaping never leave a device that the 409
\* check lets through with a hole below its cursor, nor with a document whose
\* tombstone it never got unless the sweep that collected it was cut off
\* before it wrote its floor (pull in records.rs, the check in v1.rs).
CursorComplete == \A c \in Clients : UpToDate(c, view[c], cursor[c])

\* Why a tombstone may go: the floor is past it, or every device seen lately
\* is, or a tombstone of its age or younger has lived its time.
MayGo(seq) ==
    \/ seq <= floor
    \/ Active # {} /\ \A c \in Active : seq <= clients[c].cursor
    \/ \E k \in Expired : seq <= db.rows[k].seq

\* What a step may do to a committed row: replace it by a newer version under
\* a seq never used, or collect it as a tombstone that may go.  In particular
\* a key's stored version never goes back (the ping-pong the comment in `wins`
\* fears), whatever a batch holds and wherever one is rolled back.
RowsOnlyMoveUp ==
    [][ /\ db'.next >= db.next /\ floor' >= floor
        /\ \A k \in Keys :
              LET old == db.rows[k]  new == db'.rows[k] IN
              new # old =>
                  \/ Exists(new) /\ new.seq >= db.next /\ (Exists(old) => Newer(new, old))
                  \/ ~Exists(new) /\ Tombstone(old) /\ MayGo(old.seq) ]_<<db, floor>>

\* Arrival order does not matter: of all the versions of a key the server
\* has answered for since the key last had no row, it stores the content of
\* the newest.  It holds as long as a content is not pushed under two times.
StoredIsNewest ==
    \A k \in Keys :
        /\ Exists(db.rows[k]) <=> Exists(db.newest[k])
        /\ Exists(db.rows[k]) => db.rows[k].hash = db.newest[k].hash

\* A device that goes on pulling, and starts again from 0 when it is refused,
\* comes again and again to a cursor the server accepts (the comment of the 409
\* check in v1.rs: it "must fall back to a full metaOnly reconcile").  It does
\* not hold: the cursor of a page from 0 is the seq of its last row, and when
\* no row of the page is above the floor the next pull is refused in turn.
Reconciles == \A c \in Clients : []<>(cursor[c] >= floor)

\* CursorComplete without its exception.  It does not hold: a sweep cut off
\* between its statements leaves the old floor, and a device between the two
\* keeps the document.
NothingForgotten ==
    ~sweep.open =>
        \A c \in Clients : cursor[c] >= floor =>
            \A k \in Scope[c] :
                ~Exists(db.rows[k]) => ~Exists(view[c][k]) \/ view[c][k].deleted
=============================================================================

------------------------------- MODULE BlobStore -------------------------------
(***************************************************************************)
(* The blob half of the store (store/blobs.rs): bytes in files named after *)
(* their hash, a row per blob in SQLite, and the references documents make *)
(* to them.  Only single SQL statements and transactions hold the lock: an *)
(* upload and a sweep are several steps, and uploads, pushes and the one   *)
(* sweep of the maintenance task interleave.                               *)
(*                                                                         *)
(* A blob is its hash: uploads whose bytes do not have the claimed hash    *)
(* are refused before anything is written and are left out, and a file     *)
(* that has been renamed into place always holds the right bytes.          *)
(***************************************************************************)
EXTENDS Integers, FiniteSets

CONSTANTS
    Hashes,      \* content hashes
    Docs,        \* documents, each a (namespace, key) pair
    Uploads,     \* the PUT requests that may run at a time
    NoHash,      \* the hash of no upload
    Grace,       \* BLOB_GC_GRACE_MS
    MaxNow       \* bound: values of the wall clock

ASSUME HashAssumption == NoHash \notin Hashes
ASSUME GraceAssumption == Grace \in Nat /\ MaxNow \in Nat

VARIABLES
    files,       \* hashes with a file at their final path
    rows,        \* hashes with a row in `blobs`
    createdAt,   \* createdAt[h]: created_at of the row, 0 when there is none
    refs,        \* refs[d]: hashes document d refers to in record_blobs
    put,         \* put[u]: how far upload u has got
    sweep,       \* the sweep in progress
    now,         \* the wall clock, which may be stepped either way
    uploadedAt,  \* history, uploadedAt[h]: time of the last upload of the
                 \* blob answered with success since it last had no row
    struck       \* history: hashes whose file the sweep removed while it had
                 \* a row again, or an upload of it was past its rename

vars == <<files, rows, createdAt, refs, put, sweep, now, uploadedAt, struck>>
history == <<uploadedAt, struck>>
database == <<rows, createdAt, refs>>

NoPut == [step |-> "idle", hash |-> NoHash, at |-> 0]
Put == [step: {"written", "renamed"}, hash: Hashes, at: Nat] \cup {NoPut}
Sweep == [step: {"idle", "begun", "selected", "deleted"}, at: Nat, todo: SUBSET Hashes]
NoSweep == [step |-> "idle", at |-> 0, todo |-> {}]

Referenced(h) == \E d \in Docs : h \in refs[d]

Init ==
    /\ files = {} /\ rows = {}
    /\ createdAt = [h \in Hashes |-> 0]
    /\ refs = [d \in Docs |-> {}]
    /\ put = [u \in Uploads |-> NoPut]
    /\ sweep = NoSweep
    /\ now = 0
    /\ uploadedAt = [h \in Hashes |-> 0]
    /\ struck = {}

-----------------------------------------------------------------------------
(* PUT blob/{hash}: write a temporary file, rename it, record it.          *)

\* The request's time is taken before the work is queued.
PutWrite(u) ==
    /\ put[u].step = "idle"
    /\ \E h \in Hashes :
          put' = [put EXCEPT ![u] = [step |-> "written", hash |-> h, at |-> now]]
    /\ UNCHANGED <<files, database, sweep, now, history>>

\* Mutant: the result of the rename is not looked at.
RenameUnchecked(u) ==
    /\ put[u].step = "written"
    /\ files' \in {files, files \cup {put[u].hash}}
    /\ struck' = struck \ {put[u].hash}
    /\ put' = [put EXCEPT ![u].step = "renamed"]
    /\ UNCHANGED <<database, sweep, now, uploadedAt>>

PutRename(u) ==
    /\ put[u].step = "written"
    /\ files' = files \cup {put[u].hash}
    /\ struck' = struck \ {put[u].hash}
    /\ put' = [put EXCEPT ![u].step = "renamed"]
    /\ UNCHANGED <<database, sweep, now, uploadedAt>>

\* Mutant: the upsert refreshes the time of a row that is there.
RefreshedAt(p) == [createdAt EXCEPT ![p.hash] = p.at]

\* Mutant: the time recorded has the grace period taken off already.
BackdatedAt(p) ==
    IF p.hash \in rows THEN createdAt ELSE [createdAt EXCEPT ![p.hash] = p.at - Grace]

\* INSERT OR IGNORE: a row that is there keeps its time.
CreatedAt(p) ==
    IF p.hash \in rows THEN createdAt ELSE [createdAt EXCEPT ![p.hash] = p.at]

PutInsert(u) ==
    /\ put[u].step = "renamed"
    /\ rows' = rows \cup {put[u].hash}
    /\ createdAt' = CreatedAt(put[u])
    /\ uploadedAt' = [uploadedAt EXCEPT ![put[u].hash] = put[u].at]
    /\ put' = [put EXCEPT ![u] = NoPut]
    /\ UNCHANGED <<files, refs, sweep, now, struck>>

\* An I/O or SQL error ends the upload where it is.
PutFail(u) ==
    /\ put[u].step # "idle"
    /\ put' = [put EXCEPT ![u] = NoPut]
    /\ UNCHANGED <<files, database, sweep, now, history>>

-----------------------------------------------------------------------------
(* A push that is applied: the references of the document are replaced.    *)
(* One with a missing blob, or that loses, leaves everything as it is.     *)

HasBlobs(blobHashes) == blobHashes \subseteq rows

Push(d) ==
    /\ \E blobHashes \in SUBSET Hashes :
          /\ HasBlobs(blobHashes)
          /\ refs' = [refs EXCEPT ![d] = blobHashes]
    /\ UNCHANGED <<files, rows, createdAt, put, sweep, now, history>>

-----------------------------------------------------------------------------
(* The sweep: select, delete rows, remove files, in three separate steps.  *)

\* The maintenance task reads the clock, reaps tombstones, then sweeps.
BeginSweep ==
    /\ sweep.step = "idle"
    /\ sweep' = [step |-> "begun", at |-> now, todo |-> {}]
    /\ UNCHANGED <<files, database, put, now, history>>

Candidates == {h \in rows : createdAt[h] < sweep.at - Grace /\ ~Referenced(h)}

SelectCandidates ==
    /\ sweep.step = "begun"
    /\ sweep' = IF Candidates = {} THEN NoSweep
                ELSE [step |-> "selected", at |-> sweep.at, todo |-> Candidates]
    /\ UNCHANGED <<files, database, put, now, history>>

\* Mutant: no foreign key (PRAGMA foreign_keys off).
NothingViolated(todo) == TRUE

\* The foreign key of record_blobs: a row referred to cannot be deleted.
DeleteAllowed(todo) == \A h \in todo : ~Referenced(h)

\* DELETE ... WHERE hash IN (todo): all of it or, on an error, none.
DeleteRows ==
    /\ sweep.step = "selected"
    /\ DeleteAllowed(sweep.todo)
    /\ rows' = rows \ sweep.todo
    /\ createdAt' = [h \in Hashes |-> IF h \in sweep.todo THEN 0 ELSE createdAt[h]]
    /\ uploadedAt' = [h \in Hashes |-> IF h \in sweep.todo THEN 0 ELSE uploadedAt[h]]
    /\ sweep' = [sweep EXCEPT !.step = "deleted"]
    /\ UNCHANGED <<files, refs, put, now, struck>>

\* A statement fails, the DELETE on the foreign key for one; the task goes
\* back to sleep.
SweepFails ==
    /\ sweep.step \in {"begun", "selected"}
    /\ sweep' = NoSweep
    /\ UNCHANGED <<files, database, put, now, history>>

\* The blobs with a row, and those an upload is about to give one.
InUse == rows \cup {put[u].hash : u \in {v \in Uploads : put[v].step = "renamed"}}

\* Removing a file, without the lock; a failure is ignored.
RemoveFile(h) ==
    /\ sweep.step = "deleted" /\ h \in sweep.todo
    /\ \/ /\ files' = files \ {h}
          /\ struck' = struck \cup ({h} \cap InUse)
       \/ UNCHANGED <<files, struck>>
    /\ sweep' = IF sweep.todo = {h} THEN NoSweep
                ELSE [sweep EXCEPT !.todo = @ \ {h}]
    /\ UNCHANGED <<database, put, now, uploadedAt>>

-----------------------------------------------------------------------------

\* The process dies and starts again: files and committed rows remain.
Restart ==
    /\ put' = [u \in Uploads |-> NoPut]
    /\ sweep' = NoSweep
    /\ UNCHANGED <<files, database, now, history>>

SetClock ==
    /\ now' \in 0..MaxNow
    /\ UNCHANGED <<files, database, put, sweep, history>>

Next ==
    \/ \E u \in Uploads : PutWrite(u) \/ PutRename(u) \/ PutInsert(u) \/ PutFail(u)
    \/ \E d \in Docs : Push(d)
    \/ BeginSweep \/ SelectCandidates \/ DeleteRows \/ SweepFails
    \/ \E h \in Hashes : RemoveFile(h)
    \/ Restart \/ SetClock

Spec == Init /\ [][Next]_vars

-----------------------------------------------------------------------------
(* Properties.                                                             *)

TypeOK ==
    /\ files \subseteq Hashes /\ rows \subseteq Hashes
    /\ createdAt \in [Hashes -> Nat] /\ uploadedAt \in [Hashes -> Nat]
    /\ refs \in [Docs -> SUBSET Hashes]
    /\ put \in [Uploads -> Put]
    /\ sweep \in Sweep
    /\ struck \subseteq Hashes
    /\ now \in 0..MaxNow

\* A document never refers to a blob the store has forgotten, though a push
\* may add the reference between the sweep's SELECT and its DELETE, when the
\* lock is free (push_one's missing check, gc_blobs).
RefsHaveRows == \A d \in Docs : refs[d] \subseteq rows

\* The sweep only deletes rows whose time was already past the grace period
\* when it read the clock, whatever uploads do between SELECT and DELETE
\* (BLOB_GC_GRACE_MS, gc_blobs, the INSERT OR IGNORE of put_blob).
YoungRowsStay ==
    [][ \A h \in rows \ rows' : createdAt[h] < sweep.at - Grace ]_vars

\* The one way a row comes to be without its file is the sweep removing the
\* file after an upload put it back: no other order of uploads, failures,
\* pushes and restarts does it, and the next upload mends it (the write,
\* rename, insert order of put_blob, the row-first order of gc_blobs).
PhantomsAreStruck == rows \ files \subseteq struck

\* A row is never without its file, "a phantom 'already have it' answer"
\* (the comment of gc_blobs).
NoPhantom == rows \subseteq files

\* A blob uploaded within the grace period is not swept before the push that
\* refers to it (the comment of BLOB_GC_GRACE_MS).
FreshUploadsStay ==
    [][ \A h \in rows \ rows' : uploadedAt[h] < sweep.at - Grace ]_vars
=============================================================================

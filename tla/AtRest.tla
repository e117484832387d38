-------------------------------- MODULE AtRest --------------------------------
(***************************************************************************)
(* What amallo keeps on disk under its storage key, and how a start brings *)
(* it into a state to serve from: secrets.json (secrets.rs), the document  *)
(* store and its blobs (Store::open), and the collection files of the      *)
(* legacy sync store with their key check (sync.rs).                       *)
(*                                                                         *)
(* The process may die between any two effects on the disk, and file       *)
(* operations may fail.  What a rename or a transaction does is one        *)
(* effect, a file that is written in place is torn until all is written.   *)
(* Power loss and reads that fail are left out, and the store id.  One row *)
(* and one blob stand for all, rows being sealed in one transaction and    *)
(* blobs one by one; a collection is the version of one of its records.    *)
(***************************************************************************)
EXTENDS Integers

CONSTANTS
    Collections,    \* the collection files of the legacy store
    MaxKeys,        \* bound: storage keys ever generated
    MaxVersion,     \* bound: versions of a record
    MaxFailures     \* bound: crashes, failed operations and changes by the user

ASSUME BoundAssumption ==
    /\ MaxKeys \in Nat \ {0} /\ MaxVersion \in Nat \ {0} /\ MaxFailures \in Nat

Keys == 1..MaxKeys
NoKey == 0
Versions == 1..MaxVersion

VARIABLES
    secrets,    \* secrets.json: its state and the storage key in it
    pending,    \* the storage key of the secrets file being written, if any
    db,         \* the database: key check, a row, plaintext in freed pages
    blob,       \* a blob file
    aside,      \* plaintext in the directories moved aside (store-unreadable-*)
    coll,       \* the collection files
    check,      \* the key check file of the legacy store
    pc,         \* how far the start has got
    key,        \* the storage key in memory
    verdict,    \* what the key check said
    todo,       \* collections this start has still to look at
    tmp,        \* exchanges that have written their file and not renamed it
    keys,       \* the number of keys generated
    failures,   \* crashes and failures so far
    acked,      \* history: the version answered for, unless moved aside since
    failed,     \* history: collections that could not be sealed or moved
    excused     \* history: "check" if the key check file was left wrong, and
                \* what a start has left as plaintext: a row, a blob, pages

disk == <<secrets, db, blob, aside, coll, check>>
start == <<pc, key, verdict, todo>>
history == <<acked, failed, excused>>
vars == <<disk, pending, start, tmp, keys, failures, history>>

\* A file, or a row.  Only what this key sealed opens with it.
Files == [form: {"none", "plain", "sealed", "torn"}, key: {NoKey} \cup Keys,
          version: {0} \cup Versions]
Absent == [form |-> "none", key |-> NoKey, version |-> 0]
Torn == [form |-> "torn", key |-> NoKey, version |-> 0]
Plain(v) == [form |-> "plain", key |-> NoKey, version |-> v]
Seal(k, v) == [form |-> "sealed", key |-> k, version |-> v]
Opens(k, f) == f.form = "sealed" /\ f.key = k
EmptyDb == [check |-> NoKey, row |-> Absent, freed |-> FALSE]
StoreParts == {"row", "blob", "pages"}

\* A fresh installation, or one from before encryption at rest, whose database
\* may hold the plaintext of rows since updated or deleted in freed pages.
Init ==
    /\ secrets \in [file: {"absent", "whole"}, key: {NoKey}]
    /\ db \in [check: {NoKey}, row: {Absent, Plain(1)}, freed: BOOLEAN]
    /\ blob \in {Absent, Plain(1)}
    /\ aside = {}
    /\ coll \in [Collections -> {Absent, Plain(1)}]
    /\ check = Absent
    /\ pending = {} /\ pc = "off" /\ key = NoKey /\ verdict = "missing" /\ todo = {}
    /\ tmp = [c \in Collections |-> 0]
    /\ keys = 0 /\ failures = 0
    /\ acked = [c \in Collections |-> 0]
    /\ failed = {}
    /\ excused = IF db.freed /\ db.row.form # "plain" THEN {"pages"} ELSE {}

At(step) == pc = step /\ pending = {}

\* Something goes wrong, within the bound.
Fails == failures < MaxFailures /\ failures' = failures + 1

-----------------------------------------------------------------------------
(* Secrets.                                                                *)

\* write_private truncates, then writes.
WriteSecrets(k) == secrets' = [file |-> "torn", key |-> NoKey] /\ pending' = {k}

SecretsWritten ==
    /\ pending # {}
    /\ \E k \in pending : secrets' = [file |-> "whole", key |-> k]
    /\ pending' = {}
    /\ pc' = IF pc = "token" THEN "storage" ELSE pc
    /\ UNCHANGED <<db, blob, aside, coll, check, key, verdict, todo, tmp, keys,
                   failures, history>>

\* A secrets file that does not parse ends the start.
GetBearerToken ==
    /\ At("off") /\ secrets.file # "torn"
    /\ IF secrets.file = "absent"
       THEN WriteSecrets(NoKey) /\ pc' = "token"
       ELSE pc' = "storage" /\ UNCHANGED <<secrets, pending>>
    /\ UNCHANGED <<db, blob, aside, coll, check, key, verdict, todo, tmp, keys,
                   failures, history>>

\* Mutant: the key is used whether it is there or not.
GetStorageKeyAnyway ==
    /\ At("storage")
    /\ key' = secrets.key /\ pc' = "open"
    /\ UNCHANGED <<disk, pending, verdict, todo, tmp, keys, failures, history>>

GetStorageKey ==
    /\ At("storage")
    /\ IF secrets.key # NoKey
       THEN key' = secrets.key /\ pc' = "open" /\ UNCHANGED <<secrets, pending, keys>>
       ELSE /\ keys < MaxKeys
            /\ keys' = keys + 1 /\ WriteSecrets(keys + 1)
            /\ UNCHANGED <<key, pc>>
    /\ UNCHANGED <<db, blob, aside, coll, check, verdict, todo, tmp, failures,
                   history>>

\* A write that fails leaves the file torn; during a start it ends the start,
\* which is a Crash.
SecretsFail ==
    /\ pc = "up" /\ pending # {} /\ Fails
    /\ pending' = {}
    /\ UNCHANGED <<disk, start, tmp, keys, history>>

\* A token, pairing or API key is regenerated, or made when first needed.
RewriteSecrets ==
    /\ At("up") /\ secrets.file = "whole"
    /\ WriteSecrets(secrets.key)
    /\ UNCHANGED <<db, blob, aside, coll, check, start, tmp, keys, failures,
                   history>>

-----------------------------------------------------------------------------
(* Opening the document store.                                             *)

\* Mutant: whatever check is there is taken for this key's.
CheckKeyTrusts ==
    /\ At("open")
    /\ db' = [db EXCEPT !.check = key]
    /\ pc' = "rows"
    /\ UNCHANGED <<secrets, blob, aside, coll, check, pending, key, verdict,
                   todo, tmp, keys, failures, history>>

\* No check yet: this is the key from now on.
CheckKey ==
    /\ At("open") /\ db.check \in {NoKey, key}
    /\ db' = [db EXCEPT !.check = key]
    /\ pc' = "rows"
    /\ UNCHANGED <<secrets, blob, aside, coll, check, pending, key, verdict,
                   todo, tmp, keys, failures, history>>

\* Mutant: a store of another key is left where it is.
MoveStoreAsideNever == FALSE /\ UNCHANGED vars

\* The plaintext in the store's directory.
PlainParts ==
    {part \in StoreParts : \/ part = "row" /\ db.row.form = "plain"
                           \/ part = "blob" /\ blob.form = "plain"
                           \/ part = "pages" /\ db.freed}

\* Another key's: the directory is renamed, with all that lies in it, and the
\* store opened again.
MoveStoreAside ==
    /\ At("open") /\ db.check \notin {NoKey, key}
    /\ db' = EmptyDb /\ blob' = Absent
    /\ aside' = aside \cup PlainParts
    /\ UNCHANGED <<secrets, coll, check, pending, start, tmp, keys, failures, history>>

\* Mutant: the blobs are passed over once the rows are sealed.
SealRowsOnly ==
    /\ At("rows")
    /\ IF db.row.form = "plain"
       THEN /\ db' = [db EXCEPT !.row = Seal(key, db.row.version), !.freed = TRUE]
            /\ pc' = "vacuum"
       ELSE pc' = "check" /\ UNCHANGED db
    /\ UNCHANGED <<secrets, blob, aside, coll, check, pending, key, verdict,
                   todo, tmp, keys, failures, history>>

SealRows ==
    /\ At("rows")
    /\ IF db.row.form = "plain"
       THEN /\ db' = [db EXCEPT !.row = Seal(key, db.row.version), !.freed = TRUE]
            /\ pc' = "vacuum"
       ELSE pc' = "blobs" /\ UNCHANGED db
    /\ UNCHANGED <<secrets, blob, aside, coll, check, pending, key, verdict,
                   todo, tmp, keys, failures, history>>

Vacuum ==
    /\ At("vacuum")
    /\ db' = [db EXCEPT !.freed = FALSE]
    /\ pc' = "blobs"
    /\ UNCHANGED <<secrets, blob, aside, coll, check, pending, key, verdict,
                   todo, tmp, keys, failures, history>>

SealBlobs ==
    /\ At("blobs")
    /\ blob' = IF blob.form = "plain" THEN Seal(key, blob.version) ELSE blob
    /\ pc' = "check"
    /\ UNCHANGED <<secrets, db, aside, coll, check, pending, key, verdict, todo,
                   tmp, keys, failures, history>>

-----------------------------------------------------------------------------
(* Opening the legacy store.                                               *)

ReadKeyCheck ==
    /\ At("check")
    /\ verdict' = IF check.form = "none" THEN "missing"
                  ELSE IF Opens(key, check) THEN "matches" ELSE "mismatch"
    /\ todo' = Collections
    /\ pc' = "collections"
    /\ UNCHANGED <<disk, pending, key, tmp, keys, failures, history>>

\* Mutant: without a matching key check nothing is readable.
ReadableIfMatches(c) == verdict = "matches"

\* Whether a sealed collection is taken to be readable.
Readable(c) ==
    \/ verdict = "matches"
    \/ verdict = "missing" /\ Opens(key, coll[c])

\* The order of the collections does not matter.
LookAt(c) == At("collections") /\ c \in todo /\ todo' = todo \ {c}

SealCollection(c) ==
    /\ LookAt(c)
    /\ coll[c].form = "plain"
    /\ coll' = [coll EXCEPT ![c] = Seal(key, coll[c].version)]
    /\ excused' = IF verdict = "mismatch" THEN excused \cup {"check"} ELSE excused
    /\ UNCHANGED <<secrets, db, blob, aside, check, pending, pc, key, verdict,
                   tmp, keys, failures, acked, failed>>

LeaveCollection(c) ==
    /\ LookAt(c)
    /\ coll[c].form = "none" \/ (coll[c].form = "sealed" /\ Readable(c))
    /\ UNCHANGED <<disk, pending, pc, key, verdict, tmp, keys, failures, history>>

MoveAside(c) ==
    /\ LookAt(c)
    /\ coll[c].form = "sealed" /\ ~Readable(c)
    /\ coll' = [coll EXCEPT ![c] = Absent]
    /\ acked' = [acked EXCEPT ![c] = 0]
    /\ UNCHANGED <<secrets, db, blob, aside, check, pending, pc, key, verdict,
                   tmp, keys, failures, failed, excused>>

\* Sealing or moving a file fails, and the start goes on.
CollectionFails(c) ==
    /\ LookAt(c) /\ Fails
    /\ coll[c].form = "plain" \/ (coll[c].form = "sealed" /\ ~Readable(c))
    /\ failed' = failed \cup {c}
    /\ UNCHANGED <<disk, pending, pc, key, verdict, tmp, keys, acked, excused>>

\* The check file is written in place, unless it is there already.
WriteKeyCheck ==
    /\ At("collections") /\ todo = {}
    /\ IF verdict = "matches"
       THEN pc' = "up" /\ UNCHANGED <<check, excused>>
       ELSE /\ check' = Torn /\ excused' = excused \cup {"check"}
            /\ pc' = "checking"
    /\ UNCHANGED <<secrets, db, blob, aside, coll, pending, key, verdict, todo,
                   tmp, keys, failures, acked, failed>>

KeyCheckWritten ==
    /\ At("checking")
    /\ check' = Seal(key, 0) /\ excused' = excused \ {"check"}
    /\ pc' = "up"
    /\ UNCHANGED <<secrets, db, blob, aside, coll, pending, key, verdict, todo,
                   tmp, keys, failures, acked, failed>>

\* It cannot be written, or not to its end, and the start goes on.
KeyCheckFails ==
    /\ Fails
    /\ \/ At("collections") /\ todo = {} /\ verdict # "matches"
       \/ At("checking")
    /\ excused' = excused \cup {"check"}
    /\ pc' = "up"
    /\ UNCHANGED <<disk, pending, key, verdict, todo, tmp, keys, acked, failed>>

-----------------------------------------------------------------------------
(* Serving.                                                                *)

\* Rows and blobs that are written are sealed.
Push ==
    /\ pc = "up"
    /\ db' = [db EXCEPT !.row = Seal(key, 1)]
    /\ UNCHANGED <<secrets, blob, aside, coll, check, pending, start, tmp, keys,
                   failures, history>>

PutBlob ==
    /\ pc = "up"
    /\ blob' = Seal(key, 1)
    /\ UNCHANGED <<secrets, db, aside, coll, check, pending, start, tmp, keys,
                   failures, history>>

\* An exchange holds the lock: what it loads is what it replaces.
Idle == \A c \in Collections : tmp[c] = 0
Loads(c) == coll[c].form # "sealed" \/ Opens(key, coll[c])

\* Mutant: the collection is written in place.
StoreMapInPlace(c, v) ==
    /\ tmp' = [tmp EXCEPT ![c] = v]
    /\ coll' = [coll EXCEPT ![c] = Torn]

StoreMap(c, v) ==
    /\ tmp' = [tmp EXCEPT ![c] = v]
    /\ UNCHANGED coll

ExchangeStores(c) ==
    /\ pc = "up" /\ Idle /\ Loads(c)
    /\ \E v \in Versions : v > coll[c].version /\ StoreMap(c, v)
    /\ UNCHANGED <<secrets, db, blob, aside, check, pending, start, keys,
                   failures, history>>

Answer(c) ==
    /\ pc = "up" /\ tmp[c] # 0
    /\ coll' = [coll EXCEPT ![c] = Seal(key, tmp[c])]
    /\ tmp' = [tmp EXCEPT ![c] = 0]
    /\ acked' = [acked EXCEPT ![c] = tmp[c]]
    /\ failed' = failed \ {c}
    /\ UNCHANGED <<secrets, db, blob, aside, check, pending, start, keys,
                   failures, excused>>

StoreFails(c) ==
    /\ pc = "up" /\ tmp[c] # 0 /\ Fails
    /\ tmp' = [tmp EXCEPT ![c] = 0]
    /\ UNCHANGED <<disk, pending, start, keys, history>>

-----------------------------------------------------------------------------
(* Crashes, and what the user does about them.                             *)

\* The process dies, or the start fails, or the user quits.
Crash ==
    /\ pc # "off" /\ Fails
    /\ pc' = "off" /\ pending' = {} /\ key' = NoKey /\ todo' = {} /\ verdict' = "missing"
    /\ tmp' = [c \in Collections |-> 0]
    /\ excused' = IF pc \in {"rows", "vacuum", "blobs"} THEN excused \cup PlainParts
                                                     ELSE excused
    /\ UNCHANGED <<disk, keys, acked, failed>>

\* External: the user deletes secrets.json, or puts an old one back.
ReplaceSecrets ==
    /\ pc = "off" /\ Fails
    /\ \/ secrets' = [file |-> "absent", key |-> NoKey]
       \/ \E k \in 1..keys : secrets' = [file |-> "whole", key |-> k]
    /\ UNCHANGED <<db, blob, aside, coll, check, pending, start, tmp, keys,
                   history>>

-----------------------------------------------------------------------------

Startup ==
    \/ SecretsWritten \/ GetBearerToken \/ GetStorageKey
    \/ CheckKey \/ MoveStoreAside \/ SealRows \/ Vacuum \/ SealBlobs
    \/ ReadKeyCheck \/ WriteKeyCheck \/ KeyCheckWritten
    \/ \E c \in Collections : SealCollection(c) \/ LeaveCollection(c) \/ MoveAside(c)

Serve ==
    \/ RewriteSecrets \/ Push \/ PutBlob
    \/ \E c \in Collections : ExchangeStores(c) \/ Answer(c)

Next ==
    \/ Startup \/ Serve
    \/ KeyCheckFails \/ SecretsFail
    \/ \E c \in Collections : CollectionFails(c) \/ StoreFails(c)
    \/ Crash \/ ReplaceSecrets

Spec == Init /\ [][Next]_vars

\* The app is started again, and a start goes on.
FairSpec == Spec /\ WF_vars(Startup)

-----------------------------------------------------------------------------
(* Properties.                                                             *)

TypeOK ==
    /\ secrets \in [file: {"absent", "torn", "whole"}, key: {NoKey} \cup Keys]
    /\ pending \subseteq {NoKey} \cup Keys
    /\ db \in [check: {NoKey} \cup Keys, row: Files, freed: BOOLEAN]
    /\ blob \in Files /\ coll \in [Collections -> Files] /\ check \in Files
    /\ aside \subseteq StoreParts
    /\ pc \in {"off", "token", "storage", "open", "rows", "vacuum", "blobs", "check",
               "collections", "checking", "up"}
    /\ key \in {NoKey} \cup Keys /\ verdict \in {"missing", "matches", "mismatch"}
    /\ todo \subseteq Collections /\ tmp \in [Collections -> {0} \cup Versions]
    /\ keys \in {NoKey} \cup Keys /\ failures \in 0..MaxFailures
    /\ acked \in [Collections -> {0} \cup Versions]
    /\ failed \subseteq Collections /\ excused \subseteq {"check"} \cup StoreParts
    /\ pc \notin {"off", "token", "storage"} => key # NoKey

\* What is served from opens with the key in memory: rows, blobs, and the
\* collections but those a failed rename left in place, however often the
\* secrets were lost or put back and wherever earlier starts were cut off.
ServedReadable ==
    pc = "up" =>
        /\ db.row.form = "sealed" => Opens(key, db.row)
        /\ blob.form = "sealed" => Opens(key, blob)
        /\ "check" \notin excused =>
              \A c \in Collections \ failed : coll[c].form = "sealed" => Opens(key, coll[c])

\* A start that comes through leaves no row, blob or collection as plaintext, but
\* collections that could not be sealed.  Freed pages and the stores moved aside
\* hold plaintext only where a start was cut off while it sealed the store, and
\* what it had not come to; and the freed pages of a database from before
\* encryption without a plaintext row (seal_legacy_plaintext, seal_legacy_blobs).
NoPlaintext ==
    pc = "up" =>
        /\ db.row.form # "plain" /\ blob.form # "plain"
        /\ \A c \in Collections \ failed : coll[c].form # "plain"
        /\ PlainParts \cup aside \subseteq excused

\* The goal of the module comment of at_rest.rs, "that nothing a client syncs
\* sits on disk as plaintext", for the document store.  It does not hold: a
\* start cut off once the key check is written, with the secrets lost then, moves
\* rows and blobs aside in plaintext for good, as "unrecoverable"; and only a
\* database with a plaintext row gets its VACUUM.
NothingPlainOnDisk == pc = "up" => PlainParts \cup aside = {}

\* What the key opens is never moved aside (the comments of seal_existing and
\* of Store::open), unless the key check file was left torn or unwritten.
OnlyForeignMoved ==
    [][ /\ Opens(key, db.row) => db'.row # Absent
        /\ Opens(key, blob) => blob' # Absent
        /\ "check" \notin excused =>
              \A c \in Collections \ failed : Opens(key, coll[c]) => coll'[c] # Absent ]_vars

\* What there is of a collection: its version, and nothing to rely on while it
\* is torn.
Version(c) == IF coll[c].form = "torn" THEN -1 ELSE coll[c].version

File == INSTANCE CollectionFile WITH
    kept <- [c \in Collections |-> Version(c)],
    answered <- acked

\* Exchanges are all or nothing, wherever the process dies or an operation
\* fails: a collection is whole, changes only to what is answered for, and is
\* lost, if it is, as a whole (sync.rs:184, "Atomic write").
ImplementsCollections == File!Spec

\* A start that was cut off anywhere is made good by the next, as long as the
\* secrets can be read (and the bound leaves a key).
Recovers == []<>(pc = "up" \/ secrets.file = "torn" \/ (pc = "storage" /\ keys = MaxKeys))
=============================================================================

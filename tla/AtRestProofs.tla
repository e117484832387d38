---------------------------- MODULE AtRestProofs ----------------------------
(***************************************************************************)
(* Proofs of the safety properties of AtRest and of LegacySync, for any    *)
(* collections, clients and bounds.                                        *)
(***************************************************************************)
EXTENDS AtRest, LegacySync, TLAPS

-----------------------------------------------------------------------------
(* The invariant.                                                          *)

\* Rows and blobs are sealed under the key the check in the database is for.
StoreKeyed ==
    /\ db.row.form = "sealed" => db.check # NoKey /\ db.row.key = db.check
    /\ blob.form = "sealed" => db.check # NoKey /\ blob.key = db.check

\* Past its check, the key in memory is the database's.
Opened ==
    pc \in {"rows", "vacuum", "blobs", "check", "collections", "checking", "up"} =>
        db.check = key

\* What the start has sealed so far.
StoreSealed ==
    /\ pc \in {"vacuum", "blobs", "check", "collections", "checking", "up"} =>
          db.row.form # "plain"
    /\ pc \in {"check", "collections", "checking", "up"} => blob.form # "plain"
    /\ db.freed /\ db.row.form # "plain" => pc = "vacuum" \/ "pages" \in excused

\* A database with a key has plaintext only while it is sealed, or where a start
\* was cut off then; nothing else is moved aside with plaintext in it.
PlainExcused ==
    /\ db.check # NoKey /\ pc \notin {"rows", "vacuum", "blobs"} => PlainParts \subseteq excused
    /\ aside \subseteq excused

\* What the key check file says while it can be relied on.
CheckSpeaks ==
    "check" \notin excused =>
        /\ check.form \in {"none", "sealed"}
        /\ check.form = "sealed" =>
              \A c \in Collections \ failed : coll[c].form = "sealed" => coll[c].key = check.key
        /\ pc = "up" => Opens(key, check)

\* The verdict is that of the file, until the file is written.
VerdictOfCheck ==
    /\ pc = "collections" =>
          /\ verdict = "missing" <=> check.form = "none"
          /\ verdict = "matches" <=> Opens(key, check)
    /\ pc = "checking" => verdict # "matches"
    /\ pc \in {"checking", "up"} => todo = {}

\* Collections the start has dealt with.  Without a check to rely on, they
\* open if the check did not match: then each was tried or moved.
DealtWith ==
    pc \in {"collections", "checking", "up"} =>
        \A c \in Collections \ (todo \cup failed) :
            /\ coll[c].form # "plain"
            /\ coll[c].form = "sealed" =>
                  \/ Opens(key, coll[c])
                  \/ "check" \in excused /\ (pc = "up" \/ verdict = "matches")

Kept ==
    /\ StoreKeyed /\ Opened /\ StoreSealed /\ PlainExcused
    /\ CheckSpeaks /\ VerdictOfCheck /\ DealtWith
IInv == TypeOK /\ Kept

-----------------------------------------------------------------------------
(* Types.                                                                  *)

LEMMA KeyTypes == NoKey \notin Keys /\ Keys \subseteq Nat
  BY BoundAssumption DEF NoKey, Keys

LEMMA FileTypes ==
  /\ Absent \in Files /\ Torn \in Files
  /\ \A v \in {0} \cup Versions : Plain(v) \in Files
  /\ \A k \in {NoKey} \cup Keys, v \in {0} \cup Versions : Seal(k, v) \in Files
  BY DEF Files, Absent, Torn, Plain, Seal

LEMMA InitType == Init => TypeOK
  <1> SUFFICES ASSUME Init PROVE TypeOK
    OBVIOUS
  <1>1. 1 \in Versions
    BY BoundAssumption DEF Versions
  <1>2. Absent \in Files /\ Plain(1) \in Files
    BY <1>1, FileTypes
  <1>3. db \in [check: {NoKey} \cup Keys, row: Files, freed: BOOLEAN]
    BY <1>2 DEF Init
  <1>4. failures \in 0..MaxFailures
    BY BoundAssumption DEF Init
  <1>5. coll \in [Collections -> Files]
    BY <1>2 DEF Init
  <1> QED
    BY <1>2, <1>3, <1>4, <1>5 DEF Init, TypeOK, StoreParts, NoKey

LEMMA StartType ==
  ASSUME TypeOK,
         SecretsWritten \/ SecretsFail \/ GetBearerToken \/ GetStorageKey \/ RewriteSecrets
  PROVE  TypeOK'
  <1> USE DEF TypeOK, disk, start, history, At, WriteSecrets
  <1>1. CASE SecretsWritten
    BY <1>1 DEF SecretsWritten
  <1>2. CASE SecretsFail
    <2>1. failures' \in 0..MaxFailures
      BY <1>2, BoundAssumption DEF SecretsFail, Fails
    <2> QED
      BY <1>2, <2>1 DEF SecretsFail
  <1>3. CASE GetBearerToken
    BY <1>3 DEF GetBearerToken
  <1>4. CASE GetStorageKey
    <2>1. keys < MaxKeys => keys + 1 \in Keys
      BY KeyTypes, BoundAssumption DEF Keys, NoKey
    <2> QED
      BY <1>4, <2>1 DEF GetStorageKey
  <1>5. CASE RewriteSecrets
    BY <1>5 DEF RewriteSecrets
  <1> QED
    BY <1>1, <1>2, <1>3, <1>4, <1>5

LEMMA OpenType ==
  ASSUME TypeOK,
         CheckKey \/ MoveStoreAside \/ SealRows \/ Vacuum \/ SealBlobs \/ Push \/ PutBlob
  PROVE  TypeOK'
  <1> USE DEF TypeOK, disk, start, history, At
  <1>0. /\ EmptyDb \in [check: {NoKey} \cup Keys, row: Files, freed: BOOLEAN]
        /\ Absent \in Files
    BY FileTypes DEF EmptyDb
  <1>1. \A v \in {0} \cup Versions : Seal(key, v) \in Files
    BY FileTypes
  <1>2. db.row.version \in {0} \cup Versions /\ blob.version \in {0} \cup Versions
    BY DEF Files
  <1>3. 1 \in Versions
    BY BoundAssumption DEF Versions
  <1>4. CASE CheckKey \/ Vacuum
    BY <1>4 DEF CheckKey, Vacuum
  <1>5. CASE MoveStoreAside
    BY <1>5, <1>0 DEF MoveStoreAside, PlainParts
  <1>6. CASE SealRows
    BY <1>6, <1>1, <1>2 DEF SealRows
  <1>7. CASE SealBlobs
    BY <1>7, <1>1, <1>2 DEF SealBlobs
  <1>8. CASE Push \/ PutBlob
    BY <1>8, <1>1, <1>3 DEF Push, PutBlob
  <1> QED
    BY <1>4, <1>5, <1>6, <1>7, <1>8

LEMMA SyncType ==
  ASSUME TypeOK,
         \/ ReadKeyCheck \/ WriteKeyCheck \/ KeyCheckWritten \/ KeyCheckFails
         \/ \E c \in Collections :
               \/ SealCollection(c) \/ LeaveCollection(c) \/ MoveAside(c)
               \/ CollectionFails(c) \/ ExchangeStores(c) \/ Answer(c) \/ StoreFails(c)
  PROVE  TypeOK'
  <1> USE DEF TypeOK, disk, start, history, At, LookAt
  <1>0. Absent \in Files /\ Torn \in Files /\ \A v \in {0} \cup Versions : Seal(key, v) \in Files
    BY FileTypes
  <1>1. failures < MaxFailures => failures + 1 \in 0..MaxFailures
    BY BoundAssumption
  <1>2. \A c \in Collections : coll[c].version \in {0} \cup Versions
    BY DEF Files
  <1>3. CASE ReadKeyCheck
    BY <1>3 DEF ReadKeyCheck
  <1>4. CASE WriteKeyCheck \/ KeyCheckWritten
    BY <1>4, <1>0 DEF WriteKeyCheck, KeyCheckWritten
  <1>5. CASE KeyCheckFails
    BY <1>5, <1>1 DEF KeyCheckFails, Fails
  <1>6. ASSUME NEW c \in Collections,
               \/ SealCollection(c) \/ LeaveCollection(c) \/ MoveAside(c)
               \/ CollectionFails(c) \/ ExchangeStores(c) \/ Answer(c) \/ StoreFails(c)
        PROVE  TypeOK'
    <2>1. CASE SealCollection(c)
      BY <2>1, <1>0, <1>2 DEF SealCollection
    <2>2. CASE LeaveCollection(c)
      BY <2>2 DEF LeaveCollection
    <2>3. CASE MoveAside(c)
      BY <2>3, <1>0 DEF MoveAside
    <2>4. CASE CollectionFails(c)
      BY <2>4, <1>1 DEF CollectionFails, Fails
    <2>5. CASE ExchangeStores(c)
      BY <2>5 DEF ExchangeStores, StoreMap
    <2>6. CASE Answer(c)
      BY <2>6, <1>0 DEF Answer
    <2>7. CASE StoreFails(c)
      BY <2>7, <1>1 DEF StoreFails, Fails
    <2> QED
      BY <1>6, <2>1, <2>2, <2>3, <2>4, <2>5, <2>6, <2>7
  <1> QED
    BY <1>3, <1>4, <1>5, <1>6

LEMMA TypeStep == TypeOK /\ [Next]_vars => TypeOK'
  <1> SUFFICES ASSUME TypeOK, [Next]_vars PROVE TypeOK'
    OBVIOUS
  <1>1. CASE Crash
    <2>1. failures' \in 0..MaxFailures
      BY <1>1, BoundAssumption DEF TypeOK, Crash, Fails
    <2> QED
      BY <1>1, <2>1 DEF TypeOK, Crash, PlainParts, disk
  <1>2. CASE ReplaceSecrets
    <2>1. failures' \in 0..MaxFailures
      BY <1>2, BoundAssumption DEF TypeOK, ReplaceSecrets, Fails
    <2>2. 1..keys \subseteq Keys
      BY KeyTypes, BoundAssumption DEF TypeOK, Keys, NoKey
    <2> QED
      BY <1>2, <2>1, <2>2 DEF TypeOK, ReplaceSecrets, start, history
  <1>3. CASE UNCHANGED vars
    BY <1>3 DEF TypeOK, vars, disk, start, history
  <1> QED
    BY <1>1, <1>2, <1>3, StartType, OpenType, SyncType DEF Next, Startup, Serve

\* What is on disk and in memory has the types the model gives it, and a start
\* past the secrets has a key.
THEOREM TypeCorrect == Spec => []TypeOK
  BY InitType, TypeStep, PTL DEF Spec
-----------------------------------------------------------------------------
(* The invariant holds.                                                    *)

LEMMA InitKept == Init => Kept
  <1> SUFFICES ASSUME Init PROVE Kept
    OBVIOUS
  <1>1. db.check = NoKey /\ db.row.form # "sealed" /\ blob.form # "sealed"
    BY DEF Init, Absent, Plain
  <1> QED
    BY <1>1 DEF Init, Kept, StoreKeyed, Opened, StoreSealed, PlainExcused, CheckSpeaks,
            VerdictOfCheck, DealtWith, Absent, Plain

\* Steps of the secrets and of the outside leave the stores as they are.
LEMMA SecretsKept ==
  ASSUME TypeOK, Kept,
         \/ SecretsWritten \/ SecretsFail \/ GetBearerToken \/ GetStorageKey
         \/ RewriteSecrets \/ Crash \/ ReplaceSecrets
  PROVE  Kept'
  <1> USE DEF Kept, At, start, disk, history
  <1>1. UNCHANGED <<db, blob, aside, coll, check, failed>>
    BY DEF SecretsWritten, SecretsFail, GetBearerToken, GetStorageKey, RewriteSecrets, Crash,
           ReplaceSecrets
  <1>2. CASE SecretsFail \/ RewriteSecrets \/ ReplaceSecrets
    <2>1. UNCHANGED <<pc, key, verdict, todo, excused>>
      BY <1>2 DEF SecretsFail, RewriteSecrets, ReplaceSecrets
    <2> QED
      BY <1>1, <2>1 DEF StoreKeyed, Opened, StoreSealed, PlainExcused, PlainParts,
                        CheckSpeaks, VerdictOfCheck, DealtWith, Opens
  <1>3. CASE SecretsWritten \/ GetBearerToken \/ GetStorageKey
    <2>1. /\ UNCHANGED <<verdict, todo, excused>>
          /\ \/ UNCHANGED <<pc, key>>
             \/ pc \in {"off", "token", "storage"} /\ pc' \in {"token", "storage"}
             \/ pc = "storage" /\ pc' = "open"
      BY <1>3 DEF SecretsWritten, GetBearerToken, GetStorageKey
    <2> QED
      BY <1>1, <2>1 DEF StoreKeyed, Opened, StoreSealed, PlainExcused, PlainParts,
                        CheckSpeaks, VerdictOfCheck, DealtWith, Opens
  <1>4. CASE Crash
    <2>1. /\ pc' = "off"
          /\ excused' = IF pc \in {"rows", "vacuum", "blobs"} THEN excused \cup PlainParts
                                                              ELSE excused
      BY <1>4 DEF Crash
    <2>2. StoreKeyed' /\ Opened' /\ VerdictOfCheck' /\ DealtWith'
      BY <1>1, <2>1 DEF StoreKeyed, Opened, VerdictOfCheck, DealtWith
    <2>3. CheckSpeaks'
      BY <1>1, <2>1 DEF CheckSpeaks, PlainParts, StoreParts
    <2>4. PlainParts' = PlainParts /\ excused \subseteq excused'
      BY <1>1, <2>1 DEF PlainParts
    <2>5. StoreSealed' /\ PlainExcused'
      BY <1>1, <2>1, <2>4 DEF StoreSealed, PlainExcused, PlainParts, StoreParts
    <2> QED
      BY <2>2, <2>3, <2>5
  <1> QED
    BY <1>2, <1>3, <1>4

LEMMA StoreKept ==
  ASSUME TypeOK, Kept,
         CheckKey \/ MoveStoreAside \/ SealRows \/ Vacuum \/ SealBlobs \/ Push \/ PutBlob
  PROVE  Kept'
  <1> USE DEF Kept, At, start, disk, history
  <1>0. /\ UNCHANGED <<coll, check, failed, key, verdict, todo, excused>>
        /\ \/ pc = "up" /\ pc' = "up"
           \/ pc' \notin {"collections", "checking", "up"}
    BY DEF CheckKey, MoveStoreAside, SealRows, Vacuum, SealBlobs, Push, PutBlob
  <1>1. CheckSpeaks' /\ VerdictOfCheck' /\ DealtWith'
    BY <1>0 DEF CheckSpeaks, VerdictOfCheck, DealtWith, Opens
  <1>2. pc \notin {"off", "token", "storage"} => key # NoKey
    BY DEF TypeOK
  <1>4. PlainExcused'
    <2>0. db \in [check: {NoKey} \cup Keys, row: Files, freed: BOOLEAN]
      BY DEF TypeOK
    <2>1. CASE CheckKey
      BY <2>1 DEF CheckKey, PlainExcused
    <2>2. CASE MoveStoreAside
      <3>1. PlainParts \subseteq excused /\ aside' = aside \cup PlainParts
            /\ db'.check = NoKey
        BY <2>2 DEF MoveStoreAside, PlainExcused, EmptyDb
      <3> QED
        BY <1>0, <3>1 DEF PlainExcused
    <2>3. CASE SealRows
      <3>1. aside' = aside /\ pc' \in {"rows", "vacuum", "blobs"}
        BY <2>3 DEF SealRows
      <3> QED
        BY <1>0, <3>1 DEF PlainExcused
    <2>4. CASE Vacuum
      BY <1>0, <2>4 DEF Vacuum, PlainExcused
    <2>5. CASE SealBlobs
      <3>1. /\ aside' = aside /\ db' = db /\ blob'.form # "plain" /\ db.row.form # "plain"
            /\ db.freed => "pages" \in excused
        BY <2>5 DEF SealBlobs, StoreSealed, Seal
      <3>2. PlainParts' \subseteq {"pages"} /\ (PlainParts' # {} => db.freed)
        BY <3>1 DEF PlainParts, StoreParts
      <3> QED
        BY <1>0, <3>1, <3>2 DEF PlainExcused
    <2>6. CASE Push \/ PutBlob
      <3>1. /\ aside' = aside /\ db'.freed = db.freed
            /\ db.check # NoKey /\ pc = "up"
            /\ db'.row.form = db.row.form \/ db'.row.form = "sealed"
            /\ blob'.form = blob.form \/ blob'.form = "sealed"
        BY <1>2, <2>0, <2>6 DEF Push, PutBlob, Opened, Seal
      <3>2. PlainParts' \subseteq PlainParts /\ PlainParts \subseteq excused
        BY <3>1 DEF PlainParts, PlainExcused
      <3> QED
        BY <1>0, <3>1, <3>2 DEF PlainExcused
    <2> QED
      BY <2>1, <2>2, <2>3, <2>4, <2>5, <2>6
  <1>3. StoreKeyed' /\ Opened' /\ StoreSealed'
    <2> USE <1>0, <1>2 DEF StoreKeyed, Opened, StoreSealed
    <2>0. db \in [check: {NoKey} \cup Keys, row: Files, freed: BOOLEAN]
      BY DEF TypeOK
    <2>1. CASE CheckKey
      BY <2>0, <2>1 DEF CheckKey
    <2>2. CASE MoveStoreAside
      BY <2>2 DEF MoveStoreAside, EmptyDb, Absent
    <2>3. CASE SealRows
      <3>1. CASE db.row.form = "plain"
        <4>1. /\ db'.row = Seal(key, db.row.version) /\ db'.check = db.check
              /\ pc' = "vacuum" /\ blob' = blob
          BY <2>0, <2>3, <3>1 DEF SealRows
        <4> QED
          BY <4>1, <2>3 DEF SealRows, Seal
      <3>2. CASE db.row.form # "plain"
        BY <2>3, <3>2 DEF SealRows
      <3> QED
        BY <3>1, <3>2
    <2>4. CASE Vacuum
      BY <2>0, <2>4 DEF Vacuum
    <2>5. CASE SealBlobs
      BY <2>5 DEF SealBlobs, Seal
    <2>6. CASE Push
      BY <2>0, <2>6 DEF Push, Seal
    <2>7. CASE PutBlob
      BY <2>7 DEF PutBlob, Seal
    <2> QED
      BY <2>1, <2>2, <2>3, <2>4, <2>5, <2>6, <2>7
  <1> QED
    BY <1>1, <1>3, <1>4

LEMMA SyncKept ==
  ASSUME TypeOK, Kept,
         \/ ReadKeyCheck \/ WriteKeyCheck \/ KeyCheckWritten \/ KeyCheckFails
         \/ \E c \in Collections :
               \/ SealCollection(c) \/ LeaveCollection(c) \/ MoveAside(c)
               \/ CollectionFails(c) \/ ExchangeStores(c) \/ Answer(c) \/ StoreFails(c)
  PROVE  Kept'
  <1> USE DEF Kept, At, start, disk, history, LookAt
  <1>1. StoreKeyed' /\ Opened' /\ StoreSealed' /\ PlainExcused'
    <2>1. /\ UNCHANGED <<db, blob, aside, key>>
          /\ excused \ {"check"} \subseteq excused'
          /\ \/ pc' = pc
             \/ /\ pc \in {"check", "collections", "checking"}
                /\ pc' \in {"collections", "checking", "up"}
      BY DEF ReadKeyCheck, WriteKeyCheck, KeyCheckWritten, KeyCheckFails, SealCollection,
             LeaveCollection, MoveAside, CollectionFails, ExchangeStores, Answer, StoreFails
    <2> QED
      BY <2>1 DEF StoreKeyed, Opened, StoreSealed, PlainExcused, PlainParts, StoreParts, TypeOK
  <1>2. CheckSpeaks' /\ VerdictOfCheck' /\ DealtWith'
    <2>1. CASE ReadKeyCheck
      BY <2>1 DEF ReadKeyCheck, CheckSpeaks, VerdictOfCheck, DealtWith, Opens
    <2>2. CASE WriteKeyCheck
      BY <2>2 DEF WriteKeyCheck, CheckSpeaks, VerdictOfCheck, DealtWith, Opens
    <2>3. CASE KeyCheckWritten
      BY <2>3 DEF KeyCheckWritten, CheckSpeaks, VerdictOfCheck, DealtWith, Opens, Seal
    <2>4. CASE KeyCheckFails
      BY <2>4 DEF KeyCheckFails, CheckSpeaks, VerdictOfCheck, DealtWith, Opens
    <2>5. ASSUME NEW c \in Collections,
                 LeaveCollection(c) \/ CollectionFails(c)
          PROVE  CheckSpeaks' /\ VerdictOfCheck' /\ DealtWith'
      BY <2>5 DEF LeaveCollection, CollectionFails, CheckSpeaks, VerdictOfCheck, DealtWith, Opens,
                  Readable
    <2>6. ASSUME NEW c \in Collections,
                 SealCollection(c) \/ MoveAside(c)
          PROVE  CheckSpeaks' /\ VerdictOfCheck' /\ DealtWith'
      <3>1. \A d \in Collections :
               d # c => coll'[d] = coll[d]
        BY <2>6 DEF SealCollection, MoveAside, TypeOK
      <3>2. coll'[c].form \in {"sealed", "none"} /\ (coll'[c].form = "sealed" => coll'[c].key = key)
        BY <2>6 DEF SealCollection, MoveAside, TypeOK, Seal, Absent
      <3>3. /\ UNCHANGED <<check, pc, key, verdict, failed>>
            /\ pc = "collections" /\ todo' = todo \ {c}
            /\ excused \subseteq excused'
            /\ coll'[c].form = "sealed" /\ verdict = "mismatch" => "check" \in excused'
            /\ excused' \subseteq excused \cup {"check"}
        BY <2>6 DEF SealCollection, MoveAside, Absent, TypeOK
      <3> QED
        BY <3>1, <3>2, <3>3 DEF CheckSpeaks, VerdictOfCheck, DealtWith, Opens, TypeOK
    <2>7. ASSUME NEW c \in Collections,
                 ExchangeStores(c) \/ StoreFails(c)
          PROVE  CheckSpeaks' /\ VerdictOfCheck' /\ DealtWith'
      BY <2>7 DEF ExchangeStores, StoreFails, StoreMap, CheckSpeaks, VerdictOfCheck, DealtWith, Opens
    <2>8. ASSUME NEW c \in Collections, Answer(c)
          PROVE  CheckSpeaks' /\ VerdictOfCheck' /\ DealtWith'
      <3>1. \A d \in Collections : d # c => coll'[d] = coll[d]
        BY <2>8 DEF Answer, TypeOK
      <3>2. coll'[c].form = "sealed" /\ coll'[c].key = key
        BY <2>8 DEF Answer, TypeOK, Seal
      <3>3. /\ UNCHANGED <<check, pc, key, verdict, todo, excused>>
            /\ pc = "up" /\ failed' = failed \ {c}
        BY <2>8 DEF Answer
      <3> QED
        BY <3>1, <3>2, <3>3 DEF CheckSpeaks, VerdictOfCheck, DealtWith, Opens
    <2> QED
      BY <2>1, <2>2, <2>3, <2>4, <2>5, <2>6, <2>7, <2>8
  <1> QED
    BY <1>1, <1>2

LEMMA KeptStep == TypeOK /\ Kept /\ [Next]_vars => Kept'
  <1> SUFFICES ASSUME TypeOK, Kept, [Next]_vars PROVE Kept'
    OBVIOUS
  <1>1. CASE UNCHANGED vars
    BY <1>1 DEF vars, disk, start, history, Kept, StoreKeyed, Opened, StoreSealed, PlainExcused,
                PlainParts, CheckSpeaks, VerdictOfCheck, DealtWith, Opens
  <1> QED
    BY <1>1, SecretsKept, StoreKept, SyncKept DEF Next, Startup, Serve

\* The types and what a start has established by each step of it.
THEOREM Invariant == Spec => []IInv
  BY InitType, TypeStep, InitKept, KeptStep, PTL DEF Spec, IInv

-----------------------------------------------------------------------------
(* The properties.                                                         *)

\* Whatever starts were cut off and whichever key is there now, what is served
\* opens with the key in memory (Store::open, seal_existing).
THEOREM ServedIsReadable == Spec => []ServedReadable
  <1>1. IInv => ServedReadable
    BY DEF IInv, Kept, StoreKeyed, Opened, VerdictOfCheck, DealtWith, ServedReadable, Opens
  <1> QED
    BY <1>1, Invariant, PTL

\* It is sealed, and plaintext is left in freed pages and in stores moved aside
\* only where a start was cut off while it sealed them or where a database from
\* before encryption had no plaintext row (seal_legacy_plaintext, Store::open).
THEOREM NothingIsPlain == Spec => []NoPlaintext
  <1>1. IInv => NoPlaintext
    <2> SUFFICES ASSUME IInv, pc = "up" PROVE NoPlaintext
      BY DEF NoPlaintext
    <2>1. db.check # NoKey
      BY DEF IInv, TypeOK, Kept, Opened
    <2>2. PlainParts \cup aside \subseteq excused
      BY <2>1 DEF IInv, Kept, PlainExcused
    <2> QED
      BY <2>2 DEF IInv, Kept, StoreSealed, VerdictOfCheck, DealtWith, NoPlaintext
  <1> QED
    BY <1>1, Invariant, PTL

\* A start moves aside nothing that the key in memory opens, while the key
\* check file is sound (Store::open, seal_existing).
THEOREM OnlyForeignIsMoved == Spec => OnlyForeignMoved
  <1> DEFINE Stays ==
        /\ Opens(key, db.row) => db'.row # Absent
        /\ Opens(key, blob) => blob' # Absent
        /\ "check" \notin excused =>
              \A c \in Collections \ failed : Opens(key, coll[c]) => coll'[c] # Absent
  <1>1. IInv /\ [Next]_vars => [Stays]_vars
    <2> SUFFICES ASSUME IInv, Next PROVE Stays
      OBVIOUS
    <2> USE DEF disk, At, LookAt, Opens
    <2>1. TypeOK /\ StoreKeyed /\ CheckSpeaks /\ VerdictOfCheck
      BY DEF IInv, Kept
    <2>2. db \in [check: {NoKey} \cup Keys, row: Files, freed: BOOLEAN]
      BY <2>1 DEF TypeOK
    <2>3. CASE MoveStoreAside
      BY <2>1, <2>3 DEF MoveStoreAside, StoreKeyed, Absent
    <2>4. CASE CheckKey \/ SealRows \/ Vacuum \/ SealBlobs \/ Push \/ PutBlob
      <3>1. UNCHANGED coll
        BY <2>4 DEF CheckKey, SealRows, Vacuum, SealBlobs, Push, PutBlob
      <3>2. /\ db'.row \in {db.row, Seal(key, db.row.version), Seal(key, 1)}
            /\ blob' \in {blob, Seal(key, blob.version), Seal(key, 1)}
        BY <2>2, <2>4 DEF CheckKey, SealRows, Vacuum, SealBlobs, Push, PutBlob
      <3> QED
        BY <3>1, <3>2 DEF Seal, Absent
    <2>5. ASSUME NEW c \in Collections, MoveAside(c)
          PROVE  Stays
      <3>1. UNCHANGED <<db, blob>> /\ \A d \in Collections : d # c => coll'[d] = coll[d]
        BY <2>1, <2>5 DEF MoveAside, TypeOK
      <3>2. "check" \notin excused /\ c \notin failed => ~Opens(key, coll[c])
        BY <2>1, <2>5 DEF MoveAside, Readable, CheckSpeaks, VerdictOfCheck, TypeOK
      <3> QED
        BY <3>1, <3>2 DEF Absent
    <2>6. ASSUME NEW c \in Collections, SealCollection(c) \/ Answer(c)
          PROVE  Stays
      <3>1. UNCHANGED <<db, blob>> /\ \A d \in Collections : d # c => coll'[d] = coll[d]
        BY <2>1, <2>6 DEF SealCollection, Answer, TypeOK
      <3>2. coll'[c] # Absent
        BY <2>1, <2>6 DEF SealCollection, Answer, Seal, Absent, TypeOK
      <3> QED
        BY <3>1, <3>2 DEF Absent
    <2>7. CASE UNCHANGED <<db, blob, coll>>
      BY <2>7 DEF Absent
    <2>8. \/ UNCHANGED <<db, blob, coll>>
          \/ MoveStoreAside \/ CheckKey \/ SealRows \/ Vacuum \/ SealBlobs \/ Push \/ PutBlob
          \/ \E c \in Collections : MoveAside(c) \/ SealCollection(c) \/ Answer(c)
      BY DEF Next, Startup, Serve, SecretsWritten, GetBearerToken, GetStorageKey, ReadKeyCheck,
             WriteKeyCheck, KeyCheckWritten, LeaveCollection, RewriteSecrets, ExchangeStores, StoreMap,
             KeyCheckFails, SecretsFail, CollectionFails, StoreFails, Crash, ReplaceSecrets
    <2> QED
      BY <2>3, <2>4, <2>5, <2>6, <2>7, <2>8
  <1> QED
    BY <1>1, Invariant, PTL DEF Spec, OnlyForeignMoved

-----------------------------------------------------------------------------
(* The collection files implement CollectionFile.                          *)

\* A collection is whole and has what was answered for.
AnsweredKept == \A c \in Collections : coll[c].form # "torn" /\ coll[c].version >= acked[c]

\* An exchange under way replaces a collection by a newer one.
NewerInHand == \A c \in Collections : tmp[c] # 0 => pc = "up" /\ tmp[c] > coll[c].version

FileInv == AnsweredKept /\ NewerInHand

LEMMA VersionTypes == Versions \subseteq Nat
  BY BoundAssumption DEF Versions

\* The steps that reach collections, or exchanges under way.
LEMMA FileSteps ==
  ASSUME [Next]_vars
  PROVE  \/ UNCHANGED <<coll, acked, tmp>> /\ (pc = "up" => pc' = "up")
         \/ Crash
         \/ \E c \in Collections :
               SealCollection(c) \/ MoveAside(c) \/ ExchangeStores(c) \/ Answer(c) \/ StoreFails(c)
  BY DEF Next, Startup, Serve, SecretsWritten, GetBearerToken, GetStorageKey, ReadKeyCheck,
         WriteKeyCheck, KeyCheckWritten, LeaveCollection, RewriteSecrets,
         KeyCheckFails, SecretsFail, CollectionFails, ReplaceSecrets,
         CheckKey, MoveStoreAside, SealRows, Vacuum, SealBlobs, Push, PutBlob, vars, disk, start,
         history, At, LookAt

LEMMA InitFile == Init => FileInv
  <1> SUFFICES ASSUME Init, NEW c \in Collections
               PROVE  coll[c].form # "torn" /\ coll[c].version >= acked[c] /\ tmp[c] = 0
    BY DEF FileInv, AnsweredKept, NewerInHand
  <1>1. coll[c] \in {Absent, Plain(1)} /\ acked[c] = 0 /\ tmp[c] = 0
    BY DEF Init
  <1> QED
    BY <1>1 DEF Absent, Plain

\* What a step does to one collection leaves the others alone.
LEMMA OneCollection ==
  ASSUME TypeOK, NEW c \in Collections,
         SealCollection(c) \/ MoveAside(c) \/ ExchangeStores(c) \/ Answer(c) \/ StoreFails(c)
  PROVE  \A d \in Collections \ {c} : coll'[d] = coll[d] /\ acked'[d] = acked[d] /\ tmp'[d] = tmp[d]
  BY DEF SealCollection, MoveAside, ExchangeStores, StoreMap, Answer, StoreFails, TypeOK, disk,
         history

LEMMA FileStep == TypeOK /\ FileInv /\ [Next]_vars => FileInv'
  <1> SUFFICES ASSUME TypeOK, FileInv, [Next]_vars PROVE FileInv'
    OBVIOUS
  <1> USE DEF FileInv, AnsweredKept, NewerInHand
  <1>1. CASE UNCHANGED <<coll, acked, tmp>> /\ (pc = "up" => pc' = "up")
    BY <1>1
  <1>2. CASE Crash
    BY <1>2 DEF Crash, disk
  <1>3. ASSUME NEW c \in Collections,
               \/ SealCollection(c) \/ MoveAside(c)
               \/ ExchangeStores(c) \/ Answer(c) \/ StoreFails(c)
        PROVE  FileInv'
    <2>1. \A d \in Collections \ {c} :
             coll'[d] = coll[d] /\ acked'[d] = acked[d] /\ tmp'[d] = tmp[d]
      BY <1>3, OneCollection
    <2>2. pc' = pc
      BY <1>3 DEF SealCollection, MoveAside, ExchangeStores, Answer, StoreFails, start
    <2>3. /\ coll'[c].form # "torn" /\ coll'[c].version >= acked'[c]
          /\ tmp'[c] # 0 => pc = "up" /\ tmp'[c] > coll'[c].version
      <3>1. CASE SealCollection(c)
        BY <3>1 DEF SealCollection, LookAt, At, Seal, TypeOK
      <3>2. CASE MoveAside(c)
        BY <3>2 DEF MoveAside, LookAt, At, Absent, TypeOK
      <3>3. CASE ExchangeStores(c)
        BY <3>3 DEF ExchangeStores, StoreMap, history, TypeOK
      <3>4. CASE Answer(c)
        <4>1. /\ coll'[c] = Seal(key, tmp[c]) /\ acked'[c] = tmp[c] /\ tmp'[c] = 0
              /\ tmp[c] \in {0} \cup Versions
          BY <3>4 DEF Answer, TypeOK
        <4>2. tmp[c] >= tmp[c]
          BY <4>1, VersionTypes
        <4> QED
          BY <4>1, <4>2 DEF Seal
      <3>5. CASE StoreFails(c)
        BY <3>5 DEF StoreFails, disk, history, TypeOK
      <3> QED
        BY <1>3, <3>1, <3>2, <3>3, <3>4, <3>5
    <2> QED
      BY <2>1, <2>2, <2>3
  <1> QED
    BY <1>1, <1>2, <1>3, FileSteps

\* Whatever is cut off or fails, a collection that was answered for is whole
\* and no older than the answer (store_map, exchange).
THEOREM AnsweredIsKept == Spec => []AnsweredKept
  <1>1. FileInv => AnsweredKept
    BY DEF FileInv
  <1> QED
    BY <1>1, InitFile, FileStep, TypeCorrect, PTL DEF Spec

LEMMA InitRefines == Init => File!Init
  <1> SUFFICES ASSUME Init PROVE File!Init
    OBVIOUS
  <1>1. ASSUME NEW c \in Collections PROVE Version(c) \in {0, 1}
    <2>1. coll[c] = Absent \/ coll[c] = Plain(1)
      BY DEF Init
    <2>2. CASE coll[c] = Absent
      BY <2>2 DEF Version, Absent
    <2>3. CASE coll[c] = Plain(1)
      BY <2>3 DEF Version, Plain
    <2> QED
      BY <2>1, <2>2, <2>3
  <1>2. 1 \in Versions
    BY BoundAssumption DEF Versions
  <1> QED
    BY <1>1, <1>2 DEF Init, File!Init

\* Sealing a collection does not change it, moving it aside loses it, and an
\* exchange is the rename that ends it.
LEMMA StepRefines == TypeOK /\ FileInv /\ [Next]_vars => [File!Next]_(File!vars)
  <1> SUFFICES ASSUME TypeOK, FileInv, [Next]_vars PROVE [File!Next]_(File!vars)
    OBVIOUS
  <1> DEFINE file == [c \in Collections |-> Version(c)]
  <1>1. \A c \in Collections : coll[c].form # "torn" /\ Version(c) = coll[c].version
    BY DEF FileInv, AnsweredKept, Version
  <1>2. ASSUME UNCHANGED acked, \A c \in Collections : Version(c)' = Version(c)
        PROVE  UNCHANGED File!vars
    BY <1>2 DEF File!vars
  <1>3. CASE UNCHANGED <<coll, acked>>
    BY <1>2, <1>3 DEF Version
  <1>4. ASSUME NEW c \in Collections, SealCollection(c) \/ MoveAside(c) \/ Answer(c)
        PROVE  [File!Next]_(File!vars)
    <2>1. \A d \in Collections \ {c} : Version(d)' = Version(d)
      BY <1>4, OneCollection DEF Version
    <2>2. CASE SealCollection(c)
      <3>1. Version(c)' = Version(c)
        BY <1>1, <2>2 DEF SealCollection, Seal, Version, TypeOK
      <3> QED
        BY <1>2, <2>1, <2>2, <3>1 DEF SealCollection
    <2>3. CASE MoveAside(c)
      <3>1. Version(c)' = 0
        BY <2>3 DEF MoveAside, Absent, Version, TypeOK
      <3>2. file' = [file EXCEPT ![c] = 0]
        BY <2>1, <3>1
      <3>3. File!Lose(c)
        BY <2>3, <3>2 DEF MoveAside, File!Lose
      <3> QED
        BY <3>3 DEF File!Next
    <2>4. CASE Answer(c)
      <3>1. Version(c)' = tmp[c]
        BY <2>4 DEF Answer, Seal, Version, TypeOK
      <3>2. tmp[c] \in Versions /\ tmp[c] > Version(c)
        BY <1>1, <2>4 DEF Answer, FileInv, NewerInHand, TypeOK
      <3>3. file' = [file EXCEPT ![c] = tmp[c]]
        BY <2>1, <3>1
      <3>4. File!Exchange(c)
        BY <2>4, <3>2, <3>3 DEF Answer, File!Exchange
      <3> QED
        BY <3>4 DEF File!Next
    <2> QED
      BY <1>4, <2>2, <2>3, <2>4
  <1>5. \/ UNCHANGED <<coll, acked>>
        \/ \E c \in Collections : SealCollection(c) \/ MoveAside(c) \/ Answer(c)
    BY FileSteps DEF Crash, ExchangeStores, StoreMap, StoreFails, disk, history
  <1> QED
    BY <1>3, <1>4, <1>5

\* For any collections and wherever starts and exchanges are cut off: the
\* collection files implement CollectionFile (store_map, seal_existing).
THEOREM CollectionsAreKept == Spec => ImplementsCollections
  BY InitRefines, StepRefines, InitFile, FileStep, TypeCorrect, PTL
  DEF Spec, ImplementsCollections, File!Spec

-----------------------------------------------------------------------------
(* The legacy sync: what it keeps of a collection between its losses.      *)

Copies == {copy \in [Ids -> [id: Ids, at: 0..MaxTime, deleted: BOOLEAN]] :
              \A id \in Ids : copy[id].id = id}

CopiesOK == map \in Copies /\ held \in [Clients -> Copies]

\* A request has one record of an id, and each has a time.
Sendable(records) ==
    records \subseteq Envelope /\ \A r, s \in records : r.id = s.id => r = s

\* What a client is to push, it holds: that it held it when it was asked about
\* it is enough, for a client forgets nothing.
Holds(c, id) == id \in Ids /\ held[c][id].at # NoTime

ClientsOK ==
    /\ DOMAIN dirty = Clients /\ DOMAIN sent = Clients /\ DOMAIN answer = Clients
    /\ \A c \in Clients :
        /\ \A id \in dirty[c] : Holds(c, id)
        /\ sent[c].open => \A id \in Ids : sent[c].known[id] # NoTime => Holds(c, id)
        /\ answer[c].open => sent[c].open /\ \A id \in answer[c].missing : Holds(c, id)
        /\ answer[c].records \subseteq Envelope

\* Requests, those that were given up included.
RequestsOK ==
    /\ \A c \in Clients : Sendable(sent[c].records)
    /\ \A q \in late : Sendable(q.records)
    /\ acknowledged \subseteq Envelope

\* A record the collection has, or something that won against it.
Stands(r) == map[r.id].at # NoTime /\ ~Wins(r, map[r.id])

\* What a request asked to be kept stands as soon as there is an answer.
AnsweredStand == \A c \in Clients : answer[c].open => \A r \in sent[c].records : Stands(r)

LegacyIInv == CopiesOK /\ ClientsOK /\ RequestsOK /\ AnsweredStand /\ NotDisplaced

\* What a merge leaves of an id: what was there, or a record that won.
LEMMA MergedIs ==
    ASSUME map \in Copies, NEW records, Sendable(records), NEW id \in Ids
    PROVE  /\ \/ Merged(records)[id] = map[id]
              \/ \E r \in records : r.id = id /\ Wins(r, map[id]) /\ Merged(records)[id] = r
           /\ \A r \in records : r.id = id /\ Wins(r, map[id]) => Merged(records)[id] = r
  <1> DEFINE incoming == {r \in records : r.id = id /\ Wins(r, map[id])}
  <1>1. Merged(records)[id] = IF incoming = {} THEN map[id] ELSE CHOOSE r \in incoming : TRUE
    BY DEF Merged
  <1>2. \A r, s \in incoming : r = s
    BY DEF Sendable
  <1> QED
    BY <1>1, <1>2

\* A merge leaves a collection of records by their ids.
LEMMA MergedCopies ==
    ASSUME map \in Copies, NEW records, Sendable(records)
    PROVE  Merged(records) \in Copies
  <1>1. ASSUME NEW id \in Ids
        PROVE  /\ Merged(records)[id] \in [id: Ids, at: 0..MaxTime, deleted: BOOLEAN]
               /\ Merged(records)[id].id = id
    <2>1. map[id] \in [id: Ids, at: 0..MaxTime, deleted: BOOLEAN] /\ map[id].id = id
      BY DEF Copies
    <2>2. \A r \in records : r \in [id: Ids, at: 0..MaxTime, deleted: BOOLEAN]
      BY TimeAssumption DEF Sendable, Envelope
    <2> QED
      BY <2>1, <2>2, MergedIs
  <1>2. Merged(records) = [id \in Ids |-> Merged(records)[id]]
    BY DEF Merged
  <1> HIDE DEF Merged
  <1> QED
    BY <1>1, <1>2 DEF Copies

\* Winning is transitive: what stands is not displaced by a merge.
LEMMA MergeKeeps ==
    ASSUME map \in Copies, NEW records, Sendable(records), map' = Merged(records),
           NEW r \in Envelope, Stands(r)
    PROVE  Stands(r)'
  <1> DEFINE m == map[r.id]
  <1>1. /\ r.id \in Ids /\ r.at \in 1..MaxTime /\ r.deleted \in BOOLEAN
        /\ m.at \in 0..MaxTime /\ m.deleted \in BOOLEAN
    BY DEF Envelope, Copies
  <1>2. m.at # NoTime /\ ~Wins(r, m)
    BY DEF Stands
  <1>3. CASE map'[r.id] = m
    BY <1>2, <1>3 DEF Stands
  <1>4. ASSUME NEW x \in records, x.id = r.id, Wins(x, m), map'[r.id] = x
        PROVE  Stands(r)'
    <2>1. x.at \in 1..MaxTime /\ x.deleted \in BOOLEAN
      BY DEF Sendable, Envelope
    <2> HIDE DEF m
    <2>2. x.at # NoTime /\ ~Wins(r, x)
      BY <1>1, <1>2, <1>4, <2>1, TimeAssumption DEF Wins, NoTime
    <2> QED
      BY <1>4, <2>2 DEF Stands
  <1> QED
    BY <1>1, <1>3, <1>4, MergedIs

\* And what was merged stands.
LEMMA MergedStand ==
    ASSUME map \in Copies, NEW records, Sendable(records), map' = Merged(records),
           NEW r \in records
    PROVE  Stands(r)'
  <1> DEFINE m == map[r.id]
  <1>1. /\ r.id \in Ids /\ r.at \in 1..MaxTime /\ r.deleted \in BOOLEAN
        /\ m.at \in 0..MaxTime /\ m.deleted \in BOOLEAN
    BY DEF Sendable, Envelope, Copies
  <1>2. CASE Wins(r, m)
    <2>1. map'[r.id] = r
      BY <1>1, <1>2, MergedIs
    <2>2. r.at # NoTime /\ ~Wins(r, r)
      BY <1>1, TimeAssumption DEF Wins, NoTime
    <2> QED
      BY <2>1, <2>2 DEF Stands
  <1>3. CASE ~Wins(r, m)
    <2> HIDE DEF m
    <2>1. m.at # NoTime
      BY <1>1, <1>3, TimeAssumption DEF Wins, NoTime
    <2>2. Stands(r)
      BY <1>3, <2>1 DEF Stands, m
    <2>3. r \in Envelope
      BY DEF Sendable
    <2> QED
      BY <2>2, <2>3, MergeKeeps
  <1> QED
    BY <1>2, <1>3

\* The start: nobody has anything.
LEMMA LegacyStart == LegacyInit => LegacyIInv
  <1> SUFFICES ASSUME LegacyInit PROVE LegacyIInv
    OBVIOUS
  <1>1. Nothing \in Copies
    BY TimeAssumption DEF Nothing, Copies, NoTime
  <1>2. Sendable({})
    BY DEF Sendable
  <1>3. CopiesOK
    BY <1>1 DEF LegacyInit, CopiesOK
  <1>4. ClientsOK
    BY DEF LegacyInit, ClientsOK, NoRequest, NoAnswer
  <1>5. RequestsOK /\ AnsweredStand /\ NotDisplaced
    BY <1>2 DEF LegacyInit, RequestsOK, AnsweredStand, NotDisplaced, NoRequest, NoAnswer
  <1> QED
    BY <1>3, <1>4, <1>5 DEF LegacyIInv

\* A step of the clients alone leaves the collection; what they hold they go
\* on holding.
LEMMA EditKeeps ==
    ASSUME LegacyIInv, NEW c \in Clients, NEW r \in Envelope, Edit(c, r)
    PROVE  LegacyIInv'
  <1>1. /\ held' = [held EXCEPT ![c][r.id] = r] /\ dirty' = [dirty EXCEPT ![c] = @ \cup {r.id}]
        /\ UNCHANGED <<map, sent, answer, late, acknowledged>>
    BY DEF Edit
  <1>2. r.id \in Ids /\ r \in [id: Ids, at: 0..MaxTime, deleted: BOOLEAN] /\ r.at # NoTime
    BY TimeAssumption DEF Envelope, NoTime
  <1>3. held \in [Clients -> Copies]
    BY DEF LegacyIInv, CopiesOK
  <1>4. \A d \in Clients, id \in Ids :
           held'[d][id] = IF d = c /\ id = r.id THEN r ELSE held[d][id]
    BY <1>1, <1>3 DEF Copies
  <1>5. held' \in [Clients -> Copies]
    BY <1>1, <1>2, <1>3 DEF Copies
  <1>6. \A d \in Clients : \A id : Holds(d, id) => Holds(d, id)'
    BY <1>2, <1>4 DEF Holds
  <1>7. Holds(c, r.id)'
    BY <1>2, <1>4 DEF Holds
  <1>8. ClientsOK'
    BY <1>1, <1>6, <1>7 DEF LegacyIInv, ClientsOK
  <1> QED
    BY <1>1, <1>5, <1>8
    DEF LegacyIInv, CopiesOK, RequestsOK, AnsweredStand, NotDisplaced, Stands

\* What a client sends it holds, one record of an id.
LEMMA RequestKeeps == ASSUME LegacyIInv, NEW c \in Clients, Request(c) PROVE LegacyIInv'
  <1> DEFINE q == [records |-> {held[c][id] : id \in dirty[c]},
                   known |-> [id \in Ids |-> held[c][id].at], open |-> TRUE]
  <1>1. /\ ~sent[c].open /\ sent' = [sent EXCEPT ![c] = q]
        /\ UNCHANGED <<map, held, dirty, answer, late, acknowledged>>
    BY DEF Request
  <1>2. held[c] \in Copies
    BY DEF LegacyIInv, CopiesOK
  <1>3. Sendable(q.records)
    <2>1. ASSUME NEW id \in dirty[c] PROVE held[c][id] \in Envelope /\ held[c][id].id = id
      <3>1. id \in Ids /\ held[c][id].at # NoTime
        BY DEF LegacyIInv, ClientsOK, Holds
      <3>2. held[c][id] \in [id: Ids, at: 0..MaxTime, deleted: BOOLEAN] /\ held[c][id].id = id
        BY <1>2, <3>1 DEF Copies
      <3>3. held[c][id].at \in 1..MaxTime
        BY <3>1, <3>2, TimeAssumption DEF NoTime
      <3> QED
        BY <3>2, <3>3 DEF Envelope
    <2> QED
      BY <2>1 DEF Sendable
  <1>4. \A id \in Ids : q.known[id] # NoTime => Holds(c, id)
    BY DEF Holds
  <1>5. DOMAIN sent = Clients /\ sent'[c] = q /\ \A d \in Clients \ {c} : sent'[d] = sent[d]
    BY <1>1 DEF LegacyIInv, ClientsOK
  <1> HIDE DEF q
  <1>6. DOMAIN sent' = Clients
    BY <1>1, <1>5
  <1>7. ~answer[c].open
    BY <1>1 DEF LegacyIInv, ClientsOK
  <1>8. ClientsOK'
    BY <1>1, <1>4, <1>5, <1>6, <1>7 DEF LegacyIInv, ClientsOK, Holds
  <1>9. RequestsOK'
    BY <1>1, <1>3, <1>5 DEF LegacyIInv, RequestsOK
  <1>10. AnsweredStand'
    BY <1>1, <1>5, <1>7 DEF LegacyIInv, AnsweredStand, Stands
  <1> QED
    BY <1>1, <1>8, <1>9, <1>10 DEF LegacyIInv, CopiesOK, NotDisplaced

\* What the client takes of an answer are records of their ids.
LEMMA ReceiveKeeps == ASSUME LegacyIInv, NEW c \in Clients, Receive(c) PROVE LegacyIInv'
  <1> DEFINE new(id) == {r \in answer[c].records : r.id = id /\ r.at > held[c][id].at}
             taken == [id \in Ids |->
                          IF new(id) = {} THEN held[c][id] ELSE CHOOSE r \in new(id) : TRUE]
             left == (dirty[c] \ {r.id : r \in {s \in sent[c].records : held[c][s.id] = s}})
                        \cup answer[c].missing
  <1>1. /\ answer[c].open
        /\ held' = [held EXCEPT ![c] = taken] /\ dirty' = [dirty EXCEPT ![c] = left]
        /\ acknowledged' = acknowledged \cup sent[c].records
        /\ sent' = [sent EXCEPT ![c] = NoRequest] /\ answer' = [answer EXCEPT ![c] = NoAnswer]
        /\ UNCHANGED <<map, late>>
    BY DEF Receive
  <1>2. /\ DOMAIN sent = Clients /\ DOMAIN answer = Clients /\ DOMAIN dirty = Clients
        /\ held \in [Clients -> Copies]
    BY DEF LegacyIInv, ClientsOK, CopiesOK
  <1>3. ASSUME NEW id \in Ids
        PROVE  /\ taken[id] \in [id: Ids, at: 0..MaxTime, deleted: BOOLEAN] /\ taken[id].id = id
               /\ held[c][id].at # NoTime => taken[id].at # NoTime
    <2>1. /\ held[c][id] \in [id: Ids, at: 0..MaxTime, deleted: BOOLEAN]
          /\ held[c][id].id = id
      BY <1>2 DEF Copies
    <2>2. ASSUME NEW r \in new(id)
          PROVE  /\ r \in [id: Ids, at: 0..MaxTime, deleted: BOOLEAN] /\ r.id = id
                 /\ r.at # NoTime
      <3>1. r \in Envelope /\ r.id = id
        BY DEF LegacyIInv, ClientsOK
      <3> QED
        BY <3>1, TimeAssumption DEF Envelope, NoTime
    <2>3. taken[id] = held[c][id] \/ taken[id] \in new(id)
      OBVIOUS
    <2> QED
      BY <2>1, <2>2, <2>3
  <1>4. taken \in Copies
    <2>1. taken = [id \in Ids |-> taken[id]]
      OBVIOUS
    <2> HIDE DEF taken
    <2> QED
      BY <1>3, <2>1 DEF Copies
  <1>5. \A id \in left : id \in Ids /\ held[c][id].at # NoTime
    BY <1>1 DEF LegacyIInv, ClientsOK, Holds
  <1> HIDE DEF taken, left
  <1>6. /\ sent'[c] = NoRequest /\ answer'[c] = NoAnswer /\ dirty'[c] = left /\ held'[c] = taken
        /\ \A d \in Clients \ {c} : /\ sent'[d] = sent[d] /\ answer'[d] = answer[d]
                                    /\ dirty'[d] = dirty[d] /\ held'[d] = held[d]
    BY <1>1, <1>2
  <1>7. CopiesOK'
    BY <1>1, <1>4 DEF LegacyIInv, CopiesOK
  <1>8. \A id \in left : Holds(c, id)'
    BY <1>3, <1>5, <1>6 DEF Holds
  <1>9. \A d \in Clients \ {c} : \A id : Holds(d, id) => Holds(d, id)'
    BY <1>6 DEF Holds
  <1>10. ClientsOK'
    <2>1. DOMAIN sent' = Clients /\ DOMAIN answer' = Clients /\ DOMAIN dirty' = Clients
      BY <1>1, <1>2
    <2> QED
      BY <1>6, <1>8, <1>9, <2>1 DEF LegacyIInv, ClientsOK, NoRequest, NoAnswer
  <1>11. RequestsOK'
    <2>1. Sendable({}) /\ NoRequest.records = {}
      BY DEF Sendable, NoRequest
    <2>2. sent[c].records \subseteq Envelope
      BY DEF LegacyIInv, RequestsOK, Sendable
    <2>3. \A d \in Clients : Sendable(sent'[d].records)
      BY <1>6, <2>1 DEF LegacyIInv, RequestsOK
    <2>4. acknowledged' \subseteq Envelope /\ \A q \in late' : Sendable(q.records)
      BY <1>1, <2>2 DEF LegacyIInv, RequestsOK
    <2> QED
      BY <2>3, <2>4 DEF RequestsOK
  <1>12. AnsweredStand'
    BY <1>1, <1>6 DEF LegacyIInv, AnsweredStand, Stands, NoAnswer
  <1>13. NotDisplaced'
    BY <1>1 DEF LegacyIInv, NotDisplaced, AnsweredStand, Stands
  <1> QED
    BY <1>7, <1>10, <1>11, <1>12, <1>13 DEF LegacyIInv

\* A request that is given up has one record of an id wherever it goes.
LEMMA GiveUpKeeps ==
    ASSUME LegacyIInv, NEW c \in Clients, GiveUp(c) \/ ExchangeFails(c)
    PROVE  LegacyIInv'
  <1>1. /\ sent' = [sent EXCEPT ![c] = NoRequest]
        /\ answer' = [answer EXCEPT ![c] = NoAnswer] \/ (~answer[c].open /\ answer' = answer)
        /\ late' = late \/ late' = late \cup {sent[c]}
        /\ UNCHANGED <<map, held, dirty, acknowledged>>
    BY DEF GiveUp, ExchangeFails
  <1>2. DOMAIN sent = Clients /\ DOMAIN answer = Clients
    BY DEF LegacyIInv, ClientsOK
  <1>3. /\ sent'[c] = NoRequest /\ answer'[c] \in {NoAnswer, answer[c]} /\ ~answer'[c].open
        /\ \A d \in Clients \ {c} : sent'[d] = sent[d] /\ answer'[d] = answer[d]
    BY <1>1, <1>2 DEF NoAnswer
  <1>4. ClientsOK'
    <2>1. DOMAIN sent' = Clients /\ DOMAIN answer' = Clients
      BY <1>1, <1>2
    <2> QED
      BY <1>1, <1>3, <2>1 DEF LegacyIInv, ClientsOK, Holds, NoRequest, NoAnswer
  <1>5. RequestsOK'
    <2>1. Sendable({}) /\ NoRequest.records = {}
      BY DEF Sendable, NoRequest
    <2> QED
      BY <1>1, <1>3, <2>1 DEF LegacyIInv, RequestsOK
  <1>6. AnsweredStand'
    BY <1>1, <1>3 DEF LegacyIInv, AnsweredStand, Stands
  <1> QED
    BY <1>1, <1>4, <1>5, <1>6 DEF LegacyIInv, CopiesOK, NotDisplaced

\* An exchange, in time or late, displaces nothing that stands.
LEMMA ExchangeKeeps ==
    ASSUME LegacyIInv,
           (\E c \in Clients : Exchange(c)) \/ (\E q \in late : ExchangeLate(q))
    PROVE  LegacyIInv'
  <1>1. PICK records : Sendable(records) /\ map' = Merged(records)
    BY DEF Exchange, ExchangeLate, LegacyIInv, RequestsOK
  <1>2. map \in Copies /\ UNCHANGED <<held, dirty, sent, acknowledged>>
    BY DEF Exchange, ExchangeLate, LegacyIInv, CopiesOK
  <1>3. map' \in Copies
    BY <1>1, <1>2, MergedCopies
  <1>4. \A r \in Envelope : Stands(r) => Stands(r)'
    BY <1>1, <1>2, MergeKeeps
  <1>5. NotDisplaced'
    BY <1>2, <1>4 DEF LegacyIInv, NotDisplaced, RequestsOK, Stands
  <1>6. \A c \in Clients : sent[c].records \subseteq Envelope
    BY DEF LegacyIInv, RequestsOK, Sendable
  <1>7. ASSUME NEW c \in Clients, Exchange(c) PROVE LegacyIInv'
    <2> DEFINE a == [records |-> NewerThan(map', sent[c].known),
                     missing |-> Missing(map', sent[c].known), open |-> TRUE]
    <2>1. /\ sent[c].open /\ map' = Merged(sent[c].records)
          /\ answer' = [answer EXCEPT ![c] = a] /\ late' = late
      BY <1>7 DEF Exchange
    <2>2. a.records \subseteq Envelope
      <3>1. ASSUME NEW id \in Ids, map'[id].at # NoTime PROVE map'[id] \in Envelope
        <4>1. map'[id] \in [id: Ids, at: 0..MaxTime, deleted: BOOLEAN]
          BY <1>3 DEF Copies
        <4> QED
          BY <3>1, <4>1, TimeAssumption DEF Envelope, NoTime
      <3> QED
        BY <3>1 DEF NewerThan, Records
    <2>3. \A id \in a.missing : Holds(c, id)
      BY <2>1 DEF LegacyIInv, ClientsOK, Missing
    <2>4. a.open
      OBVIOUS
    <2> HIDE DEF a
    <2>5. /\ DOMAIN answer' = Clients /\ answer'[c] = a
          /\ \A d \in Clients \ {c} : answer'[d] = answer[d]
      BY <2>1 DEF LegacyIInv, ClientsOK
    <2>6. ClientsOK'
      BY <1>2, <2>1, <2>2, <2>3, <2>5 DEF LegacyIInv, ClientsOK, Holds
    <2>7. AnsweredStand'
      <3>1. ASSUME NEW r \in sent[c].records PROVE Stands(r)'
        <4>1. Sendable(sent[c].records)
          BY DEF LegacyIInv, RequestsOK
        <4> QED
          BY <1>2, <2>1, <4>1, MergedStand
      <3>2. ASSUME NEW d \in Clients \ {c}, answer[d].open, NEW r \in sent[d].records
            PROVE  Stands(r)'
        <4>1. Stands(r) /\ r \in Envelope
          BY <1>6, <3>2 DEF LegacyIInv, AnsweredStand
        <4> QED
          BY <1>4, <4>1
      <3> QED
        BY <1>2, <2>5, <3>1, <3>2 DEF AnsweredStand
    <2> QED
      BY <1>2, <1>3, <1>5, <2>1, <2>6, <2>7 DEF LegacyIInv, CopiesOK, RequestsOK
  <1>8. ASSUME NEW q \in late, ExchangeLate(q) PROVE LegacyIInv'
    <2>1. late' \subseteq late /\ answer' = answer
      BY <1>8 DEF ExchangeLate
    <2>2. AnsweredStand'
      BY <1>2, <1>4, <1>6, <2>1 DEF LegacyIInv, AnsweredStand
    <2>3. ClientsOK'
      BY <1>2, <2>1 DEF LegacyIInv, ClientsOK, Holds
    <2> QED
      BY <1>2, <1>3, <1>5, <2>1, <2>2, <2>3 DEF LegacyIInv, CopiesOK, RequestsOK
  <1> QED
    BY <1>7, <1>8

\* With a collection all that was to be kept of it is gone.
LEMMA WipeKeeps == ASSUME LegacyIInv, Wipe PROVE LegacyIInv'
  <1>1. /\ map' = Nothing /\ late' = {} /\ acknowledged' = {} /\ UNCHANGED <<held, dirty>>
        /\ sent' = [c \in Clients |-> NoRequest] /\ answer' = [c \in Clients |-> NoAnswer]
    BY DEF Wipe
  <1>2. Nothing \in Copies
    BY TimeAssumption DEF Nothing, Copies, NoTime
  <1>3. Sendable({})
    BY DEF Sendable
  <1>4. ClientsOK'
    BY <1>1 DEF LegacyIInv, ClientsOK, Holds, NoRequest, NoAnswer
  <1>5. RequestsOK' /\ AnsweredStand' /\ NotDisplaced'
    BY <1>1, <1>3 DEF RequestsOK, AnsweredStand, NotDisplaced, NoRequest, NoAnswer
  <1> QED
    BY <1>1, <1>2, <1>4, <1>5 DEF LegacyIInv, CopiesOK

\* For any clients and ids, however often requests fail, come late and are sent
\* again: what was acknowledged stands, until the collection itself is lost
\* (wins and SyncStore::exchange).
THEOREM AcknowledgedStand == LegacySpec => []NotDisplaced
  <1>1. LegacyInit => LegacyIInv
    BY LegacyStart
  <1>2. LegacyIInv /\ [LegacyNext]_legacyVars => LegacyIInv'
    <2> SUFFICES ASSUME LegacyIInv, [LegacyNext]_legacyVars PROVE LegacyIInv'
      OBVIOUS
    <2>1. CASE UNCHANGED legacyVars
      BY <2>1 DEF legacyVars, LegacyIInv, CopiesOK, ClientsOK, Holds, RequestsOK, AnsweredStand,
                  NotDisplaced, Stands
    <2>2. CASE LegacyNext
      BY <2>2, EditKeeps, RequestKeeps, ReceiveKeeps, GiveUpKeeps, ExchangeKeeps, WipeKeeps
      DEF LegacyNext
    <2> QED
      BY <2>1, <2>2
  <1>3. LegacyIInv => NotDisplaced
    BY DEF LegacyIInv
  <1> QED
    BY <1>1, <1>2, <1>3, PTL DEF LegacySpec

=============================================================================

------------------------------- MODULE LegacySync -------------------------------
(***************************************************************************)
(* The legacy document sync (sync.rs): one collection of the server, and   *)
(* clients that exchange their changes for what they have not seen.  The   *)
(* exchange is one step, for it holds the store's lock throughout and      *)
(* commits by a rename.  Requests may be answered late or with an error,   *)
(* or be given up and be carried out nevertheless; a start under another   *)
(* storage key finds no collection (AtRest has the start itself).          *)
(*                                                                         *)
(* A record is its id, its time and whether it is a tombstone; its data is *)
(* opaque.  The clients are external: they keep what they know, resend     *)
(* what was not acknowledged, and push back what is reported missing.      *)
(***************************************************************************)
EXTENDS Naturals, FiniteSets

CONSTANTS
    Clients, Ids,
    MaxTime, MaxEdits, MaxFaults, MaxWipes    \* bounds of the model

ASSUME TimeAssumption == MaxTime \in Nat

NoTime == 0     \* of a record that is absent
Envelope == [id: Ids, at: 1..MaxTime, deleted: BOOLEAN]
NoRequest == [records |-> {}, known |-> [id \in {} |-> 0], open |-> FALSE]
NoAnswer == [records |-> {}, missing |-> {}, open |-> FALSE]

VARIABLES
    map,      \* the collection: a record or nothing per id
    held,     \* what each client holds, likewise
    dirty,    \* the ids each client has to push
    sent,     \* the request a client waits for
    answer,   \* the answer on its way to it
    late,     \* requests given up that may still arrive
    acknowledged,   \* history: records acknowledged since the collection was last lost
    edits, faults, wipes

legacyVars == <<map, held, dirty, sent, answer, late, acknowledged, edits, faults, wipes>>

Records(copy) == {copy[id] : id \in {i \in Ids : copy[i].at # NoTime}}
Nothing == [id \in Ids |-> [id |-> id, at |-> NoTime, deleted |-> FALSE]]

\* Mutant: what arrives last wins.
WinsByArrival(incoming, existing) == TRUE

Wins(incoming, existing) ==
    \/ incoming.at > existing.at
    \/ incoming.at = existing.at /\ incoming.deleted /\ ~existing.deleted

\* The collection after a request's records; one of an id that is absent wins.
Merged(records) ==
    [id \in Ids |->
        LET incoming == {r \in records : r.id = id /\ Wins(r, map[id])}
        IN  IF incoming = {} THEN map[id] ELSE CHOOSE r \in incoming : TRUE]

\* Mutant: a record the client does not know is not new to it.
UpdatedOnly(copy, known) == {r \in Records(copy) : known[r.id] # NoTime /\ r.at > known[r.id]}

NewerThan(copy, known) == {r \in Records(copy) : r.at > known[r.id]}
Missing(copy, known) == {id \in Ids : known[id] # NoTime /\ copy[id].at = NoTime}

LegacyInit ==
    /\ map = Nothing /\ held = [c \in Clients |-> Nothing]
    /\ dirty = [c \in Clients |-> {}]
    /\ sent = [c \in Clients |-> NoRequest] /\ answer = [c \in Clients |-> NoAnswer]
    /\ late = {} /\ acknowledged = {} /\ edits = 0 /\ faults = 0 /\ wipes = 0

(***************************************************************************)
(* The clients (external).  Clocks differ: an edit may be older than what  *)
(* it replaces.                                                            *)
(***************************************************************************)
Edit(c, r) ==
    /\ edits < MaxEdits
    /\ held' = [held EXCEPT ![c][r.id] = r]
    /\ dirty' = [dirty EXCEPT ![c] = @ \cup {r.id}]
    /\ edits' = edits + 1
    /\ UNCHANGED <<map, sent, answer, late, acknowledged, faults, wipes>>

Request(c) ==
    /\ ~sent[c].open
    /\ sent' = [sent EXCEPT ![c] =
          [records |-> {held[c][id] : id \in dirty[c]},
           known |-> [id \in Ids |-> held[c][id].at], open |-> TRUE]]
    /\ UNCHANGED <<map, held, dirty, answer, late, acknowledged, edits, faults, wipes>>

\* An answer's record is taken if it is newer than what the client now holds.
Receive(c) ==
    /\ answer[c].open
    /\ held' = [held EXCEPT ![c] = [id \in Ids |->
          LET new == {r \in answer[c].records : r.id = id /\ r.at > held[c][id].at}
          IN  IF new = {} THEN held[c][id] ELSE CHOOSE r \in new : TRUE]]
    /\ dirty' = [dirty EXCEPT ![c] =
          (@ \ {r.id : r \in {s \in sent[c].records : held[c][s.id] = s}}) \cup answer[c].missing]
    /\ acknowledged' = acknowledged \cup sent[c].records
    /\ sent' = [sent EXCEPT ![c] = NoRequest] /\ answer' = [answer EXCEPT ![c] = NoAnswer]
    /\ UNCHANGED <<map, late, edits, faults, wipes>>

\* A timeout: the request is sent again later, and this one may still arrive.
GiveUp(c) ==
    /\ faults < MaxFaults
    /\ sent[c].open
    /\ late' = IF answer[c].open THEN late ELSE late \cup {sent[c]}
    /\ sent' = [sent EXCEPT ![c] = NoRequest] /\ answer' = [answer EXCEPT ![c] = NoAnswer]
    /\ faults' = faults + 1
    /\ UNCHANGED <<map, held, dirty, acknowledged, edits, wipes>>

(***************************************************************************)
(* The server.                                                             *)
(***************************************************************************)
Exchange(c) ==
    /\ sent[c].open /\ ~answer[c].open
    /\ map' = Merged(sent[c].records)
    /\ answer' = [answer EXCEPT ![c] =
          [records |-> NewerThan(map', sent[c].known),
           missing |-> Missing(map', sent[c].known), open |-> TRUE]]
    /\ UNCHANGED <<held, dirty, sent, late, acknowledged, edits, faults, wipes>>

\* The map cannot be read or stored: an error, and nothing is changed.
ExchangeFails(c) ==
    /\ faults < MaxFaults
    /\ sent[c].open /\ ~answer[c].open
    /\ sent' = [sent EXCEPT ![c] = NoRequest]
    /\ faults' = faults + 1
    /\ UNCHANGED <<map, held, dirty, answer, late, acknowledged, edits, wipes>>

ExchangeLate(q) ==
    /\ map' = Merged(q.records)
    /\ late' = late \ {q}
    /\ UNCHANGED <<held, dirty, sent, answer, acknowledged, edits, faults, wipes>>

\* A start under another key: the collection is moved aside, and requests and
\* answers are lost with the old process.
Wipe ==
    /\ wipes < MaxWipes
    /\ map' = Nothing /\ late' = {} /\ acknowledged' = {}
    /\ sent' = [c \in Clients |-> NoRequest] /\ answer' = [c \in Clients |-> NoAnswer]
    /\ wipes' = wipes + 1
    /\ UNCHANGED <<held, dirty, edits, faults>>

LegacyNext ==
    \/ \E c \in Clients, r \in Envelope : Edit(c, r)
    \/ \E c \in Clients :
          Request(c) \/ Exchange(c) \/ Receive(c) \/ GiveUp(c) \/ ExchangeFails(c)
    \/ \E q \in late : ExchangeLate(q)
    \/ Wipe

\* A client syncs again and again, and an exchange that can be carried out is.
LegacyFairness ==
    \A c \in Clients : WF_legacyVars(Request(c)) /\ WF_legacyVars(Exchange(c)) /\ WF_legacyVars(Receive(c))

LegacySpec == LegacyInit /\ [][LegacyNext]_legacyVars /\ LegacyFairness
-----------------------------------------------------------------------------
(***************************************************************************)
(* Properties.                                                             *)
(***************************************************************************)

\* An acknowledged record is never displaced by one it would have won against,
\* however late or often requests arrive, until the collection itself is lost
\* (sync.rs:73-78, 206-214).
NotDisplaced == \A r \in acknowledged : map[r.id].at # NoTime /\ ~Wins(r, map[r.id])

Agree == \A c \in Clients, id \in Ids : held[c][id].at = map[id].at
Covered == \A c \in Clients, id \in Ids : held[c][id].at # NoTime => map[id].at # NoTime

\* Once the clients stop editing they end with the server's version of every
\* record, told by no more than times (sync.rs:216-224).  After a collection was
\* lost, what the `missing` list achieves is that the server has a version of
\* every record again, not that it is the newest: the first client to push
\* decides, and one that holds a newer version is neither asked for it nor told
\* (sync.rs:226-232).
Converges == <>[](IF wipes = 0 THEN Agree ELSE Covered)
=============================================================================

--------------------------- MODULE RelayControlProofs ---------------------------
(***************************************************************************)
(* Theorems about RelayControl and about Updater, which runs beside it, for*)
(* any number of supervisors and commands.                                 *)
(***************************************************************************)
EXTENDS Updater, TLAPS

\* The watched key is that of the settings while there is a supervisor.
WatchMatches ==
    relayTask # None /\ ~unpublished => apiKey = Published(settings, key)

\* The last word to the relay, its rekeys included, is the key seen; without
\* a lane there is none.  Neither a session nor a rekey outlives its connection.
LastWord(s) == IF s.rekeys = <<>> THEN s.relay ELSE s.rekeys[Len(s.rekeys)]

ToldOf(s) ==
    /\ s.step # "live" => s.session = "idle"
    /\ s.step = "dialing" => s.rekeys = <<>>
    /\ s.step \in {"hello", "live"} =>
        /\ LastWord(s) = s.seen
        /\ ~s.lane => s.seen = None /\ s.rekeys = <<>>

Told == \A i \in Ids : ToldOf(sup[i])

IInv == TypeOK /\ OneSupervisor /\ StatusTells /\ WatchMatches /\ Told

\* What a supervisor's step changes: its own record, the status and astray.
LEMMA SuperviseFrame ==
  ASSUME NEW i \in Ids, Supervise(i)
  PROVE  UNCHANGED Untouched
  BY DEF Supervise, Begin, SendHello, HelloOk, ConnectionEnds, BackoffEnds,
         KeyChanged, RelayTakes, StartHandshake, SessionUp, SessionDown, Cancel

LEMMA SuperviseType ==
  ASSUME TypeOK, NEW i \in Ids, Supervise(i)
  PROVE  /\ TypeOK'
         /\ \E s \in Sups : sup' = [sup EXCEPT ![i] = s]
  <1>0. sup[i] \in Sups /\ apiKey \in Nat
    BY DEF TypeOK
  <1>1. NoSup \in Sups
    BY DEF NoSup, Sup, Sups, Steps, None
  <1>2. \A step \in Steps : Unconnected(i, step) \in Sups
    <2>1. sup[i].target \in Nat /\ sup[i].token \in Nat /\ None \in Nat
      BY <1>0 DEF Sups, None
    <2>2. <<>> \in Seq(Nat)
      OBVIOUS
    <2> QED
      BY <2>1, <2>2 DEF Unconnected, Sup, Sups
  <1>3. \E s \in Sups : sup' = [sup EXCEPT ![i] = s]
    <2>1. CASE Begin(i) \/ ConnectionEnds(i) \/ BackoffEnds(i)
      BY <1>2, <2>1 DEF Begin, ConnectionEnds, BackoffEnds, Becomes, Steps
    <2>2. CASE SendHello(i) \/ HelloOk(i) \/ StartHandshake(i) \/ SessionUp(i) \/ SessionDown(i)
      BY <1>0, <2>2 DEF SendHello, HelloOk, StartHandshake, SessionUp, SessionDown, Becomes, Sups, Steps
    <2>3. CASE KeyChanged(i)
      <3>1. Append(sup[i].rekeys, apiKey) \in Seq(Nat)
        BY <1>0 DEF Sups
      <3>2. [sup[i] EXCEPT !.seen = apiKey, !.rekeys = Append(@, apiKey)] \in Sups
        BY <1>0, <3>1 DEF Sups
      <3> QED
        BY <1>2, <2>3, <3>2 DEF KeyChanged, Becomes, Steps
    <2>4. CASE RelayTakes(i)
      <3>1. sup[i].rekeys \in Seq(Nat) /\ sup[i].rekeys # <<>>
        BY <1>0, <2>4 DEF RelayTakes, Sups
      <3>2. Head(sup[i].rekeys) \in Nat /\ Tail(sup[i].rekeys) \in Seq(Nat)
        BY <3>1
      <3> QED
        BY <1>0, <2>4, <3>2 DEF RelayTakes, Becomes, Sups
    <2>5. CASE Cancel(i)
      BY <1>1, <2>5 DEF Cancel, Becomes
    <2> QED
      BY <2>1, <2>2, <2>3, <2>4, <2>5 DEF Supervise
  <1>4. sup' \in [Ids -> Sups]
    BY <1>3 DEF TypeOK
  <1>5. /\ status' \in {"disabled", "connecting", "waiting", "online", "offline"}
        /\ astray' \in BOOLEAN
    BY DEF TypeOK, Supervise, Begin, SendHello, HelloOk, ConnectionEnds, BackoffEnds,
           KeyChanged, RelayTakes, StartHandshake, SessionUp, SessionDown, Cancel, Report, Silent
  <1> QED
    BY <1>3, <1>4, <1>5, SuperviseFrame DEF TypeOK, Untouched, secrets

\* What a command does to the supervisors: it aborts the one in charge, and
\* may start one, whose key is the one it publishes.
Started(s, to) ==
    /\ relayTask' = spawned + 1 /\ spawned' = spawned + 1 /\ spawned' \in Ids
    /\ sup' = [sup EXCEPT ![spawned + 1] = Sup("begin", to, token)]
    /\ apiKey' = Published(s, key) /\ status' = "connecting"

Stopped ==
    /\ relayTask' = None /\ UNCHANGED <<sup, spawned, apiKey>>
    /\ ~astray' => status' = "disabled"
    /\ status' \in {status, "disabled"}

LEMMA RespawnDoes ==
  ASSUME TypeOK, StatusTells, NEW s, NEW to,
         SpawnReal(s, to) \/ Disconnect \/ Respawn(s, to)
  PROVE  /\ Started(s, to) \/ Stopped
         /\ astray' \in BOOLEAN /\ unpublished' \in BOOLEAN
         /\ AbortTask
  <1>1. SpawnReal(s, to) \/ Disconnect
    BY DEF Respawn
  <1>2. CASE Disconnect
    BY <1>2 DEF Disconnect, Stopped, TypeOK
  <1>3. CASE SpawnReal(s, to)
    <2>1. AbortTask
      BY <1>3 DEF SpawnReal
    <2>2. ASSUME spawned < MaxSpawns, spawned' = spawned + 1
          PROVE  spawned' \in Ids
      BY <2>2, BoundAssumption DEF TypeOK, Ids
    <2>3. astray' \in BOOLEAN /\ unpublished' \in BOOLEAN
      BY <1>3, Zenon DEF SpawnReal, TypeOK
    <2>4. Started(s, to) \/ Stopped
      BY <1>3, <2>2 DEF SpawnReal, Started, Stopped, TypeOK, StatusTells
    <2> QED
      BY <2>1, <2>3, <2>4
  <1> QED
    BY <1>1, <1>2, <1>3


\* The conjuncts of the invariant that a command can disturb.
CommandInv == OneSupervisor /\ StatusTells /\ WatchMatches /\ Told

\* A command that may restart or stop the supervisor, with these settings and
\* target from now on.
LEMMA RespawnStep ==
  ASSUME IInv, NEW s \in [auto: BOOLEAN, endpoint: BOOLEAN], NEW to \in Nat,
         SpawnReal(s, to) \/ Disconnect \/ Respawn(s, to),
         settings' = s, target' = to, UNCHANGED <<token, key>>,
         commands' \in 0..MaxCommands
  PROVE  TypeOK' /\ CommandInv'
  <1> USE DEF IInv
  <1>1. /\ Started(s, to) \/ Stopped
        /\ astray' \in BOOLEAN /\ unpublished' \in BOOLEAN
        /\ AbortTask
    BY RespawnDoes
  <1>2. /\ Sup("begin", to, token) \in Sups
        /\ Sup("begin", to, token).step = "begin"
        /\ Sup("begin", to, token).target = to
    BY DEF TypeOK, Sup, Sups, Steps, None
  <1>3. aborted' \subseteq Ids
    BY <1>1, BoundAssumption DEF AbortTask, TypeOK, Ids, None
  <1>4. \A i \in Ids : i \notin aborted' /\ Runs(i) => FALSE
    BY <1>1 DEF AbortTask, OneSupervisor, Runs, TypeOK, Ids, None
  <1>5. CASE Started(s, to)
    <2>1. /\ sup' \in [Ids -> Sups]
          /\ \A i \in Ids : sup'[i] = IF i = spawned + 1 THEN Sup("begin", to, token) ELSE sup[i]
      BY <1>2, <1>5 DEF Started, TypeOK
    <2>2. spawned' \in 0..MaxSpawns /\ relayTask' = spawned + 1 /\ relayTask' \in 0..spawned'
          /\ relayTask' \in Ids /\ relayTask' # None
      BY <1>5, BoundAssumption DEF Started, TypeOK, Ids, None
    <2>3. apiKey' \in 0..key'
      BY <1>5 DEF Started, Published, TypeOK, None
    <2>4. TypeOK'
      BY <1>1, <1>3, <1>5, <2>1, <2>2, <2>3 DEF TypeOK, Started
    <2>5. OneSupervisor'
      BY <1>2, <1>4, <2>1, <2>2 DEF OneSupervisor, Runs
    <2>6. StatusTells'
      BY <1>2, <1>5, <2>1, <2>2 DEF StatusTells, Says, Started
    <2>7. WatchMatches'
      BY <1>5 DEF WatchMatches, Started, Published
    <2>8. ToldOf(Sup("begin", to, token))
      BY <1>2 DEF ToldOf, Sup
    <2>9. Told'
      BY <2>1, <2>8 DEF Told, ToldOf, LastWord
    <2> QED
      BY <2>4, <2>5, <2>6, <2>7, <2>9 DEF CommandInv
  <1>6. CASE Stopped
    <2>1. TypeOK'
      BY <1>1, <1>3, <1>6 DEF TypeOK, Stopped, None
    <2>2. OneSupervisor'
      BY <1>4, <1>6 DEF OneSupervisor, Stopped, Runs
    <2>3. StatusTells' /\ WatchMatches'
      BY <1>6 DEF StatusTells, WatchMatches, Stopped
    <2>4. Told'
      BY <1>6 DEF Told, ToldOf, LastWord, Stopped
    <2> QED
      BY <2>1, <2>2, <2>3, <2>4 DEF CommandInv
  <1> QED
    BY <1>1, <1>5, <1>6

LEMMA CommandStep ==
  ASSUME IInv, GiveCommand
  PROVE  TypeOK' /\ CommandInv'
  <1> USE DEF IInv
  <1>0. commands' \in 0..MaxCommands
    BY BoundAssumption
    DEF GiveCommand, Start, ConnectRelay, DisconnectRelay, RelayToggle, SaveSettings,
        RegeneratePairing, RegenerateBearerToken, RegenerateOpenaiKey, Command, TypeOK
  <1>1. settings \in [auto: BOOLEAN, endpoint: BOOLEAN] /\ target \in Nat
    BY DEF TypeOK
  <1>2. CASE Start \/ ConnectRelay \/ DisconnectRelay \/ RelayToggle
    BY <1>0, <1>1, <1>2, RespawnStep
    DEF Start, ConnectRelay, DisconnectRelay, RelayToggle, secrets
  <1>3. CASE RegeneratePairing
    BY <1>0, <1>1, <1>3, RespawnStep DEF RegeneratePairing
  <1>4. CASE SaveSettings
    <2>1. settings' \in [auto: BOOLEAN, endpoint: BOOLEAN] /\ target' \in Nat
      BY <1>1, <1>4 DEF SaveSettings
    <2>2. CASE target' # target \/ settings'.auto # settings.auto
      BY <1>0, <1>4, <2>1, <2>2, RespawnStep DEF SaveSettings
    <2>3. CASE ~(target' # target \/ settings'.auto # settings.auto)
      <3>1. /\ UNCHANGED <<status, relayTask, sup, spawned, aborted, astray, token, key, target>>
            /\ \/ apiKey' = Published(settings', key) /\ unpublished' = FALSE
               \/ unpublished' = TRUE /\ UNCHANGED apiKey
        BY <1>4, <2>3 DEF SaveSettings
      <3>2. apiKey' \in 0..key'
        BY <3>1 DEF TypeOK, Published, None
      <3>3. unpublished' \in BOOLEAN
        BY <3>1, Zenon
      <3>4. TypeOK'
        BY <1>0, <2>1, <3>1, <3>2, <3>3 DEF TypeOK
      <3>5. WatchMatches'
        BY <3>1 DEF WatchMatches, Published
      <3> QED
        BY <3>1, <3>4, <3>5 DEF CommandInv, OneSupervisor, Runs, StatusTells, Told, ToldOf, LastWord
    <2> QED
      BY <2>2, <2>3
  <1>5. CASE RegenerateBearerToken
    <2>1. TypeOK'
      BY <1>0, <1>5 DEF RegenerateBearerToken, TypeOK
    <2> QED
      BY <1>5, <2>1 DEF RegenerateBearerToken, CommandInv, OneSupervisor, Runs,
                        StatusTells, WatchMatches, Told, ToldOf, LastWord
  <1>6. CASE RegenerateOpenaiKey
    <2>1. /\ UNCHANGED <<settings, target, token, status, relayTask, sup, spawned,
                         aborted, astray>>
          /\ key' = key + 1
          /\ IF settings.endpoint THEN apiKey' = key' /\ unpublished' = FALSE
                                  ELSE UNCHANGED <<apiKey, unpublished>>
      BY <1>6 DEF RegenerateOpenaiKey
    <2>2. key' \in Nat \ {None} /\ apiKey' \in 0..key'
      BY <2>1 DEF TypeOK, None
    <2>3. unpublished' \in BOOLEAN
      BY <2>1, Zenon DEF TypeOK
    <2>4. TypeOK'
      BY <1>0, <2>1, <2>2, <2>3 DEF TypeOK
    <2>5. WatchMatches'
      BY <2>1 DEF WatchMatches, Published
    <2> QED
      BY <2>1, <2>4, <2>5 DEF CommandInv, OneSupervisor, Runs, StatusTells, Told, ToldOf, LastWord
  <1> QED
    BY <1>2, <1>3, <1>4, <1>5, <1>6 DEF GiveCommand

\* What a step of supervisor i makes of it: it keeps its target, its status is
\* reported or was right, and it stays told.
Moves(i, old, s) ==
    /\ s.step = "none" \/ (old.step # "none" /\ s.target = old.target)
    /\ \/ Silent /\ Says(old) \subseteq Says(s)
       \/ \E st \in Says(s) : Report(i, st)
    /\ ToldOf(s)

LEMMA UnconnectedIs ==
  ASSUME NEW i \in Ids, NEW step
  PROVE  /\ Unconnected(i, step).step = step
         /\ Unconnected(i, step).target = sup[i].target
         /\ Unconnected(i, step).session = "idle" /\ Unconnected(i, step).rekeys = <<>>
  BY DEF Unconnected, Sup

LEMMA SaysAnything ==
  ASSUME NEW s, s.step \in {"none", "begin"}, NEW old
  PROVE  Says(old) \subseteq Says(s)
  <1>1. Says(s) = {"connecting", "waiting", "online", "offline"}
    BY DEF Says
  <1>2. Says(old) \subseteq {"connecting", "waiting", "online", "offline"}
    BY DEF Says
  <1> QED
    BY <1>1, <1>2

\* A rekey that joins the queue is the last word; one that leaves it, if it
\* was the last, becomes what the relay knows.
LEMMA AppendIsLast ==
  ASSUME NEW q \in Seq(Nat), NEW k \in Nat
  PROVE  Append(q, k) # <<>> /\ Append(q, k)[Len(Append(q, k))] = k
  OBVIOUS

LEMMA TailKeepsLast ==
  ASSUME NEW q \in Seq(Nat), q # <<>>
  PROVE  q[Len(q)] = IF Tail(q) = <<>> THEN Head(q) ELSE Tail(q)[Len(Tail(q))]
  <1>1. Len(q) \in Nat \ {0} /\ Len(Tail(q)) = Len(q) - 1 /\ Tail(q) \in Seq(Nat)
    OBVIOUS
  <1>2. CASE Len(q) = 1
    BY <1>1, <1>2
  <1>3. CASE Len(q) > 1
    <2>1. Tail(q) # <<>>
      <3>1. Len(<<>>) = 0
        OBVIOUS
      <3>2. Tail(q) = <<>> => Len(Tail(q)) = 0
        BY <3>1, Zenon
      <3> QED
        BY <1>1, <1>3, <3>2
    <2>2. Tail(q)[Len(q) - 1] = q[Len(q)]
      BY <1>1, <1>3
    <2> QED
      BY <1>1, <2>1, <2>2
  <1> QED
    BY <1>1, <1>2, <1>3

LEMMA SuperviseMoves ==
  ASSUME TypeOK, Told, NEW i \in Ids, Supervise(i)
  PROVE  Moves(i, sup[i], sup'[i])
  <1> DEFINE old == sup[i]
             s == sup'[i]
  <1>1. /\ old \in Sups /\ apiKey \in Nat
        /\ \A n : Becomes(i, n) => s = n
    BY DEF TypeOK, Becomes
  <1>2. ToldOf(old)
    BY DEF Told, ToldOf
  <1> HIDE DEF old
  <1>3. ASSUME NEW step, s = Unconnected(i, step)
        PROVE  /\ s.step = step /\ s.target = old.target
               /\ s.session = "idle" /\ s.rekeys = <<>>
    BY <1>3 DEF Unconnected, Sup, old
  <1>4. CASE Begin(i)
    <2>1. s = Unconnected(i, "dialing") /\ Report(i, "connecting") /\ old.step = "begin"
      BY <1>1, <1>4 DEF Begin, old
    <2>2. /\ s.step = "dialing" /\ s.target = old.target
          /\ s.session = "idle" /\ s.rekeys = <<>>
      BY <1>3, <2>1
    <2> QED
      BY <2>1, <2>2 DEF Moves, Says, ToldOf, old
  <1>5. CASE SendHello(i)
    <2>1. /\ s = [old EXCEPT !.step = "hello", !.lane = apiKey # None,
                             !.seen = apiKey, !.relay = apiKey]
          /\ Silent /\ old.step = "dialing"
      BY <1>1, <1>5 DEF SendHello, old
    <2>2. /\ s.step = "hello" /\ s.lane = (apiKey # None) /\ s.seen = apiKey
          /\ s.relay = apiKey /\ s.target = old.target /\ s.rekeys = old.rekeys
      BY <1>1, <2>1 DEF Sups
    <2>3. s.rekeys = <<>> /\ s.session = "idle"
      <3>1. s.session = old.session
        BY <1>1, <2>1 DEF Sups
      <3> QED
        BY <1>2, <2>1, <2>2, <3>1 DEF ToldOf
    <2>4. ToldOf(s)
      BY <2>2, <2>3 DEF ToldOf, LastWord
    <2>5. Says(old) = Says(s)
      BY <2>1, <2>2 DEF Says
    <2> QED
      BY <2>1, <2>2, <2>4, <2>5 DEF Moves, old
  <1>6. CASE HelloOk(i) \/ StartHandshake(i) \/ SessionUp(i) \/ SessionDown(i)
    <2>1. old.step \in {"hello", "live"} /\ LastWord(old) = old.seen
      BY <1>2, <1>6 DEF HelloOk, StartHandshake, SessionUp, SessionDown, ToldOf, old
    <2>2. /\ s.step = "live" /\ s.target = old.target /\ s.lane = old.lane
          /\ s.seen = old.seen /\ s.rekeys = old.rekeys /\ s.relay = old.relay
      BY <1>1, <1>6 DEF HelloOk, StartHandshake, SessionUp, SessionDown, Sups, Steps, old
    <2>3. ToldOf(s)
      BY <1>2, <2>1, <2>2 DEF ToldOf, LastWord
    <2>4. CASE HelloOk(i)
      <3>1. Report(i, "waiting") /\ old.step = "hello" /\ s.session = old.session
        BY <1>1, <2>4 DEF HelloOk, Sups, old
      <3>2. s.session = "idle"
        BY <1>2, <3>1 DEF ToldOf
      <3>3. "waiting" \in Says(s)
        BY <2>2, <3>2 DEF Says
      <3> QED
        BY <2>1, <2>2, <2>3, <3>1, <3>3 DEF Moves, old
    <2>5. CASE SessionUp(i)
      <3>1. Report(i, "online") /\ s.session = "established"
        BY <1>1, <2>5 DEF SessionUp, Sups, old
      <3>2. "online" \in Says(s)
        BY <2>2, <3>1 DEF Says
      <3> QED
        BY <2>1, <2>2, <2>3, <3>1, <3>2 DEF Moves, old
    <2>6. CASE SessionDown(i)
      <3>1. Report(i, "waiting") /\ s.session \in {"idle", "handshaking"}
        BY <1>1, <2>6 DEF SessionDown, Sups, old
      <3>2. "waiting" \in Says(s)
        BY <2>2, <3>1 DEF Says
      <3> QED
        BY <2>1, <2>2, <2>3, <3>1, <3>2 DEF Moves, old
    <2>7. CASE StartHandshake(i)
      <3>1. Silent /\ s.session = "handshaking" /\ old.step = "live"
        BY <1>1, <2>7 DEF StartHandshake, Sups, old
      <3>2. Says(s) = {"waiting", "online"} /\ Says(old) \subseteq {"waiting", "online"}
        BY <1>1, <2>2, <3>1 DEF Says, Sups
      <3> QED
        BY <2>1, <2>2, <2>3, <3>1, <3>2 DEF Moves, old
    <2> QED
      BY <1>6, <2>4, <2>5, <2>6, <2>7
  <1>7. CASE ConnectionEnds(i)
    <2>1. s = Unconnected(i, "backoff") /\ Report(i, "offline") /\ old.step # "none"
      BY <1>1, <1>7 DEF ConnectionEnds, old
    <2>2. /\ s.step = "backoff" /\ s.target = old.target
          /\ s.session = "idle" /\ s.rekeys = <<>>
      BY <1>3, <2>1
    <2> QED
      BY <2>1, <2>2 DEF Moves, Says, ToldOf, old
  <1>8. CASE BackoffEnds(i)
    <2>1. s = Unconnected(i, "begin") /\ Silent /\ old.step = "backoff"
      BY <1>1, <1>8 DEF BackoffEnds, old
    <2>2. /\ s.step = "begin" /\ s.target = old.target
          /\ s.session = "idle" /\ s.rekeys = <<>>
      BY <1>3, <2>1
    <2> QED
      BY <2>1, <2>2, SaysAnything DEF Moves, ToldOf, old
  <1>9. CASE KeyChanged(i)
    <2>1. /\ old.step = "live" /\ Silent
          /\ s = IF old.lane
                 THEN [old EXCEPT !.seen = apiKey, !.rekeys = Append(old.rekeys, apiKey)]
                 ELSE Unconnected(i, "begin")
      BY <1>1, <1>9 DEF KeyChanged, old
    <2>2. CASE old.lane
      <3>1. /\ s.step = "live" /\ s.target = old.target /\ s.lane = old.lane
            /\ s.seen = apiKey /\ s.rekeys = Append(old.rekeys, apiKey)
            /\ s.session = old.session
        BY <1>1, <2>1, <2>2 DEF Sups
      <3>2. old.rekeys \in Seq(Nat)
        BY <1>1 DEF Sups
      <3>3. LastWord(s) = s.seen
        BY <1>1, <3>1, <3>2, AppendIsLast DEF LastWord
      <3>4. ToldOf(s)
        BY <2>2, <3>1, <3>3 DEF ToldOf
      <3>5. Says(old) = Says(s)
        BY <2>1, <3>1 DEF Says
      <3> QED
        BY <2>1, <3>1, <3>4, <3>5 DEF Moves, old
    <2>3. CASE ~old.lane
      <3>1. /\ s.step = "begin" /\ s.target = old.target
            /\ s.session = "idle" /\ s.rekeys = <<>>
        BY <1>3, <2>1, <2>3
      <3> QED
        BY <2>1, <3>1, SaysAnything DEF Moves, ToldOf, old
    <2> QED
      BY <2>2, <2>3
  <1>10. CASE RelayTakes(i)
    <2>1. /\ old.step = "live" /\ old.rekeys # <<>> /\ Silent
          /\ s = [old EXCEPT !.relay = Head(old.rekeys), !.rekeys = Tail(old.rekeys)]
      BY <1>1, <1>10 DEF RelayTakes, old
    <2>2. /\ s.step = "live" /\ s.target = old.target /\ s.lane = old.lane
          /\ s.seen = old.seen /\ s.session = old.session
          /\ s.relay = Head(old.rekeys) /\ s.rekeys = Tail(old.rekeys)
      BY <1>1, <2>1 DEF Sups
    <2>3. old.rekeys \in Seq(Nat)
      BY <1>1 DEF Sups
    <2>4. LastWord(s) = LastWord(old)
      BY <2>1, <2>2, <2>3, TailKeepsLast DEF LastWord
    <2>5. ToldOf(s)
      BY <1>2, <2>1, <2>2, <2>4 DEF ToldOf
    <2>6. Says(old) = Says(s)
      BY <2>1, <2>2 DEF Says
    <2> QED
      BY <2>1, <2>2, <2>5, <2>6 DEF Moves, old
  <1>11. CASE Cancel(i)
    <2>1. s = NoSup /\ Silent
      BY <1>1, <1>11 DEF Cancel
    <2>2. s.step = "none" /\ s.session = "idle"
      BY <2>1 DEF NoSup, Sup
    <2> QED
      BY <2>1, <2>2, SaysAnything DEF Moves, ToldOf, old
  <1> QED
    BY <1>4, <1>5, <1>6, <1>7, <1>8, <1>9, <1>10, <1>11 DEF Supervise

LEMMA SuperviseStep ==
  ASSUME IInv, NEW i \in Ids, Supervise(i)
  PROVE  TypeOK' /\ CommandInv'
  <1> USE DEF IInv
  <1>1. UNCHANGED <<settings, target, token, key, apiKey, relayTask, spawned, aborted,
                    commands, unpublished>>
    BY SuperviseFrame DEF Untouched, secrets
  <1>2. TypeOK' /\ \E s \in Sups : sup' = [sup EXCEPT ![i] = s]
    BY SuperviseType
  <1>3. /\ Moves(i, sup[i], sup'[i])
        /\ \A j \in Ids : j # i => sup'[j] = sup[j]
    BY <1>2, SuperviseMoves DEF TypeOK
  <1>4. WatchMatches'
    BY <1>1 DEF WatchMatches, Published
  <1>5. OneSupervisor'
    BY <1>1, <1>3 DEF OneSupervisor, Runs, Moves
  <1>6. Told'
    <2>1. ToldOf(sup'[i])
      BY <1>3 DEF Moves
    <2>2. \A j \in Ids : ToldOf(sup'[j])
      BY <1>3, <2>1 DEF Told
    <2> QED
      BY <2>2 DEF Told, ToldOf, LastWord
  <1>7. StatusTells'
    <2>1. relayTask' = relayTask /\ (relayTask # None => relayTask \in Ids)
      BY <1>1, BoundAssumption DEF TypeOK, Ids, None
    <2>2. CASE Silent /\ Says(sup[i]) \subseteq Says(sup'[i])
      <3>1. ~astray' =>
              IF relayTask = None THEN status' = "disabled"
              ELSE status' \in Says(sup'[relayTask])
        BY <1>3, <2>1, <2>2 DEF Silent, StatusTells
      <3> QED
        BY <2>1, <3>1 DEF StatusTells, Says
    <2>3. ASSUME NEW st \in Says(sup'[i]), Report(i, st)
          PROVE  StatusTells'
      <3>1. ~astray' => relayTask = i
        BY <2>3 DEF Report
      <3>2. ~astray' => relayTask # None /\ status' \in Says(sup'[relayTask])
        BY <2>3, <3>1 DEF Report, Ids, None
      <3> QED
        BY <2>1, <3>2 DEF StatusTells, Says
    <2> QED
      BY <1>3, <2>2, <2>3 DEF Moves
  <1> QED
    BY <1>2, <1>4, <1>5, <1>6, <1>7 DEF CommandInv

\* The invariant holds from start-up on, whatever commands are given.
LEMMA InitIInv == Init => IInv
  <1>1. ASSUME Init PROVE NoSup \in Sups /\ NoSup.step = "none" /\ NoSup.session = "idle"
    BY DEF NoSup, Sup, Sups, Steps, None
  <1>2. ASSUME Init PROVE TypeOK
    <2>1. sup \in [Ids -> Sups]
      BY <1>1, <1>2 DEF Init
    <2>2. unpublished \in BOOLEAN /\ astray \in BOOLEAN
      BY <1>2 DEF Init
    <2>3. /\ settings \in [auto: BOOLEAN, endpoint: BOOLEAN]
          /\ target \in Nat /\ token \in Nat /\ key \in Nat \ {None}
          /\ apiKey \in 0..key /\ status = "disabled"
          /\ spawned \in 0..MaxSpawns /\ relayTask \in 0..spawned
          /\ aborted \subseteq Ids /\ commands \in 0..MaxCommands
      BY <1>2, BoundAssumption DEF Init, None
    <2> QED
      BY <2>1, <2>2, <2>3 DEF TypeOK
  <1>3. ASSUME Init PROVE OneSupervisor /\ StatusTells /\ WatchMatches /\ Told
    BY <1>1, <1>3 DEF Init, OneSupervisor, Runs, StatusTells, WatchMatches, Told, ToldOf
  <1> QED
    BY <1>2, <1>3 DEF IInv

LEMMA NextIInv == IInv /\ [Next]_vars => IInv'
  <1> SUFFICES ASSUME IInv, [Next]_vars PROVE IInv'
    OBVIOUS
  <1>1. CASE GiveCommand
    BY <1>1, CommandStep DEF IInv, CommandInv
  <1>2. CASE \E i \in Ids : Supervise(i)
    BY <1>2, SuperviseStep DEF IInv, CommandInv
  <1>3. CASE UNCHANGED vars
    BY <1>3 DEF vars, IInv, TypeOK, OneSupervisor, Runs, StatusTells, WatchMatches,
                Published, Told, ToldOf, LastWord, Says
  <1> QED
    BY <1>1, <1>2, <1>3 DEF Next

THEOREM Invariant == Spec => []IInv
  BY InitIInv, NextIInv, PTL DEF Spec

\* Every variable has its type.
THEOREM TypeCorrect == Spec => []TypeOK
  <1>1. IInv => TypeOK
    BY DEF IInv
  <1> QED
    BY <1>1, Invariant, PTL

\* At most one supervisor runs that was not told to stop, and it dials what the
\* settings say: however fast connects, disconnects and saves follow each other.
THEOREM OneSupervised == Spec => []OneSupervisor
  <1>1. IInv => OneSupervisor
    BY DEF IInv
  <1> QED
    BY <1>1, Invariant, PTL

LEMMA KeyFollows == IInv => KeyKnown
  <1> SUFFICES ASSUME IInv, NEW i \in Ids, i \notin aborted, sup[i].step = "live",
                      sup[i].seen = apiKey, sup[i].rekeys = <<>>, ~unpublished
               PROVE  sup[i].relay = Published(settings, key)
    BY DEF KeyKnown
  <1>1. relayTask # None
    BY DEF IInv, OneSupervisor, Runs, Ids, None
  <1>2. apiKey = Published(settings, key)
    BY <1>1 DEF IInv, WatchMatches
  <1>3. LastWord(sup[i]) = sup[i].seen
    BY DEF IInv, Told, ToldOf
  <1> QED
    BY <1>2, <1>3 DEF LastWord

\* The relay has the key of the settings once it has been told what is published.
THEOREM KeyIsKnown == Spec => []KeyKnown
  BY KeyFollows, Invariant, PTL

\* The status is the word of the supervisor in charge, but for what astray says.
THEOREM StatusIsTold == Spec => []StatusTells
  <1>1. IInv => StatusTells
    BY DEF IInv
  <1> QED
    BY <1>1, Invariant, PTL

-----------------------------------------------------------------------------
(* The updater beside it.                                                  *)

\* The app that restarts takes all its supervisors with it, and its status is
\* still one that a supervisor may have reported.
LEMMA RestartKeeps ==
  ASSUME IInv, NEW t \in Tasks, Restart(t)
  PROVE  IInv'
  <1>1. NoSup \in Sups /\ NoSup.step = "none" /\ NoSup.session = "idle"
    BY DEF NoSup, Sup, Sups, Steps, None
  <1>2. \A i \in Ids : sup'[i] = NoSup
    BY DEF Restart
  <1>3. TypeOK'
    <2>1. sup' \in [Ids -> Sups]
      BY <1>1 DEF Restart
    <2> QED
      BY <2>1 DEF Restart, secrets, IInv, TypeOK
  <1>4. OneSupervisor' /\ Told'
    BY <1>1, <1>2 DEF OneSupervisor, Runs, Told, ToldOf
  <1>5. WatchMatches'
    BY DEF IInv, WatchMatches, Published, Restart, secrets
  <1>6. StatusTells'
    <2>1. CASE astray \/ relayTask = None
      BY <2>1 DEF IInv, StatusTells, Restart
    <2>2. CASE ~astray /\ relayTask # None
      <3>1. relayTask \in Ids
        BY <2>2, BoundAssumption DEF IInv, TypeOK, Ids, None
      <3>2. status \in Says(sup[relayTask])
        BY <2>2 DEF IInv, StatusTells
      <3>3. status \in {"connecting", "waiting", "online", "offline"}
        BY <3>2 DEF Says
      <3>4. Says(NoSup) = {"connecting", "waiting", "online", "offline"}
        BY <1>1 DEF Says
      <3> QED
        BY <1>2, <2>2, <3>1, <3>3, <3>4 DEF StatusTells, Restart
    <2> QED
      BY <2>1, <2>2
  <1> QED
    BY <1>3, <1>4, <1>5, <1>6 DEF IInv

UpdateIInv == IInv /\ UpdateTypeOK /\ DownloadIsReal

LEMMA UpdateStepKeeps ==
  ASSUME UpdateTypeOK, DownloadIsReal, UpdateStep, UNCHANGED vars
  PROVE  UpdateTypeOK' /\ DownloadIsReal'
  <1>1. TypeOK'
    BY DEF UpdateTypeOK, TypeOK, vars, Sups, Ids
  <1>2. PICK t \in Tasks : Check(t) \/ CheckFails(t) \/ NothingNewer(t) \/ Download(t)
                           \/ DownloadFails(t) \/ (t = "monitor" /\ Hold)
    BY DEF UpdateStep, Tasks
  <1>3. CASE Check(t)
    BY <1>1, <1>3 DEF Check, Proceeds, UpdateTypeOK, DownloadIsReal
  <1>4. CASE CheckFails(t)
    BY <1>1, <1>4 DEF CheckFails, Proceeds, UpdateTypeOK, DownloadIsReal
  <1>5. CASE NothingNewer(t)
    BY <1>1, <1>5 DEF NothingNewer, Proceeds, UpdateTypeOK, DownloadIsReal
  <1>6. CASE Download(t)
    BY <1>1, <1>6 DEF Download, Proceeds, UpdateTypeOK, DownloadIsReal
  <1>7. CASE DownloadFails(t)
    BY <1>1, <1>7 DEF DownloadFails, Proceeds, UpdateTypeOK, DownloadIsReal
  <1>8. CASE t = "monitor" /\ Hold
    BY <1>1, <1>8 DEF Hold, Proceeds, UpdateTypeOK, DownloadIsReal
  <1> QED
    BY <1>2, <1>3, <1>4, <1>5, <1>6, <1>7, <1>8

\* What the updater's properties rest on: its own types and downloads, with the
\* invariant of the relay's supervision beside them (update.rs, relay/mod.rs).
THEOREM UpdateInvariant == UpdateSpec => []UpdateIInv
  <1>1. UpdateInit => UpdateIInv
    <2> SUFFICES ASSUME UpdateInit PROVE UpdateIInv
      OBVIOUS
    <2>1. IInv
      BY InitIInv DEF UpdateInit
    <2> QED
      BY <2>1 DEF UpdateInit, UpdateIInv, IInv, UpdateTypeOK, DownloadIsReal
  <1>2. UpdateIInv /\ [UpdateNext]_allVars => UpdateIInv'
    <2> SUFFICES ASSUME UpdateIInv, [UpdateNext]_allVars PROVE UpdateIInv'
      OBVIOUS
    <2>1. CASE Next /\ UNCHANGED updateVars
      <3>1. IInv'
        BY <2>1, NextIInv DEF UpdateIInv
      <3> QED
        BY <2>1, <3>1 DEF UpdateIInv, IInv, UpdateTypeOK, DownloadIsReal, updateVars
    <2>2. CASE UpdateStep /\ UNCHANGED vars
      <3>1. IInv'
        BY <2>2, NextIInv DEF UpdateIInv
      <3> QED
        BY <2>2, <3>1, UpdateStepKeeps DEF UpdateIInv
    <2>3. CASE \E t \in Tasks : Restart(t)
      <3>1. PICK t \in Tasks : Restart(t)
        BY <2>3
      <3>2. IInv'
        BY <3>1, RestartKeeps DEF UpdateIInv
      <3> QED
        BY <3>1, <3>2 DEF UpdateIInv, IInv, UpdateTypeOK, DownloadIsReal, Restart
    <2>4. CASE UNCHANGED allVars
      <3>1. IInv'
        BY <2>4, NextIInv DEF UpdateIInv, allVars
      <3> QED
        BY <2>4, <3>1 DEF UpdateIInv, IInv, UpdateTypeOK, DownloadIsReal, allVars, updateVars
    <2> QED
      BY <2>1, <2>2, <2>3, <2>4 DEF UpdateNext
  <1> QED
    BY <1>1, <1>2, PTL DEF UpdateSpec

\* The updater's variables have their types, beside the relay's.
THEOREM UpdateTypeCorrect == UpdateSpec => []UpdateTypeOK
  <1>1. UpdateIInv => UpdateTypeOK
    BY DEF UpdateIInv
  <1> QED
    BY <1>1, UpdateInvariant, PTL

\* A status that says downloading always has a task behind it, so it never
\* locks out the ticks and clicks to come.
THEOREM DownloadsAreReal == UpdateSpec => []DownloadIsReal
  <1>1. UpdateIInv => DownloadIsReal
    BY DEF UpdateIInv
  <1> QED
    BY <1>1, UpdateInvariant, PTL

\* What holds of the relay holds with the updater beside it, its restart included.
THEOREM RelayUnharmed == UpdateSpec => [](OneSupervisor /\ KeyKnown /\ StatusTells)
  <1>1. UpdateIInv => OneSupervisor /\ KeyKnown /\ StatusTells
    BY KeyFollows DEF UpdateIInv, IInv
  <1> QED
    BY <1>1, UpdateInvariant, PTL
===============================================================================

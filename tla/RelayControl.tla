----------------------------- MODULE RelayControl -----------------------------
(***************************************************************************)
(* What decides whether amallo is connected, to what and with which keys:  *)
(* the commands of the settings window and the tray (commands.rs, tray.rs),*)
(* the supervisor task they start and stop (relay/mod.rs), and, of the     *)
(* connection it runs (relay/conn.rs), the hello, the key watch and the    *)
(* status it reports.                                                      *)
(*                                                                         *)
(* Commands run on the main thread, one at a time, and are one step each.  *)
(* They stop a supervisor by aborting its task, which asks: the task goes  *)
(* on until it reaches an await that is not ready.  Tokens, API keys, and  *)
(* relay URLs together with pairings (targets) are numbers, a new one is   *)
(* the next number.  Watched values are compared where the code compares   *)
(* versions: a value seen before is published again without effect.        *)
(***************************************************************************)
EXTENDS Integers, Sequences

CONSTANTS
    MaxSpawns,      \* bound: supervisors started
    MaxCommands     \* bound: commands given, start-up included

ASSUME BoundAssumption == MaxSpawns \in Nat /\ MaxCommands \in Nat \ {0}

Ids == 1..MaxSpawns
None == 0

VARIABLES
    settings,   \* auto_connect_relay and openai_endpoint_enabled
    target,     \* the relay URL and pairing material
    token,      \* the bearer token the proxy expects
    key,        \* the API key in the secrets file, or to be in it once asked for
    apiKey,     \* relay_api_key: the watched key, None while off
    status,     \* relay_status
    relayTask,  \* relay_task: the supervisor commands know of
    sup,        \* sup[i]: the i-th supervisor and its connection
    spawned,    \* the number of supervisors started
    aborted,    \* supervisors whose abort was asked for
    commands,   \* the number of commands given
    unpublished,\* history: enabling the endpoint failed after it was saved
    astray      \* history: the status is not the word of the one in charge

vars == <<settings, target, token, key, apiKey, status, relayTask, sup, spawned,
          aborted, commands, unpublished, astray>>
secrets == <<target, token, key>>

\* A supervisor and its connection.  `lane` is whether the hello made an HTTP
\* lane, `seen` the watched key it knows, `rekeys` the rekeys on their way to
\* the relay, `relay` the key the relay has of it.
Steps == {"none", "begin", "dialing", "hello", "live", "backoff"}
Sups == [step: Steps, target: Nat, token: Nat, lane: BOOLEAN, seen: Nat,
         rekeys: Seq(Nat), relay: Nat, session: {"idle", "handshaking", "established"}]
Sup(step, to, stamp) ==
    [step |-> step, target |-> to, token |-> stamp, lane |-> FALSE, seen |-> None,
     rekeys |-> <<>>, relay |-> None, session |-> "idle"]
NoSup == Sup("none", 0, 0)

Init ==
    /\ settings \in [auto: BOOLEAN, endpoint: BOOLEAN]
    /\ target = 1 /\ token = 1 /\ key = 1
    /\ apiKey = None /\ status = "disabled"
    /\ relayTask = None /\ spawned = 0 /\ aborted = {}
    /\ sup = [i \in Ids |-> NoSup]
    /\ commands = 0 /\ unpublished = FALSE /\ astray = FALSE

Runs(i) == sup[i].step # "none"

-----------------------------------------------------------------------------
(* Commands.                                                               *)

Command == commands \in 1..(MaxCommands - 1) /\ commands' = commands + 1

\* Mutant: a task that was never there is aborted too.
AbortAnyTask == aborted' = aborted \cup {relayTask}

AbortTask == aborted' = IF relayTask = None THEN aborted ELSE aborted \cup {relayTask}

\* The key to publish with these settings.
Published(s, k) == IF s.endpoint THEN k ELSE None

\* Mutant: the old task goes on.
DisconnectLeaves ==
    /\ relayTask' = None /\ UNCHANGED aborted
    /\ status' = "disabled" /\ astray' = FALSE
    /\ UNCHANGED <<apiKey, sup, spawned, unpublished>>

Disconnect ==
    /\ AbortTask
    /\ relayTask' = None
    /\ status' = "disabled" /\ astray' = FALSE
    /\ UNCHANGED <<apiKey, sup, spawned, unpublished>>

\* Secrets that cannot be read or written end it after the abort.
SpawnReal(s, to) ==
    /\ AbortTask
    /\ \/ /\ spawned < MaxSpawns
          /\ spawned' = spawned + 1 /\ relayTask' = spawned + 1
          /\ sup' = [sup EXCEPT ![spawned + 1] = Sup("begin", to, token)]
          /\ apiKey' = Published(s, key) /\ unpublished' = FALSE
          /\ status' = "connecting" /\ astray' = FALSE
       \/ /\ relayTask' = None
          /\ astray' = (astray \/ relayTask # None)
          /\ UNCHANGED <<status, apiKey, sup, spawned, unpublished>>

Respawn(s, to) == IF s.auto THEN SpawnReal(s, to) ELSE Disconnect

\* At start-up, before any other command.
Start ==
    /\ commands = 0 /\ commands' = 1
    /\ Respawn(settings, target)
    /\ UNCHANGED <<settings, secrets>>

ConnectRelay ==
    /\ Command /\ SpawnReal(settings, target)
    /\ UNCHANGED <<settings, secrets>>

DisconnectRelay ==
    /\ Command /\ Disconnect
    /\ UNCHANGED <<settings, secrets>>

\* The tray's toggle goes by the status.
RelayToggle ==
    IF status \in {"online", "waiting", "connecting"}
    THEN DisconnectRelay ELSE ConnectRelay

\* A changed URL or auto-connect restarts the supervisor; otherwise a changed
\* endpoint switch is published, unless the key cannot be had.
SaveSettings ==
    /\ Command
    /\ settings' \in [auto: BOOLEAN, endpoint: BOOLEAN]
    /\ target' \in {target, target + 1}
    /\ IF target' # target \/ settings'.auto # settings.auto
       THEN Respawn(settings', target')
       ELSE /\ settings'.endpoint # settings.endpoint
            /\ \/ apiKey' = Published(settings', key) /\ unpublished' = FALSE
               \/ /\ settings'.endpoint
                  /\ unpublished' = TRUE /\ UNCHANGED apiKey
            /\ UNCHANGED <<status, relayTask, sup, spawned, aborted, astray>>
    /\ UNCHANGED <<token, key>>

RegeneratePairing ==
    /\ Command
    /\ target' = target + 1
    /\ Respawn(settings, target')
    /\ UNCHANGED <<settings, token, key>>

RegenerateBearerToken ==
    /\ Command
    /\ token' = token + 1
    /\ UNCHANGED <<settings, target, key, apiKey, status, relayTask, sup, spawned,
                   aborted, unpublished, astray>>

RegenerateOpenaiKey ==
    /\ Command
    /\ key' = key + 1
    /\ IF settings.endpoint
       THEN apiKey' = key' /\ unpublished' = FALSE
       ELSE UNCHANGED <<apiKey, unpublished>>
    /\ UNCHANGED <<settings, target, token, status, relayTask, sup, spawned, aborted, astray>>

-----------------------------------------------------------------------------
(* The supervisor and its connection.                                      *)

Becomes(i, state) == sup' = [sup EXCEPT ![i] = state]
Report(i, st) == status' = st /\ astray' = (i # relayTask)
Silent == UNCHANGED <<status, astray>>
Untouched == <<settings, secrets, apiKey, relayTask, spawned, aborted, commands, unpublished>>

\* What is left of a connection that is over.
Unconnected(i, step) == Sup(step, sup[i].target, sup[i].token)

Begin(i) ==
    /\ sup[i].step = "begin"
    /\ Becomes(i, Unconnected(i, "dialing"))
    /\ Report(i, "connecting")
    /\ UNCHANGED Untouched

\* Connected: the hello carries the key watched now, and marks it seen.
SendHello(i) ==
    /\ sup[i].step = "dialing"
    /\ Becomes(i, [sup[i] EXCEPT !.step = "hello", !.lane = apiKey # None,
                                 !.seen = apiKey, !.relay = apiKey])
    /\ Silent /\ UNCHANGED Untouched

\* Mutant: the key is marked seen when the relay has answered.
HelloOkSees(i) ==
    /\ sup[i].step = "hello"
    /\ Becomes(i, [sup[i] EXCEPT !.step = "live", !.seen = apiKey])
    /\ Report(i, "waiting")
    /\ UNCHANGED Untouched

HelloOk(i) ==
    /\ sup[i].step = "hello"
    /\ Becomes(i, [sup[i] EXCEPT !.step = "live"])
    /\ Report(i, "waiting")
    /\ UNCHANGED Untouched

\* The connection cannot be made or ends, and the backoff begins.
ConnectionEnds(i) ==
    /\ sup[i].step \in {"dialing", "hello", "live"}
    /\ Becomes(i, Unconnected(i, "backoff"))
    /\ Report(i, "offline")
    /\ UNCHANGED Untouched

BackoffEnds(i) ==
    /\ sup[i].step = "backoff"
    /\ Becomes(i, Unconnected(i, "begin"))
    /\ Silent /\ UNCHANGED Untouched

\* Mutant: without an HTTP lane there is nothing to tell the relay.
KeyChangedOnLane(i) ==
    /\ sup[i].step = "live" /\ sup[i].seen # apiKey /\ sup[i].lane
    /\ Becomes(i, [sup[i] EXCEPT !.seen = apiKey, !.rekeys = Append(@, apiKey)])
    /\ Silent /\ UNCHANGED Untouched

\* The key watch: rekey the lane, or redial at once to make one.  Without a
\* lane the key seen is None, and one switched off again is no change.
KeyChanged(i) ==
    /\ sup[i].step = "live" /\ sup[i].seen # apiKey
    /\ Becomes(i, IF sup[i].lane
                  THEN [sup[i] EXCEPT !.seen = apiKey, !.rekeys = Append(@, apiKey)]
                  ELSE Unconnected(i, "begin"))
    /\ Silent /\ UNCHANGED Untouched

\* External: the relay takes a rekey.
RelayTakes(i) ==
    /\ sup[i].step = "live" /\ sup[i].rekeys # <<>>
    /\ Becomes(i, [sup[i] EXCEPT !.relay = Head(sup[i].rekeys),
                                 !.rekeys = Tail(@)])
    /\ Silent /\ UNCHANGED Untouched

\* peer_online, or a handshake frame out of nowhere: the session there is is
\* given up for the next, and the status is left alone meanwhile.
StartHandshake(i) ==
    /\ sup[i].step = "live"
    /\ Becomes(i, [sup[i] EXCEPT !.session = "handshaking"])
    /\ Silent /\ UNCHANGED Untouched

SessionUp(i) ==
    /\ sup[i].step = "live"
    /\ Becomes(i, [sup[i] EXCEPT !.session = "established"])
    /\ Report(i, "online")
    /\ UNCHANGED Untouched

\* Mutant: a session that is retired is not reported.
SessionDownSilent(i) ==
    /\ sup[i].step = "live"
    /\ \E next \in {"idle", "handshaking"} : Becomes(i, [sup[i] EXCEPT !.session = next])
    /\ Silent /\ UNCHANGED Untouched

\* The peer went, a handshake failed, or a session did and is handshaken anew.
SessionDown(i) ==
    /\ sup[i].step = "live"
    /\ \E next \in {"idle", "handshaking"} : Becomes(i, [sup[i] EXCEPT !.session = next])
    /\ Report(i, "waiting")
    /\ UNCHANGED Untouched

\* An abort takes effect, and the connection is over.
Cancel(i) ==
    /\ i \in aborted /\ Runs(i)
    /\ Becomes(i, NoSup)
    /\ Silent /\ UNCHANGED Untouched

-----------------------------------------------------------------------------

GiveCommand ==
    \/ Start \/ ConnectRelay \/ DisconnectRelay \/ RelayToggle
    \/ SaveSettings \/ RegeneratePairing
    \/ RegenerateBearerToken \/ RegenerateOpenaiKey

Supervise(i) ==
    \/ Begin(i) \/ SendHello(i) \/ HelloOk(i) \/ ConnectionEnds(i) \/ BackoffEnds(i)
    \/ KeyChanged(i) \/ RelayTakes(i) \/ Cancel(i)
    \/ StartHandshake(i) \/ SessionUp(i) \/ SessionDown(i)

Next == GiveCommand \/ \E i \in Ids : Supervise(i)

Spec == Init /\ [][Next]_vars

\* Supervisors are scheduled, the read loop polls the key watch before all
\* else (biased), and the relay reads what it is sent.  Neither answers of
\* the relay nor sessions need come.
Fairness ==
    \A i \in Ids : WF_vars(Begin(i)) /\ WF_vars(KeyChanged(i)) /\ WF_vars(RelayTakes(i))

FairSpec == Spec /\ Fairness

-----------------------------------------------------------------------------
(* Properties.                                                             *)

TypeOK ==
    /\ settings \in [auto: BOOLEAN, endpoint: BOOLEAN]
    /\ target \in Nat /\ token \in Nat /\ key \in Nat \ {None}
    /\ apiKey \in 0..key
    /\ status \in {"disabled", "connecting", "waiting", "online", "offline"}
    /\ spawned \in 0..MaxSpawns /\ relayTask \in 0..spawned
    /\ aborted \subseteq Ids /\ commands \in 0..MaxCommands
    /\ sup \in [Ids -> Sups]
    /\ unpublished \in BOOLEAN /\ astray \in BOOLEAN

\* There is exactly one supervised connection (the module comment of
\* relay/mod.rs): whatever else still runs was aborted, and the one in charge
\* dials the relay and the pairing of the settings.
OneSupervisor ==
    \A i \in Ids : Runs(i) /\ i \notin aborted => i = relayTask /\ sup[i].target = target

\* Once its rekeys have been taken, the relay has of the live connection the
\* key the settings say, whenever it was switched on, off or regenerated, the
\* hello being under way included; unless its publication had failed.
KeyKnown ==
    \A i \in Ids \ aborted :
        sup[i].step = "live" /\ sup[i].seen = apiKey /\ sup[i].rekeys = <<>> /\ ~unpublished
            => sup[i].relay = Published(settings, key)

\* And they are taken: a connection that stays up has the relay know the key
\* that is published, a lane it was not helloed with included (ConnEnd::Redial).
KeyComes ==
    \A i \in Ids :
        sup[i].step = "live" ~> (sup[i].step # "live" \/ sup[i].relay = apiKey)

\* The status fits the connection of the supervisor in charge: a session that
\* is established is always shown as online (the updater relies on it), and no
\* session as waiting, but a session under renegotiation may be shown as either.
\* The exceptions are in `astray`: a report an aborted supervisor still makes,
\* and a restart that failed after the abort.
Says(s) ==
    CASE s.step = "dialing" -> {"connecting"}
      [] s.step = "hello" -> {"connecting"}
      [] s.step = "live" /\ s.session = "idle" -> {"waiting"}
      [] s.step = "live" /\ s.session = "handshaking" -> {"waiting", "online"}
      [] s.step = "live" /\ s.session = "established" -> {"online"}
      [] s.step = "backoff" -> {"offline"}
      [] OTHER -> {"connecting", "waiting", "online", "offline"}

StatusTells ==
    ~astray => IF relayTask = None THEN status = "disabled"
               ELSE status \in Says(sup[relayTask])

\* The proxy's own check accepts the token the dispatcher stamps on relayed
\* requests (the comment in handle_req: "a no-op on this path by construction").
StampAccepted ==
    \A i \in Ids \ aborted : sup[i].step = "live" => sup[i].token = token
=============================================================================

------------------------------ MODULE ProxyListener ------------------------------
(***************************************************************************)
(* The local proxy's listening socket (proxy::respawn and save_settings).  *)
(* respawn runs on the main thread; the tasks it aborts and spawns run on  *)
(* the runtime's workers, where an abort takes effect at the task's next   *)
(* turn and not before.  A port is free when no task listens on it: on     *)
(* Linux 0.0.0.0 and 127.0.0.1 exclude each other (external), and no other *)
(* program is assumed to hold it.                                          *)
(***************************************************************************)
EXTENDS Naturals

CONSTANTS Ports, MaxSpawns      \* MaxSpawns: bound of the model

VARIABLES
    settings,   \* proxy_port and bind_lan
    task,       \* proxy_task: the last task spawned
    tasks       \* every task: its address, how far it is, whether it was aborted

vars == <<settings, task, tasks>>

Settings == [port: Ports, lan: BOOLEAN]
Ids == 1..MaxSpawns
Unused == [addr |-> 0, step |-> "unused", aborted |-> FALSE]
Listening(i) == tasks[i].step = "listening"

Respawned(new) ==
    [i \in Ids |->
        IF i = task THEN [tasks[i] EXCEPT !.aborted = TRUE]
        ELSE IF i = task + 1 THEN [addr |-> new, step |-> "spawned", aborted |-> FALSE]
        ELSE tasks[i]]

\* setup() has spawned the first.
Init ==
    /\ settings \in Settings
    /\ task = 1
    /\ tasks = [i \in Ids |->
          IF i = 1 THEN [addr |-> settings, step |-> "spawned", aborted |-> FALSE] ELSE Unused]

SaveSettings(new) ==
    /\ task < MaxSpawns
    /\ new # settings
    /\ settings' = new /\ task' = task + 1 /\ tasks' = Respawned(new)

Bind(i) ==
    /\ tasks[i].step = "spawned" /\ ~tasks[i].aborted
    /\ LET free == \A j \in Ids : Listening(j) => tasks[j].addr.port # tasks[i].addr.port
       IN  tasks' = [tasks EXCEPT ![i].step = IF free THEN "listening" ELSE "ended"]
    /\ UNCHANGED <<settings, task>>

\* The runtime drops an aborted task, and with it its listener.
Drop(i) ==
    /\ tasks[i].aborted /\ tasks[i].step \in {"spawned", "listening"}
    /\ tasks' = [tasks EXCEPT ![i].step = "ended"]
    /\ UNCHANGED <<settings, task>>

Next ==
    \/ \E new \in Settings : SaveSettings(new)
    \/ \E i \in Ids : Bind(i) \/ Drop(i)

\* A task that can run does.
Fairness == \A i \in Ids : WF_vars(Bind(i)) /\ WF_vars(Drop(i))

Spec == Init /\ [][Next]_vars /\ Fairness
-----------------------------------------------------------------------------
\* "Aborts a previously running listener first, so port/bind changes apply
\* immediately" (proxy.rs:231-232): once the settings are left alone, the proxy
\* listens where they say.
ChangesApply == <>[](\E i \in Ids : Listening(i) /\ tasks[i].addr = settings)
=============================================================================

-------------------------------- MODULE Updater --------------------------------
(***************************************************************************)
(* The in-app updater (update.rs) beside the relay: the monitor's ticks    *)
(* and the user's install button run concurrently, as tasks of their own,  *)
(* and share the update status; the monitor also reads the relay's.        *)
(*                                                                         *)
(* What the manifest holds, whether a download succeeds and whether        *)
(* auto_update is on are choices of each step.  A restart ends the model.  *)
(***************************************************************************)
EXTENDS RelayControl

VARIABLES
    update,     \* update_status
    installer,  \* installer[t]: how far a task has got
    restarted   \* who restarted the app, if anyone

updateVars == <<update, installer, restarted>>
allVars == <<vars, updateVars>>

Tasks == {"monitor", "user"}

UpdateInit ==
    /\ Init
    /\ update = "idle"
    /\ installer = [t \in Tasks |-> "idle"]
    /\ restarted = "no"

Proceeds(t, step) == installer' = [installer EXCEPT ![t] = step]

\* A tick, or a click: neither goes on while a download owns the status.
Check(t) ==
    /\ installer[t] = "idle" /\ update # "downloading"
    /\ Proceeds(t, "checking")
    /\ UNCHANGED <<update, restarted>>

CheckFails(t) ==
    /\ installer[t] = "checking"
    /\ Proceeds(t, "idle")
    /\ UNCHANGED <<update, restarted>>

NothingNewer(t) ==
    /\ installer[t] = "checking"
    /\ Proceeds(t, "idle")
    /\ update' = "idle"
    /\ UNCHANGED restarted

\* The monitor leaves it to the user, or waits for a live session to end.
Hold ==
    /\ installer["monitor"] = "checking"
    /\ Proceeds("monitor", "idle")
    /\ \/ update' = "available"
       \/ status = "online" /\ update' = "deferred"
    /\ UNCHANGED restarted

Download(t) ==
    /\ installer[t] = "checking"
    /\ t = "monitor" => status # "online"
    /\ Proceeds(t, "downloading")
    /\ update' = "downloading"
    /\ UNCHANGED restarted

\* Mutant: the status is left as it is.
DownloadFailsSilently(t) ==
    /\ installer[t] = "downloading"
    /\ Proceeds(t, "idle")
    /\ UNCHANGED <<update, restarted>>

DownloadFails(t) ==
    /\ installer[t] = "downloading"
    /\ Proceeds(t, "idle")
    /\ update' = "failed"
    /\ UNCHANGED restarted

\* The app restarts into the update, and its connection is over.
Restart(t) ==
    /\ installer[t] = "downloading"
    /\ restarted' = t
    /\ sup' = [i \in Ids |-> NoSup]
    /\ UNCHANGED <<settings, secrets, apiKey, status, relayTask, spawned, aborted,
                   commands, unpublished, astray, update, installer>>

-----------------------------------------------------------------------------

UpdateStep ==
    \/ \E t \in Tasks :
          Check(t) \/ CheckFails(t) \/ NothingNewer(t) \/ Download(t) \/ DownloadFails(t)
    \/ Hold

UpdateNext ==
    /\ restarted = "no"
    /\ \/ Next /\ UNCHANGED updateVars
       \/ UpdateStep /\ UNCHANGED vars
       \/ \E t \in Tasks : Restart(t)

UpdateSpec == UpdateInit /\ [][UpdateNext]_allVars

FairUpdateSpec == UpdateSpec /\ Fairness

-----------------------------------------------------------------------------
(* Properties.                                                             *)

UpdateTypeOK ==
    /\ TypeOK
    /\ update \in {"idle", "available", "deferred", "downloading", "failed"}
    /\ installer \in [Tasks -> {"idle", "checking", "downloading"}]
    /\ restarted \in Tasks \cup {"no"}

\* The status only says a download is running while one is: it would keep
\* every later tick and click from installing anything (the check at the top
\* of tick and install_now).
DownloadIsReal == update = "downloading" => \E t \in Tasks : installer[t] = "downloading"

\* An update the user did not ask for never interrupts a live session ("the
\* one hard rule", the module comment of update.rs).
NeverInterrupts ==
    [][ restarted' = "monitor" => \A i \in Ids : sup[i].session # "established" ]_allVars
=============================================================================

---------------------------- MODULE CollectionFile ----------------------------
(***************************************************************************)
(* What the legacy store promises of its collections, whatever happens     *)
(* between the effects on the disk: an exchange is one step, after which   *)
(* the collection is as new as was answered, and a collection is kept from *)
(* then on or lost as a whole.  It is what LegacySync takes for granted.   *)
(***************************************************************************)
EXTENDS Integers

CONSTANTS Collections, Versions

VARIABLES
    kept,       \* kept[c]: the version of collection c, 0 if there is none
    answered    \* answered[c]: the version last answered for, 0 if it was lost

vars == <<kept, answered>>

Init ==
    /\ kept \in [Collections -> {0} \cup Versions]
    /\ answered = [c \in Collections |-> 0]

Exchange(c) ==
    \E v \in Versions :
        /\ v > kept[c]
        /\ kept' = [kept EXCEPT ![c] = v]
        /\ answered' = [answered EXCEPT ![c] = v]

Lose(c) ==
    /\ kept' = [kept EXCEPT ![c] = 0]
    /\ answered' = [answered EXCEPT ![c] = 0]

Next == \E c \in Collections : Exchange(c) \/ Lose(c)

Spec == Init /\ [][Next]_vars
===============================================================================

------------------------------ MODULE FrameStream ------------------------------
(***************************************************************************)
(* What an end-to-end session promises whoever sends frames over it: each  *)
(* stream hands its receiver the bodies its sender gave it, every one at   *)
(* most once, in order and without gaps.  It promises no arrival.          *)
(***************************************************************************)
EXTENDS Naturals, Sequences

CONSTANTS Streams, Bodies

VARIABLES
    sent,       \* sent[s]: the bodies given to stream s
    received    \* received[s]: those it has handed out

vars == <<sent, received>>

Init ==
    /\ sent = [s \in Streams |-> <<>>]
    /\ received = [s \in Streams |-> <<>>]

Send(s, b) ==
    /\ sent' = [sent EXCEPT ![s] = Append(@, b)]
    /\ UNCHANGED received

Receive(s) ==
    /\ Len(received[s]) < Len(sent[s])
    /\ received' = [received EXCEPT ![s] = Append(@, sent[s][Len(@) + 1])]
    /\ UNCHANGED sent

Next == \E s \in Streams : Receive(s) \/ \E b \in Bodies : Send(s, b)

Spec == Init /\ [][Next]_vars
=============================================================================

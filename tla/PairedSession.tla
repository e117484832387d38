----------------------------- MODULE PairedSession -----------------------------
(***************************************************************************)
(* The end-to-end cryptography of a pairing (relay/crypto.rs) as the       *)
(* agent's handshake task and session use it (relay/conn.rs), between the  *)
(* handshakes of the two ends of one pair.                                 *)
(*                                                                         *)
(* The web client is another program: it is given the same steps with the  *)
(* roles swapped, as the protocol and the tests of crypto.rs have it.  All *)
(* that was ever written stays on the wire: the relay may deliver it late, *)
(* again, out of order, to another handshake, damaged, or not at all.      *)
(*                                                                         *)
(* Cryptography is symbolic: an ephemeral key and a nonce are the handshake*)
(* they were drawn for, a hash or a key is what it is computed from.       *)
(***************************************************************************)
EXTENDS Naturals, Sequences, FiniteSets

CONSTANTS
    Handshakes,     \* the handshakes of one end, a bound
    Bodies,         \* what a sealed frame may carry
    MaxCounter      \* u64::MAX

ASSUME CounterAssumption == MaxCounter \in Nat

Roles == {"agent", "client"}
Ends == Roles \X Handshakes
Role(e) == e[1]
Other(r) == IF r = "agent" THEN "client" ELSE "agent"
NoEnd == <<"nobody">>

VARIABLES
    step,       \* step[e]: how far handshake e has come
    peer,       \* peer[e]: whose HELLO e has verified
    wire,       \* every message ever written
    sealer,     \* sealer[e]: counter and closed
    opener,     \* opener[e]: expected counter and closed
    plain,      \* plain[e]: bodies sealed, in order
    got         \* got[e]: bodies opened, in order

vars == <<step, peer, wire, sealer, opener, plain, got>>
handshakeVars == <<step, peer>>
sessionVars == <<sealer, opener, plain, got>>

Steps == {"none", "await_hello", "await_confirm", "up", "retired", "failed"}

-----------------------------------------------------------------------------
(* Messages and keys.                                                      *)

\* A HELLO's MAC is under a key only the pair has, over all of its body.
BuildHello(e) ==
    [kind |-> "hello", ver |-> 1, role |-> Role(e), from |-> e, mac |-> TRUE]

\* The checks, whichever fails first.
VerifyHello(e, m) ==
    m.kind = "hello" /\ m.ver = 1 /\ m.role # Role(e) /\ m.mac

\* Over both HELLOs, the agent's first, whoever hashes.
Transcript(e, f) == IF Role(e) = "agent" THEN <<e, f>> ELSE <<f, e>>

\* ECDH: either private key with the other's public key.
Shared(e, f) == {e, f}

\* Mutant: keys from the pre-shared secret and the agent's HELLO alone.
DeriveWithoutClient(e, f) ==
    [transcript |-> <<IF Role(e) = "agent" THEN e ELSE f>>, ecdh |-> {}]

DeriveSession(e, f) == [transcript |-> Transcript(e, f), ecdh |-> Shared(e, f)]

\* The direction key, and with it the nonce prefix, of what role r seals.
DirectionKey(e, f, r) == [session |-> DeriveSession(e, f), from |-> r]

BuildConfirm(e, f) ==
    [kind |-> "confirm", ver |-> 1, role |-> Role(e), session |-> DeriveSession(e, f), tag |-> TRUE]

VerifyConfirm(e, m) ==
    /\ m.kind = "confirm" /\ m.ver = 1
    /\ m.role = Other(Role(e))
    /\ m.session = DeriveSession(e, peer[e]) /\ m.tag

SealedFrame(key, n, b) ==
    [kind |-> "frame", key |-> key, n |-> n, body |-> b, tag |-> TRUE]

\* A message with any of its bits changed: its MAC, tag or AEAD tag is wrong.
Damaged(m) ==
    CASE m.kind = "hello" -> [m EXCEPT !.mac = FALSE]
      [] OTHER -> [m EXCEPT !.tag = FALSE]

\* What the relay can hand over of the given kinds.
Deliverable(kinds) ==
    LET written == {m \in wire : m.kind \in kinds}
    IN written \cup {Damaged(m) : m \in written}
Payloads == Deliverable({"hello", "confirm"})

-----------------------------------------------------------------------------
(* The handshake: send HELLO, await HELLO, send CONFIRM, await CONFIRM.    *)

Init ==
    /\ step = [e \in Ends |-> "none"]
    /\ peer = [e \in Ends |-> NoEnd]
    /\ wire = {}
    /\ sealer = [e \in Ends |-> [counter |-> 0, closed |-> FALSE]]
    /\ opener = [e \in Ends |-> [expected |-> 0, closed |-> FALSE]]
    /\ plain = [e \in Ends |-> <<>>]
    /\ got = [e \in Ends |-> <<>>]

StartHandshake(e) ==
    /\ step[e] = "none"
    /\ step' = [step EXCEPT ![e] = "await_hello"]
    /\ wire' = wire \cup {BuildHello(e)}
    /\ UNCHANGED <<peer, sessionVars>>

ReceiveHello(e) ==
    /\ step[e] = "await_hello"
    /\ \E m \in Payloads :
       IF VerifyHello(e, m)
       THEN /\ step' = [step EXCEPT ![e] = "await_confirm"]
            /\ peer' = [peer EXCEPT ![e] = m.from]
            /\ wire' = wire \cup {BuildConfirm(e, m.from)}
       ELSE /\ step' = [step EXCEPT ![e] = "failed"]
            /\ UNCHANGED <<peer, wire>>
    /\ UNCHANGED sessionVars

ReceiveConfirm(e) ==
    /\ step[e] = "await_confirm"
    /\ \E m \in Payloads :
          step' = [step EXCEPT ![e] = IF VerifyConfirm(e, m) THEN "up" ELSE "failed"]
    /\ UNCHANGED <<peer, wire, sessionVars>>

\* The peer left, a newer handshake was started, or the socket ended.
Retire(e) ==
    /\ step[e] \in {"await_hello", "await_confirm", "up"}
    /\ step' = [step EXCEPT ![e] = IF @ = "up" THEN "retired" ELSE "failed"]
    /\ UNCHANGED <<peer, wire, sessionVars>>

-----------------------------------------------------------------------------
(* The session.  Its sealer and its opener count from zero.                *)

\* Mutant: the counter wraps.
SealWraps(e, b) ==
    /\ step[e] = "up" /\ Len(plain[e]) < MaxCounter + 2
    /\ wire' = wire \cup
          {SealedFrame(DirectionKey(e, peer[e], Role(e)), sealer[e].counter, b)}
    /\ sealer' = [sealer EXCEPT ![e].counter = (@ + 1) % (MaxCounter + 1)]
    /\ plain' = [plain EXCEPT ![e] = Append(@, b)]
    /\ UNCHANGED <<handshakeVars, opener, got>>

\* Mutant: the last counter is sealed with, too.
SealLast(e, b) ==
    /\ step[e] = "up" /\ sealer[e].counter <= MaxCounter
    /\ wire' = wire \cup
          {SealedFrame(DirectionKey(e, peer[e], Role(e)), sealer[e].counter, b)}
    /\ sealer' = [sealer EXCEPT ![e].counter = @ + 1]
    /\ plain' = [plain EXCEPT ![e] = Append(@, b)]
    /\ UNCHANGED <<handshakeVars, opener, got>>

Seal(e, b) ==
    /\ step[e] = "up" /\ ~sealer[e].closed
    /\ IF sealer[e].counter = MaxCounter
       THEN /\ sealer' = [sealer EXCEPT ![e].closed = TRUE]
            /\ UNCHANGED <<wire, plain>>
       ELSE /\ wire' = wire \cup
                   {SealedFrame(DirectionKey(e, peer[e], Role(e)), sealer[e].counter, b)}
            /\ sealer' = [sealer EXCEPT ![e].counter = @ + 1]
            /\ plain' = [plain EXCEPT ![e] = Append(@, b)]
    /\ UNCHANGED <<handshakeVars, opener, got>>

\* The AEAD accepts what its own key sealed, under the counter sent along.
Authentic(e, m) == m.tag /\ m.key = DirectionKey(e, peer[e], Other(Role(e)))

\* Mutant: a window instead of the next counter.
OpensInWindow(e, m) ==
    ~opener[e].closed /\ m.n >= opener[e].expected /\ Authentic(e, m)

Opens(e, m) ==
    ~opener[e].closed /\ m.n = opener[e].expected /\ Authentic(e, m)

\* A frame that does not open retires the session.  (One that was held from
\* before the session was up is dropped instead: a step that changes nothing.)
ReceiveFrame(e) ==
    /\ step[e] = "up"
    /\ \E m \in Deliverable({"frame"}) :
       IF Opens(e, m)
       THEN /\ got' = [got EXCEPT ![e] = Append(@, m.body)]
            /\ opener' = IF opener[e].expected = MaxCounter
                         THEN [opener EXCEPT ![e].closed = TRUE]
                         ELSE [opener EXCEPT ![e].expected = @ + 1]
            /\ UNCHANGED step
       ELSE /\ step' = [step EXCEPT ![e] = "retired"]
            /\ UNCHANGED <<got, opener>>
    /\ UNCHANGED <<peer, wire, sealer, plain>>

Next ==
    \E e \in Ends :
        \/ StartHandshake(e) \/ ReceiveHello(e) \/ ReceiveConfirm(e) \/ Retire(e)
        \/ ReceiveFrame(e) \/ \E b \in Bodies : Seal(e, b)

Spec == Init /\ [][Next]_vars

-----------------------------------------------------------------------------
(* Properties.                                                             *)

Hellos == {BuildHello(e) : e \in Ends}
Confirms == {BuildConfirm(e, f) : e \in Ends, f \in Ends}
Keys == {DirectionKey(e, f, r) : e \in Ends, f \in Ends, r \in Roles}
SealedFrames == {SealedFrame(k, n, b) : k \in Keys, n \in 0..MaxCounter, b \in Bodies}

TypeOK ==
    /\ step \in [Ends -> Steps]
    /\ peer \in [Ends -> Ends \cup {NoEnd}]
    /\ wire \subseteq Hellos \cup Confirms \cup SealedFrames
    /\ sealer \in [Ends -> [counter: 0..MaxCounter, closed: BOOLEAN]]
    /\ opener \in [Ends -> [expected: 0..MaxCounter, closed: BOOLEAN]]
    /\ plain \in [Ends -> Seq(Bodies)]
    /\ got \in [Ends -> Seq(Bodies)]

WasUp(e) == step[e] \in {"up", "retired"}

\* An end that accepts a session shares it with exactly one handshake of the
\* other end, which derived the same keys from the same two HELLOs, whatever
\* stale, repeated or reordered messages either was given ("No channel-0x01
\* frame may be sent or accepted before this succeeds").
EndsAgree ==
    \A e \in Ends : WasUp(e) =>
        /\ peer[e] \in Ends /\ Role(peer[e]) = Other(Role(e))
        /\ peer[peer[e]] = e
        /\ DeriveSession(e, peer[e]) = DeriveSession(peer[e], e)

\* No key ever seals two frames under one counter, over every session, every
\* reconnect, and up to the last counter ("two frames encrypted under the
\* same nonce, which breaks AES-GCM catastrophically").
NonceOnce ==
    \A m \in wire, o \in wire :
        m.kind = "frame" /\ o.kind = "frame" /\ m.key = o.key /\ m.n = o.n => m = o

\* From one handshake to another of the other end.
Streams == {s \in Ends \X Ends : Role(s[1]) # Role(s[2])}

SentOn(s) == IF peer[s[1]] = s[2] THEN plain[s[1]] ELSE <<>>
OpenedFrom(s) == IF peer[s[2]] = s[1] THEN got[s[2]] ELSE <<>>

Stream == INSTANCE FrameStream WITH
    sent <- [s \in Streams |-> SentOn(s)],
    received <- [s \in Streams |-> OpenedFrom(s)]

\* The sessions implement streams: whatever the relay does, what one end
\* opens is what the other sealed for this very session, in order, without
\* gaps or repeats ("no window, no reordering").
ImplementsStream == Stream!Spec
=============================================================================

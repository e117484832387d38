-------------------------- MODULE PairedSessionProofs --------------------------
(***************************************************************************)
(* For any number of handshakes, any bodies and any last counter, the two  *)
(* ends of a session agree, no nonce is used twice, and the sessions       *)
(* implement FrameStream.  The inductive invariant says of every message   *)
(* on the wire who wrote it and in which state, so that a message that     *)
(* verifies or opens can only come from the one end that has the same key. *)
(***************************************************************************)
EXTENDS PairedSession, SequenceTheorems, TLAPS

\* No HELLO has been verified before one was awaited.
PeerKnown ==
    \A e \in Ends :
        /\ step[e] \in {"none", "await_hello"} => peer[e] = NoEnd
        /\ step[e] \in {"await_confirm", "up", "retired"} =>
              peer[e] \in Ends /\ Role(peer[e]) = Other(Role(e))

ConfirmsSent ==
    \A e \in Ends, f \in Ends : BuildConfirm(e, f) \in wire => peer[e] = f

PeersAgree ==
    \A e \in Ends : WasUp(e) => peer[peer[e]] = e

FramesSent ==
    \A m \in wire : m.kind = "frame" =>
        \E e \in Ends :
            /\ WasUp(e)
            /\ m.n \in 0..(Len(plain[e]) - 1)
            /\ m = SealedFrame(DirectionKey(e, peer[e], Role(e)), m.n, plain[e][m.n + 1])

Counted ==
    \A e \in Ends :
        /\ sealer[e].counter = Len(plain[e])
        /\ ~opener[e].closed => opener[e].expected = Len(got[e])
        /\ ~WasUp(e) => plain[e] = <<>> /\ got[e] = <<>>

OpenedInOrder ==
    \A e \in Ends : WasUp(e) =>
        /\ Len(got[e]) <= Len(plain[peer[e]])
        /\ \A i \in 1..Len(got[e]) : got[e][i] = plain[peer[e]][i]

IInv ==
    /\ TypeOK /\ PeerKnown /\ ConfirmsSent /\ PeersAgree
    /\ FramesSent /\ Counted /\ OpenedInOrder

-----------------------------------------------------------------------------
(* Keys and messages.                                                      *)

\* Ends have one of two roles, and nobody has neither.
LEMMA EndRoles ==
    /\ \A e \in Ends : Role(e) \in Roles
    /\ NoEnd \notin Ends
    /\ \A r \in Roles : Other(r) \in Roles /\ Other(r) # r /\ Other(Other(r)) = r
BY DEF Ends, Roles, Role, Other, NoEnd

\* Two ends of one role with the same keys are the same end, with one peer.
LEMMA SameRoleSameEnd ==
    ASSUME NEW e \in Ends, NEW f, NEW d \in Ends, NEW g,
           Role(d) = Role(e), DeriveSession(d, g) = DeriveSession(e, f)
    PROVE  d = e /\ g = f
<1>1. DeriveSession(d, g).transcript = Transcript(d, g)
    BY DEF DeriveSession
<1>2. DeriveSession(e, f).transcript = Transcript(e, f)
    BY DEF DeriveSession
<1>3. Transcript(d, g) = Transcript(e, f)
    BY <1>1, <1>2
<1>4. QED
    BY <1>3 DEF Transcript

\* Two ends of different roles with the same keys are each other's peers.
LEMMA OtherRoleOtherEnd ==
    ASSUME NEW e \in Ends, NEW f, NEW d \in Ends, NEW g,
           Role(d) = Other(Role(e)), DeriveSession(d, g) = DeriveSession(e, f)
    PROVE  d = f /\ g = e
<1>1. DeriveSession(d, g).transcript = Transcript(d, g)
    BY DEF DeriveSession
<1>2. DeriveSession(e, f).transcript = Transcript(e, f)
    BY DEF DeriveSession
<1>3. Transcript(d, g) = Transcript(e, f)
    BY <1>1, <1>2
<1>4. (Role(e) = "agent") # (Role(d) = "agent")
    BY EndRoles DEF Roles, Other
<1>5. QED
    BY <1>3, <1>4 DEF Transcript

\* What the fields of a message on the wire say of it.
LEMMA MessageKinds ==
    ASSUME NEW m, m \in Hellos \cup Confirms \cup SealedFrames
    PROVE  /\ m.kind = "hello" => m.from \in Ends /\ m.role = Role(m.from)
           /\ m.kind = "confirm" =>
                 \E e \in Ends, f \in Ends : m = BuildConfirm(e, f)
           /\ m.kind = "frame" =>
                 /\ m.n \in 0..MaxCounter /\ m.body \in Bodies
                 /\ m.tag
<1>1. CASE m \in Hellos
    BY <1>1 DEF Hellos, BuildHello
<1>2. CASE m \in Confirms
    BY <1>2 DEF Confirms, BuildConfirm
<1>3. CASE m \in SealedFrames
    BY <1>3 DEF SealedFrames, SealedFrame
<1>4. QED
    BY <1>1, <1>2, <1>3

\* A damaged message is of its own kind, and neither verifies nor opens.
LEMMA DamagedFails ==
    ASSUME NEW m, m \in Hellos \cup Confirms \cup SealedFrames
    PROVE  /\ Damaged(m).kind = m.kind
           /\ m.kind = "hello" => ~Damaged(m).mac
           /\ m.kind \in {"confirm", "frame"} => ~Damaged(m).tag
<1>1. CASE m \in Hellos
    BY <1>1 DEF Hellos, BuildHello, Damaged
<1>2. CASE m \in Confirms
    BY <1>2 DEF Confirms, BuildConfirm, Damaged
<1>3. CASE m \in SealedFrames
    BY <1>3 DEF SealedFrames, SealedFrame, Damaged
<1>4. QED
    BY <1>1, <1>2, <1>3

\* A HELLO that verifies was written by an end of the other role.
LEMMA VerifiedHello ==
    ASSUME TypeOK, NEW e \in Ends, NEW m \in Payloads, VerifyHello(e, m)
    PROVE  m.from \in Ends /\ Role(m.from) = Other(Role(e))
<1>1. m.kind = "hello" /\ m.mac /\ m.role # Role(e)
    BY DEF VerifyHello
<1>2. m \in wire
    BY <1>1, DamagedFails DEF Payloads, Deliverable, TypeOK
<1>3. m.from \in Ends /\ m.role = Role(m.from)
    BY <1>1, <1>2, MessageKinds DEF TypeOK
<1>4. QED
    BY <1>1, <1>3, EndRoles DEF Roles, Other

\* A CONFIRM that verifies was written by the peer, for this handshake.
LEMMA VerifiedConfirm ==
    ASSUME TypeOK, ConfirmsSent, NEW e \in Ends, NEW m \in Payloads,
           VerifyConfirm(e, m), peer[e] \in Ends
    PROVE  peer[peer[e]] = e
<1>1. m.kind = "confirm" /\ m.tag
    BY DEF VerifyConfirm
<1>2. m \in wire
    BY <1>1, DamagedFails DEF Payloads, Deliverable, TypeOK
<1>3. PICK d \in Ends, f \in Ends : m = BuildConfirm(d, f)
    BY <1>1, <1>2, MessageKinds DEF TypeOK
<1>4. Role(d) = Other(Role(e)) /\ DeriveSession(d, f) = DeriveSession(e, peer[e])
    BY <1>3 DEF VerifyConfirm, BuildConfirm
<1>5. d = peer[e] /\ f = e
    BY <1>4, OtherRoleOtherEnd
<1>6. QED
    BY <1>2, <1>3, <1>5 DEF ConfirmsSent

\* A frame that opens is the peer's, the one after those opened so far.
LEMMA OpenedFrame ==
    ASSUME TypeOK, FramesSent, Counted, NEW e \in Ends,
           NEW m \in Deliverable({"frame"}), Opens(e, m)
    PROVE  /\ m.n = Len(got[e])
           /\ peer[e] \in Ends /\ peer[peer[e]] = e
           /\ Len(got[e]) < Len(plain[peer[e]])
           /\ m.body = plain[peer[e]][Len(got[e]) + 1]
           /\ m.body \in Bodies
<1>1. m.tag /\ ~opener[e].closed /\ m.n = opener[e].expected
      /\ m.key = DirectionKey(e, peer[e], Other(Role(e)))
    BY DEF Opens, Authentic
<1>2. m \in wire /\ m.kind = "frame"
    BY <1>1, DamagedFails DEF Deliverable, TypeOK
<1>3. PICK s \in Ends :
          /\ m.n \in 0..(Len(plain[s]) - 1)
          /\ m = SealedFrame(DirectionKey(s, peer[s], Role(s)), m.n, plain[s][m.n + 1])
    BY <1>2 DEF FramesSent
<1>4. m.key = DirectionKey(s, peer[s], Role(s)) /\ m.body = plain[s][m.n + 1]
    BY <1>3 DEF SealedFrame
<1>5. Role(s) = Other(Role(e)) /\ DeriveSession(s, peer[s]) = DeriveSession(e, peer[e])
    BY <1>1, <1>4 DEF DirectionKey
<1>6. s = peer[e] /\ peer[s] = e
    BY <1>5, OtherRoleOtherEnd
<1>7. m.n = Len(got[e])
    BY <1>1 DEF Counted
<1>8. m.body \in Bodies
    BY <1>2, MessageKinds DEF TypeOK
<1>9. plain[s] \in Seq(Bodies)
    BY DEF TypeOK
<1>10. QED
    BY <1>3, <1>4, <1>6, <1>7, <1>8, <1>9

-----------------------------------------------------------------------------
(* The invariant, action by action.                                        *)

LEMMA InitIInv == Init => IInv
<1> SUFFICES ASSUME Init PROVE IInv
    OBVIOUS
<1> USE DEF Init
<1>1. \A e \in Ends : step[e] = "none" /\ ~WasUp(e)
    BY DEF WasUp
<1>2. <<>> \in Seq(Bodies) /\ Len(<<>>) = 0
    BY EmptySeq
<1>3. TypeOK
    BY <1>2, CounterAssumption DEF TypeOK, Steps
<1>4. PeerKnown /\ ConfirmsSent /\ PeersAgree /\ FramesSent /\ OpenedInOrder
    BY <1>1 DEF PeerKnown, ConfirmsSent, PeersAgree, FramesSent, OpenedInOrder
<1>5. Counted
    BY <1>1, <1>2 DEF Counted
<1>6. QED
    BY <1>3, <1>4, <1>5 DEF IInv

\* While nothing about frames or peers changes, only `step` matters.
LEMMA StartKeeps ==
    ASSUME IInv, NEW e \in Ends, StartHandshake(e)
    PROVE  IInv'
<1> USE DEF StartHandshake, sessionVars
<1>1. TypeOK'
  <2>1. BuildHello(e) \in Hellos
      BY DEF Hellos
  <2>2. QED
      BY <2>1 DEF IInv, TypeOK, Steps
<1>2. PeerKnown'
    BY DEF IInv, TypeOK, PeerKnown
<1>3. ConfirmsSent'
    BY DEF IInv, ConfirmsSent, BuildConfirm, BuildHello
<1>4. \A d \in Ends : WasUp(d)' <=> WasUp(d)
    BY DEF IInv, TypeOK, WasUp
<1>5. PeersAgree' /\ Counted' /\ OpenedInOrder'
    BY <1>4 DEF IInv, PeersAgree, Counted, OpenedInOrder
<1>6. FramesSent'
    BY <1>4 DEF IInv, FramesSent, BuildHello
<1>7. QED
    BY <1>1, <1>2, <1>3, <1>5, <1>6 DEF IInv

LEMMA HelloKeeps ==
    ASSUME IInv, NEW e \in Ends, ReceiveHello(e)
    PROVE  IInv'
<1> USE DEF ReceiveHello, sessionVars
<1>1. PICK m \in Payloads :
          IF VerifyHello(e, m)
          THEN /\ step' = [step EXCEPT ![e] = "await_confirm"]
               /\ peer' = [peer EXCEPT ![e] = m.from]
               /\ wire' = wire \cup {BuildConfirm(e, m.from)}
          ELSE /\ step' = [step EXCEPT ![e] = "failed"]
               /\ UNCHANGED <<peer, wire>>
    OBVIOUS
<1>2. peer[e] = NoEnd /\ ~WasUp(e) /\ ~WasUp(e)'
    BY <1>1 DEF IInv, TypeOK, PeerKnown, WasUp
<1>3. \A d \in Ends : WasUp(d)' <=> WasUp(d)
    BY <1>1, <1>2 DEF IInv, TypeOK, WasUp
<1>4. \A d \in Ends : d # e => peer'[d] = peer[d]
    BY <1>1 DEF IInv, TypeOK
<1>5. CASE VerifyHello(e, m)
  <2>1. m.from \in Ends /\ Role(m.from) = Other(Role(e))
      BY <1>5, VerifiedHello DEF IInv
  <2>2. TypeOK'
    <3>1. BuildConfirm(e, m.from) \in Confirms
        BY <2>1 DEF Confirms
    <3>2. QED
        BY <1>1, <1>5, <2>1, <3>1 DEF IInv, TypeOK, Steps
  <2>3. PeerKnown'
      BY <1>1, <1>5, <2>1 DEF IInv, TypeOK, PeerKnown
  <2>4. ConfirmsSent'
    <3>1. ASSUME NEW d \in Ends, NEW f \in Ends, BuildConfirm(d, f) \in wire'
          PROVE  peer'[d] = f
      <4>1. CASE BuildConfirm(d, f) \in wire
          BY <1>2, <1>4, <4>1, EndRoles DEF IInv, ConfirmsSent
      <4>2. CASE BuildConfirm(d, f) = BuildConfirm(e, m.from)
        <5>1. Role(d) = Role(e) /\ DeriveSession(d, f) = DeriveSession(e, m.from)
            BY <4>2 DEF BuildConfirm
        <5>2. d = e /\ f = m.from
            BY <5>1, SameRoleSameEnd
        <5>3. QED
            BY <1>1, <1>5, <5>2 DEF IInv, TypeOK
      <4>3. QED
          BY <1>1, <1>5, <3>1, <4>1, <4>2
    <3>2. QED
        BY <3>1 DEF ConfirmsSent, BuildConfirm, DeriveSession, Transcript, Shared
  <2>5. PeersAgree'
    <3>1. ASSUME NEW d \in Ends, WasUp(d)
          PROVE  peer'[peer'[d]] = d
      <4>1. d # e /\ peer[peer[d]] = d /\ peer[d] # e
          BY <1>2, <3>1, EndRoles DEF IInv, PeersAgree
      <4>2. peer[d] \in Ends
          BY <3>1 DEF IInv, PeerKnown, WasUp
      <4>3. QED
          BY <1>4, <4>1, <4>2
    <3>2. QED
        BY <1>3, <3>1 DEF PeersAgree
  <2>6. Counted'
      BY <1>3 DEF IInv, Counted
  <2>7. OpenedInOrder'
      BY <1>2, <1>3, <1>4 DEF IInv, OpenedInOrder
  <2>8. FramesSent'
    <3>1. ASSUME NEW w \in wire, w.kind = "frame"
          PROVE  \E d \in Ends :
                    /\ WasUp(d)'
                    /\ w.n \in 0..(Len(plain'[d]) - 1)
                    /\ w = SealedFrame(DirectionKey(d, peer'[d], Role(d)), w.n, plain'[d][w.n + 1])
        BY <1>2, <1>3, <1>4, <3>1 DEF IInv, FramesSent
    <3>2. BuildConfirm(e, m.from).kind # "frame"
        BY DEF BuildConfirm
    <3>3. QED
        BY <1>1, <1>5, <3>1, <3>2 DEF FramesSent
  <2>9. QED
      BY <2>2, <2>3, <2>4, <2>5, <2>6, <2>7, <2>8 DEF IInv
<1>6. CASE ~VerifyHello(e, m)
  <2>1. TypeOK' /\ PeerKnown'
      BY <1>1, <1>6 DEF IInv, TypeOK, PeerKnown, Steps
  <2>2. ConfirmsSent'
      BY <1>1, <1>6 DEF IInv, ConfirmsSent
  <2>3. PeersAgree' /\ Counted' /\ OpenedInOrder'
      BY <1>1, <1>3, <1>6 DEF IInv, PeersAgree, Counted, OpenedInOrder
  <2>4. FramesSent'
      BY <1>1, <1>3, <1>6 DEF IInv, FramesSent
  <2>5. QED
      BY <2>1, <2>2, <2>3, <2>4 DEF IInv
<1>7. QED
    BY <1>5, <1>6

LEMMA ConfirmKeeps ==
    ASSUME IInv, NEW e \in Ends, ReceiveConfirm(e)
    PROVE  IInv'
<1> USE DEF ReceiveConfirm, sessionVars
<1>1. PICK m \in Payloads :
          step' = [step EXCEPT ![e] = IF VerifyConfirm(e, m) THEN "up" ELSE "failed"]
    OBVIOUS
<1>2. ~WasUp(e) /\ peer[e] \in Ends
    BY DEF IInv, PeerKnown, WasUp
<1>3. \A d \in Ends : d # e => (WasUp(d)' <=> WasUp(d))
    BY <1>1 DEF IInv, TypeOK, WasUp
<1>4. WasUp(e)' => peer[peer[e]] = e
    BY <1>1, <1>2, VerifiedConfirm DEF IInv, TypeOK, WasUp
<1>5. TypeOK' /\ PeerKnown'
    BY <1>1 DEF IInv, TypeOK, PeerKnown, Steps
<1>6. ConfirmsSent'
    BY DEF IInv, ConfirmsSent
<1>7. PeersAgree'
    BY <1>3, <1>4 DEF IInv, PeersAgree
<1>8. Counted'
    BY <1>2, <1>3 DEF IInv, Counted
<1>9. OpenedInOrder'
  <2>1. plain[peer[e]] \in Seq(Bodies) /\ got[e] = <<>>
      BY <1>2 DEF IInv, TypeOK, Counted
  <2>2. Len(got[e]) <= Len(plain[peer[e]]) /\ 1..Len(got[e]) = {}
      BY <2>1, LenProperties, EmptySeq
  <2>3. QED
      BY <1>3, <2>2 DEF IInv, OpenedInOrder
<1>10. FramesSent'
    BY <1>2, <1>3 DEF IInv, FramesSent
<1>11. QED
    BY <1>5, <1>6, <1>7, <1>8, <1>9, <1>10 DEF IInv

LEMMA RetireKeeps ==
    ASSUME IInv, NEW e \in Ends, Retire(e)
    PROVE  IInv'
<1> USE DEF Retire, sessionVars
<1>1. \A d \in Ends : WasUp(d)' <=> WasUp(d)
    BY DEF IInv, TypeOK, WasUp
<1>2. TypeOK' /\ PeerKnown'
    BY DEF IInv, TypeOK, PeerKnown, Steps
<1>3. PeersAgree' /\ Counted' /\ OpenedInOrder'
    BY <1>1 DEF IInv, PeersAgree, Counted, OpenedInOrder
<1>4. ConfirmsSent'
    BY DEF IInv, ConfirmsSent
<1>5. FramesSent'
    BY <1>1 DEF IInv, FramesSent
<1>6. QED
    BY <1>2, <1>3, <1>4, <1>5 DEF IInv

LEMMA SealKeeps ==
    ASSUME IInv, NEW e \in Ends, NEW b \in Bodies, Seal(e, b)
    PROVE  IInv'
<1> USE DEF Seal, handshakeVars
<1>1. WasUp(e) /\ \A d \in Ends : WasUp(d)' <=> WasUp(d)
    BY DEF WasUp
<1>2. PeerKnown' /\ PeersAgree'
    BY <1>1 DEF IInv, PeerKnown, PeersAgree
<1>3. peer[e] \in Ends /\ peer[peer[e]] = e /\ e # peer[e]
    BY <1>1, EndRoles DEF IInv, PeerKnown, PeersAgree, WasUp
<1>4. plain[e] \in Seq(Bodies) /\ Len(plain[e]) \in Nat /\ sealer[e].counter = Len(plain[e])
    BY LenProperties DEF IInv, TypeOK, Counted
<1>5. CASE sealer[e].counter = MaxCounter
  <2>1. /\ sealer' = [sealer EXCEPT ![e].closed = TRUE]
        /\ UNCHANGED <<step, peer, wire, plain, opener, got>>
      BY <1>5
  <2>2. TypeOK'
      BY <2>1 DEF IInv, TypeOK
  <2>3. ConfirmsSent'
      BY <2>1 DEF IInv, ConfirmsSent
  <2>4. Counted'
      BY <1>1, <2>1 DEF IInv, TypeOK, Counted
  <2>5. FramesSent' /\ OpenedInOrder'
      BY <1>1, <2>1 DEF IInv, FramesSent, OpenedInOrder
  <2>6. QED
      BY <1>2, <2>2, <2>3, <2>4, <2>5 DEF IInv
<1>6. CASE sealer[e].counter # MaxCounter
  <2> DEFINE new == SealedFrame(DirectionKey(e, peer[e], Role(e)), sealer[e].counter, b)
  <2>1. /\ wire' = wire \cup {new}
        /\ sealer' = [sealer EXCEPT ![e].counter = @ + 1]
        /\ plain' = [plain EXCEPT ![e] = Append(@, b)]
      BY <1>6
  <2>2. /\ plain'[e] = Append(plain[e], b) /\ plain'[e] \in Seq(Bodies)
        /\ Len(plain'[e]) = Len(plain[e]) + 1 /\ plain'[e][Len(plain[e]) + 1] = b
        /\ \A i \in 1..Len(plain[e]) : plain'[e][i] = plain[e][i]
      BY <1>4, <2>1, AppendProperties DEF IInv, TypeOK
  <2>3. \A d \in Ends : d # e => plain'[d] = plain[d]
      BY <2>1 DEF IInv, TypeOK
  <2>4. TypeOK'
    <3>1. DirectionKey(e, peer[e], Role(e)) \in Keys
        BY <1>3, EndRoles DEF Keys
    <3>2. new \in SealedFrames
        BY <3>1 DEF SealedFrames, IInv, TypeOK
    <3>3. sealer[e].counter + 1 \in 0..MaxCounter
        BY <1>6, CounterAssumption DEF IInv, TypeOK
    <3>4. QED
        BY <2>1, <2>2, <3>2, <3>3 DEF IInv, TypeOK
  <2>5. ConfirmsSent'
      BY <2>1 DEF IInv, ConfirmsSent, BuildConfirm, SealedFrame
  <2>6. Counted'
      BY <1>1, <1>4, <2>1, <2>2, <2>3 DEF IInv, TypeOK, Counted
  <2>7. OpenedInOrder'
    <3>1. ASSUME NEW d \in Ends, WasUp(d)
          PROVE  /\ Len(got[d]) <= Len(plain'[peer[d]])
                 /\ \A i \in 1..Len(got[d]) : got[d][i] = plain'[peer[d]][i]
      <4>1. Len(got[d]) <= Len(plain[peer[d]])
            /\ \A i \in 1..Len(got[d]) : got[d][i] = plain[peer[d]][i]
          BY <3>1 DEF IInv, OpenedInOrder
      <4>2. peer[d] \in Ends /\ Len(got[d]) \in Nat /\ Len(plain[peer[d]]) \in Nat
          BY <3>1, LenProperties DEF IInv, TypeOK, PeerKnown, WasUp
      <4>3. CASE peer[d] = e
          BY <1>4, <2>2, <4>1, <4>2, <4>3
      <4>4. CASE peer[d] # e
          BY <2>3, <4>1, <4>2, <4>4
      <4>5. QED
          BY <4>3, <4>4
    <3>2. QED
        BY <1>1, <3>1 DEF OpenedInOrder
  <2>8. FramesSent'
    <3>1. ASSUME NEW m \in wire', m.kind = "frame"
          PROVE  \E d \in Ends :
                    /\ WasUp(d)
                    /\ m.n \in 0..(Len(plain'[d]) - 1)
                    /\ m = SealedFrame(DirectionKey(d, peer[d], Role(d)), m.n, plain'[d][m.n + 1])
      <4>1. CASE m \in wire
        <5>1. PICK d \in Ends :
                  /\ WasUp(d)
                  /\ m.n \in 0..(Len(plain[d]) - 1)
                  /\ m = SealedFrame(DirectionKey(d, peer[d], Role(d)), m.n, plain[d][m.n + 1])
            BY <3>1, <4>1 DEF IInv, FramesSent
        <5>2. m.n \in 0..(Len(plain'[d]) - 1) /\ plain'[d][m.n + 1] = plain[d][m.n + 1]
            BY <1>4, <2>2, <2>3, <5>1
        <5>3. QED
            BY <5>1, <5>2
      <4>2. CASE m = new
        <5>1. m.n = Len(plain[e])
            BY <1>4, <4>2 DEF SealedFrame
        <5>2. m.n \in 0..(Len(plain'[e]) - 1) /\ plain'[e][m.n + 1] = b
            BY <1>4, <2>2, <5>1
        <5>3. m = SealedFrame(DirectionKey(e, peer[e], Role(e)), m.n, plain'[e][m.n + 1])
            BY <1>4, <4>2, <5>1, <5>2
        <5>4. QED
            BY <1>1, <5>2, <5>3
      <4>3. QED
          BY <2>1, <4>1, <4>2
    <3>2. QED
        BY <1>1, <3>1 DEF FramesSent
  <2>9. QED
      BY <1>2, <2>4, <2>5, <2>6, <2>7, <2>8 DEF IInv
<1>7. QED
    BY <1>5, <1>6

LEMMA FrameKeeps ==
    ASSUME IInv, NEW e \in Ends, ReceiveFrame(e)
    PROVE  IInv'
<1> USE DEF ReceiveFrame
<1>1. PICK m \in Deliverable({"frame"}) :
          IF Opens(e, m)
          THEN /\ got' = [got EXCEPT ![e] = Append(@, m.body)]
               /\ opener' = IF opener[e].expected = MaxCounter
                            THEN [opener EXCEPT ![e].closed = TRUE]
                            ELSE [opener EXCEPT ![e].expected = @ + 1]
               /\ UNCHANGED step
          ELSE /\ step' = [step EXCEPT ![e] = "retired"]
               /\ UNCHANGED <<got, opener>>
    OBVIOUS
<1>2. WasUp(e) /\ \A d \in Ends : WasUp(d)' <=> WasUp(d)
    BY <1>1 DEF IInv, TypeOK, WasUp
<1>3. ConfirmsSent' /\ FramesSent'
    BY <1>2 DEF IInv, ConfirmsSent, FramesSent
<1>4. PeerKnown' /\ PeersAgree'
    BY <1>1, <1>2 DEF IInv, TypeOK, PeerKnown, PeersAgree
<1>5. CASE Opens(e, m)
  <2>1. /\ m.n = Len(got[e])
        /\ peer[e] \in Ends /\ peer[peer[e]] = e
        /\ Len(got[e]) < Len(plain[peer[e]])
        /\ m.body = plain[peer[e]][Len(got[e]) + 1]
        /\ m.body \in Bodies
      BY <1>5, OpenedFrame DEF IInv
  <2>2. got[e] \in Seq(Bodies) /\ Len(got[e]) \in Nat
      BY LenProperties DEF IInv, TypeOK
  <2>3. /\ got'[e] = Append(got[e], m.body) /\ got'[e] \in Seq(Bodies)
        /\ Len(got'[e]) = Len(got[e]) + 1 /\ got'[e][Len(got[e]) + 1] = m.body
        /\ \A i \in 1..Len(got[e]) : got'[e][i] = got[e][i]
    <3>1. got'[e] = Append(got[e], m.body)
        BY <1>1, <1>5 DEF IInv, TypeOK
    <3>2. QED
        BY <2>1, <2>2, <3>1, AppendProperties
  <2>4. \A d \in Ends : d # e => got'[d] = got[d] /\ opener'[d] = opener[d]
      BY <1>1, <1>5 DEF IInv, TypeOK
  <2>5. /\ opener'[e] \in [expected: 0..MaxCounter, closed: BOOLEAN]
        /\ ~opener'[e].closed => opener'[e].expected = Len(got'[e])
    <3>1. opener[e] \in [expected: 0..MaxCounter, closed: BOOLEAN]
          /\ ~opener[e].closed /\ opener[e].expected = Len(got[e])
        BY <1>5 DEF IInv, TypeOK, Counted, Opens
    <3>2. CASE opener[e].expected = MaxCounter
      <4>1. opener'[e] = [opener[e] EXCEPT !.closed = TRUE]
          BY <1>1, <1>5, <3>2 DEF IInv, TypeOK
      <4>2. QED
          BY <3>1, <4>1
    <3>3. CASE opener[e].expected # MaxCounter
      <4>1. opener'[e] = [opener[e] EXCEPT !.expected = @ + 1]
          BY <1>1, <1>5, <3>3 DEF IInv, TypeOK
      <4>2. opener[e].expected + 1 \in 0..MaxCounter
          BY <3>1, <3>3, CounterAssumption
      <4>3. QED
          BY <2>3, <3>1, <4>1, <4>2
    <3>4. QED
        BY <3>2, <3>3
  <2>6. TypeOK'
      BY <1>1, <1>5, <2>1, <2>3, <2>4, <2>5 DEF IInv, TypeOK
  <2>7. Counted'
      BY <1>2, <2>4, <2>5 DEF IInv, Counted
  <2>8. OpenedInOrder'
    <3>1. Len(plain[peer[e]]) \in Nat
        BY <2>1, LenProperties DEF IInv, TypeOK
    <3>2. /\ Len(got'[e]) <= Len(plain[peer[e]])
          /\ \A i \in 1..Len(got'[e]) : got'[e][i] = plain[peer[e]][i]
        BY <1>2, <2>1, <2>2, <2>3, <3>1 DEF IInv, OpenedInOrder
    <3>3. QED
        BY <1>2, <2>4, <3>2 DEF IInv, OpenedInOrder
  <2>9. QED
      BY <1>3, <1>4, <2>6, <2>7, <2>8 DEF IInv
<1>6. CASE ~Opens(e, m)
  <2>1. TypeOK'
      BY <1>1, <1>6 DEF IInv, TypeOK, Steps
  <2>2. Counted' /\ OpenedInOrder'
      BY <1>1, <1>2, <1>6 DEF IInv, Counted, OpenedInOrder
  <2>3. QED
      BY <1>3, <1>4, <2>1, <2>2 DEF IInv
<1>7. QED
    BY <1>5, <1>6

LEMMA NextIInv == IInv /\ [Next]_vars => IInv'
<1> SUFFICES ASSUME IInv, [Next]_vars PROVE IInv'
    OBVIOUS
<1>1. CASE UNCHANGED vars
    BY <1>1 DEF vars, IInv, TypeOK, PeerKnown, ConfirmsSent, PeersAgree, FramesSent,
       Counted, OpenedInOrder, WasUp
<1>2. CASE Next
    BY <1>2, StartKeeps, HelloKeeps, ConfirmKeeps, RetireKeeps, SealKeeps, FrameKeeps DEF Next
<1>3. QED
    BY <1>1, <1>2

-----------------------------------------------------------------------------
(* The results.                                                            *)

\* The inductive invariant holds of every reachable state.
THEOREM Invariant == Spec => []IInv
BY InitIInv, NextIInv, PTL DEF Spec

\* Handshakes, counters and the wire keep their types: in particular no
\* counter passes the last one (Sealer::seal, Opener::open).
THEOREM TypeCorrect == Spec => []TypeOK
<1>1. IInv => TypeOK
    BY DEF IInv
<1>2. QED
    BY <1>1, Invariant, PTL

\* Whoever accepts a session shares it with one handshake of the other end,
\* with the same keys from the same HELLOs (perform_handshake).
THEOREM Agreement == Spec => []EndsAgree
<1>1. IInv => EndsAgree
  <2> SUFFICES ASSUME IInv, NEW e \in Ends, WasUp(e)
               PROVE  /\ peer[e] \in Ends /\ Role(peer[e]) = Other(Role(e))
                      /\ peer[peer[e]] = e
                      /\ DeriveSession(e, peer[e]) = DeriveSession(peer[e], e)
      BY DEF EndsAgree
  <2>1. peer[e] \in Ends /\ Role(peer[e]) = Other(Role(e)) /\ peer[peer[e]] = e
      BY DEF IInv, PeerKnown, PeersAgree, WasUp
  <2>2. (Role(peer[e]) = "agent") # (Role(e) = "agent")
      BY <2>1, EndRoles DEF Roles, Other
  <2>3. Transcript(e, peer[e]) = Transcript(peer[e], e)
      BY <2>2 DEF Transcript
  <2>4. QED
      BY <2>1, <2>3 DEF DeriveSession, Shared
<1>2. QED
    BY <1>1, Invariant, PTL

\* No key seals two frames under one counter (Sealer::seal).
THEOREM NoncesUnique == Spec => []NonceOnce
<1>1. IInv => NonceOnce
  <2> SUFFICES ASSUME IInv, NEW m \in wire, NEW o \in wire,
                      m.kind = "frame", o.kind = "frame", m.key = o.key, m.n = o.n
               PROVE  m = o
      BY DEF NonceOnce
  <2>1. PICK d \in Ends :
            m = SealedFrame(DirectionKey(d, peer[d], Role(d)), m.n, plain[d][m.n + 1])
      BY DEF IInv, FramesSent
  <2>2. PICK e \in Ends :
            o = SealedFrame(DirectionKey(e, peer[e], Role(e)), o.n, plain[e][o.n + 1])
      BY DEF IInv, FramesSent
  <2>3. DirectionKey(d, peer[d], Role(d)) = DirectionKey(e, peer[e], Role(e))
    <3>1. m.key = DirectionKey(d, peer[d], Role(d))
        BY <2>1 DEF SealedFrame
    <3>2. o.key = DirectionKey(e, peer[e], Role(e))
        BY <2>2 DEF SealedFrame
    <3>3. QED
        BY <3>1, <3>2
  <2>4. Role(d) = Role(e) /\ DeriveSession(d, peer[d]) = DeriveSession(e, peer[e])
      BY <2>3 DEF DirectionKey
  <2>5. d = e
      BY <2>4, SameRoleSameEnd
  <2>6. QED
      BY <2>1, <2>2, <2>5
<1>2. QED
    BY <1>1, Invariant, PTL

-----------------------------------------------------------------------------
(* The refinement: every step is a Send, a Receive or a stutter.           *)

LEMMA InitRefines == Init => Stream!Init
<1> SUFFICES ASSUME Init PROVE Stream!Init
    OBVIOUS
<1>1. \A s \in Streams : SentOn(s) = <<>> /\ OpenedFrom(s) = <<>>
    BY DEF Init, Streams, SentOn, OpenedFrom
<1>2. QED
    BY <1>1 DEF Stream!Init

\* What a stream is about, and that it is not about the same end twice.
LEMMA StreamEnds ==
    ASSUME NEW s \in Streams
    PROVE  s[1] \in Ends /\ s[2] \in Ends /\ s = <<s[1], s[2]>> /\ Role(s[1]) # Role(s[2])
BY DEF Streams

\* A step that touches neither bodies nor the peer of an end that has any.
LEMMA Stutters ==
    ASSUME IInv, UNCHANGED <<plain, got>>,
           \A d \in Ends : peer'[d] = peer[d] \/ (plain[d] = <<>> /\ got[d] = <<>>)
    PROVE  UNCHANGED Stream!vars
<1>1. \A s \in Streams : SentOn(s)' = SentOn(s) /\ OpenedFrom(s)' = OpenedFrom(s)
    BY StreamEnds DEF SentOn, OpenedFrom
<1>2. QED
    BY <1>1 DEF Stream!vars

LEMMA SealRefines ==
    ASSUME IInv, NEW e \in Ends, NEW b \in Bodies, Seal(e, b)
    PROVE  [Stream!Next]_(Stream!vars)
<1> USE DEF Seal, handshakeVars
<1>1. CASE sealer[e].counter = MaxCounter
    BY <1>1, Stutters
<1>2. CASE sealer[e].counter # MaxCounter
  <2> DEFINE s == <<e, peer[e]>>
  <2>1. plain' = [plain EXCEPT ![e] = Append(@, b)] /\ UNCHANGED <<peer, got>>
      BY <1>2
  <2>2. s \in Streams
      BY EndRoles DEF IInv, PeerKnown, Streams
  <2>3. SentOn(s) = plain[e] /\ SentOn(s)' = Append(plain[e], b)
      BY <2>1 DEF SentOn, IInv, TypeOK
  <2>4. ASSUME NEW t \in Streams, t # s
        PROVE  SentOn(t)' = SentOn(t)
    <3>1. t[1] # e \/ peer[t[1]] # t[2]
        BY <2>4, StreamEnds
    <3>2. QED
        BY <2>1, <3>1, StreamEnds DEF SentOn, IInv, TypeOK
  <2>5. \A t \in Streams : OpenedFrom(t)' = OpenedFrom(t)
      BY <2>1 DEF OpenedFrom
  <2>6. [t \in Streams |-> SentOn(t)]' =
            [[t \in Streams |-> SentOn(t)] EXCEPT ![s] = Append(@, b)]
      BY <2>2, <2>3, <2>4
  <2>7. UNCHANGED [t \in Streams |-> OpenedFrom(t)]
      BY <2>5
  <2>8. Stream!Send(s, b)
      BY <2>6, <2>7 DEF Stream!Send
  <2>9. QED
      BY <2>2, <2>8 DEF Stream!Next
<1>3. QED
    BY <1>1, <1>2

LEMMA FrameRefines ==
    ASSUME IInv, NEW e \in Ends, ReceiveFrame(e)
    PROVE  [Stream!Next]_(Stream!vars)
<1> USE DEF ReceiveFrame
<1>1. PICK m \in Deliverable({"frame"}) :
          IF Opens(e, m) THEN got' = [got EXCEPT ![e] = Append(@, m.body)]
                         ELSE got' = got
    OBVIOUS
<1>2. UNCHANGED <<peer, plain>>
    OBVIOUS
<1>3. CASE ~Opens(e, m)
    BY <1>1, <1>2, <1>3, Stutters
<1>4. CASE Opens(e, m)
  <2> DEFINE s == <<peer[e], e>>
  <2>1. /\ peer[e] \in Ends /\ peer[peer[e]] = e
        /\ Len(got[e]) < Len(plain[peer[e]])
        /\ m.body = plain[peer[e]][Len(got[e]) + 1]
      BY <1>4, OpenedFrame DEF IInv
  <2>2. s \in Streams
      BY <2>1, EndRoles DEF IInv, PeerKnown, Streams
  <2>3. SentOn(s) = plain[peer[e]] /\ OpenedFrom(s) = got[e]
        /\ OpenedFrom(s)' = Append(got[e], m.body)
      BY <1>1, <1>2, <1>4, <2>1 DEF SentOn, OpenedFrom, IInv, TypeOK
  <2>4. ASSUME NEW t \in Streams, t # s
        PROVE  OpenedFrom(t)' = OpenedFrom(t)
    <3>1. t[2] # e \/ peer[t[2]] # t[1]
        BY <2>4, StreamEnds
    <3>2. QED
        BY <1>1, <1>2, <1>4, <3>1, StreamEnds DEF OpenedFrom, IInv, TypeOK
  <2>5. UNCHANGED [t \in Streams |-> SentOn(t)]
      BY <1>2 DEF SentOn
  <2>6. [t \in Streams |-> OpenedFrom(t)]' =
            [[t \in Streams |-> OpenedFrom(t)] EXCEPT
                ![s] = Append(@, [t \in Streams |-> SentOn(t)][s][Len(@) + 1])]
      BY <2>1, <2>2, <2>3, <2>4
  <2>7. Len([t \in Streams |-> OpenedFrom(t)][s]) < Len([t \in Streams |-> SentOn(t)][s])
      BY <2>1, <2>2, <2>3
  <2>8. Stream!Receive(s)
      BY <2>5, <2>6, <2>7 DEF Stream!Receive
  <2>9. QED
      BY <2>2, <2>8 DEF Stream!Next
<1>5. QED
    BY <1>3, <1>4

LEMMA StepRefines == IInv /\ [Next]_vars => [Stream!Next]_(Stream!vars)
<1> SUFFICES ASSUME IInv, [Next]_vars PROVE [Stream!Next]_(Stream!vars)
    OBVIOUS
<1>1. CASE UNCHANGED vars
    BY <1>1, Stutters DEF vars
<1>2. ASSUME NEW e \in Ends, StartHandshake(e) \/ ReceiveConfirm(e) \/ Retire(e)
      PROVE  [Stream!Next]_(Stream!vars)
    BY <1>2, Stutters DEF StartHandshake, ReceiveConfirm, Retire, sessionVars
<1>3. ASSUME NEW e \in Ends, ReceiveHello(e)
      PROVE  [Stream!Next]_(Stream!vars)
  <2>1. plain[e] = <<>> /\ got[e] = <<>>
      BY <1>3 DEF ReceiveHello, IInv, Counted, WasUp
  <2>2. \A d \in Ends : d # e => peer'[d] = peer[d]
      BY <1>3 DEF ReceiveHello, IInv, TypeOK
  <2>3. UNCHANGED <<plain, got>>
      BY <1>3 DEF ReceiveHello, sessionVars
  <2>4. QED
      BY <2>1, <2>2, <2>3, Stutters
<1>4. QED
    BY <1>1, <1>2, <1>3, SealRefines, FrameRefines DEF Next

\* Whatever the relay does with the messages, each direction of each session
\* is a stream: what is opened is what was sealed, in order, without gaps or
\* repeats (Opener::open: "no window, no reordering").
THEOREM SessionsAreStreams == Spec => ImplementsStream
BY Invariant, InitRefines, StepRefines, PTL DEF Spec, ImplementsStream, Stream!Spec
=============================================================================

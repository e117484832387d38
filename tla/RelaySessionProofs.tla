--------------------------- MODULE RelaySessionProofs ---------------------------
(***************************************************************************)
(* The types of a connection, the agreement of its two halves and what     *)
(* becomes of the frames held for a session, for any number of handshakes  *)
(* and of frames and any capacities of the channels.                       *)
(***************************************************************************)
EXTENDS RelaySession, FiniteSetTheorems, WellFoundedInduction, TLAPS

-----------------------------------------------------------------------------
(* The inductive invariant, by the part of the state it is about.          *)

Sessions == [state: {"idle", "handshaking", "established"}, hs: Nat,
             pending: Seq(Sealed), opened: {reader.session.opened}]

ReaderOK ==
    /\ reader \in [session: Sessions, busy: Frames \cup {NoFrame},
                   failures: 0..MaxFailures, ended: BOOLEAN]
    /\ reader.session.hs <= started
    /\ reader.session.hs = None <=> reader.session.state = "idle"
    /\ Len(reader.session.pending) <= MaxPending
    /\ Live => reader.failures < MaxFailures

TasksOK ==
    /\ started \in 0..MaxHandshakes
    /\ task \in [Handshakes -> [step: Steps, inbox: Seq(Payloads)]]
    /\ \A h \in Handshakes :
          /\ task[h].step = "none" <=> h > started
          /\ Len(task[h].inbox) <= HandshakeCapacity

\* Nothing is queued of a handshake that was not started.
DoneOK ==
    /\ done \in Seq(Results) /\ Len(done) <= HandshakeCapacity
    /\ \A i \in 1..Len(done) : done[i].hs <= started

CmdsOK ==
    /\ cmds \in Seq(Commands) /\ Len(cmds) <= OutCapacity
    /\ \A i \in 1..Len(cmds) : cmds[i].hs <= started

\* The writer's task takes its queue and its session with it.
WriterOK ==
    /\ writer \in [session: Nat, ended: BOOLEAN]
    /\ writer.session <= started
    /\ writer.ended => cmds = <<>> /\ writer.session = None

StatusOK == status \in {"waiting", "online"}

\* A task that has ended has its result in the queue as long as the read loop
\* is waiting for it.
Reported ==
    Live /\ reader.session.state = "handshaking" /\ task[reader.session.hs].step = "ended"
        => \E i \in 1..Len(done) : done[i].hs = reader.session.hs

\* A frame was only taken if the handshake it starts is within the bound.
MayStart ==
    Live /\ reader.busy # NoFrame /\ Starts(reader.busy) => started < MaxHandshakes

\* A handshake writes no more than a HELLO and a CONFIRM: those on the socket
\* and those in the queue are no more than its task has sent.
Quota(step) ==
    IF step \in {"none", "hello"} THEN 0
    ELSE IF step \in {"await_hello", "confirm"} THEN 1
    ELSE 2
IsOf(cmd, h) == cmd.kind = "handshake" /\ cmd.hs = h
AtMost(k, q, h) ==
    /\ k = 0 => \A i \in 1..Len(q) : ~IsOf(q[i], h)
    /\ k = 1 => \A i, j \in 1..Len(q) : IsOf(q[i], h) /\ IsOf(q[j], h) => i = j
    /\ k = 2 => \A i, j, l \in 1..Len(q) :
                    IsOf(q[i], h) /\ IsOf(q[j], h) /\ IsOf(q[l], h)
                        => i = j \/ i = l \/ j = l
SentOK ==
    /\ sent \in [Handshakes -> Nat]
    /\ \A h \in Handshakes :
          /\ sent[h] <= Quota(task[h].step)
          /\ AtMost(Quota(task[h].step) - sent[h], cmds, h)

IInv ==
    /\ ReaderOK /\ TasksOK /\ DoneOK /\ CmdsOK /\ WriterOK /\ StatusOK
    /\ Reported /\ MayStart /\ SentOK /\ HalvesAgree
-----------------------------------------------------------------------------
(* Frames and commands.                                                    *)

LEMMA FrameFields ==
    ASSUME NEW f \in Frames \cup {NoFrame}
    PROVE  /\ f.channel = "handshake" => f.payload \in Payloads
           /\ f.channel = "ciphertext" => f.cipher \in Sealed
           /\ f.channel # "none" => f # NoFrame
BY DEF Frames, ControlFrames, Frame, NoFrame, NoPayload, NoSealed

LEMMA CommandFields ==
    /\ Down \in Commands /\ Down.hs = None /\ Down.kind = "down"
    /\ \A h \in Handshakes, k \in {"handshake", "up"} : [kind |-> k, hs |-> h] \in Commands
    /\ \A c \in Commands : /\ c.hs \in Nat
                           /\ c.kind \in {"handshake", "up", "down"}
                           /\ c.kind = "down" <=> c.hs = None
                           /\ c.kind # "down" => c.hs \in Handshakes
BY CapacityAssumption DEF Commands, Down, None, Handshakes

LEMMA StepFacts ==
    /\ \A s \in Steps : Quota(s) \in 0..2
    /\ Quota("none") = 0 /\ Quota("hello") = 0
    /\ Quota("await_hello") = 1 /\ Quota("confirm") = 1
    /\ Quota("await_confirm") = 2 /\ Quota("ok") = 2
    /\ Quota("failed") = 2 /\ Quota("ended") = 2
BY DEF Steps, Quota

-----------------------------------------------------------------------------
(* How many commands of a handshake a queue holds.                         *)

LEMMA AtMostEmpty == \A k, h : AtMost(k, <<>>, h)
BY DEF AtMost

LEMMA AtMostGrows ==
    ASSUME NEW k \in 0..2, NEW m \in 0..2, k <= m, NEW q, NEW h, AtMost(k, q, h)
    PROVE  AtMost(m, q, h)
<1>1. CASE m = 0  BY <1>1
<1>2. CASE m = 1  BY <1>2 DEF AtMost
<1>3. CASE m = 2  BY <1>3 DEF AtMost
<1> QED BY <1>1, <1>2, <1>3

LEMMA AtMostAppend ==
    ASSUME NEW k \in 0..1, NEW q \in Seq(Commands), NEW c \in Commands, NEW h,
           AtMost(k, q, h)
    PROVE  AtMost(k + 1, Append(q, c), h)
<1>1. /\ Len(Append(q, c)) = Len(q) + 1 /\ Len(q) \in Nat
      /\ \A i \in 1..Len(q) : Append(q, c)[i] = q[i]
  OBVIOUS
<1>2. CASE k = 0  BY <1>1, <1>2 DEF AtMost
<1>3. CASE k = 1  BY <1>1, <1>3 DEF AtMost
<1> QED BY <1>2, <1>3

LEMMA AtMostAppendOther ==
    ASSUME NEW k, NEW q \in Seq(Commands), NEW c \in Commands, NEW h,
           AtMost(k, q, h), ~IsOf(c, h)
    PROVE  AtMost(k, Append(q, c), h)
<1>1. /\ Len(Append(q, c)) = Len(q) + 1 /\ Len(q) \in Nat
      /\ \A i \in 1..Len(q) : Append(q, c)[i] = q[i]
      /\ Append(q, c)[Len(q) + 1] = c
  OBVIOUS
<1>2. \A i \in 1..Len(Append(q, c)) : IsOf(Append(q, c)[i], h) => i \in 1..Len(q) /\ IsOf(q[i], h)
  BY <1>1
<1> QED BY <1>2 DEF AtMost

LEMMA AtMostTail ==
    ASSUME NEW k \in 0..2, NEW q \in Seq(Commands), q # <<>>, NEW h, AtMost(k, q, h)
    PROVE  IF IsOf(Head(q), h) THEN k > 0 /\ AtMost(k - 1, Tail(q), h)
           ELSE AtMost(k, Tail(q), h)
<1>1. /\ Len(q) \in Nat /\ Len(q) >= 1 /\ Len(Tail(q)) = Len(q) - 1 /\ Head(q) = q[1]
      /\ \A i \in 1..Len(Tail(q)) : Tail(q)[i] = q[i + 1]
  OBVIOUS
<1>2. CASE IsOf(Head(q), h)
  <2>1. IsOf(q[1], h)  BY <1>1, <1>2
  <2>2. CASE k = 0  BY <1>1, <2>1, <2>2 DEF AtMost
  <2>3. CASE k = 1  BY <1>1, <1>2, <2>1, <2>3 DEF AtMost
  <2>4. CASE k = 2
    <3>1. \A i, j \in 1..Len(Tail(q)) :
             IsOf(Tail(q)[i], h) /\ IsOf(Tail(q)[j], h) => i = j
      BY <1>1, <2>1, <2>4 DEF AtMost
    <3> QED BY <3>1, <1>2, <2>4 DEF AtMost
  <2> QED BY <2>2, <2>3, <2>4
<1>3. CASE ~IsOf(Head(q), h)
  <2>1. CASE k = 0  BY <1>1, <1>3, <2>1 DEF AtMost
  <2>2. CASE k = 1  BY <1>1, <1>3, <2>2 DEF AtMost
  <2>3. CASE k = 2  BY <1>1, <1>3, <2>3 DEF AtMost
  <2> QED BY <2>1, <2>2, <2>3
<1> QED BY <1>2, <1>3
-----------------------------------------------------------------------------
(* What session the writer comes to have.                                  *)

WillHave(q, w, s) ==
    \/ (\A i \in 1..Len(q) : q[i].kind = "handshake") /\ s = w
    \/ \E i \in 1..Len(q) : /\ q[i].kind # "handshake" /\ q[i].hs = s
                            /\ \A j \in 1..Len(q) : q[j].kind # "handshake" => j <= i

LEMMA WillHaveIs ==
    ASSUME NEW s
    PROVE  /\ cmds \in Seq(Commands) =>
                (WriterWillHave(s) <=> WillHave(cmds, writer.session, s))
           /\ cmds' \in Seq(Commands) =>
                (WriterWillHave(s)' <=> WillHave(cmds', writer'.session, s))
<1>1. cmds \in Seq(Commands) => DOMAIN cmds = 1..Len(cmds)  OBVIOUS
<1>2. cmds' \in Seq(Commands) => DOMAIN cmds' = 1..Len(cmds')  OBVIOUS
<1> QED BY <1>1, <1>2 DEF WriterWillHave, WillHave

LEMMA WillHaveEmpty == \A s : WillHave(<<>>, None, s) => s = None
BY DEF WillHave

LEMMA WillHaveDropped ==
    ASSUME NEW q, NEW w, NEW s, s # None, WillHave(q, None, s)
    PROVE  WillHave(q, w, s)
BY DEF WillHave

LEMMA WillHaveHandshake ==
    ASSUME NEW q \in Seq(Commands), NEW c \in Commands, c.kind = "handshake",
           NEW w, NEW s, WillHave(Append(q, c), w, s)
    PROVE  WillHave(q, w, s)
<1>1. /\ Len(Append(q, c)) = Len(q) + 1 /\ Len(q) \in Nat
      /\ \A i \in 1..Len(q) : Append(q, c)[i] = q[i]
      /\ Append(q, c)[Len(q) + 1] = c
  OBVIOUS
<1> QED BY <1>1 DEF WillHave

LEMMA WillHaveLast ==
    ASSUME NEW q \in Seq(Commands), NEW c \in Commands, c.kind # "handshake",
           NEW w, NEW s, WillHave(Append(q, c), w, s)
    PROVE  s = c.hs
<1>1. /\ Len(Append(q, c)) = Len(q) + 1 /\ Len(q) \in Nat
      /\ Append(q, c)[Len(q) + 1] = c
  OBVIOUS
<1>2. PICK i \in 1..Len(Append(q, c)) :
         /\ Append(q, c)[i].hs = s
         /\ \A j \in 1..Len(Append(q, c)) : Append(q, c)[j].kind # "handshake" => j <= i
  BY <1>1 DEF WillHave
<1> QED BY <1>1, <1>2

LEMMA WillHaveTail ==
    ASSUME NEW q \in Seq(Commands), q # <<>>, NEW s,
           WillHave(Tail(q), WriterSession(Head(q)), s)
    PROVE  WillHave(q, writer.session, s)
<1>1. /\ Len(q) \in Nat /\ Len(q) >= 1 /\ Len(Tail(q)) = Len(q) - 1 /\ Head(q) = q[1]
      /\ \A i \in 1..Len(Tail(q)) : Tail(q)[i] = q[i + 1]
      /\ q[1] \in Commands
  OBVIOUS
<1>2. \A i \in 2..Len(q) : i - 1 \in 1..Len(Tail(q)) /\ Tail(q)[i - 1] = q[i]
  BY <1>1
<1>3. CASE \E i \in 1..Len(Tail(q)) : Tail(q)[i].kind # "handshake"
  <2>1. PICK i \in 1..Len(Tail(q)) :
           /\ Tail(q)[i].kind # "handshake" /\ Tail(q)[i].hs = s
           /\ \A j \in 1..Len(Tail(q)) : Tail(q)[j].kind # "handshake" => j <= i
    BY <1>3 DEF WillHave
  <2>2. \A j \in 1..Len(q) : q[j].kind # "handshake" => j <= i + 1
    <3> SUFFICES ASSUME NEW j \in 1..Len(q), q[j].kind # "handshake" PROVE j <= i + 1
      OBVIOUS
    <3>1. CASE j = 1  BY <3>1
    <3>2. CASE j # 1
      <4>1. j \in 2..Len(q)  BY <3>2, <1>1
      <4>2. j - 1 \in 1..Len(Tail(q)) /\ Tail(q)[j - 1].kind # "handshake"  BY <4>1, <1>2
      <4>3. j - 1 <= i  BY <4>2, <2>1
      <4> QED BY <4>1, <4>3, <1>1
    <3> QED BY <3>1, <3>2
  <2>3. i + 1 \in 1..Len(q) /\ q[i + 1].kind # "handshake" /\ q[i + 1].hs = s
    BY <1>1, <2>1
  <2> QED BY <2>2, <2>3 DEF WillHave
<1>4. CASE \A i \in 1..Len(Tail(q)) : Tail(q)[i].kind = "handshake"
  <2>1. s = WriterSession(Head(q))  BY <1>4 DEF WillHave
  <2>2. \A j \in 1..Len(q) : q[j].kind # "handshake" => j = 1
    <3> SUFFICES ASSUME NEW j \in 1..Len(q), j # 1 PROVE q[j].kind = "handshake"
      OBVIOUS
    <3>1. j \in 2..Len(q)  BY <1>1
    <3> QED BY <3>1, <1>2, <1>4
  <2>3. CASE q[1].kind = "handshake"
    BY <1>1, <2>1, <2>2, <2>3 DEF WillHave, WriterSession
  <2>4. CASE q[1].kind # "handshake"
    <3>1. s = q[1].hs  BY <1>1, <2>1, <2>4, CommandFields DEF WriterSession
    <3> QED BY <1>1, <2>2, <2>4, <3>1 DEF WillHave
  <2> QED BY <2>3, <2>4
<1> QED BY <1>3, <1>4

-----------------------------------------------------------------------------
(* The invariant holds at first.                                           *)

LEMMA InitIInv == Init => IInv
<1> SUFFICES ASSUME Init PROVE IInv  OBVIOUS
<1>1. ReaderOK
  BY CapacityAssumption DEF Init, ReaderOK, Sessions, Idle, Live, None
<1>2. TasksOK
  BY CapacityAssumption DEF Init, TasksOK, Steps, Handshakes
<1>3. DoneOK /\ CmdsOK /\ WriterOK /\ StatusOK
  BY CapacityAssumption DEF Init, DoneOK, CmdsOK, WriterOK, StatusOK, None
<1>4. Reported /\ MayStart
  BY DEF Init, Reported, MayStart, Idle
<1>5. SentOK
  BY AtMostEmpty, StepFacts DEF Init, SentOK
<1>6. HalvesAgree
  BY <1>3, WillHaveIs, WillHaveEmpty DEF Init, HalvesAgree, CmdsOK, Handshakes, None
<1> QED BY <1>1, <1>2, <1>3, <1>4, <1>5, <1>6 DEF IInv

LEMMA SessionHandshake ==
    IInv /\ reader.session.state # "idle" => reader.session.hs \in 1..started
                                            /\ reader.session.hs \in Handshakes
BY CapacityAssumption DEF IInv, ReaderOK, TasksOK, Sessions, Handshakes, None

-----------------------------------------------------------------------------
(* The handshake tasks.                                                    *)

\* Steps of a task other than its last keep what the read loop relies on.
LEMMA TaskKeepsReader ==
    ASSUME IInv, UNCHANGED <<reader, started, done>>,
           NEW h \in Handshakes, task' \in [Handshakes -> [step: Steps, inbox: Seq(Payloads)]],
           \A g \in Handshakes \ {h} : task'[g] = task[g], task'[h].step # "ended"
    PROVE  ReaderOK' /\ DoneOK' /\ Reported' /\ MayStart'
<1>1. ReaderOK' /\ DoneOK' /\ MayStart'
  BY DEF IInv, ReaderOK, Sessions, DoneOK, MayStart, Live, Starts, Acceptable, Opens
<1>2. Reported'
  <2> SUFFICES ASSUME Live, reader.session.state = "handshaking",
                      task'[reader.session.hs].step = "ended"
               PROVE  \E i \in 1..Len(done) : done[i].hs = reader.session.hs
    BY DEF Reported, Live
  <2>1. reader.session.hs \in Handshakes
    BY SessionHandshake
  <2>2. task[reader.session.hs].step = "ended"  BY <2>1
  <2> QED BY <2>2 DEF IInv, Reported
<1> QED BY <1>1, <1>2

LEMMA SendPayloadKeeps ==
    ASSUME IInv, NEW h \in Handshakes, NEW from, NEW to,
           \/ from = "hello" /\ to = "await_hello"
           \/ from = "confirm" /\ to = "await_confirm",
           SendPayload(h, from, to)
    PROVE  IInv'
<1> DEFINE cmd == [kind |-> "handshake", hs |-> h]
<1>1. /\ task[h].step = from /\ CanSend /\ cmds' = Sent(cmd)
      /\ task' = [task EXCEPT ![h].step = IF writer.ended THEN "failed" ELSE to]
      /\ UNCHANGED <<reader, started, done, writer, sent, status>>
  BY DEF SendPayload
<1>2. /\ cmd \in Commands /\ cmd.hs = h /\ cmd.kind = "handshake"
  BY CommandFields
<1>3. TasksOK'
  BY <1>1 DEF IInv, TasksOK, Steps, Handshakes
<1>4. ReaderOK' /\ DoneOK' /\ Reported' /\ MayStart'
  <2>1. task'[h].step # "ended" /\ \A g \in Handshakes \ {h} : task'[g] = task[g]
    BY <1>1 DEF IInv, TasksOK
  <2> QED BY <1>1, <1>3, <2>1, TaskKeepsReader DEF TasksOK
<1>5. h <= started
  BY <1>1 DEF IInv, TasksOK, Handshakes
<1>6. CmdsOK'
  <2>1. CASE writer.ended  BY <1>1, <2>1 DEF IInv, CmdsOK, Sent
  <2>2. CASE ~writer.ended
    BY <1>1, <1>2, <1>5, <2>2, CapacityAssumption DEF IInv, CmdsOK, Sent, CanSend
  <2> QED BY <2>1, <2>2
<1>7. WriterOK' /\ StatusOK'
  BY <1>1 DEF IInv, WriterOK, StatusOK, Sent
<1>8. SentOK'
  <2> SUFFICES ASSUME NEW g \in Handshakes
               PROVE  /\ sent[g] <= Quota(task'[g].step)
                      /\ AtMost(Quota(task'[g].step) - sent[g], cmds', g)
    BY <1>1 DEF IInv, SentOK
  <2>0. sent[g] \in Nat /\ sent[g] <= Quota(task[g].step) /\ AtMost(Quota(task[g].step) - sent[g], cmds, g)
        /\ cmds \in Seq(Commands)
    BY DEF IInv, SentOK, CmdsOK
  <2>1. CASE g # h
    <3>1. task'[g] = task[g]  BY <1>1, <2>1 DEF IInv, TasksOK
    <3>2. ~IsOf(cmd, g)  BY <2>1 DEF IsOf
    <3>3. AtMost(Quota(task[g].step) - sent[g], cmds', g)
      BY <1>1, <1>2, <2>0, <3>2, AtMostAppendOther DEF Sent
    <3> QED BY <2>0, <3>1, <3>3
  <2>2. CASE g = h /\ writer.ended
    <3>1. cmds' = <<>>  BY <1>1, <2>2 DEF IInv, WriterOK, Sent
    <3>2. task'[h].step = "failed" /\ task[h].step \in Steps  BY <1>1, <2>2 DEF IInv, TasksOK
    <3> QED BY <2>0, <2>2, <3>1, <3>2, AtMostEmpty, StepFacts
  <2>3. CASE g = h /\ ~writer.ended
    <3>1. cmds' = Append(cmds, cmd)  BY <1>1, <2>3 DEF Sent
    <3>2. task'[h].step = to  BY <1>1, <2>3 DEF IInv, TasksOK
    <3>3. Quota(from) \in 0..1 /\ Quota(to) = Quota(from) + 1  BY StepFacts
    <3>4. Quota(from) - sent[g] \in 0..1  BY <1>1, <2>0, <2>3, <3>3
    <3>5. AtMost(Quota(from) - sent[g] + 1, cmds', h)
      BY <1>1, <1>2, <2>0, <2>3, <3>1, <3>4, AtMostAppend
    <3>6. Quota(from) - sent[g] + 1 = Quota(to) - sent[g]  BY <2>0, <3>3
    <3> QED BY <1>1, <2>0, <2>3, <3>2, <3>3, <3>5, <3>6
  <2> QED BY <2>1, <2>2, <2>3
<1>9. HalvesAgree'
  <2> SUFFICES ASSUME Live, NEW s \in Handshakes, WillHave(cmds', writer.session, s)
               PROVE  /\ reader.session.state = "established" => s = reader.session.hs
                      /\ reader.session.state = "idle" => done # <<>>
    BY <1>1, <1>6, WillHaveIs DEF HalvesAgree, Live, CmdsOK
  <2>1. cmds \in Seq(Commands)  BY DEF IInv, CmdsOK
  <2>2. WillHave(cmds, writer.session, s)
    BY <1>1, <1>2, <2>1, WillHaveHandshake DEF Sent
  <2> QED BY <2>1, <2>2, WillHaveIs DEF IInv, HalvesAgree
<1> QED BY <1>3, <1>4, <1>6, <1>7, <1>8, <1>9 DEF IInv

LEMMA AwaitPayloadKeeps ==
    ASSUME IInv, NEW h \in Handshakes, NEW from, NEW to, NEW good,
           \/ from = "await_hello" /\ to = "confirm"
           \/ from = "await_confirm" /\ to = "ok",
           AwaitPayload(h, from, to, good)
    PROVE  IInv'
<1>1. /\ task[h].step = from
      /\ UNCHANGED <<reader, started, done, cmds, writer, sent, status>>
  BY DEF AwaitPayload
<1>2. /\ task' \in [Handshakes -> [step: Steps, inbox: Seq(Payloads)]]
      /\ task'[h].step \in {to, "failed"}
      /\ Len(task'[h].inbox) <= HandshakeCapacity
      /\ \A g \in Handshakes \ {h} : task'[g] = task[g]
  <2> DEFINE inbox == task[h].inbox
  <2>1. inbox \in Seq(Payloads) /\ Len(inbox) <= HandshakeCapacity
        /\ to \in Steps /\ "failed" \in Steps
    BY DEF IInv, TasksOK, Steps
  <2>2. CASE inbox # <<>> /\ task' = [task EXCEPT ![h] =
                         [step |-> IF Head(@.inbox) = good THEN to ELSE "failed",
                          inbox |-> Tail(@.inbox)]]
    <3>1. Tail(inbox) \in Seq(Payloads) /\ Len(Tail(inbox)) <= HandshakeCapacity
      BY <2>1, <2>2, CapacityAssumption
    <3> QED BY <2>1, <2>2, <3>1 DEF IInv, TasksOK
  <2>3. CASE task' = [task EXCEPT ![h].step = "failed"]
    BY <2>1, <2>3 DEF IInv, TasksOK
  <2> QED BY <2>2, <2>3 DEF AwaitPayload
<1>3. TasksOK'
  BY <1>1, <1>2 DEF IInv, TasksOK, Handshakes
<1>4. ReaderOK' /\ DoneOK' /\ Reported' /\ MayStart'
  BY <1>1, <1>2, TaskKeepsReader
<1>5. CmdsOK' /\ WriterOK' /\ StatusOK'
  BY <1>1 DEF IInv, CmdsOK, WriterOK, StatusOK
<1>6. SentOK'
  <2> SUFFICES ASSUME NEW g \in Handshakes
               PROVE  /\ sent[g] <= Quota(task'[g].step)
                      /\ AtMost(Quota(task'[g].step) - sent[g], cmds, g)
    BY <1>1 DEF IInv, SentOK
  <2>1. /\ sent[g] \in Nat /\ sent[g] <= Quota(task[g].step)
        /\ AtMost(Quota(task[g].step) - sent[g], cmds, g)
    BY DEF IInv, SentOK
  <2>2. CASE g # h  BY <1>2, <2>1, <2>2
  <2>3. CASE g = h
    <3>1. /\ Quota(task[h].step) \in 0..2 /\ Quota(task'[h].step) \in 0..2
          /\ Quota(task[h].step) <= Quota(task'[h].step)
      BY <1>1, <1>2, StepFacts
    <3>2. /\ Quota(task[h].step) - sent[g] \in 0..2
          /\ Quota(task'[h].step) - sent[g] \in 0..2
          /\ Quota(task[h].step) - sent[g] <= Quota(task'[h].step) - sent[g]
      BY <2>1, <2>3, <3>1
    <3> QED BY <2>1, <2>3, <3>1, <3>2, AtMostGrows
  <2> QED BY <2>2, <2>3
<1>7. HalvesAgree'
  BY <1>1, WillHaveIs DEF IInv, HalvesAgree, Live, CmdsOK
<1> QED BY <1>3, <1>4, <1>5, <1>6, <1>7 DEF IInv

LEMMA ReportKeeps ==
    ASSUME IInv, NEW h \in Handshakes, Report(h)
    PROVE  IInv'
<1> DEFINE res == [hs |-> h, ok |-> task[h].step = "ok"]
<1>1. /\ task[h].step \in {"ok", "failed"} /\ Len(done) < HandshakeCapacity
      /\ done' = Append(done, res)
      /\ task' = [task EXCEPT ![h] = [step |-> "ended", inbox |-> <<>>]]
      /\ UNCHANGED <<reader, started, cmds, writer, sent, status>>
  BY DEF Report
<1>2. /\ task' \in [Handshakes -> [step: Steps, inbox: Seq(Payloads)]]
      /\ task'[h] = [step |-> "ended", inbox |-> <<>>]
      /\ \A g \in Handshakes \ {h} : task'[g] = task[g]
  BY <1>1 DEF IInv, TasksOK, Steps
<1>3. TasksOK'
  BY <1>1, <1>2, CapacityAssumption DEF IInv, TasksOK, Handshakes
<1>4. ReaderOK' /\ MayStart' /\ CmdsOK' /\ WriterOK' /\ StatusOK'
  BY <1>1 DEF IInv, ReaderOK, Sessions, MayStart, Live, Starts, Acceptable, Opens,
              CmdsOK, WriterOK, StatusOK
<1>5. /\ done \in Seq(Results) /\ res \in Results /\ res.hs = h /\ h <= started
  <2>1. done \in Seq(Results)  BY DEF IInv, DoneOK
  <2>2. res \in Results /\ res.hs = h  BY DEF Results
  <2>3. h <= started  BY <1>1, CapacityAssumption DEF IInv, TasksOK, Handshakes
  <2> QED BY <2>1, <2>2, <2>3
<1>6. /\ Len(done') = Len(done) + 1 /\ Len(done) \in Nat /\ done' \in Seq(Results)
      /\ \A i \in 1..Len(done) : done'[i] = done[i]
      /\ done'[Len(done) + 1] = res
  BY <1>1, <1>5
<1>7. DoneOK'
  BY <1>1, <1>5, <1>6, CapacityAssumption DEF IInv, DoneOK
<1>8. Reported'
  <2> SUFFICES ASSUME Live, reader.session.state = "handshaking",
                      task'[reader.session.hs].step = "ended"
               PROVE  \E i \in 1..Len(done') : done'[i].hs = reader.session.hs
    BY <1>1 DEF Reported, Live
  <2>1. reader.session.hs \in Handshakes  BY SessionHandshake
  <2>2. CASE reader.session.hs = h  BY <1>5, <1>6, <2>2
  <2>3. CASE reader.session.hs # h
    <3>1. PICK i \in 1..Len(done) : done[i].hs = reader.session.hs
      BY <1>2, <2>1, <2>3 DEF IInv, Reported
    <3> QED BY <1>6, <3>1
  <2> QED BY <2>2, <2>3
<1>9. SentOK'
  <2>1. \A g \in Handshakes : Quota(task'[g].step) = Quota(task[g].step)
    BY <1>1, <1>2, StepFacts
  <2> QED BY <1>1, <2>1 DEF IInv, SentOK
<1>10. HalvesAgree'
  <2>1. done' # <<>>  BY <1>6
  <2> QED BY <1>1, <2>1, WillHaveIs DEF IInv, HalvesAgree, Live, CmdsOK
<1> QED BY <1>3, <1>4, <1>7, <1>8, <1>9, <1>10 DEF IInv

-----------------------------------------------------------------------------
(* The writer.                                                             *)

LEMMA WriteCommandKeeps == ASSUME IInv, WriteCommand PROVE IInv'
<1> DEFINE cmd == Head(cmds)
<1>1. /\ ~writer.ended /\ cmds # <<>>
      /\ writer' = [writer EXCEPT !.session = WriterSession(cmd)]
      /\ sent' = IF cmd.kind = "handshake"
                 THEN [sent EXCEPT ![cmd.hs] = @ + 1] ELSE sent
      /\ cmds' = Tail(cmds)
      /\ UNCHANGED <<reader, task, started, done, status>>
  BY DEF WriteCommand
<1>2. /\ cmds \in Seq(Commands) /\ Len(cmds) \in Nat /\ Len(cmds) >= 1
      /\ cmd = cmds[1] /\ cmd \in Commands /\ cmd.hs <= started
      /\ Tail(cmds) \in Seq(Commands) /\ Len(Tail(cmds)) = Len(cmds) - 1
      /\ \A i \in 1..Len(Tail(cmds)) : Tail(cmds)[i] = cmds[i + 1]
  BY <1>1 DEF IInv, CmdsOK
<1>3. cmd.hs \in Nat /\ (cmd.kind # "down" => cmd.hs \in Handshakes)
  BY <1>2, CommandFields
<1>4. ReaderOK' /\ TasksOK' /\ DoneOK' /\ StatusOK' /\ Reported' /\ MayStart'
  BY <1>1 DEF IInv, ReaderOK, Sessions, TasksOK, DoneOK, StatusOK, Reported, MayStart,
              Live, Starts, Acceptable, Opens
<1>5. CmdsOK'
  BY <1>1, <1>2, CapacityAssumption DEF IInv, CmdsOK
<1>6. WriterOK'
  <2>1. WriterSession(cmd) \in Nat /\ WriterSession(cmd) <= started
    BY <1>2, <1>3, CapacityAssumption DEF WriterSession, IInv, WriterOK, TasksOK, None
  <2> QED BY <1>1, <2>1 DEF IInv, WriterOK
<1>7. SentOK'
  <2>1. sent' \in [Handshakes -> Nat]
    BY <1>1, <1>3 DEF IInv, SentOK
  <2> SUFFICES ASSUME NEW g \in Handshakes
               PROVE  /\ sent'[g] <= Quota(task[g].step)
                      /\ AtMost(Quota(task[g].step) - sent'[g], Tail(cmds), g)
    BY <1>1, <2>1 DEF SentOK
  <2>2. /\ sent[g] \in Nat /\ sent[g] <= Quota(task[g].step)
        /\ AtMost(Quota(task[g].step) - sent[g], cmds, g)
        /\ Quota(task[g].step) \in 0..2
    BY StepFacts DEF IInv, SentOK, TasksOK
  <2>3. Quota(task[g].step) - sent[g] \in 0..2  BY <2>2
  <2>4. IF IsOf(cmd, g)
        THEN /\ Quota(task[g].step) - sent[g] > 0
             /\ AtMost(Quota(task[g].step) - sent[g] - 1, Tail(cmds), g)
        ELSE AtMost(Quota(task[g].step) - sent[g], Tail(cmds), g)
    BY <1>1, <1>2, <2>2, <2>3, AtMostTail
  <2>5. CASE IsOf(cmd, g)
    <3>1. sent'[g] = sent[g] + 1
      BY <1>1, <2>5 DEF IsOf, IInv, SentOK
    <3>2. Quota(task[g].step) - sent'[g] = Quota(task[g].step) - sent[g] - 1
      BY <2>2, <3>1
    <3> QED BY <2>2, <2>4, <2>5, <3>1, <3>2
  <2>6. CASE ~IsOf(cmd, g)
    <3>1. sent'[g] = sent[g]
      BY <1>1, <1>3, <2>6 DEF IsOf, IInv, SentOK
    <3> QED BY <2>2, <2>4, <2>6, <3>1
  <2> QED BY <2>5, <2>6
<1>8. HalvesAgree'
  <2>1. writer'.session = WriterSession(cmd)  BY <1>1 DEF IInv, WriterOK
  <2> SUFFICES ASSUME Live, NEW s \in Handshakes, WillHave(Tail(cmds), WriterSession(cmd), s)
               PROVE  /\ reader.session.state = "established" => s = reader.session.hs
                      /\ reader.session.state = "idle" => done # <<>>
    BY <1>1, <1>5, <2>1, WillHaveIs DEF HalvesAgree, Live, CmdsOK
  <2>2. WillHave(cmds, writer.session, s)  BY <1>1, <1>2, WillHaveTail
  <2> QED BY <1>2, <2>2, WillHaveIs DEF IInv, HalvesAgree
<1> QED BY <1>4, <1>5, <1>6, <1>7, <1>8 DEF IInv

LEMMA WriterLosesSession ==
    ASSUME IInv, DropSession \/ WriterEnds
    PROVE  IInv'
<1>1. /\ UNCHANGED <<reader, task, started, done, sent, status>>
      /\ ~writer.ended
      /\ writer' \in [session: Nat, ended: BOOLEAN] /\ writer'.session = None
      /\ (cmds' = cmds /\ ~writer'.ended) \/ cmds' = <<>>
  <2>1. None \in Nat /\ writer \in [session: Nat, ended: BOOLEAN]
    BY DEF IInv, WriterOK, None
  <2>2. CASE DropSession  BY <2>1, <2>2 DEF DropSession
  <2>3. CASE WriterEnds  BY <2>1, <2>3 DEF WriterEnds
  <2> QED BY <2>2, <2>3
<1>2. ReaderOK' /\ TasksOK' /\ DoneOK' /\ StatusOK' /\ Reported' /\ MayStart'
  BY <1>1 DEF IInv, ReaderOK, Sessions, TasksOK, DoneOK, StatusOK, Reported, MayStart,
              Live, Starts, Acceptable, Opens
<1>3. CmdsOK'
  <2>1. CASE cmds' = cmds  BY <1>1, <2>1 DEF IInv, CmdsOK
  <2>2. CASE cmds' = <<>>  BY <2>2, CapacityAssumption DEF CmdsOK
  <2> QED BY <1>1, <2>1, <2>2
<1>4. WriterOK'
  BY <1>1, CapacityAssumption DEF IInv, WriterOK, TasksOK, None
<1>5. SentOK'
  BY <1>1, AtMostEmpty DEF IInv, SentOK
<1>6. HalvesAgree'
  <2> SUFFICES ASSUME Live, NEW s \in Handshakes, WillHave(cmds', None, s)
               PROVE  /\ reader.session.state = "established" => s = reader.session.hs
                      /\ reader.session.state = "idle" => done # <<>>
    BY <1>1, <1>3, WillHaveIs DEF HalvesAgree, Live, CmdsOK
  <2>1. s # None  BY DEF Handshakes, None
  <2>2. cmds' = cmds  BY <1>1, <2>1, WillHaveEmpty
  <2>3. WillHave(cmds, writer.session, s)  BY <2>1, <2>2, WillHaveDropped
  <2> QED BY <2>3, WillHaveIs DEF IInv, HalvesAgree, CmdsOK
<1> QED BY <1>2, <1>3, <1>4, <1>5, <1>6 DEF IInv

-----------------------------------------------------------------------------
(* The read loop: what its steps have in common.                           *)

\* What the updates of several fields of the read loop's record come to.
LEMMA HandledIs ==
    ASSUME IInv, NEW s, NEW e
    PROVE  /\ Handled(s) = [session |-> s, busy |-> NoFrame,
                            failures |-> reader.failures, ended |-> reader.ended]
           /\ [Handled(s) EXCEPT !.failures = @ + 1] =
                  [session |-> s, busy |-> NoFrame,
                   failures |-> reader.failures + 1, ended |-> reader.ended]
           /\ [Handled(s) EXCEPT !.ended = e, !.failures = @ + 1] =
                  [session |-> s, busy |-> NoFrame,
                   failures |-> reader.failures + 1, ended |-> e]
           /\ [reader EXCEPT !.session = s, !.failures = 0] =
                  [session |-> s, busy |-> reader.busy,
                   failures |-> 0, ended |-> reader.ended]
<1>1. PICK S, B, F, E : reader \in [session: S, busy: B, failures: F, ended: E]
  BY DEF IInv, ReaderOK
<1> DEFINE p == [reader EXCEPT !.session = s]
           r == [p EXCEPT !.busy = NoFrame]
           q == [r EXCEPT !.ended = e]
<1>2. p = [session |-> s, busy |-> reader.busy,
           failures |-> reader.failures, ended |-> reader.ended]
  BY ONLY <1>1
<1> HIDE DEF p
<1>3. r = [session |-> s, busy |-> NoFrame,
           failures |-> reader.failures, ended |-> reader.ended]
  BY ONLY <1>2
<1>4. [p EXCEPT !.failures = 0] =
          [session |-> s, busy |-> reader.busy, failures |-> 0, ended |-> reader.ended]
  BY ONLY <1>2
<1> HIDE DEF r
<1>5. [r EXCEPT !.failures = @ + 1] =
          [session |-> s, busy |-> NoFrame,
           failures |-> reader.failures + 1, ended |-> reader.ended]
  BY ONLY <1>3
<1>6. q = [session |-> s, busy |-> NoFrame, failures |-> reader.failures, ended |-> e]
  BY ONLY <1>3
<1> HIDE DEF q
<1>7. [q EXCEPT !.failures = @ + 1] =
          [session |-> s, busy |-> NoFrame,
           failures |-> reader.failures + 1, ended |-> e]
  BY ONLY <1>6
<1>8. Handled(s) = r  BY DEF Handled, p, r
<1>9. [Handled(s) EXCEPT !.ended = e, !.failures = @ + 1] = [q EXCEPT !.failures = @ + 1]
  BY DEF Handled, p, r, q
<1>10. [reader EXCEPT !.session = s, !.failures = 0] = [p EXCEPT !.failures = 0]
  BY DEF p
<1> QED BY ONLY <1>3, <1>4, <1>5, <1>7, <1>8, <1>9, <1>10

LEMMA SessionShapes ==
    /\ Idle.state = "idle" /\ Idle.hs = None /\ Idle.pending = <<>>
    /\ \A h : /\ Handshaking(h).state = "handshaking" /\ Handshaking(h).hs = h
              /\ Handshaking(h).pending = <<>>
    /\ \A h, n : /\ Established(h, n).state = "established" /\ Established(h, n).hs = h
                 /\ Established(h, n).pending = <<>>
BY DEF Idle, Handshaking, Established

\* A reader at rest with a fresh session.
LEMMA FreshSession ==
    ASSUME IInv, started' \in Nat, started <= started', NEW n \in 0..MaxFailures, NEW e \in BOOLEAN,
           ~e => n < MaxFailures, NEW s,
           \/ s = Idle
           \/ \E h \in 1..started' : s = Handshaking(h)
           \/ \E h \in 1..started' : \E m : s = Established(h, m),
           reader' = [session |-> s, busy |-> NoFrame, failures |-> n, ended |-> e]
    PROVE  ReaderOK' /\ MayStart'
<1>1. s \in [state: {"idle", "handshaking", "established"}, hs: Nat,
             pending: Seq(Sealed), opened: {s.opened}]
      /\ s.hs <= started' /\ (s.hs = None <=> s.state = "idle") /\ s.pending = <<>>
  <2>1. <<>> \in Seq(Sealed)  OBVIOUS
  <2>2. CASE s = Idle  BY <2>1, <2>2 DEF Idle, None
  <2>3. CASE \E h \in 1..started' : s = Handshaking(h)  BY <2>1, <2>3 DEF Handshaking, None
  <2>4. CASE \E h \in 1..started' : \E m : s = Established(h, m)  BY <2>1, <2>4 DEF Established, None
  <2> QED BY <2>2, <2>3, <2>4
<1>2. 0 <= MaxPending  BY CapacityAssumption
<1> QED BY <1>1, <1>2 DEF ReaderOK, MayStart, Sessions, Live

\* The queue of commands, whatever the read loop puts into it.
LEMMA ReaderSends ==
    ASSUME IInv, NEW c \in Commands, c.kind # "handshake", c.hs <= started,
           cmds' = cmds \/ (CanSend /\ cmds' = Sent(c)),
           UNCHANGED <<writer, sent>>, started' \in {started, started + 1},
           \A g \in Handshakes : Quota(task'[g].step) = Quota(task[g].step)
    PROVE  CmdsOK' /\ WriterOK' /\ SentOK'
<1>1. cmds \in Seq(Commands) /\ started \in Nat /\ c.hs \in Nat
  BY CapacityAssumption, CommandFields DEF IInv, CmdsOK, TasksOK
<1>2. CASE cmds' = cmds
  <2>1. \A i \in 1..Len(cmds) : cmds[i].hs \in Nat
    BY <1>1, CommandFields
  <2>2. CmdsOK'  BY <1>1, <1>2, <2>1 DEF IInv, CmdsOK
  <2>3. WriterOK'  BY <1>1, <1>2 DEF IInv, WriterOK
  <2>4. SentOK'  BY <1>2 DEF IInv, SentOK
  <2> QED BY <2>2, <2>3, <2>4
<1>3. CASE cmds' = Append(cmds, c) /\ CanSend /\ ~writer.ended
  <2>1. CmdsOK'
    <3>1. \A i \in 1..Len(cmds) : cmds[i].hs \in Nat
      BY <1>1, CommandFields
    <3> QED BY <1>1, <1>3, <3>1, CapacityAssumption DEF IInv, CmdsOK, CanSend
  <2>2. WriterOK'  BY <1>1, <1>3 DEF IInv, WriterOK
  <2>3. SentOK'
    BY <1>1, <1>3, AtMostAppendOther DEF IInv, SentOK, IsOf
  <2> QED BY <2>1, <2>2, <2>3
<1> QED BY <1>2, <1>3 DEF Sent

\* After SessionDown the writer comes to have no session.
LEMMA NothingAfterDown ==
    ASSUME IInv, cmds' = Sent(Down), CmdsOK', UNCHANGED writer, NEW s \in Handshakes
    PROVE  ~WriterWillHave(s)'
<1>1. s # None  BY DEF Handshakes, None
<1>2. SUFFICES ~WillHave(cmds', writer.session, s)
  BY WillHaveIs DEF CmdsOK
<1>3. CASE writer.ended
  BY <1>1, <1>3, WillHaveEmpty DEF IInv, WriterOK, Sent
<1>4. CASE ~writer.ended
  BY <1>1, <1>4, WillHaveLast, CommandFields DEF IInv, CmdsOK, Sent
<1> QED BY <1>3, <1>4

\* A handshake that starts.
LEMMA StartFacts ==
    ASSUME IInv, started < MaxHandshakes, NEW inbox \in Seq(Payloads),
           Len(inbox) <= HandshakeCapacity, Start(inbox)
    PROVE  /\ TasksOK'
           /\ started' = started + 1 /\ started \in Nat /\ started' \in Handshakes
           /\ task'[started'].step = "hello"
           /\ \A g \in Handshakes : Quota(task'[g].step) = Quota(task[g].step)
<1>1. /\ started' = started + 1 /\ started \in Nat /\ started' \in Handshakes
      /\ task' = [task EXCEPT ![started + 1] = [step |-> "hello", inbox |-> inbox]]
  BY CapacityAssumption DEF Start, IInv, TasksOK, Handshakes
<1>2. /\ task' \in [Handshakes -> [step: Steps, inbox: Seq(Payloads)]]
      /\ task'[started'] = [step |-> "hello", inbox |-> inbox]
      /\ \A g \in Handshakes \ {started'} : task'[g] = task[g]
  BY <1>1 DEF IInv, TasksOK, Steps
<1>3. TasksOK'
  BY <1>1, <1>2, CapacityAssumption DEF IInv, TasksOK, Handshakes
<1>4. task[started'].step = "none"
  BY <1>1 DEF IInv, TasksOK
<1> QED BY <1>1, <1>2, <1>3, <1>4, StepFacts

-----------------------------------------------------------------------------
(* The read loop: frames.                                                  *)

LEMMA ReaderWaits ==
    ASSUME IInv, ReadFrame \/ SocketEnds \/ GoingAway
    PROVE  IInv'
<1>1. /\ Live /\ UNCHANGED <<task, started, done, cmds, writer, sent, status>>
      /\ reader'.session = reader.session
  BY DEF ReadFrame, SocketEnds, GoingAway, Handled, Free, IInv, ReaderOK
<1>2. ReaderOK' /\ MayStart'
  <2>1. CASE ReadFrame
    BY <1>1, <2>1 DEF ReadFrame, IInv, ReaderOK, MayStart, Sessions, Live, Starts, Acceptable, Opens
  <2>2. CASE SocketEnds \/ GoingAway
    <3>1. /\ reader'.ended /\ reader'.failures = reader.failures
          /\ reader'.busy \in {reader.busy, NoFrame}
          /\ reader' = [session |-> reader'.session, busy |-> reader'.busy,
                        failures |-> reader'.failures, ended |-> reader'.ended]
          /\ reader'.ended \in BOOLEAN
      BY <2>2 DEF SocketEnds, GoingAway, Handled, IInv, ReaderOK
    <3> QED BY <1>1, <3>1 DEF IInv, ReaderOK, MayStart, Sessions, Live
  <2> QED BY <2>1, <2>2
<1>3. TasksOK' /\ DoneOK' /\ CmdsOK' /\ WriterOK' /\ StatusOK' /\ SentOK'
  BY <1>1 DEF IInv, TasksOK, DoneOK, CmdsOK, WriterOK, StatusOK, SentOK
<1>4. Reported'
  BY <1>1 DEF IInv, Reported, Live
<1>5. HalvesAgree'
  BY <1>1, WillHaveIs DEF IInv, HalvesAgree, Live, CmdsOK
<1> QED BY <1>2, <1>3, <1>4, <1>5 DEF IInv

LEMMA HandshakeBegins ==
    ASSUME IInv, PeerOnline \/ HandshakeStarts
    PROVE  IInv'
<1>1. PICK inbox \in Seq(Payloads) :
         /\ Len(inbox) <= HandshakeCapacity /\ Start(inbox)
         /\ Live /\ reader.busy # NoFrame /\ Starts(reader.busy)
         /\ reader' = Handled(Handshaking(started + 1))
         /\ UNCHANGED <<done, cmds, writer, sent, status>>
  <2>1. CASE PeerOnline
    <3>1. <<>> \in Seq(Payloads) /\ Len(<<>>) <= HandshakeCapacity
      BY CapacityAssumption
    <3>2. reader.busy # NoFrame  BY <2>1 DEF PeerOnline, NoFrame, Frame
    <3> QED BY <2>1, <3>1, <3>2 DEF PeerOnline, Starts
  <2>2. CASE HandshakeStarts
    <3>1. reader.busy.payload \in Payloads /\ reader.busy # NoFrame
      BY <2>2, FrameFields DEF HandshakeStarts, IInv, ReaderOK
    <3>2. <<reader.busy.payload>> \in Seq(Payloads) /\ Len(<<reader.busy.payload>>) <= HandshakeCapacity
      BY <3>1, CapacityAssumption
    <3> QED BY <2>2, <3>1, <3>2 DEF HandshakeStarts, Starts
  <2> QED BY <2>1, <2>2
<1>2. started < MaxHandshakes  BY <1>1 DEF IInv, MayStart
<1>3. /\ TasksOK' /\ started' = started + 1 /\ started \in Nat
      /\ started' \in Handshakes /\ task'[started'].step = "hello"
      /\ \A g \in Handshakes : Quota(task'[g].step) = Quota(task[g].step)
  BY <1>1, <1>2, StartFacts
<1>4. reader' = [session |-> Handshaking(started'), busy |-> NoFrame,
                 failures |-> reader.failures, ended |-> reader.ended]
  BY <1>1, <1>3, HandledIs
<1>5. ReaderOK' /\ MayStart'
  <2>1. /\ reader.failures \in 0..MaxFailures /\ reader.ended \in BOOLEAN
        /\ ~reader.ended => reader.failures < MaxFailures
    BY DEF IInv, ReaderOK, Live
  <2>2. started' \in 1..started' /\ started' \in Nat /\ started <= started'  BY <1>3
  <2> QED BY <1>4, <2>1, <2>2, FreshSession
<1>6. CmdsOK' /\ WriterOK' /\ SentOK'
  BY <1>1, <1>3, ReaderSends, CommandFields DEF None
<1>7. DoneOK' /\ StatusOK'
  <2>1. \A i \in 1..Len(done) : done[i].hs \in Nat
    <3>1. \A r \in Results : r.hs \in Nat
      BY CapacityAssumption DEF Results, Handshakes
    <3> QED BY <3>1 DEF IInv, DoneOK
  <2> QED BY <1>1, <1>3, <2>1 DEF IInv, DoneOK, StatusOK
<1>8. Reported'
  BY <1>3, <1>4, SessionShapes DEF Reported
<1>9. HalvesAgree'
  BY <1>4, SessionShapes DEF HalvesAgree
<1> QED BY <1>3, <1>5, <1>6, <1>7, <1>8, <1>9 DEF IInv

LEMMA PeerOfflineKeeps == ASSUME IInv, PeerOffline PROVE IInv'
<1>1. /\ Live /\ CanSend /\ reader' = Handled(Idle) /\ cmds' = Sent(Down)
      /\ status' = "waiting" /\ UNCHANGED <<task, started, done, writer, sent>>
  BY DEF PeerOffline
<1>2. reader' = [session |-> Idle, busy |-> NoFrame,
                 failures |-> reader.failures, ended |-> reader.ended]
  BY <1>1, HandledIs
<1>3. started \in Nat  BY CapacityAssumption DEF IInv, TasksOK
<1>4. ReaderOK' /\ MayStart'
  <2>1. /\ reader.failures \in 0..MaxFailures /\ reader.ended \in BOOLEAN
        /\ ~reader.ended => reader.failures < MaxFailures
    BY DEF IInv, ReaderOK, Live
  <2> QED BY <1>1, <1>2, <1>3, <2>1, FreshSession
<1>5. CmdsOK' /\ WriterOK' /\ SentOK'
  BY <1>1, <1>3, ReaderSends, CommandFields DEF None
<1>6. TasksOK' /\ DoneOK' /\ StatusOK'
  BY <1>1 DEF IInv, TasksOK, DoneOK, StatusOK
<1>7. Reported'
  BY <1>2, SessionShapes DEF Reported
<1>8. HalvesAgree'
  BY <1>1, <1>5, NothingAfterDown DEF HalvesAgree
<1> QED BY <1>4, <1>5, <1>6, <1>7, <1>8 DEF IInv

LEMMA HandshakeForwardedKeeps == ASSUME IInv, HandshakeForwarded PROVE IInv'
<1> DEFINE h == reader.session.hs
<1>1. /\ Live /\ reader.busy.channel = "handshake" /\ reader.session.state = "handshaking"
      /\ UNCHANGED <<started, done, cmds, writer, sent, status>>
  BY DEF HandshakeForwarded
<1>2. h \in Handshakes  BY <1>1, SessionHandshake
<1>3. started \in Nat  BY CapacityAssumption DEF IInv, TasksOK
<1>4. DoneOK' /\ CmdsOK' /\ WriterOK' /\ StatusOK'
  BY <1>1 DEF IInv, DoneOK, CmdsOK, WriterOK, StatusOK
<1>5. CASE /\ InboxOpen(h) /\ InboxRoom(h)
           /\ task' = [task EXCEPT ![h].inbox = Append(@, reader.busy.payload)]
           /\ reader' = Handled(reader.session)
  <2>1. /\ task[h].inbox \in Seq(Payloads) /\ reader.busy.payload \in Payloads
        /\ Len(task[h].inbox) < HandshakeCapacity
    BY <1>1, <1>2, <1>5, FrameFields DEF IInv, TasksOK, ReaderOK, InboxRoom
  <2>2. /\ Append(task[h].inbox, reader.busy.payload) \in Seq(Payloads)
        /\ Len(Append(task[h].inbox, reader.busy.payload)) <= HandshakeCapacity
    BY <2>1, CapacityAssumption
  <2>3. /\ task' \in [Handshakes -> [step: Steps, inbox: Seq(Payloads)]]
        /\ \A g \in Handshakes : task'[g].step = task[g].step
        /\ \A g \in Handshakes : Len(task'[g].inbox) <= HandshakeCapacity
    BY <1>2, <1>5, <2>2 DEF IInv, TasksOK
  <2>4. TasksOK'  BY <1>1, <2>3 DEF IInv, TasksOK
  <2>5. reader' = [session |-> reader.session, busy |-> NoFrame,
                   failures |-> reader.failures, ended |-> reader.ended]
    BY <1>5, HandledIs
  <2>6. ReaderOK' /\ MayStart'
    BY <1>1, <2>5 DEF IInv, ReaderOK, MayStart, Sessions, Live
  <2>7. Reported'
    BY <1>1, <1>2, <1>5, <2>3, <2>5 DEF Reported, InboxOpen
  <2>8. SentOK'
    BY <1>1, <2>3 DEF IInv, SentOK
  <2>9. HalvesAgree'
    BY <1>1, <2>5, SessionShapes DEF HalvesAgree
  <2> QED BY <1>4, <2>4, <2>6, <2>7, <2>8, <2>9 DEF IInv
<1>6. CASE ~InboxOpen(h) /\ reader' = Handled(Idle) /\ UNCHANGED task
  <2>1. reader' = [session |-> Idle, busy |-> NoFrame,
                   failures |-> reader.failures, ended |-> reader.ended]
    BY <1>6, HandledIs
  <2>2. ReaderOK' /\ MayStart'
    <3>1. /\ reader.failures \in 0..MaxFailures /\ reader.ended \in BOOLEAN
          /\ ~reader.ended => reader.failures < MaxFailures
      BY DEF IInv, ReaderOK, Live
    <3> QED BY <1>1, <1>3, <2>1, <3>1, FreshSession
  <2>3. TasksOK' /\ SentOK'
    BY <1>1, <1>6 DEF IInv, TasksOK, SentOK
  <2>4. Reported'  BY <2>1, SessionShapes DEF Reported
  <2>5. done # <<>>
    <3>1. \E i \in 1..Len(done) : done[i].hs = h
      BY <1>1, <1>6 DEF IInv, Reported, InboxOpen
    <3> QED BY <3>1
  <2>6. HalvesAgree'
    BY <1>1, <2>1, <2>5, SessionShapes DEF HalvesAgree
  <2> QED BY <1>4, <2>2, <2>3, <2>4, <2>6 DEF IInv
<1> QED BY <1>5, <1>6 DEF HandshakeForwarded

LEMMA CiphertextHeldKeeps == ASSUME IInv, CiphertextHeld PROVE IInv'
<1> DEFINE held == reader.session.pending
           s == IF Len(held) >= MaxPending THEN reader.session
                ELSE [reader.session EXCEPT !.pending = Append(held, reader.busy.cipher)]
<1>1. /\ Live /\ reader.busy.channel = "ciphertext" /\ reader.session.state = "handshaking"
      /\ reader' = Handled(s)
      /\ UNCHANGED <<task, started, done, cmds, writer, sent, status>>
  BY DEF CiphertextHeld
<1>2. /\ reader.session \in Sessions /\ held \in Seq(Sealed) /\ Len(held) \in Nat
      /\ Len(held) <= MaxPending /\ reader.busy.cipher \in Sealed
  BY <1>1, FrameFields DEF IInv, ReaderOK, Sessions
<1>3. /\ s \in Sessions /\ s.opened = reader.session.opened /\ Len(s.pending) <= MaxPending
      /\ s.state = reader.session.state /\ s.hs = reader.session.hs
  <2>1. CASE Len(held) >= MaxPending  BY <1>2, <2>1
  <2>2. CASE ~(Len(held) >= MaxPending)
    <3>1. /\ Append(held, reader.busy.cipher) \in Seq(Sealed)
          /\ Len(Append(held, reader.busy.cipher)) <= MaxPending
      BY <1>2, <2>2, CapacityAssumption
    <3>2. s = [reader.session EXCEPT !.pending = Append(held, reader.busy.cipher)]
      BY <2>2
    <3> HIDE DEF s
    <3> QED BY <1>2, <3>1, <3>2 DEF Sessions
  <2> QED BY <2>1, <2>2
<1> HIDE DEF s
<1>4. reader' = [session |-> s, busy |-> NoFrame,
                 failures |-> reader.failures, ended |-> reader.ended]
  BY <1>1, HandledIs
<1>5. ReaderOK' /\ MayStart'
  BY <1>1, <1>3, <1>4 DEF IInv, ReaderOK, Sessions, Live, MayStart
<1>6. TasksOK' /\ DoneOK' /\ CmdsOK' /\ WriterOK' /\ StatusOK' /\ SentOK'
  BY <1>1 DEF IInv, TasksOK, DoneOK, CmdsOK, WriterOK, StatusOK, SentOK
<1>7. Reported'
  BY <1>1, <1>3, <1>4 DEF IInv, Reported
<1>8. HalvesAgree'
  BY <1>1, <1>3, <1>4 DEF HalvesAgree
<1> QED BY <1>5, <1>6, <1>7, <1>8 DEF IInv

LEMMA CiphertextOpenedKeeps == ASSUME IInv, CiphertextOpened PROVE IInv'
<1> DEFINE s == Established(reader.session.hs, reader.session.opened + 1)
<1>1. /\ Live /\ reader.session.state = "established" /\ reader' = Handled(s)
      /\ UNCHANGED <<task, started, done, cmds, writer, sent, status>>
  BY DEF CiphertextOpened, Acceptable
<1>2. reader.session.hs \in 1..started  BY <1>1, SessionHandshake
<1>3. reader' = [session |-> s, busy |-> NoFrame,
                 failures |-> reader.failures, ended |-> reader.ended]
  BY <1>1, HandledIs
<1>4. ReaderOK' /\ MayStart'
  <2>1. /\ reader.failures \in 0..MaxFailures /\ reader.ended \in BOOLEAN
        /\ ~reader.ended => reader.failures < MaxFailures
    BY DEF IInv, ReaderOK, Live
  <2>2. started \in Nat  BY CapacityAssumption DEF IInv, TasksOK
  <2> QED BY <1>1, <1>2, <1>3, <2>1, <2>2, FreshSession
<1>5. TasksOK' /\ DoneOK' /\ CmdsOK' /\ WriterOK' /\ StatusOK' /\ SentOK'
  BY <1>1 DEF IInv, TasksOK, DoneOK, CmdsOK, WriterOK, StatusOK, SentOK
<1>6. Reported'
  BY <1>3, SessionShapes DEF Reported
<1>7. HalvesAgree'
  <2>1. reader'.session.state = "established" /\ reader'.session.hs = reader.session.hs
    BY <1>3, SessionShapes
  <2> QED BY <1>1, <2>1, WillHaveIs DEF IInv, HalvesAgree, CmdsOK
<1> QED BY <1>4, <1>5, <1>6, <1>7 DEF IInv

LEMMA CiphertextFailsKeeps == ASSUME IInv, CiphertextFails PROVE IInv'
<1>1. /\ Live /\ reader.busy.channel = "ciphertext"
      /\ reader.session.state # "handshaking" /\ ~Acceptable(reader.busy.cipher)
      /\ CanSend /\ cmds' = Sent(Down) /\ status' = "waiting"
      /\ UNCHANGED <<done, writer, sent>>
  BY DEF CiphertextFails
<1>2. /\ reader.failures \in Nat /\ reader.failures < MaxFailures
      /\ reader.failures + 1 \in 0..MaxFailures
      /\ reader.ended = FALSE
      /\ started \in Nat
  BY <1>1, CapacityAssumption DEF IInv, ReaderOK, TasksOK, Live
<1>3. CASE reader.failures + 1 >= MaxFailures
  <2>1. /\ reader' = [Handled(reader.session) EXCEPT !.ended = TRUE, !.failures = @ + 1]
        /\ UNCHANGED <<task, started>>
    BY <1>3 DEF CiphertextFails
  <2>2. reader' = [session |-> reader.session, busy |-> NoFrame,
                   failures |-> reader.failures + 1, ended |-> TRUE]
    BY <2>1, HandledIs
  <2>3. ReaderOK' /\ MayStart' /\ Reported' /\ HalvesAgree'
    <3>1. /\ reader'.session = reader.session /\ reader'.busy = NoFrame
          /\ reader'.failures = reader.failures + 1 /\ reader'.ended = TRUE
      BY <2>2
    <3>2. ReaderOK'
      <4>1. /\ reader' = [session |-> reader'.session, busy |-> reader'.busy,
                          failures |-> reader'.failures, ended |-> reader'.ended]
            /\ reader'.ended \in BOOLEAN
        BY <2>2
      <4> QED BY <1>2, <2>1, <3>1, <4>1 DEF IInv, ReaderOK, Sessions, Live
    <3> QED BY <3>1, <3>2 DEF Live, MayStart, Reported, HalvesAgree
  <2>4. CmdsOK' /\ WriterOK' /\ SentOK'
    BY <1>1, <1>2, <2>1, ReaderSends, CommandFields DEF None
  <2>5. TasksOK' /\ DoneOK' /\ StatusOK'
    BY <1>1, <2>1 DEF IInv, TasksOK, DoneOK, StatusOK
  <2> QED BY <2>3, <2>4, <2>5 DEF IInv
<1>4. CASE ~(reader.failures + 1 >= MaxFailures)
  <2>1. /\ Start(<<>>)
        /\ reader' = [Handled(Handshaking(started + 1)) EXCEPT !.failures = @ + 1]
    BY <1>4 DEF CiphertextFails
  <2>2. started < MaxHandshakes
    <3>1. reader.busy # NoFrame  BY <1>1 DEF NoFrame, Frame
    <3> QED BY <1>1, <3>1 DEF IInv, MayStart, Starts
  <2>3. /\ TasksOK' /\ started' = started + 1 /\ started' \in Handshakes
        /\ task'[started'].step = "hello"
        /\ \A g \in Handshakes : Quota(task'[g].step) = Quota(task[g].step)
    <3>1. <<>> \in Seq(Payloads) /\ Len(<<>>) <= HandshakeCapacity  BY CapacityAssumption
    <3> QED BY <2>1, <2>2, <3>1, StartFacts
  <2>4. reader' = [session |-> Handshaking(started'), busy |-> NoFrame,
                   failures |-> reader.failures + 1, ended |-> FALSE]
    BY <1>2, <2>1, <2>3, HandledIs
  <2>5. ReaderOK' /\ MayStart'
    <3>1. reader.failures + 1 < MaxFailures  BY <1>2, <1>4, CapacityAssumption
    <3>2. started' \in 1..started' /\ started' \in Nat /\ started <= started'  BY <1>2, <2>3
    <3> QED BY <1>2, <2>4, <3>1, <3>2, FreshSession
  <2>6. CmdsOK' /\ WriterOK' /\ SentOK'
    BY <1>1, <1>2, <2>3, ReaderSends, CommandFields DEF None
  <2>7. DoneOK' /\ StatusOK'
    <3>1. \A r \in Results : r.hs \in Nat
      BY CapacityAssumption DEF Results, Handshakes
    <3>2. \A i \in 1..Len(done) : done[i].hs \in Nat
      BY <3>1 DEF IInv, DoneOK
    <3> QED BY <1>1, <1>2, <2>3, <3>2 DEF IInv, DoneOK, StatusOK
  <2>8. Reported'  BY <2>3, <2>4, SessionShapes DEF Reported
  <2>9. HalvesAgree'
    BY <2>4, SessionShapes DEF HalvesAgree
  <2> QED BY <2>3, <2>5, <2>6, <2>7, <2>8, <2>9 DEF IInv
<1> QED BY <1>3, <1>4

-----------------------------------------------------------------------------
(* The read loop: finished handshakes.                                     *)

LEMMA TakeFacts ==
    ASSUME IInv, done # <<>>, done' = Tail(done), UNCHANGED started
    PROVE  /\ Head(done).hs \in Handshakes /\ Head(done).hs \in 1..started
           /\ DoneOK'
<1>1. /\ done \in Seq(Results) /\ Len(done) \in Nat /\ Len(done) >= 1
      /\ Head(done) = done[1] /\ Head(done) \in Results
      /\ Tail(done) \in Seq(Results) /\ Len(Tail(done)) = Len(done) - 1
      /\ \A i \in 1..Len(Tail(done)) : Tail(done)[i] = done[i + 1]
  BY DEF IInv, DoneOK
<1>2. Head(done).hs \in Handshakes /\ Head(done).hs <= started
  BY <1>1 DEF IInv, DoneOK, Results
<1>3. Head(done).hs \in 1..started
  BY <1>2, CapacityAssumption DEF Handshakes, IInv, TasksOK
<1>4. DoneOK'
  BY <1>1, CapacityAssumption DEF IInv, DoneOK
<1> QED BY <1>2, <1>3, <1>4

LEMMA TakeSessionKeeps == ASSUME IInv, TakeSession PROVE IInv'
<1> DEFINE h == Head(done).hs
           held == IF reader.session.state = "handshaking"
                   THEN reader.session.pending ELSE <<>>
           up == [kind |-> "up", hs |-> h]
<1>1. /\ Free /\ done # <<>> /\ CanSend /\ cmds' = Sent(up)
      /\ done' = Tail(done) /\ UNCHANGED <<task, started, writer, sent>>
  BY DEF TakeSession
<1>2. h \in Handshakes /\ h \in 1..started /\ DoneOK'
  BY <1>1, TakeFacts
<1>3. up \in Commands /\ up.kind = "up" /\ up.hs = h  BY <1>2, CommandFields
<1>4. started \in Nat  BY CapacityAssumption DEF IInv, TasksOK
<1>5. CmdsOK' /\ WriterOK' /\ SentOK'
  BY <1>1, <1>2, <1>3, <1>4, ReaderSends
<1>6. TasksOK'
  BY <1>1 DEF IInv, TasksOK
<1>7. CASE reader' = [reader EXCEPT !.ended = TRUE] /\ UNCHANGED status
  <2>1. /\ reader'.ended /\ ReaderOK'
    BY <1>1, <1>7 DEF IInv, ReaderOK, Sessions, Live
  <2>2. MayStart' /\ Reported' /\ HalvesAgree'
    BY <2>1 DEF Live, MayStart, Reported, HalvesAgree
  <2>3. StatusOK'  BY <1>7 DEF IInv, StatusOK
  <2> QED BY <1>2, <1>5, <1>6, <2>1, <2>2, <2>3 DEF IInv
<1>8. CASE /\ ~writer.ended
           /\ reader' = [reader EXCEPT
                  !.session = Established(h, Counter(held, h)[Len(held)]), !.failures = 0]
           /\ status' = "online"
  <2>1. PICK n : reader' = [reader EXCEPT !.session = Established(h, n), !.failures = 0]
    BY <1>8
  <2> DEFINE s == Established(h, n)
  <2> HIDE DEF s
  <2>2. reader' = [session |-> s, busy |-> NoFrame, failures |-> 0, ended |-> FALSE]
    <3>1. reader.busy = NoFrame /\ reader.ended = FALSE
      BY <1>1 DEF Free, Live, IInv, ReaderOK
    <3>2. reader' = [reader EXCEPT !.session = s, !.failures = 0]  BY <2>1 DEF s
    <3> QED BY <3>1, <3>2, HandledIs
  <2>3. ReaderOK' /\ MayStart'
    <3>1. 0 \in 0..MaxFailures /\ 0 < MaxFailures  BY CapacityAssumption
    <3>2. \E g \in 1..started' : \E m : s = Established(g, m)  BY <1>1, <1>2 DEF s
    <3>3. started' \in Nat /\ started <= started'  BY <1>1, <1>4
    <3> QED BY <2>2, <3>1, <3>2, <3>3, FreshSession
  <2>4. reader'.session.state = "established" /\ reader'.session.hs = h
    BY <2>2, SessionShapes DEF s
  <2>5. Reported'  BY <2>4 DEF Reported
  <2>6. StatusOK'  BY <1>8 DEF StatusOK
  <2>7. HalvesAgree'
    <3> SUFFICES ASSUME NEW x \in Handshakes, WillHave(cmds', writer.session, x)
                 PROVE  x = h
      BY <1>1, <1>5, <2>4, WillHaveIs DEF HalvesAgree, CmdsOK
    <3>1. cmds' = Append(cmds, up)  BY <1>1, <1>8 DEF Sent
    <3> QED BY <1>3, <3>1, WillHaveLast DEF IInv, CmdsOK
  <2> QED BY <1>2, <1>5, <1>6, <2>3, <2>5, <2>6, <2>7 DEF IInv
<1> QED BY <1>7, <1>8 DEF TakeSession

LEMMA TakeFailureKeeps == ASSUME IInv, TakeFailure PROVE IInv'
<1>1. /\ Live /\ done # <<>> /\ CanSend /\ cmds' = Sent(Down)
      /\ reader' = Handled(Idle) /\ status' = "waiting"
      /\ done' = Tail(done) /\ UNCHANGED <<task, started, writer, sent>>
  BY DEF TakeFailure, Free
<1>2. DoneOK'  BY <1>1, TakeFacts
<1>3. reader' = [session |-> Idle, busy |-> NoFrame,
                 failures |-> reader.failures, ended |-> reader.ended]
  BY <1>1, HandledIs
<1>4. started \in Nat  BY CapacityAssumption DEF IInv, TasksOK
<1>5. ReaderOK' /\ MayStart'
  <2>1. /\ reader.failures \in 0..MaxFailures /\ reader.ended \in BOOLEAN
        /\ ~reader.ended => reader.failures < MaxFailures
    BY DEF IInv, ReaderOK, Live
  <2> QED BY <1>1, <1>3, <1>4, <2>1, FreshSession
<1>6. CmdsOK' /\ WriterOK' /\ SentOK'
  BY <1>1, <1>4, ReaderSends, CommandFields DEF None
<1>7. TasksOK' /\ StatusOK'
  BY <1>1 DEF IInv, TasksOK, StatusOK
<1>8. Reported'  BY <1>3, SessionShapes DEF Reported
<1>9. HalvesAgree'
  BY <1>1, <1>6, NothingAfterDown DEF HalvesAgree
<1> QED BY <1>2, <1>5, <1>6, <1>7, <1>8, <1>9 DEF IInv

-----------------------------------------------------------------------------
(* The theorems.                                                           *)

LEMMA NextIInv == IInv /\ [Next]_vars => IInv'
<1> SUFFICES ASSUME IInv, [Next]_vars PROVE IInv'  OBVIOUS
<1>1. CASE ReadFrame \/ SocketEnds \/ GoingAway  BY <1>1, ReaderWaits
<1>2. CASE PeerOnline \/ HandshakeStarts  BY <1>2, HandshakeBegins
<1>3. CASE PeerOffline  BY <1>3, PeerOfflineKeeps
<1>4. CASE HandshakeForwarded  BY <1>4, HandshakeForwardedKeeps
<1>5. CASE CiphertextHeld  BY <1>5, CiphertextHeldKeeps
<1>6. CASE CiphertextOpened  BY <1>6, CiphertextOpenedKeeps
<1>7. CASE CiphertextFails  BY <1>7, CiphertextFailsKeeps
<1>8. CASE TakeSession  BY <1>8, TakeSessionKeeps
<1>9. CASE TakeFailure  BY <1>9, TakeFailureKeeps
<1>10. CASE \E h \in Handshakes : TaskStep(h)
  <2>1. PICK h \in Handshakes : TaskStep(h)  BY <1>10
  <2>2. CASE SendHello(h) \/ SendConfirm(h)
    BY <2>2, SendPayloadKeeps DEF SendHello, SendConfirm
  <2>3. CASE AwaitHello(h) \/ AwaitConfirm(h)
    BY <2>3, AwaitPayloadKeeps DEF AwaitHello, AwaitConfirm
  <2>4. CASE Report(h)  BY <2>4, ReportKeeps
  <2> QED BY <2>1, <2>2, <2>3, <2>4 DEF TaskStep
<1>11. CASE WriteCommand  BY <1>11, WriteCommandKeeps
<1>12. CASE DropSession \/ WriterEnds  BY <1>12, WriterLosesSession
<1>13. CASE UNCHANGED vars
  <2>1. UNCHANGED <<reader, task, started, done, cmds, writer, sent, status>>
    BY <1>13 DEF vars
  <2>2. ReaderOK' /\ TasksOK' /\ DoneOK' /\ CmdsOK' /\ WriterOK' /\ StatusOK'
    BY <2>1 DEF IInv, ReaderOK, Sessions, Live, TasksOK, DoneOK, CmdsOK, WriterOK, StatusOK
  <2>3. Reported' /\ MayStart' /\ SentOK'
    BY <2>1 DEF IInv, Reported, MayStart, SentOK, Live, Starts, Acceptable, Opens
  <2>4. HalvesAgree'
    BY <2>1, WillHaveIs DEF IInv, HalvesAgree, Live, CmdsOK
  <2> QED BY <2>2, <2>3, <2>4 DEF IInv
<1> QED BY <1>1, <1>2, <1>3, <1>4, <1>5, <1>6, <1>7, <1>8, <1>9, <1>10, <1>11,
           <1>12, <1>13 DEF Next, Handle

LEMMA Inductive == Spec => []IInv
<1>1. Init => IInv  BY InitIInv
<1>2. IInv /\ [Next]_vars => IInv'  BY NextIInv
<1> QED BY <1>1, <1>2, PTL DEF Spec

LEMMA IInvTypes == IInv => TypeOK
<1> SUFFICES ASSUME IInv PROVE TypeOK  OBVIOUS
<1>1. /\ reader.session.state \in {"idle", "handshaking", "established"}
      /\ reader.session.hs \in 0..started
      /\ (reader.session.hs = None <=> reader.session.state = "idle")
      /\ reader.session.pending \in Seq(Sealed) /\ Len(reader.session.pending) <= MaxPending
      /\ reader.busy \in Frames \cup {NoFrame}
      /\ reader.failures \in 0..MaxFailures /\ reader.ended \in BOOLEAN
  BY CapacityAssumption DEF IInv, ReaderOK, TasksOK, Sessions
<1>2. started \in 0..MaxHandshakes  BY DEF IInv, TasksOK
<1>3. \A h \in Handshakes :
         /\ task[h].step \in Steps /\ (task[h].step = "none" <=> h > started)
         /\ task[h].inbox \in Seq(Payloads)
         /\ Len(task[h].inbox) <= HandshakeCapacity
         /\ sent[h] \in 0..2
  <2> SUFFICES ASSUME NEW h \in Handshakes
               PROVE  /\ task[h].step \in Steps /\ (task[h].step = "none" <=> h > started)
                      /\ task[h].inbox \in Seq(Payloads)
                      /\ Len(task[h].inbox) <= HandshakeCapacity
                      /\ sent[h] \in 0..2
    OBVIOUS
  <2>1. /\ task[h].step \in Steps /\ (task[h].step = "none" <=> h > started)
        /\ task[h].inbox \in Seq(Payloads)
        /\ Len(task[h].inbox) <= HandshakeCapacity
    BY DEF IInv, TasksOK
  <2>2. Quota(task[h].step) \in 0..2 /\ sent[h] \in Nat /\ sent[h] <= Quota(task[h].step)
    BY <2>1, StepFacts DEF IInv, SentOK
  <2> QED BY <2>1, <2>2
<1>4. done \in Seq(Results) /\ Len(done) <= HandshakeCapacity  BY DEF IInv, DoneOK
<1>5. cmds \in Seq(Commands) /\ Len(cmds) <= OutCapacity  BY DEF IInv, CmdsOK
<1>6. writer.session \in 0..started /\ writer.ended \in BOOLEAN
  BY CapacityAssumption DEF IInv, WriterOK, TasksOK
<1>7. status \in {"waiting", "online"}  BY DEF IInv, StatusOK
<1> QED BY <1>1, <1>2, <1>3, <1>4, <1>5, <1>6, <1>7 DEF TypeOK

\* The parts of a connection keep their types and the channels their bounds,
\* a handshake writes at most two frames, and none is started beyond the ones
\* the numbering knows (run_reader_dual, run_writer_dual, perform_handshake).
THEOREM TypeCorrect == Spec => []TypeOK
BY Inductive, IInvTypes, PTL

\* However handshakes overlap, the writer never comes to seal for a session
\* other than the reader's: SessionUp and SessionDown reach it in the order
\* in which the read loop changed its own half (run_reader_dual).
THEOREM HalvesStayTogether == Spec => []HalvesAgree
<1>1. IInv => HalvesAgree  BY DEF IInv
<1> QED BY <1>1, Inductive, PTL

-----------------------------------------------------------------------------
(* The held frames.                                                        *)

\* A set of numbers with 0 in it and closed under the next one is all of them.
LEMMA NatSets ==
    ASSUME NEW T \in SUBSET Nat, 0 \in T, \A n \in T : n + 1 \in T
    PROVE  T = Nat
<1> DEFINE Left == Nat \ T
           Below == OpToRel(<, Nat)
<1>1. SUFFICES ASSUME Left # {} PROVE FALSE  OBVIOUS
<1>2. IsWellFoundedOn(Below, Nat)  BY NatLessThanWellFounded
<1>3. \A y, x \in Nat : y < x => <<y, x>> \in Below  BY DEF OpToRel
<1> HIDE DEF Below
<1>4. \E x \in Left : \A y \in Left : <<y, x>> \notin Below
  <2>1. Left \subseteq Nat  OBVIOUS
  <2> HIDE DEF Left
  <2> QED BY <1>1, <1>2, <2>1, WFMin
<1>5. PICK n \in Left : \A y \in Left : <<y, n>> \notin Below  BY <1>4
<1>6. n \in Nat /\ n \notin T /\ n # 0  BY <1>5
<1>7. n - 1 \in Nat /\ n - 1 < n /\ (n - 1) + 1 = n  BY <1>6
<1>8. n - 1 \in T  BY <1>3, <1>5, <1>6, <1>7
<1> QED BY <1>6, <1>7, <1>8

\* The frames of session h among the first i held.
Of(held, h, i) == {j \in 1..i : held[j].hs = h}

\* The next frame held is of the session or it is not.
LEMMA OfNext ==
    ASSUME NEW held, NEW h, NEW i \in Nat
    PROVE  /\ IsFiniteSet(Of(held, h, i)) /\ Cardinality(Of(held, h, i)) \in Nat
           /\ Cardinality(Of(held, h, i + 1)) =
                  Cardinality(Of(held, h, i)) + IF held[i + 1].hs = h THEN 1 ELSE 0
<1> DEFINE before == Of(held, h, i)
           after == Of(held, h, i + 1)
<1>1. before \in SUBSET (1..i) /\ i + 1 \notin before  BY DEF Of
<1>2. after = IF held[i + 1].hs = h THEN before \cup {i + 1} ELSE before  BY DEF Of
<1> HIDE DEF before, after
<1>3. IsFiniteSet(1..i)  BY FS_Interval
<1>4. IsFiniteSet(before)  BY <1>1, <1>3, FS_Subset
<1>5. Cardinality(before) \in Nat  BY <1>4, FS_CardinalityType
<1>6. Cardinality(before \cup {i + 1}) = Cardinality(before) + 1  BY <1>1, <1>4, FS_AddElement
<1>7. Cardinality(after) = Cardinality(before) + IF held[i + 1].hs = h THEN 1 ELSE 0
  <2>1. CASE held[i + 1].hs = h  BY <1>2, <1>6, <2>1
  <2>2. CASE held[i + 1].hs # h  BY <1>2, <1>5, <2>2
  <2> QED BY <2>1, <2>2
<1> QED BY <1>4, <1>5, <1>7 DEF before, after

\* The opener's counter at each of the held frames, unfolded.
Drained(c, held, h) ==
    c = [i \in 0..Len(held) |->
            IF i = 0 THEN 0
            ELSE c[i - 1] + IF Opens(held[i], h, c[i - 1]) THEN 1 ELSE 0]

\* If the frames of the session are in order from its first one, the drain
\* opens each of them, whatever lies between them.
LEMMA DrainOpensAll ==
    ASSUME NEW held, Len(held) \in Nat, NEW h,
           \A i \in Of(held, h, Len(held)) : held[i].n = Cardinality(Of(held, h, i)) - 1
    PROVE  Counter(held, h)[Len(held)] = Cardinality(Of(held, h, Len(held)))
<1> DEFINE N == Len(held)
           card == [i \in 0..N |-> Cardinality(Of(held, h, i))]
           c == CHOOSE f : Drained(f, held, h)
<1>1. ASSUME NEW i \in 1..N
      PROVE  /\ i - 1 \in 0..N /\ Cardinality(Of(held, h, i - 1)) \in Nat
             /\ Cardinality(Of(held, h, i)) = Cardinality(Of(held, h, i - 1))
                   + IF Opens(held[i], h, Cardinality(Of(held, h, i - 1))) THEN 1 ELSE 0
  <2>1. i - 1 \in Nat /\ (i - 1) + 1 = i /\ i - 1 \in 0..N  OBVIOUS
  <2>2. /\ Cardinality(Of(held, h, i - 1)) \in Nat
        /\ Cardinality(Of(held, h, (i - 1) + 1)) =
              Cardinality(Of(held, h, i - 1)) + IF held[(i - 1) + 1].hs = h THEN 1 ELSE 0
    BY ONLY <2>1, OfNext
  <2>3. held[i].hs = h => held[i].n = Cardinality(Of(held, h, i)) - 1
    <3>1. held[i].hs = h => i \in Of(held, h, N)  BY DEF Of
    <3> QED BY <3>1
  <2>4. CASE held[i].hs = h  BY <2>1, <2>2, <2>3, <2>4 DEF Opens
  <2>5. CASE held[i].hs # h  BY <2>1, <2>2, <2>5 DEF Opens
  <2> QED BY <2>1, <2>2, <2>4, <2>5
<1>2. Cardinality(Of(held, h, 0)) = 0
  <2>1. Of(held, h, 0) = {}  BY DEF Of
  <2> QED BY <2>1, FS_EmptySet
<1>3. Drained(card, held, h)
  <2> DEFINE rhs(i) == IF i = 0 THEN 0
                       ELSE card[i - 1] + IF Opens(held[i], h, card[i - 1]) THEN 1 ELSE 0
  <2>1. ASSUME NEW i \in 0..N PROVE Cardinality(Of(held, h, i)) = rhs(i)
    <3>1. CASE i = 0  BY <1>2, <3>1
    <3>2. CASE i # 0
      <4>1. i \in 1..N  BY <3>2
      <4>2. card[i - 1] = Cardinality(Of(held, h, i - 1))  BY <1>1, <4>1
      <4> QED BY <1>1, <3>2, <4>1, <4>2
    <3> QED BY <3>1, <3>2
  <2>2. card = [i \in 0..N |-> rhs(i)]  BY <2>1
  <2> QED BY <2>2 DEF Drained
<1>4. Drained(c, held, h)  BY <1>3
<1>5. Counter(held, h) = c  BY DEF Counter, Drained
<1> HIDE DEF c
<1>6. /\ c[0] = 0
      /\ \A i \in 1..N : c[i] = c[i - 1] + IF Opens(held[i], h, c[i - 1]) THEN 1 ELSE 0
  BY <1>4 DEF Drained
<1> DEFINE T == {n \in Nat : n <= N => c[n] = Cardinality(Of(held, h, n))}
<1>7. 0 \in T  BY <1>2, <1>6
<1>8. ASSUME NEW n \in T PROVE n + 1 \in T
  <2>1. SUFFICES ASSUME n + 1 <= N PROVE c[n + 1] = Cardinality(Of(held, h, n + 1))
    OBVIOUS
  <2>2. n + 1 \in 1..N /\ (n + 1) - 1 = n /\ c[n] = Cardinality(Of(held, h, n))  BY <2>1
  <2>3. c[n + 1] = c[n] + IF Opens(held[n + 1], h, c[n]) THEN 1 ELSE 0  BY <1>6, <2>2
  <2>4. Cardinality(Of(held, h, n + 1)) = Cardinality(Of(held, h, n))
            + IF Opens(held[n + 1], h, Cardinality(Of(held, h, n))) THEN 1 ELSE 0
    BY <1>1, <2>2
  <2> QED BY <2>2, <2>3, <2>4
<1>9. T = Nat
  <2>1. T \in SUBSET Nat  OBVIOUS
  <2> HIDE DEF T
  <2> QED BY <1>7, <1>8, <2>1, NatSets
<1>10. N \in T  BY <1>9
<1> QED BY <1>5, <1>10

\* Only a result that was taken turns a handshaking session into an
\* established one, with the counter its drain came to.
LEMMA OnlyResultsEstablish ==
    ASSUME IInv, [Next]_vars,
           reader.session.state = "handshaking", reader'.session.state = "established"
    PROVE  \E h : LET held == reader.session.pending
                  IN  reader'.session = Established(h, Counter(held, h)[Len(held)])
<1>1. CASE TakeSession
  <2> DEFINE h == Head(done).hs
             held == reader.session.pending
  <2>1. \/ reader' = [reader EXCEPT !.ended = TRUE]
        \/ reader' = [reader EXCEPT !.session = Established(h, Counter(held, h)[Len(held)]),
                                    !.failures = 0]
    BY <1>1 DEF TakeSession
  <2>2. reader'.session = Established(h, Counter(held, h)[Len(held)])
    BY <2>1 DEF IInv, ReaderOK
  <2> QED BY <2>2
<1>2. ASSUME UNCHANGED reader PROVE FALSE  BY <1>2
<1>3. ASSUME NEW s, NEW r, r = Handled(s) \/ r = [Handled(s) EXCEPT !.ended = TRUE]
      PROVE  r.session = s
  BY <1>3 DEF Handled, IInv, ReaderOK
<1>4. CASE ReadFrame \/ SocketEnds
  BY <1>4 DEF ReadFrame, SocketEnds, IInv, ReaderOK
<1>5. CASE PeerOnline \/ HandshakeStarts
  BY <1>3, <1>5, SessionShapes DEF PeerOnline, HandshakeStarts
<1>6. CASE PeerOffline \/ TakeFailure
  BY <1>3, <1>6 DEF PeerOffline, TakeFailure, Idle
<1>7. CASE GoingAway
  BY <1>3, <1>7 DEF GoingAway
<1>8. CASE HandshakeForwarded
  <2>1. reader' = Handled(reader.session) \/ reader' = Handled(Idle)
    BY <1>8 DEF HandshakeForwarded
  <2> QED BY <1>3, <2>1 DEF Idle
<1>9. CASE CiphertextHeld
  <2> DEFINE s == [reader.session EXCEPT !.pending = Append(@, reader.busy.cipher)]
  <2>1. reader' = Handled(reader.session) \/ reader' = Handled(s)
    BY <1>9 DEF CiphertextHeld
  <2>2. s.state = reader.session.state  BY DEF IInv, ReaderOK, Sessions
  <2> HIDE DEF s
  <2> QED BY <1>3, <2>1, <2>2
<1>10. CASE CiphertextOpened \/ CiphertextFails
  BY <1>10 DEF CiphertextOpened, CiphertextFails, Acceptable
<1>11. ASSUME NEW h \in Handshakes, TaskStep(h) PROVE FALSE
  BY <1>2, <1>11 DEF TaskStep, SendHello, SendConfirm, SendPayload, AwaitHello, AwaitConfirm,
                     AwaitPayload, Report
<1>12. CASE WriteCommand \/ DropSession \/ WriterEnds \/ UNCHANGED vars
  BY <1>2, <1>12 DEF WriteCommand, DropSession, WriterEnds, vars
<1> QED BY <1>1, <1>4, <1>5, <1>6, <1>7, <1>8, <1>9, <1>10, <1>11, <1>12 DEF Next, Handle

\* Of any number of frames held, of any number of sessions, those of the
\* session that is installed are all opened if they are the first in order
\* (the drain of `pending` in run_reader_dual).
THEOREM AllHeldAreOpened == Spec => HeldFramesOpened
<1> DEFINE Opened ==
              LET h == reader'.session.hs
                  held == reader.session.pending
                  In(i) == {j \in 1..i : held[j].hs = h}
              IN  /\ reader.session.state = "handshaking"
                  /\ reader'.session.state = "established"
                  /\ \A i \in In(Len(held)) : held[i].n = Cardinality(In(i)) - 1
                  => reader'.session.opened = Cardinality(In(Len(held)))
<1>1. ASSUME IInv, [Next]_vars PROVE Opened
  <2> DEFINE held == reader.session.pending
             h == reader'.session.hs
  <2>1. SUFFICES ASSUME reader.session.state = "handshaking",
                        reader'.session.state = "established",
                        \A i \in Of(held, h, Len(held)) :
                            held[i].n = Cardinality(Of(held, h, i)) - 1
                 PROVE  reader'.session.opened = Cardinality(Of(held, h, Len(held)))
    BY DEF Of
  <2>2. PICK g : reader'.session = Established(g, Counter(held, g)[Len(held)])
    BY <1>1, <2>1, OnlyResultsEstablish
  <2>3. h = g /\ reader'.session.opened = Counter(held, h)[Len(held)]
    BY <2>2 DEF Established
  <2>4. Len(held) \in Nat
    <3>1. held \in Seq(Sealed)  BY <1>1 DEF IInv, ReaderOK, Sessions
    <3> QED BY <3>1
  <2> HIDE DEF held, h
  <2>5. Counter(held, h)[Len(held)] = Cardinality(Of(held, h, Len(held)))
    BY <2>1, <2>4, DrainOpensAll
  <2> QED BY <2>3, <2>5
<1> QED BY <1>1, Inductive, PTL DEF Spec, HeldFramesOpened

=================================================================================

----------------------------- MODULE RelaySession -----------------------------
(***************************************************************************)
(* One connection to the relay, past its hello (relay/conn.rs): the read   *)
(* loop with the end-to-end session it carries, the handshake tasks it     *)
(* spawns, the writer task that owns the socket's sink, and the channels   *)
(* between them.                                                           *)
(*                                                                         *)
(* Handshakes are numbered in the order they are started; the session one  *)
(* of them ends in has its number.  The relay may send anything it can     *)
(* know: a HELLO, the peer's CONFIRM of a handshake whose HELLO it was     *)
(* sent, a frame sealed in a session whose CONFIRM it was sent, in any     *)
(* order and any number of times.  The plain lane and the API key are not  *)
(* here.  An await in the middle of the read loop's work is modelled where *)
(* the work starts: with the frame taken (busy) and nothing done.          *)
(***************************************************************************)
EXTENDS Integers, Sequences, FiniteSets

CONSTANTS
    OutCapacity,        \* OUT_CHANNEL_CAPACITY
    HandshakeCapacity,  \* HANDSHAKE_CHANNEL_CAPACITY
    MaxPending,         \* MAX_PENDING_CIPHERTEXT
    MaxFailures,        \* MAX_SESSION_FAILURES
    MaxHandshakes,      \* bound: handshakes started on the connection
    MaxCounter          \* bound: counters of the peer's sealed frames

ASSUME CapacityAssumption ==
    /\ OutCapacity \in Nat \ {0} /\ HandshakeCapacity \in Nat \ {0}
    /\ MaxPending \in Nat /\ MaxFailures \in Nat \ {0}
    /\ MaxHandshakes \in Nat /\ MaxCounter \in Nat

Handshakes == 1..MaxHandshakes
None == 0

VARIABLES
    reader,     \* the read loop and its session
    task,       \* task[h]: handshake h and its inbox (hs_tx, hs_rx)
    started,    \* the number of handshakes started
    done,       \* hs_done: results on their way to the read loop
    cmds,       \* the channel of commands to the writer
    writer,     \* the writer's session, and whether its task has ended
    sent,       \* sent[h]: frames of handshake h written to the socket
    status      \* the last status reported

vars == <<reader, task, started, done, cmds, writer, sent, status>>

\* Frames by channel.  A handshake payload is the peer's HELLO, its CONFIRM
\* of a handshake, or anything else.  Of a sealed frame, `hs` and `n` are the
\* session and counter it was sealed with, `inner` is whether it decodes.
Payloads == [kind: {"hello", "other"}, hs: {None}] \cup [kind: {"confirm"}, hs: Handshakes]
Sealed == [hs: Handshakes, n: 0..MaxCounter, inner: BOOLEAN]
NoPayload == [kind |-> "other", hs |-> None]
NoSealed == [hs |-> None, n |-> 0, inner |-> FALSE]
Frame(channel, payload, cipher) ==
    [channel |-> channel, payload |-> payload, cipher |-> cipher]
ControlFrames == {Frame(c, NoPayload, NoSealed) :
                     c \in {"peer_online", "peer_offline", "going_away"}}
Frames == ControlFrames
          \cup {Frame("handshake", p, NoSealed) : p \in Payloads}
          \cup {Frame("ciphertext", NoPayload, s) : s \in Sealed}
NoFrame == Frame("none", NoPayload, NoSealed)

Results == [hs: Handshakes, ok: BOOLEAN]
Commands == [kind: {"handshake", "up"}, hs: Handshakes] \cup [kind: {"down"}, hs: {None}]
Down == [kind |-> "down", hs |-> None]
Steps == {"none", "hello", "await_hello", "confirm", "await_confirm",
          "ok", "failed", "ended"}

Idle == [state |-> "idle", hs |-> None, pending |-> <<>>, opened |-> 0]
Handshaking(h) == [state |-> "handshaking", hs |-> h, pending |-> <<>>, opened |-> 0]
Established(h, n) == [state |-> "established", hs |-> h, pending |-> <<>>, opened |-> n]

Init ==
    /\ reader = [session |-> Idle, busy |-> NoFrame, failures |-> 0, ended |-> FALSE]
    /\ task = [h \in Handshakes |-> [step |-> "none", inbox |-> <<>>]]
    /\ started = 0
    /\ done = <<>> /\ cmds = <<>>
    /\ writer = [session |-> None, ended |-> FALSE]
    /\ sent = [h \in Handshakes |-> 0]
    /\ status = "waiting"

-----------------------------------------------------------------------------
(* Channels.  A send waits for room; it fails once the receiver is gone.   *)

\* Mutant: an unbounded channel.
CanAlwaysSend == TRUE

CanSend == writer.ended \/ Len(cmds) < OutCapacity
Sent(cmd) == IF writer.ended THEN cmds ELSE Append(cmds, cmd)

\* hs_rx lives until the task has handed its result over.
InboxOpen(h) == task[h].step # "ended"
InboxRoom(h) == Len(task[h].inbox) < HandshakeCapacity

\* hs_tx lives in the session: the task of any other handshake is retired.
Routed(h) == reader.session.state = "handshaking" /\ reader.session.hs = h

-----------------------------------------------------------------------------
(* The handshake task: send HELLO, await HELLO, send CONFIRM, await        *)
(* CONFIRM, report.                                                        *)

SendPayload(h, from, to) ==
    /\ task[h].step = from
    /\ CanSend
    /\ cmds' = Sent([kind |-> "handshake", hs |-> h])
    /\ task' = [task EXCEPT ![h].step = IF writer.ended THEN "failed" ELSE to]
    /\ UNCHANGED <<reader, started, done, writer, sent, status>>

AwaitPayload(h, from, to, good) ==
    /\ task[h].step = from
    /\ \/ /\ task[h].inbox # <<>>
          /\ task' = [task EXCEPT ![h] =
                         [step |-> IF Head(@.inbox) = good THEN to ELSE "failed",
                          inbox |-> Tail(@.inbox)]]
       \/ /\ task[h].inbox = <<>> /\ ~Routed(h)
          /\ task' = [task EXCEPT ![h].step = "failed"]
    /\ UNCHANGED <<reader, started, done, cmds, writer, sent, status>>

SendHello(h) == SendPayload(h, "hello", "await_hello")
AwaitHello(h) ==
    AwaitPayload(h, "await_hello", "confirm", [kind |-> "hello", hs |-> None])
SendConfirm(h) == SendPayload(h, "confirm", "await_confirm")
AwaitConfirm(h) ==
    AwaitPayload(h, "await_confirm", "ok", [kind |-> "confirm", hs |-> h])

Report(h) ==
    /\ task[h].step \in {"ok", "failed"}
    /\ Len(done) < HandshakeCapacity
    /\ done' = Append(done, [hs |-> h, ok |-> task[h].step = "ok"])
    /\ task' = [task EXCEPT ![h] = [step |-> "ended", inbox |-> <<>>]]
    /\ UNCHANGED <<reader, started, cmds, writer, sent, status>>

-----------------------------------------------------------------------------
(* The writer task.                                                        *)

\* Mutant: SessionDown is taken for the end of nothing but an idle session.
WriterSessionKept(cmd) == IF cmd.kind = "up" THEN cmd.hs ELSE writer.session

WriterSession(cmd) ==
    IF cmd.kind = "up" THEN cmd.hs
    ELSE IF cmd.kind = "down" THEN None
    ELSE writer.session

WriteCommand ==
    /\ ~writer.ended /\ cmds # <<>>
    /\ LET cmd == Head(cmds) IN
          /\ writer' = [writer EXCEPT !.session = WriterSession(cmd)]
          /\ sent' = IF cmd.kind = "handshake"
                     THEN [sent EXCEPT ![cmd.hs] = @ + 1] ELSE sent
    /\ cmds' = Tail(cmds)
    /\ UNCHANGED <<reader, task, started, done, status>>

\* The session's frames are at their end, or one cannot be sealed.
DropSession ==
    /\ ~writer.ended /\ writer.session # None
    /\ writer' = [writer EXCEPT !.session = None]
    /\ UNCHANGED <<reader, task, started, done, cmds, sent, status>>

\* Writing to the socket fails.
WriterEnds ==
    /\ ~writer.ended
    /\ writer' = [session |-> None, ended |-> TRUE]
    /\ cmds' = <<>>
    /\ UNCHANGED <<reader, task, started, done, sent, status>>

-----------------------------------------------------------------------------
(* The read loop.                                                          *)

Live == ~reader.ended
Free == Live /\ reader.busy = NoFrame

\* What the relay can send now.
Possible(f) ==
    /\ f.payload.kind = "confirm" => sent[f.payload.hs] >= 1
    /\ f.channel = "ciphertext" => sent[f.cipher.hs] >= 2

\* The opener of session h, at counter n.
Opens(cipher, h, n) == cipher.hs = h /\ cipher.n = n

Acceptable(cipher) ==
    /\ reader.session.state = "established"
    /\ Opens(cipher, reader.session.hs, reader.session.opened)
    /\ cipher.inner

\* A frame that starts a handshake.
Starts(f) ==
    \/ f.channel = "peer_online"
    \/ /\ reader.session.state # "handshaking"
       /\ f.channel = "handshake" \/ (f.channel = "ciphertext" /\ ~Acceptable(f.cipher))

\* Finished handshakes come first (biased).
ReadFrame ==
    /\ Free /\ done = <<>>
    /\ \E f \in Frames :
          /\ Possible(f)
          /\ Starts(f) => started < MaxHandshakes
          /\ reader' = [reader EXCEPT !.busy = f]
    /\ UNCHANGED <<task, started, done, cmds, writer, sent, status>>

\* The socket closes, fails, or has been silent for too long.
SocketEnds ==
    /\ Free
    /\ reader' = [reader EXCEPT !.ended = TRUE]
    /\ UNCHANGED <<task, started, done, cmds, writer, sent, status>>

Handled(s) == [reader EXCEPT !.session = s, !.busy = NoFrame]

\* start_handshake, with the first payload it is to be given.
Start(inbox) ==
    /\ started' = started + 1
    /\ task' = [task EXCEPT ![started + 1] = [step |-> "hello", inbox |-> inbox]]

PeerOnline ==
    /\ Live /\ reader.busy.channel = "peer_online"
    /\ Start(<<>>)
    /\ reader' = Handled(Handshaking(started + 1))
    /\ UNCHANGED <<done, cmds, writer, sent, status>>

PeerOffline ==
    /\ Live /\ reader.busy.channel = "peer_offline"
    /\ CanSend
    /\ reader' = Handled(Idle)
    /\ cmds' = Sent(Down)
    /\ status' = "waiting"
    /\ UNCHANGED <<task, started, done, writer, sent>>

GoingAway ==
    /\ Live /\ reader.busy.channel = "going_away"
    /\ reader' = [Handled(reader.session) EXCEPT !.ended = TRUE]
    /\ UNCHANGED <<task, started, done, cmds, writer, sent, status>>

\* A handshake frame starts a handshake when none is running.
HandshakeStarts ==
    /\ Live /\ reader.busy.channel = "handshake"
    /\ reader.session.state # "handshaking"
    /\ Start(<<reader.busy.payload>>)
    /\ reader' = Handled(Handshaking(started + 1))
    /\ UNCHANGED <<done, cmds, writer, sent, status>>

\* Otherwise it goes to the running one, which may have ended by now.
HandshakeForwarded ==
    /\ Live /\ reader.busy.channel = "handshake"
    /\ reader.session.state = "handshaking"
    /\ LET h == reader.session.hs IN
          \/ /\ InboxOpen(h) /\ InboxRoom(h)
             /\ task' = [task EXCEPT ![h].inbox = Append(@, reader.busy.payload)]
             /\ reader' = Handled(reader.session)
          \/ /\ ~InboxOpen(h)
             /\ reader' = Handled(Idle)
             /\ UNCHANGED task
    /\ UNCHANGED <<started, done, cmds, writer, sent, status>>

\* A sealed frame is held while a handshake runs; beyond MaxPending it is lost.
CiphertextHeld ==
    /\ Live /\ reader.busy.channel = "ciphertext"
    /\ reader.session.state = "handshaking"
    /\ LET held == reader.session.pending IN
          reader' = Handled(IF Len(held) >= MaxPending THEN reader.session
                            ELSE [reader.session EXCEPT
                                     !.pending = Append(held, reader.busy.cipher)])
    /\ UNCHANGED <<task, started, done, cmds, writer, sent, status>>

CiphertextOpened ==
    /\ Live /\ reader.busy.channel = "ciphertext"
    /\ Acceptable(reader.busy.cipher)
    /\ reader' = Handled(Established(reader.session.hs, reader.session.opened + 1))
    /\ UNCHANGED <<task, started, done, cmds, writer, sent, status>>

\* A frame that does not open or decode, or with no session: the session is
\* retired and a handshake offered, until it has happened too often.
CiphertextFails ==
    /\ Live /\ reader.busy.channel = "ciphertext"
    /\ reader.session.state # "handshaking" /\ ~Acceptable(reader.busy.cipher)
    /\ CanSend
    /\ cmds' = Sent(Down)
    /\ status' = "waiting"
    /\ IF reader.failures + 1 >= MaxFailures
       THEN /\ reader' = [Handled(reader.session) EXCEPT !.ended = TRUE,
                                                         !.failures = @ + 1]
            /\ UNCHANGED <<task, started>>
       ELSE /\ Start(<<>>)
            /\ reader' = [Handled(Handshaking(started + 1)) EXCEPT !.failures = @ + 1]
    /\ UNCHANGED <<done, writer, sent>>

\* Mutant: a held frame that does not open ends the drain.
CounterUntilStale(held, h) ==
    LET opened[i \in 0..Len(held)] ==
            IF i = 0 THEN 0
            ELSE IF opened[i - 1] = i - 1 /\ Opens(held[i], h, i - 1) THEN i
            ELSE opened[i - 1]
    IN opened

\* The opener's counter as session h drains the held frames: one that does
\* not open is dropped, and the drain goes on with the next.
Counter(held, h) ==
    LET opened[i \in 0..Len(held)] ==
            IF i = 0 THEN 0
            ELSE opened[i - 1] + IF Opens(held[i], h, opened[i - 1]) THEN 1 ELSE 0
    IN opened

\* A held frame that opens but does not decode ends the connection.
DecodesHeld(held, h) ==
    \A i \in 1..Len(held) :
        Opens(held[i], h, Counter(held, h)[i - 1]) => held[i].inner

\* A finished handshake: whichever it is, its session is installed.
TakeSession ==
    /\ Free /\ done # <<>> /\ Head(done).ok
    /\ CanSend
    /\ cmds' = Sent([kind |-> "up", hs |-> Head(done).hs])
    /\ LET h == Head(done).hs
           held == IF reader.session.state = "handshaking"
                   THEN reader.session.pending ELSE <<>>
       IN IF writer.ended \/ ~DecodesHeld(held, h)
          THEN /\ reader' = [reader EXCEPT !.ended = TRUE]
               /\ UNCHANGED status
          ELSE /\ reader' = [reader EXCEPT !.session = Established(h, Counter(held, h)[Len(held)]),
                                           !.failures = 0]
               /\ status' = "online"
    /\ done' = Tail(done)
    /\ UNCHANGED <<task, started, writer, sent>>

\* A failed one: whichever it is, the session is retired.
TakeFailure ==
    /\ Free /\ done # <<>> /\ ~Head(done).ok
    /\ CanSend
    /\ cmds' = Sent(Down)
    /\ reader' = Handled(Idle)
    /\ status' = "waiting"
    /\ done' = Tail(done)
    /\ UNCHANGED <<task, started, writer, sent>>

Handle ==
    \/ PeerOnline \/ PeerOffline \/ GoingAway
    \/ HandshakeStarts \/ HandshakeForwarded
    \/ CiphertextHeld \/ CiphertextOpened \/ CiphertextFails
    \/ TakeSession \/ TakeFailure

TaskStep(h) ==
    Live /\ (SendHello(h) \/ AwaitHello(h) \/ SendConfirm(h) \/ AwaitConfirm(h) \/ Report(h))

\* When the read loop returns the writer is aborted and the connection over.
Next ==
    \/ ReadFrame \/ SocketEnds \/ Handle
    \/ \E h \in Handshakes : TaskStep(h)
    \/ Live /\ (WriteCommand \/ DropSession \/ WriterEnds)

Spec == Init /\ [][Next]_vars

\* Tasks are scheduled by tokio; frames and failures need not come.  Room in
\* a channel goes to the senders in the order they asked for it (tokio's
\* bounded mpsc), so a task that waits for room gets it (strong fairness).
Fairness ==
    /\ WF_vars(Handle)
    /\ \A h \in Handshakes : SF_vars(TaskStep(h))
    /\ WF_vars(Live /\ WriteCommand)

FairSpec == Spec /\ Fairness

-----------------------------------------------------------------------------
(* Properties.                                                             *)

TypeOK ==
    /\ reader.session.state \in {"idle", "handshaking", "established"}
    /\ reader.session.hs \in 0..started
    /\ reader.session.hs = None <=> reader.session.state = "idle"
    /\ reader.session.pending \in Seq(Sealed) /\ Len(reader.session.pending) <= MaxPending
    /\ reader.busy \in Frames \cup {NoFrame}
    /\ reader.failures \in 0..MaxFailures /\ reader.ended \in BOOLEAN
    /\ started \in 0..MaxHandshakes
    /\ \A h \in Handshakes :
          /\ task[h].step \in Steps /\ (task[h].step = "none" <=> h > started)
          /\ task[h].inbox \in Seq(Payloads)
          /\ Len(task[h].inbox) <= HandshakeCapacity
          /\ sent[h] \in 0..2
    /\ done \in Seq(Results) /\ Len(done) <= HandshakeCapacity
    /\ cmds \in Seq(Commands) /\ Len(cmds) <= OutCapacity
    /\ writer.session \in 0..started /\ writer.ended \in BOOLEAN
    /\ status \in {"waiting", "online"}

\* The writer comes to have session s once it has taken the commands queued.
WriterWillHave(s) ==
    LET ups == {i \in DOMAIN cmds : cmds[i].kind # "handshake"}
    IN  \/ ups = {} /\ s = writer.session
        \/ \E i \in ups : cmds[i].hs = s /\ \A j \in ups : j <= i

\* The two halves of a session, the reader's opener and the writer's sealer,
\* belong together however handshakes overlap: the writer never comes to seal
\* for a session that is not the reader's, and has none when the reader is
\* idle with no result to come (SessionUp and SessionDown).
HalvesAgree ==
    Live => \A s \in Handshakes : WriterWillHave(s) =>
       /\ reader.session.state = "established" => s = reader.session.hs
       /\ reader.session.state = "idle" => done # <<>>

\* The frames of session h held when it is installed, as long as they are
\* the first ones and in order, are all opened, whatever frames of earlier
\* sessions lie between them (the comments of MAX_PENDING_CIPHERTEXT and of
\* the loop that drains `pending`).
HeldFramesOpened ==
    [][ LET h == reader'.session.hs
            held == reader.session.pending
            Of(i) == {j \in 1..i : held[j].hs = h}
        IN  /\ reader.session.state = "handshaking"
            /\ reader'.session.state = "established"
            /\ \A i \in Of(Len(held)) : held[i].n = Cardinality(Of(i)) - 1
            => reader'.session.opened = Cardinality(Of(Len(held))) ]_vars

\* While the socket takes what the writer sends, a full inbox only holds the
\* read loop up (HANDSHAKE_CHANNEL_CAPACITY: "backpressure to the read loop"),
\* it gets back to its select, where it notices a dead connection.
BackpressureEnds == []~writer.ended => []<>(reader.busy = NoFrame)

\* A handshake that was retired, because the peer left or a newer one was
\* started, does nothing to the session any more.
RetiredIsSilent ==
    [][ Live /\ ~writer.ended /\ done # <<>> /\ done' = Tail(done) /\ ~Routed(Head(done).hs)
           => reader'.session = reader.session ]_vars
=============================================================================

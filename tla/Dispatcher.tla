------------------------------ MODULE Dispatcher ------------------------------
(***************************************************************************)
(* The dispatcher of one session (relay/dispatch.rs): it turns the inner   *)
(* frames the read loop hands it into requests to the local router, each   *)
(* in a task of its own, and streams the responses back.                   *)
(*                                                                         *)
(* The read loop calls `handle` for one frame at a time and waits for it.  *)
(* The peer uses a stream id for one REQ only, ids stand for requests; the *)
(* other frames it may send for any id at any time.  What a request and a  *)
(* response say is left out: a REQ is refused or accepted, chunks are      *)
(* counted.  The router and what is behind it read the request's body, or  *)
(* let go of it, and respond as they like.                                 *)
(***************************************************************************)
EXTENDS Integers, Sequences

CONSTANTS
    Streams,        \* stream ids
    BodyCapacity,   \* the capacity of a request's body channel (16)
    OutCapacity     \* OUT_CHANNEL_CAPACITY

ASSUME CapacityAssumption ==
    BodyCapacity \in Nat \ {0} /\ OutCapacity \in Nat \ {0}

VARIABLES
    handling,   \* what `handle` is in the middle of
    entry,      \* entry[s]: the stream's entry, with its body_tx or without
    task,       \* task[s]: how far the request's task has got
    asked,      \* streams whose task's abort was asked for
    reads,      \* streams whose request body (body_rx) is still held
    chunks,     \* chunks[s]: request body chunks in the channel
    out,        \* response frames on their way to the writer
    used,       \* whether the read loop still has this dispatcher
    open,       \* whether the writer still takes its frames
    reqEnded,   \* history: streams whose REQ_END was handled
    cancelled,  \* history: streams whose CANCEL was handled
    late        \* history: streams entered after their task had ended

vars == <<handling, entry, task, asked, reads, chunks, out, used, open,
          reqEnded, cancelled, late>>
history == <<reqEnded, cancelled, late>>
session == <<used, open>>

Free == [doing |-> "nothing", stream |-> 0]
Doing == [doing: {"refuse", "insert", "body"}, stream: Streams] \cup {Free}
Running == {"routing", "head", "body", "end", "error", "remove"}
Steps == Running \cup {"none", "refused", "ended", "aborted"}
OutFrames == [typ: {"resp", "body", "end", "error"}, stream: Streams]

Init ==
    /\ handling = Free
    /\ entry = [s \in Streams |-> "none"]
    /\ task = [s \in Streams |-> "none"]
    /\ asked = {} /\ reads = {}
    /\ chunks = [s \in Streams |-> 0]
    /\ out = <<>>
    /\ used = TRUE /\ open = TRUE
    /\ reqEnded = {} /\ cancelled = {} /\ late = {}

InProgress(s) == task[s] \in Running

\* Somebody holds a sender of the request's body: the stream's entry, or
\* `handle` before it has put it in or while it sends a chunk.
BodyOpen(s) ==
    \/ entry[s] = "open"
    \/ handling.stream = s /\ handling.doing \in {"insert", "body"}

\* All of the request's body there will be has been read.
BodyRead(s) == s \notin reads \/ (chunks[s] = 0 /\ ~BodyOpen(s))

\* A send waits for room; once the writer is gone it fails at once.
CanAlwaysSend == TRUE   \* mutant: the channel to the writer is unbounded
CanSend == ~open \/ Len(out) < OutCapacity
Sent(typ, s) == IF open THEN Append(out, [typ |-> typ, stream |-> s]) ELSE out

-----------------------------------------------------------------------------
(* handle                                                                  *)

Called == used /\ handling = Free

\* A REQ that is malformed, not on the allowlist or has bad headers.
HandleBadReq(s) ==
    /\ Called /\ task[s] = "none"
    /\ task' = [task EXCEPT ![s] = "refused"]
    /\ handling' = [doing |-> "refuse", stream |-> s]
    /\ UNCHANGED <<entry, asked, reads, chunks, out, session, history>>

Refuse(s) ==
    /\ handling = [doing |-> "refuse", stream |-> s]
    /\ CanSend
    /\ out' = Sent("error", s)
    /\ handling' = Free
    /\ UNCHANGED <<entry, task, asked, reads, chunks, session, history>>

\* The task is spawned first and may run before its entry is there.
HandleReq(s) ==
    /\ Called /\ task[s] = "none"
    /\ task' = [task EXCEPT ![s] = "routing"]
    /\ reads' = reads \cup {s}
    /\ handling' = [doing |-> "insert", stream |-> s]
    /\ UNCHANGED <<entry, asked, chunks, out, session, history>>

Insert(s) ==
    /\ handling = [doing |-> "insert", stream |-> s]
    /\ entry' = [entry EXCEPT ![s] = "open"]
    /\ late' = IF InProgress(s) THEN late ELSE late \cup {s}
    /\ handling' = Free
    /\ UNCHANGED <<task, asked, reads, chunks, out, session, reqEnded, cancelled>>

\* Mutant: the sender is taken out of the entry, not cloned.
HandleReqBodyTakes(s) ==
    /\ Called /\ entry[s] = "open"
    /\ handling' = [doing |-> "body", stream |-> s]
    /\ entry' = [entry EXCEPT ![s] = "closed"]
    /\ UNCHANGED <<task, asked, reads, chunks, out, session, history>>

\* REQ_BODY: without a sender in its entry it is ignored.
HandleReqBody(s) ==
    /\ Called /\ entry[s] = "open"
    /\ handling' = [doing |-> "body", stream |-> s]
    /\ UNCHANGED <<entry, task, asked, reads, chunks, out, session, history>>

\* Mutant: a chunk that nobody will read is waited with.
SendChunkStubborn(s) ==
    /\ handling = [doing |-> "body", stream |-> s]
    /\ s \in reads /\ chunks[s] < BodyCapacity
    /\ chunks' = [chunks EXCEPT ![s] = @ + 1]
    /\ handling' = Free
    /\ UNCHANGED <<entry, task, asked, reads, out, session, history>>

\* The chunk waits for room in the body channel, and handle with it.
SendChunk(s) ==
    /\ handling = [doing |-> "body", stream |-> s]
    /\ \/ /\ s \in reads /\ chunks[s] < BodyCapacity
          /\ chunks' = [chunks EXCEPT ![s] = @ + 1]
       \/ s \notin reads /\ UNCHANGED chunks
    /\ handling' = Free
    /\ UNCHANGED <<entry, task, asked, reads, out, session, history>>

\* Mutant: the sender stays in the entry.
HandleReqEndIgnored(s) ==
    /\ Called /\ task[s] # "none"
    /\ reqEnded' = reqEnded \cup {s}
    /\ UNCHANGED <<handling, entry, task, asked, reads, chunks, out, session,
                   cancelled, late>>

\* Mutant: the entry goes with its sender.
HandleReqEndRemoves(s) ==
    /\ Called /\ task[s] # "none"
    /\ entry' = [entry EXCEPT ![s] = "none"]
    /\ reqEnded' = reqEnded \cup {s}
    /\ UNCHANGED <<handling, task, asked, reads, chunks, out, session,
                   cancelled, late>>

\* REQ_END: the sender is dropped, the entry stays.  One for a stream not
\* begun is ignored, as is every frame of no entry.
HandleReqEnd(s) ==
    /\ Called /\ task[s] # "none"
    /\ entry' = [entry EXCEPT ![s] = IF @ = "open" THEN "closed" ELSE @]
    /\ reqEnded' = reqEnded \cup {s}
    /\ UNCHANGED <<handling, task, asked, reads, chunks, out, session,
                   cancelled, late>>

\* CANCEL: the entry goes, and the task's abort is asked for.  One for a
\* stream not begun is ignored.
HandleCancel(s) ==
    /\ Called /\ task[s] # "none"
    /\ entry' = [entry EXCEPT ![s] = "none"]
    /\ asked' = IF entry[s] = "none" THEN asked ELSE asked \cup {s}
    /\ cancelled' = cancelled \cup {s}
    /\ UNCHANGED <<handling, task, reads, chunks, out, session, reqEnded, late>>

-----------------------------------------------------------------------------
(* The request's task.                                                     *)

Becomes(s, step) == task' = [task EXCEPT ![s] = step]
Unhandled == <<handling, asked, session, history>>

\* External: the router takes a chunk of the body.
ReadChunk(s) ==
    /\ InProgress(s) /\ s \in reads /\ chunks[s] > 0
    /\ chunks' = [chunks EXCEPT ![s] = @ - 1]
    /\ UNCHANGED <<entry, task, reads, out, Unhandled>>

\* External: the router lets go of the body.
DropBody(s) ==
    /\ InProgress(s) /\ s \in reads
    /\ reads' = reads \ {s} /\ chunks' = [chunks EXCEPT ![s] = 0]
    /\ UNCHANGED <<entry, task, out, Unhandled>>

\* External: it responds, be the body read or not.
Respond(s) ==
    /\ task[s] = "routing" /\ Becomes(s, "head")
    /\ UNCHANGED <<entry, reads, chunks, out, Unhandled>>

\* Mutant: the entry is forgotten when the head cannot be sent.
SendHeadForgets(s) ==
    /\ task[s] = "head" /\ CanSend
    /\ out' = Sent("resp", s)
    /\ IF open THEN Becomes(s, "body") /\ UNCHANGED <<reads, chunks>>
               ELSE /\ Becomes(s, "ended") /\ reads' = reads \ {s}
                    /\ chunks' = [chunks EXCEPT ![s] = 0]
    /\ UNCHANGED <<entry, Unhandled>>

SendHead(s) ==
    /\ task[s] = "head" /\ CanSend
    /\ out' = Sent("resp", s)
    /\ Becomes(s, IF open THEN "body" ELSE "remove")
    /\ UNCHANGED <<entry, reads, chunks, Unhandled>>

SendRespBody(s) ==
    /\ task[s] = "body" /\ CanSend
    /\ out' = Sent("body", s)
    /\ Becomes(s, IF open THEN "body" ELSE "remove")
    /\ UNCHANGED <<entry, reads, chunks, Unhandled>>

\* External: the response's body is at its end, or fails.
RespBodyEnds(s) ==
    /\ task[s] = "body" /\ Becomes(s, "end")
    /\ UNCHANGED <<entry, reads, chunks, out, Unhandled>>

RespBodyFails(s) ==
    /\ task[s] = "body" /\ Becomes(s, "error")
    /\ UNCHANGED <<entry, reads, chunks, out, Unhandled>>

SendEnd(s) ==
    /\ task[s] \in {"end", "error"} /\ CanSend
    /\ out' = Sent(task[s], s)
    /\ Becomes(s, "remove")
    /\ UNCHANGED <<entry, reads, chunks, Unhandled>>

\* With the task goes what it holds of the request.
LetGo(s, step) ==
    /\ Becomes(s, step)
    /\ reads' = reads \ {s} /\ chunks' = [chunks EXCEPT ![s] = 0]

RemoveStream(s) ==
    /\ task[s] = "remove"
    /\ entry' = [entry EXCEPT ![s] = "none"]
    /\ LetGo(s, "ended")
    /\ UNCHANGED <<out, Unhandled>>

\* An abort takes effect at one of the task's awaits; until then it goes on.
Abort(s) ==
    /\ s \in asked /\ InProgress(s)
    /\ LetGo(s, "aborted")
    /\ UNCHANGED <<entry, out, Unhandled>>

-----------------------------------------------------------------------------
(* The session around the dispatcher.                                      *)

\* The read loop retires the session, or its connection ends.
Retire ==
    /\ Called
    /\ used' = FALSE
    /\ UNCHANGED <<handling, entry, task, asked, reads, chunks, out, open, history>>

\* The writer drops its end of the session.
CloseFrames ==
    /\ open
    /\ open' = FALSE /\ out' = <<>>
    /\ UNCHANGED <<handling, entry, task, asked, reads, chunks, used, history>>

WriteFrame ==
    /\ out # <<>>
    /\ out' = Tail(out)
    /\ UNCHANGED <<handling, entry, task, asked, reads, chunks, session, history>>

-----------------------------------------------------------------------------

HandleFrame(s) ==
    \/ HandleBadReq(s) \/ HandleReq(s) \/ HandleReqBody(s)
    \/ HandleReqEnd(s) \/ HandleCancel(s)

HandleGoesOn(s) == Refuse(s) \/ Insert(s) \/ SendChunk(s)

TaskStep(s) ==
    SendHead(s) \/ SendRespBody(s) \/ SendEnd(s) \/ RemoveStream(s) \/ Abort(s)

Router(s) ==
    ReadChunk(s) \/ DropBody(s) \/ Respond(s) \/ RespBodyEnds(s) \/ RespBodyFails(s)

Next ==
    \/ \E s \in Streams :
          HandleFrame(s) \/ HandleGoesOn(s) \/ TaskStep(s) \/ Router(s)
    \/ Retire \/ CloseFrames \/ WriteFrame

Spec == Init /\ [][Next]_vars

\* Ready tasks run, the writer writes, and it learns that a session was
\* retired.  Room in `out` goes to the senders in the order they asked for it
\* (tokio's bounded mpsc), so one that waits for room gets it.  A task sends
\* one head and one end, and ends once: one condition is enough for both.
Fairness ==
    /\ SF_vars(\E s \in Streams : HandleGoesOn(s))
    /\ \A s \in Streams :
          /\ SF_vars(SendHead(s) \/ SendEnd(s))
          /\ WF_vars(RemoveStream(s) \/ Abort(s))
    /\ WF_vars(WriteFrame)
    /\ WF_vars(~used /\ CloseFrames)

FairSpec == Spec /\ Fairness

\* And the router reads or lets go of a body, responds to a request it has
\* read, and ends its responses.
RouterFairness ==
    \A s \in Streams :
        /\ WF_vars(ReadChunk(s))
        /\ WF_vars((BodyRead(s) /\ Respond(s)) \/ RespBodyEnds(s) \/ RespBodyFails(s))

RouterFairSpec == FairSpec /\ RouterFairness

-----------------------------------------------------------------------------
(* Properties.                                                             *)

TypeOK ==
    /\ handling \in Doing
    /\ entry \in [Streams -> {"none", "open", "closed"}]
    /\ task \in [Streams -> Steps]
    /\ asked \subseteq Streams /\ reads \subseteq Streams
    /\ chunks \in [Streams -> 0..BodyCapacity]
    /\ out \in Seq(OutFrames) /\ Len(out) <= OutCapacity
    /\ used \in BOOLEAN /\ open \in BOOLEAN
    /\ reqEnded \subseteq Streams /\ cancelled \subseteq Streams
    /\ late \subseteq Streams

\* What the router takes for the whole of a request's body is the whole: the
\* body of a request only looks complete once REQ_END was handled, or the
\* stream was cancelled (handle_req_body's clone, handle_req_end, the entry
\* that is put in after the task was spawned).
BodyWhole ==
    \A s \in Streams :
        InProgress(s) /\ ~BodyOpen(s) => s \in reqEnded \cup cancelled

\* A CANCEL that was handled has reached the request, at whatever point of
\* the exchange it came: the task has ended or its abort was asked for (the
\* comment of StreamEntry).
CancelReaches ==
    \A s \in cancelled : InProgress(s) => s \in asked

\* An entry does not outlive its request, except that of a request which
\* ended before handle_req had put it in (the comment of StreamEntry, the
\* remove_stream on every way out of run_request).
EntriesEnd ==
    \A s \in Streams :
        entry[s] # "none" => InProgress(s) \/ s \in late

\* As long as the router goes on, `handle` returns, whatever the peer sends
\* and whether the session is retired meanwhile.
HandleReturns == []<>(handling = Free)

\* A request whose body is complete ends, also when its session was retired
\* or its writer is gone.
RequestsEnd ==
    \A s \in Streams : (s \in reqEnded /\ InProgress(s)) ~> ~InProgress(s)
=============================================================================

--------------------------- MODULE DispatcherProofs ---------------------------
(***************************************************************************)
(* Theorems about Dispatcher, for any stream ids and channel capacities.   *)
(***************************************************************************)
EXTENDS Dispatcher, TLAPS

\* `handle` only has a chunk in hand for a stream whose entry is open, unless
\* the request has ended meanwhile.
ChunkForEntry ==
    handling.doing = "body" /\ InProgress(handling.stream) =>
        entry[handling.stream] = "open"

\* Nothing is known of a stream whose REQ has not been handled.
Unknown(s) ==
    /\ entry[s] = "none" /\ s \notin asked /\ s \notin cancelled
    /\ handling.stream = s => handling.doing = "nothing"

NotBegun == \A s \in Streams : task[s] = "none" => Unknown(s)

\* A request in progress can be found by a CANCEL, or will be by the next one,
\* or was found by one.
Inserting(s) == handling = [doing |-> "insert", stream |-> s]

Findable ==
    \A s \in Streams :
        /\ InProgress(s) => entry[s] # "none" \/ Inserting(s) \/ s \in asked
        /\ s \in asked => entry[s] = "none" /\ ~Inserting(s)

IInv ==
    /\ TypeOK
    /\ ChunkForEntry /\ BodyWhole
    /\ NotBegun /\ Findable /\ CancelReaches /\ EntriesEnd

LEMMA InvInit == Init => IInv
  BY CapacityAssumption
  DEF Init, IInv, TypeOK, ChunkForEntry, BodyWhole, NotBegun, Unknown, Findable,
      Inserting, CancelReaches, EntriesEnd, InProgress, Running, Doing, Free,
      Steps, OutFrames

\* Sending keeps within the capacity of the channel to the writer.
LEMMA SentFits ==
  ASSUME TypeOK, CanSend,
         NEW typ \in {"resp", "body", "end", "error"}, NEW s \in Streams
  PROVE  Sent(typ, s) \in Seq(OutFrames) /\ Len(Sent(typ, s)) <= OutCapacity
  <1>1. [typ |-> typ, stream |-> s] \in OutFrames
    BY DEF OutFrames
  <1>2. out \in Seq(OutFrames) /\ Len(out) \in Nat /\ Len(out) <= OutCapacity
    BY DEF TypeOK
  <1>3. CASE open
    <2>1. Len(out) < OutCapacity
      BY <1>3 DEF CanSend
    <2>2. Sent(typ, s) = Append(out, [typ |-> typ, stream |-> s])
      BY <1>3 DEF Sent
    <2> QED
      BY <1>1, <1>2, <2>1, <2>2, CapacityAssumption
  <1>4. CASE ~open
    BY <1>2, <1>4 DEF Sent
  <1> QED
    BY <1>3, <1>4

LEMMA TypeStep ==
  ASSUME TypeOK, [Next]_vars
  PROVE  TypeOK'
  <1> USE CapacityAssumption DEF TypeOK, history, session
  <1>1. ASSUME NEW s \in Streams, HandleFrame(s)
        PROVE  TypeOK'
    BY <1>1 DEF HandleFrame, HandleBadReq, HandleReq, HandleReqBody,
                HandleReqEnd, HandleCancel, Called, Doing, Steps, Running
  <1>2. ASSUME NEW s \in Streams, Refuse(s)
        PROVE  TypeOK'
    BY <1>2, SentFits DEF Refuse, Doing
  <1>3. ASSUME NEW s \in Streams, Insert(s)
        PROVE  TypeOK'
    BY <1>3 DEF Insert, Doing
  <1>4. ASSUME NEW s \in Streams, SendChunk(s)
        PROVE  TypeOK'
    BY <1>4 DEF SendChunk, Doing
  <1>5. ASSUME NEW s \in Streams, SendHead(s)
        PROVE  TypeOK'
    BY <1>5, SentFits DEF SendHead, Becomes, Unhandled, Steps, Running
  <1>6. ASSUME NEW s \in Streams, SendRespBody(s)
        PROVE  TypeOK'
    BY <1>6, SentFits DEF SendRespBody, Becomes, Unhandled, Steps, Running
  <1>7. ASSUME NEW s \in Streams, SendEnd(s)
        PROVE  TypeOK'
    <2>1. Sent(task[s], s) \in Seq(OutFrames) /\ Len(Sent(task[s], s)) <= OutCapacity
      BY <1>7, SentFits DEF SendEnd
    <2> QED
      BY <1>7, <2>1 DEF SendEnd, Becomes, Unhandled, Steps, Running
  <1>8. ASSUME NEW s \in Streams, RemoveStream(s) \/ Abort(s)
        PROVE  TypeOK'
    <2>1. LetGo(s, "ended") \/ LetGo(s, "aborted")
      BY <1>8 DEF RemoveStream, Abort
    <2>2. /\ task' \in [Streams -> Steps] /\ reads' \subseteq Streams
          /\ chunks' \in [Streams -> 0..BodyCapacity]
      BY <2>1 DEF LetGo, Becomes, Steps
    <2>3. entry' \in [Streams -> {"none", "open", "closed"}]
      BY <1>8 DEF RemoveStream, Abort
    <2> QED
      BY <1>8, <2>2, <2>3 DEF RemoveStream, Abort, Unhandled
  <1>9. ASSUME NEW s \in Streams, Router(s)
        PROVE  TypeOK'
    <2>1. task' \in [Streams -> Steps] /\ reads' \subseteq Streams
      BY <1>9 DEF Router, ReadChunk, DropBody, Respond, RespBodyEnds,
                  RespBodyFails, Becomes, Steps, Running
    <2>2. chunks' \in [Streams -> 0..BodyCapacity]
      BY <1>9 DEF Router, ReadChunk, DropBody, Respond, RespBodyEnds, RespBodyFails
    <2>3. UNCHANGED <<handling, entry, asked, out, used, open, reqEnded, cancelled, late>>
      BY <1>9 DEF Router, ReadChunk, DropBody, Respond, RespBodyEnds,
                  RespBodyFails, Unhandled
    <2> QED
      BY <2>1, <2>2, <2>3
  <1>10. CASE Retire
    BY <1>10 DEF Retire
  <1>11. CASE CloseFrames
    <2>1. open' \in BOOLEAN /\ out' = <<>>
      BY <1>11 DEF CloseFrames
    <2>2. UNCHANGED <<handling, entry, task, asked, reads, chunks, used,
                      reqEnded, cancelled, late>>
      BY <1>11 DEF CloseFrames
    <2> QED
      BY <2>1, <2>2
  <1>12. CASE WriteFrame
    BY <1>12 DEF WriteFrame
  <1>13. CASE UNCHANGED vars
    BY <1>13 DEF vars
  <1> QED
    BY <1>1, <1>2, <1>3, <1>4, <1>5, <1>6, <1>7, <1>8, <1>9, <1>10, <1>11,
       <1>12, <1>13
    DEF Next, HandleGoesOn, TaskStep

\* What each part of the invariant needs to know of a step: which streams'
\* entries, tasks and histories it touches.
LEMMA StateStep ==
  ASSUME IInv, [Next]_vars
  PROVE  (ChunkForEntry /\ BodyWhole /\ NotBegun /\ Findable /\ CancelReaches
            /\ EntriesEnd)'
  <1> DEFINE Goal == ChunkForEntry /\ BodyWhole /\ NotBegun /\ Findable
                       /\ CancelReaches /\ EntriesEnd
  <1> USE DEF IInv, TypeOK, ChunkForEntry, BodyWhole, NotBegun, Unknown,
              Findable, Inserting, CancelReaches, EntriesEnd, InProgress,
              BodyOpen, Running, Free, history, session
  <1>1. ASSUME NEW s \in Streams, HandleBadReq(s)
        PROVE  Goal'
    BY <1>1 DEF HandleBadReq, Called
  <1>2. ASSUME NEW s \in Streams, HandleReq(s)
        PROVE  Goal'
    BY <1>2 DEF HandleReq, Called
  <1>3. ASSUME NEW s \in Streams, HandleReqBody(s)
        PROVE  Goal'
    BY <1>3 DEF HandleReqBody, Called
  <1>4. ASSUME NEW s \in Streams, HandleReqEnd(s)
        PROVE  Goal'
    BY <1>4 DEF HandleReqEnd, Called
  <1>5. ASSUME NEW s \in Streams, HandleCancel(s)
        PROVE  Goal'
    BY <1>5 DEF HandleCancel, Called
  <1>6. ASSUME NEW s \in Streams, Refuse(s)
        PROVE  Goal'
    BY <1>6 DEF Refuse
  <1>7. ASSUME NEW s \in Streams, Insert(s)
        PROVE  Goal'
    BY <1>7 DEF Insert
  <1>8. ASSUME NEW s \in Streams, SendChunk(s)
        PROVE  Goal'
    BY <1>8 DEF SendChunk
  <1>9. ASSUME NEW s \in Streams,
               SendHead(s) \/ SendRespBody(s) \/ SendEnd(s) \/ Router(s)
        PROVE  Goal'
    <2>1. UNCHANGED <<handling, entry, asked, reqEnded, cancelled, late>>
      BY <1>9 DEF SendHead, SendRespBody, SendEnd, Router, ReadChunk, DropBody,
                  Respond, RespBodyEnds, RespBodyFails, Unhandled
    <2>2. \A r \in Streams :
             /\ task'[r] \in Running <=> task[r] \in Running
             /\ task'[r] = "none" <=> task[r] = "none"
      <3>1. CASE SendHead(s)
        BY <3>1 DEF SendHead, Becomes
      <3>2. CASE SendRespBody(s)
        BY <3>2 DEF SendRespBody, Becomes
      <3>3. CASE SendEnd(s)
        BY <3>3 DEF SendEnd, Becomes
      <3>4. CASE Router(s)
        BY <3>4 DEF Router, ReadChunk, DropBody, Respond, RespBodyEnds,
                    RespBodyFails, Becomes
      <3> QED
        BY <1>9, <3>1, <3>2, <3>3, <3>4
    <2>3. handling.doing = "body" => handling.stream \in Streams
      BY DEF Doing
    <2> QED
      BY <2>1, <2>2, <2>3
  <1>10. ASSUME NEW s \in Streams, RemoveStream(s)
         PROVE  Goal'
    BY <1>10 DEF RemoveStream, LetGo, Becomes, Unhandled
  <1>11. ASSUME NEW s \in Streams, Abort(s)
         PROVE  Goal'
    BY <1>11 DEF Abort, LetGo, Becomes, Unhandled
  <1>12. CASE UNCHANGED <<handling, entry, task, asked, history>>
    BY <1>12
  <1> QED
    BY <1>1, <1>2, <1>3, <1>4, <1>5, <1>6, <1>7, <1>8, <1>9, <1>10, <1>11, <1>12
    DEF Next, HandleFrame, HandleGoesOn, TaskStep, Retire, CloseFrames, WriteFrame, vars

\* The invariant is inductive.
THEOREM Invariant == Spec => []IInv
  <1>1. IInv /\ [Next]_vars => IInv'
    BY TypeStep, StateStep DEF IInv
  <1> QED
    BY InvInit, <1>1, PTL DEF Spec

\* The types of the dispatcher's state; the channels keep within their
\* capacities.
THEOREM TypeCorrect == Spec => []TypeOK
  BY Invariant, PTL DEF IInv

\* The router never takes a cut body for a whole one, in whatever order the
\* frames of the streams, the tasks and the end of the session come.
THEOREM BodiesAreWhole == Spec => []BodyWhole
  BY Invariant, PTL DEF IInv

\* A CANCEL that was handled reaches its request at every point of it, the
\* one between the task's spawn and its entry's insertion included.
THEOREM CancelAlwaysReaches == Spec => []CancelReaches
  BY Invariant, PTL DEF IInv

\* No entry outlives its request, but for those of requests that ended before
\* they were entered.
THEOREM NoEntryLeaks == Spec => []EntriesEnd
  BY Invariant, PTL DEF IInv
===============================================================================

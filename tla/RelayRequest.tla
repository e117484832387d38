------------------------------ MODULE RelayRequest ------------------------------
(***************************************************************************)
(* The way of a request from a message of the relay's socket to a handler: *)
(* the lanes of relay/conn.rs, the decoder of relay/wire.rs, the two       *)
(* allowlists of relay/policy.rs, the token that relay/dispatch.rs stamps  *)
(* and the router of proxy.rs, which requests from the LAN enter directly. *)
(*                                                                         *)
(* A path is its segments, how sanitize_path finds it (form) and its query *)
(* string; the name of a header is in lower case; a bearer token is a      *)
(* number.  Bodies and answers are Dispatcher's, ciphers PairedSession's.  *)
(***************************************************************************)
EXTENDS InnerFrames, SequencesExt

CONSTANTS
    Batches,      \* what a peer writes as one payload: sequences of frames
    Heads,        \* the heads of the REQs peers send
    Spells(_, _), \* whether the bytes of a payload are the JSON of a head
    LanHeads,     \* requests from the LAN
    HexNames,     \* the path segments of 64 lower-case hex digits
    MaxToken, MaxRequests   \* bounds of the model

Header == [name: STRING, value: Nat]
RequestHead ==
    [m: STRING, p: [segs: Seq(STRING), form: STRING, query: STRING],
     headers: Seq(Header), over: BOOLEAN]

ASSUME BatchesAssumption == Batches \subseteq Seq(Frame)
ASSUME HeadsAssumption == Heads \cup LanHeads \subseteq RequestHead
ASSUME HexNamesAssumption == "" \notin HexNames

InnerReq == 1
None == "none"

VARIABLES
    token,      \* AppState.bearer_token
    stamp,      \* the token the connection's dispatchers were given
    apiKey,     \* whether the connection serves the plain lane
    paired,     \* Session::Established
    lane,       \* "e2e" or "http" while the read loop is busy with a payload
    decoding,   \* inside decode_inner_all
    buf,        \* what is not decoded yet
    frames,     \* decoded, for the dispatcher
    wrote,      \* history: the payload and the batch it was written from
    requests    \* requests with the router

vars == <<token, stamp, apiKey, paired, lane, decoding, buf, frames, wrote, requests>>
reader == <<lane, decoding, buf, frames, wrote>>
connection == <<stamp, apiKey, paired>>

\* The elements of s at the places chosen, in their order.
Selected(s, chosen) ==
    LET kept[n \in 0..Len(s)] ==
            IF n = 0 THEN << >>
            ELSE IF n \in chosen THEN Append(kept[n - 1], s[n]) ELSE kept[n - 1]
    IN  kept[Len(s)]

(***************************************************************************)
(* The outgoing side of the codec.  run_writer_dual drops a frame that     *)
(* cannot be encoded; a peer of a later protocol may write reserved types. *)
(***************************************************************************)
Encodables(batch) == Selected(batch, {i \in DOMAIN batch : Encodable(batch[i])})
Payload(batch) ==
    LET bytes[n \in 0..Len(batch)] ==
            IF n = 0 THEN << >> ELSE bytes[n - 1] \o EncodeInner(batch[n])
    IN  bytes[Len(batch)]

(***************************************************************************)
(* The allowlists.                                                         *)
(***************************************************************************)
Upper(m) == IF m = "get" THEN "GET" ELSE m

AllowedExact ==
    {<<"GET", <<"api", "tags">> >>, <<"GET", <<"api", "ps">> >>,
     <<"POST", <<"api", "show">> >>, <<"POST", <<"api", "chat">> >>,
     <<"POST", <<"api", "generate">> >>, <<"POST", <<"api", "embed">> >>,
     <<"POST", <<"api", "pull">> >>, <<"DELETE", <<"api", "delete">> >>}
AllowedHttpExact ==
    {<<"POST", <<"v1", "chat", "completions">> >>, <<"POST", <<"v1", "completions">> >>,
     <<"POST", <<"v1", "embeddings">> >>, <<"GET", <<"v1", "models">> >>}
AllowedExactV1 ==
    {<<"GET", <<"extended", "v1", "info">> >>, <<"POST", <<"extended", "v1", "pull">> >>,
     <<"POST", <<"extended", "v1", "push">> >>,
     <<"POST", <<"extended", "v1", "blobs", "check">> >>}
SyncCollections == {"characters", "personas", "chats"}
ValidHash(name) == name \in HexNames

Under(prefix, segs) ==
    Len(segs) = Len(prefix) + 1 /\ \A i \in DOMAIN prefix : segs[i] = prefix[i]

SanitizePath(p) == p.form \notin {"long", "relative", "traversal"}
CheckHttpMethodPath(m, p) ==
    /\ SanitizePath(p)
    /\ \/ <<Upper(m), p.segs>> \in AllowedHttpExact
       \/ Upper(m) = "GET" /\ Under(<<"v1", "models">>, p.segs) /\ Last(p.segs) # ""

\* Mutant: the collection is left to the handler to check.
AllowedAnySync(m, p) == Upper(m) \in {"GET", "POST"} /\ Under(<<"amallo", "sync">>, p.segs)

AllowedSync(m, p) ==
    /\ Upper(m) \in {"GET", "POST"}
    /\ Under(<<"amallo", "sync">>, p.segs) /\ Last(p.segs) \in SyncCollections
CheckMethodPath(m, p) ==
    /\ SanitizePath(p)
    /\ \/ <<Upper(m), p.segs>> \in AllowedExact \cup AllowedExactV1
       \/ AllowedSync(m, p)
       \/ /\ Upper(m) \in {"GET", "PUT"}
          /\ Under(<<"extended", "v1", "blob">>, p.segs) /\ ValidHash(Last(p.segs))

\* Mutant: both lanes are checked against both lists.
AllowedByEither(l, m, p) == CheckMethodPath(m, p) \/ CheckHttpMethodPath(m, p)

Allowed(l, m, p) ==
    CASE l = "e2e" -> CheckMethodPath(m, p) [] l = "http" -> CheckHttpMethodPath(m, p)

AllowedRequestHeaders == {"content-type", "accept"}

\* Mutant: every header is let through.
KeepRequestHeaders(headers) == headers

FilterRequestHeaders(headers) ==
    Selected(headers, {i \in DOMAIN headers : headers[i].name \in AllowedRequestHeaders})

\* Request::builder takes what the allowlist let through, but for a query
\* that is not a URI's.
Constructed(p) == p.query # "malformed"

(***************************************************************************)
(* The router.                                                             *)
(***************************************************************************)
Collections == {"characters", "personas", "chats"}
SkipRequestHeaders == {"host", "origin", "authorization", "connection"}

DocRoutes ==
    {[path |-> <<"extended", "v1", "info">>, methods |-> {"GET", "HEAD"}, to |-> "info"],
     [path |-> <<"extended", "v1", "pull">>, methods |-> {"POST"}, to |-> "pull"],
     [path |-> <<"extended", "v1", "push">>, methods |-> {"POST"}, to |-> "push"],
     [path |-> <<"extended", "v1", "blobs", "check">>, methods |-> {"POST"}, to |-> "check"]}
BlobRoutes ==
    {[path |-> <<"extended", "v1", "blob", "*">>, methods |-> {"GET", "HEAD", "PUT"},
      to |-> "blob"]}
SyncRoutes ==
    {[path |-> <<"amallo", "sync", "*">>, methods |-> {"GET", "HEAD", "POST"}, to |-> "sync"]}

Matches(path, segs) ==
    /\ Len(path) = Len(segs)
    /\ \A i \in DOMAIN path : path[i] = segs[i] \/ (path[i] = "*" /\ segs[i] # "")

\* The handler that takes the request; what no route matches is forwarded.
Routed(m, p) ==
    LET matching == {r \in DocRoutes \cup BlobRoutes \cup SyncRoutes : Matches(r.path, p.segs)}
    IN  IF matching = {} THEN "forward"
        ELSE LET r == CHOOSE r \in matching : TRUE
             IN  IF m \in r.methods THEN r.to ELSE "method_not_allowed"

\* What the handler makes of the last segment.
Handled(to, p) ==
    IF \/ to = "sync" /\ Last(p.segs) \notin Collections
       \/ to = "blob" /\ ~ValidHash(Last(p.segs))
    THEN "refused" ELSE to

\* The credential that decides, that of the first Authorization header; 0 is
\* none, and what is no bearer's.
Credential(headers) ==
    LET auth == {i \in DOMAIN headers : headers[i].name = "authorization"}
    IN  IF auth = {} THEN 0 ELSE headers[CHOOSE i \in auth : \A j \in auth : i <= j].value

Forwarded(headers) ==
    Selected(headers, {i \in DOMAIN headers : headers[i].name \notin SkipRequestHeaders})

\* Whose answer a request gets: that of the CORS layer, which is outermost,
\* of require_bearer or of a handler.
ServedBy(r) ==
    CASE r.m = "OPTIONS" -> "cors"
      [] r.m # "OPTIONS" /\ Credential(r.headers) # token -> "unauthorized"
      [] OTHER -> Handled(Routed(r.m, r.p), r.p)

(***************************************************************************)
(* Actions.                                                                *)
(***************************************************************************)
Nothing == [bytes |-> << >>, batch |-> << >>, whole |-> TRUE]

Init ==
    /\ token = 1 /\ stamp = 1
    /\ apiKey \in BOOLEAN /\ paired = FALSE
    /\ lane = None /\ decoding = FALSE /\ buf = << >> /\ frames = << >>
    /\ wrote = Nothing
    /\ requests = {}

Room == Cardinality(requests) < MaxRequests

\* A message on a lane that is served; any other is ignored, or on 0x01
\* answered with a handshake.  The payload may be cut short, or be of a peer
\* that writes what this one would not.
ReadFrame(l, batch, whole, cut) ==
    /\ lane = None /\ Room
    /\ CASE l = "e2e" -> paired [] l = "http" -> apiKey
    /\ lane' = l /\ decoding' = TRUE /\ frames' = << >>
    /\ LET bytes == IF whole THEN Payload(Encodables(batch))
                    ELSE SubSeq(Payload(batch), 1, cut)
       IN  buf' = bytes /\ wrote' = [bytes |-> bytes, batch |-> batch, whole |-> whole]
    /\ UNCHANGED <<token, requests>> /\ UNCHANGED connection

DecodeInnerOne ==
    /\ decoding /\ buf # << >>
    /\ Whole(buf) /\ buf[1] \notin ReservedTypes
    /\ frames' = Append(frames, First(buf)) /\ buf' = Rest(buf)
    /\ UNCHANGED <<token, lane, decoding, wrote, requests>> /\ UNCHANGED connection

DecodeInnerAll ==
    /\ decoding /\ buf = << >>
    /\ decoding' = FALSE /\ wrote' = Nothing
    /\ UNCHANGED <<token, lane, buf, frames, requests>> /\ UNCHANGED connection

\* One bad frame drops the payload, and with it a session, never the socket.
DecodeFails ==
    /\ decoding /\ buf # << >>
    /\ ~Whole(buf) \/ buf[1] \in ReservedTypes
    /\ decoding' = FALSE /\ lane' = None /\ buf' = << >> /\ frames' = << >>
    /\ wrote' = Nothing
    /\ paired' = IF lane = "e2e" THEN FALSE ELSE paired
    /\ UNCHANGED <<token, stamp, apiKey, requests>>

\* What becomes of a REQ's head: a request with amallo's own token, or an ERROR.
Requested(head) ==
    IF /\ Allowed(lane, head.m, head.p) /\ ~head.over /\ Constructed(head.p)
    THEN {[lane |-> lane, m |-> head.m, p |-> head.p,
           headers |-> Append(FilterRequestHeaders(head.headers),
                              [name |-> "authorization", value |-> stamp]),
           stamp |-> stamp, by |-> "waiting", expected |-> 0, upstream |-> << >>]}
    ELSE {}

\* Frames of other types are Dispatcher's; a head that is no JSON is refused.
Handle ==
    /\ lane # None /\ ~decoding /\ frames # << >> /\ Room
    /\ frames' = Tail(frames)
    /\ LET spelt == {head \in Heads : Spells(Head(frames).payload, head)}
       IN  \/ /\ Head(frames).typ = InnerReq
              /\ \E head \in spelt : requests' = requests \cup Requested(head)
           \/ /\ Head(frames).typ # InnerReq \/ spelt = {}
              /\ UNCHANGED requests
    /\ UNCHANGED <<token, lane, decoding, buf, wrote>> /\ UNCHANGED connection

NextMessage ==
    /\ lane # None /\ ~decoding /\ frames = << >>
    /\ lane' = None
    /\ UNCHANGED <<token, decoding, buf, frames, wrote, requests>> /\ UNCHANGED connection

\* The LAN shares nothing with the read loop but the token and the router.
LanRequest(head) ==
    /\ lane = None /\ Room
    /\ requests' = requests \cup
          {[lane |-> "lan", m |-> head.m, p |-> head.p, headers |-> head.headers,
            stamp |-> 0, by |-> "waiting", expected |-> 0, upstream |-> << >>]}
    /\ UNCHANGED token /\ UNCHANGED reader /\ UNCHANGED connection

Serve(r) ==
    /\ r.by = "waiting"
    /\ LET by == ServedBy(r)
       IN  requests' = (requests \ {r}) \cup
              {[r EXCEPT !.by = by, !.expected = token,
                         !.upstream = IF by = "forward" THEN Forwarded(r.headers) ELSE << >>]}
    /\ UNCHANGED token /\ UNCHANGED reader /\ UNCHANGED connection

Answered(r) ==
    /\ r.by # "waiting"
    /\ requests' = requests \ {r}
    /\ UNCHANGED token /\ UNCHANGED reader /\ UNCHANGED connection

RegenerateBearerToken ==
    /\ token < MaxToken
    /\ token' = token + 1
    /\ UNCHANGED requests /\ UNCHANGED reader /\ UNCHANGED connection

\* relay::respawn: a new connection captures the token.  The old one is dropped
\* at an await, so never inside the decoder; requests it gave to the router may
\* still be served.
Connect ==
    /\ ~decoding
    /\ stamp' = token /\ apiKey' \in BOOLEAN /\ paired' = FALSE
    /\ lane' = None /\ decoding' = FALSE /\ buf' = << >> /\ frames' = << >>
    /\ UNCHANGED <<token, wrote, requests>>

SessionUp ==
    /\ ~paired /\ lane = None
    /\ paired' = TRUE
    /\ UNCHANGED <<token, stamp, apiKey, requests>> /\ UNCHANGED reader

Next ==
    \/ \E l \in {"e2e", "http"}, batch \in Batches :
          \/ ReadFrame(l, batch, TRUE, 0)
          \/ \E cut \in 0..Len(Payload(batch)) : ReadFrame(l, batch, FALSE, cut)
    \/ DecodeInnerOne \/ DecodeInnerAll \/ DecodeFails
    \/ Handle \/ NextMessage
    \/ \E head \in LanHeads : LanRequest(head)
    \/ \E r \in requests : Serve(r) \/ Answered(r)
    \/ RegenerateBearerToken \/ Connect \/ SessionUp

Spec == Init /\ [][Next]_vars
-----------------------------------------------------------------------------
(***************************************************************************)
(* Properties.                                                             *)
(***************************************************************************)

\* What the decoder hands on is what was written: the frames of a batch of this
\* protocol that could be encoded, in order, and of any other payload frames
\* that account for every byte of it, or nothing at all (wire.rs:162-217; a
\* frame that were cut or swallowed its neighbour would run as a request).
DecodesExactly ==
    [][decoding /\ ~decoding' =>
          \/ wrote.whole /\ frames' = Encodables(wrote.batch)
          \/ ~wrote.whole /\ lane' = None /\ frames' = << >>
          \/ /\ ~wrote.whole /\ Payload(frames') = wrote.bytes
             /\ \A i \in DOMAIN frames' : frames'[i].typ \notin ReservedTypes]_<<decoding, buf, frames>>

Served(r) == r.by \notin {"waiting", "unauthorized"}

\* Whatever arrives on the plain lane, only Ollama's OpenAI surface answers:
\* neither model management nor the stores (policy.rs:71-85, "a leaked key
\* must cost the user inference cycles and nothing more").
InferenceOnly ==
    \A r \in requests :
        r.lane = "http" /\ Served(r) => r.by = "forward" /\ r.p.segs[1] = "v1"

\* The handler the allowlist has in mind for a path.
Meant(segs) ==
    CASE segs[1] = "amallo" -> "sync"
      [] segs[1] = "extended" -> IF Len(segs) = 4 /\ segs[3] = "blobs" THEN "check" ELSE segs[3]
      [] OTHER -> "forward"

\* The allowlist and the router, two lists kept in step by hand
\* (policy.rs:132-150, proxy.rs:207-225), agree: a request that the E2E lane
\* lets in is served by the handler it was let in for, neither forwarded to
\* Ollama in its place nor refused there, but for a method in lower case, which
\* only the allowlist takes.
RoutesAgree ==
    \A r \in requests :
        r.lane = "e2e" /\ Served(r) =>
            \/ r.by = Meant(r.p.segs)
            \/ r.m # Upper(r.m) /\ r.by = "method_not_allowed"

\* The bearer token decides, and amallo's own on the relay's lanes: nothing is
\* handled without the token that holds when it is checked; a peer's own
\* Authorization neither opens nor closes anything, so that a request from the
\* relay is refused only if the token was regenerated since its connection was
\* dialled; and no credential is sent on to Ollama (dispatch.rs:158-165,
\* proxy.rs:20-35).
TokenDecides ==
    \A r \in requests :
        /\ Served(r) => \/ r.by = "cors" /\ r.lane = "lan"
                        \/ Credential(r.headers) = r.expected
        /\ r.lane # "lan" /\ r.by = "unauthorized" => r.stamp < r.expected
        /\ \A i \in DOMAIN r.upstream : r.upstream[i].name # "authorization"
=============================================================================

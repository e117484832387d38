----------------------------- MODULE MCRelayRequest -----------------------------
(***************************************************************************)
(* Bytes of two bits, so that a length of three digits is full at 63, and  *)
(* one reserved type that stands for the three.                            *)
(***************************************************************************)
EXTENDS RelayRequest

Data == 2
WindowUpdate == 3
\* Its length cut to three digits is one, and what then follows are frames.
Oversize ==
    <<0, InnerReq, 0, 0, 0, 1, 0, 0, 1, 1, 0, 0, 0, 0, 0, 0, 1, 3>> \o [i \in 1..47 |-> 0]

MCFrames ==
    [typ: {InnerReq}, id: {1, 6}, payload: {<< >>, <<1>>}]
        \cup {[typ |-> Data, id |-> 1, payload |-> <<1, 1, 0>>],
              [typ |-> Data, id |-> 201, payload |-> <<0, 1, 0, 3, 0, 1, 2>>],
              [typ |-> Data, id |-> 1, payload |-> Oversize],
              [typ |-> WindowUpdate, id |-> 1, payload |-> <<1>>]}
MCBatches == {<<f>> : f \in MCFrames} \cup {<<f, g>> : f \in MCFrames, g \in MCFrames}

Path(segs) == [segs |-> segs, form |-> "plain", query |-> None]
Paths ==
    {Path(entry[2]) : entry \in AllowedExact \cup AllowedHttpExact \cup AllowedExactV1}
        \cup {Path(<<"amallo", "sync", c>>) : c \in {"chats", "personas", "other", ""}}
        \cup {Path(<<"extended", "v1", "blob", h>>) : h \in {"hex64", "hex63"}}
        \cup {Path(<<"v1", "models", id>>) : id \in {"llama", ""}}
        \cup {Path(<<"v1", "models", "llama", "x">>), Path(<<"api", "create">>)}
        \cup {[segs |-> <<"api", "tags">>, form |-> form, query |-> None] :
                 form \in {"long", "relative", "traversal"}}
        \cup {[segs |-> <<"v1", "models">>, form |-> "plain", query |-> q] :
                 q \in {"wellformed", "malformed"}}

Field(name, value) == [name |-> name, value |-> value]
HeaderLists ==
    {<< >>, <<Field("content-type", 0), Field("authorization", 2)>>,
     <<Field("authorization", 1), Field("origin", 0)>>}
Head1(m, p, headers, over) == [m |-> m, p |-> p, headers |-> headers, over |-> over]
Methods == {"GET", "get", "POST", "PUT", "DELETE", "OPTIONS"}

MCHeads ==
    {Head1(m, p, headers, FALSE) : m \in Methods, p \in Paths, headers \in HeaderLists}
        \cup {Head1("GET", Path(<<"api", "tags">>), << >>, TRUE)}
MCSpells(payload, head) == payload = <<1>>
MCLanHeads ==
    {Head1(m, p, headers, FALSE) : m \in Methods,
         p \in {q \in Paths : q.form = "plain" /\ q.query # "malformed"}, headers \in HeaderLists}
=============================================================================

----------------------------- MODULE HttpEncode -----------------------------
(***************************************************************************)
(* How a request is put together: the encoders of http_transport_layer.c   *)
(* over http_layer_queries.c and the CSV encoders, with the static buffers *)
(* all calls share.  Every piece is written with snprintf and a check that *)
(* it fits, so what matters of a piece is which it is and how wide it is.  *)
(*                                                                         *)
(* A text is a sequence of pieces <<kind, n>>.  For the pieces the caller  *)
(* supplies, n is the width; a stamp is the n-th point in time, in its 27  *)
(* characters; the other kinds are literals of the source.                 *)
(***************************************************************************)
EXTENDS XiErr, Naturals, SequencesExt

CONSTANTS
    QueryBufferSize, IdBufferSize, ContentBufferSize, CsvBufferSize, \* xi_config.h
    AgentWidth,  \* strlen( XI_USER_AGENT ), set by the build
    Requests     \* the calls the program makes, see RequestShape

VARIABLES
    req,        \* the call in progress, or the last one
    stage,      \* "idle", "data", "query", "content" or "concat"
    csv,        \* XI_CSV_LOCAL_BUFFER
    data,       \* XI_HTTP_QUERY_DATA
    query,      \* XI_QUERY_BUFFER
    content,    \* XI_CONTENT_BUFFER, <<>> if http_construct_content failed
    buffer,     \* XI_HTTP_QUERY_BUFFER
    result,     \* what the encoder returned; "none" once 0 is explained
    err         \* the error register

bufs == <<csv, data, query, content, buffer>>
vars == <<req, stage, bufs, result, err>>

-----------------------------------------------------------------------------
(***************************************************************************)
(* Texts and their widths                                                  *)
(***************************************************************************)
Literal(kind) == <<kind, 0>>

LiteralWidth ==
    [GET |-> 3, PUT |-> 3, POST |-> 4, DELETE |-> 6,
     slash |-> 1, datastreams |-> 12, datapoints |-> 12, start |-> 18, end |-> 5,
     streams |-> 13, comma |-> 1, newline |-> 1, crlf |-> 2, stamp |-> 27,
     path |-> 10, csv |-> 4, head |-> 72]

\* Of %d, for what an int can hold.
Digits(n) == 1 + Cardinality({k \in 1 .. 9 : 10 ^ k <= n})

\* The kinds of pieces the caller supplies, and all kinds.
Supplied == {"feed", "id", "value", "key", "agent"}
Kinds == Supplied \cup {"length", "partial"} \cup DOMAIN LiteralWidth

\* "length" stands for both content headers, with the length as its number.
PieceWidth(p) ==
    IF p[1] \in Supplied THEN p[2]
    ELSE IF p[1] = "length" THEN 44 + Digits(p[2])
    ELSE LiteralWidth[p[1]]

Width(text) ==
    LET upTo[i \in 0 .. Len(text)] == IF i = 0 THEN 0 ELSE upTo[i - 1] + PieceWidth(text[i])
    IN  upTo[Len(text)]

\* XI_CHECK_S and XI_CHECK_SIZE after the pieces of a text: there is room for
\* all of them and the terminator.
Fits(text, size) == Width(text) < size

-----------------------------------------------------------------------------
(***************************************************************************)
(* The calls                                                               *)
(***************************************************************************)
FeedOps == {"feed_get", "feed_update"}
DeleteOps == {"datapoint_delete", "datapoint_delete_range"}
BodyOps == {"feed_update", "datastream_create", "datastream_update"}
EncodeOps == FeedOps \cup DeleteOps \cup BodyOps \cup {"datastream_get", "datastream_delete"}

\* A row is a datastream id, a stamp (0 for none) and a value.  The datastream
\* calls have one row; a range is from the stamp of the first to the second.
RequestShape(r) ==
    /\ r.op \in EncodeOps
    /\ r.key \in Nat /\ r.feed \in Nat
    /\ r.rows \in Seq([id : Nat, stamp : Nat, value : Nat])
    /\ r.op \notin FeedOps => r.rows # <<>>
    /\ r.op = "datapoint_delete_range" => Len(r.rows) > 1

ASSUME EncodeAssumption ==
    /\ {QueryBufferSize, IdBufferSize, ContentBufferSize, CsvBufferSize} \subseteq Nat \ {0}
    /\ AgentWidth \in Nat
    /\ \A r \in Requests : RequestShape(r)

Method(op) ==
    IF op \in {"feed_get", "datastream_get"} THEN "GET"
    ELSE IF op = "datastream_create" THEN "POST"
    ELSE IF op \in {"feed_update", "datastream_update"} THEN "PUT"
    ELSE "DELETE"

\* csv_encode_datapoint_in_place.
Datapoint(row) ==
    (IF row.stamp = 0 THEN <<>> ELSE << <<"stamp", row.stamp>>, Literal("comma") >>)
      \o << <<"value", row.value>>, Literal("newline") >>

Row(row) == << <<"id", row.id>>, Literal("comma") >> \o Datapoint(row)

Rows(rows) == FlattenSeq([i \in DOMAIN rows |-> Row(rows[i])])

StreamList(rows) ==
    FlattenSeq([i \in DOMAIN rows |->
               << Literal(IF i = 1 THEN "streams" ELSE "comma"), <<"id", rows[i].id>> >>])

\* What follows /datastreams/, with the times a delete request has in it.
PathText(r, first, last) ==
    << <<"id", r.rows[1].id>> >> \o
    (IF r.op = "datapoint_delete"
     THEN << Literal("datapoints"), <<"stamp", first>> >>
     ELSE IF r.op = "datapoint_delete_range"
     THEN << Literal("start"), <<"stamp", first>>, Literal("end"), <<"stamp", last>> >>
     ELSE <<>>)

\* Mutant: stm is a pointer to the one structure xi_gmtime returns, which
\* holds the last time that was converted.
stmShared(r) == IF r.op = "datapoint_delete_range" THEN r.rows[2].stamp ELSE r.rows[1].stamp

\* The two ends of a range as the encoder has them: xi_gmtime makes both in
\* its one structure, and each is copied before the other is made.
stm(r) == r.rows[1].stamp
etm(r) == r.rows[2].stamp
EncodedPath(r) == PathText(r, stm(r), etm(r))

-----------------------------------------------------------------------------
Init ==
    /\ req \in {r \in Requests : r.op = "feed_get" /\ r.rows = <<>>}
    /\ stage = "idle"
    /\ csv = <<>> /\ data = <<>> /\ query = <<>> /\ content = <<>> /\ buffer = <<>>
    /\ result = "none"
    /\ err = NoErr

Call(r) ==
    /\ stage = "idle"
    /\ req' = r
    /\ stage' = IF r.op \in {"datastream_get", "datastream_delete"} THEN "query" ELSE "data"
    /\ result' = "none"
    /\ UNCHANGED <<bufs, err>>

\* The program reads the register.
GetLastError ==
    /\ stage = "idle"
    /\ err' = NoErr
    /\ result' = "none"
    /\ UNCHANGED <<req, stage, bufs>>

\* Mutant: the encoder's -1 is stored in place of a code.
ReturnNullRaw(code) ==
    /\ stage' = "idle"
    /\ result' = "null"
    /\ err' = "-1"

ReturnNull(code) ==
    /\ stage' = "idle"
    /\ result' = "null"
    /\ err' = code

\* What a buffer holds when a piece did not fit, is never looked at again.
Partial == << <<"partial", 0>> >>

\* Mutant: the buffer is not cleared first, and nothing is written to it
\* when there are no rows.
StoreOver(buf, text, size, code, next) ==
    IF text = <<>> THEN buf' = buf /\ stage' = next /\ UNCHANGED <<result, err>>
    ELSE IF Fits(text, size)
    THEN buf' = text /\ stage' = next /\ UNCHANGED <<result, err>>
    ELSE buf' = buf /\ ReturnNull(code)

\* Mutant: the space is compared with what is already used and the piece.
StoreTwice(buf, text, size, code, next) ==
    IF Width(text) + Width(text) < size
    THEN buf' = text /\ stage' = next /\ UNCHANGED <<result, err>>
    ELSE buf' = Partial /\ ReturnNull(code)

\* A text goes to a static buffer, from its start, or the encoder returns 0.
Store(buf, text, size, code, next) ==
    IF Fits(text, size)
    THEN buf' = text /\ stage' = next /\ UNCHANGED <<result, err>>
    ELSE buf' = Partial /\ ReturnNull(code)

\* The rows or the row of a request with a body, as CSV.
EncodeCsv ==
    /\ stage = "data"
    /\ \/ /\ req.op = "datastream_create"
          /\ Store(csv, Row(req.rows[1]), CsvBufferSize,
                   "XI_CSV_ENCODE_DATASTREAM_BUFFER_OVERRUN", "query")
       \/ /\ req.op = "datastream_update"
          /\ Store(csv, Datapoint(req.rows[1]), CsvBufferSize,
                   "XI_CSV_ENCODE_DATAPOINT_BUFFER_OVERRUN", "query")
    /\ UNCHANGED <<req, data, query, content, buffer>>

\* The rows of a feed, or the list of the datastreams to get, in the cleared
\* XI_HTTP_QUERY_DATA.
EncodeFeed ==
    /\ stage = "data"
    /\ req.op \in FeedOps
    /\ Store(data, IF req.op = "feed_update" THEN Rows(req.rows) ELSE StreamList(req.rows),
             ContentBufferSize, "XI_HTTP_ENCODE_UPDATE_FEED", "query")
    /\ UNCHANGED <<req, csv, query, content, buffer>>

\* A delete request has the datapoints in place of the datastream's id; they
\* are put together in the buffer of the request itself.
EncodePath ==
    /\ stage = "data"
    /\ \/ /\ req.op = "datapoint_delete"
          /\ Store(buffer, EncodedPath(req), QueryBufferSize + ContentBufferSize,
                   "XI_HTTP_ENCODE_DELETE_DATAPOINT", "query")
       \/ /\ req.op = "datapoint_delete_range"
          /\ Store(buffer, EncodedPath(req), QueryBufferSize + ContentBufferSize,
                   "XI_HTTP_ENCODE_DELETE_RANGE_DATAPOINT", "query")
    /\ UNCHANGED <<req, csv, data, query, content>>

\* What follows /v2/feeds: XI_ID_BUFFER.
IdText(r, path) ==
    << Literal("slash"), <<"feed", r.feed>> >> \o
    (IF r.op \in FeedOps THEN <<>>
     ELSE IF r.op = "datastream_create" THEN << Literal("datastreams") >>
     ELSE << Literal("datastreams"), Literal("slash") >> \o path)

\* XI_HTTP_TEMPLATE_FEED.
QueryText(r, path, suffix) ==
    << Literal(Method(r.op)), Literal("path") >> \o IdText(r, path)
      \o << Literal("csv") >> \o suffix
      \o << Literal("head"), <<"agent", AgentWidth>>, <<"key", r.key>> >>

\* Mutant: a path that is too long is not reported, as it is not in
\* http_encode_* when http_construct_request_* returns 0.
ConstructQuerySilently ==
    LET path == IF req.op \in DeleteOps THEN buffer ELSE << <<"id", req.rows[1].id>> >>
        suffix == IF req.op = "feed_get" THEN data ELSE <<>>
    IN  /\ stage = "query"
        /\ IF Fits(IdText(req, path), IdBufferSize)
           THEN Store(query, QueryText(req, path, suffix), QueryBufferSize,
                      "XI_HTTP_CONSTRUCT_REQUEST_BUFFER_OVERRUN",
                      IF req.op \in BodyOps THEN "content" ELSE "concat")
           ELSE ReturnNull(err) /\ UNCHANGED query
        /\ UNCHANGED <<req, csv, data, content, buffer>>

\* http_construct_request_feed and _datastream.
ConstructQuery ==
    LET path == IF req.op \in DeleteOps THEN buffer ELSE << <<"id", req.rows[1].id>> >>
        suffix == IF req.op = "feed_get" THEN data ELSE <<>>
    IN  /\ stage = "query"
        /\ IF Fits(IdText(req, path), IdBufferSize)
           THEN Store(query, QueryText(req, path, suffix), QueryBufferSize,
                      "XI_HTTP_CONSTRUCT_REQUEST_BUFFER_OVERRUN",
                      IF req.op \in BodyOps THEN "content" ELSE "concat")
           ELSE /\ ReturnNull("XI_HTTP_CONSTRUCT_CONTENT_BUFFER_OVERRUN")
                /\ UNCHANGED query
        /\ UNCHANGED <<req, csv, data, content, buffer>>

Body(r) == IF r.op = "feed_update" THEN data ELSE csv

\* http_construct_content; nobody looks at its 0.
ConstructContent ==
    LET text == << <<"length", Width(Body(req))>> >>
    IN  /\ stage = "content"
        /\ stage' = "concat"
        /\ IF Fits(text, ContentBufferSize)
           THEN content' = text /\ UNCHANGED err
           ELSE content' = <<>> /\ err' = "XI_HTTP_CONSTRUCT_CONTENT_BUFFER_OVERRUN"
        /\ UNCHANGED <<req, csv, data, query, buffer, result>>

\* Without content headers there is no body.
RequestText(q, c, body) ==
    q \o c \o << Literal("crlf") >> \o (IF c = <<>> THEN <<>> ELSE body)
      \o << Literal("crlf") >>

\* http_encode_concat.
Concat ==
    LET c == IF req.op \in BodyOps THEN content ELSE <<>>
        text == RequestText(query, c, Body(req))
    IN  /\ stage = "concat"
        /\ stage' = "idle"
        /\ IF Fits(text, QueryBufferSize + ContentBufferSize)
           THEN buffer' = text /\ result' = "request" /\ UNCHANGED err
           ELSE buffer' = Partial /\ ReturnNull("XI_HTTP_ENCODE_CREATE_DATASTREAM")
        /\ UNCHANGED <<req, csv, data, query, content>>

Next ==
    \/ \E r \in Requests : Call(r)
    \/ GetLastError
    \/ EncodeCsv \/ EncodeFeed \/ EncodePath
    \/ ConstructQuery \/ ConstructContent \/ Concat

Spec == Init /\ [][Next]_vars
-----------------------------------------------------------------------------
(***************************************************************************)
(* Properties                                                              *)
(***************************************************************************)
Text == Seq(Kinds \X Nat)

TypeOK ==
    /\ req \in Requests
    /\ stage \in {"idle", "data", "query", "content", "concat"}
    /\ {csv, data, query, content, buffer} \subseteq Text
    /\ result \in {"none", "request", "null"}
    /\ err \in Errs

\* What a request should be, put together without the buffers and without the
\* structure of xi_gmtime.
PathOf(r) == PathText(r, r.rows[1].stamp, r.rows[2].stamp)

BodyOf(r) ==
    IF r.op = "feed_update" THEN Rows(r.rows)
    ELSE IF r.op = "datastream_create" THEN Row(r.rows[1])
    ELSE IF r.op = "datastream_update" THEN Datapoint(r.rows[1])
    ELSE <<>>

RequestOf(r) ==
    RequestText(QueryText(r, PathOf(r), IF r.op = "feed_get" THEN StreamList(r.rows) ELSE <<>>),
                IF r.op \in BodyOps THEN << <<"length", Width(BodyOf(r))>> >> ELSE <<>>,
                BodyOf(r))

\* A request that is returned is the whole request of this call, with the
\* length of its own body and both times of its own range, whatever the static
\* buffers and the structure of xi_gmtime held before; none of its pieces is
\* cut (http_transport_layer.c:26-68, 339-354).
RequestIsWhole == result = "request" => buffer = RequestOf(req)

\* An encoder returns 0 only with a code in the register (xi_err.h:10).
NullMeansError == result = "null" => err # NoErr

\* An encoder returns 0 only if some buffer is too small for this call.
NullMeansTooLarge ==
    result = "null" =>
        ~ /\ Fits(BodyOf(req), IF req.op = "feed_update" THEN ContentBufferSize
                               ELSE CsvBufferSize)
          /\ req.op = "feed_get" => Fits(StreamList(req.rows), ContentBufferSize)
          /\ Fits(IdText(req, PathOf(req)), IdBufferSize)
          /\ Fits(QueryText(req, PathOf(req),
                    IF req.op = "feed_get" THEN StreamList(req.rows) ELSE <<>>),
                  QueryBufferSize)
          /\ Fits(RequestOf(req), QueryBufferSize + ContentBufferSize)

\* Datapoints in a time range can be deleted (xively.h:372).
RangeCanBeDeleted ==
    req.op = "datapoint_delete_range" => result # "null"
=============================================================================

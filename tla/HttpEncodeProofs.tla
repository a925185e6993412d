-------------------------- MODULE HttpEncodeProofs --------------------------
(***************************************************************************)
(* Proofs about HttpEncode: widths, then which text a buffer holds at      *)
(* which stage, then why an encoder returns 0.                             *)
(***************************************************************************)
EXTENDS HttpEncode, Recursion, SequenceTheorems, FiniteSetTheorems, TLAPS

(***************************************************************************)
(* Codes and widths, and a code for every 0.                               *)
(***************************************************************************)
LEMMA CodesAreErrors ==
    /\ NoErr # "XI_HTTP_CONSTRUCT_REQUEST_BUFFER_OVERRUN"
    /\ NoErr # "XI_HTTP_CONSTRUCT_CONTENT_BUFFER_OVERRUN"
    /\ NoErr # "XI_HTTP_ENCODE_CREATE_DATASTREAM"
    /\ NoErr # "XI_HTTP_ENCODE_UPDATE_FEED"
    /\ NoErr # "XI_HTTP_ENCODE_DELETE_DATAPOINT"
    /\ NoErr # "XI_HTTP_ENCODE_DELETE_RANGE_DATAPOINT"
    /\ NoErr # "XI_CSV_ENCODE_DATAPOINT_BUFFER_OVERRUN"
    /\ NoErr # "XI_CSV_ENCODE_DATASTREAM_BUFFER_OVERRUN"
  BY DEF NoErr

-----------------------------------------------------------------------------
(***************************************************************************)
(* Widths                                                                  *)
(***************************************************************************)
Pieces == (Supplied \cup {"length"} \cup DOMAIN LiteralWidth) \X Nat

LEMMA DigitsTyped ==
  ASSUME NEW n
  PROVE  Digits(n) \in Nat
<1> DEFINE S == {k \in 1 .. 9 : 10 ^ k <= n}
<1>1. S \in SUBSET (1 .. 9)
  BY Zenon
<1>2. IsFiniteSet(1 .. 9)
  <2> HIDE DEF S
  <2>1. 1 \in Int /\ 9 \in Int
    OBVIOUS
  <2>2. QED BY <2>1, FS_Interval
<1> HIDE DEF S
<1>3. Cardinality(S) \in Nat
  BY <1>1, <1>2, FS_Subset, FS_CardinalityType
<1>4. Digits(n) = 1 + Cardinality(S)
  BY Zenon DEF Digits, S
<1>5. QED BY <1>3, <1>4

LEMMA PieceWidthTyped ==
  ASSUME NEW p \in Pieces
  PROVE  PieceWidth(p) \in Nat
<1>1. p[2] \in Nat
  BY DEF Pieces
<1>2. CASE p[1] \in Supplied
  BY <1>1, <1>2 DEF PieceWidth
<1>3. CASE p[1] = "length"
  BY <1>1, <1>3, DigitsTyped DEF PieceWidth, Supplied
<1>4. CASE p[1] \in DOMAIN LiteralWidth
  <2>1. \A kind \in DOMAIN LiteralWidth : LiteralWidth[kind] \in Nat
    BY DEF LiteralWidth
  <2>2. p[1] \notin Supplied \cup {"length"}
    BY <1>4 DEF LiteralWidth, Supplied
  <2>3. QED BY <1>4, <2>1, <2>2 DEF PieceWidth
<1>5. QED BY <1>2, <1>3, <1>4 DEF Pieces

\* w holds the widths of the beginnings of t.
Sums(w, t) ==
    /\ w \in [0 .. Len(t) -> Nat]
    /\ w[0] = 0
    /\ \A i \in 1 .. Len(t) : w[i] = w[i - 1] + PieceWidth(t[i])

LEMMA SumsUnique ==
  ASSUME NEW t \in Seq(Pieces), NEW w, NEW v, Sums(w, t),
         v[0] = 0, \A i \in 1 .. Len(t) : v[i] = v[i - 1] + PieceWidth(t[i])
  PROVE  \A i \in 0 .. Len(t) : v[i] = w[i]
<1> DEFINE T == {i \in 0 .. Len(t) : v[i] = w[i]}
<1>1. Len(t) \in Nat
  BY LenProperties
<1>2. 0 \in T
  BY <1>1 DEF Sums
<1>3. \A i \in 1 .. Len(t) : i - 1 \in T => i \in T
  BY <1>1 DEF Sums
<1> HIDE DEF T
<1>4. \A i \in 0 .. Len(t) : i \in T
  BY <1>1, <1>2, <1>3, IntervalInduction
<1>5. QED BY <1>4 DEF T

LEMMA WidthSums ==
  ASSUME NEW t \in Seq(Pieces)
  PROVE  \E w : Sums(w, t) /\ Width(t) = w[Len(t)]
<1> DEFINE n == Len(t)
           step == [i \in 1 .. n |-> [s \in Nat |-> s + PieceWidth(t[i])]]
<1>1. n \in Nat /\ \A i \in 1 .. n : PieceWidth(t[i]) \in Nat
  BY LenProperties, ElementOfSeq, PieceWidthTyped
<1>2. step \in [1 .. n -> [Nat -> Nat]]
  BY <1>1
<1>3. PICK w : Iterates(w, n, Nat, 0, step)
  <2> DEFINE V == Nat
             first == 0
  <2>1. first \in V /\ n \in Nat /\ step \in Steps(n, V)
    BY <1>1, <1>2 DEF Steps
  <2> HIDE DEF step, n, V, first
  <2>2. \E f : Iterates(f, n, V, first, step)
    BY <2>1, IntervalRecursion
  <2>3. QED BY <2>2 DEF V, first
<1>4. Sums(w, t)
  <2>1. ASSUME NEW i \in 1 .. n PROVE w[i] = w[i - 1] + PieceWidth(t[i])
    <3>1. i - 1 \in 0 .. n
      BY <1>1
    <3>2. w[i - 1] \in Nat
      BY <1>3, <3>1 DEF Iterates
    <3>3. QED BY <1>3, <3>2 DEF Iterates
  <2>2. QED BY <1>3, <2>1 DEF Sums, Iterates
<1> DEFINE U(v) == v = [i \in 0 .. n |-> IF i = 0 THEN 0 ELSE v[i - 1] + PieceWidth(t[i])]
<1>5. U(w)
  <2>1. \A i \in 0 .. n : w[i] = IF i = 0 THEN 0 ELSE w[i - 1] + PieceWidth(t[i])
    BY <1>1, <1>4 DEF Sums
  <2> DEFINE v == [i \in 0 .. n |-> IF i = 0 THEN 0 ELSE w[i - 1] + PieceWidth(t[i])]
  <2>2. w = v
    BY <1>4, <2>1 DEF Sums
  <2>3. QED BY <2>2
<1> DEFINE u == CHOOSE v : U(v)
<1>6. U(u)
  <2> HIDE DEF U
  <2>1. QED BY <1>5
<1>7. u[0] = 0 /\ \A i \in 1 .. n : u[i] = u[i - 1] + PieceWidth(t[i])
  <2> HIDE DEF u
  <2>1. \A i \in 0 .. n : u[i] = IF i = 0 THEN 0 ELSE u[i - 1] + PieceWidth(t[i])
    BY <1>6
  <2>2. QED BY <1>1, <2>1
<1>8. u[n] = w[n]
  <2> HIDE DEF u
  <2>1. QED BY <1>1, <1>4, <1>7, SumsUnique
<1>9. Width(t) = u[n]
  BY DEF Width
<1>10. QED BY <1>4, <1>8, <1>9

LEMMA WidthTyped ==
  ASSUME NEW t \in Seq(Pieces)
  PROVE  Width(t) \in Nat
<1>1. PICK w : Sums(w, t) /\ Width(t) = w[Len(t)]
  BY WidthSums
<1>2. Len(t) \in Nat
  BY LenProperties
<1>3. QED BY <1>1, <1>2 DEF Sums

LEMMA EmptyWidth == Width(<<>>) = 0
<1>1. <<>> \in Seq(Pieces) /\ Len(<<>>) = 0
  BY EmptySeq
<1>2. PICK w : Sums(w, <<>>) /\ Width(<<>>) = w[Len(<<>>)]
  BY <1>1, WidthSums
<1>3. QED BY <1>1, <1>2 DEF Sums

\* The width of two texts one behind the other.
LEMMA WidthConcat ==
  ASSUME NEW s \in Seq(Pieces), NEW t \in Seq(Pieces)
  PROVE  Width(s \o t) = Width(s) + Width(t)
<1> DEFINE st == s \o t
           m == Len(s)
           n == Len(t)
<1>1. PICK w : Sums(w, s) /\ Width(s) = w[m]
  BY WidthSums
<1>2. PICK v : Sums(v, t) /\ Width(t) = v[n]
  BY WidthSums
<1>3. /\ st \in Seq(Pieces) /\ Len(st) = m + n /\ m \in Nat /\ n \in Nat
      /\ \A i \in 1 .. m + n : st[i] = IF i <= m THEN s[i] ELSE t[i - m]
  BY ConcatProperties, LenProperties
<1> HIDE DEF st, m, n
<1>4. PICK u : Sums(u, st) /\ Width(st) = u[m + n]
  BY <1>3, WidthSums
<1>5. u[0] = 0 /\ \A i \in 1 .. m : u[i] = u[i - 1] + PieceWidth(s[i])
  <2>1. \A i \in 1 .. m : i \in 1 .. m + n /\ st[i] = s[i]
    BY <1>3
  <2>2. QED BY <1>3, <1>4, <2>1 DEF Sums
<1>6. u[m] = w[m]
  BY <1>1, <1>3, <1>5, SumsUnique DEF m
<1> DEFINE d == [j \in 0 .. n |-> u[m + j] - u[m]]
<1>7. u[m] \in Nat /\ \A j \in 0 .. n : u[m + j] \in Nat /\ d[j] = u[m + j] - u[m]
  BY <1>3, <1>4 DEF Sums
<1>8. d[0] = 0
  BY <1>3, <1>7
<1>9. ASSUME NEW j \in 1 .. n PROVE d[j] = d[j - 1] + PieceWidth(t[j])
  <2>1. /\ m + j \in 1 .. m + n /\ (m + j) - 1 = m + (j - 1) /\ ~(m + j <= m) /\ (m + j) - m = j
        /\ j - 1 \in 0 .. n /\ j \in 0 .. n
    BY <1>3
  <2>2. st[m + j] = t[j]
    BY <1>3, <2>1
  <2>3. u[m + j] = u[m + (j - 1)] + PieceWidth(t[j])
    BY <1>3, <1>4, <2>1, <2>2 DEF Sums
  <2>4. PieceWidth(t[j]) \in Nat
    BY ElementOfSeq, PieceWidthTyped DEF n
  <2> HIDE DEF d
  <2>5. QED BY <1>7, <2>1, <2>3, <2>4
<1> HIDE DEF d
<1>10. d[n] = v[n]
  BY <1>2, <1>3, <1>8, <1>9, SumsUnique DEF n
<1>11. u[m + n] = u[m] + v[n]
  <2>1. n \in 0 .. n
    BY <1>3
  <2>2. d[n] = u[m + n] - u[m] /\ u[m + n] \in Nat
    BY <1>7, <2>1
  <2>3. QED BY <1>7, <1>10, <2>2
<1>12. QED BY <1>1, <1>2, <1>4, <1>6, <1>11 DEF st

-----------------------------------------------------------------------------
LEMMA SizesPositive ==
    /\ QueryBufferSize \in Nat \ {0} /\ ContentBufferSize \in Nat \ {0}
    /\ CsvBufferSize \in Nat \ {0}
    /\ QueryBufferSize + ContentBufferSize \in Nat \ {0}
<1>1. /\ QueryBufferSize \in Nat \ {0} /\ ContentBufferSize \in Nat \ {0}
      /\ CsvBufferSize \in Nat \ {0}
  BY EncodeAssumption DEF EncodeAssumption
<1>2. QED BY <1>1

\* An encoder that returns 0 has set a code, whatever the register held
\* before the call (xi_err.h:10).
THEOREM EncodeNullMeansError == Spec => []NullMeansError
<1>1. Init => NullMeansError
  BY DEF Init, NullMeansError
<1>2. NullMeansError /\ [Next]_vars => NullMeansError'
  <2> SUFFICES ASSUME NullMeansError, [Next]_vars PROVE NullMeansError'
    OBVIOUS
  <2> USE CodesAreErrors DEF NullMeansError
  <2>1. ASSUME NEW r \in Requests, Call(r) PROVE NullMeansError'
    BY <2>1 DEF Call
  <2>2. CASE GetLastError
    BY <2>2 DEF GetLastError
  <2>3. CASE EncodeCsv
    BY <2>3 DEF EncodeCsv, Store, ReturnNull
  <2>4. CASE EncodeFeed
    BY <2>4 DEF EncodeFeed, Store, ReturnNull
  <2>5. CASE EncodePath
    BY <2>5 DEF EncodePath, Store, ReturnNull
  <2>6. CASE ConstructQuery
    BY <2>6 DEF ConstructQuery, Store, ReturnNull
  <2>7. CASE ConstructContent
    BY <2>7 DEF ConstructContent
  <2>8. CASE Concat
    BY <2>8 DEF Concat, ReturnNull
  <2>9. CASE UNCHANGED vars
    BY <2>9 DEF vars
  <2>10. QED
    BY <2>1, <2>2, <2>3, <2>4, <2>5, <2>6, <2>7, <2>8, <2>9 DEF Next
<1>3. QED BY <1>1, <1>2, PTL DEF Spec

(***************************************************************************)
(* The whole request                                                       *)
(***************************************************************************)
Suffix(r) == IF r.op = "feed_get" THEN StreamList(r.rows) ELSE <<>>
HeadersOf(r) == << <<"length", Width(BodyOf(r))>> >>

\* What is sent: the encoders do not look at the 0 http_construct_content
\* returns when the content headers do not fit their buffer, and go on without
\* headers and body.
HeadersSent(r) ==
    IF r.op \in BodyOps /\ Fits(HeadersOf(r), ContentBufferSize) THEN HeadersOf(r) ELSE <<>>

SentOf(r) == RequestText(QueryText(r, PathOf(r), Suffix(r)), HeadersSent(r), BodyOf(r))

\* The two content headers of every request fit their buffer.
HeadersFit ==
    \A r \in Requests : r.op \in BodyOps => Fits(HeadersOf(r), ContentBufferSize)

\* What is in a buffer once its stage is done: the text of this call.
DataDone ==
    stage \in {"query", "content", "concat"} =>
        /\ req.op = "feed_update" => data = Rows(req.rows)
        /\ req.op = "feed_get" => data = StreamList(req.rows)
        /\ req.op = "datastream_create" => csv = Row(req.rows[1])
        /\ req.op = "datastream_update" => csv = Datapoint(req.rows[1])

PathDone == stage = "query" /\ req.op \in DeleteOps => buffer = PathOf(req)

QueryDone ==
    stage \in {"content", "concat"} => query = QueryText(req, PathOf(req), Suffix(req))

ContentDone == stage = "concat" /\ req.op \in BodyOps => content = HeadersSent(req)

RequestIsSent == result = "request" => buffer = SentOf(req)

EncodeInv ==
    /\ req \in Requests
    /\ stage # "idle" => result = "none"
    /\ stage = "content" => req.op \in BodyOps
    /\ DataDone /\ PathDone /\ QueryDone /\ ContentDone
    /\ RequestIsSent

LEMMA RequestTyped ==
  ASSUME NEW r \in Requests
  PROVE  /\ r.op \in EncodeOps
         /\ r.op \in DeleteOps => r.op \notin BodyOps /\ r.op \notin FeedOps
         /\ r.op \in BodyOps => r.op \in {"feed_update", "datastream_create", "datastream_update"}
  BY EncodeAssumption
     DEF EncodeAssumption, RequestShape, EncodeOps, DeleteOps, BodyOps, FeedOps

\* Both ends of a range are those of the call: neither is the structure that
\* the conversion of the other has changed.
LEMMA PathEncoded == \A r : EncodedPath(r) = PathOf(r)
  BY DEF EncodedPath, PathOf, stm, etm

\* A call without a path of its own uses the datastream's id, or no path.
LEMMA PathUsed ==
  ASSUME NEW r \in Requests, r.op \notin DeleteOps
  PROVE  IdText(r, << <<"id", r.rows[1].id>> >>) = IdText(r, PathOf(r))
<1> DEFINE id == << <<"id", r.rows[1].id>> >>
<1>1. PathOf(r) = id \o <<>>
  BY DEF PathOf, PathText, DeleteOps
<1>2. id \in Seq({<<"id", r.rows[1].id>>})
  OBVIOUS
<1>3. id \o <<>> = id
  BY <1>2, ConcatEmptySeq
<1>4. QED BY <1>1, <1>3

\* The body that is sent is the one of the request.
LEMMA BodyUsed ==
  ASSUME req \in Requests, req.op \in BodyOps, DataDone,
         stage \in {"query", "content", "concat"}
  PROVE  Body(req) = BodyOf(req)
  BY RequestTyped DEF DataDone, Body, BodyOf

\* What http_encode_concat puts together.
LEMMA ConcatText ==
  ASSUME EncodeInv, stage = "concat"
  PROVE  RequestText(query, IF req.op \in BodyOps THEN content ELSE <<>>, Body(req)) = SentOf(req)
<1>1. query = QueryText(req, PathOf(req), Suffix(req))
  BY DEF QueryDone, EncodeInv
<1>2. CASE req.op \in BodyOps
  <2>1. Body(req) = BodyOf(req)
    BY <1>2, BodyUsed DEF EncodeInv
  <2>2. content = HeadersSent(req)
    BY <1>2 DEF EncodeInv, ContentDone
  <2>3. QED BY <1>1, <1>2, <2>1, <2>2 DEF SentOf
<1>3. CASE req.op \notin BodyOps
  BY <1>1, <1>3 DEF SentOf, RequestText, HeadersSent
<1>4. QED BY <1>2, <1>3

\* What http_construct_request_feed and _datastream put together.
LEMMA QueryUsed ==
  ASSUME EncodeInv, stage = "query"
  PROVE  LET path == IF req.op \in DeleteOps THEN buffer ELSE << <<"id", req.rows[1].id>> >>
             suffix == IF req.op = "feed_get" THEN data ELSE <<>>
         IN  /\ IdText(req, path) = IdText(req, PathOf(req))
             /\ QueryText(req, path, suffix) = QueryText(req, PathOf(req), Suffix(req))
<1> DEFINE path == IF req.op \in DeleteOps THEN buffer ELSE << <<"id", req.rows[1].id>> >>
           suffix == IF req.op = "feed_get" THEN data ELSE <<>>
<1>1. IdText(req, path) = IdText(req, PathOf(req))
  BY PathUsed DEF EncodeInv, PathDone
<1>2. suffix = Suffix(req)
  BY DEF EncodeInv, DataDone, Suffix
<1>3. QED BY <1>1, <1>2 DEF QueryText

LEMMA StepInv ==
  ASSUME EncodeInv, [Next]_vars
  PROVE  EncodeInv'
<1> USE DEF EncodeInv

<1>1. ASSUME NEW r \in Requests, Call(r) PROVE EncodeInv'
  <2>1. /\ req' = r /\ result' = "none" /\ UNCHANGED bufs /\ stage' \in {"query", "data"}
        /\ stage' = "query" => r.op \in {"datastream_get", "datastream_delete"}
    BY <1>1 DEF Call
  <2>2. QED
    BY <2>1 DEF DataDone, PathDone, QueryDone, ContentDone, RequestIsSent, DeleteOps
<1>2. CASE GetLastError
  BY <1>2 DEF GetLastError, bufs, DataDone, PathDone, QueryDone, ContentDone, RequestIsSent
<1>3. CASE EncodeCsv
  <2>1. stage = "data" /\ UNCHANGED <<req, data, query, content, buffer>>
    BY <1>3 DEF EncodeCsv
  <2>2. /\ result' # "request" /\ stage' \in {"idle", "query"}
        /\ stage' # "idle" => result' = "none"
        /\ req.op \in {"datastream_create", "datastream_update"}
        /\ stage' = "query" =>
              csv' = IF req.op = "datastream_create" THEN Row(req.rows[1])
                     ELSE Datapoint(req.rows[1])
    BY <1>3 DEF EncodeCsv, Store, ReturnNull
  <2>3. QED
    BY <2>1, <2>2 DEF DataDone, PathDone, QueryDone, ContentDone, RequestIsSent, DeleteOps
<1>4. CASE EncodeFeed
  <2>1. stage = "data" /\ UNCHANGED <<req, csv, query, content, buffer>> /\ req.op \in FeedOps
    BY <1>4 DEF EncodeFeed
  <2>2. /\ result' # "request" /\ stage' \in {"idle", "query"}
        /\ stage' # "idle" => result' = "none"
        /\ stage' = "query" =>
              data' = IF req.op = "feed_update" THEN Rows(req.rows) ELSE StreamList(req.rows)
    BY <1>4 DEF EncodeFeed, Store, ReturnNull
  <2>3. QED
    BY <2>1, <2>2
       DEF DataDone, PathDone, QueryDone, ContentDone, RequestIsSent, DeleteOps, FeedOps
<1>5. CASE EncodePath
  <2>1. stage = "data" /\ UNCHANGED <<req, csv, data, query, content>> /\ req.op \in DeleteOps
    BY <1>5 DEF EncodePath, DeleteOps
  <2>2. /\ result' # "request" /\ stage' \in {"idle", "query"}
        /\ stage' # "idle" => result' = "none"
        /\ stage' = "query" => buffer' = PathOf(req)
    BY <1>5, PathEncoded DEF EncodePath, Store, ReturnNull
  <2>3. QED
    BY <2>1, <2>2 DEF DataDone, PathDone, QueryDone, ContentDone, RequestIsSent, DeleteOps
<1>6. CASE ConstructQuery
  <2> DEFINE path == IF req.op \in DeleteOps THEN buffer ELSE << <<"id", req.rows[1].id>> >>
             suffix == IF req.op = "feed_get" THEN data ELSE <<>>
  <2>1. stage = "query" /\ UNCHANGED <<req, csv, data, content, buffer>>
    BY <1>6 DEF ConstructQuery
  <2>2. QueryText(req, path, suffix) = QueryText(req, PathOf(req), Suffix(req))
    BY <2>1, QueryUsed
  <2>3. /\ result' # "request"
        /\ stage' # "idle" => result' = "none"
        /\ stage' # "idle" =>
              /\ query' = QueryText(req, path, suffix)
              /\ stage' = IF req.op \in BodyOps THEN "content" ELSE "concat"
    BY <1>6, <2>1 DEF ConstructQuery, Store, ReturnNull
  <2>4. QED
    BY <2>1, <2>2, <2>3 DEF DataDone, PathDone, QueryDone, ContentDone, RequestIsSent
<1>7. CASE ConstructContent
  <2>1. /\ stage = "content" /\ stage' = "concat"
        /\ UNCHANGED <<req, csv, data, query, buffer, result>>
    BY <1>7 DEF ConstructContent
  <2>2. req.op \in BodyOps => content' = HeadersSent(req)
    <3> SUFFICES ASSUME req.op \in BodyOps PROVE content' = HeadersSent(req)
      OBVIOUS
    <3>1. << <<"length", Width(Body(req))>> >> = HeadersOf(req)
      BY <2>1, BodyUsed DEF HeadersOf
    <3>2. content' = IF Fits(HeadersOf(req), ContentBufferSize) THEN HeadersOf(req) ELSE <<>>
      BY <1>7, <3>1 DEF ConstructContent
    <3>3. QED BY <3>2 DEF HeadersSent
  <2>3. QED
    BY <2>1, <2>2 DEF DataDone, PathDone, QueryDone, ContentDone, RequestIsSent
<1>8. CASE Concat
  <2> DEFINE c == IF req.op \in BodyOps THEN content ELSE <<>>
  <2>1. /\ stage = "concat" /\ stage' = "idle"
        /\ UNCHANGED <<req, csv, data, query, content>>
        /\ result' = "request" => buffer' = RequestText(query, c, Body(req))
    BY <1>8 DEF Concat, ReturnNull
  <2>2. RequestText(query, c, Body(req)) = SentOf(req)
    BY <2>1, ConcatText
  <2>3. QED
    BY <2>1, <2>2 DEF DataDone, PathDone, QueryDone, ContentDone, RequestIsSent
<1>9. CASE UNCHANGED vars
  BY <1>9 DEF vars, bufs, DataDone, PathDone, QueryDone, ContentDone, RequestIsSent
<1>10. QED
  BY <1>1, <1>2, <1>3, <1>4, <1>5, <1>6, <1>7, <1>8, <1>9 DEF Next

LEMMA EncodeInvariant == Spec => []EncodeInv
<1>1. Init => EncodeInv
  BY DEF Init, EncodeInv, DataDone, PathDone, QueryDone, ContentDone, RequestIsSent
<1>2. EncodeInv /\ [Next]_vars => EncodeInv'
  BY StepInv
<1>3. QED BY <1>1, <1>2, PTL DEF Spec

\* A request that is returned is the whole request of this call, for every
\* size of the buffers and every sequence of requests whose content headers
\* fit (http_transport_layer.c:26-68).
THEOREM EncodeRequestIsWhole ==
  ASSUME HeadersFit
  PROVE  Spec => []RequestIsWhole
<1>1. EncodeInv => RequestIsWhole
  <2> SUFFICES ASSUME EncodeInv, result = "request" PROVE buffer = RequestOf(req)
    BY DEF RequestIsWhole
  <2>1. req \in Requests /\ buffer = SentOf(req)
    BY DEF EncodeInv, RequestIsSent
  <2>2. HeadersSent(req) = IF req.op \in BodyOps THEN HeadersOf(req) ELSE <<>>
    BY <2>1 DEF HeadersSent, HeadersFit
  <2>3. QED BY <2>1, <2>2 DEF SentOf, RequestOf, HeadersOf, Suffix
<1>2. QED BY <1>1, EncodeInvariant, PTL

-----------------------------------------------------------------------------
(***************************************************************************)
(* The texts are texts of pieces, and their parts are no wider than they.  *)
(***************************************************************************)
LEMMA FlattenTyped ==
  ASSUME NEW S, NEW seqs \in Seq(Seq(S))
  PROVE  FlattenSeq(seqs) \in Seq(S)
<1> DEFINE n == Len(seqs)
<1>1. n \in Nat /\ <<>> \in Seq(S)
  BY LenProperties, EmptySeq
<1>2. CASE n = 0
  <2>1. seqs = <<>>
    BY <1>2, EmptySeq
  <2>2. FlattenSeq(seqs) = seqs
    BY <1>2 DEF FlattenSeq
  <2>3. QED BY <1>1, <2>1, <2>2
<1>3. CASE n # 0
  <2> DEFINE V == Seq(S)
             empty == <<>>
             step == [i \in 1 .. n |-> [s \in V |-> s \o seqs[i]]]
  <2>1. \A i \in 1 .. n : seqs[i] \in V
    BY ElementOfSeq
  <2>2. step \in [1 .. n -> [V -> V]] /\ empty \in V
    BY <1>1, <2>1, ConcatProperties
  <2>3. PICK f : Iterates(f, n, V, empty, step)
    <3>1. n \in Nat /\ empty \in V /\ step \in Steps(n, V)
      BY <1>1, <2>2 DEF Steps
    <3> HIDE DEF V, empty, step, n
    <3>2. QED BY <3>1, IntervalRecursion
  <2>4. \A i \in 1 .. n : f[i] = f[i - 1] \o seqs[i]
    <3>1. \A i \in 1 .. n : i - 1 \in 0 .. n
      BY <1>1
    <3>2. QED BY <2>3, <3>1 DEF Iterates
  <2> DEFINE U(u) == u = [i \in 1 .. n |-> IF i = 1 THEN seqs[i] ELSE u[i - 1] \o seqs[i]]
             g == [i \in 1 .. n |-> f[i]]
  <2>5. U(g)
    <3>1. ASSUME NEW i \in 1 .. n
          PROVE  g[i] = IF i = 1 THEN seqs[i] ELSE g[i - 1] \o seqs[i]
      <4>1. CASE i = 1
        <5>1. f[1] = <<>> \o seqs[1]
          <6>1. f[i] = f[i - 1] \o seqs[i]
            BY <2>4
          <6>2. i - 1 = 0
            BY <4>1
          <6>3. f[i] = f[0] \o seqs[i]
            BY <6>1, <6>2
          <6>4. QED BY <2>3, <4>1, <6>3 DEF Iterates
        <5>2. seqs[1] \in Seq(S)
          BY <2>1, <4>1
        <5>3. QED BY <4>1, <5>1, <5>2, ConcatEmptySeq
      <4>2. CASE i # 1
        <5>1. i - 1 \in 1 .. n
          BY <1>1, <4>2
        <5>2. QED BY <2>4, <4>2, <5>1
      <4>3. QED BY <4>1, <4>2
    <3> DEFINE h == [i \in 1 .. n |-> IF i = 1 THEN seqs[i] ELSE g[i - 1] \o seqs[i]]
    <3>2. \A i \in 1 .. n : g[i] = h[i]
      BY <3>1
    <3>3. g = h
      BY <3>2
    <3>4. QED BY <3>3
  <2> DEFINE u == CHOOSE v : U(v)
  <2>6. U(u)
    <3> HIDE DEF U
    <3>1. QED BY <2>5
  <2> DEFINE T == {i \in 0 .. n : i = 0 \/ u[i] \in Seq(S)}
  <2>7. \A i \in 1 .. n : u[i] = IF i = 1 THEN seqs[i] ELSE u[i - 1] \o seqs[i]
    <3> HIDE DEF u
    <3>1. QED BY <2>6
  <2>8. 0 \in T
    BY <1>1
  <2>9. ASSUME NEW i \in 1 .. n, i - 1 \in T PROVE i \in T
    <3> HIDE DEF u
    <3>1. i \in 0 .. n /\ seqs[i] \in Seq(S)
      BY <1>1, <2>1
    <3>2. CASE i = 1
      BY <2>7, <3>1, <3>2
    <3>3. CASE i # 1
      <4>1. u[i - 1] \in Seq(S)
        BY <1>1, <2>9, <3>3
      <4>2. u[i] = u[i - 1] \o seqs[i]
        BY <2>7, <3>3
      <4>3. u[i] \in Seq(S)
        BY <3>1, <4>1, <4>2, ConcatProperties
      <4>4. QED BY <3>1, <4>3
    <3>4. QED BY <3>2, <3>3
  <2> HIDE DEF T
  <2>10. n \in T
    <3> HIDE DEF n
    <3>1. n \in 0 .. n
      BY <1>1
    <3>2. QED BY <1>1, <2>8, <2>9, <3>1, IntervalInduction
  <2>11. u[n] \in Seq(S)
    BY <1>3, <2>10 DEF T
  <2>12. FlattenSeq(seqs) = u[n]
    BY <1>3 DEF FlattenSeq
  <2>13. QED BY <2>11, <2>12
<1>4. QED BY <1>2, <1>3

LEMMA PiecesTyped ==
    /\ \A n \in Nat : /\ <<"feed", n>> \in Pieces /\ <<"id", n>> \in Pieces
                      /\ <<"value", n>> \in Pieces /\ <<"key", n>> \in Pieces
                      /\ <<"agent", n>> \in Pieces /\ <<"length", n>> \in Pieces
                      /\ <<"stamp", n>> \in Pieces
    /\ \A kind \in DOMAIN LiteralWidth : Literal(kind) \in Pieces
    /\ {"GET", "PUT", "POST", "DELETE", "slash", "datastreams", "datapoints", "start", "end",
        "streams", "comma", "newline", "crlf", "stamp", "path", "csv", "head"} \subseteq DOMAIN LiteralWidth
  BY DEF Pieces, Supplied, LiteralWidth, Literal

LEMMA PiecesAreText == Pieces \subseteq Kinds \X Nat
  BY DEF Pieces, Kinds

\* A row of a request.
Shape == [id : Nat, stamp : Nat, value : Nat]

LEMMA RequestParts ==
  ASSUME NEW r \in Requests
  PROVE  /\ r.key \in Nat /\ r.feed \in Nat /\ r.rows \in Seq(Shape)
         /\ \A i \in DOMAIN r.rows : r.rows[i] \in Shape
         /\ r.op \notin FeedOps => 1 \in DOMAIN r.rows
         /\ r.op = "datapoint_delete_range" => 2 \in DOMAIN r.rows
         /\ AgentWidth \in Nat
<1>1. RequestShape(r) /\ AgentWidth \in Nat
  BY EncodeAssumption DEF EncodeAssumption
<1>2. r.rows \in Seq(Shape)
  BY <1>1 DEF RequestShape, Shape
<1>3. Len(r.rows) \in Nat /\ DOMAIN r.rows = 1 .. Len(r.rows)
  BY <1>2, LenProperties
<1>4. r.rows # <<>> => 1 \in DOMAIN r.rows
  BY <1>2, <1>3, EmptySeq
<1>5. Len(r.rows) > 1 => 2 \in DOMAIN r.rows
  BY <1>3
<1>6. \A i \in DOMAIN r.rows : r.rows[i] \in Shape
  BY <1>2, <1>3, ElementOfSeq
<1>7. QED BY <1>1, <1>2, <1>4, <1>5, <1>6 DEF RequestShape

LEMMA RowTyped ==
  ASSUME NEW row \in Shape
  PROVE  Datapoint(row) \in Seq(Pieces) /\ Row(row) \in Seq(Pieces)
<1>1. row.id \in Nat /\ row.stamp \in Nat /\ row.value \in Nat
  BY DEF Shape
<1>2. << <<"stamp", row.stamp>>, Literal("comma") >> \in Seq(Pieces)
  <2>1. <<"stamp", row.stamp>> \in Pieces /\ Literal("comma") \in Pieces
    BY <1>1, PiecesTyped
  <2>2. QED BY <2>1
<1>3. << <<"value", row.value>>, Literal("newline") >> \in Seq(Pieces)
  <2>1. <<"value", row.value>> \in Pieces /\ Literal("newline") \in Pieces
    BY <1>1, PiecesTyped
  <2>2. QED BY <2>1
<1>4. << <<"id", row.id>>, Literal("comma") >> \in Seq(Pieces)
  <2>1. <<"id", row.id>> \in Pieces /\ Literal("comma") \in Pieces
    BY <1>1, PiecesTyped
  <2>2. QED BY <2>1
<1>5. <<>> \in Seq(Pieces)
  BY EmptySeq
<1>6. Datapoint(row) \in Seq(Pieces)
  BY <1>2, <1>3, <1>5, ConcatProperties DEF Datapoint
<1>7. QED BY <1>4, <1>6, ConcatProperties DEF Row

LEMMA RowsTyped ==
  ASSUME NEW rows \in Seq(Shape)
  PROVE  Rows(rows) \in Seq(Pieces) /\ StreamList(rows) \in Seq(Pieces)
<1>1. Len(rows) \in Nat /\ DOMAIN rows = 1 .. Len(rows)
  BY LenProperties
<1>2. \A i \in 1 .. Len(rows) : rows[i] \in Shape
  BY ElementOfSeq
<1> DEFINE s == [i \in DOMAIN rows |-> Row(rows[i])]
           t == [i \in DOMAIN rows |-> << Literal(IF i = 1 THEN "streams" ELSE "comma"), <<"id", rows[i].id>> >>]
<1>3. s \in Seq(Seq(Pieces))
  <2>1. \A i \in 1 .. Len(rows) : Row(rows[i]) \in Seq(Pieces)
    BY <1>2, RowTyped
  <2>2. s \in [1 .. Len(rows) -> Seq(Pieces)]
    BY <1>1, <2>1
  <2> HIDE DEF s
  <2>3. QED BY <1>1, <2>2, SeqDef
<1>4. t \in Seq(Seq(Pieces))
  <2>1. ASSUME NEW i \in 1 .. Len(rows)
        PROVE  << Literal(IF i = 1 THEN "streams" ELSE "comma"), <<"id", rows[i].id>> >> \in Seq(Pieces)
    <3>1. rows[i].id \in Nat
      BY <1>2 DEF Shape
    <3>2. Literal(IF i = 1 THEN "streams" ELSE "comma") \in Pieces /\ <<"id", rows[i].id>> \in Pieces
      BY <3>1, PiecesTyped
    <3>3. QED BY <3>2
  <2>2. t \in [1 .. Len(rows) -> Seq(Pieces)]
    BY <1>1, <2>1
  <2> HIDE DEF t
  <2>3. QED BY <1>1, <2>2, SeqDef
<1>5. FlattenSeq(s) \in Seq(Pieces) /\ FlattenSeq(t) \in Seq(Pieces)
  <2> HIDE DEF s, t
  <2>1. QED BY <1>3, <1>4, FlattenTyped
<1>6. QED BY <1>5 DEF Rows, StreamList

LEMMA PathTyped ==
  ASSUME NEW r \in Requests, r.op \notin FeedOps
  PROVE  PathOf(r) \in Seq(Pieces)
<1>1. r.rows[1] \in Shape
  BY RequestParts
<1>2. r.op = "datapoint_delete_range" => r.rows[2] \in Shape
  BY RequestParts
<1>3. << <<"id", r.rows[1].id>> >> \in Seq(Pieces)
  <2>1. <<"id", r.rows[1].id>> \in Pieces
    BY <1>1, PiecesTyped DEF Shape
  <2>2. QED BY <2>1
<1>4. << Literal("datapoints"), <<"stamp", r.rows[1].stamp>> >> \in Seq(Pieces)
  <2>1. Literal("datapoints") \in Pieces /\ <<"stamp", r.rows[1].stamp>> \in Pieces
    BY <1>1, PiecesTyped DEF Shape
  <2>2. QED BY <2>1
<1>5. r.op = "datapoint_delete_range" =>
        << Literal("start"), <<"stamp", r.rows[1].stamp>>,
           Literal("end"), <<"stamp", r.rows[2].stamp>> >> \in Seq(Pieces)
  <2> SUFFICES ASSUME r.op = "datapoint_delete_range"
               PROVE  << Literal("start"), <<"stamp", r.rows[1].stamp>>,
                         Literal("end"), <<"stamp", r.rows[2].stamp>> >> \in Seq(Pieces)
    OBVIOUS
  <2>1. /\ Literal("start") \in Pieces /\ <<"stamp", r.rows[1].stamp>> \in Pieces
        /\ Literal("end") \in Pieces /\ <<"stamp", r.rows[2].stamp>> \in Pieces
    BY <1>1, <1>2, PiecesTyped DEF Shape
  <2>2. QED BY <2>1
<1>6. <<>> \in Seq(Pieces)
  BY EmptySeq
<1>7. QED BY <1>3, <1>4, <1>5, <1>6, ConcatProperties DEF PathOf, PathText

LEMMA SuffixTyped ==
  ASSUME NEW r \in Requests
  PROVE  Suffix(r) \in Seq(Pieces)
  BY RequestParts, RowsTyped, EmptySeq DEF Suffix

LEMMA BodyTyped ==
  ASSUME NEW r \in Requests
  PROVE  BodyOf(r) \in Seq(Pieces)
<1>1. CASE r.op = "feed_update"
  BY <1>1, RequestParts, RowsTyped DEF BodyOf
<1>2. CASE r.op # "feed_update"
  BY <1>2, RequestParts, RowTyped, EmptySeq DEF BodyOf, FeedOps
<1>3. QED BY <1>1, <1>2

LEMMA HeadersTyped ==
  ASSUME NEW r \in Requests
  PROVE  HeadersOf(r) \in Seq(Pieces) /\ HeadersSent(r) \in Seq(Pieces)
<1>1. Width(BodyOf(r)) \in Nat
  BY BodyTyped, WidthTyped
<1>2. <<"length", Width(BodyOf(r))>> \in Pieces
  BY <1>1, PiecesTyped
<1>3. HeadersOf(r) \in Seq(Pieces)
  BY <1>2 DEF HeadersOf
<1>4. QED BY <1>3, EmptySeq DEF HeadersSent

\* The width of a text between two others.
LEMMA WidthOfThree ==
  ASSUME NEW s \in Seq(Pieces), NEW t \in Seq(Pieces), NEW u \in Seq(Pieces)
  PROVE  /\ s \o t \o u \in Seq(Pieces)
         /\ Width(s \o t \o u) = Width(s) + Width(t) + Width(u)
         /\ Width(s) \in Nat /\ Width(t) \in Nat /\ Width(u) \in Nat
<1>1. s \o t \in Seq(Pieces) /\ Width(s \o t) = Width(s) + Width(t)
  BY ConcatProperties, WidthConcat
<1>2. (s \o t) \o u \in Seq(Pieces) /\ Width((s \o t) \o u) = Width(s \o t) + Width(u)
  BY <1>1, ConcatProperties, WidthConcat
<1>3. QED BY <1>1, <1>2, WidthTyped

LEMMA IdTyped ==
  ASSUME NEW r \in Requests
  PROVE  /\ IdText(r, PathOf(r)) \in Seq(Pieces)
         /\ r.op \in DeleteOps => Width(PathOf(r)) <= Width(IdText(r, PathOf(r)))
<1> DEFINE front == << Literal("slash"), <<"feed", r.feed>> >>
           list == << Literal("datastreams") >>
           one == << Literal("datastreams"), Literal("slash") >>
           path == PathOf(r)
<1>1. front \in Seq(Pieces) /\ list \in Seq(Pieces) /\ one \in Seq(Pieces) /\ <<>> \in Seq(Pieces)
  <2>1. /\ Literal("slash") \in Pieces /\ <<"feed", r.feed>> \in Pieces
        /\ Literal("datastreams") \in Pieces
    BY PiecesTyped, RequestParts
  <2>2. QED BY <2>1, EmptySeq
<1> HIDE DEF front, list, one
<1>2. IdText(r, path) = front \o (IF r.op \in FeedOps THEN <<>>
                                  ELSE IF r.op = "datastream_create" THEN list ELSE one \o path)
  BY DEF IdText, front, list, one
<1>3. r.op \notin FeedOps => path \in Seq(Pieces)
  BY PathTyped
<1> HIDE DEF path
<1>4. IdText(r, path) \in Seq(Pieces)
  BY <1>1, <1>2, <1>3, ConcatProperties
<1>5. ASSUME r.op \in DeleteOps PROVE Width(path) <= Width(IdText(r, path))
  <2>1. r.op \notin FeedOps /\ r.op # "datastream_create"
    BY <1>5 DEF DeleteOps, FeedOps
  <2>2. IdText(r, path) = front \o (one \o path) /\ path \in Seq(Pieces) /\ one \o path \in Seq(Pieces)
    BY <1>1, <1>2, <1>3, <2>1, ConcatProperties
  <2>3. Width(IdText(r, path)) = Width(front) + (Width(one) + Width(path))
    BY <1>1, <2>2, WidthConcat
  <2>4. Width(front) \in Nat /\ Width(one) \in Nat /\ Width(path) \in Nat
    BY <1>1, <2>2, WidthTyped
  <2>5. QED BY <2>3, <2>4
<1>6. QED BY <1>4, <1>5 DEF path

LEMMA QueryTyped ==
  ASSUME NEW r \in Requests
  PROVE  /\ QueryText(r, PathOf(r), Suffix(r)) \in Seq(Pieces)
         /\ Width(IdText(r, PathOf(r))) <= Width(QueryText(r, PathOf(r), Suffix(r)))
<1> DEFINE front == << Literal(Method(r.op)), Literal("path") >>
           id == IdText(r, PathOf(r))
           csvPart == << Literal("csv") >>
           suffix == Suffix(r)
           rest == << Literal("head"), <<"agent", AgentWidth>>, <<"key", r.key>> >>
           whole == QueryText(r, PathOf(r), Suffix(r))
<1>1. front \in Seq(Pieces)
  <2>1. Method(r.op) \in DOMAIN LiteralWidth
    BY PiecesTyped DEF Method
  <2>2. Literal(Method(r.op)) \in Pieces /\ Literal("path") \in Pieces
    BY <2>1, PiecesTyped
  <2>3. QED BY <2>2
<1>2. csvPart \in Seq(Pieces) /\ rest \in Seq(Pieces)
  <2>1. /\ Literal("csv") \in Pieces /\ Literal("head") \in Pieces
        /\ <<"agent", AgentWidth>> \in Pieces /\ <<"key", r.key>> \in Pieces
    BY PiecesTyped, RequestParts
  <2>2. QED BY <2>1
<1>3. id \in Seq(Pieces) /\ suffix \in Seq(Pieces)
  BY IdTyped, SuffixTyped
<1>4. whole = front \o id \o csvPart \o suffix \o rest
  BY DEF QueryText
<1> HIDE DEF front, id, csvPart, suffix, rest, whole
<1>5. /\ front \o id \o csvPart \in Seq(Pieces)
      /\ Width(front \o id \o csvPart) = Width(front) + Width(id) + Width(csvPart)
      /\ Width(front) \in Nat /\ Width(id) \in Nat /\ Width(csvPart) \in Nat
  BY <1>1, <1>2, <1>3, WidthOfThree
<1>6. /\ whole \in Seq(Pieces)
      /\ Width(whole) = Width(front \o id \o csvPart) + Width(suffix) + Width(rest)
      /\ Width(suffix) \in Nat /\ Width(rest) \in Nat
  <2> DEFINE first == front \o id \o csvPart
  <2>1. first \in Seq(Pieces) /\ whole = first \o suffix \o rest
    BY <1>4, <1>5
  <2> HIDE DEF first
  <2>2. /\ whole \in Seq(Pieces) /\ Width(whole) = Width(first) + Width(suffix) + Width(rest)
        /\ Width(suffix) \in Nat /\ Width(rest) \in Nat
    BY <1>2, <1>3, <2>1, WidthOfThree
  <2>3. QED BY <2>2 DEF first
<1>7. Width(id) <= Width(whole)
  <2>1. /\ Width(front) \in Nat /\ Width(id) \in Nat /\ Width(csvPart) \in Nat
        /\ Width(suffix) \in Nat /\ Width(rest) \in Nat
    BY <1>5, <1>6
  <2>2. Width(whole) = (Width(front) + Width(id) + Width(csvPart)) + Width(suffix) + Width(rest)
    BY <1>5, <1>6
  <2>3. QED BY <2>1, <2>2
<1>8. QED BY <1>6, <1>7 DEF id, whole

\* A request, and how wide it is.
LEMMA RequestWidth ==
  ASSUME NEW q \in Seq(Pieces), NEW c \in Seq(Pieces), NEW b \in Seq(Pieces)
  PROVE  /\ RequestText(q, c, b) \in Seq(Pieces)
         /\ Width(RequestText(q, c, b)) =
              Width(q) + Width(c) + (IF c = <<>> THEN 0 ELSE Width(b)) + 2 * Width(<< Literal("crlf") >>)
         /\ Width(q) \in Nat /\ Width(c) \in Nat /\ Width(b) \in Nat
         /\ Width(<< Literal("crlf") >>) \in Nat
<1> DEFINE crlf == << Literal("crlf") >>
           body == IF c = <<>> THEN <<>> ELSE b
<1>1. crlf \in Seq(Pieces) /\ body \in Seq(Pieces)
  <2>1. Literal("crlf") \in Pieces
    BY PiecesTyped
  <2>2. QED BY <2>1, EmptySeq
<1>2. Width(body) = IF c = <<>> THEN 0 ELSE Width(b)
  BY EmptyWidth
<1>3. RequestText(q, c, b) = q \o c \o crlf \o body \o crlf
  BY DEF RequestText
<1> HIDE DEF crlf, body
<1>4. /\ q \o c \o crlf \in Seq(Pieces)
      /\ Width(q \o c \o crlf) = Width(q) + Width(c) + Width(crlf)
      /\ Width(q) \in Nat /\ Width(c) \in Nat /\ Width(crlf) \in Nat
  BY <1>1, WidthOfThree
<1>5. /\ (q \o c \o crlf) \o body \o crlf \in Seq(Pieces)
      /\ Width((q \o c \o crlf) \o body \o crlf) = Width(q \o c \o crlf) + Width(body) + Width(crlf)
      /\ Width(body) \in Nat /\ Width(b) \in Nat
  <2> DEFINE first == q \o c \o crlf
  <2>1. first \in Seq(Pieces)
    BY <1>4
  <2> HIDE DEF first
  <2>2. /\ first \o body \o crlf \in Seq(Pieces)
        /\ Width(first \o body \o crlf) = Width(first) + Width(body) + Width(crlf)
        /\ Width(body) \in Nat
    BY <1>1, <2>1, WidthOfThree
  <2>3. QED BY <2>2, WidthTyped DEF first
<1>6. Width(RequestText(q, c, b)) =
        Width(q) + Width(c) + (IF c = <<>> THEN 0 ELSE Width(b)) + 2 * Width(crlf)
  BY <1>2, <1>3, <1>4, <1>5
<1>7. QED BY <1>3, <1>4, <1>5, <1>6 DEF crlf

\* The request is at least as wide as what is sent in its place, and as the
\* path in it.
LEMMA RequestIsWidest ==
  ASSUME NEW r \in Requests
  PROVE  /\ SentOf(r) \in Seq(Pieces)
         /\ Width(SentOf(r)) \in Nat /\ Width(RequestOf(r)) \in Nat
         /\ Width(SentOf(r)) <= Width(RequestOf(r))
         /\ r.op \in DeleteOps => /\ Width(PathOf(r)) \in Nat
                                  /\ Width(PathOf(r)) <= Width(RequestOf(r))
<1> DEFINE q == QueryText(r, PathOf(r), Suffix(r))
           full == IF r.op \in BodyOps THEN HeadersOf(r) ELSE <<>>
           sent == HeadersSent(r)
           b == BodyOf(r)
<1>1. /\ q \in Seq(Pieces) /\ full \in Seq(Pieces) /\ sent \in Seq(Pieces) /\ b \in Seq(Pieces)
      /\ sent = full \/ sent = <<>>
  BY QueryTyped, HeadersTyped, BodyTyped, EmptySeq DEF HeadersSent
<1>2. RequestOf(r) = RequestText(q, full, b) /\ SentOf(r) = RequestText(q, sent, b)
  BY DEF RequestOf, SentOf, Suffix, HeadersOf
<1>3. r.op \in DeleteOps => Width(PathOf(r)) \in Nat /\ Width(PathOf(r)) <= Width(q)
  <2> SUFFICES ASSUME r.op \in DeleteOps
               PROVE  Width(PathOf(r)) \in Nat /\ Width(PathOf(r)) <= Width(q)
    OBVIOUS
  <2>1. r.op \notin FeedOps
    BY RequestTyped
  <2>2. Width(PathOf(r)) \in Nat /\ Width(IdText(r, PathOf(r))) \in Nat /\ Width(q) \in Nat
    BY <1>1, <2>1, PathTyped, IdTyped, WidthTyped
  <2>3. Width(PathOf(r)) <= Width(IdText(r, PathOf(r))) /\ Width(IdText(r, PathOf(r))) <= Width(q)
    BY IdTyped, QueryTyped
  <2> HIDE DEF q
  <2>4. QED BY <2>2, <2>3
<1> HIDE DEF q, full, sent, b
<1> DEFINE crlf == Width(<< Literal("crlf") >>)
<1>4. /\ RequestText(q, sent, b) \in Seq(Pieces)
      /\ Width(RequestText(q, full, b)) =
           Width(q) + Width(full) + (IF full = <<>> THEN 0 ELSE Width(b)) + 2 * crlf
      /\ Width(RequestText(q, sent, b)) =
           Width(q) + Width(sent) + (IF sent = <<>> THEN 0 ELSE Width(b)) + 2 * crlf
      /\ Width(q) \in Nat /\ Width(full) \in Nat /\ Width(sent) \in Nat /\ Width(b) \in Nat /\ crlf \in Nat
  BY <1>1, RequestWidth
<1> HIDE DEF crlf
<1>5. Width(SentOf(r)) <= Width(RequestOf(r)) /\ Width(q) <= Width(RequestOf(r))
      /\ Width(SentOf(r)) \in Nat /\ Width(RequestOf(r)) \in Nat
  <2>1. CASE sent = full
    BY <1>2, <1>4, <2>1
  <2>2. CASE sent = <<>>
    BY <1>2, <1>4, <2>2, EmptyWidth
  <2>3. QED BY <1>1, <2>1, <2>2
<1>6. r.op \in DeleteOps => Width(PathOf(r)) <= Width(RequestOf(r))
  BY <1>3, <1>4, <1>5
<1>7. QED BY <1>2, <1>3, <1>4, <1>5, <1>6

-----------------------------------------------------------------------------
(***************************************************************************)
(* Types, and why an encoder returns 0                                     *)
(***************************************************************************)
LEMMA AreText ==
    /\ \A t \in Seq(Pieces) : t \in Text
    /\ Partial \in Text /\ <<>> \in Text
<1>1. Seq(Pieces) \subseteq Seq(Kinds \X Nat)
  BY PiecesAreText, SeqMonotonic
<1>2. <<"partial", 0>> \in Kinds \X Nat
  BY DEF Kinds
<1>3. QED BY <1>1, <1>2, EmptySeq DEF Text, Partial

LEMMA CodesTyped ==
    /\ NoErr \in Errs
    /\ {"XI_HTTP_CONSTRUCT_REQUEST_BUFFER_OVERRUN", "XI_HTTP_CONSTRUCT_CONTENT_BUFFER_OVERRUN",
        "XI_HTTP_ENCODE_CREATE_DATASTREAM", "XI_HTTP_ENCODE_UPDATE_FEED",
        "XI_HTTP_ENCODE_DELETE_DATAPOINT", "XI_HTTP_ENCODE_DELETE_RANGE_DATAPOINT",
        "XI_CSV_ENCODE_DATAPOINT_BUFFER_OVERRUN",
        "XI_CSV_ENCODE_DATASTREAM_BUFFER_OVERRUN"} \subseteq Errs
  BY DEF Errs, EncodeErrs

\* Every text of a request is a text of its pieces.
LEMMA TextsOfRequest ==
  ASSUME NEW r \in Requests
  PROVE  /\ Rows(r.rows) \in Text /\ StreamList(r.rows) \in Text
         /\ r.op \notin FeedOps => /\ Row(r.rows[1]) \in Text /\ Datapoint(r.rows[1]) \in Text
                                  /\ PathOf(r) \in Text
         /\ QueryText(r, PathOf(r), Suffix(r)) \in Text
         /\ HeadersOf(r) \in Text /\ SentOf(r) \in Text
<1>1. Rows(r.rows) \in Seq(Pieces) /\ StreamList(r.rows) \in Seq(Pieces)
  BY RequestParts, RowsTyped
<1>2. r.op \notin FeedOps => Row(r.rows[1]) \in Seq(Pieces) /\ Datapoint(r.rows[1]) \in Seq(Pieces)
  BY RequestParts, RowTyped
<1>3. QED BY <1>1, <1>2, PathTyped, QueryTyped, HeadersTyped, RequestIsWidest, AreText

\* Every buffer holds a text, and the register a code: for every size of the
\* buffers and every request.
THEOREM EncodeTypeCorrect == Spec => []TypeOK
<1>1. Init => TypeOK
  BY AreText, CodesTyped DEF Init, TypeOK
<1>2. TypeOK /\ EncodeInv /\ [Next]_vars => TypeOK'
  <2> SUFFICES ASSUME TypeOK, EncodeInv, [Next]_vars PROVE TypeOK'
    OBVIOUS
  <2> USE DEF TypeOK
  <2>0. req \in Requests
    OBVIOUS
  <2>1. ASSUME NEW r \in Requests, Call(r) PROVE TypeOK'
    BY <2>1 DEF Call, bufs
  <2>2. CASE GetLastError
    BY <2>2, CodesTyped DEF GetLastError, bufs
  <2>3. CASE EncodeCsv
    <3>1. req.op \notin FeedOps
      BY <2>3 DEF EncodeCsv, FeedOps
    <3>2. QED BY <2>3, <3>1, AreText, CodesTyped, TextsOfRequest DEF EncodeCsv, Store, ReturnNull
  <2>4. CASE EncodeFeed
    BY <2>4, AreText, CodesTyped, TextsOfRequest DEF EncodeFeed, Store, ReturnNull
  <2>5. CASE EncodePath
    <3>1. req.op \notin FeedOps
      BY <2>5 DEF EncodePath, FeedOps
    <3>2. QED BY <2>5, <3>1, AreText, CodesTyped, TextsOfRequest, PathEncoded DEF EncodePath, Store, ReturnNull
  <2>6. CASE ConstructQuery
    <3> DEFINE path == IF req.op \in DeleteOps THEN buffer ELSE << <<"id", req.rows[1].id>> >>
               suffix == IF req.op = "feed_get" THEN data ELSE <<>>
    <3>1. QueryText(req, path, suffix) \in Text
      BY <2>6, QueryUsed, TextsOfRequest DEF ConstructQuery
    <3>2. /\ query' \in {QueryText(req, path, suffix), Partial, query}
          /\ stage' \in {"content", "concat", "idle"}
          /\ result' \in {result, "null"}
          /\ err' \in {err, "XI_HTTP_CONSTRUCT_REQUEST_BUFFER_OVERRUN",
                       "XI_HTTP_CONSTRUCT_CONTENT_BUFFER_OVERRUN"}
          /\ UNCHANGED <<req, csv, data, content, buffer>>
      BY <2>6 DEF ConstructQuery, Store, ReturnNull
    <3>3. QED BY <3>1, <3>2, AreText, CodesTyped
  <2>7. CASE ConstructContent
    <3>1. req.op \in BodyOps /\ stage = "content"
      BY <2>7 DEF ConstructContent, EncodeInv
    <3>2. << <<"length", Width(Body(req))>> >> = HeadersOf(req)
      BY <3>1, BodyUsed DEF HeadersOf, EncodeInv
    <3>3. content' \in {HeadersOf(req), <<>>}
      BY <2>7, <3>2 DEF ConstructContent
    <3>4. QED BY <2>7, <3>3, AreText, CodesTyped, TextsOfRequest DEF ConstructContent
  <2>8. CASE Concat
    <3>1. buffer' \in {SentOf(req), Partial}
      BY <2>8, ConcatText DEF Concat
    <3>2. QED BY <2>8, <3>1, AreText, CodesTyped, TextsOfRequest DEF Concat, ReturnNull
  <2>9. CASE UNCHANGED vars
    BY <2>9 DEF vars, bufs
  <2>10. QED
    BY <2>1, <2>2, <2>3, <2>4, <2>5, <2>6, <2>7, <2>8, <2>9 DEF Next
<1>3. QED BY <1>1, <1>2, EncodeInvariant, PTL DEF Spec

\* There is room for every text of a call.
RoomFor(r) ==
    /\ Fits(BodyOf(r), IF r.op = "feed_update" THEN ContentBufferSize ELSE CsvBufferSize)
    /\ r.op = "feed_get" => Fits(StreamList(r.rows), ContentBufferSize)
    /\ Fits(IdText(r, PathOf(r)), IdBufferSize)
    /\ Fits(QueryText(r, PathOf(r), Suffix(r)), QueryBufferSize)
    /\ Fits(RequestOf(r), QueryBufferSize + ContentBufferSize)

\* An encoder returns 0 only if some buffer is too small for its own call,
\* whatever the static buffers were left with by the calls before.
THEOREM EncodeNullMeansTooLarge == Spec => []NullMeansTooLarge
<1> DEFINE Inv == result = "null" => ~RoomFor(req)
<1>1. Init => Inv
  BY DEF Init
<1>2. Inv /\ EncodeInv /\ [Next]_vars => Inv'
  <2> SUFFICES ASSUME Inv, EncodeInv, [Next]_vars PROVE Inv'
    OBVIOUS
  <2>0. req \in Requests
    BY DEF EncodeInv
  <2>1. ASSUME NEW r \in Requests, Call(r) PROVE Inv'
    BY <2>1 DEF Call
  <2>2. CASE GetLastError
    BY <2>2 DEF GetLastError
  <2>3. CASE EncodeCsv
    <3> SUFFICES ASSUME result' = "null" PROVE ~RoomFor(req)
      BY <2>3 DEF EncodeCsv, RoomFor
    <3>1. result = "none" /\ req.op # "feed_update" /\ ~Fits(BodyOf(req), CsvBufferSize)
      BY <2>3 DEF EncodeCsv, Store, EncodeInv, BodyOf
    <3>2. QED BY <3>1 DEF RoomFor
  <2>4. CASE EncodeFeed
    <3> SUFFICES ASSUME result' = "null" PROVE ~RoomFor(req)
      BY <2>4 DEF EncodeFeed, RoomFor
    <3>1. /\ result = "none" /\ req.op \in FeedOps
          /\ ~Fits(IF req.op = "feed_update" THEN Rows(req.rows) ELSE StreamList(req.rows),
                   ContentBufferSize)
      BY <2>4 DEF EncodeFeed, Store, EncodeInv
    <3>2. QED BY <3>1 DEF RoomFor, FeedOps, BodyOf
  <2>5. CASE EncodePath
    <3> SUFFICES ASSUME result' = "null" PROVE ~RoomFor(req)
      BY <2>5 DEF EncodePath, RoomFor
    <3>1. /\ result = "none" /\ req.op \in DeleteOps
          /\ ~Fits(PathOf(req), QueryBufferSize + ContentBufferSize)
      BY <2>5, PathEncoded DEF EncodePath, Store, EncodeInv, DeleteOps
    <3>2. ~Fits(RequestOf(req), QueryBufferSize + ContentBufferSize)
      BY <2>0, <3>1, RequestIsWidest, SizesPositive DEF Fits
    <3>3. QED BY <3>2 DEF RoomFor
  <2>6. CASE ConstructQuery
    <3> DEFINE path == IF req.op \in DeleteOps THEN buffer ELSE << <<"id", req.rows[1].id>> >>
               suffix == IF req.op = "feed_get" THEN data ELSE <<>>
    <3> SUFFICES ASSUME result' = "null" PROVE ~RoomFor(req)
      BY <2>6 DEF ConstructQuery, RoomFor
    <3>1. result = "none" /\ stage = "query"
      BY <2>6 DEF ConstructQuery, EncodeInv
    <3>2. ~Fits(IdText(req, path), IdBufferSize) \/ ~Fits(QueryText(req, path, suffix), QueryBufferSize)
      BY <2>6, <3>1 DEF ConstructQuery, Store
    <3>3. /\ IdText(req, path) = IdText(req, PathOf(req))
          /\ QueryText(req, path, suffix) = QueryText(req, PathOf(req), Suffix(req))
      BY <3>1, QueryUsed
    <3>4. QED BY <3>2, <3>3 DEF RoomFor
  <2>7. CASE ConstructContent
    BY <2>7 DEF ConstructContent, RoomFor
  <2>8. CASE Concat
    <3> SUFFICES ASSUME result' = "null" PROVE ~RoomFor(req)
      BY <2>8 DEF Concat, RoomFor
    <3>1. ~Fits(SentOf(req), QueryBufferSize + ContentBufferSize)
      BY <2>8, ConcatText DEF Concat
    <3>2. ~Fits(RequestOf(req), QueryBufferSize + ContentBufferSize)
      BY <2>0, <3>1, RequestIsWidest, SizesPositive DEF Fits
    <3>3. QED BY <3>2 DEF RoomFor
  <2>9. CASE UNCHANGED vars
    BY <2>9 DEF vars, RoomFor
  <2>10. QED
    BY <2>1, <2>2, <2>3, <2>4, <2>5, <2>6, <2>7, <2>8, <2>9 DEF Next
<1>3. Inv => NullMeansTooLarge
  BY DEF NullMeansTooLarge, RoomFor, Suffix
<1>4. QED BY <1>1, <1>2, <1>3, EncodeInvariant, PTL DEF Spec
=============================================================================

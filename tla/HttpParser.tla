----------------------------- MODULE HttpParser -----------------------------
(***************************************************************************)
(* parse_http (http_layer_parser.c) over the one static response of        *)
(* http_decode_reply: the end of the head is looked for, the status line   *)
(* and the header lines are parsed one after the other, an error found in  *)
(* the register is forwarded, the content is copied.  One action is one    *)
(* iteration of the header loop.                                           *)
(*                                                                         *)
(* A line of the head is a name and what parse_http_header makes of the    *)
(* rest.  It always skips two characters behind the name, so a value       *)
(* without a blank before it loses its first character, and behind         *)
(* "Name:" CRLF the skip is beyond the end of the line: its length is -1.  *)
(* A line without a colon, and a name or a value of 64 characters or more, *)
(* are rejected.                                                           *)
(***************************************************************************)
EXTENDS XiErr, Naturals, Sequences

CONSTANTS
    MaxHeaders,  \* XI_HTTP_MAX_HEADERS
    Replies      \* the replies that are parsed: see ReplyShape

VARIABLES
    reply,      \* the text being parsed, or parsed last
    stage,      \* "idle", "headers", "forward", or "gone": stopped for good
    at,         \* the header line ptr points to
    response,   \* the static http_response_t
    result,     \* what parse_http returned; "none" before and once 0 is explained
    err,        \* the error register
    clear       \* history: it was clear when parse_http was called

vars == <<reply, stage, at, response, result, err, clear>>

-----------------------------------------------------------------------------
(***************************************************************************)
(* Header types and names                                                  *)
(***************************************************************************)
\* http_header_type_t, in the order of its enumerators.
HeaderTypes ==
    <<"DATE", "CONTENT_TYPE", "CONTENT_LENGTH", "CONNECTION", "X_REQUEST_ID",
      "CACHE_CONTROL", "VARY", "COUNT", "AGE", "UNKNOWN">>

\* XI_HTTP_TOKEN_NAMES, indexed by the same numbers.
TokenNames ==
    <<"date", "content-type", "content-length", "connection", "x-request-id",
      "cache-control", "age", "vary", "unknown">>

HEADER_COUNT == 7    \* value of the enumerator XI_HTTP_HEADER_COUNT

\* The search stops before the last two names it could find.
classify_header(name) ==
    IF \E i \in 1 .. HEADER_COUNT - 1 : TokenNames[i] = name
    THEN HeaderTypes[CHOOSE i \in 1 .. HEADER_COUNT - 1 : TokenNames[i] = name]
    ELSE "UNKNOWN"

Types == {HeaderTypes[i] : i \in DOMAIN HeaderTypes}

-----------------------------------------------------------------------------
\* head: status line, header lines, whether the blank line is there; content.
Statuses == {"good", "no reason", "bad"}
\* Of what parse_http_header makes a header, and what it refuses.
Taken == {"none", "no blank"}
Refused == {"no colon", "long name", "long value"}
Flaws == Taken \cup Refused \cup {"no value"}

LineShape(line) == line.flaw \in Flaws
ReplyShape(r) ==
    /\ r.status \in Statuses
    /\ \A i \in DOMAIN r.lines : LineShape(r.lines[i])
    /\ r.blank \in BOOLEAN

ASSUME ParserAssumption ==
    /\ MaxHeaders \in Nat \ {0}
    /\ \A r \in Replies : ReplyShape(r) /\ r.lines \in Seq([name : STRING, flaw : Flaws])

\* The response after memset and the reading of the status line.
Wiped(status) == [status |-> status, headers |-> <<>>,
                  checklist |-> [t \in Types |-> 0], content |-> ""]

\* Before the first call.
NoReply == [status |-> "bad", lines |-> <<>>, blank |-> FALSE, content |-> ""]

Init ==
    /\ reply = NoReply
    /\ stage = "idle"
    /\ at = 1
    /\ response = Wiped("")
    /\ result = "none"
    /\ err = NoErr
    /\ clear = TRUE

ReturnNull(code) ==
    /\ stage' = "idle"
    /\ result' = "null"
    /\ err' = code

\* Mutant: the response is only wiped when the head is complete.
ParseHeadLazily(r) ==
    /\ stage = "idle"
    /\ reply' = r /\ clear' = (err = NoErr) /\ at' = 1
    /\ response' = [response EXCEPT !.status = r.status]
    /\ IF r.blank /\ r.status # "bad"
       THEN stage' = "headers" /\ UNCHANGED <<result, err>>
       ELSE ReturnNull("XI_HTTP_PARSE_ERROR")

\* parse_http up to the loop.  sscanf takes a status line without a reason,
\* the blanks of its pattern match the end of the line and the reason is what
\* follows, unless nothing does.
ParseHead(r) ==
    /\ stage = "idle"
    /\ reply' = r
    /\ clear' = (err = NoErr)
    /\ at' = 1
    /\ IF /\ r.blank
          /\ \/ r.status = "good"
             \/ r.status = "no reason" /\ (r.lines # <<>> \/ r.content # "")
       THEN /\ response' = Wiped(r.status)
            /\ stage' = "headers"
            /\ UNCHANGED <<result, err>>
       ELSE /\ response' = Wiped("")
            /\ ReturnNull("XI_HTTP_PARSE_ERROR")

\* What a line becomes: its name, its type and how much of its value is kept.
HeaderOf(line) == [name |-> line.name, type |-> classify_header(line.name),
                   value |-> IF line.flaw = "no blank" THEN "cut" ELSE "whole"]

\* Mutant: an entry of the checklist that is set stays.
AddHeaderOnce(resp, line) ==
    LET t == classify_header(line.name)
        n == Len(resp.headers) + 1
    IN  [resp EXCEPT !.headers = Append(@, HeaderOf(line)),
                     !.checklist[t] = IF t = "UNKNOWN" \/ @ # 0 THEN @ ELSE n]

\* The header becomes the last of the list and, unless its type is unknown,
\* the one the checklist leads to.
AddHeader(resp, line) ==
    LET t == classify_header(line.name)
        n == Len(resp.headers) + 1
    IN  [status |-> resp.status,
         headers |-> Append(resp.headers, HeaderOf(line)),
         checklist |-> IF t = "UNKNOWN" THEN resp.checklist
                       ELSE [resp.checklist EXCEPT ![t] = n],
         content |-> resp.content]

\* Mutant: the list may be filled.
TooManyLate(size) == size > MaxHeaders

\* One place of the list always stays free.
TooMany(size) == size >= MaxHeaders

HeaderError ==
    /\ stage' = "forward"
    /\ err' = "XI_HTTP_HEADER_PARSE_ERROR"

\* parse_http_header on a line it takes; the header that is one too many
\* is in the list when the error is noticed.
AcceptHeader ==
    /\ stage = "headers"
    /\ at <= Len(reply.lines)
    /\ reply.lines[at].flaw \in Taken
    /\ response' = AddHeader(response, reply.lines[at])
    /\ IF TooMany(Len(response'.headers))
       THEN HeaderError /\ UNCHANGED at
       ELSE /\ at' = at + 1
            /\ stage' = IF at = Len(reply.lines) THEN "forward" ELSE "headers"
            /\ UNCHANGED err
    /\ UNCHANGED <<reply, result, clear>>

\* It stops at a line it refuses; a head without headers makes it look at the
\* blank line, which has no colon before its end.
RejectHeader ==
    /\ stage = "headers"
    /\ at <= Len(reply.lines) => reply.lines[at].flaw \in Refused
    /\ HeaderError
    /\ UNCHANGED <<reply, at, response, result, clear>>

\* The length -1 passes the test against 63, which is signed, and is a size_t
\* for memcpy: the copy has no end in memory, and the call does not return.
HeaderWithoutValue ==
    /\ stage = "headers"
    /\ at <= Len(reply.lines)
    /\ reply.lines[at].flaw = "no value"
    /\ stage' = "gone"
    /\ UNCHANGED <<reply, at, response, result, err, clear>>

\* Mutant: the register is asked, and so cleared, but the answer is not used.
ForwardForgets ==
    /\ stage = "forward"
    /\ stage' = "idle"
    /\ result' = "response"
    /\ err' = NoErr
    /\ response' = [response EXCEPT !.content = reply.content]
    /\ UNCHANGED <<reply, at, clear>>

\* Mutant: the error is returned but the register stays as xi_get_last_error
\* left it.
ForwardClears ==
    /\ stage = "forward"
    /\ stage' = "idle"
    /\ result' = IF err = NoErr THEN "response" ELSE "null"
    /\ err' = NoErr
    /\ response' = IF err = NoErr THEN [response EXCEPT !.content = reply.content]
                   ELSE response
    /\ UNCHANGED <<reply, at, clear>>

WithContent(resp, text) ==
    [status |-> resp.status, headers |-> resp.headers,
     checklist |-> resp.checklist, content |-> text]

\* After the loop, whatever ended it: the register decides.  It may hold an
\* error from before the call.
Forward ==
    /\ stage = "forward"
    /\ IF err = NoErr
       THEN /\ response' = WithContent(response, reply.content)
            /\ stage' = "idle"
            /\ result' = "response"
            /\ UNCHANGED err
       ELSE /\ ReturnNull(err)
            /\ UNCHANGED response
    /\ UNCHANGED <<reply, at, clear>>

\* Between calls the program reads the register, or closing the connection
\* after a good reply sets it.
GetLastError ==
    /\ stage = "idle"
    /\ err' = NoErr
    /\ result' = IF result = "null" THEN "none" ELSE result
    /\ UNCHANGED <<reply, stage, at, response, clear>>

CloseFails ==
    /\ stage = "idle"
    /\ err' \in CloseErrs
    /\ UNCHANGED <<reply, stage, at, response, result, clear>>

Next ==
    \/ \E r \in Replies : ParseHead(r)
    \/ AcceptHeader \/ RejectHeader \/ HeaderWithoutValue \/ Forward
    \/ GetLastError \/ CloseFails

Spec == Init /\ [][Next]_vars
-----------------------------------------------------------------------------
(***************************************************************************)
(* Properties                                                              *)
(***************************************************************************)
Contents == {r.content : r \in Replies} \cup {""}

Headers == [name : STRING, type : Types, value : {"whole", "cut"}]

Responses == [status : Statuses \cup {""},
              headers : Seq(Headers),
              checklist : [Types -> 0 .. MaxHeaders],
              content : Contents]

\* Includes that no header is written beyond the end of the list.
TypeOK ==
    /\ reply \in Replies \cup {NoReply}
    /\ stage \in {"idle", "headers", "forward", "gone"}
    /\ at \in Nat \ {0}
    /\ response \in Responses
    /\ Len(response.headers) <= MaxHeaders
    /\ result \in {"none", "response", "null"}
    /\ err \in Errs
    /\ clear \in BOOLEAN

\* The one static response never shows a header of an earlier reply: at every
\* moment its list is a beginning of the head being parsed, also after a reply
\* was rejected half-way (http_layer_parser.c:160), with whole values but where
\* the blank is missing (line 107).
OnlyThisReply ==
    /\ Len(response.headers) <= Len(reply.lines)
    /\ \A i \in DOMAIN response.headers :
          /\ response.headers[i].name = reply.lines[i].name
          /\ response.headers[i].value = "whole" <=> reply.lines[i].flaw = "none"

\* The entry of the checklist for a type leads to the last header of that
\* type, and there is one exactly if there is such a header; types the parser
\* does not know have none (http_layer_parser.c:131-138).
ChecklistLeads ==
    \A t \in Types \ {"UNKNOWN"} :
        LET c == response.checklist[t]
            n == Len(response.headers)
        IN  /\ c = 0 \/ (c \in 1 .. n /\ response.headers[c].type = t)
            /\ \A i \in c + 1 .. n : response.headers[i].type # t

\* A reply parse_http makes a response of, ...
Acceptable(r) ==
    /\ r.blank /\ r.status # "bad"
    /\ r.lines # <<>> /\ Len(r.lines) < MaxHeaders
    /\ \A i \in DOMAIN r.lines : r.lines[i].flaw \in Taken

\* ... and one it does not return from: it comes to a line without a value
\* while there is a place in the list.
Losing(r) ==
    /\ r.blank /\ r.status # "bad"
    /\ \E i \in DOMAIN r.lines :
          /\ i <= MaxHeaders
          /\ r.lines[i].flaw = "no value"
          /\ \A j \in 1 .. i - 1 : r.lines[j].flaw \in Taken

\* With the register clear when it is called, parse_http returns a response
\* for exactly the acceptable replies, with all headers and the content; else
\* it returns 0 for every reply, but does not return from a losing one, and
\* from no other.
AcceptsExactly ==
    /\ stage = "gone" => Losing(reply)
    /\ stage = "idle" =>
        /\ ~Losing(reply)
        /\ result = "response" =>
              /\ clear /\ Acceptable(reply)
              /\ Len(response.headers) = Len(reply.lines)
              /\ response.content = reply.content
        /\ result = "null" /\ clear => ~Acceptable(reply)

\* When parse_http returned 0 the register says why until it is read
\* (xi_err.h:10), although parse_http itself reads it.
NullMeansError == stage = "idle" /\ result = "null" => err # NoErr
=============================================================================

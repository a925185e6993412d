-------------------------- MODULE HttpParserProofs --------------------------
(***************************************************************************)
(* For any set of replies and any size of the header list: the parser      *)
(* returns a response for exactly the acceptable replies and does not      *)
(* return from exactly the losing ones, and the static response never      *)
(* mixes two replies.                                                      *)
(***************************************************************************)
EXTENDS HttpParser, SequenceTheorems, TLAPS

\* In the loop the list is the beginning of the head that ends before at.
LoopInv ==
    stage = "headers" =>
        /\ at = Len(response.headers) + 1
        /\ Len(response.headers) < MaxHeaders
        /\ reply.lines = <<>> \/ at <= Len(reply.lines)
        /\ \A i \in 1 .. at - 1 : reply.lines[i].flaw \in Taken
        /\ reply.blank /\ reply.status # "bad"
        /\ err = NoErr <=> clear

\* After it the register is clear only if it was, and the reply acceptable;
\* whoever comes here was not losing.
ForwardInv ==
    stage = "forward" =>
        /\ ~Losing(reply)
        /\ err = NoErr => /\ clear /\ Acceptable(reply)
                          /\ Len(response.headers) = Len(reply.lines)
        /\ err # NoErr /\ clear => ~Acceptable(reply)

ParserInv ==
    /\ TypeOK /\ OnlyThisReply /\ ChecklistLeads
    /\ LoopInv /\ ForwardInv /\ AcceptsExactly /\ NullMeansError
-----------------------------------------------------------------------------
LEMMA ClassifiedIsType == \A name : classify_header(name) \in Types
  BY DEF classify_header, Types, HeaderTypes, TokenNames, HEADER_COUNT

LEMMA RoomForHeaders ==
    MaxHeaders \in Nat /\ MaxHeaders > 0 /\ 0 \in 0 .. MaxHeaders
  BY ParserAssumption

LEMMA CodesAreApart ==
    /\ NoErr \notin CloseErrs /\ CloseErrs \subseteq Errs
    /\ "XI_HTTP_PARSE_ERROR" \in Errs /\ "XI_HTTP_HEADER_PARSE_ERROR" \in Errs
    /\ NoErr \in Errs
    /\ "XI_HTTP_PARSE_ERROR" # NoErr /\ "XI_HTTP_HEADER_PARSE_ERROR" # NoErr
  BY DEF CloseErrs, Errs, NoErr, ParseErrs

LEMMA RepliesAreTyped ==
  ASSUME NEW r \in Replies \cup {NoReply}
  PROVE  /\ r.lines \in Seq([name : STRING, flaw : Flaws])
         /\ r.blank \in BOOLEAN /\ r.status \in Statuses
         /\ r.content \in Contents
<1>1. CASE r \in Replies
  BY <1>1, ParserAssumption DEF ReplyShape, Contents
<1>2. CASE r = NoReply
  <2>1. <<>> \in Seq([name : STRING, flaw : Flaws])
    OBVIOUS
  <2>2. /\ NoReply.lines = <<>> /\ NoReply.blank = FALSE
        /\ NoReply.status = "bad" /\ NoReply.content = ""
    BY DEF NoReply
  <2> QED
    BY <1>2, <2>1, <2>2 DEF Statuses, Contents
<1> QED
  BY <1>1, <1>2

\* The values the parts of a response have.
LEMMA ResponseParts ==
  ASSUME NEW resp \in Responses
  PROVE  /\ resp.status \in Statuses \cup {""} /\ resp.content \in Contents
         /\ resp.headers \in Seq(Headers) /\ Len(resp.headers) \in Nat
         /\ DOMAIN resp.headers = 1 .. Len(resp.headers)
         /\ resp.checklist \in [Types -> 0 .. MaxHeaders]
<1>1. /\ resp.status \in Statuses \cup {""} /\ resp.content \in Contents
      /\ resp.headers \in Seq(Headers)
      /\ resp.checklist \in [Types -> 0 .. MaxHeaders]
  BY DEF Responses
<1> QED
  BY <1>1, LenProperties

\* A wiped response has no header, whatever its status.
LEMMA WipedIsResponse ==
  ASSUME NEW s \in Statuses \cup {""}, NEW resp, resp = Wiped(s)
  PROVE  /\ resp \in Responses /\ Len(resp.headers) = 0
         /\ \A t \in Types : resp.checklist[t] = 0
         /\ resp.content = ""
<1>1. /\ resp.headers = <<>> /\ resp.content = ""
      /\ resp.checklist = [t \in Types |-> 0]
  BY DEF Wiped
<1>2. <<>> \in Seq(Headers) /\ Len(<<>>) = 0
  BY EmptySeq
<1>3. [t \in Types |-> 0] \in [Types -> 0 .. MaxHeaders]
  BY RoomForHeaders, Zenon
<1>4. "" \in Contents
  BY DEF Contents
<1>5. resp \in Responses
  BY <1>2, <1>3, <1>4 DEF Wiped, Responses
<1> QED
  BY <1>1, <1>2, <1>5

\* What parse_http_header does to a list with room: the header is the last of
\* the list and the entry of its type leads to it; the rest stays.
Extended(new, old, n, line) ==
    /\ new \in Responses
    /\ Len(new.headers) = n + 1
    /\ \A i \in 1 .. n : new.headers[i] = old.headers[i]
    /\ new.headers[n + 1].name = line.name
    /\ new.headers[n + 1].type = classify_header(line.name)
    /\ new.headers[n + 1].value = "whole" <=> line.flaw # "no blank"
    /\ \A t \in Types \ {"UNKNOWN"} :
          new.checklist[t] = IF t = classify_header(line.name)
                             THEN n + 1 ELSE old.checklist[t]

LEMMA AddHeaderEffect ==
  ASSUME NEW resp \in Responses, Len(resp.headers) < MaxHeaders,
         NEW line, line.name \in STRING,
         NEW n, n = Len(resp.headers),
         NEW new, new = AddHeader(resp, line)
  PROVE  Extended(new, resp, n, line)
<1> DEFINE c == classify_header(line.name)
           h == Append(resp.headers, HeaderOf(line))
           l == IF c = "UNKNOWN" THEN resp.checklist
                ELSE [resp.checklist EXCEPT ![c] = n + 1]
<1>1. c \in Types /\ MaxHeaders \in Nat /\ n \in Nat
  BY ClassifiedIsType, RoomForHeaders, ResponseParts
<1>2. new = [status |-> resp.status, headers |-> h,
             checklist |-> l, content |-> resp.content]
  BY DEF AddHeader
<1> HIDE DEF c
<1>3. /\ h \in Seq(Headers) /\ Len(h) = n + 1
      /\ \A i \in 1 .. n : h[i] = resp.headers[i]
      /\ h[n + 1] = HeaderOf(line)
  <2>1. HeaderOf(line) \in Headers
    BY <1>1 DEF Headers, HeaderOf, c
  <2>2. resp.headers \in Seq(Headers)
    BY ResponseParts
  <2> DEFINE header == HeaderOf(line)
  <2> HIDE DEF header
  <2>3. /\ Append(resp.headers, header) \in Seq(Headers)
        /\ Len(Append(resp.headers, header)) = Len(resp.headers) + 1
        /\ \A i \in 1 .. Len(resp.headers) :
              Append(resp.headers, header)[i] = resp.headers[i]
        /\ Append(resp.headers, header)[Len(resp.headers) + 1] = header
    BY <2>1, <2>2, AppendProperties DEF header
  <2> QED
    BY <2>3 DEF header
<1>4. n + 1 \in 0 .. MaxHeaders
  BY <1>1
<1>5. l \in [Types -> 0 .. MaxHeaders]
  BY <1>1, <1>4, ResponseParts
<1>6. \A t \in Types \ {"UNKNOWN"} :
          l[t] = IF t = c THEN n + 1 ELSE resp.checklist[t]
  BY <1>1, ResponseParts
<1> HIDE DEF h, l
<1>7. new \in Responses
  BY <1>2, <1>3, <1>5, ResponseParts DEF Responses
<1>8. new.headers = h /\ new.checklist = l
  BY <1>2
<1>9. /\ HeaderOf(line).name = line.name /\ HeaderOf(line).type = c
      /\ HeaderOf(line).value = "whole" <=> line.flaw # "no blank"
  BY DEF HeaderOf, c
<1> QED
  BY <1>3, <1>6, <1>7, <1>8, <1>9 DEF c, Extended
-----------------------------------------------------------------------------
LEMMA FirstBehind ==
  ASSUME NEW k \in Nat, NEW m \in Nat, NEW i \in 1 .. m, i \notin 1 .. k
  PROVE  /\ i \in Nat /\ k < i /\ k < m
         /\ i # k + 1 => k + 1 \in 1 .. i - 1
         /\ \A max \in Nat : i <= max => ~(k >= max)
  OBVIOUS

\* A head whose first k lines are taken is not losing if the loop ends there:
\* no place, no line, or a line that is refused.
LEMMA NotLosing ==
  ASSUME NEW r, r.lines \in Seq([name : STRING, flaw : Flaws]),
         NEW k \in Nat, \A j \in 1 .. k : r.lines[j].flaw \in Taken,
         \/ k >= MaxHeaders
         \/ k >= Len(r.lines)
         \/ k + 1 \in DOMAIN r.lines /\ r.lines[k + 1].flaw \in Refused
  PROVE  ~Losing(r)
<1>1. SUFFICES ASSUME NEW i \in DOMAIN r.lines, i <= MaxHeaders,
                      r.lines[i].flaw = "no value",
                      \A j \in 1 .. i - 1 : r.lines[j].flaw \in Taken
               PROVE  FALSE
  BY DEF Losing
<1>2. r.lines[i].flaw \notin Taken /\ r.lines[i].flaw \notin Refused
  BY <1>1 DEF Taken, Refused
<1>3. DOMAIN r.lines = 1 .. Len(r.lines) /\ Len(r.lines) \in Nat
  BY LenProperties
<1>4. i \notin 1 .. k /\ i \in 1 .. Len(r.lines)
  BY <1>2, <1>3, Zenon
<1>5. /\ i \in Nat /\ k < i /\ k < Len(r.lines)
      /\ i # k + 1 => k + 1 \in 1 .. i - 1
      /\ \A max \in Nat : i <= max => ~(k >= max)
  BY <1>3, <1>4, FirstBehind, Zenon
<1>6. CASE k >= MaxHeaders
  BY <1>1, <1>5, <1>6, RoomForHeaders, Zenon
<1>7. CASE k >= Len(r.lines)
  BY <1>3, <1>5, <1>7
<1>8. CASE r.lines[k + 1].flaw \in Refused
  <2>1. i # k + 1
    BY <1>2, <1>8
  <2>2. r.lines[k + 1].flaw \in Taken
    BY <1>1, <1>5, <2>1
  <2> QED
    BY <1>8, <2>2 DEF Taken, Refused
<1> QED
  BY <1>6, <1>7, <1>8
-----------------------------------------------------------------------------
\* What the invariant says of the response and of the lines.
LEMMA PartsOfState ==
  ASSUME TypeOK
  PROVE  /\ response.headers \in Seq(Headers) /\ Len(response.headers) \in Nat
         /\ DOMAIN response.headers = 1 .. Len(response.headers)
         /\ response.checklist \in [Types -> 0 .. MaxHeaders]
         /\ response.status \in Statuses \cup {""}
         /\ reply.lines \in Seq([name : STRING, flaw : Flaws])
         /\ Len(reply.lines) \in Nat /\ DOMAIN reply.lines = 1 .. Len(reply.lines)
         /\ reply.content \in Contents
         /\ at \in Nat
<1>1. response \in Responses /\ reply \in Replies \cup {NoReply} /\ at \in Nat
  BY DEF TypeOK
<1>2. reply.lines \in Seq([name : STRING, flaw : Flaws]) /\ reply.content \in Contents
  BY <1>1, RepliesAreTyped
<1> QED
  BY <1>1, <1>2, ResponseParts, LenProperties

LEMMA ParserInvInit == Init => ParserInv
<1> SUFFICES ASSUME Init PROVE ParserInv
  OBVIOUS
<1>1. /\ response \in Responses /\ Len(response.headers) = 0
      /\ \A t \in Types : response.checklist[t] = 0
  BY WipedIsResponse DEF Init
<1>2. TypeOK
  <2>1. Len(response.headers) <= MaxHeaders
    BY <1>1, RoomForHeaders
  <2>2. 1 \in Nat \ {0}
    OBVIOUS
  <2> QED
    BY <1>1, <2>1, <2>2, CodesAreApart, Zenon DEF Init, TypeOK
<1>3. OnlyThisReply /\ ChecklistLeads
  <2>1. /\ DOMAIN response.headers = 1 .. 0
        /\ Len(reply.lines) \in Nat
    BY <1>1, <1>2, PartsOfState
  <2>2. OnlyThisReply
    BY <1>1, <2>1 DEF OnlyThisReply
  <2>3. ChecklistLeads
    BY <1>1 DEF ChecklistLeads
  <2> QED
    BY <2>2, <2>3
<1> QED
  BY <1>2, <1>3
  DEF ParserInv, LoopInv, ForwardInv, AcceptsExactly, NullMeansError, Init, Losing, NoReply

LEMMA ParseHeadStep ==
  ASSUME ParserInv, NEW r \in Replies, ParseHead(r)
  PROVE  ParserInv'
<1>1. /\ r.lines \in Seq([name : STRING, flaw : Flaws])
      /\ Len(r.lines) \in Nat /\ DOMAIN r.lines = 1 .. Len(r.lines)
      /\ r.blank \in BOOLEAN /\ r.status \in Statuses
      /\ r.lines = <<>> \/ Len(r.lines) # 0
  BY RepliesAreTyped, LenProperties, EmptySeq
<1>2. /\ response' \in Responses /\ Len(response'.headers) = 0
      /\ \A t \in Types : response'.checklist[t] = 0
  BY <1>1, WipedIsResponse DEF ParseHead
<1>3. DOMAIN response'.headers = 1 .. 0
  BY <1>2, ResponseParts
<1>4. reply' = r /\ at' = 1 /\ clear' = (err = NoErr) /\ stage = "idle"
  BY DEF ParseHead
<1>5. \/ stage' = "headers" /\ r.blank /\ r.status # "bad" /\ UNCHANGED <<result, err>>
      \/ /\ stage' = "idle" /\ result' = "null" /\ err' = "XI_HTTP_PARSE_ERROR"
         /\ ~Acceptable(r) /\ ~Losing(r)
  <2>1. r.lines = <<>> => ~Acceptable(r) /\ ~Losing(r)
    BY DEF Acceptable, Losing
  <2>2. ~r.blank \/ r.status = "bad" => ~Acceptable(r) /\ ~Losing(r)
    BY DEF Acceptable, Losing
  <2>3. \/ stage' = "headers" /\ r.blank /\ r.status # "bad" /\ UNCHANGED <<result, err>>
        \/ /\ stage' = "idle" /\ result' = "null" /\ err' = "XI_HTTP_PARSE_ERROR"
           /\ r.lines = <<>> \/ ~r.blank \/ r.status = "bad"
    BY <1>1 DEF ParseHead, ReturnNull, Statuses
  <2> QED
    BY <2>1, <2>2, <2>3, Zenon
<1>6. TypeOK'
  BY <1>2, <1>4, <1>5, CodesAreApart, RoomForHeaders DEF ParserInv, TypeOK
<1>7. OnlyThisReply' /\ ChecklistLeads'
  BY <1>1, <1>2, <1>3, <1>4 DEF OnlyThisReply, ChecklistLeads
<1>8. LoopInv'
  <2>1. /\ at' = Len(response'.headers) + 1 /\ Len(response'.headers) < MaxHeaders
        /\ reply'.lines = <<>> \/ at' <= Len(reply'.lines)
        /\ \A i \in 1 .. at' - 1 : reply'.lines[i].flaw \in Taken
    BY <1>1, <1>2, <1>4, RoomForHeaders
  <2> QED
    BY <1>4, <1>5, <2>1, Zenon DEF LoopInv
<1>9. AcceptsExactly' /\ NullMeansError' /\ ForwardInv'
  BY <1>4, <1>5, CodesAreApart DEF AcceptsExactly, NullMeansError, ForwardInv
<1> QED
  BY <1>6, <1>7, <1>8, <1>9 DEF ParserInv

LEMMA AcceptHeaderStep ==
  ASSUME ParserInv, AcceptHeader
  PROVE  ParserInv'
<1> DEFINE n == Len(response.headers)
           name == reply.lines[at].name
           m == Len(reply.lines)
<1>1. /\ TypeOK /\ OnlyThisReply /\ ChecklistLeads
      /\ at = n + 1 /\ n < MaxHeaders /\ at <= m /\ n \in Nat /\ m \in Nat
      /\ \A i \in 1 .. n : reply.lines[i].flaw \in Taken
      /\ reply.lines[at].flaw \in Taken
      /\ reply.blank /\ reply.status # "bad" /\ (err = NoErr <=> clear)
  <2>1. TypeOK /\ OnlyThisReply /\ ChecklistLeads /\ LoopInv
    BY DEF ParserInv
  <2>2. stage = "headers" /\ at <= m /\ reply.lines[at].flaw \in Taken
    BY DEF AcceptHeader
  <2>3. n \in Nat /\ m \in Nat
    BY <2>1, PartsOfState
  <2>4. /\ at = n + 1 /\ n < MaxHeaders
        /\ reply.blank /\ reply.status # "bad" /\ (err = NoErr <=> clear)
        /\ \A i \in 1 .. at - 1 : reply.lines[i].flaw \in Taken
    BY <2>1, <2>2 DEF LoopInv
  <2>5. at - 1 = n
    BY <2>3, <2>4
  <2> HIDE DEF n, m
  <2> QED
    BY <2>1, <2>2, <2>3, <2>4, <2>5
<1>2. name \in STRING /\ response \in Responses /\ reply.lines # <<>>
  <2>1. reply.lines[at] \in [name : STRING, flaw : Flaws]
    <3>1. reply.lines \in Seq([name : STRING, flaw : Flaws])
      BY <1>1, PartsOfState
    <3> HIDE DEF n, m
    <3>2. at \in 1 .. m
      BY <1>1
    <3> QED
      BY <3>1, <3>2, ElementOfSeq DEF m
  <2> QED
    BY <1>1, <2>1, EmptySeq DEF TypeOK
<1>3. response' = AddHeader(response, reply.lines[at]) /\ UNCHANGED <<reply, result, clear>>
  BY DEF AcceptHeader
<1>4. /\ response' \in Responses /\ Len(response'.headers) = n + 1
      /\ \A i \in 1 .. n : response'.headers[i] = response.headers[i]
      /\ response'.headers[n + 1].name = name
      /\ response'.headers[n + 1].type = classify_header(name)
      /\ response'.headers[n + 1].value = "whole" <=> reply.lines[at].flaw # "no blank"
      /\ \A t \in Types \ {"UNKNOWN"} :
            response'.checklist[t] = IF t = classify_header(name)
                                     THEN n + 1 ELSE response.checklist[t]
  <2> DEFINE line == reply.lines[at]
  <2>1. line.name \in STRING /\ response \in Responses
        /\ Len(response.headers) < MaxHeaders
    BY <1>1, <1>2
  <2> HIDE DEF line, n, name
  <2>2. response' = AddHeader(response, line) /\ n = Len(response.headers)
    BY <1>3 DEF line, n
  <2>3. Extended(response', response, n, line)
    BY <2>1, <2>2, AddHeaderEffect, Zenon
  <2> QED
    BY <2>3, Zenon DEF Extended, name, line
<1>5. DOMAIN response'.headers = 1 .. n + 1 /\ DOMAIN response.headers = 1 .. n
  BY <1>1, <1>4, ResponseParts, PartsOfState
<1>6. \/ /\ stage' = "forward" /\ err' = "XI_HTTP_HEADER_PARSE_ERROR" /\ at' = at
         /\ n + 1 >= MaxHeaders
      \/ /\ stage' = "forward" /\ err' = err /\ at' = at + 1
         /\ at = m /\ n + 1 < MaxHeaders
      \/ /\ stage' = "headers" /\ err' = err /\ at' = at + 1
         /\ at # m /\ n + 1 < MaxHeaders
  <2>1. IF Len(response'.headers) >= MaxHeaders
        THEN stage' = "forward" /\ err' = "XI_HTTP_HEADER_PARSE_ERROR" /\ at' = at
        ELSE /\ at' = at + 1 /\ err' = err
             /\ stage' = IF at = m THEN "forward" ELSE "headers"
    BY DEF AcceptHeader, HeaderError, TooMany
  <2>2. Len(response'.headers) = n + 1
    BY <1>4
  <2>3. IF n + 1 >= MaxHeaders
        THEN stage' = "forward" /\ err' = "XI_HTTP_HEADER_PARSE_ERROR" /\ at' = at
        ELSE /\ at' = at + 1 /\ err' = err
             /\ stage' = IF at = m THEN "forward" ELSE "headers"
    BY <2>1, <2>2
  <2>4. n \in Nat /\ MaxHeaders \in Nat
    BY <1>1, RoomForHeaders
  <2> HIDE DEF n, m, name
  <2>5. n + 1 >= MaxHeaders \/ n + 1 < MaxHeaders
    BY <2>4
  <2>6. n + 1 < MaxHeaders => ~(n + 1 >= MaxHeaders)
    BY <2>4
  <2> QED
    BY <2>3, <2>5, <2>6
<1>7. TypeOK'
  <2>1. Len(response'.headers) <= MaxHeaders /\ at' \in Nat \ {0}
    <3>1. /\ n \in Nat /\ n < MaxHeaders /\ Len(response'.headers) = n + 1
          /\ at = n + 1 /\ (at' = at \/ at' = at + 1)
      BY <1>1, <1>4, <1>6
    <3> HIDE DEF n, m, name
    <3> QED
      BY <3>1, RoomForHeaders
  <2>2. err' \in Errs /\ stage' \in {"idle", "headers", "forward", "gone"}
    BY <1>1, <1>6, CodesAreApart DEF TypeOK
  <2> QED
    BY <1>1, <1>3, <1>4, <2>1, <2>2 DEF TypeOK
<1>8. OnlyThisReply'
  <2> DEFINE Shows(h, i) == /\ h.name = reply.lines[i].name
                            /\ h.value = "whole" <=> reply.lines[i].flaw = "none"
  <2>1. \A i \in 1 .. n : Shows(response.headers[i], i)
    BY <1>1, <1>5 DEF OnlyThisReply
  <2>2. \A i \in 1 .. n : Shows(response'.headers[i], i)
    BY <1>4, <2>1
  <2>3. Shows(response'.headers[n + 1], n + 1)
    BY <1>1, <1>4 DEF Taken
  <2>4. \A i \in 1 .. n + 1 : Shows(response'.headers[i], i)
    <3>1. n \in Nat
      BY <1>1
    <3> HIDE DEF n, m, name, Shows
    <3>2. \A i \in 1 .. n + 1 : i \in 1 .. n \/ i = n + 1
      BY <3>1
    <3> QED
      BY <2>2, <2>3, <3>2
  <2>5. Len(response'.headers) <= Len(reply'.lines)
    <3>1. n + 1 <= m
      BY <1>1
    <3> QED
      BY <1>3, <1>4, <3>1
  <2>6. \A i \in DOMAIN response'.headers :
           /\ response'.headers[i].name = reply'.lines[i].name
           /\ response'.headers[i].value = "whole" <=> reply'.lines[i].flaw = "none"
    BY <1>3, <1>5, <2>4
  <2> QED
    BY <2>5, <2>6 DEF OnlyThisReply
<1>9. ChecklistLeads'
  <2> SUFFICES ASSUME NEW t \in Types \ {"UNKNOWN"}
               PROVE  LET c == response'.checklist[t]
                      IN  /\ c = 0 \/ (c \in 1 .. n + 1 /\ response'.headers[c].type = t)
                          /\ \A i \in c + 1 .. n + 1 : response'.headers[i].type # t
    BY <1>4 DEF ChecklistLeads
  <2>1. CASE t = classify_header(name)
    <3>1. response'.checklist[t] = n + 1 /\ response'.headers[n + 1].type = t
      BY <1>4, <2>1
    <3>2. n \in Nat
      BY <1>1
    <3> HIDE DEF n, name
    <3>3. n + 1 \in 1 .. n + 1 /\ (n + 1) + 1 .. n + 1 = {}
      BY <3>2
    <3> QED
      BY <3>1, <3>3
  <2>2. CASE t # classify_header(name)
    <3>1. /\ response'.checklist[t] = response.checklist[t]
          /\ response'.headers[n + 1].type # t
      BY <1>4, <2>2
    <3>2. response.checklist[t] \in 0 .. MaxHeaders
      BY <1>1, PartsOfState
    <3>3. LET c == response.checklist[t]
          IN  /\ c = 0 \/ (c \in 1 .. n /\ response.headers[c].type = t)
              /\ \A i \in c + 1 .. n : response.headers[i].type # t
      BY <1>1 DEF ChecklistLeads
    <3> DEFINE c == response.checklist[t]
    <3>4. c = 0 \/ (c \in 1 .. n + 1 /\ response'.headers[c].type = t)
      <4>1. /\ n \in Nat /\ \A i \in 1 .. n : response'.headers[i] = response.headers[i]
            /\ c = 0 \/ (c \in 1 .. n /\ response.headers[c].type = t)
        BY <1>1, <1>4, <3>3
      <4> HIDE DEF n, m, name, c
      <4> QED
        BY <4>1
    <3>5. ASSUME NEW i \in c + 1 .. n + 1 PROVE response'.headers[i].type # t
      <4>1. c \in Nat
        BY <3>2, RoomForHeaders
      <4>2. CASE i = n + 1
        BY <3>1, <4>2
      <4>3. CASE i # n + 1
        <5>1. i \in c + 1 .. n /\ i \in 1 .. n
          BY <1>1, <4>1, <4>3
        <5> QED
          BY <1>4, <3>3, <5>1
      <4> QED
        BY <4>2, <4>3
    <3> QED
      BY <3>1, <3>4, <3>5
  <2> QED
    BY <2>1, <2>2
<1>10. \A i \in 1 .. n + 1 : reply'.lines[i].flaw \in Taken
  BY <1>1, <1>3
<1>11. LoopInv'
  <2>1. stage' = "headers" => /\ at' = Len(response'.headers) + 1
                              /\ Len(response'.headers) < MaxHeaders
                              /\ at' <= Len(reply'.lines) /\ at' - 1 = n + 1
    <3>1. /\ stage' = "headers" => at' = at + 1 /\ at # m /\ n + 1 < MaxHeaders
          /\ at = n + 1 /\ at <= m /\ n \in Nat /\ m \in Nat
      BY <1>1, <1>6
    <3>2. Len(response'.headers) = n + 1 /\ Len(reply'.lines) = m
      BY <1>3, <1>4
    <3> HIDE DEF n, m, name
    <3>3. stage' = "headers" => at' = (n + 1) + 1 /\ n + 1 < MaxHeaders /\ at' <= m /\ at' - 1 = n + 1
      BY <3>1
    <3> QED
      BY <3>2, <3>3
  <2>2. stage' = "headers" => (err' = NoErr <=> clear')
    BY <1>1, <1>3, <1>6
  <2> QED
    BY <1>1, <1>3, <1>10, <2>1, <2>2 DEF LoopInv
<1>12. ForwardInv'
  <2>1. /\ reply' = reply /\ clear' = clear
        /\ Len(response'.headers) = n + 1
        /\ (err = NoErr <=> clear)
    BY <1>1, <1>3, <1>4
  <2>0. n + 1 >= MaxHeaders \/ n + 1 >= m => ~Losing(reply)
    <3>1. /\ reply.lines \in Seq([name : STRING, flaw : Flaws])
          /\ \A i \in 1 .. n + 1 : reply.lines[i].flaw \in Taken
          /\ n \in Nat
      BY <1>1, <1>3, <1>10, PartsOfState
    <3> HIDE DEF n
    <3>2. n + 1 \in Nat
      BY <3>1
    <3> QED
      BY <3>1, <3>2, NotLosing
  <2>2. CASE n + 1 >= MaxHeaders
    <3>1. m >= n + 1 /\ MaxHeaders \in Nat /\ m \in Nat /\ n \in Nat
      BY <1>1, RoomForHeaders
    <3>2. ~(m < MaxHeaders)
      <4> HIDE DEF n, m
      <4> QED
        BY <2>2, <3>1
    <3>3. ~Acceptable(reply)
      BY <3>2 DEF Acceptable
    <3>4. ~(n + 1 < MaxHeaders)
      <4> HIDE DEF n, m
      <4> QED
        BY <2>2, <3>1
    <3>5. err' # NoErr
      BY <1>6, <3>4, CodesAreApart
    <3> QED
      BY <2>0, <2>1, <2>2, <3>3, <3>5 DEF ForwardInv
  <2>3. CASE n + 1 < MaxHeaders /\ at = m
    <3>1. m = n + 1 /\ m < MaxHeaders
      <4> HIDE DEF n, m, name
      <4> QED
        BY <1>1, <2>3
    <3>2. \A i \in DOMAIN reply.lines : reply.lines[i].flaw \in Taken
      <4>1. DOMAIN reply.lines = 1 .. m
        BY <1>1, PartsOfState
      <4> QED
        BY <1>3, <1>10, <3>1, <4>1
    <3>3. Acceptable(reply)
      BY <1>1, <1>2, <3>1, <3>2 DEF Acceptable
    <3>4. ~(n + 1 >= MaxHeaders)
      <4>1. n \in Nat /\ MaxHeaders \in Nat
        BY <1>1, RoomForHeaders
      <4> HIDE DEF n, m
      <4> QED
        BY <2>3, <4>1
    <3>5. err' = err
      <4> HIDE DEF n, m, name
      <4> QED
        BY <1>6, <3>4
    <3>6. n + 1 >= m
      <4>1. n \in Nat
        BY <1>1
      <4> HIDE DEF n, m, name
      <4> QED
        BY <3>1, <4>1
    <3> QED
      BY <2>0, <2>1, <3>1, <3>3, <3>5, <3>6 DEF ForwardInv
  <2>4. CASE n + 1 < MaxHeaders /\ at # m
    <3>1. ~(n + 1 >= MaxHeaders)
      <4>1. n \in Nat /\ MaxHeaders \in Nat
        BY <1>1, RoomForHeaders
      <4> HIDE DEF n, m
      <4> QED
        BY <2>4, <4>1
    <3>2. stage' = "headers"
      <4> HIDE DEF n, m, name
      <4> QED
        BY <1>6, <2>4, <3>1
    <3> QED
      BY <3>2 DEF ForwardInv
  <2>5. n + 1 >= MaxHeaders \/ n + 1 < MaxHeaders
    <3>1. n \in Nat /\ MaxHeaders \in Nat
      BY <1>1, RoomForHeaders
    <3> HIDE DEF n, m
    <3> QED
      BY <3>1
  <2> QED
    BY <2>2, <2>3, <2>4, <2>5
<1>13. AcceptsExactly' /\ NullMeansError'
  BY <1>6 DEF AcceptsExactly, NullMeansError
<1> QED
  BY <1>7, <1>8, <1>9, <1>11, <1>12, <1>13 DEF ParserInv

LEMMA RejectHeaderStep ==
  ASSUME ParserInv, RejectHeader
  PROVE  ParserInv'
<1>1. /\ stage' = "forward" /\ err' = "XI_HTTP_HEADER_PARSE_ERROR"
      /\ UNCHANGED <<reply, at, response, result, clear>>
  BY DEF RejectHeader, HeaderError
<1>2. TypeOK' /\ OnlyThisReply' /\ ChecklistLeads'
  BY <1>1, CodesAreApart DEF ParserInv, TypeOK, OnlyThisReply, ChecklistLeads
<1>3. ~Acceptable(reply) /\ ~Losing(reply)
  <2>1. at = Len(response.headers) + 1 /\ stage = "headers"
        /\ (reply.lines = <<>> \/ at <= Len(reply.lines))
        /\ \A i \in 1 .. at - 1 : reply.lines[i].flaw \in Taken
    BY DEF ParserInv, LoopInv, RejectHeader
  <2>2. CASE reply.lines = <<>>
    BY <2>2 DEF Acceptable, Losing
  <2>3. CASE at <= Len(reply.lines)
    <3>1. reply.lines[at].flaw \in Refused
      BY <2>3 DEF RejectHeader
    <3>2. at \in DOMAIN reply.lines /\ Len(response.headers) \in Nat
          /\ at - 1 = Len(response.headers)
          /\ reply.lines \in Seq([name : STRING, flaw : Flaws])
      <4> DEFINE n == Len(response.headers)
                 m == Len(reply.lines)
      <4>1. n \in Nat /\ m \in Nat /\ DOMAIN reply.lines = 1 .. m
        BY PartsOfState DEF ParserInv
      <4>2. at = n + 1 /\ at <= m
        BY <2>1, <2>3
      <4> HIDE DEF n, m
      <4>3. at \in 1 .. m /\ at - 1 = n
        BY <4>1, <4>2
      <4> QED
        BY <4>1, <4>3, PartsOfState DEF ParserInv, n
    <3>3. ~Acceptable(reply)
      BY <3>1, <3>2 DEF Acceptable, Taken, Refused
    <3> DEFINE k == Len(response.headers)
    <3>4. /\ k \in Nat /\ \A j \in 1 .. k : reply.lines[j].flaw \in Taken
          /\ k + 1 \in DOMAIN reply.lines /\ reply.lines[k + 1].flaw \in Refused
      BY <2>1, <3>1, <3>2
    <3> HIDE DEF k
    <3>5. ~Losing(reply)
      BY <3>2, <3>4, NotLosing
    <3> QED
      BY <3>3, <3>5
  <2> QED
    BY <2>1, <2>2, <2>3
<1>4. LoopInv' /\ ForwardInv' /\ AcceptsExactly' /\ NullMeansError'
  BY <1>1, <1>3, CodesAreApart
  DEF LoopInv, ForwardInv, AcceptsExactly, NullMeansError
<1> QED
  BY <1>2, <1>4 DEF ParserInv

\* The first line without a value that the loop comes to.
LEMMA HeaderWithoutValueStep ==
  ASSUME ParserInv, HeaderWithoutValue
  PROVE  ParserInv'
<1>1. /\ stage' = "gone" /\ stage = "headers"
      /\ UNCHANGED <<reply, at, response, result, err, clear>>
  BY DEF HeaderWithoutValue
<1>2. TypeOK' /\ OnlyThisReply' /\ ChecklistLeads'
  BY <1>1 DEF ParserInv, TypeOK, OnlyThisReply, ChecklistLeads
<1>3. Losing(reply)
  <2> DEFINE n == Len(response.headers)
             m == Len(reply.lines)
  <2>1. /\ at = n + 1 /\ n < MaxHeaders /\ at <= m
        /\ \A i \in 1 .. at - 1 : reply.lines[i].flaw \in Taken
        /\ reply.blank /\ reply.status # "bad"
        /\ reply.lines[at].flaw = "no value"
    BY <1>1 DEF ParserInv, LoopInv, HeaderWithoutValue
  <2>2. /\ n \in Nat /\ m \in Nat /\ MaxHeaders \in Nat
        /\ DOMAIN reply.lines = 1 .. m
    BY PartsOfState, RoomForHeaders DEF ParserInv
  <2> HIDE DEF n, m
  <2>3. at \in DOMAIN reply.lines /\ at <= MaxHeaders
    <3>1. at = n + 1 /\ n < MaxHeaders /\ at <= m
      BY <2>1
    <3> QED
      BY <2>2, <3>1
  <2> QED
    BY <2>1, <2>3 DEF Losing
<1>4. LoopInv' /\ ForwardInv' /\ AcceptsExactly' /\ NullMeansError'
  BY <1>1, <1>3 DEF LoopInv, ForwardInv, AcceptsExactly, NullMeansError
<1> QED
  BY <1>2, <1>4 DEF ParserInv

LEMMA ForwardStep ==
  ASSUME ParserInv, Forward
  PROVE  ParserInv'
<1>1. stage = "forward" /\ stage' = "idle" /\ UNCHANGED <<reply, at, clear>>
  BY DEF Forward, ReturnNull
<1>2. CASE err = NoErr
  <2>1. /\ response' = WithContent(response, reply.content)
        /\ result' = "response" /\ err' = err
    BY <1>2 DEF Forward
  <2>2. /\ response'.headers = response.headers
        /\ response'.checklist = response.checklist
        /\ response'.content = reply.content
        /\ response'.status = response.status
    BY <2>1 DEF WithContent
  <2>3. response' \in Responses
    BY <2>1, PartsOfState DEF ParserInv, WithContent, Responses
  <2>4. TypeOK' /\ OnlyThisReply' /\ ChecklistLeads'
    BY <1>1, <2>1, <2>2, <2>3 DEF ParserInv, TypeOK, OnlyThisReply, ChecklistLeads
  <2>5. clear /\ Acceptable(reply) /\ Len(response.headers) = Len(reply.lines)
        /\ ~Losing(reply)
    BY <1>1, <1>2 DEF ParserInv, ForwardInv
  <2>6. LoopInv' /\ ForwardInv' /\ AcceptsExactly' /\ NullMeansError'
    BY <1>1, <2>1, <2>2, <2>5 DEF LoopInv, ForwardInv, AcceptsExactly, NullMeansError
  <2> QED
    BY <2>4, <2>6 DEF ParserInv
<1>3. CASE err # NoErr
  <2>1. result' = "null" /\ err' = err /\ response' = response
    BY <1>3 DEF Forward, ReturnNull
  <2>2. TypeOK' /\ OnlyThisReply' /\ ChecklistLeads'
    BY <1>1, <2>1 DEF ParserInv, TypeOK, OnlyThisReply, ChecklistLeads
  <2>3. (clear => ~Acceptable(reply)) /\ ~Losing(reply)
    BY <1>1, <1>3 DEF ParserInv, ForwardInv
  <2>4. LoopInv' /\ ForwardInv' /\ AcceptsExactly' /\ NullMeansError'
    BY <1>1, <1>3, <2>1, <2>3 DEF LoopInv, ForwardInv, AcceptsExactly, NullMeansError
  <2> QED
    BY <2>2, <2>4 DEF ParserInv
<1> QED
  BY <1>2, <1>3

\* Between calls only the register and what is left to explain change.
LEMMA BetweenCallsStep ==
  ASSUME ParserInv, GetLastError \/ CloseFails
  PROVE  ParserInv'
<1>1. /\ stage = "idle" /\ UNCHANGED <<reply, stage, at, response, clear>>
      /\ err' \in Errs
      /\ result' = result \/ (result = "null" /\ result' = "none")
      /\ result' = "null" => err' # NoErr
  BY CodesAreApart DEF GetLastError, CloseFails
<1>2. TypeOK' /\ OnlyThisReply' /\ ChecklistLeads'
  BY <1>1 DEF ParserInv, TypeOK, OnlyThisReply, ChecklistLeads
<1>3. LoopInv' /\ ForwardInv' /\ AcceptsExactly' /\ NullMeansError'
  BY <1>1 DEF ParserInv, LoopInv, ForwardInv, AcceptsExactly, NullMeansError
<1> QED
  BY <1>2, <1>3 DEF ParserInv

LEMMA ParserInvStep == ParserInv /\ [Next]_vars => ParserInv'
<1> SUFFICES ASSUME ParserInv, [Next]_vars PROVE ParserInv'
  OBVIOUS
<1>1. ASSUME NEW r \in Replies, ParseHead(r) PROVE ParserInv'
  BY <1>1, ParseHeadStep
<1>2. CASE AcceptHeader
  BY <1>2, AcceptHeaderStep
<1>3. CASE RejectHeader
  BY <1>3, RejectHeaderStep
<1>4. CASE HeaderWithoutValue
  BY <1>4, HeaderWithoutValueStep
<1>5. CASE Forward
  BY <1>5, ForwardStep
<1>6. CASE GetLastError \/ CloseFails
  BY <1>6, BetweenCallsStep
<1>7. CASE UNCHANGED vars
  BY <1>7 DEF vars, ParserInv, TypeOK, OnlyThisReply, ChecklistLeads, LoopInv,
              ForwardInv, AcceptsExactly, NullMeansError
<1> QED
  BY <1>1, <1>2, <1>3, <1>4, <1>5, <1>6, <1>7 DEF Next

LEMMA ParserInvariant == Spec => []ParserInv
  BY ParserInvInit, ParserInvStep, PTL DEF Spec
-----------------------------------------------------------------------------
\* Every value stays in its set, and the header list within its
\* XI_HTTP_MAX_HEADERS places.
THEOREM TypeCorrect == Spec => []TypeOK
<1>1. ParserInv => TypeOK
  BY DEF ParserInv
<1> QED
  BY <1>1, ParserInvariant, PTL

\* The static response never shows a header of an earlier reply, however calls
\* of http_decode_reply follow each other and wherever parsing stops.
THEOREM ResponseIsOfThisReply == Spec => []OnlyThisReply
<1>1. ParserInv => OnlyThisReply
  BY DEF ParserInv
<1> QED
  BY <1>1, ParserInvariant, PTL

\* headers_checklist leads to the last header of each known type, and to
\* nothing exactly if there is none.
THEOREM ChecklistIsExact == Spec => []ChecklistLeads
<1>1. ParserInv => ChecklistLeads
  BY DEF ParserInv
<1> QED
  BY <1>1, ParserInvariant, PTL

\* With the register clear before the call, parse_http returns a response for
\* exactly the acceptable replies, with all their headers and their content,
\* and it does not return from exactly the losing ones.
THEOREM ParserAcceptsExactly == Spec => []AcceptsExactly
<1>1. ParserInv => AcceptsExactly
  BY DEF ParserInv
<1> QED
  BY <1>1, ParserInvariant, PTL

\* When parse_http returned 0, the register says why.
THEOREM ParserExplainsNull == Spec => []NullMeansError
<1>1. ParserInv => NullMeansError
  BY DEF ParserInv
<1> QED
  BY <1>1, ParserInvariant, PTL
=============================================================================

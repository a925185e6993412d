----------------------------- MODULE XiSession -----------------------------
(***************************************************************************)
(* A client program, the library's request functions (xively.c) over the   *)
(* POSIX layer, and the network with the Xively server behind it.          *)
(*                                                                         *)
(* The eight xi_* request functions share one body (XI_FUNCTION_PROLOGUE,  *)
(* XI_FUNCTION_GET_RESPONSE, XI_FUNCTION_EPILOGUE): encode, open, send,    *)
(* read once, parse, for the two get functions decode the content into the *)
(* caller's structure, close, return.  The program is sequential, so a     *)
(* call is a number; what interleaves with it is the network, which may    *)
(* act on a request long after the call that sent it has returned.         *)
(***************************************************************************)
EXTENDS XiErr, Naturals, FiniteSets

CONSTANTS
    MaxCalls,   \* bound: requests the program makes
    MaxFds,     \* descriptors the process may hold
    Ops,        \* the request functions the program uses
    Polls       \* when the program reads the error register, see Careful

AllOps == {"feed_get", "feed_update", "datastream_get", "datastream_create",
           "datastream_update", "datastream_delete", "datapoint_delete",
           "datapoint_delete_range"}

ASSUME SessionAssumption ==
    /\ MaxCalls \in Nat
    /\ MaxFds \in Nat
    /\ Ops \subseteq AllOps
    /\ Polls \in {"never", "on NULL", "always"}

Calls == 1 .. MaxCalls
GetOps == {"feed_get", "datastream_get"}

VARIABLES
    \* the communication layer and the error register
    live, heap, sock, err,
    \* the call in progress
    stage,      \* where the function is; "idle" between calls
    call,       \* number of the current or last call
    op,         \* which function it is
    response,   \* its local response pointer is not NULL
    text,       \* what read() put into its buffer
    decoded,    \* what the get functions made of the caller's structure
    \* static storage of the library
    tmp,        \* the static reply of http_decode_reply
    \* the program
    unread,     \* the last function returned NULL, the error is not read yet
    ctx,        \* its context
    timeout,    \* xi_globals.network_timeout; 0 makes the socket wait for ever
    outcome,    \* outcome[n]: what call n told the program
    \* the network and the server
    wire,       \* wire[n]: how much of request n was written to its socket
    executed,   \* requests the server carried out
    answer,     \* answer[n]: the reply the server sent on connection n
    \* history
    fault       \* fault[n]: the step of call n that failed, or "stale" if none
                \* did and the register held a code when the call began

commVars == <<live, heap, sock, err>>
callVars == <<stage, call, op, response, text, decoded>>
progVars == <<unread, ctx, timeout, outcome>>
netVars  == <<wire, executed, answer>>
vars == <<commVars, callVars, tmp, progVars, netVars, fault>>

Comm == INSTANCE PosixComm WITH Conns <- Calls

Stages == {"idle", "open", "send", "read", "reply", "content", "close"}
Answers == {"none", "ok", "refused", "garbled"}
Texts == {"empty", "headless", "malformed", "cut", "whole"}
Faults == {"none", "stale", "encode", "open", "send", "read", "reply"}
Outcomes == {"none", "ok", "refused", "unsent", "unknown"}

TypeOK ==
    /\ Comm!TypeOK
    /\ stage \in Stages
    /\ call \in 0 .. MaxCalls
    /\ op \in Ops \cup {"none"}
    /\ response \in BOOLEAN
    /\ text \in Texts
    /\ decoded \in {"none", "right", "wrong", "failed"}
    /\ tmp \in [from : 0 .. MaxCalls, valid : BOOLEAN, status : Answers]
    /\ unread \in BOOLEAN
    /\ ctx \in {"none", "ready", "deleted"}
    /\ timeout \in {0, 1}
    /\ outcome \in [Calls -> Outcomes]
    /\ wire \in [Calls -> {"none", "part", "whole"}]
    /\ executed \subseteq Calls
    /\ answer \in [Calls -> Answers]
    /\ fault \in [Calls -> Faults]

Init ==
    /\ Comm!Init
    /\ stage = "idle" /\ call = 0 /\ op = "none"
    /\ response = FALSE /\ text = "empty" /\ decoded = "none"
    /\ tmp = [from |-> 0, valid |-> FALSE, status |-> "none"]
    /\ unread = FALSE /\ ctx = "none" /\ timeout = 1
    /\ outcome = [n \in Calls |-> "none"]
    /\ wire = [n \in Calls |-> "none"]
    /\ executed = {}
    /\ answer = [n \in Calls |-> "none"]
    /\ fault = [n \in Calls |-> "none"]

-----------------------------------------------------------------------------
(***************************************************************************)
(* The program, between calls                                              *)
(***************************************************************************)
GetLastError ==
    /\ stage = "idle"
    /\ Comm!GetLastError
    /\ unread' = FALSE
    /\ UNCHANGED <<callVars, tmp, ctx, timeout, outcome, netVars, fault>>

SetNetworkTimeout(t) ==
    /\ stage = "idle"
    /\ timeout' = t
    /\ UNCHANGED <<commVars, callVars, tmp, unread, ctx, outcome, netVars, fault>>

\* The three habits a program can have with the error register: not to look,
\* to read it when a function returned NULL, to read it before every call.
Careful ==
    /\ Polls = "on NULL" => ~unread
    /\ Polls = "always" => err = NoErr

\* xi_create_context: the structure or the copy of the key may not fit; in
\* the second case the structure is freed, so either way nothing is kept.
CreateContext ==
    /\ stage = "idle"
    /\ ctx # "ready"
    /\ Careful
    /\ \/ ctx' = "ready" /\ UNCHANGED <<unread, err>>
       \/ ctx' = "none" /\ unread' = TRUE /\ err' = "XI_OUT_OF_MEMORY"
    /\ UNCHANGED <<live, heap, sock, callVars, tmp, timeout, outcome, netVars, fault>>

DeleteContext ==
    /\ stage = "idle"
    /\ ctx = "ready"
    /\ ctx' = "deleted"
    /\ UNCHANGED <<commVars, callVars, tmp, unread, timeout, outcome, netVars, fault>>

\* The codes with which the encoder of o returns NULL.
EncodeErrsOf(o) ==
    {"XI_HTTP_CONSTRUCT_REQUEST_BUFFER_OVERRUN",
     "XI_HTTP_CONSTRUCT_CONTENT_BUFFER_OVERRUN",
     "XI_HTTP_ENCODE_CREATE_DATASTREAM"} \cup
    CASE o \in {"feed_get", "feed_update"} -> {"XI_HTTP_ENCODE_UPDATE_FEED"}
      [] o = "datastream_create"      -> {"XI_CSV_ENCODE_DATASTREAM_BUFFER_OVERRUN"}
      [] o = "datastream_update"      -> {"XI_CSV_ENCODE_DATAPOINT_BUFFER_OVERRUN"}
      [] o = "datapoint_delete"       -> {"XI_HTTP_ENCODE_DELETE_DATAPOINT"}
      [] o = "datapoint_delete_range" -> {"XI_HTTP_ENCODE_DELETE_RANGE_DATAPOINT"}
      [] OTHER                        -> {}

\* A function is called and puts its request together, or fails to.
Begin(o) ==
    /\ stage = "idle"
    /\ ctx = "ready"
    /\ call < MaxCalls
    /\ Careful
    /\ call' = call + 1
    /\ op' = o
    /\ response' = FALSE
    /\ decoded' = "none"
    /\ \/ /\ stage' = "open"
          /\ fault' = [fault EXCEPT ![call + 1] = IF err = NoErr THEN "none" ELSE "stale"]
          /\ UNCHANGED err
       \/ /\ stage' = "close"
          /\ err' \in EncodeErrsOf(o)
          /\ fault' = [fault EXCEPT ![call + 1] = "encode"]
    /\ UNCHANGED <<live, heap, sock, text, tmp, progVars, netVars>>

-----------------------------------------------------------------------------
(***************************************************************************)
(* The library, inside a call.  A failing step goes to err_handling        *)
(* ("close") with the response pointer still NULL.                         *)
(***************************************************************************)
Fail(step) ==
    /\ stage' = "close"
    /\ fault' = [fault EXCEPT ![call] = step]

Open ==
    /\ stage = "open"
    /\ \/ Comm!OpenSucceeds(call) /\ stage' = "send" /\ UNCHANGED fault
       \/ Comm!OpenFails(call) /\ Fail("open")
    /\ UNCHANGED <<call, op, response, text, decoded, tmp, progVars, netVars>>

\* Mutant: the request is written in a loop and a late failure is reported
\* like an early one.
SendInPieces ==
    /\ stage = "send"
    /\ \/ /\ wire' = [wire EXCEPT ![call] = "whole"]
          /\ stage' = "read"
          /\ UNCHANGED <<commVars, fault>>
       \/ /\ Comm!SendFails(call)
          /\ Fail("send")
          /\ \E w \in {"none", "whole"} : wire' = [wire EXCEPT ![call] = w]
    /\ UNCHANGED <<call, op, response, text, decoded, tmp, progVars, executed, answer>>

\* Only -1 is an error: a short count is taken for a sent request.
Send ==
    /\ stage = "send"
    /\ \/ /\ \E w \in {"part", "whole"} : wire' = [wire EXCEPT ![call] = w]
          /\ stage' = "read"
          /\ UNCHANGED <<commVars, fault>>
       \/ /\ Comm!SendFails(call)
          /\ Fail("send")
          /\ UNCHANGED wire
    /\ UNCHANGED <<call, op, response, text, decoded, tmp, progVars, executed, answer>>

ReadError ==
    /\ Comm!ReadFails(call)
    /\ Fail("read")
    /\ UNCHANGED <<call, op, response, text, decoded, tmp, progVars, netVars>>

Arrives(t) ==
    /\ stage' = "reply"
    /\ text' = t
    /\ UNCHANGED <<commVars, call, op, response, decoded, tmp, progVars, netVars, fault>>

\* The single read() returns as much of the reply as has arrived and fits:
\* a piece of its head, its head and a piece of its content, or all of it.
\* Data that fills the buffer has no terminator, and the parser reads what
\* happens to follow as content: that is no more the server's than a piece.
PartsOf(a) ==
    IF a = "none" THEN {}
    ELSE IF a = "garbled" THEN {"headless", "malformed"}
    ELSE {"headless", "cut", "whole"}

ReadData ==
    /\ stage = "read"
    /\ \E t \in PartsOf(answer[call]) : Arrives(t)

\* Mutant: a read that timed out is taken up again.
ReadTriesAgain ==
    /\ stage = "read"
    /\ timeout # 0
    /\ UNCHANGED vars

\* SO_RCVTIMEO expires; a timeout of 0 never does.
ReadTimesOut ==
    /\ stage = "read"
    /\ timeout # 0
    /\ ReadError

\* Mutant: the error found in the register is returned without being set again.
DecodeReplyDropsError ==
    /\ stage = "reply"
    /\ IF text \in {"cut", "whole"} /\ err = NoErr
       THEN /\ tmp' = [from |-> call, valid |-> TRUE, status |-> answer[call]]
            /\ response' = TRUE
            /\ stage' = IF op \in GetOps THEN "content" ELSE "close"
            /\ UNCHANGED <<err, fault>>
       ELSE /\ tmp' = [from |-> call, valid |-> FALSE, status |-> "none"]
            /\ err' = IF text \in {"cut", "whole"} THEN NoErr ELSE "XI_HTTP_PARSE_ERROR"
            /\ stage' = "close"
            /\ fault' = [fault EXCEPT ![call] = "reply"]
            /\ UNCHANGED response
    /\ UNCHANGED <<live, heap, sock, call, op, text, decoded, progVars, netVars>>

\* Mutant: the result of parse_http is not looked at.
DecodeReplyTrusting ==
    /\ stage = "reply"
    /\ LET good == text \in {"cut", "whole"} /\ err = NoErr
       IN  /\ tmp' = [from |-> call, valid |-> good,
                      status |-> IF good THEN answer[call] ELSE "none"]
           /\ IF good THEN UNCHANGED err ELSE err' \in ParseErrs
    /\ response' = TRUE
    /\ stage' = IF op \in GetOps THEN "content" ELSE "close"
    /\ UNCHANGED <<live, heap, sock, call, op, text, decoded, progVars, netVars, fault>>

\* The content of the static reply is wiped first, whatever follows.  A text
\* that parses is rejected all the same if the error register is not clear.
RejectErrs(t) ==
    IF t \in {"empty", "headless"} THEN {"XI_HTTP_PARSE_ERROR"}
    ELSE IF t = "malformed" THEN ParseErrs
    ELSE {err}

DecodeReply ==
    /\ stage = "reply"
    /\ IF text \in {"cut", "whole"} /\ err = NoErr
       THEN /\ tmp' = [from |-> call, valid |-> TRUE, status |-> answer[call]]
            /\ response' = TRUE
            /\ stage' = IF op \in GetOps THEN "content" ELSE "close"
            /\ UNCHANGED <<err, fault>>
       ELSE /\ tmp' = [from |-> call, valid |-> FALSE, status |-> "none"]
            /\ err' \in RejectErrs(text)
            /\ stage' = "close"
            /\ fault' = IF text \in {"cut", "whole"} THEN fault
                        ELSE [fault EXCEPT ![call] = "reply"]
            /\ UNCHANGED response
    /\ UNCHANGED <<live, heap, sock, call, op, text, decoded, progVars, netVars>>

\* Mutant: the decoder's -1 is stored in place of a code.
DecodeErrsRaw(o) == {"-1"}

DecodeErrsOf(o) ==
    IF o = "feed_get" THEN {"XI_CSV_DECODE_FEED_PARSER_ERROR"}
    ELSE {"XI_CSV_DECODE_DATAPOINT_PARSER_ERROR", "XI_CSV_TIME_CONVERTION_ERROR"}

\* The get functions decode the content.  Failing leaves the response
\* pointer set.  What a piece of the content, or the text of a refusal,
\* decodes to is not what the server holds.
DecodeContent ==
    /\ stage = "content"
    /\ stage' = "close"
    /\ \/ /\ decoded' = IF text = "whole" /\ tmp.status = "ok" THEN "right" ELSE "wrong"
          /\ UNCHANGED err
       \/ /\ decoded' = "failed"
          /\ err' \in DecodeErrsOf(op)
    /\ UNCHANGED <<live, heap, sock, call, op, response, text, tmp, progVars, netVars, fault>>

\* Codes after which a program may take the request for not made.
UnsentErrs == EncodeErrs \cup OpenErrs \cup {"XI_SOCKET_WRITE_ERROR"}

\* The program learns the status of the response it gets, or what the error
\* register says about the one it does not get.
Learn(err1, response1) ==
    outcome' = [outcome EXCEPT ![call] =
                  IF response1 THEN tmp.status
                  ELSE IF err1 \in UnsentErrs THEN "unsent" ELSE "unknown"]

\* Mutant: a successful call returns before the clean-up.
EpilogueOnErrorOnly ==
    /\ stage = "close"
    /\ IF call \in live /\ ~response THEN Comm!Close(call) ELSE UNCHANGED commVars
    /\ stage' = "idle"
    /\ unread' = ~response
    /\ Learn(err', response)
    /\ UNCHANGED <<call, op, response, text, decoded, tmp, ctx, timeout, netVars, fault>>

\* Mutant: a failing close takes the response back.
EpilogueReportsClose ==
    /\ stage = "close"
    /\ IF call \in live THEN Comm!Close(call) ELSE UNCHANGED commVars
    /\ stage' = "idle"
    /\ response' = (response /\ err' \notin CloseErrs)
    /\ unread' = ~response'
    /\ Learn(err', response')
    /\ UNCHANGED <<call, op, text, decoded, tmp, ctx, timeout, netVars, fault>>

\* XI_FUNCTION_EPILOGUE: one exit for all, closing what was opened.
Epilogue ==
    /\ stage = "close"
    /\ IF call \in live THEN Comm!Close(call) ELSE UNCHANGED commVars
    /\ stage' = "idle"
    /\ unread' = ~response
    /\ Learn(err', response)
    /\ UNCHANGED <<call, op, response, text, decoded, tmp, ctx, timeout, netVars, fault>>

LibraryStep ==
    Open \/ Send \/ ReadData \/ ReadTimesOut \/ DecodeReply \/ DecodeContent \/ Epilogue

-----------------------------------------------------------------------------
(***************************************************************************)
(* The network and the server                                              *)
(***************************************************************************)
\* The peer resets the connection while the library waits.
PeerResets == stage = "read" /\ ReadError

\* The peer closes without a reply: read() returns 0, which is no error, and
\* the buffer is the zeroes read_data filled it with.
PeerCloses == stage = "read" /\ Arrives("empty")

\* A complete request is carried out or refused; a reply may get garbled on
\* its way.  Nothing ties this to the lifetime of the call.
Serve(n) ==
    /\ wire[n] = "whole"
    /\ answer[n] = "none"
    /\ \/ /\ executed' = executed \cup {n}
          /\ \E a \in {"ok", "garbled"} : answer' = [answer EXCEPT ![n] = a]
       \/ /\ \E a \in {"refused", "garbled"} : answer' = [answer EXCEPT ![n] = a]
          /\ UNCHANGED executed
    /\ UNCHANGED <<commVars, callVars, tmp, progVars, wire, fault>>

\* What is not a request is refused.
RefusePart(n) ==
    /\ wire[n] = "part"
    /\ answer[n] = "none"
    /\ answer' = [answer EXCEPT ![n] = "refused"]
    /\ UNCHANGED <<commVars, callVars, tmp, progVars, wire, executed, fault>>

Environment ==
    PeerResets \/ PeerCloses \/ \E n \in Calls : Serve(n) \/ RefusePart(n)

Program ==
    \/ GetLastError
    \/ \E t \in {0, 1} : SetNetworkTimeout(t)
    \/ CreateContext
    \/ DeleteContext
    \/ \E o \in Ops : Begin(o)

Next == Program \/ LibraryStep \/ Environment

\* The thread that is inside the library is scheduled, and every system call
\* except a read without a timeout returns.
Spec == Init /\ [][Next]_vars
FairSpec == Spec /\ WF_vars(LibraryStep)
-----------------------------------------------------------------------------
(***************************************************************************)
(* Properties                                                              *)
(***************************************************************************)

\* Between calls no connection is open: each of the exits of a request
\* function, early or not, passes the epilogue's close (xively.c:79-85).
Quiescent ==
    /\ live \subseteq {call}
    /\ stage \in {"idle", "open"} => live = {}

\* Whenever a function returned NULL and the program has not yet asked, the
\* error register says so (xi_err.h:10): no exit of a request function and
\* nothing the epilogue does loses the error.
NullMeansError == unread => err # NoErr

\* A response pointer a program holds between calls leads to the reply of the
\* call that returned it, completely parsed: the reply is one static object
\* that every call overwrites (http_transport_layer.c:421).
OwnReply ==
    stage = "idle" /\ response => tmp.from = call /\ tmp.valid

\* What the program learns of a call is true of the server, at the time and
\* ever after: "ok" was carried out, and a request reported with an error from
\* before or at the write is not carried out, however late the network is, so
\* it can be repeated without doing anything twice.
OutcomeIsTrue ==
    \A n \in Calls :
        /\ outcome[n] = "ok" => n \in executed
        /\ outcome[n] \in {"refused", "unsent"} => n \notin executed

\* Seen from the program and the server, the request functions are the remote
\* calls of RemoteCall.  This holds for programs that read the error whenever
\* a function returns NULL.
Remote == INSTANCE RemoteCall WITH pending <- (stage # "idle")
RemoteSpec == Remote!Spec

\* The error read after a call returned NULL, and its string (xi_err.h:65-67),
\* names the step of this call that failed, unless closing the connection
\* failed as well and overwrote it.  A call none of whose steps failed is told
\* what an earlier, successful call of the same program left behind
\* (http_layer_parser.c:201-204).
ErrorNamesFault ==
    stage = "idle" /\ unread /\ ctx # "none" =>
        xi_get_error_string(ErrNumber(err)) \in CloseErrs \cup
            CASE fault[call] = "encode" -> EncodeErrs
              [] fault[call] = "open"   -> OpenErrs
              [] fault[call] = "send"   -> {"XI_SOCKET_WRITE_ERROR"}
              [] fault[call] = "read"   -> {"XI_SOCKET_READ_ERROR"}
              [] fault[call] = "reply"  -> ParseErrs
              [] fault[call] = "stale"  -> DecodeErrs
              [] OTHER                  -> {}

\* What the process still holds between calls was left by calls that failed in
\* open_connection; every call that got a connection gave all of it back.
ResidueOnlyFromOpen ==
    stage = "idle" =>
        \A n \in Calls : heap[n] # {} \/ n \in sock => fault[n] = "open"

\* With a network timeout every call returns, whatever the peer does
\* (xively.h:270-280); the settings are those of the call, which cannot be
\* changed while it runs.
CallReturns == stage # "idle" /\ timeout # 0 ~> stage = "idle"

\* A call returns NULL only if one of its steps failed or the register was
\* not clear when it began: whatever else happened on the way, a failing close
\* included, a complete reply is handed over.
NullMeansFault == stage = "idle" /\ call # 0 /\ ~response => fault[call] # "none"

\* A function whose every step succeeds returns a response: NULL is the mark
\* of an error that occurred (xi_err.h:10).
NullMeansFailedStep ==
    stage = "idle" /\ call # 0 /\ ~response => fault[call] \notin {"none", "stale"}

\* A get function that could not decode the content does not return a
\* response as if it had (xi_err.h:9-10).
SuccessIsDecoded == stage = "idle" /\ response => decoded # "failed"

\* What a get function reports as read is what the server sent
\* (xively.h:345), however the reply was split on its way.
ContentIsTrue ==
    stage = "idle" /\ response /\ tmp.status = "ok" => decoded # "wrong"
=============================================================================

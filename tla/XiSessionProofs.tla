-------------------------- MODULE XiSessionProofs --------------------------
(***************************************************************************)
(* For any number of calls, any set of functions and any descriptor limit: *)
(* the session invariants hold, and with a program that looks at the error *)
(* register the request functions are the remote calls of RemoteCall.      *)
(***************************************************************************)
EXTENDS XiSession, TLAPS

InCall == {"send", "read", "reply", "content"}

\* The type invariant in two parts, the layer's and the session's own.
CommTyped ==
    /\ live \subseteq Calls /\ heap \in [Calls -> SUBSET Comm!Blocks]
    /\ sock \subseteq Calls
    /\ err \in Errs

SessionTyped ==
    /\ stage \in Stages /\ call \in 0 .. MaxCalls /\ op \in Ops \cup {"none"}
    /\ response \in BOOLEAN /\ text \in Texts
    /\ decoded \in {"none", "right", "wrong", "failed"}
    /\ tmp \in [from : 0 .. MaxCalls, valid : BOOLEAN, status : Answers]
    /\ unread \in BOOLEAN /\ ctx \in {"none", "ready", "deleted"} /\ timeout \in {0, 1}
    /\ outcome \in [Calls -> Outcomes] /\ wire \in [Calls -> {"none", "part", "whole"}]
    /\ executed \subseteq Calls /\ answer \in [Calls -> Answers]
    /\ fault \in [Calls -> Faults]

\* Calls not made yet have left no trace anywhere.
Fresh ==
    \A n \in Calls : n > call =>
        /\ n \notin live /\ heap[n] = {} /\ n \notin sock
        /\ wire[n] = "none" /\ outcome[n] = "none"

\* The stage says whether the call holds a connection.
StageLive ==
    /\ live \subseteq {call}
    /\ stage \in {"idle", "open"} => live = {}
    /\ stage \in InCall => call \in live
    /\ stage # "idle" => call \in Calls /\ outcome[call] = "none"

\* A response pointer is set only by a complete parse of this call's reply.
ResponseOk ==
    /\ stage \in {"open", "send", "read", "reply"} => ~response
    /\ stage = "content" => response
    /\ response =>
          /\ call \in Calls
          /\ tmp.from = call /\ tmp.valid
          /\ tmp.status = answer[call] /\ tmp.status \in {"ok", "refused"}

\* A request is carried out when it is answered, and only if it was sent.
ServerOk ==
    \A n \in Calls :
        /\ n \in executed => wire[n] = "whole" /\ answer[n] \in {"ok", "garbled"}
        /\ answer[n] = "ok" => n \in executed
        /\ answer[n] # "none" => wire[n] # "none"

\* Nothing is on the wire before send, and a text that parses is a reply.
WireOk ==
    /\ stage \in {"open", "send"} => wire[call] = "none"
    /\ stage = "reply" /\ text \in {"cut", "whole"} => answer[call] \in {"ok", "refused"}

\* Past outcomes are backed by what can no longer change.
OutcomeOk ==
    \A n \in Calls :
        /\ outcome[n] \in {"ok", "refused"} => answer[n] = outcome[n]
        /\ Polls # "never" /\ outcome[n] = "unsent" => wire[n] = "none"

\* A code that stands for "not sent" is in the register only while it is
\* true, or after NULL was returned and before the program read it.
ErrOk ==
    Polls # "never" =>
        /\ stage \notin {"idle", "close"} => err \notin UnsentErrs
        /\ stage = "close" /\ err \in UnsentErrs => ~response /\ wire[call] = "none"
        /\ stage = "idle" /\ err \in UnsentErrs => unread

\* NULL is never on its way to the program without a code.
NullErr ==
    /\ unread => err # NoErr
    /\ stage = "close" /\ ~response => err # NoErr

\* A connection that is not held and owns something failed to open.
Residue ==
    \A n \in Calls \ live : heap[n] # {} \/ n \in sock => fault[n] = "open"

SessionInv ==
    /\ CommTyped /\ SessionTyped
    /\ Fresh /\ StageLive /\ ResponseOk /\ ServerOk /\ WireOk
    /\ OutcomeOk /\ ErrOk /\ NullErr /\ Residue

-----------------------------------------------------------------------------
\* The groups of codes do not overlap where the argument needs it.
LEMMA UnsentIsApart ==
    \A e \in UnsentErrs :
        /\ e \notin CloseErrs /\ e \notin ParseErrs /\ e \notin DecodeErrs
        /\ e # "XI_SOCKET_READ_ERROR" /\ e # NoErr
  BY DEF UnsentErrs, EncodeErrs, OpenErrs, CloseErrs, ParseErrs, DecodeErrs, NoErr

LEMMA NoErrIsApart ==
    \A e \in OpenErrs \cup EncodeErrs \cup CloseErrs \cup ParseErrs
              \cup DecodeErrs \cup TransferErrs : e # NoErr
  BY DEF EncodeErrs, OpenErrs, CloseErrs, ParseErrs, DecodeErrs, TransferErrs, NoErr

LEMMA EncodeErrsOfAreEncode == \A o \in Ops : EncodeErrsOf(o) \subseteq EncodeErrs
  BY SessionAssumption DEF EncodeErrsOf, EncodeErrs

LEMMA DecodeErrsOfAreDecode == \A o : DecodeErrsOf(o) \subseteq DecodeErrs
  BY DEF DecodeErrsOf, DecodeErrs

\* Session and layer speak of the same codes.
LEMMA SameCodes == Comm!Errs = Errs /\ Comm!CloseErrs = CloseErrs /\ Comm!NoErr = NoErr
  BY DEF Comm!Errs, Comm!CloseErrs, Comm!NoErr, Comm!OpenErrs, Comm!EncodeErrs,
         Comm!ParseErrs, Comm!DecodeErrs, Comm!TransferErrs,
         Errs, CloseErrs, NoErr, OpenErrs, EncodeErrs, ParseErrs, DecodeErrs, TransferErrs

\* The type invariant is the sum of its parts.
LEMMA TypeParts == TypeOK <=> CommTyped /\ SessionTyped
  BY SameCodes DEF TypeOK, Comm!TypeOK, CommTyped, SessionTyped

-----------------------------------------------------------------------------
LEMMA OpenErrorIsOpenErr == \A s \in Comm!OpenSteps : Comm!OpenError(s) \in OpenErrs
  BY DEF Comm!OpenSteps, Comm!OpenError, Comm!Allocations, Comm!SocketSetup, OpenErrs

LEMMA HeapBeforeIsBlocks == \A s \in Comm!OpenSteps : Comm!HeapBefore(s) \subseteq Comm!Blocks
  BY DEF Comm!OpenSteps, Comm!HeapBefore, Comm!Allocations, Comm!SocketSetup, Comm!Blocks

\* What each call of the layer does, as far as the session depends on it.
LEMMA OpenFailsEffect ==
  ASSUME NEW c \in Calls, CommTyped, Comm!OpenFails(c)
  PROVE  /\ CommTyped' /\ live' = live /\ err' \in OpenErrs
         /\ \A n \in Calls : n # c => heap'[n] = heap[n] /\ (n \in sock' <=> n \in sock)
<1> USE DEF CommTyped, Errs
<1>1. "socket" \in Comm!OpenSteps
  BY DEF Comm!OpenSteps
<1>2. CASE \E s \in Comm!OpenSteps : Comm!OpenOutOfMemory(c, s)
  BY <1>2, OpenErrorIsOpenErr, HeapBeforeIsBlocks DEF Comm!OpenOutOfMemory, Comm!ErrHandling
<1>3. CASE \E s \in Comm!OpenSteps : Comm!OpenSetupFails(c, s)
  BY <1>3, OpenErrorIsOpenErr, HeapBeforeIsBlocks DEF Comm!OpenSetupFails, Comm!ErrHandling
<1>4. CASE Comm!OpenNoSocket(c)
  BY <1>1, <1>4, OpenErrorIsOpenErr, HeapBeforeIsBlocks DEF Comm!OpenNoSocket
<1> QED
  BY <1>2, <1>3, <1>4 DEF Comm!OpenFails

LEMMA OpenSucceedsEffect ==
  ASSUME NEW c \in Calls, CommTyped, Comm!OpenSucceeds(c)
  PROVE  /\ CommTyped' /\ live' = live \cup {c} /\ err' = err
         /\ \A n \in Calls : n # c => heap'[n] = heap[n] /\ (n \in sock' <=> n \in sock)
  BY DEF Comm!OpenSucceeds, CommTyped, Comm!Blocks

LEMMA CloseEffect ==
  ASSUME NEW c \in Calls, CommTyped, Comm!Close(c)
  PROVE  /\ CommTyped' /\ live' = live \ {c} /\ (err' = err \/ err' \in CloseErrs)
         /\ heap'[c] = {} /\ c \notin sock'
         /\ \A n \in Calls : n # c => heap'[n] = heap[n] /\ (n \in sock' <=> n \in sock)
  BY SameCodes DEF Comm!Close, CommTyped, Errs


-----------------------------------------------------------------------------
\* No step of the program, the library or the network breaks the invariant.
\* One step per action; under it the conjuncts it can disturb one by one, the
\* others together.
LEMMA SessionInvStep == SessionInv /\ [Next]_vars => SessionInv'
<1> SUFFICES ASSUME SessionInv, [Next]_vars PROVE SessionInv'
  OBVIOUS
<1> USE DEF SessionInv, vars, commVars, callVars, progVars, netVars
<1>0. /\ MaxCalls \in Nat /\ call \in Nat /\ call <= MaxCalls
      /\ \A n \in Calls : n \in Nat
      /\ call < MaxCalls => call + 1 \in Calls /\ call + 1 \in 0 .. MaxCalls
      /\ call \in Calls => call \in 0 .. MaxCalls
  <2>1. MaxCalls \in Nat /\ call \in Nat /\ call <= MaxCalls
    <3>1. MaxCalls \in Nat
      BY SessionAssumption
    <3>2. call \in 0 .. MaxCalls
      BY DEF SessionTyped
    <3> QED
      BY <3>1, <3>2
  <2>2. \A n \in Calls : n \in Nat
    BY <2>1 DEF Calls
  <2>3. call < MaxCalls => call + 1 \in Calls /\ call + 1 \in 0 .. MaxCalls
    BY <2>1 DEF Calls
  <2> QED
    BY <2>1, <2>2, <2>3 DEF Calls
<1>1. CASE UNCHANGED vars
  <2>1. (CommTyped /\ SessionTyped /\ Fresh /\ StageLive /\ ResponseOk /\ ServerOk /\ WireOk /\ OutcomeOk /\ ErrOk /\ NullErr /\ Residue)'
    BY <1>1 DEF CommTyped, SessionTyped, Fresh, StageLive, ResponseOk, ServerOk, WireOk, OutcomeOk, ErrOk, NullErr, Residue
  <2> QED
    BY <2>1
<1>2. CASE GetLastError
  <2>1. CommTyped'
    BY <1>2, SameCodes DEF GetLastError, Comm!GetLastError, CommTyped, Errs
  <2>2. ErrOk'
    BY <1>2, SameCodes, UnsentIsApart DEF GetLastError, Comm!GetLastError, ErrOk
  <2>3. NullErr'
    BY <1>2 DEF GetLastError, Comm!GetLastError, NullErr
  <2>4. (SessionTyped /\ Fresh /\ StageLive /\ ResponseOk /\ ServerOk /\ WireOk /\ OutcomeOk /\ Residue)'
    BY <1>2 DEF GetLastError, Comm!GetLastError, SessionTyped, Fresh, StageLive, ResponseOk, ServerOk, WireOk, OutcomeOk, Residue
  <2> QED
    BY <2>1, <2>2, <2>3, <2>4
<1>3. CASE \E t \in {0, 1} : SetNetworkTimeout(t)
  <2>1. (CommTyped /\ SessionTyped /\ Fresh /\ StageLive /\ ResponseOk /\ ServerOk /\ WireOk /\ OutcomeOk /\ ErrOk /\ NullErr /\ Residue)'
    BY <1>3 DEF SetNetworkTimeout, CommTyped, SessionTyped, Fresh, StageLive, ResponseOk, ServerOk, WireOk, OutcomeOk, ErrOk, NullErr, Residue
  <2> QED
    BY <2>1
<1>4. CASE CreateContext
  <2>1. CommTyped'
    BY <1>4 DEF CreateContext, CommTyped, Errs, OpenErrs
  <2>2. ErrOk'
    BY <1>4 DEF CreateContext, ErrOk, SessionTyped
  <2>3. NullErr'
    BY <1>4, NoErrIsApart DEF CreateContext, NullErr, OpenErrs
  <2>4. (SessionTyped /\ Fresh /\ StageLive /\ ResponseOk /\ ServerOk /\ WireOk /\ OutcomeOk /\ Residue)'
    BY <1>4 DEF CreateContext, SessionTyped, Fresh, StageLive, ResponseOk, ServerOk, WireOk, OutcomeOk, Residue
  <2> QED
    BY <2>1, <2>2, <2>3, <2>4
<1>5. CASE DeleteContext
  <2>1. (CommTyped /\ SessionTyped /\ Fresh /\ StageLive /\ ResponseOk /\ ServerOk /\ WireOk /\ OutcomeOk /\ ErrOk /\ NullErr /\ Residue)'
    BY <1>5 DEF DeleteContext, CommTyped, SessionTyped, Fresh, StageLive, ResponseOk, ServerOk, WireOk, OutcomeOk, ErrOk, NullErr, Residue
  <2> QED
    BY <2>1
<1>6. CASE \E o \in Ops : Begin(o)
  <2>1. CommTyped'
    BY <1>6, EncodeErrsOfAreEncode DEF Begin, CommTyped, Errs
  <2>2. SessionTyped'
    BY <1>6, <1>0 DEF Begin, SessionTyped, Stages, Answers, Texts, Faults, Outcomes
  <2>3. Fresh'
    BY <1>6, <1>0 DEF Begin, Fresh
  <2>4. StageLive'
    BY <1>6, <1>0 DEF Begin, StageLive, Fresh, InCall
  <2>5. ResponseOk'
    BY <1>6 DEF Begin, ResponseOk
  <2>6. WireOk'
    BY <1>6, <1>0 DEF Begin, WireOk, Fresh
  <2>7. ErrOk'
    <3>1. PICK o \in Ops : Begin(o)
      BY <1>6
    <3>2. stage = "idle" /\ call' = call + 1 /\ ~response' /\ wire' = wire
      BY <3>1 DEF Begin
    <3>3. wire[call + 1] = "none"
      BY <1>0, <3>1 DEF Begin, Fresh
    <3>4. CASE stage' = "open" /\ err' = err
      <4>1. Polls # "never" => err \notin UnsentErrs
        BY <3>1, <3>2, SessionAssumption, UnsentIsApart DEF Begin, Careful, ErrOk, SessionAssumption
      <4> QED
        BY <3>4, <4>1 DEF ErrOk
    <3>5. CASE stage' = "close"
      BY <3>2, <3>3, <3>5 DEF ErrOk
    <3> QED
      BY <3>1, <3>4, <3>5 DEF Begin
  <2>8. NullErr'
    BY <1>6, EncodeErrsOfAreEncode, NoErrIsApart DEF Begin, NullErr
  <2>9. Residue'
    BY <1>6, <1>0 DEF Begin, Residue, Fresh, StageLive, SessionTyped
  <2>10. (ServerOk /\ OutcomeOk)'
    BY <1>6 DEF Begin, ServerOk, OutcomeOk
  <2> QED
    BY <2>1, <2>2, <2>3, <2>4, <2>5, <2>6, <2>7, <2>8, <2>9, <2>10
<1>7. CASE Open
  <2>1. stage = "open" /\ call \in Calls /\ live = {}
    BY <1>7 DEF Open, StageLive
  <2>2. CASE Comm!OpenSucceeds(call) /\ stage' = "send" /\ UNCHANGED fault
    <3>1. /\ CommTyped' /\ live' = live \cup {call} /\ err' = err
          /\ \A n \in Calls : n # call => heap'[n] = heap[n] /\ (n \in sock' <=> n \in sock)
      BY <2>1, <2>2, OpenSucceedsEffect
    <3>2. SessionTyped'
      BY <1>7, <2>2 DEF Open, SessionTyped, Stages
    <3>3. Fresh'
      BY <1>0, <1>7, <2>1, <2>2, <3>1 DEF Open, Fresh, SessionTyped
    <3>4. StageLive'
      BY <1>7, <2>1, <2>2, <3>1 DEF Open, StageLive, InCall
    <3>5. (ResponseOk /\ ServerOk /\ WireOk /\ OutcomeOk)'
      BY <1>7, <2>1, <2>2 DEF Open, ResponseOk, ServerOk, WireOk, OutcomeOk
    <3>6. (ErrOk /\ NullErr)'
      BY <1>7, <2>1, <2>2, <3>1 DEF Open, ErrOk, NullErr
    <3>7. Residue'
      BY <1>7, <2>1, <2>2, <3>1 DEF Open, Residue
    <3> QED
      BY <3>1, <3>2, <3>3, <3>4, <3>5, <3>6, <3>7
  <2>3. CASE Comm!OpenFails(call) /\ Fail("open")
    <3>1. /\ CommTyped' /\ live' = live /\ err' \in OpenErrs
          /\ \A n \in Calls : n # call => heap'[n] = heap[n] /\ (n \in sock' <=> n \in sock)
      BY <2>1, <2>3, OpenFailsEffect
    <3>2. SessionTyped'
      BY <1>7, <2>3 DEF Open, Fail, SessionTyped, Stages, Faults
    <3>3. Fresh'
      BY <1>0, <1>7, <2>1, <2>3, <3>1 DEF Open, Fail, Fresh, SessionTyped
    <3>4. StageLive'
      BY <1>7, <2>1, <2>3, <3>1 DEF Open, Fail, StageLive, InCall
    <3>5. (ResponseOk /\ ServerOk /\ WireOk /\ OutcomeOk)'
      BY <1>7, <2>1, <2>3 DEF Open, Fail, ResponseOk, ServerOk, WireOk, OutcomeOk
    <3>6. ErrOk'
      BY <1>7, <2>1, <2>3 DEF Open, Fail, ErrOk, ResponseOk, WireOk
    <3>7. NullErr'
      BY <1>7, <2>3, <3>1, NoErrIsApart DEF Open, Fail, NullErr
    <3>8. Residue'
      BY <1>7, <2>1, <2>3, <3>1 DEF Open, Fail, Residue, SessionTyped
    <3> QED
      BY <3>1, <3>2, <3>3, <3>4, <3>5, <3>6, <3>7, <3>8
  <2> QED
    BY <1>7, <2>2, <2>3 DEF Open
<1>8. CASE Send
  <2>1. stage = "send" /\ call \in Calls /\ call \in live
    BY <1>8 DEF Send, StageLive, InCall
  <2>2. (CommTyped /\ SessionTyped)'
    <3>1. CASE wire' = wire /\ Comm!SendFails(call) /\ Fail("send")
      <4>1. CommTyped'
        BY <3>1 DEF Comm!SendFails, CommTyped, Errs, TransferErrs
      <4>2. SessionTyped'
        BY <1>8, <2>1, <3>1 DEF Send, Fail, SessionTyped, Stages, Faults
      <4> QED
        BY <4>1, <4>2
    <3>2. CASE /\ \E w \in {"part", "whole"} : wire' = [wire EXCEPT ![call] = w]
               /\ stage' = "read" /\ UNCHANGED <<commVars, fault>>
      <4>1. CommTyped'
        BY <3>2 DEF CommTyped
      <4>2. SessionTyped'
        BY <1>8, <2>1, <3>2 DEF Send, SessionTyped, Stages
      <4> QED
        BY <4>1, <4>2
    <3> QED
      BY <1>8, <3>1, <3>2 DEF Send
  <2>3. Fresh'
    BY <1>0, <1>8, <2>1 DEF Send, Fail, Comm!SendFails, Fresh, SessionTyped
  <2>4. (StageLive /\ ResponseOk)'
    BY <1>8, <2>1 DEF Send, Fail, Comm!SendFails, StageLive, ResponseOk, InCall
  <2>5. ServerOk'
    BY <1>8, <2>1 DEF Send, Fail, Comm!SendFails, ServerOk, WireOk, SessionTyped
  <2>6. WireOk'
    BY <1>8, <2>1 DEF Send, Fail, Comm!SendFails, WireOk
  <2>7. OutcomeOk'
    BY <1>8, <2>1 DEF Send, Fail, Comm!SendFails, OutcomeOk, StageLive, SessionTyped
  <2>8. ErrOk'
    BY <1>8, <2>1 DEF Send, Fail, Comm!SendFails, ErrOk, ResponseOk, WireOk
  <2>9. NullErr'
    BY <1>8, <2>1, NoErrIsApart DEF Send, Fail, Comm!SendFails, NullErr, TransferErrs
  <2>10. Residue'
    BY <1>8, <2>1 DEF Send, Fail, Comm!SendFails, Residue, SessionTyped
  <2> QED
    BY <2>2, <2>3, <2>4, <2>5, <2>6, <2>7, <2>8, <2>9, <2>10
<1>9. CASE ReadTimesOut \/ PeerResets
  <2>1. CommTyped'
    BY <1>9 DEF ReadTimesOut, PeerResets, ReadError, Fail, Comm!ReadFails, CommTyped, Errs, TransferErrs
  <2>2. SessionTyped'
    BY <1>9 DEF ReadTimesOut, PeerResets, ReadError, Fail, Comm!ReadFails, SessionTyped, Stages, Answers, Texts, Faults, Outcomes
  <2>3. Fresh'
    BY <1>9, <1>0 DEF ReadTimesOut, PeerResets, ReadError, Fail, Comm!ReadFails, Fresh
  <2>4. StageLive'
    BY <1>9 DEF ReadTimesOut, PeerResets, ReadError, Fail, Comm!ReadFails, StageLive, InCall
  <2>5. ResponseOk'
    BY <1>9 DEF ReadTimesOut, PeerResets, ReadError, Fail, Comm!ReadFails, ResponseOk
  <2>6. WireOk'
    BY <1>9 DEF ReadTimesOut, PeerResets, ReadError, Fail, Comm!ReadFails, WireOk
  <2>7. ErrOk'
    BY <1>9, UnsentIsApart DEF ReadTimesOut, PeerResets, ReadError, Fail, Comm!ReadFails, ErrOk
  <2>8. NullErr'
    BY <1>9, NoErrIsApart DEF ReadTimesOut, PeerResets, ReadError, Fail, Comm!ReadFails, NullErr, TransferErrs
  <2>9. Residue'
    BY <1>9 DEF ReadTimesOut, PeerResets, ReadError, Fail, Comm!ReadFails, Residue, StageLive, InCall, SessionTyped
  <2>10. (ServerOk /\ OutcomeOk)'
    BY <1>9 DEF ReadTimesOut, PeerResets, ReadError, Fail, Comm!ReadFails, ServerOk, OutcomeOk
  <2> QED
    BY <2>1, <2>2, <2>3, <2>4, <2>5, <2>6, <2>7, <2>8, <2>9, <2>10
<1>10. CASE ReadData \/ PeerCloses
  <2>1. SessionTyped'
    BY <1>10 DEF ReadData, PeerCloses, Arrives, PartsOf, SessionTyped, Stages, Answers, Texts, Faults, Outcomes
  <2>2. StageLive'
    BY <1>10 DEF ReadData, PeerCloses, Arrives, StageLive, InCall
  <2>3. ResponseOk'
    BY <1>10 DEF ReadData, PeerCloses, Arrives, ResponseOk
  <2>4. WireOk'
    BY <1>10, <1>0 DEF ReadData, PeerCloses, Arrives, WireOk, PartsOf, StageLive, SessionTyped, Stages, Answers, Texts, Faults, Outcomes
  <2>5. ErrOk'
    BY <1>10 DEF ReadData, PeerCloses, Arrives, ErrOk
  <2>6. NullErr'
    BY <1>10 DEF ReadData, PeerCloses, Arrives, NullErr
  <2>7. (CommTyped /\ Fresh /\ ServerOk /\ OutcomeOk /\ Residue)'
    BY <1>10 DEF ReadData, PeerCloses, Arrives, CommTyped, Fresh, ServerOk, OutcomeOk, Residue
  <2> QED
    BY <2>1, <2>2, <2>3, <2>4, <2>5, <2>6, <2>7
<1>11. CASE DecodeReply
  <2>1. stage = "reply" /\ call \in Calls /\ call \in live /\ ~response
    BY <1>11 DEF DecodeReply, StageLive, ResponseOk, InCall
  <2>2. (Fresh /\ ServerOk /\ OutcomeOk)'
    BY <1>0, <1>11, <2>1 DEF DecodeReply, Fresh, ServerOk, OutcomeOk
  <2>3. CASE text \in {"cut", "whole"} /\ err = NoErr
    <3>1. /\ tmp' = [from |-> call, valid |-> TRUE, status |-> answer[call]]
          /\ response' = TRUE /\ err' = err /\ fault' = fault
          /\ stage' \in {"content", "close"}
      BY <1>11, <2>3 DEF DecodeReply
    <3>2. (CommTyped /\ StageLive)'
      BY <1>11, <2>1, <3>1 DEF DecodeReply, CommTyped, StageLive, InCall
    <3>3. SessionTyped'
      BY <1>0, <1>11, <2>1, <3>1 DEF DecodeReply, SessionTyped, Stages
    <3>4. (ResponseOk /\ WireOk)'
      BY <1>11, <2>1, <2>3, <3>1 DEF DecodeReply, ResponseOk, WireOk
    <3>5. (ErrOk /\ NullErr)'
      BY <1>11, <2>1, <2>3, <3>1 DEF DecodeReply, ErrOk, NullErr
    <3>6. Residue'
      BY <1>11, <3>1 DEF DecodeReply, Residue
    <3> QED
      BY <2>2, <3>2, <3>3, <3>4, <3>5, <3>6
  <2>4. CASE ~(text \in {"cut", "whole"} /\ err = NoErr)
    <3>1. /\ tmp' = [from |-> call, valid |-> FALSE, status |-> "none"]
          /\ response' = response /\ stage' = "close" /\ err' \in RejectErrs(text)
          /\ fault' = fault \/ fault' = [fault EXCEPT ![call] = "reply"]
      BY <1>11, <2>4 DEF DecodeReply
    <3>2. err' \in ParseErrs \/ (err' = err /\ err # NoErr)
      BY <2>4, <3>1 DEF RejectErrs, ParseErrs, SessionTyped, Texts
    <3>3. (CommTyped /\ StageLive)'
      BY <1>11, <2>1, <3>1, <3>2 DEF DecodeReply, CommTyped, StageLive, InCall, Errs
    <3>4. SessionTyped'
      BY <1>0, <1>11, <2>1, <3>1 DEF DecodeReply, SessionTyped, Stages, Faults, Answers
    <3>5. (ResponseOk /\ WireOk)'
      BY <2>1, <3>1 DEF ResponseOk, WireOk
    <3>6. ErrOk'
      BY <2>1, <3>1, <3>2, UnsentIsApart DEF ErrOk
    <3>7. NullErr'
      BY <1>11, <2>1, <3>2, NoErrIsApart DEF DecodeReply, NullErr
    <3>8. Residue'
      BY <1>11, <2>1, <3>1 DEF DecodeReply, Residue, SessionTyped
    <3> QED
      BY <2>2, <3>3, <3>4, <3>5, <3>6, <3>7, <3>8
  <2> QED
    BY <2>3, <2>4
<1>12. CASE DecodeContent
  <2>1. CommTyped'
    BY <1>12, DecodeErrsOfAreDecode DEF DecodeContent, CommTyped, Errs
  <2>2. SessionTyped'
    BY <1>12 DEF DecodeContent, SessionTyped, Stages, Answers, Texts, Faults, Outcomes
  <2>3. StageLive'
    BY <1>12 DEF DecodeContent, StageLive, InCall
  <2>4. ResponseOk'
    BY <1>12 DEF DecodeContent, ResponseOk
  <2>5. WireOk'
    BY <1>12 DEF DecodeContent, WireOk
  <2>6. ErrOk'
    BY <1>12, DecodeErrsOfAreDecode, UnsentIsApart DEF DecodeContent, ErrOk
  <2>7. NullErr'
    BY <1>12, DecodeErrsOfAreDecode, NoErrIsApart DEF DecodeContent, NullErr, ResponseOk
  <2>8. (Fresh /\ ServerOk /\ OutcomeOk /\ Residue)'
    BY <1>12 DEF DecodeContent, Fresh, ServerOk, OutcomeOk, Residue
  <2> QED
    BY <2>1, <2>2, <2>3, <2>4, <2>5, <2>6, <2>7, <2>8
<1>13. CASE Epilogue
  <2>1. stage = "close" /\ call \in Calls /\ stage' = "idle" /\ outcome[call] = "none"
    BY <1>13 DEF Epilogue, StageLive
  <2>2. /\ CommTyped' /\ live' = {} /\ (err' = err \/ err' \in CloseErrs)
        /\ call \in live => heap'[call] = {} /\ call \notin sock'
        /\ call \notin live => heap' = heap /\ sock' = sock
        /\ \A n \in Calls : n # call => heap'[n] = heap[n] /\ (n \in sock' <=> n \in sock)
    <3>1. CASE call \in live
      BY <1>13, <2>1, <3>1, CloseEffect DEF Epilogue, StageLive
    <3>2. CASE call \notin live
      BY <1>13, <2>1, <3>2 DEF Epilogue, StageLive, CommTyped
    <3> QED
      BY <3>1, <3>2
  <2>3. /\ response => outcome' = [outcome EXCEPT ![call] = tmp.status]
        /\ ~response /\ err' \in UnsentErrs => outcome' = [outcome EXCEPT ![call] = "unsent"]
        /\ ~response /\ err' \notin UnsentErrs => outcome' = [outcome EXCEPT ![call] = "unknown"]
    BY <1>13 DEF Epilogue, Learn
  <2>4. err' \in UnsentErrs => err \in UnsentErrs
    BY <2>2, UnsentIsApart
  <2>5. SessionTyped'
    BY <1>13, <2>3 DEF Epilogue, ResponseOk, SessionTyped, Stages, Outcomes
  <2>6. Fresh'
    <3>1. \A n \in Calls : n # call => outcome'[n] = outcome[n]
      BY <2>1, <2>3 DEF SessionTyped
    <3> QED
      BY <1>0, <1>13, <2>1, <2>2, <3>1 DEF Epilogue, Fresh
  <2>7. (StageLive /\ ResponseOk /\ ServerOk /\ WireOk)'
    BY <1>13, <2>1, <2>2 DEF Epilogue, StageLive, ResponseOk, ServerOk, WireOk, InCall
  <2>8. OutcomeOk'
    BY <1>13, <2>1, <2>3, <2>4 DEF Epilogue, OutcomeOk, ResponseOk, ErrOk, SessionTyped
  <2>9. ErrOk'
    BY <1>13, <2>1, <2>4 DEF Epilogue, ErrOk
  <2>10. NullErr'
    BY <1>13, <2>1, <2>2, NoErrIsApart DEF Epilogue, NullErr, SessionTyped
  <2>11. Residue'
    BY <1>13, <2>1, <2>2 DEF Epilogue, Residue, StageLive
  <2> QED
    BY <2>2, <2>5, <2>6, <2>7, <2>8, <2>9, <2>10, <2>11
<1>14. CASE \E n \in Calls : Serve(n)
  <2>1. SessionTyped'
    BY <1>14 DEF Serve, SessionTyped, Stages, Answers, Texts, Faults, Outcomes
  <2>2. Fresh'
    BY <1>14 DEF Serve, Fresh
  <2>3. ResponseOk'
    BY <1>14 DEF Serve, ResponseOk, SessionTyped
  <2>4. ServerOk'
    BY <1>14 DEF Serve, ServerOk, SessionTyped
  <2>5. WireOk'
    BY <1>14, <1>0 DEF Serve, WireOk, StageLive, SessionTyped
  <2>6. OutcomeOk'
    BY <1>14 DEF Serve, OutcomeOk, SessionTyped
  <2>7. (CommTyped /\ StageLive /\ ErrOk /\ NullErr /\ Residue)'
    BY <1>14 DEF Serve, CommTyped, StageLive, ErrOk, NullErr, Residue
  <2> QED
    BY <2>1, <2>2, <2>3, <2>4, <2>5, <2>6, <2>7
<1>15. CASE \E n \in Calls : RefusePart(n)
  <2>1. SessionTyped'
    BY <1>15 DEF RefusePart, SessionTyped, Stages, Answers, Texts, Faults, Outcomes
  <2>2. ResponseOk'
    BY <1>15 DEF RefusePart, ResponseOk, SessionTyped
  <2>3. ServerOk'
    BY <1>15 DEF RefusePart, ServerOk, SessionTyped
  <2>4. WireOk'
    BY <1>15 DEF RefusePart, WireOk, SessionTyped
  <2>5. OutcomeOk'
    BY <1>15 DEF RefusePart, OutcomeOk, SessionTyped
  <2>6. (CommTyped /\ Fresh /\ StageLive /\ ErrOk /\ NullErr /\ Residue)'
    BY <1>15 DEF RefusePart, CommTyped, Fresh, StageLive, ErrOk, NullErr, Residue
  <2> QED
    BY <2>1, <2>2, <2>3, <2>4, <2>5, <2>6
<1> QED
  BY <1>1, <1>2, <1>3, <1>4, <1>5, <1>6, <1>7, <1>8, <1>9, <1>10, <1>11, <1>12, <1>13, <1>14, <1>15
     DEF Next, Program, LibraryStep, Environment
-----------------------------------------------------------------------------
LEMMA SessionInvInit == Init => SessionInv
<1> SUFFICES ASSUME Init PROVE SessionInv
  OBVIOUS
<1> USE DEF Init, Comm!Init
<1>1. MaxCalls \in Nat
  BY SessionAssumption
<1>2. CommTyped
  BY SameCodes DEF CommTyped, Errs
<1>3. SessionTyped
  <2>1. call \in 0 .. MaxCalls /\ 0 \in 0 .. MaxCalls
    BY <1>1
  <2>2. tmp \in [from : 0 .. MaxCalls, valid : BOOLEAN, status : Answers]
    BY <2>1 DEF Answers
  <2>3. /\ outcome \in [Calls -> Outcomes] /\ wire \in [Calls -> {"none", "part", "whole"}]
        /\ answer \in [Calls -> Answers] /\ fault \in [Calls -> Faults]
    BY DEF Outcomes, Answers, Faults
  <2> QED
    BY <2>1, <2>2, <2>3 DEF SessionTyped, Stages, Texts
<1>4. Fresh /\ StageLive /\ ResponseOk
  BY DEF Fresh, StageLive, ResponseOk, InCall
<1>5. ServerOk /\ WireOk /\ OutcomeOk
  BY DEF ServerOk, WireOk, OutcomeOk
<1>6. ErrOk
  BY SameCodes, UnsentIsApart DEF ErrOk
<1>7. NullErr /\ Residue
  BY DEF NullErr, Residue
<1> QED
  BY <1>2, <1>3, <1>4, <1>5, <1>6, <1>7 DEF SessionInv

\* The session invariant holds of every behaviour.
LEMMA SessionInvariant == Spec => []SessionInv
  BY SessionInvInit, SessionInvStep, PTL DEF Spec

\* Every variable of the session and of the layer below keeps its type,
\* whatever the program, the library and the network do.
THEOREM TypeCorrect == Spec => []TypeOK
<1>1. SessionInv => TypeOK
  BY TypeParts DEF SessionInv
<1> QED
  BY <1>1, SessionInvariant, PTL

\* No connection is open between calls: every exit of a request function
\* passes the close of XI_FUNCTION_EPILOGUE (xively.c:79-85).
THEOREM SessionQuiescent == Spec => []Quiescent
<1>1. SessionInv => Quiescent
  BY DEF SessionInv, StageLive, Quiescent
<1> QED
  BY <1>1, SessionInvariant, PTL

\* A program that was handed NULL finds a code in the error register
\* (xi_err.h:10), however many steps failed on the way out.
THEOREM SessionNullMeansError == Spec => []NullMeansError
<1>1. SessionInv => NullMeansError
  BY DEF SessionInv, NullErr, NullMeansError
<1> QED
  BY <1>1, SessionInvariant, PTL

\* The response a program holds between calls is the complete reply to the
\* call that returned it, although all calls share one static object
\* (http_transport_layer.c:421).
THEOREM SessionOwnReply == Spec => []OwnReply
<1>1. SessionInv => OwnReply
  BY DEF SessionInv, ResponseOk, OwnReply
<1> QED
  BY <1>1, SessionInvariant, PTL

\* What is left behind between calls was left by a call that failed in
\* open_connection (posix_comm.c:63-107).
THEOREM SessionResidue == Spec => []ResidueOnlyFromOpen
<1>1. SessionInv => ResidueOnlyFromOpen
  BY DEF SessionInv, StageLive, Residue, ResidueOnlyFromOpen
<1> QED
  BY <1>1, SessionInvariant, PTL

-----------------------------------------------------------------------------
\* The outcomes told to a program that reads the error register after NULL
\* are true of the server, and stay so.
LEMMA OutcomesAreTrue == SessionInv /\ Polls # "never" => OutcomeIsTrue
  BY DEF SessionInv, SessionTyped, OutcomeOk, ServerOk, OutcomeIsTrue

\* An error reported from before or at the write means that the request is
\* never carried out, and "ok" that it was, for every program that reads the
\* register when a function returned NULL (xively.c:47-95).
THEOREM SessionOutcome == Polls # "never" => (Spec => []OutcomeIsTrue)
<1>1. SUFFICES ASSUME Polls # "never" PROVE Spec => []OutcomeIsTrue
  OBVIOUS
<1>2. SessionInv => OutcomeIsTrue
  BY <1>1, OutcomesAreTrue
<1> QED
  BY <1>2, SessionInvariant, PTL

-----------------------------------------------------------------------------
\* Only the beginning of a call, its end and the server move the abstract
\* state; everything else is a stutter.
LEMMA BeginIsInvoke == ASSUME NEW o \in Ops, Begin(o) PROVE Remote!Invoke
  BY DEF Begin, Remote!Invoke, progVars, netVars

LEMMA EpilogueIsReturn ==
  ASSUME SessionInv, SessionInv', Polls # "never", Epilogue
  PROVE  \E o \in {"ok", "refused", "unsent", "unknown"} : Remote!Return(o)
<1> DEFINE o == outcome'[call]
<1>1. /\ stage = "close" /\ stage' = "idle" /\ call' = call /\ executed' = executed
      /\ call \in Calls
  BY DEF Epilogue, SessionInv, StageLive, netVars
<1>2. /\ outcome' = [outcome EXCEPT ![call] = o]
      /\ o \in {"ok", "refused", "unsent", "unknown"}
  BY <1>1 DEF Epilogue, Learn, SessionInv, SessionTyped, ResponseOk
<1>3. OutcomeIsTrue'
  BY OutcomesAreTrue DEF SessionInv, SessionTyped, OutcomeOk, ServerOk, OutcomeIsTrue
<1>4. /\ o = "ok" => call \in executed
      /\ o \in {"refused", "unsent"} => call \notin executed
  BY <1>1, <1>3 DEF OutcomeIsTrue
<1> HIDE DEF o
<1>5. Remote!Return(o)
  BY <1>1, <1>2, <1>4 DEF Remote!Return
<1> QED
  BY <1>2, <1>5

LEMMA ServeIsExecute ==
  ASSUME SessionInv, Polls # "never", NEW n \in Calls, Serve(n)
  PROVE  Remote!Execute(n) \/ UNCHANGED Remote!vars
<1>1. /\ wire[n] = "whole" /\ answer[n] = "none"
      /\ call' = call /\ stage' = stage /\ outcome' = outcome
      /\ executed' = executed \cup {n} \/ executed' = executed
  BY DEF Serve, callVars, progVars
<1>2. n <= call
  <2>1. n \in Nat /\ call \in Nat
    <3>1. MaxCalls \in Nat
      BY SessionAssumption
    <3>2. call \in 0 .. MaxCalls
      BY DEF SessionInv, SessionTyped
    <3> QED
      BY <3>1, <3>2 DEF Calls
  <2> QED
    BY <1>1, <2>1 DEF SessionInv, Fresh
<1>3. outcome[n] \in {"none", "unknown"}
  BY <1>1 DEF SessionInv, SessionTyped, OutcomeOk, Outcomes
<1> QED
  BY <1>1, <1>2, <1>3 DEF Remote!Execute, Remote!vars

LEMMA RemoteStep ==
  SessionInv /\ SessionInv' /\ Polls # "never" /\ [Next]_vars
    => [Remote!Next]_(Remote!vars)
<1> SUFFICES ASSUME SessionInv, SessionInv', Polls # "never", [Next]_vars
             PROVE  [Remote!Next]_(Remote!vars)
  OBVIOUS
<1> USE DEF vars, commVars, callVars, progVars, netVars, Remote!vars
<1>1. CASE UNCHANGED vars
  BY <1>1
<1>2. CASE GetLastError \/ CreateContext \/ DeleteContext \/ \E t \in {0, 1} : SetNetworkTimeout(t)
  BY <1>2 DEF GetLastError, CreateContext, DeleteContext, SetNetworkTimeout
<1>3. CASE \E o \in Ops : Begin(o)
  BY <1>3, BeginIsInvoke DEF Remote!Next
<1>4. CASE Open \/ Send \/ DecodeReply \/ DecodeContent
  BY <1>4 DEF Open, Send, DecodeReply, DecodeContent, Fail
<1>5. CASE ReadData \/ ReadTimesOut \/ PeerResets \/ PeerCloses
  BY <1>5 DEF ReadData, ReadTimesOut, PeerResets, PeerCloses, ReadError, Arrives, Fail
<1>6. CASE Epilogue
  BY <1>6, EpilogueIsReturn DEF Remote!Next
<1>7. CASE \E n \in Calls : Serve(n)
  BY <1>7, ServeIsExecute DEF Remote!Next, Calls, Remote!Calls
<1>8. CASE \E n \in Calls : RefusePart(n)
  BY <1>8 DEF RefusePart
<1> QED
  BY <1>1, <1>2, <1>3, <1>4, <1>5, <1>6, <1>7, <1>8
     DEF Next, Program, LibraryStep, Environment

\* The request functions implement the remote calls of RemoteCall: at most
\* once, with outcomes that are true for good, for every program that reads
\* the error register when a function returned NULL.
THEOREM ImplementsRemoteCall == Polls # "never" => (Spec => RemoteSpec)
<1>1. SUFFICES ASSUME Polls # "never" PROVE Spec => RemoteSpec
  OBVIOUS
<1>2. Init => Remote!Init
  BY DEF Init, Remote!Init, Calls, Remote!Calls
<1>3. SessionInv /\ SessionInv' /\ [Next]_vars => [Remote!Next]_(Remote!vars)
  BY <1>1, RemoteStep
<1> QED
  BY <1>2, <1>3, SessionInvariant, PTL DEF Spec, RemoteSpec, Remote!Spec

-----------------------------------------------------------------------------
(***************************************************************************)
(* What the error register tells of a call: on top of the session          *)
(* invariant, the step that failed and the code that stands for it are     *)
(* followed from the start of a call to its end.                           *)
(***************************************************************************)
Underway == {"open", "send", "read", "reply"}

\* The codes a program may read after NULL, when fault[n] is f.
NamesOf(f) ==
    CloseErrs \cup
        CASE f = "encode" -> EncodeErrs
          [] f = "open"   -> OpenErrs
          [] f = "send"   -> {"XI_SOCKET_WRITE_ERROR"}
          [] f = "read"   -> {"XI_SOCKET_READ_ERROR"}
          [] f = "reply"  -> ParseErrs
          [] f = "stale"  -> DecodeErrs
          [] OTHER        -> {}

\* What a call that returned a response may leave in the register.
Leftover == {NoErr} \cup DecodeErrs \cup CloseErrs

\* Until a step fails, the history says whether the register was clear.
ClearOrStale ==
    stage \in Underway =>
        /\ fault[call] \in {"none", "stale"}
        /\ fault[call] = "none" => err = NoErr
        /\ Polls # "never" /\ fault[call] = "stale" => err \in NamesOf("stale")

NullHasFault ==
    stage \in {"close", "idle"} /\ call # 0 /\ ~response => fault[call] # "none"

\* Code and failed step agree while NULL is on its way and until it is read.
NullIsNamed ==
    Polls # "never" =>
        /\ stage = "close" /\ ~response => err \in NamesOf(fault[call])
        /\ stage = "idle" /\ unread /\ ctx # "none" => err \in NamesOf(fault[call])

ResponseLeaves ==
    Polls # "never" =>
        /\ stage = "content" => err = NoErr
        /\ stage = "close" /\ response => err \in Leftover
        /\ stage = "idle" /\ ~unread => err \in Leftover

FaultInv ==
    /\ stage # "idle" => ctx = "ready"
    /\ ClearOrStale /\ NullHasFault /\ NullIsNamed /\ ResponseLeaves

-----------------------------------------------------------------------------
LEMMA NamesApart ==
    /\ NoErr \in Leftover /\ CloseErrs \subseteq Leftover /\ DecodeErrs \subseteq Leftover
    /\ \A e \in Leftover : e # NoErr => e \in NamesOf("stale")
    /\ EncodeErrs \subseteq NamesOf("encode") /\ OpenErrs \subseteq NamesOf("open")
    /\ "XI_SOCKET_WRITE_ERROR" \in NamesOf("send")
    /\ "XI_SOCKET_READ_ERROR" \in NamesOf("read")
    /\ ParseErrs \subseteq NamesOf("reply")
    /\ \A f : CloseErrs \subseteq NamesOf(f)
  BY DEF NamesOf, Leftover

LEMMA FaultTyped ==
  ASSUME SessionInv
  PROVE  /\ fault \in [Calls -> Faults] /\ call \in 0 .. MaxCalls
         /\ stage # "idle" => call \in Calls
         /\ call < MaxCalls => call + 1 \in Calls /\ call + 1 # 0
         /\ stage \in Stages /\ response \in BOOLEAN
         /\ stage \in {"open", "send", "read", "reply"} => ~response
         /\ stage = "content" => response
<1>1. MaxCalls \in Nat
  BY SessionAssumption
<1>2. fault \in [Calls -> Faults] /\ call \in 0 .. MaxCalls
      /\ stage \in Stages /\ response \in BOOLEAN
  BY DEF SessionInv, SessionTyped
<1>3. call < MaxCalls => call + 1 \in Calls /\ call + 1 # 0
  BY <1>1, <1>2 DEF Calls
<1>4. QED
  BY <1>2, <1>3 DEF SessionInv, StageLive, ResponseOk

LEMMA FaultStep ==
  ASSUME SessionInv, FaultInv, [Next]_vars
  PROVE  FaultInv'
<1> USE DEF FaultInv
<1>0. FaultInv /\ NullErr /\ CommTyped
  BY DEF SessionInv
<1>1. CASE UNCHANGED vars
  BY <1>1 DEF vars, commVars, callVars, progVars, netVars,
              ClearOrStale, NullHasFault, NullIsNamed, ResponseLeaves
<1>2. CASE GetLastError
  <2>1. /\ stage = "idle" /\ UNCHANGED <<stage, call, response, ctx, fault>>
        /\ err' = NoErr /\ ~unread'
    BY <1>2, SameCodes DEF GetLastError, Comm!GetLastError, callVars
  <2>2. QED
    BY <2>1, NamesApart
       DEF ClearOrStale, NullHasFault, NullIsNamed, ResponseLeaves, Underway
<1>3. ASSUME NEW t \in {0, 1}, SetNetworkTimeout(t) PROVE FaultInv'
  BY <1>3 DEF SetNetworkTimeout, commVars, callVars,
              ClearOrStale, NullHasFault, NullIsNamed, ResponseLeaves
<1>4. CASE CreateContext
  <2>1. /\ stage = "idle" /\ UNCHANGED <<stage, call, response, fault>>
        /\ Polls # "never" => ~unread
        /\ \/ ctx' = "ready" /\ UNCHANGED <<unread, err>>
           \/ ctx' = "none" /\ unread'
    BY <1>0, <1>4, SessionAssumption DEF CreateContext, callVars, Careful, NullErr, SessionAssumption
  <2>2. QED
    BY <2>1 DEF ClearOrStale, NullHasFault, NullIsNamed, ResponseLeaves, Underway
<1>5. CASE DeleteContext
  <2>1. /\ stage = "idle" /\ ctx = "ready" /\ ctx' = "deleted"
        /\ UNCHANGED <<stage, call, response, fault, err, unread>>
    BY <1>5 DEF DeleteContext, callVars, commVars
  <2>2. QED
    BY <2>1 DEF ClearOrStale, NullHasFault, NullIsNamed, ResponseLeaves, Underway
<1>6. ASSUME NEW o \in Ops, Begin(o) PROVE FaultInv'
  <2>1. /\ stage = "idle" /\ ctx = "ready" /\ ctx' = ctx /\ call < MaxCalls
        /\ call' = call + 1 /\ ~response'
        /\ Polls # "never" => ~unread
    BY <1>0, <1>6, SessionAssumption DEF Begin, progVars, Careful, NullErr, SessionAssumption
  <2>2. Polls # "never" => err \in Leftover
    BY <2>1 DEF ResponseLeaves
  <2>3. call' \in Calls
    BY <2>1, FaultTyped
  <2>4. CASE /\ stage' = "open" /\ err' = err
             /\ fault' = [fault EXCEPT ![call + 1] = IF err = NoErr THEN "none" ELSE "stale"]
    <3>1. fault'[call'] = IF err = NoErr THEN "none" ELSE "stale"
      BY <2>1, <2>3, <2>4, FaultTyped
    <3>2. QED
      BY <2>1, <2>2, <2>4, <3>1, NamesApart
         DEF ClearOrStale, NullHasFault, NullIsNamed, ResponseLeaves
  <2>5. CASE /\ stage' = "close" /\ err' \in EncodeErrsOf(o)
             /\ fault' = [fault EXCEPT ![call + 1] = "encode"]
    <3>1. fault'[call'] = "encode"
      BY <2>1, <2>3, <2>5, FaultTyped
    <3>2. err' \in NamesOf("encode")
      BY <2>5, EncodeErrsOfAreEncode, NamesApart
    <3>3. QED
      BY <2>1, <2>5, <3>1, <3>2
         DEF ClearOrStale, NullHasFault, NullIsNamed, ResponseLeaves, Underway
  <2>6. QED
    BY <1>6, <2>4, <2>5 DEF Begin
<1>7. ASSUME NEW step \in {"open", "send", "read", "reply"}, stage \in Underway,
             Fail(step), err' \in NamesOf(step),
             UNCHANGED <<call, response, ctx>>
      PROVE  FaultInv'
  <2>1. stage' = "close" /\ fault'[call'] = step /\ step # "none" /\ call' \in Calls /\ ~response'
    BY <1>7, FaultTyped DEF Fail, Underway
  <2>2. QED
    BY <1>7, <2>1 DEF ClearOrStale, NullHasFault, NullIsNamed, ResponseLeaves, Underway
\* A step that goes well, up to the reply.
<1>8. ASSUME stage \in Underway, stage' \in Underway,
             UNCHANGED <<call, response, ctx, err, fault>>
      PROVE  FaultInv'
  BY <1>8 DEF ClearOrStale, NullHasFault, NullIsNamed, ResponseLeaves, Underway
<1>9. CASE Open
  <2>1. CASE Comm!OpenSucceeds(call) /\ stage' = "send" /\ UNCHANGED fault
    BY <1>8, <1>9, <2>1 DEF Open, Comm!OpenSucceeds, progVars, Underway
  <2>2. CASE Comm!OpenFails(call) /\ Fail("open")
    <3>1. err' \in NamesOf("open")
      BY <1>0, <1>9, <2>2, FaultTyped, OpenFailsEffect, NamesApart DEF Open
    <3>2. QED BY <1>7, <1>9, <2>2, <3>1 DEF Open, progVars, Underway
  <2>3. QED BY <1>9, <2>1, <2>2 DEF Open
<1>10. CASE Send
  <2>1. CASE stage' = "read" /\ UNCHANGED <<commVars, fault>>
    BY <1>8, <1>10, <2>1 DEF Send, commVars, progVars, Underway
  <2>2. CASE Comm!SendFails(call) /\ Fail("send")
    <3>1. err' \in NamesOf("send")
      BY <2>2, NamesApart DEF Comm!SendFails
    <3>2. QED BY <1>7, <1>10, <2>2, <3>1 DEF Send, progVars, Underway
  <2>3. QED BY <1>10, <2>1, <2>2 DEF Send
<1>11. ASSUME stage = "read", NEW t, Arrives(t) PROVE FaultInv'
  BY <1>8, <1>11 DEF Arrives, commVars, progVars, Underway
<1>12. ASSUME stage = "read", ReadError PROVE FaultInv'
  <2>1. err' \in NamesOf("read")
    BY <1>12, NamesApart DEF ReadError, Comm!ReadFails
  <2>2. QED BY <1>7, <1>12, <2>1 DEF ReadError, progVars, Underway
<1>13. CASE DecodeReply
  <2>1. stage = "reply" /\ UNCHANGED <<call, ctx, unread>> /\ call \in Calls /\ ~response
    BY <1>13, FaultTyped DEF DecodeReply, progVars
  <2>2. CASE text \in {"cut", "whole"} /\ err = NoErr
    <3>1. response' /\ stage' \in {"content", "close"} /\ err' = NoErr
      BY <1>13, <2>2 DEF DecodeReply
    <3>2. QED
      BY <2>1, <3>1, NamesApart
         DEF ClearOrStale, NullHasFault, NullIsNamed, ResponseLeaves, Underway
  <2>3. CASE text \in {"cut", "whole"} /\ err # NoErr
    <3>1. err' = err /\ stage' = "close" /\ fault' = fault /\ ~response'
      BY <1>13, <2>1, <2>3 DEF DecodeReply, RejectErrs
    <3>2. fault[call] = "stale"
      BY <2>1, <2>3 DEF ClearOrStale, Underway
    <3>3. QED
      BY <2>1, <3>1, <3>2
         DEF ClearOrStale, NullHasFault, NullIsNamed, ResponseLeaves, Underway
  <2>4. CASE text \notin {"cut", "whole"}
    <3>1. text \in Texts
      BY DEF SessionInv, SessionTyped
    <3>2. Fail("reply") /\ UNCHANGED response
      BY <1>13, <2>4 DEF DecodeReply, Fail
    <3>3. err' \in ParseErrs
      BY <1>13, <2>4, <3>1 DEF DecodeReply, RejectErrs, Texts, ParseErrs
    <3>4. QED
      BY <1>7, <2>1, <3>2, <3>3, NamesApart DEF Underway
  <2>5. QED BY <2>2, <2>3, <2>4
<1>14. CASE DecodeContent
  <2>1. /\ stage = "content" /\ stage' = "close" /\ response' = response /\ response
        /\ UNCHANGED <<call, ctx, unread, fault>>
    BY <1>14, FaultTyped DEF DecodeContent, progVars
  <2>2. Polls # "never" => err' \in Leftover
    BY <1>14, <2>1, DecodeErrsOfAreDecode, NamesApart DEF DecodeContent, ResponseLeaves
  <2>3. QED
    BY <2>1, <2>2 DEF ClearOrStale, NullHasFault, NullIsNamed, ResponseLeaves, Underway
<1>15. CASE Epilogue
  <2>1. /\ stage = "close" /\ stage' = "idle" /\ unread' = ~response
        /\ UNCHANGED <<call, response, ctx, fault>>
    BY <1>15 DEF Epilogue
  <2>2. err' = err \/ err' \in CloseErrs
    BY <1>0, <1>15, <2>1, FaultTyped, CloseEffect DEF Epilogue, commVars
  <2>3. QED
    BY <2>1, <2>2, NamesApart
       DEF ClearOrStale, NullHasFault, NullIsNamed, ResponseLeaves, Underway
<1>16. ASSUME UNCHANGED <<stage, call, response, ctx, err, unread, fault>> PROVE FaultInv'
  BY <1>16 DEF ClearOrStale, NullHasFault, NullIsNamed, ResponseLeaves
<1>17. CASE Program
  BY <1>2, <1>3, <1>4, <1>5, <1>6, <1>17 DEF Program
<1>18. CASE LibraryStep
  BY <1>9, <1>10, <1>11, <1>12, <1>13, <1>14, <1>15, <1>18
     DEF LibraryStep, ReadData, ReadTimesOut
<1>19. CASE Environment
  <2>1. CASE PeerResets
    BY <1>12, <2>1 DEF PeerResets
  <2>2. CASE PeerCloses
    BY <1>11, <2>2 DEF PeerCloses
  <2>3. ASSUME NEW n \in Calls, Serve(n) \/ RefusePart(n) PROVE FaultInv'
    <3>1. UNCHANGED <<stage, call, response, ctx, err, unread, fault>>
      BY <2>3 DEF Serve, RefusePart, commVars, callVars, progVars
    <3>2. QED BY <1>16, <3>1
  <2>4. QED BY <1>19, <2>1, <2>2, <2>3 DEF Environment
<1>20. QED
  BY <1>1, <1>17, <1>18, <1>19 DEF Next

LEMMA FaultInit == Init => FaultInv
  BY SameCodes DEF Init, Comm!Init, FaultInv, ClearOrStale, NullHasFault, NullIsNamed,
         ResponseLeaves, Underway, Leftover

LEMMA FaultInvariant == Spec => []FaultInv
<1>1. SessionInv /\ FaultInv /\ [Next]_vars => FaultInv'
  BY FaultStep
<1>2. QED
  BY SessionInvariant, FaultInit, <1>1, PTL DEF Spec

-----------------------------------------------------------------------------
\* The two lists of xi_err.h and xi_err.c agree: the string of a code is its
\* own name.
LEMMA StringOfCode == \A e \in Errs : xi_get_error_string(ErrNumber(e)) = e
<1>1. XI_ERR_COUNT = 27
  BY DEF XI_ERR_COUNT, xi_err_t
<1>2. \A e \in Errs : \E n \in 0 .. 26 : xi_err_t[n + 1] = e
  <2>1. /\ xi_err_t[0 + 1] = "XI_NO_ERR" /\ xi_err_t[1 + 1] = "XI_OUT_OF_MEMORY"
        /\ xi_err_t[3 + 1] = "XI_HTTP_HEADER_PARSE_ERROR"
        /\ xi_err_t[4 + 1] = "XI_HTTP_PARSE_ERROR"
        /\ xi_err_t[5 + 1] = "XI_HTTP_ENCODE_CREATE_DATASTREAM"
        /\ xi_err_t[9 + 1] = "XI_HTTP_ENCODE_DELETE_DATAPOINT"
        /\ xi_err_t[10 + 1] = "XI_HTTP_ENCODE_DELETE_RANGE_DATAPOINT"
        /\ xi_err_t[11 + 1] = "XI_HTTP_ENCODE_UPDATE_FEED"
        /\ xi_err_t[12 + 1] = "XI_HTTP_CONSTRUCT_REQUEST_BUFFER_OVERRUN"
        /\ xi_err_t[13 + 1] = "XI_HTTP_CONSTRUCT_CONTENT_BUFFER_OVERRUN"
        /\ xi_err_t[14 + 1] = "XI_CSV_ENCODE_DATAPOINT_BUFFER_OVERRUN"
        /\ xi_err_t[15 + 1] = "XI_CSV_ENCODE_DATASTREAM_BUFFER_OVERRUN"
    BY DEF xi_err_t
  <2>2. /\ xi_err_t[16 + 1] = "XI_CSV_DECODE_FEED_PARSER_ERROR"
        /\ xi_err_t[17 + 1] = "XI_CSV_DECODE_DATAPOINT_PARSER_ERROR"
        /\ xi_err_t[18 + 1] = "XI_CSV_TIME_CONVERTION_ERROR"
        /\ xi_err_t[19 + 1] = "XI_SOCKET_INITIALIZATION_ERROR"
        /\ xi_err_t[20 + 1] = "XI_SOCKET_GETHOSTBYNAME_ERROR"
        /\ xi_err_t[21 + 1] = "XI_SOCKET_CONNECTION_ERROR"
        /\ xi_err_t[22 + 1] = "XI_SOCKET_SHUTDOWN_ERROR"
        /\ xi_err_t[23 + 1] = "XI_SOCKET_WRITE_ERROR"
        /\ xi_err_t[24 + 1] = "XI_SOCKET_READ_ERROR"
        /\ xi_err_t[25 + 1] = "XI_SOCKET_CLOSE_ERROR"
    BY DEF xi_err_t
  <2>3. \A e \in Errs : \/ e \in {NoErr} \cup OpenErrs \cup CloseErrs \cup TransferErrs
                        \/ e \in EncodeErrs \cup ParseErrs \cup DecodeErrs
    BY DEF Errs
  <2>4. \A e \in {NoErr} \cup OpenErrs \cup CloseErrs \cup TransferErrs :
           \E n \in 0 .. 26 : xi_err_t[n + 1] = e
    BY <2>1, <2>2 DEF NoErr, OpenErrs, CloseErrs, TransferErrs
  <2>5. \A e \in EncodeErrs \cup ParseErrs \cup DecodeErrs :
           \E n \in 0 .. 26 : xi_err_t[n + 1] = e
    BY <2>1, <2>2 DEF EncodeErrs, ParseErrs, DecodeErrs
  <2>6. QED BY <2>3, <2>4, <2>5
<1>3. ASSUME NEW e \in Errs PROVE xi_get_error_string(ErrNumber(e)) = e
  <2>1. ErrNumber(e) \in 0 .. 26 /\ xi_err_t[ErrNumber(e) + 1] = e
    <3>1. 0 .. XI_ERR_COUNT - 1 = 0 .. 26
      BY <1>1
    <3>2. ErrNumber(e) = CHOOSE n \in 0 .. 26 : xi_err_t[n + 1] = e
      BY <3>1, Zenon DEF ErrNumber
    <3>3. \E n \in 0 .. 26 : xi_err_t[n + 1] = e
      BY <1>2
    <3>4. QED BY <3>2, <3>3, Zenon
  <2>2. xi_err_string = xi_err_t
    BY DEF xi_err_string, xi_err_t
  <2>3. xi_get_error_string(ErrNumber(e)) = xi_err_string[ErrNumber(e) + 1]
    BY <1>1, <2>1 DEF xi_get_error_string
  <2>4. QED BY <2>1, <2>2, <2>3
<1>4. QED BY <1>3

-----------------------------------------------------------------------------
\* For any number of calls of any of the functions: NULL is returned only by a
\* call one of whose steps failed, or that began with a code in the register.
THEOREM SessionNullMeansFault == Spec => []NullMeansFault
<1>1. FaultInv => NullMeansFault
  BY DEF FaultInv, NullHasFault, NullMeansFault
<1>2. QED BY FaultInvariant, <1>1, PTL

\* A program that looks at the register at least after every NULL is told the
\* step that failed, in its own words.
THEOREM SessionErrorNamesFault == Polls # "never" => (Spec => []ErrorNamesFault)
<1> SUFFICES ASSUME Polls # "never" PROVE Spec => []ErrorNamesFault
  OBVIOUS
<1>1. SessionInv /\ FaultInv => ErrorNamesFault
  <2> SUFFICES ASSUME SessionInv, FaultInv, stage = "idle", unread, ctx # "none"
               PROVE  xi_get_error_string(ErrNumber(err)) \in NamesOf(fault[call])
    BY DEF ErrorNamesFault, NamesOf
  <2>1. err \in NamesOf(fault[call])
    BY DEF FaultInv, NullIsNamed
  <2>2. err \in Errs
    BY DEF SessionInv, CommTyped
  <2>3. QED BY <2>1, <2>2, StringOfCode
<1>2. QED BY SessionInvariant, FaultInvariant, <1>1, PTL
=============================================================================

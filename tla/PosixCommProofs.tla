-------------------------- MODULE PosixCommProofs --------------------------
(***************************************************************************)
(* The POSIX communication layer keeps its invariants and implements       *)
(* CommLayer, for any number of connections and descriptors.               *)
(***************************************************************************)
EXTENDS PosixComm, TLAPS

\* The three invariants together are inductive: that a live connection is
\* whole needs that an unused one owns nothing, which is in the code's guard.
CommInv == TypeOK /\ LiveIsWhole /\ ResidueIsKnown

\* The codes an open can fail with are codes of the library.
LEMMA OpenErrorIsCode == \A s \in OpenSteps : OpenError(s) \in Errs
  BY DEF OpenSteps, OpenError, Allocations, SocketSetup, Errs, OpenErrs

\* The blocks in place at a failing step are blocks.
LEMMA HeapBeforeIsBlocks == \A s \in OpenSteps : HeapBefore(s) \subseteq Blocks
  BY DEF OpenSteps, HeapBefore, Allocations, SocketSetup, Blocks

\* What each outcome of an open does, with the program order of the steps
\* worked out: only a failing socket() keeps blocks, only a later step keeps
\* the descriptor.
LEMMA OpenFailsEffect ==
  ASSUME NEW c \in Conns, TypeOK, OpenFails(c)
  PROVE  /\ Unused(c) /\ live' = live /\ err' \in Errs
         /\ \/ heap' = [heap EXCEPT ![c] = {}] /\ sock' = sock
            \/ heap' = [heap EXCEPT ![c] = Blocks] /\ sock' = sock
            \/ heap' = [heap EXCEPT ![c] = {}] /\ sock' = sock \cup {c}
<1>1. CASE \E s \in OpenSteps : OpenOutOfMemory(c, s)
  BY <1>1, OpenErrorIsCode, HeapBeforeIsBlocks DEF OpenOutOfMemory, ErrHandling
<1>2. CASE \E s \in OpenSteps : OpenSetupFails(c, s)
  BY <1>2, OpenErrorIsCode, HeapBeforeIsBlocks DEF OpenSetupFails, ErrHandling
<1>3. CASE OpenNoSocket(c)
  <2>1. HeapBefore("socket") = Blocks
    BY DEF HeapBefore
  <2>2. OpenError("socket") \in Errs
    BY OpenErrorIsCode DEF OpenSteps
  <2> QED
    BY <1>3, <2>1, <2>2 DEF OpenNoSocket
<1> QED
  BY <1>1, <1>2, <1>3 DEF OpenFails

LEMMA CommInvInit == Init => CommInv
  BY DEF Init, CommInv, TypeOK, LiveIsWhole, ResidueIsKnown, Errs

\* No call of the layer breaks the invariants.
LEMMA CommInvStep == CommInv /\ [Next]_vars => CommInv'
<1> SUFFICES ASSUME CommInv, [Next]_vars PROVE CommInv'
  OBVIOUS
<1> USE DEF CommInv
<1>1. ASSUME NEW c \in Conns, OpenFails(c) PROVE CommInv'
  <2>1. /\ Unused(c) /\ live' = live /\ err' \in Errs
        /\ \/ heap' = [heap EXCEPT ![c] = {}] /\ sock' = sock
           \/ heap' = [heap EXCEPT ![c] = Blocks] /\ sock' = sock
           \/ heap' = [heap EXCEPT ![c] = {}] /\ sock' = sock \cup {c}
    BY <1>1, OpenFailsEffect
  <2>2. TypeOK'
    BY <2>1 DEF TypeOK
  <2>3. LiveIsWhole'
    BY <2>1 DEF TypeOK, LiveIsWhole, Unused
  <2>4. ResidueIsKnown'
    BY <2>1 DEF TypeOK, ResidueIsKnown, Unused, Blocks
  <2> QED
    BY <2>2, <2>3, <2>4
<1>2. ASSUME NEW c \in Conns, OpenSucceeds(c) PROVE CommInv'
  BY <1>2 DEF OpenSucceeds, TypeOK, LiveIsWhole, ResidueIsKnown, Unused
<1>3. ASSUME NEW c \in Conns, SendFails(c) \/ ReadFails(c) PROVE CommInv'
  BY <1>3 DEF SendFails, ReadFails, TypeOK, LiveIsWhole, ResidueIsKnown, Errs, TransferErrs
<1>4. ASSUME NEW c \in Conns, Close(c) PROVE CommInv'
  <2>1. TypeOK'
    BY <1>4 DEF Close, TypeOK, Errs
  <2>2. LiveIsWhole'
    BY <1>4 DEF Close, TypeOK, LiveIsWhole
  <2>3. ResidueIsKnown'
    BY <1>4 DEF Close, TypeOK, LiveIsWhole, ResidueIsKnown
  <2> QED
    BY <2>1, <2>2, <2>3
<1>5. CASE GetLastError
  BY <1>5 DEF GetLastError, TypeOK, LiveIsWhole, ResidueIsKnown, Errs
<1>6. CASE UNCHANGED vars
  BY <1>6 DEF vars, TypeOK, LiveIsWhole, ResidueIsKnown
<1> QED
  BY <1>1, <1>2, <1>3, <1>4, <1>5, <1>6 DEF Next

\* Every state of the layer is well typed.
THEOREM TypeCorrect == Spec => []TypeOK
<1>1. CommInv => TypeOK
  BY DEF CommInv
<1> QED
  BY <1>1, CommInvInit, CommInvStep, PTL DEF Spec

\* A connection the caller holds owns its socket and all its blocks, so send,
\* read and close never follow a freed or missing pointer.
THEOREM LiveConnectionsAreWhole == Spec => []LiveIsWhole
<1>1. CommInv => LiveIsWhole
  BY DEF CommInv
<1> QED
  BY <1>1, CommInvInit, CommInvStep, PTL DEF Spec

\* What a failed open leaves is all of its blocks or its descriptor, never
\* both, for any number of failures.
THEOREM ResidueIsBounded == Spec => []ResidueIsKnown
<1>1. CommInv => ResidueIsKnown
  BY DEF CommInv
<1> QED
  BY <1>1, CommInvInit, CommInvStep, PTL DEF Spec

\* close_connection gives back everything the connection owned
\* (comm_layer.h:61).
THEOREM ClosingFreesAll == Spec => CloseFreesAll
<1>1. CommInv /\ [Next]_vars
        => [\A c \in Conns : c \in live /\ c \notin live'
              => heap'[c] = {} /\ c \notin sock']_vars
  <2> SUFFICES ASSUME CommInv, Next, NEW c \in Conns, c \in live, c \notin live'
               PROVE  heap'[c] = {} /\ c \notin sock'
    OBVIOUS
  <2>1. PICK d \in Conns : Close(d)
    <3>1. ASSUME NEW d \in Conns, OpenFails(d) PROVE FALSE
      BY <3>1, OpenFailsEffect DEF CommInv
    <3> QED
      BY <3>1 DEF Next, OpenSucceeds, SendFails, ReadFails, GetLastError
  <2>2. d = c
    BY <2>1 DEF Close
  <2> QED
    BY <2>1, <2>2 DEF Close, CommInv, TypeOK, LiveIsWhole
<1> QED
  BY <1>1, CommInvInit, CommInvStep, PTL DEF Spec, CloseFreesAll

\* The layer implements the abstract one: an open that stops early loses the
\* connection or changes nothing, and a close always makes it available again.
THEOREM ImplementsCommLayer == Spec => LayerSpec
<1> USE DEF connStatus
<1>1. Init => Layer!Init
  BY DEF Init, Layer!Init
<1>2. CommInv /\ [Next]_vars => [Layer!Next]_connStatus
  <2> SUFFICES ASSUME CommInv, [Next]_vars PROVE [Layer!Next]_connStatus
    OBVIOUS
  <2> USE DEF CommInv
  <2>1. ASSUME NEW c \in Conns, OpenFails(c) PROVE [Layer!Next]_connStatus
    <3>1. /\ Unused(c) /\ live' = live
          /\ \/ heap' = [heap EXCEPT ![c] = {}] /\ sock' = sock
             \/ heap' = [heap EXCEPT ![c] = Blocks] /\ sock' = sock
             \/ heap' = [heap EXCEPT ![c] = {}] /\ sock' = sock \cup {c}
      BY <2>1, OpenFailsEffect
    <3>2. CASE heap' = [heap EXCEPT ![c] = {}] /\ sock' = sock
      BY <3>1, <3>2 DEF Unused, TypeOK
    <3>3. CASE heap' = [heap EXCEPT ![c] = Blocks] \/ sock' = sock \cup {c}
      <4>1. connStatus[c] = "idle"
        BY <3>1 DEF Unused
      <4>2. connStatus' = [connStatus EXCEPT ![c] = "lost"]
        BY <3>1, <3>3 DEF Unused, TypeOK, Blocks
      <4>3. Layer!OpenFails(c)
        BY <4>1, <4>2 DEF Layer!OpenFails
      <4> QED
        BY <4>3 DEF Layer!Next
    <3> QED
      BY <3>1, <3>2, <3>3
  <2>2. ASSUME NEW c \in Conns, OpenSucceeds(c) PROVE [Layer!Next]_connStatus
    <3>1. connStatus[c] = "idle"
      BY <2>2 DEF OpenSucceeds, Unused
    <3>2. connStatus' = [connStatus EXCEPT ![c] = "open"]
      BY <2>2 DEF OpenSucceeds, Unused, TypeOK
    <3> QED
      BY <3>1, <3>2 DEF Layer!OpenSucceeds, Layer!Next
  <2>3. ASSUME NEW c \in Conns, Close(c) PROVE [Layer!Next]_connStatus
    <3>1. connStatus[c] = "open"
      BY <2>3 DEF Close
    <3>2. connStatus' = [connStatus EXCEPT ![c] = "idle"]
      BY <2>3 DEF Close, TypeOK, LiveIsWhole
    <3> QED
      BY <3>1, <3>2 DEF Layer!Close, Layer!Next
  <2>4. CASE \/ \E c \in Conns : SendFails(c) \/ ReadFails(c)
             \/ GetLastError
             \/ UNCHANGED vars
    BY <2>4 DEF SendFails, ReadFails, GetLastError, vars
  <2> QED
    BY <2>1, <2>2, <2>3, <2>4 DEF Next
<1> QED
  BY <1>1, <1>2, CommInvInit, CommInvStep, PTL DEF Spec, LayerSpec, Layer!Spec
=============================================================================

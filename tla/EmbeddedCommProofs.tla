------------------------- MODULE EmbeddedCommProofs -------------------------
(***************************************************************************)
(* For any number of connections, the layers for mbed, nanoqplus and the   *)
(* dummy keep connections whole, leave behind only what ResidueIsKnown     *)
(* says, and implement CommLayer with the losses LossesOf gives them.      *)
(***************************************************************************)
EXTENDS EmbeddedComm, TLAPS

\* Inductive as it stands: a connection is opened only when it owns nothing.
LayersInv == TypeOK /\ LiveIsWhole /\ ResidueIsKnown

-----------------------------------------------------------------------------
\* Every step the layers take is one of six, whatever the platform; connection
\* c moves as the last lines of each say and the others stay as they are.
Stays == live' = live /\ heap' = heap /\ sock' = sock /\ wild' = wild
Opens(c) ==
    /\ Unused(c) /\ live' = live \cup {c} /\ heap' = [heap EXCEPT ![c] = Blocks]
    /\ \/ layer # "dummy" /\ sock' = sock \cup {c}
       \/ /\ layer = "dummy" \/ (layer = "nq" /\ ~asserts)
          /\ sock' = sock
    /\ wild' = wild
LosesObject(c) ==
    /\ layer = "mbed" /\ Unused(c) /\ sock' = sock \cup {c}
    /\ live' = live /\ heap' = [heap EXCEPT ![c] = {}] /\ wild' \in BOOLEAN
Closes(c) ==
    /\ c \in live /\ live' = live \ {c} /\ heap' = [heap EXCEPT ![c] = {}]
    /\ sock' = sock \ {c} /\ wild' = wild
LosesBlocks(c) ==
    /\ layer = "nq" /\ c \in live /\ live' = live \ {c} /\ heap' = heap
    /\ sock' = sock \ {c} /\ wild' = wild
LosesIndex(c) ==
    /\ layer = "nq" /\ c \in live \cap sock /\ live' = live \ {c}
    /\ heap' = [heap EXCEPT ![c] = {}] /\ sock' = sock /\ wild' = wild

StepShape ==
    /\ err' \in Errs /\ halted' \in BOOLEAN /\ layer' = layer /\ asserts' = asserts
    /\ \/ Stays
       \/ \E c \in Conns : \/ Opens(c) \/ LosesObject(c) \/ Closes(c)
                           \/ LosesBlocks(c) \/ LosesIndex(c)

LEMMA CodesAreCodes ==
    /\ NoErr \in Errs
    /\ {"XI_OUT_OF_MEMORY", "XI_SOCKET_CONNECTION_ERROR", "XI_SOCKET_CLOSE_ERROR",
        "XI_SOCKET_WRITE_ERROR", "XI_SOCKET_READ_ERROR"} \subseteq Errs
  BY DEF Errs, OpenErrs, CloseErrs, TransferErrs, NoErr

\* Freeing what a failed open had allocated leaves an unused heap unchanged.
LEMMA FreesAllIsNothing ==
  ASSUME TypeOK, NEW c \in Conns, Unused(c),
         NEW s \in {"data", "conn", "address", "connect"}, FreesAll(c, s)
  PROVE  heap' = heap /\ heap' = [heap EXCEPT ![c] = {}]
<1>1. HeapBefore(s) \ Blocks = {}
  BY DEF HeapBefore, Blocks
<1>2. heap' = [heap EXCEPT ![c] = {}]
  BY <1>1 DEF FreesAll
<1>3. heap[c] = {} /\ heap \in [Conns -> SUBSET Blocks]
  BY DEF Unused, TypeOK, CommTypeOK
<1> QED
  BY <1>2, <1>3

LEMMA HaltShape == TypeOK /\ Halt /\ layer' = layer /\ asserts' = asserts => StepShape
  BY DEF TypeOK, CommTypeOK, Halt, StepShape, Stays

LEMMA ReportsShape ==
  ASSUME TypeOK, layer' = layer, asserts' = asserts, NEW code \in Errs, Reports(code)
  PROVE  StepShape
  BY DEF TypeOK, CommTypeOK, Reports, StepShape, Stays

\* A connection of the caller is whole, so freeing the blocks leaves none.
LEMMA FreedBlocks ==
  ASSUME TypeOK, NEW c \in Conns, heap' = [heap EXCEPT ![c] = @ \ Blocks]
  PROVE  heap' = [heap EXCEPT ![c] = {}]
<1>1. heap[c] \ Blocks = {}
  BY DEF TypeOK, CommTypeOK
<1> QED
  BY <1>1

\* Each layer brings its own copy of the definitions of CommState; they agree.
LEMMA DummyTerms ==
  ASSUME NEW c \in Conns
  PROVE  /\ Dummy!Unused(c) <=> Unused(c)
         /\ Dummy!HandsOver(c) <=> HandsOver(c)
         /\ Dummy!Halt <=> Halt
         /\ Dummy!AssertFails <=> AssertFails
         /\ \A s : Dummy!FreesAll(c, s) <=> FreesAll(c, s)
         /\ \A code : Dummy!Reports(code) <=> Reports(code)
         /\ Dummy!Blocks = Blocks
  BY DEF Dummy!Unused, Unused, Dummy!HandsOver, HandsOver, Dummy!Halt, Halt,
         Dummy!AssertFails, AssertFails, Dummy!FreesAll, FreesAll,
         Dummy!HeapBefore, HeapBefore, Dummy!Reports, Reports, Dummy!Blocks, Blocks

LEMMA MbedTerms ==
  ASSUME NEW c \in Conns
  PROVE  /\ Mbed!Unused(c) <=> Unused(c)
         /\ Mbed!HandsOver(c) <=> HandsOver(c)
         /\ Mbed!Halt <=> Halt
         /\ Mbed!AssertFails <=> AssertFails
         /\ \A s : Mbed!FreesAll(c, s) <=> FreesAll(c, s)
         /\ \A code : Mbed!Reports(code) <=> Reports(code)
         /\ Mbed!Blocks = Blocks
  BY DEF Mbed!Unused, Unused, Mbed!HandsOver, HandsOver, Mbed!Halt, Halt,
         Mbed!AssertFails, AssertFails, Mbed!FreesAll, FreesAll,
         Mbed!HeapBefore, HeapBefore, Mbed!Reports, Reports, Mbed!Blocks, Blocks

LEMMA NqTerms ==
  ASSUME NEW c \in Conns
  PROVE  /\ Nq!Unused(c) <=> Unused(c)
         /\ Nq!HandsOver(c) <=> HandsOver(c)
         /\ Nq!Halt <=> Halt
         /\ Nq!AssertFails <=> AssertFails
         /\ \A s : Nq!FreesAll(c, s) <=> FreesAll(c, s)
         /\ \A code : Nq!Reports(code) <=> Reports(code)
         /\ Nq!Blocks = Blocks
  BY DEF Nq!Unused, Unused, Nq!HandsOver, HandsOver, Nq!Halt, Halt,
         Nq!AssertFails, AssertFails, Nq!FreesAll, FreesAll,
         Nq!HeapBefore, HeapBefore, Nq!Reports, Reports, Nq!Blocks, Blocks

LEMMA DummyShape ==
  ASSUME LayersInv, ~halted, DummyStep, layer' = layer, asserts' = asserts
  PROVE  StepShape
<1> USE DEF LayersInv
<1>0. layer = "dummy" /\ Dummy!Next
  BY DEF DummyStep
<1>1. PICK c \in Conns : \/ \E s \in {"data", "conn", "address"} : Dummy!OpenOutOfMemory(c, s)
                         \/ Dummy!OpenSucceeds(c) \/ Dummy!Close(c)
  BY <1>0 DEF Dummy!Next
<1>2. CASE \E s \in {"data", "conn", "address"} : Dummy!OpenOutOfMemory(c, s)
  <2>1. PICK s \in {"data", "conn", "address"} : Dummy!OpenOutOfMemory(c, s)
    BY <1>2
  <2>2. heap' = heap
    BY DummyTerms, <2>1, FreesAllIsNothing DEF Dummy!OpenOutOfMemory
  <2>3. Stays /\ err' \in Errs /\ halted' = halted
    BY DummyTerms, <2>1, <2>2, CodesAreCodes DEF Dummy!OpenOutOfMemory, Stays
  <2> QED
    BY <2>3 DEF StepShape, TypeOK, CommTypeOK
<1>3. CASE Dummy!OpenSucceeds(c)
  <2>1. CASE AssertFails
    BY <2>1, HaltShape DEF AssertFails
  <2>2. CASE HandsOver(c) /\ UNCHANGED <<sock, err, halted, wild>>
    <3>1. Opens(c) /\ err' = err /\ halted' = halted
      BY DummyTerms, <1>0, <1>3, <2>2 DEF Dummy!OpenSucceeds, HandsOver, Opens
    <3> QED
      BY <3>1 DEF StepShape, TypeOK, CommTypeOK
  <2> QED
    BY DummyTerms, <1>3, <2>1, <2>2 DEF Dummy!OpenSucceeds
<1>4. CASE Dummy!Close(c)
  <2>1. /\ c \in live /\ live' = live \ {c} /\ heap' = [heap EXCEPT ![c] = {}]
        /\ sock' = sock /\ err' = err /\ halted' = halted /\ wild' = wild
    BY DummyTerms, <1>4, FreedBlocks DEF Dummy!Close
  <2>2. sock' = sock \ {c}
    BY <1>0, <2>1 DEF LiveIsWhole
  <2>3. Closes(c)
    BY <2>1, <2>2 DEF Closes
  <2> QED
    BY <2>1, <2>3 DEF StepShape, TypeOK, CommTypeOK
<1> QED
  BY <1>1, <1>2, <1>3, <1>4

LEMMA MbedShape ==
  ASSUME LayersInv, ~halted, MbedStep, layer' = layer, asserts' = asserts
  PROVE  StepShape
<1> USE DEF LayersInv
<1>0. layer = "mbed" /\ Mbed!Next /\ err \in Errs /\ halted \in BOOLEAN /\ wild \in BOOLEAN
  BY DEF MbedStep, TypeOK, CommTypeOK
<1>1. PICK c \in Conns :
         \/ Mbed!OpenNoObject(c) \/ Mbed!OpenNoData(c)
         \/ \E s \in {"conn", "address"} : Mbed!OpenOutOfMemory(c, s)
         \/ Mbed!OpenRefused(c) \/ Mbed!OpenSucceeds(c)
         \/ Mbed!SendFails(c) \/ Mbed!ReadFails(c) \/ Mbed!Close(c)
  BY <1>0 DEF Mbed!Next
<1>2. CASE Mbed!OpenNoObject(c) \/ Mbed!SendFails(c) \/ Mbed!ReadFails(c)
  BY MbedTerms, <1>2, CodesAreCodes, ReportsShape DEF Mbed!OpenNoObject, Mbed!SendFails, Mbed!ReadFails
<1>3. CASE Mbed!OpenNoData(c)
  <2>1. heap' = [heap EXCEPT ![c] = {}]
    BY MbedTerms, <1>3, FreesAllIsNothing DEF Mbed!OpenNoData
  <2>2. LosesObject(c) /\ err' \in Errs /\ halted' = halted
    BY MbedTerms, <1>0, <1>3, <2>1, CodesAreCodes DEF Mbed!OpenNoData, LosesObject
  <2> QED
    BY <1>0, <2>2 DEF StepShape
<1>4. CASE \E s \in {"conn", "address"} : Mbed!OpenOutOfMemory(c, s)
  <2>1. PICK s \in {"conn", "address"} : Mbed!OpenOutOfMemory(c, s)
    BY <1>4
  <2>2. CASE Halt
    BY <2>2, HaltShape
  <2>3. CASE ~Halt
    <3>1. heap' = [heap EXCEPT ![c] = {}]
      BY MbedTerms, <2>1, <2>3, FreesAllIsNothing DEF Mbed!OpenOutOfMemory
    <3>2. LosesObject(c) /\ err' \in Errs /\ halted' = halted
      BY MbedTerms, <1>0, <2>1, <2>3, <3>1, CodesAreCodes DEF Mbed!OpenOutOfMemory, LosesObject
    <3> QED
      BY <1>0, <3>2 DEF StepShape
  <2> QED
    BY <2>2, <2>3
<1>5. CASE Mbed!OpenRefused(c)
  <2>1. heap' = heap
    BY MbedTerms, <1>5, FreesAllIsNothing DEF Mbed!OpenRefused
  <2>2. Stays /\ err' \in Errs /\ halted' = halted
    BY MbedTerms, <1>5, <2>1, CodesAreCodes DEF Mbed!OpenRefused, Stays
  <2> QED
    BY <1>0, <2>2 DEF StepShape
<1>6. CASE Mbed!OpenSucceeds(c)
  <2>1. Opens(c) /\ err' = err /\ halted' = halted
    BY MbedTerms, <1>0, <1>6 DEF Mbed!OpenSucceeds, HandsOver, Opens
  <2> QED
    BY <1>0, <2>1 DEF StepShape
<1>7. CASE Mbed!Close(c)
  <2>1. heap' = [heap EXCEPT ![c] = {}]
    BY MbedTerms, <1>7, FreedBlocks DEF Mbed!Close
  <2>2. Closes(c) /\ err' \in Errs /\ halted' = halted
    BY MbedTerms, <1>0, <1>7, <2>1, CodesAreCodes DEF Mbed!Close, Closes
  <2> QED
    BY <1>0, <2>2 DEF StepShape
<1> QED
  BY <1>1, <1>2, <1>3, <1>4, <1>5, <1>6, <1>7

LEMMA NqShape ==
  ASSUME LayersInv, ~halted, NqStep, layer' = layer, asserts' = asserts
  PROVE  StepShape
<1> USE DEF LayersInv
<1>0. layer = "nq" /\ Nq!Next /\ err \in Errs /\ halted \in BOOLEAN
  BY DEF NqStep, TypeOK, CommTypeOK
<1>1. PICK c \in Conns :
         \/ \E s \in {"data", "conn", "address", "connect"} : Nq!OpenFails(c, s)
         \/ Nq!OpenIsMinusOne(c) \/ Nq!OpenSucceeds(c)
         \/ Nq!SendFails(c) \/ Nq!ReadFails(c)
         \/ Nq!CloseSucceeds(c) \/ Nq!CloseFails(c)
  BY <1>0 DEF Nq!Next
<1>2. CASE \E s \in {"data", "conn", "address", "connect"} : Nq!OpenFails(c, s)
  <2>1. PICK s \in {"data", "conn", "address", "connect"} : Nq!OpenFails(c, s)
    BY <1>2
  <2>2. heap' = heap
    BY NqTerms, <2>1, FreesAllIsNothing DEF Nq!OpenFails
  <2>3. Stays /\ err' \in Errs /\ halted' = halted
    BY NqTerms, <2>1, <2>2, CodesAreCodes DEF Nq!OpenFails, Stays
  <2> QED
    BY <1>0, <2>3 DEF StepShape
<1>3. CASE Nq!OpenIsMinusOne(c)
  <2>1. CASE AssertFails
    BY <2>1, HaltShape DEF AssertFails
  <2>2. CASE ~AssertFails
    <3>1. Opens(c) /\ err' = err /\ halted' = halted
      BY NqTerms, <1>0, <1>3, <2>2 DEF Nq!OpenIsMinusOne, HandsOver, Opens
    <3> QED
      BY <1>0, <3>1 DEF StepShape
  <2> QED
    BY <2>1, <2>2
<1>4. CASE Nq!OpenSucceeds(c)
  <2>1. Opens(c) /\ err' = err /\ halted' = halted
    BY NqTerms, <1>0, <1>4 DEF Nq!OpenSucceeds, HandsOver, Opens
  <2> QED
    BY <1>0, <2>1 DEF StepShape
<1>5. CASE Nq!SendFails(c) \/ Nq!ReadFails(c)
  BY NqTerms, <1>5, CodesAreCodes, ReportsShape DEF Nq!SendFails, Nq!ReadFails
<1>6. CASE Nq!CloseSucceeds(c)
  <2>1. LosesBlocks(c) /\ err' = err /\ halted' = halted
    BY NqTerms, <1>0, <1>6 DEF Nq!CloseSucceeds, LosesBlocks
  <2> QED
    BY <1>0, <2>1 DEF StepShape
<1>7. CASE Nq!CloseFails(c)
  <2>1. heap' = [heap EXCEPT ![c] = {}]
    BY NqTerms, <1>7, FreedBlocks DEF Nq!CloseFails
  <2>2. (LosesIndex(c) \/ Closes(c)) /\ err' \in Errs /\ halted' = halted
    BY NqTerms, <1>0, <1>7, <2>1, CodesAreCodes DEF Nq!CloseFails, LosesIndex, Closes
  <2> QED
    BY <1>0, <2>2 DEF StepShape
<1> QED
  BY <1>1, <1>2, <1>3, <1>4, <1>5, <1>6, <1>7

\* The three layers, seen through the shapes.
LEMMA NextShape == LayersInv /\ Next => StepShape
<1> SUFFICES ASSUME LayersInv, Next PROVE StepShape
  OBVIOUS
<1>1. ~halted /\ layer' = layer /\ asserts' = asserts
  BY DEF Next
<1>2. CASE GetLastError
  BY <1>1, <1>2, CodesAreCodes, ReportsShape DEF GetLastError, LayersInv
<1> QED
  BY <1>1, <1>2, DummyShape, MbedShape, NqShape DEF Next
-----------------------------------------------------------------------------
LEMMA LayersInvInit == Init => LayersInv
  BY CodesAreCodes
     DEF Init, CommInit, LayersInv, TypeOK, CommTypeOK, LiveIsWhole, ResidueIsKnown

LEMMA LayersInvStep == LayersInv /\ [Next]_vars => LayersInv'
<1> SUFFICES ASSUME LayersInv, [Next]_vars PROVE LayersInv'
  OBVIOUS
<1> USE DEF LayersInv
<1>0. /\ layer \in Layers /\ live \subseteq Conns /\ sock \subseteq Conns
      /\ heap \in [Conns -> SUBSET Blocks] /\ Blocks # {}
  BY DEF TypeOK, CommTypeOK, Blocks
<1>1. CASE UNCHANGED vars
  BY <1>1 DEF vars, commVars, TypeOK, CommTypeOK, LiveIsWhole, ResidueIsKnown
<1>2. CASE StepShape
  <2>0. err' \in Errs /\ halted' \in BOOLEAN /\ layer' = layer /\ asserts' = asserts
    BY <1>2 DEF StepShape
  <2>1. CASE Stays
    BY <2>0, <2>1 DEF Stays, TypeOK, CommTypeOK, LiveIsWhole, ResidueIsKnown
  <2>2. ASSUME NEW c \in Conns, Opens(c) PROVE LayersInv'
    <3>1. TypeOK'
      BY <2>0, <2>2 DEF Opens, TypeOK, CommTypeOK
    <3>2. LiveIsWhole'
      BY <1>0, <2>0, <2>2 DEF Opens, Unused, LiveIsWhole
    <3>3. ResidueIsKnown'
      BY <1>0, <2>0, <2>2 DEF Opens, Unused, ResidueIsKnown, Layers
    <3> QED
      BY <3>1, <3>2, <3>3
  <2>3. ASSUME NEW c \in Conns, LosesObject(c) PROVE LayersInv'
    <3>1. TypeOK'
      BY <2>0, <2>3 DEF LosesObject, TypeOK, CommTypeOK
    <3>2. LiveIsWhole'
      BY <1>0, <2>0, <2>3 DEF LosesObject, Unused, LiveIsWhole
    <3>3. ResidueIsKnown'
      BY <1>0, <2>0, <2>3 DEF LosesObject, Unused, ResidueIsKnown, Layers
    <3> QED
      BY <3>1, <3>2, <3>3
  <2>4. ASSUME NEW c \in Conns, Closes(c) PROVE LayersInv'
    <3>1. TypeOK'
      BY <2>0, <2>4 DEF Closes, TypeOK, CommTypeOK
    <3>2. LiveIsWhole'
      BY <1>0, <2>0, <2>4 DEF Closes, LiveIsWhole
    <3>3. ResidueIsKnown'
      <4>1. sock' \ live' = sock \ live /\ wild' = wild
        BY <2>4 DEF Closes
      <4>2. ASSUME NEW d \in Conns \ live'
            PROVE  \/ heap'[d] = {} /\ d \notin sock'
                   \/ d \in Conns \ live /\ heap'[d] = heap[d] /\ (d \in sock' <=> d \in sock)
        BY <1>0, <2>4 DEF Closes
      <4> QED
        BY <2>0, <4>1, <4>2 DEF ResidueIsKnown
    <3> QED
      BY <3>1, <3>2, <3>3
  <2>5. ASSUME NEW c \in Conns, LosesBlocks(c) \/ LosesIndex(c) PROVE LayersInv'
    <3>1. TypeOK'
      BY <2>0, <2>5 DEF LosesBlocks, LosesIndex, TypeOK, CommTypeOK
    <3>2. LiveIsWhole'
      BY <1>0, <2>0, <2>5 DEF LosesBlocks, LosesIndex, LiveIsWhole
    <3>3. ResidueIsKnown'
      <4>1. layer = "nq" /\ wild' = wild /\ ~wild
        BY <2>5 DEF LosesBlocks, LosesIndex, ResidueIsKnown
      <4>2. ASSUME NEW d \in Conns \ live'
            PROVE  heap'[d] = {} \/ (heap'[d] = Blocks /\ d \notin sock')
        <5>1. CASE d = c
          BY <1>0, <2>5, <5>1 DEF LosesBlocks, LosesIndex, LiveIsWhole
        <5>2. CASE d # c
          <6>1. /\ d \in Conns \ live /\ heap'[d] = heap[d]
                /\ d \in sock' <=> d \in sock
            BY <1>0, <2>5, <4>2, <5>2 DEF LosesBlocks, LosesIndex
          <6> QED
            BY <4>1, <6>1 DEF ResidueIsKnown
        <5> QED
          BY <5>1, <5>2
      <4> QED
        BY <2>0, <4>1, <4>2 DEF ResidueIsKnown
    <3> QED
      BY <3>1, <3>2, <3>3
  <2> QED
    BY <1>2, <2>1, <2>2, <2>3, <2>4, <2>5 DEF StepShape
<1> QED
  BY <1>1, <1>2, NextShape

LEMMA LayersInvariant == Spec => []LayersInv
  BY LayersInvInit, LayersInvStep, PTL DEF Spec
-----------------------------------------------------------------------------
\* Every state of the three layers is well typed.
THEOREM LayersTyped == Spec => []TypeOK
<1>1. LayersInv => TypeOK
  BY DEF LayersInv
<1> QED
  BY <1>1, LayersInvariant, PTL

\* What send, read and close of every layer dereference is there.
THEOREM LayersHandOutWholeConnections == Spec => []LiveIsWhole
<1>1. LayersInv => LiveIsWhole
  BY DEF LayersInv
<1> QED
  BY <1>1, LayersInvariant, PTL

\* The dummy leaves nothing, mbed no block (mbed_comm.cpp:85-96), nanoqplus
\* either the blocks or the TCP connection (nq_comm.c:151-164).
THEOREM LayersResidue == Spec => []ResidueIsKnown
<1>1. LayersInv => ResidueIsKnown
  BY DEF LayersInv
<1> QED
  BY <1>1, LayersInvariant, PTL

\* Every layer implements the abstract one with the losses of LossesOf.
THEOREM LayersImplementCommLayer == Spec => LayersKeepPromise
<1>1. Init => \A l \in Layers : Layer(l)!Init
  BY DEF Init, CommInit, Layer!Init, connStatus
<1>2. LayersInv /\ [Next]_vars
        => [\A l \in Layers : layer = l => Layer(l)!Next \/ UNCHANGED connStatus]_vars
  <2> SUFFICES ASSUME LayersInv, Next, NEW l \in Layers, layer = l
               PROVE  Layer(l)!Next \/ UNCHANGED connStatus
    OBVIOUS
  <2>0. /\ live \subseteq Conns /\ sock \subseteq Conns
        /\ heap \in [Conns -> SUBSET Blocks] /\ Blocks # {}
    BY DEF LayersInv, TypeOK, CommTypeOK, Blocks
  <2>1. StepShape
    BY NextShape
  <2>2. ASSUME NEW c \in Conns, Unused(c) PROVE connStatus[c] = "idle"
    BY <2>2 DEF Unused, connStatus
  <2>3. ASSUME NEW c \in Conns, c \in live PROVE connStatus[c] = "open"
    BY <2>3 DEF connStatus
  <2>4. CASE Stays
    BY <2>4 DEF Stays, connStatus
  <2>5. ASSUME NEW c \in Conns, Opens(c) PROVE Layer(l)!Next
    <3>1. connStatus' = [connStatus EXCEPT ![c] = "open"]
      BY <2>0, <2>5 DEF Opens, Unused, connStatus
    <3>2. Layer(l)!OpenSucceeds(c)
      BY <2>2, <2>5, <3>1 DEF Opens, Layer!OpenSucceeds
    <3> QED
      BY <3>2 DEF Layer!Next
  <2>6. ASSUME NEW c \in Conns, LosesObject(c) PROVE Layer(l)!Next
    <3>1. connStatus' = [connStatus EXCEPT ![c] = "lost"]
      BY <2>0, <2>6 DEF LosesObject, Unused, connStatus
    <3>2. "open" \in LossesOf(l)
      BY <2>6 DEF LosesObject, LossesOf
    <3>3. Layer(l)!OpenFails(c)
      BY <2>2, <2>6, <3>1, <3>2 DEF LosesObject, Layer!OpenFails
    <3> QED
      BY <3>3 DEF Layer!Next
  <2>7. ASSUME NEW c \in Conns, Closes(c) PROVE Layer(l)!Next
    <3>1. connStatus' = [connStatus EXCEPT ![c] = "idle"]
      BY <2>0, <2>7 DEF Closes, connStatus
    <3>2. Layer(l)!Close(c)
      BY <2>3, <2>7, <3>1 DEF Closes, Layer!Close
    <3> QED
      BY <3>2 DEF Layer!Next
  <2>8. ASSUME NEW c \in Conns, LosesBlocks(c) \/ LosesIndex(c) PROVE Layer(l)!Next
    <3>1. heap[c] = Blocks /\ layer = "nq"
      BY <2>8 DEF LosesBlocks, LosesIndex, LayersInv, LiveIsWhole
    <3>2. connStatus' = [connStatus EXCEPT ![c] = "lost"]
      BY <2>0, <2>8, <3>1 DEF LosesBlocks, LosesIndex, connStatus
    <3>3. "close" \in LossesOf(l)
      BY <3>1 DEF LossesOf
    <3>4. Layer(l)!Close(c)
      BY <2>3, <2>8, <3>2, <3>3 DEF LosesBlocks, LosesIndex, Layer!Close
    <3> QED
      BY <3>4 DEF Layer!Next
  <2> QED
    BY <2>1, <2>4, <2>5, <2>6, <2>7, <2>8 DEF StepShape
<1> QED
  BY <1>1, <1>2, LayersInvariant, PTL DEF Spec, LayersKeepPromise
=============================================================================

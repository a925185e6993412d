---------------------------- MODULE EmbeddedComm ----------------------------
(***************************************************************************)
(* The communication layers a build can have in place of the POSIX one:    *)
(* get_comm_layer() leads to the layer that was linked, for good, and the  *)
(* assertions are compiled in or not: release builds and the targets       *)
(* ci_arm (nanoqplus), ci_msp430 and ci_avr (dummy) have none.             *)
(***************************************************************************)
EXTENDS CommState

VARIABLE layer   \* the one get_comm_layer() returns

vars == <<layer, commVars>>

Layers == {"dummy", "mbed", "nq"}

Dummy == INSTANCE DummyComm
Mbed  == INSTANCE MbedComm
Nq    == INSTANCE NqComm

TypeOK == layer \in Layers /\ CommTypeOK

Init == layer \in Layers /\ CommInit

DummyStep == layer = "dummy" /\ Dummy!Next
MbedStep  == layer = "mbed" /\ Mbed!Next
NqStep    == layer = "nq" /\ Nq!Next

\* xi_get_last_error: the register is cleared by being read.
GetLastError == Reports(NoErr)

Next ==
    /\ ~halted
    /\ DummyStep \/ MbedStep \/ NqStep \/ GetLastError
    /\ UNCHANGED <<layer, asserts>>

Spec == Init /\ [][Next]_vars
-----------------------------------------------------------------------------
(***************************************************************************)
(* Properties                                                              *)
(***************************************************************************)
\* A connection the caller holds has all its blocks, in every build: send,
\* read and close dereference them unchecked.  It has its network resource in
\* mbed, and in nanoqplus where the assertions are there to stop the open that
\* got none; the dummy has none to give.
LiveIsWhole ==
    \A c \in live :
        /\ heap[c] = Blocks
        /\ layer = "mbed" \/ (layer = "nq" /\ asserts) => c \in sock
        /\ layer = "dummy" => c \notin sock

\* What each layer leaves behind, over any history of calls: the dummy
\* nothing; mbed at most a socket object, and every delete of a stray pointer
\* (mbed_comm.cpp:87) has left one; nanoqplus all blocks of a connection or
\* its TCP connection, never both (nq_comm.c:151-164).
ResidueIsKnown ==
    /\ wild => layer = "mbed" /\ sock \ live # {}
    /\ \A c \in Conns \ live :
          /\ layer = "dummy" => heap[c] = {} /\ c \notin sock
          /\ layer = "mbed"  => heap[c] = {}
          /\ layer = "nq"    => heap[c] = {} \/ (heap[c] = Blocks /\ c \notin sock)

\* The calls of each layer that do not keep the promise of comm_layer.h.
LossesOf(l) == CASE l = "dummy" -> {} [] l = "mbed" -> {"open"} [] l = "nq" -> {"close"}

connStatus ==
    [c \in Conns |-> IF c \in live THEN "open"
                     ELSE IF heap[c] = {} /\ c \notin sock THEN "idle" ELSE "lost"]

Layer(l) == INSTANCE CommLayer WITH status <- connStatus, Losses <- LossesOf(l)

\* Each layer is the abstract layer with its own losses: the dummy has none,
\* mbed loses connections only when an open fails, nanoqplus only in a close.
LayersKeepPromise ==
    /\ \A l \in Layers : Layer(l)!Init
    /\ [][\A l \in Layers : layer = l => Layer(l)!Next \/ UNCHANGED connStatus]_vars

\* "Close connection and free all allocated memory (if any)"
\* (comm_layer.h:61): a connection that stops being live owns nothing.
CloseFreesAll ==
    [][\A c \in Conns : c \in live /\ c \notin live'
            => heap'[c] = {} /\ c \notin sock']_vars
=============================================================================

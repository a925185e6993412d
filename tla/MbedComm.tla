------------------------------ MODULE MbedComm ------------------------------
(***************************************************************************)
(* The mbed communication layer (comm_layers/mbed/mbed_comm.cpp).  The     *)
(* network resource is a TCPSocketConnection object, made before anything  *)
(* else and reached through the "data" block, whose socket_ptr is set only *)
(* when all blocks are there.                                              *)
(***************************************************************************)
EXTENDS CommState

\* The object itself, or the block that is to lead to it, does not fit: the
\* exit finds no block and leaves the object alone.
OpenNoObject(c) == Unused(c) /\ Reports("XI_OUT_OF_MEMORY")

OpenNoData(c) ==
    /\ Unused(c)
    /\ sock' = sock \cup {c}
    /\ FreesAll(c, "data")
    /\ err' = "XI_OUT_OF_MEMORY"
    /\ UNCHANGED <<live, halted, wild>>

\* Mutant: the structure is kept when its pointer cannot be followed.
OpenKeepsData(c, s) ==
    /\ s \in {"conn", "address"}
    /\ Unused(c)
    /\ sock' = sock \cup {c}
    /\ heap' = [heap EXCEPT ![c] = {"data"}]
    /\ err' = "XI_OUT_OF_MEMORY"
    /\ UNCHANGED <<live, halted, wild>>

\* Past that block the exit deletes what socket_ptr holds, which is what the
\* allocator left there: nothing, or something that is not this object.  In
\* the second case the process may go on or stop.
OpenOutOfMemory(c, s) ==
    /\ s \in {"conn", "address"}
    /\ Unused(c)
    /\ \/ /\ sock' = sock \cup {c}
          /\ FreesAll(c, s)
          /\ err' = "XI_OUT_OF_MEMORY"
          /\ wild' \in {wild, TRUE}
          /\ UNCHANGED <<live, halted>>
       \/ Halt

OpenRefused(c) ==
    /\ Unused(c)
    /\ FreesAll(c, "connect")
    /\ err' = "XI_SOCKET_CONNECTION_ERROR"
    /\ UNCHANGED <<live, sock, halted, wild>>

\* Mutant: the caller's address is kept instead of a copy.
OpenSharesAddress(c) ==
    /\ Unused(c)
    /\ live' = live \cup {c}
    /\ heap' = [heap EXCEPT ![c] = Blocks \ {"address"}]
    /\ sock' = sock \cup {c}
    /\ UNCHANGED <<err, halted, wild>>

OpenSucceeds(c) ==
    /\ Unused(c)
    /\ HandsOver(c)
    /\ sock' = sock \cup {c}
    /\ UNCHANGED <<err, halted, wild>>

SendFails(c) == c \in live /\ Reports("XI_SOCKET_WRITE_ERROR")

ReadFails(c) == c \in live /\ Reports("XI_SOCKET_READ_ERROR")

\* Whether close() works or not, the object and the blocks are given back.
Close(c) ==
    /\ c \in live
    /\ live' = live \ {c}
    /\ sock' = sock \ {c}
    /\ heap' = [heap EXCEPT ![c] = @ \ Blocks]
    /\ err' \in {err, "XI_SOCKET_CLOSE_ERROR"}
    /\ UNCHANGED <<halted, wild>>

Next ==
    \E c \in Conns :
        \/ OpenNoObject(c) \/ OpenNoData(c)
        \/ \E s \in {"conn", "address"} : OpenOutOfMemory(c, s)
        \/ OpenRefused(c) \/ OpenSucceeds(c)
        \/ SendFails(c) \/ ReadFails(c)
        \/ Close(c)
=============================================================================

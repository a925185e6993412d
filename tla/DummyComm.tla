----------------------------- MODULE DummyComm -----------------------------
(***************************************************************************)
(* The dummy communication layer (comm_layers/dummy/dummy_comm.c), used to *)
(* build without a network: it allocates like the others, its send and its *)
(* read succeed without doing anything, so only open and close are steps.  *)
(***************************************************************************)
EXTENDS CommState

\* Mutant: the address is not freed when it is the last block that fits.
OpenLeaksAddress(c, s) ==
    /\ Unused(c)
    /\ heap' = [heap EXCEPT ![c] = HeapBefore(s) \ {"conn"}]
    /\ err' = "XI_OUT_OF_MEMORY"
    /\ UNCHANGED <<live, sock, halted, wild>>

OpenOutOfMemory(c, s) ==
    /\ Unused(c)
    /\ FreesAll(c, s)
    /\ err' = "XI_OUT_OF_MEMORY"
    /\ UNCHANGED <<live, sock, halted, wild>>

\* The last assertion of open, where the build has it, looks at a descriptor
\* that was never set.
OpenSucceeds(c) ==
    /\ Unused(c)
    /\ \/ HandsOver(c) /\ UNCHANGED <<sock, err, halted, wild>>
       \/ AssertFails

Close(c) ==
    /\ c \in live
    /\ live' = live \ {c}
    /\ heap' = [heap EXCEPT ![c] = @ \ Blocks]
    /\ UNCHANGED <<sock, err, halted, wild>>

Next ==
    \E c \in Conns :
        \/ \E s \in {"data", "conn", "address"} : OpenOutOfMemory(c, s)
        \/ OpenSucceeds(c)
        \/ Close(c)
=============================================================================

------------------------------- MODULE NqComm -------------------------------
(***************************************************************************)
(* The nanoqplus communication layer (comm_layers/nq/nq_comm.c).  The      *)
(* network resource is an index into the TCP connections of the system.    *)
(***************************************************************************)
EXTENDS CommState

\* Mutant: the code of the TCP stack is stored in the register.
OpenFailsRaw(c, s) ==
    /\ Unused(c)
    /\ FreesAll(c, s)
    /\ err' = IF s = "connect" THEN "ERROR_FAIL" ELSE "XI_OUT_OF_MEMORY"
    /\ UNCHANGED <<live, sock, halted, wild>>

\* A block that does not fit, or tcp_connect returning get_tcp_max_conn().
OpenFails(c, s) ==
    /\ Unused(c)
    /\ FreesAll(c, s)
    /\ err' = IF s = "connect" THEN "XI_SOCKET_CONNECTION_ERROR" ELSE "XI_OUT_OF_MEMORY"
    /\ UNCHANGED <<live, sock, halted, wild>>

\* The failure tcp-api.h documents, -1, is no failure for the test above.  An
\* assertion stops the process; without assertions the caller gets a
\* connection that has no TCP connection.
OpenIsMinusOne(c) ==
    /\ Unused(c)
    /\ \/ AssertFails
       \/ /\ ~asserts
          /\ HandsOver(c)
          /\ UNCHANGED <<sock, err, halted, wild>>

OpenSucceeds(c) ==
    /\ Unused(c)
    /\ HandsOver(c)
    /\ sock' = sock \cup {c}
    /\ UNCHANGED <<err, halted, wild>>

SendFails(c) == c \in live /\ Reports("XI_SOCKET_WRITE_ERROR")

\* The read has no timeout; when it does return, it may be with -1.
ReadFails(c) == c \in live /\ Reports("XI_SOCKET_READ_ERROR")

CloseSucceeds(c) ==
    /\ c \in live
    /\ live' = live \ {c}
    /\ sock' = sock \ {c}
    /\ UNCHANGED <<heap, err, halted, wild>>

\* The blocks are freed where close_err_handling is reached, that is when
\* tcp_close failed; the system may keep the TCP connection then.
CloseFails(c) ==
    /\ c \in live
    /\ live' = live \ {c}
    /\ sock' \in {sock, sock \ {c}}
    /\ heap' = [heap EXCEPT ![c] = @ \ Blocks]
    /\ err' = "XI_SOCKET_CLOSE_ERROR"
    /\ UNCHANGED <<halted, wild>>

Next ==
    \E c \in Conns :
        \/ \E s \in {"data", "conn", "address", "connect"} : OpenFails(c, s)
        \/ OpenIsMinusOne(c) \/ OpenSucceeds(c)
        \/ SendFails(c) \/ ReadFails(c)
        \/ CloseSucceeds(c) \/ CloseFails(c)
=============================================================================

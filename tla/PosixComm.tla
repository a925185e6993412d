----------------------------- MODULE PosixComm -----------------------------
(***************************************************************************)
(* The POSIX communication layer (comm_layers/posix/posix_comm.c).         *)
(*                                                                         *)
(* A connection owns three heap blocks and one socket descriptor.  Each    *)
(* action is one whole call of the layer: an open that stops at step s     *)
(* has done every step before s and then whatever clean-up its exit runs.  *)
(***************************************************************************)
EXTENDS XiErr, Naturals, FiniteSets

CONSTANTS
    Conns,   \* connection objects, one for each open_connection call
    MaxFds   \* descriptors the process may hold (RLIMIT_NOFILE)

ASSUME PosixAssumption == IsFiniteSet(Conns) /\ MaxFds \in Nat

VARIABLES
    live,    \* connections handed to the caller and not closed yet
    heap,    \* heap[c]: the blocks allocated for c and not freed
    sock,    \* connections whose socket descriptor is open
    err      \* the global error register of xi_err.c

vars == <<live, heap, sock, err>>

\* posix_comm_layer_data_specific_t, connection_t, the copy of the address
Blocks == {"data", "conn", "address"}

\* The points at which open_connection can stop, in program order.
Allocations == {"data", "conn", "address"}
SocketSetup == {"rcvtimeo", "sndtimeo", "host", "connect"}
OpenSteps == Allocations \cup {"socket"} \cup SocketSetup

\* What has been allocated when step s is tried.
HeapBefore(s) ==
    CASE s = "data"    -> {}
      [] s = "conn"    -> {"data"}
      [] s = "address" -> {"data", "conn"}
      [] OTHER         -> Blocks

\* Mutant: errno is stored in place of a library code.
OpenErrorIsErrno(s) == "ENOMEM"

\* Mutant: a refused connection is reported with the code of a failed read.
OpenErrorMisnamed(s) == IF s = "connect" THEN "XI_SOCKET_READ_ERROR" ELSE "XI_OUT_OF_MEMORY"

OpenError(s) ==
    CASE s \in Allocations                          -> "XI_OUT_OF_MEMORY"
      [] s \in {"socket", "rcvtimeo", "sndtimeo"}   -> "XI_SOCKET_INITIALIZATION_ERROR"
      [] s = "host"                                 -> "XI_SOCKET_GETHOSTBYNAME_ERROR"
      [] s = "connect"                              -> "XI_SOCKET_CONNECTION_ERROR"

Unused(c) == c \notin live /\ heap[c] = {} /\ c \notin sock

FdAvailable == Cardinality(sock) < MaxFds

TypeOK ==
    /\ live \subseteq Conns
    /\ heap \in [Conns -> SUBSET Blocks]
    /\ sock \subseteq Conns
    /\ err \in Errs

Init ==
    /\ live = {}
    /\ heap = [c \in Conns |-> {}]
    /\ sock = {}
    /\ err = NoErr

\* Mutant: the clean-up frees the two structures and forgets the address.
ErrHandlingForgetsAddress(c, s) ==
    heap' = [heap EXCEPT ![c] = HeapBefore(s) \cap {"address"}]

\* The err_handling exit frees the blocks; it does not close the socket.
ErrHandling(c, s) == heap' = [heap EXCEPT ![c] = HeapBefore(s) \ Blocks]

OpenOutOfMemory(c, s) ==
    /\ s \in Allocations
    /\ Unused(c)
    /\ ErrHandling(c, s)
    /\ err' = OpenError(s)
    /\ UNCHANGED <<live, sock>>

\* socket() fails: return 0 on the spot, before err_handling.
OpenNoSocket(c) ==
    /\ Unused(c)
    /\ heap' = [heap EXCEPT ![c] = HeapBefore("socket")]
    /\ err' = OpenError("socket")
    /\ UNCHANGED <<live, sock>>

OpenSetupFails(c, s) ==
    /\ s \in SocketSetup
    /\ Unused(c)
    /\ FdAvailable
    /\ sock' = sock \cup {c}
    /\ ErrHandling(c, s)
    /\ err' = OpenError(s)
    /\ UNCHANGED live

OpenFails(c) ==
    \/ \E s \in OpenSteps : OpenOutOfMemory(c, s) \/ OpenSetupFails(c, s)
    \/ OpenNoSocket(c)

\* Mutant: the copy of the address is freed once the name is resolved.
OpenFreesAddress(c) ==
    /\ Unused(c)
    /\ FdAvailable
    /\ live' = live \cup {c}
    /\ heap' = [heap EXCEPT ![c] = Blocks \ {"address"}]
    /\ sock' = sock \cup {c}
    /\ UNCHANGED err

OpenSucceeds(c) ==
    /\ Unused(c)
    /\ FdAvailable
    /\ live' = live \cup {c}
    /\ heap' = [heap EXCEPT ![c] = Blocks]
    /\ sock' = sock \cup {c}
    /\ UNCHANGED err

\* write() and read() return -1; the connection is left as it is.
SendFails(c) ==
    /\ c \in live
    /\ err' = "XI_SOCKET_WRITE_ERROR"
    /\ UNCHANGED <<live, heap, sock>>

\* Mutant: the read reports its error with the code of the write.
ReadFailsAsWrite(c) ==
    /\ c \in live
    /\ err' = "XI_SOCKET_WRITE_ERROR"
    /\ UNCHANGED <<live, heap, sock>>

ReadFails(c) ==
    /\ c \in live
    /\ err' = "XI_SOCKET_READ_ERROR"
    /\ UNCHANGED <<live, heap, sock>>

\* Mutant: a failing close() returns before the clean-up.
CloseReturnsEarly(c) ==
    /\ c \in live
    /\ live' = live \ {c}
    /\ sock' = sock \ {c}
    /\ \/ heap' = [heap EXCEPT ![c] = @ \ Blocks] /\ UNCHANGED err
       \/ err' \in CloseErrs /\ UNCHANGED heap

\* Mutant: without the "just in case" close() a failing shutdown() keeps the
\* descriptor.
CloseKeepsSocket(c) ==
    /\ c \in live
    /\ live' = live \ {c}
    /\ heap' = [heap EXCEPT ![c] = @ \ Blocks]
    /\ \/ sock' = sock \ {c} /\ UNCHANGED err
       \/ err' = "XI_SOCKET_SHUTDOWN_ERROR" /\ UNCHANGED sock

\* shutdown() or close() may fail; the descriptor is closed and the blocks
\* are freed whether they do or not.
Close(c) ==
    /\ c \in live
    /\ live' = live \ {c}
    /\ sock' = sock \ {c}
    /\ heap' = [heap EXCEPT ![c] = @ \ Blocks]
    /\ err' \in {err} \cup CloseErrs

\* xi_get_last_error: the register is cleared by being read.
GetLastError == err' = NoErr /\ UNCHANGED <<live, heap, sock>>

Next ==
    \/ \E c \in Conns :
          \/ OpenFails(c)
          \/ OpenSucceeds(c)
          \/ SendFails(c)
          \/ ReadFails(c)
          \/ Close(c)
    \/ GetLastError

Spec == Init /\ [][Next]_vars
-----------------------------------------------------------------------------
(***************************************************************************)
(* Properties                                                              *)
(***************************************************************************)

\* A connection the caller holds has its socket and all three blocks: send,
\* read and close dereference them without a check (posix_comm.c:145-152).
LiveIsWhole == \A c \in live : c \in sock /\ heap[c] = Blocks

\* A failed open keeps either the blocks (socket() failed) or the
\* descriptor (a later step failed), never both, and never part of the blocks.
ResidueIsKnown ==
    \A c \in Conns \ live :
        /\ heap[c] \in {{}, Blocks}
        /\ heap[c] = Blocks => c \notin sock

\* "Close connection and free all allocated memory (if any)"
\* (comm_layer.h:61): a connection that stops being live owns nothing.
CloseFreesAll ==
    [][\A c \in Conns : c \in live /\ c \notin live'
            => heap'[c] = {} /\ c \notin sock']_vars

\* The abstract communication layer, with the losses of a failed open.
connStatus ==
    [c \in Conns |-> IF c \in live THEN "open"
                     ELSE IF heap[c] = {} /\ c \notin sock THEN "idle" ELSE "lost"]

Layer == INSTANCE CommLayer WITH status <- connStatus, Losses <- {"open"}
LayerSpec == Layer!Spec
=============================================================================

----------------------------- MODULE CommState -----------------------------
(***************************************************************************)
(* What the mbed, nanoqplus and dummy communication layers have in common: *)
(* a connection is three heap blocks, a network resource of the platform   *)
(* and, once open_connection has returned it, the caller's.  Each action   *)
(* of a layer is one whole call.                                           *)
(***************************************************************************)
EXTENDS XiErr

CONSTANT Conns   \* connection objects, one for each open_connection call

VARIABLES
    live,     \* connections handed to the caller and not closed yet
    heap,     \* heap[c]: the blocks allocated for c and not freed
    sock,     \* connections that hold the platform's network resource
    err,      \* the global error register of xi_err.c
    asserts,  \* the build has assertions (XI_DEBUG_ASSERT, xi_debug.h:34)
    halted,   \* an assertion or a stray pointer has stopped the process
    wild      \* an object the layer did not own was deleted

commVars == <<live, heap, sock, err, asserts, halted, wild>>

\* the layer's own structure, connection_t, the copy of the address
Blocks == {"data", "conn", "address"}

\* What has been allocated when step s of an open is tried.
HeapBefore(s) ==
    CASE s = "data"    -> {}
      [] s = "conn"    -> {"data"}
      [] s = "address" -> {"data", "conn"}
      [] s = "connect" -> Blocks

Unused(c) == c \notin live /\ heap[c] = {} /\ c \notin sock

CommInit ==
    /\ live = {}
    /\ heap = [c \in Conns |-> {}]
    /\ sock = {}
    /\ err = NoErr
    /\ asserts \in BOOLEAN
    /\ halted = FALSE
    /\ wild = FALSE

CommTypeOK ==
    /\ live \subseteq Conns
    /\ heap \in [Conns -> SUBSET Blocks]
    /\ sock \subseteq Conns
    /\ err \in Errs
    /\ asserts \in BOOLEAN
    /\ halted \in BOOLEAN
    /\ wild \in BOOLEAN

\* The process stops.  assert(e) is nothing in a build without assertions.
Halt == halted' = TRUE /\ UNCHANGED <<live, heap, sock, err, wild>>
AssertFails == asserts /\ Halt

\* An open that stops at step s frees what it had allocated before.
FreesAll(c, s) == heap' = [heap EXCEPT ![c] = HeapBefore(s) \ Blocks]

\* The caller gets the connection, whole.
HandsOver(c) ==
    /\ live' = live \cup {c}
    /\ heap' = [heap EXCEPT ![c] = Blocks]

\* A call that only sets the error register.
Reports(code) == err' = code /\ UNCHANGED <<live, heap, sock, halted, wild>>
=============================================================================

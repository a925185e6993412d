----------------------------- MODULE RemoteCall -----------------------------
(***************************************************************************)
(* What a request function of xively.h promises a program, without its     *)
(* mechanism: calls are made one after the other, each ends with an        *)
(* outcome, and the outcome is true of the server for good.  After         *)
(* "unknown" the server may have carried the request out, or may yet.      *)
(***************************************************************************)
EXTENDS Naturals

CONSTANT MaxCalls   \* bound: requests the program makes

VARIABLES
    call,      \* number of the current or last call
    pending,   \* it has not returned yet
    outcome,   \* outcome[n]: what call n told the program
    executed   \* requests the server carried out

vars == <<call, pending, outcome, executed>>
Calls == 1 .. MaxCalls

Init ==
    /\ call = 0
    /\ pending = FALSE
    /\ outcome = [n \in Calls |-> "none"]
    /\ executed = {}

Invoke ==
    /\ ~pending
    /\ call < MaxCalls
    /\ call' = call + 1
    /\ pending' = TRUE
    /\ UNCHANGED <<outcome, executed>>

Execute(n) ==
    /\ n <= call
    /\ outcome[n] \in {"none", "unknown"}
    /\ executed' = executed \cup {n}
    /\ UNCHANGED <<call, pending, outcome>>

Return(o) ==
    /\ pending
    /\ o = "ok" => call \in executed
    /\ o \in {"refused", "unsent"} => call \notin executed
    /\ pending' = FALSE
    /\ outcome' = [outcome EXCEPT ![call] = o]
    /\ UNCHANGED <<call, executed>>

Next ==
    \/ Invoke
    \/ \E n \in Calls : Execute(n)
    \/ \E o \in {"ok", "refused", "unsent", "unknown"} : Return(o)

Spec == Init /\ [][Next]_vars
=============================================================================

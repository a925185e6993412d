----------------------------- MODULE CommLayer -----------------------------
(***************************************************************************)
(* What the communication layer promises to the layer above                *)
(* (comm_layer.h): open_connection either yields a connection or leaves    *)
(* things as they were, and close_connection gives everything back.  A     *)
(* connection whose resources can never be given back is "lost"; a layer   *)
(* that keeps the promise never loses one (Losses = {}).                   *)
(***************************************************************************)
CONSTANTS
    Conns,   \* connection objects
    Losses   \* the calls, "open" and "close", that may keep resources for good

VARIABLE status

CommTypeOK == status \in [Conns -> {"idle", "open", "lost"}]

Init == status = [c \in Conns |-> "idle"]

OpenSucceeds(c) ==
    /\ status[c] = "idle"
    /\ status' = [status EXCEPT ![c] = "open"]

\* A failed open that gives everything back is a stuttering step.
OpenFails(c) ==
    /\ "open" \in Losses
    /\ status[c] = "idle"
    /\ status' = [status EXCEPT ![c] = "lost"]

Close(c) ==
    /\ status[c] = "open"
    /\ \/ status' = [status EXCEPT ![c] = "idle"]
       \/ "close" \in Losses /\ status' = [status EXCEPT ![c] = "lost"]

Next == \E c \in Conns : OpenSucceeds(c) \/ OpenFails(c) \/ Close(c)

Spec == Init /\ [][Next]_status
=============================================================================

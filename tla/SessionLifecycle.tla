-------------------------- MODULE SessionLifecycle --------------------------
(***************************************************************************)
(* What the sessions promise, whatever the interleaving of the handlers:   *)
(* a session opens once, and it ends in exactly one way.  Its refresh      *)
(* token is exchanged, which entitles the client to ONE successor, or it   *)
(* is closed, which entitles it to none.                                   *)
(***************************************************************************)
CONSTANTS DeviceIds, None

VARIABLES
    status,
    origin    \* the session a session succeeded, None if a login opened it

vars == <<status, origin>>

Init ==
    /\ status = [d \in DeviceIds |-> "unused"]
    /\ origin = [d \in DeviceIds |-> None]

(* A login.                                                                *)
Open(d) ==
    /\ status[d] = "unused"
    /\ status' = [status EXCEPT ![d] = "open"]
    /\ UNCHANGED origin

(* A refresh takes the session's token.                                    *)
Exchange(d) ==
    /\ status[d] = "open"
    /\ status' = [status EXCEPT ![d] = "exchanged"]
    /\ UNCHANGED origin

(* The successor e of the exchanged session d opens.                       *)
Succeed(d, e) ==
    /\ status[d] = "exchanged"
    /\ status[e] = "unused"
    /\ status' = [status EXCEPT ![d] = "replaced", ![e] = "open"]
    /\ origin' = [origin EXCEPT ![e] = d]

(* A logout, or a new password, closes sessions.                           *)
Close(S) ==
    /\ \A d \in S : status[d] = "open"
    /\ status' = [d \in DeviceIds |-> IF d \in S THEN "closed" ELSE status[d]]
    /\ UNCHANGED origin

Next ==
    \/ \E d \in DeviceIds : Open(d) \/ Exchange(d)
    \/ \E d, e \in DeviceIds : Succeed(d, e)
    \/ \E S \in SUBSET DeviceIds : Close(S)

Spec == Init /\ [][Next]_vars
=============================================================================

------------------------- MODULE SessionsRefinement -------------------------
(***************************************************************************)
(* The handlers of Sessions implement SessionLifecycle: the status of a    *)
(* session is read off the table and off the requests that minted it or    *)
(* took its token.                                                         *)
(***************************************************************************)
EXTENDS Sessions

Stored == {"reply", "done"}    \* program counters after InsertDevice

Opened(d) == \E r \in Requests : req[r].fresh = d /\ req[r].pc \in Stored

Replaced(d) == \E r \in Exchanges(d) : req[r].pc \in Stored

Status(d) ==
    IF ~Opened(d) THEN "unused"
    ELSE IF Live(d) THEN "open"
    ELSE IF Replaced(d) THEN "replaced"
    ELSE IF Exchanges(d) # {} THEN "exchanged"
    ELSE "closed"

\* The session the request that opened d had presented.
Origin(d) ==
    IF ~Opened(d) THEN None
    ELSE req[CHOOSE r \in Requests : req[r].fresh = d].presented

Lifecycle ==
    INSTANCE SessionLifecycle WITH
        status <- [d \in DeviceIds |-> Status(d)],
        origin <- [d \in DeviceIds |-> Origin(d)]

(* Every behaviour of the handlers is one of the abstract life cycle       *)
(* (login, refresh-token, logout and new-password of AuthController): a    *)
(* closed session stays closed and without successor, an exchanged one     *)
(* has at most one, however requests interleave and wherever they die.     *)
ImplementsLifecycle == Lifecycle!Spec
=============================================================================

-------------------------- MODULE AccountLifecycle --------------------------
(***************************************************************************)
(* What accounts promise, whatever the interleaving of their handlers.  An *)
(* account is made once, by Google or by a registration; a registered one  *)
(* is completed, then confirmed, and never goes back.  Only a confirmed    *)
(* account gets another password, and an account gets another name only if *)
(* nobody has that one.                                                    *)
(***************************************************************************)
CONSTANTS Emails, Names, Passwords, None

VARIABLES
    status,
    name,
    password    \* None for an account of Google

vars == <<status, name, password>>

Init ==
    /\ status = [e \in Emails |-> "none"]
    /\ name = [e \in Emails |-> None]
    /\ password = [e \in Emails |-> None]

Free(n) == \A e \in Emails : name[e] # n

(* A first Google login, or a registration, takes an e-mail and a name     *)
(* that nobody has.                                                        *)
MakeGoogle(e, n) ==
    /\ status[e] = "none" /\ Free(n)
    /\ status' = [status EXCEPT ![e] = "google"]
    /\ name' = [name EXCEPT ![e] = n]
    /\ UNCHANGED password

Register(e, n, p) ==
    /\ status[e] = "none" /\ Free(n)
    /\ status' = [status EXCEPT ![e] = "half"]
    /\ name' = [name EXCEPT ![e] = n]
    /\ password' = [password EXCEPT ![e] = p]

Complete(e) ==
    /\ status[e] = "half"
    /\ status' = [status EXCEPT ![e] = "registered"]
    /\ UNCHANGED <<name, password>>

Confirm(e) ==
    /\ status[e] = "registered"
    /\ status' = [status EXCEPT ![e] = "confirmed"]
    /\ UNCHANGED <<name, password>>

(* The password is recovered with a mailed code.                           *)
Recover(e, p) ==
    /\ status[e] = "confirmed"
    /\ password' = [password EXCEPT ![e] = p]
    /\ UNCHANGED <<status, name>>

Rename(e, n) ==
    /\ status[e] # "none" /\ Free(n)
    /\ name' = [name EXCEPT ![e] = n]
    /\ UNCHANGED <<status, password>>

Next ==
    \E e \in Emails :
       \/ \E n \in Names : MakeGoogle(e, n)
       \/ \E n \in Names, p \in Passwords : Register(e, n, p)
       \/ Complete(e)
       \/ Confirm(e)
       \/ \E p \in Passwords : Recover(e, p)
       \/ \E n \in Names : Rename(e, n)

Spec == Init /\ [][Next]_vars
=============================================================================

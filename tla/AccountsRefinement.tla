------------------------- MODULE AccountsRefinement -------------------------
(***************************************************************************)
(* The handlers of Accounts implement AccountLifecycle: the status of an   *)
(* account is read off its two rows.                                       *)
(***************************************************************************)
EXTENDS Accounts

Status(e) ==
    IF user[e] = None THEN "none"
    ELSE IF info[e] # None
      THEN (IF info[e].confirmed THEN "confirmed" ELSE "registered")
    ELSE IF user[e].hash = None THEN "google" ELSE "half"

NameOf(e) == IF user[e] = None THEN None ELSE user[e].name

PasswordOf(e) == IF user[e] = None THEN None ELSE user[e].hash

Lifecycle ==
    INSTANCE AccountLifecycle WITH
        status <- [e \in Emails |-> Status(e)],
        name <- [e \in Emails |-> NameOf(e)],
        password <- [e \in Emails |-> PasswordOf(e)]

(* Every behaviour of the handlers is one of the abstract life cycle of    *)
(* accounts: whatever registrations, resendings, confirmations, renamings  *)
(* and recoveries interleave, and wherever they die, an account is made    *)
(* once, never loses its confirmation, and changes its password only after *)
(* it (UserRepository, UserPasswordRecoveryUseCase).                       *)
ImplementsLifecycle == Lifecycle!Spec
=============================================================================

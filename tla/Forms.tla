-------------------------------- MODULE Forms --------------------------------
(***************************************************************************)
(* The rules the gateway's forms put on user names, e-mails and passwords  *)
(* (the DTOs of features/user and features/auth).                          *)
(*                                                                         *)
(* Each form has a copy of its own of these rules: what registration, a    *)
(* new password or Google login stores is read again by login, by the      *)
(* profile form and by password recovery, under other copies.  Here a      *)
(* request is served in one step (module Accounts interleaves them), and a *)
(* text is what the rules see of it: its length, the classes its           *)
(* characters are in, whether a space is at either end, and whether it is  *)
(* a valid e-mail.                                                         *)
(***************************************************************************)
EXTENDS Naturals, FiniteSets

CONSTANTS
    Texts,     \* what clients type
    Clients,   \* the names client<N> that Google login makes up
    Births,    \* the years of birth they claim
    FirstYear, \* the clock starts here
    LastYear,  \* bound on the clock
    Absent,    \* a field that a request leaves out
    None       \* "no value", null

\* "special" are the characters the password rule lists but for "_" and "-",
\* which are "dash"; "accent" are ` and ~; "other" is any other character.
Classes == {"lower", "upper", "digit", "dash", "special", "accent", "other",
            "break"}

\* Every e-mail has an @, and something before and after it.
ASSUME TextsAssumption ==
    \A t \in Texts : /\ t.length \in Nat /\ t.chars \subseteq Classes
                     /\ t.padded \in BOOLEAN /\ t.padded => "other" \in t.chars
                     /\ t.email \in BOOLEAN
                     /\ t.email => "special" \in t.chars /\ 3 <= t.length
                     /\ Cardinality(t.chars) <= t.length
\* PostgreSQL counts rows in a bigint: N has 19 digits at most.
ASSUME ClientsAssumption ==
    \A c \in Clients : /\ c.length \in 7..25 /\ c.chars = {"lower", "digit"}
                       /\ ~c.padded /\ ~c.email
ASSUME YearAssumption ==
    FirstYear \in Nat /\ LastYear \in Nat /\ Births \subseteq Nat
ASSUME NoneAssumption ==
    None # Absent /\ {None, Absent} \cap (Texts \cup Nat) = {}

Emails == {t \in Texts : t.email}

VARIABLES
    today,     \* the clock, in years
    account,   \* User with its UserRegistrationInfo, by e-mail
    reply      \* the status of the last answer

vars == <<today, account, reply>>

Account == [name: Texts \cup Clients, password: Texts \cup {None},
            confirmed: BOOLEAN, recovery: BOOLEAN, birth: Births \cup {None}]

Fields == {"username", "email", "password", "passwordConfirm", "dateOfBirth",
           "profile"}

Init ==
    /\ today = FirstYear
    /\ account = [e \in Emails |-> None]
    /\ reply = "none"

-----------------------------------------------------------------------------
Length(t, min, max) == min <= t.length /\ t.length <= max

\* With a bug: the dots and the at sign of an e-mail allowed in a name.
NameRulesWithDots(t) ==
    /\ t.chars \subseteq {"lower", "upper", "digit", "dash", "special"}
    /\ Length(t, 6, 30)

\* The rules of a user name, alike in CreateUserDto and UpdateUserDto.
NameRules(t) ==
    /\ t.chars \subseteq {"lower", "upper", "digit", "dash"}
    /\ Length(t, 6, 30)

IsPasswordMustContain(t) ==
    /\ {"lower", "upper", "digit"} \subseteq t.chars
    /\ t.chars \cap {"dash", "special"} # {}
    /\ "break" \notin t.chars

\* The rules of a password, alike in CreateUserDto and NewPasswordDto.
PasswordRules(t) == IsPasswordMustContain(t) /\ Length(t, 6, 20)

\* The fields of a form that break their rule: rules is a set of
\* <<field, whether it passes>>.
Refused(rules) == {f \in Fields : <<f, FALSE>> \in rules}

Existing == {e \in Emails : account[e] # None}

FindByUsernameOrEmail(t) ==
    {e \in Existing : account[e].name = t \/ e = t}

Answer(status) == reply' = status

-----------------------------------------------------------------------------
(* Rules with a bug, to show what the properties below would catch.        *)

\* The transformations of LoginDto, were it made by the validation pipe:
\* a padded password loses its spaces, the minimum applies to the rest.
LoginErrorsTrimmed(e, p) ==
    Refused({<<"email", e.email /\ Length(e, 3, 50)>>,
             <<"password", IsPasswordMustContain(p) /\
                 (IF p.padded THEN Length(p, 7, 21) ELSE Length(p, 6, 20))>>})

\* The age compared the wrong way round the boundary: in the thirteenth year.
TooYoungByOne(birth) == birth \in Births /\ birth + 12 > today

-----------------------------------------------------------------------------
(* The forms: the fields each refuses.                                     *)
CreateUserErrors(n, e, p, same) ==
    Refused({<<"username", NameRules(n)>>, <<"email", e.email>>,
             <<"password", PasswordRules(p)>>, <<"passwordConfirm", same>>})

NewPasswordErrors(p, same) ==
    Refused({<<"password", PasswordRules(p)>>, <<"passwordConfirm", same>>})

UpdateUserErrors(n, wellFormed) ==
    Refused({<<"username", NameRules(n)>>, <<"profile", wellFormed>>})

(* LoginDto is made by its constructor, so its @Transform never trims.     *)
LoginErrors(e, p) ==
    Refused({<<"email", e.email /\ Length(e, 3, 50)>>,
             <<"password", IsPasswordMustContain(p) /\ Length(p, 6, 20)>>})

RecoveryErrors(e) == Refused({<<"email", e.email>>})

(* UpdateUser: thirteen years from the date of birth are not over yet.  A  *)
(* missing date makes an invalid one, which is never after today.          *)
TooYoung(birth) == birth \in Births /\ birth + 13 > today

-----------------------------------------------------------------------------
(* POST registration.                                                      *)
Register(n, e, p, same) ==
    LET errors == CreateUserErrors(n, e, p, same)
        found == FindByUsernameOrEmail(e)
        again(f) == f = e /\ account[f].name = n
    IN  /\ \/ /\ errors # {} /\ Answer("400")
              /\ UNCHANGED account
           \/ /\ errors = {} /\ found # {}
              /\ \E f \in found :
                    IF again(f) /\ account[f].password = None
                      THEN Answer("500")
                    ELSE IF again(f) /\ account[f].password = p
                            /\ ~account[f].confirmed
                      THEN Answer("ok")
                    ELSE Answer("400")
              /\ UNCHANGED account
           \/ /\ errors = {} /\ found = {} /\ FindByUsernameOrEmail(n) # {}
              /\ Answer("400")
              /\ UNCHANGED account
           \/ /\ errors = {} /\ found = {} /\ FindByUsernameOrEmail(n) = {}
              /\ account' = [account EXCEPT ![e] =
                    [name |-> n, password |-> p, confirmed |-> FALSE,
                     recovery |-> FALSE, birth |-> None]]
              /\ Answer("ok")
        /\ UNCHANGED today

(* The code of its mail confirms an account that registered.               *)
Confirm(e) ==
    /\ e \in Existing /\ account[e].password # None
    /\ account' = [account EXCEPT ![e].confirmed = TRUE]
    /\ Answer("ok")
    /\ UNCHANGED today

(* POST login: PasswordStrategy validates, then checks the credentials.    *)
Login(e, p) ==
    /\ LET errors == LoginErrors(e, p)
       IN  IF errors # {} THEN Answer("400")
           ELSE IF /\ e \in Existing
                   /\ account[e].password = p /\ account[e].confirmed
             THEN Answer("ok")
           ELSE Answer("401")
    /\ UNCHANGED <<today, account>>

(* POST password-recovery, and the mail with the code.                     *)
UserPasswordRecovery(t) ==
    /\ LET found == FindByUsernameOrEmail(t)
       IN  \/ /\ RecoveryErrors(t) # {}
              /\ Answer("400") /\ UNCHANGED account
           \/ /\ RecoveryErrors(t) = {} /\ found = {}
              /\ Answer("400") /\ UNCHANGED account
           \/ /\ RecoveryErrors(t) = {}
              /\ \E e \in found :
                    IF account[e].password = None
                      THEN Answer("500") /\ UNCHANGED account
                      ELSE /\ account' = [account EXCEPT ![e].recovery =
                                            @ \/ account[e].confirmed]
                           /\ Answer("ok")
    /\ UNCHANGED today

(* POST new-password, with the code an account was mailed.                 *)
NewPassword(e, p, same) ==
    /\ e \in Existing /\ account[e].recovery
    /\ LET errors == NewPasswordErrors(p, same)
       IN  IF errors # {} THEN Answer("400") /\ UNCHANGED account
           ELSE /\ account' = [account EXCEPT ![e].password = p]
                /\ Answer("ok")
    /\ UNCHANGED today

(* PUT user, of a logged-in user, who may be any: Google login opens every *)
(* account it finds, confirmed or not.  The form has to send the user      *)
(* name; a date of birth that it leaves out stays what it was.             *)
UpdateUser(e, n, birth, wellFormed) ==
    /\ e \in Existing
    /\ LET errors == UpdateUserErrors(n, wellFormed)
       IN  IF errors # {} THEN Answer("400") /\ UNCHANGED account
           ELSE IF TooYoung(birth)
             THEN Answer("400") /\ UNCHANGED account
           ELSE IF FindByUsernameOrEmail(n) \ {e} # {}
             THEN Answer("400") /\ UNCHANGED account
           ELSE /\ account' = [account EXCEPT
                     ![e].name = n,
                     ![e].birth = IF birth = Absent THEN @ ELSE birth]
                /\ Answer("ok")
    /\ UNCHANGED today

(* GET google: a Google user whose e-mail and display name nobody has gets *)
(* an account under a name client<N>.  Which N the count of users makes it *)
(* is the matter of module ProviderLogin; here it may be any.              *)
GoogleLogin(e, display) ==
    /\ \/ /\ FindByUsernameOrEmail(e) \cup FindByUsernameOrEmail(display) # {}
          /\ Answer("ok") /\ UNCHANGED account
       \/ /\ FindByUsernameOrEmail(e) \cup FindByUsernameOrEmail(display) = {}
          /\ \E n \in Clients :
                IF \E x \in Existing : account[x].name = n
                  THEN Answer("500") /\ UNCHANGED account
                  ELSE /\ account' = [account EXCEPT ![e] =
                             [name |-> n, password |-> None, confirmed |-> FALSE,
                              recovery |-> FALSE, birth |-> None]]
                       /\ Answer("ok")
    /\ UNCHANGED today

NewYear ==
    /\ today < LastYear
    /\ today' = today + 1
    /\ UNCHANGED <<account, reply>>

Next ==
    \/ \E n, e, p \in Texts, same \in BOOLEAN : Register(n, e, p, same)
    \/ \E e \in Emails : Confirm(e)
    \/ \E e, p \in Texts : Login(e, p)
    \/ \E t \in Texts : UserPasswordRecovery(t)
    \/ \E e \in Emails, p \in Texts, same \in BOOLEAN : NewPassword(e, p, same)
    \/ \E e \in Emails, n \in Texts, birth \in Births \cup {None, Absent},
          wellFormed \in BOOLEAN : UpdateUser(e, n, birth, wellFormed)
    \/ \E e \in Emails, display \in Texts : GoogleLogin(e, display)
    \/ NewYear

Spec == Init /\ [][Next]_vars

-----------------------------------------------------------------------------
(* What one form stores no other form refuses for ever.  The owner of a    *)
(* confirmed account can log in with what registration or a new password   *)
(* stored, though LoginDto has its own copy of the rules and a @Transform  *)
(* that would trim what was stored untrimmed; the one exception is an      *)
(* e-mail of more than 50 characters, which registration takes and login   *)
(* always refuses.  And the user name an account has, whoever chose it,    *)
(* passes the profile form, which demands it.                              *)
FormsAgree ==
    \A e \in Existing :
       /\ account[e].confirmed =>
             LoginErrors(e, account[e].password)
                \subseteq (IF e.length > 50 THEN {"email"} ELSE {})
       /\ UpdateUserErrors(account[e].name, TRUE) = {}

(* findByUsernameOrEmail, given an e-mail, finds the account of that       *)
(* e-mail and no other: no form, and no login through Google, lets a user  *)
(* name be somebody's e-mail.  A recovery code goes to that account.       *)
LookupsFindTheOwner == \A e \in Emails : FindByUsernameOrEmail(e) \subseteq {e}

(* A date of birth on a profile is at least 13 years back, although later  *)
(* requests may leave it out (UpdateUser).                                 *)
ProfilesAreOfAge ==
    \A e \in Existing : account[e].birth # None => account[e].birth + 13 <= today
=============================================================================

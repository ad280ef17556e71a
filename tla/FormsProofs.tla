----------------------------- MODULE FormsProofs -----------------------------
(***************************************************************************)
(* Theorems about Forms, for any texts and years.  What an account holds   *)
(* passes the rules of the form that stored it; the theorems compare these *)
(* rules with those of the forms that read it again.                       *)
(***************************************************************************)
EXTENDS Forms, TLAPS

(* What the forms have let into an account.                                *)
Stored(a, year) ==
    /\ a.name \in Clients \/ NameRules(a.name)
    /\ a.password # None => PasswordRules(a.password)
    /\ a.confirmed => a.password # None
    /\ a.birth # None => a.birth + 13 <= year

IInv ==
    /\ today \in Nat
    /\ account \in [Emails -> Account \cup {None}]
    /\ \A e \in Existing : Stored(account[e], today)

-----------------------------------------------------------------------------
(* A form of two fields takes them when both pass.                         *)
LEMMA RefusedTwo ==
  ASSUME NEW a \in Fields, NEW P \in BOOLEAN,
         NEW b \in Fields, NEW Q \in BOOLEAN
  PROVE  Refused({<<a, P>>, <<b, Q>>}) = {} <=> P /\ Q
  BY DEF Refused

(* A form that refuses nothing has no field that fails.                    *)
LEMMA NothingRefused ==
  ASSUME NEW rules, Refused(rules) = {}, NEW f \in Fields
  PROVE  <<f, FALSE>> \notin rules
  BY DEF Refused

(* The fields the forms name.                                              *)
LEMMA FieldsAre ==
  /\ "username" \in Fields /\ "email" \in Fields /\ "password" \in Fields
  /\ "passwordConfirm" \in Fields /\ "profile" \in Fields
  BY DEF Fields

(* What registration, a new password and the profile form let through.     *)
LEMMA FormsTake ==
  ASSUME NEW n, NEW e \in Texts, NEW p, NEW same \in BOOLEAN
  PROVE  /\ CreateUserErrors(n, e, p, same) = {} =>
               NameRules(n) /\ e \in Emails /\ PasswordRules(p)
         /\ NewPasswordErrors(p, same) = {} => PasswordRules(p)
         /\ UpdateUserErrors(n, same) = {} => NameRules(n)
  <1>1. /\ NameRules(n) \in BOOLEAN /\ PasswordRules(p) \in BOOLEAN
        /\ e.email \in BOOLEAN
    BY TextsAssumption DEF NameRules, PasswordRules, IsPasswordMustContain
  <1>2. CreateUserErrors(n, e, p, same) = {} =>
           NameRules(n) /\ e.email /\ PasswordRules(p)
    <2> DEFINE rules == {<<"username", NameRules(n)>>, <<"email", e.email>>,
                         <<"password", PasswordRules(p)>>,
                         <<"passwordConfirm", same>>}
    <2>1. CreateUserErrors(n, e, p, same) = Refused(rules)
      BY DEF CreateUserErrors
    <2>2. ASSUME ~NameRules(n) PROVE <<"username", FALSE>> \in rules
      BY <1>1, <2>2
    <2>3. ASSUME ~e.email PROVE <<"email", FALSE>> \in rules
      BY <1>1, <2>3
    <2>4. ASSUME ~PasswordRules(p) PROVE <<"password", FALSE>> \in rules
      BY <1>1, <2>4
    <2> HIDE DEF rules
    <2> QED BY <2>1, <2>2, <2>3, <2>4, NothingRefused, FieldsAre
  <1>3. NewPasswordErrors(p, same) = {} => PasswordRules(p)
    BY <1>1, RefusedTwo, FieldsAre DEF NewPasswordErrors
  <1>4. UpdateUserErrors(n, same) = {} => NameRules(n)
    BY <1>1, RefusedTwo, FieldsAre DEF UpdateUserErrors
  <1> QED BY <1>2, <1>3, <1>4 DEF Emails

(* A name made by Google login passes the rules of the profile form.       *)
LEMMA ClientNamesPass ==
  ASSUME NEW n \in Clients
  PROVE  NameRules(n) /\ ~n.email
  BY ClientsAssumption DEF NameRules, Length

(* An account changed in one place is one of the accounts, and the others  *)
(* are what they were.                                                     *)
LEMMA OneChanged ==
  ASSUME IInv, NEW e \in Emails, NEW a \in Account, Stored(a, today'),
         account' = [account EXCEPT ![e] = a], today' = today
  PROVE  IInv'
  BY DEF IInv, Existing, Stored

-----------------------------------------------------------------------------
(* Before any request nobody has an account.                               *)
LEMMA InitIInv == Init => IInv
  BY YearAssumption DEF Init, IInv, Existing

(* POST registration stores what CreateUserDto has checked.                *)
LEMMA RegisterStep ==
  ASSUME IInv, NEW n \in Texts, NEW e \in Texts, NEW p \in Texts,
         NEW same \in BOOLEAN, Register(n, e, p, same)
  PROVE  IInv'
  <1>1. CASE UNCHANGED account
    BY <1>1 DEF Register, IInv, Existing, Stored
  <1>2. CASE ~UNCHANGED account
    <2> DEFINE a == [name |-> n, password |-> p, confirmed |-> FALSE,
                     recovery |-> FALSE, birth |-> None]
    <2>1. /\ CreateUserErrors(n, e, p, same) = {}
          /\ account' = [account EXCEPT ![e] = a] /\ today' = today
      BY <1>2 DEF Register
    <2>2. NameRules(n) /\ e \in Emails /\ PasswordRules(p)
      BY <2>1, FormsTake
    <2>3. a \in Account
      BY DEF Account
    <2>4. Stored(a, today')
      BY <2>2, NoneAssumption DEF Stored
    <2> HIDE DEF a
    <2> QED BY <2>1, <2>2, <2>3, <2>4, OneChanged
  <1> QED BY <1>1, <1>2

(* A confirmed account has a password: the mail of the code was sent to    *)
(* one that registered.                                                    *)
LEMMA ConfirmStep ==
  ASSUME IInv, NEW e \in Emails, Confirm(e)
  PROVE  IInv'
  <1> DEFINE a == [account[e] EXCEPT !.confirmed = TRUE]
  <1>1. account[e] \in Account /\ Stored(account[e], today) /\ account[e].password # None
    BY DEF Confirm, IInv, Existing
  <1>2. account' = [account EXCEPT ![e] = a] /\ today' = today
    BY DEF Confirm
  <1>3. a \in Account
    BY <1>1 DEF Account
  <1>4. Stored(a, today')
    BY <1>1, <1>2 DEF Stored, Account
  <1> HIDE DEF a
  <1> QED BY <1>2, <1>3, <1>4, OneChanged

(* POST password-recovery changes nothing of what the forms read.          *)
LEMMA RecoveryStep ==
  ASSUME IInv, NEW t \in Texts, UserPasswordRecovery(t)
  PROVE  IInv'
  <1>1. CASE UNCHANGED account
    BY <1>1 DEF UserPasswordRecovery, IInv, Existing, Stored
  <1>2. CASE ~UNCHANGED account
    <2>1. PICK e \in FindByUsernameOrEmail(t) :
             account' = [account EXCEPT ![e].recovery =
                                    @ \/ account[e].confirmed]
      BY <1>2 DEF UserPasswordRecovery
    <2> DEFINE a == [account[e] EXCEPT !.recovery = @ \/ account[e].confirmed]
    <2>2. e \in Emails /\ account[e] \in Account /\ Stored(account[e], today)
      BY DEF FindByUsernameOrEmail, IInv, Existing
    <2>3. account' = [account EXCEPT ![e] = a] /\ today' = today
      BY <2>1 DEF UserPasswordRecovery
    <2>4. a \in Account
      BY <2>2 DEF Account
    <2>5. Stored(a, today')
      BY <2>2, <2>3 DEF Stored, Account
    <2> HIDE DEF a
    <2> QED BY <2>2, <2>3, <2>4, <2>5, OneChanged
  <1> QED BY <1>1, <1>2

(* POST new-password stores what NewPasswordDto has checked.               *)
LEMMA NewPasswordStep ==
  ASSUME IInv, NEW e \in Emails, NEW p \in Texts, NEW same \in BOOLEAN,
         NewPassword(e, p, same)
  PROVE  IInv'
  <1>1. CASE UNCHANGED account
    BY <1>1 DEF NewPassword, IInv, Existing, Stored
  <1>2. CASE ~UNCHANGED account
    <2> DEFINE a == [account[e] EXCEPT !.password = p]
    <2>1. account[e] \in Account /\ Stored(account[e], today)
      BY DEF NewPassword, IInv, Existing
    <2>2. /\ NewPasswordErrors(p, same) = {}
          /\ account' = [account EXCEPT ![e] = a] /\ today' = today
      BY <1>2 DEF NewPassword
    <2>3. PasswordRules(p) /\ p # None
      BY <2>2, FormsTake, NoneAssumption DEF Emails
    <2>4. a \in Account
      BY <2>1 DEF Account
    <2>5. Stored(a, today')
      BY <2>1, <2>2, <2>3 DEF Stored, Account
    <2> HIDE DEF a
    <2> QED BY <2>2, <2>4, <2>5, OneChanged
  <1> QED BY <1>1, <1>2

(* PUT user stores a name that UpdateUserDto has checked, and a date of    *)
(* birth that UpdateUser has.                                              *)
LEMMA UpdateUserStep ==
  ASSUME IInv, NEW e \in Emails, NEW n \in Texts,
         NEW birth \in Births \cup {None, Absent}, NEW wellFormed \in BOOLEAN,
         UpdateUser(e, n, birth, wellFormed)
  PROVE  IInv'
  <1>1. CASE UNCHANGED account
    BY <1>1 DEF UpdateUser, IInv, Existing, Stored
  <1>2. CASE ~UNCHANGED account
    <2> DEFINE b == IF birth = Absent THEN account[e].birth ELSE birth
               a == [account[e] EXCEPT !.name = n, !.birth = b]
    <2>1. account[e] \in Account /\ Stored(account[e], today) /\ today \in Nat
      BY DEF UpdateUser, IInv, Existing
    <2>2. /\ UpdateUserErrors(n, wellFormed) = {} /\ ~TooYoung(birth)
          /\ account' = [account EXCEPT ![e].name = n, ![e].birth = b]
          /\ today' = today
      BY <1>2 DEF UpdateUser
    <2>3. NameRules(n)
      BY <2>2, FormsTake DEF Emails
    <2>4. b \in Births \cup {None} /\ (b # None => b + 13 <= today)
      BY <2>1, <2>2, YearAssumption DEF TooYoung, Account, Stored
    <2> HIDE DEF b
    <2>5. account' = [account EXCEPT ![e] = a]
      BY <2>2 DEF IInv
    <2>6. a \in Account
      BY <2>1, <2>4 DEF Account
    <2>7. Stored(a, today')
      BY <2>1, <2>2, <2>3, <2>4 DEF Stored, Account
    <2> HIDE DEF a
    <2> QED BY <2>2, <2>5, <2>6, <2>7, OneChanged
  <1> QED BY <1>1, <1>2

(* GET google makes a name no rule has checked, which passes them.         *)
LEMMA GoogleLoginStep ==
  ASSUME IInv, NEW e \in Emails, NEW display \in Texts, GoogleLogin(e, display)
  PROVE  IInv'
  <1>1. CASE UNCHANGED account
    BY <1>1 DEF GoogleLogin, IInv, Existing, Stored
  <1>2. CASE ~UNCHANGED account
    <2>0. PICK n \in Clients :
             account' = [account EXCEPT ![e] =
                [name |-> n, password |-> None, confirmed |-> FALSE,
                 recovery |-> FALSE, birth |-> None]]
      BY <1>2 DEF GoogleLogin
    <2> DEFINE a == [name |-> n, password |-> None, confirmed |-> FALSE,
                     recovery |-> FALSE, birth |-> None]
    <2>1. account' = [account EXCEPT ![e] = a] /\ today' = today
      BY <2>0 DEF GoogleLogin
    <2>2. a \in Account
      BY DEF Account
    <2>3. Stored(a, today')
      BY DEF Stored
    <2> HIDE DEF a
    <2> QED BY <2>1, <2>2, <2>3, OneChanged
  <1> QED BY <1>1, <1>2

(* Every step leaves accounts that hold what the forms let into them.      *)
LEMMA NextIInv == IInv /\ [Next]_vars => IInv'
  <1> SUFFICES ASSUME IInv, [Next]_vars PROVE IInv'
    OBVIOUS
  <1>1. ASSUME NEW e \in Texts, NEW p \in Texts, Login(e, p) PROVE IInv'
    BY <1>1 DEF Login, IInv, Existing, Stored
  <1>2. CASE NewYear
    <2>1. today \in Nat /\ today' = today + 1 /\ account' = account
      BY <1>2 DEF NewYear, IInv
    <2>2. ASSUME NEW e \in Existing PROVE Stored(account[e], today')
      <3>1. account[e] \in Account /\ Stored(account[e], today)
        BY <2>2 DEF IInv, Existing
      <3>2. ASSUME account[e].birth # None
            PROVE  account[e].birth + 13 <= today'
        <4>1. account[e].birth \in Nat /\ account[e].birth + 13 <= today
          BY <3>1, <3>2, YearAssumption DEF Stored, Account
        <4> QED BY <2>1, <4>1
      <3> QED BY <3>1, <3>2 DEF Stored
    <2> QED BY <2>1, <2>2 DEF IInv, Existing
  <1>3. CASE UNCHANGED vars
    BY <1>3 DEF vars, IInv, Existing, Stored
  <1> QED
    BY <1>1, <1>2, <1>3, RegisterStep, ConfirmStep, RecoveryStep,
       NewPasswordStep, UpdateUserStep, GoogleLoginStep DEF Next

(* What accounts hold has always passed a form.                            *)
THEOREM OnlyCheckedIsStored == Spec => []IInv
  BY InitIInv, NextIInv, PTL DEF Spec

(* No form refuses for ever what another one stored: login takes every     *)
(* password that registration and new-password store, but for an e-mail of *)
(* more than 50 characters, and the profile form takes every user name.    *)
THEOREM FormsAgreeAlways == Spec => []FormsAgree
  <1>1. ASSUME IInv PROVE FormsAgree
    <2> SUFFICES ASSUME NEW e \in Existing
                 PROVE  /\ account[e].confirmed =>
                              LoginErrors(e, account[e].password) \subseteq
                                 (IF e.length > 50 THEN {"email"} ELSE {})
                        /\ UpdateUserErrors(account[e].name, TRUE) = {}
      BY DEF FormsAgree
    <2>1. /\ Stored(account[e], today) /\ e \in Texts /\ e.email
          /\ e.length \in Nat /\ 3 <= e.length
      BY <1>1, TextsAssumption DEF IInv, Existing, Emails
    <2>2. UpdateUserErrors(account[e].name, TRUE) = {}
      <3>1. NameRules(account[e].name) = TRUE
        BY <2>1, ClientNamesPass DEF Stored, NameRules
      <3> QED BY <3>1, RefusedTwo, FieldsAre DEF UpdateUserErrors
    <2>3. ASSUME account[e].confirmed
          PROVE  LoginErrors(e, account[e].password) \subseteq
                    (IF e.length > 50 THEN {"email"} ELSE {})
      <3> DEFINE p == account[e].password
                 P == e.email /\ Length(e, 3, 50)
                 Q == IsPasswordMustContain(p) /\ Length(p, 6, 20)
      <3>2. Q
        BY <2>1, <2>3 DEF Stored, PasswordRules
      <3>3. e.length <= 50 => P
        BY <2>1 DEF Length
      <3>4. LoginErrors(e, p) = Refused({<<"email", P>>, <<"password", Q>>})
        BY DEF LoginErrors
      <3>5. ASSUME NEW f \in LoginErrors(e, p), e.length <= 50 PROVE FALSE
        <4>1. P = TRUE /\ Q = TRUE
          BY <3>2, <3>3, <3>5
        <4>2. <<f, FALSE>> \in {<<"email", TRUE>>, <<"password", TRUE>>}
          BY <3>4, <3>5, <4>1 DEF Refused
        <4> QED BY <4>2
      <3>6. ASSUME NEW f \in LoginErrors(e, p) PROVE f = "email"
        <4>1. Q = TRUE
          BY <3>2
        <4>2. <<f, FALSE>> \in {<<"email", P>>, <<"password", TRUE>>}
          BY <3>4, <3>6, <4>1 DEF Refused
        <4> QED BY <4>2
      <3> QED BY <2>1, <3>5, <3>6
    <2> QED BY <2>2, <2>3
  <1> QED BY <1>1, OnlyCheckedIsStored, PTL

(* No user name, typed or made, is an e-mail, so a lookup by an e-mail     *)
(* finds its account only (findByUsernameOrEmail).                         *)
THEOREM OwnersAreFound == Spec => []LookupsFindTheOwner
  <1>1. ASSUME IInv PROVE LookupsFindTheOwner
    <2>1. ASSUME NEW f \in Existing PROVE account[f].name \notin Emails
      <3>1. Stored(account[f], today)
        BY <1>1, <2>1 DEF IInv
      <3>2. CASE account[f].name \in Clients
        BY <3>2, ClientNamesPass DEF Emails
      <3>3. CASE NameRules(account[f].name)
        BY <3>3, TextsAssumption DEF NameRules, Emails
      <3> QED BY <3>1, <3>2, <3>3 DEF Stored
    <2> QED BY <2>1 DEF LookupsFindTheOwner, FindByUsernameOrEmail
  <1> QED BY <1>1, OnlyCheckedIsStored, PTL

(* Whatever a profile's later updates leave out, its date of birth is at   *)
(* least thirteen years back (UpdateUser).                                 *)
THEOREM AgeIsChecked == Spec => []ProfilesAreOfAge
  <1>1. IInv => ProfilesAreOfAge
    BY DEF IInv, Stored, ProfilesAreOfAge
  <1> QED BY <1>1, OnlyCheckedIsStored, PTL
=============================================================================

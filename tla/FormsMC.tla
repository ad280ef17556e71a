------------------------------- MODULE FormsMC -------------------------------
(* The instance of Forms TLC checks: each rule has a text that just passes *)
(* and one that just fails it.                                             *)
EXTENDS Forms

Text(word, length, chars, email) ==
    [word |-> <<word, 0>>, length |-> length, chars |-> chars,
     padded |-> FALSE, email |-> email]

Strong == {"lower", "upper", "digit"}

Name == Text("name", 30, {"lower", "dash"}, FALSE)
Mail == Text("mail", 12, {"lower", "special"}, TRUE)
LongMail == Text("long mail", 51, {"lower", "special"}, TRUE)
Password == Text("password", 20, Strong \cup {"special"}, FALSE)

\* A made-up name is as long as its number makes it.
Client(n, digits) ==
    [word |-> <<"client", n>>, length |-> 6 + digits,
     chars |-> {"lower", "digit"}, padded |-> FALSE, email |-> FALSE]

MCClients == {Client(2, 1), Client(3, 19)}

MCTexts ==
    {Name, Mail, LongMail, Password,
     Text("long name", 31, {"lower"}, FALSE),
     Text("accent", 8, Strong \cup {"accent"}, FALSE),
     Text("lines", 8, Strong \cup {"dash", "break"}, FALSE),
     [Text("padded", 6, Strong \cup {"dash", "other"}, FALSE)
        EXCEPT !.padded = TRUE],
     Client(2, 1)}
=============================================================================

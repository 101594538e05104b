----------------------------- MODULE MCSessions -----------------------------
(* Two registrations race for one e-mail, a login and another account open *)
(* more families; refreshes and logouts contend for their tokens.          *)
EXTENDS Sessions

CONSTANTS a1, a2, b, l, f1, f2, f3, o, alice, bob

KindOf == [c \in Calls |-> IF c \in {a1, a2, b} THEN "register"
                           ELSE IF c = l THEN "login"
                           ELSE IF c = o THEN "logout" ELSE "refresh"]

Emails == [c \in Calls |-> IF c \in {b, o} THEN bob ELSE alice]

\* The two scenes: accounts and sessions that come into being while others end;
\* and one family with two living tokens, of which two calls want the end.
Arrived == {c \in Calls : pc[c] # "idle"}
Scenes  == Arrived \subseteq {a1, a2, b, l, f1, f2, o} \/ Arrived \subseteq {b, f1, f2, f3, o}
=============================================================================

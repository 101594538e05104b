------------------------------ MODULE MCWsHub ------------------------------
(* Two connections of one user, and one of another user.                   *)
EXTENDS WsHub

CONSTANTS c1, c2, c3

Accounts == [c \in Conns |-> IF c = c3 THEN "bob" ELSE "alice"]
=============================================================================

---------------------------- MODULE MCApiServer ----------------------------
(* Instances of ApiServer for TLC.                                         *)
EXTENDS ApiServer, TLC

CONSTANTS m1, m2, plain1, probe1, k1

\* A money request and its retry.
OneKey == [r \in Money |-> k1]

\* Any three of the four requests, with the loops, contend for the pool.
ThreeArrive == Cardinality({r \in Requests : pc[r] # "new"}) <= 3
=============================================================================

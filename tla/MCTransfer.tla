----------------------------- MODULE MCTransfer ------------------------------
(***************************************************************************)
(* Transfer as the model checker runs it: `a' is the first entry, and `b'  *)
(* and its rival `x' follow it.  n1 may vote for a and b, n2 for x.  The   *)
(* transfers go one way, from n1 to n2.                                    *)
(***************************************************************************)
EXTENDS Transfer, TLC

CONSTANTS a, b, x, n1, n2

Tree == (a :> Zero) @@ (b :> a) @@ (x :> a)
TreeDepth == (a :> 1) @@ (b :> 2) @@ (x :> 2)
Votes == [n \in Node |-> IF n = n1 THEN {a, b} ELSE IF n = n2 THEN {x} ELSE {}]

X(k, m, n, i) == [kind |-> k, src |-> m, dst |-> n, no |-> i]
Routes == {X("heal", n1, n2, 1), X("seed", n1, n2, 2), X("push", n1, n2, 3)}
=============================================================================

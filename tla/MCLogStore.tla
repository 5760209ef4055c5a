----------------------------- MODULE MCLogStore ------------------------------
(***************************************************************************)
(* LogStore as the model checker runs it, on a tree of four entries: `a'   *)
(* and its rival `x' are first entries, `b' follows `a' and `c' follows    *)
(* `b'.                                                                    *)
(***************************************************************************)
EXTENDS LogStore, TLC

CONSTANTS a, b, c, x, t1, t2, t3

Tree == (a :> Zero) @@ (x :> Zero) @@ (b :> a) @@ (c :> b)
TreeDepth == (a :> 1) @@ (x :> 1) @@ (b :> 2) @@ (c :> 3)
\* Many callers that append and ask for new entries; or one that appends and rolls
\* back and one that marks.
MCPrograms ==
    {[t \in Thread |-> {"append", "new"}],
     [t \in Thread |-> IF t = t1 THEN {"append", "rollback"}
                       ELSE IF t = t2 THEN {"mark"} ELSE {}]}
=============================================================================

------------------------------- MODULE MCSeed --------------------------------
(***************************************************************************)
(* Seed as the model checker runs it: with two workers and one place each  *)
(* on the stream and in the channel, five keys fit and six do not.         *)
(***************************************************************************)
EXTENDS Seed

MCStores == {1..4, 1..5, 1..6}
\* A new node, and one that has had all keys for a while.
MCLocals == {[k \in Key |-> "missing"],
             [k \in Key |-> IF k % 2 = 0 THEN "behind" ELSE "same"]}
=============================================================================

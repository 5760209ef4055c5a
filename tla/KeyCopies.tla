----------------------------- MODULE KeyCopies ------------------------------
(***************************************************************************)
(* What moving the log of a key between nodes promises, without streams,   *)
(* locks or requests: a node's log grows by one entry at a time, which the *)
(* node appends after a vote or copies from a node that is ahead of it, at *)
(* the place where the two logs part.                                      *)
(***************************************************************************)
EXTENDS Entries

CONSTANTS
    Node,
    Voted       \* [Node -> SUBSET Entry], the entries a node may append itself

VARIABLE log

Init == log = [n \in Node |-> <<>>]

Vote(n, e) ==
    /\ e \in Voted[n] /\ Previous[e] = LastOf(log[n])
    /\ log' = [log EXCEPT ![n] = Append(@, e)]

\* Node m has all that n has, and at least one entry more.
Ahead(m, n) ==
    /\ Len(log[n]) < Len(log[m])
    /\ \A i \in DOMAIN log[n] : log[m][i] = log[n][i]

Copy(n, m) ==
    /\ Ahead(m, n)
    /\ log' = [log EXCEPT ![n] = Append(@, log[m][Len(@) + 1])]

Next == \E n \in Node : (\E e \in Entry : Vote(n, e)) \/ (\E m \in Node : Copy(n, m))

Spec == Init /\ [][Next]_log
=============================================================================

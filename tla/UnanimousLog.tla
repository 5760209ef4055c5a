---------------------------- MODULE UnanimousLog ----------------------------
(***************************************************************************)
(* What the voting of hexalog promises about the log of one key, without   *)
(* ballots, broadcasts or messages: a peer pledges itself to an entry only *)
(* if it has everything below the entry, and an entry is appended anywhere *)
(* only when every peer has pledged itself to it.  Nothing is promised     *)
(* about rival entries: a peer may pledge itself to both.                  *)
(***************************************************************************)
EXTENDS Entries

CONSTANT Peer

VARIABLES
    log,        \* the log of the key on each peer
    pledged     \* the entries a peer agreed to have appended

Init == /\ log = [n \in Peer |-> <<>>]
        /\ pledged = [n \in Peer |-> {}]

\* A peer has verified the entry against its log and votes to commit it.
Pledge(p, e) ==
    /\ Previous[e] \in Elems(log[p]) \cup {Zero}
    /\ pledged' = [pledged EXCEPT ![p] = @ \cup {e}]
    /\ UNCHANGED log

\* Voted for by all peers, or pulled from one that has it.
AppendPledged(n, e) ==
    /\ \A p \in Peer : e \in pledged[p]
    /\ Previous[e] = LastOf(log[n])
    /\ log' = [log EXCEPT ![n] = Append(@, e)]
    /\ UNCHANGED pledged

Next == \E n \in Peer, e \in Entry : Pledge(n, e) \/ AppendPledged(n, e)

Spec == Init /\ [][Next]_<<log, pledged>>

-----------------------------------------------------------------------------
(* The invariant that makes the promise worth something.                   *)

LogTypeOK == /\ log \in [Peer -> Seq(Entry)]
             /\ pledged \in [Peer -> SUBSET Entry]

\* Every log is a chain of Previous hashes, an entry's depth is its place in it.
Chained ==
    \A n \in Peer : \A i \in DOMAIN log[n] :
        /\ Previous[log[n][i]] = IF i = 1 THEN Zero ELSE log[n][i - 1]
        /\ Depth[log[n][i]] = i

\* A pledged peer has the entry below.
Grounded == \A p \in Peer : \A e \in pledged[p] : Previous[e] \in Elems(log[p]) \cup {Zero}

Unanimity == \A n \in Peer : \A e \in Elems(log[n]) : \A p \in Peer : e \in pledged[p]

LogInv == LogTypeOK /\ Chained /\ Grounded /\ Unanimity

\* Keys may fork, but only in their last entry: each node has everything except
\* the last entry of every other node's log, at the same place.
SettledPrefix ==
    \A n, m \in Peer : \A i \in 1..(Len(log[n]) - 1) :
        i <= Len(log[m]) /\ log[m][i] = log[n][i]
=============================================================================

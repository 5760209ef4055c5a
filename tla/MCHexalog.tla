------------------------------ MODULE MCHexalog ------------------------------
(* Instances of Hexalog for TLC: entries e1 and e2 in a chain or in conflict. *)
EXTENDS Hexalog

CONSTANTS p1, p2, e1, e2

ChainPrevious == [e \in Entry |-> IF e = e1 THEN Zero ELSE e1]
ChainHeight == [e \in Entry |-> IF e = e1 THEN 1 ELSE 2]
RivalPrevious == [e \in Entry |-> Zero]
RivalHeight == [e \in Entry |-> 1]

\* Bounds on ballots and timeouts: the same for all, or where the reaper makes room
\* for a second ballot, and a timer ends one early, on the way of e1 and then e2.
OneEach == [n \in Peer |-> [e \in Entry |-> 1]]
TwoEach == [n \in Peer |-> [e \in Entry |-> 2]]
LaterTwo == [n \in Peer |-> [e \in Entry |-> IF n # First /\ e = e2 THEN 2 ELSE 1]]
EarlyOne == [n \in Peer |-> [e \in Entry |-> IF (e = e1) = (n = First) THEN 1 ELSE 0]]
==============================================================================

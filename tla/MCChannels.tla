----------------------------- MODULE MCChannels ------------------------------
(***************************************************************************)
(* Channels as the model checker runs it, with channels of one place, so   *)
(* that three entries do not fit.                                          *)
(***************************************************************************)
EXTENDS Channels, TLC

CONSTANTS n1, n2, n3, a, b, c

Pairs == {p \in SUBSET Node : Cardinality(p) = 2}
Two == {es \in SUBSET Entry : Cardinality(es) = 2}

\* The entries es of keys with the PeerSet ps, and what may happen to them.
Quiet(es, ps) ==
    [peers |-> [e \in Entry |-> IF e \in es THEN ps ELSE {}],
     behind |-> [e \in Entry |-> {}], quits |-> {}, timeouts |-> 0, clients |-> 1]
Behind1(l, n) == [l EXCEPT !.behind = [e \in Entry |-> {n}]]

\* Two clients that propose the entry of one key, on two peers and with a ballot that may
\* time out, or on three with one that is behind; three keys on two peers, one node
\* behind; two keys on two peers with a peer that may shut down.
MCLoads ==
    {[Quiet({e}, p) EXCEPT !.clients = 2, !.timeouts = 1] : e \in Entry, p \in Pairs}
    \cup {[Behind1(Quiet({e}, Node), n) EXCEPT !.clients = 2] : e \in Entry, n \in Node}
    \cup {Behind1(Quiet(Entry, p), n) : p \in Pairs, n \in Node}
    \cup UNION {{[Quiet(es, p) EXCEPT !.quits = {n}] : es \in Two, n \in p} : p \in Pairs}
Symmetry == Permutations(Node) \cup Permutations(Entry)
=============================================================================

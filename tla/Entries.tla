------------------------------- MODULE Entries -------------------------------
(***************************************************************************)
(* The entries of one key (entry.go).  An entry is an identifier that      *)
(* stands for its own hash and names the hash of the entry before it.      *)
(***************************************************************************)
EXTENDS Integers, Sequences

CONSTANTS
    Entry,       \* entries that clients may propose
    Zero,        \* the zero hash, Previous of the first entry of a key
    Previous,    \* [Entry -> Entry \cup {Zero}], the field of an entry
    Depth        \* [Entry -> Nat \ {0}], its place in its chain of hashes

\* A chain of hashes has no cycle.
ASSUME EntriesAssumption ==
    /\ Zero \notin Entry
    /\ Previous \in [Entry -> Entry \cup {Zero}]
    /\ Depth \in [Entry -> Nat \ {0}]
    /\ \A e \in Entry : Depth[e] = IF Previous[e] = Zero
                                    THEN 1 ELSE Depth[Previous[e]] + 1

Elems(s) == {s[i] : i \in DOMAIN s}
LastOf(s) == IF s = <<>> THEN Zero ELSE s[Len(s)]
=============================================================================

------------------------------ MODULE LogStore -------------------------------
(***************************************************************************)
(* The log of one key on one node (logstore.go, keylog.go, ukeylogindex.go *)
(* and the in-memory stores behind it) under threads that create, append,  *)
(* roll back and mark at the same time.  Every step is one critical        *)
(* section of a store: a thread that has fetched the index of the key goes *)
(* on with it after the key was removed or replaced.                       *)
(*                                                                         *)
(* Abstractions: an entry is an identifier that stands for its own hash,   *)
(* and Zero also for nil; RemoveKey deletes the entries of the removed     *)
(* index in one step; lamport times are left out.                          *)
(***************************************************************************)
EXTENDS Entries

CONSTANTS
    Thread,     \* the callers of the store
    Programs,   \* which operations each caller calls: [Thread -> SUBSET OpKind], any of these
    MaxIndex    \* bound on the indexes created for the key

OpKind == {"append", "new", "rollback", "mark"}

ASSUME StoreAssumption ==
    /\ Programs \subseteq [Thread -> SUBSET OpKind]
    /\ MaxIndex \in Nat

VARIABLES
    index,      \* the place in `indexes' of the key's index, 0 without the key
    indexes,    \* every index ever created for the key: its entries and marker
    entries,    \* the entry store
    thread,     \* what each caller is doing, with which entry and index
    issued,     \* history: the Previous and Height of the entries from NewEntry
    ops         \* what each caller calls, chosen at the start

vars == <<index, indexes, entries, thread, issued, ops>>

EntryOrZero == Entry \cup {Zero}
Step == {"idle", "set", "index", "last", "count", "check", "delete", "pop",
         "remove", "unlink", "purge", "marker", "create"}

TypeOK ==
    /\ index \in 0..Len(indexes)
    /\ indexes \in Seq([entries : Seq(Entry), marker : EntryOrZero])
    /\ entries \subseteq Entry
    /\ thread \in [Thread -> [pc : Step, entry : EntryOrZero, idx : 0..Len(indexes)]]
    /\ \A t \in Thread : thread[t].pc \notin {"idle", "remove", "create"} => thread[t].idx # 0
    /\ issued \subseteq [previous : EntryOrZero, height : Nat]
    /\ ops \in Programs

Idle == [pc |-> "idle", entry |-> Zero, idx |-> 0]

Init ==
    /\ index = 0 /\ indexes = <<>> /\ entries = {}
    /\ thread = [t \in Thread |-> Idle]
    /\ issued = {} /\ ops \in Programs

\* The entries of the key's index, and of the one a thread has fetched.
Log == IF index = 0 THEN <<>> ELSE indexes[index].entries
LogOf(t) == indexes[thread[t].idx].entries

At(t, pc) == thread[t].pc = pc
Goto(t, pc) == thread' = [thread EXCEPT ![t].pc = pc]
Return(t) == thread' = [thread EXCEPT ![t] = Idle]

-----------------------------------------------------------------------------
(* The key.                                                                *)

NewIndex(marker) == [entries |-> <<>>, marker |-> marker]

\* InMemIndexStore.NewKey, one critical section; ErrKeyExists changes nothing.
NewKey ==
    /\ index = 0 /\ Len(indexes) < MaxIndex
    /\ indexes' = Append(indexes, NewIndex(Zero))
    /\ index' = Len(indexes) + 1
    /\ UNCHANGED <<entries, thread, issued>>

\* Mutant of GetKey: a missing key is not an error.
GetKeyUnchecked(t, op, e) ==
    LET first == [append |-> "set", new |-> "last", rollback |-> "check"] IN
    /\ At(t, "idle") /\ op \in ops[t] \cap DOMAIN first
    /\ thread' = [thread EXCEPT ![t] = [pc |-> first[op], entry |-> e, idx |-> index]]
    /\ UNCHANGED <<index, indexes, entries, issued>>

\* GetKey at the start of AppendEntry, NewEntry and RollbackEntry.  Without the key
\* NewEntry answers the zero hash and height 1 and the others an error.
GetKey(t, op, e) ==
    LET first == [append |-> "set", new |-> "last", rollback |-> "check"] IN
    /\ At(t, "idle") /\ op \in ops[t] \cap DOMAIN first
    /\ \/ /\ index # 0
          /\ thread' = [thread EXCEPT ![t] = [pc |-> first[op], entry |-> e, idx |-> index]]
          /\ UNCHANGED issued
       \/ /\ index = 0 /\ op = "new"
          /\ issued' = issued \cup {[previous |-> Zero, height |-> 1]}
          /\ UNCHANGED thread
    /\ UNCHANGED <<index, indexes, entries>>

-----------------------------------------------------------------------------
(* Keylog.AppendEntry.                                                     *)

\* The entry store comes first, so that an indexed entry can always be read.
EntrySet(t) ==
    /\ At(t, "set")
    /\ entries' = entries \cup {thread[t].entry}
    /\ Goto(t, "index")
    /\ UNCHANGED <<index, indexes, issued>>

Appended(x, e) == [entries |-> Append(x.entries, e),
                   marker |-> IF x.marker = e THEN Zero ELSE x.marker]

\* Mutant of IndexAppend: the previous hash is not compared.
IndexAppendAny(t) ==
    /\ At(t, "index")
    /\ indexes' = [indexes EXCEPT ![thread[t].idx] = Appended(@, thread[t].entry)]
    /\ Return(t)
    /\ UNCHANGED <<index, entries, issued>>

\* SafeKeylogIndex.Append: the previous hash is checked under the lock.  On an
\* error the entry stays in the entry store.
IndexAppend(t) ==
    LET e == thread[t].entry IN
    /\ At(t, "index")
    /\ indexes' = IF Previous[e] = LastOf(LogOf(t))
                  THEN [indexes EXCEPT ![thread[t].idx] = Appended(@, e)] ELSE indexes
    /\ Return(t)
    /\ UNCHANGED <<index, entries, issued>>

-----------------------------------------------------------------------------
(* NewEntry.                                                               *)

ReadLast(t) ==
    /\ At(t, "last")
    /\ thread' = [thread EXCEPT ![t].pc = "count", ![t].entry = LastOf(LogOf(t))]
    /\ UNCHANGED <<index, indexes, entries, issued>>

\* Mutant of ReadCount: the height of the last entry, not of the next one.
CountOfLast(t) ==
    LET prev == thread[t].entry IN
    /\ At(t, "count")
    /\ issued' = issued \cup
         {[previous |-> prev, height |-> IF prev = Zero THEN 1 ELSE Len(LogOf(t))]}
    /\ Return(t)
    /\ UNCHANGED <<index, indexes, entries>>

\* The count is a second critical section.
ReadCount(t) ==
    LET prev == thread[t].entry IN
    /\ At(t, "count")
    /\ issued' = issued \cup
         {[previous |-> prev, height |-> IF prev = Zero THEN 1 ELSE Len(LogOf(t)) + 1]}
    /\ Return(t)
    /\ UNCHANGED <<index, indexes, entries>>

-----------------------------------------------------------------------------
(* RollbackEntry and RemoveKey.                                            *)

\* Only the last entry may be rolled back; an empty index means removing the key.
CheckLast(t) ==
    LET last == LastOf(LogOf(t)) IN
    /\ At(t, "check")
    /\ IF last = Zero THEN Goto(t, "remove")
       ELSE IF last = thread[t].entry THEN Goto(t, "delete") ELSE Return(t)
    /\ UNCHANGED <<index, indexes, entries, issued>>

\* An entry the store does not have is an error, with the count of the index.
DeleteEntry(t) ==
    LET e == thread[t].entry IN
    /\ At(t, "delete")
    /\ IF e \in entries THEN Goto(t, "pop")
       ELSE IF LogOf(t) = <<>> THEN Goto(t, "remove") ELSE Return(t)
    /\ entries' = entries \ {e}
    /\ UNCHANGED <<index, indexes, issued>>

\* Mutant of PopLast: the entry is deleted but stays in the index.
PopNothing(t) ==
    /\ At(t, "pop") /\ Return(t)
    /\ UNCHANGED <<index, indexes, entries, issued>>

\* UnsafeKeylogIndex.Rollback drops whatever is the last entry by now.
PopLast(t) ==
    LET n == Len(LogOf(t)) IN
    /\ At(t, "pop")
    /\ indexes' = IF n = 0 THEN indexes
                  ELSE [indexes EXCEPT ![thread[t].idx].entries = SubSeq(@, 1, n - 1)]
    /\ IF n <= 1 THEN Goto(t, "remove") ELSE Return(t)
    /\ UNCHANGED <<index, entries, issued>>

\* RemoveKey fetches the index again ...
RemoveKey(t) ==
    /\ At(t, "remove")
    /\ IF index = 0 THEN Return(t)
       ELSE thread' = [thread EXCEPT ![t].pc = "unlink", ![t].idx = index]
    /\ UNCHANGED <<index, indexes, entries, issued>>

\* ... removes whatever index the key has now ...
Unlink(t) ==
    /\ At(t, "unlink")
    /\ index' = 0
    /\ IF index = 0 THEN Return(t) ELSE Goto(t, "purge")
    /\ UNCHANGED <<indexes, entries, issued>>

\* ... and deletes the entries of the one it fetched, up to the first missing one.
Purge(t) ==
    LET s == LogOf(t) IN
    /\ At(t, "purge")
    /\ entries' = entries \
         {s[i] : i \in {j \in DOMAIN s : \A k \in 1..j : s[k] \in entries}}
    /\ Return(t)
    /\ UNCHANGED <<index, indexes, issued>>

-----------------------------------------------------------------------------
(* InMemIndexStore.MarkKey.                                                *)

\* The read lock is released before anything is done.
MarkKey(t, e) ==
    /\ "mark" \in ops[t] /\ At(t, "idle")
    /\ index # 0 \/ Len(indexes) < MaxIndex
    /\ thread' = [thread EXCEPT ![t] =
         [pc |-> IF index # 0 THEN "marker" ELSE "create", entry |-> e, idx |-> index]]
    /\ UNCHANGED <<index, indexes, entries, issued>>

\* Mutant of SetMarker: the marker is set whatever the index has.
SetMarkerAlways(t) ==
    /\ At(t, "marker")
    /\ indexes' = [indexes EXCEPT ![thread[t].idx].marker = thread[t].entry]
    /\ Return(t)
    /\ UNCHANGED <<index, entries, issued>>

\* SetMarker, unless the index has the entry.
SetMarker(t) ==
    LET e == thread[t].entry IN
    /\ At(t, "marker")
    /\ indexes' = IF e \in Elems(LogOf(t)) THEN indexes
                  ELSE [indexes EXCEPT ![thread[t].idx].marker = e]
    /\ Return(t)
    /\ UNCHANGED <<index, entries, issued>>

\* The new index takes the place of one created meanwhile.
CreateMarked(t) ==
    /\ At(t, "create")
    /\ indexes' = Append(indexes, NewIndex(thread[t].entry))
    /\ index' = Len(indexes) + 1
    /\ Return(t)
    /\ UNCHANGED <<entries, issued>>

-----------------------------------------------------------------------------
Next ==
    \/ NewKey
    \/ \E t \in Thread :
         \/ \E e \in Entry : \/ \E op \in {"append", "rollback"} : GetKey(t, op, e)
                             \/ MarkKey(t, e)
         \/ GetKey(t, "new", Zero)
         \/ EntrySet(t) \/ IndexAppend(t) \/ ReadLast(t) \/ ReadCount(t)
         \/ CheckLast(t) \/ DeleteEntry(t) \/ PopLast(t)
         \/ RemoveKey(t) \/ Unlink(t) \/ Purge(t)
         \/ SetMarker(t) \/ CreateMarked(t)

Spec == Init /\ [][Next /\ UNCHANGED ops]_vars

-----------------------------------------------------------------------------
RollsBack == {t \in Thread : "rollback" \in ops[t]}
Marks == {t \in Thread : "mark" \in ops[t]}
RollingBack(e) == \E t \in Thread : thread[t].pc = "pop" /\ thread[t].entry = e

\* An entry in the key's index can be read from the entry store, except the one a
\* rollback in progress has deleted first: LastEntry and the streams of PullKeylogRPC
\* never miss one (AppendEntry, RollbackEntry).  A caller that rolls back must be the
\* only one to append: it may delete an entry that another one has just stored.
IndexedIsStored ==
    (\A t \in RollsBack : \A u \in Thread \ {t} : ops[u] \cap {"append", "rollback"} = {})
        => \A e \in Elems(Log) : e \in entries \/ RollingBack(e)

\* While nobody removes or marks the key, its log only grows, by one entry that
\* follows the last, though callers check, store and index in separate steps and
\* propose rivals at the same time (AppendEntry, SafeKeylogIndex.Append).
OneEntryAtATime ==
    [][RollsBack \cup Marks = {} =>
         \/ Log' = Log
         \/ \E e \in Entry : Log' = Append(Log, e) /\ Previous[e] = LastOf(Log)]_vars

\* A marker is only kept while the index lacks the marked entry (SetMarker, Append):
\* it degrades a key that has fallen behind, not one that has caught up.
MarkerIsMissing ==
    index # 0 => indexes[index].marker \notin Elems(Log)

\* While nobody rolls back, the entry that NewEntry hands out is higher than the one
\* it follows, though the last entry and the count are read apart and appends come in
\* between: a node that lacks the one below sees that it is behind (NewEntry, Propose).
HeightFollows ==
    RollsBack = {} => \A r \in issued : r.previous # Zero => r.height > Depth[r.previous]
=============================================================================

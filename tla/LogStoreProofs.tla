--------------------------- MODULE LogStoreProofs ----------------------------
(***************************************************************************)
(* Proofs about LogStore, for any entries, callers and operations they     *)
(* call, and any number of indexes created for the key.                    *)
(***************************************************************************)
EXTENDS LogStore, TLAPS

AppendSteps == {"set", "index"}
NewSteps == {"last", "count"}
RollbackSteps == {"check", "delete", "pop", "remove", "unlink", "purge"}
MarkSteps == {"marker", "create"}

\* Callers only take the steps of what they call, and append entries only.
StepInv ==
    \A t \in Thread :
       /\ thread[t].pc \in AppendSteps => "append" \in ops[t] /\ thread[t].entry \in Entry
       /\ thread[t].pc \in RollbackSteps => "rollback" \in ops[t]
       /\ thread[t].pc \in MarkSteps => "mark" \in ops[t]

\* An index holds a chain of hashes, each entry at its depth, so none twice, and a
\* marker that is not among them.
IndexInv ==
    \A i \in DOMAIN indexes :
       /\ \A k \in DOMAIN indexes[i].entries : Depth[indexes[i].entries[k]] = k
       /\ indexes[i].marker \notin Elems(indexes[i].entries)

\* Callers that roll back are the only ones to append.
Alone == \A t \in RollsBack : \A u \in Thread \ {t} : ops[u] \cap {"append", "rollback"} = {}

\* An indexed entry is stored unless its rollback is under way; who is about to index an
\* entry has stored it.
Readable == \A e \in Elems(Log) : e \in entries \/ RollingBack(e)
Kept == \A t \in Thread : thread[t].pc = "index" => thread[t].entry \in entries

\* Whoever rolls back works on the index of the key, or the key has an empty one or none
\* by now, and deletes the last entry.
Roller(t) ==
    /\ thread[t].pc \in AppendSteps \cup RollbackSteps => thread[t].idx = index \/ Log = <<>>
    /\ thread[t].pc \in {"delete", "pop"} =>
          LogOf(t) # <<>> /\ LastOf(LogOf(t)) = thread[t].entry
    /\ thread[t].pc = "purge" => Log = <<>>

StoredInv == Readable /\ Kept /\ \A t \in RollsBack : Roller(t)

\* The entry that NewEntry has read is still in its index, which is at least as long.
HeightInv ==
    /\ \A t \in Thread : thread[t].pc = "count" /\ thread[t].entry # Zero =>
          Len(LogOf(t)) >= Depth[thread[t].entry]
    /\ \A r \in issued : r.previous # Zero => r.height > Depth[r.previous]

IInv == TypeOK /\ StepInv /\ IndexInv /\ (Alone => StoredInv) /\ (RollsBack = {} => HeightInv)

-----------------------------------------------------------------------------
(* Logs, indexes and callers.                                              *)

IndexState == [entries : Seq(Entry), marker : EntryOrZero]
ThreadState == [pc : Step, entry : EntryOrZero, idx : Nat]

\* The last entry of a log is no entry exactly if the log is empty.
LEMMA LastFacts ==
    ASSUME NEW s \in Seq(Entry)
    PROVE  /\ LastOf(s) \in EntryOrZero /\ (LastOf(s) = Zero <=> s = <<>>)
           /\ s # <<>> => /\ Len(s) \in DOMAIN s /\ Len(s) \in Nat \ {0}
                          /\ LastOf(s) = s[Len(s)] /\ LastOf(s) \in Elems(s)
<1>1. CASE s = <<>>
  BY <1>1 DEF LastOf, EntryOrZero
<1>2. CASE s # <<>>
  <2>1. Len(s) \in DOMAIN s /\ Len(s) \in Nat \ {0} /\ s[Len(s)] \in Entry
    BY <1>2
  <2> QED BY <1>2, <2>1, EntriesAssumption DEF LastOf, EntryOrZero, Elems
<1> QED BY <1>1, <1>2

\* The log of the key and the one that a caller works on.
LEMMA LogTypes ==
    ASSUME TypeOK
    PROVE  /\ Log \in Seq(Entry) /\ Len(indexes) \in Nat /\ DOMAIN indexes = 1..Len(indexes)
           /\ \A i \in DOMAIN indexes : /\ indexes[i] \in IndexState
                                        /\ indexes[i].entries \in Seq(Entry)
                                        /\ indexes[i].marker \in EntryOrZero
           /\ index # 0 => index \in DOMAIN indexes
           /\ \A t \in Thread : thread[t].pc \notin {"idle", "remove", "create"} =>
                 thread[t].idx \in DOMAIN indexes /\ LogOf(t) \in Seq(Entry)
<1>1. indexes \in Seq(IndexState) /\ Len(indexes) \in Nat /\ DOMAIN indexes = 1..Len(indexes)
  BY DEF TypeOK, IndexState
<1>2. \A i \in DOMAIN indexes : indexes[i] \in IndexState
  BY <1>1
<1>3. \A i \in DOMAIN indexes : indexes[i].entries \in Seq(Entry) /\ indexes[i].marker \in EntryOrZero
  BY <1>2 DEF IndexState
<1>4. index # 0 => index \in DOMAIN indexes
  BY <1>1 DEF TypeOK
<1>5. \A t \in Thread : thread[t].pc \notin {"idle", "remove", "create"} =>
         thread[t].idx \in DOMAIN indexes
  BY <1>1 DEF TypeOK
<1>6. Log \in Seq(Entry)
  BY <1>3, <1>4 DEF Log
<1> QED BY <1>1, <1>2, <1>3, <1>4, <1>5, <1>6 DEF LogOf

\* An index is replaced, or one is added.
Replaced(i, x) ==
    /\ indexes' \in Seq(IndexState) /\ Len(indexes') = Len(indexes)
    /\ DOMAIN indexes' = DOMAIN indexes
    /\ indexes'[i] = x /\ \A j \in DOMAIN indexes : j # i => indexes'[j] = indexes[j]

LEMMA ReplaceIndex ==
    ASSUME TypeOK, NEW i \in DOMAIN indexes, NEW x \in IndexState,
           indexes' = [indexes EXCEPT ![i] = x]
    PROVE  Replaced(i, x)
<1>1. indexes \in Seq(IndexState)
  BY DEF TypeOK, IndexState
<1> QED BY <1>1 DEF Replaced

Added(x) ==
    /\ indexes' \in Seq(IndexState) /\ Len(indexes') = Len(indexes) + 1
    /\ DOMAIN indexes' = 1..(Len(indexes) + 1)
    /\ indexes'[Len(indexes) + 1] = x /\ \A j \in DOMAIN indexes : indexes'[j] = indexes[j]

LEMMA AddIndex ==
    ASSUME TypeOK, NEW m \in EntryOrZero, indexes' = Append(indexes, NewIndex(m))
    PROVE  Added(NewIndex(m)) /\ NewIndex(m) \in IndexState
<1>1. indexes \in Seq(IndexState)
  BY DEF TypeOK, IndexState
<1>2. NewIndex(m) \in IndexState
  BY DEF NewIndex, IndexState
<1> QED BY <1>1, <1>2 DEF Added

\* A caller goes to a step with an entry and an index; the others stay where they are.
Becomes(t, pc, e, i) ==
    /\ thread' \in [Thread -> ThreadState]
    /\ thread'[t].pc = pc /\ thread'[t].entry = e /\ thread'[t].idx = i
    /\ \A u \in Thread \ {t} : thread'[u] = thread[u]

LEMMA SetBecomes ==
    ASSUME TypeOK, NEW t \in Thread, NEW pc \in Step, NEW e \in EntryOrZero, NEW i \in Nat,
           thread' = [thread EXCEPT ![t] = [pc |-> pc, entry |-> e, idx |-> i]]
    PROVE  Becomes(t, pc, e, i)
<1>1. thread \in [Thread -> ThreadState]
  BY DEF TypeOK, ThreadState
<1>2. PICK st : st = [pc |-> pc, entry |-> e, idx |-> i]
  OBVIOUS
<1>3. st \in ThreadState /\ st.pc = pc /\ st.entry = e /\ st.idx = i
  BY <1>2 DEF ThreadState
<1> QED BY <1>1, <1>2, <1>3 DEF Becomes

LEMMA GotoBecomes ==
    ASSUME TypeOK, NEW t \in Thread, NEW pc \in Step, Goto(t, pc)
    PROVE  Becomes(t, pc, thread[t].entry, thread[t].idx)
<1>1. /\ thread[t].entry \in EntryOrZero /\ thread[t].idx \in Nat
      /\ thread[t] = [pc |-> thread[t].pc, entry |-> thread[t].entry, idx |-> thread[t].idx]
  BY DEF TypeOK
<1>2. [thread[t] EXCEPT !.pc = pc] = [pc |-> pc, entry |-> thread[t].entry, idx |-> thread[t].idx]
  BY <1>1
<1>3. thread' = [thread EXCEPT ![t] = [pc |-> pc, entry |-> thread[t].entry, idx |-> thread[t].idx]]
  BY <1>2 DEF Goto, TypeOK
<1> QED BY <1>1, <1>3, SetBecomes

LEMMA ReturnBecomes ==
    ASSUME TypeOK, NEW t \in Thread, Return(t)
    PROVE  Becomes(t, "idle", Zero, 0)
  BY SetBecomes DEF Return, Idle, Step, EntryOrZero

LEMMA ReadLastBecomes ==
    ASSUME TypeOK, NEW t \in Thread, ReadLast(t)
    PROVE  Becomes(t, "count", LastOf(LogOf(t)), thread[t].idx)
<1>0. LastOf(LogOf(t)) \in EntryOrZero
  BY LogTypes, LastFacts DEF ReadLast, At
<1>1. thread \in [Thread -> ThreadState] /\ thread[t] \in ThreadState
  BY DEF TypeOK, ThreadState
<1>2. PICK st : st = [thread[t] EXCEPT !.pc = "count", !.entry = LastOf(LogOf(t))]
  OBVIOUS
<1>3. /\ st \in ThreadState /\ st.pc = "count"
      /\ st.entry = LastOf(LogOf(t)) /\ st.idx = thread[t].idx
  BY <1>0, <1>1, <1>2 DEF ThreadState, Step
<1>4. thread' = [thread EXCEPT ![t] = st]
  BY <1>1, <1>2 DEF ReadLast
<1> QED BY <1>1, <1>3, <1>4 DEF Becomes

LEMMA RemoveBecomes ==
    ASSUME TypeOK, NEW t \in Thread, RemoveKey(t)
    PROVE  \/ Return(t)
           \/ index # 0 /\ Becomes(t, "unlink", thread[t].entry, index)
<1>1. CASE Return(t)
  BY <1>1
<1>2. CASE index # 0 /\ thread' = [thread EXCEPT ![t].pc = "unlink", ![t].idx = index]
  <2>1. thread \in [Thread -> ThreadState] /\ thread[t] \in ThreadState /\ index \in Nat
    BY DEF TypeOK, ThreadState
  <2>2. PICK st : st = [thread[t] EXCEPT !.pc = "unlink", !.idx = index]
    OBVIOUS
  <2>3. st \in ThreadState /\ st.pc = "unlink" /\ st.entry = thread[t].entry /\ st.idx = index
    BY <2>1, <2>2 DEF ThreadState, Step
  <2>4. thread' = [thread EXCEPT ![t] = st]
    BY <1>2, <2>1, <2>2
  <2> QED BY <1>2, <2>1, <2>3, <2>4 DEF Becomes
<1> QED BY <1>1, <1>2 DEF RemoveKey

-----------------------------------------------------------------------------
(* Types.                                                                  *)

LEMMA InitInv == Init => IInv
<1> SUFFICES ASSUME Init PROVE IInv
  OBVIOUS
<1>1. /\ DOMAIN indexes = {} /\ Log = <<>> /\ Elems(Log) = {}
      /\ \A t \in Thread : thread[t].pc = "idle"
  BY DEF Init, Log, Idle, Elems
<1>2. TypeOK
  <2>1. indexes \in Seq(IndexState) /\ Len(indexes) = 0
    BY DEF Init
  <2>2. thread \in [Thread -> [pc : Step, entry : EntryOrZero, idx : 0..Len(indexes)]]
    BY <2>1 DEF Init, Idle, Step, EntryOrZero
  <2>3. index \in 0..Len(indexes)
    BY <2>1 DEF Init
  <2> QED BY <1>1, <2>1, <2>2, <2>3 DEF Init, TypeOK, IndexState
<1>3. StepInv /\ IndexInv
  BY <1>1 DEF StepInv, IndexInv, AppendSteps, RollbackSteps, MarkSteps
<1>4. StoredInv /\ HeightInv
  BY <1>1 DEF Init, StoredInv, Readable, Kept, Roller, HeightInv, AppendSteps, RollbackSteps, RollsBack
<1> QED BY <1>2, <1>3, <1>4 DEF IInv

\* The stores keep their types, and no index is forgotten.
StoresOK ==
    /\ indexes' \in Seq(IndexState) /\ Len(indexes) <= Len(indexes')
    /\ index' \in 0..Len(indexes') /\ entries' \subseteq Entry
    /\ issued' \subseteq [previous : EntryOrZero, height : Nat] /\ ops' = ops

\* A caller may be at a step.
MayBeAt(t, pc, e) ==
    /\ pc \in AppendSteps => "append" \in ops[t] /\ e \in Entry
    /\ pc \in RollbackSteps => "rollback" \in ops[t]
    /\ pc \in MarkSteps => "mark" \in ops[t]

LEMMA StepTypes ==
    ASSUME TypeOK, StepInv, StoresOK,
           NEW t \in Thread, NEW pc \in Step, NEW e \in EntryOrZero, NEW i \in Nat,
           Becomes(t, pc, e, i), i <= Len(indexes'),
           pc \notin {"idle", "remove", "create"} => i # 0, MayBeAt(t, pc, e)
    PROVE  TypeOK' /\ StepInv'
<1>0. Len(indexes) \in Nat /\ Len(indexes') \in Nat
  BY LogTypes DEF StoresOK
<1>1. ASSUME NEW u \in Thread PROVE thread'[u].idx \in 0..Len(indexes') /\ thread'[u] \in ThreadState
  <2>1. u # t => thread[u].idx \in 0..Len(indexes)
    BY DEF TypeOK
  <2> QED BY <1>0, <2>1 DEF Becomes, StoresOK
<1>2. thread' \in [Thread -> [pc : Step, entry : EntryOrZero, idx : 0..Len(indexes')]]
  <2>1. \A u \in Thread : thread'[u] \in [pc : Step, entry : EntryOrZero, idx : 0..Len(indexes')]
    BY <1>1 DEF ThreadState
  <2>2. thread' = [u \in Thread |-> thread'[u]]
    BY DEF Becomes
  <2> QED BY <2>1, <2>2
<1>3. \A u \in Thread : thread'[u].pc \notin {"idle", "remove", "create"} => thread'[u].idx # 0
  BY DEF Becomes, TypeOK
<1>4. StepInv'
  <2>1. ASSUME NEW u \in Thread \ {t} PROVE MayBeAt(u, thread[u].pc, thread[u].entry)
    BY DEF StepInv, MayBeAt
  <2> QED BY <2>1 DEF Becomes, StoresOK, StepInv, MayBeAt
<1>5. ops' \in Programs
  BY DEF TypeOK, StoresOK
<1> QED BY <1>2, <1>3, <1>4, <1>5 DEF TypeOK, StoresOK, IndexState

\* What a step does to the indexes: nothing, or it appends an entry that follows the last
\* one, drops the last one, sets a marker the index lacks, or adds an empty index.
AppendsAt(i, e) ==
    /\ Previous[e] = LastOf(indexes[i].entries)
    /\ Replaced(i, Appended(indexes[i], e)) /\ index' = index
PopsAt(i) ==
    LET s == indexes[i].entries IN
    /\ s # <<>>
    /\ Replaced(i, [entries |-> SubSeq(s, 1, Len(s) - 1), marker |-> indexes[i].marker])
    /\ index' = index
MarksAt(i, e) ==
    /\ e \notin Elems(indexes[i].entries)
    /\ Replaced(i, [entries |-> indexes[i].entries, marker |-> e]) /\ index' = index
Adds(m) == Added(NewIndex(m)) /\ index' = Len(indexes) + 1

LEMMA AppendEffect ==
    ASSUME TypeOK, StepInv, NEW t \in Thread, IndexAppend(t)
    PROVE  (indexes' = indexes /\ index' = index) \/ AppendsAt(thread[t].idx, thread[t].entry)
<1> DEFINE e == thread[t].entry
           i == thread[t].idx
<1>1. e \in Entry /\ i \in DOMAIN indexes /\ indexes[i] \in IndexState
  BY LogTypes DEF IndexAppend, At, StepInv, AppendSteps
<1>2. Appended(indexes[i], e) \in IndexState
  BY <1>1 DEF Appended, IndexState, EntryOrZero
<1>3. CASE Previous[e] = LastOf(LogOf(t))
  <2>1. indexes' = [indexes EXCEPT ![i] = Appended(@, e)] /\ index' = index
    BY <1>3 DEF IndexAppend
  <2>2. indexes' = [indexes EXCEPT ![i] = Appended(indexes[i], e)]
    BY <2>1
  <2>3. Replaced(i, Appended(indexes[i], e))
    BY <1>1, <1>2, <2>2, ReplaceIndex
  <2> QED BY <1>3, <2>1, <2>3 DEF AppendsAt, LogOf
<1>4. CASE Previous[e] # LastOf(LogOf(t))
  BY <1>4 DEF IndexAppend
<1> QED BY <1>3, <1>4

LEMMA PopEffect ==
    ASSUME TypeOK, NEW t \in Thread, PopLast(t)
    PROVE  (LogOf(t) = <<>> /\ indexes' = indexes /\ index' = index) \/ PopsAt(thread[t].idx)
<1> DEFINE i == thread[t].idx
           s == LogOf(t)
           x == [entries |-> SubSeq(s, 1, Len(s) - 1), marker |-> indexes[i].marker]
<1>1. i \in DOMAIN indexes /\ indexes[i] \in IndexState /\ s \in Seq(Entry) /\ s = indexes[i].entries
  BY LogTypes DEF PopLast, At, LogOf
<1>2. CASE Len(s) = 0
  BY <1>1, <1>2 DEF PopLast
<1>3. CASE Len(s) # 0
  <2>1. x \in IndexState
    <3>1. SubSeq(s, 1, Len(s) - 1) \in Seq(Entry)
      BY <1>1, <1>3
    <3> QED BY <1>1, <3>1 DEF IndexState
  <2>2. [indexes[i] EXCEPT !.entries = SubSeq(s, 1, Len(s) - 1)] = x
    <3>1. \A r : [indexes[i] EXCEPT !.entries = r] = [entries |-> r, marker |-> indexes[i].marker]
      BY <1>1 DEF IndexState
    <3> QED BY <3>1
  <2>3. indexes' = [indexes EXCEPT ![i] = [indexes[i] EXCEPT !.entries = SubSeq(s, 1, Len(s) - 1)]]
        /\ index' = index
    BY <1>1, <1>3 DEF PopLast
  <2>4. indexes' = [indexes EXCEPT ![i] = x]
    BY <2>2, <2>3
  <2>5. Replaced(i, x)
    BY <1>1, <2>1, <2>4, ReplaceIndex
  <2>6. s # <<>>
    BY <1>3
  <2> QED BY <1>1, <2>3, <2>5, <2>6 DEF PopsAt
<1> QED BY <1>2, <1>3

LEMMA MarkEffect ==
    ASSUME TypeOK, NEW t \in Thread, SetMarker(t)
    PROVE  (indexes' = indexes /\ index' = index) \/ MarksAt(thread[t].idx, thread[t].entry)
<1> DEFINE e == thread[t].entry
           i == thread[t].idx
           x == [entries |-> indexes[i].entries, marker |-> e]
<1>1. i \in DOMAIN indexes /\ indexes[i] \in IndexState /\ e \in EntryOrZero
  BY LogTypes DEF SetMarker, At, TypeOK
<1>2. CASE e \in Elems(LogOf(t))
  BY <1>2 DEF SetMarker
<1>3. CASE e \notin Elems(LogOf(t))
  <2>1. x \in IndexState /\ [indexes[i] EXCEPT !.marker = e] = x
    BY <1>1 DEF IndexState
  <2>2. indexes' = [indexes EXCEPT ![i] = [indexes[i] EXCEPT !.marker = e]] /\ index' = index
    BY <1>3 DEF SetMarker
  <2>3. indexes' = [indexes EXCEPT ![i] = x]
    BY <2>1, <2>2
  <2>4. Replaced(i, x)
    BY <1>1, <2>1, <2>3, ReplaceIndex
  <2> QED BY <1>3, <2>2, <2>4 DEF MarksAt, LogOf
<1> QED BY <1>2, <1>3

Steps(t) == \/ EntrySet(t) \/ IndexAppend(t) \/ ReadLast(t) \/ ReadCount(t)
            \/ CheckLast(t) \/ DeleteEntry(t) \/ PopLast(t)
            \/ RemoveKey(t) \/ Unlink(t) \/ Purge(t)
            \/ SetMarker(t) \/ CreateMarked(t)

\* All that can happen to the indexes of the key.
LEMMA Effects ==
    ASSUME TypeOK, StepInv, [Next]_vars
    PROVE  \/ indexes' = indexes /\ (index' = index \/ index' = 0)
           \/ \E t \in Thread : IndexAppend(t) /\ AppendsAt(thread[t].idx, thread[t].entry)
           \/ \E t \in Thread : PopLast(t) /\ PopsAt(thread[t].idx)
           \/ \E t \in Thread : SetMarker(t) /\ MarksAt(thread[t].idx, thread[t].entry)
           \/ \E m \in EntryOrZero : Adds(m)
<1>1. CASE NewKey
  <2>1. Zero \in EntryOrZero
    BY DEF EntryOrZero
  <2> QED BY <1>1, <2>1, AddIndex DEF NewKey, Adds
<1>2. ASSUME NEW t \in Thread, CreateMarked(t) PROVE \E m \in EntryOrZero : Adds(m)
  <2>1. thread[t].entry \in EntryOrZero
    BY DEF TypeOK
  <2> QED BY <1>2, <2>1, AddIndex DEF CreateMarked, Adds
<1>3. ASSUME NEW t \in Thread, IndexAppend(t)
      PROVE  (indexes' = indexes /\ index' = index) \/ AppendsAt(thread[t].idx, thread[t].entry)
  BY <1>3, AppendEffect
<1>4. ASSUME NEW t \in Thread, PopLast(t)
      PROVE  (indexes' = indexes /\ index' = index) \/ PopsAt(thread[t].idx)
  BY <1>4, PopEffect
<1>5. ASSUME NEW t \in Thread, SetMarker(t)
      PROVE  (indexes' = indexes /\ index' = index) \/ MarksAt(thread[t].idx, thread[t].entry)
  BY <1>5, MarkEffect
<1>6. CASE UNCHANGED vars
  BY <1>6 DEF vars
<1>7. ASSUME NEW t \in Thread, NEW e, NEW op,
             \/ GetKey(t, op, e) \/ MarkKey(t, e) \/ EntrySet(t) \/ ReadLast(t) \/ ReadCount(t)
             \/ CheckLast(t) \/ DeleteEntry(t) \/ RemoveKey(t) \/ Unlink(t) \/ Purge(t)
      PROVE  indexes' = indexes /\ (index' = index \/ index' = 0)
  BY <1>7 DEF GetKey, MarkKey, EntrySet, ReadLast, ReadCount, CheckLast, DeleteEntry, RemoveKey,
     Unlink, Purge
<1> QED BY <1>1, <1>2, <1>3, <1>4, <1>5, <1>6, <1>7 DEF Next

LEMMA TypeStep ==
    ASSUME TypeOK, StepInv, [Next /\ UNCHANGED ops]_vars
    PROVE  TypeOK' /\ StepInv'
<1>0. /\ Len(indexes) \in Nat /\ index \in 0..Len(indexes) /\ entries \subseteq Entry
      /\ indexes \in Seq(IndexState) /\ issued \subseteq [previous : EntryOrZero, height : Nat]
      /\ Zero \in EntryOrZero /\ Entry \subseteq EntryOrZero
      /\ \A t \in Thread : thread[t].entry \in EntryOrZero /\ thread[t].idx \in 0..Len(indexes)
  BY LogTypes DEF TypeOK, IndexState, EntryOrZero
<1>a. ops' = ops
  BY DEF vars
\* The kinds of steps of a caller.
<1>b. ASSUME NEW t \in Thread, Return(t), StoresOK PROVE TypeOK' /\ StepInv'
  BY <1>0, <1>b, ReturnBecomes, StepTypes DEF MayBeAt, AppendSteps, RollbackSteps, MarkSteps, Step,
     StoresOK
<1>c. ASSUME NEW t \in Thread, NEW pc \in Step, Goto(t, pc), StoresOK,
             pc \in {"idle", "remove", "create"} \/ thread[t].pc \notin {"idle", "remove", "create"},
             MayBeAt(t, pc, thread[t].entry)
      PROVE  TypeOK' /\ StepInv'
  <2>1. Becomes(t, pc, thread[t].entry, thread[t].idx)
    BY <1>c, GotoBecomes
  <2>2. thread[t].idx <= Len(indexes') /\ thread[t].idx \in Nat
    BY <1>0, <1>c DEF StoresOK
  <2>3. pc \notin {"idle", "remove", "create"} => thread[t].idx # 0
    BY <1>c DEF TypeOK
  <2> QED BY <1>0, <1>c, <2>1, <2>2, <2>3, StepTypes
<1>d. ASSUME NEW i, NEW x, Replaced(i, x) \/ indexes' = indexes, UNCHANGED <<index, entries, issued>>
      PROVE  StoresOK
  <2>1. indexes' \in Seq(IndexState) /\ Len(indexes') = Len(indexes)
    BY <1>0, <1>d DEF Replaced
  <2> QED BY <1>0, <1>a, <1>d, <2>1 DEF StoresOK
<1>1. CASE NewKey
  <2>1. Added(NewIndex(Zero)) /\ index' = Len(indexes) + 1 /\ UNCHANGED <<entries, thread, issued>>
    BY <1>0, <1>1, AddIndex DEF NewKey
  <2>2. StoresOK
    BY <1>0, <1>a, <2>1 DEF StoresOK, Added
  <2>3. \A u \in Thread : thread[u].idx \in 0..Len(indexes')
    BY <1>0, <2>1 DEF Added
  <2>4. thread' \in [Thread -> [pc : Step, entry : EntryOrZero, idx : 0..Len(indexes')]]
    <3>1. thread \in [Thread -> ThreadState]
      BY DEF TypeOK, ThreadState
    <3>2. \A u \in Thread : thread[u] \in [pc : Step, entry : EntryOrZero, idx : 0..Len(indexes')]
      BY <2>3, <3>1 DEF ThreadState
    <3> QED BY <2>1, <3>1, <3>2
  <2> QED BY <1>a, <2>1, <2>2, <2>4 DEF TypeOK, StoresOK, IndexState, StepInv
<1>2. ASSUME NEW t \in Thread, NEW op, NEW e, GetKey(t, op, e),
             (op \in {"append", "rollback"} /\ e \in Entry) \/ (op = "new" /\ e = Zero)
      PROVE  TypeOK' /\ StepInv'
  <2> DEFINE first == [append |-> "set", new |-> "last", rollback |-> "check"]
  <2>0. UNCHANGED <<index, indexes, entries>> /\ op \in ops[t]
    BY <1>2 DEF GetKey
  <2>1. CASE index # 0 /\ thread' = [thread EXCEPT ![t] = [pc |-> first[op], entry |-> e, idx |-> index]]
             /\ UNCHANGED issued
    <3>1. PICK pc \in Step : /\ pc = first[op] /\ pc \in {"set", "last", "check"}
                             /\ op = "append" <=> pc = "set"
                             /\ op = "rollback" <=> pc = "check"
      BY <1>2 DEF Step
    <3>2. e \in EntryOrZero /\ index \in Nat
      BY <1>0, <1>2
    <3>3. Becomes(t, pc, e, index)
      BY <2>1, <3>1, <3>2, SetBecomes
    <3>4. MayBeAt(t, pc, e)
      BY <1>2, <2>0, <3>1 DEF MayBeAt, AppendSteps, RollbackSteps, MarkSteps
    <3>5. StoresOK /\ index <= Len(indexes')
      BY <1>0, <1>a, <2>0, <2>1 DEF StoresOK
    <3> QED BY <2>1, <3>2, <3>3, <3>4, <3>5, StepTypes
  <2>2. CASE issued' = issued \cup {[previous |-> Zero, height |-> 1]} /\ UNCHANGED thread
    BY <1>0, <1>a, <2>0, <2>2 DEF TypeOK, StepInv
  <2> QED BY <1>2, <2>1, <2>2 DEF GetKey
<1>3. ASSUME NEW t \in Thread, EntrySet(t) PROVE TypeOK' /\ StepInv'
  <2>1. "append" \in ops[t] /\ thread[t].entry \in Entry /\ thread[t].pc = "set"
    BY <1>3 DEF EntrySet, At, StepInv, AppendSteps
  <2>2. StoresOK
    BY <1>0, <1>a, <1>3, <2>1 DEF EntrySet, StoresOK
  <2> QED BY <1>c, <1>3, <2>1, <2>2 DEF EntrySet, MayBeAt, AppendSteps, RollbackSteps, MarkSteps, Step
<1>4. ASSUME NEW t \in Thread, IndexAppend(t) PROVE TypeOK' /\ StepInv'
  <2>1. StoresOK
    BY <1>d, <1>4, AppendEffect DEF IndexAppend, AppendsAt
  <2> QED BY <1>b, <1>4, <2>1 DEF IndexAppend
<1>5. ASSUME NEW t \in Thread, ReadLast(t) PROVE TypeOK' /\ StepInv'
  <2>1. Becomes(t, "count", LastOf(LogOf(t)), thread[t].idx)
    BY <1>5, ReadLastBecomes
  <2>a. thread[t].pc = "last" /\ indexes' = indexes
    BY <1>5 DEF ReadLast, At
  <2>b. LogOf(t) \in Seq(Entry) /\ thread[t].idx # 0
    BY <2>a, LogTypes DEF TypeOK
  <2>2. /\ LastOf(LogOf(t)) \in EntryOrZero /\ thread[t].idx # 0
        /\ thread[t].idx \in Nat /\ thread[t].idx <= Len(indexes')
    BY <1>0, <2>a, <2>b, LastFacts
  <2>3. StoresOK
    BY <1>0, <1>a, <1>5 DEF ReadLast, StoresOK
  <2> QED BY <2>1, <2>2, <2>3, StepTypes DEF MayBeAt, AppendSteps, RollbackSteps, MarkSteps, Step
<1>6. ASSUME NEW t \in Thread, ReadCount(t) PROVE TypeOK' /\ StepInv'
  <2>1. Len(LogOf(t)) \in Nat
    BY <1>6, LogTypes DEF ReadCount, At
  <2>2. StoresOK
    BY <1>0, <1>a, <1>6, <2>1 DEF ReadCount, StoresOK
  <2> QED BY <1>b, <1>6, <2>2 DEF ReadCount
<1>7. ASSUME NEW t \in Thread, CheckLast(t) \/ DeleteEntry(t) \/ PopLast(t) PROVE TypeOK' /\ StepInv'
  <2>1. "rollback" \in ops[t] /\ thread[t].pc \in {"check", "delete", "pop"}
    BY <1>7 DEF CheckLast, DeleteEntry, PopLast, At, StepInv, RollbackSteps
  <2>2. StoresOK
    <3>1. CASE CheckLast(t) \/ DeleteEntry(t)
      BY <1>0, <1>a, <3>1 DEF CheckLast, DeleteEntry, StoresOK
    <3>2. CASE PopLast(t)
      BY <1>d, <3>2, PopEffect DEF PopLast, PopsAt
    <3> QED BY <1>7, <3>1, <3>2
  <2>3. Return(t) \/ \E pc \in {"remove", "delete", "pop"} : Goto(t, pc)
    BY <1>7 DEF CheckLast, DeleteEntry, PopLast
  <2>4. \A pc \in {"remove", "delete", "pop"} : pc \in Step /\ MayBeAt(t, pc, thread[t].entry)
    BY <2>1 DEF MayBeAt, AppendSteps, RollbackSteps, MarkSteps, Step
  <2> QED BY <1>b, <1>c, <2>1, <2>2, <2>3, <2>4
<1>8. ASSUME NEW t \in Thread, RemoveKey(t) PROVE TypeOK' /\ StepInv'
  <2>1. "rollback" \in ops[t] /\ StoresOK
    BY <1>0, <1>a, <1>8 DEF RemoveKey, At, StepInv, RollbackSteps, StoresOK
  <2>2. CASE Return(t)
    BY <1>b, <2>1, <2>2
  <2>3. CASE index # 0 /\ Becomes(t, "unlink", thread[t].entry, index)
    <3>1. index \in Nat /\ index <= Len(indexes') /\ thread[t].entry \in EntryOrZero
      BY <1>0, <1>8 DEF RemoveKey
    <3>2. MayBeAt(t, "unlink", thread[t].entry)
      BY <2>1 DEF MayBeAt, AppendSteps, RollbackSteps, MarkSteps
    <3> QED BY <2>1, <2>3, <3>1, <3>2, StepTypes DEF Step
  <2> QED BY <1>8, <2>2, <2>3, RemoveBecomes
<1>9. ASSUME NEW t \in Thread, Unlink(t) \/ Purge(t) PROVE TypeOK' /\ StepInv'
  <2>1. "rollback" \in ops[t] /\ thread[t].pc \in {"unlink", "purge"} /\ StoresOK
    BY <1>0, <1>a, <1>9 DEF Unlink, Purge, At, StepInv, RollbackSteps, StoresOK
  <2>2. MayBeAt(t, "purge", thread[t].entry)
    BY <2>1 DEF MayBeAt, AppendSteps, RollbackSteps, MarkSteps
  <2> QED BY <1>b, <1>c, <1>9, <2>1, <2>2 DEF Unlink, Purge, Step
<1>10. ASSUME NEW t \in Thread, NEW e \in Entry, MarkKey(t, e) PROVE TypeOK' /\ StepInv'
  <2>1. PICK pc \in {"marker", "create"} : /\ pc = "create" <=> index = 0
          /\ thread' = [thread EXCEPT ![t] = [pc |-> pc, entry |-> e, idx |-> index]]
    BY <1>10 DEF MarkKey
  <2>2. Becomes(t, pc, e, index)
    <3>1. pc \in Step /\ e \in EntryOrZero /\ index \in Nat
      BY <1>0 DEF Step
    <3> QED BY <2>1, <3>1, SetBecomes
  <2>3. MayBeAt(t, pc, e) /\ pc \in Step /\ StoresOK
    BY <1>0, <1>a, <1>10 DEF MarkKey, MayBeAt, AppendSteps, RollbackSteps, MarkSteps, Step, StoresOK
  <2> QED BY <1>0, <1>10, <2>1, <2>2, <2>3, StepTypes DEF MarkKey
<1>11. ASSUME NEW t \in Thread, SetMarker(t) PROVE TypeOK' /\ StepInv'
  <2>1. StoresOK
    BY <1>d, <1>11, MarkEffect DEF SetMarker, MarksAt
  <2> QED BY <1>b, <1>11, <2>1 DEF SetMarker
<1>12. ASSUME NEW t \in Thread, CreateMarked(t) PROVE TypeOK' /\ StepInv'
  <2>1. Added(NewIndex(thread[t].entry)) /\ index' = Len(indexes) + 1 /\ UNCHANGED <<entries, issued>>
    BY <1>0, <1>12, AddIndex DEF CreateMarked
  <2>2. StoresOK
    BY <1>0, <1>a, <2>1 DEF StoresOK, Added
  <2> QED BY <1>b, <1>12, <2>2 DEF CreateMarked
<1>13. CASE UNCHANGED vars
  BY <1>13 DEF vars, TypeOK, StepInv
<1>14. ASSUME NEW t \in Thread, GetKey(t, "new", Zero) \/
             \E e \in Entry : \E op \in {"append", "rollback"} : GetKey(t, op, e)
       PROVE  TypeOK' /\ StepInv'
  <2>1. CASE GetKey(t, "new", Zero)
    BY <1>2, <2>1
  <2>2. ASSUME NEW e \in Entry, NEW op \in {"append", "rollback"}, GetKey(t, op, e)
        PROVE  TypeOK' /\ StepInv'
    <3>1. (op \in {"append", "rollback"} /\ e \in Entry) \/ (op = "new" /\ e = Zero)
      OBVIOUS
    <3> QED BY <1>2, <2>2, <3>1
  <2> QED BY <1>14, <2>1, <2>2
<1> QED BY <1>1, <1>3, <1>4, <1>5, <1>6, <1>7, <1>8, <1>9, <1>10, <1>11, <1>12, <1>13, <1>14 DEF Next

-----------------------------------------------------------------------------
(* The indexes.                                                            *)

\* Appending to a log adds its last element.
LEMMA AppendFacts ==
    ASSUME NEW s \in Seq(Entry), NEW e \in Entry
    PROVE  /\ Append(s, e) \in Seq(Entry) /\ Len(s) \in Nat
           /\ DOMAIN s = 1..Len(s) /\ DOMAIN Append(s, e) = 1..(Len(s) + 1)
           /\ \A k \in DOMAIN s : Append(s, e)[k] = s[k]
           /\ Append(s, e)[Len(s) + 1] = e
           /\ Elems(Append(s, e)) = Elems(s) \cup {e}
<1>1. /\ Append(s, e) \in Seq(Entry) /\ Len(s) \in Nat
      /\ DOMAIN s = 1..Len(s) /\ DOMAIN Append(s, e) = 1..(Len(s) + 1)
      /\ \A k \in DOMAIN s : Append(s, e)[k] = s[k]
      /\ Append(s, e)[Len(s) + 1] = e
  OBVIOUS
<1>2. \A k \in DOMAIN Append(s, e) : k \in DOMAIN s \/ k = Len(s) + 1
  BY <1>1
<1>3. \A k \in DOMAIN s : k \in DOMAIN Append(s, e)
  BY <1>1
<1>4. Len(s) + 1 \in DOMAIN Append(s, e)
  BY <1>1
<1>5. Elems(Append(s, e)) = Elems(s) \cup {e}
  BY <1>1, <1>2, <1>3, <1>4 DEF Elems
<1> QED BY <1>1, <1>5

\* Dropping the last element.
LEMMA PopFacts ==
    ASSUME NEW s \in Seq(Entry), s # <<>>, NEW p, p = SubSeq(s, 1, Len(s) - 1)
    PROVE  /\ p \in Seq(Entry) /\ Len(p) = Len(s) - 1 /\ Len(s) \in Nat \ {0}
           /\ DOMAIN s = 1..Len(s) /\ DOMAIN p = 1..(Len(s) - 1)
           /\ \A k \in DOMAIN p : k \in DOMAIN s /\ p[k] = s[k]
           /\ Elems(p) \subseteq Elems(s)
<1>a. PICK n \in Nat : Len(s) = n + 1
  <2>1. Len(s) \in Nat /\ Len(s) # 0
    OBVIOUS
  <2>2. Len(s) - 1 \in Nat /\ Len(s) = (Len(s) - 1) + 1
    BY <2>1
  <2> QED BY <2>2
<1>b. p = SubSeq(s, 1, n)
  BY <1>a
<1>c. /\ p \in Seq(Entry) /\ Len(p) = n /\ DOMAIN p = 1..n /\ DOMAIN s = 1..(n + 1)
      /\ \A k \in 1..n : p[k] = s[k]
  BY <1>a, <1>b
<1>1. /\ p \in Seq(Entry) /\ Len(p) = Len(s) - 1 /\ Len(s) \in Nat \ {0}
      /\ DOMAIN s = 1..Len(s) /\ DOMAIN p = 1..(Len(s) - 1)
      /\ \A k \in DOMAIN p : p[k] = s[k]
  BY <1>a, <1>c
<1>2. \A k \in DOMAIN p : k \in DOMAIN s
  BY <1>1
<1>3. Elems(p) \subseteq Elems(s)
  BY <1>1, <1>2 DEF Elems
<1> QED BY <1>1, <1>2, <1>3

\* The depth of the last entry is the length of the log, and a log has no entry twice.
LEMMA DepthFacts ==
    ASSUME NEW s \in Seq(Entry), \A k \in DOMAIN s : Depth[s[k]] = k
    PROVE  /\ s # <<>> => Depth[LastOf(s)] = Len(s)
           /\ \A j, k \in DOMAIN s : s[j] = s[k] => j = k
           /\ \A e \in Entry : Previous[e] = LastOf(s) => Depth[e] = Len(s) + 1
<1>1. s # <<>> => Depth[LastOf(s)] = Len(s)
  BY LastFacts
<1>2. \A j, k \in DOMAIN s : s[j] = s[k] => j = k
  OBVIOUS
<1>3. ASSUME NEW e \in Entry, Previous[e] = LastOf(s) PROVE Depth[e] = Len(s) + 1
  <2>1. CASE s = <<>>
    <3>1. Previous[e] = Zero /\ Len(s) = 0
      BY <1>3, <2>1, LastFacts
    <3> QED BY <3>1, EntriesAssumption
  <2>2. CASE s # <<>>
    BY <1>1, <1>3, <2>2, LastFacts, EntriesAssumption
  <2> QED BY <2>1, <2>2
<1> QED BY <1>1, <1>2, <1>3

ChainAt(x) ==
    /\ \A k \in DOMAIN x.entries : Depth[x.entries[k]] = k
    /\ x.marker \notin Elems(x.entries)

LEMMA ReplacedChain ==
    ASSUME IndexInv, NEW i, NEW x, Replaced(i, x), ChainAt(x)
    PROVE  IndexInv'
  BY DEF IndexInv, Replaced, ChainAt

LEMMA IndexStep ==
    ASSUME TypeOK, StepInv, IndexInv, [Next /\ UNCHANGED ops]_vars
    PROVE  IndexInv'
<1>0. \A i \in DOMAIN indexes : /\ indexes[i].entries \in Seq(Entry)
                                /\ indexes[i].marker \in EntryOrZero /\ ChainAt(indexes[i])
  BY LogTypes DEF IndexInv, ChainAt
<1>1. CASE indexes' = indexes
  BY <1>1 DEF IndexInv
<1>2. ASSUME NEW t \in Thread, IndexAppend(t), AppendsAt(thread[t].idx, thread[t].entry)
      PROVE  IndexInv'
  <2> DEFINE e == thread[t].entry
             i == thread[t].idx
             s == indexes[i].entries
             m == IF indexes[i].marker = e THEN Zero ELSE indexes[i].marker
  <2>1. e \in Entry /\ i \in DOMAIN indexes
    BY <1>2, LogTypes DEF IndexAppend, At, StepInv, AppendSteps
  <2>2. s \in Seq(Entry) /\ Depth[e] = Len(s) + 1
    BY <1>0, <1>2, <2>1, DepthFacts DEF AppendsAt, ChainAt
  <2>3. \A k \in DOMAIN Append(s, e) : Depth[Append(s, e)[k]] = k
    <3>1. \A k \in DOMAIN s : Depth[s[k]] = k
      BY <1>0, <2>1 DEF ChainAt
    <3>2. \A k \in DOMAIN Append(s, e) : k \in DOMAIN s \/ k = Len(s) + 1
      BY <2>1, <2>2, AppendFacts
    <3> QED BY <2>1, <2>2, <3>1, <3>2, AppendFacts
  <2>4. m \notin Elems(Append(s, e))
    <3>1. Zero \notin Elems(Append(s, e))
      <4>1. Append(s, e) \in Seq(Entry)
        BY <2>1, <2>2, AppendFacts
      <4> QED BY <4>1, EntriesAssumption DEF Elems
    <3>2. indexes[i].marker \notin Elems(s)
      BY <1>0, <2>1 DEF ChainAt
    <3>3. Elems(Append(s, e)) = Elems(s) \cup {e}
      BY <2>1, <2>2, AppendFacts
    <3> QED BY <3>1, <3>2, <3>3
  <2>5. Appended(indexes[i], e).entries = Append(s, e) /\ Appended(indexes[i], e).marker = m
    BY DEF Appended
  <2>6. ChainAt(Appended(indexes[i], e))
    BY <2>3, <2>4, <2>5 DEF ChainAt
  <2> QED BY <1>2, <2>6, ReplacedChain DEF AppendsAt
<1>3. ASSUME NEW t \in Thread, PopLast(t), PopsAt(thread[t].idx) PROVE IndexInv'
  <2> DEFINE i == thread[t].idx
             s == indexes[i].entries
  <2>1. i \in DOMAIN indexes
    BY <1>3, LogTypes DEF PopLast, At
  <2>2. PICK p : p = SubSeq(s, 1, Len(s) - 1)
    OBVIOUS
  <2>a. s \in Seq(Entry) /\ s # <<>>
    BY <1>0, <1>3, <2>1 DEF PopsAt
  <2> HIDE DEF s
  <2>3. /\ \A k \in DOMAIN p : k \in DOMAIN s /\ p[k] = s[k]
        /\ Elems(p) \subseteq Elems(s)
    BY <2>2, <2>a, PopFacts
  <2> USE DEF s
  <2>4. PICK x : x = [entries |-> p, marker |-> indexes[i].marker]
    OBVIOUS
  <2>5. ChainAt(x)
    BY <1>0, <2>1, <2>3, <2>4 DEF ChainAt
  <2> QED BY <1>3, <2>2, <2>4, <2>5, ReplacedChain DEF PopsAt
<1>4. ASSUME NEW t \in Thread, SetMarker(t), MarksAt(thread[t].idx, thread[t].entry) PROVE IndexInv'
  <2> DEFINE i == thread[t].idx
  <2>1. i \in DOMAIN indexes
    BY <1>4, LogTypes DEF SetMarker, At
  <2>2. PICK x : x = [entries |-> indexes[i].entries, marker |-> thread[t].entry]
    OBVIOUS
  <2>3. ChainAt(x)
    BY <1>0, <1>4, <2>1, <2>2 DEF ChainAt, MarksAt
  <2> QED BY <1>4, <2>2, <2>3, ReplacedChain DEF MarksAt
<1>5. ASSUME NEW m \in EntryOrZero, Adds(m) PROVE IndexInv'
  <2>1. ChainAt(NewIndex(m))
    BY DEF ChainAt, NewIndex, Elems
  <2>2. \A j \in DOMAIN indexes' : j \in DOMAIN indexes \/ j = Len(indexes) + 1
    BY <1>5, LogTypes DEF Adds, Added
  <2> QED BY <1>0, <1>5, <2>1, <2>2 DEF Adds, Added, IndexInv, ChainAt
<1> QED BY <1>1, <1>2, <1>3, <1>4, <1>5, Effects

-----------------------------------------------------------------------------
(* The log of the key.                                                     *)

\* A step of one caller leaves the others where they are.
Moves(t) == \/ \E e, op : GetKey(t, op, e) \/ MarkKey(t, e)
            \/ Steps(t)

LEMMA OthersStay ==
    ASSUME TypeOK, NEW t \in Thread, Moves(t), NEW u \in Thread \ {t}
    PROVE  thread'[u] = thread[u]
<1>1. thread \in [Thread -> ThreadState]
  BY DEF TypeOK, ThreadState
<1> QED
  BY <1>1 DEF Moves, Steps, GetKey, MarkKey, EntrySet, IndexAppend, ReadLast, ReadCount, CheckLast,
     DeleteEntry, PopLast, RemoveKey, Unlink, Purge, SetMarker, CreateMarked, Goto, Return

LEMMA WhoMoves ==
    ASSUME [Next /\ UNCHANGED ops]_vars
    PROVE  NewKey \/ UNCHANGED vars \/ \E t \in Thread : Moves(t)
<1>1. ASSUME Next, ~NewKey PROVE \E t \in Thread : Moves(t)
  BY <1>1 DEF Next, Moves, Steps
<1> QED BY <1>1

\* No index loses or gains an entry, and the key keeps its log or has an empty one.
Calm ==
    /\ \A i \in DOMAIN indexes : i \in DOMAIN indexes' /\ indexes'[i].entries = indexes[i].entries
    /\ \/ index' = index /\ Log' = Log
       \/ Log' = <<>> /\ (index = 0 \/ RollsBack # {} \/ Marks # {})

LEMMA ReplacedLog ==
    ASSUME TypeOK, NEW i \in DOMAIN indexes, NEW x, Replaced(i, x), index' = index
    PROVE  Log' = IF index = i THEN x.entries ELSE Log
<1>1. index = 0 => Log' = <<>> /\ Log = <<>> /\ i # index
  BY LogTypes DEF Log
<1>2. index # 0 => index \in DOMAIN indexes /\ Log' = indexes'[index].entries
  BY LogTypes DEF Log
<1> QED BY <1>1, <1>2 DEF Log, Replaced

LEMMA AddedLog ==
    ASSUME TypeOK, NEW m, Adds(m)
    PROVE  /\ Log' = <<>> /\ index' # 0
           /\ \A i \in DOMAIN indexes : i \in DOMAIN indexes' /\ indexes'[i] = indexes[i]
<1>1. Len(indexes) \in Nat /\ index' # 0 /\ indexes'[index'] = NewIndex(m)
  BY LogTypes DEF Adds, Added
<1> QED BY <1>1, LogTypes DEF Adds, Added, Log, NewIndex

LEMMA CalmStep ==
    ASSUME TypeOK, StepInv, [Next /\ UNCHANGED ops]_vars,
           \A t \in Thread : ~IndexAppend(t) /\ ~PopLast(t)
    PROVE  Calm
<1>1. CASE NewKey
  <2>1. Zero \in EntryOrZero
    BY DEF EntryOrZero
  <2>2. Adds(Zero) /\ index = 0
    BY <1>1, <2>1, AddIndex DEF NewKey, Adds
  <2> QED BY <2>2, AddedLog DEF Calm
<1>2. ASSUME NEW t \in Thread, CreateMarked(t) PROVE Calm
  <2>1. thread[t].entry \in EntryOrZero /\ t \in Marks
    BY <1>2 DEF TypeOK, CreateMarked, At, StepInv, MarkSteps, Marks
  <2>2. Adds(thread[t].entry)
    BY <1>2, <2>1, AddIndex DEF CreateMarked, Adds
  <2> QED BY <2>1, <2>2, AddedLog DEF Calm
<1>3. ASSUME NEW t \in Thread, SetMarker(t) PROVE Calm
  <2>1. thread[t].idx \in DOMAIN indexes
    BY <1>3, LogTypes DEF SetMarker, At
  <2>2. CASE MarksAt(thread[t].idx, thread[t].entry)
    <3>1. Log' = Log
      BY <2>1, <2>2, ReplacedLog DEF MarksAt, Log
    <3> QED BY <2>1, <2>2, <3>1 DEF MarksAt, Replaced, Calm
  <2>3. CASE indexes' = indexes /\ index' = index
    BY <2>3 DEF Calm, Log
  <2> QED BY <1>3, <2>2, <2>3, MarkEffect
<1>4. ASSUME NEW t \in Thread, Unlink(t) PROVE Calm
  <2>1. t \in RollsBack
    BY <1>4 DEF Unlink, At, StepInv, RollbackSteps, RollsBack
  <2> QED BY <1>4, <2>1 DEF Unlink, Calm, Log
<1>5. CASE indexes' = indexes /\ index' = index
  BY <1>5 DEF Calm, Log
<1>6. ASSUME NEW t \in Thread, NEW e, NEW op,
             \/ GetKey(t, op, e) \/ MarkKey(t, e) \/ EntrySet(t) \/ ReadLast(t) \/ ReadCount(t)
             \/ CheckLast(t) \/ DeleteEntry(t) \/ RemoveKey(t) \/ Purge(t)
      PROVE  indexes' = indexes /\ index' = index
  BY <1>6 DEF GetKey, MarkKey, EntrySet, ReadLast, ReadCount, CheckLast, DeleteEntry, RemoveKey, Purge
<1>7. UNCHANGED vars => indexes' = indexes /\ index' = index
  BY DEF vars
<1>8. ASSUME NEW t \in Thread, Moves(t) PROVE Calm
  BY <1>2, <1>3, <1>4, <1>5, <1>6, <1>8 DEF Moves, Steps
<1> QED BY <1>1, <1>5, <1>7, <1>8, WhoMoves

\* The log of the key under an append and under a rollback of a caller.
LEMMA AppendedLog ==
    ASSUME TypeOK, StepInv, NEW t \in Thread, IndexAppend(t)
    PROVE  \/ Calm
           \/ /\ thread[t].idx = index /\ index' = index /\ Previous[thread[t].entry] = LastOf(Log)
              /\ Log' = Append(Log, thread[t].entry)
           \/ thread[t].idx # index /\ index' = index /\ Log' = Log
<1>1. CASE indexes' = indexes /\ index' = index
  BY <1>1 DEF Calm, Log
<1>2. CASE AppendsAt(thread[t].idx, thread[t].entry)
  <2> DEFINE i == thread[t].idx
             e == thread[t].entry
  <2>1. i \in DOMAIN indexes /\ i # 0
    BY LogTypes DEF IndexAppend, At
  <2>2. Log' = IF index = i THEN Append(indexes[i].entries, e) ELSE Log
    <3>1. Appended(indexes[i], e).entries = Append(indexes[i].entries, e)
      BY DEF Appended
    <3> QED BY <1>2, <2>1, <3>1, ReplacedLog DEF AppendsAt
  <2> QED BY <1>2, <2>1, <2>2 DEF AppendsAt, Log
<1> QED BY <1>1, <1>2, AppendEffect

LEMMA PoppedLog ==
    ASSUME TypeOK, NEW t \in Thread, PopLast(t)
    PROVE  \/ index' = index /\ indexes' = indexes /\ LogOf(t) = <<>>
           \/ /\ thread[t].idx = index /\ index' = index /\ Log # <<>> /\ LogOf(t) = Log
              /\ Log' = SubSeq(Log, 1, Len(Log) - 1)
           \/ thread[t].idx # index /\ index' = index /\ Log' = Log
<1>1. CASE LogOf(t) = <<>> /\ indexes' = indexes /\ index' = index
  BY <1>1
<1>2. CASE PopsAt(thread[t].idx)
  <2> DEFINE i == thread[t].idx
             s == indexes[i].entries
  <2>1. i \in DOMAIN indexes /\ i # 0
    BY LogTypes DEF PopLast, At
  <2>2. Log' = IF index = i THEN SubSeq(s, 1, Len(s) - 1) ELSE Log
    BY <1>2, <2>1, ReplacedLog DEF PopsAt
  <2> QED BY <1>2, <2>1, <2>2 DEF PopsAt, Log, LogOf
<1> QED BY <1>1, <1>2, PopEffect

LEMMA OneEntryStep ==
    ASSUME TypeOK, StepInv, [Next /\ UNCHANGED ops]_vars, RollsBack \cup Marks = {}
    PROVE  \/ Log' = Log
           \/ \E e \in Entry : Log' = Append(Log, e) /\ Previous[e] = LastOf(Log)
<1>1. Calm => Log' = Log
  BY DEF Calm, Log
<1>2. ASSUME NEW t \in Thread, IndexAppend(t)
      PROVE  \/ Log' = Log
             \/ \E e \in Entry : Log' = Append(Log, e) /\ Previous[e] = LastOf(Log)
  <2>1. thread[t].entry \in Entry
    BY <1>2 DEF IndexAppend, At, StepInv, AppendSteps
  <2> QED BY <1>1, <1>2, <2>1, AppendedLog
<1>3. ASSUME NEW t \in Thread PROVE ~PopLast(t)
  BY DEF PopLast, At, StepInv, RollbackSteps, RollsBack
<1> QED BY <1>1, <1>2, <1>3, CalmStep

-----------------------------------------------------------------------------
(* Heights.  While nobody rolls back, every log only grows.                *)

LEMMA LogsGrow ==
    ASSUME TypeOK, StepInv, [Next /\ UNCHANGED ops]_vars, RollsBack = {},
           NEW t \in Thread, thread[t].idx \in DOMAIN indexes, thread'[t].idx = thread[t].idx
    PROVE  LogOf(t)' \in Seq(Entry) /\ Len(LogOf(t)') >= Len(LogOf(t)) /\ Len(LogOf(t)) \in Nat
<1>0. LogOf(t) \in Seq(Entry) /\ Len(LogOf(t)) \in Nat
  BY LogTypes DEF LogOf
<1>1. CASE Calm
  <2>1. LogOf(t)' = LogOf(t)
    BY <1>1 DEF Calm, LogOf
  <2> QED BY <1>0, <2>1
<1>2. ASSUME NEW u \in Thread, IndexAppend(u)
      PROVE  LogOf(t)' \in Seq(Entry) /\ Len(LogOf(t)') >= Len(LogOf(t))
  <2>1. CASE indexes' = indexes
    BY <1>0, <2>1 DEF LogOf
  <2>2. CASE AppendsAt(thread[u].idx, thread[u].entry)
    <3>1. thread[u].entry \in Entry
      BY <1>2 DEF IndexAppend, At, StepInv, AppendSteps
    <3>2. LogOf(t)' = LogOf(t) \/ LogOf(t)' = Append(LogOf(t), thread[u].entry)
      <4>1. Appended(indexes[thread[u].idx], thread[u].entry).entries =
               Append(indexes[thread[u].idx].entries, thread[u].entry)
        BY DEF Appended
      <4>2. CASE thread[t].idx = thread[u].idx
        BY <2>2, <4>1, <4>2 DEF AppendsAt, Replaced, LogOf
      <4>3. CASE thread[t].idx # thread[u].idx
        BY <2>2, <4>3 DEF AppendsAt, Replaced, LogOf
      <4> QED BY <4>2, <4>3
    <3> QED BY <1>0, <3>1, <3>2, AppendFacts
  <2> QED BY <1>2, <2>1, <2>2, AppendEffect
<1>3. ASSUME NEW u \in Thread PROVE ~PopLast(u)
  BY DEF PopLast, At, StepInv, RollbackSteps, RollsBack
<1> QED BY <1>0, <1>1, <1>2, <1>3, CalmStep

\* The entry a caller of NewEntry has read is in its index.
Counted(t) ==
    thread[t].pc = "count" /\ thread[t].entry # Zero => Len(LogOf(t)) >= Depth[thread[t].entry]
Higher == \A r \in issued : r.previous # Zero => r.height > Depth[r.previous]

LEMMA CountedStep ==
    ASSUME TypeOK, StepInv, IndexInv, [Next /\ UNCHANGED ops]_vars, RollsBack = {},
           NEW t \in Thread, Counted(t)
    PROVE  Counted(t)'
<1>1. CASE thread'[t] = thread[t]
  <2> SUFFICES ASSUME thread[t].pc = "count", thread[t].entry # Zero
               PROVE  Len(LogOf(t)') >= Depth[thread[t].entry]
    BY <1>1 DEF Counted
  <2>1. thread[t].idx \in DOMAIN indexes /\ thread[t].entry \in Entry
    BY LogTypes DEF TypeOK, EntryOrZero
  <2>2. Len(LogOf(t)') >= Len(LogOf(t)) /\ LogOf(t)' \in Seq(Entry) /\ Len(LogOf(t)) \in Nat
    BY <1>1, <2>1, LogsGrow
  <2>3. Len(LogOf(t)) >= Depth[thread[t].entry] /\ Depth[thread[t].entry] \in Nat
    BY <2>1, EntriesAssumption DEF Counted
  <2>4. Len(LogOf(t)') \in Nat
    BY <2>2
  <2> QED BY <2>2, <2>3, <2>4
<1>2. CASE ReadLast(t)
  <2>1. /\ thread'[t].entry = LastOf(LogOf(t)) /\ LogOf(t)' = LogOf(t)
    BY <1>2, ReadLastBecomes DEF Becomes, LogOf, ReadLast
  <2>2. thread[t].idx \in DOMAIN indexes /\ LogOf(t) \in Seq(Entry)
    BY <1>2, LogTypes DEF ReadLast, At
  <2>3. \A k \in DOMAIN LogOf(t) : Depth[LogOf(t)[k]] = k
    BY <2>2 DEF IndexInv, LogOf
  <2>4. LastOf(LogOf(t)) # Zero => Depth[LastOf(LogOf(t))] = Len(LogOf(t)) /\ Len(LogOf(t)) \in Nat
    BY <2>2, <2>3, LastFacts, DepthFacts
  <2> QED BY <2>1, <2>4 DEF Counted
<1>3. CASE thread'[t].pc # "count"
  BY <1>3 DEF Counted
<1>4. ASSUME Moves(t), ~ReadLast(t) PROVE thread'[t].pc # "count"
  <2>1. thread \in [Thread -> ThreadState]
    BY DEF TypeOK, ThreadState
  <2>2. CASE \E e, op : GetKey(t, op, e) \/ MarkKey(t, e)
    BY <2>1, <2>2 DEF GetKey, MarkKey, At
  <2>3. CASE Steps(t)
    <3>1. \/ Return(t) \/ RemoveKey(t)
          \/ \E pc \in {"index", "remove", "delete", "pop", "purge"} : Goto(t, pc)
      BY <1>4, <2>3 DEF Steps, EntrySet, IndexAppend, ReadCount, CheckLast,
         DeleteEntry, PopLast, Unlink, Purge, SetMarker, CreateMarked
    <3>2. Return(t) => thread'[t].pc = "idle"
      BY ReturnBecomes DEF Becomes
    <3>3. RemoveKey(t) => thread'[t].pc # "count"
      BY <3>2, RemoveBecomes DEF Becomes
    <3>4. ASSUME NEW pc \in {"index", "remove", "delete", "pop", "purge"}, Goto(t, pc)
          PROVE  thread'[t].pc # "count"
      BY <3>4, GotoBecomes DEF Becomes, Step
    <3> QED BY <3>1, <3>2, <3>3, <3>4
  <2> QED BY <1>4, <2>2, <2>3 DEF Moves
<1>5. NewKey \/ UNCHANGED vars => thread'[t] = thread[t]
  BY DEF NewKey, vars
<1> QED BY <1>1, <1>2, <1>3, <1>4, <1>5, WhoMoves, OthersStay

LEMMA HigherStep ==
    ASSUME TypeOK, [Next /\ UNCHANGED ops]_vars, Higher, \A t \in Thread : Counted(t)
    PROVE  Higher'
<1>1. CASE issued' = issued
  BY <1>1 DEF Higher
<1>2. ASSUME NEW t \in Thread, ReadCount(t) PROVE Higher'
  <2> DEFINE prev == thread[t].entry
             n == Len(LogOf(t))
  <2>1. prev \in EntryOrZero /\ n \in Nat
    BY <1>2, LogTypes DEF ReadCount, At, TypeOK
  <2>2. prev # Zero => n >= Depth[prev] /\ Depth[prev] \in Nat
    BY <1>2, <2>1, EntriesAssumption DEF Counted, ReadCount, At, EntryOrZero
  <2>3. prev # Zero => n + 1 > Depth[prev]
    BY <2>1, <2>2
  <2>4. issued' = issued \cup {[previous |-> prev, height |-> IF prev = Zero THEN 1 ELSE n + 1]}
    BY <1>2 DEF ReadCount
  <2> HIDE DEF prev, n
  <2> QED BY <2>3, <2>4 DEF Higher
<1>3. ASSUME NEW t \in Thread, \E e, op : GetKey(t, op, e) PROVE Higher'
  <2>1. issued' = issued \/ issued' = issued \cup {[previous |-> Zero, height |-> 1]}
    BY <1>3 DEF GetKey
  <2> QED BY <1>1, <2>1 DEF Higher
<1>4. ASSUME NEW t \in Thread, Moves(t) PROVE Higher'
  <2>1. CASE \E e, op : GetKey(t, op, e) \/ MarkKey(t, e)
    BY <1>1, <1>3, <2>1 DEF MarkKey
  <2>2. CASE Steps(t)
    BY <1>1, <1>2, <2>2 DEF Steps, EntrySet, IndexAppend, ReadLast, CheckLast,
       DeleteEntry, PopLast, RemoveKey, Unlink, Purge, SetMarker, CreateMarked
  <2> QED BY <1>4, <2>1, <2>2 DEF Moves
<1>5. NewKey \/ UNCHANGED vars => issued' = issued
  BY DEF NewKey, vars
<1> QED BY <1>1, <1>4, <1>5, WhoMoves

LEMMA HeightStep ==
    ASSUME TypeOK, StepInv, IndexInv, [Next /\ UNCHANGED ops]_vars, RollsBack = {}, HeightInv
    PROVE  HeightInv'
<1>1. HeightInv <=> (\A t \in Thread : Counted(t)) /\ Higher
  BY DEF HeightInv, Counted, Higher
<1>2. HeightInv' <=> (\A t \in Thread : Counted(t)') /\ Higher'
  BY DEF HeightInv, Counted, Higher
<1> QED BY <1>1, <1>2, CountedStep, HigherStep

-----------------------------------------------------------------------------
(* Stored entries, when whoever rolls back is the only one to append.      *)

LEMMA OthersDoNeither ==
    ASSUME TypeOK, StepInv, Alone, NEW t \in RollsBack, NEW u \in Thread \ {t}
    PROVE  thread[u].pc \notin AppendSteps /\ thread[u].pc \notin RollbackSteps
  BY DEF Alone, StepInv, RollsBack

LEMMA RollerStep ==
    ASSUME TypeOK, StepInv, Alone, [Next /\ UNCHANGED ops]_vars, NEW t \in RollsBack, Roller(t)
    PROVE  Roller(t)'
<1> USE DEF AppendSteps, RollbackSteps
<1>0. t \in Thread
  BY DEF RollsBack
<1>1. Return(t) => Roller(t)'
  BY <1>0, ReturnBecomes DEF Becomes, Roller
<1>2. CASE IndexAppend(t)
  BY <1>1, <1>2 DEF IndexAppend
<1>3. CASE PopLast(t)
  <2>1. thread[t].idx = index \/ Log = <<>>
    BY <1>3 DEF PopLast, At, Roller
  <2>2. index' = index /\ (Log' = Log \/ thread[t].idx = index)
    BY <1>0, <1>3, PoppedLog DEF Log
  <2>3. Goto(t, "remove") => Becomes(t, "remove", thread[t].entry, thread[t].idx)
    BY <1>0, GotoBecomes DEF Step
  <2>4. Goto(t, "remove") => Roller(t)'
    BY <2>1, <2>2, <2>3 DEF Becomes, Roller
  <2> QED BY <1>1, <1>3, <2>4 DEF PopLast
<1>4. ASSUME ~IndexAppend(t), ~PopLast(t) PROVE Calm
  <2>1. ASSUME NEW u \in Thread \ {t} PROVE ~IndexAppend(u) /\ ~PopLast(u)
    BY OthersDoNeither DEF IndexAppend, PopLast, At
  <2> QED BY <1>4, <2>1, CalmStep
<1>5. ASSUME Calm, thread'[t] = thread[t] PROVE Roller(t)'
  <2>1. thread[t].idx = index \/ Log = <<>> => thread'[t].idx = index' \/ Log' = <<>>
    BY <1>5 DEF Calm
  <2>2. thread[t].pc \in {"delete", "pop"} => LogOf(t)' = LogOf(t)
    <3>1. thread[t].pc \in {"delete", "pop"} => thread[t].idx \in DOMAIN indexes
      BY <1>0, LogTypes
    <3> QED BY <1>5, <3>1 DEF Calm, LogOf
  <2>3. Log = <<>> => Log' = <<>>
    BY <1>5 DEF Calm
  <2> QED BY <1>5, <2>1, <2>2, <2>3 DEF Roller
\* The steps of the caller itself.
<1>6. ASSUME NEW pc \in RollbackSteps \cup {"index"}, Goto(t, pc), thread[t].pc \in AppendSteps \cup RollbackSteps,
             UNCHANGED <<index, indexes>>,
             pc \in {"delete", "pop"} => LogOf(t) # <<>> /\ LastOf(LogOf(t)) = thread[t].entry,
             pc = "purge" => Log = <<>>
      PROVE  Roller(t)'
  <2>1. Becomes(t, pc, thread[t].entry, thread[t].idx)
    BY <1>0, <1>6, GotoBecomes DEF Step
  <2>2. Log' = Log /\ LogOf(t)' = LogOf(t)
    BY <1>6, <2>1 DEF Log, LogOf, Becomes
  <2> QED BY <1>6, <2>1, <2>2 DEF Becomes, Roller
<1>7. ASSUME NEW e, NEW op, GetKey(t, op, e) \/ MarkKey(t, e) PROVE Roller(t)'
  <2>1. thread \in [Thread -> ThreadState] /\ UNCHANGED <<index, indexes>>
    BY <1>7 DEF TypeOK, ThreadState, GetKey, MarkKey
  <2>2. \/ thread' = thread
        \/ thread'[t].idx = index /\ thread'[t].pc \notin {"delete", "pop", "purge"}
    BY <1>0, <1>7, <2>1 DEF GetKey, MarkKey
  <2>3. Calm
    BY <2>1 DEF Calm, Log
  <2> QED BY <1>5, <2>1, <2>2, <2>3 DEF Roller
<1>8. CASE EntrySet(t)
  BY <1>6, <1>8 DEF EntrySet, At
<1>9. CASE ReadLast(t)
  BY <1>0, <1>9, ReadLastBecomes DEF Becomes, Roller
<1>10. CASE CheckLast(t)
  <2>1. LogOf(t) \in Seq(Entry)
    BY <1>0, <1>10, LogTypes DEF CheckLast, At
  <2>2. LastOf(LogOf(t)) # Zero => LogOf(t) # <<>>
    BY <2>1, LastFacts
  <2> QED BY <1>1, <1>6, <1>10, <2>2 DEF CheckLast, At
<1>11. CASE DeleteEntry(t)
  BY <1>1, <1>6, <1>11 DEF DeleteEntry, At, Roller
<1>12. CASE RemoveKey(t)
  <2>1. index # 0 /\ Becomes(t, "unlink", thread[t].entry, index) /\ index' = index => Roller(t)'
    BY DEF Becomes, Roller
  <2> QED BY <1>0, <1>1, <1>12, <2>1, RemoveBecomes DEF RemoveKey
<1>13. CASE Unlink(t)
  <2>1. Log' = <<>>
    BY <1>13 DEF Unlink, Log
  <2>2. Goto(t, "purge") => Roller(t)'
    BY <1>0, <2>1, GotoBecomes DEF Becomes, Roller, Step
  <2> QED BY <1>1, <1>13, <2>2 DEF Unlink
<1>14. CASE ReadCount(t) \/ Purge(t) \/ SetMarker(t) \/ CreateMarked(t)
  BY <1>1, <1>14 DEF ReadCount, Purge, SetMarker, CreateMarked
<1>15. CASE Moves(t)
  BY <1>2, <1>3, <1>7, <1>8, <1>9, <1>10, <1>11, <1>12, <1>13, <1>14, <1>15 DEF Moves, Steps
<1>16. ASSUME NEW u \in Thread \ {t}, Moves(u) PROVE Roller(t)'
  <2>1. thread'[t] = thread[t]
    BY <1>0, <1>16, OthersStay
  <2> QED BY <1>2, <1>3, <1>4, <1>5, <2>1
<1>17. CASE NewKey \/ UNCHANGED vars
  <2>1. thread'[t] = thread[t]
    BY <1>17 DEF NewKey, vars
  <2> QED BY <1>2, <1>3, <1>4, <1>5, <2>1
<1> QED BY <1>0, <1>15, <1>16, <1>17, WhoMoves

\* Only whoever rolls back deletes entries.
LEMMA EntriesKept ==
    ASSUME TypeOK, StepInv, [Next /\ UNCHANGED ops]_vars,
           \A t \in Thread : ~DeleteEntry(t) /\ ~Purge(t)
    PROVE  entries \subseteq entries'
  BY DEF Next, vars, NewKey, GetKey, MarkKey, EntrySet, IndexAppend, ReadLast, ReadCount,
     CheckLast, PopLast, RemoveKey, Unlink, SetMarker, CreateMarked

LEMMA KeptStep ==
    ASSUME TypeOK, StepInv, Alone, Kept, [Next /\ UNCHANGED ops]_vars
    PROVE  Kept'
<1> SUFFICES ASSUME NEW u \in Thread, thread'[u].pc = "index" PROVE thread'[u].entry \in entries'
  BY DEF Kept
<1>1. CASE thread'[u] = thread[u]
  <2>1. thread[u].entry \in entries /\ thread[u].pc = "index"
    BY <1>1 DEF Kept
  <2>2. ASSUME NEW t \in Thread PROVE ~DeleteEntry(t) /\ ~Purge(t)
    <3> SUFFICES ASSUME DeleteEntry(t) \/ Purge(t) PROVE FALSE
      OBVIOUS
    <3>1. thread[t].pc \in {"delete", "purge"}
      BY DEF DeleteEntry, Purge, At
    <3>2. t \in RollsBack /\ t # u
      BY <2>1, <3>1 DEF StepInv, RollbackSteps, RollsBack
    <3> QED BY <2>1, <3>2, OthersDoNeither DEF AppendSteps
  <2> QED BY <1>1, <2>1, <2>2, EntriesKept
<1>2. CASE EntrySet(u)
  <2>1. thread'[u].entry = thread[u].entry
    BY <1>2, GotoBecomes DEF EntrySet, Becomes, Step
  <2> QED BY <1>2, <2>1 DEF EntrySet
<1>3. ASSUME Moves(u), ~EntrySet(u) PROVE FALSE
  <2>1. thread \in [Thread -> ThreadState]
    BY DEF TypeOK, ThreadState
  <2>2. CASE \E e, op : GetKey(u, op, e) \/ MarkKey(u, e)
    BY <2>1, <2>2 DEF GetKey, MarkKey, At
  <2>3. CASE Steps(u)
    <3>1. \/ Return(u) \/ RemoveKey(u) \/ ReadLast(u)
          \/ \E pc \in {"remove", "delete", "pop", "purge"} : Goto(u, pc)
      BY <1>3, <2>3 DEF Steps, IndexAppend, ReadCount, CheckLast,
         DeleteEntry, PopLast, Unlink, Purge, SetMarker, CreateMarked
    <3>2. ~Return(u)
      BY ReturnBecomes DEF Becomes
    <3>3. ~RemoveKey(u) /\ ~ReadLast(u)
      BY <3>2, RemoveBecomes, ReadLastBecomes DEF Becomes
    <3>4. ASSUME NEW pc \in {"remove", "delete", "pop", "purge"} PROVE ~Goto(u, pc)
      BY GotoBecomes DEF Becomes, Step
    <3> QED BY <3>1, <3>2, <3>3, <3>4
  <2> QED BY <1>3, <2>2, <2>3 DEF Moves
<1>4. NewKey \/ UNCHANGED vars => thread'[u] = thread[u]
  BY DEF NewKey, vars
<1> QED BY <1>1, <1>2, <1>3, <1>4, WhoMoves, OthersStay

LEMMA ReadableStep ==
    ASSUME TypeOK, StepInv, IndexInv, Alone, StoredInv, [Next /\ UNCHANGED ops]_vars
    PROVE  Readable'
<1>1. Log' = <<>> => Readable'
  BY DEF Readable, Elems
<1>2. ASSUME Log' = Log, entries \subseteq entries',
             \A u \in Thread : thread[u].pc = "pop" => thread'[u] = thread[u]
      PROVE  Readable'
  BY <1>2 DEF StoredInv, Readable, RollingBack
<1>3. ASSUME NEW t \in Thread, thread[t].pc # "pop", Moves(t), Log' = Log, entries \subseteq entries'
      PROVE  Readable'
  BY <1>2, <1>3, OthersStay
<1>4. ASSUME NEW t \in Thread, IndexAppend(t) PROVE Readable'
  <2>1. Moves(t) /\ thread[t].pc = "index" /\ entries' = entries
    BY <1>4 DEF Moves, Steps, IndexAppend, At
  <2>2. CASE Log' = Log
    BY <1>3, <2>1, <2>2
  <2>3. CASE Log' = Append(Log, thread[t].entry)
    <3>1. thread[t].entry \in entries /\ thread[t].entry \in Entry /\ Log \in Seq(Entry)
      BY <2>1, LogTypes DEF StoredInv, Kept, StepInv, AppendSteps
    <3>2. Elems(Log') = Elems(Log) \cup {thread[t].entry}
      BY <2>3, <3>1, AppendFacts
    <3>3. \A u \in Thread : thread[u].pc = "pop" => thread'[u] = thread[u]
      BY <2>1, OthersStay
    <3> QED BY <2>1, <3>1, <3>2, <3>3 DEF StoredInv, Readable, RollingBack
  <2> QED BY <1>1, <1>4, <2>2, <2>3, AppendedLog DEF Calm
<1>5. ASSUME NEW t \in Thread, PopLast(t) PROVE Readable'
  <2>1. thread[t].pc = "pop" /\ t \in RollsBack /\ entries' = entries
    BY <1>5 DEF PopLast, At, StepInv, RollbackSteps, RollsBack
  <2>2. /\ LogOf(t) # <<>> /\ LastOf(LogOf(t)) = thread[t].entry
        /\ thread[t].idx = index \/ Log = <<>>
    BY <2>1 DEF StoredInv, Roller, RollbackSteps
  <2>3. CASE Log # <<>> /\ LogOf(t) = Log /\ Log' = SubSeq(Log, 1, Len(Log) - 1)
    <3>1. Log \in Seq(Entry) /\ \A k \in DOMAIN Log : Depth[Log[k]] = k
      BY <2>3, LogTypes DEF IndexInv, Log
    <3>2. /\ DOMAIN Log = 1..Len(Log) /\ DOMAIN Log' = 1..(Len(Log) - 1) /\ Len(Log) \in Nat \ {0}
          /\ \A k \in DOMAIN Log' : k \in DOMAIN Log /\ Log'[k] = Log[k]
          /\ LastOf(Log) = Log[Len(Log)]
      BY <2>3, <3>1, PopFacts, LastFacts
    <3>3. ASSUME NEW k \in DOMAIN Log' PROVE Log'[k] \in entries'
      <4>1. Log'[k] # thread[t].entry /\ Log'[k] \in Elems(Log)
        BY <2>2, <2>3, <3>1, <3>2 DEF Elems
      <4>2. ~RollingBack(Log'[k])
        BY <2>1, <4>1, OthersDoNeither DEF RollingBack, RollbackSteps
      <4> QED BY <2>1, <4>1, <4>2 DEF StoredInv, Readable
    <3> QED BY <3>3 DEF Readable, Elems
  <2> QED BY <1>1, <1>5, <2>2, <2>3, PoppedLog
<1>6. ASSUME NEW t \in Thread, DeleteEntry(t) PROVE Readable'
  <2>0. PICK e : e = thread[t].entry
    OBVIOUS
  <2>1. /\ thread[t].pc = "delete" /\ t \in RollsBack /\ entries' = entries \ {e}
        /\ Log' = Log
    BY <1>6, <2>0 DEF DeleteEntry, At, StepInv, RollbackSteps, RollsBack, Log
  <2>2. \A x : ~RollingBack(x)
    BY <2>1, OthersDoNeither DEF RollingBack, RollbackSteps
  <2>3. Elems(Log) \subseteq entries
    BY <2>2 DEF StoredInv, Readable
  <2>4. e \in entries => RollingBack(e)'
    <3>1. e \in entries => Becomes(t, "pop", e, thread[t].idx)
      BY <1>6, <2>0, GotoBecomes DEF DeleteEntry, Step
    <3>2. t \in Thread
      OBVIOUS
    <3> QED BY <3>1, <3>2 DEF Becomes, RollingBack
  <2> QED BY <2>1, <2>3, <2>4 DEF Readable
<1>7. ASSUME NEW t \in Thread, Purge(t) PROVE Readable'
  <2>1. thread[t].pc = "purge" /\ t \in RollsBack /\ Log' = Log
    BY <1>7 DEF Purge, At, StepInv, RollbackSteps, RollsBack, Log
  <2> QED BY <1>1, <2>1 DEF StoredInv, Roller
<1>8. ASSUME \A t \in Thread : ~IndexAppend(t) /\ ~PopLast(t) /\ ~DeleteEntry(t) /\ ~Purge(t)
      PROVE  Readable'
  <2>1. Calm /\ entries \subseteq entries'
    BY <1>8, CalmStep, EntriesKept
  <2>2. CASE NewKey \/ UNCHANGED vars
    BY <1>1, <1>2, <2>1, <2>2 DEF Calm, NewKey, vars
  <2>3. ASSUME NEW t \in Thread, Moves(t) PROVE Readable'
    <3>1. thread[t].pc # "pop"
      BY <1>8, <2>3 DEF Moves, Steps, GetKey, MarkKey, EntrySet, ReadLast, ReadCount, CheckLast,
         RemoveKey, Unlink, SetMarker, CreateMarked, At
    <3> QED BY <1>1, <1>3, <2>1, <2>3, <3>1 DEF Calm
  <2> QED BY <2>2, <2>3, WhoMoves
<1> QED BY <1>4, <1>5, <1>6, <1>7, <1>8

LEMMA StoredStep ==
    ASSUME TypeOK, StepInv, IndexInv, Alone, StoredInv, [Next /\ UNCHANGED ops]_vars
    PROVE  StoredInv'
<1>1. RollsBack' = RollsBack
  BY DEF RollsBack, vars
<1>2. \A t \in RollsBack : Roller(t)'
  BY RollerStep DEF StoredInv
<1>3. Readable' /\ Kept'
  BY KeptStep, ReadableStep DEF StoredInv
<1> QED BY <1>1, <1>2, <1>3 DEF StoredInv

-----------------------------------------------------------------------------
(* The theorems.                                                           *)

LEMMA InvStep == IInv /\ [Next /\ UNCHANGED ops]_vars => IInv'
<1> SUFFICES ASSUME IInv, [Next /\ UNCHANGED ops]_vars PROVE IInv'
  OBVIOUS
<1>1. TypeOK' /\ StepInv' /\ IndexInv'
  BY TypeStep, IndexStep DEF IInv
<1>2. ops' = ops
  BY DEF vars
<1>3. Alone' => StoredInv'
  <2>1. Alone' = Alone
    BY <1>2 DEF Alone, RollsBack
  <2> QED BY <2>1, StoredStep DEF IInv
<1>4. (RollsBack = {})' => HeightInv'
  <2>1. RollsBack' = RollsBack
    BY <1>2 DEF RollsBack
  <2> QED BY <2>1, HeightStep DEF IInv
<1> QED BY <1>1, <1>3, <1>4 DEF IInv

LEMMA Invariant == Spec => []IInv
<1>1. IInv /\ UNCHANGED vars => IInv'
  BY InvStep
<1> QED BY InitInv, InvStep, PTL DEF Spec

\* The stores and the callers keep their types, whatever a caller finds gone by the time
\* it goes on with the index it fetched.
THEOREM TypeCorrect == Spec => []TypeOK
<1>1. IInv => TypeOK
  BY DEF IInv
<1> QED BY <1>1, Invariant, PTL

\* An entry of the key's index can be read from the entry store (AppendEntry stores it
\* first, RollbackEntry deletes it first), if whoever rolls back is the only one to append.
THEOREM IndexedCanBeRead == Spec => []IndexedIsStored
<1>1. IInv => IndexedIsStored
  BY DEF IInv, StoredInv, Readable, Alone, IndexedIsStored
<1> QED BY <1>1, Invariant, PTL

\* A marked entry is not one the index has (SetMarker, UnsafeKeylogIndex.Append).
THEOREM MarkedIsMissing == Spec => []MarkerIsMissing
<1>1. IInv => MarkerIsMissing
  <2> SUFFICES ASSUME IInv, index # 0 PROVE indexes[index].marker \notin Elems(Log)
    BY DEF MarkerIsMissing
  <2>1. index \in DOMAIN indexes /\ Log = indexes[index].entries
    BY LogTypes DEF IInv, Log
  <2> QED BY <2>1 DEF IInv, IndexInv
<1> QED BY <1>1, Invariant, PTL

\* NewEntry hands out an entry above the one it follows, whatever is appended between the
\* reads of the last entry and of the count, while nobody rolls back.
THEOREM NewIsHigher == Spec => []HeightFollows
<1>1. IInv => HeightFollows
  BY DEF IInv, HeightInv, HeightFollows
<1> QED BY <1>1, Invariant, PTL

\* The log of a key nobody removes or marks grows by one entry at a time, each one after
\* the last (SafeKeylogIndex.Append), whatever rivals are appended at the same time.
THEOREM GrowsInOrder == Spec => OneEntryAtATime
<1>1. ASSUME IInv, [Next /\ UNCHANGED ops]_vars, RollsBack \cup Marks = {}
      PROVE  \/ Log' = Log
             \/ \E e \in Entry : Log' = Append(Log, e) /\ Previous[e] = LastOf(Log)
  BY <1>1, OneEntryStep DEF IInv
<1>2. IInv /\ [Next /\ UNCHANGED ops]_vars =>
         [RollsBack \cup Marks = {} =>
            \/ Log' = Log
            \/ \E e \in Entry : Log' = Append(Log, e) /\ Previous[e] = LastOf(Log)]_vars
  BY <1>1
<1> QED BY <1>2, Invariant, PTL DEF Spec, OneEntryAtATime
=============================================================================

--------------------------------- MODULE Fsm ---------------------------------
(***************************************************************************)
(* How the entries of one key get from the log to the application's FSM    *)
(* (fsm.go): handlers append an entry and then queue it, one goroutine     *)
(* applies what is queued and records it in the stable store, and after a  *)
(* crash check replays what the stable store lacks.                        *)
(*                                                                         *)
(* Abstractions: an entry is its place in the log; the log, the stable     *)
(* store and what the application did survive a crash, the rest is lost.   *)
(***************************************************************************)
EXTENDS Integers, Sequences, FiniteSets

CONSTANTS
    Handler,    \* goroutines that append: voting handlers, healer, PushKeylogRPC
    QueueSize,  \* the capacity of applyCh
    SetFails,   \* whether the stable store may return an error
    MaxHeight,  \* bound on the entries of the key
    MaxCrashes  \* bound on crashes

ASSUME SizesAssumption ==
    /\ IsFiniteSet(Handler) /\ Handler # {}
    /\ QueueSize \in Nat \ {0} /\ MaxHeight \in Nat /\ MaxCrashes \in Nat
    /\ SetFails \in BOOLEAN

VARIABLES
    height,     \* the number of entries in the index of the key
    owing,      \* the entry a handler has appended but not queued yet, or 0
    applyCh,    \* fsm.applyCh
    current,    \* the entry that start has applied but not recorded yet, or 0
    stable,     \* the entry in the stable store, or 0
    applied,    \* history: the calls of FSM.Apply
    epoch,      \* history: the length of applied when the process started
    cursor,     \* the next entry that check replays
    phase,      \* what the process is doing
    crashes,    \* crashes so far
    lost        \* history: what a crash has lost behind a later entry

vars == <<height, owing, applyCh, current, stable, applied, epoch, cursor, phase,
          crashes, lost>>

Place == 1..MaxHeight
PlaceOrZero == 0..MaxHeight

TypeOK ==
    /\ height \in PlaceOrZero
    /\ owing \in [Handler -> PlaceOrZero]
    /\ applyCh \in Seq(Place) /\ Len(applyCh) <= QueueSize
    /\ current \in PlaceOrZero /\ stable \in PlaceOrZero
    /\ applied \in Seq(Place)
    /\ epoch \in 0..Len(applied)
    /\ cursor \in 1..(MaxHeight + 1)
    /\ phase \in {"check", "serve", "down"}
    /\ crashes \in 0..MaxCrashes
    /\ lost \subseteq Place

Init ==
    /\ height = 0 /\ owing = [h \in Handler |-> 0]
    /\ applyCh = <<>> /\ current = 0 /\ stable = 0
    /\ applied = <<>> /\ epoch = 0
    /\ cursor = 1 /\ phase = "check" /\ crashes = 0 /\ lost = {}

Elems(s) == {s[i] : i \in DOMAIN s}

\* Mutant of Queue: applyCh has no bound.
QueueUnbounded(e) == applyCh' = Append(applyCh, e)

\* fsm.apply blocks while the queue is full.
Queue(e) == Len(applyCh) < QueueSize /\ applyCh' = Append(applyCh, e)

-----------------------------------------------------------------------------
\* Mutant of AppendEntry: the transport is registered before check.
AppendEarly(h) ==
    /\ phase # "down" /\ owing[h] = 0 /\ height < MaxHeight
    /\ height' = height + 1
    /\ owing' = [owing EXCEPT ![h] = height + 1]
    /\ UNCHANGED <<applyCh, current, stable, applied, epoch, cursor, phase,
                   crashes, lost>>

\* store.AppendEntry succeeds in checkVotesAndCommit, append or PushKeylogRPC.
AppendEntry(h) ==
    /\ phase = "serve" /\ owing[h] = 0 /\ height < MaxHeight
    /\ height' = height + 1
    /\ owing' = [owing EXCEPT ![h] = height + 1]
    /\ UNCHANGED <<applyCh, current, stable, applied, epoch, cursor, phase,
                   crashes, lost>>

\* The handler then calls fsm.apply: no lock is held across the two.
Apply(h) ==
    /\ phase = "serve" /\ owing[h] # 0
    /\ Queue(owing[h])
    /\ owing' = [owing EXCEPT ![h] = 0]
    /\ UNCHANGED <<height, current, stable, applied, epoch, cursor, phase,
                   crashes, lost>>

\* start: the entry is handed to the application ...
Start ==
    /\ phase # "down" /\ current = 0 /\ applyCh # <<>>
    /\ current' = Head(applyCh) /\ applyCh' = Tail(applyCh)
    /\ applied' = Append(applied, Head(applyCh))
    /\ UNCHANGED <<height, owing, stable, epoch, cursor, phase, crashes, lost>>

\* ... and then recorded.  An error of the stable store only goes to the future.
SetStable ==
    /\ phase # "down" /\ current # 0
    /\ \/ stable' = current
       \/ SetFails /\ UNCHANGED stable
    /\ current' = 0
    /\ UNCHANGED <<height, owing, applyCh, applied, epoch, cursor, phase,
                   crashes, lost>>

\* Mutant of SeekPosition: the replay starts after the last entry of the log when
\* the stable store has something.
SeekPastEnd == IF stable = 0 THEN 1 ELSE height + 1

\* Where check starts: nowhere if the stable store has the last entry, at the
\* first entry if it has none, else at the very entry it has (Iter from seek).
SeekPosition == IF stable = 0 THEN 1
                ELSE IF stable = height THEN height + 1
                ELSE stable

\* check submits the entries one by one; start is already running.
Replay ==
    /\ phase = "check" /\ cursor <= height
    /\ Queue(cursor)
    /\ cursor' = cursor + 1
    /\ UNCHANGED <<height, owing, current, stable, applied, epoch, phase,
                   crashes, lost>>

\* NewHexalog returns after check, whatever is still in the queue.
Serve ==
    /\ phase = "check" /\ cursor > height
    /\ phase' = "serve"
    /\ UNCHANGED <<height, owing, applyCh, current, stable, applied, epoch, cursor,
                   crashes, lost>>

\* A handler has appended the entry, or has queued it too.
InMemory(e) == (\E h \in Handler : owing[h] = e) \/ e \in Elems(applyCh)

\* The process dies; the queue and what the goroutines were doing is lost.  The replay
\* will not find the entries that another handler's later entry has overtaken all the
\* way to the stable store.
Crash ==
    /\ phase # "down" /\ crashes < MaxCrashes
    /\ phase' = "down" /\ crashes' = crashes + 1
    /\ applyCh' = <<>> /\ current' = 0 /\ owing' = [h \in Handler |-> 0]
    /\ lost' = lost \cup {e \in 1..height : InMemory(e) /\ e \notin Elems(applied) /\ e < stable}
    /\ UNCHANGED <<height, stable, applied, epoch, cursor>>

\* Mutant of Restart: the stable store is not consulted.
RestartBlind ==
    /\ phase = "down"
    /\ phase' = "check" /\ cursor' = height + 1 /\ epoch' = Len(applied)
    /\ UNCHANGED <<height, owing, applyCh, current, stable, applied, crashes,
                   lost>>

\* newFsm starts the goroutine and check reads the last entry and the stable store.
Restart ==
    /\ phase = "down"
    /\ phase' = "check" /\ cursor' = SeekPosition /\ epoch' = Len(applied)
    /\ UNCHANGED <<height, owing, applyCh, current, stable, applied, crashes,
                   lost>>

Next == \/ \E h \in Handler : AppendEntry(h) \/ Apply(h)
        \/ Start \/ SetStable \/ Replay \/ Serve \/ Crash \/ Restart

Spec == Init /\ [][Next]_vars

\* Goroutines are scheduled and a dead process is started again; nobody has to
\* append, and Next bounds the crashes.
FairSpec ==
    /\ Spec
    /\ \A h \in Handler : WF_vars(Apply(h))
    /\ WF_vars(Start \/ SetStable) /\ WF_vars(Replay \/ Serve) /\ WF_vars(Restart)

-----------------------------------------------------------------------------
\* The entry is on its way to the FSM, or will be once the process is restarted.
Pending(e) == \/ InMemory(e)
              \/ phase = "check" /\ e >= cursor
              \/ phase = "down" /\ e >= SeekPosition

\* Wherever the process dies between the append, the queue, Apply and the stable store,
\* the FSM gets every entry of the log but those that later entries of other handlers had
\* overtaken, and a crash finds fewer of these than there are handlers: none with one
\* (checkVotesAndCommit, start, check).
FewLost ==
    /\ \A e \in 1..height : e \in Elems(applied) \/ Pending(e) \/ e \in lost
    /\ Cardinality(lost) <= crashes * (Cardinality(Handler) - 1)

\* How far the FSM is from the order of the log: when it is given an entry it lacks fewer
\* of the earlier ones than there are handlers, those that were lost at a crash apart,
\* for handlers append and queue without a lock.  With one handler the order is that of
\* the log (checkVotesAndCommit, append, PushKeylogRPC, check).
Missed(i) == {y \in 1..(applied[i] - 1) : y \notin lost /\ \A j \in 1..(i - 1) : applied[j] # y}
FewMissed == \A i \in DOMAIN applied : Cardinality(Missed(i)) < Cardinality(Handler)

\* One process never hands an entry to the FSM twice: what check replays and what
\* handlers queue afterwards do not overlap (check, NewHexalog).
OncePerProcess ==
    \A i, j \in (epoch + 1)..Len(applied) : applied[i] = applied[j] => i = j

\* Every appended entry reaches the FSM in the end, through full queues and restarts, or
\* is one of those that a crash has lost behind another handler's later entry (apply,
\* start, check).
AllApplied == \A e \in Place : (e <= height) ~> (e \in Elems(applied) \cup lost)
=============================================================================

-------------------------------- MODULE Seed ---------------------------------
(***************************************************************************)
(* Seeding a node from another one (Seed in hexalog.go, GetSeedKeys and    *)
(* SeedKeysRPC in net.go, IterKeySeed in logstore.go).                     *)
(*                                                                         *)
(* SeedKeysRPC streams the keys of the remote node and holds the read lock *)
(* of its index store all the while.  The node that is seeded passes them  *)
(* on to parallel workers, and each of these asks the remote node for the  *)
(* log of its key, for which the remote node reads its index store again.  *)
(* Proposals create keys on both nodes meanwhile; a NewKey that waits for  *)
(* the write lock keeps new readers out (sync.RWMutex).                    *)
(*                                                                         *)
(* Abstractions: a key is its place in the order of the store; the log of  *)
(* a key arrives in one step (Transfer has the stream), and so the locks   *)
(* of the single indexes are left out; no key is removed.                  *)
(***************************************************************************)
EXTENDS Integers, Sequences, FiniteSetsExt

CONSTANTS
    MaxKey,     \* bound on the keys
    Stores,     \* the keys of the remote node at the start: any of these sets
    Locals,     \* how far the node that is seeded has each key then: any of these
    Worker,     \* the workers, `parallel' of them
    Bufsize,    \* capacity of the channel `seeds'
    Window,     \* seeds in flight on the stream
    MaxCreates, \* bound on the keys created on either node meanwhile
    MaxBreaks   \* bound on the connections that break

Key == 1..MaxKey
\* The log of a key against that of the remote node.
Local == {"missing", "behind", "same"}

ASSUME SeedAssumption ==
    /\ MaxKey \in Nat /\ Stores \subseteq SUBSET Key /\ Locals \subseteq [Key -> Local]
    /\ IsFiniteSet(Worker) /\ Worker # {}
    /\ Bufsize \in Nat \ {0} /\ Window \in Nat \ {0}
    /\ MaxCreates \in Nat /\ MaxBreaks \in Nat

VARIABLES
    remote,     \* the keys of the remote node
    local,      \* each key on the node that is seeded
    creator,    \* a NewKey on the remote node: none, or waiting for the lock
    rpc,        \* SeedKeysRPC: its step and the keys it still has to send
    listed,     \* history: the keys it found
    stream,     \* the seeds in flight
    loop,       \* the receiving loop of Seed: its step and the seed it holds
    seeds,      \* the channel to the workers
    worker,     \* the step of each worker and the key it works on
    logged,     \* the keys whose worker has logged an error
    creates,    \* keys created so far
    breaks      \* connections broken so far

vars == <<remote, local, creator, rpc, listed, stream, loop, seeds, worker, logged,
          creates, breaks>>

KeyOrNone == Key \cup {0}

TypeOK ==
    /\ remote \subseteq Key
    /\ local \in [Key -> Local]
    /\ creator \in {"none", "waits"}
    /\ rpc \in [pc : {"off", "lock", "send", "done"}, rest : SUBSET Key]
    /\ listed \subseteq Key
    /\ stream \in Seq(Key) /\ Len(stream) <= Window
    /\ loop \in [pc : {"off", "recv", "put", "wait", "ok", "error"}, key : KeyOrNone]
    /\ seeds \in Seq(Key) /\ Len(seeds) <= Bufsize
    /\ worker \in [Worker -> [pc : {"idle", "check", "create", "ask", "pull", "end"},
                              key : KeyOrNone]]
    /\ logged \subseteq Key
    /\ creates \in Nat /\ breaks \in Nat

Init ==
    /\ remote \in Stores
    /\ \E l \in Locals : local = [k \in Key |-> IF k \in remote THEN l[k] ELSE "missing"]
    /\ creator = "none" /\ rpc = [pc |-> "off", rest |-> {}] /\ listed = {}
    /\ stream = <<>> /\ loop = [pc |-> "off", key |-> 0] /\ seeds = <<>>
    /\ worker = [w \in Worker |-> [pc |-> "idle", key |-> 0]]
    /\ logged = {} /\ creates = 0 /\ breaks = 0

-----------------------------------------------------------------------------
(* The index store of the remote node.                                     *)

CanRead == creator = "none"

\* Propose creates a key: NewKey waits for the write lock, then has it at once.
CreateCalled ==
    /\ creates < MaxCreates /\ creator = "none" /\ remote # Key
    /\ creates' = creates + 1 /\ creator' = "waits"
    /\ UNCHANGED <<remote, local, rpc, listed, stream, loop, seeds, worker, logged, breaks>>

Create ==
    /\ creator = "waits" /\ rpc.pc # "send"
    /\ creator' = "none"
    /\ remote' = remote \cup {Min(Key \ remote)}
    /\ UNCHANGED <<local, rpc, listed, stream, loop, seeds, worker, logged, creates, breaks>>

\* InMemIndexStore.Iter: takes the read lock and lists the keys.
IterStart ==
    /\ rpc.pc = "lock" /\ CanRead
    /\ rpc' = [pc |-> "send", rest |-> remote] /\ listed' = remote
    /\ UNCHANGED <<remote, local, creator, stream, loop, seeds, worker, logged, creates, breaks>>

\* The keys go out in order; after the last the lock is released.
SendSeed ==
    LET k == Min(rpc.rest) IN
    /\ rpc.pc = "send"
    /\ IF rpc.rest = {} THEN rpc' = [rpc EXCEPT !.pc = "done"] /\ UNCHANGED stream
       ELSE /\ Len(stream) < Window
            /\ stream' = Append(stream, k)
            /\ rpc' = [rpc EXCEPT !.rest = @ \ {k}]
    /\ UNCHANGED <<remote, local, creator, listed, loop, seeds, worker, logged, creates, breaks>>

-----------------------------------------------------------------------------
(* Seed.                                                                   *)

SeedCalled ==
    /\ loop.pc = "off"
    /\ loop' = [loop EXCEPT !.pc = "recv"] /\ rpc' = [rpc EXCEPT !.pc = "lock"]
    /\ UNCHANGED <<remote, local, creator, listed, stream, seeds, worker, logged, creates, breaks>>

RecvSeed ==
    /\ loop.pc = "recv" /\ stream # <<>>
    /\ loop' = [pc |-> "put", key |-> Head(stream)] /\ stream' = Tail(stream)
    /\ UNCHANGED <<remote, local, creator, rpc, listed, seeds, worker, logged, creates, breaks>>

\* Mutant of PutSeed: the channel is a list.
PutSeedAlways ==
    /\ loop.pc = "put"
    /\ seeds' = Append(seeds, loop.key) /\ loop' = [pc |-> "recv", key |-> 0]
    /\ UNCHANGED <<remote, local, creator, rpc, listed, stream, worker, logged, creates, breaks>>

PutSeed ==
    /\ loop.pc = "put" /\ Len(seeds) < Bufsize
    /\ seeds' = Append(seeds, loop.key) /\ loop' = [pc |-> "recv", key |-> 0]
    /\ UNCHANGED <<remote, local, creator, rpc, listed, stream, worker, logged, creates, breaks>>

\* The end of the stream closes the channel.
RecvEOF ==
    /\ loop.pc = "recv" /\ stream = <<>> /\ rpc.pc = "done"
    /\ loop' = [loop EXCEPT !.pc = "wait"]
    /\ UNCHANGED <<remote, local, creator, rpc, listed, stream, seeds, worker, logged,
                   creates, breaks>>

\* Mutant of SeedReturns: it does not wait for the workers.
SeedReturnsEarly ==
    /\ loop.pc = "wait"
    /\ loop' = [loop EXCEPT !.pc = "ok"]
    /\ UNCHANGED <<remote, local, creator, rpc, listed, stream, seeds, worker, logged,
                   creates, breaks>>

SeedReturns ==
    /\ loop.pc = "wait" /\ \A w \in Worker : worker[w].pc = "end"
    /\ loop' = [loop EXCEPT !.pc = "ok"]
    /\ UNCHANGED <<remote, local, creator, rpc, listed, stream, seeds, worker, logged,
                   creates, breaks>>

\* Mutant of StreamBreaks: SeedKeysRPC does not see the error.
StreamBreaksUnseen ==
    /\ breaks < MaxBreaks /\ loop.pc = "recv" /\ rpc.pc \in {"lock", "send"}
    /\ breaks' = breaks + 1
    /\ stream' = <<>> /\ loop' = [loop EXCEPT !.pc = "error"]
    /\ UNCHANGED <<remote, local, creator, rpc, listed, seeds, worker, logged, creates>>

\* The stream breaks: Seed closes the channel and returns without its workers.
StreamBreaks ==
    /\ breaks < MaxBreaks /\ loop.pc = "recv" /\ rpc.pc \in {"lock", "send"}
    /\ breaks' = breaks + 1
    /\ stream' = <<>> /\ rpc' = [rpc EXCEPT !.pc = "done"]
    /\ loop' = [loop EXCEPT !.pc = "error"]
    /\ UNCHANGED <<remote, local, creator, listed, seeds, worker, logged, creates>>

-----------------------------------------------------------------------------
(* The workers, which run checkLastEntryOrPull.                            *)

Goto(w, pc) == worker' = [worker EXCEPT ![w].pc = pc]
Next1(w) == worker' = [worker EXCEPT ![w] = [pc |-> "idle", key |-> 0]]

TakeSeed(w) ==
    /\ worker[w].pc = "idle" /\ seeds # <<>>
    /\ worker' = [worker EXCEPT ![w] = [pc |-> "check", key |-> Head(seeds)]]
    /\ seeds' = Tail(seeds)
    /\ UNCHANGED <<remote, local, creator, rpc, listed, stream, loop, logged, creates, breaks>>

\* Mutant of SeedsClosed: the channel is closed after the wait.
SeedsClosedLate == loop.pc \in {"ok", "error"}

SeedsClosed == loop.pc \in {"wait", "ok", "error"}

WorkerEnds(w) ==
    /\ worker[w].pc = "idle" /\ seeds = <<>> /\ SeedsClosed
    /\ Goto(w, "end")
    /\ UNCHANGED <<remote, local, creator, rpc, listed, stream, loop, seeds, logged,
                   creates, breaks>>

CheckLast(w) ==
    /\ worker[w].pc = "check"
    /\ CASE local[worker[w].key] = "missing" -> Goto(w, "create")
         [] local[worker[w].key] = "behind"  -> Goto(w, "ask")
         [] local[worker[w].key] = "same"    -> Next1(w)
    /\ UNCHANGED <<remote, local, creator, rpc, listed, stream, loop, seeds, logged,
                   creates, breaks>>

\* If a proposal has created the key since, NewKey returns an error, which is logged.
CreateLocal(w) ==
    LET k == worker[w].key IN
    /\ worker[w].pc = "create"
    /\ IF local[k] = "missing"
       THEN Goto(w, "ask") /\ local' = [local EXCEPT ![k] = "behind"] /\ UNCHANGED logged
       ELSE Next1(w) /\ logged' = logged \cup {k} /\ UNCHANGED local
    /\ UNCHANGED <<remote, creator, rpc, listed, stream, loop, seeds, creates, breaks>>

\* PullKeylogRPC gets the key from the remote index store.
AskRemote(w) ==
    /\ worker[w].pc = "ask" /\ CanRead
    /\ Goto(w, "pull")
    /\ UNCHANGED <<remote, local, creator, rpc, listed, stream, loop, seeds, logged,
                   creates, breaks>>

Pulled(w) ==
    /\ worker[w].pc = "pull"
    /\ local' = [local EXCEPT ![worker[w].key] = "same"] /\ Next1(w)
    /\ UNCHANGED <<remote, creator, rpc, listed, stream, loop, seeds, logged, creates, breaks>>

PullBreaks(w) ==
    /\ breaks < MaxBreaks /\ worker[w].pc = "pull"
    /\ breaks' = breaks + 1
    /\ logged' = logged \cup {worker[w].key} /\ Next1(w)
    /\ UNCHANGED <<remote, local, creator, rpc, listed, stream, loop, seeds, creates>>

\* A proposal creates the key on the node that is being seeded.
ProposedHere(k) ==
    /\ creates < MaxCreates /\ local[k] = "missing"
    /\ creates' = creates + 1
    /\ local' = [local EXCEPT ![k] = "behind"]
    /\ UNCHANGED <<remote, creator, rpc, listed, stream, loop, seeds, worker, logged, breaks>>

-----------------------------------------------------------------------------
Loop == RecvSeed \/ PutSeed \/ RecvEOF \/ SeedReturns
Work(w) == \/ TakeSeed(w) \/ WorkerEnds(w) \/ CheckLast(w) \/ CreateLocal(w)
           \/ AskRemote(w) \/ Pulled(w)
SeedRPC == IterStart \/ SendSeed

Next == \/ SeedCalled \/ CreateCalled \/ Create \/ SeedRPC \/ Loop \/ StreamBreaks
        \/ \E w \in Worker : Work(w) \/ PullBreaks(w)
        \/ \E k \in Key : ProposedHere(k)

\* Goroutines that can go on do; nobody has to create a key or break a connection.
Spec == /\ Init /\ [][Next]_vars
        /\ WF_vars(SeedRPC) /\ WF_vars(Create) /\ WF_vars(Loop)
        /\ \A w \in Worker : WF_vars(Work(w))

-----------------------------------------------------------------------------
\* Seed returns nil only when every key that the remote node listed is as long as there,
\* or the error of its worker was logged: no key is dropped on the way to the workers,
\* and none is still being pulled.
SeedComplete ==
    loop.pc = "ok" => \A k \in listed : local[k] = "same" \/ k \in logged

\* The remote node holds the read lock of its index store until the last key is on the
\* stream, and the workers need it too.  A NewKey that comes between the two waits for
\* both; it gets the lock if stream, loop, channel and workers have room for all keys.
Fits == Cardinality(listed) <= Window + 1 + Bufsize + Cardinality(Worker)

CreateReturns == (creator = "waits" /\ Fits) ~> creator = "none"

\* Seed itself comes back whenever every NewKey on the remote node does.
SeedEnds == <>[](creator = "none") => (loop.pc = "recv" ~> loop.pc \in {"ok", "error"})
=============================================================================

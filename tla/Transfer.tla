------------------------------ MODULE Transfer -------------------------------
(***************************************************************************)
(* The log of one key on its way between nodes, entry by entry (net.go):   *)
(* PullKeylog and PullKeylogRPC, started by the healer or by a seed (see   *)
(* checkLastEntryOrPull), and PushKeylog and PushKeylogRPC, while the      *)
(* nodes also append entries they have voted on.                           *)
(*                                                                         *)
(* A sender iterates over the key's index with its read lock held, and     *)
(* sends while it does; an append needs the write lock, and an append that *)
(* waits for it keeps new readers out (sync.RWMutex).  A stream holds up   *)
(* to Window entries that have been sent and not yet received.             *)
(*                                                                         *)
(* Abstractions: an entry is an identifier that stands for its own hash,   *)
(* and Zero also for nil; requests arrive and connections are made in no   *)
(* time; the FSM accepts what it is handed at once; no key is removed,     *)
(* rolled back or marked.                                                  *)
(***************************************************************************)
EXTENDS Entries, FiniteSets

CONSTANTS
    Node,
    Xfer,       \* the transfers that may happen, each of them once
    Voted,      \* [Node -> SUBSET Entry], the entries a node may append itself
    Window,     \* entries in flight on one stream
    MaxStarts,  \* bound on the transfers that start
    Fragile     \* the transfers whose connection may break, of Xfer

ASSUME TransferAssumption ==
    /\ Xfer \subseteq [kind : {"heal", "seed", "push"}, src : Node, dst : Node, no : Nat]
    /\ Xfer \cap Node = {}
    /\ Voted \in [Node -> SUBSET Entry]
    /\ Window \in Nat \ {0} /\ MaxStarts \in Nat /\ Fragile \subseteq Xfer

\* Everyone who appends: the receiver of a transfer, or a node after a vote.
Appender == Xfer \cup Node
At(a) == IF a \in Node THEN a ELSE a.dst

VARIABLES
    log,        \* the index of the key on each node
    entries,    \* the entry store of each node
    ballots,    \* the entries each node may still come to append after a vote
    keyed,      \* the nodes whose index store has the key
    handed,     \* the entries handed to the FSM of each node, in order
    app,        \* how far AppendEntry has got, for each appender
    rcv,        \* the receiving side of each transfer
    snd,        \* the sending side
    stream,     \* the entries in flight
    failed      \* the transfers whose caller has got an error, or will

vars == <<log, entries, ballots, keyed, handed, app, rcv, snd, stream, failed>>

EntryOrZero == Entry \cup {Zero}
RcvStep == {"off", "check", "create", "recv", "done"}
SndStep == {"off", "hello", "iter", "send", "done"}
AppState == [pc : {"idle", "index", "apply"}, entry : EntryOrZero]
\* `last' is what the receiver knows of the sender's last entry.
RcvState == [pc : RcvStep, last : EntryOrZero]
\* `seek' is the receiver's last entry, `pos' the next one to send and `upto' the last,
\* the end of the log when the iteration began.
SndState == [pc : SndStep, seek : EntryOrZero, pos : Nat, upto : Nat]

TypeOK ==
    /\ log \in [Node -> Seq(Entry)]
    /\ entries \in [Node -> SUBSET Entry]
    /\ ballots \in [Node -> SUBSET Entry]
    /\ keyed \subseteq Node
    /\ handed \in [Node -> Seq(Entry)]
    /\ app \in [Appender -> AppState]
    /\ \A a \in Appender : app[a].pc # "idle" => app[a].entry \in Entry
    /\ rcv \in [Xfer -> RcvState]
    /\ snd \in [Xfer -> SndState]
    /\ stream \in [Xfer -> Seq(Entry)]
    /\ failed \subseteq Xfer

Init ==
    /\ log = [n \in Node |-> <<>>] /\ entries = [n \in Node |-> {}]
    /\ ballots = Voted /\ keyed = {} /\ handed = [n \in Node |-> <<>>]
    /\ app = [a \in Appender |-> [pc |-> "idle", entry |-> Zero]]
    /\ rcv = [t \in Xfer |-> [pc |-> "off", last |-> Zero]]
    /\ snd = [t \in Xfer |-> [pc |-> "off", seek |-> Zero, pos |-> 0, upto |-> 0]]
    /\ stream = [t \in Xfer |-> <<>>]
    /\ failed = {}

Last(n) == LastOf(log[n])

\* Mutant of Readers: PushKeylogRPC holds the lock while it receives.
ReadersAndPushed(n) == {t \in Xfer : \/ t.src = n /\ snd[t].pc = "send"
                                     \/ t.kind = "push" /\ t.dst = n /\ rcv[t].pc = "recv"}

\* The lock of the key's index: who iterates on it, and who waits to write.
Readers(n) == {t \in Xfer : t.src = n /\ snd[t].pc = "send"}
Writers(n) == {a \in Appender : At(a) = n /\ app[a].pc = "index"}
MayRead(n) == Writers(n) = {}

-----------------------------------------------------------------------------
(* Keylog.AppendEntry and the hand-over that follows it.                   *)

\* Propose on n: the first entry of the key creates its index.
CreateKey(n) ==
    /\ n \notin keyed
    /\ keyed' = keyed \cup {n}
    /\ UNCHANGED <<log, entries, ballots, handed, app, rcv, snd, stream, failed>>

\* Keylog.AppendEntry: the entry store comes first, whatever the index will say ...
EntrySet(a, e) ==
    /\ app[a].pc = "idle"
    /\ entries' = [entries EXCEPT ![At(a)] = @ \cup {e}]
    /\ app' = [app EXCEPT ![a] = [pc |-> "index", entry |-> e]]

\* checkVotesAndCommit on n: the ballot of e succeeds.  It was opened when the log
\* ended where e goes on; the log may have grown since.
VotedFor(n, e) ==
    /\ n \in keyed /\ e \in ballots[n]
    /\ Previous[e] \in Elems(log[n]) \cup {Zero}
    /\ ballots' = [ballots EXCEPT ![n] = @ \ {e}]
    /\ EntrySet(n, e)
    /\ UNCHANGED <<log, keyed, handed, rcv, snd, stream, failed>>

\* Mutant of IndexAppend: the error is lost, the entry handed over in any case.
IndexAppendNoError(a) ==
    LET n == At(a)
        e == app[a].entry IN
    /\ app[a].pc = "index" /\ Readers(n) = {}
    /\ log' = IF Previous[e] = Last(n) THEN [log EXCEPT ![n] = Append(@, e)] ELSE log
    /\ app' = [app EXCEPT ![a].pc = "apply"]
    /\ UNCHANGED <<entries, ballots, keyed, handed, rcv, snd, stream, failed>>

\* Mutant of IndexAppend: the previous hash is not compared.
IndexAppendAny(a) ==
    /\ app[a].pc = "index" /\ Readers(At(a)) = {}
    /\ log' = [log EXCEPT ![At(a)] = Append(@, app[a].entry)]
    /\ app' = [app EXCEPT ![a].pc = "apply"]
    /\ UNCHANGED <<entries, ballots, keyed, handed, rcv, snd, stream, failed>>

\* ... then the index, once no iteration is left.
IndexAppend(a) ==
    LET n == At(a)
        e == app[a].entry IN
    /\ app[a].pc = "index" /\ Readers(n) = {}
    /\ IF Previous[e] = Last(n)
       THEN /\ log' = [log EXCEPT ![n] = Append(@, e)]
            /\ app' = [app EXCEPT ![a].pc = "apply"]
       ELSE app' = [app EXCEPT ![a].pc = "idle"] /\ UNCHANGED log
    /\ UNCHANGED <<entries, ballots, keyed, handed, rcv, snd, stream, failed>>

HandOver(a) ==
    /\ app[a].pc = "apply"
    /\ handed' = [handed EXCEPT ![At(a)] = Append(@, app[a].entry)]
    /\ app' = [app EXCEPT ![a].pc = "idle"]
    /\ UNCHANGED <<log, entries, ballots, keyed, rcv, snd, stream, failed>>

-----------------------------------------------------------------------------
(* The start of a pull.                                                    *)

store == <<log, entries, ballots, keyed, handed, app>>
Fail(t) == failed' = failed \cup {t}

\* The receiver learns the sender's last entry: from its LastRPC, or from the seed.
AskLast(t) ==
    /\ t.kind # "push" /\ rcv[t].pc = "off" /\ MayRead(t.src)
    /\ t.kind = "seed" => t.src \in keyed
    /\ rcv' = [rcv EXCEPT ![t] =
                 IF t.kind = "heal" /\ Last(t.src) = Zero
                 THEN [pc |-> "done", last |-> Zero]
                 ELSE [pc |-> "check", last |-> Last(t.src)]]
    /\ UNCHANGED <<store, snd, stream, failed>>

\* A hash of zeros, the last of a key without entries, is not the nil of a seed.
UpToDate(t) == rcv[t].last = Last(t.dst) /\ rcv[t].last # Zero

\* checkLastEntryOrPull: asks for the log from its own last entry on, or for all.
RequestOrDone(t) ==
    IF UpToDate(t)
    THEN /\ rcv' = [rcv EXCEPT ![t].pc = "done"]
         /\ snd' = [snd EXCEPT ![t].upto = Depth[rcv[t].last]]
    ELSE /\ rcv' = [rcv EXCEPT ![t].pc = "recv"]
         /\ snd' = [snd EXCEPT ![t] = [@ EXCEPT !.pc = "hello", !.seek = Last(t.dst)]]

CheckLast(t) ==
    /\ t.kind # "push" /\ rcv[t].pc = "check"
    /\ IF t.dst \in keyed THEN MayRead(t.dst) /\ RequestOrDone(t)
       ELSE rcv' = [rcv EXCEPT ![t].pc = "create"] /\ UNCHANGED snd
    /\ UNCHANGED <<store, stream, failed>>

\* It creates the key, unless someone else has since; then the pull is over.
PullCreatesKey(t) ==
    /\ rcv[t].pc = "create"
    /\ IF t.dst \in keyed
       THEN Fail(t) /\ rcv' = [rcv EXCEPT ![t].pc = "done"] /\ UNCHANGED <<keyed, snd>>
       ELSE /\ keyed' = keyed \cup {t.dst}
            /\ RequestOrDone(t)
            /\ UNCHANGED failed
    /\ UNCHANGED <<log, entries, ballots, handed, app, stream>>

\* PullKeylogRPC gets the key.
PullRPC(t) ==
    /\ snd[t].pc = "hello"
    /\ IF t.src \in keyed
       THEN snd' = [snd EXCEPT ![t].pc = "iter"] /\ UNCHANGED failed
       ELSE snd' = [snd EXCEPT ![t].pc = "done"] /\ Fail(t)
    /\ UNCHANGED <<store, rcv, stream>>

-----------------------------------------------------------------------------
(* The start of a push.                                                    *)

\* PushKeylog: nothing to do for a key without entries.
PushStart(t) ==
    /\ t.kind = "push" /\ rcv[t].pc = "off"
    /\ IF t.src \notin keyed
       THEN rcv' = [rcv EXCEPT ![t].pc = "done"] /\ Fail(t)
       ELSE /\ MayRead(t.src) /\ UNCHANGED failed
            /\ rcv' = [rcv EXCEPT ![t].pc = IF Last(t.src) = Zero THEN "done" ELSE "check"]
    /\ UNCHANGED <<store, snd, stream>>

\* PushKeylogRPC: the key must exist; the sender is told its last entry.
PushRPC(t) ==
    /\ t.kind = "push" /\ rcv[t].pc = "check"
    /\ IF t.dst \notin keyed
       THEN rcv' = [rcv EXCEPT ![t].pc = "done"] /\ Fail(t) /\ UNCHANGED snd
       ELSE /\ MayRead(t.dst) /\ UNCHANGED failed
            /\ rcv' = [rcv EXCEPT ![t].pc = "recv"]
            /\ snd' = [snd EXCEPT ![t] = [@ EXCEPT !.pc = "iter", !.seek = Last(t.dst)]]
    /\ UNCHANGED <<store, stream>>

-----------------------------------------------------------------------------
(* The stream.                                                             *)

\* Mutant of IterStart: the seek position is used though it was not found.
IterStartUnchecked(t) ==
    LET s == snd[t].seek
        found == s = Zero \/ s \in Elems(log[t.src]) IN
    /\ snd[t].pc = "iter" /\ MayRead(t.src)
    /\ snd' = [snd EXCEPT ![t] =
                 [@ EXCEPT !.pc = "send",
                           !.pos = IF ~found THEN -1 ELSE IF s = Zero THEN 1 ELSE Depth[s],
                           !.upto = Len(log[t.src])]]
    /\ UNCHANGED <<store, rcv, stream, failed>>

\* SafeKeylogIndex.Iter takes the read lock and looks for the entry to start at.
IterStart(t) ==
    LET s == snd[t].seek
        found == s = Zero \/ s \in Elems(log[t.src]) IN
    /\ snd[t].pc = "iter" /\ MayRead(t.src)
    /\ snd' = [snd EXCEPT ![t] =
                 [@ EXCEPT !.pc = IF found THEN "send" ELSE "done",
                           !.pos = IF s = Zero THEN 1 ELSE Depth[s],
                           !.upto = Len(log[t.src])]]
    /\ IF found THEN UNCHANGED failed ELSE Fail(t)
    /\ UNCHANGED <<store, rcv, stream>>

\* Mutant of Send: the last entry is left out.
SendAllButLast(t) ==
    /\ snd[t].pc = "send"
    /\ IF snd[t].pos < snd[t].upto
       THEN /\ Len(stream[t]) < Window
            /\ stream' = [stream EXCEPT ![t] = Append(@, log[t.src][snd[t].pos])]
            /\ snd' = [snd EXCEPT ![t].pos = @ + 1]
       ELSE snd' = [snd EXCEPT ![t].pc = "done"] /\ UNCHANGED stream
    /\ UNCHANGED <<store, rcv, failed>>

\* An entry goes out when the window has room, to the end of the log, where the lock
\* is released.
Send(t) ==
    /\ snd[t].pc = "send"
    /\ IF snd[t].pos <= snd[t].upto
       THEN /\ Len(stream[t]) < Window
            /\ stream' = [stream EXCEPT ![t] = Append(@, log[t.src][snd[t].pos])]
            /\ snd' = [snd EXCEPT ![t].pos = @ + 1]
       ELSE snd' = [snd EXCEPT ![t].pc = "done"] /\ UNCHANGED stream
    /\ UNCHANGED <<store, rcv, failed>>

\* PushKeylogRPC goes on with the next entry if this one is not in the entry store.
Skips(t, e) == t.kind = "push" /\ e \notin entries[t.dst]

Receive(t) ==
    /\ rcv[t].pc = "recv" /\ app[t].pc = "idle" /\ stream[t] # <<>>
    /\ LET e == Head(stream[t]) IN
         IF Skips(t, e) THEN UNCHANGED <<entries, app>> ELSE EntrySet(t, e)
    /\ stream' = [stream EXCEPT ![t] = Tail(@)]
    /\ UNCHANGED <<log, ballots, keyed, handed, rcv, snd, failed>>

\* What AppendEntry said of an entry is forgotten when the next one is received.
ReceiveEnd(t) ==
    /\ rcv[t].pc = "recv" /\ app[t].pc = "idle"
    /\ stream[t] = <<>> /\ snd[t].pc = "done"
    /\ rcv' = [rcv EXCEPT ![t].pc = "done"]
    /\ UNCHANGED <<store, snd, stream, failed>>

\* The connection breaks: what was in flight is lost, both sides get an error.
Break(t) ==
    /\ t \in Fragile /\ rcv[t].pc = "recv"
    /\ stream' = [stream EXCEPT ![t] = <<>>]
    /\ rcv' = [rcv EXCEPT ![t].pc = "done"]
    /\ snd' = [snd EXCEPT ![t].pc = "done"]
    /\ Fail(t)
    /\ UNCHANGED store

-----------------------------------------------------------------------------
Appending(a) == IndexAppend(a) \/ HandOver(a)
Started == {t \in Xfer : rcv[t].pc # "off"}
Start(t) == Cardinality(Started) < MaxStarts /\ (AskLast(t) \/ PushStart(t))
Transferring(t) == \/ CheckLast(t) \/ PullCreatesKey(t) \/ PullRPC(t) \/ PushRPC(t)
                   \/ IterStart(t) \/ Send(t) \/ Receive(t) \/ ReceiveEnd(t)

Next ==
    \/ \E n \in Node : CreateKey(n) \/ \E e \in Entry : VotedFor(n, e)
    \/ \E a \in Appender : Appending(a)
    \/ \E t \in Xfer : Start(t) \/ Transferring(t) \/ Break(t)

Spec == Init /\ [][Next]_vars

-----------------------------------------------------------------------------
\* PullKeylog: a pull that ends without an error has brought the receiver all that
\* the sender had when it was asked, whatever else was appended on both sides
\* meanwhile, unless the two logs part.
Parted(m, n) == \E i \in DOMAIN log[m] \cap DOMAIN log[n] : log[m][i] # log[n][i]

Reached(t, k) == k <= Len(log[t.dst]) \/ Parted(t.src, t.dst)

PullCatchesUp ==
    \A t \in Xfer : (t.kind # "push" /\ rcv[t].pc = "done" /\ t \notin failed)
                     => Reached(t, snd[t].upto)

\* hlog.append, PushKeylogRPC and checkVotesAndCommit together hand each entry of the
\* log to the FSM once, however many streams bring it; until then someone owes it.
Owing(n) == {a \in Appender : At(a) = n /\ app[a].pc = "apply"}
Owed(n) == {app[a].entry : a \in Owing(n)}

HandedOnce ==
    \A n \in Node :
        /\ \A i, j \in DOMAIN handed[n] : handed[n][i] = handed[n][j] => i = j
        /\ Elems(handed[n]) \cap Owed(n) = {}
        /\ Elems(log[n]) = Elems(handed[n]) \cup Owed(n)

\* The guards of Appending and Transferring, spelled out for the proofs: an append only
\* ever waits for readers, and a transfer for a writer, for room on its stream, or for
\* what comes next on it.
CanAppend(a) == \/ app[a].pc = "apply"
                \/ app[a].pc = "index" /\ Readers(At(a)) = {}
CanTransfer(t) ==
    \/ rcv[t].pc = "check" /\ (t.dst \notin keyed \/ MayRead(t.dst))
    \/ rcv[t].pc = "create" \/ snd[t].pc = "hello"
    \/ snd[t].pc = "iter" /\ MayRead(t.src)
    \/ snd[t].pc = "send" /\ (snd[t].pos > snd[t].upto \/ Len(stream[t]) < Window)
    \/ /\ rcv[t].pc = "recv" /\ app[t].pc = "idle"
       /\ stream[t] # <<>> \/ snd[t].pc = "done"

Busy == \/ \E a \in Appender : app[a].pc # "idle"
        \/ \E t \in Started : rcv[t].pc # "done" \/ snd[t].pc \notin {"off", "done"}

\* The routes of the transfers form no cycle: of any nodes, one sends to none of them.
NoCycle ==
    \A S \in (SUBSET Node) \ {{}} : \E n \in S : \A t \in Xfer : t.src = n => t.dst \notin S

\* Iter holds the read lock of the index while it sends, and an append that waits keeps
\* new readers out.  As long as the routes form no cycle, whoever has something left to
\* do can go on or waits for somebody who can.
NobodyStuck ==
    NoCycle /\ Busy => (\E a \in Appender : CanAppend(a)) \/ (\E t \in Xfer : CanTransfer(t))

\* hexalog.go:44: PushKeylog "Sends a complete key log to the remote host based on what
\* the remote has".
PushDelivers ==
    \A t \in Xfer : (t.kind = "push" /\ rcv[t].pc = "done" /\ t \notin failed)
                     => Reached(t, snd[t].upto)

\* The streams, locks and requests implement the abstract copying of logs.
Copies == INSTANCE KeyCopies WITH
            Node <- Node, Voted <- Voted, log <- log,
            Entry <- Entry, Zero <- Zero, Previous <- Previous, Depth <- Depth
CopiesOnly == Copies!Spec

-----------------------------------------------------------------------------
(* The inductive invariant of the proofs.                                  *)

\* A log is a chain, and the depth of an entry its place in it ...
Chained ==
    \A n \in Node : \A i \in DOMAIN log[n] :
        /\ Depth[log[n][i]] = i
        /\ Previous[log[n][i]] = IF i = 1 THEN Zero ELSE log[n][i - 1]

\* ... so two logs with the same entry at a place are the same up to there.
Agree ==
    \A m, n \in Node : \A i \in DOMAIN log[m] \cap DOMAIN log[n] :
        log[m][i] = log[n][i] => \A j \in 1..i : log[m][j] = log[n][j]

\* Who appends what: a node an entry it has voted for, a transfer one of the sender's.
Sourced ==
    /\ \A n \in Node : /\ ballots[n] \subseteq Voted[n]
                       /\ app[n].pc = "index" => app[n].entry \in Voted[n]
    /\ \A t \in Xfer : app[t].pc = "index" => app[t].entry \in Elems(log[t.src])

\* No two appenders owe the FSM the same entry.
OwedOnce ==
    \A a, b \in Appender :
        (At(a) = At(b) /\ app[a].pc = "apply" /\ app[b].pc = "apply" /\ a # b)
          => app[a].entry # app[b].entry

\* How many entries of the sender's log the receiver is done with.
Done(t) == snd[t].pos - 1 - Len(stream[t]) - (IF app[t].pc = "index" THEN 1 ELSE 0)

\* What the two sides of a transfer are doing fits together.
Phased(t) ==
    /\ rcv[t].pc \in {"off", "check", "create"} => snd[t].pc = "off" /\ snd[t].upto = 0
    /\ snd[t].pc \in {"hello", "iter", "send"} => rcv[t].pc = "recv"
    /\ rcv[t].pc = "recv" => snd[t].pc # "off"
    /\ snd[t].pc \in {"off", "hello", "iter"} => stream[t] = <<>> /\ app[t].pc = "idle"
    /\ snd[t].pc \in {"hello", "iter"} =>
         snd[t].seek = Zero \/ snd[t].seek \in Elems(log[t.dst])
    /\ snd[t].pc = "send" => snd[t].pos > 0 /\ snd[t].upto <= Len(log[t.src])

\* The stream holds the entries of the sender's log that come before `pos'.
InFlight(t) ==
    \A i \in DOMAIN stream[t] : LET k == snd[t].pos - 1 - Len(stream[t]) + i IN
        k \in DOMAIN log[t.src] /\ stream[t][i] = log[t.src][k]

\* The one being appended came before them, and all before that one the receiver has.
CaughtUp(t) ==
    (rcv[t].pc = "recv" /\ t \notin failed) =>
      /\ snd[t].pc = "done" => snd[t].pos > snd[t].upto
      /\ (snd[t].pc \in {"send", "done"} /\ t.kind # "push") =>
           /\ Reached(t, Done(t))
           /\ app[t].pc = "index" => Done(t) + 1 \in DOMAIN log[t.src]
                                       /\ app[t].entry = log[t.src][Done(t) + 1]

Streamed == \A t \in Xfer : Phased(t) /\ InFlight(t) /\ CaughtUp(t)

TransferInv == Chained /\ Agree /\ Sourced /\ OwedOnce /\ Streamed
=============================================================================

------------------------------ MODULE Channels -------------------------------
(***************************************************************************)
(* The bounded channels between the handlers of a node and its background  *)
(* goroutines, and Shutdown (hexalog.go, hexalog_utils.go, broadcast.go,   *)
(* heal.go).                                                               *)
(*                                                                         *)
(* A handler sends to pch, cch or hch and blocks while the channel is      *)
(* full.  A broadcaster takes one entry at a time and waits for a handler  *)
(* on every other peer; the one of proposals then runs Commit itself.      *)
(* Shutdown closes the channels under all of them: a send on a closed      *)
(* channel panics, and a panic ends the process.                           *)
(*                                                                         *)
(* Abstractions: the entries belong to different keys and have nothing in  *)
(* common but the channels; requests are lost only with the process that   *)
(* serves them; a ballot that is full is closed, with what outcome does    *)
(* not matter here (Hexalog has the append and its errors); ballots are    *)
(* not reaped.                                                             *)
(***************************************************************************)
EXTENDS Integers, Sequences, FiniteSets

CONSTANTS
    Node,
    Entry,
    None,             \* no entry
    Loads,            \* what the nodes may be asked to do, see Load
    BroadcastBufSize, \* capacity of pch and cch
    HealBufSize       \* capacity of hch

Channel == {"pch", "cch", "hch"}    \* also the goroutine that reads it
Goroutine == Channel \cup {"reaper"}

\* The PeerSet of every entry, empty for one that nobody proposes, and the nodes whose log
\* of its key is behind; the nodes on which Shutdown may be called; bounds on the ballots
\* that time out, and on the clients that propose the same entry.
Load == [peers : [Entry -> SUBSET Node], behind : [Entry -> SUBSET Node],
         quits : SUBSET Node, timeouts : Nat, clients : Nat]

ASSUME ChannelsAssumption ==
    /\ IsFiniteSet(Node) /\ None \notin Entry /\ Loads \subseteq Load
    /\ \A l \in Loads, e \in Entry : l.peers[e] = {} \/ Cardinality(l.peers[e]) > 1
    /\ BroadcastBufSize \in Nat \ {0} /\ HealBufSize \in Nat \ {0}

VARIABLES
    load,       \* the load, chosen at the start
    tracked,    \* the entries with a ballot on each node
    closed,     \* those whose ballot is closed
    proposed,   \* the votes on the proposal of each entry, for each node
    committed,  \* the votes on its commit
    calls,      \* the running Propose and Commit calls
    queue,      \* what is in the channels of each node
    task,       \* what the goroutine that reads a channel is doing
    stage,      \* how far Shutdown is on each node
    exited,     \* the goroutines that have signalled their end
    down,       \* the nodes whose process has panicked
    asked,      \* how many clients have proposed each entry
    puts,       \* history: how often an entry has been sent on a channel
    timeouts    \* ballots timed out so far

vars == <<load, tracked, closed, proposed, committed, calls, queue, task, stage,
          exited, down, asked, puts, timeouts>>

Size(e) == Cardinality(load.peers[e])
Capacity(ch) == IF ch = "hch" THEN HealBufSize ELSE BroadcastBufSize

\* `by' waits for the answer: a client, or the k-th task of a broadcaster of src; the
\* local Commit is a call of "pch" on its own node.
Call == [op : {"propose", "commit"}, node : Node, entry : Entry, src : Node,
         by : Channel \cup {"client"}, k : Nat,
         pc : {"start", "ballot", "self", "put", "source", "putlast", "heal"}]
Task == [pc : {"idle", "wait", "commit", "failed", "heal"}, entry : Entry \cup {None},
         waiting : SUBSET Node, k : Nat]

TypeOK ==
    /\ load \in Loads
    /\ tracked \in [Node -> SUBSET Entry] /\ closed \in [Node -> SUBSET Entry]
    /\ proposed \in [Node -> [Entry -> SUBSET Node]]
    /\ committed \in [Node -> [Entry -> SUBSET Node]]
    /\ calls \subseteq Call
    /\ queue \in [Channel -> [Node -> Seq(Entry)]]
    /\ \A ch \in Channel, n \in Node : Len(queue[ch][n]) <= Capacity(ch)
    /\ task \in [Channel -> [Node -> Task]]
    /\ stage \in [Node -> 0..5] /\ exited \in [Node -> SUBSET Goroutine]
    /\ down \subseteq Node /\ asked \in [Entry -> Nat]
    /\ puts \in [Channel -> [Node -> [Entry -> Nat]]]
    /\ timeouts \in Nat

Init ==
    /\ load \in Loads
    /\ tracked = [n \in Node |-> {}] /\ closed = [n \in Node |-> {}]
    /\ proposed = [n \in Node |-> [e \in Entry |-> {}]]
    /\ committed = [n \in Node |-> [e \in Entry |-> {}]]
    /\ calls = {}
    /\ queue = [ch \in Channel |-> [n \in Node |-> <<>>]]
    /\ task = [ch \in Channel |-> [n \in Node |->
                 [pc |-> "idle", entry |-> None, waiting |-> {}, k |-> 0]]]
    /\ stage = [n \in Node |-> 0] /\ exited = [n \in Node |-> {}]
    /\ down = {} /\ asked = [e \in Entry |-> 0]
    /\ puts = [ch \in Channel |-> [n \in Node |-> [e \in Entry |-> 0]]]
    /\ timeouts = 0

-----------------------------------------------------------------------------
(* Building blocks.                                                        *)

ballots == <<tracked, closed, proposed, committed>>
ending == <<stage, exited, down>>
client == <<load, asked, timeouts>>

\* The channels that Shutdown has closed so far: pch at stage 2, then cch, then hch.
ClosedOn(n) == CASE stage[n] < 2 -> {}
                 [] stage[n] = 2 -> {"pch"}
                 [] stage[n] = 3 -> {"pch", "cch"}
                 [] OTHER        -> Channel

Goto(c, pc) == calls' = (calls \ {c}) \cup {[c EXCEPT !.pc = pc]}

\* The task that waits for the answer to call c, if any does still.
Awaited(c) == /\ c.by # "client"
              /\ task[c.by][c.src].k = c.k
              /\ c.node \in task[c.by][c.src].waiting

\* Mutant of Answered: the broadcaster only counts the peers that accept.
AnsweredCountsAccepts(t, c, ok) ==
    LET left == t.waiting \ {c.node} IN
    IF ~ok THEN t
    ELSE [t EXCEPT !.waiting = left,
                   !.pc = IF left # {} THEN @
                          ELSE IF c.op = "propose" THEN "commit" ELSE "idle"]

\* The first error ends the wait, though not the handlers still running.  When all have
\* answered, the broadcaster of proposals goes on to the local Commit.
Answered(t, c, ok) ==
    LET left == t.waiting \ {c.node} IN
    IF ~ok THEN [t EXCEPT !.waiting = {}, !.pc = "failed"]
    ELSE [t EXCEPT !.waiting = left,
                   !.pc = IF left # {} THEN @
                          ELSE IF c.op = "propose" THEN "commit" ELSE "idle"]

Return(c, ok) ==
    /\ calls' = calls \ {c}
    /\ task' = IF Awaited(c) THEN [task EXCEPT ![c.by][c.src] = Answered(@, c, ok)]
               ELSE task

\* checkVotesAndCommit: a ballot with as many commits as proposals is closed.
Complete(c, p, m) == IF Cardinality(p) = Cardinality(m)
                     THEN closed' = [closed EXCEPT ![c.node] = @ \cup {c.entry}]
                     ELSE UNCHANGED closed

-----------------------------------------------------------------------------
(* Propose.                                                                *)

\* A client calls Propose with a negative SourceIndex: the node is the source.
ClientPropose(n, e) ==
    /\ asked[e] < load.clients /\ n \in load.peers[e] \ down
    /\ asked' = [asked EXCEPT ![e] = @ + 1]
    /\ calls' = calls \cup {[op |-> "propose", node |-> n, entry |-> e, src |-> n,
                             by |-> "client", k |-> 0, pc |-> "start"]}
    /\ UNCHANGED <<ballots, queue, task, ending, load, puts, timeouts>>

Behind(c) == c.node \in load.behind[c.entry]

\* verifyEntry.
ProposeStart(c) ==
    /\ c.op = "propose" /\ c.pc = "start"
    /\ Goto(c, IF Behind(c) THEN "heal" ELSE "ballot")
    /\ UNCHANGED <<ballots, queue, task, ending, client, puts>>

\* The ballot is looked up, and created, under the lock of the node; a call that finds
\* it goes on to the vote of the source.
ProposeBallot(c) ==
    /\ c.op = "propose" /\ c.pc = "ballot"
    /\ Goto(c, IF c.entry \in tracked[c.node] \/ c.node = c.src THEN "source" ELSE "self")
    /\ tracked' = [tracked EXCEPT ![c.node] = @ \cup {c.entry}]
    /\ UNCHANGED <<closed, proposed, committed, queue, task, ending, client, puts>>

\* The vote of the node itself, by the call that opened the ballot; its error is not
\* looked at.
ProposeSelf(c) ==
    LET votes == proposed[c.node][c.entry] IN
    /\ c.op = "propose" /\ c.pc = "self"
    /\ IF c.entry \in closed[c.node] \/ c.node \in votes
       THEN Goto(c, "source") /\ UNCHANGED proposed
       ELSE /\ proposed' = [proposed EXCEPT ![c.node][c.entry] = @ \cup {c.node}]
            /\ Goto(c, "put")
    /\ UNCHANGED <<tracked, closed, committed, queue, task, ending, client, puts>>

\* The vote of the source: the first on the ballot is broadcast, the last completes it.
ProposeSource(c) ==
    LET old == proposed[c.node][c.entry]
        new == old \cup {c.src} IN
    /\ c.op = "propose" /\ c.pc = "source"
    /\ IF c.entry \in closed[c.node]
       THEN Return(c, FALSE) /\ UNCHANGED <<closed, proposed>>
       ELSE /\ proposed' = [proposed EXCEPT ![c.node][c.entry] = new]
            /\ IF old = {}
               THEN Goto(c, "putlast") /\ UNCHANGED <<closed, task>>
               ELSE /\ IF Cardinality(new) = Size(c.entry)
                       THEN Complete(c, new, committed[c.node][c.entry])
                       ELSE UNCHANGED closed
                    /\ Return(c, TRUE)
    /\ UNCHANGED <<tracked, committed, queue, ending, client, puts>>

-----------------------------------------------------------------------------
(* Commit: one more vote, of the node itself or of the source.             *)

\* Mutant of CommitVote: every new vote is broadcast.
CommitVoteEvery(c, voter, isLast) ==
    LET old == committed[c.node][c.entry]
        new == old \cup {voter} IN
    IF c.entry \notin tracked[c.node] \/ c.entry \in closed[c.node]
    THEN Return(c, FALSE) /\ UNCHANGED <<closed, committed>>
    ELSE /\ committed' = [committed EXCEPT ![c.node][c.entry] = new]
         /\ IF old # new
            THEN Goto(c, IF isLast THEN "putlast" ELSE "put") /\ UNCHANGED <<closed, task>>
            ELSE UNCHANGED closed /\ Return(c, TRUE)

CommitVote(c, voter, isLast) ==
    LET old == committed[c.node][c.entry]
        new == old \cup {voter} IN
    IF c.entry \notin tracked[c.node] \/ c.entry \in closed[c.node]
    THEN Return(c, FALSE) /\ UNCHANGED <<closed, committed>>
    ELSE /\ committed' = [committed EXCEPT ![c.node][c.entry] = new]
         /\ IF old = {}
            THEN Goto(c, IF isLast THEN "putlast" ELSE "put") /\ UNCHANGED <<closed, task>>
            ELSE /\ IF new # old /\ Cardinality(new) = Size(c.entry)
                    THEN Complete(c, proposed[c.node][c.entry], new)
                    ELSE UNCHANGED closed
                 /\ IF isLast THEN Return(c, TRUE) ELSE Goto(c, "source") /\ UNCHANGED task

\* The ballot is looked up first; then the node votes, unless it is the source.
CommitSelf(c) ==
    /\ c.op = "commit" /\ c.pc = "start"
    /\ CommitVote(c, c.node, c.node = c.src)
    /\ UNCHANGED <<tracked, proposed, queue, ending, client, puts>>

CommitSource(c) ==
    /\ c.op = "commit" /\ c.pc = "source"
    /\ CommitVote(c, c.src, TRUE)
    /\ UNCHANGED <<tracked, proposed, queue, ending, client, puts>>

-----------------------------------------------------------------------------
(* The channels.                                                           *)

Target(c) == IF c.pc = "heal" THEN "hch" ELSE IF c.op = "propose" THEN "pch" ELSE "cch"

\* Mutant of Put: the channel takes any number of entries.
PutUnbounded(c) ==
    LET ch == Target(c) IN
    /\ c.pc \in {"put", "putlast", "heal"} /\ ch \notin ClosedOn(c.node)
    /\ queue' = [queue EXCEPT ![ch][c.node] = Append(@, c.entry)]
    /\ puts' = [puts EXCEPT ![ch][c.node][c.entry] = @ + 1]
    /\ IF c.pc = "put" THEN Goto(c, "source") /\ UNCHANGED task
       ELSE Return(c, c.pc = "putlast")
    /\ UNCHANGED <<ballots, ending, client>>

\* A send goes through when the channel has room.
Put(c) ==
    LET ch == Target(c) IN
    /\ c.pc \in {"put", "putlast", "heal"} /\ ch \notin ClosedOn(c.node)
    /\ Len(queue[ch][c.node]) < Capacity(ch)
    /\ queue' = [queue EXCEPT ![ch][c.node] = Append(@, c.entry)]
    /\ puts' = [puts EXCEPT ![ch][c.node][c.entry] = @ + 1]
    /\ IF c.pc = "put" THEN Goto(c, "source") /\ UNCHANGED task
       ELSE Return(c, c.pc = "putlast")
    /\ UNCHANGED <<ballots, ending, client>>

\* A send on a closed channel ends the process: its calls and goroutines are gone, and
\* who waits for them gets an error.
Panic(c) ==
    LET n == c.node
        lost(t) == n \in t.waiting IN
    /\ c.pc \in {"put", "putlast", "heal"} /\ Target(c) \in ClosedOn(n)
    /\ down' = down \cup {n}
    /\ calls' = {d \in calls : d.node # n}
    /\ queue' = [ch \in Channel |-> [queue[ch] EXCEPT ![n] = <<>>]]
    /\ task' = [ch \in Channel |-> [m \in Node |->
                  IF m = n THEN [task[ch][m] EXCEPT !.pc = "idle", !.waiting = {}]
                  ELSE IF lost(task[ch][m])
                  THEN [task[ch][m] EXCEPT !.pc = "failed", !.waiting = {}]
                  ELSE task[ch][m]]]
    /\ UNCHANGED <<ballots, stage, exited, client, puts>>

\* The goroutine takes the next entry, also from a closed channel, and a broadcaster
\* calls every other peer at once; a peer that is down is an error.
Take(ch, n) ==
    LET e == Head(queue[ch][n])
        t == task[ch][n]
        others == load.peers[e] \ {n} IN
    /\ n \notin down /\ t.pc = "idle" /\ queue[ch][n] # <<>>
    /\ queue' = [queue EXCEPT ![ch][n] = Tail(@)]
    /\ task' = [task EXCEPT ![ch][n] =
                  [pc |-> IF ch = "hch" THEN "heal"
                          ELSE IF others \cap down # {} THEN "failed" ELSE "wait",
                   entry |-> e, k |-> t.k + 1,
                   waiting |-> IF ch = "hch" \/ others \cap down # {} THEN {} ELSE others]]
    /\ calls' = IF ch = "hch" THEN calls
                ELSE calls \cup {[op |-> IF ch = "pch" THEN "propose" ELSE "commit",
                                  node |-> m, entry |-> e, src |-> n, by |-> ch,
                                  k |-> t.k + 1, pc |-> "start"] : m \in others \ down}
    /\ UNCHANGED <<ballots, ending, client, puts>>

\* All peers have accepted the proposal: the broadcaster itself calls Commit.
LocalCommit(n) ==
    LET t == task["pch"][n] IN
    /\ t.pc = "commit" /\ t.waiting = {}
    /\ task' = [task EXCEPT !["pch"][n].waiting = {n}]
    /\ calls' = calls \cup {[op |-> "commit", node |-> n, entry |-> t.entry,
                             src |-> n, by |-> "pch", k |-> t.k, pc |-> "start"]}
    /\ UNCHANGED <<ballots, queue, ending, client, puts>>

\* ballotGetClose, after an error.
Fail(ch, n) ==
    LET t == task[ch][n] IN
    /\ t.pc = "failed"
    /\ closed' = [closed EXCEPT ![n] = @ \cup ({t.entry} \cap tracked[n])]
    /\ task' = [task EXCEPT ![ch][n].pc = "idle"]
    /\ UNCHANGED <<tracked, proposed, committed, calls, queue, ending, client, puts>>

\* The healer has asked the other peers and pulled (Transfer has the steps).
Healed(n) ==
    /\ task["hch"][n].pc = "heal"
    /\ task' = [task EXCEPT !["hch"][n].pc = "idle"]
    /\ UNCHANGED <<ballots, calls, queue, ending, client, puts>>

Timeout(n, e) ==
    /\ timeouts < load.timeouts /\ n \notin down
    /\ proposed[n][e] # {} /\ e \notin closed[n]
    /\ timeouts' = timeouts + 1
    /\ closed' = [closed EXCEPT ![n] = @ \cup {e}]
    /\ UNCHANGED <<tracked, proposed, committed, calls, queue, task, ending, load,
                   asked, puts>>

-----------------------------------------------------------------------------
(* Shutdown: sets the flag, closes the channels and waits for three ends.  *)

Shutdown(n) ==
    /\ n \in load.quits \ down /\ stage[n] = 0
    /\ stage' = [stage EXCEPT ![n] = 1]
    /\ UNCHANGED <<ballots, calls, queue, task, exited, down, client, puts>>

CloseNext(n) ==
    /\ n \notin down /\ stage[n] \in 1..3
    /\ stage' = [stage EXCEPT ![n] = @ + 1]
    /\ UNCHANGED <<ballots, calls, queue, task, exited, down, client, puts>>

\* Mutant of Exit: a goroutine leaves what is still in its channel.
ExitAtOnce(n, g) ==
    /\ n \notin down /\ g \notin exited[n]
    /\ IF g = "reaper" THEN stage[n] > 0 ELSE g \in ClosedOn(n) /\ task[g][n].pc = "idle"
    /\ exited' = [exited EXCEPT ![n] = @ \cup {g}]
    /\ UNCHANGED <<ballots, calls, queue, task, stage, down, client, puts>>

\* A goroutine leaves its loop when the channel is closed and drained, the reaper when
\* it sees the flag.
Exit(n, g) ==
    /\ n \notin down /\ g \notin exited[n]
    /\ IF g = "reaper" THEN stage[n] > 0
       ELSE g \in ClosedOn(n) /\ queue[g][n] = <<>> /\ task[g][n].pc = "idle"
    /\ exited' = [exited EXCEPT ![n] = @ \cup {g}]
    /\ UNCHANGED <<ballots, calls, queue, task, stage, down, client, puts>>

ShutdownReturns(n) ==
    /\ n \notin down /\ stage[n] = 4 /\ Cardinality(exited[n]) >= 3
    /\ stage' = [stage EXCEPT ![n] = 5]
    /\ UNCHANGED <<ballots, calls, queue, task, exited, down, client, puts>>

-----------------------------------------------------------------------------
CallStep(c) == \/ ProposeStart(c) \/ ProposeBallot(c) \/ ProposeSelf(c) \/ ProposeSource(c)
               \/ CommitSelf(c) \/ CommitSource(c) \/ Put(c) \/ Panic(c)
TaskStep(ch, n) == Take(ch, n) \/ Fail(ch, n)
QuitStep(n) == CloseNext(n) \/ ShutdownReturns(n) \/ \E g \in Goroutine : Exit(n, g)

\* What goes on by itself, without clients, timers or a call of Shutdown.
Step == \/ \E c \in calls : CallStep(c)
        \/ \E n \in Node : \/ \E ch \in Channel : TaskStep(ch, n)
                           \/ LocalCommit(n) \/ Healed(n) \/ QuitStep(n)

Next == \/ Step
        \/ \E n \in Node : \/ \E e \in Entry : ClientPropose(n, e) \/ Timeout(n, e)
                           \/ Shutdown(n)

Spec == Init /\ [][Next]_vars

-----------------------------------------------------------------------------
\* The guards of Step, spelled out for the proofs: a call only ever waits for room in a
\* channel, a goroutine for entries or for answers, and Shutdown for the goroutines.
CallReady(c) ==
    \/ c.op = "propose" /\ c.pc \in {"start", "ballot", "self", "source"}
    \/ c.op = "commit" /\ c.pc \in {"start", "source"}
    \/ /\ c.pc \in {"put", "putlast", "heal"}
       /\ \/ Target(c) \in ClosedOn(c.node)
          \/ Len(queue[Target(c)][c.node]) < Capacity(Target(c))
TaskReady(ch, n) ==
    LET t == task[ch][n] IN
    \/ n \notin down /\ t.pc = "idle" /\ queue[ch][n] # <<>>
    \/ t.pc = "failed"
    \/ ch = "pch" /\ t.pc = "commit" /\ t.waiting = {}
    \/ ch = "hch" /\ t.pc = "heal"
QuitReady(n) ==
    /\ n \notin down
    /\ \/ stage[n] \in 1..3
       \/ stage[n] = 4 /\ Cardinality(exited[n]) >= 3
       \/ \E g \in Goroutine \ exited[n] :
            IF g = "reaper" THEN stage[n] > 0
            ELSE g \in ClosedOn(n) /\ queue[g][n] = <<>> /\ task[g][n].pc = "idle"
Ready == \/ \E c \in calls : CallReady(c)
         \/ \E n \in Node : QuitReady(n) \/ \E ch \in Channel : TaskReady(ch, n)

Blocked(ch, n) == {c \in calls : c.node = n /\ c.pc \in {"put", "putlast", "heal"}
                                   /\ Target(c) = ch}
\* A channel that is full, behind a goroutine that works, with a handler waiting for room.
Overfull(ch, n) == /\ Len(queue[ch][n]) = Capacity(ch) /\ task[ch][n].pc # "idle"
                   /\ Blocked(ch, n) # {}

\* No two nodes are in that state with the same channel at the same time.
Fits == \A ch \in {"pch", "cch"}, m, n \in Node : Overfull(ch, m) /\ Overfull(ch, n) => m = n

Busy == \/ calls # {}
        \/ \E n \in Node \ down :
             stage[n] \in 1..4 \/ \E ch \in Channel : queue[ch][n] # <<>> \/ task[ch][n].pc # "idle"

\* Handlers have no timeout on their sends, and broadcasters wait for handlers: a node
\* may wait for itself through its peers.  It takes two peers with the same channel
\* overfull: with one, however long it has been full, somebody can go on, and so can
\* Shutdown and the heal requests of all loads.
NobodyStuck == Fits /\ Busy => Ready

\* A ballot is broadcast at most twice, when a vote comes between its creation and the
\* vote of the node itself, and its commit once.
FewBroadcasts ==
    \A n \in Node, e \in Entry : puts["pch"][n][e] <= 2 /\ puts["cch"][n][e] <= 1

\* Shutdown closes the channels under goroutines that still have work: each of them ends
\* with its channel drained, and nothing is queued behind its back afterwards.
ExitsDrained ==
    \A n \in Node \ down : \A ch \in exited[n] \cap Channel :
        queue[ch][n] = <<>> /\ task[ch][n].pc = "idle"
=============================================================================

---------------------------- MODULE ChannelsProofs ----------------------------
(***************************************************************************)
(* Proofs about Channels, for any nodes, PeerSets, loads and capacities.   *)
(***************************************************************************)
EXTENDS Channels, FiniteSetTheorems, TLAPS

-----------------------------------------------------------------------------
(* Type correctness.                                                       *)

\* A goroutine that is not idle works on an entry, and only one that waits for
\* answers has somebody to wait for.
TaskInv ==
    \A ch \in Channel, n \in Node :
        /\ task[ch][n].pc # "idle" => task[ch][n].entry \in Entry
        /\ task[ch][n].pc \in {"idle", "failed", "heal"} => task[ch][n].waiting = {}
Typed == TypeOK /\ TaskInv

TasksOK == task' \in [Channel -> [Node -> Task]] /\ TaskInv'
\* A goroutine that waits for nobody is not disturbed.
RestUndisturbed == \A ch \in Channel, n \in Node :
                       task[ch][n].waiting = {} => task'[ch][n] = task[ch][n]
BallotsOK == /\ tracked' \in [Node -> SUBSET Entry] /\ closed' \in [Node -> SUBSET Entry]
             /\ proposed' \in [Node -> [Entry -> SUBSET Node]]
             /\ committed' \in [Node -> [Entry -> SUBSET Node]]
QueuesOK == /\ queue' \in [Channel -> [Node -> Seq(Entry)]]
            /\ \A ch \in Channel, n \in Node : Len(queue'[ch][n]) <= Capacity(ch)
PutsOK == puts' \in [Channel -> [Node -> [Entry -> Nat]]]
EndingOK == stage' \in [Node -> 0..5] /\ exited' \in [Node -> SUBSET Goroutine] /\ down' \subseteq Node
ClientOK == load' \in Loads /\ asked' \in [Entry -> Nat] /\ timeouts' \in Nat

\* What a step leaves alone keeps its type.
LEMMA SameTypes ==
  ASSUME Typed
  PROVE  /\ UNCHANGED task => TasksOK
         /\ UNCHANGED ballots => BallotsOK
         /\ UNCHANGED queue => QueuesOK
         /\ UNCHANGED puts => PutsOK
         /\ UNCHANGED ending => EndingOK
         /\ UNCHANGED client => ClientOK
         /\ UNCHANGED calls => calls' \subseteq Call
  BY DEF Typed, TypeOK, TaskInv, TasksOK, BallotsOK, QueuesOK, PutsOK, EndingOK, ClientOK,
      ballots, ending, client

LEMMA AllTypes ==
  ASSUME TasksOK, BallotsOK, QueuesOK, PutsOK, EndingOK, ClientOK, calls' \subseteq Call
  PROVE  Typed'
  BY DEF Typed, TypeOK, TasksOK, BallotsOK, QueuesOK, PutsOK, EndingOK, ClientOK, Capacity

\* A load names nodes.
LEMMA LoadType ==
  ASSUME TypeOK, NEW e \in Entry
  PROVE  load.peers[e] \subseteq Node
<1>1. load \in Load
  BY ChannelsAssumption DEF TypeOK
<1> QED
  BY <1>1 DEF Load

\* The fields of a running call.
LEMMA CallType ==
  ASSUME TypeOK, NEW c \in calls
  PROVE  /\ c \in Call /\ c.node \in Node /\ c.src \in Node /\ c.entry \in Entry
         /\ c.op \in {"propose", "commit"} /\ c.by \in Channel \cup {"client"}
  BY DEF TypeOK, Call

\* The only field that Goto changes is the place of the call.
LEMMA GotoType ==
  ASSUME TypeOK, NEW c \in calls,
         NEW pc \in {"start", "ballot", "self", "put", "source", "putlast", "heal"}, Goto(c, pc)
  PROVE  /\ calls' \subseteq Call
         /\ \E d : /\ calls' = (calls \ {c}) \cup {d} /\ d.pc = pc
                   /\ d.op = c.op /\ d.node = c.node /\ d.entry = c.entry
<1> DEFINE d == [c EXCEPT !.pc = pc]
<1>1. c \in Call /\ calls \subseteq Call
  BY CallType DEF TypeOK
<1>2. d \in Call /\ d.pc = pc /\ d.op = c.op /\ d.node = c.node /\ d.entry = c.entry
  BY <1>1 DEF Call
<1>3. calls' = (calls \ {c}) \cup {d}
  BY DEF Goto
<1> QED
  BY <1>1, <1>2, <1>3

\* An answer changes the task of a broadcaster that waits for it, if there is one.
LEMMA ReturnType ==
  ASSUME Typed, NEW c \in calls, NEW ok \in BOOLEAN, Return(c, ok)
  PROVE  calls' \subseteq Call /\ TasksOK /\ RestUndisturbed
<1>0. task \in [Channel -> [Node -> Task]] /\ calls \subseteq Call /\ calls' = calls \ {c}
  BY DEF Typed, TypeOK, Return
<1>1. CASE ~Awaited(c)
  <2>1. UNCHANGED task
    BY <1>1 DEF Return
  <2> QED
    BY <1>0, <2>1, SameTypes DEF RestUndisturbed
<1>2. CASE Awaited(c)
  <2> DEFINE t == task[c.by][c.src]
             u == Answered(t, c, ok)
  <2>1. c.by \in Channel /\ c.src \in Node /\ c.node \in t.waiting
    BY <1>2, CallType DEF Typed, Awaited
  <2>2. t \in Task /\ t.entry \in Entry /\ t.pc \in {"wait", "commit"}
    BY <1>0, <2>1 DEF Typed, TaskInv, Task
  <2>3. task' = [task EXCEPT ![c.by][c.src] = u]
    BY <1>2 DEF Return
  <2>4. /\ u \in Task /\ u.entry \in Entry
        /\ u.pc \in {"idle", "failed", "heal"} => u.waiting = {}
    <3>1. CASE ok
      BY <2>2, <3>1 DEF Answered, Task
    <3>2. CASE ~ok
      BY <2>2, <3>2 DEF Answered, Task
    <3> QED
      BY <3>1, <3>2
  <2> HIDE DEF u
  <2>5. \A ch \in Channel, n \in Node :
            task'[ch][n] = IF ch = c.by /\ n = c.src THEN u ELSE task[ch][n]
    BY <1>0, <2>3
  <2>6. TasksOK
    <3>1. task' \in [Channel -> [Node -> Task]]
      BY <1>0, <2>3, <2>4
    <3> QED
      BY <2>4, <2>5, <3>1 DEF TasksOK, Typed, TaskInv
  <2> QED
    BY <1>0, <2>1, <2>5, <2>6 DEF RestUndisturbed
<1> QED
  BY <1>1, <1>2

\* Closing a ballot, by the last vote or not at all.
LEMMA CompleteType ==
  ASSUME TypeOK, NEW c \in calls, NEW p, NEW m, Complete(c, p, m) \/ UNCHANGED closed
  PROVE  closed' \in [Node -> SUBSET Entry]
<1>1. closed \in [Node -> SUBSET Entry] /\ c.node \in Node /\ c.entry \in Entry
  BY CallType DEF TypeOK
<1> QED
  BY <1>1 DEF Complete

\* A vote is one of a node.
LEMMA VoteType ==
  ASSUME NEW f \in [Node -> [Entry -> SUBSET Node]], NEW n \in Node, NEW e \in Entry, NEW p \in Node,
         NEW g, g = [f EXCEPT ![n][e] = @ \cup {p}]
  PROVE  /\ g \in [Node -> [Entry -> SUBSET Node]]
         /\ \A m \in Node, x \in Entry :
               g[m][x] = IF m = n /\ x = e THEN f[n][e] \cup {p} ELSE f[m][x]
  OBVIOUS

\* Nobody is waited for any more.
LEMMA TaskOver ==
  ASSUME NEW t \in Task, NEW pc \in {"idle", "failed"}, NEW u,
         u = [t EXCEPT !.pc = pc, !.waiting = {}]
  PROVE  u \in Task /\ u.pc = pc /\ u.entry = t.entry /\ u.waiting = {}
  BY DEF Task

\* Handlers of Propose.
LEMMA ProposeType ==
  ASSUME Typed, NEW c \in calls,
         ProposeStart(c) \/ ProposeBallot(c) \/ ProposeSelf(c) \/ ProposeSource(c)
  PROVE  Typed'
<1>0. /\ TypeOK /\ c.node \in Node /\ c.src \in Node /\ c.entry \in Entry
      /\ tracked \in [Node -> SUBSET Entry] /\ proposed \in [Node -> [Entry -> SUBSET Node]]
      /\ closed \in [Node -> SUBSET Entry] /\ committed \in [Node -> [Entry -> SUBSET Node]]
  BY CallType DEF Typed, TypeOK
<1>1. /\ UNCHANGED <<queue, ending, client, puts, committed>>
      /\ QueuesOK /\ EndingOK /\ ClientOK /\ PutsOK
  <2>1. UNCHANGED <<queue, ending, client, puts, committed>>
    BY DEF ProposeStart, ProposeBallot, ProposeSelf, ProposeSource, ballots
  <2> QED
    BY <2>1, SameTypes
<1>2. CASE ProposeStart(c) \/ ProposeBallot(c)
  <2>1. tracked' = tracked \/ tracked' = [tracked EXCEPT ![c.node] = @ \cup {c.entry}]
    BY <1>2 DEF ProposeStart, ProposeBallot, ballots
  <2>2. BallotsOK
    <3>1. tracked' \in [Node -> SUBSET Entry]
      BY <1>0, <2>1
    <3>2. UNCHANGED <<closed, proposed, committed>>
      BY <1>2 DEF ProposeStart, ProposeBallot, ballots
    <3> QED
      BY <1>0, <3>1, <3>2 DEF BallotsOK
  <2>3. UNCHANGED task /\ \E pc \in {"heal", "ballot", "source", "self"} : Goto(c, pc)
    BY <1>2 DEF ProposeStart, ProposeBallot
  <2>4. calls' \subseteq Call /\ TasksOK
    BY <1>0, <2>3, GotoType, SameTypes
  <2> QED
    BY <1>1, <2>2, <2>4, AllTypes
<1>3. CASE ProposeSelf(c)
  <2>1. proposed' = proposed \/ proposed' = [proposed EXCEPT ![c.node][c.entry] = @ \cup {c.node}]
    BY <1>3 DEF ProposeSelf
  <2>2. proposed' \in [Node -> [Entry -> SUBSET Node]]
    <3>1. CASE proposed' = proposed
      BY <1>0, <3>1
    <3>2. CASE proposed' = [proposed EXCEPT ![c.node][c.entry] = @ \cup {c.node}]
      BY <1>0, <3>2, VoteType
    <3> QED
      BY <2>1, <3>1, <3>2
  <2>3. BallotsOK
    BY <1>0, <1>3, <2>2 DEF BallotsOK, ProposeSelf
  <2>4. \E pc \in {"source", "put"} : Goto(c, pc)
    BY <1>3 DEF ProposeSelf
  <2>5. calls' \subseteq Call /\ TasksOK
    BY <1>0, <1>3, <2>4, GotoType, SameTypes DEF ProposeSelf
  <2> QED
    BY <1>1, <2>3, <2>5, AllTypes
<1>4. CASE ProposeSource(c)
  <2>1. proposed' = proposed \/ proposed' = [proposed EXCEPT ![c.node][c.entry] = @ \cup {c.src}]
    BY <1>4 DEF ProposeSource
  <2>2. proposed' \in [Node -> [Entry -> SUBSET Node]]
    <3>1. CASE proposed' = proposed
      BY <1>0, <3>1
    <3>2. CASE proposed' = [proposed EXCEPT ![c.node][c.entry] = @ \cup {c.src}]
      BY <1>0, <3>2, VoteType
    <3> QED
      BY <2>1, <3>1, <3>2
  <2>3. UNCHANGED closed \/ \E p, m : Complete(c, p, m)
    BY <1>4 DEF ProposeSource
  <2>4. closed' \in [Node -> SUBSET Entry]
    BY <1>0, <2>3, CompleteType
  <2>5. BallotsOK
    BY <1>0, <1>4, <2>2, <2>4 DEF BallotsOK, ProposeSource
  <2>6. (Goto(c, "putlast") /\ UNCHANGED task) \/ \E ok \in BOOLEAN : Return(c, ok)
    BY <1>4 DEF ProposeSource
  <2>7. calls' \subseteq Call /\ TasksOK
    BY <1>0, <2>6, GotoType, ReturnType, SameTypes
  <2> QED
    BY <1>1, <2>5, <2>7, AllTypes
<1> QED
  BY <1>2, <1>3, <1>4

\* What CommitVote may do.
LEMMA CommitVoteFacts ==
  ASSUME NEW c, NEW voter, NEW isLast \in BOOLEAN, CommitVote(c, voter, isLast)
  PROVE  /\ \/ UNCHANGED committed
            \/ committed' = [committed EXCEPT ![c.node][c.entry] = @ \cup {voter}]
         /\ UNCHANGED closed \/ \E p, m : Complete(c, p, m)
         /\ \/ \E ok \in BOOLEAN : Return(c, ok)
            \/ Goto(c, "source") /\ UNCHANGED task
            \/ /\ Goto(c, "put") \/ Goto(c, "putlast")
               /\ UNCHANGED task /\ committed[c.node][c.entry] = {}
               /\ committed' = [committed EXCEPT ![c.node][c.entry] = @ \cup {voter}]
  BY DEF CommitVote

\* Handlers of Commit.
LEMMA CommitType ==
  ASSUME Typed, NEW c \in calls, CommitSelf(c) \/ CommitSource(c)
  PROVE  Typed'
<1>0. /\ TypeOK /\ c.node \in Node /\ c.src \in Node /\ c.entry \in Entry
      /\ tracked \in [Node -> SUBSET Entry] /\ proposed \in [Node -> [Entry -> SUBSET Node]]
      /\ committed \in [Node -> [Entry -> SUBSET Node]]
  BY CallType DEF Typed, TypeOK
<1>1. UNCHANGED <<tracked, proposed, queue, ending, client, puts>>
  BY DEF CommitSelf, CommitSource
<1>2. PICK voter \in Node, isLast \in BOOLEAN : CommitVote(c, voter, isLast)
  BY <1>0 DEF CommitSelf, CommitSource
<1>3. committed' \in [Node -> [Entry -> SUBSET Node]]
  <2>1. committed' = committed \/ committed' = [committed EXCEPT ![c.node][c.entry] = @ \cup {voter}]
    BY <1>2, CommitVoteFacts
  <2>2. CASE committed' = committed
    BY <1>0, <2>2
  <2>3. CASE committed' = [committed EXCEPT ![c.node][c.entry] = @ \cup {voter}]
    BY <1>0, <2>3, VoteType
  <2> QED
    BY <2>1, <2>2, <2>3
<1>4. closed' \in [Node -> SUBSET Entry]
  <2>1. UNCHANGED closed \/ \E p, m : Complete(c, p, m)
    BY <1>2, CommitVoteFacts
  <2> QED
    BY <1>0, <2>1, CompleteType
<1>5. \/ \E ok \in BOOLEAN : Return(c, ok)
      \/ (Goto(c, "source") \/ Goto(c, "put") \/ Goto(c, "putlast")) /\ UNCHANGED task
  BY <1>2, CommitVoteFacts
<1>6. calls' \subseteq Call /\ TasksOK
  BY <1>0, <1>5, GotoType, ReturnType, SameTypes
<1>7. BallotsOK
  BY <1>0, <1>1, <1>3, <1>4 DEF BallotsOK
<1> QED
  BY <1>1, <1>6, <1>7, SameTypes, AllTypes

\* One more entry in a channel that has room.
LEMMA PutFacts ==
  ASSUME TypeOK, NEW c \in calls, Put(c)
  PROVE  /\ Target(c) \in Channel /\ QueuesOK /\ PutsOK
         /\ \A ch \in Channel, n \in Node :
               ch # Target(c) \/ n # c.node => queue'[ch][n] = queue[ch][n]
         /\ \A ch \in Channel, n \in Node, e \in Entry :
               puts'[ch][n][e] = IF ch = Target(c) /\ n = c.node /\ e = c.entry
                                 THEN puts[ch][n][e] + 1 ELSE puts[ch][n][e]
<1> DEFINE t == Target(c)
<1>0. /\ c.node \in Node /\ c.entry \in Entry /\ t \in Channel
      /\ queue \in [Channel -> [Node -> Seq(Entry)]]
      /\ puts \in [Channel -> [Node -> [Entry -> Nat]]]
      /\ \A ch \in Channel, n \in Node : Len(queue[ch][n]) <= Capacity(ch)
      /\ Capacity(t) \in Nat
  BY CallType, ChannelsAssumption DEF TypeOK, Target, Channel, Capacity
<1>1. /\ Len(queue[t][c.node]) < Capacity(t)
      /\ queue' = [queue EXCEPT ![t][c.node] = Append(@, c.entry)]
      /\ puts' = [puts EXCEPT ![t][c.node][c.entry] = @ + 1]
  BY DEF Put
<1> HIDE DEF t
<1>2. /\ queue' \in [Channel -> [Node -> Seq(Entry)]]
      /\ \A ch \in Channel, n \in Node : queue'[ch][n] =
            IF ch = t /\ n = c.node THEN Append(queue[t][c.node], c.entry) ELSE queue[ch][n]
  BY <1>0, <1>1
<1>3. Len(Append(queue[t][c.node], c.entry)) <= Capacity(t)
  BY <1>0, <1>1
<1>4. QueuesOK
  BY <1>0, <1>2, <1>3 DEF QueuesOK
<1>5. /\ PutsOK
      /\ \A ch \in Channel, n \in Node, e \in Entry :
            puts'[ch][n][e] = IF ch = t /\ n = c.node /\ e = c.entry
                              THEN puts[ch][n][e] + 1 ELSE puts[ch][n][e]
  <2>1. PutsOK
    BY <1>0, <1>1 DEF PutsOK
  <2>2. \A ch \in Channel, n \in Node :
            puts'[ch][n] = IF ch = t /\ n = c.node
                           THEN [puts[t][c.node] EXCEPT ![c.entry] = @ + 1] ELSE puts[ch][n]
    BY <1>0, <1>1
  <2>3. ASSUME NEW e \in Entry
        PROVE  [puts[t][c.node] EXCEPT ![c.entry] = @ + 1][e] =
                   IF e = c.entry THEN puts[t][c.node][e] + 1 ELSE puts[t][c.node][e]
    BY <1>0
  <2>4. ASSUME NEW ch \in Channel, NEW n \in Node, NEW e \in Entry
        PROVE  puts'[ch][n][e] = IF ch = t /\ n = c.node /\ e = c.entry
                                 THEN puts[ch][n][e] + 1 ELSE puts[ch][n][e]
    <3>1. CASE ch = t /\ n = c.node
      BY <2>2, <2>3, <3>1
    <3>2. CASE ~(ch = t /\ n = c.node)
      BY <2>2, <3>2
    <3> QED
      BY <3>1, <3>2
  <2> QED
    BY <2>1, <2>4
<1> QED
  BY <1>0, <1>2, <1>4, <1>5 DEF t

\* Sends, in time and on a closed channel.
LEMMA SendType ==
  ASSUME Typed, NEW c \in calls, Put(c) \/ Panic(c)
  PROVE  Typed'
<1>0. TypeOK /\ c.node \in Node
  BY CallType DEF Typed
<1>1. CASE Put(c)
  <2>1. (Goto(c, "source") /\ UNCHANGED task) \/ \E ok \in BOOLEAN : Return(c, ok)
    BY <1>1 DEF Put
  <2>2. calls' \subseteq Call /\ TasksOK
    BY <1>0, <2>1, GotoType, ReturnType, SameTypes
  <2>3. BallotsOK /\ EndingOK /\ ClientOK
    BY <1>1, SameTypes DEF Put
  <2> QED
    BY <1>0, <1>1, <2>2, <2>3, PutFacts, AllTypes
<1>2. CASE Panic(c)
  <2>1. calls' \subseteq Call /\ BallotsOK /\ ClientOK /\ PutsOK
    <3>1. calls' \subseteq calls /\ UNCHANGED <<ballots, client, puts>>
      BY <1>2 DEF Panic
    <3> QED
      BY <1>0, <3>1, SameTypes DEF TypeOK
  <2>2. EndingOK
    <3>1. down' = down \cup {c.node} /\ UNCHANGED <<stage, exited>>
      BY <1>2 DEF Panic
    <3> QED
      BY <1>0, <3>1 DEF TypeOK, EndingOK
  <2>3. QueuesOK
    <3>1. queue' = [ch \in Channel |-> [queue[ch] EXCEPT ![c.node] = <<>>]]
      BY <1>2 DEF Panic
    <3>2. queue \in [Channel -> [Node -> Seq(Entry)]]
      BY <1>0 DEF TypeOK
    <3>3. \A ch \in Channel, n \in Node : queue'[ch][n] = IF n = c.node THEN <<>> ELSE queue[ch][n]
      BY <3>1, <3>2
    <3>4. queue' \in [Channel -> [Node -> Seq(Entry)]]
      <4>1. \A ch \in Channel : [queue[ch] EXCEPT ![c.node] = <<>>] \in [Node -> Seq(Entry)]
        <5>1. <<>> \in Seq(Entry)
          OBVIOUS
        <5> QED
          BY <3>2, <5>1
      <4> QED
        BY <3>1, <4>1
    <3>5. \A ch \in Channel : 0 <= Capacity(ch)
      BY ChannelsAssumption DEF Capacity
    <3> QED
      BY <1>0, <3>3, <3>4, <3>5 DEF QueuesOK, TypeOK
  <2>4. TasksOK
    <3>1. task \in [Channel -> [Node -> Task]]
      BY <1>0 DEF TypeOK
    <3>2. \A ch \in Channel, m \in Node : \/ task'[ch][m] = task[ch][m]
             \/ task'[ch][m] = [task[ch][m] EXCEPT !.pc = "idle", !.waiting = {}]
             \/ /\ c.node \in task[ch][m].waiting
                /\ task'[ch][m] = [task[ch][m] EXCEPT !.pc = "failed", !.waiting = {}]
      BY <1>2 DEF Panic
    <3>3. \A ch \in Channel, m \in Node :
             /\ task'[ch][m] \in Task
             /\ task'[ch][m].pc # "idle" => task'[ch][m].entry \in Entry
             /\ task'[ch][m].pc \in {"idle", "failed", "heal"} => task'[ch][m].waiting = {}
      <4> SUFFICES ASSUME NEW ch \in Channel, NEW m \in Node
                   PROVE  /\ task'[ch][m] \in Task
                          /\ task'[ch][m].pc # "idle" => task'[ch][m].entry \in Entry
                          /\ task'[ch][m].pc \in {"idle", "failed", "heal"} =>
                                task'[ch][m].waiting = {}
        OBVIOUS
      <4> DEFINE t == task[ch][m]
      <4>1. /\ t \in Task
            /\ t.pc # "idle" => t.entry \in Entry
            /\ t.pc \in {"idle", "failed", "heal"} => t.waiting = {}
        BY <3>1 DEF Typed, TaskInv
      <4>2. CASE task'[ch][m] = t
        BY <4>1, <4>2
      <4> HIDE DEF t
      <4>3. CASE task'[ch][m] = [t EXCEPT !.pc = "idle", !.waiting = {}]
        BY <4>1, <4>3, TaskOver
      <4>4. CASE /\ c.node \in t.waiting
                 /\ task'[ch][m] = [t EXCEPT !.pc = "failed", !.waiting = {}]
        <5>1. t.pc # "idle"
          BY <4>1, <4>4
        <5> QED
          BY <4>1, <4>4, <5>1, TaskOver
      <4> QED
        BY <3>2, <4>2, <4>3, <4>4 DEF t
    <3>4. task' \in [Channel -> [Node -> Task]]
      <4>1. DOMAIN task' = Channel /\ \A ch \in Channel : DOMAIN task'[ch] = Node
        BY <1>2 DEF Panic
      <4>2. task' = [ch \in Channel |-> [m \in Node |-> task'[ch][m]]]
        BY <1>2 DEF Panic
      <4> QED
        BY <3>3, <4>2
    <3> QED
      BY <3>3, <3>4 DEF TasksOK, TaskInv
  <2> QED
    BY <2>1, <2>2, <2>3, <2>4, AllTypes
<1> QED
  BY <1>1, <1>2

\* What the goroutines of a node do with their tasks.
LEMMA TaskType ==
  ASSUME Typed, NEW ch \in Channel, NEW n \in Node,
         TaskStep(ch, n) \/ LocalCommit(n) \/ Healed(n)
  PROVE  Typed'
<1>0. /\ TypeOK /\ task \in [Channel -> [Node -> Task]] /\ calls \subseteq Call
      /\ "pch" \in Channel /\ "hch" \in Channel
      /\ UNCHANGED <<ending, client, puts>> /\ EndingOK /\ ClientOK /\ PutsOK
  <2>1. UNCHANGED <<ending, client, puts>>
    BY DEF TaskStep, Take, Fail, LocalCommit, Healed
  <2> QED
    BY <2>1, SameTypes DEF Typed, TypeOK, Channel
<1>1. ASSUME NEW g \in Channel, NEW u \in Task, u.pc # "idle" => u.entry \in Entry,
             u.pc \in {"idle", "failed", "heal"} => u.waiting = {},
             task' = [task EXCEPT ![g][n] = u]
      PROVE  TasksOK
  <2>1. task' \in [Channel -> [Node -> Task]]
    BY <1>0, <1>1
  <2>2. \A h \in Channel, m \in Node : task'[h][m] = IF h = g /\ m = n THEN u ELSE task[h][m]
    BY <1>0, <1>1
  <2> QED
    BY <1>1, <2>1, <2>2 DEF TasksOK, Typed, TaskInv
<1>2. CASE Take(ch, n)
  <2> DEFINE e == Head(queue[ch][n])
             others == load.peers[e] \ {n}
             k == task[ch][n].k + 1
             u == [pc |-> IF ch = "hch" THEN "heal"
                          ELSE IF others \cap down # {} THEN "failed" ELSE "wait",
                   entry |-> e, k |-> k,
                   waiting |-> IF ch = "hch" \/ others \cap down # {} THEN {} ELSE others]
             op == IF ch = "pch" THEN "propose" ELSE "commit"
             new == {[op |-> op, node |-> m, entry |-> e, src |-> n, by |-> ch, k |-> k,
                      pc |-> "start"] : m \in others \ down}
  <2>1. /\ queue \in [Channel -> [Node -> Seq(Entry)]] /\ queue[ch][n] # <<>>
        /\ queue' = [queue EXCEPT ![ch][n] = Tail(@)]
        /\ \A g \in Channel, m \in Node : Len(queue[g][m]) <= Capacity(g)
    BY <1>0, <1>2 DEF Take, TypeOK
  <2>2. e \in Entry /\ Tail(queue[ch][n]) \in Seq(Entry)
        /\ Len(Tail(queue[ch][n])) <= Len(queue[ch][n]) /\ Len(queue[ch][n]) \in Nat
        /\ Len(Tail(queue[ch][n])) \in Nat
    BY <2>1
  <2>3. others \subseteq Node
    BY <1>0, <2>2, LoadType
  <2>4. k \in Nat
    BY <1>0 DEF Task
  <2>5. u \in Task /\ u.entry \in Entry /\ (u.pc \in {"idle", "failed", "heal"} => u.waiting = {})
    BY <2>2, <2>3, <2>4 DEF Task
  <2>6. calls' = calls \/ calls' = calls \cup new
    BY <1>2 DEF Take
  <2>7. task' = [task EXCEPT ![ch][n] = u]
    BY <1>2 DEF Take
  <2> HIDE DEF u
  <2>8. TasksOK
    BY <1>1, <2>5, <2>7
  <2>9. calls' \subseteq Call
    <3>1. op \in {"propose", "commit"}
      OBVIOUS
    <3> HIDE DEF op, k, others, e
    <3>2. \A d \in new : d \in Call
      BY <2>2, <2>3, <2>4, <3>1 DEF Call
    <3> QED
      BY <1>0, <2>6, <3>2
  <2>10. QueuesOK
    <3>1. queue' \in [Channel -> [Node -> Seq(Entry)]]
      BY <2>1, <2>2
    <3>2. \A g \in Channel, m \in Node :
              queue'[g][m] = IF g = ch /\ m = n THEN Tail(queue[ch][n]) ELSE queue[g][m]
      BY <2>1
    <3>3. Len(Tail(queue[ch][n])) <= Capacity(ch)
      BY <2>1, <2>2, ChannelsAssumption DEF Capacity
    <3> QED
      BY <2>1, <3>1, <3>2, <3>3 DEF QueuesOK
  <2>11. BallotsOK
    BY <1>2, SameTypes DEF Take
  <2> QED
    BY <1>0, <2>8, <2>9, <2>10, <2>11, AllTypes
<1>3. CASE Fail(ch, n)
  <2> DEFINE u == [task[ch][n] EXCEPT !.pc = "idle"]
  <2>1. task[ch][n] \in Task /\ task[ch][n].waiting = {}
    BY <1>0, <1>3 DEF Fail, Typed, TaskInv
  <2>2. u \in Task /\ u.pc = "idle" /\ u.waiting = {}
    BY <2>1 DEF Task
  <2>3. task' = [task EXCEPT ![ch][n] = u]
    BY <1>3 DEF Fail
  <2> HIDE DEF u
  <2>4. TasksOK
    BY <1>1, <2>2, <2>3
  <2>5. closed' \in [Node -> SUBSET Entry]
    <3>1. tracked \in [Node -> SUBSET Entry] /\ closed \in [Node -> SUBSET Entry]
      BY <1>0 DEF TypeOK
    <3>2. closed' = [closed EXCEPT ![n] = @ \cup ({task[ch][n].entry} \cap tracked[n])]
      BY <1>3 DEF Fail
    <3> QED
      BY <3>1, <3>2
  <2>6. BallotsOK
    BY <1>0, <1>3, <2>5 DEF Fail, BallotsOK, TypeOK
  <2>7. QueuesOK /\ calls' \subseteq Call
    BY <1>3, SameTypes DEF Fail
  <2> QED
    BY <1>0, <2>4, <2>6, <2>7, AllTypes
<1>4. CASE LocalCommit(n)
  <2> DEFINE u == [task["pch"][n] EXCEPT !.waiting = {n}]
             d == [op |-> "commit", node |-> n, entry |-> task["pch"][n].entry, src |-> n,
                   by |-> "pch", k |-> task["pch"][n].k, pc |-> "start"]
  <2>1. task["pch"][n] \in Task /\ task["pch"][n].pc = "commit" /\ task["pch"][n].entry \in Entry
    BY <1>0, <1>4 DEF LocalCommit, Typed, TaskInv
  <2>2. u \in Task /\ u.pc = "commit" /\ u.entry \in Entry
    BY <2>1 DEF Task
  <2>3. task' = [task EXCEPT !["pch"][n] = u]
    BY <1>4 DEF LocalCommit
  <2> HIDE DEF u
  <2>4. TasksOK
    BY <1>0, <1>1, <2>2, <2>3
  <2>5. d \in Call
    BY <1>0, <2>1 DEF Task, Call
  <2>6. calls' = calls \cup {d}
    BY <1>4 DEF LocalCommit
  <2> HIDE DEF d
  <2>7. QueuesOK /\ BallotsOK
    BY <1>4, SameTypes DEF LocalCommit
  <2> QED
    BY <1>0, <2>4, <2>5, <2>6, <2>7, AllTypes
<1>5. CASE Healed(n)
  <2> DEFINE u == [task["hch"][n] EXCEPT !.pc = "idle"]
  <2>1. task["hch"][n] \in Task /\ task["hch"][n].waiting = {}
    BY <1>0, <1>5 DEF Healed, Typed, TaskInv
  <2>2. u \in Task /\ u.pc = "idle" /\ u.waiting = {}
    BY <2>1 DEF Task
  <2>3. task' = [task EXCEPT !["hch"][n] = u]
    BY <1>5 DEF Healed
  <2> HIDE DEF u
  <2>4. TasksOK
    BY <1>0, <1>1, <2>2, <2>3
  <2>5. BallotsOK /\ QueuesOK /\ calls' \subseteq Call
    BY <1>5, SameTypes DEF Healed
  <2> QED
    BY <1>0, <2>4, <2>5, AllTypes
<1> QED
  BY <1>2, <1>3, <1>4, <1>5 DEF TaskStep

\* Shutdown.
LEMMA QuitType ==
  ASSUME Typed, NEW n \in Node, Shutdown(n) \/ QuitStep(n)
  PROVE  /\ Typed'
         /\ UNCHANGED <<ballots, calls, queue, task, down, client, puts>>
         /\ \A m \in Node : stage[m] <= stage'[m]
         /\ \A m \in Node : \A g \in exited'[m] \ exited[m] :
               Exit(m, g) /\ UNCHANGED stage
<1>0. /\ stage \in [Node -> 0..5] /\ exited \in [Node -> SUBSET Goroutine] /\ down \subseteq Node
      /\ UNCHANGED <<ballots, calls, queue, task, down, client, puts>>
  BY DEF Typed, TypeOK, Shutdown, QuitStep, CloseNext, ShutdownReturns, Exit
<1>1. CASE Shutdown(n) \/ CloseNext(n) \/ ShutdownReturns(n)
  <2>1. PICK s \in 0..5 : stage' = [stage EXCEPT ![n] = s] /\ stage[n] <= s
    BY <1>0, <1>1 DEF Shutdown, CloseNext, ShutdownReturns
  <2>2. UNCHANGED exited
    BY <1>1 DEF Shutdown, CloseNext, ShutdownReturns
  <2>3. stage' \in [Node -> 0..5] /\ \A m \in Node : stage[m] <= stage'[m]
    BY <1>0, <2>1
  <2>4. EndingOK
    BY <1>0, <2>2, <2>3 DEF EndingOK
  <2> QED
    BY <1>0, <2>2, <2>3, <2>4, SameTypes, AllTypes
<1>2. ASSUME NEW g \in Goroutine, Exit(n, g)
      PROVE  /\ EndingOK /\ UNCHANGED stage
             /\ \A m \in Node : exited'[m] \ exited[m] \subseteq {g}
             /\ \A m \in Node \ {n} : exited'[m] = exited[m]
  <2>1. exited' = [exited EXCEPT ![n] = @ \cup {g}] /\ UNCHANGED stage
    BY <1>2 DEF Exit
  <2> QED
    BY <1>0, <2>1 DEF EndingOK
<1>3. CASE \E g \in Goroutine : Exit(n, g)
  <2>1. PICK g \in Goroutine : Exit(n, g)
    BY <1>3
  <2>2. Typed'
    BY <1>0, <1>2, <2>1, SameTypes, AllTypes
  <2> QED
    BY <1>0, <1>2, <2>1, <2>2
<1> QED
  BY <1>1, <1>3 DEF QuitStep

\* Clients and timers.
LEMMA ClientType ==
  ASSUME Typed, NEW n \in Node, NEW e \in Entry, ClientPropose(n, e) \/ Timeout(n, e)
  PROVE  Typed'
<1>0. TypeOK /\ UNCHANGED <<queue, task, ending, puts, load>>
  BY DEF Typed, ClientPropose, Timeout
<1>1. QueuesOK /\ TasksOK /\ EndingOK /\ PutsOK
  BY <1>0, SameTypes
<1>2. CASE ClientPropose(n, e)
  <2> DEFINE d == [op |-> "propose", node |-> n, entry |-> e, src |-> n, by |-> "client",
                   k |-> 0, pc |-> "start"]
  <2>1. calls' = calls \cup {d} /\ d \in Call
    BY <1>2 DEF ClientPropose, Call
  <2>2. calls' \subseteq Call
    BY <1>0, <2>1 DEF TypeOK
  <2>3. ClientOK
    BY <1>0, <1>2 DEF ClientPropose, ClientOK, TypeOK
  <2> QED
    BY <1>1, <1>2, <2>2, <2>3, SameTypes, AllTypes DEF ClientPropose
<1>3. CASE Timeout(n, e)
  <2>1. closed' \in [Node -> SUBSET Entry] /\ ClientOK
    BY <1>0, <1>3 DEF Timeout, ClientOK, TypeOK
  <2>2. BallotsOK
    BY <1>0, <1>3, <2>1 DEF Timeout, BallotsOK, TypeOK
  <2> QED
    BY <1>1, <1>3, <2>1, <2>2, SameTypes, AllTypes DEF Timeout
<1> QED
  BY <1>2, <1>3

\* Every step keeps the types.
LEMMA TypedStep ==
  ASSUME Typed, Next
  PROVE  Typed'
<1>1. ASSUME NEW c \in calls, CallStep(c) PROVE Typed'
  BY <1>1, ProposeType, CommitType, SendType DEF CallStep
<1>2. ASSUME NEW n \in Node, (\E ch \in Channel : TaskStep(ch, n)) \/ LocalCommit(n) \/ Healed(n)
      PROVE  Typed'
  <2>1. "pch" \in Channel
    BY DEF Channel
  <2> QED
    BY <1>2, <2>1, TaskType
<1> QED
  BY <1>1, <1>2, QuitType, ClientType DEF Next, Step

LEMMA TypedInvariance == Spec => []Typed
<1>1. Init => Typed
  <2> SUFFICES ASSUME Init PROVE Typed
    OBVIOUS
  <2>1. [pc |-> "idle", entry |-> None, waiting |-> {}, k |-> 0] \in Task
    BY DEF Task
  <2>2. \A ch \in Channel : 0 <= Capacity(ch)
    BY ChannelsAssumption DEF Capacity
  <2> QED
    BY <2>1, <2>2 DEF Init, Typed, TypeOK, TaskInv
<1>2. Typed /\ [Next]_vars => Typed'
  <2> SUFFICES ASSUME Typed, [Next]_vars PROVE Typed'
    OBVIOUS
  <2>1. CASE UNCHANGED vars
    BY <2>1, SameTypes, AllTypes DEF vars, ballots, ending, client
  <2> QED
    BY <2>1, TypedStep
<1> QED
  BY <1>1, <1>2, PTL DEF Spec

\* The channels never hold more than their capacity, and every variable has its type.
THEOREM TypeCorrect == Spec => []TypeOK
<1>1. Typed => TypeOK
  BY DEF Typed
<1> QED
  BY <1>1, TypedInvariance, PTL

-----------------------------------------------------------------------------
(* Shutdown and what is left in the channels.                              *)

\* A goroutine ends only on a closed channel, which stays closed, drained and idle.
ExitInv ==
    \A n \in Node \ down : \A ch \in exited[n] \cap Channel :
        ch \in ClosedOn(n) /\ queue[ch][n] = <<>> /\ task[ch][n].pc = "idle"

\* Channels stay closed.
LEMMA ClosedGrows ==
  ASSUME NEW n, stage[n] \in 0..5, stage'[n] \in 0..5, stage[n] <= stage'[n]
  PROVE  ClosedOn(n) \subseteq ClosedOn(n)'
  BY DEF ClosedOn, Channel

\* Steps of calls wake no idle goroutine and send on no closed channel.
LEMMA CallExits ==
  ASSUME Typed, ExitInv, NEW c \in calls, CallStep(c)
  PROVE  ExitInv'
<1>1. CASE Put(c)
  <2>1. (Goto(c, "source") /\ UNCHANGED task) \/ \E ok \in BOOLEAN : Return(c, ok)
    BY <1>1 DEF Put
  <2>2. RestUndisturbed
    BY <2>1, ReturnType DEF RestUndisturbed
  <2>3. UNCHANGED <<stage, exited, down>> /\ Target(c) \notin ClosedOn(c.node)
    BY <1>1 DEF Put, ending
  <2>4. \A ch \in Channel, n \in Node :
            ch # Target(c) \/ n # c.node => queue'[ch][n] = queue[ch][n]
    BY <1>1, PutFacts DEF Typed
  <2>5. \A ch \in Channel, n \in Node : task[ch][n].pc = "idle" => task'[ch][n].pc = "idle"
    BY <2>2 DEF RestUndisturbed, Typed, TaskInv
  <2> QED
    BY <2>3, <2>4, <2>5 DEF ExitInv, ClosedOn
<1>2. CASE Panic(c)
  <2>1. down' = down \cup {c.node} /\ UNCHANGED <<stage, exited>>
    BY <1>2 DEF Panic
  <2>2. \A ch \in Channel, n \in Node \ {c.node} : queue'[ch][n] = queue[ch][n]
    BY <1>2 DEF Panic, Typed, TypeOK
  <2>3. \A ch \in Channel, n \in Node \ {c.node} :
            task[ch][n].waiting = {} => task'[ch][n] = task[ch][n]
    BY <1>2 DEF Panic
  <2>4. \A ch \in Channel, n \in Node \ {c.node} : task[ch][n].pc = "idle" => task'[ch][n].pc = "idle"
    BY <2>3 DEF Typed, TaskInv
  <2> QED
    BY <2>1, <2>2, <2>4 DEF ExitInv, ClosedOn
<1>3. CASE \/ ProposeStart(c) \/ ProposeBallot(c) \/ ProposeSelf(c) \/ ProposeSource(c)
           \/ CommitSelf(c) \/ CommitSource(c)
  <2>1. UNCHANGED <<queue, stage, exited, down>>
    BY <1>3 DEF ProposeStart, ProposeBallot, ProposeSelf, ProposeSource, CommitSelf, CommitSource, ending
  <2>2. UNCHANGED task \/ \E ok \in BOOLEAN : Return(c, ok)
    <3>1. ASSUME NEW voter, NEW isLast \in BOOLEAN, CommitVote(c, voter, isLast)
          PROVE  UNCHANGED task \/ \E ok \in BOOLEAN : Return(c, ok)
      BY <3>1, CommitVoteFacts
    <3> QED
      BY <1>3, <3>1 DEF ProposeStart, ProposeBallot, ProposeSelf, ProposeSource, CommitSelf, CommitSource
  <2>3. RestUndisturbed
    BY <2>2, ReturnType DEF RestUndisturbed
  <2>4. \A ch \in Channel, n \in Node : task[ch][n].pc = "idle" => task'[ch][n].pc = "idle"
    BY <2>3 DEF RestUndisturbed, Typed, TaskInv
  <2> QED
    BY <2>1, <2>4 DEF ExitInv, ClosedOn
<1> QED
  BY <1>1, <1>2, <1>3 DEF CallStep

\* A goroutine that takes, fails, commits or heals has not ended.
LEMMA TaskExits ==
  ASSUME Typed, ExitInv, NEW ch \in Channel, NEW n \in Node,
         TaskStep(ch, n) \/ LocalCommit(n) \/ Healed(n)
  PROVE  ExitInv'
<1>0. /\ task \in [Channel -> [Node -> Task]] /\ queue \in [Channel -> [Node -> Seq(Entry)]]
      /\ UNCHANGED <<stage, exited, down>>
  BY DEF Typed, TypeOK, TaskStep, Take, Fail, LocalCommit, Healed, ending
<1>1. ASSUME NEW g \in Channel, task[g][n].pc # "idle" \/ queue[g][n] # <<>>,
             \A h \in Channel, m \in Node : h # g \/ m # n =>
                 task'[h][m] = task[h][m] /\ queue'[h][m] = queue[h][m]
      PROVE  ExitInv'
  <2> SUFFICES ASSUME NEW m \in Node \ down, NEW h \in exited[m] \cap Channel
               PROVE  h \in ClosedOn(m)' /\ queue'[h][m] = <<>> /\ task'[h][m].pc = "idle"
    BY <1>0 DEF ExitInv
  <2>1. h \in ClosedOn(m) /\ queue[h][m] = <<>> /\ task[h][m].pc = "idle"
    BY DEF ExitInv
  <2>2. ClosedOn(m)' = ClosedOn(m)
    BY <1>0 DEF ClosedOn
  <2>3. task'[h][m] = task[h][m] /\ queue'[h][m] = queue[h][m]
    BY <1>1, <2>1
  <2> QED
    BY <2>1, <2>2, <2>3
<1>2. CASE Take(ch, n)
  <2>1. PICK u : task' = [task EXCEPT ![ch][n] = u]
    BY <1>2 DEF Take
  <2>2. queue[ch][n] # <<>> /\ queue' = [queue EXCEPT ![ch][n] = Tail(@)]
    BY <1>2 DEF Take
  <2>3. \A h \in Channel, m \in Node : h # ch \/ m # n =>
            task'[h][m] = task[h][m] /\ queue'[h][m] = queue[h][m]
    BY <1>0, <2>1, <2>2
  <2> QED
    BY <1>1, <2>2, <2>3
<1>3. CASE Fail(ch, n)
  <2>1. /\ task[ch][n].pc # "idle" /\ UNCHANGED queue
        /\ task' = [task EXCEPT ![ch][n].pc = "idle"]
    BY <1>3 DEF Fail
  <2>2. \A h \in Channel, m \in Node : h # ch \/ m # n => task'[h][m] = task[h][m]
    BY <1>0, <2>1
  <2> QED
    BY <1>1, <2>1, <2>2
<1>4. ASSUME NEW g \in {"pch", "hch"}, NEW u, task[g][n].pc # "idle", UNCHANGED queue,
             task' = [task EXCEPT ![g][n] = u]
      PROVE  ExitInv'
  <2>1. g \in Channel
    BY DEF Channel
  <2>2. \A h \in Channel, m \in Node : h # g \/ m # n => task'[h][m] = task[h][m]
    BY <1>0, <1>4
  <2> QED
    BY <1>1, <1>4, <2>1, <2>2
<1>5. CASE LocalCommit(n)
  <2>1. task["pch"][n].pc # "idle" /\ UNCHANGED queue
        /\ task' = [task EXCEPT !["pch"][n].waiting = {n}]
    BY <1>5 DEF LocalCommit
  <2> QED
    BY <1>4, <2>1
<1>6. CASE Healed(n)
  <2>1. task["hch"][n].pc # "idle" /\ UNCHANGED queue
        /\ task' = [task EXCEPT !["hch"][n].pc = "idle"]
    BY <1>6 DEF Healed
  <2> QED
    BY <1>4, <2>1
<1> QED
  BY <1>2, <1>3, <1>5, <1>6 DEF TaskStep

\* An end is one on a closed and drained channel, and channels stay closed.
LEMMA QuitExits ==
  ASSUME Typed, ExitInv, NEW n \in Node, Shutdown(n) \/ QuitStep(n)
  PROVE  ExitInv'
<1>1. /\ Typed' /\ UNCHANGED <<queue, task, down>>
      /\ \A m \in Node : stage[m] <= stage'[m]
      /\ \A m \in Node : \A g \in exited'[m] \ exited[m] : Exit(m, g) /\ UNCHANGED stage
  BY QuitType
<1>2. \A m \in Node : ClosedOn(m) \subseteq ClosedOn(m)'
  BY <1>1, ClosedGrows DEF Typed, TypeOK
<1> SUFFICES ASSUME NEW m \in Node \ down, NEW ch \in exited'[m] \cap Channel
             PROVE  ch \in ClosedOn(m)' /\ queue[ch][m] = <<>> /\ task[ch][m].pc = "idle"
  BY <1>1 DEF ExitInv
<1>3. CASE ch \in exited[m]
  BY <1>2, <1>3 DEF ExitInv
<1>4. CASE ch \notin exited[m]
  <2>1. Exit(m, ch)
    BY <1>1, <1>4
  <2>2. ch # "reaper"
    BY DEF Channel
  <2> QED
    BY <1>2, <2>1, <2>2 DEF Exit
<1> QED
  BY <1>3, <1>4

\* Shutdown closes the channels under goroutines that still have work: each of them
\* ends drained and idle, and nothing is queued behind its back afterwards.
THEOREM Drained == Spec => []ExitsDrained
<1>1. Init => ExitInv
  BY DEF Init, ExitInv
<1>2. Typed /\ ExitInv /\ [Next]_vars => ExitInv'
  <2> SUFFICES ASSUME Typed, ExitInv, [Next]_vars PROVE ExitInv'
    OBVIOUS
  <2>1. CASE UNCHANGED vars
    BY <2>1 DEF vars, ExitInv, ClosedOn
  <2>2. ASSUME NEW n \in Node, NEW e \in Entry, ClientPropose(n, e) \/ Timeout(n, e)
        PROVE  ExitInv'
    <3>1. UNCHANGED <<queue, task, stage, exited, down>>
      BY <2>2 DEF ClientPropose, Timeout, ending
    <3> QED
      BY <3>1 DEF ExitInv, ClosedOn
  <2>3. "pch" \in Channel
    BY DEF Channel
  <2> QED
    BY <2>1, <2>2, <2>3, CallExits, TaskExits, QuitExits DEF Next, Step
<1>3. ExitInv => ExitsDrained
  BY DEF ExitInv, ExitsDrained
<1>4. Spec => []Typed
  BY TypedInvariance
<1> QED
  BY <1>1, <1>2, <1>3, <1>4, PTL DEF Spec

-----------------------------------------------------------------------------
(* How often an entry is broadcast.                                        *)

\* The calls that are about to send an entry on pch for the vote of the node itself,
\* those that are for the first vote, and those that are on cch.
Opening(n, e) == {c \in calls : /\ c.op = "propose" /\ c.node = n /\ c.entry = e
                                /\ c.pc \in {"self", "put"}}
Repeating(n, e) == {c \in calls : /\ c.op = "propose" /\ c.node = n /\ c.entry = e
                                  /\ c.pc = "putlast"}
Announcing(n, e) == {c \in calls : /\ c.op = "commit" /\ c.node = n /\ c.entry = e
                                   /\ c.pc \in {"put", "putlast"}}
Flag(S) == IF S = {} THEN 0 ELSE 1

\* A ballot is opened once and has one first vote of each kind, so at most one call is
\* in each of these places and each is reached once.
ProposalsCounted(n, e) ==
    /\ \A c, d \in Opening(n, e) : c = d
    /\ \A c, d \in Repeating(n, e) : c = d
    /\ e \notin tracked[n] => Opening(n, e) = {} /\ proposed[n][e] = {}
    /\ proposed[n][e] = {} => /\ puts["pch"][n][e] = 0 /\ Repeating(n, e) = {}
                              /\ \A c \in Opening(n, e) : c.pc = "self"
    /\ puts["pch"][n][e] + Flag(Opening(n, e)) + Flag(Repeating(n, e)) <= 2
CommitsCounted(n, e) ==
    /\ \A c, d \in Announcing(n, e) : c = d
    /\ committed[n][e] = {} => puts["cch"][n][e] = 0 /\ Announcing(n, e) = {}
    /\ puts["cch"][n][e] + Flag(Announcing(n, e)) <= 1
BroadcastInv(n, e) == ProposalsCounted(n, e) /\ CommitsCounted(n, e)

\* A call of Propose past its start has found a ballot.
HoldsBallot == \A c \in calls : c.op = "propose" /\ c.pc \notin {"start", "ballot", "heal"} =>
                                   c.entry \in tracked[c.node]
CountInv == HoldsBallot /\ \A n \in Node, e \in Entry : BroadcastInv(n, e)

\* No call gets about to send the entry, and votes are not withdrawn.
Calm(n, e) == /\ Opening(n, e)' \subseteq Opening(n, e)
              /\ Repeating(n, e)' \subseteq Repeating(n, e)
              /\ Announcing(n, e)' \subseteq Announcing(n, e)
VotesStay(n, e) ==
    /\ tracked[n] \subseteq tracked'[n]
    /\ proposed[n][e] \subseteq proposed'[n][e] /\ committed[n][e] \subseteq committed'[n][e]
    /\ e \notin tracked'[n] => proposed'[n][e] = proposed[n][e]
PutsStay(n, e) == \A ch \in Channel : puts'[ch][n][e] = puts[ch][n][e]

\* Nobody gets about to send a proposal, or an announcement.
LEMMA ProposalsCalm ==
  ASSUME Typed, NEW n \in Node, NEW e \in Entry, ProposalsCounted(n, e), VotesStay(n, e),
         Opening(n, e)' \subseteq Opening(n, e), Repeating(n, e)' \subseteq Repeating(n, e),
         puts'["pch"][n][e] = puts["pch"][n][e]
  PROVE  ProposalsCounted(n, e)'
<1>1. puts["pch"][n][e] \in Nat
  BY DEF Typed, TypeOK, Channel
<1>2. /\ Flag(Opening(n, e))' \in 0..1 /\ Flag(Opening(n, e))' <= Flag(Opening(n, e))
      /\ Flag(Repeating(n, e))' \in 0..1 /\ Flag(Repeating(n, e))' <= Flag(Repeating(n, e))
      /\ Flag(Opening(n, e)) \in 0..1 /\ Flag(Repeating(n, e)) \in 0..1
  BY DEF Flag
<1>3. puts'["pch"][n][e] + Flag(Opening(n, e))' + Flag(Repeating(n, e))' <= 2
  <2>1. puts["pch"][n][e] + Flag(Opening(n, e)) + Flag(Repeating(n, e)) <= 2
    BY DEF ProposalsCounted
  <2> HIDE DEF Flag
  <2> QED
    BY <1>1, <1>2, <2>1
<1>4. /\ \A c, d \in Opening(n, e)' : c = d
      /\ \A c, d \in Repeating(n, e)' : c = d
  BY DEF ProposalsCounted
<1>5. e \notin tracked'[n] => Opening(n, e)' = {} /\ proposed'[n][e] = {}
  BY DEF ProposalsCounted, VotesStay
<1>6. proposed'[n][e] = {} => /\ puts'["pch"][n][e] = 0 /\ Repeating(n, e)' = {}
                             /\ \A c \in Opening(n, e)' : c.pc = "self"
  BY DEF ProposalsCounted, VotesStay
<1> QED
  BY <1>3, <1>4, <1>5, <1>6 DEF ProposalsCounted

LEMMA CommitsCalm ==
  ASSUME Typed, NEW n \in Node, NEW e \in Entry, CommitsCounted(n, e), VotesStay(n, e),
         Announcing(n, e)' \subseteq Announcing(n, e), puts'["cch"][n][e] = puts["cch"][n][e]
  PROVE  CommitsCounted(n, e)'
<1>1. puts["cch"][n][e] \in Nat
  BY DEF Typed, TypeOK, Channel
<1>2. /\ Flag(Announcing(n, e))' \in 0..1 /\ Flag(Announcing(n, e))' <= Flag(Announcing(n, e))
      /\ Flag(Announcing(n, e)) \in 0..1
  BY DEF Flag
<1>3. puts'["cch"][n][e] + Flag(Announcing(n, e))' <= 1
  <2>1. puts["cch"][n][e] + Flag(Announcing(n, e)) <= 1
    BY DEF CommitsCounted
  <2> HIDE DEF Flag
  <2> QED
    BY <1>1, <1>2, <2>1
<1>4. \A c, d \in Announcing(n, e)' : c = d
  BY DEF CommitsCounted
<1>5. committed'[n][e] = {} => puts'["cch"][n][e] = 0 /\ Announcing(n, e)' = {}
  BY DEF CommitsCounted, VotesStay
<1> QED
  BY <1>3, <1>4, <1>5 DEF CommitsCounted

LEMMA CalmStep ==
  ASSUME Typed, NEW n \in Node, NEW e \in Entry, BroadcastInv(n, e),
         Calm(n, e), VotesStay(n, e), PutsStay(n, e)
  PROVE  BroadcastInv(n, e)'
<1>1. puts'["pch"][n][e] = puts["pch"][n][e] /\ puts'["cch"][n][e] = puts["cch"][n][e]
  BY DEF PutsStay, Channel
<1> QED
  BY <1>1, ProposalsCalm, CommitsCalm DEF BroadcastInv, Calm

\* Steps after which nobody is newly about to send.
LEMMA NobodyNew ==
  ASSUME \A d \in calls' : d.pc \in {"self", "put", "putlast"} => d \in calls, NEW n, NEW e
  PROVE  Calm(n, e)
  BY DEF Calm, Opening, Repeating, Announcing

\* A call that moves on is out of its old place, and only in its new one.
LEMMA GotoSets ==
  ASSUME NEW c \in calls, NEW d, calls' = (calls \ {c}) \cup {d},
         d.op = c.op, d.node = c.node, d.entry = c.entry, NEW n, NEW e
  PROVE  /\ n # c.node \/ e # c.entry => Calm(n, e)
         /\ Opening(n, e)' \subseteq (Opening(n, e) \ {c}) \cup {d}
         /\ Repeating(n, e)' \subseteq (Repeating(n, e) \ {c}) \cup {d}
         /\ Announcing(n, e)' \subseteq (Announcing(n, e) \ {c}) \cup {d}
         /\ d.op # "propose" \/ d.pc \notin {"self", "put"} =>
                Opening(n, e)' \subseteq Opening(n, e) \ {c}
         /\ d.op # "propose" \/ d.pc # "putlast" => Repeating(n, e)' \subseteq Repeating(n, e) \ {c}
         /\ d.op # "commit" \/ d.pc \notin {"put", "putlast"} =>
                Announcing(n, e)' \subseteq Announcing(n, e) \ {c}
<1>1. Opening(n, e)' = {x \in (calls \ {c}) \cup {d} : /\ x.op = "propose" /\ x.node = n
                                                       /\ x.entry = e /\ x.pc \in {"self", "put"}}
  BY DEF Opening
<1>2. Repeating(n, e)' = {x \in (calls \ {c}) \cup {d} : /\ x.op = "propose" /\ x.node = n
                                                         /\ x.entry = e /\ x.pc = "putlast"}
  BY DEF Repeating
<1>3. Announcing(n, e)' = {x \in (calls \ {c}) \cup {d} : /\ x.op = "commit" /\ x.node = n
                                                   /\ x.entry = e /\ x.pc \in {"put", "putlast"}}
  BY DEF Announcing
<1>4. /\ n # c.node \/ e # c.entry => Opening(n, e)' \subseteq Opening(n, e)
      /\ Opening(n, e)' \subseteq (Opening(n, e) \ {c}) \cup {d}
      /\ d.op # "propose" \/ d.pc \notin {"self", "put"} =>
             Opening(n, e)' \subseteq Opening(n, e) \ {c}
  BY <1>1 DEF Opening
<1>5. /\ n # c.node \/ e # c.entry => Repeating(n, e)' \subseteq Repeating(n, e)
      /\ Repeating(n, e)' \subseteq (Repeating(n, e) \ {c}) \cup {d}
      /\ d.op # "propose" \/ d.pc # "putlast" => Repeating(n, e)' \subseteq Repeating(n, e) \ {c}
  BY <1>2 DEF Repeating
<1>6. /\ n # c.node \/ e # c.entry => Announcing(n, e)' \subseteq Announcing(n, e)
      /\ Announcing(n, e)' \subseteq (Announcing(n, e) \ {c}) \cup {d}
      /\ d.op # "commit" \/ d.pc \notin {"put", "putlast"} =>
             Announcing(n, e)' \subseteq Announcing(n, e) \ {c}
  BY <1>3 DEF Announcing
<1> QED
  BY <1>4, <1>5, <1>6 DEF Calm

\* A ballot that has been found stays.
LEMMA HoldsBallotStep ==
  ASSUME Typed, HoldsBallot, \A n \in Node : tracked[n] \subseteq tracked'[n],
         \A d \in calls' : d \in calls \/ d.op # "propose" \/ d.pc \in {"start", "ballot", "heal"}
                           \/ d.entry \in tracked'[d.node]
  PROVE  HoldsBallot'
<1> SUFFICES ASSUME NEW d \in calls', d.op = "propose", d.pc \notin {"start", "ballot", "heal"}
             PROVE  d.entry \in tracked'[d.node]
  BY DEF HoldsBallot
<1>1. CASE d \in calls
  <2>1. d.node \in Node
    BY <1>1, CallType DEF Typed
  <2> QED
    BY <1>1, <2>1 DEF HoldsBallot
<1> QED
  BY <1>1

\* A step on which nobody is newly about to send.
LEMMA QuietStep ==
  ASSUME Typed, CountInv, UNCHANGED puts,
         \A n \in Node : tracked[n] \subseteq tracked'[n],
         \A n \in Node, e \in Entry : VotesStay(n, e),
         \A d \in calls' : \/ d \in calls \/ d.pc \in {"start", "ballot", "heal"}
                           \/ d.pc = "source" /\ (d.op = "propose" => d.entry \in tracked'[d.node])
  PROVE  CountInv'
<1>1. ASSUME NEW n \in Node, NEW e \in Entry PROVE BroadcastInv(n, e)'
  <2>1. Calm(n, e)
    BY NobodyNew
  <2>2. PutsStay(n, e)
    BY DEF PutsStay
  <2> QED
    BY <2>1, <2>2, CalmStep DEF CountInv
<1>2. HoldsBallot'
  <2>1. HoldsBallot
    BY DEF CountInv
  <2>2. \A n \in Node : tracked[n] \subseteq tracked'[n]
    OBVIOUS
  <2>3. \A x \in calls' : x \in calls \/ x.op # "propose" \/ x.pc \in {"start", "ballot", "heal"}
                         \/ x.entry \in tracked'[x.node]
    OBVIOUS
  <2> QED
    BY <2>1, <2>2, <2>3, HoldsBallotStep
<1> QED
  BY <1>1, <1>2 DEF CountInv

\* Only votes and sends concern the entry of the call.
LEMMA ElsewhereStep ==
  ASSUME Typed, CountInv, NEW c \in calls, NEW d, calls' = (calls \ {c}) \cup {d},
         d.op = c.op, d.node = c.node, d.entry = c.entry,
         \A n \in Node : tracked[n] \subseteq tracked'[n],
         \A n \in Node, e \in Entry : VotesStay(n, e),
         \A n \in Node, e \in Entry : n # c.node \/ e # c.entry => PutsStay(n, e),
         d.op # "propose" \/ d.pc \in {"start", "ballot", "heal"} \/ d.entry \in tracked'[d.node],
         BroadcastInv(c.node, c.entry)'
  PROVE  CountInv'
<1>1. ASSUME NEW n \in Node, NEW e \in Entry, n # c.node \/ e # c.entry PROVE BroadcastInv(n, e)'
  <2>1. Calm(n, e)
    BY <1>1, GotoSets
  <2> QED
    BY <1>1, <2>1, CalmStep DEF CountInv
<1>2. HoldsBallot'
  <2>1. HoldsBallot
    BY DEF CountInv
  <2>2. \A n \in Node : tracked[n] \subseteq tracked'[n]
    OBVIOUS
  <2>3. \A x \in calls' : x \in calls \/ x.op # "propose" \/ x.pc \in {"start", "ballot", "heal"}
                         \/ x.entry \in tracked'[x.node]
    OBVIOUS
  <2> QED
    BY <2>1, <2>2, <2>3, HoldsBallotStep
<1>3. \A n \in Node, e \in Entry : BroadcastInv(n, e)'
  BY <1>1
<1> QED
  BY <1>2, <1>3 DEF CountInv

\* What a vote does to the votes.
LEMMA ProposedStays ==
  ASSUME Typed, NEW c \in calls, NEW p \in Node, UNCHANGED <<tracked, committed>>,
         c.entry \in tracked[c.node],
         UNCHANGED proposed \/ proposed' = [proposed EXCEPT ![c.node][c.entry] = @ \cup {p}]
  PROVE  \A n \in Node, e \in Entry : VotesStay(n, e)
<1>0. c.node \in Node /\ c.entry \in Entry /\ proposed \in [Node -> [Entry -> SUBSET Node]]
  BY CallType DEF Typed, TypeOK
<1>1. CASE UNCHANGED proposed
  BY <1>1 DEF VotesStay
<1>2. CASE proposed' = [proposed EXCEPT ![c.node][c.entry] = @ \cup {p}]
  <2>1. \A m \in Node, x \in Entry : proposed'[m][x] =
            IF m = c.node /\ x = c.entry THEN proposed[c.node][c.entry] \cup {p} ELSE proposed[m][x]
    BY <1>0, <1>2, VoteType
  <2> QED
    BY <2>1 DEF VotesStay
<1> QED
  BY <1>1, <1>2

LEMMA CommittedStays ==
  ASSUME Typed, NEW c \in calls, NEW p \in Node, UNCHANGED <<tracked, proposed>>,
         UNCHANGED committed \/ committed' = [committed EXCEPT ![c.node][c.entry] = @ \cup {p}]
  PROVE  \A n \in Node, e \in Entry : VotesStay(n, e)
<1>0. c.node \in Node /\ c.entry \in Entry /\ committed \in [Node -> [Entry -> SUBSET Node]]
  BY CallType DEF Typed, TypeOK
<1>1. CASE UNCHANGED committed
  BY <1>1 DEF VotesStay
<1>2. CASE committed' = [committed EXCEPT ![c.node][c.entry] = @ \cup {p}]
  <2>1. \A m \in Node, x \in Entry : committed'[m][x] =
            IF m = c.node /\ x = c.entry THEN committed[c.node][c.entry] \cup {p} ELSE committed[m][x]
    BY <1>0, <1>2, VoteType
  <2> QED
    BY <2>1 DEF VotesStay
<1> QED
  BY <1>1, <1>2

\* A call that only comes back, or goes on to the vote of the source.
LEMMA BackStep ==
  ASSUME Typed, CountInv, NEW c \in calls, UNCHANGED puts,
         \A n \in Node : tracked[n] \subseteq tracked'[n],
         \A n \in Node, e \in Entry : VotesStay(n, e),
         \/ \E ok \in BOOLEAN : Return(c, ok)
         \/ Goto(c, "heal") \/ Goto(c, "ballot")
         \/ Goto(c, "source") /\ (c.op = "propose" => c.entry \in tracked'[c.node])
  PROVE  CountInv'
<1> DEFINE InPlace(d) == \/ d.pc \in {"start", "ballot", "heal"}
                         \/ d.pc = "source" /\ (d.op = "propose" => d.entry \in tracked'[d.node])
<1>1. \A d \in calls' : d \in calls \/ InPlace(d)
  <2>1. CASE \E ok \in BOOLEAN : Return(c, ok)
    BY <2>1 DEF Return
  <2>2. ASSUME NEW pc \in {"heal", "ballot", "source"}, Goto(c, pc),
               pc # "source" \/ (c.op = "propose" => c.entry \in tracked'[c.node])
        PROVE  \A d \in calls' : d \in calls \/ InPlace(d)
    <3>1. PICK x : /\ calls' = (calls \ {c}) \cup {x} /\ x.pc = pc
                   /\ x.op = c.op /\ x.node = c.node /\ x.entry = c.entry
      BY <2>2, GotoType DEF Typed
    <3>2. InPlace(x)
      BY <2>2, <3>1
    <3> HIDE DEF InPlace
    <3> QED
      BY <3>1, <3>2
  <2> QED
    BY <2>1, <2>2
<1> QED
  BY <1>1, QuietStep

\* The first look at the log tells nobody.
LEMMA ProposeStartCounts ==
  ASSUME Typed, CountInv, NEW c \in calls, ProposeStart(c)
  PROVE  CountInv'
<1>1. UNCHANGED <<tracked, proposed, committed, puts>> /\ (Goto(c, "heal") \/ Goto(c, "ballot"))
  BY DEF ProposeStart, ballots
<1>2. \A n \in Node, e \in Entry : VotesStay(n, e)
  BY <1>1 DEF VotesStay
<1> QED
  BY <1>1, <1>2, BackStep

\* The ballot is opened by one call only.
LEMMA ProposeBallotCounts ==
  ASSUME Typed, CountInv, NEW c \in calls, ProposeBallot(c)
  PROVE  CountInv'
<1>0. /\ c.node \in Node /\ c.entry \in Entry /\ c.op = "propose"
      /\ tracked \in [Node -> SUBSET Entry]
      /\ UNCHANGED <<proposed, committed, puts>>
  BY CallType DEF Typed, TypeOK, ProposeBallot
<1>1. CASE Goto(c, "source") /\ c.entry \in tracked[c.node]
  <2>1. UNCHANGED tracked
    BY <1>0, <1>1 DEF ProposeBallot
  <2>2. \A n \in Node, e \in Entry : VotesStay(n, e)
    BY <1>0, <2>1 DEF VotesStay
  <2> QED
    BY <1>0, <1>1, <2>1, <2>2, BackStep
<1>2. CASE /\ c.entry \notin tracked[c.node]
           /\ Goto(c, "source") \/ Goto(c, "self")
           /\ tracked' = [tracked EXCEPT ![c.node] = @ \cup {c.entry}]
  <2>1. /\ \A n \in Node : tracked[n] \subseteq tracked'[n]
        /\ \A n \in Node, e \in Entry : VotesStay(n, e)
        /\ c.entry \in tracked'[c.node]
    BY <1>0, <1>2 DEF VotesStay
  <2>2. CASE Goto(c, "source")
    BY <1>0, <2>1, <2>2, BackStep
  <2>3. CASE Goto(c, "self")
    <3>1. PICK d : /\ calls' = (calls \ {c}) \cup {d} /\ d.pc = "self"
                   /\ d.op = c.op /\ d.node = c.node /\ d.entry = c.entry
      BY <2>3, GotoType DEF Typed
    <3> DEFINE n == c.node
               e == c.entry
    <3>2. ProposalsCounted(n, e) /\ CommitsCounted(n, e)
      BY <1>0 DEF CountInv, BroadcastInv
    <3>3. /\ Opening(n, e) = {} /\ proposed[n][e] = {}
          /\ puts["pch"][n][e] = 0 /\ Repeating(n, e) = {}
      BY <1>0, <1>2, <3>2 DEF ProposalsCounted
    <3>4. /\ Opening(n, e)' \subseteq {d} /\ Repeating(n, e)' \subseteq Repeating(n, e)
          /\ Announcing(n, e)' \subseteq Announcing(n, e)
      BY <1>0, <3>1, <3>3, GotoSets
    <3>5. puts'["pch"][n][e] = 0 /\ Repeating(n, e)' = {}
      BY <1>0, <3>3, <3>4
    <3>6. puts'["pch"][n][e] + Flag(Opening(n, e))' + Flag(Repeating(n, e))' <= 2
      BY <3>5 DEF Flag
    <3>7. ProposalsCounted(n, e)'
      BY <2>1, <3>1, <3>4, <3>5, <3>6 DEF ProposalsCounted
    <3>8. BroadcastInv(n, e)'
      BY <1>0, <2>1, <3>2, <3>4, <3>7, CommitsCalm DEF BroadcastInv
    <3>9. \A m \in Node, x \in Entry : m # c.node \/ x # c.entry => PutsStay(m, x)
      BY <1>0 DEF PutsStay
    <3> QED
      BY <2>1, <3>1, <3>8, <3>9, ElsewhereStep
  <2> QED
    BY <1>2, <2>2, <2>3
<1> QED
  BY <1>1, <1>2 DEF ProposeBallot

\* The call that opened the ballot is the one that sends for the vote of the node itself.
LEMMA ProposeSelfCounts ==
  ASSUME Typed, CountInv, NEW c \in calls, ProposeSelf(c)
  PROVE  CountInv'
<1>0. /\ c.node \in Node /\ c.entry \in Entry /\ c.op = "propose" /\ c.pc = "self"
      /\ UNCHANGED <<tracked, committed, puts>> /\ c.entry \in tracked[c.node]
      /\ proposed \in [Node -> [Entry -> SUBSET Node]]
  BY CallType DEF Typed, TypeOK, ProposeSelf, CountInv, HoldsBallot
<1>1. \A n \in Node, e \in Entry : VotesStay(n, e)
  <2>1. UNCHANGED proposed \/ proposed' = [proposed EXCEPT ![c.node][c.entry] = @ \cup {c.node}]
    BY DEF ProposeSelf
  <2> QED
    BY <1>0, <2>1, ProposedStays
<1>2. CASE Goto(c, "source")
  BY <1>0, <1>1, <1>2, BackStep
<1>3. CASE /\ proposed' = [proposed EXCEPT ![c.node][c.entry] = @ \cup {c.node}]
           /\ Goto(c, "put")
  <2>1. PICK d : /\ calls' = (calls \ {c}) \cup {d} /\ d.pc = "put"
                 /\ d.op = c.op /\ d.node = c.node /\ d.entry = c.entry
    BY <1>3, GotoType DEF Typed
  <2> DEFINE n == c.node
             e == c.entry
  <2>2. ProposalsCounted(n, e) /\ CommitsCounted(n, e)
    BY <1>0 DEF CountInv, BroadcastInv
  <2>3. c \in Opening(n, e)
    BY <1>0 DEF Opening
  <2>4. Opening(n, e) = {c}
    BY <2>2, <2>3 DEF ProposalsCounted
  <2>5. /\ Opening(n, e)' \subseteq {d} /\ Repeating(n, e)' \subseteq Repeating(n, e)
        /\ Announcing(n, e)' \subseteq Announcing(n, e)
    BY <1>0, <2>1, <2>4, GotoSets
  <2>6. proposed'[n][e] # {}
    BY <1>0, <1>3
  <2>7. puts'["pch"][n][e] + Flag(Opening(n, e))' + Flag(Repeating(n, e))' <= 2
    <3>1. puts["pch"][n][e] + Flag(Opening(n, e)) + Flag(Repeating(n, e)) <= 2
      BY <2>2 DEF ProposalsCounted
    <3>2. Flag(Opening(n, e)) = 1 /\ Flag(Repeating(n, e)) \in 0..1
      BY <2>3 DEF Flag
    <3>3. /\ Flag(Opening(n, e))' \in 0..1 /\ Flag(Repeating(n, e))' \in 0..1
          /\ Flag(Repeating(n, e))' <= Flag(Repeating(n, e))
      BY <2>5 DEF Flag
    <3>4. puts["pch"][n][e] \in Nat /\ puts' = puts
      BY <1>0 DEF Typed, TypeOK, Channel
    <3> HIDE DEF Flag
    <3> QED
      BY <3>1, <3>2, <3>3, <3>4
  <2>8. ProposalsCounted(n, e)'
    BY <1>0, <2>2, <2>5, <2>6, <2>7 DEF ProposalsCounted
  <2>9. BroadcastInv(n, e)'
    BY <1>0, <1>1, <2>2, <2>5, <2>8, CommitsCalm DEF BroadcastInv
  <2>10. \A m \in Node, x \in Entry : m # c.node \/ x # c.entry => PutsStay(m, x)
    BY <1>0 DEF PutsStay
  <2> QED
    BY <1>0, <1>1, <2>1, <2>9, <2>10, ElsewhereStep
<1> QED
  BY <1>2, <1>3 DEF ProposeSelf

\* The first vote of a ballot is one of a source before the one of the node itself, or
\* the other way round: one call of each.
LEMMA ProposeSourceCounts ==
  ASSUME Typed, CountInv, NEW c \in calls, ProposeSource(c)
  PROVE  CountInv'
<1>0. /\ c.node \in Node /\ c.src \in Node /\ c.entry \in Entry /\ c.op = "propose"
      /\ UNCHANGED <<tracked, committed, puts>> /\ c.pc = "source"
      /\ proposed \in [Node -> [Entry -> SUBSET Node]]
  BY CallType DEF Typed, TypeOK, ProposeSource
<1>1. c.entry \in tracked[c.node]
  BY DEF ProposeSource, CountInv, HoldsBallot
<1>2. \A n \in Node, e \in Entry : VotesStay(n, e)
  <2>1. UNCHANGED proposed \/ proposed' = [proposed EXCEPT ![c.node][c.entry] = @ \cup {c.src}]
    BY DEF ProposeSource
  <2> QED
    BY <1>0, <1>1, <2>1, ProposedStays
<1>3. CASE \E ok \in BOOLEAN : Return(c, ok)
  BY <1>0, <1>2, <1>3, BackStep
<1>4. CASE /\ proposed[c.node][c.entry] = {} /\ Goto(c, "putlast")
           /\ proposed' = [proposed EXCEPT ![c.node][c.entry] = @ \cup {c.src}]
  <2>1. PICK d : /\ calls' = (calls \ {c}) \cup {d} /\ d.pc = "putlast"
                 /\ d.op = c.op /\ d.node = c.node /\ d.entry = c.entry
    BY <1>4, GotoType DEF Typed
  <2> DEFINE n == c.node
             e == c.entry
  <2>2. ProposalsCounted(n, e) /\ CommitsCounted(n, e)
    BY <1>0 DEF CountInv, BroadcastInv
  <2>3. puts["pch"][n][e] = 0 /\ Repeating(n, e) = {}
    BY <1>4, <2>2 DEF ProposalsCounted
  <2>4. /\ Opening(n, e)' \subseteq Opening(n, e) /\ Repeating(n, e)' \subseteq {d}
        /\ Announcing(n, e)' \subseteq Announcing(n, e)
    BY <1>0, <2>1, <2>3, GotoSets
  <2>5. proposed'[n][e] # {}
    BY <1>0, <1>4
  <2>6. puts'["pch"][n][e] + Flag(Opening(n, e))' + Flag(Repeating(n, e))' <= 2
    BY <1>0, <2>3 DEF Flag
  <2>7. ProposalsCounted(n, e)'
    BY <1>0, <1>1, <2>2, <2>4, <2>5, <2>6 DEF ProposalsCounted
  <2>8. BroadcastInv(n, e)'
    BY <1>0, <1>2, <2>2, <2>4, <2>7, CommitsCalm DEF BroadcastInv
  <2>9. \A m \in Node, x \in Entry : m # c.node \/ x # c.entry => PutsStay(m, x)
    BY <1>0 DEF PutsStay
  <2> QED
    BY <1>0, <1>1, <1>2, <2>1, <2>8, <2>9, ElsewhereStep
<1> QED
  BY <1>3, <1>4 DEF ProposeSource

\* The first vote of a commit is one of one call.
LEMMA CommitCounts ==
  ASSUME Typed, CountInv, NEW c \in calls, CommitSelf(c) \/ CommitSource(c)
  PROVE  CountInv'
<1>0. /\ c.node \in Node /\ c.src \in Node /\ c.entry \in Entry /\ c.op = "commit"
      /\ UNCHANGED <<tracked, proposed, puts>> /\ c.pc \in {"source", "start"}
      /\ committed \in [Node -> [Entry -> SUBSET Node]]
  BY CallType DEF Typed, TypeOK, CommitSelf, CommitSource
<1>1. PICK voter \in Node, isLast \in BOOLEAN : CommitVote(c, voter, isLast)
  BY <1>0 DEF CommitSelf, CommitSource
<1>2. \A n \in Node, e \in Entry : VotesStay(n, e)
  <2>1. committed' = committed \/ committed' = [committed EXCEPT ![c.node][c.entry] = @ \cup {voter}]
    BY <1>1, CommitVoteFacts
  <2> QED
    BY <1>0, <2>1, CommittedStays
<1>3. CASE (\E ok \in BOOLEAN : Return(c, ok)) \/ Goto(c, "source")
  BY <1>0, <1>2, <1>3, BackStep
<1>4. CASE /\ committed[c.node][c.entry] = {}
           /\ Goto(c, "put") \/ Goto(c, "putlast")
           /\ committed' = [committed EXCEPT ![c.node][c.entry] = @ \cup {voter}]
  <2>0. PICK pc \in {"put", "putlast"} : Goto(c, pc)
    BY <1>4
  <2>1. PICK d : /\ calls' = (calls \ {c}) \cup {d} /\ d.pc = pc
                 /\ d.op = c.op /\ d.node = c.node /\ d.entry = c.entry
    BY <2>0, GotoType DEF Typed
  <2> DEFINE n == c.node
             e == c.entry
  <2>2. ProposalsCounted(n, e) /\ CommitsCounted(n, e)
    BY <1>0 DEF CountInv, BroadcastInv
  <2>3. puts["cch"][n][e] = 0 /\ Announcing(n, e) = {}
    BY <1>4, <2>2 DEF CommitsCounted
  <2>4. /\ Opening(n, e)' \subseteq Opening(n, e) /\ Repeating(n, e)' \subseteq Repeating(n, e)
        /\ Announcing(n, e)' \subseteq {d}
    BY <1>0, <2>1, <2>3, GotoSets
  <2>5. committed'[n][e] # {}
    BY <1>0, <1>4
  <2>6. puts'["cch"][n][e] + Flag(Announcing(n, e))' <= 1
    BY <1>0, <2>3 DEF Flag
  <2>7. CommitsCounted(n, e)'
    BY <2>4, <2>5, <2>6 DEF CommitsCounted
  <2>8. BroadcastInv(n, e)'
    BY <1>0, <1>2, <2>2, <2>4, <2>7, ProposalsCalm DEF BroadcastInv
  <2>9. \A m \in Node, x \in Entry : m # c.node \/ x # c.entry => PutsStay(m, x)
    BY <1>0 DEF PutsStay
  <2> QED
    BY <1>0, <1>2, <2>1, <2>8, <2>9, ElsewhereStep
<1> QED
  BY <1>1, <1>3, <1>4, CommitVoteFacts

\* A call that has sent is not about to send.
LEMMA PutCounts ==
  ASSUME Typed, CountInv, NEW c \in calls, Put(c)
  PROVE  CountInv'
<1>0. /\ c.node \in Node /\ c.entry \in Entry /\ c.op \in {"propose", "commit"}
      /\ c.pc \in {"put", "putlast", "heal"}
      /\ UNCHANGED <<tracked, proposed, committed>>
  BY CallType DEF Typed, Put, ballots
<1>1. \A n \in Node, e \in Entry : VotesStay(n, e)
  BY <1>0 DEF VotesStay
<1>2. \A d \in calls' : \/ d \in calls /\ d # c
                        \/ d.pc = "source" /\ (d.op = "propose" => d.entry \in tracked[d.node])
  <2>1. CASE c.pc = "put" /\ Goto(c, "source")
    <3>1. PICK x : /\ calls' = (calls \ {c}) \cup {x} /\ x.pc = "source"
                   /\ x.op = c.op /\ x.node = c.node /\ x.entry = c.entry
      BY <2>1, GotoType DEF Typed
    <3>2. c.op = "propose" => c.entry \in tracked[c.node]
      BY <2>1 DEF CountInv, HoldsBallot
    <3> QED
      BY <3>1, <3>2
  <2>2. CASE \E ok \in BOOLEAN : Return(c, ok)
    BY <2>2 DEF Return
  <2> QED
    BY <2>1, <2>2 DEF Put
<1>3. \A n \in Node, e \in Entry : /\ Opening(n, e)' \subseteq Opening(n, e) \ {c}
                                   /\ Repeating(n, e)' \subseteq Repeating(n, e) \ {c}
                                   /\ Announcing(n, e)' \subseteq Announcing(n, e) \ {c}
  BY <1>2 DEF Opening, Repeating, Announcing
<1>4. \A ch \in Channel, n \in Node, e \in Entry :
          puts'[ch][n][e] = IF ch = Target(c) /\ n = c.node /\ e = c.entry
                            THEN puts[ch][n][e] + 1 ELSE puts[ch][n][e]
  BY PutFacts DEF Typed
<1>5. "pch" \in Channel /\ "cch" \in Channel
  BY DEF Channel
<1>6. ASSUME NEW n \in Node, NEW e \in Entry PROVE ProposalsCounted(n, e)'
  <2>1. ProposalsCounted(n, e)
    BY DEF CountInv, BroadcastInv
  <2>2. CASE Target(c) # "pch" \/ n # c.node \/ e # c.entry
    <3>1. puts'["pch"][n][e] = puts["pch"][n][e]
      BY <1>4, <1>5, <2>2
    <3> QED
      BY <1>1, <1>3, <2>1, <3>1, ProposalsCalm
  <2>3. CASE Target(c) = "pch" /\ n = c.node /\ e = c.entry
    <3>1. c.op = "propose" /\ c.pc \in {"put", "putlast"}
      BY <1>0, <2>3 DEF Target
    <3>2. puts'["pch"][n][e] = puts["pch"][n][e] + 1 /\ puts["pch"][n][e] \in Nat
      BY <1>4, <1>5, <2>3 DEF Typed, TypeOK
    <3>3. \/ c \in Opening(n, e) /\ Opening(n, e)' = {}
          \/ c \in Repeating(n, e) /\ Repeating(n, e)' = {}
      BY <1>3, <2>1, <2>3, <3>1 DEF Opening, Repeating, ProposalsCounted
    <3>4. puts'["pch"][n][e] + Flag(Opening(n, e))' + Flag(Repeating(n, e))' <= 2
      <4>1. puts["pch"][n][e] + Flag(Opening(n, e)) + Flag(Repeating(n, e)) <= 2
        BY <2>1 DEF ProposalsCounted
      <4>2. /\ Flag(Opening(n, e)) \in 0..1 /\ Flag(Repeating(n, e)) \in 0..1
            /\ Flag(Opening(n, e))' \in 0..1 /\ Flag(Repeating(n, e))' \in 0..1
            /\ Flag(Opening(n, e))' <= Flag(Opening(n, e))
            /\ Flag(Repeating(n, e))' <= Flag(Repeating(n, e))
        BY <1>3 DEF Flag
      <4>3. \/ Flag(Opening(n, e)) = 1 /\ Flag(Opening(n, e))' = 0
            \/ Flag(Repeating(n, e)) = 1 /\ Flag(Repeating(n, e))' = 0
        BY <3>3 DEF Flag
      <4> HIDE DEF Flag
      <4> QED
        BY <3>2, <4>1, <4>2, <4>3
    <3>5. proposed[n][e] # {}
      BY <2>1, <2>3, <3>1, <3>3 DEF ProposalsCounted
    <3>6. /\ \A x, y \in Opening(n, e)' : x = y
          /\ \A x, y \in Repeating(n, e)' : x = y
          /\ e \notin tracked'[n] => Opening(n, e)' = {} /\ proposed'[n][e] = {}
      BY <1>0, <1>3, <2>1 DEF ProposalsCounted
    <3> QED
      BY <1>0, <3>4, <3>5, <3>6 DEF ProposalsCounted
  <2> QED
    BY <2>2, <2>3
<1>7. ASSUME NEW n \in Node, NEW e \in Entry PROVE CommitsCounted(n, e)'
  <2>1. CommitsCounted(n, e)
    BY DEF CountInv, BroadcastInv
  <2>2. CASE Target(c) # "cch" \/ n # c.node \/ e # c.entry
    <3>1. puts'["cch"][n][e] = puts["cch"][n][e]
      BY <1>4, <1>5, <2>2
    <3> QED
      BY <1>1, <1>3, <2>1, <3>1, CommitsCalm
  <2>3. CASE Target(c) = "cch" /\ n = c.node /\ e = c.entry
    <3>1. c.op = "commit" /\ c.pc \in {"put", "putlast"}
      BY <1>0, <2>3 DEF Target
    <3>2. puts'["cch"][n][e] = puts["cch"][n][e] + 1 /\ puts["cch"][n][e] \in Nat
      BY <1>4, <1>5, <2>3 DEF Typed, TypeOK
    <3>3. c \in Announcing(n, e) /\ Announcing(n, e)' = {}
      BY <1>3, <2>1, <2>3, <3>1 DEF Announcing, CommitsCounted
    <3>4. puts'["cch"][n][e] + Flag(Announcing(n, e))' <= 1
      <4>1. puts["cch"][n][e] + Flag(Announcing(n, e)) <= 1
        BY <2>1 DEF CommitsCounted
      <4>2. Flag(Announcing(n, e)) = 1 /\ Flag(Announcing(n, e))' = 0
        BY <3>3 DEF Flag
      <4> HIDE DEF Flag
      <4> QED
        BY <3>2, <4>1, <4>2
    <3>5. committed[n][e] # {}
      BY <2>1, <3>3 DEF CommitsCounted
    <3> QED
      BY <1>0, <3>3, <3>4, <3>5 DEF CommitsCounted
  <2> QED
    BY <2>2, <2>3
<1>8. HoldsBallot'
  <2>1. HoldsBallot
    BY DEF CountInv
  <2> QED
    BY <1>0, <1>2, <2>1, HoldsBallotStep
<1> QED
  BY <1>6, <1>7, <1>8 DEF CountInv, BroadcastInv

\* New calls are at their start, and those of a process that has ended are gone.
LEMMA OtherCounts ==
  ASSUME Typed, CountInv, UNCHANGED <<tracked, proposed, committed, puts>>,
         \A d \in calls' : d \in calls \/ d.pc = "start"
  PROVE  CountInv'
<1>1. \A n \in Node, e \in Entry : VotesStay(n, e)
  BY DEF VotesStay
<1> QED
  BY <1>1, QuietStep

LEMMA CountStep ==
  ASSUME Typed, CountInv, [Next]_vars
  PROVE  CountInv'
<1>1. CASE UNCHANGED vars
  BY <1>1, OtherCounts DEF vars
<1>2. ASSUME NEW c \in calls, Panic(c) PROVE CountInv'
  <2>1. UNCHANGED <<tracked, proposed, committed, puts>> /\ calls' \subseteq calls
    BY <1>2 DEF Panic, ballots
  <2> QED
    BY <2>1, OtherCounts
<1>3. ASSUME NEW n \in Node, (\E ch \in Channel : TaskStep(ch, n)) \/ LocalCommit(n) \/ Healed(n)
      PROVE  CountInv'
  <2>1. UNCHANGED <<tracked, proposed, committed, puts>>
    BY <1>3 DEF TaskStep, Take, Fail, LocalCommit, Healed, ballots
  <2>2. \A d \in calls' : d \in calls \/ d.pc = "start"
    <3>1. ASSUME NEW ch \in Channel, Take(ch, n)
          PROVE  \A d \in calls' : d \in calls \/ d.pc = "start"
      BY <3>1 DEF Take
    <3>2. LocalCommit(n) => \A d \in calls' : d \in calls \/ d.pc = "start"
      BY DEF LocalCommit
    <3> QED
      BY <1>3, <3>1, <3>2 DEF TaskStep, Fail, Healed
  <2> QED
    BY <2>1, <2>2, OtherCounts
<1>4. ASSUME NEW n \in Node, Shutdown(n) \/ QuitStep(n) PROVE CountInv'
  <2>1. UNCHANGED <<tracked, proposed, committed, puts, calls>>
    BY <1>4 DEF Shutdown, QuitStep, CloseNext, ShutdownReturns, Exit, ballots
  <2> QED
    BY <2>1, OtherCounts
<1>5. ASSUME NEW n \in Node, NEW e \in Entry, ClientPropose(n, e) \/ Timeout(n, e) PROVE CountInv'
  <2>1. /\ UNCHANGED <<tracked, proposed, committed, puts>>
        /\ \A d \in calls' : d \in calls \/ d.pc = "start"
    BY <1>5 DEF ClientPropose, Timeout, ballots
  <2> QED
    BY <2>1, OtherCounts
<1>6. ASSUME NEW c \in calls, CallStep(c) PROVE CountInv'
  BY <1>2, <1>6, ProposeStartCounts, ProposeBallotCounts, ProposeSelfCounts, ProposeSourceCounts, CommitCounts, PutCounts
     DEF CallStep
<1> QED
  BY <1>1, <1>3, <1>4, <1>5, <1>6 DEF Next, Step

\* However the votes come in, a node sends a proposal to its peers at most twice and the
\* commit at most once.
THEOREM FewSends == Spec => []FewBroadcasts
<1>1. Init => CountInv
  <2> SUFFICES ASSUME Init PROVE CountInv
    OBVIOUS
  <2>1. calls = {} /\ HoldsBallot
    BY DEF Init, HoldsBallot
  <2>2. ASSUME NEW n \in Node, NEW e \in Entry PROVE BroadcastInv(n, e)
    <3>1. Opening(n, e) = {} /\ Repeating(n, e) = {} /\ Announcing(n, e) = {}
      BY <2>1 DEF Opening, Repeating, Announcing
    <3>2. /\ tracked[n] = {} /\ proposed[n][e] = {} /\ committed[n][e] = {}
          /\ puts["pch"][n][e] = 0 /\ puts["cch"][n][e] = 0
      BY DEF Init, Channel
    <3> QED
      BY <3>1, <3>2 DEF BroadcastInv, ProposalsCounted, CommitsCounted, Flag
  <2> QED
    BY <2>1, <2>2 DEF CountInv
<1>2. Typed /\ CountInv /\ [Next]_vars => CountInv'
  BY CountStep
<1>3. Typed /\ CountInv => FewBroadcasts
  <2> SUFFICES ASSUME Typed, CountInv, NEW n \in Node, NEW e \in Entry
               PROVE  puts["pch"][n][e] <= 2 /\ puts["cch"][n][e] <= 1
    BY DEF FewBroadcasts
  <2>1. /\ puts["pch"][n][e] + Flag(Opening(n, e)) + Flag(Repeating(n, e)) <= 2
        /\ puts["cch"][n][e] + Flag(Announcing(n, e)) <= 1
    BY DEF CountInv, BroadcastInv, ProposalsCounted, CommitsCounted
  <2>2. puts["pch"][n][e] \in Nat /\ puts["cch"][n][e] \in Nat
    BY DEF Typed, TypeOK, Channel
  <2>3. /\ Flag(Opening(n, e)) \in 0..1 /\ Flag(Repeating(n, e)) \in 0..1
        /\ Flag(Announcing(n, e)) \in 0..1
    BY DEF Flag
  <2> HIDE DEF Flag
  <2> QED
    BY <2>1, <2>2, <2>3
<1>4. Spec => []Typed
  BY TypedInvariance
<1> QED
  BY <1>1, <1>2, <1>3, <1>4, PTL DEF Spec

-----------------------------------------------------------------------------
(* Nobody is stuck.                                                        *)

\* A call runs on a live node, for an entry that somebody proposes, and for the client or
\* the broadcaster that would make it.
GoodCall(c) ==
    /\ c.node \notin down /\ load.peers[c.entry] # {}
    /\ c.op = "commit" => c.pc \in {"start", "put", "source", "putlast"}
    /\ c.by # "hch" /\ (c.by = "cch" => c.op = "commit")
    /\ c.by # "client" /\ c.op = "propose" => c.node # c.src
CallsGood == IsFiniteSet(calls) /\ \A c \in calls : GoodCall(c)

\* The calls whose answer the goroutine of ch on n expects from m.
Asked(ch, n, m) == {c \in calls : c.by = ch /\ c.src = n /\ c.node = m /\ c.k = task[ch][n].k}

\* A goroutine is as its channel has it; for each answer it waits for, a call runs.
GoodTask(ch, n) ==
    /\ task[ch][n].k = 0 \/ n \in down => task[ch][n].pc = "idle"
    /\ task[ch][n].pc # "idle" => load.peers[task[ch][n].entry] # {}
    /\ ch = "hch" => task[ch][n].pc \in {"idle", "heal"}
    /\ ch # "hch" => task[ch][n].pc # "heal"
    /\ task[ch][n].pc = "commit" => ch = "pch"
    /\ task[ch][n].pc = "wait" => task[ch][n].waiting # {} /\ n \notin task[ch][n].waiting
    /\ \A m \in task[ch][n].waiting : Asked(ch, n, m) # {}
TasksGood == \A ch \in Channel, n \in Node : GoodTask(ch, n)

QueuesGood == \A ch \in Channel, n \in Node : \A i \in 1..Len(queue[ch][n]) :
                  load.peers[queue[ch][n][i]] # {}

WaitInv == CallsGood /\ TasksGood /\ QueuesGood

\* What is left alone stays good, and more calls answer no fewer goroutines.
LEMMA SameGood ==
  ASSUME WaitInv, load' = load, down' = down, \A c \in calls : c \in calls'
  PROVE  /\ UNCHANGED queue => QueuesGood'
         /\ UNCHANGED calls => CallsGood'
         /\ \A ch \in Channel, n \in Node : task'[ch][n] = task[ch][n] => GoodTask(ch, n)'
<1>1. UNCHANGED queue => QueuesGood'
  BY DEF WaitInv, QueuesGood
<1>2. UNCHANGED calls => CallsGood'
  BY DEF WaitInv, CallsGood, GoodCall
<1>3. ASSUME NEW ch \in Channel, NEW n \in Node, task'[ch][n] = task[ch][n]
      PROVE  GoodTask(ch, n)'
  <2>1. \A m : Asked(ch, n, m) \subseteq Asked(ch, n, m)'
    BY <1>3 DEF Asked
  <2>2. GoodTask(ch, n)
    BY DEF WaitInv, TasksGood
  <2>3. \A m \in task[ch][n].waiting : Asked(ch, n, m)' # {}
    BY <2>1, <2>2 DEF GoodTask
  <2> QED
    BY <1>3, <2>2, <2>3 DEF GoodTask
<1> QED
  BY <1>1, <1>2, <1>3

\* A call that moves on still answers whom it answered.
LEMMA GotoGood ==
  ASSUME Typed, WaitInv, NEW c \in calls, UNCHANGED <<task, load, down>>,
         NEW pc \in {"start", "ballot", "self", "put", "source", "putlast", "heal"}, Goto(c, pc),
         c.op = "commit" => pc \in {"start", "put", "source", "putlast"}
  PROVE  CallsGood' /\ TasksGood'
<1> DEFINE d == [c EXCEPT !.pc = pc]
<1>1. c \in Call
  BY CallType DEF Typed
<1>2. /\ d.pc = pc /\ d.op = c.op /\ d.node = c.node /\ d.entry = c.entry
      /\ d.src = c.src /\ d.by = c.by /\ d.k = c.k
  BY <1>1 DEF Call
<1>3. calls' = (calls \ {c}) \cup {d}
  BY DEF Goto
<1> HIDE DEF d
<1>4. CallsGood'
  <2>1. IsFiniteSet(calls')
    BY <1>3, FS_AddElement, FS_RemoveElement DEF WaitInv, CallsGood
  <2>2. \A x \in calls : GoodCall(x)
    BY DEF WaitInv, CallsGood
  <2>3. \A x \in calls : GoodCall(x)'
    BY <2>2 DEF GoodCall
  <2>4. GoodCall(d)'
    BY <1>2, <2>3 DEF GoodCall
  <2> QED
    BY <1>3, <2>1, <2>3, <2>4 DEF CallsGood
<1>5. ASSUME NEW ch \in Channel, NEW n \in Node PROVE GoodTask(ch, n)'
  <2>1. GoodTask(ch, n)
    BY DEF WaitInv, TasksGood
  <2>2. ASSUME NEW m \in task[ch][n].waiting PROVE Asked(ch, n, m)' # {}
    <3>1. PICK x \in Asked(ch, n, m) : TRUE
      BY <2>1 DEF GoodTask
    <3>2. CASE x = c
      BY <1>2, <1>3, <3>1, <3>2 DEF Asked
    <3>3. CASE x # c
      BY <1>3, <3>1, <3>3 DEF Asked
    <3> QED
      BY <3>2, <3>3
  <2> QED
    BY <2>1, <2>2 DEF GoodTask
<1> QED
  BY <1>4, <1>5 DEF TasksGood

\* An answer that a broadcaster waits for is taken off what it waits for.
LEMMA AnswerGood ==
  ASSUME NEW t \in Task, NEW c, NEW ok \in BOOLEAN, t.pc \in {"wait", "commit"},
         NEW u, u = Answered(t, c, ok)
  PROVE  /\ u.k = t.k /\ u.entry = t.entry /\ u.pc \notin {"heal"}
         /\ u.waiting \subseteq t.waiting \ {c.node}
         /\ u.pc = "commit" => t.pc = "commit" \/ c.op = "propose"
         /\ u.pc = "wait" => u.waiting # {} /\ t.pc = "wait"
  BY DEF Task, Answered

LEMMA ReturnGood ==
  ASSUME Typed, WaitInv, NEW c \in calls, UNCHANGED <<load, down>>, NEW ok \in BOOLEAN,
         Return(c, ok)
  PROVE  CallsGood' /\ TasksGood'
<1>0. calls' = calls \ {c}
  BY DEF Return
<1>1. CallsGood'
  <2>1. IsFiniteSet(calls')
    BY <1>0, FS_RemoveElement DEF WaitInv, CallsGood
  <2> QED
    BY <1>0, <2>1 DEF WaitInv, CallsGood, GoodCall
<1>2. ASSUME NEW ch \in Channel, NEW n \in Node PROVE GoodTask(ch, n)'
  <2>1. /\ GoodTask(ch, n) /\ task[ch][n] \in Task
        /\ task[ch][n].pc \in {"idle", "failed", "heal"} => task[ch][n].waiting = {}
        /\ task \in [Channel -> [Node -> Task]]
    BY DEF WaitInv, TasksGood, Typed, TypeOK, TaskInv
  <2>2. CASE Awaited(c) /\ ch = c.by /\ n = c.src
    <3> DEFINE t == task[ch][n]
               u == Answered(t, c, ok)
    <3>1. task'[ch][n] = u
      BY <2>1, <2>2 DEF Return
    <3>2. t.pc \in {"wait", "commit"}
      BY <2>1, <2>2 DEF Awaited, Task
    <3>3. /\ u.k = t.k /\ u.entry = t.entry /\ u.pc \notin {"heal"}
          /\ u.waiting \subseteq t.waiting \ {c.node}
          /\ u.pc = "commit" => t.pc = "commit" \/ c.op = "propose"
          /\ u.pc = "wait" => u.waiting # {} /\ t.pc = "wait"
      BY <2>1, <3>2, AnswerGood
    <3> HIDE DEF u
    <3>4. ch # "hch" /\ (ch = "cch" => c.op = "commit")
      BY <2>2 DEF WaitInv, CallsGood, GoodCall
    <3>5. u.pc = "commit" => ch = "pch"
      BY <2>1, <3>3, <3>4 DEF GoodTask, Channel
    <3>6. ASSUME NEW m \in u.waiting PROVE Asked(ch, n, m)' # {}
      <4>1. m \in t.waiting /\ m # c.node
        BY <3>3
      <4>2. PICK x \in Asked(ch, n, m) : TRUE
        BY <2>1, <4>1 DEF GoodTask
      <4>3. x \in calls' /\ x.by = ch /\ x.src = n /\ x.node = m /\ x.k = task'[ch][n].k
        BY <1>0, <3>1, <3>3, <4>1, <4>2 DEF Asked
      <4> QED
        BY <4>3 DEF Asked
    <3>7. t.k # 0 /\ n \notin down /\ load.peers[t.entry] # {}
      BY <2>1, <3>2 DEF GoodTask
    <3>8. u.pc = "wait" => n \notin u.waiting
      BY <2>1, <3>3 DEF GoodTask
    <3> QED
      BY <3>1, <3>3, <3>4, <3>5, <3>6, <3>7, <3>8 DEF GoodTask
  <2>3. CASE ~(Awaited(c) /\ ch = c.by /\ n = c.src)
    <3>1. task'[ch][n] = task[ch][n]
      BY <2>1, <2>3 DEF Return
    <3>2. ASSUME NEW m \in task[ch][n].waiting PROVE Asked(ch, n, m)' # {}
      <4>1. PICK x \in Asked(ch, n, m) : TRUE
        BY <2>1, <3>2 DEF GoodTask
      <4>2. x # c
        BY <2>3, <3>2, <4>1 DEF Asked, Awaited, Channel
      <4> QED
        BY <1>0, <3>1, <4>1, <4>2 DEF Asked
    <3> QED
      BY <2>1, <3>1, <3>2 DEF GoodTask
  <2> QED
    BY <2>2, <2>3
<1> QED
  BY <1>1, <1>2 DEF TasksGood

\* Handlers move on or return, and only Put sends an entry, that of its call.
LEMMA HandlerGood ==
  ASSUME Typed, WaitInv, NEW c \in calls,
         \/ ProposeStart(c) \/ ProposeBallot(c) \/ ProposeSelf(c) \/ ProposeSource(c)
         \/ CommitSelf(c) \/ CommitSource(c) \/ Put(c)
  PROVE  WaitInv'
<1>1. UNCHANGED <<load, down>>
  BY DEF ProposeStart, ProposeBallot, ProposeSelf, ProposeSource, CommitSelf, CommitSource, Put, client, ending
<1>2. CallsGood' /\ TasksGood'
  <2>1. CASE ProposeStart(c) \/ ProposeBallot(c) \/ ProposeSelf(c) \/ ProposeSource(c)
    <3>1. c.op = "propose"
      BY <2>1 DEF ProposeStart, ProposeBallot, ProposeSelf, ProposeSource
    <3>2. \/ UNCHANGED task /\ \E pc \in {"ballot", "self", "put", "source", "putlast", "heal"} : Goto(c, pc)
          \/ \E ok \in BOOLEAN : Return(c, ok)
      BY <2>1 DEF ProposeStart, ProposeBallot, ProposeSelf, ProposeSource
    <3> QED
      BY <1>1, <3>1, <3>2, GotoGood, ReturnGood
  <2>2. CASE CommitSelf(c) \/ CommitSource(c)
    <3>1. PICK voter \in Node, isLast \in BOOLEAN : CommitVote(c, voter, isLast)
      BY <2>2, CallType DEF Typed, CommitSelf, CommitSource
    <3>2. \/ UNCHANGED task /\ \E pc \in {"put", "source", "putlast"} : Goto(c, pc)
          \/ \E ok \in BOOLEAN : Return(c, ok)
      BY <3>1, CommitVoteFacts
    <3> QED
      BY <1>1, <3>2, GotoGood, ReturnGood
  <2>3. CASE Put(c)
    <3>1. (Goto(c, "source") /\ UNCHANGED task) \/ \E ok \in BOOLEAN : Return(c, ok)
      BY <2>3 DEF Put
    <3> QED
      BY <1>1, <3>1, GotoGood, ReturnGood
  <2> QED
    BY <2>1, <2>2, <2>3
<1>3. QueuesGood'
  <2>1. QueuesGood
    BY DEF WaitInv
  <2>2. CASE Put(c)
    <3>1. /\ c.node \in Node /\ c.entry \in Entry /\ load.peers[c.entry] # {}
          /\ Target(c) \in Channel /\ queue \in [Channel -> [Node -> Seq(Entry)]]
          /\ queue' = [queue EXCEPT ![Target(c)][c.node] = Append(@, c.entry)]
      BY <2>2, CallType, PutFacts DEF Put, WaitInv, CallsGood, GoodCall, Typed, TypeOK
    <3> SUFFICES ASSUME NEW ch \in Channel, NEW n \in Node, NEW i \in 1..Len(queue'[ch][n])
                 PROVE  load.peers[queue'[ch][n][i]] # {}
      BY <1>1 DEF QueuesGood
    <3>2. CASE ch = Target(c) /\ n = c.node
      <4>1. queue'[ch][n] = Append(queue[ch][n], c.entry) /\ queue[ch][n] \in Seq(Entry)
        BY <3>1, <3>2
      <4>2. \/ i \in 1..Len(queue[ch][n]) /\ queue'[ch][n][i] = queue[ch][n][i]
            \/ queue'[ch][n][i] = c.entry
        BY <4>1
      <4> QED
        BY <2>1, <3>1, <4>2 DEF QueuesGood
    <3>3. CASE ~(ch = Target(c) /\ n = c.node)
      <4>1. queue'[ch][n] = queue[ch][n]
        BY <3>1, <3>3
      <4> QED
        BY <2>1, <4>1 DEF QueuesGood
    <3> QED
      BY <3>2, <3>3
  <2>3. CASE UNCHANGED queue
    BY <1>1, <2>1, <2>3 DEF QueuesGood
  <2> QED
    BY <2>2, <2>3 DEF ProposeStart, ProposeBallot, ProposeSelf, ProposeSource, CommitSelf, CommitSource
<1> QED
  BY <1>2, <1>3 DEF WaitInv

\* With a process its calls and tasks are gone, and nobody waits for them.
LEMMA PanicGood ==
  ASSUME Typed, WaitInv, NEW c \in calls, Panic(c)
  PROVE  WaitInv'
<1>1. /\ c.node \in Node /\ load' = load /\ down' = down \cup {c.node}
      /\ calls' = {d \in calls : d.node # c.node}
      /\ queue' = [ch \in Channel |-> [queue[ch] EXCEPT ![c.node] = <<>>]]
  BY CallType DEF Typed, Panic, client
<1>2. CallsGood'
  <2>1. IsFiniteSet(calls')
    BY <1>1, FS_Subset DEF WaitInv, CallsGood
  <2> QED
    BY <1>1, <2>1 DEF WaitInv, CallsGood, GoodCall
<1>3. QueuesGood'
  <2>1. \A ch \in Channel, n \in Node : queue'[ch][n] = IF n = c.node THEN <<>> ELSE queue[ch][n]
    BY <1>1 DEF Typed, TypeOK
  <2> SUFFICES ASSUME NEW ch \in Channel, NEW n \in Node, NEW i \in 1..Len(queue'[ch][n])
               PROVE  load.peers[queue'[ch][n][i]] # {}
    BY <1>1 DEF QueuesGood
  <2>2. queue'[ch][n] = queue[ch][n]
    BY <2>1
  <2> QED
    BY <2>2 DEF WaitInv, QueuesGood
<1>4. ASSUME NEW ch \in Channel, NEW n \in Node PROVE GoodTask(ch, n)'
  <2>1. GoodTask(ch, n) /\ task[ch][n] \in Task
        /\ (task[ch][n].pc \in {"idle", "failed", "heal"} => task[ch][n].waiting = {})
    BY DEF WaitInv, TasksGood, Typed, TypeOK, TaskInv
  <2>2. task'[ch][n] = IF n = c.node THEN [task[ch][n] EXCEPT !.pc = "idle", !.waiting = {}]
                       ELSE IF c.node \in task[ch][n].waiting
                       THEN [task[ch][n] EXCEPT !.pc = "failed", !.waiting = {}]
                       ELSE task[ch][n]
    BY DEF Panic
  <2>3. CASE n = c.node
    <3>1. task'[ch][n].pc = "idle" /\ task'[ch][n].waiting = {}
      BY <2>1, <2>2, <2>3, TaskOver
    <3> QED
      BY <3>1 DEF GoodTask
  <2>4. CASE n # c.node /\ c.node \in task[ch][n].waiting
    <3>1. /\ task'[ch][n].pc = "failed" /\ task'[ch][n].waiting = {}
          /\ task'[ch][n].entry = task[ch][n].entry
      BY <2>1, <2>2, <2>4, TaskOver
    <3>2. task'[ch][n].k = task[ch][n].k
      BY <2>1, <2>2, <2>4 DEF Task
    <3>3. task[ch][n].pc \notin {"idle", "heal"}
      BY <2>1, <2>4
    <3> QED
      BY <1>1, <2>1, <2>4, <3>1, <3>2, <3>3 DEF GoodTask
  <2>5. CASE n # c.node /\ c.node \notin task[ch][n].waiting
    <3>1. task'[ch][n] = task[ch][n]
      BY <2>2, <2>5
    <3>2. ASSUME NEW m \in task[ch][n].waiting PROVE Asked(ch, n, m)' # {}
      <4>1. PICK x \in Asked(ch, n, m) : TRUE
        BY <2>1, <3>2 DEF GoodTask
      <4>2. x.node # c.node
        BY <2>5, <3>2, <4>1 DEF Asked
      <4> QED
        BY <1>1, <3>1, <4>1, <4>2 DEF Asked
    <3> QED
      BY <1>1, <2>1, <2>5, <3>1, <3>2 DEF GoodTask
  <2> QED
    BY <2>3, <2>4, <2>5
<1> QED
  BY <1>2, <1>3, <1>4 DEF WaitInv, TasksGood

\* A step of one goroutine leaves all others good.
LEMMA RestGood ==
  ASSUME Typed, WaitInv, load' = load, down' = down, \A c \in calls : c \in calls',
         NEW ch \in Channel, NEW n \in Node, NEW u, task' = [task EXCEPT ![ch][n] = u],
         GoodTask(ch, n)'
  PROVE  TasksGood' /\ task'[ch][n] = u
<1>1. task \in [Channel -> [Node -> Task]]
  BY DEF Typed, TypeOK
<1>2. task'[ch][n] = u
  BY <1>1
<1>3. ASSUME NEW g \in Channel, NEW m \in Node, g # ch \/ m # n PROVE GoodTask(g, m)'
  <2>1. task'[g][m] = task[g][m]
    BY <1>1, <1>3
  <2> QED
    BY <2>1, SameGood
<1> QED
  BY <1>2, <1>3 DEF TasksGood

\* A broadcaster takes an entry that somebody proposes, so it has peers to call, and it
\* calls all that it waits for.
LEMMA TakeGood ==
  ASSUME Typed, WaitInv, NEW ch \in Channel, NEW n \in Node, Take(ch, n)
  PROVE  WaitInv'
<1> DEFINE e == Head(queue[ch][n])
           others == load.peers[e] \ {n}
           k == task[ch][n].k + 1
           hit == others \cap down # {}
           u == [pc |-> IF ch = "hch" THEN "heal" ELSE IF hit THEN "failed" ELSE "wait",
                 entry |-> e, k |-> k, waiting |-> IF ch = "hch" \/ hit THEN {} ELSE others]
           op == IF ch = "pch" THEN "propose" ELSE "commit"
           Asks(m) == [op |-> op, node |-> m, entry |-> e, src |-> n, by |-> ch, k |-> k,
                       pc |-> "start"]
           new == {Asks(m) : m \in others \ down}
<1>1. /\ UNCHANGED <<load, down>> /\ n \notin down /\ queue[ch][n] # <<>>
      /\ queue' = [queue EXCEPT ![ch][n] = Tail(@)]
      /\ task' = [task EXCEPT ![ch][n] = u]
      /\ calls' = IF ch = "hch" THEN calls ELSE calls \cup new
  BY DEF Take, client, ending
<1>2. /\ queue \in [Channel -> [Node -> Seq(Entry)]] /\ task \in [Channel -> [Node -> Task]]
      /\ TypeOK
  BY DEF Typed, TypeOK
<1>3. e \in Entry /\ load.peers[e] # {} /\ others \subseteq Node /\ n \notin others
  <2>1. e = queue[ch][n][1] /\ 1 \in 1..Len(queue[ch][n]) /\ e \in Entry
    BY <1>1, <1>2
  <2> QED
    BY <1>2, <2>1, LoadType DEF WaitInv, QueuesGood
<1>4. others # {}
  <2>1. load.peers[e] = {} \/ Cardinality(load.peers[e]) > 1
    BY <1>2, <1>3, ChannelsAssumption DEF TypeOK
  <2>2. load.peers[e] # {n}
    <3> SUFFICES ASSUME load.peers[e] = {n} PROVE FALSE
      OBVIOUS
    <3>1. Cardinality(load.peers[e]) = 1
      BY FS_Singleton
    <3> QED
      BY <1>3, <2>1, <3>1
  <2> QED
    BY <1>3, <2>2
<1>5. k # 0 /\ task[ch][n].k \in Nat
  BY <1>2 DEF Task
<1>6. /\ u.pc = (IF ch = "hch" THEN "heal" ELSE IF hit THEN "failed" ELSE "wait")
      /\ u.entry = e /\ u.k = k /\ u.waiting = (IF ch = "hch" \/ hit THEN {} ELSE others)
  OBVIOUS
<1>7. \A m : /\ Asks(m).op = op /\ Asks(m).node = m /\ Asks(m).entry = e /\ Asks(m).src = n
             /\ Asks(m).by = ch /\ Asks(m).k = k /\ Asks(m).pc = "start"
  OBVIOUS
<1>8. ch = "cch" => op = "commit"
  OBVIOUS
<1> HIDE DEF u, k, e, others, op, Asks
<1>9. QueuesGood'
  <2> SUFFICES ASSUME NEW g \in Channel, NEW m \in Node, NEW i \in 1..Len(queue'[g][m])
               PROVE  load.peers[queue'[g][m][i]] # {}
    BY <1>1 DEF QueuesGood
  <2>1. CASE g = ch /\ m = n
    <3>1. queue'[g][m] = Tail(queue[g][m]) /\ queue[g][m] \in Seq(Entry) /\ queue[g][m] # <<>>
      BY <1>1, <1>2, <2>1
    <3>2. i + 1 \in 1..Len(queue[g][m]) /\ queue'[g][m][i] = queue[g][m][i + 1]
      BY <3>1
    <3> QED
      BY <3>2 DEF WaitInv, QueuesGood
  <2>2. CASE ~(g = ch /\ m = n)
    <3>1. queue'[g][m] = queue[g][m]
      BY <1>1, <1>2, <2>2
    <3> QED
      BY <3>1 DEF WaitInv, QueuesGood
  <2> QED
    BY <2>1, <2>2
<1>10. CallsGood'
  <2>1. IsFiniteSet(new)
    <3>1. IsFiniteSet(others \ down)
      BY <1>3, ChannelsAssumption, FS_Subset
    <3>2. [m \in others \ down |-> Asks(m)] \in Surjection(others \ down, new)
      BY DEF Surjection
    <3> QED
      BY <3>1, <3>2, FS_Surjection
  <2>2. IsFiniteSet(calls')
    BY <1>1, <2>1, FS_Union DEF WaitInv, CallsGood
  <2>3. \A c \in calls : GoodCall(c)'
    BY <1>1 DEF WaitInv, CallsGood, GoodCall
  <2>4. ASSUME NEW d \in new, ch # "hch" PROVE GoodCall(d)'
    <3>1. PICK m \in others \ down : d = Asks(m)
      OBVIOUS
    <3>2. /\ d.node = m /\ d.op = op /\ d.entry = e /\ d.by = ch /\ d.pc = "start"
          /\ d.src = n
      BY <1>7, <3>1
    <3> QED
      BY <1>1, <1>3, <1>8, <2>4, <3>1, <3>2 DEF GoodCall
  <2> QED
    BY <1>1, <2>2, <2>3, <2>4 DEF CallsGood
<1>11. task'[ch][n] = u
  BY <1>1, <1>2
<1>12. GoodTask(ch, n)'
  <2>1. ASSUME NEW m \in u.waiting PROVE Asked(ch, n, m)' # {}
    <3>1. ch # "hch" /\ m \in others \ down
      BY <1>6, <2>1
    <3>2. Asks(m) \in calls'
      BY <1>1, <3>1
    <3> QED
      BY <1>6, <1>7, <1>11, <3>2 DEF Asked
  <2> QED
    BY <1>1, <1>3, <1>4, <1>5, <1>6, <1>11, <2>1 DEF GoodTask
<1>13. TasksGood'
  BY <1>1, <1>12, RestGood
<1> QED
  BY <1>9, <1>10, <1>13 DEF WaitInv

\* The other steps of the goroutines: the local Commit waits for one call, and who gives
\* up or is done waits for none.
LEMMA GoroutineGood ==
  ASSUME Typed, WaitInv, NEW ch \in Channel, NEW n \in Node,
         Fail(ch, n) \/ LocalCommit(n) \/ Healed(n)
  PROVE  WaitInv'
<1>1. UNCHANGED <<load, down, queue>> /\ "pch" \in Channel /\ "hch" \in Channel
  BY DEF Fail, LocalCommit, Healed, client, ending, Channel
<1>2. task \in [Channel -> [Node -> Task]]
  BY DEF Typed, TypeOK
<1>3. ASSUME NEW g \in Channel, UNCHANGED calls, task[g][n].waiting = {},
             task' = [task EXCEPT ![g][n].pc = "idle"]
      PROVE  WaitInv'
  <2> DEFINE u == [task[g][n] EXCEPT !.pc = "idle"]
  <2>1. u.pc = "idle" /\ u.waiting = {}
    BY <1>2, <1>3 DEF Task
  <2>2. task' = [task EXCEPT ![g][n] = u]
    BY <1>3
  <2> HIDE DEF u
  <2>3. task'[g][n] = u
    BY <1>2, <2>2
  <2>4. GoodTask(g, n)'
    BY <2>1, <2>3 DEF GoodTask
  <2> QED
    BY <1>1, <1>3, <2>2, <2>4, RestGood, SameGood DEF WaitInv
<1>4. CASE Fail(ch, n)
  BY <1>3, <1>4 DEF Fail, Typed, TaskInv
<1>5. CASE Healed(n)
  BY <1>1, <1>3, <1>5 DEF Healed, Typed, TaskInv
<1>6. CASE LocalCommit(n)
  <2> DEFINE t == task["pch"][n]
             u == [t EXCEPT !.waiting = {n}]
             d == [op |-> "commit", node |-> n, entry |-> t.entry, src |-> n, by |-> "pch",
                   k |-> t.k, pc |-> "start"]
  <2>1. /\ t.pc = "commit" /\ calls' = calls \cup {d} /\ task' = [task EXCEPT !["pch"][n] = u]
        /\ t \in Task
    BY <1>1, <1>2, <1>6 DEF LocalCommit
  <2>2. GoodTask("pch", n)
    BY <1>1 DEF WaitInv, TasksGood
  <2>3. u.pc = "commit" /\ u.entry = t.entry /\ u.k = t.k /\ u.waiting = {n}
    BY <2>1 DEF Task
  <2>4. /\ d.op = "commit" /\ d.node = n /\ d.entry = t.entry /\ d.src = n /\ d.by = "pch"
        /\ d.k = t.k /\ d.pc = "start"
    OBVIOUS
  <2> HIDE DEF u, d
  <2>5. task'["pch"][n] = u
    BY <1>1, <1>2, <2>1
  <2>6. t.k # 0 /\ n \notin down /\ load.peers[t.entry] # {}
    BY <2>1, <2>2 DEF GoodTask
  <2>7. d \in Asked("pch", n, n)'
    BY <2>1, <2>3, <2>4, <2>5 DEF Asked
  <2>8. GoodTask("pch", n)'
    BY <1>1, <2>3, <2>5, <2>6, <2>7 DEF GoodTask
  <2>9. CallsGood'
    <3>1. IsFiniteSet(calls')
      BY <2>1, FS_AddElement DEF WaitInv, CallsGood
    <3>2. \A c \in calls : GoodCall(c)'
      BY <1>1 DEF WaitInv, CallsGood, GoodCall
    <3>3. ASSUME NEW c, c = d PROVE GoodCall(c)'
      BY <1>1, <2>4, <2>6, <3>3 DEF GoodCall
    <3> QED
      BY <2>1, <3>1, <3>2, <3>3 DEF CallsGood
  <2>10. TasksGood'
    BY <1>1, <2>1, <2>8, RestGood
  <2> QED
    BY <1>1, <2>1, <2>9, <2>10, SameGood DEF WaitInv
<1> QED
  BY <1>4, <1>5, <1>6

LEMMA ClientGood ==
  ASSUME Typed, WaitInv, NEW n \in Node, NEW e \in Entry, ClientPropose(n, e)
  PROVE  WaitInv'
<1> DEFINE d == [op |-> "propose", node |-> n, entry |-> e, src |-> n, by |-> "client",
                 k |-> 0, pc |-> "start"]
<1>1. /\ UNCHANGED <<load, down, queue, task>> /\ calls' = calls \cup {d}
      /\ n \in load.peers[e] /\ n \notin down
  BY DEF ClientPropose, ending
<1>2. GoodCall(d)'
  BY <1>1 DEF GoodCall
<1> HIDE DEF d
<1>3. CallsGood'
  <2>1. IsFiniteSet(calls')
    BY <1>1, FS_AddElement DEF WaitInv, CallsGood
  <2>2. \A c \in calls : GoodCall(c)'
    BY <1>1 DEF WaitInv, CallsGood, GoodCall
  <2> QED
    BY <1>1, <1>2, <2>1, <2>2 DEF CallsGood
<1>4. TasksGood'
  BY <1>1, SameGood DEF TasksGood
<1> QED
  BY <1>1, <1>3, <1>4, SameGood DEF WaitInv

LEMMA WaitStep ==
  ASSUME Typed, WaitInv, [Next]_vars
  PROVE  WaitInv'
<1>1. ASSUME UNCHANGED <<load, down, calls, queue, task>> PROVE WaitInv'
  <2>1. TasksGood'
    BY <1>1, SameGood DEF TasksGood
  <2> QED
    BY <1>1, <2>1, SameGood DEF WaitInv
<1>2. CASE UNCHANGED vars
  BY <1>1, <1>2 DEF vars
<1>3. ASSUME NEW c \in calls, CallStep(c) PROVE WaitInv'
  BY <1>3, HandlerGood, PanicGood DEF CallStep
<1>4. ASSUME NEW n \in Node, (\E ch \in Channel : TaskStep(ch, n)) \/ LocalCommit(n) \/ Healed(n)
      PROVE  WaitInv'
  <2>1. "pch" \in Channel
    BY DEF Channel
  <2> QED
    BY <1>4, <2>1, TakeGood, GoroutineGood DEF TaskStep
<1>5. ASSUME NEW n \in Node, Shutdown(n) \/ QuitStep(n) PROVE WaitInv'
  BY <1>1, <1>5, QuitType DEF client
<1>6. ASSUME NEW n \in Node, NEW e \in Entry, ClientPropose(n, e) \/ Timeout(n, e) PROVE WaitInv'
  <2>1. CASE Timeout(n, e)
    BY <1>1, <2>1 DEF Timeout, ending
  <2> QED
    BY <1>6, <2>1, ClientGood
<1> QED
  BY <1>2, <1>3, <1>4, <1>5, <1>6 DEF Next, Step

\* A call waits only for a full channel, and the goroutine of the channel is busy: with
\* heal requests it would go on.
LEMMA WaitsForRoom ==
  ASSUME Typed, WaitInv, ~Ready, NEW c \in calls
  PROVE  /\ Target(c) \in {"pch", "cch"} /\ Overfull(Target(c), c.node) /\ c.node \in Node
         /\ c.pc # "heal"
<1>0. TypeOK /\ c \in Call /\ c.node \in Node /\ c.op \in {"propose", "commit"}
  BY CallType DEF Typed
<1>1. /\ GoodCall(c) /\ ~CallReady(c)
      /\ c.pc \in {"start", "ballot", "self", "put", "source", "putlast", "heal"}
  BY <1>0 DEF WaitInv, CallsGood, Call, Ready
<1>2. c.pc \in {"put", "putlast", "heal"}
  BY <1>0, <1>1 DEF CallReady, GoodCall
<1> DEFINE ch == Target(c)
           n == c.node
<1>3. /\ ch \in Channel /\ task[ch][n] \in Task /\ queue[ch][n] \in Seq(Entry)
      /\ Len(queue[ch][n]) <= Capacity(ch) /\ Capacity(ch) \in Nat \ {0}
  BY <1>0, ChannelsAssumption DEF TypeOK, Target, Channel, Capacity
<1>4. ~(Len(queue[ch][n]) < Capacity(ch))
  BY <1>1, <1>2 DEF CallReady
<1>5. c \in Blocked(ch, n)
  BY <1>2 DEF Blocked
<1>6. ch = "hch" <=> c.pc = "heal"
  BY DEF Target
<1> HIDE DEF ch
<1>7. Len(queue[ch][n]) = Capacity(ch) /\ queue[ch][n] # <<>>
  BY <1>3, <1>4
<1>8. GoodTask(ch, n) /\ n \notin down /\ ~TaskReady(ch, n)
  BY <1>0, <1>1, <1>3 DEF WaitInv, TasksGood, GoodCall, Ready
<1>9. task[ch][n].pc # "idle"
  BY <1>7, <1>8 DEF TaskReady
<1>10. ch # "hch"
  BY <1>8, <1>9 DEF TaskReady, GoodTask
<1>11. Overfull(ch, n)
  BY <1>5, <1>7, <1>9 DEF Overfull
<1> QED
  BY <1>0, <1>3, <1>6, <1>10, <1>11 DEF Channel, ch

\* A busy broadcaster waits for an answer: of another peer, or of its own Commit.
LEMMA WaitsForAnswer ==
  ASSUME Typed, WaitInv, ~Ready, NEW ch \in {"pch", "cch"}, NEW n \in Node, Overfull(ch, n)
  PROVE  \E c \in calls : /\ c.by = ch
                          /\ c.node # n \/ (ch = "pch" /\ c.op = "commit")
<1>1. GoodTask(ch, n) /\ task[ch][n] \in Task /\ ~TaskReady(ch, n) /\ ch # "hch"
  BY DEF WaitInv, TasksGood, Ready, Typed, TypeOK, Channel
<1>2. task[ch][n].pc \in {"wait", "commit"}
  BY <1>1 DEF Overfull, TaskReady, GoodTask, Task
<1>3. task[ch][n].waiting # {}
  BY <1>1, <1>2 DEF TaskReady, GoodTask
<1>4. PICK m \in task[ch][n].waiting : TRUE
  BY <1>3
<1>5. PICK c \in Asked(ch, n, m) : TRUE
  BY <1>1, <1>4 DEF GoodTask
<1>6. c \in calls /\ c.by = ch /\ c.src = n /\ c.node = m
  BY <1>5 DEF Asked
<1>7. CASE m # n
  BY <1>6, <1>7
<1>8. CASE m = n
  <2>1. ch = "pch"
    BY <1>1, <1>2, <1>4, <1>8 DEF GoodTask
  <2>2. GoodCall(c) /\ c.op \in {"propose", "commit"}
    BY <1>6, CallType DEF WaitInv, CallsGood, Typed
  <2>3. c.op = "commit"
    BY <1>6, <1>8, <2>1, <2>2 DEF GoodCall
  <2> QED
    BY <1>6, <2>1, <2>3
<1> QED
  BY <1>7, <1>8

\* Commits wait in circles only through the cch of another node.
LEMMA CommitsGoOn ==
  ASSUME Typed, WaitInv, ~Ready, Fits, NEW n \in Node, Overfull("cch", n)
  PROVE  FALSE
<1>1. PICK c \in calls : c.by = "cch" /\ c.node # n
  BY WaitsForAnswer
<1>2. c.op = "commit"
  BY <1>1 DEF WaitInv, CallsGood, GoodCall
<1>3. Overfull(Target(c), c.node) /\ c.node \in Node /\ c.pc # "heal"
  BY WaitsForRoom
<1>4. Target(c) = "cch"
  BY <1>2, <1>3 DEF Target
<1> QED
  BY <1>1, <1>3, <1>4 DEF Fits

\* Proposals do through the pch of another node, or through a cch.
LEMMA ProposalsGoOn ==
  ASSUME Typed, WaitInv, ~Ready, Fits, NEW n \in Node, Overfull("pch", n)
  PROVE  FALSE
<1>1. PICK c \in calls : c.by = "pch" /\ (c.node # n \/ c.op = "commit")
  BY WaitsForAnswer
<1>2. /\ Target(c) \in {"pch", "cch"} /\ Overfull(Target(c), c.node) /\ c.node \in Node
      /\ c.pc # "heal"
  BY WaitsForRoom
<1>3. CASE Target(c) = "cch"
  BY <1>2, <1>3, CommitsGoOn
<1>4. CASE Target(c) = "pch"
  <2>1. c.op # "commit"
    BY <1>2, <1>4 DEF Target
  <2> QED
    BY <1>1, <1>2, <1>4, <2>1 DEF Fits
<1> QED
  BY <1>2, <1>3, <1>4

\* Without calls nobody waits for an answer, and Shutdown only for goroutines at rest.
LEMMA RestReady ==
  ASSUME Typed, WaitInv, calls = {}, NEW n \in Node \ down,
         stage[n] \in 1..4 \/ \E ch \in Channel : queue[ch][n] # <<>> \/ task[ch][n].pc # "idle"
  PROVE  Ready
<1>1. ASSUME NEW ch \in Channel, queue[ch][n] # <<>> \/ task[ch][n].pc # "idle"
      PROVE  TaskReady(ch, n)
  <2>1. GoodTask(ch, n) /\ task[ch][n] \in Task
    BY DEF WaitInv, TasksGood, Typed, TypeOK
  <2>2. task[ch][n].waiting = {}
    BY <2>1 DEF GoodTask, Asked
  <2>3. task[ch][n].pc \in {"idle", "commit", "failed", "heal"}
    BY <2>1, <2>2 DEF GoodTask, Task
  <2> QED
    BY <1>1, <2>1, <2>2, <2>3 DEF TaskReady, GoodTask
<1>2. CASE \E ch \in Channel : queue[ch][n] # <<>> \/ task[ch][n].pc # "idle"
  BY <1>1, <1>2 DEF Ready
<1>3. CASE stage[n] \in 1..4 /\ \A ch \in Channel : queue[ch][n] = <<>> /\ task[ch][n].pc = "idle"
  <2>1. QuitReady(n)
    <3>1. CASE stage[n] \in 1..3
      BY <3>1 DEF QuitReady
    <3>2. CASE stage[n] = 4 /\ \E g \in Goroutine : g \notin exited[n]
      <4>1. PICK g \in Goroutine \ exited[n] : TRUE
        BY <3>2
      <4>2. CASE g = "reaper"
        BY <3>2, <4>1, <4>2 DEF QuitReady
      <4>3. CASE g # "reaper"
        <5>1. g \in Channel /\ ClosedOn(n) = Channel
          BY <3>2, <4>1, <4>3 DEF Goroutine, ClosedOn
        <5> QED
          BY <1>3, <4>1, <4>3, <5>1 DEF QuitReady
      <4> QED
        BY <4>2, <4>3
    <3>3. CASE stage[n] = 4 /\ \A g \in Goroutine : g \in exited[n]
      <4>1. exited[n] = {"pch", "cch", "hch", "reaper"}
        BY <3>3 DEF Goroutine, Channel, Typed, TypeOK
      <4>2. Cardinality(exited[n]) >= 3
        <5>1. IsFiniteSet({"pch"}) /\ Cardinality({"pch"}) = 1
          BY FS_Singleton
        <5>2. \A S, x : IsFiniteSet(S) /\ x \notin S =>
                  IsFiniteSet(S \cup {x}) /\ Cardinality(S \cup {x}) = Cardinality(S) + 1
          BY FS_AddElement
        <5> DEFINE two == {"pch"} \cup {"cch"}
                   three == two \cup {"hch"}
        <5>3. "cch" \notin {"pch"} /\ "hch" \notin two /\ "reaper" \notin three
          OBVIOUS
        <5>4. exited[n] = three \cup {"reaper"}
          BY <4>1
        <5>5. IsFiniteSet(two) /\ Cardinality(two) = 2
          <6>1. Cardinality(two) = Cardinality({"pch"}) + 1 /\ IsFiniteSet(two)
            BY <5>1, <5>2, <5>3
          <6> QED
            BY <5>1, <6>1
        <5> HIDE DEF two
        <5>6. IsFiniteSet(three) /\ Cardinality(three) = 3
          <6>1. Cardinality(three) = Cardinality(two) + 1 /\ IsFiniteSet(three)
            BY <5>2, <5>3, <5>5
          <6> QED
            BY <5>5, <6>1
        <5> HIDE DEF three
        <5>7. Cardinality(three \cup {"reaper"}) = Cardinality(three) + 1
          BY <5>2, <5>3, <5>6
        <5> QED
          BY <5>4, <5>6, <5>7
      <4> QED
        BY <3>3, <4>2 DEF QuitReady
    <3> QED
      BY <1>3, <3>1, <3>2, <3>3
  <2> QED
    BY <2>1 DEF Ready
<1> QED
  BY <1>2, <1>3

\* Handlers that wait for room in a channel without a timeout, broadcasters that wait for
\* handlers, and Shutdown that waits for both (Propose, Commit, broadcastPropose,
\* Shutdown) never all wait for each other, however long the channel of one node is full
\* behind its busy broadcaster: it takes two nodes with the same channel overfull.
THEOREM NeverStuck == Spec => []NobodyStuck
<1>1. Init => WaitInv
  <2> SUFFICES ASSUME Init PROVE WaitInv
    OBVIOUS
  <2>1. /\ calls = {} /\ \A ch \in Channel, n \in Node : queue[ch][n] = <<>>
        /\ \A ch \in Channel, n \in Node : task[ch][n].pc = "idle" /\ task[ch][n].waiting = {}
    BY DEF Init
  <2>2. CallsGood /\ QueuesGood
    BY <2>1, FS_EmptySet DEF CallsGood, QueuesGood
  <2>3. TasksGood
    BY <2>1 DEF TasksGood, GoodTask
  <2> QED
    BY <2>2, <2>3 DEF WaitInv
<1>2. Typed /\ WaitInv /\ [Next]_vars => WaitInv'
  BY WaitStep
<1>3. Typed /\ WaitInv => NobodyStuck
  <2> SUFFICES ASSUME Typed, WaitInv, Fits, Busy PROVE Ready
    BY DEF NobodyStuck
  <2>1. CASE calls # {}
    <3> SUFFICES ASSUME ~Ready PROVE FALSE
      OBVIOUS
    <3>1. PICK c \in calls : TRUE
      BY <2>1
    <3>2. Target(c) \in {"pch", "cch"} /\ Overfull(Target(c), c.node) /\ c.node \in Node
      BY WaitsForRoom
    <3> QED
      BY <3>2, CommitsGoOn, ProposalsGoOn
  <2>2. CASE calls = {}
    BY <2>2, RestReady DEF Busy
  <2> QED
    BY <2>1, <2>2
<1>4. Spec => []Typed
  BY TypedInvariance
<1> QED
  BY <1>1, <1>2, <1>3, <1>4, PTL DEF Spec
=============================================================================

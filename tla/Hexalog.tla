------------------------------- MODULE Hexalog -------------------------------
(***************************************************************************)
(* The voting core of hexalog: how the peers of one key propose, vote on,  *)
(* commit, append and heal the entries of that key's log (hexalog.go,      *)
(* hexalog_utils.go, broadcast.go, heal.go and the parts of ballot.go they *)
(* drive).                                                                 *)
(*                                                                         *)
(* Every RPC handler and every local call of Propose or Commit is a member *)
(* of `calls': a thread with a program counter, whose steps are the        *)
(* critical sections of the Go code.  Every node also has two broadcaster  *)
(* goroutines, "pch" and "cch", named after the channel each of them       *)
(* reads, and a healer goroutine.                                          *)
(*                                                                         *)
(* Abstractions: one key; an entry is an identifier and stands for its own *)
(* hash; the channels are unbounded; AppendEntry (LogStore has its steps)  *)
(* and each call on a ballot (Ballot has them) are one step; no key is     *)
(* marked, since nothing in the repository calls MarkKey.                  *)
(***************************************************************************)
EXTENDS Entries, FiniteSets

CONSTANTS
    Peer,        \* the PeerSet of the key
    Height,      \* [Entry -> Nat \ {0}], the field of an entry
    First,       \* PeerSet[0], the source of a request with SourceIndex unset
    Contacts,    \* the peers that clients call
    Faults,      \* the kinds of fault that may happen in this environment
    MaxFaults,   \* bound on crashes and lost messages
    MaxCalls,    \* bound on proposals made by clients
    MaxRounds,   \* [Peer -> [Entry -> Nat]], bounds on the ballots a node opens
    MaxTimeouts  \* [Peer -> [Entry -> Nat]], bounds on those of them that time out

Worker == {"pch", "cch"}
FaultKind == {"crash", "disconnect", "timeout"}

\* Height is a field: New makes it Depth, unless an append comes between the two
\* reads of NewEntry (see LogStore).
ASSUME ConstantsAssumption ==
    /\ IsFiniteSet(Peer) /\ Cardinality(Peer) > 1 /\ First \in Peer
    /\ Height \in [Entry -> Nat \ {0}]
    /\ Contacts \subseteq Peer /\ Faults \subseteq FaultKind
    /\ MaxFaults \in Nat /\ MaxCalls \in Nat /\ MaxRounds \in [Peer -> [Entry -> Nat \ {0}]]
    /\ MaxTimeouts \in [Peer -> [Entry -> Nat]]

VARIABLES
    log,        \* the index of the key on each node, oldest entry first
    keyed,      \* the nodes whose index store has the key
    tracked,    \* hlog.ballots: the entries with a ballot in the map
    ballot,     \* all ballots a node ever opened for an entry; the last is current
    calls,      \* the running Propose and Commit calls
    queue,      \* hlog.pch and hlog.cch
    task,       \* what each broadcaster goroutine is doing
    applied,    \* the entries handed to fsm.apply, in order
    hch,        \* the number of heal requests waiting in hlog.hch
    healer,     \* what the healKeys goroutine is doing
    down,       \* the nodes whose process has died
    faults,     \* crashes and lost messages so far
    proposals,  \* client proposals so far
    pledged     \* history: entries a node has itself voted to commit

vars == <<log, keyed, tracked, ballot, calls, queue, task, applied, hch,
          healer, down, faults, proposals, pledged>>

EntryOrZero == Entry \cup {Zero}
Status == {"open", "ok", "err", "timeout"}
Ballot == [proposed : SUBSET Peer, committed : SUBSET Peer, status : Status]

\* A call of Propose or Commit on `node'.  `by' and `k' say who waits for the
\* answer: the client, or the k-th broadcast of worker `by' of peer `src'.
Call == [op : {"propose", "commit"}, node : Peer, src : Peer,
         by : Worker \cup {"client"}, k : Nat, entry : Entry, round : Nat,
         pc : {"start", "ballot", "heal", "reject", "self", "source", "selfkey", "key",
               "selfput", "put", "selfcheck", "check", "selfapply", "apply"}]

\* A broadcaster that has started on an entry keeps it until the next one.
Task == {t \in [phase : {"idle", "send", "commit", "failed"}, entry : EntryOrZero,
                k : Nat, waiting : SUBSET Peer] :
            t.phase # "idle" \/ t.waiting # {} => t.entry \in Entry}
Healer == {h \in [pc : {"idle", "append", "apply"}, stream : Seq(Entry)] :
              h.pc # "idle" => h.stream # <<>>}

TypeOK ==
    /\ log \in [Peer -> Seq(Entry)]
    /\ keyed \subseteq Peer
    /\ tracked \in [Peer -> SUBSET Entry]
    /\ ballot \in [Peer -> [Entry -> Seq(Ballot)]]
    /\ calls \subseteq Call
    /\ queue \in [Worker -> [Peer -> Seq(Entry)]]
    /\ task \in [Worker -> [Peer -> Task]]
    /\ applied \in [Peer -> Seq(Entry)]
    /\ hch \in [Peer -> Nat]
    /\ healer \in [Peer -> Healer]
    /\ down \subseteq Peer
    /\ faults \in Nat /\ proposals \in Nat
    /\ pledged \in [Peer -> SUBSET Entry]

Last(n) == LastOf(log[n])
LastHeight(n) == IF log[n] = <<>> THEN 0 ELSE Height[Last(n)]

Init ==
    /\ log = [n \in Peer |-> <<>>]
    /\ keyed = {}
    /\ tracked = [n \in Peer |-> {}]
    /\ ballot = [n \in Peer |-> [e \in Entry |-> <<>>]]
    /\ calls = {}
    /\ queue = [w \in Worker |-> [n \in Peer |-> <<>>]]
    /\ task = [w \in Worker |-> [n \in Peer |->
                [phase |-> "idle", entry |-> Zero, k |-> 0, waiting |-> {}]]]
    /\ applied = [n \in Peer |-> <<>>]
    /\ hch = [n \in Peer |-> 0]
    /\ healer = [n \in Peer |-> [pc |-> "idle", stream |-> <<>>]]
    /\ down = {} /\ faults = 0 /\ proposals = 0
    /\ pledged = [n \in Peer |-> {}]

-----------------------------------------------------------------------------
(* Building blocks of the handlers.                                        *)

NewBallot == [proposed |-> {}, committed |-> {}, status |-> "open"]
BallotOf(c) == ballot[c.node][c.entry][c.round]
Current(n, e) == Len(ballot[n][e])

Goto(c, pc) == calls' = (calls \ {c}) \cup {[c EXCEPT !.pc = pc]}
GotoRound(c, pc, r) ==
    calls' = (calls \ {c}) \cup {[c EXCEPT !.pc = pc, !.round = r]}

\* Does the broadcaster that made call c still wait for its answer?
Awaited(c) == /\ c.by # "client"
              /\ task[c.by][c.src].k = c.k
              /\ c.node \in task[c.by][c.src].waiting

\* Mutant of Answered: an error is not passed on to the broadcast.
AnswerDropsErrors(t, c, ok) ==
    IF ~ok THEN t
    ELSE [t EXCEPT !.waiting = @ \ {c.node},
                   !.phase = IF c.op = "commit" /\ t.waiting = {c.node}
                             THEN "idle" ELSE @]

\* The answer to c reaches the broadcaster.  One error ends the broadcast;
\* the last success ends a broadcast of commits and the local Commit.
Answered(t, c, ok) ==
    IF ~ok THEN [t EXCEPT !.phase = "failed", !.waiting = {}]
    ELSE [t EXCEPT !.waiting = @ \ {c.node},
                   !.phase = IF c.op = "commit" /\ t.waiting = {c.node}
                             THEN "idle" ELSE @]
Answer(c, ok) ==
    task' = IF Awaited(c) THEN [task EXCEPT ![c.by][c.src] = Answered(@, c, ok)]
                          ELSE task

Return(c, ok) == calls' = calls \ {c} /\ Answer(c, ok)

Enqueue(w, n, e) == queue' = [queue EXCEPT ![w][n] = Append(@, e)]

\* Ballot.close on the r-th ballot of n for e: nothing if it is closed already;
\* a ballot nobody has voted on has no timer, and stopping it kills the process.
Close(n, e, r, status) ==
    LET b == ballot[n][e][r] IN
    IF b.status # "open" THEN UNCHANGED <<ballot, down>>
    ELSE IF b.proposed = {} THEN down' = down \cup {n} /\ UNCHANGED ballot
    ELSE ballot' = [ballot EXCEPT ![n][e][r].status = status] /\ UNCHANGED down

\* Mutant of BallotGetClose: the error is not handed to Ballot.close.
BallotGetCloseNil(n, e) ==
    IF e \in tracked[n] THEN Close(n, e, Current(n, e), "ok")
                        ELSE UNCHANGED <<ballot, down>>

BallotGetClose(n, e) ==
    IF e \in tracked[n] THEN Close(n, e, Current(n, e), "err")
                        ELSE UNCHANGED <<ballot, down>>

\* Mutant of UpsertKeyAndBroadcast: the key of a first entry is not created.
UpsertMissesFirst(c) == Goto(c, IF c.pc = "self" THEN "selfput" ELSE "put")

\* upsertKeyAndBroadcast starts with NewKey if prevHeight is zero, that is if the entry
\* follows the zero hash.
UpsertKeyAndBroadcast(c) ==
    Goto(c, IF Previous[c.entry] = Zero
            THEN IF c.pc = "self" THEN "selfkey" ELSE "key"
            ELSE IF c.pc = "self" THEN "selfput" ELSE "put")

\* Where a handler goes once it is done with a vote, and all the vote asked of it: those
\* on the node's own vote go on to that of the source.
Resume(c) == IF c.pc \in {"self", "selfput", "selfcheck", "selfapply"}
             THEN Goto(c, "source") /\ UNCHANGED task
             ELSE Return(c, TRUE)

\* Mutant of AppendEntry: the previous hash is not compared with the last entry.
AppendUnchecked(n, e) ==
    /\ n \in keyed
    /\ log' = [log EXCEPT ![n] = Append(@, e)]

AppendEntry(n, e) ==
    /\ n \in keyed /\ Previous[e] = Last(n)
    /\ log' = [log EXCEPT ![n] = Append(@, e)]

Apply(n, e) == applied' = [applied EXCEPT ![n] = Append(@, e)]

At(c, op, pcs) == c.op = op /\ c.pc \in pcs /\ c.node \notin down

-----------------------------------------------------------------------------
(* Propose.                                                                *)

\* New hands out an entry that follows the last one of some node.
Issued(e) == Previous[e] = Zero \/ \E m \in Peer : Previous[e] \in Elems(log[m])

\* A client calls Propose on n: the source is n (SourceIndex < 0) or, when the
\* field keeps its zero value, PeerSet[0].
ClientPropose(n, src, e) ==
    /\ n \notin down /\ proposals < MaxCalls /\ Issued(e)
    /\ proposals' = proposals + 1
    /\ calls' = calls \cup {[op |-> "propose", node |-> n, src |-> src,
                             by |-> "client", k |-> proposals + 1, entry |-> e,
                             round |-> 0, pc |-> "start"]}
    /\ UNCHANGED <<log, keyed, tracked, ballot, queue, task, applied, hch,
                   healer, down, faults, pledged>>

\* verifyEntry: the entry follows our last one, or it is higher, or it is refused.
VerifyEntry(c) ==
    LET n == c.node
        e == c.entry IN
    /\ At(c, "propose", {"start"})
    /\ Goto(c, IF Previous[e] = Last(n) THEN "ballot"
               ELSE IF Height[e] > LastHeight(n) THEN "heal" ELSE "reject")
    /\ UNCHANGED <<log, keyed, tracked, ballot, queue, task, applied, hch, healer, down,
                   faults, proposals, pledged>>

\* Get or create the ballot under hlog.mu, whatever the log is by then.
OpenBallot(c) ==
    LET n == c.node
        e == c.entry IN
    /\ At(c, "propose", {"ballot"})
    /\ IF e \in tracked[n]
       THEN /\ GotoRound(c, "source", Current(n, e))
            /\ UNCHANGED <<tracked, ballot>>
       ELSE /\ ballot' = [ballot EXCEPT ![n][e] = Append(@, NewBallot)]
            /\ tracked' = [tracked EXCEPT ![n] = @ \cup {e}]
            /\ GotoRound(c, IF c.src = n THEN "source" ELSE "self",
                         Current(n, e) + 1)
    /\ UNCHANGED <<log, keyed, queue, task, applied, hch, healer, down,
                   faults, proposals, pledged>>

\* The entry was higher than our last: ask for a heal.
RequestHeal(c) ==
    /\ At(c, "propose", {"heal"})
    /\ hch' = [hch EXCEPT ![c.node] = @ + 1]
    /\ Return(c, FALSE)
    /\ UNCHANGED <<log, keyed, tracked, ballot, queue, applied, healer, down,
                   faults, proposals, pledged>>

\* It was not: close its ballot if there is one.
RejectEntry(c) ==
    /\ At(c, "propose", {"reject"})
    /\ BallotGetClose(c.node, c.entry)
    /\ Return(c, FALSE)
    /\ UNCHANGED <<log, keyed, tracked, queue, applied, hch, healer, faults,
                   proposals, pledged>>

VoteAs(c, p) ==
    ballot' = [ballot EXCEPT ![c.node][c.entry][c.round].proposed = @ \cup {p}]

\* The creator's own vote, when the request came from another peer.  The error
\* of a ballot closed meanwhile is lost: the code tests err, not er.
ProposeSelf(c) ==
    LET b == BallotOf(c) IN
    /\ At(c, "propose", {"self"})
    /\ IF b.status = "open" /\ c.node \notin b.proposed
       THEN VoteAs(c, c.node) /\ UpsertKeyAndBroadcast(c)
       ELSE UNCHANGED ballot /\ Goto(c, "source")
    /\ UNCHANGED <<log, keyed, tracked, queue, task, applied, hch, healer, down, faults,
                   proposals, pledged>>

\* The vote of the source.  The first vote of a ballot is broadcast; whoever
\* finds all votes present, voting or not, goes on to checkVotesAndCommit.
ProposeSource(c) ==
    LET b == BallotOf(c)
        votes == Cardinality(b.proposed \cup {c.src})
        voted == c.src \notin b.proposed IN
    /\ At(c, "propose", {"source"})
    /\ IF b.status # "open"
       THEN Return(c, FALSE) /\ UNCHANGED ballot
       ELSE /\ VoteAs(c, c.src)
            /\ IF votes = 1 /\ voted THEN UpsertKeyAndBroadcast(c) /\ UNCHANGED task
               ELSE IF votes = Cardinality(Peer) THEN Goto(c, "check") /\ UNCHANGED task
               ELSE Return(c, TRUE)
    /\ UNCHANGED <<log, keyed, tracked, queue, applied, hch, healer, down, faults,
                   proposals, pledged>>

\* NewKey, which leaves a key that is there alone.
NewKey(c) ==
    /\ At(c, "propose", {"selfkey", "key"})
    /\ keyed' = keyed \cup {c.node}
    /\ Goto(c, IF c.pc = "selfkey" THEN "selfput" ELSE "put")
    /\ UNCHANGED <<log, tracked, ballot, queue, task, applied, hch, healer, down, faults,
                   proposals, pledged>>

\* The send to pch, or after a first commit vote to cch.
Put(c) ==
    /\ c.pc \in {"selfput", "put"} /\ c.node \notin down
    /\ Enqueue(IF c.op = "propose" THEN "pch" ELSE "cch", c.node, c.entry)
    /\ Resume(c)
    /\ UNCHANGED <<log, keyed, tracked, ballot, applied, hch, healer, down, faults,
                   proposals, pledged>>

-----------------------------------------------------------------------------
(* Commit, and the append it may lead to.                                  *)

\* Mutant of FindBallot: the node's own vote is left to the local Commit.
FindBallotNoSelf(c) ==
    LET n == c.node IN
    /\ At(c, "commit", {"start"})
    /\ IF c.entry \in tracked[n]
       THEN GotoRound(c, "source", Current(n, c.entry)) /\ UNCHANGED task
       ELSE Return(c, FALSE)
    /\ UNCHANGED <<log, keyed, tracked, ballot, queue, applied, hch, healer,
                   down, faults, proposals, pledged>>

FindBallot(c) ==
    LET n == c.node IN
    /\ At(c, "commit", {"start"})
    /\ IF c.entry \in tracked[n]
       THEN /\ GotoRound(c, IF c.src = n THEN "source" ELSE "self",
                         Current(n, c.entry))
            /\ UNCHANGED task
       ELSE Return(c, FALSE)
    /\ UNCHANGED <<log, keyed, tracked, ballot, queue, applied, hch, healer,
                   down, faults, proposals, pledged>>

\* One commit vote, of this node first and of the source after it, and
\* queueBroadcastOrCommit on the number of votes if it was a new one.
VoteCommit(c) ==
    LET n == c.node
        e == c.entry
        b == BallotOf(c)
        voter == IF c.pc = "self" THEN n ELSE c.src
        votes == Cardinality(b.committed \cup {voter})
        voted == voter \notin b.committed IN
    /\ At(c, "commit", {"self", "source"})
    /\ IF b.status # "open"
       THEN Return(c, FALSE) /\ UNCHANGED <<ballot, pledged>>
       ELSE /\ ballot' = [ballot EXCEPT ![n][e][c.round].committed = @ \cup {voter}]
            /\ pledged' = IF voter = n
                          THEN [pledged EXCEPT ![n] = @ \cup {e}] ELSE pledged
            /\ IF voted /\ votes = 1
               THEN Goto(c, IF c.pc = "self" THEN "selfput" ELSE "put") /\ UNCHANGED task
               ELSE IF voted /\ votes = Cardinality(Peer)
               THEN Goto(c, IF c.pc = "self" THEN "selfcheck" ELSE "check") /\ UNCHANGED task
               ELSE Resume(c)
    /\ UNCHANGED <<log, keyed, tracked, queue, applied, hch, healer, down, faults,
                   proposals>>

\* Mutant of Complete: the commits are not counted.
CompleteAnyCommit(c) == BallotOf(c).committed # {} /\ BallotOf(c).proposed = Peer

Complete(c) == Cardinality(BallotOf(c).proposed) = Cardinality(BallotOf(c).committed)

\* Mutant of CheckFails: the handler does not return after a failed append.
CheckGoesOn(c) ==
    LET n == c.node IN
    /\ c.pc \in {"selfcheck", "check"} /\ n \notin down
    /\ \/ ~Complete(c) /\ UNCHANGED <<ballot, down>> /\ Resume(c)
       \/ /\ Complete(c) /\ ~(n \in keyed /\ Previous[c.entry] = Last(n))
          /\ Close(n, c.entry, c.round, "err")
          /\ Goto(c, IF c.pc = "selfcheck" THEN "selfapply" ELSE "apply")
          /\ UNCHANGED task
    /\ UNCHANGED <<log, keyed, tracked, queue, applied, hch, healer, faults,
                   proposals, pledged>>

\* checkVotesAndCommit: the votes are not all there, or the append fails.
CheckFails(c) ==
    LET n == c.node IN
    /\ c.pc \in {"selfcheck", "check"} /\ n \notin down
    /\ \/ ~Complete(c) /\ UNCHANGED <<ballot, down>>
       \/ /\ Complete(c) /\ ~(n \in keyed /\ Previous[c.entry] = Last(n))
          /\ Close(n, c.entry, c.round, "err")
    /\ Resume(c)
    /\ UNCHANGED <<log, keyed, tracked, queue, applied, hch, healer, faults,
                   proposals, pledged>>

\* checkVotesAndCommit up to and including store.AppendEntry.
AppendVoted(c) ==
    /\ c.pc \in {"selfcheck", "check"} /\ c.node \notin down
    /\ Complete(c) /\ AppendEntry(c.node, c.entry)
    /\ Goto(c, IF c.pc = "selfcheck" THEN "selfapply" ELSE "apply")
    /\ UNCHANGED <<keyed, tracked, ballot, queue, task, applied, hch, healer,
                   down, faults, proposals, pledged>>

\* The rest of checkVotesAndCommit: fsm.apply, then close the ballot.
ApplyVoted(c) ==
    /\ c.pc \in {"selfapply", "apply"} /\ c.node \notin down
    /\ Apply(c.node, c.entry)
    /\ Close(c.node, c.entry, c.round, "ok")
    /\ Resume(c)
    /\ UNCHANGED <<log, keyed, tracked, queue, hch, healer, faults, proposals,
                   pledged>>

-----------------------------------------------------------------------------
(* The broadcaster goroutines.                                             *)

BroadcastOf(w, n, e, k) ==
    {[op |-> IF w = "pch" THEN "propose" ELSE "commit", node |-> m, src |-> n,
      by |-> w, k |-> k, entry |-> e, round |-> 0, pc |-> "start"]
     : m \in Peer \ {n}}

\* broadcastPropose or broadcastCommit on the next message of the channel.
Broadcast(w, n) ==
    LET t == task[w][n]
        e == Head(queue[w][n]) IN
    /\ n \notin down /\ t.phase = "idle" /\ queue[w][n] # <<>>
    /\ queue' = [queue EXCEPT ![w][n] = Tail(@)]
    /\ task' = [task EXCEPT ![w][n] = [phase |-> "send", entry |-> e,
                   k |-> t.k + 1, waiting |-> Peer \ {n}]]
    /\ calls' = calls \cup BroadcastOf(w, n, e, t.k + 1)
    /\ UNCHANGED <<log, keyed, tracked, ballot, applied, hch, healer, down,
                   faults, proposals, pledged>>

\* All peers accepted the proposal: broadcastProposals calls Commit itself.
CommitLocally(n) ==
    LET t == task["pch"][n] IN
    /\ n \notin down /\ t.phase = "send" /\ t.waiting = {}
    /\ task' = [task EXCEPT !["pch"][n] =
                  [@ EXCEPT !.phase = "commit", !.waiting = {n}]]
    /\ calls' = calls \cup {[op |-> "commit", node |-> n, src |-> n, by |-> "pch",
                   k |-> t.k, entry |-> t.entry, round |-> 0, pc |-> "start"]}
    /\ UNCHANGED <<log, keyed, tracked, ballot, queue, applied, hch, healer,
                   down, faults, proposals, pledged>>

\* The first error of a broadcast, or of Commit, closes the ballot.
BroadcastFailed(w, n) ==
    LET t == task[w][n] IN
    /\ n \notin down /\ t.phase = "failed"
    /\ BallotGetClose(n, t.entry)
    /\ task' = [task EXCEPT ![w][n].phase = "idle"]
    /\ UNCHANGED <<log, keyed, tracked, calls, queue, applied, hch, healer,
                   faults, proposals, pledged>>

-----------------------------------------------------------------------------
(* The healer goroutine.                                                   *)

\* The peers Leader may return: one with the highest last entry.
Leaders == {m \in Peer \ down : \A p \in Peer \ down : LastHeight(p) <= LastHeight(m)}

\* What PullKeylogRPC of m streams to n: all entries from n's last on, that one
\* included, or nothing (ErrEntryNotFound) when m does not have it.
Stream(m, n) ==
    IF log[n] = <<>> THEN log[m]
    ELSE LET at == {i \in DOMAIN log[m] : log[m][i] = Last(n)} IN
         IF at = {} THEN <<>>
         ELSE SubSeq(log[m], CHOOSE i \in at : TRUE, Len(log[m]))

\* heal: pull from the leader unless it is this node or has the same last entry.
Heal(n) ==
    /\ n \notin down /\ healer[n].pc = "idle" /\ hch[n] > 0
    /\ hch' = [hch EXCEPT ![n] = @ - 1]
    /\ \E m \in Leaders :
         IF m = n \/ Last(m) = Last(n) THEN UNCHANGED <<healer, keyed>>
         ELSE /\ keyed' = keyed \cup {n}
              /\ healer' = [healer EXCEPT ![n] =
                   [pc |-> IF Stream(m, n) = <<>> THEN "idle" ELSE "append",
                    stream |-> Stream(m, n)]]
    /\ UNCHANGED <<log, tracked, ballot, calls, queue, task, applied, down,
                   faults, proposals, pledged>>

\* Mutant of NextPulled: the healer does not see the end of the stream.
NextPulledForever(n) ==
    healer' = [healer EXCEPT ![n] = [pc |-> "append", stream |-> Tail(@.stream)]]

NextPulled(n) ==
    healer' = [healer EXCEPT ![n] =
      [pc |-> IF Len(@.stream) = 1 THEN "idle" ELSE "append",
       stream |-> Tail(@.stream)]]

\* hlog.append of one pulled entry: an error is logged and the next one tried.
AppendPulled(n) ==
    LET e == Head(healer[n].stream) IN
    /\ n \notin down /\ healer[n].pc = "append"
    /\ \/ /\ AppendEntry(n, e)
          /\ healer' = [healer EXCEPT ![n].pc = "apply"]
       \/ /\ ~(n \in keyed /\ Previous[e] = Last(n))
          /\ NextPulled(n) /\ UNCHANGED log
    /\ UNCHANGED <<keyed, tracked, ballot, calls, queue, task, applied, hch,
                   down, faults, proposals, pledged>>

ApplyPulled(n) ==
    /\ n \notin down /\ healer[n].pc = "apply"
    /\ Apply(n, Head(healer[n].stream))
    /\ NextPulled(n)
    /\ UNCHANGED <<log, keyed, tracked, ballot, calls, queue, task, hch, down,
                   faults, proposals, pledged>>

-----------------------------------------------------------------------------
(* Timer, reaper and environment.                                          *)

\* The bound MaxTimeouts.
TimeoutsLeft(n, e) ==
    Cardinality({r \in DOMAIN ballot[n][e] : ballot[n][e][r].status = "timeout"})
        < MaxTimeouts[n][e]

\* Mutant of Timeout: the timer is armed by the last vote on the proposal.
TimeoutLate(n, e, r) ==
    LET b == ballot[n][e][r] IN
    /\ "timeout" \in Faults /\ n \notin down /\ TimeoutsLeft(n, e)
    /\ b.proposed = Peer /\ b.status = "open"
    /\ ballot' = [ballot EXCEPT ![n][e][r].status = "timeout"]
    /\ UNCHANGED <<log, keyed, tracked, calls, queue, task, applied, hch,
                   healer, down, faults, proposals, pledged>>

\* The TTL timer, armed by the first proposal vote, closes the ballot.
Timeout(n, e, r) ==
    LET b == ballot[n][e][r] IN
    /\ "timeout" \in Faults /\ n \notin down /\ TimeoutsLeft(n, e)
    /\ b.proposed # {} /\ b.status = "open"
    /\ ballot' = [ballot EXCEPT ![n][e][r].status = "timeout"]
    /\ UNCHANGED <<log, keyed, tracked, calls, queue, task, applied, hch,
                   healer, down, faults, proposals, pledged>>

\* reapBallotsOnce stops tracking closed ballots.  MaxRounds keeps the reaper
\* from running again once it would let one more ballot be opened.
Reap(n) ==
    LET closed == {e \in tracked[n] : /\ ballot[n][e][Current(n, e)].status # "open"
                                      /\ Current(n, e) < MaxRounds[n][e]} IN
    /\ n \notin down /\ closed # {}
    /\ tracked' = [tracked EXCEPT ![n] = @ \ closed]
    /\ UNCHANGED <<log, keyed, ballot, calls, queue, task, applied, hch, healer,
                   down, faults, proposals, pledged>>

\* The process of n dies: its handlers and goroutines stop where they are.
Crash(n) ==
    /\ "crash" \in Faults /\ n \notin down /\ faults < MaxFaults
    /\ down' = down \cup {n} /\ faults' = faults + 1
    /\ UNCHANGED <<log, keyed, tracked, ballot, calls, queue, task, applied,
                   hch, healer, proposals, pledged>>

\* The caller of a request to a dead node gets an error.
CallDead(c) ==
    /\ c.node \in down
    /\ Return(c, FALSE)
    /\ UNCHANGED <<log, keyed, tracked, ballot, queue, applied, hch, healer,
                   down, faults, proposals, pledged>>

\* The connection breaks: the caller gets an error and the handler goes on.
Disconnect(c) ==
    /\ "disconnect" \in Faults /\ faults < MaxFaults
    /\ Awaited(c) /\ c.node # c.src
    /\ Answer(c, FALSE) /\ faults' = faults + 1
    /\ UNCHANGED <<log, keyed, tracked, ballot, calls, queue, applied, hch,
                   healer, down, proposals, pledged>>

\* The deferred cancel of a broadcast that is over: a request not yet delivered
\* is dropped; a handler that runs is not disturbed.
Cancel(c) ==
    /\ c.by # "client" /\ c.pc = "start" /\ ~Awaited(c)
    /\ calls' = calls \ {c}
    /\ UNCHANGED <<log, keyed, tracked, ballot, queue, task, applied, hch,
                   healer, down, faults, proposals, pledged>>

-----------------------------------------------------------------------------
Handle(c) == \/ VerifyEntry(c) \/ OpenBallot(c) \/ RequestHeal(c) \/ RejectEntry(c)
             \/ ProposeSelf(c) \/ ProposeSource(c) \/ NewKey(c) \/ Put(c)
             \/ FindBallot(c) \/ VoteCommit(c)
             \/ CheckFails(c) \/ AppendVoted(c) \/ ApplyVoted(c)
             \/ CallDead(c)

Broadcaster(w, n) == Broadcast(w, n) \/ BroadcastFailed(w, n)
HealKeys(n) == Heal(n) \/ AppendPulled(n) \/ ApplyPulled(n)

TimeoutAny(n) == \E e \in Entry : \E r \in DOMAIN ballot[n][e] : Timeout(n, e, r)

Next ==
    \/ \E n \in Contacts, e \in Entry : \E src \in {n, First} : ClientPropose(n, src, e)
    \/ \E c \in calls : Handle(c)
    \/ \E w \in Worker, n \in Peer : Broadcaster(w, n)
    \/ \E n \in Peer : CommitLocally(n) \/ HealKeys(n)
    \/ \E n \in Peer : TimeoutAny(n) \/ Reap(n) \/ Crash(n)
    \/ \E c \in calls : Disconnect(c) \/ Cancel(c)

Spec == Init /\ [][Next]_vars

\* Goroutines and handlers are scheduled, timers fire and the reaper wakes up;
\* clients need not call, nothing needs to fail.
FairSpec ==
    /\ Spec
    /\ WF_vars(\E c \in calls : Handle(c))
    /\ \A n \in Peer : /\ \A w \in Worker : WF_vars(Broadcaster(w, n))
                       /\ WF_vars(CommitLocally(n))
                       /\ WF_vars(HealKeys(n))
                       /\ WF_vars(TimeoutAny(n))
                       /\ WF_vars(Reap(n))

-----------------------------------------------------------------------------
(* What the voting achieves.                                               *)

Promise == INSTANCE UnanimousLog

\* An entry enters a key's log on any node, by votes or by healing, only after
\* every peer of the set has itself voted to commit it (Commit, PullKeylog).
Unanimity == Promise!Unanimity

\* Keys may fork, but only in their last entry: each node has everything except
\* the last entry of every other node's log, at the same place (verifyEntry on
\* every peer before any append).
SettledPrefix == Promise!SettledPrefix

\* Who is between an append and its hand-over, and the hand-overs so far.
Owing(n, e) == {c \in calls : c.node = n /\ c.entry = e /\ c.pc \in {"selfapply", "apply"}}
HealerOwes(n, e) == healer[n].pc = "apply" /\ Head(healer[n].stream) = e
Handed(n, e) == {i \in DOMAIN applied[n] : applied[n][i] = e}

\* An append is handed to the FSM exactly once: by the handler or the healer
\* that made it, which still owes the hand-over or has done it, never by both
\* of two handlers that count the last vote together (checkVotesAndCommit).
AppliedOnce ==
    \A n \in Peer \ down, e \in Entry :
        Cardinality(Owing(n, e)) + (IF HealerOwes(n, e) THEN 1 ELSE 0)
          + Cardinality(Handed(n, e))
        = Cardinality({i \in DOMAIN log[n] : log[n][i] = e})

\* A ballot that ends without an error ends with its entry in the log, handed to
\* the FSM, and with the votes of all peers (checkVotesAndCommit, Wait).
SuccessIsReal ==
    \A n \in Peer, e \in Entry : \A r \in DOMAIN ballot[n][e] :
        ballot[n][e][r].status = "ok" =>
            /\ e \in Elems(log[n]) /\ Handed(n, e) # {}
            /\ ballot[n][e][r].proposed = Peer /\ ballot[n][e][r].committed = Peer

\* The core implements UnanimousLog: no step of it pledges a peer that lacks an
\* entry below, or appends without all pledges.
PromiseKept == Promise!Spec

\* The first commit vote on a ballot is the node's own, so the broadcast of it
\* (queueBroadcastOrCommit at one vote) never announces somebody else's vote.
SelfCommitsFirst ==
    \A n \in Peer, e \in Entry : \A r \in DOMAIN ballot[n][e] :
        ballot[n][e][r].committed # {} => n \in ballot[n][e][r].committed

\* The parts of VotingInv: about a call, the ballots of an entry on a node, the
\* commits to broadcast and the entries being pulled.  A Commit from another peer is
\* at OwnVoted after the node's own vote, before that of the source.
OwnVoted == {"source", "selfput", "selfcheck", "selfapply"}
CallInv(c) ==
    /\ c.op = "commit" /\ c.src # c.node => c.entry \in pledged[c.src]
    /\ c.op = "commit" /\ c.src # c.node /\ c.pc \in OwnVoted
          => c.node \in BallotOf(c).committed
    /\ c.op = "commit" /\ c.pc \in {"selfput", "put"} => c.entry \in pledged[c.node]
    /\ c.pc = "ballot" => Previous[c.entry] \in Elems(log[c.node]) \cup {Zero}
    /\ c.pc \in {"selfcheck", "check"}
          => IF c.op = "propose" THEN BallotOf(c).proposed = Peer
                                 ELSE BallotOf(c).committed = Peer
BallotInv(n, e) ==
    /\ ballot[n][e] # <<>> => Previous[e] \in Elems(log[n]) \cup {Zero}
    /\ \A r \in DOMAIN ballot[n][e] : \A p \in ballot[n][e][r].committed : e \in pledged[p]
QueueInv == \A n \in Peer : Elems(queue["cch"][n]) \subseteq pledged[n]
StreamInv == \A n, p \in Peer : Elems(healer[n].stream) \subseteq pledged[p]

\* Why Unanimity holds: a vote to commit in a ballot, a commit waiting to be
\* broadcast and an entry being pulled all stand for pledges; a handler that goes
\* to checkVotesAndCommit has found all votes of its kind; a commit that carries
\* another peer's vote is only counted after the node's own.
VotingInv ==
    /\ \A c \in calls : CallInv(c)
    /\ \A n \in Peer, e \in Entry : BallotInv(n, e)
    /\ QueueInv /\ StreamInv /\ SelfCommitsFirst /\ Unanimity

\* Every ballot ends: by the last vote, an error, or the TTL timer (setTTL), on
\* whichever of the interleavings created it.
BallotsEnd ==
    \A n \in Peer, e \in Entry : \A r \in 1..MaxRounds[n][e] :
        (r \in DOMAIN ballot[n][e]) ~>
            (n \in down \/ (r \in DOMAIN ballot[n][e] /\ ballot[n][e][r].status # "open"))

\* A broadcaster always gets back to its channel, with nothing left in it, even
\* when peers die under its requests (broadcastProposals, broadcastCommits).
BroadcastersDrain ==
    \A n \in Peer, w \in Worker :
        (queue[w][n] # <<>>) ~>
            (n \in down \/ (queue[w][n] = <<>> /\ task[w][n].phase = "idle"))

\* With no fault and one proposal every peer appends and applies the entry, even
\* where a race makes a ballot or a broadcast end with an error meanwhile.
ProposalReachesAll ==
    \A e \in Entry : (\E c \in calls : c.entry = e) ~> \A n \in Peer : applied[n] = <<e>>

-----------------------------------------------------------------------------
(* What the repository says of the voting and the code does not do.        *)

\* README and ballot.go: peers vote "to come to consensus", a ballot is there
\* for "ensuring consistency": no two logs of a key differ at a height.
Consensus == \A n, m \in Peer : \A i \in DOMAIN log[n] \cap DOMAIN log[m] :
                 log[n][i] = log[m][i]

\* ballotGetClose "closes it with the given error if not already closed": with no
\* crash from outside, no node dies.
NoPanic == down = {}
=============================================================================

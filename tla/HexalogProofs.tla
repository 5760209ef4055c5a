---------------------------- MODULE HexalogProofs ----------------------------
(***************************************************************************)
(* Proofs about Hexalog, for any PeerSet, entries, faults and bounds: its  *)
(* types, why a broadcaster gets its answers and why a ballot ends.        *)
(***************************************************************************)
EXTENDS Hexalog, FiniteSetTheorems, TLAPS

-----------------------------------------------------------------------------
(* Type correctness.                                                       *)

\* What the provers need to know of a sequence such as a log or a channel.
LEMMA SeqFacts ==
  ASSUME NEW S, NEW s \in Seq(S)
  PROVE  /\ DOMAIN s = 1..Len(s) /\ Len(s) \in Nat
         /\ \A i \in DOMAIN s : s[i] \in S
         /\ s # <<>> => Head(s) \in S /\ Tail(s) \in Seq(S) /\ Len(s) \in DOMAIN s
         /\ \A e \in S : Append(s, e) \in Seq(S)
  OBVIOUS

\* Ballots are never forgotten and never lose a vote.
BallotsGrow ==
    \A n \in Peer, e \in Entry : \A r \in DOMAIN ballot[n][e] :
        /\ r \in DOMAIN ballot'[n][e]
        /\ ballot[n][e][r].proposed \subseteq ballot'[n][e][r].proposed
        /\ ballot[n][e][r].committed \subseteq ballot'[n][e][r].committed

BallotsType == [Peer -> [Entry -> Seq(Ballot)]]

OnlyBallot(n, e, r, b) ==
    \A m \in Peer, x \in Entry :
       /\ DOMAIN ballot'[m][x] = DOMAIN ballot[m][x]
       /\ \A i \in DOMAIN ballot[m][x] : ballot'[m][x][i] =
             IF m = n /\ x = e /\ i = r THEN b ELSE ballot[m][x][i]

\* Replacing one ballot by one with at least its votes keeps the type of the map and
\* leaves every other ballot alone (votePropose, voteCommit, close).
LEMMA BallotUpdate ==
  ASSUME TypeOK, NEW n \in Peer, NEW e \in Entry, NEW r \in DOMAIN ballot[n][e],
         NEW b \in Ballot,
         ballot[n][e][r].proposed \subseteq b.proposed,
         ballot[n][e][r].committed \subseteq b.committed,
         ballot' = [ballot EXCEPT ![n][e][r] = b]
  PROVE  /\ ballot' \in BallotsType /\ BallotsGrow
         /\ OnlyBallot(n, e, r, b)
<1>1. ballot[n][e] \in Seq(Ballot)
  BY DEF TypeOK
<1>2. [ballot[n][e] EXCEPT ![r] = b] \in Seq(Ballot)
  BY <1>1
<1>3. ballot' \in BallotsType
  BY <1>2 DEF TypeOK, BallotsType
<1>4. ASSUME NEW m \in Peer, NEW x \in Entry, NEW i \in DOMAIN ballot[m][x]
      PROVE  /\ i \in DOMAIN ballot'[m][x]
             /\ ballot'[m][x][i] = IF m = n /\ x = e /\ i = r THEN b ELSE ballot[m][x][i]
  BY DEF TypeOK
<1>5. ASSUME NEW m \in Peer, NEW x \in Entry
      PROVE  DOMAIN ballot'[m][x] = DOMAIN ballot[m][x]
  BY DEF TypeOK
<1> QED
  BY <1>3, <1>4, <1>5 DEF BallotsGrow, OnlyBallot

\* The step sets the votes of one ballot.
SetsVotes(n, e, r, proposed, committed) ==
    \A m \in Peer, x \in Entry :
       /\ DOMAIN ballot'[m][x] = DOMAIN ballot[m][x]
       /\ \A i \in DOMAIN ballot[m][x] :
             IF m = n /\ x = e /\ i = r
             THEN ballot'[m][x][i].proposed = proposed /\ ballot'[m][x][i].committed = committed
             ELSE ballot'[m][x][i] = ballot[m][x][i]

\* A step on one ballot sets the votes of that ballot only.
LEMMA OnlyBallotVotes ==
  ASSUME NEW n, NEW e, NEW r, NEW b, OnlyBallot(n, e, r, b)
  PROVE  SetsVotes(n, e, r, b.proposed, b.committed)
  BY DEF OnlyBallot, SetsVotes

\* The votes of a ballot are peers of the set.
LEMMA BallotInRange ==
  ASSUME TypeOK, NEW n \in Peer, NEW e \in Entry, NEW r \in DOMAIN ballot[n][e]
  PROVE  /\ ballot[n][e][r] \in Ballot
         /\ ballot[n][e][r].proposed \subseteq Peer
         /\ ballot[n][e][r].committed \subseteq Peer
<1>1. ballot[n][e] \in Seq(Ballot)
  BY DEF TypeOK
<1>2. ballot[n][e][r] \in Ballot
  BY <1>1, SeqFacts
<1> QED
  BY <1>2 DEF Ballot

\* A step that touches no ballot keeps their types and votes.
LEMMA BallotSame ==
  ASSUME TypeOK, UNCHANGED ballot
  PROVE  ballot' \in BallotsType /\ BallotsGrow
  BY DEF TypeOK, BallotsType, BallotsGrow

\* votePropose adds a vote and loses none.
LEMMA ProposeType ==
  ASSUME TypeOK, NEW n \in Peer, NEW e \in Entry, NEW r \in DOMAIN ballot[n][e],
         NEW p \in Peer, ballot' = [ballot EXCEPT ![n][e][r].proposed = @ \cup {p}]
  PROVE  /\ ballot' \in BallotsType /\ BallotsGrow
         /\ SetsVotes(n, e, r, ballot[n][e][r].proposed \cup {p}, ballot[n][e][r].committed)
<1> DEFINE b == [ballot[n][e][r] EXCEPT !.proposed = @ \cup {p}]
<1>1. /\ b \in Ballot /\ ballot[n][e][r].proposed \subseteq b.proposed
      /\ ballot[n][e][r].committed \subseteq b.committed
  BY BallotInRange DEF Ballot
<1>2. ballot' = [ballot EXCEPT ![n][e][r] = b]
  OBVIOUS
<1>3. /\ b.proposed = ballot[n][e][r].proposed \cup {p}
      /\ b.committed = ballot[n][e][r].committed
  BY BallotInRange DEF Ballot
<1> HIDE DEF b
<1>4. ballot' \in BallotsType /\ BallotsGrow /\ OnlyBallot(n, e, r, b)
  BY <1>1, <1>2, BallotUpdate
<1>5. SetsVotes(n, e, r, b.proposed, b.committed)
  BY <1>4, OnlyBallotVotes
<1> QED
  BY <1>3, <1>4, <1>5

\* voteCommit adds a vote and loses none.
LEMMA CommitType ==
  ASSUME TypeOK, NEW n \in Peer, NEW e \in Entry, NEW r \in DOMAIN ballot[n][e],
         NEW p \in Peer, ballot' = [ballot EXCEPT ![n][e][r].committed = @ \cup {p}]
  PROVE  /\ ballot' \in BallotsType /\ BallotsGrow
         /\ SetsVotes(n, e, r, ballot[n][e][r].proposed, ballot[n][e][r].committed \cup {p})
<1> DEFINE b == [ballot[n][e][r] EXCEPT !.committed = @ \cup {p}]
<1>1. /\ b \in Ballot /\ ballot[n][e][r].proposed \subseteq b.proposed
      /\ ballot[n][e][r].committed \subseteq b.committed
  BY BallotInRange DEF Ballot
<1>2. ballot' = [ballot EXCEPT ![n][e][r] = b]
  OBVIOUS
<1>3. /\ b.committed = ballot[n][e][r].committed \cup {p}
      /\ b.proposed = ballot[n][e][r].proposed
  BY BallotInRange DEF Ballot
<1> HIDE DEF b
<1>4. ballot' \in BallotsType /\ BallotsGrow /\ OnlyBallot(n, e, r, b)
  BY <1>1, <1>2, BallotUpdate
<1>5. SetsVotes(n, e, r, b.proposed, b.committed)
  BY <1>4, OnlyBallotVotes
<1> QED
  BY <1>3, <1>4, <1>5

\* Setting the outcome of a ballot, by close or the timer, changes no vote.
LEMMA StatusType ==
  ASSUME TypeOK, NEW n \in Peer, NEW e \in Entry, NEW r \in DOMAIN ballot[n][e],
         NEW s \in Status, ballot' = [ballot EXCEPT ![n][e][r].status = s]
  PROVE  /\ ballot' \in BallotsType /\ BallotsGrow
         /\ \A m \in Peer, x \in Entry :
              /\ DOMAIN ballot'[m][x] = DOMAIN ballot[m][x]
              /\ \A i \in DOMAIN ballot[m][x] :
                    ballot'[m][x][i].committed = ballot[m][x][i].committed
<1> DEFINE b == [ballot[n][e][r] EXCEPT !.status = s]
<1>1. /\ b \in Ballot /\ ballot[n][e][r].proposed = b.proposed
      /\ ballot[n][e][r].committed = b.committed
  BY BallotInRange DEF Ballot
<1>2. ballot' = [ballot EXCEPT ![n][e][r] = b]
  OBVIOUS
<1> HIDE DEF b
<1>3. /\ ballot[n][e][r].proposed \subseteq b.proposed
      /\ ballot[n][e][r].committed \subseteq b.committed
  BY <1>1
<1>4. /\ ballot' \in BallotsType /\ BallotsGrow
      /\ OnlyBallot(n, e, r, b)
  BY <1>1, <1>2, <1>3, BallotUpdate
<1> QED
  BY <1>1, <1>4 DEF OnlyBallot

\* The steps of a handler that has its ballot, and all others.
Voting == {"self", "source", "selfkey", "key", "selfput", "put", "selfcheck", "check",
           "selfapply", "apply"}
Pc == Voting \cup {"start", "ballot", "heal", "reject"}

\* A handler that votes, or has voted, holds a ballot, and a tracked entry has one.
HoldsBallot == \A c \in calls : c.pc \in Voting => c.round \in DOMAIN ballot[c.node][c.entry]
TrackedHasBallot == \A n \in Peer : \A e \in tracked[n] : ballot[n][e] # <<>>
Typed == TypeOK /\ HoldsBallot /\ TrackedHasBallot

\* What closing a ballot leaves alone.
ClosedOnly ==
    /\ ballot' \in BallotsType /\ BallotsGrow /\ down' \subseteq Peer
    /\ \A n \in Peer, e \in Entry :
         /\ DOMAIN ballot'[n][e] = DOMAIN ballot[n][e]
         /\ \A r \in DOMAIN ballot'[n][e] :
              ballot'[n][e][r].committed = ballot[n][e][r].committed

\* A step that touches no ballot closes none.
LEMMA NotClosed ==
  ASSUME TypeOK, UNCHANGED ballot, down' \subseteq Peer
  PROVE  ClosedOnly
  BY BallotSame DEF ClosedOnly

\* Ballot.close changes no vote, whether it closes, does nothing or panics.
LEMMA CloseType ==
  ASSUME TypeOK, NEW n \in Peer, NEW e \in Entry, NEW r \in DOMAIN ballot[n][e],
         NEW s \in Status, Close(n, e, r, s)
  PROVE  ClosedOnly
<1> DEFINE b == ballot[n][e][r]
<1>0. down \subseteq Peer
  BY DEF TypeOK
<1>1. CASE b.status # "open"
  BY <1>0, <1>1, NotClosed DEF Close
<1>2. CASE b.status = "open" /\ b.proposed = {}
  <2>1. down' \subseteq Peer /\ UNCHANGED ballot
    BY <1>0, <1>2 DEF Close
  <2> QED
    BY <2>1, NotClosed
<1>3. CASE b.status = "open" /\ b.proposed # {}
  <2>1. ballot' = [ballot EXCEPT ![n][e][r].status = s] /\ UNCHANGED down
    BY <1>3 DEF Close
  <2> QED
    BY <1>0, <2>1, StatusType DEF ClosedOnly
<1> QED
  BY <1>1, <1>2, <1>3

\* Nor does ballotGetClose, with or without a tracked ballot.
LEMMA BallotGetCloseType ==
  ASSUME Typed, NEW n \in Peer, NEW e, BallotGetClose(n, e)
  PROVE  ClosedOnly
<1>1. CASE e \in tracked[n]
  <2>1. e \in Entry /\ ballot[n][e] \in Seq(Ballot) /\ ballot[n][e] # <<>>
    BY <1>1 DEF Typed, TypeOK, TrackedHasBallot
  <2>2. Current(n, e) \in DOMAIN ballot[n][e]
    BY <2>1, SeqFacts DEF Current
  <2> QED
    BY <1>1, <2>1, <2>2, CloseType DEF BallotGetClose, Typed, Status
<1>2. CASE e \notin tracked[n]
  <2>1. UNCHANGED ballot /\ down' \subseteq Peer
    BY <1>2 DEF BallotGetClose, Typed, TypeOK
  <2> QED
    BY <2>1, NotClosed DEF Typed
<1> QED
  BY <1>1, <1>2

\* An answer leaves every broadcaster with a well-formed task.
LEMMA AnswerType ==
  ASSUME TypeOK, NEW c \in calls, NEW ok \in BOOLEAN, Answer(c, ok)
  PROVE  task' \in [Worker -> [Peer -> Task]]
<1>1. c \in Call /\ c.src \in Peer /\ c.op \in {"propose", "commit"}
  BY DEF TypeOK, Call
<1>2. ASSUME Awaited(c) PROVE c.by \in Worker
  BY <1>1, <1>2 DEF Awaited, Call
<1>3. ASSUME NEW t \in Task, c.node \in t.waiting
      PROVE  Answered(t, c, ok) \in Task
  BY <1>1, <1>3 DEF Task, Answered
<1>4. task \in [Worker -> [Peer -> Task]]
  BY DEF TypeOK
<1>5. CASE Awaited(c)
  <2>1. Answered(task[c.by][c.src], c, ok) \in Task
    BY <1>1, <1>2, <1>3, <1>4, <1>5 DEF Awaited
  <2>2. task' = [task EXCEPT ![c.by][c.src] = Answered(task[c.by][c.src], c, ok)]
    BY <1>5 DEF Answer
  <2> QED
    BY <1>1, <1>2, <1>4, <1>5, <2>1, <2>2
<1> QED
  BY <1>4, <1>5 DEF Answer

\* A handler that takes its next step is still a call.
LEMMA GotoOnlyType ==
  ASSUME TypeOK, NEW c \in calls,
         NEW pc \in Pc,
         Goto(c, pc)
  PROVE  calls' \subseteq Call
<1>1. c \in Call
  BY DEF TypeOK
<1>2. [c EXCEPT !.pc = pc] \in Call
  BY <1>1 DEF Call, Pc, Voting
<1> QED
  BY <1>2 DEF TypeOK, Goto

\* So is one that has found or opened its ballot.
LEMMA GotoRoundType ==
  ASSUME TypeOK, NEW c \in calls,
         NEW pc \in Pc,
         NEW r \in Nat, GotoRound(c, pc, r)
  PROVE  calls' \subseteq Call
<1>1. c \in Call
  BY DEF TypeOK
<1>2. [c EXCEPT !.pc = pc, !.round = r] \in Call
  BY <1>1 DEF Call, Pc, Voting
<1> QED
  BY <1>2 DEF TypeOK, GotoRound

\* A call is of a peer, an entry and, once it has found or opened it, an existing ballot.
LEMMA AtType ==
  ASSUME Typed, NEW c \in calls
  PROVE  /\ c \in Call /\ c.node \in Peer /\ c.src \in Peer /\ c.entry \in Entry
         /\ c.pc \in Voting => c.round \in DOMAIN ballot[c.node][c.entry]
         /\ calls \ {c} \subseteq Call
  BY DEF Typed, TypeOK, HoldsBallot, Call

\* A call that returns leaves well-formed calls and tasks.
LEMMA ReturnType ==
  ASSUME TypeOK, NEW c \in calls, NEW ok \in BOOLEAN, Return(c, ok)
  PROVE  calls' \subseteq Call /\ task' \in [Worker -> [Peer -> Task]]
  BY AnswerType DEF Return, TypeOK

\* What is put on pch or cch is an entry.
LEMMA QueueType ==
  ASSUME TypeOK, NEW w \in Worker, NEW n \in Peer, NEW e \in Entry, Enqueue(w, n, e)
  PROVE  queue' \in [Worker -> [Peer -> Seq(Entry)]]
<1>1. queue[w][n] \in Seq(Entry)
  BY DEF TypeOK
<1>2. Append(queue[w][n], e) \in Seq(Entry)
  BY <1>1, SeqFacts
<1> QED
  BY <1>2 DEF TypeOK, Enqueue

\* upsertKeyAndBroadcast goes on to NewKey or to pch.
LEMMA UpsertGoes ==
  ASSUME NEW c, UpsertKeyAndBroadcast(c)
  PROVE  \E pc \in {"selfkey", "key", "selfput", "put"} : Goto(c, pc)
  BY DEF UpsertKeyAndBroadcast

\* A handler that is done with a vote goes on to that of the source or returns.
LEMMA Resumes ==
  ASSUME NEW c, Resume(c)
  PROVE  (Goto(c, "source") /\ UNCHANGED task) \/ Return(c, TRUE)
  BY DEF Resume

\* A handler is about to get or create the ballot.
Opening(n, e) == \E c \in calls : c.node = n /\ c.entry = e /\ c.pc = "ballot"

\* No vote to commit is cast, and a new ballot, which a handler opens, has none.
NoCommitVote ==
    \A n \in Peer, e \in Entry : \A r \in DOMAIN ballot'[n][e] :
        \/ r \in DOMAIN ballot[n][e] /\ ballot'[n][e][r].committed = ballot[n][e][r].committed
        \/ ballot'[n][e][r].committed = {} /\ Opening(n, e)

\* Get-or-create in Propose opens a ballot without votes and keeps the others.
LEMMA OpenType ==
  ASSUME TypeOK, NEW n \in Peer, NEW e \in Entry,
         ballot' = [ballot EXCEPT ![n][e] = Append(@, NewBallot)]
  PROVE  /\ ballot' \in BallotsType /\ BallotsGrow
         /\ Current(n, e) + 1 \in DOMAIN ballot'[n][e]
         /\ Opening(n, e) => NoCommitVote
<1> DEFINE b == ballot[n][e]
<1>1. b \in Seq(Ballot) /\ NewBallot \in Ballot /\ NewBallot.committed = {}
  BY DEF TypeOK, Ballot, Status, NewBallot
<1>2. /\ Append(b, NewBallot) \in Seq(Ballot)
      /\ DOMAIN Append(b, NewBallot) = 1..(Len(b) + 1)
      /\ DOMAIN b = 1..Len(b) /\ Len(b) \in Nat
      /\ \A r \in 1..Len(b) : Append(b, NewBallot)[r] = b[r]
      /\ Append(b, NewBallot)[Len(b) + 1] = NewBallot
  BY <1>1
<1>3. \A m \in Peer, x \in Entry :
         ballot'[m][x] = IF m = n /\ x = e THEN Append(b, NewBallot) ELSE ballot[m][x]
  BY DEF TypeOK
<1>4. ballot' \in BallotsType
  BY <1>2 DEF BallotsType, TypeOK
<1> HIDE DEF b
<1>5. \A r \in DOMAIN Append(b, NewBallot) :
         \/ r \in DOMAIN b /\ Append(b, NewBallot)[r] = b[r]
         \/ Append(b, NewBallot)[r].committed = {}
  BY <1>1, <1>2
<1>6. \A r \in DOMAIN b : r \in DOMAIN Append(b, NewBallot) /\ Append(b, NewBallot)[r] = b[r]
  BY <1>2
<1>7. BallotsGrow
  BY <1>3, <1>6 DEF BallotsGrow, b
<1>8. Current(n, e) + 1 \in DOMAIN ballot'[n][e]
  <2>1. Len(b) + 1 \in DOMAIN Append(b, NewBallot)
    BY <1>2
  <2>2. Current(n, e) = Len(b)
    BY DEF b, Current
  <2>3. ballot'[n][e] = Append(b, NewBallot)
    BY <1>3
  <2> QED
    BY <2>1, <2>2, <2>3
<1>9. Opening(n, e) => NoCommitVote
  BY <1>3, <1>5 DEF b, NoCommitVote
<1> QED
  BY <1>4, <1>7, <1>8, <1>9

\* Handlers of Propose.
LEMMA ProposeStepType ==
  ASSUME Typed, NEW c \in calls,
         \/ VerifyEntry(c) \/ OpenBallot(c) \/ RequestHeal(c) \/ RejectEntry(c)
         \/ ProposeSelf(c) \/ ProposeSource(c) \/ NewKey(c)
  PROVE  TypeOK' /\ BallotsGrow
<1> DEFINE n == c.node
           e == c.entry
<1>0. TypeOK /\ c \in Call /\ n \in Peer /\ c.src \in Peer /\ e \in Entry
  BY AtType DEF Typed
<1>1. CASE OpenBallot(c)
  <2>1. ballot[n][e] \in Seq(Ballot) /\ Current(n, e) \in Nat /\ Current(n, e) + 1 \in Nat
    BY <1>0 DEF TypeOK, Current
  <2>2. calls' \subseteq Call
    <3>1. CASE e \in tracked[n]
      BY <1>0, <1>1, <2>1, <3>1, GotoRoundType DEF OpenBallot, Pc, Voting
    <3>2. CASE e \notin tracked[n]
      <4>1. /\ (IF c.src = n THEN "source" ELSE "self") \in Pc
            /\ GotoRound(c, IF c.src = n THEN "source" ELSE "self", Current(n, e) + 1)
        BY <1>1, <3>2 DEF OpenBallot, Pc, Voting
      <4> QED
        BY <1>0, <2>1, <4>1, GotoRoundType
    <3> QED
      BY <3>1, <3>2
  <2>3. ballot' \in BallotsType /\ BallotsGrow
    <3>1. CASE e \in tracked[n]
      BY <1>0, <1>1, <3>1, BallotSame DEF OpenBallot
    <3>2. CASE e \notin tracked[n]
      BY <1>0, <1>1, <3>2, OpenType DEF OpenBallot
    <3> QED
      BY <3>1, <3>2
  <2>4. tracked' \in [Peer -> SUBSET Entry]
    <3>1. UNCHANGED tracked \/ tracked' = [tracked EXCEPT ![n] = @ \cup {e}]
      BY <1>1 DEF OpenBallot
    <3>2. tracked \in [Peer -> SUBSET Entry]
      BY <1>0 DEF TypeOK
    <3> QED
      BY <1>0, <3>1, <3>2
  <2> QED
    BY <1>0, <1>1, <2>2, <2>3, <2>4 DEF OpenBallot, TypeOK, BallotsType
<1>2. CASE RequestHeal(c)
  <2>1. calls' \subseteq Call /\ task' \in [Worker -> [Peer -> Task]]
    BY <1>0, <1>2, ReturnType DEF RequestHeal
  <2>2. hch' \in [Peer -> Nat]
    BY <1>0, <1>2 DEF RequestHeal, TypeOK
  <2> QED
    BY <1>0, <1>2, <2>1, <2>2, BallotSame DEF RequestHeal, TypeOK
<1>3. CASE RejectEntry(c)
  <2>1. calls' \subseteq Call /\ task' \in [Worker -> [Peer -> Task]]
    BY <1>0, <1>3, ReturnType DEF RejectEntry
  <2>2. ClosedOnly
    BY <1>0, <1>3, BallotGetCloseType DEF RejectEntry
  <2> QED
    BY <1>0, <1>3, <2>1, <2>2 DEF RejectEntry, TypeOK, ClosedOnly, BallotsType
<1>a. ASSUME NEW pc \in Pc, Goto(c, pc), UNCHANGED task
      PROVE  calls' \subseteq Call /\ task' \in [Worker -> [Peer -> Task]]
  BY <1>0, <1>a, GotoOnlyType DEF TypeOK
<1>b. ASSUME UpsertKeyAndBroadcast(c), UNCHANGED task
      PROVE  calls' \subseteq Call /\ task' \in [Worker -> [Peer -> Task]]
  <2>1. PICK pc \in {"selfkey", "key", "selfput", "put"} : Goto(c, pc)
    BY <1>b, UpsertGoes
  <2>2. pc \in Pc
    BY DEF Pc, Voting
  <2> QED
    BY <1>a, <1>b, <2>1, <2>2
<1>4. CASE ProposeSelf(c)
  <2>0. c.round \in DOMAIN ballot[n][e]
    BY <1>4, AtType DEF ProposeSelf, At, Voting
  <2>1. calls' \subseteq Call
    <3>1. UNCHANGED task /\ (UpsertKeyAndBroadcast(c) \/ Goto(c, "source"))
      BY <1>4 DEF ProposeSelf
    <3>2. "source" \in Pc
      BY DEF Pc, Voting
    <3> QED
      BY <1>a, <1>b, <3>1, <3>2
  <2>2. ballot' \in BallotsType /\ BallotsGrow
    BY <1>0, <1>4, <2>0, ProposeType, BallotSame DEF ProposeSelf, VoteAs
  <2> QED
    BY <1>0, <1>4, <2>1, <2>2 DEF ProposeSelf, TypeOK, BallotsType
<1>5. CASE ProposeSource(c)
  <2>0. c.round \in DOMAIN ballot[n][e]
    BY <1>5, AtType DEF ProposeSource, At, Voting
  <2>1. calls' \subseteq Call /\ task' \in [Worker -> [Peer -> Task]]
    <3>1. ASSUME Return(c, FALSE) \/ Return(c, TRUE)
          PROVE  calls' \subseteq Call /\ task' \in [Worker -> [Peer -> Task]]
      BY <1>0, <3>1, ReturnType
    <3>2. "check" \in Pc
      BY DEF Pc, Voting
    <3> QED
      BY <1>5, <1>a, <1>b, <3>1, <3>2 DEF ProposeSource
  <2>2. ballot' \in BallotsType /\ BallotsGrow
    BY <1>0, <1>5, <2>0, ProposeType, BallotSame DEF ProposeSource, VoteAs
  <2> QED
    BY <1>0, <1>5, <2>1, <2>2 DEF ProposeSource, TypeOK, BallotsType
<1>6. CASE VerifyEntry(c)
  <2>1. PICK pc \in {"ballot", "heal", "reject"} : Goto(c, pc)
    BY <1>6 DEF VerifyEntry
  <2>2. pc \in Pc
    BY DEF Pc
  <2>3. calls' \subseteq Call
    BY <1>0, <2>1, <2>2, GotoOnlyType
  <2> QED
    BY <1>0, <1>6, <2>3, BallotSame DEF VerifyEntry, TypeOK
<1>7. CASE NewKey(c)
  <2>1. PICK pc \in {"selfput", "put"} : Goto(c, pc)
    BY <1>7 DEF NewKey
  <2>2. pc \in Pc
    BY DEF Pc, Voting
  <2>3. calls' \subseteq Call /\ keyed' \subseteq Peer
    BY <1>0, <1>7, <2>1, <2>2, GotoOnlyType DEF NewKey, TypeOK
  <2> QED
    BY <1>0, <1>7, <2>3, BallotSame DEF NewKey, TypeOK
<1> QED
  BY <1>1, <1>2, <1>3, <1>4, <1>5, <1>6, <1>7

\* Handlers of Commit.
LEMMA CommitStepType ==
  ASSUME Typed, NEW c \in calls,
         \/ Put(c) \/ FindBallot(c) \/ VoteCommit(c)
         \/ CheckFails(c) \/ AppendVoted(c) \/ ApplyVoted(c)
  PROVE  TypeOK' /\ BallotsGrow
<1> DEFINE n == c.node
           e == c.entry
<1>0. TypeOK /\ c \in Call /\ n \in Peer /\ c.src \in Peer /\ e \in Entry
  BY AtType DEF Typed
<1>a. ASSUME Return(c, FALSE) \/ Return(c, TRUE)
      PROVE  calls' \subseteq Call /\ task' \in [Worker -> [Peer -> Task]]
  BY <1>0, <1>a, ReturnType
<1>b. ASSUME NEW pc \in Pc,
             Goto(c, pc) /\ UNCHANGED task
      PROVE  calls' \subseteq Call /\ task' \in [Worker -> [Peer -> Task]]
  BY <1>0, <1>b, GotoOnlyType DEF TypeOK
<1>c. /\ "source" \in Pc /\ "selfcheck" \in Pc /\ "check" \in Pc /\ "self" \in Pc
      /\ "selfput" \in Pc /\ "put" \in Pc /\ "selfapply" \in Pc /\ "apply" \in Pc
  BY DEF Pc, Voting
<1>d. ASSUME Resume(c)
      PROVE  calls' \subseteq Call /\ task' \in [Worker -> [Peer -> Task]]
  BY <1>a, <1>b, <1>c, <1>d, Resumes
<1>1. CASE FindBallot(c)
  <2>1. CASE e \in tracked[n]
    <3>1. Current(n, e) \in Nat
      BY <1>0 DEF TypeOK, Current
    <3>2. GotoRound(c, IF c.src = n THEN "source" ELSE "self", Current(n, e)) /\ UNCHANGED task
      BY <1>1, <2>1 DEF FindBallot
    <3>3. calls' \subseteq Call
      <4>1. CASE c.src = n
        BY <1>0, <1>c, <3>1, <3>2, <4>1, GotoRoundType
      <4>2. CASE c.src # n
        BY <1>0, <1>c, <3>1, <3>2, <4>2, GotoRoundType
      <4> QED
        BY <4>1, <4>2
    <3> QED
      BY <1>0, <1>1, <3>2, <3>3, BallotSame DEF FindBallot, TypeOK
  <2>2. CASE e \notin tracked[n]
    BY <1>0, <1>1, <2>2, <1>a, BallotSame DEF FindBallot, TypeOK
  <2> QED
    BY <2>1, <2>2
<1>2. CASE VoteCommit(c)
  <2>0. c.round \in DOMAIN ballot[n][e]
    BY <1>2, AtType DEF VoteCommit, At, Voting
  <2>1. calls' \subseteq Call /\ task' \in [Worker -> [Peer -> Task]]
    BY <1>2, <1>a, <1>b, <1>c, <1>d DEF VoteCommit
  <2>2. ballot' \in BallotsType /\ BallotsGrow
    <3>1. \/ UNCHANGED ballot
          \/ ballot' = [ballot EXCEPT ![n][e][c.round].committed = @ \cup {n}]
          \/ ballot' = [ballot EXCEPT ![n][e][c.round].committed = @ \cup {c.src}]
      BY <1>2 DEF VoteCommit
    <3>2. CASE UNCHANGED ballot
      BY <1>0, <3>2, BallotSame
    <3>3. CASE ballot' = [ballot EXCEPT ![n][e][c.round].committed = @ \cup {n}]
      BY <1>0, <2>0, <3>3, CommitType
    <3>4. CASE ballot' = [ballot EXCEPT ![n][e][c.round].committed = @ \cup {c.src}]
      BY <1>0, <2>0, <3>4, CommitType
    <3> QED
      BY <3>1, <3>2, <3>3, <3>4
  <2>3. pledged' \in [Peer -> SUBSET Entry]
    <3>1. UNCHANGED pledged \/ pledged' = [pledged EXCEPT ![n] = @ \cup {e}]
      BY <1>2 DEF VoteCommit
    <3>2. pledged \in [Peer -> SUBSET Entry]
      BY <1>0 DEF TypeOK
    <3> QED
      BY <1>0, <3>1, <3>2
  <2> QED
    BY <1>0, <1>2, <2>1, <2>2, <2>3 DEF VoteCommit, TypeOK, BallotsType
<1>3. CASE CheckFails(c)
  <2>0. c.round \in DOMAIN ballot[n][e]
    BY <1>3, AtType DEF CheckFails, Voting
  <2>1. calls' \subseteq Call /\ task' \in [Worker -> [Peer -> Task]]
    BY <1>3, <1>d DEF CheckFails
  <2>2. ClosedOnly
    <3>1. (UNCHANGED ballot /\ down' \subseteq Peer) \/ Close(n, e, c.round, "err")
      BY <1>0, <1>3 DEF CheckFails, TypeOK
    <3> QED
      BY <1>0, <2>0, <3>1, CloseType, NotClosed DEF Status
  <2> QED
    BY <1>0, <1>3, <2>1, <2>2 DEF CheckFails, TypeOK, ClosedOnly, BallotsType
<1>4. CASE AppendVoted(c)
  <2>1. calls' \subseteq Call /\ task' \in [Worker -> [Peer -> Task]]
    BY <1>4, <1>b, <1>c DEF AppendVoted
  <2>2. log' \in [Peer -> Seq(Entry)]
    BY <1>0, <1>4, SeqFacts DEF AppendVoted, AppendEntry, TypeOK
  <2> QED
    BY <1>0, <1>4, <2>1, <2>2, BallotSame DEF AppendVoted, TypeOK
<1>5. CASE ApplyVoted(c)
  <2>0. c.round \in DOMAIN ballot[n][e]
    BY <1>5, AtType DEF ApplyVoted, Voting
  <2>1. calls' \subseteq Call /\ task' \in [Worker -> [Peer -> Task]]
    BY <1>5, <1>d DEF ApplyVoted
  <2>2. ClosedOnly
    BY <1>0, <1>5, <2>0, CloseType DEF ApplyVoted, Status
  <2>3. applied' \in [Peer -> Seq(Entry)]
    BY <1>0, <1>5, SeqFacts DEF ApplyVoted, Apply, TypeOK
  <2> QED
    BY <1>0, <1>5, <2>1, <2>2, <2>3 DEF ApplyVoted, TypeOK, ClosedOnly, BallotsType
<1>6. CASE Put(c)
  <2>1. calls' \subseteq Call /\ task' \in [Worker -> [Peer -> Task]]
    BY <1>6, <1>d DEF Put
  <2>2. queue' \in [Worker -> [Peer -> Seq(Entry)]]
    <3>1. PICK w \in Worker : Enqueue(w, n, e)
      BY <1>6 DEF Put, Worker
    <3> QED
      BY <1>0, <3>1, QueueType
  <2> QED
    BY <1>0, <1>6, <2>1, <2>2, BallotSame DEF Put, TypeOK
<1> QED
  BY <1>1, <1>2, <1>3, <1>4, <1>5, <1>6

\* A pulled stream is a part of the leader's log.
LEMMA StreamFacts ==
  ASSUME TypeOK, NEW m \in Peer, NEW n \in Peer
  PROVE  /\ Stream(m, n) \in Seq(Entry)
         /\ \A i \in DOMAIN Stream(m, n) : Stream(m, n)[i] \in Elems(log[m])
<1> DEFINE at == {i \in DOMAIN log[m] : log[m][i] = Last(n)}
<1>1. log[m] \in Seq(Entry)
  BY DEF TypeOK
<1>2. CASE log[n] = <<>> \/ at = {}
  BY <1>1, <1>2 DEF Stream, Elems
<1>3. CASE log[n] # <<>> /\ at # {}
  <2> DEFINE i == CHOOSE j \in at : TRUE
  <2>1. i \in DOMAIN log[m]
    BY <1>3
  <2>2. Stream(m, n) = SubSeq(log[m], i, Len(log[m]))
    BY <1>3 DEF Stream
  <2> HIDE DEF i
  <2>3. /\ SubSeq(log[m], i, Len(log[m])) \in Seq(Entry)
        /\ \A j \in DOMAIN SubSeq(log[m], i, Len(log[m])) :
              /\ i + j - 1 \in DOMAIN log[m]
              /\ SubSeq(log[m], i, Len(log[m]))[j] = log[m][i + j - 1]
    BY SMTT(30), <1>1, <2>1
  <2> QED
    BY <2>2, <2>3 DEF Elems
<1> QED
  BY <1>2, <1>3

\* The rest of a stream consists of entries of the stream.
LEMMA TailFacts ==
  ASSUME NEW S, NEW s \in Seq(S), s # <<>>
  PROVE  /\ Tail(s) \in Seq(S)
         /\ Len(s) # 1 => Tail(s) # <<>>
         /\ \A i \in DOMAIN Tail(s) : i + 1 \in DOMAIN s /\ Tail(s)[i] = s[i + 1]
<1>1. Tail(s) \in Seq(S) /\ Len(Tail(s)) = Len(s) - 1 /\ Len(s) \in Nat
  OBVIOUS
<1>2. Len(s) # 1 => Tail(s) # <<>>
  <2>1. Len(<<>>) = 0
    OBVIOUS
  <2>2. ASSUME Len(s) # 1 PROVE Len(Tail(s)) # 0
    BY <1>1, <2>2
  <2> QED
    BY <2>1, <2>2
<1>3. \A i \in DOMAIN Tail(s) : i + 1 \in DOMAIN s /\ Tail(s)[i] = s[i + 1]
  OBVIOUS
<1> QED
  BY <1>1, <1>2, <1>3

\* PullKeylog goes from one entry of its stream to the next and ends with it.
LEMMA NextPulledType ==
  ASSUME TypeOK, NEW n \in Peer, healer[n].pc # "idle", NextPulled(n)
  PROVE  /\ healer' \in [Peer -> Healer]
         /\ \A m \in Peer : \A i \in DOMAIN healer'[m].stream :
               \E j \in DOMAIN healer[m].stream : healer'[m].stream[i] = healer[m].stream[j]
<1> DEFINE h == healer[n]
<1>1. healer \in [Peer -> Healer]
  BY DEF TypeOK
<1>2. h \in Healer /\ h.stream \in Seq(Entry) /\ h.stream # <<>>
  BY <1>1 DEF Healer
<1>3. /\ Tail(h.stream) \in Seq(Entry) /\ (Len(h.stream) # 1 => Tail(h.stream) # <<>>)
      /\ \A i \in DOMAIN Tail(h.stream) :
            i + 1 \in DOMAIN h.stream /\ Tail(h.stream)[i] = h.stream[i + 1]
  <2> HIDE DEF h
  <2> QED
    BY <1>2, TailFacts
<1> DEFINE g == [pc |-> IF Len(h.stream) = 1 THEN "idle" ELSE "append",
                 stream |-> Tail(h.stream)]
<1>4. g \in Healer
  BY <1>2, <1>3 DEF Healer
<1>5. healer' = [healer EXCEPT ![n] = g]
  BY DEF NextPulled
<1>6. \A m \in Peer : healer'[m] = IF m = n THEN g ELSE healer[m]
  BY <1>1, <1>5
<1>7. g.stream = Tail(h.stream)
  OBVIOUS
<1> HIDE DEF g
<1>8. healer' \in [Peer -> Healer]
  BY <1>1, <1>4, <1>5
<1>9. ASSUME NEW m \in Peer, NEW i \in DOMAIN healer'[m].stream
      PROVE  \E j \in DOMAIN healer[m].stream : healer'[m].stream[i] = healer[m].stream[j]
  <2>1. CASE m = n
    BY <1>3, <1>6, <1>7, <1>9, <2>1
  <2>2. CASE m # n
    BY <1>6, <1>9, <2>2
  <2> QED
    BY <2>1, <2>2
<1> QED
  BY <1>8, <1>9

\* The steps of the healer keep every type.
LEMMA HealStepType ==
  ASSUME TypeOK, NEW n \in Peer, HealKeys(n)
  PROVE  TypeOK'
<1>1. healer \in [Peer -> Healer] /\ hch \in [Peer -> Nat]
  BY DEF TypeOK
<1>2. CASE Heal(n)
  <2>1. hch' \in [Peer -> Nat]
    BY <1>1, <1>2 DEF Heal
  <2>2. keyed' \subseteq Peer /\ healer' \in [Peer -> Healer]
    <3>1. PICK m \in Leaders :
            IF m = n \/ Last(m) = Last(n) THEN UNCHANGED <<healer, keyed>>
            ELSE /\ keyed' = keyed \cup {n}
                 /\ healer' = [healer EXCEPT ![n] =
                       [pc |-> IF Stream(m, n) = <<>> THEN "idle" ELSE "append",
                        stream |-> Stream(m, n)]]
      BY <1>2 DEF Heal
    <3>2. Stream(m, n) \in Seq(Entry)
      BY <3>1, StreamFacts DEF Leaders
    <3>3. [pc |-> IF Stream(m, n) = <<>> THEN "idle" ELSE "append",
           stream |-> Stream(m, n)] \in Healer
      BY <3>2 DEF Healer
    <3> QED
      BY <1>1, <3>1, <3>3 DEF TypeOK
  <2> QED
    BY <1>2, <2>1, <2>2 DEF Heal, TypeOK
<1>3. CASE AppendPulled(n)
  <2>1. healer[n] \in Healer /\ healer[n].pc = "append"
    BY <1>1, <1>3 DEF AppendPulled
  <2>2. healer[n].stream \in Seq(Entry) /\ healer[n].stream # <<>>
    BY <2>1 DEF Healer
  <2>3. Head(healer[n].stream) \in Entry
    BY <2>2, SeqFacts
  <2>4. healer' \in [Peer -> Healer] /\ log' \in [Peer -> Seq(Entry)]
    <3>1. CASE AppendEntry(n, Head(healer[n].stream)) /\ healer' = [healer EXCEPT ![n].pc = "apply"]
      <4>1. [healer[n] EXCEPT !.pc = "apply"] \in Healer
        BY <2>1 DEF Healer
      <4>2. log' \in [Peer -> Seq(Entry)]
        BY <2>3, <3>1, SeqFacts DEF AppendEntry, TypeOK
      <4> QED
        BY <1>1, <3>1, <4>1, <4>2
    <3>2. CASE NextPulled(n) /\ UNCHANGED log
      BY <2>1, <3>2, NextPulledType DEF TypeOK
    <3> QED
      BY <1>3, <3>1, <3>2 DEF AppendPulled
  <2> QED
    BY <1>3, <2>4 DEF AppendPulled, TypeOK
<1>4. CASE ApplyPulled(n)
  <2>1. healer[n] \in Healer /\ healer[n].pc = "apply"
    BY <1>1, <1>4 DEF ApplyPulled
  <2>2. healer[n].stream \in Seq(Entry) /\ healer[n].stream # <<>>
    BY <2>1 DEF Healer
  <2>3. Head(healer[n].stream) \in Entry
    BY <2>2, SeqFacts
  <2>4. applied' \in [Peer -> Seq(Entry)]
    BY <1>4, <2>3, SeqFacts DEF ApplyPulled, Apply, TypeOK
  <2>5. healer' \in [Peer -> Healer]
    BY <1>4, <2>1, NextPulledType DEF ApplyPulled
  <2> QED
    BY <1>4, <2>4, <2>5 DEF ApplyPulled, TypeOK
<1> QED
  BY <1>2, <1>3, <1>4 DEF HealKeys

\* Goroutines and the environment.
LEMMA OtherStepType ==
  ASSUME Typed, ConstantsAssumption,
         \/ \E n \in Contacts, e \in Entry : \E src \in {n, First} : ClientPropose(n, src, e)
         \/ \E w \in Worker, n \in Peer : Broadcaster(w, n)
         \/ \E n \in Peer : CommitLocally(n) \/ HealKeys(n)
         \/ \E n \in Peer : TimeoutAny(n) \/ Reap(n) \/ Crash(n)
         \/ \E c \in calls : CallDead(c) \/ Disconnect(c) \/ Cancel(c)
  PROVE  TypeOK' /\ BallotsGrow
<1>0. TypeOK
  BY DEF Typed
<1>1. ASSUME NEW n \in Contacts, NEW e \in Entry, NEW src \in {n, First}, ClientPropose(n, src, e)
      PROVE  TypeOK' /\ BallotsGrow
  <2>1. n \in Peer /\ src \in Peer
    BY DEF ConstantsAssumption
  <2>2. proposals \in Nat /\ calls \subseteq Call
    BY <1>0 DEF TypeOK
  <2>3. [op |-> "propose", node |-> n, src |-> src, by |-> "client", k |-> proposals + 1,
         entry |-> e, round |-> 0, pc |-> "start"] \in Call
    BY <2>1, <2>2 DEF Call
  <2>4. calls' \subseteq Call /\ proposals' \in Nat
    BY <1>1, <2>2, <2>3 DEF ClientPropose
  <2> QED
    BY <1>0, <1>1, <2>4, BallotSame DEF ClientPropose, TypeOK
<1>2. ASSUME NEW w \in Worker, NEW n \in Peer, Broadcast(w, n)
      PROVE  TypeOK' /\ BallotsGrow
  <2> DEFINE t == task[w][n]
             e == Head(queue[w][n])
  <2>1. /\ queue[w][n] \in Seq(Entry) /\ queue[w][n] # <<>>
        /\ t \in Task
    BY <1>0, <1>2 DEF TypeOK, Broadcast
  <2>2. e \in Entry /\ Tail(queue[w][n]) \in Seq(Entry) /\ t.k + 1 \in Nat
    <3>1. e \in Entry /\ Tail(queue[w][n]) \in Seq(Entry)
      BY <2>1, SeqFacts
    <3>2. t.k \in Nat
      BY <2>1 DEF Task
    <3>3. t.k + 1 \in Nat
      <4> HIDE DEF t
      <4> QED BY <3>2
    <3> QED BY <3>1, <3>3, Zenon
  <2>3. BroadcastOf(w, n, e, t.k + 1) \subseteq Call
    <3> DEFINE k == t.k + 1
    <3>1. k \in Nat /\ e \in Entry
      BY <2>2
    <3> HIDE DEF k, e
    <3>2. ASSUME NEW m \in Peer, NEW op \in {"propose", "commit"}
          PROVE  [op |-> op, node |-> m, src |-> n, by |-> w, k |-> k, entry |-> e, round |-> 0,
                  pc |-> "start"] \in Call
      BY <3>1 DEF Call
    <3>3. BroadcastOf(w, n, e, k) \subseteq Call
      BY <3>2 DEF BroadcastOf
    <3> QED BY <3>3 DEF k
  <2>4. queue' \in [Worker -> [Peer -> Seq(Entry)]]
    BY <1>0, <1>2, <2>2 DEF TypeOK, Broadcast
  <2>5. [phase |-> "send", entry |-> e, k |-> t.k + 1, waiting |-> Peer \ {n}] \in Task
    BY <2>2 DEF Task, EntryOrZero
  <2>6. task' \in [Worker -> [Peer -> Task]]
    BY <1>0, <1>2, <2>5 DEF TypeOK, Broadcast
  <2> QED
    BY <1>0, <1>2, <2>3, <2>4, <2>6, BallotSame DEF Broadcast, TypeOK
<1>3. ASSUME NEW w \in Worker, NEW n \in Peer, BroadcastFailed(w, n)
      PROVE  TypeOK' /\ BallotsGrow
  <2>1. ClosedOnly
    BY <1>3, BallotGetCloseType DEF BroadcastFailed
  <2>2. task \in [Worker -> [Peer -> Task]]
    BY <1>0 DEF TypeOK
  <2>3. task[w][n] \in Task /\ task[w][n].phase = "failed"
    BY <1>3, <2>2 DEF BroadcastFailed
  <2>4. [task[w][n] EXCEPT !.phase = "idle"] \in Task
    BY <2>3 DEF Task
  <2>5. task' \in [Worker -> [Peer -> Task]]
    BY <1>3, <2>2, <2>4 DEF BroadcastFailed
  <2> QED
    BY <1>0, <1>3, <2>1, <2>5 DEF BroadcastFailed, TypeOK, ClosedOnly, BallotsType
<1>4. ASSUME NEW n \in Peer, CommitLocally(n)
      PROVE  TypeOK' /\ BallotsGrow
  <2> DEFINE t == task["pch"][n]
  <2>1. task \in [Worker -> [Peer -> Task]] /\ "pch" \in Worker /\ calls \subseteq Call
    BY <1>0 DEF TypeOK, Worker
  <2>2. t \in Task /\ t.phase = "send"
    <3>1. t.phase = "send"
      BY <1>4 DEF CommitLocally
    <3> QED
      BY <2>1, <3>1
  <2>3. t.entry \in Entry /\ t.k \in Nat /\ [t EXCEPT !.phase = "commit", !.waiting = {n}] \in Task
    BY <2>2 DEF Task
  <2>4. task' \in [Worker -> [Peer -> Task]]
    BY <1>4, <2>1, <2>3 DEF CommitLocally
  <2>5. [op |-> "commit", node |-> n, src |-> n, by |-> "pch", k |-> t.k,
         entry |-> t.entry, round |-> 0, pc |-> "start"] \in Call
    BY <2>1, <2>3 DEF Call
  <2>6. calls' \subseteq Call
    BY <1>4, <2>1, <2>5 DEF CommitLocally
  <2> QED
    BY <1>0, <1>4, <2>4, <2>6, BallotSame DEF CommitLocally, TypeOK
<1>5. ASSUME NEW n \in Peer, HealKeys(n)
      PROVE  TypeOK' /\ BallotsGrow
  BY <1>0, <1>5, HealStepType, BallotSame DEF HealKeys, Heal, AppendPulled, ApplyPulled
<1>6. ASSUME NEW n \in Peer, NEW e \in Entry, NEW r \in DOMAIN ballot[n][e], Timeout(n, e, r)
      PROVE  TypeOK' /\ BallotsGrow
  <2>1. ballot' \in BallotsType /\ BallotsGrow
    BY <1>0, <1>6, StatusType DEF Timeout, Status
  <2> QED
    BY <1>0, <1>6, <2>1 DEF Timeout, TypeOK, BallotsType
<1>7. ASSUME NEW n \in Peer, Reap(n) \/ Crash(n)
      PROVE  TypeOK' /\ BallotsGrow
  <2>1. CASE Reap(n)
    <3>1. tracked' \in [Peer -> SUBSET Entry]
      BY <1>0, <2>1 DEF Reap, TypeOK
    <3> QED
      BY <1>0, <2>1, <3>1, BallotSame DEF Reap, TypeOK
  <2>2. CASE Crash(n)
    <3>1. down' \subseteq Peer /\ faults' \in Nat
      BY <1>0, <2>2 DEF Crash, TypeOK
    <3>2. BallotsGrow
      BY <1>0, <2>2, BallotSame DEF Crash
    <3>3. TypeOK'
      BY <1>0, <2>2, <3>1 DEF Crash, TypeOK
    <3> QED
      BY <3>2, <3>3
  <2> QED
    BY <1>7, <2>1, <2>2
<1>8. ASSUME NEW c \in calls, CallDead(c) \/ Disconnect(c) \/ Cancel(c)
      PROVE  TypeOK' /\ BallotsGrow
  <2>1. CASE CallDead(c)
    BY <1>0, <2>1, ReturnType, BallotSame DEF CallDead, TypeOK
  <2>2. CASE Disconnect(c)
    <3>1. task' \in [Worker -> [Peer -> Task]]
      BY <1>0, <2>2, AnswerType DEF Disconnect
    <3>2. faults' \in Nat
      BY <1>0, <2>2 DEF Disconnect, TypeOK
    <3> QED
      BY <1>0, <2>2, <3>1, <3>2, BallotSame DEF Disconnect, TypeOK
  <2>3. CASE Cancel(c)
    BY <1>0, <2>3, BallotSame DEF Cancel, TypeOK
  <2> QED
    BY <1>8, <2>1, <2>2, <2>3
<1> QED
  BY <1>1, <1>2, <1>3, <1>4, <1>5, <1>6, <1>7, <1>8 DEF Broadcaster, TimeoutAny

\* Only the steps of a handler give a call a ballot, and that ballot exists.
LEMMA HoldsBallotStep ==
  ASSUME Typed, ConstantsAssumption, Next, BallotsGrow
  PROVE  HoldsBallot'
<1> DEFINE Held(c) == c.pc \in Voting => c.round \in DOMAIN ballot'[c.node][c.entry]
<1>0. /\ TypeOK /\ \A c \in calls : c \in Call /\ c.node \in Peer /\ c.entry \in Entry
      /\ \A c \in calls : Held(c)
  BY AtType DEF Typed, BallotsGrow
<1>1. SUFFICES ASSUME NEW d \in calls', d \notin calls PROVE Held(d)
  BY <1>0 DEF HoldsBallot
<1>2. ASSUME NEW c \in calls, NEW pc, Goto(c, pc), c.pc \in Voting \/ pc \notin Voting
      PROVE  Held(d)
  <2>1. d = [c EXCEPT !.pc = pc]
    BY <1>1, <1>2 DEF Goto
  <2>2. d.round = c.round /\ d.node = c.node /\ d.entry = c.entry /\ d.pc = pc
    BY <1>0, <2>1 DEF Call
  <2> QED
    BY <1>0, <1>2, <2>2
<1>3. ASSUME NEW c \in calls, NEW pc, NEW r, GotoRound(c, pc, r), r \in DOMAIN ballot'[c.node][c.entry]
      PROVE Held(d)
  <2>1. d = [c EXCEPT !.pc = pc, !.round = r]
    BY <1>1, <1>3 DEF GotoRound
  <2>2. d.round = r /\ d.node = c.node /\ d.entry = c.entry
    BY <1>0, <2>1 DEF Call
  <2> QED
    BY <1>0, <1>3, <2>2
<1>4. ASSUME NEW c \in calls, Handle(c) PROVE Held(d)
  <2> DEFINE n == c.node
             e == c.entry
  <2>0. /\ c \in Call /\ n \in Peer /\ e \in Entry
        /\ e \in tracked[n] => Current(n, e) \in DOMAIN ballot[n][e]
    <3>1. e \in tracked[n] => ballot[n][e] \in Seq(Ballot) /\ ballot[n][e] # <<>>
      BY <1>0 DEF Typed, TrackedHasBallot, TypeOK
    <3> QED
      BY <1>0, <3>1, SeqFacts DEF Current
  <2>1. CASE OpenBallot(c)
    <3>1. CASE e \in tracked[n]
      BY <1>3, <2>0, <2>1, <3>1 DEF OpenBallot, BallotsGrow
    <3>2. CASE e \notin tracked[n]
      <4>1. Current(n, e) + 1 \in DOMAIN ballot'[n][e]
        BY <1>0, <2>0, <2>1, <3>2, OpenType DEF OpenBallot
      <4> QED
        BY <1>3, <2>1, <3>2, <4>1 DEF OpenBallot
    <3> QED
      BY <3>1, <3>2
  <2>2. CASE RequestHeal(c) \/ RejectEntry(c) \/ CallDead(c)
    BY <1>1, <2>2 DEF RequestHeal, RejectEntry, CallDead, Return
  <2>3. CASE VerifyEntry(c)
    <3>1. PICK pc \in {"ballot", "heal", "reject"} : Goto(c, pc)
      BY <2>3 DEF VerifyEntry
    <3> QED
      BY <1>2, <3>1 DEF Voting
  <2>4. CASE FindBallot(c)
    <3>1. e \in tracked[n]
      BY <1>1, <2>4 DEF FindBallot, Return
    <3> QED
      BY <1>3, <2>0, <2>4, <3>1 DEF FindBallot, BallotsGrow
  <2>5. ASSUME c.pc \in Voting, \E pc : Goto(c, pc) PROVE Held(d)
    BY <1>2, <2>5
  <2>6. ASSUME c.pc \in Voting, Resume(c) PROVE Held(d)
    BY <1>1, <2>5, <2>6 DEF Resume, Return
  <2>7. CASE ProposeSelf(c) \/ ProposeSource(c) \/ NewKey(c)
    <3>1. c.pc \in Voting
      BY <2>7 DEF ProposeSelf, ProposeSource, NewKey, At, Voting
    <3>2. \E pc : Goto(c, pc)
      BY <1>1, <2>7, UpsertGoes DEF ProposeSelf, ProposeSource, NewKey, Return
    <3> QED
      BY <2>5, <3>1, <3>2
  <2>8. CASE VoteCommit(c)
    <3>1. c.pc \in Voting
      BY <2>8 DEF VoteCommit, At, Voting
    <3>2. (\E pc : Goto(c, pc)) \/ Resume(c)
      BY <1>1, <2>8 DEF VoteCommit, Return
    <3> QED
      BY <2>5, <2>6, <3>1, <3>2
  <2>9. CASE Put(c) \/ CheckFails(c) \/ ApplyVoted(c) \/ AppendVoted(c)
    <3>1. c.pc \in Voting
      BY <2>9 DEF Put, CheckFails, ApplyVoted, AppendVoted, Voting
    <3>2. (\E pc : Goto(c, pc)) \/ Resume(c)
      BY <2>9 DEF Put, CheckFails, ApplyVoted, AppendVoted
    <3> QED
      BY <2>5, <2>6, <3>1, <3>2
  <2> QED
    BY <1>4, <2>1, <2>2, <2>3, <2>4, <2>7, <2>8, <2>9 DEF Handle
<1>5. CASE \E n \in Contacts, e \in Entry : \E src \in {n, First} : ClientPropose(n, src, e)
  BY <1>1, <1>5 DEF ClientPropose, Voting
<1>6. CASE \E w \in Worker, n \in Peer : Broadcaster(w, n)
  BY <1>1, <1>6 DEF Broadcaster, Broadcast, BroadcastFailed, BroadcastOf, Voting
<1>7. CASE \E n \in Peer : CommitLocally(n)
  BY <1>1, <1>7 DEF CommitLocally, Voting
<1>8. CASE \E n \in Peer : HealKeys(n) \/ TimeoutAny(n) \/ Reap(n) \/ Crash(n)
  BY <1>1, <1>8 DEF HealKeys, Heal, AppendPulled, ApplyPulled, TimeoutAny, Timeout, Reap, Crash
<1>9. CASE \E c \in calls : Disconnect(c) \/ Cancel(c)
  BY <1>1, <1>9 DEF Disconnect, Cancel
<1> QED
  BY <1>4, <1>5, <1>6, <1>7, <1>8, <1>9 DEF Next

\* A tracked entry always has a ballot (Propose, reapBallotsOnce).
LEMMA TrackedHasBallotStep ==
  ASSUME Typed, Next, BallotsGrow, TypeOK'
  PROVE  TrackedHasBallot'
<1>0. \A n \in Peer : tracked[n] \subseteq Entry
  BY DEF Typed, TypeOK
<1>1. \A n \in Peer, e \in Entry : ballot[n][e] # <<>> => ballot'[n][e] # <<>>
  <2> SUFFICES ASSUME NEW n \in Peer, NEW e \in Entry, ballot[n][e] # <<>>
               PROVE  ballot'[n][e] # <<>>
    OBVIOUS
  <2>1. ballot[n][e] \in Seq(Ballot) /\ ballot'[n][e] \in Seq(Ballot)
    BY DEF Typed, TypeOK
  <2>2. Len(ballot[n][e]) \in DOMAIN ballot[n][e]
    BY <2>1, SeqFacts
  <2>3. DOMAIN ballot'[n][e] # {}
    BY <2>2 DEF BallotsGrow
  <2> QED
    BY <2>1, <2>3
<1>2. SUFFICES ASSUME NEW m \in Peer, NEW x \in tracked'[m], x \notin tracked[m]
               PROVE  ballot'[m][x] # <<>>
  BY <1>0, <1>1 DEF TrackedHasBallot, Typed
<1>3. tracked # tracked'
  BY <1>2
<1>4. PICK c \in calls : OpenBallot(c)
  <2>1. ASSUME NEW n \in Peer, Reap(n) PROVE FALSE
    <3>1. PICK closed : tracked' = [tracked EXCEPT ![n] = @ \ closed]
      BY <2>1 DEF Reap
    <3>2. tracked'[m] \subseteq tracked[m]
      BY <3>1 DEF Typed, TypeOK
    <3> QED
      BY <1>2, <3>2
  <2> QED
    BY ZenonT(60), <1>3, <2>1 DEF Next, Handle, ClientPropose, VerifyEntry, RequestHeal, RejectEntry,
        ProposeSelf, ProposeSource, NewKey, Put, FindBallot, VoteCommit, CheckFails, AppendVoted, ApplyVoted, CallDead, Broadcaster, Broadcast,
        BroadcastFailed, CommitLocally, HealKeys, Heal, AppendPulled, ApplyPulled, TimeoutAny, Timeout,
        Crash, Disconnect, Cancel
<1>5. c \in Call /\ c.node \in Peer /\ c.entry \in Entry
  BY AtType
<1>6. c.entry \notin tracked[c.node] /\ m = c.node /\ x = c.entry
  <2>1. /\ c.entry \notin tracked[c.node]
        /\ tracked' = [tracked EXCEPT ![c.node] = @ \cup {c.entry}]
    BY <1>3, <1>4 DEF OpenBallot
  <2>2. tracked \in [Peer -> SUBSET Entry]
    BY DEF Typed, TypeOK
  <2> QED
    BY <1>2, <1>5, <2>1, <2>2
<1>7. Current(m, x) + 1 \in DOMAIN ballot'[m][x]
  BY <1>4, <1>5, <1>6, OpenType DEF OpenBallot, Typed
<1> QED
  BY <1>7

\* Every step of the specification keeps the types and loses no vote.
LEMMA TypedStep ==
  ASSUME Typed, Next
  PROVE  Typed' /\ BallotsGrow
<1>1. TypeOK' /\ BallotsGrow
  BY ProposeStepType, CommitStepType, OtherStepType, ConstantsAssumption DEF Next, Handle
<1> QED
  BY <1>1, HoldsBallotStep, TrackedHasBallotStep, ConstantsAssumption DEF Typed

\* Types, and that calls and tracked entries have their ballots, are invariant: what
\* a handler of Propose or Commit dereferences exists.
THEOREM TypedInvariance == Spec => []Typed
<1>1. Init => Typed
  <2> SUFFICES ASSUME Init PROVE Typed
    OBVIOUS
  <2>1. HoldsBallot /\ TrackedHasBallot
    BY DEF Init, HoldsBallot, TrackedHasBallot
  <2>2. [phase |-> "idle", entry |-> Zero, k |-> 0, waiting |-> {}] \in Task
    BY DEF Task, EntryOrZero
  <2>3. [pc |-> "idle", stream |-> <<>>] \in Healer
    BY DEF Healer
  <2> QED
    BY <2>1, <2>2, <2>3 DEF Init, Typed, TypeOK
<1>2. Typed /\ [Next]_vars => Typed'
  <2> SUFFICES ASSUME Typed, [Next]_vars PROVE Typed'
    OBVIOUS
  <2>1. CASE UNCHANGED vars
    BY <2>1 DEF vars, Typed, TypeOK, HoldsBallot, TrackedHasBallot
  <2>2. CASE Next
    BY <2>2, TypedStep
  <2> QED
    BY <2>1, <2>2
<1> QED
  BY <1>1, <1>2, PTL DEF Spec

\* Every variable keeps its type (the fields of hlog, ballots and requests).
THEOREM TypeCorrect == Spec => []TypeOK
<1>1. Typed => TypeOK
  BY DEF Typed
<1> QED
  BY <1>1, TypedInvariance, PTL

-----------------------------------------------------------------------------
(* Why a broadcaster gets its answers.                                     *)

\* A call runs on m that worker w of n still waits for.
Works(w, n, m) == \E c \in calls : Awaited(c) /\ c.by = w /\ c.src = n /\ c.node = m

\* Proposals and commits are broadcast to the others; the local Commit is of "pch".
CallsOfWorkers ==
    \A c \in calls : /\ c.by = "cch" => c.op = "commit" /\ c.node # c.src
                     /\ c.by = "pch" => (c.op = "commit" <=> c.node = c.src)

\* A broadcaster waits only for calls that run, and the last of their answers ends its
\* broadcast or, of proposals, lets it call Commit.
TaskInv(w, n) ==
    LET t == task[w][n] IN
    /\ t.phase \in {"idle", "failed"} => t.waiting = {}
    /\ t.phase = "send" => n \notin t.waiting /\ (w = "cch" => t.waiting # {})
    /\ t.phase = "commit" => w = "pch" /\ t.waiting = {n}
    /\ \A m \in t.waiting : Works(w, n, m)

BroadcastInv == CallsOfWorkers /\ \A w \in Worker, n \in Peer : TaskInv(w, n)

\* A handler that goes on still runs for whoever waits for it.
LEMMA MovedCall ==
  ASSUME Typed, BroadcastInv, NEW c \in calls, NEW pc, NEW r,
         Goto(c, pc) \/ GotoRound(c, pc, r), UNCHANGED task
  PROVE  BroadcastInv'
<1>1. PICK d : /\ calls' = (calls \ {c}) \cup {d}
               /\ d.by = c.by /\ d.src = c.src /\ d.node = c.node /\ d.k = c.k /\ d.op = c.op
  <2>0. c \in Call
    BY AtType
  <2>1. CASE Goto(c, pc)
    <3>1. PICK d : d = [c EXCEPT !.pc = pc]
      OBVIOUS
    <3>2. d.by = c.by /\ d.src = c.src /\ d.node = c.node /\ d.k = c.k /\ d.op = c.op
      BY <2>0, <3>1 DEF Call
    <3> QED BY <2>1, <3>1, <3>2 DEF Goto
  <2>2. CASE GotoRound(c, pc, r)
    <3>1. PICK d : d = [c EXCEPT !.pc = pc, !.round = r]
      OBVIOUS
    <3>2. d.by = c.by /\ d.src = c.src /\ d.node = c.node /\ d.k = c.k /\ d.op = c.op
      BY <2>0, <3>1 DEF Call
    <3> QED BY <2>2, <3>1, <3>2 DEF GotoRound
  <2> QED BY <2>1, <2>2
<1>2. CallsOfWorkers'
  BY <1>1 DEF BroadcastInv, CallsOfWorkers
<1>3. \A w \in Worker, n \in Peer : \A m : Works(w, n, m) => Works(w, n, m)'
  <2> SUFFICES ASSUME NEW w \in Worker, NEW n \in Peer, NEW m, Works(w, n, m)
               PROVE  Works(w, n, m)'
    OBVIOUS
  <2>1. PICK x \in calls : Awaited(x) /\ x.by = w /\ x.src = n /\ x.node = m
    BY DEF Works
  <2>2. CASE x # c
    BY <1>1, <2>1, <2>2 DEF Works, Awaited
  <2>3. CASE x = c
    BY <1>1, <2>1, <2>3 DEF Works, Awaited
  <2> QED BY <2>2, <2>3
<1> QED BY <1>2, <1>3 DEF BroadcastInv, TaskInv

\* An answer reaches the broadcaster once, and takes the call that gives it away from
\* nobody else.
LEMMA AnsweredCall ==
  ASSUME Typed, BroadcastInv, NEW c \in calls, NEW ok \in BOOLEAN, Answer(c, ok),
         calls \ {c} \subseteq calls', calls' \subseteq calls
  PROVE  BroadcastInv'
<1>0. c \in Call /\ c.src \in Peer /\ task \in [Worker -> [Peer -> Task]]
  BY AtType DEF Typed, TypeOK
<1>1. CallsOfWorkers'
  BY DEF BroadcastInv, CallsOfWorkers
<1>2. ASSUME ~Awaited(c) PROVE BroadcastInv'
  <2>1. UNCHANGED task
    BY <1>2 DEF Answer
  <2>2. \A w \in Worker, n \in Peer : \A m : Works(w, n, m) => Works(w, n, m)'
    BY <1>2, <2>1 DEF Works, Awaited
  <2> QED BY <1>1, <2>1, <2>2 DEF BroadcastInv, TaskInv
<1>3. ASSUME Awaited(c) PROVE BroadcastInv'
  <2>1. c.by \in Worker
    BY <1>0, <1>3 DEF Awaited, Call
  <2> DEFINE t == task[c.by][c.src]
             u == Answered(t, c, ok)
  <2>2. task' = [task EXCEPT ![c.by][c.src] = u]
    BY <1>3 DEF Answer
  <2>3. /\ task'[c.by][c.src] = u
        /\ \A w \in Worker, n \in Peer :
              w # c.by \/ n # c.src => task'[w][n] = task[w][n]
    BY <1>0, <2>1, <2>2
  <2>4. t \in Task /\ c.node \in t.waiting /\ t.k = c.k
    BY <1>0, <1>3, <2>1 DEF Awaited
  <2>5. /\ u.k = t.k
        /\ u.waiting = IF ok THEN t.waiting \ {c.node} ELSE {}
        /\ u.phase = IF ~ok THEN "failed"
                     ELSE IF c.op = "commit" /\ t.waiting = {c.node} THEN "idle" ELSE t.phase
    BY <2>4 DEF Answered, Task
  <2>6. TaskInv(c.by, c.src) /\ CallsOfWorkers
    BY <1>0, <2>1 DEF BroadcastInv
  <2> HIDE DEF t, u
  <2>7. TaskInv(c.by, c.src)'
    <3>1. \A m \in u.waiting : Works(c.by, c.src, m)'
      <4> SUFFICES ASSUME NEW m \in u.waiting PROVE Works(c.by, c.src, m)'
        OBVIOUS
      <4>1. m \in t.waiting /\ m # c.node
        BY <2>5
      <4>2. PICK x \in calls : Awaited(x) /\ x.by = c.by /\ x.src = c.src /\ x.node = m
        BY <2>6, <4>1 DEF TaskInv, Works, t
      <4>3. x \in calls'
        BY <4>1, <4>2
      <4>4. x.k = u.k /\ x.node \in u.waiting /\ x.by # "client"
        BY <2>5, <4>2 DEF Awaited, t
      <4> QED BY <2>3, <4>2, <4>3, <4>4 DEF Works, Awaited
    <3>2. /\ u.phase \in {"idle", "failed"} => u.waiting = {}
          /\ u.phase = "send" => c.src \notin u.waiting /\ (c.by = "cch" => u.waiting # {})
          /\ u.phase = "commit" => c.by = "pch" /\ u.waiting = {c.src}
      <4>1. t.phase \in {"send", "commit"}
        BY <2>4, <2>6 DEF TaskInv, Task, t
      <4>2. CASE ~ok
        BY <2>5, <4>2
      <4>3. CASE ok /\ c.op = "commit" /\ t.waiting = {c.node}
        BY <2>5, <4>3
      <4>4. CASE ok /\ ~(c.op = "commit" /\ t.waiting = {c.node})
        <5>1. u.phase = t.phase /\ u.waiting = t.waiting \ {c.node}
          BY <2>5, <4>4
        <5>2. t.phase = "send" => c.src \notin t.waiting
          BY <2>6 DEF TaskInv, t
        <5>3. c.by = "cch" => t.waiting # {c.node}
          BY <2>6, <4>4 DEF CallsOfWorkers
        <5>4. t.phase # "commit"
          <6>1. SUFFICES ASSUME t.phase = "commit" PROVE FALSE
            OBVIOUS
          <6>2. c.by = "pch" /\ t.waiting = {c.src}
            BY <2>6, <6>1 DEF TaskInv, t
          <6>3. c.node = c.src
            BY <2>4, <6>2
          <6>4. c.op = "commit"
            BY <2>6, <6>2, <6>3 DEF CallsOfWorkers
          <6> QED BY <4>4, <6>2, <6>3, <6>4
        <5> QED BY <2>4, <4>1, <5>1, <5>2, <5>3, <5>4
      <4> QED BY <4>2, <4>3, <4>4
    <3> QED BY <2>3, <3>1, <3>2 DEF TaskInv
  <2>8. ASSUME NEW w \in Worker, NEW n \in Peer, w # c.by \/ n # c.src PROVE TaskInv(w, n)'
    <3>1. task'[w][n] = task[w][n] /\ TaskInv(w, n)
      BY <2>3, <2>8 DEF BroadcastInv
    <3>2. \A m : Works(w, n, m) => Works(w, n, m)'
      <4> SUFFICES ASSUME NEW m, Works(w, n, m) PROVE Works(w, n, m)'
        OBVIOUS
      <4>1. PICK x \in calls : Awaited(x) /\ x.by = w /\ x.src = n /\ x.node = m
        BY DEF Works
      <4>2. x \in calls'
        BY <2>8, <4>1
      <4> QED BY <3>1, <4>1, <4>2 DEF Works, Awaited
    <3> QED BY <3>1, <3>2 DEF TaskInv
  <2> QED BY <1>1, <2>7, <2>8 DEF BroadcastInv
<1> QED BY <1>2, <1>3

\* Worker w of n makes the calls new and waits, as u says, for those.
Sends(w, n, u, new) ==
    /\ \A c \in new : /\ c.by = w /\ c.src = n
                      /\ w = "cch" => c.op = "commit" /\ c.node # n
                      /\ w = "pch" => (c.op = "commit" <=> c.node = n)
    /\ \A m \in u.waiting : \E c \in new : c.node = m /\ c.k = u.k
    /\ \/ u.phase = "send" /\ u.waiting = Peer \ {n}
       \/ u.phase = "commit" /\ u.waiting = {n} /\ w = "pch"

LEMMA NewTask ==
  ASSUME Typed, BroadcastInv, NEW w \in Worker, NEW n \in Peer, NEW u, NEW new,
         task' = [task EXCEPT ![w][n] = u], calls' = calls \cup new, Sends(w, n, u, new)
  PROVE  BroadcastInv'
<1>0. task \in [Worker -> [Peer -> Task]]
  BY DEF Typed, TypeOK
<1>2. /\ task'[w][n] = u
      /\ \A v \in Worker, m \in Peer : v # w \/ m # n => task'[v][m] = task[v][m]
  BY <1>0
<1>3. CallsOfWorkers'
  BY DEF BroadcastInv, CallsOfWorkers, Sends
<1>4. TaskInv(w, n)'
  <2>1. \A m \in u.waiting : Works(w, n, m)'
    <3>1. w # "client"
      BY DEF Worker
    <3> QED BY <1>2, <3>1 DEF Sends, Works, Awaited
  <2>2. Peer \ {n} # {}
    <3>1. SUFFICES ASSUME Peer = {n} PROVE FALSE
      OBVIOUS
    <3>2. Cardinality(Peer) = 1
      BY <3>1, FS_Singleton
    <3> QED BY <3>2, ConstantsAssumption
  <2> QED BY <1>2, <2>1, <2>2 DEF Sends, TaskInv
<1>5. ASSUME NEW v \in Worker, NEW m \in Peer, v # w \/ m # n PROVE TaskInv(v, m)'
  <2>1. task'[v][m] = task[v][m] /\ TaskInv(v, m)
    BY <1>2, <1>5 DEF BroadcastInv
  <2>2. \A p : Works(v, m, p) => Works(v, m, p)'
    BY <2>1 DEF Works, Awaited
  <2> QED BY <2>1, <2>2 DEF TaskInv
<1> QED BY <1>3, <1>4, <1>5 DEF BroadcastInv

\* It takes the next message ...
LEMMA BroadcastCalls ==
  ASSUME Typed, BroadcastInv, NEW w \in Worker, NEW n \in Peer, Broadcast(w, n)
  PROVE  BroadcastInv'
<1> DEFINE t == task[w][n]
           e == Head(queue[w][n])
           u == [phase |-> "send", entry |-> e, k |-> t.k + 1, waiting |-> Peer \ {n}]
           new == BroadcastOf(w, n, e, t.k + 1)
<1>1. task' = [task EXCEPT ![w][n] = u] /\ calls' = calls \cup new
  BY DEF Broadcast
<1>2. u.phase = "send" /\ u.waiting = Peer \ {n} /\ u.k = t.k + 1
  OBVIOUS
<1>3. \A c \in new : /\ c.by = w /\ c.src = n
                     /\ w = "cch" => c.op = "commit" /\ c.node # n
                     /\ w = "pch" => (c.op = "commit" <=> c.node = n)
  BY DEF BroadcastOf
<1>4. ASSUME NEW m \in Peer \ {n} PROVE \E c \in new : c.node = m /\ c.k = t.k + 1
  <2> DEFINE c == [op |-> IF w = "pch" THEN "propose" ELSE "commit", node |-> m, src |-> n,
                   by |-> w, k |-> t.k + 1, entry |-> e, round |-> 0, pc |-> "start"]
  <2>1. c \in new
    BY DEF BroadcastOf
  <2>2. c.node = m /\ c.k = t.k + 1
    OBVIOUS
  <2> QED BY <2>1, <2>2
<1>5. Sends(w, n, u, new)
  <2> HIDE DEF u, new, t
  <2> QED BY <1>2, <1>3, <1>4 DEF Sends
<1> HIDE DEF u, new
<1> QED BY <1>1, <1>5, NewTask

\* ... or starts the local Commit.
LEMMA CommitCalls ==
  ASSUME Typed, BroadcastInv, NEW n \in Peer, CommitLocally(n)
  PROVE  BroadcastInv'
<1> DEFINE t == task["pch"][n]
           d == [op |-> "commit", node |-> n, src |-> n, by |-> "pch", k |-> t.k,
                 entry |-> t.entry, round |-> 0, pc |-> "start"]
           u == [t EXCEPT !.phase = "commit", !.waiting = {n}]
<1>1. task' = [task EXCEPT !["pch"][n] = u] /\ calls' = calls \cup {d}
  BY DEF CommitLocally
<1>2. u.phase = "commit" /\ u.waiting = {n} /\ u.k = t.k
  <2>1. t \in Task
    BY DEF Typed, TypeOK, Worker
  <2> QED BY <2>1 DEF Task
<1>3. d.by = "pch" /\ d.src = n /\ d.op = "commit" /\ d.node = n /\ d.k = t.k
  OBVIOUS
<1> HIDE DEF u, d
<1>4. "pch" \in Worker
  BY DEF Worker
<1>5. \A c \in {d} : /\ c.by = "pch" /\ c.src = n
                     /\ "pch" = "cch" => c.op = "commit" /\ c.node # n
                     /\ "pch" = "pch" => (c.op = "commit" <=> c.node = n)
  BY <1>3
<1>6. \A m \in u.waiting : \E c \in {d} : c.node = m /\ c.k = u.k
  BY <1>2, <1>3
<1>7. Sends("pch", n, u, {d})
  BY <1>2, <1>5, <1>6 DEF Sends
<1> QED BY <1>1, <1>4, <1>7, NewTask

LEMMA BroadcastStep ==
  ASSUME Typed, BroadcastInv, [Next]_vars
  PROVE  BroadcastInv'
<1>1. CASE UNCHANGED <<calls, task>>
  <2>1. \A w \in Worker, n \in Peer : \A m : Works(w, n, m) => Works(w, n, m)'
    BY <1>1 DEF Works, Awaited
  <2> QED BY <1>1, <2>1 DEF BroadcastInv, CallsOfWorkers, TaskInv
<1>2. ASSUME NEW c \in calls, NEW ok \in BOOLEAN, Return(c, ok) PROVE BroadcastInv'
  BY <1>2, AnsweredCall DEF Return
<1>3. ASSUME NEW c \in calls, NEW pc, Goto(c, pc), UNCHANGED task PROVE BroadcastInv'
  BY <1>3, MovedCall
<1>4. ASSUME NEW c \in calls, NEW pc, NEW r, GotoRound(c, pc, r), UNCHANGED task
      PROVE  BroadcastInv'
  BY <1>4, MovedCall
<1>5. ASSUME NEW c \in calls, Handle(c) PROVE BroadcastInv'
  <2>1. CASE OpenBallot(c) \/ FindBallot(c)
    <3>1. \/ \E pc, r : GotoRound(c, pc, r) /\ UNCHANGED task
          \/ Return(c, FALSE)
      BY <2>1 DEF OpenBallot, FindBallot
    <3> QED BY <1>2, <1>4, <3>1
  <2>2. CASE RequestHeal(c) \/ RejectEntry(c) \/ CallDead(c)
    BY <1>2, <2>2 DEF RequestHeal, RejectEntry, CallDead
  <2>3. CASE VerifyEntry(c) \/ ProposeSelf(c) \/ NewKey(c) \/ AppendVoted(c)
    <3>1. UNCHANGED task /\ \E pc : Goto(c, pc)
      BY <2>3, UpsertGoes DEF VerifyEntry, ProposeSelf, NewKey, AppendVoted
    <3> QED BY <1>3, <3>1
  <2>4. CASE ProposeSource(c)
    <3>1. (UNCHANGED task /\ \E pc : Goto(c, pc)) \/ Return(c, FALSE) \/ Return(c, TRUE)
      BY <2>4, UpsertGoes DEF ProposeSource
    <3> QED BY <1>2, <1>3, <3>1
  <2>5. ASSUME Resume(c) PROVE BroadcastInv'
    BY <1>2, <1>3, <2>5, Resumes
  <2>6. CASE VoteCommit(c)
    BY <1>2, <1>3, <2>5, <2>6 DEF VoteCommit
  <2>7. CASE Put(c) \/ CheckFails(c) \/ ApplyVoted(c)
    BY <2>5, <2>7 DEF Put, CheckFails, ApplyVoted
  <2> QED BY <1>5, <2>1, <2>2, <2>3, <2>4, <2>6, <2>7 DEF Handle
<1>6. ASSUME NEW n, NEW src, NEW e, ClientPropose(n, src, e) PROVE BroadcastInv'
  <2>1. UNCHANGED task
    BY <1>6 DEF ClientPropose
  <2>2. PICK d : calls' = calls \cup {d} /\ d.by = "client"
    <3> DEFINE d == [op |-> "propose", node |-> n, src |-> src, by |-> "client",
                     k |-> proposals + 1, entry |-> e, round |-> 0, pc |-> "start"]
    <3>1. calls' = calls \cup {d} /\ d.by = "client"
      BY <1>6 DEF ClientPropose
    <3> QED BY <3>1
  <2>3. \A w \in Worker, m \in Peer : \A p : Works(w, m, p) => Works(w, m, p)'
    BY <2>1, <2>2 DEF Works, Awaited
  <2> QED BY <2>1, <2>2, <2>3 DEF BroadcastInv, CallsOfWorkers, TaskInv
<1>7. ASSUME NEW w \in Worker, NEW n \in Peer, BroadcastFailed(w, n) PROVE BroadcastInv'
  <2>1. task \in [Worker -> [Peer -> Task]] /\ task[w][n] \in Task
    BY DEF Typed, TypeOK
  <2>2. PICK u : u = [task[w][n] EXCEPT !.phase = "idle"]
    OBVIOUS
  <2>3. u.phase = "idle" /\ u.waiting = task[w][n].waiting /\ u.k = task[w][n].k
    BY <2>1, <2>2 DEF Task
  <2>4. task[w][n].waiting = {}
    BY <1>7 DEF BroadcastFailed, BroadcastInv, TaskInv
  <2>5. task' = [task EXCEPT ![w][n] = u] /\ UNCHANGED calls
    BY <1>7, <2>2 DEF BroadcastFailed
  <2>6. /\ task'[w][n] = u
        /\ \A v \in Worker, m \in Peer : v # w \/ m # n => task'[v][m] = task[v][m]
    BY <2>1, <2>5
  <2>7. TaskInv(w, n)'
    BY <2>3, <2>4, <2>6 DEF TaskInv
  <2>8. ASSUME NEW v \in Worker, NEW m \in Peer, v # w \/ m # n PROVE TaskInv(v, m)'
    <3>1. task'[v][m] = task[v][m] /\ TaskInv(v, m)
      BY <2>6, <2>8 DEF BroadcastInv
    <3>2. \A p : Works(v, m, p) => Works(v, m, p)'
      BY <2>5, <3>1 DEF Works, Awaited
    <3> QED BY <3>1, <3>2 DEF TaskInv
  <2> QED BY <2>5, <2>7, <2>8 DEF BroadcastInv, CallsOfWorkers
<1>8. ASSUME NEW c \in calls, Cancel(c) PROVE BroadcastInv'
  <2>1. UNCHANGED task /\ calls' = calls \ {c} /\ ~Awaited(c)
    BY <1>8 DEF Cancel
  <2>2. \A w \in Worker, m \in Peer : \A p : Works(w, m, p) => Works(w, m, p)'
    BY <2>1 DEF Works, Awaited
  <2> QED BY <2>1, <2>2 DEF BroadcastInv, CallsOfWorkers, TaskInv
<1>9. ASSUME NEW c \in calls, Disconnect(c) PROVE BroadcastInv'
  BY <1>9, AnsweredCall DEF Disconnect
<1>10. ASSUME NEW n \in Peer, HealKeys(n) \/ TimeoutAny(n) \/ Reap(n) \/ Crash(n)
       PROVE  BroadcastInv'
  BY <1>1, <1>10 DEF HealKeys, Heal, AppendPulled, ApplyPulled, TimeoutAny, Timeout, Reap, Crash
<1>11. ASSUME NEW w \in Worker, NEW n \in Peer, Broadcast(w, n) PROVE BroadcastInv'
  BY <1>11, BroadcastCalls
<1>12. ASSUME NEW n \in Peer, CommitLocally(n) PROVE BroadcastInv'
  BY <1>12, CommitCalls
<1>13. CASE UNCHANGED vars
  BY <1>1, <1>13 DEF vars
<1> QED
  BY <1>5, <1>6, <1>7, <1>8, <1>9, <1>10, <1>11, <1>12, <1>13 DEF Next, Broadcaster

\* Why a broadcaster gets back to its channel: each peer it waits for has a call of it
\* running, which will return, or fail if the peer or the connection dies; and when it
\* waits for nobody, it goes on to its local Commit.  No answer is lost between two
\* broadcasts, whatever is canceled (broadcastProposals, broadcastCommits).
AnswersCome ==
    \A w \in Worker, n \in Peer : task[w][n].phase \in {"send", "commit"} =>
        /\ \A m \in task[w][n].waiting : Works(w, n, m)
        /\ task[w][n].waiting = {} => w = "pch" /\ task[w][n].phase = "send"

THEOREM AnswersAlwaysCome == Spec => []AnswersCome
<1>1. Init => BroadcastInv
  <2> SUFFICES ASSUME Init PROVE BroadcastInv
    OBVIOUS
  <2>1. \A w \in Worker, n \in Peer : task[w][n].phase = "idle" /\ task[w][n].waiting = {}
    BY DEF Init
  <2> QED BY <2>1 DEF Init, BroadcastInv, CallsOfWorkers, TaskInv
<1>2. Typed /\ BroadcastInv /\ [Next]_vars => BroadcastInv'
  BY BroadcastStep
<1>3. BroadcastInv => AnswersCome
  <2> SUFFICES ASSUME BroadcastInv, NEW w \in Worker, NEW n \in Peer,
                      task[w][n].phase \in {"send", "commit"}
               PROVE  /\ \A m \in task[w][n].waiting : Works(w, n, m)
                      /\ task[w][n].waiting = {} => w = "pch" /\ task[w][n].phase = "send"
    BY DEF AnswersCome
  <2>1. TaskInv(w, n)
    BY DEF BroadcastInv
  <2> QED BY <2>1 DEF TaskInv, Worker
<1> QED BY <1>1, <1>2, <1>3, TypedInvariance, PTL DEF Spec

-----------------------------------------------------------------------------
(* Why a ballot ends.                                                      *)

\* The handler of call c is about to vote on the r-th proposal ballot of n for e.
WillVote(c, n, e, r) == /\ c.op = "propose" /\ c.pc \in {"self", "source"}
                        /\ c.node = n /\ c.entry = e /\ c.round = r

\* A ballot without a vote, and so without a timer, is open, and while its node lives
\* there is a handler that will vote on it.
Unvoted(n, e, r) ==
    ballot[n][e][r].proposed = {} =>
        /\ ballot[n][e][r].status = "open"
        /\ n \in down \/ \E c \in calls : WillVote(c, n, e, r)
VoterInv == \A n \in Peer, e \in Entry : \A r \in DOMAIN ballot[n][e] : Unvoted(n, e, r)

\* The step opens no ballot, and takes no ballot without a vote further.
OpensNone ==
    \A n \in Peer, e \in Entry : \A r \in DOMAIN ballot'[n][e] :
        /\ r \in DOMAIN ballot[n][e]
        /\ ballot'[n][e][r].proposed = {} =>
              ballot[n][e][r].proposed = {} /\ ballot'[n][e][r].status = ballot[n][e][r].status

\* Only a handler that has voted, or whose node is dead, leaves a ballot.
Stays(c) == \/ c.op # "propose" \/ c.pc \notin {"self", "source"}
            \/ c.node \in down'
            \/ ballot'[c.node][c.entry][c.round].proposed # {}
            \/ \E d \in calls' : WillVote(d, c.node, c.entry, c.round)

LEMMA KeepsVoters ==
  ASSUME VoterInv, OpensNone, down \subseteq down', \A c \in calls : c \in calls' \/ Stays(c)
  PROVE  VoterInv'
<1> SUFFICES ASSUME NEW n \in Peer, NEW e \in Entry, NEW r \in DOMAIN ballot'[n][e],
                    ballot'[n][e][r].proposed = {}
             PROVE  /\ ballot'[n][e][r].status = "open"
                    /\ n \in down' \/ \E d \in calls' : WillVote(d, n, e, r)
  BY DEF VoterInv, Unvoted, WillVote
<1>1. /\ r \in DOMAIN ballot[n][e] /\ ballot[n][e][r].proposed = {}
      /\ ballot'[n][e][r].status = ballot[n][e][r].status
  BY DEF OpensNone
<1>2. /\ ballot[n][e][r].status = "open"
      /\ n \in down \/ \E c \in calls : WillVote(c, n, e, r)
  BY <1>1 DEF VoterInv, Unvoted
<1>3. CASE n \in down
  BY <1>1, <1>2, <1>3
<1>4. ASSUME NEW c \in calls, WillVote(c, n, e, r)
      PROVE  n \in down' \/ \E d \in calls' : WillVote(d, n, e, r)
  BY <1>4 DEF Stays, WillVote
<1> QED BY <1>1, <1>2, <1>3, <1>4

\* A vote, whose ballot then has one; ...
LEMMA ProposeOpensNone ==
  ASSUME TypeOK, NEW n \in Peer, NEW e \in Entry, NEW r \in DOMAIN ballot[n][e],
         NEW p \in Peer, ballot' = [ballot EXCEPT ![n][e][r].proposed = @ \cup {p}]
  PROVE  OpensNone /\ ballot'[n][e][r].proposed # {}
<1>1. SetsVotes(n, e, r, ballot[n][e][r].proposed \cup {p}, ballot[n][e][r].committed)
  BY ProposeType
<1>2. ASSUME NEW m \in Peer, NEW x \in Entry, NEW i \in DOMAIN ballot'[m][x]
      PROVE  /\ i \in DOMAIN ballot[m][x]
             /\ ballot'[m][x][i].proposed = {} => ballot'[m][x][i] = ballot[m][x][i]
  <2>1. i \in DOMAIN ballot[m][x]
    BY <1>1 DEF SetsVotes
  <2>2. CASE m = n /\ x = e /\ i = r
    <3>1. ballot'[m][x][i].proposed = ballot[n][e][r].proposed \cup {p}
      BY <1>1, <2>1, <2>2 DEF SetsVotes
    <3> QED BY <2>1, <3>1
  <2>3. CASE ~(m = n /\ x = e /\ i = r)
    <3>1. ballot'[m][x][i] = ballot[m][x][i]
      BY <1>1, <2>1, <2>3 DEF SetsVotes
    <3> QED BY <2>1, <3>1
  <2> QED BY <2>2, <2>3
<1>3. ballot'[n][e][r].proposed # {}
  BY <1>1 DEF SetsVotes
<1> QED BY <1>2, <1>3 DEF OpensNone

\* ... a vote to commit, which a ballot may get first; ...
LEMMA CommitOpensNone ==
  ASSUME TypeOK, NEW n \in Peer, NEW e \in Entry, NEW r \in DOMAIN ballot[n][e],
         NEW p \in Peer, ballot' = [ballot EXCEPT ![n][e][r].committed = @ \cup {p}]
  PROVE  OpensNone
<1> DEFINE b == [ballot[n][e][r] EXCEPT !.committed = @ \cup {p}]
<1>1. /\ b \in Ballot /\ ballot[n][e][r].proposed = b.proposed
      /\ ballot[n][e][r].committed \subseteq b.committed
      /\ ballot[n][e][r].status = b.status
  BY BallotInRange DEF Ballot
<1>2. ballot' = [ballot EXCEPT ![n][e][r] = b]
  OBVIOUS
<1> HIDE DEF b
<1>3. OnlyBallot(n, e, r, b)
  BY <1>1, <1>2, BallotUpdate
<1> QED BY <1>1, <1>3 DEF OnlyBallot, OpensNone

\* ... and the end of a ballot that has a vote.
LEMMA EndOpensNone ==
  ASSUME TypeOK, NEW n \in Peer, NEW e \in Entry, NEW r \in DOMAIN ballot[n][e],
         NEW s \in Status, ballot[n][e][r].proposed # {},
         ballot' = [ballot EXCEPT ![n][e][r].status = s]
  PROVE  OpensNone
<1> DEFINE b == [ballot[n][e][r] EXCEPT !.status = s]
<1>1. /\ b \in Ballot /\ ballot[n][e][r].proposed = b.proposed
      /\ ballot[n][e][r].committed = b.committed
  BY BallotInRange DEF Ballot
<1>2. ballot' = [ballot EXCEPT ![n][e][r] = b]
  OBVIOUS
<1> HIDE DEF b
<1>3. OnlyBallot(n, e, r, b)
  BY <1>1, <1>2, BallotUpdate
<1> QED BY <1>1, <1>3 DEF OnlyBallot, OpensNone

LEMMA SameOpensNone ==
  ASSUME TypeOK, UNCHANGED ballot
  PROVE  OpensNone
  BY DEF OpensNone

\* Closing kills the node rather than ending a ballot that nobody voted on.
LEMMA CloseOpensNone ==
  ASSUME TypeOK, NEW n \in Peer, NEW e \in Entry, NEW r \in DOMAIN ballot[n][e],
         NEW s \in Status, Close(n, e, r, s)
  PROVE  OpensNone /\ down \subseteq down'
<1>1. CASE UNCHANGED ballot
  BY <1>1, SameOpensNone DEF Close
<1>2. CASE ~UNCHANGED ballot
  <2>1. /\ ballot[n][e][r].proposed # {} /\ UNCHANGED down
        /\ ballot' = [ballot EXCEPT ![n][e][r].status = s]
    BY <1>2 DEF Close
  <2> QED BY <2>1, EndOpensNone
<1> QED BY <1>1, <1>2

LEMMA GetCloseOpensNone ==
  ASSUME Typed, NEW n \in Peer, NEW e, BallotGetClose(n, e)
  PROVE  OpensNone /\ down \subseteq down'
<1>1. CASE e \in tracked[n]
  <2>1. e \in Entry /\ ballot[n][e] \in Seq(Ballot) /\ ballot[n][e] # <<>>
    BY <1>1 DEF Typed, TypeOK, TrackedHasBallot
  <2>2. Current(n, e) \in DOMAIN ballot[n][e]
    BY <2>1, SeqFacts DEF Current
  <2> QED
    BY <1>1, <2>1, <2>2, CloseOpensNone DEF BallotGetClose, Typed, Status
<1>2. CASE e \notin tracked[n]
  BY <1>2, SameOpensNone DEF BallotGetClose, Typed
<1> QED BY <1>1, <1>2

\* A handler that goes on is a call of the same entry on the same node.
LEMMA MovedOn ==
  ASSUME Typed, NEW c \in calls, NEW pc, Goto(c, pc)
  PROVE  \E d \in calls' : /\ d.op = c.op /\ d.node = c.node /\ d.entry = c.entry
                           /\ d.round = c.round /\ d.pc = pc
<1>1. c \in Call
  BY AtType
<1>2. PICK d : d = [c EXCEPT !.pc = pc]
  OBVIOUS
<1>3. d.op = c.op /\ d.node = c.node /\ d.entry = c.entry /\ d.round = c.round /\ d.pc = pc
  BY <1>1, <1>2 DEF Call
<1> QED BY <1>2, <1>3 DEF Goto

\* Get-or-create hands a new ballot to the handler that opened it.
LEMMA OpenVoters ==
  ASSUME Typed, VoterInv, NEW c \in calls, OpenBallot(c)
  PROVE  VoterInv'
<1> DEFINE n == c.node
           e == c.entry
<1>0. c \in Call /\ n \in Peer /\ e \in Entry /\ c.op = "propose" /\ c.pc = "ballot"
  BY AtType DEF OpenBallot, At
<1>1. UNCHANGED down /\ \A x \in calls : x \in calls' \/ Stays(x)
  <2>1. UNCHANGED down /\ \A x \in calls : x \in calls' \/ x = c
    BY DEF OpenBallot, GotoRound
  <2>2. Stays(c)
    BY <1>0 DEF Stays
  <2> QED BY <2>1, <2>2
<1>2. CASE e \in tracked[n]
  BY <1>1, <1>2, SameOpensNone, KeepsVoters DEF OpenBallot, Typed
<1>3. CASE e \notin tracked[n]
  <2> DEFINE s == ballot[n][e]
             k == Current(n, e) + 1
             pc == IF c.src = n THEN "source" ELSE "self"
             d == [c EXCEPT !.pc = pc, !.round = k]
  <2>1. ballot' = [ballot EXCEPT ![n][e] = Append(@, NewBallot)] /\ d \in calls'
    BY <1>3 DEF OpenBallot, GotoRound
  <2>2. WillVote(d, n, e, k)
    BY <1>0 DEF WillVote, Call
  <2>3. s \in Seq(Ballot) /\ k = Len(s) + 1
    BY <1>0 DEF Typed, TypeOK, Current
  <2>4. \A m \in Peer, x \in Entry :
           ballot'[m][x] = IF m = n /\ x = e THEN Append(s, NewBallot) ELSE ballot[m][x]
    BY <1>0, <2>1 DEF Typed, TypeOK
  <2> HIDE DEF s, k, d
  <2>5. /\ \A r \in DOMAIN Append(s, NewBallot) :
              r = k \/ (r \in DOMAIN s /\ Append(s, NewBallot)[r] = s[r])
        /\ Append(s, NewBallot)[k] = NewBallot
    <3>1. /\ DOMAIN s = 1..Len(s) /\ Len(s) \in Nat
          /\ DOMAIN Append(s, NewBallot) = 1..(Len(s) + 1)
          /\ \A r \in 1..Len(s) : Append(s, NewBallot)[r] = s[r]
          /\ Append(s, NewBallot)[Len(s) + 1] = NewBallot
      <4>1. NewBallot \in Ballot
        BY DEF Ballot, Status, NewBallot
      <4> QED BY <2>3, <4>1
    <3>2. Append(s, NewBallot)[k] = NewBallot
      BY <2>3, <3>1
    <3>3. ASSUME NEW r \in DOMAIN Append(s, NewBallot)
          PROVE  r = k \/ (r \in DOMAIN s /\ Append(s, NewBallot)[r] = s[r])
      BY <2>3, <3>1
    <3> QED BY <3>2, <3>3
  <2>6. ASSUME NEW m \in Peer, NEW x \in Entry, NEW r \in DOMAIN ballot'[m][x],
               ballot'[m][x][r].proposed = {}
        PROVE  /\ ballot'[m][x][r].status = "open"
               /\ m \in down' \/ \E y \in calls' : WillVote(y, m, x, r)
    <3>1. CASE m = n /\ x = e /\ r = k
      <4>1. ballot'[m][x][r] = NewBallot
        BY <2>4, <2>5, <3>1
      <4> QED BY <2>1, <2>2, <3>1, <4>1 DEF NewBallot
    <3>2. CASE ~(m = n /\ x = e /\ r = k)
      <4>1. r \in DOMAIN ballot[m][x] /\ ballot'[m][x][r] = ballot[m][x][r]
        BY <2>4, <2>5, <3>2 DEF s
      <4>2. /\ ballot[m][x][r].status = "open"
            /\ m \in down \/ \E y \in calls : WillVote(y, m, x, r)
        BY <2>6, <4>1 DEF VoterInv, Unvoted
      <4>3. ASSUME NEW y \in calls, WillVote(y, m, x, r) PROVE y \in calls'
        <5>1. y # c
          BY <1>0, <4>3 DEF WillVote
        <5> QED BY <5>1 DEF OpenBallot, GotoRound
      <4> QED BY <1>1, <4>1, <4>2, <4>3
    <3> QED BY <3>1, <3>2
  <2> QED BY <2>6 DEF VoterInv, Unvoted, WillVote
<1> QED BY <1>2, <1>3

\* The steps of a proposal that vote, or find the votes of others.
LEMMA ProposeVoters ==
  ASSUME Typed, VoterInv, NEW c \in calls, ProposeSelf(c) \/ ProposeSource(c)
  PROVE  VoterInv'
<1> DEFINE n == c.node
           e == c.entry
           b == ballot[n][e][c.round]
<1>0. /\ c \in Call /\ n \in Peer /\ e \in Entry /\ c.src \in Peer /\ TypeOK
      /\ c.op = "propose" /\ c.pc \in {"self", "source"} /\ c.round \in DOMAIN ballot[n][e]
  BY AtType DEF ProposeSelf, ProposeSource, At, Typed, Voting
<1>1. /\ UNCHANGED down /\ \A x \in calls : x \in calls' \/ x = c
  BY DEF ProposeSelf, ProposeSource, UpsertKeyAndBroadcast, Goto, Return
<1>2. OpensNone
  <2>1. CASE UNCHANGED ballot
    BY <1>0, <2>1, SameOpensNone
  <2>2. ASSUME NEW p \in Peer, VoteAs(c, p) PROVE OpensNone
    <3>1. ballot' = [ballot EXCEPT ![n][e][c.round].proposed = @ \cup {p}]
      BY <2>2 DEF VoteAs
    <3> QED BY <1>0, <3>1, ProposeOpensNone
  <2> QED BY <1>0, <2>1, <2>2 DEF ProposeSelf, ProposeSource
<1>3. Stays(c)
  <2>1. CASE ProposeSelf(c)
    <3>1. CASE VoteAs(c, n)
      <4>1. ballot'[n][e][c.round].proposed # {}
        BY <1>0, <3>1, ProposeOpensNone DEF VoteAs
      <4> QED BY <4>1 DEF Stays
    <3>2. CASE Goto(c, "source")
      <4>1. \E d \in calls' : /\ d.op = c.op /\ d.node = n /\ d.entry = e
                              /\ d.round = c.round /\ d.pc = "source"
        BY <3>2, MovedOn
      <4> QED BY <1>0, <4>1 DEF Stays, WillVote
    <3> QED BY <2>1, <3>1, <3>2 DEF ProposeSelf
  <2>2. CASE ProposeSource(c) /\ b.status = "open"
    <3>1. VoteAs(c, c.src)
      BY <2>2 DEF ProposeSource, BallotOf
    <3>2. ballot'[n][e][c.round].proposed # {}
      BY <1>0, <3>1, ProposeOpensNone DEF VoteAs
    <3> QED BY <3>2 DEF Stays
  <2>3. CASE ProposeSource(c) /\ b.status # "open"
    <3>1. UNCHANGED ballot
      BY <2>3 DEF ProposeSource, BallotOf
    <3>2. b.proposed # {}
      BY <1>0, <2>3 DEF VoterInv, Unvoted
    <3> QED BY <3>1, <3>2 DEF Stays
  <2> QED BY <2>1, <2>2, <2>3
<1> QED BY <1>1, <1>2, <1>3, KeepsVoters

LEMMA VoterStep ==
  ASSUME Typed, VoterInv, [Next]_vars
  PROVE  VoterInv'
<1>0. TypeOK
  BY DEF Typed
<1>1. ASSUME OpensNone, down \subseteq down',
             \A c \in calls : c \in calls' \/ c.op # "propose" \/ c.pc \notin {"self", "source"}
                                           \/ c.node \in down'
      PROVE  VoterInv'
  BY <1>1, KeepsVoters DEF Stays
<1>2. ASSUME NEW c \in calls, Handle(c) PROVE VoterInv'
  <2>0. \A x \in calls : x \in calls' \/ x = c
    BY <1>2 DEF Handle, VerifyEntry, OpenBallot, RequestHeal, RejectEntry, ProposeSelf,
         ProposeSource, UpsertKeyAndBroadcast, NewKey, Put, FindBallot, VoteCommit, CheckFails,
         AppendVoted, ApplyVoted, Resume, CallDead, Goto, GotoRound, Return
  <2>1. CASE OpenBallot(c)
    BY <2>1, OpenVoters
  <2>2. CASE ProposeSelf(c) \/ ProposeSource(c)
    BY <2>2, ProposeVoters
  <2>3. CASE \/ VerifyEntry(c) \/ RequestHeal(c) \/ NewKey(c) \/ Put(c)
             \/ FindBallot(c) \/ AppendVoted(c) \/ CallDead(c)
    <3>1. UNCHANGED <<ballot, down>>
      BY <2>3 DEF VerifyEntry, RequestHeal, NewKey, Put, FindBallot, AppendVoted, CallDead
    <3>2. c.op # "propose" \/ c.pc \notin {"self", "source"} \/ c.node \in down'
      BY <2>3 DEF VerifyEntry, RequestHeal, NewKey, Put, FindBallot, AppendVoted, CallDead, At
    <3>3. OpensNone
      BY <1>0, <3>1, SameOpensNone
    <3> QED BY <1>1, <2>0, <3>1, <3>2, <3>3
  <2>4. CASE RejectEntry(c)
    <3>1. c.node \in Peer /\ BallotGetClose(c.node, c.entry) /\ c.pc = "reject"
      BY <2>4, AtType DEF RejectEntry, At
    <3>2. OpensNone /\ down \subseteq down'
      BY <3>1, GetCloseOpensNone
    <3> QED BY <1>1, <2>0, <3>1, <3>2
  <2>5. CASE VoteCommit(c)
    <3>0. /\ c.node \in Peer /\ c.src \in Peer /\ c.entry \in Entry /\ c.op = "commit"
          /\ c.round \in DOMAIN ballot[c.node][c.entry] /\ UNCHANGED down
      BY <2>5, AtType DEF VoteCommit, At, Voting
    <3>1. CASE UNCHANGED ballot
      <4>1. OpensNone
        BY <1>0, <3>1, SameOpensNone
      <4> QED BY <1>1, <2>0, <3>0, <4>1
    <3>2. CASE ~UNCHANGED ballot
      <4>1. PICK p \in Peer : ballot' =
               [ballot EXCEPT ![c.node][c.entry][c.round].committed = @ \cup {p}]
        BY <2>5, <3>0, <3>2 DEF VoteCommit
      <4>2. OpensNone
        BY <1>0, <3>0, <4>1, CommitOpensNone
      <4> QED BY <1>1, <2>0, <3>0, <4>2
    <3> QED BY <3>1, <3>2
  <2>6. CASE CheckFails(c) \/ ApplyVoted(c)
    <3>0. /\ c.node \in Peer /\ c.entry \in Entry /\ c.pc \notin {"self", "source"}
          /\ c.round \in DOMAIN ballot[c.node][c.entry]
      BY <2>6, AtType DEF CheckFails, ApplyVoted, Voting
    <3>1. OpensNone /\ down \subseteq down'
      <4>1. CASE UNCHANGED <<ballot, down>>
        BY <1>0, <4>1, SameOpensNone
      <4>2. CASE \E s \in Status : Close(c.node, c.entry, c.round, s)
        BY <1>0, <3>0, <4>2, CloseOpensNone
      <4> QED BY <2>6, <4>1, <4>2 DEF CheckFails, ApplyVoted, Status
    <3> QED BY <1>1, <2>0, <3>0, <3>1
  <2> QED BY <1>2, <2>1, <2>2, <2>3, <2>4, <2>5, <2>6 DEF Handle
<1>3. ASSUME NEW n, NEW src, NEW e, ClientPropose(n, src, e) PROVE VoterInv'
  <2>1. UNCHANGED <<ballot, down>> /\ calls \subseteq calls'
    BY <1>3 DEF ClientPropose
  <2> QED BY <1>0, <1>1, <2>1, SameOpensNone
<1>4. ASSUME NEW w \in Worker, NEW n \in Peer, Broadcast(w, n) \/ CommitLocally(n)
      PROVE  VoterInv'
  <2>1. UNCHANGED <<ballot, down>> /\ calls \subseteq calls'
    BY <1>4 DEF Broadcast, CommitLocally
  <2> QED BY <1>0, <1>1, <2>1, SameOpensNone
<1>5. ASSUME NEW w \in Worker, NEW n \in Peer, BroadcastFailed(w, n) PROVE VoterInv'
  <2>1. BallotGetClose(n, task[w][n].entry) /\ UNCHANGED calls
    BY <1>5 DEF BroadcastFailed
  <2>2. OpensNone /\ down \subseteq down'
    BY <2>1, GetCloseOpensNone
  <2> QED BY <1>1, <2>1, <2>2
<1>6. ASSUME NEW n \in Peer, HealKeys(n) \/ Reap(n) \/ Crash(n) PROVE VoterInv'
  <2>1. UNCHANGED <<ballot, calls>> /\ down \subseteq down'
    BY <1>6 DEF HealKeys, Heal, AppendPulled, ApplyPulled, Reap, Crash
  <2> QED BY <1>0, <1>1, <2>1, SameOpensNone
<1>7. ASSUME NEW n \in Peer, TimeoutAny(n) PROVE VoterInv'
  <2>0. PICK e \in Entry : \E r \in DOMAIN ballot[n][e] : Timeout(n, e, r)
    BY <1>7 DEF TimeoutAny
  <2>1. PICK r \in DOMAIN ballot[n][e] : Timeout(n, e, r)
    BY <2>0
  <2>2. /\ ballot[n][e][r].proposed # {} /\ UNCHANGED <<calls, down>>
        /\ ballot' = [ballot EXCEPT ![n][e][r].status = "timeout"]
    BY <2>1 DEF Timeout
  <2>3. OpensNone
    BY <1>0, <2>2, EndOpensNone DEF Status
  <2> QED BY <1>1, <2>2, <2>3
<1>8. ASSUME NEW c \in calls, Disconnect(c) \/ Cancel(c) PROVE VoterInv'
  <2>1. UNCHANGED <<ballot, down>> /\ \A x \in calls : x \in calls' \/ x.pc = "start"
    BY <1>8 DEF Disconnect, Cancel
  <2> QED BY <1>0, <1>1, <2>1, SameOpensNone
<1>9. CASE UNCHANGED vars
  <2>1. UNCHANGED <<ballot, down, calls>>
    BY <1>9 DEF vars
  <2> QED BY <1>0, <1>1, <2>1, SameOpensNone
<1> QED
  BY <1>2, <1>3, <1>4, <1>5, <1>6, <1>7, <1>8, <1>9 DEF Next, Broadcaster, Worker

\* Why a ballot ends on any node that lives: once it has a vote its timer runs, which
\* closes it if nothing else does, and until then a handler is on its way to vote.  So no
\* order of Propose, Commit, reaping and closing strands a ballot without a timer
\* (Propose, checkVotesAndCommit, setTTL).
BallotHasTimer ==
    \A n \in Peer \ down, e \in Entry : \A r \in DOMAIN ballot[n][e] :
        ballot[n][e][r].proposed = {} =>
            /\ ballot[n][e][r].status = "open"
            /\ \E c \in calls : WillVote(c, n, e, r)

THEOREM BallotAlwaysHasTimer == Spec => []BallotHasTimer
<1>1. Init => VoterInv
  <2>1. Init => \A n \in Peer, e \in Entry : ballot[n][e] = <<>>
    BY DEF Init
  <2> QED BY <2>1 DEF VoterInv
<1>2. Typed /\ VoterInv /\ [Next]_vars => VoterInv'
  BY VoterStep
<1>3. VoterInv => BallotHasTimer
  BY DEF VoterInv, Unvoted, BallotHasTimer
<1> QED BY <1>1, <1>2, <1>3, TypedInvariance, PTL DEF Spec
=============================================================================

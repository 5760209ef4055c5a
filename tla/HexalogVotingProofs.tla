------------------------- MODULE HexalogVotingProofs -------------------------
(***************************************************************************)
(* What the voting of Hexalog achieves, proved for any PeerSet, entries,   *)
(* faults and bounds: VotingInv is an inductive invariant, and with it the *)
(* core implements UnanimousLog and inherits its settled prefix; and every *)
(* append is handed to the FSM once, by whoever made it.                   *)
(***************************************************************************)
EXTENDS HexalogProofs

-----------------------------------------------------------------------------
(* Which steps touch what.                                                 *)

\* Only checkVotesAndCommit and the healer append.
LEMMA LogStep ==
  ASSUME Next, log' # log
  PROVE  (\E c \in calls : AppendVoted(c)) \/ (\E n \in Peer : AppendPulled(n))
  BY ZenonT(60) DEF Next, Handle, ClientPropose, VerifyEntry, OpenBallot, RequestHeal,
      RejectEntry, ProposeSelf, ProposeSource, NewKey, Put, FindBallot, VoteCommit,
      CheckFails, ApplyVoted, CallDead, Broadcaster, Broadcast, BroadcastFailed,
      CommitLocally, HealKeys, Heal, ApplyPulled, TimeoutAny, Timeout, Reap, Crash,
      Disconnect, Cancel

\* Only Commit votes to commit.
LEMMA PledgeStep ==
  ASSUME Next, pledged' # pledged
  PROVE  \E c \in calls : VoteCommit(c)
  BY ZenonT(60) DEF Next, Handle, ClientPropose, VerifyEntry, OpenBallot, RequestHeal,
      RejectEntry, ProposeSelf, ProposeSource, NewKey, Put, FindBallot, CheckFails,
      AppendVoted, ApplyVoted, CallDead, Broadcaster, Broadcast, BroadcastFailed,
      CommitLocally, HealKeys, Heal, AppendPulled, ApplyPulled, TimeoutAny, Timeout, Reap,
      Crash, Disconnect, Cancel

\* Only the healer changes what it is pulling.
LEMMA HealerStep ==
  ASSUME Next, healer' # healer
  PROVE  \E n \in Peer : HealKeys(n)
  BY ZenonT(60) DEF Next, Handle, ClientPropose, VerifyEntry, OpenBallot, RequestHeal,
      RejectEntry, ProposeSelf, ProposeSource, NewKey, Put, FindBallot, VoteCommit,
      CheckFails, AppendVoted, ApplyVoted, CallDead, Broadcaster, Broadcast,
      BroadcastFailed, CommitLocally, TimeoutAny, Timeout, Reap, Crash, Disconnect, Cancel

\* Only the send of a first commit vote and the broadcaster change cch.
LEMMA QueueStep ==
  ASSUME Typed, Next, queue'["cch"] # queue["cch"]
  PROVE  (\E c \in calls : Put(c) /\ c.op = "commit") \/ (\E n \in Peer : Broadcast("cch", n))
<1>0. queue \in [Worker -> [Peer -> Seq(Entry)]]
  BY DEF Typed, TypeOK
<1>1. ASSUME NEW c \in calls, Put(c), c.op # "commit" PROVE FALSE
  <2>1. c.op = "propose"
    BY <1>1, AtType DEF Call
  <2>2. Enqueue("pch", c.node, c.entry)
    BY <1>1, <2>1 DEF Put
  <2> QED
    BY <1>0, <2>2 DEF Enqueue, Worker
<1>2. ASSUME NEW n, Broadcast("pch", n) PROVE FALSE
  <2>1. queue' = [queue EXCEPT !["pch"][n] = Tail(@)]
    BY <1>2 DEF Broadcast
  <2> QED
    BY <1>0, <2>1 DEF Worker
<1>3. queue' # queue
  OBVIOUS
<1>4. ASSUME NEW c \in calls, Handle(c), ~Put(c) PROVE FALSE
  BY <1>3, <1>4 DEF Handle, VerifyEntry, OpenBallot, RequestHeal, RejectEntry, ProposeSelf,
     ProposeSource, NewKey, FindBallot, VoteCommit, CheckFails, AppendVoted, ApplyVoted, CallDead
<1>5. ASSUME NEW w \in Worker, NEW n \in Peer, Broadcaster(w, n), ~Broadcast("cch", n) PROVE FALSE
  BY <1>2, <1>3, <1>5 DEF Broadcaster, BroadcastFailed, Worker
<1>6. \/ \E c \in calls : Handle(c)
      \/ \E w \in Worker, n \in Peer : Broadcaster(w, n)
  BY <1>3 DEF Next, ClientPropose, CommitLocally, HealKeys, Heal, AppendPulled, ApplyPulled,
     TimeoutAny, Timeout, Reap, Crash, Disconnect, Cancel
<1> QED
  BY <1>1, <1>4, <1>5, <1>6

\* A step that touches no ballot adds no commit vote.
LEMMA NoVote ==
  ASSUME UNCHANGED ballot PROVE NoCommitVote
  BY DEF NoCommitVote

\* A step that only closes adds no commit vote.
LEMMA ClosedNoVote ==
  ASSUME ClosedOnly PROVE NoCommitVote
  BY DEF NoCommitVote, ClosedOnly

\* A vote to propose adds no commit vote and only its own vote.
LEMMA ProposedNoVote ==
  ASSUME TypeOK, NEW c \in calls, c \in Call, c.round \in DOMAIN ballot[c.node][c.entry],
         NEW p \in Peer, VoteAs(c, p)
  PROVE  /\ NoCommitVote
         /\ SetsVotes(c.node, c.entry, c.round, BallotOf(c).proposed \cup {p}, BallotOf(c).committed)
<1> DEFINE n == c.node
           e == c.entry
           r == c.round
<1>1. n \in Peer /\ e \in Entry
  BY DEF Call
<1>2. SetsVotes(n, e, r, ballot[n][e][r].proposed \cup {p}, ballot[n][e][r].committed)
  BY <1>1, ProposeType DEF VoteAs
<1>3. NoCommitVote
  <2> SUFFICES ASSUME NEW m \in Peer, NEW x \in Entry, NEW i \in DOMAIN ballot'[m][x]
               PROVE  i \in DOMAIN ballot[m][x]
                      /\ ballot'[m][x][i].committed = ballot[m][x][i].committed
    BY DEF NoCommitVote
  <2> HIDE DEF n, e, r
  <2>1. i \in DOMAIN ballot[m][x]
    BY <1>2 DEF SetsVotes
  <2> QED
    BY <1>2, <2>1 DEF SetsVotes
<1> QED
  BY <1>2, <1>3 DEF BallotOf

\* Commit votes are added by voteCommit only.
LEMMA BallotStep ==
  ASSUME Typed, Next, ~\E c \in calls : VoteCommit(c)
  PROVE  NoCommitVote
<1>0. TypeOK
  BY DEF Typed
<1>1. ASSUME NEW c \in calls, Handle(c) PROVE NoCommitVote
  <2>0. /\ c \in Call /\ c.node \in Peer /\ c.src \in Peer /\ c.entry \in Entry
        /\ c.pc \in Voting => c.round \in DOMAIN ballot[c.node][c.entry]
    BY AtType
  <2>1. CASE OpenBallot(c)
    <3>1. CASE UNCHANGED ballot
      BY <3>1, NoVote
    <3>2. CASE ballot' = [ballot EXCEPT ![c.node][c.entry] = Append(@, NewBallot)]
      <4>1. Opening(c.node, c.entry)
        BY <2>1 DEF OpenBallot, At, Opening
      <4> QED
        BY <1>0, <2>0, <3>2, <4>1, OpenType
    <3> QED
      BY <2>1, <3>1, <3>2 DEF OpenBallot
  <2>2. CASE RejectEntry(c)
    BY <2>0, <2>2, BallotGetCloseType, ClosedNoVote DEF RejectEntry
  <2>3. CASE ProposeSelf(c) \/ ProposeSource(c)
    <3>1. UNCHANGED ballot \/ VoteAs(c, c.node) \/ VoteAs(c, c.src)
      BY <2>3 DEF ProposeSelf, ProposeSource
    <3>2. c.round \in DOMAIN ballot[c.node][c.entry]
      BY <2>0, <2>3 DEF ProposeSelf, ProposeSource, At, Voting
    <3> QED
      BY <1>0, <2>0, <3>1, <3>2, NoVote, ProposedNoVote
  <2>4. CASE CheckFails(c) \/ ApplyVoted(c)
    <3>1. c.round \in DOMAIN ballot[c.node][c.entry]
      BY <2>0, <2>4 DEF CheckFails, ApplyVoted, Voting
    <3>2. UNCHANGED ballot \/ Close(c.node, c.entry, c.round, "err")
                           \/ Close(c.node, c.entry, c.round, "ok")
      BY <2>4 DEF CheckFails, ApplyVoted
    <3> QED
      BY <1>0, <2>0, <3>1, <3>2, NoVote, CloseType, ClosedNoVote DEF Status
  <2>5. CASE \/ VerifyEntry(c) \/ RequestHeal(c) \/ NewKey(c) \/ Put(c) \/ FindBallot(c)
             \/ AppendVoted(c) \/ CallDead(c)
    BY <2>5, NoVote DEF VerifyEntry, RequestHeal, NewKey, Put, FindBallot, AppendVoted, CallDead
  <2> QED
    BY <1>1, <2>1, <2>2, <2>3, <2>4, <2>5 DEF Handle
<1>2. ASSUME NEW w \in Worker, NEW n \in Peer, Broadcaster(w, n) PROVE NoCommitVote
  BY <1>2, BallotGetCloseType, ClosedNoVote, NoVote DEF Broadcaster, Broadcast, BroadcastFailed
<1>3. ASSUME NEW n \in Peer, TimeoutAny(n) PROVE NoCommitVote
  <2>a. PICK e \in Entry : \E r \in DOMAIN ballot[n][e] : Timeout(n, e, r)
    BY <1>3 DEF TimeoutAny
  <2>1. PICK r \in DOMAIN ballot[n][e] :
            ballot' = [ballot EXCEPT ![n][e][r].status = "timeout"]
    BY <2>a DEF Timeout
  <2>2. "timeout" \in Status
    BY DEF Status
  <2>3. \A m \in Peer, x \in Entry :
           /\ DOMAIN ballot'[m][x] = DOMAIN ballot[m][x]
           /\ \A i \in DOMAIN ballot[m][x] :
                 ballot'[m][x][i].committed = ballot[m][x][i].committed
    BY ZenonT(60), <1>0, <2>1, <2>2, StatusType
  <2> QED
    BY <2>3 DEF NoCommitVote
<1>4. ASSUME UNCHANGED ballot PROVE NoCommitVote
  BY <1>4, NoVote
<1> QED
  BY <1>1, <1>2, <1>3, <1>4 DEF Next, ClientPropose, CommitLocally, HealKeys, Heal,
      AppendPulled, ApplyPulled, Reap, Crash, Disconnect, Cancel

-----------------------------------------------------------------------------
(* Votes, pledges and logs only grow.                                      *)

PledgesGrow == \A p \in Peer : pledged[p] \subseteq pledged'[p]
LogsGrow == \A n \in Peer : Elems(log[n]) \subseteq Elems(log'[n])

\* Appending adds one element.
LEMMA ElemsAppended ==
  ASSUME NEW S, NEW s \in Seq(S), NEW e \in S
  PROVE  Elems(Append(s, e)) = Elems(s) \cup {e}
<1>1. /\ DOMAIN s = 1..Len(s) /\ Len(s) \in Nat
      /\ DOMAIN Append(s, e) = 1..(Len(s) + 1)
      /\ \A i \in 1..Len(s) : Append(s, e)[i] = s[i]
      /\ Append(s, e)[Len(s) + 1] = e
  OBVIOUS
<1>2. 1..(Len(s) + 1) = (1..Len(s)) \cup {Len(s) + 1}
  BY <1>1
<1> QED
  BY <1>1, <1>2 DEF Elems

\* One entry is appended to one log.
LEMMA AppendEntryFacts ==
  ASSUME TypeOK, NEW n \in Peer, NEW e \in Entry, AppendEntry(n, e)
  PROVE  /\ Previous[e] = LastOf(log[n])
         /\ \A m \in Peer : Elems(log'[m]) = IF m = n THEN Elems(log[n]) \cup {e}
                                                       ELSE Elems(log[m])
<1>1. log \in [Peer -> Seq(Entry)]
  BY DEF TypeOK
<1>2. Elems(Append(log[n], e)) = Elems(log[n]) \cup {e}
  BY <1>1, ElemsAppended
<1>3. log' = [log EXCEPT ![n] = Append(@, e)]
  BY DEF AppendEntry
<1>4. \A m \in Peer : log'[m] = IF m = n THEN Append(log[n], e) ELSE log[m]
  BY <1>1, <1>3
<1>5. Previous[e] = LastOf(log[n])
  BY DEF AppendEntry, Last
<1> QED
  BY <1>2, <1>4, <1>5

\* The handlers and the healer append an entry with a type.
LEMMA AppendStep ==
  ASSUME Typed, Next, log' # log
  PROVE  \E n \in Peer, e \in Entry :
            /\ AppendEntry(n, e)
            /\ \/ \E c \in calls : AppendVoted(c) /\ c.node = n /\ c.entry = e
               \/ e \in Elems(healer[n].stream)
            /\ UNCHANGED pledged
<1>1. CASE \E c \in calls : AppendVoted(c)
  BY <1>1, AtType DEF AppendVoted
<1>2. ASSUME NEW n \in Peer, AppendPulled(n)
      PROVE  \E e \in Entry : AppendEntry(n, e) /\ e \in Elems(healer[n].stream) /\ UNCHANGED pledged
  <2>1. healer[n] \in Healer /\ healer[n].pc = "append"
    BY <1>2 DEF AppendPulled, Typed, TypeOK
  <2>2. healer[n].stream \in Seq(Entry) /\ healer[n].stream # <<>>
    BY <2>1 DEF Healer
  <2>3. /\ Head(healer[n].stream) \in Entry
        /\ Head(healer[n].stream) \in Elems(healer[n].stream)
    BY <2>2 DEF Elems
  <2>4. AppendEntry(n, Head(healer[n].stream)) /\ UNCHANGED pledged
    BY <1>2 DEF AppendPulled
  <2> QED
    BY <2>3, <2>4
<1> QED
  BY <1>1, <1>2, LogStep

\* Logs and pledges only grow: the code calls no rollback.
LEMMA GrowStep ==
  ASSUME Typed, Next
  PROVE  PledgesGrow /\ LogsGrow
<1>0. TypeOK
  BY DEF Typed
<1>1. PledgesGrow
  <2>1. CASE pledged' = pledged
    BY <2>1 DEF PledgesGrow
  <2>2. CASE pledged' # pledged
    <3>1. PICK c \in calls : VoteCommit(c)
      BY <2>2, PledgeStep
    <3>2. pledged' = [pledged EXCEPT ![c.node] = @ \cup {c.entry}]
      BY <2>2, <3>1 DEF VoteCommit
    <3>3. pledged \in [Peer -> SUBSET Entry]
      BY <1>0 DEF TypeOK
    <3> QED
      BY <3>2, <3>3 DEF PledgesGrow
  <2> QED
    BY <2>1, <2>2
<1>2. LogsGrow
  BY <1>0, AppendStep, AppendEntryFacts DEF LogsGrow
<1> QED
  BY <1>1, <1>2

-----------------------------------------------------------------------------
(* Counting votes.                                                         *)

\* As many votes as peers are the votes of all peers (checkVotesAndCommit counts).
LEMMA AllVotes ==
  ASSUME ConstantsAssumption, NEW S \in SUBSET Peer, Cardinality(S) = Cardinality(Peer)
  PROVE  S = Peer
  BY FS_Subset DEF ConstantsAssumption

\* A count of one is the only vote (queueBroadcastOrCommit at one vote).
LEMMA OneVote ==
  ASSUME NEW p, NEW S, p \in S, IsFiniteSet(S), NEW q, Cardinality(S \cup {q}) = 1
  PROVE  q = p
<1>1. IsFiniteSet(S \cup {q})
  BY FS_AddElement
<1> QED
  BY <1>1, FS_Singleton

\* What a vote to commit does, on an open ballot.
LEMMA VoteCommitFacts ==
  ASSUME Typed, VotingInv, NEW c \in calls, VoteCommit(c)
  PROVE  \/ UNCHANGED <<ballot, pledged>> /\ calls' = calls \ {c}
         \/ LET voter == IF c.pc = "self" THEN c.node ELSE c.src IN
            /\ voter \in Peer /\ c.op = "commit" /\ c.pc \in {"self", "source"}
            /\ SetsVotes(c.node, c.entry, c.round, BallotOf(c).proposed,
                         BallotOf(c).committed \cup {voter})
            /\ c.node \in BallotOf(c).committed \cup {voter}
            /\ c.entry \in pledged'[voter]
            /\ \/ calls' = calls \ {c} \/ Goto(c, "source")
               \/ (Goto(c, "selfput") \/ Goto(c, "put")) /\ voter = c.node
               \/ /\ Goto(c, "selfcheck") \/ Goto(c, "check")
                  /\ Cardinality(BallotOf(c).committed \cup {voter}) = Cardinality(Peer)
<1> DEFINE n == c.node
           e == c.entry
           r == c.round
           b == BallotOf(c)
           voter == IF c.pc = "self" THEN n ELSE c.src
<1>0. /\ TypeOK /\ c \in Call /\ n \in Peer /\ c.src \in Peer /\ e \in Entry
      /\ c.op = "commit" /\ c.pc \in {"self", "source"} /\ r \in DOMAIN ballot[n][e]
  BY AtType DEF Typed, VoteCommit, At, Voting
<1>1. CASE b.status # "open"
  BY <1>1 DEF VoteCommit, Return
<1>2. CASE b.status = "open"
  <2>0. b = ballot[n][e][r] /\ voter \in Peer
    BY <1>0 DEF BallotOf
  <2>1. SetsVotes(n, e, r, b.proposed, b.committed \cup {voter})
    <3>1. ballot' = [ballot EXCEPT ![n][e][r].committed = @ \cup {voter}]
      BY <1>2 DEF VoteCommit
    <3> HIDE DEF n, e, r, b, voter
    <3> QED
      BY <1>0, <2>0, <3>1, CommitType
  <2>2. CallInv(c)
    BY DEF VotingInv
  <2>3. n \in b.committed \cup {voter}
    BY <1>0, <2>2 DEF CallInv, OwnVoted
  <2>4. e \in pledged'[voter]
    <3>1. pledged \in [Peer -> SUBSET Entry]
      BY <1>0 DEF TypeOK
    <3>2. pledged' = IF voter = n THEN [pledged EXCEPT ![n] = @ \cup {e}] ELSE pledged
      BY <1>2 DEF VoteCommit
    <3>3. voter # n => e \in pledged[voter]
      BY <1>0, <2>2 DEF CallInv
    <3> QED
      BY <1>0, <3>1, <3>2, <3>3
  <2>5. Cardinality(b.committed \cup {voter}) = 1 => voter = n
    <3>2. IsFiniteSet(b.committed)
      BY <1>0, <2>0, BallotInRange, FS_Subset, ConstantsAssumption DEF ConstantsAssumption
    <3>3. CASE n \in b.committed
      BY <3>2, <3>3, OneVote
    <3> QED
      BY <2>3, <3>3
  <2>6. \/ calls' = calls \ {c} \/ Goto(c, "source")
        \/ /\ Goto(c, "selfput") \/ Goto(c, "put")
           /\ Cardinality(b.committed \cup {voter}) = 1
        \/ /\ Goto(c, "selfcheck") \/ Goto(c, "check")
           /\ Cardinality(b.committed \cup {voter}) = Cardinality(Peer)
    BY <1>2 DEF VoteCommit, Resume, Return
  <2> QED
    BY <1>0, <2>0, <2>1, <2>3, <2>4, <2>5, <2>6
<1> QED
  BY <1>1, <1>2

-----------------------------------------------------------------------------
(* VotingInv is inductive, one lemma per part.                             *)

\* What a handler that goes on, without having counted all votes, may do.
Keeps(c, d) ==
    /\ d.op = c.op /\ d.src = c.src /\ d.node = c.node /\ d.entry = c.entry
    /\ d.round = c.round \/ (c.op = "propose" /\ d.pc \notin {"selfcheck", "check"})
    /\ c.op = "commit" => /\ d.pc \in OwnVoted => c.pc \in OwnVoted
                          /\ d.pc \in {"selfput", "put"} => c.pc \in {"selfput", "put"}
    /\ d.pc \in {"ballot", "selfcheck", "check"} => d.pc = c.pc

\* Such a handler knows what it knew.
LEMMA CarryCall ==
  ASSUME Typed, Typed', BallotsGrow, PledgesGrow, LogsGrow, NEW c \in calls, CallInv(c), NEW d,
         Keeps(c, d)
  PROVE  CallInv(d)'
<1>1. /\ c \in Call /\ c.node \in Peer /\ c.src \in Peer /\ c.entry \in Entry
      /\ c.pc \in Voting => c.round \in DOMAIN ballot[c.node][c.entry]
      /\ c.op \in {"propose", "commit"} /\ OwnVoted \subseteq Voting
      /\ d.op = c.op /\ d.src = c.src /\ d.node = c.node /\ d.entry = c.entry
  BY AtType DEF Call, Keeps, Voting, OwnVoted
<1>2. d.op = "commit" /\ d.src # d.node => d.entry \in pledged'[d.src]
  BY <1>1 DEF CallInv, PledgesGrow
<1>3. ASSUME d.op = "commit", d.src # d.node, d.pc \in OwnVoted
      PROVE  d.node \in BallotOf(d)'.committed
  <2>1. c.pc \in OwnVoted /\ d.round = c.round
    BY <1>1, <1>3 DEF Keeps
  <2>2. c.node \in BallotOf(c).committed /\ c.round \in DOMAIN ballot[c.node][c.entry]
    BY <1>1, <1>3, <2>1 DEF CallInv
  <2> QED
    BY <1>1, <2>1, <2>2 DEF BallotsGrow, BallotOf
<1>4. d.op = "commit" /\ d.pc \in {"selfput", "put"} => d.entry \in pledged'[d.node]
  BY <1>1 DEF CallInv, PledgesGrow, Keeps
<1>5. d.pc = "ballot" => Previous[d.entry] \in Elems(log'[d.node]) \cup {Zero}
  BY <1>1 DEF CallInv, LogsGrow, Keeps
<1>6. ASSUME d.pc \in {"selfcheck", "check"}
      PROVE  IF d.op = "propose" THEN BallotOf(d)'.proposed = Peer
                                 ELSE BallotOf(d)'.committed = Peer
  <2>0. d.pc = c.pc /\ d.round = c.round
    BY <1>1, <1>6 DEF Keeps
  <2>1. d.round = c.round /\ c.round \in DOMAIN ballot[c.node][c.entry]
    BY <1>1, <1>6, <2>0 DEF Voting
  <2>2. /\ BallotOf(c).proposed \subseteq BallotOf(d)'.proposed
        /\ BallotOf(c).committed \subseteq BallotOf(d)'.committed
    BY <1>1, <2>1 DEF BallotsGrow, BallotOf
  <2>3. BallotOf(d)' \in Ballot
    <3>1. ballot'[d.node][d.entry] \in Seq(Ballot) /\ d.round \in DOMAIN ballot'[d.node][d.entry]
      BY <1>1, <2>1 DEF Typed, TypeOK, BallotsGrow
    <3> QED
      BY <3>1, SeqFacts DEF BallotOf
  <2>4. BallotOf(d)'.proposed \subseteq Peer /\ BallotOf(d)'.committed \subseteq Peer
    BY <2>3 DEF Ballot
  <2>5. IF c.op = "propose" THEN BallotOf(c).proposed = Peer ELSE BallotOf(c).committed = Peer
    BY <1>6, <2>0 DEF CallInv
  <2> QED
    BY <1>1, <2>2, <2>4, <2>5
<1> QED
  BY <1>2, <1>3, <1>4, <1>5, <1>6 DEF CallInv

\* The ballot of a handler after it was set.
LEMMA VotesSet ==
  ASSUME Typed, NEW c \in calls, c.pc \in Voting, NEW P, NEW C,
         SetsVotes(c.node, c.entry, c.round, P, C)
  PROVE  BallotOf(c)'.proposed = P /\ BallotOf(c)'.committed = C
<1>1. /\ c.node \in Peer /\ c.entry \in Entry
      /\ c.round \in DOMAIN ballot[c.node][c.entry]
  BY AtType
<1> QED
  BY <1>1 DEF SetsVotes, BallotOf

\* The last entry of a log is one of its entries.
LEMMA LastInLog ==
  ASSUME TypeOK, NEW n \in Peer
  PROVE  Last(n) \in Elems(log[n]) \cup {Zero}
<1>1. log[n] \in Seq(Entry)
  BY DEF TypeOK
<1> QED
  BY <1>1 DEF Last, LastOf, Elems

\* What VotingInv says of calls survives every step.
LEMMA CallInvStep ==
  ASSUME Typed, VotingInv, Next, Typed', BallotsGrow, PledgesGrow, LogsGrow, NEW d \in calls'
  PROVE  CallInv(d)'
<1>0. \A c \in calls : CallInv(c)
  BY DEF VotingInv
<1>1. ASSUME NEW c \in calls PROVE CallInv(c)'
  <2>1. CallInv(c) /\ Keeps(c, c)
    BY <1>0 DEF Keeps
  <2> QED
    BY <2>1, CarryCall
<1>2. CASE d.pc = "start" /\ (d.op = "propose" \/ d.src = d.node)
  BY <1>2 DEF CallInv, OwnVoted
<1>3. ASSUME NEW c \in calls, Handle(c), d \notin calls PROVE CallInv(d)'
  <2>0. /\ c \in Call /\ CallInv(c)
        /\ c.node \in Peer /\ c.src \in Peer /\ c.entry \in Entry
    BY <1>0, AtType
  <2>a. ASSUME NEW pc, Goto(c, pc)
        PROVE  d.op = c.op /\ d.src = c.src /\ d.node = c.node /\ d.entry = c.entry
               /\ d.round = c.round /\ d.pc = pc
    <3>1. d = [c EXCEPT !.pc = pc]
      BY <1>3, <2>a DEF Goto
    <3> QED
      BY <2>0, <3>1 DEF Call
  <2>b. ASSUME NEW pc, NEW r, GotoRound(c, pc, r)
        PROVE  d.op = c.op /\ d.src = c.src /\ d.node = c.node /\ d.entry = c.entry
               /\ d.round = r /\ d.pc = pc
    <3>1. d = [c EXCEPT !.pc = pc, !.round = r]
      BY <1>3, <2>b DEF GotoRound
    <3> QED
      BY <2>0, <3>1 DEF Call
  <2>c. ASSUME c.op = "propose", NEW pc \in {"self", "source", "selfkey", "key", "selfput", "put",
                                             "heal", "reject"}, Goto(c, pc)
        PROVE  CallInv(d)'
    <3>1. Keeps(c, d)
      BY <2>a, <2>c DEF Keeps
    <3> QED
      BY <2>0, <3>1, CarryCall
  <2>d. ASSUME c.pc # "self", Resume(c) PROVE CallInv(d)'
    <3>1. c.pc \in {"selfput", "selfcheck", "selfapply"} /\ Goto(c, "source")
      BY <1>3, <2>d DEF Resume, Return
    <3>2. Keeps(c, d)
      BY <2>a, <3>1 DEF Keeps, OwnVoted
    <3> QED
      BY <2>0, <3>2, CarryCall
  <2>1. CASE VerifyEntry(c)
    <3>1. CASE Previous[c.entry] = Last(c.node) /\ Goto(c, "ballot")
      <4>1. Previous[d.entry] \in Elems(log'[d.node]) \cup {Zero}
        BY <2>0, <2>a, <3>1, LastInLog DEF LogsGrow, Typed
      <4>2. d.op = "propose" /\ d.pc = "ballot"
        BY <2>1, <2>a, <3>1 DEF VerifyEntry, At
      <4> QED
        BY <4>1, <4>2 DEF CallInv
    <3> QED
      BY <2>1, <2>c, <3>1 DEF VerifyEntry, At
  <2>2. CASE OpenBallot(c)
    <3>1. /\ c.op = "propose"
          /\ \E r : \E pc \in {"source", "self"} : GotoRound(c, pc, r)
      BY <2>2 DEF OpenBallot, At
    <3>2. Keeps(c, d)
      BY <2>b, <3>1 DEF Keeps
    <3> QED
      BY <2>0, <3>2, CarryCall
  <2>3. CASE RequestHeal(c) \/ RejectEntry(c) \/ CallDead(c)
    BY <1>3, <2>3 DEF RequestHeal, RejectEntry, CallDead, Return
  <2>4. CASE ProposeSelf(c) \/ NewKey(c)
    BY <2>4, <2>c, UpsertGoes DEF ProposeSelf, NewKey, At
  <2>5. CASE Put(c)
    BY <2>5, <2>d DEF Put
  <2>6. CASE ProposeSource(c) /\ Goto(c, "check")
    <3>1. /\ c.op = "propose" /\ c.pc \in Voting /\ VoteAs(c, c.src)
          /\ Cardinality(BallotOf(c).proposed \cup {c.src}) = Cardinality(Peer)
      <4>1. d.pc = "check" /\ d \notin calls \ {c}
        BY <1>3, <2>6, <2>a
      <4>2. ASSUME UpsertKeyAndBroadcast(c) PROVE FALSE
        <5>1. PICK pc \in {"selfkey", "key", "selfput", "put"} : Goto(c, pc)
          BY <4>2, UpsertGoes
        <5> QED
          BY <2>a, <4>1, <5>1
      <4> QED
        BY <1>3, <2>6, <4>2 DEF ProposeSource, At, Return, Voting
    <3>2. c.round \in DOMAIN ballot[c.node][c.entry]
      BY <3>1, AtType
    <3>a. BallotOf(c).proposed \cup {c.src} \in SUBSET Peer
      BY <2>0, <3>2, BallotInRange DEF BallotOf, Typed
    <3>3. BallotOf(c).proposed \cup {c.src} = Peer
      BY <3>1, <3>a, AllVotes, ConstantsAssumption
    <3>4. BallotOf(c)'.proposed = Peer
      BY ZenonT(60), <2>0, <3>1, <3>2, <3>3, ProposedNoVote, VotesSet DEF Typed
    <3>5. BallotOf(d)' = BallotOf(c)' /\ d.op = "propose" /\ d.pc = "check"
      BY <2>6, <2>a, <3>1 DEF BallotOf
    <3> QED
      BY <3>4, <3>5 DEF CallInv
  <2>7. CASE ProposeSource(c) /\ ~Goto(c, "check")
    <3>1. c.op = "propose" /\ UpsertKeyAndBroadcast(c)
      BY <1>3, <2>7 DEF ProposeSource, At, Return
    <3> QED
      BY <2>c, <3>1, UpsertGoes
  <2>8. CASE FindBallot(c)
    <3>1. /\ c.op = "commit"
          /\ GotoRound(c, IF c.src = c.node THEN "source" ELSE "self", Current(c.node, c.entry))
      BY <1>3, <2>8 DEF FindBallot, At, Return
    <3>2. d.op = "commit" /\ d.src = c.src /\ d.node = c.node /\ d.entry = c.entry
          /\ d.pc = IF c.src = c.node THEN "source" ELSE "self"
      BY <2>b, <3>1
    <3> QED
      BY <2>0, <3>1, <3>2 DEF CallInv, PledgesGrow, OwnVoted
  <2>9. CASE VoteCommit(c)
    <3> DEFINE voter == IF c.pc = "self" THEN c.node ELSE c.src
    <3>1. /\ c.op = "commit" /\ c.pc \in {"self", "source"} /\ voter \in Peer
          /\ SetsVotes(c.node, c.entry, c.round, BallotOf(c).proposed,
                       BallotOf(c).committed \cup {voter})
          /\ c.node \in BallotOf(c).committed \cup {voter}
          /\ c.entry \in pledged'[voter]
          /\ \/ Goto(c, "source")
             \/ (Goto(c, "selfput") \/ Goto(c, "put")) /\ voter = c.node
             \/ /\ Goto(c, "selfcheck") \/ Goto(c, "check")
                /\ Cardinality(BallotOf(c).committed \cup {voter}) = Cardinality(Peer)
      BY <1>3, <2>9, VoteCommitFacts
    <3> HIDE DEF voter
    <3>2. BallotOf(c)'.committed = BallotOf(c).committed \cup {voter}
      BY <3>1, VotesSet DEF Voting
    <3>3. BallotOf(d)' = BallotOf(c)' /\ d.op = "commit" /\ d.node = c.node
          /\ d.src = c.src /\ d.entry = c.entry
          /\ d.pc \in {"source", "selfput", "put", "selfcheck", "check"}
      BY <2>a, <3>1 DEF BallotOf
    <3>4. d.pc \in {"selfcheck", "check"} => BallotOf(c)'.committed = Peer
      <4>1. BallotOf(c).committed \subseteq Peer
        BY <2>0, <3>1, AtType, BallotInRange DEF BallotOf, Typed, Voting
      <4>2. d.pc \in {"selfcheck", "check"} =>
              Cardinality(BallotOf(c).committed \cup {voter}) = Cardinality(Peer)
        BY <2>a, <3>1
      <4> QED
        BY <3>1, <3>2, <4>1, <4>2, AllVotes, ConstantsAssumption
    <3>5. d.src # d.node => d.entry \in pledged'[d.src]
      BY <2>0, <3>1, <3>3 DEF CallInv, PledgesGrow
    <3>6. d.pc \in {"selfput", "put"} => d.entry \in pledged'[d.node]
      BY <2>a, <3>1, <3>3
    <3> QED
      BY <3>1, <3>2, <3>3, <3>4, <3>5, <3>6 DEF CallInv
  <2>10. CASE CheckFails(c) \/ ApplyVoted(c)
    BY <2>10, <2>d DEF CheckFails, ApplyVoted
  <2>11. CASE AppendVoted(c)
    <3>1. \/ c.pc = "selfcheck" /\ Goto(c, "selfapply")
          \/ c.pc = "check" /\ Goto(c, "apply")
      BY <2>11 DEF AppendVoted
    <3>2. Keeps(c, d)
      BY <2>a, <3>1 DEF Keeps, OwnVoted
    <3> QED
      BY <2>0, <3>2, CarryCall
  <2> QED
    BY <1>3, <2>1, <2>2, <2>3, <2>4, <2>5, <2>6, <2>7, <2>8, <2>9, <2>10, <2>11 DEF Handle
<1>4. CASE \E w \in Worker, n \in Peer : Broadcaster(w, n)
  <2>1. CASE \E n \in Peer : Broadcast("cch", n) /\ d \notin calls
    <3>1. PICK n \in Peer : Broadcast("cch", n)
      BY <2>1
    <3>2. /\ queue["cch"][n] \in Seq(Entry) /\ queue["cch"][n] # <<>>
      BY <3>1 DEF Broadcast, Typed, TypeOK, Worker
    <3>3. Head(queue["cch"][n]) \in pledged[n]
      BY <3>2 DEF VotingInv, QueueInv, Elems
    <3>4. d.op = "commit" /\ d.src = n /\ d.entry = Head(queue["cch"][n]) /\ d.pc = "start"
      BY <2>1, <3>1 DEF Broadcast, BroadcastOf
    <3> QED
      BY <3>3, <3>4 DEF CallInv, PledgesGrow, OwnVoted
  <2>2. CASE \E n \in Peer : Broadcast("pch", n)
    BY <1>1, <1>2, <2>2 DEF Broadcast, BroadcastOf
  <2>3. CASE \E w \in Worker, n \in Peer : BroadcastFailed(w, n)
    BY <1>1, <2>3 DEF BroadcastFailed
  <2> QED
    BY <1>1, <1>4, <2>1, <2>2, <2>3 DEF Broadcaster, Worker
<1>5. CASE \E n \in Contacts, e \in Entry : \E src \in {n, First} : ClientPropose(n, src, e)
  BY <1>1, <1>2, <1>5 DEF ClientPropose
<1>6. CASE \E n \in Peer : CommitLocally(n)
  BY <1>1, <1>2, <1>6 DEF CommitLocally
<1>7. CASE \E n \in Peer : HealKeys(n) \/ TimeoutAny(n) \/ Reap(n) \/ Crash(n)
  BY <1>1, <1>7 DEF HealKeys, Heal, AppendPulled, ApplyPulled, TimeoutAny, Timeout, Reap, Crash
<1>8. CASE \E c \in calls : Disconnect(c) \/ Cancel(c)
  BY <1>1, <1>8 DEF Disconnect, Cancel
<1> QED
  BY <1>1, <1>3, <1>4, <1>5, <1>6, <1>7, <1>8 DEF Next

\* So does what it says of ballots, with the order of the first commit vote.
LEMMA BallotInvStep ==
  ASSUME Typed, VotingInv, Next, Typed', BallotsGrow, PledgesGrow, LogsGrow,
         NEW n \in Peer, NEW e \in Entry
  PROVE  /\ BallotInv(n, e)'
         /\ \A r \in DOMAIN ballot'[n][e] :
               ballot'[n][e][r].committed # {} => n \in ballot'[n][e][r].committed
<1>0. /\ BallotInv(n, e) /\ ballot[n][e] \in Seq(Ballot) /\ ballot'[n][e] \in Seq(Ballot)
      /\ log[n] \in Seq(Entry)
      /\ \A r \in DOMAIN ballot[n][e] :
            /\ ballot[n][e][r].committed # {} => n \in ballot[n][e][r].committed
            /\ ballot[n][e][r].committed \subseteq Peer
  BY BallotInRange DEF VotingInv, Typed, TypeOK, SelfCommitsFirst
<1>1. CASE NoCommitVote
  <2>1. ASSUME ballot'[n][e] # <<>> PROVE Previous[e] \in Elems(log'[n]) \cup {Zero}
    <3>1. CASE ballot[n][e] # <<>>
      BY <1>0, <3>1 DEF BallotInv, LogsGrow
    <3>2. CASE ballot[n][e] = <<>>
      <4>0. 1 \in DOMAIN ballot'[n][e] /\ 1 \notin DOMAIN ballot[n][e]
        BY <1>0, <2>1, <3>2
      <4>1. PICK c \in calls : c.node = n /\ c.entry = e /\ c.pc = "ballot"
        BY <1>1, <2>1, <4>0 DEF NoCommitVote, Opening
      <4>2. CallInv(c)
        BY DEF VotingInv
      <4> QED
        BY <4>1, <4>2 DEF CallInv, LogsGrow
    <3> QED
      BY <3>1, <3>2
  <2>2. ASSUME NEW r \in DOMAIN ballot'[n][e]
        PROVE  /\ \A p \in ballot'[n][e][r].committed : e \in pledged'[p]
               /\ ballot'[n][e][r].committed # {} => n \in ballot'[n][e][r].committed
    <3>1. CASE /\ r \in DOMAIN ballot[n][e]
               /\ ballot'[n][e][r].committed = ballot[n][e][r].committed
      BY <1>0, <3>1 DEF BallotInv, PledgesGrow
    <3>2. CASE ballot'[n][e][r].committed = {}
      BY <3>2
    <3> QED
      BY <1>1, <3>1, <3>2 DEF NoCommitVote
  <2> QED
    BY <2>1, <2>2 DEF BallotInv
<1>2. CASE \E c \in calls : VoteCommit(c)
  <2>1. PICK c \in calls : VoteCommit(c)
    BY <1>2
  <2>2. CASE UNCHANGED ballot
    BY <1>1, <2>2, NoVote
  <2>3. CASE ballot' # ballot
    <3> DEFINE voter == IF c.pc = "self" THEN c.node ELSE c.src
    <3>1. /\ SetsVotes(c.node, c.entry, c.round, BallotOf(c).proposed,
                       BallotOf(c).committed \cup {voter})
          /\ c.node \in BallotOf(c).committed \cup {voter}
          /\ c.entry \in pledged'[voter]
      BY <2>1, <2>3, VoteCommitFacts
    <3> HIDE DEF voter
    <3>2. /\ DOMAIN ballot'[n][e] = DOMAIN ballot[n][e]
          /\ \A i \in DOMAIN ballot[n][e] :
                ballot'[n][e][i].committed = IF n = c.node /\ e = c.entry /\ i = c.round
                    THEN BallotOf(c).committed \cup {voter} ELSE ballot[n][e][i].committed
      BY <3>1 DEF SetsVotes
    <3>3. ASSUME ballot'[n][e] # <<>> PROVE Previous[e] \in Elems(log'[n]) \cup {Zero}
      <4>1. ballot[n][e] # <<>>
        <5>1. 1 \in DOMAIN ballot[n][e]
          BY <1>0, <3>2, <3>3
        <5> QED
          BY <5>1
      <4> QED
        BY <1>0, <4>1 DEF BallotInv, LogsGrow
    <3>4. ASSUME NEW r \in DOMAIN ballot'[n][e]
          PROVE  /\ \A p \in ballot'[n][e][r].committed : e \in pledged'[p]
                 /\ ballot'[n][e][r].committed # {} => n \in ballot'[n][e][r].committed
      <4>0. /\ r \in DOMAIN ballot[n][e]
            /\ \A p \in ballot[n][e][r].committed : e \in pledged'[p]
        BY <1>0, <3>2 DEF BallotInv, PledgesGrow
      <4>1. CASE n = c.node /\ e = c.entry /\ r = c.round
        <5>1. ballot'[n][e][r].committed = ballot[n][e][r].committed \cup {voter}
          BY <3>2, <4>0, <4>1 DEF BallotOf
        <5>2. n \in ballot[n][e][r].committed \cup {voter} /\ e \in pledged'[voter]
          BY <3>1, <4>1 DEF BallotOf
        <5> QED
          BY <4>0, <5>1, <5>2
      <4>2. CASE ~(n = c.node /\ e = c.entry /\ r = c.round)
        BY <1>0, <3>2, <4>0, <4>2
      <4> QED
        BY <4>1, <4>2
    <3> QED
      BY <3>3, <3>4 DEF BallotInv
  <2> QED
    BY <2>2, <2>3
<1> QED
  BY <1>1, <1>2, BallotStep

\* So does what it says of the commits waiting on cch.
LEMMA QueueInvStep ==
  ASSUME Typed, VotingInv, Next, Typed', PledgesGrow
  PROVE  QueueInv'
<1>0. /\ queue \in [Worker -> [Peer -> Seq(Entry)]] /\ "cch" \in Worker
      /\ QueueInv
  BY DEF Typed, TypeOK, VotingInv, Worker
<1>1. CASE queue'["cch"] = queue["cch"]
  BY <1>0, <1>1 DEF QueueInv, PledgesGrow
<1>2. ASSUME NEW n \in Peer, Broadcast("cch", n) PROVE QueueInv'
  <2>1. queue["cch"][n] \in Seq(Entry) /\ queue["cch"][n] # <<>>
    BY <1>0, <1>2 DEF Broadcast
  <2>2. Elems(Tail(queue["cch"][n])) \subseteq Elems(queue["cch"][n])
    BY <2>1, TailFacts DEF Elems
  <2>3. queue' = [queue EXCEPT !["cch"][n] = Tail(@)]
    BY <1>2 DEF Broadcast
  <2>4. \A m \in Peer : queue'["cch"][m] = IF m = n THEN Tail(queue["cch"][n]) ELSE queue["cch"][m]
    BY <1>0, <2>3
  <2> QED
    BY <1>0, <2>2, <2>4 DEF QueueInv, PledgesGrow
<1>3. ASSUME NEW c \in calls, Put(c), c.op = "commit" PROVE QueueInv'
  <2>0. c.node \in Peer /\ c.entry \in Entry
    BY AtType
  <2>1. Enqueue("cch", c.node, c.entry)
    BY <1>3 DEF Put
  <2>a. CallInv(c) /\ c.pc \in {"selfput", "put"}
    BY <1>3 DEF VotingInv, Put
  <2>2. c.entry \in pledged[c.node]
    BY <1>3, <2>a DEF CallInv
  <2>3. \A m \in Peer : queue'["cch"][m] =
            IF m = c.node THEN Append(queue["cch"][m], c.entry) ELSE queue["cch"][m]
    BY <1>0, <2>0, <2>1 DEF Enqueue
  <2>4. queue["cch"][c.node] \in Seq(Entry)
    BY <1>0, <2>0
  <2>5. Elems(Append(queue["cch"][c.node], c.entry)) = Elems(queue["cch"][c.node]) \cup {c.entry}
    BY <2>0, <2>4, ElemsAppended
  <2> QED
    BY <1>0, <2>0, <2>2, <2>3, <2>5 DEF QueueInv, PledgesGrow
<1> QED
  BY <1>1, <1>2, <1>3, QueueStep

\* So does what it says of the entries being pulled.
LEMMA StreamInvStep ==
  ASSUME Typed, VotingInv, Next, Typed', PledgesGrow
  PROVE  StreamInv'
<1>0. TypeOK /\ healer \in [Peer -> Healer] /\ StreamInv
  BY DEF Typed, TypeOK, VotingInv
<1>1. CASE healer' = healer
  BY <1>0, <1>1 DEF StreamInv, PledgesGrow
<1>2. ASSUME NEW n \in Peer,
             \A m \in Peer : m # n => healer'[m].stream = healer[m].stream,
             \A p \in Peer : Elems(healer'[n].stream) \subseteq pledged[p]
      PROVE  StreamInv'
  BY <1>0, <1>2 DEF StreamInv, PledgesGrow
<1>3. ASSUME NEW n \in Peer, HealKeys(n) PROVE StreamInv'
  <2>1. ASSUME healer[n].pc # "idle", NextPulled(n) PROVE StreamInv'
    <3>1. \A m \in Peer : Elems(healer'[m].stream) \subseteq Elems(healer[m].stream)
      BY <1>0, <2>1, NextPulledType DEF Elems
    <3> QED
      BY <1>0, <3>1 DEF StreamInv, PledgesGrow
  <2>2. CASE Heal(n)
    <3>1. PICK m \in Leaders :
            \/ UNCHANGED healer
            \/ healer' = [healer EXCEPT ![n] =
                  [pc |-> IF Stream(m, n) = <<>> THEN "idle" ELSE "append",
                   stream |-> Stream(m, n)]]
      BY <2>2 DEF Heal
    <3>2. CASE healer' # healer
      <4>1. \A q \in Peer : healer'[q].stream = IF q = n THEN Stream(m, n) ELSE healer[q].stream
        BY <1>0, <3>1, <3>2
      <4>2. Elems(Stream(m, n)) \subseteq Elems(log[m])
        BY SMTT(30), <1>0, <3>1, StreamFacts DEF Elems, Leaders
      <4>3. \A p \in Peer : Elems(log[m]) \subseteq pledged[p]
        BY <3>1 DEF VotingInv, Unanimity, Promise!Unanimity, Promise!Elems, Elems, Leaders
      <4> QED
        BY <1>2, <4>1, <4>2, <4>3
    <3> QED
      BY <1>1, <3>2
  <2>3. CASE AppendPulled(n)
    <3>1. CASE healer' = [healer EXCEPT ![n].pc = "apply"]
      <4>1. \A m \in Peer : healer'[m].stream = healer[m].stream
        BY <1>0, <3>1 DEF Healer
      <4> QED
        BY <1>0, <4>1 DEF StreamInv, PledgesGrow
    <3> QED
      BY <2>1, <2>3, <3>1 DEF AppendPulled
  <2>4. CASE ApplyPulled(n)
    BY <2>1, <2>4 DEF ApplyPulled
  <2> QED
    BY <1>3, <2>2, <2>3, <2>4 DEF HealKeys
<1> QED
  BY <1>1, <1>3, HealerStep

\* An appended entry has everybody's pledge, whoever appends it.
LEMMA AppendPledged ==
  ASSUME Typed, VotingInv, Next, log' # log
  PROVE  \E n \in Peer, e \in Entry : /\ AppendEntry(n, e) /\ UNCHANGED pledged
                                      /\ \A p \in Peer : e \in pledged[p]
<1>1. PICK n \in Peer, e \in Entry :
         /\ AppendEntry(n, e)
         /\ \/ \E c \in calls : AppendVoted(c) /\ c.node = n /\ c.entry = e
            \/ e \in Elems(healer[n].stream)
         /\ UNCHANGED pledged
  BY AppendStep
<1>2. ASSUME NEW c \in calls, AppendVoted(c), c.node = n, c.entry = e
      PROVE  \A p \in Peer : e \in pledged[p]
  <2>1. c.pc \in {"selfcheck", "check"} /\ Complete(c) /\ CallInv(c)
        /\ c.round \in DOMAIN ballot[n][e]
    BY <1>2, AtType DEF AppendVoted, VotingInv, Voting
  <2>2. BallotOf(c).committed \subseteq Peer
    BY <1>2, <2>1, BallotInRange DEF BallotOf, Typed
  <2>3. BallotOf(c).committed = Peer
    BY <2>1, <2>2, AllVotes, ConstantsAssumption DEF CallInv, Complete
  <2> QED
    BY <1>2, <2>1, <2>3 DEF VotingInv, BallotInv, BallotOf
<1>3. ASSUME e \in Elems(healer[n].stream) PROVE \A p \in Peer : e \in pledged[p]
  BY <1>3 DEF VotingInv, StreamInv
<1> QED
  BY <1>1, <1>2, <1>3

\* An append, by votes or by healing, keeps Unanimity.
LEMMA UnanimityStep ==
  ASSUME Typed, VotingInv, Next, PledgesGrow
  PROVE  Unanimity'
<1>0. TypeOK /\ \A n, p \in Peer : Elems(log[n]) \subseteq pledged[p]
  BY DEF Typed, VotingInv, Unanimity, Promise!Unanimity, Promise!Elems, Elems
<1>1. \A n, p \in Peer : Elems(log'[n]) \subseteq pledged'[p]
  <2>1. CASE log' = log
    BY <1>0, <2>1 DEF PledgesGrow
  <2>2. CASE log' # log
    <3>1. PICK n \in Peer, e \in Entry : /\ AppendEntry(n, e) /\ UNCHANGED pledged
                                        /\ \A p \in Peer : e \in pledged[p]
      BY <2>2, AppendPledged
    <3>2. \A m \in Peer : Elems(log'[m]) \subseteq Elems(log[m]) \cup {e}
      BY <1>0, <3>1, AppendEntryFacts
    <3> QED
      BY <1>0, <3>1, <3>2
  <2> QED
    BY <2>1, <2>2
<1> QED
  BY <1>1 DEF Unanimity, Promise!Unanimity, Promise!Elems, Elems

\* The voting's inductive invariant, together with the types.
THEOREM VotingInvariance == Spec => [](Typed /\ VotingInv)
<1>1. Init => VotingInv
  BY DEF Init, VotingInv, BallotInv, QueueInv, StreamInv, SelfCommitsFirst, Unanimity,
      Promise!Unanimity, Promise!Elems, Elems, Worker
<1>2. Typed /\ Typed' /\ VotingInv /\ [Next]_vars => VotingInv'
  <2> SUFFICES ASSUME Typed, Typed', VotingInv, [Next]_vars PROVE VotingInv'
    OBVIOUS
  <2>1. CASE UNCHANGED vars
    BY <2>1 DEF vars, VotingInv, CallInv, BallotOf, BallotInv, QueueInv, StreamInv, SelfCommitsFirst,
        Unanimity, Promise!Unanimity, Promise!Elems, Elems
  <2>2. CASE Next
    <3>1. BallotsGrow /\ PledgesGrow /\ LogsGrow
      BY <2>2, TypedStep, GrowStep
    <3>2. \A c \in calls' : CallInv(c)'
      BY <2>2, <3>1, CallInvStep
    <3>3. /\ \A n \in Peer, e \in Entry : BallotInv(n, e)'
          /\ SelfCommitsFirst'
      BY <2>2, <3>1, BallotInvStep DEF SelfCommitsFirst
    <3>4. QueueInv' /\ StreamInv' /\ Unanimity'
      BY <2>2, <3>1, QueueInvStep, StreamInvStep, UnanimityStep
    <3> QED
      BY <3>2, <3>3, <3>4 DEF VotingInv
  <2> QED
    BY <2>1, <2>2
<1> QED
  BY <1>1, <1>2, TypedInvariance, PTL DEF Spec

\* An entry is appended on any node only after every peer has voted to commit it.
THEOREM Unanimous == Spec => []Unanimity
<1>1. VotingInv => Unanimity
  BY DEF VotingInv
<1> QED
  BY <1>1, VotingInvariance, PTL

\* No broadcast of a commit is started by somebody else's vote.
THEOREM SelfFirst == Spec => []SelfCommitsFirst
<1>1. VotingInv => SelfCommitsFirst
  BY DEF VotingInv
<1> QED
  BY <1>1, VotingInvariance, PTL

-----------------------------------------------------------------------------
(* The core implements UnanimousLog.                                       *)

\* A new vote to commit in Commit is a Pledge of UnanimousLog.
LEMMA PledgeRefined ==
  ASSUME Typed, VotingInv, NEW c \in calls, VoteCommit(c), pledged' # pledged
  PROVE  Promise!Pledge(c.node, c.entry)
<1>1. /\ c.node \in Peer /\ c.entry \in Entry /\ c.round \in DOMAIN ballot[c.node][c.entry]
  BY AtType DEF VoteCommit, At, Voting
<1>2. /\ pledged' = [pledged EXCEPT ![c.node] = @ \cup {c.entry}]
      /\ UNCHANGED log
  BY DEF VoteCommit
<1>3. Previous[c.entry] \in Elems(log[c.node]) \cup {Zero}
  <2>1. ballot[c.node][c.entry] # <<>>
    BY <1>1
  <2> QED
    BY <1>1, <2>1 DEF VotingInv, BallotInv
<1> QED
  BY <1>2, <1>3 DEF Promise!Pledge, Promise!Elems, Elems

\* Every step of the core is a step of UnanimousLog or leaves log and pledges alone.
LEMMA StepRefined ==
  ASSUME Typed, VotingInv, [Next]_vars
  PROVE  [Promise!Next]_<<log, pledged>>
<1>1. CASE UNCHANGED <<log, pledged>>
  BY <1>1
<1>2. CASE Next /\ log' # log
  <2>1. PICK n \in Peer, e \in Entry : /\ AppendEntry(n, e) /\ UNCHANGED pledged
                                      /\ \A p \in Peer : e \in pledged[p]
    BY <1>2, AppendPledged
  <2>2. Promise!AppendPledged(n, e)
    BY <2>1 DEF AppendEntry, Last, LastOf, Promise!AppendPledged, Promise!LastOf
  <2> QED
    BY <2>2 DEF Promise!Next
<1>3. CASE Next /\ pledged' # pledged
  <2>1. PICK c \in calls : VoteCommit(c)
    BY <1>3, PledgeStep
  <2>2. Promise!Pledge(c.node, c.entry) /\ c.node \in Peer /\ c.entry \in Entry
    BY <1>3, <2>1, PledgeRefined, AtType
  <2> QED
    BY <2>2 DEF Promise!Next
<1> QED
  BY <1>1, <1>2, <1>3 DEF vars

\* Every behaviour of the core is one of UnanimousLog: no step pledges a peer that
\* lacks the entry below, or appends, by votes or by healing, without all pledges.
THEOREM Refinement == Spec => PromiseKept
<1>1. Init => Promise!Init
  BY DEF Init, Promise!Init
<1>2. Typed /\ VotingInv /\ [Next]_vars => [Promise!Next]_<<log, pledged>>
  BY StepRefined
<1> QED
  BY <1>1, <1>2, VotingInvariance, PTL DEF Spec, PromiseKept, Promise!Spec

-----------------------------------------------------------------------------
(* What UnanimousLog achieves by itself, with the peers and entries of the *)
(* core.                                                                   *)

\* Whatever the peers do, the logs of a key agree on all but their last entries
\* (verifyEntry on every peer before its vote).
LEMMA SettledLemma == Promise!LogInv => Promise!SettledPrefix
<1> SUFFICES ASSUME Promise!LogInv, NEW n \in Peer, NEW m \in Peer,
                    NEW i \in 1..(Len(log[n]) - 1)
             PROVE  i <= Len(log[m]) /\ log[m][i] = log[n][i]
  BY DEF Promise!SettledPrefix
<1> USE DEF Promise!LogInv, Promise!LogTypeOK
<1>1. i \in DOMAIN log[n] /\ i + 1 \in DOMAIN log[n]
  OBVIOUS
<1> DEFINE x == log[n][i]
           y == log[n][i + 1]
<1>2. x \in Entry /\ y \in Entry
  BY <1>1
<1>3. Previous[y] = x /\ Depth[x] = i
  BY <1>1 DEF Promise!Chained
<1>4. y \in pledged[m]
  BY <1>1 DEF Promise!Unanimity, Promise!Elems
<1>5. x \in Promise!Elems(log[m])
  BY <1>2, <1>3, <1>4, EntriesAssumption DEF Promise!Grounded
<1>6. PICK j \in DOMAIN log[m] : log[m][j] = x
  BY <1>5 DEF Promise!Elems
<1>7. j = i
  BY <1>3, <1>6 DEF Promise!Chained
<1> QED
  BY <1>6, <1>7

\* Every log is a chain of hashes, pledged for by all peers who each have what is
\* below (verifyEntry before the vote, the votes before the append).
THEOREM LogInvariance == Promise!Spec => []Promise!LogInv
<1>1. Promise!Init => Promise!LogInv
  BY DEF Promise!Init, Promise!LogInv, Promise!LogTypeOK, Promise!Chained, Promise!Grounded,
      Promise!Unanimity, Promise!Elems
<1>2. Promise!LogInv /\ [Promise!Next]_<<log, pledged>> => Promise!LogInv'
  <2> SUFFICES ASSUME Promise!LogInv, [Promise!Next]_<<log, pledged>> PROVE Promise!LogInv'
    OBVIOUS
  <2> USE DEF Promise!LogInv, Promise!LogTypeOK
  <2>1. ASSUME NEW n \in Peer, NEW e \in Entry, Promise!Pledge(n, e) PROVE Promise!LogInv'
    <3>1. Promise!LogTypeOK'
      BY <2>1 DEF Promise!Pledge
    <3>2. Promise!Chained'
      BY <2>1 DEF Promise!Pledge, Promise!Chained
    <3>3. Promise!Grounded'
      BY <2>1 DEF Promise!Pledge, Promise!Grounded
    <3>4. Promise!Unanimity'
      BY <2>1 DEF Promise!Pledge, Promise!Unanimity
    <3> QED
      BY <3>1, <3>2, <3>3, <3>4
  <2>2. ASSUME NEW n \in Peer, NEW e \in Entry, Promise!AppendPledged(n, e) PROVE Promise!LogInv'
    <3> DEFINE s == log[n]
    <3>1. s \in Seq(Entry) /\ log'[n] = Append(s, e)
      BY <2>2 DEF Promise!AppendPledged
    <3>2. \A m \in Peer \ {n} : log'[m] = log[m]
      BY <2>2 DEF Promise!AppendPledged
    <3>3. Promise!Elems(log'[n]) = Promise!Elems(s) \cup {e}
      <4>1. Elems(Append(s, e)) = Elems(s) \cup {e}
        BY <3>1, ElemsAppended
      <4> QED
        BY <3>1, <4>1 DEF Promise!Elems, Elems
    <3>4. Promise!LogTypeOK'
      BY <2>2 DEF Promise!AppendPledged
    <3>5. Promise!Chained'
      <4> SUFFICES ASSUME NEW m \in Peer, NEW i \in DOMAIN log'[m]
                   PROVE  /\ Previous[log'[m][i]] = IF i = 1 THEN Zero ELSE log'[m][i - 1]
                          /\ Depth[log'[m][i]] = i
        BY DEF Promise!Chained
      <4>1. CASE m # n
        BY <4>1, <3>2 DEF Promise!Chained
      <4>2. CASE m = n /\ i # Len(s) + 1
        <5>1. i \in DOMAIN s /\ log'[n][i] = s[i] /\ (i # 1 => log'[n][i - 1] = s[i - 1])
          BY <4>2, <3>1
        <5> QED
          BY <5>1, <4>2 DEF Promise!Chained
      <4>3. CASE m = n /\ i = Len(s) + 1
        <5>1. Previous[e] = Promise!LastOf(s)
          BY <2>2 DEF Promise!AppendPledged
        <5>2. CASE s = <<>>
          BY <5>1, <5>2, <4>3, <3>1, EntriesAssumption DEF Promise!LastOf
        <5>3. CASE s # <<>>
          <6>1. Len(s) \in DOMAIN s /\ s[Len(s)] \in Entry
            BY <5>3, <3>1
          <6>2. Previous[e] = s[Len(s)] /\ Depth[s[Len(s)]] = Len(s)
            BY <5>1, <5>3, <6>1 DEF Promise!LastOf, Promise!Chained
          <6>3. Depth[e] = Len(s) + 1
            BY <6>1, <6>2, EntriesAssumption
          <6>4. log'[n][i] = e /\ i # 1 /\ log'[n][i - 1] = s[Len(s)]
            BY <4>3, <3>1, <6>1
          <6> QED
            BY <4>3, <6>2, <6>3, <6>4
        <5> QED
          BY <5>2, <5>3
      <4> QED
        BY <4>1, <4>2, <4>3
    <3>6. Promise!Grounded'
      BY <2>2, <3>2, <3>3 DEF Promise!AppendPledged, Promise!Grounded
    <3>7. Promise!Unanimity'
      <4>1. pledged' = pledged /\ \A p \in Peer : e \in pledged[p]
        BY <2>2 DEF Promise!AppendPledged
      <4>2. \A m \in Peer : \A x \in Promise!Elems(log'[m]) : x = e \/ x \in Promise!Elems(log[m])
        BY <3>2, <3>3
      <4> QED
        BY <4>1, <4>2 DEF Promise!Unanimity
    <3> QED
      BY <3>4, <3>5, <3>6, <3>7
  <2>3. CASE UNCHANGED <<log, pledged>>
    BY <2>3 DEF Promise!Chained, Promise!Grounded, Promise!Unanimity
  <2> QED
    BY <2>1, <2>2, <2>3 DEF Promise!Next
<1> QED
  BY <1>1, <1>2, PTL DEF Promise!Spec

\* Logs of a key differ in their last entry at most (Propose, Commit, PullKeylog).
THEOREM Settled == Promise!Spec => []Promise!SettledPrefix
  BY LogInvariance, SettledLemma, PTL

\* Logs fork in their last entry at most, whatever crashes, times out or is lost.
THEOREM PrefixSettled == Spec => []SettledPrefix
<1>1. Promise!SettledPrefix => SettledPrefix
  BY DEF SettledPrefix
<1> QED
  BY <1>1, Refinement, Settled, PTL DEF PromiseKept

-----------------------------------------------------------------------------
(* Hand-overs to the FSM: AppliedOnce and SuccessIsReal need to know who    *)
(* owes an entry to the FSM, so HandoverInv is stronger than both.          *)

Applying == {"selfapply", "apply"}

\* The entries of a log are at their depths, so no entry is there twice.
Chained(n) == \A i \in DOMAIN log[n] : Depth[log[n][i]] = i

\* An entry of the log is owed to the FSM by one handler, or by the healer, or has been
\* handed over once; of an entry that is not in the log nothing of the kind is true.
Owed(n, e) == Owing(n, e) # {} \/ HealerOwes(n, e)
HandInv(n, e) ==
    /\ \A c, d \in Owing(n, e) : c = d
    /\ Owing(n, e) # {} => ~HealerOwes(n, e)
    /\ Owed(n, e) => Handed(n, e) = {}
    /\ \A i, j \in Handed(n, e) : i = j
    /\ e \in Elems(log[n]) <=> Owed(n, e) \/ Handed(n, e) # {}

\* A handler that has appended has seen all votes of both kinds.
ApplyInv == \A c \in calls : c.pc \in Applying =>
                BallotOf(c).proposed = Peer /\ BallotOf(c).committed = Peer

HandoverInv == /\ \A n \in Peer : Chained(n)
               /\ \A n \in Peer \ down, e \in Entry : HandInv(n, e)
               /\ ApplyInv /\ SuccessIsReal

\* An append is of an entry that the log does not have.
LEMMA AppendChained ==
  ASSUME TypeOK, NEW n \in Peer, NEW e \in Entry, Chained(n), AppendEntry(n, e)
  PROVE  e \notin Elems(log[n]) /\ \A m \in Peer : Chained(m) => Chained(m)'
<1> DEFINE s == log[n]
<1>1. log \in [Peer -> Seq(Entry)] /\ s \in Seq(Entry) /\ Len(s) \in Nat /\ DOMAIN s = 1..Len(s)
  BY DEF TypeOK
<1>2. Depth[e] = Len(s) + 1
  <2>1. CASE s = <<>>
    <3>1. Previous[e] = Zero /\ Len(s) = 0
      BY <2>1 DEF AppendEntry, Last, LastOf
    <3> QED BY <3>1, EntriesAssumption
  <2>2. CASE s # <<>>
    <3>1. Len(s) \in DOMAIN s /\ s[Len(s)] \in Entry /\ LastOf(s) = s[Len(s)]
      BY <1>1, <2>2 DEF LastOf
    <3>2. Previous[e] = s[Len(s)] /\ Previous[e] # Zero
      BY <3>1, EntriesAssumption DEF AppendEntry, Last
    <3>3. Depth[s[Len(s)]] = Len(s)
      BY <3>1 DEF Chained
    <3> QED BY <3>2, <3>3, EntriesAssumption
  <2> QED BY <2>1, <2>2
<1>3. e \notin Elems(s)
  <2> SUFFICES ASSUME NEW i \in DOMAIN s, s[i] = e PROVE FALSE
    BY DEF Elems
  <2>1. i \in Nat /\ i <= Len(s) /\ Depth[e] = i
    BY <1>1 DEF Chained
  <2> QED BY <1>1, <1>2, <2>1
<1>4. log' = [log EXCEPT ![n] = Append(s, e)]
  BY DEF AppendEntry
<1>5. \A m \in Peer \ {n} : log'[m] = log[m]
  BY <1>1, <1>4
<1>6. Chained(n)'
  <2>1. log'[n] = Append(s, e)
    BY <1>1, <1>4
  <2>2. /\ DOMAIN Append(s, e) = 1..(Len(s) + 1) /\ Append(s, e)[Len(s) + 1] = e
        /\ \A i \in DOMAIN s : Append(s, e)[i] = s[i]
    BY <1>1
  <2>3. \A i \in 1..(Len(s) + 1) : i \in DOMAIN s \/ i = Len(s) + 1
    BY <1>1
  <2>4. \A i \in DOMAIN s : Depth[s[i]] = i
    BY DEF Chained
  <2>5. \A i \in DOMAIN log'[n] : Depth[log'[n][i]] = i
    BY <1>2, <2>1, <2>2, <2>3, <2>4
  <2> QED BY <2>5 DEF Chained
<1> QED BY <1>3, <1>5, <1>6 DEF Chained

\* A hand-over adds one place to those of its entry.
LEMMA ApplyFacts ==
  ASSUME TypeOK, NEW n \in Peer, NEW e \in Entry, Apply(n, e)
  PROVE  /\ \A m \in Peer, x \in Entry : m # n \/ x # e => Handed(m, x)' = Handed(m, x)
         /\ Handed(n, e) = {} => Handed(n, e)' = {Len(applied[n]) + 1}
         /\ \A m \in Peer, x \in Entry : Handed(m, x) \subseteq Handed(m, x)'
         /\ Handed(n, e)' # {}
<1> DEFINE s == applied[n]
           k == Len(s) + 1
<1>1. applied \in [Peer -> Seq(Entry)] /\ s \in Seq(Entry) /\ Len(s) \in Nat /\ DOMAIN s = 1..Len(s)
  BY DEF TypeOK
<1>2. \A m \in Peer : applied'[m] = IF m = n THEN Append(s, e) ELSE applied[m]
  BY <1>1 DEF Apply
<1>3. /\ DOMAIN Append(s, e) = 1..k /\ Append(s, e)[k] = e /\ k \in 1..k /\ k \notin DOMAIN s
      /\ \A i \in DOMAIN s : i \in 1..k /\ Append(s, e)[i] = s[i]
      /\ \A i \in 1..k : i \in DOMAIN s \/ i = k
  BY <1>1
<1> HIDE DEF s, k
<1>4. ASSUME NEW x \in Entry PROVE Handed(n, x)' = Handed(n, x) \cup (IF x = e THEN {k} ELSE {})
  BY <1>2, <1>3 DEF Handed, s
<1>5. \A m \in Peer \ {n}, x \in Entry : Handed(m, x)' = Handed(m, x)
  BY <1>2 DEF Handed
<1> QED BY <1>4, <1>5 DEF s, k

\* No handler appends, and none that has appended is done with it, but on a dead node.
Steady == \A d : d.pc \in Applying =>
              /\ d \in calls' => d \in calls
              /\ d \in calls /\ d.node \notin down => d \in calls'

LEMMA SteadyOwing ==
  ASSUME Steady, NEW n, n \notin down, NEW e
  PROVE  Owing(n, e)' = Owing(n, e)
  BY DEF Steady, Owing, Applying

LEMMA SteadyIfCarried ==
  ASSUME NEW c, c.pc \notin Applying, NEW d, d.pc \notin Applying, calls' = (calls \ {c}) \cup {d}
  PROVE  Steady
  BY DEF Steady

LEMMA SteadyStep ==
  ASSUME Typed, Next, \A c \in calls : ~AppendVoted(c) /\ ~ApplyVoted(c)
  PROVE  Steady
<1>1. ASSUME NEW c \in calls, c.pc \notin Applying, NEW pc, pc \notin Applying, Goto(c, pc)
      PROVE  Steady
  <2>1. [c EXCEPT !.pc = pc].pc = pc
    BY AtType DEF Call
  <2> QED BY <1>1, <2>1, SteadyIfCarried DEF Goto
<1>2. ASSUME NEW c \in calls, c.pc \notin Applying, NEW pc, pc \notin Applying, NEW r, GotoRound(c, pc, r)
      PROVE  Steady
  <2>1. [c EXCEPT !.pc = pc, !.round = r].pc = pc
    BY AtType DEF Call
  <2> QED BY <1>2, <2>1, SteadyIfCarried DEF GotoRound
<1>3. ASSUME NEW c \in calls, c.pc \notin Applying \/ c.node \in down, calls' = calls \ {c}
      PROVE  Steady
  BY <1>3 DEF Steady
<1>4. ASSUME NEW S, calls' = calls \cup S, \A d \in S : d.pc = "start"
      PROVE  Steady
  BY <1>4 DEF Steady, Applying
<1>5. ASSUME NEW c \in calls, Handle(c) PROVE Steady
  <2>1. CASE CallDead(c)
    <3>1. c.node \in down
      BY <2>1 DEF CallDead
    <3> QED BY <1>3, <2>1, <3>1 DEF CallDead, Return
  <2>7. CASE VerifyEntry(c) \/ NewKey(c)
    <3>1. c.pc \notin Applying
      BY <2>7 DEF VerifyEntry, NewKey, At, Applying
    <3>2. \E pc \in {"ballot", "heal", "reject", "selfput", "put"} : Goto(c, pc)
      BY <2>7 DEF VerifyEntry, NewKey
    <3> QED BY <1>1, <3>1, <3>2 DEF Applying
  <2>8. CASE Put(c)
    <3>1. c.pc \notin Applying
      BY <2>8 DEF Put, Applying
    <3>2. calls' = calls \ {c} \/ Goto(c, "source")
      BY <2>8 DEF Put, Resume, Return
    <3> QED BY <1>1, <1>3, <3>1, <3>2 DEF Applying
  <2>2. CASE OpenBallot(c) \/ FindBallot(c)
    <3>1. c.pc \notin Applying
      BY <2>2 DEF OpenBallot, FindBallot, At, Applying
    <3>2. \/ calls' = calls \ {c}
          \/ \E pc \in {"self", "source"} : \E r : GotoRound(c, pc, r)
      BY <2>2 DEF OpenBallot, FindBallot, Return
    <3> QED BY <1>2, <1>3, <3>1, <3>2 DEF Applying
  <2>3. CASE RequestHeal(c) \/ RejectEntry(c)
    <3>1. c.pc \notin Applying /\ calls' = calls \ {c}
      BY <2>3 DEF RequestHeal, RejectEntry, At, Applying, Return
    <3> QED BY <1>3, <3>1
  <2>4. CASE ProposeSelf(c) \/ ProposeSource(c)
    <3>1. c.pc \notin Applying
      BY <2>4 DEF ProposeSelf, ProposeSource, At, Applying
    <3>2. \/ calls' = calls \ {c}
          \/ \E pc \in {"source", "check", "selfkey", "key", "selfput", "put"} : Goto(c, pc)
      BY <2>4, UpsertGoes DEF ProposeSelf, ProposeSource, Return
    <3> QED BY <1>1, <1>3, <3>1, <3>2 DEF Applying
  <2>5. CASE VoteCommit(c)
    <3>1. c.pc \notin Applying
      BY <2>5 DEF VoteCommit, At, Applying
    <3>2. \/ calls' = calls \ {c}
          \/ \E pc \in {"source", "selfput", "put", "selfcheck", "check"} : Goto(c, pc)
      BY <2>5 DEF VoteCommit, Resume, Return
    <3> QED BY <1>1, <1>3, <3>1, <3>2 DEF Applying
  <2>6. CASE CheckFails(c)
    <3>1. c.pc \notin Applying
      BY <2>6 DEF CheckFails, Applying
    <3>2. calls' = calls \ {c} \/ Goto(c, "source")
      BY <2>6 DEF CheckFails, Resume, Return
    <3> QED BY <1>1, <1>3, <3>1, <3>2 DEF Applying
  <2> QED BY <1>5, <2>1, <2>2, <2>3, <2>4, <2>5, <2>6, <2>7, <2>8 DEF Handle
<1>6. ASSUME NEW m, NEW src, NEW x, ClientPropose(m, src, x) PROVE Steady
  <2> DEFINE d == [op |-> "propose", node |-> m, src |-> src, by |-> "client",
                    k |-> proposals + 1, entry |-> x, round |-> 0, pc |-> "start"]
  <2>1. calls' = calls \cup {d}
    BY <1>6 DEF ClientPropose
  <2>2. PICK S : S = {d}
    OBVIOUS
  <2>3. \A c \in S : c.pc = "start"
    BY <2>2
  <2> QED BY <1>4, <2>1, <2>2, <2>3
<1>7. ASSUME NEW w, NEW m, Broadcast(w, m) PROVE Steady
  <2>1. PICK k : calls' = calls \cup BroadcastOf(w, m, Head(queue[w][m]), k)
    BY <1>7 DEF Broadcast
  <2>2. \A d \in BroadcastOf(w, m, Head(queue[w][m]), k) : d.pc = "start"
    BY DEF BroadcastOf
  <2> QED BY <1>4, <2>1, <2>2
<1>8. ASSUME NEW m, CommitLocally(m) PROVE Steady
  <2> DEFINE t == task["pch"][m]
             d == [op |-> "commit", node |-> m, src |-> m, by |-> "pch",
                   k |-> t.k, entry |-> t.entry, round |-> 0, pc |-> "start"]
  <2>1. calls' = calls \cup {d}
    BY <1>8 DEF CommitLocally
  <2>2. PICK S : S = {d}
    OBVIOUS
  <2>3. \A c \in S : c.pc = "start"
    BY <2>2
  <2> QED BY <1>4, <2>1, <2>2, <2>3
<1>9. ASSUME NEW c \in calls, Cancel(c) PROVE Steady
  BY <1>3, <1>9 DEF Cancel, Applying
<1>10. CASE calls' = calls
  BY <1>10 DEF Steady
<1> QED BY <1>5, <1>6, <1>7, <1>8, <1>9, <1>10
  DEF Next, Broadcaster, BroadcastFailed, HealKeys, Heal, AppendPulled, ApplyPulled,
      TimeoutAny, Timeout, Reap, Crash, Disconnect

\* Only checkVotesAndCommit and the healer hand over.
LEMMA AppliedStep ==
  ASSUME Next, applied' # applied
  PROVE  (\E c \in calls : ApplyVoted(c)) \/ (\E n \in Peer : ApplyPulled(n))
  BY ZenonT(60) DEF Next, Handle, ClientPropose, VerifyEntry, OpenBallot, RequestHeal,
      RejectEntry, ProposeSelf, ProposeSource, NewKey, Put, FindBallot, VoteCommit,
      CheckFails, AppendVoted, CallDead, Broadcaster, Broadcast, BroadcastFailed,
      CommitLocally, HealKeys, Heal, AppendPulled, TimeoutAny, Timeout, Reap, Crash,
      Disconnect, Cancel

\* No dead node comes back.
LEMMA DownStep ==
  ASSUME Next PROVE down \subseteq down'
<1>1. ASSUME NEW c \in calls, Handle(c) PROVE down \subseteq down'
  BY <1>1 DEF Handle, VerifyEntry, OpenBallot, RequestHeal, RejectEntry, ProposeSelf,
     ProposeSource, NewKey, Put, FindBallot, VoteCommit, CheckFails, AppendVoted, ApplyVoted,
     CallDead, BallotGetClose, Close
<1>2. ASSUME NEW w \in Worker, NEW n \in Peer, Broadcaster(w, n) PROVE down \subseteq down'
  BY <1>2 DEF Broadcaster, Broadcast, BroadcastFailed, BallotGetClose, Close
<1> QED
  BY <1>1, <1>2 DEF Next, ClientPropose, CommitLocally, HealKeys, Heal, AppendPulled,
     ApplyPulled, TimeoutAny, Timeout, Reap, Crash, Disconnect, Cancel

LEMMA HandSame ==
  ASSUME NEW n, NEW e, HandInv(n, e), Owing(n, e)' = Owing(n, e),
         e \in Elems(log'[n]) <=> e \in Elems(log[n]),
         Handed(n, e)' = Handed(n, e), HealerOwes(n, e)' <=> HealerOwes(n, e)
  PROVE  HandInv(n, e)'
  BY DEF HandInv, Owed

\* The healer owes nothing before it has appended.
LEMMA HealStartsIdle ==
  ASSUME Typed, NEW m \in Peer, Heal(m), NEW n \in Peer, NEW e
  PROVE  HealerOwes(n, e)' <=> HealerOwes(n, e)
<1>1. healer \in [Peer -> Healer]
  BY DEF Typed, TypeOK
<1>2. n # m => healer'[n] = healer[n]
  BY <1>1 DEF Heal
<1>3. healer[m].pc = "idle" /\ healer'[m].pc # "apply"
  BY <1>1 DEF Heal
<1> QED BY <1>2, <1>3 DEF HealerOwes

\* The append of a handler: from now on it owes the entry, as nobody did before.
LEMMA AppendHands ==
  ASSUME Typed, HandoverInv, NEW c \in calls, AppendVoted(c), NEW n \in Peer \ down, NEW e \in Entry
  PROVE  HandInv(n, e)'
<1> DEFINE pc == IF c.pc = "selfcheck" THEN "selfapply" ELSE "apply"
           d == [c EXCEPT !.pc = pc]
<1>0. TypeOK /\ HandInv(n, e) /\ c \in Call /\ c.node \in Peer /\ c.entry \in Entry /\ Chained(c.node)
  BY AtType DEF Typed, HandoverInv
<1>1. d.pc \in Applying /\ d.node = c.node /\ d.entry = c.entry
  BY <1>0 DEF Call, Applying
<1>2. c.pc \notin Applying /\ calls' = (calls \ {c}) \cup {d} /\ UNCHANGED <<applied, healer>>
  BY DEF AppendVoted, Goto, Applying
<1> HIDE DEF d
<1>3. /\ c.entry \notin Elems(log[c.node])
      /\ \A m \in Peer : Elems(log'[m]) = IF m = c.node THEN Elems(log[c.node]) \cup {c.entry}
                                                        ELSE Elems(log[m])
  <2>1. AppendEntry(c.node, c.entry)
    BY DEF AppendVoted
  <2>2. c.entry \notin Elems(log[c.node])
    BY <1>0, <2>1, AppendChained
  <2> QED BY <1>0, <2>1, <2>2, AppendEntryFacts
<1>4. Handed(n, e)' = Handed(n, e) /\ (HealerOwes(n, e)' <=> HealerOwes(n, e))
  BY <1>2 DEF Handed, HealerOwes
<1>5. CASE n = c.node /\ e = c.entry
  <2>1. e \notin Elems(log[n]) /\ e \in Elems(log'[n])
    BY <1>3, <1>5
  <2>2. Owing(n, e) = {} /\ ~HealerOwes(n, e) /\ Handed(n, e) = {}
    BY <1>0, <2>1 DEF HandInv, Owed
  <2>3. Owing(n, e)' = {d}
    BY <1>1, <1>2, <1>5, <2>2 DEF Owing, Applying
  <2> QED BY <1>4, <2>1, <2>2, <2>3 DEF HandInv, Owed
<1>6. CASE ~(n = c.node /\ e = c.entry)
  <2>1. Owing(n, e)' = Owing(n, e)
    BY <1>1, <1>2, <1>6 DEF Owing, Applying
  <2>2. e \in Elems(log'[n]) <=> e \in Elems(log[n])
    BY <1>3, <1>6
  <2> QED BY <1>0, <1>4, <2>1, <2>2, HandSame
<1> QED BY <1>5, <1>6

\* The hand-over of a handler: it owes the entry no longer, and the FSM has it once.
LEMMA ApplyHands ==
  ASSUME Typed, HandoverInv, NEW c \in calls, ApplyVoted(c), NEW n \in Peer \ down, NEW e \in Entry
  PROVE  HandInv(n, e)'
<1>0. TypeOK /\ HandInv(n, e) /\ c \in Call /\ c.node \in Peer /\ c.entry \in Entry
  BY AtType DEF Typed, HandoverInv
<1>1. c.pc \in Applying /\ Apply(c.node, c.entry) /\ UNCHANGED <<log, healer>>
  BY DEF ApplyVoted, Applying
<1>2. PICK d : d.pc \notin Applying /\ (calls' = calls \ {c} \/ calls' = (calls \ {c}) \cup {d})
  <2>1. [c EXCEPT !.pc = "source"].pc \notin Applying
    BY <1>0 DEF Call, Applying
  <2>2. calls' = calls \ {c} \/ calls' = (calls \ {c}) \cup {[c EXCEPT !.pc = "source"]}
    BY DEF ApplyVoted, Resume, Goto, Return
  <2> QED BY <2>1, <2>2
<1>3. Owing(n, e)' = Owing(n, e) \ {c}
  BY <1>2 DEF Owing, Applying
<1>4. HealerOwes(n, e)' <=> HealerOwes(n, e)
  BY <1>1 DEF HealerOwes
<1>5. CASE n = c.node /\ e = c.entry
  <2>1. c \in Owing(n, e)
    BY <1>1, <1>5 DEF Owing, Applying
  <2>2. Owing(n, e)' = {} /\ ~HealerOwes(n, e) /\ Handed(n, e) = {} /\ e \in Elems(log[n])
    BY <1>0, <1>3, <2>1 DEF HandInv, Owed
  <2>3. Handed(n, e)' = {Len(applied[n]) + 1}
    BY <1>0, <1>1, <1>5, <2>2, ApplyFacts
  <2> QED BY <1>1, <1>4, <2>2, <2>3 DEF HandInv, Owed
<1>6. CASE ~(n = c.node /\ e = c.entry)
  <2>1. c \notin Owing(n, e)
    BY <1>6 DEF Owing
  <2>2. Handed(n, e)' = Handed(n, e)
    BY <1>0, <1>1, <1>6, ApplyFacts
  <2> QED BY <1>0, <1>1, <1>3, <1>4, <2>1, <2>2, HandSame
<1> QED BY <1>5, <1>6

\* What the healer of a node works on.
LEMMA HealerFacts ==
  ASSUME TypeOK, NEW m \in Peer, healer[m].pc # "idle"
  PROVE  /\ healer \in [Peer -> Healer] /\ Head(healer[m].stream) \in Entry
         /\ NextPulled(m) => /\ healer'[m].pc # "apply"
                             /\ \A n \in Peer \ {m} : healer'[n] = healer[n]
<1>1. healer \in [Peer -> Healer] /\ healer[m].stream \in Seq(Entry) /\ healer[m].stream # <<>>
  BY DEF TypeOK, Healer
<1>2. NextPulled(m) => /\ healer'[m].pc # "apply"
                      /\ \A n \in Peer \ {m} : healer'[n] = healer[n]
  BY <1>1 DEF NextPulled
<1> QED BY <1>1, <1>2

\* The append of the healer.
LEMMA PulledHands ==
  ASSUME Typed, HandoverInv, NEW m \in Peer, AppendPulled(m), NEW n \in Peer \ down, NEW e \in Entry
  PROVE  HandInv(n, e)'
<1> DEFINE x == Head(healer[m].stream)
<1>0. /\ TypeOK /\ HandInv(n, e) /\ Chained(m) /\ healer[m].pc = "append" /\ x \in Entry
      /\ healer \in [Peer -> Healer]
  BY HealerFacts DEF Typed, HandoverInv, AppendPulled
<1>1. Owing(n, e)' = Owing(n, e) /\ Handed(n, e)' = Handed(n, e)
  BY DEF AppendPulled, Owing, Handed
<1>2. CASE AppendEntry(m, x) /\ healer' = [healer EXCEPT ![m].pc = "apply"]
  <2>1. \A p \in Peer \ {m} : healer'[p] = healer[p]
    BY <1>0, <1>2
  <2>a. /\ x \notin Elems(log[m])
        /\ \A p \in Peer : Elems(log'[p]) = IF p = m THEN Elems(log[m]) \cup {x}
                                                    ELSE Elems(log[p])
    <3> HIDE DEF x
    <3>1. x \notin Elems(log[m])
      BY <1>0, <1>2, AppendChained
    <3> QED BY <1>0, <1>2, <3>1, AppendEntryFacts
  <2>2. healer'[m].pc = "apply" /\ healer'[m].stream = healer[m].stream
    BY <1>0, <1>2 DEF Healer
  <2>3. CASE n = m /\ e = x
    <3>1. e \notin Elems(log[n]) /\ e \in Elems(log'[n])
      BY <2>a, <2>3
    <3>2. HealerOwes(n, e)'
      BY <2>2, <2>3 DEF HealerOwes
    <3> QED BY <1>0, <1>1, <3>1, <3>2 DEF HandInv, Owed
  <2>4. CASE ~(n = m /\ e = x)
    <3>1. HealerOwes(n, e)' <=> HealerOwes(n, e)
      BY <1>0, <2>1, <2>2, <2>4 DEF HealerOwes
    <3>2. e \in Elems(log'[n]) <=> e \in Elems(log[n])
      BY <2>a, <2>4
    <3> QED BY <1>0, <1>1, <3>1, <3>2, HandSame
  <2> QED BY <2>3, <2>4
<1>3. CASE NextPulled(m) /\ UNCHANGED log
  <2>1. HealerOwes(n, e)' <=> HealerOwes(n, e)
    BY <1>0, <1>3, HealerFacts DEF HealerOwes
  <2> QED BY <1>0, <1>1, <1>3, <2>1, HandSame
<1> QED BY <1>2, <1>3 DEF AppendPulled

\* The hand-over of the healer.
LEMMA AppliedHands ==
  ASSUME Typed, HandoverInv, NEW m \in Peer, ApplyPulled(m), NEW n \in Peer \ down, NEW e \in Entry
  PROVE  HandInv(n, e)'
<1> DEFINE x == Head(healer[m].stream)
<1>0. TypeOK /\ HandInv(n, e) /\ healer[m].pc = "apply" /\ x \in Entry
  BY HealerFacts DEF Typed, HandoverInv, ApplyPulled
<1>1. Owing(n, e)' = Owing(n, e) /\ UNCHANGED log /\ Apply(m, x) /\ NextPulled(m)
  BY DEF ApplyPulled, Owing
<1>2. healer'[m].pc # "apply" /\ \A p \in Peer \ {m} : healer'[p] = healer[p]
  BY <1>0, <1>1, HealerFacts
<1>3. CASE n = m /\ e = x
  <2>1. Owing(n, e) = {} /\ Handed(n, e) = {} /\ e \in Elems(log[n])
    BY <1>0, <1>3 DEF HandInv, Owed, HealerOwes
  <2>2. Handed(n, e)' = {Len(applied[n]) + 1}
    BY <1>0, <1>1, <1>3, <2>1, ApplyFacts
  <2>3. ~HealerOwes(n, e)'
    BY <1>2, <1>3 DEF HealerOwes
  <2> QED BY <1>1, <2>1, <2>2, <2>3 DEF HandInv, Owed
<1>4. CASE ~(n = m /\ e = x)
  <2>1. HealerOwes(n, e)' <=> HealerOwes(n, e)
    BY <1>0, <1>2, <1>4 DEF HealerOwes
  <2>2. Handed(n, e)' = Handed(n, e)
    BY <1>0, <1>1, <1>4, ApplyFacts
  <2> QED BY <1>0, <1>1, <2>1, <2>2, HandSame
<1> QED BY <1>3, <1>4

LEMMA HandStep ==
  ASSUME Typed, HandoverInv, Next, NEW n \in Peer \ down', NEW e \in Entry
  PROVE  HandInv(n, e)'
<1>0. n \in Peer \ down /\ HandInv(n, e)
  BY DownStep DEF HandoverInv
<1>1. CASE \E c \in calls : AppendVoted(c)
  BY <1>0, <1>1, AppendHands
<1>2. CASE \E c \in calls : ApplyVoted(c)
  BY <1>0, <1>2, ApplyHands
<1>3. CASE \E m \in Peer : AppendPulled(m)
  BY <1>0, <1>3, PulledHands
<1>4. CASE \E m \in Peer : ApplyPulled(m)
  BY <1>0, <1>4, AppliedHands
<1>5. ASSUME \A c \in calls : ~AppendVoted(c) /\ ~ApplyVoted(c),
             \A m \in Peer : ~AppendPulled(m) /\ ~ApplyPulled(m)
      PROVE  HandInv(n, e)'
  <2>1. log' = log /\ applied' = applied
    BY <1>5, LogStep, AppliedStep
  <2>2. Owing(n, e)' = Owing(n, e)
    BY <1>0, <1>5, SteadyStep, SteadyOwing
  <2>3. HealerOwes(n, e)' <=> HealerOwes(n, e)
    <3>1. CASE healer' = healer
      BY <3>1 DEF HealerOwes
    <3>2. CASE healer' # healer
      BY <1>0, <1>5, <3>2, HealerStep, HealStartsIdle DEF HealKeys
    <3> QED BY <3>1, <3>2
  <2> QED BY <1>0, <2>1, <2>2, <2>3, HandSame DEF Handed
<1> QED BY <1>1, <1>2, <1>3, <1>4, <1>5

\* Logs stay chains.
LEMMA ChainedStep ==
  ASSUME Typed, Next, \A m \in Peer : Chained(m), NEW n \in Peer
  PROVE  Chained(n)'
<1>1. CASE log' = log
  <2>1. Chained(n)
    OBVIOUS
  <2> QED BY <1>1, <2>1 DEF Chained
<1>2. CASE log' # log
  <2>1. PICK m \in Peer, e \in Entry : AppendEntry(m, e)
    BY <1>2, AppendStep
  <2>2. \A p \in Peer : Chained(p) => Chained(p)'
    BY <2>1, AppendChained DEF Typed
  <2> QED BY <2>2
<1> QED BY <1>1, <1>2

\* Handlers that count all votes of one kind and as many of the other have all.
LEMMA FullBallot ==
  ASSUME Typed, NEW c \in calls, c.pc \in {"selfcheck", "check"}, CallInv(c), Complete(c)
  PROVE  BallotOf(c).proposed = Peer /\ BallotOf(c).committed = Peer
<1>1. c.node \in Peer /\ c.entry \in Entry /\ c.round \in DOMAIN ballot[c.node][c.entry]
  BY AtType DEF Voting
<1>2. BallotOf(c).proposed \in SUBSET Peer /\ BallotOf(c).committed \in SUBSET Peer
  BY <1>1, BallotInRange DEF BallotOf, Typed
<1>3. Cardinality(BallotOf(c).proposed) = Cardinality(BallotOf(c).committed)
  BY DEF Complete
<1>4. BallotOf(c).proposed = Peer \/ BallotOf(c).committed = Peer
  BY DEF CallInv
<1>5. CASE BallotOf(c).proposed = Peer
  BY <1>2, <1>3, <1>5, AllVotes, ConstantsAssumption
<1>6. CASE BallotOf(c).committed = Peer
  BY <1>2, <1>3, <1>6, AllVotes, ConstantsAssumption
<1> QED BY <1>4, <1>5, <1>6

\* A full ballot stays full.
LEMMA StaysFull ==
  ASSUME TypeOK', BallotsGrow, NEW n \in Peer, NEW e \in Entry, NEW r \in DOMAIN ballot[n][e],
         ballot[n][e][r].proposed = Peer, ballot[n][e][r].committed = Peer
  PROVE  ballot'[n][e][r].proposed = Peer /\ ballot'[n][e][r].committed = Peer
<1>1. /\ r \in DOMAIN ballot'[n][e]
      /\ Peer \subseteq ballot'[n][e][r].proposed /\ Peer \subseteq ballot'[n][e][r].committed
  BY DEF BallotsGrow
<1>2. ballot'[n][e] \in Seq(Ballot)
  BY DEF TypeOK
<1>3. ballot'[n][e][r] \in Ballot
  BY <1>1, <1>2, SeqFacts
<1> QED BY <1>1, <1>3 DEF Ballot

\* A handler goes on to hand over with all votes, and no vote is withdrawn.
LEMMA ApplyInvStep ==
  ASSUME Typed, Typed', VotingInv, ApplyInv, Next, BallotsGrow, NEW d \in calls', d.pc \in Applying
  PROVE  BallotOf(d)'.proposed = Peer /\ BallotOf(d)'.committed = Peer
<1>1. CASE d \in calls
  <2>1. d.node \in Peer /\ d.entry \in Entry /\ d.round \in DOMAIN ballot[d.node][d.entry]
    BY <1>1, AtType DEF Applying, Voting
  <2>2. /\ ballot[d.node][d.entry][d.round].proposed = Peer
        /\ ballot[d.node][d.entry][d.round].committed = Peer
    BY <1>1 DEF ApplyInv, BallotOf
  <2>3. /\ ballot'[d.node][d.entry][d.round].proposed = Peer
        /\ ballot'[d.node][d.entry][d.round].committed = Peer
    BY <2>1, <2>2, StaysFull DEF Typed
  <2> QED BY <2>3 DEF BallotOf
<1>2. CASE d \notin calls
  <2>1. PICK c \in calls : AppendVoted(c) \/ ApplyVoted(c)
    BY <1>2, SteadyStep DEF Steady
  <2>2. c \in Call
    BY AtType
  <2>3. CASE ApplyVoted(c)
    <3>1. d = [c EXCEPT !.pc = "source"]
      BY <1>2, <2>3 DEF ApplyVoted, Resume, Goto, Return
    <3>2. d.pc = "source"
      BY <2>2, <3>1 DEF Call
    <3> QED BY <3>2 DEF Applying
  <2>4. CASE AppendVoted(c)
    <3>1. c.pc \in {"selfcheck", "check"} /\ Complete(c) /\ CallInv(c) /\ ballot' = ballot
      BY <2>4 DEF AppendVoted, VotingInv
    <3>2. BallotOf(c).proposed = Peer /\ BallotOf(c).committed = Peer
      BY <3>1, FullBallot
    <3>3. d = [c EXCEPT !.pc = IF c.pc = "selfcheck" THEN "selfapply" ELSE "apply"]
      BY <1>2, <2>4 DEF AppendVoted, Goto
    <3>4. d.node = c.node /\ d.entry = c.entry /\ d.round = c.round
      BY <2>2, <3>3 DEF Call
    <3> QED BY <3>1, <3>2, <3>4 DEF BallotOf
  <2> QED BY <2>1, <2>3, <2>4
<1> QED BY <1>1, <1>2

-----------------------------------------------------------------------------
(* Ballots that end without an error.                                      *)

\* No ballot becomes a success, but perhaps the r-th one of n for e.
OkOnlyAt(n, e, r) ==
    \A m \in Peer, x \in Entry : \A i \in DOMAIN ballot'[m][x] :
        ballot'[m][x][i].status = "ok" =>
            \/ i \in DOMAIN ballot[m][x] /\ ballot[m][x][i].status = "ok"
            \/ m = n /\ x = e /\ i = r
NoNewOk == \A n \in Peer, e \in Entry : \A r \in DOMAIN ballot'[n][e] :
               ballot'[n][e][r].status = "ok" =>
                   r \in DOMAIN ballot[n][e] /\ ballot[n][e][r].status = "ok"

\* A step on one ballot makes no other ballot a success.
LEMMA OneBallotOk ==
  ASSUME TypeOK, NEW n \in Peer, NEW e \in Entry, NEW r \in DOMAIN ballot[n][e], NEW b \in Ballot,
         ballot[n][e][r].proposed \subseteq b.proposed,
         ballot[n][e][r].committed \subseteq b.committed,
         ballot' = [ballot EXCEPT ![n][e][r] = b]
  PROVE  /\ OkOnlyAt(n, e, r)
         /\ (b.status = "ok" => ballot[n][e][r].status = "ok") => NoNewOk
<1>1. OnlyBallot(n, e, r, b)
  BY BallotUpdate
<1> QED BY <1>1 DEF OnlyBallot, OkOnlyAt, NoNewOk

\* Votes close no ballot.
LEMMA VoteNoOk ==
  ASSUME TypeOK, NEW n \in Peer, NEW e \in Entry, NEW r \in DOMAIN ballot[n][e], NEW p \in Peer,
         \/ ballot' = [ballot EXCEPT ![n][e][r].proposed = @ \cup {p}]
         \/ ballot' = [ballot EXCEPT ![n][e][r].committed = @ \cup {p}]
  PROVE  NoNewOk
<1> DEFINE b1 == [ballot[n][e][r] EXCEPT !.proposed = @ \cup {p}]
           b2 == [ballot[n][e][r] EXCEPT !.committed = @ \cup {p}]
<1>1. /\ b1 \in Ballot /\ b1.status = ballot[n][e][r].status
      /\ ballot[n][e][r].proposed \subseteq b1.proposed
      /\ ballot[n][e][r].committed \subseteq b1.committed
  BY BallotInRange DEF Ballot
<1>2. /\ b2 \in Ballot /\ b2.status = ballot[n][e][r].status
      /\ ballot[n][e][r].proposed \subseteq b2.proposed
      /\ ballot[n][e][r].committed \subseteq b2.committed
  BY BallotInRange DEF Ballot
<1>3. ballot' = [ballot EXCEPT ![n][e][r] = b1] \/ ballot' = [ballot EXCEPT ![n][e][r] = b2]
  OBVIOUS
<1> HIDE DEF b1, b2
<1> QED BY <1>1, <1>2, <1>3, OneBallotOk

\* Setting the outcome of a ballot.
LEMMA StatusOk ==
  ASSUME TypeOK, NEW n \in Peer, NEW e \in Entry, NEW r \in DOMAIN ballot[n][e],
         NEW s \in Status, ballot' = [ballot EXCEPT ![n][e][r].status = s]
  PROVE  OkOnlyAt(n, e, r) /\ (s # "ok" => NoNewOk)
<1> DEFINE b == [ballot[n][e][r] EXCEPT !.status = s]
<1>1. /\ b \in Ballot /\ b.status = s
      /\ ballot[n][e][r].proposed \subseteq b.proposed
      /\ ballot[n][e][r].committed \subseteq b.committed
  BY BallotInRange DEF Ballot
<1>2. ballot' = [ballot EXCEPT ![n][e][r] = b]
  OBVIOUS
<1> HIDE DEF b
<1>3. OnlyBallot(n, e, r, b)
  BY <1>1, <1>2, BallotUpdate
<1> QED BY <1>1, <1>3 DEF OnlyBallot, OkOnlyAt, NoNewOk

LEMMA SameNoOk ==
  ASSUME UNCHANGED ballot PROVE NoNewOk /\ \A n, e, r : OkOnlyAt(n, e, r)
  BY DEF NoNewOk, OkOnlyAt

\* Ballot.close makes a ballot a success only when it is given no error.
LEMMA CloseOk ==
  ASSUME TypeOK, NEW n \in Peer, NEW e \in Entry, NEW r \in DOMAIN ballot[n][e],
         NEW s \in Status, Close(n, e, r, s)
  PROVE  OkOnlyAt(n, e, r) /\ (s # "ok" => NoNewOk)
<1>1. CASE ballot' = ballot
  BY <1>1, SameNoOk
<1>2. CASE ballot' # ballot
  <2>1. ballot' = [ballot EXCEPT ![n][e][r].status = s]
    BY <1>2 DEF Close
  <2> QED BY <2>1, StatusOk
<1> QED BY <1>1, <1>2

LEMMA BallotGetCloseOk ==
  ASSUME Typed, NEW n \in Peer, NEW e, BallotGetClose(n, e)
  PROVE  NoNewOk
<1>1. CASE e \in tracked[n]
  <2>1. e \in Entry /\ ballot[n][e] \in Seq(Ballot) /\ ballot[n][e] # <<>>
    BY <1>1 DEF Typed, TypeOK, TrackedHasBallot
  <2>2. Current(n, e) \in DOMAIN ballot[n][e]
    BY <2>1, SeqFacts DEF Current
  <2>3. Close(n, e, Current(n, e), "err") /\ "err" \in Status /\ TypeOK
    BY <1>1 DEF BallotGetClose, Typed, Status
  <2> QED BY <2>1, <2>2, <2>3, CloseOk
<1>2. CASE e \notin tracked[n]
  BY <1>2, SameNoOk DEF BallotGetClose
<1> QED BY <1>1, <1>2

\* A ballot is opened, not closed.
LEMMA OpenNoOk ==
  ASSUME TypeOK, NEW n \in Peer, NEW e \in Entry,
         ballot' = [ballot EXCEPT ![n][e] = Append(@, NewBallot)]
  PROVE  NoNewOk
<1> DEFINE b == ballot[n][e]
<1>1. b \in Seq(Ballot) /\ NewBallot \in Ballot /\ NewBallot.status = "open"
  BY DEF TypeOK, Ballot, Status, NewBallot
<1>2. /\ DOMAIN Append(b, NewBallot) = 1..(Len(b) + 1)
      /\ DOMAIN b = 1..Len(b) /\ Len(b) \in Nat
      /\ \A r \in 1..Len(b) : Append(b, NewBallot)[r] = b[r]
      /\ Append(b, NewBallot)[Len(b) + 1] = NewBallot
  BY <1>1
<1>3. \A m \in Peer, x \in Entry :
         ballot'[m][x] = IF m = n /\ x = e THEN Append(b, NewBallot) ELSE ballot[m][x]
  BY DEF TypeOK
<1> HIDE DEF b
<1>4. \A r \in DOMAIN Append(b, NewBallot) :
         \/ r \in DOMAIN b /\ Append(b, NewBallot)[r] = b[r]
         \/ Append(b, NewBallot)[r].status = "open"
  BY <1>1, <1>2
<1> QED BY <1>3, <1>4 DEF NoNewOk, b

\* checkVotesAndCommit alone ends a ballot without an error.
LEMMA OkStep ==
  ASSUME Typed, Next, \A c \in calls : ~ApplyVoted(c)
  PROVE  NoNewOk
<1>0. TypeOK
  BY DEF Typed
<1>1. ASSUME NEW c \in calls, Handle(c) PROVE NoNewOk
  <2>0. /\ c \in Call /\ c.node \in Peer /\ c.src \in Peer /\ c.entry \in Entry
        /\ c.pc \in Voting => c.round \in DOMAIN ballot[c.node][c.entry]
    BY AtType
  <2>1. CASE OpenBallot(c)
    <3>1. \/ UNCHANGED ballot
          \/ ballot' = [ballot EXCEPT ![c.node][c.entry] = Append(@, NewBallot)]
      BY <2>1 DEF OpenBallot
    <3> QED BY <1>0, <2>0, <3>1, SameNoOk, OpenNoOk
  <2>2. CASE RejectEntry(c)
    BY <2>0, <2>2, BallotGetCloseOk DEF RejectEntry
  <2>3. CASE ProposeSelf(c) \/ ProposeSource(c)
    <3>1. UNCHANGED ballot \/ \E p \in Peer :
              ballot' = [ballot EXCEPT ![c.node][c.entry][c.round].proposed = @ \cup {p}]
      BY <2>0, <2>3 DEF ProposeSelf, ProposeSource, VoteAs
    <3>2. c.round \in DOMAIN ballot[c.node][c.entry]
      BY <2>0, <2>3 DEF ProposeSelf, ProposeSource, At, Voting
    <3>3. ASSUME NEW p \in Peer,
                 ballot' = [ballot EXCEPT ![c.node][c.entry][c.round].proposed = @ \cup {p}]
          PROVE  NoNewOk
      BY <1>0, <2>0, <3>2, <3>3, VoteNoOk
    <3> QED BY <3>1, <3>3, SameNoOk
  <2>4. CASE VoteCommit(c)
    <3>1. UNCHANGED ballot \/ \E p \in Peer :
              ballot' = [ballot EXCEPT ![c.node][c.entry][c.round].committed = @ \cup {p}]
      BY <2>0, <2>4 DEF VoteCommit
    <3>2. c.round \in DOMAIN ballot[c.node][c.entry]
      BY <2>0, <2>4 DEF VoteCommit, At, Voting
    <3>3. ASSUME NEW p \in Peer,
                 ballot' = [ballot EXCEPT ![c.node][c.entry][c.round].committed = @ \cup {p}]
          PROVE  NoNewOk
      BY <1>0, <2>0, <3>2, <3>3, VoteNoOk
    <3> QED BY <3>1, <3>3, SameNoOk
  <2>5. CASE CheckFails(c)
    <3>1. c.round \in DOMAIN ballot[c.node][c.entry]
      BY <2>0, <2>5 DEF CheckFails, Voting
    <3>2. UNCHANGED ballot \/ Close(c.node, c.entry, c.round, "err")
      BY <2>5 DEF CheckFails
    <3>3. "err" \in Status
      BY DEF Status
    <3> QED BY <1>0, <2>0, <3>1, <3>2, <3>3, SameNoOk, CloseOk
  <2>6. CASE \/ VerifyEntry(c) \/ RequestHeal(c) \/ NewKey(c) \/ Put(c) \/ FindBallot(c)
             \/ AppendVoted(c) \/ CallDead(c)
    BY <2>6, SameNoOk DEF VerifyEntry, RequestHeal, NewKey, Put, FindBallot, AppendVoted, CallDead
  <2> QED BY <1>1, <2>1, <2>2, <2>3, <2>4, <2>5, <2>6 DEF Handle
<1>2. ASSUME NEW w \in Worker, NEW n \in Peer, Broadcaster(w, n) PROVE NoNewOk
  <2>1. CASE BroadcastFailed(w, n)
    BY <2>1, BallotGetCloseOk DEF BroadcastFailed
  <2>2. CASE Broadcast(w, n)
    BY <2>2, SameNoOk DEF Broadcast
  <2> QED BY <1>2, <2>1, <2>2 DEF Broadcaster
<1>3. ASSUME NEW n \in Peer, TimeoutAny(n) PROVE NoNewOk
  <2>1. PICK e \in Entry : \E r \in DOMAIN ballot[n][e] : Timeout(n, e, r)
    BY <1>3 DEF TimeoutAny
  <2>2. PICK r \in DOMAIN ballot[n][e] :
            ballot' = [ballot EXCEPT ![n][e][r].status = "timeout"]
    BY <2>1 DEF Timeout
  <2>3. "timeout" \in Status
    BY DEF Status
  <2> QED BY <1>0, <2>2, <2>3, StatusOk
<1>4. ASSUME UNCHANGED ballot PROVE NoNewOk
  BY <1>4, SameNoOk
<1> QED
  BY <1>1, <1>2, <1>3, <1>4 DEF Next, ClientPropose, CommitLocally, HealKeys, Heal,
      AppendPulled, ApplyPulled, Reap, Crash, Disconnect, Cancel

\* What the FSM was handed stays handed.
LEMMA HandedGrows ==
  ASSUME Typed, Next, NEW n \in Peer, NEW e \in Entry
  PROVE  Handed(n, e) \subseteq Handed(n, e)'
<1>0. TypeOK
  BY DEF Typed
<1>1. CASE applied' = applied
  BY <1>1 DEF Handed
<1>2. ASSUME NEW c \in calls, ApplyVoted(c) PROVE Handed(n, e) \subseteq Handed(n, e)'
  BY <1>0, <1>2, AtType, ApplyFacts DEF ApplyVoted
<1>3. ASSUME NEW m \in Peer, ApplyPulled(m) PROVE Handed(n, e) \subseteq Handed(n, e)'
  <2>1. Head(healer[m].stream) \in Entry /\ Apply(m, Head(healer[m].stream))
    BY <1>0, <1>3, HealerFacts DEF ApplyPulled
  <2> QED BY <1>0, <2>1, ApplyFacts
<1> QED BY <1>1, <1>2, <1>3, AppliedStep

\* A success stays one, and a new one has everything it stands for.
LEMMA SuccessStep ==
  ASSUME Typed, Typed', HandoverInv, Next, BallotsGrow, LogsGrow
  PROVE  SuccessIsReal'
<1> SUFFICES ASSUME NEW n \in Peer, NEW e \in Entry, NEW r \in DOMAIN ballot'[n][e],
                    ballot'[n][e][r].status = "ok"
             PROVE  /\ e \in Elems(log'[n]) /\ Handed(n, e)' # {}
                    /\ ballot'[n][e][r].proposed = Peer /\ ballot'[n][e][r].committed = Peer
  BY DEF SuccessIsReal
<1>1. CASE r \in DOMAIN ballot[n][e] /\ ballot[n][e][r].status = "ok"
  <2>1. /\ e \in Elems(log[n]) /\ Handed(n, e) # {}
        /\ ballot[n][e][r].proposed = Peer /\ ballot[n][e][r].committed = Peer
    BY <1>1 DEF HandoverInv, SuccessIsReal
  <2>2. e \in Elems(log'[n]) /\ Handed(n, e)' # {}
    BY <2>1, HandedGrows DEF LogsGrow
  <2>3. ballot'[n][e][r].proposed = Peer /\ ballot'[n][e][r].committed = Peer
    BY <1>1, <2>1, StaysFull DEF Typed
  <2> QED BY <2>2, <2>3
<1>2. CASE ~(r \in DOMAIN ballot[n][e] /\ ballot[n][e][r].status = "ok")
  <2>1. PICK c \in calls : ApplyVoted(c)
    BY <1>2, OkStep DEF NoNewOk
  <2>2. /\ TypeOK /\ c.node \in Peer /\ c.entry \in Entry /\ "ok" \in Status
        /\ c.pc \in Applying /\ c.node \notin down /\ c.round \in DOMAIN ballot[c.node][c.entry]
    BY <2>1, AtType DEF Typed, ApplyVoted, Applying, Voting, Status
  <2>3. Close(c.node, c.entry, c.round, "ok") /\ Apply(c.node, c.entry) /\ log' = log
    BY <2>1 DEF ApplyVoted
  <2>4. OkOnlyAt(c.node, c.entry, c.round)
    BY <2>2, <2>3, CloseOk
  <2>5. n = c.node /\ e = c.entry /\ r = c.round
    BY <1>2, <2>4 DEF OkOnlyAt
  <2>6. c \in Owing(n, e) /\ HandInv(n, e)
    BY <2>2, <2>5 DEF Owing, Applying, HandoverInv
  <2>7. e \in Elems(log'[n])
    BY <2>3, <2>6 DEF HandInv, Owed
  <2>8. Handed(n, e)' # {}
    BY <2>2, <2>3, <2>5, ApplyFacts
  <2>9. BallotOf(c).proposed = Peer /\ BallotOf(c).committed = Peer
    BY <2>2 DEF HandoverInv, ApplyInv
  <2>10. ballot'[n][e][r].proposed = Peer /\ ballot'[n][e][r].committed = Peer
    BY <2>2, <2>5, <2>9, StaysFull DEF Typed, BallotOf
  <2> QED BY <2>7, <2>8, <2>10
<1> QED BY <1>1, <1>2

-----------------------------------------------------------------------------
(* The theorems about hand-overs.                                          *)

\* Who owes what to the FSM is invariant, together with the voting and the types.
THEOREM HandoverInvariance == Spec => [](Typed /\ VotingInv /\ HandoverInv)
<1>1. Init => HandoverInv
  BY DEF Init, HandoverInv, Chained, HandInv, Owed, Owing, HealerOwes, Handed, ApplyInv,
      SuccessIsReal, Elems
<1>2. Typed /\ Typed' /\ VotingInv /\ HandoverInv /\ [Next]_vars => HandoverInv'
  <2> SUFFICES ASSUME Typed, Typed', VotingInv, HandoverInv, [Next]_vars PROVE HandoverInv'
    OBVIOUS
  <2>1. CASE UNCHANGED vars
    BY <2>1 DEF vars, HandoverInv, Chained, HandInv, Owed, Owing, HealerOwes, Handed, ApplyInv,
        BallotOf, SuccessIsReal
  <2>2. CASE Next
    <3>1. BallotsGrow /\ LogsGrow
      BY <2>2, TypedStep, GrowStep
    <3>2. \A n \in Peer : Chained(n)'
      BY <2>2, ChainedStep DEF HandoverInv
    <3>3. \A n \in Peer \ down', e \in Entry : HandInv(n, e)'
      BY <2>2, HandStep
    <3>4. ApplyInv'
      <4>1. \A d \in calls' : d.pc \in Applying =>
                BallotOf(d)'.proposed = Peer /\ BallotOf(d)'.committed = Peer
        BY <2>2, <3>1, ApplyInvStep DEF HandoverInv
      <4> QED BY <4>1 DEF ApplyInv
    <3>5. SuccessIsReal'
      BY <2>2, <3>1, SuccessStep
    <3> QED BY <3>2, <3>3, <3>4, <3>5 DEF HandoverInv
  <2> QED BY <2>1, <2>2
<1> QED BY <1>1, <1>2, VotingInvariance, PTL DEF Spec

\* A set without two members has the cardinality it should have.
LEMMA AtMostOne ==
  ASSUME NEW S, \A x, y \in S : x = y
  PROVE  Cardinality(S) = IF S = {} THEN 0 ELSE 1
<1>1. CASE S = {}
  BY <1>1, FS_EmptySet
<1>2. CASE S # {}
  <2>1. PICK x \in S : S = {x}
    BY <1>2
  <2> QED BY <1>2, <2>1, FS_Singleton
<1> QED BY <1>1, <1>2

\* An entry of a log is at one place of it.
LEMMA OnePlace ==
  ASSUME TypeOK, NEW n \in Peer, NEW e \in Entry, Chained(n)
  PROVE  Cardinality({i \in DOMAIN log[n] : log[n][i] = e}) = IF e \in Elems(log[n]) THEN 1 ELSE 0
<1> DEFINE at == {i \in DOMAIN log[n] : log[n][i] = e}
<1>1. \A i, j \in at : i = j
  BY DEF Chained
<1>2. at = {} <=> e \notin Elems(log[n])
  BY DEF Elems
<1> HIDE DEF at
<1>3. Cardinality(at) = IF at = {} THEN 0 ELSE 1
  BY <1>1, AtMostOne
<1> QED BY <1>2, <1>3 DEF at

\* Every append is handed to the FSM exactly once, by the handler or healer that
\* made it, however handlers count the last vote together.
THEOREM HandedOverOnce == Spec => []AppliedOnce
<1>1. Typed /\ HandoverInv => AppliedOnce
  <2> SUFFICES ASSUME Typed, HandoverInv, NEW n \in Peer \ down, NEW e \in Entry
               PROVE  Cardinality(Owing(n, e)) + (IF HealerOwes(n, e) THEN 1 ELSE 0)
                        + Cardinality(Handed(n, e))
                      = Cardinality({i \in DOMAIN log[n] : log[n][i] = e})
    BY DEF AppliedOnce
  <2>1. HandInv(n, e) /\ Chained(n) /\ TypeOK
    BY DEF HandoverInv, Typed
  <2>2. /\ Cardinality(Owing(n, e)) = IF Owing(n, e) = {} THEN 0 ELSE 1
        /\ Cardinality(Handed(n, e)) = IF Handed(n, e) = {} THEN 0 ELSE 1
    BY <2>1, AtMostOne DEF HandInv
  <2>3. Cardinality({i \in DOMAIN log[n] : log[n][i] = e}) = IF e \in Elems(log[n]) THEN 1 ELSE 0
    BY <2>1, OnePlace
  <2>4. /\ Owing(n, e) # {} => ~HealerOwes(n, e) /\ Handed(n, e) = {}
        /\ HealerOwes(n, e) => Handed(n, e) = {}
        /\ e \in Elems(log[n]) <=> Owing(n, e) # {} \/ HealerOwes(n, e) \/ Handed(n, e) # {}
    BY <2>1 DEF HandInv, Owed
  <2> QED BY <2>2, <2>3, <2>4
<1> QED BY <1>1, HandoverInvariance, PTL

\* A success is real: the entry is in the log, the FSM has it, all peers voted.
THEOREM Successes == Spec => []SuccessIsReal
<1>1. HandoverInv => SuccessIsReal
  BY DEF HandoverInv
<1> QED BY <1>1, HandoverInvariance, PTL
=============================================================================

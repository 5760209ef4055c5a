---------------------------- MODULE BallotProofs -----------------------------
(***************************************************************************)
(* Proofs about Ballot, for any voters, handlers and callers of Wait: what *)
(* a success means and that there is one at most, what a closed ballot     *)
(* without an error means, that a ballot with a vote has a signal coming,  *)
(* and when a signal does not fit in its channel.                          *)
(***************************************************************************)
EXTENDS Ballot, FiniteSetTheorems, TLAPS

\* The handlers that report success, and the callers of Wait that were told of one.
Reporting == {t \in Thread : thread[t].pc \in Closing /\ thread[t].res = "nil"}
Told == {w \in Waiter : waiter[w] = "nil"}

\* What a handler in checkVotesAndCommit knows: one of the counts was full when it
\* arrived, and the votes it has counted are still there.
Counted(t) ==
    /\ thread[t].pc = "check" => proposed = Voter \/ committed = Voter
    /\ thread[t].pc = "compare" =>
          /\ proposed = Voter \/ thread[t].seen # Cardinality(Voter)
          /\ committed = Voter \/ thread[t].seen = Cardinality(Voter)
    /\ thread[t].pc = "append" => proposed = Voter /\ committed = Voter
CountInv == \A t \in Thread : Counted(t)

\* One success at most is being reported, signalled or told, and none before the entry
\* is in the log with all votes.
SuccessInv ==
    /\ place = "ours" => proposed = Voter /\ committed = Voter
    /\ place # "ours" => Reporting = {} /\ done = 0 /\ Told = {}
    /\ \A t, u \in Reporting : t = u
    /\ \A w, x \in Told : w = x
    /\ done \in {0, 1}
    /\ done # 0 => Reporting = {} /\ Told = {}
    /\ Reporting # {} => Told = {}

\* The timer is created once, by the first vote; a closed ballot has an error, or
\* is about to have one, or was ended by a success or by the timer.
TimerInv ==
    /\ timer # "none" => proposed # {}
    /\ \A t \in Thread : thread[t].pc = "setttl" => timer = "none" /\ proposed # {}
    /\ \A t, u \in Thread : thread[t].pc = "setttl" /\ thread[u].pc = "setttl" => t = u
    /\ closed => \/ \E t \in Thread : thread[t].pc = "seterr"
                 \/ err # "nil" \/ place = "ours" \/ timer \in {"sending", "over"}

\* Whoever votes has a vote.
VoterInv == \A t \in Thread : thread[t].pc \in Voting => thread[t].voter # {}

IInv == TypeOK /\ CountInv /\ SuccessInv /\ TimerInv /\ VoterInv

-----------------------------------------------------------------------------
(* The steps of a handler.                                                 *)

ThreadState == [pc : Step, voter : {{}} \cup {{v} : v \in Voter}, seen : Nat, res : Result]

\* Handler t goes to pc and the others stay where they are.
Moves(t, pc) ==
    /\ thread' \in [Thread -> ThreadState]
    /\ thread'[t].pc = pc
    /\ \A u \in Thread \ {t} : thread'[u] = thread[u]

LEMMA IdleState == Idle \in ThreadState /\ Idle.pc = "idle"
  BY DEF Idle, ThreadState, Step, Result

LEMMA GotoMoves ==
    ASSUME TypeOK, NEW t \in Thread, NEW pc \in Step, Goto(t, pc)
    PROVE  /\ Moves(t, pc)
           /\ pc # "idle" => /\ thread'[t].res = thread[t].res /\ thread'[t].seen = thread[t].seen
                             /\ thread'[t].voter = thread[t].voter
<1>1. thread \in [Thread -> ThreadState] /\ thread[t] \in ThreadState
  BY DEF TypeOK, ThreadState
<1>2. CASE pc = "idle"
  <2>1. thread' = [thread EXCEPT ![t] = Idle]
    BY <1>2 DEF Goto
  <2> QED BY <1>1, <1>2, <2>1, IdleState DEF Moves
<1>3. CASE pc # "idle"
  <2>1. PICK st : st = [thread[t] EXCEPT !.pc = pc]
    OBVIOUS
  <2>2. /\ st \in ThreadState /\ st.pc = pc
        /\ st.res = thread[t].res /\ st.seen = thread[t].seen /\ st.voter = thread[t].voter
    BY <1>1, <2>1 DEF ThreadState
  <2>3. thread' = [thread EXCEPT ![t] = st]
    BY <1>3, <2>1 DEF Goto
  <2> QED BY <1>1, <2>2, <2>3 DEF Moves
<1> QED BY <1>2, <1>3

LEMMA CloseMoves ==
    ASSUME TypeOK, NEW t \in Thread, NEW res \in Result, CloseWith(t, res)
    PROVE  Moves(t, "load") /\ thread'[t].res = res
<1>1. thread \in [Thread -> ThreadState]
  BY DEF TypeOK, ThreadState
<1>2. PICK st : st = [Idle EXCEPT !.pc = "load", !.res = res]
  OBVIOUS
<1>3. st \in ThreadState /\ st.pc = "load" /\ st.res = res
  BY <1>2 DEF Idle, ThreadState, Step, Closing
<1>4. thread' = [thread EXCEPT ![t] = st]
  BY <1>2 DEF CloseWith
<1> QED BY <1>1, <1>3, <1>4 DEF Moves

LEMMA VoteMoves ==
    ASSUME TypeOK, NEW t \in Thread, NEW v \in Voter, NEW call \in {"propose", "commit"},
           StartVote(t, call, v)
    PROVE  Moves(t, call) /\ thread'[t].voter # {}
<1>1. thread \in [Thread -> ThreadState] /\ thread[t] \in ThreadState
  BY DEF TypeOK, ThreadState
<1>2. PICK st : st = [thread[t] EXCEPT !.pc = call, !.voter = {v}]
  OBVIOUS
<1>3. st \in ThreadState /\ st.pc = call /\ st.voter = {v}
  BY <1>1, <1>2 DEF ThreadState, Step, Voting
<1>4. thread' = [thread EXCEPT ![t] = st]
  BY <1>1, <1>2 DEF StartVote
<1> QED BY <1>1, <1>3, <1>4 DEF Moves

LEMMA ReadMoves ==
    ASSUME TypeOK, NEW t \in Thread, ReadProposals(t)
    PROVE  Moves(t, "compare") /\ thread'[t].seen = Cardinality(proposed)
<1>1. thread \in [Thread -> ThreadState]
  BY DEF TypeOK, ThreadState
<1>2. Cardinality(proposed) \in Nat
  BY VotersAssumption, FS_Subset, FS_CardinalityType DEF TypeOK
<1>3. PICK st : st = [Idle EXCEPT !.pc = "compare", !.seen = Cardinality(proposed)]
  OBVIOUS
<1>4. st \in ThreadState /\ st.pc = "compare" /\ st.seen = Cardinality(proposed)
  BY <1>2, <1>3 DEF Idle, ThreadState, Step, Result
<1>5. thread' = [thread EXCEPT ![t] = st]
  BY <1>3 DEF ReadProposals
<1> QED BY <1>1, <1>4, <1>5 DEF Moves

\* The peer that a handler votes for.
LEMMA VoterType ==
    ASSUME TypeOK, NEW t \in Thread
    PROVE  thread[t].voter \subseteq Voter /\ thread[t].res \in Result /\ thread[t] \in ThreadState
<1>1. thread[t] \in ThreadState
  BY DEF TypeOK, ThreadState
<1> QED BY <1>1 DEF ThreadState

\* Sends to errc keep within its capacity.
LEMMA SendType ==
    ASSUME TypeOK, NEW e \in Err, Send(e)
    PROVE  errc' \in Seq(Err) /\ Len(errc') <= Capacity
<1>1. Capacity \in Nat
  BY VotersAssumption, FS_CardinalityType DEF Capacity
<1>2. errc \in Seq(Err) /\ errc' = Append(errc, e) /\ Len(errc) < Capacity
  BY DEF TypeOK, Send
<1> QED BY <1>1, <1>2

-----------------------------------------------------------------------------
(* Types.                                                                  *)

LEMMA InitInv == Init => IInv
<1> SUFFICES ASSUME Init PROVE IInv
  OBVIOUS
<1>0. Capacity \in Nat
  BY VotersAssumption, FS_CardinalityType DEF Capacity
<1>1. TypeOK
  <2>1. thread \in [Thread -> ThreadState]
    BY IdleState DEF Init
  <2>2. <<>> \in Seq(Err) /\ Len(<<>>) = 0
    OBVIOUS
  <2>3. waiter \in [Waiter -> Result \cup {"absent", "waiting"}] /\ through \subseteq Thread
    BY DEF Init
  <2>4. /\ proposed \subseteq Voter /\ committed \subseteq Voter
        /\ closed \in BOOLEAN /\ panicked \in BOOLEAN /\ err \in Result
        /\ timer \in {"none", "armed", "stopped", "fired", "sending", "over"}
        /\ place \in {"free", "ours", "rival"}
    BY DEF Init, Result
  <2>5. done \in 0..Capacity /\ errc \in Seq(Err) /\ Len(errc) <= Capacity
    BY <1>0, <2>2 DEF Init
  <2> QED BY <2>1, <2>3, <2>4, <2>5 DEF TypeOK, ThreadState
<1>2. \A t \in Thread : thread[t].pc = "idle"
  BY IdleState DEF Init
<1>3. Reporting = {} /\ Told = {}
  BY <1>2 DEF Init, Reporting, Told, Closing
<1> QED BY <1>1, <1>2, <1>3 DEF Init, IInv, CountInv, Counted, SuccessInv, TimerInv,
       VoterInv, Voting

LEMMA TypeStep ==
    ASSUME TypeOK, [Next]_vars
    PROVE  TypeOK'
<1>0. Capacity \in Nat
  BY VotersAssumption, FS_CardinalityType DEF Capacity
<1> DEFINE ThreadOK == thread' \in [Thread -> ThreadState]
<1>1. ASSUME NEW t \in Thread, NEW v \in Voter, NEW call \in {"propose", "commit"},
             StartVote(t, call, v)
      PROVE  TypeOK'
  BY <1>1, VoteMoves DEF StartVote, Moves, TypeOK, ThreadState
<1>2. ASSUME NEW t \in Thread, StartClose(t) PROVE TypeOK'
  <2>1. ThreadOK
    BY <1>2, CloseMoves DEF StartClose, Moves, Result, Err
  <2> QED BY <1>2, <2>1 DEF StartClose, TypeOK, ThreadState
<1>3. ASSUME NEW t \in Thread, Vote(t) PROVE TypeOK'
  <2>1. ThreadOK
    BY <1>3, GotoMoves DEF Vote, LoadClosed, VotePropose, SetTTL, VoteCommit, Moves, Step, Voting
  <2>2. proposed' \subseteq Voter /\ committed' \subseteq Voter
    BY <1>3, VoterType DEF Vote, LoadClosed, VotePropose, SetTTL, VoteCommit, TypeOK
  <2> QED BY <1>3, <2>1, <2>2 DEF Vote, LoadClosed, VotePropose, SetTTL, VoteCommit, TypeOK, ThreadState
<1>4. ASSUME NEW t \in Thread, CheckVotesAndCommit(t) PROVE TypeOK'
  <2>1. ThreadOK
    BY <1>4, GotoMoves, CloseMoves, ReadMoves
       DEF CheckVotesAndCommit, CompareCommits, AppendEntry, Moves, Step, Result, Err
  <2> QED BY <1>4, <2>1 DEF CheckVotesAndCommit, ReadProposals, CompareCommits, AppendEntry,
             TypeOK, ThreadState
<1>5. ASSUME NEW t \in Thread, Close(t) PROVE TypeOK'
  <2>1. CASE CloseLoad(t)
    <3>1. ThreadOK
      BY <2>1, GotoMoves DEF CloseLoad, Moves, Step, Closing
    <3> QED BY <2>1, <3>1 DEF CloseLoad, TypeOK, ThreadState
  <2>2. CASE CloseStop(t)
    <3>1. ThreadOK
      BY <2>2, GotoMoves DEF CloseStop, Moves, Step, Closing, TypeOK, ThreadState
    <3> QED BY <2>2, <3>1 DEF CloseStop, TypeOK, ThreadState
  <2>3. CASE CloseStore(t) \/ CloseSetErr(t)
    <3>1. ThreadOK
      BY <2>3, GotoMoves DEF CloseStore, CloseSetErr, Moves, Step, Closing
    <3> QED BY <2>3, <3>1, VoterType DEF CloseStore, CloseSetErr, TypeOK, ThreadState
  <2>4. CASE CloseSignal(t)
    <3>1. ThreadOK
      BY <2>4, GotoMoves DEF CloseSignal, Moves, Step
    <3>2. /\ done' \in 0..Capacity
          /\ errc' \in Seq(Err) /\ Len(errc') <= Capacity
      <4>1. CASE thread[t].res = "nil"
        BY <1>0, <2>4, <4>1 DEF CloseSignal, TypeOK
      <4>2. CASE thread[t].res # "nil"
        <5>1. thread[t].res \in Err /\ Send(thread[t].res) /\ done' = done
          BY <2>4, <4>2, VoterType DEF CloseSignal, Result
        <5> QED BY <5>1, SendType DEF TypeOK
      <4> QED BY <4>1, <4>2
    <3> QED BY <2>4, <3>1, <3>2 DEF CloseSignal, TypeOK, ThreadState
  <2> QED BY <1>5, <2>1, <2>2, <2>3, <2>4 DEF Close
<1>6. CASE RivalAppended
  BY <1>6 DEF RivalAppended, TypeOK
<1>7. CASE TimerRuns
  <2>1. errc' \in Seq(Err) /\ Len(errc') <= Capacity
    BY <1>7, SendType DEF TimerRuns, TypeOK, Err
  <2> QED BY <1>7, <2>1 DEF TimerRuns, TypeOK
<1>8. ASSUME NEW w \in Waiter, Wait(w) PROVE TypeOK'
  <2>1. errc' \in Seq(Err) /\ Len(errc') <= Capacity
    <3>1. errc \in Seq(Err) /\ Len(errc) <= Capacity
      BY DEF TypeOK
    <3>2. CASE errc # <<>> /\ errc' = Tail(errc)
      <4>1. Tail(errc) \in Seq(Err) /\ Len(Tail(errc)) = Len(errc) - 1 /\ Len(errc) \in Nat
        BY <3>1, <3>2
      <4> QED BY <1>0, <3>1, <3>2, <4>1
    <3> QED BY <1>8, <3>1, <3>2 DEF Wait
  <2>2. done' \in 0..Capacity
    BY <1>0, <1>8 DEF Wait, TypeOK
  <2>3. errc # <<>> => Head(errc) \in Result
    BY DEF TypeOK, Result
  <2>4. waiter' \in [Waiter -> Result \cup {"absent", "waiting"}]
    BY <1>8, <2>3 DEF Wait, TypeOK, Result
  <2> QED BY <1>8, <2>1, <2>2, <2>4 DEF Wait, TypeOK
<1>9. ASSUME NEW w \in Waiter, CallWait(w) PROVE TypeOK'
  <2>1. waiter' \in [Waiter -> Result \cup {"absent", "waiting"}]
    BY <1>9 DEF CallWait, TypeOK
  <2> QED BY <1>9, <2>1 DEF CallWait, TypeOK
<1>10. CASE UNCHANGED vars
  BY <1>10 DEF vars, TypeOK
<1> QED BY <1>1, <1>2, <1>3, <1>4, <1>5, <1>6, <1>7, <1>8, <1>9, <1>10 DEF Next

-----------------------------------------------------------------------------
(* The counts.                                                             *)

VotesGrow == (proposed = Voter => proposed' = Voter) /\ (committed = Voter => committed' = Voter)

LEMMA VotesStep ==
    ASSUME TypeOK, [Next]_vars
    PROVE  VotesGrow
<1>1. proposed' = proposed \/ \E t \in Thread : proposed' = proposed \cup thread[t].voter
  BY DEF Next, StartVote, StartClose, Vote, LoadClosed, VotePropose, SetTTL, VoteCommit,
     CheckVotesAndCommit, ReadProposals, CompareCommits, AppendEntry, Close, CloseLoad, CloseStop,
     CloseStore, CloseSetErr, CloseSignal, RivalAppended, TimerRuns, CallWait, Wait, vars
<1>2. committed' = committed \/ \E t \in Thread : committed' = committed \cup thread[t].voter
  BY DEF Next, StartVote, StartClose, Vote, LoadClosed, VotePropose, SetTTL, VoteCommit,
     CheckVotesAndCommit, ReadProposals, CompareCommits, AppendEntry, Close, CloseLoad, CloseStop,
     CloseStore, CloseSetErr, CloseSignal, RivalAppended, TimerRuns, CallWait, Wait, vars
<1>3. \A t \in Thread : thread[t].voter \subseteq Voter
  BY VoterType
<1> QED BY <1>1, <1>2, <1>3 DEF VotesGrow

LEMMA OthersCounted ==
    ASSUME CountInv, VotesGrow, NEW t \in Thread, NEW pc, Moves(t, pc), Counted(t)'
    PROVE  CountInv'
<1>1. ASSUME NEW u \in Thread \ {t} PROVE Counted(u)'
  BY DEF CountInv, Counted, VotesGrow, Moves
<1> QED BY <1>1 DEF CountInv

\* A full count of votes is a vote of everybody.
LEMMA AllVotes ==
    ASSUME NEW S \in SUBSET Voter
    PROVE  S = Voter <=> Cardinality(S) = Cardinality(Voter)
  BY VotersAssumption, FS_Subset

LEMMA CountStep ==
    ASSUME TypeOK, CountInv, [Next]_vars
    PROVE  CountInv'
<1>0. VotesGrow
  BY VotesStep
<1>1. ASSUME NEW t \in Thread, NEW v \in Voter, NEW call \in {"propose", "commit"},
             StartVote(t, call, v)
      PROVE  CountInv'
  <2>1. Moves(t, call)
    BY <1>1, VoteMoves
  <2>2. Counted(t)'
    BY <2>1 DEF Counted, Moves
  <2> QED BY <1>0, <2>1, <2>2, OthersCounted
<1>2. ASSUME NEW t \in Thread, StartClose(t) PROVE CountInv'
  <2>1. Moves(t, "load")
    BY <1>2, CloseMoves DEF StartClose, Result, Err
  <2>2. Counted(t)'
    BY <2>1 DEF Counted, Moves
  <2> QED BY <1>0, <2>1, <2>2, OthersCounted
<1>3. ASSUME NEW t \in Thread, Vote(t) PROVE CountInv'
  <2>1. PICK pc \in Step : /\ Moves(t, pc) /\ pc \notin {"compare", "append"}
                           /\ pc = "check" => proposed' = Voter \/ committed' = Voter
    BY <1>3, GotoMoves DEF Vote, LoadClosed, VotePropose, SetTTL, VoteCommit, Step, Voting
  <2>2. Counted(t)'
    BY <2>1 DEF Counted, Moves
  <2> QED BY <1>0, <2>1, <2>2, OthersCounted
<1>4. ASSUME NEW t \in Thread, ReadProposals(t) PROVE CountInv'
  <2>1. Moves(t, "compare") /\ thread'[t].seen = Cardinality(proposed)
    BY <1>4, ReadMoves
  <2>2. UNCHANGED <<proposed, committed>> /\ (proposed = Voter \/ committed = Voter)
    BY <1>4 DEF ReadProposals, At, CountInv, Counted
  <2>3. proposed = Voter <=> Cardinality(proposed) = Cardinality(Voter)
    BY AllVotes DEF TypeOK
  <2>4. Counted(t)'
    BY <2>1, <2>2, <2>3 DEF Counted, Moves
  <2> QED BY <1>0, <2>1, <2>4, OthersCounted
<1>5. ASSUME NEW t \in Thread, CompareCommits(t) PROVE CountInv'
  <2>1. PICK pc \in Step : /\ Moves(t, pc) /\ pc \in {"append", "idle"}
                           /\ pc = "append" => thread[t].seen = Cardinality(committed)
    BY <1>5, GotoMoves DEF CompareCommits, Step
  <2>2. committed = Voter <=> Cardinality(committed) = Cardinality(Voter)
    BY AllVotes DEF TypeOK
  <2>3. UNCHANGED <<proposed, committed>> /\ thread[t].pc = "compare"
    BY <1>5 DEF CompareCommits, At
  <2>4. Counted(t)'
    BY <2>1, <2>2, <2>3 DEF Counted, Moves, CountInv
  <2> QED BY <1>0, <2>1, <2>4, OthersCounted
<1>6. ASSUME NEW t \in Thread, AppendEntry(t) PROVE CountInv'
  <2>1. Moves(t, "load")
    BY <1>6, CloseMoves DEF AppendEntry, Result, Err
  <2>2. Counted(t)'
    BY <2>1 DEF Counted, Moves
  <2> QED BY <1>0, <2>1, <2>2, OthersCounted
<1>7. ASSUME NEW t \in Thread, Close(t), thread' # thread PROVE CountInv'
  <2>1. PICK pc \in Step : Moves(t, pc) /\ pc \notin {"check", "compare", "append"}
    BY <1>7, GotoMoves DEF Close, CloseLoad, CloseStop, CloseStore, CloseSetErr, CloseSignal,
       Step, Closing
  <2>2. Counted(t)'
    BY <2>1 DEF Counted, Moves
  <2> QED BY <1>0, <2>1, <2>2, OthersCounted
<1>8. CASE UNCHANGED thread
  BY <1>0, <1>8 DEF CountInv, Counted, VotesGrow
<1> QED BY <1>1, <1>2, <1>3, <1>4, <1>5, <1>6, <1>7, <1>8
           DEF Next, CheckVotesAndCommit, RivalAppended, TimerRuns, CallWait, Wait, vars

-----------------------------------------------------------------------------
(* The successes.                                                          *)

\* A step that reports nothing new keeps the successes as they are.
LEMMA NoNewSuccess ==
    ASSUME SuccessInv, VotesGrow, Reporting' \subseteq Reporting, UNCHANGED <<done, waiter>>,
           place' = place \/ (place' # "ours" /\ place # "ours")
    PROVE  SuccessInv'
<1>1. Told' = Told
  BY DEF Told
<1> QED BY <1>1 DEF SuccessInv, VotesGrow

LEMMA NotReporting ==
    ASSUME NEW t \in Thread, NEW pc, Moves(t, pc),
           pc \notin Closing \/ thread'[t].res # "nil"
             \/ (thread[t].pc \in Closing /\ thread'[t].res = thread[t].res)
    PROVE  Reporting' \subseteq Reporting /\ (pc \notin Closing => t \notin Reporting')
  BY DEF Moves, Reporting

LEMMA SuccessStep ==
    ASSUME TypeOK, CountInv, SuccessInv, [Next]_vars
    PROVE  SuccessInv'
<1>0. VotesGrow
  BY VotesStep
<1>1. ASSUME NEW t \in Thread, NEW v \in Voter, NEW call \in {"propose", "commit"},
             StartVote(t, call, v)
      PROVE  SuccessInv'
  <2>1. Reporting' \subseteq Reporting
    BY <1>1, VoteMoves, NotReporting DEF Closing
  <2> QED BY <1>0, <1>1, <2>1, NoNewSuccess DEF StartVote
<1>2. ASSUME NEW t \in Thread, StartClose(t) PROVE SuccessInv'
  <2>1. Moves(t, "load") /\ thread'[t].res = "failed"
    BY <1>2, CloseMoves DEF StartClose, Result, Err
  <2>2. Reporting' \subseteq Reporting
    BY <2>1, NotReporting
  <2> QED BY <1>0, <1>2, <2>2, NoNewSuccess DEF StartClose
<1>3. ASSUME NEW t \in Thread, Vote(t) PROVE SuccessInv'
  <2>1. PICK pc \in Step : Moves(t, pc) /\ pc \notin Closing
    BY <1>3, GotoMoves DEF Vote, LoadClosed, VotePropose, SetTTL, VoteCommit, Step, Voting, Closing
  <2>2. Reporting' \subseteq Reporting
    BY <2>1, NotReporting
  <2> QED BY <1>0, <1>3, <2>2, NoNewSuccess DEF Vote, LoadClosed, VotePropose, SetTTL, VoteCommit
<1>4. ASSUME NEW t \in Thread, ReadProposals(t) \/ CompareCommits(t) PROVE SuccessInv'
  <2>1. PICK pc \in Step : Moves(t, pc) /\ pc \notin Closing
    BY <1>4, GotoMoves, ReadMoves DEF CompareCommits, Step, Closing
  <2>2. Reporting' \subseteq Reporting
    BY <2>1, NotReporting
  <2> QED BY <1>0, <1>4, <2>2, NoNewSuccess DEF ReadProposals, CompareCommits
<1>5. ASSUME NEW t \in Thread, AppendEntry(t) PROVE SuccessInv'
  <2>1. CASE place = "free"
    <3>1. Moves(t, "load") /\ thread'[t].res = "nil"
      BY <1>5, <2>1, CloseMoves DEF AppendEntry, Result
    <3>2. Reporting = {} /\ done = 0 /\ Told = {}
      BY <2>1 DEF SuccessInv
    <3>3. \A u \in Reporting' : u = t
      BY <3>1, <3>2 DEF Moves, Reporting
    <3>4. Told' = {} /\ done' = 0 /\ place' = "ours"
      BY <1>5, <2>1, <3>2 DEF AppendEntry, Told
    <3>5. proposed' = Voter /\ committed' = Voter
      BY <1>5 DEF AppendEntry, At, CountInv, Counted
    <3> QED BY <3>3, <3>4, <3>5 DEF SuccessInv
  <2>2. CASE place # "free"
    <3>1. Moves(t, "load") /\ thread'[t].res = "failed"
      BY <1>5, <2>2, CloseMoves DEF AppendEntry, Result, Err
    <3>2. Reporting' \subseteq Reporting
      BY <3>1, NotReporting
    <3> QED BY <1>0, <1>5, <2>2, <3>2, NoNewSuccess DEF AppendEntry
  <2> QED BY <2>1, <2>2
<1>6. ASSUME NEW t \in Thread, CloseLoad(t) \/ CloseStore(t) \/ CloseSetErr(t) \/ CloseStop(t)
      PROVE  SuccessInv'
  <2>1. CASE thread' # thread
    <3>1. PICK pc \in Step : Moves(t, pc) /\ (pc # "idle" => thread'[t].res = thread[t].res)
      BY <1>6, <2>1, GotoMoves DEF CloseLoad, CloseStop, CloseStore, CloseSetErr, Step, Closing
    <3>2. thread[t].pc \in Closing
      BY <1>6 DEF CloseLoad, CloseStop, CloseStore, CloseSetErr, At, Closing
    <3>3. Reporting' \subseteq Reporting
      BY <3>1, <3>2, NotReporting DEF Closing
    <3> QED BY <1>0, <1>6, <3>3, NoNewSuccess DEF CloseLoad, CloseStop, CloseStore, CloseSetErr
  <2>2. CASE thread' = thread
    <3>1. Reporting' = Reporting
      BY <2>2 DEF Reporting
    <3> QED BY <1>0, <1>6, <3>1, NoNewSuccess DEF CloseLoad, CloseStop, CloseStore, CloseSetErr
  <2> QED BY <2>1, <2>2
<1>7. ASSUME NEW t \in Thread, CloseSignal(t) PROVE SuccessInv'
  <2>1. Moves(t, "idle")
    BY <1>7, GotoMoves DEF CloseSignal, Step
  <2>2. Reporting' \subseteq Reporting /\ t \notin Reporting'
    BY <2>1, NotReporting DEF Closing
  <2>3. CASE thread[t].res = "nil"
    <3>1. t \in Reporting
      BY <1>7, <2>3 DEF CloseSignal, At, Reporting, Closing
    <3>2. place = "ours" /\ done = 0 /\ Told = {} /\ Reporting' = {}
      BY <2>2, <3>1 DEF SuccessInv
    <3>3. done' = 1 /\ Told' = {} /\ place' = "ours"
      BY <1>7, <2>3, <3>2 DEF CloseSignal, Told
    <3> QED BY <1>0, <3>2, <3>3 DEF SuccessInv, VotesGrow
  <2>4. CASE thread[t].res # "nil"
    BY <1>0, <1>7, <2>2, <2>4, NoNewSuccess DEF CloseSignal
  <2> QED BY <2>3, <2>4
<1>8. CASE RivalAppended \/ TimerRuns \/ UNCHANGED vars
  <2>1. Reporting' = Reporting
    BY <1>8 DEF RivalAppended, TimerRuns, vars, Reporting
  <2> QED BY <1>0, <1>8, <2>1, NoNewSuccess DEF RivalAppended, TimerRuns, vars
<1>9. ASSUME NEW w \in Waiter, Wait(w) PROVE SuccessInv'
  <2>0. Reporting' = Reporting /\ place' = place
    BY <1>9 DEF Wait, Reporting
  <2>1. CASE done > 0 /\ done' = done - 1 /\ waiter' = [waiter EXCEPT ![w] = "nil"]
    <3>1. done = 1 /\ Reporting = {} /\ Told = {} /\ place = "ours" /\ done' = 0
      BY <2>1 DEF SuccessInv
    <3>2. \A x \in Told' : x = w
      BY <2>1, <3>1 DEF Told, TypeOK
    <3> QED BY <1>0, <2>0, <3>1, <3>2 DEF SuccessInv, VotesGrow
  <2>2. CASE errc # <<>> /\ done' = done /\ waiter' = [waiter EXCEPT ![w] = Head(errc)]
    <3>1. Head(errc) \in Err
      BY <2>2 DEF TypeOK
    <3>2. Told' \subseteq Told
      BY <2>2, <3>1 DEF Told, TypeOK, Err
    <3> QED BY <1>0, <2>0, <2>2, <3>2 DEF SuccessInv, VotesGrow
  <2> QED BY <1>9, <2>1, <2>2 DEF Wait
<1>10. ASSUME NEW w \in Waiter, CallWait(w) PROVE SuccessInv'
  <2>1. Reporting' = Reporting /\ Told' = Told
    BY <1>10 DEF CallWait, Reporting, Told, TypeOK
  <2> QED BY <1>0, <1>10, <2>1 DEF CallWait, SuccessInv, VotesGrow
<1> QED BY <1>1, <1>2, <1>3, <1>4, <1>5, <1>6, <1>7, <1>8, <1>9, <1>10
           DEF Next, CheckVotesAndCommit, Close

-----------------------------------------------------------------------------
(* The timer and the error.                                                *)

LEMMA VoterStep ==
    ASSUME TypeOK, VoterInv, [Next]_vars
    PROVE  VoterInv'
<1>1. ASSUME NEW t \in Thread, NEW pc, Moves(t, pc), pc \in Voting => thread'[t].voter # {}
      PROVE  VoterInv'
  BY <1>1 DEF VoterInv, Moves
<1>2. ASSUME NEW t \in Thread, NEW v \in Voter, NEW call \in {"propose", "commit"},
             StartVote(t, call, v)
      PROVE  VoterInv'
  BY <1>1, <1>2, VoteMoves
<1>3. ASSUME NEW t \in Thread, StartClose(t) \/ CheckVotesAndCommit(t) PROVE VoterInv'
  <2>1. PICK pc \in Step : Moves(t, pc) /\ pc \notin Voting
    BY <1>3, GotoMoves, CloseMoves, ReadMoves
       DEF StartClose, CheckVotesAndCommit, CompareCommits, AppendEntry, Step, Voting, Closing,
           Result, Err
  <2> QED BY <1>1, <2>1
<1>4. ASSUME NEW t \in Thread, LoadClosed(t) PROVE VoterInv'
  <2>1. PICK pc \in Step : Moves(t, pc) /\ (pc # "idle" => thread'[t].voter = thread[t].voter)
    BY <1>4, GotoMoves DEF LoadClosed, Step, Voting
  <2>2. thread[t].voter # {}
    BY <1>4 DEF LoadClosed, At, VoterInv, Voting
  <2> QED BY <1>1, <2>1, <2>2 DEF Voting
<1>5. ASSUME NEW t \in Thread, VotePropose(t) \/ SetTTL(t) \/ VoteCommit(t) PROVE VoterInv'
  <2>1. PICK pc \in Step : Moves(t, pc) /\ pc \notin Voting
    BY <1>5, GotoMoves DEF VotePropose, SetTTL, VoteCommit, Step, Voting
  <2> QED BY <1>1, <2>1
<1>6. ASSUME NEW t \in Thread, Close(t), thread' # thread PROVE VoterInv'
  <2>1. PICK pc \in Step : Moves(t, pc) /\ pc \notin Voting
    BY <1>6, GotoMoves DEF Close, CloseLoad, CloseStop, CloseStore, CloseSetErr, CloseSignal,
       Step, Closing, Voting
  <2> QED BY <1>1, <2>1
<1>7. CASE UNCHANGED thread
  BY <1>7 DEF VoterInv
<1> QED BY <1>2, <1>3, <1>4, <1>5, <1>6, <1>7
           DEF Next, Vote, RivalAppended, TimerRuns, CallWait, Wait, vars

\* A handler that neither creates the timer nor closes the ballot.
LEMMA TimerSame ==
    ASSUME TimerInv, NEW t \in Thread, NEW pc, Moves(t, pc),
           pc # "setttl", thread[t].pc # "seterr",
           proposed # {} => proposed' # {}, UNCHANGED <<closed, err, timer>>,
           place = "ours" => place' = "ours"
    PROVE  TimerInv'
<1>1. /\ \A u \in Thread : thread'[u].pc = "setttl" => thread[u].pc = "setttl"
      /\ \A u \in Thread : thread[u].pc = "seterr" => thread'[u].pc = "seterr"
  BY DEF Moves
<1> QED BY <1>1 DEF TimerInv

LEMMA TimerStep ==
    ASSUME TypeOK, SuccessInv, VoterInv, TimerInv, [Next]_vars
    PROVE  TimerInv'
<1>1. ASSUME NEW t \in Thread, NEW v \in Voter, NEW call \in {"propose", "commit"},
             StartVote(t, call, v)
      PROVE  TimerInv'
  BY <1>1, VoteMoves, TimerSame DEF StartVote, At
<1>2. ASSUME NEW t \in Thread, StartClose(t) PROVE TimerInv'
  <2>1. Moves(t, "load")
    BY <1>2, CloseMoves DEF StartClose, Result, Err
  <2> QED BY <1>2, <2>1, TimerSame DEF StartClose, At
<1>3. ASSUME NEW t \in Thread, LoadClosed(t) \/ VoteCommit(t) PROVE TimerInv'
  <2>1. PICK pc \in Step : Moves(t, pc) /\ pc # "setttl"
    BY <1>3, GotoMoves DEF LoadClosed, VoteCommit, Step, Voting
  <2> QED BY <1>3, <2>1, TimerSame DEF LoadClosed, VoteCommit, At
<1>4. ASSUME NEW t \in Thread, VotePropose(t) PROVE TimerInv'
  <2>1. PICK pc \in Step : Moves(t, pc) /\ (pc = "setttl" <=> proposed = {})
    BY <1>4, GotoMoves DEF VotePropose, Step
  <2>2. /\ proposed # {} => proposed' # {}
        /\ thread[t].pc = "pvote" /\ UNCHANGED <<closed, err, timer, place>>
    BY <1>4 DEF VotePropose, At
  <2>3. CASE proposed # {}
    BY <2>1, <2>2, <2>3, TimerSame
  <2>4. CASE proposed = {}
    <3>1. timer = "none" /\ \A u \in Thread : thread[u].pc # "setttl"
      BY <2>4 DEF TimerInv
    <3>2. \A u \in Thread : thread'[u].pc = "setttl" => u = t
      BY <2>1, <3>1 DEF Moves
    <3>3. \A u \in Thread : thread[u].pc = "seterr" => thread'[u].pc = "seterr"
      BY <2>1, <2>2 DEF Moves
    <3>4. proposed' # {}
      BY <1>4 DEF VotePropose, At, VoterInv, Voting
    <3> QED BY <2>2, <3>1, <3>2, <3>3, <3>4 DEF TimerInv
  <2> QED BY <2>3, <2>4
<1>5. ASSUME NEW t \in Thread, SetTTL(t) PROVE TimerInv'
  <2>1. Moves(t, "idle")
    BY <1>5, GotoMoves DEF SetTTL, Step
  <2>2. thread[t].pc = "setttl" /\ timer' = "armed" /\ UNCHANGED <<proposed, closed, err, place>>
    BY <1>5 DEF SetTTL, At
  <2>3. timer = "none" /\ proposed # {} /\ \A u \in Thread \ {t} : thread[u].pc # "setttl"
    BY <2>2 DEF TimerInv
  <2>4. \A u \in Thread : thread'[u].pc # "setttl"
    BY <2>1, <2>3 DEF Moves
  <2>5. \A u \in Thread : thread[u].pc = "seterr" => thread'[u].pc = "seterr"
    BY <2>1, <2>2 DEF Moves
  <2> QED BY <2>2, <2>3, <2>4, <2>5 DEF TimerInv
<1>6. ASSUME NEW t \in Thread, CheckVotesAndCommit(t) PROVE TimerInv'
  <2>1. PICK pc \in Step : Moves(t, pc) /\ pc # "setttl"
    BY <1>6, GotoMoves, CloseMoves, ReadMoves
       DEF CheckVotesAndCommit, CompareCommits, AppendEntry, Step, Closing, Result, Err
  <2>2. /\ thread[t].pc # "seterr" /\ UNCHANGED <<proposed, closed, err, timer>>
        /\ place = "ours" => place' = "ours"
    BY <1>6 DEF CheckVotesAndCommit, ReadProposals, CompareCommits, AppendEntry, At
  <2> QED BY <2>1, <2>2, TimerSame
<1>7. ASSUME NEW t \in Thread, CloseLoad(t) \/ CloseSignal(t) PROVE TimerInv'
  <2>1. PICK pc \in Step : Moves(t, pc) /\ pc # "setttl"
    BY <1>7, GotoMoves DEF CloseLoad, CloseSignal, Step, Closing
  <2> QED BY <1>7, <2>1, TimerSame DEF CloseLoad, CloseSignal, At
<1>8. ASSUME NEW t \in Thread, CloseStop(t) PROVE TimerInv'
  <2>1. CASE timer = "none"
    BY <1>8, <2>1 DEF CloseStop, TimerInv
  <2>2. CASE timer # "none"
    <3>1. Moves(t, "store")
      BY <1>8, <2>2, GotoMoves DEF CloseStop, Step, Closing
    <3>2. /\ timer' # "none"
          /\ timer \in {"sending", "over"} => timer' = timer
          /\ thread[t].pc = "stop" /\ UNCHANGED <<proposed, closed, err, place>>
      BY <1>8, <2>2 DEF CloseStop, At
    <3>3. /\ \A u \in Thread : thread'[u].pc # "setttl"
          /\ \A u \in Thread : thread[u].pc = "seterr" => thread'[u].pc = "seterr"
      BY <2>2, <3>1, <3>2 DEF Moves, TimerInv
    <3> QED BY <2>2, <3>2, <3>3 DEF TimerInv
  <2> QED BY <2>1, <2>2
<1>9. ASSUME NEW t \in Thread, CloseStore(t) PROVE TimerInv'
  <2>1. Moves(t, "seterr") /\ UNCHANGED <<proposed, err, timer, place>>
    BY <1>9, GotoMoves DEF CloseStore, Step, Closing
  <2>2. \A u \in Thread : thread'[u].pc = "setttl" => thread[u].pc = "setttl"
    BY <2>1 DEF Moves
  <2>3. \E u \in Thread : thread'[u].pc = "seterr"
    BY <2>1 DEF Moves
  <2> QED BY <2>1, <2>2, <2>3 DEF TimerInv
<1>10. ASSUME NEW t \in Thread, CloseSetErr(t) PROVE TimerInv'
  <2>1. Moves(t, "signal") /\ UNCHANGED <<proposed, closed, timer, place>>
    BY <1>10, GotoMoves DEF CloseSetErr, Step, Closing
  <2>2. \A u \in Thread : thread'[u].pc = "setttl" => thread[u].pc = "setttl"
    BY <2>1 DEF Moves
  <2>3. err' # "nil" \/ place' = "ours"
    <3>1. thread[t].res = "nil" => t \in Reporting
      BY <1>10 DEF CloseSetErr, At, Reporting, Closing
    <3> QED BY <1>10, <3>1 DEF CloseSetErr, SuccessInv
  <2> QED BY <2>1, <2>2, <2>3 DEF TimerInv
<1>11. CASE TimerRuns
  <2>1. timer # "none" /\ timer' # "none" /\ (closed' => closed \/ timer' = "sending")
        /\ (timer \in {"sending", "over"} => timer' \in {"sending", "over"})
        /\ UNCHANGED <<proposed, err, place, thread>>
    BY <1>11 DEF TimerRuns
  <2> QED BY <2>1 DEF TimerInv
<1>12. CASE RivalAppended \/ (\E w \in Waiter : CallWait(w) \/ Wait(w)) \/ UNCHANGED vars
  <2>1. UNCHANGED <<proposed, closed, err, timer, thread>> /\ (place = "ours" => place' = "ours")
    BY <1>12 DEF RivalAppended, CallWait, Wait, vars
  <2> QED BY <2>1 DEF TimerInv
<1> QED BY <1>1, <1>2, <1>3, <1>4, <1>5, <1>6, <1>7, <1>8, <1>9, <1>10, <1>11, <1>12
           DEF Next, Vote, Close

LEMMA InvStep == IInv /\ [Next]_vars => IInv'
  BY TypeStep, CountStep, SuccessStep, VoterStep, TimerStep DEF IInv

LEMMA BallotInvariant == Spec => []IInv
<1> QED BY InitInv, InvStep, PTL DEF Spec

-----------------------------------------------------------------------------
\* Every variable keeps its type, and neither channel gets more signals than it
\* has room for (newBallot, close).
THEOREM TypeCorrect == Spec => []TypeOK
<1>1. IInv => TypeOK
  BY DEF IInv
<1> QED BY <1>1, BallotInvariant, PTL

\* A success returned by Wait stands for an entry in the log and all votes of both
\* kinds, although checkVotesAndCommit reads the two counts one after the other.
THEOREM SuccessMeansCommitted == Spec => []SuccessIsCommitted
<1>1. IInv => SuccessIsCommitted
  <2> SUFFICES ASSUME IInv, place # "ours" PROVE ~(Successes > 0)
    BY DEF IInv, SuccessInv, SuccessIsCommitted
  <2>1. done = 0 /\ Told = {}
    BY DEF IInv, SuccessInv
  <2> QED BY <2>1, FS_EmptySet DEF Successes, Told
<1> QED BY <1>1, BallotInvariant, PTL

\* However many handlers find the last vote and however many callers wait, one success
\* is signalled at most (checkVotesAndCommit, close, Wait).
THEOREM SuccessIsUnique == Spec => []OneSuccess
<1>1. IInv => OneSuccess
  <2> SUFFICES ASSUME IInv PROVE OneSuccess
    OBVIOUS
  <2>1. CASE Told = {}
    BY <2>1, FS_EmptySet DEF IInv, SuccessInv, OneSuccess, Successes, Told
  <2>2. CASE Told # {}
    <3>1. PICK w : Told = {w}
      BY <2>2 DEF IInv, SuccessInv
    <3>2. Cardinality(Told) = 1
      BY <3>1, FS_Singleton
    <3>3. done = 0
      BY <2>2 DEF IInv, SuccessInv
    <3> QED BY <3>2, <3>3 DEF OneSuccess, Successes, Told
  <2> QED BY <2>1, <2>2
<1> QED BY <1>1, BallotInvariant, PTL

\* A closed ballot whose Error() is nil has its entry in the log or was ended by the TTL
\* timer, once nobody is closing it (close, setTTL).
THEOREM NilMeansDone == Spec => []NilErrorExplained
<1>1. IInv => NilErrorExplained
  BY DEF IInv, TimerInv, NilErrorExplained, Settled, Closing
<1> QED BY <1>1, BallotInvariant, PTL

-----------------------------------------------------------------------------
(* The signals of a closed ballot.                                         *)

\* The handlers that are going to close the ballot, those of them that have stopped the
\* timer, and the signals: in the channels, and one if Wait has returned one.
Leaving == {"store", "seterr", "signal"}
Pending == {t \in Thread : thread[t].pc \in Leaving \cup {"stop"}}
Signals == done + Len(errc) + One(Served)
TimerSends == timer \in {"fired", "sending"}

\* Nobody signals before the ballot is closed.  It is closed when the timer has fired or
\* cannot fire any more, and who finds it closed does not signal: there is one signal at
\* most for each handler that found it open, and one for the timer if it has fired.
ClosedInv ==
    /\ ~closed => /\ Signals = 0 /\ timer \notin {"sending", "over"}
                  /\ \A t \in Thread : thread[t].pc \notin {"seterr", "signal"}
    /\ closed => timer \notin {"none", "armed"}
    /\ \A t \in Thread : thread[t].pc \in Leaving => timer \notin {"none", "armed"}
    /\ IsFiniteSet(through) /\ Pending \subseteq through
    /\ closed => Signals + Cardinality(Pending) + One(TimerSends) <= Cardinality(through) + One(Fired)

\* A ballot with a vote has a timer or is about to have one, and who stops the timer, or
\* the timer that has run, signals.
SignalInv ==
    /\ proposed # {} /\ timer = "none" => \E t \in Thread : thread[t].pc = "setttl"
    /\ timer = "stopped" => Signals > 0 \/ \E t \in Thread : thread[t].pc \in Leaving
    /\ timer = "over" => Signals > 0

LEMMA SignalsType ==
    ASSUME TypeOK
    PROVE  /\ Signals \in Nat /\ done \in Nat /\ Len(errc) \in Nat
           /\ One(Served) \in {0, 1} /\ One(TimerSends) \in {0, 1} /\ One(Fired) \in {0, 1}
           /\ Capacity \in Nat /\ Capacity > 1 /\ Capacity = Cardinality(Voter)
<1>1. Capacity \in Nat /\ Capacity > 1 /\ Capacity = Cardinality(Voter)
  BY VotersAssumption, FS_CardinalityType DEF Capacity
<1>2. done \in Nat /\ Len(errc) \in Nat
  BY <1>1 DEF TypeOK
<1> QED BY <1>1, <1>2 DEF Signals, One

LEMMA PendingCount ==
    ASSUME IsFiniteSet(through), NEW P \in SUBSET through
    PROVE  /\ Cardinality(P) \in Nat /\ Cardinality(through) \in Nat
           /\ Cardinality(P) <= Cardinality(through)
           /\ \A t \in P : Cardinality(P \ {t}) = Cardinality(P) - 1
           /\ P # {} => Cardinality(P) > 0
<1>1. IsFiniteSet(P) /\ Cardinality(P) <= Cardinality(through)
  BY FS_Subset
<1>2. Cardinality(P) \in Nat /\ Cardinality(through) \in Nat
  BY <1>1, FS_CardinalityType
<1>3. \A t \in P : Cardinality(P \ {t}) = Cardinality(P) - 1
  BY <1>1, FS_RemoveElement
<1>4. P # {} => Cardinality(P) > 0
  BY <1>1, <1>2, FS_EmptySet
<1> QED BY <1>1, <1>2, <1>3, <1>4

\* Who moves.
LEMMA PendingMoves ==
    ASSUME NEW t \in Thread, NEW pc, Moves(t, pc)
    PROVE  /\ Pending' = IF pc \in Leaving \cup {"stop"} THEN Pending \cup {t} ELSE Pending \ {t}
           /\ \A u \in Thread : thread'[u].pc = IF u = t THEN pc ELSE thread[u].pc
<1>1. \A u \in Thread : thread'[u].pc = IF u = t THEN pc ELSE thread[u].pc
  BY DEF Moves
<1> QED BY <1>1 DEF Pending

\* A handler that is not closing the ballot.
LEMMA SignalsSame ==
    ASSUME ClosedInv, SignalInv, NEW t \in Thread, NEW pc, Moves(t, pc),
           pc \notin Leaving \cup {"stop"}, thread[t].pc \notin Leaving \cup {"stop", "setttl"},
           UNCHANGED <<closed, timer, done, errc, waiter, through>>,
           proposed = {} => proposed' = {} \/ pc = "setttl"
    PROVE  ClosedInv' /\ SignalInv'
<1>1. \A u \in Thread : thread'[u].pc = IF u = t THEN pc ELSE thread[u].pc
  BY PendingMoves
<1>2. Pending' = Pending
  <2>1. t \notin Pending /\ Pending' = Pending \ {t}
    BY PendingMoves DEF Pending
  <2> QED BY <2>1
<1>3. Signals' = Signals /\ TimerSends' = TimerSends /\ Fired' = Fired
  BY DEF Signals, Served, One, TimerSends, Fired
<1>4. ClosedInv'
  BY <1>1, <1>2, <1>3 DEF ClosedInv, One, Leaving
<1>5. SignalInv'
  BY <1>1, <1>3 DEF SignalInv, Leaving
<1> QED BY <1>4, <1>5

\* Nobody has signalled before the ballot is closed.
LEMMA FirstSignals ==
    ASSUME TypeOK, ClosedInv
    PROVE  Signals + Cardinality(Pending) + One(TimerSends) <= Cardinality(through) + One(Fired)
<1>1. CASE closed
  BY <1>1 DEF ClosedInv
<1>2. CASE ~closed
  <2>1. Signals = 0 /\ One(TimerSends) \in {0, 1} /\ One(Fired) \in {0, 1}
    BY <1>2, SignalsType DEF ClosedInv
  <2>2. One(TimerSends) <= One(Fired)
    BY DEF One, TimerSends, Fired
  <2>3. /\ Cardinality(Pending) \in Nat /\ Cardinality(through) \in Nat
        /\ Cardinality(Pending) <= Cardinality(through)
    BY PendingCount DEF ClosedInv
  <2> HIDE DEF Signals, One, Pending, TimerSends, Fired
  <2> QED BY <2>1, <2>2, <2>3
<1> QED BY <1>1, <1>2

LEMMA CloseSteps ==
    ASSUME TypeOK, TimerInv, ClosedInv, SignalInv, NEW t \in Thread, SetTTL(t) \/ Close(t)
    PROVE  ClosedInv' /\ SignalInv'
<1>0. UNCHANGED <<proposed, waiter>> /\ Served' = Served
  BY DEF SetTTL, Close, CloseLoad, CloseStop, CloseStore, CloseSetErr, CloseSignal, Served
<1>1. CASE SetTTL(t)
  <2>1. Moves(t, "idle") /\ thread[t].pc = "setttl" /\ timer' = "armed"
        /\ UNCHANGED <<closed, done, errc, through>>
    BY <1>1, GotoMoves DEF SetTTL, At, Step
  <2>2. timer = "none"
    BY <2>1 DEF TimerInv
  <2>3. ~closed /\ \A u \in Thread : thread[u].pc \notin Leaving
    BY <2>2 DEF ClosedInv
  <2>4. \A u \in Thread : thread'[u].pc = IF u = t THEN "idle" ELSE thread[u].pc
    BY <2>1, PendingMoves
  <2>5. Signals' = Signals
    BY <1>0, <2>1 DEF Signals, One
  <2>6. Pending' = Pending \ {t}
    BY <2>1, PendingMoves DEF Leaving
  <2> QED BY <2>1, <2>2, <2>3, <2>4, <2>5, <2>6 DEF ClosedInv, SignalInv, Leaving
<1>2. CASE CloseLoad(t)
  <2>1. PICK pc \in {"idle", "stop"} : Moves(t, pc) /\ (pc = "stop" <=> ~closed)
    BY <1>2, GotoMoves DEF CloseLoad, Step, Closing
  <2>2. thread[t].pc = "load" /\ UNCHANGED <<closed, timer, done, errc>>
    BY <1>2 DEF CloseLoad, At
  <2>3. CASE pc = "idle"
    <3>1. through' = through
      BY <1>2, <2>1, <2>3 DEF CloseLoad
    <3> QED BY <1>0, <2>1, <2>2, <2>3, <3>1, SignalsSame DEF Leaving
  <2>4. CASE pc = "stop"
    <3>1. \A u \in Thread : thread'[u].pc = IF u = t THEN "stop" ELSE thread[u].pc
      BY <2>1, <2>4, PendingMoves
    <3>2. Signals' = Signals /\ ~closed'
      BY <1>0, <2>1, <2>2, <2>4 DEF Signals, One
    <3>3. through' = through \cup {t} /\ Pending' = Pending \cup {t}
      BY <1>2, <2>1, <2>4, PendingMoves DEF CloseLoad
    <3>4. IsFiniteSet(through') /\ Pending' \subseteq through'
      BY <3>3, FS_AddElement DEF ClosedInv
    <3> QED BY <1>0, <2>2, <3>1, <3>2, <3>4 DEF ClosedInv, SignalInv, Leaving
  <2> QED BY <2>1, <2>3, <2>4
<1>3. CASE CloseStop(t)
  <2>1. thread[t].pc = "stop" /\ UNCHANGED <<closed, done, errc, through>>
    BY <1>3 DEF CloseStop, At
  <2>2. Signals' = Signals
    BY <1>0, <2>1 DEF Signals, One
  <2>3. CASE timer = "none"
    <3>1. UNCHANGED <<thread, timer>>
      BY <1>3, <2>3 DEF CloseStop
    <3> QED BY <1>0, <2>1, <2>2, <3>1 DEF ClosedInv, SignalInv, Pending, TimerSends, Fired
  <2>4. CASE timer # "none"
    <3>1. Moves(t, "store") /\ timer' = IF timer = "armed" THEN "stopped" ELSE timer
      BY <1>3, <2>4, GotoMoves DEF CloseStop, Step, Closing
    <3>2. \A u \in Thread : thread'[u].pc = IF u = t THEN "store" ELSE thread[u].pc
      BY <3>1, PendingMoves
    <3>3. Pending' = Pending
      BY <2>1, <3>1, PendingMoves DEF Pending, Leaving
    <3>4. TimerSends' = TimerSends /\ Fired' = Fired /\ timer' \notin {"none", "armed"}
      BY <2>4, <3>1 DEF TimerSends, Fired
    <3>5. ClosedInv'
      BY <2>1, <2>2, <3>1, <3>2, <3>3, <3>4 DEF ClosedInv, Leaving, One
    <3>6. SignalInv'
      BY <2>2, <2>4, <3>1, <3>2 DEF SignalInv, Leaving
    <3> QED BY <3>5, <3>6
  <2> QED BY <2>3, <2>4
<1>4. CASE CloseStore(t)
  <2>1. Moves(t, "seterr") /\ thread[t].pc = "store" /\ closed' = TRUE
        /\ UNCHANGED <<timer, done, errc, through>>
    BY <1>4, GotoMoves DEF CloseStore, At, Step, Closing
  <2>2. \A u \in Thread : thread'[u].pc = IF u = t THEN "seterr" ELSE thread[u].pc
    BY <2>1, PendingMoves
  <2>3. Pending' = Pending
    BY <2>1, PendingMoves DEF Pending, Leaving
  <2>4. Signals' = Signals /\ TimerSends' = TimerSends /\ Fired' = Fired
    BY <1>0, <2>1 DEF Signals, One, TimerSends, Fired
  <2>5. timer \notin {"none", "armed"}
    BY <2>1 DEF ClosedInv, Leaving
  <2>6. Signals + Cardinality(Pending) + One(TimerSends) <= Cardinality(through) + One(Fired)
    BY FirstSignals
  <2>7. ClosedInv'
    BY <2>1, <2>2, <2>3, <2>4, <2>5, <2>6 DEF ClosedInv, One
  <2>8. SignalInv'
    BY <1>0, <2>1, <2>2, <2>4 DEF SignalInv, Leaving
  <2> QED BY <2>7, <2>8
<1>5. CASE CloseSetErr(t)
  <2>1. Moves(t, "signal") /\ thread[t].pc = "seterr"
        /\ UNCHANGED <<closed, timer, done, errc, through>>
    BY <1>5, GotoMoves DEF CloseSetErr, At, Step, Closing
  <2>2. \A u \in Thread : thread'[u].pc = IF u = t THEN "signal" ELSE thread[u].pc
    BY <2>1, PendingMoves
  <2>3. Pending' = Pending
    BY <2>1, PendingMoves DEF Pending, Leaving
  <2>4. Signals' = Signals /\ TimerSends' = TimerSends /\ Fired' = Fired
    BY <1>0, <2>1 DEF Signals, One, TimerSends, Fired
  <2>5. closed
    BY <2>1 DEF ClosedInv
  <2>6. ClosedInv'
    BY <2>1, <2>2, <2>3, <2>4, <2>5 DEF ClosedInv, One, Leaving
  <2>7. SignalInv'
    BY <1>0, <2>1, <2>2, <2>4 DEF SignalInv, Leaving
  <2> QED BY <2>6, <2>7
<1>6. CASE CloseSignal(t)
  <2>1. Moves(t, "idle") /\ thread[t].pc = "signal" /\ UNCHANGED <<closed, timer, through>>
    BY <1>6, GotoMoves DEF CloseSignal, At, Step, Closing
  <2>2. done' + Len(errc') = done + Len(errc) + 1
    <3>1. CASE thread[t].res = "nil"
      BY <1>6, <3>1, SignalsType DEF CloseSignal
    <3>2. CASE thread[t].res # "nil"
      <4>1. errc \in Seq(Err) /\ thread[t].res \in Err
        BY <3>2, VoterType DEF TypeOK, Result
      <4>2. errc' = Append(errc, thread[t].res) /\ done' = done
        BY <1>6, <3>2 DEF CloseSignal, Send
      <4> QED BY <4>1, <4>2, SignalsType
    <3> QED BY <3>1, <3>2
  <2>3. Signals' = Signals + 1
    <3>1. done' + Len(errc') + One(Served) = done + Len(errc) + 1 + One(Served)
      BY <2>2
    <3> QED BY <1>0, <3>1, SignalsType DEF Signals
  <2>4. \A u \in Thread : thread'[u].pc = IF u = t THEN "idle" ELSE thread[u].pc
    BY <2>1, PendingMoves
  <2>5. Pending' = Pending \ {t} /\ t \in Pending
    <3>1. Pending' = IF "idle" \in Leaving \cup {"stop"} THEN Pending \cup {t} ELSE Pending \ {t}
      BY <2>1, PendingMoves
    <3> QED BY <2>1, <3>1 DEF Pending, Leaving
  <2>6. TimerSends' = TimerSends /\ Fired' = Fired
    BY <2>1 DEF TimerSends, Fired
  <2>7. closed
    BY <2>1 DEF ClosedInv
  <2>8. Signals' + Cardinality(Pending') + One(TimerSends') <= Cardinality(through) + One(Fired)
    <3>1. Signals + Cardinality(Pending) + One(TimerSends) <= Cardinality(through) + One(Fired)
      BY <2>7 DEF ClosedInv
    <3>2. Cardinality(Pending') = Cardinality(Pending) - 1 /\ Cardinality(Pending) \in Nat
          /\ Cardinality(through) \in Nat
      BY <2>5, PendingCount DEF ClosedInv
    <3>3. Signals \in Nat /\ One(TimerSends) \in {0, 1} /\ One(TimerSends') = One(TimerSends)
          /\ One(Fired) \in {0, 1}
      BY <2>6, SignalsType
    <3> HIDE DEF Signals, One, Pending
    <3> QED BY <2>3, <3>1, <3>2, <3>3
  <2>11. Pending' \subseteq through'
    BY <2>1, <2>5 DEF ClosedInv
  <2>9. ClosedInv'
    BY <2>1, <2>4, <2>6, <2>7, <2>8, <2>11 DEF ClosedInv, Leaving, One
  <2>10. SignalInv'
    BY <1>0, <2>1, <2>3, <2>4, SignalsType DEF SignalInv, Leaving
  <2> QED BY <2>9, <2>10
<1> QED BY <1>1, <1>2, <1>3, <1>4, <1>5, <1>6 DEF Close

LEMMA VoteSteps ==
    ASSUME TypeOK, ClosedInv, SignalInv, NEW t \in Thread,
           \/ \E v \in Voter, call \in {"propose", "commit"} : StartVote(t, call, v)
           \/ StartClose(t)
           \/ LoadClosed(t) \/ VotePropose(t) \/ VoteCommit(t)
           \/ CheckVotesAndCommit(t)
    PROVE  ClosedInv' /\ SignalInv'
<1>1. /\ UNCHANGED <<closed, timer, done, errc, waiter, through>>
      /\ thread[t].pc \notin Leaving \cup {"stop", "setttl"}
  BY DEF StartVote, StartClose, LoadClosed, VotePropose, VoteCommit, CheckVotesAndCommit,
         ReadProposals, CompareCommits, AppendEntry, At, Leaving
<1>2. \E pc : /\ Moves(t, pc) /\ pc \notin Leaving \cup {"stop"}
              /\ proposed = {} => proposed' = {} \/ pc = "setttl"
  <2>1. CASE \E v \in Voter, call \in {"propose", "commit"} : StartVote(t, call, v)
    <3>1. PICK v \in Voter, call \in {"propose", "commit"} : StartVote(t, call, v)
      BY <2>1
    <3>2. Moves(t, call) /\ proposed' = proposed
      BY <3>1, VoteMoves DEF StartVote
    <3> QED BY <3>2 DEF Leaving
  <2>2. CASE StartClose(t)
    <3>1. Moves(t, "load") /\ proposed' = proposed
      BY <2>2, CloseMoves DEF StartClose, Result, Err
    <3> QED BY <3>1 DEF Leaving
  <2>3. CASE LoadClosed(t)
    <3>1. PICK pc \in {"idle", "pvote", "cvote"} : Moves(t, pc) /\ proposed' = proposed
      BY <2>3, GotoMoves DEF LoadClosed, Step, Voting
    <3> QED BY <3>1 DEF Leaving
  <2>4. CASE VotePropose(t)
    <3>1. PICK pc \in {"setttl", "check", "idle"} :
             Moves(t, pc) /\ (proposed = {} => pc = "setttl")
      BY <2>4, GotoMoves DEF VotePropose, Step
    <3> QED BY <3>1 DEF Leaving
  <2>5. CASE VoteCommit(t)
    <3>1. PICK pc \in {"check", "idle"} : Moves(t, pc) /\ proposed' = proposed
      BY <2>5, GotoMoves DEF VoteCommit, Step
    <3> QED BY <3>1 DEF Leaving
  <2>6. CASE CheckVotesAndCommit(t)
    <3>1. PICK pc \in {"compare", "append", "idle", "load"} : Moves(t, pc) /\ proposed' = proposed
      BY <2>6, GotoMoves, CloseMoves, ReadMoves
         DEF CheckVotesAndCommit, ReadProposals, CompareCommits, AppendEntry, Step, Closing,
             Result, Err
    <3> QED BY <3>1 DEF Leaving
  <2> QED BY <2>1, <2>2, <2>3, <2>4, <2>5, <2>6
<1> QED BY <1>1, <1>2, SignalsSame

LEMMA TimerSignals ==
    ASSUME TypeOK, ClosedInv, SignalInv, TimerRuns
    PROVE  ClosedInv' /\ SignalInv'
<1>1. /\ UNCHANGED <<proposed, done, thread, waiter, through>>
      /\ Pending' = Pending /\ One(Served') = One(Served)
  BY DEF TimerRuns, Pending, Served, One
<1>2. CASE timer = "armed"
  <2>1. timer' = "fired" /\ UNCHANGED <<closed, errc>> /\ ~closed
    BY <1>2 DEF TimerRuns, ClosedInv
  <2>2. Signals' = Signals
    BY <1>1, <2>1 DEF Signals, One
  <2> QED BY <1>1, <1>2, <2>1, <2>2 DEF ClosedInv, SignalInv
<1>3. CASE timer = "fired"
  <2>1. timer' = "sending" /\ closed' /\ UNCHANGED errc
    BY <1>3 DEF TimerRuns
  <2>2. Signals' = Signals /\ One(TimerSends') = One(TimerSends) /\ One(Fired') = One(Fired)
    BY <1>1, <1>3, <2>1 DEF Signals, One, TimerSends, Fired
  <2>3. Signals + Cardinality(Pending) + One(TimerSends) <= Cardinality(through) + One(Fired)
    BY FirstSignals
  <2>4. ClosedInv'
    BY <1>1, <2>1, <2>2, <2>3 DEF ClosedInv, Leaving
  <2> QED BY <1>1, <1>3, <2>1, <2>2, <2>4 DEF SignalInv
<1>4. CASE timer = "sending"
  <2>1. timer' = "over" /\ UNCHANGED closed /\ Send("timedout") /\ closed
    BY <1>4 DEF TimerRuns, ClosedInv
  <2>2. Len(errc') = Len(errc) + 1
    <3>1. errc \in Seq(Err) /\ errc' = Append(errc, "timedout") /\ "timedout" \in Err
      BY <2>1 DEF TypeOK, Send, Err
    <3> QED BY <3>1
  <2>3. Signals' = Signals + 1
    <3>1. done' + Len(errc') + One(Served') = done + Len(errc) + 1 + One(Served)
      <4>1. One(Served') = One(Served) /\ done' = done
        BY <1>1
      <4> HIDE DEF One, Served
      <4> QED BY <2>2, <4>1, SignalsType
    <3> QED BY <3>1, SignalsType DEF Signals
  <2>4. One(TimerSends) = 1 /\ One(TimerSends') = 0 /\ One(Fired') = One(Fired)
    BY <1>4, <2>1 DEF One, TimerSends, Fired
  <2>5. Signals' + Cardinality(Pending') + One(TimerSends') <= Cardinality(through) + One(Fired)
    <3>1. Signals + Cardinality(Pending) + One(TimerSends) <= Cardinality(through) + One(Fired)
      BY <2>1 DEF ClosedInv
    <3>2. Cardinality(Pending) \in Nat /\ Cardinality(through) \in Nat /\ Signals \in Nat
          /\ One(Fired) \in {0, 1}
      BY PendingCount, SignalsType DEF ClosedInv
    <3>3. Pending' = Pending
      BY <1>1
    <3> HIDE DEF Signals, One, Pending
    <3> QED BY <2>3, <2>4, <3>1, <3>2, <3>3
  <2>6. ClosedInv'
    BY <1>1, <2>1, <2>4, <2>5 DEF ClosedInv
  <2>7. SignalInv'
    BY <1>1, <2>1, <2>3, SignalsType DEF SignalInv
  <2> QED BY <2>6, <2>7
<1> QED BY <1>2, <1>3, <1>4 DEF TimerRuns

LEMMA WaitSignals ==
    ASSUME TypeOK, ClosedInv, SignalInv, NEW w \in Waiter, Wait(w)
    PROVE  ClosedInv' /\ SignalInv'
<1>1. /\ UNCHANGED <<proposed, closed, timer, thread, through>>
      /\ Pending' = Pending /\ TimerSends' = TimerSends /\ Fired' = Fired
  BY DEF Wait, Pending, TimerSends, Fired
<1>2. done' + Len(errc') + 1 = done + Len(errc) /\ done' \in Nat /\ Len(errc') \in Nat
  <2>1. CASE done > 0 /\ done' = done - 1 /\ UNCHANGED errc
    BY <2>1, SignalsType
  <2>2. CASE errc # <<>> /\ errc' = Tail(errc) /\ UNCHANGED done
    <3>1. errc \in Seq(Err)
      BY DEF TypeOK
    <3>2. Len(errc') = Len(errc) - 1 /\ Len(errc) > 0
      BY <2>2, <3>1
    <3> QED BY <2>2, <3>2, SignalsType
  <2> QED BY <2>1, <2>2 DEF Wait
<1>3. Served'
  <2>1. waiter'[w] \in Result
    <3>1. waiter' = [waiter EXCEPT ![w] = "nil"] \/ waiter' = [waiter EXCEPT ![w] = Head(errc)]
      BY DEF Wait
    <3>2. errc # <<>> => Head(errc) \in Result
      <4>1. errc \in Seq(Err)
        BY DEF TypeOK
      <4> QED BY <4>1 DEF Result
    <3>3. \/ waiter' = [waiter EXCEPT ![w] = "nil"]
          \/ errc # <<>> /\ waiter' = [waiter EXCEPT ![w] = Head(errc)]
      BY DEF Wait
    <3>4. DOMAIN waiter = Waiter
      BY DEF TypeOK
    <3> QED BY <3>2, <3>3, <3>4 DEF Result
  <2> QED BY <2>1 DEF Served
<1>4. Signals' > 0 /\ Signals' \in Nat /\ Signals' <= Signals /\ Signals > 0 /\ Signals \in Nat
  <2>1. One(Served') = 1
    BY <1>3 DEF One
  <2> QED BY <1>2, <2>1, SignalsType DEF Signals
<1>5. closed
  BY <1>4 DEF ClosedInv
<1>6. Signals' + Cardinality(Pending') + One(TimerSends') <= Cardinality(through) + One(Fired)
  <2>1. Signals + Cardinality(Pending) + One(TimerSends) <= Cardinality(through) + One(Fired)
    BY <1>5 DEF ClosedInv
  <2>2. Cardinality(Pending) \in Nat /\ Cardinality(through) \in Nat /\ One(Fired) \in {0, 1}
        /\ One(TimerSends) \in {0, 1} /\ One(TimerSends') = One(TimerSends) /\ Pending' = Pending
    BY <1>1, PendingCount, SignalsType DEF ClosedInv
  <2> HIDE DEF Signals, One, Pending, TimerSends
  <2> QED BY <1>4, <2>1, <2>2
<1>7. ClosedInv'
  BY <1>1, <1>5, <1>6 DEF ClosedInv
<1>8. SignalInv'
  BY <1>1, <1>4 DEF SignalInv
<1> QED BY <1>7, <1>8

LEMMA SignalsInit == Init => ClosedInv /\ SignalInv
<1> SUFFICES ASSUME Init PROVE ClosedInv /\ SignalInv
  OBVIOUS
<1>1. \A t \in Thread : thread[t].pc = "idle"
  BY IdleState DEF Init
<1>2. Signals = 0
  <2>1. ~Served /\ done = 0 /\ errc = <<>>
    BY DEF Init, Served, Result, Err
  <2> QED BY <2>1 DEF Signals, One
<1>3. Pending = {} /\ IsFiniteSet(through)
  BY <1>1, FS_EmptySet DEF Init, Pending, Leaving
<1> QED BY <1>1, <1>2, <1>3 DEF Init, ClosedInv, SignalInv, Leaving

LEMMA SignalsStep == IInv /\ ClosedInv /\ SignalInv /\ [Next]_vars => ClosedInv' /\ SignalInv'
<1> SUFFICES ASSUME TypeOK, TimerInv, ClosedInv, SignalInv, [Next]_vars
             PROVE  ClosedInv' /\ SignalInv'
  BY DEF IInv
<1>1. CASE RivalAppended \/ (\E w \in Waiter : CallWait(w)) \/ UNCHANGED vars
  <2>1. UNCHANGED <<proposed, closed, timer, done, errc, thread, through>> /\ Served' = Served
    <3>1. CASE \E w \in Waiter : CallWait(w)
      BY <3>1 DEF CallWait, Served, TypeOK, Result, Err
    <3> QED BY <1>1, <3>1 DEF RivalAppended, vars, Served
  <2>2. Signals' = Signals /\ TimerSends' = TimerSends /\ Pending' = Pending /\ Fired' = Fired
    BY <2>1 DEF Signals, One, TimerSends, Pending, Fired
  <2> QED BY <2>1, <2>2 DEF ClosedInv, SignalInv, One
<1> QED BY <1>1, VoteSteps, CloseSteps, TimerSignals, WaitSignals DEF Next, Vote

LEMMA SignalsInvariant == Spec => [](IInv /\ ClosedInv /\ SignalInv)
<1>1. Init => IInv /\ ClosedInv /\ SignalInv
  BY InitInv, SignalsInit
<1>2. (IInv /\ ClosedInv /\ SignalInv) /\ [Next]_vars => (IInv /\ ClosedInv /\ SignalInv)'
  BY InvStep, SignalsStep
<1> QED BY <1>1, <1>2, PTL DEF Spec

\* Why the caller of Wait on a ballot with a vote gets an answer: a signal has been sent,
\* or the timer is running, or a handler is about to start it or is closing the ballot and
\* will signal itself (setTTL, close, Wait).
SignalComes ==
    proposed # {} => \/ Signals > 0 \/ timer \in {"armed", "fired", "sending"}
                     \/ \E t \in Thread : thread[t].pc \in {"setttl"} \cup Leaving

THEOREM SignalAlwaysComes == Spec => []SignalComes
<1>1. IInv /\ SignalInv => SignalComes
  <2> SUFFICES ASSUME TypeOK, SignalInv PROVE SignalComes
    BY DEF IInv
  <2>1. timer \in {"none", "armed", "stopped", "fired", "sending", "over"}
    BY DEF TypeOK
  <2> QED BY <2>1 DEF SignalInv, SignalComes
<1> QED BY <1>1, SignalsInvariant, PTL

\* Who can be stuck in close: a signal that finds no room in its channel, and nobody who
\* waits and can take one, is an error, for the success always has room, and stands
\* behind more errors than there are votes.  So the closers that got past the load, the
\* fired timer among them, outnumber the votes (newBallot, close, setTTL, Wait).
RoomFor(res) == IF res = "nil" THEN done < Capacity ELSE Len(errc) < Capacity
CanWait(w) == waiter[w] = "waiting" /\ (done > 0 \/ errc # <<>>)
Stuck(res) == ~RoomFor(res) /\ ~\E w \in Waiter : CanWait(w)
SignalsFit ==
    /\ \A t \in Thread : thread[t].pc = "signal" /\ Stuck(thread[t].res) =>
          thread[t].res # "nil" /\ Overfull
    /\ timer = "sending" /\ Stuck("timedout") => Overfull

THEOREM SignalsAlwaysFit == Spec => []SignalsFit
<1>1. IInv /\ ClosedInv => SignalsFit
  <2> SUFFICES ASSUME TypeOK, SuccessInv, ClosedInv PROVE SignalsFit
    BY DEF IInv
  <2>1. done < Capacity
    BY SignalsType DEF SuccessInv
  <2>2. ASSUME Pending # {} \/ TimerSends, NEW res, Stuck(res)
        PROVE  res # "nil" /\ Overfull
    <3>1. res # "nil" /\ Len(errc) >= Capacity
      BY <2>1, <2>2, SignalsType DEF Stuck, RoomFor
    <3>2. errc # <<>>
      BY <3>1, SignalsType
    <3>3. \A w \in Waiter : waiter[w] # "waiting"
      BY <2>2, <3>2 DEF Stuck, CanWait
    <3>4. Signals >= Capacity + One(Served)
      BY <3>1, SignalsType DEF Signals
    <3>5. closed
      <4>1. Signals > 0
        <5> HIDE DEF Signals, One
        <5> QED BY <3>4, SignalsType
      <4> QED BY <4>1 DEF ClosedInv
    <3>6. Signals + Cardinality(Pending) + One(TimerSends) <= Cardinality(through) + One(Fired)
      BY <3>5 DEF ClosedInv
    <3>7. /\ Cardinality(Pending) \in Nat /\ Cardinality(through) \in Nat
          /\ Pending # {} => Cardinality(Pending) > 0
      BY PendingCount DEF ClosedInv
    <3>8. TimerSends => One(TimerSends) = 1
      BY DEF One
    <3>9. Cardinality(through) + One(Fired) > Cardinality(Voter) + One(Served)
      <4> HIDE DEF Signals, One, Pending, TimerSends, Fired, Served
      <4> QED BY <2>2, <3>4, <3>6, <3>7, <3>8, SignalsType
    <3> QED BY <3>1, <3>3, <3>9 DEF Overfull
  <2> QED BY <2>2 DEF SignalsFit, Pending, Leaving, TimerSends
<1> QED BY <1>1, SignalsInvariant, PTL
=============================================================================

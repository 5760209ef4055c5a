------------------------------- MODULE Ballot --------------------------------
(***************************************************************************)
(* One ballot (ballot.go) under the threads that use it: the handlers that *)
(* vote and go on to checkVotesAndCommit, those that close it with an      *)
(* error, the TTL timer and the callers of Wait.  A step is an atomic      *)
(* load or store, a critical section or a channel operation, so a handler  *)
(* acts on what it read before the ballot was closed.                      *)
(*                                                                         *)
(* Abstractions: voters are peers, not positions; all errors but the one   *)
(* of the timer are "failed"; the log is reduced to who took the place of  *)
(* the entry.                                                              *)
(***************************************************************************)
EXTENDS Integers, Sequences, FiniteSets

CONSTANTS
    Voter,      \* the peers whose votes the ballot requires
    Thread,     \* handlers and broadcasters that run at the same time
    Waiter,     \* callers of Wait
    Rivals      \* whether a rival entry may take the place in the log

ASSUME VotersAssumption ==
    /\ IsFiniteSet(Voter) /\ Cardinality(Voter) > 1
    /\ Rivals \in BOOLEAN

VARIABLES
    proposed,   \* b.proposed
    committed,  \* b.committed
    closed,     \* b.closed
    err,        \* b.err
    timer,      \* b.timer
    done,       \* the number of signals in b.done
    errc,       \* the errors in b.errc
    place,      \* which entry has the place of the ballot's entry in the log
    thread,     \* what each handler is doing
    waiter,     \* what each Wait has returned
    panicked,   \* the process has died of a nil timer
    through     \* history: the handlers that found the ballot open in close

vars == <<proposed, committed, closed, err, timer, done, errc, place, thread,
          waiter, panicked, through>>

Err == {"failed", "timedout"}
Result == Err \cup {"nil"}
Voting == {"propose", "pvote", "commit", "cvote"}
Closing == {"load", "stop", "store", "seterr", "signal"}
Step == {"idle", "setttl", "check", "compare", "append"} \cup Voting \cup Closing

\* make(chan error, requiredVotes) and make(chan struct{}, requiredVotes)
Unbuffered == 1
Capacity == Cardinality(Voter)

TypeOK ==
    /\ proposed \subseteq Voter /\ committed \subseteq Voter
    /\ closed \in BOOLEAN /\ panicked \in BOOLEAN
    /\ err \in Result
    /\ timer \in {"none", "armed", "stopped", "fired", "sending", "over"}
    /\ done \in 0..Capacity
    /\ errc \in Seq(Err) /\ Len(errc) <= Capacity
    /\ place \in {"free", "ours", "rival"}
    /\ thread \in [Thread -> [pc : Step, voter : {{}} \cup {{v} : v \in Voter},
                             seen : Nat, res : Result]]
    /\ waiter \in [Waiter -> Result \cup {"absent", "waiting"}]
    /\ through \subseteq Thread

\* A handler that votes has a voter; one that compares has seen the proposals; one
\* that closes has a result.
Idle == [pc |-> "idle", voter |-> {}, seen |-> 0, res |-> "nil"]

Init ==
    /\ proposed = {} /\ committed = {}
    /\ closed = FALSE /\ err = "nil" /\ timer = "none"
    /\ done = 0 /\ errc = <<>>
    /\ place = "free"
    /\ thread = [t \in Thread |-> Idle]
    /\ waiter = [w \in Waiter |-> "absent"]
    /\ panicked = FALSE /\ through = {}

At(t, pc) == thread[t].pc = pc /\ ~panicked
Goto(t, pc) ==
    thread' = [thread EXCEPT ![t] = IF pc = "idle" THEN Idle ELSE [@ EXCEPT !.pc = pc]]
CloseWith(t, res) ==
    thread' = [thread EXCEPT ![t] = [Idle EXCEPT !.pc = "load", !.res = res]]

-----------------------------------------------------------------------------
(* Voting.                                                                 *)

\* Propose or Commit reaches the ballot with a vote.
StartVote(t, call, v) ==
    /\ At(t, "idle")
    /\ thread' = [thread EXCEPT ![t].pc = call, ![t].voter = {v}]
    /\ UNCHANGED <<proposed, committed, closed, err, timer, done, errc, place,
                   waiter, panicked, through>>

\* ballotGetClose: a broadcast failed or verifyEntry rejected the entry.
StartClose(t) ==
    /\ At(t, "idle") /\ CloseWith(t, "failed")
    /\ UNCHANGED <<proposed, committed, closed, err, timer, done, errc, place,
                   waiter, panicked, through>>

\* The atomic load of b.closed at the start of votePropose and voteCommit.
LoadClosed(t) ==
    /\ \/ At(t, "propose") /\ Goto(t, IF closed THEN "idle" ELSE "pvote")
       \/ At(t, "commit") /\ Goto(t, IF closed THEN "idle" ELSE "cvote")
    /\ UNCHANGED <<proposed, committed, closed, err, timer, done, errc, place,
                   waiter, panicked, through>>

\* The first voter holds pmu until it has set the timer.
PmuFree == \A t \in Thread : thread[t].pc # "setttl"

\* votePropose under pmu.  Whoever finds all proposals present, voting or not,
\* goes on to checkVotesAndCommit.
VotePropose(t) ==
    /\ At(t, "pvote") /\ PmuFree
    /\ proposed' = proposed \cup thread[t].voter
    /\ Goto(t, IF proposed = {} THEN "setttl"
               ELSE IF proposed' = Voter THEN "check" ELSE "idle")
    /\ UNCHANGED <<committed, closed, err, timer, done, errc, place, waiter,
                   panicked, through>>

\* Mutant of SetTTL: the timer is created but never started.
SetTTLUnstarted(t) ==
    /\ At(t, "setttl") /\ timer' = "stopped" /\ Goto(t, "idle")
    /\ UNCHANGED <<proposed, committed, closed, err, done, errc, place,
                   waiter, panicked, through>>

SetTTL(t) ==
    /\ At(t, "setttl") /\ timer' = "armed" /\ Goto(t, "idle")
    /\ UNCHANGED <<proposed, committed, closed, err, done, errc, place,
                   waiter, panicked, through>>

\* voteCommit under cmu; only a new vote can be the last one.
VoteCommit(t) ==
    /\ At(t, "cvote")
    /\ committed' = committed \cup thread[t].voter
    /\ Goto(t, IF committed' # committed /\ committed' = Voter THEN "check" ELSE "idle")
    /\ UNCHANGED <<proposed, closed, err, timer, done, errc, place, waiter,
                   panicked, through>>

-----------------------------------------------------------------------------
(* checkVotesAndCommit.                                                    *)

ReadProposals(t) ==
    /\ At(t, "check") /\ PmuFree
    /\ thread' = [thread EXCEPT ![t] = [Idle EXCEPT !.pc = "compare",
                                                   !.seen = Cardinality(proposed)]]
    /\ UNCHANGED <<proposed, committed, closed, err, timer, done, errc, place,
                   waiter, panicked, through>>

\* Mutant of CompareCommits: the commits are not counted.
CompareNothing(t) ==
    /\ At(t, "compare") /\ Goto(t, "append")
    /\ UNCHANGED <<proposed, committed, closed, err, timer, done, errc, place,
                   waiter, panicked, through>>

CompareCommits(t) ==
    /\ At(t, "compare")
    /\ Goto(t, IF thread[t].seen = Cardinality(committed) THEN "append" ELSE "idle")
    /\ UNCHANGED <<proposed, committed, closed, err, timer, done, errc, place,
                   waiter, panicked, through>>

\* Mutant of AppendEntry: an entry that is in the log already is no error.
AppendAgain(t) ==
    /\ At(t, "append")
    /\ IF place = "rival" THEN CloseWith(t, "failed") /\ UNCHANGED place
                          ELSE CloseWith(t, "nil") /\ place' = "ours"
    /\ UNCHANGED <<proposed, committed, closed, err, timer, done, errc,
                   waiter, panicked, through>>

\* The log takes the entry once, and only if no rival took its place.
AppendEntry(t) ==
    /\ At(t, "append")
    /\ IF place = "free" THEN CloseWith(t, "nil") /\ place' = "ours"
                         ELSE CloseWith(t, "failed") /\ UNCHANGED place
    /\ UNCHANGED <<proposed, committed, closed, err, timer, done, errc,
                   waiter, panicked, through>>

\* Another ballot of the key, or the healer, appends a rival entry.
RivalAppended ==
    /\ Rivals /\ ~panicked /\ place = "free" /\ place' = "rival"
    /\ UNCHANGED <<proposed, committed, closed, err, timer, done, errc,
                   thread, waiter, panicked, through>>

-----------------------------------------------------------------------------
(* close, the timer and Wait.                                              *)

\* Two closers that both load 0 both go on: the load and the store are apart.
CloseLoad(t) ==
    /\ At(t, "load") /\ Goto(t, IF closed THEN "idle" ELSE "stop")
    /\ through' = IF closed THEN through ELSE through \cup {t}
    /\ UNCHANGED <<proposed, committed, closed, err, timer, done, errc, place,
                   waiter, panicked>>

\* b.timer.Stop(): a timer that has fired goes on; a nil one kills the process.
CloseStop(t) ==
    /\ At(t, "stop")
    /\ IF timer = "none"
       THEN panicked' = TRUE /\ UNCHANGED <<timer, thread>>
       ELSE /\ timer' = IF timer = "armed" THEN "stopped" ELSE timer
            /\ Goto(t, "store") /\ UNCHANGED panicked
    /\ UNCHANGED <<proposed, committed, closed, err, done, errc, place,
                   waiter, through>>

CloseStore(t) ==
    /\ At(t, "store") /\ closed' = TRUE /\ Goto(t, "seterr")
    /\ UNCHANGED <<proposed, committed, err, timer, done, errc, place, waiter,
                   panicked, through>>

\* Mutant of CloseSetErr: b.err is only set by a successful close.
CloseKeepsErr(t) ==
    /\ At(t, "seterr") /\ Goto(t, "signal")
    /\ UNCHANGED <<proposed, committed, closed, err, timer, done, errc, place,
                   waiter, panicked, through>>

CloseSetErr(t) ==
    /\ At(t, "seterr") /\ err' = thread[t].res /\ Goto(t, "signal")
    /\ UNCHANGED <<proposed, committed, closed, timer, done, errc, place,
                   waiter, panicked, through>>

Send(e) == Len(errc) < Capacity /\ errc' = Append(errc, e)

\* A send blocks while its channel is full.
CloseSignal(t) ==
    /\ At(t, "signal")
    /\ IF thread[t].res = "nil"
       THEN done < Capacity /\ done' = done + 1 /\ UNCHANGED errc
       ELSE Send(thread[t].res) /\ UNCHANGED done
    /\ Goto(t, "idle")
    /\ UNCHANGED <<proposed, committed, closed, err, timer, place, waiter,
                   panicked, through>>

\* The function of the timer: it stores closed, sends, and never sets b.err.
TimerRuns ==
    /\ ~panicked
    /\ \/ timer = "armed" /\ timer' = "fired" /\ UNCHANGED <<closed, errc>>
       \/ timer = "fired" /\ timer' = "sending" /\ closed' = TRUE /\ UNCHANGED errc
       \/ timer = "sending" /\ timer' = "over" /\ Send("timedout") /\ UNCHANGED closed
    /\ UNCHANGED <<proposed, committed, err, done, place, thread, waiter,
                   panicked, through>>

\* Mutant of Wait: the select has a default case.
WaitPolls(w) ==
    /\ ~panicked /\ waiter[w] = "waiting"
    /\ done' = done - 1 /\ waiter' = [waiter EXCEPT ![w] = "nil"]
    /\ UNCHANGED <<proposed, committed, closed, err, timer, errc, place,
                   thread, panicked, through>>

\* The client that proposed the entry calls Wait, or ProposeRPC for it, if it wants to.
\* Nobody does on the other peers: WaitBallot is not passed on with the options.
CallWait(w) ==
    /\ ~panicked /\ waiter[w] = "absent" /\ waiter' = [waiter EXCEPT ![w] = "waiting"]
    /\ UNCHANGED <<proposed, committed, closed, err, timer, done, errc, place,
                   thread, panicked, through>>

\* Wait takes one signal, from either channel if both have one.
Wait(w) ==
    /\ ~panicked /\ waiter[w] = "waiting"
    /\ \/ /\ done > 0 /\ done' = done - 1 /\ UNCHANGED errc
          /\ waiter' = [waiter EXCEPT ![w] = "nil"]
       \/ /\ errc # <<>> /\ errc' = Tail(errc) /\ UNCHANGED done
          /\ waiter' = [waiter EXCEPT ![w] = Head(errc)]
    /\ UNCHANGED <<proposed, committed, closed, err, timer, place, thread,
                   panicked, through>>

-----------------------------------------------------------------------------
Vote(t) == LoadClosed(t) \/ VotePropose(t) \/ SetTTL(t) \/ VoteCommit(t)
CheckVotesAndCommit(t) == ReadProposals(t) \/ CompareCommits(t) \/ AppendEntry(t)
Close(t) == \/ CloseLoad(t) \/ CloseStop(t) \/ CloseStore(t) \/ CloseSetErr(t)
            \/ CloseSignal(t)

Next ==
    \/ \E t \in Thread : \/ \E v \in Voter, call \in {"propose", "commit"} :
                                StartVote(t, call, v)
                         \/ StartClose(t)
                         \/ Vote(t) \/ CheckVotesAndCommit(t) \/ Close(t)
    \/ RivalAppended \/ TimerRuns
    \/ \E w \in Waiter : CallWait(w) \/ Wait(w)

Spec == Init /\ [][Next]_vars

\* Goroutines are scheduled and the runtime runs expired timers.  Nobody has to
\* vote, to close or to call Wait.
FairSpec ==
    /\ Spec
    /\ \A t \in Thread : WF_vars(Vote(t) \/ CheckVotesAndCommit(t) \/ Close(t))
    /\ WF_vars(TimerRuns)
    /\ \A w \in Waiter : WF_vars(Wait(w))

-----------------------------------------------------------------------------
\* Nobody is between storing b.closed and signalling it.
Settled == /\ \A t \in Thread : thread[t].pc \notin Closing
           /\ timer \notin {"fired", "sending"}

Successes == done + Cardinality({w \in Waiter : waiter[w] = "nil"})

\* A success that Wait returns, or will, means that the entry is in the log with
\* all votes of both kinds, even though the counts are read one after the other
\* and the ballot may be closed meanwhile (checkVotesAndCommit).
SuccessIsCommitted ==
    Successes > 0 => place = "ours" /\ proposed = Voter /\ committed = Voter

\* However many handlers count the last vote, one of them reports success: the
\* entry is appended and handed to the FSM once (checkVotesAndCommit).
OneSuccess == Successes <= 1

\* Once nobody is closing it, a closed ballot whose Error() is nil has its entry
\* in the log, or was ended by the TTL timer (close, setTTL).
NilErrorExplained ==
    closed /\ Settled /\ err = "nil" => place = "ours" \/ timer = "over"

\* The caller of Wait on a ballot with a vote gets an answer, whoever closes the
\* ballot and whether or not the timer races with them (setTTL, close, Wait).  It
\* holds for one caller: a ballot closed once sends one value.
WaitersWake ==
    \A w \in Waiter :
        (proposed # {} /\ waiter[w] = "waiting") ~> (waiter[w] # "waiting" \/ panicked)

\* The closers that signal, the timer that has fired among them, are more than one
\* channel holds and the caller of Wait has taken, and nobody waits for the rest.
One(b) == IF b THEN 1 ELSE 0
Fired == timer \in {"fired", "sending", "over"}
Served == \E w \in Waiter : waiter[w] \in Result
Overfull ==
    /\ Cardinality(through) + One(Fired) > Cardinality(Voter) + One(Served)
    /\ \A w \in Waiter : waiter[w] # "waiting"

\* A handler gets out of close, on a peer where nobody calls Wait as on the one where
\* the client does, unless the signals are too many for errc: that takes one more than
\* the votes required, of the handlers past the load of closed and the fired timer
\* (newBallot, setTTL, close, Wait).
HandlersReturn ==
    \A t \in Thread :
        (thread[t].pc # "idle") ~> (thread[t].pc = "idle" \/ panicked \/ Overfull)
=============================================================================

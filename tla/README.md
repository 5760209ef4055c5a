# A verification of hexalog

This directory holds TLA+ specifications of [hexalog](../src/README.md), a Go
library in which the peers of a key vote on the entries of that key's log, the
TLC configurations that check them, and proofs for the TLA+ proof system (TLAPS).
`PROJECT.json` is the index: components, runs, mutants, which lines of the code a
definition stands for, findings, hazards and theorems.

## 1. The system

A *key* has a *log* of *entries*, each naming the hash of the one before it and
its height. A client asks some node for a new entry (`New`), fills it and calls
`Propose` with the set of peers of the key. There is no fixed leader.

| Component | State | Operations | Talks to |
|---|---|---|---|
| Voting: `hexalog.go`, `hexalog_utils.go` | the map of ballots | `Propose`, `Commit`, `checkVotesAndCommit`, reaper | ballots, log store, FSM queue, channels `pch` and `cch`, `hch` |
| Ballot: `ballot.go` | votes of both kinds, `closed`, `err`, timer, `done`, `errc` | `votePropose`, `voteCommit`, `close`, TTL timer, `Wait` | handlers, timer, waiters |
| Broadcasters: `broadcast.go` | one goroutine for `pch`, one for `cch` | broadcast to all peers, then `Commit`; close the ballot on the first error | transport, voting |
| Healer: `heal.go`, `leader.go` | `hch` | find the peer with the highest last entry, pull from it | transport, log store, FSM queue |
| FSM: `fsm.go` | `applyCh`, stable store | `apply`, `start`, `check` (at start) | the application, log store |
| Log store: `logstore.go`, `keylog.go`, `*keylogindex.go`, `store_*.go` | index store, key indexes, entry store | append, `NewEntry`, rollback, remove, mark | — |
| Transport: `net.go` | — | propose, commit, pull, push, seed | remote nodes |
| Connection pool: `pool.go` | a connection per host | get, return, reap, shut down | transport |
| `FutureEntry`: `future.go` | result of applying an entry | `applied`, `Wait` | FSM, clients |
| Lifecycle: `NewHexalog`, `Shutdown` | goroutines, channels | start, stop | all |

The normal course of an entry: `Propose` verifies that the entry follows the
node's last one, gets or creates a ballot, votes for the node and for the source
of the request, and broadcasts the proposal on the first vote. A peer that
receives it does the same, so that everyone hears of everyone's vote. A node
whose broadcast was accepted by all calls `Commit` on itself; the first commit
vote of a ballot is broadcast as well. Whoever counts the last vote of either
kind calls `checkVotesAndCommit`, which appends the entry, queues it for the FSM
and closes the ballot.

What is hard about it, and what makes each part correct:

* **Voting.** Nothing is locked between verifying an entry and appending it; every
  step is a race of handlers, broadcasters, timer, healer and reaper on several
  nodes. Correct means: no append without all votes, logs do not drift apart,
  exactly one hand-over to the FSM per append, a success that is one.
* **Ballot.** `closed` is read outside the lock, loaded and stored apart, and set by
  the timer as well; channels are bounded. Correct means: one success, one that
  is true, every waiter woken, nobody stuck.
* **Broadcasters, healer.** Lost answers, dead peers, cancelled requests. Correct
  means: they get back to their channel, and pulling never appends what the
  network has not accepted.
* **FSM.** A queue between log and application, and crashes. Correct means: no
  entry lost, none left out, none applied twice by one process.
* **Log store.** Several critical sections per operation. Correct means: one
  matching entry at a time, an indexed entry can be read.
* **Transfers.** Streams send under read locks, while votes append on both sides and
  other streams bring the same entries. Correct means: the receiver ends with what
  the sender had, each entry is handed over once, nobody waits for ever.
* **Channels and shutdown.** Handlers block on channels, broadcasters wait for handlers
  of other nodes, and `Shutdown` closes the channels under all of them. Correct means:
  no waiting in a circle, no entry left behind in a channel.

The full list of hazards, each at its line and with the properties aimed at it,
is under `hazards` in `PROJECT.json`.

## 2. The modules

| Module | What it is |
|---|---|
| `Entries` | the entries of a key and the hashes that chain them |
| `UnanimousLog` | the abstract promise: a peer pledges itself only to an entry whose predecessor it has; an entry is appended only when all are pledged |
| `Hexalog` | voting, broadcasters, healer, timer and reaper on all peers of one key; implements `UnanimousLog` |
| `Ballot` | one ballot, at the grain of atomic operations |
| `Fsm` | log, queue, application and stable store of one node, with crashes |
| `LogStore` | the log of one key on one node, at the grain of critical sections |
| `KeyCopies` | the abstract promise of moving logs: a log grows by voted entries or by copies from a node that is ahead |
| `Transfer` | pulls and pushes of one key, entry by entry, with the locks of its index; implements `KeyCopies` |
| `Seed` | seeding of many keys, with the lock of the index store, the channel and the workers |
| `Channels` | `pch`, `cch` and `hch` with their capacities, their goroutines on several nodes, `Shutdown` |
| `HexalogProofs`, `HexalogVotingProofs` | theorems about `Hexalog` and `UnanimousLog` |
| `BallotProofs`, `FsmProofs`, `LogStoreProofs`, `TransferProofs`, `ChannelsProofs`, `SeedProofs` | theorems about the module of that name |
| `MC...` | instances for TLC; `MCHexalogLive` adds four environments to `Hexalog` |

`Hexalog` looks at the whole cluster and takes a call on a ballot, an append to the log
store and a hand-over to the FSM as one step each. `Ballot`, `LogStore` and `Fsm` open
those steps up on one node. What carries over is checked there: that a success means an
append with all votes and is reported once (`SuccessIsCommitted`, `OneSuccess`), that an
append adds one matching entry (`OneEntryAtATime`), that what is queued is applied, out
of order by no more than the handlers (`AllApplied`, `FewMissed`). In the same way
`Transfer` opens up the pull, which in `Hexalog` appends one entry after the other
without a lock, `Seed` takes the transfer of a key as one step, and `Channels` keeps of
the voting only what decides who sends and who waits.

Operators marked *Mutant of ...* are wrong versions of the definition below them.
No specification uses them; each shows that some property notices the change.

### `Hexalog`

| Model | Code |
|---|---|
| `log`, `keyed` | entries of the key's index; whether the index store has the key |
| `tracked`, `ballot` | `hlog.ballots`; a node's ballots for an entry in the order of their creation, so that a handler may hold on to one the reaper has forgotten |
| `calls` | running `Propose` and `Commit` calls with a program counter; `by`, `k` say which broadcast waits for the answer |
| `queue`, `task` | `pch`, `cch` and their goroutines |
| `hch`, `healer` | heal requests, the `healKeys` goroutine |
| `applied` | hand-overs to `fsm.apply` |
| `pledged` | history: commit votes a node has cast for itself |

`Propose` is `VerifyEntry`, which looks at the log, then `OpenBallot`, `RequestHeal` or
`RejectEntry` without a look at it, `ProposeSelf` and `ProposeSource`. A first vote is
followed by `NewKey`, if the entry is the first of its key, and `Put`, the send to `pch`;
`Resume` goes on with the handler. `CheckFails` or `AppendVoted` and `ApplyVoted` are
`checkVotesAndCommit`. `Commit` is `FindBallot`, `VoteCommit` for the node and for the
source, each perhaps with `Put`, and the same end. Three pairs remain one step: the two
counts of `checkVotesAndCommit` and its append (`Ballot` has the counts apart, and votes
are only added, so that a count that is right once stays right), `getBallot` and `close` in
`ballotGetClose` (if another ballot has taken the place of the one found, the reaper has
forgotten that one, so it was closed and closing it again does nothing), and `fsm.apply` and
`close` in `ApplyVoted` (a ballot that somebody closes between the two ends like one closed
just before them). The error of the self vote that the code drops
(`hexalog.go:245-248` tests `err`, not `er`) is dropped by `ProposeSelf`. Closing a
ballot nobody has voted on dereferences a nil timer; `Close` kills the node.

Requests are members of `calls` as soon as they are sent, so they arrive in any order
and at any time. `Disconnect` loses an answer while the handler goes on, `Crash` stops
a node for good, `Cancel` drops a request whose broadcast is over before it is
delivered.

Left out: a restart of a node (that is `Fsm`), markers (nothing calls `MarkKey`), the
wait options of a request, more than one key (keys share nothing but the
channels), the bound of the channels `pch`, `cch` and `hch` (that is `Channels`).

### `Ballot`

A handler picks a vote or a close, then takes the steps of `votePropose`,
`voteCommit`, `checkVotesAndCommit` and `close` one atomic operation at a time. The
log is reduced to who took the entry's place, the errors to `failed` and `timedout`.
Several voters may vote through one thread: handlers are threads, voters
are peers. A waiter starts `absent` and may or may not call `Wait` (`CallWait`): on the
peers that a request is passed on to nobody does, since `WaitBallot` does not go with it
(`request_options.go:12-20`).

### `Fsm`

An entry is its place in the log. There are several `Handler`s: voting handlers, the
healer and `PushKeylogRPC`. Each appends and then queues, with nothing in between to
keep it in step with others; `lost` records what a crash takes away that a replay will
not find. `Start` and `SetStable` are the goroutine; `Restart` and `Replay` are
`NewHexalog` and `check`. A crash keeps the log, the stable store and what the
application did. (The stores in the repository are in-memory; the interfaces are there
for stores that persist, and `check` has work to do only with those.)

### `LogStore`

A thread fetches the index of the key and goes on with it, even if the key has been
removed or replaced since, hence `indexes`, all indexes ever created. `RollbackEntry`,
`RemoveKey` and `MarkKey` are part of the exported API without a caller in the
repository (the call of the first is commented out, `broadcast.go:175`).

### `Transfer`

| Model | Code |
|---|---|
| `log`, `entries`, `keyed` | the key's index, the entry store, whether the index store has the key, on each node |
| `app` | how far an `AppendEntry` has got: stored, and waiting for the write lock; indexed, and owed to the FSM |
| `rcv`, `snd`, `stream` | the two sides of a transfer and what is in flight between them |
| `ballots`, `handed`, `failed` | entries a node will still append after a vote; `fsm.apply` calls; transfers that ended in an error |

A heal or a seed is `AskLast`, `CheckLast`, perhaps `PullCreatesKey`, then the stream; a
push is `PushStart`, `PushRPC`, then the same stream the other way round. `IterStart`
takes the read lock and looks for the entry to start from, `Send` works under it, and
`IndexAppend` needs the write lock: `Readers` and `Writers` are the `sync.RWMutex`, which
lets no reader in while a writer waits. `VotedFor` is an append after a vote at any
time. What a node may append by itself is a parameter, so that rivals (section 4)
meet streams. The error of an append in a pull is dropped when the next entry
arrives, as in the code (`net.go:262`).

### `Channels`

The handlers of `Propose` and `Commit` are cut down to the votes, because these decide
who broadcasts; `ProposeStart` is `verifyEntry`, `ProposeBallot` the ballot under the
lock; `Put` is the send that blocks, `Take` the goroutine that reads, `waiting` the
peers whose answer it lacks. Entries belong to different keys, which is how a node gets
to have many at a time. `Shutdown`, `CloseNext`, `Exit` and `ShutdownReturns` are the
shutdown statement by statement; a send to a channel that has been closed is `Panic`,
the end of the process. `Loads` says what the nodes may be asked to do, and the initial
state picks one load.

### `Seed`

`IterStart` and `SendSeed` are `SeedKeysRPC` under the read lock of the index store,
`RecvSeed` and `PutSeed` the loop of `Seed`, `TakeSeed` to `Pulled` a worker. `CreateCalled`
and `Create` are a proposal of a new key on the remote node, in the two steps of
waiting for the write lock and having it.

## 3. The runs

Passing runs, and what they show. All bounds are in the `.cfg` files.

| Run | Properties | Instance |
|---|---|---|
| `faults` | `TypeOK`, `Unanimity`, `SettledPrefix`, `AppliedOnce`, `SuccessIsReal`, `VotingInv`, `PromiseKept` | 2 peers, 2 entries in a chain, one timeout of each entry, on different peers, one crash or broken connection, a second ballot for the second entry on one peer |
| `live` | `BallotsEnd`, `BroadcastersDrain`, `CalmReachesAll` | 2 peers, 1 entry, two ballots each, fairness; four environments: no fault and two proposals through one peer; the same through any peer; through one peer with the reaper; or one proposal, timeouts and one crash |
| `ballot` | `TypeOK`, `SuccessIsCommitted`, `OneSuccess`, `NilErrorExplained`, `WaitersWake`, `HandlersReturn` | 2 voters, 2 handlers, 1 caller that may wait or not, rivals, fairness |
| `fsm` | `TypeOK`, `FewLost`, `FewMissed`, `OncePerProcess`, `AllApplied` | 3 handlers, queue of 2, 5 entries, 2 crashes, failing stable store, fairness |
| `store` | `TypeOK`, `IndexedIsStored`, `HeightFollows`, `MarkerIsMissing`, `OneEntryAtATime` | a tree of 4 entries; 3 callers that append and ask for entries, or one that appends and rolls back and one that marks |
| `transfer` | `TypeOK`, `PullCatchesUp`, `HandedOnce`, `NobodyStuck`, `TransferInv`, `CopiesOnly` | 2 nodes, 3 entries with a rival, two of a heal, a seed and a push, any of which may break, one place on a stream |
| `channels` | `TypeOK`, `NobodyStuck`, `FewBroadcasts`, `ExitsDrained` | channels of one place; 1 key that two clients propose, on 2 peers with a timeout or on 3 with one behind; or 3 keys on 2 peers with one behind; or 2 keys with a `Shutdown` |
| `seed` | `TypeOK`, `SeedComplete`, `CreateReturns`, `SeedEnds` | 4 to 6 keys, 2 workers, one place in channel and stream, one key created meanwhile, one broken connection, fairness |

Why the bounds are enough for what they are used for. For every safety property the bounds
are those of a test before a proof: section 5 has the same property for all values of the
constants. The instances only have to be large enough for
the interesting cases to happen, which the mutants confirm, one for each property.

Two peers give the races of voting (own vote, remote vote, both counting the last one). Two
entries are needed for healing to have something to catch up, and for a fork. `MaxRounds`
bounds the ballots a node opens for each entry by keeping the reaper from its last run;
2 lets handlers of an old ballot meet a new one. `MaxTimeouts` bounds the timers that
expire early. In `faults` they are given where they matter: the timer of the first entry
ends its ballot on the first peer, that of the second entry on the other, and there the
reaper makes room for another ballot. The four environments of `live` keep apart what a
crash, several contacts and the reaper add; safety under all together is in `faults` and in
the proofs. `CalmReachesAll` says in each of them without faults what can be said. With one
contact all peers apply the entry. With several, a handler may count the last votes and
append before the one that opened the ballot has created the key (`hexalog_utils.go:208`), so
that the append fails with `ErrKeyNotFound` and that peer closes its ballot with an error;
some peer applies the entry, and each that does not has such an error. With the reaper, a
call whose entry was verified before the append may open a second ballot once the first is
reaped, which a failed broadcast closes before its first vote: the node dies of the nil
timer with no fault, and the property allows for that.

Two handlers on one ballot and the timer are three closers; the channels hold as many
signals as there are voters, so that with a caller of `Wait` all three fit and without
one they do not (`Overfull`), and the mutant `Unbuffered` shows that less room is
noticed. The three handlers of `fsm` overtake one another, also twice, its queue is
shorter than the log, so that it fills up, and the second crash hits the replay after
the first. `store` has room for a second index, for a key that is removed and created
again.

Where somebody waits, the instances are just too large for a channel or a stream: in
`transfer` a log of two entries is more than a stream with one place holds, so that a
sender blocks with the lock in its hand while votes wait for it, and two streams bring
the same entries in step or one behind the other. In `channels` three entries fill a channel
of one place and keep its broadcaster and a handler waiting (`Overfull`), on one node and on
two, and in `seed` six keys are one more than fit, so that both sides of the bound occur;
what a longer channel adds is more of the same waiting.

No run checks for deadlock in TLC's sense: clients have a bounded number of calls, a
process may have died, a log may be full, and then nothing is left to do. Where
waiting in a circle is the hazard, a property says it: `NobodyStuck` of `Channels` and
`Transfer` (something is left to do, so some step is possible), `HandlersReturn`,
`BroadcastersDrain`, `CreateReturns` and `SeedEnds`. `NobodyStuck` says of each handler,
goroutine or side of a stream what lets it go on (`CallReady`, `TaskReady`, `QuitReady`;
`CanAppend`, `CanTransfer`), which is when one of its actions is enabled: TLC has compared
the two, actor by actor, in all states of these instances. It amounts to
progress, because in these two modules every step of handlers, goroutines and streams
brings a call, a channel or a stream nearer to its end.

What `NobodyStuck` and `CreateReturns` leave out, and what the code does there:

* `Channels`: a channel is `Overfull` when it is full, its goroutine is at work and a handler
  waits for room. `Fits` rules out that two nodes are in that state with the same channel
  at the same time, and nothing else: not a channel that is overfull for long or again and
  again, nor one of each kind on different nodes. When two nodes are, they may wait for each
  other for ever: both broadcasters wait for a handler that blocks on the other node's full
  channel, and TLC finds that state when the hypothesis is taken away. No send has a
  timeout (`hexalog_utils.go:225`, `:238`), and a broadcast has none either.
* `Transfer`: as long as no node both sends and receives. Two nodes that pull from each
  other block for good when each log is longer by three than what the other has asked
  for and a stream holds one entry: each sender waits for room with the read lock, each
  receiver for the write lock (`net.go:301`). A heal next to a seed in the
  other direction is enough.
* `Seed`: up to `Window + 1 + Bufsize + parallel` keys (`Fits`). With one more, and a
  `NewKey` on the remote node that asks for the lock in between, the stream waits for the
  workers, they for the lock, `NewKey` has it next, and the stream holds it.

Fairness (`FairSpec`, `Spec` of `Seed`): goroutines and handlers are scheduled, expired
timers run, the reaper wakes up, a dead process of `Fsm` is started again. Clients need
not call, nothing needs to fail, nobody has to vote, no key has to be created. A peer
that has crashed answers its callers with an error, as gRPC does. Timers and reaper
are only fair where the configuration has them fire at all. `SeedEnds` assumes in its
statement that every `NewKey` returns, which `CreateReturns` shows for the keys that fit.

### What the runs find

A run below checks one statement of a comment, a document or a test, and TLC shows
a behaviour of the code that contradicts it. The quotes are under `findings`.

| Run | Property | Finding |
|---|---|---|
| `fork` | `Consensus` | rivals with all votes each are appended in different order; healing does not repair it |
| `stranded` | `ProposalReachesAll` | a proposal through another peer than `PeerSet[0]` without a SourceIndex counts as a vote of `PeerSet[0]`, which may then never append the entry, with no fault |
| `panic` | `NoPanic` | a ballot is closed before its first vote: nil timer |
| `push` | `PushDelivers` | a push leaves out the entries that the receiver does not have, all of those it is for |

The models also behave in the following ways, each like the code and unlike a comment or
a test; no run is kept for them. Two handlers may queue two entries of a key in the
reverse order of their appends (`hexalog_utils.go:267`), and the FSM is given them in
that order; if the process dies when only the later one is recorded, `check` finds the
stable store at the end of the log and replays nothing, so that the earlier one is never
applied (`fsm.go:132`). `FewMissed` and `FewLost` say how far this may go. On a peer
where nobody waits, two handlers that close a ballot of two votes with an error and the
timer are three sends to a channel of two places: the third blocks for ever, with its
goroutine (`ballot.go:221`, `:194`); `HandlersReturn` says that it takes that many. A
key may be created after the append that needs it, and a node may die of a second ballot
opened for an entry that is in its log, both with no fault (see `live` above). Of two
handlers that count the last vote the second may close the ballot with an error before
the first reports success (`hexalog_utils.go:256`). `Error()` is nil after a timeout
(`ballot.go:53-54`), votes are counted on a closed ballot (`ballot.go:60`), and a second
caller of `Wait` is never woken (`ballot.go:76`). After a restart the recorded entry is
applied once more (`fsm.go:118-119`), and `NewHexalog` returns before the FSM has caught
up (`hexalog.go:99-101`). `Shutdown` returns after three of the four goroutines have
ended, so not always after all (`hexalog.go:425-426`), and a handler that sends to a
closed channel ends the process. A seed returns nil although a worker has logged an
error (`hexalog.go:391`), and a pull nil although an entry could not be appended, if
another follows (`net.go:262`). A rollback may drop an entry that was appended meanwhile
(`keylog.go:99`), `NewEntry` may take the hash and the height from different states
(`logstore.go:113-114`), and `MarkKey` may replace an index created meanwhile
(`store_index.go:55-60`).

## 4. What remains true in spite of the forks

The properties above say that hexalog does not keep the logs of a key equal. What it
does keep is weaker and exact: an entry is appended anywhere only after *every*
peer has voted to commit it (`Unanimity`), and a peer votes to commit only with the
entry below in its own log. Hence everything below the last entry of any log is in
every log, at the same place (`SettledPrefix`). A fork can cost a key its last entry
on some nodes, and it blocks the key (no rival's successor can get all votes), but it
never reaches deeper.

## 5. What is proved

Every safety invariant and every action property that a passing run checks is a theorem
for all values of the constants: any finite set of two or more peers, any entries,
heights, capacities and bounds, with the crashes, broken connections, timeouts, reaping and
healing of the modules. Of five liveness properties the part about the state is a theorem
too: whoever waits has somebody or something on its way to it. It says where an answer,
a signal or a lock can come from; that it comes takes fairness and stays with TLC.

| Theorem | Statement |
|---|---|
| `HexalogProofs!TypeCorrect` | `TypeOK` |
| `HexalogProofs!AnswersAlwaysCome` | `AnswersCome`: each peer a broadcaster waits for has a call of it running; for `BroadcastersDrain` |
| `HexalogProofs!BallotAlwaysHasTimer` | `BallotHasTimer`: on a node that lives, a ballot without a vote has a handler that will vote; for `BallotsEnd` |
| `HexalogVotingProofs!VotingInvariance` | `Typed` and `VotingInv` |
| `HexalogVotingProofs!Unanimous` | `Unanimity` |
| `HexalogVotingProofs!SelfFirst` | `SelfCommitsFirst` |
| `HexalogVotingProofs!Refinement` | `PromiseKept`: `Hexalog` implements `UnanimousLog` |
| `HexalogVotingProofs!LogInvariance`, `Settled` | `LogInv`, `SettledPrefix` of `UnanimousLog` |
| `HexalogVotingProofs!PrefixSettled` | `SettledPrefix` of `Hexalog` |
| `HexalogVotingProofs!HandoverInvariance` | `Typed`, `VotingInv` and `HandoverInv` |
| `HexalogVotingProofs!HandedOverOnce` | `AppliedOnce` |
| `HexalogVotingProofs!Successes` | `SuccessIsReal` |
| `BallotProofs!TypeCorrect` | `TypeOK` |
| `BallotProofs!SuccessMeansCommitted` | `SuccessIsCommitted` |
| `BallotProofs!SuccessIsUnique` | `OneSuccess` |
| `BallotProofs!NilMeansDone` | `NilErrorExplained` |
| `BallotProofs!SignalAlwaysComes` | `SignalComes`: on a ballot with a vote there is a signal, a timer or a handler that will signal; for `WaitersWake` |
| `BallotProofs!SignalsAlwaysFit` | `SignalsFit`: who signals a success has room in the channel; who signals an error has, or a waiter takes a signal, or the signals are more than the votes; for `HandlersReturn` |
| `FsmProofs!TypeCorrect` | `TypeOK` |
| `FsmProofs!HandedOnce` | `OncePerProcess`, for any number of handlers |
| `FsmProofs!InOrder`, `AllReachFsm` | `FewMissed`, `FewLost`, for any number of handlers |
| `FsmProofs!OnlyCrashesLose` | up to the first crash every entry of the log is applied or on its way |
| `LogStoreProofs!TypeCorrect` | `TypeOK` |
| `LogStoreProofs!IndexedCanBeRead` | `IndexedIsStored` |
| `LogStoreProofs!MarkedIsMissing` | `MarkerIsMissing` |
| `LogStoreProofs!NewIsHigher` | `HeightFollows` |
| `LogStoreProofs!GrowsInOrder` | `OneEntryAtATime` |
| `TransferProofs!TransferTypes` | `TypeOK` |
| `TransferProofs!StreamsInOrder` | `TransferInv` |
| `TransferProofs!EachHandedOnce` | `HandedOnce` |
| `TransferProofs!PullsCatchUp` | `PullCatchesUp` |
| `TransferProofs!TransferCopies` | `CopiesOnly`: `Transfer` implements `KeyCopies` |
| `TransferProofs!NeverStuck` | `NobodyStuck` |
| `ChannelsProofs!TypeCorrect` | `TypeOK`, with the capacities |
| `ChannelsProofs!Drained` | `ExitsDrained` |
| `ChannelsProofs!FewSends` | `FewBroadcasts` |
| `ChannelsProofs!NeverStuck` | `NobodyStuck` |
| `SeedProofs!TypeCorrect` | `TypeOK`, with the capacities |
| `SeedProofs!Complete` | `SeedComplete` |
| `SeedProofs!CreateAlwaysGoesOn` | `CreateGoesOn`: while a `NewKey` waits for the lock, its holder, the loop or a worker goes on; for `CreateReturns` |

The assumptions on the constants are the named `ASSUME`s of the modules: their types, that
peers, voters and nodes are finitely many (a PeerSet has two or more), and
`EntriesAssumption` of `Entries`: `Previous` has no cycle, stated with the
`Depth` of an entry in its chain (hashes have none). No theorem of the list has a hypothesis
beyond these; what a property excludes is part of its definition (`Fits`, `Overfull`,
`NoCycle`) and told in section 3. `Height`, the field of an entry, is *not* assumed to be its
depth, because `NewEntry` reads the last entry and the count apart; `HeightFollows` is what
remains true of it.

### Voting

`TypeOK` is not inductive: an unfinished call names a ballot, and its `round` must
exist. `Typed` adds that. For `Unanimity`, look at everything that may lead to an
append: a ballot's commit votes, a request that carries one, a commit waiting in `cch`,
an entry being pulled. Each must stand for a vote the peer has itself cast, a member of
`pledged`; that is `VotingInv`. Two facts in it are easily overlooked. A handler goes to
`checkVotesAndCommit` when it has found all votes of *one* kind, and the comparison of
the two counts is what provides the other. And a node's own commit vote comes before
that of the source, otherwise it might broadcast a commit on the strength of another's
vote (`SelfCommitsFirst`, the mutant `FindBallotNoSelf`). A ballot is opened after its
entry was found to follow the node's last. The log may have grown when it is opened, but
the entry below is still in it, which `CallInv` keeps for a handler between the two; so
a pledge implies having the entry below; with `Unanimity` every step of `Hexalog` is
then a `Pledge`, an `AppendPledged` or a stutter of `UnanimousLog` (`Refinement`), for
which `SettledPrefix` is proved once and for all.

`AppliedOnce` and `SuccessIsReal` are about what comes after the vote, and need
`HandoverInv`. Several handlers may count the last vote, of one ballot or of an old and a
new one, and the healer may pull the same entry. Who appends it first owes it to the
FSM: `HandInv` says that an entry is in a node's log exactly when one handler or the
healer, and never both, owes it, or it has been handed over at one place in `applied`.
This rests on the log taking an entry once, which is `Chained`: an entry sits at its
depth, so the check of the previous hash refuses it the second time. `ApplyInv` adds that
whoever owes after a vote has found all votes of both kinds on its ballot, which is
what a success reports.

`AnswersCome` rests on `BroadcastInv`: a broadcaster waits for a peer only while a call
with the number of its broadcast runs there (`Works`). A handler that goes on keeps that
call (`MovedCall`); an answer takes the call away from the one who waits for it and from
nobody else (`AnsweredCall`); and `Cancel` takes only calls that nobody waits for. For
`BallotHasTimer`, `VoterInv` gives each ballot without a vote to the handler that opened it:
this one leaves only when there is a vote on it or with its node, and closing cannot end
such a ballot, because it fails on the nil timer (`CloseOpensNone`).

### Ballot

`CountInv` follows a handler through `checkVotesAndCommit`: on `check` it has seen all votes
of one kind, and a comparison that succeeds provides the other, as votes are only added.
`SuccessInv` says that one success at most exists, on its way from the handler that
appended to `done`, to `close` or to the caller, because the log takes the entry from
one handler only. `TimerInv` is for `NilErrorExplained`: whoever closes a ballot has set
an error or is about to, unless a success or the timer closed it.

Who stops the timer, or the timer that has run, signals afterwards; this is `SignalInv` and
gives `SignalComes`. `ClosedInv` counts the signals: nobody signals before the ballot is
closed, and who finds it closed does not signal, so that there is one signal for each
handler that found it open (`through`), at most, and one for the timer if it has fired.
A success is one and finds `done` empty. An error that finds `errc` full, with nobody who
takes a signal, is one more than the channel holds and a caller of `Wait` has taken: that is
`Overfull`, and `SignalsFit` says that whoever is stuck is stuck for this reason. There is no
bound on the handlers: `closed` is loaded and stored apart (`ballot.go:205`), so all that are
in between signal.

### FSM and stable store

`PhaseInv` ties the replay to the log: what is queued or handed over while `check` runs lies
below its cursor. With `OnceInv`, that the entries a process has handed over, queued or
owes are all different, that gives `OncePerProcess`. `OrderInv` counts: of the entries
before one that is queued or handed over, the FSM lacks only those that other handlers owe,
which are one each, and those that were lost (`Few`). `KeptInv` says that each entry of the
log is applied, on its way to be, or lost. A crash loses what is below the entry in the
stable store and was not handed over before; the FSM lacked these when it was given that
entry, so they are fewer than the handlers (`LossInv`).

### Log store

`IndexInv` says of all indexes, also those a thread holds on to after the key was removed
or replaced, that they are chains with each entry at its depth, and that the marker is not
among them. `StoredInv` is what holds when whoever rolls back is the only one to append:
`Kept` covers the entries stored and not yet indexed, `Roller` follows `RollbackEntry` from
its check to the removal of the key. `HeightInv` is what holds without rollbacks: the entry
that `NewEntry` has read first is still there when it counts.

### Transfers

The inductive invariant is `TypeOK`, `TransferInv`, `HandedOnce` and
`PullCatchesUp` together. Logs are chains (`Chained`), so two logs with one entry in
common have all below it in common, at the same places (`Agree`); without that the
receiver could not be said to have anything because it has its last entry. What a
stream carries is the piece of the sender's log before `pos`, in order (`InFlight`), and
the receiver has all before that piece, or the logs have parted (`CaughtUp`): an append
that fails has either found the entry in place or the logs forked, which is why the
dropped error does no harm to `PullCatchesUp`. An append that succeeds is the copy of the
sender's next entry, so it is a `Copy` of `KeyCopies`; `Sourced` says so of appends that
still wait for the lock, and the log of the sender only grows. `HandedOnce` needs that no
two appenders owe the FSM the same entry (`OwedOnce`), which holds because the index takes
an entry once. Nothing in these proofs depends on the lock, so the transfers may go
round in circles. For `NobodyStuck` they may not (`NoCycle`). Suppose nobody can go on. A
sender that holds the read lock waits for room on its stream, so its receiver is in the
middle of an append, and that waits for readers at the receiver's node (`ReadersWaitFor`).
The nodes with readers therefore each send to another one of them, which is a cycle: there
are none (`SomeReaderGoesOn`). Then nobody waits for the write lock, the read locks can be
had, and the streams go on.

### Channels and shutdown

`TypeOK` needs `TaskInv`: a goroutine that waits for an answer works on an entry. For
`ExitsDrained` a goroutine that has ended must stay idle and its channel empty (`ExitInv`);
the channel is closed, channels stay closed (`ClosedGrows`), a send on a closed one is a
panic, and an answer that comes late finds nobody waiting (`RestUndisturbed`). For
`FewBroadcasts` the history `puts` is tied to the calls that are about to send: of all
calls on an entry at most one is between opening the ballot and sending for it (`Opening`),
at most one is sending for the first vote of a source (`Repeating`), at most one for the
first commit (`Announcing`), and each of these places is reached once, because the ballot
is opened once and a vote is first once. `CountInv` counts sent and about to be sent
together.

`NobodyStuck` needs `WaitInv`: for each answer that a goroutine waits for, a call runs, and
an entry in a channel has peers to be sent to. Suppose nobody can go on. A call is then held
up by a channel that is `Overfull`, for an idle goroutine could take from it and the healer
always comes back (`WaitsForRoom`); and the broadcaster of that channel waits for a call on
another node, or for its own `Commit` (`WaitsForAnswer`). Commits wait for commits only: a
`cch` that is overfull needs another one (`CommitsGoOn`), which `Fits` rules out. So no `cch`
is, and a `pch` that is overfull needs the `pch` of another node (`ProposalsGoOn`). Without
calls nobody waits for an answer, and `Shutdown` finds its goroutines at rest (`RestReady`).

### Seed

`SeedInv`: as long as the stream is not broken, each key the remote node has listed is on
the stream, in the channel, in the hands of the loop or of a worker (`OnItsWay`), or as
long as there, or its error is logged; and a worker ends only when the channel is
closed and empty.

For `CreateGoesOn`, `RoomInv` counts places: the keys left to send, on the stream, in the
hands of the loop, in the channel and with the workers are no more than were listed
(`Count`). If the stream were full, the loop blocked on a full channel and all workers
waiting for the lock, these would be `Window + 1 + Bufsize + parallel` keys besides the one to
be sent, which is more than `Fits` allows.

### What is only model-checked

* Liveness (`BallotsEnd`, `BroadcastersDrain`, `CalmReachesAll`, `WaitersWake`,
  `HandlersReturn`, `AllApplied`, `CreateReturns`, `SeedEnds`): it rests on fairness, which
  the prover cannot handle. The theorems marked "for" above are the part of it about
  single states.
* The four findings: TLC shows them by a behaviour.

## 6. What is not modelled, and the plan

Not modelled:

* Generated code (`rpc.pb.go`), hashing, JSON, configuration, participants, statistics: no
  state of the protocol, or pure data.
* The connection pool (`pool.go`). A connection may be closed by the reaper while a call uses
  it, put back by that call (`pool.go:36-48`) and handed out again, closed; or one of two that
  are made at the same time replaces the other in the map (`pool.go:70-78`). To everyone else
  this is a call that fails, at any time and possibly again and again, and that is a
  fault of `Hexalog`, `Transfer` and `Seed`.
* `FutureEntry.Wait` and the wait options of a request: one waiter with a timeout on a
  channel with room for the result, which changes nothing else.
* `Heal` and `IsConsistent`, which only an application calls: the first is another sender
  on `hch`, the second reads.
* Lamport clocks, which no decision depends on.

What could be proved next: that the details implement the single steps in which `Hexalog`
takes them, as refinements of their own (the appends of `LogStore` of a log that grows by one
entry, `Ballot` of a ballot that ends once). So far `OneEntryAtATime`, `OneSuccess` and
`SuccessIsCommitted` say so property by property.

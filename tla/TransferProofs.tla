--------------------------- MODULE TransferProofs ----------------------------
(***************************************************************************)
(* Proofs about Transfer, for all nodes, entries, transfers and windows:   *)
(* type correctness, the inductive invariant, and from it that the streams *)
(* implement the abstract copying of logs, that every entry is handed over *)
(* once and that a pull catches up.                                        *)
(***************************************************************************)
EXTENDS Transfer, TLAPS

\* The assumptions without the recursion of Depth, which only the chains need.
LEMMA Constants ==
    /\ Zero \notin Entry
    /\ Previous \in [Entry -> Entry \cup {Zero}]
    /\ Depth \in [Entry -> Nat \ {0}]
    /\ \A t \in Xfer : t.src \in Node /\ t.dst \in Node
    /\ Xfer \cap Node = {}
    /\ Voted \in [Node -> SUBSET Entry]
BY EntriesAssumption, TransferAssumption

\* An appender is a node or a transfer, and in either case appends on a node.
LEMMA AppenderAt ==
    ASSUME NEW a \in Appender
    PROVE  /\ At(a) \in Node
           /\ a \in Xfer => At(a) = a.dst
           /\ a \in Node => At(a) = a
BY Constants DEF Appender, At

LEMMA XferFields ==
    ASSUME NEW t \in Xfer
    PROVE  t.src \in Node /\ t.dst \in Node /\ t \in Appender /\ t \notin Node
BY Constants DEF Appender

\* The initial state: nothing has happened on any node.
LEMMA InitInv == Init => TypeOK /\ TransferInv /\ HandedOnce /\ PullCatchesUp
<1> SUFFICES ASSUME Init PROVE TypeOK /\ TransferInv /\ HandedOnce /\ PullCatchesUp
  OBVIOUS
<1>1. TypeOK
  BY XferFields, Constants
  DEF Init, TypeOK, AppState, RcvState, SndState, EntryOrZero, RcvStep, SndStep
<1>2. Chained /\ Agree
  BY DEF Init, Chained, Agree
<1>3. Sourced /\ OwedOnce
  BY XferFields, Constants DEF Init, Sourced, OwedOnce, Appender
<1>4. Streamed
  BY XferFields DEF Init, Streamed, Phased, InFlight, CaughtUp
<1>5. HandedOnce
  BY DEF Init, HandedOnce, Owed, Owing, Elems
<1>6. PullCatchesUp
  BY DEF Init, PullCatchesUp
<1> QED BY <1>1, <1>2, <1>3, <1>4, <1>5, <1>6 DEF TransferInv

-----------------------------------------------------------------------------
\* The records of the appenders and of both sides keep their types when a field changes.
LEMMA AppUpdate ==
    ASSUME NEW r \in AppState, NEW c \in {"idle", "index", "apply"}
    PROVE  [r EXCEPT !.pc = c] \in AppState
BY DEF AppState

LEMMA RcvUpdate ==
    ASSUME NEW r \in RcvState, NEW c \in RcvStep
    PROVE  [r EXCEPT !.pc = c] \in RcvState
BY DEF RcvState

LEMMA SndUpdate ==
    ASSUME NEW r \in SndState, NEW c \in SndStep, NEW s \in EntryOrZero, NEW k \in Nat,
           NEW u \in Nat
    PROVE  /\ [r EXCEPT !.pc = c] \in SndState
           /\ [r EXCEPT !.upto = u] \in SndState
           /\ [r EXCEPT !.pos = k] \in SndState
           /\ [r EXCEPT !.pc = c, !.seek = s] \in SndState
           /\ [r EXCEPT !.pc = c, !.pos = k, !.upto = u] \in SndState
BY DEF SndState

\* The last entry of a log.
LEMMA LastType ==
    ASSUME TypeOK, NEW n \in Node
    PROVE  Last(n) \in EntryOrZero
BY DEF TypeOK, Last, LastOf, EntryOrZero

\* Type correctness is preserved; only Send needs to know where it is in the log.
LEMMA TypeStep ==
    ASSUME TypeOK, Streamed, [Next]_vars
    PROVE  TypeOK'
<1>a. /\ {"off", "check", "create", "recv", "done"} = RcvStep
      /\ {"off", "hello", "iter", "send", "done"} = SndStep
  BY DEF RcvStep, SndStep
<1>b. ASSUME NEW t \in Xfer
      PROVE  rcv[t] \in RcvState /\ snd[t] \in SndState
  BY DEF TypeOK
<1>c. /\ rcv \in [Xfer -> RcvState] /\ snd \in [Xfer -> SndState]
      /\ app \in [Appender -> AppState]
  BY DEF TypeOK
<1>1. ASSUME NEW n \in Node, CreateKey(n) PROVE TypeOK'
  BY <1>1 DEF TypeOK, CreateKey
<1>2. ASSUME NEW n \in Node, NEW e \in Entry, VotedFor(n, e) PROVE TypeOK'
  <2>1. [pc |-> "index", entry |-> e] \in AppState
    BY DEF AppState, EntryOrZero
  <2> QED BY <1>2, <2>1, AppenderAt DEF TypeOK, VotedFor, EntrySet, Appender
<1>3. ASSUME NEW a \in Appender, IndexAppend(a) PROVE TypeOK'
  <2>0. PICK c \in {"idle", "apply"} : app' = [app EXCEPT ![a] = [@ EXCEPT !.pc = c]]
    BY <1>3 DEF IndexAppend
  <2>1. app[a].pc = "index"
    BY <1>3 DEF IndexAppend
  <2>2. app[a] \in AppState /\ app[a].entry \in Entry
    BY <1>c, <2>1 DEF TypeOK
  <2>3. app' \in [Appender -> AppState]
    BY <1>c, <2>0, <2>2, AppUpdate
  <2>4. \A b \in Appender : app'[b].pc # "idle" => app'[b].entry \in Entry
    BY <2>0, <2>2 DEF TypeOK, AppState
  <2>5. log[At(a)] \in Seq(Entry)
    BY AppenderAt DEF TypeOK
  <2>6. Append(log[At(a)], app[a].entry) \in Seq(Entry)
    BY <2>2, <2>5
  <2>7. log' \in [Node -> Seq(Entry)]
    BY <1>3, <2>6 DEF TypeOK, IndexAppend
  <2> QED BY <1>3, <2>3, <2>4, <2>7 DEF TypeOK, IndexAppend
<1>4. ASSUME NEW a \in Appender, HandOver(a) PROVE TypeOK'
  <2>1. app[a] \in AppState /\ app[a].entry \in Entry
    BY <1>4 DEF TypeOK, HandOver
  <2>2. [app[a] EXCEPT !.pc = "idle"] \in AppState
    BY <2>1, AppUpdate
  <2>3. \A b \in Appender : app'[b].pc # "idle" => app'[b].entry \in Entry
    BY <1>4, <2>1 DEF TypeOK, HandOver, AppState
  <2> QED BY <1>4, <2>1, <2>2, <2>3, AppenderAt DEF TypeOK, HandOver
<1>5. ASSUME NEW t \in Xfer, AskLast(t) PROVE TypeOK'
  <2>1. Last(t.src) \in EntryOrZero
    BY XferFields, LastType
  <2>2. /\ [pc |-> "done", last |-> Zero] \in RcvState
        /\ [pc |-> "check", last |-> Last(t.src)] \in RcvState
    BY <2>1 DEF RcvState, RcvStep, EntryOrZero
  <2> QED BY <1>5, <2>2 DEF TypeOK, AskLast, store
<1>6. ASSUME NEW t \in Xfer, RequestOrDone(t)
      PROVE  rcv' \in [Xfer -> RcvState] /\ snd' \in [Xfer -> SndState]
  <2>1. Last(t.dst) \in EntryOrZero
    BY XferFields, LastType
  <2>2. /\ [rcv[t] EXCEPT !.pc = "done"] \in RcvState
        /\ [rcv[t] EXCEPT !.pc = "recv"] \in RcvState
        /\ [snd[t] EXCEPT !.pc = "hello", !.seek = Last(t.dst)] \in SndState
    BY <1>a, <1>b, <2>1, RcvUpdate, SndUpdate
  <2>3. CASE UpToDate(t)
    <3>1. Depth[rcv[t].last] \in Nat
      BY <1>b, <2>3, Constants DEF UpToDate, RcvState, EntryOrZero
    <3>2. [snd[t] EXCEPT !.upto = Depth[rcv[t].last]] \in SndState
      BY <1>a, <1>b, <2>1, <3>1, SndUpdate
    <3> QED BY <1>6, <1>c, <2>2, <2>3, <3>2 DEF RequestOrDone
  <2>4. CASE ~UpToDate(t)
    BY <1>6, <1>c, <2>2, <2>4 DEF RequestOrDone
  <2> QED BY <2>3, <2>4
<1>7. ASSUME NEW t \in Xfer, CheckLast(t) \/ PullCreatesKey(t) PROVE TypeOK'
  <2>1. /\ [rcv[t] EXCEPT !.pc = "create"] \in RcvState
        /\ [rcv[t] EXCEPT !.pc = "done"] \in RcvState
    BY <1>a, <1>b, RcvUpdate
  <2>2. CASE CheckLast(t)
    BY <1>6, <2>1, <2>2 DEF TypeOK, CheckLast, store
  <2>3. CASE PullCreatesKey(t)
    <3>1. rcv' \in [Xfer -> RcvState] /\ snd' \in [Xfer -> SndState]
      BY <1>6, <1>c, <2>1, <2>3 DEF PullCreatesKey
    <3> QED BY <2>3, <3>1, XferFields DEF TypeOK, PullCreatesKey, Fail
  <2> QED BY <1>7, <2>2, <2>3
<1>8. ASSUME NEW t \in Xfer, PullRPC(t) PROVE TypeOK'
  <2>1. /\ [snd[t] EXCEPT !.pc = "iter"] \in SndState
        /\ [snd[t] EXCEPT !.pc = "done"] \in SndState
    BY <1>a, <1>b, SndUpdate DEF EntryOrZero
  <2>2. snd' \in [Xfer -> SndState]
    BY <1>8, <1>c, <2>1 DEF PullRPC
  <2> QED BY <1>8, <2>2 DEF TypeOK, PullRPC, store, Fail
<1>9. ASSUME NEW t \in Xfer, PushStart(t) PROVE TypeOK'
  <2>1. /\ [rcv[t] EXCEPT !.pc = "done"] \in RcvState
        /\ [rcv[t] EXCEPT !.pc = "check"] \in RcvState
    BY <1>a, <1>b, RcvUpdate
  <2>2. rcv' \in [Xfer -> RcvState]
    BY <1>9, <1>c, <2>1 DEF PushStart
  <2> QED BY <1>9, <2>2 DEF TypeOK, PushStart, store, Fail
<1>10. ASSUME NEW t \in Xfer, PushRPC(t) PROVE TypeOK'
  <2>1. Last(t.dst) \in EntryOrZero
    BY XferFields, LastType
  <2>2. /\ [rcv[t] EXCEPT !.pc = "done"] \in RcvState
        /\ [rcv[t] EXCEPT !.pc = "recv"] \in RcvState
        /\ [snd[t] EXCEPT !.pc = "iter", !.seek = Last(t.dst)] \in SndState
    BY <1>a, <1>b, <2>1, RcvUpdate, SndUpdate
  <2>3. rcv' \in [Xfer -> RcvState] /\ snd' \in [Xfer -> SndState]
    BY <1>10, <1>c, <2>2 DEF PushRPC
  <2> QED BY <1>10, <2>3 DEF TypeOK, PushRPC, store, Fail
<1>11. ASSUME NEW t \in Xfer, IterStart(t) PROVE TypeOK'
  <2> DEFINE k == IF snd[t].seek = Zero THEN 1 ELSE Depth[snd[t].seek]
  <2>1. snd[t].seek = Zero \/ snd[t].seek \in Entry
    BY <1>b DEF SndState, EntryOrZero
  <2>2. k \in Nat /\ Zero \in EntryOrZero
    BY <2>1, Constants DEF EntryOrZero
  <2>3. Len(log[t.src]) \in Nat
    BY XferFields DEF TypeOK
  <2> HIDE DEF k
  <2>4. \A c \in SndStep :
          [snd[t] EXCEPT !.pc = c, !.pos = k, !.upto = Len(log[t.src])] \in SndState
    BY <1>b, <2>2, <2>3, SndUpdate
  <2>5. PICK c \in {"send", "done"} :
          snd' = [snd EXCEPT ![t] = [@ EXCEPT !.pc = c, !.pos = k, !.upto = Len(log[t.src])]]
    BY <1>11 DEF IterStart, k
  <2>6. snd' \in [Xfer -> SndState]
    BY <1>a, <2>4, <2>5 DEF TypeOK
  <2> QED BY <1>11, <2>6 DEF TypeOK, IterStart, store, Fail
<1>12. ASSUME NEW t \in Xfer, Send(t) PROVE TypeOK'
  <2>1. snd[t].pos \in Nat /\ snd[t].upto \in Nat /\ Zero \in EntryOrZero
    BY <1>b DEF SndState, EntryOrZero
  <2>2. CASE snd[t].pos <= snd[t].upto
    <3>1. log[t.src] \in Seq(Entry)
      BY XferFields DEF TypeOK
    <3>2. log[t.src][snd[t].pos] \in Entry
      BY <1>12, <2>1, <2>2, <3>1 DEF Send, Streamed, Phased
    <3>3. [snd[t] EXCEPT !.pos = snd[t].pos + 1] \in SndState
      <4>1. snd[t].pos + 1 \in Nat
        BY <2>1
      <4> QED BY <1>a, <1>b, <2>1, <4>1, SndUpdate
    <3>4. snd' \in [Xfer -> SndState]
      BY <1>12, <1>c, <2>2, <3>3 DEF Send
    <3>5. Append(stream[t], log[t.src][snd[t].pos]) \in Seq(Entry)
      BY <3>2 DEF TypeOK
    <3>6. stream' \in [Xfer -> Seq(Entry)]
      BY <1>12, <2>2, <3>5 DEF Send, TypeOK
    <3> QED BY <1>12, <3>4, <3>6 DEF TypeOK, Send, store
  <2>3. CASE ~(snd[t].pos <= snd[t].upto)
    <3>1. [snd[t] EXCEPT !.pc = "done"] \in SndState
      BY <1>a, <1>b, <2>1, SndUpdate
    <3>2. snd' \in [Xfer -> SndState] /\ UNCHANGED stream
      BY <1>12, <1>c, <2>3, <3>1 DEF Send
    <3> QED BY <1>12, <3>2 DEF TypeOK, Send, store
  <2> QED BY <2>2, <2>3
<1>13. ASSUME NEW t \in Xfer, Receive(t) PROVE TypeOK'
  <2>1. stream[t] \in Seq(Entry) /\ stream[t] # <<>>
    BY <1>13 DEF TypeOK, Receive
  <2>2. Head(stream[t]) \in Entry /\ Tail(stream[t]) \in Seq(Entry)
    BY <2>1
  <2>3. [pc |-> "index", entry |-> Head(stream[t])] \in AppState
    BY <2>2 DEF AppState, EntryOrZero
  <2>4. UNCHANGED <<entries, app>> \/ EntrySet(t, Head(stream[t]))
    BY <1>13 DEF Receive
  <2> DEFINE e == Head(stream[t])
             Same == app' = app /\ entries' = entries
             New == /\ app' = [app EXCEPT ![t] = [pc |-> "index", entry |-> e]]
                    /\ entries' = [entries EXCEPT ![At(t)] = @ \cup {e}]
  <2>a. Same \/ New
    BY <2>4 DEF EntrySet
  <2> HIDE DEF e
  <2>5. entries' \in [Node -> SUBSET Entry] /\ app' \in [Appender -> AppState]
    <3>1. entries[At(t)] \cup {e} \in SUBSET Entry
      BY <2>2, XferFields, AppenderAt DEF TypeOK, e
    <3>2. entries \in [Node -> SUBSET Entry]
      BY DEF TypeOK
    <3> QED BY <1>c, <2>3, <2>a, <3>1, <3>2 DEF e
  <2>6. \A a \in Appender : app'[a].pc # "idle" => app'[a].entry \in Entry
    <3> SUFFICES ASSUME NEW a \in Appender, app'[a].pc # "idle"
                 PROVE  app'[a].entry \in Entry
      OBVIOUS
    <3>1. e \in Entry
      BY <2>2 DEF e
    <3>2. app'[a] = app[a] \/ app'[a] = [pc |-> "index", entry |-> e]
      BY <1>c, <2>a
    <3>3. app[a].pc # "idle" => app[a].entry \in Entry
      BY DEF TypeOK
    <3> QED BY <3>1, <3>2, <3>3
  <2>7. stream' \in [Xfer -> Seq(Entry)]
    BY <1>13, <2>2 DEF TypeOK, Receive
  <2> QED BY <1>13, <2>5, <2>6, <2>7 DEF TypeOK, Receive
<1>14. ASSUME NEW t \in Xfer, ReceiveEnd(t) PROVE TypeOK'
  <2>1. [rcv[t] EXCEPT !.pc = "done"] \in RcvState
    BY <1>a, <1>b, RcvUpdate
  <2> QED BY <1>14, <2>1 DEF TypeOK, ReceiveEnd, store
<1>15. ASSUME NEW t \in Xfer, Break(t) PROVE TypeOK'
  <2>1. /\ [rcv[t] EXCEPT !.pc = "done"] \in RcvState
        /\ [snd[t] EXCEPT !.pc = "done"] \in SndState
    BY <1>a, <1>b, RcvUpdate, SndUpdate DEF EntryOrZero
  <2> QED BY <1>15, <2>1 DEF TypeOK, Break, store, Fail
<1>16. CASE UNCHANGED vars
  BY <1>16 DEF TypeOK, vars
<1> QED
  BY <1>1, <1>2, <1>3, <1>4, <1>5, <1>7, <1>8, <1>9, <1>10, <1>11, <1>12, <1>13, <1>14,
     <1>15, <1>16 DEF Next, Appending, Start, Transferring

-----------------------------------------------------------------------------
(* The logs.  Only one step changes them.                                  *)

\* The entry a is about to append goes on where the log ends.
Appends(a) ==
    /\ app[a].pc = "index" /\ Previous[app[a].entry] = Last(At(a))
    /\ log' = [log EXCEPT ![At(a)] = Append(@, app[a].entry)]
    /\ app' = [app EXCEPT ![a].pc = "apply"]
    /\ UNCHANGED <<entries, ballots, keyed, handed, rcv, snd, stream, failed>>

LEMMA LogStep ==
    ASSUME [Next]_vars
    PROVE  UNCHANGED log \/ \E a \in Appender : IndexAppend(a) /\ Appends(a)
<1>1. ASSUME NEW a \in Appender, IndexAppend(a) PROVE UNCHANGED log \/ Appends(a)
  BY <1>1 DEF IndexAppend, Appends
<1>2. ASSUME NEW t \in Xfer, Start(t) PROVE UNCHANGED log
  BY <1>2 DEF Start, AskLast, PushStart, store
<1>3. ASSUME NEW t \in Xfer, Transferring(t) PROVE UNCHANGED log
  BY <1>3 DEF Transferring, CheckLast, PullCreatesKey, PullRPC, PushRPC, IterStart, Send,
              Receive, ReceiveEnd, store
<1>4. ASSUME NEW t \in Xfer, Break(t) PROVE UNCHANGED log
  BY <1>4 DEF Break, store
<1>5. ASSUME NEW n \in Node, CreateKey(n) \/ \E e \in Entry : VotedFor(n, e)
      PROVE  UNCHANGED log
  BY <1>5 DEF CreateKey, VotedFor
<1>6. ASSUME NEW a \in Appender, HandOver(a) PROVE UNCHANGED log
  BY <1>6 DEF HandOver
<1> QED BY <1>1, <1>2, <1>3, <1>4, <1>5, <1>6 DEF Next, Appending, vars

\* What Appends does to the logs, in terms of their places.
LEMMA AppendsAt ==
    ASSUME TypeOK, Chained, NEW a \in Appender, Appends(a)
    PROVE  LET n == At(a)
               e == app[a].entry
               k == Len(log[n]) IN
           /\ n \in Node /\ e \in Entry /\ k \in Nat /\ log[n] \in Seq(Entry)
           /\ log'[n] = Append(log[n], e)
           /\ Len(log'[n]) = k + 1 /\ log'[n][k + 1] = e
           /\ \A i \in 1..k : log'[n][i] = log[n][i]
           /\ \A m \in Node : m # n => log'[m] = log[m]
           /\ Previous[e] = IF k = 0 THEN Zero ELSE log[n][k]
           /\ Depth[e] = k + 1
<1> DEFINE n == At(a)
           e == app[a].entry
           k == Len(log[n])
<1>1. n \in Node
  BY AppenderAt
<1>2. log[n] \in Seq(Entry) /\ k \in Nat
  BY <1>1 DEF TypeOK
<1>3. app[a].pc = "index"
  BY DEF Appends
<1>4. e \in Entry
  BY <1>3 DEF TypeOK
<1>5. log'[n] = Append(log[n], e) /\ \A m \in Node : m # n => log'[m] = log[m]
  BY <1>1 DEF TypeOK, Appends
<1>6. Previous[e] = IF k = 0 THEN Zero ELSE log[n][k]
  BY <1>2 DEF Appends, Last, LastOf
<1>7. Depth[e] = k + 1
  <2>1. CASE k = 0
    BY <1>4, <1>6, <2>1, EntriesAssumption
  <2>2. CASE k # 0
    <3>1. k \in DOMAIN log[n] /\ log[n][k] \in Entry
      BY <1>2, <2>2
    <3>2. Previous[e] = log[n][k] /\ Depth[log[n][k]] = k
      BY <1>1, <1>6, <2>2, <3>1 DEF Chained
    <3>3. Previous[e] # Zero
      BY <3>1, <3>2, Constants
    <3> QED BY <1>4, <3>2, <3>3, EntriesAssumption
  <2> QED BY <2>1, <2>2
<1> QED BY <1>1, <1>2, <1>4, <1>5, <1>6, <1>7

\* No log shrinks, or changes what it holds.
Grown ==
    \A n \in Node : /\ DOMAIN log[n] \subseteq DOMAIN log'[n]
                    /\ Len(log[n]) <= Len(log'[n])
                    /\ \A i \in DOMAIN log[n] : log'[n][i] = log[n][i]
                    /\ Elems(log[n]) \subseteq Elems(log'[n])

LEMMA LogsGrow ==
    ASSUME TypeOK, Chained, [Next]_vars
    PROVE  Grown
<1>1. CASE UNCHANGED log
  BY <1>1 DEF TypeOK, Grown
<1>2. ASSUME NEW a \in Appender, Appends(a) PROVE Grown
  <2> SUFFICES ASSUME NEW n \in Node
               PROVE  /\ DOMAIN log[n] \subseteq DOMAIN log'[n]
                      /\ Len(log[n]) <= Len(log'[n])
                      /\ \A i \in DOMAIN log[n] : log'[n][i] = log[n][i]
                      /\ Elems(log[n]) \subseteq Elems(log'[n])
    BY DEF Grown
  <2>1. log[n] \in Seq(Entry)
    BY DEF TypeOK
  <2>2. CASE n # At(a)
    BY <1>2, <2>1, <2>2, AppendsAt
  <2>3. CASE n = At(a)
    <3>1. log'[n] = Append(log[n], app[a].entry)
      BY <1>2, <2>3, AppendsAt
    <3>2. DOMAIN log[n] \subseteq DOMAIN log'[n] /\ Len(log[n]) <= Len(log'[n])
          /\ \A i \in DOMAIN log[n] : log'[n][i] = log[n][i]
      BY <2>1, <3>1
    <3> QED BY <3>2 DEF Elems
  <2> QED BY <2>2, <2>3
<1> QED BY <1>1, <1>2, LogStep

LEMMA ChainedStep ==
    ASSUME TypeOK, Chained, [Next]_vars
    PROVE  Chained'
<1>1. CASE UNCHANGED log
  BY <1>1 DEF Chained
<1>2. ASSUME NEW a \in Appender, Appends(a) PROVE Chained'
  <2> SUFFICES ASSUME NEW n \in Node, NEW i \in DOMAIN log'[n]
               PROVE  /\ Depth[log'[n][i]] = i
                      /\ Previous[log'[n][i]] = IF i = 1 THEN Zero ELSE log'[n][i - 1]
    BY DEF Chained
  <2>1. CASE n # At(a)
    BY <1>2, <2>1, AppendsAt DEF Chained
  <2>2. CASE n = At(a)
    <3> DEFINE k == Len(log[n])
               e == app[a].entry
    <3>1. /\ k \in Nat /\ log[n] \in Seq(Entry) /\ Len(log'[n]) = k + 1
          /\ log'[n] = Append(log[n], e)
          /\ log'[n][k + 1] = e /\ \A j \in 1..k : log'[n][j] = log[n][j]
          /\ Previous[e] = IF k = 0 THEN Zero ELSE log[n][k]
          /\ Depth[e] = k + 1
      BY <1>2, <2>2, AppendsAt
    <3>2. i \in 1..(k + 1)
      BY <3>1
    <3>3. CASE i = k + 1
      BY <3>1, <3>3
    <3>4. CASE i \in 1..k
      <4>1. /\ Depth[log[n][i]] = i
            /\ Previous[log[n][i]] = IF i = 1 THEN Zero ELSE log[n][i - 1]
        BY <3>1, <3>4 DEF Chained
      <4>2. i # 1 => i - 1 \in 1..k
        BY <3>1, <3>4
      <4> QED BY <3>1, <3>4, <4>1, <4>2
    <3> QED BY <3>1, <3>2, <3>3, <3>4
  <2> QED BY <2>1, <2>2
<1> QED BY <1>1, <1>2, LogStep

\* The new entry of one log is the old one of another only if the log it goes on from
\* is the same.
LEMMA AgreeStep ==
    ASSUME TypeOK, Chained, Agree, [Next]_vars
    PROVE  Agree'
<1>1. CASE UNCHANGED log
  BY <1>1 DEF Agree
<1>2. ASSUME NEW a \in Appender, Appends(a) PROVE Agree'
  <2> DEFINE n == At(a)
             e == app[a].entry
             k == Len(log[n])
  <2>1. /\ n \in Node /\ k \in Nat /\ log[n] \in Seq(Entry) /\ Len(log'[n]) = k + 1
        /\ log'[n] = Append(log[n], e)
        /\ log'[n][k + 1] = e /\ \A j \in 1..k : log'[n][j] = log[n][j]
        /\ \A m \in Node : m # n => log'[m] = log[m]
        /\ Previous[e] = IF k = 0 THEN Zero ELSE log[n][k]
    BY <1>2, AppendsAt
  <2> HIDE DEF n, e, k
  <2>2. ASSUME NEW m \in Node, m # n, k + 1 \in DOMAIN log[m], log[m][k + 1] = e
        PROVE  \A j \in 1..k : log[m][j] = log[n][j]
    <3>1. CASE k = 0
      BY <3>1
    <3>2. CASE k # 0
      <4>1. log[m] \in Seq(Entry)
        BY DEF TypeOK
      <4>2. Previous[e] = log[m][k]
        BY <2>1, <2>2, <3>2 DEF Chained
      <4>3. k \in DOMAIN log[m] \cap DOMAIN log[n] /\ log[m][k] = log[n][k]
        BY <2>1, <2>2, <3>2, <4>1, <4>2 DEF k
      <4> QED BY <2>1, <4>3 DEF Agree
    <3> QED BY <3>1, <3>2
  <2> SUFFICES ASSUME NEW m \in Node, NEW p \in Node,
                      NEW i \in DOMAIN log'[m] \cap DOMAIN log'[p],
                      log'[m][i] = log'[p][i], NEW j \in 1..i
               PROVE  log'[m][j] = log'[p][j]
    BY DEF Agree
  <2>3. CASE m # n /\ p # n
    BY <2>1, <2>3 DEF Agree
  <2>4. ASSUME NEW q \in Node, q # n, i \in DOMAIN log'[q] \cap DOMAIN log'[n],
               log'[q][i] = log'[n][i]
        PROVE  log'[q][j] = log'[n][j]
    <3>1. log'[q] = log[q] /\ i \in 1..(k + 1) /\ log[q] \in Seq(Entry)
      BY <2>1, <2>4 DEF TypeOK
    <3>2. CASE i = k + 1
      BY <2>1, <2>2, <2>4, <3>1, <3>2
    <3>3. CASE i \in 1..k
      <4>1. i \in DOMAIN log[q] \cap DOMAIN log[n] /\ log[q][i] = log[n][i] /\ j \in 1..k
        BY <2>1, <2>4, <3>1, <3>3 DEF k
      <4> QED BY <2>1, <2>4, <3>1, <4>1 DEF Agree
    <3> QED BY <2>1, <3>1, <3>2, <3>3
  <2> QED BY <2>1, <2>3, <2>4
<1> QED BY <1>1, <1>2, LogStep

-----------------------------------------------------------------------------
(* The appenders, and what they owe the FSM.                               *)

\* Appender a takes up entry e: after a vote, or from its stream.
Begins(a, e) ==
    /\ app[a].pc = "idle"
    /\ app' = [app EXCEPT ![a] = [pc |-> "index", entry |-> e]]
    /\ UNCHANGED <<log, handed>>
    /\ \/ a \in Node /\ e \in ballots[a]
       \/ a \in Xfer /\ stream[a] # <<>> /\ e = Head(stream[a])

\* The index turns down what a wants to append.
Refused(a) ==
    /\ app[a].pc = "index" /\ app' = [app EXCEPT ![a].pc = "idle"]
    /\ UNCHANGED <<log, handed>>

LEMMA AppStep ==
    ASSUME TypeOK, [Next]_vars
    PROVE  /\ \/ UNCHANGED <<app, log, handed>>
              \/ \E a \in Appender : \/ \E e \in Entry : Begins(a, e)
                                     \/ Refused(a) \/ Appends(a) \/ HandOver(a)
           /\ \A n \in Node : ballots'[n] \subseteq ballots[n]
<1>1. ASSUME NEW n \in Node, NEW e \in Entry, VotedFor(n, e)
      PROVE  (\E a \in Appender : Begins(a, e)) /\ \A m \in Node : ballots'[m] \subseteq ballots[m]
  <2>1. n \in Appender /\ At(n) = n
    BY AppenderAt DEF Appender
  <2>2. Begins(n, e)
    BY <1>1, <2>1 DEF VotedFor, EntrySet, Begins
  <2>3. \A m \in Node : ballots'[m] \subseteq ballots[m]
    BY <1>1 DEF VotedFor, TypeOK
  <2> QED BY <2>1, <2>2, <2>3
<1>2. ASSUME NEW a \in Appender, IndexAppend(a)
      PROVE  (Appends(a) \/ Refused(a)) /\ UNCHANGED ballots
  BY <1>2 DEF IndexAppend, Appends, Refused
<1>3. ASSUME NEW t \in Xfer, Receive(t)
      PROVE  /\ UNCHANGED ballots
             /\ UNCHANGED <<app, log, handed>> \/ \E e \in Entry : Begins(t, e)
  <2> DEFINE e == Head(stream[t])
  <2>1. e \in Entry
    BY <1>3 DEF Receive, TypeOK
  <2>2. UNCHANGED app \/ EntrySet(t, e)
    BY <1>3 DEF Receive
  <2> HIDE DEF e
  <2>3. UNCHANGED <<log, handed, ballots>> /\ stream[t] # <<>>
    BY <1>3 DEF Receive
  <2> QED BY <2>1, <2>2, <2>3 DEF EntrySet, Begins, e
<1>4. ASSUME NEW t \in Xfer, \/ Start(t) \/ Break(t) \/ CheckLast(t) \/ PullCreatesKey(t)
                             \/ PullRPC(t) \/ PushRPC(t) \/ IterStart(t) \/ Send(t)
                             \/ ReceiveEnd(t)
      PROVE  UNCHANGED <<app, log, handed, ballots>>
  BY <1>4 DEF Start, AskLast, PushStart, Break, CheckLast, PullCreatesKey, PullRPC, PushRPC,
              IterStart, Send, ReceiveEnd, store
<1>5. ASSUME NEW n \in Node, CreateKey(n) PROVE UNCHANGED <<app, log, handed, ballots>>
  BY <1>5 DEF CreateKey
<1>6. ASSUME NEW a \in Appender, HandOver(a) PROVE UNCHANGED ballots
  BY <1>6 DEF HandOver
<1>7. CASE UNCHANGED vars
  BY <1>7 DEF vars
<1> QED
  BY <1>1, <1>2, <1>3, <1>4, <1>5, <1>6, <1>7, XferFields DEF Next, Appending, Transferring

\* The entry that has just come off the wire is one of the sender's.
LEMMA SourcedStep ==
    ASSUME TypeOK, Chained, Streamed, Sourced, [Next]_vars
    PROVE  Sourced'
<1>0. Grown /\ \A n \in Node : ballots'[n] \subseteq ballots[n]
  BY LogsGrow, AppStep
<1>1. ASSUME NEW a \in Appender, app'[a].pc = "index", app'[a] # app[a]
      PROVE  Begins(a, app'[a].entry)
  <2>1. PICK b \in Appender : \/ \E e \in Entry : Begins(b, e)
                              \/ Refused(b) \/ Appends(b) \/ HandOver(b)
    BY <1>1, AppStep
  <2>2. CASE Refused(b) \/ Appends(b) \/ HandOver(b)
    BY <1>1, <2>2 DEF TypeOK, AppState, Refused, Appends, HandOver
  <2>3. ASSUME NEW e \in Entry, Begins(b, e) PROVE Begins(a, app'[a].entry)
    <3>1. b = a
      BY <1>1, <2>3 DEF TypeOK, Begins
    <3>2. app'[a].entry = e
      BY <2>3, <3>1 DEF TypeOK, Begins
    <3> QED BY <2>3, <3>1, <3>2
  <2> QED BY <2>1, <2>2, <2>3
<1>2. ASSUME NEW n \in Node PROVE ballots'[n] \subseteq Voted[n]
  BY <1>0 DEF Sourced
<1>3. ASSUME NEW n \in Node, app'[n].pc = "index" PROVE app'[n].entry \in Voted[n]
  <2>1. CASE app'[n] = app[n]
    BY <1>3, <2>1 DEF Sourced
  <2>2. CASE app'[n] # app[n]
    <3>1. Begins(n, app'[n].entry) /\ n \notin Xfer
      BY <1>1, <1>3, <2>2, XferFields DEF Appender
    <3> QED BY <3>1 DEF Begins, Sourced
  <2> QED BY <2>1, <2>2
<1>4. ASSUME NEW t \in Xfer, app'[t].pc = "index" PROVE app'[t].entry \in Elems(log'[t.src])
  <2>1. CASE app'[t] = app[t]
    BY <1>0, <1>4, <2>1, XferFields DEF Sourced, Grown
  <2>2. CASE app'[t] # app[t]
    <3>1. Begins(t, app'[t].entry) /\ t \notin Node
      BY <1>1, <1>4, <2>2, XferFields
    <3>2. stream[t] \in Seq(Entry) /\ stream[t] # <<>> /\ app'[t].entry = stream[t][1]
      BY <3>1 DEF Begins, TypeOK
    <3>3. app'[t].entry \in Elems(log[t.src])
      BY <3>2 DEF Streamed, InFlight, Elems
    <3> QED BY <1>0, <3>3, XferFields DEF Grown
  <2> QED BY <2>1, <2>2
<1> QED BY <1>2, <1>3, <1>4 DEF Sourced

\* No entry is appended twice: its depth is its place.
LEMMA NewEntry ==
    ASSUME TypeOK, Chained, NEW a \in Appender, Appends(a)
    PROVE  /\ app[a].entry \notin Elems(log[At(a)])
           /\ Elems(log'[At(a)]) = Elems(log[At(a)]) \cup {app[a].entry}
<1> DEFINE n == At(a)
           e == app[a].entry
           k == Len(log[n])
<1>1. /\ n \in Node /\ k \in Nat /\ log[n] \in Seq(Entry) /\ Depth[e] = k + 1
      /\ log'[n] = Append(log[n], e) /\ Len(log'[n]) = k + 1 /\ log'[n][k + 1] = e
      /\ \A i \in 1..k : log'[n][i] = log[n][i]
  BY AppendsAt
<1> HIDE DEF n, e
<1>2. \A i \in DOMAIN log[n] : Depth[log[n][i]] = i /\ i < k + 1
  BY <1>1 DEF Chained
<1>3. e \notin Elems(log[n])
  BY <1>1, <1>2 DEF Elems
<1>4. DOMAIN log'[n] = 1..(k + 1) /\ DOMAIN log[n] = 1..k
  BY <1>1
<1>5. Elems(log'[n]) = Elems(log[n]) \cup {e}
  BY <1>1, <1>4 DEF Elems
<1> QED BY <1>3, <1>5 DEF n, e

\* What is owed on each node after one appender's step.
LEMMA OwedAfter ==
    ASSUME TypeOK, NEW a \in Appender, NEW r, app' = [app EXCEPT ![a] = r], NEW n \in Node
    PROVE  /\ n # At(a) => Owed(n)' = Owed(n)
           /\ n = At(a) /\ r.pc # "apply" /\ app[a].pc # "apply" => Owed(n)' = Owed(n)
           /\ n = At(a) /\ r.pc = "apply" /\ app[a].pc # "apply"
                => Owed(n)' = Owed(n) \cup {r.entry}
           /\ n = At(a) /\ r.pc # "apply" /\ app[a].pc = "apply" /\ OwedOnce
                => Owed(n)' = Owed(n) \ {app[a].entry}
<1>1. app'[a] = r /\ \A b \in Appender : b # a => app'[b] = app[b]
  BY DEF TypeOK
<1>2. Owed(n)' = {app'[b].entry : b \in {b \in Appender : At(b) = n /\ app'[b].pc = "apply"}}
  BY DEF Owed, Owing, At
<1>3. Owed(n) = {app[b].entry : b \in {b \in Appender : At(b) = n /\ app[b].pc = "apply"}}
  BY DEF Owed, Owing
<1>4. CASE n # At(a)
  BY <1>1, <1>2, <1>3, <1>4
<1>5. CASE n = At(a) /\ r.pc # "apply" /\ app[a].pc # "apply"
  BY <1>1, <1>2, <1>3, <1>5
<1>6. CASE n = At(a) /\ r.pc = "apply" /\ app[a].pc # "apply"
  BY <1>1, <1>2, <1>3, <1>6
<1>7. CASE n = At(a) /\ r.pc # "apply" /\ app[a].pc = "apply" /\ OwedOnce
  <2>1. \A b \in Appender : (At(b) = n /\ app[b].pc = "apply" /\ b # a)
                             => app[b].entry # app[a].entry
    BY <1>7 DEF OwedOnce
  <2> QED BY <1>1, <1>2, <1>3, <1>7, <2>1
<1> QED BY <1>4, <1>5, <1>6, <1>7

LEMMA OwedOnceStep ==
    ASSUME TypeOK, Chained, OwedOnce, HandedOnce, [Next]_vars
    PROVE  OwedOnce'
<1>1. CASE UNCHANGED app
  BY <1>1 DEF OwedOnce, At
<1>2. ASSUME NEW a \in Appender, NEW r, app' = [app EXCEPT ![a] = r], r.pc # "apply"
      PROVE  OwedOnce'
  BY <1>2 DEF TypeOK, OwedOnce, At
<1>3. ASSUME NEW a \in Appender, Appends(a) PROVE OwedOnce'
  <2>1. \A b \in Appender : (At(b) = At(a) /\ app[b].pc = "apply")
                             => app[b].entry \in Elems(log[At(a)])
    BY AppenderAt DEF HandedOnce, Owed, Owing
  <2>2. \A b \in Appender : (At(b) = At(a) /\ app[b].pc = "apply")
                             => app[b].entry # app[a].entry
    BY <1>3, <2>1, NewEntry
  <2>3. \A b \in Appender : b # a => app'[b] = app[b]
    BY <1>3 DEF Appends, TypeOK
  <2>4. app'[a].entry = app[a].entry
    BY <1>3 DEF Appends, TypeOK, AppState
  <2> QED BY <2>2, <2>3, <2>4 DEF OwedOnce, At
<1>4. ASSUME NEW a \in Appender, \/ \E e \in Entry : Begins(a, e)
                                 \/ Refused(a) \/ HandOver(a)
      PROVE  \E r : app' = [app EXCEPT ![a] = r] /\ r.pc # "apply"
  <2>1. app[a] \in AppState
    BY DEF TypeOK
  <2>2. [app[a] EXCEPT !.pc = "idle"].pc # "apply"
    BY <2>1 DEF AppState
  <2>3. \A e : [pc |-> "index", entry |-> e].pc # "apply"
    OBVIOUS
  <2> QED BY <1>4, <2>2, <2>3 DEF Begins, Refused, HandOver
<1> QED BY <1>1, <1>2, <1>3, <1>4, AppStep

LEMMA HandedOnceStep ==
    ASSUME TypeOK, Chained, OwedOnce, HandedOnce, [Next]_vars
    PROVE  HandedOnce'
<1> SUFFICES ASSUME NEW n \in Node
             PROVE  /\ \A i, j \in DOMAIN handed'[n] : handed'[n][i] = handed'[n][j] => i = j
                    /\ Elems(handed'[n]) \cap Owed(n)' = {}
                    /\ Elems(log'[n]) = Elems(handed'[n]) \cup Owed(n)'
  BY DEF HandedOnce
<1>0. /\ \A i, j \in DOMAIN handed[n] : handed[n][i] = handed[n][j] => i = j
      /\ Elems(handed[n]) \cap Owed(n) = {}
      /\ Elems(log[n]) = Elems(handed[n]) \cup Owed(n)
  BY DEF HandedOnce
<1>1. CASE UNCHANGED <<app, log, handed>>
  BY <1>0, <1>1 DEF Owed, Owing, At
<1>2. ASSUME NEW a \in Appender, Appends(a)
      PROVE  /\ UNCHANGED handed
             /\ n = At(a) => /\ Owed(n)' = Owed(n) \cup {app[a].entry}
                             /\ Elems(log'[n]) = Elems(log[n]) \cup {app[a].entry}
                             /\ app[a].entry \notin Elems(log[n])
             /\ n # At(a) => Owed(n)' = Owed(n) /\ log'[n] = log[n]
  <2> DEFINE r == [app[a] EXCEPT !.pc = "apply"]
  <2>1. app' = [app EXCEPT ![a] = r] /\ r.pc = "apply" /\ r.entry = app[a].entry
        /\ app[a].pc # "apply" /\ UNCHANGED handed
    BY <1>2 DEF Appends, TypeOK, AppState
  <2> HIDE DEF r
  <2>2. /\ n = At(a) => Owed(n)' = Owed(n) \cup {app[a].entry}
        /\ n # At(a) => Owed(n)' = Owed(n)
    BY <2>1, OwedAfter
  <2>3. n # At(a) => log'[n] = log[n]
    BY <1>2, AppendsAt
  <2> QED BY <1>2, <2>1, <2>2, <2>3, NewEntry
<1>3. ASSUME NEW a \in Appender, (\E e \in Entry : Begins(a, e)) \/ Refused(a)
      PROVE  Owed(n)' = Owed(n) /\ UNCHANGED <<log, handed>>
  <2>1. app[a] \in AppState
    BY DEF TypeOK
  <2>2. [app[a] EXCEPT !.pc = "idle"].pc # "apply"
    BY <2>1 DEF AppState
  <2>3. PICK r : app' = [app EXCEPT ![a] = r] /\ r.pc # "apply" /\ app[a].pc # "apply"
    BY <1>3, <2>2 DEF Begins, Refused
  <2>4. Owed(n)' = Owed(n)
    BY <2>3, OwedAfter
  <2> QED BY <1>3, <2>4 DEF Begins, Refused
<1>4. ASSUME NEW a \in Appender, HandOver(a)
      PROVE  /\ UNCHANGED log
             /\ n = At(a) => /\ Owed(n)' = Owed(n) \ {app[a].entry}
                             /\ app[a].entry \in Owed(n)
                             /\ handed'[n] = Append(handed[n], app[a].entry)
             /\ n # At(a) => Owed(n)' = Owed(n) /\ handed'[n] = handed[n]
  <2> DEFINE r == [app[a] EXCEPT !.pc = "idle"]
  <2>1. app' = [app EXCEPT ![a] = r] /\ r.pc # "apply" /\ app[a].pc = "apply"
    BY <1>4 DEF HandOver, TypeOK, AppState
  <2>2. UNCHANGED log /\ handed' = [handed EXCEPT ![At(a)] = Append(@, app[a].entry)]
    BY <1>4 DEF HandOver
  <2> HIDE DEF r
  <2>3. n = At(a) => app[a].entry \in Owed(n)
    BY <2>1 DEF Owed, Owing
  <2>4. n = At(a) => handed'[n] = Append(handed[n], app[a].entry)
    BY <2>2 DEF TypeOK
  <2>5. n # At(a) => handed'[n] = handed[n]
    BY <2>2 DEF TypeOK
  <2> QED BY <2>1, <2>2, <2>3, <2>4, <2>5, OwedAfter
<1>5. ASSUME NEW s \in Seq(Entry), NEW e \in Entry, e \notin Elems(s),
             \A i, j \in DOMAIN s : s[i] = s[j] => i = j
      PROVE  /\ Elems(Append(s, e)) = Elems(s) \cup {e}
             /\ \A i, j \in DOMAIN Append(s, e) : Append(s, e)[i] = Append(s, e)[j] => i = j
  <2>1. /\ DOMAIN s = 1..Len(s) /\ DOMAIN Append(s, e) = 1..(Len(s) + 1) /\ Len(s) \in Nat
        /\ Append(s, e)[Len(s) + 1] = e /\ \A i \in 1..Len(s) : Append(s, e)[i] = s[i]
    OBVIOUS
  <2>2. \A i \in 1..Len(s) : s[i] # e
    BY <1>5, <2>1 DEF Elems
  <2>3. Elems(Append(s, e)) = Elems(s) \cup {e}
    BY <2>1 DEF Elems
  <2>4. \A i, j \in DOMAIN Append(s, e) : Append(s, e)[i] = Append(s, e)[j] => i = j
    BY <1>5, <2>1, <2>2
  <2> QED BY <2>3, <2>4
<1>6. ASSUME NEW a \in Appender, HandOver(a), n = At(a)
      PROVE  /\ \A i, j \in DOMAIN handed'[n] : handed'[n][i] = handed'[n][j] => i = j
             /\ Elems(handed'[n]) = Elems(handed[n]) \cup {app[a].entry}
  <2>1. handed[n] \in Seq(Entry) /\ app[a].entry \in Entry
    BY <1>6 DEF TypeOK, HandOver
  <2>2. app[a].entry \notin Elems(handed[n])
    BY <1>0, <1>4, <1>6
  <2>3. handed'[n] = Append(handed[n], app[a].entry)
    BY <1>4, <1>6
  <2> QED BY <1>0, <1>5, <2>1, <2>2, <2>3
<1> QED BY <1>0, <1>1, <1>2, <1>3, <1>4, <1>6, AppStep

-----------------------------------------------------------------------------
(* The streams.                                                            *)

\* Transfer t is where it was.
SameFor(t) ==
    /\ rcv'[t] = rcv[t] /\ snd'[t] = snd[t] /\ stream'[t] = stream[t] /\ app'[t] = app[t]
    /\ t \in failed => t \in failed'

Acts(t) == Start(t) \/ Transferring(t) \/ Break(t) \/ Appending(t)

\* A step is about one transfer at most.
LEMMA OneAtATime ==
    ASSUME TypeOK, [Next]_vars, NEW t \in Xfer
    PROVE  SameFor(t) \/ Acts(t)
<1> SUFFICES ASSUME ~Acts(t) PROVE SameFor(t)
  OBVIOUS
<1>1. ASSUME NEW u \in Xfer, u # t, Start(u) \/ Break(u) PROVE SameFor(t)
  BY <1>1 DEF TypeOK, SameFor, Start, AskLast, PushStart, Break, store, Fail
<1>2. ASSUME NEW u \in Xfer, u # t, CheckLast(u) \/ PullCreatesKey(u) \/ PullRPC(u) \/ PushRPC(u)
      PROVE  SameFor(t)
  BY <1>2 DEF TypeOK, SameFor, CheckLast, PullCreatesKey, PullRPC, PushRPC, RequestOrDone,
              store, Fail
<1>3. ASSUME NEW u \in Xfer, u # t, IterStart(u) \/ Send(u) \/ ReceiveEnd(u)
      PROVE  SameFor(t)
  BY <1>3 DEF TypeOK, SameFor, IterStart, Send, ReceiveEnd, store, Fail
<1>4. ASSUME NEW u \in Xfer, u # t, Receive(u) PROVE SameFor(t)
  <2>1. UNCHANGED app \/ \E e \in Entry : EntrySet(u, e)
    <3>1. Head(stream[u]) \in Entry
      BY <1>4 DEF TypeOK, Receive
    <3> QED BY <1>4, <3>1 DEF Receive
  <2>2. app'[t] = app[t]
    BY <1>4, <2>1, XferFields DEF EntrySet, TypeOK
  <2> QED BY <1>4, <2>2 DEF TypeOK, SameFor, Receive
<1>5. ASSUME NEW a \in Appender, a # t, Appending(a) PROVE SameFor(t)
  BY <1>5, XferFields DEF TypeOK, SameFor, Appending, IndexAppend, HandOver
<1>6. ASSUME NEW n \in Node, CreateKey(n) \/ \E e \in Entry : VotedFor(n, e) PROVE SameFor(t)
  BY <1>6, XferFields DEF TypeOK, SameFor, CreateKey, VotedFor, EntrySet
<1>7. CASE UNCHANGED vars
  BY <1>7 DEF SameFor, vars
<1> QED
  BY <1>1, <1>2, <1>3, <1>4, <1>5, <1>6, <1>7 DEF Acts, Next, Transferring

\* Logs that part do so for good.
LEMMA ReachedStays ==
    ASSUME TypeOK, Grown, NEW t \in Xfer, NEW k \in Int, Reached(t, k)
    PROVE  Reached(t, k)'
<1>1. log[t.dst] \in Seq(Entry) /\ log[t.src] \in Seq(Entry)
      /\ t.dst \in Node /\ t.src \in Node
  BY XferFields DEF TypeOK
<1>2. CASE k <= Len(log[t.dst])
  <2>1. Len(log[t.dst]) <= Len(log'[t.dst])
    BY <1>1 DEF Grown
  <2>2. k <= Len(log'[t.dst])
    BY <1>1, <1>2, <2>1 DEF Grown
  <2> QED BY <2>2 DEF Reached
<1>3. CASE Parted(t.src, t.dst)
  <2>1. PICK i \in DOMAIN log[t.src] \cap DOMAIN log[t.dst] : log[t.src][i] # log[t.dst][i]
    BY <1>3 DEF Parted
  <2>2. i \in DOMAIN log'[t.src] \cap DOMAIN log'[t.dst] /\ log'[t.src][i] # log'[t.dst][i]
    BY <1>1, <2>1 DEF Grown
  <2> QED BY <2>2 DEF Reached, Parted
<1> QED BY <1>2, <1>3 DEF Reached

\* What holds of a transfer's numbers and of the two logs.
LEMMA StreamTypes ==
    ASSUME TypeOK, NEW t \in Xfer
    PROVE  /\ rcv[t] \in RcvState /\ snd[t] \in SndState /\ app[t] \in AppState
           /\ snd[t].pos \in Nat /\ snd[t].upto \in Nat /\ stream[t] \in Seq(Entry)
           /\ snd[t].pc \in SndStep /\ snd[t].seek \in EntryOrZero
           /\ Len(stream[t]) \in Nat /\ Done(t) \in Int
           /\ t.src \in Node /\ t.dst \in Node /\ t \in Appender
           /\ log[t.src] \in Seq(Entry) /\ log[t.dst] \in Seq(Entry)
<1>1. t.src \in Node /\ t.dst \in Node /\ t \in Appender
  BY XferFields
<1>2. rcv[t] \in RcvState /\ snd[t] \in SndState /\ app[t] \in AppState
      /\ stream[t] \in Seq(Entry) /\ log[t.src] \in Seq(Entry) /\ log[t.dst] \in Seq(Entry)
  BY <1>1 DEF TypeOK
<1>3. snd[t].pos \in Nat /\ snd[t].upto \in Nat /\ snd[t].pc \in SndStep
      /\ snd[t].seek \in EntryOrZero /\ Len(stream[t]) \in Nat
  BY <1>2 DEF SndState
<1>4. Done(t) \in Int
  BY <1>3 DEF Done
<1> QED BY <1>1, <1>2, <1>3, <1>4

\* What a transfer knows of its numbers stays true while the others go on.
LEMMA SameStreamed ==
    ASSUME TypeOK, Grown, NEW t \in Xfer, Phased(t), InFlight(t), CaughtUp(t), SameFor(t)
    PROVE  Phased(t)' /\ InFlight(t)' /\ CaughtUp(t)'
<1>1. /\ t.src \in Node /\ t.dst \in Node /\ Done(t) \in Int
      /\ log[t.src] \in Seq(Entry) /\ log[t.dst] \in Seq(Entry)
  BY StreamTypes
<1>2. /\ rcv'[t] = rcv[t] /\ snd'[t] = snd[t] /\ stream'[t] = stream[t] /\ app'[t] = app[t]
      /\ t \notin failed' => t \notin failed
  BY DEF SameFor
<1>3. /\ DOMAIN log[t.src] \subseteq DOMAIN log'[t.src]
      /\ \A i \in DOMAIN log[t.src] : log'[t.src][i] = log[t.src][i]
      /\ Elems(log[t.dst]) \subseteq Elems(log'[t.dst])
      /\ Len(log[t.src]) <= Len(log'[t.src])
  BY <1>1 DEF Grown
<1>4. Phased(t)'
  <2>1. snd[t].upto <= Len(log[t.src]) => snd[t].upto <= Len(log'[t.src])
    BY <1>1, <1>3, StreamTypes DEF Grown
  <2> QED BY <1>2, <1>3, <2>1 DEF Phased
<1>5. InFlight(t)'
  BY <1>2, <1>3 DEF InFlight
<1>6. Done(t)' = Done(t)
  BY <1>2 DEF Done
<1>7. Reached(t, Done(t)) => Reached(t, Done(t))'
  BY <1>1, <1>6, ReachedStays
<1>8. CaughtUp(t)'
  BY <1>2, <1>3, <1>6, <1>7 DEF CaughtUp
<1> QED BY <1>4, <1>5, <1>8

\* The last entry of a log is in it.
LEMMA LastIn ==
    ASSUME TypeOK, NEW n \in Node
    PROVE  Last(n) = Zero \/ Last(n) \in Elems(log[n])
<1>1. log[n] \in Seq(Entry)
  BY DEF TypeOK
<1>2. CASE log[n] = <<>>
  BY <1>2 DEF Last, LastOf
<1>3. CASE log[n] # <<>>
  <2>1. Len(log[n]) \in DOMAIN log[n]
    BY <1>1, <1>3
  <2> QED BY <1>3, <2>1 DEF Last, LastOf, Elems
<1> QED BY <1>2, <1>3

Stands(t) == Phased(t) /\ InFlight(t) /\ CaughtUp(t)

LEMMA StartStands ==
    ASSUME TypeOK, NEW t \in Xfer, Stands(t), AskLast(t) \/ PushStart(t)
    PROVE  Stands(t)'
<1>1. /\ rcv[t].pc = "off" /\ UNCHANGED <<log, app, snd, stream>>
      /\ rcv'[t].pc \in {"check", "done"}
  BY StreamTypes DEF TypeOK, RcvState, AskLast, PushStart, store
<1>2. snd[t].pc = "off" /\ snd[t].upto = 0
  BY <1>1 DEF Stands, Phased
<1> QED BY <1>1, <1>2 DEF Stands, Phased, InFlight, CaughtUp

LEMMA RequestStands ==
    ASSUME TypeOK, NEW t \in Xfer, Stands(t), rcv[t].pc \in {"check", "create"},
           RequestOrDone(t), UNCHANGED <<log, app, stream>>
    PROVE  Stands(t)'
<1>1. snd[t].pc = "off" /\ stream[t] = <<>> /\ app[t].pc = "idle"
  BY DEF Stands, Phased
<1>2. CASE UpToDate(t)
  <2>1. rcv'[t].pc = "done" /\ snd'[t].pc = "off"
    BY <1>1, <1>2, StreamTypes DEF TypeOK, RcvState, SndState, RequestOrDone
  <2> QED BY <1>1, <2>1 DEF Stands, Phased, InFlight, CaughtUp
<1>3. CASE ~UpToDate(t)
  <2>1. rcv'[t].pc = "recv" /\ snd'[t].pc = "hello" /\ snd'[t].seek = Last(t.dst)
    <3>1. /\ rcv'[t] = [rcv[t] EXCEPT !.pc = "recv"]
          /\ snd'[t] = [snd[t] EXCEPT !.pc = "hello", !.seek = Last(t.dst)]
      BY <1>3 DEF TypeOK, RequestOrDone
    <3> QED BY <3>1, StreamTypes DEF RcvState, SndState
  <2>2. Last(t.dst) = Zero \/ Last(t.dst) \in Elems(log[t.dst])
    BY StreamTypes, LastIn
  <2> QED BY <1>1, <2>1, <2>2 DEF Stands, Phased, InFlight, CaughtUp
<1> QED BY <1>2, <1>3

LEMMA CheckStands ==
    ASSUME TypeOK, NEW t \in Xfer, Stands(t), CheckLast(t) \/ PullCreatesKey(t)
    PROVE  Stands(t)'
<1>1. CASE RequestOrDone(t)
  <2>1. rcv[t].pc \in {"check", "create"} /\ UNCHANGED <<log, app, stream>>
    BY DEF CheckLast, PullCreatesKey, store
  <2> QED BY <1>1, <2>1, RequestStands
<1>2. CASE ~RequestOrDone(t)
  <2>1. /\ rcv[t].pc \in {"check", "create"} /\ UNCHANGED <<log, app, snd, stream>>
        /\ rcv'[t].pc \in {"create", "done"}
    BY <1>2, StreamTypes DEF TypeOK, RcvState, CheckLast, PullCreatesKey, store
  <2> QED BY <2>1 DEF Stands, Phased, InFlight, CaughtUp
<1> QED BY <1>1, <1>2

LEMMA RPCStands ==
    ASSUME TypeOK, NEW t \in Xfer, Stands(t), PullRPC(t) \/ PushRPC(t)
    PROVE  Stands(t)'
<1>1. CASE PullRPC(t)
  <2>1. /\ snd[t].pc = "hello" /\ UNCHANGED <<log, app, rcv, stream>>
        /\ snd'[t].seek = snd[t].seek
        /\ snd'[t].pc = "iter" \/ (snd'[t].pc = "done" /\ t \in failed')
    <3>1. /\ snd[t].pc = "hello" /\ UNCHANGED <<log, app, rcv, stream>>
          /\ \/ snd'[t] = [snd[t] EXCEPT !.pc = "iter"]
             \/ snd'[t] = [snd[t] EXCEPT !.pc = "done"] /\ t \in failed'
      BY <1>1 DEF TypeOK, PullRPC, store, Fail
    <3> QED BY <3>1, StreamTypes DEF SndState
  <2> QED BY <2>1 DEF Stands, Phased, InFlight, CaughtUp
<1>2. CASE PushRPC(t)
  <2>1. /\ rcv[t].pc = "check" /\ UNCHANGED <<log, app, stream>>
        /\ \/ rcv'[t].pc = "done" /\ UNCHANGED snd
           \/ rcv'[t].pc = "recv" /\ snd'[t].pc = "iter" /\ snd'[t].seek = Last(t.dst)
    <3>1. /\ rcv[t].pc = "check" /\ UNCHANGED <<log, app, stream>>
          /\ \/ rcv'[t] = [rcv[t] EXCEPT !.pc = "done"] /\ UNCHANGED snd
             \/ /\ rcv'[t] = [rcv[t] EXCEPT !.pc = "recv"]
                /\ snd'[t] = [snd[t] EXCEPT !.pc = "iter", !.seek = Last(t.dst)]
      BY <1>2 DEF TypeOK, PushRPC, store
    <3> QED BY <3>1, StreamTypes DEF RcvState, SndState
  <2>2. Last(t.dst) = Zero \/ Last(t.dst) \in Elems(log[t.dst])
    BY StreamTypes, LastIn
  <2> QED BY <2>1, <2>2 DEF Stands, Phased, InFlight, CaughtUp
<1> QED BY <1>1, <1>2

\* The receiver has all that comes before the entry it is asked to go on from.
LEMMA IterStands ==
    ASSUME TypeOK, Chained, NEW t \in Xfer, Stands(t), IterStart(t)
    PROVE  Stands(t)'
<1> DEFINE s == snd[t].seek
           k == IF s = Zero THEN 1 ELSE Depth[s]
<1>1. /\ snd[t].pc = "iter" /\ rcv[t].pc = "recv" /\ stream[t] = <<>> /\ app[t].pc = "idle"
      /\ s = Zero \/ s \in Elems(log[t.dst])
      /\ UNCHANGED <<log, app, rcv, stream>>
  BY DEF IterStart, Stands, Phased, store
<1>2. /\ snd'[t].pos = k /\ snd'[t].upto = Len(log[t.src])
      /\ snd'[t].pc = "send" \/ (snd'[t].pc = "done" /\ t \in failed')
  <2>1. PICK c \in {"send", "done"} :
          /\ snd' = [snd EXCEPT ![t] =
                       [@ EXCEPT !.pc = c, !.pos = k, !.upto = Len(log[t.src])]]
          /\ c = "send" \/ t \in failed'
    BY DEF IterStart, Fail
  <2>2. snd'[t] = [snd[t] EXCEPT !.pc = c, !.pos = k, !.upto = Len(log[t.src])]
    BY <2>1 DEF TypeOK
  <2> HIDE DEF k
  <2> QED BY <2>1, <2>2, StreamTypes DEF SndState
<1>3. k \in Nat /\ k > 0 /\ Reached(t, k - 1)
  <2>1. CASE s = Zero
    BY <2>1, StreamTypes DEF Reached
  <2>2. CASE s # Zero
    <3>1. PICK i \in DOMAIN log[t.dst] : s = log[t.dst][i]
      BY <1>1, <2>2 DEF Elems
    <3>2. Depth[s] = i /\ i \in 1..Len(log[t.dst])
      BY <3>1, StreamTypes DEF Chained
    <3> QED BY <2>2, <3>2, StreamTypes DEF Reached
  <2> QED BY <2>1, <2>2
<1> HIDE DEF k, s
<1>4. Phased(t)'
  BY <1>1, <1>2, <1>3, StreamTypes DEF Phased
<1>5. InFlight(t)'
  BY <1>1 DEF InFlight
<1>6. CaughtUp(t)'
  <2>1. Done(t)' = k - 1
    <3>1. snd'[t].pos = k /\ stream'[t] = <<>> /\ app'[t].pc = "idle"
      BY <1>1, <1>2
    <3>2. Done(t)' = k - 1 - 0 - 0
      BY <3>1 DEF Done
    <3> QED BY <1>3, <3>2
  <2>2. Reached(t, Done(t))'
    BY <1>1, <1>3, <2>1 DEF Reached, Parted
  <2> QED BY <1>1, <1>2, <2>2 DEF CaughtUp
<1> QED BY <1>4, <1>5, <1>6 DEF Stands

\* An entry goes out: the stream and `pos' grow together.
LEMMA SendStands ==
    ASSUME TypeOK, NEW t \in Xfer, Stands(t), Send(t)
    PROVE  Stands(t)'
<1> DEFINE k == snd[t].pos
           l == Len(stream[t])
<1>1. /\ snd[t].pc = "send" /\ rcv[t].pc = "recv" /\ UNCHANGED <<log, app, rcv, failed>>
      /\ k > 0 /\ snd[t].upto <= Len(log[t.src])
  BY DEF Send, Stands, Phased, store
<1>2. k \in Nat /\ l \in Nat /\ snd[t].upto \in Nat /\ Len(log[t.src]) \in Nat
      /\ stream[t] \in Seq(Entry)
  BY StreamTypes
<1>3. CASE k <= snd[t].upto
  <2>1. /\ snd'[t] = [snd[t] EXCEPT !.pos = k + 1]
        /\ stream'[t] = Append(stream[t], log[t.src][k])
    BY <1>3 DEF TypeOK, Send
  <2>2. snd'[t].pos = k + 1 /\ snd'[t].pc = "send" /\ snd'[t].upto = snd[t].upto
    BY <1>1, <2>1, StreamTypes DEF SndState
  <2>3. k \in DOMAIN log[t.src]
    BY <1>1, <1>2, <1>3, StreamTypes
  <2>4. /\ Len(stream'[t]) = l + 1 /\ DOMAIN stream'[t] = 1..(l + 1)
        /\ stream'[t][l + 1] = log[t.src][k]
        /\ \A i \in 1..l : stream'[t][i] = stream[t][i]
        /\ DOMAIN stream[t] = 1..l
    BY <1>2, <2>1
  <2>5. Phased(t)'
    BY <1>1, <1>2, <2>2 DEF Phased
  <2>6. InFlight(t)'
    <3> SUFFICES ASSUME NEW i \in 1..(l + 1)
                 PROVE  LET j == (k + 1) - 1 - (l + 1) + i IN
                        j \in DOMAIN log[t.src] /\ stream'[t][i] = log[t.src][j]
      BY <1>1, <2>2, <2>4 DEF InFlight
    <3>1. (k + 1) - 1 - (l + 1) + i = k - 1 - l + i
      <4>1. k \in Int /\ l \in Int /\ i \in Int
        BY <1>2
      <4> HIDE DEF k, l
      <4> QED BY <4>1
    <3>2. CASE i = l + 1
      <4>1. k - 1 - l + i = k
        BY <1>2, <3>2
      <4> QED BY <2>3, <2>4, <3>1, <3>2, <4>1
    <3>3. CASE i \in 1..l
      BY <2>4, <3>1, <3>3 DEF Stands, InFlight
    <3> QED BY <1>2, <3>2, <3>3
  <2>7. CaughtUp(t)'
    <3>1. Done(t)' = Done(t)
      <4>1. Done(t)' = (k + 1) - 1 - (l + 1) - (IF app[t].pc = "index" THEN 1 ELSE 0)
        BY <1>1, <2>2, <2>4 DEF Done
      <4>2. Done(t) = k - 1 - l - (IF app[t].pc = "index" THEN 1 ELSE 0)
        BY DEF Done
      <4>3. k \in Int /\ l \in Int
        BY <1>2
      <4> HIDE DEF k, l
      <4> QED BY <4>1, <4>2, <4>3
    <3> QED BY <1>1, <2>2, <3>1 DEF Stands, CaughtUp, Reached, Parted
  <2> QED BY <2>5, <2>6, <2>7 DEF Stands
<1>4. CASE ~(k <= snd[t].upto)
  <2>1. snd'[t] = [snd[t] EXCEPT !.pc = "done"] /\ UNCHANGED stream
    BY <1>4 DEF TypeOK, Send
  <2>2. snd'[t].pos = k /\ snd'[t].pc = "done" /\ snd'[t].upto = snd[t].upto
    BY <2>1, StreamTypes DEF SndState
  <2>3. Done(t)' = Done(t)
    BY <1>1, <2>1, <2>2 DEF Done
  <2>4. Phased(t)' /\ InFlight(t)'
    BY <1>1, <2>1, <2>2 DEF Stands, Phased, InFlight
  <2>5. CaughtUp(t)'
    BY <1>1, <1>2, <1>4, <2>2, <2>3 DEF Stands, CaughtUp, Reached, Parted
  <2> QED BY <2>4, <2>5 DEF Stands
<1> QED BY <1>3, <1>4

\* The entry that comes off a pull is the one after all the receiver has.
LEMMA ReceiveStands ==
    ASSUME TypeOK, NEW t \in Xfer, Stands(t), Receive(t)
    PROVE  Stands(t)'
<1> DEFINE k == snd[t].pos
           l == Len(stream[t])
           e == Head(stream[t])
<1>1. /\ rcv[t].pc = "recv" /\ app[t].pc = "idle" /\ stream[t] # <<>>
      /\ UNCHANGED <<log, rcv, snd, failed>>
  BY DEF Receive
<1>2. k \in Nat /\ l \in Nat /\ stream[t] \in Seq(Entry) /\ l > 0 /\ t \in Appender
  BY <1>1, StreamTypes
<1>3. snd[t].pc \in {"send", "done"}
  BY <1>1, StreamTypes DEF Stands, Phased, SndStep
<1>4. stream'[t] = Tail(stream[t])
  BY DEF Receive, TypeOK
<1>5. /\ Len(stream'[t]) = l - 1 /\ DOMAIN stream'[t] = 1..(l - 1) /\ e = stream[t][1]
      /\ \A i \in 1..(l - 1) : stream'[t][i] = stream[t][i + 1]
      /\ DOMAIN stream[t] = 1..l
  BY <1>2, <1>4
<1>6. InFlight(t)'
  <2> SUFFICES ASSUME NEW i \in 1..(l - 1)
               PROVE  LET j == k - 1 - (l - 1) + i IN
                      j \in DOMAIN log[t.src] /\ stream'[t][i] = log[t.src][j]
    BY <1>1, <1>5 DEF InFlight
  <2>1. k - 1 - (l - 1) + i = k - 1 - l + (i + 1) /\ i + 1 \in 1..l
    <3>1. k \in Int /\ l \in Int
      BY <1>2
    <3> HIDE DEF k, l
    <3> QED BY <3>1
  <2> QED BY <1>5, <2>1 DEF Stands, InFlight
<1>7. Phased(t)'
  BY <1>1, <1>3 DEF Stands, Phased
<1>8. CaughtUp(t)'
  <2> SUFFICES ASSUME t \notin failed, t.kind # "push"
               PROVE  /\ Reached(t, Done(t))'
                      /\ Done(t)' + 1 \in DOMAIN log[t.src]
                      /\ app'[t].entry = log[t.src][Done(t)' + 1]
    BY <1>1 DEF Stands, CaughtUp
  <2>1. app'[t] = [pc |-> "index", entry |-> e]
    <3>1. EntrySet(t, e)
      BY DEF Receive, Skips
    <3> QED BY <1>2, <3>1 DEF EntrySet, TypeOK
  <2>2. Done(t)' = k - 1 - (l - 1) - 1
    BY <1>1, <1>5, <2>1 DEF Done
  <2>3. Done(t) = k - 1 - l - 0
    BY <1>1 DEF Done
  <2>4. Done(t)' = Done(t) /\ Done(t) + 1 = k - 1 - l + 1
    BY <1>2, <2>2, <2>3
  <2>5. Reached(t, Done(t))
    BY <1>1, <1>3 DEF Stands, CaughtUp
  <2>6. Reached(t, Done(t))'
    BY <1>1, <2>4, <2>5 DEF Reached, Parted
  <2>7. 1 \in DOMAIN stream[t]
    BY <1>2, <1>5
  <2>8. Done(t) + 1 \in DOMAIN log[t.src] /\ e = log[t.src][Done(t) + 1]
    BY <1>5, <2>4, <2>7 DEF Stands, InFlight
  <2> QED BY <2>1, <2>4, <2>6, <2>8
<1> QED BY <1>6, <1>7, <1>8 DEF Stands

LEMMA EndStands ==
    ASSUME TypeOK, NEW t \in Xfer, Stands(t), ReceiveEnd(t) \/ Break(t)
    PROVE  Stands(t)'
<1>1. CASE ReceiveEnd(t)
  <2>1. /\ UNCHANGED <<log, app, snd, stream>> /\ snd[t].pc = "done"
        /\ rcv'[t] = [rcv[t] EXCEPT !.pc = "done"]
    BY <1>1 DEF TypeOK, ReceiveEnd, store
  <2>2. rcv'[t].pc = "done"
    BY <2>1, StreamTypes DEF RcvState
  <2> QED BY <2>1, <2>2 DEF Stands, Phased, InFlight, CaughtUp
<1>2. CASE Break(t)
  <2>1. /\ UNCHANGED <<log, app>> /\ stream'[t] = <<>>
        /\ rcv'[t] = [rcv[t] EXCEPT !.pc = "done"]
        /\ snd'[t] = [snd[t] EXCEPT !.pc = "done"]
    BY <1>2 DEF TypeOK, Break, store
  <2>2. rcv'[t].pc = "done" /\ snd'[t].pc = "done"
    BY <2>1, StreamTypes DEF RcvState, SndState
  <2> QED BY <2>1, <2>2 DEF Stands, Phased, InFlight, CaughtUp
<1> QED BY <1>1, <1>2

LEMMA HandOverStands ==
    ASSUME TypeOK, NEW t \in Xfer, Stands(t), HandOver(t)
    PROVE  Stands(t)'
<1>1. /\ UNCHANGED <<log, rcv, snd, stream, failed>> /\ app[t].pc = "apply"
      /\ app'[t] = [app[t] EXCEPT !.pc = "idle"]
  BY StreamTypes DEF TypeOK, HandOver
<1>2. app'[t].pc = "idle"
  BY <1>1, StreamTypes DEF AppState
<1>3. Done(t)' = Done(t)
  BY <1>1, <1>2 DEF Done
<1> QED BY <1>1, <1>2, <1>3 DEF Stands, Phased, InFlight, CaughtUp, Reached, Parted

\* If the receiver's index turns the next entry down, then its log has that place
\* already, or has parted from the sender's.
LEMMA NextReached ==
    ASSUME TypeOK, Chained, NEW t \in Xfer, app[t].pc = "index", Reached(t, Done(t)),
           Done(t) + 1 \in DOMAIN log[t.src],
           app[t].entry = log[t.src][Done(t) + 1], Previous[app[t].entry] # Last(t.dst)
    PROVE  Reached(t, Done(t) + 1)
<1> DEFINE d == Done(t)
<1>1. d \in Nat /\ t.src \in Node /\ t.dst \in Node
      /\ log[t.src] \in Seq(Entry) /\ log[t.dst] \in Seq(Entry)
  BY StreamTypes
<1> HIDE DEF d
<1> SUFFICES ASSUME ~Parted(t.src, t.dst), d = Len(log[t.dst]) PROVE FALSE
  BY <1>1 DEF Reached, d
<1>2. Previous[app[t].entry] = IF d = 0 THEN Zero ELSE log[t.src][d]
  <2>1. d + 1 = 1 <=> d = 0
    BY <1>1
  <2>2. (d + 1) - 1 = d
    BY <1>1
  <2> QED BY <1>1, <2>1, <2>2 DEF Chained, d
<1>3. CASE d = 0
  <2>1. log[t.dst] = <<>>
    <3>1. \A s \in Seq(Entry) : Len(s) = 0 => s = <<>>
      OBVIOUS
    <3> QED BY <1>1, <1>3, <3>1
  <2> QED BY <1>2, <1>3, <2>1 DEF Last, LastOf
<1>4. CASE d # 0
  <2>1. d \in DOMAIN log[t.src] \cap DOMAIN log[t.dst] /\ log[t.dst] # <<>>
    BY <1>1, <1>4 DEF d
  <2>2. log[t.src][d] = log[t.dst][d]
    BY <2>1 DEF Parted
  <2> QED BY <1>2, <1>4, <2>1, <2>2 DEF Last, LastOf
<1> QED BY <1>3, <1>4

LEMMA IndexAppendStands ==
    ASSUME TypeOK, Chained, Grown, NEW t \in Xfer, Stands(t), IndexAppend(t)
    PROVE  Stands(t)'
<1>0. PICK d \in Int : d = Done(t)
  BY StreamTypes
<1>1. /\ UNCHANGED <<rcv, snd, stream, failed>> /\ app[t].pc = "index"
      /\ \/ Previous[app[t].entry] # Last(t.dst) /\ app'[t].pc # "index"
         \/ Appends(t) /\ app'[t].pc # "index"
  <2>1. At(t) = t.dst
    BY XferFields, AppenderAt
  <2>2. CASE Previous[app[t].entry] = Last(t.dst)
    <3>1. app' = [app EXCEPT ![t].pc = "apply"] /\ Appends(t)
      BY <2>1, <2>2 DEF IndexAppend, Appends
    <3>2. app'[t].pc = "apply"
      BY <3>1, StreamTypes DEF TypeOK, AppState
    <3> QED BY <2>2, <3>1, <3>2 DEF IndexAppend
  <2>3. CASE Previous[app[t].entry] # Last(t.dst)
    <3>1. app' = [app EXCEPT ![t].pc = "idle"]
      BY <2>1, <2>3 DEF IndexAppend
    <3>2. app'[t].pc = "idle"
      BY <3>1, StreamTypes DEF TypeOK, AppState
    <3> QED BY <2>3, <3>2 DEF IndexAppend
  <2> QED BY <2>2, <2>3
<1>2. t.src \in Node /\ t.dst \in Node /\ Len(log[t.src]) \in Nat
      /\ Len(log'[t.src]) \in Int /\ snd[t].upto \in Nat /\ Len(log[t.dst]) \in Nat
  BY StreamTypes DEF Grown
<1>3. Phased(t)'
  <2>1. Elems(log[t.dst]) \subseteq Elems(log'[t.dst]) /\ Len(log[t.src]) <= Len(log'[t.src])
    BY <1>2 DEF Grown
  <2> QED BY <1>1, <1>2, <2>1 DEF Stands, Phased
<1>4. InFlight(t)'
  BY <1>1, <1>2 DEF Stands, InFlight, Grown
<1>5. Done(t)' = d + 1
  <2>1. d = snd[t].pos - 1 - Len(stream[t]) - 1
    BY <1>0, <1>1 DEF Done
  <2>2. Done(t)' = snd[t].pos - 1 - Len(stream[t]) - 0
    BY <1>1 DEF Done
  <2> QED BY <2>1, <2>2, StreamTypes
<1>6. ASSUME rcv[t].pc = "recv", t \notin failed, snd[t].pc \in {"send", "done"},
             t.kind # "push"
      PROVE  Reached(t, d + 1)'
  <2>1. /\ Reached(t, d) /\ d + 1 \in DOMAIN log[t.src]
        /\ app[t].entry = log[t.src][d + 1]
    BY <1>0, <1>1, <1>6 DEF Stands, CaughtUp
  <2>2. CASE Previous[app[t].entry] # Last(t.dst)
    <3>1. Reached(t, d + 1)
      BY <1>0, <1>1, <2>1, <2>2, NextReached
    <3> QED BY <3>1, ReachedStays
  <2>3. CASE Appends(t)
    <3>1. Len(log'[t.dst]) = Len(log[t.dst]) + 1
      BY <2>3, AppendsAt, AppenderAt, XferFields
    <3>2. CASE Parted(t.src, t.dst)
      <4>1. Reached(t, d + 1)
        BY <3>2 DEF Reached
      <4> QED BY <4>1, ReachedStays
    <3>3. CASE d <= Len(log[t.dst])
      BY <1>2, <3>1, <3>3 DEF Reached
    <3> QED BY <2>1, <3>2, <3>3 DEF Reached
  <2> QED BY <1>1, <2>2, <2>3
<1>7. Reached(t, d + 1)' = Reached(t, Done(t))'
  BY <1>5
<1>8. CaughtUp(t)'
  BY <1>1, <1>6, <1>7 DEF Stands, CaughtUp
<1> QED BY <1>3, <1>4, <1>8 DEF Stands

LEMMA StreamedStep ==
    ASSUME TypeOK, Chained, Streamed, [Next]_vars
    PROVE  Streamed'
<1> SUFFICES ASSUME NEW t \in Xfer PROVE Stands(t)'
  BY DEF Streamed, Stands
<1>1. Stands(t) /\ Grown
  BY LogsGrow DEF Streamed, Stands
<1>2. CASE SameFor(t)
  BY <1>1, <1>2, SameStreamed DEF Stands
<1>3. CASE Acts(t)
  <2>1. CASE Start(t)
    BY <1>1, <2>1, StartStands DEF Start
  <2>2. CASE Transferring(t)
    BY <1>1, <2>2, CheckStands, RPCStands, IterStands, SendStands, ReceiveStands, EndStands
       DEF Transferring
  <2>3. CASE Break(t)
    BY <1>1, <2>3, EndStands
  <2>4. CASE Appending(t)
    BY <1>1, <2>4, IndexAppendStands, HandOverStands DEF Appending
  <2> QED BY <1>3, <2>1, <2>2, <2>3, <2>4 DEF Acts
<1> QED BY <1>2, <1>3, OneAtATime

-----------------------------------------------------------------------------
(* A pull that ends without an error.                                      *)

Caught(t) == (t.kind # "push" /\ rcv[t].pc = "done" /\ t \notin failed)
               => Reached(t, snd[t].upto)

\* Only the last entry's check and the end of the stream end a pull without an error.
LEMMA CaughtStep ==
    ASSUME TypeOK, Chained, Grown, NEW t \in Xfer, Stands(t), Caught(t), [Next]_vars
    PROVE  Caught(t)'
<1> SUFFICES ASSUME t.kind # "push", rcv'[t].pc = "done", t \notin failed'
             PROVE  Reached(t, snd[t].upto)'
  BY DEF Caught
<1>0. t.dst \in Node /\ log[t.dst] \in Seq(Entry) /\ snd[t].upto \in Nat
  BY StreamTypes
<1>1. ASSUME rcv[t].pc = "done", snd'[t].upto = snd[t].upto, t \in failed => t \in failed'
      PROVE  Reached(t, snd[t].upto)'
  <2>1. Reached(t, snd[t].upto)
    BY <1>1 DEF Caught
  <2> QED BY <1>0, <1>1, <2>1, ReachedStays DEF Reached, Parted
<1>2. CASE SameFor(t)
  BY <1>1, <1>2 DEF SameFor
<1>3. CASE AskLast(t)
  <2>1. snd'[t].upto = 0 /\ UNCHANGED log
    BY <1>3 DEF AskLast, Stands, Phased, store
  <2> QED BY <1>0, <2>1 DEF Reached
<1>4. CASE RequestOrDone(t) /\ UNCHANGED log
  <2>1. CASE UpToDate(t)
    <3>1. snd'[t].upto = Depth[Last(t.dst)]
      BY <1>4, <2>1, StreamTypes DEF TypeOK, RequestOrDone, UpToDate, SndState
    <3>2. Len(log[t.dst]) \in DOMAIN log[t.dst] /\ Last(t.dst) = log[t.dst][Len(log[t.dst])]
      BY <1>0, <2>1 DEF UpToDate, Last, LastOf
    <3>3. Depth[Last(t.dst)] = Len(log[t.dst])
      BY <1>0, <3>2 DEF Chained
    <3> QED BY <1>0, <1>4, <3>1, <3>3 DEF Reached
  <2>2. CASE ~UpToDate(t)
    BY <1>4, <2>2, StreamTypes DEF TypeOK, RequestOrDone, RcvState
  <2> QED BY <2>1, <2>2
<1>5. CASE CheckLast(t) \/ PullCreatesKey(t)
  <2>1. CASE RequestOrDone(t)
    BY <1>4, <1>5, <2>1 DEF CheckLast, PullCreatesKey, store
  <2>2. CASE ~RequestOrDone(t)
    <3>1. rcv'[t].pc = "create" \/ t \in failed'
      BY <1>5, <2>2, StreamTypes DEF TypeOK, RcvState, CheckLast, PullCreatesKey, Fail
    <3> QED BY <3>1
  <2> QED BY <2>1, <2>2
<1>6. CASE PullRPC(t) \/ IterStart(t) \/ Send(t)
  <2>1. rcv'[t].pc = "recv"
    BY <1>6 DEF PullRPC, IterStart, Send, Stands, Phased
  <2> QED BY <2>1
<1>7. CASE ReceiveEnd(t)
  <2>1. /\ rcv[t].pc = "recv" /\ snd[t].pc = "done" /\ stream[t] = <<>> /\ app[t].pc = "idle"
        /\ UNCHANGED <<log, snd, failed>>
    BY <1>7 DEF ReceiveEnd, store
  <2>2. snd[t].pos > snd[t].upto /\ Reached(t, Done(t))
    BY <2>1 DEF Stands, CaughtUp
  <2>3. Done(t) = snd[t].pos - 1
    <3>1. Done(t) = snd[t].pos - 1 - 0 - 0
      BY <2>1 DEF Done
    <3> QED BY <3>1, StreamTypes
  <2>4. Reached(t, snd[t].upto)
    BY <1>0, <2>2, <2>3, StreamTypes DEF Reached
  <2> QED BY <2>1, <2>4 DEF Reached, Parted
<1>8. CASE PushStart(t) \/ PushRPC(t)
  BY <1>8 DEF PushStart, PushRPC
<1>9. CASE Receive(t)
  BY <1>9 DEF Receive
<1>10. CASE Break(t)
  BY <1>10 DEF Break, Fail
<1>11. CASE Appending(t)
  BY <1>1, <1>11 DEF Appending, IndexAppend, HandOver
<1> QED
  BY <1>2, <1>3, <1>5, <1>6, <1>7, <1>8, <1>9, <1>10, <1>11, OneAtATime
     DEF Acts, Start, Transferring

LEMMA PullCatchesUpStep ==
    ASSUME TypeOK, Chained, Streamed, PullCatchesUp, [Next]_vars
    PROVE  PullCatchesUp'
<1> SUFFICES ASSUME NEW t \in Xfer PROVE Caught(t)'
  BY DEF PullCatchesUp, Caught
<1>1. Stands(t) /\ Caught(t) /\ Grown
  BY LogsGrow DEF Streamed, Stands, PullCatchesUp, Caught
<1> QED BY <1>1, CaughtStep

-----------------------------------------------------------------------------
(* The theorems.                                                           *)

Inv == TypeOK /\ TransferInv /\ HandedOnce /\ PullCatchesUp

LEMMA InvStep ==
    ASSUME Inv, [Next]_vars
    PROVE  Inv'
<1>1. TypeOK /\ Chained /\ Agree /\ Sourced /\ OwedOnce /\ Streamed /\ HandedOnce
      /\ PullCatchesUp
  BY DEF Inv, TransferInv
<1>2. TypeOK' /\ Chained' /\ Agree'
  BY <1>1, TypeStep, ChainedStep, AgreeStep
<1>3. Sourced' /\ OwedOnce' /\ HandedOnce'
  BY <1>1, SourcedStep, OwedOnceStep, HandedOnceStep
<1>4. Streamed' /\ PullCatchesUp'
  BY <1>1, StreamedStep, PullCatchesUpStep
<1> QED BY <1>2, <1>3, <1>4 DEF Inv, TransferInv

\* The inductive invariant holds, whatever nodes, entries, transfers and windows there are.
THEOREM TransferInductive == Spec => []Inv
<1>1. Init => Inv
  BY InitInv DEF Inv
<1>2. Inv /\ [Next]_vars => Inv'
  BY InvStep
<1> QED BY <1>1, <1>2, PTL DEF Spec

\* Every variable keeps its type: an iteration never runs past the end of the log it
\* reads (keylogindex.go, Iter).
THEOREM TransferTypes == Spec => []TypeOK
<1>1. Inv => TypeOK
  BY DEF Inv
<1> QED BY <1>1, TransferInductive, PTL

\* The logs are chains that agree up to any entry they share at a place, and the streams
\* carry the sender's entries in order.
THEOREM StreamsInOrder == Spec => []TransferInv
<1>1. Inv => TransferInv
  BY DEF Inv
<1> QED BY <1>1, TransferInductive, PTL

\* Each entry of a log is handed to the FSM once or owed to it by one appender
\* (hlog.append, PushKeylogRPC, checkVotesAndCommit).
THEOREM EachHandedOnce == Spec => []HandedOnce
<1>1. Inv => HandedOnce
  BY DEF Inv
<1> QED BY <1>1, TransferInductive, PTL

\* A pull that ends without an error has brought what the sender had when it was asked
\* (net.go, PullKeylog).
THEOREM PullsCatchUp == Spec => []PullCatchesUp
<1>1. Inv => PullCatchesUp
  BY DEF Inv
<1> QED BY <1>1, TransferInductive, PTL

\* An append by a node is a vote of the abstract specification, one by a transfer a copy
\* from a sender that is ahead; every other step leaves the logs alone.
LEMMA CopiesStep ==
    ASSUME Inv, [Next]_vars
    PROVE  [Copies!Next]_log
<1>0. TypeOK /\ Chained /\ Agree /\ Sourced
  BY DEF Inv, TransferInv
<1> SUFFICES ASSUME NEW a \in Appender, Appends(a) PROVE Copies!Next
  BY LogStep
<1> DEFINE n == At(a)
           e == app[a].entry
           k == Len(log[n])
<1>1. /\ n \in Node /\ e \in Entry /\ k \in Nat /\ log[n] \in Seq(Entry)
      /\ Previous[e] = IF k = 0 THEN Zero ELSE log[n][k]
      /\ Depth[e] = k + 1
  BY <1>0, AppendsAt
<1>2. app[a].pc = "index" /\ log' = [log EXCEPT ![n] = Append(@, e)] /\ Previous[e] = Last(n)
  BY DEF Appends
<1>3. CASE a \in Node
  <2>1. n = a /\ e \in Voted[n]
    BY <1>0, <1>2, <1>3 DEF Sourced, At
  <2>2. Copies!Vote(n, e)
    BY <1>2, <2>1 DEF Copies!Vote, Copies!LastOf, Last, LastOf
  <2> QED BY <1>1, <2>2 DEF Copies!Next
<1>4. CASE a \in Xfer
  <2> DEFINE m == a.src
  <2>1. n = a.dst /\ m \in Node /\ e \in Elems(log[m]) /\ log[m] \in Seq(Entry)
    BY <1>0, <1>2, <1>4, XferFields, AppenderAt DEF Sourced, TypeOK
  <2> HIDE DEF n, e, m
  <2>2. PICK i \in DOMAIN log[m] : e = log[m][i]
    BY <2>1 DEF Elems
  <2>3. i = k + 1
    BY <1>0, <1>1, <2>1, <2>2 DEF Chained
  <2>4. k < Len(log[m]) /\ e = log[m][k + 1]
    BY <1>1, <2>1, <2>2, <2>3
  <2>5. \A j \in DOMAIN log[n] : log[m][j] = log[n][j]
    <3>1. CASE k = 0
      BY <1>1, <3>1
    <3>2. CASE k # 0
      <4>1. Previous[e] = log[m][k]
        <5>1. i # 1 /\ i - 1 = k
          BY <1>1, <2>3, <3>2
        <5> QED BY <1>0, <2>1, <2>2, <5>1 DEF Chained
      <4>2. k \in DOMAIN log[m] \cap DOMAIN log[n] /\ log[m][k] = log[n][k]
        BY <1>1, <2>1, <2>4, <3>2, <4>1
      <4>3. \A j \in 1..k : log[m][j] = log[n][j]
        BY <1>0, <1>1, <2>1, <4>2 DEF Agree
      <4> QED BY <1>1, <4>3
    <3> QED BY <3>1, <3>2
  <2>6. Copies!Copy(n, m)
    BY <1>1, <1>2, <2>4, <2>5 DEF Copies!Copy, Copies!Ahead
  <2> QED BY <1>1, <2>1, <2>6 DEF Copies!Next
<1> QED BY <1>3, <1>4 DEF Appender

\* Streams, locks and requests implement the abstract copying of logs: a node's log grows
\* by a vote or by the next entry of a log that is ahead of it (PullKeylog, append).
THEOREM TransferCopies == Spec => CopiesOnly
<1>1. Init => Copies!Init
  BY DEF Init, Copies!Init
<1>2. Inv /\ [Next]_vars => [Copies!Next]_log
  BY CopiesStep
<1> QED BY <1>1, <1>2, TransferInductive, PTL DEF Spec, CopiesOnly, Copies!Spec

-----------------------------------------------------------------------------
(* Nobody is stuck.                                                        *)

Ready == (\E a \in Appender : CanAppend(a)) \/ (\E t \in Xfer : CanTransfer(t))

\* A sender that waits for room on its stream waits for the receiver, which appends: it
\* waits for the readers of its own node.
LEMMA ReadersWaitFor ==
    ASSUME TypeOK, Streamed, ~Ready, NEW n \in Node, NEW t \in Readers(n)
    PROVE  t.src = n /\ t.dst \in Node /\ Readers(t.dst) # {}
<1>1. t \in Xfer /\ t.src = n /\ snd[t].pc = "send" /\ ~CanTransfer(t)
  BY DEF Readers, Ready
<1>2. t.dst \in Node /\ t \in Appender /\ ~CanAppend(t) /\ At(t) = t.dst
  BY <1>1, XferFields, AppenderAt DEF Ready, Appender
<1>3. rcv[t].pc = "recv"
  BY <1>1 DEF Streamed, Phased
<1>4. stream[t] # <<>>
  BY <1>1, StreamTypes, TransferAssumption DEF CanTransfer
<1>5. app[t].pc # "idle"
  BY <1>1, <1>3, <1>4 DEF CanTransfer
<1>6. app[t] \in AppState
  BY <1>2 DEF TypeOK
<1> QED BY <1>1, <1>2, <1>5, <1>6 DEF CanAppend, AppState

\* Along the routes such waits end at a node that sends to nobody who is waited for.
LEMMA SomeReaderGoesOn ==
    ASSUME TypeOK, Streamed, NoCycle, ~Ready
    PROVE  \A n \in Node : Readers(n) = {}
<1> DEFINE S == {n \in Node : Readers(n) # {}}
<1> SUFFICES ASSUME S # {} PROVE FALSE
  OBVIOUS
<1>1. S \in (SUBSET Node) \ {{}}
  <2>1. S \subseteq Node
    OBVIOUS
  <2> HIDE DEF S
  <2> QED BY <2>1
<1>2. PICK n \in S : \A t \in Xfer : t.src = n => t.dst \notin S
  BY <1>1 DEF NoCycle
<1>3. PICK t \in Readers(n) : TRUE
  BY <1>2
<1>4. t \in Xfer
  BY <1>3 DEF Readers
<1>5. t.src = n /\ t.dst \in S
  BY <1>2, <1>3, ReadersWaitFor
<1> QED BY <1>2, <1>4, <1>5

\* So nobody waits to append, and the readers may go on.
LEMMA NobodyAppends ==
    ASSUME TypeOK, Streamed, NoCycle, ~Ready
    PROVE  /\ \A a \in Appender : app[a].pc = "idle"
           /\ \A n \in Node : MayRead(n)
<1>1. ASSUME NEW a \in Appender PROVE app[a].pc = "idle"
  <2>1. At(a) \in Node /\ app[a] \in AppState /\ ~CanAppend(a)
    BY AppenderAt DEF TypeOK, Ready
  <2>2. Readers(At(a)) = {}
    BY <2>1, SomeReaderGoesOn
  <2> QED BY <2>1, <2>2 DEF CanAppend, AppState
<1> QED BY <1>1 DEF MayRead, Writers

LEMMA NobodyStuckNow ==
    ASSUME Inv
    PROVE  NobodyStuck
<1>1. TypeOK /\ Streamed
  BY DEF Inv, TransferInv
<1> SUFFICES ASSUME NoCycle, ~Ready PROVE ~Busy
  BY DEF NobodyStuck, Ready
<1>2. /\ \A a \in Appender : app[a].pc = "idle"
      /\ \A n \in Node : MayRead(n)
  BY <1>1, NobodyAppends
<1>3. ASSUME NEW t \in Started PROVE rcv[t].pc = "done" /\ snd[t].pc \in {"off", "done"}
  <2>1. t \in Xfer /\ t \in Appender /\ rcv[t].pc # "off" /\ ~CanTransfer(t)
    BY DEF Started, Appender, Ready
  <2>2. t.src \in Node /\ t.dst \in Node /\ rcv[t].pc \in RcvStep /\ snd[t].pc \in SndStep
    BY <1>1, <2>1, XferFields DEF TypeOK, RcvState, SndState
  <2>3. Phased(t)
    BY <1>1, <2>1 DEF Streamed
  <2>4. rcv[t].pc \notin {"check", "create"} /\ snd[t].pc \notin {"hello", "iter"}
    BY <1>2, <2>1, <2>2 DEF CanTransfer
  <2>5. rcv[t].pc # "recv"
    <3>1. SUFFICES ASSUME rcv[t].pc = "recv" PROVE FALSE
      OBVIOUS
    <3>2. stream[t] = <<>> /\ snd[t].pc # "done"
      BY <1>2, <2>1, <3>1 DEF CanTransfer
    <3>3. snd[t].pc = "send"
      BY <2>2, <2>3, <2>4, <3>1, <3>2 DEF Phased, SndStep
    <3> QED BY <2>1, <3>2, <3>3, TransferAssumption DEF CanTransfer
  <2> QED BY <2>1, <2>2, <2>3, <2>4, <2>5 DEF Phased, RcvStep, SndStep
<1> QED BY <1>2, <1>3 DEF Busy

\* Senders that hold the lock of the index while they wait for room, and appends that wait
\* for that lock and keep readers out (Iter, AppendEntry), never all wait for each other
\* as long as the routes of the transfers form no cycle.
THEOREM NeverStuck == Spec => []NobodyStuck
<1>1. Inv => NobodyStuck
  BY NobodyStuckNow
<1> QED BY <1>1, TransferInductive, PTL
=============================================================================

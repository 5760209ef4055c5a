----------------------------- MODULE SeedProofs ------------------------------
(***************************************************************************)
(* Proofs about Seed, for any set of keys, workers and capacities: type    *)
(* correctness, that Seed only returns nil when every listed key has       *)
(* caught up or has its error logged, and that a NewKey that waits for the *)
(* lock always has somebody that goes on and will release it.              *)
(***************************************************************************)
EXTENDS Seed, FiniteSetTheorems, TLAPS, WellFoundedInduction

Elems(s) == {s[i] : i \in DOMAIN s}

LEMMA AppendElems ==
    ASSUME NEW S, NEW s \in Seq(S), NEW e \in S
    PROVE  /\ Append(s, e) \in Seq(S) /\ Len(Append(s, e)) = Len(s) + 1
           /\ Elems(Append(s, e)) = Elems(s) \cup {e}
<1>1. /\ Append(s, e) \in Seq(S) /\ Len(Append(s, e)) = Len(s) + 1
      /\ \A i \in 1..Len(s) : Append(s, e)[i] = s[i]
      /\ Append(s, e)[Len(s) + 1] = e
  OBVIOUS
<1>2. DOMAIN s = 1..Len(s) /\ DOMAIN Append(s, e) = 1..(Len(s) + 1) /\ Len(s) \in Nat
  BY <1>1
<1>3. Elems(s) \cup {e} \subseteq Elems(Append(s, e))
  BY <1>1, <1>2 DEF Elems
<1>4. Elems(Append(s, e)) \subseteq Elems(s) \cup {e}
  BY <1>1, <1>2 DEF Elems
<1> QED BY <1>1, <1>3, <1>4

LEMMA TailElems ==
    ASSUME NEW S, NEW s \in Seq(S), s # <<>>
    PROVE  /\ Head(s) \in S /\ Tail(s) \in Seq(S) /\ Len(Tail(s)) = Len(s) - 1
           /\ Elems(s) = Elems(Tail(s)) \cup {Head(s)}
<1>1. /\ Head(s) = s[1] /\ Head(s) \in S /\ Tail(s) \in Seq(S) /\ Len(Tail(s)) = Len(s) - 1
      /\ \A i \in 1..(Len(s) - 1) : Tail(s)[i] = s[i + 1]
  OBVIOUS
<1>2. DOMAIN s = 1..Len(s) /\ DOMAIN Tail(s) = 1..(Len(s) - 1) /\ Len(s) \in Nat \ {0}
  BY <1>1
<1>3. Elems(Tail(s)) \cup {Head(s)} \subseteq Elems(s)
  BY <1>1, <1>2 DEF Elems
<1>4. ASSUME NEW i \in DOMAIN s PROVE s[i] \in Elems(Tail(s)) \cup {Head(s)}
  <2>1. CASE i = 1
    BY <1>1, <2>1
  <2>2. CASE i # 1
    <3>1. i - 1 \in 1..(Len(s) - 1) /\ s[i] = Tail(s)[i - 1]
      BY <1>1, <1>2, <2>2
    <3> QED BY <3>1, <1>2 DEF Elems
  <2> QED BY <2>1, <2>2
<1> QED BY <1>1, <1>3, <1>4 DEF Elems

\* Keys have an order, so that the least of some of them exists.
LEMMA MinIsLeast ==
    ASSUME NEW S \in SUBSET Nat, S # {}
    PROVE  Min(S) \in S /\ \A k \in S : Min(S) <= k
<1> DEFINE Less == {p \in Nat \X Nat : p[1] < p[2]}
<1>1. IsWellFoundedOn(Less, Nat)
  BY NatLessThanWellFounded DEF OpToRel
<1>2. PICK m \in S : \A k \in S : <<k, m>> \notin Less
  BY <1>1, WFMin
<1>3. ASSUME NEW k \in S PROVE m <= k
  <2>1. k \in Nat /\ m \in Nat /\ <<k, m>> \notin Less
    BY <1>2
  <2> QED BY <2>1
<1> QED BY <1>2, <1>3 DEF Min

LEMMA LeastKey ==
    ASSUME NEW S \in SUBSET Key, S # {}
    PROVE  Min(S) \in S /\ Min(S) \in Key
<1>1. Key \subseteq Nat
  BY DEF Key
<1> QED BY <1>1, MinIsLeast

-----------------------------------------------------------------------------
\* What the steps rely on: a NewKey that waits has a key left to create, and whoever
\* works on a seed holds a key.
Busy == {"check", "create", "ask", "pull"}
HeldKeys ==
    /\ creator = "waits" => remote # Key
    /\ loop.pc = "put" => loop.key \in Key
    /\ \A w \in Worker : worker[w].pc \in Busy => worker[w].key \in Key

\* Where a listed key can be on its way through Seed.
Working(k) == \E w \in Worker : worker[w].pc \in Busy /\ worker[w].key = k
OnItsWay(k) ==
    \/ k \in rpc.rest \/ k \in Elems(stream)
    \/ loop.pc = "put" /\ loop.key = k
    \/ k \in Elems(seeds) \/ Working(k)

\* No listed key gets lost until the stream breaks; the stream has ended once the loop
\* waits for the workers, and a worker that has ended leaves no seed behind.
Accounted(k) == OnItsWay(k) \/ local[k] = "same" \/ k \in logged
SeedInv ==
    /\ loop.pc # "error" => \A k \in listed : Accounted(k)
    /\ rpc.pc = "done" => rpc.rest = {} \/ loop.pc = "error"
    /\ loop.pc \in {"wait", "ok"} => rpc.pc = "done" /\ stream = <<>>
    /\ \A w \in Worker : worker[w].pc = "end" => SeedsClosed /\ seeds = <<>>
    /\ loop.pc = "ok" => \A w \in Worker : worker[w].pc = "end"

IInv == TypeOK /\ HeldKeys /\ SeedInv

-----------------------------------------------------------------------------
LoopState == [pc : {"off", "recv", "put", "wait", "ok", "error"}, key : KeyOrNone]
WorkerState == [pc : {"idle", "check", "create", "ask", "pull", "end"}, key : KeyOrNone]

LEMMA InitInv == Init => IInv
<1> SUFFICES ASSUME Init PROVE IInv
  OBVIOUS
<1>1. TypeOK
  <2>1. remote \subseteq Key
    BY SeedAssumption DEF Init
  <2>2. local \in [Key -> Local]
    BY SeedAssumption DEF Init, Local
  <2> QED BY <2>1, <2>2, SeedAssumption DEF Init, TypeOK, KeyOrNone
<1>2. HeldKeys
  BY DEF Init, HeldKeys, Busy
<1>3. SeedInv
  BY DEF Init, SeedInv
<1> QED BY <1>1, <1>2, <1>3 DEF IInv

\* A worker that goes on keeps its key, and one that is done has none.
LEMMA WorkerStep ==
    ASSUME TypeOK, HeldKeys, NEW w \in Worker, NEW st \in WorkerState,
           st.pc \in Busy => st.key \in Key,
           worker' = [worker EXCEPT ![w] = st]
    PROVE  /\ worker' \in [Worker -> WorkerState]
           /\ worker'[w] = st /\ \A v \in Worker \ {w} : worker'[v] = worker[v]
           /\ \A v \in Worker : worker'[v].pc \in Busy => worker'[v].key \in Key
<1>1. worker \in [Worker -> WorkerState]
  BY DEF TypeOK, WorkerState
<1>2. \A v \in Worker : worker[v].pc \in Busy => worker[v].key \in Key
  BY DEF HeldKeys
<1> QED BY <1>1, <1>2

LEMMA GotoStep ==
    ASSUME TypeOK, HeldKeys, NEW w \in Worker,
           NEW pc \in {"check", "create", "ask", "pull", "end"},
           Goto(w, pc), worker[w].pc \in Busy \/ pc = "end"
    PROVE  \E st \in WorkerState : /\ worker' = [worker EXCEPT ![w] = st]
                                   /\ st.pc = pc /\ st.key = worker[w].key
                                   /\ st.pc \in Busy => st.key \in Key
<1>1. worker[w] \in WorkerState /\ (worker[w].pc \in Busy => worker[w].key \in Key)
  BY DEF TypeOK, WorkerState, HeldKeys
<1>2. PICK st : st = [worker[w] EXCEPT !.pc = pc]
  OBVIOUS
<1>3. st \in WorkerState /\ st.pc = pc /\ st.key = worker[w].key
  BY <1>1, <1>2 DEF WorkerState
<1>4. worker' = [worker EXCEPT ![w] = st]
  BY <1>2 DEF Goto
<1>5. st.pc \in Busy => st.key \in Key
  BY <1>1, <1>3 DEF Busy
<1> QED BY <1>3, <1>4, <1>5

LEMMA DoneStep ==
    ASSUME TypeOK, HeldKeys, NEW w \in Worker, Next1(w)
    PROVE  \E st \in WorkerState : /\ worker' = [worker EXCEPT ![w] = st]
                                   /\ st.pc = "idle" /\ st.pc \notin Busy
<1>1. [pc |-> "idle", key |-> 0] \in WorkerState
  BY DEF WorkerState, KeyOrNone
<1> QED BY <1>1 DEF Next1, Busy

\* Type correctness and HeldKeys are preserved together: only a key may be worked on.
LEMMA TypeStep ==
    ASSUME TypeOK, HeldKeys, [Next]_vars
    PROVE  TypeOK' /\ HeldKeys'
<1> DEFINE Goal == TypeOK' /\ HeldKeys'
<1>0. worker \in [Worker -> WorkerState] /\ loop \in LoopState
  BY DEF TypeOK, WorkerState, LoopState
<1>1. CASE SeedCalled
  BY <1>1 DEF SeedCalled, TypeOK, HeldKeys
<1>2. CASE CreateCalled
  BY <1>2 DEF CreateCalled, TypeOK, HeldKeys
<1>3. CASE Create
  <2>1. Min(Key \ remote) \in Key
    BY <1>3, LeastKey DEF Create, TypeOK, HeldKeys
  <2> QED BY <1>3, <2>1 DEF Create, TypeOK, HeldKeys
<1>4. CASE IterStart
  BY <1>4 DEF IterStart, TypeOK, HeldKeys
<1>5. CASE SendSeed
  <2>1. CASE rpc.rest = {}
    BY <1>5, <2>1 DEF SendSeed, TypeOK, HeldKeys
  <2>2. CASE rpc.rest # {}
    <3>1. Min(rpc.rest) \in Key
      BY <2>2, LeastKey DEF TypeOK
    <3>2. /\ stream \in Seq(Key) /\ Len(stream) < Window
          /\ stream' = Append(stream, Min(rpc.rest))
      BY <1>5, <2>2 DEF SendSeed, TypeOK
    <3>4. stream' \in Seq(Key) /\ Len(stream') <= Window
      BY <3>1, <3>2, AppendElems, SeedAssumption
    <3>3. rpc' \in [pc : {"off", "lock", "send", "done"}, rest : SUBSET Key]
      BY <1>5, <2>2 DEF SendSeed, TypeOK
    <3> QED BY <1>5, <3>3, <3>4 DEF SendSeed, TypeOK, HeldKeys
  <2> QED BY <2>1, <2>2
<1>6. CASE RecvSeed
  <2>1. Head(stream) \in Key /\ Tail(stream) \in Seq(Key) /\ Len(Tail(stream)) = Len(stream) - 1
    BY <1>6, TailElems DEF RecvSeed, TypeOK
  <2>2. Len(Tail(stream)) <= Window
    BY <2>1, SeedAssumption DEF TypeOK
  <2> QED BY <1>6, <2>1, <2>2 DEF RecvSeed, TypeOK, HeldKeys, KeyOrNone
<1>7. CASE PutSeed
  <2>1. loop.key \in Key
    BY <1>7 DEF PutSeed, HeldKeys
  <2>2. seeds' \in Seq(Key) /\ Len(seeds') <= Bufsize
    BY <1>7, <2>1, AppendElems, SeedAssumption DEF PutSeed, TypeOK
  <2> QED BY <1>7, <2>2 DEF PutSeed, TypeOK, HeldKeys, KeyOrNone
<1>8. CASE RecvEOF \/ SeedReturns
  BY <1>8 DEF RecvEOF, SeedReturns, TypeOK, HeldKeys
<1>9. CASE StreamBreaks
  <2>1. stream' \in Seq(Key) /\ Len(stream') <= Window
    BY <1>9, SeedAssumption DEF StreamBreaks
  <2> QED BY SMTT(30), <1>9, <2>1 DEF StreamBreaks, TypeOK, HeldKeys
<1>10. ASSUME NEW w \in Worker, TakeSeed(w) PROVE Goal
  <2>1. Head(seeds) \in Key /\ Tail(seeds) \in Seq(Key) /\ Len(Tail(seeds)) = Len(seeds) - 1
    BY <1>10, TailElems DEF TakeSeed, TypeOK
  <2>2. Len(seeds') <= Bufsize /\ seeds' \in Seq(Key)
    BY <1>10, <2>1, SeedAssumption DEF TakeSeed, TypeOK
  <2>3. [pc |-> "check", key |-> Head(seeds)] \in WorkerState
    BY <2>1 DEF WorkerState, KeyOrNone
  <2>4. /\ worker' \in [Worker -> WorkerState]
        /\ \A v \in Worker : worker'[v].pc \in Busy => worker'[v].key \in Key
    BY <1>0, <1>10, <2>1, <2>3 DEF TakeSeed, HeldKeys
  <2> QED BY <1>10, <2>2, <2>4 DEF TakeSeed, TypeOK, HeldKeys, WorkerState
<1>11. ASSUME NEW w \in Worker, \/ WorkerEnds(w) \/ CheckLast(w) \/ AskRemote(w) PROVE Goal
  <2>1. UNCHANGED <<remote, local, creator, rpc, listed, stream, loop, seeds, logged,
                    creates, breaks>>
    BY <1>11 DEF WorkerEnds, CheckLast, AskRemote
  <2>2. \/ \E pc \in {"check", "create", "ask", "pull", "end"} :
             Goto(w, pc) /\ (worker[w].pc \in Busy \/ pc = "end")
        \/ Next1(w)
    <3>1. CASE WorkerEnds(w)
      BY <3>1 DEF WorkerEnds
    <3>2. CASE CheckLast(w)
      <4>1. worker[w].key \in Key /\ worker[w].pc \in Busy
        BY <3>2 DEF CheckLast, HeldKeys, Busy
      <4>2. local[worker[w].key] \in Local
        BY <4>1 DEF TypeOK
      <4> QED BY <3>2, <4>1, <4>2 DEF CheckLast, Local
    <3>3. CASE AskRemote(w)
      BY <3>3 DEF AskRemote, Busy
    <3> QED BY <1>11, <3>1, <3>2, <3>3
  <2>3. /\ worker' \in [Worker -> WorkerState]
        /\ \A v \in Worker : worker'[v].pc \in Busy => worker'[v].key \in Key
    <3>1. CASE Next1(w)
      BY <3>1, DoneStep, WorkerStep
    <3>2. ASSUME NEW pc \in {"check", "create", "ask", "pull", "end"},
                 Goto(w, pc), worker[w].pc \in Busy \/ pc = "end"
          PROVE  \E st \in WorkerState : /\ worker' = [worker EXCEPT ![w] = st]
                                         /\ st.pc \in Busy => st.key \in Key
      BY <3>2, GotoStep
    <3> QED BY <2>2, <3>1, <3>2, WorkerStep
  <2> QED BY <2>1, <2>3 DEF TypeOK, HeldKeys, WorkerState
<1>12. ASSUME NEW w \in Worker, \/ CreateLocal(w) \/ Pulled(w) \/ PullBreaks(w) PROVE Goal
  <2>0. worker[w].pc \in Busy /\ worker[w].key \in Key
    BY <1>12 DEF CreateLocal, Pulled, PullBreaks, Busy, HeldKeys
  <2>1. UNCHANGED <<remote, creator, rpc, listed, stream, loop, seeds, creates>>
    BY <1>12 DEF CreateLocal, Pulled, PullBreaks
  <2>2. Goto(w, "ask") \/ Next1(w)
    BY <1>12 DEF CreateLocal, Pulled, PullBreaks
  <2>3. /\ worker' \in [Worker -> WorkerState]
        /\ \A v \in Worker : worker'[v].pc \in Busy => worker'[v].key \in Key
    <3>1. CASE Next1(w)
      BY <3>1, DoneStep, WorkerStep
    <3>2. CASE Goto(w, "ask")
      BY <2>0, <3>2, GotoStep, WorkerStep
    <3> QED BY <2>2, <3>1, <3>2
  <2>4. local' \in [Key -> Local]
    <3>1. "behind" \in Local /\ "same" \in Local
      BY DEF Local
    <3>2. \/ local' = local \/ local' = [local EXCEPT ![worker[w].key] = "behind"]
          \/ local' = [local EXCEPT ![worker[w].key] = "same"]
      BY <1>12 DEF CreateLocal, Pulled, PullBreaks
    <3> QED BY <2>0, <3>1, <3>2 DEF TypeOK
  <2>5. logged' \subseteq Key /\ breaks' \in Nat
    <3>1. logged' \subseteq logged \cup {worker[w].key} /\ breaks' \in {breaks, breaks + 1}
      BY <1>12 DEF CreateLocal, Pulled, PullBreaks
    <3> QED BY <2>0, <3>1 DEF TypeOK
  <2> QED BY <2>1, <2>3, <2>4, <2>5 DEF TypeOK, HeldKeys, WorkerState
<1>13. ASSUME NEW k \in Key, ProposedHere(k) PROVE Goal
  BY <1>13 DEF ProposedHere, TypeOK, HeldKeys, Local
<1>14. CASE UNCHANGED vars
  BY <1>14 DEF vars, TypeOK, HeldKeys
<1> QED BY <1>1, <1>2, <1>3, <1>4, <1>5, <1>6, <1>7, <1>8, <1>9, <1>10, <1>11, <1>12, <1>13,
           <1>14 DEF Next, SeedRPC, Loop, Work

-----------------------------------------------------------------------------
\* A worker only changes its own state.
LEMMA OwnStep ==
    ASSUME TypeOK, HeldKeys, NEW w \in Worker, Work(w) \/ PullBreaks(w),
           NEW v \in Worker \ {w}
    PROVE  worker'[v] = worker[v]
<1>0. worker \in [Worker -> WorkerState]
  BY DEF TypeOK, WorkerState
<1>1. ASSUME NEW pc, Goto(w, pc) PROVE worker'[v] = worker[v]
  BY <1>0, <1>1 DEF Goto
<1>2. CASE Next1(w)
  BY <1>0, <1>2 DEF Next1
<1>3. CASE TakeSeed(w)
  BY <1>0, <1>3 DEF TakeSeed
<1>4. CASE CheckLast(w)
  <2>1. local[worker[w].key] \in Local
    BY <1>4 DEF CheckLast, HeldKeys, Busy, TypeOK
  <2> QED BY <1>1, <1>2, <1>4, <2>1 DEF CheckLast, Local
<1>5. WorkerEnds(w) \/ CreateLocal(w) \/ AskRemote(w) => \E pc : Goto(w, pc) \/ Next1(w)
  BY DEF WorkerEnds, CreateLocal, AskRemote
<1>6. Pulled(w) \/ PullBreaks(w) => Next1(w)
  BY DEF Pulled, PullBreaks
<1> QED BY <1>1, <1>2, <1>3, <1>4, <1>5, <1>6 DEF Work

\* A worker that is replaced still works on every key the others worked on.
LEMMA WorkingStep ==
    ASSUME NEW w \in Worker, \A v \in Worker \ {w} : worker'[v] = worker[v],
           NEW k, Working(k), ~(worker[w].pc \in Busy /\ worker[w].key = k)
    PROVE  Working(k)'
BY DEF Working

\* Each step keeps the listed keys accounted for.
LEMMA AccountedStep ==
    ASSUME IInv, [Next]_vars, loop'.pc # "error", NEW k \in listed'
    PROVE  Accounted(k)'
<1>0. TypeOK /\ HeldKeys /\ SeedInv /\ k \in Key
  <2>1. TypeOK' BY TypeStep DEF IInv
  <2> QED BY <2>1 DEF IInv, TypeOK
<1>1. CASE SeedCalled \/ CreateCalled \/ Create
  BY <1>0, <1>1 DEF SeedCalled, CreateCalled, Create, SeedInv, Accounted, OnItsWay, Working,
       TypeOK
<1>2. CASE IterStart
  BY <1>2 DEF IterStart, Accounted, OnItsWay
<1>3. CASE UNCHANGED vars
  BY <1>0, <1>3 DEF vars, SeedInv, Accounted, OnItsWay, Working
<1>a. CASE StreamBreaks
  BY <1>0, <1>a DEF StreamBreaks, TypeOK
<1>b. ASSUME ~IterStart, listed' = listed, loop.pc = "error" => loop'.pc = "error"
      PROVE  Accounted(k)
  BY <1>0, <1>b DEF SeedInv
<1>4. CASE SendSeed
  <2>1. Accounted(k)
    BY <1>4, <1>b DEF SendSeed, IterStart
  <2>2. UNCHANGED <<loop, local, logged, seeds, worker>>
    BY <1>4 DEF SendSeed
  <2>3. CASE rpc.rest = {}
    BY <1>4, <2>1, <2>2, <2>3 DEF SendSeed, Accounted, OnItsWay, Working
  <2>4. CASE rpc.rest # {}
    <3>1. /\ stream \in Seq(Key) /\ stream' = Append(stream, Min(rpc.rest))
          /\ rpc'.rest = rpc.rest \ {Min(rpc.rest)}
      BY <1>0, <1>4, <2>4 DEF SendSeed, TypeOK
    <3>2. Min(rpc.rest) \in Key
      BY <1>0, <2>4, LeastKey DEF TypeOK
    <3>3. Elems(stream') = Elems(stream) \cup {Min(rpc.rest)}
      BY <3>1, <3>2, AppendElems
    <3> QED BY <2>1, <2>2, <3>1, <3>3 DEF Accounted, OnItsWay, Working
  <2> QED BY <2>3, <2>4
<1>5. CASE RecvSeed
  <2>1. Accounted(k)
    BY <1>5, <1>b DEF RecvSeed, IterStart
  <2>2. /\ UNCHANGED <<rpc, local, logged, seeds, worker>> /\ loop.pc = "recv"
        /\ loop'.pc = "put" /\ loop'.key = Head(stream) /\ stream' = Tail(stream)
    BY <1>5 DEF RecvSeed
  <2>3. Elems(stream) = Elems(Tail(stream)) \cup {Head(stream)}
    BY <1>0, <1>5, TailElems DEF RecvSeed, TypeOK
  <2> QED BY <2>1, <2>2, <2>3 DEF Accounted, OnItsWay, Working
<1>6. CASE PutSeed
  <2>1. Accounted(k)
    BY <1>6, <1>b DEF PutSeed, IterStart
  <2>2. /\ UNCHANGED <<rpc, local, logged, stream, worker>> /\ loop.pc = "put"
        /\ loop'.pc = "recv" /\ seeds' = Append(seeds, loop.key) /\ loop.key \in Key
    BY <1>0, <1>6 DEF PutSeed, HeldKeys
  <2>3. Elems(seeds') = Elems(seeds) \cup {loop.key}
    BY <1>0, <2>2, AppendElems DEF TypeOK
  <2> QED BY <2>1, <2>2, <2>3 DEF Accounted, OnItsWay, Working
<1>7. CASE RecvEOF \/ SeedReturns
  <2>1. Accounted(k)
    BY <1>7, <1>b DEF RecvEOF, SeedReturns, IterStart
  <2>2. /\ UNCHANGED <<rpc, local, logged, stream, seeds, worker>> /\ loop.pc # "put"
    BY <1>7 DEF RecvEOF, SeedReturns
  <2> QED BY <2>1, <2>2 DEF Accounted, OnItsWay, Working
<1>8. ASSUME NEW w \in Worker, TakeSeed(w) PROVE Accounted(k)'
  <2>1. Accounted(k)
    BY <1>0, <1>8 DEF TakeSeed, SeedInv
  <2>2. /\ UNCHANGED <<rpc, local, logged, stream, loop>> /\ seeds' = Tail(seeds)
        /\ worker[w].pc = "idle" /\ worker'[w] = [pc |-> "check", key |-> Head(seeds)]
        /\ \A v \in Worker \ {w} : worker'[v] = worker[v]
    BY <1>0, <1>8 DEF TakeSeed, TypeOK
  <2>3. Elems(seeds) = Elems(Tail(seeds)) \cup {Head(seeds)}
    BY <1>0, <1>8, TailElems DEF TakeSeed, TypeOK
  <2>4. Working(k) => Working(k)'
    BY <2>2, WorkingStep DEF Busy
  <2>5. k = Head(seeds) => Working(k)'
    BY <2>2 DEF Working, Busy
  <2> QED BY <2>1, <2>2, <2>3, <2>4, <2>5 DEF Accounted, OnItsWay
<1>9. ASSUME NEW w \in Worker, WorkerEnds(w) \/ CheckLast(w) \/ AskRemote(w)
      PROVE  Accounted(k)'
  <2>1. Accounted(k)
    BY <1>0, <1>9 DEF WorkerEnds, CheckLast, AskRemote, SeedInv
  <2>2. UNCHANGED <<rpc, local, logged, stream, loop, seeds>>
    BY <1>9 DEF WorkerEnds, CheckLast, AskRemote
  <2>3. \A v \in Worker \ {w} : worker'[v] = worker[v]
    BY <1>0, <1>9, OwnStep DEF Work
  <2>4. CASE ~(worker[w].pc \in Busy /\ worker[w].key = k)
    BY <2>1, <2>2, <2>3, <2>4, WorkingStep DEF Accounted, OnItsWay
  <2>5. CASE worker[w].pc \in Busy /\ worker[w].key = k
    <3>1. local[k] = "same" \/ \E pc \in Busy : Goto(w, pc)
      <4>1. local[k] \in Local
        BY <1>0 DEF TypeOK
      <4> QED BY <1>9, <2>5, <4>1 DEF WorkerEnds, CheckLast, AskRemote, Local, Busy
    <3>2. CASE \E pc \in Busy : Goto(w, pc)
      <4>1. worker'[w].pc \in Busy /\ worker'[w].key = k
        BY <1>0, <2>5, <3>2 DEF Goto, TypeOK
      <4> QED BY <4>1 DEF Accounted, OnItsWay, Working
    <3> QED BY <2>2, <3>1, <3>2 DEF Accounted
  <2> QED BY <2>4, <2>5
<1>10. ASSUME NEW w \in Worker, CreateLocal(w) \/ Pulled(w) \/ PullBreaks(w)
       PROVE  Accounted(k)'
  <2>1. Accounted(k)
    BY <1>0, <1>10 DEF CreateLocal, Pulled, PullBreaks, SeedInv
  <2>2. UNCHANGED <<rpc, stream, loop, seeds>>
    BY <1>10 DEF CreateLocal, Pulled, PullBreaks
  <2>3. \A v \in Worker \ {w} : worker'[v] = worker[v]
    BY <1>0, <1>10, OwnStep DEF Work
  <2>4. /\ k \in logged => k \in logged'
        /\ local[k] = "same" => local'[k] = "same"
    BY <1>0, <1>10 DEF CreateLocal, Pulled, PullBreaks, TypeOK
  <2>5. CASE ~(worker[w].pc \in Busy /\ worker[w].key = k)
    BY <2>1, <2>2, <2>3, <2>4, <2>5, WorkingStep DEF Accounted, OnItsWay
  <2>6. CASE worker[w].pc \in Busy /\ worker[w].key = k
    <3>1. CASE Goto(w, "ask")
      <4>1. worker'[w].pc \in Busy /\ worker'[w].key = k
        BY <1>0, <2>6, <3>1 DEF Goto, TypeOK, Busy
      <4> QED BY <4>1 DEF Accounted, OnItsWay, Working
    <3>2. CASE k \in logged' \/ local'[k] = "same"
      BY <3>2 DEF Accounted
    <3> QED BY <1>0, <1>10, <2>6, <3>1, <3>2 DEF CreateLocal, Pulled, PullBreaks, TypeOK
  <2> QED BY <2>5, <2>6
<1>11. ASSUME NEW p \in Key, ProposedHere(p) PROVE Accounted(k)'
  <2>1. Accounted(k)
    BY <1>0, <1>11 DEF ProposedHere, SeedInv
  <2>2. local[k] = "same" => local'[k] = "same"
    BY <1>0, <1>11 DEF ProposedHere, TypeOK
  <2> QED BY <1>11, <2>1, <2>2 DEF ProposedHere, Accounted, OnItsWay, Working
<1> QED BY <1>1, <1>2, <1>3, <1>4, <1>5, <1>6, <1>7, <1>8, <1>9, <1>10, <1>11, <1>a
           DEF Next, SeedRPC, Loop, Work

\* Each step keeps the phases of the stream, the loop and the workers in order.
LEMMA PhaseStep ==
    ASSUME IInv, [Next]_vars
    PROVE  /\ (rpc.pc = "done" => rpc.rest = {} \/ loop.pc = "error")'
           /\ (loop.pc \in {"wait", "ok"} => rpc.pc = "done" /\ stream = <<>>)'
           /\ \A w \in Worker : (worker[w].pc = "end" => SeedsClosed /\ seeds = <<>>)'
           /\ (loop.pc = "ok" => \A w \in Worker : worker[w].pc = "end")'
<1>0. TypeOK /\ HeldKeys /\ SeedInv
  BY DEF IInv
<1>1. CASE SeedCalled \/ CreateCalled \/ Create \/ IterStart
  BY <1>0, <1>1 DEF SeedCalled, CreateCalled, Create, IterStart, SeedInv, SeedsClosed, TypeOK
<1>2. CASE SendSeed
  BY <1>0, <1>2 DEF SendSeed, SeedInv, SeedsClosed, TypeOK
<1>3. CASE RecvSeed \/ PutSeed
  BY <1>0, <1>3 DEF RecvSeed, PutSeed, SeedInv, SeedsClosed, TypeOK
<1>4. CASE RecvEOF \/ SeedReturns \/ StreamBreaks
  BY <1>0, <1>4 DEF RecvEOF, SeedReturns, StreamBreaks, SeedInv, SeedsClosed, TypeOK
<1>5. ASSUME NEW w \in Worker, Work(w) \/ PullBreaks(w)
      PROVE  /\ UNCHANGED <<rpc, loop, stream>>
             /\ \A v \in Worker : worker'[v].pc = "end" =>
                     \/ worker[v].pc = "end"
                     \/ v = w /\ SeedsClosed /\ seeds = <<>>
             /\ worker[w].pc # "end" /\ (seeds = <<>> => seeds' = <<>>)
  <2>1. UNCHANGED <<rpc, loop, stream>> /\ worker[w].pc # "end" /\ (seeds = <<>> => seeds' = <<>>)
    BY <1>5 DEF Work, TakeSeed, WorkerEnds, CheckLast, CreateLocal, AskRemote, Pulled, PullBreaks
  <2>2. \A v \in Worker \ {w} : worker'[v] = worker[v]
    BY <1>0, <1>5, OwnStep
  <2>3. worker'[w].pc = "end" => SeedsClosed /\ seeds = <<>>
    <3>1. worker[w] \in WorkerState
      BY <1>0 DEF TypeOK, WorkerState
    <3>2. CASE WorkerEnds(w)
      BY <3>2 DEF WorkerEnds
    <3>3. CASE TakeSeed(w) \/ PullBreaks(w) \/ Pulled(w)
      BY <1>0, <3>3 DEF TakeSeed, PullBreaks, Pulled, Next1, TypeOK
    <3>4. CASE CheckLast(w) \/ CreateLocal(w) \/ AskRemote(w)
      <4>1. Goto(w, "create") \/ Goto(w, "ask") \/ Goto(w, "pull") \/ Next1(w)
        <5>1. CASE CheckLast(w)
          <6>1. worker[w].key \in Key
            BY <5>1 DEF IInv, HeldKeys, CheckLast, Busy
          <6>2. local[worker[w].key] \in Local
            BY <1>0, <6>1 DEF TypeOK
          <6> QED BY <5>1, <6>2 DEF CheckLast, Local
        <5> QED BY <3>4, <5>1 DEF CreateLocal, AskRemote
      <4> QED BY <1>0, <4>1 DEF Goto, Next1, TypeOK
    <3> QED BY <1>5, <3>2, <3>3, <3>4 DEF Work
  <2> QED BY <2>1, <2>2, <2>3
<1>6. CASE \E w \in Worker : Work(w) \/ PullBreaks(w)
  BY <1>0, <1>5, <1>6 DEF SeedInv, SeedsClosed
<1>7. CASE \E k \in Key : ProposedHere(k)
  BY <1>0, <1>7 DEF ProposedHere, SeedInv, SeedsClosed
<1>8. CASE UNCHANGED vars
  BY <1>0, <1>8 DEF vars, SeedInv, SeedsClosed
<1> QED BY <1>1, <1>2, <1>3, <1>4, <1>6, <1>7, <1>8 DEF Next, SeedRPC, Loop

LEMMA InvStep == IInv /\ [Next]_vars => IInv'
<1> SUFFICES ASSUME IInv, [Next]_vars PROVE IInv'
  OBVIOUS
<1>1. TypeOK' /\ HeldKeys'
  BY TypeStep DEF IInv
<1>2. SeedInv'
  BY AccountedStep, PhaseStep DEF SeedInv
<1> QED BY <1>1, <1>2 DEF IInv

LEMMA SeedInvariant == Spec => []IInv
<1> QED BY InitInv, InvStep, PTL DEF Spec

-----------------------------------------------------------------------------
\* Every variable keeps its type through every run of Seed.
THEOREM TypeCorrect == Spec => []TypeOK
<1>1. IInv => TypeOK
  BY DEF IInv
<1> QED BY <1>1, SeedInvariant, PTL

\* Seed drops no key: when it returns nil, every key that the remote node listed is as
\* long as there, or the error of its worker was logged (Seed, checkLastEntryOrPull).
THEOREM Complete == Spec => []SeedComplete
<1>1. IInv => SeedComplete
  <2> SUFFICES ASSUME IInv, loop.pc = "ok", NEW k \in listed
               PROVE  local[k] = "same" \/ k \in logged
    BY DEF SeedComplete
  <2>1. Accounted(k) /\ rpc.rest = {} /\ stream = <<>>
    BY DEF IInv, SeedInv
  <2>2. \A w \in Worker : worker[w].pc = "end"
    BY DEF IInv, SeedInv
  <2>3. seeds = <<>>
    BY <2>2, SeedAssumption DEF IInv, SeedInv
  <2>4. ~OnItsWay(k)
    BY <2>1, <2>2, <2>3 DEF OnItsWay, Working, Busy, Elems
  <2> QED BY <2>1, <2>4 DEF Accounted
<1> QED BY <1>1, SeedInvariant, PTL

-----------------------------------------------------------------------------
(* Why a NewKey that waits on the remote node gets the lock.               *)

\* The keys between the listing and the end of a worker, with as many places as they take.
One(b) == IF b THEN 1 ELSE 0
Held == {w \in Worker : worker[w].pc \in Busy}
Count == Cardinality(rpc.rest) + Len(stream) + One(loop.pc = "put") + Len(seeds)
         + Cardinality(Held)

\* SeedKeysRPC and the loop of Seed go together, and no key takes two places.
RoomInv ==
    /\ rpc.pc = "off" <=> loop.pc = "off"
    /\ rpc.pc = "lock" => loop.pc = "recv"
    /\ rpc.pc = "send" => loop.pc \in {"recv", "put"} /\ Count <= Cardinality(listed)
    /\ rpc.pc \in {"off", "lock"} => stream = <<>> /\ seeds = <<>> /\ Held = {}

LEMMA CountType ==
    ASSUME TypeOK
    PROVE  /\ Cardinality(rpc.rest) \in Nat /\ Len(stream) \in Nat /\ Len(seeds) \in Nat
           /\ Cardinality(Held) \in Nat /\ Cardinality(listed) \in Nat
           /\ \A b : One(b) \in {0, 1}
           /\ IsFiniteSet(rpc.rest) /\ IsFiniteSet(Held) /\ IsFiniteSet(Key)
<1>1. IsFiniteSet(Key)
  BY SeedAssumption, FS_Interval DEF Key
<1>2. IsFiniteSet(rpc.rest) /\ IsFiniteSet(listed)
  BY <1>1, FS_Subset DEF TypeOK
<1>3. IsFiniteSet(Held)
  BY SeedAssumption, FS_Subset DEF Held
<1>4. \A b : One(b) \in {0, 1}
  BY DEF One
<1>5. Len(stream) \in Nat /\ Len(seeds) \in Nat
  BY DEF TypeOK
<1>6. Cardinality(rpc.rest) \in Nat /\ Cardinality(Held) \in Nat /\ Cardinality(listed) \in Nat
  BY <1>2, <1>3, FS_CardinalityType
<1> QED BY <1>1, <1>2, <1>3, <1>4, <1>5, <1>6

\* A worker that takes a seed holds one key more, one that is done holds one less, and
\* the others hold what they held.
LEMMA HeldStep ==
    ASSUME TypeOK, HeldKeys, NEW w \in Worker, Work(w) \/ PullBreaks(w)
    PROVE  /\ TakeSeed(w) => Cardinality(Held') <= Cardinality(Held) + 1
           /\ ~TakeSeed(w) => Held' \subseteq Held
<1>1. \A v \in Worker \ {w} : worker'[v] = worker[v]
  BY OwnStep
<1>2. Held' \subseteq Held \cup {w}
  BY <1>1 DEF Held
<1>3. Cardinality(Held') <= Cardinality(Held) + 1
  <2>1. IsFiniteSet(Held)
    BY CountType
  <2>2. IsFiniteSet(Held \cup {w}) /\ Cardinality(Held \cup {w}) <= Cardinality(Held) + 1
    <3>1. Cardinality(Held) \in Nat
      BY <2>1, FS_CardinalityType
    <3>2. /\ IsFiniteSet(Held \cup {w})
          /\ Cardinality(Held \cup {w}) = IF w \in Held THEN Cardinality(Held)
                                                       ELSE Cardinality(Held) + 1
      BY <2>1, FS_AddElement
    <3> HIDE DEF Held
    <3> QED BY <3>1, <3>2
  <2>3. Cardinality(Held') <= Cardinality(Held \cup {w}) /\ IsFiniteSet(Held')
    BY <1>2, <2>2, FS_Subset
  <2>4. Cardinality(Held') \in Nat /\ Cardinality(Held \cup {w}) \in Nat /\ Cardinality(Held) \in Nat
    BY <2>1, <2>2, <2>3, FS_CardinalityType
  <2> HIDE DEF Held
  <2> QED BY <2>2, <2>3, <2>4
<1>4. ASSUME ~TakeSeed(w) PROVE w \in Held' => w \in Held
  <2>1. CASE WorkerEnds(w)
    BY <2>1 DEF WorkerEnds, Goto, Held, Busy, TypeOK
  <2>2. CASE ~WorkerEnds(w)
    BY <1>4, <2>2 DEF Work, CheckLast, CreateLocal, AskRemote, Pulled, PullBreaks, Held, Busy
  <2> QED BY <2>1, <2>2
<1> QED BY <1>2, <1>3, <1>4

LEMMA RoomStep ==
    ASSUME IInv, RoomInv, [Next]_vars
    PROVE  RoomInv'
<1>0. TypeOK /\ HeldKeys /\ SeedInv
  BY DEF IInv
<1>1. CASE SeedCalled
  BY <1>1 DEF SeedCalled, RoomInv, Held, TypeOK
<1>2. CASE CreateCalled \/ Create \/ (\E k \in Key : ProposedHere(k)) \/ UNCHANGED vars
  <2>1. UNCHANGED <<rpc, loop, stream, seeds, worker, listed>>
    BY <1>2 DEF CreateCalled, Create, ProposedHere, vars
  <2> QED BY <2>1 DEF RoomInv, Count, Held, One
<1>3. CASE IterStart
  <2>1. /\ rpc' = [pc |-> "send", rest |-> remote] /\ listed' = remote /\ rpc.pc = "lock"
        /\ UNCHANGED <<loop, stream, seeds, worker>>
    BY <1>3 DEF IterStart
  <2>2. loop.pc = "recv" /\ stream = <<>> /\ seeds = <<>> /\ Held = {} /\ Held' = Held
    BY <2>1 DEF RoomInv, Held
  <2>3. Count' = Cardinality(listed')
    <3>1. Cardinality(Held') = 0 /\ One(loop'.pc = "put") = 0
      BY <2>1, <2>2, FS_EmptySet DEF One
    <3>2. remote \subseteq Key /\ IsFiniteSet(Key)
      BY <1>0, CountType DEF TypeOK
    <3>3. Cardinality(remote) \in Nat
      BY <3>2, FS_Subset, FS_CardinalityType
    <3> QED BY <2>1, <2>2, <3>1, <3>3 DEF Count
  <2>4. Cardinality(listed') \in Nat
    BY <1>0, <2>1, CountType, FS_Subset, FS_CardinalityType DEF TypeOK
  <2> HIDE DEF Count
  <2> QED BY <2>1, <2>2, <2>3, <2>4 DEF RoomInv
<1>4. CASE SendSeed
  <2>1. /\ rpc.pc = "send" /\ UNCHANGED <<listed, loop, seeds, worker>> /\ Held' = Held
        /\ loop.pc \in {"recv", "put"}
    BY <1>4 DEF SendSeed, Held, RoomInv
  <2>2. CASE rpc.rest = {}
    <3>1. rpc'.pc = "done"
      BY <1>0, <1>4, <2>2 DEF SendSeed, TypeOK
    <3> QED BY <2>1, <3>1 DEF RoomInv
  <2>3. CASE rpc.rest # {}
    <3>1. PICK k : k = Min(rpc.rest)
      OBVIOUS
    <3>2. k \in rpc.rest /\ k \in Key
      BY <1>0, <2>3, <3>1, LeastKey DEF TypeOK
    <3>3. rpc'.pc = "send" /\ rpc'.rest = rpc.rest \ {k} /\ stream' = Append(stream, k)
      BY <1>0, <1>4, <2>3, <3>1 DEF SendSeed, TypeOK
    <3>4. Cardinality(rpc'.rest) = Cardinality(rpc.rest) - 1
      BY <1>0, <3>2, <3>3, CountType, FS_RemoveElement
    <3>5. Len(stream') = Len(stream) + 1
      BY <1>0, <3>2, <3>3 DEF TypeOK
    <3>6. Count' = Count
      <4> DEFINE one == One(loop.pc = "put")
                 held == Cardinality(Held)
      <4>1. one \in Nat /\ held \in Nat
        BY <1>0, CountType
      <4>2. Count = Cardinality(rpc.rest) + Len(stream) + one + Len(seeds) + held
        BY DEF Count
      <4>3. Count' = Cardinality(rpc'.rest) + Len(stream') + one + Len(seeds) + held
        BY <2>1 DEF Count
      <4> HIDE DEF one, held
      <4> QED BY <1>0, <3>4, <3>5, <4>1, <4>2, <4>3, CountType
    <3> QED BY <2>1, <3>3, <3>6 DEF RoomInv
  <2> QED BY <2>2, <2>3
<1>5. CASE RecvSeed
  <2>1. /\ loop.pc = "recv" /\ loop'.pc = "put" /\ stream # <<>> /\ stream' = Tail(stream)
        /\ UNCHANGED <<rpc, listed, seeds, worker>> /\ Held' = Held
    BY <1>5 DEF RecvSeed, Held
  <2>2. Len(stream') = Len(stream) - 1
    BY <1>0, <2>1, TailElems DEF TypeOK
  <2>3. Count' = Count
    <3> DEFINE rest == Cardinality(rpc.rest)
               held == Cardinality(Held)
    <3>1. rest \in Nat /\ held \in Nat
      BY <1>0, CountType
    <3>2. Count = rest + Len(stream) + 0 + Len(seeds) + held
      BY <2>1 DEF Count, One
    <3>3. Count' = rest + Len(stream') + 1 + Len(seeds) + held
      BY <2>1 DEF Count, One
    <3> HIDE DEF rest, held
    <3> QED BY <1>0, <2>2, <3>1, <3>2, <3>3, CountType
  <2> QED BY <2>1, <2>3 DEF RoomInv
<1>6. CASE PutSeed
  <2>1. /\ loop.pc = "put" /\ loop'.pc = "recv" /\ seeds' = Append(seeds, loop.key)
        /\ UNCHANGED <<rpc, listed, stream, worker>> /\ Held' = Held
    BY <1>6 DEF PutSeed, Held
  <2>2. Len(seeds') = Len(seeds) + 1
    BY <1>0, <2>1 DEF HeldKeys, TypeOK
  <2>3. Count' = Count
    <3> DEFINE rest == Cardinality(rpc.rest)
               held == Cardinality(Held)
    <3>1. rest \in Nat /\ held \in Nat
      BY <1>0, CountType
    <3>2. Count = rest + Len(stream) + 1 + Len(seeds) + held
      BY <2>1 DEF Count, One
    <3>3. Count' = rest + Len(stream) + 0 + Len(seeds') + held
      BY <2>1 DEF Count, One
    <3> HIDE DEF rest, held
    <3> QED BY <1>0, <2>2, <3>1, <3>2, <3>3, CountType
  <2> QED BY <2>1, <2>3 DEF RoomInv
<1>7. CASE RecvEOF \/ SeedReturns \/ StreamBreaks
  <2>1. rpc'.pc = "done" /\ loop'.pc # "off"
    BY <1>0, <1>7 DEF RecvEOF, SeedReturns, StreamBreaks, SeedInv, TypeOK
  <2> QED BY <2>1 DEF RoomInv
<1>8. ASSUME NEW w \in Worker, Work(w) \/ PullBreaks(w) PROVE RoomInv'
  <2>1. UNCHANGED <<rpc, listed, stream, loop>>
    BY <1>8 DEF Work, TakeSeed, WorkerEnds, CheckLast, CreateLocal, AskRemote, Pulled, PullBreaks
  <2>2. seeds = <<>> => seeds' = <<>> /\ ~TakeSeed(w)
    BY <1>8 DEF Work, TakeSeed, WorkerEnds, CheckLast, CreateLocal, AskRemote, Pulled, PullBreaks
  <2>3. Len(seeds') + Cardinality(Held') <= Len(seeds) + Cardinality(Held)
        /\ Len(seeds') + Cardinality(Held') \in Nat
    <3>0. Len(seeds) \in Nat /\ Cardinality(Held) \in Nat /\ IsFiniteSet(Held)
      BY <1>0, CountType
    <3>1. CASE TakeSeed(w)
      <4>1. Len(seeds') = Len(seeds) - 1 /\ Len(seeds') \in Nat
        BY <1>0, <3>1, TailElems DEF TakeSeed, TypeOK
      <4>2. Cardinality(Held') <= Cardinality(Held) + 1
        BY <1>0, <1>8, <3>1, HeldStep
      <4>3. Cardinality(Held') \in Nat
        BY SeedAssumption, FS_Subset, FS_CardinalityType DEF Held
      <4> HIDE DEF Held
      <4> QED BY <3>0, <4>1, <4>2, <4>3
    <3>2. CASE ~TakeSeed(w)
      <4>1. seeds' = seeds
        BY <1>8, <3>2 DEF Work, WorkerEnds, CheckLast, CreateLocal, AskRemote, Pulled, PullBreaks
      <4>2. Cardinality(Held') <= Cardinality(Held) /\ Cardinality(Held') \in Nat
        BY <1>0, <1>8, <3>0, <3>2, HeldStep, FS_Subset, FS_CardinalityType
      <4> HIDE DEF Held
      <4> QED BY <3>0, <4>1, <4>2
    <3> QED BY <3>1, <3>2
  <2>4. Count' <= Count
    <3> DEFINE a == Cardinality(rpc.rest) + Len(stream) + One(loop.pc = "put")
               b == Len(seeds) + Cardinality(Held)
               c == Len(seeds') + Cardinality(Held')
    <3>1. a \in Nat /\ b \in Nat /\ c \in Nat /\ c <= b
      <4>1. /\ Cardinality(rpc.rest) \in Nat /\ Len(stream) \in Nat
            /\ One(loop.pc = "put") \in {0, 1} /\ Len(seeds) \in Nat /\ Cardinality(Held) \in Nat
        BY <1>0, CountType
      <4> QED BY <2>3, <4>1
    <3>2. Count = a + b
      <4>1. /\ Cardinality(rpc.rest) \in Nat /\ Len(stream) \in Nat
            /\ One(loop.pc = "put") \in {0, 1} /\ Len(seeds) \in Nat /\ Cardinality(Held) \in Nat
        BY <1>0, CountType
      <4> QED BY <4>1 DEF Count
    <3>3. Count' = a + c
      <4>1. /\ Cardinality(rpc.rest) \in Nat /\ Len(stream) \in Nat
            /\ One(loop.pc = "put") \in {0, 1}
        BY <1>0, CountType
      <4>2. Len(seeds') \in Nat /\ Cardinality(Held') \in Nat
        <5>1. TypeOK'
          BY <1>0, TypeStep
        <5>2. Cardinality(Held') \in Nat
          BY SeedAssumption, FS_Subset, FS_CardinalityType DEF Held
        <5> QED BY <5>1, <5>2 DEF TypeOK
      <4> QED BY <2>1, <4>1, <4>2 DEF Count
    <3> HIDE DEF a, b, c
    <3> QED BY <3>1, <3>2, <3>3
  <2>5. rpc.pc \in {"off", "lock"} => seeds' = <<>> /\ Held' = {}
    BY <1>0, <1>8, <2>2, HeldStep DEF RoomInv
  <2>6. Count \in Int /\ Count' \in Int /\ Cardinality(listed) \in Nat
    <3>1. TypeOK'
      BY <1>0, TypeStep
    <3>2. /\ Cardinality(rpc'.rest) \in Nat /\ Len(stream') \in Nat /\ Len(seeds') \in Nat
          /\ Cardinality(Held') \in Nat /\ One(loop'.pc = "put") \in {0, 1}
      <4>1. Cardinality(Held') \in Nat
        BY SeedAssumption, FS_Subset, FS_CardinalityType DEF Held
      <4>2. Cardinality(rpc.rest) \in Nat
        BY <1>0, CountType
      <4> QED BY <2>1, <3>1, <4>1, <4>2 DEF TypeOK, One
    <3>3. Count' \in Int
      BY <3>2 DEF Count
    <3>4. Count \in Int /\ Cardinality(listed) \in Nat
      BY <1>0, CountType DEF Count
    <3> QED BY <3>3, <3>4
  <2>7. Count <= Cardinality(listed) => Count' <= Cardinality(listed')
    <3> HIDE DEF Count
    <3> QED BY <2>1, <2>4, <2>6
  <2> QED BY <2>1, <2>2, <2>5, <2>7 DEF RoomInv
<1> QED BY <1>1, <1>2, <1>3, <1>4, <1>5, <1>6, <1>7, <1>8 DEF Next, SeedRPC, Loop

LEMMA RoomInvariant == Spec => [](IInv /\ RoomInv)
<1>1. Init => IInv /\ RoomInv
  <2>1. Init => RoomInv
    BY DEF Init, RoomInv, Held, Busy
  <2> QED BY <2>1, InitInv
<1>2. (IInv /\ RoomInv) /\ [Next]_vars => (IInv /\ RoomInv)'
  BY InvStep, RoomStep
<1> QED BY <1>1, <1>2, PTL DEF Spec

\* The steps that go on without the lock that the NewKey waits for: the last key on the
\* stream releases it.
CanSend == rpc.pc = "send" /\ (rpc.rest = {} \/ Len(stream) < Window)
CanLoop == \/ loop.pc = "recv" /\ stream # <<>>
           \/ loop.pc = "put" /\ Len(seeds) < Bufsize
CanWork(w) == \/ worker[w].pc = "idle" /\ seeds # <<>>
              \/ worker[w].pc \in Busy \ {"ask"}

\* Why a NewKey on the remote node gets the lock when the keys fit (CreateReturns): it has
\* it, or SeedKeysRPC, the loop or a worker goes on without it.  Workers that all ask for
\* the log of a key are no deadlock, because the keys that are left have their places
\* (SeedKeysRPC, Seed, checkLastEntryOrPull).
CreateGoesOn ==
    creator = "waits" /\ Fits =>
        rpc.pc # "send" \/ CanSend \/ CanLoop \/ \E w \in Worker : CanWork(w)

THEOREM CreateAlwaysGoesOn == Spec => []CreateGoesOn
<1>1. IInv /\ RoomInv => CreateGoesOn
  <2> SUFFICES ASSUME IInv, RoomInv, Fits, rpc.pc = "send", ~CanSend, ~CanLoop,
                      \A w \in Worker : ~CanWork(w)
               PROVE  FALSE
    BY DEF CreateGoesOn
  <2>0. TypeOK /\ SeedInv
    BY DEF IInv
  <2>1. rpc.rest # {} /\ Len(stream) >= Window /\ Len(stream) \in Nat /\ Window > 0
    <3>1. Len(stream) \in Nat /\ Window \in Nat /\ Window > 0
      BY <2>0, SeedAssumption, CountType
    <3> QED BY <3>1 DEF CanSend
  <2>2. loop.pc = "put" /\ Len(seeds) >= Bufsize /\ Len(seeds) \in Nat /\ Bufsize > 0
    <3>1. stream # <<>>
      BY <2>1, SeedAssumption
    <3>2. loop.pc = "put"
      BY <3>1 DEF RoomInv, CanLoop
    <3>3. Len(seeds) \in Nat /\ Bufsize \in Nat /\ Bufsize > 0
      BY <2>0, SeedAssumption, CountType
    <3> QED BY <3>2, <3>3 DEF CanLoop
  <2>3. Held = Worker
    <3>1. ASSUME NEW w \in Worker PROVE worker[w].pc \in Busy
      <4>1. worker[w].pc \in {"idle", "check", "create", "ask", "pull", "end"}
        BY <2>0 DEF TypeOK
      <4>2. worker[w].pc # "end"
        BY <2>0, <2>2 DEF SeedInv, SeedsClosed
      <4>3. worker[w].pc # "idle"
        <5>1. seeds # <<>>
          BY <2>2, SeedAssumption
        <5> QED BY <5>1 DEF CanWork
      <4> QED BY <4>1, <4>2, <4>3 DEF Busy
    <3> QED BY <3>1 DEF Held
  <2>4. Cardinality(rpc.rest) > 0 /\ Cardinality(rpc.rest) \in Nat
    BY <2>0, <2>1, CountType, FS_EmptySet
  <2>5. Cardinality(rpc.rest) + Len(stream) + 1 + Len(seeds) + Cardinality(Worker)
            <= Window + 1 + Bufsize + Cardinality(Worker)
    <3>1. Count = Cardinality(rpc.rest) + Len(stream) + 1 + Len(seeds) + Cardinality(Worker)
      BY <2>2, <2>3 DEF Count, One
    <3>2. Count <= Cardinality(listed) /\ Cardinality(listed) \in Nat
          /\ Cardinality(Worker) \in Nat
      BY <2>0, CountType, SeedAssumption, FS_CardinalityType DEF RoomInv
    <3>3. Cardinality(listed) <= Window + 1 + Bufsize + Cardinality(Worker)
      BY DEF Fits
    <3> HIDE DEF Count
    <3> QED BY <2>1, <2>2, <2>4, <3>1, <3>2, <3>3, SeedAssumption
  <2>6. Cardinality(Worker) \in Nat
    BY SeedAssumption, FS_CardinalityType
  <2> QED BY <2>1, <2>2, <2>4, <2>5, <2>6, SeedAssumption
<1> QED BY <1>1, RoomInvariant, PTL
=============================================================================

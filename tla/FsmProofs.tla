------------------------------ MODULE FsmProofs ------------------------------
(***************************************************************************)
(* Proofs about Fsm, for any queue, height, number of crashes and of       *)
(* handlers: a process hands over each entry once, the order of the log is *)
(* kept but for fewer entries than there are handlers, and a crash loses   *)
(* fewer than that, those that a recorded entry has overtaken.             *)
(***************************************************************************)
EXTENDS Fsm, FiniteSetTheorems, TLAPS

\* The calls of FSM.Apply by the process that runs.
Epoch == (epoch + 1)..Len(applied)

\* This process has neither handed over nor queued x.
Unsent(x) == x \notin Elems(applyCh) /\ \A i \in Epoch : applied[i] # x

\* Nothing is ahead of the log; check replays before handlers run, and only what
\* it has not queued yet; what died left nothing in memory.
PhaseInv ==
    /\ \A x \in Elems(applied) \cup Elems(applyCh) : x <= height
    /\ current <= height /\ stable <= height
    /\ \A h \in Handler : owing[h] <= height
    /\ phase # "serve" => \A h \in Handler : owing[h] = 0
    /\ phase = "check" => /\ cursor <= height + 1
                          /\ \A x \in Elems(applyCh) : x < cursor
                          /\ \A i \in Epoch : applied[i] < cursor
    /\ phase = "down" => applyCh = <<>> /\ current = 0

\* What is handed over, queued and owed by one process are different entries.
OnceInv ==
    /\ OncePerProcess
    /\ \A i, j \in DOMAIN applyCh : applyCh[i] = applyCh[j] => i = j
    /\ \A i \in Epoch : applied[i] \notin Elems(applyCh)
    /\ \A h \in Handler : owing[h] # 0 => Unsent(owing[h])
    /\ \A g, h \in Handler : owing[g] # 0 /\ owing[g] = owing[h] => g = h

\* Fewer entries than there are handlers.
Few(S) == IsFiniteSet(S) /\ Cardinality(S) < Cardinality(Handler)

\* The entries that the FSM will lack when it is given the k-th of the queue.
Behind(k) == {y \in 1..(applyCh[k] - 1) :
                 y \notin lost \cup Elems(applied) /\ \A j \in 1..(k - 1) : applyCh[j] # y}

\* What is handed over and what is queued has few of the earlier entries behind it.
OrderInv ==
    /\ \A i \in DOMAIN applied : Few(Missed(i))
    /\ \A k \in DOMAIN applyCh : Few(Behind(k))

\* Every entry of the log is applied, on its way or lost.  The stable store has an entry
\* that the FSM has seen, and check replays none before it.
Kept == \A e \in 1..height : e \in Elems(applied) \/ Pending(e) \/ e \in lost
KeptInv ==
    /\ Kept
    /\ {current, stable} \subseteq Elems(applied) \cup {0}
    /\ phase = "check" => stable <= cursor /\ current < cursor

\* Each crash loses few entries.
LossInv ==
    /\ IsFiniteSet(lost)
    /\ Cardinality(lost) <= crashes * (Cardinality(Handler) - 1)

IInv == TypeOK /\ PhaseInv /\ OnceInv /\ KeptInv /\ OrderInv /\ LossInv

-----------------------------------------------------------------------------
(* The channel and the history of the FSM.                                 *)

SendFacts(x) ==
    /\ applyCh' \in Seq(Place) /\ Len(applyCh') = Len(applyCh) + 1
    /\ DOMAIN applyCh' = 1..(Len(applyCh) + 1) /\ DOMAIN applyCh = 1..Len(applyCh)
    /\ Len(applyCh) \in Nat
    /\ \A i \in DOMAIN applyCh : applyCh'[i] = applyCh[i]
    /\ applyCh'[Len(applyCh) + 1] = x
    /\ Elems(applyCh') = Elems(applyCh) \cup {x}

\* A send adds one entry at the end of the queue.
LEMMA SendStep ==
    ASSUME TypeOK, NEW x \in Place, Queue(x)
    PROVE  SendFacts(x) /\ Len(applyCh') <= QueueSize
<1>1. /\ applyCh \in Seq(Place) /\ applyCh' = Append(applyCh, x)
      /\ Len(applyCh) < QueueSize /\ QueueSize \in Nat /\ Len(applyCh) \in Nat
  BY SizesAssumption DEF TypeOK, Queue
<1>2. /\ applyCh' \in Seq(Place) /\ Len(applyCh') = Len(applyCh) + 1
      /\ DOMAIN applyCh' = 1..(Len(applyCh) + 1) /\ DOMAIN applyCh = 1..Len(applyCh)
      /\ \A i \in DOMAIN applyCh : applyCh'[i] = applyCh[i]
      /\ applyCh'[Len(applyCh) + 1] = x
  BY <1>1
<1> HIDE <1>1
<1>3. \A i \in DOMAIN applyCh' : i \in DOMAIN applyCh \/ i = Len(applyCh) + 1
  BY <1>1, <1>2
<1>4. Elems(applyCh') = Elems(applyCh) \cup {x}
  BY <1>1, <1>2, <1>3 DEF Elems
<1> QED BY <1>1, <1>2, <1>4 DEF SendFacts

\* What start does with the first entry of the queue, x.
HandFacts(x) ==
    /\ x \in Place /\ applyCh # <<>>
    /\ applyCh' \in Seq(Place) /\ Len(applyCh') = Len(applyCh) - 1
    /\ DOMAIN applyCh = 1..Len(applyCh) /\ DOMAIN applyCh' = 1..(Len(applyCh) - 1)
    /\ Len(applyCh) \in Nat \ {0}
    /\ \A i \in DOMAIN applyCh' : applyCh'[i] = applyCh[i + 1]
    /\ applyCh[1] = x
    /\ Elems(applyCh) = Elems(applyCh') \cup {x}
    /\ applied' \in Seq(Place) /\ Len(applied') = Len(applied) + 1 /\ Len(applied) \in Nat
    /\ DOMAIN applied = 1..Len(applied) /\ DOMAIN applied' = 1..(Len(applied) + 1)
    /\ \A i \in DOMAIN applied : applied'[i] = applied[i]
    /\ applied'[Len(applied) + 1] = x
    /\ Elems(applied') = Elems(applied) \cup {x}

LEMMA HandStep ==
    ASSUME TypeOK, Start
    PROVE  HandFacts(Head(applyCh))
<1> DEFINE x == Head(applyCh)
<1>0. /\ applyCh \in Seq(Place) /\ applyCh # <<>> /\ applied \in Seq(Place)
      /\ applyCh' = Tail(applyCh) /\ applied' = Append(applied, x)
  BY DEF TypeOK, Start
<1>1. /\ x \in Place /\ x = applyCh[1] /\ Len(applyCh) \in Nat \ {0}
      /\ applyCh' \in Seq(Place) /\ Len(applyCh') = Len(applyCh) - 1
      /\ DOMAIN applyCh = 1..Len(applyCh) /\ DOMAIN applyCh' = 1..(Len(applyCh) - 1)
      /\ \A i \in DOMAIN applyCh' : applyCh'[i] = applyCh[i + 1]
  BY <1>0
<1>2. /\ applied' \in Seq(Place) /\ Len(applied') = Len(applied) + 1 /\ Len(applied) \in Nat
      /\ DOMAIN applied = 1..Len(applied) /\ DOMAIN applied' = 1..(Len(applied) + 1)
      /\ \A i \in DOMAIN applied : applied'[i] = applied[i]
      /\ applied'[Len(applied) + 1] = x
  BY <1>0, <1>1
<1>3. Elems(applyCh) = Elems(applyCh') \cup {x}
  <2> HIDE DEF x
  <2>1. \A i \in DOMAIN applyCh : i = 1 \/ (i - 1 \in DOMAIN applyCh' /\ applyCh'[i - 1] = applyCh[i])
    BY <1>1
  <2>2. \A i \in DOMAIN applyCh' : i + 1 \in DOMAIN applyCh
    BY <1>1
  <2>3. Elems(applyCh) \subseteq Elems(applyCh') \cup {x}
    BY <1>1, <2>1 DEF Elems
  <2>4. Elems(applyCh') \cup {x} \subseteq Elems(applyCh)
    BY <1>1, <2>2 DEF Elems
  <2> QED BY <2>3, <2>4
<1>4. Elems(applied') = Elems(applied) \cup {x}
  <2> HIDE DEF x
  <2>1. \A i \in DOMAIN applied' : i \in DOMAIN applied \/ i = Len(applied) + 1
    BY <1>2
  <2>2. \A i \in DOMAIN applied : i \in DOMAIN applied'
    BY <1>2
  <2> QED BY <1>2, <2>1, <2>2 DEF Elems
<1> QED BY <1>0, <1>1, <1>2, <1>3, <1>4 DEF HandFacts

-----------------------------------------------------------------------------
(* Types.                                                                  *)

LEMMA InitInv == Init => IInv
<1> SUFFICES ASSUME Init PROVE IInv
  OBVIOUS
<1>1. TypeOK
  BY SizesAssumption DEF Init, TypeOK, Place, PlaceOrZero
<1>2. PhaseInv /\ OnceInv
  BY DEF Init, PhaseInv, OnceInv, OncePerProcess, Elems, Epoch
<1>3. KeptInv
  BY DEF Init, KeptInv, Kept
<1>4. OrderInv
  BY DEF Init, OrderInv
<1>5. LossInv
  <2>1. Cardinality(lost) = 0 /\ IsFiniteSet(lost)
    BY FS_EmptySet DEF Init
  <2>2. Cardinality(Handler) \in Nat /\ crashes = 0
    BY SizesAssumption, FS_CardinalityType DEF Init
  <2> QED BY <2>1, <2>2 DEF LossInv
<1> QED BY <1>1, <1>2, <1>3, <1>4, <1>5 DEF IInv

LEMMA TypeStep ==
    ASSUME TypeOK, [Next]_vars
    PROVE  TypeOK'
<1>0. MaxHeight \in Nat /\ MaxCrashes \in Nat /\ Len(applied) \in Nat
  BY SizesAssumption DEF TypeOK
<1>1. ASSUME NEW h \in Handler, AppendEntry(h) PROVE TypeOK'
  BY <1>0, <1>1 DEF AppendEntry, TypeOK, PlaceOrZero
<1>2. ASSUME NEW h \in Handler, Apply(h) PROVE TypeOK'
  <2>1. owing[h] \in Place
    BY <1>0, <1>2 DEF Apply, TypeOK, PlaceOrZero, Place
  <2>2. applyCh' \in Seq(Place) /\ Len(applyCh') <= QueueSize
    BY <1>2, <2>1, SendStep DEF Apply, SendFacts
  <2> QED BY <1>0, <1>2, <2>2 DEF Apply, TypeOK, PlaceOrZero
<1>3. CASE Start
  <2>1. HandFacts(Head(applyCh))
    BY <1>3, HandStep
  <2>2. Len(applyCh') <= QueueSize
    BY <2>1, SizesAssumption DEF HandFacts, TypeOK
  <2>3. epoch' \in 0..Len(applied')
    BY <1>0, <1>3, <2>1 DEF HandFacts, Start, TypeOK
  <2>4. current' \in PlaceOrZero
    BY <1>3, <2>1 DEF HandFacts, Start, Place, PlaceOrZero
  <2> QED BY <1>3, <2>1, <2>2, <2>3, <2>4 DEF HandFacts, Start, TypeOK
<1>4. CASE SetStable
  BY <1>0, <1>4 DEF SetStable, TypeOK, PlaceOrZero
<1>5. CASE Replay
  <2>1. cursor \in Place
    BY <1>0, <1>5 DEF Replay, TypeOK, Place, PlaceOrZero
  <2>2. applyCh' \in Seq(Place) /\ Len(applyCh') <= QueueSize
    BY <1>5, <2>1, SendStep DEF Replay, SendFacts
  <2>3. cursor' \in 1..(MaxHeight + 1)
    BY <1>0, <1>5, <2>1 DEF Replay, Place
  <2> QED BY <1>5, <2>2, <2>3 DEF Replay, TypeOK
<1>6. CASE Serve
  BY <1>6 DEF Serve, TypeOK
<1>7. CASE Crash
  <2>1. applyCh' \in Seq(Place) /\ Len(applyCh') <= QueueSize
    BY <1>7, SizesAssumption DEF Crash
  <2>2. lost' \subseteq Place
    <3>1. lost' \subseteq lost \cup 1..height
      BY <1>7 DEF Crash
    <3>2. lost \subseteq Place /\ height \in 0..MaxHeight
      BY DEF TypeOK, PlaceOrZero
    <3>3. 1..height \subseteq Place
      BY <1>0, <3>2 DEF Place
    <3> QED BY <3>1, <3>2, <3>3
  <2> QED BY <1>0, <1>7, <2>1, <2>2 DEF Crash, TypeOK, PlaceOrZero
<1>8. CASE Restart
  <2>1. SeekPosition \in 1..(MaxHeight + 1)
    BY <1>0 DEF SeekPosition, TypeOK, PlaceOrZero
  <2> QED BY <1>0, <1>8, <2>1 DEF Restart, TypeOK
<1>9. CASE UNCHANGED vars
  BY <1>9 DEF vars, TypeOK
<1> QED BY <1>1, <1>2, <1>3, <1>4, <1>5, <1>6, <1>7, <1>8, <1>9 DEF Next

-----------------------------------------------------------------------------
(* Phases, and each entry once.                                            *)

LEMMA PhaseStep ==
    ASSUME TypeOK, PhaseInv, [Next]_vars
    PROVE  PhaseInv'
<1>0. /\ height \in Nat /\ cursor \in Nat /\ Len(applied) \in Nat /\ epoch \in Nat
      /\ \A h \in Handler : owing[h] \in Nat
      /\ Elems(applied) \subseteq Nat /\ Elems(applyCh) \subseteq Nat
      /\ current \in Nat /\ stable \in Nat
  BY SizesAssumption DEF TypeOK, PlaceOrZero, Place, Elems
<1>1. ASSUME NEW g \in Handler, AppendEntry(g) PROVE PhaseInv'
  BY <1>0, <1>1 DEF AppendEntry, TypeOK, PhaseInv
<1>2. ASSUME NEW g \in Handler, Apply(g) PROVE PhaseInv'
  <2>1. owing[g] \in Place
    BY <1>2 DEF Apply, TypeOK, PlaceOrZero, Place
  <2>2. Elems(applyCh') = Elems(applyCh) \cup {owing[g]}
    BY <1>2, <2>1, SendStep DEF Apply, SendFacts
  <2>3. \A h \in Handler : owing'[h] = IF h = g THEN 0 ELSE owing[h]
    BY <1>2 DEF Apply, TypeOK
  <2> QED BY <1>0, <1>2, <2>2, <2>3 DEF Apply, PhaseInv
<1>3. CASE Start
  <2> DEFINE x == Head(applyCh)
  <2>1. HandFacts(x)
    BY <1>3, HandStep
  <2> HIDE DEF x
  <2>2. x \in Elems(applyCh) /\ Elems(applyCh') \subseteq Elems(applyCh)
    BY <2>1 DEF HandFacts
  <2>3. \A y \in Elems(applied') \cup Elems(applyCh') : y <= height
    BY <2>1, <2>2 DEF HandFacts, PhaseInv
  <2>4. ASSUME phase = "check", NEW i \in Epoch' PROVE applied'[i] < cursor
    <3>1. i \in Epoch \/ i = Len(applied) + 1
      BY <1>0, <1>3, <2>1 DEF HandFacts, Start, Epoch
    <3>2. CASE i \in Epoch
      <4>1. i \in DOMAIN applied
        BY <1>0, <2>1, <3>2 DEF HandFacts, Epoch
      <4> QED BY <2>1, <2>4, <3>2, <4>1 DEF HandFacts, PhaseInv
    <3>3. CASE i = Len(applied) + 1
      BY <2>1, <2>2, <2>4, <3>3 DEF HandFacts, PhaseInv
    <3> QED BY <3>1, <3>2, <3>3
  <2>5. current' <= height
    BY <1>3, <2>2 DEF Start, PhaseInv, x
  <2> QED BY <1>3, <2>2, <2>3, <2>4, <2>5 DEF Start, PhaseInv
<1>4. CASE SetStable
  BY <1>0, <1>4 DEF SetStable, PhaseInv, Epoch
<1>5. CASE Replay
  <2>1. cursor \in Place
    BY <1>5, SizesAssumption DEF Replay, TypeOK, Place, PlaceOrZero
  <2>2. Elems(applyCh') = Elems(applyCh) \cup {cursor}
    BY <1>5, <2>1, SendStep DEF Replay, SendFacts
  <2>3. \A i \in Epoch : applied[i] \in Nat
    <3> SUFFICES ASSUME NEW i \in Epoch PROVE applied[i] \in Nat
      OBVIOUS
    <3>1. applied \in Seq(Place) /\ i \in 1..Len(applied)
      BY <1>0 DEF TypeOK, Epoch
    <3>2. applied[i] \in Place
      BY <3>1
    <3> QED BY <3>2, SizesAssumption DEF Place
  <2>4. cursor' = cursor + 1 /\ phase' = "check" /\ phase = "check" /\ cursor <= height
    BY <1>5 DEF Replay
  <2>5. \A i \in Epoch' : applied'[i] < cursor'
    BY <1>0, <1>5, <2>3, <2>4 DEF Replay, PhaseInv, Epoch
  <2>6. \A x \in Elems(applyCh') : x < cursor' /\ x <= height
    BY <1>0, <2>2, <2>4 DEF PhaseInv
  <2> QED BY <1>0, <1>5, <2>4, <2>5, <2>6 DEF Replay, PhaseInv
<1>6. CASE Serve
  BY <1>6 DEF Serve, PhaseInv
<1>7. CASE Crash
  <2>1. Elems(applyCh') = {}
    BY <1>7 DEF Crash, Elems
  <2> QED BY <1>0, <1>7, <2>1 DEF Crash, PhaseInv
<1>8. CASE Restart
  <2>1. Epoch' = {} /\ Elems(applyCh) = {}
    BY <1>0, <1>8 DEF Restart, PhaseInv, Epoch, Elems
  <2>2. SeekPosition <= height + 1
    BY <1>0, <1>8 DEF SeekPosition, PhaseInv
  <2> QED BY <1>8, <2>1, <2>2 DEF Restart, PhaseInv
<1>9. CASE UNCHANGED vars
  BY <1>9 DEF vars, PhaseInv, Epoch
<1> QED BY <1>1, <1>2, <1>3, <1>4, <1>5, <1>6, <1>7, <1>8, <1>9 DEF Next

\* A send of an entry that this process has not sent keeps the entries apart.
LEMMA FreshSend ==
    ASSUME TypeOK, OnceInv, NEW x \in Place, SendFacts(x), Unsent(x),
           UNCHANGED <<applied, epoch>>
    PROVE  /\ OncePerProcess'
           /\ \A i, j \in DOMAIN applyCh' : applyCh'[i] = applyCh'[j] => i = j
           /\ \A i \in Epoch' : applied'[i] \notin Elems(applyCh')
           /\ \A y : Unsent(y) /\ y # x => Unsent(y)'
<1>1. Epoch' = Epoch /\ OncePerProcess'
  BY DEF OnceInv, OncePerProcess, Epoch
<1>2. ASSUME NEW i \in DOMAIN applyCh', NEW j \in DOMAIN applyCh', applyCh'[i] = applyCh'[j]
      PROVE  i = j
  <2>1. \A k \in DOMAIN applyCh' : k \in DOMAIN applyCh \/ k = Len(applyCh) + 1
    BY DEF SendFacts
  <2>2. \A k \in DOMAIN applyCh : applyCh'[k] # x
    BY DEF SendFacts, Unsent, Elems
  <2>3. \A k, l \in DOMAIN applyCh : applyCh[k] = applyCh[l] => k = l
    BY DEF OnceInv
  <2> QED BY <1>2, <2>1, <2>2, <2>3 DEF SendFacts
<1>3. \A i \in Epoch' : applied'[i] \notin Elems(applyCh')
  BY <1>1 DEF SendFacts, Unsent, OnceInv
<1>4. \A y : Unsent(y) /\ y # x => Unsent(y)'
  BY <1>1 DEF SendFacts, Unsent
<1> QED BY <1>1, <1>2, <1>3, <1>4

LEMMA OnceStep ==
    ASSUME TypeOK, PhaseInv, OnceInv, [Next]_vars
    PROVE  OnceInv'
<1>0. /\ height \in Nat /\ cursor \in Nat /\ Len(applied) \in Nat /\ epoch \in Nat
      /\ \A h \in Handler : owing[h] \in Nat
      /\ Elems(applied) \subseteq Nat /\ Elems(applyCh) \subseteq Nat
  BY SizesAssumption DEF TypeOK, PlaceOrZero, Place, Elems
<1>a. \A i \in Epoch : i \in DOMAIN applied /\ applied[i] \in Elems(applied)
  <2> SUFFICES ASSUME NEW i \in Epoch PROVE i \in DOMAIN applied
    BY DEF Elems
  <2>1. applied \in Seq(Place) /\ i \in 1..Len(applied)
    BY <1>0 DEF TypeOK, Epoch
  <2> QED BY <2>1
<1>1. ASSUME NEW g \in Handler, AppendEntry(g) PROVE OnceInv'
  <2>1. Epoch' = Epoch /\ UNCHANGED <<applied, applyCh>>
    BY <1>1 DEF AppendEntry, Epoch
  <2>2. \A h \in Handler : owing'[h] = IF h = g THEN height + 1 ELSE owing[h]
    BY <1>1 DEF AppendEntry, TypeOK
  <2>3. \A h \in Handler : owing[h] # height + 1
    BY <1>0 DEF PhaseInv
  <2>4. Unsent(height + 1)
    <3>1. \A x \in Elems(applied) \cup Elems(applyCh) : x # height + 1
      BY <1>0 DEF PhaseInv
    <3> QED BY <1>a, <3>1 DEF Unsent
  <2>5. \A x : Unsent(x) => Unsent(x)'
    BY <2>1 DEF Unsent
  <2>6. ASSUME NEW h \in Handler, NEW y, y = owing'[h], y # 0 PROVE Unsent(y)'
    <3>1. Unsent(y)
      BY <2>2, <2>4, <2>6 DEF OnceInv
    <3> QED BY <2>5, <3>1
  <2>7. \A h, i \in Handler : owing'[h] # 0 /\ owing'[h] = owing'[i] => h = i
    BY <2>2, <2>3 DEF OnceInv
  <2>8. (\A h \in Handler : owing[h] # 0 => Unsent(owing[h]))'
    BY <2>6 DEF Unsent
  <2> QED BY <2>1, <2>7, <2>8 DEF OnceInv, OncePerProcess, Epoch
<1>2. ASSUME NEW g \in Handler, Apply(g) PROVE OnceInv'
  <2> DEFINE x == owing[g]
  <2>1. x \in Place /\ x # 0 /\ Unsent(x)
    BY <1>2 DEF Apply, TypeOK, PlaceOrZero, Place, OnceInv
  <2>2. SendFacts(x) /\ UNCHANGED <<applied, epoch>>
    BY <1>2, <2>1, SendStep DEF Apply
  <2>3. \A h \in Handler : owing'[h] = IF h = g THEN 0 ELSE owing[h]
    BY <1>2 DEF Apply, TypeOK
  <2>4. \A h \in Handler : owing'[h] # 0 => owing[h] = owing'[h] /\ owing[h] # x
    BY <2>1, <2>3 DEF OnceInv
  <2>5. \A h, i \in Handler : owing'[h] # 0 /\ owing'[h] = owing'[i] => h = i
    BY <2>4 DEF OnceInv
  <2> HIDE DEF x
  <2>6. ASSUME NEW h \in Handler, NEW y, y = owing'[h], y # 0 PROVE Unsent(y)'
    <3>1. Unsent(y) /\ y # x
      BY <2>4, <2>6 DEF OnceInv
    <3> QED BY <2>1, <2>2, <3>1, FreshSend
  <2>7. (\A h \in Handler : owing[h] # 0 => Unsent(owing[h]))'
    BY <2>6 DEF Unsent
  <2> QED BY <2>1, <2>2, <2>5, <2>7, FreshSend DEF OnceInv
<1>3. CASE Start
  <2> DEFINE x == Head(applyCh)
             n == Len(applied) + 1
  <2>1. HandFacts(x)
    BY <1>3, HandStep
  <2> HIDE DEF x
  <2>2. Epoch' = Epoch \cup {n} /\ n \notin Epoch
    BY <1>0, <1>3, <2>1 DEF HandFacts, Start, Epoch, TypeOK
  <2>3. /\ applied'[n] = x /\ \A i \in Epoch : applied'[i] = applied[i]
        /\ \A i \in Epoch : applied[i] # x
    BY <1>a, <2>1 DEF HandFacts, OnceInv
  <2> HIDE DEF n
  <2>4. \A i, j \in Epoch' : applied'[i] = applied'[j] => i = j
    <3>1. \A i, j \in Epoch : applied[i] = applied[j] => i = j
      BY DEF OnceInv, OncePerProcess, Epoch
    <3> QED BY <2>2, <2>3, <3>1
  <2>5. \A i, j \in DOMAIN applyCh' : applyCh'[i] = applyCh'[j] => i = j
    <3>1. \A i \in DOMAIN applyCh' : i \in Nat /\ i + 1 \in DOMAIN applyCh
      BY <2>1 DEF HandFacts
    <3>2. ASSUME NEW i \in DOMAIN applyCh', NEW j \in DOMAIN applyCh', applyCh'[i] = applyCh'[j]
          PROVE  i = j
      <4>1. applyCh[i + 1] = applyCh[j + 1]
        BY <2>1, <3>2 DEF HandFacts
      <4>2. i + 1 = j + 1
        BY <3>1, <4>1 DEF OnceInv
      <4> QED BY <3>1, <4>2
    <3> QED BY <3>2
  <2>6. x \notin Elems(applyCh')
    <3>1. ASSUME NEW i \in DOMAIN applyCh' PROVE applyCh'[i] # x
      <4>1. /\ i \in Nat \ {0} /\ i + 1 \in DOMAIN applyCh /\ 1 \in DOMAIN applyCh
            /\ applyCh'[i] = applyCh[i + 1] /\ applyCh[1] = x
        BY <2>1 DEF HandFacts
      <4>2. i + 1 # 1
        BY <4>1
      <4> QED BY <4>1, <4>2 DEF OnceInv
    <3> QED BY <3>1 DEF Elems
  <2>7. \A i \in Epoch' : applied'[i] \notin Elems(applyCh')
    BY <2>1, <2>2, <2>3, <2>6 DEF HandFacts, OnceInv
  <2>8. \A y : Unsent(y) => Unsent(y)'
    <3> SUFFICES ASSUME NEW y, Unsent(y) PROVE Unsent(y)'
      OBVIOUS
    <3>1. y # x /\ y \notin Elems(applyCh')
      BY <2>1 DEF HandFacts, Unsent
    <3> QED BY <2>2, <2>3, <3>1 DEF Unsent
  <2>9. (\A h \in Handler : owing[h] # 0 => Unsent(owing[h]))'
    <3> SUFFICES ASSUME NEW h \in Handler, NEW y, y = owing'[h], y # 0 PROVE Unsent(y)'
      BY DEF Unsent
    <3>1. Unsent(y)
      BY <1>3 DEF Start, OnceInv
    <3> QED BY <2>8, <3>1
  <2>10. \A g, h \in Handler : owing'[g] # 0 /\ owing'[g] = owing'[h] => g = h
    BY <1>3 DEF Start, OnceInv
  <2> QED BY <2>4, <2>5, <2>7, <2>9, <2>10 DEF OnceInv, OncePerProcess, Epoch
<1>4. CASE SetStable \/ Serve \/ UNCHANGED vars
  BY <1>4 DEF SetStable, Serve, vars, OnceInv, OncePerProcess, Epoch, Unsent
<1>5. CASE Replay
  <2>1. cursor \in Place /\ \A h \in Handler : owing'[h] = 0
    BY <1>5, SizesAssumption DEF Replay, TypeOK, Place, PlaceOrZero, PhaseInv
  <2>2. SendFacts(cursor) /\ UNCHANGED <<applied, epoch>>
    BY <1>5, <2>1, SendStep DEF Replay
  <2>3. Unsent(cursor)
    <3>1. phase = "check"
      BY <1>5 DEF Replay
    <3>2. \A y \in Elems(applyCh) : y # cursor
      BY <1>0, <3>1 DEF PhaseInv
    <3>3. \A i \in Epoch : applied[i] # cursor
      BY <1>0, <1>a, <3>1 DEF PhaseInv
    <3> QED BY <3>2, <3>3 DEF Unsent
  <2> QED BY <2>1, <2>2, <2>3, FreshSend DEF OnceInv
<1>7. CASE Crash
  <2>1. Elems(applyCh') = {} /\ DOMAIN applyCh' = {} /\ \A h \in Handler : owing'[h] = 0
    BY <1>7 DEF Crash, Elems
  <2> QED BY <1>7, <2>1 DEF Crash, OnceInv, OncePerProcess, Epoch
<1>8. CASE Restart
  <2>1. Epoch' = {} /\ DOMAIN applyCh' = {} /\ \A h \in Handler : owing'[h] = 0
    BY <1>0, <1>8 DEF Restart, PhaseInv, Epoch
  <2> QED BY <2>1 DEF OnceInv, OncePerProcess, Epoch
<1> QED BY <1>1, <1>2, <1>3, <1>4, <1>5, <1>7, <1>8 DEF Next

-----------------------------------------------------------------------------
(* The order of the log.                                                   *)

LEMMA FewSubset ==
    ASSUME NEW S, Few(S), NEW T, T \subseteq S
    PROVE  Few(T)
<1>1. IsFiniteSet(T) /\ Cardinality(T) <= Cardinality(S)
  BY FS_Subset DEF Few
<1>2. Cardinality(T) \in Nat /\ Cardinality(S) \in Nat /\ Cardinality(Handler) \in Nat
  BY <1>1, SizesAssumption, FS_CardinalityType DEF Few
<1> QED BY <1>1, <1>2 DEF Few

LEMMA FewNone == Few({})
<1>1. IsFiniteSet({}) /\ Cardinality({}) = 0
  BY FS_EmptySet
<1>2. Cardinality(Handler) \in Nat /\ Cardinality(Handler) # 0
  BY SizesAssumption, FS_CardinalityType, FS_EmptySet
<1> QED BY <1>1, <1>2 DEF Few

\* What the other handlers owe is one entry each.
LEMMA OwedByOthers ==
    ASSUME NEW g \in Handler, NEW B, \A y \in B : \E h \in Handler \ {g} : owing[h] = y
    PROVE  Few(B)
<1> DEFINE S == {h \in Handler \ {g} : owing[h] \in B}
           f == [h \in S |-> owing[h]]
<1>1. f \in Surjection(S, B)
  BY DEF Surjection
<1>2. /\ IsFiniteSet(Handler \ {g}) /\ Cardinality(Handler \ {g}) = Cardinality(Handler) - 1
      /\ Cardinality(Handler) \in Nat
  BY SizesAssumption, FS_RemoveElement, FS_CardinalityType
<1>3. IsFiniteSet(S) /\ Cardinality(S) <= Cardinality(Handler \ {g})
  BY <1>2, FS_Subset
<1>4. IsFiniteSet(B) /\ Cardinality(B) <= Cardinality(S)
  BY <1>1, <1>3, FS_Surjection
<1>5. Cardinality(B) \in Nat /\ Cardinality(S) \in Nat
  BY <1>3, <1>4, FS_CardinalityType
<1> HIDE DEF S, f
<1> QED BY <1>2, <1>3, <1>4, <1>5 DEF Few

\* A send of an entry keeps the order, if few of the earlier ones have not been sent.
Unqueued(x) == {y \in 1..(x - 1) : y \notin lost \cup Elems(applied) \cup Elems(applyCh)}

LEMMA OrderSend ==
    ASSUME OrderInv, NEW x \in Place, SendFacts(x), Few(Unqueued(x)), UNCHANGED <<applied, lost>>
    PROVE  OrderInv'
<1>1. \A i : Missed(i)' = Missed(i)
  BY DEF Missed
<1>2. ASSUME NEW k \in DOMAIN applyCh' PROVE Few(Behind(k)')
  <2>1. \A j \in 1..(k - 1) : j \in DOMAIN applyCh /\ applyCh'[j] = applyCh[j]
    BY DEF SendFacts
  <2>2. CASE k \in DOMAIN applyCh
    <3>1. Behind(k)' = Behind(k)
      BY <2>1, <2>2 DEF SendFacts, Behind
    <3> QED BY <2>2, <3>1 DEF OrderInv
  <2>3. CASE k = Len(applyCh) + 1
    <3>1. k - 1 = Len(applyCh) /\ applyCh'[k] = x
      BY <2>3 DEF SendFacts
    <3>2. \A y : (\A j \in 1..(k - 1) : applyCh'[j] # y) => y \notin Elems(applyCh)
      BY <2>1, <3>1 DEF SendFacts, Elems
    <3>3. Behind(k)' \subseteq Unqueued(x)
      BY <3>1, <3>2 DEF Behind, Unqueued
    <3> QED BY <3>3, FewSubset
  <2> QED BY <2>2, <2>3 DEF SendFacts
<1> QED BY <1>1, <1>2 DEF OrderInv

LEMMA OrderStep ==
    ASSUME TypeOK, PhaseInv, KeptInv, OrderInv, [Next]_vars
    PROVE  OrderInv'
<1>0. /\ height \in Nat /\ cursor \in Nat /\ Len(applied) \in Nat
      /\ \A h \in Handler : owing[h] \in Nat
      /\ DOMAIN applied = 1..Len(applied)
  BY SizesAssumption DEF TypeOK, PlaceOrZero, Place
<1>1. ASSUME NEW g \in Handler, Apply(g) PROVE OrderInv'
  <2>0. PICK x : x = owing[g]
    OBVIOUS
  <2>1. x \in Place /\ x <= height /\ phase = "serve"
    BY <1>1, <2>0 DEF Apply, TypeOK, PlaceOrZero, Place, PhaseInv
  <2>2. SendFacts(x) /\ UNCHANGED <<applied, lost>>
    BY <1>1, <2>0, <2>1, SendStep DEF Apply
  <2>3. ASSUME NEW y \in Unqueued(x) PROVE \E h \in Handler \ {g} : owing[h] = y
    <3>1. y \in 1..(x - 1) /\ y \notin lost \cup Elems(applied) \cup Elems(applyCh)
      BY DEF Unqueued
    <3>2. x \in Nat /\ y \in 1..height /\ y # x
      BY <1>0, <2>0, <2>1, <3>1
    <3>3. \E h \in Handler : owing[h] = y
      BY <2>1, <3>1, <3>2 DEF KeptInv, Kept, Pending, InMemory
    <3> QED BY <2>0, <3>2, <3>3
  <2>4. Few(Unqueued(x))
    BY <2>3, OwedByOthers
  <2> QED BY <2>1, <2>2, <2>4, OrderSend
<1>2. CASE Replay
  <2>1. cursor \in Place /\ phase = "check" /\ cursor <= height /\ \A h \in Handler : owing[h] = 0
    BY <1>2, SizesAssumption DEF Replay, TypeOK, Place, PlaceOrZero, PhaseInv
  <2>2. SendFacts(cursor) /\ UNCHANGED <<applied, lost>>
    BY <1>2, <2>1, SendStep DEF Replay
  <2>3. ASSUME NEW y \in Unqueued(cursor) PROVE FALSE
    <3>1. y \in 1..(cursor - 1) /\ y \notin lost \cup Elems(applied) \cup Elems(applyCh)
      BY DEF Unqueued
    <3>2. y \in 1..height /\ ~(y >= cursor) /\ y # 0
      BY <1>0, <2>1, <3>1
    <3> QED BY <2>1, <3>1, <3>2 DEF KeptInv, Kept, Pending, InMemory
  <2>4. Few(Unqueued(cursor))
    <3>1. Unqueued(cursor) = {}
      BY <2>3
    <3> QED BY <3>1, FewNone
  <2> QED BY <2>1, <2>2, <2>4, OrderSend
<1>3. CASE Start
  <2> DEFINE x == Head(applyCh)
             n == Len(applied) + 1
  <2>1. HandFacts(x) /\ UNCHANGED lost
    BY <1>3, HandStep DEF Start
  <2> HIDE DEF x
  <2>2. ASSUME NEW i \in DOMAIN applied' PROVE Few(Missed(i)')
    <3>1. i \in 1..n /\ n \in Nat
      BY <1>0, <2>1 DEF HandFacts
    <3>2. \A j \in 1..(i - 1) : j \in DOMAIN applied /\ applied'[j] = applied[j]
      BY <1>0, <2>1, <3>1 DEF HandFacts
    <3>3. CASE i \in DOMAIN applied
      <4>1. Missed(i)' = Missed(i)
        BY <2>1, <3>2, <3>3 DEF HandFacts, Missed
      <4> QED BY <3>3, <4>1 DEF OrderInv
    <3>4. CASE i = n
      <4>1. applied'[i] = x /\ i - 1 = Len(applied)
        BY <2>1, <3>4 DEF HandFacts
      <4>2. \A y : (\A j \in 1..(i - 1) : applied'[j] # y) => y \notin Elems(applied)
        BY <1>0, <3>2, <4>1 DEF Elems
      <4>3. 1 \in DOMAIN applyCh /\ applyCh[1] = x /\ 1..(1 - 1) = {}
        BY <2>1 DEF HandFacts
      <4>4. Missed(i)' \subseteq Behind(1)
        BY <2>1, <4>1, <4>2, <4>3 DEF Missed, Behind
      <4>5. Few(Behind(1))
        BY <4>3 DEF OrderInv
      <4> QED BY <4>4, <4>5, FewSubset
    <3> QED BY <1>0, <3>1, <3>3, <3>4
  <2>3. ASSUME NEW k \in DOMAIN applyCh' PROVE Few(Behind(k)')
    <3>1. /\ k \in Nat \ {0} /\ k + 1 \in DOMAIN applyCh /\ applyCh'[k] = applyCh[k + 1]
          /\ k <= Len(applyCh) - 1 /\ Len(applyCh) \in Nat
      BY <2>1 DEF HandFacts
    <3>2. ASSUME NEW y, y \notin Elems(applied'), \A j \in 1..(k - 1) : applyCh'[j] # y,
                 NEW j \in 1..(k + 1 - 1)
          PROVE  applyCh[j] # y
      <4>1. CASE j = 1
        BY <2>1, <3>2, <4>1 DEF HandFacts
      <4>2. CASE j # 1
        <5>1. j - 1 \in 1..(k - 1) /\ j - 1 \in DOMAIN applyCh' /\ (j - 1) + 1 = j
          BY <2>1, <3>1, <4>2 DEF HandFacts
        <5>2. applyCh'[j - 1] = applyCh[j]
          BY <2>1, <5>1 DEF HandFacts
        <5> QED BY <3>2, <5>1, <5>2
      <4> QED BY <4>1, <4>2
    <3>3. Elems(applied) \subseteq Elems(applied')
      BY <2>1 DEF HandFacts
    <3>4. Behind(k)' \subseteq Behind(k + 1)
      BY <2>1, <3>1, <3>2, <3>3 DEF Behind
    <3> QED BY <3>1, <3>4, FewSubset DEF OrderInv
  <2> QED BY <2>2, <2>3 DEF OrderInv
<1>4. CASE Crash
  <2>1. DOMAIN applyCh' = {} /\ UNCHANGED applied /\ lost \subseteq lost'
    BY <1>4 DEF Crash
  <2>2. \A i \in DOMAIN applied : Missed(i)' \subseteq Missed(i)
    BY <2>1 DEF Missed
  <2>3. \A i \in DOMAIN applied' : Few(Missed(i)')
    BY <2>1, <2>2, FewSubset DEF OrderInv
  <2> QED BY <2>1, <2>3 DEF OrderInv
<1>5. CASE UNCHANGED <<applied, applyCh, lost>>
  BY <1>5 DEF OrderInv, Missed, Behind
<1> QED BY <1>1, <1>2, <1>3, <1>4, <1>5
        DEF Next, AppendEntry, SetStable, Serve, Restart, vars

-----------------------------------------------------------------------------
(* What a crash can lose.                                                  *)

\* An entry of the log stays applied, on its way or lost.
LEMMA KeptStep ==
    ASSUME TypeOK, PhaseInv, KeptInv, [Next]_vars
    PROVE  Kept'
<1>0. /\ height \in Nat /\ cursor \in Nat /\ stable \in Nat /\ \A h \in Handler : owing[h] \in Nat
  BY SizesAssumption DEF TypeOK, PlaceOrZero
<1> SUFFICES ASSUME NEW e \in 1..height' PROVE e \in Elems(applied') \/ Pending(e)' \/ e \in lost'
  BY DEF Kept
<1>a. e \in 1..height => e \in Elems(applied) \/ Pending(e) \/ e \in lost
  BY DEF KeptInv, Kept
<1>1. ASSUME NEW g \in Handler, AppendEntry(g)
      PROVE  e \in Elems(applied') \/ Pending(e)' \/ e \in lost'
  <2>1. \A h \in Handler : owing'[h] = IF h = g THEN height + 1 ELSE owing[h]
    BY <1>1 DEF AppendEntry, TypeOK
  <2>2. /\ owing[g] = 0 /\ height' = height + 1 /\ phase = "serve"
        /\ UNCHANGED <<applied, applyCh, phase, cursor, stable, lost>>
    BY <1>1 DEF AppendEntry
  <2>3. CASE e = height + 1
    BY <2>1, <2>3 DEF Pending, InMemory
  <2>4. CASE e \in 1..height
    <3>1. e # 0
      BY <2>4
    <3> QED BY <1>a, <2>1, <2>2, <2>4, <3>1 DEF Pending, InMemory
  <2> QED BY <1>0, <2>2, <2>3, <2>4
<1>2. ASSUME NEW g \in Handler, Apply(g)
      PROVE  e \in Elems(applied') \/ Pending(e)' \/ e \in lost'
  <2>1. owing[g] \in Place
    BY <1>2 DEF Apply, TypeOK, PlaceOrZero, Place
  <2>2. Elems(applyCh') = Elems(applyCh) \cup {owing[g]}
    BY <1>2, <2>1, SendStep DEF Apply, SendFacts
  <2>3. /\ \A h \in Handler : h # g => owing'[h] = owing[h]
        /\ phase = "serve" /\ UNCHANGED <<height, applied, phase, cursor, stable, lost>>
    BY <1>2 DEF Apply, TypeOK
  <2> QED BY <1>a, <2>2, <2>3 DEF Pending, InMemory
<1>3. CASE Start
  <2>1. HandFacts(Head(applyCh)) /\ UNCHANGED <<height, owing, phase, cursor, stable, lost>>
    BY <1>3, HandStep DEF Start
  <2>2. \A x \in Elems(applyCh) : x \in Elems(applied') \cup Elems(applyCh')
    BY <2>1 DEF HandFacts
  <2>3. Elems(applied) \subseteq Elems(applied')
    BY <2>1 DEF HandFacts
  <2> QED BY <1>3, <1>a, <2>1, <2>2, <2>3 DEF Pending, InMemory, Start, SeekPosition
<1>4. CASE SetStable
  BY <1>4, <1>a DEF SetStable, Pending, InMemory
<1>5. CASE Replay
  <2>1. cursor \in Place
    BY <1>5, SizesAssumption DEF Replay, TypeOK, Place, PlaceOrZero
  <2>2. Elems(applyCh') = Elems(applyCh) \cup {cursor} /\ cursor' = cursor + 1
        /\ phase = "check" /\ UNCHANGED <<height, owing, applied, phase, stable, lost>>
    BY <1>5, <2>1, SendStep DEF Replay, SendFacts
  <2>3. e >= cursor => e = cursor \/ e >= cursor'
    BY <1>0, <2>2
  <2> QED BY <1>a, <2>2, <2>3 DEF Pending, InMemory
<1>6. CASE Serve
  <2>1. ~(e >= cursor) /\ UNCHANGED <<height, owing, applied, applyCh, lost>> /\ phase = "check"
    BY <1>0, <1>6 DEF Serve
  <2> QED BY <1>a, <2>1 DEF Pending, InMemory
<1>7. CASE Crash
  <2>1. /\ phase' = "down" /\ SeekPosition' = SeekPosition /\ phase # "down"
        /\ UNCHANGED <<height, applied, stable>> /\ lost \subseteq lost'
        /\ InMemory(e) /\ e \notin Elems(applied) /\ e < stable => e \in lost'
    BY <1>7 DEF Crash, SeekPosition
  <2>2. stable = 0 \/ stable \in Elems(applied)
    BY DEF KeptInv
  <2>3. e > stable => e >= SeekPosition
    BY <1>0, <2>1 DEF SeekPosition
  <2>4. CASE InMemory(e) /\ e \notin Elems(applied)
    <3>1. e # stable
      BY <2>1, <2>2, <2>4
    <3> QED BY <1>0, <2>1, <2>3, <2>4, <3>1 DEF Pending
  <2>5. CASE phase = "check" /\ e >= cursor /\ e \notin Elems(applied)
    <3>1. e >= stable /\ e # stable
      BY <1>0, <2>1, <2>2, <2>5 DEF KeptInv
    <3> QED BY <1>0, <2>1, <2>3, <3>1 DEF Pending
  <2> QED BY <1>a, <2>1, <2>4, <2>5 DEF Pending
<1>8. CASE Restart
  <2>1. /\ UNCHANGED <<height, owing, applied, applyCh, lost>>
        /\ phase = "down" /\ phase' = "check" /\ cursor' = SeekPosition
    BY <1>8 DEF Restart
  <2> QED BY <1>a, <2>1 DEF Pending, InMemory
<1>9. CASE UNCHANGED vars
  BY <1>9, <1>a DEF vars, Pending, InMemory, SeekPosition
<1> QED BY <1>1, <1>2, <1>3, <1>4, <1>5, <1>6, <1>7, <1>8, <1>9 DEF Next

LEMMA KeptInvStep ==
    ASSUME TypeOK, PhaseInv, KeptInv, [Next]_vars
    PROVE  KeptInv'
<1>0. height \in Nat /\ cursor \in Nat /\ stable \in Nat /\ current \in Nat
  BY SizesAssumption DEF TypeOK, PlaceOrZero
<1>1. Kept'
  BY KeptStep
<1>2. CASE Start
  <2>1. /\ HandFacts(Head(applyCh)) /\ current' = Head(applyCh)
        /\ UNCHANGED <<stable, cursor, phase>>
    BY <1>2, HandStep DEF Start
  <2>2. current' \in Elems(applied') /\ current' \in Elems(applyCh) /\ Elems(applied) \subseteq Elems(applied')
    BY <2>1 DEF HandFacts
  <2> QED BY <1>1, <2>1, <2>2 DEF KeptInv, PhaseInv
<1>3. CASE SetStable
  <2>1. /\ current' = 0 /\ stable' \in {stable, current} /\ UNCHANGED <<applied, cursor, phase>>
    BY <1>3 DEF SetStable
  <2>2. phase = "check" => cursor > 0 /\ stable' <= cursor
    BY <1>0, <2>1 DEF KeptInv
  <2> QED BY <1>1, <2>1, <2>2 DEF KeptInv
<1>4. CASE Restart
  <2>1. /\ current = 0 /\ cursor' = SeekPosition /\ UNCHANGED <<current, stable, applied>>
    BY <1>4 DEF Restart, PhaseInv
  <2>2. stable <= SeekPosition /\ 0 < SeekPosition
    BY <1>0 DEF SeekPosition
  <2> QED BY <1>1, <2>1, <2>2 DEF KeptInv
<1>5. CASE Crash
  BY <1>1, <1>5 DEF Crash, KeptInv
<1>6. CASE Replay \/ Serve
  <2>1. UNCHANGED <<current, stable, applied>> /\ phase = "check" /\ cursor' >= cursor /\ cursor' \in Nat
    BY <1>0, <1>6 DEF Replay, Serve
  <2> QED BY <1>0, <1>1, <2>1 DEF KeptInv
<1>7. CASE UNCHANGED <<current, stable, applied, cursor, phase>>
  BY <1>1, <1>7 DEF KeptInv
<1> QED BY <1>2, <1>3, <1>4, <1>5, <1>6, <1>7 DEF Next, AppendEntry, Apply, vars

\* What a crash loses is what was missing when the entry in the stable store was handed
\* over.
LEMMA LossStep ==
    ASSUME TypeOK, KeptInv, OrderInv, LossInv, [Next]_vars
    PROVE  LossInv'
<1> DEFINE d == Cardinality(Handler) - 1
<1>0. d \in Nat /\ crashes \in Nat
  <2>1. Cardinality(Handler) \in Nat /\ Cardinality(Handler) # 0
    BY SizesAssumption, FS_CardinalityType, FS_EmptySet
  <2> QED BY <2>1, SizesAssumption DEF TypeOK
<1>1. CASE Crash
  <2>1. PICK N : Few(N) /\ lost' \subseteq lost \cup N
    <3>1. CASE stable = 0
      <4>1. ~\E e \in 1..height : e < stable
        BY <3>1, SizesAssumption DEF TypeOK, PlaceOrZero
      <4>2. lost' \subseteq lost \cup {}
        BY <1>1, <4>1 DEF Crash
      <4> QED BY <4>2, FewNone
    <3>2. CASE stable # 0
      <4>1. PICK i \in DOMAIN applied : applied[i] = stable
        BY <3>2 DEF KeptInv, Elems
      <4>2. /\ \A j \in 1..(i - 1) : j \in DOMAIN applied
            /\ stable \in Nat /\ height \in Nat
        <5>1. applied \in Seq(Place) /\ DOMAIN applied = 1..Len(applied) /\ Len(applied) \in Nat
          BY DEF TypeOK
        <5> QED BY <4>1, <5>1, SizesAssumption DEF TypeOK, PlaceOrZero
      <4>3. ASSUME NEW e \in lost', e \notin lost PROVE e \in Missed(i)
        <5>1. e \in 1..height /\ e \notin Elems(applied) /\ e < stable
          BY <1>1, <4>3 DEF Crash
        <5>2. e \in 1..(applied[i] - 1)
          BY <4>1, <4>2, <5>1
        <5>3. \A j \in 1..(i - 1) : applied[j] # e
          BY <4>2, <5>1 DEF Elems
        <5> QED BY <4>3, <5>2, <5>3 DEF Missed
      <4> QED BY <4>1, <4>3 DEF OrderInv
    <3> QED BY <3>1, <3>2
  <2>2. /\ IsFiniteSet(lost \cup N) /\ Cardinality(N) \in Nat /\ Cardinality(lost) \in Nat
        /\ Cardinality(lost \cup N) <= Cardinality(lost) + Cardinality(N)
    <3>1. IsFiniteSet(lost) /\ IsFiniteSet(N)
      BY <2>1 DEF LossInv, Few
    <3>2. /\ IsFiniteSet(lost \cup N) /\ IsFiniteSet(lost \cap N)
          /\ Cardinality(lost \cup N) = Cardinality(lost) + Cardinality(N) - Cardinality(lost \cap N)
      BY <3>1, FS_Union, FS_Intersection
    <3>3. Cardinality(N) \in Nat /\ Cardinality(lost) \in Nat /\ Cardinality(lost \cap N) \in Nat
      BY <3>1, <3>2, FS_CardinalityType
    <3> QED BY <3>2, <3>3
  <2>3. IsFiniteSet(lost') /\ Cardinality(lost') <= Cardinality(lost \cup N)
    BY <2>1, <2>2, FS_Subset
  <2>4. Cardinality(lost') \in Nat /\ Cardinality(lost \cup N) \in Nat /\ Cardinality(Handler) \in Nat
    BY <2>2, <2>3, SizesAssumption, FS_CardinalityType
  <2>5. Cardinality(N) <= d
    BY <2>1, <2>2, <2>4 DEF Few
  <2>6. Cardinality(lost) <= crashes * d
    BY DEF LossInv
  <2>7. crashes' = crashes + 1
    BY <1>1 DEF Crash
  <2> HIDE DEF d
  <2>8. Cardinality(lost') <= crashes * d + d /\ (crashes + 1) * d = crashes * d + d
    BY <1>0, <2>2, <2>3, <2>4, <2>5, <2>6
  <2> QED BY <2>3, <2>7, <2>8 DEF LossInv, d
<1>2. CASE UNCHANGED <<lost, crashes>>
  BY <1>2 DEF LossInv
<1> QED BY <1>1, <1>2 DEF Next, AppendEntry, Apply, Start, SetStable, Replay, Serve, Restart, vars

LEMMA InvStep == IInv /\ [Next]_vars => IInv'
<1> QED BY TypeStep, PhaseStep, OnceStep, KeptInvStep, OrderStep, LossStep DEF IInv

LEMMA FsmInvariant == Spec => []IInv
<1> QED BY InitInv, InvStep, PTL DEF Spec

-----------------------------------------------------------------------------
\* Every variable keeps its type, and the queue its capacity (newFsm).
THEOREM TypeCorrect == Spec => []TypeOK
<1>1. IInv => TypeOK
  BY DEF IInv
<1> QED BY <1>1, FsmInvariant, PTL

\* However many handlers append, one process never hands an entry to the FSM twice:
\* what check replays and what handlers queue afterwards do not overlap (check, apply).
THEOREM HandedOnce == Spec => []OncePerProcess
<1>1. IInv => OncePerProcess
  BY DEF IInv, OnceInv
<1> QED BY <1>1, FsmInvariant, PTL

\* The FSM is given an entry when it lacks fewer of the earlier ones than there are
\* handlers, whatever crashes and errors of the stable store come between: each that it
\* lacks is owed by another handler, or was lost (checkVotesAndCommit, start, check).
THEOREM InOrder == Spec => []FewMissed
<1>1. IInv => FewMissed
  BY DEF IInv, OrderInv, Few, FewMissed
<1> QED BY <1>1, FsmInvariant, PTL

\* The replay after a crash leaves out nothing but what later entries of other handlers
\* had overtaken, fewer entries for each crash than there are handlers (check, SetStable).
THEOREM AllReachFsm == Spec => []FewLost
<1>1. IInv => FewLost
  BY DEF IInv, KeptInv, Kept, LossInv, FewLost
<1> QED BY <1>1, FsmInvariant, PTL

\* Until the first crash every entry of the log is applied or on its way, however many
\* handlers append (apply, start).
THEOREM OnlyCrashesLose ==
    Spec => [](crashes = 0 => \A e \in 1..height : e \in Elems(applied) \/ Pending(e))
<1>1. IInv => (crashes = 0 => \A e \in 1..height : e \in Elems(applied) \/ Pending(e))
  <2> SUFFICES ASSUME KeptInv, LossInv, crashes = 0 PROVE lost = {}
    BY DEF IInv, KeptInv, Kept
  <2>1. Cardinality(Handler) \in Nat /\ Cardinality(lost) \in Nat /\ IsFiniteSet(lost)
    BY SizesAssumption, FS_CardinalityType DEF LossInv
  <2>2. Cardinality(lost) <= 0 * (Cardinality(Handler) - 1)
    BY DEF LossInv
  <2>3. Cardinality(lost) = 0
    BY <2>1, <2>2
  <2> QED BY <2>1, <2>3, FS_EmptySet
<1> QED BY <1>1, FsmInvariant, PTL
=============================================================================

-------------------------- MODULE GateQueue_proofs ---------------------------
(***************************************************************************)
(* Proofs about GateQueue.  FoldFacts has what the proof about the byte    *)
(* count needs of sums.                                                    *)
(* The inductive invariant adds to Conserved that numbers up to "made"     *)
(* only are in use: it makes the next update new wherever one looks.       *)
(***************************************************************************)
EXTENDS GateQueue, FoldFacts, FiniteSetTheorems, TLAPS

Everywhere == queue \cup sent \cup lost

Numbered ==
  /\ made \in Nat
  /\ \A u \in Everywhere : u.id \in Nat /\ u.id <= made

Places ==
  /\ queue \subseteq Update /\ sent \subseteq Update /\ lost \subseteq Update
  /\ made \in 0 .. MadeBound

IInv == Numbered /\ Places /\ Conserved

(* The three ways a handler touches the outbox.                            *)
Untouched == UNCHANGED <<queue, made, sent, lost>>
Adds(u) == /\ u \in Update /\ u.id = made + 1 /\ made' = made + 1
           /\ queue' = queue \cup {u} /\ UNCHANGED <<sent, lost>>
Sends(U, new) ==
  /\ U \subseteq queue
  /\ new \subseteq Update
  /\ \/ new = {} /\ made' = made
     \/ made' = made + 1 /\ \E u \in new : new = {u} /\ u.id = made + 1
  /\ made' \in 0 .. MadeBound
  /\ queue' = queue \ U
  /\ \/ sent' = sent \cup U \cup new /\ UNCHANGED lost
     \/ lost' = lost \cup U \cup new /\ UNCHANGED sent
Moves == \E U \in SUBSET queue, new \in SUBSET Update : Sends(U, new)
Adding == /\ made' \in 0 .. MadeBound /\ \E u \in Update : Adds(u)
          /\ ~(Cardinality(queue) >= MaxUpdates)

LEMMA InitHolds == Init => IInv
  BY LimitAssumption DEF Init, IInv, Numbered, Places, Conserved, Everywhere

LEMMA UntouchedKeeps == ASSUME IInv, Untouched PROVE IInv'
  BY DEF IInv, Numbered, Places, Conserved, Everywhere, Untouched

LEMMA AddingKeeps == ASSUME IInv, Adding PROVE IInv'
  <1> PICK u \in Update : Adds(u)
    BY DEF Adding
  <1>1. made' = made + 1 /\ made \in Nat
    BY DEF Adds, IInv, Numbered
  <1>2. \A v \in Everywhere : v.id # u.id
    BY <1>1 DEF Adds, IInv, Numbered
  <1>3. Everywhere' = Everywhere \cup {u}
    BY DEF Everywhere, Adds
  <1>4. Numbered'
    BY <1>1, <1>3 DEF Numbered, IInv, Adds
  <1>5. Places'
    BY DEF Places, Adds, Adding, IInv
  <1>6. Conserved'
    <2>1. /\ queue' \cap sent' = {} /\ queue' \cap lost' = {}
          /\ sent' \cap lost' = {}
      BY <1>2 DEF Adds, IInv, Conserved, Everywhere
    <2>2. \A i \in 1 .. made' : \E v \in Everywhere' : v.id = i
      <3> TAKE i \in 1 .. made'
      <3>1. CASE i = made + 1
        BY <3>1, <1>3 DEF Adds
      <3>2. CASE i # made + 1
        <4>1. i \in 1 .. made
          BY <3>2, <1>1
        <4> QED BY <4>1, <1>3 DEF IInv, Conserved, Everywhere
      <3> QED BY <3>1, <3>2
    <2>3. \A v, w \in Everywhere' : v.id = w.id => v = w
      BY <1>2, <1>3 DEF IInv, Conserved, Everywhere
    <2> QED BY <2>1, <2>2, <2>3 DEF Conserved, Everywhere
  <1> QED BY <1>4, <1>5, <1>6 DEF IInv

LEMMA SendingKeeps == ASSUME IInv, Moves PROVE IInv'
  <1> PICK U \in SUBSET queue, new \in SUBSET Update : Sends(U, new)
    BY DEF Moves
  <1>1. made \in Nat /\ made' \in {made, made + 1}
    BY DEF Sends, IInv, Numbered
  <1>2. Everywhere' = Everywhere \cup new
    BY DEF Everywhere, Sends
  <1>3. \A u \in new : new = {u} /\ u.id = made + 1 /\ made' = made + 1
    BY DEF Sends
  <1>4. new \cap Everywhere = {} /\ \A v \in Everywhere, u \in new : v.id # u.id
    BY <1>1, <1>3 DEF IInv, Numbered
  <1>5. Numbered'
    BY <1>1, <1>2, <1>3 DEF Numbered, IInv
  <1>6. Places'
    BY DEF Places, Sends, IInv
  <1>7. Conserved'
    <2>1. /\ queue' \cap sent' = {} /\ queue' \cap lost' = {}
          /\ sent' \cap lost' = {}
      BY <1>4 DEF Sends, IInv, Conserved, Everywhere
    <2>2. \A i \in 1 .. made' : \E v \in Everywhere' : v.id = i
      <3> TAKE i \in 1 .. made'
      <3>1. CASE i \in 1 .. made
        BY <3>1, <1>2 DEF IInv, Conserved, Everywhere
      <3>2. CASE i \notin 1 .. made
        <4>1. i = made + 1 /\ made' = made + 1
          BY <3>2, <1>1
        <4>2. \E u \in new : u.id = made + 1
          BY <4>1, <1>1 DEF Sends
        <4> QED BY <4>1, <4>2, <1>2
      <3> QED BY <3>1, <3>2
    <2>3. \A v, w \in Everywhere' : v.id = w.id => v = w
      BY <1>2, <1>3, <1>4 DEF IInv, Conserved, Everywhere
    <2> QED BY <2>1, <2>2, <2>3 DEF Conserved, Everywhere
  <1> QED BY <1>5, <1>6, <1>7 DEF IInv

(***************************************************************************)
(* Every action moves updates in one of the three ways.                    *)
(***************************************************************************)
LEMMA EditMoves ==
  ASSUME IInv, LocalUpdate PROVE Adding \/ Moves
  <1> PICK f \in File, n \in Size :
        LET u == [id |-> made + 1, path |-> f, size |-> n]
        IN  Propagate(u) \/ Enqueue(u) \/ Overflow(u)
    BY DEF LocalUpdate
  <1> DEFINE u == [id |-> made + 1, path |-> f, size |-> n]
  <1>1. made + 1 \in 1 .. MadeBound
    <2>1. made < MadeBound
      BY DEF Propagate, Enqueue, Overflow, Makes
    <2> QED BY <2>1, LimitAssumption DEF IInv, Places
  <1>2. u \in Update /\ u.id = made + 1 /\ u.path = f
    BY <1>1 DEF Update
  <1>3. made' = made + 1 /\ made' \in 0 .. MadeBound
    BY <1>1, <1>2 DEF Propagate, Enqueue, Overflow, Makes
  <1> HIDE DEF u
  <1>4. CASE Propagate(u)
    <2>1. Sends({}, {u})
      BY <1>2, <1>3, <1>4 DEF Propagate, Send, Sends
    <2> QED BY <2>1, <1>2 DEF Moves
  <1>5. CASE Enqueue(u)
    BY <1>2, <1>3, <1>5 DEF Enqueue, Overflows, Adds, Adding
  <1>6. CASE Overflow(u)
    <2>1. Sends(queue, {u})
      BY <1>2, <1>3, <1>6 DEF Overflow, Send, Sends
    <2> QED BY <2>1, <1>2 DEF Moves
  <1> QED BY <1>4, <1>5, <1>6 DEF u

LEMMA DrainMoves ==
  ASSUME IInv, NEW U \in SUBSET queue, Drain(U) PROVE Moves
  <1>1. Sends(U, {})
    BY DEF Drain, Send, Sends, IInv, Places
  <1> QED BY <1>1 DEF Moves

LEMMA OtherSteps ==
  ASSUME [Next]_vars
  PROVE  LocalUpdate \/ DrainTick \/ (\E f \in File : LockEnds(f)) \/ UNCHANGED gateVars
  <1>5. Engine \/ StopGate \/ PauseOrResume => UNCHANGED gateVars
    BY DEF Engine, StopGate, PauseOrResume
  <1>6. ASSUME NEW f \in File,
               RemoteUpdate(f) \/ WindowPasses(f) \/ \E h \in LockHolder : LockTaken(f, h)
        PROVE UNCHANGED gateVars
    BY <1>6 DEF RemoteUpdate, WindowPasses, LockTaken
  <1>7. ASSUME NEW p \in Peer,
               \/ \E f \in File \cup {NoFile}, S \in SUBSET File : Announces(p, f, S)
               \/ \E f \in File : AdvertisedLeaseEnds(p, f)
        PROVE UNCHANGED gateVars
    <2>1. CASE \E f \in File \cup {NoFile}, S \in SUBSET File : Announces(p, f, S)
      BY <2>1 DEF Announces
    <2>2. CASE \E f \in File : AdvertisedLeaseEnds(p, f)
      BY <2>2 DEF AdvertisedLeaseEnds
    <2> QED BY <1>7, <2>1, <2>2
  <1>8. UNCHANGED vars => UNCHANGED gateVars
    BY DEF vars
  <1> QED BY <1>5, <1>6, <1>7, <1>8 DEF Next

LEMMA StepMoves ==
  ASSUME IInv, [Next]_vars PROVE Untouched \/ Adding \/ Moves
  <1>1. CASE LocalUpdate
    BY <1>1, EditMoves
  <1>2. CASE DrainTick
    <2>1. {u \in queue : ~Gated(u.path)} \in SUBSET queue
      OBVIOUS
    <2> QED BY <1>2, <2>1, DrainMoves DEF DrainTick
  <1>3. ASSUME NEW f \in File, LockEnds(f) PROVE Moves
    <2>1. QueueOf(f) \in SUBSET queue
      BY DEF QueueOf
    <2> QED BY <1>3, <2>1, DrainMoves DEF LockEnds
  <1>4. UNCHANGED gateVars => Untouched
    BY DEF gateVars, Untouched
  <1> QED BY <1>1, <1>2, <1>3, <1>4, OtherSteps

(* For any files, peers, sizes and limits, and under any interleaving of   *)
(* edits, drains, overflows, lock events, pauses and reconnects, every     *)
(* update made is in exactly one of queue, sent and lost.                  *)
THEOREM Conservation == Spec => []Conserved
  <1>1. IInv /\ [Next]_vars => IInv'
    BY StepMoves, UntouchedKeeps, AddingKeeps, SendingKeeps
  <1>2. IInv => Conserved
    BY DEF IInv
  <1> QED BY InitHolds, <1>1, <1>2, PTL DEF Spec

(***************************************************************************)
(* The limit on the number of queued updates.                              *)
(***************************************************************************)
Counted == IInv /\ IsFiniteSet(queue) /\ CountBounded

LEMMA AddingKeepsCount ==
  ASSUME Counted, Adding PROVE IsFiniteSet(queue') /\ CountBounded'
  <1> PICK u \in Update : Adds(u)
    BY DEF Adding
  <1>1. queue' = queue \cup {u} /\ IsFiniteSet(queue) /\ Cardinality(queue) \in Nat
    BY FS_CardinalityType DEF Counted, Adds
  <1>2. /\ IsFiniteSet(queue')
        /\ Cardinality(queue') \in {Cardinality(queue), Cardinality(queue) + 1}
    BY <1>1, FS_AddElement
  <1>3. Cardinality(queue) < MaxUpdates
    BY <1>1, LimitAssumption DEF Adding
  <1> QED BY <1>1, <1>2, <1>3, LimitAssumption DEF CountBounded

LEMMA ShrinkingKeepsCount ==
  ASSUME Counted, queue' \subseteq queue PROVE IsFiniteSet(queue') /\ CountBounded'
  <1>1. /\ IsFiniteSet(queue') /\ Cardinality(queue') <= Cardinality(queue)
        /\ Cardinality(queue') \in Nat /\ Cardinality(queue) \in Nat
    BY FS_Subset, FS_CardinalityType DEF Counted
  <1> QED BY <1>1, LimitAssumption DEF CountBounded, Counted

LEMMA CountKept ==
  ASSUME Counted, [Next]_vars PROVE Counted'
<1>1. IInv'
  BY StepMoves, UntouchedKeeps, AddingKeeps, SendingKeeps DEF Counted
<1>2. CASE Adding
  BY <1>1, <1>2, AddingKeepsCount DEF Counted
<1>3. CASE Untouched \/ Moves
  <2>1. queue' \subseteq queue
    BY <1>3 DEF Untouched, Moves, Sends
  <2> QED BY <1>1, <2>1, ShrinkingKeepsCount DEF Counted
<1> QED BY <1>2, <1>3, StepMoves DEF Counted

(* The gate queue never holds more than MaxUpdates updates, over all files.*)
THEOREM CountLimit == Spec => []CountBounded
  <1>1. Init => Counted
    BY InitHolds, FS_EmptySet, LimitAssumption DEF Init, Counted, CountBounded
  <1>2. Counted /\ [Next]_vars => Counted'
    BY CountKept
  <1>3. Counted => CountBounded
    BY DEF Counted
  <1> QED BY <1>1, <1>2, <1>3, PTL DEF Spec

(***************************************************************************)
(* The implementation of Outbox.                                           *)
(***************************************************************************)
LEMMA MovesLeave == ASSUME IInv, Moves PROVE O!Next
  <1> PICK U \in SUBSET queue, new \in SUBSET Update : Sends(U, new)
    BY DEF Moves
  <1>1. new \cap O!Known = {}
    BY DEF O!Known, Sends, IInv, Numbered, Everywhere
  <1>2. O!Leave(U, new)
    BY <1>1 DEF O!Leave, Sends
  <1>3. new = {} \/ \E u \in Update : new = {u}
    BY DEF Sends
  <1> QED BY <1>2, <1>3 DEF O!Next

LEMMA AddingAccepts == ASSUME IInv, Adding PROVE O!Next
  <1> PICK u \in Update : Adds(u)
    BY DEF Adding
  <1>1. u \notin O!Known
    BY DEF O!Known, Adds, IInv, Numbered, Everywhere
  <1> QED BY <1>1 DEF O!Next, O!Accept, Adds

(* The gate hands every update on at most once and never forgets one:      *)
(* GateQueue implements Outbox.                                            *)
THEOREM Refinement == Spec => ImplementsOutbox
  <1>1. Init => O!Init
    BY DEF Init, O!Init
  <1>2. IInv /\ [Next]_vars => [O!Next]_(O!vars)
    BY StepMoves, MovesLeave, AddingAccepts DEF Untouched, O!vars
  <1>3. IInv /\ [Next]_vars => IInv'
    BY StepMoves, UntouchedKeeps, AddingKeeps, SendingKeeps
  <1> QED BY InitHolds, <1>1, <1>2, <1>3, PTL DEF Spec, ImplementsOutbox, O!Spec

(***************************************************************************)
(* The number of bytes.                                                    *)
(***************************************************************************)
SizeOf == [u \in Update |-> u.size]
AnyOf == [U \in SUBSET Update |-> CHOOSE u \in U : TRUE]

LEMMA UpdatesSummable ==
  ASSUME NEW U \in SUBSET Update, IsFiniteSet(U)
  PROVE  Summable(SizeOf, AnyOf, U) /\ \A u \in U : SizeOf[u] = u.size /\ SizeOf[u] \in Nat
<1>1. \A u \in U : SizeOf[u] = u.size /\ SizeOf[u] \in Nat
  BY SizeAssumption DEF SizeOf, Update
<1>2. \A S \in SUBSET U : S # {} => AnyOf[S] \in S
  BY DEF AnyOf
<1> QED BY <1>1, <1>2 DEF Summable, Picks

LEMMA BytesAreTotal ==
  ASSUME NEW U \in SUBSET Update, IsFiniteSet(U)
  PROVE  Bytes(U) = Total(SizeOf, AnyOf, U)
<1> DEFINE any(S) == CHOOSE u \in S : TRUE
           Folds(it) == it = [S \in SUBSET U |->
             IF S = {} THEN 0 ELSE any(S).size + it[S \ {any(S)}]]
<1>1. Bytes(U) = (CHOOSE it : Folds(it))[U]
  BY DEF Bytes, MapThenSumSet, MapThenFoldSet
<1>2. ASSUME NEW S \in SUBSET U, S # {}
      PROVE  AnyOf[S] = any(S) /\ SizeOf[any(S)] = any(S).size
  <2>1. any(S) \in U
    BY <1>2
  <2> QED BY <2>1, UpdatesSummable DEF AnyOf
<1>3. ASSUME NEW it PROVE Folds(it) <=> IteratesFront(it, SizeOf, AnyOf, U)
  <2> HIDE DEF any
  <2>1. [S \in SUBSET U |-> IF S = {} THEN 0 ELSE any(S).size + it[S \ {any(S)}]]
        = [S \in SUBSET U |-> IF S = {} THEN 0 ELSE SizeOf[AnyOf[S]] + it[S \ {AnyOf[S]}]]
    BY <1>2
  <2> QED BY <2>1 DEF IteratesFront
<1> HIDE DEF Folds
<1>4. (CHOOSE it : Folds(it)) = (CHOOSE it : IteratesFront(it, SizeOf, AnyOf, U))
  BY <1>3
<1> QED BY <1>1, <1>4, FrontTotal, UpdatesSummable

LEMMA BytesFacts ==
  ASSUME NEW U \in SUBSET Update, IsFiniteSet(U)
  PROVE  /\ Bytes(U) \in Nat /\ Bytes({}) = 0
         /\ \A u \in Update \ U : Bytes(U \cup {u}) = Bytes(U) + u.size
         /\ \A S \in SUBSET U : Bytes(U \ S) = Bytes(U) - Bytes(S) /\ Bytes(U \ S) <= Bytes(U)
<1>1. Bytes(U) \in Nat
  BY BytesAreTotal, UpdatesSummable, TotalNat
<1>2. Bytes({}) = 0
  BY FS_EmptySet, BytesAreTotal, TotalEmpty
<1>3. ASSUME NEW u \in Update \ U PROVE Bytes(U \cup {u}) = Bytes(U) + u.size
  <2>1. IsFiniteSet(U \cup {u}) /\ U \cup {u} \in SUBSET Update
    BY FS_AddElement
  <2>2. Summable(SizeOf, AnyOf, U \cup {u}) /\ SizeOf[u] = u.size
    BY <2>1, UpdatesSummable
  <2>3. Total(SizeOf, AnyOf, U \cup {u}) = Total(SizeOf, AnyOf, U) + SizeOf[u]
    BY <2>2, TotalAdd
  <2> QED BY <2>1, <2>2, <2>3, BytesAreTotal
<1>4. ASSUME NEW S \in SUBSET U
      PROVE  Bytes(U \ S) = Bytes(U) - Bytes(S) /\ Bytes(U \ S) <= Bytes(U)
  <2>1. /\ IsFiniteSet(S) /\ IsFiniteSet(U \ S) /\ S \in SUBSET Update
        /\ U \ S \in SUBSET Update /\ (U \ S) \cup S = U /\ (U \ S) \cap S = {}
    BY FS_Subset
  <2>2. Bytes(S) \in Nat /\ Bytes(U \ S) \in Nat
    BY <2>1, BytesAreTotal, UpdatesSummable, TotalNat
  <2>3. Summable(SizeOf, AnyOf, (U \ S) \cup S)
    BY <2>1, UpdatesSummable
  <2>4. Total(SizeOf, AnyOf, (U \ S) \cup S) = Total(SizeOf, AnyOf, U \ S) + Total(SizeOf, AnyOf, S)
    BY <2>1, <2>3, TotalUnion
  <2>5. Bytes(U) = Bytes(U \ S) + Bytes(S)
    BY <2>1, <2>4, BytesAreTotal
  <2> QED BY <2>2, <2>5
<1> QED BY <1>1, <1>2, <1>3, <1>4

BytesInv == Counted /\ BytesExact

LEMMA DrainKeepsBytes ==
  ASSUME BytesInv, NEW U \in SUBSET queue, Drain(U) PROVE BytesExact'
<1>1. queue \in SUBSET Update /\ IsFiniteSet(queue) /\ queueBytes = Bytes(queue)
      /\ queueBytes <= MaxBytes
  BY DEF BytesInv, Counted, IInv, Places, BytesExact
<1>2. /\ Bytes(queue \ U) = Bytes(queue) - Bytes(U) /\ Bytes(queue \ U) <= Bytes(queue)
      /\ Bytes(queue) \in Nat
  BY <1>1, BytesFacts
<1>3. Bytes(queue \ U) \in Nat
  <2>1. IsFiniteSet(queue \ U)
    BY <1>1, FS_Subset
  <2> QED BY <1>1, <2>1, BytesFacts
<1>4. queue' = queue \ U /\ queueBytes' = queueBytes - Bytes(U)
  BY DEF Drain
<1> HIDE DEF Bytes
<1>5. queueBytes' = Bytes(queue') /\ queueBytes' <= MaxBytes
  BY <1>1, <1>2, <1>3, <1>4, LimitAssumption
<1> QED BY <1>5 DEF BytesExact

LEMMA EditKeepsBytes ==
  ASSUME BytesInv, LocalUpdate PROVE BytesExact'
<1>1. PICK u : /\ u.id = made + 1 /\ u.path \in File /\ u.size \in Size
               /\ u = [id |-> made + 1, path |-> u.path, size |-> u.size]
               /\ Propagate(u) \/ Enqueue(u) \/ Overflow(u)
  BY DEF LocalUpdate
<1>2. queue \in SUBSET Update /\ IsFiniteSet(queue) /\ queueBytes = Bytes(queue)
      /\ queueBytes <= MaxBytes
  BY DEF BytesInv, Counted, IInv, Places, BytesExact
<1>3. CASE Propagate(u)
  BY <1>2, <1>3 DEF Propagate, BytesExact
<1>4. CASE Enqueue(u)
  <2>1. u \in Update
    <3>1. made < MadeBound /\ made \in Nat
      BY <1>4 DEF Enqueue, Makes, BytesInv, Counted, IInv, Places, Numbered
    <3>2. u.id \in 1 .. MadeBound
      BY <1>1, <3>1, LimitAssumption
    <3> QED BY <1>1, <3>2 DEF Update
  <2>2. u \notin queue
    BY <1>1 DEF BytesInv, Counted, IInv, Numbered, Everywhere
  <2>3. /\ Bytes(queue \cup {u}) = Bytes(queue) + u.size
        /\ Bytes(queue) \in Nat /\ u.size \in Nat
    BY <1>1, <1>2, <2>1, <2>2, BytesFacts, SizeAssumption
  <2>4. queue' = queue \cup {u} /\ queueBytes' = queueBytes + u.size
        /\ ~(queueBytes + u.size > MaxBytes)
    BY <1>4 DEF Enqueue, Overflows
  <2>5. queueBytes' = Bytes(queue') /\ queueBytes' <= MaxBytes
    BY <1>2, <2>3, <2>4, LimitAssumption
  <2> QED BY <2>5 DEF BytesExact
<1>5. CASE Overflow(u)
  BY <1>5, FS_EmptySet, BytesFacts, LimitAssumption DEF Overflow, BytesExact
<1> QED BY <1>1, <1>3, <1>4, <1>5

(* The byte count is the size of what is queued, whatever mixture of       *)
(* drains, overflows and lock events went before, and within its limit.    *)
THEOREM ByteCount == Spec => []BytesExact
<1>1. Init => BytesInv
  BY InitHolds, FS_EmptySet, LimitAssumption, BytesFacts
     DEF Init, BytesInv, Counted, CountBounded, BytesExact
<1>2. BytesInv /\ [Next]_vars => BytesInv'
  <2> SUFFICES ASSUME BytesInv, [Next]_vars PROVE BytesInv'
    OBVIOUS
  <2>1. Counted'
    BY CountKept DEF BytesInv
  <2>2. CASE LocalUpdate
    BY <2>1, <2>2, EditKeepsBytes DEF BytesInv
  <2>3. CASE DrainTick
    <3>1. {u \in queue : ~Gated(u.path)} \in SUBSET queue
      OBVIOUS
    <3> QED BY <2>1, <2>3, <3>1, DrainKeepsBytes DEF DrainTick, BytesInv
  <2>4. ASSUME NEW f \in File, LockEnds(f) PROVE BytesInv'
    <3>1. QueueOf(f) \in SUBSET queue
      BY DEF QueueOf
    <3> QED BY <2>1, <2>4, <3>1, DrainKeepsBytes DEF LockEnds, BytesInv
  <2>5. UNCHANGED gateVars => BytesInv'
    BY <2>1 DEF gateVars, BytesInv, BytesExact
  <2> QED BY <2>2, <2>3, <2>4, <2>5, OtherSteps
<1>3. BytesInv => BytesExact
  BY DEF BytesInv
<1> QED BY <1>1, <1>2, <1>3, PTL DEF Spec

=============================================================================

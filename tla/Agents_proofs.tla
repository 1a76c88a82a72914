---------------------------- MODULE Agents_proofs ----------------------------
(***************************************************************************)
(* Proofs about what surrounds the agents' daemons: the locks they         *)
(* announce to each other and the transport between them, for any daemons, *)
(* clients, paths and peers, and any bounds.                               *)
(***************************************************************************)
EXTENDS LockClients, PeerTransport, FoldFacts

----------------------------------------------------------------------------
(* Announced locks *)

LockFrame(d) == {ls \in SUBSET [daemon : {d}, path : Path, lock : Nat \ {0}] : IsFiniteSet(ls)}

LEMMA ImageIsFinite ==
  ASSUME NEW S, IsFiniteSet(S), NEW f
  PROVE  IsFiniteSet({f[x] : x \in S})
<1> DEFINE T == {f[x] : x \in S}
           g == [x \in S |-> f[x]]
<1>1. g \in Surjection(S, T)
  BY DEF Surjection
<1> QED BY <1>1, FS_Surjection

\* A number that is not in use, and there is one.
LEMMA UnusedIsFree ==
  ASSUME NEW used, IsFiniteSet(used)
  PROVE  Unused(used) \in Nat \ {0} /\ Unused(used) \notin used
<1> DEFINE n == Cardinality(used)
<1>1. n \in Nat
  BY FS_CardinalityType
<1>2. \E m \in 1..(n + 1) : m \notin used
  <2> SUFFICES ASSUME 1..(n + 1) \in SUBSET used PROVE FALSE
    OBVIOUS
  <2>1. Cardinality(1..(n + 1)) = n + 1
    BY <1>1, FS_Interval
  <2>2. Cardinality(1..(n + 1)) <= n
    BY FS_Subset
  <2> QED BY <1>1, <2>1, <2>2
<1> HIDE DEF n
<1>3. (CHOOSE m \in 1..(n + 1) : m \notin used) \in 1..(n + 1)
      /\ (CHOOSE m \in 1..(n + 1) : m \notin used) \notin used
  BY <1>2
<1>4. Unused(used) \in 1..(n + 1) /\ Unused(used) \notin used
  BY <1>3 DEF Unused, n
<1> QED BY <1>1, <1>4

AnnouncedOK ==
  /\ table \in [Host -> [Path -> Nat]]
  /\ \A d \in Host : wire[d] \in Seq(LockFrame(d)) /\ heard[d] \in LockFrame(d)
  /\ DOMAIN wire = Host /\ DOMAIN heard = Host

\* The last frame on its way tells the locks as they are.
LastFrameTells ==
  \A d \in Host : wire[d] # <<>> => wire[d][Len(wire[d])] = LocksOf(table, d)

AnnounceInv == AnnouncedOK /\ LastFrameTells /\ LocksKnown

LEMMA AppendIs ==
  ASSUME NEW S, NEW s \in Seq(S), NEW x \in S
  PROVE  /\ Append(s, x) \in Seq(S)
         /\ Len(Append(s, x)) = Len(s) + 1
         /\ Append(s, x) # <<>>
         /\ Append(s, x)[Len(s) + 1] = x
         /\ \A i \in 1..Len(s) : Append(s, x)[i] = s[i]
OBVIOUS

LEMMA TailIs ==
  ASSUME NEW S, NEW s \in Seq(S), s # <<>>
  PROVE  /\ Head(s) \in S /\ Head(s) = s[1] /\ Len(s) \in Nat \ {0}
         /\ Tail(s) \in Seq(S)
         /\ Len(Tail(s)) = Len(s) - 1
         /\ \A i \in 1..(Len(s) - 1) : Tail(s)[i] = s[i + 1]
OBVIOUS

LEMMA LocksOfIs ==
  ASSUME NEW t \in [Host -> [Path -> Nat]], NEW d \in Host
  PROVE  LocksOf(t, d) \in LockFrame(d)
<1> DEFINE held == {p \in Path : t[d][p] # 0}
           f == [p \in Path |-> Lock(d, p, t[d][p])]
<1>1. IsFiniteSet(held)
  BY ClientsAssumption, FS_Subset
<1>2. LocksOf(t, d) = {f[p] : p \in held}
  BY DEF LocksOf
<1>3. IsFiniteSet(LocksOf(t, d))
  <2> HIDE DEF f, held
  <2> QED BY <1>1, <1>2, ImageIsFinite
<1>4. LocksOf(t, d) \in SUBSET [daemon : {d}, path : Path, lock : Nat \ {0}]
  BY DEF LocksOf, Lock
<1> QED BY <1>3, <1>4 DEF LockFrame

LEMMA AnnounceInit == ClientsInit => AnnounceInv
<1> SUFFICES ASSUME ClientsInit PROVE AnnounceInv
  OBVIOUS
<1>1. AnnouncedOK
  BY FS_EmptySet DEF ClientsInit, AnnouncedOK, LockFrame
<1>2. LastFrameTells
  BY DEF ClientsInit, LastFrameTells
<1>3. \A d \in Host : LocksOf(table, d) = {}
  BY DEF ClientsInit, LocksOf
<1>4. LocksKnown
  BY <1>3 DEF ClientsInit, LocksKnown
<1> QED BY <1>1, <1>2, <1>4 DEF AnnounceInv

\* A step that leaves the tables and the frames alone, and takes no new lease.
LEMMA QuietStep ==
  ASSUME AnnounceInv, UNCHANGED <<table, wire, heard, missed>>, leases' \subseteq leases
  PROVE  AnnounceInv'
<1>1. \A d \in Host : LocksOf(table, d)' = LocksOf(table, d)
  BY DEF LocksOf
<1>2. AnnouncedOK'
  BY DEF AnnounceInv, AnnouncedOK
<1>3. LastFrameTells'
  BY <1>1 DEF AnnounceInv, LastFrameTells
<1>4. LocksKnown'
  BY <1>1 DEF AnnounceInv, LocksKnown
<1> QED BY <1>2, <1>3, <1>4 DEF AnnounceInv

\* A daemon changes its own table, announces it, and may take a lease.
LEMMA AnnounceStep ==
  ASSUME AnnounceInv, NEW d \in Host, NEW p \in Path, NEW n \in Nat,
         table' = [table EXCEPT ![d][p] = n], Announce(d),
         UNCHANGED <<heard, missed>>, leases' \subseteq leases \cup {Lock(d, p, n)}
  PROVE  AnnounceInv'
<1> USE DEF AnnounceInv
<1>1. table' \in [Host -> [Path -> Nat]] /\ \A e \in Host \ {d} : table'[e] = table[e]
  BY DEF AnnouncedOK
<1>2. \A e \in Host \ {d} : LocksOf(table', e) = LocksOf(table, e)
  BY <1>1 DEF LocksOf
<1>3. LocksOf(table', d) \in LockFrame(d)
  BY <1>1, LocksOfIs
<1>4. /\ wire' = [wire EXCEPT ![d] = Append(@, LocksOf(table', d))]
      /\ \A e \in Host \ {d} : wire'[e] = wire[e]
      /\ wire'[d] = Append(wire[d], LocksOf(table', d))
  BY DEF Announce, AnnouncedOK
<1>5. /\ wire'[d] \in Seq(LockFrame(d)) /\ wire'[d] # <<>>
      /\ wire'[d][Len(wire'[d])] = LocksOf(table', d)
  BY <1>3, <1>4, AppendIs DEF AnnouncedOK
<1>6. AnnouncedOK'
  BY <1>1, <1>4, <1>5 DEF AnnouncedOK
<1>7. LastFrameTells'
  BY <1>2, <1>4, <1>5 DEF LastFrameTells
<1>8. ASSUME NEW e \in Host, wire'[e] = <<>>, e \notin missed
      PROVE  heard[e] \cap leases' = LocksOf(table', e) \cap leases'
  <2>1. e # d /\ wire[e] = <<>>
    BY <1>4, <1>5, <1>8
  <2>2. heard[e] \cap leases = LocksOf(table, e) \cap leases
    BY <1>8, <2>1 DEF LocksKnown
  <2>3. Lock(d, p, n) \notin heard[e] /\ Lock(d, p, n) \notin LocksOf(table, e)
    BY <2>1 DEF AnnouncedOK, LockFrame, Lock, LocksOf
  <2> QED BY <1>2, <2>1, <2>2, <2>3
<1>9. LocksKnown'
  BY <1>8 DEF LocksKnown
<1> QED BY <1>6, <1>7, <1>9

LEMMA HearStep ==
  ASSUME AnnounceInv, NEW d \in Host, Hear(d)
  PROVE  AnnounceInv'
<1> USE DEF AnnounceInv
<1>1. /\ wire[d] # <<>> /\ wire' = [wire EXCEPT ![d] = Tail(@)]
      /\ \/ heard' = [heard EXCEPT ![d] = Head(wire[d])] /\ missed' = missed \ {d}
         \/ UNCHANGED heard /\ missed' = missed \cup {d}
      /\ UNCHANGED table /\ leases' \subseteq leases
  BY DEF Hear
<1>2. /\ wire[d] \in Seq(LockFrame(d)) /\ wire'[d] = Tail(wire[d])
      /\ \A e \in Host \ {d} : wire'[e] = wire[e] /\ heard'[e] = heard[e]
  BY <1>1 DEF AnnouncedOK
<1>3. /\ Head(wire[d]) \in LockFrame(d) /\ Head(wire[d]) = wire[d][1]
      /\ wire'[d] \in Seq(LockFrame(d)) /\ Len(wire[d]) \in Nat \ {0}
      /\ Len(wire'[d]) = Len(wire[d]) - 1
      /\ \A i \in 1..(Len(wire[d]) - 1) : wire'[d][i] = wire[d][i + 1]
  <2> DEFINE S == LockFrame(d)
  <2> HIDE DEF S
  <2>1. wire[d] \in Seq(S) /\ wire[d] # <<>>
    BY <1>1, <1>2 DEF S
  <2>2. /\ Head(wire[d]) \in S /\ Head(wire[d]) = wire[d][1] /\ Len(wire[d]) \in Nat \ {0}
        /\ Tail(wire[d]) \in Seq(S) /\ Len(Tail(wire[d])) = Len(wire[d]) - 1
        /\ \A i \in 1..(Len(wire[d]) - 1) : Tail(wire[d])[i] = wire[d][i + 1]
    BY <2>1, TailIs
  <2> QED BY <1>2, <2>2 DEF S
<1>4. AnnouncedOK'
  BY <1>1, <1>2, <1>3 DEF AnnouncedOK
<1>5. \A e \in Host : LocksOf(table, e)' = LocksOf(table, e)
  BY <1>1 DEF LocksOf
<1>6. wire'[d] # <<>> => wire'[d][Len(wire'[d])] = wire[d][Len(wire[d])]
  <2> SUFFICES ASSUME wire'[d] # <<>> PROVE wire'[d][Len(wire'[d])] = wire[d][Len(wire[d])]
    OBVIOUS
  <2>1. Len(wire'[d]) \in 1..(Len(wire[d]) - 1)
    BY <1>3
  <2> QED BY <1>3, <2>1
<1>7. LastFrameTells'
  BY <1>1, <1>2, <1>5, <1>6 DEF LastFrameTells
<1>8. ASSUME wire'[d] = <<>>, d \notin missed' PROVE heard'[d] = LocksOf(table, d)
  <2>1. Len(wire[d]) = 1
    BY <1>3, <1>8
  <2>2. heard'[d] = Head(wire[d])
    BY <1>1, <1>8 DEF AnnouncedOK
  <2> QED BY <1>1, <1>3, <2>1, <2>2 DEF LastFrameTells
<1>9. ASSUME NEW e \in Host, e # d, wire'[e] = <<>>, e \notin missed'
      PROVE  heard'[e] \cap leases' = LocksOf(table, e) \cap leases'
  <2>1. heard[e] \cap leases = LocksOf(table, e) \cap leases
    BY <1>1, <1>2, <1>9 DEF LocksKnown
  <2> QED BY <1>1, <1>2, <1>9, <2>1
<1>10. LocksKnown'
  BY <1>5, <1>8, <1>9 DEF LocksKnown
<1> QED BY <1>4, <1>7, <1>10

----------------------------------------------------------------------------
(* The sequences that commands are made of *)

\* FlattenSeq is a function over the prefixes of what it flattens.
Flattens(f, seqs, n) ==
  f = [i \in 1..n |-> IF i = 1 THEN seqs[i] ELSE f[i - 1] \o seqs[i]]

LEMMA FlattenExists ==
  ASSUME NEW seqs, NEW n \in Nat \ {0}
  PROVE  \E f : Flattens(f, seqs, n)
<1> DEFINE Bad == {m \in Nat \ {0} : ~\E f : Flattens(f, seqs, m)}
<1> SUFFICES ASSUME Bad # {} PROVE FALSE
  OBVIOUS
<1>1. PICK m \in Bad : \A k \in Bad : m <= k
  <2> HIDE DEF Bad
  <2>1. Bad \subseteq Nat
    BY DEF Bad
  <2> QED BY <2>1, Least
<1>2. CASE m = 1
  <2>1. Flattens([i \in 1..1 |-> seqs[i]], seqs, 1)
    BY DEF Flattens
  <2> QED BY <1>1, <1>2, <2>1
<1>3. CASE m > 1
  <2>1. m - 1 \in Nat \ {0} /\ m - 1 \notin Bad
    BY <1>1, <1>3
  <2>2. PICK f : Flattens(f, seqs, m - 1)
    BY <2>1
  <2> DEFINE g == [i \in 1..m |-> IF i = m THEN f[m - 1] \o seqs[m] ELSE f[i]]
  <2>3. \A i \in 1..m : g[i] = IF i = 1 THEN seqs[i] ELSE g[i - 1] \o seqs[i]
    <3> SUFFICES ASSUME NEW i \in 1..m PROVE g[i] = IF i = 1 THEN seqs[i] ELSE g[i - 1] \o seqs[i]
      OBVIOUS
    <3>1. CASE i = m
      <4>1. m - 1 \in 1..m /\ m - 1 # m /\ m \in 1..m /\ i # 1
        BY <1>3, <3>1
      <4>2. g[m] = f[m - 1] \o seqs[m] /\ g[m - 1] = f[m - 1]
        <5> HIDE DEF Bad
        <5> QED BY <4>1
      <4> HIDE DEF g
      <4> QED BY <3>1, <4>1, <4>2
    <3>2. CASE i # m
      <4>1. i \in 1..(m - 1) /\ (i # 1 => i - 1 \in 1..(m - 1) /\ i - 1 # m)
        BY <3>2
      <4>2. f[i] = IF i = 1 THEN seqs[i] ELSE f[i - 1] \o seqs[i]
        BY <2>2, <4>1 DEF Flattens
      <4> QED BY <3>2, <4>1, <4>2
    <3> QED BY <3>1, <3>2
  <2>4. Flattens(g, seqs, m)
    <3>1. g = [i \in 1..m |-> g[i]]
      OBVIOUS
    <3> HIDE DEF g
    <3> QED BY <2>3, <3>1 DEF Flattens
  <2> QED BY <1>1, <2>4
<1> QED BY <1>1, <1>2, <1>3

LEMMA ConcatIs ==
  ASSUME NEW S, NEW s \in Seq(S), NEW t \in Seq(S)
  PROVE  /\ s \o t \in Seq(S)
         /\ \A j \in DOMAIN s : j \in DOMAIN (s \o t) /\ (s \o t)[j] = s[j]
         /\ \A k \in DOMAIN t : Len(s) + k \in DOMAIN (s \o t) /\ (s \o t)[Len(s) + k] = t[k]
OBVIOUS

\* The sequences one after the other: of the same elements, and with all of them.
LEMMA FlattenSeqIs ==
  ASSUME NEW S, NEW seqs \in Seq(Seq(S))
  PROVE  /\ FlattenSeq(seqs) \in Seq(S)
         /\ \A i \in DOMAIN seqs : \A k \in DOMAIN seqs[i] :
              \E j \in DOMAIN FlattenSeq(seqs) : FlattenSeq(seqs)[j] = seqs[i][k]
<1>1. CASE Len(seqs) = 0
  BY <1>1 DEF FlattenSeq
<1>2. CASE Len(seqs) # 0
  <2> DEFINE n == Len(seqs)
             f == CHOOSE g : Flattens(g, seqs, n)
  <2>1. n \in Nat \ {0}
    BY <1>2
  <2>2. Flattens(f, seqs, n)
    BY <2>1, FlattenExists
  <2>3. FlattenSeq(seqs) = f[n]
    BY <1>2 DEF FlattenSeq, Flattens
  <2> HIDE DEF f
  <2> DEFINE Holding(m) ==
               /\ f[m] \in Seq(S)
               /\ \A i \in 1..m : \A k \in DOMAIN seqs[i] :
                    \E j \in DOMAIN f[m] : f[m][j] = seqs[i][k]
             Bad == {m \in 1..n : ~Holding(m)}
  <2>4. \A m \in 1..n : Holding(m)
    <3> SUFFICES ASSUME Bad # {} PROVE FALSE
      OBVIOUS
    <3>1. PICK m \in Bad : \A k \in Bad : m <= k
      <4> HIDE DEF Bad
      <4>1. Bad \subseteq Nat
        BY DEF Bad
      <4> QED BY <4>1, Least
    <3>2. f[m] = IF m = 1 THEN seqs[m] ELSE f[m - 1] \o seqs[m]
      BY <2>2 DEF Flattens
    <3>3. seqs[m] \in Seq(S) /\ m \in 1..n /\ m \in Nat
      BY <2>1
    <3>4. CASE m = 1
      BY <3>1, <3>2, <3>3, <3>4
    <3>5. CASE m # 1
      <4>1. m - 1 \in 1..n /\ Holding(m - 1)
        <5>1. m - 1 \in 1..n
          BY <2>1, <3>5
        <5>2. m - 1 \notin Bad
          <6> HIDE DEF Bad
          <6> QED BY <3>1, <3>3
        <5> QED BY <5>1, <5>2
      <4>2. f[m] = f[m - 1] \o seqs[m]
        BY <3>2, <3>5
      <4>3. /\ f[m] \in Seq(S)
            /\ \A j \in DOMAIN f[m - 1] : j \in DOMAIN f[m] /\ f[m][j] = f[m - 1][j]
            /\ \A k \in DOMAIN seqs[m] : /\ Len(f[m - 1]) + k \in DOMAIN f[m]
                                         /\ f[m][Len(f[m - 1]) + k] = seqs[m][k]
        <5>1. PICK u \in Seq(S) : u = f[m - 1]
          BY <4>1
        <5>2. PICK v \in Seq(S) : v = seqs[m]
          BY <3>3
        <5>3. f[m] = u \o v
          BY <4>2, <5>1, <5>2
        <5>4. /\ u \o v \in Seq(S)
              /\ \A j \in DOMAIN u : j \in DOMAIN (u \o v) /\ (u \o v)[j] = u[j]
              /\ \A k \in DOMAIN v : Len(u) + k \in DOMAIN (u \o v) /\ (u \o v)[Len(u) + k] = v[k]
          <6>1. u \in Seq(S) /\ v \in Seq(S)
            BY <5>1, <5>2
          <6> HIDE DEF Holding, Bad, n
          <6> QED BY <6>1, ConcatIs
        <5> QED BY <5>1, <5>2, <5>3, <5>4
      <4>4. ASSUME NEW i \in 1..m, NEW k \in DOMAIN seqs[i]
            PROVE  \E j \in DOMAIN f[m] : f[m][j] = seqs[i][k]
        <5>1. CASE i = m
          BY <4>3, <5>1
        <5>2. CASE i # m
          <6>1. i \in 1..(m - 1)
            BY <5>2
          <6>2. PICK j \in DOMAIN f[m - 1] : f[m - 1][j] = seqs[i][k]
            BY <4>1, <6>1
          <6> QED BY <4>3, <6>2
        <5> QED BY <5>1, <5>2
      <4> QED BY <3>1, <4>3, <4>4
    <3> QED BY <3>4, <3>5
  <2>5. Holding(n)
    <3>1. n \in 1..n
      BY <2>1
    <3> HIDE DEF Holding, n
    <3> QED BY <2>4, <3>1
  <2>6. DOMAIN seqs = 1..n
    OBVIOUS
  <2> HIDE DEF n, Bad
  <2> QED BY <2>3, <2>5, <2>6
<1> QED BY <1>1, <1>2

Adds(ps, p) == IF p = NoPath \/ Contains(ps, p) THEN ps ELSE Append(ps, p)
Collects(it, q) ==
  it = [s \in SUBSET DOMAIN q |->
          IF s = {} THEN <<>> ELSE Adds(it[s \ {Highest(s)}], q[Highest(s)])]

LEMMA AddsIs ==
  ASSUME NEW ps \in Seq(Path), NEW p \in Path \cup {NoPath}
  PROVE  /\ Adds(ps, p) \in Seq(Path)
         /\ p # NoPath => Contains(Adds(ps, p), p)
         /\ \A x \in Path : Contains(ps, x) => Contains(Adds(ps, p), x)
BY DEF Adds, Contains

\* getPatchPaths collects every path it meets, and no other.
LEMMA CollectsAll ==
  ASSUME NEW q \in Seq(Path \cup {NoPath})
  PROVE  LET ps == FoldLeft(LAMBDA got_, p : IF p = NoPath \/ Contains(got_, p) THEN got_
                                             ELSE Append(got_, p), <<>>, q)
         IN  /\ ps \in Seq(Path)
             /\ \A i \in DOMAIN q : q[i] # NoPath => Contains(ps, q[i])
<1> DEFINE pick == [s \in SUBSET DOMAIN q |-> Highest(s)]
           h == [s \in SUBSET DOMAIN q |-> [ps \in Seq(Path) |->
                   IF s = {} THEN ps ELSE Adds(ps, q[Highest(s)])]]
           ps == FoldLeft(LAMBDA got_, p : IF p = NoPath \/ Contains(got_, p) THEN got_
                                           ELSE Append(got_, p), <<>>, q)
           paths == CHOOSE it : Collects(it, q)
<1>1. ps = paths[DOMAIN q]
  BY DEF FoldLeft, MapThenFoldSet, Max, Collects, Highest, Adds
<1>2. IsFiniteSet(DOMAIN q) /\ DOMAIN q = 1..Len(q) /\ Len(q) \in Nat
  BY FS_Interval
<1>3. ASSUME NEW s \in SUBSET DOMAIN q, s # {}
      PROVE  Highest(s) \in s /\ q[Highest(s)] \in Path \cup {NoPath}
  <2>1. s \in SUBSET (1..Len(q))
    BY <1>2
  <2>2. Highest(s) \in s
    BY <1>2, <1>3, <2>1, HighestIs
  <2> QED BY <2>2
<1>4. Picks(pick, DOMAIN q)
  BY <1>3 DEF Picks
<1>5. PICK it : FoldsBy(it, <<>>, h, pick, DOMAIN q)
  <2> HIDE DEF pick, h
  <2> QED BY <1>2, <1>4, FoldExists
<1>6. \A s \in SUBSET DOMAIN q : it[s] \in Seq(Path)
  <2>1. <<>> \in Seq(Path) /\ \A a \in Seq(Path) : \A s \in SUBSET DOMAIN q : h[s][a] \in Seq(Path)
    <3>1. ASSUME NEW a \in Seq(Path), NEW s \in SUBSET DOMAIN q PROVE h[s][a] \in Seq(Path)
      <4>1. s # {} => Adds(a, q[Highest(s)]) \in Seq(Path)
        BY <1>3, AddsIs
      <4>2. h[s] = [a_ \in Seq(Path) |-> IF s = {} THEN a_ ELSE Adds(a_, q[Highest(s)])]
        OBVIOUS
      <4> HIDE DEF h
      <4> QED BY <4>1, <4>2
    <3> HIDE DEF h
    <3> QED BY <3>1
  <2> HIDE DEF pick, h
  <2> QED BY <1>2, <1>4, <1>5, <2>1, FoldType
<1>7. Collects(it, q)
  BY <1>3, <1>5, <1>6 DEF FoldsBy, Collects
<1> HIDE DEF pick, h, ps
<1>8. Collects(paths, q)
  <2>1. \E f : Collects(f, q)
    BY <1>7
  <2> QED BY <2>1
<1> HIDE DEF paths
<1> DEFINE Collected(m) == /\ paths[1..m] \in Seq(Path)
                           /\ \A i \in 1..m : q[i] # NoPath => Contains(paths[1..m], q[i])
           Bad == {m \in 0..Len(q) : ~Collected(m)}
<1>9. \A m \in 0..Len(q) : Collected(m)
  <2> SUFFICES ASSUME Bad # {} PROVE FALSE
    OBVIOUS
  <2>1. PICK m \in Bad : \A k \in Bad : m <= k
    <3> HIDE DEF Bad
    <3>1. Bad \subseteq Nat
      BY <1>2 DEF Bad
    <3> QED BY <3>1, Least
  <2>2. m \in 0..Len(q) /\ m \in Nat
    BY <1>2
  <2>3. CASE m = 0
    <3>1. paths[{}] = <<>>
      <4>1. {} \in SUBSET DOMAIN q
        OBVIOUS
      <4> QED BY <1>8, <4>1 DEF Collects
    <3>2. 1..0 = {} /\ <<>> \in Seq(Path)
      OBVIOUS
    <3>3. Collected(0)
      BY <3>1, <3>2
    <3> QED BY <2>1, <2>3, <3>3
  <2>4. CASE m # 0
    <3>1. m - 1 \in 0..Len(q) /\ m - 1 \notin Bad /\ m \in DOMAIN q
      <4>1. m - 1 \in 0..Len(q) /\ m \in 1..Len(q) /\ ~(m <= m - 1)
        BY <1>2, <2>2, <2>4
      <4> HIDE DEF Bad
      <4> QED BY <1>2, <2>1, <4>1
    <3>2. Collected(m - 1)
      BY <3>1
    <3>3. 1..m \in SUBSET (1..Len(q)) /\ 1..m # {} /\ m \in 1..m
      <4>1. m \in Nat /\ Len(q) \in Nat /\ m <= Len(q) /\ 1 <= m
        BY <1>2, <2>2, <2>4
      <4> HIDE DEF Bad
      <4>2. \A x \in 1..m : x \in 1..Len(q)
        BY <4>1
      <4>3. m \in 1..m
        BY <4>1
      <4> QED BY <4>2, <4>3
    <3>4. Highest(1..m) = m
      <4>1. Highest(1..m) \in 1..m /\ m <= Highest(1..m)
        BY <1>2, <3>3, HighestIs
      <4> QED BY <2>2, <4>1
    <3>5. paths[1..m] = Adds(paths[1..(m - 1)], q[m])
      <4>1. (1..m) \ {m} = 1..(m - 1)
        BY <2>2
      <4> QED BY <1>2, <1>8, <3>3, <3>4, <4>1 DEF Collects
    <3>6. q[m] \in Path \cup {NoPath} /\ \A i \in 1..m : q[i] \in Path \cup {NoPath}
      BY <3>1, <3>3, <1>2
    <3>7. /\ paths[1..m] \in Seq(Path)
          /\ q[m] # NoPath => Contains(paths[1..m], q[m])
          /\ \A x \in Path : Contains(paths[1..(m - 1)], x) => Contains(paths[1..m], x)
      BY <3>2, <3>5, <3>6, AddsIs
    <3>8. ASSUME NEW i \in 1..m, q[i] # NoPath PROVE Contains(paths[1..m], q[i])
      <4>1. CASE i = m
        BY <3>7, <3>8, <4>1
      <4>2. CASE i # m
        <5>1. i \in 1..(m - 1) /\ q[i] \in Path
          BY <3>6, <3>8, <4>2, <2>2
        <5> QED BY <3>2, <3>7, <3>8, <5>1
      <4> QED BY <4>1, <4>2
    <3> QED BY <2>1, <3>7, <3>8
  <2> QED BY <2>3, <2>4
<1>10. Collected(Len(q))
  <2>1. Len(q) \in 0..Len(q)
    BY <1>2
  <2> HIDE DEF Collected
  <2> QED BY <1>9, <2>1
<1> QED BY <1>1, <1>2, <1>10 DEF ps

\* The steps of a command that change files, and what a command must be like:
\* every change comes after the lock of its path, and nothing but giving locks
\* back comes after giving one back.
StepType == [do : {"lock", "unlock", "read", "write", "remove"}, path : Path, wait : BOOLEAN]
Changes(step) == step.do \in {"write", "remove"}
Covered(steps, known) ==
  /\ \A i \in DOMAIN steps : Changes(steps[i]) =>
       \/ steps[i].path \in known
       \/ \E j \in 1..(i - 1) : steps[j].do = "lock" /\ steps[j].path = steps[i].path
  /\ \A i, j \in DOMAIN steps : i < j /\ steps[i].do = "unlock" => steps[j].do = "unlock"

LEMMA CoveredTail ==
  ASSUME NEW steps \in Seq(StepType), steps # <<>>, NEW known, Covered(steps, known),
         NEW more, Head(steps).do = "lock" => Head(steps).path \in more, known \subseteq more
  PROVE  /\ Tail(steps) \in Seq(StepType) /\ Head(steps) \in StepType
         /\ Covered(Tail(steps), more) /\ Covered(steps, more)
         /\ Changes(Head(steps)) => Head(steps).path \in known
         /\ Head(steps).do = "unlock" => \A any : Covered(Tail(steps), any)
<1>1. /\ Head(steps) \in StepType /\ Head(steps) = steps[1] /\ Len(steps) \in Nat \ {0}
      /\ Tail(steps) \in Seq(StepType)
      /\ Len(Tail(steps)) = Len(steps) - 1
      /\ \A i \in 1..(Len(steps) - 1) : Tail(steps)[i] = steps[i + 1]
  BY TailIs
<1>2. DOMAIN steps = 1..Len(steps) /\ DOMAIN Tail(steps) = 1..(Len(steps) - 1)
  BY <1>1
<1>3. \A i, j \in DOMAIN Tail(steps) :
         i < j /\ Tail(steps)[i].do = "unlock" => Tail(steps)[j].do = "unlock"
  <2> SUFFICES ASSUME NEW i \in DOMAIN Tail(steps), NEW j \in DOMAIN Tail(steps), i < j,
                      Tail(steps)[i].do = "unlock"
               PROVE  Tail(steps)[j].do = "unlock"
    OBVIOUS
  <2>1. i + 1 \in DOMAIN steps /\ j + 1 \in DOMAIN steps /\ i + 1 < j + 1
    BY <1>1, <1>2
  <2> QED BY <1>1, <1>2, <2>1 DEF Covered
<1>4. ASSUME NEW i \in DOMAIN Tail(steps), Changes(Tail(steps)[i])
      PROVE  \/ Tail(steps)[i].path \in more
             \/ \E j \in 1..(i - 1) : /\ Tail(steps)[j].do = "lock"
                                      /\ Tail(steps)[j].path = Tail(steps)[i].path
  <2>1. i + 1 \in DOMAIN steps /\ Tail(steps)[i] = steps[i + 1]
    BY <1>1, <1>2
  <2>2. CASE steps[i + 1].path \in known
    BY <2>1, <2>2
  <2>3. ASSUME NEW j \in 1..i, steps[j].do = "lock", steps[j].path = steps[i + 1].path
        PROVE  \/ Tail(steps)[i].path \in more
               \/ \E k \in 1..(i - 1) : /\ Tail(steps)[k].do = "lock"
                                        /\ Tail(steps)[k].path = Tail(steps)[i].path
    <3>1. CASE j = 1
      BY <1>1, <2>1, <2>3, <3>1
    <3>2. CASE j # 1
      <4>1. j - 1 \in 1..(i - 1) /\ j - 1 \in 1..(Len(steps) - 1) /\ (j - 1) + 1 = j
        BY <1>1, <1>2, <3>2
      <4>2. Tail(steps)[j - 1] = steps[j]
        BY <1>1, <4>1
      <4> QED BY <2>1, <2>3, <4>1, <4>2
    <3> QED BY <3>1, <3>2
  <2>4. (i + 1) - 1 = i
    BY <1>1, <1>2
  <2> QED BY <1>4, <2>1, <2>2, <2>3, <2>4 DEF Covered
<1>5. Covered(Tail(steps), more)
  BY <1>3, <1>4 DEF Covered
<1>6. Covered(steps, more)
  BY DEF Covered
<1>7. Changes(Head(steps)) => Head(steps).path \in known
  BY <1>1, <1>2 DEF Covered
<1>8. ASSUME Head(steps).do = "unlock", NEW any PROVE Covered(Tail(steps), any)
  <2>1. \A i \in DOMAIN Tail(steps) : Tail(steps)[i].do = "unlock"
    <3> SUFFICES ASSUME NEW i \in DOMAIN Tail(steps) PROVE Tail(steps)[i].do = "unlock"
      OBVIOUS
    <3>1. i + 1 \in DOMAIN steps /\ 1 \in DOMAIN steps /\ 1 < i + 1
      BY <1>1, <1>2
    <3> QED BY <1>1, <1>2, <1>8, <3>1 DEF Covered
  <2> QED BY <2>1 DEF Covered, Changes
<1> QED BY <1>1, <1>5, <1>6, <1>7, <1>8

Plan(steps) == steps \in Seq(StepType) /\ \A known : Covered(steps, known)
LocksFor(paths) == [i \in DOMAIN paths |-> Step("lock", paths[i], TRUE)]
EditsUnder(edits, paths) ==
  /\ edits \in Seq(StepType)
  /\ \A i \in DOMAIN edits : edits[i].do # "unlock"
  /\ \A i \in DOMAIN edits : Changes(edits[i]) => Contains(paths, edits[i].path)

LEMMA ConcatLen ==
  ASSUME NEW S, NEW s \in Seq(S), NEW t \in Seq(S)
  PROVE  Len(s \o t) = Len(s) + Len(t) /\ DOMAIN (s \o t) = 1..(Len(s) + Len(t))
OBVIOUS

LEMMA MapIs ==
  ASSUME NEW S, NEW T, NEW s \in Seq(T), NEW f, f = [i \in DOMAIN s |-> f[i]],
         \A i \in DOMAIN s : f[i] \in S
  PROVE  f \in Seq(S) /\ Len(f) = Len(s) /\ DOMAIN f = 1..Len(s) /\ DOMAIN s = 1..Len(s)
<1>1. DOMAIN s = 1..Len(s) /\ Len(s) \in Nat
  OBVIOUS
<1>2. f \in [1..Len(s) -> S]
  BY <1>1
<1> QED BY <1>1, <1>2

LEMMA SequenceOver ==
  ASSUME NEW S, NEW T, NEW s \in Seq(S), \A i \in DOMAIN s : s[i] \in T
  PROVE  s \in Seq(T)
OBVIOUS

LEMMA HookedIsPlan ==
  ASSUME NEW paths \in Seq(Path), NEW edits, EditsUnder(edits, paths)
  PROVE  /\ Plan(LocksFor(paths) \o edits)
         /\ \A i \in DOMAIN (LocksFor(paths) \o edits) : (LocksFor(paths) \o edits)[i].do # "unlock"
<1> DEFINE locks == LocksFor(paths)
           steps == locks \o edits
<1>1. /\ locks \in Seq(StepType) /\ Len(locks) = Len(paths) /\ DOMAIN locks = 1..Len(paths)
      /\ \A i \in 1..Len(paths) : /\ locks[i].do = "lock" /\ locks[i].path = paths[i]
                                  /\ locks[i] \in StepType
  <2>1. \A i \in DOMAIN paths : locks[i] = Step("lock", paths[i], TRUE)
    BY DEF LocksFor
  <2>2. \A i \in DOMAIN paths : /\ Step("lock", paths[i], TRUE) \in StepType
                                /\ Step("lock", paths[i], TRUE).do = "lock"
                               /\ Step("lock", paths[i], TRUE).path = paths[i]
    BY DEF Step, StepType
  <2>3. locks = [i \in DOMAIN paths |-> locks[i]]
    BY DEF LocksFor
  <2> HIDE DEF locks
  <2>4. locks \in Seq(StepType) /\ Len(locks) = Len(paths) /\ DOMAIN locks = 1..Len(paths)
        /\ DOMAIN paths = 1..Len(paths)
    <3>1. \A i \in DOMAIN paths : locks[i] \in StepType
      BY <2>1, <2>2
    <3> QED BY <2>3, <3>1, MapIs
  <2> QED BY <2>1, <2>2, <2>4
<1>2. edits \in Seq(StepType) /\ Len(edits) \in Nat /\ Len(paths) \in Nat
  BY DEF EditsUnder
<1> HIDE DEF locks
<1>3. /\ steps \in Seq(StepType) /\ Len(steps) = Len(paths) + Len(edits)
      /\ DOMAIN steps = 1..(Len(paths) + Len(edits))
      /\ \A i \in 1..Len(paths) : steps[i] = locks[i]
      /\ \A i \in 1..Len(edits) : steps[Len(paths) + i] = edits[i]
  <2>1. steps \in Seq(StepType)
    BY <1>1, <1>2, ConcatIs
  <2>4. Len(steps) = Len(locks) + Len(edits) /\ DOMAIN steps = 1..(Len(locks) + Len(edits))
    BY <1>1, <1>2, ConcatLen
  <2>2. /\ \A j \in DOMAIN locks : steps[j] = locks[j]
        /\ \A k \in DOMAIN edits : steps[Len(locks) + k] = edits[k]
    BY <1>1, <1>2, ConcatIs
  <2>3. DOMAIN edits = 1..Len(edits)
    BY <1>2
  <2> QED BY <1>1, <2>1, <2>2, <2>3, <2>4
<1> HIDE DEF steps
<1>4. \A i \in DOMAIN steps : i \in 1..Len(paths)
                             \/ (i - Len(paths) \in 1..Len(edits) /\ steps[i] = edits[i - Len(paths)])
  <2> SUFFICES ASSUME NEW i \in DOMAIN steps, i \notin 1..Len(paths)
               PROVE  i - Len(paths) \in 1..Len(edits) /\ steps[i] = edits[i - Len(paths)]
    OBVIOUS
  <2>1. i - Len(paths) \in 1..Len(edits) /\ Len(paths) + (i - Len(paths)) = i
    BY <1>2, <1>3
  <2> QED BY <1>3, <2>1
<1>5. \A i \in DOMAIN steps : steps[i].do # "unlock"
  <2> SUFFICES ASSUME NEW i \in DOMAIN steps PROVE steps[i].do # "unlock"
    OBVIOUS
  <2>1. CASE i \in 1..Len(paths)
    BY <1>1, <1>3, <2>1
  <2>2. CASE i \notin 1..Len(paths)
    BY <1>2, <1>4, <2>2 DEF EditsUnder
  <2> QED BY <2>1, <2>2
<1>6. ASSUME NEW i \in DOMAIN steps, Changes(steps[i])
      PROVE  \E j \in 1..(i - 1) : steps[j].do = "lock" /\ steps[j].path = steps[i].path
  <2>1. i \notin 1..Len(paths)
    BY <1>1, <1>3, <1>6 DEF Changes
  <2>2. i - Len(paths) \in 1..Len(edits) /\ steps[i] = edits[i - Len(paths)]
    BY <1>4, <2>1
  <2>3. Contains(paths, steps[i].path)
    BY <1>2, <1>6, <2>2 DEF EditsUnder
  <2>4. PICK j \in 1..Len(paths) : paths[j] = steps[i].path
    BY <2>3 DEF Contains
  <2>5. j \in 1..(i - 1)
    BY <1>2, <1>3, <2>2
  <2> QED BY <1>1, <1>3, <2>4, <2>5
<1> QED BY <1>3, <1>5, <1>6 DEF Plan, Covered, steps, locks

LEMMA UnlocksEndPlan ==
  ASSUME NEW steps, Plan(steps), \A i \in DOMAIN steps : steps[i].do # "unlock",
         NEW unlocks \in Seq(StepType), \A i \in DOMAIN unlocks : unlocks[i].do = "unlock"
  PROVE  Plan(steps \o unlocks)
<1> DEFINE all == steps \o unlocks
<1>1. steps \in Seq(StepType) /\ Len(steps) \in Nat /\ Len(unlocks) \in Nat
      /\ DOMAIN steps = 1..Len(steps) /\ DOMAIN unlocks = 1..Len(unlocks)
  BY DEF Plan
<1>2. /\ all \in Seq(StepType) /\ DOMAIN all = 1..(Len(steps) + Len(unlocks))
      /\ \A i \in 1..Len(steps) : all[i] = steps[i]
      /\ \A i \in 1..Len(unlocks) : all[Len(steps) + i] = unlocks[i]
  BY <1>1
<1> HIDE DEF all
<1>3. \A i \in DOMAIN all : i \in 1..Len(steps) \/ all[i].do = "unlock"
  <2> SUFFICES ASSUME NEW i \in DOMAIN all, i \notin 1..Len(steps) PROVE all[i].do = "unlock"
    OBVIOUS
  <2>1. i - Len(steps) \in 1..Len(unlocks) /\ Len(steps) + (i - Len(steps)) = i
    BY <1>1, <1>2
  <2> QED BY <1>1, <1>2, <2>1
<1>4. \A i, j \in DOMAIN all : i < j /\ all[i].do = "unlock" => all[j].do = "unlock"
  <2> SUFFICES ASSUME NEW i \in DOMAIN all, NEW j \in DOMAIN all, i < j, all[i].do = "unlock"
               PROVE  all[j].do = "unlock"
    OBVIOUS
  <2>1. i \notin 1..Len(steps)
    BY <1>1, <1>2
  <2>2. j \notin 1..Len(steps)
    BY <1>1, <1>2, <2>1
  <2> QED BY <1>3, <2>2
<1>5. ASSUME NEW i \in DOMAIN all, Changes(all[i]), NEW known
      PROVE  \/ all[i].path \in known
             \/ \E j \in 1..(i - 1) : all[j].do = "lock" /\ all[j].path = all[i].path
  <2>1. i \in 1..Len(steps) /\ all[i] = steps[i]
    BY <1>2, <1>3, <1>5 DEF Changes
  <2>2. \/ steps[i].path \in known
        \/ \E j \in 1..(i - 1) : steps[j].do = "lock" /\ steps[j].path = steps[i].path
    BY <1>1, <1>5, <2>1 DEF Plan, Covered
  <2>3. \A j \in 1..(i - 1) : all[j] = steps[j]
    BY <1>1, <1>2, <2>1
  <2> QED BY <2>1, <2>2, <2>3
<1> QED BY <1>2, <1>4, <1>5 DEF Plan, Covered, all

LEMMA WritesUnder ==
  ASSUME NEW files \in Seq(Path)
  PROVE  EditsUnder(Writes(files), files)
<1> DEFINE edits == Writes(files)
<1>1. \A i \in DOMAIN files : edits[i] = Step("write", files[i], FALSE)
  BY DEF Writes
<1>2. \A i \in DOMAIN files : /\ Step("write", files[i], FALSE) \in StepType
                              /\ Step("write", files[i], FALSE).do = "write"
                             /\ Step("write", files[i], FALSE).path = files[i]
  BY DEF Step, StepType
<1>3. edits = [i \in DOMAIN files |-> edits[i]]
  BY DEF Writes
<1> HIDE DEF edits
<1>4. edits \in Seq(StepType) /\ DOMAIN edits = 1..Len(files) /\ DOMAIN files = 1..Len(files)
  <2>1. \A i \in DOMAIN files : edits[i] \in StepType
    BY <1>1, <1>2
  <2> QED BY <1>3, <2>1, MapIs
<1>5. EditsUnder(edits, files)
  BY <1>1, <1>2, <1>4 DEF EditsUnder, Contains
<1> QED BY <1>5 DEF edits

LEMMA ShortSeq ==
  ASSUME NEW S, NEW x \in S, NEW y \in S, NEW z \in S
  PROVE  <<x>> \in Seq(S) /\ <<x, y>> \in Seq(S) /\ <<x, y, z>> \in Seq(S)
OBVIOUS

\* Every change of a patch is to a path that getPatchPaths lists.
LEMMA PatchUnder ==
  ASSUME NEW patch \in Seq(ChangeType)
  PROVE  /\ PathsOf(patch) \in Seq(Path)
         /\ EditsUnder(FlattenSeq([i \in DOMAIN patch |-> Edits(patch[i])]), PathsOf(patch))
<1> DEFINE pairs == [i \in DOMAIN patch |-> <<patch[i].path, patch[i].moveTo>>]
           q == FlattenSeq(pairs)
           edits == [i \in DOMAIN patch |-> Edits(patch[i])]
           Named == {p \in Path : Contains(PathsOf(patch), p)}
           Allowed == [do : {"read", "write", "remove"}, path : Named, wait : {FALSE}]
<1>1. \A i \in DOMAIN patch : patch[i] \in ChangeType
  OBVIOUS
<1>2. pairs \in Seq(Seq(Path \cup {NoPath})) /\ DOMAIN pairs = DOMAIN patch
  <2>1. \A i \in DOMAIN patch : <<patch[i].path, patch[i].moveTo>> \in Seq(Path \cup {NoPath})
    BY <1>1 DEF ChangeType
  <2>2. \A i \in DOMAIN patch : pairs[i] = <<patch[i].path, patch[i].moveTo>>
    OBVIOUS
  <2>3. pairs = [i \in DOMAIN patch |-> pairs[i]]
    OBVIOUS
  <2> HIDE DEF pairs
  <2>4. \A i \in DOMAIN patch : pairs[i] \in Seq(Path \cup {NoPath})
    BY <2>1, <2>2
  <2> QED BY <2>3, <2>4, MapIs
<1>3. /\ q \in Seq(Path \cup {NoPath})
      /\ \A i \in DOMAIN patch : \A k \in DOMAIN pairs[i] : \E j \in DOMAIN q : q[j] = pairs[i][k]
  <2> HIDE DEF pairs
  <2> QED BY <1>2, FlattenSeqIs
<1>4. /\ PathsOf(patch) \in Seq(Path)
      /\ \A j \in DOMAIN q : q[j] # NoPath => Contains(PathsOf(patch), q[j])
  <2> HIDE DEF q
  <2>1. PathsOf(patch) = FoldLeft(LAMBDA got_, p : IF p = NoPath \/ Contains(got_, p) THEN got_
                                                   ELSE Append(got_, p), <<>>, q)
    BY DEF PathsOf, q
  <2> QED BY <1>3, <2>1, CollectsAll
<1>5. \A i \in DOMAIN patch : /\ patch[i].path \in Named
                              /\ patch[i].moveTo # NoPath => patch[i].moveTo \in Named
  <2> SUFFICES ASSUME NEW i \in DOMAIN patch
               PROVE  /\ patch[i].path \in Named
                      /\ patch[i].moveTo # NoPath => patch[i].moveTo \in Named
    OBVIOUS
  <2>1. pairs[i] = <<patch[i].path, patch[i].moveTo>>
    OBVIOUS
  <2>2. (\E j \in DOMAIN q : q[j] = patch[i].path) /\ (\E j \in DOMAIN q : q[j] = patch[i].moveTo)
    <3> HIDE DEF pairs, q
    <3>1. 1 \in DOMAIN pairs[i] /\ 2 \in DOMAIN pairs[i]
      BY <2>1
    <3> QED BY <1>3, <2>1, <3>1
  <2> HIDE DEF q
  <2> QED BY <1>1, <1>4, <2>2, ClientsAssumption DEF ChangeType
<1> HIDE DEF Named
<1>6. edits \in Seq(Seq(Allowed))
  <2>1. ASSUME NEW i \in DOMAIN patch PROVE Edits(patch[i]) \in Seq(Allowed)
    <3> DEFINE ch == patch[i]
    <3> HIDE DEF ch
    <3>1. /\ ch.action \in {"add", "delete", "update"} /\ ch.path \in Named
          /\ ch.moveTo # NoPath => ch.moveTo \in Named
      <4>1. ch \in ChangeType
        BY <1>1 DEF ch
      <4>2. ch.path \in Named /\ (ch.moveTo # NoPath => ch.moveTo \in Named)
        BY <1>5 DEF ch
      <4> QED BY <4>1, <4>2 DEF ChangeType
    <3>2. /\ \A p \in Named : \A do \in {"read", "write", "remove"} : Step(do, p, FALSE) \in Allowed
      BY DEF Step
    <3> HIDE DEF Allowed
    <3>3. ASSUME ch.action = "delete" PROVE Edits(ch) \in Seq(Allowed)
      BY <3>1, <3>2, ShortSeq, <3>3 DEF Edits
    <3>4. ASSUME ch.action = "add" PROVE Edits(ch) \in Seq(Allowed)
      BY <3>1, <3>2, ShortSeq, <3>4 DEF Edits
    <3>5. ASSUME ch.action = "update" /\ ch.moveTo = NoPath PROVE Edits(ch) \in Seq(Allowed)
      BY <3>1, <3>2, ShortSeq, <3>5 DEF Edits
    <3>6. ASSUME ch.action = "update" /\ ch.moveTo # NoPath PROVE Edits(ch) \in Seq(Allowed)
      BY <3>1, <3>2, ShortSeq, <3>6 DEF Edits
    <3>7. Edits(ch) \in Seq(Allowed)
      <4> HIDE DEF Edits
      <4> QED BY <3>1, <3>3, <3>4, <3>5, <3>6
    <3> QED BY <3>7 DEF ch
  <2>2. \A i \in DOMAIN patch : edits[i] = Edits(patch[i])
    OBVIOUS
  <2>3. edits = [i \in DOMAIN patch |-> edits[i]]
    OBVIOUS
  <2> HIDE DEF edits, Allowed
  <2>4. \A i \in DOMAIN patch : edits[i] \in Seq(Allowed)
    BY <2>1, <2>2
  <2> QED BY <2>3, <2>4, MapIs
<1>7. FlattenSeq(edits) \in Seq(Allowed)
  <2> HIDE DEF edits, Allowed
  <2> QED BY <1>6, FlattenSeqIs
<1>8. Allowed \subseteq StepType
  BY DEF StepType, Named
<1>9. EditsUnder(FlattenSeq(edits), PathsOf(patch))
  <2> HIDE DEF edits
  <2>1. FlattenSeq(edits) \in Seq(StepType)
    <3> HIDE DEF Allowed
    <3> QED BY <1>7, <1>8, SequenceOver
  <2>2. \A i \in DOMAIN FlattenSeq(edits) : FlattenSeq(edits)[i] \in Allowed
    <3> HIDE DEF Allowed
    <3> QED BY <1>7
  <2> QED BY <2>1, <2>2 DEF EditsUnder, Named
<1> QED BY <1>4, <1>9

----------------------------------------------------------------------------
(* Requests, plans and leases *)

LockType == [daemon : Host, path : Path, lock : Nat \ {0}]
RequestType == [number : Nat \ {0}, client : Client, step : StepType, polled : BOOLEAN]

\* A client waits for a request under way, which is about its next step.
CallsMatch ==
  \A c \in Client : \A r \in requests : call[c] = r.number =>
    r.client = c /\ todo[c] # <<>> /\ Head(todo[c]) = r.step
CallsWait == \A c \in Client : call[c] # 0 => \E r \in requests : call[c] = r.number
CallsOK ==
  /\ todo \in [Client -> Seq(StepType)] /\ call \in [Client -> Nat]
  /\ requests \subseteq RequestType /\ IsFiniteSet(requests)
  /\ \A r \in requests : r.step.do \in {"lock", "unlock"}
  /\ CallsMatch /\ CallsWait

LeasesOK ==
  /\ leases \subseteq LockType /\ IsFiniteSet(leases)
  /\ shaken \in [Client -> SUBSET Path]

\* What is left of each command changes only paths that are safe or that it
\* will have locked before.
Safe(c) == {p \in Path : Holds(DaemonOf[c], p) \/ p \in shaken[c]}
PlansCovered == \A c \in Client : Covered(todo[c], Safe(c))

ClientsInv == AnnounceInv /\ CallsOK /\ LeasesOK /\ PlansCovered

LEMMA CoveredMore ==
  ASSUME NEW steps, NEW known, NEW more, known \subseteq more, Covered(steps, known)
  PROVE  Covered(steps, more)
BY DEF Covered

LEMMA CoveredNone == \A known : Covered(<<>>, known)
BY DEF Covered

LEMMA KnownLocksFinite ==
  ASSUME AnnouncedOK
  PROVE  IsFiniteSet(KnownLocks) /\ \A l \in KnownLocks : l.lock \in Nat
<1> DEFINE f == [d \in Host |-> LocksOf(table, d) \cup heard[d]]
           g == [d \in Host |-> Range(wire[d])]
<1>1. IsFiniteSet(Host)
  BY ClientsAssumption
<1>2. \A d \in Host : f[d] \in LockFrame(d)
  <2> SUFFICES ASSUME NEW d \in Host PROVE f[d] \in LockFrame(d)
    OBVIOUS
  <2>1. LocksOf(table, d) \in LockFrame(d) /\ heard[d] \in LockFrame(d)
    BY LocksOfIs DEF AnnouncedOK
  <2> QED BY <2>1, FS_Union DEF LockFrame
<1>3. \A d \in Host : IsFiniteSet(g[d]) /\ \A ls \in g[d] : ls \in LockFrame(d)
  <2> SUFFICES ASSUME NEW d \in Host
               PROVE  IsFiniteSet(g[d]) /\ \A ls \in g[d] : ls \in LockFrame(d)
    OBVIOUS
  <2>1. PICK w : w = wire[d]
    OBVIOUS
  <2> DEFINE F == LockFrame(d)
  <2> HIDE DEF F
  <2>2. w \in Seq(F)
    BY <2>1 DEF AnnouncedOK, F
  <2>3. DOMAIN w = 1..Len(w) /\ Len(w) \in Nat /\ \A i \in DOMAIN w : w[i] \in F
    BY <2>2
  <2>4. IsFiniteSet(DOMAIN w)
    BY <2>3, FS_Interval
  <2>5. IsFiniteSet({w[i] : i \in DOMAIN w})
    BY <2>4, ImageIsFinite
  <2>6. g[d] = {w[i] : i \in DOMAIN w}
    BY <2>1 DEF Range
  <2> QED BY <2>3, <2>5, <2>6 DEF F
<1> DEFINE frames == UNION {g[d] : d \in Host}
<1>4. KnownLocks = (UNION {f[d] : d \in Host}) \cup (UNION frames)
  BY DEF KnownLocks
<1> HIDE DEF f, g
<1>5. IsFiniteSet({f[d] : d \in Host}) /\ IsFiniteSet({g[d] : d \in Host})
  BY <1>1, ImageIsFinite
<1>6. IsFiniteSet(UNION {f[d] : d \in Host})
  <2> DEFINE known == {f[d] : d \in Host}
  <2>1. \A ls \in known : IsFiniteSet(ls)
    BY <1>2 DEF LockFrame
  <2> HIDE DEF known
  <2>2. IsFiniteSet(UNION known)
    <3>1. IsFiniteSet(known)
      BY <1>5 DEF known
    <3> QED BY <2>1, <3>1, FS_UNION
  <2> QED BY <2>2 DEF known
<1>7. IsFiniteSet(frames)
  BY <1>3, <1>5, FS_UNION
<1>8. IsFiniteSet(UNION frames)
  <2>1. \A ls \in frames : IsFiniteSet(ls)
    BY <1>3 DEF LockFrame
  <2> HIDE DEF frames
  <2> QED BY <1>7, <2>1, FS_UNION
<1>9. IsFiniteSet(KnownLocks)
  <2> HIDE DEF frames
  <2> QED BY <1>4, <1>6, <1>8, FS_Union
<1>10. \A l \in KnownLocks : l.lock \in Nat
  BY <1>2, <1>3, <1>4 DEF LockFrame
<1> QED BY <1>9, <1>10

LEMMA ClientsInit_ == ClientsInit => ClientsInv
<1> SUFFICES ASSUME ClientsInit PROVE ClientsInv
  OBVIOUS
<1>1. AnnounceInv
  BY AnnounceInit
<1>2. CallsOK
  BY FS_EmptySet DEF ClientsInit, CallsOK, CallsMatch, CallsWait
<1>3. LeasesOK
  BY FS_EmptySet DEF ClientsInit, LeasesOK
<1>4. PlansCovered
  BY CoveredNone DEF ClientsInit, PlansCovered
<1> QED BY <1>1, <1>2, <1>3, <1>4 DEF ClientsInv

\* What the client has to do after an answer, or after giving up.
LEMMA ProceedsStep ==
  ASSUME CallsOK, NEW c \in Client, call[c] # 0, NEW ok, Proceeds(c, ok)
  PROVE  /\ todo' \in [Client -> Seq(StepType)] /\ call' \in [Client -> Nat]
         /\ todo[c] # <<>> /\ todo[c] \in Seq(StepType) /\ call'[c] = 0
         /\ \A e \in Client \ {c} : todo'[e] = todo[e] /\ call'[e] = call[e]
         /\ todo'[c] = IF ok \/ Head(todo[c]).do = "unlock" THEN Tail(todo[c]) ELSE <<>>
<1>1. todo[c] # <<>> /\ todo[c] \in Seq(StepType)
  BY DEF CallsOK, CallsMatch, CallsWait
<1>2. Tail(todo[c]) \in Seq(StepType) /\ <<>> \in Seq(StepType)
  BY <1>1
<1>3. todo'[c] = IF ok \/ Head(todo[c]).do = "unlock" THEN Tail(todo[c]) ELSE <<>>
  BY DEF Proceeds, CallsOK
<1>4. \A e \in Client \ {c} : todo'[e] = todo[e] /\ call'[e] = call[e]
  BY DEF Proceeds, CallsOK
<1>5. call'[c] = 0 /\ call' \in [Client -> Nat]
  BY DEF Proceeds, CallsOK
<1>6. todo' \in [Client -> Seq(StepType)]
  <2>1. todo'[c] \in Seq(StepType) /\ \A e \in Client : todo[e] \in Seq(StepType)
    BY <1>2, <1>3 DEF CallsOK
  <2>2. \A e \in Client : todo'[e] \in Seq(StepType)
    BY <1>4, <2>1
  <2>3. todo' = [e \in Client |-> todo'[e]]
    BY DEF Proceeds, CallsOK
  <2> QED BY <2>2, <2>3
<1> QED BY <1>1, <1>3, <1>4, <1>5, <1>6

LEMMA AnswerStep ==
  ASSUME CallsOK, NEW r \in requests, NEW ok, Answer(r, ok)
  PROVE  /\ CallsOK'
         /\ \A c \in Client :
              \/ todo'[c] = todo[c] /\ call[c] # r.number
              \/ /\ c = r.client /\ call[c] = r.number
                 /\ todo[c] # <<>> /\ todo[c] \in Seq(StepType) /\ Head(todo[c]) = r.step
                 /\ todo'[c] = IF ok \/ r.step.do = "unlock" THEN Tail(todo[c]) ELSE <<>>
<1>1. requests' = requests \ {r} /\ IsFiniteSet(requests')
  BY FS_RemoveElement DEF Answer, CallsOK
<1>2. r.client \in Client /\ r.number \in Nat \ {0}
  BY DEF CallsOK, RequestType
<1>3. CASE call[r.client] = r.number
  <2>1. Proceeds(r.client, ok) /\ call[r.client] # 0
    BY <1>2, <1>3 DEF Answer
  <2>2. /\ todo' \in [Client -> Seq(StepType)] /\ call' \in [Client -> Nat]
        /\ todo[r.client] # <<>> /\ todo[r.client] \in Seq(StepType) /\ call'[r.client] = 0
        /\ \A e \in Client \ {r.client} : todo'[e] = todo[e] /\ call'[e] = call[e]
        /\ todo'[r.client] = IF ok \/ Head(todo[r.client]).do = "unlock"
                               THEN Tail(todo[r.client]) ELSE <<>>
    BY <1>2, <2>1, ProceedsStep
  <2>3. Head(todo[r.client]) = r.step
    BY <1>2, <1>3 DEF CallsOK, CallsMatch
  <2>4. \A e \in Client \ {r.client} : call[e] # r.number
    BY DEF CallsOK, CallsMatch
  <2>5. CallsMatch'
    <3> SUFFICES ASSUME NEW c \in Client, NEW q \in requests', call'[c] = q.number
                 PROVE  q.client = c /\ todo'[c] # <<>> /\ Head(todo'[c]) = q.step
      BY DEF CallsMatch
    <3>1. q \in requests /\ q.number # 0
      BY <1>1 DEF CallsOK, RequestType
    <3>2. c # r.client
      BY <2>2, <3>1
    <3> QED BY <2>2, <3>1, <3>2 DEF CallsOK, CallsMatch
  <2>6. CallsWait'
    <3> SUFFICES ASSUME NEW c \in Client, call'[c] # 0
                 PROVE  \E q \in requests' : call'[c] = q.number
      BY DEF CallsWait
    <3>1. c # r.client /\ call'[c] = call[c]
      BY <2>2
    <3>2. PICK q \in requests : call[c] = q.number
      BY <3>1 DEF CallsOK, CallsWait
    <3> QED BY <1>1, <2>4, <3>1, <3>2
  <2>7. CallsOK'
    BY <1>1, <2>2, <2>5, <2>6 DEF CallsOK
  <2> QED BY <1>3, <2>2, <2>3, <2>4, <2>7
<1>4. CASE call[r.client] # r.number
  <2>1. todo' = todo /\ call' = call
    BY <1>4 DEF Answer
  <2>2. \A e \in Client : call[e] # r.number
    BY <1>4 DEF CallsOK, CallsMatch
  <2>3. CallsMatch'
    BY <1>1, <2>1 DEF CallsOK, CallsMatch
  <2>4. CallsWait'
    BY <1>1, <2>1, <2>2 DEF CallsOK, CallsWait
  <2>5. CallsOK'
    BY <1>1, <2>1, <2>3, <2>4 DEF CallsOK
  <2> QED BY <2>1, <2>2, <2>5
<1> QED BY <1>3, <1>4

\* A command starts, with what it plans.
LEMMA BeginStep ==
  ASSUME ClientsInv, NEW c \in Client, NEW steps, Plan(steps), Begin(c, steps)
  PROVE  ClientsInv'
<1> USE DEF ClientsInv
<1>1. /\ todo[c] = <<>> /\ todo'[c] = steps /\ shaken'[c] = {}
      /\ \A e \in Client \ {c} : todo'[e] = todo[e] /\ shaken'[e] = shaken[e]
      /\ steps \in Seq(StepType)
      /\ UNCHANGED <<call, requests, table, leases, wire, heard, missed>>
  BY DEF Begin, CallsOK, LeasesOK, Plan
<1>2. AnnounceInv'
  BY <1>1, QuietStep
<1>3. CallsOK'
  <2>1. todo' \in [Client -> Seq(StepType)]
    BY <1>1 DEF Begin, CallsOK
  <2>2. CallsMatch'
    BY <1>1 DEF CallsOK, CallsMatch
  <2>3. CallsWait'
    BY <1>1 DEF CallsOK, CallsWait
  <2> QED BY <1>1, <2>1, <2>2, <2>3 DEF CallsOK
<1>4. LeasesOK'
  <2>1. shaken' \in [Client -> SUBSET Path]
    BY DEF Begin, LeasesOK
  <2> QED BY <1>1, <2>1 DEF LeasesOK
<1>5. PlansCovered'
  <2> SUFFICES ASSUME NEW e \in Client PROVE Covered(todo'[e], Safe(e)')
    BY DEF PlansCovered
  <2>1. CASE e = c
    BY <1>1, <2>1 DEF Plan
  <2>2. CASE e # c
    <3>1. Safe(e)' = Safe(e)
      BY <1>1, <2>2 DEF Safe, Holds
    <3> QED BY <1>1, <2>2, <3>1 DEF PlansCovered
  <2> QED BY <2>1, <2>2
<1> QED BY <1>2, <1>3, <1>4, <1>5

LEMMA EditStep ==
  ASSUME ClientsInv, NEW c \in Client, Edit(c)
  PROVE  ClientsInv'
<1> USE DEF ClientsInv
<1>1. /\ todo[c] # <<>> /\ Head(todo[c]).do \in {"read", "write", "remove"}
      /\ todo'[c] \in {Tail(todo[c]), <<>>}
      /\ \A e \in Client \ {c} : todo'[e] = todo[e]
      /\ UNCHANGED <<call, requests, table, leases, wire, heard, missed, shaken>>
  BY DEF Edit, CallsOK
<1>2. todo[c] \in Seq(StepType)
  BY DEF CallsOK
<1>3. /\ Tail(todo[c]) \in Seq(StepType) /\ <<>> \in Seq(StepType)
      /\ Covered(Tail(todo[c]), Safe(c))
  <2>1. Head(todo[c]).do # "lock" /\ Covered(todo[c], Safe(c))
    BY <1>1 DEF PlansCovered
  <2> QED BY <1>1, <1>2, <2>1, CoveredTail
<1>4. AnnounceInv'
  BY <1>1, QuietStep
<1>5. CallsOK'
  <2>1. todo' \in [Client -> Seq(StepType)]
    BY <1>1, <1>3 DEF Edit, CallsOK
  <2>2. \A r \in requests : call[c] # r.number
    <3> SUFFICES ASSUME NEW r \in requests, call[c] = r.number PROVE FALSE
      OBVIOUS
    <3>1. Head(todo[c]) = r.step
      BY DEF CallsOK, CallsMatch
    <3>2. r.step.do \in {"lock", "unlock"}
      BY DEF CallsOK
    <3>3. Head(todo[c]).do \in {"read", "write", "remove"}
      BY <1>1
    <3> QED BY <3>1, <3>2, <3>3
  <2>3. CallsMatch'
    BY <1>1, <2>2 DEF CallsOK, CallsMatch
  <2>4. CallsWait'
    BY <1>1 DEF CallsOK, CallsWait
  <2> QED BY <1>1, <2>1, <2>3, <2>4 DEF CallsOK
<1>6. LeasesOK'
  BY <1>1 DEF LeasesOK
<1>7. PlansCovered'
  <2> SUFFICES ASSUME NEW e \in Client PROVE Covered(todo'[e], Safe(e)')
    BY DEF PlansCovered
  <2>1. Safe(e)' = Safe(e)
    BY <1>1 DEF Safe, Holds
  <2>2. CASE e = c
    BY <1>1, <1>3, <2>1, <2>2, CoveredNone
  <2>3. CASE e # c
    BY <1>1, <2>1, <2>3 DEF PlansCovered
  <2> QED BY <2>2, <2>3
<1> QED BY <1>4, <1>5, <1>6, <1>7

LEMMA SendStep ==
  ASSUME ClientsInv, NEW c \in Client, SendRequest(c)
  PROVE  ClientsInv'
<1> USE DEF ClientsInv
<1> DEFINE numbers == {r.number : r \in requests}
           n == Unused(numbers \cup Range(call))
<1>1. n \in Nat \ {0} /\ n \notin numbers /\ n \notin Range(call)
  <2>1. IsFiniteSet(numbers)
    <3> DEFINE f == [r \in requests |-> r.number]
    <3>1. numbers = {f[r] : r \in requests}
      OBVIOUS
    <3>2. IsFiniteSet(requests)
      BY DEF CallsOK
    <3> HIDE DEF numbers, f
    <3> QED BY <3>1, <3>2, ImageIsFinite
  <2>2. IsFiniteSet(Range(call))
    <3>1. DOMAIN call = Client /\ IsFiniteSet(Client)
      BY ClientsAssumption DEF CallsOK
    <3>2. IsFiniteSet({call[e] : e \in Client})
      BY <3>1, ImageIsFinite
    <3> QED BY <3>1, <3>2 DEF Range
  <2>3. IsFiniteSet(numbers \cup Range(call))
    BY <2>1, <2>2, FS_Union
  <2> HIDE DEF numbers
  <2> QED BY <2>3, UnusedIsFree
<1>2. PICK new : new = [number |-> n, client |-> c, step |-> Head(todo[c]), polled |-> FALSE]
  OBVIOUS
<1>3. /\ todo[c] # <<>> /\ Head(todo[c]).do \in {"lock", "unlock"} /\ call[c] = 0
      /\ call'[c] = n /\ call' \in [Client -> Nat]
      /\ \A e \in Client \ {c} : call'[e] = call[e]
      /\ requests' = requests \cup {new}
      /\ UNCHANGED <<todo, table, leases, wire, heard, missed, shaken>>
  <2>1. call' = [call EXCEPT ![c] = n]
    BY DEF SendRequest
  <2> HIDE DEF n
  <2>2. call'[c] = n /\ call' \in [Client -> Nat] /\ \A e \in Client \ {c} : call'[e] = call[e]
    BY <1>1, <2>1 DEF CallsOK
  <2>3. requests' = requests \cup {new}
    BY <1>2, <2>2 DEF SendRequest
  <2> QED BY <2>2, <2>3 DEF SendRequest
<1>4. todo[c] \in Seq(StepType) /\ Head(todo[c]) \in StepType
  <2>1. todo[c] \in Seq(StepType)
    BY DEF CallsOK
  <2> QED BY <1>3, <2>1, TailIs
<1>5. \A r \in requests : r.number # n
  BY <1>1
<1>6. \A e \in Client : call[e] # n
  BY <1>1 DEF CallsOK, Range
<1> HIDE DEF n
<1>7. new \in RequestType /\ new.number = n /\ new.client = c /\ new.step = Head(todo[c])
  BY <1>1, <1>2, <1>4 DEF RequestType
<1>8. AnnounceInv'
  BY <1>3, QuietStep
<1>9. CallsOK'
  <2>1. CallsMatch'
    <3> SUFFICES ASSUME NEW e \in Client, NEW r \in requests', call'[e] = r.number
                 PROVE  r.client = e /\ todo'[e] # <<>> /\ Head(todo'[e]) = r.step
      BY DEF CallsMatch
    <3>1. CASE e = c
      BY <1>3, <1>5, <1>7, <3>1
    <3>2. CASE e # c
      BY <1>3, <1>6, <1>7, <3>2 DEF CallsOK, CallsMatch
    <3> QED BY <3>1, <3>2
  <2>2. CallsWait'
    <3> SUFFICES ASSUME NEW e \in Client, call'[e] # 0
                 PROVE  \E r \in requests' : call'[e] = r.number
      BY DEF CallsWait
    <3>1. CASE e = c
      BY <1>3, <1>7, <3>1
    <3>2. CASE e # c
      BY <1>3, <3>2 DEF CallsOK, CallsWait
    <3> QED BY <3>1, <3>2
  <2>3. IsFiniteSet(requests')
    BY <1>3, FS_AddElement DEF CallsOK
  <2> QED BY <1>3, <1>7, <2>1, <2>2, <2>3 DEF CallsOK
<1>10. LeasesOK'
  BY <1>3 DEF LeasesOK
<1>11. PlansCovered'
  <2>1. \A e \in Client : Safe(e)' = Safe(e)
    BY <1>3 DEF Safe, Holds
  <2> QED BY <1>3, <2>1 DEF PlansCovered
<1> QED BY <1>8, <1>9, <1>10, <1>11

LEMMA GiveUpStep ==
  ASSUME ClientsInv, NEW c \in Client, GiveUp(c)
  PROVE  ClientsInv'
<1> USE DEF ClientsInv
<1>1. call[c] # 0 /\ Proceeds(c, FALSE) /\ UNCHANGED <<requests, table, leases, wire, heard, missed, shaken>>
  BY DEF GiveUp
<1>2. /\ todo' \in [Client -> Seq(StepType)] /\ call' \in [Client -> Nat]
      /\ todo[c] # <<>> /\ todo[c] \in Seq(StepType) /\ call'[c] = 0
      /\ \A e \in Client \ {c} : todo'[e] = todo[e] /\ call'[e] = call[e]
      /\ todo'[c] = IF Head(todo[c]).do = "unlock" THEN Tail(todo[c]) ELSE <<>>
  BY <1>1, ProceedsStep
<1>3. AnnounceInv'
  BY <1>1, QuietStep
<1>4. CallsOK'
  <2>1. CallsMatch'
    <3> SUFFICES ASSUME NEW e \in Client, NEW r \in requests, call'[e] = r.number
                 PROVE  r.client = e /\ todo'[e] # <<>> /\ Head(todo'[e]) = r.step
      BY <1>1 DEF CallsMatch
    <3>1. e # c
      BY <1>2 DEF CallsOK, RequestType
    <3> QED BY <1>2, <3>1 DEF CallsOK, CallsMatch
  <2>2. CallsWait'
    BY <1>1, <1>2 DEF CallsOK, CallsWait
  <2> QED BY <1>1, <1>2, <2>1, <2>2 DEF CallsOK
<1>5. LeasesOK'
  BY <1>1 DEF LeasesOK
<1>6. PlansCovered'
  <2> SUFFICES ASSUME NEW e \in Client PROVE Covered(todo'[e], Safe(e)')
    BY DEF PlansCovered
  <2>1. Safe(e)' = Safe(e)
    BY <1>1 DEF Safe, Holds
  <2>2. CASE e = c /\ Head(todo[c]).do = "unlock"
    <3>1. Covered(todo[c], Safe(c)) /\ Head(todo[c]).do # "lock"
      BY <2>2 DEF PlansCovered
    <3>2. Covered(Tail(todo[c]), Safe(c))
      BY <1>2, <3>1, CoveredTail
    <3> QED BY <1>2, <2>1, <2>2, <3>2
  <2>3. CASE e = c /\ Head(todo[c]).do # "unlock"
    BY <1>2, <2>3, CoveredNone
  <2>4. CASE e # c
    BY <1>2, <2>1, <2>4 DEF PlansCovered
  <2> QED BY <2>2, <2>3, <2>4
<1> QED BY <1>3, <1>4, <1>5, <1>6

LEMMA RefusedStep ==
  ASSUME ClientsInv, NEW r \in requests, LockRefused(r)
  PROVE  ClientsInv'
<1> USE DEF ClientsInv
<1>1. /\ r.step.do = "lock"
      /\ UNCHANGED <<table, leases, wire, heard, missed, shaken>>
      /\ \/ Answer(r, FALSE)
         \/ /\ requests' = (requests \ {r}) \cup {[r EXCEPT !.polled = TRUE]}
            /\ UNCHANGED <<todo, call>>
  BY DEF LockRefused
<1>2. AnnounceInv' /\ LeasesOK' /\ \A e \in Client : Safe(e)' = Safe(e)
  BY <1>1, QuietStep DEF LeasesOK, Safe, Holds
<1>3. CASE Answer(r, FALSE)
  <2>1. CallsOK' /\ \A e \in Client : todo'[e] = todo[e] \/ todo'[e] = <<>>
    BY <1>1, <1>3, AnswerStep
  <2>2. PlansCovered'
    BY <1>2, <2>1, CoveredNone DEF PlansCovered
  <2> QED BY <1>2, <2>1, <2>2
<1>4. CASE /\ requests' = (requests \ {r}) \cup {[r EXCEPT !.polled = TRUE]}
           /\ UNCHANGED <<todo, call>>
  <2>1. PICK again : again = [r EXCEPT !.polled = TRUE]
    OBVIOUS
  <2>2. /\ again \in RequestType /\ again.number = r.number /\ again.client = r.client
        /\ again.step = r.step
    BY <2>1 DEF CallsOK, RequestType
  <2>3. requests' = (requests \ {r}) \cup {again} /\ IsFiniteSet(requests')
    <3>1. IsFiniteSet(requests \ {r})
      BY FS_RemoveElement DEF CallsOK
    <3> QED BY <1>4, <2>1, <3>1, FS_AddElement
  <2>4. CallsMatch' /\ CallsWait'
    BY <1>4, <2>2, <2>3 DEF CallsOK, CallsMatch, CallsWait
  <2>5. CallsOK'
    BY <1>4, <2>2, <2>3, <2>4 DEF CallsOK
  <2>6. PlansCovered'
    BY <1>2, <1>4 DEF PlansCovered
  <2> QED BY <1>2, <2>5, <2>6
<1> QED BY <1>1, <1>3, <1>4

LEMMA GrantedStep ==
  ASSUME ClientsInv, NEW r \in requests, LockGranted(r)
  PROVE  ClientsInv'
<1> USE DEF ClientsInv
<1>1. PICK d : d = DaemonOf[r.client]
  OBVIOUS
<1>2. PICK p : p = r.step.path
  OBVIOUS
<1>3. PICK n : n = Unused({l.lock : l \in KnownLocks \cup leases})
  OBVIOUS
<1>4. /\ r.step.do = "lock" /\ table' = [table EXCEPT ![d][p] = n]
      /\ leases' = leases \cup {Lock(d, p, n)} /\ Announce(d) /\ Answer(r, TRUE)
      /\ UNCHANGED <<heard, missed, shaken>>
  BY <1>1, <1>2, <1>3 DEF LockGranted
<1>5. d \in Host /\ p \in Path
  BY <1>1, <1>2, ClientsAssumption DEF CallsOK, RequestType, StepType
<1>6. n \in Nat \ {0}
  <2> DEFINE locks == KnownLocks \cup leases
             f == [l \in locks |-> l.lock]
  <2>1. IsFiniteSet(locks)
    BY KnownLocksFinite, FS_Union DEF AnnounceInv, LeasesOK
  <2>2. {l.lock : l \in locks} = {f[l] : l \in locks}
    OBVIOUS
  <2> HIDE DEF f, locks
  <2>3. IsFiniteSet({l.lock : l \in locks})
    BY <2>1, <2>2, ImageIsFinite
  <2>4. n = Unused({l.lock : l \in locks})
    BY <1>3 DEF locks
  <2> QED BY <2>3, <2>4, UnusedIsFree
<1>7. AnnounceInv'
  BY <1>4, <1>5, <1>6, AnnounceStep
<1>8. LeasesOK'
  <2>1. Lock(d, p, n) \in LockType
    BY <1>5, <1>6 DEF Lock, LockType
  <2> QED BY <1>4, <2>1, FS_AddElement DEF LeasesOK
<1>9. /\ CallsOK'
      /\ \A c \in Client :
           \/ todo'[c] = todo[c] /\ call[c] # r.number
           \/ /\ c = r.client /\ call[c] = r.number
              /\ todo[c] # <<>> /\ todo[c] \in Seq(StepType) /\ Head(todo[c]) = r.step
              /\ todo'[c] = Tail(todo[c])
  BY <1>4, AnswerStep
<1>10. /\ Holds(d, p)'
       /\ \A e \in Host, q \in Path : Holds(e, q) => Holds(e, q)'
  <2>1. table \in [Host -> [Path -> Nat]]
    BY DEF AnnounceInv, AnnouncedOK
  <2>2. /\ table'[d][p] = n
        /\ \A e \in Host, q \in Path : e # d \/ q # p => table'[e][q] = table[e][q]
    BY <1>4, <1>5, <2>1
  <2>3. Holds(d, p)'
    BY <1>4, <2>2 DEF Holds
  <2>4. \A e \in Host, q \in Path : (e # d \/ q # p) /\ Holds(e, q) => Holds(e, q)'
    BY <1>4, <2>2 DEF Holds
  <2> QED BY <2>3, <2>4
<1>11. \A c \in Client : Safe(c) \subseteq Safe(c)' /\ (DaemonOf[c] = d => p \in Safe(c)')
  <2>1. \A c \in Client : DaemonOf[c] \in Host
    BY ClientsAssumption
  <2> QED BY <1>4, <1>5, <1>10, <2>1 DEF Safe
<1>12. PlansCovered'
  <2> SUFFICES ASSUME NEW c \in Client PROVE Covered(todo'[c], Safe(c)')
    BY DEF PlansCovered
  <2>1. Covered(todo[c], Safe(c)) /\ Safe(c) \subseteq Safe(c)'
    BY <1>11 DEF PlansCovered
  <2>2. CASE todo'[c] = todo[c]
    BY <2>1, <2>2, CoveredMore
  <2>3. CASE /\ c = r.client /\ call[c] = r.number
             /\ todo[c] # <<>> /\ todo[c] \in Seq(StepType) /\ Head(todo[c]) = r.step
             /\ todo'[c] = Tail(todo[c])
    <3>1. Head(todo[c]).path \in Safe(c)'
      BY <1>1, <1>2, <1>11, <2>3
    <3>2. Covered(Tail(todo[c]), Safe(c)')
      BY <2>1, <2>3, <3>1, CoveredTail
    <3> QED BY <2>3, <3>2
  <2> QED BY <1>9, <2>2, <2>3
<1> QED BY <1>7, <1>8, <1>9, <1>12

LEMMA UnlockStep ==
  ASSUME ClientsInv, NEW r \in requests, Unlock(r)
  PROVE  ClientsInv'
<1> USE DEF ClientsInv
<1>1. PICK d : d = DaemonOf[r.client]
  OBVIOUS
<1>2. PICK p : p = r.step.path
  OBVIOUS
<1>3. /\ r.step.do = "unlock" /\ Answer(r, table[d][p] # 0)
      /\ table' = [table EXCEPT ![d][p] = 0]
      /\ IF table[d][p] # 0 THEN Announce(d) ELSE UNCHANGED wire
      /\ Shake(Clients(d) \ {c \in Client : call[c] = r.number}, p)
      /\ UNCHANGED <<leases, heard, missed>>
  BY <1>1, <1>2 DEF Unlock
<1>4. d \in Host /\ p \in Path
  BY <1>1, <1>2, ClientsAssumption DEF CallsOK, RequestType, StepType
<1>5. table \in [Host -> [Path -> Nat]]
  BY DEF AnnounceInv, AnnouncedOK
<1>6. AnnounceInv'
  <2>1. CASE table[d][p] # 0
    BY <1>3, <1>4, <2>1, AnnounceStep
  <2>2. CASE table[d][p] = 0
    <3>1. table' = table
      BY <1>3, <1>4, <1>5, <2>2
    <3> QED BY <1>3, <2>2, <3>1, QuietStep
  <2> QED BY <2>1, <2>2
<1>7. /\ CallsOK'
      /\ \A c \in Client :
           \/ todo'[c] = todo[c] /\ call[c] # r.number
           \/ /\ c = r.client /\ call[c] = r.number
              /\ todo[c] # <<>> /\ todo[c] \in Seq(StepType) /\ Head(todo[c]) = r.step
              /\ todo'[c] = Tail(todo[c])
  BY <1>3, AnswerStep
<1>8. /\ shaken' \in [Client -> SUBSET Path]
      /\ \A c \in Client : shaken[c] \subseteq shaken'[c]
      /\ \A c \in Client : DaemonOf[c] = d /\ call[c] # r.number => p \in shaken'[c]
  BY <1>3, <1>4 DEF Shake, Clients, LeasesOK
<1>9. LeasesOK'
  BY <1>3, <1>8 DEF LeasesOK
<1>10. \A e \in Host, q \in Path : e # d \/ q # p => (Holds(e, q) => Holds(e, q)')
  <2>1. \A e \in Host, q \in Path : e # d \/ q # p => table'[e][q] = table[e][q]
    BY <1>3, <1>4, <1>5
  <2> QED BY <1>3, <2>1 DEF Holds
<1>11. \A c \in Client : call[c] # r.number => Safe(c) \subseteq Safe(c)'
  <2>1. \A c \in Client : DaemonOf[c] \in Host
    BY ClientsAssumption
  <2> QED BY <1>4, <1>8, <1>10, <2>1 DEF Safe
<1>12. PlansCovered'
  <2> SUFFICES ASSUME NEW c \in Client PROVE Covered(todo'[c], Safe(c)')
    BY DEF PlansCovered
  <2>1. Covered(todo[c], Safe(c))
    BY DEF PlansCovered
  <2>2. CASE todo'[c] = todo[c] /\ call[c] # r.number
    BY <1>11, <2>1, <2>2, CoveredMore
  <2>3. CASE /\ todo[c] # <<>> /\ todo[c] \in Seq(StepType) /\ Head(todo[c]) = r.step
             /\ todo'[c] = Tail(todo[c])
    <3>1. Head(todo[c]).do = "unlock"
      BY <1>3, <2>3
    <3>2. Covered(Tail(todo[c]), Safe(c)')
      BY <2>1, <2>3, <3>1, CoveredTail
    <3> QED BY <2>3, <3>2
  <2> QED BY <1>7, <2>2, <2>3
<1> QED BY <1>6, <1>7, <1>9, <1>12

\* Steps of the daemons alone: no request, no command.
LEMMA DaemonStep ==
  ASSUME ClientsInv, UNCHANGED <<todo, call, requests>>, AnnounceInv', LeasesOK',
         \A c \in Client : Safe(c) \subseteq Safe(c)'
  PROVE  ClientsInv'
<1> USE DEF ClientsInv
<1>1. CallsOK'
  BY DEF CallsOK, CallsMatch, CallsWait
<1>2. PlansCovered'
  BY CoveredMore DEF PlansCovered
<1> QED BY <1>1, <1>2

LEMMA FrameStep ==
  ASSUME ClientsInv, NEW d \in Host, Broadcast(d) \/ Hear(d)
  PROVE  ClientsInv'
<1> USE DEF ClientsInv
<1>1. table \in [Host -> [Path -> Nat]] /\ UNCHANGED <<todo, call, requests, table, shaken>>
  BY DEF AnnounceInv, AnnouncedOK, Broadcast, Hear
<1>2. AnnounceInv'
  <2>1. CASE Hear(d)
    BY <2>1, HearStep
  <2>2. CASE Broadcast(d)
    <3>1. /\ wire[d] = <<>> /\ wire' = [wire EXCEPT ![d] = <<LocksOf(table, d)>>]
          /\ UNCHANGED <<table, heard, missed, leases>> /\ d \in missed
      BY <2>2 DEF Broadcast
    <3>2. LocksOf(table, d) \in LockFrame(d)
      BY <1>1, LocksOfIs
    <3>3. \A e \in Host : LocksOf(table, e)' = LocksOf(table, e)
      BY <1>1 DEF LocksOf
    <3>4. wire'[d] = <<LocksOf(table, d)>> /\ \A e \in Host \ {d} : wire'[e] = wire[e]
      BY <3>1 DEF AnnounceInv, AnnouncedOK
    <3>5. wire'[d] \in Seq(LockFrame(d)) /\ wire'[d] # <<>> /\ wire'[d][Len(wire'[d])] = LocksOf(table, d)
      <4> DEFINE F == LockFrame(d)
      <4> HIDE DEF F
      <4>1. LocksOf(table, d) \in F
        BY <3>2 DEF F
      <4>2. wire'[d] \in Seq(F) /\ wire'[d] # <<>> /\ wire'[d][Len(wire'[d])] = LocksOf(table, d)
        BY <3>4, <4>1
      <4> QED BY <4>2 DEF F
    <3>6. AnnouncedOK'
      BY <3>1, <3>4, <3>5 DEF AnnounceInv, AnnouncedOK
    <3>7. LastFrameTells'
      BY <3>3, <3>4, <3>5 DEF AnnounceInv, LastFrameTells
    <3>8. LocksKnown'
      BY <3>1, <3>3, <3>4, <3>5 DEF AnnounceInv, LocksKnown
    <3> QED BY <3>6, <3>7, <3>8 DEF AnnounceInv
  <2> QED BY <2>1, <2>2
<1>3. leases' \subseteq leases /\ \A e \in Host, q \in Path : Holds(e, q) => Lock(e, q, table[e][q]) \in leases'
  <2>1. CASE Broadcast(d)
    BY <2>1 DEF Broadcast, Holds
  <2>2. CASE Hear(d)
    <3>1. leases' = leases \cap KnownLocks'
      BY <2>2 DEF Hear
    <3>2. ASSUME NEW e \in Host, NEW q \in Path, Holds(e, q)
          PROVE  Lock(e, q, table[e][q]) \in KnownLocks'
      <4>1. table'[e][q] # 0
        BY <1>1, <3>2 DEF Holds, LeasesOK, LockType, Lock
      <4>2. Lock(e, q, table'[e][q]) \in LocksOf(table', e)
        BY <4>1 DEF LocksOf
      <4> QED BY <1>1, <4>2 DEF KnownLocks
    <3> QED BY <3>1, <3>2 DEF Holds
  <2> QED BY <2>1, <2>2
<1>4. LeasesOK'
  <2>1. IsFiniteSet(leases')
    BY <1>3, FS_Subset DEF LeasesOK
  <2> QED BY <1>1, <1>3, <2>1 DEF LeasesOK
<1>5. \A c \in Client : Safe(c) \subseteq Safe(c)'
  <2>1. \A c \in Client : DaemonOf[c] \in Host
    BY ClientsAssumption
  <2> QED BY <1>1, <1>3, <2>1 DEF Safe, Holds
<1> QED BY <1>1, <1>2, <1>4, <1>5, DaemonStep

LEMMA RemoveStep ==
  ASSUME ClientsInv, NEW d \in Host, NEW p \in Path, RemoveExpired(d, p)
  PROVE  ClientsInv'
<1> USE DEF ClientsInv
<1>1. /\ ~Holds(d, p) /\ table' = [table EXCEPT ![d][p] = 0] /\ Announce(d)
      /\ UNCHANGED <<todo, call, requests, leases, heard, missed, shaken>>
  BY DEF RemoveExpired
<1>2. table \in [Host -> [Path -> Nat]]
  BY DEF AnnounceInv, AnnouncedOK
<1>3. AnnounceInv'
  BY <1>1, AnnounceStep
<1>4. \A e \in Host, q \in Path : e # d \/ q # p => table'[e][q] = table[e][q]
  BY <1>1, <1>2
<1>5. \A c \in Client : Safe(c) \subseteq Safe(c)'
  <2>1. \A c \in Client : DaemonOf[c] \in Host
    BY ClientsAssumption
  <2> QED BY <1>1, <1>4, <2>1 DEF Safe, Holds
<1>6. LeasesOK'
  BY <1>1 DEF LeasesOK
<1> QED BY <1>1, <1>3, <1>5, <1>6, DaemonStep

LEMMA RunsOutStep ==
  ASSUME ClientsInv, NEW l \in leases, LeaseRunsOut(l)
  PROVE  ClientsInv'
<1> USE DEF ClientsInv
<1>1. /\ leases' = leases \ {l}
      /\ IF table[l.daemon][l.path] = l.lock THEN Shake(Clients(l.daemon), l.path)
                                             ELSE UNCHANGED shaken
      /\ UNCHANGED <<todo, call, requests, table, wire, heard, missed>>
  BY DEF LeaseRunsOut
<1>2. l \in LockType
  BY DEF LeasesOK
<1>3. AnnounceInv'
  BY <1>1, QuietStep
<1>4. /\ shaken' \in [Client -> SUBSET Path]
      /\ \A c \in Client : shaken[c] \subseteq shaken'[c]
      /\ \A c \in Client : DaemonOf[c] = l.daemon /\ table[l.daemon][l.path] = l.lock => l.path \in shaken'[c]
  BY <1>1, <1>2 DEF Shake, Clients, LeasesOK, LockType
<1>5. LeasesOK'
  <2>1. IsFiniteSet(leases')
    BY <1>1, FS_Subset DEF LeasesOK
  <2> QED BY <1>1, <1>4, <2>1 DEF LeasesOK
<1>6. \A c \in Client : Safe(c) \subseteq Safe(c)'
  <2> SUFFICES ASSUME NEW c \in Client, NEW p \in Safe(c) PROVE p \in Safe(c)'
    OBVIOUS
  <2>1. CASE p \in shaken[c]
    BY <1>4, <2>1 DEF Safe
  <2>2. CASE Holds(DaemonOf[c], p)
    <3>1. CASE l = Lock(DaemonOf[c], p, table[DaemonOf[c]][p])
      BY <1>4, <3>1 DEF Safe, Lock
    <3>2. CASE l # Lock(DaemonOf[c], p, table[DaemonOf[c]][p])
      BY <1>1, <2>2, <3>2 DEF Safe, Holds
    <3> QED BY <3>1, <3>2
  <2> QED BY <2>1, <2>2 DEF Safe
<1> QED BY <1>1, <1>3, <1>5, <1>6, DaemonStep

\* What every command and tool does is such a plan.
LEMMA OneStepPlan ==
  ASSUME NEW step \in StepType, ~Changes(step)
  PROVE  Plan(<<step>>)
<1> DEFINE s == <<step>>
<1>1. s \in Seq(StepType) /\ DOMAIN s = {1} /\ s[1] = step
  OBVIOUS
<1> HIDE DEF s
<1>2. Plan(s)
  BY <1>1 DEF Plan, Covered
<1> QED BY <1>2 DEF s

LEMMA ApplyPatchIsPlan ==
  ASSUME NEW patch \in Patch
  PROVE  /\ Plan(ApplyPatch(patch))
         /\ Plan(Hooked(PathsOf(patch), FlattenSeq([i \in DOMAIN patch |-> Edits(patch[i])])))
<1> DEFINE paths == PathsOf(patch)
           edits == FlattenSeq([i \in DOMAIN patch |-> Edits(patch[i])])
           unlocks == [i \in DOMAIN paths |-> Step("unlock", paths[i], FALSE)]
<1>1. paths \in Seq(Path) /\ EditsUnder(edits, paths)
  BY PatchUnder, ClientsAssumption
<1>2. Hooked(paths, edits) = LocksFor(paths) \o edits
  BY DEF Hooked, LocksFor
<1>3. ApplyPatch(patch) = (LocksFor(paths) \o edits) \o unlocks
  BY DEF ApplyPatch, LocksFor
<1> HIDE DEF paths, edits
<1>4. /\ Plan(LocksFor(paths) \o edits)
      /\ \A i \in DOMAIN (LocksFor(paths) \o edits) : (LocksFor(paths) \o edits)[i].do # "unlock"
  BY <1>1, HookedIsPlan
<1>5. unlocks \in Seq(StepType) /\ \A i \in DOMAIN unlocks : unlocks[i].do = "unlock"
  <2>1. /\ \A i \in DOMAIN paths : unlocks[i] \in StepType /\ unlocks[i].do = "unlock"
        /\ unlocks = [i \in DOMAIN paths |-> unlocks[i]]
        /\ DOMAIN unlocks = DOMAIN paths
    BY <1>1 DEF Step, StepType
  <2> HIDE DEF unlocks
  <2>2. unlocks \in Seq(StepType)
    BY <1>1, <2>1, MapIs
  <2> QED BY <2>1, <2>2
<1> HIDE DEF unlocks
<1>6. Plan((LocksFor(paths) \o edits) \o unlocks)
  <2> DEFINE first == LocksFor(paths) \o edits
  <2> HIDE DEF first
  <2>1. Plan(first) /\ \A i \in DOMAIN first : first[i].do # "unlock"
    BY <1>4 DEF first
  <2>2. Plan(first \o unlocks)
    BY <1>5, <2>1, UnlocksEndPlan
  <2> QED BY <2>2 DEF first
<1> QED BY <1>2, <1>3, <1>4, <1>6 DEF paths, edits

LEMMA WritesArePlan ==
  ASSUME NEW files \in Seq(Path)
  PROVE  Plan(Hooked(files, Writes(files)))
<1>1. Hooked(files, Writes(files)) = LocksFor(files) \o Writes(files)
  BY DEF Hooked, LocksFor
<1> QED BY <1>1, WritesUnder, HookedIsPlan

LEMMA CommandStep ==
  ASSUME ClientsInv, NEW c \in Client,
         \/ \E p \in Path, wait \in BOOLEAN : LockCommand(c, p, wait)
         \/ \E p \in Path : UnlockCommand(c, p)
         \/ \E patch \in Patch : PatchCommand(c, patch) \/ OpenCodeEdit(c, patch)
         \/ \E p \in Path : ClaudeEdit(c, p)
         \/ \E files \in Files : MendCodeEdit(c, files) \/ CodexEdit(c, files)
  PROVE  ClientsInv'
<1>1. ASSUME NEW p \in Path, NEW wait \in BOOLEAN, LockCommand(c, p, wait) PROVE ClientsInv'
  <2>1. Step("lock", p, wait) \in StepType /\ ~Changes(Step("lock", p, wait))
    BY DEF Step, StepType, Changes
  <2> QED BY <1>1, <2>1, OneStepPlan, BeginStep DEF LockCommand
<1>2. ASSUME NEW p \in Path, UnlockCommand(c, p) PROVE ClientsInv'
  <2>1. Step("unlock", p, FALSE) \in StepType /\ ~Changes(Step("unlock", p, FALSE))
    BY DEF Step, StepType, Changes
  <2> QED BY <1>2, <2>1, OneStepPlan, BeginStep DEF UnlockCommand
<1>3. ASSUME NEW patch \in Patch, PatchCommand(c, patch) \/ OpenCodeEdit(c, patch) PROVE ClientsInv'
  BY <1>3, ApplyPatchIsPlan, BeginStep DEF PatchCommand, OpenCodeEdit
<1>4. ASSUME NEW p \in Path, ClaudeEdit(c, p) PROVE ClientsInv'
  <2>1. <<p>> \in Seq(Path)
    OBVIOUS
  <2> QED BY <1>4, <2>1, WritesArePlan, BeginStep DEF ClaudeEdit
<1>5. ASSUME NEW files \in Files, MendCodeEdit(c, files) \/ CodexEdit(c, files) PROVE ClientsInv'
  <2>1. files \in Seq(Path)
    BY ClientsAssumption
  <2> QED BY <1>5, <2>1, WritesArePlan, BeginStep DEF MendCodeEdit, CodexEdit
<1> QED BY <1>1, <1>2, <1>3, <1>4, <1>5

LEMMA ClientsStep == ClientsInv /\ [ClientsNext]_clientVars => ClientsInv'
<1> SUFFICES ASSUME ClientsInv, [ClientsNext]_clientVars PROVE ClientsInv'
  OBVIOUS
<1>1. CASE UNCHANGED clientVars
  <2>1. UNCHANGED <<todo, call, requests, table, leases, wire, heard, missed, shaken>>
    BY <1>1 DEF clientVars
  <2>2. AnnounceInv' /\ LeasesOK' /\ \A c \in Client : Safe(c)' = Safe(c)
    BY <2>1, QuietStep DEF ClientsInv, LeasesOK, Safe, Holds
  <2> QED BY <2>1, <2>2, DaemonStep
<1>2. CASE ClientsNext
  <2>1. ASSUME NEW c \in Client, Edit(c) \/ SendRequest(c) \/ GiveUp(c) PROVE ClientsInv'
    BY <2>1, EditStep, SendStep, GiveUpStep
  <2>2. ASSUME NEW r \in requests, LockRefused(r) \/ LockGranted(r) \/ Unlock(r) PROVE ClientsInv'
    BY <2>2, RefusedStep, GrantedStep, UnlockStep
  <2>3. ASSUME NEW d \in Host, Broadcast(d) \/ Hear(d) PROVE ClientsInv'
    BY <2>3, FrameStep
  <2>4. ASSUME NEW d \in Host, NEW p \in Path, RemoveExpired(d, p) PROVE ClientsInv'
    BY <2>4, RemoveStep
  <2>5. ASSUME NEW l \in leases, LeaseRunsOut(l) PROVE ClientsInv'
    BY <2>5, RunsOutStep
  <2> QED BY <1>2, <2>1, <2>2, <2>3, <2>4, <2>5, CommandStep DEF ClientsNext
<1> QED BY <1>1, <1>2

\* Once its last frame arrived, what the others know of a daemon's locks is
\* what its table says, for any daemons, commands, losses and lease ends.
THEOREM LocksAreKnown == ClientsSpec => []LocksKnown
<1>1. ClientsInv => LocksKnown
  BY DEF ClientsInv, AnnounceInv
<1> QED BY <1>1, ClientsInit_, ClientsStep, PTL DEF ClientsSpec

\* A patch, and an edit behind a hook, changes a path only under the lock of
\* its daemon on that path, unless the client lost that lock without giving it
\* up: for any patch, any number of clients of a daemon, and any requests that
\* their clients no longer wait for.
THEOREM PatchesUnderLocks == ClientsSpec => []PatchUnderLock
<1>1. ClientsInv => PatchUnderLock
  <2> SUFFICES ASSUME ClientsInv, NEW c \in Client, todo[c] # <<>>,
                      Head(todo[c]).do \in {"write", "remove"}
               PROVE  \/ Holds(DaemonOf[c], Head(todo[c]).path)
                      \/ Head(todo[c]).path \in shaken[c]
    BY DEF PatchUnderLock
  <2>1. todo[c] \in Seq(StepType) /\ Covered(todo[c], Safe(c)) /\ Changes(Head(todo[c]))
    BY DEF ClientsInv, CallsOK, PlansCovered, Changes
  <2>2. Head(todo[c]).path \in Safe(c)
    BY <2>1, CoveredTail DEF Changes
  <2> QED BY <2>2 DEF Safe
<1> QED BY <1>1, ClientsInit_, ClientsStep, PTL DEF ClientsSpec

----------------------------------------------------------------------------
(* Messages in a queue *)

LEMMA RemoveAtIs ==
  ASSUME NEW T, NEW s \in Seq(T), NEW i \in 1..Len(s)
  PROVE  /\ RemoveAt(s, i) \in Seq(T) /\ Len(RemoveAt(s, i)) = Len(s) - 1
         /\ DOMAIN RemoveAt(s, i) = 1..(Len(s) - 1)
         /\ \A j \in 1..(Len(s) - 1) :
              RemoveAt(s, i)[j] = IF j < i THEN s[j] ELSE s[j + 1]
<1> DEFINE a == SubSeq(s, 1, i - 1)
           b == SubSeq(s, i + 1, Len(s))
<1>1. Len(s) \in Nat /\ i \in Nat /\ \A j \in 1..Len(s) : s[j] \in T
  OBVIOUS
<1>2. a \in Seq(T) /\ Len(a) = i - 1 /\ \A j \in 1..(i - 1) : a[j] = s[j]
  BY <1>1
<1>3. b \in Seq(T) /\ Len(b) = Len(s) - i /\ \A j \in 1..(Len(s) - i) : b[j] = s[i + j]
  BY <1>1
<1>4. RemoveAt(s, i) = a \o b
  BY DEF RemoveAt
<1> HIDE DEF a, b
<1>5. /\ a \o b \in Seq(T) /\ Len(a \o b) = Len(s) - 1
      /\ DOMAIN (a \o b) = 1..(Len(s) - 1)
      /\ \A j \in 1..(Len(s) - 1) : (a \o b)[j] = IF j < i THEN a[j] ELSE b[j - (i - 1)]
  <2>1. /\ a \o b \in Seq(T) /\ Len(a \o b) = Len(a) + Len(b)
        /\ DOMAIN (a \o b) = 1..(Len(a) + Len(b))
        /\ \A j \in DOMAIN a : (a \o b)[j] = a[j]
        /\ \A k \in DOMAIN b : (a \o b)[Len(a) + k] = b[k]
    <3>1. a \in Seq(T) /\ b \in Seq(T)
      BY <1>2, <1>3
    <3>2. Len(a \o b) = Len(a) + Len(b) /\ DOMAIN (a \o b) = 1..(Len(a) + Len(b))
      BY <3>1, ConcatLen
    <3>3. /\ a \o b \in Seq(T)
          /\ \A j \in DOMAIN a : (a \o b)[j] = a[j]
          /\ \A k \in DOMAIN b : (a \o b)[Len(a) + k] = b[k]
      BY <3>1, ConcatIs
    <3> QED BY <3>2, <3>3
  <2>2. DOMAIN a = 1..(i - 1) /\ DOMAIN b = 1..(Len(s) - i) /\ Len(a) + Len(b) = Len(s) - 1
    BY <1>1, <1>2, <1>3
  <2>3. ASSUME NEW j \in 1..(Len(s) - 1)
        PROVE  (a \o b)[j] = IF j < i THEN a[j] ELSE b[j - (i - 1)]
    <3>1. CASE j < i
      <4>1. j \in DOMAIN a
        BY <1>1, <2>2, <3>1
      <4> QED BY <2>1, <3>1, <4>1
    <3>2. CASE ~(j < i)
      <4>1. j - (i - 1) \in DOMAIN b /\ Len(a) + (j - (i - 1)) = j
        BY <1>1, <1>2, <2>2, <3>2
      <4>2. (a \o b)[Len(a) + (j - (i - 1))] = b[j - (i - 1)]
        BY <2>1, <4>1
      <4> QED BY <3>2, <4>1, <4>2
    <3> QED BY <3>1, <3>2
  <2> QED BY <2>1, <2>2, <2>3
<1>6. ASSUME NEW j \in 1..(Len(s) - 1)
      PROVE  (a \o b)[j] = IF j < i THEN s[j] ELSE s[j + 1]
  <2>1. CASE j < i
    <3>1. j \in 1..(i - 1)
      BY <1>1, <2>1
    <3> QED BY <1>2, <1>5, <2>1, <3>1
  <2>2. CASE ~(j < i)
    <3>1. j - (i - 1) \in 1..(Len(s) - i) /\ i + (j - (i - 1)) = j + 1
      BY <1>1, <2>2
    <3> QED BY <1>3, <1>5, <2>2, <3>1
  <2> QED BY <2>1, <2>2
<1> QED BY <1>4, <1>5, <1>6

\* The numbers of the frames in a queue, and that they rise.
Nums(s, F) == {s[i].number : i \in {j \in DOMAIN s : s[j] \in F}}
Rising(s, F) == \A i, j \in DOMAIN s : i < j /\ s[i] \in F /\ s[j] \in F => s[i].number < s[j].number

LEMMA AppendNums ==
  ASSUME NEW T, NEW s \in Seq(T), NEW x \in T, NEW F
  PROVE  /\ Append(s, x) \in Seq(T)
         /\ Range(Append(s, x)) = Range(s) \cup {x}
         /\ Nums(Append(s, x), F) = Nums(s, F) \cup (IF x \in F THEN {x.number} ELSE {})
         /\ Rising(s, F) /\ (x \in F => \A n \in Nums(s, F) : n < x.number) => Rising(Append(s, x), F)
<1> DEFINE t == Append(s, x)
<1>1. /\ t \in Seq(T) /\ Len(s) \in Nat /\ DOMAIN t = 1..(Len(s) + 1) /\ DOMAIN s = 1..Len(s)
      /\ \A i \in DOMAIN s : t[i] = s[i]
      /\ t[Len(s) + 1] = x
  OBVIOUS
<1> HIDE DEF t
<1>2. \A i \in DOMAIN t : i \in DOMAIN s \/ i = Len(s) + 1
  BY <1>1
<1>3. \A i \in DOMAIN s : i \in DOMAIN t /\ i < Len(s) + 1
  BY <1>1
<1>4. Len(s) + 1 \in DOMAIN t /\ ~(Len(s) + 1 \in DOMAIN s)
  BY <1>1
<1>5. Range(t) = Range(s) \cup {x}
  BY <1>1, <1>2, <1>3, <1>4 DEF Range
<1>6. Nums(t, F) = Nums(s, F) \cup (IF x \in F THEN {x.number} ELSE {})
  <2>1. CASE x \in F
    <3>1. \A n \in Nums(t, F) : n \in Nums(s, F) \cup {x.number}
      BY <1>1, <1>2 DEF Nums
    <3>2. \A n \in Nums(s, F) \cup {x.number} : n \in Nums(t, F)
      BY <1>1, <1>3, <1>4, <2>1 DEF Nums
    <3> QED BY <2>1, <3>1, <3>2
  <2>2. CASE x \notin F
    <3>1. \A n \in Nums(t, F) : n \in Nums(s, F)
      BY <1>1, <1>2, <2>2 DEF Nums
    <3>2. \A n \in Nums(s, F) : n \in Nums(t, F)
      BY <1>1, <1>3 DEF Nums
    <3> QED BY <2>2, <3>1, <3>2
  <2> QED BY <2>1, <2>2
<1>7. ASSUME Rising(s, F), x \in F => \A n \in Nums(s, F) : n < x.number
      PROVE  Rising(t, F)
  <2> SUFFICES ASSUME NEW i \in DOMAIN t, NEW j \in DOMAIN t, i < j, t[i] \in F, t[j] \in F
               PROVE  t[i].number < t[j].number
    BY DEF Rising
  <2>1. CASE j \in DOMAIN s
    <3>1. i \in DOMAIN s
      BY <1>1, <2>1
    <3> QED BY <1>1, <1>7, <2>1, <3>1 DEF Rising
  <2>2. CASE j = Len(s) + 1
    <3>1. i \in DOMAIN s
      BY <1>1, <2>2
    <3>2. s[i].number \in Nums(s, F)
      BY <1>1, <3>1 DEF Nums
    <3> QED BY <1>1, <1>7, <2>2, <3>1, <3>2
  <2> QED BY <1>2, <2>1, <2>2
<1> QED BY <1>1, <1>5, <1>6, <1>7 DEF t

LEMMA TailNums ==
  ASSUME NEW T, NEW s \in Seq(T), s # <<>>, NEW F
  PROVE  /\ Head(s) \in T /\ Tail(s) \in Seq(T)
         /\ Range(s) = Range(Tail(s)) \cup {Head(s)}
         /\ Nums(s, F) = Nums(Tail(s), F) \cup (IF Head(s) \in F THEN {Head(s).number} ELSE {})
         /\ Rising(s, F) => /\ Rising(Tail(s), F)
                            /\ Head(s) \in F => \A n \in Nums(Tail(s), F) : Head(s).number < n
<1> DEFINE t == Tail(s)
<1>1. /\ Head(s) \in T /\ t \in Seq(T) /\ Len(s) \in Nat \ {0}
      /\ DOMAIN t = 1..(Len(s) - 1) /\ DOMAIN s = 1..Len(s)
      /\ \A i \in DOMAIN t : t[i] = s[i + 1]
      /\ Head(s) = s[1]
  OBVIOUS
<1> HIDE DEF t
<1>2. \A i \in DOMAIN t : i + 1 \in DOMAIN s /\ 1 < i + 1
  BY <1>1
<1>3. \A i \in DOMAIN s : i = 1 \/ (i - 1 \in DOMAIN t /\ t[i - 1] = s[i])
  <2> SUFFICES ASSUME NEW i \in DOMAIN s, i # 1 PROVE i - 1 \in DOMAIN t /\ t[i - 1] = s[i]
    OBVIOUS
  <2>1. i - 1 \in DOMAIN t /\ (i - 1) + 1 = i
    BY <1>1
  <2> QED BY <1>1, <2>1
<1>4. 1 \in DOMAIN s
  BY <1>1
<1>5. Range(s) = Range(t) \cup {Head(s)}
  BY <1>1, <1>2, <1>3, <1>4 DEF Range
<1>6. Nums(s, F) = Nums(t, F) \cup (IF Head(s) \in F THEN {Head(s).number} ELSE {})
  <2>1. \A n \in Nums(t, F) : n \in Nums(s, F)
    BY <1>1, <1>2 DEF Nums
  <2>2. Head(s) \in F => Head(s).number \in Nums(s, F)
    BY <1>1, <1>4 DEF Nums
  <2>3. \A n \in Nums(s, F) : n \in Nums(t, F) \/ (Head(s) \in F /\ n = Head(s).number)
    BY <1>1, <1>3 DEF Nums
  <2> QED BY <2>1, <2>2, <2>3
<1>7. ASSUME Rising(s, F)
      PROVE  /\ Rising(t, F)
             /\ Head(s) \in F => \A n \in Nums(t, F) : Head(s).number < n
  <2>1. Rising(t, F)
    <3> SUFFICES ASSUME NEW i \in DOMAIN t, NEW j \in DOMAIN t, i < j, t[i] \in F, t[j] \in F
                 PROVE  t[i].number < t[j].number
      BY DEF Rising
    <3>1. i + 1 < j + 1
      BY <1>1
    <3> QED BY <1>1, <1>2, <1>7, <3>1 DEF Rising
  <2>2. ASSUME Head(s) \in F, NEW n \in Nums(t, F) PROVE Head(s).number < n
    <3>1. PICK i \in DOMAIN t : t[i] \in F /\ n = t[i].number
      BY DEF Nums
    <3> QED BY <1>1, <1>2, <1>4, <1>7, <2>2, <3>1 DEF Rising
  <2> QED BY <2>1, <2>2
<1> QED BY <1>1, <1>5, <1>6, <1>7 DEF t

LEMMA RemoveNums ==
  ASSUME NEW T, NEW s \in Seq(T), NEW i \in DOMAIN s, NEW F
  PROVE  /\ s[i] \in T /\ RemoveAt(s, i) \in Seq(T)
         /\ Range(RemoveAt(s, i)) \subseteq Range(s)
         /\ Range(s) \subseteq Range(RemoveAt(s, i)) \cup {s[i]}
         /\ s[i] \in F => s[i].number \in Nums(s, F)
         /\ Nums(RemoveAt(s, i), F) \subseteq Nums(s, F)
         /\ Rising(s, F) => Rising(RemoveAt(s, i), F)
         /\ (Rising(s, F) /\ s[i] \in F /\ ~\E j \in 1..(i - 1) : s[j] \in F) =>
               \A n \in Nums(RemoveAt(s, i), F) : s[i].number < n
<1> DEFINE t == RemoveAt(s, i)
<1>1. /\ s[i] \in T /\ Len(s) \in Nat /\ DOMAIN s = 1..Len(s) /\ i \in Nat
  OBVIOUS
<1>2. /\ t \in Seq(T) /\ DOMAIN t = 1..(Len(s) - 1)
      /\ \A j \in 1..(Len(s) - 1) : t[j] = IF j < i THEN s[j] ELSE s[j + 1]
  BY <1>1, RemoveAtIs
<1> HIDE DEF t
<1>3. \A j \in DOMAIN t : \E k \in DOMAIN s : t[j] = s[k] /\ k # i /\ (j < i => k = j) /\ (~(j < i) => k = j + 1)
  <2> SUFFICES ASSUME NEW j \in DOMAIN t
               PROVE  \E k \in DOMAIN s : t[j] = s[k] /\ k # i /\ (j < i => k = j) /\ (~(j < i) => k = j + 1)
    OBVIOUS
  <2>1. CASE j < i
    BY <1>1, <1>2, <2>1
  <2>2. CASE ~(j < i)
    <3>1. j + 1 \in DOMAIN s /\ j + 1 # i
      BY <1>1, <1>2, <2>2
    <3> QED BY <1>2, <2>2, <3>1
  <2> QED BY <2>1, <2>2
<1>4. \A k \in DOMAIN s : k = i \/ \E j \in DOMAIN t : t[j] = s[k]
  <2> SUFFICES ASSUME NEW k \in DOMAIN s, k # i PROVE \E j \in DOMAIN t : t[j] = s[k]
    OBVIOUS
  <2>1. CASE k < i
    <3>1. k \in DOMAIN t
      BY <1>1, <1>2, <2>1
    <3> QED BY <1>2, <2>1, <3>1
  <2>2. CASE k > i
    <3>1. k - 1 \in DOMAIN t /\ ~(k - 1 < i) /\ (k - 1) + 1 = k
      BY <1>1, <1>2, <2>2
    <3>2. t[k - 1] = s[k]
      BY <1>2, <3>1
    <3> QED BY <3>1, <3>2
  <2> QED BY <1>1, <2>1, <2>2
<1>5. Range(t) \subseteq Range(s) /\ Range(s) \subseteq Range(t) \cup {s[i]}
  BY <1>3, <1>4 DEF Range
<1>6. (s[i] \in F => s[i].number \in Nums(s, F)) /\ Nums(t, F) \subseteq Nums(s, F)
  BY <1>3 DEF Nums
<1>7. ASSUME Rising(s, F) PROVE Rising(t, F)
  <2> SUFFICES ASSUME NEW j \in DOMAIN t, NEW k \in DOMAIN t, j < k, t[j] \in F, t[k] \in F
               PROVE  t[j].number < t[k].number
    BY DEF Rising
  <2>1. PICK a \in DOMAIN s : t[j] = s[a] /\ (j < i => a = j) /\ (~(j < i) => a = j + 1)
    BY <1>3
  <2>2. PICK b \in DOMAIN s : t[k] = s[b] /\ (k < i => b = k) /\ (~(k < i) => b = k + 1)
    BY <1>3
  <2>3. a < b
    BY <1>1, <1>2, <2>1, <2>2
  <2> QED BY <1>7, <2>1, <2>2, <2>3 DEF Rising
<1>8. ASSUME Rising(s, F), s[i] \in F, ~\E j \in 1..(i - 1) : s[j] \in F, NEW n \in Nums(t, F)
      PROVE  s[i].number < n
  <2>1. PICK j \in DOMAIN t : t[j] \in F /\ n = t[j].number
    BY DEF Nums
  <2>2. PICK k \in DOMAIN s : t[j] = s[k] /\ k # i
    BY <1>3
  <2>3. ~(k \in 1..(i - 1))
    BY <1>8, <2>1, <2>2
  <2>4. i < k
    BY <1>1, <2>2, <2>3
  <2> QED BY <1>8, <2>1, <2>2, <2>4 DEF Rising
<1> QED BY <1>1, <1>2, <1>5, <1>6, <1>7, <1>8 DEF t

----------------------------------------------------------------------------
(* The transport: types *)

UpType == [type : {"join"}] \cup [type : {"relay"}, number : Nat]
DownType ==
  [type : {"joined"}, peers : SUBSET Peer] \cup [type : {"peer-joined", "peer-left"}, peer : Peer]
  \cup [type : {"error"}, fatal : BOOLEAN] \cup [type : {"relay"}, from : Peer, number : Nat]
FrameType == [to : Peer, from : Peer, number : Nat]
StateType == {"idle", "connecting", "connected", "reconnecting", "disconnected", "closed"}

ConnTypes ==
  /\ socket \in [Peer -> {"none", "opening", "open"}]
  /\ timers \subseteq Peer /\ disposed \subseteq Peer
  /\ state \in [Peer -> StateType]
  /\ peers \in [Peer -> SUBSET Peer]
QueueTypes ==
  /\ up \in [Peer -> Seq(UpType)] /\ down \in [Peer -> Seq(DownType)]
  /\ arriving \in [Peer -> Seq(FrameType)]
  /\ \A p \in Peer : \A i \in DOMAIN arriving[p] : arriving[p][i].to = p
FrameTypes ==
  /\ counter \in [Peer -> Nat]
  /\ encrypting \subseteq [from : Peer, number : Nat]
  /\ last \in [Peer -> [Peer -> Nat]]
  /\ decrypting \subseteq FrameType /\ got \subseteq FrameType
  /\ seat \in [Peer -> {"free", "live", "ghost"}]
  /\ owed \subseteq FrameType
PeerTypeOK == ConnTypes /\ QueueTypes /\ FrameTypes

LEMMA TellIs ==
  ASSUME down \in [Peer -> Seq(DownType)], NEW ps, NEW msg \in DownType, Tell(ps, msg)
  PROVE  /\ down' \in [Peer -> Seq(DownType)]
         /\ \A q \in Peer : down'[q] = IF q \in ps THEN Append(down[q], msg) ELSE down[q]
<1>1. \A q \in Peer : Append(down[q], msg) \in Seq(DownType)
  BY AppendIs
<1> QED BY <1>1 DEF Tell

\* The messages a peer has, and what the relay makes of the first of them.
LEMMA HandlesIs ==
  ASSUME QueueTypes, NEW p \in Peer, RelayHandles(p)
  PROVE  /\ up[p] # <<>> /\ Head(up[p]) \in UpType
         /\ up' \in [Peer -> Seq(UpType)] /\ up'[p] = Tail(up[p])
         /\ \A q \in Peer \ {p} : up'[q] = up[q]
<1>1. up[p] # <<>> /\ up[p] \in Seq(UpType) /\ up' = [up EXCEPT ![p] = Tail(@)]
  BY DEF RelayHandles, QueueTypes
<1>2. Head(up[p]) \in UpType /\ Tail(up[p]) \in Seq(UpType)
  BY <1>1, TailIs
<1> QED BY <1>1, <1>2 DEF QueueTypes

LEMMA SignalIs ==
  ASSUME QueueTypes, NEW p \in Peer, HandleSignalingMessage(p)
  PROVE  /\ down[p] # <<>> /\ Head(down[p]) \in DownType
         /\ down' \in [Peer -> Seq(DownType)] /\ down'[p] = Tail(down[p])
         /\ \A q \in Peer \ {p} : down'[q] = down[q]
<1>1. down[p] # <<>> /\ down[p] \in Seq(DownType) /\ down' = [down EXCEPT ![p] = Tail(@)]
  BY DEF HandleSignalingMessage, QueueTypes
<1>2. Head(down[p]) \in DownType /\ Tail(down[p]) \in Seq(DownType)
  BY <1>1, TailIs
<1> QED BY <1>1, <1>2 DEF QueueTypes

LEMMA RelayMessages ==
  /\ \A ps \in SUBSET Peer : [type |-> "joined", peers |-> ps] \in DownType
  /\ \A q \in Peer : /\ [type |-> "peer-joined", peer |-> q] \in DownType
                     /\ [type |-> "peer-left", peer |-> q] \in DownType
  /\ \A b \in BOOLEAN : [type |-> "error", fatal |-> b] \in DownType
  /\ \A q \in Peer, n \in Nat : [type |-> "relay", from |-> q, number |-> n] \in DownType
BY DEF DownType

LEMMA JoinTypes ==
  ASSUME QueueTypes, FrameTypes, NEW p \in Peer, RelayJoin(p)
  PROVE  down' \in [Peer -> Seq(DownType)] /\ seat' \in [Peer -> {"free", "live", "ghost"}]
<1>1. RoomOfRelay \in SUBSET Peer /\ down \in [Peer -> Seq(DownType)]
  BY DEF RoomOfRelay, QueueTypes
<1>2. CASE /\ seat' = [seat EXCEPT ![p] = "live"]
           /\ down' = [q \in Peer |-> IF q = p THEN Append(down[q], [type |-> "joined", peers |-> RoomOfRelay])
                                      ELSE IF q \in Reached THEN Append(down[q], [type |-> "peer-joined", peer |-> p])
                                      ELSE down[q]]
  <2>1. \A q \in Peer : /\ Append(down[q], [type |-> "joined", peers |-> RoomOfRelay]) \in Seq(DownType)
                        /\ Append(down[q], [type |-> "peer-joined", peer |-> p]) \in Seq(DownType)
    BY <1>1, RelayMessages, AppendIs
  <2> QED BY <1>1, <1>2, <2>1 DEF FrameTypes
<1>3. ASSUME NEW b \in BOOLEAN, Tell({p}, [type |-> "error", fatal |-> b]), UNCHANGED seat
      PROVE  down' \in [Peer -> Seq(DownType)] /\ seat' \in [Peer -> {"free", "live", "ghost"}]
  BY <1>1, <1>3, RelayMessages, TellIs DEF FrameTypes
<1> QED BY <1>2, <1>3 DEF RelayJoin

LEMMA ConnTypesStep == ConnTypes /\ QueueTypes /\ [PeerNext]_peerVars => ConnTypes'
<1> SUFFICES ASSUME ConnTypes, QueueTypes, [PeerNext]_peerVars PROVE ConnTypes'
  OBVIOUS
<1> USE DEF ConnTypes
<1>1. CASE UNCHANGED <<connVars, peers>>
  BY <1>1 DEF connVars
<1>2. ASSUME NEW p \in Peer, Connect(p) PROVE ConnTypes'
  BY <1>2 DEF Connect, ConnectWebSocket, StateType
<1>3. ASSUME NEW p \in Peer, ReconnectTimer(p) PROVE ConnTypes'
  BY <1>3 DEF ReconnectTimer, ConnectWebSocket
<1>4. ASSUME NEW p \in Peer, Opened(p) PROVE ConnTypes'
  BY <1>4 DEF Opened
<1>5. ASSUME NEW p \in Peer, NEW seats, Closed(p, seats) PROVE ConnTypes'
  <2>1. state' \in [Peer -> StateType]
    BY <1>5 DEF Closed, StateType
  <2> QED BY <1>5, <2>1 DEF Closed, ScheduleReconnect
<1>6. ASSUME NEW p \in Peer, StopTransport(p) PROVE ConnTypes'
  BY <1>6 DEF StopTransport, StateType
<1>7. ASSUME NEW p \in Peer, HandleSignalingMessage(p) PROVE ConnTypes'
  <2> DEFINE msg == Head(down[p])
  <2>1. msg \in DownType /\ UNCHANGED <<socket, timers>>
    BY <1>7, SignalIs DEF HandleSignalingMessage
  <2>2. \/ msg.type = "joined" /\ HandleJoined(p, msg.peers)
        \/ msg.type = "peer-joined" /\ HandlePeerJoined(p, msg.peer)
        \/ msg.type = "peer-left" /\ HandlePeerLeft(p, msg.peer)
        \/ msg.type = "error" /\ HandleError(p, msg.fatal)
        \/ msg.type = "relay" /\ HandleFrame(p, msg)
    BY <1>7 DEF HandleSignalingMessage
  <2>3. /\ msg.type = "joined" => msg.peers \in SUBSET Peer
        /\ msg.type = "peer-joined" => msg.peer \in Peer
    BY <2>1 DEF DownType
  <2> HIDE DEF msg
  <2>4. CASE msg.type = "joined" /\ HandleJoined(p, msg.peers)
    BY <2>1, <2>3, <2>4 DEF HandleJoined, StateType
  <2>5. CASE msg.type = "peer-joined" /\ HandlePeerJoined(p, msg.peer)
    BY <2>1, <2>3, <2>5 DEF HandlePeerJoined
  <2>6. CASE msg.type = "peer-left" /\ HandlePeerLeft(p, msg.peer)
    BY <2>1, <2>6 DEF HandlePeerLeft
  <2>7. CASE HandleError(p, msg.fatal)
    BY <2>1, <2>7 DEF HandleError, StateType
  <2>8. CASE HandleFrame(p, msg)
    BY <2>1, <2>8 DEF HandleFrame
  <2> QED BY <2>2, <2>4, <2>5, <2>6, <2>7, <2>8
<1>8. CASE UNCHANGED peerVars
  BY <1>1, <1>8 DEF peerVars, connVars
<1>9. ASSUME NEW p \in Peer, RelayHandles(p) \/ RelayNotices(p) \/ Send(p) PROVE ConnTypes'
  BY <1>1, <1>9 DEF RelayHandles, RelayNotices, Send
<1>10. ASSUME NEW p \in Peer, NEW i \in DOMAIN arriving[p], PrefixKnown(p, i) PROVE ConnTypes'
  BY <1>1, <1>10 DEF PrefixKnown
<1>11. ASSUME NEW f, SendRelay(f) \/ Decrypted(f) PROVE ConnTypes'
  BY <1>1, <1>11 DEF SendRelay, Decrypted
<1>12. ASSUME NEW p \in Peer, Breaks(p) \/ RelayTimeout(p) PROVE ConnTypes'
  BY <1>5, <1>12 DEF Breaks, RelayTimeout
<1> QED BY <1>2, <1>3, <1>4, <1>6, <1>7, <1>8, <1>9, <1>10, <1>11, <1>12 DEF PeerNext

LEMMA QueueTypesStep == PeerTypeOK /\ [PeerNext]_peerVars => QueueTypes'
<1> SUFFICES ASSUME PeerTypeOK, [PeerNext]_peerVars PROVE QueueTypes'
  OBVIOUS
<1> USE DEF PeerTypeOK
<1>0. /\ up \in [Peer -> Seq(UpType)] /\ down \in [Peer -> Seq(DownType)]
      /\ arriving \in [Peer -> Seq(FrameType)]
  BY DEF QueueTypes
<1>1. CASE UNCHANGED <<up, down, arriving>>
  BY <1>1 DEF QueueTypes
<1>2. ASSUME NEW p \in Peer, Opened(p) PROVE QueueTypes'
  <2>1. <<[type |-> "join"]>> \in Seq(UpType)
    <3>1. [type |-> "join"] \in UpType
      BY DEF UpType
    <3> QED BY <3>1, ShortSeq
  <2> QED BY <1>2, <2>1 DEF Opened, QueueTypes, frameVars
<1>3. ASSUME NEW p \in Peer, NEW seats, Closed(p, seats) PROVE QueueTypes'
  <2>1. <<>> \in Seq(UpType) /\ <<>> \in Seq(DownType)
    OBVIOUS
  <2> QED BY <1>3, <2>1 DEF Closed, QueueTypes, frameVars
<1>4. ASSUME NEW p \in Peer, StopTransport(p) PROVE QueueTypes'
  <2>1. <<>> \in Seq(UpType) /\ <<>> \in Seq(DownType)
    OBVIOUS
  <2> QED BY <1>4, <2>1 DEF StopTransport, QueueTypes, frameVars
<1>5. ASSUME NEW p \in Peer, RelayHandles(p) PROVE QueueTypes'
  <2>1. up' \in [Peer -> Seq(UpType)] /\ Head(up[p]) \in UpType /\ UNCHANGED arriving
    BY <1>5, HandlesIs DEF RelayHandles, frameVars
  <2>2. CASE RelayJoin(p)
    BY <2>1, <2>2, JoinTypes DEF QueueTypes
  <2>3. CASE Head(up[p]).type = "relay" /\ RelayFrame(p, Head(up[p]).number)
    <3>1. Head(up[p]).number \in Nat
      BY <2>1, <2>3 DEF UpType
    <3>2. \E ps : \E msg \in DownType : Tell(ps, msg)
      BY <2>3, <3>1, RelayMessages DEF RelayFrame
    <3>3. down' \in [Peer -> Seq(DownType)]
      BY <1>0, <3>2, TellIs
    <3> QED BY <2>1, <3>3 DEF QueueTypes
  <2> QED BY <1>5, <2>2, <2>3 DEF RelayHandles
<1>6. ASSUME NEW p \in Peer, RelayNotices(p) PROVE QueueTypes'
  <2>1. down' \in [Peer -> Seq(DownType)]
    BY <1>0, <1>6, RelayMessages, TellIs DEF RelayNotices
  <2> QED BY <1>6, <2>1 DEF RelayNotices, QueueTypes, frameVars
<1>7. ASSUME NEW p \in Peer, HandleSignalingMessage(p) PROVE QueueTypes'
  <2> DEFINE msg == Head(down[p])
  <2>1. msg \in DownType /\ down' \in [Peer -> Seq(DownType)] /\ UNCHANGED up
    BY <1>7, SignalIs DEF HandleSignalingMessage
  <2>2. \/ UNCHANGED arriving
        \/ msg.type = "relay" /\ HandleFrame(p, msg)
    BY <1>7 DEF HandleSignalingMessage, HandleJoined, HandlePeerJoined, HandlePeerLeft, HandleError
  <2> HIDE DEF msg
  <2>3. CASE msg.type = "relay" /\ HandleFrame(p, msg)
    <3>1. PICK f : f = [to |-> p, from |-> msg.from, number |-> msg.number]
      OBVIOUS
    <3>2. f \in FrameType /\ f.to = p
      BY <2>1, <2>3, <3>1 DEF DownType, FrameType
    <3>3. arriving' = [arriving EXCEPT ![p] = Append(@, f)]
      BY <2>3, <3>1 DEF HandleFrame
    <3>4. /\ Append(arriving[p], f) \in Seq(FrameType)
          /\ DOMAIN Append(arriving[p], f) = 1..(Len(arriving[p]) + 1)
          /\ Append(arriving[p], f)[Len(arriving[p]) + 1] = f
          /\ \A i \in 1..Len(arriving[p]) : Append(arriving[p], f)[i] = arriving[p][i]
          /\ DOMAIN arriving[p] = 1..Len(arriving[p]) /\ Len(arriving[p]) \in Nat
      <4>1. arriving[p] \in Seq(FrameType)
        BY <1>0
      <4> QED BY <3>2, <4>1, AppendIs
    <3>5. \A i \in DOMAIN Append(arriving[p], f) : Append(arriving[p], f)[i].to = p
      <4> SUFFICES ASSUME NEW i \in DOMAIN Append(arriving[p], f) PROVE Append(arriving[p], f)[i].to = p
        OBVIOUS
      <4>1. i \in 1..Len(arriving[p]) \/ i = Len(arriving[p]) + 1
        BY <3>4
      <4> QED BY <3>2, <3>4, <4>1 DEF QueueTypes
    <3>6. arriving' \in [Peer -> Seq(FrameType)]
      BY <1>0, <3>3, <3>4
    <3>7. \A q \in Peer : \A i \in DOMAIN arriving'[q] : arriving'[q][i].to = q
      <4> SUFFICES ASSUME NEW q \in Peer, NEW i \in DOMAIN arriving'[q] PROVE arriving'[q][i].to = q
        OBVIOUS
      <4>1. CASE q = p
        <5>1. arriving'[q] = Append(arriving[p], f)
          BY <1>0, <3>3, <4>1
        <5> QED BY <3>5, <4>1, <5>1
      <4>2. CASE q # p
        <5>1. arriving'[q] = arriving[q]
          BY <1>0, <3>3, <4>2
        <5> QED BY <5>1 DEF QueueTypes
      <4> QED BY <4>1, <4>2
    <3> QED BY <2>1, <3>6, <3>7 DEF QueueTypes
  <2> QED BY <2>1, <2>2, <2>3 DEF QueueTypes
<1>8. ASSUME NEW p \in Peer, NEW i \in DOMAIN arriving[p], PrefixKnown(p, i) PROVE QueueTypes'
  <2>1. arriving' = [arriving EXCEPT ![p] = RemoveAt(@, i)] /\ UNCHANGED <<up, down>>
    BY <1>8 DEF PrefixKnown, atRelay
  <2>2. PICK s \in Seq(FrameType) : s = arriving[p]
    BY <1>0
  <2>3. RemoveAt(s, i) \in Seq(FrameType) /\ Range(RemoveAt(s, i)) \subseteq Range(s)
    BY <2>2, RemoveNums
  <2>4. \A f \in Range(RemoveAt(s, i)) : f.to = p
    <3>1. \A f \in Range(s) : f.to = p
      BY <2>2 DEF QueueTypes, Range
    <3> QED BY <2>3, <3>1
  <2>5. arriving'[p] = RemoveAt(s, i) /\ \A q \in Peer \ {p} : arriving'[q] = arriving[q]
    BY <1>0, <2>1, <2>2
  <2>6. arriving' \in [Peer -> Seq(FrameType)]
    BY <1>0, <2>1, <2>2, <2>3
  <2>7. \A q \in Peer : \A j \in DOMAIN arriving'[q] : arriving'[q][j].to = q
    <3> SUFFICES ASSUME NEW q \in Peer, NEW j \in DOMAIN arriving'[q] PROVE arriving'[q][j].to = q
      OBVIOUS
    <3>1. CASE q = p
      <4>1. PICK t : t = RemoveAt(s, i)
        OBVIOUS
      <4>2. j \in DOMAIN t /\ arriving'[q][j] = t[j]
        BY <2>5, <3>1, <4>1
      <4>3. t[j] \in Range(t)
        BY <4>2 DEF Range
      <4> QED BY <2>4, <3>1, <4>1, <4>2, <4>3
    <3>2. CASE q # p
      <4>1. arriving'[q] = arriving[q]
        BY <2>5, <3>2
      <4> QED BY <4>1 DEF QueueTypes
    <3> QED BY <3>1, <3>2
  <2> QED BY <2>1, <2>6, <2>7 DEF QueueTypes
<1>9. ASSUME NEW f \in encrypting, SendRelay(f) PROVE QueueTypes'
  <2>1. f.from \in Peer /\ f.number \in Nat
    BY DEF FrameTypes
  <2>2. Append(up[f.from], [type |-> "relay", number |-> f.number]) \in Seq(UpType)
    <3>1. [type |-> "relay", number |-> f.number] \in UpType /\ up[f.from] \in Seq(UpType)
      BY <1>0, <2>1 DEF UpType
    <3> QED BY <3>1, AppendIs
  <2>3. up' \in [Peer -> Seq(UpType)]
    BY <1>0, <1>9, <2>1, <2>2 DEF SendRelay
  <2> QED BY <1>9, <2>3 DEF SendRelay, QueueTypes
<1>10. CASE UNCHANGED peerVars
  BY <1>1, <1>10 DEF peerVars
<1>11. ASSUME NEW p \in Peer, Connect(p) \/ ReconnectTimer(p) \/ Send(p) PROVE QueueTypes'
  BY <1>1, <1>11 DEF Connect, ReconnectTimer, Send, frameVars, atRelay
<1>12. ASSUME NEW f, Decrypted(f) PROVE QueueTypes'
  BY <1>1, <1>12 DEF Decrypted, atRelay
<1>13. ASSUME NEW p \in Peer, Breaks(p) \/ RelayTimeout(p) PROVE QueueTypes'
  BY <1>3, <1>13 DEF Breaks, RelayTimeout
<1> QED BY <1>2, <1>4, <1>5, <1>6, <1>7, <1>8, <1>9, <1>10, <1>11, <1>12, <1>13 DEF PeerNext

LEMMA FrameTypesStep == PeerTypeOK /\ [PeerNext]_peerVars => FrameTypes'
<1> SUFFICES ASSUME PeerTypeOK, [PeerNext]_peerVars PROVE FrameTypes'
  OBVIOUS
<1> USE DEF PeerTypeOK, FrameTypes
<1>1. CASE UNCHANGED <<counter, encrypting, last, decrypting, got, seat, owed>>
  BY <1>1
<1>2. ASSUME NEW p \in Peer, NEW seats \in [Peer -> {"free", "live", "ghost"}], Closed(p, seats)
      PROVE FrameTypes'
  BY <1>2 DEF Closed, frameVars
<1>3. ASSUME NEW p \in Peer, Breaks(p) \/ RelayTimeout(p) PROVE FrameTypes'
  BY <1>2, <1>3 DEF Breaks, RelayTimeout
<1>4. ASSUME NEW p \in Peer, StopTransport(p) PROVE FrameTypes'
  BY <1>4 DEF StopTransport, frameVars
<1>5. ASSUME NEW p \in Peer, RelayHandles(p) PROVE FrameTypes'
  <2>1. Head(up[p]) \in UpType /\ UNCHANGED frameVars
    BY <1>5, HandlesIs DEF RelayHandles
  <2>2. CASE RelayJoin(p) /\ UNCHANGED owed
    BY <2>1, <2>2, JoinTypes DEF frameVars
  <2>3. CASE Head(up[p]).type = "relay" /\ RelayFrame(p, Head(up[p]).number)
    <3>1. Head(up[p]).number \in Nat
      BY <2>1, <2>3 DEF UpType
    <3>2. PICK n \in Nat : n = Head(up[p]).number
      BY <3>1
    <3>3. owed' \subseteq owed \cup {[to |-> q, from |-> p, number |-> n] : q \in Reached \ {p}}
          /\ UNCHANGED seat
      BY <2>3, <3>2 DEF RelayFrame
    <3>4. owed' \subseteq FrameType
      BY <3>3 DEF FrameType, Reached
    <3> QED BY <2>1, <3>3, <3>4 DEF frameVars
  <2> QED BY <1>5, <2>2, <2>3 DEF RelayHandles
<1>6. ASSUME NEW p \in Peer, RelayNotices(p) PROVE FrameTypes'
  BY <1>6 DEF RelayNotices, frameVars, pastVars
<1>7. ASSUME NEW p \in Peer, Send(p) PROVE FrameTypes'
  <2>1. counter' = [counter EXCEPT ![p] = @ + 1]
    BY <1>7 DEF Send
  <2>2. counter' \in [Peer -> Nat]
    BY <2>1
  <2>3. [from |-> p, number |-> counter'[p]] \in [from : Peer, number : Nat]
    BY <2>2
  <2> QED BY <1>7, <2>2, <2>3 DEF Send, atRelay, pastVars
<1>8. ASSUME NEW p \in Peer, NEW i \in DOMAIN arriving[p], PrefixKnown(p, i) PROVE FrameTypes'
  <2>1. arriving[p][i] \in FrameType
    BY DEF QueueTypes
  <2>2. PICK f \in FrameType : f = arriving[p][i]
    BY <2>1
  <2>3. /\ \/ /\ last' = [last EXCEPT ![p][f.from] = f.number]
              /\ decrypting' = decrypting \cup {f}
           \/ UNCHANGED <<last, decrypting>>
        /\ UNCHANGED <<counter, encrypting, got, seat, owed>>
    BY <1>8, <2>2 DEF PrefixKnown, atRelay
  <2>4. f.from \in Peer /\ f.number \in Nat
    BY DEF FrameType
  <2>5. last' \in [Peer -> [Peer -> Nat]]
    BY <2>3, <2>4
  <2> QED BY <2>3, <2>5
<1>9. ASSUME NEW f \in encrypting, SendRelay(f) PROVE FrameTypes'
  BY <1>9 DEF SendRelay
<1>10. ASSUME NEW f \in decrypting, Decrypted(f) PROVE FrameTypes'
  BY <1>10 DEF Decrypted, atRelay, pastVars
<1>11. CASE UNCHANGED peerVars
  BY <1>1, <1>11 DEF peerVars
<1>12. ASSUME NEW p \in Peer, Connect(p) \/ ReconnectTimer(p) \/ Opened(p) PROVE FrameTypes'
  BY <1>1, <1>12 DEF Connect, ReconnectTimer, Opened, frameVars, atRelay, pastVars
<1>13. ASSUME NEW p \in Peer, HandleSignalingMessage(p) PROVE FrameTypes'
  BY <1>1, <1>13 DEF HandleSignalingMessage, pastVars
<1> QED BY <1>3, <1>4, <1>5, <1>6, <1>7, <1>8, <1>9, <1>10, <1>11, <1>12, <1>13 DEF PeerNext

LEMMA PeerTypesStep == PeerTypeOK /\ [PeerNext]_peerVars => PeerTypeOK'
BY ConnTypesStep, QueueTypesStep, FrameTypesStep DEF PeerTypeOK

LEMMA PeerTypesInit == PeerInit => PeerTypeOK
BY DEF PeerInit, PeerTypeOK, ConnTypes, QueueTypes, FrameTypes, StateType

----------------------------------------------------------------------------
(* The transport: reconnecting *)

WillJoin(q) == \E i \in DOMAIN q : q[i].type = "joined"

\* What the socket, the timer, the seat and the queues of a peer have to do
\* with each other.
SocketAgrees(p) ==
  /\ p \in timers => socket[p] = "none"
  /\ state[p] \in {"idle", "closed"} => socket[p] = "none" /\ p \notin timers
  /\ seat[p] = "live" \/ up[p] # <<>> \/ down[p] # <<>> => socket[p] = "open"
  /\ p \notin disposed /\ state[p] # "idle" => p \in timers \/ socket[p] # "none"
  /\ p \notin disposed /\ seat[p] = "live" => state[p] = "connected" \/ WillJoin(down[p])
SocketsAgree == \A p \in Peer : SocketAgrees(p)

LEMMA WillJoinIs ==
  /\ ~WillJoin(<<>>)
  /\ \A s \in Seq(DownType) : \A m \in DownType :
       (WillJoin(s) \/ m.type = "joined") => WillJoin(Append(s, m))
  /\ \A s \in Seq(DownType) : s # <<>> /\ WillJoin(s) => Head(s).type = "joined" \/ WillJoin(Tail(s))
<1>1. ~WillJoin(<<>>)
  BY DEF WillJoin
<1>2. ASSUME NEW s \in Seq(DownType), NEW m \in DownType, WillJoin(s) \/ m.type = "joined"
      PROVE  WillJoin(Append(s, m))
  <2>1. Range(Append(s, m)) = Range(s) \cup {m}
    BY AppendNums
  <2>2. \E x \in Range(s) \cup {m} : x.type = "joined"
    BY <1>2 DEF WillJoin, Range
  <2>3. \E x \in Range(Append(s, m)) : x.type = "joined"
    BY <2>1, <2>2
  <2> QED BY <2>3 DEF WillJoin, Range
<1>3. ASSUME NEW s \in Seq(DownType), s # <<>>, WillJoin(s)
      PROVE  Head(s).type = "joined" \/ WillJoin(Tail(s))
  <2>1. Range(s) = Range(Tail(s)) \cup {Head(s)}
    BY <1>3, TailNums
  <2>2. \E x \in Range(s) : x.type = "joined"
    BY <1>3 DEF WillJoin, Range
  <2>3. \E x \in Range(Tail(s)) \cup {Head(s)} : x.type = "joined"
    BY <2>1, <2>2
  <2> QED BY <2>3 DEF WillJoin, Range
<1> QED BY <1>1, <1>2, <1>3

\* A peer whose own variables stay, with at most another message for it.
SameConn(q) ==
  /\ socket'[q] = socket[q] /\ state'[q] = state[q] /\ seat'[q] = seat[q]
  /\ (q \in timers' <=> q \in timers) /\ (q \in disposed' <=> q \in disposed)
OneMore(q) ==
  \/ down'[q] = down[q]
  \/ socket[q] = "open" /\ \E m \in DownType : down'[q] = Append(down[q], m)

LEMMA SameAgrees ==
  ASSUME QueueTypes, NEW q \in Peer, SocketAgrees(q), SameConn(q), OneMore(q),
         up'[q] = up[q] \/ socket[q] = "open"
  PROVE  SocketAgrees(q)'
<1>1. down[q] \in Seq(DownType)
  BY DEF QueueTypes
<1>2. WillJoin(down[q]) => WillJoin(down'[q])
  BY <1>1, WillJoinIs DEF OneMore
<1> QED BY <1>2 DEF SocketAgrees, SameConn, OneMore

LEMMA TellMore ==
  ASSUME QueueTypes, SocketsAgree, NEW ps, NEW msg \in DownType, Tell(ps, msg),
         \A q \in Peer : q \in ps => seat[q] = "live" \/ up[q] # <<>>
  PROVE  \A q \in Peer : OneMore(q)
<1>1. \A q \in Peer : down'[q] = IF q \in ps THEN Append(down[q], msg) ELSE down[q]
  BY TellIs DEF QueueTypes
<1> QED BY <1>1 DEF OneMore, SocketsAgree, SocketAgrees

LEMMA ClosedAgrees ==
  ASSUME PeerTypeOK, SocketsAgree, NEW p \in Peer, NEW seats, Closed(p, seats), socket[p] # "none",
         seats[p] # "live", \A q \in Peer \ {p} : seats[q] = seat[q]
  PROVE  SocketsAgree'
<1> USE DEF PeerTypeOK, ConnTypes, QueueTypes, SocketsAgree
<1>1. /\ socket'[p] = "none" /\ up'[p] = <<>> /\ down'[p] = <<>> /\ seat'[p] # "live"
      /\ state'[p] = "reconnecting" \/ state'[p] = state[p]
      /\ disposed' = disposed /\ (p \notin disposed => p \in timers')
      /\ p \in disposed => timers' = timers
  BY DEF Closed, ScheduleReconnect
<1>2. state[p] \notin {"idle", "closed"}
  BY DEF SocketAgrees
<1>3. SocketAgrees(p)'
  BY <1>1, <1>2 DEF SocketAgrees
<1>4. ASSUME NEW q \in Peer, q # p PROVE SocketAgrees(q)'
  <2>1. SameConn(q) /\ down'[q] = down[q] /\ up'[q] = up[q]
    BY <1>4 DEF Closed, ScheduleReconnect, SameConn
  <2> QED BY <2>1, SameAgrees DEF OneMore
<1> QED BY <1>3, <1>4

LEMMA SocketsStep == PeerTypeOK /\ SocketsAgree /\ [PeerNext]_peerVars => SocketsAgree'
<1> SUFFICES ASSUME PeerTypeOK, SocketsAgree, [PeerNext]_peerVars PROVE SocketsAgree'
  OBVIOUS
<1> USE DEF PeerTypeOK
<1>0. /\ ConnTypes /\ QueueTypes /\ down \in [Peer -> Seq(DownType)] /\ up \in [Peer -> Seq(UpType)]
      /\ seat \in [Peer -> {"free", "live", "ghost"}]
      /\ \A q \in Peer : SocketAgrees(q)
  BY DEF QueueTypes, SocketsAgree, FrameTypes
<1>1. ASSUME \A q \in Peer : SameConn(q) /\ OneMore(q) /\ (up'[q] = up[q] \/ socket[q] = "open")
      PROVE  SocketsAgree'
  BY <1>0, <1>1, SameAgrees DEF SocketsAgree
<1>2. CASE UNCHANGED <<connVars, up, down, seat>>
  BY <1>1, <1>2 DEF connVars, SameConn, OneMore
<1>3. ASSUME NEW p \in Peer, Connect(p) PROVE SocketsAgree'
  <2>1. /\ socket'[p] = "opening" /\ state'[p] = "connecting" /\ state[p] = "idle"
        /\ \A q \in Peer \ {p} : socket'[q] = socket[q] /\ state'[q] = state[q]
        /\ UNCHANGED <<timers, disposed, up, down, seat>>
    BY <1>3 DEF Connect, ConnectWebSocket, ConnTypes, atRelay
  <2>2. SocketAgrees(p)'
    BY <1>0, <2>1 DEF SocketAgrees
  <2>3. \A q \in Peer \ {p} : SocketAgrees(q)'
    BY <1>0, <2>1 DEF SocketAgrees
  <2> QED BY <2>2, <2>3 DEF SocketsAgree
<1>4. ASSUME NEW p \in Peer, ReconnectTimer(p) PROVE SocketsAgree'
  <2>1. /\ socket'[p] = "opening" /\ p \in timers /\ timers' = timers \ {p}
        /\ \A q \in Peer \ {p} : socket'[q] = socket[q]
        /\ UNCHANGED <<state, disposed, up, down, seat>>
    BY <1>4 DEF ReconnectTimer, ConnectWebSocket, ConnTypes, atRelay
  <2>2. SocketAgrees(p)'
    BY <1>0, <2>1 DEF SocketAgrees
  <2>3. \A q \in Peer \ {p} : SocketAgrees(q)'
    BY <1>0, <2>1 DEF SocketAgrees
  <2> QED BY <2>2, <2>3 DEF SocketsAgree
<1>5. ASSUME NEW p \in Peer, Opened(p) PROVE SocketsAgree'
  <2>1. /\ socket'[p] = "open" /\ socket[p] = "opening"
        /\ \A q \in Peer \ {p} : socket'[q] = socket[q] /\ up'[q] = up[q]
        /\ UNCHANGED <<state, timers, disposed, down, seat>>
    BY <1>0, <1>5 DEF Opened, ConnTypes
  <2>2. SocketAgrees(p)'
    BY <1>0, <2>1 DEF SocketAgrees
  <2>3. \A q \in Peer \ {p} : SocketAgrees(q)'
    BY <1>0, <2>1 DEF SocketAgrees
  <2> QED BY <2>2, <2>3 DEF SocketsAgree
<1>6. ASSUME NEW p \in Peer, Breaks(p) \/ RelayTimeout(p) PROVE SocketsAgree'
  <2>1. CASE Breaks(p)
    <3>1. PICK seats : seats = [seat EXCEPT ![p] = IF @ = "live" THEN "ghost" ELSE @]
      OBVIOUS
    <3>2. Closed(p, seats) /\ socket[p] # "none"
      BY <2>1, <3>1 DEF Breaks
    <3>3. seats[p] # "live" /\ \A q \in Peer \ {p} : seats[q] = seat[q]
      BY <1>0, <3>1
    <3> QED BY <3>2, <3>3, ClosedAgrees
  <2>2. CASE RelayTimeout(p)
    <3>1. Closed(p, seat) /\ socket[p] = "open" /\ seat[p] # "live"
      BY <2>2 DEF RelayTimeout
    <3> QED BY <3>1, ClosedAgrees
  <2> QED BY <1>6, <2>1, <2>2
<1>7. ASSUME NEW p \in Peer, StopTransport(p) PROVE SocketsAgree'
  <2>1. /\ socket'[p] = "none" /\ state'[p] = "closed" /\ p \in disposed' /\ p \notin timers'
        /\ up'[p] = <<>> /\ down'[p] = <<>> /\ seat'[p] # "live"
        /\ \A q \in Peer \ {p} : /\ socket'[q] = socket[q] /\ state'[q] = state[q]
                                 /\ (q \in disposed' <=> q \in disposed)
                                 /\ (q \in timers' <=> q \in timers)
                                 /\ up'[q] = up[q] /\ down'[q] = down[q] /\ seat'[q] = seat[q]
    BY <1>0, <1>7 DEF StopTransport, ConnTypes
  <2>2. SocketAgrees(p)'
    BY <2>1 DEF SocketAgrees
  <2>3. \A q \in Peer \ {p} : SocketAgrees(q)'
    <3> SUFFICES ASSUME NEW q \in Peer \ {p} PROVE SocketAgrees(q)'
      OBVIOUS
    <3>1. /\ socket'[q] = socket[q] /\ state'[q] = state[q]
          /\ (q \in disposed' <=> q \in disposed) /\ (q \in timers' <=> q \in timers)
          /\ up'[q] = up[q] /\ down'[q] = down[q] /\ seat'[q] = seat[q]
      BY <2>1
    <3>2. SocketAgrees(q)
      BY <1>0
    <3>3. WillJoin(down'[q]) <=> WillJoin(down[q])
      BY <3>1
    <3> QED BY <3>1, <3>2, <3>3 DEF SocketAgrees
  <2> QED BY <2>2, <2>3 DEF SocketsAgree
<1>8. ASSUME NEW p \in Peer, RelayHandles(p) PROVE SocketsAgree'
  <2>1. /\ UNCHANGED connVars /\ socket[p] = "open"
        /\ \A q \in Peer \ {p} : up'[q] = up[q]
    BY <1>0, <1>8, HandlesIs DEF RelayHandles, SocketAgrees
  <2>2. ASSUME NEW ps, NEW msg \in DownType, Tell(ps, msg), UNCHANGED seat,
               \A q \in Peer : q \in ps => q = p \/ seat[q] = "live"
        PROVE  SocketsAgree'
    <3>1. \A q \in Peer : q \in ps => seat[q] = "live" \/ up[q] # <<>>
      BY <1>0, <1>8, <2>2, HandlesIs
    <3>2. \A q \in Peer : OneMore(q)
      BY <1>0, <2>2, <3>1, TellMore
    <3>3. \A q \in Peer : SameConn(q)
      BY <2>1, <2>2 DEF SameConn, connVars
    <3> QED BY <1>1, <2>1, <3>2, <3>3
  <2>3. CASE RelayFrame(p, Head(up[p]).number) /\ Head(up[p]).type = "relay"
    <3>1. Head(up[p]).number \in Nat
      BY <1>0, <1>8, <2>3, HandlesIs DEF UpType
    <3>2. UNCHANGED seat
          /\ \E msg \in DownType : Tell(Reached \ {p}, msg) \/ Tell({p}, msg)
      BY <2>3, <3>1, RelayMessages DEF RelayFrame
    <3>3. \A q \in Peer : q \in Reached \ {p} => seat[q] = "live"
      BY DEF Reached
    <3> QED BY <2>2, <3>2, <3>3
  <2>4. CASE UNCHANGED seat /\ \E b \in BOOLEAN : Tell({p}, [type |-> "error", fatal |-> b])
    BY <2>2, <2>4, RelayMessages
  <2>5. CASE /\ seat[p] = "free"
             /\ seat' = [seat EXCEPT ![p] = "live"]
             /\ down' = [q \in Peer |-> IF q = p THEN Append(down[q], [type |-> "joined", peers |-> RoomOfRelay])
                                        ELSE IF q \in Reached THEN Append(down[q], [type |-> "peer-joined", peer |-> p])
                                        ELSE down[q]]
    <3>1. PICK m : m = [type |-> "joined", peers |-> RoomOfRelay]
      OBVIOUS
    <3>2. m \in DownType /\ m.type = "joined"
      BY <3>1, RelayMessages DEF RoomOfRelay
    <3>3. /\ seat'[p] = "live" /\ down'[p] = Append(down[p], m)
          /\ \A q \in Peer \ {p} : seat'[q] = seat[q] /\ OneMore(q)
      BY <1>0, <2>5, <3>1, RelayMessages DEF OneMore, Reached, SocketAgrees
    <3>4. WillJoin(down'[p])
      BY <1>0, <3>2, <3>3, WillJoinIs
    <3>5. SocketAgrees(p)'
      BY <1>0, <2>1, <3>3, <3>4 DEF SocketAgrees, connVars
    <3>6. \A q \in Peer \ {p} : SocketAgrees(q)'
      <4>1. \A q \in Peer \ {p} : SameConn(q)
        BY <2>1, <3>3 DEF SameConn, connVars
      <4> QED BY <1>0, <2>1, <3>3, <4>1, SameAgrees
    <3> QED BY <3>5, <3>6 DEF SocketsAgree
  <2> QED BY <1>8, <2>3, <2>4, <2>5 DEF RelayHandles, RelayJoin
<1>9. ASSUME NEW p \in Peer, RelayNotices(p) PROVE SocketsAgree'
  <2>1. /\ seat[p] = "ghost" /\ seat' = [seat EXCEPT ![p] = "free"] /\ UNCHANGED <<connVars, up>>
        /\ Tell(Reached, [type |-> "peer-left", peer |-> p])
    BY <1>9 DEF RelayNotices
  <2>2. \A q \in Peer : OneMore(q)
    <3>1. \A q \in Peer : q \in Reached => seat[q] = "live"
      BY DEF Reached
    <3> QED BY <1>0, <2>1, <3>1, TellMore, RelayMessages
  <2>3. \A q \in Peer \ {p} : SameConn(q)
    BY <1>0, <2>1 DEF SameConn, connVars
  <2>4. SocketAgrees(p)'
    <3>1. down'[p] = down[p]
      <4>1. p \notin Reached
        BY <2>1 DEF Reached
      <4>2. PICK m \in DownType : m = [type |-> "peer-left", peer |-> p]
        BY RelayMessages
      <4> QED BY <1>0, <2>1, <4>1, <4>2, TellIs
    <3>2. seat'[p] = "free"
      BY <1>0, <2>1
    <3> QED BY <1>0, <2>1, <3>1, <3>2 DEF SocketAgrees, connVars
  <2>5. \A q \in Peer \ {p} : SocketAgrees(q)'
    BY <1>0, <2>1, <2>2, <2>3, SameAgrees
  <2> QED BY <2>4, <2>5 DEF SocketsAgree
<1>10. ASSUME NEW p \in Peer, HandleSignalingMessage(p) PROVE SocketsAgree'
  <2> DEFINE msg == Head(down[p])
  <2>1. /\ down[p] # <<>> /\ down'[p] = Tail(down[p]) /\ \A q \in Peer \ {p} : down'[q] = down[q]
        /\ UNCHANGED <<socket, timers, up, seat>>
    BY <1>0, <1>10, SignalIs DEF HandleSignalingMessage
  <2>2. socket[p] = "open" /\ state[p] \notin {"idle", "closed"} /\ p \notin timers
    BY <1>0, <2>1 DEF SocketAgrees
  <2>3. WillJoin(down[p]) => msg.type = "joined" \/ WillJoin(down'[p])
    BY <1>0, <2>1, WillJoinIs
  <2>4. \/ msg.type = "joined" /\ state' = [state EXCEPT ![p] = "connected"] /\ UNCHANGED disposed
        \/ msg.type # "joined" /\ UNCHANGED <<state, disposed>>
        \/ disposed' = disposed \cup {p} /\ state' = [state EXCEPT ![p] = "disconnected"]
    BY <1>10 DEF HandleSignalingMessage, HandleJoined, HandlePeerJoined, HandlePeerLeft, HandleError,
                 HandleFrame
  <2> HIDE DEF msg
  <2>5. /\ \/ msg.type = "joined" /\ state'[p] = "connected" /\ (p \in disposed' <=> p \in disposed)
           \/ msg.type # "joined" /\ state'[p] = state[p] /\ (p \in disposed' <=> p \in disposed)
           \/ p \in disposed' /\ state'[p] = "disconnected"
        /\ \A q \in Peer \ {p} : state'[q] = state[q] /\ (q \in disposed' <=> q \in disposed)
    BY <2>4 DEF ConnTypes
  <2>6. SocketAgrees(p)'
    BY <1>0, <2>1, <2>2, <2>3, <2>5 DEF SocketAgrees
  <2>7. \A q \in Peer \ {p} : SocketAgrees(q)'
    BY <1>0, <2>1, <2>5 DEF SocketAgrees
  <2> QED BY <2>6, <2>7 DEF SocketsAgree
<1>11. ASSUME NEW f \in encrypting, SendRelay(f) PROVE SocketsAgree'
  <2>1. \A q \in Peer : up'[q] = up[q] \/ socket[q] = "open"
    BY <1>0, <1>11 DEF SendRelay, FrameTypes
  <2>2. UNCHANGED <<connVars, down, seat>>
    BY <1>11 DEF SendRelay
  <2> QED BY <1>1, <2>1, <2>2 DEF connVars, SameConn, OneMore
<1>12. ASSUME NEW p \in Peer, Send(p) \/ \E i \in DOMAIN arriving[p] : PrefixKnown(p, i)
       PROVE  SocketsAgree'
  BY <1>2, <1>12 DEF Send, PrefixKnown, atRelay
<1>13. ASSUME NEW f, Decrypted(f) PROVE SocketsAgree'
  BY <1>2, <1>13 DEF Decrypted, atRelay
<1>14. CASE UNCHANGED peerVars
  BY <1>2, <1>14 DEF peerVars, connVars
<1> QED BY <1>3, <1>4, <1>5, <1>6, <1>7, <1>8, <1>9, <1>10, <1>11, <1>12, <1>13, <1>14 DEF PeerNext

LEMMA SocketsInit == PeerInit => SocketsAgree
BY DEF PeerInit, SocketsAgree, SocketAgrees, WillJoin

\* A transport that is not disposed of never ends up outside the room with
\* nothing under way that gets it there, whatever broke in which order.
THEOREM PeersComeBack == PeerSpec => []NeverStuck
<1>1. PeerTypeOK /\ SocketsAgree => NeverStuck
  <2> SUFFICES ASSUME PeerTypeOK, SocketsAgree, NEW p \in Peer \ disposed, state[p] # "idle"
               PROVE  \/ p \in timers \/ socket[p] = "opening"
                      \/ socket[p] = "open" /\ (seat[p] = "live" => state[p] = "connected" \/ down[p] # <<>>)
    BY DEF NeverStuck
  <2>1. WillJoin(down[p]) => down[p] # <<>>
    BY DEF WillJoin
  <2> QED BY <2>1 DEF PeerTypeOK, ConnTypes, SocketsAgree, SocketAgrees
<1> QED BY <1>1, PeerTypesInit, PeerTypesStep, SocketsInit, SocketsStep, PTL DEF PeerSpec

----------------------------------------------------------------------------
(* The transport: the peers it lists *)

Tells(msg, q) ==
  \/ msg.type = "joined" /\ q \in msg.peers
  \/ msg.type = "peer-joined" /\ msg.peer = q
Untells(msg, q) == msg.type = "peer-left" /\ msg.peer = q

\* The last word on q in the queue is that it is there; or there is no word,
\* and it is listed already.
WillList(queue, known, q) ==
  \/ q \in known /\ \A i \in DOMAIN queue : ~Untells(queue[i], q)
  \/ \E i \in DOMAIN queue :
       Tells(queue[i], q) /\ \A j \in DOMAIN queue : j > i => ~Untells(queue[j], q)
MembersTold == \A p, q \in Reached : p # q => WillList(down[p], peers[p], q)

LEMMA WillListAppend ==
  ASSUME NEW s \in Seq(DownType), NEW m \in DownType, NEW known, NEW q,
         \/ Tells(m, q)
         \/ ~Untells(m, q) /\ WillList(s, known, q)
  PROVE  WillList(Append(s, m), known, q)
<1> DEFINE t == Append(s, m)
<1>1. /\ Len(s) \in Nat /\ DOMAIN t = 1..(Len(s) + 1) /\ DOMAIN s = 1..Len(s)
      /\ \A i \in DOMAIN s : t[i] = s[i] /\ i \in DOMAIN t
      /\ t[Len(s) + 1] = m /\ Len(s) + 1 \in DOMAIN t
      /\ \A i \in DOMAIN t : i \in DOMAIN s \/ i = Len(s) + 1
  OBVIOUS
<1> HIDE DEF t
<1>2. CASE Tells(m, q)
  <2>1. \A j \in DOMAIN t : ~(j > Len(s) + 1)
    BY <1>1
  <2> QED BY <1>1, <1>2, <2>1 DEF WillList, t
<1>3. CASE ~Untells(m, q) /\ q \in known /\ \A i \in DOMAIN s : ~Untells(s[i], q)
  <2>1. \A i \in DOMAIN t : ~Untells(t[i], q)
    BY <1>1, <1>3
  <2> QED BY <1>3, <2>1 DEF WillList, t
<1>4. ASSUME ~Untells(m, q), NEW i \in DOMAIN s, Tells(s[i], q),
             \A j \in DOMAIN s : j > i => ~Untells(s[j], q)
      PROVE  WillList(t, known, q)
  <2>1. i \in DOMAIN t /\ Tells(t[i], q)
    BY <1>1, <1>4
  <2>2. \A j \in DOMAIN t : j > i => ~Untells(t[j], q)
    BY <1>1, <1>4
  <2> QED BY <2>1, <2>2 DEF WillList
<1> QED BY <1>2, <1>3, <1>4 DEF WillList, t

LEMMA WillListTail ==
  ASSUME NEW s \in Seq(DownType), s # <<>>, NEW known, NEW more, NEW q, WillList(s, known, q),
         Tells(Head(s), q) => q \in more,
         ~Untells(Head(s), q) /\ q \in known => q \in more
  PROVE  WillList(Tail(s), more, q)
<1> DEFINE t == Tail(s)
<1>1. /\ Len(s) \in Nat \ {0} /\ DOMAIN t = 1..(Len(s) - 1) /\ DOMAIN s = 1..Len(s)
      /\ \A i \in DOMAIN t : t[i] = s[i + 1] /\ i + 1 \in DOMAIN s
      /\ Head(s) = s[1] /\ 1 \in DOMAIN s
  OBVIOUS
<1> HIDE DEF t
<1>2. CASE q \in known /\ \A i \in DOMAIN s : ~Untells(s[i], q)
  <2>1. q \in more /\ \A i \in DOMAIN t : ~Untells(t[i], q)
    BY <1>1, <1>2
  <2> QED BY <2>1 DEF WillList, t
<1>3. ASSUME NEW i \in DOMAIN s, Tells(s[i], q), \A j \in DOMAIN s : j > i => ~Untells(s[j], q)
      PROVE  WillList(t, more, q)
  <2>1. CASE i = 1
    <3>1. q \in more
      BY <1>1, <1>3, <2>1
    <3>2. \A j \in DOMAIN t : ~Untells(t[j], q)
      BY <1>1, <1>3, <2>1
    <3> QED BY <3>1, <3>2 DEF WillList
  <2>2. CASE i # 1
    <3>1. i - 1 \in DOMAIN t /\ t[i - 1] = s[i]
      <4>1. i - 1 \in DOMAIN t /\ (i - 1) + 1 = i
        BY <1>1, <2>2
      <4> QED BY <1>1, <4>1
    <3>2. \A j \in DOMAIN t : j > i - 1 => ~Untells(t[j], q)
      BY <1>1, <1>3
    <3> QED BY <1>3, <3>1, <3>2 DEF WillList
  <2> QED BY <2>1, <2>2
<1> QED BY <1>2, <1>3 DEF WillList, t

\* Fewer peers are reached, and those that stay have the same to read.
LEMMA ToldLess ==
  ASSUME MembersTold, Reached' \subseteq Reached,
         \A p \in Reached' : down'[p] = down[p] /\ peers'[p] = peers[p]
  PROVE  MembersTold'
BY DEF MembersTold

\* Nobody else is reached, and what they are told more is about somebody else.
LEMMA ToldMore ==
  ASSUME QueueTypes, MembersTold, UNCHANGED peers, Reached' = Reached,
         NEW ps, NEW msg \in DownType, Tell(ps, msg),
         \A q \in Reached : ~Untells(msg, q)
  PROVE  MembersTold'
<1>1. \A p \in Peer : down'[p] = IF p \in ps THEN Append(down[p], msg) ELSE down[p]
  BY TellIs DEF QueueTypes
<1> SUFFICES ASSUME NEW p \in Reached, NEW q \in Reached, p # q
             PROVE  WillList(down'[p], peers[p], q)
  BY DEF MembersTold
<1>2. WillList(down[p], peers[p], q) /\ p \in Peer /\ down[p] \in Seq(DownType)
  BY DEF MembersTold, Reached, QueueTypes
<1>3. WillList(Append(down[p], msg), peers[p], q)
  BY <1>2, WillListAppend
<1> QED BY <1>1, <1>2, <1>3

LEMMA ToldStep ==
  PeerTypeOK /\ SocketsAgree /\ MembersTold /\ [PeerNext]_peerVars => MembersTold'
<1> SUFFICES ASSUME PeerTypeOK, SocketsAgree, MembersTold, [PeerNext]_peerVars PROVE MembersTold'
  OBVIOUS
<1>0. /\ ConnTypes /\ QueueTypes /\ down \in [Peer -> Seq(DownType)]
      /\ seat \in [Peer -> {"free", "live", "ghost"}]
  BY DEF PeerTypeOK, QueueTypes, FrameTypes
<1>1. CASE UNCHANGED <<down, seat, peers>>
  <2>1. Reached' = Reached
    BY <1>1 DEF Reached
  <2> QED BY <1>1, <2>1, ToldLess
<1>2. ASSUME NEW p \in Peer, NEW seats, Closed(p, seats), seats[p] # "live",
             \A q \in Peer \ {p} : seats[q] = seat[q]
      PROVE  MembersTold'
  <2>1. seat' = seats /\ UNCHANGED peers /\ \A q \in Peer \ {p} : down'[q] = down[q]
    BY <1>0, <1>2 DEF Closed
  <2>2. Reached' \subseteq Reached \ {p}
    BY <1>2, <2>1 DEF Reached
  <2> QED BY <2>1, <2>2, ToldLess DEF Reached
<1>3. ASSUME NEW p \in Peer, Breaks(p) \/ RelayTimeout(p) PROVE MembersTold'
  <2>1. CASE Breaks(p)
    <3>1. PICK seats : seats = [seat EXCEPT ![p] = IF @ = "live" THEN "ghost" ELSE @]
      OBVIOUS
    <3>2. Closed(p, seats)
      BY <2>1, <3>1 DEF Breaks
    <3>3. seats[p] # "live" /\ \A q \in Peer \ {p} : seats[q] = seat[q]
      BY <1>0, <3>1
    <3> QED BY <1>2, <3>2, <3>3
  <2>2. CASE RelayTimeout(p)
    BY <1>2, <2>2 DEF RelayTimeout
  <2> QED BY <1>3, <2>1, <2>2
<1>4. ASSUME NEW p \in Peer, StopTransport(p) PROVE MembersTold'
  <2>1. /\ seat'[p] # "live"
        /\ \A q \in Peer \ {p} : seat'[q] = seat[q] /\ peers'[q] = peers[q] /\ down'[q] = down[q]
    BY <1>0, <1>4 DEF StopTransport, ConnTypes
  <2>2. Reached' \subseteq Reached \ {p}
    BY <2>1 DEF Reached
  <2> QED BY <2>1, <2>2, ToldLess DEF Reached
<1>5. ASSUME NEW p \in Peer, RelayHandles(p) PROVE MembersTold'
  <2>1. UNCHANGED peers
    BY <1>5 DEF RelayHandles
  <2>2. CASE RelayFrame(p, Head(up[p]).number) /\ Head(up[p]).type = "relay"
    <3>1. Head(up[p]).number \in Nat
      BY <1>0, <1>5, <2>2, HandlesIs DEF UpType
    <3>2. UNCHANGED seat
          /\ \E msg \in DownType : msg.type # "peer-left" /\ (Tell(Reached \ {p}, msg) \/ Tell({p}, msg))
      BY <2>2, <3>1, RelayMessages DEF RelayFrame
    <3>3. Reached' = Reached
      BY <3>2 DEF Reached
    <3> QED BY <1>0, <2>1, <3>2, <3>3, ToldMore DEF Untells
  <2>3. ASSUME UNCHANGED seat, NEW b \in BOOLEAN, Tell({p}, [type |-> "error", fatal |-> b])
        PROVE  MembersTold'
    <3>1. PICK m \in DownType : m = [type |-> "error", fatal |-> b]
      BY RelayMessages
    <3>2. Reached' = Reached /\ m.type # "peer-left"
      BY <2>3, <3>1 DEF Reached
    <3> QED BY <1>0, <2>1, <2>3, <3>1, <3>2, ToldMore DEF Untells
  <2>4. CASE /\ seat[p] = "free"
             /\ seat' = [seat EXCEPT ![p] = "live"]
             /\ down' = [q \in Peer |-> IF q = p THEN Append(down[q], [type |-> "joined", peers |-> RoomOfRelay])
                                        ELSE IF q \in Reached THEN Append(down[q], [type |-> "peer-joined", peer |-> p])
                                        ELSE down[q]]
    <3>1. PICK m \in DownType : m = [type |-> "joined", peers |-> RoomOfRelay]
      BY RelayMessages DEF RoomOfRelay
    <3>2. PICK k \in DownType : k = [type |-> "peer-joined", peer |-> p]
      BY RelayMessages
    <3>3. p \notin Reached /\ Reached' = Reached \cup {p}
      BY <1>0, <2>4 DEF Reached
    <3>4. /\ down'[p] = Append(down[p], m)
          /\ \A r \in Reached : down'[r] = Append(down[r], k)
      BY <2>4, <3>1, <3>2, <3>3 DEF Reached
    <3> SUFFICES ASSUME NEW r \in Reached \cup {p}, NEW q \in Reached \cup {p}, r # q
                 PROVE  WillList(down'[r], peers[r], q)
      BY <2>1, <3>3 DEF MembersTold
    <3>5. CASE r = p
      <4>1. Tells(m, q)
        BY <3>1, <3>5 DEF Tells, RoomOfRelay, Reached
      <4> QED BY <1>0, <3>4, <3>5, <4>1, WillListAppend
    <3>6. CASE q = p
      <4>1. Tells(k, q) /\ r \in Reached /\ r \in Peer
        BY <3>2, <3>6 DEF Tells, Reached
      <4> QED BY <1>0, <3>4, <4>1, WillListAppend
    <3>7. CASE r # p /\ q # p
      <4>1. ~Untells(k, q) /\ WillList(down[r], peers[r], q) /\ r \in Peer /\ r \in Reached
        BY <3>2, <3>7 DEF Untells, MembersTold, Reached
      <4> QED BY <1>0, <3>4, <4>1, WillListAppend
    <3> QED BY <3>5, <3>6, <3>7
  <2> QED BY <1>5, <2>2, <2>3, <2>4 DEF RelayHandles, RelayJoin
<1>6. ASSUME NEW p \in Peer, RelayNotices(p) PROVE MembersTold'
  <2>1. PICK m \in DownType : m = [type |-> "peer-left", peer |-> p]
    BY RelayMessages
  <2>2. Tell(Reached, m) /\ UNCHANGED peers /\ seat[p] = "ghost" /\ seat' = [seat EXCEPT ![p] = "free"]
    BY <1>6, <2>1 DEF RelayNotices
  <2>3. Reached' = Reached /\ p \notin Reached
    BY <1>0, <2>2 DEF Reached
  <2>4. \A q \in Reached : ~Untells(m, q)
    BY <2>1, <2>3 DEF Untells
  <2> QED BY <1>0, <2>2, <2>3, <2>4, ToldMore
<1>7. ASSUME NEW p \in Peer, HandleSignalingMessage(p) PROVE MembersTold'
  <2>1. PICK m : m = Head(down[p])
    OBVIOUS
  <2>2. /\ down[p] # <<>> /\ down'[p] = Tail(down[p]) /\ \A q \in Peer \ {p} : down'[q] = down[q]
        /\ UNCHANGED seat /\ m \in DownType
    BY <1>0, <1>7, <2>1, SignalIs DEF HandleSignalingMessage
  <2>3. \/ m.type = "joined" /\ peers' = [peers EXCEPT ![p] = @ \cup (m.peers \ {p})]
        \/ m.type = "peer-joined" /\ peers' = [peers EXCEPT ![p] = @ \cup ({m.peer} \ {p})]
        \/ m.type = "peer-left" /\ peers' = [peers EXCEPT ![p] = @ \ {m.peer}]
        \/ m.type \in {"error", "relay"} /\ UNCHANGED peers
    BY <1>7, <2>1 DEF HandleSignalingMessage, HandleJoined, HandlePeerJoined, HandlePeerLeft,
                      HandleError, HandleFrame
  <2>4. \A q \in Peer \ {p} : /\ peers'[q] = peers[q]
                              /\ Tells(m, q) => q \in peers'[p]
                              /\ ~Untells(m, q) /\ q \in peers[p] => q \in peers'[p]
    BY <1>0, <2>3 DEF Tells, Untells, ConnTypes
  <2>5. Reached' = Reached
    BY <2>2 DEF Reached
  <2> SUFFICES ASSUME NEW r \in Reached, NEW q \in Reached, r # q
               PROVE  WillList(down'[r], peers'[r], q)
    BY <2>5 DEF MembersTold
  <2>6. WillList(down[r], peers[r], q) /\ r \in Peer /\ q \in Peer
    BY DEF MembersTold, Reached
  <2>7. CASE r = p
    <3>1. down[p] \in Seq(DownType) /\ WillList(down[p], peers[p], q) /\ q \in Peer \ {p}
      BY <1>0, <2>6, <2>7
    <3>2. /\ Tells(Head(down[p]), q) => q \in peers'[p]
          /\ ~Untells(Head(down[p]), q) /\ q \in peers[p] => q \in peers'[p]
      BY <2>1, <2>4, <3>1
    <3>3. WillList(Tail(down[p]), peers'[p], q)
      BY <2>2, <3>1, <3>2, WillListTail
    <3> QED BY <2>2, <2>7, <3>3
  <2>8. CASE r # p
    BY <2>2, <2>4, <2>6, <2>8
  <2> QED BY <2>7, <2>8
<1>8. ASSUME NEW p \in Peer, \/ Connect(p) \/ ReconnectTimer(p) \/ Opened(p) \/ Send(p)
                             \/ \E i \in DOMAIN arriving[p] : PrefixKnown(p, i)
      PROVE  MembersTold'
  BY <1>1, <1>8 DEF Connect, ReconnectTimer, Opened, Send, PrefixKnown, atRelay
<1>9. ASSUME NEW f, SendRelay(f) \/ Decrypted(f) PROVE MembersTold'
  BY <1>1, <1>9 DEF SendRelay, Decrypted, atRelay
<1>10. CASE UNCHANGED peerVars
  BY <1>1, <1>10 DEF peerVars
<1> QED BY <1>3, <1>4, <1>5, <1>6, <1>7, <1>8, <1>9, <1>10 DEF PeerNext

\* A connected peer with nothing on its way to it lists every other member of
\* the room that the relay reaches.
THEOREM PeersAreListed == PeerSpec => []MembersListed
<1>1. PeerInit => MembersTold
  BY DEF PeerInit, MembersTold, Reached
<1>2. MembersTold => MembersListed
  <2> SUFFICES ASSUME MembersTold, NEW p \in Reached, down[p] = <<>>, NEW q \in Reached \ {p}
               PROVE  q \in peers[p]
    BY DEF MembersListed
  <2>1. WillList(<<>>, peers[p], q)
    BY DEF MembersTold
  <2> QED BY <2>1 DEF WillList
<1> QED BY <1>1, <1>2, PeerTypesInit, PeerTypesStep, SocketsInit, SocketsStep, ToldStep, PTL DEF PeerSpec

----------------------------------------------------------------------------
(* The transport: the order of frames *)

DownFrom(p) == {m \in DownType : m.type = "relay" /\ m.from = p}
ArrivingFrom(p) == {f \in FrameType : f.from = p}
UpFrames == {m \in UpType : m.type = "relay"}

\* The numbers of p's frames on their way to q, from the last accepted back to
\* those that p still encrypts.
Arr(q, p) == Nums(arriving[q], ArrivingFrom(p))
Dwn(q, p) == Nums(down[q], DownFrom(p))
Ups(p) == Nums(up[p], UpFrames)
Enc(p) == {f.number : f \in {g \in encrypting : g.from = p}}

Below(A, B) == \A a \in A, b \in B : a < b
Ordered(l, A, D, U, E) ==
  /\ Below({l}, A) /\ Below({l}, D) /\ Below({l}, U) /\ Below({l}, E)
  /\ Below(A, D) /\ Below(A, U) /\ Below(A, E)
  /\ Below(D, U) /\ Below(D, E)
  /\ Below(U, E)
UpTo(c, l, A, D, U, E) == l <= c /\ \A n \in A \cup D \cup U \cup E : n <= c

InOrder(q, p) ==
  /\ Ordered(last[q][p], Arr(q, p), Dwn(q, p), Ups(p), Enc(p))
  /\ Rising(arriving[q], ArrivingFrom(p)) /\ Rising(down[q], DownFrom(p)) /\ Rising(up[p], UpFrames)
Pair(q, p) ==
  /\ UpTo(counter[p], last[q][p], Arr(q, p), Dwn(q, p), Ups(p), Enc(p))
  /\ <<q, p>> \notin overtaken => InOrder(q, p)
FramesInOrder == \A q, p \in Peer : Pair(q, p)

\* A queue that carries no other frames than before, in no other order.
Less(t, s, F) == Nums(t, F) \subseteq Nums(s, F) /\ (Rising(s, F) => Rising(t, F))

LEMMA LessIs ==
  ASSUME NEW T, NEW s \in Seq(T), NEW F
  PROVE  /\ Less(s, s, F) /\ Less(<<>>, s, F)
         /\ s # <<>> => Less(Tail(s), s, F)
         /\ \A x \in T : x \notin F => Less(Append(s, x), s, F)
         /\ \A i \in DOMAIN s : Less(RemoveAt(s, i), s, F)
<1>1. Less(s, s, F) /\ Less(<<>>, s, F)
  BY DEF Less, Nums, Rising
<1>2. s # <<>> => Less(Tail(s), s, F)
  <2> SUFFICES ASSUME s # <<>> PROVE Less(Tail(s), s, F)
    OBVIOUS
  <2>1. /\ Nums(s, F) = Nums(Tail(s), F) \cup (IF Head(s) \in F THEN {Head(s).number} ELSE {})
        /\ Rising(s, F) => Rising(Tail(s), F)
    BY TailNums
  <2> QED BY <2>1 DEF Less
<1>3. ASSUME NEW x \in T, x \notin F PROVE Less(Append(s, x), s, F)
  <2>1. /\ Nums(Append(s, x), F) = Nums(s, F) \cup (IF x \in F THEN {x.number} ELSE {})
        /\ Rising(s, F) /\ (x \in F => \A n \in Nums(s, F) : n < x.number) => Rising(Append(s, x), F)
    BY AppendNums
  <2> QED BY <1>3, <2>1 DEF Less
<1>4. ASSUME NEW i \in DOMAIN s PROVE Less(RemoveAt(s, i), s, F)
  BY RemoveNums DEF Less
<1> QED BY <1>1, <1>2, <1>3, <1>4

\* How an ordered pair stays ordered as a frame moves on.
LEMMA Moves ==
  ASSUME NEW c \in Nat, NEW l \in Nat, NEW A \in SUBSET Nat, NEW D \in SUBSET Nat,
         NEW U \in SUBSET Nat, NEW E \in SUBSET Nat, Ordered(l, A, D, U, E)
  PROVE  /\ \A a \in SUBSET A, d \in SUBSET D, u \in SUBSET U, e \in SUBSET E : Ordered(l, a, d, u, e)
         /\ UpTo(c, l, A, D, U, E) => Ordered(l, A, D, U, E \cup {c + 1})
         /\ \A n \in E, e \in SUBSET E : (\A m \in e : n < m) => Ordered(l, A, D, U \cup {n}, e)
         /\ \A n \in U, u \in SUBSET U : (\A m \in u : n < m) => Ordered(l, A, D \cup {n}, u, E)
         /\ \A n \in D, d \in SUBSET D : (\A m \in d : n < m) => Ordered(l, A \cup {n}, d, U, E)
         /\ \A n \in A, a \in SUBSET A : (\A m \in a : n < m) => Ordered(n, a, D, U, E)
<1>1. \A a \in SUBSET A, d \in SUBSET D, u \in SUBSET U, e \in SUBSET E : Ordered(l, a, d, u, e)
  BY DEF Ordered, Below
<1>2. ASSUME UpTo(c, l, A, D, U, E) PROVE Ordered(l, A, D, U, E \cup {c + 1})
  BY <1>2 DEF Ordered, Below, UpTo
<1>3. ASSUME NEW n \in E, NEW e \in SUBSET E, \A m \in e : n < m
      PROVE  Ordered(l, A, D, U \cup {n}, e)
  BY <1>3 DEF Ordered, Below
<1>4. ASSUME NEW n \in U, NEW u \in SUBSET U, \A m \in u : n < m
      PROVE  Ordered(l, A, D \cup {n}, u, E)
  BY <1>4 DEF Ordered, Below
<1>5. ASSUME NEW n \in D, NEW d \in SUBSET D, \A m \in d : n < m
      PROVE  Ordered(l, A \cup {n}, d, U, E)
  BY <1>5 DEF Ordered, Below
<1>6. ASSUME NEW n \in A, NEW a \in SUBSET A, \A m \in a : n < m
      PROVE  Ordered(n, a, D, U, E)
  BY <1>6 DEF Ordered, Below
<1> QED BY <1>1, <1>2, <1>3, <1>4, <1>5, <1>6

LEMMA PairTypes ==
  ASSUME PeerTypeOK, NEW q \in Peer, NEW p \in Peer
  PROVE  /\ last[q][p] \in Nat /\ counter[p] \in Nat
         /\ Arr(q, p) \in SUBSET Nat /\ Dwn(q, p) \in SUBSET Nat /\ Ups(p) \in SUBSET Nat
         /\ Enc(p) \in SUBSET Nat
<1>1. arriving[q] \in Seq(FrameType) /\ down[q] \in Seq(DownType) /\ up[p] \in Seq(UpType)
  BY DEF PeerTypeOK, QueueTypes
<1>2. Arr(q, p) \in SUBSET Nat
  BY DEF Arr, Nums, ArrivingFrom, FrameType
<1>3. Dwn(q, p) \in SUBSET Nat
  <2>1. \A m \in DownFrom(p) : m.number \in Nat
    BY DEF DownFrom, DownType
  <2> QED BY <2>1 DEF Dwn, Nums
<1>4. Ups(p) \in SUBSET Nat
  <2>1. \A m \in UpFrames : m.number \in Nat
    BY DEF UpFrames, UpType
  <2> QED BY <2>1 DEF Ups, Nums
<1>5. Enc(p) \in SUBSET Nat
  BY DEF Enc, PeerTypeOK, FrameTypes
<1> QED BY <1>2, <1>3, <1>4, <1>5 DEF PeerTypeOK, FrameTypes

LEMMA PairLess ==
  ASSUME PeerTypeOK, PeerTypeOK', NEW q \in Peer, NEW p \in Peer, Pair(q, p),
         overtaken \subseteq overtaken', counter[p] <= counter'[p], last'[q][p] = last[q][p],
         Less(arriving'[q], arriving[q], ArrivingFrom(p)), Less(down'[q], down[q], DownFrom(p)),
         Less(up'[p], up[p], UpFrames), Enc(p)' \subseteq Enc(p)
  PROVE  Pair(q, p)'
<1>1. Arr(q, p)' \subseteq Arr(q, p) /\ Dwn(q, p)' \subseteq Dwn(q, p) /\ Ups(p)' \subseteq Ups(p)
  BY DEF Less, Arr, Dwn, Ups
<1>2. /\ last[q][p] \in Nat /\ counter[p] \in Nat /\ counter'[p] \in Nat
      /\ Arr(q, p) \in SUBSET Nat /\ Dwn(q, p) \in SUBSET Nat /\ Ups(p) \in SUBSET Nat
      /\ Enc(p) \in SUBSET Nat
  BY PairTypes DEF PeerTypeOK, FrameTypes
<1>3. UpTo(counter[p], last[q][p], Arr(q, p), Dwn(q, p), Ups(p), Enc(p))'
  BY <1>1, <1>2 DEF Pair, UpTo
<1>4. ASSUME <<q, p>> \notin overtaken' PROVE InOrder(q, p)'
  <2>1. InOrder(q, p)
    BY <1>4 DEF Pair
  <2>2. Ordered(last[q][p], Arr(q, p)', Dwn(q, p)', Ups(p)', Enc(p)')
    BY <1>1, <2>1 DEF InOrder, Ordered, Below
  <2>3. Rising(arriving'[q], ArrivingFrom(p)) /\ Rising(down'[q], DownFrom(p)) /\ Rising(up'[p], UpFrames)
    BY <2>1 DEF InOrder, Less
  <2> QED BY <2>2, <2>3 DEF InOrder
<1> QED BY <1>3, <1>4 DEF Pair

LEMMA OrderStep ==
  PeerTypeOK /\ PeerTypeOK' /\ FramesInOrder /\ [PeerNext]_peerVars => FramesInOrder'
<1> SUFFICES ASSUME PeerTypeOK, PeerTypeOK', FramesInOrder, [PeerNext]_peerVars,
                    NEW q \in Peer, NEW p \in Peer
             PROVE  Pair(q, p)'
  BY DEF FramesInOrder
<1>0. /\ Pair(q, p) /\ QueueTypes /\ FrameTypes
      /\ arriving[q] \in Seq(FrameType) /\ down[q] \in Seq(DownType) /\ up[p] \in Seq(UpType)
      /\ counter[p] \in Nat /\ last \in [Peer -> [Peer -> Nat]] /\ last[q][p] \in Nat
      /\ down \in [Peer -> Seq(DownType)]
      /\ Arr(q, p) \in SUBSET Nat /\ Dwn(q, p) \in SUBSET Nat /\ Ups(p) \in SUBSET Nat
      /\ Enc(p) \in SUBSET Nat
  BY PairTypes DEF FramesInOrder, PeerTypeOK, QueueTypes, FrameTypes
<1> DEFINE ArrLess == Less(arriving'[q], arriving[q], ArrivingFrom(p))
           DownLess == Less(down'[q], down[q], DownFrom(p))
           UpLess == Less(up'[p], up[p], UpFrames)
<1>1. /\ arriving'[q] = arriving[q] => ArrLess
      /\ down'[q] = down[q] \/ down'[q] = <<>> => DownLess
      /\ up'[p] = up[p] \/ up'[p] = <<>> => UpLess
      /\ encrypting' = encrypting => Enc(p)' = Enc(p)
  BY <1>0, LessIs DEF Enc
<1>2. ASSUME NEW m \in DownType, m \notin DownFrom(p), NEW ps, Tell(ps, m) PROVE DownLess
  <2>1. down'[q] = IF q \in ps THEN Append(down[q], m) ELSE down[q]
    BY <1>0, <1>2, TellIs
  <2> QED BY <1>0, <1>2, <2>1, LessIs
<1>3. ASSUME overtaken \subseteq overtaken', counter' = counter, last' = last,
             ArrLess, DownLess, UpLess, Enc(p)' \subseteq Enc(p)
      PROVE  Pair(q, p)'
  <2>1. counter[p] <= counter'[p] /\ last'[q][p] = last[q][p]
    BY <1>0, <1>3
  <2> QED BY <1>0, <1>3, <2>1, PairLess
<1> HIDE DEF ArrLess, DownLess, UpLess
<1>4. CASE UNCHANGED <<up, down, arriving, encrypting, last, counter, overtaken>>
  BY <1>1, <1>3, <1>4
<1>5. ASSUME NEW r \in Peer, NEW seats, Closed(r, seats) PROVE Pair(q, p)'
  <2>1. /\ up' = [up EXCEPT ![r] = <<>>] /\ down' = [down EXCEPT ![r] = <<>>]
        /\ UNCHANGED <<frameVars, overtaken>>
    BY <1>5 DEF Closed
  <2>2. (up'[p] = up[p] \/ up'[p] = <<>>) /\ (down'[q] = down[q] \/ down'[q] = <<>>)
    BY <1>0, <2>1 DEF QueueTypes
  <2> QED BY <1>1, <1>3, <2>1, <2>2 DEF frameVars
<1>6. ASSUME NEW r \in Peer, StopTransport(r) PROVE Pair(q, p)'
  <2>1. /\ up' = [up EXCEPT ![r] = <<>>] /\ down' = [down EXCEPT ![r] = <<>>]
        /\ UNCHANGED <<frameVars, overtaken>>
    BY <1>6 DEF StopTransport
  <2>2. (up'[p] = up[p] \/ up'[p] = <<>>) /\ (down'[q] = down[q] \/ down'[q] = <<>>)
    BY <1>0, <2>1 DEF QueueTypes
  <2> QED BY <1>1, <1>3, <2>1, <2>2 DEF frameVars
<1>7. ASSUME NEW r \in Peer, Opened(r) PROVE Pair(q, p)'
  <2>1. /\ up' = [up EXCEPT ![r] = <<[type |-> "join"]>>]
        /\ UNCHANGED <<frameVars, down, overtaken>>
    BY <1>7 DEF Opened, pastVars
  <2>2. UpLess
    <3>1. CASE r = p
      <4>1. PICK s : s = <<[type |-> "join"]>>
        OBVIOUS
      <4>2. DOMAIN s = {1} /\ s[1] \notin UpFrames
        BY <4>1 DEF UpFrames
      <4>3. Less(s, up[p], UpFrames)
        BY <4>2 DEF Less, Nums, Rising
      <4>4. up'[p] = s
        BY <1>0, <2>1, <3>1, <4>1 DEF QueueTypes
      <4> QED BY <4>3, <4>4 DEF UpLess
    <3>2. CASE r # p
      BY <1>0, <1>1, <2>1, <3>2 DEF QueueTypes
    <3> QED BY <3>1, <3>2
  <2> QED BY <1>1, <1>3, <2>1, <2>2 DEF frameVars
<1>8. ASSUME NEW r \in Peer, RelayHandles(r) PROVE Pair(q, p)'
  <2>1. /\ up[r] # <<>> /\ Head(up[r]) \in UpType /\ up[r] \in Seq(UpType)
        /\ up'[r] = Tail(up[r]) /\ \A x \in Peer \ {r} : up'[x] = up[x]
        /\ UNCHANGED <<frameVars, overtaken>>
    BY <1>0, <1>8, HandlesIs DEF RelayHandles, QueueTypes
  <2>2. UpLess
    <3>1. CASE r = p
      BY <1>0, <2>1, <3>1, LessIs DEF UpLess
    <3>2. CASE r # p
      BY <1>1, <2>1, <3>2
    <3> QED BY <3>1, <3>2
  <2>3. CASE DownLess
    BY <1>1, <1>3, <2>1, <2>2, <2>3 DEF frameVars
  <2>4. CASE RelayJoin(r)
    <3>1. ASSUME NEW b \in BOOLEAN, Tell({r}, [type |-> "error", fatal |-> b]) PROVE DownLess
      <4>1. PICK m \in DownType : m = [type |-> "error", fatal |-> b]
        BY RelayMessages
      <4> QED BY <1>2, <3>1, <4>1 DEF DownFrom
    <3>2. CASE down' = [x \in Peer |-> IF x = r THEN Append(down[x], [type |-> "joined", peers |-> RoomOfRelay])
                                      ELSE IF x \in Reached THEN Append(down[x], [type |-> "peer-joined", peer |-> r])
                                      ELSE down[x]]
      <4>1. PICK m \in DownType : m = [type |-> "joined", peers |-> RoomOfRelay]
        BY RelayMessages DEF RoomOfRelay
      <4>2. PICK k \in DownType : k = [type |-> "peer-joined", peer |-> r]
        BY RelayMessages
      <4>3. m \notin DownFrom(p) /\ k \notin DownFrom(p)
        BY <4>1, <4>2 DEF DownFrom
      <4>4. \/ down'[q] = Append(down[q], m)
            \/ down'[q] = Append(down[q], k)
            \/ down'[q] = down[q]
        BY <3>2, <4>1, <4>2
      <4>5. /\ Less(Append(down[q], m), down[q], DownFrom(p))
            /\ Less(Append(down[q], k), down[q], DownFrom(p)) /\ Less(down[q], down[q], DownFrom(p))
        BY <1>0, <4>3, LessIs
      <4>6. DownLess
        BY <4>4, <4>5 DEF DownLess
      <4> QED BY <2>3, <4>6
    <3> QED BY <2>3, <2>4, <3>1, <3>2 DEF RelayJoin
  <2>5. CASE RelayFrame(r, Head(up[r]).number) /\ Head(up[r]).type = "relay"
    <3>1. Head(up[r]).number \in Nat
      BY <2>1, <2>5 DEF UpType
    <3>2. PICK n \in Nat : n = Head(up[r]).number
      BY <3>1
    <3>3. PICK m \in DownType : m = [type |-> "relay", from |-> r, number |-> n]
      BY RelayMessages
    <3>4. CASE Tell({r}, [type |-> "error", fatal |-> FALSE])
      <4>1. PICK e \in DownType : e = [type |-> "error", fatal |-> FALSE]
        BY RelayMessages
      <4> QED BY <1>2, <2>3, <3>4, <4>1 DEF DownFrom
    <3>5. CASE Tell(Reached \ {r}, m) /\ r # p
      BY <1>2, <2>3, <3>3, <3>5 DEF DownFrom
    <3>6. CASE Tell(Reached \ {r}, m) /\ r = p
      <4>1. down'[q] = IF q \in Reached \ {r} THEN Append(down[q], m) ELSE down[q]
        BY <1>0, <3>6, TellIs
      <4>2. CASE down'[q] = down[q]
        BY <1>1, <2>3, <4>2
      <4>3. CASE down'[q] = Append(down[q], m)
        <5>1. m \in DownFrom(p) /\ m.number = n /\ Head(up[p]) \in UpFrames
          BY <2>1, <2>5, <3>3, <3>6 DEF DownFrom, UpFrames
        <5>2. /\ Dwn(q, p)' = Dwn(q, p) \cup {n}
              /\ Rising(down[q], DownFrom(p)) /\ (\A k \in Dwn(q, p) : k < n) => Rising(down'[q], DownFrom(p))
          <6>1. /\ Nums(Append(down[q], m), DownFrom(p)) = Nums(down[q], DownFrom(p)) \cup {m.number}
                /\ (Rising(down[q], DownFrom(p)) /\ \A k \in Nums(down[q], DownFrom(p)) : k < m.number)
                     => Rising(Append(down[q], m), DownFrom(p))
            <7>1. PICK ms : ms = down[q]
              OBVIOUS
            <7>2. ms \in Seq(DownType)
              BY <1>0, <7>1
            <7> QED BY <5>1, <7>1, <7>2, AppendNums
          <6> QED BY <4>3, <5>1, <6>1 DEF Dwn
        <5>3. /\ Ups(p) = Ups(p)' \cup {n}
              /\ Rising(up[p], UpFrames) => Rising(up'[p], UpFrames) /\ \A k \in Ups(p)' : n < k
          BY <2>1, <3>2, <3>6, <5>1, TailNums DEF Ups
        <5>4. /\ Arr(q, p)' = Arr(q, p) /\ Enc(p)' = Enc(p)
              /\ UNCHANGED <<counter, last, overtaken, arriving>>
          BY <1>1, <2>1 DEF Arr, frameVars
        <5>5. UpTo(counter[p], last[q][p], Arr(q, p), Dwn(q, p), Ups(p), Enc(p))'
          BY <1>0, <5>2, <5>3, <5>4 DEF Pair, UpTo
        <5>6. ASSUME <<q, p>> \notin overtaken' PROVE InOrder(q, p)'
          <6>1. InOrder(q, p)
            BY <1>0, <5>4, <5>6 DEF Pair
          <6>2. n \in Ups(p) /\ Ups(p)' \in SUBSET Ups(p) /\ \A k \in Ups(p)' : n < k
            BY <5>3, <6>1 DEF InOrder
          <6>3. \A k \in Dwn(q, p) : k < n
            BY <6>1, <6>2 DEF InOrder, Ordered, Below
          <6>4. Ordered(last[q][p], Arr(q, p), Dwn(q, p), Ups(p), Enc(p))
            BY <6>1 DEF InOrder
          <6>5. Ordered(last[q][p], Arr(q, p), Dwn(q, p) \cup {n}, Ups(p)', Enc(p))
            BY <1>0, <6>2, <6>4, Moves
          <6> QED BY <5>2, <5>3, <5>4, <6>1, <6>3, <6>5 DEF InOrder
        <5> QED BY <5>5, <5>6 DEF Pair
      <4> QED BY <4>1, <4>2, <4>3
    <3> QED BY <2>5, <3>2, <3>3, <3>4, <3>5, <3>6 DEF RelayFrame
  <2> QED BY <1>8, <2>4, <2>5 DEF RelayHandles
<1>9. ASSUME NEW r \in Peer, RelayNotices(r) PROVE Pair(q, p)'
  <2>1. PICK m \in DownType : m = [type |-> "peer-left", peer |-> r]
    BY RelayMessages
  <2>2. Tell(Reached, m) /\ UNCHANGED <<frameVars, up, overtaken>> /\ m \notin DownFrom(p)
    BY <1>9, <2>1 DEF RelayNotices, pastVars, DownFrom
  <2> QED BY <1>1, <1>2, <1>3, <2>2 DEF frameVars
<1>10. ASSUME NEW r \in Peer, HandleSignalingMessage(r) PROVE Pair(q, p)'
  <2>1. PICK m : m = Head(down[r])
    OBVIOUS
  <2>2. /\ down[r] # <<>> /\ m \in DownType /\ down[r] \in Seq(DownType)
        /\ down'[r] = Tail(down[r]) /\ \A x \in Peer \ {r} : down'[x] = down[x]
        /\ UNCHANGED <<up, encrypting, last, counter, overtaken>>
    BY <1>0, <1>10, <2>1, SignalIs DEF HandleSignalingMessage, pastVars
  <2>3. DownLess
    <3>1. CASE r = q
      BY <1>0, <2>2, <3>1, LessIs DEF DownLess
    <3>2. CASE r # q
      BY <1>1, <2>2, <3>2
    <3> QED BY <3>1, <3>2
  <2>4. CASE ArrLess
    BY <1>1, <1>3, <2>2, <2>3, <2>4
  <2>5. CASE arriving'[q] = arriving[q]
    BY <1>1, <2>4, <2>5
  <2>6. CASE m.type = "relay" /\ HandleFrame(r, m)
    <3>1. PICK f \in FrameType : f = [to |-> r, from |-> m.from, number |-> m.number]
      BY <2>2, <2>6 DEF FrameType, DownType
    <3>2. arriving' = [arriving EXCEPT ![r] = Append(@, f)]
      BY <2>6, <3>1 DEF HandleFrame
    <3>3. CASE r # q
      BY <1>0, <2>5, <3>2, <3>3 DEF QueueTypes
    <3>4. CASE r = q /\ m.from # p
      <4>1. f \notin ArrivingFrom(p) /\ arriving'[q] = Append(arriving[q], f)
        BY <1>0, <3>1, <3>2, <3>4 DEF ArrivingFrom, QueueTypes
      <4> QED BY <1>0, <2>4, <4>1, LessIs DEF ArrLess
    <3>5. CASE r = q /\ m.from = p
      <4>1. PICK n \in Nat : n = m.number
        BY <2>2, <2>6 DEF DownType
      <4>2. /\ f \in ArrivingFrom(p) /\ f.number = n /\ m \in DownFrom(p)
            /\ arriving'[q] = Append(arriving[q], f)
        BY <1>0, <2>2, <2>6, <3>1, <3>2, <3>5, <4>1 DEF ArrivingFrom, DownFrom, QueueTypes
      <4>3. /\ Arr(q, p)' = Arr(q, p) \cup {n}
            /\ Rising(arriving[q], ArrivingFrom(p)) /\ (\A k \in Arr(q, p) : k < n)
                 => Rising(arriving'[q], ArrivingFrom(p))
        <5>1. /\ Nums(Append(arriving[q], f), ArrivingFrom(p)) = Nums(arriving[q], ArrivingFrom(p)) \cup {f.number}
              /\ (Rising(arriving[q], ArrivingFrom(p))
                    /\ \A k \in Nums(arriving[q], ArrivingFrom(p)) : k < f.number)
                   => Rising(Append(arriving[q], f), ArrivingFrom(p))
          <6>1. arriving[q] \in Seq(FrameType) /\ f \in FrameType
            BY <1>0, <3>1 DEF QueueTypes
          <6>2. f \in ArrivingFrom(p)
            BY <4>2
          <6>3. ArrivingFrom(p) \subseteq FrameType
            BY DEF ArrivingFrom
          <6> QED BY <6>1, <6>2, <6>3, AppendNums
        <5> QED BY <4>2, <5>1 DEF Arr
      <4>4. /\ Dwn(q, p) = Dwn(q, p)' \cup {n}
            /\ Rising(down[q], DownFrom(p)) => Rising(down'[q], DownFrom(p)) /\ \A k \in Dwn(q, p)' : n < k
        <5>1. /\ Nums(down[q], DownFrom(p)) = Nums(Tail(down[q]), DownFrom(p)) \cup {n}
              /\ Rising(down[q], DownFrom(p)) =>
                   Rising(Tail(down[q]), DownFrom(p)) /\ \A k \in Nums(Tail(down[q]), DownFrom(p)) : n < k
          BY <1>0, <2>1, <2>2, <3>5, <4>1, <4>2, TailNums
        <5> QED BY <2>2, <3>5, <5>1 DEF Dwn
      <4>5. Ups(p)' = Ups(p) /\ Enc(p)' = Enc(p)
        BY <1>1, <2>2 DEF Ups
      <4>6. UpTo(counter[p], last[q][p], Arr(q, p), Dwn(q, p), Ups(p), Enc(p))'
        BY <1>0, <2>2, <4>3, <4>4, <4>5 DEF Pair, UpTo
      <4>7. ASSUME <<q, p>> \notin overtaken' PROVE InOrder(q, p)'
        <5>1. InOrder(q, p)
          BY <1>0, <2>2, <4>7 DEF Pair
        <5>2. n \in Dwn(q, p) /\ Dwn(q, p)' \in SUBSET Dwn(q, p) /\ \A k \in Dwn(q, p)' : n < k
          BY <4>4, <5>1 DEF InOrder
        <5>3. \A k \in Arr(q, p) : k < n
          BY <5>1, <5>2 DEF InOrder, Ordered, Below
        <5>4. Ordered(last[q][p], Arr(q, p), Dwn(q, p), Ups(p), Enc(p))
          BY <5>1 DEF InOrder
        <5>5. Ordered(last[q][p], Arr(q, p) \cup {n}, Dwn(q, p)', Ups(p), Enc(p))
          BY <1>0, <5>2, <5>4, Moves
        <5> QED BY <2>2, <4>3, <4>4, <4>5, <5>1, <5>3, <5>5 DEF InOrder
      <4> QED BY <4>6, <4>7 DEF Pair
    <3> QED BY <3>3, <3>4, <3>5
  <2> QED BY <1>10, <2>1, <2>5, <2>6 DEF HandleSignalingMessage, HandleJoined, HandlePeerJoined,
                                         HandlePeerLeft, HandleError
<1>11. ASSUME NEW r \in Peer, Send(r) PROVE Pair(q, p)'
  <2>1. /\ counter' = [counter EXCEPT ![r] = @ + 1]
        /\ encrypting' = encrypting \cup {[from |-> r, number |-> counter'[r]]}
        /\ UNCHANGED <<up, down, arriving, last, overtaken>>
    BY <1>11 DEF Send, atRelay, pastVars
  <2>2. counter'[r] = counter[r] + 1 /\ \A x \in Peer \ {r} : counter'[x] = counter[x]
    BY <1>0, <2>1 DEF FrameTypes
  <2>3. Arr(q, p)' = Arr(q, p) /\ Dwn(q, p)' = Dwn(q, p) /\ Ups(p)' = Ups(p)
    BY <2>1 DEF Arr, Dwn, Ups
  <2>4. CASE r # p
    <3>1. Enc(p)' = Enc(p)
      BY <2>1, <2>4 DEF Enc
    <3> QED BY <1>0, <2>1, <2>2, <2>3, <2>4, <3>1 DEF Pair, InOrder
  <2>5. CASE r = p
    <3>1. Enc(p)' = Enc(p) \cup {counter[p] + 1}
      <4>1. PICK f : f = [from |-> p, number |-> counter[p] + 1]
        OBVIOUS
      <4>2. encrypting' = encrypting \cup {f} /\ f.from = p /\ f.number = counter[p] + 1
        BY <2>1, <2>2, <2>5, <4>1
      <4> QED BY <4>2 DEF Enc
    <3>2. UpTo(counter[p] + 1, last[q][p], Arr(q, p), Dwn(q, p), Ups(p), Enc(p) \cup {counter[p] + 1})
      <4>1. UpTo(counter[p], last[q][p], Arr(q, p), Dwn(q, p), Ups(p), Enc(p))
        BY <1>0 DEF Pair
      <4>2. \A n \in Nat : n <= counter[p] => n <= counter[p] + 1
        BY <1>0
      <4>3. last[q][p] <= counter[p] + 1 /\ counter[p] + 1 <= counter[p] + 1
        <5>1. last[q][p] \in Nat /\ counter[p] \in Nat /\ last[q][p] <= counter[p]
          BY <1>0, <4>1 DEF UpTo
        <5> QED BY ONLY <5>1
      <4>4. \A n \in Arr(q, p) \cup Dwn(q, p) \cup Ups(p) \cup Enc(p) : n \in Nat /\ n <= counter[p]
        BY <1>0, <4>1 DEF UpTo
      <4> QED BY <4>2, <4>3, <4>4 DEF UpTo
    <3>3. InOrder(q, p) => Ordered(last[q][p], Arr(q, p), Dwn(q, p), Ups(p), Enc(p) \cup {counter[p] + 1})
      <4> SUFFICES ASSUME InOrder(q, p)
                   PROVE  Ordered(last[q][p], Arr(q, p), Dwn(q, p), Ups(p), Enc(p) \cup {counter[p] + 1})
        OBVIOUS
      <4>1. /\ Ordered(last[q][p], Arr(q, p), Dwn(q, p), Ups(p), Enc(p))
            /\ UpTo(counter[p], last[q][p], Arr(q, p), Dwn(q, p), Ups(p), Enc(p))
        BY <1>0 DEF InOrder, Pair
      <4> QED BY <1>0, <4>1, Moves
    <3> QED BY <1>0, <2>1, <2>2, <2>3, <2>5, <3>1, <3>2, <3>3 DEF Pair, InOrder
  <2> QED BY <2>4, <2>5
<1>12. ASSUME NEW f \in encrypting, SendRelay(f) PROVE Pair(q, p)'
  <2>1. f \in [from : Peer, number : Nat] /\ encrypting \subseteq [from : Peer, number : Nat]
    BY <1>0 DEF FrameTypes
  <2>2. PICK m \in UpType : m = [type |-> "relay", number |-> f.number]
    BY <2>1 DEF UpType
  <2>3. /\ encrypting' = encrypting \ {f} /\ UNCHANGED <<down, arriving, last, counter>>
        /\ up'[f.from] \in {up[f.from], Append(up[f.from], m)}
        /\ \A x \in Peer \ {f.from} : up'[x] = up[x]
        /\ IF \E g \in encrypting : g.from = f.from /\ g.number < f.number
             THEN Overtakes(f.from) ELSE UNCHANGED overtaken
    BY <1>0, <1>12, <2>1, <2>2 DEF SendRelay, QueueTypes
  <2>4. overtaken \subseteq overtaken' /\ Enc(p)' \subseteq Enc(p)
    BY <2>3 DEF Overtakes, Enc
  <2>5. CASE UpLess
    BY <1>1, <1>3, <2>3, <2>4, <2>5
  <2>6. CASE up'[p] = up[p]
    BY <1>1, <2>5, <2>6
  <2>7. CASE f.from = p /\ up'[p] = Append(up[p], m)
    <3>1. PICK n \in Nat : n = f.number
      BY <2>1
    <3>2. m \in UpFrames /\ m.number = n
      BY <2>2, <3>1 DEF UpFrames
    <3>3. /\ Ups(p)' = Ups(p) \cup {n}
          /\ Rising(up[p], UpFrames) /\ (\A k \in Ups(p) : k < n) => Rising(up'[p], UpFrames)
      BY <1>0, <2>7, <3>2, AppendNums DEF Ups
    <3>4. n \in Enc(p) /\ Arr(q, p)' = Arr(q, p) /\ Dwn(q, p)' = Dwn(q, p)
      BY <2>3, <2>7, <3>1 DEF Enc, Arr, Dwn
    <3>5. UpTo(counter[p], last[q][p], Arr(q, p), Dwn(q, p), Ups(p), Enc(p))'
      BY <1>0, <2>3, <2>4, <3>3, <3>4 DEF Pair, UpTo
    <3>6. ASSUME <<q, p>> \notin overtaken' PROVE InOrder(q, p)'
      <4>1. ~\E g \in encrypting : g.from = p /\ g.number < n
        BY <2>3, <2>7, <3>1, <3>6 DEF Overtakes
      <4>2. \A k \in Enc(p)' : n < k
        <5> SUFFICES ASSUME NEW g \in encrypting, g # f, g.from = p PROVE n < g.number
          BY <2>3 DEF Enc
        <5>1. g.number # n
          BY <2>1, <2>7, <3>1
        <5>2. g.number \in Nat /\ ~(g.number < n)
          BY <2>1, <4>1
        <5> QED BY <5>1, <5>2
      <4>3. InOrder(q, p)
        BY <1>0, <2>4, <3>6 DEF Pair
      <4>4. \A k \in Ups(p) : k < n
        BY <3>4, <4>3 DEF InOrder, Ordered, Below
      <4>5. Ordered(last[q][p], Arr(q, p), Dwn(q, p), Ups(p), Enc(p)) /\ Enc(p)' \in SUBSET Enc(p)
        BY <2>4, <4>3 DEF InOrder
      <4>6. Ordered(last[q][p], Arr(q, p), Dwn(q, p), Ups(p) \cup {n}, Enc(p)')
        BY <1>0, <3>4, <4>2, <4>5, Moves
      <4> QED BY <2>3, <3>3, <3>4, <4>3, <4>4, <4>6 DEF InOrder
    <3> QED BY <3>5, <3>6 DEF Pair
  <2> QED BY <2>3, <2>6, <2>7
<1>13. ASSUME NEW r \in Peer, NEW i \in DOMAIN arriving[r], PrefixKnown(r, i) PROVE Pair(q, p)'
  <2>1. PICK f : f = arriving[r][i]
    OBVIOUS
  <2>2. f \in FrameType /\ f.from \in Peer /\ f.number \in Nat
    <3>1. PICK s \in Seq(FrameType) : s = arriving[r]
      BY <1>0 DEF QueueTypes
    <3>2. f \in FrameType
      BY <2>1, <3>1
    <3> QED BY <3>2 DEF FrameType
  <2>3. /\ arriving' = [arriving EXCEPT ![r] = RemoveAt(@, i)]
        /\ \/ f.number > last[r][f.from] /\ last' = [last EXCEPT ![r][f.from] = f.number]
           \/ UNCHANGED last
        /\ overtaken' = IF \E j \in 1..(i - 1) : arriving[r][j].from = f.from
                          THEN overtaken \cup {<<r, f.from>>} ELSE overtaken
        /\ UNCHANGED <<up, down, encrypting, counter>>
    BY <1>13, <2>1 DEF PrefixKnown, Validate, atRelay
  <2>4. overtaken \subseteq overtaken'
    BY <2>3
  <2>5. ArrLess
    <3>1. CASE r = q
      <4>1. arriving'[q] = RemoveAt(arriving[q], i)
        BY <1>0, <2>3, <3>1 DEF QueueTypes
      <4> QED BY <1>0, <3>1, <4>1, LessIs DEF ArrLess
    <3>2. CASE r # q
      BY <1>0, <1>1, <2>3, <3>2 DEF QueueTypes
    <3> QED BY <3>1, <3>2
  <2>6. CASE last'[q][p] = last[q][p]
    <3>1. DownLess /\ UpLess /\ Enc(p)' \subseteq Enc(p) /\ counter[p] <= counter'[p]
      BY <1>0, <1>1, <2>3
    <3> QED BY <1>0, <2>4, <2>5, <2>6, <3>1, PairLess DEF ArrLess, DownLess, UpLess
  <2>7. CASE r = q /\ f.from = p /\ last' = [last EXCEPT ![r][f.from] = f.number]
    <3>1. PICK n \in Nat : n = f.number
      BY <2>2
    <3>2. last'[q][p] = n /\ arriving'[q] = RemoveAt(arriving[q], i) /\ i \in DOMAIN arriving[q]
      BY <1>0, <2>3, <2>7, <3>1 DEF QueueTypes
    <3>3. f = arriving[q][i] /\ f \in ArrivingFrom(p)
      BY <2>1, <2>2, <2>7 DEF ArrivingFrom
    <3>4. /\ n \in Arr(q, p) /\ Arr(q, p)' \in SUBSET Arr(q, p)
          /\ (Rising(arriving[q], ArrivingFrom(p)) /\ ~\E j \in 1..(i - 1) : arriving[q][j] \in ArrivingFrom(p))
                => \A k \in Arr(q, p)' : n < k
      <4>1. /\ f.number \in Nums(arriving[q], ArrivingFrom(p))
            /\ Nums(RemoveAt(arriving[q], i), ArrivingFrom(p)) \subseteq Nums(arriving[q], ArrivingFrom(p))
            /\ (Rising(arriving[q], ArrivingFrom(p)) /\ ~\E j \in 1..(i - 1) : arriving[q][j] \in ArrivingFrom(p))
                 => \A k \in Nums(RemoveAt(arriving[q], i), ArrivingFrom(p)) : f.number < k
        BY <1>0, <3>2, <3>3, RemoveNums
      <4> QED BY <3>1, <3>2, <4>1 DEF Arr
    <3>5. Dwn(q, p)' = Dwn(q, p) /\ Ups(p)' = Ups(p) /\ Enc(p)' = Enc(p)
      BY <2>3 DEF Dwn, Ups, Enc
    <3>6. UpTo(counter[p], last[q][p], Arr(q, p), Dwn(q, p), Ups(p), Enc(p))'
      BY <1>0, <2>3, <3>2, <3>4, <3>5 DEF Pair, UpTo
    <3>7. ASSUME <<q, p>> \notin overtaken' PROVE InOrder(q, p)'
      <4>1. InOrder(q, p)
        BY <1>0, <2>4, <3>7 DEF Pair
      <4>2. ~\E j \in 1..(i - 1) : arriving[q][j] \in ArrivingFrom(p)
        BY <2>3, <2>7, <3>7 DEF ArrivingFrom
      <4>3. \A k \in Arr(q, p)' : n < k
        BY <3>4, <4>1, <4>2 DEF InOrder
      <4>4. Ordered(last[q][p], Arr(q, p), Dwn(q, p), Ups(p), Enc(p))
        BY <4>1 DEF InOrder
      <4>5. Ordered(n, Arr(q, p)', Dwn(q, p), Ups(p), Enc(p))
        BY <3>4, <4>3, <4>4 DEF Ordered, Below
      <4>6. Rising(arriving'[q], ArrivingFrom(p))
        BY <2>5, <4>1 DEF ArrLess, Less, InOrder
      <4> QED BY <2>3, <3>2, <3>5, <4>1, <4>5, <4>6 DEF InOrder
    <3> QED BY <3>6, <3>7 DEF Pair
  <2>8. last'[q][p] = last[q][p] \/ (r = q /\ f.from = p /\ last' = [last EXCEPT ![r][f.from] = f.number])
    <3>1. CASE last' = last
      BY <3>1
    <3>2. CASE last' = [last EXCEPT ![r][f.from] = f.number]
      BY <1>0, <2>2, <3>2
    <3> QED BY <2>3, <3>1, <3>2
  <2> QED BY <2>6, <2>7, <2>8
<1>14. ASSUME NEW r \in Peer, Connect(r) \/ ReconnectTimer(r) PROVE Pair(q, p)'
  BY <1>4, <1>14 DEF Connect, ReconnectTimer, frameVars, atRelay, pastVars
<1>15. ASSUME NEW f, Decrypted(f) PROVE Pair(q, p)'
  BY <1>4, <1>15 DEF Decrypted, atRelay, pastVars
<1>16. CASE UNCHANGED peerVars
  BY <1>4, <1>16 DEF peerVars
<1>17. ASSUME NEW r \in Peer, Breaks(r) \/ RelayTimeout(r) PROVE Pair(q, p)'
  BY <1>5, <1>17 DEF Breaks, RelayTimeout
<1> QED BY <1>6, <1>7, <1>8, <1>9, <1>10, <1>11, <1>12, <1>13, <1>14, <1>15, <1>16, <1>17 DEF PeerNext

LEMMA OrderInit == PeerInit => FramesInOrder
<1> SUFFICES ASSUME PeerInit, NEW q \in Peer, NEW p \in Peer PROVE Pair(q, p)
  BY DEF FramesInOrder
<1>1. /\ counter[p] = 0 /\ last[q][p] = 0 /\ arriving[q] = <<>> /\ down[q] = <<>> /\ up[p] = <<>>
      /\ encrypting = {}
  BY DEF PeerInit
<1>2. Arr(q, p) = {} /\ Dwn(q, p) = {} /\ Ups(p) = {} /\ Enc(p) = {}
  BY <1>1 DEF Arr, Dwn, Ups, Enc, Nums
<1>3. Rising(arriving[q], ArrivingFrom(p)) /\ Rising(down[q], DownFrom(p)) /\ Rising(up[p], UpFrames)
  BY <1>1 DEF Rising
<1> QED BY <1>1, <1>2, <1>3 DEF Pair, UpTo, InOrder, Ordered, Below

\* A frame the relay passed on is overtaken, or accepted, or still under way.
Goes(f) ==
  \/ <<f.to, f.from>> \in overtaken \/ f \in got \cup decrypting
  \/ f.number \in Arr(f.to, f.from) \cup Dwn(f.to, f.from)
OwedGo == \A f \in owed : Goes(f)

LEMMA ArrIs ==
  ASSUME QueueTypes, NEW f \in FrameType
  PROVE  f.number \in Arr(f.to, f.from) <=> f \in Range(arriving[f.to])
<1>1. ASSUME f.number \in Arr(f.to, f.from) PROVE f \in Range(arriving[f.to])
  <2>1. PICK i \in DOMAIN arriving[f.to] : /\ arriving[f.to][i] \in ArrivingFrom(f.from)
                                           /\ f.number = arriving[f.to][i].number
    BY <1>1 DEF Arr, Nums
  <2>2. f.to \in Peer
    BY DEF FrameType
  <2>3. arriving[f.to][i].to = f.to
    BY <2>1, <2>2 DEF QueueTypes
  <2>4. arriving[f.to][i] = f
    BY <2>1, <2>3 DEF ArrivingFrom, FrameType
  <2> QED BY <2>1, <2>4 DEF Range
<1>2. ASSUME f \in Range(arriving[f.to]) PROVE f.number \in Arr(f.to, f.from)
  <2>1. PICK i \in DOMAIN arriving[f.to] : arriving[f.to][i] = f
    BY <1>2 DEF Range
  <2>2. f \in ArrivingFrom(f.from)
    BY DEF ArrivingFrom
  <2> QED BY <2>1, <2>2 DEF Arr, Nums
<1> QED BY <1>1, <1>2

LEMMA TellKeeps ==
  ASSUME QueueTypes, NEW ps, NEW m \in DownType, Tell(ps, m), NEW q \in Peer, NEW p \in Peer
  PROVE  /\ Dwn(q, p) \subseteq Dwn(q, p)'
         /\ q \in ps /\ m \in DownFrom(p) => m.number \in Dwn(q, p)'
<1>1. down \in [Peer -> Seq(DownType)] /\ down[q] \in Seq(DownType)
  BY DEF QueueTypes
<1>2. down'[q] = IF q \in ps THEN Append(down[q], m) ELSE down[q]
  BY <1>1, TellIs
<1>3. Nums(Append(down[q], m), DownFrom(p))
        = Nums(down[q], DownFrom(p)) \cup (IF m \in DownFrom(p) THEN {m.number} ELSE {})
  BY <1>1, AppendNums
<1> QED BY <1>2, <1>3 DEF Dwn

LEMMA GoesStep ==
  PeerTypeOK /\ PeerTypeOK' /\ FramesInOrder /\ OwedGo /\ [PeerNext]_peerVars => OwedGo'
<1> SUFFICES ASSUME PeerTypeOK, PeerTypeOK', FramesInOrder, OwedGo, [PeerNext]_peerVars,
                    NEW f \in owed'
             PROVE  Goes(f)'
  BY DEF OwedGo
<1>0. /\ QueueTypes /\ FrameTypes /\ QueueTypes' /\ f \in FrameType /\ f.to \in Peer /\ f.from \in Peer
      /\ f.number \in Nat
  BY DEF PeerTypeOK, FrameTypes, FrameType
<1> DEFINE q == f.to
           p == f.from
<1>1. /\ q \in Peer /\ p \in Peer
      /\ arriving \in [Peer -> Seq(FrameType)] /\ arriving[q] \in Seq(FrameType)
      /\ down \in [Peer -> Seq(DownType)] /\ down[q] \in Seq(DownType)
  BY <1>0 DEF QueueTypes
<1>2. f \in owed => Goes(f)
  BY DEF OwedGo
<1>3. ASSUME overtaken \subseteq overtaken', got \cup decrypting \subseteq (got \cup decrypting)',
             Arr(q, p) \subseteq Arr(q, p)', Dwn(q, p) \subseteq Dwn(q, p)', f \in owed
      PROVE  Goes(f)'
  BY <1>2, <1>3 DEF Goes
<1>4. /\ arriving'[q] = arriving[q] => Arr(q, p)' = Arr(q, p)
      /\ down'[q] = down[q] => Dwn(q, p)' = Dwn(q, p)
  BY DEF Arr, Dwn
<1> HIDE DEF q, p
<1>5. CASE UNCHANGED <<overtaken, got, decrypting, arriving, down, owed>>
  BY <1>3, <1>4, <1>5
<1>6. ASSUME NEW r \in Peer, NEW seats, Closed(r, seats) PROVE Goes(f)'
  <2>1. /\ down' = [down EXCEPT ![r] = <<>>] /\ UNCHANGED <<frameVars, overtaken>>
        /\ f \in owed /\ (q # r \/ f \in got)
    BY <1>6 DEF Closed, q
  <2>2. CASE f \in got
    BY <2>1, <2>2 DEF frameVars, Goes
  <2>3. CASE q # r
    <3>1. down'[q] = down[q] /\ arriving'[q] = arriving[q]
      BY <1>1, <2>1, <2>3 DEF frameVars
    <3> QED BY <1>3, <1>4, <2>1, <3>1 DEF frameVars
  <2> QED BY <2>1, <2>2, <2>3
<1>7. ASSUME NEW r \in Peer, StopTransport(r) PROVE Goes(f)'
  <2>1. /\ down' = [down EXCEPT ![r] = <<>>] /\ UNCHANGED <<frameVars, overtaken>>
        /\ f \in owed /\ q # r
    BY <1>7 DEF StopTransport, q
  <2>2. down'[q] = down[q] /\ arriving'[q] = arriving[q]
    BY <1>1, <2>1 DEF frameVars
  <2> QED BY <1>3, <1>4, <2>1, <2>2 DEF frameVars
<1>8. ASSUME NEW ps, NEW m \in DownType, Tell(ps, m), f \in owed, UNCHANGED <<frameVars, overtaken>>
      PROVE  Goes(f)'
  <2>1. Dwn(q, p) \subseteq Dwn(q, p)'
    BY <1>0, <1>1, <1>8, TellKeeps
  <2>2. arriving'[q] = arriving[q]
    BY <1>8 DEF frameVars
  <2> QED BY <1>3, <1>4, <1>8, <2>1, <2>2 DEF frameVars
<1>9. ASSUME NEW r \in Peer, RelayHandles(r) PROVE Goes(f)'
  <2>1. Head(up[r]) \in UpType /\ UNCHANGED <<frameVars, overtaken>>
    BY <1>0, <1>9, HandlesIs DEF RelayHandles
  <2>2. CASE RelayJoin(r) /\ UNCHANGED owed
    <3>1. ASSUME NEW b \in BOOLEAN, Tell({r}, [type |-> "error", fatal |-> b]) PROVE Goes(f)'
      <4>1. PICK m \in DownType : m = [type |-> "error", fatal |-> b]
        BY RelayMessages
      <4> QED BY <1>8, <2>1, <2>2, <3>1, <4>1
    <3>2. CASE down' = [x \in Peer |-> IF x = r THEN Append(down[x], [type |-> "joined", peers |-> RoomOfRelay])
                                      ELSE IF x \in Reached THEN Append(down[x], [type |-> "peer-joined", peer |-> r])
                                      ELSE down[x]]
      <4>1. PICK m \in DownType : m = [type |-> "joined", peers |-> RoomOfRelay]
        BY RelayMessages DEF RoomOfRelay
      <4>2. PICK k \in DownType : k = [type |-> "peer-joined", peer |-> r]
        BY RelayMessages
      <4>3. \/ down'[q] = Append(down[q], m)
            \/ down'[q] = Append(down[q], k)
            \/ down'[q] = down[q]
        BY <1>1, <3>2, <4>1, <4>2
      <4>4. /\ Nums(down[q], DownFrom(p)) \subseteq Nums(Append(down[q], m), DownFrom(p))
            /\ Nums(down[q], DownFrom(p)) \subseteq Nums(Append(down[q], k), DownFrom(p))
        BY <1>1, AppendNums
      <4>5. Dwn(q, p) \subseteq Dwn(q, p)'
        BY <4>3, <4>4 DEF Dwn
      <4>6. arriving'[q] = arriving[q]
        BY <2>1 DEF frameVars
      <4> QED BY <1>3, <1>4, <2>1, <2>2, <4>5, <4>6 DEF frameVars
    <3> QED BY <2>2, <3>1, <3>2 DEF RelayJoin
  <2>3. CASE RelayFrame(r, Head(up[r]).number) /\ Head(up[r]).type = "relay"
    <3>1. PICK n \in Nat : n = Head(up[r]).number
      BY <2>1, <2>3 DEF UpType
    <3>2. CASE seat[r] = "live"
      <4>1. PICK m \in DownType : m = [type |-> "relay", from |-> r, number |-> n]
        BY RelayMessages
      <4>2. /\ Tell(Reached \ {r}, m)
            /\ owed' = owed \cup {[to |-> x, from |-> r, number |-> n] : x \in Reached \ {r}}
        BY <2>3, <3>1, <3>2, <4>1 DEF RelayFrame
      <4>3. CASE f \in owed
        BY <1>8, <2>1, <4>2, <4>3
      <4>4. CASE f \notin owed
        <5>1. PICK x \in Reached \ {r} : f = [to |-> x, from |-> r, number |-> n]
          BY <4>2, <4>4
        <5>2. q \in Reached \ {r} /\ m \in DownFrom(p) /\ m.number = f.number
          BY <4>1, <5>1 DEF DownFrom, q, p
        <5>3. f.number \in Dwn(q, p)'
          BY <1>0, <1>1, <4>2, <5>2, TellKeeps
        <5> QED BY <5>3 DEF Goes, q, p
      <4> QED BY <4>3, <4>4
    <3>3. CASE seat[r] # "live"
      <4>1. PICK m \in DownType : m = [type |-> "error", fatal |-> FALSE]
        BY RelayMessages
      <4>2. Tell({r}, m) /\ owed' = owed
        BY <2>3, <3>3, <4>1 DEF RelayFrame
      <4> QED BY <1>8, <2>1, <4>2
    <3> QED BY <3>2, <3>3
  <2> QED BY <1>9, <2>2, <2>3 DEF RelayHandles
<1>10. ASSUME NEW r \in Peer, RelayNotices(r) PROVE Goes(f)'
  <2>1. PICK m \in DownType : m = [type |-> "peer-left", peer |-> r]
    BY RelayMessages
  <2> QED BY <1>8, <1>10, <2>1 DEF RelayNotices, pastVars
<1>11. ASSUME NEW r \in Peer, HandleSignalingMessage(r) PROVE Goes(f)'
  <2>1. PICK m \in DownType : m = Head(down[r])
    BY <1>0, <1>11, SignalIs
  <2>2. /\ down[r] # <<>> /\ down'[r] = Tail(down[r])
        /\ q # r => down'[q] = down[q]
        /\ UNCHANGED <<overtaken, got, decrypting, owed>>
        /\ arriving' = arriving \/ (m.type = "relay" /\ HandleFrame(r, m))
        /\ m.type = "relay" => HandleFrame(r, m)
    BY <1>0, <1>1, <1>11, <2>1, SignalIs
    DEF HandleSignalingMessage, HandleJoined, HandlePeerJoined, HandlePeerLeft, HandleError, pastVars
  <2>3. CASE q # r
    <3>1. arriving'[q] = arriving[q]
      BY <1>1, <2>2, <2>3 DEF HandleFrame
    <3> QED BY <1>3, <1>4, <2>2, <2>3, <3>1
  <2>4. CASE q = r
    <3>1. Dwn(q, p) = Dwn(q, p)' \cup (IF m \in DownFrom(p) THEN {m.number} ELSE {})
      <4>1. Nums(down[q], DownFrom(p))
              = Nums(Tail(down[q]), DownFrom(p)) \cup (IF Head(down[q]) \in DownFrom(p) THEN {Head(down[q]).number} ELSE {})
        BY <1>1, <2>2, <2>4, TailNums
      <4> QED BY <2>1, <2>2, <2>4, <4>1 DEF Dwn
    <3>2. CASE m.type # "relay"
      <4>1. arriving'[q] = arriving[q] /\ m \notin DownFrom(p)
        BY <2>2, <3>2 DEF DownFrom
      <4> QED BY <1>3, <1>4, <2>2, <3>1, <4>1
    <3>3. CASE m.type = "relay"
      <4>1. PICK g \in FrameType : g = [to |-> q, from |-> m.from, number |-> m.number]
        BY <1>1, <3>3 DEF FrameType, DownType
      <4>2. arriving'[q] = Append(arriving[q], g)
        BY <1>1, <2>2, <2>4, <3>3, <4>1 DEF HandleFrame
      <4>3. Nums(Append(arriving[q], g), ArrivingFrom(p))
              = Nums(arriving[q], ArrivingFrom(p)) \cup (IF g \in ArrivingFrom(p) THEN {g.number} ELSE {})
        BY <1>1, AppendNums
      <4>4. Arr(q, p)' = Arr(q, p) \cup (IF g \in ArrivingFrom(p) THEN {g.number} ELSE {})
        BY <4>2, <4>3 DEF Arr
      <4>5. m \in DownFrom(p) => g \in ArrivingFrom(p) /\ g.number = m.number
        BY <4>1 DEF DownFrom, ArrivingFrom
      <4>6. Arr(q, p) \cup Dwn(q, p) \subseteq Arr(q, p)' \cup Dwn(q, p)'
        BY <3>1, <4>4, <4>5
      <4> QED BY <1>2, <2>2, <4>6 DEF Goes, q, p
    <3> QED BY <3>2, <3>3
  <2> QED BY <2>3, <2>4
<1>12. ASSUME NEW r \in Peer, NEW i \in DOMAIN arriving[r], PrefixKnown(r, i) PROVE Goes(f)'
  <2>1. arriving[r] \in Seq(FrameType)
    BY <1>1
  <2>2. PICK g \in FrameType : g = arriving[r][i]
    BY <2>1
  <2>3. /\ arriving' = [arriving EXCEPT ![r] = RemoveAt(@, i)]
        /\ IF Validate(r, g) THEN decrypting' = decrypting \cup {g} ELSE UNCHANGED decrypting
        /\ overtaken \subseteq overtaken' /\ UNCHANGED <<got, down, owed>>
    BY <1>12, <2>2 DEF PrefixKnown, atRelay
  <2>4. CASE q # r \/ f.number \notin Arr(q, p)
    <3>1. CASE f.number \notin Arr(q, p)
      BY <1>2, <1>4, <2>3, <3>1 DEF Goes, q, p
    <3>2. CASE q # r
      <4>1. arriving'[q] = arriving[q]
        BY <1>1, <2>3, <3>2
      <4> QED BY <1>3, <1>4, <2>3, <4>1
    <3> QED BY <2>4, <3>1, <3>2
  <2>5. CASE q = r /\ f.number \in Arr(q, p)
    <3>1. f \in Range(RemoveAt(arriving[q], i)) \/ f = g
      <4>1. Range(arriving[r]) \subseteq Range(RemoveAt(arriving[r], i)) \cup {arriving[r][i]}
        BY <2>1, RemoveNums
      <4>2. f \in Range(arriving[q])
        BY <1>0, <2>5, ArrIs DEF q, p
      <4> QED BY <2>2, <2>5, <4>1, <4>2
    <3>2. CASE f \in Range(RemoveAt(arriving[q], i))
      <4>1. f \in Range(arriving'[q])
        BY <1>1, <2>3, <2>5, <3>2
      <4>2. f.number \in Arr(q, p)'
        <5>1. PICK j \in DOMAIN arriving'[q] : arriving'[q][j] = f
          BY <4>1 DEF Range
        <5>2. f \in ArrivingFrom(p)
          BY <1>0 DEF ArrivingFrom, p
        <5> QED BY <5>1, <5>2 DEF Arr, Nums
      <4> QED BY <4>2 DEF Goes, q, p
    <3>3. CASE f = g /\ Validate(r, g)
      BY <2>3, <3>3 DEF Goes
    <3>4. CASE f = g /\ ~Validate(r, g)
      <4>1. ~(last[q][p] < f.number) /\ last[q][p] \in Nat
        BY <1>0, <1>1, <2>5, <3>4 DEF Validate, FrameTypes, p
      <4>2. Pair(q, p)
        BY <1>1 DEF FramesInOrder
      <4>3. <<q, p>> \in overtaken
        BY <2>5, <4>1, <4>2 DEF Pair, InOrder, Ordered, Below
      <4> QED BY <2>3, <4>3 DEF Goes, q, p
    <3> QED BY <3>1, <3>2, <3>3, <3>4
  <2> QED BY <2>4, <2>5
<1>13. ASSUME NEW r \in Peer, Connect(r) \/ ReconnectTimer(r) \/ Opened(r) \/ Send(r) PROVE Goes(f)'
  BY <1>5, <1>13 DEF Connect, ReconnectTimer, Opened, Send, frameVars, atRelay, pastVars
<1>14. ASSUME NEW g, SendRelay(g) PROVE Goes(f)'
  <2>1. overtaken \subseteq overtaken' /\ UNCHANGED <<arriving, decrypting, got, down, owed>>
    BY <1>14 DEF SendRelay, Overtakes
  <2> QED BY <1>3, <1>4, <2>1
<1>15. ASSUME NEW g, Decrypted(g) PROVE Goes(f)'
  <2>1. /\ got \cup decrypting \subseteq got' \cup decrypting'
        /\ UNCHANGED <<arriving, down, owed, overtaken>>
    BY <1>15 DEF Decrypted, atRelay, pastVars
  <2> QED BY <1>3, <1>4, <2>1
<1>16. ASSUME NEW r \in Peer, Breaks(r) \/ RelayTimeout(r) PROVE Goes(f)'
  BY <1>6, <1>16 DEF Breaks, RelayTimeout
<1>17. CASE UNCHANGED peerVars
  BY <1>5, <1>17 DEF peerVars
<1> QED BY <1>6, <1>7, <1>9, <1>10, <1>11, <1>12, <1>13, <1>14, <1>15, <1>16, <1>17 DEF PeerNext

\* Over every reconnect, a frame that the relay passed on is accepted or still
\* under way unless a later frame of its sender overtook one: no receiver
\* starts to refuse the numbers of a sender.
THEOREM FramesArrive == PeerSpec => []LostOnlyByOvertaking
<1>1. PeerInit => OwedGo
  BY DEF PeerInit, OwedGo
<1>2. PeerTypeOK /\ OwedGo => LostOnlyByOvertaking
  <2> SUFFICES ASSUME PeerTypeOK, OwedGo, NEW f \in owed,
                      <<f.to, f.from>> \notin overtaken, f \notin got \cup decrypting,
                      f \notin Range(arriving[f.to])
               PROVE  \E i \in DOMAIN down[f.to] :
                        LET msg == down[f.to][i]
                        IN  msg.type = "relay" /\ msg.from = f.from /\ msg.number = f.number
    BY DEF LostOnlyByOvertaking
  <2>1. QueueTypes /\ f \in FrameType
    BY DEF PeerTypeOK, FrameTypes
  <2>2. f.number \in Dwn(f.to, f.from)
    BY <2>1, ArrIs DEF OwedGo, Goes
  <2> QED BY <2>2 DEF Dwn, Nums, DownFrom
<1> QED BY <1>1, <1>2, PeerTypesInit, PeerTypesStep, OrderInit, OrderStep, GoesStep, PTL DEF PeerSpec

=============================================================================

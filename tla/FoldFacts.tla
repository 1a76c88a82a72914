----------------------------- MODULE FoldFacts ------------------------------
(***************************************************************************)
(* Facts about the sums that the modules count with.  The folds of the     *)
(* community modules take the elements of a finite set one after the       *)
(* other, each time the one that "pick" names; a sum is defined here the   *)
(* same way, for functions f and pick.  Induction over finite sets is by   *)
(* a smallest counterexample: strict inclusion is well founded on them.    *)
(***************************************************************************)
EXTENDS Integers, FiniteSetTheorems, TLAPS

Iterates(it, f, pick, S) ==
  it = [s \in SUBSET S |-> IF s = {} THEN 0 ELSE it[s \ {pick[s]}] + f[pick[s]]]
Total(f, pick, S) == (CHOOSE it : Iterates(it, f, pick, S))[S]

Picks(pick, S) == \A s \in SUBSET S : s # {} => pick[s] \in s
Summable(f, pick, S) == IsFiniteSet(S) /\ Picks(pick, S) /\ \A x \in S : f[x] \in Int

-----------------------------------------------------------------------------
(* Smallest counterexamples                                                *)

\* Among subsets of a finite set, one has no other below it.
LEMMA Smallest ==
  ASSUME NEW S, IsFiniteSet(S), NEW T \in SUBSET (SUBSET S), T # {}
  PROVE  \E x \in T : \A y \in T : y \subseteq x => y = x
<1>1. IsWellFoundedOn(StrictSubsetOrdering(S), FiniteSubsetsOf(S))
  BY FS_StrictSubsetOrderingWellFounded
<1>2. T \subseteq FiniteSubsetsOf(S)
  BY FS_Subset DEF FiniteSubsetsOf
<1>3. PICK x \in T : \A y \in T : ~(<<y, x>> \in StrictSubsetOrdering(S))
  BY <1>1, <1>2, WFMin
<1>4. ASSUME NEW y \in T, y \subseteq x, y # x PROVE FALSE
  <2>1. <<y, x>> \in StrictSubsetOrdering(S)
    BY <1>2, <1>4 DEF StrictSubsetOrdering, FiniteSubsetsOf
  <2> QED BY <2>1, <1>3
<1> QED BY <1>4

-----------------------------------------------------------------------------
(* There is one way to iterate                                             *)

LEMMA SummableSubset ==
  ASSUME NEW f, NEW pick, NEW S, Summable(f, pick, S), NEW U \in SUBSET S
  PROVE  Summable(f, pick, U)
BY FS_Subset DEF Summable, Picks

LEMMA IterateUnique ==
  ASSUME NEW f, NEW pick, NEW S, Summable(f, pick, S), NEW R, Summable(f, pick, R),
         NEW g, Iterates(g, f, pick, S), NEW h, Iterates(h, f, pick, R),
         NEW U \in SUBSET S, U \in SUBSET R
  PROVE  g[U] = h[U]
<1> DEFINE Bad == {s \in SUBSET U : g[s] # h[s]}
<1> SUFFICES ASSUME Bad # {} PROVE FALSE
  OBVIOUS
<1>1. IsFiniteSet(U)
  BY FS_Subset DEF Summable
<1>2. PICK s \in Bad : \A r \in Bad : r \subseteq s => r = s
  <2> HIDE DEF Bad
  <2>1. Bad \in SUBSET (SUBSET U)
    BY DEF Bad
  <2> QED BY <1>1, <2>1, Smallest
<1>3. s \in SUBSET S /\ s \in SUBSET R
  OBVIOUS
<1>4. CASE s = {}
  BY <1>3, <1>4 DEF Iterates
<1>5. CASE s # {}
  <2>1. pick[s] \in s
    BY <1>3, <1>5 DEF Summable, Picks
  <2>2. g[s \ {pick[s]}] = h[s \ {pick[s]}]
    BY <1>2, <2>1
  <2>3. g[s] = g[s \ {pick[s]}] + f[pick[s]]
    BY <1>3, <1>5 DEF Iterates
  <2>4. h[s] = h[s \ {pick[s]}] + f[pick[s]]
    BY <1>3, <1>5 DEF Iterates
  <2> QED BY <2>2, <2>3, <2>4
<1> QED BY <1>4, <1>5

LEMMA IterateExists ==
  ASSUME NEW f, NEW pick, NEW S, Summable(f, pick, S)
  PROVE  \E it : Iterates(it, f, pick, S)
<1> DEFINE Bad == {U \in SUBSET S : ~\E it : Iterates(it, f, pick, U)}
           G(V) == CHOOSE it : Iterates(it, f, pick, V)
<1> SUFFICES ASSUME Bad # {} PROVE FALSE
  OBVIOUS
<1>1. PICK U \in Bad : \A V \in Bad : V \subseteq U => V = U
  <2> HIDE DEF Bad
  <2>1. Bad \in SUBSET (SUBSET S)
    BY DEF Bad
  <2> QED BY <2>1, Smallest DEF Summable
<1>2. ASSUME NEW V \in SUBSET U, V # U PROVE Iterates(G(V), f, pick, V)
  <2>1. \E it : Iterates(it, f, pick, V)
    BY <1>1, <1>2
  <2> QED BY <2>1
<1> DEFINE val(s) == G(s \ {pick[s]})[s \ {pick[s]}] + f[pick[s]]
           it == [s \in SUBSET U |-> IF s = {} THEN 0 ELSE val(s)]
<1>3. Picks(pick, U) /\ U \in SUBSET S
  BY DEF Summable, Picks
<1>4. ASSUME NEW r \in SUBSET U, r # U PROVE it[r] = G(r)[r]
  <2>1. Iterates(G(r), f, pick, r)
    BY <1>2, <1>4
  <2> HIDE DEF G
  <2>2. CASE r = {}
    BY <2>1, <2>2 DEF Iterates
  <2>3. CASE r # {}
    <3> DEFINE q == r \ {pick[r]}
    <3>1. pick[r] \in r
      BY <1>3, <2>3 DEF Picks
    <3>2. q \in SUBSET r /\ q \in SUBSET U /\ q # U
      BY <3>1
    <3>3. Iterates(G(q), f, pick, q)
      BY <1>2, <3>2 DEF G
    <3>4. Summable(f, pick, q) /\ Summable(f, pick, r)
      BY <1>3, <3>2, SummableSubset
    <3>5. G(r)[q] = G(q)[q]
      <4> HIDE DEF q
      <4> QED BY <2>1, <3>2, <3>3, <3>4, IterateUnique
    <3>6. G(r)[r] = G(r)[q] + f[pick[r]]
      BY <2>1, <2>3 DEF Iterates
    <3> QED BY <2>3, <3>5, <3>6
  <2> QED BY <2>2, <2>3
<1>5. \A s \in SUBSET U : s # {} => val(s) = it[s \ {pick[s]}] + f[pick[s]]
  <2> SUFFICES ASSUME NEW s \in SUBSET U, s # {}
               PROVE  val(s) = it[s \ {pick[s]}] + f[pick[s]]
    OBVIOUS
  <2>1. pick[s] \in s
    BY <1>3 DEF Picks
  <2>2. it[s \ {pick[s]}] = G(s \ {pick[s]})[s \ {pick[s]}]
    <3>1. s \ {pick[s]} \in SUBSET U /\ s \ {pick[s]} # U
      BY <2>1
    <3> HIDE DEF it, G
    <3> QED BY <1>4, <3>1
  <2> HIDE DEF it
  <2> QED BY <2>2
<1>6. Iterates(it, f, pick, U)
  <2>1. it = [s \in SUBSET U |-> IF s = {} THEN 0 ELSE it[s \ {pick[s]}] + f[pick[s]]]
    <3> HIDE DEF val
    <3>1. \A s \in SUBSET U : it[s] = IF s = {} THEN 0 ELSE val(s)
      OBVIOUS
    <3>2. it = [s \in SUBSET U |-> it[s]]
      OBVIOUS
    <3> HIDE DEF it
    <3> QED BY <1>5, <3>1, <3>2
  <2> HIDE DEF it
  <2> QED BY <2>1 DEF Iterates
<1> QED BY <1>1, <1>6

-----------------------------------------------------------------------------
(* Sums                                                                    *)

LEMMA TotalIterates ==
  ASSUME NEW f, NEW pick, NEW S, Summable(f, pick, S), NEW U \in SUBSET S,
         NEW it, Iterates(it, f, pick, S)
  PROVE  it[U] = Total(f, pick, U)
<1> DEFINE own == CHOOSE g : Iterates(g, f, pick, U)
<1>1. Summable(f, pick, U)
  BY SummableSubset
<1>2. Iterates(own, f, pick, U)
  <2>1. \E g : Iterates(g, f, pick, U)
    BY <1>1, IterateExists
  <2> QED BY <2>1
<1>3. Total(f, pick, U) = own[U]
  BY DEF Total
<1> HIDE DEF own
<1> QED BY <1>1, <1>2, <1>3, IterateUnique

LEMMA TotalStep ==
  ASSUME NEW f, NEW pick, NEW S, Summable(f, pick, S)
  PROVE  /\ S = {} => Total(f, pick, S) = 0
         /\ S # {} => Total(f, pick, S) = Total(f, pick, S \ {pick[S]}) + f[pick[S]]
<1>1. PICK it : Iterates(it, f, pick, S)
  BY IterateExists
<1>2. \A U \in SUBSET S : it[U] = Total(f, pick, U)
  BY <1>1, TotalIterates
<1>3. it[S] = IF S = {} THEN 0 ELSE it[S \ {pick[S]}] + f[pick[S]]
  BY <1>1 DEF Iterates
<1> QED BY <1>2, <1>3

LEMMA TotalEmpty ==
  ASSUME NEW f, NEW pick
  PROVE  Total(f, pick, {}) = 0
<1>1. Summable(f, pick, {})
  BY FS_EmptySet DEF Summable, Picks
<1> QED BY <1>1, TotalStep

LEMMA TotalType ==
  ASSUME NEW f, NEW pick, NEW S, Summable(f, pick, S)
  PROVE  Total(f, pick, S) \in Int
<1> DEFINE Bad == {U \in SUBSET S : Total(f, pick, U) \notin Int}
<1> SUFFICES ASSUME Bad # {} PROVE FALSE
  OBVIOUS
<1>1. PICK U \in Bad : \A V \in Bad : V \subseteq U => V = U
  <2> HIDE DEF Bad
  <2>1. Bad \in SUBSET (SUBSET S)
    BY DEF Bad
  <2> QED BY <2>1, Smallest DEF Summable
<1>2. Summable(f, pick, U)
  BY SummableSubset
<1>3. U # {}
  BY TotalEmpty
<1>4. pick[U] \in U /\ f[pick[U]] \in Int
  BY <1>2, <1>3 DEF Summable, Picks
<1>5. Total(f, pick, U \ {pick[U]}) \in Int
  BY <1>1, <1>4
<1>6. Total(f, pick, U) = Total(f, pick, U \ {pick[U]}) + f[pick[U]]
  BY <1>2, <1>3, TotalStep
<1> QED BY <1>4, <1>5, <1>6

\* The order in which the elements are taken does not matter.
LEMMA TotalRemove ==
  ASSUME NEW f, NEW pick, NEW S, Summable(f, pick, S), NEW e \in S
  PROVE  Total(f, pick, S) = Total(f, pick, S \ {e}) + f[e]
<1> DEFINE T(U) == Total(f, pick, U)
           Bad == {U \in SUBSET S : \E x \in U : T(U) # T(U \ {x}) + f[x]}
<1> SUFFICES ASSUME Bad # {} PROVE FALSE
  OBVIOUS
<1>1. PICK U \in Bad : \A V \in Bad : V \subseteq U => V = U
  <2> HIDE DEF Bad
  <2>1. Bad \in SUBSET (SUBSET S)
    BY DEF Bad
  <2> QED BY <2>1, Smallest DEF Summable
<1>x. PICK x \in U : T(U) # T(U \ {x}) + f[x]
  OBVIOUS
<1>2. \A V \in SUBSET U : Summable(f, pick, V)
  BY SummableSubset
<1>3. PICK y \in U : y = pick[U]
  BY <1>2, <1>x DEF Summable, Picks
<1>4. T(U) = T(U \ {y}) + f[y]
  BY <1>2, <1>3, TotalStep
<1>5. y # x
  BY <1>4, <1>x
<1>6. \A V \in SUBSET U : V # U => \A z \in V : T(V) = T(V \ {z}) + f[z]
  <2> SUFFICES ASSUME NEW V \in SUBSET U, V # U PROVE \A z \in V : T(V) = T(V \ {z}) + f[z]
    OBVIOUS
  <2>1. V \in SUBSET S /\ V \notin Bad
    <3> HIDE DEF Bad
    <3>1. Bad \subseteq SUBSET S
      BY DEF Bad
    <3> QED BY <1>1, <3>1
  <2> QED BY <2>1
<1>7. T(U \ {y}) = T((U \ {y}) \ {x}) + f[x]
  <2> HIDE DEF T
  <2> QED BY <1>3, <1>x, <1>5, <1>6
<1>8. T(U \ {x}) = T((U \ {x}) \ {y}) + f[y]
  <2> HIDE DEF T
  <2> QED BY <1>3, <1>x, <1>5, <1>6
<1>9. (U \ {y}) \ {x} = (U \ {x}) \ {y}
  OBVIOUS
<1>10. T((U \ {y}) \ {x}) \in Int /\ f[x] \in Int /\ f[y] \in Int
  BY <1>2, <1>3, TotalType DEF Summable
<1> HIDE DEF T
<1> QED BY <1>x, <1>4, <1>7, <1>8, <1>9, <1>10

LEMMA TotalAdd ==
  ASSUME NEW f, NEW pick, NEW S, NEW e, Summable(f, pick, S \cup {e}), e \notin S
  PROVE  Total(f, pick, S \cup {e}) = Total(f, pick, S) + f[e]
<1>1. (S \cup {e}) \ {e} = S
  OBVIOUS
<1> QED BY <1>1, TotalRemove

\* A sum depends on what is summed only, one for one.
LEMMA TotalReindex ==
  ASSUME NEW f, NEW pick, NEW S, Summable(f, pick, S),
         NEW g, NEW choice, NEW R, Summable(g, choice, R),
         NEW b \in [S -> R], \A x, y \in S : b[x] = b[y] => x = y,
         \A z \in R : \E x \in S : z = b[x],
         \A x \in S : f[x] = g[b[x]]
  PROVE  Total(f, pick, S) = Total(g, choice, R)
<1> DEFINE image(U) == {b[x] : x \in U}
           Bad == {U \in SUBSET S : Total(f, pick, U) # Total(g, choice, image(U))}
<1>1. ASSUME Bad # {} PROVE FALSE
  <2>1. PICK U \in Bad : \A V \in Bad : V \subseteq U => V = U
    <3> HIDE DEF Bad
    <3>1. Bad \in SUBSET (SUBSET S)
      BY DEF Bad
    <3> QED BY <1>1, <3>1, Smallest DEF Summable
  <2>2. image(U) \in SUBSET R /\ Summable(f, pick, U) /\ Summable(g, choice, image(U))
    <3>1. image(U) \in SUBSET R
      OBVIOUS
    <3> HIDE DEF image
    <3> QED BY <3>1, SummableSubset
  <2>3. U # {}
    <3>1. image({}) = {}
      OBVIOUS
    <3> HIDE DEF image
    <3> QED BY <3>1, TotalEmpty
  <2>4. PICK x \in U : TRUE
    BY <2>3
  <2>5. image(U \ {x}) = image(U) \ {b[x]} /\ b[x] \in image(U)
    OBVIOUS
  <2>6. U \ {x} \in SUBSET S /\ U \ {x} \notin Bad
    <3>1. U \ {x} # U /\ U \ {x} \subseteq U
      BY <2>4
    <3>2. U \ {x} \notin Bad
      <4> HIDE DEF Bad
      <4> QED BY <2>1, <3>1
    <3> QED BY <3>2
  <2>7. Total(f, pick, U \ {x}) = Total(g, choice, image(U) \ {b[x]})
    BY <2>5, <2>6
  <2> HIDE DEF image
  <2>8. Total(f, pick, U) = Total(f, pick, U \ {x}) + f[x]
    BY <2>2, TotalRemove
  <2>9. Total(g, choice, image(U)) = Total(g, choice, image(U) \ {b[x]}) + g[b[x]]
    BY <2>2, <2>5, TotalRemove
  <2>10. f[x] = g[b[x]]
    OBVIOUS
  <2>11. Total(f, pick, U) # Total(g, choice, image(U))
    BY DEF image
  <2> QED BY <2>7, <2>8, <2>9, <2>10, <2>11
<1>2. image(S) = R
  OBVIOUS
<1> HIDE DEF image
<1>3. S \notin Bad
  BY <1>1
<1> QED BY <1>2, <1>3

LEMMA TotalSame ==
  ASSUME NEW f, NEW pick, NEW S, Summable(f, pick, S),
         NEW g, NEW choice, Summable(g, choice, S), \A x \in S : f[x] = g[x]
  PROVE  Total(f, pick, S) = Total(g, choice, S)
<1> DEFINE b == [x \in S |-> x]
<1>1. /\ b \in [S -> S] /\ \A x, y \in S : b[x] = b[y] => x = y
      /\ \A z \in S : \E x \in S : z = b[x]
      /\ \A x \in S : f[x] = g[b[x]]
  OBVIOUS
<1> HIDE DEF b
<1> QED BY <1>1, TotalReindex

LEMMA TotalUnion ==
  ASSUME NEW f, NEW pick, NEW S, NEW R, Summable(f, pick, S \cup R), S \cap R = {}
  PROVE  Total(f, pick, S \cup R) = Total(f, pick, S) + Total(f, pick, R)
<1> DEFINE Bad == {U \in SUBSET R : Total(f, pick, S \cup U)
                                    # Total(f, pick, S) + Total(f, pick, U)}
<1>0. \A U \in SUBSET (S \cup R) : Summable(f, pick, U)
  BY SummableSubset
<1>1. ASSUME Bad # {} PROVE FALSE
  <2>1. PICK U \in Bad : \A V \in Bad : V \subseteq U => V = U
    <3> HIDE DEF Bad
    <3>1. Bad \in SUBSET (SUBSET R)
      BY DEF Bad
    <3> QED BY <1>0, <1>1, <3>1, Smallest DEF Summable
  <2>2. Total(f, pick, S) \in Int /\ Total(f, pick, {}) = 0 /\ S \cup {} = S
    BY <1>0, TotalType, TotalEmpty
  <2>3. U # {}
    BY <2>2
  <2>4. PICK x \in U : TRUE
    BY <2>3
  <2>5. Total(f, pick, S \cup (U \ {x})) = Total(f, pick, S) + Total(f, pick, U \ {x})
    <3>1. U \ {x} # U /\ U \ {x} \subseteq U
      BY <2>4
    <3>2. U \ {x} \notin Bad
      <4> HIDE DEF Bad
      <4> QED BY <2>1, <3>1
    <3> QED BY <3>2
  <2>6. (S \cup U) \ {x} = S \cup (U \ {x})
    BY <2>4
  <2>7. Total(f, pick, S \cup U) = Total(f, pick, S \cup (U \ {x})) + f[x]
    <3>1. Summable(f, pick, S \cup U) /\ x \in S \cup U
      BY <1>0
    <3> QED BY <2>6, <3>1, TotalRemove
  <2>8. Total(f, pick, U) = Total(f, pick, U \ {x}) + f[x]
    BY <1>0, TotalRemove
  <2>9. Total(f, pick, U \ {x}) \in Int /\ f[x] \in Int
    BY <1>0, TotalType DEF Summable
  <2>10. Total(f, pick, S \cup U) # Total(f, pick, S) + Total(f, pick, U)
    OBVIOUS
  <2> HIDE DEF Bad
  <2> QED BY <2>2, <2>5, <2>7, <2>8, <2>9, <2>10
<1> HIDE DEF Bad
<1>2. R \notin Bad
  BY <1>1
<1> QED BY <1>2 DEF Bad

LEMMA TotalNat ==
  ASSUME NEW f, NEW pick, NEW S, Summable(f, pick, S), \A x \in S : f[x] \in Nat
  PROVE  Total(f, pick, S) \in Nat
<1> DEFINE Bad == {U \in SUBSET S : Total(f, pick, U) \notin Nat}
<1> SUFFICES ASSUME Bad # {} PROVE FALSE
  OBVIOUS
<1>1. PICK U \in Bad : \A V \in Bad : V \subseteq U => V = U
  <2> HIDE DEF Bad
  <2>1. Bad \in SUBSET (SUBSET S)
    BY DEF Bad
  <2> QED BY <2>1, Smallest DEF Summable
<1>2. Summable(f, pick, U)
  BY SummableSubset
<1>3. U # {}
  BY TotalEmpty
<1>4. pick[U] \in U /\ f[pick[U]] \in Nat
  BY <1>2, <1>3 DEF Summable, Picks
<1>5. Total(f, pick, U \ {pick[U]}) \in Nat
  BY <1>1, <1>4
<1>6. Total(f, pick, U) = Total(f, pick, U \ {pick[U]}) + f[pick[U]]
  BY <1>2, <1>3, TotalStep
<1> QED BY <1>4, <1>5, <1>6

\* MapThenSumSet adds from the other side.
IteratesFront(it, f, pick, S) ==
  it = [s \in SUBSET S |-> IF s = {} THEN 0 ELSE f[pick[s]] + it[s \ {pick[s]}]]

LEMMA FrontIterates ==
  ASSUME NEW f, NEW pick, NEW S, Summable(f, pick, S), NEW it
  PROVE  IteratesFront(it, f, pick, S) <=> Iterates(it, f, pick, S)
<1>1. \A s \in SUBSET S : s # {} => s \ {pick[s]} \in SUBSET S /\ f[pick[s]] \in Int
  BY DEF Summable, Picks
<1>2. ASSUME \A s \in SUBSET S : it[s] \in Int
      PROVE  IteratesFront(it, f, pick, S) <=> Iterates(it, f, pick, S)
  <2>1. \A s \in SUBSET S : s # {} => f[pick[s]] + it[s \ {pick[s]}] = it[s \ {pick[s]}] + f[pick[s]]
    BY <1>1, <1>2
  <2>2. [s \in SUBSET S |-> IF s = {} THEN 0 ELSE f[pick[s]] + it[s \ {pick[s]}]]
        = [s \in SUBSET S |-> IF s = {} THEN 0 ELSE it[s \ {pick[s]}] + f[pick[s]]]
    BY <2>1
  <2> QED BY <2>2 DEF IteratesFront, Iterates
<1>3. ASSUME Iterates(it, f, pick, S) PROVE \A s \in SUBSET S : it[s] \in Int
  BY <1>3, TotalIterates, SummableSubset, TotalType
<1>4. ASSUME IteratesFront(it, f, pick, S) PROVE \A s \in SUBSET S : it[s] \in Int
  <2> DEFINE Bad == {s \in SUBSET S : it[s] \notin Int}
  <2> SUFFICES ASSUME Bad # {} PROVE FALSE
    OBVIOUS
  <2>1. PICK s \in Bad : \A r \in Bad : r \subseteq s => r = s
    <3> HIDE DEF Bad
    <3>1. Bad \in SUBSET (SUBSET S)
      BY DEF Bad
    <3> QED BY <3>1, Smallest DEF Summable
  <2>2. it[s] = IF s = {} THEN 0 ELSE f[pick[s]] + it[s \ {pick[s]}]
    BY <1>4 DEF IteratesFront
  <2>3. CASE s # {}
    <3>1. pick[s] \in s
      BY <2>3 DEF Summable, Picks
    <3>2. it[s \ {pick[s]}] \in Int
      BY <2>1, <3>1
    <3> QED BY <1>1, <2>2, <2>3, <3>2
  <2> QED BY <2>2, <2>3
<1> QED BY <1>2, <1>3, <1>4

LEMMA FrontTotal ==
  ASSUME NEW f, NEW pick, NEW S, Summable(f, pick, S)
  PROVE  (CHOOSE it : IteratesFront(it, f, pick, S))[S] = Total(f, pick, S)
<1>1. \A it : IteratesFront(it, f, pick, S) <=> Iterates(it, f, pick, S)
  BY FrontIterates
<1>2. (CHOOSE it : IteratesFront(it, f, pick, S)) = (CHOOSE it : Iterates(it, f, pick, S))
  BY <1>1
<1> QED BY <1>2 DEF Total

-----------------------------------------------------------------------------
(* Folds with another result than a sum, and other recursions              *)

\* A set of natural numbers has a least one.
LEMMA Least ==
  ASSUME NEW T, T \subseteq Nat, T # {}
  PROVE  \E n \in T : \A m \in T : n <= m
<1> DEFINE W(k) == {1..n : n \in {m \in T : m <= k}}
<1>1. PICK k \in T : TRUE
  OBVIOUS
<1>2. IsFiniteSet(1..k) /\ W(k) \in SUBSET (SUBSET (1..k)) /\ 1..k \in W(k)
  <2>1. k \in Int /\ 1 \in Int
    OBVIOUS
  <2>2. IsFiniteSet(1..k)
    BY <2>1, FS_Interval
  <2>3. \A n \in T : n <= k => 1..n \subseteq 1..k
    OBVIOUS
  <2> QED BY <2>2, <2>3
<1>3. PICK w \in W(k) : \A y \in W(k) : y \subseteq w => y = w
  <2> HIDE DEF W
  <2> QED BY <1>2, Smallest
<1>4. PICK n \in T : n <= k /\ w = 1..n
  OBVIOUS
<1>5. ASSUME NEW m \in T, m < n PROVE FALSE
  <2>1. 1..m \in W(k) /\ 1..m \subseteq 1..n
    BY <1>4, <1>5
  <2>2. n \in 1..n /\ n \notin 1..m
    BY <1>5
  <2> HIDE DEF W
  <2> QED BY <1>3, <1>4, <2>1, <2>2
<1> QED BY <1>5

FoldsBy(it, base, h, pick, S) ==
  it = [s \in SUBSET S |-> IF s = {} THEN base ELSE h[s][it[s \ {pick[s]}]]]

LEMMA FoldUnique ==
  ASSUME NEW S, IsFiniteSet(S), NEW pick, Picks(pick, S), NEW base, NEW h,
         NEW U \in SUBSET S, NEW V \in SUBSET S,
         NEW f, FoldsBy(f, base, h, pick, U), NEW g, FoldsBy(g, base, h, pick, V),
         NEW W \in SUBSET U, W \in SUBSET V
  PROVE  f[W] = g[W]
<1> DEFINE Bad == {s \in SUBSET W : f[s] # g[s]}
<1> SUFFICES ASSUME Bad # {} PROVE FALSE
  OBVIOUS
<1>1. PICK s \in Bad : \A r \in Bad : r \subseteq s => r = s
  <2> HIDE DEF Bad
  <2>1. Bad \in SUBSET (SUBSET W) /\ IsFiniteSet(W)
    BY FS_Subset DEF Bad
  <2> QED BY <2>1, Smallest
<1>2. s \in SUBSET U /\ s \in SUBSET V /\ s \in SUBSET S
  OBVIOUS
<1>3. s # {}
  BY <1>2 DEF FoldsBy
<1>4. pick[s] \in s
  BY <1>2, <1>3 DEF Picks
<1>5. f[s \ {pick[s]}] = g[s \ {pick[s]}]
  BY <1>1, <1>4
<1>6. f[s] = h[s][f[s \ {pick[s]}]] /\ g[s] = h[s][g[s \ {pick[s]}]]
  BY <1>2, <1>3 DEF FoldsBy
<1> QED BY <1>5, <1>6

\* A fold exists, and what it collects stays in A when every step does.
LEMMA FoldExists ==
  ASSUME NEW S, IsFiniteSet(S), NEW pick, Picks(pick, S), NEW base, NEW h
  PROVE  \E it : FoldsBy(it, base, h, pick, S)
<1> DEFINE Bad == {U \in SUBSET S : ~\E it : FoldsBy(it, base, h, pick, U)}
           G(V) == CHOOSE it : FoldsBy(it, base, h, pick, V)
<1> SUFFICES ASSUME Bad # {} PROVE FALSE
  OBVIOUS
<1>1. PICK U \in Bad : \A V \in Bad : V \subseteq U => V = U
  <2> HIDE DEF Bad
  <2>1. Bad \in SUBSET (SUBSET S)
    BY DEF Bad
  <2> QED BY <2>1, Smallest
<1>2. ASSUME NEW V \in SUBSET U, V # U PROVE FoldsBy(G(V), base, h, pick, V)
  <2>1. \E it : FoldsBy(it, base, h, pick, V)
    BY <1>1, <1>2
  <2> QED BY <2>1
<1> DEFINE val(s) == h[s][G(s \ {pick[s]})[s \ {pick[s]}]]
           it == [s \in SUBSET U |-> IF s = {} THEN base ELSE val(s)]
<1>3. Picks(pick, U) /\ U \in SUBSET S
  BY DEF Picks
<1>4. ASSUME NEW r \in SUBSET U, r # U PROVE it[r] = G(r)[r]
  <2>1. FoldsBy(G(r), base, h, pick, r)
    BY <1>2, <1>4
  <2> HIDE DEF G
  <2>2. CASE r = {}
    BY <2>1, <2>2 DEF FoldsBy
  <2>3. CASE r # {}
    <3> DEFINE q == r \ {pick[r]}
    <3>1. pick[r] \in r
      BY <1>3, <2>3 DEF Picks
    <3>2. q \in SUBSET r /\ q \in SUBSET U /\ q # U
      BY <3>1
    <3>3. FoldsBy(G(q), base, h, pick, q)
      BY <1>2, <3>2 DEF G
    <3>4. G(r)[q] = G(q)[q]
      <4>1. r \in SUBSET S /\ q \in SUBSET S /\ q \in SUBSET r
        BY <1>3, <3>2
      <4> HIDE DEF q
      <4> QED BY <2>1, <3>3, <4>1, FoldUnique
    <3>5. G(r)[r] = h[r][G(r)[q]]
      BY <2>1, <2>3 DEF FoldsBy
    <3> QED BY <2>3, <3>4, <3>5
  <2> QED BY <2>2, <2>3
<1>5. \A s \in SUBSET U : s # {} => val(s) = h[s][it[s \ {pick[s]}]]
  <2> SUFFICES ASSUME NEW s \in SUBSET U, s # {} PROVE val(s) = h[s][it[s \ {pick[s]}]]
    OBVIOUS
  <2>1. pick[s] \in s
    BY <1>3 DEF Picks
  <2>2. it[s \ {pick[s]}] = G(s \ {pick[s]})[s \ {pick[s]}]
    <3>1. s \ {pick[s]} \in SUBSET U /\ s \ {pick[s]} # U
      BY <2>1
    <3> HIDE DEF it, G
    <3> QED BY <1>4, <3>1
  <2> HIDE DEF it
  <2> QED BY <2>2
<1>6. FoldsBy(it, base, h, pick, U)
  <2>1. it = [s \in SUBSET U |-> IF s = {} THEN base ELSE h[s][it[s \ {pick[s]}]]]
    <3> HIDE DEF val
    <3>1. \A s \in SUBSET U : it[s] = IF s = {} THEN base ELSE val(s)
      OBVIOUS
    <3>2. it = [s \in SUBSET U |-> it[s]]
      OBVIOUS
    <3> HIDE DEF it
    <3> QED BY <1>5, <3>1, <3>2
  <2> HIDE DEF it
  <2> QED BY <2>1 DEF FoldsBy
<1> QED BY <1>1, <1>6

LEMMA FoldType ==
  ASSUME NEW S, IsFiniteSet(S), NEW pick, Picks(pick, S), NEW A, NEW base \in A,
         NEW h, \A a \in A : \A s \in SUBSET S : h[s][a] \in A,
         NEW it, FoldsBy(it, base, h, pick, S), NEW U \in SUBSET S
  PROVE  it[U] \in A
<1> DEFINE Bad == {s \in SUBSET S : it[s] \notin A}
<1> SUFFICES ASSUME Bad # {} PROVE FALSE
  OBVIOUS
<1>1. PICK s \in Bad : \A r \in Bad : r \subseteq s => r = s
  <2> HIDE DEF Bad
  <2>1. Bad \in SUBSET (SUBSET S)
    BY DEF Bad
  <2> QED BY <2>1, Smallest
<1>2. CASE s = {}
  BY <1>2 DEF FoldsBy
<1>3. CASE s # {}
  <2>1. pick[s] \in s
    BY <1>3 DEF Picks
  <2>2. it[s \ {pick[s]}] \in A
    BY <1>1, <2>1
  <2>3. it[s] = h[s][it[s \ {pick[s]}]]
    BY <1>3 DEF FoldsBy
  <2> QED BY <2>2, <2>3
<1> QED BY <1>2, <1>3

\* Induction over the first numbers, with a set for the property.
LEMMA CountUp ==
  ASSUME NEW n \in Nat, NEW P, 0 \in P, \A i \in 1..n : i - 1 \in P => i \in P
  PROVE  \A i \in 0..n : i \in P
<1> DEFINE Bad == {i \in 0..n : i \notin P}
<1> SUFFICES ASSUME Bad # {} PROVE FALSE
  OBVIOUS
<1>1. PICK m \in Bad : \A k \in Bad : m <= k
  <2> HIDE DEF Bad
  <2>1. Bad \subseteq Nat
    BY DEF Bad
  <2> QED BY <2>1, Least
<1>2. m \in 1..n /\ m - 1 \in 0..n /\ ~(m <= m - 1)
  OBVIOUS
<1>3. m - 1 \notin Bad
  <2> HIDE DEF Bad
  <2> QED BY <1>1, <1>2
<1> QED BY <1>2, <1>3

-----------------------------------------------------------------------------
(* Folds of sequences take the indices of a sequence from the highest down *)

Highest(s) == CHOOSE y \in s : \A z \in s : y >= z

LEMMA HighestIs ==
  ASSUME NEW n \in Nat, NEW s \in SUBSET (1..n), s # {}
  PROVE  Highest(s) \in s /\ \A z \in s : z <= Highest(s)
<1> DEFINE Above == {m \in Nat : \A z \in s : z <= m}
<1>1. n \in Above
  OBVIOUS
<1>2. PICK m \in Above : \A k \in Above : m <= k
  <2> HIDE DEF Above
  <2>1. Above \subseteq Nat
    BY DEF Above
  <2> QED BY <1>1, <2>1, Least
<1>3. m \in s
  <2> SUFFICES ASSUME m \notin s PROVE FALSE
    OBVIOUS
  <2>1. m \in Nat /\ \A z \in s : z <= m /\ z # m /\ z \in Nat \ {0}
    BY <1>2
  <2>2. m - 1 \in Above
    <3>1. \E z \in s : z \in Nat \ {0} /\ z <= m
      BY <2>1
    <3>2. m - 1 \in Nat
      BY <2>1, <3>1
    <3> QED BY <2>1, <3>2
  <2> HIDE DEF Above
  <2> QED BY <1>2, <2>1, <2>2
<1> QED BY <1>3 DEF Highest

LEMMA PrefixIs ==
  ASSUME NEW n \in Nat, NEW m \in 1..n
  PROVE  /\ 1..m \in SUBSET (1..n) /\ 1..m # {} /\ Highest(1..m) = m
         /\ (1..m) \ {m} = 1..(m - 1)
<1>1. m \in Nat /\ m <= n /\ 1 <= m /\ m \in 1..m
  OBVIOUS
<1>2. \A x \in 1..m : x \in 1..n
  BY <1>1
<1>3. (1..m) \ {m} = 1..(m - 1)
  BY <1>1
<1>4. Highest(1..m) \in 1..m /\ m <= Highest(1..m)
  BY <1>1, <1>2, HighestIs
<1>5. Highest(1..m) = m
  BY <1>1, <1>4
<1> QED BY <1>1, <1>2, <1>3, <1>5

\* One step for every element, the results of which are all in A.
Steps(it, base, step, n) ==
  it = [s \in SUBSET (1..n) |-> IF s = {} THEN base
                                ELSE step[Highest(s)][it[s \ {Highest(s)}]]]

LEMMA StepsExist ==
  ASSUME NEW n \in Nat, NEW A, NEW base \in A, NEW step \in [1..n -> [A -> A]]
  PROVE  \E it : Steps(it, base, step, n) /\ \A s \in SUBSET (1..n) : it[s] \in A
<1> DEFINE pick == [s \in SUBSET (1..n) |-> Highest(s)]
           h == [s \in SUBSET (1..n) |-> IF s = {} THEN [a \in A |-> a] ELSE step[Highest(s)]]
<1>1. \A s \in SUBSET (1..n) : s # {} => Highest(s) \in s
  BY HighestIs
<1>2. Picks(pick, 1..n)
  BY <1>1 DEF Picks
<1>3. IsFiniteSet(1..n)
  <2>1. 1 \in Int /\ n \in Int
    OBVIOUS
  <2> QED BY <2>1, FS_Interval
<1>4. PICK it : FoldsBy(it, base, h, pick, 1..n)
  <2> HIDE DEF pick, h
  <2> QED BY <1>2, <1>3, FoldExists
<1>5. \A a \in A : \A s \in SUBSET (1..n) : h[s][a] \in A
  <2> SUFFICES ASSUME NEW a \in A, NEW s \in SUBSET (1..n) PROVE h[s][a] \in A
    OBVIOUS
  <2>1. CASE s = {}
    BY <2>1
  <2>2. CASE s # {}
    <3>1. step[Highest(s)] \in [A -> A]
      BY <1>1, <2>2
    <3> QED BY <2>2, <3>1
  <2> QED BY <2>1, <2>2
<1>6. \A s \in SUBSET (1..n) : it[s] \in A
  <2> HIDE DEF pick, h
  <2> QED BY <1>2, <1>3, <1>4, <1>5, FoldType
<1>7. Steps(it, base, step, n)
  BY <1>1, <1>4 DEF FoldsBy, Steps
<1> QED BY <1>6, <1>7

=============================================================================

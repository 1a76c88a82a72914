------------------------- MODULE PauseBuffer_proofs -------------------------
(***************************************************************************)
(* Proofs about PauseBuffer: pauses hold back what they should, and every  *)
(* remote update is accounted for and merged in order, for any files,      *)
(* sizes, limits and pause ids.                                            *)
(***************************************************************************)
EXTENDS PauseBuffer, FoldFacts

-----------------------------------------------------------------------------
(* Pauses                                                                  *)

\* Nothing but users, agents and git pauses the daemon.
KnownPauses == pauses \subseteq Reason /\ \A r \in pauses : r.source # "auto"

LEMMA KnownPausesStep == KnownPauses /\ [Next]_vars => KnownPauses'
<1> SUFFICES ASSUME KnownPauses, [Next]_vars PROVE KnownPauses'
  OBVIOUS
<1>1. ASSUME pauses' \subseteq pauses PROVE KnownPauses'
  BY <1>1 DEF KnownPauses
<1>2. ASSUME NEW r \in Reason, r.source # "auto", pauses' = pauses \cup {r} PROVE KnownPauses'
  BY <1>2 DEF KnownPauses
<1>3. ASSUME NEW i \in PauseId
      PROVE  /\ [source |-> "user", id |-> i] \in Reason /\ [source |-> "mcp", id |-> i] \in Reason
             /\ GitReason \in Reason /\ GitReason.source = "git"
  BY DEF Reason, GitReason
<1>4. ASSUME NEW i \in PauseId, UserPause(i) \/ McpPause(i) PROVE KnownPauses'
  <2>1. CASE UserPause(i)
    BY <1>2, <1>3, <2>1 DEF UserPause, AddPause
  <2>2. CASE McpPause(i)
    BY <1>2, <1>3, <2>2 DEF McpPause, AddPause
  <2> QED BY <1>4, <2>1, <2>2
<1>5. CASE UserResume \/ ForceResume \/ McpResume
  BY <1>1, <1>5 DEF UserResume, ForceResume, McpResume, Leaves, Without
<1>6. ASSUME NEW c \in Check, CheckEnds(c) PROVE KnownPauses'
  <2>1. GitReason \in Reason /\ GitReason.source # "auto"
    BY DEF Reason, GitReason
  <2>2. CASE OperationStarts(c)
    BY <1>1, <1>2, <2>1, <2>2 DEF OperationStarts, AddPause
  <2>3. CASE OperationEnds(c) \/ NothingNew(c)
    BY <1>1, <2>3 DEF OperationEnds, NothingNew, Leaves
  <2> QED BY <1>6, <2>2, <2>3 DEF CheckEnds
<1>7. CASE \/ Engine \/ Git \/ UNCHANGED vars
           \/ \E f \in File : LocalEdit(f) \/ \E n \in Size : RemoteUpdate(f, n)
           \/ \E w \in writes : WriteFile(w) \/ WriteGivenUp(w)
           \/ \E c \in Check : CheckBegins(c)
  BY <1>1, <1>7 DEF Engine, Git, vars, pauseVars, LocalEdit, RemoteUpdate, WriteFile,
                    WriteGivenUp, CheckBegins
<1> QED BY <1>4, <1>5, <1>6, <1>7 DEF Next

\* The tree has all files and no others.
TreeOK == DOMAIN tree = File

LEMMA TreeStep == TreeOK /\ [Next]_vars => TreeOK'
<1> SUFFICES ASSUME TreeOK, [Next]_vars PROVE TreeOK'
  OBVIOUS
<1>1. ASSUME UNCHANGED tree PROVE TreeOK'
  BY <1>1 DEF TreeOK
<1>2. ASSUME NEW s, Handle(s) PROVE TreeOK'
  BY <1>1, <1>2 DEF Handle, Merge
<1>3. ASSUME NEW rest, Leaves(rest) PROVE TreeOK'
  BY <1>1, <1>2, <1>3 DEF Leaves, Flush
<1>4. CASE UserResume \/ ForceResume \/ McpResume \/ \E i \in PauseId : UserPause(i) \/ McpPause(i)
  BY <1>1, <1>3, <1>4 DEF UserResume, ForceResume, McpResume, UserPause, McpPause, AddPause, textVars
<1>5. ASSUME NEW c \in Check, CheckEnds(c) PROVE TreeOK'
  BY <1>1, <1>3, <1>5 DEF CheckEnds, OperationStarts, OperationEnds, NothingNew, AddPause, textVars
<1>6. ASSUME NEW f \in File, NEW n \in Size, RemoteUpdate(f, n) PROVE TreeOK'
  BY <1>1, <1>2, <1>6 DEF RemoteUpdate
<1>7. CASE \/ \E f \in File : LocalEdit(f)
           \/ \E w \in writes : WriteFile(w) \/ WriteGivenUp(w)
  BY <1>7 DEF LocalEdit, WriteFile, WriteGivenUp, TreeOK
<1>8. CASE Engine \/ Git \/ UNCHANGED vars \/ \E c \in Check : CheckBegins(c)
  BY <1>1, <1>8 DEF Engine, Git, CheckBegins, textVars, vars
<1> QED BY <1>4, <1>5, <1>6, <1>7, <1>8 DEF Next

LEMMA PausesStep == TreeOK /\ KnownPauses /\ [Next]_vars => [pauses' # {} => (IsPaused => NothingPasses) /\ OthersKeepPausing]_vars
<1> SUFFICES ASSUME TreeOK, KnownPauses, Next, pauses' # {}
             PROVE  (IsPaused => NothingPasses) /\ OthersKeepPausing
  OBVIOUS
<1>1. ASSUME pauses \subseteq pauses' PROVE OthersKeepPausing
  BY <1>1 DEF OthersKeepPausing
<1>2. ASSUME UNCHANGED <<applied, doc, tree, writes>> PROVE NothingPasses
  BY <1>2 DEF NothingPasses
<1>3. ASSUME NEW rest, Leaves(rest) PROVE NothingPasses
  <2>1. rest # {}
    BY <1>3 DEF Leaves
  <2> QED BY <1>2, <1>3, <2>1 DEF Leaves
<1>4. ASSUME NEW i \in PauseId, UserPause(i) \/ McpPause(i)
      PROVE  NothingPasses /\ OthersKeepPausing
  BY <1>1, <1>2, <1>4 DEF UserPause, McpPause, AddPause, remoteVars, textVars
<1>5. CASE UserResume
  <2>1. Leaves(Without("user"))
    BY <1>5 DEF UserResume
  <2>2. \A r \in pauses \ pauses' : r.source = "user"
    BY <2>1 DEF Leaves, Without, Clearable
  <2> QED BY <1>3, <2>1, <2>2 DEF OthersKeepPausing
<1>6. CASE ForceResume
  BY <1>6 DEF ForceResume, Leaves
<1>7. CASE McpResume
  <2>1. \E rest : Leaves(rest)
    BY <1>7 DEF McpResume
  <2>2. mcpId' = NoId
    BY <1>7 DEF McpResume
  <2>3. \A r \in pauses \ pauses' : r.source = "mcp"
    <3>1. CASE mcpId = NoId
      <4>1. pauses' = {r \in pauses : r.source \notin {"mcp", "auto"}}
        BY <1>7, <3>1 DEF McpResume, Leaves, Without, Clearable
      <4> QED BY <4>1 DEF KnownPauses
    <3>2. CASE mcpId # NoId
      <4>1. pauses' = pauses \ {[source |-> "mcp", id |-> mcpId]}
        BY <1>7, <3>2 DEF McpResume, Leaves
      <4> QED BY <4>1
    <3> QED BY <3>1, <3>2
  <2> QED BY <1>3, <2>1, <2>2, <2>3 DEF OthersKeepPausing
<1>8. ASSUME NEW c \in Check, CheckEnds(c) PROVE NothingPasses /\ OthersKeepPausing
  <2>1. CASE OperationStarts(c)
    BY <1>1, <1>2, <2>1 DEF OperationStarts, AddPause, remoteVars, textVars
  <2>2. CASE OperationEnds(c)
    <3>1. Leaves(pauses \ {GitReason}) /\ gitOp /\ ~gitOp'
      BY <2>2 DEF OperationEnds
    <3>2. \A r \in pauses \ pauses' : r = GitReason
      BY <3>1 DEF Leaves
    <3> QED BY <1>3, <3>1, <3>2 DEF OthersKeepPausing, GitReason
  <2>3. CASE NothingNew(c)
    BY <1>1, <1>2, <2>3 DEF NothingNew, remoteVars, textVars
  <2> QED BY <1>8, <2>1, <2>2, <2>3 DEF CheckEnds
<1>9. ASSUME NEW f \in File, LocalEdit(f) PROVE (IsPaused => NothingPasses) /\ OthersKeepPausing
  <2>1. OthersKeepPausing
    BY <1>1, <1>9 DEF LocalEdit, pauseVars
  <2>2. ASSUME IsPaused PROVE NothingPasses
    <3>1. PICK e : tree' = [tree EXCEPT ![f] = @ \cup {e}]
      BY <1>9 DEF LocalEdit
    <3>2. \A g \in File : tree[g] \subseteq tree'[g]
      BY <3>1
    <3> QED BY <1>9, <2>2, <3>2 DEF LocalEdit, NothingPasses, remoteVars
  <2> QED BY <2>1, <2>2
<1>10. ASSUME NEW f \in File, NEW n \in Size, RemoteUpdate(f, n)
       PROVE  (IsPaused => NothingPasses) /\ OthersKeepPausing
  BY <1>1, <1>2, <1>10 DEF RemoteUpdate, pauseVars
<1>11. CASE Engine \/ Git \/ \E c \in Check : CheckBegins(c)
  BY <1>1, <1>2, <1>11 DEF Engine, Git, CheckBegins, pauseVars, remoteVars, textVars
<1>12. ASSUME NEW w \in writes, WriteFile(w) \/ WriteGivenUp(w)
       PROVE  NothingPasses /\ OthersKeepPausing
  <2>1. OthersKeepPausing /\ UNCHANGED <<applied, doc>> /\ writes' \subseteq writes
    BY <1>1, <1>12 DEF WriteFile, WriteGivenUp, pauseVars, remoteVars
  <2>2. \A g \in File : tree'[g] = tree[g] \/ (g = w.path /\ tree'[g] = w.text)
    BY <1>12 DEF WriteFile, WriteGivenUp, TreeOK
  <2> QED BY <2>1, <2>2 DEF NothingPasses
<1> QED BY <1>4, <1>5, <1>6, <1>7, <1>8, <1>9, <1>10, <1>11, <1>12 DEF Next

\* While one reason or another pauses the daemon no remote update is merged
\* and no write to the working tree begins (a write that began before may
\* land), and whoever resumes without force lifts the reasons of one source
\* only.
THEOREM PausesAreKept == Spec => PausesHold
<1>1. Init => TreeOK /\ KnownPauses
  BY DEF Init, TreeOK, KnownPauses
<1> QED BY <1>1, KnownPausesStep, TreeStep, PausesStep, PTL DEF Spec, PausesHold

-----------------------------------------------------------------------------
(* Series of updates                                                       *)

\* The folds over a series, one update after the other.
Keep(ok, u) == IF u.path \in Blocked THEN ok ELSE Append(ok, u)

LEMMA AllowedSteps ==
  ASSUME NEW s \in Seq(Update)
  PROVE  \E g : /\ g[0] = <<>> /\ g[Len(s)] = Allowed(s)
                /\ \A i \in 1..Len(s) : g[i] = Keep(g[i - 1], s[i])
<1> DEFINE n == Len(s)
           Folds(it) == it = [x \in SUBSET DOMAIN s |->
             IF x = {} THEN <<>> ELSE Keep(it[x \ {Highest(x)}], s[Highest(x)])]
           all == CHOOSE it : Folds(it)
           step == [i \in 1..n |-> [a \in Seq(Update) |-> Keep(a, s[i])]]
<1>1. n \in Nat /\ DOMAIN s = 1..n /\ \A i \in 1..n : s[i] \in Update
  OBVIOUS
<1>2. Allowed(s) = all[DOMAIN s]
  BY DEF Allowed, FoldLeft, MapThenFoldSet, Max, Highest, Keep
<1> HIDE DEF n
<1>3. step \in [1..n -> [Seq(Update) -> Seq(Update)]]
  <2>1. \A a \in Seq(Update) : \A u \in Update : Keep(a, u) \in Seq(Update)
    BY DEF Keep
  <2> QED BY <1>1, <2>1
<1>4. PICK it : Steps(it, <<>>, step, n) /\ \A x \in SUBSET (1..n) : it[x] \in Seq(Update)
  <2> HIDE DEF step
  <2>1. <<>> \in Seq(Update)
    OBVIOUS
  <2> QED BY <1>1, <1>3, <2>1, StepsExist
<1>5. \A x \in SUBSET (1..n) : x # {} =>
        step[Highest(x)][it[x \ {Highest(x)}]] = Keep(it[x \ {Highest(x)}], s[Highest(x)])
  <2> SUFFICES ASSUME NEW x \in SUBSET (1..n), x # {}
               PROVE  step[Highest(x)][it[x \ {Highest(x)}]] = Keep(it[x \ {Highest(x)}], s[Highest(x)])
    OBVIOUS
  <2>1. Highest(x) \in 1..n
    BY <1>1, HighestIs
  <2>2. it[x \ {Highest(x)}] \in Seq(Update)
    BY <1>4
  <2> QED BY <2>1, <2>2
<1>6. Folds(it)
  <2>1. it = [x \in SUBSET (1..n) |-> IF x = {} THEN <<>> ELSE step[Highest(x)][it[x \ {Highest(x)}]]]
    BY <1>4 DEF Steps
  <2> HIDE DEF step
  <2> QED BY <1>1, <1>5, <2>1
<1>7. Folds(all)
  BY <1>6
<1> DEFINE g == [i \in 0..n |-> all[1..i]]
<1> HIDE DEF all, step
<1>8. g[0] = <<>>
  <2>1. 1..0 = {} /\ 0 \in 0..n
    BY <1>1
  <2>2. all[{}] = <<>>
    BY <1>7
  <2> QED BY <2>1, <2>2
<1>9. ASSUME NEW i \in 1..n PROVE g[i] = Keep(g[i - 1], s[i])
  <2>1. i \in 0..n /\ i - 1 \in 0..n
    BY <1>1
  <2>2. /\ 1..i \in SUBSET (1..n) /\ 1..i # {} /\ Highest(1..i) = i
        /\ (1..i) \ {i} = 1..(i - 1)
    BY <1>1, PrefixIs
  <2>3. all[1..i] = Keep(all[(1..i) \ {i}], s[i])
    BY <1>1, <1>7, <2>2
  <2> QED BY <2>1, <2>2, <2>3
<1>10. g[n] = Allowed(s)
  BY <1>1, <1>2
<1> QED BY <1>8, <1>9, <1>10 DEF n

LEMMA BytesSteps ==
  ASSUME NEW s \in Seq(Update)
  PROVE  \E g : /\ g[0] = 0 /\ g[Len(s)] = BytesOf(s)
                /\ \A i \in 1..Len(s) : g[i] = g[i - 1] + s[i].size
<1> DEFINE n == Len(s)
           Folds(it) == it = [x \in SUBSET DOMAIN s |->
             IF x = {} THEN 0 ELSE it[x \ {Highest(x)}] + s[Highest(x)].size]
           all == CHOOSE it : Folds(it)
           step == [i \in 1..n |-> [a \in Nat |-> a + s[i].size]]
<1>1. n \in Nat /\ DOMAIN s = 1..n /\ \A i \in 1..n : s[i].size \in Nat
  <2>1. n \in Nat /\ DOMAIN s = 1..n /\ \A i \in 1..n : s[i] \in Update
    OBVIOUS
  <2>2. \A u \in Update : u.size \in Nat
    BY LimitAssumption DEF Update
  <2> QED BY <2>1, <2>2
<1>2. BytesOf(s) = all[DOMAIN s]
  BY DEF BytesOf, FoldLeft, MapThenFoldSet, Max, Highest
<1> HIDE DEF n
<1>3. step \in [1..n -> [Nat -> Nat]]
  BY <1>1
<1>4. PICK it : Steps(it, 0, step, n) /\ \A x \in SUBSET (1..n) : it[x] \in Nat
  <2> HIDE DEF step
  <2> QED BY <1>1, <1>3, StepsExist
<1>5. \A x \in SUBSET (1..n) : x # {} =>
        step[Highest(x)][it[x \ {Highest(x)}]] = it[x \ {Highest(x)}] + s[Highest(x)].size
  <2> SUFFICES ASSUME NEW x \in SUBSET (1..n), x # {}
               PROVE  step[Highest(x)][it[x \ {Highest(x)}]] = it[x \ {Highest(x)}] + s[Highest(x)].size
    OBVIOUS
  <2>1. Highest(x) \in 1..n
    BY <1>1, HighestIs
  <2>2. it[x \ {Highest(x)}] \in Nat
    BY <1>4
  <2> QED BY <2>1, <2>2
<1>6. Folds(it)
  <2>1. it = [x \in SUBSET (1..n) |-> IF x = {} THEN 0 ELSE step[Highest(x)][it[x \ {Highest(x)}]]]
    BY <1>4 DEF Steps
  <2> HIDE DEF step
  <2> QED BY <1>1, <1>5, <2>1
<1>7. Folds(all)
  BY <1>6
<1> DEFINE g == [i \in 0..n |-> all[1..i]]
<1> HIDE DEF all, step
<1>8. g[0] = 0
  <2>1. 1..0 = {} /\ 0 \in 0..n
    BY <1>1
  <2>2. all[{}] = 0
    BY <1>7
  <2> QED BY <2>1, <2>2
<1>9. ASSUME NEW i \in 1..n PROVE g[i] = g[i - 1] + s[i].size
  <2>1. i \in 0..n /\ i - 1 \in 0..n
    BY <1>1
  <2>2. /\ 1..i \in SUBSET (1..n) /\ 1..i # {} /\ Highest(1..i) = i
        /\ (1..i) \ {i} = 1..(i - 1)
    BY <1>1, PrefixIs
  <2>3. all[1..i] = all[(1..i) \ {i}] + s[i].size
    BY <1>1, <1>7, <2>2
  <2> QED BY <2>1, <2>2, <2>3
<1>10. g[n] = BytesOf(s)
  BY <1>1, <1>2
<1> QED BY <1>8, <1>9, <1>10 DEF n

Rising(s) == \A i, j \in DOMAIN s : i < j => s[i].id < s[j].id

\* The updates that name no blocked path, in their order.
LEMMA AllowedIs ==
  ASSUME NEW s \in Seq(Update)
  PROVE  /\ Allowed(s) \in Seq(Update) /\ ToSet(Allowed(s)) \subseteq ToSet(s)
         /\ Rising(s) => Rising(Allowed(s))
<1>1. PICK g : /\ g[0] = <<>> /\ g[Len(s)] = Allowed(s)
               /\ \A i \in 1..Len(s) : g[i] = Keep(g[i - 1], s[i])
  BY AllowedSteps
<1> DEFINE Of(i) == \A k \in DOMAIN g[i] : \E j \in 1..i : g[i][k] = s[j]
           P == {i \in 0..Len(s) : g[i] \in Seq(Update) /\ Of(i) /\ (Rising(s) => Rising(g[i]))}
<1>2. Len(s) \in Nat /\ DOMAIN s = 1..Len(s)
  OBVIOUS
<1>3. 0 \in P
  <2>1. g[0] = <<>> /\ DOMAIN g[0] = {} /\ <<>> \in Seq(Update) /\ 0 \in 0..Len(s)
    BY <1>1, <1>2
  <2> QED BY <2>1 DEF Rising
<1>4. ASSUME NEW i \in 1..Len(s), i - 1 \in P PROVE i \in P
  <2>1. /\ i \in 0..Len(s) /\ i \in Nat /\ s[i] \in Update /\ g[i - 1] \in Seq(Update) /\ Of(i - 1)
        /\ Rising(s) => Rising(g[i - 1])
    BY <1>2, <1>4
  <2>2. CASE g[i] = g[i - 1]
    <3>1. \A j \in 1..(i - 1) : j \in 1..i
      BY <2>1
    <3> QED BY <2>1, <2>2, <3>1
  <2>3. CASE g[i] = Append(g[i - 1], s[i])
    <3> DEFINE t == g[i - 1]
               r == g[i]
    <3>1. /\ r \in Seq(Update) /\ Len(t) \in Nat /\ DOMAIN t = 1..Len(t) /\ DOMAIN r = 1..(Len(t) + 1)
          /\ (\A k \in DOMAIN t : r[k] = t[k]) /\ r[Len(t) + 1] = s[i]
      BY <2>1, <2>3
    <3>2. \A k \in DOMAIN t : \E j \in 1..(i - 1) : t[k] = s[j]
      BY <2>1
    <3>3. Rising(s) => Rising(t)
      BY <2>1
    <3> HIDE DEF t, r
    <3>4. \A j \in 1..(i - 1) : j \in 1..i /\ j \in DOMAIN s /\ j < i
      BY <1>2, <2>1
    <3>5. i \in 1..i /\ i \in DOMAIN s
      BY <1>2, <2>1
    <3>6. \A k \in DOMAIN r : k \in DOMAIN t \/ k = Len(t) + 1
      BY <3>1
    <3>7. \A k \in DOMAIN r : \E j \in 1..i : r[k] = s[j]
      BY <3>1, <3>2, <3>4, <3>5, <3>6
    <3>8. ASSUME Rising(s) PROVE Rising(r)
      <4> SUFFICES ASSUME NEW a \in DOMAIN r, NEW b \in DOMAIN r, a < b PROVE r[a].id < r[b].id
        BY DEF Rising
      <4>1. a \in DOMAIN t
        BY <3>1
      <4>2. CASE b \in DOMAIN t
        BY <3>1, <3>3, <3>8, <4>1, <4>2 DEF Rising
      <4>3. CASE b = Len(t) + 1
        <5>1. PICK j \in 1..(i - 1) : t[a] = s[j]
          BY <3>2, <4>1
        <5>2. j \in DOMAIN s /\ j < i
          BY <3>4
        <5> QED BY <3>1, <3>5, <3>8, <4>1, <4>3, <5>1, <5>2 DEF Rising
      <4> QED BY <3>6, <4>2, <4>3
    <3> QED BY <2>1, <3>1, <3>7, <3>8 DEF r
  <2> QED BY <1>1, <2>2, <2>3 DEF Keep
<1>5. Len(s) \in P
  <2> HIDE DEF P
  <2>1. \A i \in 0..Len(s) : i \in P
    BY <1>2, <1>3, <1>4, CountUp
  <2> QED BY <1>2, <2>1
<1>6. Allowed(s) \in Seq(Update) /\ Of(Len(s)) /\ (Rising(s) => Rising(Allowed(s)))
  BY <1>1, <1>5
<1>7. \A k \in DOMAIN Allowed(s) : \E j \in DOMAIN s : Allowed(s)[k] = s[j]
  BY <1>1, <1>2, <1>6
<1> QED BY <1>6, <1>7 DEF ToSet

LEMMA BytesIs ==
  ASSUME NEW s \in Seq(Update)
  PROVE  /\ BytesOf(<<>>) = 0 /\ BytesOf(s) \in Nat
         /\ \A u \in Update : BytesOf(Append(s, u)) = BytesOf(s) + u.size
         /\ s # <<>> => BytesOf(s) = s[1].size + BytesOf(Tail(s))
<1>1. PICK g : /\ g[0] = 0 /\ g[Len(s)] = BytesOf(s)
               /\ \A i \in 1..Len(s) : g[i] = g[i - 1] + s[i].size
  BY BytesSteps
<1>2. /\ Len(s) \in Nat /\ DOMAIN s = 1..Len(s) /\ Len(s) \in 0..Len(s)
      /\ \A i \in 1..Len(s) : s[i] \in Update
  OBVIOUS
<1>3. \A u \in Update : u.size \in Nat
  BY LimitAssumption DEF Update
<1>4. BytesOf(<<>>) = 0
  <2>1. <<>> \in Seq(Update) /\ Len(<<>>) = 0
    OBVIOUS
  <2>2. PICK e : e[0] = 0 /\ e[Len(<<>>)] = BytesOf(<<>>)
    BY <2>1, BytesSteps
  <2> QED BY <2>1, <2>2
<1>5. \A i \in 0..Len(s) : g[i] \in Nat
  <2> DEFINE P == {i \in 0..Len(s) : g[i] \in Nat}
  <2>1. 0 \in P
    BY <1>1, <1>2
  <2>2. ASSUME NEW i \in 1..Len(s), i - 1 \in P PROVE i \in P
    <3>1. i \in 0..Len(s)
      BY <1>2
    <3> QED BY <1>1, <1>2, <1>3, <2>2, <3>1
  <2>3. \A i \in 0..Len(s) : i \in P
    <3> HIDE DEF P
    <3> QED BY <1>2, <2>1, <2>2, CountUp
  <2> QED BY <2>3
<1>6. BytesOf(s) \in Nat
  BY <1>1, <1>2, <1>5
<1>7. ASSUME NEW u \in Update PROVE BytesOf(Append(s, u)) = BytesOf(s) + u.size
  <2> DEFINE t == Append(s, u)
             n == Len(s)
  <2>1. /\ t \in Seq(Update) /\ Len(t) = n + 1 /\ t[n + 1] = u
        /\ \A i \in 1..n : t[i] = s[i]
    OBVIOUS
  <2>2. PICK h : /\ h[0] = 0 /\ h[Len(t)] = BytesOf(t)
                 /\ \A i \in 1..Len(t) : h[i] = h[i - 1] + t[i].size
    <3> HIDE DEF t
    <3> QED BY <2>1, BytesSteps
  <2> DEFINE P == {i \in 0..n : h[i] = g[i]}
  <2> HIDE DEF t
  <2>3. 0 \in P
    BY <1>1, <1>2, <2>2
  <2>4. ASSUME NEW i \in 1..n, i - 1 \in P PROVE i \in P
    <3>1. i \in 0..n /\ i \in 1..(n + 1)
      BY <1>2
    <3> QED BY <1>1, <2>1, <2>2, <2>4, <3>1
  <2>5. n \in P
    <3> HIDE DEF P
    <3>1. \A i \in 0..n : i \in P
      BY <1>2, <2>3, <2>4, CountUp
    <3> QED BY <1>2, <3>1
  <2>6. n + 1 \in 1..Len(t) /\ (n + 1) - 1 = n
    BY <1>2, <2>1
  <2>7. h[n + 1] = h[(n + 1) - 1] + t[n + 1].size
    <3> HIDE DEF P, n
    <3> QED BY <2>2, <2>6
  <2>8. h[n] = BytesOf(s)
    BY <1>1, <2>5
  <2> HIDE DEF P, n
  <2> QED BY <2>1, <2>2, <2>6, <2>7, <2>8 DEF t
<1>8. ASSUME s # <<>> PROVE BytesOf(s) = s[1].size + BytesOf(Tail(s))
  <2> DEFINE t == Tail(s)
             n == Len(s) - 1
  <2>1. /\ t \in Seq(Update) /\ Len(t) = n /\ n \in Nat /\ n + 1 = Len(s) /\ 1 \in 1..Len(s)
        /\ \A i \in 1..n : t[i] = s[i + 1]
    BY <1>8
  <2>2. PICK h : /\ h[0] = 0 /\ h[n] = BytesOf(t)
                 /\ \A i \in 1..n : h[i] = h[i - 1] + t[i].size
    <3> HIDE DEF t, n
    <3> QED BY <2>1, BytesSteps
  <2> DEFINE P == {i \in 0..n : h[i] \in Nat /\ g[i + 1] = s[1].size + h[i]}
  <2> HIDE DEF t, n
  <2>3. 0 \in P
    <3>1. g[1] = g[1 - 1] + s[1].size
      BY <1>1, <2>1
    <3>2. s[1].size \in Nat
      BY <1>2, <1>3, <2>1
    <3> QED BY <1>1, <2>1, <2>2, <3>1, <3>2
  <2>4. ASSUME NEW i \in 1..n, i - 1 \in P PROVE i \in P
    <3>1. i \in 0..n /\ i + 1 \in 1..Len(s) /\ (i + 1) - 1 = i /\ (i - 1) + 1 = i /\ i \in Nat
      BY <1>2, <2>1
    <3>2. g[i + 1] = g[i] + s[i + 1].size
      BY <1>1, <3>1
    <3>3. g[i] = s[1].size + h[i - 1] /\ h[i - 1] \in Nat
      BY <2>4, <3>1
    <3>4. h[i] = h[i - 1] + s[i + 1].size
      BY <2>1, <2>2
    <3>5. s[1].size \in Nat /\ s[i + 1].size \in Nat
      BY <1>2, <1>3, <2>1, <3>1
    <3>6. h[i] \in Nat /\ g[i + 1] = s[1].size + h[i]
      BY <3>2, <3>3, <3>4, <3>5
    <3> QED BY <3>1, <3>6
  <2>5. n \in P
    <3> HIDE DEF P
    <3>1. \A i \in 0..n : i \in P
      BY <2>1, <2>3, <2>4, CountUp
    <3> QED BY <2>1, <3>1
  <2> QED BY <1>1, <2>1, <2>2, <2>5 DEF t
<1> QED BY <1>4, <1>6, <1>7, <1>8

LEMMA UpdateIs ==
  ASSUME NEW s \in Seq(Update)
  PROVE  \A i \in DOMAIN s : s[i] \in Update /\ s[i].id \in Nat /\ s[i].id \in 1..RemoteBound
<1>1. \A u \in Update : u.id \in 1..RemoteBound
  BY DEF Update
<1> QED BY <1>1, LimitAssumption

\* Numbers in ascending order, and the ids of a series that rises.
Ascends(s) == \A i, j \in DOMAIN s : i < j => s[i] < s[j]

LEMMA IdSeqIs ==
  ASSUME NEW s \in Seq(Update)
  PROVE  /\ IdSeq(s) \in Seq(Nat) /\ Len(IdSeq(s)) = Len(s) /\ ToSet(IdSeq(s)) = Ids(s)
         /\ Rising(s) => Ascends(IdSeq(s))
<1>1. Len(s) \in Nat /\ DOMAIN s = 1..Len(s) /\ \A i \in 1..Len(s) : s[i].id \in Nat
  BY UpdateIs
<1>2. /\ IdSeq(s) \in [1..Len(s) -> Nat] /\ DOMAIN IdSeq(s) = 1..Len(s)
      /\ \A i \in 1..Len(s) : IdSeq(s)[i] = s[i].id
  BY <1>1 DEF IdSeq
<1>3. IdSeq(s) \in Seq(Nat) /\ Len(IdSeq(s)) = Len(s)
  BY <1>1, <1>2
<1>4. ToSet(IdSeq(s)) = Ids(s)
  BY <1>1, <1>2 DEF ToSet, Ids
<1>5. Rising(s) => Ascends(IdSeq(s))
  BY <1>1, <1>2 DEF Rising, Ascends
<1> QED BY <1>3, <1>4, <1>5

\* As many numbers as places, when the numbers ascend.
LEMMA NumbersCount ==
  ASSUME NEW s \in Seq(Nat), Ascends(s)
  PROVE  IsFiniteSet(ToSet(s)) /\ Cardinality(ToSet(s)) = Len(s)
<1> DEFINE I(i) == {s[j] : j \in 1..i}
           P == {i \in 0..Len(s) : IsFiniteSet(I(i)) /\ Cardinality(I(i)) = i}
<1>1. Len(s) \in Nat /\ DOMAIN s = 1..Len(s) /\ \A i \in 1..Len(s) : s[i] \in Nat
  OBVIOUS
<1>2. 0 \in P
  <2>1. I(0) = {} /\ 0 \in 0..Len(s)
    BY <1>1
  <2> HIDE DEF I
  <2> QED BY <2>1, FS_EmptySet
<1>3. ASSUME NEW i \in 1..Len(s), i - 1 \in P PROVE i \in P
  <2>1. i \in 0..Len(s) /\ i \in Nat /\ i - 1 \in Nat
    BY <1>1
  <2>2. I(i) = I(i - 1) \cup {s[i]}
    <3>1. \A j \in 1..i : j = i \/ j \in 1..(i - 1)
      BY <2>1
    <3>2. \A j \in 1..(i - 1) : j \in 1..i
      BY <2>1
    <3>3. i \in 1..i
      BY <2>1
    <3> QED BY <3>1, <3>2, <3>3
  <2>3. s[i] \notin I(i - 1)
    <3>1. \A j \in 1..(i - 1) : j \in DOMAIN s /\ i \in DOMAIN s /\ j < i
      BY <1>1, <2>1
    <3>2. \A j \in 1..(i - 1) : s[j] < s[i] /\ s[j] \in Nat /\ s[i] \in Nat
      BY <1>1, <3>1 DEF Ascends
    <3>3. \A j \in 1..(i - 1) : s[j] # s[i]
      BY <3>2
    <3> QED BY <3>3
  <2>4. IsFiniteSet(I(i - 1)) /\ Cardinality(I(i - 1)) = i - 1
    BY <1>3
  <2> HIDE DEF I
  <2>5. IsFiniteSet(I(i)) /\ Cardinality(I(i)) = i
    <3>1. /\ IsFiniteSet(I(i - 1) \cup {s[i]})
          /\ Cardinality(I(i - 1) \cup {s[i]}) = Cardinality(I(i - 1)) + 1
      BY <2>3, <2>4, FS_AddElement
    <3> QED BY <2>1, <2>2, <2>4, <3>1
  <2> QED BY <2>1, <2>5
<1>4. Len(s) \in P
  <2> HIDE DEF P
  <2>1. \A i \in 0..Len(s) : i \in P
    BY <1>1, <1>2, <1>3, CountUp
  <2> QED BY <1>1, <2>1
<1>5. ToSet(s) = I(Len(s))
  BY <1>1 DEF ToSet
<1> QED BY <1>4, <1>5

LEMMA AppendUpdates ==
  ASSUME NEW s \in Seq(Update), NEW u \in Update, Rising(s), \A x \in Ids(s) : x < u.id
  PROVE  /\ Append(s, u) \in Seq(Update) /\ Rising(Append(s, u))
         /\ Ids(Append(s, u)) = Ids(s) \cup {u.id} /\ Len(Append(s, u)) = Len(s) + 1
<1> DEFINE t == Append(s, u)
<1>1. /\ t \in Seq(Update) /\ Len(s) \in Nat /\ DOMAIN s = 1..Len(s) /\ DOMAIN t = 1..(Len(s) + 1)
      /\ (\A i \in DOMAIN s : t[i] = s[i]) /\ t[Len(s) + 1] = u /\ Len(t) = Len(s) + 1
  OBVIOUS
<1> HIDE DEF t
<1>2. \A i \in DOMAIN t : i \in DOMAIN s \/ i = Len(s) + 1
  BY <1>1
<1>3. \A i \in DOMAIN s : i \in DOMAIN t
  BY <1>1
<1>4. Len(s) + 1 \in DOMAIN t
  BY <1>1
<1>5. Ids(t) = Ids(s) \cup {u.id}
  <2>1. ToSet(t) = ToSet(s) \cup {u}
    BY <1>1, <1>2, <1>3, <1>4 DEF ToSet
  <2> QED BY <2>1 DEF Ids
<1>6. Rising(t)
  <2> SUFFICES ASSUME NEW i \in DOMAIN t, NEW j \in DOMAIN t, i < j PROVE t[i].id < t[j].id
    BY DEF Rising
  <2>1. i \in DOMAIN s
    BY <1>1
  <2>2. s[i].id \in Ids(s)
    BY <2>1 DEF Ids, ToSet
  <2>3. CASE j \in DOMAIN s
    BY <1>1, <2>1, <2>3 DEF Rising
  <2>4. CASE j = Len(s) + 1
    BY <1>1, <2>1, <2>2, <2>4
  <2> QED BY <1>2, <2>3, <2>4
<1> QED BY <1>1, <1>5, <1>6 DEF t

LEMMA TailUpdates ==
  ASSUME NEW s \in Seq(Update), s # <<>>, Rising(s)
  PROVE  /\ Tail(s) \in Seq(Update) /\ Rising(Tail(s)) /\ Len(Tail(s)) + 1 = Len(s)
         /\ s[1] \in Update /\ Ids(s) = Ids(Tail(s)) \cup {s[1].id} /\ s[1].id \notin Ids(Tail(s))
<1> DEFINE t == Tail(s)
<1>1. /\ t \in Seq(Update) /\ Len(s) \in Nat \ {0} /\ DOMAIN s = 1..Len(s) /\ DOMAIN t = 1..(Len(s) - 1)
      /\ (\A i \in DOMAIN t : t[i] = s[i + 1]) /\ Len(t) + 1 = Len(s)
  OBVIOUS
<1> HIDE DEF t
<1>2. 1 \in DOMAIN s /\ \A i \in DOMAIN t : i + 1 \in DOMAIN s /\ 1 < i + 1
  BY <1>1
<1>3. \A i \in DOMAIN s : i = 1 \/ (i - 1 \in DOMAIN t /\ t[i - 1] = s[i])
  <2> SUFFICES ASSUME NEW i \in DOMAIN s, i # 1 PROVE i - 1 \in DOMAIN t /\ t[i - 1] = s[i]
    OBVIOUS
  <2>1. i - 1 \in DOMAIN t /\ (i - 1) + 1 = i
    BY <1>1
  <2> QED BY <1>1, <2>1
<1>4. Ids(s) = Ids(t) \cup {s[1].id}
  <2>1. ToSet(s) = ToSet(t) \cup {s[1]}
    BY <1>1, <1>2, <1>3 DEF ToSet
  <2> QED BY <2>1 DEF Ids
<1>5. s[1].id \notin Ids(t)
  <2> SUFFICES ASSUME NEW i \in DOMAIN t, t[i].id = s[1].id PROVE FALSE
    BY DEF Ids, ToSet
  <2>1. s[1].id < s[i + 1].id /\ t[i] = s[i + 1]
    BY <1>1, <1>2 DEF Rising
  <2>2. s[1].id \in Nat
    BY <1>2, UpdateIs
  <2> QED BY <2>1, <2>2
<1>6. Rising(t)
  <2> SUFFICES ASSUME NEW i \in DOMAIN t, NEW j \in DOMAIN t, i < j PROVE t[i].id < t[j].id
    BY DEF Rising
  <2>1. i + 1 < j + 1
    BY <1>1
  <2> QED BY <1>1, <1>2, <2>1 DEF Rising
<1>7. s[1] \in Update
  BY <1>2, UpdateIs
<1> QED BY <1>1, <1>4, <1>5, <1>6, <1>7 DEF t

LEMMA ConcatNumbers ==
  ASSUME NEW s \in Seq(Nat), NEW t \in Seq(Nat), Ascends(s), Ascends(t),
         \A x \in ToSet(s), y \in ToSet(t) : x < y
  PROVE  s \o t \in Seq(Nat) /\ Ascends(s \o t) /\ ToSet(s \o t) = ToSet(s) \cup ToSet(t)
<1> DEFINE c == s \o t
<1>1. /\ c \in Seq(Nat) /\ Len(s) \in Nat /\ Len(t) \in Nat
      /\ DOMAIN s = 1..Len(s) /\ DOMAIN t = 1..Len(t) /\ DOMAIN c = 1..(Len(s) + Len(t))
      /\ \A i \in DOMAIN s : c[i] = s[i]
      /\ \A i \in DOMAIN c : i > Len(s) => c[i] = t[i - Len(s)]
      /\ \A i \in DOMAIN t : c[Len(s) + i] = t[i]
  <2>1. c \in Seq(Nat) /\ Len(s) \in Nat /\ Len(t) \in Nat
    OBVIOUS
  <2>2. DOMAIN s = 1..Len(s) /\ DOMAIN t = 1..Len(t) /\ DOMAIN c = 1..(Len(s) + Len(t))
    OBVIOUS
  <2>3. \A i \in DOMAIN s : c[i] = s[i]
    OBVIOUS
  <2>4. \A i \in DOMAIN c : i > Len(s) => c[i] = t[i - Len(s)]
    OBVIOUS
  <2>5. \A i \in DOMAIN t : c[Len(s) + i] = t[i]
    OBVIOUS
  <2> QED BY <2>1, <2>2, <2>3, <2>4, <2>5
<1> HIDE DEF c
<1>2. \A i \in DOMAIN c : i \in DOMAIN s \/ (i - Len(s) \in DOMAIN t /\ i > Len(s))
  BY <1>1
<1>3. (\A i \in DOMAIN s : i \in DOMAIN c) /\ \A i \in DOMAIN t : Len(s) + i \in DOMAIN c
  <2> DEFINE m == Len(s)
             n == Len(t)
  <2>1. m \in Nat /\ n \in Nat /\ DOMAIN s = 1..m /\ DOMAIN t = 1..n /\ DOMAIN c = 1..(m + n)
    BY <1>1
  <2> HIDE DEF m, n
  <2>2. \A i \in DOMAIN s : i \in DOMAIN c
    BY <2>1
  <2>3. \A i \in DOMAIN t : m + i \in DOMAIN c
    BY <2>1
  <2> QED BY <2>2, <2>3 DEF m
<1>4. ToSet(c) = ToSet(s) \cup ToSet(t)
  <2>1. ASSUME NEW x \in ToSet(c) PROVE x \in ToSet(s) \cup ToSet(t)
    <3>1. PICK i \in DOMAIN c : x = c[i]
      BY <2>1 DEF ToSet
    <3>2. CASE i \in DOMAIN s
      BY <1>1, <3>1, <3>2 DEF ToSet
    <3>3. CASE i - Len(s) \in DOMAIN t /\ i > Len(s)
      BY <1>1, <3>1, <3>3 DEF ToSet
    <3> QED BY <1>2, <3>2, <3>3
  <2>2. ASSUME NEW x \in ToSet(s) PROVE x \in ToSet(c)
    BY <1>1, <1>3, <2>2 DEF ToSet
  <2>3. ASSUME NEW x \in ToSet(t) PROVE x \in ToSet(c)
    <3>1. PICK i \in DOMAIN t : x = t[i]
      BY <2>3 DEF ToSet
    <3> QED BY <1>1, <1>3, <3>1 DEF ToSet
  <2> QED BY <2>1, <2>2, <2>3
<1>5. Ascends(c)
  <2> SUFFICES ASSUME NEW i \in DOMAIN c, NEW j \in DOMAIN c, i < j PROVE c[i] < c[j]
    BY DEF Ascends
  <2>1. CASE i \in DOMAIN s /\ j \in DOMAIN s
    BY <1>1, <2>1 DEF Ascends
  <2>2. CASE i \in DOMAIN s /\ j - Len(s) \in DOMAIN t /\ j > Len(s)
    <3>1. s[i] \in ToSet(s) /\ t[j - Len(s)] \in ToSet(t)
      BY <2>2 DEF ToSet
    <3> QED BY <1>1, <2>2, <3>1
  <2>3. CASE i - Len(s) \in DOMAIN t /\ i > Len(s) /\ j - Len(s) \in DOMAIN t /\ j > Len(s)
    <3>1. i - Len(s) < j - Len(s)
      BY <1>1
    <3> QED BY <1>1, <2>3, <3>1 DEF Ascends
  <2>4. CASE i - Len(s) \in DOMAIN t /\ i > Len(s) /\ j \in DOMAIN s
    BY <1>1, <2>4
  <2> QED BY <1>2, <2>1, <2>2, <2>3, <2>4
<1> QED BY <1>1, <1>4, <1>5 DEF c

-----------------------------------------------------------------------------
(* Where the updates are                                                   *)

Apart(B, A, E, D, R) ==
  /\ B \cap A = {} /\ B \cap E = {} /\ B \cap D = {} /\ B \cap R = {}
  /\ A \cap E = {} /\ A \cap D = {} /\ A \cap R = {}
  /\ E \cap D = {} /\ E \cap R = {} /\ D \cap R = {}
Series ==
  /\ buffered \in Seq(Update) /\ applied \in Seq(Nat)
  /\ Rising(buffered) /\ Ascends(applied)
  /\ \A x \in ToSet(applied), y \in Ids(buffered) : x < y
Shares ==
  /\ Ids(buffered) \cup ToSet(applied) \cup evicted \cup discarded \cup refused = 1 .. received
  /\ Apart(Ids(buffered), ToSet(applied), evicted, discarded, refused)
AccountInv ==
  /\ received \in 0..RemoteBound /\ Series /\ Shares
  /\ BufferBounded /\ FlushedWhenResumed

\* What becomes of a series that is handled.
LEMMA HandleIs ==
  ASSUME NEW s \in Seq(Update), Rising(s), applied \in Seq(Nat), Ascends(applied),
         \A x \in ToSet(applied), y \in Ids(s) : x < y, Handle(s)
  PROVE  /\ applied' \in Seq(Nat) /\ Ascends(applied')
         /\ \E ok \in SUBSET Ids(s) :
              /\ ToSet(applied') = ToSet(applied) \cup ok
              /\ \/ discarded' = discarded /\ refused' = refused \cup (Ids(s) \ ok)
                 \/ ok = {} /\ discarded' = discarded \cup Ids(s) /\ refused' = refused
<1>1. CASE Syncing
  <2> DEFINE t == Allowed(s)
  <2>1. /\ applied' = applied \o IdSeq(t) /\ refused' = refused \cup (Ids(s) \ Ids(t))
        /\ discarded' = discarded
    BY <1>1 DEF Handle, Merge
  <2>2. t \in Seq(Update) /\ Ids(t) \subseteq Ids(s) /\ Rising(t)
    BY AllowedIs DEF Ids
  <2> HIDE DEF t
  <2>3. IdSeq(t) \in Seq(Nat) /\ Ascends(IdSeq(t)) /\ ToSet(IdSeq(t)) = Ids(t)
    BY <2>2, IdSeqIs
  <2>4. /\ applied \o IdSeq(t) \in Seq(Nat) /\ Ascends(applied \o IdSeq(t))
        /\ ToSet(applied \o IdSeq(t)) = ToSet(applied) \cup Ids(t)
    BY <2>2, <2>3, ConcatNumbers
  <2> QED BY <2>1, <2>2, <2>4
<1>2. CASE ~Syncing
  <2>1. applied' = applied /\ discarded' = discarded \cup Ids(s) /\ refused' = refused
    BY <1>2 DEF Handle
  <2>2. {} \in SUBSET Ids(s) /\ ToSet(applied') = ToSet(applied) \cup {}
    BY <2>1
  <2> QED BY <2>1, <2>2
<1> QED BY <1>1, <1>2

LEMMA NoUpdates == <<>> \in Seq(Update) /\ Rising(<<>>) /\ Ids(<<>>) = {} /\ BytesOf(<<>>) = 0
<1>1. <<>> \in Seq(Update) /\ DOMAIN <<>> = {}
  OBVIOUS
<1> QED BY <1>1, BytesIs DEF Rising, Ids, ToSet

LEMMA OneUpdate ==
  ASSUME NEW u \in Update
  PROVE  <<u>> \in Seq(Update) /\ Rising(<<u>>) /\ Ids(<<u>>) = {u.id}
<1>1. PICK s : s = <<u>>
  OBVIOUS
<1>2. s \in Seq(Update) /\ DOMAIN s = {1} /\ s[1] = u
  BY <1>1
<1>3. Rising(s)
  BY <1>2 DEF Rising
<1>4. Ids(s) = {u.id}
  BY <1>2 DEF Ids, ToSet
<1> QED BY <1>1, <1>2, <1>3, <1>4

LEMMA FlushKeeps ==
  ASSUME AccountInv, Flush, UNCHANGED <<received, evicted>>
  PROVE  AccountInv'
<1>1. /\ buffered \in Seq(Update) /\ applied \in Seq(Nat) /\ Rising(buffered) /\ Ascends(applied)
      /\ \A x \in ToSet(applied), y \in Ids(buffered) : x < y
      /\ Handle(buffered) /\ buffered' = <<>> /\ bufferedBytes' = 0
  BY DEF AccountInv, Series, Flush
<1>2. applied' \in Seq(Nat) /\ Ascends(applied')
  BY <1>1, HandleIs
<1>3. PICK ok \in SUBSET Ids(buffered) :
        /\ ToSet(applied') = ToSet(applied) \cup ok
        /\ \/ discarded' = discarded /\ refused' = refused \cup (Ids(buffered) \ ok)
           \/ ok = {} /\ discarded' = discarded \cup Ids(buffered) /\ refused' = refused
  BY <1>1, HandleIs
<1>4. /\ <<>> \in Seq(Update) /\ Rising(<<>>) /\ Ids(<<>>) = {} /\ BytesOf(<<>>) = 0
      /\ Len(<<>>) = 0
  BY NoUpdates
<1>5. Series'
  BY <1>1, <1>2, <1>4 DEF Series
<1>6. Shares'
  BY <1>1, <1>3, <1>4 DEF AccountInv, Shares, Apart
<1>7. BufferBounded' /\ FlushedWhenResumed'
  BY <1>1, <1>4, LimitAssumption DEF BufferBounded, FlushedWhenResumed
<1> QED BY <1>5, <1>6, <1>7 DEF AccountInv

LEMMA LeavesKeeps ==
  ASSUME AccountInv, NEW rest, Leaves(rest) PROVE AccountInv'
<1>1. CASE rest = {}
  BY <1>1, FlushKeeps DEF Leaves
<1>2. CASE rest # {}
  BY <1>2 DEF Leaves, AccountInv, Series, Shares, BufferBounded, FlushedWhenResumed, IsPaused
<1> QED BY <1>1, <1>2

LEMMA QuietKeeps ==
  ASSUME AccountInv, UNCHANGED remoteVars, pauses \subseteq pauses' PROVE AccountInv'
BY DEF AccountInv, Series, Shares, BufferBounded, FlushedWhenResumed, IsPaused, remoteVars

LEMMA BufferKeeps ==
  ASSUME AccountInv, NEW u \in Update, u.id = received + 1, received' = u.id, IsPaused,
         Buffer(u), UNCHANGED <<applied, discarded, refused, pauses>>
  PROVE  AccountInv'
<1> DEFINE kept == MakeRoom(u)
<1>1. /\ buffered' = Append(kept, u)
      /\ bufferedBytes' = bufferedBytes - (BytesOf(buffered) - BytesOf(kept)) + u.size
      /\ evicted' = evicted \cup (Ids(buffered) \ Ids(kept))
  BY DEF Buffer
<1>2. /\ buffered \in Seq(Update) /\ Rising(buffered) /\ received \in Nat /\ u.size \in Nat
      /\ Len(buffered) \in Nat /\ Len(buffered) <= MaxUpdates /\ bufferedBytes = BytesOf(buffered)
  <2>1. buffered \in Seq(Update) /\ Rising(buffered) /\ BufferBounded
    BY DEF AccountInv, Series
  <2>2. received \in Nat
    BY LimitAssumption DEF AccountInv
  <2>3. u.size \in Nat
    BY LimitAssumption DEF Update
  <2> QED BY <2>1, <2>2, <2>3 DEF BufferBounded
<1>3. /\ kept \in Seq(Update) /\ Rising(kept) /\ Ids(kept) \subseteq Ids(buffered)
      /\ Len(kept) \in Nat /\ Len(kept) + 1 <= MaxUpdates
  <2>1. CASE Full(u) /\ buffered # <<>>
    <3>1. kept = Tail(buffered)
      BY <2>1 DEF MakeRoom
    <3>2. /\ Tail(buffered) \in Seq(Update) /\ Rising(Tail(buffered))
          /\ Len(Tail(buffered)) + 1 = Len(buffered) /\ Ids(Tail(buffered)) \subseteq Ids(buffered)
      BY <1>2, <2>1, TailUpdates
    <3>3. Len(Tail(buffered)) \in Nat
      BY <3>2
    <3> HIDE DEF kept
    <3> QED BY <1>2, <3>1, <3>2, <3>3
  <2>2. CASE ~(Full(u) /\ buffered # <<>>)
    <3>1. kept = buffered
      BY <2>2 DEF MakeRoom
    <3>2. Len(buffered) + 1 <= MaxUpdates
      <4>1. CASE ~Full(u)
        BY <1>2, <4>1, LimitAssumption DEF Full
      <4>2. CASE buffered = <<>>
        BY <4>2, LimitAssumption
      <4> QED BY <2>2, <4>1, <4>2
    <3> HIDE DEF kept
    <3> QED BY <1>2, <3>1, <3>2
  <2> QED BY <2>1, <2>2
<1> HIDE DEF kept
<1>4. \A x \in Ids(buffered) \cup ToSet(applied) \cup evicted \cup discarded \cup refused : x < u.id
  BY <1>2 DEF AccountInv, Shares
<1>5. /\ buffered' \in Seq(Update) /\ Rising(buffered') /\ Ids(buffered') = Ids(kept) \cup {u.id}
      /\ Len(buffered') = Len(kept) + 1
  BY <1>1, <1>3, <1>4, AppendUpdates
<1>6. Series'
  BY <1>3, <1>4, <1>5 DEF AccountInv, Series
<1>7. Shares'
  <2>1. 1..(received + 1) = 1..received \cup {received + 1} /\ u.id \notin 1..received
    BY <1>2
  <2> HIDE DEF BufferBounded
  <2> QED BY <1>1, <1>3, <1>5, <2>1 DEF AccountInv, Shares, Apart
<1>8. BufferBounded'
  <2>1. /\ BytesOf(kept) \in Nat /\ BytesOf(buffered) \in Nat
        /\ BytesOf(Append(kept, u)) = BytesOf(kept) + u.size
    BY <1>2, <1>3, BytesIs
  <2>2. bufferedBytes' = BytesOf(buffered')
    BY <1>1, <1>2, <2>1
  <2> QED BY <1>3, <1>5, <2>2 DEF BufferBounded
<1>9. received' \in 0..RemoteBound
  BY LimitAssumption DEF Update
<1>10. FlushedWhenResumed'
  BY DEF FlushedWhenResumed, IsPaused
<1> QED BY <1>6, <1>7, <1>8, <1>9, <1>10 DEF AccountInv

LEMMA HandledKeeps ==
  ASSUME AccountInv, NEW u \in Update, u.id = received + 1, received' = u.id, ~IsPaused,
         Handle(<<u>>), UNCHANGED <<buffered, bufferedBytes, evicted, pauses>>
  PROVE  AccountInv'
<1>1. /\ buffered = <<>> /\ received \in Nat /\ applied \in Seq(Nat) /\ Ascends(applied)
      /\ <<>> \in Seq(Update) /\ Rising(<<>>) /\ Ids(<<>>) = {}
  BY NoUpdates, LimitAssumption DEF AccountInv, FlushedWhenResumed, Series
<1>2. <<u>> \in Seq(Update) /\ Rising(<<u>>) /\ Ids(<<u>>) = {u.id}
  BY OneUpdate
<1>3. \A x \in ToSet(applied), y \in Ids(<<u>>) : x < y
  BY <1>1, <1>2 DEF AccountInv, Shares
<1>4. applied' \in Seq(Nat) /\ Ascends(applied')
  BY <1>1, <1>2, <1>3, HandleIs
<1>5. PICK ok \in SUBSET {u.id} :
        /\ ToSet(applied') = ToSet(applied) \cup ok
        /\ \/ discarded' = discarded /\ refused' = refused \cup ({u.id} \ ok)
           \/ ok = {} /\ discarded' = discarded \cup {u.id} /\ refused' = refused
  BY <1>1, <1>2, <1>3, HandleIs
<1>6. Series'
  BY <1>1, <1>4 DEF Series
<1>7. Shares'
  <2>1. 1..(received + 1) = 1..received \cup {received + 1} /\ u.id \notin 1..received
    BY <1>1
  <2> QED BY <1>1, <1>5, <2>1 DEF AccountInv, Shares, Apart
<1>8. received' \in 0..RemoteBound
  BY LimitAssumption DEF Update
<1>9. BufferBounded' /\ FlushedWhenResumed'
  BY <1>1 DEF AccountInv, BufferBounded, FlushedWhenResumed
<1> QED BY <1>6, <1>7, <1>8, <1>9 DEF AccountInv

LEMMA AccountStep == AccountInv /\ [Next]_vars => AccountInv'
<1> SUFFICES ASSUME AccountInv, [Next]_vars PROVE AccountInv'
  OBVIOUS
<1>1. ASSUME NEW i \in PauseId, UserPause(i) \/ McpPause(i) PROVE AccountInv'
  BY <1>1, QuietKeeps DEF UserPause, McpPause, AddPause
<1>2. CASE UserResume \/ ForceResume \/ McpResume
  BY <1>2, LeavesKeeps DEF UserResume, ForceResume, McpResume
<1>3. ASSUME NEW c \in Check, CheckEnds(c) PROVE AccountInv'
  <2>1. CASE OperationEnds(c)
    BY <2>1, LeavesKeeps DEF OperationEnds
  <2>2. CASE OperationStarts(c) \/ NothingNew(c)
    BY <2>2, QuietKeeps DEF OperationStarts, NothingNew, AddPause
  <2> QED BY <1>3, <2>1, <2>2 DEF CheckEnds
<1>4. ASSUME NEW f \in File, NEW n \in Size, RemoteUpdate(f, n) PROVE AccountInv'
  <2>1. PICK u : u = [id |-> received + 1, path |-> f, size |-> n]
    OBVIOUS
  <2>2. u.id = received + 1 /\ received' = u.id /\ UNCHANGED pauses /\ received < RemoteBound
    BY <1>4, <2>1 DEF RemoteUpdate, pauseVars
  <2>3. u \in Update
    <3>1. received + 1 \in 1..RemoteBound
      BY <2>2, LimitAssumption DEF AccountInv
    <3> QED BY <2>1, <3>1 DEF Update
  <2>4. CASE IsPaused
    <3>1. Buffer(u) /\ UNCHANGED <<applied, discarded, refused, pauses>>
      BY <1>4, <2>1, <2>2, <2>4 DEF RemoteUpdate
    <3> QED BY <2>2, <2>3, <2>4, <3>1, BufferKeeps
  <2>5. CASE ~IsPaused
    <3>1. Handle(<<u>>) /\ UNCHANGED <<buffered, bufferedBytes, evicted, pauses>>
      BY <1>4, <2>1, <2>2, <2>5 DEF RemoteUpdate
    <3> QED BY <2>2, <2>3, <2>5, <3>1, HandledKeeps
  <2> QED BY <2>4, <2>5
<1>5. CASE \/ Engine \/ Git \/ UNCHANGED vars \/ \E f \in File : LocalEdit(f)
           \/ \E w \in writes : WriteFile(w) \/ WriteGivenUp(w)
           \/ \E c \in Check : CheckBegins(c)
  BY <1>5, QuietKeeps
  DEF Engine, Git, vars, pauseVars, LocalEdit, WriteFile, WriteGivenUp, CheckBegins
<1> QED BY <1>1, <1>2, <1>3, <1>4, <1>5 DEF Next

LEMMA AccountInit == Init => AccountInv
<1> SUFFICES ASSUME Init PROVE AccountInv
  OBVIOUS
<1>1. /\ buffered = <<>> /\ applied = <<>> /\ bufferedBytes = 0 /\ received = 0 /\ pauses = {}
      /\ evicted = {} /\ discarded = {} /\ refused = {}
  BY DEF Init
<1>2. /\ <<>> \in Seq(Update) /\ Rising(<<>>) /\ Ids(<<>>) = {} /\ BytesOf(<<>>) = 0
      /\ Len(<<>>) = 0 /\ 1..0 = {}
      /\ <<>> \in Seq(Nat) /\ Ascends(<<>>) /\ ToSet(<<>>) = {}
  BY NoUpdates DEF Ascends, ToSet
<1>3. Series /\ Shares
  BY <1>1, <1>2 DEF Series, Shares, Apart
<1> QED BY <1>1, <1>2, <1>3, LimitAssumption DEF AccountInv, BufferBounded, FlushedWhenResumed

\* Every remote update received is in exactly one place, the buffer keeps to its
\* limit and counts its bytes, and nothing stays in it when nothing pauses.
THEOREM NothingIsLost == Spec => []Accounted
<1>1. AccountInv => Accounted
  <2> SUFFICES ASSUME AccountInv PROVE Accounted
    OBVIOUS
  <2> DEFINE B == Ids(buffered)
             A == ToSet(applied)
  <2>1. /\ IsFiniteSet(B) /\ Cardinality(B) = Len(buffered)
        /\ IsFiniteSet(A) /\ Cardinality(A) = Len(applied)
    <3>1. IdSeq(buffered) \in Seq(Nat) /\ Ascends(IdSeq(buffered))
          /\ Len(IdSeq(buffered)) = Len(buffered) /\ ToSet(IdSeq(buffered)) = B
      BY IdSeqIs DEF AccountInv, Series
    <3> HIDE DEF B
    <3> QED BY <3>1, NumbersCount DEF AccountInv, Series
  <2>2. /\ B \cup A \cup evicted \cup discarded \cup refused = 1 .. received
        /\ Apart(B, A, evicted, discarded, refused) /\ received \in Nat
    BY LimitAssumption DEF AccountInv, Shares
  <2>3. IsFiniteSet(1..received) /\ Cardinality(1..received) = received
    BY <2>2, FS_Interval
  <2> HIDE DEF A, B
  <2>4. IsFiniteSet(evicted) /\ IsFiniteSet(discarded) /\ IsFiniteSet(refused)
    BY <2>2, <2>3, FS_Subset
  <2>5. \A S, T : IsFiniteSet(S) /\ IsFiniteSet(T) /\ S \cap T = {} =>
          IsFiniteSet(S \cup T) /\ Cardinality(S \cup T) = Cardinality(S) + Cardinality(T)
    <3> SUFFICES ASSUME NEW S, NEW T, IsFiniteSet(S), IsFiniteSet(T), S \cap T = {}
                 PROVE  IsFiniteSet(S \cup T) /\ Cardinality(S \cup T) = Cardinality(S) + Cardinality(T)
      OBVIOUS
    <3>1. /\ IsFiniteSet(S \cup T)
          /\ Cardinality(S \cup T) = Cardinality(S) + Cardinality(T) - Cardinality({})
      BY FS_Union
    <3>2. Cardinality(S) \in Nat /\ Cardinality(T) \in Nat /\ Cardinality({}) = 0
      BY FS_CardinalityType, FS_EmptySet
    <3> QED BY <3>1, <3>2
  <2>6. /\ IsFiniteSet(B \cup A) /\ Cardinality(B \cup A) = Cardinality(B) + Cardinality(A)
    BY <2>1, <2>2, <2>5 DEF Apart
  <2>7. /\ IsFiniteSet(B \cup A \cup evicted)
        /\ Cardinality(B \cup A \cup evicted) = Cardinality(B \cup A) + Cardinality(evicted)
    <3>1. (B \cup A) \cap evicted = {}
      BY <2>2 DEF Apart
    <3> QED BY <2>4, <2>5, <2>6, <3>1
  <2>8. /\ IsFiniteSet(B \cup A \cup evicted \cup discarded)
        /\ Cardinality(B \cup A \cup evicted \cup discarded)
             = Cardinality(B \cup A \cup evicted) + Cardinality(discarded)
    <3>1. (B \cup A \cup evicted) \cap discarded = {}
      BY <2>2 DEF Apart
    <3> QED BY <2>4, <2>5, <2>7, <3>1
  <2>9. Cardinality(B \cup A \cup evicted \cup discarded \cup refused)
          = Cardinality(B \cup A \cup evicted \cup discarded) + Cardinality(refused)
    <3>1. (B \cup A \cup evicted \cup discarded) \cap refused = {}
      BY <2>2 DEF Apart
    <3> QED BY <2>4, <2>5, <2>8, <3>1
  <2>10. Len(buffered) + Len(applied) + Cardinality(evicted) + Cardinality(discarded)
           + Cardinality(refused) = received
    BY <2>1, <2>2, <2>3, <2>6, <2>7, <2>8, <2>9
  <2> QED BY <2>10 DEF AccountInv, Shares, Accounted
<1> QED BY <1>1, AccountInit, AccountStep, PTL DEF Spec

\* Updates are merged in the order they were received, buffered or not.
THEOREM MergesInOrder == Spec => []MergedInOrder
<1>1. AccountInv => MergedInOrder
  <2> SUFFICES ASSUME AccountInv PROVE MergedInOrder
    OBVIOUS
  <2> DEFINE s == applied \o IdSeq(buffered)
  <2>1. IdSeq(buffered) \in Seq(Nat) /\ Ascends(IdSeq(buffered))
        /\ ToSet(IdSeq(buffered)) = Ids(buffered)
    BY IdSeqIs DEF AccountInv, Series
  <2>2. s \in Seq(Nat) /\ Ascends(s)
    BY <2>1, ConcatNumbers DEF AccountInv, Series
  <2>3. \A i, j \in 1..Len(s) : i < j => s[i] < s[j]
    <3> HIDE DEF s
    <3> QED BY <2>2 DEF Ascends
  <2> QED BY <2>3 DEF MergedInOrder
<1> QED BY <1>1, AccountInit, AccountStep, PTL DEF Spec

=============================================================================

-------------------------- MODULE Documents_proofs ---------------------------
(***************************************************************************)
(* Proofs about Documents, for any daemons, pieces of text and bounds.     *)
(***************************************************************************)
EXTENDS Documents, FiniteSetTheorems, TLAPS

DocTypeOK ==
  /\ mode \in [Daemon -> {"on", "stopping", "off"}]
  /\ disk \in [Daemon -> FileText \cup {Absent}]
  /\ event \in [Daemon -> SUBSET {"created", "changed"}]
  /\ reading \in [Daemon -> SUBSET [kind : {"created", "changed"}, text : FileText \cup {None}]]
  /\ tokens \in [Daemon -> SUBSET [id : UpdateId, hash : FileText]]
  /\ writing \in [Daemon -> SUBSET [id : UpdateId, text : FileText]]
  /\ listed \in [Daemon -> FileText \cup {None}]
  /\ loaded \subseteq Daemon /\ doc \in [Daemon -> SUBSET Update]
  /\ saving \in [Daemon -> SUBSET [why : {"unload", "stop"}, state : SUBSET Update]]
  /\ saved \in [Daemon -> SUBSET Update]
  /\ flight \subseteq Daemon \X Update
  /\ made \in [Daemon -> Nat] /\ due \in [Daemon -> Nat]
  /\ raced \in [Daemon -> BOOLEAN] /\ apart \in [Daemon -> BOOLEAN] /\ intact \in BOOLEAN

\* What chokidar reports is there to be read.
EventHasFile == \A d \in Daemon : event[d] # {} \/ reading[d] # {} => disk[d] # Absent

\* Updates: those that some document has or will have.
Updates == (UNION {doc[d] : d \in Daemon}) \cup {m[2] : m \in flight}
Issued(id) == id[2] <= made[id[1]]
Numbered ==
  \A u \in Updates :
    /\ IsFiniteSet(u.ins)
    /\ Issued(u.id) /\ \A i \in u.deps : Issued(i)
    /\ \A x \in u.ins \cup u.del : Issued(x.id)
FiniteDocs == \A d \in Daemon : IsFiniteSet(doc[d])

\* A daemon that is off holds nothing; a state that stop saves is the document's.
OffIsEmpty ==
  /\ \A d \in Daemon \ loaded : doc[d] = {}
  /\ \A d \in Daemon : mode[d] = "off" =>
       d \notin loaded /\ reading[d] = {} /\ tokens[d] = {} /\ writing[d] = {} /\ saving[d] = {}
StopSaves ==
  \A d \in Daemon :
    /\ \A s \in saving[d] : s.why = "stop" =>
         mode[d] = "stopping" /\ (d \in loaded => s.state = doc[d])
    /\ mode[d] = "stopping" /\ d \in loaded =>
         saved[d] = doc[d] \/ \E s \in saving[d] : s.why = "stop"

DocInv == DocTypeOK /\ EventHasFile /\ Numbered /\ FiniteDocs /\ OffIsEmpty /\ StopSaves

\* As long as nothing was unloaded or stopped, what a daemon has and what is on
\* its way to it are the same updates everywhere.
Comes(d) == doc[d] \cup {m[2] : m \in {n \in flight : n[1] = d}}
SameUpdates ==
  intact => /\ \A d \in Daemon : mode[d] = "on"
            /\ \A d, e \in Daemon : Comes(d) = Comes(e)

\* Where a daemon is with its file, when nothing began while it was busy: at rest;
\* about to see a change of it, its own only with the token; or about to write it.
Agrees(d, text) == doc[d] # {} => text = TextOf(doc[d])
Owed(d, text) == made[d] < due[d] \/ \E t \in tokens[d] : t.hash = text
OneSighting(d) ==
  /\ writing[d] = {}
  /\ \/ reading[d] = {} /\ \E k \in {"created", "changed"} : event[d] = {k}
     \/ event[d] = {} /\ \E k \in {"created", "changed"} : \E text \in {None, disk[d]} :
                            reading[d] = {[kind |-> k, text |-> text]}
Quiet(d) ==
  /\ Settled(d)
  /\ ~apart[d] => Agrees(d, disk[d]) /\ Agrees(d, listed[d])
Sighted(d) ==
  /\ OneSighting(d) /\ Owed(d, disk[d])
  /\ ~apart[d] => Agrees(d, listed[d])
Merging(d) ==
  /\ event[d] = {} /\ reading[d] = {}
  /\ \E w \in writing[d] : writing[d] = {w} /\ Owed(d, w.text) /\ Agrees(d, w.text)
OrderlyAt(d) ==
  ~raced[d] => /\ mode[d] = "on" => Quiet(d) \/ Sighted(d) \/ Merging(d)
               /\ made[d] <= due[d]
Orderly == \A d \in Daemon : OrderlyAt(d)

----------------------------------------------------------------------------
(* Documents and texts *)

\* What the proofs need of a document: it is finite, and so is each update.
FiniteDoc(us) == us \subseteq Update /\ IsFiniteSet(us) /\ \A u \in us : IsFiniteSet(u.ins)

LEMMA ImageFinite ==
  ASSUME NEW S, IsFiniteSet(S), NEW R, NEW f \in [S -> R], \A y \in R : \E x \in S : y = f[x]
  PROVE  IsFiniteSet(R)
<1>1. f \in Surjection(S, R)
  BY DEF Surjection
<1> QED BY <1>1, FS_Surjection

LEMMA LiveFinite ==
  ASSUME NEW us, FiniteDoc(us)
  PROVE  Live(us) \subseteq Piece /\ IsFiniteSet(Live(us))
<1> DEFINE in == Integrated(us)
           inserted == {u.ins : u \in in}
<1>1. in \subseteq us /\ IsFiniteSet(in)
  BY FS_Subset DEF Integrated, FiniteDoc
<1>2. IsFiniteSet(inserted)
  <2> DEFINE f == [u \in in |-> u.ins]
  <2>1. f \in [in -> inserted]
    OBVIOUS
  <2>2. \A y \in inserted : \E u \in in : y = f[u]
    OBVIOUS
  <2> HIDE DEF f, in, inserted
  <2> QED BY <1>1, <2>1, <2>2, ImageFinite
<1>3. \A T \in inserted : IsFiniteSet(T) /\ T \subseteq Piece
  BY <1>1 DEF FiniteDoc, Update
<1>4. IsFiniteSet(UNION inserted) /\ UNION inserted \subseteq Piece
  BY <1>2, <1>3, FS_UNION
<1>5. Live(us) \subseteq UNION inserted
  BY DEF Live
<1> QED BY <1>4, <1>5, FS_Subset

LEMMA TextOfType ==
  ASSUME NEW us, FiniteDoc(us)
  PROVE  TextOf(us) \in FileText
<1>1. \A t \in Text : Cardinality({x \in Live(us) : x.text = t}) \in Nat
  BY LiveFinite, FS_Subset, FS_CardinalityType
<1> QED BY <1>1 DEF TextOf, FileText

LEMMA SameText ==
  ASSUME NEW us, NEW text \in FileText, \A t \in Text : TextOf(us)[t] = text[t]
  PROVE  TextOf(us) = text
<1> DEFINE count(t) == Cardinality({x \in Live(us) : x.text = t})
<1>1. TextOf(us) = [t \in Text |-> count(t)]
  BY DEF TextOf
<1> HIDE DEF count
<1>2. \A t \in Text : count(t) = text[t]
  BY <1>1
<1>3. text = [t \in Text |-> text[t]]
  BY DEF FileText
<1> QED BY <1>1, <1>2, <1>3

\* The pieces that an update inserts for a text, and how many there are.
Pieces(id, want) == UNION {{[id |-> id, text |-> t, copy |-> n] : n \in 1..want[t]} : t \in Text}
PiecesOf(id, want, t) == {[id |-> id, text |-> t, copy |-> n] : n \in 1..want[t]}

LEMMA PiecesCounted ==
  ASSUME NEW id, NEW want \in FileText, NEW t \in Text
  PROVE  /\ IsFiniteSet(PiecesOf(id, want, t))
         /\ Cardinality(PiecesOf(id, want, t)) = want[t]
<1> DEFINE k == want[t]
           f == [n \in 1..k |-> [id |-> id, text |-> t, copy |-> n]]
<1>1. k \in Nat
  BY DEF FileText
<1>2. IsFiniteSet(1..k) /\ Cardinality(1..k) = k
  <2> HIDE DEF k, f
  <2>1. k \in Int /\ 1 \in Int
    BY <1>1
  <2>2. IsFiniteSet(1..k) /\ Cardinality(1..k) = IF 1 > k THEN 0 ELSE k - 1 + 1
    BY <2>1, FS_Interval
  <2> QED BY <1>1, <2>2
<1>3. f \in Bijection(1..k, PiecesOf(id, want, t))
  <2>1. f \in Injection(1..k, PiecesOf(id, want, t))
    BY DEF Injection, PiecesOf, IsInjective
  <2>2. f \in Surjection(1..k, PiecesOf(id, want, t))
    BY DEF Surjection, PiecesOf
  <2> QED BY <2>1, <2>2 DEF Bijection
<1>4. ExistsBijection(1..k, PiecesOf(id, want, t))
  BY <1>3 DEF ExistsBijection
<1> QED BY <1>2, <1>4, FS_Bijection

LEMMA PiecesType ==
  ASSUME NEW id \in UpdateId, NEW want \in FileText
  PROVE  /\ Pieces(id, want) \subseteq Piece /\ IsFiniteSet(Pieces(id, want))
         /\ \A x \in Pieces(id, want) : x.id = id
         /\ \A t \in Text : {x \in Pieces(id, want) : x.text = t} = PiecesOf(id, want, t)
<1> DEFINE parts == {PiecesOf(id, want, t) : t \in Text}
<1>1. Pieces(id, want) = UNION parts
  BY DEF Pieces, PiecesOf
<1>2. IsFiniteSet(parts)
  <2> DEFINE f == [t \in Text |-> PiecesOf(id, want, t)]
  <2>1. f \in [Text -> parts]
    OBVIOUS
  <2>2. \A y \in parts : \E t \in Text : y = f[t]
    OBVIOUS
  <2> HIDE DEF f, parts
  <2> QED BY TextAssumption, <2>1, <2>2, ImageFinite
<1>3. \A T \in parts : IsFiniteSet(T)
  BY PiecesCounted
<1>4. IsFiniteSet(UNION parts)
  BY <1>2, <1>3, FS_UNION
<1>5. Pieces(id, want) \subseteq Piece
  BY DEF Pieces, Piece, FileText
<1>6. /\ \A x \in Pieces(id, want) : x.id = id
      /\ \A t \in Text : {x \in Pieces(id, want) : x.text = t} = PiecesOf(id, want, t)
  BY DEF Pieces, PiecesOf
<1> QED BY <1>1, <1>4, <1>5, <1>6

\* What a transaction adds to a document: new pieces, for its own deletions.
Extends(us, u) ==
  /\ u \in Update /\ IsFiniteSet(u.ins)
  /\ u.deps = Ids(Integrated(us)) /\ u.id \notin Ids(us) /\ u.id \notin u.deps
  /\ u.del \subseteq Live(us)
  /\ \A v \in us : u.id \notin v.deps /\ \A x \in v.ins \cup v.del : x.id # u.id
  /\ \A x \in u.ins : x.id = u.id

LEMMA LiveMember ==
  ASSUME NEW us, NEW x
  PROVE  x \in Live(us) <=> /\ \E v \in Integrated(us) : x \in v.ins
                            /\ \A v \in Integrated(us) : x \notin v.del
<1> DEFINE ins == UNION {v.ins : v \in Integrated(us)}
           del == UNION {v.del : v \in Integrated(us)}
<1>1. Live(us) = ins \ del
  BY DEF Live
<1>2. x \in ins <=> \E v \in Integrated(us) : x \in v.ins
  OBVIOUS
<1>3. x \in del <=> \E v \in Integrated(us) : x \in v.del
  OBVIOUS
<1> HIDE DEF ins, del
<1> QED BY <1>1, <1>2, <1>3

LEMMA LiveOfExtended ==
  ASSUME NEW us, NEW u, FiniteDoc(us), Extends(us, u)
  PROVE  /\ Live(us \cup {u}) = (Live(us) \ u.del) \cup u.ins
         /\ Live(us) \cap u.ins = {}
<1> DEFINE new == us \cup {u}
           in == Integrated(us)
<1>1. Ids(new) = Ids(us) \cup {u.id}
  BY DEF Ids
<1>2. in \subseteq us
  BY DEF Integrated
<1>3. u.deps \subseteq Ids(us)
  BY <1>2 DEF Extends, Ids
<1>4. Integrated(new) = in \cup {u}
  <2>1. \A v \in us : v.deps \subseteq Ids(new) <=> v.deps \subseteq Ids(us)
    BY <1>1 DEF Extends
  <2>2. u.deps \subseteq Ids(new)
    BY <1>1, <1>3
  <2> HIDE DEF new
  <2>3. \A v : v \in Integrated(new) <=> v \in new /\ v.deps \subseteq Ids(new)
    BY DEF Integrated
  <2>4. \A v : v \in Integrated(us) <=> v \in us /\ v.deps \subseteq Ids(us)
    BY DEF Integrated
  <2>5. \A v : v \in new <=> v \in us \/ v = u
    BY DEF new
  <2> QED BY <2>1, <2>2, <2>3, <2>4, <2>5
<1>5. ASSUME NEW x PROVE x \in Live(new) <=> x \in (Live(us) \ u.del) \cup u.ins
  <2> HIDE DEF in, new
  <2>1. x \in Live(new) <=> /\ x \in u.ins \/ \E v \in in : x \in v.ins
                            /\ x \notin u.del /\ \A v \in in : x \notin v.del
    BY <1>4, LiveMember
  <2>2. x \in Live(us) <=> (\E v \in in : x \in v.ins) /\ (\A v \in in : x \notin v.del)
    BY LiveMember DEF in
  <2>3. x \in u.ins => x \notin Live(us) /\ \A v \in in : x \notin v.del
    BY <1>2, <2>2 DEF Extends
  <2>4. u.del \subseteq Live(us)
    BY DEF Extends
  <2> QED BY <2>1, <2>2, <2>3, <2>4
<1>6. ASSUME NEW x \in Live(us) PROVE x \notin u.ins
  <2>1. PICK v \in in : x \in v.ins
    BY LiveMember
  <2> QED BY <1>2, <2>1 DEF Extends
<1> HIDE DEF new
<1>7. Live(new) = (Live(us) \ u.del) \cup u.ins
  BY <1>5
<1> QED BY <1>6, <1>7 DEF new

LEMMA TextOfExtended ==
  ASSUME NEW us, NEW u, NEW want \in FileText, FiniteDoc(us), Extends(us, u),
         u.ins = Pieces(u.id, want), NEW t \in Text
  PROVE  TextOf(us \cup {u})[t]
         = TextOf(us)[t] - Cardinality({x \in u.del : x.text = t}) + want[t]
<1> DEFINE here == {x \in Live(us) : x.text = t}
           gone == {x \in u.del : x.text = t}
           come == PiecesOf(u.id, want, t)
<1>1. u.id \in UpdateId
  BY DEF Extends, Update
<1>2. come = {x \in u.ins : x.text = t} /\ IsFiniteSet(come) /\ Cardinality(come) = want[t]
  BY <1>1, PiecesType, PiecesCounted
<1>3. IsFiniteSet(here)
  BY LiveFinite, FS_Subset
<1>4. gone \subseteq here
  BY DEF Extends
<1>5. {x \in Live(us \cup {u}) : x.text = t} = (here \ gone) \cup come
  BY LiveOfExtended, <1>2
<1>6. (here \ gone) \cap come = {}
  BY LiveOfExtended, <1>2
<1> HIDE DEF here, gone, come
<1>7. IsFiniteSet(here \ gone) /\ Cardinality(here \ gone) = Cardinality(here) - Cardinality(gone)
  <2>1. here \cap gone = gone
    BY <1>4
  <2> QED BY <1>3, <2>1, FS_Difference
<1>8. Cardinality((here \ gone) \cup come) = Cardinality(here \ gone) + Cardinality(come)
  <2>1. Cardinality((here \ gone) \cap come) = 0
    BY <1>6, FS_EmptySet
  <2>2. Cardinality(here \ gone) \in Nat /\ Cardinality(come) \in Nat
    BY <1>2, <1>7, FS_CardinalityType
  <2>3. Cardinality((here \ gone) \cup come)
        = Cardinality(here \ gone) + Cardinality(come) - Cardinality((here \ gone) \cap come)
    BY <1>2, <1>7, FS_Union
  <2> QED BY <2>1, <2>2, <2>3
<1>9. /\ TextOf(us \cup {u})[t] = Cardinality((here \ gone) \cup come)
      /\ TextOf(us)[t] = Cardinality(here)
  BY <1>5 DEF TextOf, here, gone, come
<1> QED BY <1>2, <1>7, <1>8, <1>9 DEF gone

----------------------------------------------------------------------------
(* What a local transaction does *)

NewId(d) == <<d, made[d] + 1>>
Issue(d, u) ==
  /\ u \in Update /\ u.id = NewId(d)
  /\ made' = [made EXCEPT ![d] = @ + 1]
  /\ doc' = [doc EXCEPT ![d] = @ \cup {u}]
  /\ flight' = flight \cup {<<e, u>> : e \in Daemon \ {d}}

LEMMA DocFinite ==
  ASSUME DocInv, NEW d \in Daemon
  PROVE  FiniteDoc(doc[d])
<1>1. doc[d] \subseteq Updates
  BY DEF Updates
<1> QED BY <1>1 DEF DocInv, DocTypeOK, Numbered, FiniteDocs, FiniteDoc

LEMMA TransactEffect ==
  ASSUME DocInv, NEW d \in Daemon, NEW want \in FileText,
         NEW del, del \subseteq Live(doc[d]), Transact(d, del, want)
  PROVE  /\ loaded' = loaded \cup {d}
         /\ \/ del = {} /\ want = Empty /\ UNCHANGED <<doc, flight, made>>
            \/ \E u : /\ Issue(d, u) /\ Extends(doc[d], u)
                      /\ u.del = del /\ u.ins = Pieces(u.id, want)
<1> DEFINE id == NewId(d)
           u == [id |-> id, deps |-> Ids(Integrated(doc[d])), del |-> del,
                 ins |-> Pieces(id, want)]
<1>1. CASE del = {} /\ want = Empty
  BY <1>1 DEF Transact
<1>2. CASE ~(del = {} /\ want = Empty)
  <2>1. made[d] \in Nat /\ id \in UpdateId
    BY DEF NewId, UpdateId, DocInv, DocTypeOK
  <2>2. FiniteDoc(doc[d]) /\ doc[d] \subseteq Updates
    BY DocFinite DEF Updates
  <2>3. Live(doc[d]) \subseteq Piece
    BY <2>2, LiveFinite
  <2>4. Ids(Integrated(doc[d])) \subseteq Ids(doc[d]) /\ Ids(doc[d]) \subseteq UpdateId
    BY <2>2 DEF Integrated, Ids, FiniteDoc, Update
  <2>5. Pieces(id, want) \subseteq Piece /\ IsFiniteSet(Pieces(id, want))
        /\ \A x \in Pieces(id, want) : x.id = id
    BY <2>1, PiecesType
  <2>6. u \in Update /\ u.id = id /\ u.del = del /\ u.ins = Pieces(id, want)
        /\ u.deps = Ids(Integrated(doc[d]))
    BY <2>1, <2>3, <2>4, <2>5 DEF Update
  <2>7. ~Issued(id)
    BY <2>1 DEF Issued, NewId
  <2>8. \A v \in doc[d] : /\ v.id # id /\ id \notin v.deps
                          /\ \A x \in v.ins \cup v.del : x.id # id
    BY <2>2, <2>7 DEF DocInv, Numbered
  <2>9. id \notin Ids(doc[d])
    BY <2>8 DEF Ids
  <2>10. Extends(doc[d], u)
    BY <2>4, <2>5, <2>6, <2>8, <2>9 DEF Extends
  <2>11. Issue(d, u) /\ loaded' = loaded \cup {d}
    BY <1>2, <2>6 DEF Transact, Issue, Sent, NewId, Pieces
  <2> QED BY <2>6, <2>10, <2>11
<1> QED BY <1>1, <1>2

\* Both ways to bring a text into a document leave the document with it.
LEMMA HandleLocalEffect ==
  ASSUME DocInv, NEW d \in Daemon, NEW r \in reading[d], r.text # None, HandleLocal(d, r)
  PROVE  /\ loaded' = loaded \cup {d} /\ UNCHANGED tokens
         /\ \/ UNCHANGED <<doc, flight, made>> /\ TextOf(doc[d]) = r.text
            \/ \E u : /\ Issue(d, u) /\ Extends(doc[d], u)
                      /\ TextOf(doc[d] \cup {u}) = r.text
<1> DEFINE text == r.text
           old == TextOf(doc[d])
<1>1. text \in FileText /\ FiniteDoc(doc[d]) /\ old \in FileText
  BY DocFinite, TextOfType DEF DocInv, DocTypeOK
<1>2. \A t \in Text : old[t] = Cardinality({x \in Live(doc[d]) : x.text = t})
  BY DEF TextOf
<1>5. UNCHANGED tokens
  BY DEF HandleLocal
<1>3. CASE InitializeContent(d, text)
  <2>1. Transact(d, Live(doc[d]), text)
    BY <1>3 DEF InitializeContent
  <2>2. ASSUME Live(doc[d]) = {}, text = Empty PROVE old = text
    <3>1. \A t \in Text : {x \in Live(doc[d]) : x.text = t} = {}
      BY <2>2
    <3>2. \A t \in Text : old[t] = 0
      BY <1>2, <3>1, FS_EmptySet
    <3>3. \A t \in Text : old[t] = text[t]
      BY <2>2, <3>2 DEF Empty
    <3> QED BY <1>1, <3>3, SameText
  <2>3. ASSUME NEW u, Extends(doc[d], u), u.del = Live(doc[d]), u.ins = Pieces(u.id, text)
        PROVE  TextOf(doc[d] \cup {u}) = text
    <3>1. ASSUME NEW t \in Text PROVE TextOf(doc[d] \cup {u})[t] = text[t]
      <4>1. TextOf(doc[d] \cup {u})[t]
            = old[t] - Cardinality({x \in u.del : x.text = t}) + text[t]
        BY <1>1, <2>3, TextOfExtended
      <4>2. Cardinality({x \in u.del : x.text = t}) = old[t]
        BY <1>2, <2>3
      <4>3. old[t] \in Nat /\ text[t] \in Nat
        BY <1>1 DEF FileText
      <4> HIDE DEF old, text
      <4> QED BY <4>1, <4>2, <4>3
    <3> QED BY <1>1, <3>1, SameText
  <2>4. /\ loaded' = loaded \cup {d}
        /\ \/ Live(doc[d]) = {} /\ text = Empty /\ UNCHANGED <<doc, flight, made>>
           \/ \E u : /\ Issue(d, u) /\ Extends(doc[d], u)
                     /\ u.del = Live(doc[d]) /\ u.ins = Pieces(u.id, text)
    <3> HIDE DEF text
    <3> QED BY <1>1, <2>1, TransactEffect
  <2> QED BY <2>2, <2>3, <2>4, <1>5
<1>4. CASE ApplyLocalChange(d, text)
  <2> DEFINE want == [t \in Text |-> Less(text[t], old[t])]
  <2>1. PICK del \in SUBSET Live(doc[d]) :
          /\ \A t \in Text : Cardinality({x \in del : x.text = t}) = Less(old[t], text[t])
          /\ Transact(d, del, want)
    BY <1>4 DEF ApplyLocalChange
  <2>2. want \in FileText
    BY <1>1 DEF FileText, Less
  <2>3. \A t \in Text : old[t] - Less(old[t], text[t]) + want[t] = text[t]
    BY <1>1 DEF FileText, Less
  <2>4. ASSUME del = {}, want = Empty PROVE old = text
    <3>1. \A t \in Text : {x \in del : x.text = t} = {}
      BY <2>4
    <3>2. \A t \in Text : Less(old[t], text[t]) = 0 /\ want[t] = 0
      BY <2>1, <2>4, <3>1, FS_EmptySet DEF Empty
    <3>3. \A t \in Text : old[t] = text[t]
      BY <1>1, <2>3, <3>2 DEF FileText
    <3> QED BY <1>1, <3>3, SameText
  <2>5. ASSUME NEW u, Extends(doc[d], u), u.del = del, u.ins = Pieces(u.id, want)
        PROVE  TextOf(doc[d] \cup {u}) = text
    <3>1. \A t \in Text : TextOf(doc[d] \cup {u})[t]
                          = old[t] - Cardinality({x \in del : x.text = t}) + want[t]
      BY <1>1, <2>2, <2>5, TextOfExtended
    <3>2. \A t \in Text : TextOf(doc[d] \cup {u})[t] = text[t]
      BY <2>1, <2>3, <3>1
    <3> QED BY <1>1, <3>2, SameText
  <2>6. /\ loaded' = loaded \cup {d}
        /\ \/ del = {} /\ want = Empty /\ UNCHANGED <<doc, flight, made>>
           \/ \E u : /\ Issue(d, u) /\ Extends(doc[d], u)
                     /\ u.del = del /\ u.ins = Pieces(u.id, want)
    <3> HIDE DEF want
    <3> QED BY <2>1, <2>2, TransactEffect
  <2> QED BY <2>4, <2>5, <2>6, <1>5
<1> QED BY <1>3, <1>4 DEF HandleLocal

----------------------------------------------------------------------------
(* The invariant of the state *)

LEMMA ScanCounted ==
  ASSUME NEW S, S = {} \/ S = {"created"}
  PROVE  Cardinality(S) \in Nat
<1>1. CASE S = {}
  <2>1. Cardinality(S) = 0
    BY <1>1, FS_EmptySet
  <2> QED BY <2>1
<1>2. CASE S = {"created"}
  <2>1. Cardinality(S) = 1
    BY <1>2, FS_Singleton
  <2> QED BY <2>1
<1> QED BY <1>1, <1>2

LEMMA InitHolds == DocInit => DocInv
<1> SUFFICES ASSUME DocInit PROVE DocInv
  OBVIOUS
<1>0. PICK seen \in SUBSET Daemon :
        event = [d \in Daemon |-> IF d \in seen THEN Scanned(d) ELSE {}]
  BY DEF DocInit
<1>1. DocTypeOK /\ EventHasFile /\ OffIsEmpty /\ StopSaves
  <2>1. \A d \in Daemon : /\ event[d] = {} \/ event[d] = {"created"}
                          /\ event[d] # {} => disk[d] # Absent
    BY <1>0 DEF Scanned
  <2>2. event \in [Daemon -> SUBSET {"created", "changed"}]
    BY <1>0 DEF Scanned
  <2>3. due \in [Daemon -> Nat]
    <3>1. \A d \in Daemon : Cardinality(event[d]) \in Nat
      BY <2>1, ScanCounted
    <3> QED BY <3>1 DEF DocInit
  <2>4. DocTypeOK
    BY <2>2, <2>3, TextAssumption DEF DocInit, DocTypeOK
  <2> QED BY <2>1, <2>4 DEF DocInit, EventHasFile, OffIsEmpty, StopSaves
<1>2. Updates = {}
  BY DEF DocInit, Updates
<1>3. Numbered /\ FiniteDocs
  BY <1>2, FS_EmptySet DEF DocInit, Numbered, FiniteDocs
<1> QED BY <1>1, <1>3 DEF DocInv

\* Steps that make no update leave the numbers alone.
LEMMA NoNewUpdate ==
  ASSUME DocInv, Updates' \subseteq Updates, UNCHANGED made,
         \A d \in Daemon : doc'[d] \subseteq doc[d] \/ \E u : doc'[d] = doc[d] \cup {u}
  PROVE  Numbered' /\ FiniteDocs'
<1>1. Numbered'
  BY DEF DocInv, Numbered, Issued
<1>2. FiniteDocs'
  BY FS_Subset, FS_AddElement DEF DocInv, FiniteDocs
<1> QED BY <1>1, <1>2

LEMMA SameDocuments ==
  ASSUME DocInv, UNCHANGED <<doc, flight, made>>
  PROVE  Numbered' /\ FiniteDocs'
<1>1. Updates' = Updates
  BY DEF Updates
<1> QED BY <1>1, NoNewUpdate

LEMMA IssueKeeps ==
  ASSUME DocInv, NEW d \in Daemon, NEW u, Issue(d, u), Extends(doc[d], u)
  PROVE  /\ Numbered' /\ FiniteDocs'
         /\ doc' \in [Daemon -> SUBSET Update] /\ made' \in [Daemon -> Nat]
         /\ flight' \subseteq Daemon \X Update
<1>1. Updates' \subseteq Updates \cup {u}
  <2>1. \A e \in Daemon : doc'[e] \subseteq doc[e] \cup {u}
    BY DEF Issue, DocInv, DocTypeOK
  <2>2. \A m \in flight' : m \in flight \/ m[2] = u
    BY DEF Issue
  <2> QED BY <2>1, <2>2 DEF Updates
<1>2. made' \in [Daemon -> Nat] /\ made[d] \in Nat /\ \A e \in Daemon : made[e] <= made'[e]
  BY DEF Issue, DocInv, DocTypeOK
<1>3. \A i \in UpdateId : Issued(i) => Issued(i)'
  BY <1>2 DEF Issued, UpdateId, DocInv, DocTypeOK
<1>4. \A v \in Updates : v \in Update
  <2>1. \A m \in flight : m[2] \in Update
    BY DEF DocInv, DocTypeOK
  <2>2. \A e \in Daemon : doc[e] \subseteq Update
    BY DEF DocInv, DocTypeOK
  <2> QED BY <2>1, <2>2 DEF Updates
<1>5. \A v \in Updates : /\ Issued(v.id)' /\ \A i \in v.deps : Issued(i)'
                         /\ \A x \in v.ins \cup v.del : Issued(x.id)'
  BY <1>3, <1>4 DEF DocInv, Numbered, Update, Piece
<1>6. Issued(u.id)'
  BY <1>2 DEF Issue, Issued, NewId, DocInv, DocTypeOK
<1>7. /\ FiniteDoc(doc[d]) /\ doc[d] \subseteq Updates
      /\ Integrated(doc[d]) \subseteq doc[d]
  BY DocFinite DEF Updates, Integrated
<1>8. \A i \in u.deps : Issued(i)'
  BY <1>5, <1>7 DEF Extends, Ids
<1>9. ASSUME NEW x \in u.del PROVE Issued(x.id)'
  <2>1. PICK v \in Integrated(doc[d]) : x \in v.ins
    BY LiveMember DEF Extends
  <2> QED BY <1>5, <1>7, <2>1
<1>10. \A x \in u.ins : Issued(x.id)'
  BY <1>6 DEF Extends
<1>11. Numbered'
  BY <1>1, <1>5, <1>6, <1>8, <1>9, <1>10 DEF Numbered, DocInv, Extends
<1>12. FiniteDocs'
  BY FS_AddElement DEF FiniteDocs, DocInv, Issue, DocTypeOK
<1> QED BY <1>2, <1>11, <1>12 DEF Issue, DocInv, DocTypeOK

LEMMA HandleLocalKeeps ==
  ASSUME DocInv, NEW d \in Daemon, NEW r \in reading[d], r.text # None, HandleLocal(d, r),
         UNCHANGED <<saving, saved, mode>>, mode[d] = "on"
  PROVE  /\ Numbered' /\ FiniteDocs'
         /\ doc' \in [Daemon -> SUBSET Update] /\ made' \in [Daemon -> Nat]
         /\ flight' \subseteq Daemon \X Update
         /\ loaded' = loaded \cup {d} /\ \A e \in Daemon \ {d} : doc'[e] = doc[e]
         /\ listed' \in [Daemon -> FileText \cup {None}]
         /\ apart' \in [Daemon -> BOOLEAN]
<1>0. apart' \in [Daemon -> BOOLEAN]
  BY DEF HandleLocal, DocInv, DocTypeOK
<1>1. CASE UNCHANGED <<doc, flight, made>>
  <2>1. Numbered' /\ FiniteDocs'
    BY <1>1, SameDocuments
  <2>2. listed' \in [Daemon -> FileText \cup {None}]
    BY DEF HandleLocal, DocInv, DocTypeOK
  <2> QED BY <1>0, <1>1, <2>1, <2>2, HandleLocalEffect DEF DocInv, DocTypeOK
<1>2. CASE \E u : Issue(d, u) /\ Extends(doc[d], u)
  <2>1. \A e \in Daemon \ {d} : doc'[e] = doc[e]
    BY <1>2 DEF Issue, DocInv, DocTypeOK
  <2>2. listed' \in [Daemon -> FileText \cup {None}] 
    BY DEF HandleLocal, DocInv, DocTypeOK
  <2>3. /\ Numbered' /\ FiniteDocs'
        /\ doc' \in [Daemon -> SUBSET Update] /\ made' \in [Daemon -> Nat]
        /\ flight' \subseteq Daemon \X Update
    BY <1>2, IssueKeeps
  <2> QED BY <1>0, <2>1, <2>2, <2>3, HandleLocalEffect
<1> QED BY <1>1, <1>2, HandleLocalEffect

FileStep(d) ==
  \/ \E text \in [Text -> 0..1] : UserSave(d, text)
  \/ \E kind \in {"created", "changed"} : StatFile(d, kind)
  \/ \E r \in reading[d] : ReadFile(d, r)
  \/ \E w \in writing[d] : WriteFile(d, w) \/ WriteFails(d, w)
  \/ \E t \in tokens[d] : ForgetToken(d, t)

LEMMA FileStepKeeps ==
  ASSUME DocInv, NEW d \in Daemon, FileStep(d)
  PROVE  DocInv'
<1>1. UNCHANGED <<mode, ydoc, diskVars, flight, made>>
  BY DEF FileStep, UserSave, StatFile, ReadFile, WriteFile, WriteFails, ForgetToken
<1>2. Numbered' /\ FiniteDocs' /\ StopSaves'
  BY <1>1, SameDocuments DEF ydoc, diskVars, StopSaves, DocInv
<1>3. ASSUME NEW text \in [Text -> 0..1], UserSave(d, text)
      PROVE  DocTypeOK' /\ EventHasFile' /\ OffIsEmpty'
  <2>1. text \in FileText
    BY DEF FileText
  <2>2. due' \in [Daemon -> Nat] /\ raced' \in [Daemon -> BOOLEAN]
    BY <1>3 DEF UserSave, DocInv, DocTypeOK, Settled
  <2>3. disk' = [disk EXCEPT ![d] = text]
    BY <1>3 DEF UserSave, Changes
  <2>4. event' \in [Daemon -> SUBSET {"created", "changed"}]
        /\ \A e \in Daemon \ {d} : event'[e] = event[e]
    BY <1>3 DEF UserSave, Changes, DocInv, DocTypeOK
  <2>5. DocTypeOK'
    BY <1>1, <1>3, <2>1, <2>2, <2>3, <2>4 DEF UserSave, ydoc, diskVars, DocInv, DocTypeOK
  <2>6. EventHasFile'
    BY <1>3, <2>1, <2>3, <2>4, TextAssumption DEF UserSave, EventHasFile, DocInv, DocTypeOK
  <2> QED BY <1>3, <2>5, <2>6 DEF UserSave, ydoc, diskVars, OffIsEmpty, DocInv
<1>4. ASSUME NEW kind \in {"created", "changed"}, StatFile(d, kind)
      PROVE  DocTypeOK' /\ EventHasFile' /\ OffIsEmpty'
  <2>1. /\ UNCHANGED <<mode, disk, tokens, writing, listed, loaded, doc, saving, saved, flight,
                       made, due, raced, intact>>
        /\ event' = [event EXCEPT ![d] = @ \ {kind}] /\ kind \in event[d] /\ mode[d] # "off"
    BY <1>4 DEF StatFile, ydoc, diskVars, historyVars
  <2>2. /\ reading' \in [Daemon -> SUBSET [kind : {"created", "changed"},
                                             text : FileText \cup {None}]]
        /\ apart' \in [Daemon -> BOOLEAN]
        /\ \A e \in Daemon \ {d} : reading'[e] = reading[e]
    <3>1. CASE disk[d] \in Refused
      BY <1>4, <3>1 DEF StatFile, DocInv, DocTypeOK
    <3>2. CASE disk[d] \notin Refused
      <4>1. [kind |-> kind, text |-> None] \in [kind : {"created", "changed"},
                                                 text : FileText \cup {None}]
        OBVIOUS
      <4>2. reading' = [reading EXCEPT ![d] = @ \cup {[kind |-> kind, text |-> None]}]
            /\ UNCHANGED apart
        BY <1>4, <3>2 DEF StatFile
      <4> QED BY <4>1, <4>2 DEF DocInv, DocTypeOK
    <3> QED BY <3>1, <3>2
  <2>3. DocTypeOK'
    BY <2>1, <2>2 DEF DocInv, DocTypeOK
  <2>4. EventHasFile'
    BY <2>1, <2>2 DEF EventHasFile, DocInv, DocTypeOK
  <2> QED BY <2>1, <2>2, <2>3, <2>4 DEF OffIsEmpty, DocInv
<1>5. ASSUME NEW r \in reading[d], ReadFile(d, r)
      PROVE  DocTypeOK' /\ EventHasFile' /\ OffIsEmpty'
  <2>1. disk[d] \in FileText /\ r.kind \in {"created", "changed"}
        /\ r \in [kind : {"created", "changed"}, text : FileText \cup {None}]
    BY DEF EventHasFile, DocInv, DocTypeOK
  <2>2. PICK q : q = [r EXCEPT !.text = disk[d]]
    OBVIOUS
  <2>3. q \in [kind : {"created", "changed"}, text : FileText \cup {None}]
    BY <2>1, <2>2
  <2>4. /\ UNCHANGED <<mode, disk, event, tokens, writing, listed, loaded, doc, saving, saved,
                       flight, made, due, raced, apart, intact>>
        /\ reading' = [reading EXCEPT ![d] = (@ \ {r}) \cup {q}] /\ mode[d] # "off"
    BY <1>5, <2>2 DEF ReadFile, ydoc, diskVars, historyVars, traceVars
  <2>5. DocTypeOK'
    BY <2>3, <2>4 DEF DocInv, DocTypeOK
  <2>6. EventHasFile' /\ OffIsEmpty'
    BY <2>4 DEF EventHasFile, OffIsEmpty, DocInv, DocTypeOK
  <2> QED BY <2>5, <2>6
<1>6. ASSUME NEW w \in writing[d], WriteFile(d, w)
      PROVE  DocTypeOK' /\ EventHasFile' /\ OffIsEmpty'
  <2>1. w.text \in FileText
    BY DEF DocInv, DocTypeOK
  <2>2. writing' \in [Daemon -> SUBSET [id : UpdateId, text : FileText]]
        /\ listed' \in [Daemon -> FileText \cup {None}] /\ apart' \in [Daemon -> BOOLEAN]
    BY <1>6, <2>1 DEF WriteFile, DocInv, DocTypeOK
  <2>3. disk' = [disk EXCEPT ![d] = w.text]
    BY <1>6 DEF WriteFile, Changes
  <2>4. event' \in [Daemon -> SUBSET {"created", "changed"}]
        /\ \A e \in Daemon \ {d} : event'[e] = event[e]
    BY <1>6 DEF WriteFile, Changes, DocInv, DocTypeOK
  <2>5. UNCHANGED <<mode, reading, tokens, loaded, doc, saving, saved, flight, made, due, raced,
                    intact>>
    BY <1>6 DEF WriteFile, ydoc, diskVars, historyVars
  <2>6. DocTypeOK'
    BY <2>1, <2>2, <2>3, <2>4, <2>5 DEF DocInv, DocTypeOK
  <2>7. EventHasFile'
    BY <2>1, <2>3, <2>4, <2>5, TextAssumption DEF EventHasFile, DocInv, DocTypeOK
  <2>8. mode[d] # "off" /\ writing' = [writing EXCEPT ![d] = @ \ {w}]
    BY <1>6 DEF WriteFile
  <2> QED BY <2>5, <2>6, <2>7, <2>8 DEF OffIsEmpty, DocInv, DocTypeOK
<1>7. ASSUME NEW w \in writing[d], WriteFails(d, w)
      PROVE  DocTypeOK' /\ EventHasFile' /\ OffIsEmpty'
  <2>1. /\ UNCHANGED <<mode, disk, event, reading, tokens, listed, loaded, doc, saving, saved,
                       flight, made, due, raced, intact>>
        /\ writing' = [writing EXCEPT ![d] = @ \ {w}]
        /\ apart' = [apart EXCEPT ![d] = TRUE] /\ mode[d] # "off"
    BY <1>7 DEF WriteFails, fileVars, ydoc, diskVars, historyVars
  <2> QED BY <2>1 DEF EventHasFile, OffIsEmpty, DocInv, DocTypeOK
<1>8. ASSUME NEW t \in tokens[d], ForgetToken(d, t)
      PROVE  DocTypeOK' /\ EventHasFile' /\ OffIsEmpty'
  <2>1. /\ UNCHANGED <<mode, disk, event, reading, writing, listed, loaded, doc, saving, saved,
                       flight, made, raced, apart, intact>>
        /\ tokens' = [tokens EXCEPT ![d] = @ \ {t}]
        /\ due' = [due EXCEPT ![d] = IF Settled(d) THEN @ ELSE @ + 1]
    BY <1>8 DEF ForgetToken, fileVars, ydoc, diskVars, historyVars
  <2>2. due' \in [Daemon -> Nat]
    BY <2>1 DEF DocInv, DocTypeOK
  <2> QED BY <2>1, <2>2 DEF EventHasFile, OffIsEmpty, DocInv, DocTypeOK
<1> QED BY <1>2, <1>3, <1>4, <1>5, <1>6, <1>7, <1>8 DEF FileStep, DocInv

LEMMA HandleEventKeeps ==
  ASSUME DocInv, NEW d \in Daemon, NEW r \in reading[d], HandleEvent(d, r)
  PROVE  DocInv'
<1>1. UNCHANGED <<mode, disk, event, writing, saving, saved, due, raced, intact>>
      /\ reading' = [reading EXCEPT ![d] = @ \ {r}] /\ mode[d] # "off" /\ r.text # None
  BY DEF HandleEvent, diskVars, historyVars
<1>2. /\ Numbered' /\ FiniteDocs'
      /\ doc' \in [Daemon -> SUBSET Update] /\ made' \in [Daemon -> Nat]
      /\ flight' \subseteq Daemon \X Update
      /\ \A e \in Daemon \ {d} : doc'[e] = doc[e]
      /\ listed' \in [Daemon -> FileText \cup {None}]
      /\ \/ UNCHANGED ydoc
         \/ mode[d] = "on" /\ loaded' = loaded \cup {d}
      /\ tokens' \in [Daemon -> SUBSET [id : UpdateId, hash : FileText]]
      /\ \A e \in Daemon \ {d} : tokens'[e] = tokens[e]
      /\ apart' \in [Daemon -> BOOLEAN]
  <2>1. CASE Suppress(d, r)
    BY <2>1, SameDocuments DEF Suppress, ydoc, DocInv, DocTypeOK
  <2>2. CASE mode[d] = "on" /\ HandleLocal(d, r)
    BY <1>1, <2>2, HandleLocalKeeps DEF HandleLocal, DocInv, DocTypeOK
  <2>3. CASE UNCHANGED <<tokens, listed, ydoc, flight, made, apart>>
    BY <2>3, SameDocuments DEF ydoc, DocInv, DocTypeOK
  <2> QED BY <2>1, <2>2, <2>3 DEF HandleEvent
<1>3. DocTypeOK'
  BY <1>1, <1>2 DEF DocInv, DocTypeOK, ydoc
<1>4. EventHasFile'
  BY <1>1 DEF EventHasFile, DocInv, DocTypeOK
<1>5. OffIsEmpty'
  BY <1>1, <1>2 DEF OffIsEmpty, DocInv, DocTypeOK, ydoc
<1>6. StopSaves'
  <2>1. CASE UNCHANGED ydoc
    BY <1>1, <2>1 DEF StopSaves, DocInv, ydoc
  <2>2. CASE mode[d] = "on" /\ loaded' = loaded \cup {d}
    <3>1. \A s \in saving[d] : s.why # "stop"
      BY <2>2 DEF StopSaves, DocInv
    <3>2. \A e \in Daemon \ {d} : (e \in loaded' <=> e \in loaded) /\ doc'[e] = doc[e]
      BY <1>2, <2>2
    <3> QED BY <1>1, <2>2, <3>1, <3>2 DEF StopSaves, DocInv
  <2> QED BY <1>2, <2>1, <2>2
<1> QED BY <1>2, <1>3, <1>4, <1>5, <1>6 DEF DocInv

LEMMA ReceiveKeeps ==
  ASSUME DocInv, NEW d, NEW u, Receive(d, u)
  PROVE  DocInv'
<1>1. d \in Daemon /\ u \in Update /\ u.id \in UpdateId /\ u \in Updates
  <2>1. <<d, u>> \in flight /\ flight \subseteq Daemon \X Update
    BY DEF Receive, DocInv, DocTypeOK
  <2> QED BY <2>1 DEF Updates, Update
<1>2. /\ flight' = flight \ {<<d, u>>}
      /\ UNCHANGED <<mode, disk, event, reading, listed, saving, saved, made, due, intact>>
  BY DEF Receive, fileVars, diskVars, historyVars
<1>3. CASE mode[d] # "on"
  <2>1. UNCHANGED <<tokens, writing, loaded, doc, raced, apart>>
    BY <1>3 DEF Receive, ydoc
  <2>2. Updates' \subseteq Updates
    BY <1>2, <2>1 DEF Updates
  <2>3. Numbered' /\ FiniteDocs'
    BY <1>2, <2>1, <2>2, NoNewUpdate
  <2>4. DocTypeOK'
    BY <1>2, <2>1 DEF DocInv, DocTypeOK
  <2> QED BY <1>2, <2>1, <2>3, <2>4 DEF DocInv, EventHasFile, OffIsEmpty, StopSaves
<1>4. CASE mode[d] = "on"
  <2>1. /\ loaded' = loaded \cup {d}
        /\ doc' = [doc EXCEPT ![d] = @ \cup {u}]
        /\ Unwritten(d, u) \/ Announce(d, u)
        /\ raced' = [raced EXCEPT ![d] = @ \/ ~Settled(d)]
    BY <1>4 DEF Receive
  <2>2. Updates' \subseteq Updates
    <3>1. \A e \in Daemon : doc'[e] \subseteq doc[e] \cup {u}
      BY <2>1 DEF DocInv, DocTypeOK
    <3> QED BY <1>1, <1>2, <3>1 DEF Updates
  <2>3. \A e \in Daemon : doc'[e] \subseteq doc[e] \/ \E v : doc'[e] = doc[e] \cup {v}
    BY <2>1 DEF DocInv, DocTypeOK
  <2>4. Numbered' /\ FiniteDocs'
    BY <1>2, <2>2, <2>3, NoNewUpdate
  <2>5. FiniteDoc(doc[d] \cup {u})
    BY <1>1, DocFinite, FS_AddElement DEF FiniteDoc, DocInv, Numbered
  <2>6. TextOf(doc[d] \cup {u}) \in FileText
    BY <2>5, TextOfType
  <2>7. /\ tokens' \in [Daemon -> SUBSET [id : UpdateId, hash : FileText]]
        /\ writing' \in [Daemon -> SUBSET [id : UpdateId, text : FileText]]
        /\ \A e \in Daemon \ {d} : tokens'[e] = tokens[e] /\ writing'[e] = writing[e]
        /\ apart' \in [Daemon -> BOOLEAN]
    <3>1. /\ [id |-> u.id, hash |-> AnnouncedHash(d, u)] \in [id : UpdateId, hash : FileText]
          /\ [id |-> u.id, text |-> Merged(d, u)] \in [id : UpdateId, text : FileText]
      BY <1>1, <2>6 DEF AnnouncedHash, Merged
    <3>2. CASE Unwritten(d, u)
      BY <3>2 DEF Unwritten, DocInv, DocTypeOK
    <3>3. CASE Announce(d, u)
      BY <1>1, <3>1, <3>3 DEF Announce, DocInv, DocTypeOK
    <3> QED BY <2>1, <3>2, <3>3
  <2>8. loaded' \subseteq Daemon /\ doc' \in [Daemon -> SUBSET Update]
        /\ raced' \in [Daemon -> BOOLEAN]
    BY <1>1, <2>1 DEF DocInv, DocTypeOK, Settled
  <2>9. DocTypeOK'
    BY <1>2, <2>7, <2>8 DEF DocInv, DocTypeOK
  <2>10. /\ mode[d] # "off" /\ loaded' = loaded \cup {d}
         /\ \A e \in Daemon \ {d} : /\ doc'[e] = doc[e] /\ tokens'[e] = tokens[e]
                                    /\ writing'[e] = writing[e]
    BY <1>4, <2>1, <2>7 DEF DocInv, DocTypeOK
  <2>11. OffIsEmpty'
    BY <1>2, <2>10 DEF OffIsEmpty, DocInv
  <2>12. StopSaves'
    <3>1. \A s \in saving[d] : s.why # "stop"
      BY <1>1, <1>4 DEF StopSaves, DocInv
    <3>2. \A e \in Daemon \ {d} : (e \in loaded' <=> e \in loaded) /\ doc'[e] = doc[e]
      BY <2>10
    <3> QED BY <1>2, <1>4, <3>1, <3>2 DEF StopSaves, DocInv
  <2> QED BY <1>2, <2>4, <2>9, <2>11, <2>12 DEF DocInv, EventHasFile
<1> QED BY <1>3, <1>4

LEMMA StopStepKeeps ==
  ASSUME DocInv, NEW d \in Daemon,
         UnloadIdle(d) \/ Stop(d) \/ Persisted(d)
  PROVE  DocInv'
<1>1. UNCHANGED <<disk, event, reading, tokens, writing, listed, loaded, doc, flight, made, due,
                  raced, apart>>
  BY DEF UnloadIdle, Stop, Persisted, fileVars, ydoc, historyVars, traceVars
<1>2. Numbered' /\ FiniteDocs'
  BY <1>1, SameDocuments
<1>3. \A why \in {"unload", "stop"} : [why |-> why, state |-> doc[d]]
                                       \in [why : {"unload", "stop"}, state : SUBSET Update]
  BY DEF DocInv, DocTypeOK
<1>4. CASE UnloadIdle(d)
  <2>1. saving' = [saving EXCEPT ![d] = @ \cup {[why |-> "unload", state |-> doc[d]]}]
        /\ UNCHANGED <<mode, saved, intact>> /\ mode[d] = "on"
    BY <1>4 DEF UnloadIdle, Encode
  <2>2. DocTypeOK'
    BY <1>1, <1>3, <2>1 DEF DocInv, DocTypeOK
  <2>3. \A e \in Daemon : \A s \in saving'[e] : s.why = "stop" => s \in saving[e]
    BY <2>1 DEF DocInv, DocTypeOK
  <2>4. \A e \in Daemon : saving[e] \subseteq saving'[e] /\ (mode[e] = "off" => saving'[e] = saving[e])
    BY <2>1 DEF DocInv, DocTypeOK
  <2> QED BY <1>1, <1>2, <2>1, <2>2, <2>3, <2>4 DEF DocInv, EventHasFile, OffIsEmpty, StopSaves
<1>5. CASE Stop(d)
  <2>1. /\ mode' = [mode EXCEPT ![d] = "stopping"] /\ mode[d] = "on"
        /\ intact' = FALSE /\ UNCHANGED saved
        /\ IF d \in loaded
             THEN saving' = [saving EXCEPT ![d] = @ \cup {[why |-> "stop", state |-> doc[d]]}]
             ELSE UNCHANGED saving
    BY <1>5 DEF Stop, Encode
  <2>2. saving' \in [Daemon -> SUBSET [why : {"unload", "stop"}, state : SUBSET Update]]
    BY <1>3, <2>1 DEF DocInv, DocTypeOK
  <2>3. DocTypeOK'
    BY <1>1, <2>1, <2>2 DEF DocInv, DocTypeOK
  <2>4. /\ \A e \in Daemon \ {d} : mode'[e] = mode[e] /\ saving'[e] = saving[e]
        /\ mode'[d] = "stopping"
    BY <2>1 DEF DocInv, DocTypeOK
  <2>5. OffIsEmpty'
    BY <1>1, <2>4 DEF DocInv, OffIsEmpty
  <2>6. StopSaves'
    <3>1. \A s \in saving[d] : s.why # "stop"
      BY <2>1 DEF StopSaves, DocInv
    <3>2. d \in loaded => saving'[d] = saving[d] \cup {[why |-> "stop", state |-> doc[d]]}
      BY <2>1 DEF DocInv, DocTypeOK
    <3>3. d \notin loaded => saving'[d] = saving[d]
      BY <2>1
    <3>4. /\ \A s \in saving'[d] : (s.why = "stop" /\ d \in loaded) => s.state = doc[d]
          /\ d \in loaded => \E s \in saving'[d] : s.why = "stop"
      <4> DEFINE new == [why |-> "stop", state |-> doc[d]]
      <4>1. new.why = "stop" /\ new.state = doc[d]
        OBVIOUS
      <4> HIDE DEF new
      <4>2. d \in loaded => saving'[d] = saving[d] \cup {new}
        BY <3>2 DEF new
      <4> QED BY <3>1, <3>3, <4>1, <4>2
    <3> QED BY <1>1, <2>1, <2>4, <3>4 DEF StopSaves, DocInv
  <2> QED BY <1>1, <1>2, <2>3, <2>5, <2>6 DEF DocInv, EventHasFile
<1>6. CASE Persisted(d)
  <2>1. PICK s \in saving[d] : s.why = "stop" /\ Saves(d, s)
    BY <1>6 DEF Persisted
  <2>2. /\ saving' = [saving EXCEPT ![d] = @ \ {s}] /\ saved' = [saved EXCEPT ![d] = s.state]
        /\ UNCHANGED <<mode, intact>>
    BY <1>6, <2>1 DEF Saves, Persisted, historyVars
  <2>3. DocTypeOK'
    BY <1>1, <2>1, <2>2 DEF DocInv, DocTypeOK
  <2>4. OffIsEmpty'
    BY <1>1, <2>2 DEF DocInv, OffIsEmpty, DocTypeOK
  <2>5. StopSaves'
    <3>1. \A e \in Daemon \ {d} : saving'[e] = saving[e] /\ saved'[e] = saved[e]
      BY <2>2 DEF DocInv, DocTypeOK
    <3>2. saving'[d] \subseteq saving[d] /\ saved'[d] = s.state
      BY <2>2 DEF DocInv, DocTypeOK
    <3>3. d \in loaded => saved'[d] = doc[d]
      BY <2>1, <3>2 DEF DocInv, StopSaves
    <3> QED BY <1>1, <2>2, <3>1, <3>2, <3>3 DEF StopSaves, DocInv
  <2> QED BY <1>1, <1>2, <2>3, <2>4, <2>5 DEF DocInv, EventHasFile
<1> QED BY <1>4, <1>5, <1>6

LEMMA ForgetStepKeeps ==
  ASSUME DocInv, NEW d \in Daemon, Unloaded(d) \/ Exit(d) \/ Start(d)
  PROVE  DocInv'
<1>1. UNCHANGED <<disk, listed, flight, made, raced, apart>>
  BY DEF Unloaded, Exit, Start, fileVars, historyVars, traceVars, ydoc
<1>2. \A e \in Daemon : doc'[e] \subseteq doc[e]
  BY DEF Unloaded, Exit, Start, ydoc, DocInv, DocTypeOK
<1>3. Updates' \subseteq Updates
  BY <1>1, <1>2 DEF Updates
<1>4. Numbered' /\ FiniteDocs'
  BY <1>1, <1>2, <1>3, NoNewUpdate
<1>5. ASSUME Unloaded(d) PROVE DocTypeOK' /\ EventHasFile' /\ OffIsEmpty' /\ StopSaves'
  <2>1. PICK s \in saving[d] : s.why = "unload" /\ Saves(d, s)
    BY <1>5 DEF Unloaded
  <2>2. /\ saving' = [saving EXCEPT ![d] = @ \ {s}] /\ saved' = [saved EXCEPT ![d] = s.state]
        /\ loaded' = loaded \ {d} /\ doc' = [doc EXCEPT ![d] = {}]
        /\ UNCHANGED <<mode, event, reading, tokens, writing, due>> /\ intact' = FALSE
    BY <1>5, <2>1 DEF Saves, Unloaded, fileVars, traceVars
  <2>3. DocTypeOK'
    <3>1. s.state \in SUBSET Update
      BY DEF DocInv, DocTypeOK
    <3> QED BY <1>1, <2>2, <3>1 DEF DocInv, DocTypeOK
  <2>4. \A e \in Daemon \ {d} : /\ saving'[e] = saving[e] /\ saved'[e] = saved[e]
                                /\ doc'[e] = doc[e] /\ (e \in loaded' <=> e \in loaded)
    BY <2>2 DEF DocInv, DocTypeOK
  <2>5. saving'[d] \subseteq saving[d] /\ doc'[d] = {} /\ d \notin loaded'
    BY <2>2 DEF DocInv, DocTypeOK
  <2> QED BY <1>1, <2>2, <2>3, <2>4, <2>5 DEF DocInv, EventHasFile, OffIsEmpty, StopSaves
<1>6. ASSUME Exit(d) PROVE DocTypeOK' /\ EventHasFile' /\ OffIsEmpty' /\ StopSaves'
  <2>1. /\ mode' = [mode EXCEPT ![d] = "off"]
        /\ loaded' = loaded \ {d} /\ doc' = [doc EXCEPT ![d] = {}]
        /\ event' = [event EXCEPT ![d] = {}]
        /\ reading' = [reading EXCEPT ![d] = {}]
        /\ tokens' = [tokens EXCEPT ![d] = {}]
        /\ writing' = [writing EXCEPT ![d] = {}]
        /\ saving' = [saving EXCEPT ![d] = {}]
        /\ UNCHANGED <<saved, due, intact>>
    BY <1>6 DEF Exit, historyVars, traceVars
  <2>2. DocTypeOK'
    BY <1>1, <2>1 DEF DocInv, DocTypeOK
  <2>3. \A e \in Daemon \ {d} :
          /\ mode'[e] = mode[e] /\ (e \in loaded' <=> e \in loaded) /\ doc'[e] = doc[e]
          /\ event'[e] = event[e] /\ reading'[e] = reading[e] /\ tokens'[e] = tokens[e]
          /\ writing'[e] = writing[e] /\ saving'[e] = saving[e]
    BY <2>1 DEF DocInv, DocTypeOK
  <2>4. /\ mode'[d] = "off" /\ d \notin loaded' /\ doc'[d] = {} /\ event'[d] = {}
        /\ reading'[d] = {} /\ tokens'[d] = {} /\ writing'[d] = {} /\ saving'[d] = {}
    BY <2>1 DEF DocInv, DocTypeOK
  <2>5. EventHasFile' /\ OffIsEmpty'
    BY <1>1, <2>3, <2>4 DEF DocInv, EventHasFile, OffIsEmpty
  <2>6. StopSaves'
    BY <2>1, <2>3, <2>4 DEF DocInv, StopSaves
  <2> QED BY <2>2, <2>5, <2>6
<1>7. ASSUME Start(d) PROVE DocTypeOK' /\ EventHasFile' /\ OffIsEmpty' /\ StopSaves'
  <2>1. PICK seen \in SUBSET Scanned(d) :
          /\ event' = [event EXCEPT ![d] = seen]
          /\ due' = [due EXCEPT ![d] = @ + Cardinality(seen)]
    BY <1>7 DEF Start
  <2>0. (seen = {} \/ seen = {"created"}) /\ (seen # {} => disk[d] # Absent)
    BY DEF Scanned
  <2>2. /\ mode' = [mode EXCEPT ![d] = "on"] /\ mode[d] = "off"
        /\ UNCHANGED <<reading, tokens, writing, loaded, doc, saving, saved, intact>>
    BY <1>7 DEF Start, ydoc, diskVars, historyVars
  <2>3. DocTypeOK'
    <3>1. Cardinality(seen) \in Nat
      BY <2>0, ScanCounted
    <3>2. due' \in [Daemon -> Nat]
      BY <2>1, <3>1 DEF DocInv, DocTypeOK
    <3> QED BY <1>1, <2>0, <2>1, <2>2, <3>2 DEF DocInv, DocTypeOK
  <2>4. EventHasFile' /\ OffIsEmpty'
    BY <1>1, <2>0, <2>1, <2>2 DEF DocInv, EventHasFile, OffIsEmpty, DocTypeOK
  <2>5. StopSaves'
    <3>1. d \notin loaded /\ saving[d] = {} /\ mode'[d] = "on"
      BY <2>2 DEF DocInv, OffIsEmpty, DocTypeOK
    <3>2. \A e \in Daemon \ {d} : mode'[e] = mode[e]
      BY <2>2 DEF DocInv, DocTypeOK
    <3> QED BY <2>2, <3>1, <3>2 DEF DocInv, StopSaves
  <2> QED BY <2>3, <2>4, <2>5
<1> QED BY <1>4, <1>5, <1>6, <1>7 DEF DocInv

LEMMA StepHolds == DocInv /\ [DocNext]_docVars => DocInv'
<1> SUFFICES ASSUME DocInv, [DocNext]_docVars PROVE DocInv'
  OBVIOUS
<1>1. CASE UNCHANGED docVars
  <2>1. Updates' = Updates
    BY <1>1 DEF docVars, Updates
  <2> QED BY <1>1, <2>1 DEF docVars, DocInv, DocTypeOK, EventHasFile, Numbered, Issued,
                            FiniteDocs, OffIsEmpty, StopSaves
<1>2. CASE DocNext
  <2>1. ASSUME NEW d \in Daemon, FileStep(d)
        PROVE  DocInv'
    BY <2>1, FileStepKeeps
  <2>2. ASSUME NEW d \in Daemon, \E r \in reading[d] : HandleEvent(d, r)
        PROVE  DocInv'
    BY <2>2, HandleEventKeeps
  <2>3. ASSUME NEW d \in Daemon, UnloadIdle(d) \/ Stop(d) \/ Persisted(d)
        PROVE  DocInv'
    BY <2>3, StopStepKeeps
  <2>4. ASSUME NEW d \in Daemon, Unloaded(d) \/ Exit(d) \/ Start(d)
        PROVE  DocInv'
    BY <2>4, ForgetStepKeeps
  <2>5. ASSUME NEW m \in flight, Receive(m[1], m[2])
        PROVE  DocInv'
    BY <2>5, ReceiveKeeps
  <2> QED BY <1>2, <2>1, <2>2, <2>3, <2>4, <2>5 DEF DocNext, FileStep
<1> QED BY <1>1, <1>2

(* Every state of a run is typed; its updates are finite and numbered by   *)
(* their authors, a daemon that is off holds nothing of the file, and what *)
(* stop saves is what the document holds.                                  *)
THEOREM DocumentsInvariant == DocSpec => []DocInv
  BY InitHolds, StepHolds, PTL DEF DocSpec

(* SyncOrchestrator.stop: whatever a daemon does between the encoding of a *)
(* document and its last write, it ends with the newest state on disk.     *)
THEOREM StopKeepsTheDocument == DocSpec => StopKeepsDocument
<1> DEFINE Kept == \A d \in Daemon : mode[d] = "stopping" /\ mode'[d] = "off" /\ d \in loaded
                                      => saved[d] = doc[d]
<1>1. ASSUME DocInv, [DocNext]_docVars PROVE [Kept]_docVars
  <2>1. CASE UNCHANGED docVars
    BY <2>1
  <2>2. CASE DocNext
    <3>1. ASSUME NEW d \in Daemon, mode[d] = "stopping", mode'[d] = "off"
          PROVE  PersistedAll(d)
      <4>1. mode \in [Daemon -> {"on", "stopping", "off"}]
        BY <1>1 DEF DocInv, DocTypeOK
      <4>2. ASSUME NEW e \in Daemon, Stop(e) PROVE mode'[d] # "off"
        BY <3>1, <4>1, <4>2 DEF Stop
      <4>3. ASSUME NEW e \in Daemon, Start(e) PROVE mode'[d] # "off"
        BY <3>1, <4>1, <4>3 DEF Start
      <4>4. ASSUME NEW e \in Daemon, Exit(e) PROVE PersistedAll(d)
        BY <3>1, <4>1, <4>4 DEF Exit
      <4>5. ASSUME NEW e \in Daemon,
                   \/ FileStep(e) \/ \E r \in reading[e] : HandleEvent(e, r)
                   \/ UnloadIdle(e) \/ Unloaded(e) \/ Persisted(e)
            PROVE  mode' = mode
        BY <4>5 DEF FileStep, UserSave, StatFile, ReadFile, HandleEvent, WriteFile, WriteFails,
                    ForgetToken, UnloadIdle, Unloaded, Persisted
      <4>6. ASSUME NEW m \in flight, Receive(m[1], m[2]) PROVE mode' = mode
        BY <4>6 DEF Receive
      <4> QED BY <2>2, <3>1, <4>2, <4>3, <4>4, <4>5, <4>6 DEF DocNext, FileStep
    <3>2. ASSUME NEW d \in Daemon, mode[d] = "stopping", d \in loaded, PersistedAll(d)
          PROVE  saved[d] = doc[d]
      BY <1>1, <3>2 DEF DocInv, StopSaves, PersistedAll
    <3> QED BY <3>1, <3>2
  <2> QED BY <1>1, <2>1, <2>2
<1> QED BY <1>1, DocumentsInvariant, PTL DEF DocSpec, StopKeepsDocument

----------------------------------------------------------------------------
(* Documents converge *)

LEMMA ComesMember ==
  ASSUME NEW d, NEW v
  PROVE  v \in Comes(d) <=> v \in doc[d] \/ \E m \in flight : m[1] = d /\ m[2] = v
BY DEF Comes

LEMMA SecondsOfUnion ==
  ASSUME NEW M, NEW x, NEW y
  PROVE  {m[2] : m \in M \cup {<<x, y>>}} = {m[2] : m \in M} \cup {y}
<1> DEFINE p == <<x, y>>
<1>1. p[2] = y
  OBVIOUS
<1> HIDE DEF p
<1>2. {m[2] : m \in M \cup {p}} = {m[2] : m \in M} \cup {p[2]}
  OBVIOUS
<1> QED BY <1>1, <1>2 DEF p

LEMMA FlightMember ==
  ASSUME DocTypeOK, NEW m \in flight
  PROVE  m = <<m[1], m[2]>> /\ m[1] \in Daemon /\ m[2] \in Update
<1>1. m \in Daemon \X Update
  BY DEF DocTypeOK
<1> QED BY <1>1

LEMMA SameUpdatesInit == DocInit => SameUpdates
  BY DEF DocInit, SameUpdates, Comes

LEMMA SameUpdatesKept ==
  ASSUME DocInv, SameUpdates, [DocNext]_docVars
  PROVE  SameUpdates'
<1> SUFFICES ASSUME intact' PROVE /\ \A d \in Daemon : mode'[d] = "on"
                                  /\ \A d, e \in Daemon : Comes(d)' = Comes(e)'
  BY DEF SameUpdates
<1>2. ASSUME UNCHANGED <<mode, intact, doc, flight>>
      PROVE  /\ \A d \in Daemon : mode'[d] = "on"
             /\ \A d, e \in Daemon : Comes(d)' = Comes(e)'
  <2>1. \A d \in Daemon : Comes(d)' = Comes(d)
    BY <1>2 DEF Comes
  <2> QED BY <1>2, <2>1 DEF SameUpdates
<1>1. CASE UNCHANGED docVars
  <2>1. UNCHANGED <<mode, intact, doc, flight>>
    BY <1>1 DEF docVars
  <2> QED BY <1>2, <2>1
<1> USE DEF DocInv, DocTypeOK
<1>3. ASSUME NEW d \in Daemon, NEW u, Issue(d, u), UNCHANGED <<mode, intact>>
      PROVE  /\ \A e \in Daemon : mode'[e] = "on"
             /\ \A e, f \in Daemon : Comes(e)' = Comes(f)'
  <2>1. ASSUME NEW e \in Daemon PROVE Comes(e)' = Comes(e) \cup {u}
    <3>1. doc'[e] = IF e = d THEN doc[e] \cup {u} ELSE doc[e]
      BY <1>3 DEF Issue
    <3>2. {m \in flight' : m[1] = e} = {m \in flight : m[1] = e}
                                       \cup (IF e = d THEN {} ELSE {<<e, u>>})
      BY <1>3 DEF Issue
    <3> DEFINE M == {m \in flight : m[1] = e}
    <3>3. CASE e = d
      BY <3>1, <3>2, <3>3 DEF Comes
    <3>4. CASE e # d
      <4>1. Comes(e)' = doc[e] \cup {m[2] : m \in M \cup {<<e, u>>}}
        BY <3>1, <3>2, <3>4 DEF Comes
      <4>2. Comes(e) = doc[e] \cup {m[2] : m \in M}
        BY DEF Comes
      <4> HIDE DEF M
      <4>4. {m[2] : m \in M \cup {<<e, u>>}} = {m[2] : m \in M} \cup {u}
        BY SecondsOfUnion
      <4> QED BY <4>1, <4>2, <4>4
    <3> QED BY <3>3, <3>4
  <2> QED BY <1>3, <2>1 DEF SameUpdates
<1>4. ASSUME NEW m \in flight, Receive(m[1], m[2])
      PROVE  /\ \A e \in Daemon : mode'[e] = "on"
             /\ \A e, f \in Daemon : Comes(e)' = Comes(f)'
  <2> DEFINE d == m[1]
             u == m[2]
  <2>0. UNCHANGED <<mode, intact>>
    BY <1>4 DEF Receive, historyVars
  <2>1. d \in Daemon /\ m = <<d, u>> /\ UNCHANGED <<mode, intact>>
    BY <2>0, FlightMember
  <2>2. doc' = [doc EXCEPT ![d] = @ \cup {u}] /\ flight' = flight \ {<<d, u>>}
    BY <1>4, <2>1 DEF Receive, SameUpdates
  <2>3. ASSUME NEW e \in Daemon PROVE Comes(e)' = Comes(e)
    BY <2>1, <2>2 DEF Comes
  <2> QED BY <2>1, <2>3 DEF SameUpdates
<1>5. ASSUME NEW d \in Daemon, Stop(d) \/ Unloaded(d) \/ Exit(d) \/ Start(d)
      PROVE  FALSE
  BY <1>5 DEF Stop, Unloaded, Exit, Start, historyVars, SameUpdates
<1>6. ASSUME NEW d \in Daemon, NEW r \in reading[d], HandleEvent(d, r)
      PROVE  /\ \A e \in Daemon : mode'[e] = "on"
             /\ \A e, f \in Daemon : Comes(e)' = Comes(f)'
  <2>1. UNCHANGED <<mode, intact>>
    BY <1>6 DEF HandleEvent, historyVars
  <2>2. UNCHANGED <<doc, flight>> \/ \E u : Issue(d, u)
    BY <1>6, HandleLocalEffect DEF HandleEvent, Suppress, ydoc
  <2> QED BY <1>2, <1>3, <2>1, <2>2
<1>7. ASSUME NEW d \in Daemon, FileStep(d) \/ UnloadIdle(d) \/ Persisted(d)
      PROVE  UNCHANGED <<mode, intact, doc, flight>>
  BY <1>7 DEF FileStep, UserSave, StatFile, ReadFile, WriteFile, WriteFails, ForgetToken,
              UnloadIdle, Persisted, ydoc, historyVars
<1> QED BY <1>1, <1>2, <1>4, <1>5, <1>6, <1>7 DEF DocNext, FileStep

(* Updates of the documents commute: daemons that received every update,  *)
(* in whatever order, show the same text.                                  *)
THEOREM DocumentsConverge == DocSpec => []Converged
<1>1. SameUpdates => Converged
  <2> SUFFICES ASSUME SameUpdates, flight = {}, intact, NEW d \in Daemon, NEW e \in Daemon
               PROVE  TextOf(doc[d]) = TextOf(doc[e])
    BY DEF Converged
  <2>1. Comes(d) = doc[d] /\ Comes(e) = doc[e]
    BY DEF Comes
  <2> QED BY <2>1 DEF SameUpdates
<1>2. DocInv /\ SameUpdates /\ [DocNext]_docVars => SameUpdates'
  BY SameUpdatesKept
<1> QED BY <1>1, <1>2, SameUpdatesInit, DocumentsInvariant, PTL DEF DocSpec

----------------------------------------------------------------------------
(* One write or one save at a time leaves the file and the document equal *)

LEMMA OrderlyInit == DocInit => Orderly
<1> SUFFICES ASSUME DocInit, NEW d \in Daemon PROVE OrderlyAt(d)
  BY DEF Orderly
<1>1. event[d] = {} \/ event[d] = {"created"}
  BY DEF DocInit, Scanned
<1>2. /\ reading[d] = {} /\ writing[d] = {} /\ doc[d] = {} /\ made[d] = 0
      /\ due[d] = Cardinality(event[d])
  BY DEF DocInit
<1>3. CASE event[d] = {}
  <2>1. due[d] = 0
    BY <1>2, <1>3, FS_EmptySet
  <2> QED BY <1>2, <1>3, <2>1 DEF OrderlyAt, Quiet, Settled, Agrees
<1>4. CASE event[d] = {"created"}
  <2>1. due[d] = 1
    BY <1>2, <1>4, FS_Singleton
  <2> QED BY <1>2, <1>4, <2>1 DEF OrderlyAt, Sighted, OneSighting, Owed, Agrees
<1> QED BY <1>1, <1>3, <1>4

\* What a daemon's own order depends on.
At(d) == <<mode[d], disk[d], event[d], reading[d], tokens[d], writing[d], listed[d], doc[d],
           made[d], due[d], raced[d], apart[d]>>

LEMMA OthersOrderly ==
  ASSUME NEW e \in Daemon, OrderlyAt(e), UNCHANGED At(e)
  PROVE  OrderlyAt(e)'
BY DEF At, OrderlyAt, Quiet, Sighted, Merging, OneSighting, Owed, Settled, Agrees

LEMMA UserSaveOrderly ==
  ASSUME DocInv, Orderly, NEW d \in Daemon, NEW text \in [Text -> 0..1], UserSave(d, text)
  PROVE  Orderly'
<1> USE DEF DocInv, DocTypeOK
<1>1. ASSUME NEW e \in Daemon \ {d} PROVE OrderlyAt(e)'
  <2>1. UNCHANGED At(e)
    BY <1>1 DEF UserSave, Changes, ydoc, At
  <2> QED BY <2>1, OthersOrderly DEF Orderly
<1>2. OrderlyAt(d)'
  <2> SUFFICES ASSUME ~raced'[d] PROVE OrderlyAt(d)'
    BY DEF OrderlyAt
  <2>1. ~raced[d] /\ Settled(d) /\ OrderlyAt(d)
    BY DEF UserSave, Orderly
  <2>2. /\ UNCHANGED <<mode, reading, tokens, writing, listed, doc, made, apart>>
        /\ \E k \in {"created", "changed"} : event'[d] = {k}
        /\ due'[d] = due[d] + 1
    BY <2>1 DEF UserSave, Changes, ydoc, Settled
  <2>3. made'[d] < due'[d] /\ made'[d] <= due'[d]
    <3>1. made[d] \in Nat /\ due[d] \in Nat /\ made[d] <= due[d]
      BY <2>1 DEF OrderlyAt
    <3> QED BY <2>2, <3>1
  <2>4. mode[d] = "on" => Quiet(d)
    BY <2>1 DEF OrderlyAt, Sighted, Merging, OneSighting, Settled
  <2>5. ASSUME mode[d] = "on" PROVE Sighted(d)'
    <3>1. OneSighting(d)'
      BY <2>1, <2>2 DEF OneSighting, Settled
    <3>2. (~apart[d] => Agrees(d, listed[d]))'
      BY <2>2, <2>4, <2>5 DEF Quiet, Agrees
    <3> QED BY <2>3, <3>1, <3>2 DEF Sighted, Owed
  <2> QED BY <2>2, <2>3, <2>5 DEF OrderlyAt
<1> QED BY <1>1, <1>2 DEF Orderly

LEMMA StatFileOrderly ==
  ASSUME DocInv, Orderly, NEW d \in Daemon, NEW kind \in {"created", "changed"}, StatFile(d, kind)
  PROVE  Orderly'
<1> USE DEF DocInv, DocTypeOK
<1>0. /\ UNCHANGED <<mode, disk, tokens, writing, listed, doc, made, due, raced>>
      /\ event' = [event EXCEPT ![d] = @ \ {kind}] /\ kind \in event[d]
      /\ \/ apart' = [apart EXCEPT ![d] = TRUE] /\ UNCHANGED reading
         \/ /\ reading' = [reading EXCEPT ![d] = @ \cup {[kind |-> kind, text |-> None]}]
            /\ UNCHANGED apart
  BY DEF StatFile, ydoc, historyVars
<1>1. ASSUME NEW e \in Daemon \ {d} PROVE OrderlyAt(e)'
  <2>1. UNCHANGED At(e)
    BY <1>0 DEF At
  <2> QED BY <2>1, OthersOrderly DEF Orderly
<1>2. OrderlyAt(d)'
  <2> SUFFICES ASSUME ~raced[d] PROVE OrderlyAt(d)'
    BY <1>0 DEF OrderlyAt
  <2>1. OrderlyAt(d)
    BY DEF Orderly
  <2>2. mode[d] = "on" => Sighted(d)
    BY <1>0, <2>1 DEF OrderlyAt, Quiet, Merging, Settled
  <2>3. Sighted(d) => writing[d] = {} /\ reading[d] = {} /\ event'[d] = {}
    BY <1>0 DEF Sighted, OneSighting
  <2>4. CASE apart' = [apart EXCEPT ![d] = TRUE] /\ UNCHANGED reading
    <3>1. Sighted(d) => Quiet(d)'
      BY <1>0, <2>3, <2>4 DEF Quiet, Settled
    <3> QED BY <1>0, <2>1, <2>2, <3>1 DEF OrderlyAt
  <2>5. CASE /\ reading' = [reading EXCEPT ![d] = @ \cup {[kind |-> kind, text |-> None]}]
             /\ UNCHANGED apart
    <3>1. Sighted(d) => OneSighting(d)'
      BY <1>0, <2>3, <2>5 DEF OneSighting
    <3>2. Sighted(d) => Sighted(d)'
      BY <1>0, <2>5, <3>1 DEF Sighted, Owed, Agrees
    <3> QED BY <1>0, <2>1, <2>2, <3>2 DEF OrderlyAt
  <2> QED BY <1>0, <2>4, <2>5
<1> QED BY <1>1, <1>2 DEF Orderly

LEMMA ReadFileOrderly ==
  ASSUME DocInv, Orderly, NEW d \in Daemon, NEW r \in reading[d], ReadFile(d, r)
  PROVE  Orderly'
<1> USE DEF DocInv, DocTypeOK
<1>0. /\ UNCHANGED <<mode, disk, event, tokens, writing, listed, doc, made, due, raced, apart>>
      /\ reading' = [reading EXCEPT ![d] = (@ \ {r}) \cup {[r EXCEPT !.text = disk[d]]}]
  BY DEF ReadFile, ydoc, historyVars, traceVars
<1>1. ASSUME NEW e \in Daemon \ {d} PROVE OrderlyAt(e)'
  <2>1. UNCHANGED At(e)
    BY <1>0 DEF At
  <2> QED BY <2>1, OthersOrderly DEF Orderly
<1>2. OrderlyAt(d)'
  <2> SUFFICES ASSUME ~raced[d] PROVE OrderlyAt(d)'
    BY <1>0 DEF OrderlyAt
  <2>1. OrderlyAt(d)
    BY DEF Orderly
  <2>2. mode[d] = "on" => Sighted(d)
    BY <2>1 DEF OrderlyAt, Quiet, Merging, Settled
  <2>3. ASSUME Sighted(d) PROVE OneSighting(d)'
    <3>1. PICK k \in {"created", "changed"} : \E text \in {None, disk[d]} :
            reading[d] = {[kind |-> k, text |-> text]}
      BY <2>3 DEF Sighted, OneSighting
    <3>2. event[d] = {} /\ writing[d] = {} /\ r.kind = k /\ reading[d] = {r}
      BY <2>3, <3>1 DEF Sighted, OneSighting
    <3>3. [r EXCEPT !.text = disk[d]] = [kind |-> k, text |-> disk[d]]
      BY <3>1
    <3>4. reading'[d] = {[kind |-> k, text |-> disk[d]]}
      BY <1>0, <3>2, <3>3
    <3> QED BY <1>0, <3>2, <3>4 DEF OneSighting
  <2>4. Sighted(d) => Sighted(d)'
    BY <1>0, <2>3 DEF Sighted, Owed, Agrees
  <2> QED BY <1>0, <2>1, <2>2, <2>4 DEF OrderlyAt
<1> QED BY <1>1, <1>2 DEF Orderly

LEMMA HandleEventOrderly ==
  ASSUME DocInv, Orderly, NEW d \in Daemon, NEW r \in reading[d], HandleEvent(d, r)
  PROVE  Orderly'
<1> USE DEF DocInv, DocTypeOK
<1>0. UNCHANGED <<mode, disk, event, writing, due, raced>>
      /\ reading' = [reading EXCEPT ![d] = @ \ {r}] /\ mode[d] # "off" /\ r.text # None
  BY DEF HandleEvent, historyVars
<1>1. ASSUME NEW e \in Daemon \ {d} PROVE OrderlyAt(e)'
  <2>1. /\ tokens'[e] = tokens[e] /\ listed'[e] = listed[e] /\ apart'[e] = apart[e]
        /\ doc'[e] = doc[e] /\ made'[e] = made[e]
    <3>1. CASE Suppress(d, r)
      BY <3>1 DEF Suppress, ydoc
    <3>2. CASE HandleLocal(d, r)
      <4>1. UNCHANGED tokens /\ listed'[e] = listed[e] /\ apart'[e] = apart[e]
        BY <3>2 DEF HandleLocal
      <4>2. UNCHANGED <<doc, made>> \/ \E u : Issue(d, u)
        BY <1>0, <3>2, HandleLocalEffect
      <4> QED BY <4>1, <4>2 DEF Issue
    <3>3. CASE UNCHANGED <<tokens, listed, ydoc, flight, made, apart>>
      BY <3>3 DEF ydoc
    <3> QED BY <3>1, <3>2, <3>3 DEF HandleEvent
  <2>2. UNCHANGED At(e)
    BY <1>0, <2>1 DEF At
  <2> QED BY <2>2, OthersOrderly DEF Orderly
<1>2. OrderlyAt(d)'
  <2> SUFFICES ASSUME ~raced[d] PROVE OrderlyAt(d)'
    BY <1>0 DEF OrderlyAt
  <2>1. OrderlyAt(d)
    BY DEF Orderly
  <2>2. mode[d] = "on" => Sighted(d)
    BY <2>1 DEF OrderlyAt, Quiet, Merging, Settled
  <2>3. CASE mode[d] # "on"
    <3>1. UNCHANGED made
      BY <2>3 DEF HandleEvent, Suppress
    <3> QED BY <1>0, <2>1, <2>3, <3>1 DEF OrderlyAt
  <2>4. CASE mode[d] = "on"
    <3>1. /\ writing[d] = {} /\ event[d] = {} /\ reading[d] = {r} /\ r.text = disk[d]
          /\ Owed(d, r.text) /\ (~apart[d] => Agrees(d, listed[d]))
      BY <1>0, <2>2, <2>4 DEF Sighted, OneSighting
    <3>2. Settled(d)'
      BY <1>0, <3>1 DEF Settled
    <3>3. CASE Suppress(d, r)
      <4>1. UNCHANGED <<listed, doc, made>>
            /\ apart' = [apart EXCEPT ![d] = @ \/ listed[d] # r.text]
        BY <3>3 DEF Suppress, ydoc
      <4>2. (~apart[d] => Agrees(d, disk[d]) /\ Agrees(d, listed[d]))'
        BY <1>0, <3>1, <4>1 DEF Agrees
      <4> QED BY <1>0, <2>1, <3>2, <4>1, <4>2 DEF OrderlyAt, Quiet
    <3>4. CASE Announced(d, r.text) = {} /\ HandleLocal(d, r)
      <4>1. made[d] < due[d] /\ made[d] \in Nat /\ due[d] \in Nat
        BY <3>1, <3>4 DEF Owed, Announced
      <4>2. /\ listed'[d] = IF r.kind = "created" \/ made' # made THEN r.text ELSE listed[d]
            /\ apart'[d] = (apart[d] /\ listed'[d] # r.text)
        BY <3>4 DEF HandleLocal
      <4>3. CASE UNCHANGED <<doc, flight, made>> /\ TextOf(doc[d]) = r.text
        <5>1. (~apart[d] => Agrees(d, disk[d]) /\ Agrees(d, listed[d]))'
          BY <1>0, <3>1, <4>2, <4>3 DEF Agrees
        <5> QED BY <1>0, <2>1, <3>2, <4>3, <5>1 DEF OrderlyAt, Quiet
      <4>4. ASSUME NEW u, Issue(d, u), TextOf(doc[d] \cup {u}) = r.text
            PROVE  OrderlyAt(d)'
        <5>1. doc'[d] = doc[d] \cup {u} /\ made'[d] = made[d] + 1
          BY <4>4 DEF Issue
        <5>2. made' # made /\ made'[d] <= due[d]
          BY <4>1, <5>1
        <5>3. (Agrees(d, disk[d]) /\ Agrees(d, listed[d]))'
          BY <1>0, <3>1, <4>2, <4>4, <5>1, <5>2 DEF Agrees
        <5> QED BY <1>0, <3>2, <5>2, <5>3 DEF OrderlyAt, Quiet
      <4> QED BY <1>0, <3>4, <4>3, <4>4, HandleLocalEffect
    <3> QED BY <2>4, <3>3, <3>4 DEF HandleEvent
  <2> QED BY <2>3, <2>4
<1> QED BY <1>1, <1>2 DEF Orderly

LEMMA WriteFileOrderly ==
  ASSUME DocInv, Orderly, NEW d \in Daemon, NEW w \in writing[d], WriteFile(d, w)
  PROVE  Orderly'
<1> USE DEF DocInv, DocTypeOK
<1>0. /\ UNCHANGED <<mode, reading, tokens, doc, made, due, raced>>
      /\ writing' = [writing EXCEPT ![d] = @ \ {w}]
      /\ disk' = [disk EXCEPT ![d] = w.text] /\ listed' = [listed EXCEPT ![d] = w.text]
      /\ apart' = [apart EXCEPT ![d] = FALSE]
      /\ \E k \in {"created", "changed"} : event' = [event EXCEPT ![d] = @ \cup {k}]
  BY DEF WriteFile, Changes, ydoc, historyVars
<1>1. ASSUME NEW e \in Daemon \ {d} PROVE OrderlyAt(e)'
  <2>1. UNCHANGED At(e)
    BY <1>0 DEF At
  <2> QED BY <2>1, OthersOrderly DEF Orderly
<1>2. OrderlyAt(d)'
  <2> SUFFICES ASSUME ~raced[d] PROVE OrderlyAt(d)'
    BY <1>0 DEF OrderlyAt
  <2>1. OrderlyAt(d)
    BY DEF Orderly
  <2>2. mode[d] = "on" => Merging(d)
    BY <2>1 DEF OrderlyAt, Quiet, Sighted, OneSighting, Settled
  <2>3. ASSUME mode[d] = "on" PROVE Sighted(d)'
    <3>1. /\ event[d] = {} /\ reading[d] = {} /\ writing[d] = {w}
          /\ Owed(d, w.text) /\ Agrees(d, w.text)
      BY <2>2, <2>3 DEF Merging
    <3>2. OneSighting(d)'
      BY <1>0, <3>1 DEF OneSighting
    <3>3. Agrees(d, listed[d])' /\ Owed(d, disk[d])'
      BY <1>0, <3>1 DEF Agrees, Owed
    <3> QED BY <3>2, <3>3 DEF Sighted
  <2> QED BY <1>0, <2>1, <2>3 DEF OrderlyAt
<1> QED BY <1>1, <1>2 DEF Orderly

LEMMA WriteFailsOrderly ==
  ASSUME DocInv, Orderly, NEW d \in Daemon, NEW w \in writing[d], WriteFails(d, w)
  PROVE  Orderly'
<1> USE DEF DocInv, DocTypeOK
<1>0. /\ UNCHANGED <<mode, disk, event, reading, tokens, listed, doc, made, due, raced>>
      /\ writing' = [writing EXCEPT ![d] = @ \ {w}] /\ apart' = [apart EXCEPT ![d] = TRUE]
  BY DEF WriteFails, fileVars, ydoc, historyVars
<1>1. ASSUME NEW e \in Daemon \ {d} PROVE OrderlyAt(e)'
  <2>1. UNCHANGED At(e)
    BY <1>0 DEF At
  <2> QED BY <2>1, OthersOrderly DEF Orderly
<1>2. OrderlyAt(d)'
  <2> SUFFICES ASSUME ~raced[d] PROVE OrderlyAt(d)'
    BY <1>0 DEF OrderlyAt
  <2>1. OrderlyAt(d)
    BY DEF Orderly
  <2>2. mode[d] = "on" => Merging(d)
    BY <2>1 DEF OrderlyAt, Quiet, Sighted, OneSighting, Settled
  <2>3. Merging(d) => Quiet(d)'
    BY <1>0 DEF Merging, Quiet, Settled
  <2> QED BY <1>0, <2>1, <2>2, <2>3 DEF OrderlyAt
<1> QED BY <1>1, <1>2 DEF Orderly

LEMMA ForgetTokenOrderly ==
  ASSUME DocInv, Orderly, NEW d \in Daemon, NEW t \in tokens[d], ForgetToken(d, t)
  PROVE  Orderly'
<1> USE DEF DocInv, DocTypeOK
<1>0. /\ UNCHANGED <<mode, disk, event, reading, writing, listed, doc, made, raced, apart>>
      /\ tokens' = [tokens EXCEPT ![d] = @ \ {t}]
      /\ due' = [due EXCEPT ![d] = IF Settled(d) THEN @ ELSE @ + 1]
  BY DEF ForgetToken, fileVars, ydoc, historyVars
<1>1. ASSUME NEW e \in Daemon \ {d} PROVE OrderlyAt(e)'
  <2>1. UNCHANGED At(e)
    BY <1>0 DEF At
  <2> QED BY <2>1, OthersOrderly DEF Orderly
<1>2. OrderlyAt(d)'
  <2> SUFFICES ASSUME ~raced[d] PROVE OrderlyAt(d)'
    BY <1>0 DEF OrderlyAt
  <2>1. OrderlyAt(d) /\ made[d] <= due[d] /\ made[d] \in Nat /\ due[d] \in Nat
    BY DEF Orderly, OrderlyAt
  <2>2. CASE Settled(d)
    <3>1. mode[d] = "on" => Quiet(d)
      BY <2>1, <2>2 DEF OrderlyAt, Sighted, Merging, OneSighting, Settled
    <3>2. Quiet(d) => Quiet(d)'
      BY <1>0 DEF Quiet, Settled, Agrees
    <3> QED BY <1>0, <2>1, <2>2, <3>1, <3>2 DEF OrderlyAt
  <2>3. CASE ~Settled(d)
    <3>1. made'[d] < due'[d] /\ made'[d] <= due'[d]
      BY <1>0, <2>1, <2>3
    <3>2. mode[d] = "on" => Sighted(d) \/ Merging(d)
      BY <2>1, <2>3 DEF OrderlyAt, Quiet
    <3>3. Sighted(d) => Sighted(d)'
      BY <1>0, <3>1 DEF Sighted, OneSighting, Owed, Agrees
    <3>4. Merging(d) => Merging(d)'
      BY <1>0, <3>1 DEF Merging, Owed, Agrees
    <3> QED BY <1>0, <3>1, <3>2, <3>3, <3>4 DEF OrderlyAt
  <2> QED BY <2>2, <2>3
<1> QED BY <1>1, <1>2 DEF Orderly

LEMMA ReceiveOrderly ==
  ASSUME DocInv, Orderly, NEW d, NEW u, Receive(d, u)
  PROVE  Orderly'
<1> USE DEF DocInv, DocTypeOK
<1>0. /\ UNCHANGED <<mode, disk, event, reading, listed, made, due>>
      /\ d \in Daemon
  <2>1. <<d, u>> \in flight /\ flight \subseteq Daemon \X Update
    BY DEF Receive
  <2> QED BY <2>1 DEF Receive, fileVars, historyVars
<1>1. CASE mode[d] # "on"
  <2>1. UNCHANGED <<tokens, writing, doc, raced, apart>>
    BY <1>1 DEF Receive, ydoc
  <2>2. \A e \in Daemon : UNCHANGED At(e)
    BY <1>0, <2>1 DEF At
  <2> QED BY <2>2, OthersOrderly DEF Orderly
<1>2. CASE mode[d] = "on"
  <2>1. /\ doc' = [doc EXCEPT ![d] = @ \cup {u}]
        /\ raced' = [raced EXCEPT ![d] = @ \/ ~Settled(d)]
        /\ Unwritten(d, u) \/ Announce(d, u)
    BY <1>2 DEF Receive
  <2>2. ASSUME NEW e \in Daemon \ {d} PROVE OrderlyAt(e)'
    <3>1. tokens'[e] = tokens[e] /\ writing'[e] = writing[e] /\ apart'[e] = apart[e]
      BY <2>1 DEF Unwritten, Announce
    <3>2. UNCHANGED At(e)
      BY <1>0, <2>1, <3>1 DEF At
    <3> QED BY <3>2, OthersOrderly DEF Orderly
  <2>3. OrderlyAt(d)'
    <3> SUFFICES ASSUME ~raced'[d] PROVE OrderlyAt(d)'
      BY DEF OrderlyAt
    <3>1. ~raced[d] /\ Settled(d) /\ OrderlyAt(d)
      BY <1>0, <2>1 DEF Orderly
    <3>2. CASE Unwritten(d, u)
      <4>1. apart'[d] = TRUE /\ UNCHANGED writing
        BY <1>0, <3>2 DEF Unwritten
      <4>2. Quiet(d)'
        BY <1>0, <3>1, <4>1 DEF Quiet, Settled
      <4> QED BY <1>0, <3>1, <4>2 DEF OrderlyAt
    <3>3. CASE Announce(d, u)
      <4>1. PICK w : w = [id |-> u.id, text |-> Merged(d, u)]
        OBVIOUS
      <4>2. PICK t : t = [id |-> u.id, hash |-> AnnouncedHash(d, u)]
        OBVIOUS
      <4>3. writing'[d] = {w} /\ t \in tokens'[d]
        BY <1>0, <3>1, <3>3, <4>1, <4>2 DEF Announce, Settled
      <4>4. w.text = TextOf(doc'[d]) /\ t.hash = w.text
        BY <1>0, <2>1, <4>1, <4>2 DEF AnnouncedHash, Merged
      <4>5. Agrees(d, w.text)' /\ Owed(d, w.text)'
        BY <4>3, <4>4 DEF Agrees, Owed
      <4>6. Merging(d)'
        BY <1>0, <3>1, <4>3, <4>5 DEF Merging, Settled
      <4> QED BY <1>0, <3>1, <4>6 DEF OrderlyAt
    <3> QED BY <2>1, <3>2, <3>3
  <2> QED BY <2>2, <2>3 DEF Orderly
<1> QED BY <1>1, <1>2

LEMMA StoppedOrderly ==
  ASSUME DocInv, Orderly, NEW d \in Daemon,
         \/ UnloadIdle(d) \/ Unloaded(d) \/ Stop(d) \/ Persisted(d) \/ Exit(d) \/ Start(d)
  PROVE  Orderly'
<1> USE DEF DocInv, DocTypeOK
<1>1. UNCHANGED <<disk, listed, made, raced, apart>>
  BY DEF UnloadIdle, Unloaded, Stop, Persisted, Exit, Start, fileVars, historyVars, traceVars
<1>2. ASSUME NEW e \in Daemon \ {d} PROVE OrderlyAt(e)'
  <2>1. /\ mode'[e] = mode[e] /\ event'[e] = event[e] /\ reading'[e] = reading[e]
        /\ tokens'[e] = tokens[e] /\ writing'[e] = writing[e] /\ doc'[e] = doc[e]
        /\ due'[e] = due[e]
    <3>1. CASE UnloadIdle(d) \/ Persisted(d)
      BY <3>1 DEF UnloadIdle, Persisted, fileVars, ydoc, historyVars, traceVars
    <3>2. CASE Unloaded(d) \/ Stop(d)
      BY <3>2 DEF Unloaded, Stop, fileVars, ydoc, traceVars
    <3>3. CASE Exit(d) \/ Start(d)
      BY <3>3 DEF Exit, Start, ydoc, traceVars
    <3> QED BY <3>1, <3>2, <3>3
  <2>2. UNCHANGED At(e)
    BY <1>1, <2>1 DEF At
  <2> QED BY <2>2, OthersOrderly DEF Orderly
<1>3. OrderlyAt(d)'
  <2> SUFFICES ASSUME ~raced[d] PROVE OrderlyAt(d)'
    BY <1>1 DEF OrderlyAt
  <2>1. OrderlyAt(d) /\ made[d] <= due[d] /\ made[d] \in Nat /\ due[d] \in Nat
    BY DEF Orderly, OrderlyAt
  <2>2. CASE UnloadIdle(d) \/ Persisted(d)
    <3>1. UNCHANGED <<mode, event, reading, tokens, writing, doc, due>>
      BY <2>2 DEF UnloadIdle, Persisted, fileVars, ydoc, historyVars, traceVars
    <3>2. UNCHANGED At(d)
      BY <1>1, <3>1 DEF At
    <3> QED BY <2>1, <3>2, OthersOrderly
  <2>3. CASE Unloaded(d)
    <3>1. UNCHANGED <<mode, event, reading, tokens, writing, due>> /\ doc'[d] = {}
      BY <2>3 DEF Unloaded, fileVars, traceVars
    <3>2. Quiet(d) => Quiet(d)'
      BY <1>1, <3>1 DEF Quiet, Settled, Agrees
    <3>3. Sighted(d) => Sighted(d)'
      BY <1>1, <3>1 DEF Sighted, OneSighting, Owed, Agrees
    <3>4. Merging(d) => Merging(d)'
      BY <1>1, <3>1 DEF Merging, Owed, Agrees
    <3> QED BY <1>1, <2>1, <3>1, <3>2, <3>3, <3>4 DEF OrderlyAt
  <2>4. CASE Stop(d) \/ Exit(d)
    <3>1. mode'[d] # "on" /\ UNCHANGED due
      BY <2>4 DEF Stop, Exit, traceVars
    <3> QED BY <1>1, <2>1, <3>1 DEF OrderlyAt
  <2>5. CASE Start(d)
    <3>1. PICK seen \in SUBSET Scanned(d) :
            /\ event' = [event EXCEPT ![d] = seen]
            /\ due' = [due EXCEPT ![d] = @ + Cardinality(seen)]
      BY <2>5 DEF Start
    <3>2. mode[d] = "off" /\ UNCHANGED <<reading, tokens, writing, doc>>
      BY <2>5 DEF Start, ydoc
    <3>3. reading[d] = {} /\ writing[d] = {} /\ doc[d] = {}
      BY <3>2 DEF OffIsEmpty
    <3>4. CASE seen = {}
      <4>1. event'[d] = {} /\ due'[d] = due[d]
        <5>1. Cardinality(seen) = 0
          BY <3>4, FS_EmptySet
        <5> QED BY <2>1, <3>1, <3>4, <5>1
      <4>2. Quiet(d)'
        BY <3>2, <3>3, <4>1 DEF Quiet, Settled, Agrees
      <4> QED BY <1>1, <2>1, <4>1, <4>2 DEF OrderlyAt
    <3>5. CASE seen = {"created"}
      <4>1. event'[d] = {"created"} /\ due'[d] = due[d] + 1
        <5>1. Cardinality(seen) = 1
          BY <3>5, FS_Singleton
        <5> QED BY <2>1, <3>1, <3>5, <5>1
      <4>2. made'[d] < due'[d] /\ made'[d] <= due'[d]
        BY <1>1, <2>1, <4>1
      <4>3. Sighted(d)'
        BY <3>2, <3>3, <4>1, <4>2 DEF Sighted, OneSighting, Owed, Agrees
      <4> QED BY <4>2, <4>3 DEF OrderlyAt
    <3>6. seen = {} \/ seen = {"created"}
      BY DEF Scanned
    <3> QED BY <3>4, <3>5, <3>6
  <2> QED BY <2>2, <2>3, <2>4, <2>5
<1> QED BY <1>2, <1>3 DEF Orderly

LEMMA OrderlyKept ==
  ASSUME DocInv, Orderly, [DocNext]_docVars
  PROVE  Orderly'
<1>1. CASE UNCHANGED docVars
  <2>1. ASSUME NEW d \in Daemon PROVE UNCHANGED At(d)
    BY <1>1 DEF docVars, At
  <2> QED BY <2>1, OthersOrderly DEF Orderly
<1>2. CASE DocNext
  <2>1. ASSUME NEW d \in Daemon, NEW text \in [Text -> 0..1], UserSave(d, text) PROVE Orderly'
    BY <2>1, UserSaveOrderly
  <2>2. ASSUME NEW d \in Daemon, NEW kind \in {"created", "changed"}, StatFile(d, kind)
        PROVE  Orderly'
    BY <2>2, StatFileOrderly
  <2>3. ASSUME NEW d \in Daemon, NEW r \in reading[d], ReadFile(d, r) \/ HandleEvent(d, r)
        PROVE  Orderly'
    BY <2>3, ReadFileOrderly, HandleEventOrderly
  <2>4. ASSUME NEW d \in Daemon, NEW w \in writing[d], WriteFile(d, w) \/ WriteFails(d, w)
        PROVE  Orderly'
    BY <2>4, WriteFileOrderly, WriteFailsOrderly
  <2>5. ASSUME NEW d \in Daemon, NEW t \in tokens[d], ForgetToken(d, t) PROVE Orderly'
    BY <2>5, ForgetTokenOrderly
  <2>6. ASSUME NEW d \in Daemon,
               \/ UnloadIdle(d) \/ Unloaded(d) \/ Stop(d) \/ Persisted(d) \/ Exit(d) \/ Start(d)
        PROVE  Orderly'
    BY <2>6, StoppedOrderly
  <2>7. ASSUME NEW m \in flight, Receive(m[1], m[2]) PROVE Orderly'
    BY <2>7, ReceiveOrderly
  <2> QED BY <1>2, <2>1, <2>2, <2>3, <2>4, <2>5, <2>6, <2>7 DEF DocNext
<1> QED BY <1>1, <1>2

LEMMA AlwaysOrderly == DocSpec => [](DocInv /\ Orderly)
<1>1. DocInv /\ Orderly /\ [DocNext]_docVars => Orderly'
  BY OrderlyKept
<1> QED BY <1>1, OrderlyInit, DocumentsInvariant, PTL DEF DocSpec

(* Whatever was saved or received one at a time, the worktree, the CRDT    *)
(* document and the manifest end with the same text.                       *)
THEOREM FilesSettle == DocSpec => []SettledFilesAgree
<1>1. Orderly => SettledFilesAgree
  <2> SUFFICES ASSUME Orderly, NEW d \in Daemon,
                      mode[d] = "on", Settled(d), ~raced[d], ~apart[d], doc[d] # {}
               PROVE  disk[d] = TextOf(doc[d]) /\ listed[d] = disk[d]
    BY DEF SettledFilesAgree
  <2>1. Quiet(d)
    BY DEF Orderly, OrderlyAt, Sighted, Merging, OneSighting, Settled
  <2> QED BY <2>1 DEF Quiet, Agrees
<1> QED BY <1>1, AlwaysOrderly, PTL

(* WriteRegistry: the watcher's sight of the daemon's own write is never   *)
(* sent as a change, as long as the token is there and nothing races it.   *)
THEOREM WritesDoNotEcho == DocSpec => []NoEcho
<1>1. Orderly => NoEcho
  BY DEF Orderly, OrderlyAt, NoEcho
<1> QED BY <1>1, AlwaysOrderly, PTL
=============================================================================

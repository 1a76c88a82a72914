--------------------------- MODULE FileLocks_proofs ---------------------------
(***************************************************************************)
(* What holds of the lease table for every set of paths and holders, every *)
(* conflict relation and every limit.  TypeOK is not inductive by itself:  *)
(* that a waiter id stays below its bound rests on the fact that only the  *)
(* outermost suspended call can be one that will queue (Outermost).        *)
(***************************************************************************)
EXTENDS FileLocks, FoldFacts, SequenceTheorems, FiniteSetTheorems, TLAPS

(* Only the last frame of the stack waits, and it is nobody's grant.       *)
Waits(f) == f.op = "acquire" /\ f.wait
Outermost(s) == \A k \in 1 .. Len(s) : Waits(s[k]) => k = Len(s) /\ s[k].waiter = 0
MayQueue(s) == (\E k \in 1 .. Len(s) : Waits(s[k])) => waiterCounter < WaiterBound

(* The inductive invariant behind TypeOK. *)
IInv == TypeOK /\ Outermost(stack) /\ MayQueue(stack)

-----------------------------------------------------------------------------
(* The call stack. *)

(* A frame whose op is known lies in the set of frames of that op. *)
LEMMA FrameKinds ==
  ASSUME NEW f \in Frame
  PROVE  /\ f.op = "acquire" => f \in AcquireFrames
         /\ f.op = "scan" => f \in ScanFrames
         /\ f.op = "found" => f \in FoundFrames
         /\ f.op = "grant" => f \in GrantFrames
         /\ f.op = "evict" => f \in EvictFrames
BY DEF Frame, AcquireFrames, ScanFrames, FoundFrames, GrantFrames, LoopFrames, EvictFrames

(* A nonempty stack has a running frame and a stack of callers. *)
LEMMA TopAndCallers ==
  ASSUME TypeOK, stack # <<>>
  PROVE  /\ Top \in Frame
         /\ Callers \in Seq(Frame)
         /\ Len(Callers) = Len(stack) - 1
         /\ \A k \in 1 .. Len(Callers) : Callers[k] = stack[k + 1]
         /\ Top = stack[1]
         /\ Len(stack) \in Nat /\ Len(stack) >= 1
BY DEF TypeOK, Top, Callers

(* Pushing a frame that waits for nothing keeps the shape of the stack. *)
LEMMA Push ==
  ASSUME NEW s \in Seq(Frame), Outermost(s), MayQueue(s),
         NEW f \in Frame, ~Waits(f)
  PROVE  /\ <<f>> \o s \in Seq(Frame)
         /\ Outermost(<<f>> \o s)
         /\ MayQueue(<<f>> \o s)
<1> DEFINE t == <<f>> \o s
<1>1. /\ t \in Seq(Frame)
      /\ Len(t) = Len(s) + 1
      /\ t[1] = f
      /\ \A k \in 1 .. Len(s) : t[k + 1] = s[k]
  OBVIOUS
<1>2. \A k \in 1 .. Len(t) : k = 1 \/ (k - 1 \in 1 .. Len(s) /\ t[k] = s[k - 1])
  <2>1. TAKE k \in 1 .. Len(t)
  <2>2. CASE k # 1
    <3>1. k - 1 \in 1 .. Len(s) BY <2>2, <1>1
    <3>2. t[(k - 1) + 1] = s[k - 1] BY <3>1, <1>1
    <3> QED BY <3>1, <3>2
  <2> QED BY <2>2
<1> HIDE DEF t
<1>3. Outermost(t)
  <2>1. SUFFICES ASSUME NEW k \in 1 .. Len(t), Waits(t[k])
                 PROVE  k = Len(t) /\ t[k].waiter = 0
    BY DEF Outermost
  <2>2. k # 1
    BY <1>1, <2>1
  <2>3. k - 1 \in 1 .. Len(s) /\ t[k] = s[k - 1]
    BY <1>2, <2>1, <2>2
  <2>4. k - 1 = Len(s) /\ s[k - 1].waiter = 0
    BY <2>1, <2>3 DEF Outermost
  <2> QED BY <1>1, <2>3, <2>4
<1>4. MayQueue(t)
  BY <1>1, <1>2 DEF MayQueue
<1> QED BY <1>1, <1>3, <1>4 DEF t

(* Returning from a call keeps it too. *)
LEMMA Pop ==
  ASSUME IInv, stack # <<>>
  PROVE  /\ Callers \in Seq(Frame)
         /\ Outermost(Callers)
         /\ MayQueue(Callers)
         /\ Waits(Top) => Callers = <<>> /\ waiterCounter < WaiterBound
<1>1. /\ Callers \in Seq(Frame)
      /\ Len(Callers) = Len(stack) - 1
      /\ \A k \in 1 .. Len(Callers) : Callers[k] = stack[k + 1]
      /\ Top = stack[1]
      /\ Len(stack) \in Nat /\ Len(stack) >= 1
  BY TopAndCallers DEF IInv
<1>2. \A k \in 1 .. Len(Callers) : k + 1 \in 1 .. Len(stack)
  BY <1>1
<1>3. Outermost(Callers)
  BY <1>1, <1>2 DEF IInv, Outermost
<1>4. MayQueue(Callers)
  BY <1>1, <1>2 DEF IInv, MayQueue
<1>5. ASSUME Waits(Top)
      PROVE  Callers = <<>> /\ waiterCounter < WaiterBound
  <2>1. 1 \in 1 .. Len(stack) BY <1>1
  <2>2. Len(stack) = 1 BY <1>1, <1>5, <2>1 DEF IInv, Outermost
  <2>3. waiterCounter < WaiterBound BY <1>1, <1>5, <2>1 DEF IInv, MayQueue
  <2> QED BY <1>1, <2>2, <2>3, EmptySeq
<1> QED BY <1>1, <1>3, <1>4, <1>5

(* Replacing the running frame by a later stage of the same call. *)
LEMMA Advance ==
  ASSUME IInv, stack # <<>>, NEW f \in Frame,
         Waits(f) => Waits(Top) /\ f.waiter = Top.waiter
  PROVE  /\ Continue(f) \in Seq(Frame)
         /\ Outermost(Continue(f))
         /\ MayQueue(Continue(f))
<1>1. CASE ~Waits(f)
  BY <1>1, Pop, Push DEF Continue
<1>2. CASE Waits(f)
  <2>1. Callers = <<>> /\ waiterCounter < WaiterBound
    BY <1>2, Pop
  <2>2. Continue(f) = <<f>>
    BY <2>1 DEF Continue
  <2>3. Top.waiter = 0
    BY <1>2, TopAndCallers DEF IInv, Outermost
  <2>4. /\ <<f>> \in Seq(Frame) /\ Len(<<f>>) = 1 /\ <<f>>[1] = f
    OBVIOUS
  <2> QED BY <1>2, <2>1, <2>2, <2>3, <2>4 DEF Outermost, MayQueue
<1> QED BY <1>1, <1>2

(* The frames a release pushes. *)
LEMMA PushEmit ==
  ASSUME NEW s \in Seq(Frame), Outermost(s), MayQueue(s)
  PROVE  /\ Emit \o s \in Seq(Frame)
         /\ Outermost(Emit \o s)
         /\ MayQueue(Emit \o s)
<1> DEFINE f == [op |-> "all"]
<1>1. f \in Frame /\ ~Waits(f)
  BY DEF Frame, LoopFrames, Waits
<1>2. CASE Listening
  BY <1>1, <1>2, Push DEF Emit
<1>3. CASE ~Listening
  <2>1. Emit \o s = s
    BY <1>3 DEF Emit
  <2> QED BY <2>1
<1> QED BY <1>2, <1>3

LEMMA PushRelease ==
  ASSUME NEW s \in Seq(Frame), Outermost(s), MayQueue(s)
  PROVE  /\ AfterDelete \o s \in Seq(Frame)
         /\ Outermost(AfterDelete \o s)
         /\ MayQueue(AfterDelete \o s)
<1> DEFINE g == [op |-> "grant", cands |-> {}, progressed |-> TRUE]
<1>1. g \in Frame /\ ~Waits(g)
  BY DEF Frame, GrantFrames, Waits
<1>2. <<g>> \o s \in Seq(Frame) /\ Outermost(<<g>> \o s) /\ MayQueue(<<g>> \o s)
  BY <1>1, Push
<1>3. AfterDelete \o s = Emit \o (<<g>> \o s)
  <2>1. CASE Listening
    BY <2>1 DEF AfterDelete, Emit
  <2>2. CASE ~Listening
    BY <2>2 DEF AfterDelete, Emit
  <2> QED BY <2>1, <2>2
<1> QED BY <1>2, <1>3, PushEmit
-----------------------------------------------------------------------------
(* The inductive invariant is preserved: three shapes of step first. *)

(* Nothing but the stack changes. *)
LEMMA StackOnly ==
  ASSUME IInv,
         UNCHANGED <<locks, waiters, waiterCounter, tokenCounter, promise, expiryTimer>>,
         stack' \in Seq(Frame), Outermost(stack'), MayQueue(stack')
  PROVE  IInv'
BY DEF IInv, TypeOK, MayQueue

(* An entry of the table is deleted. *)
LEMMA Releasing ==
  ASSUME IInv, NEW p \in Path, NEW s \in Seq(Frame), Outermost(s), MayQueue(s),
         ReleaseLock(p, s),
         UNCHANGED <<waiters, waiterCounter, tokenCounter, promise, expiryTimer>>
  PROVE  IInv'
<1>1. stack' \in Seq(Frame) /\ Outermost(stack') /\ MayQueue(stack')
  BY PushRelease DEF ReleaseLock
<1>2. locks' \in [Path -> Lock \cup {Free}]
  BY DEF IInv, TypeOK, ReleaseLock
<1> QED BY <1>1, <1>2 DEF IInv, TypeOK, MayQueue

(* A call ends without the lock; only the outermost call queues. *)
LEMMA Denying ==
  ASSUME IInv, stack # <<>>, Top.op = "acquire", Deny(Top)
  PROVE  IInv'
<1>1. Top \in AcquireFrames
  BY TopAndCallers, FrameKinds DEF IInv
<1>2. /\ Callers \in Seq(Frame) /\ Outermost(Callers) /\ MayQueue(Callers)
      /\ Waits(Top) => Callers = <<>> /\ waiterCounter < WaiterBound
  BY Pop
<1>3. stack' = Callers /\ UNCHANGED <<locks, tokenCounter, expiryTimer>>
  BY DEF Deny
<1>4. CASE UNCHANGED <<waiters, waiterCounter, promise>>
  BY <1>2, <1>3, <1>4, StackOnly
<1>5. CASE /\ Top.waiter # 0
           /\ promise' = [promise EXCEPT ![Top.waiter] = "denied"]
           /\ UNCHANGED <<waiters, waiterCounter>>
  <2>1. promise' \in [WaiterId -> Outcome]
    BY <1>5 DEF IInv, TypeOK, Outcome
  <2> QED BY <1>2, <1>3, <1>5, <2>1 DEF IInv, TypeOK, MayQueue
<1>6. CASE /\ Top.waiter = 0 /\ Top.wait
           /\ waiterCounter' = waiterCounter + 1
           /\ waiters' = waiters \cup
                {[id |-> waiterCounter', path |-> Top.path, holder |-> Top.holder,
                  priority |-> Top.priority]}
           /\ promise' = [promise EXCEPT ![waiterCounter'] = "pending"]
  <2>1. Callers = <<>> /\ waiterCounter < WaiterBound
    BY <1>2, <1>6 DEF Waits
  <2>2. waiterCounter' \in WaiterId /\ waiterCounter' \in 0 .. WaiterBound
    BY <1>6, <2>1, BoundAssumption DEF IInv, TypeOK, WaiterId
  <2>3. waiters' \subseteq Waiter
    BY <1>1, <1>6, <2>2 DEF IInv, TypeOK, Waiter, AcquireFrames
  <2>4. promise' \in [WaiterId -> Outcome]
    BY <1>6 DEF IInv, TypeOK, Outcome
  <2>5. MayQueue(stack)'
    BY <1>3, <2>1 DEF MayQueue
  <2> QED BY <1>2, <1>3, <2>2, <2>3, <2>4, <2>5 DEF IInv, TypeOK
<1> QED BY <1>4, <1>5, <1>6 DEF Deny

(* The calls from outside. *)
LEMMA ExternalStep == ASSUME IInv, External PROVE IInv'
<1> USE DEF Idle
<1>1. ASSUME NEW p \in Path, NEW h \in Holder, NEW wait \in BOOLEAN,
             NEW n \in Requested, Acquire(p, h, wait, n)
      PROVE  IInv'
  <2> DEFINE f == AcquireFrame(p, h, wait, Clamp(n), 0)
  <2>1. f \in Frame
    BY BoundAssumption
    DEF Frame, AcquireFrames, AcquireFrame, Clamp, Priority
  <2>2. f.waiter = 0 /\ (Waits(f) => waiterCounter < WaiterBound)
    BY <1>1 DEF AcquireFrame, Waits, Acquire
  <2> HIDE DEF f
  <2>3. /\ <<f>> \in Seq(Frame) /\ Len(<<f>>) = 1 /\ <<f>>[1] = f
    BY <2>1
  <2>4. stack' = <<f>>
    BY <1>1 DEF Acquire, f
  <2>5. Outermost(stack') /\ MayQueue(stack')
    BY <2>2, <2>3, <2>4 DEF Outermost, MayQueue
  <2> QED BY <1>1, <2>3, <2>4, <2>5, StackOnly DEF Acquire
<1>2. <<>> \in Seq(Frame) /\ Outermost(<<>>) /\ MayQueue(<<>>)
  BY DEF Outermost, MayQueue
<1>3. ASSUME NEW p \in Path, NEW h \in Holder, NEW force \in BOOLEAN,
             Release(p, h, force)
      PROVE  IInv'
  BY <1>2, <1>3, Releasing DEF Release
<1>4. ASSUME NEW p \in Path, NEW h \in Holder \cup {NoHolder}, Query(p, h)
      PROVE  IInv'
  <2> DEFINE f == [op |-> "scan", path |-> p, holder |-> h]
  <2>1. f \in Frame /\ ~Waits(f)
    BY DEF Frame, ScanFrames, Waits
  <2>2. stack' = <<f>> \o <<>>
    BY <1>4, <2>1 DEF Query
  <2> QED BY <1>2, <1>4, <2>1, <2>2, Push, StackOnly DEF Query
<1>5. ASSUME NEW p \in Path, GetLockExpired(p)
      PROVE  IInv'
  BY <1>2, <1>5, Releasing DEF GetLockExpired
<1>6. CASE GetAll
  <2> DEFINE f == [op |-> "all"]
  <2>1. f \in Frame /\ ~Waits(f)
    BY DEF Frame, LoopFrames, Waits
  <2>2. stack' = <<f>> \o <<>>
    BY <1>6, <2>1 DEF GetAll
  <2> QED BY <1>2, <1>6, <2>1, <2>2, Push, StackOnly DEF GetAll
<1>7. CASE StartExpiryCheck \/ StopExpiryCheck
  BY <1>7 DEF StartExpiryCheck, StopExpiryCheck, IInv, TypeOK, MayQueue
<1>8. CASE Dispose
  <2>1. locks' \in [Path -> Lock \cup {Free}]
    BY <1>8 DEF Dispose
  <2>2. promise' \in [WaiterId -> Outcome]
    BY <1>8 DEF Dispose, IInv, TypeOK, Outcome
  <2> QED BY <1>8, <2>1, <2>2 DEF Dispose, IInv, TypeOK, MayQueue
<1> QED BY <1>1, <1>3, <1>4, <1>5, <1>6, <1>7, <1>8 DEF External

(* Timers and the passing of time. *)
LEMMA TimerStep == ASSUME IInv, Timers PROVE IInv'
<1>1. CASE ExpiryTick
  <2> DEFINE f == [op |-> "clean"]
  <2>1. f \in Frame /\ ~Waits(f)
    BY DEF Frame, LoopFrames, Waits
  <2>2. <<>> \in Seq(Frame) /\ Outermost(<<>>) /\ MayQueue(<<>>)
    BY DEF Outermost, MayQueue
  <2>3. stack' = <<f>> \o <<>>
    BY <1>1, <2>1 DEF ExpiryTick
  <2> QED BY <1>1, <2>1, <2>2, <2>3, Push, StackOnly DEF ExpiryTick
<1>2. ASSUME NEW w \in waiters, WaiterTimeout(w)
      PROVE  IInv'
  <2>1. promise' \in [WaiterId -> Outcome]
    BY <1>2 DEF WaiterTimeout, IInv, TypeOK, Outcome
  <2> QED BY <1>2, <2>1 DEF WaiterTimeout, IInv, TypeOK, MayQueue
<1>3. ASSUME NEW p \in Path, LeaseRunsOut(p)
      PROVE  IInv'
  <2>1. locks[p] \in Lock
    BY <1>3 DEF LeaseRunsOut, Live, Held, IInv, TypeOK, Free
  <2>2. locks' \in [Path -> Lock \cup {Free}]
    BY <1>3, <2>1 DEF LeaseRunsOut, IInv, TypeOK, Lock
  <2> QED BY <1>3, <2>2 DEF LeaseRunsOut, IInv, TypeOK, MayQueue
<1> QED BY <1>1, <1>2, <1>3 DEF Timers

(* The stages of acquire. *)
LEMMA AcquireStep ==
  ASSUME IInv,
         \/ AcquireThrows \/ AcquireCheck \/ AcquireRecheck \/ AcquireReleasesExpired
         \/ AcquireFindsConflict \/ AcquireGrants \/ AcquireReturns
  PROVE  IInv'
<1>1. /\ stack # <<>> /\ Top.op = "acquire" /\ Top \in AcquireFrames /\ Top \in Frame
      /\ stack \in Seq(Frame) /\ Outermost(stack) /\ MayQueue(stack)
  BY TopAndCallers, FrameKinds
  DEF IInv, TypeOK, Running, Top, AcquireThrows, AcquireCheck, AcquireRecheck,
      AcquireReleasesExpired, AcquireFindsConflict, AcquireGrants, AcquireReturns
<1>2. /\ Callers \in Seq(Frame) /\ Outermost(Callers) /\ MayQueue(Callers)
  BY <1>1, Pop
<1>3. \A x \in {"recheck", "scan", "return"} :
        LET f == [Top EXCEPT !.at = x]
        IN  /\ f \in Frame
            /\ Waits(f) => Waits(Top) /\ f.waiter = Top.waiter
  BY <1>1 DEF AcquireFrames, Frame, Waits
<1>4. \A x \in {"recheck", "scan", "return"} :
        LET f == [Top EXCEPT !.at = x]
        IN  Continue(f) \in Seq(Frame) /\ Outermost(Continue(f)) /\ MayQueue(Continue(f))
  BY <1>1, <1>3, Advance
<1>5. CASE AcquireThrows
  <2>1. <<>> \in Seq(Frame) /\ Outermost(<<>>) /\ MayQueue(<<>>)
    BY DEF Outermost, MayQueue
  <2> QED BY <1>5, <2>1, StackOnly DEF AcquireThrows
<1>6. CASE AcquireCheck
  <2>1. CASE /\ stack' = Continue([Top EXCEPT !.at = "scan"])
             /\ UNCHANGED <<locks, waiters, waiterCounter, tokenCounter, promise, expiryTimer>>
    BY <1>4, <2>1, StackOnly
  <2>2. CASE /\ ReleaseLock(Top.path, Continue([Top EXCEPT !.at = "recheck"]))
             /\ UNCHANGED <<waiters, waiterCounter, tokenCounter, promise, expiryTimer>>
    BY <1>1, <1>4, <2>2, Releasing DEF AcquireFrames
  <2>3. CASE Deny(Top)
    BY <1>1, <2>3, Denying
  <2> QED BY <1>6, <2>1, <2>2, <2>3 DEF AcquireCheck
<1>7. CASE AcquireRecheck
  <2>1. CASE /\ stack' = Continue([Top EXCEPT !.at = "scan"])
             /\ UNCHANGED <<locks, waiters, waiterCounter, tokenCounter, promise, expiryTimer>>
    BY <1>4, <2>1, StackOnly
  <2>2. CASE Deny(Top)
    BY <1>1, <2>2, Denying
  <2> QED BY <1>7, <2>1, <2>2 DEF AcquireRecheck
<1>8. CASE AcquireReleasesExpired
  <2>1. PICK q \in Stale(Top.holder) : ReleaseLock(q, stack)
    BY <1>8 DEF AcquireReleasesExpired
  <2>2. q \in Path
    BY DEF Stale, Foreign, Held
  <2> QED BY <1>1, <1>8, <2>1, <2>2, Releasing DEF AcquireReleasesExpired
<1>9. CASE AcquireFindsConflict
  BY <1>1, <1>9, Denying DEF AcquireFindsConflict
<1>10. CASE AcquireGrants
  <2>1. stack' \in Seq(Frame) /\ Outermost(stack') /\ MayQueue(stack')
    BY <1>4, <1>10, PushEmit DEF AcquireGrants
  <2>2. locks' \in [Path -> Lock \cup {Free}] /\ tokenCounter' \in Nat
    BY <1>1, <1>10 DEF AcquireGrants, IInv, TypeOK, Lock, AcquireFrames
  <2> QED BY <1>10, <2>1, <2>2 DEF AcquireGrants, IInv, TypeOK, MayQueue
<1>11. CASE AcquireReturns
  <2>1. promise' \in [WaiterId -> Outcome]
    BY <1>11 DEF AcquireReturns, IInv, TypeOK, Outcome
  <2> QED BY <1>2, <1>11, <2>1 DEF AcquireReturns, IInv, TypeOK, MayQueue
<1> QED BY <1>5, <1>6, <1>7, <1>8, <1>9, <1>10, <1>11

(* The stages of grantEligibleWaiters. *)
LEMMA GrantStep ==
  ASSUME IInv,
         GrantRound \/ GrantEnds \/ GrantReleasesExpired \/ GrantSkips \/ GrantTakes
  PROVE  IInv'
<1>1. /\ stack # <<>> /\ Top.op = "grant" /\ Top \in GrantFrames /\ Top \in Frame
      /\ stack \in Seq(Frame) /\ Outermost(stack) /\ MayQueue(stack)
  BY TopAndCallers, FrameKinds
  DEF IInv, TypeOK, Running, Top, GrantRound, GrantEnds, GrantReleasesExpired,
      GrantSkips, GrantTakes
<1>2. /\ Callers \in Seq(Frame) /\ Outermost(Callers) /\ MayQueue(Callers)
  BY <1>1, Pop
<1>3. ASSUME NEW f \in GrantFrames
      PROVE  /\ f \in Frame
             /\ Continue(f) \in Seq(Frame) /\ Outermost(Continue(f)) /\ MayQueue(Continue(f))
  <2>1. f \in Frame /\ ~Waits(f)
    BY DEF Frame, GrantFrames, Waits
  <2> QED BY <1>1, <2>1, Advance
<1>4. CASE GrantRound
  <2>1. [Top EXCEPT !.cands = QueueHeads, !.progressed = FALSE] \in GrantFrames
    BY <1>1 DEF GrantFrames, QueueHeads, IInv, TypeOK
  <2> QED BY <1>3, <1>4, <2>1, StackOnly DEF GrantRound
<1>5. CASE GrantEnds
  BY <1>2, <1>5, StackOnly DEF GrantEnds
<1>6. CASE GrantReleasesExpired
  <2>1. PICK w \in Top.cands : \E q \in Stale(w.holder) : ReleaseLock(q, stack)
    BY <1>6 DEF GrantReleasesExpired
  <2>3. PICK q \in Stale(w.holder) : ReleaseLock(q, stack)
    BY <2>1
  <2>2. q \in Path
    BY DEF Stale, Foreign, Held
  <2> QED BY <1>1, <1>6, <2>2, <2>3, Releasing DEF GrantReleasesExpired
<1>7. CASE GrantSkips
  <2>1. PICK w \in Top.cands : stack' = Continue([Top EXCEPT !.cands = @ \ {w}])
    BY <1>7 DEF GrantSkips
  <2>2. [Top EXCEPT !.cands = @ \ {w}] \in GrantFrames
    BY <1>1 DEF GrantFrames
  <2> QED BY <1>3, <1>7, <2>1, <2>2, StackOnly DEF GrantSkips
<1>8. CASE GrantTakes
  <2>1. PICK w \in Top.cands :
          /\ waiters' = waiters \ {w}
          /\ stack' = <<AcquireFrame(w.path, w.holder, FALSE, w.priority, w.id)>> \o
               Continue([Top EXCEPT !.cands = @ \ {w}, !.progressed = TRUE])
    BY <1>8 DEF GrantTakes
  <2> DEFINE a == AcquireFrame(w.path, w.holder, FALSE, w.priority, w.id)
             g == [Top EXCEPT !.cands = @ \ {w}, !.progressed = TRUE]
  <2>2. g \in GrantFrames
    BY <1>1 DEF GrantFrames
  <2>3. w \in Waiter
    BY <1>1 DEF GrantFrames
  <2>4. a \in Frame /\ ~Waits(a)
    BY <2>3 DEF AcquireFrame, AcquireFrames, Frame, Waiter, Waits
  <2> HIDE DEF a, g
  <2>5. /\ <<a>> \o Continue(g) \in Seq(Frame)
        /\ Outermost(<<a>> \o Continue(g)) /\ MayQueue(<<a>> \o Continue(g))
    BY <1>3, <2>2, <2>4, Push
  <2>6. stack' = <<a>> \o Continue(g)
    BY <2>1 DEF a, g
  <2>7. UNCHANGED <<locks, waiterCounter, tokenCounter, promise, expiryTimer>>
    BY <1>8 DEF GrantTakes
  <2> QED BY <2>1, <2>5, <2>6, <2>7 DEF IInv, TypeOK, MayQueue
<1> QED BY <1>4, <1>5, <1>6, <1>7, <1>8

(* The frame of a query whose scan met a running lock. *)
LEMMA FoundFrame ==
  ASSUME TypeOK, ScanFinds
  PROVE  \E q \in Blocking(Top.path, Top.holder) :
           LET f == [op |-> "found", path |-> Top.path, lock |-> q]
           IN  f \in FoundFrames /\ f \in Frame /\ stack' = Continue(f)
<1>1. Top \in ScanFrames
  BY TopAndCallers, FrameKinds DEF ScanFinds, Running, Top
<1>2. PICK q \in Blocking(Top.path, Top.holder) :
        stack' = Continue([op |-> "found", path |-> Top.path, lock |-> q])
  BY DEF ScanFinds
<1>3. [op |-> "found", path |-> Top.path, lock |-> q] \in FoundFrames
  BY <1>1 DEF FoundFrames, ScanFrames, Blocking, Foreign, Held
<1> QED BY <1>2, <1>3 DEF Frame

(* The loops over the table. *)
LEMMA LoopStep ==
  ASSUME IInv,
         \/ ScanReleasesExpired \/ ScanReturns \/ ScanFinds \/ QueryReturns
         \/ QueryReleases \/ AllReleasesExpired \/ AllReturns
         \/ CleanFindsExpired \/ CleanReleases \/ CleanReturns
  PROVE  IInv'
<1>1. /\ stack # <<>> /\ stack \in Seq(Frame) /\ Outermost(stack) /\ MayQueue(stack)
      /\ Callers \in Seq(Frame) /\ Outermost(Callers) /\ MayQueue(Callers)
  BY Pop
  DEF IInv, TypeOK, Running, ScanReleasesExpired, ScanReturns, ScanFinds, QueryReturns,
      QueryReleases, AllReleasesExpired, AllReturns, CleanFindsExpired, CleanReleases,
      CleanReturns
<1>2. CASE ScanReleasesExpired
  <2>1. PICK q \in Stale(Top.holder) : ReleaseLock(q, stack)
    BY <1>2 DEF ScanReleasesExpired
  <2>2. q \in Path
    BY DEF Stale, Foreign, Held
  <2> QED BY <1>1, <1>2, <2>1, <2>2, Releasing DEF ScanReleasesExpired
<1>3. CASE AllReleasesExpired
  BY <1>1, <1>3, Releasing DEF AllReleasesExpired
<1>4. CASE ScanReturns \/ QueryReturns \/ AllReturns \/ CleanReturns
  BY <1>1, <1>4, StackOnly DEF ScanReturns, QueryReturns, AllReturns, CleanReturns
<1>5. CASE CleanFindsExpired
  <2>1. PICK q \in Path : stack' = Emit \o <<[op |-> "evict", path |-> q]>> \o stack
    BY <1>5 DEF CleanFindsExpired
  <2> DEFINE f == [op |-> "evict", path |-> q]
  <2>2. f \in Frame /\ ~Waits(f)
    BY DEF Frame, EvictFrames, Waits
  <2>3. <<f>> \o stack \in Seq(Frame) /\ Outermost(<<f>> \o stack) /\ MayQueue(<<f>> \o stack)
    BY <1>1, <2>2, Push
  <2>4. stack' = Emit \o (<<f>> \o stack)
    <3>1. CASE Listening BY <1>1, <2>1, <2>2, <3>1 DEF Emit, Frame, LoopFrames
    <3>2. CASE ~Listening BY <1>1, <2>1, <2>2, <3>2 DEF Emit
    <3> QED BY <3>1, <3>2
  <2> HIDE DEF f
  <2> QED BY <1>5, <2>3, <2>4, PushEmit, StackOnly DEF CleanFindsExpired
<1>6. CASE CleanReleases
  <2>1. Top.path \in Path
    BY <1>1, <1>6, TopAndCallers, FrameKinds DEF CleanReleases, Running, Top, EvictFrames, IInv
  <2> QED BY <1>1, <1>6, <2>1, Releasing DEF CleanReleases
<1>7. CASE ScanFinds
  <2>1. PICK q \in Path :
          LET f == [op |-> "found", path |-> Top.path, lock |-> q]
          IN  f \in Frame /\ stack' = Continue(f)
    BY <1>7, FoundFrame DEF Blocking, Foreign, Held, IInv
  <2> DEFINE f == [op |-> "found", path |-> Top.path, lock |-> q]
  <2>2. f \in Frame /\ ~Waits(f) /\ stack' = Continue(f)
    BY <2>1 DEF Waits
  <2> HIDE DEF f
  <2> QED BY <1>1, <1>7, <2>2, Advance, StackOnly DEF ScanFinds
<1>8. CASE QueryReleases
  <2>1. Top.path \in Path
    BY <1>1, <1>8, TopAndCallers, FrameKinds DEF QueryReleases, Running, Top, FoundFrames, IInv
  <2> QED BY <1>1, <1>8, <2>1, Releasing DEF QueryReleases
<1> QED BY <1>2, <1>3, <1>4, <1>5, <1>6, <1>7, <1>8

LEMMA IInvStep == ASSUME IInv, [Next]_vars PROVE IInv'
<1>1. CASE Internal
  BY <1>1, AcquireStep, GrantStep, LoopStep DEF Internal
<1>2. CASE UNCHANGED vars
  BY <1>2 DEF vars, IInv, TypeOK, MayQueue
<1> QED BY <1>1, <1>2, ExternalStep, TimerStep DEF Next

LEMMA IInvInit == Init => IInv
<1> SUFFICES ASSUME Init PROVE IInv
  OBVIOUS
<1>1. stack \in Seq(Frame) /\ Outermost(stack) /\ MayQueue(stack)
  BY DEF Init, Outermost, MayQueue
<1>2. waiterCounter \in 0 .. WaiterBound /\ tokenCounter \in Nat
  BY BoundAssumption DEF Init
<1>3. promise \in [WaiterId -> Outcome]
  BY DEF Init, Outcome
<1>4. locks \in [Path -> Lock \cup {Free}] /\ waiters \subseteq Waiter /\ expiryTimer \in BOOLEAN
  BY DEF Init
<1> QED BY <1>1, <1>2, <1>3, <1>4 DEF IInv, TypeOK

(* The table, the queues, the promises and the call stack keep their types *)
(* for all paths, holders and limits: no record of the mutual recursion of *)
(* acquire, releaseLock and grantEligibleWaiters is ever malformed, and no *)
(* more callers are queued than may wait.                                  *)
THEOREM TypeCorrect == Spec => []TypeOK
<1>1. IInv => TypeOK
  BY DEF IInv
<1> QED BY <1>1, IInvInit, IInvStep, PTL DEF Spec

THEOREM StackCorrect == Spec => []IInv
BY IInvInit, IInvStep, PTL DEF Spec

-----------------------------------------------------------------------------
(* What a step can do to the table. *)

Grants(p, h) ==
  /\ Stale(h) = {} /\ Blocking(p, h) = {}
  /\ tokenCounter' = tokenCounter + 1
  /\ locks' = [locks EXCEPT ![p] =
       [holder |-> h, token |-> tokenCounter', expired |-> FALSE]]
Deletes(p) == locks' = [locks EXCEPT ![p] = Free] /\ UNCHANGED tokenCounter
Expires(p) == /\ Live(p) /\ UNCHANGED tokenCounter
              /\ locks' = [locks EXCEPT ![p].expired = TRUE]
Clears == locks' = [p \in Path |-> Free] /\ UNCHANGED tokenCounter

LEMMA TableEffects ==
  ASSUME IInv, [Next]_vars
  PROVE  \/ UNCHANGED <<locks, tokenCounter>>
         \/ \E p \in Path, h \in Holder : Grants(p, h)
         \/ \E p \in Path : Deletes(p)
         \/ \E p \in Path : Expires(p)
         \/ Clears
<1>4. ASSUME NEW q, NEW s, ReleaseLock(q, s), UNCHANGED tokenCounter, q \in Path
      PROVE  \E p \in Path : Deletes(p)
  BY <1>4 DEF ReleaseLock, Deletes
<1>1. CASE External
  BY <1>1, <1>4
  DEF External, Acquire, Release, Query, GetLockExpired, GetAll, StartExpiryCheck,
      StopExpiryCheck, Dispose, Clears
<1>2. CASE Timers
  BY <1>2 DEF Timers, ExpiryTick, WaiterTimeout, LeaseRunsOut, Expires
<1>3. CASE AcquireGrants
  <2>1. Top \in AcquireFrames
    BY <1>3, TopAndCallers, FrameKinds DEF AcquireGrants, Running, Top, IInv
  <2> QED BY <1>3, <2>1 DEF AcquireGrants, Grants, AcquireFrames
<1>5. \A h : Stale(h) \subseteq Path
  BY DEF Stale, Foreign, Held
<1>6. CASE AcquireThrows \/ AcquireCheck \/ AcquireRecheck \/ AcquireReleasesExpired
           \/ AcquireFindsConflict \/ AcquireReturns
  BY <1>4, <1>5, <1>6
  DEF AcquireThrows, AcquireCheck, AcquireRecheck, AcquireReleasesExpired,
      AcquireFindsConflict, AcquireReturns, Deny
<1>7. CASE GrantRound \/ GrantEnds \/ GrantReleasesExpired \/ GrantSkips \/ GrantTakes
  BY <1>4, <1>5, <1>7
  DEF GrantRound, GrantEnds, GrantReleasesExpired, GrantSkips, GrantTakes
<1>8. CASE CleanReleases
  <2>1. Top.path \in Path
    BY <1>8, TopAndCallers, FrameKinds DEF CleanReleases, Running, Top, EvictFrames, IInv
  <2> QED BY <1>4, <1>8, <2>1 DEF CleanReleases
<1>11. CASE QueryReleases
  <2>1. Top.path \in Path
    BY <1>11, TopAndCallers, FrameKinds DEF QueryReleases, Running, Top, FoundFrames, IInv
  <2> QED BY <1>4, <1>11, <2>1 DEF QueryReleases
<1>9. CASE ScanReleasesExpired \/ ScanReturns \/ ScanFinds \/ QueryReturns
           \/ AllReleasesExpired \/ AllReturns \/ CleanFindsExpired \/ CleanReturns
  BY <1>4, <1>5, <1>9
  DEF ScanReleasesExpired, ScanReturns, ScanFinds, QueryReturns, AllReleasesExpired,
      AllReturns, CleanFindsExpired, CleanReturns
<1>10. CASE UNCHANGED vars
  BY <1>10 DEF vars
<1> QED BY <1>1, <1>2, <1>3, <1>6, <1>7, <1>8, <1>9, <1>10, <1>11 DEF Next, Internal

-----------------------------------------------------------------------------
(* Mutual exclusion. *)

LEMMA ExclusionStep ==
  ASSUME IInv, MutualExclusion, [Next]_vars
  PROVE  MutualExclusion'
<1> USE DEF Live, Held
<1>1. locks \in [Path -> Lock \cup {Free}]
  BY DEF IInv, TypeOK
<1>2. CASE UNCHANGED <<locks, tokenCounter>>
  BY <1>2 DEF MutualExclusion
<1>3. ASSUME NEW p \in Path, NEW h \in Holder, Grants(p, h)
      PROVE  MutualExclusion'
  <2>1. ASSUME NEW q \in Path, Live(q), <<p, q>> \in Conflict
        PROVE  locks[q].holder = h
    BY <1>3, <2>1 DEF Grants, Blocking, Foreign
  <2>2. ASSUME NEW q \in Path, q # p
        PROVE  locks'[q] = locks[q]
    BY <1>1, <1>3, <2>2 DEF Grants
  <2>3. locks'[p].holder = h
    BY <1>1, <1>3 DEF Grants
  <2>4. SUFFICES ASSUME NEW q \in Path, NEW r \in Path, Live(q)', Live(r)',
                        <<q, r>> \in Conflict
                 PROVE  locks'[q].holder = locks'[r].holder
    BY DEF MutualExclusion
  <2>5. CASE q = p /\ r # p
    BY <2>1, <2>2, <2>3, <2>4, <2>5
  <2>6. CASE q # p /\ r = p
    BY <2>1, <2>2, <2>3, <2>4, <2>6, ConflictAssumption
  <2>7. CASE q # p /\ r # p
    BY <2>2, <2>4, <2>7 DEF MutualExclusion
  <2> QED BY <2>5, <2>6, <2>7
<1>4. ASSUME NEW p \in Path, Deletes(p)
      PROVE  MutualExclusion'
  BY <1>1, <1>4 DEF Deletes, MutualExclusion, Free
<1>5. ASSUME NEW p \in Path, Expires(p)
      PROVE  MutualExclusion'
  BY <1>1, <1>5 DEF Expires, MutualExclusion, Free, Lock
<1>6. CASE Clears
  BY <1>6 DEF Clears, MutualExclusion, Free
<1> QED BY <1>2, <1>3, <1>4, <1>5, <1>6, TableEffects

(* For every set of paths and every symmetric conflict relation, whatever  *)
(* nests inside whatever: two holders never have running leases on         *)
(* conflicting paths.                                                      *)
THEOREM Exclusion == Spec => []MutualExclusion
<1>1. Init => MutualExclusion
  BY DEF Init, MutualExclusion, Live, Held, Free
<1>2. IInv /\ MutualExclusion /\ [Next]_vars => MutualExclusion'
  BY ExclusionStep
<1> QED BY <1>1, <1>2, StackCorrect, PTL DEF Spec

-----------------------------------------------------------------------------
(* Fencing tokens. *)

LEMMA TokensStep ==
  ASSUME IInv, TokensDistinct, [Next]_vars
  PROVE  TokensDistinct'
<1> USE DEF Held
<1>1. locks \in [Path -> Lock \cup {Free}] /\ tokenCounter \in Nat
  BY DEF IInv, TypeOK
<1>2. CASE UNCHANGED <<locks, tokenCounter>>
  BY <1>2 DEF TokensDistinct
<1>3. ASSUME NEW p \in Path, NEW h \in Holder, Grants(p, h)
      PROVE  TokensDistinct'
  <2>1. /\ tokenCounter' = tokenCounter + 1
        /\ locks'[p].token = tokenCounter'
        /\ \A q \in Path : q # p => locks'[q] = locks[q]
    BY <1>1, <1>3 DEF Grants
  <2>2. \A q \in Held : locks[q].token \in 1 .. tokenCounter
    BY DEF TokensDistinct
  <2>3. \A q \in Held' : q = p \/ q \in Held
    BY <2>1
  <2> QED BY <1>1, <2>1, <2>2, <2>3 DEF TokensDistinct
<1>4. ASSUME NEW p \in Path, Deletes(p)
      PROVE  TokensDistinct'
  BY <1>1, <1>4 DEF Deletes, TokensDistinct, Free
<1>5. ASSUME NEW p \in Path, Expires(p)
      PROVE  TokensDistinct'
  BY <1>1, <1>5 DEF Expires, TokensDistinct, Free, Lock
<1>6. CASE Clears
  BY <1>6 DEF Clears, TokensDistinct, Free
<1> QED BY <1>2, <1>3, <1>4, <1>5, <1>6, TableEffects

(* For every set of paths and holders: no two locks of the table ever      *)
(* carry the same fencing token, nested and repeated grants included.      *)
THEOREM Fencing == Spec => []TokensDistinct
<1>1. Init => TokensDistinct
  BY DEF Init, TokensDistinct, Held, Free
<1>2. IInv /\ TokensDistinct /\ [Next]_vars => TokensDistinct'
  BY TokensStep
<1> QED BY <1>1, <1>2, StackCorrect, PTL DEF Spec

-----------------------------------------------------------------------------
(* Refinement of ExclusiveLocks. *)

Owner == [p \in Path |-> IF Live(p) THEN locks[p].holder ELSE NoHolder]
Fence == [p \in Path |-> IF Live(p) THEN locks[p].token ELSE 0]

LEMMA AbstractInit == Init => Abstract!Init
BY DEF Init, Abstract!Init, Live, Held, Free

LEMMA AbstractStep ==
  ASSUME IInv, [Next]_vars
  PROVE  [Abstract!Next]_(Abstract!vars)
<1> USE DEF Live, Held
<1>1. locks \in [Path -> Lock \cup {Free}]
  BY DEF IInv, TypeOK
<1>2. CASE UNCHANGED <<locks, tokenCounter>>
  BY <1>2 DEF Abstract!vars
<1>3. ASSUME NEW p \in Path, NEW h \in Holder, Grants(p, h)
      PROVE  Abstract!Claim(p, h)
  <2>1. /\ tokenCounter' = tokenCounter + 1
        /\ locks'[p] = [holder |-> h, token |-> tokenCounter', expired |-> FALSE]
        /\ \A q \in Path : q # p => locks'[q] = locks[q]
    BY <1>1, <1>3 DEF Grants
  <2>2. Live(p)'
    BY <2>1, HolderAssumption
  <2>3. \A q \in Path : <<p, q>> \in Conflict => Owner[q] \in {NoHolder, h}
    BY <1>3 DEF Grants, Blocking, Foreign, Owner
  <2>6. \A q \in Path : q # p => (Live(q)' <=> Live(q))
    BY <2>1
  <2>7. locks'[p].holder = h /\ locks'[p].token = tokenCounter'
    BY <2>1
  <2> HIDE DEF Live, Held
  <2>4. Owner' = [Owner EXCEPT ![p] = h]
    <3>1. ASSUME NEW q \in Path
          PROVE  Owner'[q] = IF q = p THEN h ELSE Owner[q]
      BY <2>1, <2>2, <2>6, <2>7 DEF Owner
    <3> QED BY <3>1 DEF Owner
  <2>5. Fence' = [Fence EXCEPT ![p] = tokenCounter']
    <3>1. ASSUME NEW q \in Path
          PROVE  Fence'[q] = IF q = p THEN tokenCounter' ELSE Fence[q]
      BY <2>1, <2>2, <2>6, <2>7 DEF Fence
    <3> QED BY <3>1 DEF Fence
  <2> QED BY <2>1, <2>3, <2>4, <2>5 DEF Owner, Fence, Abstract!Claim
<1>4. ASSUME NEW p \in Path, Deletes(p)
      PROVE  Abstract!Yield({p})
  BY <1>1, <1>4 DEF Deletes, Free, Abstract!Yield
<1>5. ASSUME NEW p \in Path, Expires(p)
      PROVE  Abstract!Yield({p})
  BY <1>1, <1>5 DEF Expires, Free, Lock, Abstract!Yield
<1>6. CASE Clears
  <2>1. Abstract!Yield(Path)
    BY <1>1, <1>6 DEF Clears, Free, Abstract!Yield
  <2> QED BY <2>1 DEF Abstract!Next
<1>7. \A p \in Path : {p} \in SUBSET Path
  OBVIOUS
<1> QED BY <1>2, <1>3, <1>4, <1>5, <1>6, <1>7, TableEffects DEF Abstract!Next

(* The lease table with its queues, expiry and nested calls implements     *)
(* exclusive locks with fencing tokens, for every value of the constants.  *)
THEOREM Refinement == Spec => ImplementsExclusiveLocks
BY AbstractInit, AbstractStep, StackCorrect, PTL
DEF Spec, ImplementsExclusiveLocks, Abstract!Spec

-----------------------------------------------------------------------------
(* Without listeners only the holder gives a running lease up.             *)

(* Only the running call is about to delete an entry that it has tested.   *)
(* An entry that a sweep evicts has expired.  The entry that a query found *)
(* is still there, in conflict with the queried path; if that path has a   *)
(* running lock, it is the same holder's.                                  *)
AboutToDelete(f) == f.op \in {"evict", "found"}
NoDeleteIn(s) == \A k \in 1 .. Len(s) : ~AboutToDelete(s[k])
FoundOwn(p, q) ==
  /\ q \in Held /\ <<p, q>> \in Conflict
  /\ Live(p) => locks[q].holder = locks[p].holder
DeletesTested ==
  stack # <<>> => /\ NoDeleteIn(Callers)
                  /\ Top.op = "evict" => Expired(Top.path)
                  /\ Top.op = "found" => FoundOwn(Top.path, Top.lock)

LEMMA NoDeletePush ==
  ASSUME NEW s \in Seq(Frame), NEW f \in Frame, ~AboutToDelete(f), NoDeleteIn(s)
  PROVE  NoDeleteIn(<<f>> \o s)
<1> DEFINE t == <<f>> \o s
<1>1. /\ Len(t) = Len(s) + 1 /\ t[1] = f
      /\ \A k \in 1 .. Len(s) : t[k + 1] = s[k]
  OBVIOUS
<1> HIDE DEF t
<1>2. ASSUME NEW k \in 1 .. Len(t)
      PROVE  ~AboutToDelete(t[k])
  <2>1. CASE k = 1
    BY <1>1, <2>1
  <2>2. CASE k # 1
    <3>1. k - 1 \in 1 .. Len(s)
      BY <1>1, <2>2
    <3>2. t[(k - 1) + 1] = s[k - 1]
      BY <1>1, <3>1
    <3> QED BY <3>1, <3>2 DEF NoDeleteIn
  <2> QED BY <2>1, <2>2
<1> QED BY <1>2 DEF NoDeleteIn, t

(* A stack without such a frame satisfies the invariant. *)
LEMMA NoDeleteSuffices ==
  ASSUME NEW s \in Seq(Frame), NoDeleteIn(s), s # <<>>
  PROVE  NoDeleteIn(Tail(s)) /\ ~AboutToDelete(Head(s))
BY DEF NoDeleteIn, AboutToDelete

LEMMA NoDeleteAfterDelete ==
  ASSUME ~Listening, NEW s \in Seq(Frame), NoDeleteIn(s)
  PROVE  AfterDelete \o s \in Seq(Frame) /\ NoDeleteIn(AfterDelete \o s)
<1> DEFINE g == [op |-> "grant", cands |-> {}, progressed |-> TRUE]
<1>1. g \in Frame /\ ~AboutToDelete(g)
  BY DEF Frame, GrantFrames, AboutToDelete
<1>2. AfterDelete \o s = <<g>> \o s
  <2>1. AfterDelete = <<>> \o <<g>>
    BY DEF AfterDelete, Emit
  <2>2. <<>> \o <<g>> = <<g>>
    BY <1>1
  <2> QED BY <2>1, <2>2
<1> HIDE DEF g
<1> QED BY <1>1, <1>2, NoDeletePush

LEMMA DeletesTestedStep ==
  ASSUME ~Listening, IInv, MutualExclusion, DeletesTested, [Next]_vars
  PROVE  DeletesTested'
<1> USE DEF AboutToDelete
<1>1. stack \in Seq(Frame)
  BY DEF IInv, TypeOK
<1>2. stack' \in Seq(Frame)
  BY IInvStep DEF IInv, TypeOK
<1>3. (stack' = <<>> \/ NoDeleteIn(stack')) => DeletesTested'
  BY <1>2, NoDeleteSuffices DEF DeletesTested, Callers, Top
<1>4. stack # <<>> => Callers \in Seq(Frame) /\ NoDeleteIn(Callers) /\ Top \in Frame
  BY TopAndCallers DEF IInv, DeletesTested
<1>5. NoDeleteIn(<<>>) /\ <<>> \in Seq(Frame)
  BY DEF NoDeleteIn
<1>6. ASSUME NEW s \in Seq(Frame), NoDeleteIn(s), NEW q, ReleaseLock(q, s)
      PROVE  DeletesTested'
  BY <1>3, <1>6, NoDeleteAfterDelete DEF ReleaseLock
<1>7. ASSUME NEW f, ~AboutToDelete(f), stack' = <<f>>
      PROVE  DeletesTested'
  <2>1. Len(stack') = 1 /\ stack'[1] = f
    BY <1>7
  <2> QED BY <1>3, <1>7, <2>1 DEF NoDeleteIn
<1>8. ASSUME stack # <<>>, ~AboutToDelete(Top)
      PROVE  NoDeleteIn(stack)
  <2>1. stack = <<Top>> \o Callers
    BY <1>1, <1>8 DEF Top, Callers
  <2> QED BY <1>4, <1>8, <2>1, NoDeletePush
<1>9. ASSUME stack # <<>>, NEW f \in Frame, ~AboutToDelete(f)
      PROVE  Continue(f) \in Seq(Frame) /\ NoDeleteIn(Continue(f))
  BY <1>4, <1>9, NoDeletePush DEF Continue
<1>10. CASE External
  BY <1>3, <1>5, <1>6, <1>7, <1>10
  DEF External, Idle, Acquire, AcquireFrame, Release, Query, GetLockExpired, GetAll,
      StartExpiryCheck, StopExpiryCheck, Dispose
<1>11. CASE ExpiryTick \/ \E w \in waiters : WaiterTimeout(w)
  BY <1>3, <1>7, <1>11 DEF ExpiryTick, WaiterTimeout, Idle
<1>12. ASSUME NEW p \in Path, LeaseRunsOut(p)
       PROVE  DeletesTested'
  <2>1. locks \in [Path -> Lock \cup {Free}] /\ locks[p] \in Lock
    BY <1>12 DEF LeaseRunsOut, Live, Held, IInv, TypeOK, Free
  <2>2. /\ \A q \in Path : Expired(q) => Expired(q)'
        /\ \A q \in Path : locks'[q].holder = locks[q].holder /\ (Live(q)' => Live(q))
    BY <1>12, <2>1 DEF LeaseRunsOut, Expired, Live, Held, Lock
  <2>3. stack' = stack
    BY <1>12 DEF LeaseRunsOut
  <2>4. stack # <<>> => (Top.op = "evict" => Expired(Top.path)')
    BY <2>2, <2>3 DEF DeletesTested, Expired, Held, Top
  <2>5. stack # <<>> => (Top.op = "found" => FoundOwn(Top.path, Top.lock)')
    <3>1. SUFFICES ASSUME stack # <<>>, Top.op = "found"
                   PROVE  FoundOwn(Top.path, Top.lock)'
      OBVIOUS
    <3>2. Top.path \in Path /\ Top.lock \in Path
      BY <1>4, <3>1, FrameKinds DEF FoundFrames
    <3>3. FoundOwn(Top.path, Top.lock)
      BY <3>1 DEF DeletesTested
    <3> QED BY <2>2, <2>3, <3>2, <3>3 DEF FoundOwn, Held, Top
  <2> QED BY <2>3, <2>4, <2>5 DEF DeletesTested, Top, Callers
<1>13. CASE AcquireThrows \/ AcquireCheck \/ AcquireRecheck \/ AcquireReleasesExpired
            \/ AcquireFindsConflict \/ AcquireGrants \/ AcquireReturns
  <2>1. stack # <<>> /\ Top.op = "acquire" /\ Top \in AcquireFrames
    BY <1>4, <1>13, FrameKinds
    DEF Running, Top, AcquireThrows, AcquireCheck, AcquireRecheck,
        AcquireReleasesExpired, AcquireFindsConflict, AcquireGrants, AcquireReturns
  <2>2. \A x \in {"recheck", "scan", "return"} :
          LET f == [Top EXCEPT !.at = x]
          IN  Continue(f) \in Seq(Frame) /\ NoDeleteIn(Continue(f))
    BY <1>9, <2>1 DEF AcquireFrames, Frame
  <2>3. \A s \in Seq(Frame) : Emit \o s = s
    BY DEF Emit
  <2>4. CASE AcquireThrows
    BY <1>3, <2>4 DEF AcquireThrows
  <2>5. CASE AcquireCheck
    BY <1>3, <1>4, <1>6, <2>1, <2>2, <2>5 DEF AcquireCheck, Deny
  <2>6. CASE AcquireRecheck \/ AcquireFindsConflict \/ AcquireReturns
    BY <1>3, <1>4, <2>1, <2>2, <2>6
    DEF AcquireRecheck, AcquireFindsConflict, AcquireReturns, Deny
  <2>7. CASE AcquireReleasesExpired
    BY <1>1, <1>6, <1>8, <2>1, <2>7 DEF AcquireReleasesExpired
  <2>8. CASE AcquireGrants
    BY <1>3, <2>2, <2>3, <2>8 DEF AcquireGrants
  <2> QED BY <1>13, <2>4, <2>5, <2>6, <2>7, <2>8
<1>14. CASE GrantRound \/ GrantEnds \/ GrantReleasesExpired \/ GrantSkips \/ GrantTakes
  <2>1. stack # <<>> /\ Top.op = "grant" /\ Top \in GrantFrames
    BY <1>4, <1>14, FrameKinds
    DEF Running, Top, GrantRound, GrantEnds, GrantReleasesExpired, GrantSkips, GrantTakes
  <2>2. ASSUME NEW f \in GrantFrames
        PROVE  Continue(f) \in Seq(Frame) /\ NoDeleteIn(Continue(f))
    BY <1>9, <2>1 DEF GrantFrames, Frame
  <2>3. CASE GrantRound
    <3>1. [Top EXCEPT !.cands = QueueHeads, !.progressed = FALSE] \in GrantFrames
      BY <2>1 DEF GrantFrames, QueueHeads, IInv, TypeOK
    <3> QED BY <1>3, <2>2, <2>3, <3>1 DEF GrantRound
  <2>4. CASE GrantEnds
    BY <1>3, <1>4, <2>1, <2>4 DEF GrantEnds
  <2>5. CASE GrantReleasesExpired
    BY <1>1, <1>6, <1>8, <2>1, <2>5 DEF GrantReleasesExpired
  <2>6. CASE GrantSkips
    <3>1. PICK w \in Top.cands : stack' = Continue([Top EXCEPT !.cands = @ \ {w}])
      BY <2>6 DEF GrantSkips
    <3>2. [Top EXCEPT !.cands = @ \ {w}] \in GrantFrames
      BY <2>1 DEF GrantFrames
    <3> QED BY <1>3, <2>2, <3>1, <3>2
  <2>7. CASE GrantTakes
    <3>1. PICK w \in Top.cands :
            stack' = <<AcquireFrame(w.path, w.holder, FALSE, w.priority, w.id)>> \o
                 Continue([Top EXCEPT !.cands = @ \ {w}, !.progressed = TRUE])
      BY <2>7 DEF GrantTakes
    <3> DEFINE a == AcquireFrame(w.path, w.holder, FALSE, w.priority, w.id)
               g == [Top EXCEPT !.cands = @ \ {w}, !.progressed = TRUE]
    <3>2. g \in GrantFrames /\ w \in Waiter
      BY <2>1 DEF GrantFrames
    <3>3. a \in Frame /\ ~AboutToDelete(a)
      BY <3>2 DEF AcquireFrame, AcquireFrames, Frame, Waiter
    <3> HIDE DEF a, g
    <3>4. Continue(g) \in Seq(Frame) /\ NoDeleteIn(Continue(g))
      BY <2>2, <3>2
    <3>5. NoDeleteIn(<<a>> \o Continue(g))
      BY <3>3, <3>4, NoDeletePush
    <3>6. stack' = <<a>> \o Continue(g)
      BY <3>1 DEF a, g
    <3> QED BY <1>3, <3>5, <3>6
  <2> QED BY <1>14, <2>3, <2>4, <2>5, <2>6, <2>7
<1>15. CASE CleanFindsExpired
  <2>1. PICK q \in Path : Expired(q) /\ stack' = Emit \o <<[op |-> "evict", path |-> q]>> \o stack
    BY <1>15 DEF CleanFindsExpired
  <2> DEFINE f == [op |-> "evict", path |-> q]
  <2>2. stack' = <<f>> \o stack
    BY <1>1, <2>1 DEF Emit
  <2>3. Top' = f /\ Callers' = stack /\ f.path = q
    BY <1>1, <2>2 DEF Top, Callers
  <2>4. NoDeleteIn(stack)
    BY <1>8, <1>15 DEF CleanFindsExpired, Running, Top
  <2>5. Expired(q)'
    BY <1>15, <2>1 DEF CleanFindsExpired, Expired, Held
  <2>6. NoDeleteIn(Callers)'
    BY <2>3, <2>4 DEF NoDeleteIn
  <2>7. Expired(Top.path)'
    BY <2>3, <2>5 DEF Expired, Held
  <2>8. (Top.op # "found")'
    BY <2>3
  <2> QED BY <2>6, <2>7, <2>8 DEF DeletesTested
<1>16. CASE CleanReleases
  BY <1>4, <1>6, <1>16 DEF CleanReleases, Running
<1>17. CASE ScanReleasesExpired \/ AllReleasesExpired
  BY <1>1, <1>6, <1>8, <1>17 DEF ScanReleasesExpired, AllReleasesExpired, Running, Top
<1>18. CASE ScanReturns \/ QueryReturns \/ AllReturns \/ CleanReturns
  BY <1>3, <1>4, <1>18 DEF ScanReturns, QueryReturns, AllReturns, CleanReturns, Running
<1>19. CASE UNCHANGED vars
  BY <1>19 DEF vars, DeletesTested, Top, Callers, Expired, FoundOwn, Live, Held
<1>20. CASE QueryReleases
  BY <1>4, <1>6, <1>20 DEF QueryReleases, Running
<1>21. CASE ScanFinds
  <2>1. PICK q \in Blocking(Top.path, Top.holder) :
          LET f == [op |-> "found", path |-> Top.path, lock |-> q]
          IN  f \in FoundFrames /\ f \in Frame /\ stack' = Continue(f)
    BY <1>21, FoundFrame DEF IInv
  <2>2. PICK f \in Frame : /\ stack' = <<f>> \o Callers
                           /\ f.op = "found" /\ f.path = Top.path /\ f.lock = q
                           /\ f.path \in Path
    BY <2>1 DEF Continue, FoundFrames
  <2>3. stack # <<>> /\ UNCHANGED locks
    BY <1>21 DEF ScanFinds, Running
  <2>4. Top' = f /\ Callers' = Callers
    BY <1>4, <2>2, <2>3 DEF Top, Callers
  <2>5. FoundOwn(f.path, q)
    BY <2>1, <2>2 DEF FoundOwn, Blocking, Foreign, Live, Held, MutualExclusion
  <2>6. FoundOwn(f.path, f.lock)'
    BY <2>2, <2>3, <2>5 DEF FoundOwn, Live, Held
  <2>7. NoDeleteIn(Callers)'
    BY <1>4, <2>3, <2>4
  <2>8. (Top.op = "evict" => Expired(Top.path))' /\ (Top.op = "found" => FoundOwn(Top.path, Top.lock))'
    BY <2>2, <2>4, <2>6 DEF FoundOwn, Live, Held, Top
  <2> QED BY <2>7, <2>8 DEF DeletesTested
<1> QED BY <1>10, <1>11, <1>12, <1>13, <1>14, <1>15, <1>16, <1>17, <1>18, <1>19,
           <1>20, <1>21
        DEF Next, Timers, Internal

(* The step of OnlyHolderReleases. *)
KeepsLive ==
  \A p \in Path :
    (Live(p) /\ locks'[p].holder # locks[p].holder) =>
       \/ Release(p, locks[p].holder, FALSE)
       \/ \E h \in Holder : Release(p, h, TRUE)
       \/ Dispose
       \/ QueryDeletesOwn(p)

LEMMA KeepsLiveStep ==
  ASSUME IInv, DeletesTested, [Next]_vars
  PROVE  KeepsLive
<1> SUFFICES ASSUME NEW p \in Path, Live(p), locks'[p].holder # locks[p].holder
             PROVE  \/ Release(p, locks[p].holder, FALSE)
                    \/ \E h \in Holder : Release(p, h, TRUE)
                    \/ Dispose
                    \/ QueryDeletesOwn(p)
  BY DEF KeepsLive
<1>1. locks \in [Path -> Lock \cup {Free}]
  BY DEF IInv, TypeOK
<1>2. ASSUME NEW q, Expired(q), NEW s, ReleaseLock(q, s)
      PROVE  FALSE
  BY <1>1, <1>2 DEF ReleaseLock, Expired, Live, Held
<1>3. \A h : \A q \in Stale(h) : Expired(q)
  BY DEF Stale, Foreign, Expired, Held
<1>4. ASSUME NEW q \in Path, NEW h \in Holder, NEW force \in BOOLEAN, Release(q, h, force)
      PROVE  \/ Release(p, locks[p].holder, FALSE)
             \/ \E x \in Holder : Release(p, x, TRUE)
  <2>1. q = p
    BY <1>1, <1>4 DEF Release, ReleaseLock
  <2>2. CASE force
    BY <1>4, <2>1, <2>2
  <2>3. CASE ~force
    BY <1>4, <2>1, <2>3 DEF Release
  <2> QED BY <2>2, <2>3
<1>5. ASSUME NEW q \in Path, NEW h \in Holder, Grants(q, h)
      PROVE  FALSE
  <2>1. q = p
    BY <1>1, <1>5 DEF Grants
  <2>2. locks[p].holder # h
    BY <1>1, <1>5, <2>1 DEF Grants
  <2>3. p \in Blocking(p, h)
    BY <2>2, ConflictAssumption DEF Blocking, Foreign, Live
  <2> QED BY <1>5, <2>1, <2>3 DEF Grants
<1>6. CASE UNCHANGED locks
  BY <1>6
<1>7. CASE External
  <2>1. ASSUME NEW q \in Path, GetLockExpired(q)
        PROVE  FALSE
    BY <1>2, <2>1 DEF GetLockExpired
  <2> QED BY <1>4, <1>6, <1>7, <2>1
          DEF External, Acquire, Query, GetAll, StartExpiryCheck, StopExpiryCheck
<1>8. ASSUME NEW q \in Path, LeaseRunsOut(q)
      PROVE  FALSE
  BY <1>1, <1>8 DEF LeaseRunsOut, Live, Held, Free, Lock
<1>9. CASE Timers
  BY <1>6, <1>8, <1>9 DEF Timers, ExpiryTick, WaiterTimeout
<1>10. CASE AcquireGrants
  <2>1. Top \in AcquireFrames
    BY <1>10, TopAndCallers, FrameKinds DEF AcquireGrants, Running, Top, IInv
  <2>2. Grants(Top.path, Top.holder) /\ Top.path \in Path /\ Top.holder \in Holder
    BY <1>10, <2>1 DEF AcquireGrants, Grants, AcquireFrames
  <2> QED BY <1>5, <2>2
<1>11. CASE AcquireThrows \/ AcquireCheck \/ AcquireRecheck \/ AcquireReleasesExpired
            \/ AcquireFindsConflict \/ AcquireReturns
  BY <1>2, <1>3, <1>6, <1>11
  DEF AcquireThrows, AcquireCheck, AcquireRecheck, AcquireReleasesExpired,
      AcquireFindsConflict, AcquireReturns, Deny
<1>12. CASE GrantRound \/ GrantEnds \/ GrantReleasesExpired \/ GrantSkips \/ GrantTakes
  BY <1>2, <1>3, <1>6, <1>12
  DEF GrantRound, GrantEnds, GrantReleasesExpired, GrantSkips, GrantTakes
<1>13. CASE CleanReleases
  BY <1>2, <1>13 DEF CleanReleases, DeletesTested, Running, Top
<1>14. CASE ScanReleasesExpired \/ ScanReturns \/ ScanFinds \/ QueryReturns
            \/ AllReleasesExpired \/ AllReturns \/ CleanFindsExpired \/ CleanReturns
  BY <1>2, <1>3, <1>6, <1>14
  DEF ScanReleasesExpired, ScanReturns, ScanFinds, QueryReturns, AllReleasesExpired,
      AllReturns, CleanFindsExpired, CleanReturns
<1>16. CASE QueryReleases
  <2>1. Top.path = p
    BY <1>1, <1>16 DEF QueryReleases, ReleaseLock
  <2>2. FoundOwn(p, Top.lock) /\ Expired(Top.lock)
    BY <1>16, <2>1 DEF QueryReleases, Running, Top, DeletesTested
  <2>3. Top.lock # p
    BY <2>2 DEF Expired, Live
  <2> QED BY <1>16, <2>1, <2>2, <2>3 DEF QueryDeletesOwn, FoundOwn
<1>15. CASE UNCHANGED vars
  BY <1>6, <1>15 DEF vars
<1> QED BY <1>7, <1>9, <1>10, <1>11, <1>12, <1>13, <1>14, <1>15, <1>16 DEF Next, Internal

(* A manager nobody listens to never takes a running lease from its holder,*)
(* for every set of paths and every conflict relation, except in one case: *)
(* a query of the path found another lock of that holder in conflict with  *)
(* it, which ran out before the second look at the clock.  The run         *)
(* SweepEvicts shows that the hypothesis is needed.                        *)
THEOREM HolderKeepsLease ==
  ASSUME ~Listening
  PROVE  Spec => OnlyHolderReleases
<1>1. Init => DeletesTested
  BY DEF Init, DeletesTested
<1>2. IInv /\ MutualExclusion /\ DeletesTested /\ [Next]_vars => DeletesTested'
  BY DeletesTestedStep
<1>3. IInv /\ DeletesTested /\ [Next]_vars => [KeepsLive]_vars
  BY KeepsLiveStep
<1>4. Spec => [][KeepsLive]_vars
  BY <1>1, <1>2, <1>3, StackCorrect, Exclusion, PTL DEF Spec
<1> QED BY <1>4 DEF OnlyHolderReleases, KeepsLive

-----------------------------------------------------------------------------
(* Locks on single files.  With scopes one release can make several paths  *)
(* grantable, and then limits and promises can fail (see the README); when *)
(* paths conflict only with themselves they cannot, however releases,      *)
(* grants and expiries nest.                                               *)
OnFiles == \A p, q \in Path : <<p, q>> \in Conflict => p = q

(* A suspended call that will still look at the queue of p, or take p for a*)
(* waiter it has dequeued.                                                 *)
Serves(f, p) ==
  \/ f.op = "grant" /\ (f.progressed \/ \E c \in f.cands : c.path = p)
  \/ f.op = "acquire" /\ f.waiter # 0 /\ f.at # "return" /\ f.path = p
ServedBy(s, p) == \E k \in 1 .. Len(s) : Serves(s[k], p)

(* A suspended call that may still put p into the table without a test of  *)
(* the limit that can fail.                                                *)
Wants(f, p) ==
  \/ f.op = "grant" /\ \E c \in f.cands : c.path = p
  \/ f.op = "acquire" /\ (f.waiter # 0 \/ f.at # "check") /\ f.path = p
WantedBy(s, p) == \E k \in 1 .. Len(s) : Wants(s[k], p)

(* A suspended call that acquires for the waiter i.                        *)
GrantsTo(s, i) == \E k \in 1 .. Len(s) : s[k].op = "acquire" /\ s[k].waiter = i

(* Only the running call is at its first test, and a call from outside is  *)
(* the outermost one.                                                      *)
Settled(s) ==
  \A k \in 1 .. Len(s) :
    s[k].op = "acquire" => s[k].at # "check" /\ (s[k].waiter = 0 => k = Len(s))
FromOutside(f) == f.op = "acquire" /\ f.waiter = 0
WellNested(s) ==
  s # <<>> => Settled(Tail(s)) /\ (FromOutside(Head(s)) => Tail(s) = <<>>)

Numbered == \A v, w \in waiters : v.id <= waiterCounter /\ (v.id = w.id => v = w)
Attended == \A w \in waiters : w.path \in Held \/ ServedBy(stack, w.path)
Claims(p) == p \in Held \/ (\E w \in waiters : w.path = p) \/ WantedBy(stack, p)
Claimed == {p \in Path : Claims(p)}
Room == Cardinality(Claimed) <= MaxLocks

(* The inductive invariant: every waiter's path is locked or a suspended   *)
(* call will come to it, and all paths that may be locked before the       *)
(* outermost call returns fit into the table together.                     *)
FInv == /\ IInv /\ WellNested(stack) /\ Numbered /\ Attended /\ Room /\ NoOrphan

(* What pushing a frame changes. *)
LEMMA PushFacts ==
  ASSUME NEW s \in Seq(Frame), NEW f \in Frame
  PROVE  LET t == <<f>> \o s
         IN  /\ t \in Seq(Frame) /\ t # <<>> /\ Head(t) = f /\ Tail(t) = s
             /\ \A p : ServedBy(t, p) <=> Serves(f, p) \/ ServedBy(s, p)
             /\ \A p : WantedBy(t, p) <=> Wants(f, p) \/ WantedBy(s, p)
             /\ \A i : GrantsTo(t, i) <=> (f.op = "acquire" /\ f.waiter = i) \/ GrantsTo(s, i)
             /\ (Settled(s) /\ (f.op = "acquire" => f.at # "check")
                   /\ (FromOutside(f) => s = <<>>)) => Settled(t)
             /\ (Settled(s) /\ (FromOutside(f) => s = <<>>)) => WellNested(t)
<1> DEFINE t == <<f>> \o s
<1>1. /\ t \in Seq(Frame) /\ t # <<>> /\ Head(t) = f /\ Tail(t) = s
      /\ Len(t) = Len(s) + 1 /\ Len(s) \in Nat
      /\ t[1] = f
      /\ \A k \in 1 .. Len(s) : t[k + 1] = s[k]
  OBVIOUS
<1> HIDE DEF t
<1>2. \A k \in 1 .. Len(t) : k = 1 \/ (k - 1 \in 1 .. Len(s) /\ t[k] = s[k - 1])
  <2>1. TAKE k \in 1 .. Len(t)
  <2>2. CASE k # 1
    <3>1. k - 1 \in 1 .. Len(s) BY <2>2, <1>1
    <3>2. t[(k - 1) + 1] = s[k - 1] BY <3>1, <1>1
    <3> QED BY <3>1, <3>2
  <2> QED BY <2>2
<1>3. \A k \in 1 .. Len(s) : k + 1 \in 1 .. Len(t) /\ t[k + 1] = s[k]
  BY <1>1
<1>4. 1 \in 1 .. Len(t)
  BY <1>1
<1>5. \A p : ServedBy(t, p) <=> Serves(f, p) \/ ServedBy(s, p)
  <2>1. TAKE p
  <2>2. ASSUME ServedBy(t, p), ~Serves(f, p) PROVE ServedBy(s, p)
    <3>1. PICK k \in 1 .. Len(t) : Serves(t[k], p)
      BY <2>2 DEF ServedBy
    <3>2. k # 1
      BY <1>1, <2>2, <3>1
    <3>3. k - 1 \in 1 .. Len(s) /\ t[k] = s[k - 1]
      BY <1>2, <3>1, <3>2
    <3>4. Serves(s[k - 1], p)
      BY <3>1, <3>3
    <3> QED BY <3>3, <3>4 DEF ServedBy
  <2>3. ASSUME ServedBy(s, p) PROVE ServedBy(t, p)
    <3>1. PICK k \in 1 .. Len(s) : Serves(s[k], p)
      BY <2>3 DEF ServedBy
    <3>2. k + 1 \in 1 .. Len(t) /\ Serves(t[k + 1], p)
      BY <1>3, <3>1
    <3> QED BY <3>2 DEF ServedBy
  <2>4. ASSUME Serves(f, p) PROVE ServedBy(t, p)
    <3>1. Serves(t[1], p)
      BY <1>1, <2>4
    <3> QED BY <1>4, <3>1 DEF ServedBy
  <2> QED BY <2>2, <2>3, <2>4
<1>6. \A p : WantedBy(t, p) <=> Wants(f, p) \/ WantedBy(s, p)
  <2>1. TAKE p
  <2>2. ASSUME WantedBy(t, p), ~Wants(f, p) PROVE WantedBy(s, p)
    <3>1. PICK k \in 1 .. Len(t) : Wants(t[k], p)
      BY <2>2 DEF WantedBy
    <3>2. k # 1
      BY <1>1, <2>2, <3>1
    <3>3. k - 1 \in 1 .. Len(s) /\ t[k] = s[k - 1]
      BY <1>2, <3>1, <3>2
    <3>4. Wants(s[k - 1], p)
      BY <3>1, <3>3
    <3> QED BY <3>3, <3>4 DEF WantedBy
  <2>3. ASSUME WantedBy(s, p) PROVE WantedBy(t, p)
    <3>1. PICK k \in 1 .. Len(s) : Wants(s[k], p)
      BY <2>3 DEF WantedBy
    <3>2. k + 1 \in 1 .. Len(t) /\ Wants(t[k + 1], p)
      BY <1>3, <3>1
    <3> QED BY <3>2 DEF WantedBy
  <2>4. ASSUME Wants(f, p) PROVE WantedBy(t, p)
    <3>1. Wants(t[1], p)
      BY <1>1, <2>4
    <3> QED BY <1>4, <3>1 DEF WantedBy
  <2> QED BY <2>2, <2>3, <2>4
<1>7. \A i : GrantsTo(t, i) <=> (f.op = "acquire" /\ f.waiter = i) \/ GrantsTo(s, i)
  <2>1. TAKE i
  <2>2. ASSUME GrantsTo(t, i) PROVE (f.op = "acquire" /\ f.waiter = i) \/ GrantsTo(s, i)
    <3>1. PICK k \in 1 .. Len(t) : t[k].op = "acquire" /\ t[k].waiter = i
      BY <2>2 DEF GrantsTo
    <3>2. CASE k = 1
      BY <1>1, <3>1, <3>2
    <3>3. CASE k # 1
      <4>1. k - 1 \in 1 .. Len(s) /\ t[k] = s[k - 1]
        BY <1>2, <3>3
      <4> QED BY <3>1, <4>1 DEF GrantsTo
    <3> QED BY <3>2, <3>3
  <2>3. ASSUME GrantsTo(s, i) PROVE GrantsTo(t, i)
    <3>1. PICK k \in 1 .. Len(s) : s[k].op = "acquire" /\ s[k].waiter = i
      BY <2>3 DEF GrantsTo
    <3>2. k + 1 \in 1 .. Len(t) /\ t[k + 1] = s[k]
      BY <1>3, <3>1
    <3> QED BY <3>1, <3>2 DEF GrantsTo
  <2>4. ASSUME f.op = "acquire", f.waiter = i PROVE GrantsTo(t, i)
    BY <1>1, <1>4, <2>4 DEF GrantsTo
  <2> QED BY <2>2, <2>3, <2>4
<1>8. ASSUME Settled(s), f.op = "acquire" => f.at # "check", FromOutside(f) => s = <<>>
      PROVE  Settled(t)
  <2>1. SUFFICES ASSUME NEW k \in 1 .. Len(t), t[k].op = "acquire"
                 PROVE  t[k].at # "check" /\ (t[k].waiter = 0 => k = Len(t))
    BY DEF Settled
  <2>2. CASE k = 1
    <3>1. s = <<>> => Len(s) = 0
      OBVIOUS
    <3> QED BY <1>1, <1>8, <2>1, <2>2, <3>1 DEF FromOutside
  <2>3. CASE k # 1
    <3>1. k - 1 \in 1 .. Len(s) /\ t[k] = s[k - 1]
      BY <1>2, <2>3
    <3> QED BY <1>1, <1>8, <2>1, <3>1 DEF Settled
  <2> QED BY <2>2, <2>3
<1>9. (Settled(s) /\ (FromOutside(f) => s = <<>>)) => WellNested(t)
  BY <1>1 DEF WellNested
<1> QED BY <1>1, <1>5, <1>6, <1>7, <1>8, <1>9 DEF t

(* A settled stack is well nested, and the empty stack is settled. *)
LEMMA SettledNests ==
  /\ \A s \in Seq(Frame) : Settled(s) => WellNested(s)
  /\ <<>> \in Seq(Frame) /\ Settled(<<>>)
  /\ \A p : ~ServedBy(<<>>, p) /\ ~WantedBy(<<>>, p)
  /\ \A i : ~GrantsTo(<<>>, i)
<1>1. ASSUME NEW s \in Seq(Frame), Settled(s), s # <<>>
      PROVE  Settled(Tail(s)) /\ (FromOutside(Head(s)) => Tail(s) = <<>>)
  <2>1. /\ Len(Tail(s)) = Len(s) - 1 /\ Len(s) \in Nat /\ Len(s) >= 1
        /\ \A k \in 1 .. Len(Tail(s)) : Tail(s)[k] = s[k + 1]
        /\ Head(s) = s[1] /\ Tail(s) \in Seq(Frame)
    BY <1>1
  <2>2. \A k \in 1 .. Len(Tail(s)) : k + 1 \in 1 .. Len(s)
    BY <2>1
  <2>3. 1 \in 1 .. Len(s)
    BY <2>1
  <2>4. Settled(Tail(s))
    <3>1. SUFFICES ASSUME NEW k \in 1 .. Len(Tail(s)), Tail(s)[k].op = "acquire"
                   PROVE  Tail(s)[k].at # "check" /\ (Tail(s)[k].waiter = 0 => k = Len(Tail(s)))
      BY DEF Settled
    <3>2. k + 1 \in 1 .. Len(s) /\ Tail(s)[k] = s[k + 1]
      BY <2>1, <2>2
    <3>3. PICK m \in 1 .. Len(s) : m = k + 1
      BY <3>2
    <3>4. s[m].op = "acquire"
      BY <3>1, <3>2, <3>3
    <3>5. s[m].at # "check" /\ (s[m].waiter = 0 => m = Len(s))
      BY <1>1, <3>4 DEF Settled
    <3>6. Tail(s)[k] = s[m]
      BY <3>2, <3>3
    <3>7. m = Len(s) => k = Len(Tail(s))
      <4>1. PICK l \in Nat : l = Len(s)
        BY <2>1
      <4>2. Len(Tail(s)) = l - 1
        BY <2>1, <4>1
      <4>3. k \in 1 .. (l - 1)
        BY <4>2
      <4>4. m = k + 1
        BY <3>3
      <4>5. m = l => k = l - 1
        BY <4>3, <4>4
      <4> QED BY <4>1, <4>2, <4>5
    <3> QED BY <3>5, <3>6, <3>7
  <2>5. ASSUME FromOutside(Head(s)) PROVE Tail(s) = <<>>
    <3>1. s[1].op = "acquire" /\ s[1].waiter = 0
      BY <2>1, <2>5 DEF FromOutside
    <3>2. Len(s) = 1
      BY <1>1, <2>3, <3>1 DEF Settled
    <3>3. Len(Tail(s)) = 0
      BY <2>1, <3>2
    <3> QED BY <2>1, <3>3, EmptySeq
  <2> QED BY <2>4, <2>5
<1> QED BY <1>1 DEF WellNested, Settled, ServedBy, WantedBy, GrantsTo

(* A release comes to every queue: its grant frame has just made progress. *)
LEMMA AfterDeleteFacts ==
  ASSUME NEW s \in Seq(Frame), Settled(s)
  PROVE  LET t == AfterDelete \o s
         IN  /\ t \in Seq(Frame) /\ Settled(t) /\ WellNested(t)
             /\ \A p : ServedBy(t, p)
             /\ \A p : WantedBy(t, p) <=> WantedBy(s, p)
             /\ \A i : GrantsTo(t, i) <=> GrantsTo(s, i)
<1> DEFINE g == [op |-> "grant", cands |-> {}, progressed |-> TRUE]
           e == [op |-> "all"]
           u == <<g>> \o s
<1>1. g \in Frame /\ e \in Frame
  BY DEF Frame, GrantFrames, LoopFrames
<1>2. /\ g.op = "grant" /\ e.op = "all"
      /\ \A p : Serves(g, p) /\ ~Wants(g, p) /\ ~Wants(e, p)
  BY DEF Serves, Wants
<1>3. AfterDelete \o s = IF Listening THEN <<e>> \o u ELSE u
  BY DEF AfterDelete, Emit
<1> HIDE DEF g, e
<1>4. /\ u \in Seq(Frame) /\ Settled(u)
      /\ \A p : ServedBy(u, p)
      /\ \A p : WantedBy(u, p) <=> WantedBy(s, p)
      /\ \A i : GrantsTo(u, i) <=> GrantsTo(s, i)
  BY <1>1, <1>2, PushFacts DEF FromOutside
<1> HIDE DEF u
<1>5. /\ <<e>> \o u \in Seq(Frame) /\ Settled(<<e>> \o u)
      /\ \A p : ServedBy(<<e>> \o u, p)
      /\ \A p : WantedBy(<<e>> \o u, p) <=> WantedBy(s, p)
      /\ \A i : GrantsTo(<<e>> \o u, i) <=> GrantsTo(s, i)
  BY <1>1, <1>2, <1>4, PushFacts DEF FromOutside
<1> QED BY <1>3, <1>4, <1>5, SettledNests

(* The stack is the running frame on top of its callers. *)
LEMMA StackParts ==
  ASSUME FInv, stack # <<>>
  PROVE  /\ Top \in Frame /\ Callers \in Seq(Frame)
         /\ stack = <<Top>> \o Callers
         /\ Settled(Callers)
         /\ FromOutside(Top) => Callers = <<>>
         /\ \A p : ServedBy(stack, p) <=> Serves(Top, p) \/ ServedBy(Callers, p)
         /\ \A p : WantedBy(stack, p) <=> Wants(Top, p) \/ WantedBy(Callers, p)
         /\ \A i : GrantsTo(stack, i) <=>
                      (Top.op = "acquire" /\ Top.waiter = i) \/ GrantsTo(Callers, i)
         /\ ~(Top.op = "acquire" /\ Top.at = "check") => Settled(stack)
<1>1. Top \in Frame /\ Callers \in Seq(Frame)
  BY TopAndCallers DEF FInv, IInv
<1>2. stack = <<Top>> \o Callers
  BY DEF FInv, IInv, TypeOK, Top, Callers
<1>3. Settled(Callers) /\ (FromOutside(Top) => Callers = <<>>)
  BY DEF FInv, WellNested, Top, Callers
<1> HIDE DEF Top, Callers
<1> QED BY <1>1, <1>2, <1>3, PushFacts

(* A nonempty queue has a head. *)
LEMMA HeadExists ==
  ASSUME FInv, NEW w \in waiters
  PROVE  \E c \in QueueHeads : c.path = w.path
<1> DEFINE S == Queue(w.path)
           N == {MaxPriority - v.priority : v \in S}
<1>1. waiters \subseteq Waiter /\ w \in S /\ S \subseteq waiters
      /\ \A v \in S : v.path = w.path
  BY DEF FInv, IInv, TypeOK, Queue
<1>2. \A v \in S : v.priority \in 0 .. MaxPriority /\ v.id \in Nat
  BY <1>1 DEF Waiter, WaiterId, Priority
<1>3. PICK n \in N : \A m \in N : n <= m
  <2>1. N \subseteq Nat /\ N # {}
    BY <1>1, <1>2, BoundAssumption
  <2> HIDE DEF N
  <2> QED BY <2>1, Least
<1>4. PICK h \in S : n = MaxPriority - h.priority
  OBVIOUS
<1>5. \A v \in S : v.priority <= h.priority
  <2>1. TAKE v \in S
  <2>2. n <= MaxPriority - v.priority
    BY <1>3
  <2> QED BY <1>2, <1>4, <2>2, BoundAssumption
<1> DEFINE B == {v \in S : v.priority = h.priority}
           I == {v.id : v \in B}
<1>6. PICK i \in I : \A j \in I : i <= j
  <2>1. I \subseteq Nat /\ I # {}
    BY <1>2, <1>4
  <2> HIDE DEF I
  <2> QED BY <2>1, Least
<1>7. PICK c \in B : i = c.id
  OBVIOUS
<1>8. c \in waiters /\ c \in S /\ c.priority = h.priority /\ c.path = w.path
  BY <1>1, <1>7
<1>9. FirstIn(c, S)
  <2>1. SUFFICES ASSUME NEW v \in S \ {c} PROVE Ahead(c, v)
    BY DEF FirstIn
  <2>2. CASE v.priority = h.priority
    <3>1. c.id <= v.id
      BY <1>6, <1>7, <2>2
    <3>2. c.id # v.id
      BY <1>1, <1>8, <2>1 DEF FInv, Numbered
    <3> QED BY <1>2, <1>8, <2>2, <3>1, <3>2 DEF Ahead
  <2>3. CASE v.priority # h.priority
    BY <1>2, <1>5, <1>8, <2>3 DEF Ahead
  <2> QED BY <2>2, <2>3
<1>10. Queue(c.path) = S
  BY <1>8
<1> QED BY <1>8, <1>9, <1>10 DEF QueueHeads

(* What Claimed can do. *)
LEMMA ClaimedFinite ==
  /\ IsFiniteSet(Claimed) /\ Cardinality(Claimed) \in Nat
  /\ \A S \in SUBSET Claimed : IsFiniteSet(S) /\ Cardinality(S) \in Nat
                              /\ Cardinality(S) <= Cardinality(Claimed)
<1>1. Claimed \subseteq Path
  BY DEF Claimed
<1>2. IsFiniteSet(Claimed)
  BY <1>1, PathAssumption, FS_Subset
<1> QED BY <1>2, FS_Subset, FS_CardinalityType

(* A pending promise, in terms of the stack. *)
LEMMA Orphans ==
  ASSUME IInv
  PROVE  NoOrphan <=> \A i \in WaiterId : promise[i] = "pending" =>
                         (\E w \in waiters : w.id = i) \/ GrantsTo(stack, i)
<1>1. DOMAIN stack = 1 .. Len(stack)
  BY DEF IInv, TypeOK
<1> QED BY <1>1 DEF NoOrphan, GrantsTo

LEMMA OrphansNext ==
  ASSUME IInv'
  PROVE  NoOrphan' <=> \A i \in WaiterId : promise'[i] = "pending" =>
                          (\E w \in waiters' : w.id = i) \/ GrantsTo(stack', i)
<1>1. DOMAIN stack' = 1 .. Len(stack')
  BY DEF IInv, TypeOK
<1> QED BY <1>1 DEF NoOrphan, GrantsTo

(* A step that claims nothing more keeps the room. *)
LEMMA RoomKept ==
  ASSUME FInv, \A q \in Path : Claims(q)' => Claims(q)
  PROVE  Room'
<1>1. Claimed' \subseteq Claimed
  BY DEF Claimed
<1>2. Cardinality(Claimed') <= Cardinality(Claimed) /\ Cardinality(Claimed') \in Nat
      /\ Cardinality(Claimed) \in Nat
  BY <1>1, ClaimedFinite
<1> QED BY <1>2, BoundAssumption DEF FInv, Room

(* A step that leaves the queues and promises alone. *)
LEMMA Quiet ==
  ASSUME FInv, IInv', UNCHANGED <<waiters, waiterCounter, promise>>, WellNested(stack'),
         \A w \in waiters : w.path \in Held' \/ ServedBy(stack', w.path),
         \A q \in Path : q \in Held' \/ WantedBy(stack', q) => Claims(q),
         \A i \in WaiterId : GrantsTo(stack, i) => GrantsTo(stack', i)
  PROVE  FInv'
<1>1. Numbered' /\ Attended'
  BY DEF FInv, Numbered, Attended
<1>2. Room'
  <2>1. \A q \in Path : Claims(q)' => Claims(q)
    BY DEF Claims
  <2> QED BY <2>1, RoomKept
<1>3. NoOrphan'
  BY Orphans, OrphansNext DEF FInv
<1> QED BY <1>1, <1>2, <1>3 DEF FInv

(* A release, whichever call makes it. *)
LEMMA Releases ==
  ASSUME FInv, IInv', NEW p \in Path, NEW s \in Seq(Frame), Settled(s), ReleaseLock(p, s),
         UNCHANGED <<waiters, waiterCounter, promise>>,
         \A q \in Path : WantedBy(s, q) => Claims(q),
         \A i \in WaiterId : GrantsTo(stack, i) => GrantsTo(s, i)
  PROVE  FInv'
<1>1. stack' = AfterDelete \o s /\ locks' = [locks EXCEPT ![p] = Free]
  BY DEF ReleaseLock
<1>2. /\ WellNested(stack')
      /\ \A q : ServedBy(stack', q)
      /\ \A q : WantedBy(stack', q) <=> WantedBy(s, q)
      /\ \A i : GrantsTo(stack', i) <=> GrantsTo(s, i)
  BY <1>1, AfterDeleteFacts
<1>3. \A q \in Path : q \in Held' => q \in Held
  BY <1>1 DEF Held, FInv, IInv, TypeOK, Free
<1>4. \A q \in Path : q \in Held' \/ WantedBy(stack', q) => Claims(q)
  BY <1>2, <1>3 DEF Claims
<1> QED BY <1>2, <1>4, Quiet

(* A release by the running call, which then continues. *)
LEMMA ReleasesInside ==
  ASSUME FInv, IInv', NEW p \in Path, stack # <<>>, ReleaseLock(p, stack),
         ~(Top.op = "acquire" /\ Top.at = "check"),
         UNCHANGED <<waiters, waiterCounter, promise>>
  PROVE  FInv'
<1>1. stack \in Seq(Frame) /\ Settled(stack)
  BY StackParts DEF FInv, IInv, TypeOK
<1>2. \A q \in Path : WantedBy(stack, q) => Claims(q)
  BY DEF Claims
<1> QED BY <1>1, <1>2, Releases

(* The running call returns, with nothing more to take or to look at. *)
LEMMA Returns ==
  ASSUME FInv, IInv', stack # <<>>, stack' = Callers,
         UNCHANGED <<locks, waiters, waiterCounter, promise>>,
         Top.op # "acquire", \A p \in Path : ~Serves(Top, p)
  PROVE  FInv'
<1>1. Callers \in Seq(Frame) /\ Settled(Callers) /\ WellNested(Callers)
  BY StackParts, SettledNests
<1>2. \A w \in waiters : w.path \in Path
  BY DEF FInv, IInv, TypeOK, Waiter
<1>3. \A w \in waiters : w.path \in Held' \/ ServedBy(stack', w.path)
  BY <1>2, StackParts DEF FInv, Attended, Held
<1>4. \A q \in Path : q \in Held' \/ WantedBy(stack', q) => Claims(q)
  BY StackParts DEF Claims, Held
<1>5. \A i \in WaiterId : GrantsTo(stack, i) => GrantsTo(stack', i)
  BY StackParts
<1> QED BY <1>1, <1>3, <1>4, <1>5, Quiet

(* The running call goes on as f. *)
LEMMA GoesOn ==
  ASSUME FInv, IInv', stack # <<>>, NEW f \in Frame, stack' = Continue(f),
         UNCHANGED <<locks, waiters, waiterCounter, promise>>,
         FromOutside(f) => FromOutside(Top),
         \A p \in Path : Serves(Top, p) => p \in Held \/ Serves(f, p),
         \A p \in Path : Wants(f, p) => Claims(p),
         \A i \in WaiterId : (Top.op = "acquire" /\ Top.waiter = i)
                               => (f.op = "acquire" /\ f.waiter = i)
  PROVE  FInv'
<1>1. /\ WellNested(stack')
      /\ \A p : ServedBy(stack', p) <=> Serves(f, p) \/ ServedBy(Callers, p)
      /\ \A p : WantedBy(stack', p) <=> Wants(f, p) \/ WantedBy(Callers, p)
      /\ \A i : GrantsTo(stack', i) <=> (f.op = "acquire" /\ f.waiter = i) \/ GrantsTo(Callers, i)
  BY StackParts, PushFacts DEF Continue
<1>2. \A w \in waiters : w.path \in Path
  BY DEF FInv, IInv, TypeOK, Waiter
<1>3. \A w \in waiters : w.path \in Held' \/ ServedBy(stack', w.path)
  BY <1>1, <1>2, StackParts DEF FInv, Attended, Held
<1>4. \A q \in Path : q \in Held' \/ WantedBy(stack', q) => Claims(q)
  BY <1>1, StackParts DEF Claims, Held
<1>5. \A i \in WaiterId : GrantsTo(stack, i) => GrantsTo(stack', i)
  BY <1>1, StackParts
<1> QED BY <1>1, <1>3, <1>4, <1>5, Quiet

(* A call ends without the lock: the path it asked for is taken. *)
LEMMA Denies ==
  ASSUME FInv, IInv', stack # <<>>, Top.op = "acquire", Top.at # "return",
         Top.path \in Held, Deny(Top)
  PROVE  FInv'
<1>1. Top \in AcquireFrames
  BY StackParts, FrameKinds
<1>2. Callers \in Seq(Frame) /\ Settled(Callers) /\ WellNested(Callers)
  BY StackParts, SettledNests
<1>3. stack' = Callers /\ UNCHANGED <<locks, tokenCounter, expiryTimer>> /\ Held' = Held
  BY DEF Deny, Held
<1>4. WellNested(stack')
  BY <1>2, <1>3
<1>5. \A w \in waiters : w.path \in Path
  BY DEF FInv, IInv, TypeOK, Waiter
<1>6. \A w \in waiters : w.path \in Held \/ ServedBy(Callers, w.path)
  <2>1. TAKE w \in waiters
  <2>2. Serves(Top, w.path) => w.path = Top.path
    BY DEF Serves
  <2> QED BY <2>2, StackParts DEF FInv, Attended
<1>7. \A q \in Path : WantedBy(Callers, q) => Claims(q)
  BY StackParts DEF Claims
<1>8. promise \in [WaiterId -> Outcome] /\ waiterCounter \in 0 .. WaiterBound
  BY DEF FInv, IInv, TypeOK
<1>9. CASE UNCHANGED <<waiters, waiterCounter>>
  <2>1. Numbered' /\ Attended'
    BY <1>3, <1>6, <1>9 DEF Numbered, Attended, FInv
  <2>2. \A q \in Path : Claims(q)' => Claims(q)
    BY <1>3, <1>7, <1>9 DEF Claims
  <2>3. \A i \in WaiterId : promise'[i] = "pending" =>
           (\E w \in waiters' : w.id = i) \/ GrantsTo(stack', i)
    <3>1. SUFFICES ASSUME NEW i \in WaiterId, promise'[i] = "pending"
                   PROVE  (\E w \in waiters : w.id = i) \/ GrantsTo(Callers, i)
      BY <1>3, <1>9
    <3>4. waiterCounter' # waiterCounter + 1
      BY <1>8, <1>9
    <3>2. promise[i] = "pending"
      BY <1>8, <3>1, <3>4 DEF Deny
    <3>3. ASSUME Top.waiter = i PROVE FALSE
      <4>1. Top.waiter # 0 /\ promise' = [promise EXCEPT ![Top.waiter] = "denied"]
        BY <1>9, <3>2, <3>3, <1>8 DEF Deny, WaiterId
      <4> QED BY <1>8, <3>1, <3>3, <4>1
    <3> QED BY <3>2, <3>3, Orphans, StackParts DEF FInv
  <2> QED BY <1>4, <2>1, <2>2, <2>3, RoomKept, OrphansNext DEF FInv
<1>10. CASE /\ Top.waiter = 0 /\ Top.wait /\ Cardinality(waiters) < MaxWaiters
            /\ waiterCounter' = waiterCounter + 1
            /\ waiters' = waiters \cup
                 {[id |-> waiterCounter', path |-> Top.path, holder |-> Top.holder,
                   priority |-> Top.priority]}
            /\ promise' = [promise EXCEPT ![waiterCounter'] = "pending"]
  <2> DEFINE n == [id |-> waiterCounter', path |-> Top.path, holder |-> Top.holder,
                   priority |-> Top.priority]
  <2>1. n.id = waiterCounter + 1 /\ n.path = Top.path /\ waiters' = waiters \cup {n}
        /\ n.id = waiterCounter'
    BY <1>10
  <2> HIDE DEF n
  <2>2. \A v \in waiters : v.id <= waiterCounter /\ v.id \in Nat
    BY DEF FInv, Numbered, IInv, TypeOK, Waiter, WaiterId
  <2>3. Numbered'
    <3>1. \A v \in waiters' : v.id <= waiterCounter'
      BY <1>8, <2>1, <2>2
    <3>2. \A v \in waiters : v.id # n.id
      BY <1>8, <2>1, <2>2
    <3>3. \A v, w \in waiters' : v.id = w.id => v = w
      BY <2>1, <3>2 DEF FInv, Numbered
    <3> QED BY <3>1, <3>3 DEF Numbered
  <2>4. Attended'
    BY <1>3, <1>6, <2>1 DEF Attended
  <2>5. \A q \in Path : Claims(q)' => Claims(q)
    <3>1. \A q \in Path : Claims(q) <=> q \in Held \/ (\E w \in waiters : w.path = q) \/ WantedBy(stack, q)
      BY DEF Claims
    <3>2. \A q \in Path : Claims(q)' <=> q \in Held \/ (\E w \in waiters' : w.path = q) \/ WantedBy(Callers, q)
      BY <1>3 DEF Claims
    <3> QED BY <1>7, <2>1, <3>1, <3>2
  <2>6. \A i \in WaiterId : promise'[i] = "pending" =>
           (\E w \in waiters' : w.id = i) \/ GrantsTo(stack', i)
    <3>1. TAKE i \in WaiterId
    <3>2. CASE i = n.id
      BY <2>1, <3>2
    <3>3. CASE i # n.id
      <4>1. promise'[i] = promise[i]
        BY <1>8, <1>10, <2>1, <3>3
      <4>2. Top.waiter # i
        BY <1>10 DEF WaiterId
      <4> QED BY <1>3, <2>1, <4>1, <4>2, Orphans, StackParts DEF FInv
    <3> QED BY <3>2, <3>3
  <2> QED BY <1>4, <2>3, <2>4, <2>5, <2>6, RoomKept, OrphansNext DEF FInv
<1> QED BY <1>9, <1>10 DEF Deny

(* A call from outside that only starts. *)
LEMMA Starts ==
  ASSUME FInv, IInv', stack = <<>>, NEW f \in Frame, stack' = <<f>> \o <<>>,
         UNCHANGED <<locks, waiters, waiterCounter, promise>>,
         \A p \in Path : ~Wants(f, p)
  PROVE  FInv'
<1>1. \A w \in waiters : w.path \in Held'
  BY SettledNests DEF FInv, Attended, Held
<1>2. WellNested(stack') /\ \A p : WantedBy(stack', p) <=> Wants(f, p) \/ WantedBy(<<>>, p)
  BY SettledNests, PushFacts
<1>3. \A q \in Path : q \in Held' \/ WantedBy(stack', q) => Claims(q)
  BY <1>2, SettledNests DEF Claims, Held
<1>4. \A i \in WaiterId : ~GrantsTo(stack, i)
  BY SettledNests
<1> QED BY <1>1, <1>2, <1>3, <1>4, Quiet

(* The calls from outside and the timers. *)
LEMMA FilesExternal == ASSUME FInv, IInv', External PROVE FInv'
<1>1. ASSUME NEW p \in Path, NEW h \in Holder, NEW wait \in BOOLEAN,
             NEW n \in Requested, Acquire(p, h, wait, n)
      PROVE  FInv'
  <2> DEFINE f == AcquireFrame(p, h, wait, Clamp(n), 0)
  <2>1. f \in Frame /\ \A q : ~Wants(f, q)
    BY BoundAssumption
    DEF Frame, AcquireFrames, AcquireFrame, Clamp, Priority, Wants
  <2>2. stack = <<>> /\ stack' = <<f>> /\ UNCHANGED <<locks, waiters, waiterCounter, promise>>
    BY <1>1 DEF Acquire, Idle
  <2> HIDE DEF f
  <2>3. stack' = <<f>> \o <<>>
    BY <2>1, <2>2
  <2> QED BY <2>1, <2>2, <2>3, Starts
<1>2. ASSUME NEW p \in Path, ReleaseLock(p, <<>>), stack = <<>>,
             UNCHANGED <<waiters, waiterCounter, promise>>
      PROVE  FInv'
  BY <1>2, SettledNests, Releases
<1>3. ASSUME NEW p \in Path, NEW h \in Holder, NEW force \in BOOLEAN, Release(p, h, force)
      PROVE  FInv'
  BY <1>2, <1>3 DEF Release, Idle
<1>4. ASSUME NEW p \in Path, GetLockExpired(p)
      PROVE  FInv'
  BY <1>2, <1>4 DEF GetLockExpired, Idle
<1>5. ASSUME NEW p \in Path, NEW h \in Holder \cup {NoHolder}, Query(p, h)
      PROVE  FInv'
  <2> DEFINE f == [op |-> "scan", path |-> p, holder |-> h]
  <2>1. f \in Frame /\ \A q : ~Wants(f, q)
    BY DEF Frame, ScanFrames, Wants
  <2>2. stack = <<>> /\ stack' = <<f>> /\ UNCHANGED <<locks, waiters, waiterCounter, promise>>
    BY <1>5 DEF Query, Idle
  <2> HIDE DEF f
  <2>3. stack' = <<f>> \o <<>>
    BY <2>1, <2>2
  <2> QED BY <2>1, <2>2, <2>3, Starts
<1>6. CASE GetAll
  <2> DEFINE f == [op |-> "all"]
  <2>1. f \in Frame /\ \A q : ~Wants(f, q)
    BY DEF Frame, LoopFrames, Wants
  <2>2. stack = <<>> /\ stack' = <<f>> /\ UNCHANGED <<locks, waiters, waiterCounter, promise>>
    BY <1>6 DEF GetAll, Idle
  <2> HIDE DEF f
  <2>3. stack' = <<f>> \o <<>>
    BY <2>1, <2>2
  <2> QED BY <2>1, <2>2, <2>3, Starts
<1>7. CASE StartExpiryCheck \/ StopExpiryCheck
  <2>1. UNCHANGED <<locks, waiters, waiterCounter, promise, stack>>
    BY <1>7 DEF StartExpiryCheck, StopExpiryCheck
  <2> QED BY <2>1 DEF FInv, Numbered, Attended, NoOrphan, Room, Claimed, Claims, Held
<1>8. CASE Dispose
  <2>1. /\ stack = <<>> /\ stack' = <<>> /\ waiters' = {}
        /\ locks' = [p \in Path |-> Free]
        /\ promise' = [i \in WaiterId |->
             IF \E w \in waiters : w.id = i THEN "disposed" ELSE promise[i]]
    BY <1>8 DEF Dispose, Idle
  <2>2. Held' = {}
    BY <2>1 DEF Held, Free
  <2>3. \A q \in Path : Claims(q)' => Claims(q)
    BY <2>1, <2>2, SettledNests DEF Claims
  <2>4. \A i \in WaiterId : promise'[i] # "pending"
    <3>1. TAKE i \in WaiterId
    <3>2. promise[i] = "pending" => \E w \in waiters : w.id = i
      BY <2>1, Orphans, SettledNests DEF FInv
    <3> QED BY <2>1, <3>2
  <2>5. WellNested(stack') /\ Numbered' /\ Attended'
    BY <2>1 DEF WellNested, Numbered, Attended
  <2> QED BY <2>3, <2>4, <2>5, RoomKept, OrphansNext DEF FInv
<1> QED BY <1>1, <1>3, <1>4, <1>5, <1>6, <1>7, <1>8 DEF External

LEMMA FilesTimer == ASSUME FInv, IInv', Timers PROVE FInv'
<1>1. CASE ExpiryTick
  <2> DEFINE f == [op |-> "clean"]
  <2>1. f \in Frame /\ \A q : ~Wants(f, q)
    BY DEF Frame, LoopFrames, Wants
  <2>2. stack = <<>> /\ stack' = <<f>> /\ UNCHANGED <<locks, waiters, waiterCounter, promise>>
    BY <1>1 DEF ExpiryTick, Idle
  <2> HIDE DEF f
  <2>3. stack' = <<f>> \o <<>>
    BY <2>1, <2>2
  <2> QED BY <2>1, <2>2, <2>3, Starts
<1>2. ASSUME NEW w \in waiters, WaiterTimeout(w)
      PROVE  FInv'
  <2>1. /\ stack = <<>> /\ waiters' = waiters \ {w}
        /\ promise' = [promise EXCEPT ![w.id] = "timedOut"]
        /\ UNCHANGED <<locks, waiterCounter, stack>> /\ Held' = Held
    BY <1>2 DEF WaiterTimeout, Idle, Held
  <2>2. promise \in [WaiterId -> Outcome]
    BY DEF FInv, IInv, TypeOK
  <2>3. \A q \in Path : Claims(q)' => Claims(q)
    BY <2>1 DEF Claims
  <2>4. Numbered' /\ Attended'
    BY <2>1 DEF Numbered, Attended, FInv
  <2>5. \A i \in WaiterId : promise'[i] = "pending" =>
           (\E v \in waiters' : v.id = i) \/ GrantsTo(stack', i)
    <3>1. SUFFICES ASSUME NEW i \in WaiterId, promise'[i] = "pending"
                   PROVE  \E v \in waiters' : v.id = i
      OBVIOUS
    <3>2. i # w.id /\ promise[i] = "pending"
      BY <2>1, <2>2, <3>1
    <3>3. PICK v \in waiters : v.id = i
      BY <2>1, <3>2, Orphans, SettledNests DEF FInv
    <3> QED BY <2>1, <3>2, <3>3
  <2> QED BY <2>1, <2>3, <2>4, <2>5, RoomKept, OrphansNext DEF FInv
<1>3. ASSUME NEW p \in Path, LeaseRunsOut(p)
      PROVE  FInv'
  <2>1. locks' = [locks EXCEPT ![p].expired = TRUE]
        /\ UNCHANGED <<waiters, waiterCounter, promise, stack>>
    BY <1>3 DEF LeaseRunsOut
  <2>2. Held' = Held
    <3>1. locks \in [Path -> Lock \cup {Free}] /\ locks[p] \in Lock
      BY <1>3 DEF LeaseRunsOut, Live, Held, FInv, IInv, TypeOK, Free
    <3>2. \A q \in Path : locks'[q].holder = locks[q].holder
      BY <2>1, <3>1 DEF Lock
    <3> QED BY <3>2 DEF Held
  <2> QED BY <2>1, <2>2 DEF FInv, Numbered, Attended, NoOrphan, Room, Claimed, Claims
<1> QED BY <1>1, <1>2, <1>3 DEF Timers

(* The first test of acquire. *)
LEMMA FilesThrow == ASSUME FInv, IInv', AcquireThrows PROVE FInv'
<1>1. /\ stack # <<>> /\ Top.op = "acquire" /\ Top.at = "check" /\ Top.path \notin Held /\ Full
      /\ stack' = <<>> /\ UNCHANGED <<locks, waiters, waiterCounter, promise>>
  BY DEF AcquireThrows, Running, Top
<1>2. Top \in AcquireFrames
  BY <1>1, StackParts, FrameKinds
<1>3. Top.waiter = 0
  <2>1. SUFFICES ASSUME Top.waiter # 0 PROVE FALSE
    OBVIOUS
  <2>2. Wants(Top, Top.path)
    BY <1>1, <2>1 DEF Wants
  <2>3. Top.path \in Claimed
    BY <1>1, <1>2, <2>2, StackParts DEF Claimed, Claims, AcquireFrames
  <2>4. Held \cup {Top.path} \in SUBSET Claimed
    BY <2>3 DEF Claimed, Claims, Held
  <2>5. /\ IsFiniteSet(Held) /\ Cardinality(Held) \in Nat
        /\ Cardinality(Held \cup {Top.path}) <= Cardinality(Claimed)
        /\ Cardinality(Claimed) \in Nat
    <3>1. Held \in SUBSET Claimed
      BY <2>4
    <3> QED BY <2>4, <3>1, ClaimedFinite
  <2>6. Cardinality(Held \cup {Top.path}) = Cardinality(Held) + 1
    BY <1>1, <2>5, FS_AddElement
  <2> QED BY <1>1, <2>5, <2>6, BoundAssumption DEF Full, FInv, Room
<1>4. Callers = <<>>
  BY <1>1, <1>3, StackParts DEF FromOutside
<1>5. \A w \in waiters : w.path \in Held'
  <2>1. \A q : ~Serves(Top, q)
    BY <1>1, <1>3 DEF Serves
  <2> QED BY <1>1, <1>4, <2>1, StackParts, SettledNests DEF FInv, Attended, Held
<1>6. \A i \in WaiterId : ~GrantsTo(stack, i)
  <2>1. 0 \notin WaiterId
    BY DEF WaiterId
  <2> QED BY <1>1, <1>3, <1>4, <2>1, StackParts, SettledNests
<1>7. WellNested(stack') /\ \A q \in Path : q \in Held' \/ WantedBy(stack', q) => Claims(q)
  BY <1>1, SettledNests DEF Claims, Held
<1> QED BY <1>1, <1>5, <1>6, <1>7, Quiet

(* A call from outside passes the first test: its path still fits. *)
LEMMA FirstTestPassed ==
  ASSUME FInv, IInv', stack # <<>>, Top \in AcquireFrames, Top.at = "check", Top.waiter = 0,
         Top.path \in Held \/ ~Full,
         stack' = Continue([Top EXCEPT !.at = "scan"]),
         UNCHANGED <<locks, waiters, waiterCounter, tokenCounter, promise, expiryTimer>>
  PROVE  FInv'
<1> DEFINE f == [Top EXCEPT !.at = "scan"]
<1>1. f \in Frame /\ f.op = "acquire" /\ f.waiter = 0 /\ f.at = "scan" /\ f.path = Top.path
      /\ Top.op = "acquire" /\ Top.path \in Path
  BY DEF AcquireFrames, Frame
<1>2. stack' = <<f>> \o Callers
  BY DEF Continue
<1> HIDE DEF f
<1>3. Callers = <<>>
  BY <1>1, StackParts DEF FromOutside
<1>4. /\ WellNested(stack')
      /\ \A p : ServedBy(stack', p) <=> Serves(f, p)
      /\ \A p : WantedBy(stack', p) <=> Wants(f, p)
  <2>1. stack' = <<f>> \o <<>>
    BY <1>2, <1>3
  <2>2. LET t == <<f>> \o <<>>
        IN  /\ \A p : ServedBy(t, p) <=> Serves(f, p) \/ ServedBy(<<>>, p)
            /\ \A p : WantedBy(t, p) <=> Wants(f, p) \/ WantedBy(<<>>, p)
            /\ WellNested(t)
    BY <1>1, PushFacts, SettledNests
  <2> QED BY <2>1, <2>2, SettledNests
<1>5. \A w \in waiters : w.path \in Held
  <2>1. \A q : ~Serves(Top, q)
    BY <1>1 DEF Serves
  <2> QED BY <1>3, <2>1, StackParts, SettledNests DEF FInv, Attended
<1>6. Numbered' /\ Attended' /\ Held' = Held
  BY <1>5 DEF Numbered, Attended, Held, FInv
<1>7. \A i \in WaiterId : ~GrantsTo(stack, i)
  <2>1. 0 \notin WaiterId
    BY DEF WaiterId
  <2> QED BY <1>1, <1>3, <2>1, StackParts, SettledNests
<1>8. NoOrphan'
  BY <1>7, Orphans, OrphansNext DEF FInv
<1>9. \A q \in Path : Claims(q)' => q \in Held \cup {Top.path}
  <2>1. \A q : Wants(f, q) => q = Top.path
    BY <1>1 DEF Wants
  <2> QED BY <1>4, <1>5, <1>6, <2>1 DEF Claims
<1>10. Room'
  <2>1. CASE Top.path \in Held
    <3>1. \A q \in Path : Claims(q)' => Claims(q)
      BY <1>9, <2>1 DEF Claims
    <3> QED BY <3>1, RoomKept
  <2>2. CASE Top.path \notin Held
    <3>1. Claimed' \subseteq Held \cup {Top.path}
      BY <1>9 DEF Claimed
    <3>2. IsFiniteSet(Held) /\ Cardinality(Held) \in Nat
      <4>1. Held \subseteq Claimed
        BY DEF Claimed, Claims, Held
      <4> QED BY <4>1, ClaimedFinite
    <3>3. /\ IsFiniteSet(Held \cup {Top.path})
          /\ Cardinality(Held \cup {Top.path}) = Cardinality(Held) + 1
      BY <2>2, <3>2, FS_AddElement
    <3>4. Cardinality(Claimed') <= Cardinality(Held) + 1 /\ Cardinality(Claimed') \in Nat
      BY <3>1, <3>3, FS_Subset, FS_CardinalityType
    <3>5. Cardinality(Held) < MaxLocks
      BY <2>2, <3>2, BoundAssumption DEF Full
    <3> QED BY <3>2, <3>4, <3>5, BoundAssumption DEF Room
  <2> QED BY <2>1, <2>2
<1> QED BY <1>4, <1>6, <1>8, <1>10 DEF FInv

(* The stages of acquire. *)
LEMMA FilesAcquire ==
  ASSUME OnFiles, FInv, IInv',
         \/ AcquireCheck \/ AcquireRecheck \/ AcquireReleasesExpired
         \/ AcquireFindsConflict \/ AcquireGrants \/ AcquireReturns
  PROVE  FInv'
<1>1. stack # <<>> /\ Top.op = "acquire" /\ Top \in AcquireFrames /\ Top.path \in Path
  <2>1. stack # <<>> /\ Top.op = "acquire"
    BY DEF Running, Top, AcquireCheck, AcquireRecheck, AcquireReleasesExpired,
           AcquireFindsConflict, AcquireGrants, AcquireReturns
  <2>2. Top \in AcquireFrames
    BY <2>1, StackParts, FrameKinds
  <2> QED BY <2>1, <2>2 DEF AcquireFrames
<1>2. ASSUME NEW x \in {"recheck", "scan", "return"}
      PROVE  LET f == [Top EXCEPT !.at = x]
             IN  /\ f \in Frame /\ f.op = "acquire" /\ f.waiter = Top.waiter
                 /\ f.path = Top.path /\ f.at = x
  BY <1>1 DEF AcquireFrames, Frame
<1>3. \A h : \A q \in Foreign(h) : q \in Held
  BY DEF Foreign
<1>4. ASSUME NEW x \in {"recheck", "scan"}, Top.at # "return",
             Top.at # "check" \/ Top.waiter # 0,
             stack' = Continue([Top EXCEPT !.at = x]),
             UNCHANGED <<locks, waiters, waiterCounter, tokenCounter, promise, expiryTimer>>
      PROVE  FInv'
  <2> DEFINE f == [Top EXCEPT !.at = x]
  <2>1. f \in Frame /\ f.op = "acquire" /\ f.waiter = Top.waiter /\ f.path = Top.path /\ f.at = x
    BY <1>2
  <2> HIDE DEF f
  <2>2. stack' = Continue(f)
    BY <1>4 DEF f
  <2>3. \A p : Serves(Top, p) => Serves(f, p)
    BY <1>1, <1>4, <2>1 DEF Serves
  <2>4. \A p \in Path : Wants(f, p) => Claims(p)
    <3>1. \A p : Wants(f, p) => Wants(Top, p)
      BY <1>1, <1>4, <2>1 DEF Wants
    <3> QED BY <1>1, <3>1, StackParts DEF Claims
  <2>5. FromOutside(f) => FromOutside(Top)
    BY <1>1, <2>1 DEF FromOutside
  <2> QED BY <1>1, <1>4, <2>1, <2>2, <2>3, <2>4, <2>5, GoesOn
<1>5. CASE AcquireCheck
  <2>1. Top.at = "check" /\ (Top.path \in Held \/ ~Full)
    BY <1>5 DEF AcquireCheck
  <2>2. CASE /\ stack' = Continue([Top EXCEPT !.at = "scan"])
             /\ UNCHANGED <<locks, waiters, waiterCounter, tokenCounter, promise, expiryTimer>>
    <3>1. CASE Top.waiter = 0
      BY <1>1, <2>1, <2>2, <3>1, FirstTestPassed
    <3>2. CASE Top.waiter # 0
      BY <1>4, <2>1, <2>2, <3>2
    <3> QED BY <3>1, <3>2
  <2>3. CASE /\ Top.path \in Stale(Top.holder)
             /\ ReleaseLock(Top.path, Continue([Top EXCEPT !.at = "recheck"]))
             /\ UNCHANGED <<waiters, waiterCounter, tokenCounter, promise, expiryTimer>>
    <3> DEFINE f == [Top EXCEPT !.at = "recheck"]
    <3>1. f \in Frame /\ f.op = "acquire" /\ f.waiter = Top.waiter /\ f.path = Top.path
          /\ f.at = "recheck"
      BY <1>2
    <3>2. Top.path \in Held
      BY <1>3, <2>3 DEF Stale
    <3> HIDE DEF f
    <3> DEFINE s == <<f>> \o Callers
    <3>3. ReleaseLock(Top.path, s)
      BY <2>3 DEF f, Continue
    <3>4. FromOutside(f) => FromOutside(Top)
      BY <1>1, <3>1 DEF FromOutside
    <3>5. /\ s \in Seq(Frame) /\ Settled(s)
          /\ \A p : WantedBy(s, p) <=> Wants(f, p) \/ WantedBy(Callers, p)
          /\ \A i : GrantsTo(s, i) <=> (f.op = "acquire" /\ f.waiter = i) \/ GrantsTo(Callers, i)
      BY <1>1, <3>1, <3>4, StackParts, PushFacts
    <3> HIDE DEF s
    <3>6. \A q \in Path : WantedBy(s, q) => Claims(q)
      <4>1. \A q : Wants(f, q) => q = Top.path
        BY <3>1 DEF Wants
      <4> QED BY <1>1, <3>2, <3>5, <4>1, StackParts DEF Claims
    <3>7. \A i \in WaiterId : GrantsTo(stack, i) => GrantsTo(s, i)
      BY <1>1, <3>1, <3>5, StackParts
    <3> QED BY <1>1, <2>3, <3>3, <3>5, <3>6, <3>7, Releases
  <2>4. CASE Top.path \in Foreign(Top.holder) /\ Deny(Top)
    BY <1>1, <1>3, <2>1, <2>4, Denies
  <2> QED BY <1>5, <2>2, <2>3, <2>4 DEF AcquireCheck
<1>6. CASE AcquireRecheck
  <2>1. Top.at = "recheck"
    BY <1>6 DEF AcquireRecheck
  <2>2. CASE Top.path \in Foreign(Top.holder) /\ Deny(Top)
    BY <1>1, <1>3, <2>1, <2>2, Denies
  <2>3. CASE /\ stack' = Continue([Top EXCEPT !.at = "scan"])
             /\ UNCHANGED <<locks, waiters, waiterCounter, tokenCounter, promise, expiryTimer>>
    BY <1>4, <2>1, <2>3
  <2> QED BY <1>6, <2>2, <2>3 DEF AcquireRecheck
<1>7. CASE AcquireReleasesExpired
  <2>1. PICK q \in Stale(Top.holder) : ReleaseLock(q, stack)
    BY <1>7 DEF AcquireReleasesExpired
  <2>2. q \in Path
    BY DEF Stale, Foreign, Held
  <2>3. Top.at = "scan" /\ UNCHANGED <<waiters, waiterCounter, promise>>
    BY <1>7 DEF AcquireReleasesExpired
  <2> QED BY <1>1, <2>1, <2>2, <2>3, ReleasesInside
<1>8. CASE AcquireFindsConflict
  <2>1. PICK q \in Foreign(Top.holder) : <<Top.path, q>> \in Conflict
    BY <1>8 DEF AcquireFindsConflict, Blocking
  <2>2. q = Top.path
    BY <1>1, <2>1 DEF OnFiles, Foreign, Held
  <2>3. Top.at = "scan" /\ Deny(Top) /\ Top.path \in Held
    BY <1>3, <1>8, <2>1, <2>2 DEF AcquireFindsConflict
  <2> QED BY <1>1, <2>3, Denies
<1>9. CASE AcquireGrants
  <2> DEFINE f == [Top EXCEPT !.at = "return"]
             e == [op |-> "all"]
  <2>1. f \in Frame /\ f.op = "acquire" /\ f.waiter = Top.waiter /\ f.path = Top.path
        /\ f.at = "return"
    BY <1>2
  <2>2. e \in Frame /\ e.op = "all" /\ \A p : ~Wants(e, p)
    BY DEF Frame, LoopFrames, Wants
  <2>3. stack' = Emit \o (<<f>> \o Callers) /\ UNCHANGED <<waiters, waiterCounter, promise>>
        /\ Top.at = "scan"
    BY <1>9 DEF AcquireGrants, Continue
  <2> HIDE DEF f
  <2> DEFINE s == <<f>> \o Callers
  <2>4. FromOutside(f) => FromOutside(Top)
    BY <1>1, <2>1 DEF FromOutside
  <2>5. /\ s \in Seq(Frame) /\ Settled(s) /\ WellNested(s)
        /\ \A p : ServedBy(s, p) <=> Serves(f, p) \/ ServedBy(Callers, p)
        /\ \A p : WantedBy(s, p) <=> Wants(f, p) \/ WantedBy(Callers, p)
        /\ \A i : GrantsTo(s, i) <=> (f.op = "acquire" /\ f.waiter = i) \/ GrantsTo(Callers, i)
    BY <1>1, <2>1, <2>4, StackParts, PushFacts
  <2>6. stack' = IF Listening THEN <<e>> \o s ELSE s
    BY <2>3, <2>5 DEF Emit
  <2> HIDE DEF s, e
  <2>7. /\ WellNested(stack')
        /\ \A p : ServedBy(s, p) => ServedBy(stack', p)
        /\ \A p : WantedBy(stack', p) <=> WantedBy(s, p)
        /\ \A i : GrantsTo(stack', i) <=> GrantsTo(s, i)
    BY <2>2, <2>5, <2>6, PushFacts DEF FromOutside
  <2>8. Held' = Held \cup {Top.path}
    <3>1. locks \in [Path -> Lock \cup {Free}] /\ Top.holder \in Holder
      BY <1>1 DEF FInv, IInv, TypeOK, AcquireFrames
    <3>2. /\ \A q \in Path : q # Top.path => locks'[q] = locks[q]
          /\ locks'[Top.path].holder = Top.holder
      BY <1>1, <1>9, <3>1 DEF AcquireGrants
    <3>3. Top.holder # NoHolder
      BY <3>1, HolderAssumption
    <3> QED BY <1>1, <3>2, <3>3 DEF Held
  <2>9. \A w \in waiters : w.path \in Held' \/ ServedBy(stack', w.path)
    <3>1. TAKE w \in waiters
    <3>2. Serves(Top, w.path) => w.path = Top.path
      BY <1>1 DEF Serves
    <3> QED BY <1>1, <2>5, <2>7, <2>8, <3>2, StackParts DEF FInv, Attended
  <2>10. \A q \in Path : q \in Held' \/ WantedBy(stack', q) => Claims(q)
    <3>1. Wants(Top, Top.path)
      BY <1>1, <2>3 DEF Wants
    <3>2. \A q : Wants(f, q) => q = Top.path
      BY <2>1 DEF Wants
    <3> QED BY <1>1, <2>5, <2>7, <2>8, <3>1, <3>2, StackParts DEF Claims
  <2>11. \A i \in WaiterId : GrantsTo(stack, i) => GrantsTo(stack', i)
    BY <1>1, <2>1, <2>5, <2>7, StackParts
  <2> QED BY <2>3, <2>7, <2>9, <2>10, <2>11, Quiet
<1>10. CASE AcquireReturns
  <2>1. /\ Top.at = "return" /\ stack' = Callers
        /\ promise' = [i \in WaiterId |->
             IF i = Top.waiter /\ promise[i] = "pending" THEN "granted" ELSE promise[i]]
        /\ UNCHANGED <<locks, waiters, waiterCounter>> /\ Held' = Held
    BY <1>10 DEF AcquireReturns, Held
  <2>2. Callers \in Seq(Frame) /\ Settled(Callers) /\ WellNested(Callers)
    BY <1>1, StackParts, SettledNests
  <2>3. \A p : ~Serves(Top, p)
    BY <1>1, <2>1 DEF Serves
  <2>4. Numbered' /\ Attended'
    BY <1>1, <2>1, <2>3, StackParts DEF Numbered, Attended, FInv
  <2>5. \A q \in Path : Claims(q)' => Claims(q)
    BY <1>1, <2>1, StackParts DEF Claims
  <2>6. \A i \in WaiterId : promise'[i] = "pending" =>
           (\E w \in waiters' : w.id = i) \/ GrantsTo(stack', i)
    <3>1. SUFFICES ASSUME NEW i \in WaiterId, promise'[i] = "pending"
                   PROVE  (\E w \in waiters : w.id = i) \/ GrantsTo(Callers, i)
      BY <2>1
    <3>2. promise[i] = "pending" /\ i # Top.waiter
      BY <2>1, <3>1
    <3> QED BY <1>1, <3>2, Orphans, StackParts DEF FInv
  <2>7. WellNested(stack')
    BY <2>1, <2>2
  <2> QED BY <2>4, <2>5, <2>6, <2>7, RoomKept, OrphansNext DEF FInv
<1> QED BY <1>5, <1>6, <1>7, <1>8, <1>9, <1>10

(* The stages of grantEligibleWaiters. *)
LEMMA FilesGrant ==
  ASSUME OnFiles, FInv, IInv',
         GrantRound \/ GrantEnds \/ GrantReleasesExpired \/ GrantSkips \/ GrantTakes
  PROVE  FInv'
<1>1. stack # <<>> /\ Top.op = "grant" /\ Top \in GrantFrames
  <2>1. stack # <<>> /\ Top.op = "grant"
    BY DEF Running, Top, GrantRound, GrantEnds, GrantReleasesExpired, GrantSkips, GrantTakes
  <2> QED BY <2>1, StackParts, FrameKinds
<1>2. Top.cands \subseteq Waiter /\ \A c \in Top.cands : c.path \in Path
  BY <1>1 DEF GrantFrames, Waiter
<1>4. CASE GrantRound
  <2> DEFINE g == [Top EXCEPT !.cands = QueueHeads, !.progressed = FALSE]
  <2>1. stack' = Continue(g) /\ UNCHANGED <<locks, waiters, waiterCounter, promise>>
    BY <1>4 DEF GrantRound
  <2>2. QueueHeads \in SUBSET Waiter /\ QueueHeads \subseteq waiters
    BY DEF QueueHeads, FInv, IInv, TypeOK
  <2>3. g \in Frame /\ g.op = "grant" /\ g.cands = QueueHeads
    BY <1>1, <2>2 DEF GrantFrames, Frame
  <2> HIDE DEF g
  <2>4. \A w \in waiters : Serves(g, w.path)
    BY <2>3, HeadExists DEF Serves
  <2>5. /\ WellNested(stack')
        /\ \A p : ServedBy(stack', p) <=> Serves(g, p) \/ ServedBy(Callers, p)
        /\ \A p : WantedBy(stack', p) <=> Wants(g, p) \/ WantedBy(Callers, p)
        /\ \A i : GrantsTo(stack', i) <=> (g.op = "acquire" /\ g.waiter = i) \/ GrantsTo(Callers, i)
    BY <1>1, <2>1, <2>3, StackParts, PushFacts DEF Continue, FromOutside
  <2>6. \A w \in waiters : w.path \in Held' \/ ServedBy(stack', w.path)
    BY <2>4, <2>5
  <2>7. \A p : Wants(g, p) => \E w \in waiters : w.path = p
    BY <2>2, <2>3 DEF Wants
  <2>8. \A q \in Path : q \in Held' \/ WantedBy(stack', q) => Claims(q)
    BY <1>1, <2>1, <2>5, <2>7, StackParts DEF Claims, Held
  <2>9. \A i \in WaiterId : GrantsTo(stack, i) => GrantsTo(stack', i)
    BY <1>1, <2>5, StackParts
  <2> QED BY <2>1, <2>5, <2>6, <2>8, <2>9, Quiet
<1>5. CASE GrantEnds
  <2>1. Top.cands = {} /\ ~Top.progressed /\ stack' = Callers
        /\ UNCHANGED <<locks, waiters, waiterCounter, promise>>
    BY <1>5 DEF GrantEnds
  <2>2. \A p : ~Serves(Top, p)
    BY <1>1, <2>1 DEF Serves
  <2> QED BY <1>1, <2>1, <2>2, Returns
<1>6. CASE GrantReleasesExpired
  <2>1. PICK w \in Top.cands : \E q \in Stale(w.holder) : ReleaseLock(q, stack)
    BY <1>6 DEF GrantReleasesExpired
  <2>2. PICK q \in Stale(w.holder) : ReleaseLock(q, stack)
    BY <2>1
  <2>3. q \in Path
    BY DEF Stale, Foreign, Held
  <2>4. UNCHANGED <<waiters, waiterCounter, promise>>
    BY <1>6 DEF GrantReleasesExpired
  <2> QED BY <1>1, <2>2, <2>3, <2>4, ReleasesInside
<1>7. CASE GrantSkips
  <2>1. PICK w \in Top.cands : /\ Blocking(w.path, w.holder) # {}
                               /\ stack' = Continue([Top EXCEPT !.cands = @ \ {w}])
    BY <1>7 DEF GrantSkips
  <2> DEFINE C == Top.cands \ {w}
             g == [Top EXCEPT !.cands = C]
  <2>2. w.path \in Held
    <3>1. PICK q \in Foreign(w.holder) : <<w.path, q>> \in Conflict
      BY <2>1 DEF Blocking
    <3> QED BY <1>2, <2>1, <3>1 DEF OnFiles, Foreign, Held
  <2>3. C \in SUBSET Waiter /\ Top.progressed \in BOOLEAN
    BY <1>1, <1>2 DEF GrantFrames
  <2>4. stack' = Continue(g) /\ UNCHANGED <<locks, waiters, waiterCounter, promise>>
    BY <1>7, <2>1 DEF GrantSkips
  <2> HIDE DEF C
  <2>5. g \in Frame /\ g.op = "grant" /\ g.cands = C /\ g.progressed = Top.progressed
    BY <1>1, <2>3 DEF GrantFrames, Frame
  <2> HIDE DEF g
  <2>6. \A p \in Path : Serves(Top, p) => p \in Held \/ Serves(g, p)
    BY <1>1, <2>2, <2>5 DEF Serves, C
  <2>7. \A p \in Path : Wants(g, p) => Claims(p)
    <3>1. \A p : Wants(g, p) => Wants(Top, p)
      BY <1>1, <2>5 DEF Wants, C
    <3> QED BY <1>1, <3>1, StackParts DEF Claims
  <2>8. ~FromOutside(g)
    BY <2>5 DEF FromOutside
  <2> QED BY <1>1, <2>4, <2>5, <2>6, <2>7, <2>8, GoesOn
<1>8. CASE GrantTakes
  <2>1. PICK w \in Top.cands :
          /\ waiters' = waiters \ {w}
          /\ stack' = <<AcquireFrame(w.path, w.holder, FALSE, w.priority, w.id)>> \o
               Continue([Top EXCEPT !.cands = @ \ {w}, !.progressed = TRUE])
    BY <1>8 DEF GrantTakes
  <2> DEFINE C == Top.cands \ {w}
             g == [Top EXCEPT !.cands = C, !.progressed = TRUE]
             a == AcquireFrame(w.path, w.holder, FALSE, w.priority, w.id)
             r == <<g>> \o Callers
  <2>2. UNCHANGED <<locks, waiterCounter, promise>> /\ Held' = Held
    BY <1>8 DEF GrantTakes, Held
  <2>3. w \in Waiter /\ w.id # 0 /\ C \in SUBSET Waiter
    BY <1>2 DEF Waiter, WaiterId
  <2>4. stack' = <<a>> \o r
    BY <2>1 DEF Continue
  <2> HIDE DEF C
  <2>5. g \in Frame /\ g.op = "grant" /\ g.cands = C /\ g.progressed = TRUE
    BY <1>1, <2>3 DEF GrantFrames, Frame
  <2>6. a \in Frame /\ a.op = "acquire" /\ a.waiter = w.id /\ a.path = w.path
    BY <2>3 DEF AcquireFrame, AcquireFrames, Frame, Waiter
  <2> HIDE DEF g, a
  <2>7. /\ r \in Seq(Frame) /\ Settled(r)
        /\ \A p : ServedBy(r, p) <=> Serves(g, p) \/ ServedBy(Callers, p)
        /\ \A p : WantedBy(r, p) <=> Wants(g, p) \/ WantedBy(Callers, p)
        /\ \A i : GrantsTo(r, i) <=> (g.op = "acquire" /\ g.waiter = i) \/ GrantsTo(Callers, i)
    BY <1>1, <2>5, StackParts, PushFacts DEF FromOutside
  <2> HIDE DEF r
  <2>8. /\ WellNested(stack')
        /\ \A p : ServedBy(stack', p) <=> Serves(a, p) \/ ServedBy(r, p)
        /\ \A p : WantedBy(stack', p) <=> Wants(a, p) \/ WantedBy(r, p)
        /\ \A i : GrantsTo(stack', i) <=> (a.op = "acquire" /\ a.waiter = i) \/ GrantsTo(r, i)
    BY <2>3, <2>4, <2>6, <2>7, PushFacts DEF FromOutside
  <2>9. Attended'
    <3>1. \A p : Serves(g, p)
      BY <2>5 DEF Serves
    <3> QED BY <2>7, <2>8, <3>1 DEF Attended
  <2>10. Numbered'
    BY <2>1, <2>2 DEF Numbered, FInv
  <2>11. \A q \in Path : Claims(q)' => Claims(q)
    <3>1. \A p : Wants(a, p) => Wants(Top, p)
      BY <1>1, <2>1, <2>6 DEF Wants
    <3>2. \A p : Wants(g, p) => Wants(Top, p)
      BY <1>1, <2>5 DEF Wants, C
    <3> QED BY <1>1, <2>1, <2>2, <2>7, <2>8, <3>1, <3>2, StackParts DEF Claims
  <2>12. \A i \in WaiterId : promise'[i] = "pending" =>
           (\E v \in waiters' : v.id = i) \/ GrantsTo(stack', i)
    <3>1. SUFFICES ASSUME NEW i \in WaiterId, promise[i] = "pending"
                   PROVE  (\E v \in waiters' : v.id = i) \/ GrantsTo(stack', i)
      BY <2>2
    <3>2. CASE i = w.id
      BY <2>6, <2>8, <3>2
    <3>3. CASE i # w.id
      <4>1. (\E v \in waiters : v.id = i) \/ GrantsTo(Callers, i)
        BY <1>1, <3>1, Orphans, StackParts DEF FInv
      <4> QED BY <2>1, <2>7, <2>8, <3>3, <4>1
    <3> QED BY <3>2, <3>3
  <2> QED BY <2>8, <2>9, <2>10, <2>11, <2>12, RoomKept, OrphansNext DEF FInv
<1> QED BY <1>4, <1>5, <1>6, <1>7, <1>8

(* The loops over the table. *)
LEMMA FilesLoop ==
  ASSUME FInv, IInv',
         \/ ScanReleasesExpired \/ ScanReturns \/ ScanFinds \/ QueryReturns
         \/ QueryReleases \/ AllReleasesExpired \/ AllReturns
         \/ CleanFindsExpired \/ CleanReleases \/ CleanReturns
  PROVE  FInv'
<1>1. stack # <<>> /\ Top.op \in {"scan", "found", "all", "clean", "evict"}
      /\ UNCHANGED <<waiters, waiterCounter, promise>>
  BY DEF Running, Top, ScanReleasesExpired, ScanReturns, ScanFinds, QueryReturns, QueryReleases,
         AllReleasesExpired, AllReturns, CleanFindsExpired, CleanReleases, CleanReturns
<1>2. \A p : ~Serves(Top, p)
  BY <1>1 DEF Serves
<1>3. CASE ScanReleasesExpired
  <2>1. PICK q \in Stale(Top.holder) : ReleaseLock(q, stack)
    BY <1>3 DEF ScanReleasesExpired
  <2>2. q \in Path
    BY DEF Stale, Foreign, Held
  <2> QED BY <1>1, <2>1, <2>2, ReleasesInside
<1>4. CASE AllReleasesExpired
  <2>1. PICK q \in Path : ReleaseLock(q, stack)
    BY <1>4 DEF AllReleasesExpired
  <2> QED BY <1>1, <2>1, ReleasesInside
<1>5. CASE ScanReturns \/ QueryReturns \/ AllReturns \/ CleanReturns
  <2>1. stack' = Callers /\ UNCHANGED locks
    BY <1>5 DEF ScanReturns, QueryReturns, AllReturns, CleanReturns
  <2> QED BY <1>1, <1>2, <2>1, Returns
<1>6. CASE CleanFindsExpired
  <2>1. PICK z \in Path : stack' = Emit \o <<[op |-> "evict", path |-> z]>> \o stack
    BY <1>6 DEF CleanFindsExpired
  <2> DEFINE v == [op |-> "evict", path |-> z]
             e == [op |-> "all"]
             s == <<v>> \o stack
  <2>2. /\ v \in Frame /\ e \in Frame /\ v.op = "evict" /\ e.op = "all"
        /\ \A p : ~Wants(v, p) /\ ~Wants(e, p)
    BY DEF Frame, EvictFrames, LoopFrames, Wants
  <2>3. stack \in Seq(Frame) /\ Settled(stack)
    BY <1>1, StackParts DEF FInv, IInv, TypeOK
  <2>4. stack' = IF Listening THEN <<e>> \o s ELSE s
    <3>1. CASE Listening
      BY <2>1, <2>2, <2>3, <3>1 DEF Emit
    <3>2. CASE ~Listening
      BY <2>1, <2>2, <2>3, <3>2 DEF Emit
    <3> QED BY <3>1, <3>2
  <2> HIDE DEF v, e
  <2>5. /\ s \in Seq(Frame) /\ Settled(s) /\ WellNested(s)
        /\ \A p : ServedBy(stack, p) => ServedBy(s, p)
        /\ \A p : WantedBy(s, p) <=> WantedBy(stack, p)
        /\ \A i : GrantsTo(s, i) <=> GrantsTo(stack, i)
    BY <2>2, <2>3, PushFacts DEF FromOutside
  <2> HIDE DEF s
  <2>6. /\ WellNested(stack')
        /\ \A p : ServedBy(stack, p) => ServedBy(stack', p)
        /\ \A p : WantedBy(stack', p) <=> WantedBy(stack, p)
        /\ \A i : GrantsTo(stack', i) <=> GrantsTo(stack, i)
    BY <2>2, <2>4, <2>5, PushFacts DEF FromOutside
  <2>7. Held' = Held
    BY <1>6 DEF CleanFindsExpired, Held
  <2>8. \A w \in waiters : w.path \in Held' \/ ServedBy(stack', w.path)
    BY <2>6, <2>7 DEF FInv, Attended
  <2>9. \A q \in Path : q \in Held' \/ WantedBy(stack', q) => Claims(q)
    BY <2>6, <2>7 DEF Claims
  <2> QED BY <1>1, <2>6, <2>8, <2>9, Quiet
<1>7. CASE CleanReleases \/ QueryReleases
  <2>1. Top \in EvictFrames \cup FoundFrames /\ ReleaseLock(Top.path, Callers)
    BY <1>1, <1>7, StackParts, FrameKinds DEF CleanReleases, QueryReleases, Running, Top
  <2>2. Top.path \in Path
    BY <2>1 DEF EvictFrames, FoundFrames
  <2>3. \A q \in Path : WantedBy(Callers, q) => Claims(q)
    BY <1>1, StackParts DEF Claims
  <2>4. \A i \in WaiterId : GrantsTo(stack, i) => GrantsTo(Callers, i)
    BY <1>1, StackParts
  <2>5. Callers \in Seq(Frame) /\ Settled(Callers)
    BY <1>1, StackParts
  <2> QED BY <1>1, <2>1, <2>2, <2>3, <2>4, <2>5, Releases
<1>8. CASE ScanFinds
  <2>1. PICK f \in Frame : f.op = "found" /\ stack' = Continue(f) /\ UNCHANGED locks
    BY <1>8, FoundFrame DEF FInv, IInv, ScanFinds
  <2>2. Callers \in Seq(Frame) /\ Settled(Callers) /\ \A p : ~Wants(f, p)
    BY <1>1, <2>1, StackParts DEF Wants
  <2>3. /\ WellNested(stack')
        /\ \A p : ServedBy(Callers, p) => ServedBy(stack', p)
        /\ \A p : WantedBy(stack', p) <=> WantedBy(Callers, p)
        /\ \A i : GrantsTo(stack', i) <=> GrantsTo(Callers, i)
    BY <2>1, <2>2, PushFacts DEF Continue, FromOutside
  <2>4. Held' = Held
    BY <2>1 DEF Held
  <2>5. \A w \in waiters : w.path \in Held' \/ ServedBy(stack', w.path)
    BY <1>1, <1>2, <2>3, <2>4, StackParts DEF FInv, Attended
  <2>6. \A q \in Path : q \in Held' \/ WantedBy(stack', q) => Claims(q)
    BY <1>1, <2>3, <2>4, StackParts DEF Claims
  <2>7. \A i \in WaiterId : GrantsTo(stack, i) => GrantsTo(stack', i)
    BY <1>1, <2>3, StackParts
  <2> QED BY <1>1, <2>3, <2>5, <2>6, <2>7, Quiet
<1> QED BY <1>3, <1>4, <1>5, <1>6, <1>7, <1>8

LEMMA FilesStep == ASSUME OnFiles, FInv, [Next]_vars PROVE FInv'
<1>1. IInv'
  BY IInvStep DEF FInv
<1>2. CASE Internal
  BY <1>1, <1>2, FilesThrow, FilesAcquire, FilesGrant, FilesLoop DEF Internal
<1>3. CASE UNCHANGED vars
  <2>1. UNCHANGED <<locks, waiters, waiterCounter, promise, stack>>
    BY <1>3 DEF vars
  <2> QED BY <1>1, <2>1 DEF FInv, Numbered, Attended, NoOrphan, Room, Claimed, Claims, Held
<1> QED BY <1>1, <1>2, <1>3, FilesExternal, FilesTimer DEF Next

LEMMA FilesInit == Init => FInv
<1> SUFFICES ASSUME Init PROVE FInv
  OBVIOUS
<1>1. IInv
  BY IInvInit
<1>2. stack = <<>> /\ waiters = {} /\ Held = {} /\ \A i \in WaiterId : promise[i] = "unused"
  BY DEF Init, Held, Free
<1>3. WellNested(stack) /\ Numbered /\ Attended /\ NoOrphan
  BY <1>2 DEF WellNested, Numbered, Attended, NoOrphan
<1>4. Claimed = {}
  BY <1>2, SettledNests DEF Claimed, Claims
<1>5. Room
  BY <1>4, FS_EmptySet, BoundAssumption DEF Room
<1> QED BY <1>1, <1>3, <1>5 DEF FInv

(* The queues together never hold more than MAX_LOCK_WAITERS callers; this *)
(* holds with scopes as well.                                              *)
FewWaiters == IsFiniteSet(waiters) /\ Cardinality(waiters) <= MaxWaiters

LEMMA FewWaitersStep == ASSUME FewWaiters, [Next]_vars PROVE FewWaiters'
<1>1. Cardinality(waiters) \in Nat
  BY FS_CardinalityType DEF FewWaiters
<1>2. ASSUME waiters' \subseteq waiters PROVE FewWaiters'
  <2>1. IsFiniteSet(waiters') /\ Cardinality(waiters') <= Cardinality(waiters)
        /\ Cardinality(waiters') \in Nat
    BY <1>2, FS_Subset, FS_CardinalityType DEF FewWaiters
  <2> QED BY <1>1, <2>1, BoundAssumption DEF FewWaiters
<1>3. ASSUME NEW f, Deny(f) PROVE FewWaiters'
  <2>1. CASE UNCHANGED waiters
    BY <1>2, <2>1
  <2>2. ASSUME NEW n, Cardinality(waiters) < MaxWaiters, waiters' = waiters \cup {n}
        PROVE  FewWaiters'
    <3>1. IsFiniteSet(waiters')
          /\ Cardinality(waiters') \in {Cardinality(waiters), Cardinality(waiters) + 1}
      BY <2>2, FS_AddElement DEF FewWaiters
    <3> QED BY <1>1, <2>2, <3>1, BoundAssumption DEF FewWaiters
  <2> QED BY <1>3, <2>1, <2>2 DEF Deny
<1>4. CASE External
  BY <1>2, <1>4
  DEF External, Acquire, Release, Query, GetLockExpired, GetAll, StartExpiryCheck,
      StopExpiryCheck, Dispose
<1>5. CASE Timers
  BY <1>2, <1>5 DEF Timers, ExpiryTick, WaiterTimeout, LeaseRunsOut
<1>6. CASE AcquireCheck \/ AcquireRecheck \/ AcquireFindsConflict
  BY <1>2, <1>3, <1>6 DEF AcquireCheck, AcquireRecheck, AcquireFindsConflict
<1>7. CASE \/ AcquireThrows \/ AcquireReleasesExpired \/ AcquireGrants \/ AcquireReturns
           \/ GrantRound \/ GrantEnds \/ GrantReleasesExpired \/ GrantSkips \/ GrantTakes
  BY <1>2, <1>7
  DEF AcquireThrows, AcquireReleasesExpired, AcquireGrants, AcquireReturns,
      GrantRound, GrantEnds, GrantReleasesExpired, GrantSkips, GrantTakes
<1>8. CASE \/ ScanReleasesExpired \/ ScanReturns \/ ScanFinds \/ QueryReturns
           \/ QueryReleases \/ AllReleasesExpired \/ AllReturns
           \/ CleanFindsExpired \/ CleanReleases \/ CleanReturns
  BY <1>2, <1>8
  DEF ScanReleasesExpired, ScanReturns, ScanFinds, QueryReturns, QueryReleases,
      AllReleasesExpired, AllReturns, CleanFindsExpired, CleanReleases, CleanReturns
<1>9. CASE UNCHANGED vars
  BY <1>2, <1>9 DEF vars
<1> QED BY <1>4, <1>5, <1>6, <1>7, <1>8, <1>9 DEF Next, Internal

(* With locks on single files, whatever nests inside whatever: the table   *)
(* never exceeds MAX_LOCKS, although acquire tests the limit before it     *)
(* releases expired locks and grants others.                               *)
THEOREM LimitsHold ==
  ASSUME OnFiles
  PROVE  Spec => []Capacity
<1>1. FInv /\ FewWaiters => Capacity
  <2> SUFFICES ASSUME FInv, FewWaiters PROVE Capacity
    OBVIOUS
  <2>1. Held \in SUBSET Claimed
    BY DEF Claimed, Claims, Held
  <2>2. Cardinality(Held) <= Cardinality(Claimed) /\ Cardinality(Held) \in Nat
        /\ Cardinality(Claimed) \in Nat
    BY <2>1, ClaimedFinite
  <2> QED BY <2>2, BoundAssumption DEF Capacity, FInv, Room, FewWaiters
<1>2. FInv /\ [Next]_vars => FInv'
  BY FilesStep
<1>3. FewWaiters /\ [Next]_vars => FewWaiters'
  BY FewWaitersStep
<1>4. Init => FewWaiters
  BY FS_EmptySet, BoundAssumption DEF Init, FewWaiters
<1> QED BY <1>1, <1>2, <1>3, <1>4, FilesInit, PTL DEF Spec

(* With locks on single files, a caller that waits is in a queue, or a     *)
(* grant is on its way to it: a nested acquire never throws and drops it.  *)
THEOREM NobodyForgotten ==
  ASSUME OnFiles
  PROVE  Spec => []NoOrphan
<1>1. FInv => NoOrphan
  BY DEF FInv
<1>2. FInv /\ [Next]_vars => FInv'
  BY FilesStep
<1> QED BY <1>1, <1>2, FilesInit, PTL DEF Spec

(* With locks on single files, between calls every path that is waited for *)
(* is locked: the recursion of releases and grants leaves no queue behind. *)
THEOREM NobodyIdle ==
  ASSUME OnFiles
  PROVE  Spec => []NoIdleWaiter
<1>1. FInv => NoIdleWaiter
  <2> SUFFICES ASSUME FInv, stack = <<>>, NEW w \in waiters
               PROVE  MustWait(w) \/ HasIt(w)
    BY DEF NoIdleWaiter, Idle
  <2>1. w.path \in Held
    BY SettledNests DEF FInv, Attended
  <2>2. CASE locks[w.path].holder = w.holder
    BY <2>2 DEF HasIt
  <2>3. CASE locks[w.path].holder # w.holder
    <3>1. w.path \in Foreign(w.holder) /\ <<w.path, w.path>> \in Conflict
      BY <2>1, <2>3, ConflictAssumption DEF Foreign, Held
    <3> QED BY <3>1 DEF MustWait
  <2> QED BY <2>2, <2>3
<1>2. FInv /\ [Next]_vars => FInv'
  BY FilesStep
<1> QED BY <1>1, <1>2, FilesInit, PTL DEF Spec

-----------------------------------------------------------------------------
(* Whom a grant takes next.  With scopes, too: whatever a release makes    *)
(* grantable, a grant that is looking at the queues has every waiter that  *)
(* nothing keeps waiting among its candidates, but for the ones whose path *)
(* the running call is about to take.  Of the suspended grants only the    *)
(* one on top is concerned: when it returns, nobody is kept waiting for    *)
(* nothing, whatever the ones below it had seen before.                    *)
Rested(v) == MustWait(v) \/ HasIt(v) \/ \E u \in waiters : u.path = v.path /\ Precedes(u, v)
NextIn(v) ==
  /\ stack # <<>> /\ Top.op = "acquire" /\ Top.at \in {"check", "scan"}
  /\ Top.path = v.path /\ Top.path \notin Foreign(Top.holder)
  /\ Blocking(Top.path, Top.holder) = {}
Granting(s, f) ==
  \E k \in 1 .. Len(s) : /\ s[k] = f /\ f.op = "grant"
                         /\ \A j \in 1 .. (k - 1) : s[j].op # "grant"
Ordered ==
  \A f : Granting(stack, f) /\ ~(f.cands = {} /\ f.progressed) =>
           \A v \in waiters : v \in f.cands \/ Rested(v) \/ NextIn(v)

(* The waiters have numbers of their own, so that they are in an order. *)
OInv == IInv /\ Numbered /\ Ordered

LEMMA GrantingPush ==
  ASSUME NEW s \in Seq(Frame), NEW e \in Frame
  PROVE  \A f : Granting(<<e>> \o s, f) <=> IF e.op = "grant" THEN f = e ELSE Granting(s, f)
<1> DEFINE t == <<e>> \o s
<1>1. /\ Len(t) = Len(s) + 1 /\ Len(s) \in Nat /\ t[1] = e
      /\ \A k \in 1 .. Len(s) : t[k + 1] = s[k]
  OBVIOUS
<1> HIDE DEF t
<1>2. \A k \in 1 .. Len(t) : k = 1 \/ (k - 1 \in 1 .. Len(s) /\ t[k] = s[k - 1])
  <2>1. TAKE k \in 1 .. Len(t)
  <2>2. CASE k # 1
    <3>1. k - 1 \in 1 .. Len(s) BY <2>2, <1>1
    <3>2. t[(k - 1) + 1] = s[k - 1] BY <3>1, <1>1
    <3> QED BY <3>1, <3>2
  <2> QED BY <2>2
<1>3. 1 \in 1 .. Len(t) /\ 1 .. (1 - 1) = {}
  BY <1>1
<1> SUFFICES ASSUME NEW f
             PROVE  Granting(t, f) <=> IF e.op = "grant" THEN f = e ELSE Granting(s, f)
  BY DEF t
<1>4. CASE e.op = "grant"
  <2>1. ASSUME f = e PROVE Granting(t, f)
    BY <1>1, <1>3, <1>4, <2>1 DEF Granting
  <2>2. ASSUME Granting(t, f) PROVE f = e
    <3>1. PICK k \in 1 .. Len(t) : t[k] = f /\ \A j \in 1 .. (k - 1) : t[j].op # "grant"
      BY <2>2 DEF Granting
    <3>2. k # 1 => 1 \in 1 .. (k - 1)
      BY <1>1
    <3> QED BY <1>1, <1>4, <3>1, <3>2
  <2> QED BY <1>4, <2>1, <2>2
<1>5. CASE e.op # "grant"
  <2>1. ASSUME Granting(s, f) PROVE Granting(t, f)
    <3>1. PICK k \in 1 .. Len(s) : /\ s[k] = f /\ f.op = "grant"
                                   /\ \A j \in 1 .. (k - 1) : s[j].op # "grant"
      BY <2>1 DEF Granting
    <3>2. k + 1 \in 1 .. Len(t) /\ t[k + 1] = f
      BY <1>1, <3>1
    <3>3. ASSUME NEW j \in 1 .. ((k + 1) - 1) PROVE t[j].op # "grant"
      <4>1. CASE j = 1
        BY <1>1, <1>5, <4>1
      <4>2. CASE j # 1
        <5>1. j \in 1 .. Len(t) /\ j - 1 \in 1 .. (k - 1)
          BY <1>1, <4>2
        <5>2. t[j] = s[j - 1]
          BY <1>2, <4>2, <5>1
        <5> QED BY <3>1, <5>1, <5>2
      <4> QED BY <4>1, <4>2
    <3> QED BY <3>1, <3>2, <3>3 DEF Granting
  <2>2. ASSUME Granting(t, f) PROVE Granting(s, f)
    <3>1. PICK k \in 1 .. Len(t) : /\ t[k] = f /\ f.op = "grant"
                                   /\ \A j \in 1 .. (k - 1) : t[j].op # "grant"
      BY <2>2 DEF Granting
    <3>2. k # 1
      BY <1>1, <1>5, <3>1
    <3>3. k - 1 \in 1 .. Len(s) /\ s[k - 1] = f
      BY <1>2, <3>1, <3>2
    <3>4. ASSUME NEW j \in 1 .. ((k - 1) - 1) PROVE s[j].op # "grant"
      <4>1. j \in 1 .. Len(s) /\ j + 1 \in 1 .. (k - 1)
        BY <1>1
      <4> QED BY <1>1, <3>1, <4>1
    <3> QED BY <3>1, <3>3, <3>4 DEF Granting
  <2> QED BY <1>5, <2>1, <2>2
<1> QED BY <1>4, <1>5

Begun == [op |-> "grant", cands |-> {}, progressed |-> TRUE]

LEMMA GrantingEmit ==
  ASSUME NEW s \in Seq(Frame)
  PROVE  /\ Emit \o s \in Seq(Frame)
         /\ \A f : Granting(Emit \o s, f) <=> Granting(s, f)
<1> DEFINE e == [op |-> "all"]
<1>1. e \in Frame /\ e.op # "grant"
  BY DEF Frame, LoopFrames
<1>2. CASE Listening
  BY <1>1, <1>2, GrantingPush DEF Emit
<1>3. CASE ~Listening
  <2>1. Emit \o s = s
    BY <1>3 DEF Emit
  <2> QED BY <2>1
<1> QED BY <1>2, <1>3

(* After a release a new grant is on top, and it will look at all queues. *)
LEMMA ReleasedOrdered ==
  ASSUME NEW p, NEW s \in Seq(Frame), ReleaseLock(p, s)
  PROVE  Ordered'
<1>1. Begun \in Frame /\ Begun.op = "grant" /\ Begun.cands = {} /\ Begun.progressed
  BY DEF Begun, Frame, GrantFrames
<1>2. <<Begun>> \o s \in Seq(Frame) /\ \A f : Granting(<<Begun>> \o s, f) <=> f = Begun
  BY <1>1, GrantingPush
<1>3. AfterDelete \o s = Emit \o (<<Begun>> \o s)
  <2>1. CASE Listening
    BY <2>1 DEF AfterDelete, Emit, Begun
  <2>2. CASE ~Listening
    BY <2>2 DEF AfterDelete, Emit, Begun
  <2> QED BY <2>1, <2>2
<1>4. \A f : Granting(stack', f) <=> f = Begun
  BY <1>2, <1>3, GrantingEmit DEF ReleaseLock
<1>5. \A f : Granting(stack, f)' <=> f = Begun
  BY <1>4 DEF Granting
<1> QED BY <1>1, <1>5 DEF Ordered

(* The grant on top stays what it is, and so does what keeps waiters. *)
LEMMA OrderedKept ==
  ASSUME Ordered, \A f : Granting(stack', f) => Granting(stack, f), waiters' \subseteq waiters,
         \A v \in waiters : Rested(v) \/ NextIn(v) => Rested(v)' \/ NextIn(v)'
  PROVE  Ordered'
<1>1. \A f : Granting(stack, f)' <=> Granting(stack', f)
  BY DEF Granting
<1> QED BY <1>1 DEF Ordered

LEMMA StillRested ==
  ASSUME UNCHANGED <<locks, waiters>>, NEW v
  PROVE  Rested(v) <=> Rested(v)'
BY DEF Rested, MustWait, HasIt, Foreign, Held

LEMMA RunningParts ==
  ASSUME IInv, stack # <<>>
  PROVE  /\ Top \in Frame /\ Callers \in Seq(Frame)
         /\ \A f : Granting(stack, f) <=> IF Top.op = "grant" THEN f = Top ELSE Granting(Callers, f)
<1>1. Top \in Frame /\ Callers \in Seq(Frame)
  BY TopAndCallers DEF IInv
<1>2. stack = <<Top>> \o Callers
  BY DEF IInv, TypeOK, Top, Callers
<1>3. \A f : Granting(<<Top>> \o Callers, f)
               <=> IF Top.op = "grant" THEN f = Top ELSE Granting(Callers, f)
  BY <1>1, GrantingPush
<1> QED BY <1>1, <1>2, <1>3

LEMMA NobodyGrants == \A f : ~Granting(<<>>, f)
<1>1. Len(<<>>) = 0 /\ 1 .. 0 = {}
  OBVIOUS
<1> QED BY <1>1 DEF Granting

LEMMA NoGrantOrdered ==
  ASSUME stack' = <<>>
  PROVE  Ordered'
<1>1. \A f : ~Granting(stack, f)'
  BY NobodyGrants DEF Granting
<1> QED BY <1>1 DEF Ordered

LEMMA OneCallOrdered ==
  ASSUME NEW e \in Frame, e.op # "grant", stack' = <<e>>
  PROVE  Ordered'
<1>1. <<e>> = <<e>> \o <<>> /\ <<>> \in Seq(Frame)
  OBVIOUS
<1>4. \A f : Granting(<<e>> \o <<>>, f) <=> IF e.op = "grant" THEN f = e ELSE Granting(<<>>, f)
  BY <1>1, GrantingPush
<1>2. \A f : ~Granting(stack', f)
  BY <1>1, <1>4, NobodyGrants
<1>3. \A f : ~Granting(stack, f)'
  BY <1>2 DEF Granting
<1> QED BY <1>3 DEF Ordered

(* A call other than a grant returns, and nothing was about to be locked. *)
LEMMA ReturnedOrdered ==
  ASSUME IInv, Ordered, stack # <<>>, Top.op # "grant", stack' = Callers,
         UNCHANGED <<locks, waiters>>, \A v : ~NextIn(v)
  PROVE  Ordered'
<1>1. \A f : Granting(stack', f) => Granting(stack, f)
  BY RunningParts
<1>2. \A v \in waiters : Rested(v) \/ NextIn(v) => Rested(v)' \/ NextIn(v)'
  BY StillRested
<1> QED BY <1>1, <1>2, OrderedKept

(* A call that ends without the lock had somebody's lock before it. *)
LEMMA DeniedOrdered ==
  ASSUME IInv, Ordered, stack # <<>>, Top.op = "acquire", Deny(Top),
         Top.at = "recheck" \/ Top.path \in Foreign(Top.holder)
           \/ Blocking(Top.path, Top.holder) # {}
  PROVE  Ordered'
<1>1. \A v : ~NextIn(v)
  BY DEF NextIn
<1>2. stack' = Callers /\ UNCHANGED locks
  BY DEF Deny
<1>3. CASE UNCHANGED waiters
  BY <1>1, <1>2, <1>3, ReturnedOrdered
<1>4. CASE Top.waiter = 0 /\ Top.wait
  <2>1. Callers = <<>>
    BY <1>4, Pop DEF Waits
  <2> QED BY <1>2, <2>1, NoGrantOrdered
<1> QED BY <1>3, <1>4 DEF Deny

LEMMA OrderedOutside == ASSUME OInv, External PROVE Ordered'
<1>7. <<>> \in Seq(Frame)
  OBVIOUS
<1>1. ASSUME NEW p \in Path, NEW h \in Holder, NEW wait \in BOOLEAN,
             NEW n \in Requested, Acquire(p, h, wait, n)
      PROVE  Ordered'
  <2> DEFINE f == AcquireFrame(p, h, wait, Clamp(n), 0)
  <2>1. f \in Frame /\ f.op # "grant"
    BY BoundAssumption
    DEF Frame, AcquireFrames, AcquireFrame, Clamp, Priority
  <2>2. stack' = <<f>>
    BY <1>1 DEF Acquire
  <2> HIDE DEF f
  <2> QED BY <2>1, <2>2, OneCallOrdered
<1>2. ASSUME NEW p \in Path, NEW h \in Holder, NEW force \in BOOLEAN,
             Release(p, h, force)
      PROVE  Ordered'
  BY <1>2, <1>7, ReleasedOrdered DEF Release
<1>3. ASSUME NEW p \in Path, NEW h \in Holder \cup {NoHolder}, Query(p, h)
      PROVE  Ordered'
  <2> DEFINE f == [op |-> "scan", path |-> p, holder |-> h]
  <2>1. f \in Frame /\ f.op # "grant"
    BY DEF Frame, ScanFrames
  <2>2. stack' = <<f>>
    BY <1>3 DEF Query
  <2> HIDE DEF f
  <2> QED BY <2>1, <2>2, OneCallOrdered
<1>4. ASSUME NEW p \in Path, GetLockExpired(p)
      PROVE  Ordered'
  BY <1>4, <1>7, ReleasedOrdered DEF GetLockExpired
<1>5. CASE GetAll
  <2>1. [op |-> "all"] \in Frame
    BY DEF Frame, LoopFrames
  <2> QED BY <1>5, <2>1, OneCallOrdered DEF GetAll
<1>6. CASE StartExpiryCheck \/ StopExpiryCheck \/ Dispose
  BY <1>6, NoGrantOrdered DEF StartExpiryCheck, StopExpiryCheck, Dispose, Idle
<1> QED BY <1>1, <1>2, <1>3, <1>4, <1>5, <1>6 DEF External

LEMMA OrderedTimers == ASSUME OInv, Timers PROVE Ordered'
<1>1. CASE ExpiryTick
  <2>1. [op |-> "clean"] \in Frame
    BY DEF Frame, LoopFrames
  <2> QED BY <1>1, <2>1, OneCallOrdered DEF ExpiryTick
<1>2. ASSUME NEW w \in waiters, WaiterTimeout(w)
      PROVE  Ordered'
  BY <1>2, NoGrantOrdered DEF WaiterTimeout, Idle
<1>3. ASSUME NEW p \in Path, LeaseRunsOut(p)
      PROVE  Ordered'
  <2>1. /\ UNCHANGED <<waiters, stack>> /\ p \in Held /\ ~locks[p].expired
        /\ locks' = [locks EXCEPT ![p].expired = TRUE] /\ locks \in [Path -> Lock \cup {Free}]
    BY <1>3 DEF LeaseRunsOut, Live, OInv, IInv, TypeOK
  <2>2. /\ \A q \in Path : locks'[q].holder = locks[q].holder /\ (locks'[q].expired = locks[q].expired \/ q = p)
        /\ Held' = Held
    <3>1. locks[p] \in Lock
      BY <2>1 DEF Held, Free
    <3>2. \A q \in Path : locks'[q].holder = locks[q].holder /\ (q # p => locks'[q] = locks[q])
      BY <2>1, <3>1 DEF Lock
    <3> QED BY <3>2 DEF Held
  <2>3. \A h : Foreign(h)' = Foreign(h)
    BY <2>2 DEF Foreign, Held
  <2>4. \A x, h : Blocking(x, h)' \subseteq Blocking(x, h)
    <3>1. locks'[p].expired
      <4>1. locks[p] \in Lock
        BY <2>1 DEF Held, Free
      <4> QED BY <2>1, <4>1 DEF Held, Lock
    <3>2. ASSUME NEW x, NEW h, NEW q \in Blocking(x, h)' PROVE q \in Blocking(x, h)
      <4>1. q \in Foreign(h) /\ ~locks'[q].expired /\ <<x, q>> \in Conflict /\ q \in Path
        BY <2>3, <3>2 DEF Blocking, Foreign, Held
      <4> QED BY <2>2, <3>1, <4>1 DEF Blocking
    <3> QED BY <3>2
  <2>5. ASSUME NEW v \in waiters, Rested(v) PROVE Rested(v)'
    <3>1. v.path \in Path
      BY DEF OInv, IInv, TypeOK, Waiter
    <3> QED BY <2>1, <2>2, <2>3, <2>5, <3>1 DEF Rested, MustWait, HasIt
  <2>6. ASSUME NEW v \in waiters, NextIn(v) PROVE NextIn(v)'
    BY <2>1, <2>3, <2>4, <2>6 DEF NextIn, Top
  <2> QED BY <2>1, <2>5, <2>6, OrderedKept DEF OInv
<1> QED BY <1>1, <1>2, <1>3 DEF Timers

LEMMA OrderedAcquire ==
  ASSUME OInv,
         \/ AcquireThrows \/ AcquireCheck \/ AcquireRecheck \/ AcquireReleasesExpired
         \/ AcquireFindsConflict \/ AcquireGrants \/ AcquireReturns
  PROVE  Ordered'
<1>1. /\ stack # <<>> /\ Top.op = "acquire" /\ Top \in AcquireFrames /\ Top \in Frame
      /\ stack \in Seq(Frame) /\ Callers \in Seq(Frame) /\ IInv /\ Ordered
      /\ \A f : Granting(stack, f) <=> Granting(Callers, f)
  <2>1. stack # <<>> /\ Top.op = "acquire" /\ IInv /\ Ordered /\ stack \in Seq(Frame)
    BY DEF OInv, IInv, TypeOK, Running, Top, AcquireThrows, AcquireCheck, AcquireRecheck,
           AcquireReleasesExpired, AcquireFindsConflict, AcquireGrants, AcquireReturns
  <2> QED BY <2>1, RunningParts, FrameKinds
<1>2. ASSUME NEW x \in {"recheck", "scan", "return"}
      PROVE  /\ [Top EXCEPT !.at = x] \in Frame
             /\ Continue([Top EXCEPT !.at = x]) \in Seq(Frame)
             /\ \A f : Granting(Continue([Top EXCEPT !.at = x]), f) <=> Granting(Callers, f)
  <2> DEFINE f == [Top EXCEPT !.at = x]
  <2>1. f \in Frame /\ f.op # "grant"
    BY <1>1 DEF AcquireFrames, Frame
  <2> HIDE DEF f
  <2>2. <<f>> \o Callers \in Seq(Frame)
    BY <1>1, <2>1
  <2>3. \A g : Granting(<<f>> \o Callers, g) <=> Granting(Callers, g)
    BY <1>1, <2>1, GrantingPush
  <2> QED BY <2>1, <2>2, <2>3 DEF Continue, f
<1>3. CASE AcquireThrows
  BY <1>3, NoGrantOrdered DEF AcquireThrows
<1>4. ASSUME stack' = Continue([Top EXCEPT !.at = "scan"]), UNCHANGED <<locks, waiters>>,
             Top.at # "check" \/ Top.path \notin Held \/ locks[Top.path].holder = Top.holder
      PROVE  Ordered'
  <2>1. \A f : Granting(stack', f) => Granting(stack, f)
    BY <1>1, <1>2, <1>4
  <2> DEFINE g == [Top EXCEPT !.at = "scan"]
  <2>2. g.op = "acquire" /\ g.at = "scan" /\ g.path = Top.path /\ g.holder = Top.holder
    BY <1>1 DEF AcquireFrames
  <2> HIDE DEF g
  <2>3. stack' # <<>> /\ Head(stack') = g
    BY <1>1, <1>4, <1>2 DEF Continue, g
  <2>4. ASSUME NEW v \in waiters, NextIn(v) PROVE NextIn(v)'
    BY <1>4, <2>2, <2>3, <2>4 DEF NextIn, Top, Foreign, Blocking, Held
  <2>5. \A v \in waiters : Rested(v) => Rested(v)'
    BY <1>4, StillRested
  <2> QED BY <1>1, <1>4, <2>1, <2>4, <2>5, OrderedKept
<1>5. CASE AcquireCheck
  <2>1. CASE Top.path \notin Held \/ locks[Top.path].holder = Top.holder
    <3>1. Top.path \notin Foreign(Top.holder) /\ Top.path \notin Stale(Top.holder)
      BY <2>1 DEF Foreign, Stale
    <3> QED BY <1>4, <1>5, <2>1, <3>1 DEF AcquireCheck
  <2>2. CASE ReleaseLock(Top.path, Continue([Top EXCEPT !.at = "recheck"]))
    BY <1>2, <2>2, ReleasedOrdered
  <2>3. CASE Deny(Top) /\ Top.path \in Foreign(Top.holder) \ Stale(Top.holder)
    BY <1>1, <2>3, DeniedOrdered
  <2> QED BY <1>5, <2>1, <2>2, <2>3 DEF AcquireCheck
<1>6. CASE AcquireRecheck
  <2>1. CASE Deny(Top)
    BY <1>1, <1>6, <2>1, DeniedOrdered DEF AcquireRecheck
  <2>2. CASE stack' = Continue([Top EXCEPT !.at = "scan"]) /\ UNCHANGED <<locks, waiters>>
    BY <1>4, <1>6, <2>2 DEF AcquireRecheck
  <2> QED BY <1>6, <2>1, <2>2 DEF AcquireRecheck
<1>7. CASE AcquireReleasesExpired
  BY <1>1, <1>7, ReleasedOrdered DEF AcquireReleasesExpired
<1>8. CASE AcquireFindsConflict
  BY <1>1, <1>8, DeniedOrdered DEF AcquireFindsConflict
<1>9. CASE AcquireGrants
  <2> DEFINE p == Top.path
             h == Top.holder
  <2>1. /\ Stale(h) = {} /\ Blocking(p, h) = {} /\ UNCHANGED waiters
        /\ stack' = Emit \o Continue([Top EXCEPT !.at = "return"])
        /\ p \in Path /\ h \in Holder
    BY <1>1, <1>9 DEF AcquireGrants, AcquireFrames
  <2>2. /\ \A q \in Path : q # p => locks'[q] = locks[q]
        /\ locks'[p].holder = h
    BY <1>1, <1>9 DEF AcquireGrants, OInv, IInv, TypeOK, AcquireFrames
  <2>3. p \notin Held \/ locks[p].holder = h
    BY <2>1, ConflictAssumption DEF Stale, Blocking, Foreign, Held
  <2>4. \A f : Granting(stack', f) => Granting(stack, f)
    BY <1>1, <1>2, <2>1, GrantingEmit
  <2> HIDE DEF p, h
  <2>5. p \in Held' /\ \A q \in Held : q \in Held'
    BY <2>1, <2>2, HolderAssumption DEF Held
  <2>6. ASSUME NEW v \in waiters, NextIn(v) PROVE Rested(v)'
    <3>1. v.path = p
      BY <2>6 DEF NextIn, p
    <3>2. CASE v.holder = h
      BY <2>2, <3>1, <3>2 DEF Rested, HasIt
    <3>3. CASE v.holder # h
      <4>1. p \in Foreign(v.holder)'
        BY <2>2, <2>5, <3>3 DEF Foreign
      <4>2. <<p, p>> \in Conflict
        BY <2>1, ConflictAssumption
      <4> QED BY <3>1, <4>1, <4>2 DEF Rested, MustWait
    <3> QED BY <3>2, <3>3
  <2>7. ASSUME NEW v \in waiters, Rested(v) PROVE Rested(v)'
    <3>0. v.path \in Path /\ v.holder \in Holder
      BY DEF OInv, IInv, TypeOK, Waiter
    <3>1. CASE MustWait(v)
      <4>1. PICK q \in Foreign(v.holder) : <<v.path, q>> \in Conflict
        BY <3>1 DEF MustWait
      <4>2. q \in Held' /\ locks'[q].holder # v.holder
        BY <2>2, <2>3, <2>5 DEF Foreign, Held
      <4> QED BY <4>1, <4>2 DEF Rested, MustWait, Foreign
    <3>2. CASE HasIt(v)
      <4>1. v.path \in Held
        BY <3>0, <3>2, HolderAssumption DEF HasIt, Held
      <4> QED BY <2>2, <2>3, <3>0, <3>2, <4>1 DEF Rested, HasIt
    <3>3. CASE \E u \in waiters : u.path = v.path /\ Precedes(u, v)
      BY <2>1, <3>3 DEF Rested
    <3> QED BY <2>7, <3>1, <3>2, <3>3 DEF Rested
  <2> QED BY <1>1, <2>1, <2>4, <2>6, <2>7, OrderedKept
<1>10. CASE AcquireReturns
  <2>1. \A v : ~NextIn(v)
    BY <1>10 DEF AcquireReturns, NextIn
  <2> QED BY <1>1, <1>10, <2>1, ReturnedOrdered DEF AcquireReturns
<1> QED BY <1>3, <1>5, <1>6, <1>7, <1>8, <1>9, <1>10

(* Somebody ahead of a waiter that is not the first of its queue. *)
LEMMA BehindAnother ==
  ASSUME IInv, Numbered, NEW v \in waiters, v \notin QueueHeads
  PROVE  \E u \in waiters : u.path = v.path /\ Precedes(u, v)
<1>1. PICK u \in Queue(v.path) \ {v} : ~Ahead(v, u)
  BY DEF QueueHeads, FirstIn
<1>2. u \in waiters /\ u # v /\ u.path = v.path
  BY <1>1 DEF Queue
<1>3. u.priority \in Nat /\ v.priority \in Nat /\ u.id \in Nat /\ v.id \in Nat
  <2>1. u \in Waiter /\ v \in Waiter
    BY <1>2 DEF IInv, TypeOK
  <2> QED BY <2>1, BoundAssumption DEF Waiter, Priority, WaiterId
<1>4. u.id # v.id
  BY <1>2 DEF Numbered
<1>5. Precedes(u, v)
  BY <1>1, <1>3, <1>4 DEF Ahead, Precedes
<1> QED BY <1>2, <1>5

LEMMA OrderedGrant ==
  ASSUME OInv,
         GrantRound \/ GrantEnds \/ GrantReleasesExpired \/ GrantSkips \/ GrantTakes
  PROVE  Ordered'
<1>1. /\ stack # <<>> /\ Top.op = "grant" /\ Top \in GrantFrames /\ Top \in Frame
      /\ stack \in Seq(Frame) /\ Callers \in Seq(Frame) /\ IInv /\ Numbered /\ Ordered
      /\ \A f : Granting(stack, f) <=> f = Top
  <2>1. Running("grant")
    BY DEF GrantRound, GrantEnds, GrantReleasesExpired, GrantSkips, GrantTakes
  <2>2. stack # <<>> /\ Top.op = "grant"
    BY <2>1 DEF Running, Top
  <2>3. IInv /\ Numbered /\ Ordered /\ stack \in Seq(Frame)
    BY DEF OInv, IInv, TypeOK
  <2> QED BY <2>2, <2>3, RunningParts, FrameKinds
<1>2. \A v \in waiters : ~(Top.cands = {} /\ Top.progressed) => v \in Top.cands \/ Rested(v)
  <2>1. \A v : ~NextIn(v)
    BY <1>1 DEF NextIn
  <2> QED BY <1>1, <2>1 DEF Ordered
<1>3. ASSUME NEW g \in GrantFrames
      PROVE  /\ g \in Frame /\ g.op = "grant" /\ Continue(g) \in Seq(Frame)
             /\ \A f : Granting(Continue(g), f) <=> f = g
  <2>1. g \in Frame /\ g.op = "grant"
    BY DEF GrantFrames, Frame
  <2>2. <<g>> \o Callers \in Seq(Frame)
    BY <1>1, <2>1
  <2> QED BY <1>1, <2>1, <2>2, GrantingPush DEF Continue
<1>4. ASSUME NEW g \in GrantFrames, \A f : Granting(stack', f) <=> f = g,
             \A v \in waiters' : v \in g.cands \/ Rested(v)' \/ NextIn(v)'
      PROVE  Ordered'
  <2>1. \A f : Granting(stack, f)' <=> f = g
    BY <1>4 DEF Granting
  <2> QED BY <1>4, <2>1 DEF Ordered
<1>5. CASE GrantRound
  <2> DEFINE g == [Top EXCEPT !.cands = QueueHeads, !.progressed = FALSE]
  <2>0. QueueHeads \in SUBSET Waiter
    BY <1>1 DEF QueueHeads, IInv, TypeOK
  <2>1. g \in GrantFrames /\ g.cands = QueueHeads
    BY <1>1, <2>0 DEF GrantFrames
  <2>2. stack' = Continue(g) /\ UNCHANGED <<locks, waiters>>
    BY <1>5 DEF GrantRound
  <2> HIDE DEF g
  <2>3. ASSUME NEW v \in waiters' PROVE v \in g.cands \/ Rested(v)'
    <3>1. CASE v \in QueueHeads
      BY <2>1, <3>1
    <3>2. CASE v \notin QueueHeads
      <4>1. v \in waiters
        BY <2>2
      <4>2. Rested(v)
        BY <1>1, <3>2, <4>1, BehindAnother DEF Rested
      <4> QED BY <2>2, <4>2, StillRested
    <3> QED BY <3>1, <3>2
  <2>4. \A f : Granting(stack', f) <=> f = g
    BY <1>3, <2>1, <2>2
  <2> QED BY <1>4, <2>1, <2>3, <2>4
<1>6. CASE GrantEnds
  <2>1. stack' = Callers /\ UNCHANGED <<locks, waiters>> /\ Top.cands = {} /\ ~Top.progressed
    BY <1>6 DEF GrantEnds
  <2>2. ASSUME NEW v \in waiters' PROVE Rested(v)'
    <3>1. v \in waiters
      BY <2>1
    <3>2. Rested(v)
      BY <1>2, <2>1, <3>1
    <3> QED BY <2>1, <3>2, StillRested
  <2> QED BY <2>2 DEF Ordered
<1>7. CASE GrantReleasesExpired
  BY <1>1, <1>7, ReleasedOrdered DEF GrantReleasesExpired
<1>8. CASE GrantSkips
  <2>1. PICK w \in Top.cands : /\ Blocking(w.path, w.holder) # {}
                               /\ stack' = Continue([Top EXCEPT !.cands = @ \ {w}])
    BY <1>8 DEF GrantSkips
  <2> DEFINE g == [Top EXCEPT !.cands = @ \ {w}]
  <2>2. g \in GrantFrames /\ g.cands = Top.cands \ {w} /\ Top.cands # {}
    BY <1>1, <2>1 DEF GrantFrames
  <2> HIDE DEF g
  <2>3. stack' = Continue(g) /\ UNCHANGED <<locks, waiters>>
    BY <1>8, <2>1 DEF GrantSkips, g
  <2>4. Rested(w)
    BY <2>1 DEF Rested, MustWait, Blocking
  <2>5. ASSUME NEW v \in waiters' PROVE v \in g.cands \/ Rested(v)'
    <3>1. v \in waiters
      BY <2>3
    <3>2. v \in Top.cands \/ Rested(v)
      BY <1>2, <2>2, <3>1
    <3>3. v \in g.cands \/ Rested(v)
      BY <2>2, <2>4, <3>2
    <3> QED BY <2>3, <3>3, StillRested
  <2>6. \A f : Granting(stack', f) <=> f = g
    BY <1>3, <2>2, <2>3
  <2> QED BY <1>4, <2>2, <2>5, <2>6
<1>9. CASE GrantTakes
  <2>1. PICK w \in Top.cands :
          /\ FirstIn(w, Top.cands)
          /\ Stale(w.holder) = {} /\ Blocking(w.path, w.holder) = {}
          /\ waiters' = waiters \ {w}
          /\ stack' = <<AcquireFrame(w.path, w.holder, FALSE, w.priority, w.id)>> \o
               Continue([Top EXCEPT !.cands = @ \ {w}, !.progressed = TRUE])
    BY <1>9 DEF GrantTakes
  <2> DEFINE a == AcquireFrame(w.path, w.holder, FALSE, w.priority, w.id)
             g == [Top EXCEPT !.cands = @ \ {w}, !.progressed = TRUE]
  <2>2. g \in GrantFrames /\ g.cands = Top.cands \ {w} /\ Top.cands # {}
    BY <1>1, <2>1 DEF GrantFrames
  <2>3. w \in Waiter
    BY <1>1 DEF GrantFrames
  <2>4. /\ a \in Frame /\ a.op = "acquire" /\ a.at = "check"
        /\ a.path = w.path /\ a.holder = w.holder
    BY <2>3 DEF AcquireFrame, AcquireFrames, Frame, Waiter
  <2> HIDE DEF a, g
  <2>5. stack' = <<a>> \o Continue(g) /\ UNCHANGED locks
    <3>1. UNCHANGED locks
      BY <1>9 DEF GrantTakes
    <3> QED BY <2>1, <3>1 DEF a, g
  <2>6. \A f : Granting(stack', f) <=> f = g
    BY <1>3, <2>2, <2>4, <2>5, GrantingPush
  <2>7. stack' # <<>> /\ Head(stack') = a
    BY <1>3, <2>2, <2>4, <2>5
  <2>8. w.path \notin Foreign(w.holder)
    <3>1. w.path \in Path
      BY <2>3 DEF Waiter
    <3> QED BY <2>1, <3>1, ConflictAssumption DEF Stale, Blocking, Foreign
  <2>9. ASSUME NEW v \in waiters, v # w, v.path = w.path PROVE NextIn(v)'
    <3>1. \A h, p : Foreign(h)' = Foreign(h) /\ Blocking(p, h)' = Blocking(p, h)
      BY <2>5 DEF Foreign, Blocking, Held
    <3>2. Top' = a
      BY <2>7 DEF Top
    <3> QED BY <2>1, <2>4, <2>7, <2>8, <2>9, <3>1, <3>2 DEF NextIn
  <2>10. ASSUME NEW v \in waiters, v # w, v.path # w.path, Rested(v) PROVE Rested(v)'
    <3>1. CASE MustWait(v) \/ HasIt(v)
      BY <2>5, <3>1 DEF Rested, MustWait, HasIt, Foreign, Held
    <3>2. CASE \E u \in waiters : u.path = v.path /\ Precedes(u, v)
      BY <2>1, <2>10, <3>2 DEF Rested
    <3> QED BY <2>10, <3>1, <3>2 DEF Rested
  <2>11. ASSUME NEW v \in waiters' PROVE v \in g.cands \/ Rested(v)' \/ NextIn(v)'
    <3>1. v \in waiters /\ v # w
      BY <2>1
    <3>2. v \in Top.cands \/ Rested(v)
      BY <1>2, <2>2, <3>1
    <3> QED BY <2>2, <2>9, <2>10, <3>1, <3>2
  <2> QED BY <1>4, <2>2, <2>6, <2>11
<1> QED BY <1>5, <1>6, <1>7, <1>8, <1>9

LEMMA OrderedLoops ==
  ASSUME OInv,
         \/ ScanReleasesExpired \/ ScanReturns \/ ScanFinds \/ QueryReturns
         \/ QueryReleases \/ AllReleasesExpired \/ AllReturns
         \/ CleanFindsExpired \/ CleanReleases \/ CleanReturns
  PROVE  Ordered'
<1>1. /\ stack # <<>> /\ Top.op \in {"scan", "found", "all", "clean", "evict"} /\ IInv /\ Ordered
      /\ stack \in Seq(Frame) /\ Callers \in Seq(Frame)
  <2>1. stack # <<>> /\ Top.op \in {"scan", "found", "all", "clean", "evict"} /\ IInv /\ Ordered
        /\ stack \in Seq(Frame)
    BY DEF OInv, IInv, TypeOK, Running, Top, ScanReleasesExpired, ScanReturns, ScanFinds,
           QueryReturns, QueryReleases, AllReleasesExpired, AllReturns, CleanFindsExpired, CleanReleases, CleanReturns
  <2> QED BY <2>1, RunningParts
<1>2. \A v : ~NextIn(v)
  BY <1>1 DEF NextIn
<1>3. CASE ScanReleasesExpired \/ QueryReleases \/ AllReleasesExpired \/ CleanReleases
  BY <1>1, <1>3, ReleasedOrdered
  DEF ScanReleasesExpired, QueryReleases, AllReleasesExpired, CleanReleases
<1>4. CASE ScanReturns \/ QueryReturns \/ AllReturns \/ CleanReturns
  BY <1>1, <1>2, <1>4, ReturnedOrdered DEF ScanReturns, QueryReturns, AllReturns, CleanReturns
<1>5. CASE CleanFindsExpired
  <2>1. PICK q \in Path : stack' = Emit \o <<[op |-> "evict", path |-> q]>> \o stack
    BY <1>5 DEF CleanFindsExpired
  <2> DEFINE f == [op |-> "evict", path |-> q]
  <2>2. f \in Frame /\ f.op # "grant"
    BY DEF Frame, EvictFrames
  <2>3. stack' = Emit \o (<<f>> \o stack)
    <3>1. CASE Listening BY <1>1, <2>1, <2>2, <3>1 DEF Emit, Frame, LoopFrames
    <3>2. CASE ~Listening BY <1>1, <2>1, <2>2, <3>2 DEF Emit
    <3> QED BY <3>1, <3>2
  <2> HIDE DEF f
  <2>4. <<f>> \o stack \in Seq(Frame) /\ \A g : Granting(<<f>> \o stack, g) <=> Granting(stack, g)
    BY <1>1, <2>2, GrantingPush
  <2>5. \A g : Granting(stack', g) => Granting(stack, g)
    BY <2>3, <2>4, GrantingEmit
  <2>6. UNCHANGED <<locks, waiters>>
    BY <1>5 DEF CleanFindsExpired
  <2>7. \A v \in waiters : Rested(v) \/ NextIn(v) => Rested(v)' \/ NextIn(v)'
    BY <1>2, <2>6, StillRested
  <2> QED BY <1>1, <2>5, <2>6, <2>7, OrderedKept
<1>6. CASE ScanFinds
  <2>1. PICK f \in Frame : f.op = "found" /\ stack' = <<f>> \o Callers
    BY <1>1, <1>6, FoundFrame DEF IInv, Continue
  <2>2. UNCHANGED <<locks, waiters>>
    BY <1>6 DEF ScanFinds
  <2>3. \A g : Granting(stack', g) => Granting(Callers, g)
    BY <1>1, <2>1, GrantingPush
  <2>4. \A g : Granting(Callers, g) => Granting(stack, g)
    BY <1>1, RunningParts
  <2>5. \A v \in waiters : Rested(v) \/ NextIn(v) => Rested(v)' \/ NextIn(v)'
    BY <1>2, <2>2, StillRested
  <2> QED BY <1>1, <2>2, <2>3, <2>4, <2>5, OrderedKept
<1> QED BY <1>3, <1>4, <1>5, <1>6

(* Only the outermost call queues its caller, with a number above all. *)
LEMMA NumberedStep ==
  ASSUME IInv, Numbered, [Next]_vars
  PROVE  Numbered'
<1>1. ASSUME waiters' \subseteq waiters, UNCHANGED waiterCounter PROVE Numbered'
  BY <1>1 DEF Numbered
<1>2. ASSUME NEW f, Deny(f) PROVE Numbered'
  <2>1. CASE UNCHANGED <<waiters, waiterCounter>>
    BY <1>1, <2>1
  <2>2. ASSUME NEW n, n.id = waiterCounter', waiterCounter' = waiterCounter + 1,
               waiters' = waiters \cup {n}
        PROVE  Numbered'
    <3>1. waiterCounter \in Nat /\ \A w \in waiters : w.id \in Nat
      BY BoundAssumption DEF IInv, TypeOK, Waiter, WaiterId
    <3> QED BY <2>2, <3>1 DEF Numbered
  <2> QED BY <1>2, <2>1, <2>2 DEF Deny
<1>4. CASE External
  BY <1>1, <1>4
  DEF External, Acquire, Release, Query, GetLockExpired, GetAll, StartExpiryCheck,
      StopExpiryCheck, Dispose
<1>5. CASE Timers
  BY <1>1, <1>5 DEF Timers, ExpiryTick, WaiterTimeout, LeaseRunsOut
<1>6. CASE AcquireCheck \/ AcquireRecheck \/ AcquireFindsConflict
  BY <1>1, <1>2, <1>6 DEF AcquireCheck, AcquireRecheck, AcquireFindsConflict
<1>3. CASE AcquireThrows \/ AcquireReleasesExpired \/ AcquireGrants \/ AcquireReturns
  BY <1>1, <1>3 DEF AcquireThrows, AcquireReleasesExpired, AcquireGrants, AcquireReturns
<1>7. CASE GrantRound \/ GrantEnds \/ GrantReleasesExpired \/ GrantSkips \/ GrantTakes
  BY <1>1, <1>7 DEF GrantRound, GrantEnds, GrantReleasesExpired, GrantSkips, GrantTakes
<1>8. CASE \/ ScanReleasesExpired \/ ScanReturns \/ ScanFinds \/ QueryReturns
           \/ QueryReleases \/ AllReleasesExpired \/ AllReturns
           \/ CleanFindsExpired \/ CleanReleases \/ CleanReturns
  BY <1>1, <1>8
  DEF ScanReleasesExpired, ScanReturns, ScanFinds, QueryReturns, QueryReleases,
      AllReleasesExpired, AllReturns, CleanFindsExpired, CleanReleases, CleanReturns
<1>9. CASE UNCHANGED vars
  BY <1>1, <1>9 DEF vars
<1> QED BY <1>3, <1>4, <1>5, <1>6, <1>7, <1>8, <1>9 DEF Next, Internal

LEMMA OInvStep == ASSUME OInv, [Next]_vars PROVE OInv'
<1>1. IInv' /\ Numbered'
  BY IInvStep, NumberedStep DEF OInv
<1>2. ASSUME Internal PROVE Ordered'
  BY <1>2, OrderedAcquire, OrderedGrant, OrderedLoops DEF Internal
<1>3. ASSUME UNCHANGED vars PROVE Ordered'
  <2>1. \A f : Granting(stack', f) => Granting(stack, f)
    BY <1>3 DEF vars
  <2>2. \A v : Rested(v) \/ NextIn(v) => Rested(v)' \/ NextIn(v)'
    BY <1>3 DEF vars, Rested, MustWait, HasIt, NextIn, Top, Foreign, Blocking, Held
  <2> QED BY <1>3, <2>1, <2>2, OrderedKept DEF OInv, vars
<1> QED BY <1>1, <1>2, <1>3, OrderedOutside, OrderedTimers DEF Next, OInv

LEMMA OInvInit == Init => OInv
<1> SUFFICES ASSUME Init PROVE OInv
  OBVIOUS
<1>1. IInv
  BY IInvInit
<1>2. stack = <<>> /\ waiters = {}
  BY DEF Init
<1> QED BY <1>1, <1>2 DEF OInv, Numbered, Ordered

(* The one that is taken is the first of the candidates, and who is not a  *)
(* candidate any more has something to wait for.                           *)
TakesInOrder ==
  \A w \in waiters \ waiters' :
    GrantTakes =>
      \A v \in waiters :
        Precedes(v, w) =>
          \/ MustWait(v) \/ HasIt(v)
          \/ \E u \in waiters : u.path = v.path /\ Precedes(u, v)

LEMMA TakingOrder ==
  ASSUME OInv
  PROVE  TakesInOrder
<1> SUFFICES ASSUME NEW w \in waiters \ waiters', GrantTakes,
                    NEW v \in waiters, Precedes(v, w)
             PROVE  Rested(v)
  BY DEF TakesInOrder, Rested
<1>1. PICK x \in Top.cands : FirstIn(x, Top.cands) /\ waiters' = waiters \ {x}
  BY DEF GrantTakes
<1>2. x = w
  BY <1>1
<1>3. stack # <<>> /\ Top.op = "grant"
  BY DEF GrantTakes, Running, Top
<1>4. Granting(stack, Top)
  BY <1>3, RunningParts DEF OInv
<1>5. v \in Top.cands \/ Rested(v)
  <2>1. ~NextIn(v)
    BY <1>3 DEF NextIn
  <2> QED BY <1>1, <1>4, <2>1 DEF OInv, Ordered
<1>6. ASSUME v \in Top.cands PROVE FALSE
  <2>1. v \in Waiter /\ w \in Waiter
    BY DEF OInv, IInv, TypeOK
  <2>2. v.priority \in Nat /\ w.priority \in Nat /\ v.id \in Nat /\ w.id \in Nat
    BY <2>1, BoundAssumption DEF Waiter, Priority, WaiterId
  <2>3. v # w
    BY <2>2 DEF Precedes
  <2>4. Ahead(w, v)
    BY <1>1, <1>2, <1>6, <2>3 DEF FirstIn
  <2> QED BY <2>2, <2>4 DEF Ahead, Precedes
<1> QED BY <1>5, <1>6

(* With scopes and priorities, whatever releases, grants and expiries nest:*)
(* a waiter is granted its path only when each waiter that precedes it, in *)
(* whichever queue, must wait for a lock or for another waiter, or waits   *)
(* for a path that its own holder has.                                     *)
THEOREM GrantOrder == Spec => GrantsInOrder
<1>1. OInv /\ [Next]_vars => OInv'
  BY OInvStep
<1>2. OInv => TakesInOrder
  BY TakingOrder
<1>3. Spec => [][TakesInOrder]_vars
  BY <1>1, <1>2, OInvInit, PTL DEF Spec
<1> QED BY <1>3 DEF GrantsInOrder, TakesInOrder

=============================================================================

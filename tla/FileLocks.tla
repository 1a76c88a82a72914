------------------------------ MODULE FileLocks ------------------------------
(***************************************************************************)
(* FileLockManager: the lease table of one daemon with its priority queues *)
(* of waiters.                                                             *)
(*                                                                         *)
(* Every call runs to completion on one thread, but it does not run in one *)
(* piece: releasing a lock grants waiters, granting looks for conflicts,   *)
(* looking for conflicts releases expired locks, and every change of the   *)
(* table is emitted to listeners that read the table (and release expired  *)
(* locks) in turn.  The variable "stack" holds the suspended calls of that *)
(* mutual recursion, the running one first, so that each action below is   *)
(* the code between two calls.  New calls and timers start only when it is *)
(* empty; a lease may run out at any moment.                               *)
(*                                                                         *)
(* Abstractions: the instants acquiredAt, expiresAt and "now" are reduced  *)
(* to whether a lease has run out; the insertion order of the Map is not   *)
(* kept, so a scan meets the locks in any order; names of holders, the     *)
(* responses' payload and the lock-waiter events are left out.             *)
(***************************************************************************)
EXTENDS Naturals, Sequences, FiniteSets

CONSTANTS Path,         \* file paths and "scope:" globs
          Conflict,     \* the pairs pathsConflict(a, b) relates
          Holder,       \* peer ids
          NoHolder,     \* an undefined holder id
          MaxLocks,     \* MAX_LOCKS
          MaxWaiters,   \* MAX_LOCK_WAITERS
          MaxPriority,  \* MAX_LOCK_PRIORITY (MIN_LOCK_PRIORITY is 0)
          Requested,    \* the priorities callers ask for
          Listening,    \* TRUE: the listeners SyncOrchestrator installs run
          TokenBound,   \* bound: calls start while fewer tokens were issued
          WaiterBound   \* bound: calls that may wait in one behaviour

ASSUME PathAssumption == IsFiniteSet(Path)
ASSUME ConflictAssumption ==
  /\ Conflict \subseteq Path \X Path
  /\ \A p \in Path : <<p, p>> \in Conflict
  /\ \A p, q \in Path : <<p, q>> \in Conflict => <<q, p>> \in Conflict
ASSUME HolderAssumption == NoHolder \notin Holder
ASSUME BoundAssumption ==
  /\ MaxLocks \in Nat /\ MaxWaiters \in Nat /\ MaxPriority \in Nat
  /\ TokenBound \in Nat /\ WaiterBound \in Nat
  /\ Requested \subseteq Nat
  /\ Listening \in BOOLEAN

VARIABLES locks,        \* the table: path -> lock, or Free
          waiters,      \* the records of all wait queues
          waiterCounter,\* id of the last waiter queued
          tokenCounter, \* last fencing token issued
          promise,      \* the promise each queued caller holds
          expiryTimer,  \* whether the expiry interval is running
          stack         \* suspended calls, the running one first

vars == <<locks, waiters, waiterCounter, tokenCounter, promise, expiryTimer, stack>>

(***************************************************************************)
(* Data.  Definitions named ...Forgotten, ...Silent, ...TooLate and the    *)
(* like, each just before the one it distorts, are faults a maintainer     *)
(* could introduce; no specification uses them, they serve to confirm that *)
(* the properties would notice.                                            *)
(***************************************************************************)
WaiterId == 1 .. WaiterBound
Priority == 0 .. MaxPriority
Lock == [holder : Holder, token : Nat, expired : BOOLEAN]
Free == [holder |-> NoHolder, token |-> 0, expired |-> FALSE]
Waiter == [id : WaiterId, path : Path, holder : Holder, priority : Priority]
Outcome == {"unused", "pending", "granted", "denied", "timedOut", "disposed"}

(* A suspended call.  at: where it continues; waiter: the queued caller a  *)
(* grant is for, 0 when the call came from outside; path of an evict      *)
(* frame: the entry whose lock-expired event is being handled; lock of a   *)
(* found frame: the entry that a query of the path found in its way.       *)
AcquireFrames ==
  [op : {"acquire"}, path : Path, holder : Holder, wait : BOOLEAN,
   priority : Priority, waiter : WaiterId \cup {0},
   at : {"check", "recheck", "scan", "return"}]
ScanFrames == [op : {"scan"}, path : Path, holder : Holder \cup {NoHolder}]
FoundFrames == [op : {"found"}, path : Path, lock : Path]
GrantFrames == [op : {"grant"}, cands : SUBSET Waiter, progressed : BOOLEAN]
LoopFrames == [op : {"all", "clean"}]
EvictFrames == [op : {"evict"}, path : Path]
Frame == AcquireFrames \cup ScanFrames \cup FoundFrames \cup GrantFrames
         \cup LoopFrames \cup EvictFrames

Held == {p \in Path : locks[p].holder # NoHolder}
Live(p) == p \in Held /\ ~locks[p].expired
Expired(p) == p \in Held /\ locks[p].expired

(* The locks a scan for a holder looks at: everybody else's.  It stops at  *)
(* an unexpired one in conflict with the path, and releases expired ones.  *)
Foreign(h) == {q \in Held : locks[q].holder # h}
BlockingSamePath(p, h) == {q \in Foreign(h) : ~locks[q].expired /\ q = p}
Blocking(p, h) == {q \in Foreign(h) : ~locks[q].expired /\ <<p, q>> \in Conflict}
StaleIgnoringLease(h) == Foreign(h)
Stale(h) == {q \in Foreign(h) : locks[q].expired}

(* locks.size >= MAX_LOCKS; entries not swept yet count.                   *)
FullTooLate == Cardinality(Held) > MaxLocks
Full == Cardinality(Held) >= MaxLocks

Clamp(n) == IF n > MaxPriority THEN MaxPriority ELSE n

(* The order of a wait queue: priority, then arrival.                      *)
AheadNewestFirst(v, w) == v.id > w.id
Ahead(v, w) == \/ v.priority > w.priority
               \/ v.priority = w.priority /\ v.id < w.id
FirstIn(w, S) == \A v \in S \ {w} : Ahead(w, v)
Queue(p) == {w \in waiters : w.path = p}
QueueHeads == {w \in waiters : FirstIn(w, Queue(w.path))}

(***************************************************************************)
(* The call stack.                                                         *)
(***************************************************************************)
Idle == stack = <<>>
Running(op) == stack # <<>> /\ Head(stack).op = op
Top == Head(stack)
Callers == Tail(stack)
Continue(frame) == <<frame>> \o Callers

(* emit(...): the listeners publish getAll() through the awareness, before *)
(* the code after the emit runs.                                           *)
Emit == IF Listening THEN <<[op |-> "all"]>> ELSE <<>>

(* releaseLock: delete, emit lock-released, grantEligibleWaiters.          *)
AfterDeleteNoGrant == Emit
AfterDelete == Emit \o <<[op |-> "grant", cands |-> {}, progressed |-> TRUE]>>
ReleaseLock(p, rest) ==
  /\ locks' = [locks EXCEPT ![p] = Free]
  /\ stack' = AfterDelete \o rest

(***************************************************************************)
(* Calls from outside.                                                     *)
(***************************************************************************)
AcquireFrame(p, h, wait, n, w) ==
  [op |-> "acquire", path |-> p, holder |-> h, wait |-> wait,
   priority |-> n, waiter |-> w, at |-> "check"]

(* acquire(path, holder), acquireQueued(path, holder, {wait, priority}).   *)
(* A priority only matters to a call that waits.                           *)
Acquire(p, h, wait, n) ==
  /\ Idle
  /\ tokenCounter < TokenBound
  /\ IF wait THEN waiterCounter < WaiterBound ELSE n = 0
  /\ stack' = <<AcquireFrame(p, h, wait, Clamp(n), 0)>>
  /\ UNCHANGED <<locks, waiters, waiterCounter, tokenCounter, promise, expiryTimer>>

(* release(path, caller, force): anything else returns without a change.   *)
Release(p, h, force) ==
  /\ Idle
  /\ p \in Held
  /\ force \/ locks[p].holder = h
  /\ ReleaseLock(p, <<>>)
  /\ UNCHANGED <<waiters, waiterCounter, tokenCounter, promise, expiryTimer>>

(* isLockedByOther(path, holder); getLock(path) when the path itself is    *)
(* not in the table scans with no holder.  What follows the scan is below, *)
(* from ScanFinds to QueryReleases.                                        *)
Query(p, h) ==
  /\ Idle
  /\ h = NoHolder => p \notin Held
  /\ stack' = <<[op |-> "scan", path |-> p, holder |-> h]>>
  /\ UNCHANGED <<locks, waiters, waiterCounter, tokenCounter, promise, expiryTimer>>

(* getLock(path) on an entry whose lease has run out.                      *)
GetLockExpired(p) ==
  /\ Idle
  /\ Expired(p)
  /\ ReleaseLock(p, <<>>)
  /\ UNCHANGED <<waiters, waiterCounter, tokenCounter, promise, expiryTimer>>

(* getAll() *)
GetAll ==
  /\ Idle
  /\ stack' = <<[op |-> "all"]>>
  /\ UNCHANGED <<locks, waiters, waiterCounter, tokenCounter, promise, expiryTimer>>

(* One tick of the expiry interval calls cleanExpired().                   *)
ExpiryTick ==
  /\ Idle
  /\ expiryTimer
  /\ \E p \in Path : Expired(p)
  /\ stack' = <<[op |-> "clean"]>>
  /\ UNCHANGED <<locks, waiters, waiterCounter, tokenCounter, promise, expiryTimer>>

StartExpiryCheck ==
  /\ Idle
  /\ ~expiryTimer
  /\ expiryTimer' = TRUE
  /\ UNCHANGED <<locks, waiters, waiterCounter, tokenCounter, promise, stack>>

StopExpiryCheck ==
  /\ Idle
  /\ expiryTimer
  /\ expiryTimer' = FALSE
  /\ UNCHANGED <<locks, waiters, waiterCounter, tokenCounter, promise, stack>>

(* A waiter's own timer: removeWaiter, then the promise is rejected.       *)
WaiterTimeoutSilent(w) ==
  /\ Idle
  /\ w \in waiters
  /\ waiters' = waiters \ {w}
  /\ UNCHANGED <<locks, waiterCounter, tokenCounter, promise, expiryTimer, stack>>

WaiterTimeout(w) ==
  /\ Idle
  /\ w \in waiters
  /\ waiters' = waiters \ {w}
  /\ promise' = [promise EXCEPT ![w.id] = "timedOut"]
  /\ UNCHANGED <<locks, waiterCounter, tokenCounter, expiryTimer, stack>>

DisposeSilent ==
  /\ Idle
  /\ locks' = [p \in Path |-> Free]
  /\ waiters' = {}
  /\ expiryTimer' = FALSE
  /\ UNCHANGED <<waiterCounter, tokenCounter, promise, stack>>

Dispose ==
  /\ Idle
  /\ locks' = [p \in Path |-> Free]
  /\ waiters' = {}
  /\ promise' = [i \in WaiterId |->
       IF \E w \in waiters : w.id = i THEN "disposed" ELSE promise[i]]
  /\ expiryTimer' = FALSE
  /\ UNCHANGED <<waiterCounter, tokenCounter, stack>>

(* Time passes and the lease of p runs out, whatever is being executed.    *)
LeaseRunsOut(p) ==
  /\ Live(p)
  /\ locks' = [locks EXCEPT ![p].expired = TRUE]
  /\ UNCHANGED <<waiters, waiterCounter, tokenCounter, promise, expiryTimer, stack>>

(***************************************************************************)
(* acquire, step by step.                                                  *)
(***************************************************************************)

(* A call that ends without the lock.  The promise of a queued caller is   *)
(* resolved with granted: false; an outside caller that asked to wait is   *)
(* queued unless all queues together are full (then its call is rejected). *)
Deny(f) ==
  /\ stack' = Callers
  /\ \/ /\ f.waiter # 0
        /\ promise' = IF promise[f.waiter] = "pending"
                        THEN [promise EXCEPT ![f.waiter] = "denied"] ELSE promise
        /\ UNCHANGED <<waiters, waiterCounter>>
     \/ /\ f.waiter = 0 /\ f.wait /\ Cardinality(waiters) < MaxWaiters
        /\ waiterCounter' = waiterCounter + 1
        /\ waiters' = waiters \cup
             {[id |-> waiterCounter', path |-> f.path, holder |-> f.holder,
               priority |-> f.priority]}
        /\ promise' = [promise EXCEPT ![waiterCounter'] = "pending"]
     \/ /\ f.waiter = 0 /\ (f.wait => Cardinality(waiters) >= MaxWaiters)
        /\ UNCHANGED <<waiters, waiterCounter, promise>>
  /\ UNCHANGED <<locks, tokenCounter, expiryTimer>>

(* "Max locks reached" is thrown through every suspended call.             *)
AcquireThrows ==
  /\ Running("acquire") /\ Top.at = "check"
  /\ Top.path \notin Held
  /\ Full
  /\ stack' = <<>>
  /\ UNCHANGED <<locks, waiters, waiterCounter, tokenCounter, promise, expiryTimer>>

(* The first test of the entry for the path itself.                        *)
AcquireCheck ==
  /\ Running("acquire") /\ Top.at = "check"
  /\ Top.path \in Held \/ ~Full
  /\ \/ /\ Top.path \notin Held \/ locks[Top.path].holder = Top.holder
        /\ stack' = Continue([Top EXCEPT !.at = "scan"])
        /\ UNCHANGED <<locks, waiters, waiterCounter, tokenCounter, promise, expiryTimer>>
     \/ /\ Top.path \in Stale(Top.holder)
        /\ ReleaseLock(Top.path, Continue([Top EXCEPT !.at = "recheck"]))
        /\ UNCHANGED <<waiters, waiterCounter, tokenCounter, promise, expiryTimer>>
     \/ /\ Top.path \in Foreign(Top.holder) \ Stale(Top.holder)
        /\ Deny(Top)

(* After its expired lock was released a waiter may have taken the path.   *)
AcquireRecheck ==
  /\ Running("acquire") /\ Top.at = "recheck"
  /\ \/ /\ Top.path \in Foreign(Top.holder)
        /\ Deny(Top)
     \/ /\ Top.path \notin Foreign(Top.holder)
        /\ stack' = Continue([Top EXCEPT !.at = "scan"])
        /\ UNCHANGED <<locks, waiters, waiterCounter, tokenCounter, promise, expiryTimer>>

(* getConflictingLock meets an expired lock, a conflict, or neither.       *)
AcquireReleasesExpired ==
  /\ Running("acquire") /\ Top.at = "scan"
  /\ \E q \in Stale(Top.holder) : ReleaseLock(q, stack)
  /\ UNCHANGED <<waiters, waiterCounter, tokenCounter, promise, expiryTimer>>

AcquireFindsConflict ==
  /\ Running("acquire") /\ Top.at = "scan"
  /\ Blocking(Top.path, Top.holder) # {}
  /\ Deny(Top)

AcquireGrantsSameToken ==
  /\ Running("acquire") /\ Top.at = "scan"
  /\ Stale(Top.holder) = {} /\ Blocking(Top.path, Top.holder) = {}
  /\ tokenCounter' = Cardinality(Held \cup {Top.path})
  /\ locks' = [locks EXCEPT ![Top.path] =
       [holder |-> Top.holder, token |-> tokenCounter', expired |-> FALSE]]
  /\ stack' = Emit \o Continue([Top EXCEPT !.at = "return"])
  /\ UNCHANGED <<waiters, waiterCounter, promise, expiryTimer>>

AcquireGrants ==
  /\ Running("acquire") /\ Top.at = "scan"
  /\ Stale(Top.holder) = {} /\ Blocking(Top.path, Top.holder) = {}
  /\ tokenCounter' = tokenCounter + 1
  /\ locks' = [locks EXCEPT ![Top.path] =
       [holder |-> Top.holder, token |-> tokenCounter', expired |-> FALSE]]
  /\ stack' = Emit \o Continue([Top EXCEPT !.at = "return"])
  /\ UNCHANGED <<waiters, waiterCounter, promise, expiryTimer>>

(* The granted response reaches the caller; resolving twice has no effect. *)
AcquireReturns ==
  /\ Running("acquire") /\ Top.at = "return"
  /\ stack' = Callers
  /\ promise' = [i \in WaiterId |->
       IF i = Top.waiter /\ promise[i] = "pending" THEN "granted" ELSE promise[i]]
  /\ UNCHANGED <<locks, waiters, waiterCounter, tokenCounter, expiryTimer>>

(***************************************************************************)
(* grantEligibleWaiters, step by step.                                     *)
(***************************************************************************)

(* A round of the while loop: the heads of the queues, taken once.         *)
GrantRound ==
  /\ Running("grant") /\ Top.cands = {} /\ Top.progressed
  /\ stack' = Continue([Top EXCEPT !.cands = QueueHeads, !.progressed = FALSE])
  /\ UNCHANGED <<locks, waiters, waiterCounter, tokenCounter, promise, expiryTimer>>

GrantEnds ==
  /\ Running("grant") /\ Top.cands = {} /\ ~Top.progressed
  /\ stack' = Callers
  /\ UNCHANGED <<locks, waiters, waiterCounter, tokenCounter, promise, expiryTimer>>

GrantReleasesExpired ==
  /\ Running("grant")
  /\ \E w \in Top.cands :
       /\ FirstIn(w, Top.cands)
       /\ \E q \in Stale(w.holder) : ReleaseLock(q, stack)
  /\ UNCHANGED <<waiters, waiterCounter, tokenCounter, promise, expiryTimer>>

GrantSkipsProgressing ==
  /\ Running("grant")
  /\ \E w \in Top.cands :
       /\ FirstIn(w, Top.cands)
       /\ Blocking(w.path, w.holder) # {}
       /\ stack' = Continue([Top EXCEPT !.cands = @ \ {w}, !.progressed = TRUE])
  /\ UNCHANGED <<locks, waiters, waiterCounter, tokenCounter, promise, expiryTimer>>

GrantSkips ==
  /\ Running("grant")
  /\ \E w \in Top.cands :
       /\ FirstIn(w, Top.cands)
       /\ Blocking(w.path, w.holder) # {}
       /\ stack' = Continue([Top EXCEPT !.cands = @ \ {w}])
  /\ UNCHANGED <<locks, waiters, waiterCounter, tokenCounter, promise, expiryTimer>>

(* The candidate leaves its queue and loses its timer, then acquires.  A   *)
(* call suspended during the scan may have granted it already.             *)
GrantTakes ==
  /\ Running("grant")
  /\ \E w \in Top.cands :
       /\ FirstIn(w, Top.cands)
       /\ Stale(w.holder) = {} /\ Blocking(w.path, w.holder) = {}
       /\ waiters' = waiters \ {w}
       /\ stack' = <<AcquireFrame(w.path, w.holder, FALSE, w.priority, w.id)>> \o
            Continue([Top EXCEPT !.cands = @ \ {w}, !.progressed = TRUE])
  /\ UNCHANGED <<locks, waiterCounter, tokenCounter, promise, expiryTimer>>

(***************************************************************************)
(* The other loops over the table.                                         *)
(***************************************************************************)
ScanReleasesExpired ==
  /\ Running("scan")
  /\ \E q \in Stale(Top.holder) : ReleaseLock(q, stack)
  /\ UNCHANGED <<waiters, waiterCounter, tokenCounter, promise, expiryTimer>>

ScanReturns ==
  /\ Running("scan")
  /\ Stale(Top.holder) = {} /\ Blocking(Top.path, Top.holder) = {}
  /\ stack' = Callers
  /\ UNCHANGED <<locks, waiters, waiterCounter, tokenCounter, promise, expiryTimer>>

(* The scan reads the clock once, at its start: a lock that it still takes *)
(* for running may have run out by now.  Nothing else has met that lock    *)
(* since, or it would be gone, so its lease may as well run out next.      *)
ScanFinds ==
  /\ Running("scan")
  /\ \E q \in Blocking(Top.path, Top.holder) :
       stack' = Continue([op |-> "found", path |-> Top.path, lock |-> q])
  /\ UNCHANGED <<locks, waiters, waiterCounter, tokenCounter, promise, expiryTimer>>

(* The query reads the clock again.  When the lock it found has run out by *)
(* then, it releases the path it was asked about, whatever that holds.     *)
QueryReturns ==
  /\ Running("found")
  /\ ~Expired(Top.lock)
  /\ stack' = Callers
  /\ UNCHANGED <<locks, waiters, waiterCounter, tokenCounter, promise, expiryTimer>>

QueryReleases ==
  /\ Running("found")
  /\ Expired(Top.lock)
  /\ ReleaseLock(Top.path, Callers)
  /\ UNCHANGED <<waiters, waiterCounter, tokenCounter, promise, expiryTimer>>

AllReleasesExpired ==
  /\ Running("all")
  /\ \E q \in Path : Expired(q) /\ ReleaseLock(q, stack)
  /\ UNCHANGED <<waiters, waiterCounter, tokenCounter, promise, expiryTimer>>

AllReturns ==
  /\ Running("all")
  /\ \A q \in Path : ~Expired(q)
  /\ stack' = Callers
  /\ UNCHANGED <<locks, waiters, waiterCounter, tokenCounter, promise, expiryTimer>>

(* cleanExpired emits lock-expired first and calls releaseLock after.      *)
CleanFindsExpired ==
  /\ Running("clean")
  /\ \E q \in Path : /\ Expired(q)
                     /\ stack' = Emit \o <<[op |-> "evict", path |-> q]>> \o stack
  /\ UNCHANGED <<locks, waiters, waiterCounter, tokenCounter, promise, expiryTimer>>

(* releaseLock deletes whatever the path holds by now.                     *)
CleanReleases ==
  /\ Running("evict")
  /\ ReleaseLock(Top.path, Callers)
  /\ UNCHANGED <<waiters, waiterCounter, tokenCounter, promise, expiryTimer>>

CleanReturns ==
  /\ Running("clean")
  /\ \A q \in Path : ~Expired(q)
  /\ stack' = Callers
  /\ UNCHANGED <<locks, waiters, waiterCounter, tokenCounter, promise, expiryTimer>>

(***************************************************************************)
(* The specification.                                                      *)
(***************************************************************************)
Init ==
  /\ locks = [p \in Path |-> Free]
  /\ waiters = {}
  /\ waiterCounter = 0
  /\ tokenCounter = 0
  /\ promise = [i \in WaiterId |-> "unused"]
  /\ expiryTimer = FALSE
  /\ stack = <<>>

External ==
  \/ \E p \in Path, h \in Holder, wait \in BOOLEAN, n \in Requested :
       Acquire(p, h, wait, n)
  \/ \E p \in Path, h \in Holder, force \in BOOLEAN : Release(p, h, force)
  \/ \E p \in Path, h \in Holder \cup {NoHolder} : Query(p, h)
  \/ \E p \in Path : GetLockExpired(p)
  \/ GetAll
  \/ StartExpiryCheck
  \/ StopExpiryCheck
  \/ Dispose

Timers ==
  \/ ExpiryTick
  \/ \E w \in waiters : WaiterTimeout(w)
  \/ \E p \in Path : LeaseRunsOut(p)

Internal ==
  \/ AcquireThrows \/ AcquireCheck \/ AcquireRecheck \/ AcquireReleasesExpired
  \/ AcquireFindsConflict \/ AcquireGrants \/ AcquireReturns
  \/ GrantRound \/ GrantEnds \/ GrantReleasesExpired \/ GrantSkips \/ GrantTakes
  \/ ScanReleasesExpired \/ ScanReturns \/ ScanFinds \/ QueryReturns \/ QueryReleases
  \/ AllReleasesExpired \/ AllReturns
  \/ CleanFindsExpired \/ CleanReleases \/ CleanReturns

Next == External \/ Timers \/ Internal

Spec == Init /\ [][Next]_vars

(* A started call keeps executing.  A due timer runs in the event loop     *)
(* although other calls keep coming: strong fairness, since it can only    *)
(* start between two calls.                                                *)
FairSpec ==
  /\ Spec
  /\ WF_vars(Internal)
  /\ \A i \in WaiterId : SF_vars(\E w \in waiters : w.id = i /\ WaiterTimeout(w))

(***************************************************************************)
(* Properties.                                                             *)
(***************************************************************************)

(* Every variable stays in its type. *)
TypeOK ==
  /\ locks \in [Path -> Lock \cup {Free}]
  /\ waiters \subseteq Waiter
  /\ waiterCounter \in 0 .. WaiterBound
  /\ tokenCounter \in Nat
  /\ promise \in [WaiterId -> Outcome]
  /\ expiryTimer \in BOOLEAN
  /\ stack \in Seq(Frame)

(* Two holders never have unexpired locks on conflicting paths, through    *)
(* every interleaving of releases, scopes, expiries and nested grants.     *)
MutualExclusion ==
  \A p, q \in Path :
    (Live(p) /\ Live(q) /\ <<p, q>> \in Conflict) => locks[p].holder = locks[q].holder

(* Fencing tokens identify grants: no two entries of the table carry the   *)
(* same token, and none carries a token not issued yet.                    *)
TokensDistinct ==
  \A p, q \in Held :
    /\ locks[p].token \in 1 .. tokenCounter
    /\ locks[p].token = locks[q].token => p = q

(* "Only the lock holder can release unless force": a lock whose lease is  *)
(* running leaves the table only because its holder released it, an admin  *)
(* forced it or the manager was disposed; in particular no expiry sweep    *)
(* and no newcomer takes it away.  The code has one exception, and the     *)
(* property names it: a query of the path that found another lock of the   *)
(* same holder in conflict with it, which ran out between the scan and the *)
(* second look at the clock, deletes the lock of the path it was asked     *)
(* about.  With locks on single files there is no such other lock.         *)
QueryDeletesOwn(p) ==
  /\ QueryReleases
  /\ Top.path = p /\ Top.lock # p
  /\ <<p, Top.lock>> \in Conflict
  /\ locks[Top.lock].holder = locks[p].holder
OnlyHolderReleases ==
  [][\A p \in Path :
       (Live(p) /\ locks'[p].holder # locks[p].holder) =>
          \/ Release(p, locks[p].holder, FALSE)
          \/ \E h \in Holder : Release(p, h, TRUE)
          \/ Dispose
          \/ QueryDeletesOwn(p)]_vars

(* A waiter leaves its queue for a grant only when every waiter that       *)
(* precedes it (higher priority, or as high and earlier), in whichever     *)
(* queue, must wait for somebody's lock or stands behind another waiter,   *)
(* or waits for a path its own holder has.                                 *)
Precedes(v, w) == \/ v.priority > w.priority
                  \/ v.priority = w.priority /\ v.id < w.id
MustWait(w) == \E q \in Foreign(w.holder) : <<w.path, q>> \in Conflict
HasIt(w) == locks[w.path].holder = w.holder
GrantsInOrder ==
  [][\A w \in waiters \ waiters' :
       GrantTakes =>
         \A v \in waiters :
           Precedes(v, w) =>
             \/ MustWait(v) \/ HasIt(v)
             \/ \E u \in waiters : u.path = v.path /\ Precedes(u, v)]_vars

(* Between calls, the head of each wait queue is kept waiting by a lock of *)
(* somebody else (running or not yet swept), or its holder already has the *)
(* path from another of its calls: nobody waits for nothing.               *)
NoIdleWaiter ==
  Idle => \A w \in waiters :
            \/ MustWait(w) \/ HasIt(w)
            \/ \E v \in waiters : v.path = w.path /\ Precedes(v, w)

(* A caller whose promise is pending is in a queue (where its timer will   *)
(* end the wait) or is being granted the lock right now.                   *)
NoOrphan ==
  \A i \in WaiterId : promise[i] = "pending" =>
    \/ \E w \in waiters : w.id = i
    \/ \E k \in DOMAIN stack : stack[k].op = "acquire" /\ stack[k].waiter = i

(* The table never exceeds MAX_LOCKS, the queues never MAX_LOCK_WAITERS.   *)
Capacity ==
  /\ Cardinality(Held) <= MaxLocks
  /\ Cardinality(waiters) <= MaxWaiters

(* The recursion between releasing, granting and scanning always ends.     *)
CallsReturn == (~Idle) ~> Idle

(* A caller that waits gets an answer: the lock, a denial or an error.     *)
EveryWaiterAnswered ==
  \A i \in WaiterId : (promise[i] = "pending") ~> (promise[i] # "pending")

(* The abstract lock service: who may rely on a path, and with which token.*)
Abstract == INSTANCE ExclusiveLocks WITH
  owner <- [p \in Path |-> IF Live(p) THEN locks[p].holder ELSE NoHolder],
  fence <- [p \in Path |-> IF Live(p) THEN locks[p].token ELSE 0],
  issued <- tokenCounter

(* The lease table with all its machinery behaves as exclusive locks.      *)
ImplementsExclusiveLocks == Abstract!Spec
=============================================================================

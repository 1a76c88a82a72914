------------------------------ MODULE GateQueue ------------------------------
(***************************************************************************)
(* The propagation gate of SyncOrchestrator: what happens to an update of  *)
(* a local edit between the CRDT and the transport.  It is sent, or queued *)
(* while somebody else works on the file: a local lock of another holder,  *)
(* a remote edit within the gate window, a peer whose awareness names the  *)
(* file, or a lock a peer advertises.  Queued updates leave by the drain   *)
(* timer, by the end of a lock, or by an overflow.                         *)
(*                                                                         *)
(* Abstractions: an update is its number, file and size.  The updates of   *)
(* one drain leave in one step, because no other handler runs between      *)
(* them.  A pause is a flag (PauseBuffer has its reasons).  Whether a sent *)
(* update arrives depends on the socket at that moment.                    *)
(***************************************************************************)
EXTENDS SyncState, FiniteSets, FiniteSetsExt

CONSTANTS File, Peer,
          NoFile,       \* a peer that has named no file yet
          Size,         \* sizes of updates
          MaxUpdates,   \* MAX_BUFFERED_UPDATES
          MaxBytes,     \* MAX_BUFFERED_BYTES
          LockHolder,   \* who takes local locks: "self", "other"
          MadeBound     \* bound: updates made in one behaviour

ASSUME SizeAssumption == Size \subseteq Nat
ASSUME LimitAssumption == MaxUpdates \in Nat /\ MaxBytes \in Nat /\ MadeBound \in Nat
ASSUME PlaceAssumption == NoFile \notin File /\ LockHolder \subseteq {"self", "other"}

VARIABLES queue,       \* gateQueue: the updates held back
          queueBytes,  \* gateQueueBytes
          made,        \* updates the CRDT has produced
          sent,        \* updates given to an open socket
          lost,        \* updates given to a closed one
          paused,      \* isPaused
          recent,      \* files with a remote edit within GATE_WINDOW_MS
          editing,     \* the file each known peer's awareness names
          advertised,  \* the unexpired locks each known peer advertises
          held         \* the local lock table: file -> holder or "nobody"

gateVars == <<queue, queueBytes, made, sent, lost>>
worldVars == <<paused, recent, editing, advertised, held>>
vars == <<syncVars, gateVars, worldVars>>

Update == [id : 1 .. MadeBound, path : File, size : Size]

TypeOK ==
  /\ SyncTypeOK
  /\ queue \subseteq Update /\ sent \subseteq Update /\ lost \subseteq Update
  /\ queueBytes \in Nat
  /\ made \in 0 .. MadeBound
  /\ paused \in BOOLEAN
  /\ recent \subseteq File
  /\ editing \in [Peer -> File \cup {NoFile}]
  /\ advertised \in [Peer -> SUBSET File]
  /\ held \in [File -> LockHolder \cup {"nobody"}]

Init ==
  /\ SyncInit
  /\ queue = {} /\ queueBytes = 0 /\ made = 0 /\ sent = {} /\ lost = {}
  /\ paused = FALSE /\ recent = {}
  /\ editing = [p \in Peer |-> NoFile]
  /\ advertised = [p \in Peer |-> {}]
  /\ held = [f \in File |-> "nobody"]

(***************************************************************************)
(* The gate.  As in FileLocks, a definition placed just before another and *)
(* named after a fault is that fault; no specification uses it.            *)
(***************************************************************************)
Bytes(S) == MapThenSumSet(LAMBDA u : u.size, S)
QueueOf(f) == {u \in queue : u.path = f}

LockedByOther(f) == held[f] = "other"
ShouldGate(f) == \/ f \in recent
                 \/ \E p \in Peer : editing[p] = f \/ f \in advertised[p]
Gated(f) == LockedByOther(f) \/ ShouldGate(f)

OverflowsTooLate(u) ==
  Cardinality(queue) > MaxUpdates \/ queueBytes + u.size > MaxBytes
Overflows(u) ==
  Cardinality(queue) >= MaxUpdates \/ queueBytes + u.size > MaxBytes

(* transport.sendUpdate: what the transport does with a frame on a socket  *)
(* that is not open is to drop it.                                         *)
Send(U) ==
  IF conn = "connected" THEN sent' = sent \cup U /\ UNCHANGED lost
                        ELSE lost' = lost \cup U /\ UNCHANGED sent

(***************************************************************************)
(* Local edits.  The handlers of the watcher ignore an edit while paused   *)
(* or not syncing; otherwise the CRDT emits its update, which is routed at *)
(* once.                                                                   *)
(***************************************************************************)
Makes(u) ==
  /\ Syncing /\ ~paused /\ made < MadeBound
  /\ u.id = made + 1
  /\ made' = u.id

Propagate(u) ==
  /\ Makes(u)
  /\ ~Gated(u.path)
  /\ Send({u})
  /\ UNCHANGED <<queue, queueBytes>>

Enqueue(u) ==
  /\ Makes(u)
  /\ Gated(u.path) /\ ~Overflows(u)
  /\ queue' = queue \cup {u}
  /\ queueBytes' = queueBytes + u.size
  /\ UNCHANGED <<sent, lost>>

OverflowDropsQueue(u) ==
  /\ Makes(u)
  /\ Gated(u.path) /\ Overflows(u)
  /\ Send({u})
  /\ queue' = {} /\ queueBytes' = 0
Overflow(u) ==
  /\ Makes(u)
  /\ Gated(u.path) /\ Overflows(u)
  /\ Send(queue \cup {u})
  /\ queue' = {} /\ queueBytes' = 0

LocalUpdate ==
  /\ \E f \in File, n \in Size :
       LET u == [id |-> made + 1, path |-> f, size |-> n]
       IN  Propagate(u) \/ Enqueue(u) \/ Overflow(u)
  /\ UNCHANGED <<syncVars, worldVars>>

(***************************************************************************)
(* Draining.                                                               *)
(***************************************************************************)
DrainForgetsDelete(U) ==
  /\ Send(U)
  /\ queueBytes' = queueBytes - Bytes(U)
  /\ UNCHANGED <<made, queue>>
DrainKeepingBytes(U) ==
  /\ Send(U)
  /\ queue' = queue \ U
  /\ UNCHANGED <<made, queueBytes>>
Drain(U) ==
  /\ Send(U)
  /\ queue' = queue \ U
  /\ queueBytes' = queueBytes - Bytes(U)
  /\ UNCHANGED made

(* One tick of the drain timer: every file whose gate has cleared.  It     *)
(* does not ask whether the engine is paused.                              *)
DrainTickStopsAtGate ==
  /\ timers /\ Syncing
  /\ queue # {} /\ \A u \in queue : ~Gated(u.path)
  /\ Drain(queue)
  /\ UNCHANGED <<syncVars, worldVars>>
DrainTick ==
  /\ timers /\ Syncing
  /\ LET clear == {u \in queue : ~Gated(u.path)}
     IN  clear # {} /\ Drain(clear)
  /\ UNCHANGED <<syncVars, worldVars>>

(* lock-released or lock-expired: the file's updates leave, whatever the   *)
(* gate and the connection say.                                            *)
LockEnds(f) ==
  /\ ~Stopping /\ held[f] # "nobody"
  /\ held' = [held EXCEPT ![f] = "nobody"]
  /\ Drain(QueueOf(f))
  /\ UNCHANGED <<syncVars, paused, recent, editing, advertised>>

LockTaken(f, h) ==
  /\ ~Stopping /\ held[f] = "nobody"
  /\ held' = [held EXCEPT ![f] = h]
  /\ UNCHANGED <<syncVars, gateVars, paused, recent, editing, advertised>>

(***************************************************************************)
(* What the gate looks at.                                                 *)
(***************************************************************************)
RemoteUpdate(f) ==
  /\ conn = "connected" /\ ~Stopping
  /\ recent' = recent \cup {f}
  /\ UNCHANGED <<syncVars, gateVars, paused, editing, advertised, held>>

WindowPasses(f) ==
  /\ f \in recent
  /\ recent' = recent \ {f}
  /\ UNCHANGED <<syncVars, gateVars, paused, editing, advertised, held>>

(* A peer's awareness: the file it last edited, which it never takes back, *)
(* and the locks it holds.  Both outlive the peer's leaving the room.      *)
Announces(p, f, locks) ==
  /\ conn = "connected" /\ ~Stopping
  /\ f = NoFile => editing[p] = NoFile
  /\ editing' = [editing EXCEPT ![p] = f]
  /\ advertised' = [advertised EXCEPT ![p] = locks]
  /\ UNCHANGED <<syncVars, gateVars, paused, recent, held>>

AdvertisedLeaseEnds(p, f) ==
  /\ f \in advertised[p]
  /\ advertised' = [advertised EXCEPT ![p] = @ \ {f}]
  /\ UNCHANGED <<syncVars, gateVars, paused, recent, editing, held>>

PauseOrResume ==
  /\ ~Stopping
  /\ paused' = ~paused
  /\ UNCHANGED <<syncVars, gateVars, recent, editing, advertised, held>>

(* stop() forgets the peers' awareness and the local locks.                *)
StopGate ==
  /\ Stop
  /\ editing' = [p \in Peer |-> NoFile]
  /\ advertised' = [p \in Peer |-> {}]
  /\ held' = [f \in File |-> "nobody"]
  /\ UNCHANGED <<gateVars, paused, recent>>

Engine == SyncStep /\ UNCHANGED <<gateVars, worldVars>>

Next ==
  \/ Engine \/ StopGate \/ LocalUpdate \/ DrainTick \/ PauseOrResume
  \/ \E f \in File : \/ LockEnds(f) \/ RemoteUpdate(f) \/ WindowPasses(f)
                     \/ \E h \in LockHolder : LockTaken(f, h)
  \/ \E p \in Peer : \/ \E f \in File \cup {NoFile}, S \in SUBSET File : Announces(p, f, S)
                     \/ \E f \in File : AdvertisedLeaseEnds(p, f)

Spec == Init /\ [][Next]_vars

(* The intervals fire and time passes; nothing is assumed of peers, of     *)
(* users or of the network.                                                *)
Fairness ==
  /\ WF_state(StartScanning /\ UNCHANGED <<gateVars, worldVars>>)
  /\ WF_timers(StartTimers /\ UNCHANGED <<gateVars, worldVars>>)
  /\ WF_state(SyncConnectionState /\ UNCHANGED <<gateVars, worldVars>>)
  /\ WF_queue(DrainTick)
  /\ \A f \in File : WF_recent(WindowPasses(f))
  /\ \A f \in File, p \in Peer : WF_advertised(AdvertisedLeaseEnds(p, f))

(***************************************************************************)
(* Properties.                                                             *)
(***************************************************************************)
(* Every update the CRDT ever made is in exactly one place: still queued,  *)
(* sent once, or lost on a closed socket; no drain, overflow or lock event *)
(* sends it twice or forgets it (sync.ts 254-287, 710-780).                *)
Conserved ==
  /\ queue \cap sent = {} /\ queue \cap lost = {} /\ sent \cap lost = {}
  /\ \A i \in 1 .. made : \E u \in queue \cup sent \cup lost : u.id = i
  /\ \A u, v \in queue \cup sent \cup lost : u.id = v.id => u = v

(* The gate queue respects its limit on the number of updates, counted     *)
(* over all files (sync.ts 718-719).                                       *)
CountBounded == Cardinality(queue) <= MaxUpdates

(* gateQueueBytes is the size of what is queued, after any mixture of      *)
(* drains, overflows and lock events, and respects its limit (sync.ts 719, *)
(* 731, 760, 779).                                                         *)
BytesExact == queueBytes = Bytes(queue) /\ queueBytes <= MaxBytes

(* What is queued for a file leaves once the connection stays up and the   *)
(* gate of that file stays clear, whatever happens to other files: the     *)
(* connection poll and the drain timer see to it (sync.ts 535-563,         *)
(* 738-749).                                                               *)
ClearFilesDrain ==
  \A f \in File :
    <>[](conn = "connected" /\ ~Stopping /\ ~Gated(f)) => <>[](QueueOf(f) = {})

(* The engine does not go on syncing after the relay refused it for good   *)
(* (sync.ts 556-562).                                                      *)
RefusedStopsSyncing == conn = "disconnected" ~> ~Syncing

(* The gate is a faithful outbox: see Outbox.                              *)
O == INSTANCE Outbox WITH Item <- Update, pending <- queue, delivered <- sent, dropped <- lost
ImplementsOutbox == O!Spec

(* README.md:71 says that a pause stops outgoing edits; the drain timer    *)
(* and the end of a lock send queued ones while paused (sync.ts 738).      *)
PauseStopsSending == [][paused /\ paused' => UNCHANGED <<sent, lost>>]_vars
=============================================================================

----------------------------- MODULE PauseBuffer -----------------------------
(***************************************************************************)
(* The pauses of SyncOrchestrator and what they hold back: the reasons     *)
(* set by users, MCP agents and the git detector, the buffer of remote     *)
(* updates, and the local edits a paused daemon ignores.                   *)
(*                                                                         *)
(* Abstractions: the text of a file is the set of edits in it, in the      *)
(* working tree and in its CRDT document; a local edit and the event that  *)
(* reports it are one step.  A remote update is merged in one step; the    *)
(* write of the merged text to disk is awaited and is a later one, which   *)
(* anything may precede.                                                   *)
(***************************************************************************)
EXTENDS SyncState, Sequences, FiniteSets, SequencesExt

CONSTANTS File,
          Blocked,       \* files whose path remote updates may not name
          Ignored,       \* files the ignore rules keep off the disk
          PauseId,       \* ids of user and MCP pauses
          NoId,          \* no activePauseId
          Size,          \* sizes of updates
          MaxUpdates,    \* MAX_BUFFERED_UPDATES
          MaxBytes,      \* MAX_BUFFERED_BYTES
          Check,         \* checks for .git/index.lock that may be under way
          RemoteBound,   \* bound: remote updates received
          WriteBound     \* bound: local edits made

ASSUME FileAssumption == Blocked \cup Ignored \subseteq File
ASSUME IdAssumption == NoId \notin PauseId /\ "index-lock" \notin PauseId
ASSUME LimitAssumption ==
  /\ MaxUpdates \in Nat \ {0} /\ MaxBytes \in Nat /\ Size \subseteq Nat
  /\ RemoteBound \in Nat /\ WriteBound \in Nat

VARIABLES pauses,        \* pauseReasons
          mcpId,         \* activePauseId of the MCP server
          buffered,      \* bufferedUpdates
          bufferedBytes, \* bufferedBytes
          received,      \* remote updates received so far
          applied,       \* the ids of those merged into a document, in that order
          evicted,       \* those the full buffer dropped
          discarded,     \* those that met a daemon neither paused nor syncing
          refused,       \* those that name a blocked path
          written,       \* local edits so far
          tree,          \* the edits in each file of the working tree
          doc,           \* the edits in each CRDT document
          writes,        \* merged texts on their way to the disk
          gitLock,       \* whether .git/index.lock exists
          gitOp,         \* _isGitOperation
          gitWatch,      \* the detector's first check is over
          checks         \* what each check under way has seen

pauseVars == <<pauses, mcpId>>
remoteVars == <<buffered, bufferedBytes, received, applied, evicted, discarded, refused>>
textVars == <<written, tree, doc, writes>>
gitVars == <<gitLock, gitOp, gitWatch, checks>>
vars == <<syncVars, pauseVars, remoteVars, textVars, gitVars>>

Reason == [source : {"user", "mcp", "auto"}, id : PauseId] \cup {[source |-> "git", id |-> "index-lock"]}
GitReason == [source |-> "git", id |-> "index-lock"]
Update == [id : 1 .. RemoteBound, path : File, size : Size]
Edit == [by : {"here", "pause"}, n : 1 .. WriteBound] \cup [by : {"peer"}, n : 1 .. RemoteBound]
Write == [path : File, text : SUBSET Edit]
Seen == {"idle", "present", "absent"}

IdSeq(s) == [i \in DOMAIN s |-> s[i].id]
Ids(s) == {u.id : u \in ToSet(s)}
BytesOf(s) == FoldLeft(LAMBDA n, u : n + u.size, 0, s)

TypeOK ==
  /\ SyncTypeOK
  /\ pauses \subseteq Reason /\ mcpId \in PauseId \cup {NoId}
  /\ buffered \in Seq(Update) /\ bufferedBytes \in Nat
  /\ received \in 0 .. RemoteBound /\ written \in 0 .. WriteBound
  /\ applied \in Seq(1 .. RemoteBound)
  /\ evicted \cup discarded \cup refused \subseteq 1 .. RemoteBound
  /\ tree \in [File -> SUBSET Edit] /\ doc \in [File -> SUBSET Edit]
  /\ writes \subseteq Write
  /\ gitLock \in BOOLEAN /\ gitOp \in BOOLEAN /\ gitWatch \in BOOLEAN
  /\ checks \in [Check -> Seen]

Init ==
  /\ SyncInit
  /\ pauses = {} /\ mcpId = NoId
  /\ buffered = <<>> /\ bufferedBytes = 0 /\ received = 0 /\ applied = <<>>
  /\ evicted = {} /\ discarded = {} /\ refused = {}
  /\ written = 0
  /\ tree = [f \in File |-> {}] /\ doc = [f \in File |-> {}]
  /\ writes = {}
  /\ gitLock \in BOOLEAN /\ gitOp = FALSE /\ gitWatch = FALSE
  /\ checks = [c \in Check |-> "idle"]

IsPaused == pauses # {}

(***************************************************************************)
(* Remote updates.                                                         *)
(***************************************************************************)
(* A series of updates is merged, each by a call of its own that nothing   *)
(* awaits: the documents take all of them, and the text that each call has *)
(* merged is on its way to the disk.                                       *)
EditsFor(s, f) == {[by |-> "peer", n |-> u.id] : u \in {v \in ToSet(s) : v.path = f}}
Allowed(s) ==
  FoldLeft(LAMBDA ok, u : IF u.path \in Blocked THEN ok ELSE Append(ok, u), <<>>, s)
WritesOf(ok) ==
  {[path |-> ok[i].path,
    text |-> doc[ok[i].path] \cup EditsFor(SubSeq(ok, 1, i), ok[i].path)] :
     i \in {j \in DOMAIN ok : ok[j].path \notin Ignored}}
Merge(s) ==
  LET ok == Allowed(s) IN
  /\ applied' = applied \o IdSeq(ok)
  /\ refused' = refused \cup (Ids(s) \ Ids(ok))
  /\ doc' = [f \in File |-> doc[f] \cup EditsFor(ok, f)]
  /\ writes' = writes \cup WritesOf(ok)
  /\ UNCHANGED tree

(* The rest of such a call, after its awaits: the file gets the text.  No  *)
(* pause and no stop is looked at again, and calls overtake each other.    *)
WriteFile(w) ==
  /\ w \in writes
  /\ tree' = [tree EXCEPT ![w.path] = w.text]
  /\ writes' = writes \ {w}
  /\ UNCHANGED <<syncVars, pauseVars, remoteVars, written, doc, gitVars>>

(* Or the call gives up, and only the document has the update: the text is *)
(* too large, the manifest has MAX_TRACKED_FILES already, the path leaves  *)
(* the project through a symlink, or mkdir or writeFile fails.             *)
WriteGivenUp(w) ==
  /\ w \in writes
  /\ writes' = writes \ {w}
  /\ UNCHANGED <<syncVars, pauseVars, remoteVars, written, tree, doc, gitVars>>

(* handleRemoteUpdate of each update in turn, when nothing pauses.         *)
Handle(s) ==
  IF Syncing THEN Merge(s) /\ UNCHANGED discarded
  ELSE /\ discarded' = discarded \cup Ids(s)
       /\ UNCHANGED <<applied, refused, tree, doc, writes>>

Full(u) == Len(buffered) >= MaxUpdates \/ bufferedBytes + u.size > MaxBytes
MakeRoom(u) == IF Full(u) /\ buffered # <<>> THEN Tail(buffered) ELSE buffered

BufferUncounted(u) ==
  LET kept == MakeRoom(u) IN
  /\ buffered' = Append(kept, u)
  /\ bufferedBytes' = BytesOf(kept) + u.size
  /\ UNCHANGED evicted
Buffer(u) ==
  LET kept == MakeRoom(u) IN
  /\ buffered' = Append(kept, u)
  /\ bufferedBytes' = bufferedBytes - (BytesOf(buffered) - BytesOf(kept)) + u.size
  /\ evicted' = evicted \cup (Ids(buffered) \ Ids(kept))

RemoteUpdate(f, n) ==
  LET u == [id |-> received + 1, path |-> f, size |-> n] IN
  /\ conn = "connected" /\ received < RemoteBound
  /\ received' = u.id
  /\ IF IsPaused
     THEN Buffer(u) /\ UNCHANGED <<applied, discarded, refused, tree, doc, writes>>
     ELSE Handle(<<u>>) /\ UNCHANGED <<buffered, bufferedBytes, evicted>>
  /\ UNCHANGED <<syncVars, pauseVars, written, gitVars>>

(***************************************************************************)
(* Pausing and resuming.                                                   *)
(***************************************************************************)
AddPause(r) == pauses' = pauses \cup {r} /\ UNCHANGED remoteVars /\ UNCHANGED textVars

(* removePause leaves the given reasons; when none is left, the buffer is  *)
(* flushed.                                                                *)
FlushNewestFirst == Handle(Reverse(buffered)) /\ buffered' = <<>> /\ bufferedBytes' = 0
Flush == Handle(buffered) /\ buffered' = <<>> /\ bufferedBytes' = 0
LeavesFlushing(rest) ==
  /\ pauses' = rest
  /\ Flush
  /\ UNCHANGED <<received, evicted, written>>
Leaves(rest) ==
  /\ pauses' = rest
  /\ IF rest = {} THEN Flush
     ELSE UNCHANGED <<buffered, bufferedBytes, applied, discarded, refused, tree, doc, writes>>
  /\ UNCHANGED <<received, evicted, written>>

ClearableByAnyone(source) == {"user", "mcp", "auto"}
Clearable(source) == CASE source = "mcp" -> {"mcp", "auto"} [] OTHER -> {source}
Without(source) == {r \in pauses : r.source \notin Clearable(source)}

(* The requests of CLI and MCP.  A pause gets an id that is new among      *)
(* those of its source.  The CLI names none when it resumes, which clears  *)
(* every user reason; the MCP server names the id of its last pause.       *)
Fresh(source, i) == [source |-> source, id |-> i] \notin pauses
UserPause(i) ==
  /\ ~Stopping /\ Fresh("user", i)
  /\ AddPause([source |-> "user", id |-> i])
  /\ UNCHANGED <<syncVars, mcpId, gitVars>>

UserResume ==
  /\ ~Stopping
  /\ Leaves(Without("user"))
  /\ UNCHANGED <<syncVars, mcpId, gitVars>>

ForceResumeReturns ==
  /\ ~Stopping
  /\ pauses' = {}
  /\ UNCHANGED <<syncVars, mcpId, gitVars, remoteVars, textVars>>
ForceResume ==
  /\ ~Stopping
  /\ Leaves({})
  /\ UNCHANGED <<syncVars, mcpId, gitVars>>

McpPause(i) ==
  /\ ~Stopping /\ Fresh("mcp", i)
  /\ AddPause([source |-> "mcp", id |-> i])
  /\ mcpId' = i
  /\ UNCHANGED <<syncVars, gitVars>>

McpResume ==
  /\ ~Stopping
  /\ Leaves(IF mcpId = NoId THEN Without("mcp") ELSE pauses \ {[source |-> "mcp", id |-> mcpId]})
  /\ mcpId' = NoId
  /\ UNCHANGED <<syncVars, gitVars>>

(***************************************************************************)
(* The git detector.  A check looks for the lock file, waits for the       *)
(* answer, and only then compares it with the flag; the 50 ms poll and the *)
(* watch of .git may both have one under way.                              *)
(***************************************************************************)
GitLocks == ~gitLock /\ gitLock' = TRUE
GitUnlocks == gitLock /\ gitLock' = FALSE
Git ==
  /\ GitLocks \/ GitUnlocks
  /\ UNCHANGED <<syncVars, pauseVars, remoteVars, textVars, gitOp, gitWatch, checks>>

(* The first check belongs to start(); the others to its timer and watch.  *)
CheckBegins(c) ==
  /\ checks[c] = "idle" /\ ~Stopping
  /\ gitWatch \/ (state = "scanning" /\ \A d \in Check : checks[d] = "idle")
  /\ checks' = [checks EXCEPT ![c] = IF gitLock THEN "present" ELSE "absent"]
  /\ UNCHANGED <<syncVars, pauseVars, remoteVars, textVars, gitLock, gitOp, gitWatch>>

Answered(c) ==
  /\ checks' = [checks EXCEPT ![c] = "idle"]
  /\ gitWatch' = TRUE
  /\ UNCHANGED <<syncVars, mcpId, gitLock>>

OperationStarts(c) ==
  /\ checks[c] = "present" /\ ~gitOp
  /\ gitOp' = TRUE
  /\ IF Syncing THEN AddPause(GitReason)
                ELSE UNCHANGED <<pauses, remoteVars, textVars>>
  /\ Answered(c)

OperationEndsIfSyncing(c) ==
  /\ checks[c] = "absent" /\ gitOp
  /\ gitOp' = FALSE
  /\ IF Syncing THEN Leaves(pauses \ {GitReason})
                ELSE UNCHANGED <<pauses, remoteVars, textVars>>
  /\ Answered(c)
OperationEnds(c) ==
  /\ checks[c] = "absent" /\ gitOp
  /\ gitOp' = FALSE
  /\ Leaves(pauses \ {GitReason})
  /\ Answered(c)

NothingNew(c) ==
  /\ checks[c] = (IF gitOp THEN "present" ELSE "absent")
  /\ Answered(c)
  /\ UNCHANGED <<pauses, remoteVars, textVars, gitOp>>

CheckEnds(c) == OperationStarts(c) \/ OperationEnds(c) \/ NothingNew(c)

(***************************************************************************)
(* Local edits: the tree has the edit; the document takes the file's text, *)
(* unless the daemon is paused or not syncing.  An edit made while a pause *)
(* keeps a syncing daemon from it is marked.                               *)
(***************************************************************************)
LocalEdit(f) ==
  /\ f \notin Blocked \cup Ignored /\ written < WriteBound
  /\ written' = written + 1
  /\ LET by == IF Syncing /\ IsPaused THEN "pause" ELSE "here"
     IN  tree' = [tree EXCEPT ![f] = @ \cup {[by |-> by, n |-> written']}]
  /\ doc' = IF Syncing /\ ~IsPaused THEN [doc EXCEPT ![f] = tree'[f]] ELSE doc
  /\ UNCHANGED <<syncVars, pauseVars, remoteVars, writes, gitVars>>

Engine ==
  /\ \/ StartScanning \/ (StartTimers /\ gitWatch) \/ WatcherReady
     \/ SyncConnectionState \/ ConnectionChanges \/ Stop
  /\ UNCHANGED <<pauseVars, remoteVars, textVars, gitVars>>

Next ==
  \/ Engine \/ Git \/ UserResume \/ ForceResume \/ McpResume
  \/ \E i \in PauseId : UserPause(i) \/ McpPause(i)
  \/ \E f \in File : LocalEdit(f) \/ \E n \in Size : RemoteUpdate(f, n)
  \/ \E w \in writes : WriteFile(w) \/ WriteGivenUp(w)
  \/ \E c \in Check : CheckBegins(c) \/ CheckEnds(c)

Spec == Init /\ [][Next]_vars

(* The detector keeps polling and its checks are answered; no such step    *)
(* leaves "checks" as it is.                                               *)
FairSpec == Spec /\ \A c \in Check : WF_checks(CheckBegins(c) \/ CheckEnds(c))

(***************************************************************************)
(* Properties.                                                             *)
(***************************************************************************)
(* Every remote update received is in exactly one place, whatever pauses,  *)
(* resumes, evictions and reconnects came between; nothing stays buffered  *)
(* when nothing pauses, whoever ended the last pause; and the buffer keeps *)
(* to its number of updates and counts their bytes (sync.ts 397-420,       *)
(* 609-611, 634-642).                                                      *)
BufferBounded == Len(buffered) <= MaxUpdates /\ bufferedBytes = BytesOf(buffered)
FlushedWhenResumed == ~IsPaused => buffered = <<>>
Accounted ==
  /\ BufferBounded /\ FlushedWhenResumed
  /\ Ids(buffered) \cup ToSet(applied) \cup evicted \cup discarded \cup refused = 1 .. received
  /\ Len(buffered) + Len(applied) + Cardinality(evicted) + Cardinality(discarded)
       + Cardinality(refused) = received

(* Updates are merged in the order they were received, buffered or not     *)
(* (sync.ts 408, 639).                                                     *)
MergedInOrder ==
  LET s == applied \o IdSeq(buffered)
  IN  \A i, j \in 1 .. Len(s) : i < j => s[i] < s[j]

(* A pause holds what comes after it.  While one reason or another pauses  *)
(* the daemon, no remote update is merged into a document and no write to  *)
(* the working tree begins.  A write whose update was merged before the    *)
(* pause does land during it, and it alone may change a file otherwise     *)
(* than a local edit does.  And whoever resumes without force lifts the    *)
(* reasons of one source only: git goes when the operation ends, an        *)
(* agent's when the agent gives up its pause id.  A forced resume leaves   *)
(* nothing (sync.ts 404-418, 462-469, 576-613).                            *)
NothingPasses ==
  /\ applied' = applied /\ doc' = doc
  /\ writes' \subseteq writes
  /\ \A f \in File : \/ tree[f] \subseteq tree'[f]
                      \/ \E w \in writes : w.path = f /\ tree'[f] = w.text
OthersKeepPausing ==
  LET gone == pauses \ pauses' IN
    /\ \A r, s \in gone : r.source = s.source
    /\ \A r \in gone : /\ r.source = "git" => gitOp /\ ~gitOp'
                       /\ r.source = "mcp" => mcpId' = NoId
PausesHold ==
  [][pauses' # {} => (IsPaused => NothingPasses) /\ OthersKeepPausing]_vars

(* A git pause does not outlive the operation: once the lock file stays    *)
(* away, the reason goes, even when the connection was lost in between or  *)
(* checks were answered late (git.ts 75-85, sync.ts 308-310).              *)
GitPauseEnds == <>[](~gitLock /\ ~Stopping /\ gitWatch) => <>[](GitReason \notin pauses)

(* sync-control.ts:125 tells agents that local changes are buffered during *)
(* a pause; they are ignored, and a remote update merged after the resume  *)
(* is written over the file without them (sync.ts 320, 437, 469).          *)
PausedEditsSurvive ==
  [][\A w \in writes' \ writes :
       {e \in tree[w.path] : e.by = "pause"} \subseteq w.text]_vars
=============================================================================

# Mflow: a verification project

Mflow keeps the working copies of a small team in step while they (and their
coding agents) edit the same files. This directory holds TLA+ models of its
core logic, TLC configurations that check them, and TLAPS proofs. Line numbers
refer to the sources under `src/`.

## 1. The system

| component | state | operations | talks to |
|---|---|---|---|
| `FileLockManager` (`daemon/src/file-lock-manager.ts`) | lock table, wait queues, token and waiter counters, expiry interval, one timer per waiter | acquire, acquireQueued, release, queries that expire lazily, cleanExpired, dispose | emits lock-acquired/-released/-expired to the orchestrator |
| `SyncOrchestrator` (`daemon/src/sync.ts`) | sync state, pause reasons, paused buffer, gate queue, recent remote edits | local create/change/delete, remote update, pause/resume, gate/drain, connection polling, start/stop | all other daemon parts |
| `CRDTManager` (`crdt.ts`), `CRDTPersistence` (`persistence.ts`) | one Y.Doc per file, idle timers, `.ystate` files | initializeContent, applyLocalChange, applyRemoteUpdate, unloadIdle, persistAll | orchestrator, disk |
| `FileWatcher`, `WriteRegistry` (`watcher.ts`) | write tokens with a TTL | register, checkAndConsume, handleFileEvent | disk, orchestrator |
| `ManifestManager` (`manifest.ts`) | shared map path -> entry, pending deletes | setFile, deleteFile (500 ms rename window), checkRename | orchestrator |
| `AwarenessManager` (`awareness.ts`) | own and remote awareness states | setCurrentFile, setHeldLocks, broadcast, handleRemoteAwareness | transport |
| `WSRelayTransport` (`ws-relay-transport.ts`), `NonceCounter` (`shared/src/crypto.ts`) | socket, peer map, send counter, highest counter seen per peer, reconnect timer | connect, disconnect, send, receive, reconnect | signaling relay |
| Signaling relay (`signaling/src`) | rooms, sockets, unauthenticated sockets, rate-limit windows | open, auth, join, leave, signal, relay, close, cleanup | transports of all daemons |
| `MflowDaemon`, `IPCServer`, `daemon-entry` | PID file, control socket, configuration | start, stop, pause, resume, lock, unlock, claim | CLI and MCP clients |
| `GitDetector` (`git.ts`) | whether `.git/index.lock` exists | poll every 50 ms | orchestrator (pause) |
| patch broker (`cli/src/patch-broker.ts`) | none | lock every path of a patch, apply, unlock | daemon by IPC |
| second copy of the relay (`signaling/deno-deploy.ts`) | the same rooms and limits, API keys in a key-value store | as the relay | transports |
| dashboard sign-in (`signaling/src/dashboard-auth.ts`) | OAuth states, device codes, sessions, API keys | start, callback, poll, create, revoke, validate | GitHub |
| set-up commands (`cli/src/commands`: init, setup, ignore, install-hooks, hook-status, secret, start) | `.mflow/`, `config.toml`, `.mflowignore`, hooks and settings of the harnesses | write these files, read them back | the user, the daemon started |
| ignore rules (`shared/src/ignore.ts`) | the patterns of a filter | addPatterns, isIgnored | watcher |
| other commands and tools, dashboards, landing pages, schemas | none that matters to a property | thin clients, formatting, parsing | daemon by IPC |

Everything in a daemon runs on one JavaScript thread: a handler runs to its
first `await` without interruption, except that it can call itself back through
event listeners. What is hard is therefore (a) re-entrance through listeners and
through lazy expiry, (b) state read before an `await` and used after it, (c)
timers against late answers, (d) messages between daemons that are encrypted
asynchronously, relayed without acknowledgement, and lost when a socket is down,
(e) limits that are tested in one place and passed in another, and
(f) files that several processes and the user write in several steps, any of
which may be the last.

What makes each component correct:

* **FileLockManager**: never two holders of conflicting unexpired leases; a
  running lease is taken away by nobody but its holder (and one query, by
  mistake); every grant has its own fencing token; waiters are served by
  priority, then arrival; no waiter is lost, forgotten or kept idle; limits
  hold; every call ends.
* **SyncOrchestrator**: an update made while syncing is sent exactly once or is
  still queued; remote updates are merged in order and only when nothing pauses;
  no write to the tree begins during a pause; a pause reason ends only by its
  owner; a clear file is drained.
* **CRDT, watcher, disk**: documents that got the same updates agree; the daemon's
  own writes are not mistaken for edits while their tokens live; at rest, disk,
  document and manifest agree unless a text could reach only one of them; a
  daemon that stops leaves the newest documents saved.
* **Manifest**: at rest it lists the files there are.
* **Transport**: it never gets stuck, lists the members of its room, and accepts
  every frame that was not overtaken.
* **Relay**: a socket is in at most one room or is tracked as unauthenticated;
  rooms respect their limits; clients know who is in their room; frames stay in
  it; rate limits bound every minute.
* **Daemon lifecycle**: one daemon per project, to which PID file and socket lead.
* **Locks of several daemons**: locks are announced as they are; a patch or a
  hooked edit happens under its locks.
* **Set-up**: commands that overlap or are killed leave hooks installed once, the
  user's settings intact, and a daemon that starts with what setup was told.
* **Ignore rules**: a pattern ignores the paths it names (what lies below a
  directory it names is not covered, against the documentation).

## 2. Plan

Modelled and checked: `FileLocks` with `ExclusiveLocks`; `SyncState`, `GateQueue`
with `Outbox`, `PauseBuffer`; the relay (`RelayState`, `Relay`, `HostedRelay`,
`RelayCopies` with `Rooms`, `RateLimit`, `DashboardAuth`); the worktree
(`Documents`, `Manifest`, `Lifecycle`, `Setup`, `IgnoreFilter`); what surrounds the
daemons (`LockClients`, `PeerTransport`).

Proved for all constants: every safety property of the passing runs, and the three
refinements (lock table, gate, rooms). `FileLocks_proofs`,
`GateQueue_proofs`, `PauseBuffer_proofs`, `Relay_proofs`, `Documents_proofs`,
`Worktree_proofs` and `Agents_proofs` hold the theorems, each described with its
modules in section 3, and `FoldFacts` what they need of sums and folds.

Model-checked only: liveness (section 5 says why).

## 3. Modules

### FileLocks, ExclusiveLocks, FileLocks_proofs, MCFileLocks

`FileLocks` models the whole `FileLockManager`. Its calls are synchronous but
re-entrant: `releaseLock` emits an event and calls `grantEligibleWaiters`, which
calls `getConflictingLock`, which calls `releaseLock` on expired locks, and so
on; `acquire` and every query do the same. The model therefore has a call stack:
the variable `stack` holds the suspended calls, and every action is the code
between two calls. Calls from outside and timer callbacks start on an empty
stack only, as the event loop guarantees; a lease may run out at any moment.

| model | code |
|---|---|
| `locks`, `waiters`, counters, `expiryTimer` | the fields 46-50; a queue is the set of its records, its head the least record in the comparator's order |
| `promise` | the promise each queued caller holds (150-169) |
| `AcquireCheck`, `AcquireRecheck`, `Acquire{ReleasesExpired,FindsConflict,Grants,Returns,Throws}` | the stages of `acquire` (61-114) around its nested calls |
| `Deny` | a denied call: resolve, enqueue or reject (119-170) |
| `Grant*` | `grantEligibleWaiters` (289-312) with its snapshot of candidates |
| `Scan*`, `Query*`, `All*`, `Clean*` | `getConflictingLock` in a query and what the query does with its answer, `getAll`, `cleanExpired` |
| `Emit` | the listeners of `sync.ts` 278-290, when `Listening` |

A query (`isLockedByOther` 206-212, `getLock` 219-224) reads the clock again after
its scan. If the lock it found ran out in between, it releases the path it was
*asked* about (`QueryReleases`), which is another path than the lock's when a
scope is involved: a lock of the same holder may stand there, its lease running,
and is deleted.

Instants are reduced to "the lease has run out"; the insertion order of the Map
is not kept, so a scan may meet locks in any order (the real order is one of
those). What `drainFileQueue` does in the same listeners belongs to the gate.

`ExclusiveLocks` is the promise to callers: owners, fencing tokens, no machinery.
`FileLocks!ImplementsExclusiveLocks` maps the unexpired part of the table to it.

Runs (3 holders, 3 paths, at most 2 or 3 tokens handed out before the last
external acquire, `MAX_LOCKS` 2; three waiters in `locks_plain`, because one
holder that waits twice for a path with another between its calls is a case that
two do not show, two waiters and two priorities in `locks_scoped`; three holders
let a lock, its waiter and a bystander be different peers; holders and files are
symmetric except in the liveness run):

* `locks_plain`: single files, where a path conflicts with itself only. Limits
  hold, no waiter is idle or orphaned.
* `locks_scoped`: `scope:src/**` over two files, two priorities, with the orchestrator's listeners
  re-entering the table at every event. Exclusion, distinct tokens, grants in
  order across queues; the table still implements exclusive locks.
  `NoIdleWaiter` and `GrantsInOrder` except a waiter whose holder already has the
  path (`HasIt`): when a peer queues twice and a stranger between the two times
  out, nobody looks at the second request although it could be granted; its
  holder has the lock all the while.
* `locks_live`: fairness is weak for a started call (one thread runs it on) and
  strong for a waiter's timer (the event loop reaches a due timer although other
  calls keep arriving, but only between calls). Two holders and `MAX_LOCKS` 3, a
  scope over two files, no listeners. A running lease ends by its holder
  (`OnlyHolderReleases`), with the exception that the property names
  (`QueryDeletesOwn`): the query described above.
* `sweep_evicts` (a counterexample, and a finding): with the listeners, the expiry
  sweep deletes the lock that its own event has just caused to be granted.

The properties of `locks_plain` that `locks_scoped` lacks do not hold there, once
one lock blocks several paths: a timed-out head may leave a grantable waiter
behind it idle (`NoIdleWaiter`), a grant at `MAX_LOCKS` throws after its waiter was
dequeued (`NoOrphan`), and replacing an expired lock skips the limit test while
its release grants others (`Capacity`). In today's daemon every local caller uses
the daemon's own peer id, so local callers never conflict with each other and
wait queues stay empty; these concern the manager as the multi-holder component
its interface and tests describe.

Proved for all constants (`FileLocks_proofs`): `TypeCorrect`, `Exclusion`,
`Fencing`, `Refinement`; when nobody listens, `HolderKeepsLease`; and when paths
conflict with themselves only (`OnFiles`, the setting of `locks_plain`),
`LimitsHold`, `NobodyForgotten` and `NobodyIdle`, with and without listeners. The
type invariant needs one strengthening: only the outermost frame of the stack can
be a call that will queue (`Outermost`, `MayQueue`), otherwise a waiter id could
pass its bound. `TableEffects` lists the five things a step can do to the table;
exclusion, fencing and the refinement follow from it. `HolderKeepsLease` rests on
`DeletesTested`: without listeners nothing runs between the sweep's finding an
expired lock and deleting it; and as long as a query holds on to the lock it found,
a running lock on the queried path belongs to the same holder (`FoundOwn`, by
exclusion), so that is what a query deletes by mistake.

The three theorems about single files share the invariant `FInv`. Two of its
parts look into the call stack. `Attended`: the path of every waiter is locked,
or a suspended call will still come to it (a grant loop that has progressed or
has a candidate for the path, or an acquire for a dequeued waiter). `Room`: the
paths that are locked, waited for, or wanted by a suspended call fit into the
table *together*. A call from outside adds one path to them, at its first test,
when the stack below it is empty: `Attended` then says that all waiters' paths are
locked, so the test of `locks.size` counts everything. A nested acquire claims a
path that is counted already, hence never finds the table full, never throws, and
no waiter is dropped between its queue and its grant. With a scope one deletion
makes several paths grantable that were never counted, and all three fail.

`GrantOrder` needs no such restriction: scopes, priorities and listeners are all
allowed. Its invariant (`Ordered`) says that between two calls nobody waits without
a reason, and that during a call only the topmost suspended grant matters: every
waiter is one of its candidates, is kept waiting by a lock or by another waiter,
or has its path taken next by the call that runs (`NextIn`). What keeps it
inductive is that a release pushes a new grant on the stack (`GrantingPush`), which
looks at all queues afresh, so whatever the suspended grants below it remembered
of the queues is not needed until it has returned; and that when it returns
everybody is at rest again. Liveness is model-checked only.

### SyncState, GateQueue, Outbox, GateQueue_proofs, MCGateQueue

`SyncState` is the part of `SyncOrchestrator` both modules below extend: the
stored state `_state`, the transport's connection state, and whether the
intervals of `start()` run. `SyncConnectionState` is one tick of the 500 ms poll;
the connection itself changes by itself (`Joined`, `Closed`, `Refused`).

`GateQueue` follows an update of a local edit from the CRDT to the transport
(sync.ts 254-290, 686-780).

| model | code |
|---|---|
| `queue`, `queueBytes` | `gateQueue` (all files in one set), `gateQueueBytes` |
| `sent`, `lost` | what `sendRelay` does on an open and on a closed socket |
| `recent`, `editing`, `advertised`, `held` | recent remote edits, awareness of peers, local locks: what the gate looks at |
| `Propagate`, `Enqueue`, `Overflow` | the three ends of a `local-update` event |
| `DrainTick`, `LockEnds` | `drainGateQueue`, and `drainFileQueue` from a lock event |

A drain is one step, because no other handler runs inside it; an update is its
number, file and size. Two updates may share a drain and leave unordered in the
model; the code sends them oldest first.

Who is in the room is left out: `Announces` is what any peer may say, and what a
peer said last stays when it leaves, because nothing calls `removePeer`
(awareness.ts:131). A file that a departed peer edited last stays gated in the
model as in the code; no property claims otherwise. Nor does any claim that a
pause stops the drain timer, which asks for `_state` only (738).

Run: `gate_all` has two files, sizes 1 and 2, and limits of 2 updates and 3 bytes
for both files together. `MCGateQueue` joins two worlds in it, which keeps it
small: one where everything may close a gate (locks, remote edits, a peer's file
and its locks) and two updates are made, and one where only local locks and
remote edits do, and three are made, so that either limit overflows and one file
overflows because of the other. It assumes that the intervals fire and that
windows and leases run out, and nothing of users, peers or the network: a file
whose gate stays clear while the connection stays up is drained. It may end in a
stopped daemon, where nothing moves any more, so it does not look for deadlock.

Proved (`GateQueue_proofs`): `Conservation`, `CountLimit`, `Refinement`. Every
action moves updates in one of three ways (`StepMoves`): not at all, one new
update into the queue, or some queued and at most one new update out together.
`Conserved` becomes inductive with `Numbered`: no number above `made` is in use,
so a new update is new everywhere. `ByteCount` adds that the queue is finite and
within its number of updates (`Counted`): then the sum over what is queued goes up
by the size of an update that joins it and down by the sizes of those that leave,
which is what the code does to its counter, at overflow too.

Sums and folds (`FoldFacts`). The folds of the community modules are recursive
functions over finite sets. What they compute is proved there by a smallest
counterexample (strict inclusion is well founded on the subsets of a finite set),
once for sums over a set and once for folds along a sequence; each proof module
shows that its sums are of that form. No backend takes a step of induction itself.

### PauseBuffer, PauseBuffer_proofs, MCPauseBuffer

Pause reasons, the buffer of remote updates and the git detector (sync.ts
302-310, 319-420, 569-642; git.ts; `mflow_pause` and `mflow_resume`).

| model | code |
|---|---|
| `pauses` | `pauseReasons`, a reason by source and id |
| `mcpId` | the MCP server's `activePauseId` |
| `buffered`, `applied`, `evicted`, `discarded`, `refused` | where `handleRemoteUpdate` puts an update |
| `tree`, `doc` | the edits in a file on disk and in its document |
| `writes`, `WriteFile`, `WriteGivenUp` | `handleRemoteUpdate` after its merge: the awaits 462-469 and the write, or the ways it ends without one (441-451, 464-467, 485) |
| `checks`, `gitOp` | `checkLock` between its `await` and its comparison; `_isGitOperation` |
| `Leaves` | `removePause`: the remaining reasons, and the flush when none is left |

The merge is one step and the write another, and anything may come between: a
pause, a resume, the write of a later update, a stop. A local edit and the
watcher's event are one step.

Runs: `pause_all` has two files (one whose path remote updates may not name),
two remote updates of two sizes and a buffer of two updates and three bytes,
which reach eviction (by bytes: the second update of two bytes puts out the first;
with two updates the limit by count is met and not passed) and flush; a user's, an agent's and a
git pause at once; two overlapping checks, as the poll and the `fs.watch` callback
produce; no path is ignored in it, as a write that is given up shows the same.
`PausesHold` says of every step that leaves a reason in force that no update is
merged and no write begins, and that whoever resumed lifted the reasons of one
source only. It does not say that the working tree stands still: a write whose
update was merged before the pause lands in it, and the code cannot stop it.
`GitPauseEnds` assumes that polling goes on and that file system calls return.
`paused_edit_lost` is a counterexample, and a finding: an edit made during a
pause is ignored, not buffered, and the first remote update merged after it
overwrites the file.

The model also behaves as the code does where the documentation promises more,
and no property says otherwise: a resume while reconnecting discards what was
buffered (420), a git operation noticed while scanning or reconnecting pauses
nothing (303), edits queued before a pause are sent during it (738), and after
two MCP pauses one MCP resume leaves the first in force (591).

Proved (`PauseBuffer_proofs`): `PausesAreKept`, from `KnownPauses` (nothing pauses
the daemon but users, agents and git: the source `auto` has no caller);
`NothingIsLost` and `MergesInOrder`, from `AccountInv`. That invariant reads the
updates as one series: `applied` followed by `buffered` rises in the numbers of the
updates, so whatever is appended at the back and merged at the front stays in
order; the five places an update can be in have no number in common (`Apart`) and
together all numbers received (`Shares`). It is inductive because the flush hands
over the whole buffer in one step, keeping what its path lets through (`Allowed`),
and because the eviction takes from the front alone. The byte counter is
the fold over the buffer, by the facts of `FoldFacts`.
### RelayState, Relay, HostedRelay, RelayCopies, Rooms, RateLimit, DashboardAuth, Relay_proofs, MCRelay

The relay exists twice: `signaling/src` (a server for Bun) and `deno-deploy.ts`
(one file for Deno). `RelayState` is the state both keep, `Relay` and `HostedRelay`
are their handlers, and `RelayCopies` is either of them, chosen at the start, with
the properties that both must have.

| model | code |
|---|---|
| `rooms`, `sock`, `unauth`, `perIp` | `RoomManager.rooms` and `ws.data`; `unauthSockets`, `unauthPerIp` |
| `roster`, `frame` | history: what a client was told of its room; who got the last frame |
| `HandleJoin`, `HostedJoin` | the join message in full: the guards, leaving the old room, the refusals, and both kinds of notices |
| `CleanupIdleRooms`, `HostedCleanup` | the sweep, which closes the sockets of an idle room |
| `AuthTimeout`, `CloseSocket` | the timer of a socket that never joined; the close event, which may come long after |

The copies differ, and the models with them: the Bun server keeps a socket's
room in the socket, the Deno one looks it up; Bun lets a socket join again and
takes it out of its room first. A message that the schemas refuse changes
nothing and is left out.

`Rooms` is the promise to clients; `ImplementsRooms` maps either copy to it.
`SocketsAccounted` is what the close event, the timer and the sweep rely on: the
records of a socket in three places never come apart. `RosterExact` compares what
a client has been told with who is in its room, and every frame with both.

`RateLimit` has the sliding window of `ratelimit.ts` and the fixed one of the Deno
copy, over the clock and the minute's cleanup; `WindowLimit` counts what any
minute allowed (twice the limit for a fixed window, which is all that one can
promise). An attempt that was allowed is its time and its number, so that two
within a tick are two. `DashboardAuth` has requests that stop at their awaits: `SignInOnce`
over OAuth states and device codes, `RevocationHolds` over keys. The Deno copy with
a key-value store writes a key back after reading it (deno-deploy.ts:859), so a
validation under way undoes a revocation: the property excepts exactly that
write, and nothing else may do it.

Run `relay`: three sockets from two addresses, two rooms, two peer ids, two
secrets, and limits that are and are not reached (two peers let one leave while
another stays; the third socket meets a full room); a window of 2 calls in 3
ticks over 11 ticks, which spans three windows and two cleanups; two requests,
two states, a device flow and a key. The three services share no variable, so
each is checked with the others at rest.

Proved (`Relay_proofs`), for any sockets, rooms, peers, addresses and limits:

* `RostersExact`, `SocketsAreAccounted` and `RoomsRefined` rest on `RelayInv`. Its part
  `PlacesOK` ties the room table, the note that a socket of the Bun copy carries and
  what each client has been told to one another; `UnauthCounted` ties the sockets
  that have not joined to their counts by address, which a count that is not kept
  (zero is deleted) must survive; `FramesFollowRoster` is about the last frame. All
  handlers of both copies are combinations of a few changes of the table
  (`VacatedRooms`, `SeatedRooms`, `SweptRooms`), and each step has an `Effect` on one
  socket's place that `Rooms` allows, which gives the refinement.
* `MinutesAreLimited` rests on `RatesInv`. For the sliding window, `Slides`: what was
  allowed in the last minute is in the bucket, pruned or not. For the fixed one,
  `Stays`: since the bucket was made no more than its count was allowed, and in the
  part of the last minute before that no more than the limit; the cleanup may
  forget a bucket only when its whole minute is over.
* `SignsInOnce` rests on `AuthInv`: a state leads to one exchange, which takes it out
  of the store before it asks GitHub, and a flow is spent with its session.
* `RevocationsHold` needs no more than the types: the only step that undoes a
  revocation is the write of a validation that read the key before.
### Documents, Manifest, Lifecycle, Setup, IgnoreFilter, Documents_proofs, Worktree_proofs, MCDocuments, MCIgnoreFilter, MCWorktree

`Documents` follows one file through the daemons that share it: the disk, the
events the watcher owes, texts read and not handled, write tokens, the Y.Doc, and
the saves of an unload or a stop. Every `await` of the code ends a step.

| model | code |
|---|---|
| `event`, `reading`, `tokens` | chokidar with `handleFileEvent` around its read; `WriteRegistry` |
| `doc`, `loaded`, `saving`, `saved` | the Y.Doc, and whether it is in memory; `CRDTPersistence.saveDoc` under way; the `.ystate` file |
| `StatFile`, `ReadFile`, `HandleEvent` | `handleFileEvent`: `shouldSync` after the stat (223), the read, and what follows it |
| `ForgetToken` | `WriteRegistry.cleanup`: a token is dropped after its time, whatever is in flight |
| `Receive` with `Unwritten` or `Announce` | `handleRemoteUpdate` up to its awaits: merged, then refused (441-451) or announced |
| `WriteFile`, `WriteFails` | the rest of it: written and listed, or a symlink (464-467) or a failure (485) |
| `UnloadIdle`, `Unloaded`, `Stop`, `Persisted`, `Exit`, `Start` | idle unloading, `stop`, `persistAll`, and the next daemon |

A text is a bag of pieces and an update a set of insertions and deletions with
what it depends on: enough for duplicated, missing and stale text, which the
properties are about; the order of characters is Yjs's.

A daemon's first scan reports a file that is there (`ignoreInitial: false`), at the
first start as at the next, or has done so before the daemon was syncing. A
write that fails is taken to leave the file as it was, nobody deletes the file
(`Manifest` has that), and two calls of one kind that have got equally far with one
text are one.

The code lets disk and document differ in three ways that the properties leave
room for, by name. Remote writes that end out of order, or race an edit (469): the
model marks such a daemon as `raced`. A text that reaches only one of the two, with
no race: the merge of an update whose write is refused or fails, a save that is
too large, a save that is taken for a write because the token of a failed one is
left. The model marks it as `apart`, until a text reaches both. And a document
that was unloaded or persisted is never loaded again (`unload_forgets`, a counterexample and a
finding): what follows re-inserts the file's text. Further facts of the model: an
update merged during an unload's save is lost with the document, and that save
may end after the one of `stop`; a token that is dropped before the event of its
write sends that write back as an edit, which `NoEcho` counts (`due`) among the
reasons a daemon has for an update, with the saves and the scan; a file first touched by emptying it is neither
sent nor listed; a daemon may be syncing before its scan reports the files.

`Manifest` is `manifest.ts` with the reports that feed it and the 500 ms timer.
`ManifestExact` holds at rest, with two exceptions that the history names: a path
made again while its deletion was held back (the timer unlists it, 147), and a
path listed from a content read before its deletion. Pending deletes are keyed by
hash, so two equal files that are deleted share one entry (157).

`Lifecycle` is the processes of a worktree: `main`, `MflowDaemon.start` and `stop` in
their steps, the signal handlers, `mflow start` and `mflow stop` with their cleanups,
and crashes. `FilesLeadToDaemon` is about commands that wait for the effect of the
one before: there is one daemon, and PID file and socket lead to it. It says
nothing of overlapping commands, where two daemons can come up (the socket is
replaced before the PID file is tested, daemon-entry.ts:132, and `mflow stop`
removes both files while the daemon is still stopping).

`Setup` is what commands write to a worktree and read back, each a sequence of
file operations between which other commands, the user and a kill come.

| model | code |
|---|---|
| `todo` | what an async command has yet to do |
| `config` | room and secret of `config.toml` as characters, between their quotes |
| `hook`, `settings` | the files of the four harnesses; `settings.local.json` with mflow's entries and the user's edits |
| `daemon` | what `start` gave the daemon: options, environment, `config.toml`, defaults |

`HooksInstalled` excepts only what the code cannot prevent: a user's edit between
the read and the write of the settings (install-hooks.ts:48-67), and settings cut
short by a kill, which make the next installation and `hook-status` throw. A
hook script that was cut counts as installed, and only `--force` repairs it.
`StartsAsSetUp` takes a secret through `escapeToml`, `readTomlString` and
`firstNonEmpty`. Facts without a property: nothing reads `.mflowignore`, though
`mflow ignore` says that the daemon was updated (`handleIgnore`,
daemon-entry.ts:89, does nothing); `mflow init` overwrites patterns that `mflow
ignore` put there before; `loadConfigFile` lets the schema's defaults override the
file (deepMerge, daemon.ts:389); an `init` that was interrupted after its mkdir,
or preceded by `setup`, never writes `.mflowignore` and `.gitignore`; nothing reads
`credentials.json`.

`IgnoreFilter` translates patterns into what their regular expressions accept and
compares them, for all filters of two patterns out of 48 and 39 paths, with the
paths that they *name* (`Fits`). Patterns with a slash agree exactly; patterns for
file names are found inside names as well (`build/` ignores `rebuild.ts`). This is
about the path itself. A reader of `.gitignore`, and the documentation, expects
more: that `dist/` covers what lies below `dist`. It does not: `directoryOnly` is
never read, `isIgnored("dist/out.js")` is false, and `directory_files` is the
counterexample to `CoversDirectories`, a finding. What chokidar makes of its own
`ignored` list (watcher.ts:164-176), which gets the same patterns as strings, is
not modelled; remote writes do not pass it.
`PatternsIgnore` proves it of every filter. `WrittenIs` says where each segment
stands in the pattern as written; `CharsThrough` that a match goes through the
characters of a name exactly where `NameFits`; `StoodStep`, by induction over the
segments, that a match stands after the first k of them at the cuts of the path
where these may end, and nowhere else (a `**/` cannot end inside a name, as no
name is empty). `NameFound` is the one direction that patterns for file names keep.

Run `worktree`: two daemons, two pieces of text of one and two bytes and files of at most
two, which some saves and merges exceed; one save, one unload or stop, and three
of unloads and updates together (the scans of both daemons make updates too, so
that two meet in the air); two files with two contents and three changes (enough to delete two files of one content and
create one of them again); two processes (a daemon and
its successor) and four commands; two commands at once, of two altogether, and
two interferences, which suffice for a read, an edit and a write over it, or a
kill and a repair; two secrets with both characters that are escaped. The parts
share no variable and each is checked with the others at rest.

Proved (`Documents_proofs`), for any daemons, pieces of text and bounds: on
`DocInv` (types, a file behind every event, updates with numbers of their own,
finite documents, nothing held by a daemon that is off, and `StopSaves`: what the
`stop` under way still has to write is what the documents hold)
rests `StopKeepsTheDocument`. `SameUpdates` (as long as nothing was unloaded
or stopped, what a daemon has and what is on its way to it are the same updates
everywhere) gives `DocumentsConverge`. `Orderly`, which speaks
of a daemon without a race, gives `FilesSettle` and `WritesDoNotEcho`: its file
is quiet (`Quiet`: disk, document and manifest hold the same text unless they are
`apart`), or saved or scanned and seen once (`Sighted`), or about to be written
(`Merging`). In the last two it has its token, or fewer updates were made than were
`due` (`Owed`), so the one that its event may still make is accounted for.

Proved (`Worktree_proofs`), for any processes, commands, files and contents:

* `FilesLead`, from `LifeInv`: as long as each command waited for the effect of the
  one before, the worktree is `Alone`. One process at most is alive, a spawn finds
  none (`Commanded`); the daemon has its listener, its handlers and its engine at
  each stage of `start` and `stop` (`Equipped`), and the files lead to it from the
  step that wrote them to the step that takes them away (`Led`).
* `ManifestIsExact`, from `ManifestInv`, which says of every path at any time what
  `ManifestExact` says at rest. The last report of a path tells whether there is a
  file (`LastSays`); what is listed is what the document has (`ListedAsKnown`); a
  file with no report and no read of its content under way is known and listed,
  with no timer running for it (`FileKnown`); a listed path without a file has a
  report or a timer (`MissingNoticed`). Deletions have numbers of their own
  (`Numbered`), so a rename takes up one of them at most.
* `RoundTrip`, from `TextsInv`: the configuration is the escaped form of the
  answers (`ConfigOK`) and a daemon was started with what was read from it
  (`StartedWith`), with the operations that commands have left typed (`PlansOK`).
  The text itself is the lemma `ReadsBack`: `readTomlString` undoes `escapeToml` for
  every text. `Spells` gives the place in the escaped text of each character, so
  that the first quote that is not escaped is past its end (`UpToQuoteEscaped`)
  and each of the two replacements takes one prefix away (`UnprefixedPrefixed`),
  the quotes' before the backslashes'.
* `Installations`, from `HooksInv`. Before a command notes a harness as installed,
  every file of it is as the installation leaves it or will still be written, and
  so is the entry in the settings (`WrittenFirst`, which `CommandSound` gives for a
  new command); the settings are written right after they were read by the same
  command (`ReadFirst`), so what is written holds the user's edits unless they were
  spoiled (`SettingsOK`). A user or a kill that changes a file takes back what was
  installed or is about to be noted for its harness, and only for it: the files of
  harnesses are disjoint (`HarnessIs`).
### LockClients, PeerTransport, Agents_proofs, MCAgents

`LockClients` is how locks are really taken: commands, tools and the hooks of the
harnesses send requests to the control socket of their daemon, which waits for
locks heard of from other daemons and then takes the lock in its own name.

| model | code |
|---|---|
| `call`, `requests` | `sendIPC` with its five seconds; the request in the daemon, which outlives it |
| `table`, `leases` | the lock table, by the numbers of locks; leases that have not run out |
| `wire`, `heard` | awareness frames on their way; the locks others last heard of |
| `ApplyPatch` | lock every path, change file after file, unlock |
| `Hooked`, `ClaudeEdit`, `OpenCodeEdit`, `CodexEdit`, `MendCodeEdit` | what each harness locks before its own tool edits |

`PatchUnderLock` says that a patch or a hooked edit touches only paths its daemon
holds, unless the lease ran out or another client of the daemon gave the lock
back; `LocksKnown` that what a daemon announced is its table. Facts of the model
that no property contradicts: all clients of a daemon share its identity, so
locks do not keep two agents of one worktree apart, an unlock by one releases the
other's, and priorities have no effect; a request whose client gave up (5 s,
while waits last 60 s and more) may later take a lock that nobody releases; hooks
never release; two daemons that ask before hearing of each other are both
granted; a patch that fails keeps its locks and its first changes.

`PeerTransport` is `WSRelayTransport` at several peers of a room. Frames are
numbered, encrypted with an await, relayed, validated, and decrypted with another
await; jobs of one sender end in any order. `NeverStuck`: a transport in use is
in the room or something that will get it there is under way (after a refused
rejoin that is the relay's timeout alone). `MembersListed`: it lists the members
of its room, over any reconnects (it may list others: `handleJoined` never clears
the map, ws-relay-transport.ts:365). `LostOnlyByOvertaking`: a frame that the relay
passed on over a living socket is accepted unless a later one of its sender was
validated first. Frames sent while a socket is down are gone (458).

Run `agents`: three clients of two daemons (two of them share one), two paths,
patches that move a file and that touch two, two commands, one mishap (a lost
frame, a lease that runs out or a client that gives up); two peers with two
frames each and one break. A mishap and a break each suffice for a request that
outlives its command and for a rejoin.

Proved (`Agents_proofs`), for any daemons, clients, paths, patches and peers:

* `LocksAreKnown`, from `AnnounceInv`: the last announcement on its way from a daemon
  to another tells its table, and if there is none the other has heard it.
* `PatchesUnderLocks`, from `ClientsInv`: what a command has yet to do is `Covered` by
  the locks it asks for on the way and those its daemon holds already, unless its
  path was shaken (the lease ran out, or another command gave it back). That
  every command, patch and hook starts with such a plan (`ApplyPatchIsPlan`,
  `HookedIsPlan`) is a fact about the folds that build the plans.
* `PeersComeBack`, from `SocketsAgree`: what the transport believes of its socket, what
  the relay believes, and the messages between them go together.
* `PeersAreListed`, from `MembersTold`: whoever is in the room is listed once what is
  on its way has arrived.
* `FramesArrive`, from `FramesInOrder` and `OwedGo`: from one sender to one receiver the
  numbers rise along the whole way (arrived, on the way down, on the way up, being
  encrypted), over reconnects too, and a frame that is owed is somewhere on it.
## 4. What is not modelled

Dashboards (`cli/src/dashboard.ts`, `dashboard-html.ts`), landing pages and the
display of the CLI render answers of read-only queries. Schemas and argument
parsing turn a message down or hand it on; the models have the messages that
pass. The merge warnings of `sync.ts`, the statistics and the activity log are
shown and never read back. Connection quality, concurrent-edit events, `loadDoc`,
`restoreDoc` and the saved manifest are used by tests only. Sessions of the
dashboard are cookies with an expiry. Cryptography, Yjs's merge, git, GitHub,
chokidar and the file system are taken as what the code relies on, and are marked
as external in `PROJECT.json`.

## 5. Checking

Each run of `PROJECT.json` is `tlc -config <cfg> <module>`; runs marked
`violation` end in a counterexample and are explained under "findings".

| run | question |
|---|---|
| `locks_plain`, `locks_scoped`, `locks_live` | does the lock table exclude, order, bound and answer? |
| `sweep_evicts` | (counterexample) may the sweep take away a lock that was just granted? |
| `gate_all` | does the gate keep, count and finally send every update? |
| `pause_all` | who lifts which pause, and what happens to updates meanwhile? |
| `paused_edit_lost` | (counterexample) does an edit made during a pause survive? |
| `worktree` | do disk, document, manifest, processes, set-up and patterns agree? |
| `unload_forgets` | (counterexample) is an unloaded document loaded again? |
| `directory_files` | (counterexample) does a pattern for a directory cover its files? |
| `relay` | do both copies of the relay keep their promises to clients? |
| `agents` | do clients edit under locks, and does the transport bring daemons together? |

Deadlock is not looked for where the system may stop: a stopped daemon, closed
sockets, or bounds that are used up. Fairness is assumed in `locks_live`,
`gate_all` and `pause_all` only, and explained there; everything in section 3 from
the relay on is safety. Bounds are constants of the modules, named there. The
definitions that distort another one (named after it, and said to be faults)
serve to confirm that each property notices a bug in the code it is about.

Proofs are checked with `tlapm <module>` for each module named `*_proofs`, and for
`FoldFacts`; they hold for all values of the constants that meet the assumptions of
the modules. Those ask for what the code takes for granted: limits and
sizes are natural numbers (some of them not zero), the sets of paths, daemons,
clients and pieces of text that a worktree has are finite, conflicts are
reflexive and symmetric, and the values that stand for "none" (`NoFile`, `NoId`,
`NoPid`, `NoBucket`, `None`, `NoHolder`, `Absent`) are none of the values they are
compared with (`Nothing`, which `Setup` has for a missing file, is no content of
one); states and device flows are different identifiers; secrets are texts; the
names in paths and patterns are not empty, and a wildcard `**` is a name of its own.

Model-checked only:

* liveness (`CallsReturn`, `EveryWaiterAnswered`, `ClearFilesDrain`, `RefusedStopsSyncing`, `GitPauseEnds`), which the prover does not do;
* the counterexamples, which are about particular behaviours.

---------------------------- MODULE LockClients ----------------------------
(***************************************************************************)
(* Locks as the commands and tools of several worktrees take them: one     *)
(* client call is a request on the control socket of the daemon, which may *)
(* outlive the client's five seconds; the daemon first waits for the locks *)
(* it heard of from other daemons, then takes the lock in its own name.    *)
(* FileLocks has the table itself: with one holder only, as here, nothing  *)
(* is denied and nothing waits in it.  A lease runs out at any moment; the *)
(* clocks of the daemons agree.                                            *)
(***************************************************************************)
EXTENDS Naturals, SequencesExt

CONSTANTS Host, Client, DaemonOf,
          Path, NoPath,
          Patch,        \* sequences of changes [action, path, moveTo]
          Files,        \* sequences of paths that a tool call names
          MaxMishaps,   \* bound on leases run out, frames lost, clients giving up
          MaxCalls      \* bound on the commands and tool calls

ChangeType == [action : {"add", "delete", "update"}, path : Path, moveTo : Path \cup {NoPath}]

ASSUME ClientsAssumption ==
  /\ IsFiniteSet(Host) /\ IsFiniteSet(Client) /\ IsFiniteSet(Path)
  /\ DaemonOf \in [Client -> Host]
  /\ NoPath \notin Path
  /\ Patch \subseteq Seq(ChangeType) /\ Files \subseteq Seq(Path)

VARIABLES
  todo,     \* steps of the command each client is in: [do, path, wait]
  call,     \* the request each client waits for, or 0
  requests, \* requests in the daemons: [number, client, step, polled]
  table,    \* the lock table of each daemon: number of the lock, or 0
  leases,   \* [daemon, path, lock]: the locks, released or not, not yet at
            \* their expiresAt
  wire,     \* awareness frames of each daemon on their way to the others
  heard,    \* the locks each daemon last announced, as the others heard them
  calls, mishaps, \* so far
  missed,   \* history: daemons whose last frame was lost
  shaken    \* history: paths whose lock a client lost without giving it up
clientVars == <<todo, call, requests, table, leases, wire, heard, calls,
                mishaps, missed, shaken>>

ClientsInit ==
  /\ todo = [c \in Client |-> <<>>]
  /\ call = [c \in Client |-> 0]
  /\ requests = {}
  /\ table = [d \in Host |-> [p \in Path |-> 0]]
  /\ leases = {}
  /\ wire = [d \in Host |-> <<>>]
  /\ heard = [d \in Host |-> {}]
  /\ calls = 0 /\ mishaps = 0
  /\ missed = {}
  /\ shaken = [c \in Client |-> {}]

----------------------------------------------------------------------------
(* Locks of a daemon and what is announced of them *)

Lock(d, p, n) == [daemon |-> d, path |-> p, lock |-> n]
LocksOf(t, d) == {Lock(d, p, t[d][p]) : p \in {p \in Path : t[d][p] # 0}}
Holds(d, p) == Lock(d, p, table[d][p]) \in leases
HeardLocks(d, p) == {l \in UNION {heard[e] : e \in Host \ {d}} : l.path = p} \cap leases

\* Locks and requests are told apart by numbers, which are used again.
KnownLocks == (UNION {LocksOf(table, d) \cup heard[d] : d \in Host})
              \cup (UNION UNION {Range(wire[d]) : d \in Host})
Unused(used) == CHOOSE n \in 1..(Cardinality(used) + 1) : n \notin used

Clients(d) == {c \in Client : DaemonOf[c] = d}
Shake(cs, p) == shaken' = [c \in Client |-> IF c \in cs THEN shaken[c] \cup {p} ELSE shaken[c]]

Mishap == mishaps < MaxMishaps /\ mishaps' = mishaps + 1

\* setHeldLocks on every event of the lock manager.  (AnnounceBefore, and
\* PathsOfNoTarget below, are faults that no specification uses.)
AnnounceBefore(d) == wire' = [wire EXCEPT ![d] = Append(@, LocksOf(table, d))]
Announce(d) == wire' = [wire EXCEPT ![d] = Append(@, LocksOf(table', d))]

\* The broadcast of every few seconds; one that tells nothing new is left out.
Broadcast(d) ==
  /\ wire[d] = <<>> /\ d \in missed
  /\ wire' = [wire EXCEPT ![d] = <<LocksOf(table, d)>>]
  /\ UNCHANGED <<todo, call, requests, table, leases, heard, calls, mishaps, missed, shaken>>

\* handleRemoteAwareness of the others; or the frame is lost.
Hear(d) ==
  /\ wire[d] # <<>>
  /\ wire' = [wire EXCEPT ![d] = Tail(@)]
  /\ \/ /\ heard' = [heard EXCEPT ![d] = Head(wire[d])]
        /\ missed' = missed \ {d}
        /\ UNCHANGED mishaps
     \/ Mishap /\ missed' = missed \cup {d} /\ UNCHANGED heard
  /\ UNCHANGED <<todo, call, requests, table, calls, shaken>>
  /\ leases' = leases \cap KnownLocks'

LeaseRunsOut(l) ==
  /\ Mishap
  /\ leases' = leases \ {l}
  /\ IF table[l.daemon][l.path] = l.lock THEN Shake(Clients(l.daemon), l.path)
                                         ELSE UNCHANGED shaken
  /\ UNCHANGED <<todo, call, requests, table, wire, heard, calls, missed>>

\* A scan or the sweep removes a lock whose lease ran out.
RemoveExpired(d, p) ==
  /\ table[d][p] # 0 /\ ~Holds(d, p)
  /\ table' = [table EXCEPT ![d][p] = 0]
  /\ Announce(d)
  /\ UNCHANGED <<todo, call, requests, leases, heard, calls, mishaps, missed, shaken>>

----------------------------------------------------------------------------
(* Commands and tools, each a sequence of steps *)

Step(do, p, wait) == [do |-> do, path |-> p, wait |-> wait]

\* getPatchPaths: the paths of the changes, each once, in their order.
PathsOfNoTarget(patch) == FoldLeft(LAMBDA ps, ch : IF Contains(ps, ch.path) THEN ps
                                                   ELSE Append(ps, ch.path), <<>>, patch)
PathsOf(patch) ==
  FoldLeft(LAMBDA ps, p : IF p = NoPath \/ Contains(ps, p) THEN ps ELSE Append(ps, p),
           <<>>, FlattenSeq([i \in DOMAIN patch |-> <<patch[i].path, patch[i].moveTo>>]))

\* applyMflowPatch on one change.
Edits(ch) ==
  CASE ch.action = "delete" -> <<Step("remove", ch.path, FALSE)>>
    [] ch.action = "add"    -> <<Step("write", ch.path, FALSE)>>
    [] ch.moveTo = NoPath   -> <<Step("read", ch.path, FALSE), Step("write", ch.path, FALSE)>>
    [] OTHER -> <<Step("read", ch.path, FALSE), Step("write", ch.moveTo, FALSE),
                  Step("remove", ch.path, FALSE)>>

\* apply-patch: every lock, then every change, then every lock given back.
ApplyPatch(patch) ==
  LET paths == PathsOf(patch)
  IN  [i \in DOMAIN paths |-> Step("lock", paths[i], TRUE)]
      \o FlattenSeq([i \in DOMAIN patch |-> Edits(patch[i])])
      \o [i \in DOMAIN paths |-> Step("unlock", paths[i], FALSE)]

\* What the harnesses run before a tool of theirs edits files: a lock for each
\* file, all of them or the edit is denied, and none is given back.
\* (HookedBefore is a fault that no specification uses.)
Writes(files) == [i \in DOMAIN files |-> Step("write", files[i], FALSE)]
HookedBefore(files, edits) ==
  FlattenSeq([i \in DOMAIN files |-> <<Step("lock", files[i], TRUE), Step("unlock", files[i], FALSE)>>])
  \o edits
Hooked(files, edits) == [i \in DOMAIN files |-> Step("lock", files[i], TRUE)] \o edits

Begin(c, steps) ==
  /\ todo[c] = <<>> /\ calls < MaxCalls
  /\ calls' = calls + 1
  /\ todo' = [todo EXCEPT ![c] = steps]
  /\ shaken' = [shaken EXCEPT ![c] = {}]
  /\ UNCHANGED <<call, requests, table, leases, wire, heard, mishaps, missed>>

LockCommand(c, p, wait) == Begin(c, <<Step("lock", p, wait)>>)
UnlockCommand(c, p) == Begin(c, <<Step("unlock", p, FALSE)>>)
PatchCommand(c, patch) == Begin(c, ApplyPatch(patch))

\* Claude Code's hook knows one file, the OpenCode plugin also the files of a
\* patch, MendCode's the files that the call lists, and Codex's script gets them.
ClaudeEdit(c, p) == Begin(c, Hooked(<<p>>, Writes(<<p>>)))
OpenCodeEdit(c, patch) ==
  Begin(c, Hooked(PathsOf(patch), FlattenSeq([i \in DOMAIN patch |-> Edits(patch[i])])))
MendCodeEdit(c, files) == Begin(c, Hooked(files, Writes(files)))
CodexEdit(c, files) == Begin(c, Hooked(files, Writes(files)))

\* One change of a patch, or its failure; what was changed before stays so.
Edit(c) ==
  /\ todo[c] # <<>> /\ Head(todo[c]).do \in {"read", "write", "remove"}
  /\ \E next \in {Tail(todo[c]), <<>>} : todo' = [todo EXCEPT ![c] = next]
  /\ UNCHANGED <<call, requests, table, leases, wire, heard, calls, mishaps, missed, shaken>>

----------------------------------------------------------------------------
(* A request on the control socket *)

\* sendIPC: connect and write one line.
SendRequest(c) ==
  /\ todo[c] # <<>> /\ Head(todo[c]).do \in {"lock", "unlock"} /\ call[c] = 0
  /\ call' = [call EXCEPT ![c] = Unused({r.number : r \in requests} \cup Range(call))]
  /\ requests' = requests \cup {[number |-> call'[c], client |-> c, step |-> Head(todo[c]),
                                 polled |-> FALSE]}
  /\ UNCHANGED <<todo, table, leases, wire, heard, calls, mishaps, missed, shaken>>

\* What the client makes of an answer: a patch goes on after a failed unlock.
Proceeds(c, ok) ==
  /\ call' = [call EXCEPT ![c] = 0]
  /\ todo' = [todo EXCEPT ![c] = IF ok \/ Head(@).do = "unlock" THEN Tail(@) ELSE <<>>]

\* Its answer, if the client still waits for it.
Answer(r, ok) ==
  /\ requests' = requests \ {r}
  /\ IF call[r.client] = r.number THEN Proceeds(r.client, ok) ELSE UNCHANGED <<todo, call>>

\* The five seconds of the client are over; the daemon is not told.
GiveUp(c) ==
  /\ call[c] # 0 /\ Mishap
  /\ Proceeds(c, FALSE)
  /\ UNCHANGED <<requests, table, leases, wire, heard, calls, missed, shaken>>

\* acquireLock: denied, or waiting until its time is over.
LockRefused(r) ==
  LET d == DaemonOf[r.client] IN
  /\ r.step.do = "lock" /\ HeardLocks(d, r.step.path) # {}
  /\ \/ Answer(r, FALSE) /\ (~r.step.wait \/ r.polled)
     \/ /\ r.step.wait /\ ~r.polled
        /\ requests' = (requests \ {r}) \cup {[r EXCEPT !.polled = TRUE]}
        /\ UNCHANGED <<todo, call>>
  /\ UNCHANGED <<table, leases, wire, heard, calls, mishaps, missed, shaken>>

\* Nobody else is known to hold the path: the daemon takes or renews its lock.
LockGranted(r) ==
  LET d == DaemonOf[r.client]
      p == r.step.path
      n == Unused({l.lock : l \in KnownLocks \cup leases})
  IN  /\ r.step.do = "lock" /\ HeardLocks(d, p) = {}
      /\ table' = [table EXCEPT ![d][p] = n]
      /\ leases' = leases \cup {Lock(d, p, n)}
      /\ Announce(d)
      /\ Answer(r, TRUE)
      /\ UNCHANGED <<heard, calls, mishaps, missed, shaken>>

\* releaseLock: any client of the daemon releases the lock of any other.
Unlock(r) ==
  LET d == DaemonOf[r.client]
      p == r.step.path
      known == table[d][p] # 0
  IN  /\ r.step.do = "unlock"
      /\ Answer(r, known)
      /\ table' = [table EXCEPT ![d][p] = 0]
      /\ IF known THEN Announce(d) ELSE UNCHANGED wire
      /\ Shake(Clients(d) \ {c \in Client : call[c] = r.number}, p)
      /\ UNCHANGED <<leases, heard, calls, mishaps, missed>>

ClientsNext ==
  \/ \E c \in Client :
       \/ \E p \in Path, wait \in BOOLEAN : LockCommand(c, p, wait)
       \/ \E p \in Path : UnlockCommand(c, p)
       \/ \E patch \in Patch : PatchCommand(c, patch) \/ OpenCodeEdit(c, patch)
       \/ \E p \in Path : ClaudeEdit(c, p)
       \/ \E files \in Files : MendCodeEdit(c, files) \/ CodexEdit(c, files)
       \/ Edit(c) \/ SendRequest(c) \/ GiveUp(c)
  \/ \E r \in requests : LockRefused(r) \/ LockGranted(r) \/ Unlock(r)
  \/ \E d \in Host :
       \/ Broadcast(d) \/ Hear(d)
       \/ \E p \in Path : RemoveExpired(d, p)
  \/ \E l \in leases : LeaseRunsOut(l)

ClientsSpec == ClientsInit /\ [][ClientsNext]_clientVars

----------------------------------------------------------------------------
(* Properties *)

\* A patch changes a path only while its daemon holds the lock of that path,
\* the target of a move included, whatever requests of earlier commands are
\* still under way; unless the lease ran out or another command gave the
\* lock back, which the daemon cannot tell from the patch's own.
PatchUnderLock ==
  \A c \in Client : todo[c] # <<>> /\ Head(todo[c]).do \in {"write", "remove"} =>
    LET p == Head(todo[c]).path IN Holds(DaemonOf[c], p) \/ p \in shaken[c]

\* When its last frame arrived, a daemon's locks are known to the others as
\* they are: each grant, renewal, release and expiry is announced.
LocksKnown ==
  \A d \in Host : wire[d] = <<>> /\ d \notin missed =>
    heard[d] \cap leases = LocksOf(table, d) \cap leases
=============================================================================

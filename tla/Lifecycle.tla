----------------------------- MODULE Lifecycle -----------------------------
(***************************************************************************)
(* The processes of one worktree: daemons from daemon-entry to exit, and   *)
(* the commands that start and stop them.  They share two files: the PID   *)
(* file, and the control socket, whose path may outlive who listens on it. *)
(* An await of the code is a step boundary here.                           *)
(***************************************************************************)
EXTENDS Naturals, FiniteSets

CONSTANTS NoPid,
          Alien,       \* the PID of a living process that is no daemon
          Gone,        \* the PID, and the socket, of a process that is dead
          MaxProcs,    \* bound on the daemons started
          MaxCommands  \* bound on start, stop and kill commands

\* Processes, in the order in which they are spawned.
Proc == 1..MaxProcs

\* What is no PID of a daemon is told from one.
ASSUME LifeAssumption == {NoPid, Alien, Gone} \cap Proc = {} /\ NoPid # Alien

VARIABLES
  phase,     \* where each process is in main() and MflowDaemon.start
  ending,    \* where it is in MflowDaemon.stop, "no" when not in it
  listener,  \* processes that registered their "stopped" listener
  handlers,  \* processes that handle SIGINT and SIGTERM
  engine,    \* processes that have a SyncOrchestrator
  pidFile, socketFile,
  commands,  \* the commands running: [kind, at]
  issued,    \* how many there were
  crowded    \* history: a command began before the previous one had its effect
lifeVars == <<phase, ending, listener, handlers, engine, pidFile, socketFile, commands,
              issued, crowded>>

LifeInit ==
  /\ phase = [p \in Proc |-> "unborn"]
  /\ ending = [p \in Proc |-> "no"]
  /\ listener = {} /\ handlers = {} /\ engine = {}
  /\ pidFile \in {NoPid, Alien, Gone}
  /\ socketFile \in {NoPid, Gone}
  /\ commands = {}
  /\ issued = 0
  /\ crowded = FALSE

----------------------------------------------------------------------------
(* Processes *)

Alive(p) == phase[p] \notin {"unborn", "dead", "ended"}
Living == {p \in Proc : Alive(p)}
Up(p) == phase[p] = "up" /\ ending[p] = "no"
IsProcessRunning(pid) == pid = Alien \/ pid \in Living

\* Who answers on the control socket.
Answering == IF socketFile \in Living THEN {socketFile} ELSE {}

Goes(p, to) == phase' = [phase EXCEPT ![p] = to]
restVars == <<ending, listener, handlers, engine>>
cmdVars == <<commands, issued, crowded>>

\* A process that ends, by itself, by a signal or by a crash, cleans nothing up.
DiesAs(p, how) ==
  /\ Goes(p, how)
  /\ ending' = [ending EXCEPT ![p] = "no"]
  /\ listener' = listener \ {p} /\ handlers' = handlers \ {p} /\ engine' = engine \ {p}

Dies(p) == DiesAs(p, "dead")

Crash(p) ==
  /\ Alive(p) /\ issued < MaxCommands
  /\ issued' = issued + 1
  /\ Dies(p)
  /\ UNCHANGED <<pidFile, socketFile, commands, crowded>>

----------------------------------------------------------------------------
(* daemon-entry: ipc.start, then daemon.start *)

\* ipc.start removes whatever socket there is, then listens.
RemoveSocketFile(p) ==
  /\ phase[p] = "born"
  /\ Goes(p, "binding") /\ socketFile' = NoPid
  /\ UNCHANGED <<restVars, pidFile, cmdVars>>

Listen(p) ==
  /\ phase[p] = "binding"
  /\ IF socketFile = NoPid THEN Goes(p, "checking") /\ socketFile' = p
                      ELSE Goes(p, "failed") /\ UNCHANGED socketFile
  /\ UNCHANGED <<restVars, pidFile, cmdVars>>

\* checkStalePid: refuses, goes on, or goes on to remove a stale file.
CheckStalePid(p) ==
  /\ phase[p] = "checking"
  /\ Goes(p, CASE pidFile = NoPid -> "claiming"
               [] IsProcessRunning(pidFile) -> "failed"
               [] OTHER -> "clearing")
  /\ UNCHANGED <<restVars, pidFile, socketFile, cmdVars>>

RemoveStalePid(p) ==
  /\ phase[p] = "clearing"
  /\ Goes(p, "claiming") /\ pidFile' = NoPid
  /\ UNCHANGED <<restVars, socketFile, cmdVars>>

\* The PID file is written; a SyncOrchestrator exists from here on.
WritePid(p) ==
  /\ phase[p] = "claiming"
  /\ Goes(p, "connecting") /\ pidFile' = p
  /\ engine' = engine \cup {p}
  /\ UNCHANGED <<ending, listener, handlers, socketFile, cmdVars>>

\* transport.connect fails, or succeeds; without an engine start() throws.
ConnectTransport(p) ==
  /\ phase[p] = "connecting"
  /\ \/ Goes(p, "failed")
     \/ p \in engine /\ Goes(p, "starting")
  /\ UNCHANGED <<restVars, pidFile, socketFile, cmdVars>>

\* sync.start returned: signal handlers, "started", the "stopped" listener.
Started(p) ==
  /\ phase[p] = "starting"
  /\ Goes(p, "up")
  /\ handlers' = handlers \cup {p} /\ listener' = listener \cup {p}
  /\ UNCHANGED <<ending, engine, pidFile, socketFile, cmdVars>>

\* main() failed: ipc.stop removes the socket file, whoever made it.
StartFails(p) ==
  /\ phase[p] = "failed"
  /\ Dies(p) /\ socketFile' = NoPid
  /\ UNCHANGED <<pidFile, cmdVars>>

----------------------------------------------------------------------------
(* MflowDaemon.stop *)

\* A second stop() returns at once; the signal handlers go first.
BeginStop(p) ==
  IF ending[p] # "no" THEN UNCHANGED <<phase, restVars>>
  ELSE /\ ending' = [ending EXCEPT ![p] = IF p \in engine THEN "persisting" ELSE "unpid"]
       /\ handlers' = handlers \ {p}
       /\ UNCHANGED <<phase, listener, engine>>

Ends(p, from, to) == Alive(p) /\ ending[p] = from /\ ending' = [ending EXCEPT ![p] = to]

\* The 100 ms after an IPC stop are over.
StopTimer(p) ==
  /\ \E c \in commands : c.kind = "timer" /\ c.at = p /\ commands' = commands \ {c}
  /\ IF Alive(p) THEN BeginStop(p) ELSE UNCHANGED <<phase, restVars>>
  /\ UNCHANGED <<pidFile, socketFile, issued, crowded>>

SyncStopped(p) ==
  /\ Ends(p, "persisting", "unpid")
  /\ engine' = engine \ {p}
  /\ UNCHANGED <<phase, listener, handlers, pidFile, socketFile, cmdVars>>

\* (A fault that no specification uses: the PID file stays.)
UnlinkPidForgotten(p) ==
  /\ Ends(p, "unpid", "unsock")
  /\ UNCHANGED <<phase, listener, handlers, engine, pidFile, socketFile, cmdVars>>

UnlinkPid(p) ==
  /\ Ends(p, "unpid", "unsock") /\ pidFile' = NoPid
  /\ UNCHANGED <<phase, listener, handlers, engine, socketFile, cmdVars>>

UnlinkSocket(p) ==
  /\ Ends(p, "unsock", "emit") /\ socketFile' = NoPid
  /\ UNCHANGED <<phase, listener, handlers, engine, pidFile, cmdVars>>

\* "stopped": the process exits if its listener is there, else start() goes on.
\* (A runtime may unlink the path of a server that it closes.)
EmitStopped(p) ==
  /\ Alive(p) /\ ending[p] = "emit"
  /\ IF p \in listener
       THEN /\ DiesAs(p, "ended")
            /\ socketFile' \in {socketFile, NoPid}
       ELSE /\ ending' = [ending EXCEPT ![p] = "no"]
            /\ UNCHANGED <<phase, listener, handlers, engine, socketFile>>
  /\ UNCHANGED <<pidFile, cmdVars>>

----------------------------------------------------------------------------
(* Commands *)

\* The previous command had its effect: one daemon that is up, or none.
Calm == commands = {} /\ Cardinality(Living) <= 1 /\ \A p \in Living : Up(p)

Issue ==
  /\ issued < MaxCommands
  /\ issued' = issued + 1
  /\ crowded' = (crowded \/ ~Calm)

\* mflow start: does nothing if a daemon answers, else spawns one.
StartCommand ==
  /\ Issue
  /\ commands' = IF Answering # {} THEN commands
                 ELSE commands \cup {[kind |-> "spawn", at |-> issued]}
  /\ UNCHANGED <<phase, restVars, pidFile, socketFile>>

Spawn(p) ==
  /\ phase[p] = "unborn" /\ \A q \in Proc : phase[q] = "unborn" => p <= q
  /\ \E c \in commands : c.kind = "spawn" /\ commands' = commands \ {c}
  /\ Goes(p, "born")
  /\ UNCHANGED <<restVars, pidFile, socketFile, issued, crowded>>

\* SIGTERM or SIGINT: handled once, deadly before start() and during stop().
Signal(p) == IF p \in handlers THEN BeginStop(p) ELSE Dies(p)

Terminate(p) ==
  /\ Alive(p) /\ Issue
  /\ Signal(p)
  /\ UNCHANGED <<pidFile, socketFile, commands>>

\* mflow stop asks who answers; else it signals the PID of the file.  Either
\* way it then removes both files, at once.
Cleanup == [kind |-> "unlink-pid", at |-> issued]

StopCommand ==
  /\ Issue
  /\ IF Answering # {}
       THEN /\ commands' = commands \cup {Cleanup}
                            \cup {[kind |-> "timer", at |-> p] : p \in Answering}
            /\ UNCHANGED <<phase, restVars>>
       ELSE /\ commands' = IF pidFile = NoPid THEN commands ELSE commands \cup {Cleanup}
            /\ IF pidFile \in Living THEN Signal(pidFile) ELSE UNCHANGED <<phase, restVars>>
  /\ UNCHANGED <<pidFile, socketFile>>

CleanupPid(c) ==
  /\ c.kind = "unlink-pid"
  /\ commands' = (commands \ {c}) \cup {[c EXCEPT !.kind = "unlink-socket"]}
  /\ pidFile' = NoPid
  /\ UNCHANGED <<phase, restVars, socketFile, issued, crowded>>

CleanupSocket(c) ==
  /\ c.kind = "unlink-socket"
  /\ commands' = commands \ {c}
  /\ socketFile' = NoPid
  /\ UNCHANGED <<phase, restVars, pidFile, issued, crowded>>

LifeNext ==
  \/ StartCommand \/ StopCommand
  \/ \E c \in commands : CleanupPid(c) \/ CleanupSocket(c)
  \/ \E p \in Proc :
       \/ Spawn(p) \/ Crash(p) \/ Terminate(p) \/ StopTimer(p)
       \/ RemoveSocketFile(p) \/ Listen(p) \/ CheckStalePid(p) \/ RemoveStalePid(p)
       \/ WritePid(p) \/ ConnectTransport(p) \/ Started(p) \/ StartFails(p)
       \/ SyncStopped(p) \/ UnlinkPid(p) \/ UnlinkSocket(p) \/ EmitStopped(p)

LifeSpec == LifeInit /\ [][LifeNext]_lifeVars

----------------------------------------------------------------------------
(* Properties *)

\* Commands that wait for each other's effect, with crashes in between: there
\* is one daemon, the two files lead to it, it can be stopped with its state
\* saved, and a daemon that ended as asked leaves neither file behind.
FilesLeadToDaemon ==
  ~crowded =>
    /\ Cardinality({p \in Proc : phase[p] = "up"}) <= 1
    /\ \A p \in Proc :
         /\ Up(p) /\ commands = {} => pidFile = p /\ socketFile = p /\ p \in engine \cap handlers
         /\ phase[p] = "ended" => pidFile # p /\ socketFile # p
=============================================================================

-------------------------- MODULE Worktree_proofs --------------------------
(***************************************************************************)
(* What holds of the daemon of a worktree and of what commands write there *)
(* for every number of processes, commands, files and contents: the files  *)
(* that name the daemon lead to one that serves, unless two processes were *)
(* started for the worktree at once (Lifecycle); the manifest lists the    *)
(* files there are once what happened to them is handled (Manifest); hooks *)
(* are installed once, and what setup writes is read back (Setup); the     *)
(* patterns of a filter ignore what they are written for (IgnoreFilter).   *)
(***************************************************************************)
EXTENDS Lifecycle, Manifest, Setup, IgnoreFilter, FoldFacts

----------------------------------------------------------------------------
(* The daemon of a worktree *)

LifeTypeOK ==
  /\ phase \in [Proc -> {"unborn", "born", "binding", "checking", "clearing", "claiming",
                         "connecting", "starting", "up", "failed", "dead", "ended"}]
  /\ ending \in [Proc -> {"no", "persisting", "unpid", "unsock", "emit"}]

Orders == [kind : {"spawn", "timer", "unlink-pid", "unlink-socket"}, at : Nat]
OrdersOK == issued \in Nat /\ commands \subseteq Orders

\* A daemon stops only when it is up, with its listener; while it is up and
\* nothing stops it, it handles signals; its engine goes when all is saved.
Equipped(p) ==
  /\ ending[p] # "no" => phase[p] = "up"
  /\ phase[p] = "up" => p \in listener
  /\ Up(p) => p \in handlers
  /\ p \in handlers => Up(p)
  /\ phase[p] \in {"connecting", "starting"} \/ Up(p) => p \in engine

\* A command that waited for the effect of the previous one: a spawn finds no
\* process, and one that is asked to stop and has not begun to has its timer.
Commanded ==
  /\ \A p, q \in Living : p = q
  /\ \A c \in commands : c.kind = "spawn" => Living = {} /\ commands = {c}
  /\ commands # {} => \A p \in Living :
       phase[p] = "up" /\ (Up(p) => [kind |-> "timer", at |-> p] \in commands)

\* The files lead to a daemon from the moment it made them until it or a
\* command takes them away, and to none that has ended.
Led(p) ==
  /\ phase[p] = "binding" => socketFile = NoPid
  /\ phase[p] \in {"checking", "clearing", "claiming", "connecting", "starting"} \/ Up(p)
       => commands # {} \/ socketFile = p
  /\ phase[p] \in {"connecting", "starting"} \/ Up(p) => commands # {} \/ pidFile = p
  /\ ending[p] \in {"unsock", "emit"} \/ phase[p] = "ended" => pidFile # p
  /\ ending[p] = "emit" \/ phase[p] = "ended" => socketFile # p

Alone == Commanded /\ \A p \in Proc : Equipped(p) /\ Led(p)

LifeInv == LifeTypeOK /\ OrdersOK /\ (~crowded => Alone)

LEMMA LifeBegins == LifeInit => LifeInv
BY LifeAssumption
   DEF LifeInit, LifeInv, LifeTypeOK, OrdersOK, Alone, Equipped, Commanded, Led, Living, Alive, Up

LEMMA LifeTyped ==
  ASSUME LifeTypeOK, LifeNext
  PROVE  LifeTypeOK'
<1> USE DEF LifeTypeOK, Goes, DiesAs, Dies, BeginStop, restVars
<1>1. CASE \/ StartCommand \/ StopCommand
           \/ \E c \in commands : CleanupPid(c) \/ CleanupSocket(c)
  <2>1. ASSUME NEW p \in Living, Signal(p) PROVE LifeTypeOK'
    BY <2>1 DEF Signal, Living
  <2> QED BY <1>1, <2>1 DEF StartCommand, StopCommand, CleanupPid, CleanupSocket
<1>2. ASSUME NEW p \in Proc,
             \/ Spawn(p) \/ Crash(p) \/ Terminate(p) \/ StopTimer(p)
             \/ RemoveSocketFile(p) \/ Listen(p) \/ CheckStalePid(p) \/ RemoveStalePid(p)
      PROVE  LifeTypeOK'
  BY <1>2 DEF Spawn, Crash, Terminate, Signal, StopTimer, RemoveSocketFile, Listen, CheckStalePid,
              RemoveStalePid
<1>3. ASSUME NEW p \in Proc,
             \/ WritePid(p) \/ ConnectTransport(p) \/ Started(p) \/ StartFails(p)
             \/ SyncStopped(p) \/ UnlinkPid(p) \/ UnlinkSocket(p) \/ EmitStopped(p)
      PROVE  LifeTypeOK'
  BY <1>3 DEF WritePid, ConnectTransport, Started, StartFails, SyncStopped, UnlinkPid, UnlinkSocket,
              EmitStopped, Ends
<1> QED BY <1>1, <1>2, <1>3 DEF LifeNext

LEMMA OrdersTyped ==
  ASSUME OrdersOK, LifeNext
  PROVE  OrdersOK'
<1>1. CASE StartCommand
  BY <1>1 DEF OrdersOK, Orders, StartCommand, Issue
<1>2. CASE StopCommand
  <2>1. Cleanup \in Orders
    BY DEF OrdersOK, Orders, Cleanup
  <2>2. \A p \in Answering : [kind |-> "timer", at |-> p] \in Orders
    BY DEF Answering, Living, Proc, Orders
  <2> QED BY <1>2, <2>1, <2>2 DEF OrdersOK, StopCommand, Issue
<1>3. ASSUME NEW c \in commands, CleanupPid(c) \/ CleanupSocket(c) PROVE OrdersOK'
  BY <1>3 DEF OrdersOK, Orders, CleanupPid, CleanupSocket
<1>4. ASSUME NEW p \in Proc, Spawn(p) \/ Crash(p) \/ Terminate(p) \/ StopTimer(p) PROVE OrdersOK'
  BY <1>4 DEF OrdersOK, Spawn, Crash, Terminate, StopTimer, Issue
<1>5. ASSUME NEW p \in Proc,
             \/ RemoveSocketFile(p) \/ Listen(p) \/ CheckStalePid(p) \/ RemoveStalePid(p)
             \/ WritePid(p) \/ ConnectTransport(p) \/ Started(p) \/ StartFails(p)
             \/ SyncStopped(p) \/ UnlinkPid(p) \/ UnlinkSocket(p) \/ EmitStopped(p)
      PROVE  OrdersOK'
  <2>1. UNCHANGED cmdVars
    BY <1>5 DEF RemoveSocketFile, Listen, CheckStalePid, RemoveStalePid, WritePid,
                ConnectTransport, Started, StartFails, SyncStopped, UnlinkPid, UnlinkSocket,
                EmitStopped
  <2> QED BY <2>1 DEF cmdVars, OrdersOK
<1> QED BY <1>1, <1>2, <1>3, <1>4, <1>5 DEF LifeNext

\* Those that are not alive, and the only one that is.
LEMMA Idlers ==
  ASSUME Alone
  PROVE  /\ \A q \in Proc : ~Alive(q) => ending[q] = "no" /\ ~Up(q)
         /\ \A p, q \in Proc : Alive(p) /\ q # p => ~Alive(q)
<1>1. \A q \in Proc : ~Alive(q) => ending[q] = "no" /\ ~Up(q)
  BY DEF Alone, Equipped, Up, Alive
<1> QED BY <1>1 DEF Alone, Commanded, Living

\* Where the files may lead after a step of p.
Leads(old, new, p) == new \in {old, NoPid, p}

\* A process does a step, and goes on or ends.
OthersStay(p) ==
  \A q \in Proc \ {p} :
    /\ phase'[q] = phase[q] /\ ending'[q] = ending[q]
    /\ q \in listener' <=> q \in listener
    /\ q \in handlers' <=> q \in handlers
    /\ q \in engine' <=> q \in engine

LEMMA Stepping ==
  ASSUME Alone, NEW p \in Proc, Alive(p), OthersStay(p),
         commands' \subseteq commands,
         Equipped(p)', Led(p)',
         Leads(pidFile, pidFile', p), Leads(socketFile, socketFile', p),
         Alive(p)' /\ commands' # {} => phase'[p] = "up",
         Up(p)' /\ commands' # {} => [kind |-> "timer", at |-> p] \in commands'
  PROVE  Alone'
<1>1. ASSUME NEW q \in Proc, q # p PROVE Equipped(q)' /\ Led(q)'
  <2>1. ~Alive(q) /\ ending[q] = "no" /\ ~Up(q) /\ Equipped(q) /\ Led(q)
    BY <1>1, Idlers DEF Alone
  <2>2. phase'[q] = phase[q] /\ ending'[q] = ending[q]
    BY <1>1 DEF OthersStay
  <2>3. Equipped(q)'
    BY <1>1, <2>1, <2>2 DEF OthersStay, Equipped, Up
  <2>4. Led(q)'
    BY <1>1, <2>1, <2>2, LifeAssumption DEF Led, Leads, Alive, Up
  <2> QED BY <2>3, <2>4
<1>2. Commanded'
  <2>1. \A q \in Living' : q = p
    BY Idlers DEF Living, Alive, OthersStay
  <2>2. \A c \in commands' : c.kind # "spawn"
    BY DEF Alone, Commanded, Living
  <2> QED BY <2>1, <2>2 DEF Commanded, Living
<1> QED BY <1>1, <1>2 DEF Alone

LEMMA DyingKeeps ==
  ASSUME LifeTypeOK, Alone, NEW p \in Proc, Alive(p), NEW how \in {"dead", "ended"}, DiesAs(p, how),
         how = "ended" => pidFile # p /\ socketFile' # p,
         UNCHANGED <<pidFile, commands>>,
         socketFile' \in {socketFile, NoPid}
  PROVE  Alone'
<1>1. /\ phase' = [phase EXCEPT ![p] = how] /\ ending' = [ending EXCEPT ![p] = "no"]
      /\ listener' = listener \ {p} /\ handlers' = handlers \ {p} /\ engine' = engine \ {p}
  BY DEF DiesAs, Goes
<1>2. phase'[p] = how /\ ending'[p] = "no"
  BY <1>1 DEF LifeTypeOK
<1>3. OthersStay(p)
  BY <1>1 DEF LifeTypeOK, OthersStay
<1>4. Equipped(p)' /\ ~Up(p)' /\ ~Alive(p)'
  BY <1>1, <1>2 DEF Equipped, Up, Alive
<1>5. Led(p)'
  BY <1>2, <1>4 DEF Led
<1> QED BY <1>1, <1>2, <1>3, <1>4, <1>5, Stepping DEF Leads

LEMMA SignalKeeps ==
  ASSUME LifeTypeOK, Alone, NEW p \in Proc, Up(p), BeginStop(p), UNCHANGED <<pidFile, socketFile>>,
         commands' \subseteq commands
  PROVE  Alone'
<1>1. /\ ending' = [ending EXCEPT ![p] = "persisting"] /\ phase[p] = "up"
      /\ handlers' = handlers \ {p} /\ UNCHANGED <<phase, listener, engine>>
  BY DEF BeginStop, Up, Alone, Equipped
<1>2. ending'[p] = "persisting" /\ Alive(p) /\ OthersStay(p)
  BY <1>1 DEF LifeTypeOK, Alive, OthersStay
<1>3. Equipped(p)' /\ ~Up(p)'
  BY <1>1, <1>2 DEF Alone, Equipped, Up
<1>4. Led(p)'
  BY <1>1, <1>2, <1>3 DEF Led
<1> QED BY <1>1, <1>2, <1>3, <1>4, Stepping DEF Leads

\* A process on its way up, or to its failure.
LEMMA GoingKeeps ==
  ASSUME LifeTypeOK, Alone, NEW p \in Proc, Alive(p), NEW to, UNCHANGED <<ending, cmdVars>>,
         to \in {"binding", "checking", "clearing", "claiming", "connecting", "starting",
                 "up", "failed"},
         phase' = [phase EXCEPT ![p] = to], phase[p] # "up",
         listener' = IF to = "up" THEN listener \cup {p} ELSE listener,
         handlers' = IF to = "up" THEN handlers \cup {p} ELSE handlers,
         engine' = IF to = "connecting" THEN engine \cup {p} ELSE engine,
         to \in {"starting", "up"} => p \in engine,
         Leads(pidFile, pidFile', p), Leads(socketFile, socketFile', p),
         to = "binding" => socketFile' = NoPid,
         to \notin {"binding", "failed"} => socketFile' = p,
         to \in {"connecting", "starting", "up"} => pidFile' = p
  PROVE  Alone'
<1>1. phase'[p] = to /\ ending[p] = "no"
      /\ OthersStay(p)
  BY DEF LifeTypeOK, Alone, Equipped, OthersStay
<1>2. Equipped(p)'
  BY <1>1 DEF Alone, Equipped, Up
<1>3. Led(p)' /\ commands' = {}
  <2>1. commands = {}
    BY DEF Alone, Commanded, Living
  <2>2. Led(p)'
    BY <1>1 DEF Led, Up
  <2> QED BY <2>1, <2>2 DEF cmdVars
<1> QED BY <1>1, <1>2, <1>3, Stepping DEF cmdVars

\* A process on its way down.
LEMMA EndingKeeps ==
  ASSUME LifeTypeOK, Alone, NEW p \in Proc, Alive(p), NEW from, NEW to,
         from # "no", to \in {"unpid", "unsock", "emit"},
         Ends(p, from, to), UNCHANGED <<phase, listener, handlers, cmdVars>>,
         engine' \in {engine, engine \ {p}},
         pidFile' \in {pidFile, NoPid}, socketFile' \in {socketFile, NoPid},
         to \in {"unsock", "emit"} => pidFile' # p,
         to = "emit" => socketFile' # p
  PROVE  Alone'
<1>1. /\ ending[p] = from /\ phase[p] = "up"
      /\ ending' = [ending EXCEPT ![p] = to]
  BY DEF Ends, Alone, Equipped
<1>2. ending'[p] = to
      /\ OthersStay(p)
  BY <1>1 DEF LifeTypeOK, OthersStay
<1>3. Equipped(p)' /\ ~Up(p)'
  BY <1>1, <1>2 DEF Alone, Equipped, Up
<1>4. Led(p)'
  BY <1>1, <1>2, <1>3 DEF Led
<1> QED BY <1>1, <1>2, <1>3, <1>4, Stepping DEF Leads, cmdVars

\* The steps of the processes.
LEMMA DaemonKeeps ==
  ASSUME LifeTypeOK, Alone, NEW p \in Proc,
         \/ RemoveSocketFile(p) \/ Listen(p) \/ CheckStalePid(p) \/ RemoveStalePid(p)
         \/ WritePid(p) \/ ConnectTransport(p) \/ Started(p) \/ StartFails(p)
         \/ SyncStopped(p) \/ UnlinkPid(p) \/ UnlinkSocket(p) \/ EmitStopped(p) \/ Crash(p)
  PROVE  Alone'
<1> USE DEF Goes, restVars, Leads
<1>1. Equipped(p) /\ Commanded /\ Led(p)
  BY DEF Alone
<1>2. ASSUME Alive(p), phase[p] # "up" PROVE commands = {}
  BY <1>1, <1>2 DEF Commanded, Living
<1>3. CASE RemoveSocketFile(p)
  <2>1. Alive(p)
    BY <1>3 DEF RemoveSocketFile, Alive
  <2> QED BY <1>3, <2>1, GoingKeeps DEF RemoveSocketFile
<1>4. CASE Listen(p)
  <2>1. Alive(p)
    BY <1>4 DEF Listen, Alive
  <2>2. CASE socketFile = NoPid
    BY <1>4, <2>1, <2>2, GoingKeeps DEF Listen
  <2>3. CASE socketFile # NoPid
    BY <1>4, <2>1, <2>3, GoingKeeps DEF Listen
  <2> QED BY <2>2, <2>3
<1>5. CASE CheckStalePid(p)
  <2>1. Alive(p)
    BY <1>5 DEF CheckStalePid, Alive
  <2>2. PICK to \in {"claiming", "clearing", "failed"} : Goes(p, to)
    <3>1. CASE pidFile = NoPid
      BY <1>5, <3>1, LifeAssumption DEF CheckStalePid, IsProcessRunning, Living
    <3>2. CASE pidFile # NoPid /\ IsProcessRunning(pidFile)
      BY <1>5, <3>2 DEF CheckStalePid
    <3>3. CASE pidFile # NoPid /\ ~IsProcessRunning(pidFile)
      BY <1>5, <3>3 DEF CheckStalePid
    <3> QED BY <3>1, <3>2, <3>3
  <2>3. socketFile = p
    BY <1>1, <1>2, <1>5, <2>1 DEF Led, CheckStalePid
  <2> QED BY <1>5, <2>1, <2>2, <2>3, GoingKeeps DEF CheckStalePid
<1>6. CASE RemoveStalePid(p)
  <2>1. Alive(p)
    BY <1>6 DEF RemoveStalePid, Alive
  <2>2. socketFile = p
    BY <1>1, <1>2, <1>6, <2>1 DEF Led, RemoveStalePid
  <2> QED BY <1>6, <2>1, <2>2, GoingKeeps DEF RemoveStalePid
<1>7. CASE WritePid(p)
  <2>1. Alive(p)
    BY <1>7 DEF WritePid, Alive
  <2>2. socketFile = p
    BY <1>1, <1>2, <1>7, <2>1 DEF Led, WritePid
  <2> QED BY <1>7, <2>1, <2>2, GoingKeeps DEF WritePid
<1>8. CASE ConnectTransport(p)
  <2>1. Alive(p)
    BY <1>8 DEF ConnectTransport, Alive
  <2>2. socketFile = p /\ pidFile = p
    BY <1>1, <1>2, <1>8, <2>1 DEF Led, ConnectTransport
  <2>3. p \in engine
    BY <1>1, <1>8 DEF Equipped, ConnectTransport
  <2>4. CASE Goes(p, "failed")
    BY <1>8, <2>1, <2>4, GoingKeeps DEF ConnectTransport
  <2>5. CASE Goes(p, "starting")
    BY <1>8, <2>1, <2>2, <2>3, <2>5, GoingKeeps DEF ConnectTransport
  <2> QED BY <1>8, <2>4, <2>5 DEF ConnectTransport
<1>9. CASE Started(p)
  <2>1. Alive(p)
    BY <1>9 DEF Started, Alive
  <2>2. socketFile = p /\ pidFile = p
    BY <1>1, <1>2, <1>9, <2>1 DEF Led, Started
  <2>3. p \in engine
    BY <1>1, <1>9 DEF Equipped, Started
  <2> QED BY <1>9, <2>1, <2>2, <2>3, GoingKeeps DEF Started
<1>10. CASE StartFails(p)
  <2>1. Alive(p)
    BY <1>10 DEF StartFails, Alive
  <2> QED BY <1>10, <2>1, DyingKeeps DEF StartFails, Dies, cmdVars
<1>11. CASE Crash(p)
  BY <1>11, DyingKeeps DEF Crash, Dies
<1>12. CASE SyncStopped(p)
  <2>1. Ends(p, "persisting", "unpid") /\ Alive(p)
    BY <1>12 DEF SyncStopped, Ends
  <2> QED BY <1>12, <2>1, EndingKeeps DEF SyncStopped
<1>13. CASE UnlinkPid(p)
  <2>1. Ends(p, "unpid", "unsock") /\ Alive(p)
    BY <1>13 DEF UnlinkPid, Ends
  <2>2. NoPid # p
    BY LifeAssumption
  <2> QED BY <1>13, <2>1, <2>2, EndingKeeps DEF UnlinkPid
<1>14. CASE UnlinkSocket(p)
  <2>1. Ends(p, "unsock", "emit") /\ Alive(p) /\ ending[p] = "unsock"
    BY <1>14 DEF UnlinkSocket, Ends
  <2>2. NoPid # p
    BY LifeAssumption
  <2>3. pidFile # p
    BY <1>1, <2>1 DEF Led
  <2>4. ending'[p] = "emit" /\ OthersStay(p) /\ phase[p] = "up" /\ UNCHANGED phase
    BY <1>1, <1>14, <2>1 DEF UnlinkSocket, Ends, LifeTypeOK, OthersStay, Equipped
  <2>5. Equipped(p)' /\ ~Up(p)'
    BY <1>1, <1>14, <2>1, <2>4 DEF Equipped, Up, UnlinkSocket
  <2>6. Led(p)'
    BY <1>14, <2>2, <2>3, <2>4, <2>5 DEF Led, UnlinkSocket
  <2> QED BY <1>14, <2>1, <2>4, <2>5, <2>6, Stepping DEF UnlinkSocket, cmdVars
<1>15. CASE EmitStopped(p)
  <2>1. /\ Alive(p) /\ phase[p] = "up" /\ DiesAs(p, "ended") /\ ending[p] = "emit"
        /\ socketFile' \in {socketFile, NoPid} /\ UNCHANGED <<pidFile, cmdVars>>
    BY <1>1, <1>15 DEF EmitStopped, Equipped
  <2>2. pidFile # p /\ socketFile' # p
    BY <1>1, <2>1, LifeAssumption DEF Led
  <2>3. phase'[p] = "ended" /\ ending'[p] = "no" /\ OthersStay(p)
    BY <2>1 DEF DiesAs, LifeTypeOK, OthersStay
  <2>4. Equipped(p)' /\ ~Up(p)' /\ ~Alive(p)'
    BY <2>1, <2>3 DEF Equipped, Up, Alive, DiesAs
  <2>5. Led(p)'
    BY <2>1, <2>2, <2>3, <2>4 DEF Led
  <2> QED BY <2>1, <2>3, <2>4, <2>5, Stepping DEF cmdVars
<1> QED BY <1>3, <1>4, <1>5, <1>6, <1>7, <1>8, <1>9, <1>10, <1>11, <1>12, <1>13, <1>14, <1>15

\* Commands.  One that finds things calm finds the daemon that the previous one
\* left up, if there is one.
LEMMA CalmMeans ==
  ASSUME LifeInv, Issue, ~crowded'
  PROVE  ~crowded /\ commands = {} /\ \A p \in Living : Up(p)
BY DEF Issue, Calm

LEMMA StartKeeps ==
  ASSUME LifeInv, StartCommand, ~crowded'
  PROVE  Alone'
<1>1. Alone /\ commands = {} /\ \A p \in Living : Up(p)
  BY CalmMeans DEF StartCommand, LifeInv
<1>2. UNCHANGED <<phase, ending, listener, handlers, engine, pidFile, socketFile>>
  BY DEF StartCommand, restVars
<1>3. Living' = Living
  BY <1>2 DEF Living, Alive
<1>4. Commanded'
  <2>1. CASE Answering # {}
    BY <1>1, <1>2, <1>3, <2>1 DEF StartCommand, Alone, Commanded
  <2>2. CASE Answering = {}
    <3>1. Living = {}
      BY <1>1, <2>2 DEF Alone, Led, Answering, Living
    <3> QED BY <1>1, <1>3, <2>2, <3>1 DEF StartCommand, Commanded
  <2> QED BY <2>1, <2>2
<1>5. \A p \in Proc : Equipped(p)' /\ Led(p)'
  BY <1>1, <1>2 DEF Alone, Equipped, Led, Up
<1> QED BY <1>4, <1>5 DEF Alone

LEMMA StopKeeps ==
  ASSUME LifeInv, StopCommand, ~crowded'
  PROVE  Alone'
<1>1. Alone /\ commands = {} /\ \A p \in Living : Up(p)
  BY CalmMeans DEF StopCommand, LifeInv
<1>2. \A p \in Living : socketFile = p /\ Answering = {p}
  BY <1>1 DEF Alone, Led, Answering, Living
<1>3. UNCHANGED <<phase, ending, listener, handlers, engine, pidFile, socketFile>>
  BY <1>2 DEF StopCommand, restVars
<1>4. Living' = Living
  BY <1>3 DEF Living, Alive
<1>5. \A c \in commands' : c.kind # "spawn"
  BY <1>1 DEF StopCommand, Cleanup
<1>6. \A p \in Living : phase[p] = "up" /\ [kind |-> "timer", at |-> p] \in commands'
  BY <1>1, <1>2 DEF StopCommand, Up
<1>7. Commanded'
  BY <1>1, <1>3, <1>4, <1>5, <1>6 DEF Alone, Commanded
<1>8. \A p \in Proc : Equipped(p)' /\ Led(p)'
  BY <1>1, <1>3 DEF Alone, Equipped, Led, Up
<1> QED BY <1>7, <1>8 DEF Alone

LEMMA CleanupKeeps ==
  ASSUME OrdersOK, Alone, NEW c \in commands, CleanupPid(c) \/ CleanupSocket(c)
  PROVE  Alone'
<1>0. \/ CleanupPid(c) /\ commands' = (commands \ {c}) \cup {[kind |-> "unlink-socket", at |-> c.at]}
      \/ CleanupSocket(c) /\ commands' = commands \ {c}
  BY DEF CleanupPid, CleanupSocket, OrdersOK, Orders
<1>1. /\ UNCHANGED <<phase, ending, listener, handlers, engine>>
      /\ pidFile' \in {pidFile, NoPid} /\ socketFile' \in {socketFile, NoPid}
  BY DEF CleanupPid, CleanupSocket, restVars
<1>2. Living' = Living
  BY <1>1 DEF Living, Alive
<1>3. \A x \in commands' : x.kind # "spawn"
  <2>1. \A x \in commands : x.kind # "spawn"
    BY DEF Alone, Commanded, CleanupPid, CleanupSocket
  <2> QED BY <1>0, <2>1
<1>4. \A p \in Living : /\ phase[p] = "up"
                        /\ Up(p) => [kind |-> "timer", at |-> p] \in commands'
  <2>1. c.kind # "timer"
    BY DEF CleanupPid, CleanupSocket
  <2>2. \A p : [kind |-> "timer", at |-> p] # c
    BY <2>1
  <2> QED BY <1>0, <2>2 DEF Alone, Commanded
<1>5. Commanded'
  BY <1>1, <1>2, <1>3, <1>4 DEF Alone, Commanded, Up
<1>6. ASSUME NEW p \in Proc PROVE Equipped(p)' /\ Led(p)'
  <2>1. Equipped(p) /\ Led(p) /\ (Alive(p) => phase[p] = "up" /\ (Up(p) => commands' # {}))
    BY <1>4 DEF Alone, Living
  <2>2. Equipped(p)'
    BY <1>1, <2>1 DEF Equipped, Up
  <2>3. Led(p)'
    BY <1>1, <2>1, LifeAssumption DEF Led, Up, Alive
  <2> QED BY <2>2, <2>3
<1> QED BY <1>5, <1>6 DEF Alone

LEMMA SpawnKeeps ==
  ASSUME LifeTypeOK, Alone, NEW p \in Proc, Spawn(p)
  PROVE  Alone'
<1>1. PICK c \in commands : c.kind = "spawn" /\ commands' = commands \ {c}
  BY DEF Spawn
<1>2. Living = {} /\ commands' = {}
  BY <1>1 DEF Alone, Commanded
<1>3. /\ phase[p] = "unborn" /\ phase' = [phase EXCEPT ![p] = "born"] /\ phase'[p] = "born"
      /\ \A q \in Proc \ {p} : phase'[q] = phase[q]
      /\ UNCHANGED <<ending, listener, handlers, engine, pidFile, socketFile>>
  BY DEF Spawn, Goes, restVars, LifeTypeOK
<1>4. \A q \in Proc : ~Alive(q) /\ ending[q] = "no"
  BY <1>2, Idlers DEF Living
<1>5. Commanded'
  BY <1>2, <1>3, <1>4 DEF Commanded, Living, Alive
<1>6. ASSUME NEW q \in Proc PROVE Equipped(q)' /\ Led(q)'
  BY <1>2, <1>3, <1>4, <1>6 DEF Alone, Equipped, Led, Up, Alive
<1> QED BY <1>5, <1>6 DEF Alone

LEMMA TerminateKeeps ==
  ASSUME LifeInv, NEW p \in Proc, Terminate(p), ~crowded'
  PROVE  Alone'
<1>1. Alone /\ Up(p) /\ Alive(p)
  BY CalmMeans DEF Terminate, LifeInv, Living
<1>2. BeginStop(p)
  BY <1>1 DEF Terminate, Signal, Alone, Equipped
<1> QED BY <1>1, <1>2, SignalKeeps DEF Terminate, LifeInv

LEMMA TimerKeeps ==
  ASSUME LifeTypeOK, Alone, NEW p \in Proc, StopTimer(p)
  PROVE  Alone'
<1>1. PICK c \in commands : c.kind = "timer" /\ c.at = p /\ commands' = commands \ {c}
  BY DEF StopTimer
<1>2. /\ commands' \subseteq commands /\ UNCHANGED <<pidFile, socketFile>> /\ commands # {}
      /\ \A x \in commands : x.kind # "spawn"
  <2>1. \A x \in commands : x.kind # "spawn"
    BY <1>1 DEF Alone, Commanded
  <2> QED BY <1>1, <2>1 DEF StopTimer
<1>3. CASE Alive(p) /\ ending[p] = "no"
  <2>1. Up(p)
    BY <1>2, <1>3 DEF Alone, Commanded, Living, Up
  <2>2. BeginStop(p)
    BY <1>3 DEF StopTimer
  <2> QED BY <1>2, <2>1, <2>2, SignalKeeps
<1>4. CASE ~(Alive(p) /\ ending[p] = "no")
  <2>1. UNCHANGED <<phase, ending, listener, handlers, engine>>
    BY <1>4 DEF StopTimer, BeginStop, restVars
  <2>2. \A q \in Living : phase[q] = "up" /\ (Up(q) => [kind |-> "timer", at |-> q] \in commands')
    <3>1. \A q \in Living : /\ phase[q] = "up"
                            /\ Up(q) => [kind |-> "timer", at |-> q] \in commands
      BY <1>2 DEF Alone, Commanded
    <3>2. \A q \in Living : Up(q) => q # p
      BY <1>4 DEF Living, Up
    <3>3. \A q \in Living : Up(q) => [kind |-> "timer", at |-> q] # c
      BY <1>1, <3>2
    <3> QED BY <1>1, <3>1, <3>3
  <2>3. Living' = Living
    BY <2>1 DEF Living, Alive
  <2>4. Commanded'
    BY <1>2, <2>1, <2>2, <2>3 DEF Alone, Commanded, Up
  <2>5. ASSUME NEW q \in Proc PROVE Equipped(q)' /\ Led(q)'
    <3>1. Equipped(q) /\ Led(q) /\ (Alive(q) => phase[q] = "up" /\ (Up(q) => commands' # {}))
      BY <2>2 DEF Alone, Living
    <3> QED BY <1>2, <2>1, <3>1 DEF Equipped, Led, Up, Alive
  <2> QED BY <2>4, <2>5 DEF Alone
<1> QED BY <1>3, <1>4

\* Whatever crashes and commands there are, as long as each command waits for
\* the effect of the one before: a worktree has one daemon at most; the PID file
\* that daemon.start writes and the socket of ipc.start lead to it, and to no
\* daemon that has ended.
THEOREM FilesLead == LifeSpec => []FilesLeadToDaemon
<1>1. LifeInv => FilesLeadToDaemon
  <2> SUFFICES ASSUME LifeInv, ~crowded PROVE FilesLeadToDaemon
    BY DEF FilesLeadToDaemon
  <2> DEFINE up == {p \in Proc : phase[p] = "up"}
  <2>1. Alone
    BY DEF LifeInv
  <2>2. Cardinality(up) <= 1
    <3>1. up \subseteq Living
      BY DEF Living, Alive
    <3>2. \A p, q \in up : p = q
      BY <2>1, <3>1 DEF Alone, Commanded
    <3> HIDE DEF up
    <3>3. CASE up = {}
      BY <3>3, FS_EmptySet
    <3>4. ASSUME NEW p \in up PROVE Cardinality(up) <= 1
      <4>1. up = {p}
        BY <3>2, <3>4
      <4> QED BY <4>1, FS_Singleton
    <3> QED BY <3>3, <3>4
  <2>3. \A p \in Proc :
          /\ Up(p) /\ commands = {} => pidFile = p /\ socketFile = p /\ p \in engine \cap handlers
          /\ phase[p] = "ended" => pidFile # p /\ socketFile # p
    BY <2>1 DEF Alone, Led, Equipped
  <2> QED BY <2>2, <2>3 DEF FilesLeadToDaemon
<1>2. ASSUME LifeInv, [LifeNext]_lifeVars PROVE LifeInv'
  <2>1. CASE UNCHANGED lifeVars
    BY <1>2, <2>1 DEF lifeVars, LifeInv, LifeTypeOK, OrdersOK, Alone, Commanded, Equipped, Led, Living, Alive, Up
  <2>2. ASSUME LifeNext, ~crowded' PROVE Alone'
    <3>1. CASE StartCommand \/ StopCommand
      BY <1>2, <2>2, <3>1, StartKeeps, StopKeeps
    <3>2. ASSUME NEW p \in Proc, Terminate(p) PROVE Alone'
      BY <1>2, <2>2, <3>2, TerminateKeeps
    <3>3. CASE \/ \E c \in commands : CleanupPid(c) \/ CleanupSocket(c)
               \/ \E p \in Proc : Spawn(p) \/ StopTimer(p)
      <4>1. UNCHANGED crowded
        BY <3>3 DEF CleanupPid, CleanupSocket, Spawn, StopTimer
      <4>2. LifeTypeOK /\ OrdersOK /\ Alone
        BY <1>2, <2>2, <4>1 DEF LifeInv
      <4> QED BY <3>3, <4>2, CleanupKeeps, SpawnKeeps, TimerKeeps
    <3>4. ASSUME NEW p \in Proc,
                 \/ RemoveSocketFile(p) \/ Listen(p) \/ CheckStalePid(p) \/ RemoveStalePid(p)
                 \/ WritePid(p) \/ ConnectTransport(p) \/ Started(p) \/ StartFails(p)
                 \/ SyncStopped(p) \/ UnlinkPid(p) \/ UnlinkSocket(p) \/ EmitStopped(p) \/ Crash(p)
          PROVE  Alone'
      <4>1. UNCHANGED crowded
        BY <3>4 DEF RemoveSocketFile, Listen, CheckStalePid, RemoveStalePid, WritePid,
                    ConnectTransport, Started, StartFails, SyncStopped, UnlinkPid, UnlinkSocket,
                    EmitStopped, Crash, cmdVars
      <4>2. LifeTypeOK /\ Alone
        BY <1>2, <2>2, <4>1 DEF LifeInv
      <4> QED BY <3>4, <4>2, DaemonKeeps
    <3> QED BY <2>2, <3>1, <3>2, <3>3, <3>4 DEF LifeNext
  <2>3. ASSUME LifeNext PROVE LifeTypeOK' /\ OrdersOK'
    BY <1>2, <2>3, LifeTyped, OrdersTyped DEF LifeInv
  <2> QED BY <1>2, <2>1, <2>2, <2>3 DEF LifeInv
<1> QED BY <1>1, <1>2, LifeBegins, PTL DEF LifeSpec

----------------------------------------------------------------------------
(* The manifest *)

Kind == {"add", "change", "unlink"}
Timer == [path : Name, hash : Hash, number : Nat]

ManifestTypeOK ==
  /\ file \in [Name -> Hash \cup {NoFile}]
  /\ reports \in [Name -> Seq(Kind)]
  /\ reads \subseteq [path : Name, hash : Hash, kind : Kind]
  /\ content \in [Name -> Hash \cup {NoFile}]
  /\ map \in [Name -> Entry \cup {NoFile}]
  /\ pending \in [Hash -> Nat]
  /\ deleteTimers \subseteq Timer
  /\ deletions \in Nat

\* The timers are numbered from 1 on, each deletion once.
Numbered ==
  /\ \A t \in deleteTimers : t.number \in 1..deletions
  /\ \A t, u \in deleteTimers : t.number = u.number => t = u

\* The last report of a path says whether the file is there.
LastOf(queue) == queue[Len(queue)]
LastSays(p) == reports[p] # <<>> => (LastOf(reports[p]) = "unlink" <=> file[p] = NoFile)

\* A change of p, or the content that the file has now, is still to be handled.
Unhandled(p) == reports[p] # <<>> \/ \E r \in reads : r.path = p /\ r.hash = file[p]

\* What is listed is what the document has.
ListedAsKnown(p) == Listed(map, p) => map[p].hash = content[p]
\* A file with nothing to be handled is known as it is, and listed for good.
FileKnown(p) ==
  file[p] # NoFile /\ p \notin late /\ ~Unhandled(p) =>
    /\ content[p] = file[p]
    /\ p \notin recreated => Listed(map, p) /\ RunningFor(p) = {}
\* A listed path without a file is about to be unlisted.
MissingNoticed(p) ==
  Listed(map, p) /\ p \notin late /\ file[p] = NoFile =>
    reports[p] # <<>> \/ RunningFor(p) # {}

Accounts(p) == LastSays(p) /\ ListedAsKnown(p) /\ FileKnown(p) /\ MissingNoticed(p)
ManifestInv == ManifestTypeOK /\ Numbered /\ \A p \in Name : Accounts(p)

LEMMA ManifestBegins == ManifestInit => ManifestInv
<1> SUFFICES ASSUME ManifestInit PROVE ManifestInv
  OBVIOUS
<1>1. ManifestTypeOK
  BY ManifestAssumption DEF ManifestInit, ManifestTypeOK, Entry, Kind
<1>2. Numbered
  BY DEF ManifestInit, Numbered
<1>3. ASSUME NEW p \in Name PROVE Accounts(p)
  <2>1. /\ content[p] = file[p] /\ reports[p] = <<>> /\ RunningFor(p) = {}
        /\ file[p] \in Hash \cup {NoFile}
        /\ map[p] = IF file[p] = NoFile THEN NoFile ELSE [exists |-> TRUE, hash |-> file[p]]
    BY DEF ManifestInit, RunningFor
  <2>2. CASE file[p] = NoFile
    BY <2>1, <2>2 DEF Accounts, LastSays, ListedAsKnown, FileKnown, MissingNoticed, Listed
  <2>3. CASE file[p] # NoFile
    <3>1. map[p] = [exists |-> TRUE, hash |-> file[p]] /\ file[p] \in Hash
      BY <2>1, <2>3
    <3>2. map[p] \in Entry /\ map[p].exists /\ map[p].hash = file[p]
      BY <3>1 DEF Entry
    <3>3. map[p] # NoFile
      BY <3>2, ManifestAssumption
    <3> QED BY <2>1, <2>3, <3>2, <3>3 DEF Accounts, LastSays, ListedAsKnown, FileKnown, MissingNoticed, Listed
  <2> QED BY <2>2, <2>3
<1> QED BY <1>1, <1>2, <1>3 DEF ManifestInv

----------------------------------------------------------------------------
(* Queues of reports *)

LEMMA Reported ==
  ASSUME ManifestInv, NEW p \in Name, NEW to \in Hash \cup {NoFile}, to # file[p]
  PROVE  LET queue == Report(p, file[p], to) IN
         queue \in Seq(Kind) /\ queue # <<>> /\ (LastOf(queue) = "unlink" <=> to = NoFile)
<1> DEFINE queue == reports[p]
           kind == CASE file[p] = NoFile -> "add" [] to = NoFile -> "unlink" [] OTHER -> "change"
<1>1. queue \in Seq(Kind)
  BY DEF ManifestInv, ManifestTypeOK
<1>2. kind \in Kind /\ (kind = "unlink" <=> to = NoFile) /\ (kind = "add" <=> file[p] = NoFile)
  BY DEF Kind
<1>3. Report(p, file[p], to)
        = IF kind = "add" /\ queue # <<>> /\ queue[Len(queue)] = "unlink"
          THEN [queue EXCEPT ![Len(queue)] = "change"] ELSE Append(queue, kind)
  BY DEF Report
<1> HIDE DEF queue, kind
<1>4. CASE kind = "add" /\ queue # <<>> /\ queue[Len(queue)] = "unlink"
  <2> DEFINE new == [queue EXCEPT ![Len(queue)] = "change"]
  <2>1. Len(queue) \in 1..Len(queue)
    BY <1>1, <1>4
  <2>2. new \in Seq(Kind) /\ Len(new) = Len(queue) /\ new[Len(queue)] = "change"
    BY <1>1, <2>1 DEF Kind
  <2>3. new # <<>>
    BY <2>1, <2>2
  <2>4. to # NoFile
    BY <1>2, <1>4
  <2> QED BY <1>3, <1>4, <2>2, <2>3, <2>4 DEF LastOf
<1>5. CASE ~(kind = "add" /\ queue # <<>> /\ queue[Len(queue)] = "unlink")
  <2> DEFINE new == Append(queue, kind)
  <2>1. new \in Seq(Kind) /\ Len(new) = Len(queue) + 1 /\ new[Len(queue) + 1] = kind /\ new # <<>>
    BY <1>1, <1>2
  <2> QED BY <1>2, <1>3, <1>5, <2>1 DEF LastOf
<1> QED BY <1>4, <1>5

LEMMA Shortened ==
  ASSUME NEW queue \in Seq(Kind), queue # <<>>
  PROVE  /\ Head(queue) \in Kind /\ Tail(queue) \in Seq(Kind)
         /\ Tail(queue) = <<>> => Head(queue) = LastOf(queue)
         /\ Tail(queue) # <<>> => LastOf(Tail(queue)) = LastOf(queue)
<1>1. Len(queue) \in Nat \ {0} /\ Tail(queue) \in Seq(Kind) /\ Len(Tail(queue)) = Len(queue) - 1
  OBVIOUS
<1>2. Head(queue) = queue[1] /\ Head(queue) \in Kind
  BY <1>1
<1>3. CASE Tail(queue) = <<>>
  <2>1. Len(queue) = 1
    <3> DEFINE rest == Tail(queue)
    <3>1. rest \in Seq(Kind) /\ Len(rest) = Len(queue) - 1 /\ rest = <<>>
      BY <1>1, <1>3
    <3> HIDE DEF rest
    <3>2. Len(rest) = 0
      BY <3>1
    <3>3. Len(rest) = Len(queue) - 1 /\ Len(queue) \in Nat
      BY <1>1 DEF rest
    <3> QED BY ONLY <3>2, <3>3
  <2> QED BY <1>1, <1>2, <1>3, <2>1 DEF LastOf
<1>4. CASE Tail(queue) # <<>>
  <2>1. Len(queue) > 1
    BY <1>1, <1>4
  <2>2. Tail(queue)[Len(queue) - 1] = queue[Len(queue)]
    BY <1>1, <2>1
  <2> QED BY <1>1, <1>2, <1>4, <2>2 DEF LastOf
<1> QED BY <1>3, <1>4

----------------------------------------------------------------------------
(* Steps *)

\* A user's change.
LEMMA WorkKeeps ==
  ASSUME ManifestInv, NEW after \in [Name -> Hash \cup {NoFile}], Work(after)
  PROVE  ManifestInv'
<1>1. /\ file' = after /\ UNCHANGED <<reads, content, map, pending, deleteTimers, deletions, late, recreated>>
      /\ reports' = [p \in Name |-> IF after[p] = file[p] THEN reports[p] ELSE Report(p, file[p], after[p])]
  BY DEF Work
<1>2. \A p \in Name : after[p] # file[p] =>
        /\ reports'[p] \in Seq(Kind) /\ reports'[p] # <<>>
        /\ LastOf(reports'[p]) = "unlink" <=> after[p] = NoFile
  BY <1>1, Reported
<1>3. ManifestTypeOK' /\ Numbered'
  BY <1>1, <1>2 DEF ManifestInv, ManifestTypeOK, Numbered
<1>4. ASSUME NEW p \in Name PROVE Accounts(p)'
  <2>1. Accounts(p)
    BY DEF ManifestInv
  <2>2. CASE after[p] = file[p]
    <3>1. file'[p] = file[p] /\ reports'[p] = reports[p]
      BY <1>1, <2>2
    <3> QED BY <1>1, <2>1, <3>1 DEF Accounts, LastSays, ListedAsKnown, FileKnown, MissingNoticed,
                                    Unhandled, Listed, RunningFor
  <2>3. CASE after[p] # file[p]
    BY <1>1, <1>2, <2>1, <2>3 DEF Accounts, LastSays, ListedAsKnown, FileKnown, MissingNoticed,
                                  Unhandled, Listed, RunningFor
  <2> QED BY <2>2, <2>3
<1> QED BY <1>3, <1>4 DEF ManifestInv

\* checkRename finds one deletion at most.
LEMMA RenameFindsOne ==
  ASSUME ManifestInv, NEW h \in Hash
  PROVE  \/ CheckRename(h) = {}
         \/ \E t \in deleteTimers : CheckRename(h) = {t}
BY DEF ManifestInv, Numbered, CheckRename, Named

LEMMA ListsNow ==
  ASSUME NEW p \in Name, NEW h \in Hash, NEW m, m[p] = [exists |-> TRUE, hash |-> h]
  PROVE  Listed(m, p) /\ m[p].hash = h
<1>1. m[p] \in Entry /\ m[p].exists /\ m[p].hash = h
  BY DEF Entry
<1>2. m[p] # NoFile
  BY <1>1, ManifestAssumption
<1> QED BY <1>1, <1>2 DEF Listed

\* What setFile makes of the path p, which is listed, and of those that are not.
LEMMA SetFileDoes ==
  ASSUME ManifestInv, NEW p \in Name, NEW h \in Hash, SetFile(p, h)
  PROVE  /\ map' \in [Name -> Entry \cup {NoFile}] /\ pending' \in [Hash -> Nat]
         /\ deleteTimers' \subseteq deleteTimers
         /\ Listed(map', p) /\ map'[p].hash = h
         /\ RunningFor(p)' # {} => p \in recreated'
         /\ recreated \subseteq recreated' /\ recreated' \subseteq recreated \cup {p}
         /\ \A q \in Name \ {p} :
              \/ map'[q] = map[q] /\ RunningFor(q)' = RunningFor(q)
              \/ ~Listed(map', q) /\ RunningFor(q) # {} /\ RunningFor(q)' \subseteq RunningFor(q)
<1> DEFINE taken == CheckRename(h)
           m == IF taken = {} THEN map ELSE Unlisted(map, (CHOOSE t \in taken : TRUE).path)
<1>1. /\ map' = [m EXCEPT ![p] = [exists |-> TRUE, hash |-> h]]
      /\ deleteTimers' = deleteTimers \ taken
      /\ pending' = [pending EXCEPT ![h] = 0]
      /\ Recreated(p, taken)
  BY DEF SetFile
<1>2. map \in [Name -> Entry \cup {NoFile}] /\ pending' \in [Hash -> Nat]
  BY <1>1 DEF ManifestInv, ManifestTypeOK
<1>3. [exists |-> TRUE, hash |-> h] \in Entry
  BY DEF Entry
<1>4. /\ RunningFor(p)' # {} => p \in recreated'
      /\ recreated \subseteq recreated' /\ recreated' \subseteq recreated \cup {p}
  BY <1>1 DEF Recreated, RunningFor
<1>5. CASE taken = {}
  <2>1. m = map /\ deleteTimers' = deleteTimers
    BY <1>1, <1>5
  <2>2. map' \in [Name -> Entry \cup {NoFile}] /\ map'[p] = [exists |-> TRUE, hash |-> h]
        /\ \A q \in Name \ {p} : map'[q] = map[q]
    BY <1>1, <1>2, <1>3, <2>1
  <2>3. Listed(map', p) /\ map'[p].hash = h
    BY <2>2, ListsNow
  <2> QED BY <1>2, <1>4, <2>1, <2>2, <2>3 DEF RunningFor
<1>6. CASE taken # {}
  <2>1. PICK t \in deleteTimers : taken = {t}
    BY <1>6, RenameFindsOne
  <2>2. m = Unlisted(map, t.path) /\ t.path \in Name /\ deleteTimers' = deleteTimers \ {t}
    BY <1>1, <2>1 DEF ManifestInv, ManifestTypeOK, Timer
  <2>3. /\ m \in [Name -> Entry \cup {NoFile}] /\ ~Listed(m, t.path)
        /\ \A q \in Name \ {t.path} : m[q] = map[q]
    <3>1. CASE map[t.path] = NoFile
      BY <1>2, <2>2, <3>1 DEF Unlisted, Listed
    <3>2. CASE map[t.path] # NoFile
      <4> DEFINE e == map[t.path]
                 new == [e EXCEPT !.exists = FALSE]
      <4>1. e \in Entry
        BY <1>2, <2>2, <3>2
      <4>2. m = [map EXCEPT ![t.path] = new]
        BY <2>2, <3>2 DEF Unlisted
      <4> HIDE DEF e
      <4>3. new \in Entry /\ ~new.exists
        BY <4>1 DEF Entry
      <4> HIDE DEF new
      <4>4. m[t.path] = new
        BY <1>2, <2>2, <4>2
      <4> QED BY <1>2, <2>2, <4>2, <4>3, <4>4 DEF Listed
    <3> QED BY <3>1, <3>2
  <2> HIDE DEF m, taken
  <2>4. map' \in [Name -> Entry \cup {NoFile}] /\ map'[p] = [exists |-> TRUE, hash |-> h]
        /\ \A q \in Name \ {p} : map'[q] = m[q]
    BY <1>1, <1>3, <2>3
  <2>5. Listed(map', p) /\ map'[p].hash = h
    BY <2>4, ListsNow
  <2>6. ASSUME NEW q \in Name \ {p}
        PROVE  \/ map'[q] = map[q] /\ RunningFor(q)' = RunningFor(q)
               \/ ~Listed(map', q) /\ RunningFor(q) # {} /\ RunningFor(q)' \subseteq RunningFor(q)
    <3>1. CASE q = t.path
      <4>1. ~Listed(map', q)
        BY <2>3, <2>4, <2>6, <3>1 DEF Listed
      <4> QED BY <2>2, <3>1, <4>1 DEF RunningFor
    <3>2. CASE q # t.path
      BY <2>2, <2>3, <2>4, <2>6, <3>2 DEF RunningFor
    <3> QED BY <3>1, <3>2
  <2>7. deleteTimers' \subseteq deleteTimers
    BY <2>2
  <2> QED BY <1>2, <1>4, <2>4, <2>5, <2>6, <2>7
<1> QED BY <1>5, <1>6

\* A path that setFile did not name.
LEMMA OtherPath ==
  ASSUME ManifestInv, NEW q \in Name, Unhandled(q) => Unhandled(q)',
         UNCHANGED <<file[q], reports[q], content[q], q \in late, q \in recreated>>,
         \/ map'[q] = map[q] /\ RunningFor(q)' = RunningFor(q)
         \/ ~Listed(map', q) /\ RunningFor(q) # {} /\ RunningFor(q)' \subseteq RunningFor(q)
  PROVE  Accounts(q)'
<1>1. Accounts(q)
  BY DEF ManifestInv
<1>2. LastSays(q)' /\ ListedAsKnown(q)'
  BY <1>1 DEF Accounts, LastSays, ListedAsKnown, Listed
<1>3. FileKnown(q)'
  BY <1>1 DEF Accounts, FileKnown, Listed
<1>4. MissingNoticed(q)'
  BY <1>1 DEF Accounts, MissingNoticed, Listed
<1> QED BY <1>2, <1>3, <1>4 DEF Accounts

\* What the steps of the manifest make of each path gives the invariant again.
LEMMA FiresKeeps ==
  ASSUME ManifestInv, NEW t \in deleteTimers, TimerFires(t)
  PROVE  ManifestInv'
<1>1. /\ deleteTimers' = deleteTimers \ {t}
      /\ pending' = [pending EXCEPT ![t.hash] = 0]
      /\ map' = [map EXCEPT ![t.path] = [exists |-> FALSE, hash |-> t.hash]]
      /\ UNCHANGED <<file, reports, reads, content, steps, deletions, late, recreated>>
  BY DEF TimerFires
<1>2. t.path \in Name /\ t.hash \in Hash /\ map \in [Name -> Entry \cup {NoFile}]
  BY DEF ManifestInv, ManifestTypeOK, Timer
<1>3. [exists |-> FALSE, hash |-> t.hash] \in Entry
  BY <1>2 DEF Entry
<1>4. /\ map' \in [Name -> Entry \cup {NoFile}]
      /\ map'[t.path] = [exists |-> FALSE, hash |-> t.hash]
      /\ \A q \in Name \ {t.path} : map'[q] = map[q]
  BY <1>1, <1>2, <1>3
<1>5. ManifestTypeOK' /\ Numbered'
  BY <1>1, <1>4 DEF ManifestInv, ManifestTypeOK, Numbered
<1>6. ASSUME NEW q \in Name PROVE Accounts(q)'
  <2>1. \/ map'[q] = map[q] /\ RunningFor(q)' = RunningFor(q)
        \/ ~Listed(map', q) /\ RunningFor(q) # {} /\ RunningFor(q)' \subseteq RunningFor(q)
    <3>1. CASE q = t.path
      <4>1. ~map'[q].exists
        BY <1>4, <3>1
      <4> QED BY <1>1, <3>1, <4>1 DEF RunningFor, Listed
    <3>2. CASE q # t.path
      BY <1>1, <1>4, <3>2 DEF RunningFor
    <3> QED BY <3>1, <3>2
  <2>2. Unhandled(q) => Unhandled(q)'
    BY <1>1 DEF Unhandled
  <2> QED BY <1>1, <2>1, <2>2, OtherPath
<1> QED BY <1>5, <1>6 DEF ManifestInv

\* A report that asks for the file to be read.
LEMMA ReadKeeps ==
  ASSUME ManifestInv, NEW p \in Name, Emit(p), Head(reports[p]) # "unlink"
  PROVE  ManifestInv'
<1> DEFINE read == [path |-> p, hash |-> file[p], kind |-> Head(reports[p])]
<1>1. /\ reports[p] # <<>> /\ reports' = [reports EXCEPT ![p] = Tail(@)]
      /\ reads' = IF file[p] = NoFile THEN reads ELSE reads \cup {read}
      /\ UNCHANGED <<file, content, map, pending, deleteTimers, deletions, late, recreated>>
  BY DEF Emit
<1>2. reports \in [Name -> Seq(Kind)] /\ file \in [Name -> Hash \cup {NoFile}]
  BY DEF ManifestInv, ManifestTypeOK
<1>3. /\ Head(reports[p]) \in Kind /\ Tail(reports[p]) \in Seq(Kind)
      /\ Tail(reports[p]) = <<>> => Head(reports[p]) = LastOf(reports[p])
      /\ Tail(reports[p]) # <<>> => LastOf(Tail(reports[p])) = LastOf(reports[p])
  BY <1>1, <1>2, Shortened
<1>4. /\ reports' \in [Name -> Seq(Kind)] /\ reports'[p] = Tail(reports[p])
      /\ \A q \in Name \ {p} : reports'[q] = reports[q]
  BY <1>1, <1>2, <1>3
<1>5. reads' \subseteq [path : Name, hash : Hash, kind : Kind]
  BY <1>1, <1>2, <1>3 DEF ManifestInv, ManifestTypeOK
<1>6. ManifestTypeOK' /\ Numbered'
  BY <1>1, <1>4, <1>5 DEF ManifestInv, ManifestTypeOK, Numbered
<1>7. ASSUME NEW q \in Name \ {p} PROVE Accounts(q)'
  <2>1. reads \subseteq reads'
    BY <1>1
  <2>2. Unhandled(q) => Unhandled(q)'
    BY <1>1, <1>4, <2>1 DEF Unhandled
  <2>3. map'[q] = map[q] /\ RunningFor(q)' = RunningFor(q)
    BY <1>1 DEF RunningFor
  <2> QED BY <1>1, <1>4, <2>2, <2>3, OtherPath
<1>8. Accounts(p)'
  <2>1. Accounts(p)
    BY DEF ManifestInv
  <2>2. Unhandled(p)'
    <3>1. CASE Tail(reports[p]) = <<>>
      <4>1. file[p] # NoFile
        BY <1>1, <1>3, <2>1, <3>1 DEF Accounts, LastSays
      <4>2. read \in reads' /\ read.path = p /\ read.hash = file'[p]
        BY <1>1, <4>1
      <4> QED BY <4>2 DEF Unhandled
    <3>2. CASE Tail(reports[p]) # <<>>
      BY <1>4, <3>2 DEF Unhandled
    <3> QED BY <3>1, <3>2
  <2>3. LastSays(p)'
    BY <1>1, <1>3, <1>4, <2>1 DEF Accounts, LastSays
  <2>4. MissingNoticed(p)'
    BY <1>1, <1>3, <1>4, <2>1 DEF Accounts, LastSays, MissingNoticed
  <2> QED BY <1>1, <2>1, <2>2, <2>3, <2>4 DEF Accounts, ListedAsKnown, FileKnown
<1> QED BY <1>6, <1>7, <1>8 DEF ManifestInv

\* A report that the file is gone.
LEMMA UnlinkKeeps ==
  ASSUME ManifestInv, NEW p \in Name, Emit(p), Head(reports[p]) = "unlink"
  PROVE  ManifestInv'
<1> DEFINE timer == [path |-> p, hash |-> map[p].hash, number |-> deletions + 1]
<1>1. /\ reports[p] # <<>> /\ reports' = [reports EXCEPT ![p] = Tail(@)]
      /\ DeleteFile(p) /\ late' = late \ {p}
      /\ UNCHANGED <<file, content, map, reads, recreated>>
  BY DEF Emit
<1>2. reports \in [Name -> Seq(Kind)] /\ map \in [Name -> Entry \cup {NoFile}] /\ deletions \in Nat
  BY DEF ManifestInv, ManifestTypeOK
<1>3. /\ Head(reports[p]) \in Kind /\ Tail(reports[p]) \in Seq(Kind)
      /\ Tail(reports[p]) = <<>> => Head(reports[p]) = LastOf(reports[p])
      /\ Tail(reports[p]) # <<>> => LastOf(Tail(reports[p])) = LastOf(reports[p])
  BY <1>1, <1>2, Shortened
<1>4. /\ reports' \in [Name -> Seq(Kind)] /\ reports'[p] = Tail(reports[p])
      /\ \A q \in Name \ {p} : reports'[q] = reports[q]
  BY <1>1, <1>2, <1>3
<1>5. /\ deletions' \in Nat /\ pending' \in [Hash -> Nat] /\ deleteTimers' \subseteq Timer
      /\ Numbered'
      /\ \A q \in Name \ {p} : RunningFor(q)' = RunningFor(q)
      /\ Listed(map, p) => RunningFor(p)' # {}
  <2>1. CASE map[p] = NoFile
    BY <1>1, <2>1 DEF DeleteFile, ManifestInv, ManifestTypeOK, Numbered, RunningFor, Listed
  <2>2. CASE map[p] # NoFile
    <3>1. /\ deletions' = deletions + 1 /\ deleteTimers' = deleteTimers \cup {timer}
          /\ pending' = [pending EXCEPT ![map[p].hash] = deletions + 1]
      BY <1>1, <2>2 DEF DeleteFile
    <3>2. map[p].hash \in Hash
      BY <1>2, <2>2 DEF Entry
    <3>3. timer \in Timer /\ timer.path = p /\ timer.number = deletions + 1
      BY <1>2, <3>2 DEF Timer
    <3> HIDE DEF timer
    <3>4. Numbered'
      BY <1>2, <3>1, <3>3 DEF Numbered, ManifestInv
    <3> QED BY <1>2, <3>1, <3>2, <3>3, <3>4 DEF ManifestInv, ManifestTypeOK, RunningFor
  <2> QED BY <2>1, <2>2
<1>6. ManifestTypeOK'
  BY <1>1, <1>4, <1>5 DEF ManifestInv, ManifestTypeOK
<1>7. ASSUME NEW q \in Name \ {p} PROVE Accounts(q)'
  <2>1. Unhandled(q) => Unhandled(q)'
    BY <1>1, <1>4 DEF Unhandled
  <2> QED BY <1>1, <1>4, <1>5, <2>1, OtherPath
<1>8. Accounts(p)'
  <2>1. Accounts(p)
    BY DEF ManifestInv
  <2>2. CASE Tail(reports[p]) = <<>>
    <3>1. file[p] = NoFile
      BY <1>1, <1>3, <2>1, <2>2 DEF Accounts, LastSays
    <3> QED BY <1>1, <1>4, <1>5, <2>1, <2>2, <3>1
              DEF Accounts, LastSays, ListedAsKnown, FileKnown, MissingNoticed, Listed
  <2>3. CASE Tail(reports[p]) # <<>>
    BY <1>1, <1>3, <1>4, <2>1, <2>3
       DEF Accounts, LastSays, ListedAsKnown, FileKnown, MissingNoticed, Unhandled, Listed
  <2> QED BY <2>2, <2>3
<1> QED BY <1>5, <1>6, <1>7, <1>8 DEF ManifestInv

\* A content is handled that was read before.
LEMMA HandleKeeps ==
  ASSUME ManifestInv, NEW r \in reads, HandleReport(r)
  PROVE  ManifestInv'
<1> DEFINE p == r.path
<1>1. /\ reads' = reads \ {r} /\ content' = [content EXCEPT ![p] = r.hash]
      /\ UNCHANGED <<file, reports, deletions>>
  BY DEF HandleReport
<1>2. /\ p \in Name /\ r.hash \in Hash /\ content \in [Name -> Hash \cup {NoFile}]
      /\ file \in [Name -> Hash \cup {NoFile}]
  BY DEF ManifestInv, ManifestTypeOK
<1>3. Accounts(p)
  BY <1>2 DEF ManifestInv
<1> HIDE DEF p
<1>4. /\ content' \in [Name -> Hash \cup {NoFile}] /\ content'[p] = r.hash
      /\ \A q \in Name \ {p} : content'[q] = content[q]
  BY <1>1, <1>2
<1>5. /\ \A q \in Name \ {p} : Unhandled(q) => Unhandled(q)'
      /\ file[p] # r.hash => (Unhandled(p) => Unhandled(p)')
  BY <1>1 DEF Unhandled, p
<1>6. CASE r.kind = "change" /\ content[p] = r.hash
  <2>1. /\ recreated' = IF Listed(map, p) /\ RunningFor(p) = {} THEN recreated ELSE recreated \cup {p}
        /\ UNCHANGED <<map, deleteTimers, pending, late>>
    BY <1>6 DEF HandleReport, p
  <2>2. ManifestTypeOK' /\ Numbered'
    BY <1>1, <1>4, <2>1 DEF ManifestInv, ManifestTypeOK, Numbered
  <2>3. ASSUME NEW q \in Name \ {p} PROVE Accounts(q)'
    <3>1. map'[q] = map[q] /\ RunningFor(q)' = RunningFor(q)
      BY <2>1 DEF RunningFor
    <3>2. q \in recreated <=> q \in recreated'
      BY <2>1
    <3> QED BY <1>1, <1>4, <1>5, <2>1, <3>1, <3>2, OtherPath
  <2>4. Accounts(p)'
    <3>1. LastSays(p)' /\ ListedAsKnown(p)' /\ MissingNoticed(p)'
      BY <1>1, <1>3, <1>4, <1>6, <2>1
         DEF Accounts, LastSays, ListedAsKnown, MissingNoticed, Listed, RunningFor
    <3>2. FileKnown(p)'
      <4>1. CASE file[p] = r.hash
        BY <1>1, <1>4, <2>1, <4>1 DEF FileKnown, Listed, RunningFor
      <4>2. CASE file[p] # r.hash
        BY <1>1, <1>3, <1>4, <1>5, <1>6, <2>1, <4>2 DEF Accounts, FileKnown
      <4> QED BY <4>1, <4>2
    <3> QED BY <3>1, <3>2 DEF Accounts
  <2> QED BY <1>2, <2>2, <2>3, <2>4 DEF ManifestInv
<1>7. CASE ~(r.kind = "change" /\ content[p] = r.hash)
  <2>1. SetFile(p, r.hash) /\ late' = IF file[p] = r.hash THEN late ELSE late \cup {p}
    BY <1>7 DEF HandleReport, p
  <2>2. /\ map' \in [Name -> Entry \cup {NoFile}] /\ pending' \in [Hash -> Nat]
        /\ deleteTimers' \subseteq deleteTimers
        /\ Listed(map', p) /\ map'[p].hash = r.hash
        /\ RunningFor(p)' # {} => p \in recreated'
        /\ recreated \subseteq recreated' /\ recreated' \subseteq recreated \cup {p}
        /\ \A q \in Name \ {p} :
             \/ map'[q] = map[q] /\ RunningFor(q)' = RunningFor(q)
             \/ ~Listed(map', q) /\ RunningFor(q) # {} /\ RunningFor(q)' \subseteq RunningFor(q)
    BY <1>2, <2>1, SetFileDoes
  <2>3. ManifestTypeOK' /\ Numbered'
    BY <1>1, <1>4, <2>2 DEF ManifestInv, ManifestTypeOK, Numbered
  <2>4. ASSUME NEW q \in Name \ {p} PROVE Accounts(q)'
    <3>1. UNCHANGED <<file[q], reports[q], content[q], q \in late, q \in recreated>>
      BY <1>1, <1>4, <2>1, <2>2
    <3> QED BY <1>5, <2>2, <3>1, OtherPath
  <2>5. Accounts(p)'
    <3>1. LastSays(p)' /\ ListedAsKnown(p)'
      BY <1>1, <1>3, <1>4, <2>2 DEF Accounts, LastSays, ListedAsKnown
    <3>2. FileKnown(p)' /\ MissingNoticed(p)'
      BY <1>1, <1>2, <1>4, <2>1, <2>2, ManifestAssumption DEF FileKnown, MissingNoticed
    <3> QED BY <3>1, <3>2 DEF Accounts
  <2> QED BY <1>2, <2>3, <2>4, <2>5 DEF ManifestInv
<1> QED BY <1>6, <1>7

\* A peer's edit reaches the file.
LEMMA RemoteKeeps ==
  ASSUME ManifestInv, NEW p \in Name, NEW h \in Hash, WriteRemote(p, h)
  PROVE  ManifestInv'
<1>1. /\ reports[p] = <<>> /\ SetFile(p, h)
      /\ file' = [file EXCEPT ![p] = h] /\ content' = [content EXCEPT ![p] = h]
      /\ UNCHANGED <<reports, reads, deletions, late>>
  BY DEF WriteRemote
<1>2. /\ map' \in [Name -> Entry \cup {NoFile}] /\ pending' \in [Hash -> Nat]
      /\ deleteTimers' \subseteq deleteTimers
      /\ Listed(map', p) /\ map'[p].hash = h
      /\ RunningFor(p)' # {} => p \in recreated'
      /\ recreated \subseteq recreated' /\ recreated' \subseteq recreated \cup {p}
      /\ \A q \in Name \ {p} :
           \/ map'[q] = map[q] /\ RunningFor(q)' = RunningFor(q)
           \/ ~Listed(map', q) /\ RunningFor(q) # {} /\ RunningFor(q)' \subseteq RunningFor(q)
  BY <1>1, SetFileDoes
<1>3. file \in [Name -> Hash \cup {NoFile}] /\ content \in [Name -> Hash \cup {NoFile}]
  BY DEF ManifestInv, ManifestTypeOK
<1>4. /\ file' \in [Name -> Hash \cup {NoFile}] /\ content' \in [Name -> Hash \cup {NoFile}]
      /\ file'[p] = h /\ content'[p] = h
      /\ \A q \in Name \ {p} : file'[q] = file[q] /\ content'[q] = content[q]
  BY <1>1, <1>3
<1>5. ManifestTypeOK' /\ Numbered'
  BY <1>1, <1>2, <1>4 DEF ManifestInv, ManifestTypeOK, Numbered
<1>6. ASSUME NEW q \in Name \ {p} PROVE Accounts(q)'
  <2>1. UNCHANGED <<file[q], reports[q], content[q], q \in late, q \in recreated>>
    BY <1>1, <1>2, <1>4
  <2>2. Unhandled(q) => Unhandled(q)'
    BY <1>1, <1>4 DEF Unhandled
  <2> QED BY <1>2, <2>1, <2>2, OtherPath
<1>7. Accounts(p)'
  BY <1>1, <1>2, <1>4, ManifestAssumption DEF Accounts, LastSays, ListedAsKnown, FileKnown, MissingNoticed
<1> QED BY <1>5, <1>6, <1>7 DEF ManifestInv

\* The manifest lists the files there are (manifest.ts).
THEOREM ManifestIsExact == ManifestSpec => []ManifestExact
<1>1. ASSUME ManifestInv, [ManifestNext]_manifestVars PROVE ManifestInv'
  <2>1. CASE UNCHANGED manifestVars
    BY <1>1, <2>1 DEF manifestVars, ManifestInv, ManifestTypeOK, Numbered, Accounts, LastSays,
                      ListedAsKnown, FileKnown, MissingNoticed, Unhandled, Listed, RunningFor
  <2>2. ASSUME NEW p \in Name, NEW h \in Hash, Write(p, h) \/ WriteRemote(p, h) PROVE ManifestInv'
    <3>1. CASE Write(p, h)
      <4>1. [file EXCEPT ![p] = h] \in [Name -> Hash \cup {NoFile}]
        BY <1>1 DEF ManifestInv, ManifestTypeOK
      <4> QED BY <1>1, <3>1, <4>1, WorkKeeps DEF Write
    <3>2. CASE WriteRemote(p, h)
      BY <1>1, <3>2, RemoteKeeps
    <3> QED BY <2>2, <3>1, <3>2
  <2>3. ASSUME NEW p \in Name, Unlink(p) \/ Emit(p) PROVE ManifestInv'
    <3>1. CASE Unlink(p)
      <4>1. [file EXCEPT ![p] = NoFile] \in [Name -> Hash \cup {NoFile}]
        BY <1>1 DEF ManifestInv, ManifestTypeOK
      <4> QED BY <1>1, <3>1, <4>1, WorkKeeps DEF Unlink
    <3>2. CASE Emit(p)
      BY <1>1, <3>2, ReadKeeps, UnlinkKeeps
    <3> QED BY <2>3, <3>1, <3>2
  <2>4. ASSUME NEW p \in Name, NEW q \in Name, Move(p, q) PROVE ManifestInv'
    <3>1. [file EXCEPT ![p] = NoFile, ![q] = file[p]] \in [Name -> Hash \cup {NoFile}]
      BY <1>1 DEF ManifestInv, ManifestTypeOK
    <3> QED BY <1>1, <2>4, <3>1, WorkKeeps DEF Move
  <2>5. ASSUME NEW r \in reads, HandleReport(r) PROVE ManifestInv'
    BY <1>1, <2>5, HandleKeeps
  <2>6. ASSUME NEW t \in deleteTimers, TimerFires(t) PROVE ManifestInv'
    BY <1>1, <2>6, FiresKeeps
  <2> QED BY <1>1, <2>1, <2>2, <2>3, <2>4, <2>5, <2>6 DEF ManifestNext
<1>2. ManifestInv => ManifestExact
  <2> SUFFICES ASSUME ManifestInv, reads = {}, deleteTimers = {}, \A p \in Name : reports[p] = <<>>,
                      NEW p \in Name
               PROVE  /\ Listed(map, p) /\ p \notin late => file[p] # NoFile /\ map[p].hash = file[p]
                      /\ file[p] # NoFile /\ p \notin late \cup recreated => Listed(map, p)
    BY DEF ManifestExact
  <2>1. Accounts(p) /\ RunningFor(p) = {} /\ ~Unhandled(p)
    BY DEF ManifestInv, RunningFor, Unhandled
  <2> QED BY <2>1 DEF Accounts, ListedAsKnown, FileKnown, MissingNoticed
<1> QED BY <1>1, <1>2, ManifestBegins, PTL DEF ManifestSpec

----------------------------------------------------------------------------
(* The sequences that commands are made of *)

\* FlattenSeq is a function over the prefixes of what it flattens.
Joins(f, seqs, n) ==
  f = [i \in 1..n |-> IF i = 1 THEN seqs[i] ELSE f[i - 1] \o seqs[i]]

LEMMA JoinExists ==
  ASSUME NEW seqs, NEW n \in Nat \ {0}
  PROVE  \E f : Joins(f, seqs, n)
<1> DEFINE Bad == {m \in Nat \ {0} : ~\E f : Joins(f, seqs, m)}
<1> SUFFICES ASSUME Bad # {} PROVE FALSE
  OBVIOUS
<1>1. PICK m \in Bad : \A k \in Bad : m <= k
  <2> HIDE DEF Bad
  <2>1. Bad \subseteq Nat
    BY DEF Bad
  <2> QED BY <2>1, Least
<1>2. CASE m = 1
  <2>1. Joins([i \in 1..1 |-> seqs[i]], seqs, 1)
    BY DEF Joins
  <2> QED BY <1>1, <1>2, <2>1
<1>3. CASE m > 1
  <2>1. m - 1 \in Nat \ {0} /\ m - 1 \notin Bad
    BY <1>1, <1>3
  <2>2. PICK f : Joins(f, seqs, m - 1)
    BY <2>1
  <2> DEFINE g == [i \in 1..m |-> IF i = m THEN f[m - 1] \o seqs[m] ELSE f[i]]
  <2>3. \A i \in 1..m : g[i] = IF i = 1 THEN seqs[i] ELSE g[i - 1] \o seqs[i]
    <3> SUFFICES ASSUME NEW i \in 1..m PROVE g[i] = IF i = 1 THEN seqs[i] ELSE g[i - 1] \o seqs[i]
      OBVIOUS
    <3>1. CASE i = m
      <4>1. m - 1 \in 1..m /\ m - 1 # m /\ m \in 1..m /\ i # 1
        BY <1>3, <3>1
      <4>2. g[m] = f[m - 1] \o seqs[m] /\ g[m - 1] = f[m - 1]
        <5> HIDE DEF Bad
        <5> QED BY <4>1
      <4> HIDE DEF g
      <4> QED BY <3>1, <4>1, <4>2
    <3>2. CASE i # m
      <4>1. i \in 1..(m - 1) /\ (i # 1 => i - 1 \in 1..(m - 1) /\ i - 1 # m)
        BY <3>2
      <4>2. f[i] = IF i = 1 THEN seqs[i] ELSE f[i - 1] \o seqs[i]
        BY <2>2, <4>1 DEF Joins
      <4> QED BY <3>2, <4>1, <4>2
    <3> QED BY <3>1, <3>2
  <2>4. Joins(g, seqs, m)
    <3>1. g = [i \in 1..m |-> g[i]]
      OBVIOUS
    <3> HIDE DEF g
    <3> QED BY <2>3, <3>1 DEF Joins
  <2> QED BY <1>1, <2>4
<1> QED BY <1>1, <1>2, <1>3

LEMMA ConcatAt ==
  ASSUME NEW S, NEW s \in Seq(S), NEW t \in Seq(S)
  PROVE  /\ s \o t \in Seq(S) /\ Len(s \o t) = Len(s) + Len(t)
         /\ \A j \in 1..Len(s) : (s \o t)[j] = s[j]
         /\ \A k \in 1..Len(t) : (s \o t)[Len(s) + k] = t[k]
OBVIOUS

\* The k-th sequence stands in the whole from place b[k - 1] + 1 to b[k].
Laid(b, whole, seqs) ==
  /\ Len(seqs) \in Nat /\ b \in [0..Len(seqs) -> Nat] /\ b[0] = 0 /\ b[Len(seqs)] = Len(whole)
  /\ \A k \in 1..Len(seqs) :
       /\ Len(seqs[k]) \in Nat /\ b[k] = b[k - 1] + Len(seqs[k]) /\ b[k] <= Len(whole)
       /\ \A q \in 1..Len(seqs[k]) : whole[b[k - 1] + q] = seqs[k][q]

LEMMA FlattenLaid ==
  ASSUME NEW S, NEW seqs \in Seq(Seq(S))
  PROVE  FlattenSeq(seqs) \in Seq(S) /\ \E b : Laid(b, FlattenSeq(seqs), seqs)
<1>1. CASE Len(seqs) = 0
  <2>1. FlattenSeq(seqs) = << >> /\ seqs = << >>
    BY <1>1 DEF FlattenSeq
  <2>2. Laid([k \in 0..0 |-> 0], << >>, << >>)
    BY DEF Laid
  <2> QED BY <2>1, <2>2
<1>2. CASE Len(seqs) # 0
  <2> DEFINE n == Len(seqs)
             f == CHOOSE g : Joins(g, seqs, n)
  <2>1. n \in Nat \ {0} /\ \A k \in 1..n : seqs[k] \in Seq(S)
    BY <1>2
  <2>2. Joins(f, seqs, n)
    BY <2>1, JoinExists
  <2>3. FlattenSeq(seqs) = f[n]
    BY <1>2 DEF FlattenSeq, Joins
  <2> HIDE DEF f, n
  <2>4. \A k \in 1..n : f[k] = IF k = 1 THEN seqs[k] ELSE f[k - 1] \o seqs[k]
    BY <2>2 DEF Joins
  <2>5. \A k \in 1..n : f[k] \in Seq(S)
    <3> DEFINE P == {k \in 0..n : k # 0 => f[k] \in Seq(S)}
    <3>1. 0 \in P
      BY <2>1
    <3>2. \A k \in 1..n : k - 1 \in P => k \in P
      <4> SUFFICES ASSUME NEW k \in 1..n, k - 1 \in P PROVE f[k] \in Seq(S)
        OBVIOUS
      <4>1. CASE k = 1
        BY <2>1, <2>4, <4>1
      <4>2. CASE k # 1
        <5>1. f[k - 1] \in Seq(S) /\ seqs[k] \in Seq(S) /\ f[k] = f[k - 1] \o seqs[k]
          <6>1. f[k] = f[k - 1] \o seqs[k]
            BY <2>4, <4>2
          <6>2. k - 1 # 0
            BY <2>1, <4>2
          <6> QED BY <2>1, <6>1, <6>2
        <5> QED BY <5>1, ConcatAt
      <4> QED BY <4>1, <4>2
    <3> HIDE DEF P
    <3>3. \A k \in 0..n : k \in P
      BY <2>1, <3>1, <3>2, CountUp
    <3>4. \A k \in 1..n : k \in 0..n /\ k # 0
      BY <2>1
    <3> QED BY <3>3, <3>4 DEF P
  <2> DEFINE b == [i \in 0..n |-> IF i = 0 THEN 0 ELSE Len(f[i])]
  <2>6. b[0] = 0 /\ \A k \in 1..n : b[k] = Len(f[k]) /\ b[k] \in Nat
    BY <2>1, <2>5
  <2>7. b \in [0..n -> Nat]
    BY <2>1, <2>5
  <2> HIDE DEF b
  <2>8. ASSUME NEW k \in 1..n
        PROVE  /\ b[k] = b[k - 1] + Len(seqs[k]) /\ b[k - 1] \in Nat
               /\ \A q \in 1..Len(seqs[k]) : f[k][b[k - 1] + q] = seqs[k][q]
               /\ k # 1 => \A j \in 1..b[k - 1] : f[k][j] = f[k - 1][j]
    <3>1. CASE k = 1
      BY <2>1, <2>4, <2>6, <3>1
    <3>2. CASE k # 1
      <4>1. k - 1 \in 1..n
        BY <2>1, <3>2
      <4>2. f[k - 1] \in Seq(S) /\ seqs[k] \in Seq(S) /\ f[k] = f[k - 1] \o seqs[k]
        BY <2>1, <2>4, <2>5, <3>2, <4>1
      <4>3. b[k - 1] = Len(f[k - 1]) /\ b[k] = Len(f[k]) /\ b[k - 1] \in Nat
        BY <2>6, <4>1
      <4>4. /\ Len(f[k]) = Len(f[k - 1]) + Len(seqs[k])
            /\ \A j \in 1..Len(f[k - 1]) : f[k][j] = f[k - 1][j]
            /\ \A q \in 1..Len(seqs[k]) : f[k][Len(f[k - 1]) + q] = seqs[k][q]
        <5> DEFINE u == f[k - 1]
                   v == seqs[k]
        <5>1. u \in Seq(S) /\ v \in Seq(S) /\ f[k] = u \o v
          BY <4>2
        <5> HIDE DEF u, v
        <5>2. /\ Len(f[k]) = Len(u) + Len(v)
              /\ \A j \in 1..Len(u) : f[k][j] = u[j]
              /\ \A q \in 1..Len(v) : f[k][Len(u) + q] = v[q]
          BY <5>1, ConcatAt
        <5> QED BY <5>2 DEF u, v
      <4> QED BY <4>3, <4>4
    <3> QED BY <3>1, <3>2
  <2>9. ASSUME NEW k \in 1..n
        PROVE  \A m \in k..n : b[k] <= b[m] /\ \A j \in 1..b[k] : f[m][j] = f[k][j]
    <3> DEFINE P == {i \in 0..n : k <= i => b[k] <= b[i] /\ \A j \in 1..b[k] : f[i][j] = f[k][j]}
    <3>1. 0 \in P
      BY <2>1
    <3>2. ASSUME NEW m \in 1..n, m - 1 \in P PROVE m \in P
      <4>1. CASE m < k
        BY <2>1, <4>1
      <4>2. CASE m = k
        BY <2>6, <4>2
      <4>3. CASE m > k
        <5>1. m # 1 /\ m - 1 \in 1..n /\ k <= m - 1
          BY <2>1, <4>3
        <5>2. b[k] <= b[m - 1] /\ \A j \in 1..b[k] : f[m - 1][j] = f[k][j]
          BY <3>2, <5>1
        <5> HIDE DEF P
        <5>3. b[m] = b[m - 1] + Len(seqs[m]) /\ Len(seqs[m]) \in Nat /\ b[k] \in Nat /\ b[m - 1] \in Nat
          BY <2>1, <2>6, <2>8, <5>1
        <5>4. \A j \in 1..b[m - 1] : f[m][j] = f[m - 1][j]
          BY <2>8, <5>1
        <5>5. \A j \in 1..b[k] : f[m][j] = f[k][j]
          BY <5>2, <5>3, <5>4
        <5>6. m \in 0..n /\ b[k] <= b[m]
          BY <2>1, <5>2, <5>3
        <5> QED BY <5>5, <5>6 DEF P
      <4> QED BY <4>1, <4>2, <4>3
    <3>3. \A m \in 0..n : m \in P
      <4> HIDE DEF P
      <4> QED BY <2>1, <3>1, <3>2, CountUp
    <3>4. \A m \in k..n : m \in 0..n /\ k <= m
      BY <2>1
    <3> QED BY <3>3, <3>4
  <2>10. ASSUME NEW k \in 1..n, NEW q \in 1..Len(seqs[k])
         PROVE  f[n][b[k - 1] + q] = seqs[k][q]
    <3>1. /\ b[k] = b[k - 1] + Len(seqs[k]) /\ b[k - 1] \in Nat
          /\ f[k][b[k - 1] + q] = seqs[k][q]
      BY <2>8
    <3>2. b[k - 1] + q \in 1..b[k]
      BY <2>1, <3>1
    <3>3. n \in k..n
      BY <2>1
    <3> QED BY <2>9, <3>1, <3>2, <3>3
  <2>11. n \in 1..n
    BY <2>1
  <2>12. b[n] = Len(f[n]) /\ f[n] \in Seq(S)
    BY <2>5, <2>6, <2>11
  <2>13. \A k \in 1..n : n \in k..n /\ b[k] <= b[n]
    BY <2>1, <2>9
  <2>14. Laid(b, f[n], seqs)
    BY <2>6, <2>7, <2>8, <2>10, <2>12, <2>13 DEF Laid, n
  <2> QED BY <2>3, <2>12, <2>14
<1> QED BY <1>1, <1>2

\* Every place of the whole is one in one of the sequences.
PlacedIn(j, b, seqs) == \E k \in 1..Len(seqs) : \E q \in 1..Len(seqs[k]) : j = b[k - 1] + q

LEMMA PlaceIn ==
  ASSUME NEW seqs, NEW whole, NEW b, Laid(b, whole, seqs), NEW j \in 1..Len(whole)
  PROVE  PlacedIn(j, b, seqs)
<1> DEFINE n == Len(seqs)
           T == {m \in 0..n : j <= b[m]}
<1>1. n \in Nat /\ b \in [0..n -> Nat] /\ b[0] = 0 /\ b[n] = Len(whole)
  BY DEF Laid
<1>2. n \in T /\ T \subseteq Nat
  BY <1>1
<1>3. PICK k \in T : \A m \in T : k <= m
  <2> HIDE DEF T
  <2> QED BY <1>2, Least
<1>4. j \in Nat /\ j > 0 /\ k # 0
  BY <1>1
<1>5. k \in 1..n /\ k - 1 \in 0..n /\ k - 1 \notin T
  BY <1>1, <1>3, <1>4
<1>6. b[k] = b[k - 1] + Len(seqs[k]) /\ Len(seqs[k]) \in Nat
  BY <1>5 DEF Laid
<1>7. b[k - 1] < j /\ j <= b[k] /\ b[k - 1] \in Nat
  <2>1. b[k - 1] \in Nat /\ ~(j <= b[k - 1])
    BY <1>1, <1>5
  <2> QED BY <1>4, <2>1
<1>8. j - b[k - 1] \in 1..Len(seqs[k]) /\ j = b[k - 1] + (j - b[k - 1])
  <2> DEFINE x == b[k - 1]
             y == b[k]
             z == Len(seqs[k])
  <2>1. x \in Nat /\ z \in Nat /\ y = x + z /\ x < j /\ j <= y /\ j \in Nat
    BY <1>4, <1>6, <1>7
  <2> HIDE DEF x, y, z
  <2>2. j - x \in 1..z /\ j = x + (j - x)
    BY <2>1
  <2> QED BY <2>2 DEF x, z
<1> QED BY <1>5, <1>8 DEF PlacedIn
----------------------------------------------------------------------------
(* Values between quotes *)

\* What is computed from the end of a text: from the place that comes next.
Descends(n, A, stop, base, next, step) ==
  /\ n \in Nat /\ stop \in SUBSET (1..(n + 1)) /\ base \in [1..(n + 1) -> A]
  /\ next \in [1..(n + 1) -> Nat] /\ step \in [1..(n + 1) -> [A -> A]]
  /\ \A i \in (1..(n + 1)) \ stop : next[i] \in (i + 1)..(n + 1)

LEMMA DownExists ==
  ASSUME NEW n, NEW A, NEW stop, NEW base, NEW next, NEW step,
         Descends(n, A, stop, base, next, step)
  PROVE  \E f \in [1..(n + 1) -> A] : \A i \in 1..(n + 1) :
           f[i] = IF i \in stop THEN base[i] ELSE step[i][f[next[i]]]
<1> USE DEF Descends
<1> DEFINE val(f, i) == IF i \in stop THEN base[i] ELSE step[i][f[next[i]]]
           Good(f, j) == f \in [j..(n + 1) -> A] /\ \A i \in j..(n + 1) : f[i] = val(f, i)
           P == {j \in 0..n : \E f : Good(f, n + 1 - j)}
<1>1. 0 \in P
  <2>1. n + 1 \in stop /\ n + 1 \in 1..(n + 1)
    OBVIOUS
  <2> DEFINE f == [i \in (n + 1)..(n + 1) |-> base[i]]
  <2>2. Good(f, n + 1)
    BY <2>1
  <2>3. n + 1 - 0 = n + 1 /\ 0 \in 0..n
    OBVIOUS
  <2> HIDE DEF Good, f
  <2> QED BY <2>2, <2>3
<1>2. ASSUME NEW j \in 1..n, j - 1 \in P PROVE j \in P
  <2> DEFINE m == n + 1 - j
  <2>1. m \in 1..n /\ n + 1 - (j - 1) = m + 1 /\ j \in 0..n
    OBVIOUS
  <2>2. PICK f : Good(f, m + 1)
    <3> HIDE DEF Good
    <3> QED BY <1>2, <2>1
  <2> HIDE DEF m
  <2> DEFINE g == [i \in m..(n + 1) |-> IF i = m THEN val(f, m) ELSE f[i]]
  <2>3. val(f, m) \in A
    <3>1. m \in 1..(n + 1)
      BY <2>1
    <3>2. CASE m \in stop
      BY <3>1, <3>2
    <3>3. CASE m \notin stop
      <4>1. next[m] \in (m + 1)..(n + 1) /\ step[m] \in [A -> A]
        BY <3>1, <3>3
      <4>2. f[next[m]] \in A
        BY <2>2, <4>1
      <4> QED BY <3>3, <4>1, <4>2
    <3> QED BY <3>2, <3>3
  <2> HIDE DEF val
  <2>4. g \in [m..(n + 1) -> A]
    BY <2>1, <2>2, <2>3
  <2>5. g[m] = val(f, m) /\ \A i \in (m + 1)..(n + 1) : g[i] = f[i]
    BY <2>1
  <2> HIDE DEF g
  <2>6. ASSUME NEW i \in m..(n + 1) PROVE g[i] = val(g, i)
    <3>1. i \in 1..(n + 1)
      BY <2>1
    <3>2. i \in stop => val(g, i) = val(f, i)
      BY DEF val
    <3>3. ASSUME i \notin stop PROVE val(g, i) = val(f, i)
      <4>1. next[i] \in (i + 1)..(n + 1)
        BY <3>1, <3>3
      <4>2. next[i] \in (m + 1)..(n + 1)
        BY <2>1, <4>1
      <4> QED BY <2>5, <4>2 DEF val
    <3>4. g[i] = val(f, i)
      <4>1. CASE i = m
        BY <2>5, <4>1
      <4>2. CASE i # m
        <5>1. i \in (m + 1)..(n + 1)
          BY <2>1, <4>2
        <5> QED BY <2>2, <2>5, <5>1
      <4> QED BY <4>1, <4>2
    <3> QED BY <3>2, <3>3, <3>4
  <2>7. Good(g, m)
    BY <2>4, <2>6
  <2> HIDE DEF Good
  <2> QED BY <2>1, <2>7 DEF m
<1>3. n \in P
  <2> HIDE DEF P, Descends
  <2>1. n \in Nat
    BY DEF Descends
  <2>2. \A j \in 1..n : j - 1 \in P => j \in P
    BY <1>2
  <2>3. \A j \in 0..n : j \in P
    BY <1>1, <2>1, <2>2, CountUp
  <2> QED BY <2>1, <2>3
<1>4. PICK f : Good(f, n + 1 - n)
  <2> HIDE DEF Good
  <2> QED BY <1>3
<1>5. n + 1 - n = 1
  OBVIOUS
<1> QED BY <1>4, <1>5

\* UpToQuote and Unprefixed are functions over the places of a text.
Ending(f, s) ==
  f = [n \in 1..(Len(s) + 1) |->
        IF n > Len(s) THEN n
        ELSE IF s[n] = Quote THEN n
        ELSE f[IF s[n] = Backslash /\ n < Len(s) THEN n + 2 ELSE n + 1]]
Leaving(f, s, ch) ==
  f = [n \in 1..(Len(s) + 1) |->
        IF n > Len(s) THEN <<>>
        ELSE IF n < Len(s) /\ SubSeq(s, n, n + 1) = <<Backslash, ch>> THEN <<ch>> \o f[n + 2]
        ELSE <<s[n]>> \o f[n + 1]]

LEMMA UpToQuoteIs ==
  ASSUME NEW s \in Seq(Char)
  PROVE  \E f : Ending(f, s) /\ UpToQuote(s) = SubSeq(s, 1, f[1] - 1)
<1> DEFINE L == Len(s)
           stop == {n \in 1..(L + 1) : n > L \/ s[n] = Quote}
           base == [n \in 1..(L + 1) |-> n]
           next == [n \in 1..(L + 1) |-> IF s[n] = Backslash /\ n < L THEN n + 2 ELSE n + 1]
           step == [n \in 1..(L + 1) |-> [a \in Nat |-> a]]
<1>1. /\ L \in Nat /\ stop \in SUBSET (1..(L + 1)) /\ base \in [1..(L + 1) -> Nat]
      /\ next \in [1..(L + 1) -> Nat] /\ step \in [1..(L + 1) -> [Nat -> Nat]]
  OBVIOUS
<1>2. \A n \in (1..(L + 1)) \ stop : next[n] \in (n + 1)..(L + 1)
  BY <1>1
<1>3. PICK f \in [1..(L + 1) -> Nat] : \A n \in 1..(L + 1) :
        f[n] = IF n \in stop THEN base[n] ELSE step[n][f[next[n]]]
  <2> HIDE DEF L, stop, base, next, step
  <2>1. Descends(L, Nat, stop, base, next, step)
    BY <1>1, <1>2 DEF Descends
  <2> QED BY <2>1, DownExists
<1>4. ASSUME NEW n \in 1..(L + 1)
      PROVE  f[n] = IF n > L THEN n ELSE IF s[n] = Quote THEN n
                    ELSE f[IF s[n] = Backslash /\ n < L THEN n + 2 ELSE n + 1]
  <2>1. CASE n \in stop
    BY <1>1, <1>3, <2>1
  <2>2. CASE n \notin stop
    <3>1. f[next[n]] \in Nat
      <4> HIDE DEF L, stop, next
      <4>1. next[n] \in 1..(L + 1)
        BY <1>1, <1>2, <2>2
      <4> QED BY <4>1
    <3>2. step[n][f[next[n]]] = f[next[n]]
      BY <3>1
    <3>3. f[n] = f[next[n]]
      <4> HIDE DEF stop, base, step, next, L
      <4> QED BY <1>3, <2>2, <3>2
    <3>4. ~(n > L) /\ s[n] # Quote
      BY <2>2
    <3> QED BY <3>3, <3>4
  <2> QED BY <2>1, <2>2
<1>5. Ending(f, s)
  <2> HIDE DEF stop, base, next, step
  <2>1. f = [n \in 1..(L + 1) |-> f[n]]
    OBVIOUS
  <2> QED BY <1>4, <2>1 DEF Ending
<1>6. \E g : Ending(g, s)
  <2> HIDE DEF stop, base, next, step, L
  <2> QED BY <1>5
<1>7. UpToQuote(s) = SubSeq(s, 1, (CHOOSE g : Ending(g, s))[1] - 1)
  BY DEF UpToQuote, Ending
<1> QED BY <1>6, <1>7

LEMMA UnprefixedIs ==
  ASSUME NEW s \in Seq(Char), NEW ch \in Char
  PROVE  \E f : Leaving(f, s, ch) /\ Unprefixed(s, ch) = f[1]
<1> DEFINE L == Len(s)
           A == Seq(Char)
           pair(n) == n < L /\ SubSeq(s, n, n + 1) = <<Backslash, ch>>
           stop == {L + 1}
           base == [n \in 1..(L + 1) |-> <<>>]
           next == [n \in 1..(L + 1) |-> IF pair(n) THEN n + 2 ELSE n + 1]
           step == [n \in 1..(L + 1) |-> [a \in A |->
                      IF n = L + 1 THEN a ELSE IF pair(n) THEN <<ch>> \o a ELSE <<s[n]>> \o a]]
<1>1. L \in Nat /\ \A n \in 1..L : s[n] \in Char
  OBVIOUS
<1>2. step \in [1..(L + 1) -> [A -> A]]
  <2>1. ASSUME NEW n \in 1..(L + 1), NEW a \in A
        PROVE  (IF n = L + 1 THEN a ELSE IF pair(n) THEN <<ch>> \o a ELSE <<s[n]>> \o a) \in A
    <3> HIDE DEF pair
    <3>1. n # L + 1 => <<s[n]>> \in A
      BY <1>1
    <3>2. <<ch>> \in A
      OBVIOUS
    <3> HIDE DEF L
    <3> QED BY <3>1, <3>2
  <2> HIDE DEF pair, A, L
  <2> QED BY <2>1
<1>3. Descends(L, A, stop, base, next, step)
  <2>1. /\ stop \in SUBSET (1..(L + 1)) /\ base \in [1..(L + 1) -> A]
        /\ next \in [1..(L + 1) -> Nat]
        /\ \A n \in (1..(L + 1)) \ stop : next[n] \in (n + 1)..(L + 1)
    BY <1>1
  <2> HIDE DEF L, A, stop, base, next, step
  <2> QED BY <1>1, <1>2, <2>1 DEF Descends
<1>4. PICK f \in [1..(L + 1) -> A] : \A n \in 1..(L + 1) :
        f[n] = IF n \in stop THEN base[n] ELSE step[n][f[next[n]]]
  <2> HIDE DEF L, A, stop, base, next, step
  <2> QED BY <1>3, DownExists
<1>5. ASSUME NEW n \in 1..(L + 1)
      PROVE  f[n] = IF n > L THEN <<>>
                    ELSE IF pair(n) THEN <<ch>> \o f[n + 2] ELSE <<s[n]>> \o f[n + 1]
  <2>1. CASE n = L + 1
    <3>1. n > L /\ n \in stop /\ base[n] = <<>>
      BY <1>1, <2>1
    <3>2. f[n] = base[n]
      <4> HIDE DEF L, A, stop, base, next, step
      <4> QED BY <1>4, <3>1
    <3> HIDE DEF L, A, stop, base, next, step, pair
    <3> QED BY <3>1, <3>2
  <2>2. CASE n # L + 1
    <3>1. ~(n > L) /\ n \notin stop
      BY <1>1, <2>2
    <3>2. next[n] \in 1..(L + 1) /\ next[n] = IF pair(n) THEN n + 2 ELSE n + 1
      BY <1>1, <3>1
    <3>3. step[n][f[next[n]]] = IF pair(n) THEN <<ch>> \o f[next[n]] ELSE <<s[n]>> \o f[next[n]]
      <4>1. f[next[n]] \in A
        <5> HIDE DEF L, A, next
        <5> QED BY <3>2
      <4> HIDE DEF L, A, next, pair
      <4> QED BY <4>1, <2>2
    <3>4. f[n] = step[n][f[next[n]]]
      <4> HIDE DEF L, A, stop, base, next, step
      <4> QED BY <1>4, <3>1
    <3> HIDE DEF L, A, stop, base, next, step, pair
    <3> QED BY <3>1, <3>2, <3>3, <3>4
  <2> QED BY <2>1, <2>2
<1>6. Leaving(f, s, ch)
  <2> HIDE DEF stop, base, next, step
  <2>1. f = [n \in 1..(L + 1) |-> f[n]]
    OBVIOUS
  <2> QED BY <1>5, <2>1 DEF Leaving
<1>7. \E g : Leaving(g, s, ch)
  <2> HIDE DEF stop, base, next, step, L
  <2> QED BY <1>6
<1>8. Unprefixed(s, ch) = (CHOOSE g : Leaving(g, s, ch))[1]
  BY DEF Unprefixed, Leaving
<1> QED BY <1>7, <1>8

\* In w every ch of v has a backslash before it; v's k-th character ends at b[k].
Spells(b, w, v, ch) ==
  /\ b \in [0..Len(v) -> Nat] /\ b[0] = 0 /\ b[Len(v)] = Len(w)
  /\ \A k \in 1..Len(v) :
       /\ b[k] <= Len(w)
       /\ v[k] = ch => /\ b[k] = b[k - 1] + 2
                       /\ w[b[k - 1] + 1] = Backslash /\ w[b[k - 1] + 2] = ch
       /\ v[k] # ch => b[k] = b[k - 1] + 1 /\ w[b[k - 1] + 1] = v[k]

LEMMA PrefixedSpells ==
  ASSUME NEW v \in Seq(Char), NEW ch \in Char
  PROVE  Prefixed(v, ch) \in Seq(Char) /\ \E b : Spells(b, Prefixed(v, ch), v, ch)
<1> DEFINE seqs == [i \in DOMAIN v |-> IF v[i] = ch THEN <<Backslash, ch>> ELSE <<v[i]>>]
           w == Prefixed(v, ch)
<1>1. /\ Len(seqs) = Len(v) /\ Len(v) \in Nat
      /\ \A k \in 1..Len(v) : seqs[k] = IF v[k] = ch THEN <<Backslash, ch>> ELSE <<v[k]>>
  OBVIOUS
<1>2. seqs \in Seq(Seq(Char))
  <2>1. Backslash \in Char
    BY SetupAssumption
  <2>2. \A i \in DOMAIN v : seqs[i] \in Seq(Char)
    BY <2>1
  <2>3. DOMAIN v = 1..Len(v) /\ seqs = [i \in 1..Len(v) |-> seqs[i]]
    OBVIOUS
  <2> HIDE DEF seqs
  <2> QED BY <1>1, <2>2, <2>3
<1>3. w = FlattenSeq(seqs)
  BY DEF Prefixed
<1> HIDE DEF seqs, w
<1>4. PICK b : Laid(b, w, seqs) /\ w \in Seq(Char)
  BY <1>2, <1>3, FlattenLaid
<1>5. ASSUME NEW k \in 1..Len(v)
      PROVE  /\ b[k] <= Len(w)
             /\ v[k] = ch => /\ b[k] = b[k - 1] + 2
                             /\ w[b[k - 1] + 1] = Backslash /\ w[b[k - 1] + 2] = ch
             /\ v[k] # ch => b[k] = b[k - 1] + 1 /\ w[b[k - 1] + 1] = v[k]
  <2>1. /\ b[k] = b[k - 1] + Len(seqs[k]) /\ b[k] <= Len(w)
        /\ \A q \in 1..Len(seqs[k]) : w[b[k - 1] + q] = seqs[k][q]
    BY <1>1, <1>4 DEF Laid
  <2>2. CASE v[k] = ch
    <3>1. Len(seqs[k]) = 2 /\ seqs[k][1] = Backslash /\ seqs[k][2] = ch
      <4>1. seqs[k] = <<Backslash, ch>>
        BY <1>1, <2>2
      <4> QED BY <4>1
    <3> QED BY <2>1, <2>2, <3>1
  <2>3. CASE v[k] # ch
    <3>1. Len(seqs[k]) = 1 /\ seqs[k][1] = v[k]
      <4>1. seqs[k] = <<v[k]>>
        BY <1>1, <2>3
      <4> QED BY <4>1
    <3> QED BY <2>1, <2>3, <3>1
  <2> QED BY <2>2, <2>3
<1>6. b \in [0..Len(v) -> Nat] /\ b[0] = 0 /\ b[Len(v)] = Len(w)
  BY <1>1, <1>4 DEF Laid
<1>7. Spells(b, w, v, ch)
  BY <1>5, <1>6 DEF Spells
<1> QED BY <1>4, <1>7 DEF w

LEMMA FirstAndRest ==
  ASSUME NEW v \in Seq(Char), NEW k \in 1..Len(v)
  PROVE  <<v[k]>> \o SubSeq(v, k + 1, Len(v)) = SubSeq(v, k, Len(v))
<1> DEFINE rest == SubSeq(v, k + 1, Len(v))
           one == <<v[k]>>
           n == Len(v)
<1>1. n \in Nat /\ v[k] \in Char /\ k \in Nat
  OBVIOUS
<1>2. rest \in Seq(Char) /\ Len(rest) = n - k /\ \A i \in 1..(n - k) : rest[i] = v[k + i]
  OBVIOUS
<1>3. one \in Seq(Char) /\ Len(one) = 1 /\ one[1] = v[k]
  OBVIOUS
<1>4. SubSeq(v, k, n) \in Seq(Char) /\ Len(SubSeq(v, k, n)) = n - k + 1
      /\ \A i \in 1..(n - k + 1) : SubSeq(v, k, n)[i] = v[k - 1 + i]
  OBVIOUS
<1> HIDE DEF rest, one
<1>5. one \o rest \in Seq(Char) /\ Len(one \o rest) = n - k + 1
      /\ (one \o rest)[1] = v[k] /\ \A i \in 1..(n - k) : (one \o rest)[1 + i] = v[k + i]
  <2>1. /\ Len(one \o rest) = Len(one) + Len(rest) /\ one \o rest \in Seq(Char)
        /\ \A j \in 1..Len(one) : (one \o rest)[j] = one[j]
        /\ \A j \in 1..Len(rest) : (one \o rest)[Len(one) + j] = rest[j]
    <3>1. one \in Seq(Char) /\ rest \in Seq(Char)
      BY <1>2, <1>3
    <3> QED BY <3>1, ConcatAt
  <2> HIDE DEF n
  <2>2. 1 \in 1..Len(one) /\ Len(one) + Len(rest) = n - k + 1
    BY <1>1, <1>2, <1>3
  <2>3. (one \o rest)[1] = v[k]
    BY <1>3, <2>1, <2>2
  <2>4. \A i \in 1..(n - k) : (one \o rest)[1 + i] = v[k + i]
    BY <1>1, <1>2, <1>3, <2>1
  <2> QED BY <2>1, <2>2, <2>3, <2>4
<1>6. ASSUME NEW i \in 1..(n - k + 1) PROVE (one \o rest)[i] = SubSeq(v, k, n)[i]
  <2>1. CASE i = 1
    BY <1>1, <1>4, <1>5, <2>1
  <2>2. CASE i # 1
    <3>1. i - 1 \in 1..(n - k) /\ 1 + (i - 1) = i /\ k + (i - 1) = k - 1 + i
      BY <1>1, <2>2
    <3> HIDE DEF n
    <3> QED BY <1>4, <1>5, <3>1
  <2> QED BY <2>1, <2>2
<1> DEFINE x == one \o rest
           y == SubSeq(v, k, n)
<1>7. x \in Seq(Char) /\ y \in Seq(Char) /\ Len(x) = Len(y) /\ \A i \in 1..Len(x) : x[i] = y[i]
  BY <1>4, <1>5, <1>6
<1> HIDE DEF x, y
<1>8. x = y
  BY <1>7
<1> QED BY <1>8 DEF x, y, one, rest

LEMMA TwoOf ==
  ASSUME NEW s \in Seq(Char), NEW p \in 1..(Len(s) - 1)
  PROVE  SubSeq(s, p, p + 1) = <<s[p], s[p + 1]>>
<1> DEFINE t == SubSeq(s, p, p + 1)
<1>1. p \in Nat /\ p + 1 \in 1..Len(s) /\ p \in 1..Len(s)
  OBVIOUS
<1>2. t = [i \in 1..2 |-> s[p + i - 1]]
  <2>1. p + 1 - p + 1 = 2
    BY <1>1
  <2>2. t = [i \in 1..(p + 1 - p + 1) |-> s[p + i - 1]]
    BY <1>1
  <2> QED BY <2>1, <2>2
<1>3. p + 1 - 1 = p /\ p + 2 - 1 = p + 1
  BY <1>1
<1> HIDE DEF t
<1>4. t[1] = s[p] /\ t[2] = s[p + 1]
  BY <1>2, <1>3
<1>5. t = <<t[1], t[2]>>
  BY <1>2
<1> QED BY <1>4, <1>5 DEF t

\* What replaceAll puts in, replaceAll takes out again.
LEMMA UnprefixedPrefixed ==
  ASSUME NEW v \in Seq(Char), NEW ch \in Char
  PROVE  Unprefixed(Prefixed(v, ch), ch) = v
<1> DEFINE w == Prefixed(v, ch)
           n == Len(v)
           L == Len(w)
<1>1. PICK b : Spells(b, w, v, ch) /\ w \in Seq(Char)
  BY PrefixedSpells
<1>2. PICK f : Leaving(f, w, ch) /\ Unprefixed(w, ch) = f[1]
  BY <1>1, UnprefixedIs
<1> HIDE DEF w
<1>3. /\ n \in Nat /\ L \in Nat /\ b \in [0..n -> Nat] /\ b[0] = 0 /\ b[n] = L
      /\ \A k \in 1..n : b[k] <= L
  BY <1>1 DEF Spells
<1>4. ASSUME NEW p \in 1..(L + 1)
      PROVE  f[p] = IF p > L THEN <<>>
                    ELSE IF p < L /\ SubSeq(w, p, p + 1) = <<Backslash, ch>> THEN <<ch>> \o f[p + 2]
                    ELSE <<w[p]>> \o f[p + 1]
  BY <1>2 DEF Leaving
<1>5. ASSUME NEW p \in 1..(L - 1)
      PROVE  SubSeq(w, p, p + 1) = <<Backslash, ch>> <=> (w[p] = Backslash /\ w[p + 1] = ch)
  <2>1. SubSeq(w, p, p + 1) = <<w[p], w[p + 1]>>
    BY <1>1, TwoOf DEF L
  <2> QED BY <2>1
<1> HIDE DEF n, L
<1> DEFINE From(k) == f[b[k] + 1] = SubSeq(v, k + 1, n)
           P == {j \in 0..n : From(n - j)}
<1>6. 0 \in P
  <2>0. L + 1 \in 1..(L + 1) /\ L + 1 > L
    BY <1>3
  <2>1. f[L + 1] = <<>>
    BY <1>4, <2>0
  <2>2. SubSeq(v, n + 1, n) = <<>>
    BY <1>3
  <2>3. n - 0 = n /\ 0 \in 0..n
    BY <1>3
  <2> QED BY <1>3, <2>1, <2>2, <2>3
<1>7. ASSUME NEW k \in 1..n, From(k) PROVE From(k - 1)
  <2> DEFINE p == b[k - 1] + 1
  <2>1. /\ v[k] = ch => b[k] = p + 1 /\ w[p] = Backslash /\ w[p + 1] = ch
        /\ v[k] # ch => b[k] = p /\ w[p] = v[k]
        /\ b[k] <= L /\ p \in Nat \ {0} /\ b[k] \in Nat
    <3>1. b[k - 1] \in Nat /\ b[k] \in Nat
      BY <1>3
    <3>2. /\ v[k] = ch => /\ b[k] = b[k - 1] + 2
                          /\ w[b[k - 1] + 1] = Backslash /\ w[b[k - 1] + 2] = ch
          /\ v[k] # ch => b[k] = b[k - 1] + 1 /\ w[b[k - 1] + 1] = v[k]
          /\ b[k] <= L
      BY <1>1, <1>3 DEF Spells, n, L
    <3> QED BY <3>1, <3>2
  <2>2. <<v[k]>> \o SubSeq(v, k + 1, n) = SubSeq(v, k, n)
    BY FirstAndRest DEF n
  <2> HIDE DEF p
  <2>3. f[p] = <<v[k]>> \o f[b[k] + 1]
    <3>1. CASE v[k] = ch
      <4>1. p \in 1..(L - 1) /\ p \in 1..(L + 1) /\ ~(p > L) /\ p < L /\ p + 2 = b[k] + 1
        BY <1>3, <2>1, <3>1
      <4>2. SubSeq(w, p, p + 1) = <<Backslash, ch>>
        BY <1>5, <2>1, <3>1, <4>1
      <4> QED BY <1>4, <3>1, <4>1, <4>2
    <3>2. CASE v[k] # ch
      <4>1. p \in 1..(L + 1) /\ ~(p > L) /\ p + 1 = b[k] + 1 /\ w[p] = v[k]
        BY <1>3, <2>1, <3>2
      <4>2. ASSUME p < L, SubSeq(w, p, p + 1) = <<Backslash, ch>> PROVE FALSE
        <5>1. w[p] = Backslash /\ w[p + 1] = ch
          BY <1>3, <1>5, <2>1, <4>2
        <5>2. k + 1 \in 1..n /\ (k + 1) - 1 = k
          BY <1>3, <2>1, <3>2, <4>2
        <5>3. /\ v[k + 1] = ch => w[b[k] + 1] = Backslash
              /\ v[k + 1] # ch => w[b[k] + 1] = v[k + 1]
          BY <1>1, <5>2 DEF Spells, n
        <5> QED BY <2>1, <3>2, <5>1, <5>3
      <4>3. f[p] = <<w[p]>> \o f[p + 1]
        BY <1>4, <4>1, <4>2
      <4> QED BY <4>1, <4>3
    <3> QED BY <3>1, <3>2
  <2>4. (k - 1) + 1 = k
    BY <1>3
  <2> QED BY <1>7, <2>2, <2>3, <2>4 DEF p
<1>8. From(0)
  <2>1. ASSUME NEW j \in 1..n, j - 1 \in P PROVE j \in P
    <3>1. n - j + 1 \in 1..n /\ n - (j - 1) = n - j + 1 /\ (n - j + 1) - 1 = n - j /\ j \in 0..n
      BY <1>3
    <3>2. From(n - j + 1)
      BY <2>1, <3>1
    <3> HIDE DEF From
    <3>3. From(n - j)
      BY <1>7, <3>1, <3>2
    <3> QED BY <3>1, <3>3
  <2>2. \A j \in 0..n : j \in P
    <3> HIDE DEF P
    <3> QED BY <1>3, <1>6, <2>1, CountUp
  <2>3. n \in P /\ n - n = 0
    <3> HIDE DEF P
    <3> QED BY <1>3, <2>2
  <2> HIDE DEF From
  <2> QED BY <2>3
<1>9. SubSeq(v, 0 + 1, n) = v
  BY DEF n
<1>10. b[0] + 1 = 1
  BY <1>3
<1> QED BY <1>2, <1>8, <1>9, <1>10 DEF w

LEMMA UpToQuoteEscaped ==
  ASSUME NEW v \in Seq(Char)
  PROVE  UpToQuote(Escape(v)) = Escape(v)
<1> DEFINE u == Prefixed(v, Backslash)
           w == Prefixed(u, Quote)
           n == Len(v)
           L == Len(w)
<1>0. Quote \in Char /\ Backslash \in Char /\ Quote # Backslash
  BY SetupAssumption, Zenon DEF Quote, Backslash
<1>1. PICK b : Spells(b, u, v, Backslash) /\ u \in Seq(Char)
  BY <1>0, PrefixedSpells
<1> HIDE DEF u
<1>2. PICK c : Spells(c, w, u, Quote) /\ w \in Seq(Char)
  BY <1>0, <1>1, PrefixedSpells
<1> HIDE DEF w
<1>3. PICK f : Ending(f, w) /\ UpToQuote(w) = SubSeq(w, 1, f[1] - 1)
  BY <1>2, UpToQuoteIs
<1>4. /\ n \in Nat /\ L \in Nat /\ Len(u) \in Nat
      /\ b \in [0..n -> Nat] /\ b[0] = 0 /\ b[n] = Len(u) /\ \A k \in 1..n : b[k] <= Len(u)
      /\ c \in [0..Len(u) -> Nat] /\ c[0] = 0 /\ c[Len(u)] = L /\ \A k \in 1..Len(u) : c[k] <= L
  BY <1>1, <1>2 DEF Spells
<1>5. ASSUME NEW p \in 1..(L + 1)
      PROVE  f[p] = IF p > L THEN p ELSE IF w[p] = Quote THEN p
                    ELSE f[IF w[p] = Backslash /\ p < L THEN p + 2 ELSE p + 1]
  BY <1>3 DEF Ending
<1>6. ASSUME NEW i \in 1..Len(u)
      PROVE  /\ u[i] = Quote => /\ c[i] = c[i - 1] + 2
                                /\ w[c[i - 1] + 1] = Backslash /\ w[c[i - 1] + 2] = Quote
             /\ u[i] # Quote => c[i] = c[i - 1] + 1 /\ w[c[i - 1] + 1] = u[i]
             /\ c[i] <= L /\ c[i - 1] \in Nat /\ c[i] \in Nat
  <2>1. c[i - 1] \in Nat /\ c[i] \in Nat
    <3>1. i - 1 \in 0..Len(u) /\ i \in 0..Len(u)
      BY <1>4
    <3> QED BY <1>4, <3>1
  <2> QED BY <1>2, <2>1 DEF Spells
<1>7. ASSUME NEW k \in 1..n
      PROVE  /\ v[k] = Backslash => /\ b[k] = b[k - 1] + 2
                                    /\ u[b[k - 1] + 1] = Backslash /\ u[b[k - 1] + 2] = Backslash
             /\ v[k] # Backslash => b[k] = b[k - 1] + 1 /\ u[b[k - 1] + 1] = v[k]
             /\ b[k] <= Len(u) /\ b[k - 1] \in Nat /\ b[k] \in Nat
  <2>1. b[k - 1] \in Nat /\ b[k] \in Nat
    <3>1. k - 1 \in 0..n /\ k \in 0..n
      BY <1>4
    <3> QED BY <1>4, <3>1
  <2> QED BY <1>1, <2>1 DEF Spells
<1> HIDE DEF n, L
<1> DEFINE To(k) == f[c[b[k]] + 1] = L + 1
           P == {j \in 0..n : To(n - j)}
<1>8. ASSUME NEW k \in 1..n, To(k) PROVE To(k - 1)
  <2> DEFINE i == b[k - 1] + 1
             p == c[i - 1] + 1
  <2>1. i \in 1..Len(u) /\ i - 1 = b[k - 1] /\ p \in 1..(L + 1)
    <3>1. b[k - 1] \in Nat /\ b[k - 1] + 1 <= b[k] /\ b[k] <= Len(u) /\ b[k] \in Nat
      BY <1>7
    <3>2. i \in 1..Len(u) /\ i - 1 = b[k - 1]
      BY <1>4, <3>1
    <3> HIDE DEF i
    <3>3. c[i - 1] \in Nat /\ c[i] \in Nat /\ c[i] <= L /\ c[i - 1] + 1 <= c[i]
      <4> DEFINE x == c[i - 1]
                 y == c[i]
      <4>1. x \in Nat /\ y \in Nat /\ y <= L /\ (y = x + 1 \/ y = x + 2)
        BY <1>6, <3>2
      <4> HIDE DEF x, y
      <4>2. x + 1 <= y
        BY <4>1
      <4> QED BY <4>1, <4>2 DEF x, y
    <3>4. p \in 1..(L + 1)
      <4> DEFINE x == c[i - 1]
                 y == c[i]
      <4>1. x \in Nat /\ y \in Nat /\ y <= L /\ x + 1 <= y /\ L \in Nat /\ p = x + 1
        BY <1>4, <3>3
      <4> HIDE DEF x, y, p
      <4> QED BY <4>1
    <3> HIDE DEF p
    <3> QED BY <3>2, <3>4 DEF i
  <2> HIDE DEF i
  <2>2. CASE v[k] = Backslash
    <3>1. u[i] = Backslash /\ u[i + 1] = Backslash /\ b[k] = i + 1 /\ i + 1 \in 1..Len(u)
      <4>1. /\ b[k] = b[k - 1] + 2 /\ b[k] <= Len(u) /\ b[k - 1] \in Nat /\ b[k] \in Nat
            /\ u[b[k - 1] + 1] = Backslash /\ u[b[k - 1] + 2] = Backslash
        BY <1>7, <2>2
      <4>2. b[k - 1] + 1 = i /\ b[k - 1] + 2 = i + 1 /\ i \in Nat
        BY <4>1 DEF i
      <4> DEFINE x == b[k]
                 y == Len(u)
      <4>3. x = i + 1 /\ x <= y /\ i \in Nat /\ y \in Nat
        BY <1>4, <4>1, <4>2
      <4>4. i + 1 \in 1..y
        <5> HIDE DEF x, y
        <5> QED BY <4>3
      <4> QED BY <4>1, <4>2, <4>3, <4>4
    <3>2. c[i] = p /\ w[p] = Backslash
      BY <1>0, <1>6, <2>1, <3>1
    <3>3. c[i + 1] = c[i] + 1 /\ c[i + 1] <= L
      <4>1. (i + 1) - 1 = i
        BY <2>1
      <4> QED BY <1>0, <1>6, <3>1, <4>1
    <3>4. ~(p > L) /\ p < L /\ p + 2 = c[b[k]] + 1
      <4> HIDE DEF p
      <4> QED BY <1>4, <2>1, <3>1, <3>2, <3>3
    <3>5. f[p] = f[p + 2]
      <4> HIDE DEF p
      <4> QED BY <1>0, <1>5, <2>1, <3>2, <3>4
    <3> QED BY <1>8, <2>1, <3>4, <3>5
  <2>3. CASE v[k] = Quote
    <3>1. u[i] = Quote /\ b[k] = i
      BY <1>0, <1>7, <2>3 DEF i
    <3>2. c[i] = p + 1 /\ w[p] = Backslash /\ c[i] <= L
      BY <1>6, <2>1, <3>1
    <3>3. ~(p > L) /\ p < L /\ p + 2 = c[b[k]] + 1
      <4> HIDE DEF p
      <4> QED BY <1>4, <2>1, <3>1, <3>2
    <3>4. f[p] = f[p + 2]
      <4> HIDE DEF p
      <4> QED BY <1>0, <1>5, <2>1, <3>2, <3>3
    <3> QED BY <1>8, <2>1, <3>3, <3>4
  <2>4. CASE v[k] # Backslash /\ v[k] # Quote
    <3>1. u[i] = v[k] /\ b[k] = i
      BY <1>7, <2>4 DEF i
    <3>2. c[i] = p /\ w[p] = v[k] /\ c[i] <= L
      BY <1>6, <2>1, <2>4, <3>1
    <3>3. ~(p > L) /\ p + 1 = c[b[k]] + 1
      <4> HIDE DEF p
      <4> QED BY <1>4, <2>1, <3>1, <3>2
    <3>4. f[p] = f[p + 1]
      <4> HIDE DEF p
      <4> QED BY <1>5, <2>1, <2>4, <3>2, <3>3
    <3> QED BY <1>8, <2>1, <3>3, <3>4
  <2> QED BY <2>2, <2>3, <2>4
<1>9. To(0)
  <2>1. 0 \in P
    <3>1. f[L + 1] = L + 1 /\ n - 0 = n /\ 0 \in 0..n /\ c[b[n]] = L
      BY <1>4, <1>5
    <3> QED BY <3>1
  <2>2. ASSUME NEW j \in 1..n, j - 1 \in P PROVE j \in P
    <3>1. n - j + 1 \in 1..n /\ n - (j - 1) = n - j + 1 /\ (n - j + 1) - 1 = n - j /\ j \in 0..n
      BY <1>4
    <3>2. To(n - j + 1)
      BY <2>2, <3>1
    <3> HIDE DEF To
    <3>3. To(n - j)
      BY <1>8, <3>1, <3>2
    <3> QED BY <3>1, <3>3
  <2>3. \A j \in 0..n : j \in P
    <3> HIDE DEF P
    <3> QED BY <1>4, <2>1, <2>2, CountUp
  <2>4. n \in P /\ n - n = 0
    <3> HIDE DEF P
    <3> QED BY <1>4, <2>3
  <2> HIDE DEF To
  <2> QED BY <2>4
<1>10. f[1] - 1 = L
  <2>1. b[0] = 0 /\ c[0] = 0 /\ L \in Nat
    BY <1>4
  <2>2. f[0 + 1] = L + 1
    BY <1>9, <2>1
  <2> QED BY <2>1, <2>2
<1>11. SubSeq(w, 1, L) = w
  BY <1>2 DEF L
<1> QED BY <1>3, <1>10, <1>11 DEF Escape, u, w

\* A value is read back as it was before it was escaped.
LEMMA ReadsBack ==
  ASSUME NEW v \in Seq(Char)
  PROVE  ReadTomlString(Escape(v)) = v
<1>1. Quote \in Char /\ Backslash \in Char
  BY SetupAssumption
<1>2. Prefixed(v, Backslash) \in Seq(Char)
  BY <1>1, PrefixedSpells
<1> DEFINE u == Prefixed(v, Backslash)
<1>3. Unprefixed(Prefixed(u, Quote), Quote) = u
  BY <1>1, <1>2, UnprefixedPrefixed
<1>4. Unprefixed(u, Backslash) = v
  BY <1>1, UnprefixedPrefixed
<1>5. UpToQuote(Escape(v)) = Escape(v) /\ Escape(v) = Prefixed(u, Quote)
  BY UpToQuoteEscaped DEF Escape
<1> HIDE DEF u
<1> QED BY <1>3, <1>4, <1>5 DEF ReadTomlString

----------------------------------------------------------------------------
(* What the commands leave *)

Stored(secret) == [room |-> Room, secret |-> secret]
Escaped(secret) == [room |-> Escape(Room), secret |-> Escape(secret)]
NoTexts == [room |-> NoText, secret |-> NoText]

ConfigOps == {WriteConfig(Nothing, NoTexts)} \cup {WriteConfig(Stored(x), Escaped(x)) : x \in Secret}
Operation ==
  [do : {"mkdir", "mflowignore", "gitignore", "read-settings", "write-settings"}]
  \cup ConfigOps
  \cup [do : {"hook"}, file : HookFile, force : BOOLEAN]
  \cup [do : {"installed"}, harness : Harness, force : BOOLEAN, counts : BOOLEAN]
  \cup [do : {"ignore"}, pattern : Pattern]
  \cup [do : {"start"}, given : Given]
PlansOK == todo \in [Command -> Seq(Operation)]

\* The configuration is what was written with the answers, and a daemon has it.
ConfigOK ==
  \/ answers = Nothing /\ config \in {Nothing, NoTexts}
  \/ \E x \in Secret : answers = Stored(x) /\ config = Escaped(x)
StartedWith(d) ==
  IF d.answers = Nothing
  THEN d.room = Derived /\ d.secret = FirstNonEmpty(<<d.given, Fresh>>)
  ELSE /\ d.room = Room
       /\ d.secret = FirstNonEmpty(<<d.given, d.answers.secret, Fresh>>)
TextsInv == PlansOK /\ ConfigOK /\ (daemon # Nothing => StartedWith(daemon))

\* A file of a harness is as an installation leaves it.
Ready(f, force) == hook[f] # Nothing /\ (force => hook[f] = "mflow's")

\* What is held of the settings is what they were, and one entry more is written.
Holds(found) ==
  /\ found \in Settings /\ found.entries <= 1
  /\ ~spoiled => found.own = 1..edits
SettingsOK ==
  /\ edits \in Nat /\ spoiled \in BOOLEAN /\ Holds(settings) /\ (~spoiled => ~settings.cut)
  /\ copy \in [Command -> {Nothing} \cup Settings]
  /\ \A c \in Command : copy[c] # Nothing => Holds(copy[c]) /\ ~copy[c].cut
HooksOK == hook \in [HookFile -> {Nothing, "cut", "mflow's", "user's"}]

\* The settings are written by a command that has read them just before.
ReadFirst(c) ==
  \A j \in DOMAIN todo[c] : todo[c][j].do = "write-settings" =>
    IF j = 1 THEN copy[c] # Nothing ELSE todo[c][j - 1].do = "read-settings"

\* Before an installation is noted, all that it wants is there or will be written.
WrittenFirst(c) ==
  \A j \in DOMAIN todo[c] : todo[c][j].do = "installed" /\ todo[c][j].counts =>
    /\ \A f \in Range(FilesOf(todo[c][j].harness)) :
         \/ Ready(f, todo[c][j].force)
         \/ \E i \in 1..(j - 1) : todo[c][i] = WriteIfAllowed(f, todo[c][j].force)
    /\ todo[c][j].harness = "claude" =>
         settings.entries > 0 \/ \E i \in 1..(j - 1) : todo[c][i].do = "write-settings"

InstalledOK ==
  \A x \in installed :
    /\ x \in Harness \X BOOLEAN
    /\ \A f \in Range(FilesOf(x[1])) : Ready(f, x[2])
    /\ x[1] = "claude" => settings.entries > 0

HooksInv ==
  /\ PlansOK /\ HooksOK /\ SettingsOK /\ InstalledOK
  /\ \A c \in Command : ReadFirst(c) /\ WrittenFirst(c)

----------------------------------------------------------------------------
(* Plans of commands *)

LEMMA FilesAre ==
  ASSUME NEW h \in Harness
  PROVE  FilesOf(h) \in Seq(HookFile) /\ Range(FilesOf(h)) \subseteq HookFile
<1>1. Range(FilesOf(h)) \subseteq HookFile
  BY DEF HookFile
<1>2. FilesOf(h) \in Seq(Range(FilesOf(h)))
  <2>1. CASE h = "claude"
    <3>1. FilesOf(h) = <<"mflow-lock.mjs">>
      BY <2>1 DEF FilesOf
    <3> QED BY <3>1 DEF Range
  <2>2. CASE h = "opencode"
    <3>1. FilesOf(h) = <<"opencode/mflow-lock.js">>
      BY <2>2 DEF FilesOf
    <3> QED BY <3>1 DEF Range
  <2>3. CASE h = "codex"
    <3>1. FilesOf(h) = <<"mflow-pre-edit.sh", "mflow-agent-prompt.md", "mflow-hook.example.toml">>
      BY <2>3 DEF FilesOf
    <3> QED BY <3>1 DEF Range
  <2>4. CASE h = "mendcode"
    <3>1. FilesOf(h) = <<"mendcode/mflow-lock.js", "mflow-control.md", "mcp.mflow.example.json">>
      BY <2>4 DEF FilesOf
    <3> QED BY <3>1 DEF Range
  <2> QED BY <2>1, <2>2, <2>3, <2>4 DEF Harness
<1> QED BY <1>1, <1>2

\* A plan that a command may begin with, whatever is there.
Prepared(plan, j) ==
  /\ plan[j].do = "write-settings" => j # 1 /\ plan[j - 1].do = "read-settings"
  /\ plan[j].do = "installed" =>
       /\ \A f \in Range(FilesOf(plan[j].harness)) :
            \E i \in 1..(j - 1) : plan[i] = WriteIfAllowed(f, plan[j].force)
       /\ plan[j].harness = "claude" => \E i \in 1..(j - 1) : plan[i].do = "write-settings"
Sound(plan) == plan \in Seq(Operation) /\ \A j \in DOMAIN plan : Prepared(plan, j)

LEMMA InstallSound ==
  ASSUME NEW h \in Harness, NEW force \in BOOLEAN
  PROVE  Sound(Install(h, force))
<1> DEFINE files == FilesOf(h)
           n == Len(files)
           a == [i \in DOMAIN files |-> WriteIfAllowed(files[i], force)]
           b == IF h = "claude" THEN <<Do("read-settings"), Do("write-settings")>> ELSE <<>>
           c == <<Finish(h, force)>>
           m == IF h = "claude" THEN 2 ELSE 0
           plan == Install(h, force)
<1>1. /\ n \in Nat /\ files \in Seq(HookFile) /\ \A i \in 1..n : files[i] \in HookFile
      /\ Range(files) = {files[i] : i \in 1..n}
  BY FilesAre DEF Range
<1> HIDE DEF files
<1>2. a \in Seq(Operation) /\ Len(a) = n /\ \A i \in 1..n : a[i] = WriteIfAllowed(files[i], force)
  <2>1. \A i \in 1..n : WriteIfAllowed(files[i], force) \in Operation
    BY <1>1 DEF WriteIfAllowed, Operation
  <2>2. DOMAIN files = 1..n
    BY <1>1
  <2> HIDE DEF n
  <2> QED BY <1>1, <2>1, <2>2
<1>3. /\ b \in Seq(Operation) /\ Len(b) = m /\ m \in Nat
      /\ h = "claude" => b[1] = Do("read-settings") /\ b[2] = Do("write-settings")
  <2>1. Do("read-settings") \in Operation /\ Do("write-settings") \in Operation
    BY DEF Do, Operation
  <2> QED BY <2>1
<1>4. c \in Seq(Operation) /\ Len(c) = 1 /\ c[1] = Finish(h, force)
  <2>1. Finish(h, force) \in Operation
    BY DEF Finish, Operation
  <2> QED BY <2>1
<1>5. plan = (a \o b) \o c
  BY DEF Install, files
<1> HIDE DEF a, b, c, plan
<1>6. /\ a \o b \in Seq(Operation) /\ Len(a \o b) = n + m
      /\ \A i \in 1..n : (a \o b)[i] = a[i]
      /\ \A i \in 1..m : (a \o b)[n + i] = b[i]
  <2> HIDE DEF n, m
  <2>1. /\ a \o b \in Seq(Operation) /\ Len(a \o b) = Len(a) + Len(b)
        /\ \A i \in 1..Len(a) : (a \o b)[i] = a[i]
        /\ \A i \in 1..Len(b) : (a \o b)[Len(a) + i] = b[i]
    <3>1. a \in Seq(Operation) /\ b \in Seq(Operation)
      BY <1>2, <1>3
    <3> QED BY <3>1, ConcatAt
  <2> QED BY <1>2, <1>3, <2>1
<1>7. /\ plan \in Seq(Operation) /\ Len(plan) = n + m + 1
      /\ \A i \in 1..(n + m) : plan[i] = (a \o b)[i]
      /\ plan[n + m + 1] = Finish(h, force)
  <2> DEFINE ab == a \o b
  <2>1. ab \in Seq(Operation) /\ plan = ab \o c /\ Len(ab) = n + m
    BY <1>5, <1>6
  <2> HIDE DEF ab, n, m
  <2>2. /\ plan \in Seq(Operation) /\ Len(plan) = Len(ab) + Len(c)
        /\ \A i \in 1..Len(ab) : plan[i] = ab[i]
        /\ \A i \in 1..Len(c) : plan[Len(ab) + i] = c[i]
    <3>1. ab \in Seq(Operation) /\ c \in Seq(Operation)
      BY <1>4, <2>1
    <3>2. /\ ab \o c \in Seq(Operation) /\ Len(ab \o c) = Len(ab) + Len(c)
          /\ \A i \in 1..Len(ab) : (ab \o c)[i] = ab[i]
          /\ \A i \in 1..Len(c) : (ab \o c)[Len(ab) + i] = c[i]
      BY <3>1, ConcatAt
    <3> QED BY <2>1, <3>2
  <2>3. 1 \in 1..Len(c)
    BY <1>4
  <2>4. plan[n + m + 1] = Finish(h, force)
    BY <1>4, <2>1, <2>2, <2>3
  <2> QED BY <1>4, <2>1, <2>2, <2>4 DEF ab
<1> HIDE DEF n, m
<1>8. \A i \in 1..n : plan[i] = WriteIfAllowed(files[i], force)
  BY <1>1, <1>2, <1>3, <1>6, <1>7
<1>9. h = "claude" => /\ m = 2 /\ plan[n + 1] = Do("read-settings")
                      /\ plan[n + 2] = Do("write-settings")
  <2> SUFFICES ASSUME h = "claude"
               PROVE  m = 2 /\ plan[n + 1] = Do("read-settings") /\ plan[n + 2] = Do("write-settings")
    OBVIOUS
  <2>1. m = 2 /\ n + 1 \in 1..(n + m) /\ n + 2 \in 1..(n + m) /\ 1 \in 1..m /\ 2 \in 1..m
    BY <1>1 DEF m
  <2> QED BY <1>3, <1>6, <1>7, <2>1
<1>10. h # "claude" => m = 0
  BY DEF m
<1>11. ASSUME NEW j \in 1..n PROVE Prepared(plan, j)
  <2>1. plan[j] = WriteIfAllowed(files[j], force)
    BY <1>8
  <2>2. plan[j].do = "hook"
    BY <2>1 DEF WriteIfAllowed
  <2> QED BY <2>2 DEF Prepared
<1>12. ASSUME NEW j \in (n + 1)..(n + m) PROVE Prepared(plan, j)
  <2>3. h = "claude" /\ (j = n + 1 \/ j = n + 2)
    BY <1>1, <1>9, <1>10
  <2>4. CASE j = n + 1
    <3>1. plan[j].do = "read-settings"
      BY <1>9, <2>3, <2>4 DEF Do
    <3> QED BY <3>1 DEF Prepared
  <2>5. CASE j = n + 2
    <3>1. plan[j].do = "write-settings" /\ plan[j - 1].do = "read-settings" /\ j # 1
      BY <1>1, <1>9, <2>3, <2>5 DEF Do
    <3> QED BY <3>1 DEF Prepared
  <2> QED BY <2>3, <2>4, <2>5
<1>13. Prepared(plan, n + m + 1)
  <2> DEFINE j == n + m + 1
  <2>1. plan[j].do = "installed" /\ plan[j].harness = h /\ plan[j].force = force
    BY <1>7 DEF Finish
  <2>2. ASSUME NEW f \in Range(FilesOf(h))
        PROVE  \E i \in 1..(j - 1) : plan[i] = WriteIfAllowed(f, force)
    <3>1. PICK i \in 1..n : f = files[i]
      BY <1>1 DEF files
    <3>2. i \in 1..(j - 1)
      BY <1>1, <1>3, <3>1
    <3> QED BY <1>8, <3>1, <3>2
  <2>3. ASSUME h = "claude" PROVE \E i \in 1..(j - 1) : plan[i].do = "write-settings"
    <3>1. n + 2 \in 1..(j - 1) /\ plan[n + 2].do = "write-settings"
      BY <1>1, <1>9, <2>3 DEF Do
    <3> QED BY <3>1
  <2> HIDE DEF j
  <2>4. Prepared(plan, j)
    BY <2>1, <2>2, <2>3 DEF Prepared
  <2> QED BY <2>4 DEF j
<1>14. ASSUME NEW j \in DOMAIN plan PROVE Prepared(plan, j)
  <2>1. j \in 1..n \/ j \in (n + 1)..(n + m) \/ j = n + m + 1
    <3>1. DOMAIN plan = 1..(n + m + 1) /\ n \in Nat /\ m \in Nat
      BY <1>1, <1>3, <1>7
    <3>2. j \in 1..(n + m + 1)
      BY <3>1
    <3> QED BY <3>1, <3>2
  <2> QED BY <1>11, <1>12, <1>13, <2>1
<1> QED BY <1>7, <1>14 DEF Sound, plan

LEMMA FlattenSound ==
  ASSUME NEW plans \in Seq(Seq(Operation)), \A k \in DOMAIN plans : Sound(plans[k])
  PROVE  Sound(FlattenSeq(plans))
<1> DEFINE whole == FlattenSeq(plans)
<1>1. whole \in Seq(Operation) /\ \E b : Laid(b, whole, plans)
  BY FlattenLaid
<1>2. PICK b : Laid(b, whole, plans)
  BY <1>1
<1> HIDE DEF whole
<1>3. ASSUME NEW j \in DOMAIN whole PROVE Prepared(whole, j)
  <2>1. j \in 1..Len(whole)
    BY <1>1
  <2>2. PICK k \in 1..Len(plans) : \E q \in 1..Len(plans[k]) : j = b[k - 1] + q
    <3>1. PlacedIn(j, b, plans)
      BY <1>2, <2>1, PlaceIn
    <3> QED BY <3>1 DEF PlacedIn
  <2>3. PICK q \in 1..Len(plans[k]) : j = b[k - 1] + q
    BY <2>2
  <2> DEFINE plan == plans[k]
             o == b[k - 1]
  <2>4. plan \in Seq(Operation) /\ Sound(plan) /\ q \in DOMAIN plan
    BY <2>3 DEF Sound
  <2>5. o \in Nat /\ \A i \in 1..Len(plan) : whole[o + i] = plan[i]
    <3>1. b \in [0..Len(plans) -> Nat] /\ k - 1 \in 0..Len(plans)
      BY <1>2 DEF Laid
    <3> QED BY <1>2, <3>1 DEF Laid
  <2>6. j = o + q
    BY <2>3
  <2> HIDE DEF plan, o
  <2>7. Prepared(plan, q)
    BY <2>4 DEF Sound
  <2>8. Len(plan) \in Nat /\ q \in Nat \ {0} /\ q \in 1..Len(plan) /\ whole[j] = plan[q]
    BY <2>4, <2>5, <2>6
  <2>9. \A i \in 1..(q - 1) : o + i \in 1..(j - 1) /\ whole[o + i] = plan[i]
    BY <2>5, <2>6, <2>8
  <2>10. ASSUME plan[q].do = "write-settings" PROVE j # 1 /\ whole[j - 1].do = "read-settings"
    <3>1. q # 1 /\ plan[q - 1].do = "read-settings"
      BY <2>7, <2>10 DEF Prepared
    <3>2. q - 1 \in 1..(q - 1)
      BY <2>8, <3>1
    <3>3. o + (q - 1) = j - 1 /\ j # 1
      BY <2>5, <2>6, <2>8, <3>1
    <3> QED BY <2>9, <3>1, <3>2, <3>3
  <2>11. ASSUME plan[q].do = "installed"
         PROVE  /\ \A f \in Range(FilesOf(plan[q].harness)) :
                     \E i \in 1..(j - 1) : whole[i] = WriteIfAllowed(f, plan[q].force)
                /\ plan[q].harness = "claude" => \E i \in 1..(j - 1) : whole[i].do = "write-settings"
    <3>1. ASSUME NEW f \in Range(FilesOf(plan[q].harness))
          PROVE  \E i \in 1..(j - 1) : whole[i] = WriteIfAllowed(f, plan[q].force)
      <4>1. PICK i \in 1..(q - 1) : plan[i] = WriteIfAllowed(f, plan[q].force)
        BY <2>7, <2>11, <3>1 DEF Prepared
      <4> QED BY <2>9, <4>1
    <3>2. ASSUME plan[q].harness = "claude"
          PROVE  \E i \in 1..(j - 1) : whole[i].do = "write-settings"
      <4>1. PICK i \in 1..(q - 1) : plan[i].do = "write-settings"
        BY <2>7, <2>11, <3>2 DEF Prepared
      <4> QED BY <2>9, <4>1
    <3> QED BY <3>1, <3>2
  <2> QED BY <2>8, <2>10, <2>11 DEF Prepared
<1> QED BY <1>1, <1>3 DEF Sound, whole

LEMMA PlainSound ==
  ASSUME NEW plan \in Seq(Operation),
         \A j \in DOMAIN plan : plan[j].do \notin {"write-settings", "installed"}
  PROVE  Sound(plan)
BY DEF Sound, Prepared

Commands(c) ==
  \/ InitCommand(c)
  \/ \E secret \in Secret : SetupCommand(c, secret)
  \/ \E p \in Pattern : IgnoreCommand(c, p)
  \/ \E hs \in Asked, force \in BOOLEAN : InstallHooksCommand(c, hs, force)
  \/ \E given \in Given : StartWith(c, given)

LEMMA CommandSound ==
  ASSUME NEW c \in Command, Commands(c)
  PROVE  \E begun : Sound(begun) /\ Begin(c, begun)
<1>1. Sound(Ensure) /\ Ensure \in Seq(Operation)
  <2> DEFINE o1 == Do("mkdir")
             o2 == WriteConfig(Nothing, NoTexts)
             o3 == Do("mflowignore")
             o4 == Do("gitignore")
             all == <<o1, o2, o3, o4>>
  <2>1. /\ o1 \in Operation /\ o2 \in Operation /\ o3 \in Operation /\ o4 \in Operation
        /\ o1.do = "mkdir" /\ o2.do = "config" /\ o3.do = "mflowignore" /\ o4.do = "gitignore"
    BY DEF Operation, ConfigOps, WriteConfig, Do
  <2>2. Initialise = all
    BY DEF Initialise, NoTexts
  <2> HIDE DEF o1, o2, o3, o4
  <2>3. all \in Seq(Operation) /\ \A j \in DOMAIN all : all[j].do \notin {"write-settings", "installed"}
    BY <2>1
  <2>4. <<>> \in Seq(Operation) /\ \A j \in DOMAIN <<>> : <<>>[j].do \notin {"write-settings", "installed"}
    OBVIOUS
  <2> HIDE DEF all
  <2>5. Sound(all) /\ Sound(<<>>)
    BY <2>3, <2>4, PlainSound
  <2> QED BY <2>2, <2>3, <2>4, <2>5 DEF Ensure
<1>2. CASE InitCommand(c)
  BY <1>1, <1>2 DEF InitCommand
<1>3. CASE \E secret \in Secret : SetupCommand(c, secret)
  <2>1. PICK secret \in Secret : Begin(c, SetUp(secret))
    BY <1>3 DEF SetupCommand
  <2> DEFINE o1 == Do("mkdir")
             o2 == WriteConfig(Stored(secret), Escaped(secret))
             all == <<o1, o2>>
  <2>2. /\ o1 \in Operation /\ o2 \in Operation /\ o1.do = "mkdir" /\ o2.do = "config"
    <3>1. o2 \in ConfigOps
      BY DEF ConfigOps
    <3>2. o1 \in Operation /\ ConfigOps \subseteq Operation
      BY DEF Operation, Do
    <3> QED BY <3>1, <3>2 DEF Do, WriteConfig
  <2>3. SetUp(secret) = all
    BY DEF SetUp, Stored, Escaped
  <2> HIDE DEF o1, o2
  <2>4. all \in Seq(Operation) /\ \A j \in DOMAIN all : all[j].do \notin {"write-settings", "installed"}
    BY <2>2
  <2> HIDE DEF all
  <2> QED BY <2>1, <2>3, <2>4, PlainSound
<1>4. CASE \E p \in Pattern : IgnoreCommand(c, p)
  <2>1. PICK p \in Pattern : IgnoreCommand(c, p)
    BY <1>4
  <2> DEFINE o == [do |-> "ignore", pattern |-> p]
  <2>2. o \in Operation /\ o.do = "ignore"
    BY DEF Operation
  <2>3. Begin(c, <<>>) \/ Begin(c, <<o>>)
    BY <2>1 DEF IgnoreCommand
  <2> HIDE DEF o
  <2>4. <<o>> \in Seq(Operation) /\ \A j \in DOMAIN <<o>> : <<o>>[j].do \notin {"write-settings", "installed"}
    BY <2>2
  <2>5. <<>> \in Seq(Operation) /\ \A j \in DOMAIN <<>> : <<>>[j].do \notin {"write-settings", "installed"}
    OBVIOUS
  <2> QED BY <2>3, <2>4, <2>5, PlainSound
<1>5. CASE \E hs \in Asked, force \in BOOLEAN : InstallHooksCommand(c, hs, force)
  <2>1. PICK hs \in Asked, force \in BOOLEAN : InstallHooksCommand(c, hs, force)
    BY <1>5
  <2>2. hs \in Seq(Harness)
    BY SetupAssumption
  <2> DEFINE plans == [i \in DOMAIN hs |-> Install(hs[i], force)]
  <2>3. \A i \in 1..Len(hs) : hs[i] \in Harness
    BY <2>2
  <2>4. \A i \in DOMAIN hs : Sound(plans[i]) /\ plans[i] \in Seq(Operation)
    BY <2>2, <2>3, InstallSound DEF Sound
  <2>5. plans \in Seq(Seq(Operation)) /\ DOMAIN plans = DOMAIN hs
    <3>1. DOMAIN hs = 1..Len(hs) /\ Len(hs) \in Nat
      BY <2>2
    <3> QED BY <2>4, <3>1
  <2>6. Begin(c, FlattenSeq(plans))
    BY <2>1 DEF InstallHooksCommand
  <2> HIDE DEF plans
  <2> QED BY <2>4, <2>5, <2>6, FlattenSound
<1>6. CASE \E given \in Given : StartWith(c, given)
  <2>1. PICK given \in Given : StartWith(c, given)
    BY <1>6
  <2> DEFINE o == [do |-> "start", given |-> given]
             plan == Ensure \o <<o>>
  <2>2. o \in Operation /\ o.do = "start"
    BY DEF Operation
  <2>3. Begin(c, plan)
    BY <2>1 DEF StartWith
  <2>4. plan \in Seq(Operation) /\ \A j \in DOMAIN plan : Prepared(plan, j)
    <3> HIDE DEF o
    <3>1. <<o>> \in Seq(Operation) /\ Len(<<o>>) = 1 /\ <<o>>[1] = o
      BY <2>2
    <3> DEFINE e == Ensure
               t == <<o>>
    <3>2. e \in Seq(Operation) /\ t \in Seq(Operation)
      BY <1>1, <3>1
    <3> HIDE DEF e, t
    <3>3. /\ e \o t \in Seq(Operation) /\ Len(e \o t) = Len(e) + Len(t)
          /\ \A j \in 1..Len(e) : (e \o t)[j] = e[j]
          /\ \A j \in 1..Len(t) : (e \o t)[Len(e) + j] = t[j]
      BY <3>2, ConcatAt
    <3>4. plan = e \o t /\ Len(t) = 1 /\ t[1] = o /\ Len(e) \in Nat
      BY <3>1, <3>2 DEF e, t
    <3>5. ASSUME NEW j \in DOMAIN plan PROVE Prepared(plan, j)
      <4>1. j \in 1..Len(e) \/ j = Len(e) + 1
        BY <3>3, <3>4
      <4>2. CASE j \in 1..Len(e)
        <5>1. plan[j] = e[j] /\ Prepared(e, j)
          BY <1>1, <3>2, <3>3, <3>4, <4>2 DEF Sound, e
        <5>2. e[j].do \notin {"write-settings", "installed"}
          BY <4>2 DEF e, Ensure, Initialise, Do, WriteConfig
        <5> QED BY <5>1, <5>2 DEF Prepared
      <4>3. CASE j = Len(e) + 1
        <5>1. plan[j].do = "start"
          BY <2>2, <3>3, <3>4, <4>3
        <5> QED BY <5>1 DEF Prepared
      <4> QED BY <4>1, <4>2, <4>3
    <3> QED BY <3>3, <3>4, <3>5
  <2> HIDE DEF plan
  <2>5. Sound(plan)
    BY <2>4 DEF Sound
  <2> QED BY <2>3, <2>5
<1> QED BY <1>2, <1>3, <1>4, <1>5, <1>6 DEF Commands

----------------------------------------------------------------------------
(* Plans stay plans *)

LEMMA OpKinds ==
  ASSUME NEW o \in Operation
  PROVE  /\ o.do = "config" => o \in ConfigOps
         /\ o.do = "hook" => o \in [do : {"hook"}, file : HookFile, force : BOOLEAN]
         /\ o.do = "installed" =>
              o \in [do : {"installed"}, harness : Harness, force : BOOLEAN, counts : BOOLEAN]
BY DEF Operation, ConfigOps, WriteConfig

\* A noted installation of h does not count; all else in the plans stays.
Marked(o, h) == IF o.do = "installed" /\ o.harness = h THEN [o EXCEPT !.counts = FALSE] ELSE o

LEMMA MarkedIs ==
  ASSUME NEW o \in Operation, NEW h
  PROVE  /\ Marked(o, h) \in Operation /\ Marked(o, h).do = o.do
         /\ o.do # "installed" => Marked(o, h) = o
         /\ o.do = "installed" =>
              /\ Marked(o, h).harness = o.harness /\ Marked(o, h).force = o.force
              /\ Marked(o, h).counts => o.counts /\ o.harness # h
<1>1. CASE o.do = "installed" /\ o.harness = h
  <2> DEFINE I == [do : {"installed"}, harness : Harness, force : BOOLEAN, counts : BOOLEAN]
  <2>1. o \in I /\ I \subseteq Operation
    BY <1>1, OpKinds DEF Operation
  <2>2. Marked(o, h) = [o EXCEPT !.counts = FALSE]
    BY <1>1 DEF Marked
  <2> QED BY <1>1, <2>1, <2>2
<1>2. CASE ~(o.do = "installed" /\ o.harness = h)
  BY <1>2 DEF Marked
<1> QED BY <1>1, <1>2

LEMMA Disturbed ==
  ASSUME NEW left \in [Command -> Seq(Operation)], NEW h, Disturb(h, left)
  PROVE  /\ todo' \in [Command -> Seq(Operation)]
         /\ \A c \in Command : /\ DOMAIN todo'[c] = DOMAIN left[c]
                               /\ \A i \in DOMAIN left[c] : todo'[c][i] = Marked(left[c][i], h)
<1>1. todo' = [c \in Command |-> [i \in DOMAIN left[c] |-> Marked(left[c][i], h)]]
  BY DEF Disturb, Marked
<1>2. ASSUME NEW c \in Command
      PROVE  /\ todo'[c] \in Seq(Operation) /\ DOMAIN todo'[c] = DOMAIN left[c]
             /\ \A i \in DOMAIN left[c] : todo'[c][i] = Marked(left[c][i], h)
  <2>1. todo'[c] = [i \in DOMAIN left[c] |-> Marked(left[c][i], h)]
    BY <1>1
  <2>2. left[c] \in Seq(Operation)
    OBVIOUS
  <2>3. DOMAIN left[c] = 1..Len(left[c]) /\ Len(left[c]) \in Nat
    BY <2>2
  <2>4. \A i \in DOMAIN left[c] : Marked(left[c][i], h) \in Operation
    BY <2>2, MarkedIs
  <2> QED BY <2>1, <2>3, <2>4
<1>3. DOMAIN todo' = Command /\ todo' = [c \in DOMAIN todo' |-> todo'[c]]
  BY <1>1
<1> QED BY <1>2, <1>3

LEMMA PlanRest ==
  ASSUME NEW p \in Seq(Operation), p # <<>>
  PROVE  /\ Head(p) = p[1] /\ p[1] \in Operation /\ 1 \in DOMAIN p
         /\ Tail(p) \in Seq(Operation) /\ Len(Tail(p)) = Len(p) - 1 /\ Len(p) \in Nat \ {0}
         /\ \A i \in 1..(Len(p) - 1) : Tail(p)[i] = p[i + 1]
OBVIOUS

\* What one step may do to the plans.
Begun(c, begun) == todo[c] = <<>> /\ todo' = [todo EXCEPT ![c] = begun]
GoesOn(c) == todo[c] # <<>> /\ todo' = [todo EXCEPT ![c] = Tail(todo[c])]
GivenUp(c) == todo' = [todo EXCEPT ![c] = <<>>]

LEMMA PlansStep ==
  ASSUME PlansOK, [SetupNext]_setupVars
  PROVE  PlansOK'
<1> USE DEF PlansOK
<1>1. ASSUME NEW c \in Command, NEW begun \in Seq(Operation), Begun(c, begun) PROVE PlansOK'
  BY <1>1 DEF Begun
<1>2. ASSUME NEW c \in Command, GoesOn(c) PROVE PlansOK'
  <2>1. Tail(todo[c]) \in Seq(Operation)
    BY <1>2, PlanRest DEF GoesOn
  <2> QED BY <1>2, <2>1 DEF GoesOn
<1>3. ASSUME NEW c \in Command, GivenUp(c) PROVE PlansOK'
  BY <1>3 DEF GivenUp
<1>4. ASSUME NEW c \in Command, Commands(c) PROVE PlansOK'
  <2>1. PICK begun : Sound(begun) /\ Begin(c, begun)
    BY <1>4, CommandSound
  <2>2. begun \in Seq(Operation) /\ Begun(c, begun)
    BY <2>1 DEF Sound, Begin, Begun
  <2> QED BY <1>1, <2>2
<1>5. ASSUME NEW c \in Command,
             Mkdir(c) \/ ConfigWritten(c) \/ IgnoreFileWritten(c) \/ GitignoreWritten(c)
             \/ HookWritten(c) \/ SettingsWritten(c) \/ Installed(c) \/ DaemonStarted(c)
      PROVE  PlansOK'
  <2>1. GoesOn(c)
    BY <1>5 DEF Mkdir, ConfigWritten, IgnoreFileWritten, GitignoreWritten, HookWritten,
                SettingsWritten, Installed, DaemonStarted, At, Done, GoesOn
  <2> QED BY <1>2, <2>1
<1>6. ASSUME NEW c \in Command, SettingsRead(c) PROVE PlansOK'
  <2>1. GoesOn(c) \/ GivenUp(c)
    BY <1>6 DEF SettingsRead, At, Done, GoesOn, GivenUp
  <2> QED BY <1>2, <1>3, <2>1
<1>7. ASSUME NEW c \in Command, Kill(c) PROVE PlansOK'
  <2> DEFINE left == [todo EXCEPT ![c] = <<>>]
  <2>1. left \in [Command -> Seq(Operation)]
    OBVIOUS
  <2>2. todo' = left \/ \E h : Disturb(h, left)
    <3> HIDE DEF PlansOK
    <3> QED BY <1>7 DEF Kill
  <2> HIDE DEF left
  <2> QED BY <2>1, <2>2, Disturbed
<1>8. ASSUME NEW f \in Touched, UserTouchesHook(f) PROVE PlansOK'
  BY <1>8, Disturbed DEF UserTouchesHook
<1>9. ASSUME UNCHANGED todo PROVE PlansOK'
  BY <1>9
<1>10. CASE StopDaemon \/ UserEditsSettings \/ UNCHANGED setupVars
  <2>1. UNCHANGED todo
    BY <1>10 DEF StopDaemon, UserEditsSettings, setupVars
  <2> QED BY <1>9, <2>1
<1> HIDE DEF PlansOK
<1> QED BY <1>4, <1>5, <1>6, <1>7, <1>8, <1>10 DEF SetupNext, Commands

----------------------------------------------------------------------------
(* What a daemon is started with *)

LEMMA FirstOf ==
  \A a, b, c :
    /\ FirstNonEmpty(<<a, b>>) = IF a # NoText THEN a ELSE b
    /\ FirstNonEmpty(<<a, b, c>>) = IF a # NoText THEN a ELSE IF b # NoText THEN b ELSE c
<1> SUFFICES ASSUME NEW a, NEW b, NEW c
             PROVE  /\ FirstNonEmpty(<<a, b>>) = IF a # NoText THEN a ELSE b
                    /\ FirstNonEmpty(<<a, b, c>>) = IF a # NoText THEN a ELSE IF b # NoText THEN b ELSE c
  OBVIOUS
<1> DEFINE two == <<a, b>>
           three == <<a, b, c>>
           Full(s) == {i \in 1..Len(s) : s[i] # NoText}
           Low(S) == CHOOSE x \in S : \A y \in S : x <= y
           First(s) == IF Full(s) # {} THEN Low(Full(s)) ELSE 0
<1>1. \A s : FirstNonEmpty(s) = IF First(s) = 0 THEN NoText ELSE s[First(s)]
  BY DEF FirstNonEmpty, SelectInSeq, Min
<1>2. ASSUME NEW s, NEW n \in Nat, Len(s) = n
      PROVE  \/ First(s) \in 1..n /\ s[First(s)] # NoText /\ \A i \in 1..n : i < First(s) => s[i] = NoText
             \/ First(s) = 0 /\ \A i \in 1..n : s[i] = NoText
  <2>1. CASE Full(s) = {}
    <3>1. First(s) = 0
      BY <2>1
    <3>2. \A i \in 1..n : s[i] = NoText
      BY <1>2, <2>1
    <3> QED BY <3>1, <3>2
  <2>2. CASE Full(s) # {}
    <3> DEFINE F == Full(s)
    <3>1. F \subseteq 1..n /\ F # {}
      BY <1>2, <2>2
    <3>2. PICK x \in F : \A y \in F : x <= y
      <4> HIDE DEF F
      <4>1. F \subseteq Nat
        BY <3>1
      <4> QED BY <3>1, <4>1, Least
    <3>3. Low(F) \in F /\ \A y \in F : Low(F) <= y
      <4> HIDE DEF F
      <4> QED BY <3>2
    <3>4. First(s) = Low(F)
      BY <2>2
    <3> HIDE DEF First, Low
    <3>5. First(s) \in 1..n /\ s[First(s)] # NoText
      BY <3>1, <3>3, <3>4
    <3>6. ASSUME NEW i \in 1..n, i < First(s) PROVE s[i] = NoText
      <4>1. i \notin F
        <5> HIDE DEF F
        <5>1. ASSUME i \in F PROVE First(s) <= i
          BY <3>3, <3>4, <5>1
        <5>2. i \in Nat /\ First(s) \in Nat
          BY <1>2, <3>5
        <5> QED BY <3>6, <5>1, <5>2
      <4> QED BY <1>2, <4>1
    <3> QED BY <3>5, <3>6
  <2> QED BY <2>1, <2>2
<1>3. Len(two) = 2 /\ two[1] = a /\ two[2] = b
  OBVIOUS
<1>4. Len(three) = 3 /\ three[1] = a /\ three[2] = b /\ three[3] = c
  OBVIOUS
<1> HIDE DEF two, three, First
<1>5. FirstNonEmpty(two) = IF a # NoText THEN a ELSE b
  <2>1. \/ First(two) \in 1..2 /\ two[First(two)] # NoText /\ \A i \in 1..2 : i < First(two) => two[i] = NoText
        \/ First(two) = 0 /\ \A i \in 1..2 : two[i] = NoText
    BY <1>2, <1>3
  <2>2. FirstNonEmpty(two) = IF First(two) = 0 THEN NoText ELSE two[First(two)]
    BY <1>1
  <2> QED BY <1>3, <2>1, <2>2
<1>6. FirstNonEmpty(three) = IF a # NoText THEN a ELSE IF b # NoText THEN b ELSE c
  <2>1. \/ First(three) \in 1..3 /\ three[First(three)] # NoText /\ \A i \in 1..3 : i < First(three) => three[i] = NoText
        \/ First(three) = 0 /\ \A i \in 1..3 : three[i] = NoText
    BY <1>2, <1>4
  <2>2. FirstNonEmpty(three) = IF First(three) = 0 THEN NoText ELSE three[First(three)]
    BY <1>1
  <2> QED BY <1>4, <2>1, <2>2
<1> QED BY <1>5, <1>6 DEF two, three

LEMMA NothingWritten ==
  /\ Escape(NoText) = NoText /\ ReadTomlString(NoText) = NoText
<1>1. Prefixed(NoText, Backslash) = NoText /\ Prefixed(NoText, Quote) = NoText
  BY DEF Prefixed, NoText, FlattenSeq
<1>2. Escape(NoText) = NoText
  BY <1>1 DEF Escape
<1>3. NoText \in Seq(Char)
  BY DEF NoText
<1> QED BY <1>2, <1>3, ReadsBack

LEMMA TextsApart ==
  ASSUME NEW x \in Secret
  PROVE  /\ Room \in Seq(Char) /\ x \in Seq(Char) /\ Room # NoText
         /\ Stored(x) # Nothing /\ Escaped(x) # Nothing /\ NoTexts # Nothing
<1>1. Room \in Seq(Char) /\ x \in Seq(Char) /\ Room # NoText
  BY SetupAssumption DEF Room, Range, NoText
<1>2. ASSUME NEW v \in Seq(Char) PROVE Escape(v) \in Seq(Char)
  BY SetupAssumption, PrefixedSpells DEF Escape
<1>3. NoText \in Seq(Char)
  BY DEF NoText
<1>4. /\ Stored(x) \in [room : Seq(Char), secret : Seq(Char)]
      /\ Escaped(x) \in [room : Seq(Char), secret : Seq(Char)]
      /\ NoTexts \in [room : Seq(Char), secret : Seq(Char)]
  BY <1>1, <1>2, <1>3 DEF Stored, Escaped, NoTexts
<1> QED BY <1>1, <1>4, SetupAssumption

\* What the commands read of a configuration, after setup and without one.
LEMMA ConfigReads ==
  ASSUME ConfigOK
  PROVE  /\ answers = Nothing => Read("room") = NoText /\ Read("secret") = NoText
         /\ answers # Nothing => Read("room") = Room /\ Read("secret") = answers.secret
<1>1. CASE answers = Nothing /\ config = Nothing
  BY <1>1 DEF Read
<1>2. CASE answers = Nothing /\ config = NoTexts
  <2>1. config["room"] = NoText /\ config["secret"] = NoText
    BY <1>2 DEF NoTexts
  <2> QED BY <1>2, <2>1, NothingWritten DEF Read
<1>3. ASSUME NEW x \in Secret, answers = Stored(x), config = Escaped(x)
      PROVE  /\ answers # Nothing /\ Read("room") = Room /\ Read("secret") = answers.secret
  <2>1. config["room"] = Escape(Room) /\ config["secret"] = Escape(x) /\ answers.secret = x
    BY <1>3 DEF Escaped, Stored
  <2>2. config # Nothing /\ answers # Nothing /\ Room \in Seq(Char) /\ x \in Seq(Char)
    BY <1>3, TextsApart
  <2> QED BY <2>1, <2>2, ReadsBack DEF Read
<1> QED BY <1>1, <1>2, <1>3 DEF ConfigOK

LEMMA OptionsGood ==
  ASSUME ConfigOK, NEW given
  PROVE  StartedWith(DaemonOptions(given))
<1> DEFINE loaded == LoadConfigFile(BuildConfig)
           room == FirstNonEmpty(<<Read("room"), Derived>>)
           secret == FirstNonEmpty(<<given, Read("secret"), Fresh>>)
           d == DaemonOptions(given)
<1>1. loaded.room = NoText /\ loaded.secret = NoText
  <2>1. CASE config = Nothing
    BY <2>1 DEF LoadConfigFile, BuildConfig
  <2>2. CASE config # Nothing
    <3>1. \A key \in DOMAIN BuildConfig : loaded[key] = BuildConfig[key]
      BY <2>2 DEF LoadConfigFile, DeepMerge
    <3>2. "room" \in DOMAIN BuildConfig /\ "secret" \in DOMAIN BuildConfig
          /\ BuildConfig["room"] = NoText /\ BuildConfig["secret"] = NoText
      BY DEF BuildConfig
    <3> QED BY <3>1, <3>2
  <2> QED BY <2>1, <2>2
<1>2. /\ d.room = FirstNonEmpty(<<room, loaded.room>>)
      /\ d.secret = FirstNonEmpty(<<secret, loaded.secret>>)
      /\ d.given = given /\ d.answers = answers
  BY DEF DaemonOptions
<1> HIDE DEF loaded, d
<1>3. d.room = room /\ d.secret = secret
  <2> HIDE DEF room, secret
  <2> QED BY <1>1, <1>2, FirstOf
<1>4. Derived # NoText /\ Fresh # NoText
  BY DEF Derived, Fresh, NoText
<1>5. CASE answers = Nothing
  <2>1. Read("room") = NoText /\ Read("secret") = NoText
    BY <1>5, ConfigReads
  <2>2. d.room = Derived
    BY <1>3, <2>1, FirstOf
  <2>3. d.secret = FirstNonEmpty(<<given, Fresh>>)
    <3>1. FirstNonEmpty(<<given, NoText, Fresh>>) = IF given # NoText THEN given ELSE Fresh
      <4>1. \A x : FirstNonEmpty(<<given, x, Fresh>>) = IF given # NoText THEN given ELSE IF x # NoText THEN x ELSE Fresh
        BY FirstOf
      <4> HIDE DEF room, secret
      <4> QED BY <4>1
    <3>2. FirstNonEmpty(<<given, Fresh>>) = IF given # NoText THEN given ELSE Fresh
      <4> HIDE DEF room, secret
      <4> QED BY FirstOf
    <3>3. d.secret = FirstNonEmpty(<<given, NoText, Fresh>>)
      BY <1>3, <2>1
    <3> QED BY <3>1, <3>2, <3>3
  <2> QED BY <1>2, <1>5, <2>2, <2>3 DEF StartedWith, d
<1>6. CASE answers # Nothing
  <2>1. Read("room") = Room /\ Read("secret") = answers.secret
    BY <1>6, ConfigReads
  <2>2. Room # NoText
    BY DEF Room, NoText
  <2>3. d.room = Room
    BY <1>3, <2>1, <2>2, FirstOf
  <2>4. d.secret = FirstNonEmpty(<<given, answers.secret, Fresh>>)
    BY <1>3, <2>1
  <2> QED BY <1>2, <1>6, <2>3, <2>4 DEF StartedWith, d
<1> QED BY <1>5, <1>6

LEMMA TextsInit ==
  ASSUME SetupInit
  PROVE  TextsInv
<1>1. todo \in [Command -> Seq(Operation)]
  BY DEF SetupInit
<1> QED BY <1>1 DEF SetupInit, TextsInv, PlansOK, ConfigOK

LEMMA TextsStep ==
  ASSUME TextsInv, [SetupNext]_setupVars
  PROVE  TextsInv'
<1>0. PlansOK /\ ConfigOK /\ PlansOK' /\ todo \in [Command -> Seq(Operation)]
  BY PlansStep DEF TextsInv, PlansOK
<1>1. ASSUME UNCHANGED <<config, answers>> PROVE ConfigOK'
  BY <1>0, <1>1 DEF ConfigOK
<1>2. ASSUME UNCHANGED daemon PROVE (daemon # Nothing => StartedWith(daemon))'
  BY <1>2 DEF TextsInv, StartedWith
<1>3. ASSUME NEW c \in Command, Commands(c) PROVE TextsInv'
  <2>1. PICK begun : Begin(c, begun)
    BY <1>3, CommandSound
  <2> QED BY <1>0, <1>1, <1>2, <2>1 DEF Begin, TextsInv
<1>4. ASSUME NEW c \in Command,
             Mkdir(c) \/ IgnoreFileWritten(c) \/ GitignoreWritten(c) \/ HookWritten(c)
             \/ SettingsRead(c) \/ SettingsWritten(c) \/ Installed(c)
      PROVE  TextsInv'
  <2>1. UNCHANGED <<config, answers, daemon>>
    BY <1>4 DEF Mkdir, IgnoreFileWritten, GitignoreWritten, HookWritten, SettingsRead,
                SettingsWritten, Installed, setupFiles
  <2> QED BY <1>0, <1>1, <1>2, <2>1 DEF TextsInv
<1>5. ASSUME NEW c \in Command, ConfigWritten(c) PROVE TextsInv'
  <2> DEFINE o == Head(todo[c])
  <2>1. o \in Operation /\ o.do = "config"
    BY <1>0, <1>5, PlanRest DEF ConfigWritten, At
  <2>2. o \in ConfigOps
    BY <2>1, OpKinds
  <2>3. config' = o.text /\ answers' = o.stored /\ UNCHANGED daemon
    BY <1>5 DEF ConfigWritten
  <2> HIDE DEF o
  <2>4. \/ o.stored = Nothing /\ o.text = NoTexts
        \/ \E x \in Secret : o.stored = Stored(x) /\ o.text = Escaped(x)
    BY <2>2 DEF ConfigOps, WriteConfig
  <2>5. ConfigOK'
    BY <2>3, <2>4 DEF ConfigOK, NoTexts, Stored, Escaped
  <2> QED BY <1>0, <1>2, <2>3, <2>5 DEF TextsInv
<1>6. ASSUME NEW c \in Command, DaemonStarted(c) PROVE TextsInv'
  <2>1. /\ UNCHANGED <<config, answers>>
        /\ daemon' = IF daemon = Nothing THEN DaemonOptions(Head(todo[c]).given) ELSE daemon
    BY <1>6 DEF DaemonStarted
  <2>2. StartedWith(DaemonOptions(Head(todo[c]).given))
    BY <1>0, OptionsGood
  <2>3. (daemon # Nothing => StartedWith(daemon))'
    <3>1. StartedWith(daemon')
      BY <2>1, <2>2 DEF TextsInv
    <3> QED BY <3>1 DEF StartedWith
  <2> QED BY <1>0, <1>1, <2>1, <2>3 DEF TextsInv
<1>7. ASSUME NEW c \in Command, Kill(c) PROVE TextsInv'
  <2>1. /\ UNCHANGED daemon
        /\ \/ UNCHANGED <<config, answers>>
           \/ config' = Nothing /\ answers' = Nothing
    BY <1>7 DEF Kill
  <2>2. ConfigOK'
    BY <1>1, <2>1 DEF ConfigOK
  <2> QED BY <1>0, <1>2, <2>1, <2>2 DEF TextsInv
<1>8. CASE StopDaemon
  BY <1>0, <1>1, <1>8 DEF StopDaemon, TextsInv
<1>9. ASSUME UserEditsSettings \/ (\E f \in Touched : UserTouchesHook(f)) \/ UNCHANGED setupVars
      PROVE  TextsInv'
  <2>1. UNCHANGED <<config, answers, daemon>>
    BY <1>9 DEF UserEditsSettings, UserTouchesHook, setupVars
  <2> QED BY <1>0, <1>1, <1>2, <2>1 DEF TextsInv
<1> QED BY <1>3, <1>4, <1>5, <1>6, <1>7, <1>8, <1>9 DEF SetupNext, Commands

LEMMA TextsRead ==
  ASSUME TextsInv
  PROVE  StartsAsSetUp
BY ConfigReads DEF TextsInv, StartsAsSetUp, SecretPrinted, StartedWith

\* A daemon has the room and the secret that setup was given, whatever quotes
\* and backslashes are in them, unless the command line gives another secret;
\* without setup it has derived and new ones.  `mflow secret` prints the secret.
THEOREM RoundTrip == SetupSpec => []StartsAsSetUp
<1>1. SetupInit => TextsInv
  BY TextsInit
<1>2. TextsInv /\ [SetupNext]_setupVars => TextsInv'
  BY TextsStep
<1>3. TextsInv => StartsAsSetUp
  BY TextsRead
<1> QED BY <1>1, <1>2, <1>3, PTL DEF SetupSpec

----------------------------------------------------------------------------
(* What is installed *)

Stays(f, force) == hook'[f] # Nothing /\ (force => hook'[f] = "mflow's")

\* What an installation for h left is not undone by a step.
Kept(h) ==
  /\ \A f \in Range(FilesOf(h)) : \A force \in BOOLEAN : Ready(f, force) => Stays(f, force)
  /\ h = "claude" => (settings.entries > 0 => settings'.entries > 0)

\* A command's plan stays as it was.
LEMMA PlanKept ==
  ASSUME PlansOK, NEW c \in Command, ReadFirst(c), WrittenFirst(c),
         todo'[c] = todo[c], copy'[c] = copy[c], \A h \in Harness : Kept(h)
  PROVE  ReadFirst(c)' /\ WrittenFirst(c)'
<1>1. ReadFirst(c)'
  BY DEF ReadFirst
<1>2. ASSUME NEW j \in DOMAIN todo[c], todo[c][j].do = "installed", todo[c][j].counts
      PROVE  todo[c][j].harness \in Harness /\ todo[c][j].force \in BOOLEAN
  <2>1. todo[c][j] \in Operation
    BY DEF PlansOK
  <2> QED BY <1>2, <2>1, OpKinds
<1>3. ASSUME NEW j \in DOMAIN todo[c], todo[c][j].do = "installed", todo[c][j].counts
      PROVE  /\ \A f \in Range(FilesOf(todo[c][j].harness)) :
                  \/ Stays(f, todo[c][j].force)
                  \/ \E i \in 1..(j - 1) : todo[c][i] = WriteIfAllowed(f, todo[c][j].force)
             /\ todo[c][j].harness = "claude" =>
                  settings'.entries > 0 \/ \E i \in 1..(j - 1) : todo[c][i].do = "write-settings"
  <2> DEFINE h == todo[c][j].harness
             force == todo[c][j].force
  <2>1. h \in Harness /\ force \in BOOLEAN /\ Kept(h)
    BY <1>2, <1>3
  <2>2. /\ \A f \in Range(FilesOf(h)) :
             Ready(f, force) \/ \E i \in 1..(j - 1) : todo[c][i] = WriteIfAllowed(f, force)
        /\ h = "claude" => settings.entries > 0 \/ \E i \in 1..(j - 1) : todo[c][i].do = "write-settings"
    BY <1>3 DEF WrittenFirst
  <2> HIDE DEF h, force
  <2>3. /\ \A f \in Range(FilesOf(h)) :
             Stays(f, force) \/ \E i \in 1..(j - 1) : todo[c][i] = WriteIfAllowed(f, force)
        /\ h = "claude" => settings'.entries > 0 \/ \E i \in 1..(j - 1) : todo[c][i].do = "write-settings"
    BY <2>1, <2>2 DEF Kept
  <2> QED BY <2>3 DEF h, force
<1>4. WrittenFirst(c)'
  BY <1>3 DEF WrittenFirst, Ready, Stays
<1> QED BY <1>1, <1>4

\* A command's plan stays, except that installations for h no longer count.
LEMMA PlanMarked ==
  ASSUME PlansOK, NEW c \in Command, NEW h, ReadFirst(c), WrittenFirst(c), copy'[c] = copy[c],
         DOMAIN todo'[c] = DOMAIN todo[c],
         \A i \in DOMAIN todo[c] : todo'[c][i] = Marked(todo[c][i], h),
         \A g \in Harness \ {h} : Kept(g)
  PROVE  ReadFirst(c)' /\ WrittenFirst(c)'
<1> DEFINE p == todo[c]
           q == todo'[c]
<1>1. p \in Seq(Operation) /\ DOMAIN q = DOMAIN p /\ \A i \in DOMAIN p : q[i] = Marked(p[i], h) /\ p[i] \in Operation
  BY DEF PlansOK
<1>2. ASSUME NEW i \in DOMAIN p
      PROVE  /\ q[i].do = p[i].do /\ (p[i].do # "installed" => q[i] = p[i])
             /\ q[i].do = "installed" /\ q[i].counts =>
                  /\ p[i].counts /\ q[i].harness = p[i].harness /\ q[i].force = p[i].force
                  /\ p[i].harness \in Harness \ {h} /\ p[i].force \in BOOLEAN
  <2>1. p[i].do = "installed" => p[i].harness \in Harness /\ p[i].force \in BOOLEAN
    BY <1>1, OpKinds
  <2> QED BY <1>1, <2>1, MarkedIs
<1>3. \A j \in DOMAIN p : \A i \in 1..(j - 1) : i \in DOMAIN p
  BY <1>1
<1>4. ReadFirst(c)'
  <2>1. ASSUME NEW j \in DOMAIN q, q[j].do = "write-settings"
        PROVE  IF j = 1 THEN copy'[c] # Nothing ELSE q[j - 1].do = "read-settings"
    <3>1. j \in DOMAIN p /\ p[j].do = "write-settings"
      BY <1>1, <1>2, <2>1
    <3>2. IF j = 1 THEN copy[c] # Nothing ELSE p[j - 1].do = "read-settings"
      BY <3>1 DEF ReadFirst
    <3>3. j # 1 => j - 1 \in DOMAIN p
      BY <1>1, <3>1
    <3> QED BY <1>2, <3>2, <3>3
  <2> QED BY <2>1 DEF ReadFirst
<1>5. WrittenFirst(c)'
  <2>1. ASSUME NEW j \in DOMAIN q, q[j].do = "installed", q[j].counts
        PROVE  /\ \A f \in Range(FilesOf(q[j].harness)) :
                    Stays(f, q[j].force) \/ \E i \in 1..(j - 1) : q[i] = WriteIfAllowed(f, q[j].force)
               /\ q[j].harness = "claude" =>
                    settings'.entries > 0 \/ \E i \in 1..(j - 1) : q[i].do = "write-settings"
    <3> DEFINE g == p[j].harness
               force == p[j].force
    <3>1. /\ j \in DOMAIN p /\ p[j].do = "installed" /\ p[j].counts
          /\ q[j].harness = g /\ q[j].force = force /\ g \in Harness \ {h} /\ force \in BOOLEAN
      BY <1>1, <1>2, <2>1
    <3>2. /\ \A f \in Range(FilesOf(g)) :
               Ready(f, force) \/ \E i \in 1..(j - 1) : p[i] = WriteIfAllowed(f, force)
          /\ g = "claude" => settings.entries > 0 \/ \E i \in 1..(j - 1) : p[i].do = "write-settings"
      BY <3>1 DEF WrittenFirst
    <3>3. Kept(g)
      BY <3>1
    <3> HIDE DEF g, force, p, q
    <3>4. ASSUME NEW f \in Range(FilesOf(g))
          PROVE  Stays(f, force) \/ \E i \in 1..(j - 1) : q[i] = WriteIfAllowed(f, force)
      <4>1. CASE Ready(f, force)
        BY <3>1, <3>3, <4>1 DEF Kept
      <4>2. CASE \E i \in 1..(j - 1) : p[i] = WriteIfAllowed(f, force)
        <5>1. PICK i \in 1..(j - 1) : p[i] = WriteIfAllowed(f, force)
          BY <4>2
        <5>2. i \in DOMAIN p /\ p[i].do # "installed"
          BY <1>3, <3>1, <5>1 DEF WriteIfAllowed
        <5>3. q[i] = p[i]
          BY <1>2, <5>2
        <5> QED BY <5>1, <5>3
      <4> QED BY <3>2, <4>1, <4>2
    <3>5. ASSUME g = "claude"
          PROVE  settings'.entries > 0 \/ \E i \in 1..(j - 1) : q[i].do = "write-settings"
      <4>1. CASE settings.entries > 0
        BY <3>3, <3>5, <4>1 DEF Kept
      <4>2. CASE \E i \in 1..(j - 1) : p[i].do = "write-settings"
        <5>1. PICK i \in 1..(j - 1) : p[i].do = "write-settings"
          BY <4>2
        <5> QED BY <1>2, <1>3, <3>1, <5>1
      <4> QED BY <3>2, <3>5, <4>1, <4>2
    <3> QED BY <3>1, <3>4, <3>5
  <2> QED BY <2>1 DEF WrittenFirst, Ready, Stays
<1> QED BY <1>4, <1>5

\* A command carries out the first operation of its plan.
LEMMA PlanGoesOn ==
  ASSUME PlansOK, NEW c \in Command, ReadFirst(c), WrittenFirst(c), GoesOn(c),
         todo[c][1].do = "read-settings" => copy'[c] # Nothing,
         todo[c][1].do = "write-settings" => settings'.entries > 0,
         \A f \in HookFile : \A force \in BOOLEAN :
           todo[c][1] = WriteIfAllowed(f, force) => Stays(f, force),
         \A h \in Harness : Kept(h)
  PROVE  ReadFirst(c)' /\ WrittenFirst(c)'
<1> DEFINE p == todo[c]
           q == todo'[c]
           n == Len(p) - 1
<1>1. p \in Seq(Operation) /\ p # <<>> /\ q = Tail(p)
  BY DEF PlansOK, GoesOn
<1>2. /\ n \in Nat /\ Len(q) = n /\ q \in Seq(Operation) /\ DOMAIN q = 1..n /\ DOMAIN p = 1..(n + 1)
      /\ \A i \in 1..n : q[i] = p[i + 1]
  <2> HIDE DEF p, q
  <2> QED BY <1>1
<1> HIDE DEF n
<1>3. ReadFirst(c)'
  <2>1. ASSUME NEW j \in 1..n, q[j].do = "write-settings"
        PROVE  IF j = 1 THEN copy'[c] # Nothing ELSE q[j - 1].do = "read-settings"
    <3>1. j + 1 \in DOMAIN p /\ p[j + 1].do = "write-settings" /\ j + 1 # 1 /\ (j + 1) - 1 = j
      BY <1>2, <2>1
    <3>2. p[j].do = "read-settings"
      BY <3>1 DEF ReadFirst
    <3>3. ASSUME j # 1 PROVE q[j - 1] = p[j]
      <4>1. j - 1 \in 1..n /\ (j - 1) + 1 = j
        BY <1>2, <3>3
      <4> HIDE DEF p, q
      <4>2. q[j - 1] = p[(j - 1) + 1]
        BY <1>2, <4>1
      <4> QED BY <4>1, <4>2
    <3> QED BY <3>2, <3>3
  <2> QED BY <1>2, <2>1 DEF ReadFirst
<1>4. WrittenFirst(c)'
  <2>1. ASSUME NEW j \in 1..n, q[j].do = "installed", q[j].counts
        PROVE  /\ \A f \in Range(FilesOf(q[j].harness)) :
                    Stays(f, q[j].force) \/ \E i \in 1..(j - 1) : q[i] = WriteIfAllowed(f, q[j].force)
               /\ q[j].harness = "claude" =>
                    settings'.entries > 0 \/ \E i \in 1..(j - 1) : q[i].do = "write-settings"
    <3> DEFINE g == q[j].harness
               force == q[j].force
    <3>1. q[j] = p[j + 1] /\ j + 1 \in DOMAIN p /\ (j + 1) - 1 = j
      <4> HIDE DEF p, q
      <4> QED BY <1>2
    <3>2. g \in Harness /\ force \in BOOLEAN
      <4>1. q[j] \in Operation
        BY <1>2
      <4> QED BY <2>1, <4>1, OpKinds
    <3>3. /\ \A f \in Range(FilesOf(g)) :
               Ready(f, force) \/ \E i \in 1..j : p[i] = WriteIfAllowed(f, force)
          /\ g = "claude" => settings.entries > 0 \/ \E i \in 1..j : p[i].do = "write-settings"
      BY <2>1, <3>1 DEF WrittenFirst
    <3>4. Kept(g)
      BY <3>2
    <3>5. \A i \in 1..j : i = 1 \/ (i - 1 \in 1..(j - 1) /\ q[i - 1] = p[i])
      <4> SUFFICES ASSUME NEW i \in 1..j, i # 1 PROVE i - 1 \in 1..(j - 1) /\ q[i - 1] = p[i]
        OBVIOUS
      <4>1. i - 1 \in 1..(j - 1) /\ i - 1 \in 1..n /\ (i - 1) + 1 = i
        BY <1>2
      <4> HIDE DEF p, q, n
      <4> QED BY <1>2, <4>1
    <3>6. \A f \in Range(FilesOf(g)) : f \in HookFile
      BY <3>2, FilesAre
    <3> HIDE DEF g, force, p, q
    <3>7. ASSUME NEW f \in Range(FilesOf(g))
          PROVE  Stays(f, force) \/ \E i \in 1..(j - 1) : q[i] = WriteIfAllowed(f, force)
      <4>1. CASE Ready(f, force)
        BY <3>2, <3>4, <4>1 DEF Kept
      <4>2. CASE \E i \in 1..j : p[i] = WriteIfAllowed(f, force)
        <5>1. PICK i \in 1..j : p[i] = WriteIfAllowed(f, force)
          BY <4>2
        <5>2. CASE i = 1
          BY <3>2, <3>6, <5>1, <5>2 DEF p
        <5>3. CASE i # 1
          BY <3>5, <5>1, <5>3
        <5> QED BY <5>2, <5>3
      <4> QED BY <3>3, <4>1, <4>2
    <3>8. ASSUME g = "claude"
          PROVE  settings'.entries > 0 \/ \E i \in 1..(j - 1) : q[i].do = "write-settings"
      <4>1. CASE settings.entries > 0
        BY <3>4, <3>8, <4>1 DEF Kept
      <4>2. CASE \E i \in 1..j : p[i].do = "write-settings"
        <5>1. PICK i \in 1..j : p[i].do = "write-settings"
          BY <4>2
        <5>2. CASE i = 1
          BY <5>1, <5>2 DEF p
        <5>3. CASE i # 1
          BY <3>5, <5>1, <5>3
        <5> QED BY <5>2, <5>3
      <4> QED BY <3>3, <3>8, <4>1, <4>2
    <3> QED BY <3>7, <3>8 DEF g, force
  <2> QED BY <1>2, <2>1 DEF WrittenFirst, Ready, Stays
<1> QED BY <1>3, <1>4

LEMMA PlanBegun ==
  ASSUME PlansOK, NEW c \in Command, NEW begun, Sound(begun), Begun(c, begun)
  PROVE  ReadFirst(c)' /\ WrittenFirst(c)'
<1>1. todo'[c] = begun
  BY DEF PlansOK, Begun
<1>2. \A j \in DOMAIN begun : Prepared(begun, j)
  BY DEF Sound
<1>3. ReadFirst(c)'
  BY <1>1, <1>2 DEF Prepared, ReadFirst
<1>4. WrittenFirst(c)'
  BY <1>1, <1>2 DEF Prepared, WrittenFirst
<1> QED BY <1>3, <1>4

LEMMA PlanDropped ==
  ASSUME NEW c \in Command, todo'[c] = <<>>
  PROVE  ReadFirst(c)' /\ WrittenFirst(c)'
BY DEF ReadFirst, WrittenFirst

LEMMA InstalledKept ==
  ASSUME InstalledOK, installed' \subseteq installed, \A x \in installed' : Kept(x[1])
  PROVE  InstalledOK'
<1>1. ASSUME NEW x \in installed'
      PROVE  /\ x \in Harness \X BOOLEAN
             /\ \A f \in Range(FilesOf(x[1])) : Stays(f, x[2])
             /\ x[1] = "claude" => settings'.entries > 0
  <2>1. /\ x \in Harness \X BOOLEAN
        /\ \A f \in Range(FilesOf(x[1])) : Ready(f, x[2])
        /\ x[1] = "claude" => settings.entries > 0
    BY <1>1 DEF InstalledOK
  <2>2. x[2] \in BOOLEAN /\ Kept(x[1])
    BY <1>1, <2>1
  <2> QED BY <2>1, <2>2 DEF Kept
<1> QED BY <1>1 DEF InstalledOK, Ready, Stays

LEMMA HarnessIs ==
  ASSUME NEW f \in HookFile
  PROVE  /\ HarnessOf(f) \in Harness /\ f \in Range(FilesOf(HarnessOf(f)))
         /\ \A h \in Harness \ {HarnessOf(f)} : f \notin Range(FilesOf(h))
<1>1. \E h \in Harness : f \in Range(FilesOf(h))
  BY DEF HookFile
<1>2. HarnessOf(f) \in Harness /\ f \in Range(FilesOf(HarnessOf(f)))
  <2> DEFINE H == HarnessOf(f)
  <2>1. H = CHOOSE h \in Harness : f \in Range(FilesOf(h))
    BY DEF HarnessOf
  <2> HIDE DEF H
  <2>2. H \in Harness /\ f \in Range(FilesOf(H))
    BY <1>1, <2>1
  <2> QED BY <2>2 DEF H
<1>3. /\ Range(FilesOf("claude")) = {"mflow-lock.mjs"}
      /\ Range(FilesOf("opencode")) = {"opencode/mflow-lock.js"}
      /\ Range(FilesOf("codex")) = {"mflow-pre-edit.sh", "mflow-agent-prompt.md", "mflow-hook.example.toml"}
      /\ Range(FilesOf("mendcode")) = {"mendcode/mflow-lock.js", "mflow-control.md", "mcp.mflow.example.json"}
  <2>1. /\ FilesOf("claude") = <<"mflow-lock.mjs">>
        /\ FilesOf("opencode") = <<"opencode/mflow-lock.js">>
        /\ FilesOf("codex") = <<"mflow-pre-edit.sh", "mflow-agent-prompt.md", "mflow-hook.example.toml">>
        /\ FilesOf("mendcode") = <<"mendcode/mflow-lock.js", "mflow-control.md", "mcp.mflow.example.json">>
    BY DEF FilesOf
  <2>2. \A x : Range(<<x>>) = {x}
    BY DEF Range
  <2>3. \A x, y, z : Range(<<x, y, z>>) = {x, y, z}
    <3> SUFFICES ASSUME NEW x, NEW y, NEW z PROVE Range(<<x, y, z>>) = {x, y, z}
      OBVIOUS
    <3> DEFINE t == <<x, y, z>>
    <3>1. DOMAIN t = {1, 2, 3} /\ t[1] = x /\ t[2] = y /\ t[3] = z
      OBVIOUS
    <3> HIDE DEF t
    <3>2. Range(t) = {x, y, z}
      BY <3>1 DEF Range
    <3> QED BY <3>2 DEF t
  <2> QED BY <2>1, <2>2, <2>3
<1>4. \A g, h \in Harness : g # h => Range(FilesOf(g)) \cap Range(FilesOf(h)) = {}
  BY <1>3 DEF Harness
<1> QED BY <1>2, <1>4

\* A file that is replaced does not change what other harnesses have.
LEMMA OthersKept ==
  ASSUME HooksOK, NEW f \in HookFile, NEW new, hook' = [hook EXCEPT ![f] = new], UNCHANGED settings,
         NEW h \in Harness \ {HarnessOf(f)}
  PROVE  Kept(h)
<1>1. ASSUME NEW g \in Range(FilesOf(h)) PROVE hook'[g] = hook[g]
  <2>1. g \in HookFile /\ g # f
    BY FilesAre, HarnessIs
  <2> QED BY <2>1 DEF HooksOK
<1> QED BY <1>1 DEF Kept, Ready, Stays

LEMMA NothingKept ==
  ASSUME UNCHANGED hook, settings.entries > 0 => settings'.entries > 0, NEW h
  PROVE  Kept(h)
BY DEF Kept, Ready, Stays

LEMMA HooksInit ==
  ASSUME SetupInit
  PROVE  HooksInv
<1>1. PlansOK /\ \A c \in Command : todo[c] = <<>>
  BY DEF SetupInit, PlansOK
<1>2. HooksOK /\ InstalledOK
  BY SetupAssumption DEF SetupInit, HooksOK, InstalledOK
<1>3. NoSettings \in Settings /\ NoSettings.own = {} /\ NoSettings.entries = 0 /\ NoSettings.cut = FALSE
  BY DEF NoSettings, Settings
<1>4. SettingsOK
  <2>1. 1..0 = {}
    OBVIOUS
  <2>2. /\ edits = 0 /\ spoiled = FALSE /\ settings = NoSettings
        /\ copy = [c \in Command |-> Nothing]
    BY DEF SetupInit
  <2>3. Holds(settings)
    BY <1>3, <2>1, <2>2 DEF Holds
  <2> QED BY <1>3, <2>2, <2>3 DEF SettingsOK
<1> QED BY <1>1, <1>2, <1>4 DEF HooksInv, ReadFirst, WrittenFirst

\* What HooksInv says of the installed files and of the settings suffices.
LEMMA HooksRead ==
  ASSUME HooksInv
  PROVE  HooksInstalled
<1>1. settings.entries <= 1 /\ (~spoiled => settings.own = 1..edits)
  BY DEF HooksInv, SettingsOK, Holds
<1>2. ASSUME NEW x \in installed
      PROVE  /\ HookStatus(x[1]) \/ (x = <<"mendcode", FALSE>> /\ There("mendcode"))
             /\ x[2] => \A f \in Range(FilesOf(x[1])) : hook[f] = "mflow's"
  <2>1. /\ x \in Harness \X BOOLEAN
        /\ \A f \in Range(FilesOf(x[1])) : hook[f] # Nothing /\ (x[2] => hook[f] = "mflow's")
        /\ x[1] = "claude" => settings.entries > 0
    BY DEF HooksInv, InstalledOK, Ready
  <2>2. There(x[1])
    BY <2>1 DEF There
  <2>3. "mcp.mflow.example.json" \in Range(FilesOf("mendcode"))
    <3> DEFINE t == <<"mendcode/mflow-lock.js", "mflow-control.md", "mcp.mflow.example.json">>
    <3>1. 3 \in DOMAIN t /\ t[3] = "mcp.mflow.example.json" /\ FilesOf("mendcode") = t
      BY DEF FilesOf
    <3> HIDE DEF t
    <3> QED BY <3>1 DEF Range
  <2>4. CASE x[2]
    BY <2>1, <2>2, <2>3, <2>4 DEF HookStatus
  <2>5. CASE ~x[2] /\ x[1] = "mendcode"
    <3>1. x = <<x[1], x[2]>> /\ x[2] = FALSE
      BY <2>1, <2>5
    <3> QED BY <2>1, <2>2, <2>5, <3>1
  <2>6. CASE ~x[2] /\ x[1] # "mendcode"
    BY <2>1, <2>2, <2>6 DEF HookStatus
  <2> QED BY <2>4, <2>5, <2>6
<1> QED BY <1>1, <1>2 DEF HooksInstalled

\* One step of a command that carries out the first operation of its plan.
LEMMA OthersGoOn ==
  ASSUME HooksInv, NEW c \in Command, \A h \in Harness : Kept(h),
         \/ GoesOn(c) \/ GivenUp(c) \/ (\E begun : Begun(c, begun)),
         \A o \in Command \ {c} : copy'[o] = copy[o],
         ReadFirst(c)' /\ WrittenFirst(c)'
  PROVE  \A o \in Command : ReadFirst(o)' /\ WrittenFirst(o)'
<1>1. ASSUME NEW o \in Command \ {c} PROVE ReadFirst(o)' /\ WrittenFirst(o)'
  <2>1. todo'[o] = todo[o]
    BY DEF HooksInv, PlansOK, GoesOn, GivenUp, Begun
  <2>2. PlansOK /\ ReadFirst(o) /\ WrittenFirst(o) /\ copy'[o] = copy[o]
    BY DEF HooksInv
  <2> QED BY <2>1, <2>2, PlanKept
<1> QED BY <1>1

\* What a step leaves alone.
LEMMA SettingsStay ==
  ASSUME SettingsOK, UNCHANGED <<settings, copy, edits>>, spoiled' \in BOOLEAN, spoiled => spoiled'
  PROVE  SettingsOK'
BY DEF SettingsOK, Holds

LEMMA HooksStep ==
  ASSUME HooksInv, [SetupNext]_setupVars
  PROVE  HooksInv'
<1>0. /\ PlansOK /\ PlansOK' /\ HooksOK /\ SettingsOK /\ InstalledOK
      /\ \A c \in Command : ReadFirst(c) /\ WrittenFirst(c)
  BY PlansStep DEF HooksInv
<1>1. ASSUME UNCHANGED hook PROVE HooksOK'
  BY <1>0, <1>1 DEF HooksOK
<1>2. ASSUME UNCHANGED <<settings, copy, edits, spoiled>> PROVE SettingsOK'
  BY <1>0, <1>2, SettingsStay DEF SettingsOK
<1>3. ASSUME UNCHANGED <<hook, settings>> PROVE \A h \in Harness : Kept(h)
  BY <1>3, NothingKept
<1>4. ASSUME UNCHANGED installed, \A h \in Harness : Kept(h) PROVE InstalledOK'
  <2>1. \A x \in installed' : Kept(x[1])
    BY <1>0, <1>4 DEF InstalledOK
  <2> QED BY <1>0, <1>4, <2>1, InstalledKept
<1>5. ASSUME NEW c \in Command, GoesOn(c)
      PROVE  /\ todo[c] \in Seq(Operation) /\ todo[c] # <<>> /\ Head(todo[c]) = todo[c][1]
             /\ todo[c][1] \in Operation /\ 1 \in DOMAIN todo[c]
  BY <1>0, <1>5, PlanRest DEF GoesOn, PlansOK
<1>6. ASSUME NEW c \in Command, Commands(c) PROVE HooksInv'
  <2>1. PICK begun : Sound(begun) /\ Begin(c, begun)
    BY <1>6, CommandSound
  <2>2. UNCHANGED <<hook, settings, copy, edits, spoiled, installed>> /\ Begun(c, begun)
    BY <2>1 DEF Begin, Begun
  <2>3. \A h \in Harness : Kept(h)
    BY <1>3, <2>2
  <2>4. ReadFirst(c)' /\ WrittenFirst(c)'
    BY <1>0, <2>1, <2>2, PlanBegun
  <2>5. \A o \in Command : ReadFirst(o)' /\ WrittenFirst(o)'
    BY <2>2, <2>3, <2>4, OthersGoOn
  <2> QED BY <1>0, <1>1, <1>2, <1>4, <2>2, <2>3, <2>5 DEF HooksInv
<1>7. ASSUME NEW c \in Command,
             Mkdir(c) \/ ConfigWritten(c) \/ IgnoreFileWritten(c) \/ GitignoreWritten(c) \/ DaemonStarted(c)
      PROVE  HooksInv'
  <2>1. /\ UNCHANGED <<hook, settings, copy, edits, spoiled, installed>> /\ GoesOn(c)
        /\ Head(todo[c]).do \notin {"hook", "read-settings", "write-settings"}
    BY <1>7 DEF Mkdir, ConfigWritten, IgnoreFileWritten, GitignoreWritten, DaemonStarted,
                At, Done, GoesOn, pastVars
  <2>2. \A h \in Harness : Kept(h)
    BY <1>3, <2>1
  <2>3. todo[c][1].do \notin {"hook", "read-settings", "write-settings"}
    BY <1>5, <2>1
  <2>4. \A f, force : todo[c][1] # WriteIfAllowed(f, force)
    BY <2>3 DEF WriteIfAllowed
  <2>5. ReadFirst(c)' /\ WrittenFirst(c)'
    BY <1>0, <2>1, <2>2, <2>3, <2>4, PlanGoesOn
  <2>6. \A o \in Command : ReadFirst(o)' /\ WrittenFirst(o)'
    BY <2>1, <2>2, <2>5, OthersGoOn
  <2> QED BY <1>0, <1>1, <1>2, <1>4, <2>1, <2>2, <2>6 DEF HooksInv
<1>8. ASSUME NEW c \in Command, HookWritten(c) PROVE HooksInv'
  <2> DEFINE o == Head(todo[c])
  <2>1. /\ UNCHANGED <<settings, copy, edits, spoiled, installed>> /\ GoesOn(c) /\ o.do = "hook"
        /\ hook' = IF hook[o.file] # Nothing /\ ~o.force THEN hook
                   ELSE [hook EXCEPT ![o.file] = "mflow's"]
    BY <1>8 DEF HookWritten, At, Done, GoesOn, pastVars
  <2>2. o \in [do : {"hook"}, file : HookFile, force : BOOLEAN] /\ o = todo[c][1]
    BY <1>5, <2>1, OpKinds
  <2> HIDE DEF o
  <2>3. HooksOK'
    BY <1>0, <2>1, <2>2 DEF HooksOK
  <2>4. ASSUME NEW f \in HookFile, NEW force \in BOOLEAN, Ready(f, force) PROVE Stays(f, force)
    BY <1>0, <2>1, <2>2, <2>4, SetupAssumption DEF HooksOK, Ready, Stays
  <2>5. ASSUME NEW h \in Harness PROVE Kept(h)
    <3>1. Range(FilesOf(h)) \subseteq HookFile
      BY FilesAre
    <3> QED BY <2>1, <2>4, <3>1 DEF Kept
  <2>6. ASSUME NEW f \in HookFile, NEW force \in BOOLEAN, o = WriteIfAllowed(f, force)
        PROVE  Stays(f, force)
    <3>1. o.file = f /\ o.force = force
      BY <2>6 DEF WriteIfAllowed
    <3> QED BY <1>0, <2>1, <3>1, SetupAssumption DEF HooksOK, Stays
  <2>7. ReadFirst(c)' /\ WrittenFirst(c)'
    BY <1>0, <2>1, <2>2, <2>5, <2>6, PlanGoesOn
  <2>8. \A e \in Command : ReadFirst(e)' /\ WrittenFirst(e)'
    BY <2>1, <2>5, <2>7, OthersGoOn
  <2> QED BY <1>0, <1>2, <1>4, <2>1, <2>3, <2>5, <2>8 DEF HooksInv
<1>9. ASSUME NEW c \in Command, SettingsRead(c) PROVE HooksInv'
  <2>1. /\ UNCHANGED <<hook, settings, edits, spoiled, installed>> /\ At(c, "read-settings")
        /\ \/ GoesOn(c) /\ copy' = [copy EXCEPT ![c] = IF settings.cut THEN NoSettings ELSE settings]
           \/ GivenUp(c) /\ UNCHANGED copy
    BY <1>9 DEF SettingsRead, At, Done, GoesOn, GivenUp, pastVars
  <2>2. \A h \in Harness : Kept(h)
    BY <1>3, <2>1
  <2>3. CASE GivenUp(c) /\ UNCHANGED copy
    <3>1. todo'[c] = <<>>
      BY <1>0, <2>3 DEF GivenUp, PlansOK
    <3>2. ReadFirst(c)' /\ WrittenFirst(c)'
      BY <3>1, PlanDropped
    <3>3. \A e \in Command : ReadFirst(e)' /\ WrittenFirst(e)'
      BY <2>2, <2>3, <3>2, OthersGoOn
    <3> QED BY <1>0, <1>1, <1>2, <1>4, <2>1, <2>2, <2>3, <3>3 DEF HooksInv
  <2>4. CASE GoesOn(c) /\ copy' = [copy EXCEPT ![c] = IF settings.cut THEN NoSettings ELSE settings]
    <3> DEFINE new == IF settings.cut THEN NoSettings ELSE settings
    <3>1. new \in Settings /\ Holds(new) /\ ~new.cut
      <4>1. CASE settings.cut
        <5>1. new = NoSettings /\ spoiled
          BY <1>0, <4>1 DEF SettingsOK
        <5>2. NoSettings \in Settings /\ NoSettings.entries = 0 /\ ~NoSettings.cut
          BY DEF NoSettings, Settings
        <5> QED BY <5>1, <5>2 DEF Holds
      <4>2. CASE ~settings.cut
        <5>1. new = settings
          BY <4>2
        <5> QED BY <1>0, <4>2, <5>1 DEF SettingsOK, Holds
      <4> QED BY <4>1, <4>2
    <3>2. new # Nothing
      BY <3>1, SetupAssumption
    <3>3. copy' = [copy EXCEPT ![c] = new]
      BY <2>4
    <3> HIDE DEF new
    <3>4. copy'[c] = new /\ \A e \in Command \ {c} : copy'[e] = copy[e]
      BY <1>0, <3>3 DEF SettingsOK
    <3>5. SettingsOK'
      <4>1. copy' \in [Command -> {Nothing} \cup Settings]
        BY <1>0, <3>1, <3>3 DEF SettingsOK
      <4>2. ASSUME NEW e \in Command, copy'[e] # Nothing PROVE Holds(copy'[e]) /\ ~copy'[e].cut
        BY <1>0, <3>1, <3>4, <4>2 DEF SettingsOK
      <4> QED BY <1>0, <2>1, <4>1, <4>2 DEF SettingsOK, Holds
    <3>6. todo[c][1].do = "read-settings"
      BY <1>5, <2>1, <2>4 DEF At
    <3>7. \A f, force : todo[c][1] # WriteIfAllowed(f, force)
      BY <3>6 DEF WriteIfAllowed
    <3>8. ReadFirst(c)' /\ WrittenFirst(c)'
      BY <1>0, <2>2, <2>4, <3>2, <3>4, <3>6, <3>7, PlanGoesOn
    <3>9. \A e \in Command : ReadFirst(e)' /\ WrittenFirst(e)'
      BY <2>2, <2>4, <3>4, <3>8, OthersGoOn
    <3> QED BY <1>0, <1>1, <1>4, <2>1, <2>2, <3>5, <3>9 DEF HooksInv
  <2> QED BY <2>1, <2>3, <2>4
<1>10. ASSUME NEW c \in Command, SettingsWritten(c) PROVE HooksInv'
  <2>1. /\ UNCHANGED <<hook, edits, spoiled, installed>> /\ GoesOn(c) /\ At(c, "write-settings")
        /\ settings' = EntryAdded(copy[c]) /\ copy' = [copy EXCEPT ![c] = Nothing]
    BY <1>10 DEF SettingsWritten, At, Done, GoesOn, pastVars
  <2>2. todo[c][1].do = "write-settings" /\ 1 \in DOMAIN todo[c]
    BY <1>5, <2>1 DEF At
  <2>3. copy[c] # Nothing
    BY <1>0, <2>2 DEF ReadFirst
  <2>4. Holds(copy[c]) /\ ~copy[c].cut
    BY <1>0, <2>3 DEF SettingsOK
  <2>5. /\ settings' \in Settings /\ settings'.entries = 1 /\ settings'.own = copy[c].own
        /\ settings'.cut = FALSE
    <3> DEFINE old == copy[c]
    <3>1. old \in Settings /\ old.entries <= 1 /\ old.cut = FALSE /\ settings' = EntryAdded(old)
      BY <2>1, <2>4 DEF Holds, Settings
    <3> HIDE DEF old
    <3>2. settings' = IF old.entries > 0 THEN old ELSE [old EXCEPT !.entries = 1]
      BY <3>1 DEF EntryAdded
    <3>3. old.entries \in Nat /\ 1 \in Nat
      BY <3>1 DEF Settings
    <3>4. settings' \in Settings /\ settings'.entries = 1 /\ settings'.own = old.own /\ settings'.cut = FALSE
      BY <3>1, <3>2, <3>3 DEF Settings
    <3> QED BY <3>4 DEF old
  <2>6. ASSUME NEW h \in Harness PROVE Kept(h)
    <3>1. settings'.entries > 0
      BY <2>5
    <3> QED BY <2>1, <3>1, NothingKept
  <2>7. \A e \in Command \ {c} : copy'[e] = copy[e]
    BY <1>0, <2>1 DEF SettingsOK
  <2>8. SettingsOK'
    <3>1. copy' \in [Command -> {Nothing} \cup Settings] /\ copy'[c] = Nothing
      BY <1>0, <2>1 DEF SettingsOK
    <3>2. ASSUME NEW e \in Command, copy'[e] # Nothing PROVE Holds(copy[e])' /\ ~copy'[e].cut
      <4>1. Holds(copy[e]) /\ ~copy[e].cut /\ copy'[e] = copy[e]
        BY <1>0, <2>7, <3>1, <3>2 DEF SettingsOK
      <4> QED BY <2>1, <4>1 DEF Holds
    <3>3. Holds(settings)'
      BY <2>1, <2>4, <2>5 DEF Holds
    <3> QED BY <1>0, <2>1, <2>5, <3>1, <3>2, <3>3 DEF SettingsOK
  <2>9. \A f, force : todo[c][1] # WriteIfAllowed(f, force)
    BY <2>2 DEF WriteIfAllowed
  <2>10. settings'.entries > 0
    BY <2>5
  <2>11. ReadFirst(c)' /\ WrittenFirst(c)'
    BY <1>0, <2>1, <2>2, <2>6, <2>9, <2>10, PlanGoesOn
  <2>12. \A e \in Command : ReadFirst(e)' /\ WrittenFirst(e)'
    BY <2>1, <2>6, <2>7, <2>11, OthersGoOn
  <2> QED BY <1>0, <1>1, <1>4, <2>1, <2>6, <2>8, <2>12 DEF HooksInv
<1>11. ASSUME NEW c \in Command, Installed(c) PROVE HooksInv'
  <2> DEFINE o == Head(todo[c])
  <2>1. /\ UNCHANGED <<hook, settings, copy, edits, spoiled>> /\ GoesOn(c) /\ o.do = "installed"
        /\ installed' = installed \cup (IF o.counts THEN {<<o.harness, o.force>>} ELSE {})
    BY <1>11 DEF Installed, At, Done, GoesOn, setupFiles, pastVars
  <2>2. /\ o \in [do : {"installed"}, harness : Harness, force : BOOLEAN, counts : BOOLEAN]
        /\ o = todo[c][1] /\ 1 \in DOMAIN todo[c]
    BY <1>5, <2>1, OpKinds
  <2> HIDE DEF o
  <2>3. \A h \in Harness : Kept(h)
    BY <1>3, <2>1
  <2>4. \A f, force : todo[c][1] # WriteIfAllowed(f, force)
    BY <2>1, <2>2 DEF WriteIfAllowed
  <2>5. ReadFirst(c)' /\ WrittenFirst(c)'
    BY <1>0, <2>1, <2>2, <2>3, <2>4, PlanGoesOn
  <2>6. \A e \in Command : ReadFirst(e)' /\ WrittenFirst(e)'
    BY <2>1, <2>3, <2>5, OthersGoOn
  <2>7. ASSUME o.counts
        PROVE  /\ \A f \in Range(FilesOf(o.harness)) : Ready(f, o.force)
               /\ o.harness = "claude" => settings.entries > 0
    <3>1. /\ \A f \in Range(FilesOf(o.harness)) :
               Ready(f, o.force) \/ \E i \in 1..(1 - 1) : todo[c][i] = WriteIfAllowed(f, o.force)
          /\ o.harness = "claude" =>
               settings.entries > 0 \/ \E i \in 1..(1 - 1) : todo[c][i].do = "write-settings"
      BY <1>0, <2>1, <2>2, <2>7 DEF WrittenFirst
    <3> QED BY <3>1
  <2>8. InstalledOK'
    <3>1. ASSUME NEW x \in installed'
          PROVE  /\ x \in Harness \X BOOLEAN
                 /\ \A f \in Range(FilesOf(x[1])) : Ready(f, x[2])
                 /\ x[1] = "claude" => settings.entries > 0
      <4>1. CASE x \in installed
        BY <1>0, <4>1 DEF InstalledOK
      <4>2. CASE x \notin installed
        <5>1. o.counts /\ x = <<o.harness, o.force>>
          BY <2>1, <3>1, <4>2
        <5>2. x \in Harness \X BOOLEAN /\ x[1] = o.harness /\ x[2] = o.force
          BY <2>2, <5>1
        <5> QED BY <2>7, <5>1, <5>2
      <4> QED BY <4>1, <4>2
    <3> QED BY <2>1, <3>1 DEF InstalledOK, Ready
  <2> QED BY <1>0, <1>1, <1>2, <2>1, <2>6, <2>8 DEF HooksInv
<1>12. ASSUME NEW f \in HookFile, NEW new \in {Nothing, "cut", "mflow's", "user's"},
              hook' = [hook EXCEPT ![f] = new], UNCHANGED settings,
              NEW left \in [Command -> Seq(Operation)], Disturb(HarnessOf(f), left),
              \A e \in Command : left[e] = <<>> \/ (left[e] = todo[e] /\ copy'[e] = copy[e])
       PROVE  /\ HooksOK' /\ InstalledOK'
              /\ \A e \in Command : ReadFirst(e)' /\ WrittenFirst(e)'
  <2> DEFINE h == HarnessOf(f)
  <2>1. \A g \in Harness \ {h} : Kept(g)
    BY <1>0, <1>12, OthersKept
  <2>2. HooksOK'
    BY <1>0, <1>12 DEF HooksOK
  <2>3. installed' = {x \in installed : x[1] # h}
    BY <1>12 DEF Disturb
  <2>4. Disturb(h, left)
    BY <1>12
  <2> HIDE DEF h
  <2>5. InstalledOK'
    <3>1. \A x \in installed' : Kept(x[1])
      BY <1>0, <2>1, <2>3 DEF InstalledOK
    <3> QED BY <1>0, <2>3, <3>1, InstalledKept
  <2>6. ASSUME NEW e \in Command PROVE ReadFirst(e)' /\ WrittenFirst(e)'
    <3>1. DOMAIN todo'[e] = DOMAIN left[e] /\ \A i \in DOMAIN left[e] : todo'[e][i] = Marked(left[e][i], h)
      BY <1>12, <2>4, Disturbed
    <3>2. CASE left[e] = <<>>
      <4>1. DOMAIN todo'[e] = {}
        BY <3>1, <3>2
      <4> QED BY <4>1 DEF ReadFirst, WrittenFirst
    <3>3. CASE left[e] = todo[e] /\ copy'[e] = copy[e]
      BY <1>0, <2>1, <3>1, <3>3, PlanMarked
    <3> QED BY <1>12, <3>2, <3>3
  <2> QED BY <2>2, <2>5, <2>6
<1>13. ASSUME NEW f \in Touched, UserTouchesHook(f) PROVE HooksInv'
  <2>1. /\ UNCHANGED <<settings, copy, edits, spoiled>> /\ Disturb(HarnessOf(f), todo)
        /\ f \in HookFile
        /\ \E new \in {Nothing, "user's"} : hook' = [hook EXCEPT ![f] = new]
    BY <1>13, SetupAssumption DEF UserTouchesHook
  <2>2. todo \in [Command -> Seq(Operation)]
    BY <1>0 DEF PlansOK
  <2>3. HooksOK' /\ InstalledOK' /\ \A e \in Command : ReadFirst(e)' /\ WrittenFirst(e)'
    BY <1>12, <2>1, <2>2
  <2> QED BY <1>0, <1>2, <2>1, <2>3 DEF HooksInv
<1>14. ASSUME NEW c \in Command, Kill(c) PROVE HooksInv'
  <2> DEFINE o == Head(todo[c])
             left == [todo EXCEPT ![c] = <<>>]
             writes == At(c, "hook") /\ (hook[o.file] = Nothing \/ o.force)
  <2>1. /\ todo[c] # <<>> /\ copy' = [copy EXCEPT ![c] = Nothing] /\ UNCHANGED edits
        /\ hook' = IF writes THEN [hook EXCEPT ![o.file] = "cut"] ELSE hook
        /\ IF writes THEN Disturb(HarnessOf(o.file), left)
           ELSE IF At(c, "write-settings") THEN Disturb("claude", left)
           ELSE todo' = left /\ UNCHANGED installed
        /\ settings' = IF At(c, "write-settings") THEN [NoSettings EXCEPT !.cut = TRUE] ELSE settings
        /\ spoiled' = (spoiled \/ At(c, "write-settings"))
    BY <1>14 DEF Kill
  <2>2. o = todo[c][1] /\ o \in Operation /\ todo[c] \in Seq(Operation)
    BY <1>0, <2>1, PlanRest DEF PlansOK
  <2>3. /\ left \in [Command -> Seq(Operation)] /\ left[c] = <<>>
        /\ \A e \in Command \ {c} : left[e] = todo[e] /\ copy'[e] = copy[e]
    BY <1>0, <2>1 DEF PlansOK, SettingsOK
  <2>4. At(c, "hook") => ~At(c, "write-settings")
    BY DEF At
  <2>5. SettingsOK'
    <3>1. copy' \in [Command -> {Nothing} \cup Settings] /\ copy'[c] = Nothing
      BY <1>0, <2>1 DEF SettingsOK
    <3>2. Holds(settings)' /\ (~spoiled' => ~settings'.cut)
      <4>1. CASE At(c, "write-settings")
        <5> DEFINE cut == [NoSettings EXCEPT !.cut = TRUE]
        <5>1. cut \in Settings /\ cut.entries = 0
          BY DEF NoSettings, Settings
        <5>2. settings' = cut /\ spoiled'
          BY <2>1, <4>1
        <5> HIDE DEF cut
        <5> QED BY <5>1, <5>2 DEF Holds
      <4>2. CASE ~At(c, "write-settings")
        <5>1. settings' = settings /\ spoiled' = spoiled
          BY <1>0, <2>1, <4>2 DEF SettingsOK
        <5> QED BY <1>0, <2>1, <5>1 DEF SettingsOK, Holds
      <4> QED BY <4>1, <4>2
    <3>3. ASSUME NEW e \in Command, copy'[e] # Nothing PROVE Holds(copy[e])' /\ ~copy'[e].cut
      <4>1. e # c /\ copy'[e] = copy[e]
        BY <2>3, <3>1, <3>3
      <4>2. Holds(copy[e]) /\ ~copy[e].cut
        BY <1>0, <3>3, <4>1 DEF SettingsOK
      <4> QED BY <2>1, <4>1, <4>2 DEF Holds
    <3>4. spoiled' \in BOOLEAN
      BY <1>0, <2>1 DEF SettingsOK, At
    <3> QED BY <1>0, <2>1, <3>1, <3>2, <3>3, <3>4 DEF SettingsOK
  <2>6. CASE writes
    <3>1. o.file \in HookFile
      <4>1. o.do = "hook"
        BY <2>6 DEF At
      <4>2. o \in [do : {"hook"}, file : HookFile, force : BOOLEAN]
        BY <2>2, <4>1, OpKinds
      <4> QED BY <4>2
    <3>2. UNCHANGED settings /\ hook' = [hook EXCEPT ![o.file] = "cut"] /\ Disturb(HarnessOf(o.file), left)
      BY <2>1, <2>4, <2>6
    <3> HIDE DEF left, o
    <3>3. \A e \in Command : left[e] = <<>> \/ (left[e] = todo[e] /\ copy'[e] = copy[e])
      BY <2>3
    <3>4. PICK f \in HookFile : f = o.file
      BY <3>1
    <3>5. hook' = [hook EXCEPT ![f] = "cut"] /\ Disturb(HarnessOf(f), left)
      BY <3>2, <3>4
    <3>6. HooksOK' /\ InstalledOK' /\ \A e \in Command : ReadFirst(e)' /\ WrittenFirst(e)'
      BY <1>12, <2>3, <3>2, <3>3, <3>5
    <3> QED BY <1>0, <2>5, <3>6 DEF HooksInv
  <2>7. CASE ~writes
    <3>1. UNCHANGED hook
      BY <2>1, <2>7
    <3>2. CASE At(c, "write-settings")
      <4>1. Disturb("claude", left)
        BY <2>1, <2>7, <3>2
      <4>2. \A h \in Harness \ {"claude"} : Kept(h)
        BY <3>1 DEF Kept, Ready, Stays
      <4>3. installed' = {x \in installed : x[1] # "claude"}
        BY <4>1 DEF Disturb
      <4>4. InstalledOK'
        <5>1. \A x \in installed' : Kept(x[1])
          BY <1>0, <4>2, <4>3 DEF InstalledOK
        <5> QED BY <1>0, <4>3, <5>1, InstalledKept
      <4>5. ASSUME NEW e \in Command PROVE ReadFirst(e)' /\ WrittenFirst(e)'
        <5>1. /\ DOMAIN todo'[e] = DOMAIN left[e]
              /\ \A i \in DOMAIN left[e] : todo'[e][i] = Marked(left[e][i], "claude")
          BY <2>3, <4>1, Disturbed
        <5>2. CASE e = c
          <6>1. DOMAIN todo'[e] = {}
            BY <2>3, <5>1, <5>2
          <6> QED BY <6>1 DEF ReadFirst, WrittenFirst
        <5>3. CASE e # c
          <6>1. left[e] = todo[e] /\ copy'[e] = copy[e]
            BY <2>3, <5>3
          <6> HIDE DEF left
          <6> QED BY <1>0, <4>2, <5>1, <6>1, PlanMarked
        <5> QED BY <5>2, <5>3
      <4> QED BY <1>0, <1>1, <2>5, <3>1, <4>4, <4>5 DEF HooksInv
    <3>3. CASE ~At(c, "write-settings")
      <4>1. todo' = left /\ UNCHANGED <<installed, settings>>
        BY <2>1, <2>7, <3>3
      <4>2. \A h \in Harness : Kept(h)
        BY <1>3, <3>1, <4>1
      <4>3. ASSUME NEW e \in Command PROVE ReadFirst(e)' /\ WrittenFirst(e)'
        <5>1. CASE e = c
          BY <2>3, <4>1, <5>1, PlanDropped
        <5>2. CASE e # c
          <6>1. todo'[e] = todo[e] /\ copy'[e] = copy[e]
            BY <2>3, <4>1, <5>2
          <6> QED BY <1>0, <4>2, <6>1, PlanKept
        <5> QED BY <5>1, <5>2
      <4> QED BY <1>0, <1>1, <1>4, <2>5, <3>1, <4>1, <4>2, <4>3 DEF HooksInv
    <3> QED BY <3>2, <3>3
  <2> QED BY <2>6, <2>7
<1>15. CASE UserEditsSettings
  <2>1. /\ UNCHANGED <<todo, copy, hook, installed>> /\ edits' = edits + 1
        /\ settings' = [settings EXCEPT !.own = @ \cup {edits'}] /\ ~settings.cut
        /\ spoiled' = (spoiled \/ \E c \in Command : copy[c] # Nothing)
    BY <1>15 DEF UserEditsSettings
  <2>2. settings \in Settings /\ edits \in Nat /\ spoiled \in BOOLEAN
    BY <1>0 DEF SettingsOK, Holds
  <2>3. /\ settings' \in Settings /\ settings'.own = settings.own \cup {edits + 1}
        /\ settings'.entries = settings.entries /\ settings'.cut = FALSE
    BY <2>1, <2>2 DEF Settings
  <2>4. \A h \in Harness : Kept(h)
    BY <2>1, <2>3, NothingKept
  <2>5. ASSUME NEW c \in Command PROVE ReadFirst(c)' /\ WrittenFirst(c)'
    BY <1>0, <2>1, <2>4, PlanKept
  <2>6. SettingsOK'
    <3>1. ASSUME ~spoiled' PROVE settings'.own = 1..edits'
      <4>1. settings.own = 1..edits
        BY <1>0, <2>1, <3>1 DEF SettingsOK, Holds
      <4>2. 1..(edits + 1) = (1..edits) \cup {edits + 1}
        BY <2>2
      <4> QED BY <2>1, <2>3, <4>1, <4>2
    <3>2. Holds(settings)'
      BY <1>0, <2>3, <3>1 DEF SettingsOK, Holds
    <3>3. ASSUME NEW c \in Command, copy'[c] # Nothing PROVE Holds(copy[c])' /\ ~copy'[c].cut
      <4>1. spoiled' /\ Holds(copy[c]) /\ ~copy[c].cut /\ copy'[c] = copy[c]
        BY <1>0, <2>1, <3>3 DEF SettingsOK
      <4> QED BY <4>1 DEF Holds
    <3>4. spoiled' \in BOOLEAN /\ edits' \in Nat /\ copy' \in [Command -> {Nothing} \cup Settings]
      BY <1>0, <2>1, <2>2 DEF SettingsOK
    <3> QED BY <2>3, <3>2, <3>3, <3>4 DEF SettingsOK
  <2> QED BY <1>0, <1>1, <1>4, <2>1, <2>4, <2>5, <2>6 DEF HooksInv
<1>16. CASE StopDaemon \/ UNCHANGED setupVars
  <2>1. UNCHANGED <<todo, copy, hook, settings, edits, spoiled, installed>>
    BY <1>16 DEF StopDaemon, setupVars
  <2>2. \A h \in Harness : Kept(h)
    BY <1>3, <2>1
  <2>3. ASSUME NEW c \in Command PROVE ReadFirst(c)' /\ WrittenFirst(c)'
    BY <1>0, <2>1, <2>2, PlanKept
  <2> QED BY <1>0, <1>1, <1>2, <1>4, <2>1, <2>2, <2>3 DEF HooksInv
<1> HIDE DEF HooksInv
<1> QED BY <1>6, <1>7, <1>8, <1>9, <1>10, <1>11, <1>13, <1>14, <1>15, <1>16 DEF SetupNext, Commands

\* For any number of commands that install hooks for harnesses side by side,
\* killed at any operation or not, and a user who edits the same files: the
\* settings have one entry of mflow at most and keep the user's edits unless
\* they were spoiled, and hook-status is right of all that was installed.
THEOREM Installations == SetupSpec => []HooksInstalled
<1>1. SetupInit => HooksInv
  BY HooksInit
<1>2. HooksInv /\ [SetupNext]_setupVars => HooksInv'
  BY HooksStep
<1>3. HooksInv => HooksInstalled
  BY HooksRead
<1> QED BY <1>1, <1>2, <1>3, PTL DEF SetupSpec

----------------------------------------------------------------------------
(* How far a pattern reaches *)

Ascends(n, A, base, step) == n \in Nat /\ base \in A /\ step \in [1..n -> [A -> A]]

LEMMA UpExists ==
  ASSUME NEW n, NEW A, NEW base, NEW step, Ascends(n, A, base, step)
  PROVE  \E f \in [0..n -> A] : f[0] = base /\ \A i \in 1..n : f[i] = step[i][f[i - 1]]
<1> USE DEF Ascends
<1> DEFINE Good(f, j) == f \in [0..j -> A] /\ f[0] = base /\ \A i \in 1..j : f[i] = step[i][f[i - 1]]
           P == {j \in 0..n : \E f : Good(f, j)}
<1>1. 0 \in P
  <2>1. Good([i \in 0..0 |-> base], 0)
    OBVIOUS
  <2> HIDE DEF Good
  <2> QED BY <2>1
<1>2. ASSUME NEW j \in 1..n, j - 1 \in P PROVE j \in P
  <2>1. PICK f : Good(f, j - 1)
    BY <1>2
  <2> DEFINE g == [i \in 0..j |-> IF i = j THEN step[j][f[j - 1]] ELSE f[i]]
  <2>2. f[j - 1] \in A /\ step[j] \in [A -> A] /\ j \in Nat \ {0}
    BY <2>1
  <2>3. step[j][f[j - 1]] \in A
    BY <2>2
  <2>4. g \in [0..j -> A] /\ g[0] = base
    BY <2>1, <2>2, <2>3
  <2>5. ASSUME NEW i \in 1..j PROVE g[i] = step[i][g[i - 1]]
    <3>1. CASE i = j
      BY <2>2, <3>1
    <3>2. CASE i # j
      BY <2>1, <2>2, <3>2
    <3> QED BY <3>1, <3>2
  <2>6. Good(g, j)
    <3> HIDE DEF g
    <3> QED BY <2>4, <2>5
  <2> HIDE DEF Good
  <2> QED BY <2>6
<1>3. n \in P
  <2> HIDE DEF P
  <2>1. \A j \in 0..n : j \in P
    BY <1>1, <1>2, CountUp
  <2> QED BY <2>1
<1> QED BY <1>3

\* The places after each character of the body of a pattern.
Starts(glob, s) ==
  IF Anchored(glob) THEN {0}
  ELSE IF MatchFullPath(glob) THEN {0} \cup {i \in DOMAIN s : s[i] = Slash}
  ELSE 0..Len(s)
Walks(f, body, s, starts) ==
  f = [n \in 0..Len(body) |-> IF n = 0 THEN starts ELSE After(body[n], s, f[n - 1])]
Reaches(f, glob, s) ==
  /\ f[0] = Starts(glob, s)
  /\ \A n \in 0..Len(Body(glob)) : f[n] \subseteq 0..Len(s)
  /\ \A n \in 1..Len(Body(glob)) : f[n] = After(Body(glob)[n], s, f[n - 1])
  /\ Found(glob, s) <=> \E j \in f[Len(Body(glob))] : MatchFullPath(glob) => j = Len(s)

LEMMA FoundIs ==
  ASSUME NEW S, NEW s \in Seq(S), NEW glob, Len(Body(glob)) \in Nat
  PROVE  \E f : Reaches(f, glob, s)
<1> DEFINE body == Body(glob)
           n == Len(body)
           starts == Starts(glob, s)
           A == SUBSET (0..Len(s))
           step == [i \in 1..n |-> [a \in A |-> After(body[i], s, a)]]
<1>1. n \in Nat /\ starts \in A
  BY DEF Starts
<1>2. step \in [1..n -> [A -> A]]
  BY DEF After
<1>3. PICK f \in [0..n -> A] : f[0] = starts /\ \A i \in 1..n : f[i] = step[i][f[i - 1]]
  <2> HIDE DEF n, starts, A, step
  <2>1. Ascends(n, A, starts, step)
    BY <1>1, <1>2 DEF Ascends
  <2> QED BY <2>1, UpExists
<1>4. ASSUME NEW i \in 1..n PROVE f[i] = After(body[i], s, f[i - 1])
  <2>1. i - 1 \in 0..n /\ f[i - 1] \in A
    <3>1. i - 1 \in 0..n
      BY <1>1
    <3> QED BY <3>1
  <2> HIDE DEF A, n, body
  <2> QED BY <1>3, <2>1
<1>5. Walks(f, body, s, starts)
  <2> HIDE DEF A, step, starts, body
  <2>1. f = [i \in 0..n |-> f[i]]
    OBVIOUS
  <2>2. \A i \in 0..n : f[i] = IF i = 0 THEN starts ELSE After(body[i], s, f[i - 1])
    BY <1>1, <1>3, <1>4
  <2> HIDE DEF n
  <2>3. f = [i \in 0..n |-> IF i = 0 THEN starts ELSE After(body[i], s, f[i - 1])]
    BY <2>1, <2>2
  <2> QED BY <2>3 DEF Walks, n
<1> DEFINE g == CHOOSE h : Walks(h, body, s, starts)
<1>6. Walks(g, body, s, starts)
  <2> HIDE DEF body, starts
  <2> QED BY <1>5
<1>7. Found(glob, s) <=> \E j \in g[n] : MatchFullPath(glob) => j = Len(s)
  BY DEF Found, Walks, Starts
<1> HIDE DEF g, starts, body
<1>8. g[0] = starts /\ \A i \in 1..n : g[i] = After(body[i], s, g[i - 1])
  BY <1>1, <1>6 DEF Walks
<1>9. ASSUME NEW i \in 0..n PROVE g[i] \subseteq 0..Len(s)
  <2>1. CASE i = 0
    BY <1>1, <1>8, <2>1
  <2>2. CASE i # 0
    <3>1. i \in 1..n
      BY <1>1, <2>2
    <3> QED BY <1>8, <3>1 DEF After
  <2> QED BY <2>1, <2>2
<1>10. Reaches(g, glob, s)
  BY <1>7, <1>8, <1>9 DEF Reaches, body, starts
<1> QED BY <1>10

\* No name ends between two places.
Clear(s, i, j) == \A x \in (i + 1)..j : s[x] # Slash

LEMMA AcceptsIs ==
  ASSUME NEW S, NEW s \in Seq(S), NEW i \in 0..Len(s), NEW j \in i..Len(s)
  PROVE  /\ Accepts(Slash, SubSeq(s, i + 1, j)) <=> j = i + 1 /\ s[j] = Slash
         /\ Accepts("**", SubSeq(s, i + 1, j))
         /\ Accepts(AnyDirs, SubSeq(s, i + 1, j)) <=> j = i \/ (j > i + 1 /\ s[j] = Slash)
         /\ \A ch : ch \notin {Slash} \cup Wildcard =>
              (Accepts(ch, SubSeq(s, i + 1, j)) <=>
                 Clear(s, i, j) /\ (ch # "*" => j = i + 1 /\ ch \in {"?", s[j]}))
<1> DEFINE t == SubSeq(s, i + 1, j)
<1>1. i \in Nat /\ j \in Nat /\ i <= j /\ j <= Len(s) /\ Len(s) \in Nat
  OBVIOUS
<1>2. t \in Seq(S) /\ Len(t) = j - i /\ \A x \in 1..(j - i) : t[x] = s[i + x]
  BY <1>1
<1> HIDE DEF t
<1>3. Slash \in Range(t) <=> ~Clear(s, i, j)
  <2>1. \A x \in (i + 1)..j : x - i \in 1..(j - i) /\ t[x - i] = s[x]
    BY <1>1, <1>2
  <2>2. \A x \in 1..(j - i) : i + x \in (i + 1)..j
    BY <1>1
  <2>3. Range(t) = {t[x] : x \in 1..(j - i)}
    BY <1>1, <1>2 DEF Range
  <2>4. (\E x \in 1..(j - i) : t[x] = Slash) => \E x \in (i + 1)..j : s[x] = Slash
    BY <1>2, <2>2
  <2>5. (\E x \in (i + 1)..j : s[x] = Slash) => \E x \in 1..(j - i) : t[x] = Slash
    BY <2>1
  <2> QED BY <2>3, <2>4, <2>5 DEF Clear
<1>4. \A ch : t = <<ch>> <=> j = i + 1 /\ s[j] = ch
  <2>1. ASSUME NEW ch, t = <<ch>> PROVE j = i + 1 /\ s[j] = ch
    <3>1. Len(t) = 1 /\ t[1] = ch
      BY <2>1
    <3>2. j = i + 1
      <4>1. j - i = 1
        BY <1>2, <3>1
      <4> QED BY <1>1, <4>1
    <3>3. t[1] = s[i + 1]
      <4>1. 1 \in 1..(j - i)
        BY <1>1, <3>2
      <4> QED BY <1>2, <4>1
    <3> QED BY <3>1, <3>2, <3>3
  <2>2. ASSUME NEW ch, j = i + 1, s[j] = ch PROVE t = <<ch>>
    <3>1. Len(t) = 1 /\ t[1] = ch
      BY <1>1, <1>2, <2>2
    <3> QED BY <1>2, <3>1
  <2> QED BY <2>1, <2>2
<1>5. Accepts(Slash, t) <=> t = <<Slash>>
  BY DEF Accepts, Slash, AnyDirs
<1>6. Accepts("**", t)
  BY DEF Accepts, AnyDirs
<1>7. Accepts(AnyDirs, t) <=> j = i \/ (j > i + 1 /\ s[j] = Slash)
  <2>1. Accepts(AnyDirs, t) <=> t = <<>> \/ (Len(t) > 1 /\ Last(t) = Slash)
    BY DEF Accepts, AnyDirs
  <2>2. t = <<>> <=> j = i
    BY <1>1, <1>2
  <2>3. Len(t) > 1 <=> j > i + 1
    BY <1>1, <1>2
  <2>4. ASSUME j > i + 1 PROVE Last(t) = s[j]
    <3>1. Len(t) \in 1..(j - i) /\ i + Len(t) = j
      BY <1>1, <1>2, <2>4
    <3> QED BY <1>2, <3>1 DEF Last
  <2> QED BY <2>1, <2>2, <2>3, <2>4
<1>8. ASSUME NEW ch, ch \notin {Slash} \cup Wildcard
      PROVE  Accepts(ch, t) <=> Clear(s, i, j) /\ (ch # "*" => j = i + 1 /\ ch \in {"?", s[j]})
  <2>1. CASE ch = "*"
    <3>1. Accepts(ch, t) <=> Slash \notin Range(t)
      BY <2>1 DEF Accepts, AnyDirs
    <3> QED BY <1>3, <2>1, <3>1
  <2>2. CASE ch = "?"
    <3>1. Accepts(ch, t) <=> Len(t) = 1 /\ t[1] # Slash
      BY <2>2 DEF Accepts, AnyDirs
    <3>2. ASSUME j = i + 1 PROVE (i + 1)..j = {j} /\ t[1] = s[j] /\ Len(t) = 1
      BY <1>1, <1>2, <3>2
    <3>3. ASSUME Len(t) = 1 PROVE j = i + 1
      <4>1. j - i = 1
        BY <1>2, <3>3
      <4> QED BY <1>1, <4>1
    <3>4. ch # "*"
      BY <2>2
    <3> QED BY <2>2, <3>1, <3>2, <3>3, <3>4 DEF Clear
  <2>3. CASE ch \notin {"*", "?"}
    <3>1. Accepts(ch, t) <=> t = <<ch>>
      BY <1>8, <2>3 DEF Accepts, AnyDirs, Wildcard
    <3>2. ASSUME j = i + 1 PROVE (i + 1)..j = {j}
      BY <1>1, <3>2
    <3> QED BY <1>4, <1>8, <2>3, <3>1, <3>2 DEF Clear
  <2> QED BY <2>1, <2>2, <2>3
<1> QED BY <1>4, <1>5, <1>6, <1>7, <1>8 DEF t

----------------------------------------------------------------------------
(* A segment of a pattern and a name of a path *)

\* The first o characters of p stand in s from place i to place j.
Stands(p, s, i, o, j) ==
  \E at \in [0..o -> 0..(j - i)] :
    /\ at[0] = 0 /\ at[o] = j - i
    /\ \A k \in 1..o :
         /\ at[k - 1] <= at[k]
         /\ p[k] # "*" => at[k] = at[k - 1] + 1 /\ p[k] \in {"?", s[i + at[k]]}

LEMMA StandsNot ==
  ASSUME NEW p, NEW s, NEW i \in Nat, NEW j \in Nat, i <= j
  PROVE  Stands(p, s, i, 0, j) <=> j = i
<1>1. ASSUME j = i PROVE Stands(p, s, i, 0, j)
  <2> DEFINE at == [k \in 0..0 |-> 0]
  <2>1. at \in [0..0 -> 0..(j - i)] /\ at[0] = 0 /\ j - i = 0
    BY <1>1
  <2>2. \A k \in 1..0 : FALSE
    OBVIOUS
  <2> HIDE DEF at
  <2> QED BY <2>1, <2>2 DEF Stands
<1>2. ASSUME Stands(p, s, i, 0, j) PROVE j = i
  <2>1. j - i = 0
    BY <1>2 DEF Stands
  <2> QED BY <2>1
<1> QED BY <1>1, <1>2

LEMMA StandsStep ==
  ASSUME NEW p, NEW s, NEW i \in Nat, NEW j \in Nat, i <= j, NEW o \in Nat \ {0}
  PROVE  Stands(p, s, i, o, j) <=>
           \E m \in i..j : /\ Stands(p, s, i, o - 1, m)
                           /\ p[o] # "*" => j = m + 1 /\ p[o] \in {"?", s[j]}
<1>1. ASSUME Stands(p, s, i, o, j)
      PROVE  \E m \in i..j : /\ Stands(p, s, i, o - 1, m)
                             /\ p[o] # "*" => j = m + 1 /\ p[o] \in {"?", s[j]}
  <2>1. PICK at \in [0..o -> 0..(j - i)] :
          /\ at[0] = 0 /\ at[o] = j - i
          /\ \A k \in 1..o :
               /\ at[k - 1] <= at[k]
               /\ p[k] # "*" => at[k] = at[k - 1] + 1 /\ p[k] \in {"?", s[i + at[k]]}
    BY <1>1 DEF Stands
  <2> DEFINE x == at[o - 1]
             m == i + x
  <2>2. x \in 0..(j - i) /\ x \in Nat /\ x <= j - i /\ o \in 1..o /\ o - 1 \in Nat /\ 0 \in 0..(o - 1)
    <3>1. o - 1 \in 0..o /\ o \in 1..o /\ o - 1 \in Nat
      OBVIOUS
    <3>2. x \in 0..(j - i)
      BY <3>1
    <3> HIDE DEF x
    <3> QED BY <3>1, <3>2
  <2>3. m \in i..j /\ m - i = x
    <3> HIDE DEF x
    <3> QED BY <2>2
  <2>4. p[o] # "*" => j = m + 1 /\ p[o] \in {"?", s[j]}
    <3>1. p[o] # "*" => j - i = x + 1 /\ p[o] \in {"?", s[i + (j - i)]}
      BY <2>1, <2>2
    <3>2. i + (j - i) = j
      OBVIOUS
    <3> HIDE DEF x
    <3> QED BY <2>2, <3>1, <3>2
  <2> DEFINE low == [k \in 0..(o - 1) |-> at[k]]
  <2>5. \A k \in 1..(o - 1) : k \in 1..o /\ k - 1 \in 0..(o - 1) /\ k \in 0..(o - 1) /\ k \in 0..o /\ k - 1 \in 0..o
    OBVIOUS
  <2>6. \A k \in 0..(o - 1) : at[k] \in Nat /\ at[k] <= x
    <3> DEFINE P == {k \in 0..(o - 1) : at[(o - 1) - k] <= x}
    <3>1. 0 \in P
      <4>1. (o - 1) - 0 = o - 1 /\ 0 \in 0..(o - 1)
        OBVIOUS
      <4>2. at[(o - 1) - 0] <= x
        BY <2>2, <4>1
      <4> QED BY <4>1, <4>2
    <3>2. ASSUME NEW k \in 1..(o - 1), k - 1 \in P PROVE k \in P
      <4> DEFINE q == (o - 1) - k
      <4>1. q \in 0..o /\ q + 1 \in 1..o /\ q + 1 = (o - 1) - (k - 1) /\ (q + 1) - 1 = q /\ q + 1 \in 0..o
        OBVIOUS
      <4> HIDE DEF q
      <4>2. at[q + 1] <= x /\ at[q] <= at[q + 1]
        BY <2>1, <3>2, <4>1
      <4>3. at[q] \in Nat /\ at[q + 1] \in Nat
        BY <4>1
      <4>4. at[q] <= x
        BY <2>2, <4>2, <4>3
      <4> QED BY <4>4 DEF q
    <3>3. \A k \in 0..(o - 1) : k \in P
      <4> HIDE DEF P
      <4> QED BY <2>2, <3>1, <3>2, CountUp
    <3>4. ASSUME NEW k \in 0..(o - 1) PROVE at[k] \in Nat /\ at[k] <= x
      <4>1. (o - 1) - k \in 0..(o - 1) /\ (o - 1) - ((o - 1) - k) = k /\ k \in 0..o
        OBVIOUS
      <4>2. at[(o - 1) - ((o - 1) - k)] <= x
        BY <3>3, <4>1
      <4>3. at[k] \in 0..(j - i)
        BY <4>1
      <4> QED BY <4>1, <4>2, <4>3
    <3> QED BY <3>4
  <2>7. low \in [0..(o - 1) -> 0..(m - i)]
    <3>1. \A k \in 0..(o - 1) : at[k] \in 0..x
      <4> HIDE DEF x
      <4> QED BY <2>2, <2>6
    <3> QED BY <2>3, <3>1
  <2>8. low[0] = 0 /\ low[o - 1] = m - i
    <3>1. 0 \in 0..(o - 1) /\ o - 1 \in 0..(o - 1)
      OBVIOUS
    <3> QED BY <2>1, <2>3, <3>1
  <2>9. \A k \in 1..(o - 1) :
          /\ low[k - 1] <= low[k]
          /\ p[k] # "*" => low[k] = low[k - 1] + 1 /\ p[k] \in {"?", s[i + low[k]]}
    <3>1. \A k \in 1..(o - 1) : low[k] = at[k] /\ low[k - 1] = at[k - 1]
      BY <2>5
    <3> HIDE DEF low
    <3> QED BY <2>1, <2>5, <3>1
  <2>10. Stands(p, s, i, o - 1, m)
    <3> HIDE DEF low, m
    <3> QED BY <2>7, <2>8, <2>9 DEF Stands
  <2> HIDE DEF m
  <2> QED BY <2>3, <2>4, <2>10
<1>2. ASSUME NEW m \in i..j, Stands(p, s, i, o - 1, m), p[o] # "*" => j = m + 1 /\ p[o] \in {"?", s[j]}
      PROVE  Stands(p, s, i, o, j)
  <2>1. PICK low \in [0..(o - 1) -> 0..(m - i)] :
          /\ low[0] = 0 /\ low[o - 1] = m - i
          /\ \A k \in 1..(o - 1) :
               /\ low[k - 1] <= low[k]
               /\ p[k] # "*" => low[k] = low[k - 1] + 1 /\ p[k] \in {"?", s[i + low[k]]}
    BY <1>2 DEF Stands
  <2> DEFINE at == [k \in 0..o |-> IF k = o THEN j - i ELSE low[k]]
  <2>2. \A k \in 0..o : k = o \/ k \in 0..(o - 1)
    OBVIOUS
  <2>3. at \in [0..o -> 0..(j - i)]
    <3>1. \A k \in 0..(o - 1) : low[k] \in 0..(j - i)
      <4>1. 0..(m - i) \subseteq 0..(j - i)
        OBVIOUS
      <4> QED BY <4>1
    <3>2. j - i \in 0..(j - i)
      OBVIOUS
    <3> QED BY <2>2, <3>1, <3>2
  <2>4. at[0] = 0 /\ at[o] = j - i
    BY <2>1
  <2>5. ASSUME NEW k \in 1..o
        PROVE  /\ at[k - 1] <= at[k]
               /\ p[k] # "*" => at[k] = at[k - 1] + 1 /\ p[k] \in {"?", s[i + at[k]]}
    <3>1. CASE k = o
      <4>1. at[k] = j - i /\ at[k - 1] = m - i /\ i + (j - i) = j
        BY <2>1, <3>1
      <4>2. m - i <= j - i /\ (j = m + 1 => j - i = (m - i) + 1)
        OBVIOUS
      <4> HIDE DEF at
      <4> QED BY <1>2, <3>1, <4>1, <4>2
    <3>2. CASE k # o
      <4>1. k \in 1..(o - 1) /\ at[k] = low[k] /\ at[k - 1] = low[k - 1]
        BY <3>2
      <4> HIDE DEF at
      <4> QED BY <2>1, <4>1
    <3> QED BY <3>1, <3>2
  <2> HIDE DEF at
  <2> QED BY <2>3, <2>4, <2>5 DEF Stands
<1> QED BY <1>1, <1>2

LEMMA StandsFits ==
  ASSUME NEW S, NEW s \in Seq(S), NEW i \in 0..Len(s), NEW j \in i..Len(s), NEW R, NEW p \in Seq(R)
  PROVE  NameFits(p, SubSeq(s, i + 1, j)) <=> Stands(p, s, i, Len(p), j)
<1> DEFINE t == SubSeq(s, i + 1, j)
           o == Len(p)
<1>1. i \in Nat /\ j \in Nat /\ i <= j /\ j <= Len(s) /\ o \in Nat /\ DOMAIN p = 1..o
  OBVIOUS
<1>2. Len(t) = j - i /\ \A x \in 1..(j - i) : t[x] = s[i + x]
  BY <1>1
<1> HIDE DEF t, o
<1>3. ASSUME NEW at \in [0..o -> 0..(j - i)], NEW k \in 1..o, at[k] = at[k - 1] + 1
      PROVE  t[at[k]] = s[i + at[k]]
  <2>1. k \in 0..o /\ k - 1 \in 0..o
    BY <1>1
  <2>2. at[k] \in 0..(j - i) /\ at[k - 1] \in 0..(j - i)
    BY <2>1
  <2>3. at[k] \in 1..(j - i)
    BY <1>3, <2>2
  <2> QED BY <1>2, <2>3
<1>4. NameFits(p, t) <=>
        \E at \in [0..o -> 0..(j - i)] :
          /\ at[0] = 0 /\ at[o] = j - i
          /\ \A k \in 1..o :
               /\ at[k - 1] <= at[k]
               /\ p[k] # "*" => at[k] = at[k - 1] + 1 /\ p[k] \in {"?", t[at[k]]}
  BY <1>1, <1>2 DEF NameFits, o
<1> QED BY <1>3, <1>4 DEF Stands, t, o

LEMMA CharStep ==
  ASSUME NEW S, NEW s \in Seq(S), NEW i \in 0..Len(s), NEW j \in i..Len(s),
         NEW p, NEW o \in Nat \ {0}, p[o] \notin {Slash} \cup Wildcard
  PROVE  Clear(s, i, j) /\ Stands(p, s, i, o, j) <=>
           \E m \in i..j : /\ Clear(s, i, m) /\ Stands(p, s, i, o - 1, m)
                           /\ Accepts(p[o], SubSeq(s, m + 1, j))
<1> DEFINE Takes(m) == Clear(s, m, j) /\ (p[o] # "*" => j = m + 1 /\ p[o] \in {"?", s[j]})
<1>1. i \in Nat /\ j \in Nat /\ i <= j /\ j <= Len(s) /\ Len(s) \in Nat
  OBVIOUS
<1>2. ASSUME NEW m \in i..j
      PROVE  /\ Accepts(p[o], SubSeq(s, m + 1, j)) <=> Takes(m)
             /\ Clear(s, i, j) <=> Clear(s, i, m) /\ Clear(s, m, j)
  <2>1. m \in 0..Len(s) /\ j \in m..Len(s)
    BY <1>1
  <2>2. Accepts(p[o], SubSeq(s, m + 1, j)) <=> Takes(m)
    BY <2>1, AcceptsIs
  <2>3. \A x \in (i + 1)..j : x \in (i + 1)..m \/ x \in (m + 1)..j
    BY <1>1
  <2>4. \A x : x \in (i + 1)..m \/ x \in (m + 1)..j => x \in (i + 1)..j
    BY <1>1
  <2>5. Clear(s, i, j) <=> Clear(s, i, m) /\ Clear(s, m, j)
    BY <2>3, <2>4 DEF Clear
  <2> QED BY <2>2, <2>5
<1>3. Stands(p, s, i, o, j) <=>
        \E m \in i..j : Stands(p, s, i, o - 1, m) /\ (p[o] # "*" => j = m + 1 /\ p[o] \in {"?", s[j]})
  BY <1>1, StandsStep
<1> QED BY <1>2, <1>3

\* The places f after each character of p, from those after d characters on.
Carries(f, s, d, p) ==
  /\ d \in Nat /\ Len(p) \in Nat /\ f[d] \subseteq 0..Len(s)
  /\ \A o \in 1..Len(p) :
       f[d + o] = After(p[o], s, f[d + o - 1]) /\ p[o] \notin {Slash} \cup Wildcard
Via(f, s, d, p, o, j) ==
  \E i \in f[d] : j \in i..Len(s) /\ Clear(s, i, j) /\ Stands(p, s, i, o, j)

LEMMA CharsThrough ==
  ASSUME NEW S, NEW s \in Seq(S), NEW f, NEW d, NEW p, Carries(f, s, d, p)
  PROVE  \A j : j \in f[d + Len(p)] <=> Via(f, s, d, p, Len(p), j)
<1> DEFINE n == Len(p)
           L == Len(s)
           P == {o \in 0..n : \A j : j \in f[d + o] <=> Via(f, s, d, p, o, j)}
<1>1. n \in Nat /\ L \in Nat /\ d \in Nat /\ f[d] \subseteq 0..L
  BY DEF Carries
<1>2. 0 \in P
  <2>1. ASSUME NEW i \in f[d] PROVE i \in 0..L /\ i \in i..L /\ Clear(s, i, i) /\ Stands(p, s, i, 0, i)
    <3>1. i \in Nat /\ i \in 0..L /\ i \in i..L
      BY <1>1
    <3>2. Stands(p, s, i, 0, i)
      BY <3>1, StandsNot
    <3>3. \A x \in (i + 1)..i : FALSE
      BY <3>1
    <3> QED BY <3>1, <3>2, <3>3 DEF Clear
  <2>2. ASSUME NEW i \in f[d], NEW j \in i..L, Stands(p, s, i, 0, j) PROVE j = i
    <3>1. i \in Nat /\ j \in Nat /\ i <= j
      BY <1>1
    <3> QED BY <2>2, <3>1, StandsNot
  <2>3. d + 0 = d
    BY <1>1
  <2>4. \A j : j \in f[d + 0] <=> Via(f, s, d, p, 0, j)
    BY <2>1, <2>2, <2>3 DEF Via
  <2> QED BY <1>1, <2>4
<1>3. ASSUME NEW o \in 1..n, o - 1 \in P PROVE o \in P
  <2>1. \A j : j \in f[d + o - 1] <=> Via(f, s, d, p, o - 1, j)
    <3>1. d + (o - 1) = d + o - 1
      BY <1>1
    <3> QED BY <1>3, <3>1
  <2>2. f[d + o] = After(p[o], s, f[d + o - 1]) /\ p[o] \notin {Slash} \cup Wildcard
    BY DEF Carries
  <2>3. o \in Nat \ {0}
    BY <1>1
  <2>4. ASSUME NEW i \in f[d], NEW j \in i..L
        PROVE  Clear(s, i, j) /\ Stands(p, s, i, o, j) <=>
                 \E m \in i..j : /\ Clear(s, i, m) /\ Stands(p, s, i, o - 1, m)
                                 /\ Accepts(p[o], SubSeq(s, m + 1, j))
    <3>1. i \in 0..Len(s) /\ j \in i..Len(s)
      BY <1>1
    <3> HIDE DEF L
    <3> QED BY <2>2, <2>3, <3>1, CharStep
  <2>5. ASSUME NEW j, j \in f[d + o] PROVE Via(f, s, d, p, o, j)
    <3>1. PICK m \in f[d + o - 1] : j \in 0..L /\ m <= j /\ Accepts(p[o], SubSeq(s, m + 1, j))
      BY <2>2, <2>5 DEF After
    <3>2. Via(f, s, d, p, o - 1, m)
      BY <2>1
    <3>3. PICK i \in f[d] : m \in i..L /\ Clear(s, i, m) /\ Stands(p, s, i, o - 1, m)
      BY <3>2 DEF Via
    <3>4. i \in Nat /\ m \in i..j /\ j \in i..L
      BY <1>1, <3>1, <3>3
    <3>5. Clear(s, i, j) /\ Stands(p, s, i, o, j)
      BY <2>4, <3>1, <3>3, <3>4
    <3> QED BY <3>4, <3>5 DEF Via
  <2>6. ASSUME NEW j, Via(f, s, d, p, o, j) PROVE j \in f[d + o]
    <3>1. PICK i \in f[d] : j \in i..L /\ Clear(s, i, j) /\ Stands(p, s, i, o, j)
      BY <2>6 DEF Via
    <3>2. PICK m \in i..j : /\ Clear(s, i, m) /\ Stands(p, s, i, o - 1, m)
                            /\ Accepts(p[o], SubSeq(s, m + 1, j))
      BY <2>4, <3>1
    <3>3. i \in Nat /\ j \in 0..L /\ m \in i..L /\ m <= j
      BY <1>1, <3>1
    <3>4. Via(f, s, d, p, o - 1, m)
      BY <3>2, <3>3 DEF Via
    <3>5. m \in f[d + o - 1]
      BY <2>1, <3>4
    <3> QED BY <2>2, <3>2, <3>3, <3>5 DEF After
  <2> QED BY <2>5, <2>6
<1>4. n \in P
  <2> HIDE DEF P
  <2>1. \A o \in 0..n : o \in P
    BY <1>1, <1>2, <1>3, CountUp
  <2> QED BY <1>1, <2>1
<1> QED BY <1>4

----------------------------------------------------------------------------
(* A pattern as it is written *)

LineTypes(line) ==
  /\ line.segs \in Seq(Range(line.segs)) /\ line.segs # <<>>
  /\ line.anchored \in BOOLEAN /\ line.negated \in BOOLEAN
  /\ \A seg \in Range(line.segs) :
       \/ seg = <<"**">>
       \/ /\ seg \in Seq(Range(seg)) /\ seg # <<>>
          /\ Range(seg) \cap ({Slash} \cup Wildcard) = {}

\* The characters of the k-th of its n segments, after the place i up to j.
SegIs(seg, body, i, j, last) ==
  IF seg = <<"**">>
  THEN IF last THEN j = i + 2 /\ body[i + 1] = "**" ELSE j = i + 1 /\ body[j] = AnyDirs
  ELSE /\ Len(seg) \in Nat \ {0} /\ j = i + Len(seg) + 1
       /\ \A o \in 1..Len(seg) : body[i + o] = seg[o] /\ seg[o] \notin {Slash} \cup Wildcard
       /\ ~last => body[j] = Slash

Built(b, line) ==
  LET n == Len(line.segs)
      body == Body(Written(line))
  IN  /\ n \in Nat \ {0} /\ b \in [0..n -> Nat] /\ b[0] = 0
      /\ Len(body) \in Nat /\ b[n] = Len(body) + 1
      /\ \A k \in 1..n : SegIs(line.segs[k], body, b[k - 1], b[k], k = n)
      /\ \A k \in 0..(n - 1) : b[k] \in 0..Len(body)
      /\ Anchored(Written(line)) <=> line.anchored
      /\ ~MatchFullPath(Written(line)) => ~line.anchored /\ n = 1

CharsOf(line) == UNION {Range(seg) : seg \in Range(line.segs)}
Parts(line) ==
  [i \in DOMAIN line.segs |->
     IF line.segs[i] # <<"**">> THEN line.segs[i] \o <<Slash>>
     ELSE IF i = Len(line.segs) THEN <<"**", Slash>> ELSE <<AnyDirs>>]

PartIs(seg, part, last) ==
  /\ seg = <<"**">> /\ last => Len(part) = 2 /\ part[1] = "**"
  /\ seg = <<"**">> /\ ~last => Len(part) = 1 /\ part[1] = AnyDirs
  /\ seg # <<"**">> =>
       /\ Len(seg) \in Nat \ {0} /\ Len(part) = Len(seg) + 1 /\ part[Len(seg) + 1] = Slash
       /\ \A o \in 1..Len(seg) : part[o] = seg[o] /\ seg[o] \notin {Slash} \cup Wildcard

LEMMA PartsAre ==
  ASSUME NEW line, LineTypes(line), NEW k \in 1..Len(line.segs)
  PROVE  /\ Parts(line)[k] \in Seq(CharsOf(line) \cup {Slash} \cup Wildcard)
         /\ PartIs(line.segs[k], Parts(line)[k], k = Len(line.segs))
<1> DEFINE seg == line.segs[k]
           part == Parts(line)[k]
           S == CharsOf(line) \cup {Slash} \cup Wildcard
<1>1. /\ DOMAIN line.segs = 1..Len(line.segs) /\ Len(line.segs) \in Nat
      /\ seg \in Range(line.segs)
  BY DEF LineTypes, Range
<1>2. part = IF seg # <<"**">> THEN seg \o <<Slash>>
             ELSE IF k = Len(line.segs) THEN <<"**", Slash>> ELSE <<AnyDirs>>
  BY <1>1 DEF Parts
<1>3. Slash \in S /\ "**" \in S /\ AnyDirs \in S
  BY DEF Wildcard
<1>4. CASE seg = <<"**">> /\ k = Len(line.segs)
  <2>1. part = <<"**", Slash>>
    BY <1>2, <1>4
  <2>2. part \in Seq(S) /\ Len(part) = 2 /\ part[1] = "**"
    <3> HIDE DEF S, part
    <3> QED BY <1>3, <2>1
  <2> QED BY <1>4, <2>2 DEF PartIs
<1>5. CASE seg = <<"**">> /\ k # Len(line.segs)
  <2>1. part = <<AnyDirs>>
    BY <1>2, <1>5
  <2>2. part \in Seq(S) /\ Len(part) = 1 /\ part[1] = AnyDirs
    <3> HIDE DEF S, part
    <3> QED BY <1>3, <2>1
  <2> QED BY <1>5, <2>2 DEF PartIs
<1>6. CASE seg # <<"**">>
  <2>1. part = seg \o <<Slash>>
    BY <1>2, <1>6
  <2>2. seg \in Seq(Range(seg)) /\ seg # <<>> /\ Range(seg) \cap ({Slash} \cup Wildcard) = {}
    BY <1>1, <1>6 DEF LineTypes
  <2>3. Range(seg) \subseteq S
    BY <1>1 DEF CharsOf
  <2> DEFINE u == <<Slash>>
  <2>4. u \in Seq(S) /\ Len(u) = 1 /\ u[1] = Slash
    <3> HIDE DEF S
    <3> QED BY <1>3
  <2>5. seg \in Seq(S) /\ Len(seg) \in Nat \ {0} /\ \A o \in 1..Len(seg) : seg[o] \in Range(seg)
    <3> HIDE DEF S, seg
    <3> QED BY <2>2, <2>3 DEF Range
  <2>6. /\ part \in Seq(S) /\ Len(part) = Len(seg) + Len(u)
        /\ \A o \in 1..Len(seg) : part[o] = seg[o]
        /\ \A o \in 1..Len(u) : part[Len(seg) + o] = u[o]
    <3> HIDE DEF S, seg, part, u
    <3> QED BY <2>1, <2>4, <2>5, ConcatAt DEF u
  <2>7. part[Len(seg) + 1] = Slash /\ Len(part) = Len(seg) + 1
    <3> HIDE DEF part, seg, u
    <3> QED BY <2>4, <2>6
  <2>8. \A o \in 1..Len(seg) : seg[o] \notin {Slash} \cup Wildcard
    <3> HIDE DEF seg
    <3> QED BY <2>2, <2>5
  <2> HIDE DEF S, seg, part, u
  <2> QED BY <1>6, <2>5, <2>6, <2>7, <2>8 DEF S, seg, part, PartIs
<1> QED BY <1>4, <1>5, <1>6

LEMMA WrittenIs ==
  ASSUME NEW line, LineTypes(line)
  PROVE  \E b : Built(b, line)
<1> DEFINE n == Len(line.segs)
           parts == Parts(line)
           S == CharsOf(line) \cup {Slash} \cup Wildcard
           whole == FlattenSeq(parts)
           body == Front(whole)
<1>1. n \in Nat \ {0} /\ DOMAIN line.segs = 1..n
  BY DEF LineTypes
<1>2. parts \in Seq(Seq(S)) /\ Len(parts) = n
  <2>1. \A k \in 1..n : parts[k] \in Seq(S)
    <3> HIDE DEF parts, S
    <3> QED BY PartsAre DEF parts, S
  <2>2. parts = [k \in 1..n |-> parts[k]]
    BY <1>1 DEF Parts
  <2> HIDE DEF parts, S, n
  <2> QED BY <1>1, <2>1, <2>2
<1>3. PICK b : Laid(b, whole, parts) /\ whole \in Seq(S)
  <2> HIDE DEF parts, S
  <2> QED BY <1>2, FlattenLaid
<1>4. Written(line) = IF line.anchored THEN <<Slash>> \o body ELSE body
  BY DEF Written, Parts
<1>5. \A k \in 1..n : PartIs(line.segs[k], parts[k], k = n)
  BY PartsAre
<1> HIDE DEF parts, S, n, whole
<1>6. b \in [0..n -> Nat] /\ b[0] = 0 /\ b[n] = Len(whole)
  BY <1>2, <1>3 DEF Laid
<1>7. ASSUME NEW k \in 1..n
      PROVE  /\ Len(parts[k]) \in Nat \ {0} /\ b[k] = b[k - 1] + Len(parts[k]) /\ b[k] <= Len(whole)
             /\ b[k - 1] \in Nat /\ b[k] \in Nat
             /\ \A q \in 1..Len(parts[k]) : whole[b[k - 1] + q] = parts[k][q]
  <2>1. /\ Len(parts[k]) \in Nat /\ b[k] = b[k - 1] + Len(parts[k]) /\ b[k] <= Len(whole)
        /\ \A q \in 1..Len(parts[k]) : whole[b[k - 1] + q] = parts[k][q]
    BY <1>2, <1>3 DEF Laid
  <2>2. Len(parts[k]) # 0
    BY <1>5 DEF PartIs
  <2>3. k - 1 \in 0..n /\ k \in 0..n
    BY <1>1
  <2> QED BY <1>6, <2>1, <2>2, <2>3
<1>8. Len(whole) \in Nat /\ n \in 1..n
  BY <1>1, <1>3
<1>9. ASSUME NEW k \in 0..(n - 1) PROVE b[k] \in 0..(Len(whole) - 1)
  <2>1. k + 1 \in 1..n /\ (k + 1) - 1 = k
    BY <1>1
  <2>2. b[k + 1] = b[k] + Len(parts[k + 1]) /\ Len(parts[k + 1]) \in Nat \ {0} /\ b[k] \in Nat /\ b[k + 1] <= Len(whole)
    BY <1>7, <2>1
  <2> DEFINE x == b[k]
             y == b[k + 1]
             z == Len(parts[k + 1])
  <2>3. x \in 0..(Len(whole) - 1)
    <3> HIDE DEF x, y, z
    <3>1. y = x + z /\ z \in Nat \ {0} /\ x \in Nat /\ y <= Len(whole)
      BY <2>2 DEF x, y, z
    <3> QED BY <1>8, <3>1
  <2> QED BY <2>3
<1>10. Len(whole) \in Nat \ {0}
  <2>1. 0 \in 0..(n - 1)
    BY <1>1
  <2> QED BY <1>8, <1>9, <2>1
<1>11. body \in Seq(S) /\ Len(body) = Len(whole) - 1 /\ \A x \in 1..(Len(whole) - 1) : body[x] = whole[x]
  <2>1. whole \in Seq(S) /\ Len(whole) \in Nat \ {0}
    BY <1>3, <1>10
  <2>2. SubSeq(whole, 1, Len(whole) - 1) \in Seq(S) /\ Len(SubSeq(whole, 1, Len(whole) - 1)) = Len(whole) - 1
    <3>1. \A x \in 1..(Len(whole) - 1) : whole[x] \in S
      BY <2>1
    <3>2. SubSeq(whole, 1, Len(whole) - 1) = [x \in 1..(Len(whole) - 1) |-> whole[x]]
      BY <2>1
    <3> DEFINE m == Len(whole) - 1
    <3>3. m \in Nat
      BY <2>1
    <3> HIDE DEF m
    <3>4. [x \in 1..m |-> whole[x]] \in Seq(S) /\ Len([x \in 1..m |-> whole[x]]) = m
      BY <3>1, <3>3 DEF m
    <3> QED BY <3>2, <3>4 DEF m
  <2>3. \A x \in 1..(Len(whole) - 1) : SubSeq(whole, 1, Len(whole) - 1)[x] = whole[x]
    BY <2>1
  <2> QED BY <2>2, <2>3 DEF Front
<1> HIDE DEF body
<1>12. ASSUME NEW k \in 1..n PROVE SegIs(line.segs[k], body, b[k - 1], b[k], k = n)
  <2> DEFINE x == b[k - 1]
             y == b[k]
             seg == line.segs[k]
             part == parts[k]
             l == Len(part)
             w == Len(whole)
  <2>1. /\ x \in Nat /\ y \in Nat /\ l \in Nat \ {0} /\ w \in Nat /\ y = x + l /\ y <= w
        /\ (k = n => y = w)
        /\ (k # n => y <= w - 1)
    <3>1. k # n => k \in 0..(n - 1)
      BY <1>1
    <3>2. k # n => y <= w - 1
      BY <1>9, <3>1
    <3> QED BY <1>6, <1>7, <1>8, <3>2
  <2>2. \A q \in 1..l : x + q <= w - 1 => body[x + q] = part[q]
    <3> SUFFICES ASSUME NEW q \in 1..l, x + q <= w - 1 PROVE body[x + q] = part[q]
      OBVIOUS
    <3>1. whole[x + q] = part[q]
      BY <1>7
    <3> HIDE DEF x, y, part, l, w
    <3>2. x + q \in 1..(w - 1)
      BY <2>1
    <3> QED BY <1>11, <3>1, <3>2 DEF w
  <2>3. /\ seg = <<"**">> /\ k = n => l = 2 /\ part[1] = "**"
        /\ seg = <<"**">> /\ k # n => l = 1 /\ part[1] = AnyDirs
        /\ seg # <<"**">> =>
             /\ Len(seg) \in Nat \ {0} /\ l = Len(seg) + 1 /\ part[Len(seg) + 1] = Slash
             /\ \A o \in 1..Len(seg) : part[o] = seg[o] /\ seg[o] \notin {Slash} \cup Wildcard
    BY <1>5 DEF PartIs
  <2> HIDE DEF x, y, seg, part, l, w
  <2>4. CASE seg = <<"**">> /\ k = n
    <3>1. l = 2 /\ y = x + 2 /\ x + 1 <= w - 1 /\ 1 \in 1..l
      BY <2>1, <2>3, <2>4
    <3>2. body[x + 1] = "**"
      BY <2>2, <2>3, <2>4, <3>1
    <3>3. SegIs(seg, body, x, y, k = n)
      BY <2>4, <3>1, <3>2 DEF SegIs
    <3> QED BY <3>3 DEF x, y, seg
  <2>5. CASE seg = <<"**">> /\ k # n
    <3>1. l = 1 /\ y = x + 1 /\ x + 1 <= w - 1 /\ 1 \in 1..l
      BY <2>1, <2>3, <2>5
    <3>2. body[x + 1] = AnyDirs
      BY <2>2, <2>3, <2>5, <3>1
    <3>3. SegIs(seg, body, x, y, k = n)
      BY <2>5, <3>1, <3>2 DEF SegIs
    <3> QED BY <3>3 DEF x, y, seg
  <2>6. CASE seg # <<"**">>
    <3> DEFINE m == Len(seg)
    <3>1. /\ m \in Nat \ {0} /\ l = m + 1 /\ part[m + 1] = Slash
          /\ \A o \in 1..m : part[o] = seg[o] /\ seg[o] \notin {Slash} \cup Wildcard
      BY <2>3, <2>6
    <3> HIDE DEF m
    <3>2. y = x + m + 1 /\ m + 1 \in 1..l /\ x + (m + 1) = y /\ x + m <= w - 1
      BY <2>1, <3>1
    <3>3. \A o \in 1..m : o \in 1..l /\ x + o <= w - 1
      BY <2>1, <3>1, <3>2
    <3>4. \A o \in 1..m : body[x + o] = seg[o] /\ seg[o] \notin {Slash} \cup Wildcard
      BY <2>2, <3>1, <3>3
    <3>5. k # n => body[y] = Slash
      BY <2>1, <2>2, <3>1, <3>2
    <3>6. SegIs(seg, body, x, y, k = n)
      BY <2>6, <3>1, <3>2, <3>4, <3>5 DEF SegIs, m
    <3> QED BY <3>6 DEF x, y, seg
  <2> QED BY <2>4, <2>5, <2>6
<1>13. 1 \in DOMAIN body /\ body[1] # Slash
  <2>1. SegIs(line.segs[1], body, 0, b[1], 1 = n) /\ b[1] \in Nat /\ b[1] <= Len(whole)
    <3>1. 1 \in 1..n /\ 1 - 1 = 0
      BY <1>1
    <3> QED BY <1>6, <1>7, <1>12, <3>1
  <2>2. 1 # n => b[1] <= Len(whole) - 1
    <3>1. 1 # n => 1 \in 0..(n - 1)
      BY <1>1
    <3> QED BY <1>9, <3>1
  <2>3. DOMAIN body = 1..(Len(whole) - 1)
    BY <1>11
  <2>4. CASE line.segs[1] = <<"**">>
    <3>1. Len(whole) >= 2 /\ body[1] \in {"**", AnyDirs}
      BY <1>10, <2>1, <2>2, <2>4 DEF SegIs
    <3> QED BY <1>10, <2>3, <3>1 DEF Slash, AnyDirs
  <2>5. CASE line.segs[1] # <<"**">>
    <3> DEFINE m == Len(line.segs[1])
    <3>1. m \in Nat \ {0} /\ b[1] = 0 + m + 1 /\ \A o \in 1..m : body[0 + o] # Slash
      BY <2>1, <2>5 DEF SegIs
    <3> HIDE DEF m
    <3>2. 1 \in 1..m /\ 0 + 1 = 1 /\ Len(whole) >= 2
      BY <1>10, <2>1, <3>1
    <3>3. body[0 + 1] # Slash
      BY <3>1, <3>2
    <3> QED BY <1>10, <2>3, <3>2, <3>3
  <2> QED BY <2>4, <2>5
<1>14. /\ Anchored(Written(line)) <=> line.anchored
       /\ Body(Written(line)) = body
       /\ line.anchored => MatchFullPath(Written(line))
  <2>1. CASE line.anchored
    <3> DEFINE u == <<Slash>>
    <3>1. Written(line) = u \o body
      BY <1>4, <2>1
    <3>2. u \in Seq(S) /\ Len(u) = 1 /\ u[1] = Slash
      <4>1. Slash \in S
        BY DEF S
      <4> QED BY <4>1
    <3> HIDE DEF u
    <3>3. /\ u \o body \in Seq(S) /\ Len(u \o body) = Len(u) + Len(body)
          /\ \A j \in 1..Len(u) : (u \o body)[j] = u[j]
          /\ \A j \in 1..Len(body) : (u \o body)[Len(u) + j] = body[j]
      <4>1. u \in Seq(S) /\ body \in Seq(S)
        BY <1>11, <3>2
      <4> QED BY <4>1, ConcatAt
    <3> DEFINE w == u \o body
    <3>4. w \in Seq(S) /\ Len(w) = Len(body) + 1 /\ w[1] = Slash /\ \A j \in 1..Len(body) : w[j + 1] = body[j]
      <4>1. Len(u) + Len(body) = Len(body) + 1 /\ \A j \in 1..Len(body) : Len(u) + j = j + 1
        BY <1>11, <3>2
      <4>2. 1 \in 1..Len(u)
        BY <3>2
      <4> QED BY <3>2, <3>3, <4>1, <4>2
    <3> HIDE DEF w
    <3>5. Tail(w) = body /\ Head(w) = Slash /\ Slash \in Range(w)
      <4>1. Tail(w) \in Seq(S) /\ Len(Tail(w)) = Len(body) /\ \A j \in 1..Len(body) : Tail(w)[j] = w[j + 1]
        BY <1>11, <3>4
      <4>2. 1 \in DOMAIN w
        BY <1>11, <3>4
      <4>3. Slash \in Range(w)
        BY <3>4, <4>2 DEF Range
      <4>4. \A x \in 1..Len(body) : Tail(w)[x] = body[x]
        BY <3>4, <4>1
      <4>5. Head(w) = w[1]
        BY <3>4, <1>11
      <4>6. Tail(w) = body
        <5> DEFINE t == Tail(w)
        <5>1. t \in Seq(S) /\ Len(t) = Len(body) /\ \A x \in 1..Len(body) : t[x] = body[x]
          BY <4>1, <4>4
        <5> HIDE DEF t
        <5>2. t = body
          BY <1>11, <5>1
        <5> QED BY <5>2 DEF t
      <4> QED BY <3>4, <4>3, <4>5, <4>6
    <3> QED BY <2>1, <3>1, <3>5 DEF Anchored, Body, MatchFullPath, w
  <2>2. CASE ~line.anchored
    <3>1. Head(body) = body[1]
      BY <1>11
    <3> QED BY <1>4, <1>13, <2>2, <3>1 DEF Anchored, Body
  <2> QED BY <2>1, <2>2
<1>15. ASSUME ~line.anchored, n # 1 PROVE MatchFullPath(Written(line))
  <2>1. SegIs(line.segs[1], body, 0, b[1], 1 = n) /\ b[1] \in Nat
    <3>1. 1 \in 1..n /\ 1 - 1 = 0
      BY <1>1
    <3> QED BY <1>6, <1>7, <1>12, <3>1
  <2>2. b[1] \in 0..(Len(whole) - 1)
    <3>1. 1 \in 0..(n - 1)
      BY <1>1, <1>15
    <3> QED BY <1>9, <3>1
  <2>3. body[b[1]] \in {Slash, AnyDirs} /\ b[1] # 0
    BY <1>15, <2>1 DEF SegIs
  <2>4. b[1] \in DOMAIN body
    BY <1>10, <1>11, <2>2, <2>3
  <2> QED BY <1>4, <1>15, <2>3, <2>4 DEF MatchFullPath, Range
<1>16. Len(body) \in Nat /\ b[n] = Len(body) + 1 /\ 0..Len(body) = 0..(Len(whole) - 1)
  BY <1>6, <1>10, <1>11
<1>17. line.anchored \in BOOLEAN
  BY DEF LineTypes
<1>18. Built(b, line)
  <2>1. \A k \in 0..(n - 1) : b[k] \in 0..Len(body)
    BY <1>9, <1>16
  <2>2. ~MatchFullPath(Written(line)) => ~line.anchored /\ n = 1
    BY <1>14, <1>15
  <2> QED BY <1>1, <1>6, <1>12, <1>14, <1>16, <2>1, <2>2 DEF Built, n
<1> QED BY <1>18

----------------------------------------------------------------------------
(* The segments of a pattern and the names of a path *)

PathTypes(path) ==
  /\ path \in Seq(Range(path))
  /\ \A i \in DOMAIN path : path[i] = Slash => i > 1 /\ path[i - 1] # Slash

SegAt(seg, path, i, j, last) ==
  IF seg = <<"**">> THEN i <= j /\ (last => i < j)
  ELSE /\ i < j /\ \A c \in Cuts(path) : c <= i \/ c >= j
       /\ NameFits(seg, SubSeq(path, i + 1, j - 1))

\* The first k segments stand in the path, the last of them up to the cut j.
PathAt(line, path, k, j) ==
  \E at \in [0..k -> Cuts(path)] :
    /\ line.anchored => at[0] = 0
    /\ at[k] = j
    /\ \A m \in 1..k : SegAt(line.segs[m], path, at[m - 1], at[m], m = Len(line.segs))

LEMMA PathStart ==
  ASSUME NEW line, NEW path, NEW j
  PROVE  PathAt(line, path, 0, j) <=> j \in Cuts(path) /\ (line.anchored => j = 0)
<1>1. ASSUME j \in Cuts(path), line.anchored => j = 0 PROVE PathAt(line, path, 0, j)
  <2> DEFINE at == [m \in 0..0 |-> j]
  <2>1. at \in [0..0 -> Cuts(path)] /\ at[0] = j
    BY <1>1
  <2>2. \A m \in 1..0 : FALSE
    OBVIOUS
  <2> HIDE DEF at
  <2> QED BY <1>1, <2>1, <2>2 DEF PathAt
<1>2. ASSUME PathAt(line, path, 0, j) PROVE j \in Cuts(path) /\ (line.anchored => j = 0)
  BY <1>2 DEF PathAt
<1> QED BY <1>1, <1>2

LEMMA PathStep ==
  ASSUME NEW line, NEW path, NEW k \in Nat \ {0}, NEW j
  PROVE  PathAt(line, path, k, j) <=>
           /\ j \in Cuts(path)
           /\ \E i \in Cuts(path) : /\ PathAt(line, path, k - 1, i)
                                    /\ SegAt(line.segs[k], path, i, j, k = Len(line.segs))
<1> DEFINE C == Cuts(path)
           S(m, x, y) == SegAt(line.segs[m], path, x, y, m = Len(line.segs))
<1> HIDE DEF C
<1>1. ASSUME PathAt(line, path, k, j)
      PROVE  j \in C /\ \E i \in C : PathAt(line, path, k - 1, i) /\ S(k, i, j)
  <2>1. PICK at \in [0..k -> C] :
          (line.anchored => at[0] = 0) /\ at[k] = j /\ \A m \in 1..k : S(m, at[m - 1], at[m])
    BY <1>1 DEF PathAt, C
  <2> DEFINE low == [m \in 0..(k - 1) |-> at[m]]
  <2>2. /\ k - 1 \in 0..k /\ k \in 0..k /\ k \in 1..k /\ 0 \in 0..(k - 1) /\ k - 1 \in 0..(k - 1)
        /\ \A m \in 0..(k - 1) : m \in 0..k
        /\ \A m \in 1..(k - 1) : m \in 1..k /\ m - 1 \in 0..(k - 1) /\ m \in 0..(k - 1)
    OBVIOUS
  <2>3. low \in [0..(k - 1) -> C] /\ (line.anchored => low[0] = 0) /\ low[k - 1] = at[k - 1]
    BY <2>1, <2>2
  <2>4. \A m \in 1..(k - 1) : S(m, low[m - 1], low[m])
    <3>1. \A m \in 1..(k - 1) : low[m] = at[m] /\ low[m - 1] = at[m - 1]
      BY <2>2
    <3> HIDE DEF low, S
    <3> QED BY <2>1, <2>2, <3>1
  <2>5. PathAt(line, path, k - 1, at[k - 1])
    <3> HIDE DEF low
    <3> QED BY <2>3, <2>4 DEF PathAt, C
  <2>6. at[k - 1] \in C /\ j \in C /\ S(k, at[k - 1], j)
    <3> HIDE DEF S
    <3> QED BY <2>1, <2>2
  <2> HIDE DEF S
  <2> QED BY <2>5, <2>6
<1>2. ASSUME j \in C, NEW i \in C, PathAt(line, path, k - 1, i), S(k, i, j)
      PROVE  PathAt(line, path, k, j)
  <2>1. PICK low \in [0..(k - 1) -> C] :
          (line.anchored => low[0] = 0) /\ low[k - 1] = i /\ \A m \in 1..(k - 1) : S(m, low[m - 1], low[m])
    BY <1>2 DEF PathAt, C
  <2> DEFINE at == [m \in 0..k |-> IF m = k THEN j ELSE low[m]]
  <2>2. at \in [0..k -> C]
    BY <1>2, <2>1
  <2>3. at[0] = low[0] /\ at[k] = j /\ at[k - 1] = i
    BY <2>1
  <2>4. ASSUME NEW m \in 1..k PROVE S(m, at[m - 1], at[m])
    <3>1. CASE m = k
      <4> HIDE DEF at, S
      <4> QED BY <1>2, <2>3, <3>1
    <3>2. CASE m # k
      <4>1. m \in 1..(k - 1) /\ at[m - 1] = low[m - 1] /\ at[m] = low[m]
        BY <3>2
      <4> HIDE DEF at, S
      <4> QED BY <2>1, <4>1
    <3> QED BY <3>1, <3>2
  <2> HIDE DEF at
  <2> QED BY <2>1, <2>2, <2>3, <2>4 DEF PathAt, C
<1> HIDE DEF S
<1>3. PathAt(line, path, k, j) <=> j \in C /\ \E i \in C : PathAt(line, path, k - 1, i) /\ S(k, i, j)
  BY <1>1, <1>2
<1> QED BY <1>3 DEF C, S

LEMMA FitsIs ==
  ASSUME NEW line, LineTypes(line), NEW path
  PROVE  Fits(line, path) <=> PathAt(line, path, Len(line.segs), Len(path) + 1)
<1>1. DOMAIN line.segs = 1..Len(line.segs)
  BY DEF LineTypes
<1> QED BY <1>1 DEF Fits, PathAt, SegAt

LEMMA NameAt ==
  ASSUME NEW path, PathTypes(path), NEW R, NEW seg \in Seq(R), seg # <<"**">>,
         NEW i \in 0..Len(path), NEW j \in (i + 1)..(Len(path) + 1), NEW last
  PROVE  SegAt(seg, path, i, j, last) <=>
           Clear(path, i, j - 1) /\ Stands(seg, path, i, Len(seg), j - 1)
<1> DEFINE L == Len(path)
<1>1. /\ path \in Seq(Range(path)) /\ L \in Nat /\ DOMAIN path = 1..L
      /\ i \in Nat /\ j \in Nat /\ i < j /\ j <= L + 1 /\ i \in 0..L /\ j - 1 \in i..L
  BY DEF PathTypes
<1>2. NameFits(seg, SubSeq(path, i + 1, j - 1)) <=> Stands(seg, path, i, Len(seg), j - 1)
  <2>1. i \in 0..Len(path) /\ j - 1 \in i..Len(path)
    BY <1>1
  <2> QED BY <1>1, <2>1, StandsFits
<1>3. (\A c \in Cuts(path) : c <= i \/ c >= j) <=> Clear(path, i, j - 1)
  <2>1. ASSUME NEW c \in (i + 1)..(j - 1), path[c] = Slash PROVE c \in Cuts(path) /\ ~(c <= i \/ c >= j)
    <3>1. c \in 1..L /\ ~(c <= i \/ c >= j)
      BY <1>1
    <3> QED BY <1>1, <2>1, <3>1 DEF Cuts
  <2>2. ASSUME NEW c \in Cuts(path), ~(c <= i \/ c >= j) PROVE c \in (i + 1)..(j - 1) /\ path[c] = Slash
    <3>1. c \in 1..L /\ path[c] = Slash
      BY <1>1, <2>2 DEF Cuts
    <3> QED BY <1>1, <2>2, <3>1
  <2> QED BY <2>1, <2>2 DEF Clear
<1> QED BY <1>1, <1>2, <1>3 DEF SegAt

----------------------------------------------------------------------------
(* A pattern of several segments is found in a path where they fit *)

LEMMA CutIs ==
  ASSUME NEW path, PathTypes(path)
  PROVE  /\ \A c \in Cuts(path) : c \in 0..(Len(path) + 1)
         /\ \A c : c \in Cuts(path) /\ c <= Len(path) <=> c = 0 \/ (c \in 1..Len(path) /\ path[c] = Slash)
         /\ 0 \in Cuts(path) /\ Len(path) + 1 \in Cuts(path)
<1>1. DOMAIN path = 1..Len(path) /\ Len(path) \in Nat
  BY DEF PathTypes
<1>2. ASSUME NEW c, c \in Cuts(path), c <= Len(path) PROVE c = 0 \/ (c \in 1..Len(path) /\ path[c] = Slash)
  BY <1>1, <1>2 DEF Cuts
<1>3. ASSUME NEW c, c = 0 \/ (c \in 1..Len(path) /\ path[c] = Slash) PROVE c \in Cuts(path) /\ c <= Len(path)
  BY <1>1, <1>3 DEF Cuts
<1>4. \A c \in Cuts(path) : c \in 0..(Len(path) + 1)
  BY <1>1 DEF Cuts
<1>5. 0 \in Cuts(path) /\ Len(path) + 1 \in Cuts(path)
  BY DEF Cuts
<1> QED BY <1>2, <1>3, <1>4, <1>5

LEMMA PathCut ==
  ASSUME NEW line, NEW path, NEW k \in Nat, NEW j, PathAt(line, path, k, j)
  PROVE  j \in Cuts(path)
<1>1. k \in 0..k
  OBVIOUS
<1> QED BY <1>1 DEF PathAt

Matches(f, b, line, path) ==
  /\ PathTypes(path) /\ LineTypes(line) /\ Built(b, line)
  /\ Reaches(f, Written(line), path)

\* How a segment takes the places after d characters to those after y, or,
\* when it is the last, after the z characters there are.
SegStep(f, path, seg, d, y, z, last) ==
  /\ d \in Nat /\ f[d] \subseteq 0..Len(path)
  /\ seg = <<"**">> /\ ~last => f[y] = After(AnyDirs, path, f[d])
  /\ seg = <<"**">> /\ last => f[z] = After("**", path, f[d])
  /\ seg # <<"**">> =>
       /\ Len(seg) \in Nat \ {0} /\ Carries(f, path, d, seg)
       /\ ~last => f[y] = After(Slash, path, f[d + Len(seg)])
       /\ last => z = d + Len(seg)

LEMMA StepIs ==
  ASSUME NEW f, NEW b, NEW line, NEW path, Matches(f, b, line, path), NEW k \in 1..Len(line.segs)
  PROVE  SegStep(f, path, line.segs[k], b[k - 1], b[k], Len(Body(Written(line))), k = Len(line.segs))
<1> DEFINE seg == line.segs[k]
           n == Len(line.segs)
           d == b[k - 1]
           body == Body(Written(line))
           z == Len(body)
           y == b[k]
           L == Len(path)
           w == Len(seg)
<1>1. n \in Nat \ {0} /\ z \in Nat /\ b[n] = z + 1 /\ b \in [0..n -> Nat]
  BY DEF Matches, Built
<1>2. k \in 1..n /\ k - 1 \in 0..(n - 1) /\ k \in 0..n
  BY <1>1
<1>3. d \in 0..z /\ SegIs(seg, body, d, y, k = n) /\ (k # n => y \in 0..z) /\ (k = n => y = z + 1)
  <2>1. d \in 0..z /\ SegIs(seg, body, d, y, k = n)
    BY <1>2 DEF Matches, Built
  <2>2. k # n => k \in 0..(n - 1)
    BY <1>1
  <2>3. k # n => y \in 0..z
    BY <2>2 DEF Matches, Built
  <2> QED BY <1>1, <2>1, <2>3
<1>4. /\ \A x \in 0..z : f[x] \subseteq 0..L
      /\ \A x \in 1..z : f[x] = After(body[x], path, f[x - 1])
  BY DEF Matches, Reaches
<1> HIDE DEF seg, n, d, body, z, y, L
<1>5. d \in Nat /\ f[d] \subseteq 0..L
  BY <1>1, <1>3, <1>4
<1>6. CASE seg = <<"**">> /\ k # n
  <2>1. y = d + 1 /\ body[y] = AnyDirs /\ y \in 1..z /\ y - 1 = d
    <3>1. y = d + 1 /\ body[y] = AnyDirs
      BY <1>3, <1>6 DEF SegIs
    <3>2. y \in 1..z /\ y - 1 = d
      BY <1>1, <1>3, <1>5, <1>6, <3>1
    <3> QED BY <3>1, <3>2
  <2>2. f[y] = After(AnyDirs, path, f[d])
    BY <1>4, <2>1
  <2> QED BY <1>5, <1>6, <2>2 DEF SegStep, seg, n, d, y, z, body, L
<1>7. CASE seg = <<"**">> /\ k = n
  <2>1. z = d + 1 /\ body[z] = "**" /\ z \in 1..z /\ z - 1 = d
    <3>1. y = d + 2 /\ body[d + 1] = "**" /\ y = z + 1
      BY <1>3, <1>7 DEF SegIs
    <3>2. z = d + 1
      BY <1>1, <1>5, <3>1
    <3> QED BY <1>5, <3>1, <3>2
  <2>2. f[z] = After("**", path, f[d])
    BY <1>4, <2>1
  <2> QED BY <1>5, <1>7, <2>2 DEF SegStep, seg, n, d, y, L, z, body
<1>8. CASE seg # <<"**">>
  <2>1. /\ w \in Nat \ {0} /\ y = d + w + 1
        /\ \A o \in 1..w : body[d + o] = seg[o] /\ seg[o] \notin {Slash} \cup Wildcard
        /\ k # n => body[y] = Slash
    BY <1>3, <1>8 DEF SegIs
  <2> HIDE DEF w
  <2>2. d + w <= z /\ (k = n => z = d + w) /\ (k # n => y \in 1..z /\ y - 1 = d + w)
    BY <1>1, <1>3, <1>5, <2>1
  <2>3. ASSUME NEW o \in 1..w PROVE f[d + o] = After(seg[o], path, f[d + o - 1])
    <3>1. d + o \in 1..z
      BY <1>1, <1>5, <2>1, <2>2
    <3> DEFINE x == d + o
    <3>2. body[x] = seg[o]
      BY <2>1
    <3>3. f[x] = After(body[x], path, f[x - 1])
      <4> HIDE DEF x
      <4>1. x \in 1..z
        BY <3>1 DEF x
      <4> QED BY <1>4, <4>1
    <3>4. x = d + o /\ x - 1 = d + o - 1
      BY <1>5, <2>1
    <3> HIDE DEF x
    <3>5. f[x] = After(seg[o], path, f[x - 1])
      BY <3>2, <3>3
    <3> QED BY <3>4, <3>5
  <2>4. Carries(f, path, d, seg)
    BY <1>5, <2>1, <2>3 DEF Carries, w, L
  <2>5. k # n => f[y] = After(Slash, path, f[d + w])
    BY <1>4, <2>1, <2>2
  <2> QED BY <1>5, <1>8, <2>1, <2>2, <2>4, <2>5 DEF SegStep, seg, n, d, y, L, z, body, w
<1> QED BY <1>6, <1>7, <1>8

\* The places after the first k segments are the cuts where these may end.
Stood(f, b, line, path, k) ==
  \A j : j \in f[b[k]] <=> PathAt(line, path, k, j) /\ j <= Len(path)

LEMMA StoodStep ==
  ASSUME NEW f, NEW b, NEW line, NEW path, Matches(f, b, line, path),
         NEW k \in 1..(Len(line.segs) - 1), Stood(f, b, line, path, k - 1)
  PROVE  Stood(f, b, line, path, k)
<1> DEFINE L == Len(path)
           n == Len(line.segs)
           C == Cuts(path)
           seg == line.segs[k]
           d == b[k - 1]
<1>1. n \in Nat \ {0} /\ k \in 1..n /\ k # n /\ k \in Nat \ {0} /\ k - 1 \in Nat
  BY DEF Matches, Built
<1>2. PathTypes(path) /\ LineTypes(line) /\ path \in Seq(Range(path)) /\ L \in Nat
  BY DEF Matches, PathTypes
<1>3. /\ \A c \in C : c \in 0..(L + 1)
      /\ \A c : c \in C /\ c <= L <=> c = 0 \/ (c \in 1..L /\ path[c] = Slash)
  BY <1>2, CutIs
<1>4. /\ d \in Nat /\ f[d] \subseteq 0..L
      /\ seg = <<"**">> => f[b[k]] = After(AnyDirs, path, f[d])
      /\ seg # <<"**">> =>
           /\ Len(seg) \in Nat \ {0} /\ Carries(f, path, d, seg)
           /\ f[b[k]] = After(Slash, path, f[d + Len(seg)])
  <2>1. SegStep(f, path, seg, d, b[k], Len(Body(Written(line))), k = n)
    BY <1>1, StepIs
  <2>2. (k = n) = FALSE
    BY <1>1
  <2> HIDE DEF n, seg, d
  <2> QED BY <2>1, <2>2 DEF SegStep
<1> HIDE DEF n, L, d, seg, C
<1>5. ASSUME NEW i PROVE i \in f[d] <=> PathAt(line, path, k - 1, i) /\ i <= L /\ i \in C
  <2>1. PathAt(line, path, k - 1, i) => i \in C
    BY <1>1, PathCut DEF C
  <2> QED BY <2>1 DEF Stood, L, d
<1>6. ASSUME NEW j \in C, j <= L, NEW i \in C, SegAt(seg, path, i, j, FALSE) PROVE i <= L /\ i <= j
  <2>1. i <= j
    BY <1>3, <1>6 DEF SegAt
  <2> QED BY <1>2, <1>3, <1>6, <2>1
<1>7. ASSUME NEW j
      PROVE  PathAt(line, path, k, j) /\ j <= L <=>
               j \in C /\ j <= L /\ \E i \in f[d] : SegAt(seg, path, i, j, FALSE)
  <2>1. PathAt(line, path, k, j) <=>
          j \in C /\ \E i \in C : PathAt(line, path, k - 1, i) /\ SegAt(seg, path, i, j, k = n)
    BY <1>1, PathStep DEF C, seg, n
  <2>2. (k = n) = FALSE
    BY <1>1
  <2> QED BY <1>5, <1>6, <2>1, <2>2
<1>8. ASSUME NEW j
      PROVE  j \in f[b[k]] <=> j \in C /\ j <= L /\ \E i \in f[d] : SegAt(seg, path, i, j, FALSE)
  <2>1. CASE seg = <<"**">>
    <3>1. ASSUME NEW i \in f[d], NEW x \in i..L
          PROVE  Accepts(AnyDirs, SubSeq(path, i + 1, x)) <=> x = i \/ (x > i + 1 /\ path[x] = Slash)
      <4>1. i \in 0..Len(path) /\ x \in i..Len(path)
        BY <1>4 DEF L
      <4> QED BY <1>2, <4>1, AcceptsIs
    <3>2. ASSUME j \in f[b[k]] PROVE j \in C /\ j <= L /\ \E i \in f[d] : SegAt(seg, path, i, j, FALSE)
      <4>1. PICK i \in f[d] : j \in 0..L /\ i <= j /\ Accepts(AnyDirs, SubSeq(path, i + 1, j))
        BY <1>4, <2>1, <3>2 DEF After, L
      <4>2. i \in 0..L /\ i \in C /\ j \in i..L
        BY <1>2, <1>4, <1>5, <4>1
      <4>3. j = i \/ (j > i + 1 /\ path[j] = Slash)
        BY <3>1, <4>1, <4>2
      <4>4. j \in C /\ j <= L
        BY <1>2, <1>3, <4>2, <4>3
      <4> QED BY <2>1, <4>1, <4>4 DEF SegAt
    <3>3. ASSUME j \in C, j <= L, NEW i \in f[d], SegAt(seg, path, i, j, FALSE) PROVE j \in f[b[k]]
      <4>1. i \in 0..L /\ i \in C /\ i <= j /\ j \in 0..L /\ j \in i..L
        BY <1>2, <1>3, <1>4, <1>5, <2>1, <3>3 DEF SegAt
      <4>2. ASSUME j # i PROVE j > i + 1 /\ path[j] = Slash
        <5>1. j \in 1..L /\ path[j] = Slash
          BY <1>2, <1>3, <3>3, <4>1, <4>2
        <5>2. j > 1 /\ path[j - 1] # Slash
          <6>1. j \in DOMAIN path
            BY <1>2, <5>1 DEF L
          <6> QED BY <1>2, <5>1, <6>1 DEF PathTypes
        <5>3. i = 0 \/ path[i] = Slash
          BY <1>3, <4>1
        <5>4. j # i + 1
          <6>1. j = i + 1 => i = j - 1
            BY <4>1
          <6>2. j = i + 1 => i # 0
            BY <4>1, <5>2
          <6> QED BY <5>2, <5>3, <6>1, <6>2
        <5> QED BY <4>1, <4>2, <5>1, <5>4
      <4>3. Accepts(AnyDirs, SubSeq(path, i + 1, j))
        BY <3>1, <4>1, <4>2
      <4> QED BY <1>4, <2>1, <4>1, <4>3 DEF After, L
    <3> QED BY <3>2, <3>3
  <2>2. CASE seg # <<"**">>
    <3> DEFINE w == Len(seg)
    <3>1. w \in Nat \ {0} /\ f[b[k]] = After(Slash, path, f[d + w])
      BY <1>4, <2>2
    <3>2. \A x : x \in f[d + w] <=> Via(f, path, d, seg, w, x)
      BY <1>2, <1>4, <2>2, CharsThrough
    <3> HIDE DEF w
    <3>3. ASSUME NEW i \in f[d], NEW x \in (i + 1)..L
          PROVE  SegAt(seg, path, i, x, FALSE) <=> Clear(path, i, x - 1) /\ Stands(seg, path, i, w, x - 1)
      <4>1. i \in 0..Len(path) /\ x \in (i + 1)..(Len(path) + 1)
        BY <1>2, <1>4 DEF L
      <4>2. seg \in Seq(Range(seg))
        <5>1. DOMAIN line.segs = 1..n
          BY <1>2 DEF LineTypes, n
        <5>2. seg \in Range(line.segs)
          BY <1>1, <5>1 DEF Range, seg
        <5> QED BY <1>2, <2>2, <5>2 DEF LineTypes
      <4> QED BY <1>2, <2>2, <4>1, <4>2, NameAt DEF w
    <3>4. ASSUME NEW x \in 0..L, NEW y \in x..L
          PROVE  Accepts(Slash, SubSeq(path, x + 1, y)) <=> y = x + 1 /\ path[y] = Slash
      <4>1. x \in 0..Len(path) /\ y \in x..Len(path)
        BY DEF L
      <4> QED BY <1>2, <4>1, AcceptsIs
    <3>5. ASSUME j \in f[b[k]] PROVE j \in C /\ j <= L /\ \E i \in f[d] : SegAt(seg, path, i, j, FALSE)
      <4>1. PICK x \in f[d + w] : j \in 0..L /\ x <= j /\ Accepts(Slash, SubSeq(path, x + 1, j))
        BY <3>1, <3>5 DEF After, L
      <4>2. Via(f, path, d, seg, w, x)
        BY <3>2
      <4>3. PICK i \in f[d] : x \in i..L /\ Clear(path, i, x) /\ Stands(seg, path, i, w, x)
        BY <4>2 DEF Via, L
      <4>4. i \in 0..L /\ x \in 0..L /\ j \in x..L
        BY <1>2, <1>4, <4>1, <4>3
      <4>5. j = x + 1 /\ path[j] = Slash
        BY <3>4, <4>1, <4>4
      <4>6. j - 1 = x /\ j \in (i + 1)..L /\ j \in 1..L /\ j <= L
        BY <1>2, <4>3, <4>4, <4>5
      <4>7. SegAt(seg, path, i, j, FALSE)
        BY <3>3, <4>3, <4>6
      <4> QED BY <1>3, <4>5, <4>6, <4>7
    <3>6. ASSUME j \in C, j <= L, NEW i \in f[d], SegAt(seg, path, i, j, FALSE) PROVE j \in f[b[k]]
      <4>1. i < j
        BY <2>2, <3>6 DEF SegAt
      <4>2. i \in 0..L /\ j \in 0..L /\ j \in (i + 1)..L /\ j \in 1..L
        BY <1>2, <1>3, <1>4, <3>6, <4>1
      <4>3. path[j] = Slash
        BY <1>3, <3>6, <4>2
      <4>4. Clear(path, i, j - 1) /\ Stands(seg, path, i, w, j - 1)
        BY <3>3, <3>6, <4>2
      <4> DEFINE x == j - 1
      <4>5. x \in i..L /\ x \in 0..L /\ j \in x..L /\ j = x + 1 /\ x <= j
        BY <1>2, <4>2
      <4>6. x \in f[d + w]
        BY <3>2, <4>4, <4>5 DEF Via, L
      <4> HIDE DEF x
      <4>7. Accepts(Slash, SubSeq(path, x + 1, j))
        BY <3>4, <4>3, <4>5
      <4> QED BY <3>1, <4>2, <4>5, <4>6, <4>7 DEF After, L
    <3> QED BY <3>5, <3>6
  <2> QED BY <2>1, <2>2
<1> QED BY <1>7, <1>8 DEF Stood, L

LEMMA PathFound ==
  ASSUME NEW line, LineTypes(line), NEW path, PathTypes(path), MatchFullPath(Written(line))
  PROVE  Finds(Written(line), path) <=> Fits(line, path)
<1> DEFINE n == Len(line.segs)
           L == Len(path)
           C == Cuts(path)
           glob == Written(line)
           z == Len(Body(glob))
<1>1. PICK b : Built(b, line)
  BY WrittenIs
<1>2. n \in Nat \ {0} /\ b[0] = 0 /\ z \in Nat /\ L \in Nat /\ path \in Seq(Range(path))
  BY <1>1 DEF Built, PathTypes
<1>3. PICK f : Reaches(f, glob, path)
  BY <1>2, FoundIs
<1>4. Matches(f, b, line, path)
  BY <1>1, <1>3 DEF Matches
<1>5. /\ \A c \in C : c \in 0..(L + 1)
      /\ \A c : c \in C /\ c <= L <=> c = 0 \/ (c \in 1..L /\ path[c] = Slash)
      /\ L + 1 \in C
  BY CutIs
<1>6. Stood(f, b, line, path, 0)
  <2>1. Anchored(glob) <=> line.anchored
    BY <1>1 DEF Built
  <2>2. f[0] = IF line.anchored THEN {0} ELSE {0} \cup {i \in 1..L : path[i] = Slash}
    <3>1. DOMAIN path = 1..L
      BY <1>2
    <3>2. f[0] = IF Anchored(glob) THEN {0} ELSE {0} \cup {i \in DOMAIN path : path[i] = Slash}
      BY <1>3 DEF Reaches, Starts
    <3> QED BY <2>1, <3>1, <3>2
  <2>3. \A j : PathAt(line, path, 0, j) <=> j \in C /\ (line.anchored => j = 0)
    BY PathStart
  <2>4. \A j : j \in f[0] <=> j \in C /\ (line.anchored => j = 0) /\ j <= L
    <3> HIDE DEF C, L
    <3> QED BY <1>2, <1>5, <2>2
  <2> QED BY <1>2, <2>3, <2>4 DEF Stood
<1>7. Stood(f, b, line, path, n - 1)
  <2> DEFINE P == {k \in 0..(n - 1) : Stood(f, b, line, path, k)}
  <2>1. 0 \in P
    BY <1>2, <1>6
  <2>2. ASSUME NEW k \in 1..(n - 1), k - 1 \in P PROVE k \in P
    <3>1. Stood(f, b, line, path, k)
      BY <1>4, <2>2, StoodStep
    <3>2. k \in 0..(n - 1)
      BY <1>2
    <3> QED BY <3>1, <3>2
  <2>3. n - 1 \in P
    <3> HIDE DEF P, n
    <3>1. n - 1 \in Nat /\ n - 1 \in 0..(n - 1)
      BY <1>2
    <3>2. \A k \in 0..(n - 1) : k \in P
      BY <2>1, <2>2, <3>1, CountUp
    <3> QED BY <3>1, <3>2
  <2> QED BY <2>3
<1> DEFINE seg == line.segs[n]
           d == b[n - 1]
<1>8. n \in 1..n /\ n \in Nat \ {0} /\ n - 1 \in Nat
  BY <1>2
<1>9. /\ d \in Nat /\ f[d] \subseteq 0..L
      /\ seg = <<"**">> => f[z] = After("**", path, f[d])
      /\ seg # <<"**">> => Len(seg) \in Nat \ {0} /\ Carries(f, path, d, seg) /\ z = d + Len(seg)
  <2>1. SegStep(f, path, seg, d, b[n], z, n = n)
    BY <1>4, <1>8, StepIs
  <2>2. (n = n) = TRUE
    OBVIOUS
  <2> HIDE DEF n, seg, d, z
  <2> QED BY <2>1, <2>2 DEF SegStep
<1>10. Finds(glob, path) <=> L \in f[z]
  <2>1. Finds(glob, path) <=> Found(glob, path)
    BY DEF Finds
  <2>2. f[z] \subseteq 0..L /\ (Found(glob, path) <=> \E j \in f[z] : j = L)
    BY <1>2, <1>3 DEF Reaches
  <2> QED BY <2>1, <2>2
<1>11. Fits(line, path) <=> \E i \in C : PathAt(line, path, n - 1, i) /\ SegAt(seg, path, i, L + 1, TRUE)
  <2>1. Fits(line, path) <=> PathAt(line, path, n, L + 1)
    BY FitsIs
  <2>2. PathAt(line, path, n, L + 1) <=>
          L + 1 \in C /\ \E i \in C : PathAt(line, path, n - 1, i) /\ SegAt(seg, path, i, L + 1, n = n)
    BY <1>8, PathStep
  <2>3. (n = n) = TRUE
    OBVIOUS
  <2> QED BY <1>5, <2>1, <2>2, <2>3
<1>12. ASSUME NEW i PROVE i \in f[d] <=> PathAt(line, path, n - 1, i) /\ i <= L /\ i \in C
  <2>1. PathAt(line, path, n - 1, i) => i \in C
    BY <1>8, PathCut
  <2> QED BY <1>7, <2>1 DEF Stood
<1> HIDE DEF n, L, C, glob, z, seg, d
<1>13. Fits(line, path) <=> \E i \in f[d] : SegAt(seg, path, i, L + 1, TRUE)
  <2>1. ASSUME NEW i \in C, SegAt(seg, path, i, L + 1, TRUE) PROVE i <= L
    <3>1. i < L + 1 /\ i \in Nat
      BY <1>2, <1>5, <2>1 DEF SegAt
    <3> QED BY <1>2, <3>1
  <2> QED BY <1>11, <1>12, <2>1
<1>14. L \in f[z] <=> \E i \in f[d] : SegAt(seg, path, i, L + 1, TRUE)
  <2>1. CASE seg = <<"**">>
    <3>1. ASSUME NEW i \in f[d]
          PROVE  i <= L /\ L \in 0..L /\ Accepts("**", SubSeq(path, i + 1, L)) /\ SegAt(seg, path, i, L + 1, TRUE)
      <4>1. i \in Nat /\ i <= L /\ L \in 0..L /\ L \in i..L /\ i < L + 1
        BY <1>2, <1>9
      <4>2. i \in 0..Len(path) /\ L \in i..Len(path)
        BY <4>1 DEF L
      <4>3. Accepts("**", SubSeq(path, i + 1, L))
        BY <1>2, <4>2, AcceptsIs
      <4> QED BY <2>1, <4>1, <4>3 DEF SegAt
    <3>2. L \in f[z] <=> \E i \in f[d] : L \in 0..L /\ i <= L /\ Accepts("**", SubSeq(path, i + 1, L))
      BY <1>9, <2>1 DEF After, L
    <3> QED BY <3>1, <3>2
  <2>2. CASE seg # <<"**">>
    <3> DEFINE w == Len(seg)
    <3>1. w \in Nat \ {0} /\ z = d + w
      BY <1>9, <2>2
    <3>2. \A x : x \in f[d + w] <=> Via(f, path, d, seg, w, x)
      BY <1>2, <1>9, <2>2, CharsThrough
    <3>3. seg \in Seq(Range(seg))
      <4>1. DOMAIN line.segs = 1..n
        BY DEF LineTypes, n
      <4>2. seg \in Range(line.segs)
        BY <1>8, <4>1 DEF Range, seg
      <4> QED BY <2>2, <4>2 DEF LineTypes
    <3>4. ASSUME NEW i \in f[d]
          PROVE  SegAt(seg, path, i, L + 1, TRUE) <=> L \in i..L /\ Clear(path, i, L) /\ Stands(seg, path, i, w, L)
      <4>1. i \in Nat /\ i <= L /\ L \in i..L /\ L + 1 \in (i + 1)..(L + 1) /\ (L + 1) - 1 = L /\ i \in 0..L
        BY <1>2, <1>9
      <4>2. i \in 0..Len(path) /\ L + 1 \in (i + 1)..(Len(path) + 1)
        BY <4>1 DEF L
      <4>3. SegAt(seg, path, i, L + 1, TRUE) <=>
              Clear(path, i, (L + 1) - 1) /\ Stands(seg, path, i, w, (L + 1) - 1)
        BY <2>2, <3>3, <4>2, NameAt
      <4> QED BY <4>1, <4>3
    <3> HIDE DEF w
    <3> QED BY <3>1, <3>2, <3>4 DEF Via, L
  <2> QED BY <2>1, <2>2
<1> QED BY <1>10, <1>13, <1>14 DEF glob

LEMMA NameFound ==
  ASSUME NEW line, LineTypes(line), NEW path, PathTypes(path), ~MatchFullPath(Written(line)), Fits(line, path)
  PROVE  Finds(Written(line), path)
<1> DEFINE glob == Written(line)
           L == Len(path)
           I == {i \in 1..L : path[i] = Slash}
           c == IF I # {} THEN Max(I) ELSE 0
           t == SubSeq(path, c + 1, L)
           T == Len(t)
           z == Len(Body(glob))
<1>1. PICK b : Built(b, line)
  BY WrittenIs
<1>2. /\ Len(line.segs) = 1 /\ ~line.anchored /\ z \in Nat /\ b[0] = 0
      /\ path \in Seq(Range(path)) /\ L \in Nat /\ DOMAIN path = 1..L /\ ~Anchored(glob)
  BY <1>1 DEF Built, PathTypes
<1>3. Basename(path) = t
  BY DEF Basename, SelectLastInSeq
<1>4. c \in 0..L /\ Clear(path, c, L) /\ c \in Cuts(path)
  <2>1. CASE I = {}
    <3>1. c = 0
      BY <2>1
    <3>2. \A x \in (0 + 1)..L : path[x] # Slash
      BY <1>2, <2>1
    <3> HIDE DEF c
    <3> QED BY <1>2, <3>1, <3>2 DEF Clear, Cuts
  <2>2. CASE I # {}
    <3>1. c \in I /\ \A i \in I : i <= c
      <4>1. I \in SUBSET (1..L) /\ L \in Nat
        BY <1>2
      <4> HIDE DEF I, L
      <4> QED BY <2>2, <4>1, HighestIs DEF Max, Highest
    <3> HIDE DEF c
    <3>2. \A x \in (c + 1)..L : path[x] # Slash
      BY <1>2, <3>1
    <3> QED BY <1>2, <3>1, <3>2 DEF Clear, Cuts
  <2> QED BY <2>1, <2>2
<1> HIDE DEF c
<1>5. /\ t \in Seq(Range(path)) /\ T = L - c /\ T \in Nat /\ \A x \in 1..T : t[x] = path[c + x]
      /\ SubSeq(t, 0 + 1, T) = t
  <2>1. t \in Seq(Range(path)) /\ T = L - c /\ \A x \in 1..(L - c) : t[x] = path[c + x]
    <3>1. c \in Nat /\ c <= L /\ L \in Nat
      BY <1>2, <1>4
    <3>2. t \in Seq(Range(path))
      BY <1>2, <3>1
    <3>3. Len(t) = L - c
      <4>1. path \in Seq(Range(path)) /\ L = Len(path)
        BY <1>2
      <4> HIDE DEF L
      <4>2. \A i \in Nat : i <= L => Len(SubSeq(path, i + 1, L)) = L - i
        BY <3>1, <4>1
      <4> QED BY <3>1, <4>2
    <3>4. \A x \in 1..(L - c) : t[x] = path[c + x]
      BY <1>2, <3>1
    <3> QED BY <3>2, <3>3, <3>4
  <2>2. T \in Nat
    <3>1. L - c \in Nat
      BY <1>2, <1>4
    <3> QED BY <2>1, <3>1
  <2> HIDE DEF t
  <2>3. SubSeq(t, 0 + 1, T) = t
    BY <2>1, <2>2
  <2> QED BY <2>1, <2>2, <2>3
<1> HIDE DEF t, T
<1>6. PICK f : Reaches(f, glob, t)
  BY <1>2, <1>5, FoundIs
<1>7. f[0] = 0..T /\ (Found(glob, t) <=> \E j \in f[z] : TRUE)
  BY <1>2, <1>6 DEF Reaches, Starts, T
<1>8. Finds(glob, path) <=> Found(glob, t)
  BY <1>3 DEF Finds
<1> DEFINE seg == line.segs[1]
<1>9. SegIs(seg, Body(glob), 0, z + 1, TRUE)
  <2>1. 1 \in 1..Len(line.segs) /\ 1 - 1 = 0 /\ (1 = Len(line.segs)) = TRUE
    BY <1>2
  <2>2. b[1] = z + 1
    BY <1>1, <1>2 DEF Built
  <2>3. SegIs(seg, Body(glob), b[1 - 1], b[1], 1 = Len(line.segs))
    BY <1>1, <2>1 DEF Built
  <2> HIDE DEF seg, z
  <2> QED BY <1>2, <2>1, <2>2, <2>3
<1>10. \A x \in 1..z : f[x] = After(Body(glob)[x], t, f[x - 1])
  BY <1>6 DEF Reaches
<1> HIDE DEF seg, z
<1>11. \E j : j \in f[z]
  <2>1. CASE seg = <<"**">>
    <3>1. z = 1 /\ Body(glob)[1] = "**"
      <4>1. z + 1 = 0 + 2 /\ Body(glob)[0 + 1] = "**"
        BY <1>9, <2>1 DEF SegIs
      <4> QED BY <1>2, <4>1
    <3>2. f[1] = After("**", t, f[0])
      <4>1. 1 \in 1..z /\ 1 - 1 = 0
        BY <3>1
      <4> QED BY <1>10, <3>1, <4>1
    <3>3. 0 \in 0..T /\ 0 <= 0 /\ Accepts("**", SubSeq(t, 0 + 1, 0))
      <4>1. 0 \in 0..Len(t) /\ 0 \in 0..Len(t)
        BY <1>5 DEF T
      <4>2. Accepts("**", SubSeq(t, 0 + 1, 0))
        BY <1>5, <4>1, AcceptsIs
      <4> QED BY <1>5, <4>2
    <3>4. 0 \in f[1]
      BY <1>7, <3>2, <3>3 DEF After, T
    <3> QED BY <3>1, <3>4
  <2>2. CASE seg # <<"**">>
    <3> DEFINE w == Len(seg)
    <3>1. /\ w \in Nat \ {0} /\ z = w
          /\ \A o \in 1..w : Body(glob)[o] = seg[o] /\ seg[o] \notin {Slash} \cup Wildcard
      <4>1. /\ w \in Nat \ {0} /\ z + 1 = 0 + w + 1
            /\ \A o \in 1..w : Body(glob)[0 + o] = seg[o] /\ seg[o] \notin {Slash} \cup Wildcard
        BY <1>9, <2>2 DEF SegIs
      <4> HIDE DEF w
      <4>2. \A o \in 1..w : 0 + o = o
        BY <4>1
      <4> QED BY <1>2, <4>1, <4>2
    <3>2. Carries(f, t, 0, seg)
      <4>1. \A o \in 1..w : f[o] = After(seg[o], t, f[o - 1]) /\ 0 + o = o /\ 0 + o - 1 = o - 1
        <5> HIDE DEF w
        <5> QED BY <1>10, <3>1
      <4> QED BY <1>7, <3>1, <4>1 DEF Carries, T
    <3>3. seg \in Seq(Range(seg))
      <4>1. DOMAIN line.segs = 1..1
        BY <1>2 DEF LineTypes
      <4>2. seg \in Range(line.segs)
        BY <4>1 DEF Range, seg
      <4> QED BY <2>2, <4>2 DEF LineTypes
    <3>4. NameFits(seg, t)
      <4>1. PICK at \in [0..1 -> Cuts(path)] :
              at[1] = L + 1 /\ SegAt(seg, path, at[1 - 1], at[1], TRUE)
        <5>1. PathAt(line, path, 1, L + 1)
          BY <1>2, FitsIs
        <5>2. 1 \in 1..1 /\ (1 = Len(line.segs)) = TRUE
          BY <1>2
        <5> QED BY <5>1, <5>2 DEF PathAt, seg
      <4> DEFINE i == at[0]
      <4>2. i \in Cuts(path) /\ SegAt(seg, path, i, L + 1, TRUE)
        <5>1. 1 - 1 = 0 /\ 0 \in 0..1
          OBVIOUS
        <5> QED BY <4>1, <5>1
      <4> HIDE DEF i
      <4>3. i < L + 1 /\ (\A x \in Cuts(path) : x <= i \/ x >= L + 1) /\ NameFits(seg, SubSeq(path, i + 1, (L + 1) - 1))
        BY <2>2, <4>2 DEF SegAt
      <4>4. i = c
        <5>1. i \in 0..L
          <6>1. i \in 0..(Len(path) + 1)
            BY <4>2, CutIs
          <6> QED BY <1>2, <4>3, <6>1
        <5>2. c <= i
          BY <1>2, <1>4, <4>3
        <5>3. i <= L /\ (i = 0 \/ (i \in 1..L /\ path[i] = Slash))
          <6>1. i <= L
            BY <1>2, <5>1
          <6> QED BY <4>2, <6>1, CutIs
        <5>4. ~(i \in (c + 1)..L /\ path[i] = Slash)
          BY <1>4 DEF Clear
        <5> QED BY <1>2, <1>4, <5>1, <5>2, <5>3, <5>4
      <4>5. (L + 1) - 1 = L
        BY <1>2
      <4> QED BY <4>3, <4>4, <4>5 DEF t
    <3>5. Stands(seg, t, 0, w, T)
      <4>1. 0 \in 0..Len(t) /\ T \in 0..Len(t)
        BY <1>5 DEF T
      <4> QED BY <1>5, <3>3, <3>4, <4>1, StandsFits
    <3>6. Clear(t, 0, T)
      <4>1. \A x \in 1..T : c + x \in (c + 1)..L
        BY <1>2, <1>4, <1>5
      <4>2. \A x \in 1..T : t[x] # Slash
        BY <1>4, <1>5, <4>1 DEF Clear
      <4>3. 0 + 1 = 1
        OBVIOUS
      <4> QED BY <4>2, <4>3 DEF Clear
    <3>7. T \in f[0 + w]
      <4>1. 0 \in f[0] /\ T \in 0..Len(t)
        BY <1>5, <1>7 DEF T
      <4>2. Via(f, t, 0, seg, w, T)
        BY <3>5, <3>6, <4>1 DEF Via
      <4> QED BY <1>5, <3>2, <4>2, CharsThrough
    <3>8. 0 + w = z
      <4> HIDE DEF w
      <4> QED BY <3>1
    <3> QED BY <3>7, <3>8
  <2> QED BY <2>1, <2>2
<1> QED BY <1>7, <1>8, <1>11

----------------------------------------------------------------------------
(* Files are ignored as the patterns of the filter say *)

LEMMA PatternsAreLines == FilterSpec => [](patterns \in Seq(Line))
<1>1. FilterInit => patterns \in Seq(Line)
  BY DEF FilterInit
<1>2. patterns \in Seq(Line) /\ [FilterNext]_patterns => (patterns \in Seq(Line))'
  BY DEF FilterNext, AddPattern
<1> QED BY <1>1, <1>2, PTL DEF FilterSpec

LEMMA FoundIsExpected ==
  ASSUME patterns \in Seq(Line) PROVE IgnoresWhatIsWritten
<1> SUFFICES ASSUME NEW path \in File
             PROVE  /\ (\A line \in Range(patterns) : MatchFullPath(Written(line))) =>
                         IsIgnored(path) = Expected(path)
                    /\ (\A line \in Range(patterns) : ~line.negated) /\ Expected(path) => IsIgnored(path)
  BY DEF IgnoresWhatIsWritten
<1> DEFINE N == DOMAIN patterns
           found == {i \in N : Finds(Written(patterns[i]), path)}
           fits == {i \in N : Fits(patterns[i], path)}
<1>1. PathTypes(path)
  BY FilterAssumption DEF PathTypes
<1>2. N = 1..Len(patterns) /\ Len(patterns) \in Nat /\ \A i \in N : patterns[i] \in Line /\ patterns[i] \in Range(patterns)
  BY DEF Range
<1>3. \A i \in N : LineTypes(patterns[i])
  BY <1>2, FilterAssumption DEF LineTypes
<1>4. IsIgnored(path) = Decided(found) /\ Expected(path) = Decided(fits)
  BY DEF IsIgnored, Expected
<1>5. ASSUME \A line \in Range(patterns) : MatchFullPath(Written(line))
      PROVE  IsIgnored(path) = Expected(path)
  <2>1. \A i \in N : Finds(Written(patterns[i]), path) <=> Fits(patterns[i], path)
    BY <1>1, <1>2, <1>3, <1>5, PathFound
  <2>2. found = fits
    BY <2>1
  <2> HIDE DEF found, fits
  <2> QED BY <1>4, <2>2
<1>6. ASSUME \A line \in Range(patterns) : ~line.negated, Expected(path)
      PROVE  IsIgnored(path)
  <2>1. fits # {}
    BY <1>4, <1>6 DEF Decided
  <2>2. \A i \in N : Fits(patterns[i], path) => Finds(Written(patterns[i]), path)
    BY <1>1, <1>2, <1>3, PathFound, NameFound
  <2>3. found # {}
    BY <2>1, <2>2
  <2>4. Max(found) \in N
    <3>1. found \in SUBSET (1..Len(patterns)) /\ Len(patterns) \in Nat
      BY <1>2
    <3> HIDE DEF found
    <3> QED BY <1>2, <2>3, <3>1, HighestIs DEF Max, Highest
  <2>5. ~patterns[Max(found)].negated
    BY <1>2, <1>6, <2>4
  <2> HIDE DEF found
  <2> QED BY <1>4, <2>3, <2>5 DEF Decided
<1> QED BY <1>5, <1>6

\* globToRegex and ignores find, for patterns of any names and wildcards and
\* paths of any length, the paths that the patterns name: all of them, and no
\* other when every pattern has a slash in it.  Of what lies below a directory
\* that a pattern names this says nothing (see CoversDirectories).
THEOREM PatternsIgnore == FilterSpec => []IgnoresWhatIsWritten
BY PatternsAreLines, FoundIsExpected, PTL
=============================================================================

------------------------------ MODULE SyncState ------------------------------
(***************************************************************************)
(* The state of SyncOrchestrator and how it follows the transport.  The    *)
(* orchestrator is not told when the socket opens or closes: it looks at   *)
(* the connection every 500 ms, so "syncing" may outlive the connection,   *)
(* and a connection may be up before the orchestrator knows.               *)
(* GateQueue and PauseBuffer extend this module.                           *)
(***************************************************************************)
EXTENDS Naturals

VARIABLES state,   \* _state: the stored state, "paused" is derived elsewhere
          conn,    \* the transport's connection state
          timers   \* the intervals start() installs are running

syncVars == <<state, conn, timers>>

DaemonState == {"starting", "scanning", "connecting", "syncing", "reconnecting", "stopping"}
ConnectionState == {"connecting", "connected", "reconnecting", "disconnected"}

SyncTypeOK ==
  /\ state \in DaemonState
  /\ conn \in ConnectionState
  /\ timers \in BOOLEAN

(* MflowDaemon.start connects the transport before it starts the engine.   *)
SyncInit == state = "starting" /\ conn = "connecting" /\ timers = FALSE

Stopping == state = "stopping"
Syncing == state = "syncing"

(* start() up to its first await ...                                       *)
StartScanning ==
  /\ state = "starting"
  /\ state' = "scanning"
  /\ UNCHANGED <<conn, timers>>

(* ... and the rest: timers, and syncing at once when already connected.   *)
StartTimers ==
  /\ ~timers /\ state = "scanning"
  /\ timers' = TRUE
  /\ state' = IF conn = "connected" THEN "syncing" ELSE state
  /\ UNCHANGED conn

(* The watcher has reported every file.                                    *)
WatcherReady ==
  /\ timers /\ state = "scanning"
  /\ state' = "connecting"
  /\ UNCHANGED <<conn, timers>>

(* One tick of the connection poll.                                        *)
FollowedStaleSync ==
  CASE conn = "connected" -> "syncing"
    [] conn = "reconnecting" -> "reconnecting"
    [] conn = "connecting" -> IF state = "scanning" THEN state ELSE "connecting"
    [] OTHER -> state
Followed ==
  CASE conn = "connected" -> "syncing"
    [] conn = "reconnecting" -> "reconnecting"
    [] conn = "connecting" -> IF state = "scanning" THEN state ELSE "connecting"
    [] OTHER -> CASE state \in {"syncing", "reconnecting"} -> "reconnecting"
                  [] state = "scanning" -> state
                  [] OTHER -> "connecting"
SyncConnectionState ==
  /\ timers /\ ~Stopping
  /\ state' = Followed
  /\ UNCHANGED <<conn, timers>>

(* stop() up to its first await: no tick of any interval comes after it.   *)
(* It is called once start() is through.                                   *)
Stop ==
  /\ timers /\ ~Stopping
  /\ state' = "stopping" /\ timers' = FALSE
  /\ UNCHANGED conn

(* The transport: joined (361), socket closed (319), refused by the relay  *)
(* for good (351-356).                                                     *)
Joined == conn \in {"connecting", "reconnecting"} /\ conn' = "connected"
Closed == conn \in {"connecting", "connected"} /\ conn' = "reconnecting"
Refused == conn \in {"connecting", "reconnecting"} /\ conn' = "disconnected"

ConnectionChanges ==
  /\ ~Stopping
  /\ Joined \/ Closed \/ Refused
  /\ UNCHANGED <<state, timers>>

(* Every step but Stop, which ends other components too.                   *)
SyncStep == \/ StartScanning \/ StartTimers \/ WatcherReady
            \/ SyncConnectionState \/ ConnectionChanges

(* The intervals and the engine's own start go on by themselves.           *)
SyncFairness ==
  /\ WF_syncVars(StartScanning)
  /\ WF_syncVars(StartTimers)
  /\ WF_syncVars(SyncConnectionState)
=============================================================================

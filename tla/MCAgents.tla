------------------------------ MODULE MCAgents ------------------------------
(***************************************************************************)
(* What surrounds the agents' daemons: the clients that take locks over    *)
(* their control sockets, and the transport between them.  LockClients     *)
(* treats an announcement as delivered some time, PeerTransport a frame as *)
(* a number; they share no variable, so each is checked with the other at  *)
(* rest, both in one run.                                                  *)
(***************************************************************************)
EXTENDS LockClients, PeerTransport, TLC

CONSTANTS h1, h2, c1, c2, c3, p1, p2

VARIABLE part
agentVars == <<clientVars, peerVars, part>>

\* A command line and an agent share the daemon h1.
MCDaemonOf == c1 :> h1 @@ c2 :> h1 @@ c3 :> h2
Change(action, path, target) == [action |-> action, path |-> path, moveTo |-> target]
MCPatch == { <<Change("update", p1, p2)>>,
             <<Change("add", p1, NoPath), Change("delete", p2, NoPath), Change("update", p1, NoPath)>> }
MCFiles == { <<p1, p2>> }
\* The clients of one daemon are interchangeable, and so are peers.
MCSymmetry == Permutations({c1, c2}) \cup Permutations(Peer)

MCInit ==
  /\ part \in {"clients", "transport"}
  /\ ClientsInit /\ PeerInit

MCNext ==
  /\ UNCHANGED part
  /\ \/ part = "clients" /\ ClientsNext /\ UNCHANGED peerVars
     \/ part = "transport" /\ PeerNext /\ UNCHANGED clientVars

MCSpec == MCInit /\ [][MCNext]_agentVars
=============================================================================

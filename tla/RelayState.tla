----------------------------- MODULE RelayState -----------------------------
(***************************************************************************)
(* The state that both copies of the signaling relay keep: rooms of peers, *)
(* the sockets and what their clients have been told, and the sockets that *)
(* have not joined a room yet.                                             *)
(***************************************************************************)
EXTENDS FiniteSets, Functions, Naturals

CONSTANTS Socket, RoomId, PeerId, Hash, Ip,
          IpOf,                      \* the address each socket comes from
          Limits,                    \* the limits the environment may configure
          MaxUnauth, MaxUnauthPerIp, \* maxUnauthenticatedSockets...
          None

ASSUME RelayAssumption ==
  /\ IpOf \in [Socket -> Ip]
  /\ {MaxUnauth, MaxUnauthPerIp} \subseteq Nat \ {0}
  /\ Limits \subseteq [peers : Nat \ {0}, rooms : Nat \ {0}]
  /\ None \notin RoomId \cup PeerId \cup Hash \cup (RoomId \X PeerId)

VARIABLES
  limits,   \* maxPeersPerRoom and maxActiveRooms, read once at the start
  rooms,    \* live rooms: id -> [hash, peers: id -> socket, idle]
  sock,     \* socket -> [phase, room, id]: its connection and what the relay notes of it
  roster,   \* socket -> the peers its client has been told are in its room
  unauth,   \* unauthSockets
  perIp,    \* unauthPerIp
  frame     \* the frame forwarded by the last step, or None

relayVars == <<limits, rooms, sock, roster, unauth, perIp, frame>>

Fresh == [phase |-> "closed", room |-> None, id |-> None]

RelayInit ==
  /\ limits \in Limits
  /\ rooms = [r \in {} |-> None]
  /\ sock = [s \in Socket |-> Fresh]
  /\ roster = [s \in Socket |-> {}]
  /\ unauth = {}
  /\ perIp = [i \in Ip |-> 0]
  /\ frame = None

Open(s) == sock[s].phase = "open"

Members(room) == { room.peers[p] : p \in DOMAIN room.peers }

Without(f, x) == Restrict(f, DOMAIN f \ {x})
With(f, x, v) == [y \in DOMAIN f \cup {x} |-> IF y = x THEN v ELSE f[y]]

\* A room after the peer p has gone from it; an empty room is deleted.
Vacate(rs, r, p) ==
  LET left == Without(rs[r].peers, p)
  IN  IF DOMAIN left = {} THEN Without(rs, r) ELSE [rs EXCEPT ![r].peers = left]

\* What the clients know after "peer-left" or "peer-joined" has been sent.
ToldLeft(known, p, to) == [t \in Socket |-> IF t \in to THEN known[t] \ {p} ELSE known[t]]
ToldJoined(known, p, to) == [t \in Socket |-> IF t \in to THEN known[t] \cup {p} ELSE known[t]]

NewRoom(h) == [hash |-> h, peers |-> [p \in {} |-> None], idle |-> FALSE]

\* A peer takes its place, and the room counts as active.
Seat(room, p, s) == [room EXCEPT !.peers = With(@, p, s), !.idle = FALSE]

Touch(r) == rooms' = [rooms EXCEPT ![r].idle = FALSE]

\* The idle TTL of a room passes without activity.
GoIdle(r) ==
  /\ r \in DOMAIN rooms /\ ~rooms[r].idle
  /\ rooms' = [rooms EXCEPT ![r].idle = TRUE]
  /\ frame' = None
  /\ UNCHANGED <<limits, sock, roster, unauth, perIp>>

IdleRooms(rs) == { r \in DOMAIN rs : rs[r].idle }
SweptSockets(rs) == UNION { Members(rs[r]) : r \in IdleRooms(rs) }

\* The connection breaks, the client closes it, or the relay does so after
\* too many refused messages: the close event is yet to come.
Disconnect(s) ==
  /\ Open(s)
  /\ sock' = [sock EXCEPT ![s].phase = "closing"]
  /\ frame' = None
  /\ UNCHANGED <<limits, rooms, roster, unauth, perIp>>
-----------------------------------------------------------------------------
InRoom(s) == { r \in DOMAIN rooms : s \in Members(rooms[r]) }

\* How many rooms and peers the health endpoint reports.
PeerCount == LET n[R \in SUBSET DOMAIN rooms] ==
                   IF R = {} THEN 0
                   ELSE LET r == CHOOSE r \in R : TRUE
                        IN  Cardinality(DOMAIN rooms[r].peers) + n[R \ {r}]
             IN  n[DOMAIN rooms]
Health == [rooms |-> Cardinality(DOMAIN rooms), peers |-> PeerCount]
=============================================================================

-------------------------------- MODULE Relay --------------------------------
(***************************************************************************)
(* The signaling server (index.ts, rooms.ts, relay.ts).  A socket carries  *)
(* the room and the id it joined with; the room lists its sockets by id.   *)
(* The two records are kept in step by join, leave, the close event and    *)
(* the sweep of idle rooms.  A message that is refused before it has an    *)
(* effect (size, rate, schema) is a stuttering step.                       *)
(***************************************************************************)
EXTENDS RelayState

TrackUnauthSocket(s) ==
  LET full == \/ Cardinality(unauth) >= MaxUnauth
              \/ perIp[IpOf[s]] >= MaxUnauthPerIp
  IN  /\ unauth' = IF full THEN unauth ELSE unauth \cup {s}
      /\ perIp' = IF full THEN perIp ELSE [perIp EXCEPT ![IpOf[s]] = @ + 1]
      /\ sock' = [sock EXCEPT ![s] = [Fresh EXCEPT !.phase = IF full THEN "closing" ELSE "open"]]

PromoteFromUnauth(s) ==
  /\ unauth' = unauth \ {s}
  /\ perIp' = IF s \in unauth THEN [perIp EXCEPT ![IpOf[s]] = @ - 1] ELSE perIp

\* rooms.leave: the room table without the socket, if the socket is in a room.
Leaves(s) == sock[s].room \in DOMAIN rooms
LeaveRooms(s) ==
  IF Leaves(s) THEN Vacate(rooms, sock[s].room, sock[s].id) ELSE rooms
\* Mutant: nobody is told.
LeaveUntold(s) == IF Leaves(s) THEN roster ELSE roster

LeaveRoster(s) ==
  IF Leaves(s)
  THEN ToldLeft(roster, sock[s].id, Members(rooms[sock[s].room]) \ {s})
  ELSE roster

\* Mutant: an id that another socket holds may be taken over.
AdmitsTaken(rs, s, r, h, p) ==
  IF r \in DOMAIN rs
  THEN rs[r].hash = h /\ Cardinality(DOMAIN rs[r].peers) < limits.peers
  ELSE Cardinality(DOMAIN rs) < limits.rooms

\* rooms.join on the table rs: AUTH_FAILED, PEER_ID_TAKEN, ROOM_FULL or ok.
Admits(rs, s, r, h, p) ==
  IF r \in DOMAIN rs
  THEN /\ rs[r].hash = h
       /\ p \in DOMAIN rs[r].peers => rs[r].peers[p] = s
       /\ Cardinality(DOMAIN rs[r].peers) < limits.peers
  ELSE Cardinality(DOMAIN rs) < limits.rooms

\* cleanupIdleRooms: the sockets of the rooms are closed and forget their room.
Swept(rs) == Restrict(rs, DOMAIN rs \ IdleRooms(rs))
\* Mutant: the closed sockets keep naming the room that is gone.
CloseAllKeepsRoom(S) ==
  [s \in Socket |-> IF s \in S THEN [sock[s] EXCEPT !.phase = "closing"] ELSE sock[s]]

CloseAll(S) ==
  [s \in Socket |-> IF s \in S THEN [sock[s] EXCEPT !.phase = "closing", !.room = None]
                    ELSE sock[s]]

OpenSocket(s) ==
  /\ sock[s].phase = "closed"
  /\ TrackUnauthSocket(s)
  /\ roster' = [roster EXCEPT ![s] = {}]
  /\ frame' = None
  /\ UNCHANGED <<limits, rooms>>

HandleJoin(s, r, h, p) ==
  LET left == LeaveRooms(s)
      swept == IF r \in DOMAIN left THEN {} ELSE SweptSockets(left)
      base == IF r \in DOMAIN left THEN left ELSE Swept(left)
      old == IF r \in DOMAIN base THEN base[r] ELSE NewRoom(h)
      ok == Admits(base, s, r, h, p)
  IN  /\ Open(s)
      /\ rooms' = IF ok THEN With(base, r, Seat(old, p, s)) ELSE base
      /\ sock' = [CloseAll(swept) EXCEPT
                    ![s].room = IF ok THEN r ELSE IF Leaves(s) THEN None ELSE @,
                    ![s].id = IF ok THEN p ELSE @]
      /\ IF ok THEN PromoteFromUnauth(s) ELSE UNCHANGED <<unauth, perIp>>
      /\ UNCHANGED limits
      /\ roster' = IF ok
                   THEN [ToldJoined(LeaveRoster(s), p, Members(old) \ {s})
                           EXCEPT ![s] = DOMAIN old.peers]
                   ELSE LeaveRoster(s)
      /\ frame' = None

\* relaySignal and relayData to one peer; nothing is sent outside a room.
HandleSignal(s, p) ==
  LET r == sock[s].room
  IN  /\ Open(s) /\ r # None
      /\ frame' = IF p \in DOMAIN rooms[r].peers
                  THEN [sender |-> s, from |-> sock[s].id, all |-> FALSE,
                        to |-> {rooms[r].peers[p]}]
                  ELSE None
      /\ Touch(r)
      /\ UNCHANGED <<limits, sock, roster, unauth, perIp>>

\* Mutant: broadcasts to the peers of every room.
RelayEverywhere(s) ==
  /\ Open(s) /\ sock[s].room # None
  /\ frame' = [sender |-> s, from |-> sock[s].id, all |-> TRUE,
               to |-> { t \in Socket : sock[t].room # None /\ sock[t].id # sock[s].id }]
  /\ Touch(sock[s].room)
  /\ UNCHANGED <<limits, sock, roster, unauth, perIp>>

\* relayData to "*": every peer of the room whose id is not the sender's.
HandleRelay(s) ==
  LET r == sock[s].room
  IN  /\ Open(s) /\ r # None
      /\ frame' = [sender |-> s, from |-> sock[s].id, all |-> TRUE,
                   to |-> { t \in Members(rooms[r]) : sock[t].id # sock[s].id }]
      /\ Touch(r)
      /\ UNCHANGED <<limits, sock, roster, unauth, perIp>>

HandleActivity(s) ==
  LET r == sock[s].room
  IN  /\ Open(s) /\ r # None
      /\ Touch(r)
      /\ frame' = None
      /\ UNCHANGED <<limits, sock, roster, unauth, perIp>>

\* The timer of trackUnauthSocket.
AuthTimeout(s) ==
  /\ Open(s) /\ s \in unauth
  /\ sock' = [sock EXCEPT ![s].phase = "closing"]
  /\ frame' = None
  /\ UNCHANGED <<limits, rooms, roster, unauth, perIp>>

\* The close event of a socket.
CloseSocket(s) ==
  /\ sock[s].phase = "closing"
  /\ PromoteFromUnauth(s)
  /\ rooms' = LeaveRooms(s)
  /\ roster' = LeaveRoster(s)
  /\ sock' = [sock EXCEPT ![s] = Fresh]
  /\ frame' = None
  /\ UNCHANGED limits

\* idleCleanupTimer.
CleanupIdleRooms ==
  /\ IdleRooms(rooms) # {}
  /\ rooms' = Swept(rooms)
  /\ sock' = CloseAll(SweptSockets(rooms))
  /\ frame' = None
  /\ UNCHANGED <<limits, roster, unauth, perIp>>

RelayNext ==
  \/ \E s \in Socket :
       \/ OpenSocket(s) \/ Disconnect(s) \/ AuthTimeout(s) \/ CloseSocket(s)
       \/ HandleRelay(s) \/ HandleActivity(s)
       \/ \E p \in PeerId : HandleSignal(s, p)
       \/ \E r \in RoomId, h \in Hash, p \in PeerId : HandleJoin(s, r, h, p)
  \/ \E r \in RoomId : GoIdle(r)
  \/ CleanupIdleRooms
=============================================================================

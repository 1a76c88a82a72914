----------------------------- MODULE HostedRelay -----------------------------
(***************************************************************************)
(* The copy of the relay that runs on Deno Deploy (deno-deploy.ts).  A     *)
(* socket carries no room: the room of a socket is searched for in the     *)
(* room table, and its id is kept in wsToPeerId (sock[s].id here), which   *)
(* survives leaving.  A place held by a socket that is no longer open may  *)
(* be taken over, and nothing is sent to such a socket.                    *)
(***************************************************************************)
EXTENDS RelayState

HostedTrackUnauth(s) ==
  LET full == \/ Cardinality(unauth) >= MaxUnauth
              \/ perIp[IpOf[s]] >= MaxUnauthPerIp
  IN  /\ unauth' = IF full THEN unauth ELSE unauth \cup {s}
      /\ perIp' = IF full THEN perIp ELSE [perIp EXCEPT ![IpOf[s]] = @ + 1]
      /\ sock' = [sock EXCEPT ![s] = [Fresh EXCEPT !.phase = IF full THEN "closing" ELSE "open"]]

HostedRemoveFromUnauth(s) ==
  /\ unauth' = unauth \ {s}
  /\ perIp' = IF s \in unauth THEN [perIp EXCEPT ![IpOf[s]] = @ - 1] ELSE perIp

\* getPeerRoomId and getPeerInfo: the place the table gives a socket.
RoomOf(rs, s) == CHOOSE r \in DOMAIN rs : s \in Members(rs[r])
IdIn(room, s) == CHOOSE p \in DOMAIN room.peers : room.peers[p] = s
Seated(s) == InRoom(s) # {}

\* leaveRoom: "peer-left" goes to the others that are open.
HostedLeaveRooms(s) ==
  IF Seated(s) THEN LET r == RoomOf(rooms, s) IN Vacate(rooms, r, IdIn(rooms[r], s))
  ELSE rooms
HostedLeaveRoster(s) ==
  IF Seated(s)
  THEN LET r == RoomOf(rooms, s)
       IN  ToldLeft(roster, IdIn(rooms[r], s),
                    { t \in Members(rooms[r]) \ {s} : Open(t) })
  ELSE roster

HostedSwept(rs) == Restrict(rs, DOMAIN rs \ IdleRooms(rs))
HostedCloseAll(S) ==
  [s \in Socket |-> IF s \in S THEN [sock[s] EXCEPT !.phase = "closing"] ELSE sock[s]]

\* joinRoom: a new room is stored before the secret, the id and the number of
\* its peers are tested.
HostedEntered(left, r, h) ==
  IF r \in DOMAIN left THEN left
  ELSE IF Cardinality(DOMAIN HostedSwept(left)) >= limits.rooms THEN HostedSwept(left)
       ELSE With(HostedSwept(left), r, NewRoom(h))
HostedAdmits(rs, s, r, h, p) ==
  /\ r \in DOMAIN rs
  /\ rs[r].hash = h
  /\ p \in DOMAIN rs[r].peers => rs[r].peers[p] = s \/ ~Open(rs[r].peers[p])
  /\ Cardinality(DOMAIN rs[r].peers) < limits.peers

HostedOpen(s) ==
  /\ sock[s].phase = "closed"
  /\ HostedTrackUnauth(s)
  /\ roster' = [roster EXCEPT ![s] = {}]
  /\ frame' = None
  /\ UNCHANGED <<limits, rooms>>

HostedJoin(s, r, h, p) ==
  LET left == HostedLeaveRooms(s)
      base == HostedEntered(left, r, h)
      ok == HostedAdmits(base, s, r, h, p)
      others == DOMAIN base[r].peers \ {p}
  IN  /\ Open(s)
      /\ rooms' = IF ok THEN [base EXCEPT ![r] = Seat(@, p, s)] ELSE base
      /\ sock' = [HostedCloseAll(IF r \in DOMAIN left THEN {} ELSE SweptSockets(left))
                    EXCEPT ![s].id = IF ok THEN p ELSE @]
      /\ IF ok THEN HostedRemoveFromUnauth(s) ELSE UNCHANGED <<unauth, perIp>>
      /\ UNCHANGED limits
      /\ roster' = IF ok
                   THEN [ToldJoined(HostedLeaveRoster(s), p,
                                    { t \in { base[r].peers[q] : q \in others } : Open(t) })
                           EXCEPT ![s] = others]
                   ELSE HostedLeaveRoster(s)
      /\ frame' = None

HostedSignal(s, p) ==
  LET r == RoomOf(rooms, s)
  IN  /\ Open(s) /\ Seated(s) /\ sock[s].id # None
      /\ frame' = IF p \in DOMAIN rooms[r].peers /\ Open(rooms[r].peers[p])
                  THEN [sender |-> s, from |-> sock[s].id, all |-> FALSE,
                        to |-> {rooms[r].peers[p]}]
                  ELSE None
      /\ Touch(r)
      /\ UNCHANGED <<limits, sock, roster, unauth, perIp>>

HostedBroadcast(s) ==
  LET r == RoomOf(rooms, s)
  IN  /\ Open(s) /\ Seated(s) /\ sock[s].id # None
      /\ frame' = [sender |-> s, from |-> sock[s].id, all |-> TRUE,
                   to |-> { t \in { rooms[r].peers[q] : q \in DOMAIN rooms[r].peers \ {sock[s].id} }
                              : Open(t) }]
      /\ Touch(r)
      /\ UNCHANGED <<limits, sock, roster, unauth, perIp>>

HostedActivity(s) ==
  /\ Open(s) /\ Seated(s)
  /\ Touch(RoomOf(rooms, s))
  /\ frame' = None
  /\ UNCHANGED <<limits, sock, roster, unauth, perIp>>

HostedTimeout(s) ==
  /\ Open(s) /\ s \in unauth
  /\ sock' = [sock EXCEPT ![s].phase = "closing"]
  /\ frame' = None
  /\ UNCHANGED <<limits, rooms, roster, unauth, perIp>>

HostedClose(s) ==
  /\ sock[s].phase = "closing"
  /\ HostedRemoveFromUnauth(s)
  /\ rooms' = HostedLeaveRooms(s)
  /\ roster' = HostedLeaveRoster(s)
  /\ sock' = [sock EXCEPT ![s] = Fresh]
  /\ frame' = None
  /\ UNCHANGED limits

HostedCleanup ==
  /\ IdleRooms(rooms) # {}
  /\ rooms' = HostedSwept(rooms)
  /\ sock' = HostedCloseAll(SweptSockets(rooms))
  /\ frame' = None
  /\ UNCHANGED <<limits, roster, unauth, perIp>>

HostedNext ==
  \/ \E s \in Socket :
       \/ HostedOpen(s) \/ Disconnect(s) \/ HostedTimeout(s) \/ HostedClose(s)
       \/ HostedBroadcast(s) \/ HostedActivity(s)
       \/ \E p \in PeerId : HostedSignal(s, p)
       \/ \E r \in RoomId, h \in Hash, p \in PeerId : HostedJoin(s, r, h, p)
  \/ \E r \in RoomId : GoIdle(r)
  \/ HostedCleanup
=============================================================================

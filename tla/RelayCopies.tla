----------------------------- MODULE RelayCopies -----------------------------
(***************************************************************************)
(* The two copies of the relay side by side: which one runs is chosen at   *)
(* the start, and both have to keep the same promises.                     *)
(***************************************************************************)
EXTENDS Relay, HostedRelay

VARIABLE copy     \* "bun" for the server of index.ts, "deno" for the hosted one
copiesVars == <<relayVars, copy>>

CopiesInit == RelayInit /\ copy \in {"bun", "deno"}

CopiesNext ==
  /\ \/ copy = "bun" /\ RelayNext
     \/ copy = "deno" /\ HostedNext
  /\ UNCHANGED copy

CopiesSpec == CopiesInit /\ [][CopiesNext]_copiesVars
-----------------------------------------------------------------------------
RoomType == [hash : Hash, peers : UNION { [P -> Socket] : P \in SUBSET PeerId },
             idle : BOOLEAN]
SockType == [phase : {"closed", "open", "closing"}, room : RoomId \cup {None},
             id : PeerId \cup {None}]

RelayTypeOK ==
  /\ DOMAIN rooms \subseteq RoomId
  /\ \A r \in DOMAIN rooms : rooms[r] \in RoomType
  /\ sock \in [Socket -> SockType]
  /\ roster \in [Socket -> SUBSET PeerId]
  /\ unauth \subseteq Socket
  /\ perIp \in [Ip -> Nat]

\* (Part of SocketsAccounted.)  What a socket carries and the room table agree, through joins that
\* fail, sweeps and late close events: every place is held by a socket that is
\* not closed, holds no other and has that id; the server of index.ts also has
\* the socket name its room exactly while the room lists it.  The health counts
\* are the sockets that are in a room.
Membership ==
  /\ \A r \in DOMAIN rooms : \A p \in DOMAIN rooms[r].peers :
       LET s == rooms[r].peers[p]
       IN  /\ sock[s].phase # "closed" /\ sock[s].id = p
           /\ copy = "bun" => sock[s].room = r
  /\ \A s \in Socket : sock[s].room # None => InRoom(s) = {sock[s].room}
  /\ Health.peers = Cardinality({ s \in Socket : InRoom(s) # {} })
  /\ \A r \in DOMAIN rooms : DOMAIN rooms[r].peers # {}

\* The counter per address never drifts from the set it counts (promoted once,
\* closed once, never counted over the limit), and an open socket that has not
\* joined any room yet is in the set, so that its timer will close it.
UnauthTracked ==
  /\ \A i \in Ip : perIp[i] = Cardinality({ s \in unauth : IpOf[s] = i })
  /\ \A s \in Socket : Open(s) /\ sock[s].id = None => s \in unauth

\* The records that join, leave, the close event, the timers and the sweep keep
\* of a socket, in three places of the code, never come apart.
SocketsAccounted == RelayTypeOK /\ Membership /\ UnauthTracked

\* "joined", "peer-joined" and "peer-left" add up: a client that is in a room
\* has been told exactly of the others that are in it.  A frame that is passed
\* on bears the id its receivers know the sender by, and a broadcast reaches
\* every other open socket of the sender's room.
FramesFollowRoster ==
  frame # None =>
    /\ \A t \in frame.to \ {frame.sender} : Open(t) => frame.from \in roster[t]
    /\ frame.all => \A r \in InRoom(frame.sender) :
         { t \in Members(rooms[r]) \ {frame.sender} : Open(t) } = { t \in frame.to : Open(t) }
RosterExact ==
  /\ \A r \in DOMAIN rooms : \A p \in DOMAIN rooms[r].peers :
       LET s == rooms[r].peers[p]
       IN  Open(s) => roster[s] = DOMAIN rooms[r].peers \ {p}
  /\ FramesFollowRoster

Place(s) == IF InRoom(s) = {} THEN None
            ELSE LET r == RoomOf(rooms, s) IN <<r, IdIn(rooms[r], s)>>

AbstractRooms ==
  INSTANCE Rooms WITH
    place <- [s \in Socket |-> Place(s)],
    secret <- [r \in RoomId |-> IF r \in DOMAIN rooms THEN rooms[r].hash ELSE None],
    capacity <- limits.peers,
    open <- { s \in Socket : Open(s) }
\* Both copies keep the promises of Rooms.
ImplementsRooms == AbstractRooms!Spec
=============================================================================

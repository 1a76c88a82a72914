--------------------------- MODULE PeerTransport ---------------------------
(***************************************************************************)
(* WSRelayTransport at several peers of a room: the socket to the relay    *)
(* with its reconnect timer, the peers it lists, and frames, which are     *)
(* numbered when they are sent and encrypted, checked and decrypted with   *)
(* awaits in between.  The relay is the one of RelayState with one room: a *)
(* peer whose socket broke keeps its seat until the relay notices.  Keys   *)
(* are the same everywhere; a payload is its number.                       *)
(***************************************************************************)
EXTENDS Naturals, SequencesExt

CONSTANTS Peer,
          MaxFrames,  \* bound on the frames of a peer
          MaxBreaks   \* bound on the sockets that break or are refused, together

VARIABLES
  socket,     \* this.ws of each peer: "none", "opening" or "open"
  timers,     \* peers whose reconnect timer runs
  disposed,   \* peers that do not connect any more
  state,      \* connectionState; "disconnected" is "idle" before connect and
              \* "closed" after disconnect, when there is no key
  peers,      \* the peers each peer lists
  counter,    \* frames numbered so far
  encrypting, \* frames between increment and sendRelay: [from, number]
  up, down,   \* what is on its way to and from the relay
  arriving,   \* frames before validate: [to, from, number], in order of arrival
  last,       \* NonceCounter of each peer: last number of every sender
  decrypting, \* frames after validate
  got,        \* frames handed to the callbacks
  seat,       \* the room: "free", "live", or "ghost" when the socket is broken
  breaks,
  owed,       \* history: frames the relay passed on over a socket that lived
  overtaken   \* history: pairs of receiver and sender with frames out of order
peerVars == <<socket, timers, disposed, state, peers, counter, encrypting, up, down,
              arriving, last, decrypting, got, seat, breaks, owed, overtaken>>

PeerInit ==
  /\ socket = [p \in Peer |-> "none"]
  /\ timers = {}
  /\ disposed = {}
  /\ state = [p \in Peer |-> "idle"]
  /\ peers = [p \in Peer |-> {}]
  /\ counter = [p \in Peer |-> 0]
  /\ encrypting = {}
  /\ up = [p \in Peer |-> <<>>]
  /\ down = [p \in Peer |-> <<>>]
  /\ arriving = [p \in Peer |-> <<>>]
  /\ last = [p \in Peer |-> [q \in Peer |-> 0]]
  /\ decrypting = {}
  /\ got = {}
  /\ seat = [p \in Peer |-> "free"]
  /\ breaks = 0
  /\ owed = {} /\ overtaken = {}

connVars == <<socket, timers, disposed, state>>
frameVars == <<counter, encrypting, arriving, last, decrypting, got>>
atRelay == <<up, down, seat, breaks>>
pastVars == <<owed, overtaken>>

----------------------------------------------------------------------------
(* The socket *)

\* connect, or the reconnect timer.
ConnectWebSocket(p) == socket' = [socket EXCEPT ![p] = "opening"]

Connect(p) ==
  /\ state[p] = "idle"
  /\ state' = [state EXCEPT ![p] = "connecting"]
  /\ ConnectWebSocket(p)
  /\ UNCHANGED <<timers, disposed, peers, frameVars, atRelay, pastVars>>

ReconnectTimer(p) ==
  /\ p \in timers
  /\ timers' = timers \ {p}
  /\ ConnectWebSocket(p)
  /\ UNCHANGED <<disposed, state, peers, frameVars, atRelay, pastVars>>

\* "open": the join is sent.
Opened(p) ==
  /\ socket[p] = "opening"
  /\ socket' = [socket EXCEPT ![p] = "open"]
  /\ up' = [up EXCEPT ![p] = <<[type |-> "join"]>>]
  /\ UNCHANGED <<timers, disposed, state, peers, frameVars, down, seat, breaks, pastVars>>

\* "close": a reconnect is scheduled unless the transport was disposed of.
ScheduleReconnectConnected(p) ==
  timers' = IF p \in disposed \/ state[p] # "connected" THEN timers ELSE timers \cup {p}
ScheduleReconnect(p) == timers' = IF p \in disposed THEN timers ELSE timers \cup {p}

Closed(p, seats) ==
  /\ socket' = [socket EXCEPT ![p] = "none"]
  /\ state' = [state EXCEPT ![p] = IF p \notin disposed /\ @ \in {"connected", "connecting"}
                                     THEN "reconnecting" ELSE @]
  /\ ScheduleReconnect(p)
  /\ up' = [up EXCEPT ![p] = <<>>]
  /\ down' = [down EXCEPT ![p] = <<>>]
  /\ seat' = seats
  /\ owed' = {f \in owed : f.to # p} \cup (owed \cap got)
  /\ UNCHANGED <<disposed, peers, frameVars, overtaken>>

Breaks(p) ==
  /\ socket[p] # "none" /\ breaks < MaxBreaks
  /\ breaks' = breaks + 1
  /\ Closed(p, [seat EXCEPT ![p] = IF @ = "live" THEN "ghost" ELSE @])

\* The relay closes a socket that did not join in time.
RelayTimeout(p) ==
  /\ socket[p] = "open" /\ up[p] = <<>> /\ seat[p] # "live"
  /\ Closed(p, seat)
  /\ UNCHANGED breaks

\* disconnect, when the daemon stops.
StopTransport(p) ==
  /\ state[p] \notin {"idle", "closed"}
  /\ disposed' = disposed \cup {p}
  /\ timers' = timers \ {p}
  /\ peers' = [peers EXCEPT ![p] = {}]
  /\ socket' = [socket EXCEPT ![p] = "none"]
  /\ state' = [state EXCEPT ![p] = "closed"]
  /\ up' = [up EXCEPT ![p] = <<>>] /\ down' = [down EXCEPT ![p] = <<>>]
  /\ seat' = [seat EXCEPT ![p] = IF @ = "live" THEN "ghost" ELSE @]
  /\ owed' = {f \in owed : f.to # p}
  /\ UNCHANGED <<frameVars, breaks, overtaken>>

----------------------------------------------------------------------------
(* The relay *)

RoomOfRelay == {p \in Peer : seat[p] # "free"}
Reached == {p \in Peer : seat[p] = "live"}
Tell(ps, msg) == down' = [p \in Peer |-> IF p \in ps THEN Append(down[p], msg) ELSE down[p]]

RelayJoin(p) ==
  \/ /\ seat[p] = "free"
     /\ seat' = [seat EXCEPT ![p] = "live"]
     /\ down' = [q \in Peer |-> IF q = p THEN Append(down[q], [type |-> "joined", peers |-> RoomOfRelay])
                                ELSE IF q \in Reached THEN Append(down[q], [type |-> "peer-joined", peer |-> p])
                                ELSE down[q]]
     /\ UNCHANGED breaks
  \/ \* RATE_LIMITED, ROOM_FULL, AUTH_FAILED
     /\ breaks < MaxBreaks /\ breaks' = breaks + 1
     /\ \E fatal \in BOOLEAN : Tell({p}, [type |-> "error", fatal |-> fatal])
     /\ UNCHANGED seat
  \/ \* PEER_ID_TAKEN
     /\ seat[p] = "ghost"
     /\ Tell({p}, [type |-> "error", fatal |-> FALSE])
     /\ UNCHANGED <<seat, breaks>>

\* relayData: to every other member; a ghost's copy is lost.
RelayFrame(p, n) ==
  LET to == Reached \ {p} IN
  /\ IF seat[p] = "live"
       THEN /\ Tell(to, [type |-> "relay", from |-> p, number |-> n])
            /\ owed' = owed \cup {[to |-> q, from |-> p, number |-> n] : q \in to}
       ELSE Tell({p}, [type |-> "error", fatal |-> FALSE]) /\ UNCHANGED owed
  /\ UNCHANGED <<seat, breaks>>

RelayHandles(p) ==
  /\ up[p] # <<>>
  /\ up' = [up EXCEPT ![p] = Tail(@)]
  /\ \/ Head(up[p]).type = "join" /\ RelayJoin(p) /\ UNCHANGED owed
     \/ Head(up[p]).type = "relay" /\ RelayFrame(p, Head(up[p]).number)
  /\ UNCHANGED <<connVars, peers, frameVars, overtaken>>

RelayNotices(p) ==
  /\ seat[p] = "ghost"
  /\ seat' = [seat EXCEPT ![p] = "free"]
  /\ Tell(Reached, [type |-> "peer-left", peer |-> p])
  /\ UNCHANGED <<connVars, peers, frameVars, up, breaks, pastVars>>

----------------------------------------------------------------------------
(* Messages of the relay *)

HandleJoinedListsNone(p, ps) ==
  /\ state' = [state EXCEPT ![p] = "connected"]
  /\ UNCHANGED <<peers, disposed, arriving>>
HandleJoined(p, ps) ==
  /\ state' = [state EXCEPT ![p] = "connected"]
  /\ peers' = [peers EXCEPT ![p] = @ \cup (ps \ {p})]
  /\ UNCHANGED <<disposed, arriving>>
HandlePeerJoined(p, q) ==
  /\ peers' = [peers EXCEPT ![p] = @ \cup ({q} \ {p})]
  /\ UNCHANGED <<state, disposed, arriving>>
HandlePeerLeft(p, q) ==
  /\ peers' = [peers EXCEPT ![p] = @ \ {q}]
  /\ UNCHANGED <<state, disposed, arriving>>
HandleError(p, fatal) ==
  /\ IF fatal THEN /\ disposed' = disposed \cup {p}
                   /\ state' = [state EXCEPT ![p] = "disconnected"]
              ELSE UNCHANGED <<disposed, state>>
  /\ UNCHANGED <<peers, arriving>>
\* handleRelayMessage up to its await of peerIdPrefix.
HandleFrame(p, msg) ==
  /\ arriving' = [arriving EXCEPT ![p] = Append(@, [to |-> p, from |-> msg.from,
                                                    number |-> msg.number])]
  /\ UNCHANGED <<state, disposed, peers>>

HandleSignalingMessage(p) ==
  /\ down[p] # <<>>
  /\ down' = [down EXCEPT ![p] = Tail(@)]
  /\ LET msg == Head(down[p]) IN
       \/ msg.type = "joined" /\ HandleJoined(p, msg.peers)
       \/ msg.type = "peer-joined" /\ HandlePeerJoined(p, msg.peer)
       \/ msg.type = "peer-left" /\ HandlePeerLeft(p, msg.peer)
       \/ msg.type = "error" /\ HandleError(p, msg.fatal)
       \/ msg.type = "relay" /\ HandleFrame(p, msg)
  /\ UNCHANGED <<socket, timers, counter, encrypting, last, decrypting, got, up, seat,
                 breaks, pastVars>>

----------------------------------------------------------------------------
(* Frames *)

\* sendUpdate, sendAwareness: numbered at once, then encrypted.
Send(p) ==
  /\ state[p] \notin {"idle", "closed"} /\ counter[p] < MaxFrames
  /\ counter' = [counter EXCEPT ![p] = @ + 1]
  /\ encrypting' = encrypting \cup {[from |-> p, number |-> counter'[p]]}
  /\ UNCHANGED <<connVars, peers, arriving, last, decrypting, got, atRelay, pastVars>>

\* Every receiver may miss a frame that another one of its sender overtakes.
Overtakes(p) == overtaken' = overtaken \cup {<<q, p>> : q \in Peer}

\* sendRelay: dropped unless the socket is open.
SendRelay(f) ==
  /\ encrypting' = encrypting \ {f}
  /\ IF socket[f.from] = "open"
       THEN up' = [up EXCEPT ![f.from] = Append(@, [type |-> "relay", number |-> f.number])]
       ELSE UNCHANGED up
  /\ IF \E g \in encrypting : g.from = f.from /\ g.number < f.number
       THEN Overtakes(f.from) ELSE UNCHANGED overtaken
  /\ UNCHANGED <<connVars, peers, counter, arriving, last, decrypting, got, down, seat,
                 breaks, owed>>

\* NonceCounter.validate; then the await of decrypt.
\* (Definitions named ...Skips, ...Connected, ...ListsNone are faults no
\* specification uses; they confirm that the properties would notice.)
ValidateSkips(p, f) == f.number > last[p][f.from] + 1
Validate(p, f) == f.number > last[p][f.from]

PrefixKnown(p, i) ==
  LET f == arriving[p][i] IN
  /\ state[p] # "closed"
  /\ arriving' = [arriving EXCEPT ![p] = RemoveAt(@, i)]
  /\ IF Validate(p, f) THEN /\ last' = [last EXCEPT ![p][f.from] = f.number]
                            /\ decrypting' = decrypting \cup {f}
                       ELSE UNCHANGED <<last, decrypting>>
  /\ overtaken' = IF \E j \in 1..(i - 1) : arriving[p][j].from = f.from
                    THEN overtaken \cup {<<p, f.from>>} ELSE overtaken
  /\ UNCHANGED <<connVars, peers, counter, encrypting, got, atRelay, owed>>

Decrypted(f) ==
  /\ decrypting' = decrypting \ {f}
  /\ got' = got \cup {f}
  /\ UNCHANGED <<connVars, peers, counter, encrypting, arriving, last, atRelay, pastVars>>

PeerNext ==
  \/ \E p \in Peer :
       \/ Connect(p) \/ ReconnectTimer(p) \/ Opened(p) \/ Breaks(p) \/ StopTransport(p)
       \/ RelayTimeout(p) \/ RelayHandles(p) \/ RelayNotices(p)
       \/ HandleSignalingMessage(p) \/ Send(p)
       \/ \E i \in DOMAIN arriving[p] : PrefixKnown(p, i)
  \/ \E f \in encrypting : SendRelay(f)
  \/ \E f \in decrypting : Decrypted(f)

PeerSpec == PeerInit /\ [][PeerNext]_peerVars

----------------------------------------------------------------------------
(* Properties *)

\* A transport that is not disposed of is in the room, or something is under
\* way that will get it there: a timer, a socket that opens, a join, an answer,
\* or the relay's patience with a socket that was refused.
NeverStuck ==
  \A p \in Peer \ disposed : state[p] # "idle" =>
    \/ p \in timers \/ socket[p] = "opening"
    \/ socket[p] = "open" /\ (seat[p] = "live" => state[p] = "connected" \/ down[p] # <<>>)

\* When nothing is on its way to a connected peer it lists every other member
\* of the room that the relay reaches, whatever both went through.
MembersListed ==
  \A p \in Reached : down[p] = <<>> => Reached \ {p} \subseteq peers[p]

\* Frames that no later one of their sender overtakes arrive, over every reconnect:
\* the numbers go on and no receiver starts to refuse them.
LostOnlyByOvertaking ==
  \A f \in owed :
    \/ <<f.to, f.from>> \in overtaken \/ f \in got \cup decrypting
    \/ f \in Range(arriving[f.to])
    \/ \E i \in DOMAIN down[f.to] :
         LET msg == down[f.to][i]
         IN  msg.type = "relay" /\ msg.from = f.from /\ msg.number = f.number
=============================================================================

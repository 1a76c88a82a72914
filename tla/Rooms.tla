------------------------------- MODULE Rooms -------------------------------
(***************************************************************************)
(* What a relay promises about its rooms, whichever of its two copies      *)
(* runs: a socket holds at most one place, which is a room and a peer id   *)
(* in it; a place has one holder; a room keeps its secret while two stay   *)
(* in it (one who rejoins alone founds it anew); and nobody whose socket   *)
(* is open loses a place unless it asks for another one.                   *)
(***************************************************************************)
EXTENDS FiniteSets, Naturals

CONSTANTS Socket, RoomId, None

VARIABLES
  capacity,   \* the limit on the peers of a room, which does not change
  place,      \* socket -> <<room, peer id>>, or None
  secret,     \* room -> the secret hash of its first peer, or None
  open        \* the sockets whose connection is open
vars == <<capacity, place, secret, open>>

In(r) == { s \in Socket : place[s] # None /\ place[s][1] = r }

Init == /\ place = [s \in Socket |-> None]
        /\ secret = [r \in RoomId |-> None]
        /\ open = {}

\* One request is served at a time: of the open sockets, at most the one that
\* asked for it gets another place or loses its own.  The others can only lose.
Next ==
  /\ UNCHANGED capacity
  /\ Cardinality({ s \in open' : place'[s] # place[s] }) <= 1
  /\ \A s \in Socket \ open' : place'[s] \in {place[s], None}
  /\ \A s, t \in Socket : s # t /\ place'[s] # None => place'[s] # place'[t]
  /\ \A r \in RoomId : /\ secret'[r] # None <=> In(r)' # {}
                       /\ Cardinality(In(r) \cap In(r)') > 1 => secret'[r] = secret[r]
                       /\ Cardinality(In(r)') <= capacity

Spec == Init /\ [][Next]_vars
=============================================================================

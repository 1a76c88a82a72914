------------------------------ MODULE MCRelay ------------------------------
(***************************************************************************)
(* The services of a relay: the rooms of either copy, its rate limiter and *)
(* its sign-in.  They share no variable and call each other only through   *)
(* what is nondeterministic in each of them (a message refused, a page     *)
(* shown), and every property speaks of one service; so each is checked    *)
(* with the others at rest, all three in one run.                          *)
(***************************************************************************)
EXTENDS RelayCopies, RateLimit, DashboardAuth, TLC

CONSTANTS s1, s2, s3, i1, i2, r1, r2, p, q, h, k

VARIABLE service
serverVars == <<copiesVars, rateVars, authVars, service>>

MCIpOf == s1 :> i1 @@ s2 :> i1 @@ s3 :> i2
MCLimits == { [peers |-> 2, rooms |-> 2], [peers |-> 1, rooms |-> 1] }
MCSymmetry == Permutations({s1, s2}) \cup Permutations({r1, r2})
              \cup Permutations({p, q}) \cup Permutations({h, k})

MCInit ==
  /\ service \in {"rooms", "rates", "sign-in"}
  /\ CopiesInit /\ RateInit /\ AuthInit
  \* The services at rest start in one way only.
  /\ service # "rooms" => copy = "bun" /\ limits.peers = 1
  /\ service # "rates" => sliding /\ due = Minute + 1
  /\ service # "sign-in" => ~kv

MCNext ==
  /\ UNCHANGED service
  /\ \/ service = "rooms" /\ CopiesNext /\ UNCHANGED <<rateVars, authVars>>
     \/ service = "rates" /\ RateNext /\ UNCHANGED <<copiesVars, authVars>>
     \/ service = "sign-in" /\ AuthNext /\ UNCHANGED <<copiesVars, rateVars>>

MCSpec == MCInit /\ [][MCNext]_serverVars
=============================================================================

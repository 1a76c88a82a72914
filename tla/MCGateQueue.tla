----------------------------- MODULE MCGateQueue -----------------------------
(***************************************************************************)
(* An instance of GateQueue for TLC: a world where everything may close a  *)
(* gate and one update less than MadeBound is made, or one where all of    *)
(* them are made and only local locks and remote edits close it.           *)
(***************************************************************************)
EXTENDS GateQueue

VARIABLE busy   \* the world is the first of these
MCVars == <<vars, busy>>

MCInit == Init /\ busy \in BOOLEAN

MCNext ==
  /\ Next
  /\ IF busy THEN made' < MadeBound ELSE UNCHANGED <<paused, editing, advertised>>
  /\ UNCHANGED busy

MCSpec == MCInit /\ [][MCNext]_MCVars /\ Fairness
=============================================================================

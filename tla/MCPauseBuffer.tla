---------------------------- MODULE MCPauseBuffer ----------------------------
(* Instances of PauseBuffer for TLC. *)
EXTENDS PauseBuffer, TLC

(* Pause ids, checks and ordinary files are interchangeable.  Used by the  *)
(* runs that check no liveness.                                            *)
Symmetry == Permutations(PauseId) \cup Permutations(Check)
            \cup Permutations(File \ (Blocked \cup Ignored))
=============================================================================

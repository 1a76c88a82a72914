----------------------------- MODULE MCFileLocks -----------------------------
(* Instances of FileLocks for TLC. *)
EXTENDS FileLocks, TLC

CONSTANTS scope, a, b, c   \* "scope:src/**", src/a.ts, src/b.ts, a third file

(* Plain files only: a path conflicts with itself. *)
PlainPaths == {a, b, c}
PlainConflict == {<<p, p>> : p \in PlainPaths}

(* A scope and the two files it covers. *)
ScopedPaths == {scope, a, b}
ScopedConflict ==
  {<<p, p>> : p \in ScopedPaths}
  \cup {<<scope, p>> : p \in {a, b}} \cup {<<p, scope>> : p \in {a, b}}
(* Holders are interchangeable, and so are the two files: the scope covers *)
(* both.  Used by the runs that check no liveness.                         *)
Symmetry == Permutations(Holder) \cup Permutations({a, b})
PlainSymmetry == Permutations(Holder) \cup Permutations(PlainPaths)
=============================================================================

----------------------------- MODULE MCDocuments -----------------------------
(* Instances of Documents for TLC. *)
EXTENDS Documents, TLC

CONSTANTS a, b   \* the pieces of text

(* One piece at first, or no file. *)
MCAtStart == {Absent, [t \in Text |-> IF t = a THEN 1 ELSE 0]}

(* a takes one byte and b two, and a file may have two.                    *)
MCRefused == {t \in [Text -> 0..6] : t[a] + 2 * t[b] > 2}
=============================================================================

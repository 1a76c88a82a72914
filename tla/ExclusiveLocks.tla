--------------------------- MODULE ExclusiveLocks ---------------------------
(***************************************************************************)
(* What the lock table of the daemon promises to its callers, with no      *)
(* queue, no call stack and no expiry machinery: a path or scope has at    *)
(* most one owner, two conflicting paths never have different owners, and  *)
(* every grant (a renewal included) carries the next fencing token.        *)
(* FileLocks implements this specification.                                *)
(***************************************************************************)
EXTENDS Naturals

CONSTANTS Path,        \* lockable names: file paths and "scope:" globs
          Holder,      \* peer ids
          NoHolder,    \* owner of a path nobody holds
          Conflict     \* the pairs of names pathsConflict relates

VARIABLES owner,       \* who may rely on the path now
          fence,       \* the token the owner of the path was given, 0 when unowned
          issued       \* the number of tokens handed out so far

vars == <<owner, fence, issued>>

Init ==
  /\ owner = [p \in Path |-> NoHolder]
  /\ fence = [p \in Path |-> 0]
  /\ issued = 0

(* A grant or a renewal: nobody else owns anything in conflict with p. *)
Claim(p, h) ==
  /\ \A q \in Path : <<p, q>> \in Conflict => owner[q] \in {NoHolder, h}
  /\ owner' = [owner EXCEPT ![p] = h]
  /\ issued' = issued + 1
  /\ fence' = [fence EXCEPT ![p] = issued']

(* The owners of a set of paths lose them: release, expiry or shutdown. *)
Yield(S) ==
  /\ owner' = [p \in Path |-> IF p \in S THEN NoHolder ELSE owner[p]]
  /\ fence' = [p \in Path |-> IF p \in S THEN 0 ELSE fence[p]]
  /\ UNCHANGED issued

Next ==
  \/ \E S \in SUBSET Path : Yield(S)
  \/ \E p \in Path, h \in Holder : Claim(p, h)

Spec == Init /\ [][Next]_vars
=============================================================================

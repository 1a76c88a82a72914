------------------------------- MODULE Outbox --------------------------------
(***************************************************************************)
(* What a sender promises about the items it is given: each one is put     *)
(* aside, delivered or dropped, when the sender chooses, and one delivered *)
(* or dropped stays so and is not handled again.  GateQueue implements     *)
(* this specification.                                                     *)
(***************************************************************************)
CONSTANT Item

VARIABLES pending, delivered, dropped

vars == <<pending, delivered, dropped>>
Known == pending \cup delivered \cup dropped

Init == pending = {} /\ delivered = {} /\ dropped = {}

(* A new item is put aside.                                                *)
Accept(u) ==
  /\ u \notin Known
  /\ pending' = pending \cup {u}
  /\ UNCHANGED <<delivered, dropped>>

(* Pending items S, and new ones, leave together.                          *)
Leave(S, new) ==
  /\ S \subseteq pending /\ new \cap Known = {}
  /\ pending' = pending \ S
  /\ \/ delivered' = delivered \cup S \cup new /\ UNCHANGED dropped
     \/ dropped' = dropped \cup S \cup new /\ UNCHANGED delivered

Next == \/ \E S \in SUBSET pending : Leave(S, {})
        \/ \E u \in Item : Accept(u)
        \/ \E S \in SUBSET pending, u \in Item : Leave(S, {u})

Spec == Init /\ [][Next]_vars
=============================================================================

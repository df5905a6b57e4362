-------------------------- MODULE RejectionInventory --------------------------
(***************************************************************************)
(* What the rejection manifest promises: in every quarantine directory a   *)
(* set of rows that only grows, and rows whose writer was told so stay.  A *)
(* power loss may take back the others.  Once somebody else has replaced a *)
(* manifest nothing is promised about the rows told of, but what builds do *)
(* still only adds rows.                                                   *)
(***************************************************************************)
EXTENDS Integers

CONSTANTS Dirs, Rows

VARIABLES stored, told, meddled, losses

vars == <<stored, told, meddled, losses>>

Init ==
    /\ stored = [d \in Dirs |-> {}]
    /\ told = [d \in Dirs |-> {}]
    /\ meddled = FALSE /\ losses = 0

Add(d) ==
    /\ \E rows \in SUBSET Rows :
         stored' = [stored EXCEPT ![d] = @ \cup rows]
    /\ UNCHANGED <<told, meddled, losses>>

Tell(d, r) ==
    /\ ~meddled /\ r \in stored[d]
    /\ told' = [told EXCEPT ![d] = @ \cup {r}]
    /\ UNCHANGED <<stored, meddled, losses>>

Meddle(d) ==
    /\ ~meddled /\ meddled' = TRUE
    /\ \E rows \in SUBSET Rows : stored' = [stored EXCEPT ![d] = rows]
    /\ told' = [e \in Dirs |-> {}]
    /\ UNCHANGED losses

Lose ==
    /\ stored' \in [Dirs -> SUBSET Rows]
    /\ \A d \in Dirs : told[d] \subseteq stored'[d]
    /\ losses' = losses + 1
    /\ UNCHANGED <<told, meddled>>

Next ==
    \/ \E d \in Dirs : Add(d) \/ Meddle(d) \/ \E r \in Rows : Tell(d, r)
    \/ Lose

Spec == Init /\ [][Next]_vars

=============================================================================

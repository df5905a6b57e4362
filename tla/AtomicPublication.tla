--------------------------- MODULE AtomicPublication ---------------------------
(***************************************************************************)
(* What publication promises: one slot, the final name, that a build takes *)
(* in one step while it is empty.  A build may take back what it put there *)
(* until it has reported success; a build that reports success is in the   *)
(* slot, one that reports failure is not.  Machines and processes may stop.*)
(***************************************************************************)
CONSTANTS Builders, NoTree

VARIABLES slot, outcome

vars == <<slot, outcome>>

Init ==
    /\ slot = NoTree
    /\ outcome = [b \in Builders |-> "running"]

Claim(b) ==
    /\ outcome[b] = "running" /\ slot = NoTree
    /\ slot' = b
    /\ UNCHANGED outcome

Withdraw(b) ==
    /\ outcome[b] = "running" /\ slot = b
    /\ slot' = NoTree
    /\ UNCHANGED outcome

Succeed(b) ==
    /\ outcome[b] = "running" /\ slot = b
    /\ outcome' = [outcome EXCEPT ![b] = "published"]
    /\ UNCHANGED slot

Fail(b) ==
    /\ outcome[b] = "running" /\ slot # b
    /\ outcome' = [outcome EXCEPT ![b] = "failed"]
    /\ UNCHANGED slot

Crash(b) ==
    /\ outcome[b] = "running"
    /\ outcome' = [outcome EXCEPT ![b] = "crashed"]
    /\ UNCHANGED slot

(* A power loss stops any number of builds.  A published dataset stays; a  *)
(* build that did not report may be in the slot or not.                    *)
PowerLoss ==
    /\ \E dead \in SUBSET {b \in Builders : outcome[b] = "running"} :
         outcome' = [b \in Builders |-> IF b \in dead THEN "crashed" ELSE outcome[b]]
    /\ IF slot # NoTree /\ outcome[slot] = "published"
       THEN UNCHANGED slot
       ELSE slot' \in {NoTree} \cup {b \in Builders : outcome'[b] = "crashed"}

Next ==
    \/ \E b \in Builders :
         Claim(b) \/ Withdraw(b) \/ Succeed(b) \/ Fail(b) \/ Crash(b)
    \/ PowerLoss

Spec == Init /\ [][Next]_vars

=============================================================================

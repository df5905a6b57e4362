----------------------------- MODULE CacheRegister -----------------------------
(***************************************************************************)
(* What one key of the extraction cache promises: a register whose value   *)
(* is the version stored last (0: none).  A store moves it forward in one  *)
(* step; a lookup answers with the value at some moment of the lookup, or  *)
(* with a miss, which is always allowed.  A power loss may take back the   *)
(* versions that were not yet durable.                                     *)
(***************************************************************************)
EXTENDS Integers

CONSTANT Readers

VARIABLES current, answer

vars == <<current, answer>>

Pending == -1
Miss == 0

Init ==
    /\ current = 0
    /\ answer = [r \in Readers |-> Pending]

Put ==
    /\ current' \in Nat /\ current' > current
    /\ UNCHANGED answer

Hit(r) ==
    /\ answer[r] = Pending /\ current # 0
    /\ answer' = [answer EXCEPT ![r] = current]
    /\ UNCHANGED current

Fail(r) ==
    /\ answer[r] = Pending
    /\ answer' = [answer EXCEPT ![r] = Miss]
    /\ UNCHANGED current

PowerLoss ==
    /\ current' \in 0 .. current
    /\ \E lost \in SUBSET {r \in Readers : answer[r] = Pending} :
         answer' = [r \in Readers |-> IF r \in lost THEN Miss ELSE answer[r]]

Next ==
    \/ Put
    \/ \E r \in Readers : Hit(r) \/ Fail(r)
    \/ PowerLoss

Spec == Init /\ [][Next]_vars

=============================================================================

------------------------------ MODULE MCQuarantine -----------------------------
(* An instance of QuarantineDirectory for model checking.                   *)
EXTENDS QuarantineDirectory

(* Every call of a writer may fail but the close and the unlock.            *)
KindsOfFaults == Points \ (Ended \cup {"closing", "releasing"})

================================================================================

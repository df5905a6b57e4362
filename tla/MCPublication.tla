---------------------------- MODULE MCPublication ----------------------------
(* Instances of Publication for model checking.                             *)
EXTENDS Publication, TLC

(* Every point at which the code calls the system or validates, but for the *)
(* rename that puts another build's tree back.                              *)
AllFaults == Points \ (Done \cup {"withdrawn"})

Interchangeable == Permutations(Builders)

==============================================================================

---------------------------- MODULE MCStagedImages ----------------------------
(* An instance of StagedImages for model checking.                           *)
EXTENDS StagedImages

(* Every call of the system may fail.                                        *)
AllFaults == Points \ Done
(* Somebody else may touch every image.                                      *)
Everything == Images

===============================================================================

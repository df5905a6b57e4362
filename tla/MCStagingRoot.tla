---------------------------- MODULE MCStagingRoot ----------------------------
(* Instances of StagingRoot for model checking.                             *)
EXTENDS StagingRoot, TLC

(* One call of every kind: before the mkdir, with and without an identity,  *)
(* in the work on the images, in the store, and in each removal.             *)
KindsOfFaults == {"listed", "made", "identified", "undoing", "filling", "rollback",
                  "storing", "cleanup"}
(* The only thing that may go wrong is that images cannot be extracted.     *)
ExtractionFaults == {"filling"}

Interchangeable == Permutations(Recordings)

==============================================================================

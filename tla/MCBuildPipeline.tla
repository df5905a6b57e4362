--------------------------- MODULE MCBuildPipeline ---------------------------
(* Instances of BuildPipeline for model checking.                           *)
EXTENDS BuildPipeline, TLC

Interchangeable == Permutations(Recordings)

==============================================================================

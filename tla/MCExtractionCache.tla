-------------------------- MODULE MCExtractionCache --------------------------
(* An instance of ExtractionCache for model checking.                       *)
EXTENDS ExtractionCache, TLC

(* Everything that can fail.                                                *)
AllFaults == (WriterPoints \ WriterDone) \cup (ReaderPoints \ ReaderDone)

Interchangeable ==
    Permutations(Writers) \cup Permutations(Readers) \cup Permutations(Inodes)

==============================================================================

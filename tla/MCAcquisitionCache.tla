-------------------------- MODULE MCAcquisitionCache -------------------------
(* An instance of AcquisitionCache for model checking.  Nothing but the      *)
(* values of the constants is added; they are in the configuration.          *)
EXTENDS AcquisitionCache

==============================================================================

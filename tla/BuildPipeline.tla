----------------------------- MODULE BuildPipeline -----------------------------
(***************************************************************************)
(* One run of services.build_dataset seen from its recordings: the         *)
(* extraction threads of RecordingCoordinator, the working trees they own  *)
(* through _WorkingExtractionRegistry, the quarantine reports, the two     *)
(* gates before publication, and every path that cleans up.                *)
(*                                                                         *)
(* What a recording contains is abstracted to whether a stage fails on it; *)
(* what the disk does is abstracted to whether a write or a cleanup fails. *)
(***************************************************************************)
EXTENDS Integers, FiniteSets

CONSTANTS
    Recordings,    \* the recordings of the source manifest
    MaxWorkers,    \* config.execution.workers
    WritesFail,    \* TRUE when writing a report or the manifest may fail
    CleanupsFail   \* TRUE when a tree may fail to be removed

ASSUME WorkersAssumption == MaxWorkers \in Nat \ {0}
ASSUME FailAssumption == WritesFail \in BOOLEAN /\ CleanupsFail \in BOOLEAN

VARIABLES
    allowPartial,  \* config.execution.allow_partial_export
    phase,         \* where _build_evidence_owned / build_dataset is
    stage,         \* where each recording is
    tree,          \* the working tree of each recording on disk
    registry,      \* the recordings whose tree the registry owns
    report,        \* the quarantine report of each recording
    requests,      \* the recordings handed to the coordinator
    debt,          \* recordings that failed with cleanup_complete = False
    manifest       \* the rejection manifest

vars == <<allowPartial, phase, stage, tree, registry, report, requests, debt, manifest>>

Stages == {"listed", "ready", "extracting", "extracted", "materialized", "storing",
           "checking", "processed", "graphed", "featured", "exportable", "failed"}
Loops == {"scenes", "features", "preflight"}
Ended == {"published", "blocked"}
Phases == {"acquire", "process", "preserve", "manifest", "gate", "select", "export",
           "finalize", "abort"} \cup Loops \cup Ended
InThread == {"extracting", "extracted", "materialized", "storing", "checking"}
Success == {"processed", "graphed", "featured", "exportable"}

Init ==
    /\ allowPartial \in BOOLEAN
    /\ phase = "acquire"
    /\ stage = [r \in Recordings |-> "listed"]
    /\ tree = [r \in Recordings |-> "none"]
    /\ registry = {}
    /\ report = [r \in Recordings |-> "none"]
    /\ requests = {}
    /\ debt = {}
    /\ manifest = "none"

-----------------------------------------------------------------------------
(* Building blocks.                                                        *)

At(r, s) == stage[r] = s
Move(r, s) == stage' = [stage EXCEPT ![r] = s]

(* RecordingCoordinator._failure: the report says "preserved_in_place"     *)
(* when owned artifacts exist now; a report that cannot be written is kept *)
(* apart from the recording's own error.                                   *)
Quarantine(r, handling, owed) ==
    /\ Move(r, "failed")
    /\ \/ report' = [report EXCEPT ![r] = handling]
       \/ WritesFail /\ report' = [report EXCEPT ![r] = "lost"]
    /\ debt' = IF owed THEN debt \cup {r} ELSE debt

(* A tree that holds an owned image is preserved; one without is not       *)
(* mentioned (no sample was selected, or a drop removed them all).         *)
Handling == {"preserved", "noArtifacts"}

Failures == {r \in Recordings : stage[r] = "failed"}

(* Mutant: the registry forgets the trees it could not remove.             *)
CleanupForgets(kept) ==
    /\ kept \subseteq registry
    /\ kept # {} => CleanupsFail
    /\ tree' = [r \in Recordings |-> IF r \in registry \ kept THEN "gone" ELSE tree[r]]
    /\ registry' = {}

(* working.cleanup_all(): every registered tree is tried; those that could *)
(* not be removed stay registered and the call raises at the end.          *)
CleanupAll(kept) ==
    /\ kept \subseteq registry
    /\ kept # {} => CleanupsFail
    /\ tree' = [r \in Recordings |-> IF r \in registry \ kept THEN "gone" ELSE tree[r]]
    /\ registry' = kept

-----------------------------------------------------------------------------
(* Acquisition: prepare_source fetches the recordings in a pool of its own *)
(* and returns one error per recording it could not fetch; the main thread *)
(* quarantines those before any extraction thread starts.                  *)

Prepare(r) ==
    /\ phase = "acquire" /\ At(r, "listed")
    /\ Move(r, "ready")
    /\ UNCHANGED <<allowPartial, phase, tree, registry, report, debt, manifest, requests>>

PreparationFails(r) ==
    /\ phase = "acquire" /\ At(r, "listed")
    /\ Quarantine(r, "noArtifacts", FALSE)
    /\ UNCHANGED <<allowPartial, phase, tree, registry, manifest, requests>>

(* Mutant: the error of the source reaches no handler of the build.        *)
SourceEscapes ==
    /\ phase = "acquire" /\ \A r \in Recordings : At(r, "listed")
    /\ phase' = "raised"
    /\ UNCHANGED <<allowPartial, stage, tree, registry, report, debt, manifest, requests>>

(* A failure of the whole source (manifest, checkout) ends the build.      *)
SourceFails ==
    /\ phase = "acquire" /\ \A r \in Recordings : At(r, "listed")
    /\ phase' = "abort"
    /\ UNCHANGED <<allowPartial, stage, tree, registry, report, debt, manifest, requests>>

StartThreads ==
    /\ phase = "acquire" /\ \A r \in Recordings : ~At(r, "listed")
    /\ phase' = "process"
    /\ requests' = {r \in Recordings : At(r, "ready")}
    /\ UNCHANGED <<allowPartial, stage, tree, registry, report, debt, manifest>>

-----------------------------------------------------------------------------
(* RecordingCoordinator._process_one, in a thread of the pool.             *)

BeginRecording(r) ==
    /\ phase = "process" /\ At(r, "ready")
    /\ Cardinality({q \in Recordings : stage[q] \in InThread}) < MaxWorkers
    /\ Move(r, "extracting")
    /\ UNCHANGED <<allowPartial, phase, tree, registry, report, debt, manifest, requests>>

(* extract_prepared: a cache hit is materialized into a fresh tree, a miss *)
(* is extracted into one.                                                  *)
ObtainTree(r) ==
    /\ At(r, "extracting")
    /\ \E s \in {"materialized", "extracted"} : Move(r, s)
    /\ tree' = [tree EXCEPT ![r] = "owned"]
    /\ UNCHANGED <<allowPartial, phase, registry, report, debt, manifest, requests>>

(* Extraction rolls its tree back; if the rollback fails, or the tree      *)
(* could not be created undisturbed (see StagingRoot), it stays, owned by  *)
(* nobody but named in the report.                                         *)
ExtractionFails(r) ==
    /\ At(r, "extracting")
    /\ \/ Quarantine(r, "noArtifacts", FALSE) /\ UNCHANGED tree
       \/ /\ CleanupsFail
          /\ Quarantine(r, "preserved", TRUE)
          /\ tree' = [tree EXCEPT ![r] = "owned"]
    /\ UNCHANGED <<allowPartial, phase, registry, manifest, requests>>

(* working.register(): a fresh extraction is stored in the cache next, a   *)
(* materialized one is not.                                                *)
Register(r) ==
    /\ \/ At(r, "extracted") /\ Move(r, "storing")
       \/ At(r, "materialized") /\ Move(r, "checking")
    /\ registry' = registry \cup {r}
    /\ UNCHANGED <<allowPartial, phase, tree, report, debt, manifest, requests>>

(* The handoff is refused (the authority is no longer bound): the tree is  *)
(* cleaned at once, or its identity becomes cleanup debt.                  *)
HandoffFails(r) ==
    /\ stage[r] \in {"extracted", "materialized"}
    /\ \/ Quarantine(r, "noArtifacts", FALSE) /\ tree' = [tree EXCEPT ![r] = "gone"]
       \/ CleanupsFail /\ Quarantine(r, "preserved", TRUE) /\ UNCHANGED tree
    /\ UNCHANGED <<allowPartial, phase, registry, manifest, requests>>

StoreInCache(r) ==
    /\ At(r, "storing")
    /\ Move(r, "checking")
    /\ UNCHANGED <<allowPartial, phase, tree, registry, report, debt, manifest, requests>>

(* Mutant: working.cleanup_all() where working.cleanup(r) is meant.        *)
StoreFailsForAll(r) ==
    /\ At(r, "storing")
    /\ Quarantine(r, "noArtifacts", FALSE)
    /\ CleanupAll({})
    /\ UNCHANGED <<allowPartial, phase, manifest, requests>>

(* The cache or the acquisition record cannot be written: working.cleanup. *)
StoreFails(r) ==
    /\ At(r, "storing")
    /\ \/ /\ Quarantine(r, "noArtifacts", FALSE)
          /\ tree' = [tree EXCEPT ![r] = "gone"]
          /\ registry' = registry \ {r}
       \/ /\ CleanupsFail
          /\ Quarantine(r, "preserved", TRUE)
          /\ UNCHANGED <<tree, registry>>
    /\ UNCHANGED <<allowPartial, phase, manifest, requests>>

ChecksPass(r) ==
    /\ At(r, "checking")
    /\ Move(r, "processed")
    /\ UNCHANGED <<allowPartial, phase, tree, registry, report, debt, manifest, requests>>

(* Validity or sanity rejects the recording, or dropping its invalid       *)
(* images leaves tombstones (StagedImageCleanupError).                     *)
ChecksFail(r) ==
    /\ At(r, "checking")
    /\ \/ \E h \in Handling : Quarantine(r, h, FALSE)
       \/ CleanupsFail /\ \E h \in Handling : Quarantine(r, h, TRUE)
    /\ UNCHANGED <<allowPartial, phase, tree, registry, manifest, requests>>

Processing(r) ==
    \/ BeginRecording(r) \/ ObtainTree(r)   \/ ExtractionFails(r) \/ Register(r)
    \/ HandoffFails(r)   \/ StoreInCache(r) \/ StoreFails(r)
    \/ ChecksPass(r)     \/ ChecksFail(r)

(* Mutant: the batch is tried again as long as anything is owed.           *)
CoordinatorRetries ==
    /\ phase = "process"
    /\ \A r \in Recordings : stage[r] \in Success \cup {"failed"}
    /\ phase' = IF \E r \in Failures \cap requests : r \in debt \/ report[r] = "lost"
                THEN "process" ELSE "scenes"
    /\ UNCHANGED <<allowPartial, stage, tree, registry, report, debt, manifest, requests>>

(* coordinator.process, after the last thread: partial export is asked for *)
(* here whatever the configuration says, so only a lost report or cleanup  *)
(* debt among the processed recordings blocks.  A batch without requests   *)
(* skips the coordinator.                                                  *)
CoordinatorGate ==
    /\ phase = "process"
    /\ \A r \in Recordings : stage[r] \in Success \cup {"failed"}
    /\ phase' = IF \E r \in Failures \cap requests : r \in debt \/ report[r] = "lost"
                THEN "abort" ELSE "scenes"
    /\ UNCHANGED <<allowPartial, stage, tree, registry, report, debt, manifest, requests>>

-----------------------------------------------------------------------------
(* Scenes, features, export preflight (services 350-428): the main thread, *)
(* one recording at a time.                                                *)

LoopInput(p) == CASE p = "scenes" -> "processed" [] p = "features" -> "graphed"
                  [] p = "preflight" -> "featured"
LoopOutput(p) == CASE p = "scenes" -> "graphed" [] p = "features" -> "featured"
                   [] p = "preflight" -> "exportable"
LoopNext(p) == CASE p = "scenes" -> "features" [] p = "features" -> "preflight"
                 [] p = "preflight" -> "preserve"

LoopStep(r) ==
    /\ phase \in Loops /\ At(r, LoopInput(phase))
    /\ Move(r, LoopOutput(phase))
    /\ UNCHANGED <<allowPartial, phase, tree, registry, report, debt, manifest, requests>>

LoopFails(r) ==
    /\ phase \in Loops /\ At(r, LoopInput(phase))
    /\ \E h \in Handling : Quarantine(r, h, FALSE)
    /\ UNCHANGED <<allowPartial, phase, tree, registry, manifest, requests>>

LoopEnds ==
    /\ phase \in Loops /\ \A r \in Recordings : ~At(r, LoopInput(phase))
    /\ phase' = LoopNext(phase)
    /\ UNCHANGED <<allowPartial, stage, tree, registry, report, debt, manifest, requests>>

(* Mutant: no tree is taken out of the registry.                           *)
PreserveNothing ==
    /\ phase = "preserve" /\ phase' = "manifest"
    /\ UNCHANGED <<allowPartial, stage, tree, registry, report, debt, manifest, requests>>

(* working.preserve() for every failure whose persisted report says so.    *)
PreserveTrees ==
    /\ phase = "preserve"
    /\ registry' = registry \ {r \in Failures : report[r] = "preserved"}
    /\ phase' = "manifest"
    /\ UNCHANGED <<allowPartial, stage, tree, report, debt, manifest, requests>>

(* The rejection manifest lists the reports when every one persisted.      *)
WriteRejections ==
    /\ phase = "manifest"
    /\ IF Failures # {} /\ \A r \in Failures : report[r] # "lost"
       THEN \/ manifest' = "written"
            \/ WritesFail /\ manifest' = "lost"
       ELSE UNCHANGED manifest
    /\ phase' = "gate"
    /\ UNCHANGED <<allowPartial, stage, tree, registry, report, debt, requests>>

QuarantineComplete == manifest # "lost" /\ \A r \in Failures : report[r] # "lost"

(* Mutant: the gate counts the failures of the coordinator only.           *)
GateOfCoordinator ==
    /\ phase = "gate"
    /\ LET blocked == Failures \cap requests # {}
                        /\ (~allowPartial \/ ~QuarantineComplete \/ debt # {})
           empty == \A r \in Recordings : ~At(r, "exportable")
       IN  phase' = IF blocked \/ empty THEN "abort" ELSE "select"
    /\ UNCHANGED <<allowPartial, stage, tree, registry, report, debt, manifest, requests>>

(* The second gate (services 461-469).                                     *)
PublicationGate ==
    /\ phase = "gate"
    /\ LET blocked == Failures # {} /\ (~allowPartial \/ ~QuarantineComplete \/ debt # {})
           empty == \A r \in Recordings : ~At(r, "exportable")
       IN  phase' = IF blocked \/ empty THEN "abort" ELSE "select"
    /\ UNCHANGED <<allowPartial, stage, tree, registry, report, debt, manifest, requests>>

(* Filtering, scenario selection, split, annotation join; and the staging  *)
(* lease: any exception, an empty selection included, ends the build.      *)
Select ==
    /\ phase = "select"
    /\ phase' \in {"export", "abort"}
    /\ UNCHANGED <<allowPartial, stage, tree, registry, report, debt, manifest, requests>>

(* export_dataset copies the working images, then working.cleanup_all();   *)
(* a tree that cannot be removed raises and is not tried again.            *)
Export ==
    /\ phase = "export"
    /\ \E kept \in SUBSET registry :
         /\ CleanupAll(kept)
         /\ phase' = IF kept = {} THEN "finalize" ELSE "blocked"
    /\ UNCHANGED <<allowPartial, stage, report, debt, manifest, requests>>

ExportFails ==
    /\ phase = "export"
    /\ phase' = "abort"
    /\ UNCHANGED <<allowPartial, stage, tree, registry, report, debt, manifest, requests>>

(* finalize_dataset and publish_staging.                                   *)
Publish ==
    /\ phase = "finalize"
    /\ phase' \in {"published", "abort"}
    /\ UNCHANGED <<allowPartial, stage, tree, registry, report, debt, manifest, requests>>

(* Every exception path of the build ends in working.cleanup_all().        *)
Abort ==
    /\ phase = "abort"
    /\ \E kept \in SUBSET registry : CleanupAll(kept)
    /\ phase' = "blocked"
    /\ UNCHANGED <<allowPartial, stage, report, debt, manifest, requests>>

(* The build has returned or raised: a stop that is no deadlock.           *)
Terminated == phase \in Ended /\ UNCHANGED vars

Main ==
    \/ StartThreads  \/ CoordinatorGate \/ LoopEnds \/ PreserveTrees
    \/ WriteRejections \/ PublicationGate \/ Select \/ Export \/ ExportFails
    \/ Publish       \/ Abort

Recording(r) ==
    \/ Prepare(r) \/ PreparationFails(r) \/ Processing(r)
    \/ LoopStep(r) \/ LoopFails(r)

Next ==
    \/ \E r \in Recordings : Recording(r)
    \/ Main
    \/ SourceFails
    \/ Terminated

Spec == Init /\ [][Next]_vars

(* The main thread and every pool thread keep running.                     *)
Fairness == WF_vars(Main) /\ \A r \in Recordings : WF_vars(Recording(r))

FairSpec == Spec /\ Fairness

-----------------------------------------------------------------------------
(* Properties.                                                             *)

(* Every variable holds a value of the kind the code gives it.             *)
TypeOK ==
    /\ allowPartial \in BOOLEAN
    /\ phase \in Phases
    /\ stage \in [Recordings -> Stages]
    /\ tree \in [Recordings -> {"none", "owned", "gone"}]
    /\ registry \subseteq Recordings /\ requests \subseteq Recordings
    /\ debt \subseteq Recordings
    /\ report \in [Recordings -> {"none", "lost"} \cup Handling]
    /\ manifest \in {"none", "written", "lost"}

(* Publication is authorised only if every failure of every stage is on    *)
(* record, no cleanup is owed, partial export was configured if there is   *)
(* any failure, and something is left to publish; in particular a failed   *)
(* acquisition, which the coordinator's own gate never sees, counts.       *)
PublicationIsAuthorised ==
    phase \in {"select", "export", "finalize", "published"} =>
        /\ \E r \in Recordings : At(r, "exportable")
        /\ Failures # {} => allowPartial /\ manifest = "written"
        /\ \A r \in Failures : report[r] \in Handling /\ r \notin debt

(* The export reads the working images of every recording it publishes:    *)
(* no cleanup of another recording or another stage has taken them.        *)
ExportReadsLiveTrees ==
    phase \in {"select", "export"} =>
        \A r \in Recordings : At(r, "exportable") => tree[r] = "owned" /\ r \in registry

(* When the build is over, a working tree is on disk only if somebody can  *)
(* find it: a report names it, the raised cleanup error names it, or the   *)
(* recording is reported with cleanup debt.                                *)
NoUnaccountedTree ==
    phase \in Ended => \A r \in Recordings :
        tree[r] = "owned" => report[r] = "preserved" \/ r \in registry \/ r \in debt

(* A build that publishes has removed the tree of every recording it       *)
(* published and kept every tree a report calls preserved.                 *)
PublishedKeepsQuarantine ==
    phase = "published" => \A r \in Recordings :
        /\ At(r, "exportable") => tree[r] = "gone"
        /\ report[r] = "preserved" => tree[r] # "gone"

(* The build never deletes the tree of a recording whose persisted report  *)
(* says "preserved_in_place" (docs/validity.md, Quarantine report          *)
(* contract; preserve(): "an intentionally quarantined tree").             *)
PreservedTreesStay ==
    \A r \in Recordings : report[r] = "preserved" => tree[r] # "gone"

(* The build ends, whatever fails.                                         *)
BuildEnds == <>(phase \in Ended)

-----------------------------------------------------------------------------
(* What makes the safety properties inductive.                             *)

(* How far the recordings can be in each phase of the build.               *)
Reached(p) ==
    CASE p = "acquire"   -> {"listed", "ready", "failed"}
      [] p = "process"   -> {"ready", "processed", "failed"} \cup InThread
      [] p = "scenes"    -> {"processed", "graphed", "failed"}
      [] p = "features"  -> {"graphed", "featured", "failed"}
      [] p = "preflight" -> {"featured", "exportable", "failed"}
      [] p \in {"abort", "blocked"} -> {"listed", "failed"} \cup Success
      [] OTHER           -> {"exportable", "failed"}

(* Who answers for the tree of a recording.  A successful recording keeps  *)
(* it until the export has copied its images.                              *)
Owning(r) ==
    /\ r \in registry => tree[r] = "owned"
    /\ stage[r] \in {"listed", "ready", "extracting"} => tree[r] = "none"
    /\ stage[r] \in {"extracted", "materialized"} => tree[r] = "owned" /\ r \notin registry
    /\ stage[r] \in {"storing", "checking"} \cup Success =>
         phase \in {"finalize", "abort"} \cup Ended \/ r \in registry
    /\ stage[r] \in Success /\ phase \in {"finalize", "published"} => tree[r] = "gone"
    /\ tree[r] = "owned" => \/ stage[r] \in {"extracted", "materialized"}
                            \/ r \in registry \/ r \in debt \/ report[r] = "preserved"

(* What the report of a recording says.  The trees of preserved recordings *)
(* are out of the registry before anything can be published.               *)
Reporting(r) ==
    /\ report[r] = "none" <=> stage[r] # "failed"
    /\ r \in debt => stage[r] = "failed"
    /\ report[r] = "preserved" =>
         /\ phase # "blocked" => tree[r] = "owned"
         /\ phase \in {"manifest", "gate", "select", "export", "finalize", "published"} =>
              r \notin registry

(* The inductive invariant of the build, as one formula.                   *)
IInv ==
    /\ TypeOK /\ PublicationIsAuthorised
    /\ \A r \in Recordings : stage[r] \in Reached(phase) /\ Owning(r) /\ Reporting(r)
    /\ phase = "gate" /\ Failures # {} /\ QuarantineComplete => manifest = "written"

=============================================================================

# Verification project of dataset-devkit

dataset-devkit turns recordings (MCAP files, decoded Hugging Face recordings,
Indus AD scenes) into an immutable nuScenes-like dataset.  `build_dataset`
acquires the recordings, extracts synchronised JPEG samples in a pool of
threads, judges and groups them, exports the selected scenes into a private
staging directory, and publishes that directory under its final name with one
exclusive rename.  Two things are hard.  One is the file protocol: several threads,
builds, cooperative writers and crashes meet in the output directory, the working
directory, the extraction cache, the download cache and the quarantine directory.
The other is that the data pass through a row of stages, each of which derives again
and checks what the one before computed, on integer time with gaps, ties and
tolerances: they must agree with each other and with what the documents promise.

This directory holds TLA+ models of both, TLC configurations that check them on small
instances, and TLAPS proofs for instances of every size: of the file protocols, and of
the camera grid, extraction, validity, selection and split.
Paths below are relative to the repository (`src/dataset_devkit/...`).

    tlc -workers 2 -config MCPublication.cfg MCPublication
    tlapm PublicationProofs.tla

## Inventory

| Component | State it keeps | Operations | What is hard | Correct when |
|---|---|---|---|---|
| Publication protocol (`publication.py`) | staging name, final name, sealed modes, flock on the staged directory | `StagingLease.create/close/cleanup`, `mutation_guard`, `publish_staging`, rollback | races on the final name, edits after verification, failure after the rename, crash between rename and fsync | only verified bytes become visible, once, and a failure leaves nothing |
| Finalization (`validation.py`) | findings, content manifest | `validate_dataset`, `finalize_dataset`, `verify_publication_manifest*` | links that agree locally and are no list; what was hashed against what is renamed | tables that pass are true, manifest and tree agree |
| Dataset writer (`export.py`) | tables and images in the lease | `preflight_recording_export`, `export_dataset`, `_SafeDatarootWriter` | runs under the guard of the lease; names and times that fall together | writes only into the lease, and what the validator accepts |
| Dataset reader (`dataset.py`) | indexes of a published dataset | loading, `scene_samples`, `scene_annotation_evidence` | its own notion of a chain and an owner | reads whatever is valid |
| Extraction cache (`extraction/cache.py`) | per key a final directory, a lock file, temporaries | `store`, `materialize`, `contains` | lock-free readers during a refresh by `renameat2(EXCHANGE)`, reused inodes, crashes | a hit is one whole generation |
| Build orchestration (`services.py`) | working-tree registry, evidence, failures | `build_dataset`, `_build_evidence*` | every error path ends in a cleanup of everything | nothing unauthorised is published, no tree is forgotten |
| Recording coordinator (`coordinator.py`) | outcomes, quarantine artifacts | `process`, `_process_one`, `quarantine_failure` | thread pool, error classification, cleanup debt | one recording's failure is its own |
| Staging invocations (`extraction/staging.py`) | directories of the working root, tombstones | `create_staging_invocation`, `rollback_...`, `remove_owned_staged_images`, `retry_owned_tombstone_cleanup`, `stage_jpeg` | threads share one root; a multi-file transaction of links and unlinks | no directory or image is lost or left unreported |
| Extraction service (`extraction/service.py`, `decoded.py`) | the invocation it fills | `extract_owned` | ownership on failure | hands over or rolls back |
| Quarantine reports (`quarantine.py`) | report files, rejection manifest | `write_quarantine_report`, `write_rejection_manifest` | concurrent equal failures, durability | a report is whole or absent, rows are not lost |
| Source runtime and acquisition (`source_runtime.py`, `huggingface_acquisition.py`, `decoded_*`, `indus_ad_acquisition.py`) | download cache, per-recording locks | `prepare_source`, `acquire` | callers of one file, interrupted downloads, power loss without fsync | a returned file is the advertised one, and is downloaded once |
| MCAP source (`extraction/mcap_source.py`) | an open file, its identity | `read_recording`, `iter_camera_access_units` | two passes over a file that may change | both passes see one file |
| Camera grid (`extraction/grid.py`) | union-find arrays | `select_camera_grid` | ties, rounding, the last target | nearest free batch for every target |
| Camera decoders (`extraction/camera.py`) | pending and emitted submissions | `submit`, `_associate`, `finish` | late, reordered, nameless, lost pictures | every picture goes to its submission |
| GNSS (`extraction/gnss.py`, ...) | none | bracketing, interpolation | floating point | brackets are tight |
| Validity and sanity (`validity.py`, `sanity.py`) | none | `evaluate_validity`, `validate_validity_enforcement`, `evaluate_sanity` | several defects, several toggles | every enabled reason invalidates, alone |
| Scenes (`scenes.py`) | none | `build_recording_scenes`, `validate_scene_graph` | windows, gaps and skips that touch | a sample is in one scene or has a reason |
| Features, filtering, selection, split (`features.py`, `filtering.py`, `scenario_selection.py`, `split.py`) | none | pure functions | quotas, largest remainders | equal their declarative meaning |
| Indus annotations (`indus_ad_*.py`, `annotations.py`) | dense assets | joins, materialization | partial downloads | joined by key |
| Configuration, provenance, CLI | none | parsing, hashing | static | not modelled |

How they meet: `build_dataset` (main thread) calls acquisition, then
`RecordingCoordinator.process`, whose threads call the extraction service or the
cache, judge the result (sanity, validity) and build its scene graph; features,
filters, selection and split follow in the main thread.  Extraction and cache both create directories in `paths.work_dir` through
`create_staging_invocation` and hand them to the `_WorkingExtractionRegistry`.
Export reads those directories and writes into a `StagingLease` next to the final
name.  Between threads there is the registry's lock; between processes there are
only files: flocks on directories and lock files, names, link counts and inode
numbers.

## Modules

| Module | Models | Role |
|---|---|---|
| `Publication` | one output directory, several builds | lease, guard, export, finalize, seal, flush, rename, verification, rollback, cleanup |
| `AtomicPublication` | what publication promises | abstract specification of `Publication` |
| `PublicationProofs` | | proofs about `Publication`, its refinement included |
| `ExtractionCache` | one key of the cache, writers and readers | `store` under the key's lock, lock-free `materialize` |
| `CacheRegister` | what a key promises | abstract specification of `ExtractionCache` |
| `ExtractionCacheProofs` | | proofs about `ExtractionCache`, its refinement included |
| `BuildPipeline` | one build and its recordings | gates, registry, reports, cleanups |
| `BuildPipelineProofs` | | proofs about `BuildPipeline` |
| `StagingRoot` | the working root of one build | creation under flock, removal without |
| `StagingRootProofs` | | proofs about `StagingRoot` |
| `StagedImages` | one working directory | drop of invalid images, its rollback, retry of tombstones |
| `StagedImagesProofs` | | proofs about `StagedImages` |
| `RejectionManifest` | the rejection manifest of a quarantine directory | locked read, merge, replace by several builds |
| `RejectionInventory` | what the manifest promises | abstract specification of `RejectionManifest` |
| `QuarantineReports` | the reports of a quarantine directory | private file, no-replace link, undo |
| `QuarantineDirectory` | both halves of a quarantine directory | `RejectionManifest` and `QuarantineReports` side by side; instance in `MCQuarantine` |
| `QuarantineDirectoryProofs` | | proofs about `RejectionManifest`, its refinement included, `QuarantineReports` and `QuarantineDirectory` |
| `AcquisitionCache` | one file of the download cache | six kinds of calls that lock, reuse, download, verify, promote |
| `AcquisitionCacheProofs` | | proofs about `AcquisitionCache` |
| `CameraGrid` | `select_camera_grid` | the algorithm, and `IsGridOf`, what it promises |
| `RecordingExtraction` | `RecordingExtractor` with `mcap_source.py` and `camera.py` | two passes over a file, decoders, staging of pictures |
| `FrameValidity` | `validity.py` | observations, audits, candidates, enforcement |
| `SceneGraph` | `scenes.py` | runs, annotation windows, scenes, chains, their validation |
| `RecordingAssembly` | the stages of one recording | extraction, sanity, validity, scenes, features as steps that may refuse |
| `SceneAssignment` | `filtering.py`, `scenario_selection.py`, `split.py` | what becomes of the scenes of all recordings |
| `ExportedTables` | `export.py`, the leakage audit of `split.py` | tables, links and extensions of a build |
| `DatasetChecks` | `validation.py`, `dataset.py` | preflight, export, an edit, validation, reading |
| `RecordingDataProofs` | | proofs about `CameraGrid`, `RecordingExtraction`, `FrameValidity` in `RecordingAssembly`, and `SceneAssignment` |
| `MCProtocolsLive` | `Publication` and `ExtractionCache` side by side | instance for liveness |
| `MCRecordingData` | the data modules | instance for the data |
| other `MC*` | | instances for TLC |

**Publication.** A build is a process with a program counter `pc`; trees are
identified with the builds that made them.  `staging` and `final` are the names in
the output directory, `bytes` a version of the content (every change makes a new
one), `manifest` and `expected` the version that was hashed and the version that
was finally validated, `sealed` the read-only modes, `flushed` and `durable` what
survives a power loss, `guard` and `writer` the flock on the staged directory.
Two actors besides the builds: a cooperative writer that takes the guard, and an
operator who removes a published dataset and may change bytes behind everybody's
back before the seal (`stray`).  `StepFails` is the exception raised by any call at
any point; `Handler` is what the except and finally blocks do about it.  Not
modelled: a process that swaps whole directories without the guard; docs/export.md
declares it out of scope.

**ExtractionCache.** A generation is a directory identified by its inode, and
inodes are reused once a directory is gone.  A writer takes the key's flock,
compares the existing generation, fills and seals a temporary, and either renames
it without replacement or exchanges it with the predecessor, which it then
retires.  A reader opens the final directory, remembers its inode, copies image
after image and finally looks whether the name still leads to the same inode.
Writers can fail at every point, crash, and lose power.

**BuildPipeline.** The content of a recording is abstracted to the stage at
which it fails.  `stage` is the recording's progress, `tree` its working directory,
`registry` the authority over it, `report` its quarantine report, `debt` the failures
with `cleanup_complete = False`; `phase` is the main thread.  The two gates (the
coordinator's, and the one before publication) are actions with the code's
conditions.

**StagingRoot.** Zooms into the working root: creation takes a flock on the root
and compares listings around the `mkdir`; rollback and cleanup take no lock.  A
recording makes a directory for a cache copy and, on a miss or a failed copy,
another for a fresh extraction.

**StagedImages.** Zooms into one working directory: every `link`, `unlink`, `stat`
and `fsync` of `remove_owned_staged_images` is an action, `moved` is the list of
records, `owed` what the cleanup error carries.  Another process may add hard links
to images and files under freed names; it does not rename over existing names.
That keeps the window between a `stat` and the `unlink` that follows it outside the
model: nothing in the code could close it.

**RejectionManifest.** A file is identified by its author, who stands for the inode:
every writer makes one temporary file.  A quarantine directory can be moved away, made
anew by the next writer and moved back; `here` is what the configured path leads to,
`dir` what a writer has open, `lock` the flock on that directory.  `read` is the
manifest a writer looked at, `candidates` what a power loss may leave.  An outsider
without the lock may replace the manifest once, by a file with an additional row or
by an empty one; as above he stays out of the gap between the last look and the
rename.  `Exit` is there because a `stat` that fails in the finally block skips the
unlock: the lock then lives as long as the process.

**QuarantineReports.** Tokens are a small set, so that the random names collide with
each other and with files that were there before.  `temp` and `final` say whose file a
name leads to, `kept` to whose it may lead after a power loss, `content` and `flushed`
what the file holds and what survives.  Every call may fail.

**AcquisitionCache.** `kind` says which code the callers run, because the calls on one
file share the lock, the final name and the directory of the download, and differ in
what they trust: a recording needs its manifest as well, an artifact its receipt, a
file only its checksum, a listing is always downloaded anew, a snapshot has a directory
of its own and is parsed after the lock is gone, and a dense member is extracted without
a lock.  `scratch` is the partial download, left behind by whoever failed or died;
`after` is what a power loss may leave under the final name, because nothing is flushed
before the rename.

**CameraGrid** is the whole algorithm, the union-find arrays included (path compression
does not change a root and is left out).  A recursive function over the arrays finds a
root.  `IsGridOf` says what a selection must be without them.

**RecordingExtraction.** The first pass opens the file, indexes messages and chooses the
grid; the second opens it again and compares.  `content` is a list of editions, because
somebody may write the file in place or rename another one over it at any time.  A
decoder is external: it answers a call with at most two pictures of those it holds, in
any order, with or without their time stamps, may repeat one it has answered or lose
one.  What is assumed of it is that a time stamp, when there is one, is that of the
picture, and that a picture it repeats carries one.

**FrameValidity, SceneGraph, RecordingAssembly.** Pure stages: a step computes what the
function of the code returns and goes on or refuses.  `FrameValidity` has every code,
the observations in the order of the log, the audits and the final candidates.  In
`SceneGraph` a token is the identity it is derived from.  `RecordingAssembly` threads one
input through log extraction or the frame tables of the decoded backend, sanity,
validity with its enforcement, the scene graph with its validation, and features with
theirs.  Decimal thresholds and floating point (pose, speed, yaw) are predicates of a
frame or left out.

**SceneAssignment.** Filters, selection by rules in priority, half-up test share,
apportionment of strata and the draw.  A rank by hash is an order nothing is known of,
so whatever a rank picks is any choice of that size.  Both loops of the apportionment
pass over all rules, those without a scene too; an allocation is added up by its places
(`Total`), and a loop is a set of allocations that grows turn by turn.

**ExportedTables, DatasetChecks.** The first derives what `_export_into` writes from the
scenes of the recordings, the selection and the sides of the split; a table is a sequence
of rows, a token the identity it is derived from.  The second has the relational checks of
`validate_dataset` (tokens, references, chains, owners, coverage, memberships, leakage
pairs, cameras) and what the reader wants.  A channel is a record of what the conversions of
its name tell apart: its words, the number of underscores between them, and a spelling
(case, dashes, prefix) both drop.  The validator gathers findings where the model
takes a conjunction: only whether there is one is kept.  Since anybody may validate any
directory, one edit of the exported tables is possible before: a field copied or
exchanged, a row lost or doubled, all links of a table made anew.

## Runs

| Run | Instance | Shows |
|---|---|---|
| `publication` | two builds, every point may fail but the rename that gives a stolen tree back, crashes, power loss, operator | `PublishedIsAuthorised`, `VisibleIsAuthorised`, `FailureLeavesNothing`, `StolenTreeIsReturned`, `NeverOverwritten` |
| `protocols_live` | two builds with one failing point per phase; two stores of two images and a reader | `BuildsEnd`, `CacheCallsEnd`; the publication implements `AtomicPublication` |
| `downloads` | three calls of one of six kinds, any of which may fail or die; two power losses | `ReturnedIsExpected`, `NoNeedlessDownload`, `EveryAcquisitionEnds` |
| `cache` | three stores, one reader, three inodes, every point may fail, crashes, power loss | `HitIsOneGeneration`, `FinalIsComplete`, `NothingLeftBehind`, `NoGapNoReturn`; a key implements `CacheRegister` |
| `pipeline` | three recordings, two threads, writes and cleanups may fail | `PublicationIsAuthorised`, `ExportReadsLiveTrees`, `NoUnaccountedTree`, `PublishedKeepsQuarantine`, `BuildEnds` |
| `pipeline_preserved` | two recordings | **violated** `PreservedTreesStay`, see Findings |
| `staging_root` | three recordings, two threads | `NothingIsLost`, `EveryRecordingEnds` |
| `staging_root_independent` | two recordings, only extraction may fail | **violated** `RecordingsAreIndependent`, see Findings |
| `staged_images` | three images, every call may fail | `AllOrNothing`, `DebtIsExact`, `ForeignFilesStay` |
| `quarantine` | two builds on the manifest with two directories; two reporters, two tokens | `RecordedWhereLooked`, `EveryManifestCallEnds`, the manifest implements `RejectionInventory`; `ReportsStayWhole`, `NothingIsReplaced` |
| `recording_data` | every log of up to four batches on a grid of six stamps; five files with two cameras that change once; some 5,900 recordings with defects, gaps and annotations; populations of five scenes and strata of up to nine; some 500 builds of one or two recordings, and six whose tables are edited | `GridIsNearest`, `FramesStayPaired`, `ReasonsAreIndependent`, `ScenesPartitionTheRecording`, `StagesAgree`, `SelectionIsPriorityQuota`, `SplitIsExact`, `ExportIsAccepted`, `PassedTablesAreTrue` |
| `window_spans` | the recordings of `recording_data` | **violated** `WindowsStayInValidSpans`, see Findings |

The inductive invariants `IInv` of the proofs, the type invariants among their conjuncts,
and what follows from them (`GuardDiscipline`, `LockDiscipline`, `CreatorsAreSerialised`, `RegistryIsLive`, `NeverNameless`, `RecordedStays`) are proved and
have no run.  What the properties of `recording_data` say:

- `GridIsNearest`: every target gets the nearest batch no earlier target has, the earlier
  of two that are equally near; a target is missed only when none is within tolerance;
  no target is off the rational grid by more than half a unit.
- `FramesStayPaired`: a finished extraction has for every selected batch and camera one
  sample, made from that camera's bytes in that batch of the indexed edition, in order.
- `ReasonsAreIndependent`: the audit of a sample under a set of toggles is the join of
  its audits under each toggle alone, and the candidates are those without a reason.
- `ScenesPartitionTheRecording`: every valid sample is in exactly one scene or in the
  unassigned list with a true reason; scenes respect the bounds of duration, number,
  gap and skip, automatic ones are as long as they may be, and every matched annotation
  is in a scene that covers its window.
- `StagesAgree`: no stage refuses a recording that gives no reason to (`WellBehaved`: cameras
  of a later batch were exposed later, tables are in that order, targets are two
  tolerances apart, missing poses invalidate, the reference camera is there or any other
  will do, no check of sanity is an error, the annotation file is well formed).
- `SelectionIsPriorityQuota` and `SplitIsExact`: selection is greedy by rules; the test set has
  the share rounded half up and as many two-sided strata as any allocation could.
- `ExportIsAccepted`: a build is refused by the exporter only when two recordings spell a
  channel differently; the validator refuses an untouched export exactly when a sample misses a
  required camera, or a required camera is configured with a repeated underscore, which
  it never finds although it may be there (see the disagreements below); and what is valid can
  be loaded, walked and resolved.
- `PassedTablesAreTrue`: whatever was edited, tables that pass link the samples and frames of
  an owner in time, name for every frame its scene, channel, time and, where it is compared,
  its pose, and list exactly the neighbours the split has separated.

Bounds, and why they are enough:

- *Builds*: two meet in every race on the final name (both look, both rename, one
  rolls back what the other put there).  A third build only repeats these pairs;
  the proofs hold for any set of builds.  `MaxVersion` (changes of content) is 2: one
  before and one after a verification.  `MaxRetired` (removals by the operator) is 1:
  the name becomes free once more.
- *Cache*: three stores are needed to free an inode and reuse it while a reader still
  remembers it; three inodes hold the final generation, a predecessor and a
  temporary.  One image per generation is enough to be copied from the wrong one; the
  liveness run has two.
- *Pipeline and working root*: two threads and three recordings, so that one
  recording starts when another has left.  The working root's faults are one of
  every kind of point in the liveness-and-safety run; the proofs cover every set.
- *Quarantine*: a lost update needs two writers, a directory made anew needs two
  directories; `MaxMoves` is 2 (away, back, away again), `MaxLosses` 1: a power loss
  ends every writer, a second one changes nothing.  Two tokens let a collision and a
  retry meet.  Reports and manifest share no file, so a behaviour is about one of
  them.
- *Images*: first, middle and last position of the transaction; the proofs cover
  every number.
- *Downloads*: three callers, so that one waits while another fails and a third comes
  after both; `MaxLosses` is 2: a loss leaves a torn final file, a torn partial download
  or a record without a file, the calls after the restart meet it, and the second finds
  them repairing it.
- *Grid*: up to four batches with stamps 0 to 5, so that two targets compete for a batch, a batch
  for two targets, and a choice leaves a hole in the union-find arrays; periods of 1, 3/2,
  5/2 and 3 and tolerances up to 2 make ties, fractions of exactly one half and targets
  beyond the last batch.  `MaxTargets` is 8, so that the limit is met.
- *Extraction*: two batches of two cameras, one change of the file (`MaxEditions` is 2): the
  submissions of two cameras interleave and a decoder holds two pictures.
- *Recordings*: for validity three batches, each with one of seven defects, in and out
  of order, under four sets of toggles; for scenes seven targets of which up to three are
  missed or invalid, six annotation files and four settings in every mode, chosen so that
  gaps, skips, windows and durations meet their bounds exactly.
- *Scenes of all recordings*: populations of five scenes of four kinds up to order under
  four overlapping rule lists; strata of up to six scenes, nine in all (six with a fourth stratum), with
  shares that round at one half.

- *Tables*: one or two scenes in the first recording and one in the second, each of six kinds:
  cameras that miss a sample or come in another order, times that meet in one
  microsecond, two spellings of a channel, annotations of their own or shared; with and without a
  rejected scene, and every selection and draw.  Edited: four samples in one scene, so
  that a cycle and a chain fit beside each other, three scenes of one sample, and two recordings
  with two cameras.

`CHECK_DEADLOCK` is never switched off: a finished system takes an explicit
`Terminated` step, so a run that stops anywhere else is reported.

Fairness: only the processes of the system are fair.  A running build, store,
thread or materialization keeps taking steps (weak fairness), because the operating
system schedules it and no modelled call blocks except on a flock; a cooperative
writer inside the guard leaves it, which is what "cooperative" means in
docs/export.md.  Nothing is promised about crashes, failures, operators or a writer's
arrival.  A flock has no queue; where several wait, each waits for a finite number of
others, since stores, creations and downloads are finite.  A download that never ends
is not modelled: the client's own timeouts turn it into a failure.  `recording_data` has no
fairness and no liveness property: its steps are the calls of one thread.

## Proofs

Checked by TLAPS for every value of the constants under the named assumptions
(`NoTree` is not a build, `NoOne` no writer, `NoInode` no inode, authors of files differ,
fault sets are subsets of the program points, at least one worker, counts and bounds are
natural numbers; a grid period of at least one unit and a natural tolerance, since
`grid.py` refuses any other; at least one camera, since `CameraDecoderSet` does; finite
sets of scenes, natural quotas, and a test fraction strictly between 0 and 1, as
`config.py:678` demands).  Each `IInv` was first checked by TLC on the instances of the runs; a
theorem that needs more than these assumptions says so in its statement, and below.

`PublicationProofs`: `Invariance` shows `Spec => []IInv`.  The safety properties alone
are not inductive: that a published tree is authorised depends on the guard having
been held since the last verification, on the seal, and on which tree each name can
denote at each point.  `IInv` collects these facts (`Versions` for the content, `Naming` for
the names, per build) and every action is one case.  From it follow
`TypeCorrect`, `GuardHeld`, `PublishedStaysAuthorised`, `VisibleStaysAuthorised`,
`FailureIsClean` and, as an action property, `FinalIsNeverOverwritten`.

Two theorems need an invariant of their own on top of it.  `StolenTreesReturn` says that a
rollback which moved another build's tree away gives it back, unless a third build had the
final name in between.  It rests on `Theft`: while two rollbacks hold each other's tree, or
one finds its own tree at the final name, a third build has already lost a rollback.  Its hypothesis
is that the rename back (point `withdrawn`) does not fail; where it fails, the code keeps the
stolen tree.  `Refinement` shows that publication implements `AtomicPublication`, for any set
of builds, with no operator (`MaxRetired = 0`) and no failing call in a rollback
(`FaultPoints \cap Undo = {}`).  Both are needed: the abstract slot is emptied by its owner
only, while an operator removes published datasets, and a rollback that fails leaves a
tree that a failed build put there.  `Undisturbed` is the extra invariant: a build that has renamed and is
not finished finds its own tree under the final name, so every rollback withdraws its own.

`ExtractionCacheProofs`: `Invariance`, then `TypeCorrect`, `LockIsReleased`,
`HitsStayWhole`, `FinalStaysComplete`, `StoresLeaveNothing`, the action property
`GenerationsAdvance` and `Refinement`.  That a hit is whole says nothing of the moments before, so
`IInv` adds, for a writer, what it has under its staging name (`Staging`: the directory it
fills is newer than every other and nothing a power loss could bind), and for a reader what the images
it has verified prove (`Copying`: once one image matches, the directory that is held open *is* the
inspected generation, although its inode may have been reused before).  `Ordered` and
`Lasting` say the same of time and power: what a power loss can bring back instead of what is there is
older, and all of it is complete and flushed unless an exchange or its fsync may fail.  Where it may, the one
thing a stopped machine can show torn is a predecessor, never the generation made last
(`FinalIsComplete`).  `Refinement`
shows that a key implements `CacheRegister`: a lookup without a lock answers as if it had happened in one
step.  It needs `ImageCount > 0`, and TLC refutes it without (three stores, no image): nothing but the
inode number ties the result to the directory that is looked at last, so an empty
generation may be answered after it was replaced.  The MCAP extraction never
stores one: it refuses a recording without a camera batch (`mcap_source.py:910`) and a batch without
cameras (`camera.py:99`), and the first batch is always a target of the grid.

`BuildPipelineProofs`: `Invariance`, then `TypeCorrect`, `PublicationStaysAuthorised`,
`ExportFindsItsTrees`, `TreesStayAccounted` and `PublicationKeepsQuarantine`, for any
recordings, any number of threads, and reports and cleanups that may fail or not.  The strengthening says how far
recordings can be in each phase (`Reached`: the pool is drained before a gate is asked), who answers for
a tree from the moment it exists (`Owning`), and what a report implies for its tree (`Reporting`).
`Reporting` makes one exception, the phase `blocked`, where preserved trees are still in the registry
and the common cleanup takes them: this is finding 1, seen from the proof.

`AcquisitionCacheProofs`: `Invariance`, then `TypeCorrect`, `ReturnedStaysExpected` and the
action property `DownloadsAreNeeded`, for any callers and number of power losses.  The
strengthening is that one call is inside the lock (`LockDiscipline`; the extraction of a member takes none),
that a call which downloads has seen no usable file, and that a partial download which passed the check is
good until it is promoted (`Knowing`).

`StagingRootProofs`: `Invariance`, then `TypeCorrect`, `CreatorsStaySerialised`,
`NothingGetsLost`, `RegistryStaysLive`.  The strengthening says that the lock is held
exactly by the recording that is creating (`LockIsHeld`), and what the position of a
recording implies for its directory and the registry (`Standing`).

`StagedImagesProofs`: `Invariance`, then `TypeCorrect`, `DropIsAtomic`,
`NothingGetsNameless`, `DebtStaysExact`, and the action property
`ForeignFilesAreKept`.  The strengthening says that the directory is what the records
say (`AsMoved`): for all images during the transaction, for the images below the
current one during the rollback, while those above it are restored unless an error
was noted; after the commit the debt is the set of listed tombstones.

`QuarantineDirectoryProofs`: for the manifest `Invariance`, then `TypeCorrect`,
`RecordedRowsStay`, the action property `RecordedUnderPath`, and `Refinement`: it implements
`RejectionInventory`, a set of rows that only grows, so no interleaving of any number
of builds loses a row.  The strengthening (`Standing`) says that what a writer read is
still there or an outsider has replaced it, that it is exactly what is there once the
last look has passed, and that after the flush every candidate has the writer's row.
Two lock holders have different directories open (`Apart`), so a manifest changes under
a writer only by its own hand or the outsider's.  For the reports `ReportsInvariance`, then
`FinalStaysWhole`, `PersistedIsForGood` and the action property `NeverReplaced`; their
strengthening is about every name that leads, or after a power loss may lead, to a
reporter's file: it is the name of the token the reporter tries, nobody else's, and the
file is whole and flushed.  `DirectoryKeepsReports` and `DirectoryReplacesNothing` carry both
to the directory in which they act side by side.

`RecordingDataProofs` proves what the algorithms on data compute, for every log, rate,
tolerance, number of cameras, configuration, list of rules and set of scenes.

- *Loops.*  The algorithms are recursive functions over `0 .. n`.  The library's induction
  theorems take an operator as a parameter and cannot be instantiated here; that every
  set of naturals has a least element follows from theorems that can (strict inclusion
  of finite sets is well founded), and with it induction with a set in place of the predicate
  (`Least`, `InductionOn`), and that such a function exists and is what its equations say
  (`Iterates`).
- *Grid.*  `GridStaysNearest`.  A root of the union-find arrays is the nearest batch that is
  not used (`RootBackward`, `RootForward`), which using a batch preserves; the invariant of
  the loop (`Matched`) says that every target so far has the nearest batch free at its turn
  or none near enough; the rounding of a rational target is injective because a period is at
  least one unit.
- *Extraction.*  `Invariance`, then `GridStaysNearest` of what it chose and `FramesStay`.  `IInv` says
  that both passes are of one edition (`OneFile`), that the grid is that of the indexed
  messages (`OneGrid`), that each submission to a decoder waits or was answered once
  (`EverySubmission`), and that what is staged is one sample for each answered submission
  of the grid (`OneSampleEach`); the final sort then restores the order of the log.
- *Validity.*  `DataInvariance`: what was extracted has a grid, and the report is that of an
  accepted result.  `ReasonsStayIndependent`: under another set of toggles every observation
  is the same one with its flag turned (`Turned`), and an entry is judged by the
  observations of its own batch, so, targets being distinct, what survives a set of codes is what survives
  each of them.  `EnforcementNeverRefuses`: the second check of the coordinator finds nothing
  in a report the first one made; here it matters that batches are distinct as well, or an
  invalid observation would touch the batch of a valid sample.
- *Selection.*  `SelectionInvariance` and `SelectionIsGreedy`: the audit of a rule that had its
  turn is what `_validate_scenario_selection` computes again from scratch.
- *Split.*  `SplitInvariance` and `SplitStaysExact`.  An allocation is summed by its places
  (`Adding`, `CountingOnes`, `Within`); the loops keep the total and each stratum they have passed
  has a test scene, then a training scene, or nobody could give or take one (`Tested`,
  `Trained`).  In the end nobody can give, or nobody can take, or all strata of two or more
  have both, and in each case no allocation of that total has more (`Fairest`).
- *Choices.*  `ChoicesAlwaysExist`: the slice of the largest remainders is never negative or
  longer than the strata, the loops leave at least one allocation, and each can be drawn, so
  neither step can fail and `SplitIsExact` does not speak of an empty set of outcomes.

Only model-checked:

- liveness (`BuildsEnd`, `CacheCallsEnd`, `EveryAcquisitionEnds`, `BuildEnds`, `EveryRecordingEnds`,
  `EveryManifestCallEnds`): weak fairness and ENABLED are beyond the prover;
- `ScenesPartitionTheRecording` and `StagesAgree`, `ExportIsAccepted` and `PassedTablesAreTrue`: the
  scene graph and the tables are built with folds, `SelectSeq` and `SortSeq`, whose library definitions
  are recursive operators or take one as a parameter, and tlapm takes what they return for
  unknown.  The algorithms are checked over bounded inputs.

## Findings

1. *Preserved trees are deleted* (`services.py:345`, run `pipeline_preserved`).  When
   the coordinator blocks the batch, the build raises before the loop that takes
   quarantined trees out of the registry, and the common cleanup deletes trees
   whose persisted report says they are preserved in place.
2. *Recordings are not independent* (`extraction/staging.py:199`, run
   `staging_root_independent`).  Creation compares the whole listing of the working
   root, but rollback and cleanup remove directories without the lock; one
   recording's rollback makes the creation of a healthy one fail, with a cleanup
   debt that blocks the batch.
3. *Windows cross invalid spans* (`scenes.py:226`, run `window_spans`).  docs/scenes.md
   promises that an annotation window cannot cross an invalid span or a grid gap.  A run
   of samples ends only where two valid ones are more than the configured maximum gap
   apart, so with a gap of two periods a missed or invalid target lies inside a scene.

Disagreements met while reading the code that no violation run is about:

- docs/extraction.md:183-184 lets a camera's clock run backward when the toggle of
  `camera_timestamp_non_monotonic` is off; scenes (`scenes.py:1343`) and features
  (`features.py:204`) refuse such a recording whatever the toggles say.
- A frame without a pose passes validity when `gnss_source_invalid` is off, and features
  refuse the recording.
- With a tolerance of more than half a period two targets may take batches in the
  opposite order; the scene graph then refuses the recording.
- The docstring of `ScenarioQuotaError` (`scenario_selection.py:69`) speaks of quotas that
  cannot be met; the selection is greedy in rule order and raises although another
  choice would meet them.
- docs/superpowers/specs/2026-09-14-decoded-v2-privacy-backend-design.md:192 names "atomic
  promotion and fsync" for downloads; the code does not flush them.  A recording whose final file a power
  loss has torn is downloaded again, a file or an artifact is refused for ever.
- One malformed or duplicate line of the annotation file refuses the whole file, and so
  every recording of the build.
- `validation.py:2341-2376` wants every exported sample to have all cameras of
  `frame_validity.required_cameras` even when `missing_required_camera` is off, which
  docs/validity.md:18-22 says changes only the sample's validity.
- Two conversions of a camera name differ: `export.py:578-579` leaves one of several underscores,
  `validation.py:2343-2345` keeps them all.  A camera `front__wide` that is required and in
  every sample is exported as `CAM_FRONT_WIDE` and looked for as `CAM_FRONT__WIDE`, so a
  healthy build is refused for incomplete coverage.  The model has both (`NormalizedChannel`,
  `RequiredName`), and `ExportIsAccepted` names the case.
- Names of channels that become equal when they are normalised pass the check of each
  recording (`export.py:702-738`) and are refused when they meet in one dataset
  (`export.py:866-873`).

- What `validate_dataset` cannot see, and `PassedTablesAreTrue` does not claim: the time of an
  `ego_pose` (compared with nothing), which pose belongs to which frame of an MCAP build,
  which of the calibrations of its channel a frame has,
  nanoseconds within a microsecond, the times in the chronology, the lines an annotation
  window lists, and two frames of one channel that exchange their samples within a scene (a frame copied to
  another's sample passes too, and the reader then refuses to load the dataset:
  `dataset.py:317-319`).

Behaviour the models show that contradicts no statement of the repository: a
rollback that fails with a system error leaves the tree under the final name, and
the lease's cleanup then empties it there; an emptied `.rejected-*` directory stays
behind after a rollback; a staging directory that was made but could not be opened
stays behind; the first generation of a key is published without an fsync of its
parent; temporaries of crashed stores are never collected; a drop whose rollback
failed leaves tombstones that no report names; a `stat` that fails while the rejection
manifest's temporary file is removed leaves the directory locked until the process
ends; a report that could not be withdrawn stays although its failure was reported; a failed fsync after the last
tombstone raises a cleanup error with no tombstones in it.

## Not modelled

Data: pixels and bit streams, interpolation of poses, geometry, hashes, the shape of
records and files, configuration values and the command line.  The joins of Indus boxes and tracks,
the control view of the Indus cache (copied in place without a lock; the contract parser
refuses a torn copy by its size), and their extension tables.  Two builds that share one working
directory (they disturb each other as two threads do in `StagingRoot`).  A power loss
inside the working directory: it is private to a build and discarded with it.
`stage_jpeg`, a no-replace link like that of the reports.

## Plan

1. *Core (done)*: `Publication`, `ExtractionCache`, `BuildPipeline`, `StagingRoot`,
   `StagedImages`, `QuarantineReports`, `RejectionManifest`.
2. *Acquisition and data (done)*: `AcquisitionCache`, `CameraGrid`, `RecordingExtraction`,
   `FrameValidity`, `SceneGraph`, `RecordingAssembly`, `SceneAssignment`, `ExportedTables`,
   `DatasetChecks`.
3. *Proofs (done)*: `Publication`, `ExtractionCache`, `RejectionManifest` with their
   refinements; `StagingRoot`, `StagedImages`, `QuarantineReports`, `BuildPipeline`,
   `AcquisitionCache`; `CameraGrid`, `RecordingExtraction`, `FrameValidity`, `SceneAssignment`.
4. *Left*: the partition into scenes of `SceneGraph`, once it is stated without folds.

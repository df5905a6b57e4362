----------------------------- MODULE FrameValidity -----------------------------
(***************************************************************************)
(* evaluate_validity and validate_validity_enforcement (validity.py): what *)
(* is observed of an extraction result, which observations invalidate a    *)
(* logical sample, and the check that nothing invalid goes on.             *)
(*                                                                         *)
(* A recording has the batches of the log, in their order: the time of the *)
(* batch and its frames, each a camera, its own clock and the defects of   *)
(* its pose; and the grid selected from them.  The config says which codes *)
(* are enabled, the required cameras, the largest clock step and what      *)
(* becomes of the pictures of invalid samples.                             *)
(***************************************************************************)
EXTENDS CameraGrid

(* _pose_observations.  A pose is the set of its defects; one that could   *)
(* not be interpolated and one between invalid endpoints have one code.    *)
CodeOf(defect) ==
    CASE defect \in {"unavailable", "invalid"} -> "gnss_source_invalid"
      [] defect = "imprecise" -> "position_sigma_exceeded"
      [] defect = "turned"    -> "orientation_variance_exceeded"
      [] defect = "stale"     -> "gnss_sync_gap_exceeded"

PoseCodes(pose) == {CodeOf(defect) : defect \in pose}

Observation(config, code, scope, target, batch) ==
    [code |-> code, scope |-> scope, target |-> target, batch |-> batch,
     enabled |-> code \in config.enabled]

Enabled(observations) == \E o \in observations : o.enabled

(* The elements of a sequence, each where it first occurs.                 *)
Distinct(seq) ==
    LET seen[n \in 0 .. Len(seq)] ==
          IF n = 0 THEN <<>>
          ELSE IF seq[n] \in {seq[m] : m \in 1 .. n - 1} THEN seen[n - 1]
          ELSE Append(seen[n - 1], seq[n])
    IN  seen[Len(seq)]

(* The frames of all batches, selected or not, in the order of the log.    *)
Timeline(batches) ==
    FlattenSeq([b \in DOMAIN batches |->
        [f \in DOMAIN batches[b].frames |->
            [batch |-> batches[b].time, camera |-> batches[b].frames[f].camera,
             clock |-> batches[b].frames[f].clock]]])

SameCameraBefore(frames, f) == {e \in 1 .. f - 1 : frames[e].camera = frames[f].camera}

(* current - previous of the camera of a frame; nothing for its first one. *)
Step(frames, f) ==
    LET before == SameCameraBefore(frames, f)
    IN  {frames[f].clock - frames[e].clock :
            e \in {x \in before : \A y \in before : y <= x}}

TargetsOf(selection, batch) ==
    {e.target : e \in {x \in ToSet(selection.entries) : x.batch = batch}}

(* _camera_timeline_observations                                           *)
TimelineObservations(recording, config) ==
    LET frames == Timeline(recording.batches)
        Codes(step) == (IF step <= 0 THEN {"camera_timestamp_non_monotonic"} ELSE {})
                         \cup (IF step > config.gap THEN {"camera_timestamp_gap_exceeded"} ELSE {})
    IN  UNION {UNION {{Observation(config, code, "camera",
                                   TargetsOf(recording.selection, frames[f].batch),
                                   {frames[f].batch}) : code \in Codes(step)}
                       : step \in Step(frames, f)} : f \in DOMAIN frames}

FramesOf(recording, batch) ==
    (CHOOSE b \in ToSet(recording.batches) : b.time = batch).frames

(* Mutant: a sample that is already invalid is not looked at any further.  *)
AuditFirstReason(recording, config, timeline, entry) ==
    LET frames == FramesOf(recording, entry.batch)
        target == {entry.target}
        missing == IF config.required \subseteq {frames[f].camera : f \in DOMAIN frames} THEN {}
                   ELSE {Observation(config, "missing_required_camera", "sample",
                                     target, {entry.batch})}
        poses == IF Enabled(missing) THEN {}
                 ELSE {Observation(config, code, "pose", target, {entry.batch}) :
                         code \in UNION {PoseCodes(frames[f].pose) : f \in DOMAIN frames}}
        observations == {o \in timeline : o.batch = {entry.batch}} \cup missing \cup poses
    IN  [target |-> entry.target, batch |-> entry.batch, frames |-> frames,
         pictures |-> Len(frames), observations |-> observations,
         valid |-> ~Enabled(observations)]

(* The audit of one selected batch.                                        *)
Audit(recording, config, timeline, entry) ==
    LET frames == FramesOf(recording, entry.batch)
        target == {entry.target}
        missing == IF config.required \subseteq {frames[f].camera : f \in DOMAIN frames} THEN {}
                   ELSE {Observation(config, "missing_required_camera", "sample",
                                     target, {entry.batch})}
        poses == {Observation(config, code, "pose", target, {entry.batch}) :
                    code \in UNION {PoseCodes(frames[f].pose) : f \in DOMAIN frames}}
        observations == {o \in timeline : o.batch = {entry.batch}} \cup missing \cup poses
    IN  [target |-> entry.target, batch |-> entry.batch, frames |-> frames,
         pictures |-> Len(frames), observations |-> observations,
         valid |-> ~Enabled(observations)]

(* The audits that are valid, or those that are not, in their order.       *)
Judged(audits, valid) ==
    LET kept[n \in 0 .. Len(audits)] ==
          IF n = 0 THEN <<>>
          ELSE IF audits[n].valid = valid THEN Append(kept[n - 1], audits[n]) ELSE kept[n - 1]
    IN  kept[Len(audits)]

(* The report: what becomes of valid and of invalid samples.               *)
ReportOf(recording, config, timeline, audits) ==
    LET Miss(target) == Observation(config, "grid_miss", "grid", {target}, {})
        misses == ToSet(recording.selection.misses)
        observations == timeline \cup (UNION {audit.observations : audit \in ToSet(audits)})
                          \cup {Miss(target) : target \in misses}
        dropped == config.policy = "drop"
    IN  [observations |-> observations,
         grid |-> {[target |-> audit.target, observations |-> audit.observations,
                    valid |-> audit.valid] : audit \in ToSet(audits)}
                    \cup {[target |-> target, observations |-> {Miss(target)},
                           valid |-> ~Miss(target).enabled] : target \in misses},
         samples |-> [a \in DOMAIN audits |->
                        IF dropped /\ ~audits[a].valid THEN [audits[a] EXCEPT !.pictures = 0]
                        ELSE audits[a]],
         final |-> Judged(audits, TRUE),
         auditOnly |-> IF dropped THEN <<>> ELSE Judged(audits, FALSE),
         valid |-> ~Enabled(observations)]

EvaluateValidity(recording, config) ==
    LET timeline == TimelineObservations(recording, config)
        entries == recording.selection.entries
    IN  ReportOf(recording, config, timeline,
                 [e \in DOMAIN entries |-> Audit(recording, config, timeline, entries[e])])

(* _build_result_indexes: what it demands of the grid and the batches.     *)
Increasing(numbers) == \A i \in 2 .. Len(numbers) : numbers[i - 1] < numbers[i]

ResultAccepted(recording) ==
    LET entries == recording.selection.entries
        misses == recording.selection.misses
        targets == [e \in DOMAIN entries |-> entries[e].target]
        chosen == {entries[e].batch : e \in DOMAIN entries}
        times == {b.time : b \in ToSet(recording.batches)}
    IN  /\ Cardinality(times) = Len(recording.batches)
        /\ \A b \in ToSet(recording.batches) : IsInjective(b.frames)
        /\ Cardinality(chosen) = Len(entries) /\ chosen \subseteq times
        /\ IsInjective(targets) /\ Increasing(targets)
        /\ IsInjective(misses) /\ Increasing(misses)
        /\ ToSet(targets) \cap ToSet(misses) = {}
        /\ recording.selection.unused = times \ chosen

(* validate_validity_enforcement                                           *)
Enforced(report, config) ==
    LET final == ToSet(report.final)
        valid == {a \in ToSet(report.samples) : a.valid}
        invalid == ToSet(report.samples) \ valid
        finalBatches == {a.batch : a \in final}
    IN  /\ report.valid = ~Enabled(report.observations)
        /\ final = valid
        /\ \A audit \in ToSet(report.samples) \cup report.grid :
             audit.valid = ~Enabled(audit.observations)
        /\ \A audit \in report.grid :
             ~audit.valid => audit.target \notin {a.target : a \in final}
        /\ \A o \in report.observations :
             /\ o.enabled = (o.code \in config.enabled)
             /\ o.enabled =>
                  IF o.scope = "grid"
                  THEN \A target \in o.target :
                         \E audit \in report.grid : audit.target = target /\ ~audit.valid
                  ELSE o.batch \cap finalBatches = {}
        /\ IF config.policy = "drop"
           THEN report.auditOnly = <<>> /\ \A audit \in invalid : audit.pictures = 0
           ELSE ToSet(report.auditOnly) = invalid

==============================================================================

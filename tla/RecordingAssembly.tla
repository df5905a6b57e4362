--------------------------- MODULE RecordingAssembly ---------------------------
(***************************************************************************)
(* What the build does with the data of one recording: extraction (from    *)
(* the camera batches of a log, or from the frame tables of the decoded    *)
(* backend), validity and its enforcement, the scene graph, the features   *)
(* (coordinator.py, services.py).  Every stage checks its input again and  *)
(* may refuse, which quarantines the recording.                            *)
(***************************************************************************)
EXTENDS SceneGraph

CONSTANT Inputs    \* [stage, rows, videos, config, annotations]; see the MC module

ASSUME InputsAssumption ==
    \A i \in Inputs :
        /\ i.stage \in {"log", "tables"}
        /\ Len(i.rows) \in Nat /\ DOMAIN i.rows = 1 .. Len(i.rows)
        /\ \A row \in ToSet(i.rows) : row.batch \in Int
        /\ {"enabled", "required", "gap", "policy"} \subseteq DOMAIN i.config
        /\ i.config.tolerance \in Nat
        /\ \E num \in {i.config.period[1]}, den \in {i.config.period[2]} :
             i.config.period = <<num, den>> /\ num \in Nat /\ den \in Nat \ {0} /\ den <= num

VARIABLES
    input,
    stage,
    recording,     \* [batches, selection]
    report,        \* the ValidityReport
    graph,         \* the RecordingSceneResult
    features       \* the SceneFeatures

dataVars == <<input, stage, recording, report, graph, features>>

Nothing == <<>>
config == input.config

DataInit ==
    /\ input \in Inputs
    /\ stage = input.stage
    /\ recording = Nothing /\ report = Nothing /\ graph = Nothing /\ features = Nothing

(* A stage goes on, or raises, and then what it computed is of no use.     *)
Stage(from, to, accepted) ==
    stage = from /\ stage' = IF accepted THEN to ELSE "rejected"

-----------------------------------------------------------------------------
(* The batches of a log are the rows of the input, frame by frame.         *)
FramesAt(rows, time, camera) ==
    LET own == SelectSeq(rows, LAMBDA row : row.batch = time /\ row.camera = camera)
    IN  [i \in DOMAIN own |-> [camera |-> camera, clock |-> own[i].clock, pose |-> own[i].pose]]

BatchesAt(times, rows, videos) ==
    [b \in DOMAIN times |->
        [time |-> times[b],
         frames |-> FlattenSeq([v \in DOMAIN videos |-> FramesAt(rows, times[b], videos[v])])]]

Extracted(batches) ==
    LET times == [b \in DOMAIN batches |-> batches[b].time]
    IN  [batches |-> batches, selection |-> SelectGrid(times, config.period, config.tolerance)]

GridAccepted(times) == times # <<>> /\ ~Refused(times, config.period, config.tolerance)

(* RecordingExtractor: the order of the batches is that of the log.        *)
ExtractLog ==
    LET rows == input.rows
        order == Distinct([r \in DOMAIN rows |-> rows[r].batch])
    IN  /\ Stage("log", "extracted", GridAccepted(order))
        /\ recording' = IF stage' = "rejected" THEN Nothing
                        ELSE Extracted(BatchesAt(order, rows, input.videos))
        /\ UNCHANGED <<input, report, graph, features>>

(* _camera_rows: the clock of a camera increases from row to row.          *)
RowsAccepted(rows) ==
    /\ rows # <<>>
    /\ \A i, j \in DOMAIN rows :
         i < j /\ rows[i].camera = rows[j].camera => rows[i].clock < rows[j].clock

(* DecodedRecordingExtractor: batches in the order of their time; every    *)
(* selected frame needs a pose, and has none between invalid endpoints.    *)
ExtractTables ==
    LET rows == {row \in ToSet(input.rows) : row.camera \in ToSet(input.videos)}
        order == Ordered(SetToSeq({row.batch : row \in rows}))
    IN  /\ stage = "tables"
        /\ recording' = IF RowsAccepted(input.rows) /\ GridAccepted(order)
                        THEN Extracted(BatchesAt(order, input.rows, input.videos)) ELSE Nothing
        /\ Stage("tables", "extracted",
                 /\ recording' # Nothing
                 /\ \A row \in rows :
                      row.pose \cap {"unavailable", "invalid"} # {} =>
                        row.batch \in recording'.selection.unused)
        /\ UNCHANGED <<input, report, graph, features>>

-----------------------------------------------------------------------------
Evaluate ==
    /\ Stage("extracted", "evaluated", ResultAccepted(recording))
    /\ report' = IF stage' = "rejected" THEN Nothing ELSE EvaluateValidity(recording, config)
    /\ UNCHANGED <<input, recording, graph, features>>

Enforce ==
    /\ Stage("evaluated", "enforced", Enforced(report, config))
    /\ UNCHANGED <<input, recording, report, graph, features>>

(* evaluate_sanity: the checks whose policy is "error" are enough.  That   *)
(* every GNSS sample is invalid cannot be seen in poses, only excluded.    *)
Triggered(gnssInvalid) ==
    LET selected == {e.batch : e \in ToSet(recording.selection.entries)}
        covered == UNION {{f.camera : f \in ToSet(b.frames)} :
                            b \in {x \in ToSet(recording.batches) : x.time \in selected}}
    IN  (IF selected = {} THEN {"empty_selected_grid"} ELSE {})
          \cup (IF report.final = <<>> THEN {"empty_final_candidates"} ELSE {})
          \cup (IF gnssInvalid THEN {"all_gnss_sources_invalid"} ELSE {})
          \cup (IF config.required # {} /\ config.required \cap covered = {}
                 THEN {"zero_required_camera_coverage"} ELSE {})

CheckSanity ==
    /\ \E gnssInvalid \in {FALSE, \A row \in ToSet(input.rows) :
                                      row.pose \cap {"unavailable", "invalid"} # {}} :
         Stage("enforced", "sane", Triggered(gnssInvalid) \cap config.errors = {})
    /\ UNCHANGED <<input, recording, report, graph, features>>

(* parse_annotations: one line with no label, or the same as another one   *)
(* (labels are a set here), and the whole file is refused.                 *)
NotesAccepted(annotations) ==
    /\ \A note \in ToSet(annotations) : note.labels # {}
    /\ IsInjective([a \in DOMAIN annotations |-> [annotations[a] EXCEPT !.line = 0]])

(* build_recording_scenes, validate_scene_graph included.                  *)
Build ==
    /\ stage = "sane"
    /\ graph' = IF NotesAccepted(input.annotations)
                THEN BuildScenes(report.final, config, input.annotations, config.required)
                ELSE Nothing
    /\ Stage("sane", "built", /\ graph' # Nothing /\ InputAccepted(report.final)
                              /\ GraphAccepted(graph', config))
    /\ UNCHANGED <<input, recording, report, features>>

(* _select_observations: the reference camera of every sample, or the      *)
(* first camera it has when the policy allows that.                        *)
Observed(sample) ==
    LET data == {d.item : d \in {x \in ToSet(graph.data) : x.item.scene = sample.scene
                                                          /\ x.item.time = sample.time}}
        wanted == {item \in data : item.camera \in config.reference}
        lowest == {item \in data : \A other \in data : item.camera <= other.camera}
    IN  IF Cardinality(wanted) = 1 THEN wanted
        ELSE IF config.fallback THEN lowest ELSE {}

(* _compute_scene: what the trajectory needs, and what is kept of it: how  *)
(* many samples have trusted sources and how many camera slots are filled. *)
SceneSamples(s) == SelectSeq(graph.samples, LAMBDA sample : sample.scene = s)

TrajectoryAccepted(s) ==
    LET samples == SceneSamples(s)
        observed == [i \in DOMAIN samples |-> Observed(samples[i])]
    IN  /\ \A i \in DOMAIN samples : observed[i] # {}
        /\ \A d \in ToSet(graph.data) : d.item.scene = s => "unavailable" \notin d.item.pose
        /\ Increasing([i \in DOMAIN samples |-> (CHOOSE item \in observed[i] : TRUE).clock])

SourceOf(sample) == CHOOSE source \in ToSet(graph.sources) : source.time = sample.time

Feature(s) ==
    LET samples == SceneSamples(s)
        trusted == {i \in DOMAIN samples : SourceOf(samples[i]).trusted}
        complete == {i \in DOMAIN samples :
                       SourceOf(samples[i]).present = SourceOf(samples[i]).expected}
        Clock(i) == (CHOOSE item \in Observed(samples[i]) : TRUE).clock
    IN  [labels |-> graph.scenes[s].labels,
         duration |-> Clock(Len(samples)) - Clock(1),
         tags |-> {CASE trusted = DOMAIN samples -> "gnss_valid"
                     [] trusted = {} -> "gnss_invalid"
                     [] OTHER -> "gnss_partial",
                   IF complete = DOMAIN samples THEN "camera_coverage_complete"
                   ELSE "camera_coverage_partial"}]

ComputeFeatures ==
    /\ Stage("built", "featured", /\ GraphAccepted(graph, config)
                                  /\ \A s \in DOMAIN graph.scenes : TrajectoryAccepted(s))
    /\ features' = IF stage' = "featured" THEN [s \in DOMAIN graph.scenes |-> Feature(s)]
                   ELSE Nothing
    /\ UNCHANGED <<input, recording, report, graph>>

DataDone == stage \in {"featured", "rejected"} /\ UNCHANGED dataVars

DataNext ==
    \/ ExtractLog \/ ExtractTables \/ Evaluate \/ Enforce \/ CheckSanity \/ Build \/ ComputeFeatures
    \/ DataDone

DataSpec == DataInit /\ [][DataNext]_dataVars

-----------------------------------------------------------------------------
(* Properties                                                              *)

Codes == {"grid_miss", "missing_required_camera", "camera_timestamp_non_monotonic",
          "camera_timestamp_gap_exceeded", "gnss_source_invalid", "position_sigma_exceeded",
          "orientation_variance_exceeded", "gnss_sync_gap_exceeded"}

Under(codes) == EvaluateValidity(recording, [config EXCEPT !.enabled = codes])
Facts(observations) == {[o EXCEPT !.enabled = FALSE] : o \in observations}
FinalTargets(result) == {audit.target : audit \in ToSet(result.final)}

(* Every condition is observed whatever is enabled and whatever else is    *)
(* wrong with the sample (docs/validity.md:18-22), so the samples that     *)
(* survive a set of invalidators are those that survive each of them.      *)
ReasonsAreIndependent ==
    stage = "evaluated" =>
      /\ \A codes \in {{}, Codes} : Facts(Under(codes).observations) = Facts(report.observations)
      /\ LET survivors == {FinalTargets(Under({code})) : code \in config.enabled}
             targets == {e.target : e \in ToSet(recording.selection.entries)}
         IN  FinalTargets(report) = {t \in targets : \A set \in survivors : t \in set}

(* The times of the final samples, and whether nothing between two of them *)
(* parts a run.                                                            *)
FinalTimes == {source.time : source \in ToSet(graph.sources)}

Follows(s, t) == /\ s < t
                 /\ \A u \in FinalTimes : ~(s < u /\ u < t)

Joined(s, t) ==
    LET from == IF s < t THEN s ELSE t
        to == IF s < t THEN t ELSE s
    IN  \A u, v \in FinalTimes :
          from <= u /\ Follows(u, v) /\ v <= to => v - u <= config.maxGap

(* The samples an annotation claims, were it the only one.                 *)
Anchors(annotation) ==
    {t \in FinalTimes :
        /\ annotation.here
        /\ Distance(t, annotation.time) <= config.matchTolerance
        /\ \A u \in FinalTimes : \/ Distance(t, annotation.time) < Distance(u, annotation.time)
                                 \/ /\ Distance(t, annotation.time) = Distance(u, annotation.time)
                                    /\ t <= u}

Claims(annotation) ==
    {t \in FinalTimes : \E anchor \in Anchors(annotation) :
        /\ anchor - config.before <= t /\ t <= anchor + config.after
        /\ Joined(anchor, t)}

ScenesOf(kind) == {scene \in ToSet(graph.scenes) : scene.kind = kind}
Claimed == UNION {Claims(annotation) : annotation \in ToSet(graph.annotations)}

(* Nothing an automatic scene may not bridge lies from s to t.             *)
Open(s, t) == Joined(s, t) /\ (config.mode = "hybrid" =>
                                 \A u \in Claimed : ~(s <= u /\ u <= t))

(* The kept scene a sample comes too soon after.                           *)
TooSoon(t) == \E scene \in ScenesOf("automatic") :
                 LET end == Last(scene.times)
                 IN  end < t /\ t - end < config.skip /\ Open(end, t)

(* The scenes and the unassigned samples partition the final samples; a    *)
(* scene is a stretch of them without a gap; an automatic scene is as long *)
(* as the largest duration lets it be, never too short, and the skip apart *)
(* from the one before; annotation scenes hold exactly what the            *)
(* annotations claim, each claim whole in one scene with its labels; and a *)
(* sample is left out only for the reason that is stated.                  *)
ScenesPartitionTheRecording ==
    stage = "built" =>
      LET times == [s \in DOMAIN graph.scenes |-> ToSet(graph.scenes[s].times)]
          left == {u.time : u \in ToSet(graph.unassigned)}
      IN  /\ \A t \in FinalTimes :
               Cardinality({s \in DOMAIN times : t \in times[s]})
                 + Cardinality({u \in DOMAIN graph.unassigned : graph.unassigned[u].time = t}) = 1
          /\ (UNION {times[s] : s \in DOMAIN times}) \cup left \subseteq FinalTimes
          /\ \A scene \in ToSet(graph.scenes) :
               /\ Joined(scene.times[1], Last(scene.times))
               /\ \A t \in FinalTimes :
                    scene.times[1] <= t /\ t <= Last(scene.times) => t \in ToSet(scene.times)
          /\ \A scene \in ScenesOf("automatic") :
               LET start == scene.times[1]
                   end == Last(scene.times)
               IN  /\ end - start \in config.minDuration .. config.maxDuration
                   /\ Len(scene.times) >= config.minSamples
                   /\ Open(start, end) /\ ~TooSoon(start)
                   /\ \A t \in FinalTimes :
                        Follows(end, t) /\ Open(start, t) => t - start > config.maxDuration
          /\ IF config.mode = "automatic" THEN ScenesOf("annotation") = {}
             ELSE /\ UNION {ToSet(scene.times) : scene \in ScenesOf("annotation")} = Claimed
                  /\ \A annotation \in ToSet(graph.annotations) :
                       Anchors(annotation) # {} =>
                         \E scene \in ScenesOf("annotation") :
                           /\ Claims(annotation) \subseteq ToSet(scene.times)
                           /\ annotation.labels \subseteq scene.labels
                           /\ annotation.line \in scene.lines
          /\ \A u \in ToSet(graph.unassigned) :
               /\ (u.reason = "annotation_mode_excluded") = (config.mode = "annotation_only")
               /\ config.mode # "annotation_only" => (u.reason = "inter_scene_skip") = TooSoon(u.time)

(* A recording the stages have no reason to refuse: the cameras of a later *)
(* batch were exposed later, tables are in that order, targets are two     *)
(* tolerances apart, poses are there or their absence invalidates, the     *)
(* reference camera is there or any other does.                            *)
WellBehaved ==
    LET rows == ToSet(input.rows)
    IN  /\ rows # {} /\ \A row \in rows : row.camera \in ToSet(input.videos)
        /\ \A a, b \in rows : a.batch < b.batch => a.clock < b.clock
        /\ \A a, b \in rows : a.batch = b.batch /\ a.camera = b.camera => a = b
        /\ input.stage = "tables" => RowsAccepted(input.rows)
        /\ config.errors = {} /\ NotesAccepted(input.annotations)
        /\ 2 * config.tolerance <= config.period[1] \div config.period[2]
        /\ \A row \in rows :
             /\ "unavailable" \in row.pose =>
                  input.stage = "log" /\ "gnss_source_invalid" \in config.enabled
             /\ "invalid" \in row.pose => input.stage = "log"
        /\ config.fallback \/ \A row \in rows : \E other \in rows :
             other.batch = row.batch /\ other.camera \in config.reference

(* The stages agree on what they hand to each other: none refuses a        *)
(* recording that gives no reason to, whatever is invalid, missing or      *)
(* annotated in it.                                                        *)
StagesAgree == stage = "rejected" => ~WellBehaved

(* A window cannot cross an invalid span or a grid gap (docs/scenes.md:    *)
(* 75-77): no target that is missed or invalid lies inside an annotation   *)
(* scene.                                                                  *)
WindowsStayInValidSpans ==
    stage = "built" =>
      \A scene \in ScenesOf("annotation"), audit \in report.grid :
        ~audit.valid => ~(scene.times[1] < audit.target /\ audit.target < Last(scene.times))

==============================================================================

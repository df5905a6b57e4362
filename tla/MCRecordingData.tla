---------------------------- MODULE MCRecordingData ----------------------------
(***************************************************************************)
(* The data of a recording and of its scenes on small inputs: the grid on  *)
(* every short sequence of stamps, the extraction on a few files, the      *)
(* stages from camera batches to features, what happens to the scenes, and *)
(* the tables they are exported to.  The subjects share no state; a        *)
(* behaviour is about one of them.                                         *)
(***************************************************************************)
EXTENDS RecordingExtraction, RecordingAssembly, SceneAssignment

CONSTANT Subjects

VARIABLES
    subject,
    build, step, exportable, chosen, drawn, tables   \* of the exported tables

tableVars == <<build, step, exportable, chosen, drawn, tables>>
allVars == <<subject, dataVars, vars, assignVars, tableVars>>

-----------------------------------------------------------------------------
(* Files.                                                                  *)

Camera(time) == [topic |-> "camera", time |-> time, layout |-> 1]
Odd(time)    == [topic |-> "camera", time |-> time, layout |-> 2]
Bad(time)    == [topic |-> "camera", time |-> time, layout |-> Malformed]
Gnss(time)   == [topic |-> "gnss", time |-> time]

(* Every sequence of one to four stamps.                                   *)
Logs == {<<Gnss(0)>> \o [i \in DOMAIN stamps |-> Camera(stamps[i])] :
            stamps \in UNION {[1 .. n -> 0 .. 5] : n \in 1 .. 4}}

Few == {<<Gnss(0), Camera(1), Camera(3), Gnss(4)>>,
        <<Camera(3), Camera(1), Gnss(2), Camera(4)>>,
        <<Camera(1), Gnss(2), Odd(3)>>,
        <<Gnss(1), Bad(2)>>,
        <<Camera(1)>>}

MCRecordings == Logs \cup Few
MCPeriods == {<<1, 1>>, <<3, 2>>, <<2, 1>>, <<5, 2>>, <<3, 1>>}
Every2 == [period |-> <<2, 1>>, tolerance |-> 1]

(* The grid needs the first pass and a failure, no more.                   *)
GridNext ==
    \/ OpenIndex \/ IndexMessage \/ ChooseGrid
    \/ pc # "selected" /\ Fail
    \/ pc \in {"selected", "failed"} /\ UNCHANGED vars

(* The file stays among the few.                                           *)
ExtractionNext == Progress \/ (\E log \in Few : Rewrite(log)) \/ Terminated

-----------------------------------------------------------------------------
(* Scenes.                                                                 *)

None == [any |-> {}, all |-> {}, excluded |-> {}]
NoBlacklist == [token |-> {}, recording |-> {}, path |-> {}]
Free == [least |-> <<>>, most |-> <<>>, tags |-> None, labels |-> None, blacklist |-> NoBlacklist]
Rule(any, excluded, quota) ==
    [tags |-> [None EXCEPT !.any = any, !.excluded = excluded], labels |-> None,
     filters |-> {}, quota |-> quota]
Scene(tags, labels, duration, from) ==
    [tags |-> tags, labels |-> labels, recording |-> from, path |-> from, token |-> 0,
     measures |-> [duration |-> duration]]
NoSplit == [fraction |-> <<1, 2>>, stratify |-> FALSE]

(* Populations up to the order of their scenes, and overlapping rules.     *)
Kinds == <<Scene({}, {}, 1, 1), Scene({"a"}, {}, 2, 1), Scene({"b"}, {"x"}, 2, 2),
           Scene({"a", "b"}, {}, 3, 2)>>
Populations == {[i \in 1 .. 5 |-> [Kinds[k[i]] EXCEPT !.token = i]] :
                  k \in {f \in [1 .. 5 -> DOMAIN Kinds] : \A i \in 1 .. 4 : f[i] <= f[i + 1]}}
RuleLists ==
    LET long == [Free EXCEPT !.least = [duration |-> 2]]
    IN  {<<Rule({"a"}, {}, 1), Rule({"b"}, {}, 2)>>,
         <<Rule({"b"}, {"a"}, 2), Rule({"a", "b"}, {}, 1), Rule({}, {}, 1)>>,
         <<[Rule({}, {}, 2) EXCEPT !.filters = {long}], Rule({"a"}, {}, 2)>>,
         <<[Rule({}, {}, 1) EXCEPT !.labels.all = {"x"}], Rule({"a"}, {"b"}, 1),
           Rule({"b"}, {}, 2)>>}
Selections ==
    [scenes : Populations, rules : RuleLists, strict : BOOLEAN, split : {NoSplit},
     filters : {Free, [Free EXCEPT !.most = [duration |-> 2, gap |-> 0]],
                [Free EXCEPT !.tags.excluded = {"b"}, !.least = [duration |-> 1]],
                [Free EXCEPT !.blacklist.recording = {2}],
                [Free EXCEPT !.blacklist.token = {2, 4}, !.blacklist.path = {1}]}]

(* Strata of given sizes, one rule for each.                               *)
StratumTags == <<"a", "b", "c", "d">>
OfSizes(sizes) ==
    FlattenSeq([r \in 1 .. 4 |-> [i \in 1 .. sizes[r] |-> Scene({StratumTags[r]}, {}, 1, r)]])
Split(sizes, fractions, stratify) ==
    [scenes : {OfSizes(size) : size \in sizes}, strict : {FALSE}, filters : {Free},
     rules : {[r \in 1 .. 4 |-> Rule({StratumTags[r]}, {}, 6)]},
     split : [fraction : fractions, stratify : {stratify}]]
Splits ==
    Split({s \in [1 .. 4 -> 0 .. 6] : /\ s[4] <= 1 /\ s[1] <= s[2]
                                     /\ s[1] + s[2] + s[3] \in 1 .. 9 - 3 * s[4]},
          {<<1, 2>>, <<1, 10>>, <<7, 20>>, <<7, 10>>}, TRUE)
      \cup Split({<<n, 1, 0, 0>> : n \in 0 .. 5}, {<<1, 2>>, <<1, 10>>, <<9, 10>>}, FALSE)

MCTasks == Selections \cup Splits

-----------------------------------------------------------------------------
(* Recordings for the stages.                                              *)

Settings(durations, samplesAtLeast, gap, skip, match, window) ==
    [minDuration |-> durations[1], maxDuration |-> durations[2], minSamples |-> samplesAtLeast,
     maxGap |-> gap, skip |-> skip, matchTolerance |-> match,
     before |-> window[1], after |-> window[2]]

Base == [period |-> <<1, 1>>, tolerance |-> 0, gap |-> 10, required |-> {}, policy |-> "drop",
         enabled |-> Codes, errors |-> {}, mode |-> "hybrid", reference |-> {1},
         fallback |-> FALSE]

Configs(modes, options) == {[mode |-> mode] @@ option @@ Base : mode \in modes, option \in options}

(* Two cameras, three batches, each good or with one defect.               *)
Frame(batch, camera, clock, pose) ==
    [batch |-> batch, camera |-> camera, clock |-> clock, pose |-> pose]
Defects == {"none", "alone", "backward", "unavailable", "between", "imprecise", "lost"}
BatchRows(time, defect) ==
    LET first == Frame(time, 1, time, CASE defect = "unavailable" -> {"unavailable", "stale"}
                                        [] defect = "between" -> {"invalid"}
                                        [] OTHER -> {})
        second == Frame(time, 2, IF defect = "backward" THEN time - 3 ELSE time + 1,
                        IF defect = "imprecise" THEN {"imprecise", "turned"} ELSE {})
    IN  CASE defect = "alone" -> <<[first EXCEPT !.pose = {"stale"}]>>
          [] defect = "lost" -> <<second>>
          [] OTHER -> <<first, second>>

ValidityOptions ==
    LET scene == Settings(<<1, 8>>, 1, 4, 0, 1, <<2, 0>>)
    IN  {[period |-> <<2, 1>>, tolerance |-> 1, required |-> {1, 2}] @@ scene,
         [period |-> <<2, 1>>, tolerance |-> 2, enabled |-> Codes \ {"camera_timestamp_gap_exceeded"},
          fallback |-> TRUE, gap |-> 2] @@ scene,
         [period |-> <<2, 1>>, required |-> {1, 2}, policy |-> "retain_for_audit", gap |-> 2,
          enabled |-> {"missing_required_camera", "gnss_source_invalid"},
          errors |-> {"empty_final_candidates", "all_gnss_sources_invalid"}] @@ scene,
         [period |-> <<3, 2>>, enabled |-> {}, fallback |-> TRUE, reference |-> {}] @@ scene}

ValidityInputs ==
    [stage : {"log", "tables"}, videos : {<<1, 2>>},
     rows : {BatchRows(times[1], d) \o BatchRows(times[2], e) \o BatchRows(times[3], f) :
               times \in {<<0, 2, 4>>, <<0, 3, 4>>, <<2, 0, 5>>},
               d \in Defects, e \in Defects, f \in Defects},
     config : Configs({"hybrid"}, ValidityOptions),
     annotations : {<<[line |-> 1, here |-> TRUE, time |-> 3, labels |-> {"x"}]>>}]

(* One camera and a regular grid of seven targets, some of them missed and *)
(* some invalid, with annotations.                                         *)
Note(line, time, label) == [line |-> line, here |-> TRUE, time |-> time, labels |-> {label}]
Elsewhere == [line |-> 1, here |-> FALSE, time |-> 2, labels |-> {"x"}]
Unlabelled == [Elsewhere EXCEPT !.labels = {}]

RowsWith(fates) ==
    FlattenSeq([t \in 1 .. 7 |->
        CASE t > 1 /\ fates[t - 1] = "missed" -> <<>>
          [] t > 1 /\ fates[t - 1] = "invalid" -> <<Frame(t - 1, 1, t - 1, {"unavailable"})>>
          [] OTHER -> <<Frame(t - 1, 1, t - 1, {})>>])

SceneInputs ==
    [stage : {"log"}, videos : {<<1>>},
     rows : {RowsWith(fates) : fates \in
               {f \in [1 .. 6 -> {"good", "missed", "invalid"}] :
                  Cardinality({t \in 1 .. 6 : f[t] # "good"}) <= 3}},
     config : Configs({"annotation_only", "automatic", "hybrid"},
                {Settings(<<1, 2>>, 2, 1, 2, 1, <<1, 1>>), Settings(<<1, 1>>, 2, 2, 1, 0, <<0, 2>>),
                 Settings(<<2, 3>>, 3, 2, 2, 1, <<2, 1>>), Settings(<<1, 4>>, 2, 4, 3, 2, <<1, 3>>)}),
     annotations : {<<>>, <<Note(1, 3, "x")>>, <<Note(1, 4, "x"), Note(2, 2, "y")>>,
                    <<Elsewhere, Note(2, 1, "x"), Note(3, 5, "y"), Note(4, 5, "z")>>,
                    <<Unlabelled>>, <<Note(1, 2, "x"), Note(2, 2, "x")>>}]

-----------------------------------------------------------------------------
(* Recordings as their scenes; each scene's stamps start anew.  A camera   *)
(* may be spelt in capitals or with two underscores between its words, and *)
(* is calibrated anew at 3.                                                *)
Channel(name) == [name |-> name, underscores |-> 1, spelling |-> 1]
FrontCamera == Channel("front_wide")
FrontInCapitals == [FrontCamera EXCEPT !.spelling = 2]
FrontUnderscored == [FrontCamera EXCEPT !.underscores = 2]
RearCamera == Channel("rear_wide")

Shot(time, channels) ==
    [time |-> time, batch |-> time + 1, frames |-> [c \in DOMAIN channels |->
        [channel |-> channels[c], time |-> time + c - 1,
         calibration |-> IF time < 3 THEN 1 ELSE 2]]]
Take(shots, lines) == [samples |-> shots, lines |-> lines, scenario |-> Len(shots)]
Film(takes) ==
    LET Later(take, by) ==
            [take EXCEPT !.samples = [i \in DOMAIN @ |->
                [@[i] EXCEPT !.time = @ + by, !.batch = @ + by,
                    !.frames = [f \in DOMAIN @ |-> [@[f] EXCEPT !.time = @ + by]]]]]
    IN  [scenes |-> [t \in DOMAIN takes |-> Later(takes[t], 10 * t)]]

Plain == Take(<<Shot(0, <<FrontCamera>>)>>, {})
Paired == Take(<<Shot(0, <<FrontCamera>>), Shot(4, <<FrontCamera>>)>>, {1})
BothCameras == Take(<<Shot(0, <<FrontCamera, RearCamera>>)>>, {1})

(* A build, and variations of it.                                          *)
Films(recordings) ==
    [recordings |-> recordings, rejected |-> {}, required |-> {FrontCamera}, kind |-> "decoded_hf",
     fraction |-> <<1, 2>>, edited |-> FALSE]

Takes == {Plain, Take(<<Shot(0, <<FrontCamera, RearCamera>>), Shot(3, <<FrontCamera>>)>>, {1}),
          Take(<<Shot(0, <<FrontCamera>>), Shot(1, <<FrontCamera>>)>>, {}),
          Take(<<Shot(1, <<FrontCamera>>), Shot(2, <<RearCamera, FrontCamera>>)>>, {2, 3}),
          Take(<<Shot(0, <<FrontInCapitals>>), Shot(2, <<FrontInCapitals>>)>>, {}),
          Take(<<Shot(0, <<RearCamera, FrontCamera>>), Shot(2, <<FrontCamera, RearCamera>>)>>, {})}

(* Of two recordings the first has one or two scenes.                      *)
Unedited ==
    {[Films(<<Film(takes), Film(<<take>>)>>) EXCEPT !.rejected = rejected] :
        takes \in {<<t>> : t \in Takes} \cup Takes \X Takes, take \in Takes,
        rejected \in {{}, {<<1, 2>>}}}
      \cup {[Films(<<Film(<<Plain, Plain, Plain, Plain>>)>>) EXCEPT !.fraction = share] :
              share \in {<<1, 2>>, <<1, 4>>}}
      \cup {[Films(<<Film(<<Plain, BothCameras>>)>>) EXCEPT !.required = required] :
              required \in {{FrontInCapitals, RearCamera}, {FrontUnderscored}}}
      \cup {[Films(<<Film(<<Take(<<Shot(0, <<FrontUnderscored>>)>>, {})>>), Film(<<take>>)>>)
                EXCEPT !.required = {required}] :
              take \in {BothCameras, Take(<<Shot(0, <<RearCamera, FrontUnderscored>>)>>, {})},
              required \in {FrontCamera, FrontUnderscored}}
Edited ==
    {[Films(films) EXCEPT !.edited = TRUE, !.kind = kind] : kind \in {"mcap_hf", "decoded_hf"},
        films \in {<<Film(<<Paired, Plain>>), Film(<<BothCameras>>)>>,
                   <<Film(<<Plain, Plain, Plain>>)>>,
                   <<Film(<<Take([i \in 1 .. 4 |-> Shot(2 * i, <<FrontCamera>>)], {1, 2})>>)>>}}

Tables == INSTANCE DatasetChecks WITH Builds <- Unedited \cup Edited, PerMicrosecond <- 2

-----------------------------------------------------------------------------
AnInput == CHOOSE i \in SceneInputs : TRUE
ATask == CHOOSE t \in Selections : TRUE
ABuild == CHOOSE b \in Edited : TRUE

MCInputs == ValidityInputs \cup SceneInputs

MCInit ==
    /\ subject \in Subjects
    /\ Init
    /\ CASE subject = "grid" -> content[1] \in Logs /\ settings # Every2
         [] subject = "extraction" -> content[1] \in Few /\ settings = Every2
         [] OTHER -> content[1] = <<Camera(1)>> /\ settings = Every2
    /\ subject # "assembly" => input = AnInput
    /\ subject # "assignment" => task = ATask
    /\ subject # "tables" => build = ABuild
    /\ DataInit /\ AssignInit /\ Tables!TablesInit

MCNext ==
    \/ /\ subject = "grid" /\ GridNext
       /\ UNCHANGED <<subject, dataVars, assignVars, tableVars>>
    \/ /\ subject = "extraction" /\ ExtractionNext
       /\ UNCHANGED <<subject, dataVars, assignVars, tableVars>>
    \/ /\ subject = "assembly" /\ DataNext
       /\ UNCHANGED <<subject, vars, assignVars, tableVars>>
    \/ /\ subject = "assignment" /\ AssignNext
       /\ UNCHANGED <<subject, dataVars, vars, tableVars>>
    \/ /\ subject = "tables" /\ Tables!TablesNext
       /\ UNCHANGED <<subject, dataVars, vars, assignVars>>

MCSpec == MCInit /\ [][MCNext]_allVars

(* What is exported is accepted and read (DatasetChecks).                  *)
ExportIsAccepted == Tables!ExportIsAccepted

(* What passes validation tells the truth (DatasetChecks).                 *)
PassedTablesAreTrue == Tables!PassedTablesAreTrue

==============================================================================

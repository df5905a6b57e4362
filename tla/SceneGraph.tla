------------------------------ MODULE SceneGraph ------------------------------
(***************************************************************************)
(* build_recording_scenes and validate_scene_graph (scenes.py): the valid  *)
(* samples of one recording are cut into runs, annotations are matched and *)
(* get windows, and the samples become annotation scenes, automatic scenes *)
(* or unassigned samples.  A token (a UUID of the identity of a record) is *)
(* that identity.  The settings are one record:                            *)
(*   mode, minDuration, maxDuration, minSamples, maxGap, skip,             *)
(*   matchTolerance, before, after.                                        *)
(* An annotation is its line, whether it names this recording, its time    *)
(* and its labels.                                                         *)
(***************************************************************************)
EXTENDS FrameValidity

(* The maximal blocks of a sequence whose elements have the same key; keys *)
(* do not decrease along the sequence.                                     *)
Blocks(seq, Key(_)) ==
    LET keys == Distinct([i \in DOMAIN seq |-> Key(seq[i])])
    IN  [k \in DOMAIN keys |-> SelectSeq(seq, LAMBDA x : Key(x) = keys[k])]

-----------------------------------------------------------------------------
(* _SampleIndex                                                            *)

(* The run of a time: how many gaps wider than the largest one precede it. *)
RunOf(times, settings, time) ==
    Cardinality({i \in 2 .. Len(times) : /\ times[i] <= time
                                         /\ times[i] - times[i - 1] > settings.maxGap})

Runs(times, settings) == Blocks(times, LAMBDA time : RunOf(times, settings, time))

(* nearest_position: of two equally near samples the earlier one.          *)
Nearest(times, time) ==
    CHOOSE t \in ToSet(times) : \A u \in ToSet(times) :
        \/ Distance(t, time) < Distance(u, time)
        \/ Distance(t, time) = Distance(u, time) /\ t <= u

-----------------------------------------------------------------------------
(* _annotation_state                                                       *)

Match1(times, settings, annotation) ==
    LET nearest == Nearest(times, annotation.time)
        reason == CASE ~annotation.here -> "different_recording"
                    [] annotation.here /\ times = <<>> -> "no_valid_samples"
                    [] annotation.here /\ times # <<>> ->
                         IF Distance(nearest, annotation.time) > settings.matchTolerance
                         THEN "outside_tolerance" ELSE "matched"
    IN  [line |-> annotation.line, reason |-> reason,
         anchor |-> IF reason = "matched" THEN {nearest} ELSE {}]

Matches(times, settings, annotations) ==
    [a \in DOMAIN annotations |-> Match1(times, settings, annotations[a])]

(* The window a match asks for, clipped to the run of its anchor, and the  *)
(* first and the last sample inside it.                                    *)
Candidate(times, settings, annotation, anchor) ==
    LET run == SelectSeq(times, LAMBDA t : RunOf(times, settings, t)
                                             = RunOf(times, settings, anchor))
        first == IF anchor - settings.before < run[1] THEN run[1] ELSE anchor - settings.before
        last == IF anchor + settings.after > Last(run) THEN Last(run) ELSE anchor + settings.after
        inside == SelectSeq(run, LAMBDA t : first <= t /\ t <= last)
    IN  [run |-> RunOf(times, settings, anchor), first |-> first, last |-> last,
         from |-> inside[1], to |-> Last(inside),
         lines |-> {annotation.line}, labels |-> annotation.labels]

(* The sort key: run, start, end, line.                                    *)
Precedes(a, b) ==
    \/ a.run < b.run
    \/ a.run = b.run /\ a.from < b.from
    \/ a.run = b.run /\ a.from = b.from /\ a.to < b.to
    \/ /\ a.run = b.run /\ a.from = b.from /\ a.to = b.to
       /\ \E line \in a.lines : \A other \in b.lines : line < other

(* Mutant: windows that touch stay apart.                                  *)
ApartWhenTouching(windows, candidate) ==
    \/ windows = <<>>
    \/ candidate.run # Last(windows).run
    \/ candidate.first >= Last(windows).last

(* A candidate begins a new window unless it overlaps or touches the last. *)
Apart(windows, candidate) ==
    \/ windows = <<>>
    \/ candidate.run # Last(windows).run
    \/ candidate.first > Last(windows).last

Merge(windows, candidate) ==
    IF Apart(windows, candidate) THEN Append(windows, candidate)
    ELSE LET w == Last(windows)
             Later(a, b) == IF a < b THEN b ELSE a
         IN  Append(Front(windows),
                    [w EXCEPT !.lines = @ \cup candidate.lines,
                              !.labels = @ \cup candidate.labels,
                              !.first = IF candidate.first < @ THEN candidate.first ELSE @,
                              !.last = Later(@, candidate.last),
                              !.to = Later(@, candidate.to)])

Windows(times, settings, annotations) ==
    LET matches == Matches(times, settings, annotations)
        candidates == UNION {{Candidate(times, settings, annotations[a], anchor) :
                                anchor \in matches[a].anchor} : a \in DOMAIN annotations}
    IN  FoldLeft(Merge, <<>>, SetToSortSeq(candidates, Precedes))

Inside(times, window) == SelectSeq(times, LAMBDA t : window.from <= t /\ t <= window.to)

-----------------------------------------------------------------------------
(* _automatic_partition                                                    *)

Unassigned(time, reason) == [time |-> time, reason |-> reason]

(* Mutant: the skip is measured from the start of the kept scene.          *)
CloseAtStart(settings, state) ==
    LET kept == /\ Last(state.open) - state.open[1] >= settings.minDuration
                /\ Len(state.open) >= settings.minSamples
    IN  CASE state.open = <<>> -> state
          [] state.open # <<>> ->
               IF kept
               THEN [state EXCEPT !.kept = Append(@, state.open), !.end = {state.open[1]},
                                  !.open = <<>>]
               ELSE [state EXCEPT !.open = <<>>, !.unassigned = @ \o
                       [i \in DOMAIN state.open |->
                          Unassigned(state.open[i], "candidate_too_short")]]

(* The candidate is kept when it is long enough, or every sample of it is  *)
(* left over.                                                              *)
Close(settings, state) ==
    LET kept == /\ Last(state.open) - state.open[1] >= settings.minDuration
                /\ Len(state.open) >= settings.minSamples
    IN  CASE state.open = <<>> -> state
          [] state.open # <<>> ->
               IF kept
               THEN [state EXCEPT !.kept = Append(@, state.open), !.end = {Last(state.open)},
                                  !.open = <<>>]
               ELSE [state EXCEPT !.open = <<>>, !.unassigned = @ \o
                       [i \in DOMAIN state.open |->
                          Unassigned(state.open[i], "candidate_too_short")]]

(* A sample extends the candidate, or closes it and is skipped or opens    *)
(* the next one.                                                           *)
Consume(settings, state, time) ==
    IF state.open # <<>> /\ time - state.open[1] <= settings.maxDuration
    THEN [state EXCEPT !.open = Append(@, time)]
    ELSE LET closed == Close(settings, state)
         IN  IF \E end \in closed.end : time - end < settings.skip
             THEN [closed EXCEPT !.unassigned = Append(@, Unassigned(time, "inter_scene_skip"))]
             ELSE [closed EXCEPT !.open = <<time>>]

AutomaticPartition(runs, settings) ==
    LET none == [kept |-> <<>>, open |-> <<>>, end |-> {}, unassigned |-> <<>>]
        Run(state, run) ==
            Close(settings, FoldLeft(LAMBDA s, t : Consume(settings, s, t),
                                     [state EXCEPT !.end = {}], run))
    IN  FoldLeft(Run, none, runs)

(* _exclude_annotation_ranges: an excluded sample is a boundary.           *)
Exclude(runs, excluded) ==
    FlattenSeq([r \in DOMAIN runs |->
        Blocks(SelectSeq(runs[r], LAMBDA t : t \notin excluded),
               LAMBDA t : Cardinality({e \in excluded : e < t}))])

-----------------------------------------------------------------------------
(* The scenes and the unassigned samples of the three modes.               *)
Annotated(times, windows) ==
    [w \in DOMAIN windows |->
        [kind |-> "annotation", times |-> Inside(times, windows[w]),
         labels |-> windows[w].labels, lines |-> windows[w].lines]]

Automatic(kept) ==
    [k \in DOMAIN kept |-> [kind |-> "automatic", times |-> kept[k], labels |-> {}, lines |-> {}]]

InOrder(scenes, unassigned) ==
    [scenes |-> SortSeq(scenes, LAMBDA a, b : a.times[1] < b.times[1]),
     unassigned |-> SortSeq(unassigned, LAMBDA a, b : a.time < b.time)]

AllButClaimed(times, annotated, claimed) ==
    LET left == SelectSeq(times, LAMBDA t : t \notin claimed)
    IN  InOrder(annotated, [i \in DOMAIN left |-> Unassigned(left[i], "annotation_mode_excluded")])

CutAround(annotated, cut) == InOrder(annotated \o Automatic(cut.kept), cut.unassigned)

PartitionBy(times, settings, annotated, claimed) ==
    CASE settings.mode = "annotation_only" -> AllButClaimed(times, annotated, claimed)
      [] settings.mode = "automatic" ->
           CutAround(<<>>, AutomaticPartition(Runs(times, settings), settings))
      [] settings.mode = "hybrid" ->
           CutAround(annotated, AutomaticPartition(Exclude(Runs(times, settings), claimed), settings))

ClaimedBy(annotated) == UNION {ToSet(scene.times) : scene \in ToSet(annotated)}

Partition(times, settings, windows) ==
    LET annotated == Annotated(times, windows)
    IN  PartitionBy(times, settings, annotated, ClaimedBy(annotated))

(* _materialize.  Links are sets that are empty at the ends of a chain.    *)
At(seq, i) == IF i \in DOMAIN seq THEN {seq[i]} ELSE {}

SamplesOf(scene, ordinal) ==
    [i \in DOMAIN scene.times |->
        [scene |-> ordinal, time |-> scene.times[i],
         prev |-> At(scene.times, i - 1), next |-> At(scene.times, i + 1)]]

DataOf(scene, ordinal, audits) ==
    LET frames == FlattenSeq([i \in DOMAIN scene.times |->
            LET audit == CHOOSE a \in ToSet(audits) : a.target = scene.times[i]
            IN  [f \in DOMAIN audit.frames |->
                   [scene |-> ordinal, time |-> audit.target,
                    camera |-> audit.frames[f].camera, clock |-> audit.frames[f].clock,
                    pose |-> audit.frames[f].pose]]])
        Chain(camera) == SelectSeq(frames, LAMBDA frame : frame.camera = camera)
        cameras == SetToSortSeq({frames[f].camera : f \in DOMAIN frames}, <)
    IN  FlattenSeq([c \in DOMAIN cameras |->
            LET chain == Chain(cameras[c])
            IN  [i \in DOMAIN chain |->
                   [item |-> chain[i], ordinal |-> i,
                    prev |-> At(chain, i - 1), next |-> At(chain, i + 1)]]])

Channels(audit) == {audit.frames[f].camera : f \in DOMAIN audit.frames}

(* Both GNSS endpoints of every pose were valid; an unavailable pose has   *)
(* no endpoints, so it says nothing.                                       *)
TrustedPoses(poses) == "invalid" \notin UNION poses
Trusted(frames) == TrustedPoses({frames[f].pose : f \in DOMAIN frames})

(* _validate_input                                                         *)
InputAccepted(audits) ==
    /\ Increasing([a \in DOMAIN audits |-> audits[a].target])
    /\ \A audit \in ToSet(audits) :
         /\ audit.valid
         /\ audit.frames # <<>>
         /\ IsInjective([f \in DOMAIN audit.frames |->
                           <<audit.frames[f].camera, audit.frames[f].clock>>])

(* The RecordingSceneResult of a partition.                                *)
GraphOf(audits, settings, annotations, required, windows, partition) ==
    LET times == [a \in DOMAIN audits |-> audits[a].target]
        channels == required \cup UNION {Channels(audits[a]) : a \in DOMAIN audits}
    IN  [sources |-> [a \in DOMAIN audits |->
            [time |-> audits[a].target, run |-> RunOf(times, settings, audits[a].target),
             expected |-> channels, present |-> Channels(audits[a]),
             trusted |-> Trusted(audits[a].frames)]],
         annotations |-> annotations,
         matches |-> Matches(times, settings, annotations),
         windows |-> windows,
         scenes |-> partition.scenes,
         samples |-> FlattenSeq([s \in DOMAIN partition.scenes |->
                                   SamplesOf(partition.scenes[s], s)]),
         data |-> FlattenSeq([s \in DOMAIN partition.scenes |->
                                DataOf(partition.scenes[s], s, audits)]),
         unassigned |-> partition.unassigned]

BuildScenes(audits, settings, annotations, required) ==
    LET times == [a \in DOMAIN audits |-> audits[a].target]
        windows == Windows(times, settings, annotations)
    IN  GraphOf(audits, settings, annotations, required, windows,
                Partition(times, settings, windows))

-----------------------------------------------------------------------------
(* validate_scene_graph.  It derives runs, matches, windows and partition  *)
(* again from the sources and the annotations of the graph, then checks    *)
(* the chains, the channels and the coverage.                              *)
SourcesAccepted(sources, times, settings) ==
    /\ Increasing(times)
    /\ \A source \in ToSet(sources) :
         /\ source.expected # {} /\ source.present \subseteq source.expected
         /\ source.run = RunOf(times, settings, source.time)

MatchesAccepted(graph, times, settings) ==
    graph.matches = Matches(times, settings, graph.annotations)

WindowsAccepted(graph, times, settings) ==
    /\ \A m \in DOMAIN graph.matches : \A anchor \in graph.matches[m].anchor :
         LET own == Candidate(times, settings, graph.annotations[m], anchor)
         IN  own.from <= anchor /\ anchor <= own.to
    /\ graph.windows = Windows(times, settings, graph.annotations)
    /\ Increasing([w \in DOMAIN graph.windows |-> graph.windows[w].from])

PartitionAccepted(graph, expected) ==
    graph.scenes = expected.scenes /\ graph.unassigned = expected.unassigned

(* _validate_chain and the links of the samples.                           *)
SamplesAccepted(graph) ==
    LET Members(s) == SelectSeq(graph.samples, LAMBDA sample : sample.scene = s)
    IN  /\ \A sample \in ToSet(graph.samples) : sample.scene \in DOMAIN graph.scenes
        /\ \A s \in DOMAIN graph.scenes :
             LET members == Members(s)
                 times == [m \in DOMAIN members |-> members[m].time]
             IN  /\ times = graph.scenes[s].times /\ Increasing(times)
                 /\ \A m \in DOMAIN members : /\ members[m].prev = At(times, m - 1)
                                              /\ members[m].next = At(times, m + 1)
        /\ \A i, j \in DOMAIN graph.samples :
             i < j => graph.samples[i].scene <= graph.samples[j].scene

(* Within a scene, each camera has one chain, in the order of the samples, *)
(* along which its own clock increases.                                    *)
DataAccepted(graph) ==
    LET Chain(s, camera) ==
            SelectSeq(graph.data, LAMBDA d : d.item.scene = s /\ d.item.camera = camera)
        OfSample(sample) ==
            {d \in ToSet(graph.data) : d.item.scene = sample.scene /\ d.item.time = sample.time}
    IN  /\ \A sample \in ToSet(graph.samples) :
             LET data == OfSample(sample)
                 source == CHOOSE s \in ToSet(graph.sources) : s.time = sample.time
             IN  /\ {d.item.camera : d \in data} = source.present
                 /\ Cardinality(data) = Cardinality(source.present)
                 /\ source.trusted = TrustedPoses({d.item.pose : d \in data})
        /\ \A d \in ToSet(graph.data) :
             LET chain == Chain(d.item.scene, d.item.camera)
                 items == [i \in DOMAIN chain |-> chain[i].item]
             IN  /\ Increasing([i \in DOMAIN items |-> items[i].clock])
                 /\ \A i \in DOMAIN chain :
                      /\ chain[i].ordinal = i
                      /\ chain[i].prev = At(items, i - 1) /\ chain[i].next = At(items, i + 1)
        /\ \A i, j \in DOMAIN graph.data :
             i < j => graph.data[i].item.scene <= graph.data[j].item.scene

(* Every source sample is in one scene or unassigned; every window has one *)
(* scene.                                                                  *)
CoverageAccepted(graph, settings) ==
    LET assigned == {sample.time : sample \in ToSet(graph.samples)}
        left == {u.time : u \in ToSet(graph.unassigned)}
        annotated == SelectSeq(graph.scenes, LAMBDA scene : scene.kind = "annotation")
    IN  /\ Cardinality(assigned) = Len(graph.samples)
        /\ Cardinality(left) = Len(graph.unassigned)
        /\ assigned \cap left = {}
        /\ assigned \cup left = {source.time : source \in ToSet(graph.sources)}
        /\ IF settings.mode = "automatic" THEN annotated = <<>>
           ELSE Len(annotated) = Len(graph.windows)

GraphAccepted(graph, settings) ==
    LET times == [s \in DOMAIN graph.sources |-> graph.sources[s].time]
    IN  /\ SourcesAccepted(graph.sources, times, settings)
        /\ MatchesAccepted(graph, times, settings)
        /\ WindowsAccepted(graph, times, settings)
        /\ PartitionAccepted(graph, Partition(times, settings, graph.windows))
        /\ SamplesAccepted(graph)
        /\ DataAccepted(graph)
        /\ CoverageAccepted(graph, settings)

==============================================================================

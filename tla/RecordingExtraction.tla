-------------------------- MODULE RecordingExtraction --------------------------
(***************************************************************************)
(* RecordingExtractor.extract_owned (extraction/service.py) with the two   *)
(* passes over one MCAP file (mcap_source.py) and the decoder set          *)
(* (camera.py).  The first pass indexes the messages, the grid is chosen,  *)
(* the second pass streams the access units through one decoder for each   *)
(* camera, which answers late, in its own order, or not at all.  Somebody  *)
(* may rewrite or replace the file at any time.                            *)
(*                                                                         *)
(* A message is a record of its topic, its timestamp and, for a camera     *)
(* batch, its layout: names, size and calibration, or Malformed.  A pts is *)
(* the number of the submission; submission p is camera p % Cameras of     *)
(* batch p \div Cameras.  A picture is the pts it was made from and the    *)
(* edition of the file that held its bytes.                                *)
(***************************************************************************)
EXTENDS CameraGrid

CONSTANTS
    Recordings,    \* the sequences of messages a file may hold
    Cameras,       \* how many cameras a batch has
    Periods,       \* the frame periods, as fractions
    Tolerances,
    MaxEditions,   \* how often the file is written
    Malformed      \* the layout the parser refuses

(* What a file holds, and what the two constructors and the grid refuse.   *)
Messages == UNION {ToSet(recording) : recording \in Recordings}

ASSUME ExtractionAssumption ==
    /\ MaxTargets \in Nat /\ Cameras \in Nat \ {0} /\ Tolerances \subseteq Nat
    /\ \A recording \in Recordings : recording \in Seq(Messages)
    /\ \A message \in Messages : message.time \in Int
    /\ \A period \in Periods :
         \E num \in {period[1]}, den \in {period[2]} :
           period = <<num, den>> /\ num \in Nat /\ den \in Nat \ {0} /\ den <= num

VARIABLES
    pc,
    settings,      \* [period, tolerance]
    content,       \* the messages of each edition of the file
    atPath,        \* the edition the path leads to
    open,          \* the edition the open descriptor leads to
    identity,      \* the edition the first pass opened
    cursor,        \* the next message of the pass
    batches,       \* the camera batches of the index
    gnss,          \* the GNSS timestamps of the index
    selection,     \* the grid
    submitted,     \* _next_pts
    source,        \* the edition each submitted unit was read from
    held,          \* what each decoder has not answered
    pending,       \* _pending of each camera
    emitted,       \* _emitted of each camera
    samples        \* the staged samples, in the order they were staged

vars == <<pc, settings, content, atPath, open, identity, cursor, batches, gnss,
          selection, submitted, source, held, pending, emitted, samples>>
file == <<content, atPath>>
index == <<identity, batches, gnss>>
decoders == <<submitted, source, held, pending, emitted>>

CameraIds == 0 .. Cameras - 1
Ended == {"done", "failed"}
NoGrid == [entries |-> <<>>, misses |-> <<>>, unused |-> {}]

Init ==
    /\ pc = "idle"
    /\ settings \in [period : Periods, tolerance : Tolerances]
    /\ \E recording \in Recordings : content = <<recording>>
    /\ atPath = 1 /\ open = 1 /\ identity = 1
    /\ cursor = 1
    /\ batches = <<>> /\ gnss = {}
    /\ selection = NoGrid
    /\ submitted = 0 /\ source = <<>>
    /\ held = [c \in CameraIds |-> {}]
    /\ pending = held /\ emitted = held
    /\ samples = <<>>

-----------------------------------------------------------------------------
(* The first pass: read_recording.                                         *)

Goto(from, to) == pc = from /\ pc' = to
Message == content[open][cursor]

OpenIndex ==
    /\ Goto("idle", "indexing")
    /\ open' = atPath /\ identity' = atPath
    /\ UNCHANGED <<settings, file, cursor, batches, gnss, selection, decoders, samples>>

(* _parse_camera: arrays of one length, known fields, Annex B payloads.    *)
Readable(batch) == batch.layout # Malformed

(* validate_camera_batch: of the layout of the first one.                  *)
Stable(prior, batch) ==
    /\ Readable(batch)
    /\ prior # <<>> => batch.layout = prior[1].layout

IndexMessage ==
    /\ pc = "indexing" /\ cursor <= Len(content[open])
    /\ \/ /\ Message.topic = "camera" /\ Stable(batches, Message)
          /\ batches' = Append(batches, Message) /\ UNCHANGED gnss
       \/ /\ Message.topic = "gnss" /\ Message.time \notin gnss
          /\ gnss' = gnss \cup {Message.time} /\ UNCHANGED batches
    /\ cursor' = cursor + 1
    /\ UNCHANGED <<pc, settings, file, open, identity, selection, decoders, samples>>

(* Neither the open file nor the path may have changed, both topics must   *)
(* be there; select_camera_grid follows.                                   *)
Times == [b \in DOMAIN batches |-> batches[b].time]

ChooseGrid ==
    /\ Goto("indexing", "selected")
    /\ cursor > Len(content[open])
    /\ open = identity /\ atPath = identity
    /\ batches # <<>> /\ gnss # {}
    /\ ~Refused(Times, settings.period, settings.tolerance)
    /\ selection' = SelectGrid(Times, settings.period, settings.tolerance)
    /\ cursor' = 1
    /\ UNCHANGED <<settings, file, open, index, decoders, samples>>

-----------------------------------------------------------------------------
(* The second pass.                                                        *)

(* The path is compared, then the file opened and compared again.          *)
OpenStream ==
    /\ Goto("selected", "streaming")
    /\ atPath = identity /\ open' = atPath
    /\ UNCHANGED <<settings, file, index, cursor, selection, decoders, samples>>

Units == Len(batches) * Cameras
BatchOf(pts)  == pts \div Cameras + 1
CameraOf(pts) == pts % Cameras
CameraTime(pts) == batches[BatchOf(pts)].time + CameraOf(pts)

(* interpolate_gnss: the neighbours of the camera's own time, or nothing   *)
(* beyond the ends.                                                        *)
Pose(time) ==
    [before |-> {g \in gnss : g <= time /\ \A h \in gnss : h <= time => h <= g},
     after  |-> {g \in gnss : g >= time /\ \A h \in gnss : h >= time => h >= g}]

(* The message the pass reads next, GNSS messages left out, must be the    *)
(* batch of the index; the batch is parsed as a whole before its units are *)
(* yielded one by one.                                                     *)
Streamed == SelectSeq(content[open], LAMBDA message : message.topic = "camera")

AsIndexed(batch) ==
    /\ batch \in DOMAIN Streamed /\ batch \in DOMAIN batches
    /\ Streamed[batch] = batches[batch]

(* Mutant: a picture without a pts goes to the oldest waiting submission.  *)
AssociateOldest(waiting, done, outputs, output) ==
    LET oldest == {p \in waiting : \A q \in waiting : p <= q}
    IN  ((IF output.pts = {} THEN oldest ELSE output.pts) \cap waiting) \ done

(* _associate: the waiting submission an output belongs to, as a set that  *)
(* is empty when the code raises.  An output's pts is a set, {} for None.  *)
Associate(waiting, done, outputs, output) ==
    LET only == IF Len(outputs) = 1 /\ Cardinality(waiting) = 1 THEN waiting ELSE {}
    IN  ((IF output.pts = {} THEN only ELSE output.pts) \cap waiting) \ done

(* consume: the picture of a selected batch is staged, with the pose of    *)
(* the camera time.                                                        *)
TargetOf(pts) ==
    {e.target : e \in {x \in ToSet(selection.entries) : x.batch = batches[BatchOf(pts)].time}}

SampleOf(pts, picture) ==
    [pts |-> pts, picture |-> picture, targets |-> TargetOf(pts), pose |-> Pose(CameraTime(pts))]

(* One output: it takes its submission, or is refused with all after it.   *)
ConsumeOutput(state, outputs, output) ==
    LET found == Associate(state.waiting, state.done, outputs, output)
        pts == CHOOSE p \in found : TRUE
    IN  IF state.refused \/ found = {} THEN [state EXCEPT !.refused = TRUE]
        ELSE [state EXCEPT !.waiting = @ \ found, !.done = @ \cup found,
                           !.samples = IF TargetOf(pts) = {} THEN @
                                       ELSE Append(@, SampleOf(pts, output.picture))]

(* The outputs of one call, in their order.                                *)
Consumed(c, waiting, outputs) ==
    LET start == [waiting |-> waiting, done |-> emitted[c], samples |-> samples,
                  refused |-> FALSE]
        after[i \in 0 .. Len(outputs)] ==
            IF i = 0 THEN start ELSE ConsumeOutput(after[i - 1], outputs, outputs[i])
    IN  after

(* What a decoder may answer: some of the pictures it holds, in any order, *)
(* with or without their pts, and perhaps one it has answered before.      *)
Answers(c, holding, origin) ==
    LET Output(p, pts) == [picture |-> [pts |-> p, edition |-> origin[p + 1]], pts |-> pts]
        Named == {Output(p, {p}) : p \in holding \cup emitted[c]}
        Nameless == {Output(p, {}) : p \in holding}
        all == Named \cup Nameless
    IN  {<<>>} \cup {<<o>> : o \in all}
          \cup {pair \in {<<o, q>> : o \in all, q \in all} :
                  pair[1].picture # pair[2].picture}

(* One decoder's outputs are associated, consumed and staged.              *)
Accept(c, waiting, outputs) ==
    LET end == Consumed(c, waiting, outputs)[Len(outputs)]
    IN  /\ ~end.refused
        /\ pending' = [pending EXCEPT ![c] = end.waiting]
        /\ emitted' = [emitted EXCEPT ![c] = end.done]
        /\ samples' = end.samples

Answered(outputs) == {outputs[i].picture.pts : i \in DOMAIN outputs}

SubmitUnit ==
    LET pts == submitted
        c == CameraOf(pts)
        first == c = 0
        edition == IF first THEN open ELSE source[pts]
    IN  /\ pc = "streaming" /\ submitted < Units
        /\ first => AsIndexed(BatchOf(pts))
        /\ submitted' = pts + 1
        /\ source' = Append(source, edition)
        /\ \E outputs \in Answers(c, held[c] \cup {pts}, Append(source, edition)) :
             /\ Accept(c, pending[c] \cup {pts}, outputs)
             /\ held' = [held EXCEPT ![c] = (@ \cup {pts}) \ Answered(outputs)]
        /\ UNCHANGED <<pc, settings, file, open, index, cursor, selection>>

(* The decoder swallows a picture: its submission is never answered.       *)
LosePicture ==
    /\ pc = "streaming"
    /\ \E c \in CameraIds : \E p \in held[c] : held' = [held EXCEPT ![c] = @ \ {p}]
    /\ UNCHANGED <<pc, settings, file, open, index, cursor, selection,
                   submitted, source, pending, emitted, samples>>

(* Mutant: the stream is not compared with the index once it was opened.   *)
EndStreamUnchecked ==
    /\ Goto("streaming", "flushing")
    /\ submitted = Units
    /\ cursor' = 0
    /\ UNCHANGED <<settings, file, open, index, selection, decoders, samples>>

(* No batch is missing or left over, and file and path are still the same. *)
EndStream ==
    /\ Goto("streaming", "flushing")
    /\ submitted = Units /\ Len(Streamed) = Len(batches)
    /\ open = identity /\ atPath = identity
    /\ cursor' = 0
    /\ UNCHANGED <<settings, file, open, index, selection, decoders, samples>>

(* finish: camera after camera, flush and associate.  cursor is the camera.*)
FlushCamera ==
    /\ pc = "flushing" /\ cursor \in CameraIds
    /\ \E outputs \in Answers(cursor, held[cursor], source) :
         /\ Accept(cursor, pending[cursor], outputs)
         /\ held' = [held EXCEPT ![cursor] = @ \ Answered(outputs)]
    /\ cursor' = cursor + 1
    /\ UNCHANGED <<pc, settings, file, open, index, selection, submitted, source>>

(* sorted, by submission.                                                  *)
BySubmission(staged) ==
    LET order == Ordered([i \in DOMAIN staged |-> staged[i].pts])
    IN  [i \in DOMAIN staged |-> CHOOSE s \in ToSet(staged) : s.pts = order[i]]

(* Every submission was answered; the samples are put in their order.      *)
Finish ==
    /\ Goto("flushing", "done")
    /\ cursor = Cameras
    /\ \A c \in CameraIds : pending[c] = {}
    /\ samples' = BySubmission(samples)
    /\ UNCHANGED <<settings, file, open, index, cursor, selection, decoders>>

(* A check refuses or a call fails: the decoders are closed, the directory *)
(* of the invocation is rolled back.                                       *)
Fail ==
    /\ pc \notin Ended /\ pc' = "failed"
    /\ samples' = <<>>
    /\ UNCHANGED <<settings, file, open, index, cursor, selection, decoders>>

-----------------------------------------------------------------------------
(* Somebody writes the file in place, or renames another one over it.      *)
Rewrite(recording) ==
    /\ Len(content) < MaxEditions /\ pc \notin Ended
    /\ content' = Append(content, recording)
    /\ atPath' = Len(content')
    /\ open' \in {open, IF open = atPath THEN atPath' ELSE open}
    /\ UNCHANGED <<pc, settings, index, cursor, selection, decoders, samples>>

Terminated == pc \in Ended /\ UNCHANGED vars

Progress ==
    \/ OpenIndex \/ IndexMessage \/ ChooseGrid \/ OpenStream \/ SubmitUnit
    \/ LosePicture \/ EndStream \/ FlushCamera \/ Finish \/ Fail

Next == Progress \/ (\E recording \in Recordings : Rewrite(recording)) \/ Terminated

Spec == Init /\ [][Next]_vars

-----------------------------------------------------------------------------
TypeOK ==
    /\ pc \in {"idle", "indexing", "selected", "streaming", "flushing"} \cup Ended
    /\ settings \in [period : Periods, tolerance : Tolerances]
    /\ content \in Seq(Recordings) /\ atPath = Len(content)
    /\ open \in 1 .. atPath /\ identity \in 1 .. atPath
    /\ cursor \in Nat
    /\ batches \in Seq(Messages)
    /\ submitted \in Nat /\ source \in Seq(Nat) /\ Len(source) = submitted
    /\ held \in [CameraIds -> SUBSET Nat]
    /\ pending \in [CameraIds -> SUBSET Nat] /\ emitted \in [CameraIds -> SUBSET Nat]

(* Every pass begins at a message; as long as the path leads to the file   *)
(* the first pass read, that is the file every unit came from.             *)
OneFile ==
    /\ pc \in {"idle", "indexing"} => cursor > 0
    /\ pc \in {"idle", "indexing", "selected"} => submitted = 0
    /\ pc = "streaming" /\ atPath = identity =>
         open = identity /\ \A i \in 1 .. submitted : source[i] = identity
    /\ pc \in {"flushing", "done"} =>
         submitted = Units /\ \A i \in 1 .. submitted : source[i] = identity

(* The grid is the promised one until the end.                             *)
OneGrid ==
    pc \in {"selected", "streaming", "flushing", "done"} =>
      /\ selection.entries \in Seq([target : Int, batch : Int])
      /\ IsGridOf(selection, Times, settings.period, settings.tolerance)

(* A camera's submissions wait or are answered; its decoder answers for    *)
(* those that wait.                                                        *)
EverySubmission ==
    \A c \in CameraIds :
      /\ held[c] \subseteq pending[c] /\ pending[c] \cap emitted[c] = {}
      /\ pending[c] \cup emitted[c] = {p \in 0 .. submitted - 1 : CameraOf(p) = c}

(* Staged is one sample for each answered submission of the grid, with its *)
(* own picture.                                                            *)
PictureOf(pts) == [pts |-> pts, edition |-> source[pts + 1]]
Emitted == UNION {emitted[c] : c \in CameraIds}

StagedFor(staged, answered) ==
    LET due == {p \in answered : TargetOf(p) # {}}
    IN  /\ staged \in Seq({SampleOf(p, PictureOf(p)) : p \in due})
        /\ \A i, j \in DOMAIN staged : staged[i].pts = staged[j].pts => i = j
        /\ \A p \in due : \E i \in DOMAIN staged : staged[i].pts = p

OneSampleEach == pc \notin Ended => StagedFor(samples, Emitted)

(* The grid takes the nearest free batch for every target, whatever the    *)
(* union-find structure has been through, and never drifts from the rate.  *)
GridIsNearest ==
    pc = "selected" => IsGridOf(selection, Times, settings.period, settings.tolerance)

(* A finished extraction has, for every batch of the grid and every        *)
(* camera, one sample, in the order of the log: its picture is the one     *)
(* decoded from that camera's bytes in that batch, from the file that was  *)
(* indexed, although decoders answer late and out of order, leave out the  *)
(* pts, lose and repeat pictures, and the file may change between or       *)
(* during the passes; its pose lies between neighbours in time.            *)
FramesStayPaired ==
    LET selected == {p \in 0 .. Units - 1 : TargetOf(p) # {}}
    IN  pc = "done" =>
          /\ Len(samples) = Cardinality(selected)
          /\ \A i \in DOMAIN samples :
               LET sample == samples[i]
               IN  /\ sample.pts \in selected
                   /\ sample.picture = [pts |-> sample.pts, edition |-> identity]
                   /\ i > 1 => samples[i - 1].pts < sample.pts
                   /\ Cardinality(sample.targets) = 1
                   /\ \A g \in sample.pose.before, h \in sample.pose.after :
                        g <= CameraTime(sample.pts) /\ CameraTime(sample.pts) <= h

IInv == TypeOK /\ OneFile /\ OneGrid /\ EverySubmission /\ OneSampleEach /\ FramesStayPaired

==============================================================================

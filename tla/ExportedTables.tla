---------------------------- MODULE ExportedTables ----------------------------
(***************************************************************************)
(* What export.py writes: the official tables and the extensions that      *)
(* refer to them, from the scene graphs of the recordings, the selection   *)
(* and the split.  A table is a sequence of rows; a token (a UUID of an    *)
(* identity) is that identity; geometry, images and hashes are left out.   *)
(***************************************************************************)
EXTENDS Integers, Sequences, FiniteSets, SequencesExt, FiniteSetsExt, Functions

CONSTANTS
    Builds,           \* [recordings, rejected, required, kind, fraction, edited]
    PerMicrosecond    \* units of time in a microsecond (1000 nanoseconds)

VARIABLES
    build,
    step,
    exportable,    \* the recordings that passed preflight
    chosen,        \* the selected scenes
    drawn,         \* those the ranks of the split put into the test set
    tables

exportVars == <<build, step, exportable, chosen, drawn, tables>>

None == <<>>
recordings == build.recordings
SceneAt(id) == recordings[id[1]].scenes[id[2]]

(* Scenes are numbered in the order of their times.                        *)
ScenesOf(r) == [s \in DOMAIN recordings[r].scenes |-> <<r, s>>]
SceneIds == FlattenSeq([r \in DOMAIN recordings |-> ScenesOf(r)])
Candidates == {id \in ToSet(SceneIds) : id[1] \in exportable /\ id \notin build.rejected}

-----------------------------------------------------------------------------
Microseconds(time) == time \div PerMicrosecond

(* A channel is [name, underscores, spelling]: its words, the number of    *)
(* underscores between them, and what both conversions drop (case, dashes  *)
(* for underscores, the prefix).  The exporter leaves one underscore.      *)
NormalizedChannel(channel) == <<channel.name, 1>>

(* _assert_converted_chain                                                 *)
ConvertedChain(times) ==
    \A i \in 2 .. Len(times) : Microseconds(times[i - 1]) < Microseconds(times[i])

SampleTimes(id) == [i \in DOMAIN SceneAt(id).samples |-> SceneAt(id).samples[i].time]

(* The frames of a scene, [sample, channel, time, calibration], and one    *)
(* channel of them in the order of time.                                   *)
Frames(id) ==
    LET samples == SceneAt(id).samples
    IN  FlattenSeq([i \in DOMAIN samples |->
            [f \in DOMAIN samples[i].frames |-> [sample |-> i] @@ samples[i].frames[f]]])
ChannelsOf(id) == {frame.channel : frame \in ToSet(Frames(id))}
ChannelChain(id, channel) ==
    SortSeq(SelectSeq(Frames(id), LAMBDA frame : frame.channel = channel),
            LAMBDA a, b : a.time < b.time)
FrameTimes(chain) == [i \in DOMAIN chain |-> chain[i].time]

ChannelsCollide(channels) ==
    \E a, b \in channels : a # b /\ NormalizedChannel(a) = NormalizedChannel(b)

ChainsConvert(id) ==
    /\ SceneAt(id).samples # <<>> /\ ConvertedChain(SampleTimes(id))
    /\ \A channel \in ChannelsOf(id) : ConvertedChain(FrameTimes(ChannelChain(id, channel)))

(* preflight_recording_export: one recording by itself.                    *)
PreflightAccepted(r) ==
    /\ ~ChannelsCollide(UNION {ChannelsOf(id) : id \in ToSet(ScenesOf(r))})
    /\ \A id \in ToSet(ScenesOf(r)) : ChainsConvert(id)

-----------------------------------------------------------------------------
(* Tokens.                                                                 *)
SceneToken(id) == <<"scene", id[1], id[2]>>
SampleToken(id, i) == <<"sample", id[1], id[2], i>>
FrameToken(id, frame) == <<"frame", id[1], id[2], frame.sample, frame.channel>>
PoseToken(frame) == <<"pose", frame>>
CalibrationToken(id, frame) == <<"calibration", id[1], frame.channel, frame.calibration>>
SensorToken(name) == <<"sensor", name>>
LogToken(r) == <<"log", r>>
NoteToken(id, line) == <<"note", id[1], line>>
WindowToken(id) == <<"window", id[1], SceneAt(id).lines>>

Previous(tokens, i) == IF i = 1 THEN None ELSE tokens[i - 1]
Following(tokens, i) == IF i = Len(tokens) THEN None ELSE tokens[i + 1]

-----------------------------------------------------------------------------
(* _selected_records: the chosen scenes by recording and ordinal.          *)
Selected == SelectSeq(SceneIds, LAMBDA id : id \in chosen)
Sources == {id[1] : id \in chosen}
SourceSeq == SelectSeq([r \in DOMAIN recordings |-> r], LAMBDA r : r \in Sources)
Each(Rows(_)) == FlattenSeq([s \in DOMAIN Selected |-> Rows(Selected[s])])
OfSources(RowsOf(_)) == FlattenSeq([l \in DOMAIN SourceSeq |-> RowsOf(SourceSeq[l])])
ChosenOf(r) == {id \in chosen : id[1] = r}
SelectedChannels(r) == UNION {ChannelsOf(id) : id \in ChosenOf(r)}
AllChannels == UNION {SelectedChannels(r) : r \in Sources}

SensorRows ==
    LET names == SetToSeq({NormalizedChannel(channel) : channel \in AllChannels})
    IN  [n \in DOMAIN names |-> [token |-> SensorToken(names[n]), channel |-> names[n]]]

LogRows == [l \in DOMAIN SourceSeq |-> [token |-> LogToken(SourceSeq[l]), logfile |-> SourceSeq[l]]]

SceneRow(id) ==
    LET samples == SceneAt(id).samples
    IN  <<[token |-> SceneToken(id), log |-> LogToken(id[1]), count |-> Len(samples),
           first |-> SampleToken(id, 1), last |-> SampleToken(id, Len(samples))]>>

SampleRows(id) ==
    LET times == SampleTimes(id)
        tokens == [i \in DOMAIN times |-> SampleToken(id, i)]
    IN  [i \in DOMAIN times |->
            [token |-> tokens[i], time |-> Microseconds(times[i]), scene |-> SceneToken(id),
             prev |-> Previous(tokens, i), next |-> Following(tokens, i)]]

(* The chains of a scene, one for each of its channels.                    *)
DataRows(id) ==
    LET channels == SetToSeq(ChannelsOf(id))
        Rows(channel) ==
            LET chain == ChannelChain(id, channel)
                tokens == [i \in DOMAIN chain |-> FrameToken(id, chain[i])]
            IN  [i \in DOMAIN chain |->
                    [token |-> tokens[i], sample |-> SampleToken(id, chain[i].sample),
                     pose |-> PoseToken(tokens[i]), calibration |-> CalibrationToken(id, chain[i]),
                     time |-> Microseconds(chain[i].time),
                     prev |-> Previous(tokens, i), next |-> Following(tokens, i)]]
    IN  FlattenSeq([c \in DOMAIN channels |-> Rows(channels[c])])

(* One row for each recording, channel and value of a calibration.         *)
CalibrationRows(r) ==
    SetToSeq(UNION {{[token |-> CalibrationToken(id, frame),
                      sensor |-> SensorToken(NormalizedChannel(frame.channel))] :
                        frame \in ToSet(Frames(id))} : id \in ChosenOf(r)})

(* A pose and its evidence: no two frames have the same place.             *)
PoseRows(id) ==
    LET frames == Frames(id)
    IN  [f \in DOMAIN frames |-> [token |-> PoseToken(FrameToken(id, frames[f])),
                                  translation |-> FrameToken(id, frames[f])]]
GnssRows(id) ==
    LET frames == Frames(id)
    IN  [f \in DOMAIN frames |->
            [data |-> FrameToken(id, frames[f]), scene |-> SceneToken(id), source |-> id[1],
             original |-> frames[f].channel, normalized |-> NormalizedChannel(frames[f].channel),
             time |-> frames[f].time, translation |-> FrameToken(id, frames[f])]]

ValidityRow(id) ==
    LET samples == SceneAt(id).samples
    IN  <<[scene |-> SceneToken(id), source |-> id[1],
           samples |-> {[sample |-> SampleToken(id, i), time |-> samples[i].time,
                         grid |-> samples[i].time, batch |-> samples[i].batch] :
                           i \in DOMAIN samples},
           data |-> {[data |-> FrameToken(id, frame), time |-> frame.time] :
                       frame \in ToSet(Frames(id))}]>>

(* _recording_validity_payload: every final sample of the recording, by    *)
(* its grid target, which is its time, and its batch.                      *)
AuditRow(r) ==
    [source |-> r,
     final |-> UNION {{<<sample.time, sample.batch>> : sample \in ToSet(SceneAt(id).samples)} :
                        id \in ToSet(ScenesOf(r))}]

TagRow(id) == <<[scene |-> SceneToken(id), source |-> id[1]]>>

RecordingRow(r) ==
    [source |-> r, locator |-> r, log |-> LogToken(r),
     channels |-> {<<channel, NormalizedChannel(channel)>> : channel \in SelectedChannels(r)}]

(* The annotations a scene refers to are those of its window, which scenes *)
(* of the recording may share; each is written once.                       *)
Notes(id) == {NoteToken(id, line) : line \in SceneAt(id).lines}
WindowOf(id) == IF SceneAt(id).lines = {} THEN None ELSE WindowToken(id)
ReferenceRow(id) ==
    <<[scene |-> SceneToken(id), source |-> id[1], refs |-> Notes(id), window |-> WindowOf(id)]>>
NotesOf(r) == SetToSeq(UNION {Notes(id) : id \in ChosenOf(r)})
RecordRows(r) ==
    [n \in DOMAIN NotesOf(r) |-> [source |-> r, locator |-> r, token |-> NotesOf(r)[n]]]
MatchRows(r) == [n \in DOMAIN NotesOf(r) |-> [source |-> r, note |-> NotesOf(r)[n]]]
WindowRows(r) ==
    SetToSeq({[source |-> r, token |-> WindowOf(id), notes |-> Notes(id)] :
                id \in {own \in ChosenOf(r) : WindowOf(own) # None}})

-----------------------------------------------------------------------------
HalfUpTarget(count) ==
    (2 * count * build.fraction[1] + build.fraction[2]) \div (2 * build.fraction[2])

Side(id) == IF id \in drawn THEN "test" ELSE "train"
SplitRow(id) ==
    <<[scene |-> SceneToken(id), source |-> id[1], scenario |-> SceneAt(id).scenario,
       side |-> Side(id)]>>

(* Mutant: neighbours among the selected scenes only.                      *)
NeighboursOfSelected == [i \in 1 .. Len(Selected) - 1 |-> <<Selected[i], Selected[i + 1]>>]

(* The scenes that follow each other, selected or not.                     *)
Chronology == SelectSeq(SceneIds, LAMBDA id : id[1] \in Sources)
Neighbours == [i \in 1 .. Len(Chronology) - 1 |-> <<Chronology[i], Chronology[i + 1]>>]

(* The leakage audit of _compute_split.                                    *)
PairRows ==
    LET Leaks(pair) == /\ pair[1][1] = pair[2][1] /\ {pair[1], pair[2]} \subseteq chosen
                       /\ Side(pair[1]) # Side(pair[2])
        leaking == SelectSeq(Neighbours, Leaks)
        Row(from, to) ==
            [source |-> from[1], locator |-> from[1], earlier |-> SceneToken(from),
             later |-> SceneToken(to), sides |-> <<Side(from), Side(to)>>,
             last |-> Last(SampleTimes(from)), first |-> SampleTimes(to)[1]]
    IN  [p \in DOMAIN leaking |-> Row(leaking[p][1], leaking[p][2])]

(* pipeline_graph_scene_sequence                                           *)
SequenceRow(id) ==
    [source |-> id[1], locator |-> id[1], scene |-> SceneToken(id), ordinal |-> id[2],
     first |-> SampleTimes(id)[1], last |-> Last(SampleTimes(id))]

(* The pipeline audit: what the filters, the selection and the graphs knew.*)
Members(ids) ==
    LET own == SelectSeq(SceneIds, LAMBDA id : id \in ids)
    IN  [i \in DOMAIN own |-> [scene |-> SceneToken(own[i]), source |-> own[i][1]]]
AssignmentRow(id) ==
    <<[scene |-> SceneToken(id), source |-> id[1], scenario |-> SceneAt(id).scenario]>>

(* _export_into                                                            *)
ExportedTables ==
    [sensor |-> SensorRows, log |-> LogRows, scene |-> Each(SceneRow), sample |-> Each(SampleRows),
     sample_data |-> Each(DataRows), ego_pose |-> Each(PoseRows),
     calibrated_sensor |-> OfSources(CalibrationRows),
     recordings |-> [l \in DOMAIN SourceSeq |-> RecordingRow(SourceSeq[l])],
     gnss |-> Each(GnssRows), validity |-> Each(ValidityRow), tags |-> Each(TagRow),
     audits |-> [l \in DOMAIN SourceSeq |-> AuditRow(SourceSeq[l])],
     references |-> Each(ReferenceRow), records |-> OfSources(RecordRows),
     matches |-> OfSources(MatchRows), windows |-> OfSources(WindowRows),
     split |-> Each(SplitRow), pairs |-> PairRows,
     accepted |-> Members(Candidates),
     rejected |-> Members({id \in build.rejected : id[1] \in exportable}),
     assignments |-> Each(AssignmentRow), unselected |-> Members(Candidates \ chosen),
     sequence |-> [i \in DOMAIN Chronology |-> SequenceRow(Chronology[i])]]

==============================================================================

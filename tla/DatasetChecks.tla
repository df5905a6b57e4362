---------------------------- MODULE DatasetChecks ----------------------------
(***************************************************************************)
(* The relational checks of validate_dataset (validation.py) on exported   *)
(* tables, and the SDK that reads them (dataset.py).  The validator        *)
(* accumulates findings; a check here may rely on those before it, because *)
(* only whether there is a finding is kept.  Between export and validation *)
(* somebody may edit the tables: `dataset-devkit validate` takes any       *)
(* directory.                                                              *)
(***************************************************************************)
EXTENDS ExportedTables

Rows(name) == ToSet(tables[name])
Tokens(name) == {row.token : row \in Rows(name)}
RowOf(name, token) == CHOOSE row \in Rows(name) : row.token = token

OfficialTables == {"sensor", "calibrated_sensor", "ego_pose", "log", "scene", "sample", "sample_data"}

(* _tokens: unique over all tables.                                        *)
TokensAreUnique ==
    \A name, other \in OfficialTables :
        \A i \in DOMAIN tables[name], j \in DOMAIN tables[other] :
            tables[name][i].token = tables[other][j].token => name = other /\ i = j

References ==
    [calibrated_sensor |-> {<<"sensor", "sensor">>},
     scene |-> {<<"log", "log">>, <<"first", "sample">>, <<"last", "sample">>},
     sample |-> {<<"scene", "scene">>},
     sample_data |-> {<<"sample", "sample">>, <<"pose", "ego_pose">>,
                      <<"calibration", "calibrated_sensor">>}]

(* _foreign_keys                                                           *)
ReferencesResolve ==
    \A name \in DOMAIN References : \A reference \in References[name] : \A row \in Rows(name) :
        row[reference[1]] \in Tokens(reference[2])

(* What a frame belongs to.                                                *)
SceneOf(row) == RowOf("sample", row.sample).scene
ChannelOf(row) == RowOf("sensor", RowOf("calibrated_sensor", row.calibration).sensor).channel

(* Camera channels and ego poses belong to one row each.                   *)
OwnersAreUnique ==
    /\ IsInjective([s \in DOMAIN tables.sensor |-> tables.sensor[s].channel])
    /\ IsInjective([d \in DOMAIN tables.sample_data |-> tables.sample_data[d].pose])
    /\ {row.pose : row \in Rows("sample_data")} = Tokens("ego_pose")

-----------------------------------------------------------------------------
(* The tokens from a start along the next links, with None at the end.     *)
Walk(rows, start, length) ==
    LET walk[n \in 1 .. length] ==
            IF n = 1 THEN start
            ELSE IF walk[n - 1] \in {row.token : row \in rows}
                 THEN (CHOOSE row \in rows : row.token = walk[n - 1]).next
                 ELSE None
    IN  walk

Symmetric(rows) ==
    \A row \in rows :
        /\ row.prev # None => \E other \in rows : other.token = row.prev /\ other.next = row.token
        /\ row.next # None => \E other \in rows : other.token = row.next /\ other.prev = row.token

OneStart(rows) == Cardinality({row \in rows : row.prev = None}) = 1

(* Mutant: locally symmetric links from one start.                         *)
IsChainLocally(rows) == Symmetric(rows) /\ OneStart(rows)

(* _chain, for the rows of one owner: one list over all of them, in time.  *)
IsChain(rows) ==
    /\ Symmetric(rows) /\ OneStart(rows)
    /\ LET start == CHOOSE row \in rows : row.prev = None
           walk == Walk(rows, start.token, Cardinality(rows) + 1)
           Time(n) == (CHOOSE row \in rows : row.token = walk[n]).time
       IN  /\ {walk[n] : n \in 1 .. Cardinality(rows)} = {row.token : row \in rows}
           /\ walk[Cardinality(rows) + 1] = None
           /\ \A n \in 2 .. Cardinality(rows) : Time(n - 1) < Time(n)

SamplesOf(scene) == {row \in Rows("sample") : row.scene = scene}
DataOf(scene, channel) ==
    {row \in Rows("sample_data") : SceneOf(row) = scene /\ ChannelOf(row) = channel}

SampleChains == \A scene \in {row.scene : row \in Rows("sample")} : IsChain(SamplesOf(scene))

EndpointsAgree ==
    \A scene \in Rows("scene") :
        LET own == SamplesOf(scene.token)
        IN  /\ Cardinality(own) = scene.count
            /\ {row.token : row \in {r \in own : r.prev = None}} = {scene.first}
            /\ {row.token : row \in {r \in own : r.next = None}} = {scene.last}

(* Chains of camera data start anew in every scene.                        *)
DataChains ==
    \A owner \in {<<SceneOf(row), ChannelOf(row)>> : row \in Rows("sample_data")} :
        IsChain(DataOf(owner[1], owner[2]))

-----------------------------------------------------------------------------
(* _extensions.  The recordings lead from logs to sources.                 *)
RecordingOf(source) == CHOOSE row \in Rows("recordings") : row.source = source
SourceOfScene(scene) ==
    (CHOOSE row \in Rows("recordings") : row.log = RowOf("scene", scene).log).source
OwnSource(row) == row.scene \in Tokens("scene") /\ row.source = SourceOfScene(row.scene)

RecordingsCoverLogs ==
    LET rows == tables.recordings
    IN  /\ IsInjective([r \in DOMAIN rows |-> rows[r].source])
        /\ IsInjective([r \in DOMAIN rows |-> rows[r].log])
        /\ \A row \in Rows("recordings") :
             /\ row.locator = row.source
             /\ \A a, b \in row.channels : a[2] = b[2] => a = b
        /\ {row.log : row \in Rows("recordings")} = Tokens("log")

(* The channels of a recording are those of its official camera data.      *)
ChannelsAgree ==
    \A row \in Rows("recordings") :
        {pair[2] : pair \in row.channels}
          = {ChannelOf(data) : data \in {d \in Rows("sample_data") :
                                           SourceOfScene(SceneOf(d)) = row.source}}

(* One row for each scene, with the source of the scene.                   *)
CoversScenes(name) ==
    /\ IsInjective([i \in DOMAIN tables[name] |-> tables[name][i].scene])
    /\ {row.scene : row \in Rows(name)} = Tokens("scene")
    /\ \A row \in Rows(name) : OwnSource(row)

ValidityAgrees ==
    \A row \in Rows("validity") :
        /\ {entry.sample : entry \in row.samples} = {sample.token : sample \in SamplesOf(row.scene)}
        /\ \A entry \in row.samples :
             Microseconds(entry.time) = RowOf("sample", entry.sample).time
        /\ {entry.data : entry \in row.data}
             = {data.token : data \in {d \in Rows("sample_data") : SceneOf(d) = row.scene}}
        /\ \A entry \in row.data : Microseconds(entry.time) = RowOf("sample_data", entry.data).time

(* Every exported sample was a final candidate of its recording, for its   *)
(* grid target and of its batch.                                           *)
AuditsAgree ==
    /\ IsInjective([a \in DOMAIN tables.audits |-> tables.audits[a].source])
    /\ {row.source : row \in Rows("audits")} = {row.source : row \in Rows("recordings")}
    /\ \A audit \in Rows("audits") : \A row \in Rows("validity") :
         row.source = audit.source =>
           {<<entry.grid, entry.batch>> : entry \in row.samples} \subseteq audit.final

(* The evidence of a frame; its place is compared only where the pose is a *)
(* local one.                                                              *)
GnssAgrees ==
    /\ IsInjective([g \in DOMAIN tables.gnss |-> tables.gnss[g].data])
    /\ {row.data : row \in Rows("gnss")} = Tokens("sample_data")
    /\ \A row \in Rows("gnss") :
         LET data == RowOf("sample_data", row.data)
         IN  /\ OwnSource(row) /\ SceneOf(data) = row.scene
             /\ row.normalized = ChannelOf(data)
             /\ <<row.original, row.normalized>> \in RecordingOf(row.source).channels
             /\ Microseconds(row.time) = data.time
             /\ build.kind # "mcap_hf" =>
                  row.translation = RowOf("ego_pose", data.pose).translation

AnnotationsAgree ==
    LET SourceOf(name, token) == {row.source : row \in {r \in Rows(name) : r.token = token}}
        Owned(note, source) == SourceOf("records", note) = {source}
    IN  /\ \A name \in {"records", "windows"} :
             IsInjective([i \in DOMAIN tables[name] |-> tables[name][i].token])
        /\ IsInjective(tables.matches)
        /\ \A row \in Rows("records") :
             \E recording \in Rows("recordings") : /\ recording.source = row.source
                                                   /\ recording.locator = row.locator
        /\ \A row \in Rows("matches") : Owned(row.note, row.source)
        /\ \A row \in Rows("windows") : \A note \in row.notes : Owned(note, row.source)
        /\ \A row \in Rows("references") :
             /\ \A note \in row.refs : Owned(note, row.source)
             /\ row.window # None => SourceOf("windows", row.window) = {row.source}

-----------------------------------------------------------------------------
(* _validate_pipeline_audit: five memberships and an order.                *)
Member(row) == <<row.scene, row.source>>
MembersOf(name) == {Member(row) : row \in Rows(name)}

Before(a, b) ==
    \/ a.source < b.source
    \/ a.source = b.source /\ a.first < b.first
    \/ a.source = b.source /\ a.first = b.first /\ a.last < b.last
    \/ /\ a.source = b.source /\ a.first = b.first /\ a.last = b.last
       /\ a.ordinal < b.ordinal

MembershipsAgree ==
    LET accepted == MembersOf("accepted")
        rejected == MembersOf("rejected")
        selected == MembersOf("assignments")
        unselected == MembersOf("unselected")
        sources == {member[2] : member \in selected}
    IN  /\ \A name \in {"accepted", "rejected", "assignments", "unselected", "sequence"} :
             Cardinality(MembersOf(name)) = Len(tables[name])
        /\ \A i \in 2 .. Len(tables.sequence) : Before(tables.sequence[i - 1], tables.sequence[i])
        /\ accepted \cap rejected = {} /\ selected \cap unselected = {}
        /\ MembersOf("sequence") = {m \in accepted \cup rejected : m[2] \in sources}
        /\ {row.source : row \in Rows("sequence")} = sources
        /\ selected \cup unselected = accepted
        /\ selected = MembersOf("split")
        /\ selected = {<<scene, SourceOfScene(scene)>> : scene \in Tokens("scene")}
        /\ \A row \in Rows("sequence") :
             row.locator = RecordingOf(row.source).locator /\ row.first <= row.last
        /\ \A row \in Rows("assignments") : \E other \in Rows("split") :
             Member(other) = Member(row) /\ other.scenario = row.scenario

(* _validate_split_extension: the same scenes have the same ranks, so the  *)
(* draw is that of the build.                                              *)
SplitAgrees ==
    LET test == {row \in Rows("split") : row.side = "test"}
    IN  /\ Cardinality(MembersOf("split")) = Len(tables.split)
        /\ MembersOf("split") = {<<scene, SourceOfScene(scene)>> : scene \in Tokens("scene")}
        /\ Cardinality(test) = HalfUpTarget(Len(tables.split))
        /\ {row.scene : row \in test} = {SceneToken(id) : id \in drawn}

(* The leakage audit again, from the chronology in the pipeline audit.     *)
PairsAgree ==
    LET SideOf(scene) == {row.side : row \in {r \in Rows("split") : r.scene = scene}}
        Own(r) == SelectSeq(tables.sequence, LAMBDA row : row.source = r)
        Expected(r) ==
            LET own == Own(r)
                PairAt(i) ==
                    [source |-> r, locator |-> RecordingOf(r).locator,
                     earlier |-> own[i].scene, later |-> own[i + 1].scene,
                     sides |-> <<SideOf(own[i].scene), SideOf(own[i + 1].scene)>>,
                     last |-> own[i].last, first |-> own[i + 1].first]
                pairs == [i \in 1 .. Len(own) - 1 |-> PairAt(i)]
            IN  SelectSeq(pairs, LAMBDA pair : /\ pair.sides[1] # {} /\ pair.sides[2] # {}
                                               /\ pair.sides[1] # pair.sides[2])
        expected == FlattenSeq([r \in DOMAIN recordings |->
                        IF r \in {row.source : row \in Rows("sequence")} THEN Expected(r) ELSE <<>>])
    IN  expected = [p \in DOMAIN tables.pairs |->
                        [tables.pairs[p] EXCEPT !.sides = <<{@[1]}, {@[2]}>>]]

(* The name the validator looks for: unlike the exporter it keeps every    *)
(* underscore.                                                             *)
RequiredName(camera) == <<camera.name, camera.underscores>>

(* Whatever the toggles of validity say.                                   *)
CamerasAreComplete ==
    \A sample \in Rows("sample") :
        {RequiredName(camera) : camera \in build.required} \subseteq
            {ChannelOf(data) : data \in {d \in Rows("sample_data") : d.sample = sample.token}}

(* validate_dataset                                                        *)
Valid ==
    /\ TokensAreUnique /\ ReferencesResolve /\ OwnersAreUnique
    /\ SampleChains /\ EndpointsAgree /\ DataChains
    /\ RecordingsCoverLogs /\ ChannelsAgree
    /\ \A name \in {"validity", "tags", "references"} : CoversScenes(name)
    /\ ValidityAgrees /\ AuditsAgree /\ GnssAgrees /\ AnnotationsAgree
    /\ MembershipsAgree /\ SplitAgrees /\ PairsAgree /\ CamerasAreComplete

-----------------------------------------------------------------------------
(* Dataset: loading wants one frame for a sample and a channel; a scene is *)
(* read along its links, its annotations through its window.               *)
Loads ==
    \A a, b \in DOMAIN tables.sample_data :
        LET frame == tables.sample_data[a]
            other == tables.sample_data[b]
        IN  frame.sample = other.sample /\ ChannelOf(frame) = ChannelOf(other) => a = b

(* scene_samples                                                           *)
SceneReads(scene) ==
    LET own == SamplesOf(scene.token)
        walk == Walk(own, scene.first, scene.count + 1)
    IN  /\ \A n \in 1 .. scene.count :
             \E row \in own : /\ row.token = walk[n]
                              /\ row.prev = IF n = 1 THEN None ELSE walk[n - 1]
        /\ IsInjective(walk)
        /\ walk[scene.count] = scene.last /\ walk[scene.count + 1] = None

(* scene_annotation_evidence                                               *)
EvidenceReads(row) ==
    /\ \A note \in row.refs :
         /\ Cardinality({r \in DOMAIN tables.records : tables.records[r].token = note}) = 1
         /\ {match \in Rows("matches") : match.note = note}
              = {[source |-> row.source, note |-> note]}
    /\ row.window # None =>
         /\ Cardinality({w \in DOMAIN tables.windows : tables.windows[w].token = row.window}) = 1
         /\ \E window \in Rows("windows") :
              window.token = row.window /\ window.notes = row.refs /\ window.source = row.source
    /\ \A record \in Rows("records") : record.token \in row.refs => record.source = row.source

Readable ==
    /\ Loads
    /\ \A scene \in Rows("scene") : SceneReads(scene)
    /\ \A row \in Rows("references") : EvidenceReads(row)

-----------------------------------------------------------------------------
TablesInit ==
    /\ build \in Builds
    /\ step = "preflight"
    /\ exportable = {} /\ chosen = {} /\ drawn = {} /\ tables = None

(* A recording that fails is quarantined; the build may be partial.        *)
Preflight ==
    /\ step = "preflight"
    /\ exportable' = {r \in DOMAIN recordings : PreflightAccepted(r)}
    /\ step' = IF exportable' = {} THEN "blocked" ELSE "assign"
    /\ UNCHANGED <<build, chosen, drawn, tables>>

(* Filters, selection and split (SceneAssignment) choose scenes and sides; *)
(* here any.                                                               *)
Assign ==
    /\ step = "assign"
    /\ chosen' \in (SUBSET Candidates) \ {{}}
    /\ drawn' \in kSubset(HalfUpTarget(Cardinality(chosen')), chosen')
    /\ step' = "export"
    /\ UNCHANGED <<build, exportable, tables>>

(* export_dataset: channels of different recordings meet only here.        *)
Export ==
    /\ step = "export"
    /\ IF ChannelsCollide(AllChannels) \/ \E id \in chosen : ~ChainsConvert(id)
       THEN step' = "refused" /\ UNCHANGED tables
       ELSE step' = "exported" /\ tables' = ExportedTables
    /\ UNCHANGED <<build, exportable, chosen, drawn>>

(* A field of a row gets the value of another row, or they are exchanged.  *)
EditField ==
    \E name \in DOMAIN tables : \E i, j \in DOMAIN tables[name] :
        \E field \in DOMAIN tables[name][i] :
          /\ i # j /\ tables[name][i][field] # tables[name][j][field]
          /\ \/ tables' = [tables EXCEPT ![name][i][field] = tables[name][j][field]]
             \/ /\ i < j
                /\ tables' = [tables EXCEPT ![name][i][field] = tables[name][j][field],
                                            ![name][j][field] = tables[name][i][field]]

(* A row is lost or there twice.                                           *)
EditRows ==
    \E name \in DOMAIN tables : \E i \in DOMAIN tables[name] :
        \/ tables' = [tables EXCEPT ![name] = RemoveAt(@, i)]
        \/ tables' = [tables EXCEPT ![name] = Append(@, @[i])]

(* All links of a table are made anew, each next with its prev.            *)
EditLinks ==
    \E name \in {"sample", "sample_data"} :
        LET rows == tables[name]
        IN  \E next \in [DOMAIN rows -> 0 .. Len(rows)] :
              /\ \A i, j \in DOMAIN rows : next[i] = next[j] /\ next[i] # 0 => i = j
              /\ tables' = [tables EXCEPT ![name] = [i \in DOMAIN rows |->
                   [rows[i] EXCEPT
                      !.next = IF next[i] = 0 THEN None ELSE rows[next[i]].token,
                      !.prev = IF \A j \in DOMAIN rows : next[j] # i THEN None
                               ELSE rows[CHOOSE j \in DOMAIN rows : next[j] = i].token]]]

Edit ==
    /\ step = "exported" /\ build.edited
    /\ EditField \/ EditRows \/ EditLinks
    /\ step' = "edited"
    /\ UNCHANGED <<build, exportable, chosen, drawn>>

Validate ==
    /\ step \in {"exported", "edited"}
    /\ step' = IF step = "exported" THEN IF Valid THEN "valid" ELSE "invalid"
               ELSE IF Valid THEN "passed" ELSE "caught"
    /\ UNCHANGED <<build, exportable, chosen, drawn, tables>>

TablesDone ==
    step \in {"blocked", "refused", "invalid", "valid", "caught", "passed"} /\ UNCHANGED exportVars

TablesNext == Preflight \/ Assign \/ Export \/ Edit \/ Validate \/ TablesDone

TablesSpec == TablesInit /\ [][TablesNext]_exportVars

-----------------------------------------------------------------------------
(* What preflight lets through is exported, unless two recordings spell a  *)
(* channel differently.  What is exported is refused by the validator      *)
(* exactly when a sample misses a required camera or a required camera is  *)
(* configured with a repeated underscore: the tables have it with one      *)
(* (export.py:578-579), the validator looks for it as configured           *)
(* (validation.py:2343-2345), so it is refused although it is there.  And  *)
(* what is valid can be read.  The exporter, the validator and the reader  *)
(* derive chains, owners, memberships and leakage independently of each    *)
(* other (docs/export.md:62-90).                                           *)
ExportIsAccepted ==
    /\ step = "refused" =>
         \E a, b \in chosen : a[1] # b[1] /\ ChannelsCollide(ChannelsOf(a) \cup ChannelsOf(b))
    /\ step \in {"valid", "invalid"} =>
         (step = "invalid" <=>
            \E camera \in build.required :
              \/ camera.underscores # 1
              \/ \E id \in chosen : \E sample \in ToSet(SceneAt(id).samples) :
                   \A f \in ToSet(sample.frames) : f.channel.name # camera.name)
    /\ step = "valid" => Readable

(* Rows of one owner are linked in the order of time.                      *)
LinkedInTime(rows) ==
    \A a, b \in rows :
        (a.next = b.token) <=> /\ a.time < b.time
                               /\ \A c \in rows : ~(a.time < c.time /\ c.time < b.time)

(* Selected scenes on different sides with no scene between them.          *)
Leaking ==
    {pair \in chosen \X chosen :
        /\ pair[1][1] = pair[2][1] /\ pair[2][2] = pair[1][2] + 1 /\ Side(pair[1]) # Side(pair[2])}

(* Whatever was edited, tables that pass tell the truth: samples and frames*)
(* are linked in time within their scene and channel, every scene can be   *)
(* walked from its first to its last sample, a frame has its own scene,    *)
(* recording, channel and (where it is compared) place, and the leakage    *)
(* audit is that of the recordings.                                        *)
PassedTablesAreTrue ==
    step \in {"valid", "passed"} =>
      /\ \A scene \in Rows("scene") :
           /\ LinkedInTime(SamplesOf(scene.token)) /\ SceneReads(scene)
           /\ \A sensor \in Rows("sensor") : LinkedInTime(DataOf(scene.token, sensor.channel))
      /\ \A data \in Rows("sample_data") : \E id \in chosen : \E frame \in ToSet(Frames(id)) :
           /\ data.token = FrameToken(id, frame) /\ SceneOf(data) = SceneToken(id)
           /\ ChannelOf(data) = NormalizedChannel(frame.channel)
           /\ data.time = Microseconds(frame.time)
           /\ build.kind # "mcap_hf" => RowOf("ego_pose", data.pose).translation = data.token
      /\ {<<row.earlier, row.later>> : row \in Rows("pairs")}
           = {<<SceneToken(pair[1]), SceneToken(pair[2])>> : pair \in Leaking}
==============================================================================

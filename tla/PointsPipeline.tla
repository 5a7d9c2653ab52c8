--------------------------- MODULE PointsPipeline ---------------------------
(***************************************************************************)
(* The points processors of cartographer/io and the pipeline that          *)
(* PointsProcessorPipelineBuilder makes of them.  A client sends the       *)
(* batches of a stream to the first processor and flushes it at the end;   *)
(* when the answer is kRestartStream it sends all of them again, and when  *)
(* it is kFinished the files are there.  The client is outside of this     *)
(* repository; a call goes through the whole pipeline and is one action.   *)
(*                                                                         *)
(* A point has the cell it lies in, the cells a ray to it is sampled in,   *)
(* and whether its range is within the limits; a file is its header and    *)
(* the fields written after it.  A failed CHECK or LOG(FATAL) ends the     *)
(* program: then failed is TRUE.                                           *)
(***************************************************************************)
EXTENDS Integers, Sequences, FiniteSets, SequencesExt

CONSTANTS
    Configurations,  \* pipelines, as sequences of actions, with the batches of a stream
    SamplingPercent, \* 100 * sampling_ratio
    ColoredFrame,    \* frame_id of color_points
    BrightFrames     \* the frames whose batches come with intensities

VARIABLES
    pipeline,   \* the actions, the first one first
    state,      \* state[i]: the members of processor i
    stream,     \* the batches of the client
    sent,       \* how many of them it has sent since it began or restarted
    finished,   \* Flush has returned kFinished
    failed,     \* a CHECK or LOG(FATAL)
    arrived     \* history: arrived[i]: for each pass, the points that came to processor i

pipelineVars == <<pipeline, state, stream, sent, finished, failed, arrived>>

Writers == {"write_pcd", "write_ply", "write_xyz"}
kMissPerHitLimit == 3

NewFile == [header |-> <<>>, body |-> <<>>, closed |-> FALSE]

NewState(action) ==
    CASE action = "dump_num_points" -> [num_points |-> 0]
      [] action = "fixed_ratio_sampler" -> [pulses |-> 0, samples |-> 0]
      [] action = "voxel_filter_and_remove_moving_objects" ->
           [phase |-> 1, hits |-> <<>>, rays |-> <<>>]
      [] action \in Writers -> [num_points |-> 0, has_colors |-> FALSE, file |-> NewFile]
      [] action = "write_xray_image" -> [voxels |-> {}, columns |-> <<>>, image |-> <<>>]
      [] OTHER -> [none |-> TRUE]

\* CreatePipeline.
Init ==
    /\ \E c \in Configurations : pipeline = c.pipeline /\ stream = c.stream
    /\ state = [i \in DOMAIN pipeline |-> NewState(pipeline[i])]
    /\ sent = 0
    /\ finished = FALSE
    /\ failed = FALSE
    /\ arrived = [i \in DOMAIN pipeline |-> << <<>> >>]
-----------------------------------------------------------------------------
(* Process.  Each operator has the state and the batch as they are when    *)
(* the processor hands the batch on; not passed when it keeps the batch.   *)

Passed(s, batch) == [state |-> s, batch |-> batch, passed |-> TRUE, failed |-> FALSE]

\* The elements with these indices.
Selected(seq, indices) ==
    LET kept == SelectSeq([k \in DOMAIN seq |-> k], LAMBDA k : k \in indices)
    IN  [k \in DOMAIN kept |-> seq[kept[k]]]

\* RemovePoints, given what is kept: points, colors and intensities stay together.
KeepPoints(batch, indices) ==
    [batch EXCEPT !.points = Selected(@, indices),
                  !.colors = Selected(@, indices),
                  !.intensities = Selected(@, indices)]

Pulse(s) ==
    IF 100 * s.samples < SamplingPercent * (s.pulses + 1)
    THEN [pulses |-> s.pulses + 1, samples |-> s.samples + 1]
    ELSE [s EXCEPT !.pulses = @ + 1]

Sample(s, batch) ==
    LET pulses == FoldLeft(LAMBDA acc, p : Append(acc, Pulse(Last(acc))), <<s>>, batch.points)
        sampled == {k \in DOMAIN batch.points : pulses[k + 1].samples > pulses[k].samples}
    IN  Passed(Last(pulses), KeepPoints(batch, sampled))

FilterRange(s, batch) ==
    Passed(s, KeepPoints(batch, {k \in DOMAIN batch.points : batch.points[k].near}))

ColorPoints(s, batch) ==
    Passed(s, IF batch.frame_id = ColoredFrame
              THEN [batch EXCEPT !.colors = [k \in DOMAIN batch.points |-> "color"]]
              ELSE batch)

IntensityToColor(s, batch) ==
    Passed(s, IF batch.intensities # <<>>
              THEN [batch EXCEPT !.colors = [k \in DOMAIN batch.intensities |-> "gray"]]
              ELSE batch)

Value(counts, cell) == IF cell \in DOMAIN counts THEN counts[cell] ELSE 0
Count(counts, cell) == (cell :> Value(counts, cell) + 1) @@ counts
CountAll(counts, cells) == FoldLeft(Count, counts, cells)

\* OutlierRemovingPointsProcessor: two passes only count.
RemoveOutliers(s, batch) ==
    LET points == batch.points
        Moving(p) == Value(s.rays, p.cell) >= kMissPerHitLimit * Value(s.hits, p.cell)
        Hit(cell) == Value(s.hits, cell) > 0
        Rays == FlattenSeq([k \in DOMAIN points |-> SelectSeq(points[k].ray, Hit)])
    IN  CASE s.phase = 1 ->
               [Passed([s EXCEPT !.hits = CountAll(@, [k \in DOMAIN points |-> points[k].cell])],
                       batch) EXCEPT !.passed = FALSE]
          [] s.phase = 2 ->
               [Passed([s EXCEPT !.rays = CountAll(@, Rays)], batch) EXCEPT !.passed = FALSE]
          [] s.phase = 3 ->
               Passed(s, KeepPoints(batch, {k \in DOMAIN points : ~Moving(points[k])}))

NewHeader(colors, n) == <<[colors |-> colors, num_points |-> n]>>

\* The header is written when the first points come, and again at the end.
Open(s, batch) ==
    IF s.num_points > 0 \/ batch.points = <<>> THEN s
    ELSE [s EXCEPT !.has_colors = batch.colors # <<>>,
                   !.file.header = NewHeader(batch.colors # <<>>, 0)]

\* Point k, and its color when it is written.
Fields(batch, colored) ==
    FlattenSeq([k \in DOMAIN batch.points |->
        IF colored THEN <<batch.points[k].id, batch.colors[k]>> ELSE <<batch.points[k].id>>])

Written(s, batch, colored) ==
    [s EXCEPT !.file.body = @ \o Fields(batch, colored),
              !.num_points = @ + Len(batch.points)]

\* Colors are written when the batch has them.
WritePcd(s, batch) == Passed(Written(Open(s, batch), batch, batch.colors # <<>>), batch)

\* Colors are written when the first batch had them; then every batch needs them.
WritePly(s, batch) ==
    LET opened == Open(s, batch)
    IN  IF batch.points # <<>> /\ opened.has_colors /\ Len(batch.colors) # Len(batch.points)
        THEN [Passed(opened, batch) EXCEPT !.failed = TRUE]
        ELSE Passed(Written(opened, batch, opened.has_colors), batch)

WriteXyz(s, batch) == Passed(Written(s, batch, FALSE), batch)

\* XRayPointsProcessor::Insert, without floors.  The column of a cell is what remains of
\* it seen along the first axis.
Column(cell) == Tail(cell)

Insert(s, batch) ==
    Passed([s EXCEPT !.voxels = @ \cup {p.cell : p \in Range(batch.points)},
                     !.columns = CountAll(@, [k \in DOMAIN batch.points |->
                                                 Column(batch.points[k].cell)])], batch)

Processed(action, s, batch) ==
    CASE action = "dump_num_points" ->
           Passed([s EXCEPT !.num_points = @ + Len(batch.points)], batch)
      [] action = "fixed_ratio_sampler" -> Sample(s, batch)
      [] action = "min_max_range_filter" -> FilterRange(s, batch)
      [] action = "color_points" -> ColorPoints(s, batch)
      [] action = "intensity_to_color" -> IntensityToColor(s, batch)
      [] action = "voxel_filter_and_remove_moving_objects" -> RemoveOutliers(s, batch)
      [] action = "write_pcd" -> WritePcd(s, batch)
      [] action = "write_ply" -> WritePly(s, batch)
      [] action = "write_xyz" -> WriteXyz(s, batch)
      [] action = "write_xray_image" -> Insert(s, batch)

Ids(batch) == [k \in DOMAIN batch.points |-> batch.points[k].id]

\* The pipeline's processors one after the other, until one keeps the batch.
Through(batch) ==
    LET Step(acc, i) ==
            LET p == Processed(pipeline[i], acc.state[i], acc.batch)
                passes == acc.arrived[i]
            IN  IF ~acc.passed \/ acc.failed THEN acc
                ELSE [state |-> [acc.state EXCEPT ![i] = p.state],
                      arrived |-> [acc.arrived EXCEPT ![i][Len(passes)] = @ \o Ids(acc.batch)],
                      batch |-> p.batch, passed |-> p.passed, failed |-> p.failed]
    IN  FoldLeft(Step, [state |-> state, arrived |-> arrived, batch |-> batch,
                        passed |-> TRUE, failed |-> FALSE],
                 [i \in DOMAIN pipeline |-> i])

Process ==
    /\ ~failed /\ ~finished
    /\ sent < Len(stream)
    /\ LET through == Through(stream[sent + 1])
       IN  /\ state' = through.state
           /\ arrived' = through.arrived
           /\ failed' = through.failed
    /\ sent' = sent + 1
    /\ UNCHANGED <<pipeline, stream, finished>>
-----------------------------------------------------------------------------
(* Flush *)

\* The number of occupied cells in each pixel, rows and columns counted from the top
\* left corner of the bounding box.
Image(voxels) ==
    LET Most(d) == CHOOSE m \in {c[d] : c \in voxels} : \A c \in voxels : c[d] <= m
        Pixel(cell) == <<Most(2) - cell[2], Most(3) - cell[3]>>
    IN  [pixel \in {Pixel(c) : c \in voxels} |->
            Cardinality({c \in voxels : Pixel(c) = pixel})]

\* Mutant: the sampler goes on where it was when the stream is restarted.
FlushedKeepingSampler(action, s, result) ==
    CASE action = "dump_num_points" -> IF result = "kFinished" THEN s ELSE NewState(action)
      [] action = "voxel_filter_and_remove_moving_objects" /\ s.phase < 3 ->
           [s EXCEPT !.phase = @ + 1]
      [] action \in {"write_pcd", "write_ply"} ->
           [s EXCEPT !.file.header = NewHeader(s.has_colors, s.num_points), !.file.closed = TRUE]
      [] action = "write_xyz" -> [s EXCEPT !.file.closed = TRUE]
      [] action = "write_xray_image" -> [s EXCEPT !.image = Image(s.voxels)]
      [] OTHER -> s

\* What the Flush of a processor leaves behind, after result of the next one.
Flushed(action, s, result) ==
    CASE action \in {"dump_num_points", "fixed_ratio_sampler"} ->
           IF result = "kFinished" THEN s ELSE NewState(action)
      [] action = "voxel_filter_and_remove_moving_objects" /\ s.phase < 3 ->
           [s EXCEPT !.phase = @ + 1]
      [] action \in {"write_pcd", "write_ply"} ->
           [s EXCEPT !.file.header = NewHeader(s.has_colors, s.num_points), !.file.closed = TRUE]
      [] action = "write_xyz" -> [s EXCEPT !.file.closed = TRUE]
      [] action = "write_xray_image" -> [s EXCEPT !.image = Image(s.voxels)]
      [] OTHER -> s

\* The processors that answer kRestartStream themselves, without flushing the next one.
Restarting == {i \in DOMAIN pipeline :
                 /\ pipeline[i] = "voxel_filter_and_remove_moving_objects"
                 /\ state[i].phase < 3}

\* Those that do not accept it from the next one.
SinglePass(action) ==
    action \in Writers \cup {"write_xray_image", "voxel_filter_and_remove_moving_objects"}

Flush ==
    /\ ~failed /\ ~finished
    /\ sent = Len(stream)
    /\ LET result == IF Restarting = {} THEN "kFinished" ELSE "kRestartStream"
           reached == {i \in DOMAIN pipeline : \A j \in Restarting : i <= j}
           first == CHOOSE i \in reached : \A j \in reached : j <= i
       IN  /\ state' = [i \in DOMAIN pipeline |->
                           IF i \in reached THEN Flushed(pipeline[i], state[i], result)
                                            ELSE state[i]]
           /\ failed' = (Restarting # {} /\ \E i \in reached \ {first} : SinglePass(pipeline[i]))
           /\ finished' = (Restarting = {})
           /\ sent' = IF Restarting = {} THEN sent ELSE 0
           /\ arrived' = [i \in DOMAIN pipeline |->
                             IF Restarting = {} THEN arrived[i] ELSE Append(arrived[i], <<>>)]
    /\ UNCHANGED <<pipeline, stream>>

Next == Process \/ Flush

Spec == Init /\ [][Next]_pipelineVars
-----------------------------------------------------------------------------
\* points_processor.h: a processor that asks for several passes compares what comes in
\* one with what came in another: each pass brings it the same points.
PassesAgree ==
    \A i \in DOMAIN pipeline : pipeline[i] = "voxel_filter_and_remove_moving_objects" =>
        \A a, b \in DOMAIN arrived[i] :
            IsPrefix(arrived[i][a], arrived[i][b]) \/ IsPrefix(arrived[i][b], arrived[i][a])

\* All points of the stream, each with its frame and its color.
Points ==
    FlattenSeq([k \in DOMAIN stream |-> [l \in DOMAIN stream[k].points |->
        [point |-> stream[k].points[l], frame |-> stream[k].frame_id, color |-> "none"]]])

Ceiling(n, percent) == (n * percent + 99) \div 100

\* What an action makes of the points of the whole stream, seen at once.
Effect(items, action) ==
    LET InCell(c) == Cardinality({k \in DOMAIN items : items[k].point.cell = c})
        RaysOf(c) == Len(SelectSeq(FlattenSeq([k \in DOMAIN items |-> items[k].point.ray]),
                                   LAMBDA r : r = c))
        Colored(frames, color) ==
            [k \in DOMAIN items |-> IF items[k].frame \in frames
                                    THEN [items[k] EXCEPT !.color = color] ELSE items[k]]
    IN  CASE action = "fixed_ratio_sampler" ->
               Selected(items, {k \in DOMAIN items :
                                  Ceiling(k, SamplingPercent) > Ceiling(k - 1, SamplingPercent)})
          [] action = "min_max_range_filter" -> SelectSeq(items, LAMBDA it : it.point.near)
          [] action = "voxel_filter_and_remove_moving_objects" ->
               SelectSeq(items, LAMBDA it : RaysOf(it.point.cell) < 3 * InCell(it.point.cell))
          [] action = "color_points" -> Colored({ColoredFrame}, "color")
          [] action = "intensity_to_color" -> Colored(BrightFrames, "gray")
          [] OTHER -> items

Expected(i) == FoldLeft(Effect, Points, SubSeq(pipeline, 1, i - 1))

Header(i) == Head(state[i].file.header)

\* After the header of a file come as many points as it says, with the fields it says.
FileMatchesHeader(i) ==
    state[i].file.header # <<>> =>
        Len(state[i].file.body) = Header(i).num_points * (IF Header(i).colors THEN 2 ELSE 1)

\* pcd_writing_points_processor.cc:38-39: "Writes the PCD header claiming 'num_points' will
\* follow it into 'output_file'", with or without colors as its first batch had them; the
\* PLY writer has a CHECK that every other batch is like the first.
HeadersHold ==
    finished => \A i \in DOMAIN pipeline : pipeline[i] \in Writers => FileMatchesHeader(i)

\* Some of the points that come to processor i have a color, some have none.
Mixed(i) == \E a, b \in Range(Expected(i)) : a.color = "none" /\ b.color # "none"

\* pcd_writing_points_processor.cc:38, ply_writing_points_processor.cc:23: every file is
\* completed, its header counts the points of the whole stream, and the points follow it
\* as it says; but for the fields in a PCD file of mixed points.
FilesMatchHeaders ==
    finished =>
        \A i \in DOMAIN pipeline : pipeline[i] \in Writers =>
            /\ state[i].file.closed
            /\ state[i].file.header # <<>> => Header(i).num_points = Len(Expected(i))
            /\ ~Mixed(i) => FileMatchesHeader(i)

\* Whether the color of an item is written: a PCD file takes the batches as they are, a
\* PLY file the first one for all.
ColorWritten(action, items, item) ==
    \/ action = "write_pcd" /\ item.color # "none"
    \/ action = "write_ply" /\ items[1].color # "none"

\* What was written is what the actions before make of the whole stream: however many
\* passes it took, no point is written, counted or drawn twice or too little, and colors
\* and points are not mixed up.
AssetsExact ==
    finished =>
        \A i \in DOMAIN pipeline :
            LET items == Expected(i)
                s == state[i]
            IN  /\ pipeline[i] = "dump_num_points" => s.num_points = Len(items)
                /\ pipeline[i] \in Writers =>
                     s.file.body = FlattenSeq([k \in DOMAIN items |->
                         IF ColorWritten(pipeline[i], items, items[k])
                         THEN <<items[k].point.id, items[k].color>>
                         ELSE <<items[k].point.id>>])
                /\ pipeline[i] = "write_xray_image" =>
                     LET cells == {items[k].point.cell : k \in DOMAIN items}
                     IN  /\ s.voxels = cells
                         /\ \A column \in {Column(c) : c \in cells} :
                              Cardinality({p \in DOMAIN s.image :
                                  s.image[p] = Cardinality({c \in cells : Column(c) = column})})
                              >= 1

PipelineExact == PassesAgree /\ FilesMatchHeaders /\ AssetsExact
=============================================================================

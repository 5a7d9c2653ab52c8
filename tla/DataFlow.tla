------------------------------ MODULE DataFlow ------------------------------
(***************************************************************************)
(* The parts that data flow through, side by side: in a behaviour one of   *)
(* them moves.  OrderedMultiQueue hands the sensors' data to the trajectory*)
(* builders, PointClouds thins out and compresses them, ConstraintBuilder  *)
(* hands the constraints to the pose graph, and OptimizationProblem those  *)
(* of the IMU data to the solver; PointsPipeline writes points to files,   *)
(* and DetectFloors says which floor of an X-ray they are drawn on.        *)
(* BlockingQueue hands values from thread to thread.                       *)
(***************************************************************************)
EXTENDS OrderedMultiQueue, TLC

CONSTANTS Workers, Submaps, Nodes, Callbacks, IdleWorker, MaxScans, MaxSlots,
          SamplingPercent, ColoredFrame, BrightFrames,
          Threads, Capacities, MaxPushed,
          MaxLength, MinNumPoints, MaxRanges, Bits, kBitsPerCoordinate,
          MaxProblemTime, MaxProblemData

VARIABLES part,                                     \* the part that moves
          when_done, current_computation, pending_computations, constraints,
          scan_matchers, queued_work_items, work_queue, executing, computed, call,
          builder_failed,                           \* of ConstraintBuilder
          pipeline, state, stream, sent, finished, pipeline_failed,
          arrived,                                  \* of PointsPipeline
          nodes, floors, detected, floors_failed,   \* of DetectFloors
          queue_size_, deque_, calls, asleep, notifying, pushed,
          returned,                                 \* of BlockingQueue
          point_cloud, filtered, compressed,        \* of PointClouds
          imu_data_, node_data_, residuals,
          problem_failed                            \* of OptimizationProblem

-----------------------------------------------------------------------------
(* What the runs feed in.  Streams of up to three of four batches from two *)
(* sensors: a wall that is seen through a cell in which something has      *)
(* moved, a point out of range, an empty batch, and one from the other     *)
(* sensor, with intensities.                                               *)

Wall == <<5, 0, 0>>
Door == <<3, 0, 0>>

\* A point of the wall, seen through the door.
Seen(id, near) == [id |-> id, cell |-> Wall, ray |-> << <<1, 0, 0>>, Door>>, near |-> near]
InDoor(id) == [id |-> id, cell |-> Door, ray |-> << <<1, 0, 0>> >>, near |-> TRUE]

Batch(frame, points, bright) ==
    [frame_id |-> frame, points |-> points, colors |-> <<>>,
     intensities |-> IF bright THEN [k \in DOMAIN points |-> "intensity"] ELSE <<>>]

Batches == {Batch("left", <<InDoor(1), Seen(2, TRUE), Seen(3, FALSE)>>, FALSE),
            Batch("left", <<Seen(4, TRUE)>>, FALSE),
            Batch("left", <<>>, FALSE),
            Batch("right", <<Seen(5, TRUE), [InDoor(6) EXCEPT !.cell = <<3, 1, 1>>]>>, TRUE)}

Streams == UNION {[1..n -> Batches] : n \in 1..3}

Voxels == "voxel_filter_and_remove_moving_objects"
Assets == {"write_ply", "write_xyz", "write_xray_image"}

Pipelines ==
    {<<a, Voxels, "dump_num_points", w>> :
        a \in {"fixed_ratio_sampler", "min_max_range_filter", "dump_num_points"},
        w \in Assets \cup {"write_pcd"}}
    \cup {<<"intensity_to_color", "color_points", "fixed_ratio_sampler", w>> : w \in Assets}
    \cup {<<w, Voxels>> : w \in Assets \cup {Voxels}}
    \cup {<<"color_points", "write_pcd">>}

\* An empty pipeline, too.
PipelineConfigurations ==
    {[pipeline |-> <<>>, stream |-> <<>>]}
    \cup {[pipeline |-> p, stream |-> s] : p \in Pipelines, s \in Streams}
-----------------------------------------------------------------------------
(* Trajectories of four nodes, and some of ten that go up and down again,  *)
(* coming back to other altitudes than they left from.                     *)

Trajectory(heights, distances) ==
    [k \in DOMAIN heights |-> [z |-> heights[k], d |-> distances[k]]]

OneNode == Trajectory(<<0>>, <<0>>)

FloorTrajectories ==
    {OneNode}
    \cup {Trajectory(h, d) : h \in [1..4 -> {0, 1, 2, 8}], d \in [1..4 -> {0, 25}]}
    \cup {Trajectory(<<h[1], h[1], 9, 9, h[2], h[2], 8, 8, h[3], h[3]>>,
                     <<0, d[1], 0, d[2], 0, d[3], 0, d[4], 0, d[5]>>) :
            h \in [1..3 -> {0, 1, 2}], d \in [1..5 -> {0, 25}]}
-----------------------------------------------------------------------------
(* Point clouds with points in octants on both sides of zero, at the edges of blocks and   *)
(* of voxels, the same one twice, and out of range; and one along a line, whose number of  *)
(* voxels may grow with the edge length.                                                   *)

Points == {<<0, 0, 0>>, <<-1, 0, 0>>, <<7, -8, 1>>, <<8, 3, -16>>, <<-9, -9, 33>>, <<9, 0, 0>>}
OnLine == {<<-1, 0, 0>>, <<2, 0, 0>>, <<9, 0, 0>>, <<14, 0, 0>>}

SampleClouds == UNION {[1..n -> Points] : n \in 0..3} \cup [1..4 -> OnLine]
-----------------------------------------------------------------------------
Builder == INSTANCE ConstraintBuilder WITH Idle <- IdleWorker, failed <- builder_failed

ASSUME BuilderAssumption == Builder!ConstantsOK

Pipeline == INSTANCE PointsPipeline WITH
                Configurations <- PipelineConfigurations, failed <- pipeline_failed

Floors == INSTANCE DetectFloors WITH
              Trajectories <- FloorTrajectories, failed <- floors_failed

\* queue_size_ is a size_t.
ASSUME CapacitiesAssumption == Capacities \subseteq Nat

Blocking == INSTANCE BlockingQueue

Cloud == INSTANCE PointClouds WITH Clouds <- SampleClouds

\* Times are counted from 0 on.
ASSUME TimesAssumption == MaxProblemTime \in Nat

Problem == INSTANCE OptimizationProblem WITH
               MaxTime <- MaxProblemTime, MaxData <- MaxProblemData,
               failed <- problem_failed

Parts == {"collator", "builder", "pipeline", "floors", "queue", "cloud", "problem"}

builderVars == <<when_done, current_computation, pending_computations, constraints,
                 scan_matchers, queued_work_items, work_queue, executing, computed, call,
                 builder_failed>>
pipelineVars == <<pipeline, state, stream, sent, finished, pipeline_failed, arrived>>
floorVars == <<nodes, floors, detected, floors_failed>>
queueVars == <<queue_size_, deque_, calls, asleep, notifying, pushed, returned>>
cloudVars == <<point_cloud, filtered, compressed>>
problemVars == <<imu_data_, node_data_, residuals, problem_failed>>

Symmetry == Permutations(Workers) \cup Permutations(Submaps)

\* The parts that do not move get one initial state.
FlowInit ==
    /\ part \in Parts
    /\ \/ part = "pipeline"
       \/ part # "pipeline" /\ pipeline = <<>> /\ stream = <<>>
    /\ \/ part = "floors"
       \/ part # "floors" /\ nodes = OneNode
    /\ \/ part = "queue"
       \/ part # "queue" /\ queue_size_ = Blocking!kInfiniteQueueSize
    /\ \/ part = "cloud"
       \/ part # "cloud" /\ point_cloud = <<>>
    /\ Init /\ Builder!Init /\ Pipeline!Init /\ Floors!Init
    /\ Blocking!Init /\ Cloud!Init /\ Problem!Init

\* A part takes its own next step, and nothing else moves.
CollatorNext ==
    /\ part = "collator" /\ Next
    /\ UNCHANGED <<part, builderVars, pipelineVars, floorVars, queueVars, cloudVars,
                   problemVars>>

BuilderNext ==
    /\ part = "builder" /\ Builder!Next
    /\ UNCHANGED <<part, vars, pipelineVars, floorVars, queueVars, cloudVars, problemVars>>

PipelineNext ==
    /\ part = "pipeline" /\ Pipeline!Next
    /\ UNCHANGED <<part, vars, builderVars, floorVars, queueVars, cloudVars, problemVars>>

FloorsNext ==
    /\ part = "floors" /\ Floors!Next
    /\ UNCHANGED <<part, vars, builderVars, pipelineVars, queueVars, cloudVars, problemVars>>

QueueNext ==
    /\ part = "queue" /\ Blocking!Next
    /\ UNCHANGED <<part, vars, builderVars, pipelineVars, floorVars, cloudVars, problemVars>>

CloudNext ==
    /\ part = "cloud" /\ Cloud!Next
    /\ UNCHANGED <<part, vars, builderVars, pipelineVars, floorVars, queueVars, problemVars>>

ProblemNext ==
    /\ part = "problem" /\ Problem!Next
    /\ UNCHANGED <<part, vars, builderVars, pipelineVars, floorVars, queueVars, cloudVars>>

\* The files are written, a LOG(FATAL) has ended the program, the floors are known, every
\* thread waits for another, the cloud is made, no data come any more.
Ended == /\ \/ part = "pipeline" /\ (finished \/ pipeline_failed)
            \/ part = "floors" /\ detected
            \/ part = "queue" /\ asleep = Threads
            \/ part = "cloud" /\ ~Cloud!Waiting
            \/ part = "problem"
         /\ UNCHANGED <<part, vars, builderVars, pipelineVars, floorVars, queueVars, cloudVars,
                        problemVars>>

FlowNext == \/ CollatorNext
            \/ BuilderNext
            \/ PipelineNext
            \/ FloorsNext
            \/ QueueNext
            \/ CloudNext
            \/ ProblemNext
            \/ Ended

FlowSpec ==
    FlowInit /\ [][FlowNext]_<<part, vars, builderVars, pipelineVars, floorVars, queueVars,
                               cloudVars, problemVars>>
-----------------------------------------------------------------------------
\* ConstraintBuilder: computations are counted and keep their slots, matchers are built
\* once and are there when needed, and every result reaches one callback.
ComputationsTracked == part = "builder" => Builder!ComputationsTracked
ComputationsReported == Builder!ComputationsReported

\* PointsPipeline: however many passes the points need, what is written is what the
\* actions make of the whole stream.
PipelineExact == part = "pipeline" => Pipeline!PipelineExact

\* PointsPipeline: a file holds the points its header claims.
HeadersHold == part = "pipeline" => Pipeline!HeadersHold

\* DetectFloors: spans are on one floor when their altitudes are.
FloorsExact == part = "floors" => Floors!FloorsExact

\* BlockingQueue: no thread sleeps on although it could go on, and values keep their order.
BlockingExact == part = "queue" => Blocking!BlockingExact

\* PointClouds: a filtered cloud is as dense as asked for, and what is read of a compressed
\* cloud is what was compressed.
CloudsExact == part = "cloud" => Cloud!CloudsExact

\* PointClouds: a cloud that no edge length thins out to the number asked for is kept whole.
GivingUpKeepsCloud == part = "cloud" => Cloud!GivingUpKeepsCloud

\* OptimizationProblem: every pair and triple of nodes is tied by all of the IMU data
\* between them.
ResidualsExact == part = "problem" => Problem!ResidualsExact
=============================================================================

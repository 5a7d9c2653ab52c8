# TLA+ specifications of the laser SLAM programs

The repository is a collection of laser SLAM programs: an annotated copy of the Cartographer library
(`src/cartographer_annotations`), OpenSLAM GMapping with its ROS node (`src/gmapping`), and five
smaller programs, each a step of a SLAM pipeline (`calib_odom`, `laser_undistortion`, `ls_slam`,
`occupany_mapping`, and the message package `champion_nav_msgs`). Most of their code is numerical.
The part in which the *order of events* decides what is right is Cartographer's back end: a thread
pool, a constraint builder that matches scans in the background, a pose graph that optimizes on a
worker thread while scans keep arriving, and the multi-queue that merges the sensors in front of it.
In the rest it is sharing (particles that share nodes and grid patches), buffers with a bound, pointers
that outlive what they point to, and integer algorithms with awkward borders. This directory models
both, checks them with TLC and proves the pieces that are the same for any size.

Paths of Cartographer below are relative to `src/cartographer_annotations`.

    sensors -> Collator / OrderedMultiQueue -> local trajectory builder -> Submaps
                (OrderedMultiQueue.tla)      (LocalTrajectoryBuilder.tla) (Submaps.tla)
                                                       |
                                                       v AddScan, AddImuData
     Main  ----------------------------------->  SparsePoseGraph  --> OptimizationProblem
                                                 (SparsePoseGraph.tla)
                                                  |           ^ callback of WhenDone, on a worker
                            MaybeAdd...Constraint v           |
                                                ConstraintBuilder  --> TrajectoryConnectivity
                                                (ConstraintBuilder.tla) (TrajectoryConnectivity.tla)
                                                  |
                                         Schedule v
                                                ThreadPool over Mutex
                                                (ThreadPool.tla implements WorkPool.tla)

## Inventory

| component | state | operations | what is hard | what makes it correct |
|---|---|---|---|---|
| `common/thread_pool`, `common/mutex.h` | work queue, `running_`, threads, waiters of the condition variable | `Schedule`, `DoWork`, constructor, destructor | a notification between a predicate and its wait; destruction while workers execute or sleep; items that schedule items | every item is executed once, by one worker; no lost wake-up; the destructor waits and ends |
| `mapping_2d/sparse_pose_graph/constraint_builder` | pending counts per scan, result slots, scan matchers, parked work items, `when_done_` | `MaybeAdd(Global)Constraint`, `NotifyEndOfScan`, `WhenDone`, `GetNumFinishedScans`; on workers: construct a matcher, match, `FinishComputation` | work ends in any order on several threads; results are written through raw pointers into a deque; work waits for a matcher that is being built | counts are exact; slots are live and private; every cycle calls back once, with everything found, after everything ended |
| `mapping_2d/sparse_pose_graph` | nodes, submap states, `scan_queue_`, counters and flags of the loop closure, constraints, published poses | `AddScan`, `AddImuData`, `ComputeConstraintsForScan`, `HandleScanQueue`, `RunOptimization`, `WaitForAllComputations`, `RunFinalOptimization`, destructor | the optimization runs without the lock on another thread; calls are executed at once or deferred; the queue is handed from callback to callback; a final wait races the callback | one owner of the queue; calls take effect in order; every pair is matched once; nothing changes under the solver; every match becomes a constraint; the wait means what it says |
| `mapping_2d/sparse_pose_graph/optimization_problem` | nodes, submaps and IMU data per trajectory | `Add...`, `Solve` | read without lock while solving | sizes agree with the graph's; see `SolveUndisturbed` |
| `mapping/submaps`, `mapping_2d/submaps` | list of submaps, each with a number of range data and a finished flag | `InsertRangeData`, `AddSubmap`, `FinishSubmap`, indices for matching and insertion | pointers to them are held by workers for a long time | two active submaps, an old and a new one; a finished one never changes |
| `mapping/trajectory_connectivity` | disjoint-set forest, connection counts | `Add`, `Connect`, `TransitivelyConnected`, `ConnectedComponents` | queries rewrite the forest; called from many threads | the forest is acyclic and says what the connections say |
| `sensor/collator`, `sensor/ordered_multi_queue` | a queue per sensor and trajectory, last dispatched time, common start times | `AddTrajectory`, `AddSensorData`, `FinishTrajectory`, `Flush`, destructor, `Dispatch` | sensors are late, stop, or never start; data from before the common start are skipped | merged stream in time order, nothing lost but the fast-forwarded prefix, nothing held back without need |
| `mapping/map_builder`, `collated_trajectory_builder`, `mapping_2d/global_trajectory_builder` | trajectory builders, owner of all of the above | add, finish and access trajectories | order of destruction | no call reaches a destroyed object |
| `mapping_2d/local_trajectory_builder` with `motion_filter`, `imu_tracker`, `odometry_state_tracker` | time of the last prediction, tracker states, submaps | add range, IMU and odometry data | readiness (no data before the first IMU), time order | time never goes back; a scan reports the submaps it went into |
| scan matchers (`mapping_2d/scan_matching`), grids, ray casting | precomputed grids, update markers | `Match`, `ApplyLookupTable`, `StartUpdate` | bounds of the branch and bound search; a cell updated twice in one scan | the best candidate above the threshold; one update per cell and scan |
| 3D mapping | batches of scans with the IMU and odometer data between them; octants of cells that grow; the pose graph of 2D, with the nodes each matcher is built from | `AddImuData`, `AddOdometerData`, `AddRangefinderData`; `mutable_value`, `Grow`, iteration; `ComputeConstraint`, `Match` | data are dropped by time while later batches still need them; cells move into larger grids; nodes are collected on one thread and used on another | every batch is integrated over all of its data; no cell is lost; a matcher is built from all scans of its submap |
| `io` points processors | pipeline of processors, each with the state of its pass; counters, files | `Process`, `Flush`, which may restart the stream | a processor that needs several passes makes every other one see the stream again; headers precede what they count | what is written is what the actions make of the whole stream, once |
| `mapping/detect_floors` | spans of nodes, union-find of levels | `DetectFloors` | altitudes that come back; spans shorter than a floor | spans are on one floor when their altitudes are |
| `common/blocking_queue.h` | deque, size, threads that wait | `Push`, `Pop`, each with or without a timeout | producers and consumers share one condition variable | nobody sleeps on beside a queue it could use; first in, first out |
| `sensor` voxel filter and compressed point clouds | a cloud; blocks in a hybrid grid, a flat list of numbers | `AdaptiveVoxelFilter::Filter`; compress, iterate | a search over a count that need not be monotone; shifts and masks on both sides of zero | as dense as asked for and hardly denser than needed; nothing lost in compression |
| `mapping_3d/sparse_pose_graph/optimization_problem` | IMU data, nodes and submaps per trajectory | `Add...`, `Solve` | one iterator moves through the data, a copy runs ahead | every pair and triple of nodes is tied by all IMU data between them |
| Kalman filter, transform helpers, ground truth | various | various | sequential or numerical | not modelled |
| GMapping (`src/gmapping/openslam_gmapping`) | particles, the reference-counted tree of trajectory nodes | `processScan`, `resample`, tree and weight propagation | hand-written reference counts; the index arithmetic of resampling | no node is freed in use or leaked; every survivor keeps its history |
| GMapping node and replay (`src/gmapping/slam_gmapping`) | initialisation flag, throttle, map | laser callback, transform thread, replay queue | lazy initialisation; callbacks on several threads | a scan is used at most once, in order |
| `laser_undistortion` | a scan's ranges and angles | correct beams segment by segment | segments share their border beam; early return | each beam is corrected once |
| `calib_odom`, `ls_slam`, `occupany_mapping`, `champion_nav_msgs` | matrices, grids, a message | sequential numerical code | nothing concurrent, nothing persisted | numerical |

`PROJECT.json` lists every one of them with its status, and under `hazards` every place where this
code can go wrong in a way a unit test would hardly reach, with the properties that would notice.

## Modules

| module | stands for |
|---|---|
| `WorkPool` | the contract of the thread pool, as its clients may use it |
| `ThreadPool`, `MCThreadPool` | `thread_pool.cc` over `mutex.h`; implements `WorkPool` |
| `ConstraintBuilder` | `mapping_2d/.../constraint_builder.cc`, over `WorkPool` |
| `ConstraintBuilder3D` | what the one of `mapping_3d` does beside it |
| `Submaps` | the pure operations on one trajectory's submaps |
| `SparsePoseGraph` | `mapping_2d/sparse_pose_graph.cc`, composed with `ConstraintBuilder` and `Submaps` |
| `SparsePoseGraph3D` | `mapping_3d/sparse_pose_graph.cc`, composed with `ConstraintBuilder3D`; implements `SparsePoseGraph` |
| `TrajectoryConnectivity` | `trajectory_connectivity.cc` |
| `OrderedMultiQueue` | `ordered_multi_queue.cc` behind `collator.cc` |
| `LocalTrajectoryBuilder` | `mapping_2d/local_trajectory_builder.cc` and `odometry_state_tracker.cc` over `Submaps`; one trajectory's submaps over time by themselves (`Spec`) |
| `ProbabilityGrid` | range data inserted into a 2D grid (`range_data_inserter.cc`, `probability_grid.h`), and the integer tracing of rays (`ray_casting.cc`) |
| `FastCorrelativeScanMatcher`, `FastCorrelativeScanMatcher3D` | the 2D and the 3D matcher: precomputed grids, candidates, branch and bound |
| `ImuIntegration` | `mapping_3d/imu_integration.h`: which data are integrated from when to when |
| `OptimizingLocalTrajectoryBuilder` | the 3D builder that accumulates and optimizes batches |
| `OptimizationProblem` | the IMU data and nodes of `mapping_3d/sparse_pose_graph/optimization_problem.cc`, and the residuals `Solve` makes of them |
| `BlockingQueue` | `common/blocking_queue.h` over `mutex.h` |
| `PointClouds` | `sensor/voxel_filter.cc` and `sensor/compressed_point_cloud.cc`, over `HybridGrid` |
| `HybridGrid` | the growing 3D grid and the inserter that writes it |
| `FrontEnd` | the run's composition of `LocalTrajectoryBuilder`, the grids, the matchers, `OptimizingLocalTrajectoryBuilder` and `TrajectoryConnectivity` |
| `PointsPipeline` | the points processors of `io` and the pipeline that passes batches and flushes through them |
| `DetectFloors` | `mapping/detect_floors.cc` |
| `DataFlow` | the run's composition of `OrderedMultiQueue`, `ConstraintBuilder`, `PointsPipeline`, `DetectFloors`, `BlockingQueue`, `PointClouds` and `OptimizationProblem`, with the streams, pipelines, trajectories and clouds they are given |
| `GridSlamProcessor`, `ParticleFilter` | GMapping's filter: the tree of trajectory nodes with its counts, the grid patches its maps share, the contract of a filter (every particle has its own history) |
| `SlamGMapping` | the ROS node: replay queue, throttle, map updates |
| `GridSlamProcessorThread` | the filter behind a display that reads its events from a bounded buffer |
| `OdomCalibration` | the calibration of the odometer against matched scans, on a plane whose turns are quarters |
| `LidarMotionUndistortion` | the correction of a scan taken in motion |
| `OccupancyMapping` | the occupancy grid with known poses |
| `RosPackages` | the run's composition of the six packages |
| `ThreadPoolProofs`, `ConstraintBuilderProofs`, `OrderedMultiQueueProofs`, `FrontEndProofs`, `SparsePoseGraphProofs`, `SparsePoseGraph3DProofs`, `DataFlowProofs`, `RosPackagesProofs` | theorems and their proofs |

A definition whose comment starts with "Mutant:" is not part of a specification. It is what a
plausible bug in the code would make of the definition that follows it; every property of a passing
run is violated by at least one of them, so no property holds only because of how the model is
written.

`FrontEnd`, `DataFlow` and `RosPackages` put components side by side that share no state: `part` is
chosen in the initial state and only that component moves, so that the states of a run are the sum of the states of
its components and not their product. What a component expects of another is in its own module.

### ThreadPool

Each critical section of `Mutex` is one action. `~Locker` (mutex.h:74-77) unlocks and *then*
notifies; a thread between the two is in `notifying` and `NotifyAll` is its only next step. `Sleep`
is an `Await` whose predicate was false; `Take` and `Exit` are the two ways on. The predicate and
the sleep are one step because the condition variable releases the mutex atomically. The client is
an owner thread and the work items themselves: executing item *i* calls `Schedule` for the items in
`Spawns[i]`, which is how the constraint builder uses the pool from within it. `BeginDestroy` and
`Join` are the destructor.

The owner destroys the pool only when it is `Quiescent`: nothing waits and nothing that executes
will schedule more. That is an assumption about the owner, so the pool's CHECKs are not a property
of this run; that the pose graph waits until no work item is left is `CaughtUp`, in
`pose_graph_final`.

### ConstraintBuilder

One action per public call and per step of a work item; the lock is held throughout each, except
that a match writes its slot outside of the lock (`ComputeConstraint`) and counts itself out in a
step of its own (`FinishComputation`). `pending_computations` is a total function with 0 for a
missing key. A work item is a record of what the closure captured. Whether a scan is near enough, is
sampled, or matches is chosen nondeterministically, for this is decided by numerical code. The
callback runs with the work item still in its worker (`call`), as in the code. In this module the
client is any client that keeps to the documented cycle; `SparsePoseGraph` replaces it with the real
one.

### SparsePoseGraph

Main calls `AddScan`, `AddImuData`, `RunFinalOptimization` and the destructor; the workers run the
constraint builder and the loop closure callback. `mutex` is the owner of `mutex_`; it is explicit
because `AddScan` takes it twice (`AddScan`, `AppendScan`) and because `ComputeConstraintsForScan`
calls the builder many times while holding it (`BeginScan`, `IssueConstraint`, `EndScan`,
`RequestLoopClosure`). `HandleScanQueue` registers the callback, `EnterCallback` is its first
critical section, `RunOptimization` and `PublishOptimization` are the solver's start and the lock it
takes afterwards, `Resume`, `WorkOffQueue` and `LeaveLoop` the loop over `scan_queue_`. `AddScan`
includes what the trajectory builder does to the submaps just before it.

A pose is abstracted to the number of the optimization whose frame it is expressed in. That is what
the ordering can spoil; values are left to the solver. `AddScan` reads it before it has the lock and
`AppendScan` stores it, so that a publication in between leaves a node behind (`SparsePoseGraphStalePose`). The forest of `TrajectoryConnectivity`
appears as a partition, which is what that module's own run shows it to be. The constraints between
a node and the submaps it was inserted into are the `node_ids` of the submap states; `constraints`
holds those found by matching.

The three phases in which a caller can be are separate configurations: mapping online, two
trajectories, and the final wait.

### SparsePoseGraph3D, ConstraintBuilder3D

The queue, the locks and the phases of the 3D pose graph are, line for line, those of 2D; what it adds
is that a scan matcher needs the nodes of its submap for a histogram of rotations. They are collected
at every call of `ComputeConstraint`, but only the call that schedules the construction has its copy
captured, and a worker uses that copy later. Every action is therefore the one of `SparsePoseGraph`
together with what happens to the captured nodes, which never keep a thread from its step; a
behaviour without them is one of `SparsePoseGraph`, and so the runs below check the 3D graph and
speak about both. The scans of submap *i* are those from *i n* to *(i + 2) n - 1* (`InsertedScans`).

### OrderedMultiQueue

A call of `Add` or `MarkQueueAsFinished` sets `dispatching`; each iteration of the loop in
`Dispatch` is then a step (`CannotMakeProgress`, `NothingLeft`, `Dispatch`, `Skip`, `WaitToDecide`),
and no other call starts until the loop has returned, for the class belongs to one thread.
`FinishTrajectory` and `Flush` mark their queues one after the other. `added` and `delivered` are
histories. The documentation asks for data sorted per queue, and no more (`SpecSorted`); then the
CHECK on the merge order can fail (`OrderedMultiQueueSorted`). `Spec`, of which everything else is shown, adds
the one condition `StartsLater`: the first datum of a queue is not older than what any trajectory has
dispatched by then. Live sensors start so; a recording added to a running
collator need not. That later data are not older either is then a consequence, which the proof of
`ChecksHold` shows. A time is a small integer; `MinTime` stands for `common::Time::min()` and for a missing
common start time.

### TrajectoryConnectivity, Submaps

Translated operation by operation. `FindSet` is a recursive function, and the compression of the
path it follows is part of every operation that calls it, the queries included.

### LocalTrajectoryBuilder

One action per kind of sensor data, as `HandleCollatedSensorData` passes them on. A pose is an element
of any group (`Rigid`, `Compose`, `InverseOf`); TLC takes the six symmetries of a triangle, the smallest
group that does not commute, so that a factor on the wrong side shows. The state of the odometry is
the deque of `OdometryStateTracker` with its corrections. Scan matching returns any pose; the range
data may be empty after filtering, too close in time, or too similar for insertion, each its own
disjunct. `Predict` may come to any pose when time has passed, and when it has not to one that is turned
about the tracking frame only (`Turns`), for it then derives roll and pitch again from the IMU. `anchor` and
`lead` are histories: the pose and the odometry when the odometer was first read or last corrected, and
what has been predicted since the last odometry.

### ProbabilityGrid, FastCorrelativeScanMatcher and its 3D form

Pure algorithms over small grids. `ProbabilityGrid` has the grid with its update markers and known
bounds, `Insert` as `StartUpdate`, hits, then the casts of all rays, and cropping. `CastRay`
goes in subpixels, and is checked against the geometric definition of the pixels a line passes
(`VisitsLine`), for every pair of subpixels. `FastCorrelativeScanMatcher` builds the stack of sliding
maxima, shrinks the window, sorts and expands candidates; the reference definition `BestFound` is the
maximum over all candidates at full resolution. The 3D matcher has grids of half resolution beyond
`full_resolution_depth`, points that are discretised once per resolution, and a first choice of
rotations; its reference is the best candidate among those rotations.

### PointsPipeline, DetectFloors

A step is one call of the reader: `Process` of a batch down the pipeline, or `Flush`, which goes down
until a processor wants the stream again. A point carries the voxel it falls into, its distance, and
what it was seen through; the sampler is its counters, exactly as `FixedRatioSampler` computes them.
`arrived` is a history of the batches each processor was given since the last restart. What each file
contains is compared with an independent fold over the whole stream. Streams of batches of which only some
are colored go through `color_points` in front of every writer. The header of a PCD file is then not that of
its points (`DataFlowHeaders`); `PipelineExact` says so much only of files whose batches agree, and of the
other PCD files all but the fields of their points. `DetectFloors` is one step from a
trajectory to its floors, with the medians, the short spans and the union-find of levels; the
reference says which spans share a floor from their altitudes alone.

### BlockingQueue

A call is entered, looks at its condition under the lock, and returns or falls asleep; `~Locker`
notifies after it has unlocked, as in `ThreadPool`. A timeout may pass at any time: `wait_for` then
looks at the condition once more, and what it finds decides between `TimeOut` and `ReturnLate`. Any
thread may make any call, so that pushers, poppers and impatient ones of either kind sleep together on
the one condition variable.

### PointClouds

Coordinates are integers, two of them to a `kPrecision`, so that the rounding of half a step, away
from zero, is in the model; edge lengths are parts of `max_length`, of which all halvings and the
middles of the binary search are exact. `AdaptivelyVoxelFiltered` has its early returns, the loop that
halves and the search that ends within 10%. The number of points need not fall as the edge length
grows, because voxels are centered on multiples of it; the sample clouds along a line have such cases,
and `FilteredDense` holds all the same. Compression pushes points into the cells of `HybridGrid`, here
with blocks of four, lists the cells in the grid's order of iteration, and reads the list again as
`ReadNextPoint` does, block by block.

### OptimizationProblem

IMU data and nodes are their times, and an integral is the set of pieces, which datum from when to
when. `Solve` is one step: for every trajectory, the iterator that skips what comes before the first
node and moves on with each pair of nodes, and its copy that runs to the middle of one pair and on to
the middle of the next. `ResidualsExact` says of each integral that at every instant it takes the newest
datum there was. As the local trajectory builder does, the run adds no node before the first IMU
datum of its trajectory, and data of strictly increasing times.

### OptimizingLocalTrajectoryBuilder, HybridGrid

The 3D builder keeps batches and the IMU and odometer data they are integrated from; the module has
those deques by time, `RemoveObsoleteSensorData`, and `TransformAndResetBatch...` with the clearing at
the end of an accumulation. `BatchesExact` compares what the solver integrates with the histories of
all that was ever received, and the constraints from the odometer (`looked_up.made`) with those that
all the odometer data ever added would give (`due`), so that neither sensor's data can be discarded too
early: constraints that are missing are seen as well as wrong ones. Where `batches_` is read although it
is empty the model sets `failed` (`empty_batches`). `HybridGrid` follows `DynamicGrid` into its nested and flat grids, grows by
moving the eight octants, and iterates; it is compared with a plain function from cells to values.

### GridSlamProcessor, ParticleFilter

`init`, `processScan`, `resample` with any selection of survivors, `clone` and the destructor.
The module has the nodes with parent, child count and the deletions that cascade, and
the copy-on-write patches of `HierarchicalArray2D`, with `m_activeAreaComputed` of the
matcher, which decides whether a scan is written into a private copy. `ParticleFilter` is the abstract
specification: each particle is a sequence of scans, resampling copies sequences. The detailed
filter implements it by following the parent pointers. A processor may be deleted at any time; before its
first scan all particles have one node, which the destructor then deletes once for each (`GridSlamProcessorDeleted`).
The model stops there (`tree.failed`), and `SharingExact` says that this is the only way to fail.

### SlamGMapping, GridSlamProcessorThread

The node: scans and transforms are read from the bag, wait in a queue of bounded length until their
transform is known, are throttled, and reach the filter, here reduced to the trajectory of its best
particle. The map is redrawn from that trajectory. The other module has the filter as the events it
posts (poses, resamplings, end), the bounded buffer, and the display or `gfs_nogui` that replays them.
Its `ancestors`, a history variable, has for every event the particles' pasts by their indexes at each
event before; `PathsTrue` says that the pose `drawFromMemory` draws for a move is that of the ancestor,
which holds although the display only has `history` and goes through it backwards.

### OdomCalibration, LidarMotionUndistortion, OccupancyMapping

The calibration follows its global variables through both callbacks and keeps a history of which scans
each row is about. The undistortion follows the indices of `Lidar_MotionCalibration`, with every
lookup of a transform that may fail. The mapping has the line tracing with its swaps. A cell of a line may be
left out: `BeamsCounted` says that it is one at most, and for beams that go right the one hit, which
is all that the comments (`HitLeftOut`) and the code agree on.

## What the runs show

Distinct states are given in parentheses.

| run | instance | shows |
|---|---|---|
| `thread_pool` (7 568) | 3 workers, 4 items, one of which schedules two others | no wake-up is lost in any interleaving of sleeping, scheduling, notifying and destroying; the pool implements `WorkPool`; every item is executed; the destructor ends and leaves nothing behind |
| `data_flow` (627 701) | collator: 2 trajectories with up to 2 sensors, 3 times, 3 data; builder: 2 workers, 2 submaps, 1 node, 2 scans, 2 slots per cycle, of which the first may be global; 21 pipelines over streams of up to 3 batches; trajectories of 4 and 10 nodes; 3 threads at a queue of any of 3 sizes, 3 values; clouds of up to 4 points; 6 IMU data and nodes at 5 times on 2 trajectories | `MergeSorted`, `DeliveredExact`: the merged stream is sorted, only the prefix before the common start is skipped, nothing is held back without need; `ComputationsTracked`: counts are exact scan by scan, slots are live, empty and private until written, matchers are built once and never used before; `ComputationsReported`: a callback gets everything, after everything; `PipelineExact`: files hold what the whole stream comes to, however many passes it took; `FloorsExact`; `BlockingExact`: no thread sleeps on beside what it waits for; `CloudsExact`: filtered clouds are dense enough and no denser than needed, compression loses nothing; `ResidualsExact`: nodes are tied by all IMU data between them; no CHECK fails |
| `pose_graph_online` (527 961) | 2 workers, 1 trajectory of 6 scans (4 submaps, 2 finished), an optimization after every second scan, 1 IMU datum | `ItemsInOrder`: the queue always has exactly one owner and ids agree; every pair is matched once, `MatcherInputFinal`: the submaps being matched are final and the nodes a matcher is built from are all of its submap's, the solver is not disturbed, no CHECK fails |
| `pose_graph_two` (97 140) | 2 trajectories of 2 scans, an optimization after every third scan | `MatchesKept`: no match is lost between workers, slots and constraints, and trajectories are connected exactly by their matches; the queue is worked off; every scan reaches the problem |
| `pose_graph_final` (29 673) | 2 trajectories of 2 scans, no loop closure (`optimize_every_n_scans` 0), final optimization and destruction | `WaitForAllComputations` returns, and only when all is caught up; the destructors' CHECKs hold |
| `front_end` (250 276) | 4 submaps of 2 range data, 1 odometry state, 3 points in time; grids of 3 by 3 cells with 3 subpixels to a cell; windows of 1 and 5, depth 3, the 3D matcher with 1 to 3 grids of full resolution; 4 trajectory ids; 6 accumulated scans; a 3D grid that grows up to 3 times | odometry never takes a correction back; an old and a new submap at any time, and finished ones never change; one update per cell and scan; a ray visits what it passes; branch and bound finds the best; connections are kept; no batch misses data; no voxel is lost or moved |
| `ros_packages` (176 332) | 3 particles over 3 scans and one patch, with a map of two; 4 scans in the bag with a queue of 2; a display of 2 particles behind a buffer of 2 events; 5 pairs of scans; 8 beams in segments of 2; 4 by 4 cells and 2 beams | counts are exact and every particle keeps its history; scans come in order and only old ones are given up; the display shows what happened; rows pair the same two scans; each beam gets the pose of its time; each beam is counted once by what it passes and hits |
| `final_while_queued`, `two_optimizations`, `own_scans`, `update_map`, `empty_batches` | small | the first five disagreements below |

Why the bounds suffice. Three workers in the pool are one that sleeps, one that executes and one
that exits at a time; a lost wake-up needs two. Two slots of one cycle are the fewest that finish in
either order, and two scans the fewest of which the older can outlive the newer. Six scans with two
range data per submap finish two submaps, so old scans are matched against a new submap during an
optimization, and the queue is handed over and given up more than once. Two trajectories are the
fewest with a match between them. Four trajectories give chains long enough that path compression
moves a node. Three data at three times on up to four queues include a sensor that never
delivers, equal times, a datum that is skipped and trajectories with different starts. With four data
the collator alone holds as well (601 922 states).

In `front_end`, four submaps let a submap be started, filled and left behind twice; every pair of the
81 subpixels of a grid of nine covers each slope and each corner; with depth 3 and windows of one and
five cells a search ends early, at the border and beyond it. One odometry state is kept because the code
only reads the newest; the theorem is for any number. In `ros_packages` three particles are the
fewest of which one dies while another is copied twice, and three scans let the copies diverge and be
resampled again; a queue and a buffer of two are overrun by four scans and by the events of two; eight
beams are four segments, so that a transform can be missing in a middle one.

Symmetry (workers, submaps in `data_flow`, patches in the filter) is used only in runs
without liveness properties. `pose_graph_two` has none because of its liveness properties. Deadlock is checked in all
runs but `front_end` and `ros_packages`, whose parts end at their bounds or with their input (in `data_flow`, `Ended` says where they may), and the
small violation runs: `Rest` and `Destroyed` are the states in which nothing has to happen, everything else
without a step would be reported.

### Fairness

The only assumption is that a thread the kernel can schedule runs: weak fairness of each worker's
next step and of what Main does *inside* a call. Main need not make any call, no lock is assumed to
be fair beyond that, and no outcome of a match is assumed to occur. In the thread pool model the
owner's notification and join are fair and its calls are not. Main makes finitely many calls in
every run (the bounds), so `QueueWorkedOff` says that the queue ends once scans stop coming; with an
endless stream of scans the code may stay in its loop, and nothing in it promises otherwise.

`WaitForAllComputations` polls its predicate every second (`AwaitWithTimeout`,
sparse_pose_graph.cc:311-322), so that no notification is needed for it; the model evaluates it in
any state.

### Disagreements between the code and its documentation

Each of these is a configuration with one property that says what the documentation says, and that TLC
finds violated by what the code does. The first five are runs of `PROJECT.json`:

* `final_while_queued`: when `RunFinalOptimization` (or the destructor) is called while the callback
  of `HandleScanQueue` is registered and all matching is done, the count of finished scans is
  already that of the nodes, `WhenDone` is called a second time in one cycle and its
  `CHECK(when_done_ == nullptr)` aborts. It takes a worker that is late with the empty computation.
* `two_optimizations`: `WaitForAllComputations` waits for the constraint builder, not for a callback
  that is already optimizing; `RunFinalOptimization` then solves on the calling thread at the same
  time, which sparse_pose_graph.h:145-146 forbids.
* `own_scans`: resampling registers the scan into copies of particles while the matcher still says
  that the active area was computed; patches that other particles share are written, so a map gets
  scans from trajectories that are not its own.
* `update_map`: `updateMap` resizes the published map for the first node it draws, the newest scan;
  an earlier scan on the best particle's trajectory may never have been drawn and lie outside.
* `empty_batches`: range data that come before the first IMU datum are counted although
  `RemoveObsoleteSensorData` clears `batches_`; when they make up an accumulation, `batches_.back()` is
  read of an empty deque (optimizing_local_trajectory_builder.cc:360; the comment at :174 takes an empty
  deque for the first range data ever).

The other six are kept as configurations beside them and run in seconds
(`tlc -config SparsePoseGraphStalePose.cfg SparsePoseGraph`, and so on):

| configuration | module | property | what the code does |
|---|---|---|---|
| `SparsePoseGraphStalePose` | `SparsePoseGraph` | `PosesInFrame` | `AddScan` computes the pose of its node before it takes the lock (sparse_pose_graph.cc:95) and appends it afterwards (:103); an optimization may be published in between. The comment at :367 has all poses that were added later extrapolated; this one is not until the next optimization |
| `OrderedMultiQueueSorted` | `OrderedMultiQueue` | `NoCheckFails` | each sensor's data are in order, which is all that ordered_multi_queue.h:81-82 and collator.h:63-65 ask for, but a trajectory that is added late starts before what another one has already dispatched, and the `CHECK_LE` in `Dispatch` (:113) ends the program |
| `DataFlowHeaders` | `DataFlow` | `HeadersHold` | the header of a PCD file is that of the first batch, the fields of a point those of its own batch (pcd_writing_points_processor.cc:125-145); with `color_points`, which colors one sensor of several, the file does not hold the points its header claims (:38-39). The PLY writer has a CHECK for it |
| `DataFlowGiveUp` | `DataFlow` | `GivingUpKeepsCloud` | the comment in `AdaptivelyVoxelFiltered` (voxel_filter.cc:61-62) has it give up and use the full cloud when a hundredth of the edge length is not enough; the code returns what the last edge length left (:100), which has fewer points than asked for |
| `GridSlamProcessorDeleted` | `GridSlamProcessor` | `NeverFails` | before the first scan all particles have one node (gridslamprocessor.cpp:315-332), and the destructor deletes it once for each of them (:160-168); `~SlamGMapping` does so when no scan was ever added, although gridslamprocessor.h:76 has `~TNode` update the tree consistently |
| `OccupancyMappingHit` | `OccupancyMapping` | `HitLeftOut` | the comments of `TraceLine` (occupany_mapping.cpp:13, :75) have the last point left out; the one left out is that with the larger first coordinate after the swaps, which may be the start, and of steep lines another one or none (:76). The cell that was hit is then lowered before it is raised |

Seen in the source and not run, because nothing in the programs observes them or because they lie in
what the models leave out:

* `OptimizationProblem::Solve` in 3D ends the program when some trajectory has no node yet or no IMU
  data (a TODO at :198 says so), and `IntegrateImu` when two IMU data have one time.
* A point within half a `kPrecision` of the bound that the CHECK in `CompressedPointCloud` allows is
  rounded to a raster point beyond it.
* `SetMaxNumIterations` changes the solver's options without the mutex (sparse_pose_graph.cc:340).
* The calibration reads `d_point_scan` in its first row before it is set and compares increments
  without their absolute value (calib_odom main.cpp:281, 295-297, 343).
* The undistortion corrects the beam two segments share twice, and divides by the number of beams of a
  segment less one.
* `resampleIndexes` accumulates doubles; rounding may leave the last indexes at 0, out of order.
* The map in an event of `GridSlamProcessorThread` shares patches with the particles; the counts of
  `autoptr` are changed from two threads without a lock (gsp_thread.cpp:583). `running` and `DoneEvent`
  are not synchronised either, and `TruePosEvent`s are not freed.
* The display draws the path of the best particle with an index of the last generation matched
  (qparticleviewer.cpp:297-311).
* In 3D the nodes captured for a matcher carry poses; a node appended across a publication
  (`SparsePoseGraphStalePose`) is captured with a pose of the older frame.
* `SliceByAltitudeChange` (detect_floors.cc:66-81): a first span that a jump ends after one node keeps
  `end_index` 0, so that its last node is looked up as -1; the comment on the range (line 27) has it
  include at least one node.
* A level that only short spans belong to has no altitudes when another short span is joined to it;
  `Median`'s CHECK fails, although the comment (detect_floors.cc:165-167) expects one.
* The 3D matcher with a `branch_and_bound_depth` of 1 and no similar rotation reads the first of no
  candidates.
* `resample` with fewer particles than there are (gridslamprocessor.hxx:212) would leave indexes of
  the longer vector; no caller asks for it.
* `GetBlocker` (ordered_multi_queue.cc:77-80) returns a key that was never set before the first call
  of `Dispatch` that waits, and the key of a removed queue later; the header describes it as the
  queue for which more data is needed.
* A queue that was finished and drained is not removed when a queue before it in the map waits
  (ordered_multi_queue.cc:99-110).
* `num_background_threads` may be 0 (map_builder.cc:70): work items are then never executed and the
  pose graph's destructor waits for ever. The model has at least one worker.
* With loop closure on, `WaitForAllComputations` may return while `scan_queue_` still exists;
  `CaughtUp` is therefore checked with `optimize_every_n_scans` 0 only.
* Members of `MapBuilder` are destroyed in reverse order of declaration (map_builder.h:96-101): the
  trajectory builders, and with them the submaps, before the pose graph whose destructor waits for
  the workers that read them.

## What is proved

All theorems hold for any values of the constants that meet the named `ASSUME`s of the modules; TLC
evaluates those in each run.

| theorem | says | the argument |
|---|---|---|
| `ThreadPoolProofs!TypeCorrect` | `Spec => []TypeOK` | one lemma per action |
| `ThreadPoolProofs!PoolRefinement` | `Spec => PoolSpec` | `PoolInv` adds to the types that each item is in one place (queued once, or with one worker, and scheduled before) and that `running_` is set until the destructor starts. Without the first, taking an item would not remove it from the abstract `waiting`, nor scheduling one be of a new item; without the second, the destructor would not map to `Close`. Every step of the pool is then a `Schedule`, `Start`, `Finish`, `Close` or a stutter |
| `ThreadPoolProofs!WakeupKept` | `Spec => []NoLostWakeup` | inductive together with the types: a worker goes to sleep only when nothing waits and the pool runs, whoever changes that becomes a notifier in the same step, and `notify_all` leaves no sleeper |
| `ConstraintBuilderProofs!BuilderInvariant` | `ConstantsOK` implies `Spec => []BuilderInv` | `BuilderInv` adds to the properties that a work item is in one place (waiting, parked, or with one worker), that what is parked waits for a construction on its way, that the counted sets are finite, and that the empty computation of a `WhenDone` finds its callback still there. Counting is by cardinalities: each step adds or takes one element of the set of one scan |
| `ConstraintBuilderProofs!TrackedAlways`, `DataFlowProofs!BuilderTracks` | `ComputationsTracked` always, no CHECK fails | from `BuilderInv`; when all counts are 0 no computation is left, parked ones among them, so that the CHECK in `FinishComputation` holds and the slots are cleared under nobody |
| `ConstraintBuilderProofs!ReportedAlways`, `DataFlowProofs!BuilderReports` | `Spec => ComputationsReported` | a worker that takes the callback was the last computation of all scans; the oldest pending scan can only grow, because what is added is added to the current scan |
| `DataFlowProofs!BlockingKept` | `FlowSpec => []BlockingExact` | `BlockingInv`: what is in the deque continues what was returned, who sleeps is in a call, and each sleeper whose condition has come to hold has a notifier |
| `DataFlowProofs!ResidualsAlwaysExact` | `FlowSpec => []ResidualsExact` | `ProblemInv`: data and nodes are in order of time and no node is older than the first datum of its trajectory. The recursive sequence of iterators exists (`IteratorsExist`, by the least length that has none) and each is at the newest datum of its node (`IteratorsAreNewest`, by the least node where it is not), from which no CHECK of the integration fails and each integral covers its span (`IntegralCovers`); each node and pair of nodes has its residual because the index runs over all of them |
| `FrontEndProofs!SubmapsShape` | `Spec => [](TypeOK /\ OldAndNew)` | `OldAndNew` is inductive together with the types: inserting into the last two submaps keeps their difference at `NumRangeData`, and when the last one is full the one before it holds twice as many |
| `FrontEndProofs!FinishedNeverChanges` | `Spec => FinishedIsFinal` | from the shape: only the last two submaps are written, and they are unfinished |
| `OrderedMultiQueueProofs!StreamIsMerged` | `Spec => MergeSorted` | `StreamInv`: every queue is sorted, holds nothing older than the last dispatched time, holds only data that were added, and nothing newer than that time was delivered. The datum dispatched is the oldest of all heads, so the queues stay in order when the time advances to it |
| `OrderedMultiQueueProofs!ChecksHold` | `Spec => []NoCheckFails`, where `Spec` has the condition `StartsLater` on the client | `CallInv`: keys that a call still has to mark have an unfinished queue and are marked once, so no CHECK on a missing or finished queue fails; `StreamInv` excludes the CHECK on sorted data: `OpenCurrent`, that an unfinished queue which was given any data was given one not older than the last dispatched time, makes data that are sorted per queue not older than what was dispatched. The condition is needed for the first datum of a queue (`OrderedMultiQueueSorted`) |
| `OrderedMultiQueueProofs!NothingLostOrKept` | `Spec => []DeliveredExact` | `FastInv`: the data added to a queue are what was delivered, what was skipped before the common start, and what the queue holds, in this order; the common start of a trajectory never changes once it is known. When the loop of `Dispatch` stops, the queue it stopped at is empty or its one datum before the start is undecided |
| `FrontEndProofs!ImplementsSubmaps` | `LocalSpec => Spec`: the builder does to its submaps what a sequence of range data does | every action either leaves the submaps alone or inserts one range data; so `OldAndNew` and `FinishedIsFinal` hold of the submaps behind the sensors |
| `FrontEndProofs!OdometryKeepsCorrection` | `Spec => []CorrectionKept` | the invariant adds that the newest odometry state carries the pose and odometry it was added with and that the clocks agree; the step needs only the group laws, which are assumptions on `Rigid` |
| `FrontEndProofs!ConnectionsAlwaysExact` | `FrontEndSpec => []ConnectedByConnections` | `Agree`: the parents form a forest, that is, some rank falls from each child to its parent; trajectories with a direct connection have one representative; and no set of trajectories that no connection leaves is left on the way to a representative. What `FindSet` computes exists by the least rank at which it would not (`DescentExists`); a compression keeps the rank and all representatives (`FlatForest`), and hanging one root below another raises the ranks of its tree (`LinkedIs`). A trajectory of least rank in a cycle would have no parent in it (`NoCycleIn`) |
| `FrontEndProofs!BatchesAlwaysExact` | `FrontEndSpec => []BatchesExact` | `BatchesInv`: the data kept are the last ones received (`KeptOf`), the first IMU datum kept is the newest when the first batch came (`Covered`), the batches are the last scans, as many as came since the first IMU datum but at most one accumulation, and each accumulation has the scans its number says. So the iterator that goes from batch to batch is always at the newest datum (`IteratorsAreNewest`), which is what `IntegrateImu` and `PredictState` check, and integrating over the data kept gives what all data give (`IntegralIsMeasured`); a later datum changes nothing of it (`MeasuredGrows`). The odometer data kept go back to the newest one not after the first batch (`Anchored`), so that of two batches of different times those kept bracket both when all of them do, and with the same data (`LookupKept`, `ConstraintsKept`). It assumes that an accumulation has a scan: with `scans_per_accumulation` of 0, `MaybeOptimize` takes `batches_.back()` of no batches at once |
| `SparsePoseGraphProofs!ChecksPass` | without a final optimization, `Spec => []NoCheckFails` | `GraphInv`: who holds the mutex, that the queue has one owner (a registered callback or one thread), that the backlog of scans continues what is in the optimization problem in the order of the calls, that the graph's submaps have the shape of `Submaps` and know which are finished, and `BuilderInv` of the builder inside |
| `SparsePoseGraphProofs!WorkedOffInOrder`, `TypesKept` | while no CHECK fails: `ItemsInOrder`, `TypeOK` | from `GraphInv`: a queue is worked off by its owner alone, so the item in front is the next scan of its trajectory |
| `SparsePoseGraphProofs!EveryPairMatchedOnce`, `MatchesAreKept` | while no CHECK fails: `MatchedOnce`, `MatchesKept` | `MatchingInv`: a pair that is due was considered or is in the `todo` of the scan being processed, never both; a match found is in one of slots, results and constraints; and the components are those of the graph of matches |
| `SparsePoseGraphProofs!WaitedForAll` | with `OptimizeEvery = 0`, `Spec => []NoCheckFails` and `Spec => []CaughtUp` | `WaitInv`: without loop closures there is never a queue, so workers only match and run the callback that Main awaits; this callback is taken by the last computation, which leaves no work item, no slot and no other callback behind, and nobody adds one before Main goes on. So the destructors' CHECKs hold after a final optimization too |
| `SparsePoseGraphProofs!SolvedUndisturbed` | without a final optimization, `SolveUndisturbed` and `OneOptimization` | the thread that solves owns the queue, so every other thread only appends to it |
| `SparsePoseGraph3DProofs!MatchersTakeAll` | while no CHECK fails, `MatcherInputFinal` | `MatchersOK`: what a construction captured and what a matcher was built from are all nodes inserted into its submap; with `GraphInv`, the submap is finished and no scan in the backlog is to be inserted into it |
| `SparsePoseGraph3DProofs!ImplementsPoseGraph` | `Spec3D => Spec` | each action of the 3D graph is a conjunction with one of the 2D graph, and so is each disjunct of `Next3D`; the initial states and fairness are the same formulas. Every invariant, action property and liveness property of the 2D graph is thereby one of the 3D graph |
| `RosPackagesProofs!ReplayedInOrder` | `PackagesSpec => []ReplayInOrder` | `ReplayInv`: the scans read are in three places in order, those given, those that wait and those dropped, each in order and what was given or dropped older than all that waits. A queue one too long holds scans of different numbers, so its first is at least `QueueSize` behind the bag (`FrontIsOld`, by the least counterexample) |
| `RosPackagesProofs!CorrectedOnTime` | `PackagesSpec => []BeamsInTime` | `UndistortionInv`: all beams before the loop's are corrected once or, between two segments, twice, the others not at all; a correction of beam `i` starts and ends at the times of its segment's ends and takes `i - from` steps. What is shown is such a scan, finished or not |
| `RosPackagesProofs!RowsAlwaysPaired` | `PackagesSpec => []RowsPaired` | `CalibrationInv`: the scan kept to compare the next with is the last one used, for the odometer and for the laser; row `(k - 1) % DataLen` is about scans `k - 1` and `k` for the last `DataLen` of them, which no two share (`OtherRow`); and there is a path along the increments, `odom_pos_cal` its end. A step taken back into its own frame leads to the pose it came from because headings are quarter turns (`IncrementLeads`, from the four cases); the recursive path is unique by its least counterexample (`OnePath`), which takes the place of an induction |
| `RosPackagesProofs!ViewerAlwaysTrue` | `PackagesSpec => []ViewerTrue` | `ViewerInv`: no two events have one number; those kept, those taken and those that wait are in the order they were made, the former before the latter; and after event `n` a particle's past is that before it of the particle the event drew it from, or its own when no event of that number drew (`PastKept`). From it each step of the drawing: between two events kept that are younger than the last dropped resampling nothing drew (`NothingBetween`), so the past is the same (`PastLasts`), and the event itself changes the index as it changed the past (`DrawnFurther`). What the whole loop over the history draws follows by the least step that would not (`DrawnAlways`) |
| `RosPackagesProofs!LineStaysInMap` | every cell `TraceLine` returns for two cells of a map is a cell of the map | a point is on the line (`LineTraced`) and a row that is nearest in its column is between the rows of the two ends (`NearIsBetween`), whichever way the ends were swapped; the code uses the indices unchecked |
| `RosPackagesProofs!BeamsAlwaysCounted` | `PackagesSpec => BeamsCounted` | an action property: it speaks of the next beam, whatever the map. After `n` columns `y` is `m` rows from the start and `error` is `n * deltaY - m * deltaX`, which stays in `[-deltaX / 2, deltaX / 2)` (`NearNext`) because a line is never steep after the swap (`LineGoes`); so the point is the nearest of its column and there is one (`OneIsNear`), and the points so far are those of the line in the columns so far, each once (`PointPushed`). A loop that lowers each of them lowers a cell once (`PassedIs`), and the one left out is the cell hit when nothing was swapped |

`StreamInv` and `CallInv` are not implied by the properties they prove: a state may satisfy
`MergeSorted`'s history while a queue holds an old datum that would break it a step later.

The hypothesis that no final optimization is asked for (`~Finishes`) is needed: with one the finding
`final_while_queued` shows a CHECK fail, and `two_optimizations` two threads that optimize. What needs
no more than that no CHECK has failed so far is proved in that form, for runs with a final
optimization too.

The builder's theorems assume `ConstantsOK`: the values that stand for a null pointer and for no work
item are none of the values they stand beside. `SparsePoseGraph` and `DataFlow`, which instantiate the
builder, assume it by name and TLC evaluates it. In `SparsePoseGraphProofs` the theorems about the
builder are used through an `INSTANCE` of `ConstraintBuilderProofs`; its definitions, and those of the
graph's own instance, are shown to be the same first.

The order in which a scan's pairs are given to the builder is the relation `Before` on the set `todo`,
and not a sequence, so that what has been done and what is left are two disjoint sets.

`CaughtUp` is proved for `OptimizeEvery = 0`, the configuration its run has, because it holds for no
other: with loop closures a queue may be there when `WaitForAllComputations` returns, as the finding
`final_while_queued` shows. The argument needs no counting of work items: that every scan was counted
is what Main waits for first, but what makes the return safe is the callback it waits for then.

Only model-checked: liveness (`PoolProgress`, `QueueWorkedOff`, `ScansProcessed`, `WaitEnds`) rests on
fairness and stays with TLC. The same goes for the modules whose operators recurse or fold over their
data, because what a recursive definition computes for every input needs an induction the provers
cannot instantiate: `GridSlamProcessor`, `ProbabilityGrid`, both `FastCorrelativeScanMatcher`s, `HybridGrid`,
`PointsPipeline`, `DetectFloors`, `PointClouds`. A recursive function over an interval, as in
`OdomCalibration`, `GridSlamProcessorThread` and `OccupancyMapping`, is within reach: it exists because
there is no least length for which it does not (`RecursionExists`, with the step given as a function
rather than an operator), and what it computes is right at every index because there is no first one
at which it is not. `TrajectoryConnectivity`, which recurses along parents, is proved the same way along
the ranks of its forest.

## What is not modelled

* Numbers: Ceres problems, filters, likelihoods, odds. What they decide (match or no match, near or
  far) is a nondeterministic choice. This is the larger part of the repository: the scan matchers'
  cost functions, the Kalman filter, the motion and sensor models of GMapping, `ls_slam`, rigid
  transforms.
* `SetMaxNumIterations` and the other options of the solver.
* File conversion, configuration, drawing and user interfaces, log readers, proto streams, ground truth,
  geometry helpers and the message package: they translate one representation into another, step by
  step, and what could be said of them is what they do.
* The lifetime of what a `MapBuilder` owns, and of the mutex a locker still has to notify on.

## Plan

1. The projection of 3D submaps into images, the Kalman trajectory builder of 3D, proto streams.
2. To prove: the counts of the trajectory tree and the patches, which are folds over sets of nodes
   and would need lemmas on folds first.

------------------------------ MODULE FrontEnd ------------------------------
(***************************************************************************)
(* The parts of the front end, side by side: in a behaviour one of them    *)
(* moves.  They share no state: LocalTrajectoryBuilder takes scan matching *)
(* and insertion as they are specified, ProbabilityGrid (with the rays     *)
(* cast into it) and FastCorrelativeScanMatcher compute them on small      *)
(* grids, TrajectoryConnectivity is what the matches of submaps lead to,   *)
(* and OptimizingLocalTrajectoryBuilder, HybridGrid and                    *)
(* FastCorrelativeScanMatcher3D are the counterparts of builder, grid and  *)
(* matcher in three dimensions.                                            *)
(***************************************************************************)
EXTENDS LocalTrajectoryBuilder

CONSTANTS
    Scale, NumXCells, NumYCells, InsertFreeSpace, MaxReturns, MaxMisses,
    MaxInsertions,
    MaxValue, BranchAndBoundDepth, Windows, MinScores,
    Ids, MaxConnections,
    ScansPerAccumulation, OptimizeEvery, MaxBatchTime, MaxBatchScans,
    Bits, NumFreeSpaceVoxels,
    FullResolutionDepths

\* An accumulation ends with batches_.back(): it has scans.
ASSUME BatchesAssumption == ScansPerAccumulation \in Nat \ {0}

VARIABLES part,                                     \* the part that moves
          grid, finished, offset, inserted,         \* of ProbabilityGrid
          ray,                                      \* what CastRay made of which ends
          precomputation_grid_stack_, probability_grid, request, result,
          forest, connection_map,                   \* of TrajectoryConnectivity
          now, batches_, imu_data_, odometer_data_, num_accumulated_,
          batch_submaps, failed, accumulated, recorded, integrated,
          looked_up,                                \* of OptimizingLocalTrajectoryBuilder
          hybrid_grid, hybrid_inserted,             \* of HybridGrid
          precomputation_grids_, full_resolution_depth, request_3d,
          result_3d                                 \* of FastCorrelativeScanMatcher3D

\* The smallest group that does not commute: poses on a ring of three cells,
\* facing either way.
MCRigid == [x : 0..2, facing : {1, -1}]
MCTurns == [x : {0}, facing : {1, -1}]
MCIdentity == [x |-> 0, facing |-> 1]
MCCompose(a, b) == [x |-> (a.x + a.facing * b.x) % 3, facing |-> a.facing * b.facing]
MCInverse(a) == [x |-> (-a.facing * a.x) % 3, facing |-> a.facing]

Subpixel(x, y) == [x |-> x, y |-> y]

Grid == INSTANCE ProbabilityGrid WITH
            Origins <- {Subpixel(1, 1), Subpixel(4, 7)},
            Ends <- {Subpixel(7, 7), Subpixel(4, 2), Subpixel(8, 3)}

\* A scan of two points in three rotations, and one whose points lie outside the grid.
Matcher == INSTANCE FastCorrelativeScanMatcher WITH
               NumXCells <- 3, NumYCells <- 2,
               Scans <- {<< << <<0, 0>>, <<1, 0>> >>, << <<0, 0>>, <<1, 1>> >>,
                            << <<0, 0>>, <<0, 1>> >> >>,
                         << << <<-2, 1>>, <<3, 0>> >> >>}

Connectivity == INSTANCE TrajectoryConnectivity

Batches == INSTANCE OptimizingLocalTrajectoryBuilder WITH
               NumRangeData <- 1, submaps <- batch_submaps,
               MaxTime <- MaxBatchTime, MaxScans <- MaxBatchScans

\* Cells in four octants; the grid has to grow up to three times.
Hybrid == INSTANCE HybridGrid WITH
              inserted <- hybrid_inserted,
              Origins <- {<<0, 0, 0>>, <<-3, 2, -5>>},
              Ends <- {<<3, -4, 1>>, <<-5, 0, 3>>, <<2, 2, 2>>, <<0, 9, -1>>}

\* Three cells, and two points in two rotations.
Matcher3D == INSTANCE FastCorrelativeScanMatcher3D WITH
                 KnownCells <- {<<0, 0, 0>>, <<1, -1, 0>>, <<-2, 1, 1>>},
                 Windows <- {[xy |-> 3, z |-> 1], [xy |-> 0, z |-> 3]},
                 Rotations <- {<< << <<3, 0, 0>>, <<-1, 0, 1>> >>,
                                  << <<0, 3, 0>>, <<0, -1, 1>> >> >>},
                 request <- request_3d, result <- result_3d

Parts == {"local", "grid", "ray", "matcher", "connectivity", "batches", "hybrid",
          "matcher3d"}
Points == [x : 0..3 * Scale - 1, y : 0..3 * Scale - 1]

builderVars == <<localVars, submaps>>
gridVars == <<grid, finished, offset, inserted>>
matcherVars == <<precomputation_grid_stack_, probability_grid, request, result>>
connectivityVars == <<forest, connection_map>>
batchVars == <<now, batches_, imu_data_, odometer_data_, num_accumulated_, batch_submaps,
               failed, accumulated, recorded, integrated, looked_up>>
hybridVars == <<hybrid_grid, hybrid_inserted>>
matcher3dVars == <<precomputation_grids_, full_resolution_depth, request_3d, result_3d>>

FrontEndInit ==
    /\ part \in Parts
    /\ LocalInit /\ Grid!Init /\ Matcher!Init /\ Connectivity!Init
    /\ Batches!Init /\ Hybrid!Init /\ Matcher3D!Init
    /\ part # "matcher3d" => full_resolution_depth = 1
    /\ ray = <<>>

\* A part takes its own next step, and nothing else moves.
BuilderNext ==
    /\ part = "local" /\ LocalNext
    /\ UNCHANGED <<part, gridVars, ray, matcherVars, connectivityVars, batchVars, hybridVars,
                   matcher3dVars>>

GridNext ==
    /\ part = "grid" /\ Grid!Next
    /\ UNCHANGED <<part, builderVars, ray, matcherVars, connectivityVars, batchVars,
                   hybridVars, matcher3dVars>>

\* Every ray on a grid of three by three pixels.
RayNext ==
    /\ part = "ray" /\ ray = <<>>
    /\ \E from, to \in Points :
         ray' = [from |-> from, to |-> to, cast |-> Grid!CastRay(from, to)]
    /\ UNCHANGED <<part, builderVars, gridVars, matcherVars, connectivityVars, batchVars,
                   hybridVars, matcher3dVars>>

MatcherNext ==
    /\ part = "matcher" /\ Matcher!Next
    /\ UNCHANGED <<part, builderVars, gridVars, ray, connectivityVars, batchVars, hybridVars,
                   matcher3dVars>>

ConnectivityNext ==
    /\ part = "connectivity" /\ Connectivity!Next
    /\ UNCHANGED <<part, builderVars, gridVars, ray, matcherVars, batchVars, hybridVars,
                   matcher3dVars>>

BatchesNext ==
    /\ part = "batches" /\ Batches!Next
    /\ UNCHANGED <<part, builderVars, gridVars, ray, matcherVars, connectivityVars,
                   hybridVars, matcher3dVars>>

HybridNext ==
    /\ part = "hybrid" /\ Hybrid!Next
    /\ UNCHANGED <<part, builderVars, gridVars, ray, matcherVars, connectivityVars,
                   batchVars, matcher3dVars>>

Matcher3DNext ==
    /\ part = "matcher3d" /\ Matcher3D!Next
    /\ UNCHANGED <<part, builderVars, gridVars, ray, matcherVars, connectivityVars,
                   batchVars, hybridVars>>

FrontEndNext == \/ BuilderNext
                \/ GridNext
                \/ RayNext
                \/ MatcherNext
                \/ ConnectivityNext
                \/ BatchesNext
                \/ HybridNext
                \/ Matcher3DNext

FrontEndSpec ==
    FrontEndInit /\ [][FrontEndNext]_<<part, builderVars, gridVars, ray, matcherVars,
                                       connectivityVars, batchVars, hybridVars,
                   matcher3dVars>>
-----------------------------------------------------------------------------
\* ProbabilityGrid and HybridGrid: each range data changes a cell at most once, hits have
\* priority; cropping keeps what is known, and growing, writing and reading back lose no
\* cell and move none.
GridsExact ==
    /\ part = "grid" => Grid!EvidenceOnce
    /\ part = "hybrid" => Hybrid!GridExact

\* ray_casting.cc:27: a ray visits the pixels in which some part of the line lies, each
\* once, and no CHECK of CastRay fails.
CastRayExact == ray # <<>> => Grid!VisitsLine(ray.from, ray.to, ray.cast)

\* FastCorrelativeScanMatcher, in two and in three dimensions: branch and bound finds what
\* an exhaustive search finds.
BestFound ==
    /\ part = "matcher" => Matcher!BestFound
    /\ part = "matcher3d" => Matcher3D!BestFound

\* TrajectoryConnectivity: the forest says what the direct connections say.
ConnectedByConnections == part = "connectivity" => Connectivity!ConnectedByConnections

\* OptimizingLocalTrajectoryBuilder: every scan is accumulated once, and what is discarded
\* of the IMU and odometer data is not missed.
BatchesExact == part = "batches" => Batches!BatchesExact
=============================================================================

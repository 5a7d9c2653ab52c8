----------------------------- MODULE RosPackages -----------------------------
(***************************************************************************)
(* The packages beside cartographer, side by side: in a behaviour one part *)
(* moves.  GridSlamProcessor is the filter of gmapping; SlamGMapping is    *)
(* the node that hands it the scans and draws the map, with the filter     *)
(* reduced to the trajectory of its best particle, GridSlamProcessorThread *)
(* the filter behind a display, reduced to the events it reports;          *)
(* OdomCalibration is the calibration of the odometer,                     *)
(* LidarMotionUndistortion the correction of scans made in motion, and     *)
(* OccupancyMapping the mapping with known poses.                          *)
(***************************************************************************)
EXTENDS GridSlamProcessor

CONSTANTS
    MaxBagScans, QueueSize, ThrottleScans, MapUpdateInterval, World, EnlargeStep,
    DisplayedParticles, GuiBufferLength, MapUpdateTime, MaxReadings,
    DataLen, Undefined, MaxPairs, MaxSolves,
    MaxScanBeams, SegmentBeams,
    Width, Height, Unknown, MaxCount, MaxMapBeams

VARIABLES
    part,                                                        \* the part that moves
    read, tf_, s_queue, draining, laser_count_, got_first_scan_,
    trajectory, got_map_, last_map_update, cells, outside,
    given, dropped,                                              \* of SlamGMapping
    gui, step, readings, mapTimer, eventBuffer, running, events,
    history, done, deleted, ancestors,                           \* of GridSlamProcessorThread
    now_pos, last_pos, m_prevLDP, odom_increments, odom_pos_cal,
    rows, now_len, received, calibrated, used,                   \* of OdomCalibration
    scan_step, beamNumber, valid, corrections, next_beam,
    start_time, start_index, visual_cloud_,                      \* of LidarMotionUndistortion
    pMap, beams                                                  \* of OccupancyMapping

nodeVars == <<read, tf_, s_queue, draining, laser_count_, got_first_scan_, trajectory,
              got_map_, last_map_update, cells, outside, given, dropped>>
viewerVars == <<gui, step, readings, mapTimer, eventBuffer, running, events, history, done,
                deleted, ancestors>>
calibVars == <<now_pos, last_pos, m_prevLDP, odom_increments, odom_pos_cal, rows, now_len,
               received, calibrated, used>>
scanVars == <<scan_step, beamNumber, valid, corrections, next_beam, start_time, start_index,
              visual_cloud_>>
mapVars == <<pMap, beams>>

\* How many scans may wait, how many beams a scan may have, and how many take 5 ms; how many
\* increments the system of the calibration has room for; how many events the display keeps;
\* the size of the map and what a cell counts at first and at most.
ASSUME SizesAssumption ==
    /\ QueueSize \in Nat /\ MaxScanBeams \in Nat /\ SegmentBeams \in Nat
    /\ DataLen \in Nat \ {0} /\ GuiBufferLength \in Nat
    /\ Width \in Nat /\ Height \in Nat /\ Unknown \in Nat /\ MaxCount \in Nat

Node == INSTANCE SlamGMapping WITH MaxScans <- MaxBagScans,
                                   xmin <- 1, xmax <- 2

Viewer == INSTANCE GridSlamProcessorThread WITH
              NumParticles <- DisplayedParticles, read <- readings, dropped <- deleted

\* The odometer drifts; the robot goes forward, sideways and backward, and turns.
Pose(x, y, theta) == [x |-> x, y |-> y, theta |-> theta]
Calibration == INSTANCE OdomCalibration WITH
                   MaxScans <- MaxPairs,
                   World <- {[odom |-> Pose(0, 0, 0), true |-> Pose(0, 0, 0)],
                             [odom |-> Pose(2, 0, 1), true |-> Pose(2, 1, 1)],
                             [odom |-> Pose(2, -1, 1), true |-> Pose(2, 0, 1)],
                             [odom |-> Pose(1, 2, 2), true |-> Pose(0, 2, 2)]}

Undistortion == INSTANCE LidarMotionUndistortion WITH
                    MaxBeams <- MaxScanBeams, step <- scan_step, next <- next_beam

Occupancy == INSTANCE OccupancyMapping WITH
                 Outside <- {<<-1, 0>>}, MaxBeams <- MaxMapBeams

Parts == {"filter", "node", "viewer", "calibration", "undistortion", "occupancy"}

PackagesInit ==
    /\ part \in Parts
    /\ Init /\ Node!Init /\ Viewer!Init /\ Calibration!Init /\ Undistortion!Init
    /\ Occupancy!SetMapParams
    /\ part # "viewer" => gui

FilterNext ==
    /\ part = "filter" /\ Next
    /\ UNCHANGED <<part, nodeVars, viewerVars, calibVars, scanVars, mapVars>>

NodeNext ==
    /\ part = "node" /\ Node!Next
    /\ UNCHANGED <<part, vars, viewerVars, calibVars, scanVars, mapVars>>

ViewerNext ==
    /\ part = "viewer" /\ Viewer!Next
    /\ UNCHANGED <<part, vars, nodeVars, calibVars, scanVars, mapVars>>

CalibrationNext ==
    /\ part = "calibration" /\ Calibration!Next
    /\ UNCHANGED <<part, vars, nodeVars, viewerVars, scanVars, mapVars>>

UndistortionNext ==
    /\ part = "undistortion" /\ Undistortion!Next
    /\ UNCHANGED <<part, vars, nodeVars, viewerVars, calibVars, mapVars>>

OccupancyNext ==
    /\ part = "occupancy" /\ Occupancy!Next
    /\ UNCHANGED <<part, vars, nodeVars, viewerVars, calibVars, scanVars>>

PackagesNext == \/ FilterNext
                \/ NodeNext
                \/ ViewerNext
                \/ CalibrationNext
                \/ UndistortionNext
                \/ OccupancyNext

PackagesSpec ==
    PackagesInit /\ [][PackagesNext]_<<part, vars, nodeVars, viewerVars, calibVars, scanVars,
                                       mapVars>>
-----------------------------------------------------------------------------
\* startReplay: scans reach the mapper in the order of the bag, each at most once, and
\* only a scan as old as the queue is long is given up.
ReplayInOrder == part = "node" => Node!ReplayInOrder

\* drawFromMemory: what the display draws is what the filter did, as far back as the
\* events have been kept, and the end of the filter is not missed.
ViewerTrue == part = "viewer" => Viewer!ViewerTrue

\* scanCallBack: each row of the calibration is about two scans, the same in both halves.
RowsPaired == part = "calibration" => Calibration!RowsPaired

\* Lidar_Calibration: each beam is corrected with the pose of its own time, and when a pose
\* is missing the beams before are, and no other.
BeamsInTime == part = "undistortion" => Undistortion!BeamsInTime

\* OccupanyMapping: a cell counts the beams that have passed it and those that have hit it.
BeamsCounted == Occupancy!BeamsCounted
=============================================================================

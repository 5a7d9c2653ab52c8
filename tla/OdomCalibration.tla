-------------------------- MODULE OdomCalibration --------------------------
(***************************************************************************)
(* The calibration node (Scan2 in main.cpp, OdomCalib): every scan that    *)
(* comes far enough from the last one used adds three rows to the system   *)
(* A x = b, what the odometer says the robot did to A and what scan        *)
(* matching says to b.  A pair of scans is matched to the true relative    *)
(* pose of the two, or not at all; lengths are in units of the least       *)
(* distance that counts, angles in quarter turns.                          *)
(***************************************************************************)
EXTENDS Integers, Sequences

CONSTANTS
    DataLen,   \* Set_data_len(12000): rows of A and b, by threes
    World,     \* the poses of the robot, as the odometer and as the laser have them
    Undefined, \* what an uninitialized vector holds
    MaxScans,  \* bound: scans received
    MaxSolves  \* bound: calls of CalibFlagCallBack

VARIABLES
    now_pos, last_pos,
    m_prevLDP,          \* the true pose of the scan kept, NoScan before there is one
    odom_increments,
    odom_pos_cal,
    rows,               \* A and b: for each three rows the two increments
    now_len,
    received,
    calibrated,         \* history: the last position of the paths published, and of how
                        \* many increments
    used                \* history: the poses of the scans used

calibVars == <<now_pos, last_pos, m_prevLDP, odom_increments, odom_pos_cal, rows, now_len,
               received, calibrated, used>>

\* Poses on an integer grid, headings in quarter turns: their arithmetic is exact.
Origin == [x |-> 0, y |-> 0, theta |-> 0]

Cos(theta) == IF theta % 4 = 0 THEN 1 ELSE IF theta % 4 = 2 THEN -1 ELSE 0
Sin(theta) == Cos(theta - 1)

\* atan2, in (-2, 2].
Normalized(theta) == LET t == theta % 4 IN IF t = 3 THEN -1 ELSE t

\* A step taken in the frame of a pose.
Plus(pose, step) ==
    [x |-> pose.x + Cos(pose.theta) * step.x - Sin(pose.theta) * step.y,
     y |-> pose.y + Sin(pose.theta) * step.x + Cos(pose.theta) * step.y,
     theta |-> pose.theta + step.theta]

\* The pose now in the frame of the pose before.
Relative(before, now) ==
    LET dx == now.x - before.x
        dy == now.y - before.y
    IN  [x |-> Cos(before.theta) * dx + Sin(before.theta) * dy,
         y |-> Cos(before.theta) * dy - Sin(before.theta) * dx,
         theta |-> Normalized(now.theta - before.theta)]

NoScan == <<>>
NoRow == [odom |-> Origin, scan |-> Origin]

Init == /\ now_pos = Origin /\ last_pos = Origin
        /\ m_prevLDP = NoScan
        /\ odom_increments = <<>> /\ odom_pos_cal = Origin
        /\ rows = [k \in 0..DataLen - 1 |-> NoRow] /\ now_len = 0
        /\ received = 0
        /\ calibrated = <<>>
        /\ used = <<>>
-----------------------------------------------------------------------------
\* No coordinate is compared by its size: a robot that goes backwards has not moved.
TooClose(step) == step.x < 1 /\ step.y < 1 /\ step.theta < 1

\* The transform of a scan is missing.
SkipScan == UNCHANGED <<now_pos, last_pos, m_prevLDP, odom_increments, odom_pos_cal, rows,
                        now_len, calibrated, used>>

\* Mutant: every scan becomes the one to compare the next with.
PassOverMoving(odom) ==
    /\ now_pos' = odom /\ last_pos' = odom
    /\ UNCHANGED <<m_prevLDP, odom_increments, odom_pos_cal, rows, now_len, calibrated, used>>

\* A scan too close to the last one used leaves no trace but now_pos.
PassOver(odom) ==
    /\ now_pos' = odom
    /\ UNCHANGED <<last_pos, m_prevLDP, odom_increments, odom_pos_cal, rows, now_len,
                   calibrated, used>>

\* OdomCalib::Add_Data
AddData(odom, scan) ==
    /\ rows' = [rows EXCEPT ![now_len % DataLen] = [odom |-> odom, scan |-> scan]]
    /\ now_len' = now_len + 1

\* PIICPBetweenTwoFrames: when matching fails the increment of the odometer is taken for
\* that of the laser.
MatchedIncrements(true, step) == {Relative(m_prevLDP, true), step}

\* The first scan is only kept and d_point_scan is added as it is.
UseScan(odom, true) ==
    LET step == Relative(last_pos, odom)
    IN  /\ now_pos' = odom /\ last_pos' = odom
        /\ odom_increments' = Append(odom_increments, step)
        /\ odom_pos_cal' = Plus(odom_pos_cal, step)
        /\ m_prevLDP' = true
        /\ IF m_prevLDP = NoScan THEN AddData(step, Undefined)
           ELSE \E scan \in MatchedIncrements(true, step) : AddData(step, scan)
        /\ used' = Append(used, [odom |-> odom, true |-> true])
        /\ UNCHANGED calibrated

ScanCallBack ==
    /\ received < MaxScans
    /\ received' = received + 1
    /\ \/ SkipScan
       \/ \E pose \in World :
            IF TooClose(Relative(last_pos, pose.odom)) THEN PassOver(pose.odom)
            ELSE UseScan(pose.odom, pose.true)

\* The path that is published, here with the correction the solver finds for perfect
\* odometry.  The subscription is given up, but the filter still hands over the scans it
\* holds, and the flag may be given again.
Path(increments) ==
    LET pose[k \in 0..Len(increments)] ==
            IF k = 0 THEN Origin ELSE Plus(pose[k - 1], increments[k])
    IN  pose[Len(increments)]

CalibFlagCallBack ==
    /\ Len(calibrated) < MaxSolves
    /\ calibrated' = Append(calibrated, [last |-> Path(odom_increments),
                                         increments |-> Len(odom_increments)])
    /\ UNCHANGED <<now_pos, last_pos, m_prevLDP, odom_increments, odom_pos_cal, rows, now_len,
                   received, used>>

Next == ScanCallBack \/ CalibFlagCallBack

Spec == Init /\ [][Next]_calibVars
-----------------------------------------------------------------------------
\* The newest increments in A and b, the last DataLen of them.
InRows == {k \in DOMAIN used : k > Len(used) - DataLen}

SamePlace(p, q) == p.x = q.x /\ p.y = q.y /\ Normalized(p.theta) = Normalized(q.theta)

\* The odometer at scan k of those used.
OdometerAt(k) == IF k = 0 THEN Origin ELSE used[k].odom

\* The two halves of a row are about the same two scans, however many were passed over
\* between them and whether or not they could be matched: what the odometer says the
\* robot did from the last scan used to this one, and what the laser says.  The first
\* row is not a measurement.  The increments lead to where the odometer was.
RowsPaired ==
    /\ now_len = Len(used) /\ Len(odom_increments) = Len(used)
    /\ \A k \in InRows \ {1} :
         LET row == rows[(k - 1) % DataLen]
             odom == Relative(used[k - 1].odom, used[k].odom)
         IN  /\ row.odom = odom
             /\ row.scan \in {odom, Relative(used[k - 1].true, used[k].true)}
    /\ SamePlace(odom_pos_cal, OdometerAt(Len(used)))
    /\ \A k \in DOMAIN calibrated :
         SamePlace(calibrated[k].last, OdometerAt(calibrated[k].increments))
=============================================================================

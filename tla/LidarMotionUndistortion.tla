---------------------- MODULE LidarMotionUndistortion ----------------------
(***************************************************************************)
(* LidarMotionCalibrator: the beams of a scan are brought into the frame   *)
(* of its first beam, segment by segment, taking the laser to move evenly  *)
(* from the pose at the start of a segment to that at its end.  Times are  *)
(* counted in beams.  What a beam has become is the sequence of the        *)
(* corrections made to it in place, each with the poses it is interpolated *)
(* from.  Every lookup of a pose may fail.                                 *)
(***************************************************************************)
EXTENDS Integers, Sequences, FiniteSets

CONSTANTS
    MaxBeams,     \* bound: beams of a scan message
    SegmentBeams  \* how many beams take 5 ms

VARIABLES
    step,         \* what ScanCallBack does next
    beamNumber,   \* of the scan in work
    valid,        \* its beams with a usable range
    corrections,  \* what has been done to each beam
    next,         \* i of the loop
    start_time, start_index,
    visual_cloud_ \* the corrected scan, once it is shown

undistortionVars == <<step, beamNumber, valid, corrections, next, start_time, start_index,
                      visual_cloud_>>

NotShown == [corrections |-> <<>>, valid |-> {}, complete |-> TRUE]

Beams == 0..beamNumber - 1

Init == /\ step = "wait"
        /\ beamNumber = 0 /\ valid = {} /\ corrections = <<>>
        /\ next = 0 /\ start_time = 0 /\ start_index = 0
        /\ visual_cloud_ = NotShown
-----------------------------------------------------------------------------
\* ScanCallBack copies the beams but the first; one too short or infinite gets range 0.
\* Without the pose of the first beam it returns at once, which leaves no trace.
ScanCallBack ==
    /\ step = "wait"
    /\ \E n \in 0..MaxBeams :
         LET copied == IF n = 0 THEN 0 ELSE n - 1
         IN  /\ beamNumber' = copied
             /\ valid' \in SUBSET (0..copied - 1)
             /\ corrections' = [i \in 0..copied - 1 |-> <<>>]
    /\ step' = "poses"
    /\ next' = 0 /\ start_time' = 0 /\ start_index' = 0
    /\ visual_cloud_' = NotShown

\* The scan is shown as it is, the corrections finished or not.
Show(complete) ==
    /\ step' = "wait"
    /\ visual_cloud_' = [corrections |-> corrections', valid |-> valid,
                         complete |-> complete]

\* Lidar_Calibration looks the poses of the start and of the end up.
GetStartAndEndPose ==
    /\ step = "poses"
    /\ UNCHANGED <<beamNumber, valid, corrections, next, start_time, start_index>>
    /\ \/ Show(FALSE)
       \/ beamNumber = 0 /\ Show(TRUE)
       \/ beamNumber > 0 /\ step' = "segments" /\ UNCHANGED visual_cloud_

\* The time of beam i, counted from the start of the segment.
MidTime(i) == start_time + (i - start_index)

\* The beam the loop stops at: the first one beyond 5 ms, or the last one.
SegmentEnd ==
    CHOOSE i \in next..beamNumber - 1 :
       /\ MidTime(i) - start_time > SegmentBeams \/ i = beamNumber - 1
       /\ \A j \in next..i - 1 : MidTime(j) - start_time <= SegmentBeams

\* Mutant: the last beam of the segment is left to the next one.
BeamsBefore(i) == i - start_index

\* interp_count
BeamsUpTo(i) == i - start_index + 1

\* Lidar_MotionCalibration: beam k of n is given the pose k / (n - 1) of the way; with one
\* beam only that is no number.  A beam without a range has its angle turned into the
\* frame of the segment.
Correction(k, n, end_time, frame) ==
    [from |-> start_time, to |-> end_time, frame |-> frame,
     steps |-> k, of |-> n - 1]

MotionCalibration(n, end_time) ==
    [i \in Beams |->
        IF i \in start_index..start_index + n - 1
        THEN Append(corrections[i], Correction(i - start_index, n, end_time,
                                               IF i \in valid THEN 0 ELSE start_time))
        ELSE corrections[i]]

CorrectSegment ==
    /\ step = "segments"
    /\ LET i == SegmentEnd
       IN  \/ \* "Mid Pose Error"
              /\ UNCHANGED <<corrections, next, start_time, start_index>>
              /\ Show(FALSE)
           \/ /\ corrections' = MotionCalibration(BeamsUpTo(i), MidTime(i))
              /\ start_time' = MidTime(i)
              /\ start_index' = i
              /\ next' = i + 1
              /\ IF i = beamNumber - 1 THEN Show(TRUE) ELSE UNCHANGED <<step, visual_cloud_>>
    /\ UNCHANGED <<beamNumber, valid>>

Next == ScanCallBack \/ GetStartAndEndPose \/ CorrectSegment

Spec == Init /\ [][Next]_undistortionVars
-----------------------------------------------------------------------------
\* The pose a correction takes is that of the time of beam i, on a segment of at most
\* 5 ms and one beam that has this beam in it.
InTime(c, i) ==
    /\ c.of * i = c.of * c.from + c.steps * (c.to - c.from)
    /\ c.from <= i /\ i <= c.to
    /\ c.to - c.from <= SegmentBeams + 1

\* A scan is corrected from its first beam on, in the end or when a pose was missing; each
\* beam with the pose of its own time.  Two segments share a beam, and that one, but no
\* other, is corrected twice; so no beam is ever left out between two segments.  The only
\* scan without a defined result has one beam left.
BeamsInTime ==
    LET shown == visual_cloud_
        beams == DOMAIN shown.corrections
        done == {i \in beams : shown.corrections[i] # <<>>}
    IN  /\ shown.complete => done = beams
        /\ \A i \in done, j \in beams : j < i => j \in done
        /\ \A i \in done :
             LET made == shown.corrections[i]
             IN  /\ Len(made) <= 2
                 /\ \A k \in DOMAIN made :
                      /\ InTime(made[k], i)
                      /\ made[k].of = 0 => Cardinality(beams) = 1
                      /\ i \in shown.valid => made[k].frame = 0
                 /\ Len(made) = 2 => made[1].to = i /\ made[2].from = i
                 /\ Len(made) = 1 =>
                      /\ i = 0 \/ made[1].from < i
                      /\ made[1].to > i \/ i + 1 \notin done
=============================================================================

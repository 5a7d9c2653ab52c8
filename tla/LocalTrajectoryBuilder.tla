----------------------- MODULE LocalTrajectoryBuilder -----------------------
(***************************************************************************)
(* mapping_2d::LocalTrajectoryBuilder behind HandleCollatedSensorData: the *)
(* sorted IMU, odometry and range data of one trajectory become a pose     *)
(* estimate and submaps.  The velocity and the orientation the IMU tracker *)
(* holds are data: while time passes they may move the pose anywhere, at   *)
(* one time they may turn it, and scan matching may return any pose.       *)
(***************************************************************************)
EXTENDS Submaps

CONSTANT MaxSubmaps  \* bound: submaps of the trajectory

(* What happens to the submaps of one trajectory, whatever the data: Spec,  *)
(* which the builder implements.  The pose graph keeps pointers to submaps  *)
(* and its workers read finished ones without a lock.                       *)

ASSUME MaxSubmapsAssumption == MaxSubmaps \in Nat \ {0}

VARIABLE submaps

Init == submaps = InitialSubmaps

AddRangeData == /\ Len(submaps) < MaxSubmaps
                /\ submaps' = InsertRangeData(submaps)

Next == AddRangeData

Spec == Init /\ [][Next]_submaps
-----------------------------------------------------------------------------
\* No submap ever gets more range data than promised.
TypeOK == submaps \in Seq(Submap)

\* mapping/submaps.h: except during initialization there are two submaps into
\* which range data is inserted, an old one for matching, which already has
\* num_range_data of them, and a new one; all before them are finished and
\* hold twice that number: first while initialized, then while matched.
OldAndNew ==
    LET n == Len(submaps)
    IN  /\ n >= 1
        /\ \A i \in 1..n - 2 :
              submaps[i] = [num_range_data |-> 2 * NumRangeData, finished |-> TRUE]
        /\ n > 1 => submaps[n - 1] =
              [num_range_data |-> NumRangeData + submaps[n].num_range_data,
               finished |-> FALSE]
        /\ submaps[n].num_range_data < NumRangeData
        /\ ~submaps[n].finished

\* mapping/submaps.h: a finished submap will not change anymore, however long
\* the trajectory goes on; a scan matcher may be built over it without a lock.
FinishedIsFinal ==
    [][\A i \in DOMAIN submaps :
          submaps[i].finished => i \in DOMAIN submaps' /\ submaps'[i] = submaps[i]]_submaps
-----------------------------------------------------------------------------
CONSTANTS
    Rigid,             \* transform::Rigid3d, a group
    Identity,
    Compose(_, _),     \* a * b
    InverseOf(_),
    Turns,             \* the rotations about the tracking frame
    UseImuData,        \* options_.use_imu_data()
    NumOdometryStates, \* options_.num_odometry_states()
    MaxTime            \* bound: times of the data

ASSUME GroupAssumption ==
    /\ Identity \in Rigid
    /\ Turns \subseteq Rigid
    /\ \A a \in Rigid : /\ InverseOf(a) \in Rigid
                        /\ Compose(a, InverseOf(a)) = Identity
                        /\ Compose(InverseOf(a), a) = Identity
                        /\ Compose(a, Identity) = a
                        /\ Compose(Identity, a) = a
    /\ \A a, b \in Rigid : Compose(a, b) \in Rigid
    /\ \A a, b, c \in Rigid : Compose(Compose(a, b), c) = Compose(a, Compose(b, c))

ASSUME OptionsAssumption ==
    /\ UseImuData \in BOOLEAN
    /\ NumOdometryStates \in Nat \ {0}
    /\ MaxTime \in Nat

TimeMin == 0  \* common::Time::min(), before all data
NoTracker == -1
NoAnchor == [pose |-> Identity, odometer_pose |-> Identity]
OdometryState == [time : 1..MaxTime, odometer_pose : Rigid, state_pose : Rigid]

VARIABLES
    time_,               \* of the last datum that was used
    imu_tracker_,        \* its time_, or NoTracker
    pose_estimate_,
    odometry_correction_,
    odometry_states_,    \* the OdometryStateTracker
    num_total_,          \* of the motion filter, capped at 1
    lead,                \* history: motion predicted since the last odometer reading
    anchor               \* history: the last pose matched, moved back to the
                         \* last odometer reading before it, and that reading

localVars == <<time_, imu_tracker_, pose_estimate_, odometry_correction_,
               odometry_states_, num_total_, lead, anchor>>

LocalInit == /\ Init
             /\ time_ = TimeMin
             /\ imu_tracker_ = NoTracker
             /\ pose_estimate_ = Identity
             /\ odometry_correction_ = Identity
             /\ odometry_states_ = <<>>
             /\ num_total_ = 0
             /\ lead = Identity
             /\ anchor = NoAnchor
-----------------------------------------------------------------------------
Newest(states) == states[Len(states)]

\* OdometryStateTracker::AddOdometryState
AddOdometryState(states, state) ==
    IF Len(states) < NumOdometryStates THEN Append(states, state)
                                       ELSE Append(Tail(states), state)

\* The clocks after InitializeImuTracker, where it may be called, and Predict.
Advance(time) == /\ time_' = time
                 /\ imu_tracker_' = time

\* The poses Predict may come to at time: when no time passes it still takes roll and
\* pitch anew from the IMU tracker.
Predictions(time) ==
    IF time_ = TimeMin THEN {pose_estimate_}
    ELSE IF time > time_ THEN Rigid
    ELSE {Compose(pose_estimate_, turn) : turn \in Turns}

\* What has been predicted since the odometer was read, with the estimate now
\* predicted to be pose.
LeadAt(pose) ==
    IF odometry_states_ = <<>> THEN Identity
    ELSE Compose(Compose(pose, InverseOf(pose_estimate_)), lead)

AddImuData(time) ==
    /\ UseImuData
    /\ Advance(time)
    /\ pose_estimate_' \in Predictions(time)
    /\ lead' = LeadAt(pose_estimate_')
    /\ UNCHANGED <<odometry_correction_, odometry_states_, num_total_, anchor, submaps>>

\* Mutant: the odometry moves the predicted pose, not the last odometry state.
CorrectionFromEstimate(pose, odometer_pose) ==
    IF odometry_states_ = <<>> THEN odometry_correction_
    ELSE Compose(InverseOf(Newest(odometry_states_).odometer_pose), odometer_pose)

\* The correction that takes pose to where the odometry says the robot is.
CorrectionTo(pose, odometer_pose) ==
    IF odometry_states_ = <<>> THEN odometry_correction_
    ELSE LET previous == Newest(odometry_states_)
             delta == Compose(InverseOf(previous.odometer_pose), odometer_pose)
         IN  Compose(InverseOf(pose), Compose(previous.state_pose, delta))

AddOdometerData(time, odometer_pose) ==
    /\ imu_tracker_ # NoTracker
    /\ Advance(time)
    /\ \E pose \in Predictions(time) :
         LET correction == CorrectionTo(pose, odometer_pose)
             state == Compose(pose, correction)
         IN  /\ pose_estimate_' = pose
             /\ odometry_correction_' = correction
             /\ odometry_states_' = AddOdometryState(odometry_states_,
                    [time |-> time, odometer_pose |-> odometer_pose,
                     state_pose |-> state])
             /\ anchor' = IF odometry_states_ = <<>>
                          THEN [pose |-> state, odometer_pose |-> odometer_pose]
                          ELSE anchor
             /\ lead' = Identity
    /\ UNCHANGED <<num_total_, submaps>>

\* Until the IMU tracker is there odometry and range data are ignored.
IgnoreData == /\ imu_tracker_ = NoTracker
              /\ UNCHANGED <<localVars, submaps>>

\* All returns were filtered out: the pose has been predicted, no more.
DropEmptyRangeData(predicted) ==
    /\ pose_estimate_' = predicted
    /\ lead' = LeadAt(predicted)
    /\ UNCHANGED <<odometry_correction_, odometry_states_, num_total_, anchor, submaps>>

\* MotionFilter::IsSimilar, then the insertion.  Time and motion since the
\* last pose that passed are data; the first pose always passes.
InsertUnlessSimilar ==
    /\ num_total_' = 1
    /\ \/ num_total_ > 0 /\ UNCHANGED submaps
       \/ AddRangeData

\* An odometry state is added so that the next odometry does not take the
\* correction back.
CorrectOdometryState(time, prediction, estimate) ==
    odometry_states_' =
        IF odometry_states_ = <<>> THEN <<>>
        ELSE AddOdometryState(odometry_states_,
                [Newest(odometry_states_) EXCEPT
                    !.time = time,
                    !.state_pose = Compose(Compose(@, InverseOf(prediction)), estimate)])

MatchRangeData(time, predicted, estimate) ==
    LET prediction == Compose(predicted, odometry_correction_)
    IN  /\ pose_estimate_' = estimate
        /\ odometry_correction_' = Identity
        /\ CorrectOdometryState(time, prediction, estimate)
        /\ lead' = LeadAt(predicted)
        /\ anchor' = IF odometry_states_ = <<>> THEN anchor
                     ELSE [pose |-> Compose(InverseOf(LeadAt(predicted)), estimate),
                           odometer_pose |-> Newest(odometry_states_).odometer_pose]
        /\ InsertUnlessSimilar

AddRangefinderData(time) ==
    /\ imu_tracker_ # NoTracker \/ ~UseImuData
    /\ Advance(time)
    /\ \E predicted \in Predictions(time) :
         \/ DropEmptyRangeData(predicted)
         \/ \E estimate \in Rigid : MatchRangeData(time, predicted, estimate)

\* The collator delivers the data of one trajectory sorted by time.
LocalNext ==
    \/ IgnoreData
    \/ \E time \in 1..MaxTime :
         /\ time >= time_
         /\ \/ AddImuData(time)
            \/ \E odometer_pose \in Rigid : AddOdometerData(time, odometer_pose)
            \/ AddRangefinderData(time)

LocalSpec == LocalInit /\ [][LocalNext]_<<localVars, submaps>>
-----------------------------------------------------------------------------
BuilderTypeOK ==
    /\ time_ \in TimeMin..MaxTime
    /\ IF time_ = TimeMin THEN imu_tracker_ = NoTracker ELSE imu_tracker_ = time_
    /\ pose_estimate_ \in Rigid /\ odometry_correction_ \in Rigid
    /\ odometry_states_ \in Seq(OdometryState)
    /\ Len(odometry_states_) <= NumOdometryStates
    /\ num_total_ \in 0..1
    /\ lead \in Rigid
    /\ anchor \in [pose : Rigid, odometer_pose : Rigid]

\* The builder's clock and the IMU tracker's are one: where Predict's CHECK on
\* the time of the data holds, the one in ImuTracker::Advance holds too.
LocalTypeOK == TypeOK /\ BuilderTypeOK

\* local_trajectory_builder.cc:142: the correction from scan matching is not
\* removed by the odometry data that follow.  However many come, with range
\* data dropped and time passing in between, the newest odometry state is the
\* matched pose moved by exactly what the odometer has reported since.
CorrectionKept ==
    odometry_states_ # <<>> =>
        LET newest == Newest(odometry_states_)
        IN  newest.state_pose =
                Compose(anchor.pose, Compose(InverseOf(anchor.odometer_pose),
                                             newest.odometer_pose))

\* Scan matching leaves the prediction where the odometry says it is: the
\* newest odometry state, moved by what was predicted since the odometer was read.
StateFollowsEstimate ==
    odometry_states_ # <<>> =>
        Compose(pose_estimate_, odometry_correction_)
            = Compose(lead, Newest(odometry_states_).state_pose)
=============================================================================

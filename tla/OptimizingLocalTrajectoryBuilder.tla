------------------ MODULE OptimizingLocalTrajectoryBuilder ------------------
(***************************************************************************)
(* mapping_3d::OptimizingLocalTrajectoryBuilder: range data are batched up *)
(* and the poses of a batch are optimized with the IMU and odometer data   *)
(* between them.  Only the sensor data that the batches may need are kept. *)
(* What the solver makes of them is data; which data it is given is not.   *)
(* A rotation or velocity delta is the set of IMU data it integrates, each *)
(* over the interval for which it is taken; an odometer pose looked up is  *)
(* the set of the data it is interpolated from.  Data are known by their   *)
(* times: no sensor delivers two data of one time.                         *)
(***************************************************************************)
EXTENDS Submaps, ImuIntegration

CONSTANTS
    ScansPerAccumulation,  \* options_.scans_per_accumulation()
    OptimizeEvery,         \* 10 in MaybeOptimize
    MaxTime,               \* bound: times of the data
    MaxScans               \* bound: range data

VARIABLES
    now,               \* time of the last datum
    batches_,          \* times and numbers of the range data
    imu_data_, odometer_data_,
    num_accumulated_,
    submaps,
    failed,            \* a CHECK has failed, or batches_.back() had nothing to return
    accumulated,       \* history: the scans of each accumulated range data
    recorded,          \* history: all IMU and odometer data, the number of range
                       \* data, and how many of them came before the IMU data
    integrated,        \* history: what the last range data made IntegrateImu return
    looked_up          \* history: the constraints from the odometer it led to (made), and
                       \* those that all the odometer data ever added lead to (due)

vars == <<now, batches_, imu_data_, odometer_data_, num_accumulated_, submaps, failed,
          accumulated, recorded, integrated, looked_up>>

NoConstraints == [made |-> {}, due |-> {}]

Init == /\ now = 1
        /\ batches_ = <<>> /\ imu_data_ = <<>> /\ odometer_data_ = <<>>
        /\ num_accumulated_ = 0
        /\ submaps = InitialSubmaps
        /\ failed = FALSE
        /\ accumulated = <<>>
        /\ recorded = [imu |-> <<>>, odometer |-> <<>>, scans |-> 0, early |-> 0]
        /\ integrated = {} /\ looked_up = NoConstraints
-----------------------------------------------------------------------------
Front(s) == s[1]
Back(s) == s[Len(s)]

\* Mutant: a datum is obsolete as soon as the next one is there.
PopWhileNewer(data, batches) ==
    IF Len(data) > 1 THEN SubSeq(data, Len(data) - 1, Len(data)) ELSE data

\* Data are popped while the one behind them is not newer than the batches, so that
\* the first one is the newest of those.
PopObsolete(data, batches) ==
    LET Obsolete(k) == batches = <<>> \/ data[k + 1] <= Front(batches).time
        popped == CHOOSE k \in 0..Len(data) - 1 :
                     /\ \A j \in 1..k : Obsolete(j)
                     /\ k < Len(data) - 1 => ~Obsolete(k + 1)
    IN  IF data = <<>> THEN data ELSE SubSeq(data, popped + 1, Len(data))

NewestBatches(batches) ==
    IF Len(batches) > ScansPerAccumulation
    THEN SubSeq(batches, Len(batches) - ScansPerAccumulation + 1, Len(batches))
    ELSE batches

\* Mutant: the odometer data are discarded with the IMU data.
KeepNoOdometry(batches, imu, odometer) ==
    /\ batches_' = IF imu = <<>> THEN <<>> ELSE NewestBatches(batches)
    /\ imu_data_' = IF imu = <<>> THEN imu ELSE PopObsolete(imu, NewestBatches(batches))
    /\ odometer_data_' = IF Len(odometer) > 1 THEN <<Back(odometer)>> ELSE odometer

\* RemoveObsoleteSensorData, with the data as they are after something was added.
Keep(batches, imu, odometer) ==
    IF imu = <<>> THEN /\ batches_' = <<>>
                       /\ imu_data_' = imu
                       /\ odometer_data_' = odometer
    ELSE LET kept == NewestBatches(batches)
         IN  /\ batches_' = kept
             /\ imu_data_' = PopObsolete(imu, kept)
             /\ odometer_data_' = PopObsolete(odometer, kept)

AddImuData(time) ==
    /\ recorded.imu # <<>> => time > Back(recorded.imu)
    /\ Keep(batches_, Append(imu_data_, time), odometer_data_)
    /\ recorded' = [recorded EXCEPT !.imu = Append(@, time)]
    /\ UNCHANGED <<num_accumulated_, submaps, failed, accumulated, integrated, looked_up>>

AddOdometerData(time) ==
    /\ recorded.odometer # <<>> => time > Back(recorded.odometer)
    /\ Keep(batches_, imu_data_, Append(odometer_data_, time))
    /\ recorded' = [recorded EXCEPT !.odometer = Append(@, time)]
    /\ UNCHANGED <<num_accumulated_, submaps, failed, accumulated, integrated, looked_up>>
-----------------------------------------------------------------------------
\* PredictState: the newest datum not after start, searched from the back.
PredictFrom(data, start) ==
    IF data[1] > start THEN 0
    ELSE CHOOSE k \in DOMAIN data : /\ data[k] <= start
                                    /\ k < Len(data) => data[k + 1] > start

\* MaybeOptimize integrates from batch to batch with one iterator: its[i] is where it
\* is before the step from batch i.
Iterators(data, batches) ==
    LET its[i \in DOMAIN batches] ==
            IF i = 1 THEN 1
            ELSE Advanced(data, its[i - 1], batches[i - 1].time, batches[i].time)
    IN  its

\* Mutant: the iterator stays at the first datum.
IteratorsReset(data, batches) == [i \in DOMAIN batches |-> 1]

\* TransformInterpolationBuffer::Lookup
Lookup(data, time) ==
    IF \E k \in DOMAIN data : data[k] = time THEN {time}
    ELSE {data[k] : k \in {j \in DOMAIN data :
            \/ data[j] < time /\ data[j + 1] > time
            \/ data[j] > time /\ data[j - 1] < time}}

\* The pairs of successive batches with bracketing data from the odometer.
OdometerConstraints(data, batches) ==
    IF Len(data) <= 1 THEN {}
    ELSE {[start |-> batches[i - 1].time, end |-> batches[i].time,
           from |-> Lookup(data, batches[i - 1].time),
           to |-> Lookup(data, batches[i].time)] :
            i \in {j \in 2..Len(batches) : /\ Front(data) <= batches[j - 1].time
                                           /\ batches[j].time <= Back(data)}}
-----------------------------------------------------------------------------
\* AddAccumulatedRangeData: all returns may be filtered out, the motion filter may
\* pass the pose over, or the range data goes into the submaps.
AddAccumulatedRangeData ==
    \/ UNCHANGED submaps
    \/ submaps' = InsertRangeData(submaps)

\* MaybeOptimize, with the batches and data that are kept.  The states of the batches
\* are taken to the frame of the submap and back.
MaybeOptimize(batches, imu, odometer, num, prediction) ==
    LET its == Iterators(imu, batches)
        steps == 2..Len(batches)
        Start(i) == batches[i - 1].time
        End(i) == batches[i].time
    IN  IF num < ScansPerAccumulation /\ num % OptimizeEvery # 0
        THEN /\ integrated' = prediction
             /\ looked_up' = NoConstraints
             /\ num_accumulated_' = num
             /\ UNCHANGED <<submaps, failed, accumulated>>
        ELSE /\ failed' = \/ num >= ScansPerAccumulation /\ batches = <<>>
                          \/ \E i \in steps :
                               ~CanIntegrate(imu, its[i - 1], Start(i), End(i))
             /\ integrated' = IF failed' THEN prediction
                              ELSE prediction \cup
                                   {Integration(imu, its[i - 1], Start(i), End(i)) : i \in steps}
             /\ looked_up' = [made |-> OdometerConstraints(odometer, batches),
                               due |-> OdometerConstraints(recorded.odometer, batches)]
             /\ IF num < ScansPerAccumulation \/ failed'
                THEN num_accumulated_' = num /\ UNCHANGED <<submaps, accumulated>>
                ELSE /\ num_accumulated_' = 0
                     /\ accumulated' = Append(accumulated,
                                              [i \in DOMAIN batches |-> batches[i].scan])
                     /\ AddAccumulatedRangeData

\* The state of a new batch is predicted from the last one, the first is the origin.
Prediction(time) ==
    IF batches_ = <<>> THEN {}
    ELSE LET start == Back(batches_).time
         IN  {Integration(imu_data_, PredictFrom(imu_data_, start), start, time)}

\* The CHECK of PredictState: no datum is as old as the last batch.
CannotPredict == batches_ # <<>> /\ PredictFrom(imu_data_, Back(batches_).time) = 0

AddRangefinderData(time) ==
    /\ recorded.scans < MaxScans
    /\ recorded' = [recorded EXCEPT !.scans = @ + 1,
                                    !.early = @ + IF recorded.imu = <<>> THEN 1 ELSE 0]
    /\ IF CannotPredict
       THEN /\ failed' = TRUE
            /\ UNCHANGED <<batches_, imu_data_, odometer_data_, num_accumulated_, submaps,
                           accumulated, integrated, looked_up>>
       ELSE /\ Keep(Append(batches_, [time |-> time, scan |-> recorded.scans + 1]),
                    imu_data_, odometer_data_)
            /\ MaybeOptimize(batches_', imu_data_', odometer_data_', num_accumulated_ + 1,
                             Prediction(time))

Next == \E time \in now..MaxTime :
            /\ ~failed
            /\ now' = time
            /\ \/ AddImuData(time)
               \/ AddOdometerData(time)
               \/ AddRangefinderData(time)

Spec == Init /\ [][Next]_vars
-----------------------------------------------------------------------------
\* What was measured between start and end: each IMU datum is taken until the next.
Measured(start, end) ==
    {piece \in [imu : {recorded.imu[k] : k \in DOMAIN recorded.imu},
                from : start..end, to : start..end] :
        /\ piece.from < piece.to
        /\ \E k \in DOMAIN recorded.imu :
             /\ piece.imu = recorded.imu[k]
             /\ piece.from = Later(start, recorded.imu[k])
             /\ piece.to = IF k < Len(recorded.imu) THEN Earlier(end, recorded.imu[k + 1])
                                                    ELSE end}

\* Every accumulated range data has the scans since the one before, each one once and
\* all but those that came before the IMU data; the builder can only fail when these
\* alone make an accumulation (NeverFails).
ScansAccumulated ==
    /\ failed => recorded.early >= ScansPerAccumulation
    /\ \A k \in DOMAIN accumulated :
         accumulated[k] =
           LET first == Later((k - 1) * ScansPerAccumulation, recorded.early)
           IN  [i \in 1..k * ScansPerAccumulation - first |-> first + i]

\* Discarding old data is not seen: poses are predicted and optimized with exactly the
\* IMU data measured between the batches, and with every constraint that all the odometer
\* data would give, of the same data.  Only between batches of one time may it be missing.
NothingNeededDiscarded ==
    /\ \A step \in integrated : step.pieces = Measured(step.start, step.end)
    /\ looked_up.made \subseteq looked_up.due
    /\ \A step \in looked_up.due : step.start < step.end => step \in looked_up.made

BatchesExact == ScansAccumulated /\ NothingNeededDiscarded

\* optimizing_local_trajectory_builder.cc:174, "First rangefinder data ever. Initialize to the
\* origin.": the range data are always batched up, and no CHECK fails.
NeverFails == ~failed
=============================================================================

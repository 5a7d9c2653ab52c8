--------------------------- MODULE ImuIntegration ---------------------------
(***************************************************************************)
(* IntegrateImu (mapping_3d/imu_integration.h).  The data are known by     *)
(* their times, no two of one time; the result of an integration is which  *)
(* of them it takes from when to when.                                     *)
(***************************************************************************)
EXTENDS Integers, Sequences

Earlier(s, t) == IF s <= t THEN s ELSE t
Later(s, t) == IF s >= t THEN s ELSE t

\* Where the iterator is after IntegrateImu from data[it] to the time end.
Advanced(data, it, start, end) ==
    IF start = end THEN it
    ELSE CHOOSE k \in it..Len(data) :
            /\ \A j \in it + 1..k : data[j] <= end
            /\ k < Len(data) => data[k + 1] > end

\* The data IntegrateImu takes, each from its own time to that of the next.
Integral(data, it, start, end) ==
    {piece \in [imu : {data[k] : k \in it..Len(data)}, from : start..end, to : start..end] :
        /\ piece.from < piece.to
        /\ \E k \in it..Advanced(data, it, start, end) :
             /\ piece.imu = data[k]
             /\ piece.from = Later(start, data[k])
             /\ piece.to = IF k < Len(data) THEN Earlier(end, data[k + 1]) ELSE end}

\* The CHECKs of IntegrateImu.
CanIntegrate(data, it, start, end) ==
    /\ start <= end
    /\ it \in DOMAIN data
    /\ data[it] <= start
    /\ it < Len(data) => data[it + 1] > start

Integration(data, it, start, end) ==
    [start |-> start, end |-> end, pieces |-> Integral(data, it, start, end)]
=============================================================================

---------------------------- MODULE SlamGMapping ----------------------------
(***************************************************************************)
(* SlamGMapping replaying a bag: scans wait until the transform of their   *)
(* time can be looked up, laserCallback gives them to the particle filter, *)
(* and updateMap draws the trajectory of the best particle into a map to   *)
(* publish.  Scans are numbered, and stamped, as they come in the bag; the *)
(* world is a line of cells.                                               *)
(***************************************************************************)
EXTENDS Integers, Sequences, FiniteSets

CONSTANTS
    MaxScans,           \* in the bag
    QueueSize,          \* scans kept waiting, 5 in the code
    ThrottleScans,      \* throttle_scans_
    MapUpdateInterval,  \* map_update_interval_
    World,              \* the cells a scan may end in
    EnlargeStep,        \* cells a map grows beyond what is to be drawn
    xmin, xmax          \* the cells of the first map, as configured

VARIABLES
    read,             \* scans read from the bag
    tf_,              \* [from, to]: the stamps that can be looked up
    s_queue,
    draining,         \* the loop over s_queue is running
    laser_count_,
    got_first_scan_,
    trajectory,       \* of the best particle: the scans and the cell each one reaches
    got_map_,
    last_map_update,
    cells,            \* [xmin_, xmax_]
    outside,          \* assert(0) in Map::cell has failed
    given,            \* history: the scans given to laserCallback
    dropped           \* history: the scans dropped from s_queue

queueVars == <<read, tf_, s_queue, draining, given, dropped>>
mapVars == <<got_map_, last_map_update, cells, outside>>
vars == <<queueVars, laser_count_, got_first_scan_, trajectory, mapVars>>

Init == /\ read = 0
        /\ tf_ = [from |-> 1, to |-> 0]
        /\ s_queue = <<>>
        /\ draining = FALSE
        /\ laser_count_ = 0
        /\ got_first_scan_ = FALSE
        /\ trajectory = <<>>
        /\ got_map_ = FALSE
        /\ last_map_update = 0
        /\ cells = [lo |-> xmin, hi |-> xmax]
        /\ outside = FALSE
        /\ given = <<>>
        /\ dropped = {}
-----------------------------------------------------------------------------
\* tf keeps the transforms of a limited time, so that old ones may go.
ReadTransforms ==
    /\ ~draining /\ ~outside
    /\ \E from \in tf_.from..MaxScans, to \in tf_.to..MaxScans :
         /\ to > tf_.to
         /\ tf_' = [from |-> from, to |-> to]
    /\ draining' = TRUE
    /\ UNCHANGED <<read, s_queue, laser_count_, got_first_scan_, trajectory, mapVars,
                   given, dropped>>

\* Mutant: the newest scan is dropped.
NewestDropped(queue) ==
    IF Len(queue) > QueueSize THEN SubSeq(queue, 1, QueueSize) ELSE queue

Shortened(queue) == IF Len(queue) > QueueSize THEN Tail(queue) ELSE queue

\* A scan without a stamp is not queued.
ReadScan ==
    /\ ~draining /\ ~outside
    /\ read < MaxScans
    /\ read' = read + 1
    /\ \E pushed \in {s_queue, Append(s_queue, read + 1)} :
         /\ s_queue' = Shortened(pushed)
         /\ dropped' = dropped \cup ({pushed[i] : i \in DOMAIN pushed} \
                                     {s_queue'[i] : i \in DOMAIN s_queue'})
    /\ draining' = TRUE
    /\ UNCHANGED <<tf_, laser_count_, got_first_scan_, trajectory, mapVars, given>>

\* The ends of a map resized to hold cell x.
Grown(ends, x) ==
    [lo |-> IF x < ends.lo THEN x - EnlargeStep ELSE ends.lo,
     hi |-> IF x > ends.hi THEN x + EnlargeStep ELSE ends.hi]

\* updateMap: the active area is computed, and the map resized, for the newest scan
\* only; the others are drawn as they are.
UpdateMap(scan, drawn) ==
    /\ cells' = Grown(cells, drawn[Len(drawn)].cell)
    /\ outside' = \E i \in DOMAIN drawn : drawn[i].cell \notin cells'.lo..cells'.hi
    /\ got_map_' = TRUE
    /\ last_map_update' = scan

\* addScan and what follows: the pose cannot be had, the count of the beams is wrong
\* or the filter passes the scan over, or it is processed.
AddScan(scan) ==
    /\ got_first_scan_' = TRUE
    /\ \/ UNCHANGED <<trajectory, mapVars>>
       \/ \E x \in World :
            /\ trajectory' = Append(trajectory, [scan |-> scan, cell |-> x])
            /\ IF ~got_map_ \/ scan - last_map_update > MapUpdateInterval
               THEN UpdateMap(scan, trajectory')
               ELSE UNCHANGED mapVars

\* With throttle_scans_ = n every n-th scan is used; initMapper may fail until it
\* first succeeds.
LaserCallback(scan) ==
    /\ laser_count_' = laser_count_ + 1
    /\ \/ /\ laser_count_' % ThrottleScans # 0 \/ ~got_first_scan_
          /\ UNCHANGED <<got_first_scan_, trajectory, mapVars>>
       \/ /\ laser_count_' % ThrottleScans = 0
          /\ AddScan(scan)

CanLookUp(scan) == scan \in tf_.from..tf_.to

ProcessFront ==
    /\ draining /\ ~outside
    /\ s_queue # <<>>
    /\ CanLookUp(Head(s_queue))
    /\ LaserCallback(Head(s_queue))
    /\ s_queue' = Tail(s_queue)
    /\ given' = Append(given, Head(s_queue))
    /\ UNCHANGED <<read, tf_, draining, dropped>>

StopDraining ==
    /\ draining /\ ~outside
    /\ s_queue # <<>> => ~CanLookUp(Head(s_queue))
    /\ draining' = FALSE
    /\ UNCHANGED <<read, tf_, s_queue, laser_count_, got_first_scan_, trajectory, mapVars,
                   given, dropped>>

Next == ReadTransforms \/ ReadScan \/ ProcessFront \/ StopDraining

Spec == Init /\ [][Next]_vars
-----------------------------------------------------------------------------
\* The mapper is given the scans of the bag in order and each at most once, and
\* a scan is given up only for as many newer ones as may wait (startReplay, "only
\* process the latest 5 scans").
ReplayInOrder ==
    /\ \A i, j \in DOMAIN given : i < j => given[i] < given[j]
    /\ \A i \in DOMAIN given, j \in DOMAIN s_queue : given[i] < s_queue[j]
    /\ \A d \in dropped :
         /\ \A i \in DOMAIN given : given[i] # d
         /\ read - d >= QueueSize
    /\ Len(s_queue) <= QueueSize

\* Every cell that updateMap draws is inside the map: Map::cell asserts it ("this
\* will never happend").
DrawnInside == ~outside
=============================================================================

---------------------------- MODULE DetectFloors ----------------------------
(***************************************************************************)
(* mapping::DetectFloors: the nodes of a trajectory are cut into spans     *)
(* where their altitude jumps, spans of similar altitude form a level, and *)
(* the levels in which the robot has gone some way are the floors.  Spans  *)
(* too short to be a floor are stairs, and belong to the floors before and *)
(* after them.                                                             *)
(*                                                                         *)
(* Altitudes are in steps of half a meter and nodes are numbered from 0.   *)
(* A failed CHECK, or reading a node that is not there, ends the program.  *)
(***************************************************************************)
EXTENDS Integers, Sequences, FiniteSets, SequencesExt

CONSTANT Trajectories  \* sequences of nodes, with z and the distance d from the one before

VARIABLES nodes,       \* the trajectory
          floors,      \* <<>> before they are detected
          detected, failed

floorVars == <<nodes, floors, detected, failed>>

kMaxShortSpanLengthMeters == 25
kLevelHeight == 5             \* kLevelHeightMeters, in steps
kMinLevelSeparation == 2      \* kMinLevelSeparationMeters, in steps

Distance(a, b) == IF a < b THEN b - a ELSE a - b

Sorted(s) == SortSeq(s, LAMBDA a, b : a < b)
Median(s) == Sorted(s)[Len(s) \div 2 + 1]

Node(i) == nodes[i + 1]

Init == /\ nodes \in Trajectories
        /\ floors = <<>>
        /\ detected = FALSE
        /\ failed = FALSE
-----------------------------------------------------------------------------
\* The first span does not count its first node before another is added.
SliceByAltitudeChange ==
    LET Add(spans, i) ==
            LET z == Node(i).z
                jump == Distance(Median(Last(spans).z_values), z) > kLevelHeight
                new == IF jump
                       THEN Append(spans, [start_index |-> i, end_index |-> i, z_values |-> <<>>])
                       ELSE spans
            IN  [new EXCEPT ![Len(new)].z_values = Append(@, z),
                            ![Len(new)].end_index = i + 1]
    IN  FoldLeft(Add, << [start_index |-> 0, end_index |-> 0, z_values |-> <<Node(0).z>>] >>,
                 [i \in 1..Len(nodes) - 1 |-> i])

SpanLength(span) ==
    FoldLeft(LAMBDA sum, i : IF span.start_index < i /\ i < span.end_index
                             THEN sum + Node(i).d ELSE sum,
             0, [i \in 1..Len(nodes) |-> i])

IsShort(span) == SpanLength(span) < kMaxShortSpanLengthMeters

LevelFind(levels, i) ==
    LET find[k \in DOMAIN levels] == IF levels[k] = k THEN k ELSE find[levels[k]]
    IN  find[i]

\* Mutant: the span itself is linked, not what stands for its level.
LinkSpan(levels, i, j) == [levels EXCEPT ![i] = LevelFind(levels, j)]

LevelUnion(levels, i, j) == [levels EXCEPT ![LevelFind(levels, i)] = LevelFind(levels, j)]

Similar(a, b) == Distance(Median(a.z_values), Median(b.z_values)) < kMinLevelSeparation

GroupSegmentsByAltitude(spans) ==
    LET n == Len(spans)
        \* The pairs i < j in the order of the loops.
        pairs == SelectSeq([k \in 1..n * n |-> <<((k - 1) \div n) + 1, ((k - 1) % n) + 1>>],
                           LAMBDA p : p[1] < p[2] /\ Similar(spans[p[1]], spans[p[2]]))
    IN  FoldLeft(LAMBDA levels, p : LevelUnion(levels, p[1], p[2]), [i \in 1..n |-> i], pairs)

\* The spans of each level: the long ones, then one short span after the other.
LevelSpans(spans, levels) ==
    LET n == Len(spans)
        Long(level) == {i \in 1..n : ~IsShort(spans[i]) /\ LevelFind(levels, i) = level}
        Place(level_spans, i) ==
            LET level == LevelFind(levels, i)
                around == {LevelFind(levels, j) : j \in {i - 1, i + 1} \cap 1..n}
                places == IF level_spans[level] # {} THEN {level} ELSE around
            IN  [l \in 1..n |-> IF l \in places THEN level_spans[l] \cup {i}
                                                ELSE level_spans[l]]
    IN  FoldLeft(Place, [level \in 1..n |-> Long(level)],
                 SelectSeq([i \in 1..n |-> i], LAMBDA i : IsShort(spans[i])))

\* The spans of a floor, its nodes, and the altitudes of its long spans.
Floor(spans, members) ==
    LET long == SelectSeq([i \in DOMAIN spans |-> i],
                          LAMBDA i : i \in members /\ ~IsShort(spans[i]))
    IN  [z_values |-> FlattenSeq([k \in DOMAIN long |-> spans[long[k]].z_values]),
         timespans |-> {<<spans[i].start_index, spans[i].end_index - 1>> : i \in members}]

FindFloors(spans, levels) ==
    LET level_spans == LevelSpans(spans, levels)
        found == SelectSeq([l \in DOMAIN spans |-> level_spans[l]], LAMBDA members : members # {})
    IN  [k \in DOMAIN found |-> Floor(spans, found[k])]

\* Median has a CHECK, and node(-1) does not exist.
Fails(found) ==
    \E k \in DOMAIN found : \/ found[k].z_values = <<>>
                            \/ \E t \in found[k].timespans : t[2] < 0

DetectFloors ==
    /\ ~detected
    /\ LET spans == SliceByAltitudeChange
           found == FindFloors(spans, GroupSegmentsByAltitude(spans))
       IN  /\ failed' = Fails(found)
           /\ floors' = IF Fails(found) THEN <<>>
                        ELSE SortSeq([k \in DOMAIN found |->
                                        [z |-> Median(found[k].z_values),
                                         timespans |-> found[k].timespans]],
                                     LAMBDA a, b : a.z < b.z)
    /\ detected' = TRUE
    /\ UNCHANGED nodes

Next == DetectFloors

Spec == Init /\ [][Next]_floorVars
-----------------------------------------------------------------------------
\* Two altitudes are on one level when those in between leave no gap of a meter.
OneLevel(a, b, altitudes) ==
    \A c \in altitudes : \A d \in altitudes :
        /\ a <= c /\ c < d /\ d <= b
        /\ \A e \in altitudes : e <= c \/ d <= e
        => d - c < kMinLevelSeparation

\* detect_floors.cc:95-101: spans are on one floor exactly when their altitudes are, long
\* spans are on one floor only, and short ones on their own, if it has a long one;
\* every node of a trajectory that changes its altitude is on some floor, and the floors
\* are numbered from the lowest.
FloorsExact ==
    detected /\ ~failed =>
        LET spans == SliceByAltitudeChange
            Z(i) == Median(spans[i].z_values)
            altitudes == {Z(i) : i \in DOMAIN spans}
            OnOneLevel(i, j) == OneLevel(Z(i), Z(j), altitudes) /\ OneLevel(Z(j), Z(i), altitudes)
            Long == {i \in DOMAIN spans : ~IsShort(spans[i])}
            FloorsOf(i) == {k \in DOMAIN floors :
                              <<spans[i].start_index, spans[i].end_index - 1>>
                                \in floors[k].timespans}
        IN  /\ \A i \in Long : Cardinality(FloorsOf(i)) = 1
            /\ \A i, j \in Long : OnOneLevel(i, j) <=> FloorsOf(i) = FloorsOf(j)
            /\ \A i \in DOMAIN spans, j \in Long : OnOneLevel(i, j) => FloorsOf(i) = FloorsOf(j)
            /\ Len(spans) > 1 => \A i \in DOMAIN spans : FloorsOf(i) # {}
            /\ \A k \in 1..Len(floors) - 1 : floors[k].z <= floors[k + 1].z
=============================================================================

-------------------------- MODULE OccupancyMapping --------------------------
(***************************************************************************)
(* occupany_mapping: a map of counts from scans with known poses.  Each    *)
(* beam lowers the cells the laser has passed (TraceLine) and raises the   *)
(* cell it has hit.  GridIndexToLinearIndex lacks its return: a build      *)
(* without optimization, the one the package configures, still returns     *)
(* linear_index, and that is what is taken here.                           *)
(***************************************************************************)
EXTENDS Integers, Sequences

CONSTANTS
    Width, Height,      \* mapParams
    Unknown, MaxCount,  \* 50 and 100
    Outside,            \* indices beyond the map that beams may start or end in
    MaxBeams            \* bound: beams inserted

VARIABLES
    pMap,
    beams  \* history: the beams in their order

occupancyVars == <<pMap, beams>>

LogFree == -1
LogOcc == 2

Cells == (0..Width - 1) \X (0..Height - 1)

SetMapParams == /\ pMap = [cell \in Cells |-> Unknown]
                /\ beams = <<>>
-----------------------------------------------------------------------------
Abs(a) == IF a < 0 THEN -a ELSE a
Swapped(cell) == <<cell[2], cell[1]>>

Steep(from, to) == Abs(to[2] - from[2]) > Abs(to[1] - from[1])

\* The two ends as TraceLine goes from one to the other: along x, upwards.
Ends(from, to) ==
    LET p == IF Steep(from, to) THEN Swapped(from) ELSE from
        q == IF Steep(from, to) THEN Swapped(to) ELSE to
    IN  IF p[1] > q[1] THEN <<q, p>> ELSE <<p, q>>

DeltaX(from, to) == Ends(from, to)[2][1] - Ends(from, to)[1][1]
DeltaY(from, to) == Abs(Ends(from, to)[2][2] - Ends(from, to)[1][2])
YStep(from, to) == IF Ends(from, to)[1][2] < Ends(from, to)[2][2] THEN 1 ELSE -1

\* The end that is left out is (x1, y1) as the swaps have left it.
Pushed(points, point, from, to) ==
    IF point = Ends(from, to)[2] THEN points ELSE Append(points, point)

PointAt(x, y, from, to) == IF Steep(from, to) THEN <<y, x>> ELSE <<x, y>>

\* Mutant: y is changed one column later.
StepLate(line, x, from, to) ==
    LET up == 2 * line.error >= DeltaX(from, to)
    IN  [y |-> IF up THEN line.y + YStep(from, to) ELSE line.y,
         error |-> line.error + DeltaY(from, to) - IF up THEN DeltaX(from, to) ELSE 0,
         points |-> Pushed(line.points, PointAt(x, line.y, from, to), from, to)]

\* A point for every x, and y for the next one.
Step(line, x, from, to) ==
    LET error == line.error + DeltaY(from, to)
        up == 2 * error >= DeltaX(from, to)
    IN  [y |-> IF up THEN line.y + YStep(from, to) ELSE line.y,
         error |-> IF up THEN error - DeltaX(from, to) ELSE error,
         points |-> Pushed(line.points, PointAt(x, line.y, from, to), from, to)]

TraceLine(from, to) ==
    LET start == Ends(from, to)[1]
        line[n \in 0..DeltaX(from, to) + 1] ==
            IF n = 0 THEN [y |-> start[2], error |-> 0, points |-> <<>>]
            ELSE Step(line[n - 1], start[1] + n - 1, from, to)
    IN  line[DeltaX(from, to) + 1].points

Lower(map, cell) ==
    [map EXCEPT ![cell] = IF @ + LogFree < 0 THEN 0 ELSE @ + LogFree]

Raise(map, cell) ==
    [map EXCEPT ![cell] = IF @ + LogOcc > MaxCount THEN MaxCount ELSE @ + LogOcc]

\* The loop over freeIndex.
Passed(map, points) ==
    LET passed[k \in 0..Len(points)] ==
            IF k = 0 THEN map ELSE Lower(passed[k - 1], points[k])
    IN  passed[Len(points)]

\* A beam of OccupanyMapping; one that leaves the map is passed over.
InsertBeam ==
    /\ Len(beams) < MaxBeams
    /\ \E from, to \in Cells \cup Outside :
         /\ pMap' = IF from \in Cells /\ to \in Cells
                    THEN Raise(Passed(pMap, TraceLine(from, to)), to)
                    ELSE pMap
         /\ beams' = Append(beams, <<from, to>>)

Next == InsertBeam

Spec == SetMapParams /\ [][Next]_occupancyVars
-----------------------------------------------------------------------------
\* The cells of a line: in each column, or row of a steep one, the cell that is nearest,
\* and of two the one farther from the lower end.
OnLine(from, to, cell) ==
    LET ends == Ends(from, to)
        p == IF Steep(from, to) THEN Swapped(cell) ELSE cell
        width == ends[2][1] - ends[1][1]
        height == ends[2][2] - ends[1][2]
        \* the distance of p from the line, times 2 * width, away from the first end
        off == 2 * (p[2] - ends[1][2]) * width - 2 * (p[1] - ends[1][1]) * height
        along == IF height > 0 THEN off ELSE -off
    IN  /\ ends[1][1] <= p[1] /\ p[1] <= ends[2][1]
        /\ IF width = 0 THEN p = ends[1] ELSE -width < along /\ along <= width

\* What a beam makes of n at a cell it passes, hits or leaves out.
Heard(n, beam, cell, left) ==
    LET passed == IF OnLine(beam[1], beam[2], cell) /\ cell \notin left /\ n > 0
                  THEN n - 1 ELSE n
    IN  IF beam[2] # cell THEN passed
        ELSE IF passed + 2 > MaxCount THEN MaxCount ELSE passed + 2

GoesRight(beam) == ~Steep(beam[1], beam[2]) /\ beam[1][1] <= beam[2][1]

\* A beam is counted once by every cell it has passed on the straight line, and once by the
\* one it has hit.  At most one cell of the line is left out; of a beam that goes right it is
\* the one hit, as of every beam it should be (HitLeftOut).
Counted(before, after, beam) ==
    IF beam[1] \in Cells /\ beam[2] \in Cells
    THEN \E left \in {{}} \cup {{cell} : cell \in Cells} :
           /\ GoesRight(beam) => left = {beam[2]}
           /\ \A cell \in Cells : after[cell] = Heard(before[cell], beam, cell, left)
    ELSE after = before

BeamsCounted ==
    [][\E n \in DOMAIN beams' \ DOMAIN beams :
         Counted(pMap, pMap', beams'[n])]_occupancyVars

\* occupany_mapping.cpp:13, "//不包含(x1,y1)": what TraceLine gives is without the last point,
\* the cell that has been hit.
HitLeftOut ==
    \A n \in DOMAIN beams :
      LET line == TraceLine(beams[n][1], beams[n][2])
      IN  \A k \in DOMAIN line : line[k] # beams[n][2]
=============================================================================

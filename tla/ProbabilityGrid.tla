-------------------------- MODULE ProbabilityGrid --------------------------
(***************************************************************************)
(* The probability grid of one submap: RangeDataInserter::Insert until     *)
(* Submaps::FinishSubmap crops it.  What the odds do to a probability is   *)
(* data: the value of a cell is the sequence of the tables applied to it.  *)
(***************************************************************************)
EXTENDS Integers, Sequences, FiniteSets, SequencesExt

CONSTANTS
    Scale,                 \* kSubpixelScale: subpixels to a pixel, along each axis
    NumXCells, NumYCells,  \* of the limits of the submap
    Origins, Ends,         \* subpixels the range data come from and end in
    InsertFreeSpace,       \* options_.insert_free_space()
    MaxReturns, MaxMisses, \* bounds: of one range data
    MaxInsertions          \* bound: range data inserted

VARIABLES
    grid,     \* probability_grid: its cells, update_indices_ and bounds
    finished, \* finished_probability_grid is set
    offset,   \* history: the pixel that cropping made the first
    inserted  \* history: the range data inserted

gridVars == <<grid, finished, offset, inserted>>
-----------------------------------------------------------------------------
(* mapping_2d::CastRays: the pixels in which some part of the line from    *)
(* the origin to a return lies.  Points are given in subpixels.            *)

Pixel(p) == [x |-> p.x \div Scale, y |-> p.y \div Scale]

Lesser(a, b) == IF a < b THEN a ELSE b
Greater(a, b) == IF a < b THEN b ELSE a

\* Mutant: a line through the corner of four pixels is not moved on diagonally.
ClimbOnly(sub_y, y, dy, denominator) == [sub_y |-> sub_y, y |-> y]

\* At the border to the next column: a line that meets it at a corner also changes
\* the row.
AtBorder(sub_y, y, dy, denominator) ==
    CASE dy > 0 /\ sub_y = denominator -> [sub_y |-> 0, y |-> y + 1]
      [] dy <= 0 /\ sub_y = 0 -> [sub_y |-> denominator, y |-> y - 1]
      [] OTHER -> [sub_y |-> sub_y, y |-> y]

\* The pixels of column x passed from row y on, and where the line then is.
Climb(from_sub_y, x, from_y, dy, denominator) ==
    LET climb[sub_y \in Int, y \in Int] ==
            LET rest == CASE dy > 0 /\ sub_y > denominator ->
                               climb[sub_y - denominator, y + 1]
                          [] dy <= 0 /\ sub_y < 0 ->
                               climb[sub_y + denominator, y - 1]
                          [] OTHER -> [seen |-> <<>>, sub_y |-> sub_y, y |-> y]
            IN  [rest EXCEPT !.seen = <<[x |-> x, y |-> y]>> \o @]
    IN  climb[from_sub_y, from_y]

\* The loop over the columns from the first to that of end, sub_y being at the right
\* border of column x.
Columns(first_sub_y, first_x, first_y, end, dy, dx) ==
    LET denominator == 2 * Scale * dx
        columns[sub_y \in Int, x \in Int, y \in Int] ==
            LET here == Climb(sub_y, x, y, dy, denominator)
                on == AtBorder(here.sub_y, here.y, dy, denominator)
                last == Climb(on.sub_y + dy * (2 * (end.x % Scale) + 1), x + 1, on.y, dy,
                              denominator)
            IN  IF x + 1 = end.x \div Scale
                THEN [last EXCEPT !.seen = here.seen \o @]
                ELSE LET rest == columns[on.sub_y + dy * 2 * Scale, x + 1, on.y]
                     IN  [rest EXCEPT !.seen = here.seen \o @]
    IN  columns[first_sub_y, first_x, first_y]

\* CastRay: the pixels visited in turn, and whether its CHECKs hold.
CastRay(from, to) ==
    LET begin == IF from.x > to.x THEN to ELSE from
        end == IF from.x > to.x THEN from ELSE to
        column == Pixel(begin).x
        low == Lesser(begin.y, end.y) \div Scale
        high == Greater(begin.y, end.y) \div Scale
        dx == end.x - begin.x
        dy == end.y - begin.y
        first == 2 * Scale - 2 * (begin.x % Scale) - 1
        line == Columns((2 * (begin.y % Scale) + 1) * dx + dy * first,
                        column, Pixel(begin).y, end, dy, dx)
    IN  IF column = Pixel(end).x
        THEN [seen |-> [i \in 1..(high - low + 1) |-> [x |-> column, y |-> low + i - 1]],
              checked |-> TRUE]
        ELSE [seen |-> line.seen,
              checked |-> /\ line.sub_y # (IF dy > 0 THEN 2 * Scale * dx ELSE 0)
                          /\ line.y = Pixel(end).y]
-----------------------------------------------------------------------------
\* Whether the line between the centers of the subpixels from and to passes through
\* the inside of pixel p.  In halves of a subpixel: centers are odd, borders even.
Passes(from, to, p) ==
    LET a == IF from.x > to.x THEN to ELSE from
        b == IF from.x > to.x THEN from ELSE to
        left == Greater(2 * a.x + 1, 2 * Scale * p.x)
        right == Lesser(2 * b.x + 1, 2 * Scale * (p.x + 1))
        dx == 2 * (b.x - a.x)
        dy == 2 * (b.y - a.y)
        \* the height of the line at x, times dx
        At(x) == (2 * a.y + 1) * dx + dy * (x - (2 * a.x + 1))
        bottom == 2 * Scale * p.y
        top == 2 * Scale * (p.y + 1)
    IN  IF dx = 0
        THEN /\ Pixel(a).x = p.x
             /\ 2 * Lesser(a.y, b.y) + 1 < top
             /\ 2 * Greater(a.y, b.y) + 1 > bottom
        ELSE /\ left < right
             /\ Lesser(At(left), At(right)) < top * dx
             /\ Greater(At(left), At(right)) > bottom * dx

\* What was cast visits the pixels the line passes through, each once.
VisitsLine(from, to, cast) ==
    /\ cast.checked
    /\ \A i, j \in DOMAIN cast.seen : cast.seen[i] = cast.seen[j] => i = j
    /\ {cast.seen[i] : i \in DOMAIN cast.seen} =
         {p \in [x : Lesser(from.x, to.x) \div Scale..Greater(from.x, to.x) \div Scale,
                 y : Lesser(from.y, to.y) \div Scale - 1..
                     Greater(from.y, to.y) \div Scale + 1] : Passes(from, to, p)}
-----------------------------------------------------------------------------
Cells(x, y) == [x : 0..x - 1, y : 0..y - 1]
Origin == [x |-> 0, y |-> 0]

\* The constructor of ProbabilityGrid: no cell is known.
NewGrid(x, y) ==
    [cells |-> [p \in Cells(x, y) |-> [marked |-> 0, odds |-> <<>>]],
     update_indices |-> <<>>,
     min |-> [x |-> x - 1, y |-> y - 1],
     max |-> Origin]

Init == /\ grid = NewGrid(NumXCells, NumYCells)
        /\ finished = FALSE
        /\ offset = Origin
        /\ inserted = <<>>
-----------------------------------------------------------------------------
\* The update marker is subtracted from every cell in update_indices_.
StartUpdate(g) ==
    [g EXCEPT !.cells = FoldLeft(LAMBDA cells, p : [cells EXCEPT ![p].marked = @ - 1],
                                 @, g.update_indices),
              !.update_indices = <<>>]

UpdateBounds(g, p) ==
    [g EXCEPT !.min = [x |-> Lesser(@.x, p.x), y |-> Lesser(@.y, p.y)],
              !.max = [x |-> Greater(@.x, p.x), y |-> Greater(@.y, p.y)]]

\* Mutant: a cell already updated is updated again.
ApplyAgain(g, p, table) ==
    UpdateBounds([g EXCEPT !.cells[p] = [marked |-> 1, odds |-> Append(@.odds, table)],
                           !.update_indices = Append(@, p)], p)

\* A cell already updated is left alone until the next StartUpdate.
ApplyLookupTable(g, p, table) ==
    IF g.cells[p].marked > 0 THEN g
    ELSE UpdateBounds([g EXCEPT !.cells[p] = [marked |-> 1, odds |-> Append(@.odds, table)],
                                !.update_indices = Append(@, p)], p)

ApplyAll(g, pixels, table) ==
    FoldLeft(LAMBDA h, p : ApplyLookupTable(h, p, table), g, pixels)

\* CastRays: the hits, then the misses on the way to them, then those of the rays
\* that met nothing.
Insert(g, range_data) ==
    LET hits == [i \in DOMAIN range_data.returns |-> Pixel(range_data.returns[i])]
        ends == range_data.returns \o range_data.misses
        misses == [i \in DOMAIN ends |-> CastRay(range_data.origin, ends[i]).seen]
        hit == ApplyAll(StartUpdate(g), hits, "hit")
    IN  IF InsertFreeSpace THEN ApplyAll(hit, FlattenSeq(misses), "miss") ELSE hit

\* The size of what ComputeCroppedLimits leaves.
CroppedLimits(g) ==
    [x |-> Greater(g.max.x, g.min.x) - g.min.x + 1,
     y |-> Greater(g.max.y, g.min.y) - g.min.y + 1]

\* ComputeCroppedProbabilityGrid: probabilities are copied, update markers are not.
Cropped(g) ==
    LET limits == CroppedLimits(g)
        From(p) == g.cells[[x |-> p.x + g.min.x, y |-> p.y + g.min.y]]
        known == {p \in Cells(limits.x, limits.y) : From(p).odds # <<>>}
        bounded == FoldSet(LAMBDA p, h : UpdateBounds(h, p),
                           NewGrid(limits.x, limits.y), known)
    IN  [bounded EXCEPT !.cells = [p \in DOMAIN @ |-> [@[p] EXCEPT !.odds = From(p).odds]]]

Sequences(S, least, most) == UNION {[1..n -> S] : n \in least..most}

RangeData == [origin : Origins,
              returns : Sequences(Ends, 1, MaxReturns),
              misses : Sequences(Ends, 0, MaxMisses)]

InsertRangeData ==
    /\ ~finished
    /\ Len(inserted) < MaxInsertions
    /\ \E range_data \in RangeData :
         /\ grid' = Insert(grid, range_data)
         /\ inserted' = Append(inserted, range_data)
    /\ UNCHANGED <<finished, offset>>

\* A submap has had range data when it is finished.
FinishSubmap ==
    /\ ~finished
    /\ inserted # <<>>
    /\ grid' = Cropped(grid)
    /\ finished' = TRUE
    /\ offset' = grid.min
    /\ UNCHANGED inserted

Next == InsertRangeData \/ FinishSubmap

Spec == Init /\ [][Next]_gridVars
-----------------------------------------------------------------------------
\* What one range data says of pixel p of the uncropped grid.
Says(range_data, p) ==
    CASE \E i \in DOMAIN range_data.returns : Pixel(range_data.returns[i]) = p -> <<"hit">>
      [] OTHER -> IF /\ InsertFreeSpace
                     /\ \E e \in Range(range_data.returns \o range_data.misses) :
                          Passes(range_data.origin, e, p)
                  THEN <<"miss">>
                  ELSE <<>>

Evidence(p) == FlattenSeq([i \in DOMAIN inserted |-> Says(inserted[i], p)])

Within(p, low, high) == p.x \in low.x..high.x /\ p.y \in low.y..high.y

\* Each range data changes a cell at most once and a hit has priority over every miss
\* in the same cell (range_data_inserter.cc:58), whichever rays cross and whether or
\* not the grid has been cropped since; no cell that is known is cropped away, none is
\* copied with its update marker, and the bounds are those of the known cells.
EvidenceOnce ==
    LET known == {p \in DOMAIN grid.cells : grid.cells[p].odds # <<>>}
        In(p) == [x |-> p.x - offset.x, y |-> p.y - offset.y]
    IN  /\ \A p \in Cells(NumXCells, NumYCells) :
             Evidence(p) = IF In(p) \in DOMAIN grid.cells THEN grid.cells[In(p)].odds
                                                          ELSE <<>>
        /\ \A p \in DOMAIN grid.cells :
             grid.cells[p].marked = IF p \in Range(grid.update_indices) THEN 1 ELSE 0
        /\ IsInjective(grid.update_indices)
        /\ \A p \in known : Within(p, grid.min, grid.max)
        /\ known # {} => \E p, q, r, s \in known : /\ grid.min = [x |-> p.x, y |-> q.y]
                                                   /\ grid.max = [x |-> r.x, y |-> s.y]
        /\ finished => DOMAIN grid.cells = Cells(grid.max.x + 1, grid.max.y + 1)
=============================================================================

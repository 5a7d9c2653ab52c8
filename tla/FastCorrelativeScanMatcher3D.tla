-------------------- MODULE FastCorrelativeScanMatcher3D --------------------
(***************************************************************************)
(* mapping_3d::scan_matching::FastCorrelativeScanMatcher.  Beyond          *)
(* full_resolution_depth the precomputed grids have half the resolution of *)
(* the one before, scans are discretised once for each of them, and the    *)
(* RotationalScanMatcher says which rotations are tried at all.  Grids     *)
(* hold the cells that are known, 0 standing for kMinProbability; scores   *)
(* are sums, all rotations of a scan having as many points.                *)
(***************************************************************************)
EXTENDS Integers, Sequences, FiniteSets, SequencesExt

CONSTANTS
    KnownCells,            \* cells of the submap that may be known
    MaxValue,              \* bound: cell values
    BranchAndBoundDepth,   \* options_.branch_and_bound_depth()
    FullResolutionDepths,  \* options_.full_resolution_depth(), any of these
    Windows,               \* linear_xy_window_size and linear_z_window_size
    Rotations,             \* the sequences of point clouds, rotated by each angle
    MinScores              \* bound: values of min_score

VARIABLES
    precomputation_grids_,  \* <<>> before the matcher is constructed
    full_resolution_depth,  \* of its options
    request,                \* the arguments of the last match
    result                  \* its result

matcherVars == <<precomputation_grids_, full_resolution_depth, request, result>>

Dimensions == 1..3
NoMatch == [found |-> FALSE]
MaxDepth == BranchAndBoundDepth - 1

Most(S) == CHOOSE a \in S : \A b \in S : a >= b
Plus(a, b) == [d \in Dimensions |-> a[d] + b[d]]
Minus(a, b) == [d \in Dimensions |-> a[d] - b[d]]

\* a >> exponent, which rounds down.
ShiftedRight(a, exponent) == [d \in Dimensions |-> a[d] \div 2^exponent]

Init == /\ precomputation_grids_ = <<>>
        /\ full_resolution_depth \in FullResolutionDepths
        /\ request = <<>>
        /\ result = NoMatch
-----------------------------------------------------------------------------
Octants == [Dimensions -> {0, 1}]

GetValue(grid, cell) == IF cell \in DOMAIN grid THEN grid[cell] ELSE 0

\* The maximum of the eight cells that are shift apart, and of the eight that one of half
\* the resolution stands for.
PrecomputeGrid(grid, half_resolution, shift) ==
    LET Target(cell, octant) ==
            ShiftedRight([d \in Dimensions |-> cell[d] - shift * octant[d]],
                         IF half_resolution THEN 1 ELSE 0)
        updates == {<<Target(cell, octant), grid[cell]>> :
                    cell \in DOMAIN grid, octant \in Octants}
    IN  [cell \in {u[1] : u \in updates} |-> Most({u[2] : u \in {v \in updates : v[1] = cell}})]

Exponent(depth) == IF depth < full_resolution_depth THEN 0
                   ELSE depth - full_resolution_depth + 1

\* PrecomputationGridStack: a grid covers twice the width of the one before.
PrecomputationGrids(hybrid_grid) ==
    LET Shift(depth) ==
            LET voxels == 2^(IF depth > full_resolution_depth
                             THEN depth - full_resolution_depth ELSE 0)
            IN  (2^depth - 2^(depth - 1) + voxels - 1) \div voxels
    IN  FoldLeft(LAMBDA grids, depth :
                     Append(grids, PrecomputeGrid(Last(grids), depth >= full_resolution_depth,
                                                  Shift(depth))),
                 <<hybrid_grid>>, [i \in 1..MaxDepth |-> i])

\* The constructor, with any grid.
Construct ==
    /\ precomputation_grids_ = <<>>
    /\ \E hybrid_grid \in [KnownCells -> 0..MaxValue] :
         precomputation_grids_' = PrecomputationGrids(hybrid_grid)
    /\ UNCHANGED <<full_resolution_depth, request, result>>
-----------------------------------------------------------------------------
\* The cells of a scan at every depth.  At half resolution they are counted from the
\* cell the search window starts in.
DiscretizeScan(window, cells) ==
    LET start == <<-window.xy, -window.xy, -window.z>>
        LowResolution(cell, exponent) ==
            Minus(ShiftedRight(Plus(cell, start), exponent), ShiftedRight(start, exponent))
    IN  [k \in 1..BranchAndBoundDepth |->
            [i \in DOMAIN cells |-> LowResolution(cells[i], Exponent(k - 1))]]

ScoreOf(depth, discrete_scan, offset) ==
    FoldLeft(LAMBDA sum, cell : sum + GetValue(precomputation_grids_[depth + 1],
                                               Plus(cell, ShiftedRight(offset, Exponent(depth)))),
             0, discrete_scan[depth + 1])

\* Equal candidates come in any order from std::sort; here in one.
ScoreCandidates(depth, discrete_scans, candidates) ==
    SortSeq([k \in DOMAIN candidates |->
               LET c == candidates[k]
               IN  [c EXCEPT !.score = ScoreOf(depth, discrete_scans[c.scan_index], c.offset)]],
            LAMBDA a, b : a.score > b.score)

Candidate(i, offset) == [scan_index |-> i, offset |-> offset, score |-> 0]

\* All offsets of three sequences, x varying fastest.
Products(i, xs, ys, zs) ==
    FlattenSeq(FlattenSeq([m \in DOMAIN zs |-> [l \in DOMAIN ys |-> [k \in DOMAIN xs |->
        Candidate(i, <<xs[k], ys[l], zs[m]>>)]]]))

GenerateLowestResolutionCandidates(window, num_discrete_scans) ==
    LET step == 2^MaxDepth
        Offsets(w) == [k \in 1..((2 * w + step) \div step) |-> (k - 1) * step - w]
        xy == Offsets(window.xy)
    IN  FlattenSeq([i \in 1..num_discrete_scans |-> Products(i, xy, xy, Offsets(window.z))])

\* The eight parts of a candidate, without those that leave the search window.
Branch(c, half_width, window) ==
    LET Halves(d, w) == SelectSeq(<<c.offset[d], c.offset[d] + half_width>>, LAMBDA o : o <= w)
    IN  Products(c.scan_index, Halves(1, window.xy), Halves(2, window.xy), Halves(3, window.z))

Candidates == [scan_index : Nat, offset : Int \X Int \X Int, score : Nat]

\* Candidates are sorted: the loop stops at the first that cannot be better.
BranchAndBound(window, discrete_scans, lowest, lowest_score) ==
    LET best_of[candidates \in Seq(Candidates), depth \in 0..MaxDepth, min_score \in Nat] ==
            LET Try(best, c) ==
                    LET higher == ScoreCandidates(depth - 1, discrete_scans,
                                                  Branch(c, 2^(depth - 1), window))
                        found == best_of[higher, depth - 1, best.score]
                    IN  IF best.score < found.score THEN found ELSE best
            IN  IF depth = 0 THEN Head(candidates)
                ELSE FoldLeft(Try, [Candidate(1, <<0, 0, 0>>) EXCEPT !.score = min_score],
                              SelectSeq(candidates, LAMBDA c : c.score > min_score))
    IN  best_of[lowest, MaxDepth, lowest_score]

MatchWithSearchParameters(window, scans, min_score) ==
    LET discrete_scans == [i \in DOMAIN scans |-> DiscretizeScan(window, scans[i])]
        lowest == ScoreCandidates(MaxDepth, discrete_scans,
                      GenerateLowestResolutionCandidates(window, Len(scans)))
        best == BranchAndBound(window, discrete_scans, lowest, min_score)
    IN  IF best.score > min_score THEN [found |-> TRUE, best |-> best] ELSE NoMatch

\* The rotations whose histogram is similar enough, none of them too.
SimilarRotations(rotations) ==
    {SelectSeq(rotations, LAMBDA r : r \in similar) : similar \in SUBSET Range(rotations)}

\* A match leaves the matcher as it was; bound: one match of each matcher.
Match ==
    /\ precomputation_grids_ # <<>>
    /\ request = <<>>
    /\ \E rotations \in Rotations, window \in Windows, min_score \in MinScores :
       \E scans \in SimilarRotations(rotations) :
         /\ request' = [scans |-> scans, window |-> window, min_score |-> min_score]
         /\ result' = MatchWithSearchParameters(window, scans, min_score)
    /\ UNCHANGED <<precomputation_grids_, full_resolution_depth>>

Next == Construct \/ Match

Spec == Init /\ [][Next]_matcherVars
-----------------------------------------------------------------------------
\* The score at full resolution, of the grid the matcher was made from.
TrueScore(scan, offset) ==
    FoldLeft(LAMBDA sum, cell : sum + GetValue(precomputation_grids_[1], Plus(cell, offset)),
             0, scan)

\* fast_correlative_scan_matcher.h:78: a match is found exactly when a score above
\* min_score (excluding equality) is possible for a rotation that is tried, anywhere in
\* the search window, and then it is one with the best score of all: however the window
\* lies to the cells of half resolution, none of their bounds is too low.
BestFound ==
    request # <<>> =>
        LET scans == request.scans
            Offset(w) == -w..w
            offsets == Offset(request.window.xy) \X Offset(request.window.xy)
                       \X Offset(request.window.z)
            best == result.best
        IN  IF result.found
            THEN /\ best.offset \in offsets
                 /\ best.score > request.min_score
                 /\ best.score = TrueScore(scans[best.scan_index], best.offset)
                 /\ \A i \in DOMAIN scans, o \in offsets : TrueScore(scans[i], o) <= best.score
            ELSE \A i \in DOMAIN scans, o \in offsets :
                   TrueScore(scans[i], o) <= request.min_score
=============================================================================

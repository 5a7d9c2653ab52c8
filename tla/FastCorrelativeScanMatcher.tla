--------------------- MODULE FastCorrelativeScanMatcher ---------------------
(***************************************************************************)
(* FastCorrelativeScanMatcher: the matcher the constraint builder makes of *)
(* a finished submap and then asks for matches.  Probabilities are the     *)
(* cell values ComputeCellValue rounds them to, 0 standing for             *)
(* kMinProbability; a score is the sum of the values under a scan, all     *)
(* rotations of a scan having as many points.                              *)
(***************************************************************************)
EXTENDS Integers, Sequences, FiniteSets, SequencesExt

CONSTANTS
    NumXCells, NumYCells,  \* limits_
    MaxValue,              \* bound: cell values
    BranchAndBoundDepth,   \* options_.branch_and_bound_depth()
    Windows,               \* num_linear_perturbations of Match and MatchFullSubmap
    Scans,                 \* the sequences of discrete scans, one for each rotation
    MinScores              \* bound: values of min_score

VARIABLES
    precomputation_grid_stack_, \* <<>> before the matcher is constructed
    probability_grid,           \* history: the grid it was made from
    request,                    \* the arguments of the last match
    result                      \* its result

matcherVars == <<precomputation_grid_stack_, probability_grid, request, result>>

Cells == (0..NumXCells - 1) \X (0..NumYCells - 1)
NoMatch == [found |-> FALSE]

PowerOfTwo(i) == 2 ^ i

Init == /\ precomputation_grid_stack_ = <<>>
        /\ probability_grid = <<>>
        /\ request = <<>>
        /\ result = NoMatch
-----------------------------------------------------------------------------
(* SlidingWindowMaximum *)

AddValue(maxima, value) ==
    Append(SelectSeq(maxima, LAMBDA e : e >= value), value)

RemoveValue(maxima, value) ==
    IF value = Head(maxima) THEN Tail(maxima) ELSE maxima

\* The maximum of values[x], ..., values[x + width - 1] for all x where the window
\* meets 0..n-1.
SlidingMaximum(values, n, width) ==
    LET Slide(s, x) ==
            LET left == IF x >= 0 THEN RemoveValue(s.maxima, values[x]) ELSE s.maxima
            IN  [maxima |-> IF x + width < n THEN AddValue(left, values[x + width])
                                             ELSE left,
                 seen |-> Append(s.seen, Head(s.maxima))]
        slid == FoldLeft(Slide, [maxima |-> <<values[0]>>, seen |-> <<>>],
                         [i \in 1..(n + width - 1) |-> i - width])
    IN  [x \in 1 - width..n - 1 |-> slid.seen[x + width]]

\* The cell (x, y) holds the maximum of the width x width cells from (x, y) on.
PrecomputationGrid(grid, width) ==
    LET intermediate == [y \in 0..NumYCells - 1 |->
                          SlidingMaximum([x \in 0..NumXCells - 1 |-> grid[<<x, y>>]],
                                         NumXCells, width)]
        columns == [x \in 1 - width..NumXCells - 1 |->
                      SlidingMaximum([y \in 0..NumYCells - 1 |-> intermediate[y][x]],
                                     NumYCells, width)]
    IN  [p \in (1 - width..NumXCells - 1) \X (1 - width..NumYCells - 1) |->
           columns[p[1]][p[2]]]

MaxDepth == BranchAndBoundDepth - 1

\* The constructor, with any grid.
Construct ==
    /\ precomputation_grid_stack_ = <<>>
    /\ \E grid \in [Cells -> 0..MaxValue] :
         /\ probability_grid' = grid
         /\ precomputation_grid_stack_' =
                [i \in 1..BranchAndBoundDepth |-> PrecomputationGrid(grid, PowerOfTwo(i - 1))]
    /\ UNCHANGED <<request, result>>
-----------------------------------------------------------------------------
GetValue(grid, p) == IF p \in DOMAIN grid THEN grid[p] ELSE 0

ScoreOf(grid, scan, x, y) ==
    FoldLeft(LAMBDA sum, p : sum + GetValue(grid, <<p[1] + x, p[2] + y>>), 0, scan)

Candidate(i, x, y) == [scan_index |-> i, x |-> x, y |-> y, score |-> 0]

\* Equal candidates come in any order from std::sort; here in one.
ScoreCandidates(depth, scans, candidates) ==
    LET grid == precomputation_grid_stack_[depth + 1]
    IN  SortSeq([k \in DOMAIN candidates |->
                   LET c == candidates[k]
                   IN  [c EXCEPT !.score = ScoreOf(grid, scans[c.scan_index], c.x, c.y)]],
                LAMBDA a, b : a.score > b.score)

Least(S) == CHOOSE a \in S : \A b \in S : a <= b
Most(S) == CHOOSE a \in S : \A b \in S : a >= b

\* SearchParameters::ShrinkToFit for one scan.
ShrinkToFit(window, scan) ==
    LET low(k) == Most({-window, Least({0} \cup {-p[k] : p \in Range(scan)})})
        high(k, n) == Least({window, Most({0} \cup {n - 1 - p[k] : p \in Range(scan)})})
    IN  [min_x |-> low(1), max_x |-> high(1, NumXCells),
         min_y |-> low(2), max_y |-> high(2, NumYCells)]

\* From low to high in steps.
Offsets(low, high, step) ==
    [k \in 1..((high - low + step) \div step) |-> low + (k - 1) * step]

\* All (x, y) of two sequences, x varying slowest.
Products(i, xs, ys) ==
    FlattenSeq([k \in DOMAIN xs |-> [l \in DOMAIN ys |-> Candidate(i, xs[k], ys[l])]])

GenerateLowestResolutionCandidates(bounds) ==
    LET step == PowerOfTwo(MaxDepth)
    IN  FlattenSeq([i \in DOMAIN bounds |->
          Products(i, Offsets(bounds[i].min_x, bounds[i].max_x, step),
                      Offsets(bounds[i].min_y, bounds[i].max_y, step))])

\* Mutant: the bounds exclude their maximum.
BranchInside(c, half_width, bound) ==
    Products(c.scan_index,
             SelectSeq(<<c.x, c.x + half_width>>, LAMBDA x : x < bound.max_x),
             SelectSeq(<<c.y, c.y + half_width>>, LAMBDA y : y < bound.max_y))

\* The four quarters of a candidate, without those that leave the search window.
Branch(c, half_width, bound) ==
    Products(c.scan_index,
             SelectSeq(<<c.x, c.x + half_width>>, LAMBDA x : x <= bound.max_x),
             SelectSeq(<<c.y, c.y + half_width>>, LAMBDA y : y <= bound.max_y))

Candidates == [scan_index : Nat, x : Int, y : Int, score : Nat]

\* Candidates are sorted: the loop stops at the first that cannot be better.
BranchAndBound(scans, bounds, lowest, lowest_score) ==
    LET best_of[candidates \in Seq(Candidates), depth \in 0..MaxDepth, min_score \in Nat] ==
            LET Try(best, c) ==
                    LET higher == ScoreCandidates(depth - 1, scans,
                                      Branch(c, PowerOfTwo(depth - 1), bounds[c.scan_index]))
                        found == best_of[higher, depth - 1, best.score]
                    IN  IF best.score < found.score THEN found ELSE best
            IN  IF depth = 0 THEN Head(candidates)
                ELSE FoldLeft(Try, [Candidate(1, 0, 0) EXCEPT !.score = min_score],
                              SelectSeq(candidates, LAMBDA c : c.score > min_score))
    IN  best_of[lowest, MaxDepth, lowest_score]

\* MatchWithSearchParameters.
MatchWithSearchParameters(scans, window, min_score) ==
    LET bounds == [i \in DOMAIN scans |-> ShrinkToFit(window, scans[i])]
        lowest == ScoreCandidates(MaxDepth, scans,
                                  GenerateLowestResolutionCandidates(bounds))
        best == BranchAndBound(scans, bounds, lowest, min_score)
    IN  IF best.score > min_score THEN [found |-> TRUE, best |-> best] ELSE NoMatch

\* A match leaves the matcher as it was; bound: one match of each matcher.
Match ==
    /\ precomputation_grid_stack_ # <<>>
    /\ request = <<>>
    /\ \E scans \in Scans, window \in Windows, min_score \in MinScores :
         /\ request' = [scans |-> scans, window |-> window, min_score |-> min_score]
         /\ result' = MatchWithSearchParameters(scans, window, min_score)
    /\ UNCHANGED <<precomputation_grid_stack_, probability_grid>>

Next == Construct \/ Match

Spec == Init /\ [][Next]_matcherVars
-----------------------------------------------------------------------------
\* The score at full resolution.
TrueScore(scan, x, y) == ScoreOf(probability_grid, scan, x, y)

\* fast_correlative_scan_matcher.h:109: a match is found exactly when a score above
\* min_score (excluding equality) is possible anywhere in the search window, shrunk or
\* not, and then it is one with the best score of all: no bound of a coarser grid and
\* no border of the window has cut it off.
BestFound ==
    request # <<>> =>
        LET scans == request.scans
            Offset == -request.window..request.window
            best == result.best
        IN  IF result.found
            THEN /\ best.x \in Offset /\ best.y \in Offset
                 /\ best.score > request.min_score
                 /\ best.score = TrueScore(scans[best.scan_index], best.x, best.y)
                 /\ \A i \in DOMAIN scans, x, y \in Offset :
                      TrueScore(scans[i], x, y) <= best.score
            ELSE \A i \in DOMAIN scans, x, y \in Offset :
                   TrueScore(scans[i], x, y) <= request.min_score
=============================================================================

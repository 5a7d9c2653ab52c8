---------------------------- MODULE PointClouds ----------------------------
(***************************************************************************)
(* sensor::AdaptiveVoxelFilter and sensor::CompressedPointCloud.  The      *)
(* filter keeps the first point of each voxel, of voxels as large as it    *)
(* can make them without keeping too few; compression sorts points into    *)
(* the blocks of a hybrid grid and writes them as numbers, which a         *)
(* ConstIterator reads again.                                              *)
(*                                                                         *)
(* Coordinates are integers, two of them to a kPrecision, and edge lengths *)
(* are parts of max_length: halving it is exact.                           *)
(***************************************************************************)
EXTENDS Integers, Sequences, FiniteSets, SequencesExt

CONSTANTS
    Clouds,             \* the point clouds, sequences of points
    MaxLength,          \* options_.max_length()
    MinNumPoints,       \* options_.min_num_points(), any of these
    MaxRanges,          \* options_.max_range(), any of these
    Bits,               \* kBits of the grid's FlatGrid and NestedGrid
    kBitsPerCoordinate

VARIABLES
    point_cloud,  \* the cloud to be filtered or compressed
    filtered,     \* what Filter made of it, and the options
    compressed    \* num_points_ and point_data_ made of it

cloudVars == <<point_cloud, filtered, compressed>>

Grid == INSTANCE HybridGrid WITH
            hybrid_grid <- <<>>, inserted <- <<>>, Origins <- {}, Ends <- {},
            NumFreeSpaceVoxels <- 0, MaxReturns <- 0, MaxInsertions <- 0

Dimensions == 1..3
Nothing == <<>>

Waiting == filtered = Nothing /\ compressed = Nothing

Init == point_cloud \in Clouds /\ Waiting
-----------------------------------------------------------------------------
(* voxel_filter.cc *)

\* RoundToInt(a / b), half-way cases away from zero.
Rounded(a, b) == IF a >= 0 THEN (2 * a + b) \div (2 * b) ELSE -((b - 2 * a) \div (2 * b))

Parts == 2048
Voxel(point, parts) ==
    [d \in Dimensions |-> Rounded(point[d] * Parts, MaxLength * parts)]

\* InsertPointCloud: the first point in each voxel.
VoxelFiltered(cloud, parts) ==
    FoldLeft(LAMBDA kept, point :
                 IF \E i \in DOMAIN kept : Voxel(kept[i], parts) = Voxel(point, parts)
                 THEN kept ELSE Append(kept, point),
             <<>>, cloud)

FilterByMaxRange(cloud, max_range) ==
    SelectSeq(cloud, LAMBDA point :
                  point[1]^2 + point[2]^2 + point[3]^2 <= max_range^2)

\* The lengths between that were tried: the smaller one is dense enough, the other is not.
BinarySearch(cloud, min, low_length, high_length) ==
    LET Halve(lengths, i) ==
            LET mid == (lengths.low + lengths.high) \div 2
            IN  IF (lengths.high - lengths.low) * 10 <= lengths.low THEN lengths
                ELSE IF Len(VoxelFiltered(cloud, mid)) >= min
                     THEN [lengths EXCEPT !.low = mid]
                     ELSE [lengths EXCEPT !.high = mid]
    IN  FoldLeft(Halve, [low |-> low_length, high |-> high_length], [i \in 1..4 |-> i])

\* Mutant: the last length tried is taken, dense enough or not.
LastTried(cloud, min, low_length, high_length) ==
    LET Halve(lengths, i) ==
            LET mid == (lengths.low + lengths.high) \div 2
            IN  IF Len(VoxelFiltered(cloud, mid)) >= min
                THEN [lengths EXCEPT !.low = mid]
                ELSE [lengths EXCEPT !.high = mid, !.low = mid]
    IN  FoldLeft(Halve, [low |-> low_length, high |-> high_length], <<1>>)

\* high_length > 1e-2f * options.max_length()
Halvings == {k \in 0..10 : 100 * (Parts \div 2^k) > Parts}
LowLength(k) == Parts \div 2^(k + 1)

AdaptivelyVoxelFiltered(cloud, min) ==
    LET Dense(parts) == Len(VoxelFiltered(cloud, parts)) >= min
        FirstDense == CHOOSE k \in Halvings :
                          Dense(LowLength(k)) /\ \A j \in 0..k - 1 : ~Dense(LowLength(j))
        last == CHOOSE k \in Halvings : \A j \in Halvings : j <= k
    IN  IF Len(cloud) <= min THEN cloud
        ELSE IF Dense(Parts) THEN VoxelFiltered(cloud, Parts)
        ELSE IF \E k \in Halvings : Dense(LowLength(k))
        THEN VoxelFiltered(cloud, BinarySearch(cloud, min, LowLength(FirstDense),
                                               2 * LowLength(FirstDense)).low)
        ELSE VoxelFiltered(cloud, LowLength(last))

Filter(min, max_range) ==
    /\ Waiting
    /\ filtered' = [min_num_points |-> min, max_range |-> max_range,
                    result |-> AdaptivelyVoxelFiltered(
                                   FilterByMaxRange(point_cloud, max_range), min)]
    /\ UNCHANGED <<point_cloud, compressed>>
-----------------------------------------------------------------------------
(* compressed_point_cloud.cc *)

Raster(c) == Rounded(c, 2)

\* Mutant: a division, which goes towards zero, for the shift.
BlockTowardsZero(c) == IF c < 0 THEN -((-c) \div 2^kBitsPerCoordinate)
                                ELSE c \div 2^kBitsPerCoordinate

\* raster_point >> kBitsPerCoordinate and raster_point & kCoordinateMask
Block(c) == c \div 2^kBitsPerCoordinate
Masked(c) == c % 2^kBitsPerCoordinate

\* The points pushed back into their blocks, in order.
Blocks(cloud) ==
    LET PushBack(blocks, point) ==
            LET raster == [d \in Dimensions |-> Raster(point[d])]
                block == Grid!MutableValue(blocks, [d \in Dimensions |-> Block(raster[d])])
            IN  [block.grid EXCEPT !.cells[block.address][block.flat].value =
                     Append(@, [d \in Dimensions |-> Masked(raster[d])])]
    IN  FoldLeft(PushBack, Grid!NewHybridGrid, cloud)

Encoded(raster) ==
    (raster[3] * 2^kBitsPerCoordinate + raster[2]) * 2^kBitsPerCoordinate + raster[1]

\* The constructor: the number of its points, its place and the points of each block.
CompressedPointCloud(cloud) ==
    LET blocks == Grid!CellsInOrder(Blocks(cloud))
        Data(block) == <<Len(block.value.value)>>
                       \o [d \in Dimensions |-> block.index[d]]
                       \o [i \in DOMAIN block.value.value |-> Encoded(block.value.value[i])]
    IN  [num_points_ |-> Len(cloud),
         point_data_ |-> FlattenSeq([i \in DOMAIN blocks |-> Data(blocks[i])])]

\* ReadNextPoint, from the place of the input in point_data_.
ReadNextPoint(data, it) ==
    LET new == it.remaining_points_in_current_block_ = 0
        block == IF new THEN [d \in Dimensions |-> data[it.input_ + d]]
                        ELSE it.current_block_coordinates_
        input == IF new THEN it.input_ + 4 ELSE it.input_
        point == data[input]
        Field(d) == IF d = 3 THEN point \div 2^(2 * kBitsPerCoordinate)
                             ELSE Masked(point \div 2^((d - 1) * kBitsPerCoordinate))
    IN  [remaining_points_in_current_block_ |->
             (IF new THEN data[it.input_] ELSE it.remaining_points_in_current_block_) - 1,
         current_block_coordinates_ |-> block,
         input_ |-> input + 1,
         points |-> Append(it.points, [d \in Dimensions |->
                        2 * (block[d] * 2^kBitsPerCoordinate + Field(d))])]

Decompress(c) ==
    FoldLeft(LAMBDA it, i : ReadNextPoint(c.point_data_, it),
             [remaining_points_in_current_block_ |-> 0, current_block_coordinates_ |-> <<>>,
              input_ |-> 1, points |-> <<>>],
             [i \in 1..c.num_points_ |-> i]).points

Compress == /\ Waiting
            /\ compressed' = CompressedPointCloud(point_cloud)
            /\ UNCHANGED <<point_cloud, filtered>>

Next == \/ \E min \in MinNumPoints, max_range \in MaxRanges : Filter(min, max_range)
        \/ Compress

Spec == Init /\ [][Next]_cloudVars
-----------------------------------------------------------------------------
InRange == FilterByMaxRange(point_cloud, filtered.max_range)

\* The lengths a binary search can come to, sixteen in each halving of max_length.
SearchedLengths == {m * 2^k : m \in 16..31, k \in 0..6}
AboutTenthLonger(low) ==
    {high \in SearchedLengths \cup {Parts} : low < high /\ 10 * (high - low) <= low}

\* Even the shortest edge length that is tried leaves too few points.
GivesUp ==
    \A k \in Halvings : Len(VoxelFiltered(InRange, LowLength(k))) < filtered.min_num_points

\* voxel_filter.cc:44-101: whatever the number of points is as a function of the edge
\* length (it need not be monotone), the cloud that is kept has the points asked for when
\* the cloud in range and some length tried have, and no more than a tenth of the
\* edge length was given away for it: it is max_length, or a length up to 10% longer leaves
\* too few.
FilteredDense ==
    filtered # Nothing =>
        LET cloud == InRange
            min == filtered.min_num_points
            Makes(parts) == filtered.result = VoxelFiltered(cloud, parts)
            TooFew(parts) == Len(VoxelFiltered(cloud, parts)) < min
        IN  \/ Len(cloud) <= min /\ filtered.result = cloud
            \/ GivesUp
            \/ /\ Len(filtered.result) >= min
               /\ \/ Makes(Parts)
                  \/ \E low \in SearchedLengths : /\ Makes(low)
                                                  /\ \E high \in AboutTenthLonger(low) : TooFew(high)

\* compressed_point_cloud.cc: what the iterator reads are the points, each one once and
\* rounded to the precision, also when they are spread over blocks on both sides of zero
\* and the grid has grown while they were inserted; compressing them again loses nothing.
DecompressedExact ==
    compressed # Nothing =>
        LET points == Decompress(compressed)
            rounded == [i \in DOMAIN point_cloud |->
                            [d \in Dimensions |-> 2 * Raster(point_cloud[i][d])]]
            Times(point, cloud) == Cardinality({i \in DOMAIN cloud : cloud[i] = point})
        IN  /\ Len(points) = Len(rounded)
            /\ \A i \in DOMAIN rounded : Times(rounded[i], points) = Times(rounded[i], rounded)
            /\ Decompress(CompressedPointCloud(points)) = points

CloudsExact == FilteredDense /\ DecompressedExact

\* voxel_filter.cc:60-62: "We give up and use the full 'point_cloud' if reducing the edge
\* length by a factor of 1e-2 is not enough."
GivingUpKeepsCloud == filtered # Nothing /\ GivesUp => filtered.result = InRange
=============================================================================

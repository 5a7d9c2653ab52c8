----------------------------- MODULE HybridGrid -----------------------------
(***************************************************************************)
(* mapping_3d::HybridGrid and the RangeDataInserter that fills it: cubes   *)
(* of cells (FlatGrid) in cubes of those (NestedGrid) in a cube that grows *)
(* when a cell outside is changed (DynamicGrid).  The cubes are created    *)
(* when they are first needed and never move: cells holds the FlatGrids,   *)
(* each at its own address, and a pointer to a cell is an address and a    *)
(* place.  The value of a cell is the sequence of the tables applied to it.*)
(***************************************************************************)
EXTENDS Integers, Sequences, SequencesExt

CONSTANTS
    Bits,                \* kBits of FlatGrid and NestedGrid: 3
    NumFreeSpaceVoxels,  \* options_.num_free_space_voxels()
    Origins, Ends,       \* the cells range data come from and end in
    MaxReturns,          \* bound: returns of one range data
    MaxInsertions        \* bound: range data inserted

VARIABLES
    hybrid_grid, \* bits_, meta_cells_, the cells and update_indices_
    inserted     \* history: the range data inserted

hybridVars == <<hybrid_grid, inserted>>

Dimensions == 1..3

Coordinates(F) == [d \in Dimensions |-> F[d]]

\* Every coordinate plus n.
Shifted(index, n) == [d \in Dimensions |-> index[d] + n]

ToFlatIndex(index, bits) == (index[3] * 2^bits + index[2]) * 2^bits + index[1]

To3DIndex(index, bits) ==
    <<index % 2^bits, (index \div 2^bits) % 2^bits, index \div 2^(2 * bits)>>

FlatSize == 2^Bits
NestedSize == FlatSize * 2^Bits
GridSize(g) == NestedSize * 2^g.bits_

NoGrid == <<>>
NewCell == [marked |-> 0, value |-> <<>>]

\* A grid of two by two by two nested grids, none of them there yet.
NewHybridGrid == [bits_ |-> 1, meta_cells_ |-> <<>>, cells |-> <<>>, update_indices_ |-> <<>>]

Init == hybrid_grid = NewHybridGrid /\ inserted = <<>>
-----------------------------------------------------------------------------
\* Where the cell at a shifted index is: the flat indices of the nested grid, of the
\* flat grid in it and of the cell in that.
Place(shifted, bits) ==
    LET At(size) == [d \in Dimensions |-> shifted[d] \div size]
        Rest(size) == [d \in Dimensions |-> shifted[d] % size]
    IN  [meta |-> ToFlatIndex(At(NestedSize), bits),
         nested |-> ToFlatIndex([d \in Dimensions |-> Rest(NestedSize)[d] \div FlatSize], Bits),
         flat |-> ToFlatIndex(Rest(FlatSize), Bits)]

Inside(g, index) ==
    \A d \in Dimensions : index[d] + GridSize(g) \div 2 \in 0..GridSize(g) - 1

PlaceOf(g, index) == Place(Shifted(index, GridSize(g) \div 2), g.bits_)

\* The address of the flat grid with that place, if it has been created.
Exists(g, place) == /\ place.meta \in DOMAIN g.meta_cells_
                    /\ place.nested \in DOMAIN g.meta_cells_[place.meta]
Address(g, place) == g.meta_cells_[place.meta][place.nested]

Value(g, index) ==
    IF Inside(g, index) /\ Exists(g, PlaceOf(g, index))
    THEN LET place == PlaceOf(g, index) IN g.cells[Address(g, place)][place.flat]
    ELSE NewCell

\* Mutant: the old grid stays in the corner of the new one.
GrownFromCorner(g) ==
    [g EXCEPT !.bits_ = @ + 1,
              !.meta_cells_ =
                LET New(k) == ToFlatIndex(To3DIndex(k, g.bits_), g.bits_ + 1)
                    taken == {New(k) : k \in DOMAIN g.meta_cells_}
                IN  [n \in taken |-> g.meta_cells_[CHOOSE k \in DOMAIN g.meta_cells_ : New(k) = n]]]

\* Grow: the old grid is moved into the middle of one twice its size.
Grow(g) ==
    [g EXCEPT !.bits_ = @ + 1,
              !.meta_cells_ =
                LET New(k) == ToFlatIndex(Shifted(To3DIndex(k, g.bits_), 2^(g.bits_ - 1)),
                                          g.bits_ + 1)
                    taken == {New(k) : k \in DOMAIN g.meta_cells_}
                IN  [n \in taken |-> g.meta_cells_[CHOOSE k \in DOMAIN g.meta_cells_ : New(k) = n]]]

Size(a) == IF a < 0 THEN -a ELSE a

\* The grid grown until the index is inside, which it is at the latest when the grid has
\* doubled as often as the index is far from the middle.
Grown(g, index) ==
    LET times == 0..Size(index[1]) + Size(index[2]) + Size(index[3])
        grown[n \in Nat] == IF n = 0 THEN g ELSE Grow(grown[n - 1])
    IN  grown[CHOOSE n \in times : /\ Inside(grown[n], index)
                                   /\ \A m \in 0..n - 1 : ~Inside(grown[m], index)]

\* mutable_value: the grid with the cell created, and the pointer to it.
MutableValue(h, index) ==
    LET g == Grown(h, index)
        place == PlaceOf(g, index)
        address == IF Exists(g, place) THEN Address(g, place) ELSE Len(g.cells) + 1
        nested == IF place.meta \in DOMAIN g.meta_cells_ THEN g.meta_cells_[place.meta]
                                                         ELSE NoGrid
    IN  [grid |-> [g EXCEPT
             !.meta_cells_ = (place.meta :> ((place.nested :> address) @@ nested)) @@ @,
             !.cells = IF address \in DOMAIN @ THEN @
                       ELSE Append(@, [k \in 0..FlatSize^3 - 1 |-> NewCell])],
         address |-> address, flat |-> place.flat]

\* The update marker is subtracted from the cells the pointers point to.
StartUpdate(g) ==
    [g EXCEPT !.cells = FoldLeft(LAMBDA cells, p : [cells EXCEPT ![p[1]][p[2]].marked = @ - 1],
                                 @, g.update_indices_),
              !.update_indices_ = <<>>]

ApplyLookupTable(g, index, table) ==
    LET mutable == MutableValue(g, index)
        cell == <<mutable.address, mutable.flat>>
    IN  IF mutable.grid.cells[cell[1]][cell[2]].marked > 0 THEN mutable.grid
        ELSE [mutable.grid EXCEPT
                 !.update_indices_ = Append(@, cell),
                 !.cells[cell[1]][cell[2]] = [marked |-> 1, value |-> Append(@.value, table)]]

ApplyAll(g, indices, table) ==
    FoldLeft(LAMBDA h, index : ApplyLookupTable(h, index, table), g, indices)

\* Division that goes towards zero.
Quotient(a, b) == IF a < 0 THEN -((-a) \div b) ELSE a \div b

\* InsertMissesIntoGrid: the last voxels on the way from the origin to a hit.
MissCells(origin, hit) ==
    LET delta == [d \in Dimensions |-> hit[d] - origin[d]]
        samples == CHOOSE n \in {Size(delta[d]) : d \in Dimensions} :
                     \A d \in Dimensions : Size(delta[d]) <= n
        first == IF samples > NumFreeSpaceVoxels THEN samples - NumFreeSpaceVoxels ELSE 0
    IN  [k \in 1..samples - first |->
            [d \in Dimensions |-> origin[d] + Quotient(delta[d] * (first + k - 1), samples)]]

\* RangeDataInserter::Insert: the hits, then the misses on the way to them.
Insert(g, range_data) ==
    LET returns == range_data.returns
        misses == [i \in DOMAIN returns |-> MissCells(range_data.origin, returns[i])]
    IN  ApplyAll(ApplyAll(StartUpdate(g), returns, "hit"), FlattenSeq(misses), "miss")

InsertRangeData ==
    /\ Len(inserted) < MaxInsertions
    /\ \E origin \in Origins, n \in 1..MaxReturns : \E returns \in [1..n -> Ends] :
         LET range_data == [origin |-> origin, returns |-> returns]
         IN  /\ hybrid_grid' = Insert(hybrid_grid, range_data)
             /\ inserted' = Append(inserted, range_data)
-----------------------------------------------------------------------------
\* The flat indices that are in S, in order.
InOrder(S, bits) == SelectSeq([k \in 1..2^(3 * bits) |-> k - 1], LAMBDA k : k \in S)

\* The iterator: the nested grids that are there, in them the flat grids that are there,
\* in those the cells that are known.  GetCellIndex puts the indices together again.
CellsInOrder(g) ==
    LET CellIndex(meta, nested, flat) ==
            [d \in Dimensions |-> To3DIndex(meta, g.bits_)[d] * NestedSize
                                  + To3DIndex(nested, Bits)[d] * FlatSize
                                  + To3DIndex(flat, Bits)[d]
                                  - 2^(g.bits_ - 1) * NestedSize]
        Known(address) == {k \in 0..FlatSize^3 - 1 : g.cells[address][k] # NewCell}
        InFlat(meta, nested) ==
            LET address == g.meta_cells_[meta][nested]
                places == InOrder(Known(address), Bits)
            IN  [i \in DOMAIN places |-> [index |-> CellIndex(meta, nested, places[i]),
                                          value |-> g.cells[address][places[i]]]]
        InNested(meta) ==
            LET nested == InOrder(DOMAIN g.meta_cells_[meta], Bits)
            IN  FlattenSeq([i \in DOMAIN nested |-> InFlat(meta, nested[i])])
        metas == InOrder(DOMAIN g.meta_cells_, g.bits_)
    IN  FlattenSeq([i \in DOMAIN metas |-> InNested(metas[i])])

\* SetProbability, from a value with or without the marker.
SetProbability(g, index, cell) ==
    LET mutable == MutableValue(g, index)
    IN  [mutable.grid EXCEPT !.cells[mutable.address][mutable.flat] =
                                 [marked |-> 0, value |-> cell.value]]

\* ToProto and the constructor from what it returns.
Reload ==
    /\ hybrid_grid' = FoldLeft(LAMBDA g, cell : SetProbability(g, cell.index, cell.value),
                               NewHybridGrid, CellsInOrder(hybrid_grid))
    /\ UNCHANGED inserted

Next == InsertRangeData \/ Reload

Spec == Init /\ [][Next]_hybridVars
-----------------------------------------------------------------------------
\* What one range data says of a cell.
Says(range_data, index) ==
    IF index \in Range(range_data.returns) THEN <<"hit">>
    ELSE IF \E i \in DOMAIN range_data.returns :
              index \in Range(MissCells(range_data.origin, range_data.returns[i]))
    THEN <<"miss">>
    ELSE <<>>

Evidence(index) == FlattenSeq([i \in DOMAIN inserted |-> Says(inserted[i], index)])

Touched == UNION {UNION {{r.returns[i]} \cup Range(MissCells(r.origin, r.returns[i])) :
                         i \in DOMAIN r.returns} : r \in Range(inserted)}

\* However often the grid has grown, between the first and the last cell of one range
\* data too, and whether or not it was written and read again: each range data has
\* changed a cell once, a hit before a miss; the iterator visits the cells that are
\* known, each once and under its own index; and the pointers kept for the next
\* StartUpdate point to the cells with the marker and to no others.
GridExact ==
    LET visited == CellsInOrder(hybrid_grid)
        indices == [i \in DOMAIN visited |-> visited[i].index]
    IN  /\ \A index \in Touched : Value(hybrid_grid, index).value = Evidence(index)
        /\ IsInjective(indices) /\ Range(indices) = Touched
        /\ \A i \in DOMAIN visited : visited[i].value = Value(hybrid_grid, indices[i])
        /\ IsInjective(hybrid_grid.update_indices_)
        /\ \A a \in DOMAIN hybrid_grid.cells, k \in 0..FlatSize^3 - 1 :
             hybrid_grid.cells[a][k].marked =
               IF <<a, k>> \in Range(hybrid_grid.update_indices_) THEN 1 ELSE 0
=============================================================================

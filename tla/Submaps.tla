------------------------------ MODULE Submaps -------------------------------
(***************************************************************************)
(* mapping::Submaps and mapping_2d::Submaps: the submaps one trajectory    *)
(* builds.  A range data is inserted into the last two submaps; when the   *)
(* last one has num_range_data of them a new submap is started and the     *)
(* one before the last is finished.  A submap is known by its index, from  *)
(* 0, and is a record of how much was inserted and whether it is finished. *)
(***************************************************************************)
EXTENDS Integers, Sequences

CONSTANT NumRangeData  \* options_.num_range_data()

ASSUME NumRangeDataAssumption == NumRangeData \in Nat \ {0}

Submap == [num_range_data : 0..2 * NumRangeData, finished : BOOLEAN]
EmptySubmap == [num_range_data |-> 0, finished |-> FALSE]

\* The constructor adds a first submap.
InitialSubmaps == <<EmptySubmap>>

MatchingIndex(submaps) ==
    IF Len(submaps) > 1 THEN Len(submaps) - 2 ELSE Len(submaps) - 1

InsertionIndices(submaps) ==
    IF Len(submaps) > 1 THEN {Len(submaps) - 2, Len(submaps) - 1}
                        ELSE {Len(submaps) - 1}

\* Indices are those of the code: submap i is element i + 1.
FinishSubmap(submaps, i) == [submaps EXCEPT ![i + 1].finished = TRUE]

\* Mutant: the submap that was just initialized is finished.
AddSubmapFinishingLast(submaps) ==
    Append(IF Len(submaps) > 1 THEN FinishSubmap(submaps, Len(submaps) - 1)
                               ELSE submaps,
           EmptySubmap)

AddSubmap(submaps) ==
    Append(IF Len(submaps) > 1 THEN FinishSubmap(submaps, Len(submaps) - 2)
                               ELSE submaps,
           EmptySubmap)

\* Range data is inserted into submap i.
Insert(submaps, i) == [submaps EXCEPT ![i + 1].num_range_data = @ + 1]

\* Mutant: a submap is started one range data too late.
InsertRangeDataLate(submaps) ==
    LET last == Len(submaps) - 1
        inserted == IF last > 0 THEN Insert(Insert(submaps, last - 1), last)
                                ELSE Insert(submaps, last)
    IN  IF inserted[last + 1].num_range_data > NumRangeData
        THEN AddSubmap(inserted)
        ELSE inserted

\* The submaps after range data was inserted.
InsertRangeData(submaps) ==
    LET last == Len(submaps) - 1
        inserted == IF last > 0 THEN Insert(Insert(submaps, last - 1), last)
                                ELSE Insert(submaps, last)
    IN  IF inserted[last + 1].num_range_data = NumRangeData
        THEN AddSubmap(inserted)
        ELSE inserted
=============================================================================

---------------------------- MODULE MCThreadPool ----------------------------
(* Three workers, four items; the first item spawns two others. *)
EXTENDS ThreadPool
CONSTANTS i1, i2, i3, i4
MCItems == {i1, i2, i3, i4}
MCRoots == {i1, i2}
MCSpawns == [i \in MCItems |-> IF i = i1 THEN {i3, i4} ELSE {}]
=============================================================================

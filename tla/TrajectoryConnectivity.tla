------------------------ MODULE TrajectoryConnectivity ------------------------
(***************************************************************************)
(* mapping::TrajectoryConnectivity: which trajectories have been connected *)
(* by constraints, directly or through others.  A disjoint set forest with *)
(* path compression; every operation holds lock_ from beginning to end.    *)
(***************************************************************************)
EXTENDS Naturals, FiniteSets

CONSTANTS Ids,            \* trajectory ids
          MaxConnections  \* bound: direct connections of one pair

VARIABLES forest,         \* forest_: the parent of each tracked trajectory
          connection_map  \* connection_map_: direct connections of each pair

vars == <<forest, connection_map>>

\* The keys std::minmax yields, whatever the order of the arguments.
Pairs == {{a, b} : a \in Ids, b \in Ids}

Init == /\ forest = [t \in {} |-> {}]
        /\ connection_map = [p \in Pairs |-> 0]

\* What FindSet returns in forest f.
Representative(f) ==
    LET rep[t \in DOMAIN f] == IF f[t] = t THEN t ELSE rep[f[t]] IN rep

\* The trajectories FindSet(t) visits in forest f.
Path(f, t) ==
    LET path[u \in DOMAIN f] == IF f[u] = u THEN {u} ELSE {u} \cup path[f[u]]
    IN  path[t]

\* FindSet makes every trajectory it visits a child of the representative.
Compressed(f, t) ==
    [u \in DOMAIN f |-> IF u \in Path(f, t) THEN Representative(f)[t] ELSE f[u]]

\* forest_.emplace(t, t).
Emplaced(f, t) == [u \in DOMAIN f \cup {t} |-> IF u \in DOMAIN f THEN f[u] ELSE u]

\* Mutant: a is not replaced by its representative.
UnionOfMember(f, a, b) ==
    LET g == Compressed(Emplaced(Emplaced(f, a), b), b)
    IN  [g EXCEPT ![a] = Representative(g)[b]]

Union(f, a, b) ==
    LET g == Compressed(Compressed(Emplaced(Emplaced(f, a), b), a), b)
    IN  [g EXCEPT ![Representative(g)[a]] = Representative(g)[b]]

Add(t) == /\ forest' = Emplaced(forest, t)
          /\ UNCHANGED connection_map

Connect(a, b) == /\ connection_map[{a, b}] < MaxConnections
                 /\ forest' = Union(forest, a, b)
                 /\ connection_map' = [connection_map EXCEPT ![{a, b}] = @ + 1]

\* The answers of TransitivelyConnected.
Connected(a, b) == /\ {a, b} \subseteq DOMAIN forest
                   /\ Representative(forest)[a] = Representative(forest)[b]

\* A query compresses the paths it follows.
TransitivelyConnected(a, b) ==
    /\ forest' = IF {a, b} \subseteq DOMAIN forest
                 THEN Compressed(Compressed(forest, a), b)
                 ELSE forest
    /\ UNCHANGED connection_map

ConnectedComponents == /\ forest' = Representative(forest)
                       /\ UNCHANGED connection_map

Next == \/ \E t \in Ids : Add(t)
        \/ \E a, b \in Ids : Connect(a, b) \/ TransitivelyConnected(a, b)
        \/ ConnectedComponents

Spec == Init /\ [][Next]_vars
-----------------------------------------------------------------------------
\* The recursion of FindSet ends: no unions, in whatever order and between
\* whichever members, close a cycle of parents.
NoCycle == \A S \in (SUBSET DOMAIN forest) \ {{}} :
              (\A t \in S : forest[t] \in S) => \E t \in S : forest[t] = t

\* Direct connections lead from a to b.
Linked(a, b) ==
    \A S \in SUBSET DOMAIN forest :
       /\ a \in S
       /\ \A p \in Pairs : connection_map[p] > 0 /\ p \cap S # {} => p \subseteq S
       => b \in S

\* trajectory_connectivity.h:61: two tracked trajectories are connected if and only if
\* direct connections lead from one to the other: FindSet ends, the forest and the
\* counts agree, and no query changes what later queries answer.
ConnectedByConnections ==
    NoCycle /\ \A a, b \in DOMAIN forest : Connected(a, b) <=> Linked(a, b)
=============================================================================

------------------------- MODULE GridSlamProcessor -------------------------
(***************************************************************************)
(* GridSlamProcessor: the particle filter with its tree of trajectories    *)
(* and its maps, as slam_gmapping uses it (init, processScan, delete) and  *)
(* as gfs-carmen does (init, clone and keep the original, then processScan,*)
(* clone, delete the original).  A scan that processScan passes over, the  *)
(* robot not having moved far enough, changes none of this.                *)
(***************************************************************************)
EXTENDS FiniteSets, Functions, SequencesExt, TLC

CONSTANTS
    NoNode,   \* the null pointer to a TNode
    Patch,    \* the places of patches in a map
    NoPatch,  \* the null autoptr
    NumParticles,
    MaxHits,  \* bound: patches hit by a scan
    MaxScans  \* bound: scans processed

-----------------------------------------------------------------------------
\* GridSlamProcessor::TNode: the tree in which the trajectories of all particles are
\* kept.  A heap is [nodes |-> the live nodes by address, failed |-> whether an
\* assertion has failed or a freed node was used].
EmptyTree == [nodes |-> <<>>, failed |-> FALSE]

ChildsIn(nodes, n) == {m \in DOMAIN nodes : nodes[m].parent = n}

\* new TNode(pose, 0, parent, 0) for every i: what the reading and the pose hit
\* is hits[i], the address is ids[i].
NewNodes(tree, ids, parents, hits) ==
    LET Under(n) == {i \in DOMAIN ids : parents[i] = n}
        grown == [n \in DOMAIN tree.nodes |->
                    [tree.nodes[n] EXCEPT !.childs = @ + Cardinality(Under(n))]]
        born == [n \in Range(ids) |->
                    LET i == CHOOSE i \in DOMAIN ids : ids[i] = n
                    IN  [parent |-> parents[i], childs |-> 0, accWeight |-> 0,
                         hits |-> hits[i]]]
    IN  [tree EXCEPT !.nodes = born @@ grown]

\* From n up to the root.
Line(nodes, n) ==
    LET line[m \in DOMAIN nodes] ==
            <<m>> \o IF nodes[m].parent = NoNode THEN <<>> ELSE line[nodes[m].parent]
    IN  IF n = NoNode THEN <<>> ELSE line[n]

\* delete n, and with it every ancestor that has no other child.
Delete(tree, n) ==
    LET One(heap, m) ==
            LET up == heap.nodes[m].parent
            IN  [nodes |-> [k \in DOMAIN heap.nodes \ {m} |->
                              IF k = up THEN [heap.nodes[k] EXCEPT !.childs = @ - 1]
                                        ELSE heap.nodes[k]],
                 failed |-> heap.failed \/ heap.nodes[m].childs # 0,
                 on |-> up # NoNode /\ heap.nodes[up].childs <= 1]
        heap == FoldLeft(LAMBDA h, m : IF h.on THEN One(h, m) ELSE h,
                         [nodes |-> tree.nodes, failed |-> tree.failed, on |-> TRUE],
                         Line(tree.nodes, n))
    IN  IF n \notin DOMAIN tree.nodes THEN [tree EXCEPT !.failed = TRUE]
        ELSE [nodes |-> heap.nodes, failed |-> heap.failed]

DeleteAll(tree, leaves) == FoldLeft(Delete, tree, leaves)

Ancestors(tree, n) == Range(Line(tree.nodes, n))

\* What was hit at each scan on the way to n, the oldest first.  The root, made
\* before the first scan, hit nothing.
Trajectory(tree, n) ==
    LET hits[m \in DOMAIN tree.nodes] ==
            LET node == tree.nodes[m]
            IN  IF node.parent = NoNode THEN <<>> ELSE Append(hits[node.parent], node.hits)
    IN  hits[n]
-----------------------------------------------------------------------------
\* propagateWeight: p counts the visits, the weights and what reaches the roots; it goes
\* on from a node that all of its children have reached.
PropagateWeight(nodes, p, n, weight) ==
    LET Reach(s, m) ==
            LET at == [s.p EXCEPT !.visits[m] = @ + 1, !.weights[m] = @ + s.weight]
            IN  [p |-> [at EXCEPT !.failed = @ \/ at.visits[m] > nodes[m].childs],
                 weight |-> at.weights[m],
                 on |-> at.visits[m] = nodes[m].childs]
        s == FoldLeft(LAMBDA r, m : IF r.on THEN Reach(r, m) ELSE r,
                      [p |-> p, weight |-> weight, on |-> TRUE], Line(nodes, n))
    IN  IF s.on THEN [s.p EXCEPT !.total = @ + s.weight] ELSE s.p

\* updateTreeWeights for the particles at leaves, each of which weighs one unit.
UpdateTreeWeights(tree, leaves) ==
    LET paths == UNION {Ancestors(tree, n) : n \in Range(leaves)}
        reset == [weights |-> [n \in paths |-> 0], visits |-> [n \in paths |-> 0],
                  total |-> 0, failed |-> tree.failed]
        Visit(p, leaf) == PropagateWeight(tree.nodes, [p EXCEPT !.weights[leaf] = 1],
                                          tree.nodes[leaf].parent, 1)
        p == FoldLeft(Visit, reset, leaves)
    IN  [nodes |-> [n \in DOMAIN tree.nodes |->
                      IF n \in paths THEN [tree.nodes[n] EXCEPT !.accWeight = p.weights[n]]
                                     ELSE tree.nodes[n]],
         failed |-> p.failed \/ p.total # Len(leaves)]

\* getTrajectories: the nodes on the way to leaves, copied to copy[n], and each
\* leaf, which particles may still share, to copies[i].
CopyTrajectories(tree, leaves, copies, copy) ==
    LET inner == UNION {Ancestors(tree, n) : n \in Range(leaves)} \ Range(leaves)
        Up(n) == IF n = NoNode THEN NoNode ELSE copy[n]
        Image(n) == [tree.nodes[n] EXCEPT !.parent = Up(@)]
        trunk == [c \in {copy[n] : n \in inner} |->
                    Image(CHOOSE n \in inner : copy[n] = c)]
        tips == [c \in Range(copies) |->
                    Image(leaves[CHOOSE i \in DOMAIN copies : copies[i] = c])]
        cloned == tips @@ trunk
    IN  [nodes |-> cloned @@ tree.nodes,
         failed |-> \/ tree.failed
                    \/ \E i \in DOMAIN copies : cloned[copies[i]].childs # 0
                    \/ \E n \in inner : cloned[copy[n]].childs
                                          # Cardinality(ChildsIn(cloned, copy[n]))]
-----------------------------------------------------------------------------
\* The maps of the particles.  HierarchicalArray2D holds its patches by autoptr, so that
\* the copies of a map share them until the active area is detached.  A heap of patches
\* gives, by address, the count of the autoptrs and the scans registered in the patch; a
\* map gives the address of each patch, or NoPatch.
EmptyMap == [x \in Patch |-> NoPatch]

Held(map) == Range(map) \ {NoPatch}

\* autoptr's copy constructor, for a whole map.
Share(refs, map) ==
    [r \in DOMAIN refs |-> IF r \in Held(map) THEN [refs[r] EXCEPT !.shares = @ + 1]
                                              ELSE refs[r]]

\* ~autoptr, for a whole map.
Release(refs, map) ==
    LET fewer == [r \in DOMAIN refs |->
                    IF r \in Held(map) THEN [refs[r] EXCEPT !.shares = @ - 1] ELSE refs[r]]
    IN  Restrict(fewer, {r \in DOMAIN refs : fewer[r].shares > 0})

\* Mutant: the new patches are empty.
ReplaceActiveArea(refs, map, area, address) ==
    LET fresh == [r \in {address[x] : x \in area} |-> [shares |-> 1, scans |-> <<>>]]
        old == [x \in Patch |-> IF x \in area THEN map[x] ELSE NoPatch]
    IN  [refs |-> Release(fresh @@ refs, old),
         map |-> [x \in Patch |-> IF x \in area THEN address[x] ELSE map[x]]]

\* allocActiveArea: a patch of its own for each place x of the area, at address[x],
\* with what the patch there held.
AllocActiveArea(refs, map, area, address) ==
    LET Scans(x) == IF map[x] = NoPatch THEN <<>> ELSE refs[map[x]].scans
        fresh == [r \in {address[x] : x \in area} |->
                    [shares |-> 1, scans |-> Scans(CHOOSE x \in area : address[x] = r)]]
        old == [x \in Patch |-> IF x \in area THEN map[x] ELSE NoPatch]
    IN  [refs |-> Release(fresh @@ refs, old),
         map |-> [x \in Patch |-> IF x \in area THEN address[x] ELSE map[x]]]

\* registerScan where computeActiveArea has left area as the active area: the scan
\* changes the patches it hits, cell() making those that are still missing.
RegisterScan(refs, map, area, hits, scan, address) ==
    LET alloc == AllocActiveArea(refs, map, area, address)
        missing == {x \in hits : alloc.map[x] = NoPatch}
        made == [r \in {address[x] : x \in missing} |-> [shares |-> 1, scans |-> <<>>]]
        all == made @@ alloc.refs
        hit == [x \in Patch |-> IF x \in missing THEN address[x] ELSE alloc.map[x]]
    IN  [refs |-> [r \in DOMAIN all |->
                     IF \E x \in hits : hit[x] = r
                     THEN [all[r] EXCEPT !.scans = Append(@, scan)] ELSE all[r]],
         map |-> hit]
-----------------------------------------------------------------------------
VARIABLES
    tree,      \* the heap of TNodes
    refs,      \* the heap of patches
    particles, \* m_particles of the processor in use, <<>> when it is deleted
    other,     \* m_particles of its clone, <<>> without one
    owner,     \* the object in use: 0 the one constructed first, 1 and 2 clones
    m_count    \* scans processed

vars == <<tree, refs, particles, other, owner, m_count>>

Particles == 1..NumParticles
Hits == {hits \in SUBSET Patch : Cardinality(hits) \in 1..MaxHits}
Symmetry == Permutations(Patch)
NodesOf(ps) == [i \in DOMAIN ps |-> ps[i].node]
NodeAt(object, scan, i) == [object |-> object, scan |-> scan, particle |-> i]
PatchAt(object, scan, i, x) == [object |-> object, scan |-> scan, particle |-> i, at |-> x]

\* The other one of the two objects clones are made in.
Twin(object) == IF object = 1 THEN 2 ELSE 1

Init == LET root == NodeAt(0, 0, 1)
        IN  /\ tree = NewNodes(EmptyTree, <<root>>, <<NoNode>>, <<{}>>)
            /\ refs = <<>>
            /\ particles = [i \in Particles |-> [node |-> root, map |-> EmptyMap]]
            /\ other = <<>>
            /\ owner = 0
            /\ m_count = 0
-----------------------------------------------------------------------------
\* The scan registered in the map of one particle after the other: s holds the
\* patches and the maps, area[i] is the active area of map i.
RegisterAll(s, area, hits, scan) ==
    LET Register(t, i) ==
            LET r == RegisterScan(t.refs, t.maps[i], area[i], hits[i], scan,
                                  [x \in Patch |-> PatchAt(owner, scan, i, x)])
            IN  [refs |-> r.refs, maps |-> [t.maps EXCEPT ![i] = r.map]]
    IN  FoldLeft(Register, s, [i \in Particles |-> i])

\* The next generation: particle i goes on from particle from[i], whose scan
\* touched hits[i]; the nodes of the particles of lost are deleted.
Generation(from, lost, hits, area) ==
    LET scan == m_count + 1
        ids == [i \in Particles |-> NodeAt(owner, scan, i)]
        parents == [i \in Particles |-> particles[from[i]].node]
        \* processScan has updated the weights before it resamples
        weighed == IF m_count = 0 THEN tree
                   ELSE UpdateTreeWeights(tree, NodesOf(particles))
        grown == DeleteAll(NewNodes(weighed, ids, parents, hits),
                           [k \in DOMAIN lost |-> particles[lost[k]].node])
        copied == FoldLeft(LAMBDA r, i : Share(r, particles[from[i]].map), refs,
                           [i \in Particles |-> i])
        cleared == FoldLeft(LAMBDA r, i : Release(r, particles[i].map), copied,
                            [i \in Particles |-> i])
        drawn == RegisterAll([refs |-> cleared,
                              maps |-> [i \in Particles |-> particles[from[i]].map]],
                             area, hits, scan)
    IN  /\ tree' = UpdateTreeWeights(grown, ids)
        /\ refs' = drawn.refs
        /\ particles' = [i \in Particles |-> [node |-> ids[i], map |-> drawn.maps[i]]]
        /\ m_count' = scan
        /\ UNCHANGED <<other, owner>>

CanProcess == ~tree.failed /\ particles # <<>> /\ other = <<>> /\ m_count < MaxScans

\* The first scan, and the branch of resample that keeps every particle: each map
\* detaches what the scan will change.
KeepParticles ==
    /\ CanProcess
    /\ \E hits \in [Particles -> Hits] :
         Generation([i \in Particles |-> i], <<>>, hits, hits)

\* Mutant: a copy takes the pose of the slot it comes to.
HitsInPlace(hits, indexes) == [i \in Particles |-> hits[i]]

\* The copies of a particle have its pose.
HitsDrawn(hits, indexes) == [i \in Particles |-> hits[indexes[i]]]

\* Mutant: particles behind the last index drawn are not deleted.
LostBefore(indexes) ==
    SetToSortSeq({j \in Particles : j \notin Range(indexes) /\ j < indexes[NumParticles]}, <)

\* deletedParticles
Lost(indexes) == SetToSortSeq(Particles \ Range(indexes), <)

\* The branch that resamples, with the indexes drawn in increasing order.  The
\* copies of a particle have no active area, and computeActiveArea gives them none:
\* scanMatch has left m_activeAreaComputed set.
ResampleParticles ==
    /\ CanProcess
    /\ m_count > 0
    /\ \E hits \in [Particles -> Hits], indexes \in [Particles -> Particles] :
         /\ \A i, j \in Particles : i < j => indexes[i] <= indexes[j]
         /\ Generation(indexes, Lost(indexes), HitsDrawn(hits, indexes),
                       [i \in Particles |-> {}])

\* The copy constructor.
Clone ==
    /\ ~tree.failed
    /\ particles # <<>>
    /\ other = <<>>
    /\ owner = 0 <=> m_count = 0
    /\ LET twin == Twin(owner)
           copies == [i \in Particles |-> [particles[i].node EXCEPT !.object = twin,
                                                                    !.particle = i]]
           cloned == CopyTrajectories(tree, NodesOf(particles), copies,
                                      [n \in DOMAIN tree.nodes |-> [n EXCEPT !.object = twin]])
       IN  /\ tree' = UpdateTreeWeights(cloned, copies)
           /\ other' = [i \in Particles |-> [particles[i] EXCEPT !.node = copies[i]]]
    /\ refs' = FoldLeft(LAMBDA r, i : Share(r, particles[i].map), refs,
                        [i \in Particles |-> i])
    /\ UNCHANGED <<particles, owner, m_count>>

\* ~GridSlamProcessor, which deletes the node of each particle; the clone, if there is
\* one, takes over.  Before the first scan the particles of the object that init has set
\* up have one node between them.
Destroy ==
    /\ ~tree.failed
    /\ particles # <<>>
    /\ tree' = DeleteAll(tree, NodesOf(particles))
    /\ refs' = FoldLeft(LAMBDA r, i : Release(r, particles[i].map), refs,
                        [i \in Particles |-> i])
    /\ particles' = other
    /\ other' = <<>>
    /\ owner' = IF other = <<>> THEN owner ELSE Twin(owner)
    /\ UNCHANGED m_count

\* gfs-carmen's first clone, made before any scan: the original is never deleted.
KeepOriginal ==
    /\ ~tree.failed
    /\ m_count = 0
    /\ other # <<>>
    /\ particles' = other
    /\ other' = <<>>
    /\ owner' = 1
    /\ UNCHANGED <<tree, refs, m_count>>

Next == \/ KeepParticles
        \/ ResampleParticles
        \/ Clone
        \/ Destroy
        \/ KeepOriginal

Spec == Init /\ [][Next]_vars
-----------------------------------------------------------------------------
Holders == [i \in DOMAIN particles |-> particles[i]] \o other

\* The root of the original that gfs-carmen forgets.
Forgotten == IF owner > 0 THEN {NodeAt(0, 0, 1)} ELSE {}

\* The live nodes are those on the way to a particle: deleting a particle or a
\* processor frees what only it needed, and nothing of another; no node has a
\* wrong count of children; the weight of a node is the number of the particles of
\* its processor that descend from it (TNode::~TNode, getTrajectories,
\* propagateWeights).
TreeExact ==
    /\ DOMAIN tree.nodes =
           Forgotten \cup UNION {Ancestors(tree, Holders[h].node) : h \in DOMAIN Holders}
    /\ \A n \in DOMAIN tree.nodes :
         /\ tree.nodes[n].childs = Cardinality(ChildsIn(tree.nodes, n))
         /\ m_count > 0 /\ n \notin Forgotten =>
              tree.nodes[n].accWeight =
                Cardinality({h \in DOMAIN Holders : n \in Ancestors(tree, Holders[h].node)})

\* A patch lives while some map holds it, and counts the maps that do.
SharesExact ==
    /\ DOMAIN refs = UNION {Held(Holders[h].map) : h \in DOMAIN Holders}
    /\ \A r \in DOMAIN refs :
         refs[r].shares = Cardinality({h \in DOMAIN Holders : r \in Held(Holders[h].map)})

ScansIn(map, x) == IF map[x] = NoPatch THEN <<>> ELSE refs[map[x]].scans

\* The scans of the trajectory of a particle that hit x, the oldest first.
ScansOfTrajectory(p, x) ==
    LET trajectory == Trajectory(tree, p.node)
    IN  SelectSeq([k \in DOMAIN trajectory |-> k], LAMBDA k : x \in trajectory[k])

\* The map of a particle holds every scan of its trajectory, whoever has shared
\* and detached its patches since.
NoScanLost ==
    \A h \in DOMAIN Holders, x \in Patch :
      Range(ScansOfTrajectory(Holders[h], x)) \subseteq Range(ScansIn(Holders[h].map, x))

\* What particles and processors share, nodes and patches, is counted exactly: nothing
\* is freed while it is needed, nothing is left when it is not, and no copy of a patch
\* lacks a scan.  An assertion fails, or a node is freed twice, only where a processor is
\* deleted that has not processed a scan (NeverFails).
SharingExact ==
    /\ tree.failed => m_count = 0
    /\ ~tree.failed => TreeExact /\ SharesExact /\ NoScanLost

\* No node is freed twice and no assertion fails: ~TNode "consistently updates the tree".
NeverFails == ~tree.failed

\* The map of a particle holds the scans of its own trajectory and each one once:
\* registerScan changes the particle's own copies of the patches ("this operation
\* replicates the cells that will be changed in the registration operation").
OwnScansOnly ==
    \A h \in DOMAIN Holders, x \in Patch :
      ScansIn(Holders[h].map, x) = ScansOfTrajectory(Holders[h], x)

TrajectoriesOf(ps) == [i \in DOMAIN ps |-> Trajectory(tree, ps[i].node)]

Filter == INSTANCE ParticleFilter WITH trajectories <- TrajectoriesOf(particles),
                                       copies <- TrajectoriesOf(other)

\* The tree of nodes shared by the particles gives each its own trajectory.
FilterImplemented == Filter!Spec
=============================================================================

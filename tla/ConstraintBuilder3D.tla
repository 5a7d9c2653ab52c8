------------------------- MODULE ConstraintBuilder3D -------------------------
(***************************************************************************)
(* mapping_3d::sparse_pose_graph::ConstraintBuilder.  It counts, parks and *)
(* calls back as the builder in two dimensions does; its scan matchers are *)
(* built from the grid of a submap and from the nodes that were inserted   *)
(* into it, a copy of which travels with the work item that builds the     *)
(* matcher.                                                                *)
(***************************************************************************)
EXTENDS ConstraintBuilder

VARIABLES submap_nodes,  \* the nodes captured by the construction of each matcher
          histograms     \* the nodes in the rotational histogram of each matcher

nodeVars == <<submap_nodes, histograms>>

Init3D == /\ Init
          /\ submap_nodes = [s \in Submaps |-> None]
          /\ histograms = [s \in Submaps |-> None]

\* Only the call that schedules the construction has its nodes captured.
Capture(s, nodes) ==
    submap_nodes' = IF s \notin scan_matchers /\ queued_work_items[s] = {}
                    THEN [submap_nodes EXCEPT ![s] = nodes] ELSE submap_nodes

MaybeAddConstraint3D(s, n, nodes) ==
    \/ AddComputation(s, n, FALSE) /\ Capture(s, nodes) /\ UNCHANGED histograms
    \/ ~failed /\ UNCHANGED <<vars, nodeVars>>

MaybeAddGlobalConstraint3D(s, n, nodes) ==
    /\ AddComputation(s, n, TRUE)
    /\ Capture(s, nodes)
    /\ UNCHANGED histograms

NotifyEndOfScan3D == NotifyEndOfScan /\ UNCHANGED nodeVars

WhenDone3D(callback) == WhenDone(callback) /\ UNCHANGED nodeVars

ConstructSubmapScanMatcher3D(w) ==
    LET s == executing[w].submap
    IN  /\ ConstructSubmapScanMatcher(w)
        /\ histograms' = [histograms EXCEPT ![s] = submap_nodes[s]]
        /\ UNCHANGED submap_nodes

ComputeConstraint3D(w, match) == ComputeConstraint(w, match) /\ UNCHANGED nodeVars

FinishComputation3D(w) == FinishComputation(w) /\ UNCHANGED nodeVars

ReturnFromCallback3D(w) == ReturnFromCallback(w) /\ UNCHANGED nodeVars
=============================================================================

-------------------------- MODULE SparsePoseGraph3D --------------------------
(***************************************************************************)
(* mapping_3d::SparsePoseGraph over its ConstraintBuilder.  The queue, the *)
(* locks and the optimizations are those of the pose graph in two          *)
(* dimensions: each action is the one of SparsePoseGraph together with     *)
(* what the 3D builder does beside the 2D one, so that a behaviour of this *)
(* module, seen without the nodes of the matchers, is one of               *)
(* SparsePoseGraph.                                                        *)
(***************************************************************************)
EXTENDS SparsePoseGraph, TLC

VARIABLES submap_nodes, histograms   \* of ConstraintBuilder3D

nodeVars == <<submap_nodes, histograms>>
vars3D == <<vars, nodeVars>>

CB3 == INSTANCE ConstraintBuilder3D
        WITH Submaps <- SubmapIds, Nodes <- NodeIds, constraints <- slots,
             Callbacks <- {"loop_closure", "final"}, MaxSlots <- 0,
             MaxScans <- MaxNodes * Cardinality(Trajectories)

Init3D == Init /\ CB3!Init3D
-----------------------------------------------------------------------------
(* Main. *)

AddScan3D(t) == AddScan(t) /\ UNCHANGED nodeVars

AppendScan3D == AppendScan /\ UNCHANGED nodeVars

AddImuData3D == AddImuData /\ UNCHANGED nodeVars

RunFinalOptimization3D == RunFinalOptimization /\ UNCHANGED nodeVars

WaitForAllComputations3D(here, next) ==
    WaitForAllComputations(here, next) /\ CB3!WhenDone3D("final")

AwaitNotification3D(here, next) == AwaitNotification(here, next) /\ UNCHANGED nodeVars

Destroy3D == Destroy /\ UNCHANGED nodeVars
-----------------------------------------------------------------------------
(* ComputeConstraintsForScan. *)

BeginScan3D(th) == BeginScan(th) /\ UNCHANGED nodeVars

\* Mutant: the scan that is being processed is not among them.
NodesBefore(submap) ==
    {n \in submap_states[submap].node_ids : n[2] < node_data[n[1]] - 1}

\* The nodes that were inserted into the submap.
SubmapNodes(submap) == submap_states[submap].node_ids

\* ComputeConstraint: the nodes are collected at every call, used or not.
ComputeConstraint3D(pair) ==
    LET node == pair[1]
        submap == pair[2]
        same == node[1] = submap[1]
        connected == \E c \in connected_components : {node[1], submap[1]} \subseteq c
    IN  /\ ComputeConstraint(pair)
        /\ \/ ~same /\ CB3!MaybeAddGlobalConstraint3D(submap, node, SubmapNodes(submap))
           \/ /\ same \/ connected
              /\ CB3!MaybeAddConstraint3D(submap, node, SubmapNodes(submap))
           \/ ~same /\ ~connected /\ UNCHANGED <<builder, nodeVars>>

IssueConstraint3D(th) ==
    At(th, "issue") /\ \E pair \in scan.todo : ComputeConstraint3D(pair)

EndScan3D(th) == EndScan(th) /\ CB3!NotifyEndOfScan3D

RequestLoopClosure3D(th) == RequestLoopClosure(th) /\ UNCHANGED nodeVars

HandleScanQueue3D(th) == HandleScanQueue(th) /\ CB3!WhenDone3D("loop_closure")
-----------------------------------------------------------------------------
(* Workers. *)

ConstructSubmapScanMatcher3D(w) ==
    /\ BuilderStep(w)
    /\ CB3!ConstructSubmapScanMatcher3D(w)

BuilderStep3D(w) ==
    \/ ConstructSubmapScanMatcher3D(w)
    \/ BuilderStep(w) /\ CB3!Start(w) /\ UNCHANGED nodeVars
    \/ BuilderStep(w) /\ CB3!FinishComputation3D(w)

Match3D(w, match) == Match(w, match) /\ CB3!ComputeConstraint3D(w, match)

EnterCallback3D(w) == EnterCallback(w) /\ UNCHANGED nodeVars

RunOptimization3D(th) == RunOptimization(th) /\ UNCHANGED nodeVars

PublishOptimization3D(th) == PublishOptimization(th) /\ UNCHANGED nodeVars

Resume3D(w) == Resume(w) /\ UNCHANGED nodeVars

LeaveLoop3D(w) == LeaveLoop(w) /\ UNCHANGED nodeVars

WorkOffQueue3D(w) == WorkOffQueue(w) /\ UNCHANGED nodeVars

ReturnFromCallback3D(w) == ReturnFromCallback(w) /\ CB3!ReturnFromCallback3D(w)
-----------------------------------------------------------------------------
Common3D(th) == \/ BeginScan3D(th)
                \/ IssueConstraint3D(th)
                \/ EndScan3D(th)
                \/ RequestLoopClosure3D(th)
                \/ HandleScanQueue3D(th)
                \/ RunOptimization3D(th)
                \/ PublishOptimization3D(th)

WorkerStep3D(w) == \/ Common3D(w)
                   \/ BuilderStep3D(w)
                   \/ \E match \in BOOLEAN : Match3D(w, match)
                   \/ EnterCallback3D(w)
                   \/ Resume3D(w)
                   \/ LeaveLoop3D(w)
                   \/ WorkOffQueue3D(w)
                   \/ ReturnFromCallback3D(w)

MainStep3D == \/ Common3D(Main)
              \/ AppendScan3D
              \/ WaitForAllComputations3D("wait_final", "await_final")
              \/ AwaitNotification3D("await_final", "optimize")
              \/ WaitForAllComputations3D("wait_destroy", "await_destroy")
              \/ AwaitNotification3D("await_destroy", "destroy")
              \/ Destroy3D

MainCall3D == \/ \E t \in Trajectories : AddScan3D(t)
              \/ AddImuData3D
              \/ RunFinalOptimization3D

Next3D == \/ MainCall3D
          \/ MainStep3D
          \/ Rest /\ UNCHANGED nodeVars
          \/ \E w \in Workers : WorkerStep3D(w)

\* The workers are alike.
Symmetry == Permutations(Workers)

\* The nodes never keep a thread from its step: it has one here when it has one there.
Spec3D == Init3D /\ [][Next3D]_vars3D /\ Fairness
-----------------------------------------------------------------------------
\* constraint_builder.cc:138, sparse_pose_graph.cc:163: the matcher of a submap is built
\* from all the scans its grid was built from, and no other, although the nodes are
\* collected on one thread, from scans that may have been queued, long before another
\* thread uses them.  Submap i gets 2 * num_range_data scans, from i * num_range_data on.
InsertedScans(s) ==
    {<<s[1], k>> : k \in s[2] * NumRangeData .. (s[2] + 2) * NumRangeData - 1}
HistogramsComplete ==
    /\ \A s \in SubmapIds : submap_nodes[s] # None => submap_nodes[s] = InsertedScans(s)
    /\ \A s \in scan_matchers : histograms[s] = InsertedScans(s)

\* What a matcher is built from is final, the grid and the nodes.
MatcherInputFinal == MatchedSubmapsFinal /\ HistogramsComplete
=============================================================================

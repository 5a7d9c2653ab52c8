----------------------- MODULE SparsePoseGraph3DProofs -----------------------
(***************************************************************************)
(* The pose graph in three dimensions does to the state it shares with the *)
(* one in two dimensions what that one does, and builds the matcher of a   *)
(* submap from all the scans that were inserted into it.                   *)
(***************************************************************************)
EXTENDS SparsePoseGraph3D, SparsePoseGraphProofs

\* The steps of a thread inside of the pose graph.
LEMMA CommonSteps ==
    ASSUME NEW th, Common3D(th)
    PROVE  Common(th)
BY DEF Common3D, Common, BeginScan3D, IssueConstraint3D, IssueConstraint, ComputeConstraint3D,
       EndScan3D, RequestLoopClosure3D, HandleScanQueue3D, RunOptimization3D, PublishOptimization3D

LEMMA WorkerSteps ==
    ASSUME NEW w, WorkerStep3D(w)
    PROVE  WorkerStep(w)
BY CommonSteps
   DEF WorkerStep3D, WorkerStep, BuilderStep3D, ConstructSubmapScanMatcher3D, Match3D,
       EnterCallback3D, Resume3D, LeaveLoop3D, WorkOffQueue3D, ReturnFromCallback3D

LEMMA MainSteps ==
    ASSUME MainStep3D
    PROVE  MainStep
BY CommonSteps
   DEF MainStep3D, MainStep, AppendScan3D, WaitForAllComputations3D, AwaitNotification3D,
       Destroy3D

LEMMA NextSteps == [Next3D]_vars3D => [Next]_vars
<1> SUFFICES ASSUME [Next3D]_vars3D PROVE [Next]_vars
  OBVIOUS
<1>1. CASE MainCall3D
  BY <1>1 DEF MainCall3D, MainCall, AddScan3D, AddImuData3D, RunFinalOptimization3D, Next
<1>2. CASE MainStep3D
  BY <1>2, MainSteps DEF Next
<1>3. CASE Rest /\ UNCHANGED nodeVars
  BY <1>3 DEF Next
<1>4. CASE \E w \in Workers : WorkerStep3D(w)
  BY <1>4, WorkerSteps DEF Next
<1>5. CASE UNCHANGED vars3D
  BY <1>5 DEF vars3D
<1> QED
  BY <1>1, <1>2, <1>3, <1>4, <1>5 DEF Next3D

\* mapping_3d/sparse_pose_graph.cc: without the nodes that its scan matchers take along, a
\* behaviour of the pose graph in three dimensions is one of the pose graph in two; every
\* property of the one, a liveness property too, is one of the other.
THEOREM ImplementsPoseGraph == Spec3D => Spec
<1>1. Init3D => Init
  BY DEF Init3D
<1>2. [Next3D]_vars3D => [Next]_vars
  BY NextSteps
<1> QED
  BY <1>1, <1>2, PTL DEF Spec3D, Spec
-----------------------------------------------------------------------------
(* The nodes of the matchers.                                               *)

LEMMA Builder3DActions ==
    /\ \A s, n, g : CB3!AddComputation(s, n, g) <=> CBP!AddComputation(s, n, g)
    /\ \A w : CB3!Start(w) <=> CBP!Start(w)
    /\ \A w : CB3!ConstructSubmapScanMatcher(w) <=> CBP!ConstructSubmapScanMatcher(w)
    /\ \A w : CB3!FinishComputation(w) <=> CBP!FinishComputation(w)
<1>1. \A s, n, g : CB3!AddComputation(s, n, g) <=> CBP!AddComputation(s, n, g)
  BY DEF CB3!AddComputation, CBP!AddComputation, CB3!ScheduleOrQueue, CBP!ScheduleOrQueue,
     CB3!Pool!Schedule, CBP!Pool!Schedule
<1>2. \A w : CB3!Start(w) <=> CBP!Start(w)
  BY DEF CB3!Start, CBP!Start, CB3!Pool!Start, CBP!Pool!Start, CB3!matchvars, CBP!matchvars,
     CB3!clientvars, CBP!clientvars
<1>3. \A w : CB3!ConstructSubmapScanMatcher(w) <=> CBP!ConstructSubmapScanMatcher(w)
  BY DEF CB3!ConstructSubmapScanMatcher, CBP!ConstructSubmapScanMatcher, CB3!Executes,
     CBP!Executes, CB3!clientvars, CBP!clientvars
<1>4. \A w : CB3!FinishComputation(w) <=> CBP!FinishComputation(w)
  BY DEF CB3!FinishComputation, CBP!FinishComputation, CB3!Executes, CBP!Executes,
     CB3!LastPending, CBP!LastPending, CB3!Left, CBP!Left, CB3!Found, CBP!Found,
     CB3!Pool!Finish, CBP!Pool!Finish, CB3!poolvars, CBP!poolvars, CB3!Computations,
     CBP!Computations
<1> QED
  BY <1>1, <1>2, <1>3, <1>4

\* The scans of a submap that is complete are those that were inserted into it.
LEMMA NodesOfSubmap ==
    ASSUME GraphInv, NEW s \in DOMAIN submap_states, Complete(s)
    PROVE  SubmapNodes(s) = InsertedScans(s)
<1>0. NumRangeData \in Nat \ {0} /\ MaxNodes \in Nat
  BY BoundsAssumption DEF BoundsAssumption
<1>1. PICK t \in Trajectories, j \in Nat : s = <<t, j>>
  BY <1>0 DEF GraphInv, GraphOK, SubmapIds
<1>2. PICK low \in Nat, high \in Nat : low = j * NumRangeData /\ high = (j + 2) * NumRangeData
  BY <1>0
<1>3. PICK d \in Nat : d = node_data[t] /\ high <= d /\ d <= MaxNodes
  BY <1>0, <1>1, <1>2, LenProperties DEF Complete, GraphInv, CountsOK
<1>4. /\ SubmapNodes(s) \subseteq NodeIds
      /\ \A n \in NodeIds : n \in SubmapNodes(s) <=>
             n[1] = t /\ low <= n[2] /\ n[2] < high /\ n[2] < node_data[n[1]]
  BY <1>1, <1>2 DEF SubmapNodes, GraphInv, GraphOK, Inserts
<1>5. InsertedScans(s) = {<<t, k>> : k \in low..high - 1}
  BY <1>1, <1>2 DEF InsertedScans
<1>6. ASSUME NEW n \in SubmapNodes(s) PROVE n \in InsertedScans(s)
  <2>1. PICK u \in Trajectories, k \in Nat : n = <<u, k>>
    BY <1>0, <1>4 DEF NodeIds
  <2>2. u = t /\ k \in low..high - 1
    BY <1>4, <2>1
  <2> QED
    BY <1>5, <2>1, <2>2
<1>7. ASSUME NEW n \in InsertedScans(s) PROVE n \in SubmapNodes(s)
  <2>1. PICK k \in low..high - 1 : n = <<t, k>>
    BY <1>5
  <2>2. k \in Nat /\ low <= k /\ k < high /\ k < d /\ k \in 0..MaxNodes - 1
    BY <1>0, <1>3
  <2>3. n \in NodeIds
    BY <2>1, <2>2 DEF NodeIds
  <2> QED
    BY <1>3, <1>4, <2>1, <2>2, <2>3
<1> QED
  BY <1>6, <1>7

\* What a matcher is or will be built from.
MatchersOK ==
    /\ submap_nodes \in [SubmapIds -> (SUBSET NodeIds) \cup {None}]
    /\ histograms \in [SubmapIds -> (SUBSET NodeIds) \cup {None}]
    /\ \A s \in SubmapIds : submap_nodes[s] # None => submap_nodes[s] = InsertedScans(s)
    /\ \A t \in CBP!Unfinished :
          t.kind = "construct" => submap_nodes[t.submap] = InsertedScans(t.submap)
    /\ \A s \in scan_matchers : histograms[s] = InsertedScans(s)

LEMMA RestingMatchers ==
    ASSUME MatchersOK, UNCHANGED <<submap_nodes, histograms, scan_matchers>>,
           \A t \in CBP!Unfinished' : t.kind = "construct" => t \in CBP!Unfinished
    PROVE  MatchersOK'
BY DEF MatchersOK, InsertedScans

LEMMA IssueCaptures ==
    ASSUME GraphInv, MatchingInv, MatchersOK, NEW th \in Threads, IssueConstraint3D(th)
    PROVE  MatchersOK'
<1>0. /\ CBP!ConstantsOK /\ CBP!BuilderInv
      /\ ScanOK /\ PairsOK
  BY BuilderAssumption, BuilderDefs DEF BuilderAssumption, GraphInv, ThreadInv, MatchingInv
<1>1. PICK pair \in scan.todo : ComputeConstraint3D(pair)
  BY DEF IssueConstraint3D
<1>2. pair \in Todo /\ pair[1] \in NodeIds /\ pair[2] \in SubmapIds
  BY <1>0, TodoType DEF IssueConstraint3D, At, Scans
<1>3. PICK s, n : s = pair[2] /\ n = pair[1]
  OBVIOUS
<1>4. s \in SubmapIds /\ n \in NodeIds /\ SubmapNodes(s) = InsertedScans(s)
      /\ SubmapNodes(s) \subseteq NodeIds
  BY <1>0, <1>2, <1>3, TodoIsComplete, NodesOfSubmap DEF SubmapNodes, GraphInv, GraphOK
<1>5. ASSUME NEW g \in BOOLEAN, CB3!AddComputation(s, n, g), CB3!Capture(s, SubmapNodes(s)),
             UNCHANGED histograms
      PROVE  MatchersOK'
  <2>1. CBP!AddComputation(s, n, g)
    BY <1>5, Builder3DActions
  <2>2. /\ UNCHANGED scan_matchers
        /\ \A t \in CBP!Unfinished' : t \in CBP!Unfinished \/ (t.submap = s /\ t.kind # "finish")
        /\ \A t \in CBP!Unfinished' : t.kind = "construct" =>
              \/ t \in CBP!Unfinished
              \/ s \notin scan_matchers /\ queued_work_items[s] = {}
    BY <1>0, <1>4, <2>1, CBP!AddBringsMatch DEF CBP!AddBringsMatch
  <2>3. CASE s \notin scan_matchers /\ queued_work_items[s] = {}
    <3>1. submap_nodes' = [submap_nodes EXCEPT ![s] = InsertedScans(s)]
      BY <1>4, <1>5, <2>3 DEF CB3!Capture
    <3>2. submap_nodes' \in [SubmapIds -> (SUBSET NodeIds) \cup {None}]
          /\ submap_nodes'[s] = InsertedScans(s)
          /\ \A r \in SubmapIds \ {s} : submap_nodes'[r] = submap_nodes[r]
      BY <1>4, <3>1 DEF MatchersOK
    <3>3. \A r : InsertedScans(r)' = InsertedScans(r)
      BY DEF InsertedScans
    <3>4. \A t \in CBP!Unfinished : t.kind = "construct" => t.submap \in SubmapIds
      BY DEF MatchingInv, MatchesComplete
    <3>5. \A t \in CBP!Unfinished' :
             t.kind = "construct" => submap_nodes'[t.submap] = InsertedScans(t.submap)
      BY <2>2, <3>2, <3>4 DEF MatchersOK
    <3> QED
      BY <1>5, <2>2, <3>2, <3>3, <3>5 DEF MatchersOK
  <2>4. CASE ~ (s \notin scan_matchers /\ queued_work_items[s] = {})
    <3>1. UNCHANGED submap_nodes
      BY <1>5, <2>4 DEF CB3!Capture
    <3> QED
      BY <1>5, <2>2, <2>4, <3>1, RestingMatchers
  <2> QED
    BY <2>3, <2>4
<1>6. ASSUME UNCHANGED <<builder, nodeVars>> PROVE MatchersOK'
  <2>1. UNCHANGED <<CBP!vars, submap_nodes, histograms, scan_matchers>>
    BY <1>6 DEF CBP!vars, CBP!clientvars, CBP!matchvars, CBP!poolvars, builder, nodeVars
  <2> QED
    BY <1>0, <2>1, CBP!ClientBringsNoMatch, RestingMatchers DEF CBP!ClientBringsNoMatch
<1>7. CASE CB3!MaybeAddGlobalConstraint3D(s, n, SubmapNodes(s))
  BY <1>5, <1>7 DEF CB3!MaybeAddGlobalConstraint3D
<1>8. CASE CB3!MaybeAddConstraint3D(s, n, SubmapNodes(s))
  <2>1. UNCHANGED <<CB3!vars, CB3!nodeVars>> => UNCHANGED <<builder, nodeVars>>
    BY DEF CB3!vars, CB3!clientvars, CB3!matchvars, CB3!poolvars, CB3!nodeVars, builder, nodeVars
  <2> QED
    BY <1>5, <1>6, <1>8, <2>1 DEF CB3!MaybeAddConstraint3D
<1> QED
  BY <1>1, <1>3, <1>6, <1>7, <1>8 DEF ComputeConstraint3D

LEMMA ConstructionTakesNodes ==
    ASSUME GraphInv, MatchersOK, NEW w \in Workers, ConstructSubmapScanMatcher3D(w)
    PROVE  MatchersOK'
<1>1. CBP!ConstructSubmapScanMatcher(w)
  BY Builder3DActions DEF ConstructSubmapScanMatcher3D, CB3!ConstructSubmapScanMatcher3D
<1>2. PICK s : s = executing[w].submap
  OBVIOUS
<1>3. /\ CBP!Unfinished' \subseteq CBP!Unfinished
      /\ executing[w] \in CBP!Unfinished /\ executing[w].kind = "construct"
      /\ s \in SubmapIds
      /\ scan_matchers' = scan_matchers \cup {s}
  BY <1>1, <1>2, BuilderAssumption, BuilderDefs, CBP!ConstructionBringsNoItem
     DEF BuilderAssumption, CBP!ConstructionBringsNoItem, GraphInv, ThreadInv
<1>4. /\ UNCHANGED submap_nodes
      /\ histograms' = [histograms EXCEPT ![s] = submap_nodes[s]]
      /\ submap_nodes[s] = InsertedScans(s)
  BY <1>2, <1>3 DEF ConstructSubmapScanMatcher3D, CB3!ConstructSubmapScanMatcher3D, MatchersOK
<1>5. /\ histograms' \in [SubmapIds -> (SUBSET NodeIds) \cup {None}]
      /\ histograms'[s] = InsertedScans(s)
      /\ \A r \in SubmapIds \ {s} : histograms'[r] = histograms[r]
  BY <1>3, <1>4 DEF MatchersOK
<1>6. scan_matchers \subseteq SubmapIds
  BY DEF GraphInv, ThreadInv, CBP!BuilderInv, CBP!TypeOK
<1>7. \A r : InsertedScans(r)' = InsertedScans(r)
  BY DEF InsertedScans
<1> QED
  BY <1>3, <1>4, <1>5, <1>6, <1>7 DEF MatchersOK

\* The other steps leave the nodes alone, and bring nothing to build.
LEMMA MatchersRest ==
    ASSUME GraphInv, MatchersOK, [Next3D]_vars3D, ~failed',
           ~ \E th \in Threads : IssueConstraint3D(th),
           ~ \E w \in Workers : ConstructSubmapScanMatcher3D(w)
    PROVE  MatchersOK'
<1> DEFINE Brings == /\ \A t \in CBP!Unfinished' : t.kind = "construct" => t \in CBP!Unfinished
                     /\ UNCHANGED scan_matchers
<1>0. /\ CBP!ConstantsOK /\ CBP!BuilderInv /\ failed = FALSE
      /\ \A w \in Workers : w \in Threads
      /\ Main \in Threads
  BY BuilderAssumption, BuilderDefs
     DEF BuilderAssumption, GraphInv, ThreadInv, CBP!BuilderInv, CBP!NoCheckFails, Threads
<1>1. ASSUME UNCHANGED builderButFailed PROVE Brings
  <2>1. UNCHANGED <<work_queue, queued_work_items, executing, call, scan_matchers>>
    BY <1>1 DEF builderButFailed
  <2>2. CBP!Unfinished' = CBP!Unfinished
    BY <2>1 DEF CBP!Unfinished
  <2> QED
    BY <2>1, <2>2
<1>2. ASSUME CBP!NotifyEndOfScan \/ \E c \in {"loop_closure", "final"} : CBP!WhenDone(c)
      PROVE  Brings
  BY <1>0, <1>2, CBP!ClientBringsNoMatch DEF CBP!ClientBringsNoMatch
<1>3. ASSUME NEW w \in Workers,
             \/ CBP!Start(w) \/ (\E match \in BOOLEAN : CBP!ComputeConstraint(w, match))
             \/ CBP!FinishComputation(w) \/ CBP!ReturnFromCallback(w)
      PROVE  Brings
  BY <1>0, <1>3, CBP!WorkersBringNoItem DEF CBP!WorkersBringNoItem
<1>4. CASE MainCall3D \/ (Rest /\ UNCHANGED nodeVars) \/ UNCHANGED vars3D
  <2>1. UNCHANGED builderButFailed /\ UNCHANGED nodeVars
    BY <1>4 DEF MainCall3D, AddScan3D, AddImuData3D, RunFinalOptimization3D, AddScan, AddImuData,
       RunFinalOptimization, Rest, vars3D, vars, builder, builderButFailed
  <2> QED
    BY <1>1, <2>1, RestingMatchers DEF nodeVars
<1>5. ASSUME NEW th \in Threads, Common3D(th) PROVE MatchersOK'
  <2>1. CASE \/ BeginScan3D(th) \/ RequestLoopClosure3D(th) \/ RunOptimization3D(th)
             \/ PublishOptimization3D(th)
    <3>1. UNCHANGED builderButFailed /\ UNCHANGED nodeVars
      BY <2>1 DEF BeginScan3D, RequestLoopClosure3D, RunOptimization3D, PublishOptimization3D,
         BeginScan, RequestLoopClosure, RunOptimization, PublishOptimization, builder,
         builderButFailed
    <3> QED
      BY <1>1, <3>1, RestingMatchers DEF nodeVars
  <2>2. CASE EndScan3D(th) \/ HandleScanQueue3D(th)
    <3>1. /\ CBP!NotifyEndOfScan \/ \E c \in {"loop_closure", "final"} : CBP!WhenDone(c)
          /\ UNCHANGED nodeVars
      BY <2>2, BuilderActions DEF EndScan3D, HandleScanQueue3D, EndScan, HandleScanQueue,
         CB3!NotifyEndOfScan3D, CB3!WhenDone3D, CB3!nodeVars, nodeVars
    <3> QED
      BY <1>2, <3>1, RestingMatchers DEF nodeVars
  <2> QED
    BY <1>5, <2>1, <2>2 DEF Common3D
<1>6. CASE MainStep3D
  <2>1. CASE \/ AppendScan3D \/ Destroy3D
             \/ AwaitNotification3D("await_final", "optimize")
             \/ AwaitNotification3D("await_destroy", "destroy")
    <3>1. UNCHANGED builderButFailed /\ UNCHANGED nodeVars
      BY <2>1 DEF AppendScan3D, Destroy3D, AwaitNotification3D, AppendScan, Destroy,
         AwaitNotification, builder, builderButFailed
    <3> QED
      BY <1>1, <3>1, RestingMatchers DEF nodeVars
  <2>2. CASE \/ WaitForAllComputations3D("wait_final", "await_final")
             \/ WaitForAllComputations3D("wait_destroy", "await_destroy")
    <3>1. CBP!WhenDone("final") /\ UNCHANGED nodeVars
      BY <2>2, BuilderActions DEF WaitForAllComputations3D, WaitForAllComputations,
         CB3!WhenDone3D, CB3!nodeVars, nodeVars
    <3> QED
      BY <1>2, <3>1, RestingMatchers DEF nodeVars
  <2> QED
    BY <1>0, <1>5, <1>6, <2>1, <2>2 DEF MainStep3D
<1>7. ASSUME NEW w \in Workers, WorkerStep3D(w) PROVE MatchersOK'
  <2>1. CASE BuilderStep3D(w)
    <3>1. (CBP!Start(w) \/ CBP!FinishComputation(w)) /\ UNCHANGED nodeVars
      BY <2>1, Builder3DActions DEF BuilderStep3D, CB3!FinishComputation3D, CB3!nodeVars, nodeVars
    <3> QED
      BY <1>3, <3>1, RestingMatchers DEF nodeVars
  <2>2. ASSUME NEW match \in BOOLEAN, Match3D(w, match) PROVE MatchersOK'
    <3>1. CBP!ComputeConstraint(w, match) /\ UNCHANGED nodeVars
      BY <2>2, BuilderActions DEF Match3D, Match, CB3!ComputeConstraint3D, CB3!nodeVars, nodeVars
    <3> QED
      BY <1>3, <3>1, RestingMatchers DEF nodeVars
  <2>3. CASE EnterCallback3D(w) \/ Resume3D(w) \/ LeaveLoop3D(w) \/ WorkOffQueue3D(w)
    <3>1. UNCHANGED builderButFailed /\ UNCHANGED nodeVars
      BY <2>3 DEF EnterCallback3D, Resume3D, LeaveLoop3D, WorkOffQueue3D, EnterCallback, Resume,
         LeaveLoop, WorkOffQueue, builder, builderButFailed
    <3> QED
      BY <1>1, <3>1, RestingMatchers DEF nodeVars
  <2>4. CASE ReturnFromCallback3D(w)
    <3>1. CBP!ReturnFromCallback(w) /\ UNCHANGED nodeVars
      BY <2>4, BuilderActions DEF ReturnFromCallback3D, ReturnFromCallback,
         CB3!ReturnFromCallback3D, CB3!nodeVars, nodeVars
    <3> QED
      BY <1>3, <3>1, RestingMatchers DEF nodeVars
  <2> QED
    BY <1>0, <1>5, <1>7, <2>1, <2>2, <2>3, <2>4 DEF WorkerStep3D
<1> QED
  BY <1>4, <1>5, <1>6, <1>7 DEF Next3D

LEMMA InitialMatchers ==
    ASSUME Init3D
    PROVE  MatchersOK
<1>1. /\ submap_nodes = [s \in SubmapIds |-> None]
      /\ histograms = [s \in SubmapIds |-> None]
      /\ CBP!Init
  BY BuilderDefs DEF Init3D, Init, CB3!Init3D
<1>2. scan_matchers = {} /\ CBP!Unfinished = {}
  BY <1>1, BuilderAssumption, BuilderDefs, CBP!InitialMatches
     DEF BuilderAssumption, CBP!InitialMatches, CBP!Init
<1> QED
  BY <1>1, <1>2 DEF MatchersOK

LEMMA MatchersInvariant == Spec3D => [](failed \/ (GraphInv /\ MatchingInv /\ MatchersOK))
<1>1. Init3D => MatchersOK
  BY InitialMatchers
<1>2. /\ failed \/ (GraphInv /\ MatchingInv)
      /\ failed \/ MatchersOK
      /\ [Next3D]_vars3D
      => (failed \/ MatchersOK)'
  <2>1. failed /\ [Next3D]_vars3D => failed'
    <3>1. [Next3D]_vars3D => [Next]_vars
      BY NextSteps
    <3> QED
      BY <3>1, FailedIsFinal DEF vars, builder
  <2>2. ASSUME GraphInv, MatchingInv, MatchersOK, [Next3D]_vars3D, ~failed' PROVE MatchersOK'
    BY <2>2, IssueCaptures, ConstructionTakesNodes, MatchersRest
  <2> QED
    BY <2>1, <2>2
<1>3. Spec3D => [](failed \/ (GraphInv /\ MatchingInv))
  BY ImplementsPoseGraph, MatchingInvariant, PTL
<1> QED
  BY <1>1, <1>2, <1>3, PTL DEF Spec3D

\* mapping_3d: constraint_builder.cc:126-141, sparse_pose_graph.cc:161-167: as long as no
\* CHECK fails, in particular as long as RunFinalOptimization is not called, nothing is
\* inserted any more into a submap that is or will be matched in the background, and its
\* matcher is built from all the scans that went into it and no others, for any number of
\* range data per submap and however long the scans were queued.
THEOREM MatchersTakeAll ==
    /\ Spec3D => [](NoCheckFails => MatcherInputFinal)
    /\ ~Finishes => (Spec3D => []MatcherInputFinal)
<1>1. failed \/ (GraphInv /\ MatchingInv /\ MatchersOK) => (NoCheckFails => MatcherInputFinal)
  <2> SUFFICES ASSUME GraphInv, MatchingInv, MatchersOK PROVE MatcherInputFinal
    BY DEF NoCheckFails
  <2>1. MatchedSubmapsFinal
    BY MatchedAreFinal DEF MatchingInv
  <2> QED
    BY <2>1 DEF MatcherInputFinal, HistogramsComplete, MatchersOK
<1>2. Spec3D => [](NoCheckFails => MatcherInputFinal)
  BY <1>1, MatchersInvariant, PTL
<1>3. ASSUME ~Finishes PROVE Spec3D => []MatcherInputFinal
  BY <1>2, <1>3, ChecksPass, ImplementsPoseGraph, PTL
<1> QED
  BY <1>2, <1>3
=============================================================================

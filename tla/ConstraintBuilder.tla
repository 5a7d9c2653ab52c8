-------------------------- MODULE ConstraintBuilder --------------------------
(***************************************************************************)
(* mapping_2d::sparse_pose_graph::ConstraintBuilder: scan-to-submap        *)
(* matching in the background.  A client adds computations, marks the end  *)
(* of each scan, and registers with WhenDone a callback for the results.   *)
(* Matching runs on the thread pool, of which only the contract WorkPool   *)
(* is used.  A submap's scan matcher is built by a work item of its own,   *)
(* and computations that need it are parked until it is there.             *)
(*                                                                         *)
(* Each critical section of mutex_ is one action.  Whether a match is      *)
(* found is a nondeterministic choice.  A failed CHECK ends the program:   *)
(* failed is then TRUE and no action is enabled.                           *)
(***************************************************************************)
EXTENDS Integers, Sequences, FiniteSets

CONSTANTS Workers,    \* the threads of the pool
          Submaps,    \* submap ids
          Nodes,      \* node ids
          Callbacks,  \* what clients pass to WhenDone
          None,       \* a null pointer
          Idle,       \* what a worker without a work item executes
          MaxScans,   \* bound: calls of NotifyEndOfScan
          MaxSlots    \* bound: computations added in one WhenDone cycle

Computations == 0..MaxScans

\* The work items: one match, the construction of one scan matcher, and the
\* empty computation that WhenDone adds.
ComputeTasks == [kind : {"compute"}, submap : Submaps, node : Nodes,
                 global : BOOLEAN, comp : Computations, slot : Nat \ {0}]
ConstructTasks == [kind : {"construct"}, submap : Submaps]
FinishTasks == [kind : {"finish"}, comp : Computations]
Tasks == ComputeTasks \cup ConstructTasks \cup FinishTasks

Constraint == [submap : Submaps, node : Nodes]
Call == [callback : Callbacks, result : SUBSET Constraint]

\* What has to hold of the constants: a null pointer and a missing work item are none of
\* the values they stand beside.  Who instantiates the module answers for it.
ConstantsOK == /\ MaxScans \in Nat
               /\ None \notin Callbacks \cup Constraint \cup Call
               /\ Idle \notin Tasks

VARIABLES when_done,            \* when_done_
          current_computation,  \* current_computation_
          pending_computations, \* pending_computations_; 0 is a missing key
          constraints,          \* constraints_: None until a match is stored
          scan_matchers,        \* submaps whose scan matcher exists
          queued_work_items,    \* submap_queued_work_items_; {} is a missing key
          work_queue,           \* work items waiting in the pool
          executing,            \* the work item each worker executes
          computed,             \* workers past ComputeConstraint
          call,                 \* the callback a worker runs, with its result
          failed                \* a CHECK failed

clientvars == <<when_done, current_computation, pending_computations>>
matchvars == <<constraints, scan_matchers, queued_work_items>>
poolvars == <<work_queue, executing>>
vars == <<clientvars, matchvars, poolvars, computed, call, failed>>

Pool == INSTANCE WorkPool WITH Items <- Tasks, waiting <- work_queue,
                               open <- TRUE

Init == /\ when_done = None
        /\ current_computation = 0
        /\ pending_computations = [c \in Computations |-> 0]
        /\ constraints = <<>>
        /\ scan_matchers = {}
        /\ queued_work_items = [s \in Submaps |-> {}]
        /\ Pool!Init
        /\ computed = {}
        /\ call = [w \in Workers |-> None]
        /\ failed = FALSE
-----------------------------------------------------------------------------
(* What the client calls. *)

\* ScheduleSubmapScanMatcherConstructionAndQueueWorkItem: the first item that
\* needs a missing scan matcher also schedules its construction.
ScheduleOrQueue(s, t) ==
    IF s \in scan_matchers
    THEN Pool!Schedule({t}) /\ UNCHANGED queued_work_items
    ELSE /\ queued_work_items' = [queued_work_items EXCEPT ![s] = @ \cup {t}]
         /\ Pool!Schedule(IF queued_work_items[s] = {}
                          THEN {[kind |-> "construct", submap |-> s]}
                          ELSE {})

\* A new slot for the result, counted in the current computation.
AddComputation(s, n, global) ==
    LET t == [kind |-> "compute", submap |-> s, node |-> n, global |-> global,
              comp |-> current_computation, slot |-> Len(constraints) + 1]
    IN  /\ ~failed
        /\ constraints' = Append(constraints, None)
        /\ pending_computations' =
              [pending_computations EXCEPT ![current_computation] = @ + 1]
        /\ ScheduleOrQueue(s, t)
        /\ UNCHANGED <<when_done, current_computation, scan_matchers, computed,
                       call, failed>>

\* Nothing is added when the scan is too far away or not sampled.
MaybeAddConstraint(s, n) == \/ AddComputation(s, n, FALSE)
                            \/ ~failed /\ UNCHANGED vars

MaybeAddGlobalConstraint(s, n) == AddComputation(s, n, TRUE)

NotifyEndOfScan == /\ ~failed
                   /\ current_computation < MaxScans
                   /\ current_computation' = current_computation + 1
                   /\ UNCHANGED <<when_done, pending_computations, matchvars,
                                  poolvars, computed, call, failed>>

\* An empty computation makes sure that FinishComputation will be called.
WhenDone(callback) ==
    /\ ~failed
    /\ failed' = (when_done # None)
    /\ when_done' = callback
    /\ pending_computations' =
          [pending_computations EXCEPT ![current_computation] = @ + 1]
    /\ Pool!Schedule({[kind |-> "finish", comp |-> current_computation]})
    /\ UNCHANGED <<current_computation, matchvars, computed, call>>

\* The keys of pending_computations_.
PendingScans == {c \in Computations : pending_computations[c] # 0}

GetNumFinishedScans ==
    IF PendingScans = {} THEN current_computation
    ELSE CHOOSE c \in PendingScans : \A d \in PendingScans : c <= d
-----------------------------------------------------------------------------
(* What the workers do. *)

Start(w) == /\ ~failed
            /\ Pool!Start(w)
            /\ UNCHANGED <<clientvars, matchvars, computed, call, failed>>

Executes(w, kind) == /\ executing[w] # Idle
                     /\ executing[w].kind = kind
                     /\ call[w] = None

\* The matcher is stored and the items that waited for it are scheduled.
ConstructSubmapScanMatcher(w) ==
    LET s == executing[w].submap
    IN  /\ ~failed
        /\ Executes(w, "construct")
        /\ scan_matchers' = scan_matchers \cup {s}
        /\ work_queue' = work_queue \cup queued_work_items[s]
        /\ queued_work_items' = [queued_work_items EXCEPT ![s] = {}]
        /\ executing' = [executing EXCEPT ![w] = Idle]
        /\ UNCHANGED <<clientvars, constraints, computed, call, failed>>

\* ComputeConstraint: a successful match is written through the pointer to the
\* slot.  The scan matcher has to exist (GetSubmapScanMatcher).
ComputeConstraint(w, match) ==
    LET t == executing[w]
    IN  /\ ~failed
        /\ Executes(w, "compute")
        /\ w \notin computed
        /\ computed' = computed \cup {w}
        /\ constraints' =
              IF match
              THEN [constraints EXCEPT
                       ![t.slot] = [submap |-> t.submap, node |-> t.node]]
              ELSE constraints
        /\ failed' = (t.submap \notin scan_matchers)
        /\ UNCHANGED <<clientvars, scan_matchers, queued_work_items, poolvars,
                       call>>

\* The constraints found since the last callback.
Found == {constraints[i] : i \in DOMAIN constraints} \ {None}

\* Mutant: the current computation is decremented.
LeftOfCurrent(w) == [pending_computations EXCEPT ![current_computation] = @ - 1]

\* pending_computations_ without the computation of worker w.
Left(w) == [pending_computations EXCEPT ![executing[w].comp] = @ - 1]

\* Mutant: the last computation of its own scan.
LastOfItsScan(w) == Left(w)[executing[w].comp] = 0

LastPending(w) == \A c \in Computations : Left(w)[c] = 0

\* The last pending computation takes the callback and the constraints found.
FinishComputation(w) ==
    LET done == LastPending(w)
    IN  /\ ~failed
        /\ Executes(w, "finish") \/ (Executes(w, "compute") /\ w \in computed)
        /\ pending_computations' = Left(w)
        /\ computed' = computed \ {w}
        /\ failed' = (done /\ \E s \in Submaps : queued_work_items[s] # {})
        /\ IF done /\ when_done # None
           THEN /\ call' = [call EXCEPT ![w] = [callback |-> when_done,
                                                result |-> Found]]
                /\ when_done' = None
                /\ constraints' = <<>>
                /\ UNCHANGED poolvars
           ELSE /\ Pool!Finish(w)
                /\ UNCHANGED <<call, when_done, constraints>>
        /\ UNCHANGED <<current_computation, scan_matchers, queued_work_items>>

\* The callback returns, and with it the work item.
ReturnFromCallback(w) == /\ ~failed
                         /\ call[w] # None
                         /\ call' = [call EXCEPT ![w] = None]
                         /\ Pool!Finish(w)
                         /\ UNCHANGED <<clientvars, matchvars, computed, failed>>
-----------------------------------------------------------------------------
\* The client keeps to constraint_builder.h:47-50: one WhenDone per cycle.  Bound: only
\* the first computation of a cycle is global.
Client == \/ \E s \in Submaps, n \in Nodes :
                \/ Len(constraints) < MaxSlots /\ MaybeAddConstraint(s, n)
                \/ constraints = <<>> /\ MaybeAddGlobalConstraint(s, n)
          \/ NotifyEndOfScan
          \/ when_done = None /\ \E callback \in Callbacks : WhenDone(callback)

Worker(w) == \/ Start(w)
             \/ ConstructSubmapScanMatcher(w)
             \/ \E match \in BOOLEAN : ComputeConstraint(w, match)
             \/ FinishComputation(w)
             \/ ReturnFromCallback(w)

Next == Client \/ \E w \in Workers : Worker(w)

Spec == Init /\ [][Next]_vars
-----------------------------------------------------------------------------
\* The state has the types of the members; no count is negative.
TypeOK == /\ when_done \in Callbacks \cup {None}
          /\ current_computation \in Computations
          /\ pending_computations \in [Computations -> Nat]
          /\ constraints \in Seq(Constraint \cup {None})
          /\ scan_matchers \subseteq Submaps
          /\ queued_work_items \in [Submaps -> SUBSET ComputeTasks]
          /\ work_queue \subseteq Tasks
          /\ executing \in [Workers -> Tasks \cup {Idle}]
          /\ computed \subseteq Workers
          /\ call \in [Workers -> Call \cup {None}]
          /\ failed \in BOOLEAN

\* Work items whose FinishComputation, or construction, is still to come.
Unfinished == work_queue \cup (UNION {queued_work_items[s] : s \in Submaps})
              \cup {executing[w] : w \in {v \in Workers :
                                    executing[v] # Idle /\ call[v] = None}}
Counted(c) == {t \in Unfinished : t.kind # "construct" /\ t.comp = c}

\* pending_computations_ counts exactly the computations that have not reached
\* FinishComputation, scan by scan: none is forgotten or counted twice.
PendingCounts ==
    \A c \in Computations : pending_computations[c] = Cardinality(Counted(c))

\* The slot a computation writes to exists, is empty until it writes, and is
\* its own: the deque is never cleared under a computation that holds a
\* pointer into it, whatever the order of FinishComputation calls.
OwnSlot ==
    /\ \A t \in Unfinished : t.kind = "compute" =>
          /\ t.slot \in DOMAIN constraints
          /\ \A u \in Unfinished :
                u.kind = "compute" /\ u.slot = t.slot => u = t
    /\ \A t \in Unfinished \ {executing[w] : w \in computed} :
          t.kind = "compute" => constraints[t.slot] = None

\* A scan matcher is built once, and never while a computation may be using
\* it; a computation that runs finds it built.
MatcherStable ==
    /\ \A t \in Unfinished : t.kind = "construct" => t.submap \notin scan_matchers
    /\ \A s \in Submaps : queued_work_items[s] # {} =>
          [kind |-> "construct", submap |-> s] \in Unfinished
    /\ \A t \in work_queue \cup Pool!Executing :
          t.kind = "compute" => t.submap \in scan_matchers

\* constraint_builder.cc:72-84, 131-149, 245-275: computations that end on any thread in
\* any order are counted, keep the slots they were given and find their matcher.
ComputationsTracked == PendingCounts /\ OwnSlot /\ MatcherStable

\* With a client that keeps to the contract no CHECK of the class fails.
NoCheckFails == ~failed

\* constraint_builder.h:102-103, 145-146: a callback is run only when every
\* computation it waited for has finished; what was found up to then is in its
\* result and not kept for a later one.
ResultsComplete ==
    [][\A w \in Workers : call[w] = None /\ call'[w] # None =>
          /\ \A t \in Unfinished : t.kind = "construct" \/ t = executing[w]
          /\ \A i \in DOMAIN constraints :
                constraints[i] \in call'[w].result \cup {None}
          /\ constraints' = <<>>]_vars

\* constraint_builder.h:106: the finished scans are counted consecutively, so
\* the number never goes back, even when older scans are matched against a
\* submap that has just been finished.
FinishedScansMonotone == [][GetNumFinishedScans' >= GetNumFinishedScans]_vars

\* What a client of the builder sees of the computations: the callbacks and the count.
ComputationsReported == ResultsComplete /\ FinishedScansMonotone
=============================================================================

----------------------- MODULE ConstraintBuilderProofs -----------------------
(***************************************************************************)
(* The bookkeeping of the constraint builder, for any submaps, nodes,      *)
(* workers and callbacks, and for any order in which the workers end.      *)
(***************************************************************************)
EXTENDS ConstraintBuilder, FiniteSetTheorems, SequenceTheorems, WellFoundedInduction, TLAPS

\* Worker w executes a work item that has not been finished.
Holds(w) == executing[w] # Idle /\ call[w] = None

\* Computations count for the callback, constructions do not.
IsComputation(t) == t.kind # "construct"

\* A work item is in one place: it waits in the pool, or is parked for the matcher of its
\* submap, or is executed by one worker.
OnePlace ==
    /\ \A w \in Workers : call[w] # None => executing[w] # Idle /\ w \notin computed
    /\ \A w \in computed : /\ Holds(w)
                           /\ executing[w].kind = "compute"
    /\ \A w \in Workers : Holds(w) =>
          /\ executing[w] \notin work_queue
          /\ \A s \in Submaps : executing[w] \notin queued_work_items[s]
          /\ \A v \in Workers : Holds(v) /\ executing[v] = executing[w] => v = w
    /\ \A s \in Submaps : \A t \in queued_work_items[s] :
          t \notin work_queue /\ t.submap = s

\* While a submap's items are parked, and only then, its matcher is to be built.
ParkedForConstruction ==
    \A t \in Unfinished : t.kind = "construct" => queued_work_items[t.submap] # {}

\* Only scans that have been started are counted, each by a finite number.
CountsFinite ==
    /\ IsFiniteSet(Unfinished)
    /\ \A t \in Unfinished : IsComputation(t) => t.comp <= current_computation

\* The empty computation of WhenDone is there only while its callback is.
CallbackWaits ==
    \A t \in Unfinished : t.kind = "finish" => when_done # None

BuilderInv == /\ TypeOK
              /\ OnePlace
              /\ MatcherStable
              /\ ParkedForConstruction
              /\ CountsFinite
              /\ PendingCounts
              /\ OwnSlot
              /\ CallbackWaits
              /\ NoCheckFails
-----------------------------------------------------------------------------
\* Where an unfinished item can be.
LEMMA UnfinishedItem ==
    \A t : t \in Unfinished <=> \/ t \in work_queue
                                \/ \E s \in Submaps : t \in queued_work_items[s]
                                \/ \E w \in Workers : Holds(w) /\ t = executing[w]
BY DEF Unfinished, Holds

LEMMA UnfinishedItemAfter ==
    \A t : t \in Unfinished' <=> \/ t \in work_queue'
                                 \/ \E s \in Submaps : t \in queued_work_items'[s]
                                 \/ \E w \in Workers : Holds(w)' /\ t = executing'[w]
BY DEF Unfinished, Holds

LEMMA UnfinishedAreTasks ==
    ASSUME TypeOK
    PROVE  Unfinished \subseteq Tasks
BY DEF TypeOK, Unfinished, Tasks

\* A null pointer is no callback, constraint or call; an idle worker has no item.
LEMMA Nulls ==
    ASSUME ConstantsOK
    PROVE  /\ MaxScans \in Nat
           /\ None \notin Callbacks
           /\ None \notin Constraint
           /\ None \notin Call
           /\ Idle \notin Tasks
BY DEF ConstantsOK

LEMMA TaskFields ==
    \A t \in Tasks : /\ t.kind \in {"compute", "construct", "finish"}
                     /\ t.kind = "compute" => t \in ComputeTasks
                     /\ t.kind = "construct" => t \in ConstructTasks
                     /\ t.kind = "finish" => t \in FinishTasks
                     /\ t.kind # "construct" => t.comp \in Computations
BY DEF Tasks, ComputeTasks, ConstructTasks, FinishTasks

LEMMA ComputeFields ==
    \A t \in ComputeTasks : /\ t \in Tasks
                            /\ t.kind = "compute"
                            /\ t.submap \in Submaps
                            /\ t.node \in Nodes
                            /\ t.comp \in Computations
                            /\ t.slot \in Nat \ {0}
BY DEF Tasks, ComputeTasks
-----------------------------------------------------------------------------
\* A worker starts an item: it only changes its place.
LEMMA StartKeepsInv ==
    ASSUME ConstantsOK, BuilderInv, NEW w \in Workers, Start(w)
    PROVE  BuilderInv'
<1> USE Nulls DEF BuilderInv
<1>1. PICK i \in work_queue :
         /\ executing[w] = Idle
         /\ work_queue' = work_queue \ {i}
         /\ executing' = [executing EXCEPT ![w] = i]
  BY DEF Start, Pool!Start
<1>2. UNCHANGED <<clientvars, matchvars, computed, call, failed>>
  BY DEF Start
<1>3. /\ i \in Tasks
      /\ i # Idle
      /\ call[w] = None
      /\ w \notin computed
      /\ ~Holds(w)
      /\ Holds(w)'
      /\ executing'[w] = i
      /\ \A v \in Workers \ {w} : executing'[v] = executing[v] /\ (Holds(v)' <=> Holds(v))
  BY <1>1, <1>2 DEF TypeOK, OnePlace, Holds
<1>4. Unfinished' = Unfinished
  BY <1>1, <1>2, <1>3, UnfinishedItem, UnfinishedItemAfter DEF matchvars
<1>5. TypeOK'
  BY <1>1, <1>2, <1>3 DEF TypeOK, clientvars, matchvars
<1>6. OnePlace'
  BY <1>1, <1>2, <1>3 DEF OnePlace, TypeOK, matchvars
<1>7. MatcherStable'
  BY <1>1, <1>2, <1>3, <1>4 DEF MatcherStable, TypeOK, matchvars, Pool!Executing
<1>8. ParkedForConstruction' /\ CountsFinite' /\ PendingCounts' /\ CallbackWaits' /\ NoCheckFails'
  BY <1>2, <1>4 DEF ParkedForConstruction, CountsFinite, PendingCounts, Counted, CallbackWaits,
     NoCheckFails, matchvars, clientvars
<1>9. OwnSlot'
  BY <1>1, <1>2, <1>3, <1>4 DEF OwnSlot, TypeOK, OnePlace, matchvars
<1> QED
  BY <1>5, <1>6, <1>7, <1>8, <1>9

\* The matcher of a submap is stored and its parked items go to the pool.
LEMMA ConstructKeepsInv ==
    ASSUME ConstantsOK, BuilderInv, NEW w \in Workers, ConstructSubmapScanMatcher(w)
    PROVE  BuilderInv'
<1> USE Nulls DEF BuilderInv
<1> DEFINE s == executing[w].submap
           parked == queued_work_items[s]
<1>1. /\ Holds(w)
      /\ executing[w].kind = "construct"
      /\ scan_matchers' = scan_matchers \cup {s}
      /\ work_queue' = work_queue \cup parked
      /\ queued_work_items' = [queued_work_items EXCEPT ![s] = {}]
      /\ executing' = [executing EXCEPT ![w] = Idle]
      /\ UNCHANGED <<clientvars, constraints, computed, call, failed>>
  BY DEF ConstructSubmapScanMatcher, Executes, Holds
<1>2. /\ executing[w] \in ConstructTasks
      /\ s \in Submaps
      /\ executing[w] = [kind |-> "construct", submap |-> s]
      /\ w \notin computed
  BY <1>1, TaskFields DEF TypeOK, Holds, OnePlace, ConstructTasks
<1>3. /\ ~Holds(w)'
      /\ executing'[w] = Idle
      /\ \A v \in Workers \ {w} : executing'[v] = executing[v] /\ (Holds(v)' <=> Holds(v))
  BY <1>1 DEF TypeOK, Holds
<1>4. /\ queued_work_items'[s] = {}
      /\ \A r \in Submaps \ {s} : queued_work_items'[r] = queued_work_items[r]
  BY <1>1, <1>2 DEF TypeOK
<1>5. Unfinished' = Unfinished \ {executing[w]}
  <2>1. ASSUME NEW t \in Unfinished' PROVE t \in Unfinished \ {executing[w]}
    <3>1. CASE t \in work_queue'
      BY <1>1, <1>2, <3>1, UnfinishedItem DEF OnePlace
    <3>2. CASE \E r \in Submaps : t \in queued_work_items'[r]
      BY <1>1, <1>2, <1>4, <3>2, UnfinishedItem DEF OnePlace
    <3>3. CASE \E v \in Workers : Holds(v)' /\ t = executing'[v]
      BY <1>1, <1>2, <1>3, <3>3, UnfinishedItem DEF OnePlace
    <3> QED
      BY <3>1, <3>2, <3>3, UnfinishedItemAfter
  <2>2. ASSUME NEW t \in Unfinished, t # executing[w] PROVE t \in Unfinished'
    <3>1. CASE t \in work_queue
      BY <1>1, <3>1, UnfinishedItemAfter
    <3>2. CASE \E r \in Submaps : t \in queued_work_items[r]
      BY <1>1, <1>2, <1>4, <3>2, UnfinishedItemAfter
    <3>3. CASE \E v \in Workers : Holds(v) /\ t = executing[v]
      BY <1>1, <1>3, <2>2, <3>3, UnfinishedItemAfter
    <3> QED
      BY <3>1, <3>2, <3>3, UnfinishedItem
  <2> QED
    BY <2>1, <2>2
<1>6. TypeOK'
  BY <1>1, <1>2 DEF TypeOK, clientvars, Tasks
<1>7. OnePlace'
  <2>1. \A r \in Submaps : \A t \in queued_work_items'[r] : t \notin work_queue' /\ t.submap = r
    BY <1>1, <1>2, <1>4 DEF OnePlace
  <2>2. ASSUME NEW v \in Workers, Holds(v)'
        PROVE  /\ executing'[v] \notin work_queue'
               /\ \A r \in Submaps : executing'[v] \notin queued_work_items'[r]
               /\ \A u \in Workers : Holds(u)' /\ executing'[u] = executing'[v] => u = v
    BY <1>1, <1>2, <1>3, <1>4, <2>2 DEF OnePlace
  <2>3. /\ \A v \in Workers : call'[v] # None => executing'[v] # Idle /\ v \notin computed'
        /\ \A v \in computed' : Holds(v)' /\ executing'[v].kind = "compute"
    BY <1>1, <1>2, <1>3 DEF OnePlace, Holds, TypeOK
  <2> QED
    BY <2>1, <2>2, <2>3 DEF OnePlace
<1>8. \A t \in Unfinished' : t \in Unfinished /\ (t.kind = "construct" => t.submap # s)
  BY <1>2, <1>5, UnfinishedAreTasks, TaskFields DEF ConstructTasks
<1>9. MatcherStable'
  <2>1. \A t \in Unfinished' : t.kind = "construct" => t.submap \notin scan_matchers'
    BY <1>1, <1>8 DEF MatcherStable
  <2>2. \A r \in Submaps : queued_work_items'[r] # {} =>
           [kind |-> "construct", submap |-> r] \in Unfinished'
    BY <1>2, <1>4, <1>5 DEF MatcherStable
  <2>3. \A t \in work_queue' \cup Pool!Executing' :
           t.kind = "compute" => t.submap \in scan_matchers'
    BY <1>1, <1>2, <1>3 DEF MatcherStable, Pool!Executing, OnePlace
  <2> QED
    BY <2>1, <2>2, <2>3 DEF MatcherStable
<1>10. ParkedForConstruction'
  BY <1>4, <1>8, UnfinishedAreTasks, TaskFields DEF ParkedForConstruction, ConstructTasks
<1>11. CountsFinite' /\ CallbackWaits' /\ NoCheckFails'
  BY <1>1, <1>5, FS_RemoveElement DEF CountsFinite, CallbackWaits, NoCheckFails, clientvars
<1>12. PendingCounts'
  <2>1. \A c \in Computations : Counted(c)' = Counted(c)
    BY <1>1, <1>5 DEF Counted
  <2> QED
    BY <1>1, <2>1 DEF PendingCounts, clientvars
<1>13. OwnSlot'
  BY <1>1, <1>3, <1>5 DEF OwnSlot, OnePlace
<1> QED
  BY <1>6, <1>7, <1>9, <1>10, <1>11, <1>12, <1>13

\* A match is written to the computation's own slot.
LEMMA ComputeKeepsInv ==
    ASSUME ConstantsOK, BuilderInv, NEW w \in Workers, NEW match \in BOOLEAN,
           ComputeConstraint(w, match)
    PROVE  BuilderInv'
<1> USE Nulls DEF BuilderInv
<1> DEFINE t == executing[w]
           found == [submap |-> t.submap, node |-> t.node]
<1>1. /\ Holds(w)
      /\ t.kind = "compute"
      /\ w \notin computed
      /\ computed' = computed \cup {w}
      /\ constraints' = IF match THEN [constraints EXCEPT ![t.slot] = found] ELSE constraints
      /\ failed' = (t.submap \notin scan_matchers)
      /\ UNCHANGED <<clientvars, scan_matchers, queued_work_items, poolvars, call>>
  BY DEF ComputeConstraint, Executes, Holds
<1>2. t \in ComputeTasks /\ t \in Unfinished
  BY <1>1, TaskFields, UnfinishedItem DEF TypeOK, Holds
<1>3. t.submap \in scan_matchers
  BY <1>1 DEF MatcherStable, Pool!Executing, Holds
<1>4. t.slot \in DOMAIN constraints /\ constraints[t.slot] = None
  <2>1. \A v \in computed : executing[v] # t
    BY <1>1 DEF TypeOK, OnePlace
  <2> QED
    BY <1>1, <1>2, <2>1 DEF OwnSlot
<1>5. found \in Constraint
  BY <1>2, ComputeFields DEF Constraint
<1>6. /\ constraints' \in Seq(Constraint \cup {None})
      /\ DOMAIN constraints' = DOMAIN constraints
      /\ \A i \in DOMAIN constraints \ {t.slot} : constraints'[i] = constraints[i]
  <2>1. constraints \in Seq(Constraint \cup {None}) /\ found \in Constraint \cup {None}
    BY <1>5 DEF TypeOK
  <2>2. t.slot \in 1..Len(constraints) /\ DOMAIN constraints = 1..Len(constraints)
    BY <1>4, <2>1
  <2> HIDE DEF found
  <2>3. /\ [constraints EXCEPT ![t.slot] = found] \in Seq(Constraint \cup {None})
        /\ DOMAIN [constraints EXCEPT ![t.slot] = found] = DOMAIN constraints
        /\ \A i \in DOMAIN constraints \ {t.slot} :
              [constraints EXCEPT ![t.slot] = found][i] = constraints[i]
    BY <2>1, <2>2, ExceptSeq
  <2> QED
    BY <1>1, <2>1, <2>3 DEF found
<1>7. Unfinished' = Unfinished
  BY <1>1 DEF Unfinished, poolvars
<1>8. TypeOK'
  BY <1>1, <1>6 DEF TypeOK, clientvars, poolvars
<1>9. OnePlace'
  BY <1>1 DEF OnePlace, Holds, poolvars
<1>10. MatcherStable'
  BY <1>1, <1>7 DEF MatcherStable, Pool!Executing, poolvars
<1>11. ParkedForConstruction' /\ CountsFinite' /\ PendingCounts' /\ CallbackWaits' /\ NoCheckFails'
  BY <1>1, <1>3, <1>7 DEF ParkedForConstruction, CountsFinite, PendingCounts, Counted,
     CallbackWaits, NoCheckFails, clientvars
<1>12. OwnSlot'
  <2>1. \A u \in Unfinished : u.kind = "compute" =>
           /\ u.slot \in DOMAIN constraints'
           /\ \A v \in Unfinished : v.kind = "compute" /\ v.slot = u.slot => v = u
    BY <1>6 DEF OwnSlot
  <2>2. ASSUME NEW u \in Unfinished \ {executing[v] : v \in computed'}, u.kind = "compute"
        PROVE  constraints'[u.slot] = None
    <3>1. u \notin {executing[v] : v \in computed} /\ u # t
      BY <1>1, <2>2
    <3>2. u.slot # t.slot /\ constraints[u.slot] = None /\ u.slot \in DOMAIN constraints
      BY <1>1, <1>2, <2>2, <3>1 DEF OwnSlot
    <3> QED
      BY <1>6, <3>2
  <2> QED
    BY <1>1, <1>7, <2>1, <2>2 DEF OwnSlot, poolvars
<1> QED
  BY <1>8, <1>9, <1>10, <1>11, <1>12

\* What a worker that is about to finish a computation holds.
LEMMA FinishedItem ==
    ASSUME BuilderInv, NEW w \in Workers, FinishComputation(w)
    PROVE  /\ Holds(w)
           /\ executing[w] \in Unfinished
           /\ executing[w] \in Tasks
           /\ IsComputation(executing[w])
           /\ executing[w].comp \in Computations
           /\ executing[w].comp <= current_computation
           /\ executing[w] \in Counted(executing[w].comp)
           /\ pending_computations[executing[w].comp] > 0
<1> USE DEF BuilderInv
<1> DEFINE t == executing[w]
<1>1. /\ Holds(w)
      /\ t.kind # "construct"
  BY DEF FinishComputation, Executes, Holds
<1>2. t \in Unfinished
  BY <1>1, UnfinishedItem
<1>3. t \in Tasks /\ t.comp \in Computations
  BY <1>1, <1>2, UnfinishedAreTasks, TaskFields
<1>4. t \in Counted(t.comp)
  BY <1>1, <1>2 DEF Counted
<1>5. Counted(t.comp) \in SUBSET Unfinished
  BY DEF Counted
<1>6. IsFiniteSet(Counted(t.comp))
  BY <1>5, FS_Subset DEF CountsFinite
<1>7. Cardinality(Counted(t.comp)) \in Nat /\ Cardinality(Counted(t.comp)) # 0
  BY <1>4, <1>6, FS_CardinalityType, FS_EmptySet
<1>8. pending_computations[t.comp] > 0
  BY <1>3, <1>7 DEF PendingCounts
<1> QED
  BY <1>1, <1>2, <1>3, <1>4, <1>8 DEF CountsFinite, IsComputation

\* When nothing is pending any more, nothing but the item that ends is unfinished.
LEMMA LastIsAlone ==
    ASSUME ConstantsOK, BuilderInv, NEW w \in Workers, FinishComputation(w), LastPending(w)
    PROVE  \A t \in Unfinished : t = executing[w]
<1> USE Nulls DEF BuilderInv
<1> DEFINE e == executing[w]
<1>1. /\ e \in Counted(e.comp)
      /\ e.comp \in Computations
      /\ e \in Unfinished
  BY FinishedItem
<1>2. \A c \in Computations : IsFiniteSet(Counted(c))
  <2> TAKE c \in Computations
  <2>1. Counted(c) \in SUBSET Unfinished
    BY DEF Counted
  <2> QED
    BY <2>1, FS_Subset DEF CountsFinite
<1>3. /\ pending_computations[e.comp] = 1
      /\ \A c \in Computations \ {e.comp} : pending_computations[c] = 0
  <2>1. pending_computations \in [Computations -> Nat]
    BY DEF TypeOK
  <2>2. \A c \in Computations : [pending_computations EXCEPT ![e.comp] = @ - 1][c] = 0
    BY DEF LastPending, Left
  <2> QED
    BY <1>1, <2>1, <2>2
<1>4. \A c \in Computations \ {e.comp} : Counted(c) = {}
  BY <1>2, <1>3, FS_EmptySet DEF PendingCounts
<1>5. Counted(e.comp) = {e}
  <2>1. Cardinality(Counted(e.comp)) = 1
    BY <1>1, <1>3 DEF PendingCounts
  <2>2. PICK x : Counted(e.comp) = {x}
    BY <1>1, <1>2, <2>1, FS_Singleton
  <2> QED
    BY <1>1, <2>2
<1>6. ASSUME NEW t \in Unfinished, t.kind # "construct" PROVE t = e
  <2>1. t.comp \in Computations
    BY <1>6, UnfinishedAreTasks, TaskFields
  <2>2. t \in Counted(t.comp)
    BY <1>6 DEF Counted
  <2> QED
    BY <1>4, <1>5, <2>1, <2>2
<1>7. ASSUME NEW s \in Submaps PROVE queued_work_items[s] = {}
  <2>1. ASSUME NEW t \in queued_work_items[s] PROVE FALSE
    <3>1. t \in Unfinished /\ t.kind = "compute"
      BY UnfinishedItem, ComputeFields DEF TypeOK
    <3>2. t = e
      BY <1>6, <3>1
    <3> QED
      BY <3>2, FinishedItem DEF OnePlace
  <2> QED
    BY <2>1
<1>8. ASSUME NEW t \in Unfinished PROVE t.kind # "construct"
  <2>1. SUFFICES ASSUME t.kind = "construct" PROVE FALSE
    OBVIOUS
  <2>2. t.submap \in Submaps
    BY <2>1, UnfinishedAreTasks, TaskFields DEF ConstructTasks
  <2> QED
    BY <1>7, <2>1, <2>2 DEF ParkedForConstruction
<1> QED
  BY <1>6, <1>8

\* A computation is finished: it is not counted any more, and the last one takes the callback
\* and all results with it.
LEMMA FinishKeepsInv ==
    ASSUME ConstantsOK, BuilderInv, NEW w \in Workers, FinishComputation(w)
    PROVE  BuilderInv'
<1> USE Nulls DEF BuilderInv
<1> DEFINE t == executing[w]
           calling == LastPending(w) /\ when_done # None
<1>1. /\ Holds(w)
      /\ t \in Unfinished
      /\ t \in Tasks
      /\ t.kind # "construct"
      /\ t.comp \in Computations
      /\ pending_computations[t.comp] > 0
      /\ t \in Counted(t.comp)
  BY FinishedItem DEF IsComputation
<1>2. /\ t.kind = "finish" \/ (t.kind = "compute" /\ w \in computed)
      /\ pending_computations' = Left(w)
      /\ computed' = computed \ {w}
      /\ failed' = (LastPending(w) /\ \E s \in Submaps : queued_work_items[s] # {})
      /\ UNCHANGED <<current_computation, scan_matchers, queued_work_items, work_queue>>
      /\ calling => /\ call' = [call EXCEPT ![w] = [callback |-> when_done, result |-> Found]]
                    /\ when_done' = None
                    /\ constraints' = <<>>
                    /\ executing' = executing
      /\ ~calling => /\ executing' = [executing EXCEPT ![w] = Idle]
                     /\ UNCHANGED <<call, when_done, constraints>>
  BY DEF FinishComputation, Executes, Pool!Finish, poolvars
<1>3. [callback |-> when_done, result |-> Found] \in Call \/ ~calling
  <2>1. Found \subseteq Constraint
    <3>1. constraints \in Seq(Constraint \cup {None})
      BY DEF TypeOK
    <3>2. \A i \in DOMAIN constraints : constraints[i] \in Constraint \cup {None}
      BY <3>1
    <3> QED
      BY <3>2 DEF Found
  <2> QED
    BY <2>1 DEF TypeOK, Call
<1>4. /\ ~Holds(w)'
      /\ \A v \in Workers \ {w} : executing'[v] = executing[v] /\ call'[v] = call[v]
                                  /\ (Holds(v)' <=> Holds(v))
      /\ call'[w] # None => executing'[w] # Idle
  BY <1>1, <1>2, <1>3 DEF TypeOK, Holds
<1>5. Unfinished' = Unfinished \ {t}
  <2>1. ASSUME NEW u \in Unfinished' PROVE u \in Unfinished \ {t}
    BY <1>1, <1>2, <1>4, UnfinishedItem, UnfinishedItemAfter DEF OnePlace
  <2>2. ASSUME NEW u \in Unfinished, u # t PROVE u \in Unfinished'
    BY <1>1, <1>2, <1>4, <2>2, UnfinishedItem, UnfinishedItemAfter
  <2> QED
    BY <2>1, <2>2
<1>6. /\ pending_computations' \in [Computations -> Nat]
      /\ pending_computations'[t.comp] = pending_computations[t.comp] - 1
      /\ \A c \in Computations \ {t.comp} : pending_computations'[c] = pending_computations[c]
  BY <1>1, <1>2 DEF TypeOK, Left
<1>7. calling => Unfinished' = {}
  BY <1>5, LastIsAlone
<1>8. TypeOK'
  <2>1. constraints' \in Seq(Constraint \cup {None}) /\ when_done' \in Callbacks \cup {None}
    <3>1. CASE calling
      BY <1>2, <3>1
    <3>2. CASE ~calling
      BY <1>2, <3>2 DEF TypeOK
    <3> QED
      BY <3>1, <3>2
  <2>2. executing' \in [Workers -> Tasks \cup {Idle}] /\ call' \in [Workers -> Call \cup {None}]
    BY <1>2, <1>3 DEF TypeOK
  <2>3. failed' \in BOOLEAN /\ computed' \subseteq Workers
    BY <1>2 DEF TypeOK
  <2> QED
    BY <1>2, <1>6, <2>1, <2>2, <2>3 DEF TypeOK
<1>9. OnePlace'
  <2>1. \A v \in computed' : v \in Workers /\ v # w
    BY <1>2 DEF TypeOK
  <2> QED
    BY <1>2, <1>4, <2>1 DEF OnePlace
<1>10. MatcherStable'
  <2>1. \A u \in Unfinished' : u.kind = "construct" => u.submap \notin scan_matchers'
    BY <1>2, <1>5 DEF MatcherStable
  <2>2. \A s \in Submaps : queued_work_items'[s] # {} =>
           [kind |-> "construct", submap |-> s] \in Unfinished'
    BY <1>1, <1>2, <1>5 DEF MatcherStable
  <2>3. Pool!Executing' \subseteq Pool!Executing
    BY <1>2 DEF Pool!Executing, TypeOK
  <2> QED
    BY <1>2, <2>1, <2>2, <2>3 DEF MatcherStable
<1>11. ParkedForConstruction' /\ CountsFinite'
  BY <1>2, <1>5, FS_RemoveElement DEF ParkedForConstruction, CountsFinite
<1>12. PendingCounts'
  <2>1. PICK e : e = t
    OBVIOUS
  <2>2. PICK k \in Computations : k = t.comp
    BY <1>1
  <2>3. /\ Counted(k)' = Counted(k) \ {e}
        /\ \A c \in Computations \ {k} : Counted(c)' = Counted(c)
    BY <1>5, <2>1, <2>2 DEF Counted
  <2>4. Counted(k) \in SUBSET Unfinished
    BY DEF Counted
  <2>5. IsFiniteSet(Counted(k))
    BY <2>4, FS_Subset DEF CountsFinite
  <2>6. Cardinality(Counted(k) \ {e}) = Cardinality(Counted(k)) - 1
    BY <1>1, <2>1, <2>2, <2>5, FS_RemoveElement
  <2> QED
    BY <1>6, <2>2, <2>3, <2>6 DEF PendingCounts
<1>13. OwnSlot'
  <2>1. CASE calling
    BY <1>7, <2>1 DEF OwnSlot
  <2>2. CASE ~calling
    <3>1. \A u \in Unfinished' : u \in Unfinished /\ u # t
      BY <1>5
    <3>2. \A u \in Unfinished' \ {executing'[v] : v \in computed'} :
             u \in Unfinished \ {executing[v] : v \in computed}
      BY <1>2, <1>4, <3>1 DEF TypeOK
    <3> QED
      BY <1>2, <2>2, <3>1, <3>2 DEF OwnSlot
  <2> QED
    BY <2>1, <2>2
<1>14. CallbackWaits'
  BY <1>2, <1>5, <1>7 DEF CallbackWaits
<1>15. NoCheckFails'
  <2>1. LastPending(w) => \A s \in Submaps : queued_work_items[s] = {}
    BY <1>1, LastIsAlone, UnfinishedItem DEF OnePlace
  <2> QED
    BY <1>2, <2>1 DEF NoCheckFails
<1> QED
  BY <1>8, <1>9, <1>10, <1>11, <1>12, <1>13, <1>14, <1>15

\* The callback returns: its item was finished when it was called.
LEMMA ReturnKeepsInv ==
    ASSUME ConstantsOK, BuilderInv, NEW w \in Workers, ReturnFromCallback(w)
    PROVE  BuilderInv'
<1> USE Nulls DEF BuilderInv
<1>1. /\ call[w] # None
      /\ call' = [call EXCEPT ![w] = None]
      /\ executing' = [executing EXCEPT ![w] = Idle]
      /\ UNCHANGED <<clientvars, matchvars, work_queue, computed, failed>>
  BY DEF ReturnFromCallback, Pool!Finish
<1>2. /\ ~Holds(w) /\ ~Holds(w)' /\ w \notin computed
      /\ call'[w] = None
      /\ \A v \in Workers \ {w} : executing'[v] = executing[v] /\ call'[v] = call[v]
                                  /\ (Holds(v)' <=> Holds(v))
  BY <1>1 DEF TypeOK, Holds, OnePlace
<1>3. Unfinished' = Unfinished
  <2>1. \A u : (\E v \in Workers : Holds(v)' /\ u = executing'[v])
                <=> (\E v \in Workers : Holds(v) /\ u = executing[v])
    BY <1>2
  <2>2. work_queue' = work_queue /\ queued_work_items' = queued_work_items
    BY <1>1 DEF matchvars
  <2>3. \A u : u \in Unfinished' <=> u \in Unfinished
    BY <2>1, <2>2, UnfinishedItem, UnfinishedItemAfter, Zenon
  <2> QED
    BY <2>3
<1>4. TypeOK'
  BY <1>1 DEF TypeOK, clientvars, matchvars
<1>5. OnePlace'
  <2>1. \A v \in computed' : v \in Workers /\ v # w
    BY <1>1, <1>2 DEF TypeOK
  <2> QED
    BY <1>1, <1>2, <2>1 DEF OnePlace, matchvars
<1>6. MatcherStable'
  <2>1. Pool!Executing' \subseteq Pool!Executing
    BY <1>1 DEF Pool!Executing, TypeOK
  <2> QED
    BY <1>1, <1>3, <2>1 DEF MatcherStable, matchvars
<1>7. ParkedForConstruction' /\ CountsFinite' /\ PendingCounts' /\ CallbackWaits' /\ NoCheckFails'
  BY <1>1, <1>3 DEF ParkedForConstruction, CountsFinite, PendingCounts, Counted, CallbackWaits,
     NoCheckFails, matchvars, clientvars
<1>8. OwnSlot'
  <2>1. {executing'[v] : v \in computed'} = {executing[v] : v \in computed}
    BY <1>1, <1>2 DEF TypeOK
  <2> QED
    BY <1>1, <1>3, <2>1 DEF OwnSlot, matchvars
<1> QED
  BY <1>4, <1>5, <1>6, <1>7, <1>8
-----------------------------------------------------------------------------
\* Where the items that a computation brings along go.
LEMMA AddedItems ==
    ASSUME ConstantsOK, BuilderInv, NEW s \in Submaps, NEW n \in Nodes, NEW global \in BOOLEAN,
           AddComputation(s, n, global)
    PROVE  \E t \in ComputeTasks, c \in ConstructTasks, built \in BOOLEAN :
              /\ t.submap = s /\ t.node = n /\ t.global = global
              /\ t.comp = current_computation
              /\ t.slot = Len(constraints) + 1
              /\ c = [kind |-> "construct", submap |-> s]
              /\ built <=> (s \notin scan_matchers /\ queued_work_items[s] = {})
              /\ work_queue' = work_queue \cup (IF s \in scan_matchers THEN {t} ELSE {})
                                          \cup (IF built THEN {c} ELSE {})
              /\ queued_work_items' = IF s \in scan_matchers THEN queued_work_items
                    ELSE [queued_work_items EXCEPT ![s] = @ \cup {t}]
              /\ Unfinished' = Unfinished \cup {t} \cup (IF built THEN {c} ELSE {})
              /\ t \notin Unfinished
              /\ built => c \notin Unfinished
<1> USE Nulls DEF BuilderInv
<1> DEFINE t == [kind |-> "compute", submap |-> s, node |-> n, global |-> global,
                 comp |-> current_computation, slot |-> Len(constraints) + 1]
           c == [kind |-> "construct", submap |-> s]
           built == s \notin scan_matchers /\ queued_work_items[s] = {}
<1>1. /\ ScheduleOrQueue(s, t)
      /\ executing' = executing
      /\ call' = call
  <2>1. ScheduleOrQueue(s, t) /\ call' = call
    BY DEF AddComputation
  <2> QED
    BY <2>1 DEF ScheduleOrQueue, Pool!Schedule
<1>2. /\ t \in ComputeTasks
      /\ c \in ConstructTasks
      /\ t.kind = "compute" /\ c.kind = "construct" /\ c.submap = s
  <2>1. Len(constraints) + 1 \in Nat \ {0}
    BY DEF TypeOK
  <2> QED
    BY <2>1 DEF TypeOK, ComputeTasks, ConstructTasks
<1>3. t \notin Unfinished
  <2>1. t.slot \notin DOMAIN constraints
    BY DEF TypeOK
  <2> QED
    BY <1>2, <2>1 DEF OwnSlot
<1>4. built => c \notin Unfinished
  BY <1>2 DEF ParkedForConstruction
<1> HIDE DEF t, c
<1>5. /\ work_queue' = work_queue \cup (IF s \in scan_matchers THEN {t} ELSE {})
                                  \cup (IF built THEN {c} ELSE {})
      /\ queued_work_items' = IF s \in scan_matchers THEN queued_work_items
                    ELSE [queued_work_items EXCEPT ![s] = @ \cup {t}]
  BY <1>1 DEF ScheduleOrQueue, Pool!Schedule, c
<1>6. Unfinished' = Unfinished \cup {t} \cup (IF built THEN {c} ELSE {})
  <2>1. \A u : (\E v \in Workers : Holds(v)' /\ u = executing'[v])
                <=> (\E v \in Workers : Holds(v) /\ u = executing[v])
    BY <1>1 DEF Holds
  <2>2. CASE s \in scan_matchers
    BY <1>5, <2>1, <2>2, UnfinishedItem, UnfinishedItemAfter
  <2>3. CASE s \notin scan_matchers
    <3>1. /\ queued_work_items'[s] = queued_work_items[s] \cup {t}
          /\ \A r \in Submaps \ {s} : queued_work_items'[r] = queued_work_items[r]
      BY <1>5, <2>3 DEF TypeOK
    <3>2. \A u : (\E r \in Submaps : u \in queued_work_items'[r])
                  <=> u = t \/ \E r \in Submaps : u \in queued_work_items[r]
      BY <3>1
    <3>3. \A u : u \in work_queue' <=> u \in work_queue \/ (built /\ u = c)
      BY <1>5, <2>3
    <3>4. \A u : u \in Unfinished' <=> u \in Unfinished \/ u = t \/ (built /\ u = c)
      BY <2>1, <3>2, <3>3, UnfinishedItem, UnfinishedItemAfter, Zenon
    <3> HIDE DEF built
    <3> QED
      BY <3>4
  <2> QED
    BY <2>2, <2>3
<1>7. /\ t.submap = s /\ t.node = n /\ t.global = global
      /\ t.comp = current_computation
      /\ t.slot = Len(constraints) + 1
      /\ c = [kind |-> "construct", submap |-> s]
  BY DEF t, c
<1>8. built \in BOOLEAN
  OBVIOUS
<1> HIDE DEF built
<1>9. built <=> (s \notin scan_matchers /\ queued_work_items[s] = {})
  BY DEF built
<1> QED
  BY <1>2, <1>3, <1>4, <1>5, <1>6, <1>7, <1>8, <1>9, Zenon

\* A computation is added to the current scan, with a slot of its own.
LEMMA AddKeepsInv ==
    ASSUME ConstantsOK, BuilderInv, NEW s \in Submaps, NEW n \in Nodes, NEW global \in BOOLEAN,
           AddComputation(s, n, global)
    PROVE  BuilderInv'
<1> USE Nulls DEF BuilderInv
<1>1. PICK t \in ComputeTasks, c \in ConstructTasks, built \in BOOLEAN :
              /\ t.submap = s /\ t.node = n /\ t.comp = current_computation
              /\ t.slot = Len(constraints) + 1
              /\ c = [kind |-> "construct", submap |-> s]
              /\ built <=> (s \notin scan_matchers /\ queued_work_items[s] = {})
              /\ work_queue' = work_queue \cup (IF s \in scan_matchers THEN {t} ELSE {})
                                          \cup (IF built THEN {c} ELSE {})
              /\ queued_work_items' = IF s \in scan_matchers THEN queued_work_items
                    ELSE [queued_work_items EXCEPT ![s] = @ \cup {t}]
              /\ Unfinished' = Unfinished \cup {t} \cup (IF built THEN {c} ELSE {})
              /\ t \notin Unfinished
              /\ built => c \notin Unfinished
  BY AddedItems
<1>2. /\ constraints' = Append(constraints, None)
      /\ pending_computations' = [pending_computations EXCEPT ![current_computation] = @ + 1]
      /\ executing' = executing
      /\ UNCHANGED <<when_done, current_computation, scan_matchers, computed, call, failed>>
  BY DEF AddComputation, ScheduleOrQueue, Pool!Schedule
<1>3. /\ t \in Tasks /\ c \in Tasks
      /\ t.kind = "compute" /\ c.kind = "construct" /\ c.submap = s
  BY <1>1, ComputeFields DEF Tasks, ConstructTasks
<1>4. /\ constraints' \in Seq(Constraint \cup {None})
      /\ DOMAIN constraints' = 1..Len(constraints) + 1
      /\ DOMAIN constraints = 1..Len(constraints)
      /\ constraints'[Len(constraints) + 1] = None
      /\ \A i \in DOMAIN constraints : constraints'[i] = constraints[i]
      /\ Len(constraints) \in Nat
  <2>1. constraints \in Seq(Constraint \cup {None})
    BY DEF TypeOK
  <2> QED
    BY <1>2, <2>1
<1>5. /\ queued_work_items' \in [Submaps -> SUBSET ComputeTasks]
      /\ \A r \in Submaps : /\ queued_work_items[r] \subseteq queued_work_items'[r]
                            /\ queued_work_items'[r] \subseteq queued_work_items[r] \cup {t}
                            /\ t \in queued_work_items'[r] => r = s /\ s \notin scan_matchers
      /\ s \notin scan_matchers => t \in queued_work_items'[s]
  <2>1. queued_work_items \in [Submaps -> SUBSET ComputeTasks]
    BY DEF TypeOK
  <2>2. \A r \in Submaps : t \notin queued_work_items[r]
    BY <1>1, UnfinishedItem
  <2>3. CASE s \in scan_matchers
    BY <1>1, <2>1, <2>2, <2>3
  <2>4. CASE s \notin scan_matchers
    <3>1. queued_work_items' = [queued_work_items EXCEPT ![s] = queued_work_items[s] \cup {t}]
      BY <1>1, <2>4
    <3> QED
      BY <2>1, <2>2, <2>4, <3>1
  <2> QED
    BY <2>3, <2>4
<1>6. TypeOK'
  <2>1. pending_computations' \in [Computations -> Nat]
    BY <1>2 DEF TypeOK
  <2>2. work_queue' \subseteq Tasks
    BY <1>1, <1>3 DEF TypeOK
  <2> QED
    BY <1>2, <1>4, <1>5, <2>1, <2>2 DEF TypeOK
<1>7. \A v \in Workers : Holds(v)' <=> Holds(v)
  BY <1>2 DEF Holds
<1>8. OnePlace'
  <2>1. ASSUME NEW v \in Workers, Holds(v)'
        PROVE  /\ executing'[v] \notin work_queue'
               /\ \A r \in Submaps : executing'[v] \notin queued_work_items'[r]
               /\ \A u \in Workers : Holds(u)' /\ executing'[u] = executing'[v] => u = v
    <3>1. Holds(v) /\ executing'[v] = executing[v] /\ executing[v] \in Unfinished
      BY <1>2, <1>7, <2>1, UnfinishedItem
    <3>2. executing[v] # t /\ (built => executing[v] # c)
      BY <1>1, <3>1
    <3> QED
      BY <1>1, <1>2, <1>5, <1>7, <3>1, <3>2 DEF OnePlace
  <2>2. ASSUME NEW r \in Submaps, NEW u \in queued_work_items'[r]
        PROVE  u \notin work_queue' /\ u.submap = r
    <3>1. CASE u = t
      BY <1>1, <1>3, <1>5, <2>2, <3>1, UnfinishedItem
    <3>2. CASE u # t
      <4>1. u \in queued_work_items[r] /\ u.kind = "compute"
        BY <1>5, <2>2, <3>2, ComputeFields DEF TypeOK
      <4> QED
        BY <1>1, <1>3, <3>2, <4>1 DEF OnePlace
    <3> QED
      BY <3>1, <3>2
  <2>3. /\ \A v \in Workers : call'[v] # None => executing'[v] # Idle /\ v \notin computed'
        /\ \A v \in computed' : Holds(v)' /\ executing'[v].kind = "compute"
    BY <1>2, <1>7 DEF OnePlace, TypeOK
  <2> QED
    BY <2>1, <2>2, <2>3 DEF OnePlace
<1>9. MatcherStable'
  <2>1. \A u \in Unfinished' : u.kind = "construct" => u.submap \notin scan_matchers'
    BY <1>1, <1>2, <1>3 DEF MatcherStable
  <2>2. ASSUME NEW r \in Submaps, queued_work_items'[r] # {}
        PROVE  [kind |-> "construct", submap |-> r] \in Unfinished'
    <3>1. CASE queued_work_items[r] # {}
      BY <1>1, <3>1 DEF MatcherStable
    <3>2. CASE queued_work_items[r] = {}
      BY <1>1, <1>5, <2>2, <3>2
    <3> QED
      BY <3>1, <3>2
  <2>3. \A u \in work_queue' \cup Pool!Executing' :
           u.kind = "compute" => u.submap \in scan_matchers'
    BY <1>1, <1>2, <1>3 DEF MatcherStable, Pool!Executing
  <2> QED
    BY <2>1, <2>2, <2>3 DEF MatcherStable
<1>10. ParkedForConstruction'
  <2> SUFFICES ASSUME NEW u \in Unfinished', u.kind = "construct"
               PROVE  queued_work_items'[u.submap] # {}
    BY DEF ParkedForConstruction
  <2>1. CASE u \in Unfinished
    <3>1. u.submap \in Submaps
      BY <2>1, UnfinishedAreTasks, TaskFields DEF ConstructTasks
    <3> QED
      BY <1>5, <2>1, <3>1 DEF ParkedForConstruction
  <2>2. CASE u \notin Unfinished
    BY <1>1, <1>3, <1>5, <2>2
  <2> QED
    BY <2>1, <2>2
<1>11. CountsFinite'
  <2>1. IsFiniteSet(Unfinished \cup {t}) /\ IsFiniteSet(Unfinished \cup {t} \cup {c})
    BY FS_AddElement DEF CountsFinite
  <2>2. IsFiniteSet(Unfinished')
    BY <1>1, <2>1
  <2>3. current_computation \in Nat
    BY DEF TypeOK, Computations
  <2> QED
    BY <1>1, <1>2, <1>3, <2>2, <2>3 DEF CountsFinite, IsComputation
<1>12. PendingCounts'
  <2>1. PICK k \in Computations : k = current_computation
    BY DEF TypeOK
  <2>2. /\ Counted(k)' = Counted(k) \cup {t}
        /\ t \notin Counted(k)
        /\ \A d \in Computations \ {k} : Counted(d)' = Counted(d)
    BY <1>1, <1>3, <2>1 DEF Counted
  <2>3. Counted(k) \in SUBSET Unfinished
    BY DEF Counted
  <2>4. IsFiniteSet(Counted(k))
    BY <2>3, FS_Subset DEF CountsFinite
  <2>5. Cardinality(Counted(k) \cup {t}) = Cardinality(Counted(k)) + 1
    BY <2>2, <2>4, FS_AddElement
  <2>6. /\ pending_computations'[k] = pending_computations[k] + 1
        /\ \A d \in Computations \ {k} : pending_computations'[d] = pending_computations[d]
    BY <1>2, <2>1 DEF TypeOK
  <2> QED
    BY <2>2, <2>5, <2>6 DEF PendingCounts
<1>13. OwnSlot'
  <2>1. \A u \in Unfinished : u.kind = "compute" => u.slot \in 1..Len(constraints)
    BY <1>4 DEF OwnSlot
  <2>2. ASSUME NEW u \in Unfinished', u.kind = "compute"
        PROVE  /\ u.slot \in DOMAIN constraints'
               /\ \A v \in Unfinished' : v.kind = "compute" /\ v.slot = u.slot => v = u
    BY <1>1, <1>3, <1>4, <2>1, <2>2 DEF OwnSlot
  <2>3. ASSUME NEW u \in Unfinished' \ {executing'[v] : v \in computed'}, u.kind = "compute"
        PROVE  constraints'[u.slot] = None
    <3>1. CASE u = t
      BY <1>1, <1>4, <3>1
    <3>2. CASE u # t
      <4>1. u \in Unfinished \ {executing[v] : v \in computed}
        BY <1>1, <1>2, <1>3, <2>3, <3>2
      <4> QED
        BY <1>4, <2>1, <2>3, <4>1 DEF OwnSlot
    <3> QED
      BY <3>1, <3>2
  <2> QED
    BY <2>2, <2>3 DEF OwnSlot
<1>14. CallbackWaits' /\ NoCheckFails'
  BY <1>1, <1>2, <1>3 DEF CallbackWaits, NoCheckFails
<1> QED
  BY <1>6, <1>8, <1>9, <1>10, <1>11, <1>12, <1>13, <1>14

\* The end of a scan: the next computations are counted apart.
LEMMA NotifyKeepsInv ==
    ASSUME ConstantsOK, BuilderInv, NotifyEndOfScan
    PROVE  BuilderInv'
<1> USE Nulls DEF BuilderInv
<1>1. /\ current_computation < MaxScans
      /\ current_computation' = current_computation + 1
      /\ UNCHANGED <<when_done, pending_computations, matchvars, poolvars, computed, call, failed>>
  BY DEF NotifyEndOfScan
<1>2. current_computation \in Nat /\ current_computation' \in Computations
  BY <1>1 DEF TypeOK, Computations
<1>3. Unfinished' = Unfinished /\ \A w \in Workers : Holds(w)' <=> Holds(w)
  BY <1>1 DEF Unfinished, matchvars, poolvars, Holds
<1>4. TypeOK'
  BY <1>1, <1>2 DEF TypeOK, matchvars, poolvars
<1>5. CountsFinite'
  <2> SUFFICES ASSUME NEW t \in Unfinished, IsComputation(t)
               PROVE  t.comp <= current_computation'
    BY <1>3 DEF CountsFinite
  <2>1. t.comp \in Nat /\ t.comp <= current_computation
    BY UnfinishedAreTasks, TaskFields DEF CountsFinite, IsComputation, Computations
  <2> QED
    BY <1>1, <1>2, <2>1
<1>6. OnePlace'
  BY <1>1, <1>3 DEF OnePlace, TypeOK, matchvars, poolvars
<1>7. MatcherStable' /\ ParkedForConstruction' /\ OwnSlot'
  BY <1>1, <1>3 DEF MatcherStable, Pool!Executing, ParkedForConstruction, OwnSlot, matchvars, poolvars
<1>8. PendingCounts' /\ CallbackWaits' /\ NoCheckFails'
  BY <1>1, <1>3 DEF PendingCounts, Counted, CallbackWaits, NoCheckFails
<1> QED
  BY <1>4, <1>5, <1>6, <1>7, <1>8

\* A callback is registered with an empty computation that waits for all others.
LEMMA WhenDoneKeepsInv ==
    ASSUME ConstantsOK, BuilderInv, NEW callback \in Callbacks, when_done = None,
           WhenDone(callback)
    PROVE  BuilderInv'
<1> USE Nulls DEF BuilderInv
<1>1. PICK t : t = [kind |-> "finish", comp |-> current_computation]
  OBVIOUS
<1>2. /\ failed' = FALSE
      /\ when_done' = callback
      /\ pending_computations' = [pending_computations EXCEPT ![current_computation] = @ + 1]
      /\ work_queue' = work_queue \cup {t}
      /\ executing' = executing
      /\ UNCHANGED <<current_computation, matchvars, computed, call>>
  BY <1>1 DEF WhenDone, Pool!Schedule
<1>3. /\ t \in FinishTasks
      /\ t \in Tasks
      /\ t.kind = "finish"
      /\ t.comp = current_computation
      /\ t \notin Unfinished
  <2>1. t \in FinishTasks
    BY <1>1 DEF FinishTasks, TypeOK
  <2> QED
    BY <1>1, <2>1 DEF CallbackWaits, Tasks
<1>4. \A v \in Workers : Holds(v)' <=> Holds(v)
  BY <1>2 DEF Holds
<1>5. Unfinished' = Unfinished \cup {t}
  <2>1. queued_work_items' = queued_work_items
    BY <1>2 DEF matchvars
  <2>2. \A u : u \in Unfinished' <=> u \in Unfinished \/ u = t
    BY <1>2, <1>4, <2>1, UnfinishedItem, UnfinishedItemAfter
  <2> QED
    BY <2>2
<1>6. TypeOK'
  <2>1. pending_computations' \in [Computations -> Nat]
    BY <1>2 DEF TypeOK
  <2>2. work_queue' \subseteq Tasks
    BY <1>2, <1>3 DEF TypeOK
  <2> QED
    BY <1>2, <2>1, <2>2 DEF TypeOK, matchvars
<1>7. OnePlace'
  <2>1. ASSUME NEW v \in Workers, Holds(v)' PROVE executing'[v] \notin work_queue'
    BY <1>2, <1>3, <1>4, <2>1, UnfinishedItem DEF OnePlace
  <2>2. ASSUME NEW r \in Submaps, NEW u \in queued_work_items'[r]
        PROVE  u \notin work_queue' /\ u.submap = r
    BY <1>2, <1>3, <2>2, UnfinishedItem DEF OnePlace, matchvars
  <2>3. ASSUME NEW v \in Workers, Holds(v)'
        PROVE  /\ \A r \in Submaps : executing'[v] \notin queued_work_items'[r]
               /\ \A u \in Workers : Holds(u)' /\ executing'[u] = executing'[v] => u = v
    BY <1>2, <1>4, <2>3 DEF OnePlace, matchvars
  <2>4. /\ \A v \in Workers : call'[v] # None => executing'[v] # Idle /\ v \notin computed'
        /\ \A v \in computed' : Holds(v)' /\ executing'[v].kind = "compute"
    BY <1>2, <1>4 DEF OnePlace, TypeOK
  <2> QED
    BY <2>1, <2>2, <2>3, <2>4 DEF OnePlace
<1>8. MatcherStable' /\ ParkedForConstruction'
  BY <1>2, <1>3, <1>5 DEF MatcherStable, Pool!Executing, ParkedForConstruction, matchvars
<1>9. CountsFinite' /\ CallbackWaits' /\ NoCheckFails'
  <2>1. IsFiniteSet(Unfinished')
    BY <1>5, FS_AddElement DEF CountsFinite
  <2>2. current_computation \in Nat
    BY DEF TypeOK, Computations
  <2> QED
    BY <1>2, <1>3, <1>5, <2>1, <2>2 DEF CountsFinite, CallbackWaits, NoCheckFails
<1>10. PendingCounts'
  <2>1. PICK k \in Computations : k = current_computation
    BY DEF TypeOK
  <2>2. /\ Counted(k)' = Counted(k) \cup {t}
        /\ t \notin Counted(k)
        /\ \A d \in Computations \ {k} : Counted(d)' = Counted(d)
    BY <1>3, <1>5, <2>1 DEF Counted
  <2>3. Counted(k) \in SUBSET Unfinished
    BY DEF Counted
  <2>4. IsFiniteSet(Counted(k))
    BY <2>3, FS_Subset DEF CountsFinite
  <2>5. Cardinality(Counted(k) \cup {t}) = Cardinality(Counted(k)) + 1
    BY <2>2, <2>4, FS_AddElement
  <2>6. /\ pending_computations'[k] = pending_computations[k] + 1
        /\ \A d \in Computations \ {k} : pending_computations'[d] = pending_computations[d]
    BY <1>2, <2>1 DEF TypeOK
  <2> QED
    BY <2>2, <2>5, <2>6 DEF PendingCounts
<1>11. OwnSlot'
  BY <1>2, <1>3, <1>5 DEF OwnSlot, matchvars
<1> QED
  BY <1>6, <1>7, <1>8, <1>9, <1>10, <1>11
-----------------------------------------------------------------------------
LEMMA InitialInv ==
    ASSUME ConstantsOK, Init
    PROVE  BuilderInv
<1> USE Nulls
<1>1. /\ work_queue = {}
      /\ executing = [w \in Workers |-> Idle]
  BY DEF Init, Pool!Init
<1>2. Unfinished = {} /\ \A w \in Workers : ~Holds(w)
  BY <1>1 DEF Init, Unfinished, Holds
<1>3. TypeOK
  <2>1. current_computation \in Computations /\ constraints \in Seq(Constraint \cup {None})
    BY DEF Init, Computations
  <2> QED
    BY <1>1, <2>1 DEF Init, TypeOK
<1>4. OnePlace /\ MatcherStable /\ ParkedForConstruction
  BY <1>1, <1>2 DEF Init, OnePlace, MatcherStable, Pool!Executing, ParkedForConstruction
<1>5. CountsFinite /\ PendingCounts
  <2>1. \A c \in Computations : Counted(c) = {}
    BY <1>2 DEF Counted
  <2> QED
    BY <1>2, <2>1, FS_EmptySet DEF Init, CountsFinite, PendingCounts
<1> QED
  BY <1>2, <1>3, <1>4, <1>5 DEF Init, BuilderInv, OwnSlot, CallbackWaits, NoCheckFails

LEMMA UnchangedKeepsInv ==
    ASSUME BuilderInv, UNCHANGED vars
    PROVE  BuilderInv'
<1> USE DEF vars, clientvars, matchvars, poolvars
<1>1. TypeOK' = TypeOK /\ NoCheckFails' = NoCheckFails
  BY DEF TypeOK, NoCheckFails
<1>2. Unfinished' = Unfinished /\ \A w : Holds(w)' <=> Holds(w)
  BY DEF Unfinished, Holds
<1>3. OnePlace' = OnePlace
  BY <1>2 DEF OnePlace
<1>4. /\ MatcherStable' = MatcherStable
      /\ ParkedForConstruction' = ParkedForConstruction
      /\ CountsFinite' = CountsFinite
      /\ CallbackWaits' = CallbackWaits
      /\ OwnSlot' = OwnSlot
  BY <1>2 DEF MatcherStable, Pool!Executing, ParkedForConstruction, CountsFinite, CallbackWaits,
     OwnSlot
<1>5. PendingCounts' = PendingCounts
  BY <1>2 DEF PendingCounts, Counted
<1> QED
  BY <1>1, <1>3, <1>4, <1>5 DEF BuilderInv

LEMMA StepKeepsInv ==
    ASSUME ConstantsOK, BuilderInv, [Next]_vars
    PROVE  BuilderInv'
<1>1. ASSUME UNCHANGED vars PROVE BuilderInv'
  BY <1>1, UnchangedKeepsInv
<1>2. ASSUME NEW s \in Submaps, NEW n \in Nodes, MaybeAddConstraint(s, n) PROVE BuilderInv'
  BY <1>1, <1>2, AddKeepsInv DEF MaybeAddConstraint
<1>3. ASSUME NEW s \in Submaps, NEW n \in Nodes, MaybeAddGlobalConstraint(s, n) PROVE BuilderInv'
  BY <1>3, AddKeepsInv DEF MaybeAddGlobalConstraint
<1>4. CASE Client
  BY <1>2, <1>3, <1>4, NotifyKeepsInv, WhenDoneKeepsInv DEF Client
<1>5. ASSUME NEW w \in Workers, Worker(w) PROVE BuilderInv'
  BY <1>5, StartKeepsInv, ConstructKeepsInv, ComputeKeepsInv, FinishKeepsInv, ReturnKeepsInv
     DEF Worker
<1> QED
  BY <1>1, <1>4, <1>5 DEF Next

\* constraint_builder.cc:59-275: in every reachable state the members of the builder have
\* their types and its work items are in one place each, counted, with a slot of their own
\* and a matcher that is there or on its way.
THEOREM BuilderInvariant ==
    ASSUME ConstantsOK
    PROVE  Spec => []BuilderInv
<1>1. Init => BuilderInv
  BY InitialInv
<1>2. BuilderInv /\ [Next]_vars => BuilderInv'
  BY StepKeepsInv
<1> QED
  BY <1>1, <1>2, PTL DEF Spec

\* constraint_builder.cc:72-84, 131-149, 245-275: whatever the order in which computations
\* end, each is counted, writes to a slot of its own and finds its matcher, for any number
\* of workers, submaps and nodes; and no CHECK of the class fails.
THEOREM TrackedAlways ==
    ASSUME ConstantsOK
    PROVE  Spec => [](ComputationsTracked /\ NoCheckFails)
<1>1. BuilderInv => ComputationsTracked /\ NoCheckFails
  BY DEF BuilderInv, ComputationsTracked
<1> QED
  BY <1>1, BuilderInvariant, PTL
-----------------------------------------------------------------------------
\* The worker that takes the callback ends the last computation: there is no other item whose
\* result could be missing, and what was found goes with the callback.
LEMMA CallbackTakesAll ==
    ASSUME ConstantsOK, BuilderInv, [Next]_vars, NEW w \in Workers,
           call[w] = None, call'[w] # None
    PROVE  /\ \A t \in Unfinished : t.kind = "construct" \/ t = executing[w]
           /\ \A i \in DOMAIN constraints : constraints[i] \in call'[w].result \cup {None}
           /\ constraints' = <<>>
<1>1. ASSUME NEW v \in Workers, ReturnFromCallback(v) PROVE FALSE
  BY <1>1 DEF ReturnFromCallback, BuilderInv, TypeOK
<1>2. ASSUME NEW v \in Workers, FinishComputation(v)
      PROVE  v = w /\ LastPending(w) /\ when_done # None
  BY <1>2 DEF FinishComputation, BuilderInv, TypeOK
<1>3. ASSUME call' = call PROVE FALSE
  BY <1>3
<1>4. FinishComputation(w) /\ LastPending(w) /\ when_done # None
  BY <1>1, <1>2, <1>3
     DEF Next, Client, MaybeAddConstraint, MaybeAddGlobalConstraint, AddComputation,
         NotifyEndOfScan, WhenDone, Worker, Start, ConstructSubmapScanMatcher, ComputeConstraint,
         vars
<1>5. /\ call' = [call EXCEPT ![w] = [callback |-> when_done, result |-> Found]]
      /\ constraints' = <<>>
  BY <1>4 DEF FinishComputation
<1>6. call'[w].result = Found
  BY <1>5 DEF BuilderInv, TypeOK
<1> QED
  BY <1>4, <1>5, <1>6, LastIsAlone DEF Found
-----------------------------------------------------------------------------
\* Nothing is pending of a scan that has not been started.
LEMMA PendingIsStarted ==
    ASSUME ConstantsOK, BuilderInv
    PROVE  /\ PendingScans \subseteq 0..current_computation
           /\ current_computation \in Nat
<1>1. current_computation \in Nat /\ Computations \subseteq Nat
  BY Nulls DEF BuilderInv, TypeOK, Computations
<1>2. ASSUME NEW c \in PendingScans PROVE c <= current_computation
  <2>1. c \in Computations /\ Cardinality(Counted(c)) # 0
    BY DEF PendingScans, BuilderInv, PendingCounts
  <2>2. PICK t \in Counted(c) : TRUE
    BY <2>1, FS_EmptySet
  <2> QED
    BY <2>2 DEF Counted, BuilderInv, CountsFinite, IsComputation
<1> QED
  <2>1. PendingScans \subseteq Nat
    BY <1>1 DEF PendingScans
  <2> QED
    BY <1>1, <1>2, <2>1

\* The number of finished scans is the oldest scan with something pending, or the current one.
OldestIsFirst ==
    /\ PendingScans = {} => GetNumFinishedScans = current_computation
    /\ PendingScans # {} => /\ GetNumFinishedScans \in PendingScans
                            /\ \A d \in PendingScans : GetNumFinishedScans <= d
    /\ GetNumFinishedScans \in 0..current_computation
    /\ current_computation \in Nat

LEMMA OldestPending ==
    ASSUME ConstantsOK, BuilderInv
    PROVE  OldestIsFirst
<1>1. PendingScans \subseteq Nat
  BY PendingIsStarted
<1>2. ASSUME PendingScans # {}
      PROVE  \E c \in PendingScans : \A d \in PendingScans : c <= d
  <2>1. PICK c \in PendingScans : \A d \in PendingScans : <<d, c>> \notin OpToRel(<, Nat)
    BY <1>1, <1>2, WFMin, NatLessThanWellFounded, Zenon
  <2>2. \A d \in PendingScans : ~(d < c)
    BY <1>1, <2>1, Zenon DEF OpToRel
  <2> QED
    BY <1>1, <2>2
<1> QED
  BY <1>2, PendingIsStarted DEF GetNumFinishedScans, OldestIsFirst

LEMMA PendingAfter ==
    ASSUME ConstantsOK, BuilderInv, [Next]_vars
    PROVE  /\ PendingScans' \subseteq PendingScans \cup {current_computation}
           /\ current_computation' >= current_computation
<1> USE Nulls DEF BuilderInv, TypeOK, PendingScans, Computations
<1>1. ASSUME UNCHANGED <<pending_computations, current_computation>>
      PROVE  /\ PendingScans' = PendingScans
             /\ current_computation' = current_computation
  BY <1>1
<1>2. ASSUME UNCHANGED current_computation,
             pending_computations' =
                [pending_computations EXCEPT ![current_computation] = @ + 1]
      PROVE  /\ PendingScans' \subseteq PendingScans \cup {current_computation}
             /\ current_computation' = current_computation
  BY <1>2
<1>3. ASSUME NotifyEndOfScan
      PROVE  PendingScans' = PendingScans /\ current_computation' = current_computation + 1
  BY <1>3 DEF NotifyEndOfScan
<1>4. ASSUME NEW w \in Workers, FinishComputation(w)
      PROVE  /\ PendingScans' \subseteq PendingScans
             /\ current_computation' = current_computation
  <2>1. PICK c \in Computations : c = executing[w].comp /\ pending_computations[c] > 0
    BY <1>4, FinishedItem
  <2>2. pending_computations' = [pending_computations EXCEPT ![c] = @ - 1]
    BY <1>4, <2>1 DEF FinishComputation, Left
  <2> QED
    BY <1>4, <2>1, <2>2 DEF FinishComputation
<1>5. ASSUME NEW s \in Submaps, NEW n \in Nodes, NEW g, AddComputation(s, n, g)
      PROVE  /\ UNCHANGED current_computation
             /\ pending_computations' =
                   [pending_computations EXCEPT ![current_computation] = @ + 1]
  BY <1>5 DEF AddComputation
<1>6. ASSUME NEW callback, WhenDone(callback)
      PROVE  /\ UNCHANGED current_computation
             /\ pending_computations' =
                   [pending_computations EXCEPT ![current_computation] = @ + 1]
  BY <1>6 DEF WhenDone
<1>7. CASE Client
  <2>1. CASE NotifyEndOfScan
    BY <1>3, <2>1
  <2>2. CASE \E callback \in Callbacks : WhenDone(callback)
    BY <1>2, <1>6, <2>2
  <2>3. CASE \E s \in Submaps, n \in Nodes, g \in BOOLEAN : AddComputation(s, n, g)
    BY <1>2, <1>5, <2>3
  <2>4. CASE UNCHANGED vars
    BY <1>1, <2>4 DEF vars, clientvars
  <2> QED
    BY <1>7, <2>1, <2>2, <2>3, <2>4 DEF Client, MaybeAddConstraint, MaybeAddGlobalConstraint
<1>8. ASSUME NEW w \in Workers, Worker(w)
      PROVE  /\ PendingScans' \subseteq PendingScans
             /\ current_computation' = current_computation
  <2>1. FinishComputation(w) \/ UNCHANGED <<pending_computations, current_computation>>
    BY <1>8 DEF Worker, Start, ConstructSubmapScanMatcher, ComputeConstraint, ReturnFromCallback,
       clientvars
  <2> QED
    BY <1>1, <1>4, <2>1
<1>9. CASE UNCHANGED vars
  BY <1>1, <1>9 DEF vars, clientvars
<1> QED
  BY <1>7, <1>8, <1>9 DEF Next

LEMMA FinishedScansGrow ==
    ASSUME ConstantsOK, BuilderInv, [Next]_vars, OldestIsFirst, OldestIsFirst'
    PROVE  GetNumFinishedScans' >= GetNumFinishedScans
<1>1. PICK m \in Nat : /\ m = GetNumFinishedScans
                       /\ m <= current_computation
                       /\ \A d \in PendingScans : m <= d
  BY DEF OldestIsFirst
<1>2. PICK k : k = GetNumFinishedScans'
  OBVIOUS
<1>3. /\ \/ PendingScans' = {} /\ k = current_computation'
         \/ k \in PendingScans'
      /\ current_computation' \in Nat
      /\ current_computation \in Nat
  BY <1>2 DEF OldestIsFirst
<1> QED
  BY <1>1, <1>2, <1>3, PendingAfter

\* constraint_builder.h:102-106, 145-146: a callback is run when every computation it waits for
\* has ended, with all that was found; and the number of finished scans, which is counted
\* consecutively, never goes back.
THEOREM ReportedAlways ==
    ASSUME ConstantsOK
    PROVE  Spec => ComputationsReported
<1>1. BuilderInv => OldestIsFirst
  BY OldestPending
<1>2. ASSUME BuilderInv, OldestIsFirst, OldestIsFirst', [Next]_vars
      PROVE  /\ [\A w \in Workers : call[w] = None /\ call'[w] # None =>
                    /\ \A t \in Unfinished : t.kind = "construct" \/ t = executing[w]
                    /\ \A i \in DOMAIN constraints :
                          constraints[i] \in call'[w].result \cup {None}
                    /\ constraints' = <<>>]_vars
             /\ [GetNumFinishedScans' >= GetNumFinishedScans]_vars
  BY <1>2, CallbackTakesAll, FinishedScansGrow
<1> QED
  BY <1>1, <1>2, BuilderInvariant, PTL
     DEF Spec, ComputationsReported, ResultsComplete, FinishedScansMonotone
-----------------------------------------------------------------------------
(* When nothing is left to do.                                              *)

\* The last computation takes the callback with it and leaves nothing behind.
LEMMA CallbackLeavesNothing ==
    ASSUME ConstantsOK, BuilderInv, NEW w \in Workers, FinishComputation(w)
    PROVE  \/ UNCHANGED <<call, when_done>>
           \/ /\ when_done # None /\ when_done' = None
              /\ \A v \in Workers \ {w} : call'[v] = call[v]
              /\ Unfinished' = {} /\ constraints' = <<>>
<1> USE Nulls DEF BuilderInv
<1>1. CASE LastPending(w) /\ when_done # None
  <2>1. /\ call' = [call EXCEPT ![w] = [callback |-> when_done, result |-> Found]]
        /\ when_done' = None /\ constraints' = <<>>
        /\ UNCHANGED <<work_queue, executing, queued_work_items>>
    BY <1>1 DEF FinishComputation, poolvars
  <2>2. call \in [Workers -> Call \cup {None}]
    BY DEF TypeOK
  <2>3. \A v \in Workers \ {w} : call'[v] = call[v]
    BY <2>1, <2>2
  <2>4. call'[w] # None
    <3>1. Found \subseteq Constraint
      <4>1. \A i \in DOMAIN constraints : constraints[i] \in Constraint \cup {None}
        BY DEF TypeOK
      <4> QED
        BY <4>1 DEF Found
    <3>2. [callback |-> when_done, result |-> Found] \in Call
      BY <1>1, <3>1 DEF Call, TypeOK
    <3>3. call'[w] = [callback |-> when_done, result |-> Found]
      BY <2>1, <2>2
    <3> QED
      BY <3>2, <3>3
  <2>5. Holds(w) /\ \A t \in Unfinished : t = executing[w]
    BY <1>1, FinishedItem, LastIsAlone
  <2>6. ASSUME NEW t \in Unfinished' PROVE FALSE
    <3>1. CASE t \in work_queue' \/ \E s \in Submaps : t \in queued_work_items'[s]
      <4>1. t \in Unfinished
        BY <2>1, <3>1, UnfinishedItem
      <4> QED
        BY <2>1, <2>5, <3>1, <4>1 DEF OnePlace
    <3>2. CASE \E v \in Workers : Holds(v)' /\ t = executing'[v]
      <4>1. PICK v \in Workers : Holds(v)' /\ t = executing'[v]
        BY <3>2
      <4>2. v # w /\ Holds(v) /\ t = executing[v]
        BY <2>1, <2>3, <2>4, <4>1 DEF Holds
      <4>3. executing[v] = executing[w]
        BY <2>5, <4>2, UnfinishedItem
      <4> QED
        BY <2>5, <4>2, <4>3 DEF OnePlace
    <3> QED
      BY <2>6, <3>1, <3>2, UnfinishedItemAfter
  <2> QED
    BY <1>1, <2>1, <2>3, <2>6
<1>2. CASE ~(LastPending(w) /\ when_done # None)
  BY <1>2 DEF FinishComputation
<1> QED
  BY <1>1, <1>2

\* Then workers do nothing but return, and no count is left.
LEMMA NothingLeftToDo ==
    ASSUME ConstantsOK, BuilderInv, Unfinished = {}
    PROVE  /\ \A w \in Workers : /\ ~Start(w)
                                 /\ ~ConstructSubmapScanMatcher(w)
                                 /\ ~FinishComputation(w)
                                 /\ \A match : ~ComputeConstraint(w, match)
                                 /\ ReturnFromCallback(w) => Unfinished' = {}
           /\ \A c \in Computations : pending_computations[c] = 0
           /\ \A s \in Submaps : queued_work_items[s] = {}
<1>1. /\ work_queue = {} /\ \A s \in Submaps : queued_work_items[s] = {}
      /\ \A w \in Workers : ~Holds(w)
  BY UnfinishedItem
<1>2. ASSUME NEW w \in Workers
      PROVE  /\ ~Start(w)
             /\ ~ConstructSubmapScanMatcher(w)
             /\ ~FinishComputation(w)
             /\ \A match : ~ComputeConstraint(w, match)
  <2>1. \A kind : ~Executes(w, kind)
    BY <1>1 DEF Executes, Holds
  <2> QED
    BY <1>1, <2>1
       DEF Start, Pool!Start, ConstructSubmapScanMatcher, FinishComputation, ComputeConstraint
<1>3. ASSUME NEW w \in Workers, ReturnFromCallback(w) PROVE Unfinished' = {}
  <2>1. /\ call' = [call EXCEPT ![w] = None]
        /\ executing' = [executing EXCEPT ![w] = Idle]
        /\ UNCHANGED <<work_queue, queued_work_items>>
    BY <1>3 DEF ReturnFromCallback, Pool!Finish, matchvars
  <2>2. \A v \in Workers : ~Holds(v)'
    <3>1. call \in [Workers -> Call \cup {None}] /\ executing \in [Workers -> Tasks \cup {Idle}]
      BY DEF BuilderInv, TypeOK
    <3> QED
      BY <1>1, <2>1, <3>1 DEF Holds
  <2> QED
    BY <1>1, <2>1, <2>2, UnfinishedItemAfter
<1>4. ASSUME NEW c \in Computations PROVE pending_computations[c] = 0
  <2>1. Counted(c) = {}
    BY DEF Counted
  <2> QED
    BY <2>1, FS_EmptySet DEF BuilderInv, PendingCounts
<1> QED
  BY <1>1, <1>2, <1>3, <1>4
-----------------------------------------------------------------------------
(* What is matched.                                                         *)

\* The matches that have not been tried.
Unmatched == {t \in Unfinished : t.kind = "compute"} \ {executing[w] : w \in computed}

LEMMA UnmatchedItem ==
    ASSUME OnePlace, TypeOK
    PROVE  \A t : t \in Unmatched <=>
              /\ t.kind = "compute"
              /\ \/ t \in work_queue
                 \/ \E s \in Submaps : t \in queued_work_items[s]
                 \/ \E w \in Workers : Holds(w) /\ w \notin computed /\ t = executing[w]
BY UnfinishedItem DEF Unmatched, OnePlace, TypeOK

LEMMA UnmatchedItemAfter ==
    ASSUME OnePlace', TypeOK'
    PROVE  \A t : t \in Unmatched' <=>
              /\ t.kind = "compute"
              /\ \/ t \in work_queue'
                 \/ \E s \in Submaps : t \in queued_work_items'[s]
                 \/ \E w \in Workers : Holds(w)' /\ w \notin computed' /\ t = executing'[w]
BY UnfinishedItemAfter DEF Unmatched, OnePlace, TypeOK

LEMMA StartMatches ==
    ASSUME ConstantsOK, BuilderInv, BuilderInv', NEW w \in Workers, Start(w)
    PROVE  UNCHANGED <<Unmatched, Found, call>>
<1> USE Nulls DEF BuilderInv
<1>1. PICK i \in work_queue :
         /\ executing[w] = Idle
         /\ work_queue' = work_queue \ {i}
         /\ executing' = [executing EXCEPT ![w] = i]
  BY DEF Start, Pool!Start
<1>2. UNCHANGED <<clientvars, matchvars, computed, call, failed>>
  BY DEF Start
<1>3. /\ i # Idle /\ call[w] = None /\ w \notin computed
      /\ ~Holds(w) /\ Holds(w)' /\ executing'[w] = i
      /\ \A v \in Workers \ {w} : executing'[v] = executing[v] /\ (Holds(v)' <=> Holds(v))
  BY <1>1, <1>2 DEF TypeOK, OnePlace, Holds
<1>4. \A t : t \in Unmatched' <=> t \in Unmatched
  BY <1>1, <1>2, <1>3, UnmatchedItem, UnmatchedItemAfter DEF matchvars
<1> QED
  BY <1>2, <1>4 DEF Found, matchvars

LEMMA ConstructMatches ==
    ASSUME ConstantsOK, BuilderInv, BuilderInv', NEW w \in Workers,
           ConstructSubmapScanMatcher(w)
    PROVE  UNCHANGED <<Unmatched, Found, call>>
<1> USE Nulls DEF BuilderInv
<1>1. PICK s : s = executing[w].submap
  OBVIOUS
<1>2. /\ Holds(w)
      /\ executing[w].kind = "construct"
      /\ work_queue' = work_queue \cup queued_work_items[s]
      /\ queued_work_items' = [queued_work_items EXCEPT ![s] = {}]
      /\ executing' = [executing EXCEPT ![w] = Idle]
      /\ UNCHANGED <<clientvars, constraints, computed, call, failed>>
  BY <1>1 DEF ConstructSubmapScanMatcher, Executes, Holds
<1>3. /\ s \in Submaps
      /\ queued_work_items'[s] = {}
      /\ \A r \in Submaps \ {s} : queued_work_items'[r] = queued_work_items[r]
  BY <1>1, <1>2, TaskFields DEF TypeOK, Holds, ConstructTasks
<1>4. /\ ~Holds(w)'
      /\ \A v \in Workers \ {w} : executing'[v] = executing[v] /\ (Holds(v)' <=> Holds(v))
  BY <1>2 DEF TypeOK, Holds
<1>5. \A t : (\/ t \in work_queue'
              \/ \E r \in Submaps : t \in queued_work_items'[r])
             <=> (\/ t \in work_queue
                  \/ \E r \in Submaps : t \in queued_work_items[r])
  BY <1>2, <1>3
<1>6. \A t : t.kind = "compute" =>
         ((\E v \in Workers : Holds(v)' /\ v \notin computed' /\ t = executing'[v])
          <=> (\E v \in Workers : Holds(v) /\ v \notin computed /\ t = executing[v]))
  BY <1>2, <1>4
<1>7. \A t : t \in Unmatched' <=> t \in Unmatched
  BY <1>5, <1>6, UnmatchedItem, UnmatchedItemAfter
<1> QED
  BY <1>2, <1>7 DEF Found

\* A match is tried once; when it is found it is there until the callback takes it.
LEMMA ComputeMatches ==
    ASSUME ConstantsOK, BuilderInv, BuilderInv', NEW w \in Workers, NEW match \in BOOLEAN,
           ComputeConstraint(w, match)
    PROVE  /\ executing[w] \in Unmatched /\ executing[w] \in ComputeTasks
           /\ Unmatched' = Unmatched \ {executing[w]}
           /\ Found' = IF match
                       THEN Found \cup {[submap |-> executing[w].submap,
                                         node |-> executing[w].node]}
                       ELSE Found
           /\ UNCHANGED call
<1> USE Nulls DEF BuilderInv
<1> DEFINE t == executing[w]
           found == [submap |-> t.submap, node |-> t.node]
<1>1. /\ Holds(w)
      /\ t.kind = "compute"
      /\ w \notin computed
      /\ computed' = computed \cup {w}
      /\ constraints' = IF match THEN [constraints EXCEPT ![t.slot] = found] ELSE constraints
      /\ UNCHANGED <<clientvars, scan_matchers, queued_work_items, poolvars, call>>
  BY DEF ComputeConstraint, Executes, Holds
<1>2. t \in ComputeTasks /\ t \in Unmatched /\ t \in Unfinished
  BY <1>1, TaskFields, UnfinishedItem, UnmatchedItem DEF TypeOK, Holds
<1>3. Unmatched' = Unmatched \ {t}
  <2>1. Unfinished' = Unfinished
    BY <1>1 DEF Unfinished, poolvars
  <2> QED
    BY <1>1, <2>1 DEF Unmatched, poolvars
<1>4. t.slot \in DOMAIN constraints /\ constraints[t.slot] = None
  BY <1>2 DEF OwnSlot, Unmatched
<1>5. found \in Constraint /\ found # None
  BY <1>2, ComputeFields DEF Constraint
<1>6. CASE match
  <2>1. constraints \in Seq(Constraint \cup {None}) /\ found \in Constraint \cup {None}
    BY <1>5 DEF TypeOK
  <2>2. t.slot \in 1..Len(constraints) /\ DOMAIN constraints = 1..Len(constraints)
    BY <1>4, <2>1
  <2> HIDE DEF found
  <2>3. /\ DOMAIN constraints' = DOMAIN constraints
        /\ constraints'[t.slot] = found
        /\ \A i \in DOMAIN constraints \ {t.slot} : constraints'[i] = constraints[i]
    BY <1>1, <1>6, <2>1, <2>2, ExceptSeq
  <2>4. \A r : r \in Found' <=> r \in Found \/ r = found
    BY <1>4, <1>5, <2>3 DEF Found
  <2>5. Found' = Found \cup {found}
    BY <2>4
  <2> QED
    BY <1>1, <1>2, <1>3, <1>6, <2>5 DEF found
<1>7. CASE ~match
  BY <1>1, <1>2, <1>3, <1>7 DEF Found
<1> QED
  BY <1>6, <1>7

\* What was found is handed over as a whole.
LEMMA FinishMatches ==
    ASSUME ConstantsOK, BuilderInv, BuilderInv', NEW w \in Workers, FinishComputation(w)
    PROVE  /\ UNCHANGED Unmatched
           /\ \/ UNCHANGED <<Found, call>>
              \/ /\ call[w] = None /\ Found' = {}
                 /\ \E c \in Call : c.result = Found /\ call' = [call EXCEPT ![w] = c]
<1> USE Nulls DEF BuilderInv
<1> DEFINE t == executing[w]
           calling == LastPending(w) /\ when_done # None
<1>1. /\ Holds(w)
      /\ t.kind = "finish" \/ (t.kind = "compute" /\ w \in computed)
      /\ computed' = computed \ {w}
      /\ UNCHANGED <<current_computation, scan_matchers, queued_work_items, work_queue>>
      /\ calling => /\ call' = [call EXCEPT ![w] = [callback |-> when_done, result |-> Found]]
                    /\ constraints' = <<>>
                    /\ executing' = executing
      /\ ~calling => /\ executing' = [executing EXCEPT ![w] = Idle]
                     /\ UNCHANGED <<call, constraints>>
  BY DEF FinishComputation, Executes, Pool!Finish, poolvars, Holds
<1>2. [callback |-> when_done, result |-> Found] \in Call \/ ~calling
  <2>1. constraints \in Seq(Constraint \cup {None})
    BY DEF TypeOK
  <2>2. \A i \in DOMAIN constraints : constraints[i] \in Constraint \cup {None}
    BY <2>1
  <2>3. Found \subseteq Constraint
    BY <2>2 DEF Found
  <2> QED
    BY <2>3 DEF TypeOK, Call
<1>3. /\ ~Holds(w)'
      /\ \A v \in Workers \ {w} : executing'[v] = executing[v] /\ (Holds(v)' <=> Holds(v))
  BY <1>1, <1>2 DEF TypeOK, Holds
<1>4. \A u : u.kind = "compute" =>
         ((\E v \in Workers : Holds(v)' /\ v \notin computed' /\ u = executing'[v])
          <=> (\E v \in Workers : Holds(v) /\ v \notin computed /\ u = executing[v]))
  BY <1>1, <1>3
<1>5. \A u : u \in Unmatched' <=> u \in Unmatched
  BY <1>1, <1>4, UnmatchedItem, UnmatchedItemAfter
<1>6. CASE calling
  <2>1. Found' = {}
    BY <1>1, <1>6 DEF Found
  <2>2. call[w] = None
    BY <1>1 DEF Holds
  <2>3. PICK c : c = [callback |-> when_done, result |-> Found]
    OBVIOUS
  <2>4. c \in Call /\ c.result = Found /\ call' = [call EXCEPT ![w] = c]
    BY <1>1, <1>2, <1>6, <2>3
  <2>5. UNCHANGED Unmatched
    BY <1>5
  <2> QED
    BY <2>1, <2>2, <2>4, <2>5
<1>7. CASE ~calling
  <2>1. UNCHANGED <<Found, call>>
    BY <1>1, <1>7 DEF Found
  <2>2. UNCHANGED Unmatched
    BY <1>5
  <2> QED
    BY <2>1, <2>2
<1> QED
  BY <1>6, <1>7

LEMMA ReturnMatches ==
    ASSUME ConstantsOK, BuilderInv, BuilderInv', NEW w \in Workers, ReturnFromCallback(w)
    PROVE  UNCHANGED <<Unmatched, Found>> /\ call' = [call EXCEPT ![w] = None]
<1> USE Nulls DEF BuilderInv
<1>1. /\ call[w] # None
      /\ call' = [call EXCEPT ![w] = None]
      /\ executing' = [executing EXCEPT ![w] = Idle]
      /\ UNCHANGED <<clientvars, matchvars, work_queue, computed, failed>>
  BY DEF ReturnFromCallback, Pool!Finish
<1>2. /\ ~Holds(w) /\ ~Holds(w)'
      /\ \A v \in Workers \ {w} : executing'[v] = executing[v] /\ (Holds(v)' <=> Holds(v))
  BY <1>1 DEF TypeOK, Holds
<1>3. \A u : u \in Unmatched' <=> u \in Unmatched
  BY <1>1, <1>2, UnmatchedItem, UnmatchedItemAfter DEF matchvars
<1> QED
  BY <1>1, <1>3 DEF Found, matchvars

LEMMA AddMatches ==
    ASSUME ConstantsOK, BuilderInv, NEW s \in Submaps, NEW n \in Nodes, NEW global \in BOOLEAN,
           AddComputation(s, n, global)
    PROVE  /\ \E t \in ComputeTasks : /\ t.submap = s /\ t.node = n /\ t.global = global
                                      /\ Unmatched' = Unmatched \cup {t}
           /\ UNCHANGED <<Found, call>>
<1> USE Nulls DEF BuilderInv
<1>1. PICK t \in ComputeTasks, c \in ConstructTasks, built \in BOOLEAN :
              /\ t.submap = s /\ t.node = n /\ t.global = global
              /\ Unfinished' = Unfinished \cup {t} \cup (IF built THEN {c} ELSE {})
              /\ t \notin Unfinished
  BY AddedItems
<1>2. /\ constraints' = Append(constraints, None)
      /\ executing' = executing
      /\ UNCHANGED <<computed, call>>
  BY DEF AddComputation, ScheduleOrQueue, Pool!Schedule
<1>3. t.kind = "compute" /\ c.kind = "construct"
  BY DEF ComputeTasks, ConstructTasks
<1>4. \A w \in computed : executing[w] \in Unfinished
  BY UnfinishedItem DEF OnePlace, TypeOK
<1>5. Unmatched' = Unmatched \cup {t}
  BY <1>1, <1>2, <1>3, <1>4 DEF Unmatched
<1>6. Found' = Found
  <2>1. constraints \in Seq(Constraint \cup {None})
    BY DEF TypeOK
  <2>2. /\ DOMAIN constraints = 1..Len(constraints) /\ Len(constraints) \in Nat
        /\ DOMAIN constraints' = 1..Len(constraints) + 1
        /\ constraints'[Len(constraints) + 1] = None
        /\ \A i \in DOMAIN constraints : constraints'[i] = constraints[i]
    BY <1>2, <2>1
  <2> QED
    BY <2>2 DEF Found
<1> QED
  BY <1>1, <1>2, <1>5, <1>6

LEMMA ClientMatches ==
    ASSUME BuilderInv, BuilderInv',
           NotifyEndOfScan \/ (\E callback \in Callbacks : WhenDone(callback)) \/ UNCHANGED vars
    PROVE  UNCHANGED <<Unmatched, Found, call>>
<1> USE DEF BuilderInv
<1>1. UNCHANGED <<matchvars, executing, computed, call>>
  BY DEF NotifyEndOfScan, WhenDone, vars, poolvars, Pool!Schedule
<1>2. \A t : t.kind = "compute" => (t \in work_queue' <=> t \in work_queue)
  BY DEF NotifyEndOfScan, WhenDone, vars, poolvars, Pool!Schedule
<1>3. \A w : Holds(w)' <=> Holds(w)
  BY <1>1 DEF Holds
<1>4. \A t : t \in Unmatched' <=> t \in Unmatched
  BY <1>1, <1>2, <1>3, UnmatchedItem, UnmatchedItemAfter DEF matchvars
<1>5. Unmatched' = Unmatched
  BY <1>4
<1>6. Found' = Found
  BY <1>1 DEF Found, matchvars
<1> QED
  BY <1>1, <1>5, <1>6

LEMMA InitialMatches ==
    ASSUME ConstantsOK, Init
    PROVE  /\ Unfinished = {} /\ Unmatched = {} /\ Found = {}
           /\ \A w \in Workers : call[w] = None
<1>1. Unfinished = {}
  BY Nulls DEF Init, Pool!Init, Unfinished
<1> QED
  BY <1>1 DEF Init, Unmatched, Found
-----------------------------------------------------------------------------
(* The submaps that are matched.                                            *)

\* But for the calls that add computations, no step brings new matches or matchers to build.
LEMMA WorkersBringNoItem ==
    ASSUME ConstantsOK, BuilderInv, NEW w \in Workers,
           \/ Start(w) \/ (\E match \in BOOLEAN : ComputeConstraint(w, match))
           \/ FinishComputation(w) \/ ReturnFromCallback(w)
    PROVE  Unfinished' \subseteq Unfinished /\ UNCHANGED scan_matchers
<1> USE Nulls DEF BuilderInv
<1>1. /\ UNCHANGED <<scan_matchers, queued_work_items>>
      /\ work_queue' \subseteq work_queue
      /\ \A v \in Workers \ {w} : executing'[v] = executing[v] /\ call'[v] = call[v]
      /\ executing'[w] \in work_queue \cup {executing[w], Idle}
      /\ call[w] # None => call'[w] # None \/ executing'[w] = Idle
  <2>1. CASE Start(w)
    BY <2>1 DEF Start, Pool!Start, TypeOK, matchvars
  <2>2. ASSUME NEW match \in BOOLEAN, ComputeConstraint(w, match)
        PROVE  UNCHANGED <<scan_matchers, queued_work_items, work_queue, executing, call>>
    BY <2>2 DEF ComputeConstraint, poolvars
  <2>3. CASE FinishComputation(w)
    BY <2>3 DEF FinishComputation, Pool!Finish, TypeOK, poolvars, Executes, Call
  <2>4. CASE ReturnFromCallback(w)
    BY <2>4 DEF ReturnFromCallback, Pool!Finish, TypeOK, matchvars
  <2> QED
    BY <2>1, <2>2, <2>3, <2>4 DEF TypeOK
<1>2. ASSUME NEW t \in Unfinished' PROVE t \in Unfinished
  <2>1. CASE t \in work_queue' \/ \E s \in Submaps : t \in queued_work_items'[s]
    BY <1>1, <2>1, UnfinishedItem
  <2>2. ASSUME NEW v \in Workers, Holds(v)', t = executing'[v] PROVE t \in Unfinished
    BY <1>1, <2>2, UnfinishedItem DEF Holds
  <2> QED
    BY <2>1, <2>2, UnfinishedItemAfter
<1> QED
  BY <1>1, <1>2

LEMMA ConstructionBringsNoItem ==
    ASSUME ConstantsOK, BuilderInv, NEW w \in Workers, ConstructSubmapScanMatcher(w)
    PROVE  /\ Unfinished' \subseteq Unfinished
           /\ executing[w] \in Unfinished /\ executing[w].kind = "construct"
           /\ executing[w].submap \in Submaps
           /\ scan_matchers' = scan_matchers \cup {executing[w].submap}
<1> USE Nulls DEF BuilderInv
<1>1. PICK s : s = executing[w].submap
  OBVIOUS
<1>2. /\ Holds(w)
      /\ executing[w].kind = "construct"
      /\ scan_matchers' = scan_matchers \cup {s}
      /\ work_queue' = work_queue \cup queued_work_items[s]
      /\ queued_work_items' = [queued_work_items EXCEPT ![s] = {}]
      /\ executing' = [executing EXCEPT ![w] = Idle]
      /\ call' = call
  BY <1>1 DEF ConstructSubmapScanMatcher, Executes, Holds
<1>3. s \in Submaps /\ \A r \in Submaps : queued_work_items'[r] \subseteq queued_work_items[r]
  BY <1>1, <1>2, TaskFields DEF TypeOK, Holds, ConstructTasks
<1>4. \A v \in Workers : Holds(v)' => Holds(v) /\ executing'[v] = executing[v]
  BY <1>2 DEF TypeOK, Holds
<1>5. ASSUME NEW t \in Unfinished' PROVE t \in Unfinished
  BY <1>2, <1>3, <1>4, UnfinishedItem, UnfinishedItemAfter
<1>6. executing[w] \in Unfinished
  BY <1>2, UnfinishedItem
<1> QED
  BY <1>1, <1>2, <1>3, <1>5, <1>6

LEMMA ClientBringsNoMatch ==
    ASSUME ConstantsOK, BuilderInv,
           NotifyEndOfScan \/ (\E c \in Callbacks : WhenDone(c)) \/ UNCHANGED vars
    PROVE  /\ \A t \in Unfinished' : t \in Unfinished \/ t.kind = "finish"
           /\ UNCHANGED scan_matchers
<1>1. /\ UNCHANGED <<scan_matchers, queued_work_items, executing, call>>
      /\ \A t \in work_queue' : t \in work_queue \/ t.kind = "finish"
  <2>1. CASE NotifyEndOfScan \/ UNCHANGED vars
    BY <2>1 DEF NotifyEndOfScan, vars, clientvars, matchvars, poolvars
  <2>2. ASSUME NEW c \in Callbacks, WhenDone(c)
        PROVE  /\ UNCHANGED <<scan_matchers, queued_work_items, executing, call>>
               /\ work_queue' = work_queue
                                \cup {[kind |-> "finish", comp |-> current_computation]}
    BY <2>2 DEF WhenDone, Pool!Schedule, matchvars
  <2> QED
    BY <2>1, <2>2
<1> QED
  BY <1>1, UnfinishedItem, UnfinishedItemAfter DEF Holds

\* What a call adds is for the submap it is about; what is to be built was not.
LEMMA AddBringsMatch ==
    ASSUME ConstantsOK, BuilderInv, NEW s \in Submaps, NEW n \in Nodes, NEW global \in BOOLEAN,
           AddComputation(s, n, global)
    PROVE  /\ UNCHANGED scan_matchers
           /\ \A t \in Unfinished' : t \in Unfinished \/ (t.submap = s /\ t.kind # "finish")
           /\ \A t \in Unfinished' : t.kind = "construct" =>
                 \/ t \in Unfinished
                 \/ s \notin scan_matchers /\ queued_work_items[s] = {}
<1>1. PICK t \in ComputeTasks, c \in ConstructTasks, built \in BOOLEAN :
              /\ t.submap = s
              /\ c = [kind |-> "construct", submap |-> s]
              /\ built <=> (s \notin scan_matchers /\ queued_work_items[s] = {})
              /\ Unfinished' = Unfinished \cup {t} \cup (IF built THEN {c} ELSE {})
  BY AddedItems
<1>2. t.kind = "compute" /\ c.kind = "construct" /\ c.submap = s
  BY <1>1 DEF ComputeTasks
<1>3. UNCHANGED scan_matchers
  BY DEF AddComputation
<1> QED
  BY <1>1, <1>2, <1>3
=============================================================================

------------------------------ MODULE WorkPool ------------------------------
(***************************************************************************)
(* What common::ThreadPool promises its clients (thread_pool.h:26-30): an  *)
(* item that is scheduled waits, is started by one worker, and leaves the  *)
(* pool when that worker has finished it.  The order in which waiting      *)
(* items are started is not promised here.  ThreadPool.tla is shown to     *)
(* implement this module; ConstraintBuilder.tla is built on it.            *)
(***************************************************************************)
CONSTANTS Workers,  \* the threads of the pool
          Items,    \* the work items clients may schedule
          Idle      \* what a worker without a work item is executing

VARIABLES waiting,    \* scheduled items no worker has started
          executing,  \* the item each worker executes, or Idle
          open        \* the destructor has not been called

poolvars == <<waiting, executing, open>>

Executing == {executing[w] : w \in Workers} \ {Idle}

\* Items the pool still owes its clients.
Outstanding == waiting \cup Executing

Init == /\ waiting = {}
        /\ executing = [w \in Workers |-> Idle]
        /\ open = TRUE

Schedule(S) == /\ open
               /\ waiting' = waiting \cup S
               /\ UNCHANGED executing
               /\ open' = open

Start(w) == /\ executing[w] = Idle
            /\ \E i \in waiting :
                  /\ waiting' = waiting \ {i}
                  /\ executing' = [executing EXCEPT ![w] = i]
            /\ open' = open

Finish(w) == /\ executing[w] # Idle
             /\ executing' = [executing EXCEPT ![w] = Idle]
             /\ UNCHANGED waiting
             /\ open' = open

\* The destructor may be called only when nothing waits.
Close == /\ open
         /\ waiting = {}
         /\ open' = FALSE
         /\ UNCHANGED <<waiting, executing>>

Next == \/ \E i \in Items : i \notin Outstanding /\ Schedule({i})
        \/ \E w \in Workers : Start(w) \/ Finish(w)
        \/ Close

Spec == Init /\ [][Next]_poolvars
=============================================================================

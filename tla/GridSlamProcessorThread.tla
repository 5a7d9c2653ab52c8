---------------------- MODULE GridSlamProcessorThread ----------------------
(***************************************************************************)
(* GridSlamProcessorThread and its viewers: the filter runs in a thread of *)
(* its own and reports every step of the particles as an event; the thread *)
(* of the viewer takes the events from the buffer, draws the paths of the  *)
(* particles from those it keeps (gfs_simplegui) or throws them away       *)
(* (gfs_nogui), and stops when it has seen the DoneEvent.                  *)
(* An event is known by its number and the pose of a particle by the move  *)
(* and the particle's index at it; weights and maps are left out.          *)
(***************************************************************************)
EXTENDS Integers, Sequences, FiniteSets, SequencesExt

CONSTANTS
    NumParticles,
    GuiBufferLength,  \* setEventBufferSize(10000) of gfs_simplegui
    MapUpdateTime,
    MaxReadings       \* bound: the range readings of the input

VARIABLES
    gui,          \* gfs_simplegui or gfs_nogui
    step,         \* what the filter's thread does next
    read,         \* range readings taken from the input
    mapTimer,
    eventBuffer,
    running,
    events,       \* the events the viewer has taken and not yet looked at
    history,      \* those it keeps
    done,         \* the viewer has seen the DoneEvent
    dropped,      \* history: events deleted unseen
    ancestors     \* history: for each event made, and each particle after it, the index
                  \* after each event up to it of the particle it comes from

threadVars == <<step, read, mapTimer>>
viewerVars == <<events, history, done, running>>
bufferVars == <<eventBuffer, dropped, ancestors>>
vars == <<gui, threadVars, viewerVars, bufferVars>>

Particles == 1..NumParticles
eventBufferLength == IF gui THEN GuiBufferLength ELSE 0

Init == /\ gui \in BOOLEAN
        /\ step = "read" /\ read = 0 /\ mapTimer = 0
        /\ eventBuffer = <<>>
        /\ running = TRUE
        /\ events = <<>> /\ history = <<>> /\ done = FALSE
        /\ dropped = {}
        /\ ancestors = <<>>
-----------------------------------------------------------------------------
Event(kind) == [kind |-> kind, number |-> 0, indexes |-> <<>>]

\* Each particle is moved, or drawn: what an event makes of the paths.
Traced(event) ==
    [i \in Particles |->
        LET before == IF event.kind = "resample" THEN event.indexes[i] ELSE i
        IN  Append(IF ancestors = <<>> THEN <<>> ELSE Last(ancestors)[before], i)]

\* Mutant: when the buffer is full it is the new event that goes.
AddIfRoom(e) ==
    LET event == [e EXCEPT !.number = Len(ancestors) + 1]
        room == Len(eventBuffer) <= eventBufferLength
    IN  /\ ancestors' = Append(ancestors, Traced(e))
        /\ eventBuffer' = IF room THEN Append(eventBuffer, event) ELSE eventBuffer
        /\ dropped' = IF room THEN dropped ELSE dropped \cup {event}

\* addEvent deletes the oldest events of a buffer that is too long.
AddEvent(e) ==
    LET over == Len(eventBuffer) - eventBufferLength
        kept == IF over > 0 THEN SubSeq(eventBuffer, over + 1, Len(eventBuffer))
                ELSE eventBuffer
    IN  /\ ancestors' = Append(ancestors, Traced(e))
        /\ eventBuffer' = Append(kept, [e EXCEPT !.number = Len(ancestors) + 1])
        /\ dropped' = dropped \cup (ToSet(eventBuffer) \ ToSet(kept))

\* A reading is taken and the odometry moves the particles: onOdometryUpdate.
OdometryUpdate ==
    /\ step = "read" /\ running /\ read < MaxReadings
    /\ read' = read + 1
    /\ AddEvent(Event("move"))
    /\ \/ step' = "read"   \* the robot has not moved far enough, or it is the first scan
       \/ read > 0 /\ step' = "match"
    /\ UNCHANGED mapTimer

\* onScanmatchUpdate, up to the event with the map.
ScanmatchUpdate ==
    /\ step = "match"
    /\ AddEvent(Event("move"))
    /\ step' = IF mapTimer = 0 THEN "map" ELSE "resample"
    /\ mapTimer' = IF mapTimer = 0 THEN mapTimer ELSE (mapTimer + 1) % MapUpdateTime
    /\ UNCHANGED read

MapUpdate ==
    /\ step = "map"
    /\ AddEvent(Event("map"))
    /\ mapTimer' = (mapTimer + 1) % MapUpdateTime
    /\ step' = "resample"
    /\ UNCHANGED read

\* resample, which draws the indexes in increasing order: onResampleUpdate.
ResampleUpdate ==
    /\ step = "resample"
    /\ \E indexes \in [Particles -> Particles] :
         /\ \A i, j \in Particles : i < j => indexes[i] <= indexes[j]
         /\ AddEvent([Event("resample") EXCEPT !.indexes = indexes])
    /\ step' = "read"
    /\ UNCHANGED <<read, mapTimer>>

KeepParticles ==
    /\ step = "resample"
    /\ step' = "read"
    /\ UNCHANGED <<read, mapTimer, bufferVars>>

\* The end of the input.
Finish ==
    /\ step = "read"
    /\ running => read = MaxReadings
    /\ AddEvent(Event("done"))
    /\ step' = "finished"
    /\ UNCHANGED <<read, mapTimer>>

ThreadNext == /\ \/ OdometryUpdate
                 \/ ScanmatchUpdate
                 \/ MapUpdate
                 \/ ResampleUpdate
                 \/ KeepParticles
                 \/ Finish
              /\ UNCHANGED <<gui, viewerVars>>
-----------------------------------------------------------------------------
\* getEvents, by the timer of the viewer or in the loop of gfs_nogui.
GetEvents ==
    /\ events = <<>>
    /\ gui \/ ~done
    /\ events' = eventBuffer
    /\ eventBuffer' = <<>>
    /\ UNCHANGED <<gui, threadVars, history, done, running, dropped, ancestors>>

\* A DoneEvent makes the viewer stop the thread, and join it; of the others the gui
\* keeps what is not a map.
HandleEvent ==
    /\ events # <<>>
    /\ LET event == Head(events)
       IN  /\ events' = Tail(events)
           /\ done' = (done \/ event.kind = "done")
           /\ running' = (running /\ event.kind # "done")
           /\ event.kind = "done" => step = "finished"
           /\ history' = IF gui /\ event.kind \in {"move", "resample"}
                         THEN Append(history, event)
                         ELSE history
    /\ UNCHANGED <<gui, threadVars, bufferVars>>

Next == ThreadNext \/ GetEvents \/ HandleEvent

Spec == Init /\ [][Next]_vars
-----------------------------------------------------------------------------
IsMove(event) == event.kind = "move"

\* An event of the history, on the way back.
WithEvent(path, event) ==
    IF IsMove(event) THEN [path EXCEPT !.poses = Append(@, <<event.number, path.index>>)]
    ELSE IF path.poses = <<>> THEN path
    ELSE [path EXCEPT !.index = event.indexes[@]]

\* drawFromMemory: the path of particle i, as poses of moves, the newest first.
DrawnPath(i) ==
    LET drawn[n \in 0..Len(history)] ==
            IF n = 0 THEN [index |-> i, poses |-> <<>>]
            ELSE WithEvent(drawn[n - 1], history[Len(history) + 1 - n])
    IN  drawn[Len(history)].poses

\* The resampling that was dropped last.
LastDropped ==
    LET numbers == {event.number : event \in {e \in dropped : e.kind = "resample"}}
    IN  IF numbers = {} THEN 0 ELSE CHOOSE n \in numbers : \A m \in numbers : m <= n

\* The moves kept from the p-th event of the history on.
MovesFrom(p) == {q \in p..Len(history) : IsMove(history[q])}

\* The paths drawn are those of the particles of the newest move, back to a resampling
\* that was dropped because the viewer had been too slow: for every move there is a pose,
\* in their order, and it is that of the particle's ancestor.
PathsTrue ==
    \A i \in Particles, p \in DOMAIN history :
      LET number == history[p].number
          newest == history[Max(MovesFrom(p))].number
      IN  IsMove(history[p]) /\ number > LastDropped =>
            DrawnPath(i)[Cardinality(MovesFrom(p))] = <<number, ancestors[newest][i][number]>>

\* Events are looked at in the order in which they were made, and the DoneEvent is not
\* dropped however slow the viewer is: a viewer never waits for what is gone.
EventsInOrder ==
    LET waiting == history \o events \o eventBuffer
    IN  /\ \A j, k \in DOMAIN waiting : j < k => waiting[j].number < waiting[k].number
        /\ step = "finished" =>
             done \/ \E k \in DOMAIN waiting : waiting[k].kind = "done"

ViewerTrue == PathsTrue /\ EventsInOrder
=============================================================================

-------------------------- MODULE RosPackagesProofs --------------------------
(***************************************************************************)
(* What is proved of the packages beside cartographer, for bags, scans,    *)
(* queues and buffers of any length, any number of particles and maps of   *)
(* any size: what a package's own steps keep holds in the composition,     *)
(* where the other packages leave its variables alone.                     *)
(***************************************************************************)
EXTENDS RosPackages, SequenceTheorems, FiniteSetTheorems, WellFoundedInduction, TLAPS

packagesVars == <<part, vars, nodeVars, viewerVars, calibVars, scanVars, mapVars>>

LEMMA PackagesBehave == PackagesSpec => PackagesInit /\ [][PackagesNext]_packagesVars
BY PTL DEF PackagesSpec, packagesVars
-----------------------------------------------------------------------------
(* SlamGMapping: the scans that wait.                                       *)

\* The scans read are in three places in order: those that were given to the mapper, those
\* that wait and, older than all that wait, those that were dropped.
ReplayInv ==
    /\ read \in Nat
    /\ given \in Seq(Nat) /\ s_queue \in Seq(Nat)
    /\ dropped \subseteq Nat
    /\ Len(s_queue) <= QueueSize
    /\ \A i, j \in 1..Len(given) : i < j => given[i] < given[j]
    /\ \A i, j \in 1..Len(s_queue) : i < j => s_queue[i] < s_queue[j]
    /\ \A i \in 1..Len(given), j \in 1..Len(s_queue) : given[i] < s_queue[j]
    /\ \A i \in 1..Len(given) : given[i] <= read
    /\ \A j \in 1..Len(s_queue) : s_queue[j] <= read
    /\ \A d \in dropped : /\ \A i \in 1..Len(given) : given[i] # d
                          /\ \A j \in 1..Len(s_queue) : d < s_queue[j]
                          /\ read - d >= QueueSize

LEMMA ReplayStarts ==
    ASSUME PackagesInit
    PROVE  ReplayInv
<1>1. Node!Init
  BY DEF PackagesInit
<1>2. <<>> \in Seq(Nat) /\ Len(<<>>) = 0
  OBVIOUS
<1> QED
  BY <1>1, <1>2, SizesAssumption DEF Node!Init, ReplayInv

\* What is dropped of a longer queue is its first scan; what is behind it was read later,
\* each a scan of its own.
LEMMA FrontIsOld ==
    ASSUME NEW n \in Nat, NEW s \in Seq(Nat), Len(s) = n,
           \A i, j \in 1..n : i < j => s[i] < s[j]
    PROVE  \A j \in 1..n : s[1] + (j - 1) <= s[j]
<1> DEFINE Bad == {j \in 1..n : ~(s[1] + (j - 1) <= s[j])}
<1> SUFFICES ASSUME Bad # {} PROVE FALSE
  OBVIOUS
<1>1. PICK k \in Bad : \A j \in Bad : k <= j
  <2>1. Bad \subseteq Nat
    OBVIOUS
  <2> HIDE DEF Bad
  <2>2. PICK k \in Bad : \A j \in Bad : <<j, k>> \notin OpToRel(<, Nat)
    BY <2>1, WFMin, NatLessThanWellFounded, Zenon
  <2>3. \A j \in Bad : ~(j < k)
    BY <2>1, <2>2, Zenon DEF OpToRel
  <2> QED
    BY <2>1, <2>3
<1>2. CASE k = 1
  BY <1>1, <1>2
<1>3. CASE k # 1
  <2>1. k - 1 \in 1..n /\ k - 1 \notin Bad
    BY <1>1, <1>3
  <2>2. s[k - 1] < s[k] /\ s[k] \in Nat /\ s[k - 1] \in Nat /\ s[1] \in Nat
    BY <1>1, <1>3, <2>1
  <2>3. s[1] + (k - 2) <= s[k - 1]
    BY <2>1
  <2> QED
    BY <1>1, <2>2, <2>3
<1> QED
  BY <1>2, <1>3

\* A scan that has been read waits behind the others; if one too many waits, the first is
\* dropped.
LEMMA ReadKeepsOrder ==
    ASSUME ReplayInv, Node!ReadScan
    PROVE  ReplayInv'
<1>1. PICK pushed \in {s_queue, Append(s_queue, read + 1)} :
         /\ s_queue' = Node!Shortened(pushed)
         /\ dropped' = dropped \cup ({pushed[i] : i \in DOMAIN pushed} \
                                     {s_queue'[i] : i \in DOMAIN s_queue'})
  BY DEF Node!ReadScan
<1>2. read' = read + 1 /\ given' = given
  BY DEF Node!ReadScan
<1>3. PICK n : n = Len(pushed)
  OBVIOUS
<1>4. /\ pushed \in Seq(Nat) /\ n \in Nat /\ n <= QueueSize + 1 /\ DOMAIN pushed = 1..n
      /\ \A j \in 1..n : pushed[j] <= read'
      /\ \A i, j \in 1..n : i < j => pushed[i] < pushed[j]
      /\ \A i \in 1..Len(given), j \in 1..n : given[i] < pushed[j]
      /\ \A d \in dropped, j \in 1..n : d < pushed[j]
  <2> PICK m : m = Len(s_queue)
    OBVIOUS
  <2>1. m \in Nat /\ m <= QueueSize /\ read \in Nat
    BY DEF ReplayInv
  <2>2. \A d \in dropped : d \in Nat /\ d <= read
    BY SizesAssumption DEF ReplayInv
  <2>3. CASE pushed = s_queue
    BY <1>2, <1>3, <2>1, <2>3, SizesAssumption DEF ReplayInv
  <2>4. CASE pushed = Append(s_queue, read + 1)
    <3>1. /\ n = m + 1 /\ pushed \in Seq(Nat)
          /\ \A j \in 1..m : pushed[j] = s_queue[j]
          /\ pushed[m + 1] = read + 1
      BY <1>3, <2>1, <2>4 DEF ReplayInv
    <3>2. /\ \A j \in 1..m : s_queue[j] \in Nat /\ s_queue[j] <= read
          /\ \A i, j \in 1..m : i < j => s_queue[i] < s_queue[j]
          /\ \A i \in 1..Len(given) : given[i] \in Nat /\ given[i] <= read
          /\ \A i \in 1..Len(given), j \in 1..m : given[i] < s_queue[j]
          /\ \A d \in dropped, j \in 1..m : d < s_queue[j]
      BY DEF ReplayInv
    <3>3. \A j \in 1..n : j \in 1..m \/ j = m + 1
      BY <2>1, <3>1
    <3>4. \A j \in 1..n : pushed[j] \in Nat /\ pushed[j] <= read'
      BY <1>2, <2>1, <3>1, <3>2, <3>3
    <3>5. ASSUME NEW i \in 1..n, NEW j \in 1..n, i < j PROVE pushed[i] < pushed[j]
      <4>1. i \in 1..m
        BY <2>1, <3>1, <3>5
      <4>2. CASE j \in 1..m
        BY <3>1, <3>2, <3>5, <4>1, <4>2
      <4>3. CASE j = m + 1
        BY <2>1, <3>1, <3>2, <4>1, <4>3
      <4> QED
        BY <3>3, <4>2, <4>3
    <3>6. ASSUME NEW i \in 1..Len(given), NEW j \in 1..n PROVE given[i] < pushed[j]
      <4>1. CASE j \in 1..m
        BY <3>1, <3>2, <4>1
      <4>2. CASE j = m + 1
        BY <2>1, <3>1, <3>2, <4>2
      <4> QED
        BY <3>3, <4>1, <4>2
    <3>7. ASSUME NEW d \in dropped, NEW j \in 1..n PROVE d < pushed[j]
      <4>1. CASE j \in 1..m
        BY <3>1, <3>2, <4>1
      <4>2. CASE j = m + 1
        BY <2>1, <2>2, <3>1, <4>2
      <4> QED
        BY <3>3, <4>1, <4>2
    <3>8. n \in Nat /\ n <= QueueSize + 1 /\ DOMAIN pushed = 1..n
      <4>1. pushed \in Seq(Nat)
        BY <3>1
      <4>2. DOMAIN pushed = 1..n
        BY <1>3, <4>1
      <4> QED
        BY <2>1, <3>1, <4>2, SizesAssumption
    <3> QED
      BY <3>1, <3>4, <3>5, <3>6, <3>7, <3>8
  <2> QED
    BY <2>3, <2>4
<1>5. read' \in Nat /\ \A i \in 1..Len(given) : given[i] <= read'
  BY <1>2 DEF ReplayInv
<1>6. \A d \in dropped : /\ \A i \in 1..Len(given) : given[i] # d
                         /\ read' - d >= QueueSize
  BY <1>2, SizesAssumption DEF ReplayInv
<1>7. CASE n <= QueueSize
  <2>1. s_queue' = pushed /\ dropped' = dropped
    <3>1. ~(n > QueueSize)
      BY <1>4, <1>7, SizesAssumption
    <3>2. s_queue' = pushed
      BY <1>1, <1>3, <3>1, Zenon DEF Node!Shortened
    <3> QED
      BY <1>1, <3>2
  <2> QED
    BY <1>2, <1>3, <1>4, <1>5, <1>6, <1>7, <2>1 DEF ReplayInv
<1>8. CASE n = QueueSize + 1
  <2>1. /\ s_queue' = Tail(pushed) /\ s_queue' \in Seq(Nat) /\ Len(s_queue') = n - 1
        /\ \A j \in 1..(n - 1) : s_queue'[j] = pushed[j + 1]
    BY <1>1, <1>3, <1>4, <1>8, SizesAssumption DEF Node!Shortened
  <2>2. \A d \in dropped' : d \in dropped \/ d = pushed[1]
    <3>1. ASSUME NEW i \in 1..n, i # 1
          PROVE  pushed[i] \in {s_queue'[j] : j \in DOMAIN s_queue'}
      <4>1. i - 1 \in 1..(n - 1) /\ (i - 1) + 1 = i
        BY <1>4, <3>1
      <4>2. i - 1 \in DOMAIN s_queue'
        BY <2>1, <4>1
      <4> QED
        BY <2>1, <4>1, <4>2
    <3>2. ASSUME NEW d \in dropped', d \notin dropped
          PROVE  \E i \in 1..n : d = pushed[i] /\ d \notin {s_queue'[j] : j \in DOMAIN s_queue'}
      BY <1>1, <1>4, <3>2
    <3> QED
      BY <3>1, <3>2
  <2>3. n \in 1..n /\ 1 \in 1..n
    BY <1>8, SizesAssumption
  <2>4. pushed[1] + (n - 1) <= pushed[n] /\ pushed[1] \in Nat /\ pushed[n] \in Nat
    <3>1. \A j \in 1..n : pushed[1] + (j - 1) <= pushed[j]
      BY <1>3, <1>4, FrontIsOld
    <3> QED
      BY <1>4, <2>3, <3>1
  <2>5. read' - pushed[1] >= QueueSize
    BY <1>4, <1>5, <1>8, <2>3, <2>4, SizesAssumption
  <2>6. \A i \in 1..Len(given) : given[i] # pushed[1]
    BY <1>4, <2>3 DEF ReplayInv
  <2>7. \A j \in 1..(n - 1) : j + 1 \in 1..n /\ pushed[1] < pushed[j + 1]
    BY <1>4, <2>3
  <2>8. \A d \in dropped' : /\ d \in Nat
                            /\ \A i \in 1..Len(given) : given[i] # d
                            /\ \A j \in 1..(n - 1) : d < s_queue'[j]
                            /\ read' - d >= QueueSize
    BY <1>4, <1>6, <2>1, <2>2, <2>4, <2>5, <2>6, <2>7 DEF ReplayInv
  <2>9. /\ \A i, j \in 1..(n - 1) : i < j => s_queue'[i] < s_queue'[j]
        /\ \A i \in 1..Len(given), j \in 1..(n - 1) : given[i] < s_queue'[j]
        /\ \A j \in 1..(n - 1) : s_queue'[j] <= read'
        /\ n - 1 <= QueueSize
    BY <1>4, <1>8, <2>1, <2>7, SizesAssumption
  <2> QED
    BY <1>2, <1>5, <2>1, <2>8, <2>9 DEF ReplayInv
<1> QED
  BY <1>4, <1>7, <1>8, SizesAssumption

\* The mapper gets the scan in front.
LEMMA ProcessKeepsOrder ==
    ASSUME ReplayInv, Node!ProcessFront
    PROVE  ReplayInv'
<1>1. /\ s_queue # <<>> /\ s_queue' = Tail(s_queue)
      /\ given' = Append(given, Head(s_queue))
      /\ read' = read /\ dropped' = dropped
  BY DEF Node!ProcessFront
<1>2. PICK n, m : n = Len(s_queue) /\ m = Len(given)
  OBVIOUS
<1>3. /\ n \in Nat \ {0} /\ m \in Nat /\ n <= QueueSize
      /\ s_queue' \in Seq(Nat) /\ Len(s_queue') = n - 1
      /\ \A j \in 1..(n - 1) : s_queue'[j] = s_queue[j + 1]
  BY <1>1, <1>2 DEF ReplayInv
<1>4. /\ given' \in Seq(Nat) /\ Len(given') = m + 1
      /\ given'[m + 1] = s_queue[1]
      /\ \A i \in 1..m : given'[i] = given[i]
  BY <1>1, <1>2, <1>3 DEF ReplayInv
<1>5. /\ \A i, j \in 1..m : i < j => given[i] < given[j]
      /\ \A i \in 1..m, j \in 1..n : given[i] < s_queue[j]
      /\ \A i, j \in 1..n : i < j => s_queue[i] < s_queue[j]
      /\ \A i \in 1..m : given[i] \in Nat /\ given[i] <= read
      /\ \A j \in 1..n : s_queue[j] \in Nat /\ s_queue[j] <= read
      /\ \A d \in dropped : /\ d \in Nat
                            /\ \A i \in 1..m : given[i] # d
                            /\ \A j \in 1..n : d < s_queue[j]
                            /\ read - d >= QueueSize
  BY <1>2 DEF ReplayInv
<1>6. \A i \in 1..(m + 1) : i \in 1..m \/ i = m + 1
  BY <1>3
<1>7. 1 \in 1..n /\ \A j \in 1..(n - 1) : j + 1 \in 1..n
  BY <1>3
<1>8. ASSUME NEW i \in 1..(m + 1), NEW j \in 1..(m + 1), i < j
      PROVE  given'[i] < given'[j]
  <2>1. i \in 1..m
    BY <1>3, <1>8
  <2>2. CASE j \in 1..m
    BY <1>4, <1>5, <1>8, <2>1, <2>2
  <2>3. CASE j = m + 1
    BY <1>4, <1>5, <1>7, <2>1, <2>3
  <2> QED
    BY <1>6, <2>2, <2>3
<1>9. ASSUME NEW i \in 1..(m + 1), NEW j \in 1..(n - 1)
      PROVE  given'[i] < s_queue'[j]
  <2>1. s_queue'[j] = s_queue[j + 1] /\ j + 1 \in 1..n /\ 1 < j + 1
    BY <1>3, <1>7
  <2>2. CASE i \in 1..m
    BY <1>4, <1>5, <2>1, <2>2
  <2>3. CASE i = m + 1
    BY <1>4, <1>5, <1>7, <2>1, <2>3
  <2> QED
    BY <1>6, <2>2, <2>3
<1>10. ASSUME NEW i \in 1..(n - 1), NEW j \in 1..(n - 1), i < j
       PROVE  s_queue'[i] < s_queue'[j]
  <2>1. i + 1 < j + 1 /\ i + 1 \in 1..n /\ j + 1 \in 1..n
    BY <1>3, <1>10
  <2> QED
    BY <1>3, <1>5, <2>1
<1>11. \A j \in 1..(n - 1) : s_queue'[j] <= read
  BY <1>3, <1>5, <1>7
<1>12. \A i \in 1..(m + 1) : given'[i] <= read
  BY <1>4, <1>5, <1>6, <1>7
<1>13. ASSUME NEW d \in dropped
       PROVE  /\ \A i \in 1..(m + 1) : given'[i] # d
              /\ \A j \in 1..(n - 1) : d < s_queue'[j]
              /\ read - d >= QueueSize
  <2>1. /\ d \in Nat /\ read - d >= QueueSize
        /\ \A i \in 1..m : given[i] # d
        /\ \A j \in 1..n : d < s_queue[j]
    BY <1>5
  <2>2. d < s_queue[1] /\ s_queue[1] \in Nat
    <3>1. s_queue[1] \in Nat
      <4>1. \A j \in 1..n : s_queue[j] \in Nat
        BY <1>5
      <4> QED
        BY <1>7, <4>1
    <3> QED
      BY <1>7, <2>1, <3>1
  <2>3. given'[m + 1] # d
    BY <1>4, <2>1, <2>2
  <2>4. \A i \in 1..(m + 1) : given'[i] # d
    BY <1>4, <1>6, <2>1, <2>3
  <2>5. \A j \in 1..(n - 1) : d < s_queue'[j]
    BY <1>3, <1>7, <2>1
  <2> QED
    BY <2>1, <2>4, <2>5
<1>14. n - 1 <= QueueSize /\ n - 1 \in Nat /\ m + 1 \in Nat
  BY <1>3, SizesAssumption
<1>15. read' \in Nat /\ dropped' \subseteq Nat /\ read' = read /\ dropped' = dropped
  BY <1>1 DEF ReplayInv
<1> QED
  BY <1>3, <1>4, <1>8, <1>9, <1>10, <1>11, <1>12, <1>13, <1>14, <1>15 DEF ReplayInv

\* slam_gmapping.cpp, startReplay: for a bag of any length and any number of scans that may
\* wait, whenever their transforms come: the mapper is given the scans in the order of the
\* bag and each at most once, and only scans with as many newer ones are dropped.
THEOREM ReplayedInOrder == PackagesSpec => []ReplayInOrder
<1>1. PackagesInit => ReplayInv
  BY ReplayStarts
<1>2. ReplayInv /\ [PackagesNext]_packagesVars => ReplayInv'
  <2> SUFFICES ASSUME ReplayInv, [PackagesNext]_packagesVars PROVE ReplayInv'
    OBVIOUS
  <2>1. CASE UNCHANGED <<read, s_queue, given, dropped>>
    BY <2>1 DEF ReplayInv
  <2>2. CASE NodeNext
    <3>1. CASE Node!ReadTransforms \/ Node!StopDraining
      BY <2>1, <3>1 DEF Node!ReadTransforms, Node!StopDraining
    <3>2. CASE Node!ReadScan \/ Node!ProcessFront
      BY <3>2, ReadKeepsOrder, ProcessKeepsOrder
    <3> QED
      BY <2>2, <3>1, <3>2 DEF NodeNext, Node!Next
  <2>3. NodeNext \/ UNCHANGED nodeVars
    BY DEF PackagesNext, packagesVars, FilterNext, ViewerNext, CalibrationNext,
           UndistortionNext, OccupancyNext
  <2> QED
    BY <2>1, <2>2, <2>3 DEF nodeVars
<1>3. ReplayInv => ReplayInOrder
  <2> SUFFICES ASSUME ReplayInv PROVE Node!ReplayInOrder
    BY DEF ReplayInOrder
  <2>1. DOMAIN given = 1..Len(given) /\ DOMAIN s_queue = 1..Len(s_queue)
    BY DEF ReplayInv
  <2> QED
    BY <2>1 DEF ReplayInv, Node!ReplayInOrder
<1> QED
  BY <1>1, <1>2, <1>3, PackagesBehave, PTL
-----------------------------------------------------------------------------
(* LidarMotionUndistortion: the beams that are corrected.                   *)

\* A correction of beam i, one of the beams of a scan of n: the pose is interpolated beam
\* by beam between those of two times at most a segment apart.
CorrectionInTime(c, i, valid_beams, n) ==
    /\ c.from \in Nat /\ c.to \in Nat
    /\ c.from <= i /\ i <= c.to
    /\ c.to - c.from <= SegmentBeams + 1
    /\ c.of = c.to - c.from /\ c.steps = i - c.from
    /\ c.of = 0 => n = 1
    /\ i \in valid_beams => c.frame = 0

\* A beam of a segment: the beam between two segments has the corrections of both.
BeamCorrected(made, i, valid_beams, n, start) ==
    \/ \E c : /\ made = <<c>> /\ CorrectionInTime(c, i, valid_beams, n)
              /\ i = 0 \/ c.from < i
              /\ c.to > i \/ i = start
              /\ i = start => c.to = i
       \/ \E c1, c2 : /\ made = <<c1, c2>> /\ i # start
                      /\ CorrectionInTime(c1, i, valid_beams, n)
                      /\ CorrectionInTime(c2, i, valid_beams, n)
                      /\ c1.to = i /\ c2.from = i

\* A scan whose beams are corrected up to, and without, some beam.
CorrectedUpTo(made, valid_beams, n, stop, start) ==
    /\ n \in Nat /\ start \in Nat
    /\ (stop = 0 /\ start = 0) \/ stop = start + 1
    /\ stop <= n
    /\ DOMAIN made = 0..(n - 1)
    /\ \A i \in 0..(n - 1) : /\ i >= stop => made[i] = <<>>
                             /\ i < stop => BeamCorrected(made[i], i, valid_beams, n, start)

\* The times of the poses are those of the beams the segments start and end at.
UndistortionInv ==
    /\ CorrectedUpTo(corrections, valid, beamNumber, next_beam, start_index)
    /\ corrections = [i \in 0..(beamNumber - 1) |-> corrections[i]]
    /\ start_time = start_index
    /\ scan_step = "poses" => next_beam = 0 /\ start_index = 0
    /\ scan_step = "segments" => next_beam < beamNumber
    /\ \E made, valid_beams, n, stop, start, complete :
         /\ visual_cloud_ = [corrections |-> made, valid |-> valid_beams,
                             complete |-> complete]
         /\ CorrectedUpTo(made, valid_beams, n, stop, start)
         /\ complete => stop = n

LEMMA AppendPair ==
    ASSUME NEW a, NEW b
    PROVE  Append(<<a>>, b) = <<a, b>>
<1>1. <<a>> \in Seq({a, b}) /\ <<a, b>> \in Seq({a, b}) /\ b \in {a, b}
  OBVIOUS
<1>2. /\ Len(<<a>>) = 1 /\ <<a>>[1] = a
      /\ Len(<<a, b>>) = 2 /\ <<a, b>>[1] = a /\ <<a, b>>[2] = b
  OBVIOUS
<1>3. /\ Append(<<a>>, b) \in Seq({a, b}) /\ Len(Append(<<a>>, b)) = 2
      /\ Append(<<a>>, b)[1] = a /\ Append(<<a>>, b)[2] = b
  BY <1>1, <1>2, AppendProperties
<1>4. \A i \in 1..2 : Append(<<a>>, b)[i] = <<a, b>>[i]
  <2>1. \A i \in 1..2 : i = 1 \/ i = 2
    OBVIOUS
  <2> QED
    BY <1>2, <1>3, <2>1, Zenon
<1> QED
  BY <1>1, <1>2, <1>3, <1>4, SeqEqual, Zenon

\* The beams of the next segment, once it is corrected; e is its last beam.
LEMMA SegmentCorrected ==
    ASSUME NEW made, NEW valid_beams, NEW n, NEW stop, NEW start,
           CorrectedUpTo(made, valid_beams, n, stop, start),
           NEW e \in stop..(n - 1), e - start > SegmentBeams \/ e = n - 1,
           e - start <= SegmentBeams + 1,
           NEW corrected,
           corrected = [i \in 0..(n - 1) |->
                          IF i \in start..e
                          THEN Append(made[i],
                                      [from |-> start, to |-> e,
                                       frame |-> IF i \in valid_beams THEN 0 ELSE start,
                                       steps |-> i - start, of |-> e - start])
                          ELSE made[i]]
    PROVE  CorrectedUpTo(corrected, valid_beams, n, e + 1, e)
<1>1. /\ n \in Nat /\ start \in Nat /\ e \in Nat /\ e < n /\ start <= e /\ stop \in Nat
      /\ e >= stop /\ stop <= start + 1
      /\ (stop = 0 /\ start = 0) \/ stop = start + 1
  BY DEF CorrectedUpTo
<1>2. e = start => n = 1
  BY <1>1, SizesAssumption
<1>3. ASSUME NEW i \in 0..(n - 1), i < e + 1
      PROVE  BeamCorrected(corrected[i], i, valid_beams, n, e)
  <2>1. i \in Nat /\ i <= e
    BY <1>1, <1>3
  <2>2. CASE i < start
    <3>1. corrected[i] = made[i] /\ i < stop /\ i # start /\ i # e
      BY <1>1, <2>1, <2>2
    <3>2. BeamCorrected(made[i], i, valid_beams, n, start)
      BY <3>1 DEF CorrectedUpTo
    <3> QED
      BY <3>1, <3>2 DEF BeamCorrected
  <2>3. CASE i >= start
    <3> DEFINE K == [from |-> start, to |-> e,
                     frame |-> IF i \in valid_beams THEN 0 ELSE start,
                     steps |-> i - start, of |-> e - start]
    <3>1. corrected[i] = Append(made[i], K)
      BY <1>1, <2>1, <2>3
    <3>2. K.from = start /\ K.to = e /\ K.of = e - start /\ K.steps = i - start
          /\ (i \in valid_beams => K.frame = 0)
      OBVIOUS
    <3> HIDE DEF K
    <3>3. CorrectionInTime(K, i, valid_beams, n)
      BY <1>1, <1>2, <2>1, <2>3, <3>2 DEF CorrectionInTime
    <3>4. CASE i >= stop
      <4>1. made[i] = <<>>
        BY <3>4 DEF CorrectedUpTo
      <4>2. corrected[i] = <<K>>
        BY <3>1, <4>1
      <4>3. i = 0 \/ K.from < i
        BY <1>1, <2>1, <3>2, <3>4
      <4>4. (K.to > i \/ i = e) /\ (i = e => K.to = i)
        BY <1>1, <2>1, <3>2
      <4> QED
        BY <3>3, <4>2, <4>3, <4>4 DEF BeamCorrected
    <3>5. CASE i < stop
      <4>1. i = start /\ i # e
        BY <1>1, <2>1, <2>3, <3>5
      <4>2. BeamCorrected(made[i], i, valid_beams, n, start)
        BY <3>5 DEF CorrectedUpTo
      <4>3. PICK c : made[i] = <<c>> /\ CorrectionInTime(c, i, valid_beams, n) /\ c.to = i
        BY <4>1, <4>2 DEF BeamCorrected
      <4>4. corrected[i] = <<c, K>>
        <5>1. Append(<<c>>, K) = <<c, K>>
          BY AppendPair
        <5> QED
          BY <3>1, <4>3, <5>1, Zenon
      <4> QED
        BY <3>2, <3>3, <4>1, <4>3, <4>4 DEF BeamCorrected
    <3> QED
      BY <1>1, <2>1, <3>4, <3>5
  <2> QED
    BY <1>1, <2>1, <2>2, <2>3
<1>4. ASSUME NEW i \in 0..(n - 1), i >= e + 1
      PROVE  corrected[i] = <<>>
  <2>1. corrected[i] = made[i] /\ i >= stop
    BY <1>1, <1>4
  <2> QED
    BY <2>1 DEF CorrectedUpTo
<1>5. DOMAIN corrected = 0..(n - 1)
  OBVIOUS
<1>6. e \in Nat /\ e + 1 <= n
  BY <1>1
<1> QED
  BY <1>1, <1>3, <1>4, <1>5, <1>6 DEF CorrectedUpTo

LEMMA UndistortionStarts ==
    ASSUME PackagesInit
    PROVE  UndistortionInv
<1>1. /\ scan_step = "wait"
      /\ beamNumber = 0 /\ valid = {} /\ corrections = <<>>
      /\ next_beam = 0 /\ start_time = 0 /\ start_index = 0
      /\ visual_cloud_ = [corrections |-> <<>>, valid |-> {}, complete |-> TRUE]
  BY DEF PackagesInit, Undistortion!Init, Undistortion!NotShown
<1>2. DOMAIN <<>> = 0..(0 - 1) /\ <<>> = [i \in 0..(0 - 1) |-> <<>>[i]]
  OBVIOUS
<1>3. CorrectedUpTo(<<>>, {}, 0, 0, 0)
  BY <1>2 DEF CorrectedUpTo
<1> QED
  BY <1>1, <1>2, <1>3 DEF UndistortionInv

LEMMA ScanKeepsCorrected ==
    ASSUME UndistortionInv, Undistortion!ScanCallBack
    PROVE  UndistortionInv'
<1>1. PICK n \in 0..MaxScanBeams :
         LET copied == IF n = 0 THEN 0 ELSE n - 1
         IN  /\ beamNumber' = copied
             /\ corrections' = [i \in 0..copied - 1 |-> <<>>]
  BY DEF Undistortion!ScanCallBack
<1>2. /\ beamNumber' \in Nat
      /\ corrections' = [i \in 0..(beamNumber' - 1) |-> <<>>]
  BY <1>1, SizesAssumption
<1>3. /\ scan_step' = "poses" /\ next_beam' = 0 /\ start_time' = 0 /\ start_index' = 0
      /\ visual_cloud_' = [corrections |-> <<>>, valid |-> {}, complete |-> TRUE]
  BY DEF Undistortion!ScanCallBack, Undistortion!NotShown
<1>4. CorrectedUpTo(corrections', valid', beamNumber', 0, 0)
  <2>1. DOMAIN corrections' = 0..(beamNumber' - 1)
    BY <1>2, Zenon
  <2>2. \A i \in 0..(beamNumber' - 1) : corrections'[i] = <<>>
    BY <1>2, Zenon
  <2>3. \A i \in 0..(beamNumber' - 1) : ~(i < 0)
    BY <1>2
  <2>4. 0 \in Nat /\ 0 <= beamNumber'
    BY <1>2
  <2> QED
    BY <1>2, <2>1, <2>2, <2>3, <2>4 DEF CorrectedUpTo
<1>5. CorrectedUpTo(<<>>, {}, 0, 0, 0)
  BY DEF CorrectedUpTo
<1>6. corrections' = [i \in 0..(beamNumber' - 1) |-> corrections'[i]]
  BY <1>2
<1> QED
  BY <1>3, <1>4, <1>5, <1>6 DEF UndistortionInv

LEMMA PosesKeepCorrected ==
    ASSUME UndistortionInv, Undistortion!GetStartAndEndPose
    PROVE  UndistortionInv'
<1>1. /\ scan_step = "poses"
      /\ UNCHANGED <<beamNumber, valid, corrections, next_beam, start_time, start_index>>
  BY DEF Undistortion!GetStartAndEndPose
<1>2. next_beam = 0 /\ start_index = 0
      /\ CorrectedUpTo(corrections, valid, beamNumber, 0, 0)
  BY <1>1 DEF UndistortionInv
<1>3. CASE \E complete : Undistortion!Show(complete) /\ (complete => beamNumber = 0)
  <2>1. PICK complete : Undistortion!Show(complete) /\ (complete => beamNumber = 0)
    BY <1>3
  <2>2. scan_step' = "wait"
        /\ visual_cloud_' = [corrections |-> corrections, valid |-> valid, complete |-> complete]
    BY <1>1, <2>1 DEF Undistortion!Show
  <2>3. complete => 0 = beamNumber
    BY <2>1
  <2> QED
    BY <1>1, <1>2, <2>2, <2>3 DEF UndistortionInv
<1>4. CASE beamNumber > 0 /\ scan_step' = "segments" /\ UNCHANGED visual_cloud_
  <2>1. (/\ CorrectedUpTo(corrections, valid, beamNumber, next_beam, start_index)
         /\ corrections = [i \in 0..(beamNumber - 1) |-> corrections[i]]
         /\ start_time = start_index)'
    BY <1>1 DEF UndistortionInv
  <2>2. (scan_step = "poses" => next_beam = 0 /\ start_index = 0)'
    BY <1>4
  <2>3. (scan_step = "segments" => next_beam < beamNumber)'
    BY <1>1, <1>2, <1>4
  <2>4. (\E made, valid_beams, n, stop, start, complete :
           /\ visual_cloud_ = [corrections |-> made, valid |-> valid_beams,
                               complete |-> complete]
           /\ CorrectedUpTo(made, valid_beams, n, stop, start)
           /\ complete => stop = n)'
    BY <1>4 DEF UndistortionInv
  <2> QED
    BY <2>1, <2>2, <2>3, <2>4, Zenon DEF UndistortionInv
<1> QED
  BY <1>3, <1>4 DEF Undistortion!GetStartAndEndPose

LEMMA SegmentKeepsCorrected ==
    ASSUME UndistortionInv, Undistortion!CorrectSegment
    PROVE  UndistortionInv'
<1>1. /\ scan_step = "segments" /\ UNCHANGED <<beamNumber, valid>>
      /\ start_time = start_index /\ next_beam < beamNumber
      /\ CorrectedUpTo(corrections, valid, beamNumber, next_beam, start_index)
  BY DEF Undistortion!CorrectSegment, UndistortionInv
<1>2. /\ beamNumber \in Nat /\ start_index \in Nat /\ next_beam \in Nat
      /\ next_beam <= start_index + 1
      /\ start_index <= next_beam
  BY <1>1 DEF CorrectedUpTo
<1>3. PICK e : e = Undistortion!SegmentEnd
  OBVIOUS
<1>4. /\ e \in next_beam..(beamNumber - 1)
      /\ e - start_index > SegmentBeams \/ e = beamNumber - 1
      /\ e - start_index <= SegmentBeams + 1
  <2> DEFINE Ends(i) == /\ i - start_index > SegmentBeams \/ i = beamNumber - 1
                        /\ \A j \in next_beam..i - 1 : j - start_index <= SegmentBeams
  <2>1. \E i \in next_beam..(beamNumber - 1) : Ends(i)
    <3>1. CASE start_index + SegmentBeams + 1 < beamNumber
      <4> DEFINE i == start_index + SegmentBeams + 1
      <4>1. i \in next_beam..(beamNumber - 1) /\ i - start_index > SegmentBeams
        BY <1>2, <3>1, SizesAssumption
      <4>2. \A j \in next_beam..i - 1 : j - start_index <= SegmentBeams
        BY <1>2, SizesAssumption
      <4> QED
        BY <4>1, <4>2
    <3>2. CASE ~(start_index + SegmentBeams + 1 < beamNumber)
      <4>1. beamNumber - 1 \in next_beam..(beamNumber - 1)
        BY <1>1, <1>2
      <4>2. \A j \in next_beam..(beamNumber - 1) - 1 : j - start_index <= SegmentBeams
        BY <1>2, <3>2, SizesAssumption
      <4> QED
        BY <4>1, <4>2
    <3> QED
      BY <3>1, <3>2
  <2>2. e \in next_beam..(beamNumber - 1) /\ Ends(e)
    <3> DEFINE Found(i) ==
                 /\ \/ Undistortion!MidTime(i) - start_time > SegmentBeams
                    \/ i = beamNumber - 1
                 /\ \A j \in next_beam..i - 1 :
                      Undistortion!MidTime(j) - start_time <= SegmentBeams
    <3>1. ASSUME NEW i \in next_beam..(beamNumber - 1)
          PROVE  (Ends(i) => Found(i)) /\ (Found(i) => Ends(i))
      <4>1. \A j \in next_beam..i - 1 : j \in next_beam..(beamNumber - 1)
        BY <1>2
      <4>2. ASSUME NEW j \in next_beam..(beamNumber - 1)
            PROVE  Undistortion!MidTime(j) - start_time = j - start_index
        <5>1. Undistortion!MidTime(j) = start_time + (j - start_index)
          BY DEF Undistortion!MidTime
        <5> QED
          BY <1>1, <1>2, <5>1
      <4> QED
        BY <4>1, <4>2
    <3>2. e = CHOOSE i \in next_beam..beamNumber - 1 : Found(i)
      BY <1>3, Zenon DEF Undistortion!SegmentEnd
    <3> HIDE DEF Found, Ends
    <3>3. \E i \in next_beam..beamNumber - 1 : Found(i)
      BY <2>1, <3>1
    <3>4. e \in next_beam..beamNumber - 1 /\ Found(e)
      BY <3>2, <3>3
    <3> QED
      BY <3>1, <3>4
  <2>3. CASE e = next_beam
    BY <1>2, <2>2, <2>3, SizesAssumption
  <2>4. CASE e # next_beam
    <3>1. e - 1 \in next_beam..e - 1
      BY <1>2, <2>2, <2>4
    <3>2. e - 1 - start_index <= SegmentBeams
      BY <2>2, <3>1
    <3> QED
      BY <1>2, <2>2, <3>2, SizesAssumption
  <2> QED
    BY <2>2, <2>3, <2>4
<1>5. CASE /\ UNCHANGED <<corrections, next_beam, start_time, start_index>>
           /\ Undistortion!Show(FALSE)
  BY <1>1, <1>5 DEF UndistortionInv, Undistortion!Show
<1>6. CASE /\ corrections' = Undistortion!MotionCalibration(Undistortion!BeamsUpTo(e),
                                                           Undistortion!MidTime(e))
           /\ start_time' = Undistortion!MidTime(e)
           /\ start_index' = e
           /\ next_beam' = e + 1
           /\ IF e = beamNumber - 1 THEN Undistortion!Show(TRUE)
                                    ELSE UNCHANGED <<scan_step, visual_cloud_>>
  <2>1. /\ Undistortion!MidTime(e) = e
        /\ start_index + Undistortion!BeamsUpTo(e) - 1 = e
        /\ Undistortion!BeamsUpTo(e) - 1 = e - start_index
    BY <1>1, <1>2, <1>4 DEF Undistortion!MidTime, Undistortion!BeamsUpTo
  <2>2. corrections' = [i \in 0..(beamNumber - 1) |->
                          IF i \in start_index..e
                          THEN Append(corrections[i],
                                      [from |-> start_index, to |-> e,
                                       frame |-> IF i \in valid THEN 0 ELSE start_index,
                                       steps |-> i - start_index, of |-> e - start_index])
                          ELSE corrections[i]]
    BY <1>1, <1>6, <2>1
       DEF Undistortion!MotionCalibration, Undistortion!Beams, Undistortion!Correction
  <2>3. CorrectedUpTo(corrections', valid, beamNumber, e + 1, e)
    BY <1>1, <1>4, <2>2, SegmentCorrected
  <2>4. corrections' = [i \in 0..(beamNumber - 1) |-> corrections'[i]]
    BY <2>2
  <2>5. CASE e = beamNumber - 1
    <3>1. scan_step' = "wait"
          /\ visual_cloud_' = [corrections |-> corrections', valid |-> valid, complete |-> TRUE]
      BY <1>6, <2>5 DEF Undistortion!Show
    <3>2. e + 1 = beamNumber
      BY <1>2, <2>5
    <3> QED
      BY <1>1, <1>6, <2>1, <2>3, <2>4, <3>1, <3>2 DEF UndistortionInv
  <2>6. CASE e # beamNumber - 1
    <3>1. scan_step' = "segments" /\ visual_cloud_' = visual_cloud_
      BY <1>1, <1>6, <2>6
    <3>2. e + 1 < beamNumber
      BY <1>2, <1>4, <2>6
    <3> QED
      BY <1>1, <1>6, <2>1, <2>3, <2>4, <3>1, <3>2 DEF UndistortionInv
  <2> QED
    BY <2>5, <2>6
<1> QED
  BY <1>3, <1>5, <1>6 DEF Undistortion!CorrectSegment

LEMMA CorrectedInTime ==
    ASSUME UndistortionInv
    PROVE  Undistortion!BeamsInTime
<1>1. PICK made, valid_beams, n, stop, start, complete :
         /\ visual_cloud_ = [corrections |-> made, valid |-> valid_beams,
                             complete |-> complete]
         /\ CorrectedUpTo(made, valid_beams, n, stop, start)
         /\ complete => stop = n
  BY DEF UndistortionInv
<1>2. /\ visual_cloud_.corrections = made /\ visual_cloud_.valid = valid_beams
      /\ visual_cloud_.complete = complete
      /\ n \in Nat /\ stop \in Nat /\ start \in Nat /\ stop <= n
      /\ (stop = 0 /\ start = 0) \/ stop = start + 1
      /\ DOMAIN made = 0..(n - 1)
  BY <1>1 DEF CorrectedUpTo
<1>3. ASSUME NEW i \in 0..(n - 1)
      PROVE  /\ made[i] # <<>> <=> i < stop
             /\ i < stop => BeamCorrected(made[i], i, valid_beams, n, start)
  <2>1. i >= stop \/ i < stop
    BY <1>2
  <2>2. i < stop => BeamCorrected(made[i], i, valid_beams, n, start)
    BY <1>1 DEF CorrectedUpTo
  <2>3. i < stop => made[i] # <<>>
    BY <2>2 DEF BeamCorrected
  <2>4. i >= stop => made[i] = <<>> /\ ~(i < stop)
    BY <1>1, <1>2 DEF CorrectedUpTo
  <2> QED
    BY <2>1, <2>2, <2>3, <2>4
<1>4. \A c, i : i \in 0..(n - 1) /\ CorrectionInTime(c, i, valid_beams, n) =>
        /\ Undistortion!InTime(c, i)
        /\ c.of = 0 => n = 1
        /\ i \in valid_beams => c.frame = 0
  <2> SUFFICES ASSUME NEW c, NEW i \in 0..(n - 1), CorrectionInTime(c, i, valid_beams, n)
               PROVE  Undistortion!InTime(c, i) /\ (c.of = 0 => n = 1)
                      /\ (i \in valid_beams => c.frame = 0)
    OBVIOUS
  <2>1. \A a, b, x \in Int : a * x = a * b + (x - b) * a
    OBVIOUS
  <2>2. c.of \in Int /\ c.from \in Int /\ i \in Int
    BY DEF CorrectionInTime
  <2>3. c.of * i = c.of * c.from + c.steps * (c.to - c.from)
    BY <2>1, <2>2 DEF CorrectionInTime
  <2> QED
    BY <2>3 DEF CorrectionInTime, Undistortion!InTime
<1>5. n = 1 => Undistortion!Cardinality(0..(n - 1)) = 1
  <2>1. Cardinality({0}) = 1
    BY FS_Singleton
  <2> QED
    BY <2>1 DEF Cardinality, Undistortion!Cardinality
<1> DEFINE Done == {i \in 0..(n - 1) : made[i] # <<>>}
<1>6. Done = {i \in 0..(n - 1) : i < stop}
  BY <1>3
<1>7. ASSUME complete PROVE Done = 0..(n - 1)
  <2>1. stop = n
    BY <1>1, <1>7
  <2>2. \A i \in 0..(n - 1) : i < stop
    BY <1>2, <2>1
  <2> QED
    BY <1>6, <2>2
<1>8. \A i \in Done, j \in 0..(n - 1) : j < i => j \in Done
  BY <1>2, <1>6
<1>9. ASSUME NEW i \in Done
      PROVE  /\ Len(made[i]) <= 2
             /\ \A k \in DOMAIN made[i] :
                  /\ Undistortion!InTime(made[i][k], i)
                  /\ made[i][k].of = 0 => Undistortion!Cardinality(0..(n - 1)) = 1
                  /\ i \in valid_beams => made[i][k].frame = 0
             /\ Len(made[i]) = 2 => made[i][1].to = i /\ made[i][2].from = i
             /\ Len(made[i]) = 1 => /\ i = 0 \/ made[i][1].from < i
                                    /\ made[i][1].to > i \/ i + 1 \notin Done
  <2>1. BeamCorrected(made[i], i, valid_beams, n, start) /\ i < stop
    BY <1>3, <1>6
  <2>2. CASE \E c : made[i] = <<c>> /\ CorrectionInTime(c, i, valid_beams, n)
                    /\ (i = 0 \/ c.from < i) /\ (c.to > i \/ i = start)
    <3>1. PICK c : made[i] = <<c>> /\ CorrectionInTime(c, i, valid_beams, n)
                   /\ (i = 0 \/ c.from < i) /\ (c.to > i \/ i = start)
      BY <2>2
    <3>2. i = start => i + 1 \notin Done
      BY <1>2, <1>6, <2>1
    <3>3. Len(made[i]) = 1 /\ DOMAIN made[i] = {1} /\ made[i][1] = c
      BY <3>1
    <3> QED
      BY <1>4, <1>5, <3>1, <3>2, <3>3
  <2>3. CASE \E c1, c2 : /\ made[i] = <<c1, c2>>
                         /\ CorrectionInTime(c1, i, valid_beams, n)
                         /\ CorrectionInTime(c2, i, valid_beams, n)
                         /\ c1.to = i /\ c2.from = i
    <3>1. PICK c1, c2 : /\ made[i] = <<c1, c2>>
                        /\ CorrectionInTime(c1, i, valid_beams, n)
                        /\ CorrectionInTime(c2, i, valid_beams, n)
                        /\ c1.to = i /\ c2.from = i
      BY <2>3
    <3>2. Len(made[i]) = 2 /\ DOMAIN made[i] = {1, 2} /\ made[i][1] = c1 /\ made[i][2] = c2
      BY <3>1
    <3> QED
      BY <1>4, <1>5, <3>1, <3>2
  <2> QED
    BY <2>1, <2>2, <2>3, Zenon DEF BeamCorrected
<1> QED
  BY <1>2, <1>7, <1>8, <1>9 DEF Undistortion!BeamsInTime

\* LidarMotionCalibrator, ScanCallBack: in a scan of any length, with segments of any
\* length and wherever a pose is missing, each beam is corrected with the pose of its own
\* time, the beams before the missing pose are corrected and those behind are not, and
\* only the beam between two segments is corrected twice.
THEOREM CorrectedOnTime == PackagesSpec => []BeamsInTime
<1>1. PackagesInit => UndistortionInv
  BY UndistortionStarts
<1>2. UndistortionInv /\ [PackagesNext]_packagesVars => UndistortionInv'
  <2> SUFFICES ASSUME UndistortionInv, [PackagesNext]_packagesVars PROVE UndistortionInv'
    OBVIOUS
  <2>1. CASE UNCHANGED scanVars
    BY <2>1 DEF UndistortionInv, scanVars
  <2>2. CASE UndistortionNext
    BY <2>2, ScanKeepsCorrected, PosesKeepCorrected, SegmentKeepsCorrected
       DEF UndistortionNext, Undistortion!Next
  <2>3. UndistortionNext \/ UNCHANGED scanVars
    BY DEF PackagesNext, packagesVars, FilterNext, NodeNext, ViewerNext, CalibrationNext,
           OccupancyNext
  <2> QED
    BY <2>1, <2>2, <2>3
<1>3. UndistortionInv => BeamsInTime
  BY CorrectedInTime DEF BeamsInTime
<1> QED
  BY <1>1, <1>2, <1>3, PackagesBehave, PTL
-----------------------------------------------------------------------------
(* OdomCalibration: the rows of the system.                                 *)

Poses == [x : Int, y : Int, theta : Int]

CosOf(heading) == IF heading = 0 THEN 1 ELSE IF heading = 2 THEN -1 ELSE 0

\* A heading is one of four.
LEMMA Headings ==
    ASSUME NEW theta \in Int
    PROVE  /\ theta % 4 \in 0..3
           /\ Calibration!Cos(theta) = CosOf(theta % 4)
           /\ Calibration!Sin(theta) = CosOf((theta + 3) % 4)
           /\ Calibration!Normalized(theta) = IF theta % 4 = 3 THEN -1 ELSE theta % 4
BY DEF Calibration!Cos, Calibration!Sin, Calibration!Normalized, CosOf

\* From a pose in the same place as the one before, the increment leads to the pose now.
LEMMA IncrementLeads ==
    ASSUME NEW pose \in Poses, NEW before \in Poses, NEW now \in Poses,
           Calibration!SamePlace(pose, before)
    PROVE  /\ Calibration!Relative(before, now) \in Poses
           /\ Calibration!Plus(pose, Calibration!Relative(before, now)) \in Poses
           /\ Calibration!SamePlace(Calibration!Plus(pose, Calibration!Relative(before, now)), now)
<1> DEFINE c == Calibration!Cos(before.theta)
           s == Calibration!Sin(before.theta)
           dx == now.x - before.x
           dy == now.y - before.y
           turn == Calibration!Normalized(now.theta - before.theta)
           step_ == [x |-> c * dx + s * dy, y |-> c * dy - s * dx, theta |-> turn]
           end == [x |-> pose.x + c * step_.x - s * step_.y,
                   y |-> pose.y + s * step_.x + c * step_.y,
                   theta |-> pose.theta + turn]
<1>1. /\ pose.x = before.x /\ pose.y = before.y /\ pose.theta % 4 = before.theta % 4
      /\ Calibration!Cos(pose.theta) = c /\ Calibration!Sin(pose.theta) = s
  <2>1. pose.theta \in Int /\ before.theta \in Int
    BY DEF Poses
  <2>2. pose.theta % 4 = before.theta % 4
    BY <2>1, Headings DEF Calibration!SamePlace
  <2>3. (pose.theta + 3) % 4 = (before.theta + 3) % 4
    BY <2>1, <2>2
  <2>4. Calibration!Cos(pose.theta) = c /\ Calibration!Sin(pose.theta) = s
    BY <2>1, <2>2, <2>3, Headings
  <2> QED
    BY <2>2, <2>4 DEF Calibration!SamePlace
<1>2. Calibration!Relative(before, now) = step_
  BY DEF Calibration!Relative
<1>3. Calibration!Plus(pose, step_) = end
  BY <1>1 DEF Calibration!Plus
<1>4. dx \in Int /\ dy \in Int /\ turn \in Int /\ now.theta - before.theta \in Int
  BY Headings DEF Poses
<1>5. \/ c = 1 /\ s = 0
      \/ c = 0 /\ s = 1
      \/ c = -1 /\ s = 0
      \/ c = 0 /\ s = -1
  <2>1. before.theta \in Int
    BY DEF Poses
  <2>2. c = CosOf(before.theta % 4) /\ s = CosOf((before.theta + 3) % 4)
    BY <2>1, Headings
  <2> HIDE DEF c, s
  <2> QED
    BY <2>1, <2>2 DEF CosOf
<1>6. step_.x \in Int /\ step_.y \in Int
  BY <1>4, <1>5
<1>7. pose.x + c * step_.x - s * step_.y = now.x
  BY <1>1, <1>4, <1>5 DEF Poses
<1>8. pose.y + s * step_.x + c * step_.y = now.y
  BY <1>1, <1>4, <1>5 DEF Poses
<1>9. Calibration!Normalized(pose.theta + turn) = Calibration!Normalized(now.theta)
  <2>1. /\ pose.theta \in Int /\ before.theta \in Int /\ now.theta \in Int
        /\ pose.theta % 4 = before.theta % 4
    BY <1>1 DEF Poses
  <2>2. (pose.theta + turn) % 4 = now.theta % 4
    BY <2>1 DEF Calibration!Normalized
  <2> QED
    BY <2>1, <2>2, <1>4, Headings
<1>10. step_ \in Poses /\ end \in Poses
  BY <1>1, <1>4, <1>5, <1>6 DEF Poses
<1> QED
  BY <1>2, <1>3, <1>7, <1>8, <1>9, <1>10 DEF Calibration!SamePlace

\* Rows as far apart as there are rows, and no farther, are different.
LEMMA OtherRow ==
    ASSUME NEW n \in Nat \ {0}, NEW j \in Int, NEW k \in Int, j < k, k - j < n
    PROVE  j % n # k % n
<1> DEFINE p == j \div n
           q == k \div n
<1>1. /\ p \in Int /\ q \in Int /\ (j % n) \in Int /\ (k % n) \in Int
      /\ j = n * p + (j % n) /\ k = n * q + (k % n)
  <2>1. \A i \in Int : (i \div n) \in Int /\ (i % n) \in 0..n - 1 /\ i = n * (i \div n) + (i % n)
    OBVIOUS
  <2> QED
    BY <2>1
<1> SUFFICES ASSUME j % n = k % n PROVE FALSE
  OBVIOUS
<1>2. n * q - n * p = n * (q - p) /\ n * q - n * p = k - j
  BY <1>1
<1>3. q - p > 0
  BY <1>1, <1>2
<1>4. n * (q - p) >= n
  <2>1. q - p - 1 \in Nat /\ n * (q - p) = n * (q - p - 1) + n
    BY <1>1, <1>3
  <2>2. n * (q - p - 1) >= 0
    BY <2>1
  <2> QED
    BY <1>1, <2>1, <2>2
<1> QED
  BY <1>2, <1>4

LEMMA LeastOf ==
    ASSUME NEW S \in SUBSET Nat, S # {}
    PROVE  \E k \in S : \A j \in S : k <= j
<1>1. PICK k \in S : \A j \in S : <<j, k>> \notin OpToRel(<, Nat)
  BY WFMin, NatLessThanWellFounded, Zenon
<1>2. \A j \in S : ~(j < k)
  BY <1>1, Zenon DEF OpToRel
<1>3. \A j \in S : j \in Nat
  OBVIOUS
<1>4. \A j \in S : k <= j
  BY <1>2, <1>3
<1> QED
  BY <1>4, Zenon

\* The path along the increments, with all its poses.
IsPath(path, increments) ==
    path = [k \in 0..Len(increments) |->
               IF k = 0 THEN Calibration!Origin
               ELSE Calibration!Plus(path[k - 1], increments[k])]

LEMMA OnePath ==
    ASSUME NEW increments \in Seq(Poses), NEW path, IsPath(path, increments)
    PROVE  Calibration!Path(increments) = path[Len(increments)]
<1> DEFINE n == Len(increments)
           found == CHOOSE f : IsPath(f, increments)
           Bad == {k \in 0..n : found[k] # path[k]}
<1>0. n \in Nat
  OBVIOUS
<1>1. IsPath(found, increments)
  OBVIOUS
<1>2. Calibration!Path(increments) = found[n]
  BY DEF Calibration!Path, IsPath
<1>3. \A k \in 0..n :
         /\ found[k] = IF k = 0 THEN Calibration!Origin
                       ELSE Calibration!Plus(found[k - 1], increments[k])
         /\ path[k] = IF k = 0 THEN Calibration!Origin
                      ELSE Calibration!Plus(path[k - 1], increments[k])
  BY <1>1 DEF IsPath
<1>4. Bad = {}
  <2> SUFFICES ASSUME Bad # {} PROVE FALSE
    OBVIOUS
  <2>1. PICK k \in Bad : \A j \in Bad : k <= j
    BY <1>0, LeastOf
  <2>2. k # 0
    BY <1>3, <2>1
  <2>3. k - 1 \in 0..n /\ found[k - 1] = path[k - 1]
    BY <1>0, <2>1, <2>2
  <2> QED
    BY <1>3, <2>1, <2>2, <2>3
<1> QED
  BY <1>0, <1>2, <1>4

LEMMA PathGrows ==
    ASSUME NEW increments \in Seq(Poses), NEW increment \in Poses,
           NEW path, IsPath(path, increments)
    PROVE  \E longer : /\ IsPath(longer, Append(increments, increment))
                       /\ longer[Len(increments) + 1]
                            = Calibration!Plus(path[Len(increments)], increment)
<1> DEFINE n == Len(increments)
           next_ == Calibration!Plus(path[n], increment)
           longer == [k \in 0..n + 1 |-> IF k = n + 1 THEN next_ ELSE path[k]]
<1>1. /\ n \in Nat
      /\ Len(Append(increments, increment)) = n + 1
      /\ \A k \in 1..n : Append(increments, increment)[k] = increments[k]
      /\ Append(increments, increment)[n + 1] = increment
  OBVIOUS
<1>2. \A k \in 0..n + 1 :
         longer[k] = IF k = 0 THEN Calibration!Origin
                     ELSE Calibration!Plus(longer[k - 1], Append(increments, increment)[k])
  <2> SUFFICES ASSUME NEW k \in 0..n + 1
               PROVE  longer[k] = IF k = 0 THEN Calibration!Origin
                        ELSE Calibration!Plus(longer[k - 1], Append(increments, increment)[k])
    OBVIOUS
  <2>1. CASE k = n + 1
    <3>1. longer[k] = next_ /\ longer[k - 1] = path[n] /\ k # 0
      BY <1>1, <2>1
    <3> QED
      BY <1>1, <2>1, <3>1
  <2>2. CASE k # n + 1
    <3>1. k \in 0..n /\ longer[k] = path[k]
      BY <1>1, <2>2
    <3>2. path[k] = IF k = 0 THEN Calibration!Origin
                    ELSE Calibration!Plus(path[k - 1], increments[k])
      BY <3>1 DEF IsPath
    <3>3. k # 0 => longer[k - 1] = path[k - 1] /\ Append(increments, increment)[k] = increments[k]
      BY <1>1, <3>1
    <3> QED
      BY <3>1, <3>2, <3>3
  <2> QED
    BY <2>1, <2>2
<1>3. longer[n + 1] = next_
  BY <1>1
<1>4. IsPath(longer, Append(increments, increment))
  BY <1>1, <1>2 DEF IsPath
<1> QED
  BY <1>3, <1>4

\* The two poses of a scan used.
Pairs == [odom : Poses, true : Poses]

\* The row of the k-th scan used is about this scan and the one used before it.
RowPaired(k) ==
    LET row == rows[(k - 1) % DataLen]
        odom == Calibration!Relative(used[k - 1].odom, used[k].odom)
    IN  /\ row.odom = odom
        /\ row.scan \in {odom, Calibration!Relative(used[k - 1].true, used[k].true)}

\* The scan kept to compare the next with is the last one used, in the odometer's terms and
\* in the laser's; the position of the odometer is the end of the path that is published.
CalibrationInv ==
    /\ used \in Seq(Pairs)
    /\ odom_increments \in Seq(Poses)
    /\ odom_pos_cal \in Poses
    /\ now_len = Len(used) /\ Len(odom_increments) = Len(used)
    /\ last_pos = Calibration!OdometerAt(Len(used))
    /\ used # <<>> => m_prevLDP = used[Len(used)].true
    /\ DOMAIN rows = 0..DataLen - 1
    /\ \A k \in 2..Len(used) : k > Len(used) - DataLen => RowPaired(k)
    /\ Calibration!SamePlace(odom_pos_cal, Calibration!OdometerAt(Len(used)))
    /\ \E path : IsPath(path, odom_increments) /\ path[Len(odom_increments)] = odom_pos_cal
    /\ \A k \in DOMAIN calibrated :
          /\ calibrated[k].increments \in 0..Len(used)
          /\ Calibration!SamePlace(calibrated[k].last,
                                   Calibration!OdometerAt(calibrated[k].increments))

LEMMA CalibrationStarts ==
    ASSUME PackagesInit
    PROVE  CalibrationInv
<1> DEFINE origin == Calibration!Origin
           path == [k \in 0..0 |-> origin]
<1>1. /\ used = <<>> /\ odom_increments = <<>> /\ calibrated = <<>> /\ now_len = 0
      /\ odom_pos_cal = origin /\ last_pos = origin
      /\ DOMAIN rows = 0..DataLen - 1
  BY DEF PackagesInit, Calibration!Init
<1>2. origin \in Poses /\ Calibration!OdometerAt(0) = origin
      /\ Calibration!SamePlace(origin, origin)
  BY DEF Calibration!Origin, Poses, Calibration!OdometerAt, Calibration!SamePlace
<1>3. Len(<<>>) = 0 /\ <<>> \in Seq(Poses) /\ <<>> \in Seq(Pairs)
      /\ DOMAIN <<>> = {}
  OBVIOUS
<1>4. IsPath(path, <<>>) /\ path[0] = origin
  BY <1>3 DEF IsPath
<1>5. \E p : IsPath(p, odom_increments) /\ p[Len(odom_increments)] = odom_pos_cal
  BY <1>1, <1>3, <1>4
<1> QED
  BY <1>1, <1>2, <1>3, <1>5 DEF CalibrationInv

LEMMA PoseIsNoTuple ==
    ASSUME NEW p \in Poses
    PROVE  p # <<>>
BY DEF Poses

\* A scan that is used adds one row.
LEMMA UsedKeepsRows ==
    ASSUME CalibrationInv, NEW odom \in Poses, NEW laser \in Poses, Calibration!UseScan(odom, laser)
    PROVE  CalibrationInv'
<1> PICK n : n = Len(used)
  OBVIOUS
<1> DEFINE pair == [odom |-> odom, true |-> laser]
           increment == Calibration!Relative(last_pos, odom)
           At(k) == Calibration!OdometerAt(k)
<1>0. /\ DataLen \in Nat \ {0}
      /\ used \in Seq(Pairs)
      /\ now_len = n /\ Len(odom_increments) = n
      /\ last_pos = At(n)
      /\ DOMAIN rows = 0..DataLen - 1
  BY SizesAssumption DEF SizesAssumption, CalibrationInv
<1>1. /\ n \in Nat /\ used' = Append(used, pair)
      /\ used' \in Seq(Pairs) /\ Len(used') = n + 1
      /\ used'[n + 1] = pair /\ \A k \in 1..n : used'[k] = used[k]
  <2>1. used' = Append(used, pair)
    BY DEF Calibration!UseScan
  <2>2. pair \in Pairs
    BY DEF Pairs
  <2> HIDE DEF pair
  <2> QED
    BY <1>0, <2>1, <2>2
<1>2. /\ odom_increments' = Append(odom_increments, increment)
      /\ odom_pos_cal' = Calibration!Plus(odom_pos_cal, increment)
      /\ last_pos' = odom /\ m_prevLDP' = laser
      /\ UNCHANGED calibrated
  BY DEF Calibration!UseScan
<1>3. PICK scan :
         /\ \/ m_prevLDP = Calibration!NoScan
            \/ scan \in {Calibration!Relative(m_prevLDP, laser), increment}
         /\ rows' = [rows EXCEPT ![now_len % DataLen] = [odom |-> increment, scan |-> scan]]
         /\ now_len' = now_len + 1
  BY DEF Calibration!UseScan, Calibration!AddData, Calibration!MatchedIncrements
<1>4. \A k \in 0..n : At(k) \in Poses /\ At(k)' = At(k)
  <2>1. Calibration!Origin \in Poses
    BY DEF Calibration!Origin, Poses
  <2>2. \A k \in 1..n : used[k] \in Pairs /\ used'[k] = used[k]
    BY <1>0, <1>1
  <2> QED
    BY <2>1, <2>2 DEF Calibration!OdometerAt, Pairs
<1>5. last_pos \in Poses /\ At(n + 1)' = odom
  <2>1. n + 1 # 0 /\ used'[n + 1].odom = odom
    BY <1>1
  <2> QED
    BY <1>0, <1>1, <1>4, <2>1 DEF Calibration!OdometerAt
<1>6. /\ increment \in Poses /\ odom_pos_cal' \in Poses
      /\ Calibration!SamePlace(odom_pos_cal', odom)
  BY <1>2, <1>4, <1>5, IncrementLeads DEF CalibrationInv
<1>7. odom_increments' \in Seq(Poses) /\ Len(odom_increments') = n + 1
  BY <1>0, <1>2, <1>6 DEF CalibrationInv
<1>8. (\E path : IsPath(path, odom_increments) /\ path[Len(odom_increments)] = odom_pos_cal)'
  <2>1. PICK path : IsPath(path, odom_increments) /\ path[n] = odom_pos_cal
    BY <1>0 DEF CalibrationInv
  <2>2. odom_increments \in Seq(Poses)
    BY DEF CalibrationInv
  <2>3. PICK longer : /\ IsPath(longer, odom_increments')
                      /\ longer[n + 1] = odom_pos_cal'
    BY <1>0, <1>2, <1>6, <2>1, <2>2, PathGrows
  <2> QED
    BY <1>7, <2>3 DEF IsPath
<1>9. /\ now_len % DataLen \in 0..DataLen - 1
      /\ DOMAIN rows' = 0..DataLen - 1
      /\ rows'[n % DataLen] = [odom |-> increment, scan |-> scan]
  BY <1>0, <1>1, <1>3
<1>10. ASSUME NEW k \in 2..n + 1, k > n + 1 - DataLen
       PROVE  RowPaired(k)'
  <2>1. CASE k = n + 1
    <3>1. n > 0 /\ used # <<>> /\ used[n] \in Pairs
      BY <1>0, <1>1, <1>10, <2>1
    <3>2. last_pos = used[n].odom /\ m_prevLDP = used[n].true
      BY <1>0, <3>1 DEF CalibrationInv, Calibration!OdometerAt
    <3>3. m_prevLDP # Calibration!NoScan
      <4>1. PICK p : p = used[n].true
        OBVIOUS
      <4>2. p \in Poses
        BY <3>1, <4>1 DEF Pairs
      <4>3. p # <<>>
        BY <4>2, PoseIsNoTuple
      <4> QED
        BY <3>2, <4>1, <4>3 DEF Calibration!NoScan
    <3>4. /\ rows'[(k - 1) % DataLen] = [odom |-> increment, scan |-> scan]
          /\ used'[k - 1] = used[n] /\ used'[k] = pair
      BY <1>1, <1>9, <2>1, <3>1
    <3>5. scan \in {increment, Calibration!Relative(used[n].true, laser)}
      BY <1>3, <3>2, <3>3
    <3> QED
      BY <3>2, <3>4, <3>5 DEF RowPaired, Calibration!Relative, Calibration!Cos,
                              Calibration!Sin, Calibration!Normalized
  <2>2. CASE k # n + 1
    <3>1. k \in 2..n /\ k > n - DataLen
      BY <1>0, <1>1, <1>10, <2>2
    <3>2. (k - 1) % DataLen # n % DataLen /\ (k - 1) % DataLen \in 0..DataLen - 1
        <4>1. k - 1 \in Int /\ n \in Int /\ k - 1 < n /\ n - (k - 1) < DataLen
        BY <1>0, <1>1, <1>10, <3>1
      <4>2. (k - 1) % DataLen # n % DataLen
        BY <1>0, <4>1, OtherRow
      <4> QED
        BY <1>0, <4>1, <4>2
    <3>3. rows'[(k - 1) % DataLen] = rows[(k - 1) % DataLen]
      BY <1>0, <1>3, <3>2
    <3>4. used'[k] = used[k] /\ used'[k - 1] = used[k - 1]
      BY <1>1, <3>1
    <3>5. RowPaired(k)
      BY <3>1 DEF CalibrationInv
    <3>6. PICK row, before, now :
             /\ row = rows[(k - 1) % DataLen] /\ before = used[k - 1] /\ now = used[k]
      OBVIOUS
    <3>7. PICK moved, matched :
             /\ moved = Calibration!Relative(before.odom, now.odom)
             /\ matched = Calibration!Relative(before.true, now.true)
      OBVIOUS
    <3>8. row.odom = moved /\ row.scan \in {moved, matched}
      BY <3>5, <3>6, <3>7 DEF RowPaired
    <3>9. /\ Calibration!Relative(used[k - 1].odom, used[k].odom)' = moved
          /\ Calibration!Relative(used[k - 1].true, used[k].true)' = matched
      BY <3>4, <3>6, <3>7 DEF Calibration!Relative, Calibration!Cos, Calibration!Sin,
                              Calibration!Normalized
    <3>10. (rows[(k - 1) % DataLen])' = row
      BY <3>3, <3>6
    <3> QED
      BY <3>8, <3>9, <3>10 DEF RowPaired
  <2> QED
    BY <2>1, <2>2
<1>11. (\A k \in DOMAIN calibrated :
           /\ calibrated[k].increments \in 0..Len(used)
           /\ Calibration!SamePlace(calibrated[k].last, At(calibrated[k].increments)))'
  <2> SUFFICES ASSUME NEW k \in DOMAIN calibrated'
               PROVE  /\ calibrated'[k].increments \in 0..n + 1
                      /\ (Calibration!SamePlace(calibrated[k].last,
                                                At(calibrated[k].increments)))'
    BY <1>1
  <2>1. PICK c : c = calibrated[k]
    OBVIOUS
  <2>2. c = calibrated'[k] /\ c.increments \in 0..n /\ Calibration!SamePlace(c.last, At(c.increments))
    BY <1>0, <1>2, <2>1 DEF CalibrationInv
  <2>3. At(c.increments)' = At(c.increments) /\ c.increments \in 0..n + 1
    BY <1>1, <1>4, <2>2
  <2> HIDE DEF At
  <2> QED
    BY <2>2, <2>3 DEF Calibration!SamePlace
<1>12. Calibration!SamePlace(odom_pos_cal', At(n + 1)')
  BY <1>5, <1>6
<1>13. used' # <<>> => m_prevLDP' = used'[Len(used')].true
  BY <1>1, <1>2
<1>14. now_len' = Len(used') /\ Len(odom_increments') = Len(used')
       /\ last_pos' = At(n + 1)'
  BY <1>0, <1>1, <1>2, <1>3, <1>5, <1>7
<1>15. (\A k \in 2..Len(used) : k > Len(used) - DataLen => RowPaired(k))'
  <2> SUFFICES ASSUME NEW k \in 2..Len(used'), k > Len(used') - DataLen
               PROVE  RowPaired(k)'
    OBVIOUS
  <2>1. Len(used') = n + 1 /\ n \in Nat /\ DataLen \in Nat
    BY <1>0, <1>1
  <2>2. k \in 2..n + 1 /\ k > n + 1 - DataLen
    BY <2>1
  <2> QED
    BY <1>10, <2>2
<1>16. Calibration!SamePlace(odom_pos_cal, Calibration!OdometerAt(Len(used)))'
  BY <1>1, <1>12 DEF Calibration!SamePlace
<1>17. (/\ used \in Seq(Pairs)
        /\ odom_increments \in Seq(Poses)
        /\ odom_pos_cal \in Poses
        /\ now_len = Len(used) /\ Len(odom_increments) = Len(used)
        /\ last_pos = Calibration!OdometerAt(Len(used))
        /\ used # <<>> => m_prevLDP = used[Len(used)].true
        /\ DOMAIN rows = 0..DataLen - 1)'
  <2>1. Len(used') = n + 1
    BY <1>1
  <2>2. Calibration!OdometerAt(Len(used))' = At(n + 1)'
    BY <2>1 DEF Calibration!OdometerAt
  <2> HIDE DEF At
  <2> QED
    BY <1>1, <1>6, <1>7, <1>9, <1>13, <1>14, <2>2
<1> QED
  BY <1>8, <1>11, <1>15, <1>16, <1>17, Zenon DEF CalibrationInv

\* Rows that stay are about the scans they were about.
LEMMA RowsStay ==
    ASSUME UNCHANGED <<rows, used>>, NEW k, RowPaired(k)
    PROVE  RowPaired(k)'
<1>1. PICK row, before, now :
         /\ row = rows[(k - 1) % DataLen] /\ before = used[k - 1] /\ now = used[k]
  OBVIOUS
<1>2. PICK moved, matched :
         /\ moved = Calibration!Relative(before.odom, now.odom)
         /\ matched = Calibration!Relative(before.true, now.true)
  OBVIOUS
<1>3. row.odom = moved /\ row.scan \in {moved, matched}
  BY <1>1, <1>2 DEF RowPaired
<1>4. /\ Calibration!Relative(used[k - 1].odom, used[k].odom)' = moved
      /\ Calibration!Relative(used[k - 1].true, used[k].true)' = matched
  BY <1>1, <1>2 DEF Calibration!Relative, Calibration!Cos, Calibration!Sin,
                    Calibration!Normalized
<1> QED
  BY <1>1, <1>3, <1>4 DEF RowPaired

\* A scan that is passed over, or skipped, changes nothing a row is made from.
LEMMA OthersKeepRows ==
    ASSUME CalibrationInv,
           UNCHANGED <<last_pos, m_prevLDP, odom_increments, odom_pos_cal, rows, now_len,
                       calibrated, used>>
    PROVE  CalibrationInv'
<1>1. (/\ used \in Seq(Pairs)
       /\ odom_increments \in Seq(Poses)
       /\ odom_pos_cal \in Poses
       /\ now_len = Len(used) /\ Len(odom_increments) = Len(used)
       /\ last_pos = Calibration!OdometerAt(Len(used))
       /\ used # <<>> => m_prevLDP = used[Len(used)].true
       /\ DOMAIN rows = 0..DataLen - 1)'
  BY DEF CalibrationInv, Calibration!OdometerAt
<1>2. (\A k \in 2..Len(used) : k > Len(used) - DataLen => RowPaired(k))'
  BY RowsStay DEF CalibrationInv
<1>3. (/\ Calibration!SamePlace(odom_pos_cal, Calibration!OdometerAt(Len(used)))
       /\ \E path : IsPath(path, odom_increments)
                    /\ path[Len(odom_increments)] = odom_pos_cal)'
  BY DEF CalibrationInv, IsPath, Calibration!OdometerAt, Calibration!SamePlace
<1>4. (\A k \in DOMAIN calibrated :
          /\ calibrated[k].increments \in 0..Len(used)
          /\ Calibration!SamePlace(calibrated[k].last,
                                   Calibration!OdometerAt(calibrated[k].increments)))'
  BY DEF CalibrationInv, Calibration!OdometerAt, Calibration!SamePlace
<1> QED
  BY <1>1, <1>2, <1>3, <1>4, Zenon DEF CalibrationInv

\* The path that is published ends where the odometer is.
LEMMA SolvedKeepsRows ==
    ASSUME CalibrationInv, Calibration!CalibFlagCallBack
    PROVE  CalibrationInv'
<1> PICK n : n = Len(used)
  OBVIOUS
<1> PICK solved : solved = [last |-> Calibration!Path(odom_increments),
                            increments |-> Len(odom_increments)]
  OBVIOUS
<1>1. /\ calibrated' = Append(calibrated, solved)
      /\ UNCHANGED <<last_pos, m_prevLDP, odom_increments, odom_pos_cal, rows, now_len, used>>
  BY DEF Calibration!CalibFlagCallBack
<1>2. Calibration!Path(odom_increments) = odom_pos_cal
  <2>1. PICK path : IsPath(path, odom_increments) /\ path[Len(odom_increments)] = odom_pos_cal
    BY DEF CalibrationInv
  <2> QED
    BY <2>1, OnePath DEF CalibrationInv
<1>3. /\ solved.increments \in 0..n
      /\ Calibration!SamePlace(solved.last, Calibration!OdometerAt(solved.increments))
  <2>1. n \in Nat /\ Len(odom_increments) = n
    BY DEF CalibrationInv
  <2> QED
    BY <1>2, <2>1 DEF CalibrationInv
<1>4. (\A k \in DOMAIN calibrated :
          /\ calibrated[k].increments \in 0..Len(used)
          /\ Calibration!SamePlace(calibrated[k].last,
                                   Calibration!OdometerAt(calibrated[k].increments)))'
  <2> SUFFICES ASSUME NEW k \in DOMAIN calibrated'
               PROVE  (/\ calibrated[k].increments \in 0..Len(used)
                       /\ Calibration!SamePlace(calibrated[k].last,
                                   Calibration!OdometerAt(calibrated[k].increments)))'
    OBVIOUS
  <2>1. PICK c : c = calibrated'[k]
    OBVIOUS
  <2>2. c = solved \/ (k \in DOMAIN calibrated /\ c = calibrated[k])
    BY <1>1, <2>1 DEF CalibrationInv
  <2>3. c.increments \in 0..n /\ Calibration!SamePlace(c.last, Calibration!OdometerAt(c.increments))
    BY <1>3, <2>2 DEF CalibrationInv
  <2>4. Calibration!OdometerAt(c.increments)' = Calibration!OdometerAt(c.increments)
    BY <1>1 DEF Calibration!OdometerAt
  <2> QED
    BY <1>1, <2>1, <2>3, <2>4 DEF Calibration!SamePlace
<1>5. (/\ used \in Seq(Pairs)
       /\ odom_increments \in Seq(Poses)
       /\ odom_pos_cal \in Poses
       /\ now_len = Len(used) /\ Len(odom_increments) = Len(used)
       /\ last_pos = Calibration!OdometerAt(Len(used))
       /\ used # <<>> => m_prevLDP = used[Len(used)].true
       /\ DOMAIN rows = 0..DataLen - 1)'
  BY <1>1 DEF CalibrationInv, Calibration!OdometerAt
<1>6. (\A k \in 2..Len(used) : k > Len(used) - DataLen => RowPaired(k))'
  BY <1>1, RowsStay DEF CalibrationInv
<1>7. (/\ Calibration!SamePlace(odom_pos_cal, Calibration!OdometerAt(Len(used)))
       /\ \E path : IsPath(path, odom_increments)
                    /\ path[Len(odom_increments)] = odom_pos_cal)'
  BY <1>1 DEF CalibrationInv, IsPath, Calibration!OdometerAt, Calibration!SamePlace
<1> QED
  BY <1>4, <1>5, <1>6, <1>7, Zenon DEF CalibrationInv

\* OdomCalib::Add_Data, CalibFlagCallBack: the rows of the calibration are about pairs of
\* scans, however many scans were passed over, and the increments lead to where the odometer
\* was, in memory and in every path that was published.
THEOREM RowsAlwaysPaired == PackagesSpec => []RowsPaired
<1>1. PackagesInit => CalibrationInv
  BY CalibrationStarts
<1>2. CalibrationInv /\ [PackagesNext]_packagesVars => CalibrationInv'
  <2> SUFFICES ASSUME CalibrationInv, [PackagesNext]_packagesVars PROVE CalibrationInv'
    OBVIOUS
  <2>1. CASE UNCHANGED calibVars
    BY <2>1, OthersKeepRows DEF calibVars
  <2>2. CASE CalibrationNext
    <3>1. CASE Calibration!CalibFlagCallBack
      BY <3>1, SolvedKeepsRows
    <3>2. CASE Calibration!SkipScan
      BY <3>2, OthersKeepRows DEF Calibration!SkipScan
    <3>3. CASE \E odom \in Poses : Calibration!PassOver(odom)
      BY <3>3, OthersKeepRows DEF Calibration!PassOver
    <3>4. CASE \E odom \in Poses, laser \in Poses : Calibration!UseScan(odom, laser)
      BY <3>4, UsedKeepsRows
    <3>5. \A x \in Int, y \in Int, theta \in Int : Pose(x, y, theta) \in Poses
      BY DEF Pose, Poses
    <3> QED
      <4>1. CASE Calibration!ScanCallBack
        <5>1. \/ Calibration!SkipScan
              \/ \E odom \in Poses : Calibration!PassOver(odom)
              \/ \E odom \in Poses, laser \in Poses : Calibration!UseScan(odom, laser)
          BY <4>1, <3>5 DEF Calibration!ScanCallBack
        <5> QED
          BY <5>1, <3>2, <3>3, <3>4
      <4> QED
        BY <2>2, <3>1, <4>1 DEF CalibrationNext, Calibration!Next
  <2>3. CalibrationNext \/ UNCHANGED calibVars
    BY DEF PackagesNext, packagesVars, FilterNext, NodeNext, ViewerNext, UndistortionNext,
           OccupancyNext
  <2> QED
    BY <2>1, <2>2, <2>3
<1>3. CalibrationInv => RowsPaired
  <2> SUFFICES ASSUME CalibrationInv PROVE Calibration!RowsPaired
    BY DEF RowsPaired
  <2>1. \A k \in Calibration!InRows \ {1} : RowPaired(k)
    <3>1. \A k \in Calibration!InRows \ {1} : k \in 2..Len(used) /\ k > Len(used) - DataLen
      BY DEF CalibrationInv, Calibration!InRows
    <3> QED
      BY <3>1 DEF CalibrationInv
  <2> QED
    BY <2>1 DEF CalibrationInv, RowPaired, Calibration!RowsPaired
<1> QED
  BY <1>1, <1>2, <1>3, PackagesBehave, PTL
-----------------------------------------------------------------------------
(* GridSlamProcessorThread: what the display draws.                         *)

Draws == {<<>>} \cup [Viewer!Particles -> Viewer!Particles]

ViewerEvents == [kind : {"move", "map", "resample", "done"}, number : Nat, indexes : Draws]

Indexes == [Viewer!Particles -> Seq(Viewer!Particles)]

ElementsOf(s) == {s[k] : k \in 1..Len(s)}

\* Every event but those that were looked at and not kept.
EventsKnown == ElementsOf(history) \cup ElementsOf(events) \cup ElementsOf(eventBuffer)
                 \cup deleted

Drawings(n) == {e \in EventsKnown : e.kind = "resample" /\ e.number = n}

ByNumber(s) == \A j, k \in 1..Len(s) : j < k => s[j].number < s[k].number
Before(s, t) == \A j \in 1..Len(s), k \in 1..Len(t) : s[j].number < t[k].number

\* A particle's past is that of the particle it was drawn from, and itself.
PastKept(n) ==
    \A i \in Viewer!Particles, k \in 1..n - 1 :
      /\ \A e \in Drawings(n) : ancestors[n][i][k] = ancestors[n - 1][e.indexes[i]][k]
      /\ Drawings(n) = {} => ancestors[n][i][k] = ancestors[n - 1][i][k]

EventsTyped ==
    /\ history \in Seq(ViewerEvents) /\ events \in Seq(ViewerEvents)
    /\ eventBuffer \in Seq(ViewerEvents) /\ deleted \subseteq ViewerEvents
    /\ ancestors \in Seq(Indexes)
    /\ gui \/ history = <<>>

EventsNumbered ==
    /\ \A e \in EventsKnown : e.number \in 1..Len(ancestors)
    /\ \A e, f \in EventsKnown : e.number = f.number => e = f
    /\ \A e \in EventsKnown : e.kind = "resample" =>
         e.indexes \in [Viewer!Particles -> Viewer!Particles]
    /\ \A j \in 1..Len(history) : history[j].kind \in {"move", "resample"}

EventsOrdered ==
    /\ ByNumber(history) /\ ByNumber(events) /\ ByNumber(eventBuffer)
    /\ Before(history, events) /\ Before(history, eventBuffer) /\ Before(events, eventBuffer)

\* What the display draws from tells the truth about the particles: the events it has, waits
\* for and has lost are, if it keeps any, all that moved or drew them, in their order.
ViewerInv ==
    /\ EventsTyped
    /\ EventsNumbered
    /\ EventsOrdered
    /\ \A n \in 1..Len(ancestors), i \in Viewer!Particles :
         Len(ancestors[n][i]) = n /\ ancestors[n][i][n] = i
    /\ gui => \A n \in 2..Len(ancestors) : PastKept(n)
    /\ step = "finished" =>
         done \/ \E e \in ElementsOf(events) \cup ElementsOf(eventBuffer) : e.kind = "done"

LEMMA ViewerStarts ==
    ASSUME PackagesInit
    PROVE  ViewerInv
<1>1. /\ history = <<>> /\ events = <<>> /\ eventBuffer = <<>> /\ deleted = {}
      /\ ancestors = <<>> /\ step = "read"
  BY DEF PackagesInit, Viewer!Init
<1>2. \A S : <<>> \in Seq(S) /\ Len(<<>>) = 0
  OBVIOUS
<1>3. EventsKnown = {}
  BY <1>1, <1>2 DEF EventsKnown, ElementsOf
<1>4. EventsTyped
  BY <1>1, <1>2 DEF EventsTyped
<1>5. EventsNumbered /\ EventsOrdered
  BY <1>1, <1>2, <1>3 DEF EventsNumbered, EventsOrdered, ByNumber, Before
<1> QED
  BY <1>1, <1>2, <1>4, <1>5 DEF ViewerInv

LEMMA OthersKeepViewer ==
    ASSUME ViewerInv, UNCHANGED <<gui, eventBuffer, events, history, done, deleted, ancestors>>,
           step' = "finished" => step = "finished"
    PROVE  ViewerInv'
<1>1. EventsKnown' = EventsKnown
  BY DEF EventsKnown
<1>2. \A n : Drawings(n)' = Drawings(n)
  BY <1>1 DEF Drawings
<1>3. \A n : PastKept(n)' <=> PastKept(n)
  BY <1>2 DEF PastKept
<1> QED
  BY <1>1, <1>3 DEF ViewerInv, EventsTyped, EventsNumbered, EventsOrdered

\* getEvents.
LEMMA GetKeepsViewer ==
    ASSUME ViewerInv, Viewer!GetEvents
    PROVE  ViewerInv'
<1>1. /\ events = <<>> /\ events' = eventBuffer /\ eventBuffer' = <<>>
      /\ UNCHANGED <<gui, step, history, done, deleted, ancestors>>
  BY DEF Viewer!GetEvents, Viewer!threadVars
<1>2. ElementsOf(<<>>) = {} /\ Len(<<>>) = 0 /\ <<>> \in Seq(ViewerEvents)
  BY DEF ElementsOf
<1>3. EventsKnown' = EventsKnown
  BY <1>1, <1>2 DEF EventsKnown
<1>4. \A n : PastKept(n)' <=> PastKept(n)
  <2>1. \A n : Drawings(n)' = Drawings(n)
    BY <1>3 DEF Drawings
  <2> QED
    BY <1>1, <2>1 DEF PastKept
<1>5. EventsTyped'
  BY <1>1, <1>2 DEF EventsTyped, ViewerInv
<1>6. EventsNumbered'
  BY <1>1, <1>3 DEF EventsNumbered, ViewerInv
<1>7. EventsOrdered'
  BY <1>1, <1>2 DEF EventsOrdered, ViewerInv, ByNumber, Before
<1>8. (step = "finished" =>
         done \/ \E e \in ElementsOf(events) \cup ElementsOf(eventBuffer) : e.kind = "done")'
  BY <1>1, <1>2 DEF ViewerInv
<1>9. (/\ \A n \in 1..Len(ancestors), i \in Viewer!Particles :
            Len(ancestors[n][i]) = n /\ ancestors[n][i][n] = i
       /\ gui => \A n \in 2..Len(ancestors) : PastKept(n))'
  BY <1>1, <1>4 DEF ViewerInv
<1> QED
  BY <1>5, <1>6, <1>7, <1>8, <1>9, Zenon DEF ViewerInv

\* The event looked at is the oldest; what it drew is kept, by a display that draws.
LEMMA HandleKeepsViewer ==
    ASSUME ViewerInv, Viewer!HandleEvent
    PROVE  ViewerInv'
<1>1. PICK event : event = Head(events)
  OBVIOUS
<1>2. /\ events # <<>> /\ events' = Tail(events)
      /\ done' = (done \/ event.kind = "done")
      /\ history' = IF gui /\ event.kind \in {"move", "resample"} THEN Append(history, event)
                    ELSE history
      /\ UNCHANGED <<gui, step, eventBuffer, deleted, ancestors>>
  BY <1>1 DEF Viewer!HandleEvent, Viewer!threadVars, Viewer!bufferVars
<1>3. PICK m, h : m = Len(events) - 1 /\ h = Len(history)
  OBVIOUS
<1>4. /\ m \in Nat /\ h \in Nat /\ Len(events) = m + 1 /\ Len(events') = m
      /\ events' \in Seq(ViewerEvents)
      /\ event = events[1] /\ event \in ViewerEvents
      /\ \A k \in 1..m : events'[k] = events[k + 1] /\ k + 1 \in 1..m + 1
  BY <1>1, <1>2, <1>3 DEF ViewerInv, EventsTyped
<1>5. /\ history' \in Seq(ViewerEvents) /\ (Len(history') = h \/ Len(history') = h + 1)
      /\ \A k \in 1..h : history'[k] = history[k]
      /\ Len(history') = h + 1 =>
           gui /\ event.kind \in {"move", "resample"} /\ history'[h + 1] = event
      /\ Len(history') = h => ~(gui /\ event.kind \in {"move", "resample"})
  BY <1>2, <1>3, <1>4 DEF ViewerInv, EventsTyped
<1>6. ElementsOf(events) = {event} \cup ElementsOf(events')
  <2>1. \A k \in 1..m + 1 : k = 1 \/ (k - 1 \in 1..m /\ events'[k - 1] = events[k])
    BY <1>4
  <2>2. 1 \in 1..m + 1 /\ Len(events) = m + 1 /\ Len(events') = m
    BY <1>4
  <2>3. \A e \in ElementsOf(events) : e = event \/ e \in ElementsOf(events')
    <3> SUFFICES ASSUME NEW k \in 1..m + 1
                 PROVE  events[k] = event \/ events[k] \in ElementsOf(events')
      BY <2>2 DEF ElementsOf
    <3> QED
      BY <1>4, <2>1, <2>2 DEF ElementsOf
  <2>4. event \in ElementsOf(events) /\ \A e \in ElementsOf(events') : e \in ElementsOf(events)
    BY <1>4, <2>2, Zenon DEF ElementsOf
  <2> QED
    BY <2>3, <2>4
<1>7. /\ Len(history') = h + 1 => ElementsOf(history') = ElementsOf(history) \cup {event}
      /\ Len(history') = h => ElementsOf(history') = ElementsOf(history)
  <2>1. \A k \in 1..h + 1 : k \in 1..h \/ k = h + 1
    BY <1>4
  <2>2. h + 1 \in 1..h + 1 /\ \A k \in 1..h : k \in 1..h + 1
    BY <1>4
  <2> QED
    BY <1>3, <1>5, <2>1, <2>2 DEF ElementsOf
<1>8. EventsKnown' \subseteq EventsKnown /\ EventsKnown \subseteq EventsKnown' \cup {event}
  BY <1>2, <1>5, <1>6, <1>7 DEF EventsKnown
<1>9. EventsTyped'
  BY <1>2, <1>4, <1>5 DEF ViewerInv, EventsTyped
<1>10. EventsNumbered'
  <2>1. (\A j \in 1..Len(history) : history[j].kind \in {"move", "resample"})'
    <3>1. \A j \in 1..Len(history') : j \in 1..h \/ (j = h + 1 /\ Len(history') = h + 1)
      BY <1>4, <1>5
    <3> QED
      BY <1>3, <1>5, <3>1 DEF ViewerInv, EventsNumbered
  <2> QED
    BY <1>2, <1>8, <2>1 DEF ViewerInv, EventsNumbered
<1>11. EventsOrdered'
  <2>1. \A j \in 1..Len(history') : j \in 1..h \/ (j = h + 1 /\ history'[j] = event)
    BY <1>4, <1>5
  <2>2. /\ \A j \in 1..h : history[j].number < event.number
        /\ \A k \in 1..m : event.number < events'[k].number
        /\ \A k \in 1..Len(eventBuffer) : event.number < eventBuffer[k].number
    <3>1. 1 \in 1..m + 1 /\ \A k \in 1..m : 1 < k + 1
      BY <1>4
    <3> QED
      BY <1>3, <1>4, <3>1 DEF ViewerInv, EventsOrdered, ByNumber, Before
  <2>3. ByNumber(history')
    BY <1>3, <1>4, <1>5, <2>1, <2>2 DEF ViewerInv, EventsOrdered, ByNumber
  <2>4. ByNumber(events') /\ Before(events', eventBuffer')
    <3>1. \A j, k \in 1..m : j < k => j + 1 < k + 1
      BY <1>4
    <3>2. ByNumber(events) /\ Before(events, eventBuffer)
      BY DEF ViewerInv, EventsOrdered
    <3> QED
      BY <1>2, <1>4, <3>1, <3>2 DEF ByNumber, Before
  <2>5. Before(history', events') /\ Before(history', eventBuffer')
    <3>1. /\ \A j \in 1..h, k \in 1..m : history[j].number < events'[k].number
          /\ \A j \in 1..h, k \in 1..Len(eventBuffer) :
               history[j].number < eventBuffer[k].number
      <4>1. Before(history, events) /\ Before(history, eventBuffer)
        BY DEF ViewerInv, EventsOrdered
      <4> QED
        BY <1>3, <1>4, <4>1 DEF Before
    <3>2. ASSUME NEW j \in 1..Len(history')
          PROVE  /\ \A k \in 1..m : history'[j].number < events'[k].number
                 /\ \A k \in 1..Len(eventBuffer) :
                      history'[j].number < eventBuffer[k].number
      <4>1. CASE j \in 1..h
        BY <1>5, <3>1, <4>1
      <4>2. CASE history'[j] = event
        BY <2>2, <4>2
      <4> QED
        BY <2>1, <4>1, <4>2
    <3>3. Len(events') = m /\ eventBuffer' = eventBuffer
      BY <1>2, <1>4
    <3> QED
      BY <3>2, <3>3 DEF Before
  <2>6. ByNumber(eventBuffer')
    BY <1>2 DEF ViewerInv, EventsOrdered
  <2> QED
    BY <2>3, <2>4, <2>5, <2>6, Zenon DEF EventsOrdered, ByNumber, Before
<1>12. (step = "finished" =>
          done \/ \E e \in ElementsOf(events) \cup ElementsOf(eventBuffer) : e.kind = "done")'
  BY <1>2, <1>6 DEF ViewerInv
<1>13. (\A n \in 1..Len(ancestors), i \in Viewer!Particles :
          Len(ancestors[n][i]) = n /\ ancestors[n][i][n] = i)'
  BY <1>2 DEF ViewerInv
<1>14. (gui => \A n \in 2..Len(ancestors) : PastKept(n))'
  <2> SUFFICES ASSUME gui PROVE (\A n \in 2..Len(ancestors) : PastKept(n))'
    BY <1>2
  <2>1. EventsKnown' = EventsKnown \/ event.kind # "resample"
    BY <1>2, <1>5, <1>6, <1>7 DEF EventsKnown
  <2>2. \A n : Drawings(n)' = Drawings(n)
    BY <1>8, <2>1 DEF Drawings
  <2>3. \A n : PastKept(n)' <=> PastKept(n)
    BY <1>2, <2>2 DEF PastKept
  <2> QED
    BY <1>2, <2>3 DEF ViewerInv
<1> QED
  BY <1>9, <1>10, <1>11, <1>12, <1>13, <1>14, Zenon DEF ViewerInv

\* addEvent: a new event is behind the others, and what goes to make room is remembered as
\* lost; the new past of each particle is that of its ancestor.
LEMMA AddKeepsViewer ==
    ASSUME ViewerInv, NEW e \in ViewerEvents, Viewer!AddEvent(e),
           e.kind = "resample" => e.indexes \in [Viewer!Particles -> Viewer!Particles],
           step' = "finished" => e.kind = "done",
           UNCHANGED <<gui, events, history, done>>
    PROVE  ViewerInv'
<1>1. PICK m, n : m = Len(eventBuffer) /\ n = Len(ancestors)
  OBVIOUS
<1>2. PICK new : new = [e EXCEPT !.number = n + 1]
  OBVIOUS
<1>3. PICK kept : /\ \E d \in 0..m : kept = SubSeq(eventBuffer, d + 1, m)
                  /\ eventBuffer' = Append(kept, new)
                  /\ deleted' = deleted \cup (ElementsOf(eventBuffer) \ ElementsOf(kept))
  <2>1. m \in Nat /\ eventBuffer \in Seq(ViewerEvents)
    BY <1>1 DEF ViewerInv, EventsTyped
  <2> DEFINE over == m - Viewer!eventBufferLength
             kept == IF over > 0 THEN SubSeq(eventBuffer, over + 1, m) ELSE eventBuffer
  <2>2. over \in Int /\ over <= m
    BY <2>1, SizesAssumption DEF Viewer!eventBufferLength
  <2>3. \E d \in 0..m : kept = SubSeq(eventBuffer, d + 1, m)
    <3> HIDE DEF over
    <3>1. CASE over > 0
      <4>1. over \in 0..m /\ kept = SubSeq(eventBuffer, over + 1, m)
        BY <2>1, <2>2, <3>1
      <4> QED
        BY <4>1
    <3>2. CASE ~(over > 0)
      <4>1. eventBuffer = SubSeq(eventBuffer, 0 + 1, m)
        BY <1>1, <2>1
      <4> QED
        BY <2>1, <3>2, <4>1
    <3> QED
      BY <3>1, <3>2
  <2>4. /\ eventBuffer' = Append(kept, new)
        /\ deleted' = deleted \cup (Viewer!ToSet(eventBuffer) \ Viewer!ToSet(kept))
    BY <1>1, <1>2 DEF Viewer!AddEvent
  <2> HIDE DEF kept
  <2>5. kept \in Seq(ViewerEvents)
    <3>1. PICK d \in 0..m : kept = SubSeq(eventBuffer, d + 1, m)
      BY <2>3
    <3> HIDE DEF ViewerEvents
    <3> QED
      BY <1>1, <2>1, <3>1
  <2>6. Viewer!ToSet(eventBuffer) = ElementsOf(eventBuffer) /\ Viewer!ToSet(kept) = ElementsOf(kept)
    BY <2>1, <2>5 DEF Viewer!ToSet, ElementsOf
  <2> QED
    BY <2>3, <2>4, <2>6
<1>4. PICK d \in 0..m : kept = SubSeq(eventBuffer, d + 1, m)
  BY <1>3
<1>5. PICK l : l = m - d
  OBVIOUS
<1>6. /\ m \in Nat /\ n \in Nat /\ l \in 0..m
      /\ kept \in Seq(ViewerEvents) /\ Len(kept) = l
      /\ \A k \in 1..l : kept[k] = eventBuffer[k + d] /\ k + d \in 1..m
      /\ new \in ViewerEvents /\ new.kind = e.kind /\ new.indexes = e.indexes
      /\ new.number = n + 1
      /\ eventBuffer' \in Seq(ViewerEvents) /\ Len(eventBuffer') = l + 1
      /\ \A k \in 1..l : eventBuffer'[k] = eventBuffer[k + d]
      /\ eventBuffer'[l + 1] = new
  <2>1. m \in Nat /\ n \in Nat /\ l \in 0..m /\ eventBuffer \in Seq(ViewerEvents)
    BY <1>1, <1>5 DEF ViewerInv, EventsTyped
  <2>2. /\ kept \in Seq(ViewerEvents) /\ Len(kept) = l
        /\ \A k \in 1..l : kept[k] = eventBuffer[k + d] /\ k + d \in 1..m
    <3> HIDE DEF ViewerEvents
    <3> QED
      BY <1>1, <1>4, <1>5, <2>1
  <2>3. /\ new \in ViewerEvents /\ new.kind = e.kind /\ new.indexes = e.indexes
        /\ new.number = n + 1
    BY <1>2, <2>1 DEF ViewerEvents
  <2>4. /\ eventBuffer' \in Seq(ViewerEvents) /\ Len(eventBuffer') = l + 1
        /\ \A k \in 1..l : eventBuffer'[k] = kept[k]
        /\ eventBuffer'[l + 1] = new
    BY <1>3, <2>1, <2>2, <2>3
  <2> QED
    BY <2>1, <2>2, <2>3, <2>4
<1>7. ElementsOf(kept) \subseteq ElementsOf(eventBuffer)
      /\ ElementsOf(eventBuffer') = ElementsOf(kept) \cup {new}
  <2>1. \A k \in 1..l + 1 : (k \in 1..l /\ eventBuffer'[k] = kept[k])
                             \/ (k = l + 1 /\ eventBuffer'[k] = new)
    BY <1>6
  <2>2. l + 1 \in 1..l + 1 /\ \A k \in 1..l : k \in 1..l + 1 /\ eventBuffer'[k] = kept[k]
    BY <1>6
  <2>3. \A x \in ElementsOf(kept) : x \in ElementsOf(eventBuffer)
    BY <1>1, <1>6 DEF ElementsOf
  <2>4. \A x \in ElementsOf(eventBuffer') : x \in ElementsOf(kept) \/ x = new
    <3> SUFFICES ASSUME NEW k \in 1..l + 1
                 PROVE  eventBuffer'[k] \in ElementsOf(kept) \/ eventBuffer'[k] = new
      BY <1>6 DEF ElementsOf
    <3> QED
      BY <1>6, <2>1 DEF ElementsOf
  <2>5. \A x \in ElementsOf(kept) : x \in ElementsOf(eventBuffer')
    BY <1>6, <2>2 DEF ElementsOf
  <2>6. new \in ElementsOf(eventBuffer')
    BY <1>6, <2>2 DEF ElementsOf
  <2> QED
    BY <2>3, <2>4, <2>5, <2>6
<1>8. EventsKnown' = EventsKnown \cup {new}
  BY <1>3, <1>7 DEF EventsKnown
<1>9. PICK past : past = Viewer!Traced(e)
  OBVIOUS
<1>10. /\ past \in Indexes
       /\ ancestors' \in Seq(Indexes) /\ Len(ancestors') = n + 1
       /\ \A k \in 1..n : ancestors'[k] = ancestors[k]
       /\ ancestors'[n + 1] = past
       /\ \A i \in Viewer!Particles : Len(past[i]) = n + 1 /\ past[i][n + 1] = i
       /\ \A i \in Viewer!Particles, k \in 1..n :
            past[i][k] = ancestors[n][IF e.kind = "resample" THEN e.indexes[i] ELSE i][k]
  <2>1. /\ ancestors \in Seq(Indexes) /\ n = Len(ancestors) /\ n \in Nat
        /\ n # 0 => ancestors[n] \in Indexes /\ n \in 1..n
    BY <1>1 DEF ViewerInv, EventsTyped
  <2>2. ASSUME NEW i \in Viewer!Particles
        PROVE  /\ past[i] \in Seq(Viewer!Particles)
               /\ Len(past[i]) = n + 1 /\ past[i][n + 1] = i
               /\ \A k \in 1..n :
                    past[i][k] = ancestors[n][IF e.kind = "resample" THEN e.indexes[i] ELSE i][k]
    <3>1. PICK before : before = IF e.kind = "resample" THEN e.indexes[i] ELSE i
      OBVIOUS
    <3>2. before \in Viewer!Particles
      BY <3>1
    <3>3. PICK own : own = IF ancestors = <<>> THEN <<>> ELSE ancestors[n][before]
      OBVIOUS
    <3>4. own \in Seq(Viewer!Particles) /\ Len(own) = n
      <4>1. CASE n = 0
        <5>1. own = <<>>
          <6>1. ancestors = <<>>
            BY <2>1, <4>1, EmptySeq
          <6> QED
            BY <3>3, <6>1
        <5>2. <<>> \in Seq(Viewer!Particles) /\ Len(<<>>) = 0
          OBVIOUS
        <5> QED
          BY <4>1, <5>1, <5>2
      <4>2. CASE n # 0
        <5>1. own = ancestors[n][before]
          BY <2>1, <3>3, <4>2
        <5> QED
          BY <1>1, <2>1, <3>2, <4>2, <5>1 DEF Indexes, ViewerInv
      <4> QED
        BY <4>1, <4>2
    <3>5. past[i] = Append(own, i)
      <4>1. Viewer!Last(ancestors) = ancestors[n]
        BY <2>1 DEF Viewer!Last
      <4> QED
        BY <1>9, <3>1, <3>3, <4>1 DEF Viewer!Traced
    <3>6. \A k \in 1..n : own[k] = ancestors[n][before][k]
      BY <2>1, <3>3
    <3> QED
      BY <2>1, <3>1, <3>4, <3>5, <3>6
  <2>3. past \in Indexes
    <3>1. past = [i \in Viewer!Particles |-> past[i]]
      BY <1>9 DEF Viewer!Traced
    <3> QED
      BY <2>2, <3>1 DEF Indexes
  <2>4. ancestors' = Append(ancestors, past)
    BY <1>9 DEF Viewer!AddEvent
  <2> HIDE DEF Indexes
  <2>5. /\ ancestors' \in Seq(Indexes) /\ Len(ancestors') = n + 1
        /\ \A k \in 1..n : ancestors'[k] = ancestors[k]
        /\ ancestors'[n + 1] = past
    BY <2>1, <2>3, <2>4
  <2> QED
    BY <2>2, <2>3, <2>5
<1>11. EventsTyped'
  <2>1. deleted' \subseteq ViewerEvents
    <3>1. ElementsOf(eventBuffer) \subseteq ViewerEvents
      BY DEF ElementsOf, ViewerInv, EventsTyped
    <3> QED
      BY <1>3, <3>1 DEF ViewerInv, EventsTyped
  <2> QED
    BY <1>6, <1>10, <2>1 DEF ViewerInv, EventsTyped
<1>12. \A x \in EventsKnown : x.number \in 1..n
  BY <1>1 DEF ViewerInv, EventsNumbered
<1>13. EventsNumbered'
  <2>1. \A x \in EventsKnown' : x.number \in 1..Len(ancestors')
    BY <1>6, <1>8, <1>10, <1>12
  <2>2. \A x, y \in EventsKnown' : x.number = y.number => x = y
    <3>1. \A x \in EventsKnown : x.number # n + 1
      BY <1>6, <1>12
    <3>2. \A x, y \in EventsKnown : x.number = y.number => x = y
      BY DEF ViewerInv, EventsNumbered
    <3> QED
      BY <1>6, <1>8, <3>1, <3>2
  <2>3. \A x \in EventsKnown' : x.kind = "resample" =>
          x.indexes \in [Viewer!Particles -> Viewer!Particles]
    BY <1>6, <1>8 DEF ViewerInv, EventsNumbered
  <2>4. \A j \in 1..Len(history') : history'[j].kind \in {"move", "resample"}
    BY DEF ViewerInv, EventsNumbered
  <2> QED
    BY <2>1, <2>2, <2>3, <2>4, Zenon DEF EventsNumbered
<1>14. EventsOrdered'
  <2>1. /\ \A k \in 1..Len(history) : history[k].number < n + 1
        /\ \A k \in 1..Len(events) : events[k].number < n + 1
        /\ \A k \in 1..m : eventBuffer[k].number < n + 1
    <3>1. \A x \in EventsKnown : x.number < n + 1
      BY <1>6, <1>12
    <3> QED
      BY <1>1, <3>1 DEF EventsKnown, ElementsOf
  <2>2. \A k \in 1..l + 1 : (k \in 1..l /\ eventBuffer'[k] = eventBuffer[k + d] /\ k + d \in 1..m)
                             \/ (k = l + 1 /\ eventBuffer'[k] = new)
    BY <1>6
  <2>3. ByNumber(eventBuffer')
    <3> SUFFICES ASSUME NEW j \in 1..l + 1, NEW k \in 1..l + 1, j < k
                 PROVE  eventBuffer'[j].number < eventBuffer'[k].number
      BY <1>6 DEF ByNumber
    <3>1. j \in 1..l /\ eventBuffer'[j] = eventBuffer[j + d] /\ j + d \in 1..m
      BY <1>6, <2>2
    <3>2. CASE k \in 1..l
      <4>1. eventBuffer'[k] = eventBuffer[k + d] /\ k + d \in 1..m /\ j + d < k + d
        BY <1>6, <3>2
      <4> QED
        BY <1>1, <3>1, <4>1 DEF ViewerInv, EventsOrdered, ByNumber
    <3>3. CASE k = l + 1
      BY <1>6, <2>1, <3>1, <3>3
    <3> QED
      BY <2>2, <3>2, <3>3
  <2>4. ASSUME NEW s, \A k \in 1..Len(s) : s[k].number < n + 1, Before(s, eventBuffer)
        PROVE  Before(s, eventBuffer')
    <3> SUFFICES ASSUME NEW j \in 1..Len(s), NEW k \in 1..l + 1
                 PROVE  s[j].number < eventBuffer'[k].number
      BY <1>6 DEF Before
    <3>1. CASE eventBuffer'[k] = new
      BY <1>6, <2>4, <3>1
    <3>2. CASE eventBuffer'[k] = eventBuffer[k + d] /\ k + d \in 1..m
      BY <1>1, <2>4, <3>2 DEF Before
    <3> QED
      BY <2>2, <3>1, <3>2
  <2>5. /\ ByNumber(history) /\ ByNumber(events) /\ Before(history, events)
        /\ Before(history, eventBuffer) /\ Before(events, eventBuffer)
    BY DEF ViewerInv, EventsOrdered
  <2>6. Before(history, eventBuffer') /\ Before(events, eventBuffer')
    BY <2>1, <2>4, <2>5
  <2>7. history' = history /\ events' = events
    OBVIOUS
  <2> QED
    BY <2>3, <2>5, <2>6, <2>7 DEF EventsOrdered, ByNumber, Before
<1>15. (\A k \in 1..Len(ancestors), i \in Viewer!Particles :
          Len(ancestors[k][i]) = k /\ ancestors[k][i][k] = i)'
  <2>1. \A k \in 1..n + 1 : k \in 1..n \/ k = n + 1
    BY <1>6
  <2> QED
    BY <1>1, <1>10, <2>1 DEF ViewerInv
<1>16. (gui => \A k \in 2..Len(ancestors) : PastKept(k))'
  <2> SUFFICES ASSUME gui, NEW k \in 2..n + 1 PROVE PastKept(k)'
    BY <1>10
  <2>1. CASE k \in 2..n
    <3>1. Drawings(k)' = Drawings(k)
      <4>1. new.number # k
        BY <1>6, <2>1
      <4> QED
        BY <1>8, <4>1 DEF Drawings
    <3>2. ancestors'[k] = ancestors[k] /\ ancestors'[k - 1] = ancestors[k - 1]
      BY <1>6, <1>10, <2>1
    <3>3. PastKept(k)
      BY <1>1, <2>1 DEF ViewerInv
    <3> QED
      BY <3>1, <3>2, <3>3 DEF PastKept
  <2>2. CASE k = n + 1
    <3>1. Drawings(k)' = IF e.kind = "resample" THEN {new} ELSE {}
      <4>1. \A x \in EventsKnown : x.number # k
        BY <1>6, <1>12, <2>2
      <4> QED
        BY <1>6, <1>8, <2>2, <4>1 DEF Drawings
    <3>2. n \in 1..n /\ k - 1 = n
      BY <1>6, <2>2
    <3>3. ancestors'[k] = past /\ ancestors'[k - 1] = ancestors[n]
      BY <1>10, <2>2, <3>2
    <3> QED
      BY <1>6, <1>10, <3>1, <3>2, <3>3 DEF PastKept
  <2> QED
    BY <1>6, <2>1, <2>2
<1>17. (step = "finished" =>
          done \/ \E x \in ElementsOf(events) \cup ElementsOf(eventBuffer) : x.kind = "done")'
  BY <1>6, <1>7
<1> QED
  BY <1>11, <1>13, <1>14, <1>15, <1>16, <1>17, Zenon DEF ViewerInv

LEMMA GreatestOf ==
    ASSUME NEW n \in Nat, NEW S \in SUBSET (0..n), S # {}
    PROVE  \E m \in S : \A k \in S : k <= m
<1> DEFINE Bounds == {b \in Nat : \A k \in S : k <= b}
<1>1. PICK b \in Bounds : \A m \in Bounds : b <= m
  <2>1. n \in Bounds /\ Bounds \in SUBSET Nat
    OBVIOUS
  <2> QED
    BY <2>1, LeastOf
<1>2. b \in S
  <2> SUFFICES ASSUME b \notin S PROVE FALSE
    OBVIOUS
  <2>1. PICK m \in S : TRUE
    OBVIOUS
  <2>2. b \in Nat /\ m \in Nat /\ m < b
    BY <1>1
  <2>3. \A k \in S : k <= b - 1
    BY <1>1
  <2>4. b - 1 \in Bounds
    BY <2>2, <2>3
  <2> QED
    BY <1>1, <2>2, <2>4
<1> QED
  BY <1>1, <1>2

\* The resamplings that were lost are not younger than the last one.
LEMMA LastIsLast ==
    ASSUME ViewerInv
    PROVE  /\ Viewer!LastDropped \in Nat
           /\ \A e \in deleted : e.kind = "resample" => e.number <= Viewer!LastDropped
<1> DEFINE numbers == {e.number : e \in {x \in deleted : x.kind = "resample"}}
<1>1. PICK n \in Nat : n = Len(ancestors)
  BY DEF ViewerInv, EventsTyped
<1>2. \A m \in numbers : m \in Nat /\ m <= n
  <2>1. \A e \in deleted : e.number \in 1..n
    BY <1>1 DEF ViewerInv, EventsNumbered, EventsKnown
  <2> QED
    BY <2>1
<1>3. Viewer!LastDropped = IF numbers = {} THEN 0
                           ELSE CHOOSE m \in numbers : \A k \in numbers : k <= m
  BY DEF Viewer!LastDropped
<1>4. \A e \in deleted : e.kind = "resample" => e.number \in numbers
  OBVIOUS
<1> HIDE DEF numbers
<1>5. CASE numbers = {}
  BY <1>3, <1>4, <1>5
<1>6. CASE numbers # {}
  <2>1. \E m \in numbers : \A k \in numbers : k <= m
    <3>1. numbers \in SUBSET (0..n)
      BY <1>1, <1>2
    <3> QED
      BY <1>6, <3>1, GreatestOf
  <2>2. PICK last : last = CHOOSE m \in numbers : \A k \in numbers : k <= m
    OBVIOUS
  <2>3. last \in numbers /\ \A k \in numbers : k <= last
    BY <2>1, <2>2, Zenon
  <2>4. Viewer!LastDropped = last
    BY <1>3, <1>6, <2>2
  <2> QED
    BY <1>2, <1>4, <2>3, <2>4
<1> QED
  BY <1>5, <1>6

\* Where nothing is drawn, the past is the same.
LEMMA PastLasts ==
    ASSUME ViewerInv, gui, NEW n \in 1..Len(ancestors), NEW last \in n..Len(ancestors),
           \A k \in n + 1..last : Drawings(k) = {}
    PROVE  \A i \in Viewer!Particles, k \in 1..n : ancestors[last][i][k] = ancestors[n][i][k]
<1> DEFINE Same(m) == \A i \in Viewer!Particles, k \in 1..n :
                        ancestors[m][i][k] = ancestors[n][i][k]
           Bad == {m \in n..last : ~Same(m)}
<1>1. Len(ancestors) \in Nat
  BY DEF ViewerInv, EventsTyped
<1> SUFFICES ASSUME Bad # {} PROVE FALSE
  BY <1>1
<1>2. Bad \in SUBSET Nat
  BY <1>1
<1>3. PICK m \in Bad : \A j \in Bad : m <= j
  BY <1>2, LeastOf
<1>4. m \in n..last /\ ~Same(m)
  OBVIOUS
<1>5. m # n
  BY <1>4
<1>6. m \in n + 1..last /\ m - 1 \in n..last /\ m \in 2..Len(ancestors)
      /\ \A k \in 1..n : k \in 1..m - 1
  BY <1>1, <1>4, <1>5
<1>7. Same(m - 1)
  <2> HIDE DEF Same
  <2> QED
    BY <1>2, <1>3, <1>6
<1>8. \A i \in Viewer!Particles, k \in 1..n : ancestors[m][i][k] = ancestors[m - 1][i][k]
  BY <1>6 DEF ViewerInv, PastKept
<1> QED
  BY <1>4, <1>7, <1>8

DrawnPaths == [index : Viewer!Particles, poses : Seq(Nat \X Viewer!Particles)]

PathAt(drawn, kept, i, n) ==
    IF n = 0 THEN [index |-> i, poses |-> <<>>]
    ELSE Viewer!WithEvent(drawn[n - 1], kept[Len(kept) + 1 - n])

IsDrawn(drawn, kept, i, size) ==
    drawn = [n \in 0..size |-> PathAt(drawn, kept, i, n)]

\* One more event is looked at.
LEMMA DrawnExists ==
    ASSUME NEW kept, NEW i, NEW size \in Nat
    PROVE  \E drawn : IsDrawn(drawn, kept, i, size)
<1> DEFINE UpTo(drawn, n) == drawn = [k \in 0..n |-> PathAt(drawn, kept, i, k)]
           Bad == {n \in Nat : ~ \E drawn : UpTo(drawn, n)}
<1>1. 0 \notin Bad
  <2> DEFINE first == [k \in 0..0 |-> [index |-> i, poses |-> <<>>]]
  <2>1. \A k \in 0..0 : k = 0
    OBVIOUS
  <2>2. first = [k \in 0..0 |-> PathAt(first, kept, i, k)]
    BY <2>1 DEF PathAt
  <2> HIDE DEF first
  <2> QED
    BY <2>2
<1>2. ASSUME NEW n \in Nat, n \notin Bad
      PROVE  n + 1 \notin Bad
  <2>1. PICK drawn : UpTo(drawn, n)
    BY <1>2
  <2> DEFINE more == [k \in 0..n + 1 |-> IF k = n + 1 THEN PathAt(drawn, kept, i, k)
                                         ELSE drawn[k]]
  <2>2. \A k \in 0..n + 1 : more[k] = PathAt(more, kept, i, k)
    <3> SUFFICES ASSUME NEW k \in 0..n + 1
                 PROVE  more[k] = PathAt(more, kept, i, k)
      OBVIOUS
    <3>1. more[k] = PathAt(drawn, kept, i, k)
      <4>1. CASE k = n + 1
        BY <4>1
      <4>2. CASE k # n + 1
        <5>1. k \in 0..n
          BY <4>2
        <5>2. drawn[k] = PathAt(drawn, kept, i, k)
          BY <2>1, <5>1, Zenon
        <5> QED
          BY <4>2, <5>2
      <4> QED
        BY <4>1, <4>2
    <3>2. k = 0 \/ (k - 1 \in 0..n /\ k - 1 \in 0..n + 1 /\ k - 1 # n + 1)
      OBVIOUS
    <3>3. k = 0 \/ more[k - 1] = drawn[k - 1]
      BY <3>2
    <3> HIDE DEF more
    <3> QED
      BY <3>1, <3>3 DEF PathAt
  <2>3. more = [k \in 0..n + 1 |-> more[k]]
    OBVIOUS
  <2> HIDE DEF more
  <2>4. UpTo(more, n + 1)
    BY <2>2, <2>3
  <2> QED
    BY <2>4
<1> SUFFICES ASSUME Bad # {} PROVE FALSE
  BY DEF IsDrawn
<1>3. PICK n \in Bad : \A j \in Bad : n <= j
  <2>1. Bad \in SUBSET Nat
    OBVIOUS
  <2> QED
    BY <2>1, LeastOf
<1>4. n \in Nat /\ n # 0
  BY <1>1
<1> HIDE DEF Bad
<1>5. n - 1 \in Nat /\ n - 1 \notin Bad /\ (n - 1) + 1 = n
  BY <1>3, <1>4
<1> QED
  BY <1>2, <1>3, <1>5

\* drawFromMemory goes back over the history: what it has drawn at each event of it.
LEMMA DrawnBack ==
    ASSUME NEW size \in Nat, Len(history) = size, NEW i
    PROVE  \E path : /\ path[size + 1] = [index |-> i, poses |-> <<>>]
                     /\ \A p \in 1..size : path[p] = Viewer!WithEvent(path[p + 1], history[p])
                     /\ Viewer!DrawnPath(i) = path[1].poses
<1> DEFINE drawn == CHOOSE f : IsDrawn(f, history, i, size)
           path == [p \in 1..size + 1 |-> drawn[size + 1 - p]]
<1>1. Viewer!DrawnPath(i) = drawn[size].poses
  BY DEF Viewer!DrawnPath, PathAt, IsDrawn
<1>2. IsDrawn(drawn, history, i, size)
  <2>1. \E f : IsDrawn(f, history, i, size)
    BY DrawnExists
  <2> QED
    BY <2>1, Zenon
<1>3. \A n \in 0..size : drawn[n] = PathAt(drawn, history, i, n)
  BY <1>2, Zenon DEF IsDrawn
<1> HIDE DEF drawn
<1>4. path[size + 1] = [index |-> i, poses |-> <<>>]
  <2>1. size + 1 \in 1..size + 1 /\ size + 1 - (size + 1) = 0 /\ 0 \in 0..size
    OBVIOUS
  <2> QED
    BY <1>3, <2>1 DEF PathAt
<1>5. ASSUME NEW p \in 1..size
      PROVE  path[p] = Viewer!WithEvent(path[p + 1], history[p])
  <2>1. PICK n : n = size + 1 - p
    OBVIOUS
  <2>2. /\ n \in 1..size /\ n # 0 /\ n - 1 = size + 1 - (p + 1) /\ size + 1 - n = p
        /\ p \in 1..size + 1 /\ p + 1 \in 1..size + 1
    BY <2>1
  <2>3. path[p] = drawn[n] /\ path[p + 1] = drawn[n - 1]
    BY <2>1, <2>2
  <2>4. drawn[n] = PathAt(drawn, history, i, n)
    BY <1>3, <2>2
  <2> HIDE DEF path
  <2> QED
    BY <2>2, <2>3, <2>4 DEF PathAt
<1>6. Viewer!DrawnPath(i) = path[1].poses
  <2>1. 1 \in 1..size + 1 /\ size + 1 - 1 = size
    OBVIOUS
  <2> QED
    BY <1>1, <2>1
<1> HIDE DEF path
<1> QED
  BY <1>4, <1>5, <1>6

LEMMA ViewerCardinality == \A S : Viewer!Cardinality(S) = Cardinality(S)
BY DEF Viewer!Cardinality, Cardinality

MovesCount(p) == Cardinality(Viewer!MovesFrom(p))

LEMMA MovesCounted ==
    ASSUME NEW size \in Nat, Len(history) = size
    PROVE  /\ MovesCount(size + 1) = 0
           /\ \A p \in 1..size + 1 : MovesCount(p) \in Nat
           /\ \A p \in 1..size :
                MovesCount(p) = IF Viewer!IsMove(history[p]) THEN MovesCount(p + 1) + 1
                                ELSE MovesCount(p + 1)
           /\ \A p \in 1..size + 1, q \in 1..size :
                p <= q /\ Viewer!IsMove(history[q]) => MovesCount(q) \in 1..MovesCount(p)
<1>1. \A p \in 1..size + 1 : Viewer!MovesFrom(p) = {q \in p..size : Viewer!IsMove(history[q])}
  BY DEF Viewer!MovesFrom
<1>2. \A p \in 1..size + 1 : IsFiniteSet(Viewer!MovesFrom(p)) /\ MovesCount(p) \in Nat
  <2> SUFFICES ASSUME NEW p \in 1..size + 1
               PROVE  IsFiniteSet(Viewer!MovesFrom(p)) /\ MovesCount(p) \in Nat
    OBVIOUS
  <2>1. IsFiniteSet(p..size) /\ Viewer!MovesFrom(p) \subseteq p..size
    BY <1>1, FS_Interval
  <2> QED
    BY <2>1, FS_Subset, FS_CardinalityType DEF MovesCount
<1>3. MovesCount(size + 1) = 0
  <2>1. Viewer!MovesFrom(size + 1) = {}
    BY <1>1
  <2> QED
    BY <2>1, FS_EmptySet DEF MovesCount
<1>4. ASSUME NEW p \in 1..size
      PROVE  MovesCount(p) = IF Viewer!IsMove(history[p]) THEN MovesCount(p + 1) + 1
                             ELSE MovesCount(p + 1)
  <2>1. p \in 1..size + 1 /\ p + 1 \in 1..size + 1
    OBVIOUS
  <2>2. CASE Viewer!IsMove(history[p])
    <3>1. /\ Viewer!MovesFrom(p) = Viewer!MovesFrom(p + 1) \cup {p}
          /\ p \notin Viewer!MovesFrom(p + 1)
      BY <1>1, <2>1, <2>2
    <3> QED
      BY <1>2, <2>1, <2>2, <3>1, FS_AddElement DEF MovesCount
  <2>3. CASE ~Viewer!IsMove(history[p])
    <3>1. \A q : q \in p..size /\ q # p <=> q \in p + 1..size
      OBVIOUS
    <3>2. \A q : q \in Viewer!MovesFrom(p) <=> q \in Viewer!MovesFrom(p + 1)
      <4>1. \A q : q \in Viewer!MovesFrom(p) <=> q \in p..size /\ Viewer!IsMove(history[q])
        BY <1>1, <2>1
      <4>2. \A q : q \in Viewer!MovesFrom(p + 1)
                     <=> q \in p + 1..size /\ Viewer!IsMove(history[q])
        BY <1>1, <2>1
      <4> QED
        BY <2>3, <3>1, <4>1, <4>2, Zenon
    <3>3. Viewer!MovesFrom(p) = Viewer!MovesFrom(p + 1)
      BY <3>2
    <3> QED
      BY <2>3, <3>3 DEF MovesCount
  <2> QED
    BY <2>2, <2>3
<1>5. ASSUME NEW p \in 1..size + 1, NEW q \in 1..size, p <= q, Viewer!IsMove(history[q])
      PROVE  MovesCount(q) \in 1..MovesCount(p)
  <2>1. q \in 1..size + 1 /\ q + 1 \in 1..size + 1
    OBVIOUS
  <2>2. MovesCount(q) = MovesCount(q + 1) + 1
    BY <1>4, <1>5
  <2>3. Viewer!MovesFrom(q) \subseteq Viewer!MovesFrom(p)
    BY <1>1, <1>5, <2>1
  <2>4. MovesCount(q) <= MovesCount(p)
    BY <1>2, <2>3, FS_Subset DEF MovesCount
  <2> QED
    BY <1>2, <2>1, <2>2, <2>4
<1> QED
  BY <1>2, <1>3, <1>4, <1>5

\* What an event kept makes of a path.
LEMMA PathMoved ==
    ASSUME NEW event \in ViewerEvents, NEW path \in DrawnPaths, event.kind = "move"
    PROVE  /\ Viewer!WithEvent(path, event) \in DrawnPaths
           /\ Viewer!WithEvent(path, event).index = path.index
           /\ Viewer!WithEvent(path, event).poses
                = Append(path.poses, <<event.number, path.index>>)
<1>1. /\ path.index \in Viewer!Particles /\ path.poses \in Seq(Nat \X Viewer!Particles)
      /\ event.number \in Nat
  BY DEF DrawnPaths, ViewerEvents
<1>2. PICK longer : longer = Append(path.poses, <<event.number, path.index>>)
  OBVIOUS
<1>3. longer \in Seq(Nat \X Viewer!Particles)
  <2>1. <<event.number, path.index>> \in Nat \X Viewer!Particles
    BY <1>1
  <2> QED
    BY <1>1, <1>2, <2>1
<1>4. Viewer!WithEvent(path, event) = [path EXCEPT !.poses = longer]
  BY <1>2 DEF Viewer!WithEvent, Viewer!IsMove
<1> QED
  BY <1>1, <1>2, <1>3, <1>4 DEF DrawnPaths

LEMMA PathNotBegun ==
    ASSUME NEW event, NEW path, event.kind = "resample", path.poses = <<>>
    PROVE  Viewer!WithEvent(path, event) = path
BY DEF Viewer!WithEvent, Viewer!IsMove

LEMMA PathRedrawn ==
    ASSUME NEW event, NEW path \in DrawnPaths, event.kind = "resample", path.poses # <<>>,
           event.indexes \in [Viewer!Particles -> Viewer!Particles]
    PROVE  /\ Viewer!WithEvent(path, event) \in DrawnPaths
           /\ Viewer!WithEvent(path, event).index = event.indexes[path.index]
           /\ Viewer!WithEvent(path, event).poses = path.poses
<1>1. path.index \in Viewer!Particles /\ path.poses \in Seq(Nat \X Viewer!Particles)
  BY DEF DrawnPaths
<1>2. PICK drawn : drawn = event.indexes[path.index]
  OBVIOUS
<1>3. drawn \in Viewer!Particles
  BY <1>1, <1>2
<1>4. Viewer!WithEvent(path, event) = [path EXCEPT !.index = drawn]
  BY <1>2 DEF Viewer!WithEvent, Viewer!IsMove
<1> QED
  BY <1>1, <1>2, <1>3, <1>4 DEF DrawnPaths

\* The path drawn from the p-th event of the history on, w being the newest move of it.
PastDrawn(path, i, w, p) ==
    \A k \in 1..history[p].number - 1 :
      ancestors[history[w].number][i][k] = ancestors[history[p].number - 1][path[p].index][k]

PosesDrawn(path, i, w, p) ==
    \A q \in p..w :
      Viewer!IsMove(history[q]) /\ history[q].number > Viewer!LastDropped =>
        path[p].poses[MovesCount(q)]
          = <<history[q].number, ancestors[history[w].number][i][history[q].number]>>

DrawnUpTo(path, i, w, p) ==
    /\ path[p] \in DrawnPaths
    /\ Len(path[p].poses) = MovesCount(p)
    /\ p > w => path[p] = [index |-> i, poses |-> <<>>]
    /\ p <= w /\ history[p].number > Viewer!LastDropped => PastDrawn(path, i, w, p)
    /\ PosesDrawn(path, i, w, p)

\* Between two events of the history nothing drew particles, unless it was lost.
LEMMA NothingBetween ==
    ASSUME ViewerInv, NEW size \in Nat, Len(history) = size,
           NEW p \in 1..size, p + 1 \in 1..size, history[p].number > Viewer!LastDropped,
           NEW k \in history[p].number + 1..history[p + 1].number - 1
    PROVE  Drawings(k) = {}
<1>1. \A q \in 1..size : history[q].number \in Nat
  BY DEF ViewerInv, EventsNumbered, EventsKnown, ElementsOf
<1>2. k \in Int /\ history[p].number < k /\ k < history[p + 1].number
  BY <1>1
<1> SUFFICES ASSUME NEW e \in Drawings(k) PROVE FALSE
  OBVIOUS
<1>3. e \in EventsKnown /\ e.kind = "resample" /\ e.number = k
  BY DEF Drawings
<1>4. CASE e \in ElementsOf(history)
  <2>1. PICK q \in 1..size : e = history[q]
    BY <1>4 DEF ElementsOf
  <2>2. \A a, b \in 1..size : a < b => history[a].number < history[b].number
    BY DEF ViewerInv, EventsOrdered, ByNumber
  <2>3. q < p \/ q = p \/ q = p + 1 \/ p + 1 < q
    OBVIOUS
  <2> QED
    BY <1>1, <1>2, <1>3, <2>1, <2>2, <2>3
<1>5. CASE e \in ElementsOf(events)
  BY <1>1, <1>2, <1>3, <1>5 DEF ViewerInv, EventsOrdered, Before, ElementsOf
<1>6. CASE e \in ElementsOf(eventBuffer)
  BY <1>1, <1>2, <1>3, <1>6 DEF ViewerInv, EventsOrdered, Before, ElementsOf
<1>7. CASE e \in deleted
  BY <1>1, <1>2, <1>3, <1>7, LastIsLast
<1> QED
  BY <1>3, <1>4, <1>5, <1>6, <1>7 DEF EventsKnown

\* At the newest move a path begins with the particle's own pose.
LEMMA DrawnFirst ==
    ASSUME ViewerInv, gui, NEW size \in Nat, Len(history) = size, NEW i \in Viewer!Particles,
           NEW path, NEW w \in 1..size, Viewer!IsMove(history[w]),
           path[w] = Viewer!WithEvent(path[w + 1], history[w]),
           DrawnUpTo(path, i, w, w + 1)
    PROVE  DrawnUpTo(path, i, w, w)
<1>1. PICK n : n = history[w].number
  OBVIOUS
<1>2. /\ history[w] \in ViewerEvents /\ history[w] \in EventsKnown
      /\ history[w].kind = "move" /\ n \in 1..Len(ancestors) /\ Len(ancestors) \in Nat
  <2>1. history[w] \in ViewerEvents /\ history[w] \in EventsKnown /\ Len(ancestors) \in Nat
    BY DEF ViewerInv, EventsTyped, EventsKnown, ElementsOf
  <2> QED
    BY <1>1, <2>1 DEF ViewerInv, EventsNumbered, Viewer!IsMove
<1>3. Drawings(n) = {}
  BY <1>1, <1>2 DEF Drawings, ViewerInv, EventsNumbered
<1>4. path[w + 1] \in DrawnPaths /\ path[w + 1].index = i /\ path[w + 1].poses = <<>>
  BY DEF DrawnUpTo
<1>5. /\ path[w] \in DrawnPaths /\ path[w].index = i
      /\ path[w].poses = Append(<<>>, <<n, i>>)
  BY <1>1, <1>2, <1>4, PathMoved
<1>6. Len(path[w].poses) = 1 /\ path[w].poses[1] = <<n, i>>
  BY <1>5
<1>7. MovesCount(w) = 1
  <2>1. MovesCount(w + 1) = 0
    BY <1>4 DEF DrawnUpTo
  <2> QED
    BY <2>1, MovesCounted
<1>8. \A k \in 1..n - 1 : ancestors[n][i][k] = ancestors[n - 1][i][k]
  <2> SUFFICES ASSUME NEW k \in 1..n - 1
               PROVE  ancestors[n][i][k] = ancestors[n - 1][i][k]
    OBVIOUS
  <2>1. n \in 2..Len(ancestors)
    BY <1>2
  <2> QED
    BY <1>3, <2>1 DEF ViewerInv, PastKept
<1>9. ancestors[n][i][n] = i
  BY <1>2 DEF ViewerInv
<1> QED
  BY <1>1, <1>5, <1>6, <1>7, <1>8, <1>9 DEF DrawnUpTo, PastDrawn, PosesDrawn

\* One event further back.
LEMMA DrawnFurther ==
    ASSUME ViewerInv, gui, NEW size \in Nat, Len(history) = size, NEW i \in Viewer!Particles,
           NEW path, NEW w \in 1..size, Viewer!IsMove(history[w]), NEW p \in 1..w - 1,
           path[p] = Viewer!WithEvent(path[p + 1], history[p]),
           DrawnUpTo(path, i, w, p + 1)
    PROVE  DrawnUpTo(path, i, w, p)
<1>1. PICK n, next, own, before :
        /\ n = history[p].number /\ next = history[p + 1].number
        /\ own = ancestors[history[w].number][i] /\ before = path[p + 1].index
  OBVIOUS
<1>2. /\ p \in 1..size /\ p + 1 \in 1..size /\ p + 1 <= w /\ w <= size
      /\ history[p] \in ViewerEvents /\ history[p] \in EventsKnown
      /\ history[p].kind \in {"move", "resample"}
      /\ history[p].kind = "resample" =>
           history[p].indexes \in [Viewer!Particles -> Viewer!Particles]
      /\ Len(ancestors) \in Nat /\ n \in 1..Len(ancestors) /\ next \in 1..Len(ancestors)
      /\ n < next
  <2>1. p \in 1..size /\ p + 1 \in 1..size /\ p + 1 <= w /\ w <= size /\ p < p + 1
    OBVIOUS
  <2>2. /\ history[p] \in ViewerEvents /\ history[p] \in EventsKnown
        /\ history[p + 1] \in EventsKnown /\ Len(ancestors) \in Nat
    BY <2>1 DEF ViewerInv, EventsTyped, EventsKnown, ElementsOf
  <2>3. n < next
    BY <1>1, <2>1 DEF ViewerInv, EventsOrdered, ByNumber
  <2> QED
    BY <1>1, <2>1, <2>2, <2>3 DEF ViewerInv, EventsNumbered
<1>3. /\ path[p + 1] \in DrawnPaths /\ before \in Viewer!Particles
      /\ path[p + 1].poses \in Seq(Nat \X Viewer!Particles)
      /\ Len(path[p + 1].poses) = MovesCount(p + 1)
  BY <1>1 DEF DrawnUpTo, DrawnPaths
<1>4. MovesCount(p + 1) \in Nat /\ MovesCount(p + 1) >= 1
  <2>1. MovesCount(w) \in 1..MovesCount(p + 1) /\ MovesCount(p + 1) \in Nat
    BY <1>2, MovesCounted
  <2> QED
    BY <2>1
<1>5. path[p + 1].poses # <<>>
  BY <1>3, <1>4
<1>6. Viewer!LastDropped \in Nat
  BY LastIsLast
<1>7. n > Viewer!LastDropped => \A k \in 1..n : own[k] = ancestors[n][before][k]
  <2> SUFFICES ASSUME n > Viewer!LastDropped, NEW k \in 1..n
               PROVE  own[k] = ancestors[n][before][k]
    OBVIOUS
  <2>1. next - 1 \in n..Len(ancestors) /\ k \in 1..next - 1 /\ next > Viewer!LastDropped
    BY <1>2, <1>6
  <2>2. own[k] = ancestors[next - 1][before][k]
    BY <1>1, <1>2, <2>1 DEF DrawnUpTo, PastDrawn
  <2>3. \A j \in n + 1..next - 1 : Drawings(j) = {}
    BY <1>1, <1>2, NothingBetween
  <2>4. ancestors[next - 1][before][k] = ancestors[n][before][k]
    BY <1>2, <1>3, <2>1, <2>3, PastLasts
  <2> QED
    BY <2>2, <2>4
<1>8. \A q \in p + 1..w : Viewer!IsMove(history[q]) =>
        MovesCount(q) \in 1..Len(path[p + 1].poses)
  <2> SUFFICES ASSUME NEW q \in p + 1..w, Viewer!IsMove(history[q])
               PROVE  MovesCount(q) \in 1..MovesCount(p + 1)
    BY <1>3
  <2>1. q \in 1..size /\ p + 1 \in 1..size + 1 /\ p + 1 <= q
    BY <1>2
  <2> QED
    BY <2>1, MovesCounted
<1>9. \A q \in p + 1..w :
        Viewer!IsMove(history[q]) /\ history[q].number > Viewer!LastDropped =>
          path[p + 1].poses[MovesCount(q)] = <<history[q].number, own[history[q].number]>>
  BY <1>1 DEF DrawnUpTo, PosesDrawn
<1>10. \A q \in p..w : q = p \/ q \in p + 1..w
  OBVIOUS
<1>11. n > 1 => n \in 2..Len(ancestors) /\ PastKept(n)
  <2>1. n > 1 => n \in 2..Len(ancestors)
    BY <1>2
  <2> QED
    BY <2>1 DEF ViewerInv
<1>12. \A k \in 1..n - 1 : n > 1 /\ k \in 1..n
  BY <1>2
<1>13. CASE history[p].kind = "move"
  <2>1. /\ path[p] \in DrawnPaths /\ path[p].index = before
        /\ path[p].poses = Append(path[p + 1].poses, <<n, before>>)
    <3>1. PICK event, from : event = history[p] /\ from = path[p + 1]
      OBVIOUS
    <3>2. event \in ViewerEvents /\ from \in DrawnPaths /\ event.kind = "move"
      BY <1>2, <1>3, <1>13, <3>1
    <3>3. path[p] = Viewer!WithEvent(from, event)
      BY <3>1
    <3>4. /\ path[p] \in DrawnPaths /\ path[p].index = from.index
          /\ path[p].poses = Append(from.poses, <<event.number, from.index>>)
      BY <3>2, <3>3, PathMoved
    <3> QED
      BY <1>1, <3>1, <3>4
  <2>2. MovesCount(p) = MovesCount(p + 1) + 1
    BY <1>2, <1>13, MovesCounted DEF Viewer!IsMove
  <2>3. /\ Len(path[p].poses) = MovesCount(p)
        /\ path[p].poses[MovesCount(p)] = <<n, before>>
        /\ \A j \in 1..Len(path[p + 1].poses) : path[p].poses[j] = path[p + 1].poses[j]
    BY <1>3, <1>4, <2>1, <2>2
  <2>4. n > Viewer!LastDropped => own[n] = before
    <3>1. ancestors[n][before][n] = before /\ n \in 1..n
      BY <1>2, <1>3 DEF ViewerInv
    <3> QED
      BY <1>7, <3>1
  <2>5. Drawings(n) = {}
    BY <1>1, <1>2, <1>13 DEF Drawings, ViewerInv, EventsNumbered
  <2>6. n > Viewer!LastDropped => \A k \in 1..n - 1 : own[k] = ancestors[n - 1][before][k]
    BY <1>3, <1>7, <1>11, <1>12, <2>5 DEF PastKept
  <2>7. \A q \in p..w :
          Viewer!IsMove(history[q]) /\ history[q].number > Viewer!LastDropped =>
            path[p].poses[MovesCount(q)] = <<history[q].number, own[history[q].number]>>
    <3> SUFFICES ASSUME NEW q \in p..w, Viewer!IsMove(history[q]),
                        history[q].number > Viewer!LastDropped
                 PROVE  path[p].poses[MovesCount(q)]
                          = <<history[q].number, own[history[q].number]>>
      OBVIOUS
    <3>1. CASE q = p
      BY <1>1, <2>3, <2>4, <3>1
    <3>2. CASE q \in p + 1..w
      BY <1>8, <1>9, <2>3, <3>2
    <3> QED
      BY <1>10, <3>1, <3>2
  <2> QED
    <3>1. n > Viewer!LastDropped => PastDrawn(path, i, w, p)
      BY <1>1, <2>1, <2>6 DEF PastDrawn
    <3>2. PosesDrawn(path, i, w, p)
      BY <1>1, <2>7 DEF PosesDrawn
    <3>3. ~(p > w)
      BY <1>2
    <3> QED
      BY <1>1, <2>1, <2>3, <3>1, <3>2, <3>3 DEF DrawnUpTo
<1>14. CASE history[p].kind = "resample"
  <2>1. /\ path[p] \in DrawnPaths /\ path[p].index = history[p].indexes[before]
        /\ path[p].poses = path[p + 1].poses
    <3>1. PICK event, from : event = history[p] /\ from = path[p + 1]
      OBVIOUS
    <3>2. /\ from \in DrawnPaths /\ event.kind = "resample" /\ from.poses # <<>>
          /\ event.indexes \in [Viewer!Particles -> Viewer!Particles]
      BY <1>2, <1>3, <1>5, <1>14, <3>1
    <3>3. path[p] = Viewer!WithEvent(from, event)
      BY <3>1
    <3>4. /\ path[p] \in DrawnPaths /\ path[p].index = event.indexes[from.index]
          /\ path[p].poses = from.poses
      BY <3>2, <3>3, PathRedrawn
    <3> QED
      BY <1>1, <3>1, <3>4
  <2>2. ~Viewer!IsMove(history[p])
    BY <1>14 DEF Viewer!IsMove
  <2>3. MovesCount(p) = MovesCount(p + 1)
    BY <1>2, <2>2, MovesCounted
  <2>4. history[p] \in Drawings(n)
    BY <1>1, <1>2, <1>14 DEF Drawings
  <2>5. n > Viewer!LastDropped =>
          \A k \in 1..n - 1 : own[k] = ancestors[n - 1][path[p].index][k]
    BY <1>3, <1>7, <1>11, <1>12, <2>1, <2>4 DEF PastKept
  <2>6. \A q \in p..w :
          Viewer!IsMove(history[q]) /\ history[q].number > Viewer!LastDropped =>
            path[p].poses[MovesCount(q)] = <<history[q].number, own[history[q].number]>>
    BY <1>9, <1>10, <2>1, <2>2
  <2> QED
    <3>1. n > Viewer!LastDropped => PastDrawn(path, i, w, p)
      BY <1>1, <2>5 DEF PastDrawn
    <3>2. PosesDrawn(path, i, w, p)
      BY <1>1, <2>6 DEF PosesDrawn
    <3>3. ~(p > w)
      BY <1>2
    <3> QED
      BY <1>1, <1>3, <2>1, <2>3, <3>1, <3>2, <3>3 DEF DrawnUpTo
<1> QED
  BY <1>2, <1>13, <1>14

\* Until the newest move nothing is drawn.
LEMMA DrawnBegins ==
    ASSUME ViewerInv, NEW size \in Nat, Len(history) = size, NEW i \in Viewer!Particles,
           NEW path, NEW w \in 1..size, NEW p \in w + 1..size,
           ~Viewer!IsMove(history[p]),
           path[p] = Viewer!WithEvent(path[p + 1], history[p]),
           DrawnUpTo(path, i, w, p + 1)
    PROVE  DrawnUpTo(path, i, w, p)
<1>1. p \in 1..size /\ p > w /\ p + 1 > w /\ p..w = {}
  OBVIOUS
<1>2. history[p].kind = "resample"
  BY <1>1 DEF ViewerInv, EventsNumbered, Viewer!IsMove
<1>3. path[p + 1] = [index |-> i, poses |-> <<>>]
  BY <1>1 DEF DrawnUpTo
<1>4. path[p] = path[p + 1]
  BY <1>2, <1>3, PathNotBegun
<1>5. MovesCount(p) = MovesCount(p + 1)
  BY <1>1, MovesCounted
<1>6. PosesDrawn(path, i, w, p)
  BY <1>1 DEF PosesDrawn
<1>7. ~(p <= w)
  OBVIOUS
<1> QED
  BY <1>3, <1>4, <1>5, <1>6, <1>7 DEF DrawnUpTo

LEMMA DrawnAlways ==
    ASSUME ViewerInv, gui, NEW size \in Nat, Len(history) = size, NEW i \in Viewer!Particles,
           NEW path, path[size + 1] = [index |-> i, poses |-> <<>>],
           \A p \in 1..size : path[p] = Viewer!WithEvent(path[p + 1], history[p]),
           NEW w \in 1..size, Viewer!IsMove(history[w]),
           \A q \in w + 1..size : ~Viewer!IsMove(history[q])
    PROVE  \A p \in 1..size + 1 : DrawnUpTo(path, i, w, p)
<1> DEFINE Bad == {n \in 0..size : ~DrawnUpTo(path, i, w, size + 1 - n)}
<1>1. DrawnUpTo(path, i, w, size + 1)
  <2>1. path[size + 1] \in DrawnPaths
    BY DEF DrawnPaths
  <2>2. Len(path[size + 1].poses) = 0
    OBVIOUS
  <2>3. MovesCount(size + 1) = 0
    BY MovesCounted
  <2>4. size + 1 > w /\ ~(size + 1 <= w) /\ size + 1..w = {}
    OBVIOUS
  <2> QED
    BY <2>1, <2>2, <2>3, <2>4 DEF DrawnUpTo, PosesDrawn
<1>2. Bad = {}
  <2> SUFFICES ASSUME Bad # {} PROVE FALSE
    OBVIOUS
  <2>1. PICK n \in Bad : \A j \in Bad : n <= j
    <3>1. Bad \in SUBSET Nat
      OBVIOUS
    <3> QED
      BY <3>1, LeastOf
  <2>2. n \in 0..size /\ ~DrawnUpTo(path, i, w, size + 1 - n)
    OBVIOUS
  <2>3. n # 0
    <3>1. size + 1 - 0 = size + 1
      OBVIOUS
    <3> QED
      BY <1>1, <2>2, <3>1
  <2>4. PICK p : p = size + 1 - n
    OBVIOUS
  <2>5. /\ p \in 1..size /\ n - 1 \in 0..size /\ n - 1 \notin Bad
        /\ size + 1 - (n - 1) = p + 1
    <3>1. /\ n \in Nat /\ p \in 1..size /\ n - 1 \in 0..size /\ ~(n <= n - 1)
          /\ size + 1 - (n - 1) = p + 1
      BY <2>2, <2>3, <2>4
    <3> HIDE DEF Bad
    <3> QED
      BY <2>1, <3>1
  <2>6. DrawnUpTo(path, i, w, p + 1)
    BY <2>5
  <2>7. path[p] = Viewer!WithEvent(path[p + 1], history[p])
    BY <2>5
  <2>8. CASE p \in w + 1..size
    BY <2>2, <2>4, <2>6, <2>7, <2>8, DrawnBegins
  <2>9. CASE p = w
    BY <2>2, <2>4, <2>6, <2>7, <2>9, DrawnFirst
  <2>10. CASE p \in 1..w - 1
    BY <2>2, <2>4, <2>6, <2>7, <2>10, DrawnFurther
  <2> QED
    BY <2>5, <2>8, <2>9, <2>10
<1>3. \A p \in 1..size + 1 : size + 1 - p \in 0..size /\ size + 1 - (size + 1 - p) = p
  OBVIOUS
<1>4. \A n \in 0..size : DrawnUpTo(path, i, w, size + 1 - n)
  BY <1>2
<1> HIDE DEF Bad
<1> SUFFICES ASSUME NEW p \in 1..size + 1 PROVE DrawnUpTo(path, i, w, p)
  OBVIOUS
<1>5. PICK n : n = size + 1 - p
  OBVIOUS
<1>6. n \in 0..size /\ size + 1 - n = p
  BY <1>3, <1>5
<1> QED
  BY <1>4, <1>6

\* drawFromMemory: the poses it draws are those of the ancestors.
LEMMA PathsAreTrue ==
    ASSUME ViewerInv
    PROVE  Viewer!PathsTrue
<1>1. PICK size \in Nat : Len(history) = size /\ DOMAIN history = 1..size
  BY DEF ViewerInv, EventsTyped
<1> SUFFICES ASSUME NEW i \in Viewer!Particles, NEW p \in 1..size,
                    Viewer!IsMove(history[p]), history[p].number > Viewer!LastDropped
             PROVE  Viewer!DrawnPath(i)[MovesCount(p)]
                      = <<history[p].number,
                          ancestors[history[Viewer!Max(Viewer!MovesFrom(p))].number]
                                   [i][history[p].number]>>
  BY <1>1, ViewerCardinality DEF Viewer!PathsTrue, MovesCount
<1>2. gui
  <2>1. gui \/ Len(history) = 0
    BY DEF ViewerInv, EventsTyped
  <2> QED
    BY <1>1, <2>1
<1>3. PICK w : w = Viewer!Max(Viewer!MovesFrom(p))
  OBVIOUS
<1>4. w \in Viewer!MovesFrom(p) /\ \A q \in Viewer!MovesFrom(p) : q <= w
  <2> DEFINE moves == Viewer!MovesFrom(p)
  <2>1. moves = {q \in p..size : Viewer!IsMove(history[q])}
    BY <1>1 DEF Viewer!MovesFrom
  <2>2. moves \subseteq 0..size /\ moves # {}
    BY <2>1
  <2> HIDE DEF moves
  <2>3. \E m \in moves : \A k \in moves : k <= m
    BY <2>2, GreatestOf
  <2>4. \A m \in moves : m \in Nat
    BY <2>2
  <2>5. \E m \in moves : \A k \in moves : m >= k
    BY <2>3, <2>4
  <2>6. w = CHOOSE m \in moves : \A k \in moves : m >= k
    BY <1>3 DEF moves, Viewer!Max
  <2>7. w \in moves /\ \A k \in moves : w >= k
    BY <2>5, <2>6, Zenon
  <2> QED
    BY <2>4, <2>7 DEF moves
<1>5. /\ w \in p..size /\ w \in 1..size /\ Viewer!IsMove(history[w])
      /\ \A q \in w + 1..size : ~Viewer!IsMove(history[q])
  BY <1>1, <1>4 DEF Viewer!MovesFrom
<1>6. PICK path : /\ path[size + 1] = [index |-> i, poses |-> <<>>]
                  /\ \A q \in 1..size : path[q] = Viewer!WithEvent(path[q + 1], history[q])
                  /\ Viewer!DrawnPath(i) = path[1].poses
  BY <1>1, DrawnBack
<1>7. DrawnUpTo(path, i, w, 1)
  <2>1. 1 \in 1..size + 1
    OBVIOUS
  <2> QED
    BY <1>1, <1>2, <1>5, <1>6, <2>1, DrawnAlways
<1>8. p \in 1..w
  BY <1>5
<1> QED
  BY <1>3, <1>6, <1>7, <1>8 DEF DrawnUpTo, PosesDrawn

\* getEvents, addEvent: the events wait in their order.
LEMMA EventsAreInOrder ==
    ASSUME ViewerInv
    PROVE  Viewer!EventsInOrder
<1>1. PICK h, e, b : h = Len(history) /\ e = Len(events) /\ b = Len(eventBuffer)
  OBVIOUS
<1>2. PICK waiting : waiting = history \o events \o eventBuffer
  OBVIOUS
<1>3. /\ h \in Nat /\ e \in Nat /\ b \in Nat
      /\ waiting \in Seq(ViewerEvents) /\ Len(waiting) = h + e + b
      /\ DOMAIN waiting = 1..h + e + b
      /\ \A k \in 1..h : waiting[k] = history[k]
      /\ \A k \in h + 1..h + e : waiting[k] = events[k - h] /\ k - h \in 1..e
      /\ \A k \in h + e + 1..h + e + b :
           waiting[k] = eventBuffer[k - (h + e)] /\ k - (h + e) \in 1..b
  <2>1. /\ history \in Seq(ViewerEvents) /\ events \in Seq(ViewerEvents)
        /\ eventBuffer \in Seq(ViewerEvents)
    BY DEF ViewerInv, EventsTyped
  <2>2. PICK two : two = history \o events
    OBVIOUS
  <2>3. /\ h \in Nat /\ e \in Nat /\ two \in Seq(ViewerEvents) /\ Len(two) = h + e
        /\ \A k \in 1..h : two[k] = history[k]
        /\ \A k \in h + 1..h + e : two[k] = events[k - h] /\ k - h \in 1..e
    BY <1>1, <2>1, <2>2
  <2>4. waiting = two \o eventBuffer
    BY <1>2, <2>2
  <2>5. /\ b \in Nat /\ waiting \in Seq(ViewerEvents) /\ Len(waiting) = h + e + b
        /\ DOMAIN waiting = 1..h + e + b
        /\ \A k \in 1..h + e : waiting[k] = two[k]
        /\ \A k \in h + e + 1..h + e + b :
             waiting[k] = eventBuffer[k - (h + e)] /\ k - (h + e) \in 1..b
    <3>1. PICK l : l = h + e
      OBVIOUS
    <3>2. l \in Nat /\ Len(two) = l /\ two \in Seq(ViewerEvents)
      BY <2>3, <3>1
    <3>3. /\ b \in Nat /\ waiting \in Seq(ViewerEvents) /\ Len(waiting) = l + b
          /\ \A k \in 1..l : waiting[k] = two[k]
          /\ \A k \in l + 1..l + b : waiting[k] = eventBuffer[k - l] /\ k - l \in 1..b
      <4>1. b \in Nat /\ waiting \in Seq(ViewerEvents) /\ Len(waiting) = l + b
        <5>1. b \in Nat /\ b = Len(eventBuffer) /\ eventBuffer \in Seq(ViewerEvents)
          BY <1>1, <2>1
        <5>2. /\ two \o eventBuffer \in Seq(ViewerEvents)
              /\ Len(two \o eventBuffer) = Len(two) + Len(eventBuffer)
          BY <3>2, <5>1, ConcatProperties, Zenon
        <5> QED
          BY <2>4, <3>2, <5>1, <5>2
      <4>2. \A k \in 1..l : waiting[k] = two[k]
        BY <1>1, <2>1, <2>4, <3>2, <4>1
      <4>3. ASSUME NEW k \in l + 1..l + b
            PROVE  waiting[k] = eventBuffer[k - l] /\ k - l \in 1..b
        <5>1. k - l \in 1..b /\ k \in 1..l + b /\ ~(k <= l)
          BY <3>2, <4>1
        <5> QED
          BY <1>1, <2>1, <2>4, <3>2, <5>1
      <4> QED
        BY <4>1, <4>2, <4>3
    <3>4. DOMAIN waiting = 1..l + b
      BY <3>3
    <3> QED
      BY <3>1, <3>3, <3>4
  <2>6. \A k \in 1..h + e : k \in 1..h \/ k \in h + 1..h + e
    BY <2>3
  <2>7. /\ \A k \in 1..h : k \in 1..h + e
        /\ \A k \in h + 1..h + e : k \in 1..h + e
    BY <2>3
  <2> QED
    BY <2>3, <2>5, <2>7
<1>4. ASSUME NEW j \in 1..h + e + b, NEW k \in 1..h + e + b, j < k
      PROVE  waiting[j].number < waiting[k].number
  <2>1. /\ ByNumber(history) /\ ByNumber(events) /\ ByNumber(eventBuffer)
        /\ Before(history, events) /\ Before(history, eventBuffer)
        /\ Before(events, eventBuffer)
    BY DEF ViewerInv, EventsOrdered
  <2>2. CASE j \in 1..h /\ k \in 1..h
    BY <1>1, <1>3, <1>4, <2>1, <2>2 DEF ByNumber
  <2>3. CASE j \in 1..h /\ k \in h + 1..h + e
    BY <1>1, <1>3, <2>1, <2>3 DEF Before
  <2>4. CASE j \in 1..h /\ k \in h + e + 1..h + e + b
    BY <1>1, <1>3, <2>1, <2>4 DEF Before
  <2>5. CASE j \in h + 1..h + e /\ k \in h + 1..h + e
    <3>1. j - h < k - h
      BY <1>3, <1>4, <2>5
    <3> QED
      BY <1>1, <1>3, <2>1, <2>5, <3>1 DEF ByNumber
  <2>6. CASE j \in h + 1..h + e /\ k \in h + e + 1..h + e + b
    BY <1>1, <1>3, <2>1, <2>6 DEF Before
  <2>7. CASE j \in h + e + 1..h + e + b /\ k \in h + e + 1..h + e + b
    <3>1. j - (h + e) < k - (h + e)
      BY <1>3, <1>4, <2>7
    <3> QED
      BY <1>1, <1>3, <2>1, <2>7, <3>1 DEF ByNumber
  <2> QED
    BY <1>3, <1>4, <2>2, <2>3, <2>4, <2>5, <2>6, <2>7
<1>5. step = "finished" => done \/ \E k \in 1..h + e + b : waiting[k].kind = "done"
  <2> SUFFICES ASSUME NEW event \in ElementsOf(events) \cup ElementsOf(eventBuffer)
               PROVE  \E k \in 1..h + e + b : waiting[k] = event
    BY DEF ViewerInv
  <2>1. CASE event \in ElementsOf(events)
    <3>1. PICK k \in 1..e : event = events[k]
      BY <1>1, <2>1 DEF ElementsOf
    <3>2. h + k \in h + 1..h + e /\ h + k - h = k /\ h + k \in 1..h + e + b
      BY <1>3
    <3>3. waiting[h + k] = events[k]
      BY <1>3, <3>2
    <3> QED
      BY <3>1, <3>2, <3>3
  <2>2. CASE event \in ElementsOf(eventBuffer)
    <3>1. PICK k \in 1..b : event = eventBuffer[k]
      BY <1>1, <2>2 DEF ElementsOf
    <3>2. /\ h + e + k \in h + e + 1..h + e + b /\ h + e + k - (h + e) = k
          /\ h + e + k \in 1..h + e + b
      BY <1>3
    <3>3. waiting[h + e + k] = eventBuffer[k]
      BY <1>3, <3>2
    <3> QED
      BY <3>1, <3>2, <3>3
  <2> QED
    BY <2>1, <2>2
<1> QED
  BY <1>2, <1>3, <1>4, <1>5 DEF Viewer!EventsInOrder

\* drawFromMemory, addEvent: however far the display is behind the filter, what it draws are
\* the paths of the particles as far back as it has the events, and it sees the end.
THEOREM ViewerAlwaysTrue == PackagesSpec => []ViewerTrue
<1>1. PackagesInit => ViewerInv
  BY ViewerStarts
<1>2. ViewerInv /\ [PackagesNext]_packagesVars => ViewerInv'
  <2> SUFFICES ASSUME ViewerInv, [PackagesNext]_packagesVars PROVE ViewerInv'
    OBVIOUS
  <2>1. CASE UNCHANGED viewerVars
    BY <2>1, OthersKeepViewer DEF viewerVars
  <2>2. CASE Viewer!ThreadNext
    <3>1. UNCHANGED <<gui, events, history, done>>
      BY <2>2 DEF Viewer!ThreadNext, Viewer!viewerVars
    <3>2. \A kind \in {"move", "map", "resample", "done"} :
            /\ Viewer!Event(kind) \in ViewerEvents
            /\ Viewer!Event(kind).kind = kind
      BY DEF Viewer!Event, ViewerEvents, Draws
    <3>3. CASE Viewer!OdometryUpdate
      BY <3>1, <3>2, <3>3, AddKeepsViewer DEF Viewer!OdometryUpdate
    <3>4. CASE Viewer!ScanmatchUpdate
      BY <3>1, <3>2, <3>4, AddKeepsViewer DEF Viewer!ScanmatchUpdate
    <3>5. CASE Viewer!MapUpdate
      BY <3>1, <3>2, <3>5, AddKeepsViewer DEF Viewer!MapUpdate
    <3>6. CASE Viewer!ResampleUpdate
      <4>1. PICK indexes \in [Viewer!Particles -> Viewer!Particles] :
              Viewer!AddEvent([Viewer!Event("resample") EXCEPT !.indexes = indexes])
        BY <3>6 DEF Viewer!ResampleUpdate
      <4>2. PICK e : e = [Viewer!Event("resample") EXCEPT !.indexes = indexes]
        OBVIOUS
      <4>3. indexes \in Draws
        BY DEF Draws
      <4>4. e \in ViewerEvents /\ e.kind = "resample" /\ e.indexes = indexes
        BY <4>2, <4>3 DEF Viewer!Event, ViewerEvents
      <4>5. step' # "finished"
        BY <3>6 DEF Viewer!ResampleUpdate
      <4> QED
        BY <3>1, <4>1, <4>2, <4>4, <4>5, AddKeepsViewer
    <3>7. CASE Viewer!KeepParticles
      BY <3>1, <3>7, OthersKeepViewer DEF Viewer!KeepParticles, Viewer!bufferVars
    <3>8. CASE Viewer!Finish
      BY <3>1, <3>2, <3>8, AddKeepsViewer DEF Viewer!Finish
    <3> QED
      BY <2>2, <3>3, <3>4, <3>5, <3>6, <3>7, <3>8 DEF Viewer!ThreadNext
  <2>3. CASE Viewer!GetEvents
    BY <2>3, GetKeepsViewer
  <2>4. CASE Viewer!HandleEvent
    BY <2>4, HandleKeepsViewer
  <2>5. ViewerNext \/ UNCHANGED viewerVars
    BY DEF PackagesNext, packagesVars, FilterNext, NodeNext, CalibrationNext,
           UndistortionNext, OccupancyNext
  <2> QED
    BY <2>1, <2>2, <2>3, <2>4, <2>5 DEF ViewerNext, Viewer!Next
<1>3. ViewerInv => ViewerTrue
  BY PathsAreTrue, EventsAreInOrder DEF ViewerTrue, Viewer!ViewerTrue
<1> QED
  BY <1>1, <1>2, <1>3, PackagesBehave, PTL
-----------------------------------------------------------------------------
(* OccupancyMapping: the line of a beam, and what it makes of the cells.    *)

\* f starts with a, and F, a function, is its step.
IsRecursion(f, N, S, a, F) ==
    /\ f \in [0..N -> S] /\ f[0] = a
    /\ \A n \in 1..N : f[n] = F[<<n, f[n - 1]>>]

Steps(N, S) == [(1..N) \X S -> S]

LEMMA RecursionExists ==
    ASSUME NEW N \in Nat, NEW S, NEW a \in S, NEW F \in Steps(N, S)
    PROVE  \E f : IsRecursion(f, N, S, a, F)
<1> DEFINE Is(f, n) == /\ f \in [0..n -> S] /\ f[0] = a
                       /\ \A k \in 1..n : f[k] = F[<<k, f[k - 1]>>]
           Bad == {n \in 0..N : ~ \E f : Is(f, n)}
<1> USE DEF Steps
<1> SUFFICES ASSUME Bad # {} PROVE FALSE
  <2>1. N \in 0..N
    OBVIOUS
  <2> QED
    BY <2>1 DEF IsRecursion
<1>1. PICK n \in Bad : \A j \in Bad : n <= j
  <2>1. Bad \in SUBSET Nat
    OBVIOUS
  <2> QED
    BY <2>1, LeastOf
<1>2. n \in 0..N /\ ~ \E f : Is(f, n)
  OBVIOUS
<1>3. CASE n = 0
  <2> DEFINE first == [k \in 0..0 |-> a]
  <2>1. first \in [0..0 -> S] /\ first[0] = a
    OBVIOUS
  <2>2. Is(first, 0)
    BY <2>1
  <2> QED
    BY <1>2, <1>3, <2>2
<1>4. CASE n # 0
  <2>1. n - 1 \in 0..N /\ ~(n <= n - 1)
    BY <1>2, <1>4
  <2>2. PICK g : Is(g, n - 1)
    <3> HIDE DEF Is
    <3> QED
      BY <1>1, <2>1
  <2> DEFINE f == [k \in 0..n |-> IF k = n THEN F[<<n, g[n - 1]>>] ELSE g[k]]
  <2>3. n \in 1..N /\ n - 1 \in 0..n - 1 /\ g[n - 1] \in S
    BY <1>2, <1>4, <2>2
  <2>4. F[<<n, g[n - 1]>>] \in S
    BY <2>3
  <2>5. \A k \in 0..n : k # n => k \in 0..n - 1
    BY <1>2
  <2>6. \A k \in 0..n : f[k] = IF k = n THEN F[<<n, g[n - 1]>>] ELSE g[k]
    OBVIOUS
  <2>7. f \in [0..n -> S]
    BY <2>2, <2>4, <2>5
  <2> HIDE DEF f
  <2>8. f[0] = a
    BY <1>2, <1>4, <2>2, <2>6
  <2>9. \A k \in 1..n : f[k] = F[<<k, f[k - 1]>>]
    <3> SUFFICES ASSUME NEW k \in 1..n PROVE f[k] = F[<<k, f[k - 1]>>]
      OBVIOUS
    <3>1. k - 1 \in 0..n /\ k - 1 # n /\ k \in 0..n
      BY <1>2
    <3>2. f[k - 1] = g[k - 1]
      BY <2>6, <3>1
    <3>3. CASE k = n
      BY <2>6, <3>1, <3>2, <3>3
    <3>4. CASE k # n
      <4>1. k \in 1..n - 1
        BY <1>2, <3>4
      <4>2. g[k] = F[<<k, g[k - 1]>>]
        BY <2>2, <4>1
      <4> QED
        BY <2>6, <3>1, <3>2, <3>4, <4>2
    <3> QED
      BY <3>3, <3>4
  <2> QED
    BY <1>2, <2>7, <2>8, <2>9
<1> QED
  BY <1>3, <1>4

Points == Int \X Int

\* Column and row of a cell as TraceLine goes: of a steep line they are swapped.
Col(from, to, cell) == IF Occupancy!Steep(from, to) THEN cell[2] ELSE cell[1]
Row(from, to, cell) == IF Occupancy!Steep(from, to) THEN cell[1] ELSE cell[2]

\* The end that TraceLine leaves out: (x1, y1) as the swaps have left it.
LeftOut(from, to) == Occupancy!Ends(from, to)[2]

\* Of k columns and m rows from the start, the row that is nearest.
Near(k, m, dx, dy) ==
    IF dx = 0 THEN m = 0
    ELSE -dx < 2 * (m * dx) - 2 * (k * dy) /\ 2 * (m * dx) - 2 * (k * dy) <= dx

LEMMA LineGoes ==
    ASSUME NEW from \in Points, NEW to \in Points
    PROVE  /\ Occupancy!Ends(from, to) \in Points \X Points
           /\ Occupancy!DeltaX(from, to) \in Nat
           /\ Occupancy!DeltaY(from, to) \in 0..Occupancy!DeltaX(from, to)
           /\ Occupancy!YStep(from, to) \in {1, -1}
           /\ Occupancy!Ends(from, to)[2][2] - Occupancy!Ends(from, to)[1][2]
                = Occupancy!YStep(from, to) * Occupancy!DeltaY(from, to)
           /\ Occupancy!YStep(from, to) = 1 <=> Occupancy!Ends(from, to)[2][2]
                                                 > Occupancy!Ends(from, to)[1][2]
<1>1. PICK x0, y0, x1, y1 \in Int : from = <<x0, y0>> /\ to = <<x1, y1>>
  BY DEF Points
<1> DEFINE steep == Occupancy!Steep(from, to)
<1>2. steep <=> Occupancy!Abs(y1 - y0) > Occupancy!Abs(x1 - x0)
  BY <1>1 DEF Occupancy!Steep
<1>3. PICK a0, b0, a1, b1 \in Int :
         /\ a0 <= a1 /\ Occupancy!Abs(b1 - b0) <= a1 - a0
         /\ Occupancy!Ends(from, to) = << <<a0, b0>>, <<a1, b1>> >>
  <2> DEFINE p == IF steep THEN <<y0, x0>> ELSE <<x0, y0>>
             q == IF steep THEN <<y1, x1>> ELSE <<x1, y1>>
  <2>1. Occupancy!Ends(from, to) = IF p[1] > q[1] THEN <<q, p>> ELSE <<p, q>>
    BY <1>1 DEF Occupancy!Ends, Occupancy!Swapped
  <2>2. CASE steep
    <3>1. Occupancy!Ends(from, to) = IF y0 > y1 THEN << <<y1, x1>>, <<y0, x0>> >>
                                     ELSE << <<y0, x0>>, <<y1, x1>> >>
      BY <2>1, <2>2
    <3>2. CASE y0 > y1
      <4>1. y1 <= y0 /\ Occupancy!Abs(x0 - x1) <= y0 - y1
        BY <1>2, <2>2, <3>2 DEF Occupancy!Abs
      <4> QED
        BY <3>1, <3>2, <4>1
    <3>3. CASE ~(y0 > y1)
      <4>1. y0 <= y1 /\ Occupancy!Abs(x1 - x0) <= y1 - y0
        BY <1>2, <2>2, <3>3 DEF Occupancy!Abs
      <4> QED
        BY <3>1, <3>3, <4>1
    <3> QED
      BY <3>2, <3>3
  <2>3. CASE ~steep
    <3>1. Occupancy!Ends(from, to) = IF x0 > x1 THEN << <<x1, y1>>, <<x0, y0>> >>
                                     ELSE << <<x0, y0>>, <<x1, y1>> >>
      BY <2>1, <2>3
    <3>2. CASE x0 > x1
      <4>1. x1 <= x0 /\ Occupancy!Abs(y0 - y1) <= x0 - x1
        BY <1>2, <2>3, <3>2 DEF Occupancy!Abs
      <4> QED
        BY <3>1, <3>2, <4>1
    <3>3. CASE ~(x0 > x1)
      <4>1. x0 <= x1 /\ Occupancy!Abs(y1 - y0) <= x1 - x0
        BY <1>2, <2>3, <3>3 DEF Occupancy!Abs
      <4> QED
        BY <3>1, <3>3, <4>1
    <3> QED
      BY <3>2, <3>3
  <2> QED
    BY <2>2, <2>3
<1> QED
  BY <1>3 DEF Points, Occupancy!DeltaX, Occupancy!DeltaY, Occupancy!YStep, Occupancy!Abs

\* OnLine in columns and rows from the start.
LEMMA OnLineIs ==
    ASSUME NEW from \in Points, NEW to \in Points, NEW cell \in Points
    PROVE  LET start == Occupancy!Ends(from, to)[1]
               dx == Occupancy!DeltaX(from, to)
               k == Col(from, to, cell) - start[1]
           IN  Occupancy!OnLine(from, to, cell) <=>
                 /\ k \in 0..dx
                 /\ Near(k, Occupancy!YStep(from, to) * (Row(from, to, cell) - start[2]),
                         dx, Occupancy!DeltaY(from, to))
<1>1. PICK a0, b0, a1, b1 \in Int : Occupancy!Ends(from, to) = << <<a0, b0>>, <<a1, b1>> >>
  BY LineGoes DEF Points
<1>2. PICK c, r \in Int : c = Col(from, to, cell) /\ r = Row(from, to, cell)
  BY DEF Points, Col, Row
<1>3. PICK dx \in Nat, dy \in Nat, s \in {1, -1} :
         /\ dx = Occupancy!DeltaX(from, to) /\ dy = Occupancy!DeltaY(from, to)
         /\ s = Occupancy!YStep(from, to)
         /\ dx = a1 - a0 /\ b1 - b0 = s * dy /\ (s = 1 <=> b1 > b0)
  BY <1>1, LineGoes DEF Occupancy!DeltaX
<1> DEFINE p == <<c, r>>
           off == 2 * (r - b0) * dx - 2 * (c - a0) * (b1 - b0)
           along == IF b1 - b0 > 0 THEN off ELSE -off
           m == s * (r - b0)
           k == c - a0
<1>4. (IF Occupancy!Steep(from, to) THEN Occupancy!Swapped(cell) ELSE cell) = p
  BY <1>2 DEF Col, Row, Occupancy!Swapped, Points
<1>5. Occupancy!OnLine(from, to, cell) <=>
        /\ a0 <= c /\ c <= a1
        /\ IF dx = 0 THEN p = <<a0, b0>> ELSE -dx < along /\ along <= dx
  <2> DEFINE ends == Occupancy!Ends(from, to)
             q == IF Occupancy!Steep(from, to) THEN Occupancy!Swapped(cell) ELSE cell
             width == ends[2][1] - ends[1][1]
             height == ends[2][2] - ends[1][2]
             off_ == 2 * (q[2] - ends[1][2]) * width - 2 * (q[1] - ends[1][1]) * height
             along_ == IF height > 0 THEN off_ ELSE -off_
  <2>1. Occupancy!OnLine(from, to, cell) <=>
          /\ ends[1][1] <= q[1] /\ q[1] <= ends[2][1]
          /\ IF width = 0 THEN q = ends[1] ELSE -width < along_ /\ along_ <= width
    BY Zenon DEF Occupancy!OnLine
  <2>2. /\ ends[1] = <<a0, b0>> /\ ends[1][1] = a0 /\ ends[1][2] = b0
        /\ ends[2][1] = a1 /\ ends[2][2] = b1
    BY <1>1
  <2>3. q = p /\ q[1] = c /\ q[2] = r
    BY <1>4
  <2> HIDE DEF ends, q, p
  <2>4. width = dx /\ height = b1 - b0 /\ along_ = along
    BY <1>3, <2>2, <2>3
  <2> HIDE DEF width, along_, along
  <2> QED
    BY <2>1, <2>2, <2>3, <2>4
<1>6. along = 2 * (m * dx) - 2 * (k * dy)
  <2>1. CASE s = 1
    <3>1. b1 - b0 = dy /\ b1 - b0 > 0 /\ m = r - b0
      BY <1>3, <2>1
    <3> QED
      BY <3>1
  <2>2. CASE s = -1
    <3>1. b1 - b0 = -dy /\ ~(b1 - b0 > 0) /\ m = -(r - b0)
      BY <1>3, <2>2
    <3>2. along = -(2 * (r - b0) * dx - 2 * (c - a0) * (-dy))
      BY <3>1
    <3>3. PICK u \in Int : u = (r - b0) * dx
      OBVIOUS
    <3>4. m * dx = -u
      BY <3>1, <3>3
    <3>5. 2 * (r - b0) * dx = 2 * u
      BY <3>3
    <3>6. PICK v \in Int : v = (c - a0) * dy
      OBVIOUS
    <3>7. 2 * (c - a0) * (-dy) = -(2 * v)
      BY <3>6
    <3> QED
      BY <3>2, <3>4, <3>5, <3>6, <3>7
  <2> QED
    BY <2>1, <2>2
<1>7. dx = 0 /\ k \in 0..dx => (p = <<a0, b0>> <=> m = 0)
  <2> SUFFICES ASSUME dx = 0, k \in 0..dx PROVE p = <<a0, b0>> <=> m = 0
    OBVIOUS
  <2>1. c = a0
    OBVIOUS
  <2>2. m = 0 <=> r = b0
    OBVIOUS
  <2> QED
    BY <2>1, <2>2
<1>8. k \in 0..dx <=> a0 <= c /\ c <= a1
  BY <1>3
<1>9. Occupancy!OnLine(from, to, cell) <=> k \in 0..dx /\ Near(k, m, dx, dy)
  <2> HIDE DEF along, m
  <2> QED
    BY <1>5, <1>6, <1>7, <1>8 DEF Near
<1> QED
  BY <1>1, <1>2, <1>3, <1>9

\* In each column it is one row.
LEMMA OneIsNear ==
    ASSUME NEW dx \in Nat, NEW dy \in Nat, NEW k \in Nat, NEW m \in Int, NEW n \in Int,
           Near(k, m, dx, dy), Near(k, n, dx, dy)
    PROVE  m = n
<1>1. CASE dx = 0
  BY <1>1 DEF Near
<1>2. CASE dx # 0
  <2> DEFINE a == m * dx
             b == n * dx
             c == k * dy
  <2>1. a \in Int /\ b \in Int /\ c \in Int
    OBVIOUS
  <2>2. /\ -dx < 2 * a - 2 * c /\ 2 * a - 2 * c <= dx
        /\ -dx < 2 * b - 2 * c /\ 2 * b - 2 * c <= dx
    BY <1>2 DEF Near
  <2>3. (m - n) * dx = a - b
    OBVIOUS
  <2>4. m - n >= 1 => (m - n) * dx >= dx
    OBVIOUS
  <2>5. m - n <= -1 => (m - n) * dx <= -dx
    OBVIOUS
  <2> HIDE DEF a, b, c
  <2> QED
    BY <1>2, <2>1, <2>2, <2>3, <2>4, <2>5
<1> QED
  BY <1>1, <1>2

\* What is done to error keeps to the row that is nearest.
LEMMA NearNext ==
    ASSUME NEW dx \in Nat, NEW dy \in 0..dx, NEW k \in Nat, NEW m \in Int, k < dx,
           NEW error \in Int, error = k * dy - m * dx, Near(k, m, dx, dy)
    PROVE  LET up == 2 * (error + dy) >= dx
               n == IF up THEN m + 1 ELSE m
           IN  /\ (IF up THEN error + dy - dx ELSE error + dy) = (k + 1) * dy - n * dx
               /\ Near(k + 1, n, dx, dy)
<1> DEFINE a == m * dx
           c == k * dy
<1>1. a \in Int /\ c \in Int
  OBVIOUS
<1>2. (m + 1) * dx = a + dx /\ (k + 1) * dy = c + dy
  OBVIOUS
<1>3. dx # 0 /\ -dx < 2 * a - 2 * c /\ 2 * a - 2 * c <= dx
  BY DEF Near
<1>4. error = c - a
  OBVIOUS
<1>5. \A n : Near(k + 1, n, dx, dy) <=>
               /\ -dx < 2 * (n * dx) - 2 * ((k + 1) * dy)
               /\ 2 * (n * dx) - 2 * ((k + 1) * dy) <= dx
  BY <1>3 DEF Near
<1>6. m * dx = a
  OBVIOUS
<1> HIDE DEF a, c
<1>7. CASE 2 * (error + dy) >= dx
  BY <1>1, <1>2, <1>3, <1>4, <1>5, <1>7
<1>8. CASE ~(2 * (error + dy) >= dx)
  BY <1>1, <1>2, <1>3, <1>4, <1>5, <1>6, <1>8
<1> QED
  BY <1>7, <1>8

\* TraceLine after n columns.
Traces == [y : Int, error : Int, points : Seq(Points)]

IsIn(points, cell) == \E j \in 1..Len(points) : points[j] = cell

OnceEach(points) == \A i, j \in 1..Len(points) : points[i] = points[j] => i = j

\* Where y and error are on their way.
OnItsWay(line, n, from, to) ==
    LET dx == Occupancy!DeltaX(from, to)
    IN  \E m \in Int :
          /\ line.y = Occupancy!Ends(from, to)[1][2] + Occupancy!YStep(from, to) * m
          /\ n <= dx => /\ line.error = n * Occupancy!DeltaY(from, to) - m * dx
                        /\ Near(n, m, dx, Occupancy!DeltaY(from, to))

\* The points so far are those of the line in the columns so far, each once.
PointsOf(points, n, from, to) ==
    /\ OnceEach(points)
    /\ \A cell \in Points :
          IsIn(points, cell)
            <=> /\ Occupancy!OnLine(from, to, cell)
                /\ cell # LeftOut(from, to)
                /\ Col(from, to, cell) - Occupancy!Ends(from, to)[1][1] < n

LEMMA WayGoesOn ==
    ASSUME NEW from \in Points, NEW to \in Points,
           NEW n \in 0..Occupancy!DeltaX(from, to),
           NEW line \in Traces, OnItsWay(line, n, from, to), NEW x
    PROVE  OnItsWay(Occupancy!Step(line, x, from, to), n + 1, from, to)
<1>1. PICK dx \in Nat, dy \in Nat, s \in {1, -1}, y0 \in Int :
         /\ dy <= dx
         /\ dx = Occupancy!DeltaX(from, to) /\ dy = Occupancy!DeltaY(from, to)
         /\ s = Occupancy!YStep(from, to) /\ y0 = Occupancy!Ends(from, to)[1][2]
  BY LineGoes DEF Points
<1>2. PICK y \in Int, error \in Int : y = line.y /\ error = line.error
  BY DEF Traces
<1>3. PICK m \in Int : y = y0 + s * m /\ error = n * dy - m * dx /\ Near(n, m, dx, dy)
  BY <1>1, <1>2 DEF OnItsWay
<1> DEFINE up == 2 * (error + dy) >= dx
           next_ == IF up THEN m + 1 ELSE m
           step_ == Occupancy!Step(line, x, from, to)
<1>4. /\ step_.y = IF up THEN y + s ELSE y
      /\ step_.error = IF up THEN error + dy - dx ELSE error + dy
  BY <1>1, <1>2 DEF Occupancy!Step
<1>5. step_.y = y0 + s * next_
  BY <1>3, <1>4
<1>6. n + 1 <= dx => step_.error = (n + 1) * dy - next_ * dx /\ Near(n + 1, next_, dx, dy)
  <2> SUFFICES ASSUME n + 1 <= dx
               PROVE  step_.error = (n + 1) * dy - next_ * dx /\ Near(n + 1, next_, dx, dy)
    OBVIOUS
  <2>1. n \in Nat /\ n < dx /\ dy \in 0..dx
    BY <1>1
  <2> QED
    BY <1>3, <1>4, <2>1, NearNext
<1>7. next_ \in Int
  OBVIOUS
<1> HIDE DEF step_, next_
<1>8. OnItsWay(step_, n + 1, from, to)
  BY <1>1, <1>5, <1>6, <1>7 DEF OnItsWay
<1> QED
  BY <1>8 DEF step_

\* The point of a column is the only one of the line in it.
LEMMA PointOfColumn ==
    ASSUME NEW from \in Points, NEW to \in Points,
           NEW n \in 0..Occupancy!DeltaX(from, to),
           NEW line \in Traces, OnItsWay(line, n, from, to)
    PROVE  LET x == Occupancy!Ends(from, to)[1][1] + n
               point == Occupancy!PointAt(x, line.y, from, to)
           IN  /\ x \in Int /\ point \in Points
               /\ \A cell \in Points :
                     cell = point <=> Occupancy!OnLine(from, to, cell)
                                      /\ Col(from, to, cell) - Occupancy!Ends(from, to)[1][1] = n
<1>1. PICK dx \in Nat, dy \in Nat, s \in {1, -1}, x0, y0 \in Int :
         /\ dy <= dx
         /\ dx = Occupancy!DeltaX(from, to) /\ dy = Occupancy!DeltaY(from, to)
         /\ s = Occupancy!YStep(from, to)
         /\ x0 = Occupancy!Ends(from, to)[1][1] /\ y0 = Occupancy!Ends(from, to)[1][2]
  BY LineGoes DEF Points
<1>2. PICK y \in Int : y = line.y
  BY DEF Traces
<1>3. PICK m \in Int : y = y0 + s * m /\ Near(n, m, dx, dy)
  BY <1>1, <1>2 DEF OnItsWay
<1> DEFINE point == Occupancy!PointAt(x0 + n, y, from, to)
<1>4. point \in Points /\ Col(from, to, point) = x0 + n /\ Row(from, to, point) = y
  BY DEF Points, Occupancy!PointAt, Col, Row
<1>5. \A cell \in Points : cell = point <=> Col(from, to, cell) = x0 + n /\ Row(from, to, cell) = y
  BY DEF Points, Occupancy!PointAt, Col, Row
<1>6. \A cell \in Points : Col(from, to, cell) \in Int /\ Row(from, to, cell) \in Int
  BY DEF Points, Col, Row
<1>7. \A r \in Int : Near(n, s * (r - y0), dx, dy) <=> r = y
  <2> SUFFICES ASSUME NEW r \in Int PROVE Near(n, s * (r - y0), dx, dy) <=> r = y
    OBVIOUS
  <2>1. s * (r - y0) = m <=> r = y
    BY <1>3
  <2>2. s * (r - y0) \in Int
    OBVIOUS
  <2>3. dy \in Nat /\ n \in Nat
    BY <1>1
  <2> QED
    BY <1>3, <2>1, <2>2, <2>3, OneIsNear
<1>8. \A cell \in Points :
         cell = point <=> Occupancy!OnLine(from, to, cell) /\ Col(from, to, cell) - x0 = n
  <2> SUFFICES ASSUME NEW cell \in Points
               PROVE  cell = point <=> /\ Occupancy!OnLine(from, to, cell)
                                       /\ Col(from, to, cell) - x0 = n
    OBVIOUS
  <2>1. PICK c \in Int, r \in Int : c = Col(from, to, cell) /\ r = Row(from, to, cell)
    BY <1>6
  <2>2. Occupancy!OnLine(from, to, cell) <=>
          c - x0 \in 0..dx /\ Near(c - x0, s * (r - y0), dx, dy)
    BY <1>1, <2>1, OnLineIs
  <2>3. c - x0 = n <=> c = x0 + n
    BY <1>1
  <2> HIDE DEF point
  <2>4. CASE c - x0 = n
    <3>1. c - x0 \in 0..dx
      BY <1>1, <2>4
    <3>2. cell = point <=> r = y
      BY <1>5, <2>1, <2>3, <2>4
    <3> QED
      BY <1>7, <2>1, <2>2, <2>4, <3>1, <3>2
  <2>5. CASE c - x0 # n
    BY <1>5, <2>1, <2>3, <2>5
  <2> QED
    BY <2>4, <2>5
<1> QED
  BY <1>1, <1>2, <1>4, <1>8

LEMMA StepTyped ==
    ASSUME NEW from \in Points, NEW to \in Points, NEW line \in Traces, NEW x \in Int
    PROVE  Occupancy!Step(line, x, from, to) \in Traces
<1> DEFINE step_ == Occupancy!Step(line, x, from, to)
           point == Occupancy!PointAt(x, line.y, from, to)
<1>1. line.y \in Int /\ line.error \in Int /\ line.points \in Seq(Points)
  BY DEF Traces
<1>2. point \in Points
  BY <1>1 DEF Occupancy!PointAt, Points
<1> HIDE DEF point
<1>3. Occupancy!Pushed(line.points, point, from, to) \in Seq(Points)
  BY <1>1, <1>2 DEF Occupancy!Pushed
<1>4. step_.points \in Seq(Points)
  BY <1>3 DEF Occupancy!Step, point
<1>5. /\ Occupancy!DeltaX(from, to) \in Int /\ Occupancy!DeltaY(from, to) \in Int
      /\ Occupancy!YStep(from, to) \in Int
  BY LineGoes
<1>6. step_.y \in Int /\ step_.error \in Int
  BY <1>1, <1>5 DEF Occupancy!Step
<1>7. step_ = [y |-> step_.y, error |-> step_.error, points |-> step_.points]
  BY DEF Occupancy!Step
<1> HIDE DEF step_
<1>8. step_ \in Traces
  BY <1>4, <1>6, <1>7 DEF Traces
<1> QED
  BY <1>8 DEF step_

LEMMA PointPushed ==
    ASSUME NEW from \in Points, NEW to \in Points,
           NEW n \in 0..Occupancy!DeltaX(from, to),
           NEW line \in Traces, OnItsWay(line, n, from, to),
           PointsOf(line.points, n, from, to)
    PROVE  LET x == Occupancy!Ends(from, to)[1][1] + n
           IN  /\ Occupancy!Step(line, x, from, to) \in Traces
               /\ PointsOf(Occupancy!Step(line, x, from, to).points, n + 1, from, to)
<1>1. PICK x0 \in Int : x0 = Occupancy!Ends(from, to)[1][1]
  BY LineGoes DEF Points
<1>2. PICK point \in Points :
         /\ point = Occupancy!PointAt(x0 + n, line.y, from, to)
         /\ \A cell \in Points : cell = point <=> Occupancy!OnLine(from, to, cell)
                                                  /\ Col(from, to, cell) - x0 = n
  BY <1>1, PointOfColumn
<1>3. PICK points \in Seq(Points) : points = line.points
  BY DEF Traces
<1>4. PICK end : end = LeftOut(from, to)
  OBVIOUS
<1> DEFINE step_ == Occupancy!Step(line, x0 + n, from, to)
           more == IF point = end THEN points ELSE Append(points, point)
<1>5. step_.points = more
  BY <1>2, <1>3, <1>4 DEF Occupancy!Step, Occupancy!Pushed, LeftOut
<1>6. step_ \in Traces
  <2>1. x0 + n \in Int
    BY <1>1, LineGoes
  <2> QED
    BY <2>1, StepTyped
<1>7. \A cell \in Points : Col(from, to, cell) - x0 \in Int
  BY <1>1 DEF Points, Col
<1>8. /\ OnceEach(points)
      /\ \A cell \in Points :
            IsIn(points, cell) <=> /\ Occupancy!OnLine(from, to, cell) /\ cell # end
                                   /\ Col(from, to, cell) - x0 < n
  BY <1>1, <1>3, <1>4 DEF PointsOf
<1>9. n \in Nat
  BY LineGoes
<1>10. ~ IsIn(points, point)
  BY <1>2, <1>8, <1>9
<1>11. Len(points) \in Nat
  OBVIOUS
<1>12. OnceEach(more)
  <2>1. CASE point = end
    BY <1>8, <2>1
  <2>2. CASE point # end
    <3>1. /\ more = Append(points, point) /\ Len(more) = Len(points) + 1
          /\ \A j \in 1..Len(points) : more[j] = points[j]
          /\ more[Len(points) + 1] = point
      BY <2>2
    <3> HIDE DEF more
    <3>2. \A j \in 1..Len(points) : points[j] # point
      BY <1>10 DEF IsIn
    <3>3. \A j \in 1..Len(points) + 1 : j = Len(points) + 1 \/ j \in 1..Len(points)
      BY <1>11
    <3> QED
      BY <1>8, <3>1, <3>2, <3>3 DEF OnceEach
  <2> QED
    BY <2>1, <2>2
<1>13. \A cell \in Points :
          IsIn(more, cell) <=> IsIn(points, cell) \/ (cell = point /\ cell # end)
  <2>1. CASE point = end
    BY <2>1
  <2>2. CASE point # end
    <3>1. /\ more = Append(points, point) /\ Len(more) = Len(points) + 1
          /\ \A j \in 1..Len(points) : more[j] = points[j]
          /\ more[Len(points) + 1] = point
      BY <2>2
    <3> HIDE DEF more
    <3>2. \A j : j \in 1..Len(points) + 1 <=> j = Len(points) + 1 \/ j \in 1..Len(points)
      BY <1>11
    <3> QED
      BY <2>2, <3>1, <3>2 DEF IsIn
  <2> QED
    BY <2>1, <2>2
<1>14. \A cell \in Points :
          IsIn(more, cell) <=> /\ Occupancy!OnLine(from, to, cell) /\ cell # end
                               /\ Col(from, to, cell) - x0 < n + 1
  <2> SUFFICES ASSUME NEW cell \in Points
               PROVE  IsIn(more, cell) <=> /\ Occupancy!OnLine(from, to, cell)
                                           /\ cell # end
                                           /\ Col(from, to, cell) - x0 < n + 1
    OBVIOUS
  <2>1. PICK k \in Int : k = Col(from, to, cell) - x0
    BY <1>7
  <2>2. k < n + 1 <=> k < n \/ k = n
    BY <1>9
  <2> HIDE DEF more
  <2> QED
    BY <1>2, <1>8, <1>13, <2>1, <2>2
<1> HIDE DEF step_, more
<1>15. PointsOf(step_.points, n + 1, from, to)
  BY <1>1, <1>4, <1>5, <1>12, <1>14 DEF PointsOf
<1> QED
  BY <1>1, <1>6, <1>15 DEF step_

\* The line of TraceLine, all of it.
LEMMA LineTraced ==
    ASSUME NEW from \in Points, NEW to \in Points
    PROVE  LET points == Occupancy!TraceLine(from, to)
           IN  /\ points \in Seq(Points)
               /\ OnceEach(points)
               /\ \A cell \in Points :
                     IsIn(points, cell) <=> /\ Occupancy!OnLine(from, to, cell)
                                            /\ cell # LeftOut(from, to)
<1>1. PICK dx \in Nat, x0, y0 \in Int :
         /\ dx = Occupancy!DeltaX(from, to)
         /\ x0 = Occupancy!Ends(from, to)[1][1] /\ y0 = Occupancy!Ends(from, to)[1][2]
  BY LineGoes DEF Points
<1> DEFINE Is(f) == f = [n \in 0..dx + 1 |->
                           IF n = 0 THEN [y |-> y0, error |-> 0, points |-> <<>>]
                           ELSE Occupancy!Step(f[n - 1], x0 + n - 1, from, to)]
           line == CHOOSE f : Is(f)
           Good(l, n) == /\ l \in Traces /\ OnItsWay(l, n, from, to)
                         /\ PointsOf(l.points, n, from, to)
           first == [y |-> y0, error |-> 0, points |-> <<>>]
<1>2. Occupancy!TraceLine(from, to) = line[dx + 1].points
  BY <1>1, Zenon DEF Occupancy!TraceLine
<1>3. Good(first, 0)
  <2>1. first \in Traces
    BY DEF Traces
  <2>2. OnItsWay(first, 0, from, to)
    <3>1. 0 * Occupancy!DeltaY(from, to) - 0 * dx = 0
      BY LineGoes
    <3>2. Near(0, 0, dx, Occupancy!DeltaY(from, to))
      BY LineGoes DEF Near
    <3>3. y0 + Occupancy!YStep(from, to) * 0 = y0
      BY LineGoes
    <3> QED
      BY <1>1, <3>1, <3>2, <3>3 DEF OnItsWay
  <2>3. PointsOf(<<>>, 0, from, to)
    <3>1. \A cell : ~ IsIn(<<>>, cell)
      BY DEF IsIn
    <3>2. OnceEach(<<>>)
      BY DEF OnceEach
    <3>3. \A cell \in Points : Occupancy!OnLine(from, to, cell)
             => ~(Col(from, to, cell) - Occupancy!Ends(from, to)[1][1] < 0)
      <4> SUFFICES ASSUME NEW cell \in Points, Occupancy!OnLine(from, to, cell)
                   PROVE  ~(Col(from, to, cell) - Occupancy!Ends(from, to)[1][1] < 0)
        OBVIOUS
      <4>1. Col(from, to, cell) - Occupancy!Ends(from, to)[1][1] \in 0..dx
        BY <1>1, OnLineIs
      <4> QED
        BY <4>1
    <3> QED
      BY <3>1, <3>2, <3>3 DEF PointsOf
  <2> QED
    BY <2>1, <2>2, <2>3
<1>4. \A n \in 0..dx : \A l \in Traces :
         Good(l, n) => Good(Occupancy!Step(l, x0 + n, from, to), n + 1)
  BY <1>1, WayGoesOn, PointPushed
<1>5. PICK trace : /\ trace \in [0..dx + 1 -> Traces] /\ trace[0] = first
                    /\ \A n \in 1..dx + 1 :
                          trace[n] = Occupancy!Step(trace[n - 1], x0 + n - 1, from, to)
  <2> DEFINE N == dx + 1
             F == [s \in (1..N) \X Traces |-> Occupancy!Step(s[2], x0 + s[1] - 1, from, to)]
  <2>1. N \in Nat /\ first \in Traces
    BY <1>3
  <2>2. F \in Steps(N, Traces)
    <3> SUFFICES ASSUME NEW s \in (1..N) \X Traces
                 PROVE  Occupancy!Step(s[2], x0 + s[1] - 1, from, to) \in Traces
      BY DEF Steps
    <3>1. s[2] \in Traces /\ x0 + s[1] - 1 \in Int
      OBVIOUS
    <3> QED
      BY <3>1, StepTyped
  <2>3. \A n \in 1..N, l \in Traces : F[<<n, l>>] = Occupancy!Step(l, x0 + n - 1, from, to)
    OBVIOUS
  <2>4. \A n \in 1..N : n - 1 \in 0..N
    OBVIOUS
  <2> HIDE DEF F, first, N
  <2>5. PICK f : IsRecursion(f, N, Traces, first, F)
    BY <2>1, <2>2, RecursionExists
  <2>6. /\ f \in [0..N -> Traces] /\ f[0] = first
        /\ \A n \in 1..N : f[n] = F[<<n, f[n - 1]>>]
    BY <2>5 DEF IsRecursion
  <2>7. \A n \in 1..N : f[n] = Occupancy!Step(f[n - 1], x0 + n - 1, from, to)
    BY <2>3, <2>4, <2>6
  <2> QED
    BY <2>6, <2>7 DEF N
<1>6. Is(line)
  <2>1. Is(trace)
    <3>1. \A n \in 0..dx + 1 : n # 0 => n \in 1..dx + 1
      OBVIOUS
    <3>2. \A n \in 0..dx + 1 :
             trace[n] = IF n = 0 THEN [y |-> y0, error |-> 0, points |-> <<>>]
                        ELSE Occupancy!Step(trace[n - 1], x0 + n - 1, from, to)
      BY <1>5, <3>1
    <3>3. trace = [n \in 0..dx + 1 |-> trace[n]]
      BY <1>5
    <3> QED
      BY <3>2, <3>3
  <2> HIDE DEF Is
  <2> QED
    BY <2>1, Zenon
<1> HIDE DEF line
<1>7. /\ line[0] = first
      /\ \A n \in 1..dx + 1 : line[n] = Occupancy!Step(line[n - 1], x0 + n - 1, from, to)
  <2>1. \A n \in 0..dx + 1 :
           line[n] = IF n = 0 THEN [y |-> y0, error |-> 0, points |-> <<>>]
                     ELSE Occupancy!Step(line[n - 1], x0 + n - 1, from, to)
    BY <1>6, Zenon
  <2>2. 0 \in 0..dx + 1 /\ \A n \in 1..dx + 1 : n \in 0..dx + 1 /\ n # 0
    OBVIOUS
  <2> QED
    BY <2>1, <2>2
<1> HIDE DEF Good, first, Is
<1>8. Good(line[dx + 1], dx + 1)
  <2> DEFINE Bad == {n \in 0..dx + 1 : ~Good(line[n], n)}
  <2> SUFFICES ASSUME Bad # {} PROVE FALSE
    <3>1. dx + 1 \in 0..dx + 1
      OBVIOUS
    <3> QED
      BY <3>1
  <2>1. PICK n \in Bad : \A j \in Bad : n <= j
    <3>1. Bad \in SUBSET Nat
      OBVIOUS
    <3> QED
      BY <3>1, LeastOf
  <2>2. n \in 1..dx + 1
    BY <1>3, <1>7
  <2>3. n - 1 \in 0..dx /\ n - 1 \in 0..dx + 1 /\ ~(n <= n - 1) /\ (n - 1) + 1 = n
        /\ x0 + (n - 1) = x0 + n - 1
    BY <2>2
  <2>4. Good(line[n - 1], n - 1)
    BY <2>1, <2>3
  <2>5. line[n - 1] \in Traces
    BY <2>4 DEF Good
  <2>6. Good(Occupancy!Step(line[n - 1], x0 + (n - 1), from, to), (n - 1) + 1)
    BY <1>4, <2>3, <2>4, <2>5
  <2> QED
    BY <1>7, <2>1, <2>2, <2>3, <2>6
<1>9. \A cell \in Points : Occupancy!OnLine(from, to, cell)
         => Col(from, to, cell) - Occupancy!Ends(from, to)[1][1] < dx + 1
  <2> SUFFICES ASSUME NEW cell \in Points, Occupancy!OnLine(from, to, cell)
               PROVE  Col(from, to, cell) - Occupancy!Ends(from, to)[1][1] < dx + 1
    OBVIOUS
  <2>1. Col(from, to, cell) - Occupancy!Ends(from, to)[1][1] \in 0..dx
    BY <1>1, OnLineIs
  <2> QED
    BY <2>1
<1>10. line[dx + 1].points \in Seq(Points)
  BY <1>8 DEF Good, Traces
<1>11. PointsOf(line[dx + 1].points, dx + 1, from, to)
  BY <1>8 DEF Good
<1> QED
  BY <1>2, <1>9, <1>10, <1>11 DEF PointsOf

Counts == [Occupancy!Cells -> Nat]

LEMMA CellsArePoints == Occupancy!Cells \subseteq Points
BY SizesAssumption DEF Occupancy!Cells, Points

LEMMA NearIsBetween ==
    ASSUME NEW dx \in Nat, NEW dy \in 0..dx, NEW k \in 0..dx, NEW m \in Int, Near(k, m, dx, dy)
    PROVE  m \in 0..dy
<1>1. CASE dx = 0
  BY <1>1 DEF Near
<1>2. CASE dx # 0
  <2> DEFINE a == m * dx
             c == k * dy
             b == dy * dx
  <2>1. a \in Int /\ c \in Int /\ b \in Int
    OBVIOUS
  <2>2. -dx < 2 * a - 2 * c /\ 2 * a - 2 * c <= dx
    BY <1>2 DEF Near
  <2>3. 0 <= c /\ c <= b
    <3>1. 0 <= k * dy
      OBVIOUS
    <3>2. (dx - k) * dy >= 0
      OBVIOUS
    <3>3. (dx - k) * dy = dy * dx - k * dy
      OBVIOUS
    <3> HIDE DEF a, b
    <3> QED
      BY <2>1, <3>1, <3>2, <3>3 DEF b
  <2>4. m <= -1 => a <= -dx
    OBVIOUS
  <2>5. m >= dy + 1 => a >= b + dx
    <3> SUFFICES ASSUME m >= dy + 1 PROVE a >= b + dx
      OBVIOUS
    <3>1. (m - dy - 1) * dx >= 0
      OBVIOUS
    <3>2. (m - dy - 1) * dx = m * dx - dy * dx - dx
      OBVIOUS
    <3> QED
      BY <3>1, <3>2
  <2> HIDE DEF a, b, c
  <2> QED
    BY <1>2, <2>1, <2>2, <2>3, <2>4, <2>5
<1> QED
  BY <1>1, <1>2

\* OccupanyMapping takes the indices of freeIndex unchecked: between two cells of a map of any
\* size the line has no other.
THEOREM LineStaysInMap ==
    ASSUME NEW from \in Occupancy!Cells, NEW to \in Occupancy!Cells,
           NEW j \in 1..Len(Occupancy!TraceLine(from, to))
    PROVE  Occupancy!TraceLine(from, to)[j] \in Occupancy!Cells
<1>1. from \in Points /\ to \in Points
  BY CellsArePoints
<1>2. PICK cell \in Points : cell = Occupancy!TraceLine(from, to)[j]
                             /\ Occupancy!OnLine(from, to, cell)
  BY <1>1, LineTraced DEF IsIn
<1>3. PICK x0, y0, x1, y1 \in Int : Occupancy!Ends(from, to) = << <<x0, y0>>, <<x1, y1>> >>
  BY <1>1, LineGoes DEF Points
<1>4. PICK dx \in Nat, dy \in Nat, s \in {1, -1} :
         /\ dy <= dx /\ s = Occupancy!YStep(from, to)
         /\ dx = Occupancy!DeltaX(from, to) /\ dy = Occupancy!DeltaY(from, to)
         /\ dx = x1 - x0 /\ y1 - y0 = s * dy
  BY <1>1, <1>3, LineGoes DEF Occupancy!DeltaX
<1>5. PICK c \in Int, r \in Int : c = Col(from, to, cell) /\ r = Row(from, to, cell)
  BY DEF Points, Col, Row
<1>6. c - x0 \in 0..dx /\ Near(c - x0, s * (r - y0), dx, dy)
  <2>1. PICK start : start = Occupancy!Ends(from, to)[1]
    OBVIOUS
  <2>2. start[1] = x0 /\ start[2] = y0
    BY <1>3, <2>1
  <2>3. Occupancy!OnLine(from, to, cell) <=>
          /\ c - start[1] \in 0..dx /\ Near(c - start[1], s * (r - start[2]), dx, dy)
    BY <1>1, <1>4, <1>5, <2>1, OnLineIs
  <2> QED
    BY <1>2, <2>2, <2>3
<1>7. s * (r - y0) \in 0..dy
  <2>1. dy \in 0..dx /\ s * (r - y0) \in Int
    BY <1>4
  <2> QED
    BY <1>6, <2>1, NearIsBetween
<1>8. x0 <= c /\ c <= x1
  BY <1>4, <1>6
<1>9. (y0 <= r /\ r <= y1) \/ (y1 <= r /\ r <= y0)
  <2>1. CASE s = 1
    BY <1>4, <1>7, <2>1
  <2>2. CASE s = -1
    BY <1>4, <1>7, <2>2
  <2> QED
    BY <2>1, <2>2
<1>10. PICK a0 \in 0..Width - 1, b0 \in 0..Height - 1, a1 \in 0..Width - 1, b1 \in 0..Height - 1 :
         from = <<a0, b0>> /\ to = <<a1, b1>>
  BY DEF Occupancy!Cells
<1>11. PICK u, v : cell = <<u, v>>
  BY DEF Points
<1>12. CASE Occupancy!Steep(from, to)
  <2>1. c = v /\ r = u
    BY <1>5, <1>11, <1>12 DEF Col, Row
  <2>2. \/ x0 = b0 /\ y0 = a0 /\ x1 = b1 /\ y1 = a1
        \/ x0 = b1 /\ y0 = a1 /\ x1 = b0 /\ y1 = a0
    BY <1>3, <1>10, <1>12 DEF Occupancy!Ends, Occupancy!Swapped
  <2>3. u \in 0..Width - 1 /\ v \in 0..Height - 1
    BY <1>8, <1>9, <2>1, <2>2, SizesAssumption
  <2> QED
    BY <1>2, <1>11, <2>3 DEF Occupancy!Cells
<1>13. CASE ~Occupancy!Steep(from, to)
  <2>1. c = u /\ r = v
    BY <1>5, <1>11, <1>13 DEF Col, Row
  <2>2. \/ x0 = a0 /\ y0 = b0 /\ x1 = a1 /\ y1 = b1
        \/ x0 = a1 /\ y0 = b1 /\ x1 = a0 /\ y1 = b0
    BY <1>3, <1>10, <1>13 DEF Occupancy!Ends
  <2>3. u \in 0..Width - 1 /\ v \in 0..Height - 1
    BY <1>8, <1>9, <2>1, <2>2, SizesAssumption
  <2> QED
    BY <1>2, <1>11, <2>3 DEF Occupancy!Cells
<1> QED
  BY <1>12, <1>13

\* The loop over freeIndex lowers each cell of it, once.
LEMMA PassedIs ==
    ASSUME NEW map \in Counts, NEW points \in Seq(Points), OnceEach(points)
    PROVE  /\ Occupancy!Passed(map, points) \in Counts
           /\ \A cell \in Occupancy!Cells :
                 Occupancy!Passed(map, points)[cell]
                   = IF IsIn(points, cell) /\ map[cell] > 0 THEN map[cell] - 1 ELSE map[cell]
<1> DEFINE N == Len(points)
           Is(f) == f = [k \in 0..N |-> IF k = 0 THEN map
                                        ELSE Occupancy!Lower(f[k - 1], points[k])]
           passed == CHOOSE f : Is(f)
           Among(cell, k) == \E j \in 1..k : points[j] = cell
           After(cell, k) == IF Among(cell, k) /\ map[cell] > 0 THEN map[cell] - 1
                             ELSE map[cell]
           Good(m, k) == m \in Counts /\ \A cell \in Occupancy!Cells : m[cell] = After(cell, k)
<1>0. N \in Nat
  OBVIOUS
<1>1. Occupancy!Passed(map, points) = passed[N]
  BY Zenon DEF Occupancy!Passed
<1>2. \A m \in Counts : \A p : Occupancy!Lower(m, p) \in Counts
  <2> SUFFICES ASSUME NEW m \in Counts, NEW p PROVE Occupancy!Lower(m, p) \in Counts
    OBVIOUS
  <2>1. CASE p \in Occupancy!Cells
    <3>1. m[p] \in Nat
      BY <2>1 DEF Counts
    <3>2. PICK v \in Nat : v = IF m[p] + Occupancy!LogFree < 0 THEN 0
                                ELSE m[p] + Occupancy!LogFree
      BY <3>1 DEF Occupancy!LogFree
    <3>3. Occupancy!Lower(m, p) = [m EXCEPT ![p] = v]
      BY <3>2 DEF Occupancy!Lower
    <3> QED
      BY <3>2, <3>3 DEF Counts
  <2>2. CASE p \notin Occupancy!Cells
    BY <2>2 DEF Counts, Occupancy!Lower
  <2> QED
    BY <2>1, <2>2
<1>3. PICK trace : IsRecursion(trace, N, Counts, map,
                               [s \in (1..N) \X Counts |-> Occupancy!Lower(s[2], points[s[1]])])
  <2> DEFINE F == [s \in (1..N) \X Counts |-> Occupancy!Lower(s[2], points[s[1]])]
  <2>1. F \in Steps(N, Counts)
    BY <1>2 DEF Steps
  <2> HIDE DEF F
  <2>2. \E f : IsRecursion(f, N, Counts, map, F)
    BY <1>0, <2>1, RecursionExists
  <2> QED
    BY <2>2 DEF F
<1>4. Is(passed)
  <2>1. trace \in [0..N -> Counts] /\ trace[0] = map
    BY <1>3 DEF IsRecursion
  <2>2. \A k \in 1..N : trace[k] = Occupancy!Lower(trace[k - 1], points[k])
    <3> SUFFICES ASSUME NEW k \in 1..N
                 PROVE  trace[k] = Occupancy!Lower(trace[k - 1], points[k])
      OBVIOUS
    <3>1. k - 1 \in 0..N
      BY <1>0
    <3>2. trace[k] = [s \in (1..N) \X Counts
                        |-> Occupancy!Lower(s[2], points[s[1]])][<<k, trace[k - 1]>>]
      BY <1>3, Zenon DEF IsRecursion
    <3>3. <<k, trace[k - 1]>> \in (1..N) \X Counts
      BY <2>1, <3>1
    <3> QED
      BY <3>2, <3>3
  <2>3. \A k \in 0..N : k # 0 => k \in 1..N
    BY <1>0
  <2>4. trace = [k \in 0..N |-> trace[k]]
    BY <2>1
  <2> HIDE DEF N
  <2>5. Is(trace)
    BY <2>1, <2>2, <2>3, <2>4
  <2> HIDE DEF Is
  <2> QED
    BY <2>5, Zenon
<1> HIDE DEF passed
<1>5. /\ passed[0] = map
      /\ \A k \in 1..N : passed[k] = Occupancy!Lower(passed[k - 1], points[k])
  <2>1. \A k \in 0..N : passed[k] = IF k = 0 THEN map
                                    ELSE Occupancy!Lower(passed[k - 1], points[k])
    BY <1>4, Zenon
  <2>2. 0 \in 0..N /\ \A k \in 1..N : k \in 0..N /\ k # 0
    BY <1>0
  <2> QED
    BY <2>1, <2>2
<1>6. Good(map, 0)
  OBVIOUS
<1>7. \A k \in 1..N, m \in Counts :
         Good(m, k - 1) => Good(Occupancy!Lower(m, points[k]), k)
  <2> SUFFICES ASSUME NEW k \in 1..N, NEW m \in Counts, Good(m, k - 1),
                      NEW cell \in Occupancy!Cells
               PROVE  Occupancy!Lower(m, points[k])[cell] = After(cell, k)
    BY <1>2
  <2>1. k \in Nat /\ k >= 1 /\ k <= N
    BY <1>0
  <2>2. PICK u \in Nat : u = map[cell]
    BY DEF Counts
  <2>3. PICK v \in Nat : v = m[cell] /\ v = After(cell, k - 1)
    BY DEF Counts
  <2>4. Among(cell, k) <=> Among(cell, k - 1) \/ points[k] = cell
    <3>1. \A j : j \in 1..k <=> j \in 1..k - 1 \/ j = k
      BY <2>1
    <3> QED
      BY <3>1, Zenon
  <2>5. points[k] = cell => ~Among(cell, k - 1)
    <3>1. \A j \in 1..k - 1 : j # k /\ j \in 1..N /\ k \in 1..N
      BY <2>1
    <3> QED
      BY <3>1 DEF OnceEach
  <2>6. Occupancy!Lower(m, points[k])[cell]
          = IF points[k] = cell THEN (IF v - 1 < 0 THEN 0 ELSE v - 1) ELSE v
    BY <2>3 DEF Occupancy!Lower, Occupancy!LogFree, Counts
  <2>7. /\ v = IF Among(cell, k - 1) /\ u > 0 THEN u - 1 ELSE u
        /\ After(cell, k) = IF Among(cell, k) /\ u > 0 THEN u - 1 ELSE u
    BY <2>2, <2>3
  <2> HIDE DEF Among, After
  <2> QED
    BY <2>4, <2>5, <2>6, <2>7
<1>8. Good(passed[N], N)
  <2> DEFINE Bad == {k \in 0..N : ~Good(passed[k], k)}
  <2> HIDE DEF Good
  <2> SUFFICES ASSUME Bad # {} PROVE FALSE
    <3>1. N \in 0..N
      BY <1>0
    <3> QED
      BY <3>1
  <2>1. PICK k \in Bad : \A j \in Bad : k <= j
    <3>1. Bad \in SUBSET Nat
      OBVIOUS
    <3> QED
      BY <3>1, LeastOf
  <2>2. k \in 1..N
    BY <1>0, <1>5, <1>6
  <2>3. k - 1 \in 0..N /\ ~(k <= k - 1)
    BY <1>0, <2>2
  <2>4. Good(passed[k - 1], k - 1)
    BY <2>1, <2>3
  <2>5. passed[k - 1] \in Counts
    BY <2>4 DEF Good
  <2>6. Good(Occupancy!Lower(passed[k - 1], points[k]), k)
    BY <1>7, <2>2, <2>4, <2>5
  <2> QED
    BY <1>5, <2>1, <2>2, <2>6
<1> QED
  BY <1>1, <1>8 DEF IsIn

LEMMA BeamHeard ==
    ASSUME NEW map \in Counts, NEW from \in Occupancy!Cells, NEW to \in Occupancy!Cells
    PROVE  LET after == Occupancy!Raise(
                            Occupancy!Passed(map, Occupancy!TraceLine(from, to)), to)
           IN  /\ after \in Counts
               /\ Occupancy!Counted(map, after, <<from, to>>)
<1>1. from \in Points /\ to \in Points /\ \A cell \in Occupancy!Cells : cell \in Points
  BY CellsArePoints
<1>2. PICK points \in Seq(Points) :
         /\ points = Occupancy!TraceLine(from, to) /\ OnceEach(points)
         /\ \A cell \in Points :
               IsIn(points, cell) <=> /\ Occupancy!OnLine(from, to, cell)
                                      /\ cell # LeftOut(from, to)
  BY <1>1, LineTraced
<1>3. PICK passed \in Counts :
         /\ passed = Occupancy!Passed(map, points)
         /\ \A cell \in Occupancy!Cells :
               passed[cell] = IF IsIn(points, cell) /\ map[cell] > 0 THEN map[cell] - 1
                              ELSE map[cell]
  BY <1>2, PassedIs
<1> DEFINE after == Occupancy!Raise(passed, to)
           beam == <<from, to>>
<1>4. \A cell \in Occupancy!Cells :
         after[cell] = IF to # cell THEN passed[cell]
                       ELSE IF passed[cell] + 2 > MaxCount THEN MaxCount ELSE passed[cell] + 2
  BY DEF Occupancy!Raise, Occupancy!LogOcc, Counts
<1>5. after \in Counts
  BY SizesAssumption DEF Occupancy!Raise, Occupancy!LogOcc, Counts
<1>6. beam[1] = from /\ beam[2] = to
  OBVIOUS
<1> HIDE DEF after, beam
<1>7. PICK left \in {{}} \cup {{cell} : cell \in Occupancy!Cells} :
         \A cell \in Occupancy!Cells : cell \in left <=> cell = LeftOut(from, to)
  <2>1. PICK end : end = LeftOut(from, to)
    OBVIOUS
  <2> DEFINE left_ == {cell \in Occupancy!Cells : cell = end}
  <2>2. \A cell \in Occupancy!Cells : cell \in left_ <=> cell = LeftOut(from, to)
    BY <2>1
  <2>3. left_ = {} \/ (end \in Occupancy!Cells /\ left_ = {end})
    OBVIOUS
  <2>4. left_ \in {{}} \cup {{cell} : cell \in Occupancy!Cells}
    BY <2>3
  <2> HIDE DEF left_
  <2> QED
    BY <2>2, <2>4
<1>8. ASSUME Occupancy!GoesRight(beam) PROVE left = {beam[2]}
  <2>1. PICK x0, y0, x1, y1 \in Int : from = <<x0, y0>> /\ to = <<x1, y1>>
    BY <1>1 DEF Points
  <2>2. ~Occupancy!Steep(from, to) /\ x0 <= x1
    BY <1>6, <1>8, <2>1 DEF Occupancy!GoesRight
  <2>3. Occupancy!Ends(from, to) = <<from, to>>
    BY <2>1, <2>2 DEF Occupancy!Ends
  <2>4. LeftOut(from, to) = to
    BY <2>3 DEF LeftOut
  <2> QED
    BY <1>6, <1>7, <2>4
<1>9. ASSUME NEW cell \in Occupancy!Cells
      PROVE  after[cell] = Occupancy!Heard(map[cell], beam, cell, left)
  <2>1. IsIn(points, cell) <=> Occupancy!OnLine(from, to, cell) /\ cell \notin left
    BY <1>1, <1>2, <1>7
  <2> QED
    BY <1>3, <1>4, <1>6, <2>1 DEF Occupancy!Heard
<1>10. Occupancy!Counted(map, after, beam)
  BY <1>6, <1>8, <1>9 DEF Occupancy!Counted
<1> QED
  BY <1>2, <1>3, <1>5, <1>10 DEF after, beam

Beams == Seq(Points \X Points)

\* The map counts, and beams start and end at indices.
OccupancyInv == pMap \in Counts /\ beams \in Beams

LEMMA OccupancyStarts ==
    ASSUME PackagesInit
    PROVE  OccupancyInv
<1>1. pMap = [cell \in Occupancy!Cells |-> Unknown] /\ beams = <<>>
  BY DEF PackagesInit, Occupancy!SetMapParams
<1> QED
  BY <1>1, SizesAssumption DEF OccupancyInv, Counts, Beams

LEMMA BeamCounted ==
    ASSUME OccupancyInv, Occupancy!InsertBeam
    PROVE  /\ OccupancyInv'
           /\ \E n \in DOMAIN beams' \ DOMAIN beams :
                 Occupancy!Counted(pMap, pMap', beams'[n])
<1>1. PICK from \in Occupancy!Cells \cup {<<-1, 0>>}, to \in Occupancy!Cells \cup {<<-1, 0>>} :
         /\ pMap' = IF from \in Occupancy!Cells /\ to \in Occupancy!Cells
                    THEN Occupancy!Raise(
                            Occupancy!Passed(pMap, Occupancy!TraceLine(from, to)), to)
                    ELSE pMap
         /\ beams' = Append(beams, <<from, to>>)
  BY DEF Occupancy!InsertBeam
<1>2. PICK beam \in Points \X Points : beam = <<from, to>>
  <2>1. <<-1, 0>> \in Points
    BY DEF Points
  <2> QED
    BY <2>1, CellsArePoints
<1>3. pMap \in Counts /\ beams \in Seq(Points \X Points)
  BY DEF OccupancyInv, Beams
<1>4. /\ beams' \in Beams
      /\ Len(beams) + 1 \in DOMAIN beams' \ DOMAIN beams
      /\ beams'[Len(beams) + 1] = beam
  BY <1>1, <1>2, <1>3 DEF Beams
<1>5. /\ pMap' \in Counts
      /\ Occupancy!Counted(pMap, pMap', beam)
  <2>1. CASE from \in Occupancy!Cells /\ to \in Occupancy!Cells
    BY <1>1, <1>2, <1>3, <2>1, BeamHeard
  <2>2. CASE ~(from \in Occupancy!Cells /\ to \in Occupancy!Cells)
    <3>1. pMap' = pMap
      BY <1>1, <2>2
    <3>2. beam[1] = from /\ beam[2] = to
      BY <1>2
    <3> QED
      BY <1>3, <2>2, <3>1, <3>2 DEF Occupancy!Counted
  <2> QED
    BY <2>1, <2>2
<1> QED
  BY <1>4, <1>5 DEF OccupancyInv

\* OccupanyMapping: in a map of any size each beam that starts and ends in it is counted once by
\* every cell nearest to the straight line and once by the cell it has hit; at most one cell of
\* the line is left out, the one hit if the beam goes right and is not steep.
THEOREM BeamsAlwaysCounted == PackagesSpec => BeamsCounted
<1>1. PackagesInit => OccupancyInv
  BY OccupancyStarts
<1> DEFINE Step == \E n \in DOMAIN beams' \ DOMAIN beams :
                      Occupancy!Counted(pMap, pMap', beams'[n])
<1>2. OccupancyInv /\ [PackagesNext]_packagesVars
        => OccupancyInv' /\ [Step]_Occupancy!occupancyVars
  <2> SUFFICES ASSUME OccupancyInv, [PackagesNext]_packagesVars
               PROVE  OccupancyInv' /\ [Step]_Occupancy!occupancyVars
    OBVIOUS
  <2>1. CASE UNCHANGED mapVars
    BY <2>1 DEF mapVars, OccupancyInv, Occupancy!occupancyVars
  <2>2. CASE OccupancyNext
    BY <2>2, BeamCounted DEF OccupancyNext, Occupancy!Next
  <2>3. OccupancyNext \/ UNCHANGED mapVars
    BY DEF PackagesNext, packagesVars, FilterNext, NodeNext, ViewerNext, CalibrationNext,
           UndistortionNext
  <2> QED
    BY <2>1, <2>2, <2>3
<1> QED
  BY <1>1, <1>2, PackagesBehave, PTL DEF BeamsCounted, Occupancy!BeamsCounted
=============================================================================

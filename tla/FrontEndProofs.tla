---------------------------- MODULE FrontEndProofs ----------------------------
(***************************************************************************)
(* What a trajectory's submaps look like after any number of range data,   *)
(* for any options_.num_range_data(); that the correction of scan matching *)
(* is kept by the odometry that follows, for any group of rigid            *)
(* transforms, any data and any number of odometry states; that the forest *)
(* of TrajectoryConnectivity says what the direct connections say, for any *)
(* number of trajectories; and that the optimizing builder discards only   *)
(* data it does not need, for any accumulation and any data.               *)
(***************************************************************************)
EXTENDS FrontEnd, SequenceTheorems, FiniteSetTheorems, WellFoundedInduction, TLAPS
-----------------------------------------------------------------------------
(* The submaps of a trajectory.                                             *)

\* A submap as a record.
Sub(n, done) == [num_range_data |-> n, finished |-> done]

\* Setting the finished field of a submap.
LEMMA SetFinished == \A n, a, b : [Sub(n, a) EXCEPT !.finished = b] = Sub(n, b)
BY DEF Sub

\* push_back.
LEMMA AppendOne ==
    ASSUME NEW S, NEW s \in Seq(S), NEW e \in S
    PROVE  /\ Append(s, e) \in Seq(S)
           /\ Len(Append(s, e)) = Len(s) + 1
           /\ Append(s, e)[Len(s) + 1] = e
           /\ \A k \in 1..Len(s) : Append(s, e)[k] = s[k]
OBVIOUS

LEMMA AppendSubmap ==
    \A s \in Seq(Submap), e \in Submap :
       /\ Append(s, e) \in Seq(Submap)
       /\ Len(Append(s, e)) = Len(s) + 1
       /\ Append(s, e)[Len(s) + 1] = e
       /\ \A k \in 1..Len(s) : Append(s, e)[k] = s[k]
BY AppendOne, Zenon

\* A change of one submap.
LEMMA ChangeSubmap ==
    \A s \in Seq(Submap), e \in Submap : \A i \in 1..Len(s) :
       /\ [s EXCEPT ![i] = e] \in Seq(Submap)
       /\ Len([s EXCEPT ![i] = e]) = Len(s)
       /\ [s EXCEPT ![i] = e][i] = e
       /\ \A k \in 1..Len(s) \ {i} : [s EXCEPT ![i] = e][k] = s[k]
<1> SUFFICES ASSUME NEW s \in Seq(Submap), NEW e \in Submap, NEW i \in 1..Len(s)
             PROVE  /\ [s EXCEPT ![i] = e] \in Seq(Submap)
                    /\ Len([s EXCEPT ![i] = e]) = Len(s)
                    /\ [s EXCEPT ![i] = e][i] = e
                    /\ \A k \in 1..Len(s) \ {i} : [s EXCEPT ![i] = e][k] = s[k]
  OBVIOUS
<1>1. QED
  BY ExceptSeq

\* A collection of one submap.
LEMMA Singleton ==
    ASSUME NEW S, NEW e \in S
    PROVE  <<e>> \in Seq(S) /\ Len(<<e>>) = 1 /\ <<e>>[1] = e
OBVIOUS

\* Inserting into submap i changes that element only.
LEMMA InsertOne ==
    ASSUME NEW s \in Seq(Submap), NEW i \in 0..Len(s) - 1,
           NEW n \in 0..2 * NumRangeData - 1, NEW done \in BOOLEAN,
           s[i + 1] = Sub(n, done)
    PROVE  /\ Insert(s, i) \in Seq(Submap)
           /\ Len(Insert(s, i)) = Len(s)
           /\ Insert(s, i)[i + 1] = Sub(n + 1, done)
           /\ \A k \in 1..Len(s) \ {i + 1} : Insert(s, i)[k] = s[k]
<1> DEFINE r == Sub(n + 1, done)
<1>1. i + 1 \in 1..Len(s)
  BY LenProperties
<1>2. r \in Submap
  BY NumRangeDataAssumption DEF NumRangeDataAssumption, Submap, Sub
<1>3. Insert(s, i) = [s EXCEPT ![i + 1] = r]
  <2>1. r = [s[i + 1] EXCEPT !.num_range_data = s[i + 1].num_range_data + 1]
    BY DEF Sub
  <2>2. QED
    BY <2>1, Zenon DEF Insert
<1> HIDE DEF r
<1>4. /\ [s EXCEPT ![i + 1] = r] \in Seq(Submap)
      /\ Len([s EXCEPT ![i + 1] = r]) = Len(s)
      /\ [s EXCEPT ![i + 1] = r][i + 1] = r
      /\ \A k \in 1..Len(s) \ {i + 1} : [s EXCEPT ![i + 1] = r][k] = s[k]
  BY <1>1, <1>2, ChangeSubmap
<1>5. QED
  BY <1>3, <1>4, Zenon DEF r

\* Finishing submap i changes that element only.
LEMMA FinishOne ==
    ASSUME NEW s \in Seq(Submap), NEW i \in 0..Len(s) - 1,
           NEW n \in 0..2 * NumRangeData, s[i + 1] = Sub(n, FALSE)
    PROVE  /\ FinishSubmap(s, i) \in Seq(Submap)
           /\ Len(FinishSubmap(s, i)) = Len(s)
           /\ FinishSubmap(s, i)[i + 1] = Sub(n, TRUE)
           /\ \A k \in 1..Len(s) \ {i + 1} : FinishSubmap(s, i)[k] = s[k]
<1> DEFINE r == Sub(n, TRUE)
<1>1. i + 1 \in 1..Len(s)
  BY LenProperties
<1>2. r \in Submap
  BY DEF Submap, Sub
<1>3. FinishSubmap(s, i) = [s EXCEPT ![i + 1] = r]
  <2>1. r = [s[i + 1] EXCEPT !.finished = TRUE]
    <3>1. [Sub(n, FALSE) EXCEPT !.finished = TRUE] = r
      BY SetFinished, Zenon
    <3>2. QED
      BY <3>1, Zenon
  <2>2. QED
    BY <2>1, Zenon DEF FinishSubmap
<1> HIDE DEF r
<1>4. /\ [s EXCEPT ![i + 1] = r] \in Seq(Submap)
      /\ Len([s EXCEPT ![i + 1] = r]) = Len(s)
      /\ [s EXCEPT ![i + 1] = r][i + 1] = r
      /\ \A k \in 1..Len(s) \ {i + 1} : [s EXCEPT ![i + 1] = r][k] = s[k]
  BY <1>1, <1>2, ChangeSubmap
<1>5. QED
  BY <1>3, <1>4, Zenon DEF r

\* The effect of one range data while there is only the initial submap.
LEMMA FirstSubmap ==
    ASSUME NEW s \in Seq(Submap), Len(s) = 1,
           NEW n \in 0..NumRangeData - 1, s[1] = Sub(n, FALSE)
    PROVE  /\ InsertRangeData(s) \in Seq(Submap)
           /\ InsertRangeData(s)[1] = Sub(n + 1, FALSE)
           /\ n + 1 = NumRangeData =>
                 /\ Len(InsertRangeData(s)) = 2
                 /\ InsertRangeData(s)[2] = Sub(0, FALSE)
           /\ n + 1 # NumRangeData => Len(InsertRangeData(s)) = 1
<1> USE NumRangeDataAssumption DEF NumRangeDataAssumption
<1> DEFINE a == Insert(s, 0)
<1>1. /\ a \in Seq(Submap)
      /\ Len(a) = 1
      /\ a[1] = Sub(n + 1, FALSE)
  <2>1. n \in 0..2 * NumRangeData - 1 /\ 0 \in 0..Len(s) - 1 /\ 0 + 1 = 1
    OBVIOUS
  <2>2. s[0 + 1] = Sub(n, FALSE)
    BY <2>1
  <2>3. a \in Seq(Submap) /\ Len(a) = Len(s) /\ a[0 + 1] = Sub(n + 1, FALSE)
    BY <2>1, <2>2, InsertOne
  <2>4. QED
    BY <2>1, <2>3
<1> HIDE DEF a
<1>2. EmptySubmap \in Submap /\ EmptySubmap = Sub(0, FALSE)
  BY DEF EmptySubmap, Submap, Sub
<1>3. a[1].num_range_data = n + 1
  BY <1>1 DEF Sub
<1>4. InsertRangeData(s) = IF n + 1 = NumRangeData THEN Append(a, EmptySubmap) ELSE a
  <2>1. Len(s) - 1 = 0 /\ 0 + 1 = 1 /\ ~(0 > 0)
    OBVIOUS
  <2>2. InsertRangeData(s) = IF a[1].num_range_data = NumRangeData
                             THEN AddSubmap(a) ELSE a
    BY <2>1, Zenon DEF InsertRangeData, a
  <2>3. AddSubmap(a) = Append(a, EmptySubmap)
    BY <1>1 DEF AddSubmap
  <2>4. QED
    BY <1>3, <2>2, <2>3
<1>5. CASE n + 1 = NumRangeData
  <2>1. InsertRangeData(s) = Append(a, EmptySubmap)
    BY <1>4, <1>5
  <2>2. /\ Append(a, EmptySubmap) \in Seq(Submap)
        /\ Len(Append(a, EmptySubmap)) = Len(a) + 1
        /\ Append(a, EmptySubmap)[Len(a) + 1] = EmptySubmap
        /\ \A k \in 1..Len(a) : Append(a, EmptySubmap)[k] = a[k]
    BY <1>1, <1>2, AppendSubmap
  <2>3. Len(a) + 1 = 2 /\ 1 \in 1..Len(a)
    BY <1>1
  <2>4. QED
    BY <1>1, <1>2, <1>5, <2>1, <2>2, <2>3
<1>6. CASE n + 1 # NumRangeData
  BY <1>1, <1>4, <1>6
<1>7. QED
  BY <1>5, <1>6

\* OldAndNew and the types for a value s: len submaps, n range data in the last.
Shape(s, len, n) ==
    /\ s \in Seq(Submap) /\ Len(s) = len
    /\ \A k \in 1..len - 2 : s[k] = Sub(2 * NumRangeData, TRUE)
    /\ len > 1 => s[len - 1] = Sub(NumRangeData + n, FALSE)
    /\ s[len] = Sub(n, FALSE)

\* The effect of one range data later on: the last two submaps get it, and
\* when the newest is full a submap is started and the older one finished.
LEMMA LaterSubmaps ==
    ASSUME NEW s, NEW len \in Nat \ {0}, len > 1,
           NEW n \in 0..NumRangeData - 1, Shape(s, len, n)
    PROVE  /\ InsertRangeData(s) \in Seq(Submap)
           /\ \A k \in 1..len - 2 : InsertRangeData(s)[k] = s[k]
           /\ InsertRangeData(s)[len] = Sub(n + 1, FALSE)
           /\ n + 1 = NumRangeData =>
                 /\ Len(InsertRangeData(s)) = len + 1
                 /\ InsertRangeData(s)[len - 1] = Sub(2 * NumRangeData, TRUE)
                 /\ InsertRangeData(s)[len + 1] = Sub(0, FALSE)
           /\ n + 1 # NumRangeData =>
                 /\ Len(InsertRangeData(s)) = len
                 /\ InsertRangeData(s)[len - 1] = Sub(NumRangeData + n + 1, FALSE)
<1> USE NumRangeDataAssumption DEF NumRangeDataAssumption
<1> DEFINE a == Insert(s, len - 2)
           b == Insert(a, len - 1)
           c == FinishSubmap(b, len - 2)
           m == NumRangeData + n
           twice == 2 * NumRangeData
<1> /\ s \in Seq(Submap) /\ Len(s) = len
    /\ s[len] = Sub(n, FALSE) /\ s[len - 1] = Sub(NumRangeData + n, FALSE)
  BY DEF Shape
<1>1. /\ (len - 2) + 1 = len - 1 /\ (len - 1) + 1 = len
      /\ len - 2 \in 0..len - 1 /\ len - 1 \in 0..len - 1
      /\ len - 1 \in 1..len /\ len \in 1..len /\ len # len - 1
      /\ m \in 0..twice - 1 /\ n \in 0..twice - 1 /\ m + 1 \in 0..twice
      /\ 1..len - 2 = 1..len \ {len - 1, len}
      /\ len - 1 > 0 /\ (len - 1) - 1 = len - 2
  OBVIOUS
<1>2. /\ a \in Seq(Submap) /\ Len(a) = len
      /\ a[len - 1] = Sub(m + 1, FALSE)
      /\ \A k \in 1..len \ {len - 1} : a[k] = s[k]
  <2> HIDE DEF m, twice
  <2>1. s[(len - 2) + 1] = Sub(m, FALSE)
    BY <1>1 DEF m
  <2>2. m \in 0..2 * NumRangeData - 1 /\ len - 2 \in 0..Len(s) - 1
    BY <1>1 DEF twice
  <2>3. /\ a \in Seq(Submap)
        /\ Len(a) = Len(s)
        /\ a[(len - 2) + 1] = Sub(m + 1, FALSE)
        /\ \A k \in 1..Len(s) \ {(len - 2) + 1} : a[k] = s[k]
    BY <2>1, <2>2, InsertOne
  <2>4. QED
    BY <1>1, <2>3
<1> HIDE DEF a
<1>3. /\ b \in Seq(Submap) /\ Len(b) = len
      /\ b[len] = Sub(n + 1, FALSE)
      /\ \A k \in 1..len \ {len} : b[k] = a[k]
  <2> HIDE DEF m, twice
  <2>1. a[(len - 1) + 1] = Sub(n, FALSE)
    BY <1>1, <1>2
  <2>2. n \in 0..2 * NumRangeData - 1 /\ len - 1 \in 0..Len(a) - 1
    BY <1>1, <1>2 DEF twice
  <2>3. /\ b \in Seq(Submap)
        /\ Len(b) = Len(a)
        /\ b[(len - 1) + 1] = Sub(n + 1, FALSE)
        /\ \A k \in 1..Len(a) \ {(len - 1) + 1} : b[k] = a[k]
    BY <1>2, <2>1, <2>2, InsertOne
  <2>4. QED
    BY <1>1, <1>2, <2>3
<1> HIDE DEF b
<1>4. b[len - 1] = Sub(m + 1, FALSE)
  BY <1>1, <1>2, <1>3
<1>5. /\ c \in Seq(Submap) /\ Len(c) = len
      /\ c[len - 1] = Sub(m + 1, TRUE)
      /\ \A k \in 1..len \ {len - 1} : c[k] = b[k]
  <2> HIDE DEF m, twice
  <2>1. b[(len - 2) + 1] = Sub(m + 1, FALSE)
    BY <1>1, <1>4
  <2>2. m + 1 \in 0..2 * NumRangeData /\ len - 2 \in 0..Len(b) - 1
    BY <1>1, <1>3 DEF twice
  <2>3. /\ c \in Seq(Submap)
        /\ Len(c) = Len(b)
        /\ c[(len - 2) + 1] = Sub(m + 1, TRUE)
        /\ \A k \in 1..Len(b) \ {(len - 2) + 1} : c[k] = b[k]
    BY <1>3, <2>1, <2>2, FinishOne
  <2>4. QED
    BY <1>1, <1>3, <2>3
<1> HIDE DEF c
<1>6. EmptySubmap \in Submap /\ EmptySubmap = Sub(0, FALSE)
  BY DEF EmptySubmap, Submap, Sub
<1>7. InsertRangeData(s) = IF n + 1 = NumRangeData THEN Append(c, EmptySubmap) ELSE b
  <2>1. InsertRangeData(s) = IF b[len].num_range_data = NumRangeData
                             THEN AddSubmap(b) ELSE b
    BY <1>1, Zenon DEF InsertRangeData, a, b
  <2>2. AddSubmap(b) = Append(c, EmptySubmap)
    BY <1>3 DEF AddSubmap, c
  <2>3. b[len].num_range_data = n + 1
    BY <1>3 DEF Sub
  <2>4. QED
    BY <2>1, <2>2, <2>3
<1>8. CASE n + 1 = NumRangeData
  <2>1. /\ InsertRangeData(s) = Append(c, EmptySubmap)
        /\ m + 1 = twice
    BY <1>7, <1>8
  <2> HIDE DEF m
  <2>2. /\ InsertRangeData(s) \in Seq(Submap)
        /\ Len(InsertRangeData(s)) = len + 1
        /\ InsertRangeData(s)[len + 1] = Sub(0, FALSE)
        /\ \A k \in 1..len : InsertRangeData(s)[k] = c[k]
    <3>1. /\ Append(c, EmptySubmap) \in Seq(Submap)
          /\ Len(Append(c, EmptySubmap)) = Len(c) + 1
          /\ Append(c, EmptySubmap)[Len(c) + 1] = EmptySubmap
          /\ \A k \in 1..Len(c) : Append(c, EmptySubmap)[k] = c[k]
      BY <1>5, <1>6, AppendSubmap
    <3>2. QED
      BY <1>5, <1>6, <2>1, <3>1
  <2>3. c[len] = Sub(n + 1, FALSE) /\ \A k \in 1..len - 2 : c[k] = s[k]
    BY <1>1, <1>2, <1>3, <1>5
  <2>4. QED
    BY <1>1, <1>5, <1>8, <2>1, <2>2, <2>3
<1>9. CASE n + 1 # NumRangeData
  <2>1. InsertRangeData(s) = b
    BY <1>7, <1>9
  <2>2. \A k \in 1..len - 2 : b[k] = s[k]
    BY <1>1, <1>2, <1>3
  <2>3. QED
    BY <1>3, <1>4, <1>9, <2>1, <2>2
<1>10. QED
  BY <1>8, <1>9
-----------------------------------------------------------------------------
\* The state has the shape.
Shaped == \E len \in Nat \ {0}, n \in 0..NumRangeData - 1 : Shape(submaps, len, n)

LEMMA ShapeIsOldAndNew == Shaped => TypeOK /\ OldAndNew
<1> SUFFICES ASSUME NEW len \in Nat \ {0}, NEW n \in 0..NumRangeData - 1,
                    Shape(submaps, len, n)
             PROVE  TypeOK /\ OldAndNew
  BY DEF Shaped
<1>1. TypeOK /\ Len(submaps) = len /\ submaps[len] = Sub(n, FALSE)
  BY DEF Shape, TypeOK
<1>2. submaps[len].num_range_data = n /\ ~submaps[len].finished
  BY <1>1 DEF Sub
<1>3. /\ \A k \in 1..len - 2 :
            submaps[k] = [num_range_data |-> 2 * NumRangeData, finished |-> TRUE]
      /\ len > 1 => submaps[len - 1] = [num_range_data |-> NumRangeData + n,
                                        finished |-> FALSE]
  BY DEF Shape, Sub
<1>4. n < NumRangeData /\ len >= 1
  BY NumRangeDataAssumption DEF NumRangeDataAssumption
<1>5. OldAndNew
  BY <1>1, <1>2, <1>3, <1>4 DEF OldAndNew
<1>6. QED
  BY <1>1, <1>5

LEMMA InitHasShape == Init => Shaped
<1> SUFFICES ASSUME Init PROVE Shaped
  OBVIOUS
<1> USE NumRangeDataAssumption DEF NumRangeDataAssumption
<1>1. submaps = <<Sub(0, FALSE)>> /\ Sub(0, FALSE) \in Submap
  BY DEF Init, InitialSubmaps, EmptySubmap, Submap, Sub
<1>2. submaps \in Seq(Submap) /\ Len(submaps) = 1 /\ submaps[1] = Sub(0, FALSE)
  BY <1>1, Singleton, Zenon
<1>3. Shape(submaps, 1, 0)
  BY <1>2 DEF Shape
<1>4. 1 \in Nat \ {0} /\ 0 \in 0..NumRangeData - 1
  OBVIOUS
<1>5. QED
  BY <1>3, <1>4 DEF Shaped

\* Every call of InsertRangeData keeps the shape, and every submap before the
\* last two.
LEMMA InsertKeepsShape ==
    ASSUME NEW s, NEW len \in Nat \ {0}, NEW n \in 0..NumRangeData - 1,
           Shape(s, len, n)
    PROVE  /\ \E l \in Nat \ {0}, m \in 0..NumRangeData - 1 :
                 l >= len /\ Shape(InsertRangeData(s), l, m)
           /\ \A k \in 1..len - 2 : InsertRangeData(s)[k] = s[k]
<1> USE NumRangeDataAssumption DEF NumRangeDataAssumption
<1> DEFINE t == InsertRangeData(s)
           full == n + 1 = NumRangeData
<1>1. /\ s \in Seq(Submap) /\ Len(s) = len /\ s[len] = Sub(n, FALSE)
      /\ len > 1 => s[len - 1] = Sub(NumRangeData + n, FALSE)
      /\ \A k \in 1..len - 2 : s[k] = Sub(2 * NumRangeData, TRUE)
  BY DEF Shape
<1>2. CASE len = 1
  <2>1. /\ t \in Seq(Submap)
        /\ t[1] = Sub(n + 1, FALSE)
        /\ full => Len(t) = 2 /\ t[2] = Sub(0, FALSE)
        /\ ~full => Len(t) = 1
    BY <1>1, <1>2, FirstSubmap
  <2> HIDE DEF t
  <2>2. CASE full
    <3>1. NumRangeData + 0 = n + 1 /\ 2 - 1 = 1 /\ 2 - 2 = 0 /\ 1..0 = {}
      BY <2>2
    <3>2. Shape(t, 2, 0)
      BY <2>1, <2>2, <3>1 DEF Shape
    <3>3. QED
      BY <1>2, <3>2 DEF t
  <2>3. CASE ~full
    <3>1. n + 1 \in 0..NumRangeData - 1 /\ 1 - 2 = -1 /\ 1..-1 = {}
      BY <2>3
    <3>2. Shape(t, 1, n + 1)
      BY <2>1, <2>3, <3>1 DEF Shape
    <3>3. QED
      BY <1>2, <3>1, <3>2 DEF t
  <2>4. QED
    BY <2>2, <2>3
<1>3. CASE len > 1
  <2>1. /\ t \in Seq(Submap)
        /\ \A k \in 1..len - 2 : t[k] = s[k]
        /\ t[len] = Sub(n + 1, FALSE)
        /\ full => /\ Len(t) = len + 1
                   /\ t[len - 1] = Sub(2 * NumRangeData, TRUE)
                   /\ t[len + 1] = Sub(0, FALSE)
        /\ ~full => /\ Len(t) = len
                    /\ t[len - 1] = Sub(NumRangeData + n + 1, FALSE)
    BY <1>3, LaterSubmaps
  <2> HIDE DEF t
  <2>2. CASE full
    <3>1. /\ (len + 1) - 2 = len - 1 /\ (len + 1) - 1 = len
          /\ NumRangeData + 0 = n + 1
          /\ 1..len - 1 = (1..len - 2) \cup {len - 1}
      BY <1>3, <2>2
    <3>2. \A k \in 1..len - 1 : t[k] = Sub(2 * NumRangeData, TRUE)
      BY <1>1, <2>1, <2>2, <3>1
    <3>3. Shape(t, len + 1, 0)
      BY <2>1, <2>2, <3>1, <3>2 DEF Shape
    <3>4. QED
      BY <2>1, <3>3 DEF t
  <2>3. CASE ~full
    <3>1. n + 1 \in 0..NumRangeData - 1 /\ NumRangeData + (n + 1) = NumRangeData + n + 1
      BY <2>3
    <3>2. \A k \in 1..len - 2 : t[k] = Sub(2 * NumRangeData, TRUE)
      BY <1>1, <2>1
    <3>3. Shape(t, len, n + 1)
      BY <2>1, <2>3, <3>1, <3>2 DEF Shape
    <3>4. QED
      BY <2>1, <3>1, <3>3 DEF t
  <2>4. QED
    BY <2>2, <2>3
<1>4. QED
  BY <1>2, <1>3

LEMMA StepKeepsShape == Shaped /\ [Next]_submaps => Shaped'
<1>1. Shaped /\ AddRangeData => Shaped'
  <2> SUFFICES ASSUME NEW len \in Nat \ {0}, NEW n \in 0..NumRangeData - 1,
                      Shape(submaps, len, n), AddRangeData
               PROVE  Shaped'
    BY DEF Shaped
  <2>1. \E l \in Nat \ {0}, m \in 0..NumRangeData - 1 :
           Shape(InsertRangeData(submaps), l, m)
    BY InsertKeepsShape
  <2>2. QED
    BY <2>1 DEF Shaped, AddRangeData
<1>2. Shaped /\ UNCHANGED submaps => Shaped'
  BY DEF Shaped
<1>3. QED
  BY <1>1, <1>2 DEF Next

\* However much range data a trajectory gets, its submaps keep the promised
\* shape: two that get range data, the older one already initialized, and
\* before them only finished ones with twice num_range_data.
THEOREM SubmapsShape == Spec => [](TypeOK /\ OldAndNew)
BY InitHasShape, StepKeepsShape, ShapeIsOldAndNew, PTL DEF Spec

\* A finished submap never changes again: workers may read it without a lock.
THEOREM FinishedNeverChanges == Spec => FinishedIsFinal
<1> DEFINE Kept == \A i \in DOMAIN submaps :
                      submaps[i].finished => i \in DOMAIN submaps' /\ submaps'[i] = submaps[i]
<1>1. Shaped /\ Next => Kept
  <2> SUFFICES ASSUME NEW len \in Nat \ {0}, NEW n \in 0..NumRangeData - 1,
                      Shape(submaps, len, n), AddRangeData,
                      NEW i \in DOMAIN submaps, submaps[i].finished
               PROVE  i \in DOMAIN submaps' /\ submaps'[i] = submaps[i]
    BY DEF Shaped, Next
  <2>1. submaps' = InsertRangeData(submaps)
    BY DEF AddRangeData
  <2>2. DOMAIN submaps = 1..len /\ i \in 1..len
    BY LenProperties DEF Shape
  <2>3. i # len /\ i # len - 1
    BY DEF Shape, Sub
  <2>4. i \in 1..len - 2
    BY <2>2, <2>3
  <2>5. PICK l \in Nat \ {0}, m \in 0..NumRangeData - 1 :
           l >= len /\ Shape(submaps', l, m)
    BY <2>1, InsertKeepsShape
  <2>6. DOMAIN submaps' = 1..l
    BY <2>5, LenProperties DEF Shape
  <2>7. submaps'[i] = submaps[i]
    BY <2>1, <2>4, InsertKeepsShape
  <2>8. QED
    BY <2>2, <2>5, <2>6, <2>7
<1>2. Spec => []Shaped
  BY InitHasShape, StepKeepsShape, PTL DEF Spec
<1>3. QED
  BY <1>1, <1>2, PTL DEF Spec, FinishedIsFinal
-----------------------------------------------------------------------------
(* The local trajectory builder.                                            *)

\* The builder inserts into its submaps as the trajectory does.
THEOREM ImplementsSubmaps == LocalSpec => Spec
<1>1. LocalInit => Init
  BY DEF LocalInit
<1>2. [LocalNext]_<<localVars, submaps>> => [Next]_submaps
  BY DEF LocalNext, IgnoreData, AddImuData, AddOdometerData, AddRangefinderData,
         DropEmptyRangeData, MatchRangeData, InsertUnlessSimilar, Next
<1>3. QED
  BY <1>1, <1>2, PTL DEF LocalSpec, Spec
-----------------------------------------------------------------------------
\* A group.
LEMMA Cancel ==
    ASSUME NEW a \in Rigid, NEW b \in Rigid
    PROVE  /\ Compose(a, b) \in Rigid
           /\ Compose(a, Compose(InverseOf(a), b)) = b
           /\ Compose(InverseOf(a), Compose(a, b)) = b
           /\ Compose(Compose(a, InverseOf(b)), b) = a
<1>1. Compose(a, Compose(InverseOf(a), b)) = Compose(Compose(a, InverseOf(a)), b)
  BY GroupAssumption
<1>2. Compose(InverseOf(a), Compose(a, b)) = Compose(Compose(InverseOf(a), a), b)
  BY GroupAssumption
<1>3. Compose(Compose(a, InverseOf(b)), b) = Compose(a, Compose(InverseOf(b), b))
  BY GroupAssumption
<1>4. QED
  BY <1>1, <1>2, <1>3, GroupAssumption

\* Motion reported in two parts.
LEMMA Deltas ==
    ASSUME NEW a \in Rigid, NEW from \in Rigid, NEW at \in Rigid, NEW to \in Rigid
    PROVE  Compose(Compose(a, Compose(InverseOf(from), at)), Compose(InverseOf(at), to))
               = Compose(a, Compose(InverseOf(from), to))
<1> DEFINE d == Compose(InverseOf(at), to)
<1>1. d \in Rigid /\ Compose(at, d) = to
  BY Cancel, GroupAssumption
<1>2. Compose(Compose(InverseOf(from), at), d) = Compose(InverseOf(from), Compose(at, d))
  BY <1>1, GroupAssumption
<1>3. Compose(Compose(a, Compose(InverseOf(from), at)), d)
          = Compose(a, Compose(Compose(InverseOf(from), at), d))
  BY <1>1, GroupAssumption
<1>4. QED
  BY <1>1, <1>2, <1>3

\* What the estimate moves by, the prediction moves by.
LEMMA LeadMoves ==
    \A pose, c, ld, s, p \in Rigid :
       Compose(pose, c) = Compose(ld, s) =>
           Compose(p, c) = Compose(Compose(Compose(p, InverseOf(pose)), ld), s)
<1> SUFFICES ASSUME NEW pose \in Rigid, NEW c \in Rigid, NEW ld \in Rigid,
                    NEW s \in Rigid, NEW p \in Rigid, Compose(pose, c) = Compose(ld, s)
             PROVE  Compose(p, c) = Compose(Compose(Compose(p, InverseOf(pose)), ld), s)
  OBVIOUS
<1> DEFINE moved == Compose(p, InverseOf(pose))
<1>1. moved \in Rigid /\ Compose(moved, pose) = p
  BY Cancel, GroupAssumption
<1>2. Compose(Compose(moved, ld), s) = Compose(moved, Compose(pose, c))
  BY <1>1, GroupAssumption
<1>3. Compose(moved, Compose(pose, c)) = Compose(p, c)
  BY <1>1, GroupAssumption
<1>4. QED
  BY <1>1, <1>2, <1>3, GroupAssumption

\* The odometry state is taken back by what was predicted ahead of it.
LEMMA StateBehindLead ==
    ASSUME NEW ld \in Rigid, NEW s \in Rigid, NEW est \in Rigid
    PROVE  Compose(Compose(s, InverseOf(Compose(ld, s))), est) = Compose(InverseOf(ld), est)
<1> DEFINE pred == Compose(ld, s)
           back == Compose(s, InverseOf(pred))
<1>1. pred \in Rigid /\ InverseOf(pred) \in Rigid /\ back \in Rigid
  BY GroupAssumption
<1>2. Compose(ld, back) = Compose(pred, InverseOf(pred))
  BY <1>1, GroupAssumption
<1>3. Compose(ld, back) = Identity
  BY <1>1, <1>2, GroupAssumption
<1>4. Compose(InverseOf(ld), Compose(ld, back)) = back
  BY <1>1, Cancel
<1>5. back = InverseOf(ld)
  BY <1>1, <1>3, <1>4, GroupAssumption
<1>6. QED
  BY <1>5
-----------------------------------------------------------------------------
\* deque::push_back and pop_front.
LEMMA PushOne ==
    ASSUME NEW S, NEW s \in Seq(S), NEW e \in S
    PROVE  /\ Append(s, e) \in Seq(S)
           /\ Len(Append(s, e)) = Len(s) + 1
           /\ Append(s, e)[Len(s) + 1] = e
OBVIOUS

LEMMA PopOne ==
    ASSUME NEW S, NEW s \in Seq(S), Len(s) > 0
    PROVE  Tail(s) \in Seq(S) /\ Len(Tail(s)) = Len(s) - 1
OBVIOUS

LEMMA LastOne ==
    ASSUME NEW S, NEW s \in Seq(S), s # <<>>
    PROVE  Len(s) \in Nat /\ Len(s) > 0 /\ s[Len(s)] \in S
OBVIOUS

LEMMA EmptyOne == ASSUME NEW S PROVE <<>> \in Seq(S) /\ Len(<<>>) = 0
OBVIOUS

\* Whatever the window drops, the state just added is the newest.
LEMMA AddedIsNewest ==
    ASSUME NEW s \in Seq(OdometryState), Len(s) <= NumOdometryStates,
           NEW e \in OdometryState
    PROVE  LET added == AddOdometryState(s, e)
           IN  /\ added \in Seq(OdometryState)
               /\ Len(added) <= NumOdometryStates
               /\ added # <<>>
               /\ Newest(added) = e
<1>1. CASE Len(s) < NumOdometryStates
  <2>1. AddOdometryState(s, e) = Append(s, e)
    BY <1>1 DEF AddOdometryState
  <2>2. /\ Append(s, e) \in Seq(OdometryState)
        /\ Len(Append(s, e)) = Len(s) + 1
        /\ Append(s, e)[Len(s) + 1] = e
    BY PushOne
  <2>3. Len(s) \in Nat
    OBVIOUS
  <2>4. Append(s, e) # <<>>
    BY <2>2, <2>3, EmptyOne
  <2>5. QED
    BY <1>1, <2>1, <2>2, <2>3, <2>4, OptionsAssumption DEF Newest
<1>2. CASE ~(Len(s) < NumOdometryStates)
  <2> DEFINE t == Tail(s)
  <2>1. AddOdometryState(s, e) = Append(t, e)
    BY <1>2 DEF AddOdometryState
  <2>2. Len(s) \in Nat /\ Len(s) > 0 /\ Len(s) = NumOdometryStates
    BY <1>2, OptionsAssumption
  <2>3. t \in Seq(OdometryState) /\ Len(t) = Len(s) - 1
    BY <2>2, PopOne
  <2> HIDE DEF t
  <2>4. /\ Append(t, e) \in Seq(OdometryState)
        /\ Len(Append(t, e)) = Len(t) + 1
        /\ Append(t, e)[Len(t) + 1] = e
    BY <2>3, PushOne
  <2>5. Append(t, e) # <<>>
    BY <2>2, <2>3, <2>4, EmptyOne
  <2>6. QED
    BY <2>1, <2>2, <2>3, <2>4, <2>5 DEF Newest
<1>3. QED
  BY <1>1, <1>2

LEMMA NewestType ==
    ASSUME BuilderTypeOK, odometry_states_ # <<>>
    PROVE  /\ Newest(odometry_states_) \in OdometryState
           /\ Newest(odometry_states_).odometer_pose \in Rigid
           /\ Newest(odometry_states_).state_pose \in Rigid
<1>1. Newest(odometry_states_) \in OdometryState
  BY LastOne DEF BuilderTypeOK, Newest
<1>2. QED
  BY <1>1 DEF OdometryState
-----------------------------------------------------------------------------
IInv == BuilderTypeOK /\ CorrectionKept /\ StateFollowsEstimate

LEMMA InitIInv == LocalInit => IInv
<1> SUFFICES ASSUME LocalInit PROVE IInv
  OBVIOUS
<1>1. odometry_states_ \in Seq(OdometryState) /\ Len(odometry_states_) = 0
  BY EmptyOne DEF LocalInit
<1>2. BuilderTypeOK
  BY <1>1, GroupAssumption, OptionsAssumption
     DEF LocalInit, BuilderTypeOK, NoAnchor, TimeMin, NoTracker
<1>3. QED
  BY <1>2 DEF IInv, CorrectionKept, StateFollowsEstimate, LocalInit

\* What Predict may come to.
LEMMA PredictionsType ==
    ASSUME BuilderTypeOK, NEW time PROVE Predictions(time) \subseteq Rigid
<1>1. pose_estimate_ \in Rigid
  BY DEF BuilderTypeOK
<1>2. ASSUME NEW turn \in Turns PROVE Compose(pose_estimate_, turn) \in Rigid
  <2>1. turn \in Rigid
    BY GroupAssumption
  <2> QED
    BY <1>1, <2>1, GroupAssumption
<1>3. CASE time_ = TimeMin
  BY <1>1, <1>3 DEF Predictions
<1>4. CASE time_ # TimeMin /\ time > time_
  BY <1>4 DEF Predictions
<1>5. CASE time_ # TimeMin /\ ~(time > time_)
  BY <1>2, <1>5 DEF Predictions
<1> QED
  BY <1>3, <1>4, <1>5

LEMMA LeadType ==
    ASSUME BuilderTypeOK, NEW p \in Rigid PROVE LeadAt(p) \in Rigid
BY GroupAssumption DEF BuilderTypeOK, LeadAt

LEMMA LeadFollows ==
    ASSUME IInv, odometry_states_ # <<>>, NEW p \in Rigid
    PROVE  Compose(p, odometry_correction_)
               = Compose(LeadAt(p), Newest(odometry_states_).state_pose)
<1>1. Newest(odometry_states_).state_pose \in Rigid
  BY NewestType DEF IInv
<1>2. Compose(pose_estimate_, odometry_correction_)
          = Compose(lead, Newest(odometry_states_).state_pose)
  BY DEF IInv, StateFollowsEstimate
<1>3. pose_estimate_ \in Rigid /\ odometry_correction_ \in Rigid /\ lead \in Rigid
  BY DEF IInv, BuilderTypeOK
<1>4. LeadAt(p) = Compose(Compose(p, InverseOf(pose_estimate_)), lead)
  BY DEF LeadAt
<1>5. QED
  BY <1>1, <1>2, <1>3, <1>4, LeadMoves

LEMMA ClockStep ==
    ASSUME NEW time \in 1..MaxTime, Advance(time)
    PROVE  /\ time_' \in TimeMin..MaxTime
           /\ IF time_' = TimeMin THEN imu_tracker_' = NoTracker ELSE imu_tracker_' = time_'
BY OptionsAssumption DEF Advance, TimeMin, NoTracker

\* IMU data and empty range data predict, no more.
LEMMA PredictStep ==
    ASSUME IInv, NEW time \in 1..MaxTime, Advance(time),
           NEW p \in Predictions(time), pose_estimate_' = p, lead' = LeadAt(p),
           UNCHANGED <<odometry_correction_, odometry_states_, num_total_, anchor>>
    PROVE  IInv'
<1>1. p \in Rigid /\ LeadAt(p) \in Rigid
  BY PredictionsType, LeadType DEF IInv
<1>2. BuilderTypeOK'
  BY <1>1, ClockStep DEF IInv, BuilderTypeOK
<1>3. CorrectionKept'
  BY DEF IInv, CorrectionKept
<1>4. StateFollowsEstimate'
  BY <1>1, LeadFollows DEF IInv, StateFollowsEstimate
<1>5. QED
  BY <1>2, <1>3, <1>4 DEF IInv

LEMMA OdometerStep ==
    ASSUME IInv, NEW time \in 1..MaxTime, NEW o \in Rigid, AddOdometerData(time, o)
    PROVE  IInv'
<1>1. PICK p \in Predictions(time) :
         LET c == CorrectionTo(p, o)
             st == Compose(p, c)
         IN  /\ pose_estimate_' = p
             /\ odometry_correction_' = c
             /\ odometry_states_' = AddOdometryState(odometry_states_,
                    [time |-> time, odometer_pose |-> o, state_pose |-> st])
             /\ anchor' = IF odometry_states_ = <<>>
                          THEN [pose |-> st, odometer_pose |-> o] ELSE anchor
             /\ lead' = Identity
  BY DEF AddOdometerData
<1> DEFINE c == CorrectionTo(p, o)
           st == Compose(p, c)
           e == [time |-> time, odometer_pose |-> o, state_pose |-> st]
           old == Newest(odometry_states_)
<1>2. p \in Rigid
  BY <1>1, PredictionsType DEF IInv
<1>3. c \in Rigid
  BY <1>2, NewestType, GroupAssumption DEF CorrectionTo, IInv, BuilderTypeOK
<1>4. st \in Rigid
  BY <1>2, <1>3, GroupAssumption
<1>5. odometry_states_ # <<>> =>
        st = Compose(old.state_pose, Compose(InverseOf(old.odometer_pose), o))
  <2> SUFFICES ASSUME odometry_states_ # <<>>
               PROVE  st = Compose(old.state_pose, Compose(InverseOf(old.odometer_pose), o))
    OBVIOUS
  <2> DEFINE new == Compose(old.state_pose, Compose(InverseOf(old.odometer_pose), o))
  <2>1. new \in Rigid
    BY NewestType, GroupAssumption DEF IInv
  <2>2. c = Compose(InverseOf(p), new)
    BY DEF CorrectionTo
  <2> HIDE DEF new, c
  <2>3. Compose(p, c) = new
    BY <1>2, <2>1, <2>2, Cancel
  <2>4. QED
    BY <2>3 DEF new
<1> HIDE DEF c, st
<1>6. e \in OdometryState
  BY <1>4 DEF OdometryState
<1>7. odometry_states_' = AddOdometryState(odometry_states_, e)
  BY <1>1 DEF c, st
<1>8. /\ odometry_states_' \in Seq(OdometryState)
      /\ Len(odometry_states_') <= NumOdometryStates
      /\ Newest(odometry_states_') = e
  BY <1>6, <1>7, AddedIsNewest DEF IInv, BuilderTypeOK
<1>9. /\ pose_estimate_' = p /\ odometry_correction_' = c /\ lead' = Identity
      /\ anchor' = IF odometry_states_ = <<>>
                   THEN [pose |-> st, odometer_pose |-> o] ELSE anchor
  BY <1>1 DEF c, st
<1>10. BuilderTypeOK'
  <2>1. anchor' \in [pose : Rigid, odometer_pose : Rigid]
    BY <1>4, <1>9 DEF IInv, BuilderTypeOK
  <2>2. Advance(time) /\ num_total_' = num_total_
    BY DEF AddOdometerData
  <2>3. QED
    BY <1>2, <1>3, <1>8, <1>9, <2>1, <2>2, ClockStep, GroupAssumption
       DEF IInv, BuilderTypeOK
<1>11. CorrectionKept'
  <2>1. st = Compose(anchor'.pose, Compose(InverseOf(anchor'.odometer_pose), o))
    <3>1. CASE odometry_states_ = <<>>
      BY <1>4, <1>9, <3>1, GroupAssumption
    <3>2. CASE odometry_states_ # <<>>
      <4>1. old.state_pose = Compose(anchor.pose, Compose(InverseOf(anchor.odometer_pose),
                                                          old.odometer_pose))
        BY <3>2 DEF IInv, CorrectionKept
      <4>2. old.odometer_pose \in Rigid /\ anchor.pose \in Rigid /\ anchor.odometer_pose \in Rigid
        BY <3>2, NewestType DEF IInv, BuilderTypeOK
      <4>3. QED
        BY <1>5, <1>9, <3>2, <4>1, <4>2, Deltas
    <3>3. QED
      BY <3>1, <3>2
  <2>2. QED
    BY <1>8, <2>1 DEF CorrectionKept
<1>12. StateFollowsEstimate'
  <2>1. Compose(p, c) = st
    BY DEF st
  <2>2. QED
    BY <1>4, <1>8, <1>9, <2>1, GroupAssumption DEF StateFollowsEstimate
<1>13. QED
  BY <1>10, <1>11, <1>12 DEF IInv

LEMMA MatchStep ==
    ASSUME IInv, NEW time \in 1..MaxTime, Advance(time),
           NEW p \in Predictions(time), NEW est \in Rigid,
           MatchRangeData(time, p, est)
    PROVE  IInv'
<1> DEFINE prediction == Compose(p, odometry_correction_)
           old == Newest(odometry_states_)
           ld == LeadAt(p)
<1>1. p \in Rigid /\ ld \in Rigid
  BY PredictionsType, LeadType DEF IInv
<1>2. /\ pose_estimate_' = est /\ odometry_correction_' = Identity /\ lead' = ld
      /\ num_total_' = 1
  BY DEF MatchRangeData, InsertUnlessSimilar
<1>3. CASE odometry_states_ = <<>>
  <2>1. UNCHANGED <<odometry_states_, anchor>>
    BY <1>3 DEF MatchRangeData, CorrectOdometryState
  <2>2. BuilderTypeOK'
    BY <1>1, <1>2, <2>1, ClockStep, GroupAssumption DEF IInv, BuilderTypeOK
  <2>3. QED
    BY <1>3, <2>1, <2>2 DEF IInv, CorrectionKept, StateFollowsEstimate
<1>4. CASE odometry_states_ # <<>>
  <2> DEFINE st == Compose(Compose(old.state_pose, InverseOf(prediction)), est)
             e == [old EXCEPT !.time = time, !.state_pose = st]
  <2>1. /\ old \in OdometryState
        /\ old.odometer_pose \in Rigid /\ old.state_pose \in Rigid
    BY <1>4, NewestType DEF IInv
  <2>2. prediction = Compose(ld, old.state_pose)
    BY <1>1, <1>4, LeadFollows
  <2>3. st = Compose(InverseOf(ld), est)
    BY <1>1, <2>1, <2>2, StateBehindLead
  <2>4. st \in Rigid
    BY <1>1, <2>3, GroupAssumption
  <2>5. odometry_states_' = AddOdometryState(odometry_states_, e)
    BY <1>4 DEF MatchRangeData, CorrectOdometryState
  <2>6. anchor' = [pose |-> Compose(InverseOf(ld), est), odometer_pose |-> old.odometer_pose]
    BY <1>4 DEF MatchRangeData
  <2> HIDE DEF st
  <2>7. e \in OdometryState /\ e.state_pose = st /\ e.odometer_pose = old.odometer_pose
    BY <2>1, <2>4 DEF OdometryState
  <2> HIDE DEF e
  <2>8. /\ odometry_states_' \in Seq(OdometryState)
        /\ Len(odometry_states_') <= NumOdometryStates
        /\ Newest(odometry_states_') = e
    BY <2>5, <2>7, AddedIsNewest DEF IInv, BuilderTypeOK
  <2>9. BuilderTypeOK'
    <3>1. anchor' \in [pose : Rigid, odometer_pose : Rigid]
      BY <2>1, <2>3, <2>4, <2>6
    <3>2. QED
      BY <1>1, <1>2, <2>8, <3>1, ClockStep, GroupAssumption DEF IInv, BuilderTypeOK
  <2>10. CorrectionKept'
    <3>1. Compose(InverseOf(old.odometer_pose), old.odometer_pose) = Identity
      BY <2>1, GroupAssumption
    <3>2. Compose(st, Identity) = st
      BY <2>4, GroupAssumption
    <3>3. anchor'.pose = st /\ anchor'.odometer_pose = old.odometer_pose
      BY <2>3, <2>6
    <3>4. QED
      BY <2>7, <2>8, <3>1, <3>2, <3>3 DEF CorrectionKept
  <2>11. StateFollowsEstimate'
    <3>1. Compose(ld, st) = est
      BY <1>1, <2>3, Cancel
    <3>2. QED
      BY <1>2, <2>7, <2>8, <3>1, GroupAssumption DEF StateFollowsEstimate
  <2>12. QED
    BY <2>9, <2>10, <2>11 DEF IInv
<1>5. QED
  BY <1>3, <1>4

LEMMA NextIInv == IInv /\ [LocalNext]_<<localVars, submaps>> => IInv'
<1> SUFFICES ASSUME IInv, [LocalNext]_<<localVars, submaps>> PROVE IInv'
  OBVIOUS
<1>1. CASE UNCHANGED <<localVars, submaps>>
  BY <1>1 DEF localVars, IInv, BuilderTypeOK, CorrectionKept, StateFollowsEstimate
<1>2. CASE IgnoreData
  BY <1>2 DEF IgnoreData, localVars, IInv, BuilderTypeOK, CorrectionKept, StateFollowsEstimate
<1>3. ASSUME NEW time \in 1..MaxTime, AddImuData(time) PROVE IInv'
  BY <1>3, PredictStep DEF AddImuData
<1>4. ASSUME NEW time \in 1..MaxTime, NEW o \in Rigid, AddOdometerData(time, o) PROVE IInv'
  BY <1>4, OdometerStep
<1>5. ASSUME NEW time \in 1..MaxTime, AddRangefinderData(time) PROVE IInv'
  <2>1. Advance(time)
    BY <1>5 DEF AddRangefinderData
  <2>2. PICK p \in Predictions(time) :
          \/ DropEmptyRangeData(p)
          \/ \E est \in Rigid : MatchRangeData(time, p, est)
    BY <1>5 DEF AddRangefinderData
  <2>3. CASE DropEmptyRangeData(p)
    BY <2>1, <2>3, PredictStep DEF DropEmptyRangeData
  <2>4. CASE \E est \in Rigid : MatchRangeData(time, p, est)
    BY <2>1, <2>4, MatchStep
  <2>5. QED
    BY <2>2, <2>3, <2>4
<1>6. QED
  BY <1>1, <1>2, <1>3, <1>4, <1>5 DEF LocalNext

\* However long the trajectory, whatever the data: the correction of scan
\* matching outlives the odometry that follows, and the prediction starts at
\* the newest odometry state.
THEOREM OdometryKeepsCorrection ==
    LocalSpec => [](LocalTypeOK /\ CorrectionKept /\ StateFollowsEstimate)
<1>1. LocalSpec => []IInv
  BY InitIInv, NextIInv, PTL DEF LocalSpec
<1>2. LocalSpec => [](TypeOK /\ OldAndNew)
  BY ImplementsSubmaps, SubmapsShape
<1>3. IInv /\ TypeOK /\ OldAndNew => LocalTypeOK /\ CorrectionKept /\ StateFollowsEstimate
  BY DEF IInv, LocalTypeOK
<1>4. QED
  BY <1>1, <1>2, <1>3, PTL
-----------------------------------------------------------------------------
(* The parts of the front end.                                             *)

frontEndVars == <<part, builderVars, gridVars, ray, matcherVars, connectivityVars, batchVars,
                  hybridVars, matcher3dVars>>

\* A behaviour of the front end starts in FrontEndInit and takes its steps.
LEMMA FrontEndBehaves == FrontEndSpec => FrontEndInit /\ [][FrontEndNext]_frontEndVars
BY PTL DEF FrontEndSpec, frontEndVars

\* A set of naturals has a least one.
LEMMA LeastOf ==
    ASSUME NEW S \in SUBSET Nat, S # {}
    PROVE  \E k \in S : \A j \in S : k <= j
<1>1. PICK k \in S : \A j \in S : <<j, k>> \notin OpToRel(<, Nat)
  BY WFMin, NatLessThanWellFounded, Zenon
<1>2. \A j \in S : ~(j < k)
  BY <1>1, Zenon DEF OpToRel
<1>3. \A j \in S : j \in Nat
  OBVIOUS
<1>4. \A j \in S : k <= j
  BY <1>2, <1>3
<1> QED
  BY <1>4, Zenon
-----------------------------------------------------------------------------
(* TrajectoryConnectivity: a forest of parents.                             *)

\* A rank that falls from child to parent, bounded because trajectories have been added one
\* by one.
Ranked(f, rank, n) ==
    /\ rank \in [DOMAIN f -> 0..n]
    /\ \A t \in DOMAIN f : f[t] # t => rank[f[t]] < rank[t]

IsForest(f) == /\ f \in [DOMAIN f -> DOMAIN f]
               /\ \E n \in Nat : \E rank : Ranked(f, rank, n)

\* What is read off a parent, up to the root: base at the root, climb at its children.
Descends(g, f, S, base, climb) ==
    /\ g \in [DOMAIN f -> S]
    /\ \A t \in DOMAIN f : g[t] = IF f[t] = t THEN base[t] ELSE climb[<<t, g[f[t]]>>]

Climbs(f, S) == [(DOMAIN f) \X S -> S]

LEMMA DescentExists ==
    ASSUME NEW f, IsForest(f), NEW S, NEW base \in [DOMAIN f -> S], NEW climb \in Climbs(f, S)
    PROVE  \E g : Descends(g, f, S, base, climb)
<1> DEFINE D == DOMAIN f
           At(g, t) == IF f[t] = t THEN base[t] ELSE climb[<<t, g[f[t]]>>]
<1>0. PICK n \in Nat : \E rank : Ranked(f, rank, n)
  BY DEF IsForest
<1>1. PICK rank : Ranked(f, rank, n)
  BY <1>0
<1>2. /\ \A t \in D : rank[t] \in 0..n /\ f[t] \in D
      /\ \A t \in D : f[t] # t => rank[f[t]] < rank[t]
  BY <1>1 DEF IsForest, Ranked
<1> DEFINE Good(k) == \E g \in [D -> S] : \A t \in D : rank[t] < k => g[t] = At(g, t)
           Bad == {k \in Nat : ~Good(k)}
<1>3. Good(n + 1)
  <2> SUFFICES ASSUME ~Good(n + 1) PROVE FALSE
    OBVIOUS
  <2>1. n + 1 \in Bad
    OBVIOUS
  <2>2. PICK k \in Bad : \A j \in Bad : k <= j
    <3>1. Bad \in SUBSET Nat
      OBVIOUS
    <3> HIDE DEF Bad
    <3> QED
      BY <2>1, <3>1, LeastOf
  <2>3. k \in Nat /\ ~Good(k)
    OBVIOUS
  <2>4. k # 0
    <3>1. Good(0)
      <4>1. \A t \in D : ~(rank[t] < 0)
        BY <1>2
      <4> QED
        BY <4>1
    <3> HIDE DEF Good
    <3> QED
      BY <2>3, <3>1
  <2>5. Good(k - 1)
    <3>1. k - 1 \in Nat /\ ~(k <= k - 1)
      BY <2>3, <2>4
    <3> HIDE DEF Good
    <3> QED
      BY <2>2, <3>1
  <2>6. PICK g \in [D -> S] : \A t \in D : rank[t] < k - 1 => g[t] = At(g, t)
    BY <2>5
  <2> DEFINE h == [t \in D |-> IF rank[t] < k - 1 THEN g[t] ELSE At(g, t)]
  <2>7. h \in [D -> S]
    <3>1. \A t \in D : g[t] \in S /\ At(g, t) \in S
      BY <1>2 DEF Climbs
    <3> QED
      BY <3>1
  <2>8. \A t \in D : h[t] = At(g, t)
    BY <2>6
  <2>9. \A t \in D : rank[t] < k - 1 => h[t] = g[t]
    OBVIOUS
  <2> HIDE DEF h
  <2>10. ASSUME NEW t \in D, rank[t] < k
         PROVE  h[t] = At(h, t)
    <3>1. CASE f[t] = t
      BY <2>8, <3>1
    <3>2. CASE f[t] # t
      <4>1. f[t] \in D /\ rank[f[t]] < k - 1
        BY <1>2, <2>3, <2>10, <3>2
      <4>2. h[f[t]] = g[f[t]]
        BY <2>9, <4>1
      <4> QED
        BY <2>8, <3>2, <4>2
    <3> QED
      BY <3>1, <3>2
  <2>11. Good(k)
    BY <2>7, <2>10
  <2> QED
    BY <2>3, <2>11
<1>4. PICK g \in [D -> S] : \A t \in D : rank[t] < n + 1 => g[t] = At(g, t)
  BY <1>3
<1>5. \A t \in D : rank[t] < n + 1
  BY <1>2
<1> QED
  BY <1>4, <1>5 DEF Descends

\* What holds at the roots, and at a child when it holds at its parent, holds at all.
LEMMA UpTheForest ==
    ASSUME NEW f, IsForest(f), NEW Holding \in SUBSET DOMAIN f,
           \A t \in DOMAIN f : f[t] = t \/ f[t] \in Holding => t \in Holding
    PROVE  Holding = DOMAIN f
<1>0. PICK n \in Nat : \E rank : Ranked(f, rank, n)
  BY DEF IsForest
<1>1. PICK rank : Ranked(f, rank, n)
  BY <1>0
<1>2. /\ \A t \in DOMAIN f : rank[t] \in Nat /\ f[t] \in DOMAIN f
      /\ \A t \in DOMAIN f : f[t] # t => rank[f[t]] < rank[t]
  BY <1>1 DEF IsForest, Ranked
<1> DEFINE Bad == {t \in DOMAIN f : t \notin Holding}
           Ranks == {rank[t] : t \in Bad}
<1> SUFFICES ASSUME Bad # {} PROVE FALSE
  OBVIOUS
<1>3. PICK k \in Ranks : \A j \in Ranks : k <= j
  <2>1. Ranks \in SUBSET Nat /\ Ranks # {}
    BY <1>2
  <2> HIDE DEF Ranks
  <2> QED
    BY <2>1, LeastOf
<1>4. PICK t \in Bad : rank[t] = k
  OBVIOUS
<1>5. t \in DOMAIN f /\ t \notin Holding /\ f[t] # t /\ f[t] \notin Holding
  OBVIOUS
<1>6. f[t] \in Bad /\ rank[f[t]] < rank[t]
  BY <1>2, <1>5
<1>7. rank[f[t]] \in Ranks
  BY <1>6
<1>8. rank[t] \in Nat /\ rank[f[t]] \in Nat
  BY <1>2, <1>5
<1> QED
  BY <1>3, <1>4, <1>6, <1>7, <1>8

Rep(f) == Connectivity!Representative(f)

\* FindSet ends in a root, and what leads to it has the same representative.
LEMMA RepIs ==
    ASSUME NEW f, IsForest(f)
    PROVE  /\ Rep(f) \in [DOMAIN f -> DOMAIN f]
           /\ \A t \in DOMAIN f : /\ Rep(f)[t] = IF f[t] = t THEN t ELSE Rep(f)[f[t]]
                                  /\ f[Rep(f)[t]] = Rep(f)[t]
                                  /\ Rep(f)[f[t]] = Rep(f)[t]
                                  /\ Rep(f)[Rep(f)[t]] = Rep(f)[t]
<1> DEFINE Is(g) == g = [t \in DOMAIN f |-> IF f[t] = t THEN t ELSE g[f[t]]]
           rep == CHOOSE g : Is(g)
<1>1. Rep(f) = rep
  BY DEF Rep, Connectivity!Representative
<1>2. Is(rep)
  <2> DEFINE base == [t \in DOMAIN f |-> t]
             climb == [p \in (DOMAIN f) \X (DOMAIN f) |-> p[2]]
  <2>1. base \in [DOMAIN f -> DOMAIN f] /\ climb \in Climbs(f, DOMAIN f)
    BY DEF Climbs
  <2>2. /\ \A t \in DOMAIN f : base[t] = t /\ f[t] \in DOMAIN f
        /\ \A t, u \in DOMAIN f : climb[<<t, u>>] = u
    BY DEF IsForest
  <2> HIDE DEF base, climb
  <2>3. PICK g : Descends(g, f, DOMAIN f, base, climb)
    BY <2>1, DescentExists
  <2>4. /\ g \in [DOMAIN f -> DOMAIN f]
        /\ \A t \in DOMAIN f : g[t] = IF f[t] = t THEN base[t] ELSE climb[<<t, g[f[t]]>>]
    BY <2>3 DEF Descends
  <2>5. \A t \in DOMAIN f : g[t] = IF f[t] = t THEN t ELSE g[f[t]]
    BY <2>2, <2>4
  <2>6. Is(g)
    BY <2>4, <2>5
  <2> HIDE DEF Is
  <2> QED
    BY <2>6, Zenon
<1> HIDE DEF rep
<1>3. \A t \in DOMAIN f : f[t] \in DOMAIN f /\ rep[t] = IF f[t] = t THEN t ELSE rep[f[t]]
  BY <1>2, Zenon DEF IsForest
<1> DEFINE Holding == {t \in DOMAIN f : rep[t] \in DOMAIN f /\ f[rep[t]] = rep[t]}
<1>4. Holding = DOMAIN f
  <2>1. \A t \in DOMAIN f : f[t] = t \/ f[t] \in Holding => t \in Holding
    BY <1>3
  <2>2. Holding \in SUBSET DOMAIN f
    OBVIOUS
  <2> HIDE DEF Holding
  <2> QED
    BY <2>1, <2>2, UpTheForest
<1>5. \A t \in DOMAIN f : rep[t] \in DOMAIN f /\ f[rep[t]] = rep[t]
  BY <1>4
<1>6. rep \in [DOMAIN f -> DOMAIN f]
  <2>1. rep = [t \in DOMAIN f |-> rep[t]]
    <3>1. DOMAIN rep = DOMAIN f
      BY <1>2
    <3>2. rep = [t \in DOMAIN rep |-> rep[t]]
      BY <1>2
    <3> QED
      BY <3>1, <3>2
  <2> QED
    BY <1>5, <2>1
<1>7. \A t \in DOMAIN f : rep[f[t]] = rep[t] /\ rep[rep[t]] = rep[t]
  BY <1>3, <1>5
<1> QED
  BY <1>1, <1>3, <1>5, <1>6, <1>7

\* The representatives themselves are a forest, as flat as can be.
LEMMA FlatForest ==
    ASSUME NEW f, IsForest(f), NEW g \in [DOMAIN f -> DOMAIN f],
           \A t \in DOMAIN f : g[t] = f[t] \/ g[t] = Rep(f)[t]
    PROVE  IsForest(g) /\ Rep(g) = Rep(f)
<1>0. PICK n \in Nat : \E rank : Ranked(f, rank, n)
  BY DEF IsForest
<1>1. PICK rank : Ranked(f, rank, n)
  BY <1>0
<1>2. /\ \A t \in DOMAIN f : rank[t] \in Nat /\ f[t] \in DOMAIN f
      /\ \A t \in DOMAIN f : f[t] # t => rank[f[t]] < rank[t]
  BY <1>1 DEF IsForest, Ranked
<1>3. PICK rep \in [DOMAIN f -> DOMAIN f] :
         /\ rep = Rep(f)
         /\ \A t \in DOMAIN f : /\ rep[t] = IF f[t] = t THEN t ELSE rep[f[t]]
                                /\ f[rep[t]] = rep[t] /\ rep[f[t]] = rep[t]
                                /\ rep[rep[t]] = rep[t]
  BY RepIs
<1>4. \A t \in DOMAIN f : rep[t] = t \/ rank[rep[t]] < rank[t]
  <2> DEFINE Holding == {t \in DOMAIN f : rep[t] = t \/ rank[rep[t]] < rank[t]}
  <2>1. ASSUME NEW t \in DOMAIN f, f[t] = t \/ f[t] \in Holding
        PROVE  t \in Holding
    <3>1. CASE f[t] = t
      BY <1>3, <3>1
    <3>2. CASE f[t] # t
      <4>1. rep[f[t]] = f[t] \/ rank[rep[f[t]]] < rank[f[t]]
        BY <2>1, <3>2
      <4>2. rank[f[t]] < rank[t] /\ rep[f[t]] = rep[t]
        BY <1>2, <1>3, <3>2
      <4>3. rank[t] \in Nat /\ rank[f[t]] \in Nat /\ rank[rep[t]] \in Nat
        BY <1>2
      <4>4. rank[rep[t]] < rank[t]
        BY <4>1, <4>2, <4>3
      <4> QED
        BY <4>4
    <3> QED
      BY <3>1, <3>2
  <2>2. Holding \in SUBSET DOMAIN f
    OBVIOUS
  <2>3. Holding = DOMAIN f
    <3> HIDE DEF Holding
    <3> QED
      BY <2>1, <2>2, UpTheForest
  <2> QED
    BY <2>3
<1>5. DOMAIN g = DOMAIN f
  OBVIOUS
<1>6. Ranked(g, rank, n)
  <2>1. \A t \in DOMAIN f : g[t] # t => rank[g[t]] < rank[t]
    BY <1>2, <1>3, <1>4
  <2> QED
    BY <1>1, <1>5, <2>1 DEF Ranked
<1>7. IsForest(g)
  BY <1>5, <1>6 DEF IsForest
<1>8. PICK new \in [DOMAIN f -> DOMAIN f] :
         /\ new = Rep(g)
         /\ \A t \in DOMAIN f : new[t] = IF g[t] = t THEN t ELSE new[g[t]]
  BY <1>5, <1>7, RepIs
<1> DEFINE Holding == {t \in DOMAIN f : new[t] = rep[t]}
<1>9. ASSUME NEW t \in DOMAIN g, g[t] = t \/ g[t] \in Holding
      PROVE  t \in Holding
  <2>1. CASE g[t] = t
    BY <1>3, <1>5, <1>8, <2>1
  <2>2. CASE g[t] # t
    <3>1. new[t] = new[g[t]] /\ new[g[t]] = rep[g[t]]
      BY <1>5, <1>8, <1>9, <2>2
    <3>2. rep[g[t]] = rep[t]
      BY <1>3, <1>5
    <3> QED
      BY <1>5, <3>1, <3>2
  <2> QED
    BY <2>1, <2>2
<1>10. Holding = DOMAIN g
  <2>1. Holding \in SUBSET DOMAIN g
    BY <1>5
  <2> HIDE DEF Holding
  <2> QED
    BY <1>7, <1>9, <2>1, UpTheForest
<1>11. \A t \in DOMAIN f : new[t] = rep[t]
  BY <1>5, <1>10
<1>12. new = rep
  BY <1>11
<1> QED
  BY <1>3, <1>7, <1>8, <1>12

\* What FindSet visits is in the tree it started in.
LEMMA PathIs ==
    ASSUME NEW f, IsForest(f), NEW t \in DOMAIN f
    PROVE  \A u \in Connectivity!Path(f, t) : u \in DOMAIN f /\ Rep(f)[u] = Rep(f)[t]
<1> DEFINE D == DOMAIN f
           Is(g) == g = [u \in D |-> IF f[u] = u THEN {u} ELSE {u} \cup g[f[u]]]
           path == CHOOSE g : Is(g)
<1>1. Connectivity!Path(f, t) = path[t]
  BY DEF Connectivity!Path
<1>2. Is(path)
  <2> DEFINE base == [u \in D |-> {u}]
             climb == [p \in D \X (SUBSET D) |-> {p[1]} \cup p[2]]
  <2>1. base \in [D -> SUBSET D] /\ climb \in Climbs(f, SUBSET D)
    BY DEF Climbs
  <2>2. /\ \A u \in D : base[u] = {u} /\ f[u] \in D
        /\ \A u \in D, S \in SUBSET D : climb[<<u, S>>] = {u} \cup S
    BY DEF IsForest
  <2> HIDE DEF base, climb
  <2>3. PICK g : Descends(g, f, SUBSET D, base, climb)
    BY <2>1, DescentExists
  <2>4. /\ g \in [D -> SUBSET D]
        /\ \A u \in D : g[u] = IF f[u] = u THEN base[u] ELSE climb[<<u, g[f[u]]>>]
    BY <2>3 DEF Descends
  <2>5. \A u \in D : g[u] = IF f[u] = u THEN {u} ELSE {u} \cup g[f[u]]
    BY <2>2, <2>4
  <2>6. Is(g)
    BY <2>4, <2>5
  <2> HIDE DEF Is
  <2> QED
    BY <2>6, Zenon
<1> HIDE DEF path
<1>3. \A u \in D : path[u] = IF f[u] = u THEN {u} ELSE {u} \cup path[f[u]]
  BY <1>2, Zenon
<1>4. \A u \in D : f[u] \in D /\ Rep(f)[f[u]] = Rep(f)[u]
  BY RepIs DEF IsForest
<1> DEFINE Holding == {u \in D : \A v \in path[u] : v \in D /\ Rep(f)[v] = Rep(f)[u]}
<1>5. ASSUME NEW u \in D, f[u] = u \/ f[u] \in Holding
      PROVE  u \in Holding
  <2>1. CASE f[u] = u
    <3>1. path[u] = {u}
      BY <1>3, <2>1
    <3> QED
      BY <3>1
  <2>2. CASE f[u] # u
    <3>1. path[u] = {u} \cup path[f[u]]
      BY <1>3, <2>2
    <3>2. /\ \A v \in path[f[u]] : v \in D /\ Rep(f)[v] = Rep(f)[f[u]]
          /\ Rep(f)[f[u]] = Rep(f)[u]
      BY <1>4, <1>5, <2>2
    <3> HIDE DEF D
    <3>3. \A v \in path[u] : v \in D /\ Rep(f)[v] = Rep(f)[u]
      BY <3>1, <3>2, Zenon
    <3> QED
      BY <3>3 DEF D
  <2> QED
    BY <2>1, <2>2
<1>6. Holding = D
  <2>1. Holding \in SUBSET DOMAIN f
    OBVIOUS
  <2> HIDE DEF Holding
  <2> QED
    BY <1>5, <2>1, UpTheForest
<1>7. t \in Holding
  BY <1>6
<1> QED
  BY <1>1, <1>7

\* Path compression.
LEMMA CompressedIs ==
    ASSUME NEW f, IsForest(f), NEW t \in DOMAIN f, NEW g, g = Connectivity!Compressed(f, t)
    PROVE  DOMAIN g = DOMAIN f /\ IsForest(g) /\ Rep(g) = Rep(f)
<1>1. g = [u \in DOMAIN f |-> IF u \in Connectivity!Path(f, t) THEN Rep(f)[t] ELSE f[u]]
  BY DEF Connectivity!Compressed, Rep
<1>2. /\ Rep(f)[t] \in DOMAIN f
      /\ \A u \in DOMAIN f : f[u] \in DOMAIN f
  BY RepIs DEF IsForest
<1>3. \A u \in DOMAIN f : g[u] = f[u] \/ g[u] = Rep(f)[u]
  BY <1>1, PathIs
<1>4. g \in [DOMAIN f -> DOMAIN f]
  BY <1>1, <1>2
<1>5. IsForest(g) /\ Rep(g) = Rep(f)
  BY <1>3, <1>4, FlatForest
<1> QED
  BY <1>4, <1>5

\* The trajectories of f keep their representatives in g.
Keeps(f, g) == \A u \in DOMAIN f : Rep(g)[u] = Rep(f)[u]

\* The tree of root a hangs below root b in g.
Moves(f, g, a, b) ==
    \A u \in DOMAIN f : Rep(g)[u] = IF Rep(f)[u] = a THEN b ELSE Rep(f)[u]

\* A tree of its own for t.
LEMMA EmplacedIs ==
    ASSUME NEW f, IsForest(f), NEW t, NEW g, g = Connectivity!Emplaced(f, t)
    PROVE  /\ DOMAIN g = DOMAIN f \cup {t} /\ IsForest(g)
           /\ Keeps(f, g)
           /\ t \notin DOMAIN f => Rep(g)[t] = t
<1>0. PICK n \in Nat : \E rank : Ranked(f, rank, n)
  BY DEF IsForest
<1>1. PICK rank : Ranked(f, rank, n)
  BY <1>0
<1>2. /\ \A u \in DOMAIN f : rank[u] \in 0..n /\ f[u] \in DOMAIN f
      /\ \A u \in DOMAIN f : f[u] # u => rank[f[u]] < rank[u]
  BY <1>1 DEF IsForest, Ranked
<1> DEFINE D == DOMAIN f \cup {t}
           higher == [u \in D |-> IF u \in DOMAIN f THEN rank[u] ELSE 0]
<1>3. /\ DOMAIN g = D /\ g \in [D -> D]
      /\ \A u \in D : g[u] = IF u \in DOMAIN f THEN f[u] ELSE u
  BY <1>2 DEF Connectivity!Emplaced
<1>4. Ranked(g, higher, n)
  <2>1. higher \in [D -> 0..n]
    BY <1>2
  <2>2. \A u \in D : g[u] # u => higher[g[u]] < higher[u]
    BY <1>2, <1>3
  <2> HIDE DEF higher
  <2> QED
    BY <1>3, <2>1, <2>2 DEF Ranked
<1>5. IsForest(g)
  BY <1>3, <1>4 DEF IsForest
<1>6. \A u \in D : Rep(g)[u] = IF g[u] = u THEN u ELSE Rep(g)[g[u]]
  BY <1>3, <1>5, RepIs
<1>7. \A u \in DOMAIN f : Rep(f)[u] = IF f[u] = u THEN u ELSE Rep(f)[f[u]]
  BY RepIs
<1> DEFINE Holding == {u \in DOMAIN f : Rep(g)[u] = Rep(f)[u]}
<1>8. ASSUME NEW u \in DOMAIN f, f[u] = u \/ f[u] \in Holding
      PROVE  u \in Holding
  BY <1>3, <1>6, <1>7, <1>8
<1>9. Holding = DOMAIN f
  <2>1. Holding \in SUBSET DOMAIN f
    OBVIOUS
  <2> HIDE DEF Holding
  <2> QED
    BY <1>8, <2>1, UpTheForest
<1>10. Keeps(f, g)
  BY <1>9 DEF Keeps
<1>11. t \notin DOMAIN f => Rep(g)[t] = t
  BY <1>3, <1>6
<1> QED
  BY <1>3, <1>5, <1>10, <1>11

\* One root becomes the child of another.
LEMMA LinkedIs ==
    ASSUME NEW f, IsForest(f), NEW a \in DOMAIN f, NEW b \in DOMAIN f, f[a] = a, f[b] = b,
           NEW g, g = [f EXCEPT ![a] = b]
    PROVE  /\ DOMAIN g = DOMAIN f /\ IsForest(g)
           /\ Moves(f, g, a, b)
<1>0. PICK n \in Nat : \E rank : Ranked(f, rank, n)
  BY DEF IsForest
<1>1. PICK rank : Ranked(f, rank, n)
  BY <1>0
<1>2. /\ \A u \in DOMAIN f : rank[u] \in 0..n /\ f[u] \in DOMAIN f
      /\ \A u \in DOMAIN f : f[u] # u => rank[f[u]] < rank[u]
  BY <1>1 DEF IsForest, Ranked
<1>3. /\ \A u \in DOMAIN f : Rep(f)[u] = IF f[u] = u THEN u ELSE Rep(f)[f[u]]
      /\ \A u \in DOMAIN f : Rep(f)[f[u]] = Rep(f)[u]
  BY RepIs
<1>4. CASE a = b
  <2>0. \A u \in DOMAIN f : Rep(f)[u] = IF Rep(f)[u] = a THEN b ELSE Rep(f)[u]
    BY <1>4
  <2>1. g = f
    <3>1. f = [u \in DOMAIN f |-> f[u]]
      BY DEF IsForest
    <3> QED
      BY <1>4, <3>1
  <2> QED
    BY <2>0, <2>1 DEF Moves
<1>5. CASE a # b
  <2> DEFINE m == n + n + 1
             higher == [u \in DOMAIN f |-> IF Rep(f)[u] = a THEN rank[u] + n + 1 ELSE rank[u]]
  <2>1. /\ DOMAIN g = DOMAIN f /\ g \in [DOMAIN f -> DOMAIN f]
        /\ \A u \in DOMAIN f : g[u] = IF u = a THEN b ELSE f[u]
    BY DEF IsForest
  <2>2. Rep(f)[a] = a /\ Rep(f)[b] = b
    BY <1>3
  <2>3. Ranked(g, higher, m)
    <3>1. \A u \in DOMAIN f : higher[u] = IF Rep(f)[u] = a THEN rank[u] + n + 1 ELSE rank[u]
      OBVIOUS
    <3>2. higher \in [DOMAIN f -> 0..m]
      BY <1>2
    <3> HIDE DEF higher
    <3>3. ASSUME NEW u \in DOMAIN f, g[u] # u
          PROVE  higher[g[u]] < higher[u]
      <4>1. CASE u = a
        BY <1>2, <1>5, <2>1, <2>2, <3>1, <4>1
      <4>2. CASE u # a
        <5>1. g[u] = f[u] /\ rank[f[u]] < rank[u] /\ Rep(f)[f[u]] = Rep(f)[u]
          BY <1>2, <1>3, <2>1, <3>3, <4>2
        <5>2. rank[u] \in 0..n /\ rank[f[u]] \in 0..n /\ f[u] \in DOMAIN f
          BY <1>2
        <5> QED
          BY <3>1, <5>1, <5>2
      <4> QED
        BY <4>1, <4>2
    <3> QED
      BY <2>1, <3>2, <3>3 DEF Ranked
  <2>4. m \in Nat
    OBVIOUS
  <2>5. IsForest(g)
    BY <2>1, <2>3, <2>4 DEF IsForest
  <2>6. \A u \in DOMAIN f : Rep(g)[u] = IF g[u] = u THEN u ELSE Rep(g)[g[u]]
    BY <2>1, <2>5, RepIs
  <2> DEFINE Holding == {u \in DOMAIN f :
                           Rep(g)[u] = IF Rep(f)[u] = a THEN b ELSE Rep(f)[u]}
  <2>7. ASSUME NEW u \in DOMAIN f, f[u] = u \/ f[u] \in Holding
        PROVE  u \in Holding
    <3>1. CASE u = a
      <4>1. Rep(g)[b] = b
        BY <1>5, <2>1, <2>6
      <4>2. Rep(g)[a] = b
        BY <1>5, <2>1, <2>6, <4>1
      <4> QED
        BY <2>2, <3>1, <4>2
    <3>2. CASE u # a /\ f[u] = u
      BY <1>3, <2>1, <2>6, <3>2
    <3>3. CASE u # a /\ f[u] # u
      BY <1>3, <2>1, <2>6, <2>7, <3>3
    <3> QED
      BY <3>1, <3>2, <3>3
  <2>8. Holding = DOMAIN f
    <3>1. Holding \in SUBSET DOMAIN f
      OBVIOUS
    <3> HIDE DEF Holding
    <3> QED
      BY <2>7, <3>1, UpTheForest
  <2>9. Moves(f, g, a, b)
    BY <2>8 DEF Moves
  <2> QED
    BY <2>1, <2>5, <2>9
<1> QED
  BY <1>4, <1>5

\* rep is what f and trees of their own for a and b say; in g the trees of a and b are one.
Merges(f, g, a, b, rep) ==
    /\ \A u \in DOMAIN g : rep[u] = IF u \in DOMAIN f THEN Rep(f)[u] ELSE u
    /\ \A u \in DOMAIN g : Rep(g)[u] = IF rep[u] = rep[a] THEN rep[b] ELSE rep[u]

\* Union makes one tree of the two of a and b, which are there from now on, and leaves the
\* others alone.
LEMMA UnionIs ==
    ASSUME NEW f, IsForest(f), NEW a, NEW b, NEW g, g = Connectivity!Union(f, a, b)
    PROVE  /\ DOMAIN g = DOMAIN f \cup {a, b} /\ IsForest(g)
           /\ \E rep : Merges(f, g, a, b, rep)
<1>1. PICK e1 : e1 = Connectivity!Emplaced(f, a)
  OBVIOUS
<1>2. PICK e2 : e2 = Connectivity!Emplaced(e1, b)
  OBVIOUS
<1>3. PICK c1 : c1 = Connectivity!Compressed(e2, a)
  OBVIOUS
<1>4. PICK c2 : c2 = Connectivity!Compressed(c1, b)
  OBVIOUS
<1>5. /\ IsForest(e1) /\ DOMAIN e1 = DOMAIN f \cup {a} /\ Keeps(f, e1)
      /\ a \notin DOMAIN f => Rep(e1)[a] = a
  BY <1>1, EmplacedIs
<1>6. /\ IsForest(e2) /\ DOMAIN e2 = DOMAIN e1 \cup {b} /\ Keeps(e1, e2)
      /\ b \notin DOMAIN e1 => Rep(e2)[b] = b
  BY <1>2, <1>5, EmplacedIs
<1>7. a \in DOMAIN e2 /\ b \in DOMAIN e2
  BY <1>5, <1>6
<1>8. IsForest(c1) /\ DOMAIN c1 = DOMAIN e2 /\ Rep(c1) = Rep(e2)
  BY <1>3, <1>6, <1>7, CompressedIs
<1>9. IsForest(c2) /\ DOMAIN c2 = DOMAIN e2 /\ Rep(c2) = Rep(e2)
  <2>1. b \in DOMAIN c1
    BY <1>7, <1>8
  <2>2. IsForest(c2) /\ DOMAIN c2 = DOMAIN c1 /\ Rep(c2) = Rep(c1)
    BY <1>4, <1>8, <2>1, CompressedIs
  <2> QED
    BY <1>8, <2>2
<1>10. PICK rep : rep = Rep(c2)
  OBVIOUS
<1>11. \A u \in DOMAIN e2 : rep[u] = IF u \in DOMAIN f THEN Rep(f)[u] ELSE u
  <2>1. /\ \A u \in DOMAIN f : Rep(e1)[u] = Rep(f)[u]
        /\ \A u \in DOMAIN e1 : Rep(e2)[u] = Rep(e1)[u]
    BY <1>5, <1>6 DEF Keeps
  <2>2. \A u \in DOMAIN e1 : Rep(e1)[u] = IF u \in DOMAIN f THEN Rep(f)[u] ELSE u
    BY <1>5, <2>1
  <2>3. \A u \in DOMAIN e2 : u \notin DOMAIN e1 => Rep(e2)[u] = u
    BY <1>6
  <2> QED
    BY <1>5, <1>9, <1>10, <2>1, <2>2, <2>3
<1>12. /\ rep[a] \in DOMAIN c2 /\ rep[b] \in DOMAIN c2
       /\ c2[rep[a]] = rep[a] /\ c2[rep[b]] = rep[b]
  BY <1>7, <1>9, <1>10, RepIs
<1>13. g = [c2 EXCEPT ![rep[a]] = rep[b]]
  BY <1>1, <1>2, <1>3, <1>4, <1>10 DEF Connectivity!Union, Rep
<1>14. DOMAIN g = DOMAIN c2 /\ IsForest(g) /\ Moves(c2, g, rep[a], rep[b])
  BY <1>9, <1>12, <1>13, LinkedIs
<1>15. DOMAIN g = DOMAIN f \cup {a, b}
  BY <1>5, <1>6, <1>9, <1>14
<1>16. \A u \in DOMAIN g : Rep(g)[u] = IF rep[u] = rep[a] THEN rep[b] ELSE rep[u]
  BY <1>10, <1>14 DEF Moves
<1>17. Merges(f, g, a, b, rep)
  BY <1>9, <1>11, <1>14, <1>16 DEF Merges
<1> QED
  BY <1>14, <1>15, <1>17

\* No direct connection leads out of S.
Closed(S, m) == \A p \in Connectivity!Pairs : m[p] > 0 /\ p \cap S # {} => p \subseteq S

\* Forest and counts agree: connected trajectories have one representative, and no set of
\* trajectories that no connection leaves is left by the way to a representative.
Agree(f, m) ==
    /\ IsForest(f)
    /\ DOMAIN f \subseteq Ids
    /\ m \in [Connectivity!Pairs -> Nat]
    /\ \A a, b \in Ids : m[{a, b}] > 0 => /\ a \in DOMAIN f /\ b \in DOMAIN f
                                          /\ Rep(f)[a] = Rep(f)[b]
    /\ \A S \in SUBSET DOMAIN f :
          Closed(S, m) => \A t \in DOMAIN f : t \in S <=> Rep(f)[t] \in S

\* Compression changes no answer.
LEMMA SameRepresentatives ==
    ASSUME NEW f, NEW m, Agree(f, m), NEW g, DOMAIN g = DOMAIN f, IsForest(g),
           Rep(g) = Rep(f)
    PROVE  Agree(g, m)
BY DEF Agree

\* What a larger forest leaves of a closed set.
LEMMA ClosedBefore ==
    ASSUME NEW f, NEW m, Agree(f, m), NEW S, Closed(S, m)
    PROVE  \A t \in DOMAIN f : t \in S <=> Rep(f)[t] \in S
<1> DEFINE T == S \cap DOMAIN f
<1>1. Closed(T, m)
  <2> SUFFICES ASSUME NEW p \in Connectivity!Pairs, m[p] > 0, p \cap T # {}
               PROVE  p \subseteq T
    BY DEF Closed
  <2>1. p \subseteq S
    BY DEF Closed
  <2>2. PICK a \in Ids, b \in Ids : p = {a, b}
    BY DEF Connectivity!Pairs
  <2>3. p \subseteq DOMAIN f
    BY <2>2 DEF Agree
  <2> QED
    BY <2>1, <2>3
<1>2. T \in SUBSET DOMAIN f
  OBVIOUS
<1>3. \A t \in DOMAIN f : t \in T <=> Rep(f)[t] \in T
  <2> HIDE DEF T
  <2> QED
    BY <1>1, <1>2 DEF Agree
<1>4. \A t \in DOMAIN f : Rep(f)[t] \in DOMAIN f
  BY RepIs DEF Agree
<1> QED
  BY <1>3, <1>4

\* Add.
LEMMA EmplacedAgrees ==
    ASSUME NEW f, NEW m, Agree(f, m), NEW t \in Ids, NEW g, g = Connectivity!Emplaced(f, t)
    PROVE  Agree(g, m)
<1>1. IsForest(f)
  BY DEF Agree
<1>2. /\ DOMAIN g = DOMAIN f \cup {t} /\ IsForest(g) /\ Keeps(f, g)
      /\ t \notin DOMAIN f => Rep(g)[t] = t
  BY <1>1, EmplacedIs
<1>3. \A u \in DOMAIN f : Rep(g)[u] = Rep(f)[u]
  BY <1>2 DEF Keeps
<1>4. DOMAIN g \subseteq Ids /\ m \in [Connectivity!Pairs -> Nat]
  BY <1>2 DEF Agree
<1>5. ASSUME NEW a \in Ids, NEW b \in Ids, m[{a, b}] > 0
      PROVE  a \in DOMAIN g /\ b \in DOMAIN g /\ Rep(g)[a] = Rep(g)[b]
  <2>1. a \in DOMAIN f /\ b \in DOMAIN f /\ Rep(f)[a] = Rep(f)[b]
    BY <1>5 DEF Agree
  <2> QED
    BY <1>2, <1>3, <2>1
<1>6. ASSUME NEW S \in SUBSET DOMAIN g, Closed(S, m), NEW u \in DOMAIN g
      PROVE  u \in S <=> Rep(g)[u] \in S
  <2>1. CASE u \in DOMAIN f
    <3>1. u \in S <=> Rep(f)[u] \in S
      BY <1>6, <2>1, ClosedBefore
    <3> QED
      BY <1>3, <2>1, <3>1
  <2>2. CASE u \notin DOMAIN f
    BY <1>2, <2>2
  <2> QED
    BY <2>1, <2>2
<1> QED
  BY <1>2, <1>4, <1>5, <1>6 DEF Agree

\* Connect.
LEMMA UnionAgrees ==
    ASSUME NEW f, NEW m, Agree(f, m), NEW a \in Ids, NEW b \in Ids,
           NEW g, g = Connectivity!Union(f, a, b),
           NEW n, n = [m EXCEPT ![{a, b}] = @ + 1]
    PROVE  Agree(g, n)
<1>1. IsForest(f)
  BY DEF Agree
<1>2. DOMAIN g = DOMAIN f \cup {a, b} /\ IsForest(g)
  BY <1>1, UnionIs
<1>0. PICK rep : Merges(f, g, a, b, rep)
  BY <1>1, UnionIs
<1>3. /\ \A u \in DOMAIN g : rep[u] = IF u \in DOMAIN f THEN Rep(f)[u] ELSE u
      /\ \A u \in DOMAIN g : Rep(g)[u] = IF rep[u] = rep[a] THEN rep[b] ELSE rep[u]
  BY <1>0 DEF Merges
<1>4. DOMAIN g \subseteq Ids
  BY <1>2 DEF Agree
<1>5. {a, b} \in Connectivity!Pairs /\ m \in [Connectivity!Pairs -> Nat]
  BY DEF Agree, Connectivity!Pairs
<1>6. /\ n \in [Connectivity!Pairs -> Nat] /\ n[{a, b}] > 0
      /\ \A p \in Connectivity!Pairs : p # {a, b} => n[p] = m[p]
      /\ \A p \in Connectivity!Pairs : m[p] > 0 => n[p] > 0
  <2>1. PICK q \in Connectivity!Pairs : q = {a, b}
    BY <1>5
  <2>2. n = [m EXCEPT ![q] = @ + 1]
    BY <2>1
  <2>3. /\ n \in [Connectivity!Pairs -> Nat] /\ n[q] > 0
        /\ \A p \in Connectivity!Pairs : p # q => n[p] = m[p]
        /\ \A p \in Connectivity!Pairs : m[p] > 0 => n[p] > 0
    <3>1. \A p \in Connectivity!Pairs : n[p] = IF p = q THEN m[p] + 1 ELSE m[p]
      BY <1>5, <2>2
    <3>2. \A p \in Connectivity!Pairs : m[p] \in Nat
      BY <1>5
    <3>3. n \in [Connectivity!Pairs -> Nat]
      BY <1>5, <2>2, <3>2
    <3>4. n[q] > 0
      <4>1. n[q] = m[q] + 1 /\ m[q] \in Nat
        BY <3>1, <3>2
      <4> QED
        BY <4>1
    <3>5. ASSUME NEW p \in Connectivity!Pairs, p # q PROVE n[p] = m[p]
      BY <3>1, <3>5
    <3>6. ASSUME NEW p \in Connectivity!Pairs, m[p] > 0 PROVE n[p] > 0
      <4>1. CASE p = q
        BY <3>4, <4>1
      <4>2. CASE p # q
        BY <3>5, <3>6, <4>2
      <4> QED
        BY <4>1, <4>2
    <3> QED
      BY <3>3, <3>4, <3>5, <3>6
  <2> QED
    BY <2>1, <2>3
<1>7. ASSUME NEW c \in Ids, NEW d \in Ids, n[{c, d}] > 0
      PROVE  c \in DOMAIN g /\ d \in DOMAIN g /\ Rep(g)[c] = Rep(g)[d]
  <2>1. CASE {c, d} = {a, b}
    <3>1. c \in {a, b} /\ d \in {a, b}
      BY <2>1
    <3>2. Rep(g)[a] = rep[b] /\ Rep(g)[b] = rep[b]
      BY <1>2, <1>3
    <3> QED
      BY <1>2, <3>1, <3>2
  <2>2. CASE {c, d} # {a, b}
    <3>1. {c, d} \in Connectivity!Pairs
      BY DEF Connectivity!Pairs
    <3>2. m[{c, d}] > 0
      BY <1>6, <1>7, <2>2, <3>1
    <3>3. c \in DOMAIN f /\ d \in DOMAIN f /\ Rep(f)[c] = Rep(f)[d]
      BY <3>2 DEF Agree
    <3>4. rep[c] = rep[d]
      BY <1>2, <1>3, <3>3
    <3> QED
      BY <1>2, <1>3, <3>3, <3>4
  <2> QED
    BY <2>1, <2>2
<1>8. ASSUME NEW S \in SUBSET DOMAIN g, Closed(S, n), NEW u \in DOMAIN g
      PROVE  u \in S <=> Rep(g)[u] \in S
  <2>1. Closed(S, m)
    BY <1>6, <1>8 DEF Closed
  <2>2. \A t \in DOMAIN g : t \in S <=> rep[t] \in S
    <3> TAKE t \in DOMAIN g
    <3>1. CASE t \in DOMAIN f
      BY <1>3, <2>1, <3>1, ClosedBefore
    <3>2. CASE t \notin DOMAIN f
      BY <1>3, <3>2
    <3> QED
      BY <3>1, <3>2
  <2>3. a \in S <=> b \in S
    BY <1>5, <1>6, <1>8 DEF Closed
  <2>4. rep[a] \in S <=> rep[b] \in S
    BY <1>2, <2>2, <2>3
  <2> QED
    BY <1>3, <2>2, <2>4
<1> QED
  BY <1>2, <1>4, <1>6, <1>7, <1>8 DEF Agree

\* Forest and counts agree throughout.
ConnectInv == Agree(forest, connection_map)

LEMMA ConnectInit == Connectivity!Init => ConnectInv
<1> SUFFICES ASSUME Connectivity!Init PROVE ConnectInv
  OBVIOUS
<1>1. /\ DOMAIN forest = {} /\ forest \in [DOMAIN forest -> DOMAIN forest]
      /\ connection_map = [p \in Connectivity!Pairs |-> 0]
  BY DEF Connectivity!Init
<1>2. IsForest(forest)
  <2>1. Ranked(forest, forest, 0)
    BY <1>1 DEF Ranked
  <2> QED
    BY <1>1, <2>1 DEF IsForest
<1>3. \A a, b \in Ids : {a, b} \in Connectivity!Pairs
  BY DEF Connectivity!Pairs
<1>4. \A a, b \in Ids : connection_map[{a, b}] = 0
  BY <1>1, <1>3
<1> QED
  BY <1>1, <1>2, <1>4 DEF ConnectInv, Agree

LEMMA ConnectNext == ConnectInv /\ Connectivity!Next => ConnectInv'
<1> SUFFICES ASSUME ConnectInv, Connectivity!Next PROVE ConnectInv'
  OBVIOUS
<1>0. PICK f, g, m, n : f = forest /\ g = forest' /\ m = connection_map /\ n = connection_map'
  OBVIOUS
<1>1. Agree(f, m) /\ IsForest(f)
  BY <1>0 DEF ConnectInv, Agree
<1> SUFFICES Agree(g, n)
  BY <1>0 DEF ConnectInv
<1>2. CASE \E t \in Ids : Connectivity!Add(t)
  <2>1. PICK t \in Ids : g = Connectivity!Emplaced(f, t) /\ n = m
    BY <1>0, <1>2 DEF Connectivity!Add
  <2> QED
    BY <1>1, <2>1, EmplacedAgrees
<1>3. CASE \E a, b \in Ids : Connectivity!Connect(a, b)
  <2>1. PICK a \in Ids, b \in Ids : /\ g = Connectivity!Union(f, a, b)
                                    /\ n = [m EXCEPT ![{a, b}] = @ + 1]
    BY <1>0, <1>3 DEF Connectivity!Connect
  <2> QED
    BY <1>1, <2>1, UnionAgrees
<1>4. CASE \E a, b \in Ids : Connectivity!TransitivelyConnected(a, b)
  <2>1. PICK a \in Ids, b \in Ids : Connectivity!TransitivelyConnected(a, b)
    BY <1>4
  <2>2. CASE {a, b} \subseteq DOMAIN f
    <3>1. PICK c : c = Connectivity!Compressed(f, a)
      OBVIOUS
    <3>2. g = Connectivity!Compressed(c, b) /\ n = m
      BY <1>0, <2>1, <2>2, <3>1 DEF Connectivity!TransitivelyConnected
    <3>3. DOMAIN c = DOMAIN f /\ IsForest(c) /\ Rep(c) = Rep(f)
      BY <1>1, <2>2, <3>1, CompressedIs
    <3>4. DOMAIN g = DOMAIN c /\ IsForest(g) /\ Rep(g) = Rep(c)
      BY <2>2, <3>2, <3>3, CompressedIs
    <3> QED
      BY <1>1, <3>2, <3>3, <3>4, SameRepresentatives
  <2>3. CASE ~({a, b} \subseteq DOMAIN f)
    BY <1>0, <1>1, <2>1, <2>3 DEF Connectivity!TransitivelyConnected
  <2> QED
    BY <2>2, <2>3
<1>5. CASE Connectivity!ConnectedComponents
  <2>1. g = Rep(f) /\ n = m
    BY <1>0, <1>5 DEF Connectivity!ConnectedComponents, Rep
  <2>2. g \in [DOMAIN f -> DOMAIN f]
    BY <1>1, <2>1, RepIs
  <2>3. IsForest(g) /\ Rep(g) = Rep(f)
    BY <1>1, <2>1, <2>2, FlatForest
  <2> QED
    BY <1>1, <2>1, <2>2, <2>3, SameRepresentatives
<1> QED
  BY <1>2, <1>3, <1>4, <1>5 DEF Connectivity!Next

\* A closed set of parents has a trajectory of least rank, which has nowhere to go.
LEMMA NoCycleIn ==
    ASSUME NEW f, IsForest(f), NEW S \in SUBSET DOMAIN f, S # {}, \A t \in S : f[t] \in S
    PROVE  \E t \in S : f[t] = t
<1>1. PICK t \in S : TRUE
  OBVIOUS
<1> SUFFICES ASSUME \A u \in S : f[u] # u PROVE FALSE
  OBVIOUS
<1> DEFINE Holding == DOMAIN f \ S
<1>2. \A u \in DOMAIN f : f[u] = u \/ f[u] \in Holding => u \in Holding
  OBVIOUS
<1>3. Holding = DOMAIN f
  <2>1. Holding \in SUBSET DOMAIN f
    OBVIOUS
  <2> HIDE DEF Holding
  <2> QED
    BY <1>2, <2>1, UpTheForest
<1> QED
  BY <1>1, <1>3

LEMMA ConnectExact == ConnectInv => Connectivity!ConnectedByConnections
<1> SUFFICES ASSUME ConnectInv PROVE Connectivity!ConnectedByConnections
  OBVIOUS
<1>0. IsForest(forest) /\ DOMAIN forest \subseteq Ids
  BY DEF ConnectInv, Agree
<1>1. Connectivity!NoCycle
  <2>0. PICK f : f = forest
    OBVIOUS
  <2>1. ASSUME NEW S \in (SUBSET DOMAIN forest) \ {{}}, \A t \in S : forest[t] \in S
        PROVE  \E t \in S : forest[t] = t
    <3>1. S \in SUBSET DOMAIN f /\ S # {}
      BY <2>0, <2>1
    <3>2. \A t \in S : f[t] \in S
      BY <2>0, <2>1
    <3>3. IsForest(f)
      BY <1>0, <2>0
    <3>4. \E t \in S : f[t] = t
      BY <3>1, <3>2, <3>3, NoCycleIn
    <3> QED
      BY <2>0, <3>4
  <2> QED
    BY <2>1 DEF Connectivity!NoCycle
<1>2. ASSUME NEW a \in DOMAIN forest, NEW b \in DOMAIN forest, Connectivity!Linked(a, b)
      PROVE  Connectivity!Connected(a, b)
  <2> DEFINE S == {t \in DOMAIN forest : Rep(forest)[t] = Rep(forest)[a]}
  <2>1. ASSUME NEW p \in Connectivity!Pairs, connection_map[p] > 0, p \cap S # {}
        PROVE  p \subseteq S
    <3>1. PICK c \in Ids, d \in Ids : p = {c, d}
      BY DEF Connectivity!Pairs
    <3>2. /\ c \in DOMAIN forest /\ d \in DOMAIN forest
          /\ Rep(forest)[c] = Rep(forest)[d]
      BY <2>1, <3>1 DEF ConnectInv, Agree
    <3>3. c \in S \/ d \in S
      <4> HIDE DEF S
      <4> QED
        BY <2>1, <3>1
    <3>4. c \in S /\ d \in S
      BY <3>2, <3>3
    <3> HIDE DEF S
    <3> QED
      BY <3>1, <3>4
  <2>2. S \in SUBSET DOMAIN forest /\ a \in S
    OBVIOUS
  <2>3. b \in S
    <3> HIDE DEF S
    <3> QED
      BY <1>2, <2>1, <2>2 DEF Connectivity!Linked
  <2> QED
    BY <2>3 DEF Connectivity!Connected, Rep
<1>3. ASSUME NEW a \in DOMAIN forest, NEW b \in DOMAIN forest, Connectivity!Connected(a, b)
      PROVE  Connectivity!Linked(a, b)
  <2> SUFFICES ASSUME NEW S \in SUBSET DOMAIN forest, a \in S,
                      \A p \in Connectivity!Pairs :
                         connection_map[p] > 0 /\ p \cap S # {} => p \subseteq S
               PROVE  b \in S
    BY DEF Connectivity!Linked
  <2>1. Closed(S, connection_map)
    BY DEF Closed
  <2>2. \A t \in DOMAIN forest : t \in S <=> Rep(forest)[t] \in S
    BY <2>1 DEF ConnectInv, Agree
  <2>3. Rep(forest)[a] = Rep(forest)[b]
    BY <1>3 DEF Connectivity!Connected, Rep
  <2> QED
    BY <2>2, <2>3
<1> QED
  BY <1>1, <1>2, <1>3 DEF Connectivity!ConnectedByConnections

\* TrajectoryConnectivity, for any number of trajectories and connections: two trajectories
\* are connected if and only if direct connections lead from one to the other, and FindSet
\* ends, whatever unions, queries and compressions came before.
THEOREM ConnectionsAlwaysExact == FrontEndSpec => []ConnectedByConnections
<1>1. FrontEndInit => ConnectInv
  BY ConnectInit DEF FrontEndInit
<1>2. ConnectInv /\ [FrontEndNext]_frontEndVars => ConnectInv'
  <2> SUFFICES ASSUME ConnectInv, [FrontEndNext]_frontEndVars PROVE ConnectInv'
    OBVIOUS
  <2>1. CASE ConnectivityNext
    BY <2>1, ConnectNext DEF ConnectivityNext
  <2>2. CASE UNCHANGED connectivityVars
    BY <2>2 DEF connectivityVars, ConnectInv
  <2>3. ConnectivityNext \/ UNCHANGED connectivityVars
    BY Zenon DEF FrontEndNext, BuilderNext, GridNext, RayNext, MatcherNext, BatchesNext,
                 HybridNext, Matcher3DNext, frontEndVars
  <2> QED
    BY <2>1, <2>2, <2>3
<1>3. ConnectInv => ConnectedByConnections
  BY ConnectExact DEF ConnectedByConnections
<1> QED
  BY <1>1, <1>2, <1>3, FrontEndBehaves, PTL
-----------------------------------------------------------------------------
(* OptimizingLocalTrajectoryBuilder: what is discarded is not missed.       *)

Increasing(data) ==
    data \in Seq(Int) /\ \A j, k \in DOMAIN data : j < k => data[j] < data[k]

\* Datum k is the newest at a time.
NewestAt(data, k, time) ==
    k \in DOMAIN data /\ data[k] <= time /\ (k < Len(data) => data[k + 1] > time)

\* From a datum on, the data become too new somewhere, or end.
LEMMA NewestFound ==
    ASSUME NEW data \in Seq(Int), NEW it \in DOMAIN data, NEW time \in Int
    PROVE  \E k \in it..Len(data) : /\ \A j \in it + 1..k : data[j] <= time
                                    /\ k < Len(data) => data[k + 1] > time
<1> DEFINE n == Len(data)
           S == {k \in it..n : k < n => data[k + 1] > time}
<1>1. n \in Nat /\ DOMAIN data = 1..n /\ it \in 1..n /\ \A k \in 1..n : data[k] \in Int
  OBVIOUS
<1> HIDE DEF n
<1>2. S \in SUBSET Nat /\ n \in S
  BY <1>1
<1>3. PICK k \in S : \A j \in S : k <= j
  BY <1>2, LeastOf
<1>4. ASSUME NEW j \in it + 1..k PROVE data[j] <= time
  <2>1. k \in it..n
    BY <1>3
  <2>2. j - 1 \in it..n /\ j - 1 < n /\ ~(k <= j - 1) /\ j \in 1..n /\ (j - 1) + 1 = j
    BY <1>1, <2>1
  <2>3. j - 1 \notin S
    BY <1>3, <2>2
  <2>4. ~(data[(j - 1) + 1] > time)
    BY <2>2, <2>3
  <2> QED
    BY <1>1, <2>2, <2>4
<1>5. k \in it..n /\ (k < n => data[k + 1] > time)
  BY <1>3
<1> QED
  BY <1>4, <1>5 DEF n

\* imu_integration.h: the iterator ends at the newest datum.
LEMMA AdvancedToNewest ==
    ASSUME NEW data \in Seq(Int), NEW it, NEW start \in Int, NEW end \in Int,
           NewestAt(data, it, start), start <= end
    PROVE  /\ Batches!Advanced(data, it, start, end) \in it..Len(data)
           /\ NewestAt(data, Batches!Advanced(data, it, start, end), end)
<1>1. /\ Len(data) \in Nat /\ it \in 1..Len(data) /\ DOMAIN data = 1..Len(data)
      /\ \A k \in 1..Len(data) : data[k] \in Int
      /\ data[it] <= start
  BY DEF NewestAt
<1>2. CASE start = end
  BY <1>1, <1>2 DEF Batches!Advanced
<1>3. CASE start # end
  <2> DEFINE P(k) == /\ \A j \in it + 1..k : data[j] <= end
                     /\ k < Len(data) => data[k + 1] > end
             found == CHOOSE k \in it..Len(data) : P(k)
  <2>1. \E k \in it..Len(data) : P(k)
    BY <1>1, NewestFound
  <2>2. found \in it..Len(data) /\ P(found)
    BY <2>1, Zenon
  <2>3. Batches!Advanced(data, it, start, end) = found
    BY <1>3 DEF Batches!Advanced
  <2> HIDE DEF found
  <2>4. data[found] <= end /\ found \in 1..Len(data)
    BY <1>1, <2>2
  <2> QED
    BY <1>1, <2>2, <2>3, <2>4 DEF NewestAt
<1> QED
  BY <1>2, <1>3

\* PredictState finds the newest datum when one is old enough.
LEMMA PredictNewest ==
    ASSUME NEW data \in Seq(Int), NEW start \in Int, data # <<>>, data[1] <= start
    PROVE  NewestAt(data, Batches!PredictFrom(data, start), start)
<1>1. /\ Len(data) \in Nat /\ 1 \in DOMAIN data /\ DOMAIN data = 1..Len(data)
      /\ \A k \in 1..Len(data) : data[k] \in Int
  OBVIOUS
<1> DEFINE P(k) == /\ data[k] <= start
                   /\ k < Len(data) => data[k + 1] > start
           found == CHOOSE k \in DOMAIN data : P(k)
<1>2. \E k \in DOMAIN data : P(k)
  <2>1. PICK k \in 1..Len(data) : /\ \A j \in 1 + 1..k : data[j] <= start
                                  /\ k < Len(data) => data[k + 1] > start
    BY <1>1, NewestFound
  <2>2. data[k] <= start
    BY <1>1, <2>1
  <2> QED
    BY <1>1, <2>1, <2>2
<1>3. found \in DOMAIN data /\ P(found)
  BY <1>2, Zenon
<1>4. Batches!PredictFrom(data, start) = found
  <2>1. ~(data[1] > start)
    BY <1>1
  <2> QED
    BY <2>1 DEF Batches!PredictFrom
<1> HIDE DEF found
<1> QED
  BY <1>3, <1>4 DEF NewestAt

\* The iterator before the step from batch i.
IteratorAt(its, data, times, i) ==
    IF i = 1 THEN 1 ELSE Batches!Advanced(data, its[i - 1], times[i - 1].time, times[i].time)

\* One more batch is visited with one more iterator.
LEMMA IteratorsExist ==
    ASSUME NEW data, NEW batches, Len(batches) \in Nat, DOMAIN batches = 1..Len(batches)
    PROVE  \E its : its = [i \in DOMAIN batches |-> IteratorAt(its, data, batches, i)]
<1> DEFINE UpTo(its, n) == its = [i \in 1..n |-> IteratorAt(its, data, batches, i)]
           Bad == {n \in Nat : ~ \E its : UpTo(its, n)}
<1>1. 0 \notin Bad
  <2> DEFINE none == [i \in 1..0 |-> 0]
  <2>1. none = [i \in 1..0 |-> IteratorAt(none, data, batches, i)]
    <3>1. 1..0 = {}
      OBVIOUS
    <3> QED
      BY <3>1
  <2> HIDE DEF none
  <2> QED
    BY <2>1
<1>2. ASSUME NEW n \in Nat, n \notin Bad
      PROVE  n + 1 \notin Bad
  <2>1. PICK its : UpTo(its, n)
    BY <1>2
  <2> DEFINE more == [i \in 1..n + 1 |-> IF i = n + 1 THEN IteratorAt(its, data, batches, i)
                                         ELSE its[i]]
  <2>2. \A i \in 1..n + 1 : more[i] = IteratorAt(more, data, batches, i)
    <3> SUFFICES ASSUME NEW i \in 1..n + 1
                 PROVE  more[i] = IteratorAt(more, data, batches, i)
      OBVIOUS
    <3>1. more[i] = IteratorAt(its, data, batches, i)
      <4>1. CASE i = n + 1
        BY <4>1
      <4>2. CASE i # n + 1
        <5>1. i \in 1..n
          BY <4>2
        <5>2. its[i] = IteratorAt(its, data, batches, i)
          BY <2>1, <5>1, Zenon
        <5> QED
          BY <4>2, <5>2
      <4> QED
        BY <4>1, <4>2
    <3>2. i = 1 \/ (i - 1 \in 1..n /\ i - 1 \in 1..n + 1 /\ i - 1 # n + 1)
      OBVIOUS
    <3>3. i = 1 \/ more[i - 1] = its[i - 1]
      BY <3>2
    <3> HIDE DEF more
    <3> QED
      BY <3>1, <3>3 DEF IteratorAt
  <2>3. more = [i \in 1..n + 1 |-> more[i]]
    OBVIOUS
  <2> HIDE DEF more
  <2>4. UpTo(more, n + 1)
    BY <2>2, <2>3
  <2> QED
    BY <2>4
<1>3. Bad = {}
  <2> SUFFICES ASSUME Bad # {} PROVE FALSE
    OBVIOUS
  <2>1. Bad \in SUBSET Nat
    OBVIOUS
  <2>2. PICK n \in Bad : \A j \in Bad : n <= j
    BY <2>1, LeastOf
  <2>3. n \in Nat /\ n # 0
    BY <1>1, <2>2
  <2> HIDE DEF Bad
  <2>4. n - 1 \in Nat /\ n - 1 \notin Bad /\ (n - 1) + 1 = n
    BY <2>2, <2>3
  <2> QED
    BY <1>2, <2>2, <2>4
<1> QED
  BY <1>3

Batch == [time : Int, scan : Nat]

\* Batches in the order of their times.
InOrder(batches) ==
    /\ batches \in Seq(Batch)
    /\ \A i, j \in DOMAIN batches : i <= j => batches[i].time <= batches[j].time

\* The iterator that goes from batch to batch is at each batch's newest datum.
LEMMA IteratorsAreNewest ==
    ASSUME NEW data \in Seq(Int), NEW batches, InOrder(batches), batches # <<>>,
           NewestAt(data, 1, batches[1].time)
    PROVE  \A i \in DOMAIN batches :
              NewestAt(data, Batches!Iterators(data, batches)[i], batches[i].time)
<1> DEFINE Are(f) == f = [i \in DOMAIN batches |-> IteratorAt(f, data, batches, i)]
           its == CHOOSE f : Are(f)
           Bad == {i \in DOMAIN batches : ~NewestAt(data, its[i], batches[i].time)}
<1>1. /\ batches \in Seq(Batch) /\ Len(batches) \in Nat /\ DOMAIN batches = 1..Len(batches)
      /\ 1 \in DOMAIN batches /\ \A i \in DOMAIN batches : batches[i].time \in Int
  <2>1. batches \in Seq(Batch)
    BY DEF InOrder
  <2>2. \A i \in DOMAIN batches : batches[i] \in Batch
    BY <2>1
  <2> QED
    BY <2>1, <2>2 DEF Batch
<1>2. Batches!Iterators(data, batches) = its
  BY DEF Batches!Iterators, IteratorAt
<1>3. Are(its)
  <2>1. \E f : Are(f)
    BY <1>1, IteratorsExist
  <2> QED
    BY <2>1, Zenon
<1>4. \A i \in DOMAIN batches : its[i] = IteratorAt(its, data, batches, i)
  BY <1>3, Zenon
<1> HIDE DEF its
<1>5. Bad = {}
  <2> SUFFICES ASSUME Bad # {} PROVE FALSE
    OBVIOUS
  <2>1. Bad \in SUBSET Nat
    BY <1>1
  <2>2. PICK i \in Bad : \A j \in Bad : i <= j
    BY <2>1, LeastOf
  <2>3. i \in 1..Len(batches) /\ ~NewestAt(data, its[i], batches[i].time)
    BY <1>1, <2>2
  <2>4. i # 1
    BY <1>1, <1>4, <2>3 DEF IteratorAt
  <2>5. i - 1 \in 1..Len(batches) /\ i - 1 \notin Bad
    BY <1>1, <2>1, <2>2, <2>3, <2>4
  <2>6. NewestAt(data, its[i - 1], batches[i - 1].time)
    BY <1>1, <2>5
  <2>7. /\ batches[i - 1].time <= batches[i].time
        /\ batches[i - 1].time \in Int /\ batches[i].time \in Int
    BY <1>1, <2>3, <2>5 DEF InOrder
  <2>8. its[i] = Batches!Advanced(data, its[i - 1], batches[i - 1].time, batches[i].time)
    BY <1>1, <1>4, <2>3, <2>4 DEF IteratorAt
  <2> QED
    BY <2>3, <2>6, <2>7, <2>8, AdvancedToNewest
<1> QED
  BY <1>2, <1>5

\* The measurement of datum k, from when it or the integration starts to when the next datum
\* or the end comes.
Taken(data, k, start, end) ==
    [imu |-> data[k],
     from |-> Batches!Later(start, data[k]),
     to |-> IF k < Len(data) THEN Batches!Earlier(end, data[k + 1]) ELSE end]

\* What was measured between start and end by all of the data.
MeasuredIn(data, start, end) ==
    {piece \in [imu : {data[k] : k \in DOMAIN data}, from : start..end, to : start..end] :
        /\ piece.from < piece.to
        /\ \E k \in DOMAIN data :
             /\ piece.imu = data[k]
             /\ piece.from = Batches!Later(start, data[k])
             /\ piece.to = IF k < Len(data) THEN Batches!Earlier(end, data[k + 1]) ELSE end}

LEMMA TakenBounds ==
    ASSUME NEW data \in Seq(Int), NEW start \in Int, NEW end \in Int, start <= end,
           NEW k \in DOMAIN data
    PROVE  /\ Taken(data, k, start, end).from \in Int /\ Taken(data, k, start, end).to \in Int
           /\ Taken(data, k, start, end).from >= start /\ Taken(data, k, start, end).to <= end
<1>1. data[k] \in Int /\ (k < Len(data) => data[k + 1] \in Int)
  OBVIOUS
<1> QED
  BY <1>1 DEF Taken, Batches!Later, Batches!Earlier

\* A piece is measured when it is taken and not empty.
LEMMA MeasuredIs ==
    ASSUME NEW data \in Seq(Int), NEW start \in Int, NEW end \in Int, start <= end, NEW piece
    PROVE  piece \in MeasuredIn(data, start, end)
           <=> \E k \in DOMAIN data : piece = Taken(data, k, start, end) /\ piece.from < piece.to
<1>1. ASSUME piece \in MeasuredIn(data, start, end)
      PROVE  \E k \in DOMAIN data :
                piece = Taken(data, k, start, end) /\ piece.from < piece.to
  <2>1. /\ piece \in [imu : {data[k] : k \in DOMAIN data}, from : start..end, to : start..end]
        /\ piece.from < piece.to
    BY <1>1 DEF MeasuredIn
  <2>2. PICK k \in DOMAIN data :
             /\ piece.imu = data[k]
             /\ piece.from = Batches!Later(start, data[k])
             /\ piece.to = IF k < Len(data) THEN Batches!Earlier(end, data[k + 1]) ELSE end
    BY <1>1 DEF MeasuredIn
  <2>3. piece = [imu |-> piece.imu, from |-> piece.from, to |-> piece.to]
    BY <2>1
  <2>4. piece = Taken(data, k, start, end)
    BY <2>2, <2>3 DEF Taken
  <2> QED
    BY <2>1, <2>4
<1>2. ASSUME NEW k \in DOMAIN data, piece = Taken(data, k, start, end), piece.from < piece.to
      PROVE  piece \in MeasuredIn(data, start, end)
  <2>1. /\ piece.imu = data[k]
        /\ piece.from = Batches!Later(start, data[k])
        /\ piece.to = IF k < Len(data) THEN Batches!Earlier(end, data[k + 1]) ELSE end
    BY <1>2 DEF Taken
  <2>2. /\ piece.from \in Int /\ piece.to \in Int /\ piece.from >= start /\ piece.to <= end
    BY <1>2, TakenBounds
  <2>3. piece.from \in start..end /\ piece.to \in start..end
    BY <1>2, <2>2
  <2>4. piece = [imu |-> piece.imu, from |-> piece.from, to |-> piece.to]
    BY <1>2 DEF Taken
  <2>5. piece.imu \in {data[j] : j \in DOMAIN data}
    BY <2>1
  <2>6. piece \in [imu : {data[j] : j \in DOMAIN data}, from : start..end, to : start..end]
    BY <2>3, <2>4, <2>5
  <2> QED
    BY <1>2, <2>1, <2>6 DEF MeasuredIn
<1> QED
  BY <1>1, <1>2

\* The same of what IntegrateImu takes, between the iterators before and after.
LEMMA IntegralIs ==
    ASSUME NEW data \in Seq(Int), NEW it \in DOMAIN data, NEW start \in Int, NEW end \in Int,
           start <= end, Batches!Advanced(data, it, start, end) \in it..Len(data), NEW piece
    PROVE  piece \in Batches!Integral(data, it, start, end)
           <=> \E k \in it..Batches!Advanced(data, it, start, end) :
                  piece = Taken(data, k, start, end) /\ piece.from < piece.to
<1> DEFINE last == Batches!Advanced(data, it, start, end)
<1>0. /\ last \in it..Len(data) /\ it \in 1..Len(data) /\ Len(data) \in Nat
      /\ DOMAIN data = 1..Len(data)
  OBVIOUS
<1>1. ASSUME piece \in Batches!Integral(data, it, start, end)
      PROVE  \E k \in it..last : piece = Taken(data, k, start, end) /\ piece.from < piece.to
  <2>1. /\ piece \in [imu : {data[k] : k \in it..Len(data)}, from : start..end, to : start..end]
        /\ piece.from < piece.to
    BY <1>1 DEF Batches!Integral
  <2>2. PICK k \in it..last :
             /\ piece.imu = data[k]
             /\ piece.from = Batches!Later(start, data[k])
             /\ piece.to = IF k < Len(data) THEN Batches!Earlier(end, data[k + 1]) ELSE end
    BY <1>1 DEF Batches!Integral
  <2>3. piece = [imu |-> piece.imu, from |-> piece.from, to |-> piece.to]
    BY <2>1
  <2>4. piece = Taken(data, k, start, end)
    BY <2>2, <2>3 DEF Taken
  <2> QED
    BY <2>1, <2>4
<1>2. ASSUME NEW k \in it..last, piece = Taken(data, k, start, end), piece.from < piece.to
      PROVE  piece \in Batches!Integral(data, it, start, end)
  <2>0. k \in it..Len(data) /\ k \in DOMAIN data
    BY <1>0
  <2>1. /\ piece.imu = data[k]
        /\ piece.from = Batches!Later(start, data[k])
        /\ piece.to = IF k < Len(data) THEN Batches!Earlier(end, data[k + 1]) ELSE end
    BY <1>2 DEF Taken
  <2>2. /\ piece.from \in Int /\ piece.to \in Int /\ piece.from >= start /\ piece.to <= end
    BY <1>2, <2>0, TakenBounds
  <2>3. piece.from \in start..end /\ piece.to \in start..end
    BY <1>2, <2>2
  <2>4. piece = [imu |-> piece.imu, from |-> piece.from, to |-> piece.to]
    BY <1>2 DEF Taken
  <2>5. piece.imu \in {data[j] : j \in it..Len(data)}
    BY <2>0, <2>1
  <2>6. piece \in [imu : {data[j] : j \in it..Len(data)}, from : start..end, to : start..end]
    BY <2>3, <2>4, <2>5
  <2> QED
    BY <1>2, <2>1, <2>6 DEF Batches!Integral
<1> QED
  BY <1>1, <1>2

\* The last data of all, in the same order.
Suffix(data, all) ==
    \E n \in 0..Len(all) : /\ Len(data) = Len(all) - n
                           /\ \A k \in DOMAIN data : data[k] = all[n + k]

\* What is kept of all data: they are increasing and the last ones are kept.
KeptOf(data, all) ==
    /\ Increasing(all)
    /\ data \in Seq(Int)
    /\ Suffix(data, all)
    /\ all # <<>> => data # <<>>

LEMMA KeptIncreasing ==
    ASSUME NEW data, NEW all, KeptOf(data, all)
    PROVE  Increasing(data)
<1>1. PICK n \in 0..Len(all) : /\ Len(data) = Len(all) - n
                               /\ \A k \in DOMAIN data : data[k] = all[n + k]
  BY DEF KeptOf, Suffix
<1>2. /\ all \in Seq(Int) /\ data \in Seq(Int)
      /\ \A j, k \in DOMAIN all : j < k => all[j] < all[k]
  BY DEF KeptOf, Increasing
<1>3. ASSUME NEW j \in DOMAIN data, NEW k \in DOMAIN data, j < k
      PROVE  data[j] < data[k]
  <2>1. /\ j \in 1..Len(data) /\ k \in 1..Len(data) /\ Len(data) \in Nat /\ Len(all) \in Nat
        /\ DOMAIN all = 1..Len(all)
    BY <1>2
  <2>2. n + j \in DOMAIN all /\ n + k \in DOMAIN all /\ n + j < n + k
    BY <1>1, <1>3, <2>1
  <2> QED
    BY <1>1, <1>2, <2>2
<1> QED
  BY <1>2, <1>3 DEF Increasing

\* An integration that starts at the newest datum takes all that was measured.
LEMMA IntegralIsMeasured ==
    ASSUME NEW data, NEW all, KeptOf(data, all), NEW it, NEW start \in Int, NEW end \in Int,
           NewestAt(data, it, start), start <= end
    PROVE  Batches!Integral(data, it, start, end) = MeasuredIn(all, start, end)
<1> DEFINE last == Batches!Advanced(data, it, start, end)
<1>1. PICK n \in 0..Len(all) : /\ Len(data) = Len(all) - n
                               /\ \A k \in DOMAIN data : data[k] = all[n + k]
  BY DEF KeptOf, Suffix
<1>2. /\ all \in Seq(Int) /\ data \in Seq(Int) /\ Len(all) \in Nat /\ Len(data) \in Nat
      /\ DOMAIN all = 1..Len(all) /\ DOMAIN data = 1..Len(data)
      /\ \A j, k \in DOMAIN all : j < k => all[j] < all[k]
      /\ \A k \in DOMAIN all : all[k] \in Int
      /\ \A k \in DOMAIN data : data[k] \in Int
  BY DEF KeptOf, Increasing
<1> DEFINE A == Len(all)
           L == Len(data)
<1>8. /\ A \in Nat /\ L \in Nat /\ n \in 0..A /\ L = A - n
      /\ DOMAIN all = 1..A /\ DOMAIN data = 1..L
      /\ \A k \in 1..L : data[k] = all[n + k]
      /\ \A j, k \in 1..A : j <= k => all[j] <= all[k]
      /\ \A k \in 1..A : all[k] \in Int
  <2>1. \A j, k \in DOMAIN all : j <= k => all[j] <= all[k]
    <3> TAKE j, k \in DOMAIN all
    <3>1. all[j] \in Int /\ all[k] \in Int /\ (j < k => all[j] < all[k])
      BY <1>2
    <3>2. j \in 1..A /\ k \in 1..A
      BY <1>2
    <3>3. j <= k => j < k \/ j = k
      BY <1>2, <3>2
    <3> QED
      BY <3>1, <3>3
  <2> QED
    BY <1>1, <1>2, <2>1
<1>3. /\ last \in it..Len(data) /\ NewestAt(data, last, end)
  BY <1>2, AdvancedToNewest
<1> HIDE DEF last
<1>4. /\ it \in DOMAIN data /\ data[it] <= start /\ last \in DOMAIN data
      /\ last < Len(data) => data[last + 1] > end
  BY <1>3 DEF NewestAt
<1>5. ASSUME NEW k \in DOMAIN data
      PROVE  n + k \in DOMAIN all /\ Taken(data, k, start, end) = Taken(all, n + k, start, end)
  <2>1. n + k \in DOMAIN all /\ data[k] = all[n + k] /\ (k < Len(data) <=> n + k < Len(all))
    <3> HIDE DEF A, L
    <3>1. n + k \in 1..A /\ (k < L <=> n + k < A) /\ k \in 1..L
      BY <1>8
    <3> QED
      BY <1>8, <3>1 DEF A, L
  <2>2. k < Len(data) => data[k + 1] = all[(n + k) + 1]
    <3> HIDE DEF A, L
    <3>1. k < L => k + 1 \in 1..L /\ n + (k + 1) = (n + k) + 1
      BY <1>8
    <3> QED
      BY <1>8, <3>1 DEF L
  <2> QED
    BY <2>1, <2>2 DEF Taken
<1>6. ASSUME NEW j \in DOMAIN all, Taken(all, j, start, end).from < Taken(all, j, start, end).to
      PROVE  j - n \in it..last
  <2>1. /\ Taken(all, j, start, end).from = Batches!Later(start, all[j])
        /\ Taken(all, j, start, end).to = IF j < Len(all) THEN Batches!Earlier(end, all[j + 1])
                                          ELSE end
    BY DEF Taken
  <2>2. ~(j - n < it)
    <3> SUFFICES ASSUME j - n < it PROVE FALSE
      OBVIOUS
    <3>1. /\ n + it \in DOMAIN all /\ all[n + it] = data[it] /\ j + 1 \in DOMAIN all
          /\ j + 1 <= n + it /\ j < Len(all)
      <4> HIDE DEF A, L
      <4>1. j \in 1..A /\ it \in 1..L
        BY <1>4, <1>8
      <4>2. n + it \in 1..A /\ j + 1 \in 1..A /\ j + 1 <= n + it /\ j < A
        BY <1>8, <4>1
      <4> QED
        BY <1>8, <4>1, <4>2 DEF A
    <3>2. all[j + 1] <= all[n + it]
      BY <1>8, <3>1
    <3>3. all[j + 1] <= start /\ all[j + 1] \in Int /\ all[j] \in Int
      BY <1>2, <1>4, <3>1, <3>2
    <3> QED
      BY <1>6, <2>1, <3>1, <3>3 DEF Batches!Later, Batches!Earlier
  <2>3. ~(j - n > last)
    <3> SUFFICES ASSUME j - n > last PROVE FALSE
      OBVIOUS
    <3>1. /\ last < Len(data) /\ last + 1 \in DOMAIN data /\ n + (last + 1) \in DOMAIN all
          /\ n + (last + 1) <= j
      <4> HIDE DEF A, L
      <4>1. j \in 1..A /\ last \in 1..L
        BY <1>4, <1>8
      <4>2. last < L /\ last + 1 \in 1..L /\ n + (last + 1) \in 1..A /\ n + (last + 1) <= j
        BY <1>8, <4>1
      <4> QED
        BY <1>8, <4>2 DEF A, L
    <3>2. all[n + (last + 1)] = data[last + 1] /\ data[last + 1] > end
      BY <1>1, <1>4, <3>1
    <3>3. all[j] >= all[n + (last + 1)]
      BY <1>8, <3>1
    <3>4. all[j] > end /\ all[j] \in Int /\ (j < Len(all) => all[j + 1] \in Int)
      BY <1>2, <3>1, <3>2, <3>3
    <3> QED
      BY <1>6, <2>1, <3>4 DEF Batches!Later, Batches!Earlier
  <2> QED
    BY <1>1, <1>2, <1>3, <1>4, <2>2, <2>3
<1>7. ASSUME NEW piece PROVE piece \in Batches!Integral(data, it, start, end)
                             <=> piece \in MeasuredIn(all, start, end)
  <2>1. piece \in Batches!Integral(data, it, start, end)
        <=> \E k \in it..last : piece = Taken(data, k, start, end) /\ piece.from < piece.to
    BY <1>2, <1>3, <1>4, IntegralIs DEF last
  <2>2. piece \in MeasuredIn(all, start, end)
        <=> \E j \in DOMAIN all : piece = Taken(all, j, start, end) /\ piece.from < piece.to
    BY <1>2, MeasuredIs
  <2>3. ASSUME NEW k \in it..last, piece = Taken(data, k, start, end), piece.from < piece.to
        PROVE  \E j \in DOMAIN all : piece = Taken(all, j, start, end) /\ piece.from < piece.to
    <3>1. k \in DOMAIN data
      BY <1>2, <1>3, <1>4
    <3> QED
      BY <1>5, <2>3, <3>1
  <2>4. ASSUME NEW j \in DOMAIN all, piece = Taken(all, j, start, end), piece.from < piece.to
        PROVE  \E k \in it..last : piece = Taken(data, k, start, end) /\ piece.from < piece.to
    <3>1. j - n \in it..last
      BY <1>6, <2>4
    <3>2. j - n \in DOMAIN data /\ n + (j - n) = j
      <4> HIDE DEF A, L
      <4>1. it \in 1..L /\ last \in 1..L /\ j \in 1..A
        BY <1>4, <1>8
      <4>2. j - n \in 1..L /\ n + (j - n) = j
        BY <1>8, <3>1, <4>1
      <4> QED
        BY <1>8, <4>2
    <3> QED
      BY <1>5, <2>4, <3>1, <3>2
  <2> QED
    BY <2>1, <2>2, <2>3, <2>4
<1> QED
  BY <1>7

\* A datum after the end changes nothing of what was measured.
LEMMA MeasuredGrows ==
    ASSUME NEW data, Increasing(data), NEW new \in Int, NEW start \in Int, NEW end \in Int,
           start <= end, end <= new
    PROVE  MeasuredIn(Append(data, new), start, end) = MeasuredIn(data, start, end)
<1> DEFINE more == Append(data, new)
<1>1. /\ data \in Seq(Int) /\ more \in Seq(Int) /\ Len(data) \in Nat
      /\ Len(more) = Len(data) + 1 /\ DOMAIN data = 1..Len(data)
      /\ DOMAIN more = 1..Len(data) + 1
      /\ \A k \in DOMAIN data : more[k] = data[k]
      /\ more[Len(data) + 1] = new
      /\ \A k \in DOMAIN data : data[k] \in Int
  BY DEF Increasing
<1> HIDE DEF more
<1>2. ASSUME NEW k \in DOMAIN data
      PROVE  k \in DOMAIN more /\ Taken(more, k, start, end) = Taken(data, k, start, end)
  <2>1. CASE k < Len(data)
    <3>1. k \in DOMAIN more /\ k + 1 \in DOMAIN data /\ k < Len(more)
      BY <1>1, <2>1
    <3> QED
      BY <1>1, <2>1, <3>1 DEF Taken
  <2>2. CASE k = Len(data)
    <3>1. k \in DOMAIN more /\ k < Len(more) /\ more[k + 1] = new /\ ~(k < Len(data))
      BY <1>1, <2>2
    <3>2. Batches!Earlier(end, new) = end
      BY DEF Batches!Earlier
    <3> QED
      BY <1>1, <3>1, <3>2 DEF Taken
  <2> QED
    BY <1>1, <2>1, <2>2
<1>3. LET last == Taken(more, Len(data) + 1, start, end) IN ~(last.from < last.to)
  <2>1. ~(Len(data) + 1 < Len(more)) /\ more[Len(data) + 1] = new
    BY <1>1
  <2>2. Batches!Later(start, new) >= end
    BY DEF Batches!Later
  <2>3. Batches!Later(start, new) \in Int
    BY DEF Batches!Later
  <2> QED
    BY <2>1, <2>2, <2>3 DEF Taken
<1>4. ASSUME NEW piece PROVE piece \in MeasuredIn(more, start, end)
                             <=> piece \in MeasuredIn(data, start, end)
  <2>1. piece \in MeasuredIn(data, start, end)
        <=> \E k \in DOMAIN data : piece = Taken(data, k, start, end) /\ piece.from < piece.to
    BY <1>1, MeasuredIs
  <2>2. piece \in MeasuredIn(more, start, end)
        <=> \E k \in DOMAIN more : piece = Taken(more, k, start, end) /\ piece.from < piece.to
    BY <1>1, MeasuredIs
  <2>3. ASSUME NEW k \in DOMAIN more, piece = Taken(more, k, start, end), piece.from < piece.to
        PROVE  k \in DOMAIN data
    BY <1>1, <1>3, <2>3
  <2> QED
    BY <1>2, <2>1, <2>2, <2>3
<1> QED
  BY <1>4 DEF more

\* What Lookup returns: the datum of the time, or those around it.
LEMMA LookupIs ==
    ASSUME NEW data, Increasing(data), NEW time \in Int, NEW k, NewestAt(data, k, time),
           k = Len(data) => data[k] = time
    PROVE  Batches!Lookup(data, time) = IF data[k] = time THEN {time}
                                        ELSE {data[k], data[k + 1]}
<1> DEFINE L == Len(data)
<1>1. /\ L \in Nat /\ DOMAIN data = 1..L /\ k \in 1..L
      /\ \A j \in 1..L : data[j] \in Int
      /\ \A j, i \in 1..L : j < i => data[j] < data[i]
      /\ data[k] <= time /\ (k < L => data[k + 1] > time) /\ (k = L => data[k] = time)
  BY DEF Increasing, NewestAt
<1> HIDE DEF L
<1>2. CASE data[k] = time
  <2>1. \E j \in DOMAIN data : data[j] = time
    BY <1>1, <1>2
  <2> QED
    BY <1>2, <2>1 DEF Batches!Lookup
<1>3. CASE data[k] # time
  <2> DEFINE Around == {j \in DOMAIN data : \/ data[j] < time /\ data[j + 1] > time
                                            \/ data[j] > time /\ data[j - 1] < time}
  <2> HIDE DEF Around
  <2>1. data[k] < time /\ k < L /\ data[k + 1] > time /\ k + 1 \in 1..L
    BY <1>1, <1>3
  <2>2. ASSUME NEW j \in 1..L, j < k PROVE data[j] < time /\ data[j + 1] < time
    <3>1. j + 1 \in 1..L /\ (j + 1 < k \/ j + 1 = k)
      BY <1>1, <2>2
    <3>2. data[j] < data[k] /\ (j + 1 < k => data[j + 1] < data[k])
      BY <1>1, <2>2, <3>1
    <3> QED
      BY <1>1, <2>1, <3>1, <3>2
  <2>3. ASSUME NEW j \in 1..L, j > k + 1 PROVE data[j] > time /\ data[j - 1] > time
    <3>1. j - 1 \in 1..L /\ (j - 1 > k + 1 \/ j - 1 = k + 1)
      BY <1>1, <2>3
    <3>2. data[j] > data[k + 1] /\ (j - 1 > k + 1 => data[j - 1] > data[k + 1])
      BY <1>1, <2>1, <2>3, <3>1
    <3> QED
      BY <1>1, <2>1, <3>1, <3>2
  <2>4. ~ \E j \in DOMAIN data : data[j] = time
    <3> SUFFICES ASSUME NEW j \in 1..L, data[j] = time PROVE FALSE
      BY <1>1
    <3>1. j < k \/ j = k \/ j = k + 1 \/ j > k + 1
      BY <1>1
    <3> QED
      BY <1>1, <2>1, <2>2, <2>3, <3>1
  <2>5. \A j \in DOMAIN data : j \in Around <=> j = k \/ j = k + 1
    <3> TAKE j \in DOMAIN data
    <3>0. j \in Around <=>
                          \/ data[j] < time /\ data[j + 1] > time
                          \/ data[j] > time /\ data[j - 1] < time
      BY DEF Around
    <3>1. j < k \/ j = k \/ j = k + 1 \/ j > k + 1
      BY <1>1
    <3>2. CASE j < k
      <4>1. data[j] < time /\ data[j + 1] < time /\ data[j] \in Int /\ data[j + 1] \in Int
        BY <1>1, <2>2, <3>2
      <4> QED
        BY <1>1, <3>0, <3>2, <4>1
    <3>3. CASE j = k
      BY <2>1, <3>0, <3>3
    <3>4. CASE j = k + 1
      <4>1. data[j] > time /\ data[j - 1] < time
        BY <1>1, <2>1, <3>4
      <4> QED
        BY <3>0, <3>4, <4>1
    <3>5. CASE j > k + 1
      <4>1. data[j] > time /\ data[j - 1] > time /\ data[j] \in Int /\ data[j - 1] \in Int
        BY <1>1, <2>3, <3>5
      <4> QED
        BY <1>1, <3>0, <3>5, <4>1
    <3> QED
      BY <3>1, <3>2, <3>3, <3>4, <3>5
  <2>6. Around = {k, k + 1}
    <3>1. k \in DOMAIN data /\ k + 1 \in DOMAIN data
      BY <1>1, <2>1
    <3>2. \A j \in Around : j \in DOMAIN data
      BY DEF Around
    <3> QED
      BY <2>5, <3>1, <3>2
  <2>7. {data[j] : j \in Around} = {data[k], data[k + 1]}
    BY <2>6
  <2>8. Batches!Lookup(data, time) = {data[j] : j \in Around}
    BY <2>4, Zenon DEF Batches!Lookup, Around
  <2> QED
    BY <1>3, <2>7, <2>8
<1> QED
  BY <1>2, <1>3

\* A time between the first and the last datum has a newest datum before it.
LEMMA Bracketed ==
    ASSUME NEW data, Increasing(data), data # <<>>, NEW time \in Int, data[1] <= time,
           time <= data[Len(data)]
    PROVE  \E k : NewestAt(data, k, time) /\ (k = Len(data) => data[k] = time)
<1>1. /\ Len(data) \in Nat /\ DOMAIN data = 1..Len(data) /\ 1 \in 1..Len(data)
      /\ \A j \in 1..Len(data) : data[j] \in Int
  BY DEF Increasing
<1>2. data \in Seq(Int) /\ 1 \in DOMAIN data
  BY <1>1 DEF Increasing
<1>3. PICK k \in 1..Len(data) : /\ \A j \in 1 + 1..k : data[j] <= time
                                /\ k < Len(data) => data[k + 1] > time
  BY <1>2, NewestFound
<1>4. data[k] <= time
  BY <1>1, <1>3
<1> QED
  BY <1>1, <1>3, <1>4 DEF NewestAt

\* What is discarded of the odometer is not missed between its first and last kept data.
LEMMA LookupKept ==
    ASSUME NEW data, NEW all, KeptOf(data, all), data # <<>>, NEW time \in Int,
           data[1] <= time, time <= data[Len(data)]
    PROVE  /\ Batches!Lookup(data, time) = Batches!Lookup(all, time)
           /\ all # <<>> /\ all[1] <= time /\ time <= all[Len(all)]
<1>1. PICK n \in 0..Len(all) : /\ Len(data) = Len(all) - n
                               /\ \A k \in DOMAIN data : data[k] = all[n + k]
  BY DEF KeptOf, Suffix
<1> DEFINE A == Len(all)
           L == Len(data)
<1>2. /\ A \in Nat /\ L \in Nat /\ n \in 0..A /\ L = A - n /\ L > 0
      /\ DOMAIN all = 1..A /\ DOMAIN data = 1..L
      /\ \A k \in 1..L : data[k] = all[n + k]
      /\ \A k \in 1..A : all[k] \in Int
      /\ \A j, k \in 1..A : j < k => all[j] < all[k]
  <2>1. /\ all \in Seq(Int) /\ data \in Seq(Int)
        /\ \A j, k \in DOMAIN all : j < k => all[j] < all[k]
    BY DEF KeptOf, Increasing
  <2>2. /\ A \in Nat /\ L \in Nat /\ L > 0 /\ DOMAIN all = 1..A /\ DOMAIN data = 1..L
        /\ \A k \in 1..A : all[k] \in Int
    BY <2>1
  <2> QED
    BY <1>1, <2>1, <2>2
<1> HIDE DEF A, L
<1>3. Increasing(data) /\ Increasing(all)
  BY KeptIncreasing DEF KeptOf
<1>4. PICK k : NewestAt(data, k, time) /\ (k = Len(data) => data[k] = time)
  BY <1>3, Bracketed
<1>5. k \in 1..L /\ data[k] <= time /\ (k < L => data[k + 1] > time) /\ (k = L => data[k] = time)
  BY <1>2, <1>4 DEF NewestAt, L
<1>6. /\ NewestAt(all, n + k, time) /\ all[n + k] = data[k]
      /\ k < L => all[(n + k) + 1] = data[k + 1]
      /\ n + k = Len(all) => all[n + k] = time
  <2>1. n + k \in 1..A /\ (n + k < A <=> k < L) /\ (n + k = A <=> k = L)
        /\ (k < L => k + 1 \in 1..L /\ n + (k + 1) = (n + k) + 1)
    BY <1>2, <1>5
  <2>2. all[n + k] = data[k] /\ (k < L => all[(n + k) + 1] = data[k + 1])
    BY <1>2, <1>5, <2>1
  <2> QED
    BY <1>2, <1>5, <2>1, <2>2 DEF NewestAt, A, L
<1>7. Batches!Lookup(data, time) = IF data[k] = time THEN {time} ELSE {data[k], data[k + 1]}
  BY <1>3, <1>4, LookupIs
<1>8. Batches!Lookup(all, time) = IF all[n + k] = time THEN {time}
                                  ELSE {all[n + k], all[(n + k) + 1]}
  BY <1>3, <1>6, LookupIs
<1>9. data[k] # time => k < L
  BY <1>2, <1>5
<1>10. all # <<>> /\ all[1] <= time /\ time <= all[Len(all)]
  <2>1. 1 \in 1..L /\ L \in 1..L /\ 1 \in 1..A /\ n + 1 \in 1..A /\ n + L = A
    BY <1>2
  <2>2. data[1] = all[n + 1] /\ data[L] = all[A]
    BY <1>2, <2>1
  <2>3. all[1] <= all[n + 1]
    <3>1. 1 = n + 1 \/ 1 < n + 1
      BY <1>2
    <3>2. all[1] \in Int /\ all[n + 1] \in Int /\ (1 < n + 1 => all[1] < all[n + 1])
      BY <1>2, <2>1
    <3> QED
      BY <3>1, <3>2
  <2>4. all[1] \in Int /\ all[n + 1] \in Int /\ all[A] \in Int
    BY <1>2, <2>1
  <2>5. all # <<>>
    BY <1>2, <2>1 DEF A
  <2> QED
    BY <2>2, <2>3, <2>4, <2>5 DEF L, A
<1> QED
  BY <1>6, <1>7, <1>8, <1>9, <1>10

\* A newer datum is kept with the others.
LEMMA KeptAppend ==
    ASSUME NEW data, NEW all, KeptOf(data, all), NEW new \in Int,
           all # <<>> => new > all[Len(all)]
    PROVE  KeptOf(Append(data, new), Append(all, new))
<1> DEFINE more == Append(data, new)
           most == Append(all, new)
           A == Len(all)
           L == Len(data)
<1>1. /\ data \in Seq(Int) /\ more \in Seq(Int) /\ L \in Nat /\ A \in Nat
      /\ all \in Seq(Int) /\ most \in Seq(Int) /\ (A > 0 => all # <<>>)
      /\ Len(more) = L + 1 /\ DOMAIN data = 1..L /\ DOMAIN more = 1..L + 1
      /\ Len(most) = A + 1 /\ DOMAIN all = 1..A /\ DOMAIN most = 1..A + 1
      /\ \A k \in 1..L : more[k] = data[k]
      /\ \A k \in 1..A : most[k] = all[k]
      /\ more[L + 1] = new /\ most[A + 1] = new
      /\ \A k \in 1..A : all[k] \in Int
      /\ \A j, k \in 1..A : j < k => all[j] < all[k]
  BY DEF KeptOf, Increasing
<1>2. PICK n \in 0..A : L = A - n /\ \A k \in 1..L : data[k] = all[n + k]
  BY <1>1 DEF KeptOf, Suffix
<1>6. A > 0 => new > all[A]
  BY <1>1
<1> HIDE DEF more, most, A, L
<1>3. Increasing(most)
  <2>1. ASSUME NEW j \in 1..A + 1, NEW k \in 1..A + 1, j < k PROVE most[j] < most[k]
    <3>1. CASE k \in 1..A
      <4>1. j \in 1..A
        BY <1>1, <2>1, <3>1
      <4>2. most[j] = all[j] /\ most[k] = all[k]
        BY <1>1, <3>1, <4>1
      <4>3. all[j] < all[k]
        BY <1>1, <2>1, <3>1, <4>1
      <4> QED
        BY <4>2, <4>3
    <3>2. CASE k = A + 1
      <4>1. j \in 1..A /\ A \in 1..A /\ (j < A \/ j = A) /\ A > 0
        BY <1>1, <2>1, <3>2
      <4>2. all[j] <= all[A] /\ all[j] \in Int /\ all[A] \in Int /\ new > all[A]
        BY <1>1, <1>6, <4>1
      <4>3. most[j] = all[j] /\ most[k] = new
        BY <1>1, <3>2, <4>1
      <4> QED
        BY <4>2, <4>3
    <3> QED
      BY <1>1, <3>1, <3>2
  <2> QED
    BY <1>1, <2>1 DEF Increasing
<1>4. Suffix(more, most)
  <2>1. n \in 0..A + 1 /\ L + 1 = (A + 1) - n
    BY <1>1, <1>2
  <2>2. \A k \in 1..L + 1 : more[k] = most[n + k]
    <3> TAKE k \in 1..L + 1
    <3>1. CASE k \in 1..L
      <4>1. n + k \in 1..A
        BY <1>1, <1>2, <3>1
      <4> QED
        BY <1>1, <1>2, <3>1, <4>1
    <3>2. CASE k = L + 1
      <4>1. n + k = A + 1
        BY <1>1, <1>2, <3>2
      <4> QED
        BY <1>1, <3>2, <4>1
    <3> QED
      BY <1>1, <3>1, <3>2
  <2> QED
    BY <1>1, <2>1, <2>2 DEF Suffix, A, L
<1>5. more # <<>>
  BY <1>1
<1> QED
  <2> HIDE DEF more, most
  <2>1. KeptOf(more, most)
    BY <1>1, <1>3, <1>4, <1>5 DEF KeptOf
  <2> QED
    BY <2>1 DEF more, most

\* What is popped of the data: those in front of the newest one that is not newer than the
\* batches, when there is one.  When some are popped, one that is not newer stays.
LEMMA PoppedIs ==
    ASSUME NEW data, NEW all, KeptOf(data, all), NEW batches, InOrder(batches)
    PROVE  LET popped == Batches!PopObsolete(data, batches)
           IN  /\ KeptOf(popped, all)
               /\ batches # <<>> /\ data # <<>> /\ data[1] <= batches[1].time
                     => NewestAt(popped, 1, batches[1].time)
               /\ \/ Len(popped) = Len(data) /\ popped[1] = data[1]
                  \/ batches # <<>> => popped[1] <= batches[1].time
<1> DEFINE popped == Batches!PopObsolete(data, batches)
           L == Len(data)
           Obsolete(k) == batches = <<>> \/ data[k + 1] <= Batches!Front(batches).time
           P(k) == /\ \A j \in 1..k : Obsolete(j)
                   /\ k < L - 1 => ~Obsolete(k + 1)
           found == CHOOSE k \in 0..L - 1 : P(k)
<1>1. CASE data = <<>>
  BY <1>1 DEF Batches!PopObsolete
<1>2. CASE data # <<>>
  <2>1. data \in Seq(Int) /\ L \in Nat /\ L > 0 /\ DOMAIN data = 1..L
    BY <1>2 DEF KeptOf
  <2>2. popped = SubSeq(data, found + 1, L)
    BY <1>2 DEF Batches!PopObsolete
  <2>3. \E k \in 0..L - 1 : P(k)
    <3> HIDE DEF L, Obsolete
    <3> DEFINE S == {k \in 0..L - 1 : k < L - 1 => ~Obsolete(k + 1)}
    <3>1. S \in SUBSET Nat /\ L - 1 \in S
      BY <2>1
    <3>2. PICK k \in S : \A j \in S : k <= j
      BY <3>1, LeastOf
    <3>3. ASSUME NEW j \in 1..k PROVE Obsolete(j)
      <4>1. k \in 0..L - 1
        BY <3>2
      <4>2. j - 1 \in 0..L - 1 /\ j - 1 < L - 1 /\ ~(k <= j - 1) /\ (j - 1) + 1 = j
        BY <2>1, <4>1
      <4>3. j - 1 \notin S
        BY <3>2, <4>2
      <4> HIDE DEF Obsolete
      <4>4. Obsolete((j - 1) + 1)
        BY <4>2, <4>3
      <4> QED
        BY <4>2, <4>4
    <3>4. k \in 0..L - 1 /\ (k < L - 1 => ~Obsolete(k + 1))
      BY <3>2
    <3> QED
      BY <3>3, <3>4
  <2>4. found \in 0..L - 1 /\ P(found)
    BY <2>3, Zenon
  <2> HIDE DEF found
  <2>5. /\ popped \in Seq(Int) /\ Len(popped) = L - found
        /\ \A k \in 1..L - found : popped[k] = data[found + k]
        /\ found + 1 \in 1..L
    <3>1. found + 1 \in 1..L /\ L \in 1..L /\ (L - (found + 1)) + 1 = L - found
      BY <2>1, <2>4
    <3>2. /\ popped \in Seq(Int) /\ Len(popped) = L - found
      BY <2>1, <2>2, <3>1
    <3>3. \A k \in 1..L - found : popped[k] = data[found + k]
      <4> TAKE k \in 1..L - found
      <4>1. popped[k] = data[((found + 1) + k) - 1]
        BY <2>1, <2>2, <3>1
      <4>2. ((found + 1) + k) - 1 = found + k
        BY <2>1, <2>4
      <4> QED
        BY <4>1, <4>2
    <3> QED
      BY <3>1, <3>2, <3>3
  <2> HIDE DEF popped
  <2>6. KeptOf(popped, all)
    <3>1. PICK n \in 0..Len(all) : L = Len(all) - n /\ \A k \in DOMAIN data : data[k] = all[n + k]
      BY DEF KeptOf, Suffix
    <3>2. Len(all) \in Nat /\ Increasing(all)
      BY DEF KeptOf, Increasing
    <3> DEFINE A == Len(all)
    <3> HIDE DEF A, L
    <3>3. n + found \in 0..A /\ L - found = A - (n + found)
      BY <2>1, <2>4, <3>1, <3>2 DEF A
    <3>4. \A k \in 1..L - found : popped[k] = all[(n + found) + k]
      <4> TAKE k \in 1..L - found
      <4>1. found + k \in 1..L /\ n + (found + k) = (n + found) + k
        BY <2>1, <2>4, <3>1, <3>2
      <4> QED
        BY <2>1, <2>5, <3>1, <4>1
    <3>5. DOMAIN popped = 1..L - found /\ popped # <<>>
      BY <2>1, <2>4, <2>5
    <3>6. Suffix(popped, all)
      BY <2>5, <3>3, <3>4, <3>5 DEF Suffix, A
    <3> QED
      BY <2>5, <3>2, <3>5, <3>6 DEF KeptOf
  <2>7. ASSUME batches # <<>>, data[1] <= batches[1].time
        PROVE  NewestAt(popped, 1, batches[1].time)
    <3>0. \A k : Obsolete(k) <=> data[k + 1] <= batches[1].time
      BY <2>7 DEF Batches!Front
    <3> HIDE DEF Obsolete, L
    <3>1. popped[1] = data[found + 1] /\ 1 \in 1..L - found
      BY <2>1, <2>4, <2>5
    <3>2. data[found + 1] <= batches[1].time
      <4>1. CASE found = 0
        BY <2>7, <4>1
      <4>2. CASE found # 0
        <5>1. found \in 1..found
          BY <2>1, <2>4, <4>2
        <5> QED
          BY <2>4, <3>0, <5>1
      <4> QED
        BY <4>1, <4>2
    <3>3. ASSUME 1 < L - found PROVE popped[2] > batches[1].time
      <4>1. found < L - 1 /\ 2 \in 1..L - found /\ found + 2 \in 1..L
            /\ (found + 1) + 1 = found + 2
        BY <2>1, <2>4, <3>3
      <4>2. popped[2] = data[found + 2] /\ ~(data[found + 2] <= batches[1].time)
        BY <2>4, <2>5, <3>0, <4>1
      <4>3. data[found + 2] \in Int /\ batches[1].time \in Int
        <5>1. batches \in Seq(Batch)
          BY DEF InOrder
        <5>2. batches[1] \in Batch
          BY <2>7, <5>1
        <5> QED
          BY <2>1, <4>1, <5>2 DEF Batch
      <4> QED
        BY <4>2, <4>3
    <3>4. DOMAIN popped = 1..L - found
      BY <2>5
    <3> QED
      BY <2>5, <3>1, <3>2, <3>3, <3>4 DEF NewestAt
  <2>8. \/ Len(popped) = L /\ popped[1] = data[1]
        \/ batches # <<>> => popped[1] <= batches[1].time
    <3>1. CASE found = 0
      <4>1. 1 \in 1..L - found /\ found + 1 = 1 /\ L - found = L
        BY <2>1, <3>1
      <4> QED
        BY <2>5, <4>1
    <3>2. CASE found # 0
      <4>1. found \in 1..found /\ 1 \in 1..L - found
        BY <2>1, <2>4, <3>2
      <4>2. Obsolete(found)
        BY <2>4, <4>1
      <4>3. batches # <<>> => data[found + 1] <= batches[1].time
        BY <4>2 DEF Batches!Front
      <4> QED
        BY <2>5, <4>1, <4>3
    <3> QED
      BY <3>1, <3>2
  <2> QED
    BY <2>6, <2>7, <2>8 DEF popped, L
<1> QED
  BY <1>1, <1>2

\* The batches' scans are those before the last one, without a gap.
Numbered(batches, scans) ==
    \A i \in DOMAIN batches : batches[i].scan = (scans - Len(batches)) + i

Smaller(a, b) == IF a <= b THEN a ELSE b

\* A batch is added behind the others.
LEMMA BatchAdded ==
    ASSUME NEW batches, InOrder(batches), NEW scans \in Nat, Numbered(batches, scans),
           NEW time \in Int, \A i \in DOMAIN batches : batches[i].time <= time
    PROVE  LET more == Append(batches, [time |-> time, scan |-> scans + 1])
           IN  /\ InOrder(more) /\ Numbered(more, scans + 1) /\ Len(more) = Len(batches) + 1
               /\ \A i \in DOMAIN more : more[i].time <= time
<1> DEFINE new == [time |-> time, scan |-> scans + 1]
           more == Append(batches, new)
           L == Len(batches)
<1>1. batches \in Seq(Batch) /\ new \in Batch
  BY DEF InOrder, Batch
<1>2. /\ more \in Seq(Batch) /\ L \in Nat /\ Len(more) = L + 1
      /\ DOMAIN batches = 1..L /\ DOMAIN more = 1..L + 1
      /\ \A i \in 1..L : more[i] = batches[i]
      /\ more[L + 1] = new
      /\ \A i \in 1..L : batches[i] \in Batch
  BY <1>1
<1>3. /\ \A i \in 1..L : batches[i].time \in Int /\ batches[i].time <= time
      /\ \A i, j \in 1..L : i <= j => batches[i].time <= batches[j].time
      /\ \A i \in 1..L : batches[i].scan = (scans - L) + i
  BY <1>2 DEF InOrder, Batch, Numbered
<1>4. new.time = time /\ new.scan = scans + 1
  OBVIOUS
<1> HIDE DEF more, L, new
<1>5. ASSUME NEW i \in 1..L + 1 PROVE more[i].time <= time
  <2>1. i \in 1..L \/ i = L + 1
    BY <1>2
  <2> QED
    BY <1>2, <1>3, <1>4, <2>1
<1>6. ASSUME NEW i \in 1..L + 1, NEW j \in 1..L + 1, i <= j
      PROVE  more[i].time <= more[j].time
  <2>1. CASE j \in 1..L
    <3>1. i \in 1..L
      BY <1>2, <1>6, <2>1
    <3> QED
      BY <1>2, <1>3, <1>6, <2>1, <3>1
  <2>2. CASE j = L + 1
    BY <1>2, <1>4, <1>5, <2>2
  <2> QED
    BY <1>2, <2>1, <2>2
<1>7. ASSUME NEW i \in 1..L + 1 PROVE more[i].scan = ((scans + 1) - (L + 1)) + i
  <2>1. CASE i \in 1..L
    BY <1>2, <1>3, <2>1
  <2>2. CASE i = L + 1
    BY <1>2, <1>4, <2>2
  <2> QED
    BY <1>2, <2>1, <2>2
<1>8. InOrder(more)
  BY <1>2, <1>6 DEF InOrder
<1>9. Numbered(more, scans + 1)
  BY <1>2, <1>7 DEF Numbered
<1> QED
  BY <1>2, <1>5, <1>8, <1>9 DEF more, L, new

\* The newest batches are kept, as many as an accumulation takes.
LEMMA NewestBatchesAre ==
    ASSUME NEW batches, InOrder(batches), NEW scans \in Nat, Numbered(batches, scans),
           NEW time, \A i \in DOMAIN batches : batches[i].time <= time
    PROVE  LET kept == Batches!NewestBatches(batches)
           IN  /\ InOrder(kept) /\ Numbered(kept, scans)
               /\ Len(kept) = Smaller(Len(batches), ScansPerAccumulation)
               /\ \A i \in DOMAIN kept : kept[i].time <= time
               /\ batches # <<>> => kept # <<>> /\ batches[1].time <= kept[1].time
               /\ \A i \in DOMAIN kept : \E j \in DOMAIN batches : kept[i] = batches[j]
<1> DEFINE kept == Batches!NewestBatches(batches)
           L == Len(batches)
           N == ScansPerAccumulation
<1>0. N \in Nat /\ N > 0
  BY BatchesAssumption
<1>1. batches \in Seq(Batch) /\ L \in Nat /\ DOMAIN batches = 1..L
  BY DEF InOrder
<1>2. CASE L <= N
  <2>1. kept = batches
    BY <1>0, <1>1, <1>2 DEF Batches!NewestBatches
  <2>2. batches # <<>> => batches[1].time <= batches[1].time
    <3> SUFFICES ASSUME batches # <<>> PROVE batches[1].time <= batches[1].time
      OBVIOUS
    <3>1. batches[1] \in Batch
      BY <1>1
    <3> QED
      BY <3>1 DEF Batch
  <2> QED
    BY <1>0, <1>1, <1>2, <2>1, <2>2 DEF Smaller
<1>3. CASE ~(L <= N)
  <2>0. L > N
    BY <1>0, <1>1, <1>3
  <2>1. kept = SubSeq(batches, (L - N) + 1, L)
    BY <2>0 DEF Batches!NewestBatches
  <2>2. (L - N) + 1 \in 1..L /\ L \in 1..L /\ (L - ((L - N) + 1)) + 1 = N
    BY <1>0, <1>1, <1>3
  <2>3. kept \in Seq(Batch) /\ Len(kept) = N /\ DOMAIN kept = 1..N
    BY <1>0, <1>1, <2>1, <2>2
  <2>4. \A k \in 1..N : kept[k] = batches[(L - N) + k] /\ (L - N) + k \in 1..L
    <3> TAKE k \in 1..N
    <3>1. kept[k] = batches[(((L - N) + 1) + k) - 1]
      BY <1>0, <1>1, <2>1, <2>2
    <3>2. (((L - N) + 1) + k) - 1 = (L - N) + k /\ (L - N) + k \in 1..L
      BY <1>0, <1>1, <1>3
    <3> QED
      BY <3>1, <3>2
  <2>5. /\ \A i \in 1..L : batches[i].time <= time
        /\ \A i, j \in 1..L : i <= j => batches[i].time <= batches[j].time
        /\ \A i \in 1..L : batches[i].scan = (scans - L) + i
    BY <1>1 DEF InOrder, Numbered
  <2> HIDE DEF kept, L, N
  <2>6. InOrder(kept)
    <3>1. ASSUME NEW i \in 1..N, NEW j \in 1..N, i <= j PROVE kept[i].time <= kept[j].time
      <4>1. (L - N) + i <= (L - N) + j
        BY <1>0, <1>1, <3>1
      <4> QED
        BY <2>4, <2>5, <4>1
    <3> QED
      BY <2>3, <3>1 DEF InOrder
  <2>7. Numbered(kept, scans)
    <3>1. ASSUME NEW i \in 1..N PROVE kept[i].scan = (scans - N) + i
      <4>1. kept[i].scan = (scans - L) + ((L - N) + i)
        BY <2>4, <2>5
      <4> QED
        BY <1>0, <1>1, <4>1
    <3> QED
      BY <2>3, <3>1 DEF Numbered
  <2>8. Len(kept) = Smaller(L, N)
    BY <1>3, <2>3 DEF Smaller
  <2>9. \A i \in DOMAIN kept : kept[i].time <= time
    BY <2>3, <2>4, <2>5
  <2>10. kept # <<>> /\ batches[1].time <= kept[1].time
    <3>1. 1 \in 1..N /\ 1 \in 1..L /\ 1 <= (L - N) + 1
      BY <1>0, <1>1, <1>3
    <3>2. kept # <<>>
      BY <1>0, <2>3
    <3> QED
      BY <2>4, <2>5, <3>1, <3>2
  <2>11. \A i \in DOMAIN kept : \E j \in DOMAIN batches : kept[i] = batches[j]
    BY <1>1, <2>3, <2>4
  <2> QED
    BY <2>6, <2>7, <2>8, <2>9, <2>10, <2>11 DEF kept, L, N
<1> QED
  BY <1>2, <1>3

\* What RemoveObsoleteSensorData leaves of batches and data.
KeepsOf(batches, imu, odometer, kept, imu_kept, odometer_kept) ==
    IF imu = <<>> THEN kept = <<>> /\ imu_kept = imu /\ odometer_kept = odometer
    ELSE /\ kept = Batches!NewestBatches(batches)
         /\ imu_kept = Batches!PopObsolete(imu, kept)
         /\ odometer_kept = Batches!PopObsolete(odometer, kept)

\* The first IMU datum is the newest when the first batch came.
Covered(batches, imu) ==
    batches # <<>> => imu # <<>> /\ NewestAt(imu, 1, batches[1].time)

\* Batches with all that is known of them between two data.
Orderly(batches, scans, time) ==
    InOrder(batches) /\ Numbered(batches, scans) /\ \A i \in DOMAIN batches : batches[i].time <= time

\* The first datum is not newer than the first batch.
Precedes(imu, batches) == batches # <<>> /\ imu # <<>> => imu[1] <= batches[1].time

\* Of the odometer data all are there, or one that is as old as each batch.
Anchored(odometer, all, batches) ==
    Len(odometer) = Len(all) \/ \A i \in DOMAIN batches : odometer[1] <= batches[i].time

LEMMA KeepsIs ==
    ASSUME NEW batches, NEW scans \in Nat, NEW time, Orderly(batches, scans, time),
           NEW imu, NEW all_imu, KeptOf(imu, all_imu),
           NEW odometer, NEW all_odometer, KeptOf(odometer, all_odometer),
           Precedes(imu, batches), Anchored(odometer, all_odometer, batches),
           NEW kept, NEW imu_kept, NEW odometer_kept,
           KeepsOf(batches, imu, odometer, kept, imu_kept, odometer_kept)
    PROVE  /\ Orderly(kept, scans, time)
           /\ KeptOf(imu_kept, all_imu) /\ KeptOf(odometer_kept, all_odometer)
           /\ Covered(kept, imu_kept)
           /\ Anchored(odometer_kept, all_odometer, kept)
           /\ imu = <<>> => kept = <<>>
           /\ imu # <<>> => Len(kept) = Smaller(Len(batches), ScansPerAccumulation)
<1>0. /\ InOrder(batches) /\ Numbered(batches, scans)
      /\ \A i \in DOMAIN batches : batches[i].time <= time
      /\ batches # <<>> /\ imu # <<>> => imu[1] <= batches[1].time
  BY Zenon DEF Orderly, Precedes
<1>1. CASE imu = <<>>
  <2>1. kept = <<>> /\ imu_kept = imu /\ odometer_kept = odometer
    BY <1>1 DEF KeepsOf
  <2>2. /\ Orderly(kept, scans, time) /\ Covered(kept, imu_kept)
        /\ Anchored(odometer_kept, all_odometer, kept)
    BY <2>1 DEF Orderly, InOrder, Numbered, Covered, Anchored
  <2> QED
    BY <1>1, <2>1, <2>2
<1>2. CASE imu # <<>>
  <2>1. /\ kept = Batches!NewestBatches(batches)
        /\ imu_kept = Batches!PopObsolete(imu, kept)
        /\ odometer_kept = Batches!PopObsolete(odometer, kept)
    BY <1>2 DEF KeepsOf
  <2>2. /\ InOrder(kept) /\ Numbered(kept, scans)
        /\ Len(kept) = Smaller(Len(batches), ScansPerAccumulation)
        /\ \A i \in DOMAIN kept : kept[i].time <= time
        /\ batches # <<>> => kept # <<>> /\ batches[1].time <= kept[1].time
        /\ \A i \in DOMAIN kept : \E j \in DOMAIN batches : kept[i] = batches[j]
    BY <1>0, <2>1, NewestBatchesAre
  <2>3. KeptOf(imu_kept, all_imu) /\ KeptOf(odometer_kept, all_odometer)
    BY <2>1, <2>2, PoppedIs
  <2>4. kept # <<>> => imu[1] <= kept[1].time
    <3> SUFFICES ASSUME kept # <<>> PROVE imu[1] <= kept[1].time
      OBVIOUS
    <3>1. batches # <<>>
      <4>1. batches = <<>> => Len(batches) = 0 /\ Len(kept) = 0
        BY <2>2, BatchesAssumption DEF Smaller
      <4>2. kept \in Seq(Batch)
        BY <2>2 DEF InOrder
      <4> QED
        BY <4>1, <4>2
    <3>2. imu[1] <= batches[1].time /\ batches[1].time <= kept[1].time
      BY <1>0, <1>2, <2>2, <3>1
    <3>3. kept[1] \in Batch /\ batches[1] \in Batch
      BY <1>0, <2>2, <3>1 DEF InOrder
    <3>4. imu[1] \in Int
      BY <1>2 DEF KeptOf
    <3> QED
      BY <3>2, <3>3, <3>4 DEF Batch
  <2>5. Covered(kept, imu_kept)
    <3>1. ASSUME kept # <<>> PROVE NewestAt(imu_kept, 1, kept[1].time)
      BY <1>2, <2>1, <2>2, <2>4, <3>1, PoppedIs
    <3>2. imu_kept # <<>>
      <4>1. all_imu # <<>>
        BY <1>2 DEF KeptOf, Suffix, Increasing
      <4> QED
        BY <2>3, <4>1 DEF KeptOf
    <3> QED
      BY <3>1, <3>2 DEF Covered
  <2>6. Orderly(kept, scans, time)
    BY <2>2 DEF Orderly
  <2>7. Anchored(odometer_kept, all_odometer, kept)
    <3>1. \/ Len(odometer_kept) = Len(odometer) /\ odometer_kept[1] = odometer[1]
          \/ kept # <<>> => odometer_kept[1] <= kept[1].time
      BY <2>1, <2>2, PoppedIs
    <3>2. CASE Len(odometer_kept) = Len(odometer) /\ odometer_kept[1] = odometer[1]
      BY <2>2, <3>2 DEF Anchored
    <3>3. CASE kept # <<>> => odometer_kept[1] <= kept[1].time
      <4> SUFFICES ASSUME Len(odometer_kept) # Len(all_odometer), NEW i \in DOMAIN kept
                   PROVE  odometer_kept[1] <= kept[i].time
        BY DEF Anchored
      <4>1. kept \in Seq(Batch) /\ kept # <<>> /\ 1 \in DOMAIN kept /\ 1 <= i
        BY <2>2 DEF InOrder
      <4>2. kept[1] \in Batch /\ kept[i] \in Batch
        BY <4>1
      <4>3. kept[1].time \in Int /\ kept[i].time \in Int /\ kept[1].time <= kept[i].time
        BY <2>2, <4>1, <4>2 DEF InOrder, Batch
      <4>4. odometer_kept[1] \in Int
        <5>1. all_odometer # <<>> => odometer_kept # <<>>
          BY <2>3 DEF KeptOf
        <5>2. odometer_kept # <<>>
          BY <2>3, <5>1 DEF KeptOf, Suffix
        <5> QED
          BY <2>3, <5>2 DEF KeptOf
      <4> QED
        BY <3>3, <4>1, <4>3, <4>4
    <3> QED
      BY <3>1, <3>2, <3>3
  <2> QED
    BY <1>2, <2>2, <2>3, <2>5, <2>6, <2>7
<1> QED
  BY <1>1, <1>2

\* An integration is over what was measured in its time, which is over.
MeasuredStep(step, all, time) ==
    /\ step.start \in Int /\ step.end \in Int /\ step.start <= step.end /\ step.end <= time
    /\ step.pieces = MeasuredIn(all, step.start, step.end)

\* Of the constraints from the odometer that are due all are made, those between batches of
\* one time excepted.
NoneMissed(made, due) ==
    made \subseteq due /\ \A step \in due : step.start < step.end => step \in made

LEMMA IntegrationMeasured ==
    ASSUME NEW data, NEW all, KeptOf(data, all), NEW it, NEW start \in Int, NEW end \in Int,
           NewestAt(data, it, start), start <= end, NEW time, end <= time
    PROVE  MeasuredStep(Batches!Integration(data, it, start, end), all, time)
<1>1. Batches!Integral(data, it, start, end) = MeasuredIn(all, start, end)
  BY IntegralIsMeasured
<1> QED
  BY <1>1 DEF Batches!Integration, MeasuredStep

\* MaybeOptimize: no CHECK of IntegrateImu fails from batch to batch.
LEMMA StepsMeasured ==
    ASSUME NEW imu, NEW all, KeptOf(imu, all), NEW batches, InOrder(batches),
           Covered(batches, imu), NEW time, \A i \in DOMAIN batches : batches[i].time <= time
    PROVE  \A i \in 2..Len(batches) :
              LET it == Batches!Iterators(imu, batches)[i - 1]
                  start == batches[i - 1].time
                  end == batches[i].time
              IN  /\ Batches!CanIntegrate(imu, it, start, end)
                  /\ MeasuredStep(Batches!Integration(imu, it, start, end), all, time)
<1> DEFINE its == Batches!Iterators(imu, batches)
           L == Len(batches)
<1>1. /\ batches \in Seq(Batch) /\ L \in Nat /\ DOMAIN batches = 1..L
      /\ \A i, j \in 1..L : i <= j => batches[i].time <= batches[j].time
  BY DEF InOrder
<1>2. \A i \in 1..L : batches[i].time \in Int
  <2>1. \A i \in 1..L : batches[i] \in Batch
    BY <1>1
  <2> QED
    BY <2>1 DEF Batch
<1>3. ASSUME batches # <<>>
      PROVE  \A i \in 1..L : NewestAt(imu, its[i], batches[i].time)
  <2>1. imu \in Seq(Int)
    BY DEF KeptOf
  <2> QED
    BY <1>1, <1>3, <2>1, IteratorsAreNewest DEF Covered
<1> SUFFICES ASSUME NEW i \in 2..L
             PROVE  /\ Batches!CanIntegrate(imu, its[i - 1], batches[i - 1].time, batches[i].time)
                    /\ MeasuredStep(Batches!Integration(imu, its[i - 1], batches[i - 1].time,
                                                        batches[i].time), all, time)
  OBVIOUS
<1>4. batches # <<>>
  BY <1>1
<1> HIDE DEF its, L
<1>5. i \in 1..L /\ i - 1 \in 1..L /\ i - 1 <= i
  BY <1>1
<1>6. NewestAt(imu, its[i - 1], batches[i - 1].time)
  BY <1>3, <1>4, <1>5
<1>7. /\ batches[i - 1].time \in Int /\ batches[i].time \in Int
      /\ batches[i - 1].time <= batches[i].time /\ batches[i].time <= time
  BY <1>1, <1>2, <1>5
<1>8. Batches!CanIntegrate(imu, its[i - 1], batches[i - 1].time, batches[i].time)
  BY <1>6, <1>7 DEF NewestAt, Batches!CanIntegrate
<1>9. MeasuredStep(Batches!Integration(imu, its[i - 1], batches[i - 1].time, batches[i].time),
                   all, time)
  BY <1>6, <1>7, IntegrationMeasured
<1> QED
  BY <1>8, <1>9

\* What is kept is no more than all, ends with the same datum, and is all if as many.
LEMMA KeptEnds ==
    ASSUME NEW data, NEW all, KeptOf(data, all), data # <<>>
    PROVE  /\ Len(data) \in Nat /\ Len(all) \in Nat /\ Len(data) <= Len(all)
           /\ data[Len(data)] = all[Len(all)]
           /\ Len(data) = Len(all) => data = all
<1>1. PICK n \in 0..Len(all) : /\ Len(data) = Len(all) - n
                               /\ \A k \in DOMAIN data : data[k] = all[n + k]
  BY DEF KeptOf, Suffix
<1>2. /\ data \in Seq(Int) /\ all \in Seq(Int) /\ Len(data) \in Nat /\ Len(all) \in Nat
      /\ DOMAIN data = 1..Len(data) /\ Len(data) > 0
  BY DEF KeptOf, Increasing
<1>3. Len(data) \in DOMAIN data /\ n + Len(data) = Len(all)
  BY <1>1, <1>2
<1>4. data[Len(data)] = all[Len(all)]
  BY <1>1, <1>3
<1>5. ASSUME Len(data) = Len(all) PROVE data = all
  <2>1. n = 0
    BY <1>1, <1>2, <1>5
  <2>2. \A k \in 1..Len(data) : data[k] = all[k]
    BY <1>1, <1>2, <2>1
  <2> QED
    BY <1>2, <1>5, <2>2
<1> QED
  BY <1>1, <1>2, <1>4, <1>5

\* The odometer data that are kept lead to every constraint that all of them lead to.
LEMMA ConstraintsKept ==
    ASSUME NEW odometer, NEW all, KeptOf(odometer, all), NEW batches, InOrder(batches),
           Anchored(odometer, all, batches)
    PROVE  NoneMissed(Batches!OdometerConstraints(odometer, batches),
                      Batches!OdometerConstraints(all, batches))
<1> DEFINE L == Len(batches)
           The(data, i) == [start |-> batches[i - 1].time, end |-> batches[i].time,
                            from |-> Batches!Lookup(data, batches[i - 1].time),
                            to |-> Batches!Lookup(data, batches[i].time)]
           Inside(data) == {j \in 2..L : /\ data[1] <= batches[j - 1].time
                                         /\ batches[j].time <= data[Len(data)]}
           Made == Batches!OdometerConstraints(odometer, batches)
           Due == Batches!OdometerConstraints(all, batches)
<1>1. ASSUME NEW data
      PROVE  Batches!OdometerConstraints(data, batches)
                = IF Len(data) <= 1 THEN {} ELSE {The(data, i) : i \in Inside(data)}
  BY DEF Batches!OdometerConstraints, Batches!Front, Batches!Back
<1>2. /\ batches \in Seq(Batch) /\ L \in Nat /\ DOMAIN batches = 1..L
      /\ \A i, j \in 1..L : i <= j => batches[i].time <= batches[j].time
  BY DEF InOrder
<1>3. \A i \in 1..L : batches[i].time \in Int
  <2>1. \A i \in 1..L : batches[i] \in Batch
    BY <1>2
  <2> QED
    BY <2>1 DEF Batch
<1> HIDE DEF Made, Due, L
<1>4. ASSUME NEW i \in 2..L
      PROVE  /\ i - 1 \in 1..L /\ i \in 1..L
             /\ batches[i - 1].time \in Int /\ batches[i].time \in Int
             /\ batches[i - 1].time <= batches[i].time
  <2>1. i - 1 \in 1..L /\ i \in 1..L /\ i - 1 <= i
    BY <1>2
  <2> QED
    BY <1>2, <1>3, <2>1
<1>5. odometer \in Seq(Int) /\ all \in Seq(Int)
  BY DEF KeptOf, Increasing
\* Both times are between the first and the last datum that is kept.
<1>6. ASSUME NEW i \in 2..L, odometer # <<>>, odometer[1] <= batches[i - 1].time,
             batches[i].time <= odometer[Len(odometer)]
      PROVE  /\ The(odometer, i) = The(all, i)
             /\ all[1] <= batches[i - 1].time /\ batches[i].time <= all[Len(all)]
  <2>1. odometer[1] \in Int /\ odometer[Len(odometer)] \in Int
    BY <1>5, <1>6
  <2>2. /\ odometer[1] <= batches[i].time
        /\ batches[i - 1].time <= odometer[Len(odometer)]
    BY <1>4, <1>6, <2>1
  <2>3. /\ Batches!Lookup(odometer, batches[i - 1].time) = Batches!Lookup(all, batches[i - 1].time)
        /\ all[1] <= batches[i - 1].time
    BY <1>4, <1>6, <2>2, LookupKept
  <2>4. /\ Batches!Lookup(odometer, batches[i].time) = Batches!Lookup(all, batches[i].time)
        /\ batches[i].time <= all[Len(all)]
    BY <1>4, <1>6, <2>2, LookupKept
  <2> QED
    BY <2>3, <2>4
<1>7. Made \subseteq Due
  <2> SUFFICES ASSUME NEW step \in Made PROVE step \in Due
    OBVIOUS
  <2>1. ~(Len(odometer) <= 1) /\ step \in {The(odometer, i) : i \in Inside(odometer)}
    BY <1>1 DEF Made
  <2>2. PICK i \in Inside(odometer) : step = The(odometer, i)
    BY <2>1
  <2>3. odometer # <<>> /\ Len(odometer) > 1
    BY <1>5, <2>1
  <2>4. /\ i \in 2..L /\ odometer[1] <= batches[i - 1].time
        /\ batches[i].time <= odometer[Len(odometer)]
    OBVIOUS
  <2>5. /\ The(odometer, i) = The(all, i)
        /\ all[1] <= batches[i - 1].time /\ batches[i].time <= all[Len(all)]
    BY <1>6, <2>3, <2>4
  <2>6. i \in Inside(all) /\ ~(Len(all) <= 1)
    BY <2>3, <2>4, <2>5, KeptEnds
  <2> QED
    BY <1>1, <2>2, <2>5, <2>6 DEF Due
<1>8. ASSUME NEW step \in Due, step.start < step.end PROVE step \in Made
  <2>1. ~(Len(all) <= 1) /\ step \in {The(all, i) : i \in Inside(all)}
    BY <1>1 DEF Due
  <2>2. PICK i \in Inside(all) : step = The(all, i)
    BY <2>1
  <2>3. odometer # <<>>
    BY <1>5, <2>1 DEF KeptOf
  <2>4. CASE Len(odometer) = Len(all)
    <3>1. odometer = all
      BY <2>3, <2>4, KeptEnds
    <3> QED
      BY <3>1 DEF Made, Due
  <2>5. CASE \A j \in DOMAIN batches : odometer[1] <= batches[j].time
    <3>1. i \in 2..L /\ batches[i].time <= all[Len(all)]
      OBVIOUS
    <3>2. batches[i].time <= odometer[Len(odometer)]
      BY <2>3, <3>1, KeptEnds
    <3>3. odometer[1] <= batches[i - 1].time
      BY <1>2, <1>4, <2>5, <3>1
    <3>4. batches[i - 1].time < batches[i].time
      BY <1>8, <2>2
    <3>5. odometer[1] \in Int /\ odometer[Len(odometer)] \in Int /\ Len(odometer) \in Nat
          /\ Len(odometer) > 0
      BY <1>5, <2>3
    <3>6. odometer[1] < odometer[Len(odometer)]
      BY <1>4, <3>1, <3>2, <3>3, <3>4, <3>5
    <3>7. ~(Len(odometer) <= 1)
      BY <3>5, <3>6
    <3>8. The(odometer, i) = The(all, i)
      BY <1>6, <2>3, <3>1, <3>2, <3>3
    <3>9. i \in Inside(odometer)
      BY <3>1, <3>2, <3>3
    <3> QED
      BY <1>1, <2>2, <3>7, <3>8, <3>9 DEF Made
  <2> QED
    BY <2>4, <2>5 DEF Anchored
<1> QED
  BY <1>7, <1>8 DEF NoneMissed, Made, Due

\* A scan is in the accumulation of its number, unless it came before the IMU data.
Accumulation(k, early) ==
    LET first == Batches!Later((k - 1) * ScansPerAccumulation, early)
    IN  [i \in 1..k * ScansPerAccumulation - first |-> first + i]

\* The recorded data, and what is kept of them.
DataInv ==
    /\ now \in Int
    /\ recorded \in [imu : Seq(Int), odometer : Seq(Int), scans : Nat, early : Nat]
    /\ KeptOf(imu_data_, recorded.imu)
    /\ KeptOf(odometer_data_, recorded.odometer)
    /\ \A k \in DOMAIN recorded.imu : recorded.imu[k] <= now
    /\ \A k \in DOMAIN recorded.odometer : recorded.odometer[k] <= now

\* The batches are the newest scans that found IMU data.
KeptBatchesInv ==
    /\ InOrder(batches_)
    /\ Numbered(batches_, recorded.scans)
    /\ \A i \in DOMAIN batches_ : batches_[i].time <= now
    /\ Covered(batches_, imu_data_)
    /\ Anchored(odometer_data_, recorded.odometer, batches_)
    /\ Len(batches_) = Smaller(recorded.scans - recorded.early, ScansPerAccumulation)

\* Every scan is in an accumulation or counted for the next one.
ScansInv ==
    /\ recorded.early <= recorded.scans
    /\ recorded.imu = <<>> => recorded.scans = recorded.early /\ accumulated = <<>>
    /\ accumulated \in Seq(Seq(Nat))
    /\ num_accumulated_ \in Nat
    /\ recorded.scans = ScansPerAccumulation * Len(accumulated) + num_accumulated_
    /\ ~failed => num_accumulated_ < ScansPerAccumulation
    /\ failed => recorded.early >= ScansPerAccumulation
    /\ \A k \in DOMAIN accumulated : accumulated[k] = Accumulation(k, recorded.early)

\* The solver was given what was recorded.
SolverInv ==
    /\ \A step \in integrated : MeasuredStep(step, recorded.imu, now)
    /\ NoneMissed(looked_up.made, looked_up.due)

BatchesInv == DataInv /\ KeptBatchesInv /\ ScansInv /\ SolverInv

LEMMA BatchesInvExact == BatchesInv => Batches!BatchesExact
<1> SUFFICES ASSUME BatchesInv PROVE Batches!BatchesExact
  OBVIOUS
<1>1. Batches!ScansAccumulated
  BY DEF BatchesInv, ScansInv, Accumulation, Batches!ScansAccumulated
<1>2. \A start, end : Batches!Measured(start, end) = MeasuredIn(recorded.imu, start, end)
  BY Zenon DEF Batches!Measured, MeasuredIn
<1>3. Batches!NothingNeededDiscarded
  <2>1. \A step \in integrated : step.pieces = MeasuredIn(recorded.imu, step.start, step.end)
    BY DEF BatchesInv, SolverInv, MeasuredStep
  <2>2. /\ looked_up.made \subseteq looked_up.due
        /\ \A step \in looked_up.due : step.start < step.end => step \in looked_up.made
    BY DEF BatchesInv, SolverInv, NoneMissed
  <2> QED
    BY <1>2, <2>1, <2>2 DEF Batches!NothingNeededDiscarded
<1> QED
  BY <1>1, <1>3 DEF Batches!BatchesExact

LEMMA BatchesInit == Batches!Init => BatchesInv
<1> SUFFICES ASSUME Batches!Init PROVE BatchesInv
  OBVIOUS
<1>1. /\ now = 1 /\ batches_ = <<>> /\ imu_data_ = <<>> /\ odometer_data_ = <<>>
      /\ num_accumulated_ = 0 /\ failed = FALSE /\ accumulated = <<>>
      /\ recorded = [imu |-> <<>>, odometer |-> <<>>, scans |-> 0, early |-> 0]
      /\ integrated = {} /\ looked_up = [made |-> {}, due |-> {}]
  BY DEF Batches!Init, Batches!NoConstraints
<1>2. KeptOf(<<>>, <<>>)
  BY DEF KeptOf, Increasing, Suffix
<1>3. DataInv
  <2>1. recorded.imu = <<>> /\ recorded.odometer = <<>>
    BY <1>1
  <2>2. recorded \in [imu : Seq(Int), odometer : Seq(Int), scans : Nat, early : Nat]
    BY <1>1
  <2> QED
    BY <1>1, <1>2, <2>1, <2>2 DEF DataInv
<1>4. KeptBatchesInv
  BY <1>1, BatchesAssumption DEF KeptBatchesInv, InOrder, Numbered, Covered, Anchored, Smaller
<1>5. ScansInv
  BY <1>1, BatchesAssumption DEF ScansInv
<1>6. SolverInv
  BY <1>1 DEF SolverInv, NoneMissed
<1> QED
  BY <1>3, <1>4, <1>5, <1>6 DEF BatchesInv

LEMMA OrderlyLater ==
    ASSUME NEW batches, NEW scans, NEW last \in Int, NEW time \in Int, last <= time,
           Orderly(batches, scans, last)
    PROVE  Orderly(batches, scans, time)
<1>1. ASSUME NEW i \in DOMAIN batches PROVE batches[i].time <= time
  <2>1. batches[i] \in Batch /\ batches[i].time <= last
    BY DEF Orderly, InOrder
  <2> QED
    BY <2>1 DEF Batch
<1> QED
  BY <1>1 DEF Orderly

LEMMA KeepMeans ==
    ASSUME NEW batches, NEW imu, NEW odometer, Batches!Keep(batches, imu, odometer)
    PROVE  KeepsOf(batches, imu, odometer, batches_', imu_data_', odometer_data_')
BY DEF Batches!Keep, KeepsOf

\* Nothing is kept of no data, and of some data something.
LEMMA KeptEmpty ==
    ASSUME NEW data, NEW all, KeptOf(data, all)
    PROVE  data = <<>> <=> all = <<>>
<1>1. data \in Seq(Int) /\ all \in Seq(Int) /\ (all # <<>> => data # <<>>)
  BY DEF KeptOf, Increasing
<1>2. PICK n \in 0..Len(all) : Len(data) = Len(all) - n
  BY DEF KeptOf, Suffix
<1>3. all = <<>> => data = <<>>
  BY <1>1, <1>2
<1> QED
  BY <1>1, <1>3

LEMMA DatumAdded ==
    ASSUME NEW data \in Seq(Int), NEW time \in Int, NEW more, more = Append(data, time)
    PROVE  /\ more \in Seq(Int) /\ more # <<>> /\ Len(more) = Len(data) + 1
           /\ DOMAIN more = 1..Len(data) + 1
           /\ \A k \in 1..Len(data) : more[k] = data[k]
           /\ more[Len(data) + 1] = time /\ more[Len(more)] = time
           /\ data # <<>> => more[1] = data[1]
<1>1. more \in Seq(Int) /\ Len(more) = Len(data) + 1 /\ DOMAIN more = 1..Len(data) + 1
  OBVIOUS
<1>2. \A k \in 1..Len(data) : more[k] = data[k]
  OBVIOUS
<1>3. more[Len(data) + 1] = time
  OBVIOUS
<1>4. data # <<>> => 1 \in 1..Len(data)
  OBVIOUS
<1>5. more # <<>>
  OBVIOUS
<1> QED
  BY <1>1, <1>2, <1>3, <1>4, <1>5

\* No datum is later.
Until(data, last) == \A k \in DOMAIN data : data[k] <= last

LEMMA NoneLater ==
    ASSUME NEW data \in Seq(Int), NEW last \in Int, Until(data, last),
           NEW time \in Int, last <= time, NEW more, more = Append(data, time)
    PROVE  Until(more, time)
<1>1. /\ Len(data) \in Nat /\ DOMAIN data = 1..Len(data) /\ DOMAIN more = 1..Len(data) + 1
      /\ \A k \in 1..Len(data) : more[k] = data[k] /\ data[k] \in Int
      /\ more[Len(data) + 1] = time
  BY DatumAdded
<1> DEFINE L == Len(data)
<1> HIDE DEF L
<1>2. ASSUME NEW k \in 1..L + 1 PROVE more[k] <= time
  <2>1. k \in 1..L \/ k = L + 1
    BY <1>1 DEF L
  <2>2. CASE k \in 1..L
    <3>1. more[k] = data[k] /\ data[k] \in Int /\ data[k] <= last
      BY <1>1, <2>2 DEF L, Until
    <3> QED
      BY <3>1
  <2>3. CASE k = L + 1
    BY <1>1, <2>3 DEF L
  <2> QED
    BY <2>1, <2>2, <2>3
<1> QED
  BY <1>1, <1>2 DEF L, Until

LEMMA UntilLater ==
    ASSUME NEW data \in Seq(Int), NEW last \in Int, NEW time \in Int, last <= time,
           Until(data, last)
    PROVE  Until(data, time)
<1> SUFFICES ASSUME NEW k \in DOMAIN data PROVE data[k] <= time
  BY DEF Until
<1>1. data[k] \in Int /\ data[k] <= last
  BY DEF Until
<1> QED
  BY <1>1

\* AddImuData: what was integrated before is not measured again.
LEMMA BatchImuStep ==
    ASSUME BatchesInv, ~failed, NEW time \in Int, now <= time, now' = time,
           Batches!AddImuData(time)
    PROVE  BatchesInv'
<1> DEFINE imu == Append(imu_data_, time)
           all == Append(recorded.imu, time)
<1>1. /\ recorded.imu # <<>> => time > recorded.imu[Len(recorded.imu)]
      /\ KeepsOf(batches_, imu, odometer_data_, batches_', imu_data_', odometer_data_')
      /\ recorded' = [recorded EXCEPT !.imu = all]
      /\ UNCHANGED <<num_accumulated_, failed, accumulated, integrated, looked_up>>
  BY KeepMeans DEF Batches!AddImuData, Batches!Back
<1>2. /\ now \in Int /\ KeptOf(imu_data_, recorded.imu)
      /\ KeptOf(odometer_data_, recorded.odometer)
      /\ Until(recorded.imu, now) /\ Until(recorded.odometer, now)
      /\ recorded \in [imu : Seq(Int), odometer : Seq(Int), scans : Nat, early : Nat]
  BY DEF BatchesInv, DataInv, Until
<1>3. recorded.imu \in Seq(Int) /\ imu_data_ \in Seq(Int)
  BY <1>2 DEF KeptOf, Increasing
<1>4. KeptOf(imu, all)
  BY <1>1, <1>2, KeptAppend
<1>5. imu = Append(imu_data_, time) /\ all = Append(recorded.imu, time)
  OBVIOUS
<1> HIDE DEF imu, all
<1>6. /\ all \in Seq(Int) /\ all # <<>> /\ all[Len(all)] = time
      /\ recorded.imu # <<>> => all[1] = recorded.imu[1]
  <2>1. PICK old \in Seq(Int) : old = recorded.imu
    BY <1>3
  <2>2. all = Append(old, time)
    BY <1>5, <2>1
  <2>3. /\ all \in Seq(Int) /\ all # <<>> /\ all[Len(all)] = time
        /\ old # <<>> => all[1] = old[1]
    BY <2>2, DatumAdded
  <2> QED
    BY <2>1, <2>3
<1>7. Until(all, time) /\ Until(recorded.odometer, time)
  BY <1>2, <1>3, <1>5, NoneLater, UntilLater
<1>8. /\ Orderly(batches_, recorded.scans, now)
      /\ Covered(batches_, imu_data_)
      /\ Anchored(odometer_data_, recorded.odometer, batches_)
      /\ Len(batches_) = Smaller(recorded.scans - recorded.early, ScansPerAccumulation)
  BY DEF BatchesInv, KeptBatchesInv, Orderly
<1>9. Orderly(batches_, recorded.scans, time)
  BY <1>2, <1>8, OrderlyLater
<1>10. imu # <<>> /\ (imu_data_ # <<>> => imu[1] = imu_data_[1])
  <2>1. PICK old \in Seq(Int) : old = imu_data_
    BY <1>3
  <2>2. imu = Append(old, time)
    BY <1>5, <2>1
  <2>3. imu # <<>> /\ (old # <<>> => imu[1] = old[1])
    BY <2>2, DatumAdded
  <2> QED
    BY <2>1, <2>3
<1>11. Precedes(imu, batches_)
  BY <1>8, <1>10 DEF Precedes, Covered, NewestAt
<1>12. /\ recorded' \in [imu : Seq(Int), odometer : Seq(Int), scans : Nat, early : Nat]
       /\ recorded'.imu = all /\ recorded'.odometer = recorded.odometer
       /\ recorded'.scans = recorded.scans /\ recorded'.early = recorded.early
       /\ recorded.scans \in Nat /\ recorded.early \in Nat
  BY <1>1, <1>2, <1>6
<1>13. PICK kept, imu_kept, odometer_kept :
          kept = batches_' /\ imu_kept = imu_data_' /\ odometer_kept = odometer_data_'
  OBVIOUS
<1>14. KeepsOf(batches_, imu, odometer_data_, kept, imu_kept, odometer_kept)
  BY <1>1, <1>13
<1>15. /\ Orderly(kept, recorded.scans, time)
       /\ KeptOf(imu_kept, all) /\ KeptOf(odometer_kept, recorded.odometer)
       /\ Covered(kept, imu_kept)
       /\ Anchored(odometer_kept, recorded.odometer, kept)
       /\ Len(kept) = Smaller(Len(batches_), ScansPerAccumulation)
  BY <1>2, <1>12, <1>4, <1>8, <1>9, <1>10, <1>11, <1>14, KeepsIs
<1>16. DataInv'
  BY <1>12, <1>13, <1>6, <1>7, <1>15 DEF DataInv, Until
<1>17. KeptBatchesInv'
  <2>1. Len(kept) = Smaller(recorded.scans - recorded.early, ScansPerAccumulation)
    BY <1>8, <1>15, BatchesAssumption DEF Smaller
  <2> QED
    BY <1>12, <1>13, <1>15, <2>1 DEF KeptBatchesInv, Orderly
<1>18. ScansInv'
  <2>1. recorded'.imu # <<>>
    BY <1>12, <1>6
  <2> QED
    BY <1>1, <1>12, <1>13, <2>1 DEF BatchesInv, ScansInv
<1>19. SolverInv'
  <2>1. ASSUME NEW step \in integrated PROVE MeasuredStep(step, all, time)
    <3>1. MeasuredStep(step, recorded.imu, now)
      BY DEF BatchesInv, SolverInv
    <3>2. /\ step.start \in Int /\ step.end \in Int /\ step.start <= step.end
          /\ step.end <= time /\ step.pieces = MeasuredIn(recorded.imu, step.start, step.end)
      BY <1>2, <3>1 DEF MeasuredStep
    <3>3. Increasing(recorded.imu)
      BY <1>2 DEF KeptOf
    <3>4. MeasuredIn(all, step.start, step.end) = MeasuredIn(recorded.imu, step.start, step.end)
      BY <3>2, <3>3, MeasuredGrows DEF all
    <3> QED
      BY <3>2, <3>4 DEF MeasuredStep
  <2> QED
    BY <1>1, <1>12, <1>13, <2>1 DEF BatchesInv, SolverInv
<1> QED
  BY <1>16, <1>17, <1>18, <1>19 DEF BatchesInv

\* AddOdometerData: a first datum is the first of all, a further one leaves the first.
LEMMA BatchOdometerStep ==
    ASSUME BatchesInv, ~failed, NEW time \in Int, now <= time, now' = time,
           Batches!AddOdometerData(time)
    PROVE  BatchesInv'
<1> DEFINE odometer == Append(odometer_data_, time)
           all == Append(recorded.odometer, time)
<1>1. /\ recorded.odometer # <<>> => time > recorded.odometer[Len(recorded.odometer)]
      /\ KeepsOf(batches_, imu_data_, odometer, batches_', imu_data_', odometer_data_')
      /\ recorded' = [recorded EXCEPT !.odometer = all]
      /\ UNCHANGED <<num_accumulated_, failed, accumulated, integrated, looked_up>>
  BY KeepMeans DEF Batches!AddOdometerData, Batches!Back
<1>2. /\ now \in Int /\ KeptOf(imu_data_, recorded.imu)
      /\ KeptOf(odometer_data_, recorded.odometer)
      /\ Until(recorded.imu, now) /\ Until(recorded.odometer, now)
      /\ recorded \in [imu : Seq(Int), odometer : Seq(Int), scans : Nat, early : Nat]
  BY DEF BatchesInv, DataInv, Until
<1>3. recorded.odometer \in Seq(Int) /\ odometer_data_ \in Seq(Int)
  BY <1>2 DEF KeptOf, Increasing
<1>4. KeptOf(odometer, all)
  BY <1>1, <1>2, KeptAppend
<1>5. odometer = Append(odometer_data_, time) /\ all = Append(recorded.odometer, time)
  OBVIOUS
<1> HIDE DEF odometer, all
<1>6. /\ all \in Seq(Int) /\ all # <<>> /\ all[Len(all)] = time
      /\ recorded.odometer # <<>> => all[1] = recorded.odometer[1]
  BY <1>3, <1>5, DatumAdded
<1>7. Until(all, time) /\ Until(recorded.imu, time)
  BY <1>2, <1>3, <1>5, NoneLater, UntilLater
<1>8. /\ Orderly(batches_, recorded.scans, now)
      /\ Covered(batches_, imu_data_)
      /\ Anchored(odometer_data_, recorded.odometer, batches_)
      /\ Len(batches_) = Smaller(recorded.scans - recorded.early, ScansPerAccumulation)
  BY DEF BatchesInv, KeptBatchesInv, Orderly
<1>9. Orderly(batches_, recorded.scans, time)
  BY <1>2, <1>8, OrderlyLater
<1>10. Precedes(imu_data_, batches_)
  BY <1>8 DEF Precedes, Covered, NewestAt
<1>11. /\ recorded' \in [imu : Seq(Int), odometer : Seq(Int), scans : Nat, early : Nat]
       /\ recorded'.odometer = all /\ recorded'.imu = recorded.imu
       /\ recorded'.scans = recorded.scans /\ recorded'.early = recorded.early
       /\ recorded.scans \in Nat /\ recorded.early \in Nat
  BY <1>1, <1>2, <1>6
<1>12. PICK kept, imu_kept, odometer_kept :
          kept = batches_' /\ imu_kept = imu_data_' /\ odometer_kept = odometer_data_'
  OBVIOUS
<1>13. KeepsOf(batches_, imu_data_, odometer, kept, imu_kept, odometer_kept)
  BY <1>1, <1>12
<1>14. /\ Orderly(kept, recorded.scans, time)
       /\ KeptOf(imu_kept, recorded.imu) /\ KeptOf(odometer_kept, all)
       /\ Covered(kept, imu_kept)
       /\ Anchored(odometer_kept, all, kept)
       /\ imu_data_ = <<>> => kept = <<>>
       /\ imu_data_ # <<>> => Len(kept) = Smaller(Len(batches_), ScansPerAccumulation)
  <2>1. Anchored(odometer, all, batches_)
    <3>1. Len(odometer_data_) = Len(recorded.odometer) => Len(odometer) = Len(all)
      BY <1>3, <1>5
    <3>2. odometer_data_ = <<>> => Len(odometer_data_) = Len(recorded.odometer)
      BY <1>2, KeptEmpty
    <3>3. odometer_data_ # <<>> => odometer[1] = odometer_data_[1]
      BY <1>3, <1>5
    <3> QED
      BY <1>8, <3>1, <3>2, <3>3 DEF Anchored
  <2> QED
    BY <1>2, <1>11, <1>4, <1>9, <1>10, <1>13, <2>1, KeepsIs
<1>15. DataInv'
  BY <1>11, <1>12, <1>6, <1>7, <1>14 DEF DataInv, Until
<1>16. KeptBatchesInv'
  <2>1. Len(kept) = Smaller(recorded.scans - recorded.early, ScansPerAccumulation)
    <3>1. CASE imu_data_ = <<>>
      <4>1. recorded.imu = <<>>
        BY <1>2, <3>1, KeptEmpty
      <4>2. recorded.scans = recorded.early
        BY <4>1 DEF BatchesInv, ScansInv
      <4>3. Len(kept) = 0
        BY <1>14, <3>1
      <4> QED
        BY <1>11, <1>12, <4>2, <4>3, BatchesAssumption DEF Smaller
    <3>2. CASE imu_data_ # <<>>
      BY <1>8, <1>14, <3>2, BatchesAssumption DEF Smaller
    <3> QED
      BY <3>1, <3>2
  <2> QED
    BY <1>11, <1>12, <1>14, <2>1 DEF KeptBatchesInv, Orderly
<1>17. ScansInv'
  BY <1>1, <1>11 DEF BatchesInv, ScansInv
<1>18. SolverInv'
  <2>1. ASSUME NEW step \in integrated PROVE MeasuredStep(step, recorded.imu, time)
    <3>1. MeasuredStep(step, recorded.imu, now)
      BY DEF BatchesInv, SolverInv
    <3> QED
      BY <1>2, <3>1 DEF MeasuredStep
  <2> QED
    BY <1>1, <1>11, <1>12, <2>1 DEF BatchesInv, SolverInv
<1> QED
  BY <1>15, <1>16, <1>17, <1>18 DEF BatchesInv

LEMMA KeptUntil ==
    ASSUME NEW data, NEW all, KeptOf(data, all), NEW last, Until(all, last)
    PROVE  Until(data, last)
<1>1. PICK n \in 0..Len(all) : /\ Len(data) = Len(all) - n
                               /\ \A k \in DOMAIN data : data[k] = all[n + k]
  BY DEF KeptOf, Suffix
<1>2. data \in Seq(Int) /\ all \in Seq(Int)
  BY DEF KeptOf, Increasing
<1>3. /\ Len(data) \in Nat /\ Len(all) \in Nat
      /\ DOMAIN data = 1..Len(data) /\ DOMAIN all = 1..Len(all)
  BY <1>2
<1> SUFFICES ASSUME NEW k \in DOMAIN data PROVE data[k] <= last
  BY DEF Until
<1>4. n + k \in DOMAIN all
  BY <1>1, <1>3
<1> QED
  BY <1>1, <1>4 DEF Until

\* PredictState: there is IMU data as old as the last batch.
LEMMA PredictionMeasured ==
    ASSUME NEW imu, NEW all, KeptOf(imu, all), NEW batches, InOrder(batches),
           Covered(batches, imu), batches # <<>>, NEW time \in Int,
           NEW start, start = batches[Len(batches)].time, start <= time
    PROVE  /\ Batches!PredictFrom(imu, start) # 0
           /\ MeasuredStep(Batches!Integration(imu, Batches!PredictFrom(imu, start), start, time),
                           all, time)
<1>1. imu \in Seq(Int) /\ imu # <<>> /\ imu[1] <= batches[1].time /\ imu[1] \in Int
  BY DEF KeptOf, Covered, NewestAt
<1>2. /\ batches \in Seq(Batch) /\ 1 \in DOMAIN batches /\ Len(batches) \in DOMAIN batches
      /\ 1 <= Len(batches)
  BY DEF InOrder
<1>3. batches[1] \in Batch /\ batches[Len(batches)] \in Batch
  BY <1>2
<1>4. batches[1].time \in Int /\ start \in Int /\ batches[1].time <= start
  BY <1>2, <1>3 DEF InOrder, Batch
<1>5. NewestAt(imu, Batches!PredictFrom(imu, start), start)
  BY <1>1, <1>4, PredictNewest
<1>6. Batches!PredictFrom(imu, start) # 0
  BY <1>1, <1>5 DEF NewestAt
<1> QED
  BY <1>4, <1>5, <1>6, IntegrationMeasured

\* The scans of the batches are those of the next accumulation.
LEMMA AccumulatedIs ==
    ASSUME NEW k \in Nat, NEW early \in Nat, NEW scans \in Nat,
           scans = ScansPerAccumulation * (k + 1), early <= scans,
           NEW kept, Numbered(kept, scans), kept \in Seq(Batch),
           Len(kept) = Smaller(scans - early, ScansPerAccumulation)
    PROVE  [i \in DOMAIN kept |-> kept[i].scan] = Accumulation(k + 1, early)
<1> DEFINE N == ScansPerAccumulation
           L == Len(kept)
           first == Batches!Later(((k + 1) - 1) * N, early)
<1>1. N \in Nat /\ L \in Nat /\ DOMAIN kept = 1..L
  BY BatchesAssumption
<1>2. PICK before \in Nat : before = N * k
  BY <1>1
<1>3. ((k + 1) - 1) * N = before /\ (k + 1) * N = before + N /\ scans = before + N
  <2>1. (k + 1) - 1 = k /\ k * N = N * k /\ (k + 1) * N = N * (k + 1) /\ N * (k + 1) = N * k + N
    BY <1>1
  <2> QED
    BY <1>2, <2>1
<1>4. (k + 1) * N - first = L /\ scans - L = first
  BY <1>1, <1>3 DEF Smaller, Batches!Later
<1>5. \A i \in 1..L : kept[i].scan = first + i
  BY <1>1, <1>4 DEF Numbered
<1>6. Accumulation(k + 1, early) = [i \in 1..L |-> first + i]
  <2>1. Accumulation(k + 1, early) = [i \in 1..(k + 1) * N - first |-> first + i]
    BY DEF Accumulation
  <2> QED
    BY <1>4, <2>1
<1> HIDE DEF L, first
<1> QED
  BY <1>1, <1>5, <1>6

\* What MaybeOptimize does to the state, when the batches have the data they need.
Optimized(batches, imu, odometer, num, prediction) ==
    \/ /\ num < ScansPerAccumulation
       /\ integrated' = prediction /\ looked_up' = Batches!NoConstraints /\ num_accumulated_' = num
       /\ failed' = failed /\ accumulated' = accumulated
    \/ /\ failed' <=> num >= ScansPerAccumulation /\ batches = <<>>
       /\ \A step \in integrated' :
             \/ step \in prediction
             \/ \E i \in 2..Len(batches) :
                   step = Batches!Integration(imu, Batches!Iterators(imu, batches)[i - 1],
                                              batches[i - 1].time, batches[i].time)
       /\ looked_up' = [made |-> Batches!OdometerConstraints(odometer, batches),
                         due |-> Batches!OdometerConstraints(recorded.odometer, batches)]
       /\ \/ /\ num < ScansPerAccumulation \/ failed'
             /\ num_accumulated_' = num /\ accumulated' = accumulated
          \/ /\ num >= ScansPerAccumulation /\ ~failed'
             /\ num_accumulated_' = 0
             /\ accumulated' = Append(accumulated, [i \in DOMAIN batches |-> batches[i].scan])

LEMMA OptimizedIs ==
    ASSUME NEW imu, NEW all, KeptOf(imu, all), NEW batches, InOrder(batches),
           Covered(batches, imu), NEW time, \A i \in DOMAIN batches : batches[i].time <= time,
           NEW odometer, NEW num \in Nat, NEW prediction,
           Batches!MaybeOptimize(batches, imu, odometer, num, prediction)
    PROVE  Optimized(batches, imu, odometer, num, prediction)
<1> DEFINE its == Batches!Iterators(imu, batches)
           Can(i) == Batches!CanIntegrate(imu, its[i - 1], batches[i - 1].time, batches[i].time)
           Step(i) == Batches!Integration(imu, its[i - 1], batches[i - 1].time, batches[i].time)
           steps == 2..Len(batches)
<1>0. ScansPerAccumulation \in Nat
  BY BatchesAssumption
<1>1. \A i \in steps : Can(i)
  BY StepsMeasured
<1>2. CASE num < ScansPerAccumulation /\ num % OptimizeEvery # 0
  BY <1>2 DEF Optimized, Batches!MaybeOptimize
<1>3. CASE ~(num < ScansPerAccumulation /\ num % OptimizeEvery # 0)
  <2>1. /\ failed' = (\/ num >= ScansPerAccumulation /\ batches = <<>>
                      \/ \E i \in steps : ~Can(i))
        /\ integrated' = IF failed' THEN prediction
                         ELSE prediction \cup {Step(i) : i \in steps}
        /\ looked_up' = [made |-> Batches!OdometerConstraints(odometer, batches),
                          due |-> Batches!OdometerConstraints(recorded.odometer, batches)]
        /\ IF num < ScansPerAccumulation \/ failed'
           THEN num_accumulated_' = num /\ accumulated' = accumulated
           ELSE /\ num_accumulated_' = 0
                /\ accumulated' = Append(accumulated, [i \in DOMAIN batches |-> batches[i].scan])
    BY <1>3 DEF Batches!MaybeOptimize
  <2>2. failed' <=> num >= ScansPerAccumulation /\ batches = <<>>
    <3> HIDE DEF Can, steps
    <3> QED
      BY <1>1, <2>1, Zenon
  <2>3. \A step \in integrated' : step \in prediction \/ \E i \in steps : step = Step(i)
    <3> HIDE DEF Step, Can, steps
    <3> QED
      BY <2>1
  <2>4. \/ /\ num < ScansPerAccumulation \/ failed'
           /\ num_accumulated_' = num /\ accumulated' = accumulated
        \/ /\ num >= ScansPerAccumulation /\ ~failed'
           /\ num_accumulated_' = 0
           /\ accumulated' = Append(accumulated, [i \in DOMAIN batches |-> batches[i].scan])
    <3>1. num < ScansPerAccumulation \/ num >= ScansPerAccumulation
      BY <1>0
    <3> QED
      BY <2>1, <3>1, Zenon
  <2> QED
    BY <2>1, <2>2, <2>3, <2>4, Zenon DEF Optimized
<1> QED
  BY <1>2, <1>3

\* A scan comes: the new batch and what is kept.
LEMMA RangefinderBatches ==
    ASSUME BatchesInv, NEW time \in Int, now <= time,
           NEW more, more = Append(batches_, [time |-> time, scan |-> recorded.scans + 1])
    PROVE  /\ Orderly(more, recorded.scans + 1, time) /\ Len(more) = Len(batches_) + 1
           /\ Precedes(imu_data_, more)
           /\ Anchored(odometer_data_, recorded.odometer, more)
<1>1. /\ now \in Int /\ recorded.scans \in Nat /\ KeptOf(imu_data_, recorded.imu)
      /\ KeptOf(odometer_data_, recorded.odometer)
      /\ Until(recorded.imu, now) /\ Until(recorded.odometer, now)
  BY DEF BatchesInv, DataInv, Until
<1>2. /\ Orderly(batches_, recorded.scans, now) /\ Covered(batches_, imu_data_)
      /\ Anchored(odometer_data_, recorded.odometer, batches_)
  BY DEF BatchesInv, KeptBatchesInv, Orderly
<1>3. Orderly(batches_, recorded.scans, time)
  BY <1>1, <1>2, OrderlyLater
<1>4. /\ InOrder(batches_) /\ Numbered(batches_, recorded.scans)
      /\ \A i \in DOMAIN batches_ : batches_[i].time <= time
  BY <1>3 DEF Orderly
<1>5. /\ InOrder(more) /\ Numbered(more, recorded.scans + 1) /\ Len(more) = Len(batches_) + 1
      /\ \A i \in DOMAIN more : more[i].time <= time
  BY <1>1, <1>4, BatchAdded
<1>6. ASSUME imu_data_ # <<>> PROVE imu_data_[1] <= more[1].time
  <2>1. CASE batches_ = <<>>
    <3>1. more[1].time = time
      BY <2>1
    <3>2. Until(imu_data_, now) /\ imu_data_ \in Seq(Int)
      BY <1>1, KeptUntil DEF KeptOf
    <3>3. imu_data_[1] <= now /\ imu_data_[1] \in Int
      BY <1>6, <3>2 DEF Until
    <3> QED
      BY <1>1, <3>1, <3>3
  <2>2. CASE batches_ # <<>>
    <3>1. batches_ \in Seq(Batch)
      BY <1>4 DEF InOrder
    <3>2. more[1] = batches_[1]
      BY <2>2, <3>1
    <3> QED
      BY <1>2, <2>2, <3>2 DEF Covered, NewestAt
  <2> QED
    BY <2>1, <2>2
<1>7. ASSUME Len(odometer_data_) # Len(recorded.odometer), NEW i \in DOMAIN more
      PROVE  odometer_data_[1] <= more[i].time
  <2>1. batches_ \in Seq(Batch) /\ Len(more) = Len(batches_) + 1
    BY <1>4, <1>5 DEF InOrder
  <2>2. CASE i \in DOMAIN batches_
    <3>1. more[i] = batches_[i]
      BY <2>1, <2>2
    <3> QED
      BY <1>2, <1>7, <2>2, <3>1 DEF Anchored
  <2>3. CASE i = Len(batches_) + 1
    <3>1. more[i].time = time
      BY <2>1, <2>3
    <3>2. odometer_data_ # <<>>
      BY <1>1, <1>7, KeptEmpty
    <3>3. Until(odometer_data_, now) /\ odometer_data_ \in Seq(Int)
      BY <1>1, KeptUntil DEF KeptOf
    <3>4. odometer_data_[1] <= now /\ odometer_data_[1] \in Int
      BY <3>2, <3>3 DEF Until
    <3> QED
      BY <1>1, <3>1, <3>4
  <2> QED
    BY <2>1, <2>2, <2>3
<1>8. Anchored(odometer_data_, recorded.odometer, more)
  BY <1>7 DEF Anchored
<1> QED
  BY <1>5, <1>6, <1>8 DEF Orderly, Precedes

\* How many batches are kept of as many as there were and one more.
LEMMA KeptNumber ==
    ASSUME NEW scans \in Nat, NEW early \in Nat, early <= scans, NEW before \in Nat,
           before = Smaller(scans - early, ScansPerAccumulation)
    PROVE  Smaller(before + 1, ScansPerAccumulation)
              = Smaller((scans + 1) - early, ScansPerAccumulation)
BY BatchesAssumption DEF Smaller

LEMMA BatchScanStep ==
    ASSUME BatchesInv, ~failed, NEW time \in Int, now <= time, now' = time,
           Batches!AddRangefinderData(time)
    PROVE  BatchesInv'
<1>1. /\ now \in Int /\ KeptOf(imu_data_, recorded.imu)
      /\ KeptOf(odometer_data_, recorded.odometer)
      /\ Until(recorded.imu, now) /\ Until(recorded.odometer, now)
      /\ recorded \in [imu : Seq(Int), odometer : Seq(Int), scans : Nat, early : Nat]
      /\ recorded.scans \in Nat /\ recorded.early \in Nat /\ recorded.imu \in Seq(Int)
      /\ recorded.odometer \in Seq(Int)
  BY DEF BatchesInv, DataInv, Until
<1>2. /\ InOrder(batches_) /\ Covered(batches_, imu_data_) /\ Len(batches_) \in Nat
      /\ \A i \in DOMAIN batches_ : batches_[i].time <= now
      /\ Len(batches_) = Smaller(recorded.scans - recorded.early, ScansPerAccumulation)
  BY DEF BatchesInv, KeptBatchesInv, InOrder
<1>3. /\ recorded.early <= recorded.scans
      /\ recorded.imu = <<>> => recorded.scans = recorded.early /\ accumulated = <<>>
      /\ accumulated \in Seq(Seq(Nat)) /\ num_accumulated_ \in Nat
      /\ recorded.scans = ScansPerAccumulation * Len(accumulated) + num_accumulated_
      /\ num_accumulated_ < ScansPerAccumulation
      /\ \A k \in DOMAIN accumulated : accumulated[k] = Accumulation(k, recorded.early)
  BY DEF BatchesInv, ScansInv
<1>4. ASSUME batches_ # <<>>
      PROVE  LET start == batches_[Len(batches_)].time
                 it == Batches!PredictFrom(imu_data_, start)
             IN  /\ it # 0
                 /\ MeasuredStep(Batches!Integration(imu_data_, it, start, time),
                                 recorded.imu, time)
  <2>1. PICK start : start = batches_[Len(batches_)].time
    OBVIOUS
  <2>2. Len(batches_) \in DOMAIN batches_ /\ batches_[Len(batches_)] \in Batch
    BY <1>2, <1>4 DEF InOrder
  <2>3. start \in Int /\ start <= now
    BY <1>2, <2>1, <2>2 DEF Batch
  <2>4. start <= time
    BY <1>1, <2>3
  <2>5. /\ Batches!PredictFrom(imu_data_, start) # 0
        /\ MeasuredStep(Batches!Integration(imu_data_, Batches!PredictFrom(imu_data_, start),
                                            start, time), recorded.imu, time)
    BY <1>1, <1>2, <1>4, <2>1, <2>4, PredictionMeasured
  <2> QED
    BY <2>1, <2>5
<1>5. ~Batches!CannotPredict
  BY <1>4 DEF Batches!CannotPredict, Batches!Back
<1>6. PICK prediction : prediction = Batches!Prediction(time)
  OBVIOUS
<1>7. \A step \in prediction : MeasuredStep(step, recorded.imu, time)
  BY <1>4, <1>6 DEF Batches!Prediction, Batches!Back
<1>8. PICK more : more = Append(batches_, [time |-> time, scan |-> recorded.scans + 1])
  OBVIOUS
<1>9. PICK kept, imu, odometer :
         kept = batches_' /\ imu = imu_data_' /\ odometer = odometer_data_'
  OBVIOUS
<1>10. PICK early : early = recorded.early + IF recorded.imu = <<>> THEN 1 ELSE 0
  OBVIOUS
<1>11. /\ recorded' = [recorded EXCEPT !.scans = recorded.scans + 1, !.early = early]
       /\ KeepsOf(more, imu_data_, odometer_data_, kept, imu, odometer)
       /\ Batches!MaybeOptimize(kept, imu, odometer, num_accumulated_ + 1, prediction)
  BY <1>5, <1>6, <1>8, <1>9, <1>10, KeepMeans DEF Batches!AddRangefinderData
<1>12. /\ early \in Nat /\ (recorded.imu # <<>> => early = recorded.early)
       /\ (recorded.imu = <<>> => early = recorded.early + 1)
       /\ early <= recorded.scans + 1
  BY <1>1, <1>3, <1>10
<1>13. /\ recorded' \in [imu : Seq(Int), odometer : Seq(Int), scans : Nat, early : Nat]
       /\ recorded'.imu = recorded.imu /\ recorded'.odometer = recorded.odometer
       /\ recorded'.scans = recorded.scans + 1 /\ recorded'.early = early
  <2>1. PICK scans \in Nat : scans = recorded.scans + 1
    BY <1>1
  <2>2. recorded' = [recorded EXCEPT !.scans = scans, !.early = early]
    BY <1>11, <2>1
  <2> QED
    BY <1>1, <1>12, <2>1, <2>2
<1>14. /\ Orderly(more, recorded.scans + 1, time) /\ Len(more) = Len(batches_) + 1
       /\ Precedes(imu_data_, more)
       /\ Anchored(odometer_data_, recorded.odometer, more)
  BY <1>8, RangefinderBatches
<1>15. /\ Orderly(kept, recorded.scans + 1, time)
       /\ KeptOf(imu, recorded.imu) /\ KeptOf(odometer, recorded.odometer)
       /\ Covered(kept, imu) /\ Anchored(odometer, recorded.odometer, kept)
       /\ imu_data_ = <<>> => kept = <<>>
       /\ imu_data_ # <<>> => Len(kept) = Smaller(Len(more), ScansPerAccumulation)
  <2>1. PICK scans \in Nat : scans = recorded.scans + 1
    BY <1>1
  <2>2. Orderly(more, scans, time)
    BY <1>14, <2>1
  <2>3. /\ Orderly(kept, scans, time)
        /\ KeptOf(imu, recorded.imu) /\ KeptOf(odometer, recorded.odometer)
        /\ Covered(kept, imu) /\ Anchored(odometer, recorded.odometer, kept)
        /\ imu_data_ = <<>> => kept = <<>>
        /\ imu_data_ # <<>> => Len(kept) = Smaller(Len(more), ScansPerAccumulation)
    BY <1>1, <1>11, <1>14, <2>2, KeepsIs
  <2> QED
    BY <2>1, <2>3
<1>16. /\ InOrder(kept) /\ Numbered(kept, recorded.scans + 1) /\ kept \in Seq(Batch)
       /\ \A i \in DOMAIN kept : kept[i].time <= time
  BY <1>15 DEF Orderly, InOrder
<1>17. Len(kept) = Smaller((recorded.scans + 1) - early, ScansPerAccumulation)
  <2>1. CASE recorded.imu = <<>>
    <3>1. imu_data_ = <<>>
      BY <1>1, <2>1, KeptEmpty
    <3>2. Len(kept) = 0
      BY <1>15, <3>1
    <3>3. (recorded.scans + 1) - early = 0
      BY <1>1, <1>3, <1>12, <2>1
    <3> QED
      BY <3>2, <3>3, BatchesAssumption DEF Smaller
  <2>2. CASE recorded.imu # <<>>
    <3>1. imu_data_ # <<>>
      BY <1>1, <2>2, KeptEmpty
    <3>2. Len(kept) = Smaller(Len(batches_) + 1, ScansPerAccumulation)
      BY <1>14, <1>15, <3>1
    <3>3. early = recorded.early
      BY <1>12, <2>2
    <3> QED
      BY <1>1, <1>2, <1>3, <3>2, <3>3, KeptNumber
  <2> QED
    BY <2>1, <2>2
<1>18. Optimized(kept, imu, odometer, num_accumulated_ + 1, prediction)
  <2>1. num_accumulated_ + 1 \in Nat
    BY <1>3
  <2> QED
    BY <1>11, <1>15, <1>16, <2>1, OptimizedIs
<1>19. DataInv'
  <2>1. Until(recorded.imu, time) /\ Until(recorded.odometer, time)
    BY <1>1, UntilLater
  <2> QED
    BY <1>9, <1>13, <1>15, <2>1 DEF DataInv, Until
<1>20. KeptBatchesInv'
  BY <1>9, <1>13, <1>15, <1>16, <1>17 DEF KeptBatchesInv
<1>21. ScansInv'
  <2> DEFINE N == ScansPerAccumulation
             A == Len(accumulated)
             num == num_accumulated_ + 1
             scans == recorded.scans + 1
  <2>1. N \in Nat /\ N > 0 /\ A \in Nat /\ N * A \in Nat /\ num \in Nat /\ scans \in Nat
        /\ num <= N /\ scans = N * A + num
    BY <1>1, <1>3, BatchesAssumption
  <2>2. kept = <<>> <=> scans = early
    <3>1. kept = <<>> <=> Len(kept) = 0
      BY <1>16
    <3> QED
      BY <1>12, <1>17, <2>1, <3>1 DEF Smaller
  <2>3. recorded.imu = <<>> => scans = early /\ accumulated = <<>>
    BY <1>1, <1>3, <1>12
  <2>4. \A k \in DOMAIN accumulated : accumulated[k] = Accumulation(k, early)
    <3>1. CASE recorded.imu = <<>>
      BY <1>3, <3>1
    <3>2. CASE recorded.imu # <<>>
      BY <1>3, <1>12, <3>2
    <3> QED
      BY <3>1, <3>2
  <2> HIDE DEF N, A, num, scans
  <2>5. CASE num_accumulated_' = num /\ accumulated' = accumulated
             /\ (~failed' => num < N) /\ (failed' => num >= N /\ kept = <<>>)
    <3>1. failed' => early >= N
      BY <2>1, <2>2, <2>5
    <3> QED
      BY <1>3, <1>12, <1>13, <2>1, <2>3, <2>4, <2>5, <3>1 DEF ScansInv, N, A, scans
  <2>6. CASE /\ num >= N /\ ~failed' /\ kept # <<>> /\ num_accumulated_' = 0
             /\ accumulated' = Append(accumulated, [i \in DOMAIN kept |-> kept[i].scan])
    <3>1. num = N /\ scans = N * (A + 1)
      <4>1. num = N
        BY <2>1, <2>6
      <4>2. N * (A + 1) = N * A + N
        BY <2>1
      <4> QED
        BY <2>1, <4>1, <4>2
    <3>2. PICK new : new = [i \in DOMAIN kept |-> kept[i].scan]
      OBVIOUS
    <3>3. new = Accumulation(A + 1, early)
      <4>1. scans = ScansPerAccumulation * (A + 1) /\ early <= scans
        BY <1>12, <3>1 DEF scans, N
      <4>2. Numbered(kept, scans) /\ Len(kept) = Smaller(scans - early, ScansPerAccumulation)
        BY <1>16, <1>17 DEF scans
      <4>3. kept \in Seq(Batch) /\ early \in Nat
        BY <1>12, <1>16
      <4>4. A \in Nat /\ scans \in Nat
        BY <2>1
      <4>5. [i \in DOMAIN kept |-> kept[i].scan] = Accumulation(A + 1, early)
        BY <4>1, <4>2, <4>3, <4>4, AccumulatedIs
      <4> QED
        BY <3>2, <4>5
    <3>4. new \in Seq(Nat)
      <4>1. \A i \in DOMAIN kept : kept[i] \in Batch
        BY <1>16
      <4>2. \A i \in DOMAIN kept : kept[i].scan \in Nat
        BY <4>1 DEF Batch
      <4>3. Len(kept) \in Nat /\ DOMAIN kept = 1..Len(kept)
        BY <1>16
      <4>4. new \in [1..Len(kept) -> Nat]
        BY <3>2, <4>2, <4>3
      <4> QED
        BY <4>3, <4>4
    <3>5. PICK old \in Seq(Seq(Nat)) : old = accumulated
      BY <1>3
    <3>6. PICK added : added = Append(old, new)
      OBVIOUS
    <3>7. accumulated' = added
      BY <2>6, <3>2, <3>5, <3>6
    <3>8. /\ added \in Seq(Seq(Nat)) /\ Len(added) = A + 1 /\ DOMAIN added = 1..A + 1
          /\ \A k \in 1..A : added[k] = old[k]
          /\ added[A + 1] = new /\ DOMAIN old = 1..A
      BY <3>4, <3>5, <3>6 DEF A
    <3>9. \A k \in DOMAIN added : added[k] = Accumulation(k, early)
      <4> TAKE k \in DOMAIN added
      <4>1. k \in 1..A \/ k = A + 1
        BY <2>1, <3>8
      <4> QED
        BY <2>4, <3>3, <3>5, <3>8, <4>1
    <3>10. recorded'.imu # <<>>
      BY <1>13, <2>2, <2>3, <2>6
    <3>11. recorded'.scans = N * Len(added) + 0 /\ recorded'.early <= recorded'.scans
      BY <1>12, <1>13, <2>1, <3>1, <3>8 DEF scans
    <3> QED
      BY <1>13, <2>1, <2>6, <3>7, <3>8, <3>9, <3>10, <3>11 DEF ScansInv, N
  <2> QED
    <3>1. \/ num < N /\ num_accumulated_' = num /\ failed' = failed /\ accumulated' = accumulated
          \/ /\ failed' <=> num >= N /\ kept = <<>>
             /\ \/ /\ num < N \/ failed'
                   /\ num_accumulated_' = num /\ accumulated' = accumulated
                \/ /\ num >= N /\ ~failed'
                   /\ num_accumulated_' = 0
                   /\ accumulated' = Append(accumulated, [i \in DOMAIN kept |-> kept[i].scan])
      BY <1>18, Zenon DEF Optimized, num, N
    <3>2. num < N => ~(num >= N)
      BY <2>1
    <3> QED
      BY <2>5, <2>6, <3>1, <3>2, Zenon
<1>22. SolverInv'
  <2>1. \A step \in integrated' : MeasuredStep(step, recorded.imu, time)
    <3>1. \A i \in 2..Len(kept) :
             MeasuredStep(Batches!Integration(imu, Batches!Iterators(imu, kept)[i - 1],
                                              kept[i - 1].time, kept[i].time),
                          recorded.imu, time)
      BY <1>15, <1>16, StepsMeasured
    <3>2. \A step \in integrated' :
             \/ step \in prediction
             \/ \E i \in 2..Len(kept) :
                   step = Batches!Integration(imu, Batches!Iterators(imu, kept)[i - 1],
                                              kept[i - 1].time, kept[i].time)
      BY <1>18, Zenon DEF Optimized
    <3> QED
      BY <1>7, <3>1, <3>2, Zenon
  <2>2. NoneMissed(looked_up'.made, looked_up'.due)
    <3>1. PICK made, due : /\ made = Batches!OdometerConstraints(odometer, kept)
                           /\ due = Batches!OdometerConstraints(recorded.odometer, kept)
      OBVIOUS
    <3>2. looked_up' = [made |-> {}, due |-> {}] \/ looked_up' = [made |-> made, due |-> due]
      BY <1>18, <3>1, Zenon DEF Optimized, Batches!NoConstraints
    <3>3. NoneMissed({}, {})
      BY DEF NoneMissed
    <3>4. NoneMissed(made, due)
      BY <1>15, <1>16, <3>1, ConstraintsKept
    <3> QED
      BY <3>2, <3>3, <3>4
  <2> QED
    BY <1>13, <2>1, <2>2 DEF SolverInv
<1> QED
  BY <1>19, <1>20, <1>21, <1>22 DEF BatchesInv

LEMMA BatchesStep == BatchesInv /\ BatchesNext => BatchesInv'
<1> SUFFICES ASSUME BatchesInv, Batches!Next PROVE BatchesInv'
  BY DEF BatchesNext
<1>1. now \in Int
  BY DEF BatchesInv, DataInv
<1>2. PICK time \in now..MaxBatchTime :
         /\ ~failed /\ now' = time
         /\ \/ Batches!AddImuData(time)
            \/ Batches!AddOdometerData(time)
            \/ Batches!AddRangefinderData(time)
  BY DEF Batches!Next
<1>3. time \in Int /\ now <= time
  BY <1>1, <1>2
<1>4. CASE Batches!AddImuData(time)
  BY <1>2, <1>3, <1>4, BatchImuStep
<1>5. CASE Batches!AddOdometerData(time)
  BY <1>2, <1>3, <1>5, BatchOdometerStep
<1>6. CASE Batches!AddRangefinderData(time)
  BY <1>2, <1>3, <1>6, BatchScanStep
<1> QED
  BY <1>2, <1>4, <1>5, <1>6

LEMMA BatchesUnchanged == BatchesInv /\ UNCHANGED batchVars => BatchesInv'
<1> SUFFICES ASSUME BatchesInv, UNCHANGED batchVars PROVE BatchesInv'
  OBVIOUS
<1>1. /\ now' = now /\ batches_' = batches_ /\ imu_data_' = imu_data_
      /\ odometer_data_' = odometer_data_ /\ num_accumulated_' = num_accumulated_
      /\ failed' = failed /\ accumulated' = accumulated /\ recorded' = recorded
      /\ integrated' = integrated /\ looked_up' = looked_up
  BY DEF batchVars
<1>2. DataInv'
  BY <1>1 DEF BatchesInv, DataInv
<1>3. KeptBatchesInv'
  BY <1>1 DEF BatchesInv, KeptBatchesInv
<1>4. ScansInv'
  BY <1>1 DEF BatchesInv, ScansInv
<1>5. SolverInv'
  BY <1>1 DEF BatchesInv, SolverInv
<1> QED
  BY <1>2, <1>3, <1>4, <1>5 DEF BatchesInv

\* OptimizingLocalTrajectoryBuilder, for any accumulation and any data in the order of their
\* times: every scan is accumulated once, except those before the IMU data, and the IMU and
\* odometer data that RemoveObsoleteSensorData has discarded are never missed.
THEOREM BatchesAlwaysExact == FrontEndSpec => []BatchesExact
<1>1. FrontEndInit => BatchesInv
  BY BatchesInit DEF FrontEndInit
<1>2. BatchesInv /\ [FrontEndNext]_frontEndVars => BatchesInv'
  <2>1. [FrontEndNext]_frontEndVars => BatchesNext \/ UNCHANGED batchVars
    BY Zenon DEF FrontEndNext, BuilderNext, GridNext, RayNext, MatcherNext, ConnectivityNext,
                 HybridNext, Matcher3DNext, frontEndVars
  <2> QED
    BY <2>1, BatchesStep, BatchesUnchanged
<1>3. BatchesInv => BatchesExact
  BY BatchesInvExact DEF BatchesExact
<1> QED
  BY <1>1, <1>2, <1>3, FrontEndBehaves, PTL
=============================================================================

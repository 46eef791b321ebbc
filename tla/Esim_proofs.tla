----------------------------- MODULE Esim_proofs -----------------------------
(***************************************************************************)
(* Proofs about the event-driven engine, for every set of frequency        *)
(* domains, events, delays and periods: its bookkeeping, and that          *)
(* ProcessEvents runs every event in the cycle it was scheduled for.       *)
(***************************************************************************)
EXTENDS Esim, FiniteSetTheorems, LoopLemmas

-----------------------------------------------------------------------------
(* Cycles                                                                  *)

LEMMA QuotientIsPositive ==
    ASSUME NEW m \in Nat, NEW n \in 1 .. m
    PROVE  m \div n \in Nat /\ m \div n >= 1
  OBVIOUS

LEMMA QuotientIsAntitone ==
    ASSUME NEW m \in Nat, NEW a \in 1 .. m, NEW b \in 1 .. m, a <= b
    PROVE  m \div b <= m \div a
  OBVIOUS

\* isValidFrequency keeps every cycle at least a picosecond long.
LEMMA CycleTimeType ==
    ASSUME NEW d \in Domains
    PROVE  CycleTime(d) \in Nat /\ CycleTime(d) >= 1
  <1>1. Frequency[d] \in 1 .. Microsecond
    BY DomainAssumption
  <1>2. Microsecond \in Nat
    BY DEF Microsecond
  <1> QED BY <1>1, <1>2, QuotientIsPositive DEF CycleTime

\* No domain's cycle is shorter than the step by which ProcessEvents advances.
LEMMA ShortestCycleTimeIsShortest ==
    /\ ShortestCycleTime \in Nat
    /\ \A d \in Domains : ShortestCycleTime <= CycleTime(d)
  <1> DEFINE S == {Microsecond - Frequency[d] : d \in Domains}
  <1>1. \A d \in Domains : Frequency[d] \in 1 .. Microsecond
    BY DomainAssumption
  <1>0. Microsecond \in Nat
    BY DEF Microsecond
  <1>2. S \in SUBSET Nat /\ S # {}
    BY <1>0, <1>1, DomainAssumption
  <1>3. PICK n \in S : \A m \in S : n <= m
    BY <1>2, LeastOf
  <1>4. PICK d \in Domains : n = Microsecond - Frequency[d]
    BY <1>3
  <1>5. \A x \in Domains : Frequency[x] <= Frequency[d]
    <2> TAKE x \in Domains
    <2>1. n <= Microsecond - Frequency[x]
      BY <1>3
    <2> QED BY <2>1, <1>0, <1>1, <1>4
  <1> DEFINE fastest == CHOOSE y \in Domains : \A x \in Domains : Frequency[x] <= Frequency[y]
  <1>6. fastest \in Domains /\ \A x \in Domains : Frequency[x] <= Frequency[fastest]
    BY <1>5
  <1>7. ShortestCycleTime = CycleTime(fastest)
    BY DEF ShortestCycleTime
  <1> HIDE DEF fastest
  <1>8. \A x \in Domains : CycleTime(fastest) <= CycleTime(x)
    BY <1>0, <1>1, <1>6, QuotientIsAntitone DEF CycleTime
  <1> QED BY <1>6, <1>7, <1>8, CycleTimeType

-----------------------------------------------------------------------------
(* The heap                                                                *)

SortedBy(h, fr) == \A i, j \in DOMAIN h : i <= j => fr[h[i]].time <= fr[h[j]].time
Once(s)         == \A i, j \in DOMAIN s : s[i] = s[j] => i = j

LEMMA IntervalCardinality ==
    ASSUME NEW n \in Nat
    PROVE  IsFiniteSet(1 .. n) /\ Cardinality(1 .. n) = n
  <1>1. /\ IsFiniteSet(1 .. n)
        /\ Cardinality(1 .. n) = IF 1 > n THEN 0 ELSE n - 1 + 1
    BY FS_Interval
  <1> QED BY <1>1

\* The number of frames in a heap that are due no later than frame f.
Before(h, f, fr) == Cardinality({i \in DOMAIN h : fr[h[i]].time <= fr[f].time})

\* A frame goes into the heap beside the frames that are there, whatever they are.
LEMMA HeapInsertType ==
    ASSUME NEW h \in Seq(Frames), NEW f \in Frames, NEW fr
    PROVE  LET k == Before(h, f, fr)
               r == HeapInsert(h, f, fr)
           IN  /\ k \in 0 .. Len(h)
               /\ r \in Seq(Frames) /\ Len(r) = Len(h) + 1
               /\ \A i \in 1 .. k : r[i] = h[i]
               /\ r[k + 1] = f
               /\ \A i \in k + 2 .. Len(h) + 1 : r[i] = h[i - 1]
  <1> DEFINE S == {i \in DOMAIN h : fr[h[i]].time <= fr[f].time}
             k == Cardinality(S)
             r == HeapInsert(h, f, fr)
  <1>1. Len(h) \in Nat /\ DOMAIN h = 1 .. Len(h) /\ \A i \in 1 .. Len(h) : h[i] \in Frames
    OBVIOUS
  <1>2. k \in 0 .. Len(h)
    <2>1. IsFiniteSet(1 .. Len(h)) /\ Cardinality(1 .. Len(h)) = Len(h)
      BY <1>1, IntervalCardinality
    <2>2. S \in SUBSET (1 .. Len(h))
      BY <1>1
    <2> HIDE DEF S
    <2>3. IsFiniteSet(S) /\ k <= Len(h)
      BY <2>1, <2>2, FS_Subset
    <2> QED BY <2>3, <1>1, FS_CardinalityType
  <1>3. r = [i \in 1 .. Len(h) + 1 |-> IF i <= k THEN h[i] ELSE IF i = k + 1 THEN f ELSE h[i - 1]]
    BY DEF HeapInsert
  <1> HIDE DEF S, k, r
  <1>4. \A i \in 1 .. Len(h) + 1 :
          (IF i <= k THEN h[i] ELSE IF i = k + 1 THEN f ELSE h[i - 1]) \in Frames
    BY <1>1, <1>2
  <1>5. r \in Seq(Frames) /\ Len(r) = Len(h) + 1
    BY <1>1, <1>3, <1>4
  <1>6. \A i \in 1 .. k : r[i] = h[i]
    BY <1>1, <1>2, <1>3
  <1>7. r[k + 1] = f
    BY <1>1, <1>2, <1>3
  <1>8. \A i \in k + 2 .. Len(h) + 1 : r[i] = h[i - 1]
    BY <1>1, <1>2, <1>3
  <1> QED BY <1>2, <1>5, <1>6, <1>7, <1>8 DEF k, r, S, Before

LEMMA HeapInsertHolds ==
    ASSUME NEW h \in Seq(Frames), NEW f \in Frames, NEW fr
    PROVE  LET r == HeapInsert(h, f, fr)
           IN  /\ r \in Seq(Frames)
               /\ \A g \in Frames : InSeq(g, r) <=> InSeq(g, h) \/ g = f
               /\ Once(h) /\ ~InSeq(f, h) => Once(r)
  <1> DEFINE k == Before(h, f, fr)
             r == HeapInsert(h, f, fr)
  <1>1. /\ k \in 0 .. Len(h)
        /\ r \in Seq(Frames) /\ Len(r) = Len(h) + 1
        /\ \A i \in 1 .. k : r[i] = h[i]
        /\ r[k + 1] = f
        /\ \A i \in k + 2 .. Len(h) + 1 : r[i] = h[i - 1]
    BY HeapInsertType
  <1> HIDE DEF k, r
  <1>2. DOMAIN h = 1 .. Len(h) /\ DOMAIN r = 1 .. Len(h) + 1 /\ Len(h) \in Nat
    BY <1>1
  <1>3. ASSUME NEW g \in Frames, InSeq(g, r)
        PROVE  InSeq(g, h) \/ g = f
    <2>1. PICK i \in 1 .. Len(h) + 1 : r[i] = g
      BY <1>2, <1>3 DEF InSeq
    <2>2. CASE i \in 1 .. k
      BY <2>1, <2>2, <1>1, <1>2 DEF InSeq
    <2>3. CASE i = k + 1
      BY <2>1, <2>3, <1>1
    <2>4. CASE i \in k + 2 .. Len(h) + 1
      <3>1. i - 1 \in DOMAIN h /\ h[i - 1] = g
        BY <2>1, <2>4, <1>1, <1>2
      <3> QED BY <3>1 DEF InSeq
    <2> QED BY <2>1, <2>2, <2>3, <2>4, <1>1, <1>2
  <1>4. ASSUME NEW g \in Frames, InSeq(g, h)
        PROVE  InSeq(g, r)
    <2>1. PICK i \in 1 .. Len(h) : h[i] = g
      BY <1>2, <1>4 DEF InSeq
    <2>2. CASE i <= k
      <3>1. i \in 1 .. k /\ i \in DOMAIN r
        BY <2>2, <1>1, <1>2
      <3>2. r[i] = g
        BY <2>1, <3>1, <1>1
      <3> QED BY <3>1, <3>2 DEF InSeq
    <2>3. CASE i > k
      <3>1. i + 1 \in k + 2 .. Len(h) + 1 /\ i + 1 \in DOMAIN r
        BY <2>3, <1>1, <1>2
      <3>2. r[i + 1] = g
        BY <3>1, <2>1, <1>1, <1>2
      <3> QED BY <3>1, <3>2 DEF InSeq
    <2> QED BY <2>1, <2>2, <2>3, <1>1, <1>2
  <1>5. InSeq(f, r)
    BY <1>1, <1>2 DEF InSeq
  <1>6. ASSUME Once(h), ~InSeq(f, h)
        PROVE  Once(r)
    <2> SUFFICES ASSUME NEW i \in 1 .. Len(h) + 1, NEW j \in 1 .. Len(h) + 1, i < j, r[i] = r[j]
                 PROVE  FALSE
      BY <1>2 DEF Once
    <2>1. \A n \in 1 .. Len(h) : h[n] # f
      BY <1>2, <1>6 DEF InSeq
    <2>2. \A n, m \in 1 .. Len(h) : h[n] = h[m] => n = m
      BY <1>2, <1>6 DEF Once
    <2>3. CASE j <= k
      BY <2>2, <2>3, <1>1, <1>2
    <2>4. CASE j = k + 1
      BY <2>1, <2>4, <1>1, <1>2
    <2>5. CASE j > k + 1
      <3>1. r[j] = h[j - 1] /\ j - 1 \in 1 .. Len(h)
        BY <2>5, <1>1, <1>2
      <3>2. CASE i <= k
        BY <3>1, <3>2, <2>2, <2>5, <1>1, <1>2
      <3>3. CASE i = k + 1
        BY <3>1, <3>3, <2>1, <2>5, <1>1, <1>2
      <3>4. CASE i > k + 1
        <4>1. r[i] = h[i - 1] /\ i - 1 \in 1 .. Len(h)
          BY <3>4, <1>1, <1>2
        <4> QED BY <3>1, <4>1, <2>2
      <3> QED BY <3>2, <3>3, <3>4, <1>1, <1>2
    <2> QED BY <2>3, <2>4, <2>5, <1>1, <1>2
  <1> QED BY <1>1, <1>3, <1>4, <1>5, <1>6 DEF r

\* The frames that are not later than a time come first in a sorted heap, so
\* there are as many of them as the last one's place says.
LEMMA NotLaterComeFirst ==
    ASSUME NEW n \in Nat, NEW S \in SUBSET (1 .. n),
           \A j \in S : \A i \in 1 .. j : i \in S
    PROVE  S = 1 .. Cardinality(S)
  <1>1. CASE S = {}
    <2>1. Cardinality(S) = 0
      BY <1>1, FS_EmptySet
    <2> QED BY <1>1, <2>1
  <1>2. CASE S # {}
    <2> DEFINE G == {n - i : i \in S}
    <2>1. G \in SUBSET Nat /\ G # {}
      <3>1. \A i \in S : n - i \in Nat
        OBVIOUS
      <3> QED BY <1>2, <3>1
    <2>2. PICK g \in G : \A x \in G : g <= x
      <3> HIDE DEF G
      <3> QED BY <2>1, LeastOf
    <2>3. PICK m \in S : g = n - m
      BY <2>2
    <2>4. \A i \in S : i <= m
      <3> TAKE i \in S
      <3>1. g <= n - i
        BY <2>2
      <3> QED BY <3>1, <2>3
    <2>5. S = 1 .. m
      <3>1. m \in 1 .. n
        BY <2>3
      <3>2. \A i \in S : i \in 1 .. m
        BY <2>4, <3>1
      <3>3. \A i \in 1 .. m : i \in S
        BY <2>3
      <3> QED BY <3>2, <3>3
    <2>6. Cardinality(1 .. m) = m
      BY <2>3, IntervalCardinality
    <2> QED BY <2>5, <2>6
  <1> QED BY <1>1, <1>2

LEMMA HeapInsertSorts ==
    ASSUME NEW h \in Seq(Frames), NEW f \in Frames, NEW fr, SortedBy(h, fr),
           \A g \in Frames : fr[g].time \in Nat
    PROVE  SortedBy(HeapInsert(h, f, fr), fr)
  <1> DEFINE S == {i \in DOMAIN h : fr[h[i]].time <= fr[f].time}
             k == Cardinality(S)
             r == HeapInsert(h, f, fr)
  <1>1. /\ k \in 0 .. Len(h)
        /\ r \in Seq(Frames) /\ Len(r) = Len(h) + 1
        /\ \A i \in 1 .. k : r[i] = h[i]
        /\ r[k + 1] = f
        /\ \A i \in k + 2 .. Len(h) + 1 : r[i] = h[i - 1]
    BY HeapInsertType DEF Before
  <1>2. DOMAIN h = 1 .. Len(h) /\ Len(h) \in Nat /\ \A i \in 1 .. Len(h) : h[i] \in Frames
    OBVIOUS
  <1>3. S = 1 .. k
    <2>1. S \in SUBSET (1 .. Len(h))
      BY <1>2
    <2>2. ASSUME NEW j \in S, NEW i \in 1 .. j
          PROVE  i \in S
      <3>1. i \in DOMAIN h /\ j \in DOMAIN h /\ i <= j
        BY <1>2
      <3>2. fr[h[i]].time <= fr[h[j]].time
        BY <3>1 DEF SortedBy
      <3>3. fr[h[i]].time \in Nat /\ fr[h[j]].time \in Nat /\ fr[f].time \in Nat
        BY <3>1, <1>2
      <3> QED BY <3>1, <3>2, <3>3
    <2> HIDE DEF S
    <2> QED BY <2>1, <2>2, <1>2, NotLaterComeFirst
  <1>4. \A i \in 1 .. Len(h) : fr[h[i]].time <= fr[f].time <=> i <= k
    BY <1>1, <1>2, <1>3
  <1> HIDE DEF S, k, r
  <1>5. DOMAIN r = 1 .. Len(h) + 1
    BY <1>1, <1>2
  <1>6. \A n, m \in 1 .. Len(h) : n <= m => fr[h[n]].time <= fr[h[m]].time
    BY <1>2 DEF SortedBy
  <1>7. fr[f].time \in Nat /\ \A n \in 1 .. Len(h) : fr[h[n]].time \in Nat
    BY <1>2
  <1>8. ASSUME NEW i \in 1 .. Len(h) + 1, NEW j \in 1 .. Len(h) + 1, i <= j
        PROVE  fr[r[i]].time <= fr[r[j]].time
    <2>1. CASE j <= k
      <3>1. r[i] = h[i] /\ r[j] = h[j] /\ i \in 1 .. Len(h) /\ j \in 1 .. Len(h)
        BY <2>1, <1>1, <1>2, <1>8
      <3> QED BY <3>1, <1>6, <1>8
    <2>2. CASE j = k + 1
      <3>1. CASE i = k + 1
        BY <2>2, <3>1, <1>1, <1>7
      <3>2. CASE i # k + 1
        <4>0. i \in 1 .. k /\ i \in 1 .. Len(h)
          BY <2>2, <3>2, <1>1, <1>2, <1>8
        <4>1. r[i] = h[i] /\ i \in 1 .. Len(h) /\ i <= k /\ r[j] = f
          BY <4>0, <2>2, <1>1
        <4> QED BY <4>1, <1>4
      <3> QED BY <3>1, <3>2
    <2>3. CASE j > k + 1
      <3>1. r[j] = h[j - 1] /\ j - 1 \in 1 .. Len(h) /\ j - 1 > k
        BY <2>3, <1>1, <1>2
      <3>2. CASE i <= k
        <4>1. r[i] = h[i] /\ i \in 1 .. Len(h) /\ i <= j - 1
          BY <3>1, <3>2, <1>1, <1>2
        <4> QED BY <3>1, <4>1, <1>6
      <3>3. CASE i = k + 1
        <4>1. r[i] = f /\ ~(fr[h[j - 1]].time <= fr[f].time)
          BY <3>1, <3>3, <1>1, <1>2, <1>4
        <4>2. fr[h[j - 1]].time \in Nat
          BY <3>1, <1>7
        <4> QED BY <3>1, <4>1, <4>2, <1>7
      <3>4. CASE i > k + 1
        <4>1. r[i] = h[i - 1] /\ i - 1 \in 1 .. Len(h) /\ i - 1 <= j - 1
          BY <3>4, <1>1, <1>2, <1>8
        <4> QED BY <3>1, <4>1, <1>6
      <3> QED BY <3>2, <3>3, <3>4, <1>1, <1>2
    <2> QED BY <2>1, <2>2, <2>3, <1>1, <1>2
  <1> QED BY <1>5, <1>8 DEF SortedBy, r

Places(h, fr, e)   == {i \in DOMAIN h : fr[h[i]].event = e}
FramesOf(h, fr, e) == {g \in Frames : InSeq(g, h) /\ fr[g].event = e}

\* The number of places that hold a frame of an event is the number of such frames.
LEMMA PlacesAreFrames ==
    ASSUME NEW h \in Seq(Frames), Once(h), NEW fr, NEW e
    PROVE  /\ IsFiniteSet(FramesOf(h, fr, e))
           /\ Cardinality(Places(h, fr, e)) = Cardinality(FramesOf(h, fr, e))
  <1> DEFINE P == {i \in DOMAIN h : fr[h[i]].event = e}
             F == {g \in Frames : InSeq(g, h) /\ fr[g].event = e}
             m == [i \in P |-> h[i]]
  <1>1. IsFiniteSet(P)
    <2>1. IsFiniteSet(1 .. Len(h))
      BY IntervalCardinality
    <2>2. P \in SUBSET (1 .. Len(h))
      OBVIOUS
    <2> HIDE DEF P
    <2> QED BY <2>1, <2>2, FS_Subset
  <1>2. m \in [P -> F]
    <2> SUFFICES ASSUME NEW i \in P
                 PROVE  h[i] \in F
      OBVIOUS
    <2>1. i \in DOMAIN h /\ h[i] \in Frames /\ fr[h[i]].event = e
      OBVIOUS
    <2> QED BY <2>1 DEF InSeq
  <1>3. \A i, j \in P : m[i] = m[j] => i = j
    BY DEF Once
  <1>4. \A g \in F : \E i \in P : m[i] = g
    BY DEF InSeq
  <1> HIDE DEF P, F, m
  <1>5. ExistsBijection(P, F)
    BY <1>2, <1>3, <1>4 DEF ExistsBijection, Bijection, Injection, Surjection, IsInjective
  <1>6. IsFiniteSet(F) /\ Cardinality(F) = Cardinality(P)
    BY <1>1, <1>5, FS_Bijection
  <1> QED BY <1>6 DEF P, F, Places, FramesOf

-----------------------------------------------------------------------------
(* Types                                                                   *)

PeriodValues == {0} \cup UNION {Periods[e] : e \in Events}
Phases == {"arch", "events", "drain", "ends", "redrain", "done", "panic", "assert"}

LEMMA RoundingType ==
    ASSUME NEW t \in Nat, NEW ct \in Nat, ct >= 1, NEW n \in Nat
    PROVE  /\ t \div ct \in Nat
           /\ (t \div ct) * ct + ct * n \in Nat
           /\ (t \div ct) * ct <= t
           /\ t < (t \div ct) * ct + ct
  <1>1. t \div ct \in Nat
    OBVIOUS
  <1>2. (t \div ct) * ct \in Nat /\ ct * n \in Nat
    BY <1>1
  <1>3. (t \div ct) * ct <= t /\ t < (t \div ct) * ct + ct
    OBVIOUS
  <1> QED BY <1>1, <1>2, <1>3

LEMMA TimeOfType ==
    ASSUME TypeOK, NEW e \in Events, NEW after \in Nat
    PROVE  TimeOf(e, after) \in Nat
  <1>1. DomainOf[e] \in Domains
    BY DomainAssumption
  <1>2. current_time \in Nat
    BY DEF TypeOK
  <1> QED BY <1>1, <1>2, CycleTimeType, RoundingType DEF TimeOf

\* Event::incInFlight, which the model bounds in the draining only.
LEMMA IncInFlightFacts ==
    ASSUME TypeOK, NEW e \in Events
    PROVE  /\ incInFlight(e) \in [Events -> Int]
           /\ \A x \in Events : x # e => incInFlight(e)[x] = in_flight[x]
           /\ ~Draining => incInFlight(e)[e] = in_flight[e] + 1
  <1>1. in_flight \in [Events -> Int]
    BY DEF TypeOK
  <1>2. ASSUME NEW n \in Int, incInFlight(e) = [in_flight EXCEPT ![e] = n]
        PROVE  /\ incInFlight(e) \in [Events -> Int]
               /\ \A x \in Events : x # e => incInFlight(e)[x] = in_flight[x]
               /\ incInFlight(e)[e] = n
    BY <1>1, <1>2
  <1>3. CASE Draining /\ in_flight[e] >= MaxCalls
    <2>1. incInFlight(e) = [in_flight EXCEPT ![e] = in_flight[e]]
      BY <1>1, <1>3 DEF incInFlight
    <2> QED BY <1>1, <1>2, <1>3, <2>1
  <1>4. CASE ~(Draining /\ in_flight[e] >= MaxCalls)
    <2>1. incInFlight(e) = [in_flight EXCEPT ![e] = in_flight[e] + 1]
      BY <1>1, <1>4 DEF incInFlight
    <2>2. in_flight[e] + 1 \in Int
      BY <1>1
    <2> QED BY <1>2, <2>1, <2>2
  <1> QED BY <1>3, <1>4

LEMMA ScheduleType ==
    ASSUME TypeOK, NEW e \in Events \cup {None}, NEW f \in Frames \cup {None}, NEW after \in Nat,
           NEW period \in PeriodValues, NEW fr \in [Frames -> FrameFields],
           Schedule(e, f, after, period, fr)
    PROVE  /\ heap' \in Seq(Frames) /\ frame' \in [Frames -> FrameFields]
           /\ in_flight' \in [Events -> Int] /\ phase' \in Phases
  <1>0. /\ heap \in Seq(Frames) /\ in_flight \in [Events -> Int] /\ phase \in Phases
    BY DEF TypeOK, Phases
  <1>1. CASE phase' \in {"panic", "assert"} /\ UNCHANGED <<heap, in_flight>> /\ frame' = fr
    BY <1>0, <1>1 DEF Phases
  <1>2. CASE UNCHANGED <<heap, in_flight, phase>> /\ frame' = fr
    BY <1>0, <1>2
  <1>3. CASE /\ f # None /\ e # None
             /\ TimeOf(e, after) <= MaxTime
             /\ frame' = [fr EXCEPT ![f].event = e, ![f].time = TimeOf(e, after),
                                    ![f].period = period]
             /\ heap' = HeapInsert(heap, f, frame')
             /\ in_flight' = incInFlight(e)
             /\ UNCHANGED phase
    <2>1. f \in Frames /\ e \in Events
      BY <1>3
    <2>2. TimeOf(e, after) \in 0 .. MaxTime
      BY <1>3, <2>1, TimeOfType, CallAssumption
    <2>3. fr[f] \in FrameFields
      BY <2>1
    <2>4. [fr[f] EXCEPT !.event = e, !.time = TimeOf(e, after), !.period = period] \in FrameFields
      BY <2>1, <2>2, <2>3 DEF FrameFields, PeriodValues
    <2>5. frame' = [fr EXCEPT ![f] = [fr[f] EXCEPT !.event = e, !.time = TimeOf(e, after), !.period = period]]
      BY <1>3, <2>1, <2>3 DEF FrameFields
    <2>6. frame' \in [Frames -> FrameFields]
      BY <2>1, <2>4, <2>5
    <2>7. heap' \in Seq(Frames)
      BY <1>0, <1>3, <2>1, HeapInsertHolds
    <2> QED BY <1>0, <1>3, <2>1, <2>6, <2>7, IncInFlightFacts
  <1> QED BY <1>1, <1>2, <1>3 DEF Schedule, Panic

LEMMA FieldsType ==
    ASSUME NEW fr \in [Frames -> FrameFields], NEW f \in Frames
    PROVE  /\ fr[f] \in FrameFields
           /\ fr[f].event \in Events \cup {None} /\ fr[f].time \in 0 .. MaxTime
           /\ fr[f].period \in PeriodValues /\ fr[f].parent \in Frames \cup {None}
           /\ fr[f].return_event \in Events \cup {None}
           /\ fr[f].wakeup_event \in Events \cup {None}
           /\ fr[f].time \in Nat /\ fr[f].period \in Nat
  <1>1. fr[f] \in FrameFields
    OBVIOUS
  <1>2. PeriodValues \subseteq Nat /\ MaxTime \in Nat
    <2>1. \A e \in Events : Periods[e] \subseteq Nat
      BY CallAssumption
    <2> QED BY <2>1, CallAssumption DEF PeriodValues
  <1> QED BY <1>1, <1>2 DEF FrameFields, PeriodValues

LEMMA BlankType == Blank \in FrameFields
  BY CallAssumption DEF Blank, FrameFields

LEMMA CurrentFrameType ==
    ASSUME TypeOK
    PROVE  /\ current_frame \in Frames \cup {None}
           /\ stack # <<>> => /\ current_frame \in Frames
                              /\ current_frame = stack[1] /\ Len(stack) >= 1
                              /\ Tail(stack) \in Seq(Frames)
  <1>1. stack \in Seq(Frames)
    BY DEF TypeOK
  <1>2. CASE stack = <<>>
    BY <1>2 DEF current_frame
  <1>3. CASE stack # <<>>
    <2>1. Len(stack) >= 1
      BY <1>1, <1>3
    <2> QED BY <1>1, <1>3, <2>1 DEF current_frame
  <1> QED BY <1>2, <1>3

\* PopAndSchedule, like Schedule, keeps to the types; the frame at the head of a
\* queue has an event to wake up for.
LEMMA PopAndScheduleType ==
    ASSUME TypeOK, OnePlace, queue # <<>>, PopAndSchedule
    PROVE  /\ Head(queue) \in Frames /\ InQueue(Head(queue))
           /\ Head(queue) = queue[1] /\ Len(queue) >= 1
           /\ frame[Head(queue)].wakeup_event \in Events
           /\ ~InHeap(Head(queue))
           /\ queue' \in Seq(Frames) /\ heap' \in Seq(Frames)
           /\ frame' \in [Frames -> FrameFields] /\ in_flight' \in [Events -> Int]
           /\ UNCHANGED phase
  <1> DEFINE f == Head(queue)
             e == frame[f].wakeup_event
  <1>1. queue \in Seq(Frames) /\ heap \in Seq(Frames) /\ frame \in [Frames -> FrameFields]
        /\ in_flight \in [Events -> Int]
    BY DEF TypeOK
  <1>2. Len(queue) >= 1
    BY <1>1
  <1>3. f \in Frames /\ f = queue[1] /\ 1 \in DOMAIN queue /\ Tail(queue) \in Seq(Frames)
    BY <1>1, <1>2
  <1>4. InQueue(f)
    BY <1>3 DEF InQueue, InSeq
  <1>5. e \in Events /\ ~InHeap(f)
    BY <1>1, <1>3, <1>4, FieldsType DEF OnePlace
  <1> HIDE DEF f
  <1>6. /\ queue' = Tail(queue)
        /\ TimeOf(e, 0) <= MaxTime
        /\ frame' = [frame EXCEPT ![f].wakeup_event = None, ![f].event = e,
                                  ![f].time = TimeOf(e, 0), ![f].period = 0]
        /\ heap' = HeapInsert(heap, f, frame')
        /\ in_flight' = incInFlight(e)
        /\ UNCHANGED phase
    BY <1>5 DEF PopAndSchedule, f
  <1>7. TimeOf(e, 0) \in 0 .. MaxTime
    <2>1. TimeOf(e, 0) <= MaxTime
      BY <1>6
    <2> QED BY <1>5, <2>1, TimeOfType, CallAssumption
  <1>8. frame[f] \in FrameFields
    BY <1>1, <1>3
  <1>9. [frame[f] EXCEPT !.wakeup_event = None, !.event = e, !.time = TimeOf(e, 0), !.period = 0]
          \in FrameFields
    BY <1>5, <1>7, <1>8 DEF FrameFields
  <1>10. frame' = [frame EXCEPT ![f] = [frame[f] EXCEPT !.wakeup_event = None, !.event = e,
                                                        !.time = TimeOf(e, 0), !.period = 0]]
    BY <1>1, <1>3, <1>6, <1>8 DEF FrameFields
  <1>11. frame' \in [Frames -> FrameFields]
    BY <1>1, <1>3, <1>9, <1>10
  <1>12. heap' \in Seq(Frames)
    BY <1>1, <1>3, <1>6, HeapInsertHolds
  <1>13. in_flight' \in [Events -> Int]
    <2>1. in_flight' = incInFlight(e)
      BY <1>6
    <2> QED BY <1>5, <2>1, IncInFlightFacts
  <1>14. queue' \in Seq(Frames) /\ UNCHANGED phase
    BY <1>3, <1>6
  <1> QED BY <1>2, <1>3, <1>4, <1>5, <1>11, <1>12, <1>13, <1>14 DEF f

\* One field of a frame is written.
LEMMA WrittenType ==
    ASSUME NEW fr \in [Frames -> FrameFields], NEW f \in Frames,
           NEW e \in Events \cup {None}, NEW p \in Frames \cup {None}
    PROVE  /\ [fr EXCEPT ![f].event = e] \in [Frames -> FrameFields]
           /\ [fr EXCEPT ![f].wakeup_event = e] \in [Frames -> FrameFields]
           /\ [fr EXCEPT ![f].return_event = e, ![f].parent = p] \in [Frames -> FrameFields]
           /\ [fr EXCEPT ![f].parent = p, ![f].return_event = e] \in [Frames -> FrameFields]
  <1>1. fr[f] \in FrameFields
    OBVIOUS
  <1>2. /\ [fr[f] EXCEPT !.event = e] \in FrameFields
        /\ [fr[f] EXCEPT !.wakeup_event = e] \in FrameFields
        /\ [fr[f] EXCEPT !.return_event = e, !.parent = p] \in FrameFields
        /\ [fr[f] EXCEPT !.parent = p, !.return_event = e] \in FrameFields
    BY <1>1 DEF FrameFields
  <1>3. [fr EXCEPT ![f].return_event = e, ![f].parent = p]
          = [fr EXCEPT ![f] = [fr[f] EXCEPT !.return_event = e, !.parent = p]]
    BY <1>1 DEF FrameFields
  <1>4. [fr EXCEPT ![f].parent = p, ![f].return_event = e]
          = [fr EXCEPT ![f] = [fr[f] EXCEPT !.parent = p, !.return_event = e]]
    BY <1>1 DEF FrameFields
  <1>5. [fr EXCEPT ![f].event = e] = [fr EXCEPT ![f] = [fr[f] EXCEPT !.event = e]]
    BY <1>1 DEF FrameFields
  <1>6. [fr EXCEPT ![f].wakeup_event = e] = [fr EXCEPT ![f] = [fr[f] EXCEPT !.wakeup_event = e]]
    BY <1>1 DEF FrameFields
  <1> QED BY <1>2, <1>3, <1>4, <1>5, <1>6

\* Next split into its actions, with the types of their parameters.
LEMMA StepIsAnAction ==
    ASSUME [Next]_vars
    PROVE  \/ \E e \in Events \cup {None}, a \in Nat, p \in PeriodValues : NextEvent(e, a, p)
           \/ \E e \in Events, r \in Events \cup {None}, a \in Nat, p \in PeriodValues : Call(e, r, a, p)
           \/ \E a \in Nat : Return(a)
           \/ \E r \in Events \cup {None} : Execute(r)
           \/ \E e \in Events : EndEvent(e)
           \/ \E e \in Events, priority \in BOOLEAN : Wait(e, priority)
           \/ WakeupOne \/ WakeupAll
           \/ ProcessEvent \/ NextCycle \/ DrainEvent \/ ProcessEndEvent \/ DrainReturns
           \/ EndEventsReturn \/ ProcessAllEvents \/ HandlerReturns
           \/ \E timing, emulating \in BOOLEAN : Iterate(timing, emulating)
           \/ Sigint
           \/ UNCHANGED vars
  <1>1. Afters \subseteq Nat /\ 0 \in PeriodValues /\ \A e \in Events : Periods[e] \subseteq PeriodValues
    BY CallAssumption DEF PeriodValues
  <1>2. ASSUME NEW e \in Events \cup {None}, NEW a \in Afters,
               NEW p \in (IF e = None THEN {0} ELSE Periods[e]), NextEvent(e, a, p)
        PROVE  \E x \in Events \cup {None}, y \in Nat, z \in PeriodValues : NextEvent(x, y, z)
    <2>1. p \in PeriodValues
      BY <1>1
    <2> QED BY <1>1, <1>2, <2>1
  <1>3. ASSUME NEW e \in Events, NEW r \in Events \cup {None}, NEW a \in Afters,
               NEW p \in Periods[e], Call(e, r, a, p)
        PROVE  \E x \in Events, s \in Events \cup {None}, y \in Nat, z \in PeriodValues : Call(x, s, y, z)
    <2>1. p \in PeriodValues
      BY <1>1
    <2> QED BY <1>1, <1>3, <2>1
  <1>4. ASSUME NEW a \in Afters, Return(a)
        PROVE  \E y \in Nat : Return(y)
    BY <1>1, <1>4
  <1> QED BY <1>2, <1>3, <1>4 DEF Next, Calls, Engine, MainLoop

LEMMA ReleasedType ==
    ASSUME TypeOK
    PROVE  Released \in [Frames -> FrameFields]
  BY BlankType DEF TypeOK, Released

LEMMA QueuedType ==
    ASSUME NEW q \in Seq(Frames), NEW f \in Frames
    PROVE  <<f>> \o q \in Seq(Frames) /\ Append(q, f) \in Seq(Frames)
  OBVIOUS

LEMMA TypeStep ==
    ASSUME TypeOK, OnePlace, [Next]_vars
    PROVE  TypeOK'
  <1>0. /\ current_time \in Nat
        /\ heap \in Seq(Frames) /\ queue \in Seq(Frames) /\ stack \in Seq(Frames)
        /\ end_frames \in Seq(Frames)
        /\ frame \in [Frames -> FrameFields] /\ in_flight \in [Events -> Int]
        /\ phase \in Phases /\ num_events \in 0 .. MaxFinalization
        /\ waking \in BOOLEAN /\ signal \in BOOLEAN /\ finish \in BOOLEAN
        /\ loop_iterations \in 0 .. 1 /\ calls \in 0 .. MaxCalls
    BY DEF TypeOK, Phases
  <1>a. MaxCalls \in Nat /\ MaxFinalization \in Nat /\ MaxFinalization >= 1 /\ None \notin Frames
    BY CallAssumption
  <1>b. Budget => calls' \in 0 .. MaxCalls
    BY <1>0, <1>a DEF Budget
  <1>c. stack # <<>> => current_frame \in Frames /\ Tail(stack) \in Seq(Frames)
    BY CurrentFrameType
  <1>d. ASSUME /\ current_time' \in Nat
               /\ heap' \in Seq(Frames) /\ queue' \in Seq(Frames) /\ stack' \in Seq(Frames)
               /\ end_frames' \in Seq(Frames)
               /\ frame' \in [Frames -> FrameFields] /\ in_flight' \in [Events -> Int]
               /\ phase' \in Phases /\ num_events' \in 0 .. MaxFinalization
               /\ waking' \in BOOLEAN /\ signal' \in BOOLEAN /\ finish' \in BOOLEAN
               /\ loop_iterations' \in 0 .. 1 /\ calls' \in 0 .. MaxCalls
        PROVE  TypeOK'
    BY <1>d DEF TypeOK, Phases
  <1>1. ASSUME NEW e \in Events \cup {None}, NEW a \in Nat, NEW p \in PeriodValues, NextEvent(e, a, p)
        PROVE  TypeOK'
    <2>1. PICK f \in Frames : Schedule(e, f, a, p, frame)
      BY <1>1 DEF NextEvent
    <2>2. /\ heap' \in Seq(Frames) /\ frame' \in [Frames -> FrameFields]
          /\ in_flight' \in [Events -> Int] /\ phase' \in Phases
      BY <1>0, <2>1, ScheduleType
    <2>3. calls' \in 0 .. MaxCalls
      BY <1>0, <1>1, <1>b DEF NextEvent
    <2> QED BY <1>0, <1>1, <1>d, <2>2, <2>3 DEF NextEvent
  <1>2. ASSUME NEW e \in Events, NEW r \in Events \cup {None}, NEW a \in Nat, NEW p \in PeriodValues,
               Call(e, r, a, p)
        PROVE  TypeOK'
    <2>1. PICK f \in Frames :
            Schedule(e, f, a, p, [frame EXCEPT ![f].return_event = r, ![f].parent = current_frame])
      BY <1>2 DEF Call
    <2>2. [frame EXCEPT ![f].return_event = r, ![f].parent = current_frame] \in [Frames -> FrameFields]
      BY <1>0, WrittenType, CurrentFrameType
    <2>3. /\ heap' \in Seq(Frames) /\ frame' \in [Frames -> FrameFields]
          /\ in_flight' \in [Events -> Int] /\ phase' \in Phases
      BY <2>1, <2>2, ScheduleType
    <2> QED BY <1>0, <1>2, <1>b, <1>d, <2>3 DEF Call
  <1>3. ASSUME NEW a \in Nat, Return(a)
        PROVE  TypeOK'
    <2>1. stack # <<>>
      BY <1>3 DEF Return, InHandler
    <2>2. frame[current_frame].return_event \in Events \cup {None}
          /\ frame[current_frame].parent \in Frames \cup {None}
      BY <1>0, <1>c, <2>1, FieldsType
    <2>3. 0 \in PeriodValues
      BY DEF PeriodValues
    <2>4. Schedule(frame[current_frame].return_event, frame[current_frame].parent, a, 0, frame)
      BY <1>3 DEF Return
    <2>5. /\ heap' \in Seq(Frames) /\ frame' \in [Frames -> FrameFields]
          /\ in_flight' \in [Events -> Int] /\ phase' \in Phases
      BY <1>0, <2>2, <2>3, <2>4, ScheduleType
    <2> QED BY <1>0, <1>3, <1>b, <1>d, <2>5 DEF Return
  <1>4. ASSUME NEW r \in Events \cup {None}, Execute(r)
        PROVE  TypeOK'
    <2>1. PICK f \in Frames :
            /\ frame' = [frame EXCEPT ![f].parent = current_frame, ![f].return_event = r]
            /\ stack' = <<f>> \o stack
      BY <1>4 DEF Execute
    <2>2. frame' \in [Frames -> FrameFields]
      BY <1>0, <2>1, WrittenType, CurrentFrameType
    <2>3. stack' \in Seq(Frames)
      BY <1>0, <2>1
    <2> QED BY <1>0, <1>4, <1>b, <1>d, <2>2, <2>3 DEF Execute
  <1>5. ASSUME NEW e \in Events, EndEvent(e)
        PROVE  TypeOK'
    <2>1. PICK f \in Frames :
            /\ frame' = [frame EXCEPT ![f].event = e]
            /\ end_frames' = Append(end_frames, f)
      BY <1>5 DEF EndEvent
    <2>2. frame' \in [Frames -> FrameFields]
      BY <1>0, <2>1, WrittenType, CurrentFrameType
    <2>3. end_frames' \in Seq(Frames)
      BY <1>0, <2>1
    <2> QED BY <1>0, <1>5, <1>b, <1>d, <2>2, <2>3 DEF EndEvent
  <1>6. ASSUME NEW e \in Events, NEW priority \in BOOLEAN, Wait(e, priority)
        PROVE  TypeOK'
    <2>0. stack # <<>> /\ current_frame \in Frames
      BY <1>6, <1>c DEF Wait, InHandler
    <2>1. CASE InHeap(current_frame) \/ InQueue(current_frame)
      BY <1>0, <1>6, <1>b, <1>d, <2>1 DEF Wait, Panic, Phases
    <2>2. CASE ~(InHeap(current_frame) \/ InQueue(current_frame))
      <3>0. frame' = [frame EXCEPT ![current_frame].wakeup_event = e]
        BY <1>6, <2>2 DEF Wait
      <3>1. frame' \in [Frames -> FrameFields]
        BY <1>0, <2>0, <3>0, WrittenType
      <3>2. queue' = <<current_frame>> \o queue \/ queue' = Append(queue, current_frame)
        BY <1>6, <2>2 DEF Wait
      <3>3. queue' \in Seq(Frames)
        BY <1>0, <2>0, <3>2, QueuedType
      <3> QED BY <1>0, <1>6, <1>b, <1>d, <2>2, <3>1, <3>3 DEF Wait
    <2> QED BY <2>1, <2>2
  <1>7. ASSUME WakeupOne
        PROVE  TypeOK'
    <2>1. CASE queue = <<>>
      BY <1>0, <1>7, <1>b, <1>d, <2>1 DEF WakeupOne, Panic, Phases
    <2>2. CASE queue # <<>>
      <3>1. PopAndSchedule
        BY <1>7, <2>2 DEF WakeupOne
      <3>2. /\ queue' \in Seq(Frames) /\ heap' \in Seq(Frames)
            /\ frame' \in [Frames -> FrameFields] /\ in_flight' \in [Events -> Int]
            /\ phase' = phase
        BY <2>2, <3>1, PopAndScheduleType
      <3> QED BY <1>0, <1>7, <1>b, <1>d, <3>2 DEF WakeupOne
    <2> QED BY <2>1, <2>2
  <1>8. ASSUME WakeupAll
        PROVE  TypeOK'
    <2>2. /\ queue' \in Seq(Frames) /\ heap' \in Seq(Frames)
          /\ frame' \in [Frames -> FrameFields] /\ in_flight' \in [Events -> Int]
          /\ phase' = phase
      BY <1>8, PopAndScheduleType DEF WakeupAll
    <2>3. calls' \in 0 .. MaxCalls /\ waking' \in BOOLEAN
      BY <1>0, <1>8, <1>b DEF WakeupAll
    <2> QED BY <1>0, <1>8, <1>d, <2>2, <2>3 DEF WakeupAll
  <1>9. ASSUME heap # <<>>, PopHeap
        PROVE  Head(heap) \in Frames /\ heap' \in Seq(Frames) /\ stack' \in Seq(Frames)
    <2>1. Head(heap) \in Frames /\ Tail(heap) \in Seq(Frames)
      BY <1>0, <1>9
    <2> QED BY <1>9, <2>1 DEF PopHeap
  <1>10. ASSUME ProcessEvent
         PROVE  TypeOK'
    <2>1. heap' \in Seq(Frames) /\ stack' \in Seq(Frames)
      BY <1>9, <1>10 DEF ProcessEvent
    <2>2. in_flight' \in [Events -> Int]
      <3> DEFINE e == frame[Head(heap)].event
      <3>1. in_flight' = [in_flight EXCEPT ![e] = in_flight[e] - 1]
        BY <1>10 DEF ProcessEvent
      <3> HIDE DEF e
      <3>2. \A x \in Events : [in_flight EXCEPT ![e] = in_flight[e] - 1][x] \in Int
        BY <1>0
      <3> QED BY <1>0, <3>1, <3>2
    <2> QED BY <1>0, <1>10, <1>d, <2>1, <2>2 DEF ProcessEvent
  <1>11. ASSUME NextCycle
         PROVE  TypeOK'
    <2>1. current_time' \in Nat
      BY <1>0, <1>11, ShortestCycleTimeIsShortest DEF NextCycle
    <2> QED BY <1>0, <1>11, <1>d, <2>1 DEF NextCycle, Phases
  <1>12. ASSUME DrainEvent
         PROVE  TypeOK'
    <2>1. Head(heap) \in Frames /\ heap' \in Seq(Frames) /\ stack' \in Seq(Frames)
      BY <1>9, <1>12 DEF DrainEvent
    <2>2. current_time' \in Nat
      BY <1>0, <1>12, <2>1, FieldsType DEF DrainEvent
    <2>3. num_events' \in 0 .. MaxFinalization
      BY <1>0, <1>12, <1>a DEF DrainEvent, DrainGivesUp
    <2> QED BY <1>0, <1>12, <1>d, <2>1, <2>2, <2>3 DEF DrainEvent
  <1>13. ASSUME ProcessEndEvent
         PROVE  TypeOK'
    <2>1. Head(end_frames) \in Frames /\ Tail(end_frames) \in Seq(Frames)
      BY <1>0, <1>13 DEF ProcessEndEvent
    <2>2. stack' \in Seq(Frames) /\ end_frames' \in Seq(Frames)
      BY <1>13, <2>1 DEF ProcessEndEvent
    <2> QED BY <1>0, <1>13, <1>d, <2>2 DEF ProcessEndEvent
  <1>14. ASSUME DrainReturns
         PROVE  TypeOK'
    BY <1>0, <1>14, <1>d DEF DrainReturns, Phases
  <1>15. ASSUME EndEventsReturn
         PROVE  TypeOK'
    BY <1>0, <1>15, <1>a, <1>d DEF EndEventsReturn, Phases
  <1>16. ASSUME ProcessAllEvents
         PROVE  TypeOK'
    BY <1>0, <1>16, <1>a, <1>d DEF ProcessAllEvents, Phases
  <1>17. ASSUME HandlerReturns
         PROVE  TypeOK'
    <2>0. current_frame \in Frames /\ stack' \in Seq(Frames)
      BY <1>17, <1>c DEF HandlerReturns, InHandler
    <2>1. CASE frame' = Released /\ UNCHANGED <<heap, in_flight, phase>>
      BY <1>0, <1>17, <1>d, <2>0, <2>1, ReleasedType DEF HandlerReturns
    <2>2. CASE Schedule(frame[current_frame].event, current_frame, frame[current_frame].period,
                        frame[current_frame].period, frame)
      <3>1. /\ frame[current_frame].event \in Events \cup {None}
            /\ frame[current_frame].period \in PeriodValues
            /\ frame[current_frame].period \in Nat
        BY <1>0, <2>0, FieldsType
      <3>2. /\ heap' \in Seq(Frames) /\ frame' \in [Frames -> FrameFields]
            /\ in_flight' \in [Events -> Int] /\ phase' \in Phases
        BY <1>0, <2>0, <2>2, <3>1, ScheduleType
      <3> QED BY <1>0, <1>17, <1>d, <2>0, <3>2 DEF HandlerReturns
    <2> QED BY <1>17, <2>1, <2>2 DEF HandlerReturns
  <1>18. ASSUME NEW timing \in BOOLEAN, NEW emulating \in BOOLEAN, Iterate(timing, emulating)
         PROVE  TypeOK'
    <2>1. loop_iterations' \in 0 .. 1
      BY <1>0, <1>18 DEF Iterate
    <2>2. phase' \in Phases /\ finish' \in BOOLEAN
      BY <1>0, <1>18 DEF Iterate, Phases
    <2> QED BY <1>0, <1>18, <1>d, <2>1, <2>2 DEF Iterate
  <1>19. ASSUME Sigint
         PROVE  TypeOK'
    BY <1>0, <1>19, <1>d DEF Sigint, Phases
  <1>20. ASSUME UNCHANGED vars
         PROVE  TypeOK'
    BY <1>0, <1>20, <1>d DEF vars
  <1> QED BY StepIsAnAction, <1>1, <1>2, <1>3, <1>4, <1>5, <1>6, <1>7, <1>8, <1>10, <1>11, <1>12,
             <1>13, <1>14, <1>15, <1>16, <1>17, <1>18, <1>19, <1>20

-----------------------------------------------------------------------------
(* The heap in the main loop: the frames are sorted, the counters exact,   *)
(* and no frame is left behind in a cycle of its domain that is over       *)

InLoop     == phase \in {"arch", "events"}
CycleOf(e) == CycleTime(DomainOf[e])

\* The time t is the start of a cycle of e's domain, and not of one that is over.
NotOver(e, t) ==
    /\ t = (t \div CycleOf(e)) * CycleOf(e)
    /\ t \div CycleOf(e) >= current_time \div CycleOf(e)

HeapEvents == \A f \in Frames : InHeap(f) => frame[f].event \in Events
Timely     == InLoop => \A f \in Frames : InHeap(f) => NotOver(frame[f].event, frame[f].time)

HeapInv ==
    /\ Once(heap) /\ SortedBy(heap, frame)
    /\ HeapEvents /\ Timely /\ InFlightIsScheduled

LEMMA CycleOfType ==
    ASSUME NEW e \in Events
    PROVE  CycleOf(e) \in Nat /\ CycleOf(e) >= 1 /\ ShortestCycleTime \in Nat
           /\ ShortestCycleTime <= CycleOf(e)
  <1>1. DomainOf[e] \in Domains
    BY DomainAssumption
  <1> QED BY <1>1, CycleTimeType, ShortestCycleTimeIsShortest DEF CycleOf

LEMMA QuotientOfMultiple ==
    ASSUME NEW n \in Nat, NEW c \in Nat, c >= 1
    PROVE  (n * c) \div c = n /\ n * c \in Nat
  OBVIOUS

LEMMA QuotientIsMonotone ==
    ASSUME NEW t \in Nat, NEW u \in Nat, t <= u, NEW c \in Nat, c >= 1
    PROVE  t \div c <= u \div c
  OBVIOUS

\* A time that Schedule computes starts a cycle.
LEMMA TimeOfIsNotOver ==
    ASSUME TypeOK, NEW e \in Events, NEW after \in Nat
    PROVE  NotOver(e, TimeOf(e, after))
  <1> DEFINE c == CycleOf(e)
             q == current_time \div c
  <1>1. c \in Nat /\ c >= 1 /\ current_time \in Nat
    BY CycleOfType DEF TypeOK
  <1>2. q \in Nat
    BY <1>1, RoundingType
  <1>3. TimeOf(e, after) = q * c + c * after
    BY DEF TimeOf, CycleOf
  <1> HIDE DEF c, q
  <1>4. q * c + c * after = (q + after) * c
    BY <1>1, <1>2
  <1>5. q + after \in Nat
    BY <1>2
  <1>6. ((q + after) * c) \div c = q + after
    BY <1>1, <1>5, QuotientOfMultiple
  <1>7. TimeOf(e, after) \div c = q + after
    BY <1>3, <1>4, <1>6
  <1> QED BY <1>2, <1>3, <1>4, <1>7 DEF NotOver, c, q

\* When all the frames of a cycle have run, one step of the engine's time does
\* not reach past the next cycle of any domain.
LEMMA OneStepIsNotTooFar ==
    ASSUME NEW t \in Nat, NEW now \in Nat, NEW c \in Nat, c >= 1, NEW s \in Nat, s <= c,
           t = (t \div c) * c, t > now
    PROVE  t \div c >= (now + s) \div c
  <1> DEFINE n == t \div c
             m == now \div c
  <1>1. n \in Nat /\ m \in Nat /\ m * c <= now /\ now < m * c + c
    BY RoundingType
  <1>2. t = n * c
    OBVIOUS
  <1> HIDE DEF n, m
  <1>3. n * c > m * c
    BY <1>1, <1>2
  <1>4. n >= m + 1
    BY <1>1, <1>3
  <1>5. now + s < (m + 2) * c
    BY <1>1
  <1>6. (now + s) \div c <= m + 1
    BY <1>1, <1>5
  <1> QED BY <1>1, <1>4, <1>6 DEF n

\* A step that leaves the heap, its frames and the time alone.
LEMMA HeapKept ==
    ASSUME TypeOK, TypeOK', HeapInv, UNCHANGED heap,
           \A f \in Frames : InHeap(f) => /\ frame'[f].event = frame[f].event
                                          /\ frame'[f].time = frame[f].time,
           InLoop' => InLoop /\ UNCHANGED <<in_flight, current_time>>
    PROVE  HeapInv'
  <1>1. heap \in Seq(Frames)
    BY DEF TypeOK
  <1>2. \A i \in DOMAIN heap : InHeap(heap[i]) /\ heap[i] \in Frames
    BY <1>1 DEF InHeap, InSeq
  <1>3. \A f \in Frames : InHeap(f)' <=> InHeap(f)
    BY DEF InHeap
  <1>4. Once(heap)'
    BY DEF HeapInv, Once
  <1>5. SortedBy(heap, frame)'
    BY <1>2 DEF HeapInv, SortedBy
  <1>6. HeapEvents'
    BY <1>3 DEF HeapInv, HeapEvents
  <1>7. Timely'
    BY <1>3 DEF HeapInv, Timely, NotOver
  <1>8. InFlightIsScheduled'
    <2>1. \A e \in Events : Scheduled(e)' = Scheduled(e)
      BY <1>2 DEF Scheduled
    <2> QED BY <2>1 DEF HeapInv, InFlightIsScheduled, InLoop
  <1> QED BY <1>4, <1>5, <1>6, <1>7, <1>8 DEF HeapInv

\* A step that puts a frame into the heap for an event.
LEMMA HeapInserted ==
    ASSUME TypeOK, TypeOK', HeapInv, NEW f \in Frames, NEW e \in Events, NEW after \in Nat,
           ~InHeap(f), heap' = HeapInsert(heap, f, frame'),
           \A g \in Frames \ {f} : /\ frame'[g].event = frame[g].event
                                   /\ frame'[g].time = frame[g].time,
           frame'[f].event = e, frame'[f].time = TimeOf(e, after),
           in_flight' = incInFlight(e),
           UNCHANGED current_time, InLoop' => InLoop
    PROVE  HeapInv' /\ \A g \in Frames : InHeap(g)' <=> InHeap(g) \/ g = f
  <1>1. heap \in Seq(Frames) /\ frame' \in [Frames -> FrameFields] /\ in_flight \in [Events -> Int]
    BY DEF TypeOK
  <1>2. \A i \in DOMAIN heap : InHeap(heap[i]) /\ heap[i] \in Frames /\ heap[i] # f
    BY <1>1 DEF InHeap, InSeq
  <1>3. \A g \in Frames : InHeap(g)' <=> InHeap(g) \/ g = f
    BY <1>1, HeapInsertHolds DEF InHeap
  <1>4. Once(heap)'
    BY <1>1, HeapInsertHolds DEF HeapInv, InHeap, Once
  <1>5. SortedBy(heap, frame)'
    <2>1. SortedBy(heap, frame')
      BY <1>2 DEF HeapInv, SortedBy
    <2>2. \A g \in Frames : frame'[g].time \in Nat
      BY <1>1, FieldsType
    <2>3. SortedBy(HeapInsert(heap, f, frame'), frame')
      BY <1>1, <2>1, <2>2, HeapInsertSorts
    <2> QED BY <2>3 DEF SortedBy
  <1>6. HeapEvents'
    BY <1>3 DEF HeapInv, HeapEvents
  <1>7. Timely'
    <2>1. NotOver(e, TimeOf(e, after))
      BY TimeOfIsNotOver
    <2>2. ASSUME InLoop', NEW g \in Frames, InHeap(g)'
          PROVE  NotOver(frame[g].event, frame[g].time)'
      <3>1. CASE g = f
        BY <2>1, <3>1 DEF NotOver
      <3>2. CASE g # f
        <4>1. NotOver(frame[g].event, frame[g].time)
          BY <1>3, <2>2, <3>2 DEF HeapInv, Timely
        <4> QED BY <3>2, <4>1 DEF NotOver
      <3> QED BY <3>1, <3>2
    <2> QED BY <2>2 DEF Timely
  <1>8. InFlightIsScheduled'
    <2> DEFINE F(x) == FramesOf(heap, frame, x)
               G(x) == FramesOf(heap', frame', x)
    <2>1. ASSUME InLoop', NEW x \in Events
          PROVE  in_flight'[x] = Cardinality(Scheduled(x)')
      <3>1. in_flight[x] = Cardinality(Scheduled(x)) /\ in_flight[x] \in Int
        BY <1>1, <2>1 DEF HeapInv, InFlightIsScheduled, InLoop
      <3>2. IsFiniteSet(F(x)) /\ Cardinality(Scheduled(x)) = Cardinality(F(x))
        <4>1. Scheduled(x) = Places(heap, frame, x)
          BY DEF Scheduled, Places
        <4> QED BY <1>1, <4>1, PlacesAreFrames DEF HeapInv
      <3>3. Cardinality(Scheduled(x)') = Cardinality(G(x))
        <4>1. heap' \in Seq(Frames) /\ Once(heap')
          BY <1>4 DEF TypeOK, Once
        <4>2. Scheduled(x)' = Places(heap', frame', x)
          BY DEF Scheduled, Places
        <4> QED BY <4>1, <4>2, PlacesAreFrames
      <3>4. CASE x = e
        <4>1. G(x) = F(x) \cup {f}
          BY <1>3, <3>4 DEF InHeap, FramesOf
        <4>2. f \notin F(x)
          BY DEF InHeap, FramesOf
        <4> HIDE DEF F, G
        <4>3. Cardinality(G(x)) = Cardinality(F(x)) + 1
          BY <3>2, <4>1, <4>2, FS_AddElement
        <4>4. in_flight'[x] = in_flight[x] + 1
          BY <2>1, <3>4, IncInFlightFacts DEF InLoop, Draining
        <4> QED BY <3>1, <3>2, <3>3, <4>3, <4>4
      <3>5. CASE x # e
        <4>1. G(x) = F(x)
          BY <1>3, <3>5 DEF InHeap, FramesOf
        <4>2. in_flight'[x] = in_flight[x]
          BY <3>5, IncInFlightFacts
        <4> QED BY <3>1, <3>2, <3>3, <4>1, <4>2
      <3> QED BY <3>4, <3>5
    <2> QED BY <2>1 DEF InFlightIsScheduled, InLoop
  <1> QED BY <1>3, <1>4, <1>5, <1>6, <1>7, <1>8 DEF HeapInv

LEMMA TailHolds ==
    ASSUME NEW s \in Seq(Frames), s # <<>>, Once(s)
    PROVE  /\ Head(s) \in Frames /\ InSeq(Head(s), s) /\ Head(s) = s[1]
           /\ Tail(s) \in Seq(Frames) /\ Once(Tail(s))
           /\ \A g \in Frames : InSeq(g, Tail(s)) <=> InSeq(g, s) /\ g # Head(s)
           /\ Len(Tail(s)) = Len(s) - 1
           /\ \A i \in DOMAIN Tail(s) : i + 1 \in DOMAIN s /\ Tail(s)[i] = s[i + 1]
  <1>1. Len(s) \in Nat /\ Len(s) >= 1
    OBVIOUS
  <1>2. Head(s) \in Frames /\ Head(s) = s[1] /\ 1 \in DOMAIN s
    BY <1>1
  <1>3. Tail(s) \in Seq(Frames) /\ Len(Tail(s)) = Len(s) - 1
    BY <1>1
  <1>4. \A i \in DOMAIN Tail(s) : i + 1 \in DOMAIN s /\ Tail(s)[i] = s[i + 1]
    BY <1>1, <1>3
  <1>5. Once(Tail(s))
    <2> SUFFICES ASSUME NEW i \in DOMAIN Tail(s), NEW j \in DOMAIN Tail(s), Tail(s)[i] = Tail(s)[j]
                 PROVE  i = j
      BY DEF Once
    <2>1. i \in Int /\ j \in Int
      BY <1>3
    <2>2. i + 1 = j + 1
      BY <1>4 DEF Once
    <2> QED BY <2>1, <2>2
  <1>6. ASSUME NEW g \in Frames, InSeq(g, Tail(s))
        PROVE  InSeq(g, s) /\ g # Head(s)
    <2>1. PICK i \in DOMAIN Tail(s) : Tail(s)[i] = g
      BY <1>6 DEF InSeq
    <2>2. i + 1 \in DOMAIN s /\ s[i + 1] = g /\ i + 1 # 1
      BY <1>3, <1>4, <2>1
    <2> QED BY <1>2, <2>2 DEF InSeq, Once
  <1>7. ASSUME NEW g \in Frames, InSeq(g, s), g # Head(s)
        PROVE  InSeq(g, Tail(s))
    <2>1. PICK i \in DOMAIN s : s[i] = g
      BY <1>7 DEF InSeq
    <2>2. i - 1 \in DOMAIN Tail(s) /\ Tail(s)[i - 1] = g
      BY <1>1, <1>2, <1>3, <1>7, <2>1
    <2> QED BY <2>2 DEF InSeq
  <1>8. InSeq(Head(s), s)
    BY <1>2 DEF InSeq
  <1> QED BY <1>2, <1>3, <1>4, <1>5, <1>6, <1>7, <1>8

\* A step that takes the first frame off the heap and, in the main loop, counts it.
LEMMA HeapPopped ==
    ASSUME TypeOK, TypeOK', HeapInv, heap # <<>>, heap' = Tail(heap), UNCHANGED frame,
           InLoop' => /\ InLoop /\ UNCHANGED current_time
                      /\ in_flight' = [in_flight EXCEPT ![frame[Head(heap)].event] = @ - 1]
    PROVE  HeapInv' /\ \A g \in Frames : InHeap(g)' <=> InHeap(g) /\ g # Head(heap)
  <1>1. heap \in Seq(Frames) /\ heap' \in Seq(Frames) /\ in_flight \in [Events -> Int]
    BY DEF TypeOK
  <1>2. /\ Head(heap) \in Frames /\ InHeap(Head(heap)) /\ Once(heap')
        /\ \A g \in Frames : InHeap(g)' <=> InHeap(g) /\ g # Head(heap)
        /\ \A i \in DOMAIN heap' : i + 1 \in DOMAIN heap /\ heap'[i] = heap[i + 1]
    BY <1>1, TailHolds DEF HeapInv, InHeap
  <1>3. Once(heap)'
    BY <1>2 DEF Once
  <1>4. SortedBy(heap, frame)'
    <2> SUFFICES ASSUME NEW i \in DOMAIN heap', NEW j \in DOMAIN heap', i <= j
                 PROVE  frame[heap'[i]].time <= frame[heap'[j]].time
      BY DEF SortedBy
    <2>1. i \in Int /\ j \in Int
      BY <1>1
    <2>2. i + 1 <= j + 1 /\ i + 1 \in DOMAIN heap /\ j + 1 \in DOMAIN heap
      BY <1>2, <2>1
    <2>3. frame[heap[i + 1]].time <= frame[heap[j + 1]].time
      BY <2>2 DEF HeapInv, SortedBy
    <2> QED BY <1>2, <2>3
  <1>5. HeapEvents'
    BY <1>2 DEF HeapInv, HeapEvents
  <1>6. Timely'
    BY <1>2 DEF HeapInv, Timely, NotOver
  <1>7. InFlightIsScheduled'
    <2> DEFINE F(x) == FramesOf(heap, frame, x)
               G(x) == FramesOf(heap', frame, x)
               e == frame[Head(heap)].event
    <2>0. e \in Events
      BY <1>2 DEF HeapInv, HeapEvents
    <2>1. ASSUME InLoop', NEW x \in Events
          PROVE  in_flight'[x] = Cardinality(Scheduled(x)')
      <3>0. in_flight' = [in_flight EXCEPT ![e] = in_flight[e] - 1]
        BY <2>1
      <3>1. in_flight[x] = Cardinality(Scheduled(x)) /\ in_flight[x] \in Int
        BY <1>1, <2>1 DEF HeapInv, InFlightIsScheduled, InLoop
      <3>2. IsFiniteSet(F(x)) /\ Cardinality(Scheduled(x)) = Cardinality(F(x))
        <4>1. Scheduled(x) = Places(heap, frame, x)
          BY DEF Scheduled, Places
        <4> QED BY <1>1, <4>1, PlacesAreFrames DEF HeapInv
      <3>3. Cardinality(Scheduled(x)') = Cardinality(G(x))
        <4>1. Scheduled(x)' = Places(heap', frame, x)
          BY DEF Scheduled, Places
        <4>2. heap' \in Seq(Frames) /\ Once(heap')
          BY <1>1, <1>2
        <4>3. \A h \in Seq(Frames) : Once(h) => Cardinality(Places(h, frame, x)) = Cardinality(FramesOf(h, frame, x))
          BY PlacesAreFrames
        <4> QED BY <4>1, <4>2, <4>3
      <3>4. CASE x = e
        <4>1. G(x) = F(x) \ {Head(heap)}
          BY <1>2 DEF InHeap, FramesOf
        <4>2. Head(heap) \in F(x)
          BY <1>2, <3>4 DEF InHeap, FramesOf
        <4> HIDE DEF F, G, e
        <4>3. Cardinality(G(x)) = Cardinality(F(x)) - 1
          BY <3>2, <4>1, <4>2, FS_RemoveElement
        <4>4. in_flight'[x] = in_flight[x] - 1
          BY <1>1, <3>0, <3>4
        <4> QED BY <3>1, <3>2, <3>3, <4>3, <4>4
      <3>5. CASE x # e
        <4>1. G(x) = F(x)
          BY <1>2, <3>5 DEF InHeap, FramesOf
        <4>2. in_flight'[x] = in_flight[x]
          BY <1>1, <3>0, <3>5
        <4> QED BY <3>1, <3>2, <3>3, <4>1, <4>2
      <3> QED BY <3>4, <3>5
    <2> QED BY <2>1 DEF InFlightIsScheduled, InLoop
  <1> QED BY <1>2, <1>3, <1>4, <1>5, <1>6, <1>7 DEF HeapInv

-----------------------------------------------------------------------------
(* The wait queue                                                          *)

\* A step that leaves the queue alone and puts none of its frames into the heap.
LEMMA QueueKept ==
    ASSUME OnePlace, UNCHANGED queue, Once(heap)',
           \A f \in Frames : InHeap(f)' => ~InQueue(f),
           \A f \in Frames : \/ frame'[f].wakeup_event = frame[f].wakeup_event
                             \/ ~InQueue(f) /\ frame'[f].wakeup_event = None
    PROVE  OnePlace'
  <1>1. \A f \in Frames : InQueue(f)' <=> InQueue(f)
    BY DEF InQueue
  <1>2. \A f \in Frames : InQueue(f)' <=> frame'[f].wakeup_event # None
    BY <1>1 DEF OnePlace
  <1>3. \A f \in Frames : ~(InHeap(f)' /\ InQueue(f)')
    BY <1>1
  <1>4. \A i, j \in DOMAIN heap' : heap'[i] = heap'[j] => i = j
    BY DEF Once
  <1>5. \A i, j \in DOMAIN queue' : queue'[i] = queue'[j] => i = j
    BY DEF OnePlace
  <1> QED BY <1>2, <1>3, <1>4, <1>5 DEF OnePlace

\* Engine::Schedule, called with frames the caller has written to before.
LEMMA ScheduleKeeps ==
    ASSUME TypeOK, TypeOK', OnePlace, HeapInv, UNCHANGED <<current_time, queue>>,
           NEW e \in Events \cup {None}, NEW f \in Frames \cup {None}, NEW after \in Nat,
           NEW period \in PeriodValues, NEW fr \in [Frames -> FrameFields],
           Schedule(e, f, after, period, fr),
           \A g \in Frames : fr[g].wakeup_event = frame[g].wakeup_event,
           \A g \in Frames \ {f} : fr[g].event = frame[g].event /\ fr[g].time = frame[g].time,
           InHeap(f) => fr[f].event = frame[f].event /\ fr[f].time = frame[f].time
    PROVE  OnePlace' /\ HeapInv'
  <1>1. CASE UNCHANGED <<heap, in_flight>> /\ frame' = fr /\ phase' \in {phase, "panic", "assert"}
    <2>1. HeapInv'
      <3>1. \A g \in Frames : InHeap(g) => /\ frame'[g].event = frame[g].event
                                           /\ frame'[g].time = frame[g].time
        BY <1>1
      <3>2. InLoop' => InLoop /\ UNCHANGED <<in_flight, current_time>>
        BY <1>1 DEF InLoop
      <3> QED BY <1>1, <3>1, <3>2, HeapKept
    <2>2. \A g \in Frames : InHeap(g)' => ~InQueue(g)
      BY <1>1 DEF InHeap, OnePlace
    <2> QED BY <1>1, <2>1, <2>2, QueueKept DEF HeapInv
  <1>2. CASE /\ f # None /\ e # None /\ ~InQueue(f) /\ ~InHeap(f)
             /\ frame' = [fr EXCEPT ![f].event = e, ![f].time = TimeOf(e, after),
                                    ![f].period = period]
             /\ heap' = HeapInsert(heap, f, frame')
             /\ in_flight' = incInFlight(e)
             /\ UNCHANGED phase
    <2>1. f \in Frames /\ e \in Events /\ fr[f] \in FrameFields
      BY <1>2
    <2>2. frame'[f].event = e /\ frame'[f].time = TimeOf(e, after)
          /\ frame'[f].wakeup_event = fr[f].wakeup_event
      BY <1>2, <2>1 DEF FrameFields
    <2>3. \A g \in Frames \ {f} : frame'[g] = fr[g]
      BY <1>2, <2>1
    <2>4. HeapInv' /\ \A g \in Frames : InHeap(g)' <=> InHeap(g) \/ g = f
      <3>1. InLoop' => InLoop
        BY <1>2 DEF InLoop
      <3>2. \A g \in Frames \ {f} : /\ frame'[g].event = frame[g].event
                                    /\ frame'[g].time = frame[g].time
        BY <2>3
      <3>3. /\ ~InHeap(f) /\ heap' = HeapInsert(heap, f, frame')
            /\ in_flight' = incInFlight(e) /\ UNCHANGED current_time
        BY <1>2
      <3>4. frame'[f].event = e /\ frame'[f].time = TimeOf(e, after)
        BY <2>2
      <3> QED BY <2>1, <3>1, <3>2, <3>3, <3>4, HeapInserted
    <2>5. \A g \in Frames : InHeap(g)' => ~InQueue(g)
      BY <1>2, <2>4 DEF OnePlace
    <2>6. \A g \in Frames : frame'[g].wakeup_event = frame[g].wakeup_event
      BY <2>2, <2>3
    <2> QED BY <2>4, <2>5, <2>6, QueueKept DEF HeapInv
  <1> QED BY <1>1, <1>2 DEF Schedule, Panic

\* Queue::WakeupOne on a queue that is not empty.
LEMMA PopAndScheduleKeeps ==
    ASSUME TypeOK, TypeOK', OnePlace, HeapInv, UNCHANGED current_time, queue # <<>>, PopAndSchedule
    PROVE  OnePlace' /\ HeapInv'
  <1> DEFINE f == Head(queue)
             e == frame[f].wakeup_event
  <1>1. f \in Frames /\ InQueue(f) /\ e \in Events /\ ~InHeap(f) /\ UNCHANGED phase
    BY PopAndScheduleType
  <1>2. /\ queue' = Tail(queue)
        /\ frame' = [frame EXCEPT ![f].wakeup_event = None, ![f].event = e,
                                  ![f].time = TimeOf(e, 0), ![f].period = 0]
        /\ heap' = HeapInsert(heap, f, frame')
        /\ in_flight' = incInFlight(e)
    BY <1>1 DEF PopAndSchedule
  <1>3. queue \in Seq(Frames) /\ Once(queue) /\ frame \in [Frames -> FrameFields]
    BY DEF TypeOK, OnePlace, Once
  <1>4. Once(queue') /\ \A g \in Frames : InQueue(g)' <=> InQueue(g) /\ g # f
    BY <1>2, <1>3, TailHolds DEF InQueue
  <1> HIDE DEF f
  <1>5. frame'[f].event = e /\ frame'[f].time = TimeOf(e, 0) /\ frame'[f].wakeup_event = None
    <2>1. frame[f] \in FrameFields
      BY <1>1, <1>3
    <2> QED BY <1>1, <1>2, <1>3, <2>1 DEF FrameFields
  <1>6. \A g \in Frames \ {f} : frame'[g] = frame[g]
    BY <1>1, <1>2, <1>3
  <1>7. HeapInv' /\ \A g \in Frames : InHeap(g)' <=> InHeap(g) \/ g = f
    <2>1. InLoop' => InLoop
      BY <1>1 DEF InLoop
    <2>2. \A g \in Frames \ {f} : /\ frame'[g].event = frame[g].event
                                  /\ frame'[g].time = frame[g].time
      BY <1>6
    <2> HIDE DEF e
    <2> QED BY <1>1, <1>2, <1>5, <2>1, <2>2, HeapInserted
  <1>8. \A i, j \in DOMAIN heap' : heap'[i] = heap'[j] => i = j
    BY <1>7 DEF HeapInv, Once
  <1>9. \A i, j \in DOMAIN queue' : queue'[i] = queue'[j] => i = j
    BY <1>4 DEF Once
  <1>10. \A g \in Frames : ~(InHeap(g)' /\ InQueue(g)')
    BY <1>4, <1>7 DEF OnePlace
  <1>11. \A g \in Frames : InQueue(g)' <=> frame'[g].wakeup_event # None
    BY <1>4, <1>5, <1>6 DEF OnePlace
  <1> QED BY <1>7, <1>8, <1>9, <1>10, <1>11 DEF OnePlace

LEMMA QueuedHolds ==
    ASSUME NEW q \in Seq(Frames), Once(q), NEW f \in Frames, ~InSeq(f, q),
           NEW r, r = <<f>> \o q \/ r = Append(q, f)
    PROVE  Once(r) /\ \A g \in Frames : InSeq(g, r) <=> InSeq(g, q) \/ g = f
  <1>0. Len(q) \in Nat /\ DOMAIN q = 1 .. Len(q)
    OBVIOUS
  <1>1. CASE r = Append(q, f)
    <2>1. /\ DOMAIN r = 1 .. Len(q) + 1 /\ r[Len(q) + 1] = f
          /\ \A i \in 1 .. Len(q) : r[i] = q[i]
      BY <1>0, <1>1
    <2>2. Once(r)
      BY <1>0, <2>1 DEF Once, InSeq
    <2>3. ASSUME NEW g \in Frames
          PROVE  InSeq(g, r) <=> InSeq(g, q) \/ g = f
      BY <1>0, <2>1 DEF InSeq
    <2> QED BY <2>2, <2>3
  <1>2. CASE r = <<f>> \o q
    <2>0. <<f>> \in Seq(Frames) /\ Len(<<f>>) = 1
      OBVIOUS
    <2>1. DOMAIN r = 1 .. Len(q) + 1 /\ r[1] = f
      BY <1>0, <1>2, <2>0
    <2>2. \A i \in 1 .. Len(q) : r[i + 1] = q[i] /\ i + 1 \in DOMAIN r
      BY <1>0, <1>2, <2>0
    <2>3. \A i \in 1 .. Len(q) + 1 : i = 1 \/ (i - 1 \in 1 .. Len(q) /\ r[i] = q[i - 1])
      BY <1>0, <1>2, <2>0
    <2>4. Once(r)
      <3> SUFFICES ASSUME NEW i \in 1 .. Len(q) + 1, NEW j \in 1 .. Len(q) + 1, i < j, r[i] = r[j]
                   PROVE  FALSE
        BY <1>0, <2>1 DEF Once
      <3>1. r[j] = q[j - 1] /\ j - 1 \in DOMAIN q
        BY <1>0, <2>3
      <3>2. CASE i = 1
        BY <2>1, <3>1, <3>2 DEF InSeq
      <3>3. CASE i # 1
        <4>1. r[i] = q[i - 1] /\ i - 1 \in DOMAIN q
          BY <1>0, <2>3, <3>3
        <4>2. i - 1 = j - 1
          BY <3>1, <4>1 DEF Once
        <4> QED BY <4>2
      <3> QED BY <3>2, <3>3
    <2>5. ASSUME NEW g \in Frames, InSeq(g, r)
          PROVE  InSeq(g, q) \/ g = f
      BY <1>0, <2>1, <2>3, <2>5 DEF InSeq
    <2>6. ASSUME NEW g \in Frames, InSeq(g, q) \/ g = f
          PROVE  InSeq(g, r)
      <3>1. 1 \in DOMAIN r
        BY <1>0, <2>1
      <3> QED BY <1>0, <2>1, <2>2, <2>6, <3>1 DEF InSeq
    <2> QED BY <2>4, <2>5, <2>6
  <1> QED BY <1>1, <1>2

\* A step that touches neither the heap nor the queue, and of the frames only
\* fields of those that are in neither.
LEMMA BothKept ==
    ASSUME TypeOK, TypeOK', OnePlace, HeapInv, UNCHANGED <<heap, queue>>,
           \A f \in Frames : InHeap(f) => /\ frame'[f].event = frame[f].event
                                          /\ frame'[f].time = frame[f].time,
           \A f \in Frames : \/ frame'[f].wakeup_event = frame[f].wakeup_event
                             \/ ~InQueue(f) /\ frame'[f].wakeup_event = None,
           InLoop' => InLoop /\ UNCHANGED <<in_flight, current_time>>
    PROVE  OnePlace' /\ HeapInv'
  <1>1. HeapInv'
    BY HeapKept
  <1>2. \A f \in Frames : InHeap(f)' => ~InQueue(f)
    BY DEF InHeap, OnePlace
  <1> QED BY <1>1, <1>2, QueueKept DEF HeapInv

\* The frames of the heap and of the queue survive when a handler returns.
LEMMA ReleasedKeeps ==
    ASSUME TypeOK, NEW f \in Frames
    PROVE  /\ InHeap(f) \/ InQueue(f) \/ InSeq(f, Tail(stack)) => Released[f] = frame[f]
           /\ Released[f] = frame[f] \/ Released[f].wakeup_event = None
  <1>1. ASSUME InHeap(f) \/ InQueue(f) \/ InSeq(f, Tail(stack))
        PROVE  Released[f] = frame[f]
    <2>1. f \in Held
      BY <1>1 DEF Held
    <2>2. f \in Reachable
      BY <2>1 DEF Reachable
    <2> QED BY <2>2 DEF Released
  <1>2. Released[f] = frame[f] \/ Released[f] = Blank
    BY DEF Released
  <1> QED BY <1>1, <1>2 DEF Blank

LEMMA FreeFrame ==
    ASSUME NEW f \in Frames, Free(f)
    PROVE  /\ ~InHeap(f) /\ ~InQueue(f) /\ ~InSeq(f, stack) /\ frame[f] = Blank
           /\ frame[f].wakeup_event = None
  BY DEF Free, Blank

-----------------------------------------------------------------------------
(* The bookkeeping of frames and counters                                  *)

LEMMA BookkeepingStep ==
    ASSUME TypeOK, OnePlace, HeapInv, [Next]_vars
    PROVE  TypeOK' /\ OnePlace' /\ HeapInv'
  <1>0. TypeOK'
    BY TypeStep
  <1>a. /\ heap \in Seq(Frames) /\ queue \in Seq(Frames) /\ stack \in Seq(Frames)
        /\ frame \in [Frames -> FrameFields]
    BY DEF TypeOK
  <1>b. stack # <<>> => current_frame \in Frames
    BY CurrentFrameType
  <1>c. ASSUME UNCHANGED <<heap, queue, frame>>,
               InLoop' => InLoop /\ UNCHANGED <<in_flight, current_time>>
        PROVE  OnePlace' /\ HeapInv'
    BY <1>0, <1>c, BothKept
  <1>1. ASSUME NEW e \in Events \cup {None}, NEW a \in Nat, NEW p \in PeriodValues, NextEvent(e, a, p)
        PROVE  OnePlace' /\ HeapInv'
    <2>1. PICK f \in Frames : Schedule(e, f, a, p, frame)
      BY <1>1 DEF NextEvent
    <2>2. UNCHANGED <<current_time, queue>>
      BY <1>1 DEF NextEvent
    <2> QED BY <1>0, <1>a, <2>1, <2>2, ScheduleKeeps
  <1>2. ASSUME NEW e \in Events, NEW r \in Events \cup {None}, NEW a \in Nat, NEW p \in PeriodValues,
               Call(e, r, a, p)
        PROVE  OnePlace' /\ HeapInv'
    <2> DEFINE fr(f) == [frame EXCEPT ![f].return_event = r, ![f].parent = current_frame]
    <2>1. PICK f \in Frames : Free(f) /\ Schedule(e, f, a, p, fr(f))
      BY <1>2 DEF Call
    <2>2. UNCHANGED <<current_time, queue>>
      BY <1>2 DEF Call
    <2>3. fr(f) \in [Frames -> FrameFields]
      BY <1>a, WrittenType, CurrentFrameType
    <2>4. \A g \in Frames : fr(f)[g].wakeup_event = frame[g].wakeup_event
      BY <1>a DEF FrameFields
    <2>5. \A g \in Frames \ {f} : fr(f)[g] = frame[g]
      BY <1>a
    <2>6. ~InHeap(f)
      BY <2>1, FreeFrame
    <2> HIDE DEF fr
    <2> QED BY <1>0, <2>1, <2>2, <2>3, <2>4, <2>5, <2>6, ScheduleKeeps
  <1>3. ASSUME NEW a \in Nat, Return(a)
        PROVE  OnePlace' /\ HeapInv'
    <2> DEFINE r == frame[current_frame].return_event
               f == frame[current_frame].parent
    <2>1. r \in Events \cup {None} /\ f \in Frames \cup {None}
      BY <1>3, <1>a, <1>b, FieldsType DEF Return, InHandler
    <2>2. UNCHANGED <<current_time, queue>> /\ Schedule(r, f, a, 0, frame) /\ 0 \in PeriodValues
      BY <1>3 DEF Return, PeriodValues
    <2> HIDE DEF r, f
    <2> QED BY <1>0, <1>a, <2>1, <2>2, ScheduleKeeps
  <1>4. ASSUME NEW r \in Events \cup {None}, Execute(r)
        PROVE  OnePlace' /\ HeapInv'
    <2>1. PICK f \in Frames :
            Free(f) /\ frame' = [frame EXCEPT ![f].parent = current_frame, ![f].return_event = r]
      BY <1>4 DEF Execute
    <2>2. ~InHeap(f)
      BY <2>1, FreeFrame
    <2>3. \A g \in Frames : InHeap(g) => frame'[g] = frame[g]
      BY <1>a, <2>1, <2>2
    <2>4. \A g \in Frames : frame'[g].wakeup_event = frame[g].wakeup_event
      BY <1>a, <2>1 DEF FrameFields
    <2> QED BY <1>0, <1>4, <2>3, <2>4, BothKept DEF Execute, InLoop
  <1>5. ASSUME NEW e \in Events, EndEvent(e)
        PROVE  OnePlace' /\ HeapInv'
    <2>1. PICK f \in Frames : Free(f) /\ frame' = [frame EXCEPT ![f].event = e]
      BY <1>5 DEF EndEvent
    <2>2. ~InHeap(f)
      BY <2>1, FreeFrame
    <2>3. \A g \in Frames : InHeap(g) => frame'[g] = frame[g]
      BY <1>a, <2>1, <2>2
    <2>4. \A g \in Frames : frame'[g].wakeup_event = frame[g].wakeup_event
      BY <1>a, <2>1 DEF FrameFields
    <2> QED BY <1>0, <1>5, <2>3, <2>4, BothKept DEF EndEvent, InLoop
  <1>6. ASSUME NEW e \in Events, NEW priority \in BOOLEAN, Wait(e, priority)
        PROVE  OnePlace' /\ HeapInv'
    <2> DEFINE f == current_frame
    <2>0. f \in Frames
      BY <1>6, <1>b DEF Wait, InHandler
    <2>1. CASE InHeap(f) \/ InQueue(f)
      BY <1>6, <1>c, <2>1 DEF Wait, Panic, InLoop
    <2>2. CASE ~InHeap(f) /\ ~InQueue(f)
      <3>1. /\ frame' = [frame EXCEPT ![f].wakeup_event = e]
            /\ queue' = <<f>> \o queue \/ queue' = Append(queue, f)
            /\ UNCHANGED <<heap, in_flight, phase, current_time>>
        BY <1>6, <2>2 DEF Wait
      <3> HIDE DEF f
      <3>2. \A g \in Frames \ {f} : frame'[g] = frame[g]
        BY <1>a, <3>1
      <3>3. frame'[f].event = frame[f].event /\ frame'[f].time = frame[f].time
            /\ frame'[f].wakeup_event = e
        <4>1. frame[f] \in FrameFields
          BY <1>a, <2>0
        <4> QED BY <1>a, <2>0, <3>1, <4>1 DEF FrameFields
      <3>4. HeapInv'
        <4>1. \A g \in Frames : /\ frame'[g].event = frame[g].event
                                /\ frame'[g].time = frame[g].time
          BY <2>0, <3>2, <3>3
        <4>2. InLoop' => InLoop
          BY <3>1 DEF InLoop
        <4> QED BY <1>0, <3>1, <4>1, <4>2, HeapKept
      <3>5. Once(queue') /\ \A g \in Frames : InQueue(g)' <=> InQueue(g) \/ g = f
        <4>1. Once(queue) /\ ~InSeq(f, queue)
          BY <2>2 DEF OnePlace, Once, InQueue
        <4> QED BY <1>a, <2>0, <3>1, <4>1, QueuedHolds DEF InQueue
      <3>6. \A g \in Frames : InHeap(g)' <=> InHeap(g)
        BY <3>1 DEF InHeap
      <3>7. \A i, j \in DOMAIN heap' : heap'[i] = heap'[j] => i = j
        BY <3>4 DEF HeapInv, Once
      <3>8. \A i, j \in DOMAIN queue' : queue'[i] = queue'[j] => i = j
        BY <3>5 DEF Once
      <3>9. \A g \in Frames : ~(InHeap(g)' /\ InQueue(g)')
        BY <2>2, <3>5, <3>6 DEF OnePlace
      <3>10. \A g \in Frames : InQueue(g)' <=> frame'[g].wakeup_event # None
        <4>1. e # None
          BY CallAssumption
        <4> QED BY <3>2, <3>3, <3>5, <4>1 DEF OnePlace
      <3> QED BY <3>4, <3>7, <3>8, <3>9, <3>10 DEF OnePlace
    <2> QED BY <2>1, <2>2
  <1>7. ASSUME WakeupOne
        PROVE  OnePlace' /\ HeapInv'
    <2>1. CASE queue = <<>>
      BY <1>7, <1>c, <2>1 DEF WakeupOne, Panic, InLoop
    <2>2. CASE queue # <<>>
      BY <1>0, <1>7, <2>2, PopAndScheduleKeeps DEF WakeupOne
    <2> QED BY <2>1, <2>2
  <1>8. ASSUME WakeupAll
        PROVE  OnePlace' /\ HeapInv'
    BY <1>0, <1>8, PopAndScheduleKeeps DEF WakeupAll
  <1>9. ASSUME heap # <<>>, PopHeap, UNCHANGED <<frame, queue>>,
               InLoop' => /\ InLoop /\ UNCHANGED current_time
                          /\ in_flight' = [in_flight EXCEPT ![frame[Head(heap)].event] = @ - 1]
        PROVE  OnePlace' /\ HeapInv'
    <2>1. HeapInv' /\ \A g \in Frames : InHeap(g)' <=> InHeap(g) /\ g # Head(heap)
      BY <1>0, <1>9, HeapPopped DEF PopHeap
    <2>2. \A f \in Frames : InHeap(f)' => ~InQueue(f)
      BY <2>1 DEF OnePlace
    <2> QED BY <1>9, <2>1, <2>2, QueueKept DEF HeapInv
  <1>10. ASSUME ProcessEvent
         PROVE  OnePlace' /\ HeapInv'
    BY <1>9, <1>10 DEF ProcessEvent, InLoop
  <1>11. ASSUME NextCycle
         PROVE  OnePlace' /\ HeapInv'
    <2>0. /\ UNCHANGED <<heap, frame, queue, in_flight>> /\ InLoop
          /\ current_time' = current_time + ShortestCycleTime
          /\ heap # <<>> => frame[Head(heap)].time > current_time
      BY <1>11 DEF NextCycle, InLoop
    <2>1. \A f \in Frames : InHeap(f)' <=> InHeap(f)
      BY <2>0 DEF InHeap
    <2>2. Timely'
      <3> SUFFICES ASSUME NEW f \in Frames, InHeap(f)
                   PROVE  NotOver(frame[f].event, frame[f].time)'
        BY <2>0, <2>1 DEF Timely
      <3> DEFINE e == frame[f].event
                 t == frame[f].time
                 c == CycleOf(e)
      <3>1. e \in Events
        BY DEF HeapInv, HeapEvents
      <3>2. t \in Nat /\ current_time \in Nat
        BY <1>a, FieldsType DEF TypeOK
      <3>3. c \in Nat /\ c >= 1 /\ ShortestCycleTime \in Nat /\ ShortestCycleTime <= c
        BY <3>1, CycleOfType
      <3>4. NotOver(e, t)
        BY <2>0 DEF HeapInv, Timely
      <3>5. t > current_time
        <4>1. PICK i \in DOMAIN heap : heap[i] = f
          BY DEF InHeap, InSeq
        <4>2. 1 \in DOMAIN heap /\ 1 <= i /\ Head(heap) = heap[1] /\ heap[1] \in Frames /\ heap # <<>>
          BY <1>a, <4>1
        <4>3. frame[heap[1]].time <= t
          BY <4>1, <4>2 DEF HeapInv, SortedBy
        <4>4. frame[heap[1]].time \in Nat
          BY <1>a, <4>2, FieldsType
        <4> QED BY <2>0, <3>2, <4>2, <4>3, <4>4
      <3> HIDE DEF t, c
      <3>6. t = (t \div c) * c
        BY <3>4 DEF NotOver, c
      <3>7. t \div c >= (current_time + ShortestCycleTime) \div c
        BY <3>2, <3>3, <3>5, <3>6, OneStepIsNotTooFar
      <3> QED BY <2>0, <3>6, <3>7 DEF NotOver, t, c
    <2>3. Once(heap)' /\ SortedBy(heap, frame)' /\ HeapEvents'
      BY <2>0, <2>1 DEF HeapInv, Once, SortedBy, HeapEvents
    <2>4. InFlightIsScheduled'
      <3>1. \A e \in Events : Scheduled(e)' = Scheduled(e)
        BY <2>0 DEF Scheduled
      <3> QED BY <2>0, <3>1 DEF HeapInv, InFlightIsScheduled, InLoop
    <2>5. HeapInv'
      BY <2>2, <2>3, <2>4 DEF HeapInv
    <2>6. \A f \in Frames : InHeap(f)' => ~InQueue(f)
      BY <2>1 DEF OnePlace
    <2> QED BY <2>0, <2>3, <2>5, <2>6, QueueKept
  <1>12. ASSUME DrainEvent
         PROVE  OnePlace' /\ HeapInv'
    BY <1>9, <1>12 DEF DrainEvent, Draining, InLoop
  <1>13. ASSUME ProcessEndEvent
         PROVE  OnePlace' /\ HeapInv'
    BY <1>13, <1>c DEF ProcessEndEvent, InLoop
  <1>14. ASSUME DrainReturns
         PROVE  OnePlace' /\ HeapInv'
    BY <1>14, <1>c DEF DrainReturns, InLoop
  <1>15. ASSUME EndEventsReturn
         PROVE  OnePlace' /\ HeapInv'
    BY <1>15, <1>c DEF EndEventsReturn, InLoop
  <1>16. ASSUME ProcessAllEvents
         PROVE  OnePlace' /\ HeapInv'
    BY <1>16, <1>c DEF ProcessAllEvents, InLoop
  <1>17. ASSUME HandlerReturns
         PROVE  OnePlace' /\ HeapInv'
    <2> DEFINE f == current_frame
    <2>0. f \in Frames /\ UNCHANGED <<current_time, queue>>
      BY <1>17, <1>b DEF HandlerReturns, InHandler
    <2>1. CASE frame' = Released /\ UNCHANGED <<heap, in_flight, phase>>
      <3>1. \A g \in Frames : InHeap(g) => frame'[g] = frame[g]
        BY <2>1, ReleasedKeeps
      <3>2. \A g \in Frames : \/ frame'[g].wakeup_event = frame[g].wakeup_event
                              \/ ~InQueue(g) /\ frame'[g].wakeup_event = None
        BY <2>1, ReleasedKeeps
      <3> QED BY <1>0, <2>0, <2>1, <3>1, <3>2, BothKept DEF InLoop
    <2>2. CASE Schedule(frame[f].event, f, frame[f].period, frame[f].period, frame)
      <3>1. /\ frame[f].event \in Events \cup {None}
            /\ frame[f].period \in PeriodValues /\ frame[f].period \in Nat
        BY <1>a, <2>0, FieldsType
      <3> HIDE DEF f
      <3> QED BY <1>0, <1>a, <2>0, <2>2, <3>1, ScheduleKeeps
    <2> QED BY <1>17, <2>1, <2>2 DEF HandlerReturns
  <1>18. ASSUME NEW timing \in BOOLEAN, NEW emulating \in BOOLEAN, Iterate(timing, emulating)
         PROVE  OnePlace' /\ HeapInv'
    BY <1>18, <1>c DEF Iterate, Outside, InLoop
  <1>19. ASSUME Sigint
         PROVE  OnePlace' /\ HeapInv'
    BY <1>19, <1>c DEF Sigint, InLoop
  <1>20. ASSUME UNCHANGED vars
         PROVE  OnePlace' /\ HeapInv'
    BY <1>20, <1>c DEF vars, InLoop
  <1> QED BY StepIsAnAction, <1>0, <1>1, <1>2, <1>3, <1>4, <1>5, <1>6, <1>7, <1>8, <1>10, <1>11, <1>12,
             <1>13, <1>14, <1>15, <1>16, <1>17, <1>18, <1>19, <1>20

LEMMA BookkeepingInit ==
    ASSUME Init
    PROVE  TypeOK /\ OnePlace /\ HeapInv
  <1>1. TypeOK
    <2>1. frame \in [Frames -> FrameFields]
      BY BlankType DEF Init
    <2>2. num_events \in 0 .. MaxFinalization /\ calls \in 0 .. MaxCalls
      BY CallAssumption DEF Init
    <2>3. /\ heap \in Seq(Frames) /\ queue \in Seq(Frames) /\ stack \in Seq(Frames)
          /\ end_frames \in Seq(Frames) /\ in_flight \in [Events -> Int]
          /\ current_time \in Nat /\ loop_iterations \in 0 .. 1
      BY DEF Init
    <2>4. waking \in BOOLEAN /\ signal \in BOOLEAN /\ finish \in BOOLEAN
      BY DEF Init
    <2>5. phase \in {"arch", "events", "drain", "ends", "redrain", "done", "panic", "assert"}
      BY DEF Init
    <2> QED BY <2>1, <2>2, <2>3, <2>4, <2>5 DEF TypeOK
  <1>2. \A f \in Frames : ~InHeap(f) /\ ~InQueue(f) /\ frame[f].wakeup_event = None
    BY DEF Init, InHeap, InQueue, InSeq, Blank
  <1>3. OnePlace
    BY <1>2 DEF Init, OnePlace
  <1>4. InFlightIsScheduled
    <2> SUFFICES ASSUME NEW e \in Events
                 PROVE  in_flight[e] = Cardinality(Scheduled(e))
      BY DEF InFlightIsScheduled
    <2>1. Scheduled(e) = {}
      BY DEF Init, Scheduled
    <2> QED BY <2>1, FS_EmptySet DEF Init
  <1>5. Once(heap) /\ SortedBy(heap, frame) /\ HeapEvents /\ Timely
    BY <1>2 DEF Init, Once, SortedBy, HeapEvents, Timely
  <1> QED BY <1>1, <1>3, <1>4, <1>5 DEF HeapInv

\* In every state a frame is in one place, in the heap or in a queue, and
\* Event::num_in_flight is the number of frames scheduled for the event.
THEOREM FramesAreAccountedFor == Spec => []FramesAccountedFor
  <1>1. Init => TypeOK /\ OnePlace /\ HeapInv
    BY BookkeepingInit
  <1>2. TypeOK /\ OnePlace /\ HeapInv /\ [Next]_vars => (TypeOK /\ OnePlace /\ HeapInv)'
    BY BookkeepingStep
  <1>3. TypeOK /\ OnePlace /\ HeapInv => FramesAccountedFor
    BY DEF FramesAccountedFor, HeapInv
  <1> QED BY <1>1, <1>2, <1>3, PTL DEF Spec

-----------------------------------------------------------------------------
(* Events run on time                                                      *)

\* The frame whose handler ProcessEvents runs, below those of Execute.
Bottom == stack[Len(stack)]

\* Until it is in the heap or in a queue again, it keeps the time it ran for,
\* from which ProcessEvents reschedules it.
Rescheduled ==
    (phase = "events" /\ stack # <<>> /\ ~InHeap(Bottom) /\ ~InQueue(Bottom)
        /\ frame[Bottom].period > 0) =>
      /\ frame[Bottom].event \in Events
      /\ frame[Bottom].time = (current_time \div CycleOf(frame[Bottom].event)) * CycleOf(frame[Bottom].event)

\* A frame that is due belongs to the current cycle of its domain.
LEMMA DueIsInItsCycle ==
    ASSUME TypeOK, HeapInv, InLoop, heap # <<>>, frame[Head(heap)].time <= current_time
    PROVE  LET f == Head(heap)
               c == CycleOf(frame[f].event)
           IN  /\ f \in Frames /\ frame[f].event \in Events
               /\ frame[f].time \div c = current_time \div c
               /\ frame[f].time = (current_time \div c) * c
  <1> DEFINE f == Head(heap)
             t == frame[f].time
             c == CycleOf(frame[f].event)
  <1>1. heap \in Seq(Frames) /\ Once(heap) /\ frame \in [Frames -> FrameFields] /\ current_time \in Nat
    BY DEF TypeOK, HeapInv
  <1>2. f \in Frames /\ InHeap(f)
    BY <1>1, TailHolds DEF InHeap
  <1>3. t \in Nat
    BY <1>1, <1>2, FieldsType
  <1>4. frame[f].event \in Events /\ NotOver(frame[f].event, t)
    BY <1>2 DEF HeapInv, HeapEvents, Timely
  <1>5. c \in Nat /\ c >= 1
    BY <1>4, CycleOfType
  <1>6. t = (t \div c) * c /\ t \div c >= current_time \div c
    BY <1>4 DEF NotOver
  <1> HIDE DEF t, c
  <1>7. t \div c <= current_time \div c
    BY <1>1, <1>3, <1>5, QuotientIsMonotone DEF t
  <1>8. t \div c \in Nat /\ current_time \div c \in Nat
    BY <1>1, <1>3, <1>5, RoundingType
  <1>9. t \div c = current_time \div c
    BY <1>6, <1>7, <1>8
  <1>10. t = (current_time \div c) * c
    BY <1>6, <1>9
  <1> QED BY <1>2, <1>4, <1>9, <1>10 DEF t, c

\* Every frame that Schedule writes the time of is in the heap afterwards.
LEMMA ScheduleWritesScheduled ==
    ASSUME TypeOK, NEW e \in Events \cup {None}, NEW f \in Frames \cup {None}, NEW after,
           NEW period, NEW fr \in [Frames -> FrameFields], Schedule(e, f, after, period, fr),
           NEW g \in Frames, ~InHeap(g)'
    PROVE  ~InHeap(g) /\ frame'[g] = fr[g]
  <1>1. heap \in Seq(Frames)
    BY DEF TypeOK
  <1>2. CASE UNCHANGED heap /\ frame' = fr
    BY <1>2 DEF InHeap
  <1>3. CASE /\ f # None
             /\ frame' = [fr EXCEPT ![f].event = e, ![f].time = TimeOf(e, after),
                                    ![f].period = period]
             /\ heap' = HeapInsert(heap, f, frame')
    <2>1. f \in Frames
      BY <1>3
    <2>2. ~InHeap(g) /\ g # f
      BY <1>1, <1>3, <2>1, HeapInsertHolds DEF InHeap
    <2> QED BY <1>3, <2>1, <2>2
  <1> QED BY <1>2, <1>3 DEF Schedule, Panic

\* A step of the same handler, or of one it executes.
LEMMA BottomKept ==
    ASSUME Rescheduled, UNCHANGED current_time,
           phase' = "events" => phase = "events",
           (phase' = "events" /\ stack' # <<>>) => stack # <<>> /\ Bottom' = Bottom,
           (phase' = "events" /\ stack' # <<>> /\ ~InHeap(Bottom)' /\ ~InQueue(Bottom)') =>
              /\ ~InHeap(Bottom) /\ ~InQueue(Bottom)
              /\ frame'[Bottom].event = frame[Bottom].event
              /\ frame'[Bottom].time = frame[Bottom].time
              /\ frame'[Bottom].period = frame[Bottom].period
    PROVE  Rescheduled'
  <1> SUFFICES ASSUME phase' = "events", stack' # <<>>, ~InHeap(Bottom)', ~InQueue(Bottom)',
                      frame'[Bottom'].period > 0
               PROVE  /\ frame'[Bottom'].event \in Events
                      /\ frame'[Bottom'].time
                           = (current_time' \div CycleOf(frame'[Bottom'].event)) * CycleOf(frame'[Bottom'].event)
    BY DEF Rescheduled, CycleOf
  <1>1. Bottom' = Bottom
    OBVIOUS
  <1> QED BY <1>1 DEF Rescheduled

LEMMA BottomType ==
    ASSUME TypeOK, stack # <<>>
    PROVE  Bottom \in Frames /\ InSeq(Bottom, stack)
  <1>1. stack \in Seq(Frames) /\ Len(stack) \in DOMAIN stack
    BY DEF TypeOK
  <1> QED BY <1>1 DEF Bottom, InSeq

LEMMA RescheduledStep ==
    ASSUME TypeOK, OnePlace, HeapInv, Rescheduled, [Next]_vars
    PROVE  Rescheduled'
  <1>a. /\ heap \in Seq(Frames) /\ queue \in Seq(Frames) /\ stack \in Seq(Frames)
        /\ frame \in [Frames -> FrameFields]
    BY DEF TypeOK
  <1>b. stack # <<>> => current_frame \in Frames
    BY CurrentFrameType
  <1>c. stack # <<>> => Bottom \in Frames /\ InSeq(Bottom, stack)
    BY BottomType
  <1>d. ASSUME UNCHANGED <<stack, current_time>>, phase' = "events" => phase = "events",
               \A g \in Frames : (InSeq(g, stack) /\ ~InHeap(g)' /\ ~InQueue(g)') =>
                  /\ ~InHeap(g) /\ ~InQueue(g)
                  /\ frame'[g].event = frame[g].event /\ frame'[g].time = frame[g].time
                  /\ frame'[g].period = frame[g].period
        PROVE  Rescheduled'
    <2>1. Bottom' = Bottom
      BY <1>d DEF Bottom
    <2>2. ASSUME stack # <<>>, ~InHeap(Bottom)', ~InQueue(Bottom)'
          PROVE  /\ ~InHeap(Bottom) /\ ~InQueue(Bottom)
                 /\ frame'[Bottom].event = frame[Bottom].event
                 /\ frame'[Bottom].time = frame[Bottom].time
                 /\ frame'[Bottom].period = frame[Bottom].period
      <3>1. PICK b \in Frames : b = Bottom /\ InSeq(b, stack)
        BY <1>c, <2>2
      <3>2. ~InHeap(b)' /\ ~InQueue(b)'
        BY <2>1, <2>2, <3>1 DEF InHeap, InQueue, InSeq
      <3> QED BY <1>d, <3>1, <3>2
    <2> QED BY <1>d, <2>1, <2>2, BottomKept
  <1>e. ASSUME UNCHANGED <<stack, current_time, heap, queue, frame>>,
               phase' = "events" => phase = "events"
        PROVE  Rescheduled'
    BY <1>e, <1>d DEF InHeap, InQueue
  <1>f. ASSUME phase' # "events" \/ stack' = <<>>
        PROVE  Rescheduled'
    BY <1>f DEF Rescheduled
  <1>1. ASSUME NEW e \in Events \cup {None}, NEW a \in Nat, NEW p \in PeriodValues, NextEvent(e, a, p)
        PROVE  Rescheduled'
    <2>1. PICK f \in Frames : Schedule(e, f, a, p, frame)
      BY <1>1 DEF NextEvent
    <2>2. UNCHANGED <<stack, current_time, queue>>
      BY <1>1 DEF NextEvent
    <2>3. phase' = "events" => phase = "events"
      BY <2>1 DEF Schedule, Panic
    <2>4. \A g \in Frames : ~InHeap(g)' => ~InHeap(g) /\ frame'[g] = frame[g]
      BY <1>a, <2>1, ScheduleWritesScheduled
    <2> QED BY <1>d, <2>2, <2>3, <2>4 DEF InQueue
  <1>2. ASSUME NEW e \in Events, NEW r \in Events \cup {None}, NEW a \in Nat, NEW p \in PeriodValues,
               Call(e, r, a, p)
        PROVE  Rescheduled'
    <2> DEFINE fr(f) == [frame EXCEPT ![f].return_event = r, ![f].parent = current_frame]
    <2>1. PICK f \in Frames : Free(f) /\ Schedule(e, f, a, p, fr(f))
      BY <1>2 DEF Call
    <2>2. UNCHANGED <<stack, current_time, queue>>
      BY <1>2 DEF Call
    <2>3. phase' = "events" => phase = "events"
      BY <2>1 DEF Schedule, Panic
    <2>4. fr(f) \in [Frames -> FrameFields] /\ \A g \in Frames \ {f} : fr(f)[g] = frame[g]
      <3>1. current_frame \in Frames \cup {None}
        BY CurrentFrameType
      <3>2. fr(f) \in [Frames -> FrameFields]
        BY <1>a, <3>1, WrittenType
      <3>3. \A g \in Frames \ {f} : fr(f)[g] = frame[g]
        BY <1>a
      <3> QED BY <3>2, <3>3
    <2> HIDE DEF fr
    <2>5. \A g \in Frames : ~InHeap(g)' => ~InHeap(g) /\ frame'[g] = fr(f)[g]
      BY <2>1, <2>4, ScheduleWritesScheduled
    <2>6. ~InSeq(f, stack)
      BY <2>1, FreeFrame
    <2> QED BY <1>d, <2>2, <2>3, <2>4, <2>5, <2>6 DEF InQueue
  <1>3. ASSUME NEW a \in Nat, Return(a)
        PROVE  Rescheduled'
    <2> DEFINE r == frame[current_frame].return_event
               f == frame[current_frame].parent
    <2>1. r \in Events \cup {None} /\ f \in Frames \cup {None}
      BY <1>3, <1>a, <1>b, FieldsType DEF Return, InHandler
    <2>2. UNCHANGED <<stack, current_time, queue>> /\ Schedule(r, f, a, 0, frame)
      BY <1>3 DEF Return
    <2> HIDE DEF r, f
    <2>3. phase' = "events" => phase = "events"
      BY <2>2 DEF Schedule, Panic
    <2>4. \A g \in Frames : ~InHeap(g)' => ~InHeap(g) /\ frame'[g] = frame[g]
      BY <1>a, <2>1, <2>2, ScheduleWritesScheduled
    <2> QED BY <1>d, <2>2, <2>3, <2>4 DEF InQueue
  <1>4. ASSUME NEW r \in Events \cup {None}, Execute(r)
        PROVE  Rescheduled'
    <2>0. UNCHANGED <<current_time, heap, queue, phase>>
      BY <1>4 DEF Execute
    <2>1. PICK f \in Frames :
            /\ Free(f) /\ frame' = [frame EXCEPT ![f].parent = current_frame, ![f].return_event = r]
            /\ stack' = <<f>> \o stack
      BY <1>4 DEF Execute
    <2>2. phase = "events" => stack # <<>>
      BY <1>4 DEF Execute, Client, InHandler, Outside
    <2>3. stack # <<>> => Bottom' = Bottom
      BY <1>a, <2>1 DEF Bottom
    <2>4. \A g \in Frames : InSeq(g, stack) => frame'[g] = frame[g]
      BY <1>a, <2>1, FreeFrame
    <2>5. stack # <<>> => frame'[Bottom] = frame[Bottom]
      BY <1>c, <2>4
    <2>6. stack # <<>> => (InHeap(Bottom)' <=> InHeap(Bottom)) /\ (InQueue(Bottom)' <=> InQueue(Bottom))
      BY <2>0, <2>3 DEF InHeap, InQueue
    <2> QED BY <2>0, <2>2, <2>3, <2>5, <2>6, BottomKept
  <1>5. ASSUME NEW e \in Events, EndEvent(e)
        PROVE  Rescheduled'
    <2>0. UNCHANGED <<stack, current_time, heap, queue, phase>>
      BY <1>5 DEF EndEvent
    <2>1. PICK f \in Frames : Free(f) /\ frame' = [frame EXCEPT ![f].event = e]
      BY <1>5 DEF EndEvent
    <2>2. \A g \in Frames : InSeq(g, stack) => frame'[g] = frame[g]
      BY <1>a, <2>1, FreeFrame
    <2> QED BY <1>d, <2>0, <2>2 DEF InHeap, InQueue
  <1>6. ASSUME NEW e \in Events, NEW priority \in BOOLEAN, Wait(e, priority)
        PROVE  Rescheduled'
    <2> DEFINE f == current_frame
    <2>0. f \in Frames /\ UNCHANGED <<stack, current_time>>
      BY <1>6, <1>b DEF Wait, InHandler
    <2>1. CASE InHeap(f) \/ InQueue(f)
      BY <1>6, <1>f, <2>1 DEF Wait, Panic
    <2>2. CASE ~InHeap(f) /\ ~InQueue(f)
      <3>1. /\ frame' = [frame EXCEPT ![f].wakeup_event = e]
            /\ queue' = <<f>> \o queue \/ queue' = Append(queue, f)
            /\ UNCHANGED <<heap, phase>>
        BY <1>6, <2>2 DEF Wait
      <3> HIDE DEF f
      <3>2. \A g \in Frames \ {f} : frame'[g] = frame[g]
        BY <1>a, <3>1
      <3>3. \A g \in Frames : InQueue(g)' <=> InQueue(g) \/ g = f
        <4>1. Once(queue) /\ ~InSeq(f, queue)
          BY <2>2 DEF OnePlace, Once, InQueue
        <4> QED BY <1>a, <2>0, <3>1, <4>1, QueuedHolds DEF InQueue
      <3> QED BY <1>d, <2>0, <3>1, <3>2, <3>3 DEF InHeap
    <2> QED BY <2>1, <2>2
  <1>7. ASSUME queue # <<>>, PopAndSchedule, UNCHANGED <<stack, current_time>>
        PROVE  Rescheduled'
    <2> DEFINE f == Head(queue)
               e == frame[f].wakeup_event
    <2>1. f \in Frames /\ ~InHeap(f) /\ UNCHANGED phase
      BY <1>7, PopAndScheduleType
    <2>2. /\ queue' = Tail(queue)
          /\ frame' = [frame EXCEPT ![f].wakeup_event = None, ![f].event = e,
                                    ![f].time = TimeOf(e, 0), ![f].period = 0]
          /\ heap' = HeapInsert(heap, f, frame')
      BY <1>7, <2>1 DEF PopAndSchedule
    <2>3. \A g \in Frames : InQueue(g)' <=> InQueue(g) /\ g # f
      <3>1. Once(queue)
        BY DEF OnePlace, Once
      <3> QED BY <1>7, <1>a, <2>2, <3>1, TailHolds DEF InQueue
    <2> HIDE DEF f
    <2>4. \A g \in Frames : InHeap(g)' <=> InHeap(g) \/ g = f
      BY <1>a, <2>1, <2>2, HeapInsertHolds DEF InHeap
    <2>5. \A g \in Frames \ {f} : frame'[g] = frame[g]
      BY <1>a, <2>1, <2>2
    <2> QED BY <1>7, <1>d, <2>1, <2>3, <2>4, <2>5
  <1>8. ASSUME WakeupOne \/ WakeupAll
        PROVE  Rescheduled'
    BY <1>7, <1>8, <1>f DEF WakeupOne, WakeupAll, Panic
  <1>9. ASSUME ProcessEvent
        PROVE  Rescheduled'
    <2> DEFINE f == Head(heap)
               c == CycleOf(frame[f].event)
    <2>1. f \in Frames /\ frame[f].event \in Events /\ frame[f].time = (current_time \div c) * c
      BY <1>9, DueIsInItsCycle DEF ProcessEvent, InLoop
    <2>2. stack' = <<f>> /\ UNCHANGED <<frame, current_time>>
      BY <1>9 DEF ProcessEvent, PopHeap
    <2>3. Bottom' = f
      BY <2>2 DEF Bottom
    <2>4. (CycleOf(frame[Bottom].event))' = c
      BY <2>2, <2>3 DEF CycleOf
    <2> HIDE DEF f, c
    <2> QED BY <2>1, <2>2, <2>3, <2>4 DEF Rescheduled
  <1>10. ASSUME \/ NextCycle \/ DrainEvent \/ ProcessEndEvent \/ DrainReturns
                \/ EndEventsReturn \/ ProcessAllEvents
         PROVE  Rescheduled'
    BY <1>10, <1>f DEF NextCycle, DrainEvent, ProcessEndEvent, DrainReturns, EndEventsReturn,
                       ProcessAllEvents, Draining
  <1>11. ASSUME HandlerReturns
         PROVE  Rescheduled'
    <2>0. UNCHANGED <<current_time, queue>> /\ stack # <<>> /\ stack' = Tail(stack)
      BY <1>11 DEF HandlerReturns, InHandler
    <2>1. CASE stack' = <<>>
      BY <1>f, <2>1
    <2>2. CASE stack' # <<>>
      <3>1. Len(stack) > 1 /\ Len(stack) \in Nat
        BY <1>a, <2>0, <2>2
      <3>2. frame' = Released /\ UNCHANGED <<heap, phase>>
        BY <1>11, <3>1 DEF HandlerReturns
      <3>3. Bottom' = Bottom /\ Bottom \in Frames /\ InSeq(Bottom, Tail(stack))
        <4>1. /\ Tail(stack) \in Seq(Frames) /\ Len(Tail(stack)) = Len(stack) - 1
              /\ Tail(stack)[Len(stack) - 1] = stack[Len(stack)]
          BY <1>a, <3>1
        <4>2. Len(stack) - 1 \in DOMAIN Tail(stack)
          BY <3>1, <4>1
        <4> QED BY <1>c, <2>0, <4>1, <4>2 DEF Bottom, InSeq
      <3>4. frame'[Bottom] = frame[Bottom]
        BY <3>2, <3>3, ReleasedKeeps
      <3>5. (InHeap(Bottom)' <=> InHeap(Bottom)) /\ (InQueue(Bottom)' <=> InQueue(Bottom))
        BY <2>0, <3>2, <3>3 DEF InHeap, InQueue
      <3> QED BY <2>0, <3>2, <3>3, <3>4, <3>5, BottomKept
    <2> QED BY <2>1, <2>2
  <1>12. ASSUME NEW timing \in BOOLEAN, NEW emulating \in BOOLEAN, Iterate(timing, emulating)
         PROVE  Rescheduled'
    BY <1>12, <1>f DEF Iterate
  <1>13. ASSUME Sigint
         PROVE  Rescheduled'
    BY <1>13, <1>e DEF Sigint
  <1>14. ASSUME UNCHANGED vars
         PROVE  Rescheduled'
    BY <1>14, <1>e DEF vars
  <1> QED BY StepIsAnAction, <1>1, <1>2, <1>3, <1>4, <1>5, <1>6, <1>8, <1>9, <1>10, <1>11, <1>12,
             <1>13, <1>14

EngineInv == TypeOK /\ OnePlace /\ HeapInv /\ Rescheduled

\* Only ProcessEvents enters a handler from its loop.
LEMMA RunsInItsCycleStep ==
    ASSUME EngineInv, [Next]_vars, phase = "events", stack = <<>>, stack' # <<>>
    PROVE  LET f  == stack'[1]
               ct == CycleTime(DomainOf[frame[f].event])
           IN  frame[f].time \div ct = current_time \div ct
  <1>1. ASSUME ProcessEvent
        PROVE  LET f  == stack'[1]
                   ct == CycleTime(DomainOf[frame[f].event])
               IN  frame[f].time \div ct = current_time \div ct
    <2>1. stack'[1] = Head(heap)
      BY <1>1 DEF ProcessEvent, PopHeap
    <2> QED BY <1>1, <2>1, DueIsInItsCycle DEF ProcessEvent, EngineInv, InLoop, CycleOf
  <1>2. ASSUME NEW e, NEW a, NEW p, NextEvent(e, a, p) PROVE FALSE
    BY <1>2 DEF NextEvent
  <1>3. ASSUME NEW e, NEW r, NEW a, NEW p, Call(e, r, a, p) PROVE FALSE
    BY <1>3 DEF Call
  <1>4. ASSUME NEW a, Return(a) PROVE FALSE
    BY <1>4 DEF Return
  <1>5. ASSUME NEW r, Execute(r) PROVE FALSE
    BY <1>5 DEF Execute, Client, InHandler, Outside
  <1>6. ASSUME NEW e, EndEvent(e) PROVE FALSE
    BY <1>6 DEF EndEvent
  <1>7. ASSUME NEW e, NEW priority, Wait(e, priority) PROVE FALSE
    BY <1>7 DEF Wait
  <1>8. ASSUME \/ WakeupOne \/ WakeupAll \/ NextCycle \/ DrainEvent \/ ProcessEndEvent
               \/ DrainReturns \/ EndEventsReturn \/ ProcessAllEvents \/ Sigint \/ UNCHANGED vars
        PROVE  FALSE
    BY <1>8 DEF WakeupOne, WakeupAll, NextCycle, DrainEvent, Draining, ProcessEndEvent, DrainReturns,
                EndEventsReturn, ProcessAllEvents, Sigint, vars
  <1>9. ASSUME HandlerReturns PROVE FALSE
    BY <1>9 DEF HandlerReturns, InHandler
  <1>10. ASSUME NEW timing, NEW emulating, Iterate(timing, emulating) PROVE FALSE
    BY <1>10 DEF Iterate
  <1> QED BY StepIsAnAction, <1>1, <1>2, <1>3, <1>4, <1>5, <1>6, <1>7, <1>8, <1>9, <1>10

\* Only the end of its handler takes a frame off the stack.
LEMMA PeriodsDoNotDriftStep ==
    ASSUME EngineInv, [Next]_vars, NEW f \in Frames, phase = "events", stack = <<f>>, stack' = <<>>,
           frame[f].period > 0, InSeq(f, heap'), phase' # "panic"
    PROVE  frame'[f].time = frame[f].time
               + frame[f].period * CycleTime(DomainOf[frame[f].event])
  <1>a. stack # <<>> /\ stack' # stack /\ Head(stack) = f /\ Len(stack) = 1 /\ Bottom = f
    BY DEF Bottom
  <1>b. current_frame = f /\ frame \in [Frames -> FrameFields] /\ current_time \in Nat /\ f # None
    BY <1>a, CallAssumption DEF current_frame, EngineInv, TypeOK
  <1>1. ASSUME HandlerReturns
        PROVE  frame'[f].time = frame[f].time
                   + frame[f].period * CycleTime(DomainOf[frame[f].event])
    <2> DEFINE e == frame[f].event
               p == frame[f].period
               c == CycleOf(e)
    <2>1. CASE frame' = Released /\ UNCHANGED <<heap, in_flight, phase>>
      <3>1. InHeap(f)
        BY <2>1 DEF InHeap
      <3> QED BY <1>1, <1>a, <1>b, <2>1, <3>1 DEF HandlerReturns, Schedule, Panic
    <2>2. CASE Schedule(e, f, p, p, frame)
      <3>1. /\ ~InHeap(f) /\ ~InQueue(f) /\ e # None
            /\ frame' = [frame EXCEPT ![f].event = e, ![f].time = TimeOf(e, p), ![f].period = p]
        BY <1>b, <2>2 DEF Schedule, Panic, InHeap
      <3>2. e \in Events /\ frame[f].time = (current_time \div c) * c
        BY <1>a, <3>1 DEF EngineInv, Rescheduled
      <3>3. frame[f] \in FrameFields /\ p \in Nat
        BY <1>b, FieldsType
      <3>4. frame'[f].time = TimeOf(e, p)
        BY <1>b, <3>1, <3>3 DEF FrameFields
      <3>5. TimeOf(e, p) = (current_time \div c) * c + c * p
        BY DEF TimeOf, CycleOf
      <3>6. c \in Nat /\ c >= 1
        BY <3>2, CycleOfType
      <3>7. c * p = p * c
        <4> HIDE DEF c, p
        <4> QED BY <3>3, <3>6
      <3> QED BY <3>2, <3>4, <3>5, <3>7 DEF CycleOf
    <2> QED BY <1>1, <1>b, <2>1, <2>2 DEF HandlerReturns
  <1>2. ASSUME NEW e, NEW a, NEW p, NextEvent(e, a, p) PROVE FALSE
    BY <1>2, <1>a DEF NextEvent
  <1>3. ASSUME NEW e, NEW r, NEW a, NEW p, Call(e, r, a, p) PROVE FALSE
    BY <1>3, <1>a DEF Call
  <1>4. ASSUME NEW a, Return(a) PROVE FALSE
    BY <1>4, <1>a DEF Return
  <1>5. ASSUME NEW r, Execute(r) PROVE FALSE
    <2>1. PICK g \in Frames : stack' = <<g>> \o stack
      BY <1>5 DEF Execute
    <2>2. stack' = <<g, f>>
      BY <2>1
    <2> QED BY <2>2
  <1>6. ASSUME NEW e, EndEvent(e) PROVE FALSE
    BY <1>6, <1>a DEF EndEvent
  <1>7. ASSUME NEW e, NEW priority, Wait(e, priority) PROVE FALSE
    BY <1>7, <1>a DEF Wait
  <1>8. ASSUME \/ WakeupOne \/ WakeupAll \/ NextCycle \/ ProcessEvent \/ DrainEvent \/ ProcessEndEvent
               \/ DrainReturns \/ EndEventsReturn \/ ProcessAllEvents \/ Sigint \/ UNCHANGED vars
        PROVE  FALSE
    BY <1>8, <1>a DEF WakeupOne, WakeupAll, NextCycle, ProcessEvent, DrainEvent, ProcessEndEvent,
                      DrainReturns, EndEventsReturn, ProcessAllEvents, Sigint, vars
  <1>9. ASSUME NEW timing, NEW emulating, Iterate(timing, emulating) PROVE FALSE
    BY <1>9, <1>a DEF Iterate
  <1> QED BY StepIsAnAction, <1>1, <1>2, <1>3, <1>4, <1>5, <1>6, <1>7, <1>8, <1>9

\* ProcessEvents runs every event in the cycle of its domain it was scheduled
\* for, and a periodic one again after exactly its period, whatever the ratios of
\* the frequencies.
THEOREM EventsRunOnTime == Spec => OnTime
  <1>1. Init => EngineInv
    <2> SUFFICES ASSUME Init PROVE EngineInv
      OBVIOUS
    <2>1. Rescheduled
      BY DEF Init, Rescheduled
    <2> QED BY <2>1, BookkeepingInit DEF EngineInv
  <1>2. EngineInv /\ [Next]_vars => EngineInv'
    BY BookkeepingStep, RescheduledStep DEF EngineInv
  <1>3. EngineInv /\ [Next]_vars =>
          [(phase = "events" /\ stack = <<>> /\ stack' # <<>>) =>
             LET f  == stack'[1]
                 ct == CycleTime(DomainOf[frame[f].event])
             IN  frame[f].time \div ct = current_time \div ct]_vars
    BY RunsInItsCycleStep
  <1>4. EngineInv /\ [Next]_vars =>
          [\A f \in Frames :
             (phase = "events" /\ stack = <<f>> /\ stack' = <<>> /\ frame[f].period > 0
                  /\ InSeq(f, heap') /\ phase' # "panic") =>
               frame'[f].time = frame[f].time
                   + frame[f].period * CycleTime(DomainOf[frame[f].event])]_vars
    BY PeriodsDoNotDriftStep
  <1>5. Spec => RunsInItsCycle
    BY <1>1, <1>2, <1>3, PTL DEF Spec, RunsInItsCycle
  <1>6. Spec => PeriodsDoNotDrift
    BY <1>1, <1>2, <1>4, PTL DEF Spec, PeriodsDoNotDrift
  <1> QED BY <1>5, <1>6 DEF OnTime
=============================================================================

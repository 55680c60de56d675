--------------------------- MODULE ThrHist_proofs ----------------------------
(***************************************************************************)
(* For every input and every interval: the buckets of thr_hist.py are      *)
(* exact, the printed histogram is that of all logs, and the outliers are  *)
(* never all there is.                                                     *)
(***************************************************************************)
EXTENDS ThrHist, FiniteSetTheorems, FunctionTheorems, WellFoundedInduction, TLAPS

(* The places up to n whose timestamp is in the k-th bucket. *)
In(ts, n, k) == {j \in 1 .. n : /\ ts[j] >= ts[1] + (k - 1) * Interval
                                /\ ts[j] < ts[1] + k * Interval}

(* What the loops keep. *)
Inv ==
  /\ HistTypeOK
  /\ pc = "read" => begin_time = None /\ values = << >>
  /\ begin_time = None => nth = 0 /\ cnt = 0
  /\ pc = "count" =>
       /\ Nondecreasing(timestamps)
       /\ begin_time = None => values = << >>
       /\ begin_time # None =>
            /\ Len(timestamps) > 0
            /\ \A j \in 1 .. nth : timestamps[j] < next_begin_time
            /\ nth < Len(timestamps) => timestamps[nth + 1] >= begin_time
  /\ BucketsExact

(* One place more changes a bucket exactly when its timestamp is in it.    *)
LEMMA OneMore ==
  ASSUME NEW ts \in Seq(Nat), NEW n \in Nat, n < Len(ts), NEW k \in Nat
  PROVE  /\ Cardinality(In(ts, n, k)) \in Nat
         /\ (n + 1 \notin In(ts, n + 1, k)) => In(ts, n + 1, k) = In(ts, n, k)
         /\ (n + 1 \in In(ts, n + 1, k)) =>
              Cardinality(In(ts, n + 1, k)) = Cardinality(In(ts, n, k)) + 1
  <1> USE HistAssumption
  <1>1. IsFiniteSet(In(ts, n, k))
    <2>1. IsFiniteSet(1 .. n)  BY FS_Interval
    <2>2. In(ts, n, k) \subseteq 1 .. n  BY DEF In
    <2> QED  BY <2>1, <2>2, FS_Subset
  <1>2. Cardinality(In(ts, n, k)) \in Nat  BY <1>1, FS_CardinalityType
  <1>3. ASSUME n + 1 \notin In(ts, n + 1, k)
        PROVE  In(ts, n + 1, k) = In(ts, n, k)
    BY <1>3 DEF In
  <1>4. ASSUME n + 1 \in In(ts, n + 1, k)
        PROVE  Cardinality(In(ts, n + 1, k)) = Cardinality(In(ts, n, k)) + 1
    <2>1. In(ts, n + 1, k) = In(ts, n, k) \cup {n + 1}  BY <1>4 DEF In
    <2>2. n + 1 \notin In(ts, n, k)  BY DEF In
    <2> QED  BY <1>1, <2>1, <2>2, FS_AddElement
  <1> QED  BY <1>2, <1>3, <1>4

(* Buckets do not overlap. *)
LEMMA LaterBucket ==
  ASSUME NEW m \in Nat, NEW k \in 1 .. m
  PROVE  k * Interval <= m * Interval /\ (m + 1) * Interval = m * Interval + Interval
  <1> USE HistAssumption
  <1>1. PICK d \in Nat : m = k + d  BY m - k \in Nat
  <1>2. m * Interval = k * Interval + d * Interval  BY <1>1
  <1>3. d * Interval \in Nat /\ k * Interval \in Nat  BY <1>1
  <1> QED  BY <1>2, <1>3
------------------------------------------------------------------------------
(* The initial state: nothing is read or counted. *)
LEMMA InitInv == HistInit => Inv
  <1> SUFFICES ASSUME HistInit PROVE Inv
    OBVIOUS
  <1>1. log \in Seq(Line)  BY HistAssumption DEF HistInit
  <1>2. HistTypeOK  BY <1>1 DEF HistInit, HistTypeOK
  <1>3. BucketsExact  BY DEF HistInit, BucketsExact
  <1> QED  BY <1>2, <1>3 DEF HistInit, Inv

(* Reading changes only the sequences of timestamps and latencies.         *)
LEMMA ReadLineInv == Inv /\ ReadLine => Inv'
  <1> SUFFICES ASSUME Inv, ReadLine PROVE Inv'
    OBVIOUS
  <1> DEFINE line == log[nread + 1]
  <1>1. log \in Seq(Line) /\ nread \in Nat /\ nread < Len(log)
    BY HistAssumption DEF Inv, HistTypeOK, ReadLine
  <1>2. line \in Line  BY <1>1
  <1>3. line.kind = "commit" => Time(line) \in Nat /\ line.lat \in Nat
    BY <1>2, HistAssumption DEF Line, Time
  <1>4. /\ log' = log /\ nread' = nread + 1
        /\ UNCHANGED << begin_time, next_begin_time, cnt, values, nth >>
        /\ begin_time = None /\ nth = 0 /\ values = << >>
    BY DEF ReadLine, Inv
  <1>5. /\ timestamps' \in Seq(Nat) /\ lats' \in Seq(Nat)
        /\ pc' \in {"read", "ValueError"}
    <2>1. CASE line.kind = "commit"
      <3>1. /\ timestamps \in Seq(Nat) /\ lats \in Seq(Nat)
            /\ Time(line) \in Nat /\ line.lat \in Nat
        BY <2>1, <1>3 DEF Inv, HistTypeOK
      <3>2. /\ timestamps' = Append(timestamps, Time(line)) /\ lats' = Append(lats, line.lat)
            /\ pc' = "read"
        BY <2>1 DEF ReadLine
      <3> HIDE DEF line
      <3> QED  BY <3>1, <3>2
    <2>2. CASE line.kind \in {"other", "torn"}
      BY <2>2 DEF ReadLine, Inv, HistTypeOK
    <2> QED  BY <2>1, <2>2 DEF ReadLine
  <1>6. HistTypeOK'
    BY <1>1, <1>4, <1>5 DEF Inv, HistTypeOK
  <1> QED  BY <1>4, <1>5, <1>6 DEF Inv, BucketsExact

(* Sorting gives a nondecreasing sequence and begins the second loop.      *)
LEMMA SortInv == Inv /\ SortTimestamps => Inv'
  <1> SUFFICES ASSUME Inv, SortTimestamps PROVE Inv'
    OBVIOUS
  <1>1. timestamps' \in Seq(Nat)
    <2>1. PICK place \in [DOMAIN timestamps -> DOMAIN timestamps] :
            timestamps' = [j \in DOMAIN timestamps |-> timestamps[place[j]]]
      BY DEF SortTimestamps
    <2>2. /\ timestamps \in Seq(Nat) /\ DOMAIN timestamps = 1 .. Len(timestamps)
          /\ Len(timestamps) \in Nat
      BY DEF Inv, HistTypeOK
    <2>3. \A j \in 1 .. Len(timestamps) : timestamps[place[j]] \in Nat
      BY <2>2
    <2> QED  BY <2>1, <2>2, <2>3
  <1>2. HistTypeOK'
    BY <1>1 DEF Inv, HistTypeOK, SortTimestamps
  <1> QED  BY <1>1, <1>2 DEF Inv, BucketsExact, SortTimestamps, Nondecreasing
------------------------------------------------------------------------------
(* The first timestamp begins the first bucket. *)
LEMMA StartBucketsInv == Inv /\ StartBuckets => Inv'
  <1> SUFFICES ASSUME Inv, StartBuckets PROVE Inv'
    OBVIOUS
  <1> USE HistAssumption
  <1>1. /\ timestamps \in Seq(Nat) /\ Len(timestamps) > 0 /\ nth = 0 /\ cnt = 0
        /\ values = << >> /\ pc = "count" /\ Nondecreasing(timestamps)
        /\ begin_time' = timestamps[1] /\ next_begin_time' = timestamps[1] + Interval
        /\ timestamps[1] \in Nat
        /\ UNCHANGED << log, nread, pc, lats, timestamps, cnt, values, nth >>
    BY DEF Inv, HistTypeOK, StartBuckets, More, Current
  <1>2. HistTypeOK'
    BY <1>1 DEF Inv, HistTypeOK
  <1>3. BucketsExact'
    <2>1. In(timestamps, 0, 1) = {}  BY DEF In
    <2>2. Len(values') + 1 = 1  BY <1>1
    <2>3. CountedIn(Len(values) + 1)' = Cardinality(In(timestamps, 0, 1))
      BY <1>1, <2>2 DEF CountedIn, In
    <2>4. CountedIn(Len(values) + 1)' = 0  BY <2>1, <2>3, FS_EmptySet
    <2> QED  BY <1>1, <2>4 DEF BucketsExact
  <1>4. begin_time' # None  BY <1>1
  <1> QED  BY <1>1, <1>2, <1>3, <1>4 DEF Inv

(* What the invariant says of the second loop when a round begins: the     *)
(* bounds of the bucket, and that it and the later ones are beyond what    *)
(* has been counted.                                                       *)
LEMMA Round ==
  ASSUME Inv, More, begin_time # None
  PROVE  /\ timestamps \in Seq(Nat) /\ values \in Seq(Nat) /\ cnt \in Nat
         /\ nth \in Nat /\ nth < Len(timestamps) /\ pc = "count"
         /\ Current \in Nat /\ timestamps[1] \in Nat
         /\ begin_time \in Nat /\ next_begin_time \in Nat
         /\ Current >= begin_time
         /\ begin_time = timestamps[1] + Len(values) * Interval
         /\ next_begin_time = timestamps[1] + (Len(values) + 1) * Interval
         /\ \A k \in 1 .. Len(values) : values[k] = Cardinality(In(timestamps, nth, k))
         /\ cnt = Cardinality(In(timestamps, nth, Len(values) + 1))
  <1> USE HistAssumption
  <1>1. /\ timestamps \in Seq(Nat) /\ values \in Seq(Nat) /\ cnt \in Nat
        /\ nth \in Nat /\ nth < Len(timestamps) /\ pc = "count"
        /\ begin_time \in Nat /\ next_begin_time \in Nat
    BY DEF Inv, HistTypeOK, More
  <1>2. Current \in Nat /\ timestamps[1] \in Nat  BY <1>1 DEF Current
  <1>3. Current >= begin_time  BY <1>1 DEF Inv, Current
  <1>4. /\ begin_time = timestamps[1] + Len(values) * Interval
        /\ next_begin_time = begin_time + Interval
        /\ \A k \in 1 .. Len(values) : values[k] = CountedIn(k)
        /\ cnt = CountedIn(Len(values) + 1)
    BY <1>1 DEF Inv, BucketsExact
  <1>5. (Len(values) + 1) * Interval = Len(values) * Interval + Interval
    BY <1>1
  <1>6. Len(values) * Interval \in Nat  BY <1>1
  <1>7. next_begin_time = timestamps[1] + (Len(values) + 1) * Interval
    BY <1>2, <1>4, <1>5, <1>6
  <1>8. \A k : CountedIn(k) = Cardinality(In(timestamps, nth, k))
    BY DEF CountedIn, In
  <1> QED  BY <1>1, <1>2, <1>3, <1>4, <1>7, <1>8

(* The next bucket is empty, and the one that is closed is complete.       *)
LEMMA NextBucketInv == Inv /\ NextBucket => Inv'
  <1> SUFFICES ASSUME Inv, NextBucket PROVE Inv'
    OBVIOUS
  <1> USE HistAssumption
  <1>1. /\ More /\ begin_time # None /\ Current >= next_begin_time
        /\ begin_time' = next_begin_time
        /\ next_begin_time' = next_begin_time + Interval
        /\ values' = Append(values, cnt) /\ cnt' = 0
        /\ UNCHANGED << log, nread, pc, lats, timestamps, nth >>
    BY DEF NextBucket
  <1> PICK n : n = Len(values)
    OBVIOUS
  <1>2. /\ timestamps \in Seq(Nat) /\ values \in Seq(Nat) /\ cnt \in Nat
        /\ nth \in Nat /\ nth < Len(timestamps) /\ pc = "count"
        /\ Current \in Nat /\ timestamps[1] \in Nat
        /\ begin_time \in Nat /\ next_begin_time \in Nat
        /\ next_begin_time = timestamps[1] + (n + 1) * Interval
        /\ \A k \in 1 .. n : values[k] = Cardinality(In(timestamps, nth, k))
        /\ cnt = Cardinality(In(timestamps, nth, n + 1))
    BY <1>1, Round
  <1>3. /\ n \in Nat /\ Len(values') = n + 1 /\ values' \in Seq(Nat)
        /\ \A k \in 1 .. n : values'[k] = values[k]
        /\ values'[n + 1] = cnt
    BY <1>1, <1>2, SMTT(30)
  <1>4. HistTypeOK'
    <2>1. next_begin_time \in Nat  BY <1>2
    <2>2. begin_time' \in Nat /\ next_begin_time' \in Nat /\ begin_time' # None
      BY <1>1, <2>1
    <2> QED  BY <1>1, <1>3, <2>2 DEF Inv, HistTypeOK
  <1>5. \A j \in 1 .. nth : timestamps[j] < next_begin_time
    BY <1>1, <1>2 DEF Inv
  <1>6. In(timestamps, nth, n + 2) = {}
    <2>1. (n + 2) - 1 = n + 1  BY <1>3
    <2> QED  BY <1>2, <1>5, <2>1, SMTT(30) DEF In
  <1>7. \A k : CountedIn(k)' = Cardinality(In(timestamps, nth, k))
    BY <1>1 DEF CountedIn, In
  <1>8. BucketsExact'
    <2>1. begin_time' = timestamps[1] + Len(values') * Interval
      BY <1>1, <1>2, <1>3
    <2>2. \A k \in 1 .. Len(values') : values'[k] = CountedIn(k)'
      <3>1. \A k \in 1 .. n : values'[k] = CountedIn(k)'  BY <1>2, <1>3, <1>7
      <3>2. values'[n + 1] = CountedIn(n + 1)'  BY <1>2, <1>3, <1>7
      <3> QED  BY <1>3, <3>1, <3>2
    <2>3. cnt' = CountedIn(Len(values) + 1)'
      <3>1. Len(values') + 1 = n + 2  BY <1>3
      <3>2. CountedIn(Len(values) + 1)' = Cardinality(In(timestamps, nth, n + 2))
        BY <1>1, <3>1 DEF CountedIn, In
      <3> QED  BY <1>1, <1>6, <3>2, FS_EmptySet
    <2> QED  BY <1>1, <2>1, <2>2, <2>3 DEF BucketsExact
  <1>9. /\ begin_time' # None /\ Nondecreasing(timestamps')
        /\ \A j \in 1 .. nth' : timestamps'[j] < next_begin_time'
        /\ timestamps'[nth' + 1] >= begin_time'
    <2>1. Nondecreasing(timestamps)  BY <1>2 DEF Inv
    <2>2. \A j \in 1 .. nth : timestamps[j] < next_begin_time + Interval
      <3>1. next_begin_time \in Nat /\ \A j \in 1 .. nth : timestamps[j] \in Nat  BY <1>2, SMTT(30)
      <3> QED  BY <1>5, <3>1
    <2> QED  BY <1>1, <1>2, <2>1, <2>2 DEF Current, Nondecreasing
  <1> QED  BY <1>1, <1>2, <1>4, <1>8, <1>9 DEF Inv

(* The timestamp that is counted is in the current bucket and in no other. *)
LEMMA CountCommitInv == Inv /\ CountCommit => Inv'
  <1> SUFFICES ASSUME Inv, CountCommit PROVE Inv'
    OBVIOUS
  <1> USE HistAssumption
  <1>1. /\ More /\ begin_time # None /\ Current < next_begin_time
        /\ cnt' = cnt + 1 /\ nth' = nth + 1
        /\ UNCHANGED << log, nread, pc, lats, timestamps, begin_time, next_begin_time, values >>
    BY DEF CountCommit
  <1> PICK n : n = Len(values)
    OBVIOUS
  <1>2. /\ timestamps \in Seq(Nat) /\ values \in Seq(Nat) /\ cnt \in Nat
        /\ nth \in Nat /\ nth < Len(timestamps) /\ pc = "count"
        /\ Current \in Nat /\ timestamps[1] \in Nat
        /\ begin_time \in Nat /\ next_begin_time \in Nat
        /\ Current >= begin_time
        /\ begin_time = timestamps[1] + n * Interval
        /\ next_begin_time = timestamps[1] + (n + 1) * Interval
        /\ \A k \in 1 .. n : values[k] = Cardinality(In(timestamps, nth, k))
        /\ cnt = Cardinality(In(timestamps, nth, n + 1))
    BY <1>1, Round
  <1>3. n \in Nat  BY <1>2
  <1>types. /\ timestamps \in Seq(Nat) /\ nth \in Nat /\ nth < Len(timestamps)
        /\ begin_time \in Nat /\ next_begin_time \in Nat
        /\ Current \in Nat /\ Current >= begin_time
    BY <1>2
  <1>4. HistTypeOK'
    <2>1. cnt' \in Nat /\ nth' \in 0 .. Len(timestamps)  BY <1>1, <1>types DEF Inv, HistTypeOK
    <2> QED  BY <1>1, <2>1 DEF Inv, HistTypeOK
  <1>5. \A k \in 1 .. n : In(timestamps, nth + 1, k) = In(timestamps, nth, k)
    <2> TAKE k \in 1 .. n
    <2>1. k * Interval <= n * Interval  BY <1>3, LaterBucket
    <2>2. k * Interval \in Nat /\ n * Interval \in Nat  BY <1>3
    <2>3. ~(Current < timestamps[1] + k * Interval)
      <3>1. PICK low : low = k * Interval  OBVIOUS
      <3>2. PICK high : high = n * Interval  OBVIOUS
      <3>3. low \in Nat /\ high \in Nat /\ low <= high  BY <2>1, <2>2, <3>1, <3>2
      <3>4. /\ timestamps[1] \in Nat
            /\ Current >= timestamps[1] + high
        BY <1>2, <3>2
      <3>5. ~(Current < timestamps[1] + low)  BY <1>types, <3>3, <3>4
      <3> QED  BY <3>1, <3>5
    <2>4. nth + 1 \notin In(timestamps, nth + 1, k)  BY <2>3 DEF In, Current
    <2> QED  BY <1>2, <1>3, <2>4, OneMore, SMTT(30)
  <1>6. Cardinality(In(timestamps, nth + 1, n + 1)) = cnt + 1
    <2>1. (n + 1) - 1 = n  BY <1>3
    <2>2. nth + 1 \in In(timestamps, nth + 1, n + 1)
      BY <1>1, <1>2, <2>1 DEF In, Current
    <2> QED  BY <1>2, <1>3, <2>2, OneMore, SMTT(30)
  <1>7. \A k : CountedIn(k)' = Cardinality(In(timestamps, nth + 1, k))
    BY <1>1 DEF CountedIn, In
  <1>8. BucketsExact'
    <2>1. CountedIn(Len(values) + 1)' = cnt'
      <3>1. CountedIn(Len(values) + 1)' = Cardinality(In(timestamps, nth + 1, n + 1))
        BY <1>1 DEF CountedIn, In
      <3> QED  BY <1>1, <1>6, <3>1
    <2>2. \A k \in 1 .. Len(values') : values'[k] = CountedIn(k)'
      BY <1>1, <1>2, <1>5, <1>7
    <2> QED  BY <1>1, <2>1, <2>2 DEF Inv, BucketsExact
  <1>9. /\ \A j \in 1 .. nth + 1 : timestamps[j] < next_begin_time
        /\ nth + 1 < Len(timestamps) => timestamps[nth + 2] >= begin_time
    <2>1. /\ Nondecreasing(timestamps)
          /\ \A j \in 1 .. nth : timestamps[j] < next_begin_time
      BY <1>1, <1>2 DEF Inv
    <2>2. \A j \in 1 .. nth + 1 : timestamps[j] < next_begin_time
      BY <1>1, <1>types, <2>1, SMTT(30) DEF Current
    <2>3. ASSUME nth + 1 < Len(timestamps)
          PROVE  timestamps[nth + 2] >= begin_time
      <3>1. nth + 1 \in DOMAIN timestamps /\ nth + 2 \in DOMAIN timestamps
            /\ nth + 1 < nth + 2
        BY <1>types, <2>3
      <3>2. timestamps[nth + 1] <= timestamps[nth + 2]
        BY <2>1, <3>1 DEF Nondecreasing
      <3>3. timestamps[nth + 2] \in Nat  BY <1>types, <3>1
      <3>4. timestamps[nth + 1] >= begin_time /\ timestamps[nth + 1] \in Nat
        BY <1>types DEF Current
      <3> QED  BY <1>types, <3>4, <3>2, <3>3
    <2> QED  BY <2>2, <2>3
  <1>10. (nth + 1) + 1 = nth + 2  BY <1>2
  <1> QED  BY <1>1, <1>2, <1>4, <1>8, <1>9, <1>10 DEF Inv

(* The prints that follow the loops. *)
LEMMA PrintsInv == Inv /\ (PrintValues \/ PrintLatency) => Inv'
  <1>1. ASSUME Inv, PrintValues PROVE Inv'
    <2>1. values' \in Seq(Nat)  BY <1>1 DEF Inv, HistTypeOK, PrintValues
    <2>2. HistTypeOK'  BY <1>1, <2>1 DEF Inv, HistTypeOK, PrintValues
    <2> QED  BY <1>1, <2>2 DEF Inv, PrintValues, BucketsExact
  <1>2. ASSUME Inv, PrintLatency PROVE Inv'
    <2>1. pc' \in {"printed", "ZeroDivisionError", "OutliersOnly"}
      BY <1>2 DEF PrintLatency
    <2>2. HistTypeOK'  BY <1>2, <2>1 DEF Inv, HistTypeOK, PrintLatency
    <2> QED  BY <1>2, <2>1, <2>2 DEF Inv, PrintLatency, BucketsExact
  <1> QED  BY <1>1, <1>2
------------------------------------------------------------------------------
(* Every state of the script satisfies the invariant. *)
THEOREM HistInv == HistSpec => []Inv
  <1>1. Inv /\ [HistNext]_histVars => Inv'
    <2>1. ASSUME Inv, UNCHANGED histVars PROVE Inv'
      BY <2>1 DEF Inv, histVars, HistTypeOK, BucketsExact, CountedIn, Nondecreasing
    <2> QED  BY <2>1, ReadLineInv, SortInv, StartBucketsInv, NextBucketInv,
                CountCommitInv, PrintsInv DEF HistNext
  <1> QED  BY <1>1, InitInv, PTL DEF HistSpec

(* The variables of the script keep their types. *)
THEOREM HistTypes == HistSpec => []HistTypeOK
  <1>1. Inv => HistTypeOK  BY DEF Inv
  <1> QED  BY <1>1, HistInv, PTL

(* While thr_hist.py counts, each bucket holds the timestamps of its       *)
(* interval, for every input and every positive interval.                  *)
THEOREM HistBuckets == HistSpec => []BucketsExact
  <1>1. Inv => BucketsExact  BY DEF Inv
  <1> QED  BY <1>1, HistInv, PTL
------------------------------------------------------------------------------
(* A set of numbers that is not empty has a least one. *)
LEMMA LeastNat ==
  ASSUME NEW S \in SUBSET Nat, S # {}
  PROVE  \E m \in S : \A x \in S : m <= x
  <1> DEFINE R == OpToRel(<, Nat)
  <1>1. IsWellFoundedOn(R, Nat)
    BY NatLessThanWellFounded
  <1>2. \A x, y \in Nat : << x, y >> \in R <=> x < y
    BY DEF OpToRel
  <1> HIDE DEF R
  <1>3. PICK m \in S : \A y \in S : ~ (<< y, m >> \in R)
    BY <1>1, WFMin
  <1>4. m \in Nat /\ \A y \in S : y \in Nat /\ ~(y < m)
    BY <1>2, <1>3
  <1> QED BY <1>3, <1>4

(* The places of a sequence whose values are at most m. *)
UpTo(s, m) == {j \in DOMAIN s : s[j] <= m}
Below(s, m) == {j \in DOMAIN s : s[j] < m}

(* They are finitely many, and every value has its place. *)
LEMMA UpToFinite ==
  ASSUME NEW s \in Seq(Nat), NEW m \in Nat
  PROVE  /\ IsFiniteSet(DOMAIN s) /\ Cardinality(DOMAIN s) = Len(s)
         /\ UpTo(s, m) \subseteq DOMAIN s /\ IsFiniteSet(UpTo(s, m))
         /\ Cardinality(UpTo(s, m)) \in Nat
         /\ Below(s, m) \subseteq DOMAIN s /\ IsFiniteSet(Below(s, m))
         /\ Cardinality(Below(s, m)) \in Nat
  <1>1. DOMAIN s = 1 .. Len(s) /\ Len(s) \in Nat
    OBVIOUS
  <1>2. IsFiniteSet(1 .. Len(s)) /\ Cardinality(1 .. Len(s)) = Len(s)
    <2>1. /\ IsFiniteSet(1 .. Len(s))
          /\ Cardinality(1 .. Len(s)) = IF 1 > Len(s) THEN 0 ELSE Len(s) - 1 + 1
      BY <1>1, FS_Interval, SMTT(30)
    <2> QED BY <1>1, <2>1
  <1>3. UpTo(s, m) \subseteq DOMAIN s /\ Below(s, m) \subseteq DOMAIN s
    BY DEF UpTo, Below
  <1>4. IsFiniteSet(UpTo(s, m)) /\ IsFiniteSet(Below(s, m))
    BY <1>1, <1>2, <1>3, FS_Subset
  <1> QED BY <1>1, <1>2, <1>3, <1>4, FS_CardinalityType

(* For every rank there is a bound that more values lie under. *)
LEMMA BoundExists ==
  ASSUME NEW s \in Seq(Nat), NEW k \in Nat, k < Len(s)
  PROVE  \E m \in Nat : Cardinality(UpTo(s, m)) > k
  <1> SUFFICES ASSUME \A m \in Nat : ~(Cardinality(UpTo(s, m)) > k)
               PROVE  FALSE
    OBVIOUS
  <1> DEFINE C == [m \in Nat |-> Cardinality(UpTo(s, m))]
             G == {k - C[m] : m \in Nat}
  <1>1. \A m \in Nat : C[m] = Cardinality(UpTo(s, m)) /\ C[m] \in Nat
    BY UpToFinite
  <1> HIDE DEF C
  <1>2. \A m \in Nat : C[m] \in Nat /\ C[m] <= k
    BY <1>1
  <1>3. G \in SUBSET Nat /\ G # {}
    <2>1. \A m \in Nat : k - C[m] \in Nat  BY <1>2
    <2>2. k - C[0] \in G  OBVIOUS
    <2> QED BY <2>1, <2>2
  <1>4. PICK g \in G : \A x \in G : g <= x
    BY <1>3, LeastNat
  <1>5. PICK m \in Nat : g = k - C[m]
    BY <1>4
  <1>6. \A x \in Nat : C[x] <= C[m]
    <2> TAKE x \in Nat
    <2>1. k - C[x] \in G  OBVIOUS
    <2>2. k - C[m] <= k - C[x]  BY <1>4, <1>5, <2>1
    <2> QED BY <2>2, <1>2
  <1> HIDE DEF G
  <1>7. UpTo(s, m) # DOMAIN s
    <2>1. Cardinality(UpTo(s, m)) < Cardinality(DOMAIN s)
      BY <1>1, <1>2, UpToFinite
    <2> QED BY <2>1, <1>1
  <1>8. PICK j \in DOMAIN s : ~(s[j] <= m)
    BY <1>7 DEF UpTo
  <1>9. s[j] \in Nat /\ s[j] > m
    BY <1>8
  <1>10. UpTo(s, m) \cup {j} \subseteq UpTo(s, s[j]) /\ j \notin UpTo(s, m)
    <2>1. \A i \in DOMAIN s : s[i] \in Nat  OBVIOUS
    <2> QED BY <1>8, <1>9, <2>1 DEF UpTo
  <1>11. /\ IsFiniteSet(UpTo(s, m) \cup {j})
         /\ Cardinality(UpTo(s, m) \cup {j}) = Cardinality(UpTo(s, m)) + 1
    BY <1>10, UpToFinite, FS_AddElement
  <1>12. Cardinality(UpTo(s, m) \cup {j}) <= Cardinality(UpTo(s, s[j]))
    <2>1. IsFiniteSet(UpTo(s, s[j]))  BY <1>9, UpToFinite
    <2> QED BY <1>10, <2>1, FS_Subset
  <1>13. C[m] + 1 <= C[s[j]]
    BY <1>1, <1>9, <1>11, <1>12
  <1> QED BY <1>2, <1>6, <1>9, <1>13

(* The k-th smallest value is there. *)
LEMMA RankedIs ==
  ASSUME NEW s \in Seq(Nat), NEW k \in Nat, k < Len(s)
  PROVE  /\ Ranked(s, k) \in {s[j] : j \in DOMAIN s}
         /\ Ranked(s, k) \in Nat
         /\ Cardinality(Below(s, Ranked(s, k))) <= k
         /\ Cardinality(UpTo(s, Ranked(s, k))) > k
  <1> DEFINE W == {m \in Nat : Cardinality(UpTo(s, m)) > k}
  <1>1. W \in SUBSET Nat /\ W # {}
    BY BoundExists
  <1>2. PICK m \in W : \A x \in W : m <= x
    BY <1>1, LeastNat
  <1>3. m \in Nat /\ Cardinality(UpTo(s, m)) > k
    BY <1>2
  <1>4. \A i \in DOMAIN s : s[i] \in Nat
    OBVIOUS
  <1>5. Cardinality(Below(s, m)) <= k
    <2>1. CASE m = 0
      <3>1. Below(s, m) = {}  BY <1>4, <2>1 DEF Below
      <3> QED BY <3>1, FS_EmptySet
    <2>2. CASE m # 0
      <3>1. m - 1 \in Nat /\ m - 1 \notin W  BY <1>2, <1>3, <2>2
      <3>2. Cardinality(UpTo(s, m - 1)) <= k  BY <3>1, UpToFinite, SMTT(30)
      <3>3. Below(s, m) = UpTo(s, m - 1)
        <4>1. \A i \in DOMAIN s : s[i] < m <=> s[i] <= m - 1  BY <1>3, <1>4
        <4> QED BY <4>1 DEF Below, UpTo
      <3> QED BY <3>2, <3>3
    <2> QED BY <2>1, <2>2
  <1>6. m \in {s[j] : j \in DOMAIN s}
    <2>1. UpTo(s, m) # Below(s, m)
      BY <1>3, <1>5, UpToFinite
    <2>2. PICK j \in DOMAIN s : (s[j] <= m /\ ~(s[j] < m)) \/ (s[j] < m /\ ~(s[j] <= m))
      BY <2>1 DEF UpTo, Below
    <2>3. s[j] = m  BY <1>3, <1>4, <2>2
    <2> QED BY <2>3
  <1>7. Ranked(s, k) = CHOOSE v \in {s[j] : j \in DOMAIN s} :
                         /\ Cardinality(Below(s, v)) <= k
                         /\ Cardinality(UpTo(s, v)) > k
    BY DEF Ranked, Below, UpTo
  <1> HIDE DEF W
  <1>8. /\ Ranked(s, k) \in {s[j] : j \in DOMAIN s}
        /\ Cardinality(Below(s, Ranked(s, k))) <= k
        /\ Cardinality(UpTo(s, Ranked(s, k))) > k
    BY <1>3, <1>5, <1>6, <1>7
  <1> QED BY <1>4, <1>8

(* Ranks are in the order of the values. *)
LEMMA RankedMonotone ==
  ASSUME NEW s \in Seq(Nat), NEW k \in Nat, NEW h \in Nat, k <= h, h < Len(s)
  PROVE  Ranked(s, k) <= Ranked(s, h)
  <1> DEFINE v == Ranked(s, k)
             w == Ranked(s, h)
  <1>1. /\ v \in Nat /\ Cardinality(Below(s, v)) <= k
        /\ w \in Nat /\ Cardinality(UpTo(s, w)) > h
    BY RankedIs
  <1> HIDE DEF v, w
  <1>2. ASSUME w < v PROVE FALSE
    <2>1. UpTo(s, w) \subseteq Below(s, v)
      <3>1. \A i \in DOMAIN s : s[i] \in Nat  OBVIOUS
      <3> QED BY <1>1, <1>2, <3>1 DEF UpTo, Below
    <2>2. Cardinality(UpTo(s, w)) <= Cardinality(Below(s, v))
      BY <1>1, <2>1, UpToFinite, FS_Subset
    <2> QED BY <1>1, <2>2, UpToFinite, SMTT(30)
  <1>3. v <= w
    BY <1>1, <1>2
  <1> QED BY <1>3 DEF v, w

(* A quartile, from the place that it is at. *)
LEMMA QuartileAt ==
  ASSUME NEW s, NEW q, NEW k, NEW r, NEW place, place = q * (Len(s) - 1),
         place \div 4 = k, place % 4 = r, Ranked(s, k) \in Int
  PROVE  Quartile4(s, q) = IF r = 0 THEN 4 * Ranked(s, k)
                           ELSE 4 * Ranked(s, k) + r * (Ranked(s, k + 1) - Ranked(s, k))
  <1> DEFINE low == Ranked(s, k)
             high == IF r = 0 THEN low ELSE Ranked(s, k + 1)
  <1>1. Quartile4(s, q) = 4 * low + r * (high - low)
    BY DEF Quartile4
  <1>2. CASE r = 0
    <2>1. high = low /\ low \in Int  BY <1>2
    <2> HIDE DEF low, high
    <2>2. 4 * low + r * (high - low) = 4 * low  BY <1>2, <2>1
    <2> QED BY <1>1, <1>2, <2>2 DEF low
  <1>3. CASE r # 0
    BY <1>1, <1>3
  <1> QED BY <1>2, <1>3

(* Whatever the latencies are, one of them lies between the bounds: the    *)
(* one that the lower quartile is next to.                                 *)
LEMMA SomeKept ==
  ASSUME NEW x \in Seq(Nat), x # << >>
  PROVE  RemoveOutliers(x) # {}
  <1> DEFINE n == Len(x) - 1
             U == Quartile4(x, 3)
             L == Quartile4(x, 1)
  <1>1. Len(x) \in Nat /\ Len(x) > 0 /\ n \in Nat
    OBVIOUS
  <1>2. PICK t \in Nat, r \in 0 .. 3 : n = 4 * t + r
    <2>1. n \div 4 \in Nat /\ n % 4 \in 0 .. 3 /\ n = 4 * (n \div 4) + (n % 4)
      BY <1>1
    <2> QED BY <2>1
  <1> DEFINE h == (3 * r) \div 4
             a == Ranked(x, t)
             b == Ranked(x, t + 1)
             c == Ranked(x, 3 * t + h)
             d == Ranked(x, 3 * t + h + 1)
  <1>3. \A k \in 0 .. n : /\ Ranked(x, k) \in Nat
                          /\ Ranked(x, k) \in {x[j] : j \in DOMAIN x}
    <2>1. \A k \in 0 .. n : k \in Nat /\ k < Len(x)  BY <1>1
    <2> QED BY <2>1, RankedIs
  <1>4. L = IF r = 0 THEN 4 * a ELSE 4 * a + r * (b - a)
    <2>1. 1 * n = n /\ n \div 4 = t /\ n % 4 = r /\ t \in 0 .. n
      <3> HIDE DEF n
      <3>1. n \div 4 = t /\ n % 4 = r  BY <1>2
      <3>2. t <= n  BY <1>2
      <3> QED BY <1>1, <3>1, <3>2
    <2>2. a \in Int  BY <1>3, <2>1
    <2> HIDE DEF n
    <2> QED BY <2>1, <2>2, QuartileAt DEF n
  <1>5. U = IF r = 0 THEN 4 * c ELSE 4 * c + ((3 * r) % 4) * (d - c)
    <2>1. (3 * n) \div 4 = 3 * t + h /\ (3 * n) % 4 = (3 * r) % 4
      BY <1>2, SMTT(30)
    <2>2. 3 * t + h \in 0 .. n /\ ((3 * r) % 4 = 0 <=> r = 0)
      BY <1>1, <1>2
    <2>3. c \in Int  BY <1>3, <2>2
    <2> QED BY <2>1, <2>2, <2>3, QuartileAt, ZenonT(60)
  <1>6. \A k, m \in 0 .. n : k <= m => Ranked(x, k) <= Ranked(x, m)
    <2>1. \A k \in 0 .. n : k \in Nat /\ k < Len(x)  BY <1>1
    <2> QED BY <2>1, RankedMonotone
  <1>7. RemoveOutliers(x) = {j \in DOMAIN x : /\ 8 * x[j] >= 2 * L - (U - L) * 3
                                              /\ 8 * x[j] <= 2 * U + (U - L) * 3}
    BY DEF RemoveOutliers, outlierConstant2
  <1> HIDE DEF U, L, n
  <1>8. ASSUME NEW e \in Nat, e \in {x[j] : j \in DOMAIN x},
               8 * e >= 2 * L - (U - L) * 3, 8 * e <= 2 * U + (U - L) * 3
        PROVE  RemoveOutliers(x) # {}
    BY <1>7, <1>8
  <1>9. CASE r = 0
    <2>1. h = 0 /\ t \in 0 .. n /\ 3 * t \in 0 .. n /\ t <= 3 * t /\ 3 * t + h = 3 * t
      BY <1>1, <1>2, <1>9
    <2>2. a \in Nat /\ c \in Nat /\ a <= c /\ a \in {x[j] : j \in DOMAIN x}
      BY <1>3, <1>6, <2>1
    <2>3. L = 4 * a /\ U = 4 * c
      BY <1>4, <1>5, <1>9, <2>1
    <2> HIDE DEF a, c
    <2>4. 8 * a >= 2 * L - (U - L) * 3 /\ 8 * a <= 2 * U + (U - L) * 3
      BY <2>2, <2>3
    <2> QED BY <1>8, <2>2, <2>4
  <1>10. CASE r # 0
    <2>1. r \in {1, 2, 3} /\ h = r - 1 /\ (3 * r) % 4 = 4 - r
      BY <1>10
    <2>2. /\ t \in 0 .. n /\ t + 1 \in 0 .. n
          /\ 3 * t + h \in 0 .. n /\ 3 * t + h + 1 \in 0 .. n
          /\ t <= t + 1 /\ t <= 3 * t + h /\ 3 * t + h <= 3 * t + h + 1
          /\ t + 1 <= 3 * t + h + 1 /\ (r # 1 => t + 1 <= 3 * t + h)
      BY <1>1, <1>2, <2>1
    <2>3. /\ a \in Nat /\ b \in Nat /\ c \in Nat /\ d \in Nat
          /\ b \in {x[j] : j \in DOMAIN x}
      BY <1>3, <2>2
    <2>4. a <= b /\ a <= c /\ c <= d /\ b <= d /\ (r # 1 => b <= c)
      BY <1>6, <2>2
    <2>5. L = 4 * a + r * (b - a) /\ U = 4 * c + (4 - r) * (d - c)
      BY <1>4, <1>5, <1>10, <2>1
    <2> HIDE DEF a, b, c, d, h
    <2>6. 8 * b >= 2 * L - (U - L) * 3 /\ 8 * b <= 2 * U + (U - L) * 3
      <3>1. CASE r = 1
        <4>1. L = 3 * a + b /\ U = c + 3 * d  BY <2>3, <2>5, <3>1
        <4> QED BY <2>3, <2>4, <4>1
      <3>2. CASE r = 2
        <4>1. L = 2 * a + 2 * b /\ U = 2 * c + 2 * d  BY <2>3, <2>5, <3>2
        <4> QED BY <2>3, <2>4, <3>2, <4>1
      <3>3. CASE r = 3
        <4>1. L = a + 3 * b /\ U = 3 * c + d  BY <2>3, <2>5, <3>3
        <4> QED BY <2>3, <2>4, <3>3, <4>1
      <3> QED BY <2>1, <3>1, <3>2, <3>3
    <2> QED BY <1>8, <2>3, <2>6
  <1> QED BY <1>9, <1>10

(* remove_outliers never leaves nothing, so the second mean of the report  *)
(* does not divide by zero, whatever latencies the clients measured.       *)
THEOREM HistKeptSome == HistSpec => []KeptSome
  <1>1. HistInit => KeptSome
    BY DEF HistInit, KeptSome
  <1>2. Inv /\ KeptSome /\ [HistNext]_histVars => KeptSome'
    <2> SUFFICES ASSUME Inv, KeptSome, [HistNext]_histVars PROVE KeptSome'
      OBVIOUS
    <2>1. CASE PrintLatency
      <3>1. lats \in Seq(Nat)  BY DEF Inv, HistTypeOK
      <3>2. lats # << >> => RemoveOutliers(lats) # {}  BY <3>1, SomeKept
      <3> QED BY <2>1, <3>2 DEF PrintLatency, KeptSome
    <2>2. CASE ReadLine \/ SortTimestamps \/ StartBuckets \/ NextBucket
               \/ CountCommit \/ PrintValues \/ UNCHANGED histVars
      BY <2>2 DEF ReadLine, SortTimestamps, StartBuckets, NextBucket, CountCommit,
                  PrintValues, histVars, KeptSome
    <2> QED BY <2>1, <2>2 DEF HistNext
  <1> QED BY <1>1, <1>2, HistInv, PTL DEF HistSpec
------------------------------------------------------------------------------
(* The places of a sequence with a value in V, and the commits among the   *)
(* first n lines with a time in V.                                         *)
Places(s, V) == {j \in DOMAIN s : s[j] \in V}
Stamped(n, V) == {j \in 1 .. n : log[j].kind = "commit" /\ Time(log[j]) \in V}

(* The timestamps are the times of the commits read so far, as often as    *)
(* they occur and in whatever order.                                       *)
SameTimes ==
  \A V \in SUBSET Nat : Cardinality(Places(timestamps, V)) = Cardinality(Stamped(nread, V))

(* What the histogram rests on. *)
HistogramInv ==
  /\ pc \in {"read", "count"} =>
       SameTimes /\ \A j \in 1 .. nread : log[j].kind # "torn"
  /\ pc = "count" =>
       /\ nread = Len(log)
       /\ begin_time # None /\ nth = Len(timestamps) => cnt > 0
  /\ HistogramOfLog

(* What HistogramOfLog says of a printed histogram vs and the input lg. *)
Reported(lg, vs) ==
  LET commits == {j \in DOMAIN lg : lg[j].kind = "commit"}
      first == Time(lg[CHOOSE j \in commits :
                         \A k \in commits : Time(lg[j]) <= Time(lg[k])])
      Bucket(j) == (Time(lg[j]) - first) \div Interval + 1
  IN  /\ \A j \in DOMAIN lg : lg[j].kind # "torn"
      /\ commits # {} =>
           /\ vs = [k \in 1 .. Len(vs) |-> Cardinality({j \in commits : Bucket(j) = k})]
           /\ \A j \in commits : Bucket(j) <= Len(vs)
           /\ vs[Len(vs)] > 0

LEMMA HistogramIsReported ==
  /\ HistogramOfLog <=> (pc \in {"latency", "printed"} => Reported(log, values))
  /\ HistogramOfLog' <=> (pc' \in {"latency", "printed"} => Reported(log', values'))
  <1>1. HistogramOfLog <=> (pc \in {"latency", "printed"} => Reported(log, values))
    BY Zenon DEF HistogramOfLog, Reported
  <1>2. HistogramOfLog' <=> (pc' \in {"latency", "printed"} => Reported(log', values'))
    BY Zenon DEF HistogramOfLog, Reported
  <1> QED BY <1>1, <1>2

(* Both kinds of places are finitely many. *)
LEMMA PlacesFinite ==
  ASSUME NEW s \in Seq(Nat), NEW n \in Nat, NEW V
  PROVE  /\ IsFiniteSet(Places(s, V)) /\ Cardinality(Places(s, V)) \in Nat
         /\ IsFiniteSet(Stamped(n, V)) /\ Cardinality(Stamped(n, V)) \in Nat
  <1>1. IsFiniteSet(1 .. Len(s)) /\ IsFiniteSet(1 .. n)
    BY FS_Interval
  <1>2. Places(s, V) \subseteq 1 .. Len(s) /\ Stamped(n, V) \subseteq 1 .. n
    BY DEF Places, Stamped
  <1>3. IsFiniteSet(Places(s, V)) /\ IsFiniteSet(Stamped(n, V))
    BY <1>1, <1>2, FS_Subset
  <1> QED BY <1>3, FS_CardinalityType

(* Rearranging a sequence moves no more values into V ...                  *)
LEMMA RearrangedAtMost ==
  ASSUME NEW s \in Seq(Nat), NEW place \in [DOMAIN s -> DOMAIN s],
         \A j, k \in DOMAIN s : place[j] = place[k] => j = k,
         NEW t, t = [j \in DOMAIN s |-> s[place[j]]], NEW V
  PROVE  /\ IsFiniteSet(Places(t, V))
         /\ Cardinality(Places(t, V)) <= Cardinality(Places(s, V))
  <1> DEFINE f == [j \in Places(t, V) |-> place[j]]
  <1>1. \A j \in Places(t, V) : j \in DOMAIN s /\ place[j] \in Places(s, V)
    BY DEF Places
  <1>2. f \in [Places(t, V) -> Places(s, V)]
    BY <1>1
  <1>3. \A j, k \in Places(t, V) : f[j] = f[k] => j = k
    BY <1>1
  <1> HIDE DEF f
  <1>4. f \in Injection(Places(t, V), Places(s, V))
    BY <1>2, <1>3 DEF Injection, IsInjective
  <1>5. IsFiniteSet(Places(s, V))
    <2>1. 0 \in Nat  OBVIOUS
    <2> QED BY <2>1, PlacesFinite
  <1> QED BY <1>4, <1>5, FS_Injection

(* ... and, as it moves no more out of it, the same number of them.        *)
LEMMA Rearranged ==
  ASSUME NEW s \in Seq(Nat), NEW place \in [DOMAIN s -> DOMAIN s],
         \A j, k \in DOMAIN s : place[j] = place[k] => j = k,
         NEW t, t = [j \in DOMAIN s |-> s[place[j]]], NEW V \in SUBSET Nat
  PROVE  Cardinality(Places(t, V)) = Cardinality(Places(s, V))
  <1> DEFINE N == Nat \ V
  <1>1. DOMAIN t = DOMAIN s /\ \A j \in DOMAIN s : s[j] \in Nat /\ t[j] \in Nat
    OBVIOUS
  <1>2. /\ Places(s, V) \cup Places(s, N) = DOMAIN s /\ Places(s, V) \cap Places(s, N) = {}
        /\ Places(t, V) \cup Places(t, N) = DOMAIN s /\ Places(t, V) \cap Places(t, N) = {}
    BY <1>1 DEF Places
  <1> HIDE DEF N
  <1>3. /\ IsFiniteSet(Places(t, V)) /\ Cardinality(Places(t, V)) <= Cardinality(Places(s, V))
        /\ IsFiniteSet(Places(t, N)) /\ Cardinality(Places(t, N)) <= Cardinality(Places(s, N))
    BY RearrangedAtMost
  <1>4. IsFiniteSet(Places(s, V)) /\ IsFiniteSet(Places(s, N))
    <2>1. 0 \in Nat  OBVIOUS
    <2> QED BY <2>1, PlacesFinite
  <1>5. Cardinality(Places(s, V)) + Cardinality(Places(s, N))
          = Cardinality(Places(t, V)) + Cardinality(Places(t, N))
    <2>1. Cardinality(DOMAIN s)
            = Cardinality(Places(s, V)) + Cardinality(Places(s, N)) - Cardinality({})
      <3>1. Cardinality(Places(s, V) \cup Places(s, N))
              = Cardinality(Places(s, V)) + Cardinality(Places(s, N))
                  - Cardinality(Places(s, V) \cap Places(s, N))
        BY <1>4, FS_Union
      <3> QED BY <1>2, <3>1
    <2>2. Cardinality(DOMAIN s)
            = Cardinality(Places(t, V)) + Cardinality(Places(t, N)) - Cardinality({})
      <3>1. Cardinality(Places(t, V) \cup Places(t, N))
              = Cardinality(Places(t, V)) + Cardinality(Places(t, N))
                  - Cardinality(Places(t, V) \cap Places(t, N))
        BY <1>3, FS_Union
      <3> QED BY <1>2, <3>1
    <2>3. Cardinality({}) = 0  BY FS_EmptySet
    <2>4. /\ Cardinality(Places(s, V)) \in Nat /\ Cardinality(Places(s, N)) \in Nat
          /\ Cardinality(Places(t, V)) \in Nat /\ Cardinality(Places(t, N)) \in Nat
      BY <1>3, <1>4, FS_CardinalityType
    <2> QED BY <2>1, <2>2, <2>3, <2>4
  <1>6. /\ Cardinality(Places(s, V)) \in Nat /\ Cardinality(Places(s, N)) \in Nat
        /\ Cardinality(Places(t, V)) \in Nat /\ Cardinality(Places(t, N)) \in Nat
    BY <1>3, <1>4, FS_CardinalityType
  <1> QED BY <1>3, <1>5, <1>6

(* Nothing has been read. *)
LEMMA HistogramInit == HistInit => HistogramInv
  <1> SUFFICES ASSUME HistInit PROVE HistogramInv
    OBVIOUS
  <1>1. pc = "read" /\ nread = 0 /\ timestamps = << >>
    BY DEF HistInit
  <1>2. ASSUME NEW V \in SUBSET Nat
        PROVE  Cardinality(Places(timestamps, V)) = Cardinality(Stamped(nread, V))
    <2>1. Places(timestamps, V) = {} /\ Stamped(nread, V) = {}
      BY <1>1 DEF Places, Stamped
    <2> QED BY <2>1
  <1>3. SameTimes  BY <1>2 DEF SameTimes
  <1> QED BY <1>1, <1>3 DEF HistogramInv, HistogramOfLog

(* A line that is read adds its time to both sides, or to none. *)
LEMMA HistogramRead == Inv /\ HistogramInv /\ ReadLine => HistogramInv'
  <1> SUFFICES ASSUME Inv, HistogramInv, ReadLine PROVE HistogramInv'
    OBVIOUS
  <1> DEFINE line == log[nread + 1]
             n == Len(timestamps)
  <1>1. /\ log \in Seq(Line) /\ nread \in Nat /\ nread < Len(log)
        /\ timestamps \in Seq(Nat) /\ n \in Nat /\ pc = "read"
    BY HistAssumption DEF Inv, HistTypeOK, ReadLine
  <1>2. /\ log' = log /\ nread' = nread + 1 /\ begin_time = None
        /\ SameTimes /\ \A j \in 1 .. nread : log[j].kind # "torn"
    BY <1>1 DEF ReadLine, Inv, HistogramInv
  <1>3. line \in Line /\ (line.kind = "commit" => Time(line) \in Nat)
    <2>1. line \in Line  BY <1>1
    <2> QED BY <2>1, HistAssumption DEF Line, Time
  <1>4. HistogramOfLog'
    BY DEF ReadLine, HistogramOfLog
  <1>5. CASE line.kind = "torn"
    BY <1>4, <1>5 DEF ReadLine, HistogramInv
  <1>6. CASE line.kind = "other"
    <2>1. timestamps' = timestamps /\ pc' = "read"  BY <1>1, <1>6 DEF ReadLine
    <2>2. \A j \in 1 .. nread' : log'[j].kind # "torn"
      BY <1>1, <1>2, <1>6
    <2>3. \A V : Stamped(nread, V)' = Stamped(nread, V)
      BY <1>1, <1>2, <1>6 DEF Stamped
    <2>4. SameTimes'
      BY <1>2, <2>1, <2>3 DEF SameTimes
    <2> QED BY <1>4, <2>1, <2>2, <2>4 DEF HistogramInv
  <1>7. CASE line.kind = "commit"
    <2> DEFINE v == Time(line)
    <2>1. timestamps' = Append(timestamps, v) /\ pc' = "read" /\ v \in Nat
      BY <1>1, <1>3, <1>7 DEF ReadLine
    <2>2. \A j \in 1 .. nread' : log'[j].kind # "torn"
      BY <1>1, <1>2, <1>7
    <2>3. ASSUME NEW V \in SUBSET Nat
          PROVE  Cardinality(Places(timestamps, V)') = Cardinality(Stamped(nread, V)')
      <3>1. /\ IsFiniteSet(Places(timestamps, V)) /\ Cardinality(Places(timestamps, V)) \in Nat
            /\ IsFiniteSet(Stamped(nread, V)) /\ Cardinality(Stamped(nread, V)) \in Nat
        BY <1>1, PlacesFinite
      <3>2. /\ n + 1 \notin Places(timestamps, V) /\ nread + 1 \notin Stamped(nread, V)
        BY <1>1 DEF Places, Stamped
      <3>3. Cardinality(Places(timestamps, V)) = Cardinality(Stamped(nread, V))
        BY <1>2 DEF SameTimes
      <3>4. /\ DOMAIN timestamps' = 1 .. n + 1 /\ timestamps'[n + 1] = v
            /\ \A j \in 1 .. n : timestamps'[j] = timestamps[j]
            /\ DOMAIN timestamps = 1 .. n
        <4> HIDE DEF v
        <4> QED BY <1>1, <2>1
      <3>5. CASE v \in V
        <4>1. Places(timestamps, V)' = Places(timestamps, V) \cup {n + 1}
          BY <1>1, <3>4, <3>5 DEF Places
        <4>2. Stamped(nread, V)' = Stamped(nread, V) \cup {nread + 1}
          BY <1>1, <1>2, <1>7, <3>5 DEF Stamped
        <4>3. /\ Cardinality(Places(timestamps, V) \cup {n + 1})
                   = Cardinality(Places(timestamps, V)) + 1
              /\ Cardinality(Stamped(nread, V) \cup {nread + 1})
                   = Cardinality(Stamped(nread, V)) + 1
          BY <3>1, <3>2, FS_AddElement
        <4> QED BY <3>3, <4>1, <4>2, <4>3
      <3>6. CASE v \notin V
        <4>1. Places(timestamps, V)' = Places(timestamps, V)
          BY <1>1, <3>4, <3>6 DEF Places
        <4>2. Stamped(nread, V)' = Stamped(nread, V)
          BY <1>1, <1>2, <1>7, <3>6 DEF Stamped
        <4> QED BY <3>3, <4>1, <4>2
      <3> QED BY <3>5, <3>6
    <2>4. SameTimes'
      BY <2>3 DEF SameTimes
    <2> QED BY <1>4, <2>1, <2>2, <2>4 DEF HistogramInv
  <1> QED BY <1>5, <1>6, <1>7 DEF ReadLine

(* timestamps.sort() only rearranges them. *)
LEMMA HistogramSort == Inv /\ HistogramInv /\ SortTimestamps => HistogramInv'
  <1> SUFFICES ASSUME Inv, HistogramInv, SortTimestamps PROVE HistogramInv'
    OBVIOUS
  <1>1. PICK place \in [DOMAIN timestamps -> DOMAIN timestamps] :
          /\ \A j, k \in DOMAIN timestamps : place[j] = place[k] => j = k
          /\ timestamps' = [j \in DOMAIN timestamps |-> timestamps[place[j]]]
    BY DEF SortTimestamps
  <1>2. /\ timestamps \in Seq(Nat) /\ pc = "read" /\ pc' = "count" /\ nread = Len(log)
        /\ begin_time = None /\ UNCHANGED << log, nread, begin_time >>
    BY DEF Inv, HistTypeOK, SortTimestamps
  <1>3. SameTimes /\ \A j \in 1 .. nread : log[j].kind # "torn"
    BY <1>2 DEF HistogramInv
  <1>4. SameTimes'
    <2>1. \A V \in SUBSET Nat : Cardinality(Places(timestamps', V)) = Cardinality(Places(timestamps, V))
      BY <1>1, <1>2, Rearranged
    <2>2. \A V : Stamped(nread, V)' = Stamped(nread, V)
      BY <1>2 DEF Stamped
    <2>3. \A V : Places(timestamps, V)' = Places(timestamps', V)
      BY DEF Places
    <2> QED BY <1>3, <2>1, <2>2, <2>3 DEF SameTimes
  <1> QED BY <1>2, <1>3, <1>4 DEF HistogramInv, HistogramOfLog

(* A round of the second loop: there is more to count, or the current      *)
(* bucket has some.                                                        *)
LEMMA HistogramRound ==
  Inv /\ HistogramInv /\ (StartBuckets \/ NextBucket \/ CountCommit) => HistogramInv'
  <1> SUFFICES ASSUME Inv, HistogramInv, StartBuckets \/ NextBucket \/ CountCommit
               PROVE  HistogramInv'
    OBVIOUS
  <1>1. /\ pc = "count" /\ UNCHANGED << log, nread, pc, timestamps >>
        /\ SameTimes /\ nread = Len(log) /\ \A j \in 1 .. nread : log[j].kind # "torn"
    BY DEF HistogramInv, StartBuckets, NextBucket, CountCommit, More
  <1>2. SameTimes'
    BY <1>1, ZenonT(60) DEF SameTimes, Places, Stamped
  <1>3. begin_time' # None /\ nth' = Len(timestamps') => cnt' > 0
    <2>1. CASE StartBuckets \/ NextBucket
      BY <2>1 DEF StartBuckets, NextBucket, More
    <2>2. CASE CountCommit
      <3>1. cnt' = cnt + 1 /\ cnt \in Nat  BY <2>2 DEF CountCommit, Inv, HistTypeOK
      <3> QED BY <3>1
    <2> QED BY <2>1, <2>2
  <1>4. HistogramOfLog'
    BY <1>1 DEF HistogramOfLog
  <1> QED BY <1>1, <1>2, <1>3, <1>4 DEF HistogramInv

(* The bucket of a distance from the first timestamp. *)
LEMMA BucketOf ==
  ASSUME NEW a \in Nat, NEW k \in Nat \ {0}
  PROVE  /\ a \div Interval + 1 \in Nat
         /\ a \div Interval + 1 = k <=> a >= (k - 1) * Interval /\ a < k * Interval
         /\ a < k * Interval => a \div Interval + 1 <= k
  <1> USE HistAssumption
  <1> DEFINE q == a \div Interval
             i == k - 1
  <1>1. q \in Nat /\ i \in Nat /\ k = i + 1
    OBVIOUS
  <1>2. q * Interval <= a /\ a < q * Interval + Interval
    OBVIOUS
  <1>3. /\ q * Interval \in Nat /\ i * Interval \in Nat
        /\ k * Interval = i * Interval + Interval
    BY <1>1
  <1>4. q + 1 <= i => q * Interval + Interval <= i * Interval
    <2> SUFFICES ASSUME q + 1 <= i PROVE q * Interval + Interval <= i * Interval
      OBVIOUS
    <2>1. q + 1 \in 1 .. i  BY <1>1
    <2>2. (q + 1) * Interval <= i * Interval  BY <1>1, <2>1, LaterBucket
    <2>3. (q + 1) * Interval = q * Interval + Interval  BY <1>1
    <2> QED BY <2>2, <2>3
  <1>5. i + 1 <= q => i * Interval + Interval <= q * Interval
    <2> SUFFICES ASSUME i + 1 <= q PROVE i * Interval + Interval <= q * Interval
      OBVIOUS
    <2>1. i + 1 \in 1 .. q  BY <1>1
    <2>2. (i + 1) * Interval <= q * Interval  BY <1>1, <2>1, LaterBucket
    <2>3. (i + 1) * Interval = i * Interval + Interval  BY <1>1
    <2> QED BY <2>2, <2>3
  <1> DEFINE Q == q * Interval
             I == i * Interval
  <1>6. /\ Q \in Nat /\ I \in Nat /\ Q <= a /\ a < Q + Interval
        /\ k * Interval = I + Interval /\ (k - 1) * Interval = I
        /\ q + 1 <= i => Q + Interval <= I
        /\ i + 1 <= q => I + Interval <= Q
        /\ q = i => Q = I
    BY <1>2, <1>3, <1>4, <1>5
  <1> HIDE DEF q, i, Q, I
  <1>7. q + 1 = k <=> a >= I /\ a < I + Interval
    BY <1>1, <1>6
  <1>8. a < I + Interval => q + 1 <= k
    BY <1>1, <1>6
  <1>9. q + 1 \in Nat  BY <1>1
  <1>10. /\ q + 1 = k <=> a >= (k - 1) * Interval /\ a < k * Interval
         /\ a < k * Interval => q + 1 <= k
    BY <1>6, <1>7, <1>8
  <1> QED BY <1>9, <1>10 DEF q

(* When the last bucket is printed, the buckets of the timestamps are      *)
(* those of the commits of the input.                                      *)
LEMMA HistogramPrint == Inv /\ HistogramInv /\ PrintValues => HistogramInv'
  <1> SUFFICES ASSUME Inv, HistogramInv, PrintValues PROVE HistogramInv'
    OBVIOUS
  <1> USE HistAssumption
  <1> DEFINE commits == {j \in DOMAIN log : log[j].kind = "commit"}
             first == Time(log[CHOOSE j \in commits :
                                 \A k \in commits : Time(log[j]) <= Time(log[k])])
             Bucket(j) == (Time(log[j]) - first) \div Interval + 1
             n == Len(timestamps)
             L == Len(values)
             t1 == timestamps[1]
  <1>1. /\ pc = "count" /\ nth = n /\ values' = Append(values, cnt) /\ pc' = "latency"
        /\ UNCHANGED << log, nread, timestamps, begin_time, next_begin_time, cnt, nth >>
    BY DEF PrintValues
  <1>2. /\ log \in Seq(Line) /\ timestamps \in Seq(Nat) /\ values \in Seq(Nat) /\ cnt \in Nat
        /\ n \in Nat /\ L \in Nat /\ nread \in Nat
    BY DEF Inv, HistTypeOK
  <1>3. /\ SameTimes /\ nread = Len(log) /\ \A j \in 1 .. nread : log[j].kind # "torn"
        /\ begin_time # None /\ nth = n => cnt > 0
    BY <1>1 DEF HistogramInv
  <1>4. DOMAIN log = 1 .. nread
    BY <1>2, <1>3
  <1>5. \A j \in commits : j \in 1 .. nread /\ Time(log[j]) \in Nat
    <2> SUFFICES ASSUME NEW j \in commits PROVE j \in 1 .. nread /\ Time(log[j]) \in Nat
      OBVIOUS
    <2>1. j \in 1 .. nread /\ log[j] \in Line /\ log[j].kind = "commit"  BY <1>2, <1>4
    <2>2. log[j].sec \in Nat /\ log[j].usec \in 0 .. Second - 1  BY <2>1 DEF Line
    <2> QED BY <2>1, <2>2 DEF Time
  <1>6. \A V : Stamped(nread, V) = {j \in commits : Time(log[j]) \in V}
    BY <1>4 DEF Stamped
  <1>7. ASSUME NEW V \in SUBSET Nat
        PROVE  Places(timestamps, V) = {} <=> \A j \in commits : Time(log[j]) \notin V
    <2>1. /\ IsFiniteSet(Places(timestamps, V)) /\ IsFiniteSet(Stamped(nread, V))
          /\ Cardinality(Places(timestamps, V)) = Cardinality(Stamped(nread, V))
      BY <1>2, <1>3, PlacesFinite DEF SameTimes
    <2>2. Places(timestamps, V) = {} <=> Stamped(nread, V) = {}
      BY <2>1, FS_EmptySet
    <2> QED BY <1>6, <2>2
  <1>8. values' \in Seq(Nat) /\ Len(values') = L + 1 /\ values'[L + 1] = cnt
        /\ \A k \in 1 .. L : values'[k] = values[k]
    BY <1>1, <1>2
  <1> HIDE DEF commits
  <1>9. ASSUME commits # {}
        PROVE  /\ values' = [k \in 1 .. Len(values') |->
                               Cardinality({j \in commits : Bucket(j) = k})]
               /\ \A j \in commits : Bucket(j) <= Len(values')
               /\ values'[Len(values')] > 0
    <2>1. n >= 1 /\ t1 \in Nat
      <3>1. Places(timestamps, Nat) # {}  BY <1>5, <1>7, <1>9
      <3> QED BY <1>2, <3>1 DEF Places
    <2>2. /\ begin_time # None /\ Nondecreasing(timestamps)
          /\ \A j \in 1 .. n : timestamps[j] < next_begin_time
      BY <1>1, <2>1 DEF Inv
    <2>3. /\ begin_time = t1 + L * Interval /\ next_begin_time = begin_time + Interval
          /\ \A k \in 1 .. L : values[k] = CountedIn(k)
          /\ cnt = CountedIn(L + 1)
      BY <1>1, <2>2 DEF Inv, BucketsExact
    <2>4. next_begin_time = t1 + (L + 1) * Interval /\ next_begin_time \in Nat
      <3>1. (L + 1) * Interval = L * Interval + Interval /\ L * Interval \in Nat
        BY <1>2
      <3> DEFINE LI == L * Interval
                 LI1 == (L + 1) * Interval
      <3>2. begin_time = t1 + LI /\ LI \in Nat /\ LI1 = LI + Interval  BY <2>3, <3>1
      <3> HIDE DEF LI, LI1, t1, L
      <3>3. next_begin_time = t1 + LI1 /\ next_begin_time \in Nat  BY <2>1, <2>3, <3>2
      <3> QED BY <3>3 DEF LI1
    <2>5. \A j \in commits : Time(log[j]) >= t1
      <3> DEFINE V == {v \in Nat : v < t1}
      <3>1. Places(timestamps, V) = {}
        <4> SUFFICES ASSUME NEW j \in DOMAIN timestamps, timestamps[j] < t1 PROVE FALSE
          BY DEF Places
        <4>1. 1 \in DOMAIN timestamps /\ j \in 1 .. n /\ timestamps[j] \in Nat  BY <1>2, <2>1
        <4>2. j # 1 => t1 <= timestamps[j]  BY <1>2, <2>2, <4>1 DEF Nondecreasing
        <4> QED BY <2>1, <4>1, <4>2
      <3>2. \A j \in commits : Time(log[j]) \notin V  BY <1>7, <3>1
      <3> QED BY <1>5, <2>1, <3>2
    <2>6. \E j \in commits : Time(log[j]) = t1
      <3>1. 1 \in Places(timestamps, {t1})  BY <1>2, <2>1 DEF Places
      <3>2. {t1} \in SUBSET Nat  BY <2>1
      <3>3. ~ \A j \in commits : Time(log[j]) \notin {t1}  BY <1>7, <3>1, <3>2
      <3> QED BY <3>3
    <2>7. \A j \in commits : Time(log[j]) < next_begin_time
      <3> DEFINE V == {v \in Nat : v >= next_begin_time}
      <3>1. Places(timestamps, V) = {}
        <4> SUFFICES ASSUME NEW j \in DOMAIN timestamps, timestamps[j] >= next_begin_time
                     PROVE  FALSE
          BY DEF Places
        <4>1. j \in 1 .. n /\ timestamps[j] \in Nat  BY <1>2
        <4> QED BY <2>2, <2>4, <4>1
      <3>2. \A j \in commits : Time(log[j]) \notin V  BY <1>7, <3>1
      <3> QED BY <1>5, <2>4, <3>2
    <2>8. first = t1
      <3> DEFINE J == CHOOSE j \in commits : \A k \in commits : Time(log[j]) <= Time(log[k])
      <3>1. \E j \in commits : \A k \in commits : Time(log[j]) <= Time(log[k])
        BY <2>5, <2>6
      <3>2. J \in commits /\ \A k \in commits : Time(log[J]) <= Time(log[k])
        BY <3>1
      <3> HIDE DEF J
      <3>3. Time(log[J]) = t1
        BY <1>5, <2>1, <2>5, <2>6, <3>2
      <3> QED BY <3>3 DEF J
    <2>9. ASSUME NEW j \in commits, NEW k \in 1 .. L + 1
          PROVE  /\ Bucket(j) = k <=> /\ Time(log[j]) >= t1 + (k - 1) * Interval
                                      /\ Time(log[j]) < t1 + k * Interval
                 /\ Bucket(j) <= L + 1
      <3> DEFINE a == Time(log[j]) - t1
                 u == (k - 1) * Interval
                 v == k * Interval
                 w == (L + 1) * Interval
      <3>1. /\ Time(log[j]) \in Nat /\ Time(log[j]) >= t1 /\ a \in Nat
        BY <1>5, <2>1, <2>5
      <3>2. k \in Nat \ {0} /\ L + 1 \in Nat \ {0} /\ k - 1 \in Nat
        BY <1>2
      <3>3. u \in Nat /\ v \in Nat /\ w \in Nat
        BY <3>2
      <3>4. a < w
        <4>1. Time(log[j]) < t1 + w  BY <2>4, <2>7
        <4> HIDE DEF w
        <4> QED BY <2>1, <3>1, <3>3, <4>1
      <3>5. Bucket(j) = a \div Interval + 1
        BY <2>8
      <3> HIDE DEF a
      <3>6. /\ Bucket(j) = k <=> a >= u /\ a < v
            /\ Bucket(j) <= L + 1
        <4> HIDE DEF Bucket, L
        <4> QED BY <3>1, <3>2, <3>4, <3>5, BucketOf
      <3> HIDE DEF u, v, Bucket, t1
      <3>7. /\ a >= u <=> Time(log[j]) >= t1 + u
            /\ a < v <=> Time(log[j]) < t1 + v
        BY <2>1, <3>1, <3>3 DEF a
      <3> QED BY <3>6, <3>7 DEF u, v
    <2>10. ASSUME NEW k \in 1 .. L + 1
           PROVE  values'[k] = Cardinality({j \in commits : Bucket(j) = k})
      <3> DEFINE V == {v \in Nat : v >= t1 + (k - 1) * Interval /\ v < t1 + k * Interval}
      <3>1. values'[k] = CountedIn(k)
        <4> HIDE DEF V, first, Bucket, t1
        <4>1. CASE k = L + 1
          BY Zenon, <1>8, <2>3, <4>1
        <4>2. CASE k \in 1 .. L
          BY Zenon, <1>8, <2>3, <4>2
        <4>3. k = L + 1 \/ k \in 1 .. L
          <5> HIDE DEF L
          <5> QED BY <1>2
        <4> QED BY <4>1, <4>2, <4>3
      <3>2. CountedIn(k) = Cardinality(Places(timestamps, V))
        <4>1. {j \in 1 .. nth : /\ timestamps[j] >= t1 + (k - 1) * Interval
                                /\ timestamps[j] < t1 + k * Interval}
                = Places(timestamps, V)
          <5> DEFINE u == t1 + (k - 1) * Interval
                     v == t1 + k * Interval
          <5>1. /\ nth = n /\ DOMAIN timestamps = 1 .. n
                /\ \A j \in DOMAIN timestamps : timestamps[j] \in Nat
            BY <1>1, <1>2
          <5>2. V = {y \in Nat : y >= u /\ y < v}
            OBVIOUS
          <5> HIDE DEF u, v, V, t1, n, first, Bucket
          <5>3. {j \in 1 .. nth : timestamps[j] >= u /\ timestamps[j] < v}
                  = Places(timestamps, V)
            BY Zenon, <5>1, <5>2 DEF Places
          <5> QED BY <5>3 DEF u, v, t1
        <4> QED BY <4>1 DEF CountedIn
      <3>3. Cardinality(Places(timestamps, V)) = Cardinality(Stamped(nread, V))
        BY <1>3 DEF SameTimes
      <3>4. Stamped(nread, V) = {j \in commits : Bucket(j) = k}
        <4> HIDE DEF Bucket
        <4> QED BY <1>5, <1>6, <2>9
      <3> QED BY <3>1, <3>2, <3>3, <3>4
    <2>11. values' = [k \in 1 .. Len(values') |->
                        Cardinality({j \in commits : Bucket(j) = k})]
      <3> HIDE DEF Bucket
      <3> QED BY <1>2, <1>8, <2>10
    <2>12. \A j \in commits : Bucket(j) <= Len(values')
      <3>1. 1 \in 1 .. L + 1  BY <1>2
      <3> HIDE DEF Bucket
      <3> QED BY <1>8, <2>9, <3>1
    <2>13. values'[Len(values')] > 0
      BY <1>1, <1>3, <1>8, <2>2
    <2> QED BY <2>11, <2>12, <2>13
  <1>10. HistogramOfLog'
    <2>1. log' = log  BY <1>1
    <2>2. \A j \in DOMAIN log : log[j].kind # "torn"  BY <1>3, <1>4
    <2>3. Reported(log, values')  BY Zenon, <1>9, <2>2 DEF Reported, commits
    <2> QED BY <2>1, <2>3, HistogramIsReported
  <1> QED BY <1>1, <1>10 DEF HistogramInv

(* The report of thr_hist.py is the histogram of the commits of all logs,  *)
(* from the first commit to the last, however the clients' logs follow     *)
(* each other in its input.                                                *)
THEOREM HistogramIsOfLog == HistSpec => []HistogramOfLog
  <1>1. Inv /\ HistogramInv /\ [HistNext]_histVars => HistogramInv'
    <2> SUFFICES ASSUME Inv, HistogramInv, [HistNext]_histVars PROVE HistogramInv'
      OBVIOUS
    <2>1. CASE PrintLatency
      <3>1. /\ pc = "latency" /\ pc' \notin {"read", "count", "latency"}
            /\ UNCHANGED << log, values >>
        BY <2>1 DEF PrintLatency
      <3>2. HistogramOfLog'  BY <3>1, HistogramIsReported DEF HistogramInv
      <3> QED BY <3>1, <3>2 DEF HistogramInv
    <2>2. CASE UNCHANGED histVars
      <3>1. HistogramOfLog'  BY <2>2, HistogramIsReported DEF histVars, HistogramInv
      <3>2. SameTimes => SameTimes'  BY <2>2 DEF histVars, SameTimes, Places, Stamped
      <3> QED BY <2>2, <3>1, <3>2 DEF histVars, HistogramInv
    <2> QED BY <2>1, <2>2, HistogramRead, HistogramSort, HistogramRound, HistogramPrint
            DEF HistNext
  <1>2. HistogramInv => HistogramOfLog
    BY DEF HistogramInv
  <1> QED BY <1>1, <1>2, HistogramInit, HistInv, PTL DEF HistSpec
==============================================================================

------------------------------- MODULE ThrHist -------------------------------
(***************************************************************************)
(* The report of a deployment run (scripts/thr_hist.py): the logs of all   *)
(* clients, one after the other on the standard input, become a histogram  *)
(* of commits per interval and the mean latency with and without outliers. *)
(*                                                                         *)
(* The script is one loop after another, and an action is one round of a   *)
(* loop.  Its arithmetic is exact here; in the code seconds, quartiles and *)
(* means are floating-point numbers.                                       *)
(***************************************************************************)
EXTENDS Integers, Sequences, FiniteSets

CONSTANTS Log,          \* the inputs: sequences of lines
          Second,       \* clock ticks in a second
          Interval,     \* --interval, in ticks
          None          \* the value of begin_time before the first timestamp

VARIABLES log,          \* the input
          nread,        \* how many of its lines are read
          pc,           \* the loop that runs
          lats, timestamps, begin_time, next_begin_time, cnt, values,
          nth           \* how many timestamps the second loop has counted

histVars == << log, nread, pc, lats, timestamps, begin_time, next_begin_time, cnt, values, nth >>

(* A line is a commit with its time and latency, one that does not match   *)
(* commit_pat (a cut line that runs into the next log is one), or a last   *)
(* line that was cut before its latency, which matches as an empty number. *)
Line == [kind : {"commit"}, sec : Nat, usec : 0 .. Second - 1, lat : Nat]
          \cup [kind : {"other", "torn"}]

ASSUME HistAssumption ==
  /\ Second \in Nat \ {0}
  /\ Interval \in Nat \ {0}
  /\ Log \subseteq Seq(Line)
  /\ None \notin Nat

(* str2datetime *)
Time(line) == line.sec * Second + line.usec
------------------------------------------------------------------------------
(* The k-th smallest of a sequence of numbers, from 0. *)
Ranked(s, k) ==
  CHOOSE v \in {s[j] : j \in DOMAIN s} :
    /\ Cardinality({j \in DOMAIN s : s[j] < v}) <= k
    /\ Cardinality({j \in DOMAIN s : s[j] <= v}) > k

(* Four times np.percentile(s, 25 * q), which interpolates between the two *)
(* values around the place q * (n - 1) / 4.                                *)
Quartile4(s, q) ==
  LET place == q * (Len(s) - 1)
      low == Ranked(s, place \div 4)
      high == IF place % 4 = 0 THEN low ELSE Ranked(s, place \div 4 + 1)
  IN  4 * low + (place % 4) * (high - low)

outlierConstantNone == 0    \* Wrong on purpose: nothing beside the quartiles.
outlierConstant2 == 3       \* twice outlierConstant

(* remove_outliers: the places of resultList in x. *)
RemoveOutliers(x) ==
  LET upper == Quartile4(x, 3)
      lower == Quartile4(x, 1)
      IQR2 == (upper - lower) * outlierConstant2
  IN  {j \in DOMAIN x : /\ 8 * x[j] >= 2 * lower - IQR2
                        /\ 8 * x[j] <= 2 * upper + IQR2}

Nondecreasing(s) == \A j, k \in DOMAIN s : j < k => s[j] <= s[k]
------------------------------------------------------------------------------
HistInit ==
  /\ log \in Log
  /\ nread = 0
  /\ pc = "read"
  /\ lats = << >> /\ timestamps = << >> /\ values = << >>
  /\ begin_time = None /\ next_begin_time = None
  /\ cnt = 0 /\ nth = 0

(* for line in sys.stdin: float('') raises a ValueError, and nothing is    *)
(* reported.                                                               *)
ReadLine ==
  LET line == log[nread + 1] IN
  /\ pc = "read" /\ nread < Len(log)
  /\ nread' = nread + 1
  /\ \/ /\ line.kind = "commit"
        /\ timestamps' = Append(timestamps, Time(line))
        /\ lats' = Append(lats, line.lat)
        /\ UNCHANGED pc
     \/ /\ line.kind = "other"
        /\ UNCHANGED << timestamps, lats, pc >>
     \/ /\ line.kind = "torn"
        /\ pc' = "ValueError"
        /\ UNCHANGED << timestamps, lats >>
  /\ UNCHANGED << log, begin_time, next_begin_time, cnt, values, nth >>

(* Wrong on purpose: the clients' logs are taken as they come. *)
SortNothing ==
  /\ pc = "read" /\ nread = Len(log)
  /\ pc' = "count"
  /\ UNCHANGED << log, nread, lats, timestamps, begin_time, next_begin_time, cnt, values, nth >>

(* timestamps.sort() *)
SortTimestamps ==
  /\ pc = "read" /\ nread = Len(log)
  /\ \E place \in [DOMAIN timestamps -> DOMAIN timestamps] :
       /\ \A j, k \in DOMAIN timestamps : place[j] = place[k] => j = k
       /\ timestamps' = [j \in DOMAIN timestamps |-> timestamps[place[j]]]
  /\ Nondecreasing(timestamps')
  /\ pc' = "count"
  /\ UNCHANGED << log, nread, lats, begin_time, next_begin_time, cnt, values, nth >>

(* The next timestamp of the second loop is in the bucket of begin_time.   *)
Current == timestamps[nth + 1]
More == pc = "count" /\ nth < Len(timestamps)

(* Wrong on purpose: only begin_time is set. *)
StartBucketsHalf ==
  /\ More /\ begin_time = None
  /\ begin_time' = Current
  /\ UNCHANGED << log, nread, pc, lats, timestamps, next_begin_time, cnt, values, nth >>

StartBuckets ==
  /\ More /\ begin_time = None
  /\ begin_time' = Current
  /\ next_begin_time' = Current + Interval
  /\ UNCHANGED << log, nread, pc, lats, timestamps, cnt, values, nth >>

(* Wrong on purpose: the bounds of the bucket stay. *)
NextBucketStuck ==
  /\ More /\ begin_time # None
  /\ Current >= next_begin_time
  /\ UNCHANGED histVars

(* Wrong on purpose: empty buckets are left out. *)
NextBucketFilled ==
  /\ More /\ begin_time # None
  /\ Current >= next_begin_time
  /\ begin_time' = next_begin_time
  /\ next_begin_time' = next_begin_time + Interval
  /\ values' = IF cnt = 0 THEN values ELSE Append(values, cnt)
  /\ cnt' = 0
  /\ UNCHANGED << log, nread, pc, lats, timestamps, nth >>

(* The body of the while loop. *)
NextBucket ==
  /\ More /\ begin_time # None
  /\ Current >= next_begin_time
  /\ begin_time' = next_begin_time
  /\ next_begin_time' = next_begin_time + Interval
  /\ values' = Append(values, cnt)
  /\ cnt' = 0
  /\ UNCHANGED << log, nread, pc, lats, timestamps, nth >>

CountCommit ==
  /\ More /\ begin_time # None
  /\ Current < next_begin_time
  /\ cnt' = cnt + 1
  /\ nth' = nth + 1
  /\ UNCHANGED << log, nread, pc, lats, timestamps, begin_time, next_begin_time, values >>

PrintValues ==
  /\ pc = "count" /\ nth = Len(timestamps)
  /\ values' = Append(values, cnt)
  /\ pc' = "latency"
  /\ UNCHANGED << log, nread, lats, timestamps, begin_time, next_begin_time, cnt, nth >>

(* The two means.  The first one divides by zero when nothing was          *)
(* committed, the second one if every latency were an outlier.             *)
PrintLatency ==
  /\ pc = "latency"
  /\ pc' = IF lats = << >> THEN "ZeroDivisionError"
           ELSE IF RemoveOutliers(lats) = {} THEN "OutliersOnly" ELSE "printed"
  /\ UNCHANGED << log, nread, lats, timestamps, begin_time, next_begin_time, cnt, values, nth >>

HistNext == \/ ReadLine \/ SortTimestamps \/ StartBuckets \/ NextBucket
            \/ CountCommit \/ PrintValues \/ PrintLatency

HistSpec == HistInit /\ [][HistNext]_histVars
------------------------------------------------------------------------------
(* Types of the script's variables. *)
HistTypeOK ==
  /\ log \in Log
  /\ nread \in 0 .. Len(log)
  /\ pc \in {"read", "count", "latency", "printed",
             "ValueError", "ZeroDivisionError", "OutliersOnly"}
  /\ lats \in Seq(Nat) /\ timestamps \in Seq(Nat) /\ values \in Seq(Nat)
  /\ begin_time \in Nat \cup {None}
  /\ next_begin_time \in IF begin_time = None THEN {None} ELSE Nat
  /\ cnt \in Nat
  /\ nth \in 0 .. Len(timestamps)

(* The timestamps counted so far that lie in a bucket of the histogram.    *)
CountedIn(k) ==
  Cardinality({j \in 1 .. nth : /\ timestamps[j] >= timestamps[1] + (k - 1) * Interval
                                /\ timestamps[j] < timestamps[1] + k * Interval})

(* While the second loop runs, the current bucket is next to the last one  *)
(* of values, empty buckets included, and each bucket holds the timestamps *)
(* of its interval.                                                        *)
BucketsExact ==
  pc = "count" /\ begin_time # None =>
    /\ begin_time = timestamps[1] + Len(values) * Interval
    /\ next_begin_time = begin_time + Interval
    /\ \A k \in 1 .. Len(values) : values[k] = CountedIn(k)
    /\ cnt = CountedIn(Len(values) + 1)

(* Once printed, the histogram is that of all commits of the input, from   *)
(* the first of them to the last, in whatever order the clients' logs      *)
(* follow each other.                                                      *)
HistogramOfLog ==
  LET commits == {j \in DOMAIN log : log[j].kind = "commit"}
      first == Time(log[CHOOSE j \in commits :
                          \A k \in commits : Time(log[j]) <= Time(log[k])])
      Bucket(j) == (Time(log[j]) - first) \div Interval + 1
  IN  pc \in {"latency", "printed"} =>
        /\ \A j \in DOMAIN log : log[j].kind # "torn"
        /\ commits # {} =>
             /\ values = [k \in 1 .. Len(values) |->
                            Cardinality({j \in commits : Bucket(j) = k})]
             /\ \A j \in commits : Bucket(j) <= Len(values)
             /\ values[Len(values)] > 0

(* Whatever the latencies are, some are left when the outliers are taken   *)
(* away, so the second mean is one of something.                           *)
KeptSome == pc # "OutliersOnly"

(* The report is printed, or an exception is raised. *)
HistEnded == pc \in {"printed", "ValueError", "ZeroDivisionError"}
==============================================================================

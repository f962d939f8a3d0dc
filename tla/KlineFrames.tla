----------------------------- MODULE KlineFrames -----------------------------
(***************************************************************************)
(* The rows of a day of klines: normalize_kline_csv of data/normalize.py   *)
(* and audit_kline_frame of data/quality.py.  A row has its open time t    *)
(* and ok, whether every value check of the audit accepts it (prices,      *)
(* quantities, OHLC, close time, finiteness, contract values).  Times are  *)
(* in units of which an interval has Interval, and a day starts at 0.      *)
(***************************************************************************)
EXTENDS Integers, Sequences, SequencesExt, FiniteSetsExt

CONSTANTS
  Interval,  \* INTERVAL_MS["1m"]
  DayEnd     \* end_time_ms of the record of a day, inclusive

ASSUME FrameAssumption == Interval \in Nat \ {0} /\ DayEnd \in Nat

Times(rows) == [i \in DOMAIN rows |-> rows[i].t]

(* The numbers of a set in increasing order: the k-th has k up to itself.  *)
Sorted(S) ==
  [k \in 1..Cardinality(S) |-> CHOOSE t \in S : Cardinality({u \in S : u <= t}) = k]

(* frame.unique(keep="first", maintain_order=True).sort(key). *)
Canonical(rows) ==
  LET times == Sorted(ToSet(Times(rows)))
  IN [k \in DOMAIN times |-> rows[Min({i \in DOMAIN rows : rows[i].t = times[k]})]]

(* _gap_metrics of a day. *)
ExpectedLast == (DayEnd \div Interval) * Interval

GapStep(metrics, current) ==
  LET difference == current - metrics.previous IN
    [missing  |-> metrics.missing
                    + (IF difference > Interval THEN difference \div Interval - 1 ELSE 0),
     events   |-> metrics.events + (IF difference > Interval THEN 1 ELSE 0),
     previous |-> current]

(* Mutant of GapMetrics: what is missing after the last row is not counted. *)
InnerGapMetrics(timestamps) ==
  LET unique == Sorted({t \in timestamps : 0 <= t /\ t <= ExpectedLast})
      inner  == FoldLeft(GapStep, [missing |-> 0, events |-> 0, previous |-> -Interval], unique)
  IN [missing |-> inner.missing, events |-> inner.events]

GapMetrics(timestamps) ==
  LET unique == Sorted({t \in timestamps : 0 <= t /\ t <= ExpectedLast})
      inner  == FoldLeft(GapStep, [missing |-> 0, events |-> 0, previous |-> -Interval], unique)
      tail   == ExpectedLast - inner.previous
  IN [missing |-> inner.missing + (IF tail >= Interval THEN tail \div Interval ELSE 0),
      events  |-> inner.events + (IF tail >= Interval THEN 1 ELSE 0)]

(* passed of audit_kline_frame, given the checksum and the schema. *)
FramePasses(rows) ==
  /\ Cardinality(ToSet(Times(rows))) = Len(rows)
  /\ \A i \in 2..Len(rows) : rows[i - 1].t <= rows[i].t
  /\ GapMetrics(ToSet(Times(rows))).missing = 0
  /\ \A i \in DOMAIN rows :
       rows[i].ok /\ rows[i].t % Interval = 0 /\ rows[i].t \in 0..ExpectedLast
=============================================================================

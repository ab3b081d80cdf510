----------------------------- MODULE Telemetry ------------------------------
(***************************************************************************)
(* The aggregates that JobRepository computes over the feedback table,     *)
(* joined with the results of the jobs: drift, slices and summary.  No     *)
(* state.                                                                  *)
(*                                                                         *)
(* A row is a record [job, reviewer, source, observed]; observed, the text *)
(* the client sent, is a day, empty, or no date at all.  Days are numbered *)
(* from a Monday, today is Today.  topology[j] is the topology of the      *)
(* first candidate in the result of job j.                                 *)
(***************************************************************************)
EXTENDS Integers, FiniteSets

CONSTANT Today

Day(d) == [kind |-> "day", day |-> d]
Empty == [kind |-> "empty", day |-> Today]
NotADate == [kind |-> "not_a_date", day |-> Today]

\* An empty text falls back on created_at; a row is of the day of the call.
ObservedDay(row) == IF row.observed.kind = "day" THEN row.observed.day ELSE Today

\* fromisoformat raises on the first row that holds no date.
Readable(rows) == \A row \in rows : row.observed.kind # "not_a_date"

\* Mutant: the recent window is open at its start.
RecentOpen(rows, recentDays) ==
    {row \in rows : Today - recentDays < ObservedDay(row) /\ ObservedDay(row) <= Today}

Recent(rows, recentDays) ==
    {row \in rows : Today - recentDays <= ObservedDay(row) /\ ObservedDay(row) <= Today}

Baseline(rows, recentDays, baselineDays) ==
    {row \in rows \ Recent(rows, recentDays) :
        /\ Today - recentDays - baselineDays <= ObservedDay(row)
        /\ ObservedDay(row) < Today - recentDays}

\* telemetry_drift, as far as its sample sizes.
Drift(rows, recentDays, baselineDays) ==
    [recent   |-> Cardinality(Recent(rows, recentDays)),
     baseline |-> Cardinality(Baseline(rows, recentDays, baselineDays))]

PeriodStart(row, bucket) ==
    IF bucket = "daily" THEN ObservedDay(row) ELSE ObservedDay(row) - (ObservedDay(row) % 7)

SliceKey(row, bucket, topology) == <<PeriodStart(row, bucket), topology[row.job]>>

\* telemetry_slices: how many rows each slice aggregates.
Slices(rows, bucket, topology) ==
    [key \in {SliceKey(row, bucket, topology) : row \in rows} |->
        Cardinality({row \in rows : SliceKey(row, bucket, topology) = key})]

\* feedback_summary, as far as its total.
Summary(rows) == Cardinality(rows)
=============================================================================

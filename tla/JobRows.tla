------------------------------ MODULE JobRows ------------------------------
(***************************************************************************)
(* A row of the jobs table and what the methods of JobRepository do with   *)
(* it (packages/domain/repositories/jobs.py).  This module has no state:   *)
(* the table is the variable of the modules that extend it, and each       *)
(* repository call is one atomic step on it, which JobRepository.tla       *)
(* justifies.                                                              *)
(*                                                                         *)
(* Data kept: the columns the control flow reads or the properties tell    *)
(* apart.  A result or a report is the thread whose execution of           *)
(* process_one_job produced it; an error is the kind of its text;          *)
(* completed_at is whether the column is set; normalized_input (input) is  *)
(* whether the pipeline finds a candidate for it.                          *)
(***************************************************************************)
EXTENDS Naturals

CONSTANTS
    Jobs,      \* the ids uuid4 may return
    Keys,      \* the idempotency keys of clients
    Handlers,  \* API thread-pool threads
    Workers,   \* worker_loop threads
    None       \* SQL NULL, Python None

Threads == Handlers \cup Workers

Statuses == {"queued", "running", "awaiting_review", "failed",
             "approved", "rejected", "completed"}
Absent   == "absent"                     \* no row has this id
Errors   == {"cancelled", "exception"}
Reviews  == {"approved", "rejected"}
Tenths   == {0, 1, 5, 10}                \* progress, in tenths
Inputs   == {"feasible", "infeasible"}   \* what the pipeline makes of the input

ASSUME NoneAssumption ==
    /\ None \notin Threads \cup Keys \cup Jobs
    /\ None \notin Statuses \cup Errors \cup Reviews \cup {Absent, "set"}
    /\ None \notin Tenths
ASSUME ThreadsAssumption == Handlers \cap Workers = {}

Row ==
    [status      : Statuses \cup {Absent},
     progress    : Tenths,
     result      : Threads \cup {None},
     report      : Threads \cup {None},
     error       : Errors \cup {None},
     review      : Reviews \cup {None},
     key         : Keys \cup {None},
     created_at  : Nat,
     completed_at: {"set", None},
     cancelled   : {0, 1},
     input       : Inputs]

NoRow ==
    [status |-> Absent, progress |-> 0, result |-> None, report |-> None,
     error |-> None, review |-> None, key |-> None, created_at |-> 0,
     completed_at |-> None, cancelled |-> 0, input |-> "infeasible"]

\* The row create() inserts; an empty key is stored as NULL.
NewRow(key, stamp, input) ==
    [NoRow EXCEPT !.status = "queued", !.key = key, !.created_at = stamp,
                  !.input = input]

----------------------------------------------------------------------------
\* update(): a keyword that is None leaves its column as it is, so no call can
\* clear a column; a deciding status also stamps completed_at.
Given(new, old) == IF new = None THEN old ELSE new

Deciding == {"completed", "approved", "rejected"}

NoPatch == [status |-> None, progress |-> None, error |-> None,
            result |-> None, review |-> None, report |-> None]

Updated(row, patch) ==
    [status       |-> Given(patch.status, row.status),
     progress     |-> Given(patch.progress, row.progress),
     result       |-> Given(patch.result, row.result),
     report       |-> Given(patch.report, row.report),
     error        |-> Given(patch.error, row.error),
     review       |-> Given(patch.review, row.review),
     completed_at |-> IF patch.status \in Deciding THEN "set" ELSE row.completed_at,
     key          |-> row.key,
     created_at   |-> row.created_at,
     cancelled    |-> row.cancelled,
     input        |-> row.input]

----------------------------------------------------------------------------
\* The queries, each as the set of ids it may return (ids with equal stamps
\* come in any order).
Exists(rows, j) == rows[j].status # Absent

QueuedIds(rows) == {j \in Jobs : rows[j].status = "queued"}

\* ... where status='queued' order by created_at asc limit 1
NextQueued(rows) ==
    {j \in QueuedIds(rows) :
        \A i \in QueuedIds(rows) : rows[j].created_at <= rows[i].created_at}

JobsOfKey(rows, k) == {j \in Jobs : Exists(rows, j) /\ rows[j].key = k}

\* Mutant: only jobs that have not been taken up yet are found.
FindQueuedByKey(rows, k) ==
    {j \in JobsOfKey(rows, k) : k # None /\ rows[j].status = "queued"}

\* ... where idempotency_key=? order by created_at desc limit 1; an empty key
\* finds nothing.
FindByKey(rows, k) ==
    {j \in JobsOfKey(rows, k) :
        /\ k # None
        /\ \A i \in JobsOfKey(rows, k) : rows[i].created_at <= rows[j].created_at}
============================================================================

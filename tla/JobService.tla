----------------------------- MODULE JobService -----------------------------
(***************************************************************************)
(* The asynchronous half of the API: POST /v1/candidates/generate with     *)
(* async_mode, the background worker, process_one_job, which both of them  *)
(* run, and the approve and reject endpoints, all on one jobs table        *)
(* (apps/api/routes/candidates.py, apps/worker/runner.py,                  *)
(* apps/api/main.py).                                                      *)
(*                                                                         *)
(* A thread is at a program point between two repository calls; a step is  *)
(* one repository call with the code up to the next one.  Outside a step   *)
(* the threads interleave freely: the endpoints are plain functions on     *)
(* FastAPI's thread pool and worker_loop is a daemon thread of the same    *)
(* process.                                                                *)
(*                                                                         *)
(* Failures: a repository call may raise sqlite3.Error (locked database,   *)
(* full disk), before or after its commit, and the process may crash and   *)
(* be started again.  MaxFaults and MaxCrashes bound how often.            *)
(***************************************************************************)
EXTENDS JobRows, FiniteSets

CONSTANTS
    Reviewers,     \* handlers that may be serving approve and reject
    MaxFaults,     \* bound: repository calls that raise
    MaxCrashes,    \* bound: crashes of the process
    CancelAllowed  \* whether someone sets jobs.cancelled by hand

ASSUME ReviewersAssumption == Reviewers \subseteq Handlers
ASSUME BoundsAssumption ==
    MaxFaults \in Nat /\ MaxCrashes \in Nat /\ CancelAllowed \in BOOLEAN

VARIABLES
    rows,     \* the jobs table
    thread,   \* what each thread is doing: program point and local variables
    clock,    \* the last time stamp utcnow() gave a new job
    faults,   \* repository calls that have raised so far
    crashes   \* crashes so far

vars == <<rows, thread, clock, faults, crashes>>

Executing == {"half", "pipeline", "cancel_check", "cancel_fail", "finish", "fail"}
PCs == Executing \cup {"idle", "insert", "check", "claim", "respond",
                       "approve", "reject", "poll", "dead"}

ThreadState == [pc    : PCs,
                job   : Jobs \cup {None},
                key   : Keys \cup {None},
                stamp : Nat]

At(pc, j) == [pc |-> pc, job |-> j, key |-> None, stamp |-> 0]

\* A thread with nothing to do: the worker polls, a handler is in the pool.
Rest(t) == IF t \in Workers THEN At("poll", None) ELSE At("idle", None)

Init ==
    /\ rows = [j \in Jobs |-> NoRow]
    /\ thread = [t \in Threads |-> Rest(t)]
    /\ clock = 0
    /\ faults = 0
    /\ crashes = 0

----------------------------------------------------------------------------
\* process_one_job returned: generate goes on to its response, worker_loop to
\* its next round.
Returned(t, j) == IF t \in Workers THEN At("poll", None) ELSE At("respond", j)

\* An exception left process_one_job or the handler: nothing in worker_loop
\* catches it, so the worker thread ends; FastAPI answers 500.
Raised(t) == IF t \in Workers THEN At("dead", None) ELSE At("idle", None)

\* A repository call of thread t on row j: row is what it writes, ok where it
\* returns to, err where its exception lands.
Call(t, j, row, ok, err) ==
    /\ \/ /\ rows' = [rows EXCEPT ![j] = row]
          /\ thread' = [thread EXCEPT ![t] = ok]
          /\ UNCHANGED faults
       \/ /\ faults < MaxFaults
          /\ faults' = faults + 1
          /\ rows' \in {rows, [rows EXCEPT ![j] = row]}
          /\ thread' = [thread EXCEPT ![t] = err]
    /\ UNCHANGED <<clock, crashes>>

\* A call that only reads.
Read(t, ok, err) ==
    /\ \/ /\ thread' = [thread EXCEPT ![t] = ok]
          /\ UNCHANGED faults
       \/ /\ faults < MaxFaults
          /\ faults' = faults + 1
          /\ thread' = [thread EXCEPT ![t] = err]
    /\ UNCHANGED <<rows, clock, crashes>>

----------------------------------------------------------------------------
\* POST /v1/candidates/generate, async_mode: the key is looked up first.

\* uuid4: an id no row has and no other call of create holds.
FreshIds == {j \in Jobs : ~Exists(rows, j) /\ \A t \in Threads : thread[t].job # j}

\* Not found: create() draws the id and the time stamp, outside the lock.
GenerateNew(h, k) ==
    /\ thread[h].pc = "idle"
    /\ FindByKey(rows, k) = {}
    /\ \E j \in FreshIds :
          thread' = [thread EXCEPT ![h] =
                        [pc |-> "insert", job |-> j, key |-> k, stamp |-> clock + 1]]
    /\ clock' = clock + 1
    /\ UNCHANGED <<rows, faults, crashes>>

\* Mutant: a request that finds its key executes the job it has found.
ReplayAndExecute(h, k) ==
    /\ thread[h].pc = "idle"
    /\ \E j \in FindByKey(rows, k) : thread' = [thread EXCEPT ![h] = At("check", j)]
    /\ UNCHANGED <<rows, clock, faults, crashes>>

\* Found: the answer is the job of the earlier request (idempotent_replay).
GenerateReplay(h, k) ==
    /\ thread[h].pc = "idle"
    /\ \E j \in FindByKey(rows, k) : thread' = [thread EXCEPT ![h] = At("respond", j)]
    /\ UNCHANGED <<rows, clock, faults, crashes>>

\* create() inserts the row; then the handler itself runs process_one_job on it.
Insert(h) ==
    LET me == thread[h] IN
    /\ me.pc = "insert"
    /\ \E input \in Inputs :
          Call(h, me.job, NewRow(me.key, me.stamp, input),
               At("check", me.job), Raised(h))

\* The last read of generate, and the answer of the endpoints that only read.
Respond(h) ==
    /\ thread[h].pc = "respond"
    /\ thread' = [thread EXCEPT ![h] = Rest(h)]
    /\ UNCHANGED <<rows, clock, faults, crashes>>

\* GET /v1/jobs/{id}, its report and its design-review package.
GetJob(h, j) ==
    /\ thread[h].pc = "idle"
    /\ Exists(rows, j)
    /\ thread' = [thread EXCEPT ![h] = At("respond", j)]
    /\ UNCHANGED <<rows, clock, faults, crashes>>

----------------------------------------------------------------------------
\* process_one_job, on a handler's own job or on the one the worker polled.

\* The worker asks for the oldest queued job; on an empty queue it sleeps.
Poll(w) ==
    /\ thread[w].pc = "poll"
    /\ \/ \E j \in NextQueued(rows) : Read(w, At("check", j), Raised(w))
       \/ QueuedIds(rows) = {} /\ faults < MaxFaults /\ Read(w, Raised(w), Raised(w))

\* get() and the test of its status, before anything is claimed.
Check(t) ==
    LET j == thread[t].job IN
    /\ thread[t].pc = "check"
    /\ Read(t, IF rows[j].status = "queued" THEN At("claim", j) ELSE Returned(t, j),
            Raised(t))

\* The claim is an unconditional update, outside the try block.
Claim(t) ==
    LET j == thread[t].job IN
    /\ thread[t].pc = "claim"
    /\ Call(t, j, Updated(rows[j], [NoPatch EXCEPT !.status = "running", !.progress = 1]),
            At("half", j), Raised(t))

Half(t) ==
    LET j == thread[t].job IN
    /\ thread[t].pc = "half"
    /\ Call(t, j, Updated(rows[j], [NoPatch EXCEPT !.progress = 5]),
            At("pipeline", j), At("fail", j))

\* run_generation_pipeline touches no row; it raises when no candidate is
\* feasible.
Pipeline(t) ==
    LET j == thread[t].job IN
    /\ thread[t].pc = "pipeline"
    /\ thread' = [thread EXCEPT ![t] =
                     At(IF rows[j].input = "feasible" THEN "cancel_check" ELSE "fail", j)]
    /\ UNCHANGED <<rows, clock, faults, crashes>>

\* Mutant: the test of the cancelled column is inverted.
CancelCheckInverted(t) ==
    LET j == thread[t].job IN
    /\ thread[t].pc = "cancel_check"
    /\ Read(t, At(IF rows[j].cancelled = 1 THEN "finish" ELSE "cancel_fail", j),
            At("fail", j))

CancelCheck(t) ==
    LET j == thread[t].job IN
    /\ thread[t].pc = "cancel_check"
    /\ Read(t, At(IF rows[j].cancelled = 1 THEN "cancel_fail" ELSE "finish", j),
            At("fail", j))

CancelFail(t) ==
    LET j == thread[t].job IN
    /\ thread[t].pc = "cancel_fail"
    /\ Call(t, j, Updated(rows[j], [NoPatch EXCEPT !.status = "failed", !.progress = 10,
                                                   !.error = "cancelled"]),
            Returned(t, j), At("fail", j))

\* Mutant: the last update leaves progress alone.
FinishKeepsProgress(t) ==
    LET j == thread[t].job IN
    /\ thread[t].pc = "finish"
    /\ Call(t, j, Updated(rows[j], [NoPatch EXCEPT !.status = "awaiting_review",
                                                   !.result = t, !.report = t]),
            Returned(t, j), At("fail", j))

\* Mutant: progress in percent.
FinishInPercent(t) ==
    LET j == thread[t].job IN
    /\ thread[t].pc = "finish"
    /\ Call(t, j, Updated(rows[j], [NoPatch EXCEPT !.status = "awaiting_review",
                                                   !.progress = 100,
                                                   !.result = t, !.report = t]),
            Returned(t, j), At("fail", j))

\* The last update and, after it, nothing but a log line.
Finish(t) ==
    LET j == thread[t].job IN
    /\ thread[t].pc = "finish"
    /\ Call(t, j, Updated(rows[j], [NoPatch EXCEPT !.status = "awaiting_review",
                                                   !.progress = 10,
                                                   !.result = t, !.report = t]),
            Returned(t, j), At("fail", j))

\* Mutant: the except block records the error only.
FailKeepsStatus(t) ==
    LET j == thread[t].job IN
    /\ thread[t].pc = "fail"
    /\ Call(t, j, Updated(rows[j], [NoPatch EXCEPT !.error = "exception"]),
            Returned(t, j), Raised(t))

\* The except block; what it raises itself leaves process_one_job.
Fail(t) ==
    LET j == thread[t].job IN
    /\ thread[t].pc = "fail"
    /\ Call(t, j, Updated(rows[j], [NoPatch EXCEPT !.status = "failed", !.progress = 10,
                                                   !.error = "exception"]),
            Returned(t, j), Raised(t))

----------------------------------------------------------------------------
\* Mutant: a decision is accepted in any status.
BeginReviewUnchecked(h, j, verdict) ==
    /\ thread[h].pc = "idle"
    /\ Exists(rows, j)
    /\ thread' = [thread EXCEPT ![h] = At(verdict, j)]
    /\ UNCHANGED <<rows, clock, faults, crashes>>

\* POST /v1/jobs/{id}/approve and /reject: the status is read, then written.
\* Any other status is answered 409, a reject without a reason 400.
BeginReview(h, j, verdict) ==
    /\ thread[h].pc = "idle"
    /\ rows[j].status = "awaiting_review"
    /\ thread' = [thread EXCEPT ![h] = At(verdict, j)]
    /\ UNCHANGED <<rows, clock, faults, crashes>>

Approve(h) ==
    LET j == thread[h].job IN
    /\ thread[h].pc = "approve"
    /\ Call(h, j, Updated(rows[j], [NoPatch EXCEPT !.status = "approved",
                                                   !.review = "approved"]),
            Rest(h), Raised(h))

Reject(h) ==
    LET j == thread[h].job IN
    /\ thread[h].pc = "reject"
    /\ Call(h, j, Updated(rows[j], [NoPatch EXCEPT !.status = "rejected",
                                                   !.review = "rejected"]),
            Rest(h), Raised(h))

----------------------------------------------------------------------------
\* Nothing in the code sets jobs.cancelled; someone with the database may.
SetCancelled(j) ==
    /\ CancelAllowed
    /\ Exists(rows, j)
    /\ rows[j].cancelled = 0
    /\ rows' = [rows EXCEPT ![j].cancelled = 1]
    /\ UNCHANGED <<thread, clock, faults, crashes>>

\* Mutant: nothing starts the worker again.
CrashForGood ==
    /\ crashes < MaxCrashes
    /\ crashes' = crashes + 1
    /\ thread' = [t \in Threads |-> IF t \in Workers THEN At("dead", None) ELSE Rest(t)]
    /\ UNCHANGED <<rows, clock, faults>>

\* The process ends and is started again: every thread is gone, the table
\* stays, startup_worker starts a new worker.
Crash ==
    /\ crashes < MaxCrashes
    /\ crashes' = crashes + 1
    /\ thread' = [t \in Threads |-> Rest(t)]
    /\ UNCHANGED <<rows, clock, faults>>

----------------------------------------------------------------------------
ProcessOneJob(t) ==
    \/ Check(t) \/ Claim(t) \/ Half(t) \/ Pipeline(t)
    \/ CancelCheck(t) \/ CancelFail(t) \/ Finish(t) \/ Fail(t)

\* What a thread does once it has begun; the scheduler keeps running it.
HandlerStep(h) == ProcessOneJob(h) \/ Insert(h) \/ Respond(h) \/ Approve(h) \/ Reject(h)
WorkerStep(w)  == ProcessOneJob(w) \/ Poll(w)

\* What a client may ask for.
Request(h) ==
    \/ \E k \in Keys \cup {None} : GenerateNew(h, k) \/ GenerateReplay(h, k)
    \/ \E j \in Jobs : GetJob(h, j)
    \/ /\ h \in Reviewers
       /\ \E j \in Jobs, verdict \in {"approve", "reject"} : BeginReview(h, j, verdict)

Next ==
    \/ \E h \in Handlers : Request(h) \/ HandlerStep(h)
    \/ \E w \in Workers : WorkerStep(w)
    \/ \E j \in Jobs : SetCancelled(j)
    \/ Crash

\* The operating system runs every live thread; no client has to ask, nothing
\* has to fail.
Fairness ==
    /\ \A h \in Handlers : WF_vars(HandlerStep(h))
    /\ \A w \in Workers : WF_vars(WorkerStep(w))

Spec == Init /\ [][Next]_vars /\ Fairness

----------------------------------------------------------------------------
\* The types of the table, the threads and the counters.
TypeOK ==
    /\ rows \in [Jobs -> Row]
    /\ thread \in [Threads -> ThreadState]
    /\ clock \in Nat
    /\ faults \in 0 .. MaxFaults
    /\ crashes \in 0 .. MaxCrashes

\* A thread that has begun something holds the id of a job.
Holding(state) == state.pc \notin {"idle", "poll", "dead"} => state.job \in Jobs

Busy(t, pcs, j) == thread[t].pc \in pcs /\ thread[t].job = j

\* An approved or rejected row, which the design-review package and the
\* feedback window read, is whole: it carries the matching verdict, a result
\* and the report of the same execution, and its completion time.  The verdict
\* is written after a separate read, while another execution may be writing.
ReviewedRowsComplete ==
    \A j \in Jobs : rows[j].status \in Reviews =>
        /\ rows[j].review = rows[j].status
        /\ rows[j].result # None
        /\ rows[j].report = rows[j].result
        /\ rows[j].completed_at = "set"

\* Why they are whole: result and report are always written together, every
\* status from awaiting_review on has them, and a handler that is about to write
\* its verdict has seen such a status; no update takes a result away again.
ReviewInvariant ==
    /\ ReviewedRowsComplete
    /\ \A t \in Threads : Holding(thread[t])
    /\ \A j \in Jobs :
          /\ rows[j].report = rows[j].result
          /\ rows[j].status \in {"awaiting_review", "approved", "rejected"} =>
                rows[j].result # None
    /\ \A h \in Handlers :
          thread[h].pc \in {"approve", "reject"} => rows[thread[h].job].result # None

\* While nothing has failed no job is stranded: a running row has a thread that
\* will settle it, a queued row has its creator, which has not claimed it yet.
\* Two threads may execute one job, so the thread may not be the one that
\* claimed it last.
StrandedOnlyByFailure ==
    faults = 0 /\ crashes = 0 =>
        \A j \in Jobs :
            /\ rows[j].status = "running" => \E t \in Threads : Busy(t, Executing, j)
            /\ rows[j].status = "queued" =>
                  \E h \in Handlers : Busy(h, {"check", "claim"}, j)

Creating == Executing \cup {"insert", "check", "claim"}

\* Two requests never execute one job: beside the worker only the request that
\* created a job runs process_one_job on it.
OneCreator ==
    \A h, i \in Handlers, j \in Jobs :
        Busy(h, Executing, j) /\ Busy(i, Executing, j) => h = i

\* Why: the id of a new job is drawn when nobody has it; until its row is
\* there nobody can find it, and from then on only the worker can, which takes
\* its jobs from the table and never creates one.
OwnershipInvariant ==
    /\ OneCreator
    /\ \A w \in Workers : thread[w].pc \in Executing \cup {"poll", "dead", "check", "claim"}
    /\ \A t \in Threads :
          /\ thread[t].pc = "insert" => ~Exists(rows, thread[t].job)
          /\ thread[t].pc \notin {"idle", "poll", "dead", "insert"} =>
                Exists(rows, thread[t].job)
    /\ \A h, i \in Handlers :
          /\ thread[h].pc \in Creating
          /\ thread[i].pc \in Creating
          /\ thread[h].job = thread[i].job
          => h = i
    /\ \A j \in Jobs : ~Exists(rows, j) => rows[j] = NoRow

\* The lookup and the insert are separate calls, so requests with one key may
\* each create a job, but never more of them than threads can serve requests at
\* once: a request that begins after the first row is there replays it.
KeyRaceBounded ==
    \A k \in Keys : Cardinality(JobsOfKey(rows, k)) <= Cardinality(Handlers)

\* A failed job says why, and says "cancelled" only when it was asked to stop.
FailuresExplained ==
    \A j \in Jobs :
        /\ rows[j].status = "failed" => rows[j].error # None
        /\ rows[j].error = "cancelled" => rows[j].cancelled = 1

Settled(j) == rows[j].status \in {"awaiting_review", "failed", "approved", "rejected"}

\* Every queued job is taken up, whatever happens to the request that created
\* it, as long as the worker is started again after each crash.
QueueDrains == \A j \in Jobs : rows[j].status = "queued" ~> rows[j].status # "queued"

\* As long as nothing fails every job comes to rest, for good, although a second
\* execution may take it back to running after it had settled.
JobsSettle ==
    [](faults = 0 /\ crashes = 0) => \A j \in Jobs : [](Exists(rows, j) => <>[]Settled(j))

\* The columns of a row tell its status: an error only on a failed row,
\* "cancelled" only where it was asked for, a verdict only on a decided one, full
\* progress only at the end.
ColumnsMatch(j) ==
    /\ rows[j].error # None <=> rows[j].status = "failed"
    /\ rows[j].error = "cancelled" => rows[j].cancelled = 1
    /\ rows[j].review # None <=> rows[j].status \in Reviews
    /\ rows[j].progress = 10 <=> Settled(j)
    /\ rows[j].completed_at = "set" <=> rows[j].status \in Reviews

\* Nothing has failed a call, and no two threads create, execute or decide job j
\* at the same time: its creator has claimed it before the worker polled, or is
\* gone with a crash.
Undisturbed(j) ==
    /\ faults = 0
    /\ \A t, u \in Threads :
          /\ Busy(t, Creating \cup {"approve", "reject"}, j)
          /\ Busy(u, Creating \cup {"approve", "reject"}, j)
          => t = u

\* Beside the worker, other reviewers and other jobs, and through crashes, the
\* columns of a job tell its status as long as its own threads have never met.
UndisturbedColumns == \A j \in Jobs : []Undisturbed(j) => []ColumnsMatch(j)

\* The lifecycle each client is told of, as the abstraction of the table.
Lifecycle == INSTANCE JobLifecycle WITH stage <- [j \in Jobs |-> rows[j].status]
LifecycleSpec == Lifecycle!Spec

----------------------------------------------------------------------------
(* What the code claims and does not keep. *)

\* apps/api/routes/candidates.py:94 and :105, a decision on a job that is not
\* awaiting review is an "invalid transition".
DecisionIsFinal ==
    [][\A j \in Jobs : rows[j].status \in Reviews => rows'[j].status = rows[j].status]_vars
============================================================================

# Verification of Dust Mechanica

Dust Mechanica sizes motion axes: a requirement goes through a generation
pipeline that yields ranked candidates, either at once or as a *job* that is
executed, reviewed, given feedback and passed on to engineering tools. This
directory holds TLA+ models of the program, their TLC configurations and their
TLAPS proofs. Paths are relative to the root of the repository.

## The system

| Component | State | Operations | Interacts with |
|---|---|---|---|
| Job service (`apps/api/routes/candidates.py`, `apps/worker/runner.py`) | none of its own; the local variables of each thread | asynchronous `generate`, `process_one_job`, `worker_loop`, `approve_job`, `reject_job`, the job reads | calls the repository and the pipeline; several API threads and one worker thread share one repository object |
| Job repository (`packages/domain/repositories/jobs.py`) | SQLite table `jobs`, dictionary `_cache`, `_lock` | `create`, `update`, `get`, `next_queued`, `find_by_idempotency_key` | called by every thread |
| Feedback and telemetry (same file, `candidates.py`) | SQLite table `feedback` | `add_feedback`, the window test, summary, slices, drift | reads `jobs` |
| Guardrails (`apps/api/main.py`) | deque of recent request times | rate limit, size limit, timeout, trace id | wraps every handler |
| Toolchain run endpoint (`candidates.py:135`) | none | reads a job, runs tools, writes result and report back | repository, execution service |
| Execution service, contracts and runners (`packages/engineering/adapters/toolchain`) | artifact files | one execution per selected tool, upstream artifacts handed on, aggregate status | artifact store, external tools |
| Pipeline (`packages/domain/services`, `topologies`, `scoring`) | none, but the process-wide random generator | validation, topology selection, candidates, scores, ranking, robustness | catalog, policy, physics, adapters |
| Physics checks (`packages/domain/physics`) | none | four checks of a candidate, merged into a verdict | policy; called by the pipeline |
| Physics comparison (`scripts/export_physics_compare.py`) | eleven files | two cases through the pipeline, summaries, tables, the safest candidate | pipeline |
| Recalibration (`packages/domain/scoring/recalibrate.py`) | `latest.json`, `policy/v2/scoring.yaml` | propose, promote | policy loader |
| Catalog, validation, units, reporting, CAD and simulation adapters, settings | none | pure functions and data | |

What is hard here:

* **Two executors.** `generate` creates a job and runs `process_one_job` on it
  itself, while the worker polls the same table. The status test
  (`runner.py:21`) and the claim (`runner.py:23`) are separate calls, so both may
  execute one job; approve and reject test and write in separate calls as well.
* **Failures.** A repository call may raise before its commit or after it (the
  refresh at `jobs.py:130`); one part of `process_one_job` is outside the `try`
  block and `worker_loop` catches nothing. The worker is a daemon thread; a crash
  leaves the table.
* **Columns that cannot be cleared.** `update` skips every keyword that is `None`.
* **A cache filled outside the lock** (`jobs.py:149`), whose entries may be older
  than the table.
* **Whole-row write-backs** (`candidates.py:158`) of a row read minutes earlier,
  and artifact files that several runs overwrite (`local.py:26`).
* **Handlers that outlive their answer.** The middleware gives up after 20 s
  (`main.py:42`), the thread goes on, the client tries again.
* **One random generator for the process** (`sensitivity.py:12`), seeded and drawn
  from by concurrent requests.
* **Files read by people and overwritten by schedules** (`recalibrate.py:133`),
  and truncated before they are filled.
* **Verdicts derived from verdicts.** Margins become warnings, warnings become
  flags, statuses, table entries and ranks, by code prefixes and severities that
  are kept in different files.

`PROJECT.json` lists the hazards at their lines.

What makes each component correct:

* *Job service*: a decided row is whole; no job is stranded unless something
  failed; the queue drains and jobs settle; a failed job says why; one request
  executes one job; retries with one key are bounded; with one executor and one
  reviewer, the lifecycle of `docs/architecture/v1-contract.md`.
* *Job repository*: each call takes effect at one moment; the lock is never
  leaked; the cache never answers.
* *Toolchain run*: result and report agree; a run is lost only to one it overlapped;
  a report names files that are there and not older than the run; a tool is fed by
  what ran before it in the same request; statuses say what happened.
* *Feedback and guardrails*: at most `RATE_LIMIT` admissions per window; one row
  per identity whatever is retried; nothing stored for a job closed for good;
  every admitted feedback decided; aggregates that add up.
* *Pipeline*: a selection takes candidates away and changes nothing else; the
  robustness of a request left alone is reproducible; a dominating winner is
  stable whatever others do.
* *Physics and export*: failures reach the reader as flags, in tables and in the
  choice of the safest candidate; more duty is never cooler; files are never of an
  older run than those the script writes after them.
* *Recalibration*: thresholds keep their order; only an approved proposal with
  enough telemetry is promoted; the file people look at shows the policy in force as approved.

## The modules

| Module | Models |
|---|---|
| `JobRows` | a row of the table and what `create`, `update` and the queries do with it; no state |
| `JobService` | the job service: API threads, worker, faults, crashes on one table |
| `JobLifecycle` | abstract: the lifecycle of one job as clients are told of it |
| `JobRepository` | `get`, `create`, `update` statement by statement: table, cache, lock, exceptions, crash |
| `JobStore` | abstract: a table whose calls are atomic |
| `ToolchainTools` | the plan of the contracts and what the four runners compute; no state |
| `ToolchainRun` | the endpoint, the execution service, the runners' files; composes `ToolchainTools` |
| `Telemetry` | slices, drift and summary of the feedback table; no state |
| `Feedback` | `submit_feedback` behind the guardrails, with retries and jobs that move; composes `Telemetry` |
| `Physics` | the four physics checks and their merge; no state |
| `PhysicsExport` | the comparison script; composes `Physics` |
| `Generation` | the pipeline, its callers and the shared generator; takes the beam and the duty cycle from `Physics` |
| `Recalibration` | scheduled proposals, promotion, the files between them |
| `MC...` | the instances TLC checks: data, and symmetry sets |
| `JobServiceProofs`, `JobRepositoryProofs`, `FeedbackProofs`, `ToolchainRunProofs`, `PhysicsExportProofs`, `GenerationProofs`, `RecalibrationProofs` | theorems about the module of the name |
| `NumberLemmas` | least and greatest elements, induction, minima, quotients and ranks, which four of them need |

A request crosses several of these models. They meet in what each takes from the
next as given: `JobService` takes from the repository that a call is atomic (which
`RepositoryIsStore` proves) and from the pipeline whether it raises (`Generation`
says when); `ToolchainRun` and `Feedback` take from `JobService` that a second
execution may store a fresh result or claim a settled job.

### JobService

`rows` is the table, `thread[t]` the program point and local variables of a
thread *between two repository calls*. A step is one repository call with the
code up to the next one; `Call` and `Read` say what a call may do: take effect
and return, or, while `faults < MaxFaults`, raise with or without its effect.
That a call is one step is not assumed: it is what `JobRepository` is shown to
provide, including that a call which raises may or may not have had its effect.

| Code | Action |
|---|---|
| `generate`, `candidates.py:58-63` | `GenerateReplay`, `GenerateNew` (lookup, id and time stamp), `Insert` (the insert), then `process_one_job` |
| `process_one_job`, `runner.py:16-44` | `Poll` (the worker's choice of a job), `Check`, `Claim`, `Half`, `Pipeline`, `CancelCheck`, `CancelFail` or `Finish`; `Fail` is the `except` block |
| `worker_loop`, `runner.py:47-51` | `WorkerStep`; an exception ends the thread (`Raised` gives `dead`) |
| `approve_job`, `reject_job` | `BeginReview` (read and test), `Approve` or `Reject` (write) |
| `job_status`, `job_report`, `design_review_package` | `GetJob`, `Respond` |
| process ends, `startup_worker`, `main.py:25` | `Crash` |
| column `cancelled`, which no code sets | `SetCancelled`, only where `CancelAllowed` |

Data kept: the columns that control flow reads or properties tell apart. A result
and a report are named by the thread whose execution wrote them, an error by its
kind, progress is in tenths, the requirement is `feasible` or `infeasible`:
whether the pipeline returns or raises (`sensitivity.py:25` raises when no
candidate is feasible). The pipeline touches no row, so it is one step.

### JobRepository

A row is a function of its columns; `call[t]` holds the arguments of a thread's
call, its program point and the row its select has returned. Writes go through
`Acquire`, `Commit`, `Release`; all three calls end in `Select`, `Fill` (the cache
write of `_row_to_dict`) and `Refill` (the cache write of the caller).
`Raise` is `sqlite3.Error` from a statement. The change of the default database
path and the search of sibling databases happen only under pytest and are left
out.

### ToolchainRun and ToolchainTools

One job. `generation` is the content of its stored result (the input fingerprints
are hashes of it, and the paths of the files go with them), so a second execution
may come out as the first did and lead to the same paths;
`latest` and `report` are the two places a run is recorded in, `files` the store:
a file's content is the run that wrote it last.

| Code | Action |
|---|---|
| `run_job_toolchain`, `candidates.py:135-152` | `Start`: the row is read whole |
| `run_selected_tools`, `executor.py:47-79` | per tool `Skip` (no contract, dry run, no runner, no executable) or one `Store` per artifact |
| a runner's `run` | `Store`, whose last one computes the output (`ToolchainTools`) from the facts of the candidate and the artifacts upstream |
| `write_bytes` raises | `Raise`: 500, the files stored so far stay |
| `candidates.py:153-163` | `AnswerDry`, or `Write`: result and report go back as they were read, with this run in both |
| `process_one_job` finishing, `runner.py:38` | `Finish`: a fresh result and report |

`ToolchainTools` has the plan and its hand-over order, the placeholder solid, where
FreeCAD and CalculiX find geometry, the margin report and the Pareto front. Kept as
the code has it: a torque margin of zero reads as 0.25 in the sweep; the deflection
margin is clamped, so only the stress margin can fail a report; contracts carry the
sweep factors where the runner does not look.

### Feedback and Telemetry

A client submits until it has a final answer. `RateLimited`, `TooLarge`, `Submit`
are the middleware (`main.py:30-45`); `Look`, `Window`, `Insert` the three database
calls of the handler; `TimeOut` answers 504 and leaves the thread running. Each of
the three calls may raise (`Raise`, the insert before or after its commit), which the
handler does not catch, and the process may end at any moment (`Crash`): threads,
decisions under way and the deque are gone, the tables stay. Neither is bounded.
`Tick` is time: stamps are kept as ages, capped where nothing tells them apart, so
there is no bound on the clock. `ClaimAgain`, `Settle`, `BeginReview`, `Decide`,
`BreakOff`, `Expire` are what `JobService` and the calendar do to the job meanwhile:
a reviewer reads the status in one step (`BeginReview`) and writes in another
(`Decide`), whatever the status is by then, and `reviews` has the verdicts that are
yet to be written. `admitted`, `decided`, `lost` and `closed` are history for the
properties: `admitted` has the ages of the last `RateLimit + 1` requests that were
let in, whatever the deque still holds, so `RateBound` compares the two; `lost` has
the clients whose thread ended with an exception or the process.

### Generation

The pipeline is a function of the request up to `random.seed` and between draws, so
the steps are `Receive`, `Seed` and `Draw`; the value drawn depends on how often the
one generator was used since it was seeded. `RankingOf` is the functional part: unit
conversion, selection, the three plugins, feasibility, sourcing, scores in ten
thousandths, ranking. The id of a candidate is its topology and the places of its
parts in the catalog, so that two candidates never share one; they compare as the
texts of the code do. A rank is a count, of the candidates with a higher score, or
the same and an earlier id. An asynchronous request loses its selection (`Arguments`), an
unknown unit or an empty ranking is an exception. Kept as the code has it: only belts
look at the motor power, a default power of 0 excludes all of them and nothing else;
motors at their end of life are penalised, not excluded; validation remarks on a
requirement and stops nothing.

### Physics and PhysicsExport

Physics is in integers (percent, mm, mNm, W). Margins are rounded down; deflection and
stress, which must stay below a limit, are rounded up; the temperature rise and the
duty cycle are compared as they are. `PhysicsExport` picks
designs and a requirement, then runs the script: `RunCase`, `NoCandidate`, one
`WriteFile` per file, `Die` anywhere, `Start` again. The check tables, margins and
ranks are those of the script; scores are left out. The rows of a case are kept
under the place of their design in the catalog, which is also their order.

What a design or a requirement may be is `DesignTyped` and `RequirementTyped`. For a
design the code sees to it: ratings and efficiencies that are missing or not positive
get a default (`_positive_float`, `thermal.py:10`) or are clamped (`_clamp`), and every
other divisor is `max(x, 1e-9)` in the code, `Max({1, x})` here. For a requirement it
sees to the duty cycle only, which lies between 0 and 1 (`requirements.py:6-12`):
a quantity may have any sign (`common.py:5-7`) and `validate_requirement` remarks on
one that is not positive without stopping it. The model takes speed, travel and
payload that are not negative.

### Recalibration

Schedulers and approvers are processes; a step is one file operation, and a write
truncates before it fills. Who fills a file that somebody else has filled since it was
truncated may leave a mix of both texts, which reads like a torn file (`Filled`).
`Propose` has the clamps in ten thousandths.

## What the runs check

| Run | Instance | Question |
|---|---|---|
| `job_race` | 1 job, 1 key, 2 API threads that also review, 1 worker, 2 faults, 1 crash, cancelling | Does the row stay whole, attended, owned and explained when everything interleaves and fails? |
| `job_single` | 3 jobs, 1 key, 2 API threads of which 1 reviews, no worker | Does the table implement `JobLifecycle`, and how many jobs can a key get when two requests with it are served at once? |
| `job_live` | 2 jobs, 1 API thread that also reviews, 1 worker, 1 crash | Is every queued job taken up, does every job come to rest, do the columns of a job tell its status while no two threads work on it at a time? |
| `repo_store` | 1 job, 2 threads, 2 columns, 2 values, 1 crash, any statement may raise | Is each repository call atomic, the lock returned, the cache silent? |
| `toolchain` | 2 handlers, 2 candidates, 3 requests, 2 installations, 2 runs, 2 results, 1 crash or raise | Do row, files and executions agree when runs overlap each other and the pipeline, and are the tools' outputs sound? |
| `physics_export` | 504 pairs of a catalog and a requirement, 2 starts of the script | Do verdicts, tables, ranks and files tell the truth about the checks? |
| `feedback` | 2 clients, 2 threads, 2 jobs, 9 pairs of submissions, limit 2, window and timeout 1 tick | Do limits hold, is feedback stored once, only where it may be, and decided, and do the aggregates of two rows add up? |
| `recalibration` | 2 schedulers, 2 approvers, 6 telemetries, 3 proposals, 2 promotions, 1 death | Are thresholds sane and promotions approved, however the processes interleave? |
| `generation` | 2 threads, 5 requests, 10 parts, 2 samples | What does the shared generator do to the robustness, the selection to the ranking? |

Bounds. Two executions of a job need two threads; two decisions, or two creations under
one key, need two API threads; a second job lets one thread be at work on one job while
the other races; a key gets its second job when two requests look it up before either
inserts, and a third job would let it get one more. Two faults are a failing creator and
a failing worker; one crash separates two lives of the process. Rows share no data, so
more jobs add only combinations. In `repo_store` one thread's stale fill races the
other's update; two columns show that updates of different columns are both kept. Two
toolchain runs and two results are a lost update and an undone one; one crash or raise
leaves half the files of a tool behind for the second run. The first request is in the
planned order, the second against it with a name twice, the third names a tool without a
runner and one nobody knows. The run `feedback` is three instances in one, told apart by
what the clients send (`Bounds` in `MCFeedback`): one client, whose job moves and whose
retries meet the limit; two rivals who collide on the reviewer and whose attempts and
retries fill both threads, with the jobs at rest; and two clients one after the other,
who collide on the source, or leave two rows on both sides of a window's end, in two
weeks, in two topologies or without a day, so that sums have more than one term. The
telemetries of `recalibration` make each clamp bite on either side; three proposals let
one be overwritten while it is promoted. Two samples of four draws each let any draw of
one request fall into the other's; the requests differ in what they select, in their
weights and in whether anything is feasible. The designs of `physics_export` are on
either side of each threshold that the grid reaches.

`MaxFaults`, `MaxCrashes`, `MaxRuns`, `MaxGenerations`, `MaxProposals`, `MaxPromotions`,
`MaxDeaths` are the bounds on counters; `clock` is bounded by the number of ids. Two
runs have a `CONSTRAINT`. `FewReviews` bounds `job_single`: the third job is there for
the race of keys, the lifecycle of two is seen to the end. `Bounds` bounds `feedback`:
what the rows of the table are does not depend on the jobs, and what the endpoint makes
of a job that moves needs one client. It cuts off the crash for the one client, which
does to its job what `BreakOff` does, but no step of a handler and no tick. Neither
constraint cuts off a step that fairness asks for, so liveness means under it what it
means without it. Symmetry over interchangeable ids, keys, threads and processes is used
in runs of invariants, and in `repo_store`, whose refinement is a safety property; no
run of a liveness property uses it. Deadlock is checked, except where the bounds let the
system stop: `toolchain`, `physics_export`, `recalibration`.

Fairness. In `JobService`, `WF_vars(HandlerStep(h))` and `WF_vars(WorkerStep(w))`: a
live thread that has something to do is scheduled by the operating system. No client has
to ask, no reviewer has to decide, nothing has to fail. `JobLifecycle` asks that an
accepted job starts and a started one settles; `job_single` shows both follow. In
`Feedback`, `WF_vars(HandlerStep(h))` for the same reason and `WF_vars(Tick)`: time
passes. No client has to retry, no reviewer to decide, and nothing to fail. The other
modules promise nothing that must eventually happen.

What holds only with a condition, and why:

* `QueueDrains` holds without faults, crash or no crash; `JobsSettle` speaks of
  behaviours without either: a job may leave a settled status, because its second
  executor claims it late, but only as often as there are executors. A failed job
  may therefore run again, and keeps the error of its first execution, since
  `update` cannot clear a column. `docs/architecture/v1-contract.md:222` and `:250`
  say otherwise.
* `StrandedOnlyByFailure`: after a crash a claimed job stays `running` for good;
  `next_queued` selects queued rows only.
* `KeyRaceBounded`: a key has one job for each request that was served at once, not
  one job, because the lookup and the insert are two calls.
* `LifecycleSpec` needs one executor and one reviewer, so `job_single` has no worker,
  although `main.py:25-27` starts one. `UndisturbedColumns` and the theorem
  `LifecycleIsKept` are the claims for the service as it is started: they hold of each
  job as long as no call has raised and no two threads have created, executed or decided
  that job at the same time (`Undisturbed`), whatever they do to other jobs.
* `RunsAreRecorded`: a toolchain run does vanish from the report when another one
  overlapped it, or when a second execution stores a fresh report.
* `ClosedJobsStayClosed` is about requests that come in after the job was closed for
  good, with no execution and no decision of it under way. One that came in before may
  still be stored after a rejection; so may one that came after a rejection while a
  reviewer who had read `awaiting_review` was yet to write an approval; and a job
  executed again after its decision has its old `completed_at`, so its window may be
  over while it awaits review.
* `FeedbackDecided`: a feedback that was let in may be lost to a call that raises
  (`candidates.py:168-198` catch `ValueError` and `IntegrityError` only) or to the end
  of the process, and to nothing else.
* `SelectionHonoured` speaks of the selection of requests that are answered at once. A
  job loses it: `create` stores the requirement alone (`candidates.py:63`), and the
  worker runs the pipeline with every topology (`runner.py:29-34`), although `README.md:22`
  offers `allowed_topologies` and `excluded_topologies` for the endpoint.
* `FilesInOrder`: a comparison of an earlier run may lie beside cases of a later one
  that died. One of the latest run has its own cases beside it, whole.
* `ActiveWasApproved` and `ActiveIsOnRecord` speak of files that can be read; approval
  is the call of `promote_recalibrated_policy`, and nothing records which proposal the
  approver had looked at.
* `AloneReproducible` and `DominantIsStable`: the level of a request that shared the
  generator depends on the others, unless its winner dominates.
* `TablesShowFailure` is stated for the heat and the controls. The lists of codes at
  `export_physics_compare.py:53-107` have neither `risk_structural_*` nor
  `PHYS_MASS_OVER_BUDGET`, so the other two tables may show a failed check as passed.
* `TelemetryAddsUp` needs a table whose dates can be read: one text that is no date
  makes slices and drift raise for all.

### Where the code contradicts itself or its documents

| Run | Claim | What the code does |
|---|---|---|
| `viol_decision` | `candidates.py:94`, `:105`: a decision on a decided job is invalid | two concurrent decisions both succeed, the later one stays |
| `viol_policy` | `docs/recalibration-workflow.md:38`: consume policy version `v2` | the promoted file lacks two sections `loader.py:39-40` requires, so it cannot be loaded |
| `viol_infeasible` | `reporting/explain.py:4`, `examples/benchmarks/scenarios.json:226`: no feasible candidate is a result | `sensitivity.py:25` raises; the request answers 500, the job fails |

Each passing property has a mutant, an operator `... Mutant:` before the definition
it replaces, that breaks it the way a plausible bug would.

## What is proved

For all values of the constants (any number of jobs, keys, threads, columns; any
bounds on faults and crashes), from the named assumptions of the modules only
(`None` differs from all data and threads, workers are not API threads, reviewers are,
bounds are natural numbers, dates that can be read are integers, designs,
requirements, requests and parts are of their types). Two of these are worth a look:
`ToolchainAssumption` has no mass and no speed of zero, which the sweep would read as
its default (`openmdao.py:85-92`), and `CatalogAssumption` no ratio and no screw
efficiency of zero, by which the plugins divide.

* `JobServiceProofs`
  * `TypeCorrect`: `Spec => []TypeOK`.
  * `OwnersStay`: `Spec => []OwnershipInvariant`, and its consequence
    `JobsHaveOneCreator`: beside the worker at most one request executes a job.
    `OwnershipInvariant` is inductive: an id is drawn when no row and no thread
    has it, a job under creation has no row, so nobody else can come to hold it
    before its creator has begun.
  * `RowsStayWhole`: `Spec => []ReviewInvariant`, and its consequence
    `ReviewedRowsAreComplete`. `ReviewedRowsComplete` alone is not inductive,
    since a verdict is written long after the status was read.
    `ReviewInvariant` adds that result and report change together, that the
    reviewable statuses have a result, and that a thread about to write a verdict
    has seen such a row; no update clears a column, so the result is still there.
  * `JobsAreAttended`: `StrandedOnlyByFailure`, from the same step lemmas.
  
  The actions are examined once: `ProcessShape`, `HandlerShape`, `RequestStarts`
  and `PollStarts` show that each is a *shape*, what a step of its thread may do
  to the row of its job and where the thread may go. Each invariant is then
  preserved by every step of that shape.
  
  From the same shapes follows what the table tells of the past:
  * `FailuresAreExplained`: `Spec => []FailuresExplained`. `FailureInvariant` adds
    what a thread has read: one about to write "cancelled" has found the column set,
    and nothing sets it back.
  * `KeyRacesAreBounded`: `KeyRaceBounded`, for finitely many API threads.
    `KeyInvariant` gives each job of a key a thread of its own: a job in the table
    stops all requests that begin later, so those it does not stop began together
    and are as many as there are threads. The count follows from an injection.
  * `ColumnsTellStatus` and `LifecycleIsKept`, for any number of workers, reviewers,
    jobs and crashes, and for each job by itself: as long as no call has raised and no
    two threads have created, executed or decided the job at the same time, error,
    verdict, progress and completion time tell its status, and every step of the
    service is one step of `JobLifecycle` on it or leaves its status alone. By
    `LifecycleInvariant` the program point of the one thread tells the status.
* `JobRepositoryProofs`
  * `TypeCorrect`: `Spec => []TypeOK`, and `CacheIsBacked`: the cache holds no job
    the table lacks. Inductive by `Known`, what each call may rely on at its program
    point.
  * `LockIsHeldByWriter`: `Spec => []LockHeldByWriter`: whatever raises or crashes,
    the lock has one holder, the thread inside its block, or none.
  * `RepositoryIsStore`: `JobRepository` implements `JobStore` under the mapping
    `StoreCall`: a read takes effect at its select, a write at its commit, a call
    that raises ends. The invariant is what keeps a select that finds no row from
    answering out of the cache.
* `FeedbackProofs`
  * `TypeCorrect`: `Spec => []TypeOK`; `TypeInvariant` adds that a client waits
    exactly while a thread has its call.
  * `RateIsBounded`: `Spec => []RateBound`, for any limit and window. `RateBound`
    speaks of the history alone and is not inductive; `Suffix` relates the deque to
    it: the deque is the end of the history, and what is no longer in it is older
    than the window.
  * `RowsAreApart`: `Spec => []OneRowPerIdentity`. `TableInvariant` adds that every
    row is signed, so that its identity is what the next insert looks for, and that
    the table is finite, so that what is counted of it is a number.
  * `ClosedStaysClosed`: `Spec => []ClosedJobsStayClosed`. `ClosedInvariant` adds
    that what was closed for good when a thread was let in still is, since no reviewer
    and no execution is left that could write to it, so the status or the window that
    the thread reads later refuses it.
  * `TelemetryWindows`: in every reachable table the two windows of the drift, of
    any lengths, share no row and leave none out between them, and a row of a weekly
    slice is of the seven days from its `period_start`.
  * `TelemetryIsWhole`: `Spec => []TelemetryAddsUp`: the daily slices add up to the
    summary too. `SumFunction` is a recursive function over sets of periods:
    `SumsExist` shows that it is defined, for sets of at most `n` members one after
    the other, and `OccurrencesAddUp` that what it has summed of a set of keys is how
    many rows have one of these keys.
* `ToolchainRunProofs`, for any requests, installations and numbers of runs
  * `TypeCorrect`: `Spec => []TypeOK`, from `TypeInvariant`, which says what a run
    under way has read and how far it is.
  * `RowTellsRuns`: `Spec => []RunsAreRecorded`. `AgreementInvariant` carries the
    agreement of `latest` and the report through what each run has *read*, since that
    is what it writes back; `OverlapInvariant` says of each of those copies that a
    run it lacks overlapped another recorded run.
  * `FilesAreCurrent`: `Spec => []RecordedFilesCurrent`. `AfootInvariant`: no run
    that is under way had ended before another began, so what it overwrites becomes
    no older than the run that names it; `FileInvariant` says so of the report, of
    its copies and of the executions not recorded yet.
  * `GeometryFollowsOrder`: `Spec => []GeometryIsFed`. `ResultInvariant` ties the
    artifacts of an execution to whether its runner was called, `FeedInvariant` the
    geometry of each execution to those before it.
  * `StatusIsHonest`: `Spec => []RunsAreHonest`, for the dry run by `DryInvariant`.
  * `RunnersAreSound`: `Spec => []OutputsAreSound`. `OutputInvariant` says that what
    a run holds of a tool is what the tool computes for the candidate; the rest is
    about that. A finite set of margins has a least one, and the clamped margin is
    never negative (`ReportIs`); a block of any mass has room for its pads
    (`PadsSound`); each of the 36 edges of the facets has one facet on either side
    (`AlongIs`, `AlongOnce`). Of two points of the sweep the faster is the heavier,
    so none dominates another and the front leaves nothing out (`FrontIs`): the code
    filters, but has nothing to filter.
* `PhysicsExportProofs`, for all designs and requirements of their types
  * `TypeCorrect`: `Spec => []TypeOK`, and `FilesStayInOrder`:
    `Spec => []FilesInOrder`. `ScriptInvariant` says how far a run has come: by
    `PlaceInvariant` the files before the one it is at are all whole and of this run,
    and by `FileInvariant` none is of a later one; `HeldInvariant` names the summaries.
  * `VerdictsAlwaysAgree`: `VerdictsAgree`. A failed check has a warning of high
    severity, or is the drivetrain and the controls fail with it, which have one
    (`VerdictIs`); the margins of speed have one sign (`SlowIsSlow`).
  * `HeatAlwaysGrows`: `HeatGrowsWithDuty`. The response is taken apart into what
    depends on the duty cycle and what does not (`ThermalIs`); products, quotients,
    minima and maxima of naturals grow with what they are made of.
  * `TablesAlwaysShowFailure`: `TablesShowFailure`. The severe warnings of the drive
    are in no list of codes, but the margin of the drive is one of the four whose
    least is the thermal margin, so that warning comes too (`ThermalFails`).
  * `ComparisonAlwaysSound`: `ComparisonIsSound`. All margins are integers (the
    lemmas named `...Least`), so ranks are tuples of seven integers and their order
    is strict; less power takes rows away and changes none.
* `GenerationProofs`, for any catalog, requests, numbers of samples and values drawn
  * `TypeCorrect`: `Spec => []TypeOK`. That the tops of the samples are ids of
    candidates rests on ranks being taken: in an order that tells the members of a
    finite set apart the counts of those before are all different, hence all the
    numbers there are (`PrecedingGrow`, `EveryRankIsTaken`), so the `CHOOSE` of
    `Ranked` finds somebody and the sort of a sample has a first (`SomebodyIsFirst`).
  * `DominantWinnersAreStable`: `Spec => []DominantIsStable`. No perturbed weight
    falls below 0.01, so a candidate that is better somewhere and worse nowhere has
    the greater sum under all of them (`DominantWeighs`); `DominantInvariant` keeps
    that for each sample, whoever else draws in between.
  * `AloneRequestsAreReproducible`: `Spec => []AloneReproducible`. `AloneInvariant`
    ties `drawn` to a thread: while nobody interrupts it, the generator has been used
    four times for each of its samples and as often as it has values of the next.
  * `SelectionsAreHonoured`: `Spec => []SelectionHonoured`. Membership in a ranking
    does not depend on what else was selected, and order and scores of two candidates
    depend on these two alone (`RankingIs`), so the selection of a request that is
    answered at once filters the ranking of all topologies; `OutcomeInvariant` says when there is an answer.
* `RecalibrationProofs`, for any telemetry with integer averages
  * `TypeCorrect`: `Spec => []TypeOK`, thresholds within their clamps included.
  * `ThresholdsStayOrdered`: `Spec => []HighBelowMedium`. `GapKept` is the
    arithmetic: the lower margin is clamped at 4000, so 200 more survives the
    clamp of the upper one at 5000.
  * `PromotedWasApproved`: `Spec => []ActiveWasApproved`, and
    `PromotedIsOnRecord`: `Spec => []ActiveIsOnRecord`. The second is not
    inductive: an overwritten file says nothing of what comes next. `Inv` adds that
    a proposal a scheduled run still holds is in nobody else's hands, neither
    approved nor in the file (`Fresh`), that approvers carry it as approved
    (`Gates`), and that who writes the policy has written the gate (`Promoted`).

Each of these inductive invariants was checked by TLC on the instance of its run
before it was proved. Induction over naturals, for which the provers have no rule
they can use, is stated for sets in `NumberLemmas` and follows from the order of
the naturals being well-founded.

Each safety property that a passing run checks is stated by a theorem, and so is
each step of the two refinements.

Only model-checked: the liveness properties (`QueueDrains`, `JobsSettle`,
`FeedbackDecided`) and that the fairness of `JobService` gives the fairness
`LifecycleSpec` asks for. Both need `ENABLED`, which the prover does not handle.
What a run of a violated claim shows is a counterexample and needs no proof.

## Not modelled

* `domain/synthesis/generate.py`: an older copy of the belt plugin that nothing calls.
* `domain/scoring/calibration.py`: a script that counts matches over a file.
* The text and payload of contracts, decks, macros, reports and Markdown files; risk
  flags, confidence and score breakdowns; logging; trace ids. They are layout: no
  control flow reads them.
* The CAD adapter, settings, health and requirements routes, the loader of the
  catalog: constant answers and files of data.
* The paths of the repository that exist for pytest, `LocalArtifactStore.get`, which
  nothing but tests calls, and the percent-decoding of URIs.
* Floating point: scores, margins and thresholds are integers at a stated scale; a
  value that differs in the last place may differ in the model.
* The averages of telemetry, as opposed to its counts; the cache of `load_policy`,
  since every caller asks for `v1`.
* A torn artifact file: `write_bytes` is one step; the torn files of the script and of
  recalibration are modelled.

## Plan

The planned modules and theorems are there. What could come next:

* the ids of candidates as texts: the model takes the parts of a catalog in the order
  of their ids and compares places, belts first, as the texts of numbered belts do
  (`belt_axis/plugin.py:11`); parts with other ids may sort differently;
* a bound on how far rounding moves a score, to replace the integers at a fixed scale;
* the liveness properties, with a prover that knows `ENABLED`.

------------------------------ MODULE Feedback ------------------------------
(***************************************************************************)
(* POST /v1/jobs/{id}/feedback behind the guardrails of the API            *)
(* (apps/api/main.py, apps/api/routes/candidates.py, the feedback table of *)
(* JobRepository), with clients that retry after 429 and 504, handler      *)
(* threads that outlive the answer of the middleware, and the jobs that    *)
(* reviewers and second executions move meanwhile.  A job has a result     *)
(* when it is first awaiting review, where the model begins.               *)
(*                                                                         *)
(* A repository call may raise sqlite3.OperationalError (locked database,  *)
(* full disk), which no handler catches, and the process may crash and be  *)
(* started again; both as often as they like.                              *)
(*                                                                         *)
(* Seconds are told by ages: a time stamp is the number of ticks since it  *)
(* was taken, up to the one at which nothing looks at it any more, so the  *)
(* clock needs no bound.  time.time() is taken to be monotone.             *)
(***************************************************************************)
EXTENDS Telemetry, Sequences, Functions

CONSTANTS
    Clients,     \* each submits one feedback, until it has a final answer
    Submissions, \* what the clients may send: sets of [job, reviewer, source,
                 \* observed, large], one for each client
    Handlers,    \* threads of the pool
    TopologyOf,  \* of each job: the topology of the first candidate of its result
    RateLimit,   \* RATE_LIMIT
    RateWindow,  \* RATE_WINDOW_SECONDS, in ticks
    Timeout,     \* REQUEST_TIMEOUT_SECONDS, in ticks
    None

Jobs == DOMAIN TopologyOf

ASSUME FeedbackAssumption ==
    /\ RateLimit \in Nat \ {0} /\ RateWindow \in Nat \ {0} /\ Timeout \in Nat \ {0}
    /\ Today \in Int
    /\ None \notin Handlers
    /\ \A s \in Submissions : \A c \in Clients :
          /\ s[c].job \in Jobs
          /\ s[c].observed.kind = "day" => s[c].observed.day \in Int

VARIABLES
    payload,   \* what each client sends, the same in every attempt
    recent,    \* _recent: the ages of the requests that were let in
    admitted,  \* history: the ages of the last RateLimit + 1 of them, whatever
               \* has become of their entries
    call,      \* the attempt of each client: state, age, thread
    decided,   \* history: the clients whose feedback a thread has decided on
               \* since they were last let in
    lost,      \* history: those of whom, since then, a thread has ended with an
               \* exception or with the process
    work,      \* what each thread does: program point, client, and whether
               \* the job was closed for good when the request was let in
    jobs,      \* the rows the endpoint reads: status, whether the feedback
               \* window is unset, open or over, the second execution, and the
               \* verdicts that reviewers who read awaiting_review will write
    table      \* the feedback table

vars == <<payload, recent, admitted, call, decided, lost, work, jobs, table>>

\* Out: not sent yet, or answered 429, 500 or 504 or not at all, which a client
\* may try again; refused: 400, 409 for the job, 413.
Final == {"recorded", "duplicate", "refused"}

Free == [pc |-> "free", client |-> None, closed |-> FALSE]
NoCall(state) == [state |-> state, age |-> 0, thread |-> None]

Init ==
    /\ payload \in Submissions
    /\ recent = <<>>
    /\ admitted = <<>>
    /\ call = [c \in Clients |-> NoCall("out")]
    /\ decided = {}
    /\ lost = {}
    /\ work = [h \in Handlers |-> Free]
    /\ jobs = [j \in Jobs |-> [status |-> "awaiting_review", window |-> "unset",
                               second |-> "unclaimed", reviews |-> {}]]
    /\ table = {}

----------------------------------------------------------------------------
(* The middleware guardrails *)

\* The deque after popleft() while its first entry is older than the limit.
PopOld(ages, limit) ==
    LET first == CHOOSE i \in 1 .. Len(ages) + 1 :
                    /\ \A k \in 1 .. i - 1 : ages[k] > limit
                    /\ i <= Len(ages) => ages[i] <= limit
    IN  SubSeq(ages, first, Len(ages))

\* Mutant: an entry goes with the tick at which it is RateWindow old.
KeepYoung(ages) == PopOld(ages, RateWindow - 1)

\* The entries are in the order of their arrival, the oldest first.
KeepRecent(ages) == PopOld(ages, RateWindow)

\* Closed for good: nothing the job goes through can open it again.  It is not
\* while a second execution or a decision is under way, which writes its status
\* whatever has become of the job, nor when it awaits review past its window: the
\* next decision moves the window.  A running job without an execution is one
\* whose thread is gone.
ClosedForGood(job) ==
    /\ job.second = "done"
    /\ job.reviews = {}
    /\ \/ job.status \in {"failed", "rejected", "running"}
       \/ job.status = "approved" /\ job.window = "over"

\* One more request for the history, which keeps the last RateLimit + 1.
Remember(ages) == Append(IF Len(ages) > RateLimit THEN Tail(ages) ELSE ages, 0)

\* An attempt of client c that meets the guardrails: 429, 413 or a thread.
RateLimited(c) ==
    /\ call[c].state = "out"
    /\ Len(KeepRecent(recent)) >= RateLimit
    /\ recent' = KeepRecent(recent)
    /\ call' = [call EXCEPT ![c] = NoCall("out")]
    /\ UNCHANGED <<payload, admitted, decided, lost, work, jobs, table>>

\* Mutant: one request too many.
LetInOneMore(c) ==
    /\ call[c].state = "out"
    /\ Len(KeepRecent(recent)) <= RateLimit
    /\ recent' = Append(KeepRecent(recent), 0)
    /\ admitted' = Remember(admitted)

LetIn(c) ==
    /\ call[c].state = "out"
    /\ Len(KeepRecent(recent)) < RateLimit
    /\ recent' = Append(KeepRecent(recent), 0)
    /\ admitted' = Remember(admitted)

TooLarge(c) ==
    /\ LetIn(c)
    /\ payload[c].large
    /\ call' = [call EXCEPT ![c] = NoCall("refused")]
    /\ UNCHANGED <<payload, decided, lost, work, jobs, table>>

\* The threads of the pool are alike: any of those that are free.
FreeHandlers == {h \in Handlers : work[h].pc = "free"}

Submit(c) ==
    /\ LetIn(c)
    /\ ~payload[c].large
    /\ FreeHandlers # {}
    /\ LET h == CHOOSE h \in FreeHandlers : TRUE IN
          /\ work' = [work EXCEPT ![h] = [pc |-> "look", client |-> c,
                                          closed |-> ClosedForGood(jobs[payload[c].job])]]
          /\ call' = [call EXCEPT ![c] = [state |-> "waiting", age |-> 0, thread |-> h]]
    /\ decided' = decided \ {c}
    /\ lost' = lost \ {c}
    /\ UNCHANGED <<payload, jobs, table>>

\* Mutant: the thread ends with the wait.
TimeOutCancels(c) ==
    /\ call[c].state = "waiting"
    /\ call[c].age >= Timeout
    /\ call' = [call EXCEPT ![c] = NoCall("out")]
    /\ work' = [work EXCEPT ![call[c].thread] = Free]
    /\ UNCHANGED <<payload, recent, admitted, decided, lost, jobs, table>>

\* asyncio.wait_for gives up; the thread goes on.
TimeOut(c) ==
    /\ call[c].state = "waiting"
    /\ call[c].age >= Timeout
    /\ call' = [call EXCEPT ![c] = NoCall("out")]
    /\ UNCHANGED <<payload, recent, admitted, decided, lost, work, jobs, table>>

Older(age, limit) == IF age < limit THEN age + 1 ELSE limit

\* Time passes for the ages, up to the first beyond the rate window.
Tick ==
    /\ recent' = [i \in DOMAIN recent |-> Older(recent[i], RateWindow + 1)]
    /\ admitted' = [i \in DOMAIN admitted |-> Older(admitted[i], RateWindow + 1)]
    /\ call' = [c \in Clients |-> [call[c] EXCEPT !.age =
                   IF call[c].state = "waiting" THEN Older(@, Timeout) ELSE @]]
    /\ UNCHANGED <<payload, decided, lost, work, jobs, table>>

----------------------------------------------------------------------------
(* submit_feedback, on a thread of the pool *)

Sent(h) == payload[work[h].client]

\* The thread is done; its answer reaches the client only if that still waits.
Answer(h, outcome) ==
    LET c == work[h].client IN
    /\ work' = [work EXCEPT ![h] = Free]
    /\ decided' = decided \cup {c}
    /\ call' = IF call[c].thread = h THEN [call EXCEPT ![c] = NoCall(outcome)] ELSE call
    /\ UNCHANGED lost

GoOn(h, pc) ==
    /\ work' = [work EXCEPT ![h].pc = pc]
    /\ UNCHANGED <<call, decided, lost>>

Allowed == {"approved", "completed", "awaiting_review"}

\* Mutant: the status is not looked at.
LookUnchecked(h) ==
    /\ work[h].pc = "look"
    /\ GoOn(h, "window")
    /\ UNCHANGED <<payload, recent, admitted, jobs, table>>

\* repo.get and the test of the status.
Look(h) ==
    /\ work[h].pc = "look"
    /\ IF jobs[Sent(h).job].status \in Allowed
       THEN GoOn(h, "window") ELSE Answer(h, "refused")
    /\ UNCHANGED <<payload, recent, admitted, jobs, table>>

\* is_feedback_window_open, which reads the row a second time.
WindowOpen(job) ==
    IF job.window = "unset" THEN job.status = "awaiting_review" ELSE job.window = "open"

Window(h) ==
    /\ work[h].pc = "window"
    /\ IF WindowOpen(jobs[Sent(h).job]) THEN GoOn(h, "insert") ELSE Answer(h, "refused")
    /\ UNCHANGED <<payload, recent, admitted, jobs, table>>

RowOf(p) == [job |-> p.job, reviewer |-> p.reviewer, source |-> p.source, observed |-> p.observed]

\* Mutant: one index over job, reviewer and source.
ClashesAsTriple(row, other) ==
    row.job = other.job /\ row.reviewer = other.reviewer /\ row.source = other.source

\* uq_feedback_job_reviewer and uq_feedback_job_source, two partial indexes.
Clashes(row, other) ==
    /\ row.job = other.job
    /\ \/ row.reviewer # None /\ row.reviewer = other.reviewer
       \/ /\ row.reviewer = None /\ other.reviewer = None
          /\ row.source # None /\ row.source = other.source

\* add_feedback.
Insert(h) ==
    LET row == RowOf(Sent(h)) IN
    /\ work[h].pc = "insert"
    /\ \/ /\ row.reviewer = None /\ row.source = None
          /\ Answer(h, "refused")
          /\ UNCHANGED table
       \/ /\ row.reviewer # None \/ row.source # None
          /\ \E other \in table : Clashes(row, other)
          /\ Answer(h, "duplicate")
          /\ UNCHANGED table
       \/ /\ row.reviewer # None \/ row.source # None
          /\ ~ \E other \in table : Clashes(row, other)
          /\ table' = table \cup {row}
          /\ Answer(h, "recorded")
    /\ UNCHANGED <<payload, recent, admitted, jobs>>

\* A call of the repository raises, the insert before or after its commit; the
\* client gets a 500, nothing is decided.
Raise(h) ==
    LET c == work[h].client
        row == RowOf(Sent(h))
    IN
    /\ work[h].pc # "free"
    /\ \/ UNCHANGED table
       \/ /\ work[h].pc = "insert"
          /\ row.reviewer # None \/ row.source # None
          /\ ~ \E other \in table : Clashes(row, other)
          /\ table' = table \cup {row}
    /\ work' = [work EXCEPT ![h] = Free]
    /\ lost' = lost \cup {c}
    /\ call' = IF call[c].thread = h THEN [call EXCEPT ![c] = NoCall("out")] ELSE call
    /\ UNCHANGED <<payload, recent, admitted, decided, jobs>>

----------------------------------------------------------------------------
(* The jobs meanwhile; see JobService for how they come to it *)

Move(j, row) ==
    /\ jobs' = [jobs EXCEPT ![j] = row]
    /\ UNCHANGED <<payload, recent, admitted, call, decided, lost, work, table>>

\* The creator and the worker may both execute a job; the second of them
\* claims it whatever has become of it since it was queued.
ClaimAgain(j) ==
    /\ jobs[j].second = "unclaimed"
    /\ Move(j, [jobs[j] EXCEPT !.status = "running", !.second = "executing"])

\* The second execution ends.
Settle(j) ==
    /\ jobs[j].second = "executing"
    /\ \E status \in {"awaiting_review", "failed"} :
          Move(j, [jobs[j] EXCEPT !.second = "done", !.status = status])

\* Approve and reject read the status in a call of its own.
BeginReview(j) ==
    /\ jobs[j].status = "awaiting_review"
    /\ \E verdict \in {"approved", "rejected"} :
          Move(j, [jobs[j] EXCEPT !.reviews = @ \cup {verdict}])

\* Then they write, whatever the status is by now, and completed_at with it.
\* Other reviewers may be about to write the same verdict.
Decide(j) ==
    \E verdict \in jobs[j].reviews :
        \E left \in {jobs[j].reviews, jobs[j].reviews \ {verdict}} :
            Move(j, [jobs[j] EXCEPT !.status = verdict, !.window = "open", !.reviews = left])

\* The call of a reviewer or of the second execution raises: the request or the
\* thread ends there.
BreakOff(j) ==
    \/ \E verdict \in jobs[j].reviews :
          Move(j, [jobs[j] EXCEPT !.reviews = @ \ {verdict}])
    \/ /\ jobs[j].second # "done"
       /\ Move(j, [jobs[j] EXCEPT !.second = "done"])

\* FEEDBACK_WINDOW_DAYS have passed since completed_at; no execution takes days.
Expire(j) ==
    /\ jobs[j].window = "open"
    /\ jobs[j].second # "executing"
    /\ Move(j, [jobs[j] EXCEPT !.window = "over", !.second = "done"])

JobStep(j) ==
    ClaimAgain(j) \/ Settle(j) \/ BeginReview(j) \/ Decide(j) \/ BreakOff(j) \/ Expire(j)

----------------------------------------------------------------------------
\* The process ends and is started again: the threads are gone, and with them
\* the executions, the decisions and the deque of the middleware; the tables stay.
Crash ==
    /\ recent' = <<>>
    /\ admitted' = <<>>
    /\ call' = [c \in Clients |-> IF call[c].state = "waiting" THEN NoCall("out") ELSE call[c]]
    /\ lost' = lost \cup {work[h].client : h \in Handlers \ FreeHandlers}
    /\ work' = [h \in Handlers |-> Free]
    /\ jobs' = [j \in Jobs |-> [jobs[j] EXCEPT !.second = "done", !.reviews = {}]]
    /\ UNCHANGED <<payload, decided, table>>

----------------------------------------------------------------------------
HandlerStep(h) == Look(h) \/ Window(h) \/ Insert(h)

Next ==
    \/ \E c \in Clients : RateLimited(c) \/ TooLarge(c) \/ Submit(c) \/ TimeOut(c)
    \/ \E h \in Handlers : HandlerStep(h) \/ Raise(h)
    \/ \E j \in Jobs : JobStep(j)
    \/ Tick
    \/ Crash

\* The system runs every live thread and its clock; no client has to retry, and
\* nothing has to fail.
Fairness == WF_vars(Tick) /\ \A h \in Handlers : WF_vars(HandlerStep(h))

Spec == Init /\ [][Next]_vars /\ Fairness

----------------------------------------------------------------------------
\* The variables have their types; the deque never holds more than the limit.
TypeOK ==
    /\ payload \in Submissions
    /\ recent \in Seq(0 .. RateWindow + 1) /\ Len(recent) <= RateLimit
    /\ admitted \in Seq(0 .. RateWindow + 1) /\ Len(admitted) <= RateLimit + 1
    /\ \A c \in Clients : /\ call[c].state \in Final \cup {"out", "waiting"}
                          /\ call[c].age \in 0 .. Timeout
                          /\ call[c].state = "waiting" <=> call[c].thread \in Handlers
    /\ decided \subseteq Clients /\ lost \subseteq Clients
    /\ \A h \in Handlers : work[h].pc \in {"free", "look", "window", "insert"}
    /\ \A row \in table : row \in {RowOf(payload[c]) : c \in Clients}

\* No window of RateWindow, both ends counted, sees more than RateLimit
\* requests pass the guardrails of one process, those refused afterwards for size
\* included: of any RateLimit + 1 successive ones the first is out of the window of
\* the last.
RateBound == Len(admitted) > RateLimit => admitted[1] > RateWindow

Identity(r) == IF r.reviewer # None THEN <<r.job, "reviewer", r.reviewer>>
               ELSE <<r.job, "source", r.source>>

\* Retries, also those that overlap the attempt they repeat, leave at most one
\* row for the reviewer, or the source without one, that reports; and who is
\* told "recorded" or "duplicate" has such a row.
OneRowPerIdentity ==
    /\ \A row, other \in table : Identity(row) = Identity(other) => row = other
    /\ \A c \in Clients : call[c].state \in {"recorded", "duplicate"} =>
          \E row \in table : Identity(row) = Identity(RowOf(payload[c]))

\* A request that comes when the job is closed for good, rejected, failed or past
\* its window with no execution and no decision under way, is never stored,
\* although the row is read twice while it moves.
ClosedJobsStayClosed == \A h \in Handlers : work[h].pc = "insert" => ~work[h].closed

\* Whatever the middleware has told the client, a feedback that was let in is
\* decided: recorded, refused, or found to be there.  Only a raising call or the
\* end of the process, while a thread serves it, can lose it.
FeedbackDecided == \A c \in Clients : call[c].state = "waiting" ~> c \in decided \cup lost

\* The two windows of the drift share no row and miss none between them, and a
\* weekly slice holds the rows of the seven days from its period_start.
WindowsAddUp ==
    /\ \A r, b \in 1 .. 2 :
          Drift(table, r, b).recent + Drift(table, r, b).baseline =
              Cardinality({row \in table : ObservedDay(row) \in (Today - r - b) .. Today})
    /\ \A key \in DOMAIN Slices(table, "weekly", TopologyOf) :
          Slices(table, "weekly", TopologyOf)[key] =
              Cardinality({row \in table : /\ ObservedDay(row) \in key[1] .. key[1] + 6
                                           /\ TopologyOf[row.job] = key[2]})

\* Beside that, the daily slices hold what the summary counts.
TelemetryAddsUp ==
    Readable(table) =>
        WindowsAddUp /\ SumFunction(Slices(table, "daily", TopologyOf)) = Summary(table)
=============================================================================

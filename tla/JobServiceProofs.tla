-------------------------- MODULE JobServiceProofs --------------------------
(***************************************************************************)
(* Theorems about JobService, for any number of jobs, keys, API threads    *)
(* and workers and for any bounds on faults and crashes: its types, who    *)
(* owns a row, what a review and a failure say of the past of a row, how   *)
(* many jobs the requests with one key may have created, and the lifecycle *)
(* it implements.                                                          *)
(***************************************************************************)
EXTENDS JobService, NumberLemmas, FiniteSetTheorems

GoodState == {state \in ThreadState : Holding(state)}

Typed == TypeOK /\ thread \in [Threads -> GoodState]

Patch == [status   : Statuses \cup {None},
          progress : Tenths \cup {None},
          error    : Errors \cup {None},
          result   : Threads \cup {None},
          review   : Reviews \cup {None},
          report   : Threads \cup {None}]

----------------------------------------------------------------------------
\* update() keeps a row a row, whatever columns it is given.
LEMMA UpdatedIsRow ==
    ASSUME NEW row \in Row, NEW patch \in Patch
    PROVE  Updated(row, patch) \in Row
  <1>2. /\ Given(patch.status, row.status) \in Statuses \cup {Absent}
        /\ Given(patch.progress, row.progress) \in Tenths
        /\ Given(patch.error, row.error) \in Errors \cup {None}
        /\ Given(patch.result, row.result) \in Threads \cup {None}
        /\ Given(patch.review, row.review) \in Reviews \cup {None}
        /\ Given(patch.report, row.report) \in Threads \cup {None}
    BY DEF Given, Row, Patch
  <1>3. (IF patch.status \in Deciding THEN "set" ELSE row.completed_at) \in {"set", None}
    BY DEF Row
  <1> QED
    BY <1>2, <1>3 DEF Updated, Row

\* create() inserts a row of the table's type.
LEMMA NewRowIsRow ==
    ASSUME NEW key \in Keys \cup {None}, NEW stamp \in Nat, NEW input \in Inputs
    PROVE  NewRow(key, stamp, input) \in Row
  BY DEF NewRow, NoRow, Row, Statuses, Absent, Tenths, Inputs

\* A program point together with the id of a job is a thread state.
LEMMA AtIsGood ==
    ASSUME NEW pc \in PCs, NEW j \in Jobs
    PROVE  At(pc, j) \in GoodState
  BY DEF At, GoodState, ThreadState, Holding

\* So is having nothing to do, and having ended with an exception.
LEMMA RestIsGood ==
    ASSUME NEW t \in Threads
    PROVE  Rest(t) \in GoodState /\ Raised(t) \in GoodState
  BY DEF Rest, Raised, At, GoodState, ThreadState, Holding, PCs

\* So is what follows the return of process_one_job.
LEMMA ReturnedIsGood ==
    ASSUME NEW t \in Threads, NEW j \in Jobs
    PROVE  Returned(t, j) \in GoodState
  BY DEF Returned, At, GoodState, ThreadState, Holding, PCs

\* The patches of process_one_job and of the two decisions.
LEMMA PatchesArePatches ==
    ASSUME NEW t \in Threads
    PROVE  /\ [NoPatch EXCEPT !.status = "running", !.progress = 1] \in Patch
           /\ [NoPatch EXCEPT !.progress = 5] \in Patch
           /\ \A e \in Errors :
                [NoPatch EXCEPT !.status = "failed", !.progress = 10, !.error = e] \in Patch
           /\ [NoPatch EXCEPT !.status = "awaiting_review", !.progress = 10,
                              !.result = t, !.report = t] \in Patch
           /\ \A v \in Reviews : [NoPatch EXCEPT !.status = v, !.review = v] \in Patch
  BY DEF NoPatch, Patch, Statuses, Tenths, Errors, Reviews

----------------------------------------------------------------------------
(* What one step of a thread that has begun something may do, as far as the
   invariants care.  ProcessShape and HandlerShape go through the actions once;
   each invariant is then preserved by every step of this shape. *)

Resting == {"idle", "poll", "dead"}

WorkerPCs == Executing \cup {"poll", "dead", "check", "claim"}

\* What ReviewInvariant says of one row.
Whole(row) ==
    /\ row.report = row.result
    /\ row.status \in {"awaiting_review", "approved", "rejected"} => row.result # None
    /\ row.status \in Reviews => row.review = row.status /\ row.completed_at = "set"

\* What FailuresExplained says of one row.
Explained(row) ==
    /\ row.status = "failed" => row.error # None
    /\ row.error = "cancelled" => row.cancelled = 1

\* Where the thread goes: it begins nothing new and keeps its job.
Moves(t, state) ==
    /\ state \in GoodState
    /\ state.pc \notin {"insert", "approve", "reject"}
    /\ state.pc \in Resting \/ state.job = thread[t].job
    /\ state.pc \in Creating => thread[t].pc \in Creating
    /\ state.pc = "cancel_fail" => rows[thread[t].job].cancelled = 1
    /\ t \in Workers => state.pc \in WorkerPCs
    /\ thread' = [thread EXCEPT ![t] = state]

\* What it may write to the row of its job.
Writes(t, row) ==
    LET old == rows[thread[t].job] IN
    /\ row \in Row
    /\ row.status # Absent
    /\ /\ Whole(old)
       /\ thread[t].pc \in {"approve", "reject"} => old.result # None
       => Whole(row)
    /\ thread[t].pc # "insert" /\ old.result # None => row.result # None
    /\ thread[t].pc # "insert" =>
          /\ row.cancelled = old.cancelled
          /\ row.key = old.key
          /\ row.created_at = old.created_at
    /\ thread[t].pc = "insert" =>
          row.key = thread[t].key /\ row.created_at = thread[t].stamp
    /\ /\ Explained(old)
       /\ thread[t].pc = "cancel_fail" => old.cancelled = 1
       => Explained(row)

\* As long as no call raises, a job is left running or queued only for a thread
\* that goes on with it.
Calm(t, state) ==
    LET j == thread[t].job IN
    faults' = faults =>
        /\ rows'[j].status = "running" =>
              \/ state.pc \in Executing
              \/ rows[j].status = "running" /\ thread[t].pc \notin Executing
        /\ rows'[j].status = "queued" =>
              \/ t \in Handlers /\ state.pc \in {"check", "claim"}
              \/ /\ rows[j].status = "queued"
                 /\ t \in Handlers => thread[t].pc \notin {"check", "claim"}

Shape(t) ==
    /\ thread[t].pc \notin Resting
    /\ faults' \in {faults} \cup {n \in 1 .. MaxFaults : n = faults + 1}
    /\ UNCHANGED <<clock, crashes>>
    /\ \E state \in GoodState :
          /\ Moves(t, state)
          /\ Calm(t, state)
          /\ \/ rows' = rows /\ (state.pc \in Resting \/ thread[t].pc # "insert")
             \/ \E row \in Row : /\ Writes(t, row)
                                 /\ rows' = [rows EXCEPT ![thread[t].job] = row]

\* A repository call has the shape if its row and its two ends have it; where
\* the exception lands matters only to the types.
LEMMA CallShape ==
    ASSUME Typed, NEW t \in Threads, thread[t].pc \notin Resting,
           NEW row, Writes(t, row), NEW ok, NEW err,
           Call(t, thread[t].job, row, ok, err),
           thread' = [thread EXCEPT ![t] = ok] => Moves(t, ok),
           thread' = [thread EXCEPT ![t] = err] => Moves(t, err),
           thread[t].pc = "insert" => err.pc \in Resting,
           row.status = "running" =>
              \/ ok.pc \in Executing
              \/ /\ rows[thread[t].job].status = "running"
                 /\ thread[t].pc \notin Executing,
           row.status = "queued" =>
              \/ t \in Handlers /\ ok.pc \in {"check", "claim"}
              \/ /\ rows[thread[t].job].status = "queued"
                 /\ t \in Handlers => thread[t].pc \notin {"check", "claim"}
    PROVE  Shape(t)
  <1> DEFINE j == thread[t].job
  <1>1. /\ j \in Jobs /\ rows \in [Jobs -> Row] /\ faults \in Nat
        /\ row \in Row
    BY BoundsAssumption DEF Typed, TypeOK, GoodState, Holding, Resting, Writes
  <1>2. CASE /\ rows' = [rows EXCEPT ![j] = row]
             /\ thread' = [thread EXCEPT ![t] = ok]
             /\ UNCHANGED faults
    <2>1. Calm(t, ok)
      BY <1>1, <1>2 DEF Calm
    <2>2. Moves(t, ok) /\ ok \in GoodState
      BY <1>2 DEF Moves
    <2> QED
      BY <1>1, <1>2, <2>1, <2>2 DEF Shape, Call
  <1>3. CASE /\ faults < MaxFaults
             /\ faults' = faults + 1
             /\ rows' \in {rows, [rows EXCEPT ![j] = row]}
             /\ thread' = [thread EXCEPT ![t] = err]
    <2>1. Calm(t, err)
      BY <1>1, <1>3 DEF Calm
    <2>2. Moves(t, err) /\ err \in GoodState
      BY <1>3 DEF Moves
    <2>3. faults' \in {n \in 1 .. MaxFaults : n = faults + 1}
      BY <1>1, <1>3, BoundsAssumption
    <2> QED
      BY <1>1, <1>3, <2>1, <2>2, <2>3 DEF Shape, Call
  <1> QED
    BY <1>2, <1>3 DEF Call

\* The same for a call that only reads.
LEMMA ReadShape ==
    ASSUME Typed, NEW t \in Threads, thread[t].pc \notin Resting \cup {"insert"},
           NEW ok, NEW err,
           Read(t, ok, err),
           thread' = [thread EXCEPT ![t] = ok] => Moves(t, ok),
           thread' = [thread EXCEPT ![t] = err] => Moves(t, err),
           rows[thread[t].job].status = "running" =>
              ok.pc \in Executing \/ thread[t].pc \notin Executing,
           rows[thread[t].job].status = "queued" =>
              \/ t \in Handlers /\ ok.pc \in {"check", "claim"}
              \/ t \in Handlers => thread[t].pc \notin {"check", "claim"}
    PROVE  Shape(t)
  <1>1. faults \in Nat
    BY BoundsAssumption DEF Typed, TypeOK
  <1>2. CASE thread' = [thread EXCEPT ![t] = ok] /\ UNCHANGED faults
    <2>1. Calm(t, ok) /\ Moves(t, ok) /\ ok \in GoodState
      BY <1>2 DEF Calm, Read, Moves
    <2> QED
      BY <1>2, <2>1 DEF Shape, Read
  <1>3. CASE /\ faults < MaxFaults
             /\ faults' = faults + 1
             /\ thread' = [thread EXCEPT ![t] = err]
    <2>1. Calm(t, err) /\ Moves(t, err) /\ err \in GoodState
      BY <1>1, <1>3 DEF Calm, Moves
    <2>2. faults' \in {n \in 1 .. MaxFaults : n = faults + 1}
      BY <1>1, <1>3, BoundsAssumption
    <2> QED
      BY <1>3, <2>1, <2>2 DEF Shape, Read
  <1> QED
    BY <1>2, <1>3 DEF Read

\* The ends of the calls of process_one_job.
LEMMA EndsMove ==
    ASSUME Typed, NEW t \in Threads, thread[t].pc \in Executing \cup {"check", "claim"}
    PROVE  /\ \A pc \in Executing \cup {"claim"} :
                 /\ thread' = [thread EXCEPT ![t] = At(pc, thread[t].job)]
                 /\ pc = "cancel_fail" => rows[thread[t].job].cancelled = 1
                 => Moves(t, At(pc, thread[t].job))
           /\ thread' = [thread EXCEPT ![t] = Raised(t)] => Moves(t, Raised(t))
           /\ thread' = [thread EXCEPT ![t] = Returned(t, thread[t].job)]
                 => Moves(t, Returned(t, thread[t].job))
  <1> DEFINE j == thread[t].job
  <1>1. j \in Jobs /\ thread[t].pc \in Creating
    BY DEF Typed, TypeOK, GoodState, Holding, Creating, Executing
  <1>2. ASSUME NEW pc \in Executing \cup {"claim"},
               thread' = [thread EXCEPT ![t] = At(pc, j)],
               pc = "cancel_fail" => rows[j].cancelled = 1
        PROVE  Moves(t, At(pc, j))
    <2>1. At(pc, j) \in GoodState
      BY <1>1, AtIsGood DEF PCs
    <2> QED
      BY <1>1, <1>2, <2>1 DEF Moves, At, Executing, WorkerPCs
  <1>3. ASSUME thread' = [thread EXCEPT ![t] = Raised(t)] PROVE Moves(t, Raised(t))
    BY <1>1, <1>3, RestIsGood DEF Moves, Raised, At, Executing, Creating, WorkerPCs, Resting
  <1>4. ASSUME thread' = [thread EXCEPT ![t] = Returned(t, j)] PROVE Moves(t, Returned(t, j))
    BY <1>1, <1>4, ReturnedIsGood DEF Moves, Returned, At, Executing, Creating, WorkerPCs, Resting
  <1> QED
    BY <1>2, <1>3, <1>4

\* Every step of process_one_job has the shape: one action after the other.
LEMMA ProcessShape ==
    ASSUME Typed, OwnershipInvariant, NEW t \in Threads, ProcessOneJob(t)
    PROVE  Shape(t)
  <1> DEFINE j == thread[t].job
  <1>1. thread[t].pc \in Executing \cup {"check", "claim"}
    BY DEF ProcessOneJob, Check, Claim, Half, Pipeline, CancelCheck, CancelFail, Finish,
           Fail, Executing
  <1>2. /\ j \in Jobs /\ rows[j] \in Row
        /\ rows[j].status # Absent
        /\ thread[t].pc \notin Resting \cup {"insert", "approve", "reject"}
    BY <1>1 DEF Typed, TypeOK, GoodState, Holding, Resting, Executing,
                OwnershipInvariant, Exists
  <1>3. \A patch \in Patch : Updated(rows[j], patch) \in Row
    BY <1>2, UpdatedIsRow
  <1>4. t # None /\ \A new \in Statuses \cup Errors \cup Tenths \cup Threads : new # None
    BY NoneAssumption
  <1>14. \A patch : /\ Updated(rows[j], patch).cancelled = rows[j].cancelled
                    /\ Updated(rows[j], patch).key = rows[j].key
                    /\ Updated(rows[j], patch).created_at = rows[j].created_at
    BY DEF Updated
  <1>5. CASE Check(t)
    <2> DEFINE ok == IF rows[j].status = "queued" THEN At("claim", j) ELSE Returned(t, j)
    <2>1. Read(t, ok, Raised(t)) /\ thread[t].pc = "check"
      BY <1>5 DEF Check
    <2>2. thread' = [thread EXCEPT ![t] = ok] => Moves(t, ok)
      BY <1>1, EndsMove
    <2>3. thread' = [thread EXCEPT ![t] = Raised(t)] => Moves(t, Raised(t))
      BY <1>1, EndsMove
    <2>4. rows[j].status = "queued" => ok.pc = "claim"
      BY DEF At
    <2>5. thread[t].pc \notin Executing
      BY <2>1 DEF Executing
    <2> HIDE DEF ok
    <2> QED
      BY <1>2, <2>1, <2>2, <2>3, <2>4, <2>5, ReadShape DEF Threads
  <1>6. CASE Claim(t)
    <2> DEFINE row == Updated(rows[j], [NoPatch EXCEPT !.status = "running", !.progress = 1])
               ok  == At("half", j)
    <2>1. Call(t, j, row, ok, Raised(t))
      BY <1>6 DEF Claim
    <2>2. row \in Row
      BY <1>3, PatchesArePatches
    <2>3. /\ row.status = "running" /\ row.report = rows[j].report
          /\ row.result = rows[j].result /\ row.error = rows[j].error
      BY <1>4, NoneAssumption DEF Updated, NoPatch, Given, Statuses
    <2>4. Writes(t, row)
      BY <1>2, <1>14, <2>2, <2>3 DEF Writes, Whole, Explained, Reviews, Absent
    <2>5. /\ thread' = [thread EXCEPT ![t] = ok] => Moves(t, ok)
          /\ thread' = [thread EXCEPT ![t] = Raised(t)] => Moves(t, Raised(t))
      BY <1>1, EndsMove DEF Executing
    <2>6. ok.pc \in Executing
      BY DEF At, Executing
    <2> HIDE DEF row, ok
    <2> QED
      BY <1>2, <2>1, <2>3, <2>4, <2>5, <2>6, CallShape
  <1>7. CASE Half(t)
    <2> DEFINE row == Updated(rows[j], [NoPatch EXCEPT !.progress = 5])
               ok  == At("pipeline", j)
    <2>1. Call(t, j, row, ok, At("fail", j)) /\ thread[t].pc = "half"
      BY <1>7 DEF Half
    <2>2. row \in Row
      BY <1>3, PatchesArePatches
    <2>3. /\ row.status = rows[j].status /\ row.report = rows[j].report
          /\ row.result = rows[j].result /\ row.review = rows[j].review
          /\ row.completed_at = rows[j].completed_at /\ row.error = rows[j].error
      BY <1>4, NoneAssumption DEF Updated, NoPatch, Given, Deciding, Statuses
    <2>4. Writes(t, row)
      BY <1>2, <1>14, <2>2, <2>3 DEF Writes, Whole, Explained
    <2>5. /\ thread' = [thread EXCEPT ![t] = ok] => Moves(t, ok)
          /\ thread' = [thread EXCEPT ![t] = At("fail", j)] => Moves(t, At("fail", j))
      BY <1>1, EndsMove DEF Executing
    <2>6. ok.pc \in Executing
      BY DEF At, Executing
    <2> HIDE DEF row, ok
    <2> QED
      BY <1>2, <2>1, <2>3, <2>4, <2>5, <2>6, CallShape
  <1>8. CASE Pipeline(t)
    <2>1. PICK pc \in {"cancel_check", "fail"} : thread' = [thread EXCEPT ![t] = At(pc, j)]
      BY <1>8 DEF Pipeline
    <2>2. pc \in Executing /\ At(pc, j).pc = pc
      BY DEF Executing, At
    <2>3. Moves(t, At(pc, j)) /\ At(pc, j) \in GoodState
      BY <1>1, <2>1, <2>2, EndsMove DEF Moves
    <2>4. Calm(t, At(pc, j))
      BY <1>8, <2>2 DEF Calm, Pipeline
    <2> QED
      BY <1>2, <1>8, <2>3, <2>4 DEF Shape, Pipeline
  <1>9. CASE CancelCheck(t)
    <2> DEFINE ok == At(IF rows[j].cancelled = 1 THEN "cancel_fail" ELSE "finish", j)
    <2>1. Read(t, ok, At("fail", j)) /\ thread[t].pc = "cancel_check"
      BY <1>9 DEF CancelCheck
    <2>2. /\ thread' = [thread EXCEPT ![t] = ok] => Moves(t, ok)
          /\ thread' = [thread EXCEPT ![t] = At("fail", j)] => Moves(t, At("fail", j))
      BY <1>1, EndsMove DEF Executing
    <2>3. ok.pc \in Executing
      BY DEF At, Executing
    <2> HIDE DEF ok
    <2> QED
      BY <1>2, <2>1, <2>2, <2>3, ReadShape
  <1>10. ASSUME NEW e \in Errors, NEW err,
                Call(t, j, Updated(rows[j], [NoPatch EXCEPT !.status = "failed",
                                             !.progress = 10, !.error = e]),
                     Returned(t, j), err),
                err = At("fail", j) \/ err = Raised(t),
                e = "cancelled" => thread[t].pc = "cancel_fail"
         PROVE  Shape(t)
    <2> DEFINE row == Updated(rows[j], [NoPatch EXCEPT !.status = "failed",
                                                       !.progress = 10, !.error = e])
    <2>1. row \in Row
      BY <1>3, PatchesArePatches
    <2>2. /\ row.status = "failed" /\ row.report = rows[j].report
          /\ row.result = rows[j].result /\ row.error = e
      BY <1>4, NoneAssumption DEF Updated, NoPatch, Given, Statuses
    <2>3. Writes(t, row)
      BY <1>2, <1>4, <1>10, <1>14, <2>1, <2>2 DEF Writes, Whole, Explained, Reviews, Absent
    <2>4. /\ thread' = [thread EXCEPT ![t] = Returned(t, j)] => Moves(t, Returned(t, j))
          /\ thread' = [thread EXCEPT ![t] = err] => Moves(t, err)
      BY <1>1, <1>10, EndsMove DEF Executing
    <2>5. Call(t, j, row, Returned(t, j), err)
      BY <1>10
    <2> HIDE DEF row
    <2> QED
      BY <1>2, <2>2, <2>3, <2>4, <2>5, CallShape
  <1>11. CASE CancelFail(t)
    BY <1>10, <1>11 DEF CancelFail, Errors
  <1>12. CASE Finish(t)
    <2> DEFINE row == Updated(rows[j], [NoPatch EXCEPT !.status = "awaiting_review",
                                            !.progress = 10, !.result = t, !.report = t])
    <2>1. Call(t, j, row, Returned(t, j), At("fail", j))
      BY <1>12 DEF Finish
    <2>2. row \in Row
      BY <1>3, PatchesArePatches
    <2>3. /\ row.status = "awaiting_review" /\ row.report = t /\ row.result = t
          /\ row.error = rows[j].error
      BY <1>4, NoneAssumption DEF Updated, NoPatch, Given, Statuses
    <2>4. Writes(t, row)
      BY <1>2, <1>4, <1>14, <2>2, <2>3 DEF Writes, Whole, Explained, Reviews, Absent
    <2>5. /\ thread' = [thread EXCEPT ![t] = Returned(t, j)] => Moves(t, Returned(t, j))
          /\ thread' = [thread EXCEPT ![t] = At("fail", j)] => Moves(t, At("fail", j))
      BY <1>1, EndsMove DEF Executing
    <2> HIDE DEF row
    <2> QED
      BY <1>2, <2>1, <2>3, <2>4, <2>5, CallShape
  <1>13. CASE Fail(t)
    BY <1>10, <1>13 DEF Fail, Errors
  <1> QED
    BY <1>5, <1>6, <1>7, <1>8, <1>9, <1>11, <1>12, <1>13 DEF ProcessOneJob

\* So has every step of a handler that has begun a request.
LEMMA HandlerShape ==
    ASSUME Typed, OwnershipInvariant, NEW h \in Handlers,
           Insert(h) \/ Respond(h) \/ Approve(h) \/ Reject(h)
    PROVE  Shape(h)
  <1> DEFINE j == thread[h].job
  <1>1. thread[h].pc \in {"insert", "respond", "approve", "reject"}
    BY DEF Insert, Respond, Approve, Reject
  <1>2. /\ h \in Threads /\ h \notin Workers
        /\ thread[h].pc \notin Resting
        /\ j \in Jobs /\ rows[j] \in Row
    BY <1>1, ThreadsAssumption DEF Typed, TypeOK, GoodState, Holding, Resting, Threads
  <1>3. /\ Rest(h) = Raised(h)
        /\ Rest(h).pc = "idle"
        /\ Rest(h) \in GoodState
    BY <1>2, RestIsGood DEF Rest, Raised, At
  <1>4. thread' = [thread EXCEPT ![h] = Rest(h)] => Moves(h, Rest(h))
    BY <1>2, <1>3 DEF Moves, Resting, Creating, Executing
  <1>5. CASE Insert(h)
    <2> DEFINE ok == At("check", j)
    <2>1. thread[h].pc = "insert"
      BY <1>5 DEF Insert
    <2>2. PICK input \in Inputs :
             Call(h, j, NewRow(thread[h].key, thread[h].stamp, input), ok, Raised(h))
      BY <1>5 DEF Insert
    <2> DEFINE row == NewRow(thread[h].key, thread[h].stamp, input)
    <2>3. row \in Row
      BY <1>2, NewRowIsRow DEF Typed, TypeOK, ThreadState
    <2>4. /\ row.status = "queued" /\ row.result = None /\ row.report = None
          /\ row.error = None /\ None # "cancelled"
          /\ row.key = thread[h].key /\ row.created_at = thread[h].stamp
      BY NoneAssumption DEF NewRow, NoRow, Errors
    <2>5. Writes(h, row)
      BY <2>1, <2>3, <2>4 DEF Writes, Whole, Explained, Reviews, Absent
    <2>6. ok \in GoodState /\ ok.pc = "check" /\ ok.job = j
      BY <1>2, AtIsGood DEF At, PCs
    <2>7. thread' = [thread EXCEPT ![h] = ok] => Moves(h, ok)
      BY <1>2, <2>1, <2>6 DEF Moves, Creating
    <2>8. Raised(h).pc \in Resting
      BY <1>3 DEF Resting
    <2> HIDE DEF row, ok
    <2> QED
      BY <1>2, <1>3, <1>4, <2>2, <2>4, <2>5, <2>6, <2>7, <2>8, CallShape DEF row
  <1>6. CASE Respond(h)
    <2>1. Moves(h, Rest(h))
      BY <1>4, <1>6 DEF Respond
    <2>2. Calm(h, Rest(h))
      BY <1>6 DEF Calm, Respond, Executing
    <2> QED
      BY <1>2, <1>3, <1>6, <2>1, <2>2 DEF Shape, Respond
  <1>7. ASSUME NEW v \in Reviews, thread[h].pc \in {"approve", "reject"},
               Call(h, j, Updated(rows[j], [NoPatch EXCEPT !.status = v, !.review = v]),
                    Rest(h), Raised(h))
        PROVE  Shape(h)
    <2> DEFINE row == Updated(rows[j], [NoPatch EXCEPT !.status = v, !.review = v])
    <2>1. row \in Row
      BY <1>2, UpdatedIsRow, PatchesArePatches
    <2>2. v # None
      BY NoneAssumption
    <2>3. /\ row.status = v /\ row.review = v /\ row.completed_at = "set"
          /\ row.report = rows[j].report /\ row.result = rows[j].result
          /\ row.error = rows[j].error /\ row.cancelled = rows[j].cancelled
          /\ row.key = rows[j].key /\ row.created_at = rows[j].created_at
      BY <2>2 DEF Updated, NoPatch, Given, Deciding, Reviews
    <2>4. Writes(h, row)
      BY <1>7, <2>1, <2>3 DEF Writes, Whole, Explained, Reviews, Absent
    <2>5. row.status # "running" /\ row.status # "queued"
      BY <2>3 DEF Reviews
    <2>6. Call(h, j, row, Rest(h), Rest(h))
      BY <1>3, <1>7
    <2>7. thread[h].pc # "insert"
      BY <1>7
    <2> HIDE DEF row
    <2> QED
      BY <1>2, <1>4, <2>4, <2>5, <2>6, <2>7, CallShape
  <1>8. CASE Approve(h)
    BY <1>7, <1>8 DEF Approve, Reviews
  <1>9. CASE Reject(h)
    BY <1>7, <1>9 DEF Reject, Reviews
  <1> QED
    BY <1>5, <1>6, <1>8, <1>9

\* What a thread may do that had nothing to do: a request begins, the worker
\* polls.  No row changes.
Begins(t, state) ==
    /\ state \in GoodState
    /\ thread' = [thread EXCEPT ![t] = state]
    /\ \/ /\ t \in Handlers
          /\ state.pc \in {"respond", "approve", "reject"}
          /\ Exists(rows, state.job)
          /\ state.pc # "respond" => rows[state.job].status = "awaiting_review"
       \/ /\ t \in Handlers
          /\ state.pc = "insert"
          /\ state.job \in FreshIds
          /\ state.stamp <= clock'
          /\ FindByKey(rows, state.key) = {}
       \/ /\ t \in Workers
          /\ state.pc = "check"
          /\ Exists(rows, state.job)
          /\ rows[state.job].status = "queued"
       \/ t \in Workers /\ state.pc = "dead"

Start(t) ==
    /\ thread[t].pc \in {"idle", "poll"}
    /\ clock' \in Nat /\ clock <= clock'
    /\ faults' \in {faults} \cup {n \in 1 .. MaxFaults : n = faults + 1}
    /\ UNCHANGED <<rows, crashes>>
    /\ \E state \in GoodState : Begins(t, state)

\* A request only begins something: it changes no row and takes an idle handler.
LEMMA RequestStarts ==
    ASSUME Typed, NEW h \in Handlers, Request(h)
    PROVE  Start(h)
  <1>1. clock \in Nat /\ clock + 1 \in Nat
    BY DEF Typed, TypeOK
  <1>2. CASE \E k \in Keys \cup {None} : GenerateNew(h, k)
    <2>1. PICK k \in Keys \cup {None} : GenerateNew(h, k)
      BY <1>2
    <2>2. PICK j \in FreshIds :
             thread' = [thread EXCEPT ![h] =
                          [pc |-> "insert", job |-> j, key |-> k, stamp |-> clock + 1]]
      BY <2>1 DEF GenerateNew
    <2> DEFINE state == [pc |-> "insert", job |-> j, key |-> k, stamp |-> clock + 1]
    <2>3. state \in GoodState
      BY <1>1 DEF GoodState, ThreadState, Holding, PCs, FreshIds
    <2>4. /\ state.pc = "insert" /\ state.job = j /\ state.key = k
          /\ state.stamp = clock + 1
      OBVIOUS
    <2>5. /\ FindByKey(rows, k) = {}
          /\ clock' = clock + 1
          /\ thread[h].pc = "idle"
          /\ UNCHANGED <<rows, faults, crashes>>
      BY <2>1 DEF GenerateNew
    <2>6. thread' = [thread EXCEPT ![h] = state]
      BY <2>2
    <2> HIDE DEF state
    <2>7. Begins(h, state)
      BY <1>1, <2>3, <2>4, <2>5, <2>6 DEF Begins
    <2> QED
      BY <1>1, <2>3, <2>5, <2>7 DEF Start
  <1>3. ASSUME NEW j \in Jobs, NEW pc \in {"respond", "approve", "reject"},
               Exists(rows, j),
               pc # "respond" => rows[j].status = "awaiting_review",
               thread[h].pc = "idle", thread' = [thread EXCEPT ![h] = At(pc, j)],
               UNCHANGED <<rows, clock, faults, crashes>>
        PROVE  Start(h)
    <2>1. At(pc, j) \in GoodState /\ At(pc, j).pc = pc /\ At(pc, j).job = j
      BY AtIsGood DEF PCs, At
    <2>2. Begins(h, At(pc, j))
      BY <1>3, <2>1 DEF Begins
    <2> QED
      BY <1>1, <1>3, <2>1, <2>2 DEF Start
  <1>4. CASE \E k \in Keys \cup {None} : GenerateReplay(h, k)
    BY <1>3, <1>4 DEF GenerateReplay, FindByKey, JobsOfKey
  <1>5. CASE \E j \in Jobs : GetJob(h, j)
    BY <1>3, <1>5 DEF GetJob
  <1>6. CASE /\ h \in Reviewers
             /\ \E j \in Jobs, verdict \in {"approve", "reject"} : BeginReview(h, j, verdict)
    BY <1>3, <1>6 DEF BeginReview, Exists, Absent
  <1> QED
    BY <1>2, <1>4, <1>5, <1>6 DEF Request

\* So does a poll, whether it finds a job, finds none or raises.
LEMMA PollStarts ==
    ASSUME Typed, NEW w \in Workers, Poll(w)
    PROVE  Start(w)
  <1>1. /\ w \in Threads /\ thread[w].pc = "poll" /\ clock \in Nat /\ faults \in Nat
        /\ Raised(w) \in GoodState /\ Raised(w).pc = "dead"
    BY RestIsGood, BoundsAssumption DEF Poll, Threads, Typed, TypeOK, Raised, At
  <1>2. thread' = [thread EXCEPT ![w] = Raised(w)] => Begins(w, Raised(w))
    BY <1>1 DEF Begins
  <1>3. CASE \E j \in NextQueued(rows) : Read(w, At("check", j), Raised(w))
    <2>1. PICK j \in NextQueued(rows) : Read(w, At("check", j), Raised(w))
      BY <1>3
    <2>2. j \in Jobs /\ Exists(rows, j) /\ rows[j].status = "queued"
      BY DEF NextQueued, QueuedIds, Exists, Absent
    <2>3. /\ At("check", j) \in GoodState
          /\ At("check", j).pc = "check" /\ At("check", j).job = j
      BY <2>2, AtIsGood DEF PCs, At
    <2>4. thread' = [thread EXCEPT ![w] = At("check", j)] => Begins(w, At("check", j))
      BY <2>2, <2>3 DEF Begins
    <2> QED
      BY <1>1, <1>2, <2>1, <2>3, <2>4, BoundsAssumption DEF Read, Start
  <1>4. CASE Read(w, Raised(w), Raised(w))
    BY <1>1, <1>2, <1>4, BoundsAssumption DEF Read, Start
  <1> QED
    BY <1>3, <1>4 DEF Poll

----------------------------------------------------------------------------
\* Every step of the system has one of the shapes.
LEMMA NextShapes ==
    ASSUME Typed, OwnershipInvariant, Next
    PROVE  \/ \E t \in Threads : Shape(t) \/ Start(t)
           \/ \E j \in Jobs : SetCancelled(j)
           \/ Crash
  BY ProcessShape, HandlerShape, RequestStarts, PollStarts
  DEF Next, HandlerStep, WorkerStep, Threads

\* The initial state has the types, and no thread has begun anything.
LEMMA InitTyped ==
    ASSUME Init PROVE Typed
  <1>1. NoRow \in Row
    BY DEF NoRow, Row, Tenths, Inputs, Absent
  <1>2. \A t \in Threads : Rest(t) \in GoodState
    BY RestIsGood
  <1>3. thread \in [Threads -> GoodState] /\ thread \in [Threads -> ThreadState]
    BY <1>2 DEF Init, GoodState
  <1>4. rows \in [Jobs -> Row]
    BY <1>1 DEF Init
  <1>5. clock \in Nat /\ faults \in 0 .. MaxFaults /\ crashes \in 0 .. MaxCrashes
    BY BoundsAssumption DEF Init
  <1> QED
    BY <1>3, <1>4, <1>5 DEF Typed, TypeOK

\* Every step keeps the types and leaves a thread that has begun with its job.
LEMMA StepTyped ==
    ASSUME Typed, OwnershipInvariant, [Next]_vars
    PROVE  Typed'
  <1>1. GoodState \subseteq ThreadState
    BY DEF GoodState
  <1>2. ASSUME NEW t \in Threads, Shape(t) PROVE Typed'
    BY <1>1, <1>2, BoundsAssumption DEF Shape, Moves, Writes, Typed, TypeOK
  <1>3. ASSUME NEW t \in Threads, Start(t) PROVE Typed'
    BY <1>1, <1>3, BoundsAssumption DEF Start, Begins, Typed, TypeOK
  <1>4. ASSUME NEW j \in Jobs, SetCancelled(j) PROVE Typed'
    <2>1. rows' \in [Jobs -> Row]
      BY <1>4 DEF SetCancelled, Typed, TypeOK, Row
    <2> QED
      BY <1>4, <2>1 DEF SetCancelled, Typed, TypeOK
  <1>5. CASE Crash
    <2>1. \A t \in Threads : Rest(t) \in GoodState
      BY RestIsGood
    <2> QED
      BY <1>1, <1>5, <2>1, BoundsAssumption DEF Crash, Typed, TypeOK
  <1>6. CASE UNCHANGED vars
    BY <1>6 DEF vars, Typed, TypeOK
  <1> QED
    BY <1>2, <1>3, <1>4, <1>5, <1>6, NextShapes

----------------------------------------------------------------------------
(* OwnershipInvariant *)

\* At first no job exists and no thread is executing one.
LEMMA InitOwnership ==
    ASSUME Init PROVE OwnershipInvariant
  <1>1. \A t \in Threads : thread[t].pc = IF t \in Workers THEN "poll" ELSE "idle"
    BY DEF Init, Rest, At
  <1>2. \A h \in Handlers : h \in Threads /\ thread[h].pc = "idle"
    BY <1>1, ThreadsAssumption DEF Threads
  <1>3. \A w \in Workers : thread[w].pc = "poll"
    BY <1>1 DEF Threads
  <1>4. OneCreator
    BY <1>2 DEF OneCreator, Busy, Executing
  <1> QED
    BY <1>1, <1>2, <1>3, <1>4 DEF OwnershipInvariant, Init, Creating, Executing

\* A step of a thread that has begun keeps each job with its one creator: the
\* thread stays with its job, and no row loses its existence.
LEMMA ShapeOwnership ==
    ASSUME Typed, OwnershipInvariant, NEW t \in Threads, Shape(t)
    PROVE  OwnershipInvariant'
  <1> DEFINE j == thread[t].job
  <1>1. PICK state \in GoodState :
          /\ Moves(t, state)
          /\ \/ rows' = rows /\ (state.pc \in Resting \/ thread[t].pc # "insert")
             \/ \E row \in Row : /\ Writes(t, row)
                                 /\ rows' = [rows EXCEPT ![j] = row]
    BY DEF Shape
  <1>2. /\ j \in Jobs
        /\ rows \in [Jobs -> Row]
        /\ thread \in [Threads -> GoodState]
        /\ thread'[t] = state
        /\ \A u \in Threads : u # t => thread'[u] = thread[u]
    BY <1>1 DEF Typed, TypeOK, GoodState, Holding, Shape, Moves, Resting
  <1>3. \/ rows' = rows
        \/ rows'[j].status # Absent /\ \A i \in Jobs : i # j => rows'[i] = rows[i]
    BY <1>1, <1>2 DEF Writes
  <1>4. \A i \in Jobs : Exists(rows, i) => Exists(rows', i)
    BY <1>3 DEF Exists
  <1>5. \A h, i \in Handlers :
          /\ thread'[h].pc \in Creating
          /\ thread'[i].pc \in Creating
          /\ thread'[h].job = thread'[i].job
          => h = i
    BY <1>1, <1>2 DEF OwnershipInvariant, Moves, Creating, Executing, Threads, Resting
  <1>6. OneCreator'
    BY <1>5 DEF OneCreator, Busy, Creating
  <1>7. \A w \in Workers :
          thread'[w].pc \in Executing \cup {"poll", "dead", "check", "claim"}
    BY <1>1, <1>2 DEF OwnershipInvariant, Threads, Moves, WorkerPCs
  <1>8. ASSUME NEW u \in Threads, thread'[u].pc = "insert"
        PROVE  ~Exists(rows', thread'[u].job)
    <2>1. u # t /\ thread[u].pc = "insert" /\ thread'[u].job = thread[u].job
      BY <1>1, <1>2, <1>8 DEF Moves
    <2>2. u \in Handlers
      BY <2>1 DEF OwnershipInvariant, Executing, Threads
    <2>3. thread[u].job \in Jobs /\ ~Exists(rows, thread[u].job)
      BY <1>2, <2>1 DEF OwnershipInvariant, GoodState, Holding
    <2>4. thread[u].job # j
      <3>1. CASE thread[t].pc = "insert"
        <4>1. t \in Handlers
          BY <3>1 DEF OwnershipInvariant, Executing, Threads
        <4> QED
          BY <2>1, <2>2, <3>1, <4>1 DEF OwnershipInvariant, Creating
      <3>2. CASE thread[t].pc # "insert"
        BY <2>3, <3>2 DEF OwnershipInvariant, Shape, Resting
      <3> QED
        BY <3>1, <3>2
    <2> QED
      BY <1>3, <2>1, <2>3, <2>4 DEF Exists
  <1>9. ASSUME NEW u \in Threads, thread'[u].pc \notin {"idle", "poll", "dead", "insert"}
        PROVE  Exists(rows', thread'[u].job)
    <2>1. CASE u # t
      <3>1. thread[u].job \in Jobs /\ Exists(rows, thread[u].job)
        BY <1>2, <1>9, <2>1 DEF OwnershipInvariant, GoodState, Holding
      <3> QED
        BY <1>2, <1>4, <2>1, <3>1
    <2>2. CASE u = t
      <3>1. thread'[u].job = j
        BY <1>1, <1>2, <1>9, <2>2 DEF Moves, Resting
      <3>2. CASE \E row \in Row : Writes(t, row) /\ rows' = [rows EXCEPT ![j] = row]
        BY <1>2, <3>1, <3>2 DEF Exists, Writes
      <3>3. CASE rows' = rows /\ thread[t].pc # "insert"
        BY <3>1, <3>3 DEF OwnershipInvariant, Shape, Resting
      <3> QED
        BY <1>1, <1>2, <1>9, <2>2, <3>2, <3>3 DEF Resting
    <2> QED
      BY <2>1, <2>2
  <1>10. \A i \in Jobs : ~Exists(rows', i) => rows'[i] = NoRow
    BY <1>3 DEF OwnershipInvariant, Exists
  <1> QED
    BY <1>5, <1>6, <1>7, <1>8, <1>9, <1>10 DEF OwnershipInvariant

\* A beginning keeps it too: a new id is fresh, everything else begins with a
\* row that exists and creates nothing.
LEMMA StartOwnership ==
    ASSUME Typed, OwnershipInvariant, NEW t \in Threads, Start(t)
    PROVE  OwnershipInvariant'
  <1>1. PICK state \in GoodState : Begins(t, state)
    BY DEF Start
  <1>2. /\ thread \in [Threads -> GoodState]
        /\ thread'[t] = state
        /\ \A u \in Threads : u # t => thread'[u] = thread[u]
        /\ rows' = rows
    BY <1>1 DEF Typed, Begins, Start
  <1>3. \A h, i \in Handlers :
          /\ thread'[h].pc \in Creating
          /\ thread'[i].pc \in Creating
          /\ thread'[h].job = thread'[i].job
          => h = i
    <2> SUFFICES ASSUME NEW h \in Handlers, NEW i \in Handlers, h # i,
                        thread'[h].pc \in Creating, thread'[i].pc \in Creating,
                        thread'[h].job = thread'[i].job
                 PROVE  FALSE
      OBVIOUS
    <2>1. h \in Threads /\ i \in Threads
      BY DEF Threads
    <2>2. ASSUME NEW a \in Handlers, NEW b \in Handlers, a # b, a = t,
                 thread'[a].pc \in Creating, thread'[b].pc \in Creating,
                 thread'[a].job = thread'[b].job
          PROVE  FALSE
      <3>1. state.pc \in Creating /\ t \in Handlers /\ t \notin Workers
        BY <1>2, <2>2, ThreadsAssumption DEF Threads
      <3>2. state.job \in FreshIds
        BY <1>1, <3>1 DEF Begins, Creating, Executing
      <3>3. thread[b].job = state.job
        BY <1>2, <2>2 DEF Threads
      <3> QED
        BY <3>2, <3>3 DEF FreshIds, Threads
    <2> QED
      BY <1>2, <2>1, <2>2 DEF OwnershipInvariant
  <1>4. OneCreator'
    BY <1>3 DEF OneCreator, Busy, Creating
  <1>5. \A w \in Workers :
          thread'[w].pc \in Executing \cup {"poll", "dead", "check", "claim"}
    BY <1>1, <1>2, ThreadsAssumption DEF OwnershipInvariant, Threads, Begins
  <1>6. \A u \in Threads :
          /\ thread'[u].pc = "insert" => ~Exists(rows', thread'[u].job)
          /\ thread'[u].pc \notin {"idle", "poll", "dead", "insert"} =>
                Exists(rows', thread'[u].job)
    BY <1>1, <1>2 DEF OwnershipInvariant, Begins, FreshIds
  <1> QED
    BY <1>2, <1>3, <1>4, <1>5, <1>6 DEF OwnershipInvariant

\* Every step of the system keeps each job with its one creator.
LEMMA StepOwnership ==
    ASSUME Typed, OwnershipInvariant, [Next]_vars
    PROVE  OwnershipInvariant'
  <1>1. ASSUME NEW j \in Jobs, SetCancelled(j) PROVE OwnershipInvariant'
    <2>1. \A i \in Jobs : Exists(rows, i) <=> Exists(rows', i)
      BY <1>1 DEF SetCancelled, Typed, TypeOK, Row, Exists
    <2>2. \A i \in Jobs : ~Exists(rows', i) => rows'[i] = NoRow
      BY <1>1, <2>1 DEF SetCancelled, OwnershipInvariant, Exists
    <2>3. thread' = thread /\ (OneCreator <=> OneCreator')
      BY <1>1 DEF SetCancelled, OneCreator, Busy
    <2>4. \A t \in Threads : thread[t].pc \notin Resting => thread[t].job \in Jobs
      BY DEF Typed, GoodState, Holding, Resting
    <2> QED
      BY <2>1, <2>2, <2>3, <2>4 DEF OwnershipInvariant, Resting
  <1>2. CASE Crash
    <2>1. \A t \in Threads : thread'[t].pc = IF t \in Workers THEN "poll" ELSE "idle"
      BY <1>2 DEF Crash, Rest, At
    <2>2. \A h \in Handlers : h \in Threads /\ thread'[h].pc = "idle"
      BY <2>1, ThreadsAssumption DEF Threads
    <2>3. \A w \in Workers : thread'[w].pc = "poll"
      BY <2>1 DEF Threads
    <2>4. OneCreator'
      BY <2>2 DEF OneCreator, Busy, Executing
    <2>5. \A i \in Jobs : ~Exists(rows', i) => rows'[i] = NoRow
      BY <1>2 DEF Crash, OwnershipInvariant
    <2> QED
      BY <2>1, <2>2, <2>3, <2>4, <2>5 DEF OwnershipInvariant, Creating, Executing
  <1>3. CASE UNCHANGED vars
    BY <1>3 DEF vars, OwnershipInvariant, OneCreator, Busy, Exists
  <1> QED
    BY <1>1, <1>2, <1>3, NextShapes, ShapeOwnership, StartOwnership

\* The types and the ownership of jobs hold in every reachable state.
LEMMA AlwaysOwned == Spec => [](Typed /\ OwnershipInvariant)
  <1>1. Init => Typed /\ OwnershipInvariant
    BY InitTyped, InitOwnership
  <1>2. (Typed /\ OwnershipInvariant) /\ [Next]_vars => (Typed /\ OwnershipInvariant)'
    BY StepTyped, StepOwnership
  <1> QED
    BY <1>1, <1>2, PTL DEF Spec

\* Every reachable table, thread and counter is of its type: the columns hold
\* what the code writes, and no bound is exceeded.
THEOREM TypeCorrect == Spec => []TypeOK
  BY AlwaysOwned, PTL DEF Typed

\* However many requests and workers there are, and whatever fails, only one
\* request executes a job: the one that created it.
THEOREM JobsHaveOneCreator == Spec => []OneCreator
  BY AlwaysOwned, PTL DEF OwnershipInvariant

\* Beyond it: every thread past its insert works on a row that is there, a job
\* under creation has none, and no two requests hold one job they create.
THEOREM OwnersStay == Spec => []OwnershipInvariant
  BY AlwaysOwned, PTL

----------------------------------------------------------------------------
(* ReviewInvariant *)

\* ReviewInvariant, said row by row.
LEMMA WholeRows ==
    ASSUME Typed
    PROVE  ReviewInvariant <=>
             /\ \A j \in Jobs : Whole(rows[j])
             /\ \A h \in Handlers : thread[h].pc \in {"approve", "reject"} =>
                                       rows[thread[h].job].result # None
  BY DEF ReviewInvariant, ReviewedRowsComplete, Whole, Typed, GoodState, Reviews

\* It holds at first: there are no rows and no verdicts under way.
LEMMA InitReview ==
    ASSUME Init PROVE ReviewInvariant
  <1>1. \A j \in Jobs : Whole(rows[j])
    BY DEF Init, NoRow, Whole, Absent, Reviews
  <1>2. \A h \in Handlers : thread[h].pc \notin {"approve", "reject"}
    BY DEF Init, Rest, At, Threads
  <1> QED
    BY <1>1, <1>2, InitTyped, WholeRows

\* A step of a thread that has begun writes a whole row over a whole one, and a
\* row that another thread is about to decide keeps its result.
LEMMA ShapeReview ==
    ASSUME Typed, OwnershipInvariant, ReviewInvariant, Typed',
           NEW t \in Threads, Shape(t)
    PROVE  ReviewInvariant'
  <1> DEFINE j == thread[t].job
  <1>1. PICK state \in GoodState :
          /\ Moves(t, state)
          /\ rows' = rows \/ \E row \in Row : /\ Writes(t, row)
                                              /\ rows' = [rows EXCEPT ![j] = row]
    BY DEF Shape
  <1>2. /\ j \in Jobs
        /\ rows \in [Jobs -> Row]
        /\ thread'[t] = state
        /\ \A u \in Threads : u # t => thread'[u] = thread[u]
    BY <1>1 DEF Typed, TypeOK, GoodState, Holding, Shape, Moves, Resting
  <1>3. /\ \A i \in Jobs : Whole(rows[i])
        /\ \A h \in Handlers : thread[h].pc \in {"approve", "reject"} =>
                                  rows[thread[h].job].result # None
    BY WholeRows
  <1>4. t \in Workers => thread[t].pc \notin {"approve", "reject"}
    BY DEF OwnershipInvariant, Executing
  <1>5. \A i \in Jobs : Whole(rows'[i])
    <2>1. CASE rows' = rows
      BY <1>3, <2>1
    <2>2. ASSUME NEW row \in Row, Writes(t, row), rows' = [rows EXCEPT ![j] = row]
          PROVE  \A i \in Jobs : Whole(rows'[i])
      <3>1. Whole(row)
        BY <1>2, <1>3, <1>4, <2>2 DEF Writes, Threads
      <3> QED
        BY <1>2, <1>3, <2>2, <3>1
    <2> QED
      BY <1>1, <2>1, <2>2
  <1>6. ASSUME NEW h \in Handlers, thread'[h].pc \in {"approve", "reject"}
        PROVE  rows'[thread'[h].job].result # None
    <2>1. h # t /\ h \in Threads
      BY <1>1, <1>2, <1>6 DEF Moves, Threads
    <2>2. thread'[h] = thread[h]
      BY <1>2, <2>1
    <2>3. rows[thread[h].job].result # None /\ thread[h].job \in Jobs
      BY <1>3, <1>6, <2>1, <2>2 DEF Typed, GoodState, Holding
    <2>4. CASE thread[t].pc = "insert" /\ thread[h].job = j
      BY <1>6, <2>1, <2>2, <2>4 DEF OwnershipInvariant
    <2>5. CASE thread[t].pc # "insert" \/ thread[h].job # j
      BY <1>1, <1>2, <2>2, <2>3, <2>5 DEF Writes
    <2> QED
      BY <2>4, <2>5
  <1> QED
    BY <1>5, <1>6, WholeRows, Typed' DEF ReviewInvariant, ReviewedRowsComplete, Whole,
       Typed, GoodState, Reviews

\* Every step of the system keeps rows whole.
LEMMA StepReview ==
    ASSUME Typed, OwnershipInvariant, ReviewInvariant, Typed', [Next]_vars
    PROVE  ReviewInvariant'
  <1>1. /\ \A i \in Jobs : Whole(rows[i])
        /\ \A h \in Handlers : thread[h].pc \in {"approve", "reject"} =>
                                  rows[thread[h].job].result # None
    BY WholeRows
  <1>2. SUFFICES ASSUME \/ \E t \in Threads : Start(t)
                        \/ \E j \in Jobs : SetCancelled(j)
                        \/ Crash
                        \/ UNCHANGED vars
                 PROVE  /\ \A i \in Jobs : Whole(rows'[i])
                        /\ \A h \in Handlers : thread'[h].pc \in {"approve", "reject"} =>
                                                  rows'[thread'[h].job].result # None
    BY NextShapes, ShapeReview, Typed'
       DEF ReviewInvariant, ReviewedRowsComplete, Whole, Typed, GoodState, Reviews
  <1>3. ASSUME NEW t \in Threads, Start(t)
        PROVE  /\ rows' = rows
               /\ \A h \in Handlers : thread'[h].pc \in {"approve", "reject"} =>
                                         rows[thread'[h].job].result # None
    <2>1. PICK state \in GoodState : Begins(t, state)
      BY <1>3 DEF Start
    <2>2. /\ rows' = rows
          /\ thread'[t] = state
          /\ \A u \in Threads : u # t => thread'[u] = thread[u]
      BY <1>3, <2>1 DEF Start, Begins, Typed
    <2>3. state.pc \in {"approve", "reject"} => rows[state.job].result # None
      <3> SUFFICES ASSUME state.pc \in {"approve", "reject"}
                   PROVE  rows[state.job].result # None
        OBVIOUS
      <3>1. rows[state.job].status = "awaiting_review"
        BY <2>1 DEF Begins
      <3>2. state.job \in Jobs
        BY DEF GoodState, Holding
      <3> QED
        BY <1>1, <3>1, <3>2 DEF Whole
    <2> QED
      BY <1>1, <2>2, <2>3 DEF Threads
  <1>4. ASSUME NEW j \in Jobs, SetCancelled(j)
        PROVE  /\ thread' = thread
               /\ \A i \in Jobs : Whole(rows'[i]) /\ rows'[i].result = rows[i].result
    <2>1. \A i \in Jobs : /\ rows'[i].report = rows[i].report
                          /\ rows'[i].result = rows[i].result
                          /\ rows'[i].status = rows[i].status
                          /\ rows'[i].review = rows[i].review
                          /\ rows'[i].completed_at = rows[i].completed_at
      BY <1>4 DEF SetCancelled, Typed, TypeOK, Row
    <2> QED
      BY <1>1, <1>4, <2>1 DEF Whole, SetCancelled
  <1>5. CASE Crash
    <2>1. \A h \in Handlers : thread'[h].pc \notin {"approve", "reject"}
      BY <1>5 DEF Crash, Rest, At, Threads
    <2> QED
      BY <1>1, <1>5, <2>1 DEF Crash
  <1>6. CASE \E j \in Jobs : SetCancelled(j)
    BY <1>1, <1>4, <1>6 DEF Typed, GoodState, Holding, Threads
  <1> QED
    BY <1>1, <1>2, <1>3, <1>5, <1>6 DEF vars

\* Rows are whole in every reachable state.
LEMMA AlwaysReviewed == Spec => [](Typed /\ OwnershipInvariant /\ ReviewInvariant)
  <1>1. Init => Typed /\ OwnershipInvariant /\ ReviewInvariant
    BY InitTyped, InitOwnership, InitReview
  <1>2. (Typed /\ OwnershipInvariant /\ ReviewInvariant) /\ [Next]_vars
        => (Typed /\ OwnershipInvariant /\ ReviewInvariant)'
    BY StepTyped, StepOwnership, StepReview
  <1> QED
    BY <1>1, <1>2, PTL DEF Spec

\* Every approved or rejected row is whole, with any number of reviewers and
\* executions racing on it, and through any calls that raise and any crashes.
THEOREM ReviewedRowsAreComplete == Spec => []ReviewedRowsComplete
  BY AlwaysReviewed, PTL DEF ReviewInvariant

\* Every row, decided or not, carries its result and its report of one execution,
\* and a reviewer about to write a verdict writes it on a row with a result.
THEOREM RowsStayWhole == Spec => []ReviewInvariant
  BY AlwaysReviewed, PTL

----------------------------------------------------------------------------
(* StrandedOnlyByFailure *)

\* The job and the worker or request that goes on with it, job by job.
Attended(j) ==
    /\ rows[j].status = "running" => \E t \in Threads : Busy(t, Executing, j)
    /\ rows[j].status = "queued" => \E h \in Handlers : Busy(h, {"check", "claim"}, j)

\* While nothing has failed, a step that leaves a job running or queued leaves
\* it with a thread that goes on with it.
LEMMA ShapeAttended ==
    ASSUME Typed, NEW t \in Threads, Shape(t), faults' = faults,
           \A j \in Jobs : Attended(j)
    PROVE  \A j \in Jobs : Attended(j)'
  <1>0. PICK k \in Jobs : k = thread[t].job
    BY DEF Typed, GoodState, Holding, Shape, Resting
  <1>1. PICK state \in GoodState :
          /\ Moves(t, state)
          /\ Calm(t, state)
          /\ rows' = rows \/ \E row \in Row : rows' = [rows EXCEPT ![k] = row]
    BY <1>0 DEF Shape
  <1>2. /\ k \in Jobs
        /\ rows \in [Jobs -> Row]
        /\ thread'[t] = state
        /\ \A u \in Threads : u # t => thread'[u] = thread[u]
        /\ \A j \in Jobs : j # k => rows'[j] = rows[j]
        /\ \A h \in Handlers : h \in Threads
    BY <1>0, <1>1 DEF Typed, TypeOK, Moves, Threads
  <1>3. ASSUME NEW j \in Jobs, j # k PROVE Attended(j)'
    <2>1. rows'[j] = rows[j] /\ Attended(j)
      BY <1>2, <1>3
    <2>2. \A u \in Threads : Busy(u, Executing, j) => Busy(u, Executing, j)'
      BY <1>0, <1>2, <1>3 DEF Busy
    <2>3. \A u \in Handlers : Busy(u, {"check", "claim"}, j) => Busy(u, {"check", "claim"}, j)'
      BY <1>0, <1>2, <1>3 DEF Busy
    <2> QED
      BY <2>1, <2>2, <2>3 DEF Attended
  <1>4. ASSUME rows'[k].status = "running"
        PROVE  \E u \in Threads : Busy(u, Executing, k)'
    <2>1. CASE state.pc \in Executing
      <3>1. state.job = k
        BY <1>0, <1>1, <2>1 DEF Moves, Resting, Executing
      <3> QED
        BY <1>2, <2>1, <3>1 DEF Busy
    <2>2. CASE rows[k].status = "running" /\ thread[t].pc \notin Executing
      <3>1. PICK u \in Threads : Busy(u, Executing, k)
        BY <1>2, <2>2 DEF Attended
      <3> QED
        BY <1>0, <1>2, <2>2, <3>1 DEF Busy
    <2> QED
      BY <1>0, <1>1, <1>4, <2>1, <2>2 DEF Calm
  <1>5. ASSUME rows'[k].status = "queued"
        PROVE  \E h \in Handlers : Busy(h, {"check", "claim"}, k)'
    <2>1. CASE t \in Handlers /\ state.pc \in {"check", "claim"}
      <3>1. state.job = k
        BY <1>0, <1>1, <2>1 DEF Moves, Resting
      <3> QED
        BY <1>2, <2>1, <3>1 DEF Busy
    <2>2. CASE /\ rows[k].status = "queued"
               /\ t \in Handlers => thread[t].pc \notin {"check", "claim"}
      <3>1. PICK h \in Handlers : Busy(h, {"check", "claim"}, k)
        BY <1>2, <2>2 DEF Attended
      <3> QED
        BY <1>0, <1>2, <2>2, <3>1 DEF Busy
    <2> QED
      BY <1>0, <1>1, <1>5, <2>1, <2>2 DEF Calm
  <1> QED
    BY <1>3, <1>4, <1>5 DEF Attended

\* A beginning abandons no job: the thread that begins was executing none.
LEMMA StartAttended ==
    ASSUME Typed, NEW t \in Threads, Start(t), \A j \in Jobs : Attended(j)
    PROVE  \A j \in Jobs : Attended(j)'
  <1>1. /\ rows' = rows
        /\ \A u \in Threads : u # t => thread'[u] = thread[u]
        /\ thread[t].pc \in {"idle", "poll"}
        /\ \A h \in Handlers : h \in Threads
    BY DEF Start, Begins, Typed, Threads
  <1>2. \A j \in Jobs, u \in Threads : Busy(u, Executing, j) => Busy(u, Executing, j)'
    BY <1>1 DEF Busy, Executing
  <1>3. \A j \in Jobs, h \in Handlers :
          Busy(h, {"check", "claim"}, j) => Busy(h, {"check", "claim"}, j)'
    BY <1>1 DEF Busy
  <1> QED
    BY <1>1, <1>2, <1>3 DEF Attended

\* Every step of the system strands no job while nothing has failed.
LEMMA StepStranded ==
    ASSUME Typed, OwnershipInvariant, StrandedOnlyByFailure, [Next]_vars
    PROVE  StrandedOnlyByFailure'
  <1> SUFFICES ASSUME faults' = 0, crashes' = 0 PROVE \A j \in Jobs : Attended(j)'
    BY DEF StrandedOnlyByFailure, Attended
  <1>1. faults \in Nat /\ crashes \in Nat
    BY BoundsAssumption DEF Typed, TypeOK
  <1>2. ASSUME faults' = faults, crashes' = crashes PROVE \A j \in Jobs : Attended(j)
    BY <1>2 DEF StrandedOnlyByFailure, Attended
  <1>3. ASSUME NEW t \in Threads, Shape(t) PROVE \A j \in Jobs : Attended(j)'
    BY <1>1, <1>2, <1>3, ShapeAttended DEF Shape
  <1>4. ASSUME NEW t \in Threads, Start(t) PROVE \A j \in Jobs : Attended(j)'
    BY <1>1, <1>2, <1>4, StartAttended DEF Start
  <1>5. ASSUME NEW j \in Jobs, SetCancelled(j) PROVE \A i \in Jobs : Attended(i)'
    <2>1. \A i \in Jobs : rows'[i].status = rows[i].status
      BY <1>5 DEF SetCancelled, Typed, TypeOK, Row
    <2> QED
      BY <1>2, <1>5, <2>1 DEF SetCancelled, Attended, Busy
  <1>6. CASE Crash
    BY <1>1, <1>6 DEF Crash
  <1>7. CASE UNCHANGED vars
    BY <1>2, <1>7 DEF vars, Attended, Busy
  <1> QED
    BY <1>3, <1>4, <1>5, <1>6, <1>7, NextShapes

\* Only a crash or a repository call that raised leaves a running row without a
\* thread executing it, or a queued one whose creator has gone.
THEOREM JobsAreAttended == Spec => []StrandedOnlyByFailure
  <1>1. ASSUME Init PROVE StrandedOnlyByFailure
    <2>1. \A j \in Jobs : rows[j].status = "absent"
      BY <1>1 DEF Init, NoRow, Absent
    <2> QED
      BY <2>1 DEF StrandedOnlyByFailure
  <1>2. (Typed /\ OwnershipInvariant) /\ StrandedOnlyByFailure /\ [Next]_vars
        => StrandedOnlyByFailure'
    BY StepStranded
  <1> QED
    BY <1>1, <1>2, AlwaysOwned, PTL DEF Spec

----------------------------------------------------------------------------
(* FailuresExplained *)

\* A failed row says why, and a thread that is about to write "cancelled" has
\* read it in the row's column, which nobody sets back.
FailureInvariant ==
    /\ \A j \in Jobs : Explained(rows[j])
    /\ \A t \in Threads : thread[t].pc = "cancel_fail" =>
                             rows[thread[t].job].cancelled = 1

\* A step of a thread that has begun explains the failure it writes, and leaves
\* the column that another thread has read.
LEMMA ShapeFailures ==
    ASSUME Typed, OwnershipInvariant, FailureInvariant, NEW t \in Threads, Shape(t)
    PROVE  FailureInvariant'
  <1>0. PICK j \in Jobs : j = thread[t].job
    BY DEF Typed, GoodState, Holding, Shape, Resting
  <1>1. PICK state \in GoodState :
          /\ Moves(t, state)
          /\ rows' = rows \/ \E row \in Row : /\ Writes(t, row)
                                              /\ rows' = [rows EXCEPT ![j] = row]
    BY <1>0 DEF Shape
  <1>2. /\ rows \in [Jobs -> Row]
        /\ thread'[t] = state
        /\ \A u \in Threads : u # t => thread'[u] = thread[u]
    BY <1>1 DEF Typed, TypeOK, Moves
  <1>3. ASSUME NEW i \in Jobs PROVE Explained(rows'[i])
    <2>1. Explained(rows[i]) /\ Explained(rows[j])
      BY DEF FailureInvariant
    <2>2. ASSUME NEW row \in Row, Writes(t, row), rows' = [rows EXCEPT ![j] = row]
          PROVE  Explained(rows'[i])
      <3>1. Explained(row)
        BY <1>0, <2>1, <2>2 DEF Writes, FailureInvariant
      <3> QED
        BY <1>2, <2>1, <2>2, <3>1
    <2> QED
      BY <1>1, <2>1, <2>2
  <1>4. ASSUME NEW u \in Threads, thread'[u].pc = "cancel_fail"
        PROVE  rows'[thread'[u].job].cancelled = 1
    <2>1. PICK i \in Jobs : i = thread'[u].job
      BY <1>2, <1>4 DEF Typed, GoodState, Holding
    <2>2. rows[i].cancelled = 1
      BY <1>0, <1>1, <1>2, <1>4, <2>1 DEF Moves, FailureInvariant, Resting
    <2>3. i = j => thread[t].pc # "insert"
      <3> SUFFICES ASSUME i = j, thread[t].pc = "insert" PROVE FALSE
        OBVIOUS
      <3>1. ~Exists(rows, j) /\ rows[j].cancelled = 0
        BY <1>0 DEF OwnershipInvariant, NoRow
      <3> QED
        BY <2>2, <3>1
    <2>4. ASSUME NEW row \in Row, Writes(t, row), rows' = [rows EXCEPT ![j] = row]
          PROVE  rows'[i].cancelled = 1
      BY <1>0, <1>2, <2>2, <2>3, <2>4 DEF Writes
    <2> QED
      BY <1>1, <2>1, <2>2, <2>4
  <1> QED
    BY <1>3, <1>4 DEF FailureInvariant

\* Every step of the system keeps failures explained.
LEMMA StepFailures ==
    ASSUME Typed, OwnershipInvariant, FailureInvariant, [Next]_vars
    PROVE  FailureInvariant'
  <1>1. ASSUME NEW t \in Threads, Start(t) PROVE FailureInvariant'
    <2>1. PICK state \in GoodState : Begins(t, state)
      BY <1>1 DEF Start
    <2>2. /\ rows' = rows
          /\ thread'[t] = state
          /\ state.pc # "cancel_fail"
          /\ \A u \in Threads : u # t => thread'[u] = thread[u]
      BY <1>1, <2>1 DEF Start, Begins, Typed
    <2> QED
      BY <2>2 DEF FailureInvariant
  <1>2. ASSUME NEW j \in Jobs, SetCancelled(j) PROVE FailureInvariant'
    <2>1. \A i \in Jobs : /\ rows'[i].status = rows[i].status
                          /\ rows'[i].error = rows[i].error
                          /\ rows[i].cancelled = 1 => rows'[i].cancelled = 1
      BY <1>2 DEF SetCancelled, Typed, TypeOK, Row
    <2>2. \A t \in Threads : thread[t].pc = "cancel_fail" => thread[t].job \in Jobs
      BY DEF Typed, GoodState, Holding
    <2>3. thread' = thread
      BY <1>2 DEF SetCancelled
    <2> QED
      BY <2>1, <2>2, <2>3 DEF FailureInvariant, Explained
  <1>3. CASE Crash
    BY <1>3 DEF Crash, Rest, At, FailureInvariant
  <1>4. CASE UNCHANGED vars
    BY <1>4 DEF vars, FailureInvariant
  <1> QED
    BY <1>1, <1>2, <1>3, <1>4, NextShapes, ShapeFailures

\* A failed job carries its reason, and carries "cancelled" only if somebody set
\* its column: CancelFail writes the reason after a separate read of it.
THEOREM FailuresAreExplained == Spec => []FailuresExplained
  <1>1. ASSUME Init PROVE FailureInvariant
    <2>1. \A j \in Jobs : Explained(rows[j])
      BY <1>1, NoneAssumption DEF Init, NoRow, Explained, Absent, Errors
    <2> QED
      BY <1>1, <2>1 DEF Init, Rest, At, FailureInvariant
  <1>2. (Typed /\ OwnershipInvariant) /\ FailureInvariant /\ [Next]_vars
        => FailureInvariant'
    BY StepFailures
  <1>3. FailureInvariant => FailuresExplained
    BY DEF FailureInvariant, FailuresExplained, Explained
  <1> QED
    BY <1>1, <1>2, <1>3, AlwaysOwned, PTL DEF Spec

----------------------------------------------------------------------------
(* KeyRaceBounded *)

\* The time stamps of the table, and of the rows about to be inserted, have been
\* given out by the clock.
StampsPast ==
    /\ \A j \in Jobs : Exists(rows, j) => rows[j].created_at <= clock
    /\ \A t \in Threads : thread[t].pc = "insert" => thread[t].stamp <= clock

\* Handler h has found no job of key k and is about to insert one.
Inserting(h, k) == thread[h].pc = "insert" /\ thread[h].key = k

\* The jobs of one key: those in the table and those about to be inserted.
Racers(k) == JobsOfKey(rows, k) \cup {thread[h].job : h \in {i \in Handlers : Inserting(i, k)}}

\* Each of them has a handler of its own, which still holds it if it has not yet
\* inserted it: the jobs in the table come from handlers that began together.
Raced(k) == \E f \in Injection(Racers(k), Handlers) :
                \A h \in Handlers : Inserting(h, k) => f[thread[h].job] = h

KeyInvariant == StampsPast /\ \A k \in Keys : Raced(k)

\* A key of which there is a job is found: among finitely many time stamps there
\* is a latest one.
LEMMA KeyIsFound ==
    ASSUME Typed, StampsPast, NEW k \in Keys, FindByKey(rows, k) = {}
    PROVE  JobsOfKey(rows, k) = {}
  <1> SUFFICES ASSUME JobsOfKey(rows, k) # {} PROVE FALSE
    OBVIOUS
  <1> DEFINE T == {rows[j].created_at : j \in JobsOfKey(rows, k)}
  <1>1. /\ JobsOfKey(rows, k) \subseteq Jobs
        /\ \A j \in JobsOfKey(rows, k) : /\ rows[j].created_at \in Nat
                                         /\ rows[j].created_at <= clock
    BY DEF JobsOfKey, Typed, TypeOK, Row, StampsPast
  <1>2. T \subseteq Nat /\ T # {} /\ \A n \in T : n <= clock
    BY <1>1
  <1>3. clock \in Nat
    BY DEF Typed, TypeOK
  <1>4. PICK n \in T : \A m \in T : m <= n
    <2> HIDE DEF T
    <2> QED
      BY <1>2, <1>3, GreatestNatural
  <1>5. PICK j \in JobsOfKey(rows, k) : n = rows[j].created_at
    OBVIOUS
  <1>6. \A i \in JobsOfKey(rows, k) : rows[i].created_at <= rows[j].created_at
    BY <1>4, <1>5
  <1>7. k # None
    BY NoneAssumption
  <1> QED
    BY <1>5, <1>6, <1>7 DEF FindByKey

\* A step after which a key has no new job and no new handler about to insert one
\* leaves the others with their handlers.
LEMMA RacersShrink ==
    ASSUME NEW k \in Keys, Raced(k), Racers(k)' \subseteq Racers(k),
           \A h \in Handlers : Inserting(h, k)' =>
                                  Inserting(h, k) /\ thread'[h].job = thread[h].job
    PROVE  Raced(k)'
  <1>1. PICK f \in Injection(Racers(k), Handlers) :
           \A h \in Handlers : Inserting(h, k) => f[thread[h].job] = h
    BY DEF Raced
  <1>2. /\ f \in [Racers(k) -> Handlers]
        /\ \A x, y \in Racers(k) : f[x] = f[y] => x = y
    BY DEF Injection, IsInjective
  <1>5. PICK R : R = Racers(k)'
    OBVIOUS
  <1> DEFINE g == [j \in R |-> f[j]]
  <1>3. g \in Injection(R, Handlers)
    BY <1>2, <1>5 DEF Injection, IsInjective
  <1>4. \A h \in Handlers : Inserting(h, k)' => g[thread'[h].job] = h
    <2> SUFFICES ASSUME NEW h \in Handlers, Inserting(h, k)'
                 PROVE  g[thread'[h].job] = h
      OBVIOUS
    <2>1. thread'[h].job \in Racers(k)'
      BY DEF Racers
    <2> QED
      BY <1>1, <1>5, <2>1
  <1> HIDE DEF g
  <1> QED
    BY <1>3, <1>4, <1>5 DEF Raced

\* The stamps stay in the past.
LEMMA ShapeStamps ==
    ASSUME Typed, OwnershipInvariant, StampsPast, NEW t \in Threads, Shape(t)
    PROVE  StampsPast'
  <1>0. PICK j \in Jobs : j = thread[t].job
    BY DEF Typed, GoodState, Holding, Shape, Resting
  <1>1. PICK state \in GoodState :
          /\ Moves(t, state)
          /\ rows' = rows \/ \E row \in Row : /\ Writes(t, row)
                                              /\ rows' = [rows EXCEPT ![j] = row]
    BY <1>0 DEF Shape
  <1>2. /\ rows \in [Jobs -> Row]
        /\ thread'[t] = state
        /\ \A u \in Threads : u # t => thread'[u] = thread[u]
        /\ clock' = clock
    BY <1>1 DEF Typed, TypeOK, Moves, Shape
  <1>3. ASSUME NEW i \in Jobs, Exists(rows', i) PROVE rows'[i].created_at <= clock
    <2>1. ASSUME NEW row \in Row, Writes(t, row), rows' = [rows EXCEPT ![j] = row]
          PROVE  rows'[i].created_at <= clock
      <3>1. CASE i # j
        BY <1>2, <1>3, <2>1, <3>1 DEF StampsPast, Exists
      <3>2. CASE i = j /\ thread[t].pc = "insert"
        BY <1>0, <1>2, <2>1, <3>2 DEF StampsPast, Writes
      <3>3. CASE i = j /\ thread[t].pc # "insert"
        <4>1. Exists(rows, j)
          BY <1>0, <3>3 DEF OwnershipInvariant, Shape, Resting
        <4> QED
          BY <1>0, <1>2, <2>1, <3>3, <4>1 DEF StampsPast, Writes
      <3> QED
        BY <3>1, <3>2, <3>3
    <2> QED
      BY <1>1, <1>3, <2>1 DEF StampsPast, Exists
  <1>4. \A u \in Threads : thread'[u].pc = "insert" => thread'[u].stamp <= clock
    BY <1>1, <1>2 DEF StampsPast, Moves
  <1> QED
    BY <1>2, <1>3, <1>4 DEF StampsPast

\* A step of a thread that has begun gives a key no job it had not: the row that
\* Insert writes was about to be inserted.
LEMMA ShapeRaced ==
    ASSUME Typed, OwnershipInvariant, NEW k \in Keys, Raced(k), NEW t \in Threads, Shape(t)
    PROVE  Raced(k)'
  <1>0. PICK j \in Jobs : j = thread[t].job
    BY DEF Typed, GoodState, Holding, Shape, Resting
  <1>1. PICK state \in GoodState :
          /\ Moves(t, state)
          /\ rows' = rows \/ \E row \in Row : /\ Writes(t, row)
                                              /\ rows' = [rows EXCEPT ![j] = row]
    BY <1>0 DEF Shape
  <1>2. /\ rows \in [Jobs -> Row]
        /\ thread'[t] = state
        /\ \A u \in Threads : u # t => thread'[u] = thread[u]
        /\ \A h \in Handlers : h \in Threads
    BY <1>1 DEF Typed, TypeOK, Moves, Threads
  <1>3. \A h \in Handlers : Inserting(h, k)' => Inserting(h, k) /\ thread'[h] = thread[h]
    BY <1>1, <1>2 DEF Inserting, Moves
  <1>4. JobsOfKey(rows', k) \subseteq Racers(k)
    <2> SUFFICES ASSUME NEW i \in JobsOfKey(rows', k) PROVE i \in Racers(k)
      OBVIOUS
    <2>1. i \in Jobs /\ Exists(rows', i) /\ rows'[i].key = k
      BY DEF JobsOfKey
    <2>2. CASE rows'[i] = rows[i]
      BY <2>1, <2>2 DEF JobsOfKey, Exists, Racers
    <2>3. CASE rows'[i] # rows[i]
      <3>1. PICK row \in Row : Writes(t, row) /\ rows' = [rows EXCEPT ![j] = row]
        BY <1>1, <2>3
      <3>2. i = j /\ rows'[j] = row
        BY <1>2, <2>1, <2>3, <3>1
      <3>3. CASE thread[t].pc = "insert"
        <4>1. t \in Handlers
          BY <3>3 DEF OwnershipInvariant, Executing, Threads
        <4>2. Inserting(t, k)
          BY <2>1, <3>1, <3>2, <3>3 DEF Inserting, Writes
        <4> QED
          BY <1>0, <3>2, <4>1, <4>2 DEF Racers
      <3>4. CASE thread[t].pc # "insert"
        <4>1. Exists(rows, j)
          BY <1>0, <3>4 DEF OwnershipInvariant, Shape, Resting
        <4> QED
          BY <1>0, <2>1, <3>1, <3>2, <3>4, <4>1 DEF JobsOfKey, Writes, Racers
      <3> QED
        BY <3>3, <3>4
    <2> QED
      BY <2>2, <2>3
  <1>5. Racers(k)' \subseteq Racers(k)
    BY <1>3, <1>4 DEF Racers
  <1> QED
    BY <1>3, <1>5, RacersShrink

\* A beginning may give a key a new job only while the table has none of it; then
\* every job of the key is still held by the handler that is about to insert it.
LEMMA StartRaced ==
    ASSUME Typed, OwnershipInvariant, StampsPast, OwnershipInvariant',
           NEW k \in Keys, Raced(k), NEW t \in Threads, Start(t)
    PROVE  Raced(k)'
  <1>1. PICK state \in GoodState : Begins(t, state)
    BY DEF Start
  <1>2. /\ rows' = rows
        /\ thread'[t] = state
        /\ \A u \in Threads : u # t => thread'[u] = thread[u]
        /\ \A h \in Handlers : h \in Threads
    BY <1>1 DEF Typed, Begins, Start, Threads
  <1>3. CASE ~ (state.pc = "insert" /\ state.key = k)
    <2>1. \A h \in Handlers : Inserting(h, k)' => Inserting(h, k) /\ thread'[h] = thread[h]
      BY <1>2, <1>3 DEF Inserting
    <2>2. Racers(k)' \subseteq Racers(k)
      BY <1>2, <2>1 DEF Racers
    <2> QED
      BY <2>1, <2>2, RacersShrink
  <1>4. CASE state.pc = "insert" /\ state.key = k
    <2>1. JobsOfKey(rows', k) = {}
      BY <1>1, <1>2, <1>4, ThreadsAssumption, KeyIsFound DEF Begins
    <2>2. \A h, i \in Handlers : /\ Inserting(h, k)' /\ Inserting(i, k)'
                                 /\ thread'[h].job = thread'[i].job
                                 => h = i
      BY DEF OwnershipInvariant, Inserting, Creating
    <2>3. \A x \in Racers(k)' : \E h \in Handlers : Inserting(h, k)' /\ thread'[h].job = x
      BY <2>1 DEF Racers
    <2>7. PICK R : R = Racers(k)'
      OBVIOUS
    <2>8. PICK H : H = {h \in Handlers : Inserting(h, k)'}
      OBVIOUS
    <2> DEFINE f == [x \in R |-> CHOOSE h \in H : thread'[h].job = x]
    <2>4. \A x \in R : f[x] \in H /\ thread'[f[x]].job = x
      BY <2>3, <2>7, <2>8
    <2>5. f \in Injection(R, Handlers)
      BY <2>4, <2>8 DEF Injection, IsInjective
    <2>6. ASSUME NEW h \in Handlers, Inserting(h, k)' PROVE f[thread'[h].job] = h
      <3>1. thread'[h].job \in Racers(k)'
        BY <2>6 DEF Racers
      <3> HIDE DEF f
      <3> QED
        BY <2>2, <2>4, <2>6, <2>7, <2>8, <3>1
    <2> HIDE DEF f
    <2> QED
      BY <2>5, <2>6, <2>7 DEF Raced
  <1> QED
    BY <1>3, <1>4

\* Every step of the system keeps the races bounded.
LEMMA StepKeys ==
    ASSUME Typed, OwnershipInvariant, KeyInvariant, OwnershipInvariant', [Next]_vars
    PROVE  KeyInvariant'
  <1>1. ASSUME NEW t \in Threads, Shape(t) PROVE KeyInvariant'
    BY <1>1, ShapeStamps, ShapeRaced DEF KeyInvariant
  <1>2. ASSUME NEW t \in Threads, Start(t) PROVE KeyInvariant'
    <2>1. StampsPast'
      <3>1. PICK state \in GoodState : Begins(t, state)
        BY <1>2 DEF Start
      <3>2. /\ rows' = rows /\ clock \in Nat /\ clock' \in Nat /\ clock <= clock'
            /\ thread'[t] = state
            /\ state.pc = "insert" => state.stamp <= clock'
            /\ \A u \in Threads : u # t => thread'[u] = thread[u]
        BY <1>2, <3>1 DEF Start, Begins, Typed, TypeOK
      <3>3. \A u \in Threads : thread[u].pc = "insert" => thread[u].stamp \in Nat
        BY DEF Typed, GoodState, ThreadState
      <3>4. \A j \in Jobs : rows[j].created_at \in Nat
        BY DEF Typed, TypeOK, Row
      <3>5. \A j \in Jobs : Exists(rows', j) => rows'[j].created_at <= clock'
        BY <3>2, <3>4 DEF KeyInvariant, StampsPast, Exists
      <3>6. \A u \in Threads : thread'[u].pc = "insert" => thread'[u].stamp <= clock'
        BY <3>2, <3>3 DEF KeyInvariant, StampsPast
      <3> QED
        BY <3>5, <3>6 DEF StampsPast
    <2> QED
      BY <1>2, <2>1, StartRaced DEF KeyInvariant
  <1>3. ASSUME NEW j \in Jobs, SetCancelled(j) PROVE KeyInvariant'
    <2>1. /\ \A i \in Jobs : /\ rows'[i].status = rows[i].status
                             /\ rows'[i].key = rows[i].key
                             /\ rows'[i].created_at = rows[i].created_at
          /\ thread' = thread /\ clock' = clock
      BY <1>3 DEF SetCancelled, Typed, TypeOK, Row
    <2>2. StampsPast'
      BY <2>1 DEF KeyInvariant, StampsPast, Exists
    <2>3. \A k \in Keys : Racers(k)' = Racers(k)
      BY <2>1 DEF Racers, JobsOfKey, Exists, Inserting
    <2> QED
      BY <2>1, <2>2, <2>3, RacersShrink DEF KeyInvariant, Inserting
  <1>4. CASE Crash
    <2>1. /\ rows' = rows /\ clock' = clock
          /\ \A u \in Threads : thread'[u].pc # "insert"
      BY <1>4 DEF Crash, Rest, At
    <2>2. StampsPast'
      BY <2>1 DEF KeyInvariant, StampsPast, Exists
    <2>3. \A h \in Handlers, k \in Keys : ~ Inserting(h, k)'
      BY <2>1 DEF Inserting, Threads
    <2>4. \A k \in Keys : Racers(k)' \subseteq Racers(k)
      BY <2>1, <2>3 DEF Racers
    <2> QED
      BY <2>2, <2>3, <2>4, RacersShrink DEF KeyInvariant
  <1>5. CASE UNCHANGED vars
    <2>1. rows' = rows /\ thread' = thread /\ clock' = clock
      BY <1>5 DEF vars
    <2>2. StampsPast'
      BY <2>1 DEF KeyInvariant, StampsPast, Exists
    <2>3. \A k \in Keys : Racers(k)' = Racers(k)
      BY <2>1 DEF Racers, JobsOfKey, Exists, Inserting
    <2> QED
      BY <2>1, <2>2, <2>3, RacersShrink DEF KeyInvariant, Inserting
  <1> QED
    BY <1>1, <1>2, <1>3, <1>4, <1>5, NextShapes

\* The requests with one key never create more jobs than there are threads to
\* serve requests, through any interleaving, fault and crash: a job in the table
\* stops every request that begins after it.
THEOREM KeyRacesAreBounded ==
    ASSUME IsFiniteSet(Handlers)
    PROVE  Spec => []KeyRaceBounded
  <1>1. ASSUME Init PROVE KeyInvariant
    <2>1. /\ \A j \in Jobs : ~Exists(rows, j)
          /\ \A t \in Threads : thread[t].pc # "insert"
      BY <1>1 DEF Init, NoRow, Exists, Rest, At
    <2>2. StampsPast
      BY <2>1 DEF StampsPast
    <2>3. \A k \in Keys : Racers(k) = {}
      BY <2>1 DEF Racers, JobsOfKey, Inserting, Threads
    <2>4. ASSUME NEW k \in Keys PROVE Raced(k)
      <3>1. \A h \in Handlers : ~Inserting(h, k)
        BY <2>1 DEF Inserting, Threads
      <3>2. [x \in {} |-> x] \in Injection(Racers(k), Handlers)
        BY <2>3 DEF Injection, IsInjective
      <3> QED
        BY <3>1, <3>2 DEF Raced
    <2> QED
      BY <2>2, <2>4 DEF KeyInvariant
  <1>2. (Typed /\ OwnershipInvariant) /\ (Typed /\ OwnershipInvariant)' /\ KeyInvariant
        /\ [Next]_vars => KeyInvariant'
    BY StepKeys
  <1>3. ASSUME KeyInvariant PROVE KeyRaceBounded
    <2> SUFFICES ASSUME NEW k \in Keys
                 PROVE  Cardinality(JobsOfKey(rows, k)) <= Cardinality(Handlers)
      BY DEF KeyRaceBounded
    <2>1. PICK f \in Injection(Racers(k), Handlers) : TRUE
      BY <1>3 DEF KeyInvariant, Raced
    <2>2. IsFiniteSet(Racers(k)) /\ Cardinality(Racers(k)) <= Cardinality(Handlers)
      BY FS_Injection
    <2>3. JobsOfKey(rows, k) \subseteq Racers(k)
      BY DEF Racers
    <2>4. /\ IsFiniteSet(JobsOfKey(rows, k))
          /\ Cardinality(JobsOfKey(rows, k)) <= Cardinality(Racers(k))
      BY <2>2, <2>3, FS_Subset
    <2> QED
      BY <2>2, <2>4, FS_CardinalityType
  <1> QED
    BY <1>1, <1>2, <1>3, AlwaysOwned, PTL DEF Spec

----------------------------------------------------------------------------
(* The lifecycle *)

\* What ColumnsMatch says of a row.
Tidy(row) ==
    /\ row.error # None <=> row.status = "failed"
    /\ row.error = "cancelled" => row.cancelled = 1
    /\ row.review # None <=> row.status \in Reviews
    /\ row.progress = 10 <=> row.status \in {"awaiting_review", "failed", "approved", "rejected"}
    /\ row.completed_at = "set" <=> row.status \in Reviews

\* The program point of a thread tells the status of the row of its job.
Fits(state, row) ==
    /\ state.pc \in {"check", "claim"} => row.status = "queued"
    /\ state.pc \in Executing => row.status = "running"
    /\ state.pc \in {"approve", "reject"} => row.status = "awaiting_review"
    /\ state.pc = "cancel_fail" => row.cancelled = 1

LifecycleInvariant(j) ==
    /\ Tidy(rows[j])
    /\ \A t \in Threads : thread[t].job = j => Fits(thread[t], rows[j])

\* The moves of JobLifecycle.
Stages ==
    {<<Absent, "queued">>, <<"queued", "running">>,
     <<"running", "awaiting_review">>, <<"running", "failed">>,
     <<"awaiting_review", "approved">>, <<"awaiting_review", "rejected">>}

\* The status of job j makes one of these moves.
StageMove(j) == <<rows[j].status, rows'[j].status>> \in Stages
StageStep(j) == rows'[j].status = rows[j].status \/ StageMove(j)

\* A step of a thread that has begun, as far as the lifecycle goes: it writes a
\* tidy row to its job, goes where the new status is the expected one, and moves
\* the status only along the lifecycle.
Advances(t, row, state) ==
    LET j == thread[t].job IN
    /\ row \in Row
    /\ Tidy(row)
    /\ Fits(state, row)
    /\ row.status = rows[j].status \/ <<rows[j].status, row.status>> \in Stages
    /\ thread[t].pc = "respond" => row = rows[j]
    /\ rows' = [rows EXCEPT ![j] = row]
    /\ thread' = [thread EXCEPT ![t] = state]

\* Such a step keeps the invariant of its job: if it is more than an answer, no
\* other thread creates, executes or decides the job.
LEMMA AdvanceKeeps ==
    ASSUME Typed, NEW j \in Jobs, Undisturbed(j), LifecycleInvariant(j),
           NEW t \in Threads, thread[t].pc \notin Resting, thread[t].job = j,
           NEW row, NEW state, Advances(t, row, state)
    PROVE  LifecycleInvariant(j)' /\ StageStep(j)
  <1>1. /\ rows'[j] = row
        /\ thread'[t] = state
        /\ \A u \in Threads : u # t => thread'[u] = thread[u]
    BY DEF Typed, TypeOK, Advances
  <1>2. StageStep(j) /\ Tidy(rows'[j]) /\ Fits(state, rows'[j])
    BY <1>1 DEF Advances, StageStep, StageMove
  <1>3. ASSUME NEW u \in Threads, u # t, thread[u].job = j
        PROVE  Fits(thread[u], row)
    <2>1. thread[t].pc \in Creating \cup {"approve", "reject", "respond"}
      BY DEF Typed, GoodState, ThreadState, PCs, Resting, Creating
    <2>2. CASE thread[t].pc = "respond"
      BY <1>3, <2>2 DEF LifecycleInvariant, Advances
    <2>3. CASE thread[t].pc \in Creating \cup {"approve", "reject"}
      <3>1. thread[u].pc \notin Creating \cup {"approve", "reject"}
        BY <1>3, <2>3 DEF Undisturbed, Busy
      <3> QED
        BY <3>1 DEF Fits, Creating, Executing
    <2> QED
      BY <2>1, <2>2, <2>3
  <1> QED
    BY <1>1, <1>2, <1>3 DEF LifecycleInvariant

\* While nothing fails a repository call does what it is for.
LEMMA CallsSucceed ==
    ASSUME Typed, faults' = 0, NEW t, NEW j, NEW row, NEW ok, NEW err
    PROVE  /\ Call(t, j, row, ok, err) => /\ rows' = [rows EXCEPT ![j] = row]
                                          /\ thread' = [thread EXCEPT ![t] = ok]
           /\ Read(t, ok, err) => /\ rows' = rows
                                  /\ thread' = [thread EXCEPT ![t] = ok]
  <1>1. faults' # faults + 1
    BY BoundsAssumption DEF Typed, TypeOK
  <1> QED
    BY <1>1 DEF Call, Read

\* Every step of process_one_job advances the job along the lifecycle.
LEMMA ProcessAdvances ==
    ASSUME Typed, faults' = 0, NEW t \in Threads, LifecycleInvariant(thread[t].job),
           ProcessOneJob(t)
    PROVE  \E row, state : Advances(t, row, state)
  <1>1. PICK j \in Jobs : j = thread[t].job
    BY DEF ProcessOneJob, Check, Claim, Half, Pipeline, CancelCheck, CancelFail, Finish,
           Fail, Typed, GoodState, Holding, Threads
  <1>2. /\ rows \in [Jobs -> Row] /\ rows[j] \in Row
        /\ rows = [rows EXCEPT ![j] = rows[j]]
    BY DEF Typed, TypeOK
  <1>3. Tidy(rows[j]) /\ Fits(thread[t], rows[j])
    BY <1>1 DEF LifecycleInvariant
  <1>4. /\ Returned(t, j).pc \in {"respond", "poll"}
        /\ \A pc \in PCs : At(pc, j).pc = pc /\ At(pc, j).job = j
    BY DEF Returned, At
  <1>5. \A patch \in Patch : Updated(rows[j], patch) \in Row
    BY <1>2, UpdatedIsRow
  <1>6. \A new \in Statuses \cup Errors \cup Tenths \cup Threads : new # None
    BY NoneAssumption
  <1>7. CASE Check(t)
    <2>1. rows' = rows /\ thread' = [thread EXCEPT ![t] = At("claim", j)]
      BY <1>1, <1>3, <1>7, CallsSucceed DEF Check, Fits
    <2>2. Fits(At("claim", j), rows[j])
      BY <1>3, <1>4, <1>7 DEF Fits, Check, PCs, Executing
    <2>3. Advances(t, rows[j], At("claim", j))
      BY <1>1, <1>2, <1>3, <1>4, <2>1, <2>2 DEF Advances, PCs
    <2> QED
      BY <2>3
  <1>8. CASE Claim(t)
    <2> DEFINE row == Updated(rows[j], [NoPatch EXCEPT !.status = "running", !.progress = 1])
    <2>1. /\ rows' = [rows EXCEPT ![j] = row]
          /\ thread' = [thread EXCEPT ![t] = At("half", j)]
      BY <1>1, <1>8, CallsSucceed DEF Claim
    <2>2. rows[j].status = "queued" /\ thread[t].pc = "claim"
      BY <1>1, <1>3, <1>8 DEF Claim, Fits
    <2>3. row \in Row
      BY <1>2, <1>5, PatchesArePatches
    <2>4. /\ row.status = "running" /\ row.progress = 1 /\ row.error = rows[j].error
          /\ row.review = rows[j].review /\ row.cancelled = rows[j].cancelled
          /\ row.completed_at = rows[j].completed_at
      BY <1>6, NoneAssumption DEF Updated, NoPatch, Given, Statuses, Tenths, Deciding
    <2> HIDE DEF row
    <2>5. Tidy(row)
      BY <1>3, <2>2, <2>4 DEF Tidy, Reviews
    <2>6. Fits(At("half", j), row)
      BY <1>4, <2>4 DEF Fits, PCs, Executing
    <2>7. Advances(t, row, At("half", j))
      BY <1>1, <1>4, <2>1, <2>2, <2>3, <2>4, <2>5, <2>6
      DEF Advances, Stages, PCs, Executing, Resting
    <2> QED
      BY <2>7
  <1>9. CASE Half(t)
    <2> DEFINE row == Updated(rows[j], [NoPatch EXCEPT !.progress = 5])
    <2>1. /\ rows' = [rows EXCEPT ![j] = row]
          /\ thread' = [thread EXCEPT ![t] = At("pipeline", j)]
      BY <1>1, <1>9, CallsSucceed DEF Half
    <2>2. rows[j].status = "running" /\ thread[t].pc = "half"
      BY <1>1, <1>3, <1>9 DEF Half, Fits, Executing
    <2>3. row \in Row
      BY <1>2, <1>5, PatchesArePatches
    <2>4. /\ row.status = rows[j].status /\ row.progress = 5 /\ row.error = rows[j].error
          /\ row.review = rows[j].review /\ row.cancelled = rows[j].cancelled
          /\ row.completed_at = rows[j].completed_at
      BY <1>6, NoneAssumption DEF Updated, NoPatch, Given, Statuses, Tenths, Deciding
    <2> HIDE DEF row
    <2>5. Tidy(row)
      BY <1>3, <2>2, <2>4 DEF Tidy, Reviews
    <2>6. Fits(At("pipeline", j), row)
      BY <1>4, <2>2, <2>4 DEF Fits, PCs, Executing
    <2>7. Advances(t, row, At("pipeline", j))
      BY <1>1, <1>4, <2>1, <2>2, <2>3, <2>4, <2>5, <2>6
      DEF Advances, Stages, PCs, Executing, Resting
    <2> QED
      BY <2>7
  <1>10. CASE Pipeline(t) \/ CancelCheck(t)
    <2>1. PICK pc \in {"cancel_check", "cancel_fail", "finish", "fail"} :
             /\ rows' = rows /\ thread' = [thread EXCEPT ![t] = At(pc, j)]
             /\ pc = "cancel_fail" => rows[j].cancelled = 1
      <3>1. CASE Pipeline(t)
        BY <1>1, <3>1 DEF Pipeline
      <3>2. CASE CancelCheck(t)
        BY <1>1, <3>2, CallsSucceed DEF CancelCheck
      <3> QED
        BY <1>10, <3>1, <3>2
    <2>2. /\ rows[j].status = "running"
          /\ thread[t].pc \in {"pipeline", "cancel_check"}
      BY <1>1, <1>3, <1>10 DEF Pipeline, CancelCheck, Fits, Executing
    <2>3. Fits(At(pc, j), rows[j])
      BY <1>4, <2>1, <2>2 DEF Fits, PCs, Executing
    <2>4. Advances(t, rows[j], At(pc, j))
      BY <1>1, <1>2, <1>3, <1>4, <2>1, <2>2, <2>3 DEF Advances, PCs, Executing
    <2> QED
      BY <2>4
  <1>11. ASSUME NEW e \in Errors, thread[t].pc \in {"cancel_fail", "fail"}, NEW err,
                e = "cancelled" => thread[t].pc = "cancel_fail",
                Call(t, j, Updated(rows[j], [NoPatch EXCEPT !.status = "failed",
                                             !.progress = 10, !.error = e]),
                     Returned(t, j), err)
         PROVE  \E row, state : Advances(t, row, state)
    <2> DEFINE row == Updated(rows[j], [NoPatch EXCEPT !.status = "failed",
                                                       !.progress = 10, !.error = e])
    <2>1. /\ rows' = [rows EXCEPT ![j] = row]
          /\ thread' = [thread EXCEPT ![t] = Returned(t, j)]
      BY <1>11, CallsSucceed
    <2>2. /\ rows[j].status = "running"
          /\ e = "cancelled" => rows[j].cancelled = 1
      BY <1>3, <1>11 DEF Fits, Executing
    <2>3. row \in Row
      BY <1>2, <1>5, PatchesArePatches
    <2>4. /\ row.status = "failed" /\ row.progress = 10 /\ row.error = e
          /\ row.review = rows[j].review /\ row.cancelled = rows[j].cancelled
          /\ row.completed_at = rows[j].completed_at
      BY <1>6, NoneAssumption DEF Updated, NoPatch, Given, Statuses, Tenths, Deciding
    <2> HIDE DEF row
    <2>5. Tidy(row)
      BY <1>3, <1>6, <2>2, <2>4 DEF Tidy, Reviews
    <2>6. Fits(Returned(t, j), row)
      BY <1>4 DEF Fits, Executing
    <2>7. Advances(t, row, Returned(t, j))
      BY <1>1, <1>4, <1>11, <2>1, <2>2, <2>3, <2>4, <2>5, <2>6 DEF Advances, Stages, Resting
    <2> QED
      BY <2>7
  <1>12. CASE CancelFail(t)
    BY <1>1, <1>11, <1>12 DEF CancelFail, Errors
  <1>13. CASE Fail(t)
    BY <1>1, <1>11, <1>13 DEF Fail, Errors
  <1>14. CASE Finish(t)
    <2> DEFINE row == Updated(rows[j], [NoPatch EXCEPT !.status = "awaiting_review",
                                            !.progress = 10, !.result = t, !.report = t])
    <2>1. /\ rows' = [rows EXCEPT ![j] = row]
          /\ thread' = [thread EXCEPT ![t] = Returned(t, j)]
      BY <1>1, <1>14, CallsSucceed DEF Finish
    <2>2. rows[j].status = "running" /\ thread[t].pc = "finish"
      BY <1>1, <1>3, <1>14 DEF Finish, Fits, Executing
    <2>3. row \in Row
      BY <1>2, <1>5, PatchesArePatches
    <2>4. /\ row.status = "awaiting_review" /\ row.progress = 10
          /\ row.error = rows[j].error
          /\ row.review = rows[j].review /\ row.cancelled = rows[j].cancelled
          /\ row.completed_at = rows[j].completed_at
      BY <1>6, NoneAssumption DEF Updated, NoPatch, Given, Statuses, Tenths, Deciding
    <2> HIDE DEF row
    <2>5. Tidy(row)
      BY <1>3, <2>2, <2>4 DEF Tidy, Reviews
    <2>6. Fits(Returned(t, j), row)
      BY <1>4 DEF Fits, Executing
    <2>7. Advances(t, row, Returned(t, j))
      BY <1>1, <1>4, <2>1, <2>2, <2>3, <2>4, <2>5, <2>6 DEF Advances, Stages, Resting
    <2> QED
      BY <2>7
  <1> QED
    BY <1>7, <1>8, <1>9, <1>10, <1>12, <1>13, <1>14 DEF ProcessOneJob

\* So does every other step of a handler that has begun.
LEMMA HandlerAdvances ==
    ASSUME Typed, OwnershipInvariant, faults' = 0, NEW h \in Handlers,
           LifecycleInvariant(thread[h].job),
           Insert(h) \/ Respond(h) \/ Approve(h) \/ Reject(h)
    PROVE  \E row, state : Advances(h, row, state)
  <1>1. PICK j \in Jobs : j = thread[h].job
    BY DEF Insert, Respond, Approve, Reject, Typed, GoodState, Holding, Threads
  <1>2. /\ h \in Threads /\ h \notin Workers
        /\ rows \in [Jobs -> Row] /\ rows[j] \in Row
        /\ rows = [rows EXCEPT ![j] = rows[j]]
        /\ thread[h] \in ThreadState
    BY ThreadsAssumption DEF Typed, TypeOK, Threads
  <1>3. Tidy(rows[j]) /\ Fits(thread[h], rows[j])
    BY <1>1, <1>2 DEF LifecycleInvariant
  <1>4. Rest(h).pc = "idle" /\ At("check", j).pc = "check" /\ At("check", j).job = j
    BY <1>2 DEF Rest, At
  <1>5. CASE Insert(h)
    <2>1. PICK input \in Inputs :
            /\ rows' = [rows EXCEPT ![j] = NewRow(thread[h].key, thread[h].stamp, input)]
            /\ thread' = [thread EXCEPT ![h] = At("check", j)]
      BY <1>1, <1>5, CallsSucceed DEF Insert
    <2> DEFINE row == NewRow(thread[h].key, thread[h].stamp, input)
    <2>2. row \in Row
      BY <1>2, NewRowIsRow DEF ThreadState
    <2>3. /\ row.status = "queued" /\ row.progress = 0 /\ row.error = None
          /\ row.review = None /\ row.completed_at = None
      BY DEF NewRow, NoRow
    <2>4. /\ rows[j].status = Absent
          /\ thread[h].pc = "insert"
      BY <1>1, <1>2, <1>5 DEF Insert, OwnershipInvariant, Exists
    <2>5. rows' = [rows EXCEPT ![j] = row]
      BY <2>1
    <2> HIDE DEF row
    <2>6. Tidy(row)
      BY <2>3, NoneAssumption DEF Tidy, Reviews, Errors
    <2>7. Fits(At("check", j), row)
      BY <1>4, <2>3 DEF Fits, Executing
    <2>8. Advances(h, row, At("check", j))
      BY <1>1, <1>4, <2>1, <2>2, <2>3, <2>4, <2>5, <2>6, <2>7
      DEF Advances, Stages, Resting
    <2> QED
      BY <2>8
  <1>6. CASE Respond(h)
    <2>1. Fits(Rest(h), rows[j])
      BY <1>4 DEF Fits, Executing
    <2>2. Advances(h, rows[j], Rest(h))
      BY <1>1, <1>2, <1>3, <1>4, <1>6, <2>1 DEF Advances, Respond, Resting
    <2> QED
      BY <2>2
  <1>7. ASSUME NEW v \in Reviews, thread[h].pc \in {"approve", "reject"},
               Call(h, j, Updated(rows[j], [NoPatch EXCEPT !.status = v, !.review = v]),
                    Rest(h), Raised(h))
        PROVE  \E row, state : Advances(h, row, state)
    <2> DEFINE row == Updated(rows[j], [NoPatch EXCEPT !.status = v, !.review = v])
    <2>1. /\ rows' = [rows EXCEPT ![j] = row]
          /\ thread' = [thread EXCEPT ![h] = Rest(h)]
      BY <1>7, CallsSucceed
    <2>2. rows[j].status = "awaiting_review"
      BY <1>3, <1>7 DEF Fits
    <2>3. row \in Row
      BY <1>2, UpdatedIsRow, PatchesArePatches
    <2>4. v # None
      BY NoneAssumption
    <2>5. /\ row.status = v /\ row.progress = rows[j].progress
          /\ row.error = rows[j].error
          /\ row.review = v /\ row.cancelled = rows[j].cancelled
          /\ row.completed_at = "set"
      BY <2>4, NoneAssumption DEF Updated, NoPatch, Given, Reviews, Deciding
    <2> HIDE DEF row
    <2>6. Tidy(row)
      BY <1>3, <2>2, <2>4, <2>5 DEF Tidy, Reviews
    <2>7. Fits(Rest(h), row)
      BY <1>4 DEF Fits, Executing
    <2>8. <<rows[j].status, row.status>> \in Stages
      BY <2>2, <2>5 DEF Stages, Reviews
    <2>9. Advances(h, row, Rest(h))
      BY <1>1, <1>4, <1>7, <2>1, <2>3, <2>5, <2>6, <2>7, <2>8 DEF Advances, Resting
    <2> QED
      BY <2>9
  <1>8. CASE Approve(h)
    BY <1>1, <1>7, <1>8 DEF Approve, Reviews
  <1>9. CASE Reject(h)
    BY <1>1, <1>7, <1>9 DEF Reject, Reviews
  <1> QED
    BY <1>5, <1>6, <1>8, <1>9

\* Every step of the system keeps the invariant of a job that nothing disturbs:
\* another job's threads leave its row alone; what begins, is cancelled or
\* crashes changes no status.
LEMMA StepLifecycle ==
    ASSUME Typed, OwnershipInvariant, NEW j \in Jobs, Undisturbed(j), Undisturbed(j)',
           LifecycleInvariant(j), [Next]_vars
    PROVE  LifecycleInvariant(j)' /\ StageStep(j)
  <1>1. faults' = 0
    BY DEF Undisturbed
  <1>2. \A h \in Handlers : h \in Threads
    BY DEF Threads
  <1>3. \A w \in Workers : w \in Threads
    BY DEF Threads
  <1>4. ASSUME NEW t \in Threads, thread[t].job = j, thread[t].pc \notin Resting,
               \E row, state : Advances(t, row, state)
        PROVE  LifecycleInvariant(j)' /\ StageStep(j)
    BY <1>4, AdvanceKeeps
  <1>5. ASSUME NEW t \in Threads, Shape(t), thread[t].job # j
        PROVE  LifecycleInvariant(j)' /\ StageStep(j)
    <2>1. PICK state \in GoodState :
             /\ Moves(t, state)
             /\ \/ rows' = rows
                \/ \E row \in Row : rows' = [rows EXCEPT ![thread[t].job] = row]
      BY <1>5 DEF Shape
    <2>2. /\ rows'[j] = rows[j]
          /\ thread'[t] = state
          /\ \A u \in Threads : u # t => thread'[u] = thread[u]
      BY <1>5, <2>1 DEF Moves, Typed, TypeOK
    <2>3. state.job = j => state.pc \in Resting
      BY <1>5, <2>1 DEF Moves
    <2>4. state.job = j => Fits(state, rows[j])
      BY <2>3 DEF Fits, Resting, Executing
    <2> QED
      BY <2>2, <2>4 DEF LifecycleInvariant, StageStep
  <1>6. ASSUME NEW t \in Threads, ProcessOneJob(t)
        PROVE  LifecycleInvariant(j)' /\ StageStep(j)
    <2>1. Shape(t)
      BY <1>6, ProcessShape
    <2>2. CASE thread[t].job = j
      BY <1>1, <1>4, <1>6, <2>1, <2>2, ProcessAdvances DEF Shape
    <2> QED
      BY <1>5, <2>1, <2>2
  <1>7. ASSUME NEW h \in Handlers, Insert(h) \/ Respond(h) \/ Approve(h) \/ Reject(h)
        PROVE  LifecycleInvariant(j)' /\ StageStep(j)
    <2>1. Shape(h)
      BY <1>7, HandlerShape
    <2>2. CASE thread[h].job = j
      BY <1>1, <1>2, <1>4, <1>7, <2>1, <2>2, HandlerAdvances DEF Shape
    <2> QED
      BY <1>2, <1>5, <2>1, <2>2
  <1>8. ASSUME NEW t \in Threads, Start(t)
        PROVE  LifecycleInvariant(j)' /\ StageStep(j)
    <2>1. PICK state \in GoodState : Begins(t, state)
      BY <1>8 DEF Start
    <2>2. /\ rows' = rows
          /\ thread'[t] = state
          /\ \A u \in Threads : u # t => thread'[u] = thread[u]
      BY <1>8, <2>1 DEF Start, Begins, Typed
    <2>3. Fits(state, rows[state.job])
      BY <2>1 DEF Begins, Fits, Executing
    <2> QED
      BY <2>2, <2>3 DEF LifecycleInvariant, StageStep
  <1>9. ASSUME NEW i \in Jobs, SetCancelled(i)
        PROVE  LifecycleInvariant(j)' /\ StageStep(j)
    <2>1. /\ rows'[j].status = rows[j].status
          /\ rows'[j].progress = rows[j].progress
          /\ rows'[j].error = rows[j].error
          /\ rows'[j].review = rows[j].review
          /\ rows'[j].completed_at = rows[j].completed_at
          /\ rows[j].cancelled = 1 => rows'[j].cancelled = 1
          /\ thread' = thread
      BY <1>9 DEF SetCancelled, Typed, TypeOK, Row
    <2>2. Tidy(rows'[j])
      BY <2>1 DEF LifecycleInvariant, Tidy
    <2>3. ASSUME NEW t \in Threads, thread[t].job = j PROVE Fits(thread[t], rows'[j])
      BY <2>1, <2>3 DEF LifecycleInvariant, Fits
    <2> QED
      BY <2>1, <2>2, <2>3 DEF LifecycleInvariant, StageStep
  <1>10. CASE Crash
    <2>1. \A t \in Threads : thread'[t].pc \in {"idle", "poll"}
      BY <1>10 DEF Crash, Rest, At
    <2>2. \A t \in Threads : \A any : Fits(thread'[t], any)
      BY <2>1 DEF Fits, Executing
    <2> QED
      BY <1>10, <2>2 DEF Crash, LifecycleInvariant, StageStep
  <1>11. CASE UNCHANGED vars
    BY <1>11 DEF vars, LifecycleInvariant, StageStep
  <1> QED
    BY <1>2, <1>3, <1>6, <1>7, <1>8, <1>9, <1>10, <1>11, RequestStarts, PollStarts
    DEF Next, HandlerStep, WorkerStep

\* No job exists at first.
LEMMA InitLifecycle ==
    ASSUME Init, NEW j \in Jobs
    PROVE  LifecycleInvariant(j)
  <1>1. rows[j] = NoRow
    BY DEF Init
  <1>2. Tidy(NoRow)
    BY NoneAssumption DEF Tidy, NoRow, Absent, Reviews, Errors
  <1>3. \A t \in Threads : thread[t].pc \in {"idle", "poll"}
    BY DEF Init, Rest, At
  <1>4. \A t \in Threads : Fits(thread[t], rows[j])
    BY <1>3 DEF Fits, Executing
  <1> QED
    BY <1>1, <1>2, <1>4 DEF LifecycleInvariant

\* JobService.UndisturbedColumns, for any number of workers, reviewers, jobs and
\* crashes: as long as no two threads create, execute or decide a job at the same
\* time and no call raises, error, verdict, progress and completion time of that
\* job say the same as its status, whatever the threads of other jobs do.
THEOREM ColumnsTellStatus == Spec => UndisturbedColumns
  <1>1. ASSUME NEW j \in Jobs
        PROVE  Spec => ([]Undisturbed(j) => []ColumnsMatch(j))
    <2>1. Init => LifecycleInvariant(j)
      BY InitLifecycle
    <2>2. /\ Typed /\ OwnershipInvariant
          /\ Undisturbed(j) /\ Undisturbed(j)'
          /\ LifecycleInvariant(j)
          /\ [Next]_vars
          => LifecycleInvariant(j)'
      BY StepLifecycle
    <2>3. LifecycleInvariant(j) => ColumnsMatch(j)
      BY DEF LifecycleInvariant, ColumnsMatch, Tidy, Settled
    <2> QED
      BY <2>1, <2>2, <2>3, AlwaysOwned, PTL DEF Spec
  <1> QED
    BY <1>1 DEF UndisturbedColumns

\* The lifecycle of one job.
OneJob(j) == INSTANCE JobLifecycle
             WITH Jobs <- {j}, stage <- [i \in {j} |-> rows[i].status]

\* A move of Stages on the status of a job is a step of its lifecycle.
LEMMA StagesAreSteps ==
    ASSUME NEW j \in Jobs, StageStep(j)
    PROVE  [OneJob(j)!Next]_([i \in {j} |-> rows[i].status])
  <1> DEFINE stage == [i \in {j} |-> rows[i].status]
             next  == [i \in {j} |-> rows'[i].status]
  <1>1. next = [stage EXCEPT ![j] = rows'[j].status] /\ stage[j] = rows[j].status
    OBVIOUS
  <1>2. CASE rows'[j].status = rows[j].status
    BY <1>1, <1>2
  <1>3. CASE StageMove(j)
    BY <1>1, <1>3
    DEF StageMove, Stages, Absent, OneJob!Next, OneJob!Accept, OneJob!Start,
        OneJob!Settle, OneJob!Decide, OneJob!Move
  <1> QED
    BY <1>2, <1>3 DEF StageStep

\* On the same condition the job keeps the lifecycle its clients are told of: every
\* step of the service is a step of JobLifecycle on it, or leaves its status alone.
THEOREM LifecycleIsKept ==
    ASSUME NEW j \in Jobs
    PROVE  Spec => ([]Undisturbed(j) =>
                       /\ OneJob(j)!Init
                       /\ [][OneJob(j)!Next]_([i \in {j} |-> rows[i].status]))
  <1>1. Init => LifecycleInvariant(j) /\ OneJob(j)!Init
    BY InitLifecycle DEF Init, NoRow, OneJob!Init, Absent
  <1>2. /\ Typed /\ OwnershipInvariant
        /\ Undisturbed(j) /\ Undisturbed(j)'
        /\ LifecycleInvariant(j)
        /\ [Next]_vars
        => /\ LifecycleInvariant(j)'
           /\ [OneJob(j)!Next]_([i \in {j} |-> rows[i].status])
    BY StepLifecycle, StagesAreSteps
  <1> QED
    BY <1>1, <1>2, AlwaysOwned, PTL DEF Spec
=============================================================================

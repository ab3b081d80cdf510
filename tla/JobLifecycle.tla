---------------------------- MODULE JobLifecycle ----------------------------
(***************************************************************************)
(* What the job API promises of one job, with no threads and no calls: it  *)
(* is accepted, executed once, settles, and is decided at most once        *)
(* (section 4 of docs/architecture/v1-contract.md with the statuses of     *)
(* packages/domain/schemas/common.py).  JobService implements it when one  *)
(* thread executes a job and one thread decides (run job_single); each     *)
(* job whose threads do not meet keeps it (LifecycleIsKept).               *)
(***************************************************************************)
CONSTANT Jobs
VARIABLE stage     \* the status of each job

Init == stage = [j \in Jobs |-> "absent"]

Move(j, from, to) == stage[j] = from /\ stage' = [stage EXCEPT ![j] = to]

Accept(j) == Move(j, "absent", "queued")
Start(j)  == Move(j, "queued", "running")
Settle(j) == \E end \in {"awaiting_review", "failed"} : Move(j, "running", end)
Decide(j) == \E verdict \in {"approved", "rejected"} : Move(j, "awaiting_review", verdict)

Next == \E j \in Jobs : Accept(j) \/ Start(j) \/ Settle(j) \/ Decide(j)

\* An accepted job is started and a started one settles; nobody has to decide.
Fairness == \A j \in Jobs : WF_stage(Start(j)) /\ WF_stage(Settle(j))

Spec == Init /\ [][Next]_stage /\ Fairness
============================================================================

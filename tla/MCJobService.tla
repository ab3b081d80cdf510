---------------------------- MODULE MCJobService ----------------------------
(***************************************************************************)
(* TLC instances of JobService.  Ids and keys, and API threads that serve  *)
(* the same requests, are interchangeable.                                 *)
(***************************************************************************)
EXTENDS JobService, TLC

Symmetry == Permutations(Jobs) \cup Permutations(Keys) \cup Permutations(Handlers)

\* Bound of job_single: where a third job is created nothing is reviewed.
FewReviews ==
    clock > 2 => /\ \A j \in Jobs : rows[j].status \notin Reviews
                 /\ \A t \in Threads : thread[t].pc \notin {"approve", "reject"}
============================================================================

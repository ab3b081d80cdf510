----------------------------- MODULE MCFeedback -----------------------------
(***************************************************************************)
(* The TLC instance of Feedback: three small instances in one, told apart  *)
(* by what the clients send.                                               *)
(*                                                                         *)
(* One client, whose feedback is a reviewer's or too large, on a job that  *)
(* moves.                                                                  *)
(*                                                                         *)
(* Rivals, jobs at rest.  They report for one reviewer from two sources,   *)
(* at the same time.                                                       *)
(*                                                                         *)
(* Two clients one after the other, jobs at rest.  They report for one     *)
(* source without a reviewer, or leave rows at the ends of the drift       *)
(* windows, in two weeks, in two topologies, or on no day at all; one of   *)
(* them is nobody.                                                         *)
(***************************************************************************)
EXTENDS Feedback

CONSTANTS j1, j2, c1, c2

TwoTopologies == [j \in {j1, j2} |-> IF j = j1 THEN "belt_axis" ELSE "ball_screw"]

Report(job, reviewer, source, observed) ==
    [job |-> job, reviewer |-> reviewer, source |-> source, observed |-> observed,
     large |-> FALSE]

TooBig == [Report(j1, None, "s2", Day(Today + 1)) EXCEPT !.large = TRUE]

Pair(one, other) == [c \in Clients |-> IF c = c1 THEN one ELSE other]

Single(report) == Pair(report, report)

MCSubmissions ==
    { Single(Report(j1, "r1", "s1", Day(Today))),
      Single(TooBig),
      Pair(Report(j1, "r1", "s1", Day(Today)), Report(j1, "r1", "s2", Day(Today))),
      Pair(Report(j1, None, "s1", Day(Today)), Report(j1, None, "s1", Empty)),
      Pair(Report(j1, "r1", "s1", Day(Today - 1)), Report(j1, "r2", "s1", Day(Today - 3))),
      Pair(Report(j1, "r1", "s1", Day(Today + 1)), Report(j1, "r2", "s1", Day(Today - 7))),
      Pair(Report(j1, None, "s1", Day(Today - 2)), Report(j2, None, "s1", Day(Today - 2))),
      Pair(Report(j1, None, "s1", Empty), Report(j1, "r1", "s1", Day(Today - 1))),
      Pair(Report(j1, "r1", None, NotADate), Report(j1, None, None, Empty)) }

AtRest(job) ==
    job.status = "awaiting_review" /\ job.second # "executing" /\ job.reviews = {}

\* The bound.  A second client with the report of the first sends nothing, and
\* the job of that one moves; what a crash does to it, the steps of its reviewers
\* and its execution that break off do too.  Rivals overlap, others come one
\* after the other.
Bounds ==
    LET single == payload[c1] = payload[c2]
        rivals == payload[c1].job = payload[c2].job /\ payload[c1].source # payload[c2].source
    IN
    /\ AtRest(jobs[j2])
    /\ IF single
       THEN call[c2].state = "out" /\ jobs[j2].second = "unclaimed"
       ELSE AtRest(jobs[j1]) /\ jobs[j1].second = jobs[j2].second
    /\ FreeHandlers # {} \/ rivals
    /\ Len(recent) <= 1 \/ rivals \/ single
=============================================================================

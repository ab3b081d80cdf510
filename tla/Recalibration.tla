--------------------------- MODULE Recalibration ----------------------------
(***************************************************************************)
(* Policy recalibration: scheduled runs of recalibrate_policy that write   *)
(* artifacts/policy-proposals/latest.json, people who look at it and       *)
(* promote it, and what load_policy makes of the files                     *)
(* (packages/domain/scoring/recalibrate.py, apps/worker/runner.py,         *)
(* packages/engineering/policy/loader.py).                                 *)
(*                                                                         *)
(* Each process is its own; a step is one file operation.  write_text      *)
(* truncates the file and then fills it, and a process may die in between, *)
(* or fill what another has filled meanwhile.                              *)
(* Fractions are in ten thousandths, the code's rounding to four places;   *)
(* it may differ from the code's in the last place.                        *)
(***************************************************************************)
EXTENDS Integers, FiniteSets, FiniteSetsExt

CONSTANTS
    Schedulers, Approvers,  \* processes
    Telemetry,     \* what the input files may hold: records [lead, risk, margin,
                   \* efficiency, samples, benchmarks], the first four averages
    MinSamples,    \* min_sample_size
    MaxProposals,  \* bound: proposals generated
    MaxPromotions, \* bound: calls of promote_recalibrated_policy
    MaxDeaths,     \* bound: processes that die
    None

ASSUME RecalibrationAssumption ==
    /\ Telemetry \subseteq [lead : Int, risk : Int, margin : Int, efficiency : Int,
                            samples : Nat, benchmarks : Nat]
    /\ MinSamples \in Nat \ {0} /\ MaxProposals \in Nat /\ MaxPromotions \in Nat /\ MaxDeaths \in Nat

VARIABLES
    latest,     \* latest.json: None, torn, or a proposal
    active,     \* policy/v2/scoring.yaml: None, torn, or a candidate
    scheduler,  \* what each scheduled run does: program point, proposal
    approver,   \* what each approver does: program point, proposal it has read
    generated,  \* proposals generated so far, which also names them
    approvals,  \* history: the proposals whose gate was written as approved
    promotions, deaths  \* so far

vars == <<latest, active, scheduler, approver, generated, approvals, promotions, deaths>>

Torn == [id |-> 0]
Written(file) == file # None /\ file # Torn

\* What a fill makes of a file: over the longer text of a process that has filled it
\* since it was truncated, nothing that can be parsed.
Filled(file, content) == {content} \cup (IF file = Torn THEN {} ELSE {Torn})

----------------------------------------------------------------------------
(* _propose_updates *)

\* Mutant: only the upper bound is enforced.
ClampAbove(value, low, high) == Min({high, value})

Clamp(value, low, high) == Max({low, Min({high, value})})

\* policy/v1/scoring.yaml, the thresholds that recalibration touches.
V1 == [high |-> 1500, medium |-> 2000, speed |-> 10500, efficiency |-> 8500, samples |-> 25]

\* Mutant: both margins are clamped before the gap between them is kept.
GapFirst(base, high, margin) ==
    Clamp(Max({base.high + 200, (base.medium * 85 + margin * 15) \div 100}), 800, 5000)

Medium(base, high, margin) ==
    Clamp(Max({high + 200, (base.medium * 85 + margin * 15) \div 100}), 800, 5000)

Propose(base, t) ==
    LET high == Clamp((base.high * 8 + t.margin * 2) \div 10 + t.risk \div 20, 500, 4000) IN
    [high       |-> high,
     medium     |-> Medium(base, high, t.margin),
     speed      |-> Clamp(base.speed + 50 * t.lead, 10000, 12000),
     efficiency |-> Clamp((base.efficiency * 7 + t.efficiency * 3) \div 10
                              - (t.risk * 2) \div 275, 7000, 9500),
     samples    |-> Clamp(base.samples + t.samples \div 10, 5, 500)]

\* load_policy("v1"), whatever has been promoted.
Base == V1

Enough(t) == t.samples >= MinSamples

Proposal(id, t) ==
    [id |-> id, gate |-> "pending", evidence |-> t,
     candidate |-> IF Enough(t) THEN Propose(Base, t) ELSE None]

----------------------------------------------------------------------------
Idle == [pc |-> "idle", proposal |-> None]
At(pc, proposal) == [pc |-> pc, proposal |-> proposal]

Init ==
    /\ latest = None
    /\ active = None
    /\ scheduler = [s \in Schedulers |-> Idle]
    /\ approver = [a \in Approvers |-> Idle]
    /\ generated = 0
    /\ approvals = {}
    /\ promotions = 0
    /\ deaths = 0

\* recalibrate_policy up to the write; without benchmark rows mean() raises,
\* unless the sample is too small to get there.
Generate(s) ==
    /\ scheduler[s].pc = "idle"
    /\ generated < MaxProposals
    /\ \E t \in Telemetry :
          /\ Enough(t) => t.benchmarks > 0
          /\ scheduler' = [scheduler EXCEPT ![s] = At("truncate", Proposal(generated + 1, t))]
    /\ generated' = generated + 1
    /\ UNCHANGED <<latest, active, approver, approvals, promotions, deaths>>

WriteLatest(s) ==
    /\ \/ /\ scheduler[s].pc = "truncate"
          /\ latest' = Torn
          /\ scheduler' = [scheduler EXCEPT ![s].pc = "fill"]
       \/ /\ scheduler[s].pc = "fill"
          /\ latest' \in Filled(latest, scheduler[s].proposal)
          /\ scheduler' = [scheduler EXCEPT ![s] = Idle]
    /\ UNCHANGED <<active, approver, generated, approvals, promotions, deaths>>

Move(a, state) == approver' = [approver EXCEPT ![a] = state]

\* Mutant: the gate goes back as it was read.
ReadPending(a) ==
    /\ approver[a].pc = "idle"
    /\ promotions < MaxPromotions
    /\ Written(latest)
    /\ promotions' = promotions + 1
    /\ Move(a, At("open_gate", latest))
    /\ UNCHANGED <<latest, active, scheduler, generated, approvals, deaths>>

\* promote_recalibrated_policy reads; a torn file makes json.loads raise.
Read(a) ==
    /\ approver[a].pc = "idle"
    /\ promotions < MaxPromotions
    /\ Written(latest)
    /\ promotions' = promotions + 1
    /\ Move(a, At("open_gate", [latest EXCEPT !.gate = "approved"]))
    /\ UNCHANGED <<latest, active, scheduler, generated, approvals, deaths>>

\* Mutant: the policy is written before the gate.
GateLast(a) ==
    /\ approver[a].pc = "open_gate"
    /\ Move(a, [approver[a] EXCEPT !.pc = "policy"])
    /\ UNCHANGED <<latest, active, scheduler, generated, approvals, promotions, deaths>>

\* The approved gate goes back to the file, candidate or not.
OpenGate(a) ==
    /\ approver[a].pc = "open_gate"
    /\ latest' = Torn
    /\ Move(a, [approver[a] EXCEPT !.pc = "write_gate"])
    /\ UNCHANGED <<active, scheduler, generated, approvals, promotions, deaths>>

\* Then, without a candidate, ValueError.
WriteGate(a) ==
    LET p == approver[a].proposal IN
    /\ approver[a].pc = "write_gate"
    /\ latest' \in Filled(latest, p)
    /\ approvals' = approvals \cup {p.id}
    /\ Move(a, IF p.candidate = None THEN Idle ELSE At("policy", p))
    /\ UNCHANGED <<active, scheduler, generated, promotions, deaths>>

Sections == {"version", "risk_thresholds", "weight_perturbation", "signals"}

\* policy/v2/scoring.yaml gets the candidate and no more.
WritePolicy(a) ==
    LET p == approver[a].proposal IN
    /\ \/ /\ approver[a].pc = "policy"
          /\ active' = Torn
          /\ Move(a, [approver[a] EXCEPT !.pc = "fill_policy"])
       \/ /\ approver[a].pc = "fill_policy"
          /\ active' \in Filled(active, [id |-> p.id, policy |-> p.candidate,
                                         evidence |-> p.evidence, sections |-> Sections])
          /\ Move(a, Idle)
    /\ UNCHANGED <<latest, scheduler, generated, approvals, promotions, deaths>>

\* A process dies where it is.
Die ==
    /\ deaths < MaxDeaths
    /\ deaths' = deaths + 1
    /\ \/ \E s \in Schedulers : /\ scheduler[s].pc # "idle"
                                /\ scheduler' = [scheduler EXCEPT ![s] = Idle]
                                /\ UNCHANGED approver
       \/ \E a \in Approvers : /\ approver[a].pc # "idle"
                               /\ approver' = [approver EXCEPT ![a] = Idle]
                               /\ UNCHANGED scheduler
    /\ UNCHANGED <<latest, active, generated, approvals, promotions>>

Next ==
    \/ \E s \in Schedulers : Generate(s) \/ WriteLatest(s)
    \/ \E a \in Approvers : Read(a) \/ OpenGate(a) \/ WriteGate(a) \/ WritePolicy(a)
    \/ Die

Spec == Init /\ [][Next]_vars

----------------------------------------------------------------------------
\* What the loader demands of a policy file; load_policy raises otherwise.
Required == {"version", "risk_thresholds", "weight_perturbation",
             "structural_limits", "thermal_limits"}

Loads(file) == Written(file) /\ Required \subseteq file.sections

Proposals == {p \in {latest} : Written(p)}
                 \cup {scheduler[s].proposal : s \in {q \in Schedulers : scheduler[q].pc # "idle"}}

PolicyTyped(c) ==
    c.high > 0 /\ c.efficiency \in 1 .. 10000 /\ c.samples \in 5 .. 1000

\* The variables have their types, and a proposal that can be read holds the
\* thresholds the loader accepts, whatever the telemetry was.
TypeOK ==
    /\ scheduler \in [Schedulers -> [pc : {"idle", "truncate", "fill"},
                                     proposal : {scheduler[s].proposal : s \in Schedulers}]]
    /\ \A a \in Approvers :
          approver[a].pc \in {"idle", "open_gate", "write_gate", "policy", "fill_policy"}
    /\ generated \in 0 .. MaxProposals /\ approvals \subseteq 1 .. generated
    /\ promotions \in 0 .. MaxPromotions /\ deaths \in 0 .. MaxDeaths
    /\ \A p \in Proposals : p.candidate # None => PolicyTyped(p.candidate)

\* A margin that is a high risk is a medium one too: the gap between the two
\* thresholds survives the clamping of both.
HighBelowMedium ==
    \A p \in Proposals : p.candidate # None => p.candidate.high + 200 <= p.candidate.medium

\* A policy that was promoted had its gate approved first, and its proposal had
\* enough telemetry, however the runs and the approvers interleave or die.
ActiveWasApproved ==
    Written(active) => active.id \in approvals /\ active.evidence.samples >= MinSamples

\* The two files never contradict each other: where latest.json holds the
\* proposal whose policy is in force, it shows its gate as approved, whatever
\* runs and approvers have overwritten in between.
ActiveIsOnRecord ==
    Written(active) /\ Written(latest) /\ latest.id = active.id => latest.gate = "approved"

\* docs/recalibration-workflow.md:38, "Update deployment/configuration to
\* consume policy version `v2`": what a promotion leaves can be loaded.
PromotedPolicyLoads == Written(active) => Loads(active)
=============================================================================

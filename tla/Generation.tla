----------------------------- MODULE Generation -----------------------------
(***************************************************************************)
(* run_generation_pipeline and its two callers: validation, selection of   *)
(* topologies, the candidates of each plugin, their scores and ranking,    *)
(* and the robustness of the ranking under perturbed weights               *)
(* (packages/domain/services, topologies, scoring; catalog/rules.py).      *)
(*                                                                         *)
(* The API runs its handlers in threads of one process.  What they share   *)
(* is the generator of random: assess_ranking_robustness seeds it and then *)
(* draws from it, so a step is a call of random; the rest of a request is  *)
(* a function of its arguments and goes with the step before.              *)
(*                                                                         *)
(* Integers: mm, mm/s, kg, mNm, W, masses of parts in 100 g, shares of one *)
(* in ten thousandths and rounded down, so a score may differ from the     *)
(* code's in the last place.  The id of a candidate is a text made of its  *)
(* family and its parts; it sorts as the places of these do, and they are  *)
(* the id here.                                                            *)
(***************************************************************************)
EXTENDS Integers, Sequences, FiniteSets, FiniteSetsExt

CONSTANTS
    Threads,
    Requests,  \* what clients send: records with the fields that Normalize, Score
               \* and Selected read
    Catalog,   \* motors, drives, transmissions, screws and direct_drive_motors,
               \* sequences in the order of their ids
    Noise,     \* what the generator yields after the seed, in percent
    Samples,   \* weight_perturbation.samples
    None

ASSUME GenerationAssumption ==
    /\ Samples \in Nat \ {0}
    /\ Noise \in Seq(-8 .. 8) /\ Len(Noise) > 0

\* What the schemas make of a request: its numbers have any sign, but for the
\* duty cycle.
ASSUME RequestAssumption ==
    \A r \in Requests :
        /\ {r.travel.value, r.speed.value, r.payload.value, r.power} \subseteq Int
        /\ r.root \in Nat
        /\ r.priorities \in [1 .. 4 -> Int]
        /\ {"allowed", "excluded"} \subseteq DOMAIN r /\ r.async \in BOOLEAN

Motor == [power : Nat, rpm : Nat, torque : Nat, mass : Nat, cost : Nat, lifecycle : STRING,
          lead : Nat, single : BOOLEAN, preferred : BOOLEAN, efficiency : Nat]

\* The catalog of the repository; nothing that divides is zero.  The efficiency
\* of a motor counts only in a direct drive.
ASSUME CatalogAssumption ==
    /\ Catalog.motors \in Seq(Motor) /\ Catalog.direct \in Seq(Motor)
    /\ Catalog.drives \in Seq([power : Nat, efficiency : Nat, mass : Nat, cost : Nat])
    /\ Catalog.transmissions \in
          Seq([ratio : Nat \ {0}, torque : Nat, efficiency : Nat, mass : Nat, cost : Nat])
    /\ Catalog.screws \in Seq([lead : Nat, efficiency : Nat \ {0}, mass : Nat, cost : Nat])

VARIABLES
    drawn,   \* values drawn since the generator was seeded
    thread   \* program point, request, draws of this sample, tops of the samples
             \* so far, whether others used the generator meanwhile, answer

vars == <<drawn, thread>>

P == INSTANCE Physics

Clamp(value, low, high) == Max({low, Min({high, value})})

----------------------------------------------------------------------------
(* engineering/validation.py and units.py *)

\* Scale of each unit in mm, mm/s and, for masses, g.
Scale(unit) == IF unit \in {"m", "m/s", "kg"} THEN 1000 ELSE 1

Convertible(req) ==
    /\ req.travel.unit \in {"m", "mm"}
    /\ req.speed.unit \in {"m/s", "mm/s"}
    /\ req.payload.unit \in {"kg", "g"}

InBase(quantity) == quantity.value * Scale(quantity.unit)

\* normalize_requirement, for a request whose units are known.
Normalize(req) ==
    [travel |-> InBase(req.travel), speed |-> InBase(req.speed),
     payload |-> InBase(req.payload) \div 1000, root |-> req.root]

\* Issues, missing inputs and conflicts: they go with the answer, nothing else
\* depends on them.
Remarks(n, power) ==
    {remark \in {"payload", "travel", "max_speed", "max_motor_power_w", "speed", "duty"} :
        CASE remark = "payload"           -> n.payload < 0
          [] remark = "travel"            -> n.travel <= 0
          [] remark = "max_speed"         -> n.speed <= 0
          [] remark = "max_motor_power_w" -> power <= 0
          [] remark = "speed"             -> n.speed > 2000 /\ power < 150
          [] remark = "duty"              -> P!DutyAbove(n, 95) /\ power < 200}

----------------------------------------------------------------------------
(* topology_selector.py and registry.py *)

Topologies == {"belt_axis", "ball_screw", "direct_drive"}

TravelLimit(topology) ==
    CASE topology = "belt_axis" -> 5000
      [] topology = "ball_screw" -> 2500
      [] topology = "direct_drive" -> 6283

\* The empty list allows every topology; unknown names are no topologies.
Named(req) == IF req.allowed = {} THEN Topologies ELSE req.allowed

\* Mutant: a topology that is allowed by name cannot be excluded.
NamedWins(req, n) ==
    {t \in Named(req) \cap Topologies :
        (t \notin req.excluded \/ t \in req.allowed) /\ n.travel <= TravelLimit(t)}

Selected(req, n) ==
    {t \in Named(req) \cap Topologies :
        t \notin req.excluded /\ n.travel <= TravelLimit(t)}

----------------------------------------------------------------------------
(* The plugins *)

\* apply_derating
Derated(torque, n, topology) ==
    LET duty == IF P!DutyAbove(n, 90) THEN 85 ELSE IF P!DutyAbove(n, 75) THEN 92 ELSE 100
    IN (torque * duty * (IF topology = "direct_drive" THEN 95 ELSE 100)) \div 10000

\* compatible: only the plugin of belts calls it.
Compatible(motor, drive, belt, power) ==
    /\ motor.power <= drive.power
    /\ motor.torque * belt.ratio <= belt.torque * 100
    /\ motor.power <= power

Design(id, topology, motor, drive, part, speed, available, required, efficiency) ==
    [id |-> id, topology |-> topology, motor |-> motor, speed |-> speed, efficiency |-> efficiency,
     margin |-> ((available - required) * 10000) \div required,
     mass |-> motor.mass + drive.mass + part.mass,
     cost |-> motor.cost + drive.cost + part.cost]

Belt(id, motor, drive, belt, n) ==
    Design(id, "belt_axis", motor, drive, belt, (motor.rpm * 50) \div belt.ratio,
           Derated((motor.torque * belt.ratio) \div 100, n, "belt_axis"),
           Max({50, (n.payload * 981) \div 10}), drive.efficiency * belt.efficiency)

Screw(id, screw, motor, drive, n) ==
    Design(id, "ball_screw", motor, drive, screw, (motor.rpm * screw.lead) \div 60,
           Derated(motor.torque, n, "ball_screw"),
           Max({50, (n.payload * 981 * screw.lead * 1000) \div (6283 * screw.efficiency)}),
           drive.efficiency * screw.efficiency)

Integrated == [mass |-> 0, cost |-> 0]

Direct(id, motor, n) ==
    Design(id, "direct_drive", motor, Integrated, Integrated, (motor.rpm * 1000) \div 60,
           Derated(motor.torque, n, "direct_drive"), Max({20, n.payload * 200}),
           motor.efficiency * 100)

\* The ids that a plugin makes: its family, and the parts in the order of its
\* loops.
Places(parts) == 1 .. Len(parts)

Ids(topology) ==
    CASE topology = "belt_axis" ->
            {1} \X Places(Catalog.motors) \X Places(Catalog.drives) \X Places(Catalog.transmissions)
      [] topology = "ball_screw" ->
            {2} \X Places(Catalog.screws) \X Places(Catalog.motors) \X Places(Catalog.drives)
      [] topology = "direct_drive" -> {3} \X Places(Catalog.direct) \X {0} \X {0}

Built(id, n) ==
    CASE id[1] = 1 -> Belt(id, Catalog.motors[id[2]], Catalog.drives[id[3]],
                           Catalog.transmissions[id[4]], n)
      [] id[1] = 2 -> Screw(id, Catalog.screws[id[2]], Catalog.motors[id[3]],
                            Catalog.drives[id[4]], n)
      [] id[1] = 3 -> Direct(id, Catalog.direct[id[2]], n)

Feasible(id, n, power) ==
    /\ id[1] = 1 => Compatible(Catalog.motors[id[2]], Catalog.drives[id[3]],
                               Catalog.transmissions[id[4]], power)
    /\ Built(id, n).speed >= n.speed
    /\ Built(id, n).margin >= 0

\* The loop of the pipeline over the selected topologies.
Candidates(selected, n, power) ==
    {Built(id, n) : id \in {i \in UNION {Ids(t) : t \in selected} : Feasible(i, n, power)}}

----------------------------------------------------------------------------
(* score.py *)

\* evaluate_sourcing_rules, its penalty; a motor at its end of life is
\* penalised and flagged, not filtered.
SourcingRisk(motor) ==
    Min({10000, (IF motor.lifecycle = "eol" THEN 4000 ELSE 0)
              + (IF motor.lead > 45 THEN 2000 ELSE 0)
              + (IF motor.single THEN 2000 ELSE 0)
              + (IF motor.preferred THEN 0 ELSE 1000)})

\* _objective_weights: lead time, sourcing risk, cost, fit.
ObjectiveWeights(objective) ==
    CASE objective = "fastest_delivery" -> <<35, 25, 10, 30>>
      [] objective = "lowest_cost" -> <<10, 15, 45, 30>>
      [] objective = "best_reliability_performance" -> <<10, 35, 10, 45>>
      [] OTHER -> <<20, 20, 25, 35>>

\* The normalised metrics that the robustness weighs: efficiency, cost,
\* compactness, performance margin.
Metrics(design) ==
    << design.efficiency, 1000000 \div Max({100, design.cost}), 100000 \div Max({10, design.mass}),
       Clamp(design.margin + 5000, 0, 10000) >>

\* Share of the structural margin of 0.1 that the design has, in percent.
StructuralShare(design, n) ==
    Clamp(10 * Min(P!BeamCheck(P!BeamResponse(
                    [mass |-> design.mass, support |-> "simply_supported"], n)).margins), 0, 100)

\* score_candidate: the cost has its weight from the objective alone.
Total(design, n, priorities, weights) ==
    LET metrics == Metrics(design)
        fit == (metrics[1] * priorities[1] + metrics[3] * priorities[3]
                    + metrics[4] * priorities[4]) \div 100
        lead == 70000 \div Max({7, design.motor.lead})
        base == (lead * weights[1] + (10000 - SourcingRisk(design.motor)) * weights[2]
                    + metrics[2] * weights[3] + fit * weights[4]) \div 100
    IN (base * (8500 + 15 * StructuralShare(design, n))) \div 10000

Scored(designs, n, req) ==
    {[id |-> d.id, topology |-> d.topology, motor |-> d.motor, metrics |-> Metrics(d),
      total |-> Total(d, n, req.priorities, ObjectiveWeights(req.objective))] : d \in designs}

\* The order of the texts that ids are in the code.
Earlier(i, j) == \E k \in 1 .. 4 : i[k] < j[k] /\ \A l \in 1 .. k - 1 : i[l] = j[l]

\* rank_candidates: a candidate has as many before it as its rank says.
Before(c, d) == c.total > d.total \/ (c.total = d.total /\ Earlier(c.id, d.id))

Ranked(scored) ==
    [rank \in 1 .. Cardinality(scored) |->
        CHOOSE c \in scored : Cardinality({d \in scored : Before(d, c)}) = rank - 1]

\* The part of the pipeline that is a function of the request.  The job of an
\* asynchronous request keeps the requirement alone, so its worker selects
\* among all topologies.
Arguments(req) == IF req.async THEN [req EXCEPT !.allowed = {}, !.excluded = {}] ELSE req

RankingUnder(selected, req) ==
    Ranked(Scored(Candidates(selected, Normalize(req), req.power), Normalize(req), req))

RankingOf == [req \in {r \in Requests : Convertible(r)} |->
                 RankingUnder(Selected(Arguments(req), Normalize(req)), req)]

----------------------------------------------------------------------------
(* sensitivity.py *)

\* The weights are normalised in the code, which does not change who is first.
Weighed(metrics, priorities, noise) ==
    LET weighed(k) == metrics[k] * Max({1, priorities[k] + noise[k]})
    IN weighed(1) + weighed(2) + weighed(3) + weighed(4)

\* Mutant: the sort is ascending.
LastUnder(ranking, priorities, noise) ==
    LET sum(i) == Weighed(ranking[i].metrics, priorities, noise)
        first == CHOOSE i \in DOMAIN ranking : \A j \in DOMAIN ranking \ {i} :
                    \/ sum(i) < sum(j)
                    \/ sum(i) = sum(j) /\ Earlier(ranking[i].id, ranking[j].id)
    IN ranking[first].id

\* The sort of (total, id) is descending in both.
TopUnder(ranking, priorities, noise) ==
    LET sum(i) == Weighed(ranking[i].metrics, priorities, noise)
        first == CHOOSE i \in DOMAIN ranking : \A j \in DOMAIN ranking \ {i} :
                    \/ sum(i) > sum(j)
                    \/ sum(i) = sum(j) /\ Earlier(ranking[j].id, ranking[i].id)
    IN ranking[first].id

Level(tops, top) ==
    LET others == Cardinality({s \in DOMAIN tops : tops[s] # top})
    IN IF 10 * others <= 2 * Samples THEN "stable"
       ELSE IF 10 * others <= 5 * Samples THEN "medium" ELSE "unstable"

Value(position) == Noise[(position % Len(Noise)) + 1]

----------------------------------------------------------------------------
(* The requests *)

\* build_explainability_report
Report(ranking) ==
    IF ranking = <<>> THEN [summary |-> "no feasible candidates"]
    ELSE [winner |-> ranking[1].id,
          lost_by |-> [i \in 1 .. Min({3, Len(ranking) - 1}) |->
                          ranking[1].total - ranking[i + 1].total]]

Error == [outcome |-> "error"]

\* An error fails the job of an asynchronous request; else the job keeps the
\* result and its report.
Answer(req, ranking, tops) ==
    [outcome |-> "ok", level |-> Level(tops, ranking[1].id),
     remarks |-> Remarks(Normalize(req), req.power),
     report |-> IF req.async THEN Report(ranking) ELSE None]

Idle == [pc |-> "idle", req |-> None, noise |-> <<>>, tops |-> <<>>, shared |-> FALSE, answer |-> None]

Init ==
    /\ drawn = 0
    /\ thread = [t \in Threads |-> Idle]

\* A request comes in and the pipeline runs as far as random.seed.
Receive(t) ==
    /\ thread[t].pc = "idle"
    /\ \E req \in Requests :
          thread' = [thread EXCEPT ![t] =
              IF Convertible(req) THEN [Idle EXCEPT !.pc = "seed", !.req = req]
              ELSE [Idle EXCEPT !.req = req, !.answer = Error]]
    /\ UNCHANGED drawn

\* Whoever is drawing notices nothing; shared is kept for the properties.
Disturbed(t) ==
    [u \in Threads |-> IF u # t /\ thread[u].pc = "draw"
                       THEN [thread[u] EXCEPT !.shared = TRUE] ELSE thread[u]]

\* Mutant: the generator goes on from where it is.
SeedNothing(t) ==
    /\ thread[t].pc = "seed"
    /\ drawn' = IF drawn >= 8 * Samples THEN 0 ELSE drawn
    /\ thread' = [Disturbed(t) EXCEPT ![t].pc = "draw"]

Seed(t) ==
    /\ thread[t].pc = "seed"
    /\ drawn' = 0
    /\ thread' = [Disturbed(t) EXCEPT ![t].pc = "draw"]

\* Mutant: one sample too many.
EnoughAfter(tops) == Len(tops) > Samples

Enough(tops) == Len(tops) = Samples

\* A sample has its four values.  Without a candidate scored[0] raises.
Sample(state, noise) ==
    LET ranking == RankingOf[state.req]
        tops == Append(state.tops, TopUnder(ranking, state.req.priorities, noise))
        done == [state EXCEPT !.pc = "idle", !.noise = <<>>, !.tops = <<>>]
    IN IF ranking = <<>> THEN [done EXCEPT !.answer = Error]
       ELSE IF Enough(tops) THEN [done EXCEPT !.answer = Answer(state.req, ranking, tops)]
       ELSE [state EXCEPT !.noise = <<>>, !.tops = tops]

Draw(t) ==
    LET noise == Append(thread[t].noise, Value(drawn)) IN
    /\ thread[t].pc = "draw"
    /\ drawn' = drawn + 1
    /\ thread' = [Disturbed(t) EXCEPT ![t] =
                     IF Len(noise) < 4 THEN [@ EXCEPT !.noise = noise] ELSE Sample(@, noise)]

Next == \E t \in Threads : Receive(t) \/ Seed(t) \/ Draw(t)

Spec == Init /\ [][Next]_vars

----------------------------------------------------------------------------
(* Properties *)

\* The variables have their types; a sampling thread is short of its samples.
TypeOK ==
    /\ drawn \in Nat
    /\ \A t \in Threads :
        /\ thread[t].pc \in {"idle", "seed", "draw"}
        /\ thread[t].req \in Requests \cup {None}
        /\ thread[t].noise \in Seq(-8 .. 8) /\ Len(thread[t].noise) < 4
        /\ thread[t].tops \in Seq(UNION {Ids(topology) : topology \in Topologies}) /\ Len(thread[t].tops) < Samples
        /\ thread[t].shared \in BOOLEAN

Answered == {t \in Threads : thread[t].pc = "idle" /\ thread[t].req # None}

Succeeded == {t \in Answered : thread[t].answer.outcome = "ok"}

\* What a request is told when it is alone with the generator.
LevelAlone(req) ==
    LET ranking == RankingOf[req]
        top(s) == TopUnder(ranking, req.priorities, [k \in 1 .. 4 |-> Value(4 * s + k - 5)])
    IN Level([s \in 1 .. Samples |-> top(s)], ranking[1].id)

\* A request whose draws nobody interrupts gets the same robustness whatever
\* the process computed before.
AloneReproducible ==
    \A t \in Succeeded :
        ~thread[t].shared => thread[t].answer.level = LevelAlone(thread[t].req)

\* At least as good in every metric and, clear of the rounding to six places,
\* better in one.
Dominant(ranking) ==
    \A i \in 2 .. Len(ranking) :
        /\ \A k \in 1 .. 4 : ranking[1].metrics[k] >= ranking[i].metrics[k]
        /\ \E k \in 1 .. 4 : ranking[1].metrics[k] >= ranking[i].metrics[k] + 100

\* Whatever concurrent requests do to the generator, a winner that dominates
\* every other candidate in the weighed metrics is called stable.
DominantIsStable ==
    \A t \in Succeeded :
        Dominant(RankingOf[thread[t].req]) => thread[t].answer.level = "stable"

\* What the client may get: a topology of the selection that can travel so far.
Wanted(req, topology) ==
    /\ Normalize(req).travel <= TravelLimit(topology)
    /\ topology \notin req.excluded
    /\ req.allowed = {} \/ topology \in req.allowed

\* The rankings if nothing is left out.
FullRankingOf == [req \in DOMAIN RankingOf |-> RankingUnder(Topologies, req)]

\* The selection of a request that is answered at once takes candidates out of
\* the ranking and changes nothing else: neither the scores nor the order of the
\* others.  Nothing is claimed of the selection of a job, which candidates.py:63
\* loses.  Any request, job or not, fails exactly when its units are unknown or
\* nothing is left.
SelectionHonoured ==
    \A t \in Answered :
        LET req == thread[t].req
            all == FullRankingOf[req]
            mine == RankingOf[req] IN
        /\ Convertible(req) /\ ~req.async =>
              /\ {mine[i] : i \in DOMAIN mine} =
                     {c \in {all[a] : a \in DOMAIN all} : Wanted(req, c.topology)}
              /\ \A i, j \in DOMAIN mine, a, b \in DOMAIN all :
                     mine[i] = all[a] /\ mine[j] = all[b] => (i < j <=> a < b)
        /\ thread[t].answer.outcome = "error" <=> ~Convertible(req) \/ mine = <<>>

\* packages/reporting/explain.py:4, a result without candidates is reported as
\* "no feasible candidates"; examples/benchmarks/scenarios.json:226, an
\* infeasible requirement is one whose candidates are empty.
NoCandidateIsReported ==
    \A t \in Answered :
        Convertible(thread[t].req) /\ RankingOf[thread[t].req] = <<>> =>
            thread[t].answer.outcome = "ok"
=============================================================================

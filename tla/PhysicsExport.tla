--------------------------- MODULE PhysicsExport ----------------------------
(***************************************************************************)
(* scripts/export_physics_compare.py: the pipeline runs for two cases that *)
(* differ in their constraints only, each case is summarised and written   *)
(* to three files, then the comparison is written to five more.  The       *)
(* process may die between, or in the middle of, two writes and be run     *)
(* again over the files it left, and the pipeline of a case may find no    *)
(* candidate, which ends the process too.                                  *)
(*                                                                         *)
(* Scores are left out: the rows of a case are those of the designs that   *)
(* are feasible, each under its place in the catalog.                      *)
(***************************************************************************)
EXTENDS Physics, Sequences, SequencesExt

CONSTANTS
  Designs,       \* the designs of a catalog (see Physics)
  Companions,    \* those that may be the second design of a catalog
  Requirements,  \* the functional targets of both cases
  PowerA,        \* max_motor_power_w of case A
  PowerB,        \* max_motor_power_w of case B
  MaxRuns        \* bound: starts of the script

ASSUME ExportAssumption ==
  /\ MaxRuns \in Nat \ {0}
  /\ PowerA \in Nat /\ PowerB \in Nat /\ PowerB <= PowerA
  /\ Companions \subseteq Designs
  /\ \A d \in Designs : DesignTyped(d)
  /\ \A r \in Requirements : RequirementTyped(r)

VARIABLES
  catalog,    \* the designs the plugins can build
  req,        \* the functional targets
  pc,         \* "done", or what the script does next
  summaries,  \* the summaries of the cases the script holds
  files,      \* for each file the run that wrote it last; 0: none, -run: torn
  runs        \* starts so far

vars == <<catalog, req, pc, summaries, files, runs>>

Cases == <<"a", "b">>

Files == << "a/request", "a/response", "a/summary", "b/request", "b/response", "b/summary",
            "COMPARE.json", "PHYSICS_COMPARE.json", "COMPARE.md", "PHYSICS_COMPARE.md",
            "HOW_WE_RAN_IT.md" >>

-----------------------------------------------------------------------------
(***************************************************************************)
(* A case                                                                  *)
(***************************************************************************)
\* Only the plugin of belts looks at the motor power of the requirement.
WithinPower(design, power) == design.topology = "belt_axis" => design.power <= power

Feasible(design, power) ==
  /\ design.speed >= req.speed
  /\ design.torque >= 0
  /\ WithinPower(design, power)

\* What SimulationAdapterV1 says of the motion, the torque and the heat.
SimulationOk(design) ==
  /\ 100 * design.speed >= 97 * req.speed
  /\ 10 * design.torque - Duty(req) >= 100
  /\ 100 * Duty(req) <= 300 * Max({10, design.torque + 20})

CasePhysics(design, power) == Evaluate(design, req)

MarginOf(physics, name) == Min((CHOOSE c \in physics.checks : c.name = name).margins)

Categories == <<"drivetrain", "thermal", "structural", "controls">>

RowOf(design, physics) ==
  [design |-> design, failed |-> {c.name : c \in {k \in physics.checks : ~k.passed}},
   passed |-> physics.status # "fail",
   warnings |-> physics.warnings, flags |-> physics.flags,
   margins |-> [k \in DOMAIN Categories |-> MarginOf(physics, Categories[k])],
   simulation |-> SimulationOk(design)]

Row(design, power) == RowOf(design, CasePhysics(design, power))

Rows(power) ==
  [i \in {j \in DOMAIN catalog : Feasible(catalog[j], power)} |-> Row(catalog[i], power)]

\* CHECK_TYPES: the warnings that fail a candidate in the table of a check.
TableCodes(type) ==
  CASE type = "structural" -> {"PHYS_STRUCTURAL_DEFLECTION_HIGH"}
    [] type = "thermal" -> {"PHYS_THERMAL_TEMP_RISE_HIGH", "risk_thermal_temp_rise_near_limit",
                            "risk_thermal_margin_low", "risk_thermal_margin_near_limit"}
    [] type = "drivetrain" -> {"PHYS_SPEED_HEADROOM_LOW", "PHYS_TORQUE_MARGIN_LOW",
                               "PHYS_EFFICIENCY_LOW"}
                              \union {"risk_belt_stretch_margin_low",
                                 "risk_belt_reflected_inertia_high", "risk_screw_critical_speed_low",
                                 "risk_screw_buckling_margin_low", "risk_screw_efficiency_low",
                                 "risk_direct_drive_speed_margin_low",
                                 "risk_direct_drive_torque_margin_low",
                                 "risk_direct_drive_duty_margin_low"}
    [] type = "controls" -> {"PHYS_CONTROL_MOTION_PROFILE_INFEASIBLE",
                             "PHYS_CONTROL_MOTION_PROFILE_TIGHT",
                             "PHYS_CONTROL_TORQUE_SPEED_INVALID", "PHYS_CONTROL_HIGH_DUTY_CYCLE"}

\* Mutant: the table of the heat knows the codes named PHYS_ alone.
PassesNamed(row, type) ==
  ~ \E w \in row.warnings : w.code \in TableCodes(type) \ RiskCodes

PassesCheck(row, type) ==
  /\ ~ \E w \in row.warnings : w.code \in TableCodes(type)
  /\ type = "controls" => row.simulation
  /\ type = "drivetrain" => SpeedHeadroom(row.design, req) >= 0 /\ row.design.torque >= 0

\* Mutant: the number of warnings counts before the verdict.
RankByWarnings(row) ==
  << -Cardinality(row.warnings), IF row.passed THEN 1 ELSE 0, Min(ToSet(row.margins)) >> \o row.margins

SafetyRank(row) ==
  << IF row.passed THEN 1 ELSE 0, -Cardinality(row.warnings), Min(ToSet(row.margins)) >> \o row.margins

Below(r, s) ==
  \E k \in DOMAIN r : r[k] < s[k] /\ \A i \in 1..(k - 1) : r[i] = s[i]

\* The first of the rows with the greatest rank.
Safest(rows) ==
  CHOOSE i \in DOMAIN rows :
    /\ \A j \in DOMAIN rows : ~Below(SafetyRank(rows[i]), SafetyRank(rows[j]))
    /\ \A j \in DOMAIN rows : j < i => Below(SafetyRank(rows[j]), SafetyRank(rows[i]))

Summarized(rows) ==
  [rows |-> rows, safest |-> Safest(rows),
   passed |-> Cardinality({i \in DOMAIN rows : rows[i].passed}),
   tables |-> [i \in DOMAIN rows |->
                 [type \in ToSet(Categories) |-> PassesCheck(rows[i], type)]]]

Summary(power) == Summarized(Rows(power))

SafestRow(summary) == summary.rows[summary.safest]

-----------------------------------------------------------------------------
(***************************************************************************)
(* The script                                                              *)
(***************************************************************************)
Power(case) == IF case = "a" THEN PowerA ELSE PowerB

Init ==
  /\ \E d \in Designs, e \in Companions : catalog = <<d, e>>
  /\ req \in Requirements
  /\ pc = "done"
  /\ summaries = <<>>
  /\ files = [f \in ToSet(Files) |-> 0]
  /\ runs = 0

Start ==
  /\ pc = "done"
  /\ runs < MaxRuns
  /\ runs' = runs + 1
  /\ summaries' = <<>>
  /\ pc' = "case"
  /\ UNCHANGED <<catalog, req, files>>

\* The pipeline of the next case and its summary.
RunCase ==
  /\ pc = "case"
  /\ DOMAIN Rows(Power(Cases[Len(summaries) + 1])) # {}
  /\ summaries' = Append(summaries, Summary(Power(Cases[Len(summaries) + 1])))
  /\ pc' = Files[3 * Len(summaries) + 1]
  /\ UNCHANGED <<catalog, req, files, runs>>

\* Without a candidate the robustness of the pipeline raises.
NoCandidate ==
  /\ pc = "case"
  /\ DOMAIN Rows(Power(Cases[Len(summaries) + 1])) = {}
  /\ pc' = "done"
  /\ summaries' = <<>>
  /\ UNCHANGED <<catalog, req, files, runs>>

Position(f) == CHOOSE i \in DOMAIN Files : Files[i] = f

\* Mutant: one case too many.
AfterTooMany(f) ==
  CASE f \in {"a/summary", "b/summary"} -> "case"
    [] f = "HOW_WE_RAN_IT.md" -> "done"
    [] OTHER -> Files[Position(f) + 1]

\* Mutant: the comparison is written when the first case is.
AfterEarly(f) ==
  CASE f = "a/summary" -> "COMPARE.json"
    [] f = "PHYSICS_COMPARE.json" -> "case"
    [] f = "b/summary" -> "COMPARE.md"
    [] f = "HOW_WE_RAN_IT.md" -> "done"
    [] OTHER -> Files[Position(f) + 1]

After(f) ==
  CASE f = "a/summary" -> "case"
    [] f = "HOW_WE_RAN_IT.md" -> "done"
    [] OTHER -> Files[Position(f) + 1]

WriteFile ==
  /\ pc \in ToSet(Files)
  /\ files' = [files EXCEPT ![pc] = runs]
  /\ pc' = After(pc)
  /\ UNCHANGED <<catalog, req, summaries, runs>>

\* The process dies; a file it was writing may be left torn.
Die ==
  /\ pc # "done"
  /\ files' \in {files} \union {[files EXCEPT ![f] = -runs] : f \in ToSet(Files) \intersect {pc}}
  /\ pc' = "done"
  /\ summaries' = <<>>
  /\ UNCHANGED <<catalog, req, runs>>

Next == Start \/ RunCase \/ NoCandidate \/ WriteFile \/ Die

Spec == Init /\ [][Next]_vars

-----------------------------------------------------------------------------
(***************************************************************************)
(* Properties                                                              *)
(***************************************************************************)
\* The variables have their types.
TypeOK ==
  /\ ToSet(catalog) \subseteq Designs /\ Len(catalog) = 2
  /\ req \in Requirements
  /\ pc \in {"done", "case"} \union ToSet(Files)
  /\ Len(summaries) <= IF pc = "case" THEN 1 ELSE 2
  /\ \A s \in ToSet(summaries) : s.safest \in DOMAIN s.rows
  /\ files \in [ToSet(Files) -> (-MaxRuns)..MaxRuns]
  /\ runs \in 0..MaxRuns

\* Wherever the script dies, a file was never written, or torn, by an older run
\* than a file that comes after it; and before a file of the latest run all are
\* whole and of that run.  A comparison of an earlier run may lie beside cases
\* of a later one, but one of the latest run has its own cases beside it.
FilesInOrder ==
  \A i, j \in DOMAIN Files :
    i < j => LET before == files[Files[i]]
                 after == files[Files[j]]
             IN /\ after <= IF before < 0 THEN -before ELSE before
                /\ after = runs => before = runs

\* What the physics says of the designs does not depend on the script: it is
\* looked at before the first start.
Designed == IF runs = 0 THEN ToSet(catalog) ELSE {}

\* A verdict of "fail" comes with a flag that a reader of the candidate sees,
\* and every flag is one of the warnings; only failed checks make it "fail".
FailureIsFlagged ==
  \A d \in Designed :
    LET p == Evaluate(d, req)
    IN /\ p.status = "fail" => p.flags # {}
       /\ p.flags \subseteq p.warnings
       /\ p.status = "fail" <=> \E c \in p.checks : ~c.passed

\* The controls repeat what the drivetrain knows: they never fail alone.
ControlsFailWithDrivetrain ==
  \A d \in Designed :
    ~Controls(d, req).passed => ~Drivetrain(d, req).passed

\* What a reader of a candidate sees of its physics.
VerdictsAgree == FailureIsFlagged /\ ControlsFailWithDrivetrain

\* A longer duty cycle never leaves a greater thermal margin or less heat.
HeatGrowsWithDuty ==
  \A d \in Designed : \A r \in Requirements :
    r.root >= req.root =>
      LET now == ThermalResponse(d, req)
          longer == ThermalResponse(d, [req EXCEPT !.root = r.root])
      IN longer.margin <= now.margin /\ longer.rise >= now.rise

\* The tables of the heat and of the controls never show "pass" for a check
\* that failed.
TablesShowFailure ==
  \A s \in ToSet(summaries) : \A i \in DOMAIN s.rows :
    \A type \in s.rows[i].failed \intersect {"thermal", "controls"} : ~s.tables[i][type]

\* The safest candidate passes the physics if any candidate of its case does,
\* and tightening the constraints never makes the safest candidate safer.
SafestIsSafe ==
  /\ \A s \in ToSet(summaries) : s.passed > 0 => SafestRow(s).passed
  /\ Len(summaries) = 2 =>
       ~Below(SafetyRank(SafestRow(summaries[1])), SafetyRank(SafestRow(summaries[2])))

\* Candidates of both cases have the same physics in both: the deltas of the
\* comparison tell of the score alone, and case B adds no candidate.
SharedPhysicsUnchanged ==
  Len(summaries) = 2 =>
    \A r \in ToSet(summaries[2].rows) : r \in ToSet(summaries[1].rows)

\* What the comparison says of its two cases.
ComparisonIsSound == SafestIsSafe /\ SharedPhysicsUnchanged
=============================================================================

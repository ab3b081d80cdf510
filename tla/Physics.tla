------------------------------ MODULE Physics -------------------------------
(***************************************************************************)
(* The physics checks of packages/domain/physics: what                     *)
(* evaluate_candidate_physics says of one candidate under the functional   *)
(* targets of one requirement, with the thresholds of                      *)
(* engineering/policy/v1/scoring.yaml.  No state.                          *)
(*                                                                         *)
(* Everything is an integer: ratios and margins in percent, mm, mm/s, mNm, *)
(* W (losses in mW, temperature rises in hundred-thousandths of a degree), *)
(* masses of designs in 100 g.  Quotients are rounded down, so a value     *)
(* less than a unit from a threshold may lie on the other side of it than  *)
(* in the code; the temperature rise and the duty cycle are compared as    *)
(* they are, and deflection and stress, which must stay below a limit, are *)
(* rounded up.  A duty cycle is given by its root: duty = root * root /    *)
(* 100 percent, so that the RMS torque needs no root of its own.           *)
(*                                                                         *)
(* A requirement is [speed, travel, payload, root]; a design is a record   *)
(* with the fields that the definitions below read.                        *)
(***************************************************************************)
EXTENDS Integers, FiniteSets, FiniteSetsExt

\* What the catalog and _positive_float and _clamp of the checks guarantee: what
\* something is divided by is positive, an efficiency is at most 100 percent.
DesignTyped(d) ==
  /\ d.topology \in {"belt_axis", "ball_screw", "direct_drive"}
  /\ d.torque \in Int
  /\ {d.speed, d.mass, d.power, d.demand, d.radians, d.loss, d.resistance, d.rpm} \subseteq Nat
  /\ {d.driveResistance, d.quiescent} \subseteq Nat
  /\ {d.continuous, d.intermittent, d.allowable, d.drivePower, d.ratio, d.lead} \subseteq Nat \ {0}
  /\ {d.efficiency, d.driveEfficiency} \subseteq 1..100

\* The requirements looked at here: FunctionalTargets bounds the duty cycle, but a
\* quantity may have any sign and validate_requirement only remarks on it.
RequirementTyped(r) == r \in [speed : Nat, travel : Nat, payload : Nat, root : 0..100]

Duty(req) == (req.root * req.root) \div 100

DutyAbove(req, percent) == req.root * req.root > 100 * percent

RoundedUp(value, divisor) == (value + divisor - 1) \div divisor

Warn(condition, code, severity) ==
  IF condition THEN {[code |-> code, severity |-> severity]} ELSE {}

HasHigh(warnings) == \E w \in warnings : w.severity = "high"

Check(name, passed, warnings, margins) ==
  [name |-> name, passed |-> passed, warnings |-> warnings, margins |-> margins]

-----------------------------------------------------------------------------
(***************************************************************************)
(* Drivetrain, with the check of the topology (physics/checks)             *)
(***************************************************************************)
Belt(design, req) ==
  LET allowed == 2 * req.travel
      stretch == (Max({1, (req.payload * 981) \div 100}) * 1000) \div 25
      inertia == (req.payload * 1800000) \div (design.ratio * design.ratio)
      stretchMargin == ((allowed - stretch) * 100) \div Max({1, allowed})
      inertiaMargin == ((800 - inertia) * 100) \div 800
  IN [margins |-> {stretchMargin, inertiaMargin},
      warnings |-> Warn(stretchMargin < 10, "risk_belt_stretch_margin_low", "high")
                   \union Warn(inertiaMargin < 5, "risk_belt_reflected_inertia_high", "medium")]

\* What the travel, in mm, divides into the critical speed of a screw, and its
\* square, in cm2, into the load that buckles one.
CriticalSpeed == 4500000

BucklingLoad == 9830400

Screw(design, req) ==
  LET critical == CriticalSpeed \div Max({100, req.travel})
      operating == Min({(req.speed * 60) \div design.lead, design.rpm})
      euler == BucklingLoad \div Max({1, (req.travel \div 10) * (req.travel \div 10)})
      axial == Max({100, req.payload * 981})
      speedMargin == ((critical - operating) * 100) \div Max({1, critical})
      bucklingMargin == ((euler - axial) * 100) \div Max({1, euler})
      efficiencyMargin == ((design.efficiency - 75) * 100) \div 75
  IN [margins |-> {speedMargin, bucklingMargin, efficiencyMargin},
      warnings |-> Warn(speedMargin < 10, "risk_screw_critical_speed_low", "high")
                   \union Warn(bucklingMargin < 20, "risk_screw_buckling_margin_low", "high")
                   \union Warn(efficiencyMargin < 0, "risk_screw_efficiency_low", "medium")]

Direct(design, req) ==
  LET speedMargin == ((design.speed - req.speed) * 100) \div Max({1, req.speed})
      weighted == (60 * design.torque + 40 * speedMargin - 20 * Duty(req)) \div 100
  IN [margins |-> {speedMargin, design.torque, weighted},
      warnings |-> Warn(speedMargin < 5, "risk_direct_drive_speed_margin_low", "medium")
                   \union Warn(design.torque < 15, "risk_direct_drive_torque_margin_low", "high")
                   \union Warn(weighted < 0, "risk_direct_drive_duty_margin_low", "high")]

TopologyCheck(design, req) ==
  CASE design.topology = "belt_axis" -> Belt(design, req)
    [] design.topology = "ball_screw" -> Screw(design, req)
    [] design.topology = "direct_drive" -> Direct(design, req)

SpeedHeadroom(design, req) ==
  IF req.speed > 0 THEN ((design.speed - req.speed) * 100) \div req.speed ELSE 0

\* The mass is held against 12 kg, whatever the requirement allows.
Drivetrain(design, req) ==
  LET headroom == SpeedHeadroom(design, req)
      topology == TopologyCheck(design, req)
      warnings == Warn(headroom < 5, "PHYS_SPEED_HEADROOM_LOW", "medium")
                  \union Warn(design.torque < 15, "PHYS_TORQUE_MARGIN_LOW", "medium")
                  \union Warn(design.efficiency < 75, "PHYS_EFFICIENCY_LOW", "medium")
                  \union Warn(design.mass > 120, "PHYS_MASS_OVER_BUDGET", "high")
                  \union topology.warnings
  IN Check("drivetrain", headroom >= 0 /\ design.torque >= 0 /\ ~HasHigh(warnings), warnings,
           {headroom, design.torque, design.efficiency - 75} \union topology.margins)

-----------------------------------------------------------------------------
(***************************************************************************)
(* Thermal                                                                 *)
(***************************************************************************)
\* Mutant: the root of the duty cycle divides.
DividedTorque(design, req) == (design.demand * 100) \div Max({1, req.root})

RmsTorque(design, req) == (design.demand * req.root) \div 100

\* In the unit of a temperature rise: a loss in mW times hundredths of a degree
\* per W.
Degrees(n) == 100000 * n

\* estimate_thermal_response, down to the margins that count.
ThermalResponse(design, req) ==
  LET rms == RmsTorque(design, req)
      speedRatio == Min({150, (req.speed * 100) \div Max({1, design.speed})})
      output == (design.demand * ((design.radians * speedRatio) \div 100)) \div 1000
      rated == Max({(design.power * design.loss) \div 100,
                    (output * (100 - design.efficiency)) \div design.efficiency})
      load == (rms * 100) \div design.continuous
      motorLoss == (rated * 65 * load * load) \div 1000
                     + (rated * 35 * speedRatio * Duty(req)) \div 1000
      driveOutput == (output * 100) \div design.efficiency
      driveLoss == (((driveOutput * (100 - design.driveEfficiency) * 1000) \div design.driveEfficiency
                       + design.quiescent) * Duty(req)) \div 100
      rise == Max({motorLoss * design.resistance, driveLoss * design.driveResistance})
      continuous == ((design.continuous - rms) * 100) \div design.continuous
      intermittent == ((design.intermittent - design.demand) * 100) \div design.intermittent
      riseMargin == (Degrees(design.allowable) - rise) \div (1000 * design.allowable)
      driveMargin == ((design.drivePower - driveOutput) * 100) \div design.drivePower
  IN [rise |-> rise, drive |-> driveMargin,
      margin |-> Min({continuous, intermittent, riseMargin, driveMargin}),
      margins |-> {continuous, intermittent}]

ThermalCheck(t) ==
  LET warnings ==
        Warn(t.rise > Degrees(55), "PHYS_THERMAL_TEMP_RISE_HIGH", "high")
        \union Warn(t.rise > Degrees(45) /\ t.rise <= Degrees(55), "risk_thermal_temp_rise_near_limit", "medium")
        \union Warn(t.margin < 10, "risk_thermal_margin_low",
                    IF t.margin < 0 THEN "high" ELSE "medium")
        \union Warn(t.margin \in 10..19, "risk_thermal_margin_near_limit", "medium")
        \union Warn(t.drive < 5, "risk_drive_thermal_power_margin_low",
                    IF t.drive < 0 THEN "high" ELSE "medium")
  IN Check("thermal", ~HasHigh(warnings), warnings, {t.margin} \union t.margins)

Thermal(design, req) == ThermalCheck(ThermalResponse(design, req))

-----------------------------------------------------------------------------
(***************************************************************************)
(* Structural: a beam with a point load                                    *)
(***************************************************************************)
\* Stiffness and moment factors of the support condition.
Support(condition) ==
  CASE condition = "cantilever" -> [stiffness |-> 3, moment |-> 1]
    [] condition \in {"fixed", "fixed_fixed", "both_ends_fixed"} -> [stiffness |-> 192, moment |-> 8]
    [] OTHER -> [stiffness |-> 48, moment |-> 4]

\* E I = 5520 N m2, Z = 1.4e-6 m3 and 120 MPa, the defaults of the candidates;
\* the load carries the acceleration multiplier of 1.2.
BeamResponse(design, req) ==
  LET span == Max({1, req.travel \div 10})
      load == ((10 * req.payload + design.mass) * 11772) \div 10000
      deflection == RoundedUp(load * span * span * span,
                              Support(design.support).stiffness * 5520)
      stress == RoundedUp(load * span * 100, 140 * Support(design.support).moment)
  IN [deflection |-> deflection,
      deflectionMargin |-> ((500 - deflection) * 100) \div 500,
      stressMargin |-> ((12000 - stress) * 100) \div 12000,
      safety |-> IF stress > 0 THEN 1200000 \div stress ELSE 99900]

BeamCheck(b) ==
  LET margin == Min({b.deflectionMargin, b.stressMargin})
      warnings ==
        Warn(b.deflection > 500, "PHYS_STRUCTURAL_DEFLECTION_HIGH", "high")
        \union Warn(margin < 10, "risk_structural_margin_low",
                    IF margin < 0 THEN "high" ELSE "medium")
        \union Warn(b.safety < 150, "risk_structural_safety_low", "high")
  IN Check("structural", ~HasHigh(warnings), warnings,
           {margin, b.deflectionMargin, b.stressMargin})

Structural(design, req) == BeamCheck(BeamResponse(design, req))

-----------------------------------------------------------------------------
(***************************************************************************)
(* Controls, and the whole evaluation                                      *)
(***************************************************************************)
Controls(design, req) ==
  LET profile == ((design.speed - req.speed) * 100) \div Max({1, design.speed})
      warnings ==
        Warn(profile < 0, "PHYS_CONTROL_MOTION_PROFILE_INFEASIBLE", "high")
        \union Warn(profile \in 0..4, "PHYS_CONTROL_MOTION_PROFILE_TIGHT", "medium")
        \union Warn(design.torque < 0, "PHYS_CONTROL_TORQUE_SPEED_INVALID", "high")
        \union Warn(DutyAbove(req, 90), "PHYS_CONTROL_HIGH_DUTY_CYCLE", "medium")
  IN Check("controls", ~HasHigh(warnings), warnings,
           {profile, Min({design.torque, profile}), 100 - Duty(req)})

\* The codes of the warnings that are named risk_.
RiskCodes == {"risk_belt_stretch_margin_low", "risk_belt_reflected_inertia_high",
  "risk_screw_critical_speed_low", "risk_screw_buckling_margin_low", "risk_screw_efficiency_low",
  "risk_direct_drive_speed_margin_low", "risk_direct_drive_torque_margin_low",
  "risk_direct_drive_duty_margin_low", "risk_thermal_temp_rise_near_limit",
  "risk_thermal_margin_low", "risk_thermal_margin_near_limit",
  "risk_drive_thermal_power_margin_low", "risk_structural_margin_low", "risk_structural_safety_low"}

\* Mutant: only the codes named risk_ become flags.
NamedFlags(warnings) == {w \in warnings : w.code \in RiskCodes}

RiskFlags(warnings) == {w \in warnings : w.code \in RiskCodes \/ w.severity = "high"}

Merged(checks, warnings) ==
  [checks |-> checks,
   status |-> IF \E c \in checks : ~c.passed THEN "fail"
              ELSE IF warnings # {} THEN "warning" ELSE "pass",
   warnings |-> warnings,
   flags |-> RiskFlags(warnings)]

MergeChecks(checks) == Merged(checks, UNION {c.warnings : c \in checks})

\* evaluate_candidate_physics
Evaluate(design, req) ==
  MergeChecks({Drivetrain(design, req), Thermal(design, req), Structural(design, req),
               Controls(design, req)})
=============================================================================

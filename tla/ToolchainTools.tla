--------------------------- MODULE ToolchainTools ---------------------------
(***************************************************************************)
(* What the tools of the open-source toolchain compute for one candidate:  *)
(* the contracts OpenSourceToolchainAdapterV1 plans (adapters/toolchain/   *)
(* v1.py) and the outputs of the four runners (runners/*.py).  No state.   *)
(*                                                                         *)
(* Numbers are integers: ratios and margins in percent, masses in 10 g,    *)
(* lengths of the placeholder in 0.01 mm.  The facts of a candidate are    *)
(*   [torque, physics, mass, speed, efficiency, gear]                      *)
(* where physics is the set of its physics margins.                        *)
(***************************************************************************)
EXTENDS Integers, Sequences, FiniteSets, SequencesExt, FiniteSetsExt

(***************************************************************************)
(* The plan                                                                *)
(***************************************************************************)
AlwaysPlanned ==
  << <<"CadQuery", 1>>, <<"FreeCAD", 2>>, <<"CalculiX", 3>>, <<"OpenMDAO", 4>>,
     <<"ROS 2", 5>>, <<"OpenSCAD", 6>>, <<"BESO", 7>> >>

\* cq_gears is inserted behind CadQuery for a geared drive, and kept as a
\* contract that does not apply for any other.
ToolRuns(facts) ==
  (IF facts.gear THEN InsertAt(AlwaysPlanned, 2, <<"cq_gears", 2>>)
                 ELSE Append(AlwaysPlanned, <<"cq_gears", 8>>))
    \o << <<"Blender", 9>>, <<"Zoo", 10>> >>

Planned(facts) == {r[1] : r \in ToSet(ToolRuns(facts))}

HandoffOrder(facts) ==
  LET Rank(i) == 100 * ToolRuns(facts)[i][2] + i
      runs == DOMAIN ToolRuns(facts)
  IN [k \in runs |->
        ToolRuns(facts)[CHOOSE i \in runs :
                          Cardinality({j \in runs : Rank(j) <= Rank(i)}) = k][1]]

(***************************************************************************)
(* CadQuery: a block scaled by the mass, one pad for each component, and   *)
(* the triangles of the block.  The requirement has no envelope section,   *)
(* so the dimensions are always the defaults.                              *)
(***************************************************************************)
Envelope(mass) ==
  LET scale == Max({100, Min({300, mass \div 2})})
  IN [length |-> 120 * scale, width |-> 45 * scale, height |-> 25 * scale]

Components == <<"drive", "motor", "transmission">>

Pads(envelope) ==
  LET n == Len(Components) IN
  [i \in 1..n |-> [center |-> i * (envelope.length \div (n + 1)),
                   size |-> Min({2800, envelope.length \div (n + 2)})]]

\* The facets of the STL file, the same for every candidate.
Triangles ==
  << <<0, 1, 2>>, <<0, 2, 3>>, <<4, 6, 5>>, <<4, 7, 6>>, <<0, 4, 5>>, <<0, 5, 1>>,
     <<1, 5, 6>>, <<1, 6, 2>>, <<2, 6, 7>>, <<2, 7, 3>>, <<3, 7, 4>>, <<3, 4, 0>> >>

Placeholder(facts) ==
  LET envelope == Envelope(facts.mass)
  IN [envelope |-> envelope, pads |-> Pads(envelope)]

(***************************************************************************)
(* FreeCAD: where the geometry of the assembly comes from, if from         *)
(* anywhere.  upstream maps the tools that ran before in the same request  *)
(* to the names of the artifacts they recorded.                            *)
(***************************************************************************)
From(upstream, tool, name) ==
  IF tool \in DOMAIN upstream /\ name \in upstream[tool] THEN <<tool, name>> ELSE <<>>

AssemblyGeometry(upstream) == From(upstream, "CadQuery", "step")

(***************************************************************************)
(* CalculiX / Code_Aster: geometry and margins.  The only load case of a   *)
(* contract is the payload under gravity, which names no margin and no     *)
(* deflection, so the deflection margin is the torque margin, clamped.     *)
(***************************************************************************)
SolverGeometry(upstream) ==
  LET sources == << From(upstream, "FreeCAD", "assembly_checks"),
                    From(upstream, "FreeCAD", "drawing_handoff"),
                    From(upstream, "CadQuery", "step") >>
      known == {i \in DOMAIN sources : sources[i] # <<>>}
  IN IF known = {} THEN <<>> ELSE sources[Min(known)]

DeflectionMargin(facts) == Max({0, Min({100, facts.torque})})

\* Mutant: the report looks at the torque margin alone.
TorqueReport(facts) ==
  [stress |-> facts.torque, deflection |-> DeflectionMargin(facts),
   status |-> IF facts.torque >= 0 THEN "pass" ELSE "review"]

MarginReport(facts) ==
  LET stress == Min(facts.physics \union {facts.torque})
      deflection == DeflectionMargin(facts)
  IN [stress |-> stress, deflection |-> deflection,
      status |-> IF stress >= 0 /\ deflection >= 0 THEN "pass" ELSE "review"]

(***************************************************************************)
(* OpenMDAO: three points around the candidate and their Pareto front.     *)
(* The contract has its sweep factors under design_variables, where the    *)
(* runner does not look, so they are always the default ones.              *)
(***************************************************************************)
SweepFactors == {85, 100, 115}

\* A torque margin of zero is falsy and reads as the default.
SweepPoint(facts, factor) ==
  LET off == Max({factor - 100, 100 - factor})
      up == Max({0, factor - 100})
      torque == IF facts.torque = 0 THEN 25 ELSE facts.torque
  IN [factor |-> factor,
      speed |-> facts.speed * factor,
      mass |-> facts.mass * (10000 + (factor - 100) * 35),
      efficiency |-> Max({0, Min({10000, facts.efficiency * 100 - 5 * off})}),
      risk |-> 100 * off + up * Max({0, 50 - torque})]

NoWorse(p, q) == /\ p.speed >= q.speed
                 /\ p.efficiency >= q.efficiency
                 /\ p.mass <= q.mass
                 /\ p.risk <= q.risk

Dominates(p, q) == NoWorse(p, q) /\ ~NoWorse(q, p)

ParetoFront(facts) ==
  LET points == {SweepPoint(facts, f) : f \in SweepFactors}
  IN {p \in points : \A q \in points : ~Dominates(q, p)}

=============================================================================

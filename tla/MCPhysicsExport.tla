-------------------------- MODULE MCPhysicsExport ---------------------------
(***************************************************************************)
(* TLC instance of PhysicsExport: catalogs of two designs, the first from  *)
(* a grid over topology, speed and torque or over topology, mass and       *)
(* thermal rating, the second one of three, for a light payload on a short *)
(* axis and a heavy one on a long axis, and two duty cycles.               *)
(***************************************************************************)
EXTENDS PhysicsExport

\* The ratings of a motor and its drive: ample, tight, and too small.
Ratings ==
  { [power |-> 220, demand |-> 300, continuous |-> 480, intermittent |-> 750, drivePower |-> 300,
     driveResistance |-> 135, quiescent |-> 4000],
    [power |-> 600, demand |-> 420, continuous |-> 400, intermittent |-> 450, drivePower |-> 600,
     driveResistance |-> 105, quiescent |-> 6000],
    [power |-> 120, demand |-> 480, continuous |-> 300, intermittent |-> 450, drivePower |-> 110,
     driveResistance |-> 160, quiescent |-> 3000] }

Design(topology, speed, torque, mass, rating) ==
  [topology |-> topology, speed |-> speed, torque |-> torque, efficiency |-> 72 + torque \div 2,
   mass |-> mass, power |-> rating.power, demand |-> rating.demand,
   continuous |-> rating.continuous, intermittent |-> rating.intermittent,
   radians |-> 300, loss |-> 16, resistance |-> 140, allowable |-> 65,
   drivePower |-> rating.drivePower, driveEfficiency |-> 94,
   driveResistance |-> rating.driveResistance, quiescent |-> rating.quiescent,
   ratio |-> 200, lead |-> 10, rpm |-> 4200, support |-> "simply_supported"]

Ample == CHOOSE r \in Ratings : r.power = 220
Tight == CHOOSE r \in Ratings : r.power = 600

MCCompanions ==
  {Design("belt_axis", 900, 40, 22, Tight), Design("direct_drive", 610, 40, 22, Ample),
   Design("ball_screw", 580, 8, 22, Ample)}

MCDesigns ==
  {Design(t, s, q, 22, Ample) :
     t \in {"belt_axis", "ball_screw", "direct_drive"}, s \in {580, 610, 900}, q \in {-4, 8, 40}}
  \union {Design(t, 900, 40, m, r) :
     t \in {"belt_axis", "ball_screw", "direct_drive"}, m \in {22, 125}, r \in Ratings}
  \union MCCompanions

MCRequirements ==
  {[speed |-> 600, travel |-> axis[1], payload |-> axis[2], root |-> r] :
     axis \in {<<200, 2>>, <<800, 12>>}, r \in {70, 100}}
=============================================================================

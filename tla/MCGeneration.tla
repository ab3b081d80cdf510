---------------------------- MODULE MCGeneration ----------------------------
(***************************************************************************)
(* TLC instance of Generation: a part of the catalog, two samples, and     *)
(* requests that differ in what they select, in their targets and in their *)
(* weights.                                                                *)
(***************************************************************************)
EXTENDS Generation, TLC

Turns(power, rpm, torque, mass, cost, lifecycle) ==
    [power |-> power, rpm |-> rpm, torque |-> torque, mass |-> mass, cost |-> cost,
     lifecycle |-> lifecycle, lead |-> 21, single |-> FALSE, preferred |-> FALSE, efficiency |-> 93]

MCCatalog ==
    [motors |-> << Turns(120, 2500, 450, 8, 110, "active"), Turns(400, 3500, 1400, 18, 240, "eol") >>,
     drives |-> << [power |-> 300, efficiency |-> 96, mass |-> 7, cost |-> 120],
                   [power |-> 800, efficiency |-> 96, mass |-> 11, cost |-> 210] >>,
     transmissions |-> << [ratio |-> 100, torque |-> 600, efficiency |-> 92, mass |-> 6, cost |-> 70],
                          [ratio |-> 150, torque |-> 2500, efficiency |-> 88, mass |-> 13, cost |-> 145] >>,
     screws |-> << [lead |-> 10, efficiency |-> 88, mass |-> 14, cost |-> 180] >>,
     direct |-> << Turns(180, 180, 5000, 21, 900, "active") >>]

Of(value, unit) == [value |-> value, unit |-> unit]

Plain == [travel |-> Of(800, "mm"), speed |-> Of(500, "mm/s"), payload |-> Of(2, "kg"), root |-> 80,
          power |-> 400, allowed |-> {}, excluded |-> {}, async |-> FALSE,
          objective |-> "balanced", priorities |-> <<25, 25, 20, 30>>]

\* Two topologies and a typo, a job, a selection that leaves nothing, and a
\* unit nobody knows.
MCRequests ==
    { [Plain EXCEPT !.allowed = {"belt_axis", "direct_drive", "hexapod"}, !.excluded = {"direct_drive"}],
      [Plain EXCEPT !.payload = Of(9000, "g"), !.power = 0, !.async = TRUE,
                    !.excluded = {"ball_screw"}, !.priorities = <<10, 42, 10, 38>>],
      [Plain EXCEPT !.travel = Of(3, "m"), !.excluded = {"belt_axis", "direct_drive"}],
      [Plain EXCEPT !.objective = "lowest_cost", !.priorities = <<60, 5, 15, 20>>],
      [Plain EXCEPT !.travel = Of(30, "in")] }

Symmetry == Permutations(Threads)

MCNoise == <<-8, 8, 8, -6, 8, -7, -8, 6, 0>>
=============================================================================

-------------------------- MODULE MCRecalibration ---------------------------
(***************************************************************************)
(* TLC instance of Recalibration: telemetry at which each clamp bites on   *)
(* either side, one in the middle, too small a sample, and no benchmark.   *)
(***************************************************************************)
EXTENDS Recalibration, TLC

Averages(lead, risk, margin, efficiency, samples, benchmarks) ==
    [lead |-> lead, risk |-> risk, margin |-> margin, efficiency |-> efficiency,
     samples |-> samples, benchmarks |-> benchmarks]

MCTelemetry ==
    { Averages(2, 1000, 2000, 9000, 30, 5),        \* ordinary
      Averages(60, 20000, 10000, 3000, 9000, 5),   \* everything out of hand
      Averages(0, 0, -6000, 10000, 30, 5),         \* margins far below zero
      Averages(2, 20000, 4000, 9000, 30, 5),       \* many missed risks
      Averages(2, 1000, 2000, 9000, 10, 5),        \* too few samples
      Averages(2, 1000, 2000, 9000, 30, 0) }       \* no benchmark

Symmetry == Permutations(Schedulers) \cup Permutations(Approvers)
=============================================================================

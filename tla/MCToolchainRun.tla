--------------------------- MODULE MCToolchainRun ---------------------------
(***************************************************************************)
(* TLC instance of ToolchainRun: two candidates of one job, one of them    *)
(* with a negative physics margin and no torque to spare, and requests in  *)
(* the planned order, against it, with a repeated name, with a tool that   *)
(* has no runner and with a name nobody knows.                             *)
(***************************************************************************)
EXTENDS ToolchainRun

CONSTANTS c1, c2

MCFactsOf ==
  c1 :> [torque |-> 0, physics |-> {-20, 30}, mass |-> 150, speed |-> 75,
         efficiency |-> 83, gear |-> FALSE]
  @@ c2 :> [torque |-> 60, physics |-> {5, 45}, mass |-> 420, speed |-> 40,
            efficiency |-> 79, gear |-> FALSE]

MCInstallations == {{"CalculiX"}, Optional}

MCRequests == { SelectSeq(HandoffOrder(MCFactsOf[c1]), LAMBDA t : t \in SupportedTools),
                <<"CalculiX", "FreeCAD", "CalculiX">>,
                <<"ROS 2", "unknown">> }

Symmetry == Permutations(Handlers)
=============================================================================

---------------------------- MODULE MCBenchmark ----------------------------
(* A finite instance of Benchmark.                                         *)
EXTENDS Benchmark

(* Last comes the scenario that the one with the mirror may disturb.       *)
AllScenarios == <<"s-ref", "s-dw", "s0-control">>

(* The ramp's own steps are Coordinator's runs'; here it goes straight to  *)
(* holding.                                                                *)
NoSteps == <<>>
=============================================================================

-------------------------- MODULE MCBenchmarkSweeps --------------------------
(* Small instances of BenchmarkSweeps. *)
EXTENDS BenchmarkSweeps, TLC
=============================================================================

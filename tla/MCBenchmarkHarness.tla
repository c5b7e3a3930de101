------------------------- MODULE MCBenchmarkHarness -------------------------
(* BenchmarkHarness with a few directories; sizes are in the configurations. *)
EXTENDS BenchmarkHarness

CONSTANTS n0, n1, p0   \* two directories on nvme, one on pmem

MCMounts == {n0, n1, p0}
MCMountLists == <<<<n0, n1>>, <<p0>>>>
MCThreadCounts == <<1, 2>>
=============================================================================

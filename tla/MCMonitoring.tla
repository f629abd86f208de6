---------------------------- MODULE MCMonitoring ----------------------------
(* Monitoring on a small instance: every futex call, a junk address, and   *)
(* threads that die at any point.                                          *)
EXTENDS Monitoring, TLC

Symmetry == Permutations(Threads) \cup Permutations(Addrs \ JunkAddrs)

=============================================================================

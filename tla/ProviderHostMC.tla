--------------------------- MODULE ProviderHostMC ---------------------------
(* Small instance of ProviderHost: a memory that two requests and a probe     *)
(* overflow, clocks that are off by all that is tolerated, a second process.  *)
EXTENDS ProviderHost, TLC

Symmetric == Permutations(Requests) \cup Permutations(Hosts)
=============================================================================

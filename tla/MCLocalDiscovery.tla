-------------------------- MODULE MCLocalDiscovery --------------------------
(* TLC instances of LocalDiscovery: two directories. *)
EXTENDS LocalDiscovery, TLC

CONSTANTS a, b

MCPaths == {a, b}
MCSymmetry == Permutations(MCPaths)

CalmOrNot == {{}, Circumstances}
=============================================================================

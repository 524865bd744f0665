---------------------------- MODULE MC_CommandQueue ----------------------------
(* Two client threads, three commands of two chunks each.                  *)
EXTENDS CommandQueue, TLC

CONSTANTS c1, c2

MCClients == {c1, c2}
ClientSymmetry == Permutations(MCClients)
=============================================================================

---------------------------- MODULE MC_KeyManager ----------------------------
(* Two key pairs, so that a second generation is possible, and two TLS    *)
(* credentials, so that a stored credential can change.                   *)
EXTENDS KeyManager, TLC

CONSTANTS k1, k2, a, b

MCKeys == {k1, k2}
MCCreds == {a, b}

KeySymmetry == Permutations(MCKeys) \cup Permutations(MCCreds)
====

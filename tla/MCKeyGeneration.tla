-------------------------- MODULE MCKeyGeneration --------------------------
(***************************************************************************)
(* Key generation with duplicated events, crashes, forks and a chain node  *)
(* that comes and goes.                                                    *)
(***************************************************************************)
EXTENDS KeyGeneration, TLC

CONSTANTS h1, h2, key1, key2

MCHandlers == {h1, h2}

MCKeys == {key1, key2}

\* Handlers run the same code, and no key is special.
MCSymmetry == Permutations(MCHandlers) \cup Permutations(MCKeys)
=============================================================================

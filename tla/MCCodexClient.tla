--------------------------- MODULE MCCodexClient ---------------------------
(* Small instances of CodexClient for TLC. *)
EXTENDS CodexClient, TLC

IdSymmetry == Permutations(Threads) \cup Permutations(Turns)
=============================================================================

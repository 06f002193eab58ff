------------------------- MODULE MCDeferredAnswers -------------------------
(* Small instances of DeferredAnswers for TLC. *)
EXTENDS DeferredAnswers, TLC

RequestSymmetry == Permutations(Requests) \cup Permutations(Users)
=============================================================================

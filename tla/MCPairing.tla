----------------------------- MODULE MCPairing -----------------------------
(* Small instances of Pairing for TLC. *)
EXTENDS Pairing, TLC

IdSymmetry ==
    UNION {Permutations(S) : S \in {Houses, Users, Apps, Codes, Calls, Approvals}}
=============================================================================

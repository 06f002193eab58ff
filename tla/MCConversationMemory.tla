------------------------ MODULE MCConversationMemory ------------------------
(* Small instances of ConversationMemory for TLC. *)
EXTENDS ConversationMemory, TLC

ExchangeSymmetry == Permutations(Exchanges)
=============================================================================

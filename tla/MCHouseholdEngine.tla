------------------------- MODULE MCHouseholdEngine -------------------------
(* Small instances of HouseholdEngine for TLC. *)
EXTENDS HouseholdEngine, TLC

CONSTANTS h1, a1, a2, a3, r1, r2, r3, r4

\* Two surfaces of one house.
OneHouse == (a1 :> h1) @@ (a2 :> h1)
\* One surface of one house.
OneSurface == (a1 :> h1)
\* Two surfaces of a house, and one that is not bound.
Unbound == (a1 :> h1) @@ (a2 :> h1) @@ (a3 :> None)

Input(u, s) == [utterance |-> u, session |-> s]

\* An utterance only.
Questions == {Input("ask", "old")}
\* A question, a refusal, or a silence that makes the bridge ask again.
Hesitation == {Input("ask", "old"), Input("stop", "old"), Input("silent", "new")}
\* One input for every way respond tells utterances apart.
EveryInput == {Input("ask", "old"), Input("stop", "old"), Input("silent", "new"),
               Input("silent", "old"), Input("marks", "new")}

\* Requests are alike, and so are the surfaces when they are bound to one house.
CallSymmetry == Permutations(Requests) \cup Permutations(Apps)
=============================================================================

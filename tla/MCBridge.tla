------------------------------ MODULE MCBridge ------------------------------
(* A small instance of Bridge for TLC. *)
EXTENDS Bridge

CONSTANTS c1, c2, c3

\* The question after a chunk ends with a mark, like the one in the code.
Question == <<" ", ".">>

\* The words of the utterances below; "Eto", "vsyo" and "pomosch!" are heard
\* before normalization; "skazku-pochemu" is two words after it, "..." none.
Plain == {"eto", "masha", "misha", "zabud", "vse", "skolko", "potratili", "kto", "ya", "vyidi", "iz",
          "rezhima", "pomosch", "pomni", "poslednie", "9", "replik", "umnuyu", "model", "na", "smeni",
          "bystruyu", "pereklyuchis", "podumai", "kak", "sleduet", "rasskazhi", "skazku", "pochemu"}
Heard == ("Eto" :> <<"eto">>) @@ ("vsyo" :> <<"vse">>) @@ ("pomosch!" :> <<"pomosch">>)
             @@ ("skazku-pochemu" :> <<"skazku", "pochemu">>) @@ ("..." :> <<>>)

AllWords  == Plain \cup DOMAIN Heard
NormalOf  == [w \in Plain |-> <<w>>] @@ Heard
Digits    == ("9" :> 9)

Family    == <<[name |-> "Masha", called |-> {<<"masha">>}],
               [name |-> "Misha", called |-> {<<"misha">>, <<"masha">>}]>>
Tales     == <<[name |-> "tale", triggers |-> {<<"rasskazhi", "skazku">>, <<"...">>}]>>

Said == {<<"...">>,
         <<"Eto", "misha">>, <<"eto", "masha">>,
         <<"zabud", "vsyo">>, <<"pomni", "poslednie", "9", "replik">>,
         <<"skolko", "potratili">>, <<"kto", "ya">>, <<"vyidi", "iz", "rezhima">>, <<"pomosch!">>,
         <<"pereklyuchis", "na", "umnuyu", "model">>, <<"smeni", "model", "na", "bystruyu">>,
         <<"podumai", "kak", "sleduet", "zabud", "vsyo">>,
         <<"rasskazhi", "skazku-pochemu">>,
         <<"pochemu">>}

\* A member of the family says any of these; others ask, are greeted, are
\* strangers, or do not know the secret.
SomeRequests ==
    {Call(TRUE, "u1", FALSE, words) : words \in Said}
    \cup {Call(TRUE, "u1", TRUE, <<>>), Call(TRUE, Nobody, FALSE, <<"pochemu">>),
          Call(TRUE, "u2", TRUE, <<"pochemu">>), Call(FALSE, "u1", FALSE, <<"pochemu">>)}

\* A household file, a legacy file, and what differs from one of them in one
\* field.
Household == [mode |-> "household", socket |-> "absolute", cwdRoot |-> "absolute", chunkLimit |-> 5,
              prefix |-> "valid", providers |-> {"p"}, fast |-> "p", smart |-> "p",
              default |-> "Masha", profiles |-> [Masha |-> "adult", Misha |-> "child"],
              allowed |-> {"u1"}]
Legacy    == [Household EXCEPT !.mode = "legacy", !.socket = "none", !.cwdRoot = "none"]

Near(f) ==
    {[f EXCEPT !.chunkLimit = n] : n \in 0..8}
    \cup {[f EXCEPT !.socket = p] : p \in Paths} \cup {[f EXCEPT !.cwdRoot = p] : p \in Paths}
    \cup {[f EXCEPT !.prefix = p] : p \in {"empty", "invalid"}}
    \cup {[f EXCEPT !.fast = "q"], [f EXCEPT !.smart = "q"], [f EXCEPT !.default = "Nobody"],
          [f EXCEPT !.profiles = [Masha |-> "other"]]}

SomeFiles == Near(Household) \cup Near(Legacy)

\* Every text of up to five characters without an ellipsis, and some longer.
SomeAnswers == BoundedSeq(Characters \ {"e"}, 5)
                   \cup {<<"a", "e", "a", " ", "a", "e">>, <<"a", "n", "n", "a", " ", "a">>,
                         <<"a", "a", ".", "a", "a", "a", "a">>, <<" ", "a", "a", "a", " ", " ", "a">>}
\* Completions that fit, and ones that are clipped at a mark, at a space, in
\* leading space, and in the middle of a word.
SomeCompletions ==
    {<<"a">>,
     <<"a", ".", "a", " ", "a", "a", "a", "a", "a">>, <<"a", "a", " ", " ", "a", "a", "a", "a", "a">>,
     <<" ", "a", "a", "a", "a", "a", "a", "a", "a">>, <<"a", "a", "a", "a", "a", "a", "a", "a", "a">>}

CallSymmetry == Permutations(Calls)
=============================================================================

--------------------------- MODULE CommandParser ---------------------------
(***************************************************************************)
(* Which utterances are commands: normalize and parse of                   *)
(* crates/bridge-core/src/command.rs, and the roster they look names up in *)
(* (profile.rs).                                                           *)
(*                                                                         *)
(* An utterance is a sequence of words, transliterated here.  Phrases are  *)
(* matched as whole words: a phrase the code finds at the beginning or     *)
(* inside of a longer word is not told from the phrase itself.             *)
(***************************************************************************)
EXTENDS Naturals, Sequences, SequencesExt

CONSTANTS
    Words,      \* what may be heard as one word
    Normal,     \* Normal[w]: the words normalize makes of w
    Numerals,   \* Numerals[w]: the number a word of digits spells
    Roster,     \* sequence of profiles: name, and what it may be called
    Modes       \* sequence of modes: name, and triggers

ASSUME WordsAssumption ==
    /\ Normal \in [Words -> Seq(Words)]
    /\ DOMAIN Numerals \subseteq Words
    /\ \A i \in DOMAIN Roster : Roster[i].called \subseteq Seq(Words)
    /\ \A i \in DOMAIN Modes : Modes[i].triggers \subseteq Seq(Words)

ProfileNames == {Roster[i].name : i \in DOMAIN Roster}
ModeNames    == {Modes[i].name : i \in DOMAIN Modes}

----------------------------------------------------------------------------
Introductions == {<<"eto">>, <<"ya">>, <<"menya", "zovut">>, <<"govorit">>}
ForgetPhrases == {<<"zabud">>, <<"zabud", "vse">>, <<"sbros", "kontekst">>, <<"nachni", "snachala">>}
UsagePhrases  == {<<"skolko", "potratili">>, <<"skolko", "my", "potratili">>,
                  <<"statistika">>, <<"rashody">>}
WhoPhrases    == {<<"kto", "ya">>, <<"s", "kem", "ty", "govorish">>}
ExitPhrases   == {<<"hvatit">>, <<"vyidi", "iz", "rezhima">>, <<"obychny", "rezhim">>}
HelpPhrases   == {<<"pomosch">>, <<"spravka">>, <<"chto", "ty", "umeesh">>}
WindowPhrases == {<<"pomni", "poslednie">>, <<"zapominai", "poslednie">>}
SmartPhrases  == {<<"umnuyu", "model">>, <<"umnaya", "model">>}
FastPhrases   == {<<"bystruyu", "model">>, <<"bystraya", "model">>, <<"model", "na", "bystruyu">>}
HardPhrases   == {<<"podumai", "kak", "sleduet">>, <<"podumai", "horoshenko">>, <<"podumai", "krepko">>}

\* Mutant of Normalize: what was heard is compared as it is.
NormalizeNot(utterance) == utterance

\* normalize: lower case, "yo" folded to "e", punctuation gone, words apart.
Normalize(utterance) == FlattenSeq([i \in DOMAIN utterance |-> Normal[utterance[i]]])

StartsWith(norm, phrases) == \E phrase \in phrases : IsPrefix(phrase, norm)

Mentions(norm, phrases) ==
    \E phrase \in phrases : \E i \in 0..Len(norm) - Len(phrase) :
        SubSeq(norm, i + 1, i + Len(phrase)) = phrase

\* The first element of a sequence that is in a set of positions.
First(positions) == CHOOSE i \in positions : \A j \in positions : i <= j

\* find_by_alias: the profiles, in the order of the roster, called like this.
CalledLike(spoken) == {i \in DOMAIN Roster : spoken \in Roster[i].called}

\* The profiles an utterance introduces.
Introduced(norm) ==
    UNION {CalledLike(SubSeq(norm, Len(p) + 1, Len(norm))) :
              p \in {q \in Introductions : IsStrictPrefix(q, norm)}}

\* The modes an utterance triggers.
Triggered(norm) ==
    {i \in DOMAIN Modes : \E t \in Modes[i].triggers :
        Normalize(t) # <<>> /\ IsPrefix(Normalize(t), norm)}

NumbersIn(norm) == {i \in DOMAIN norm : norm[i] \in DOMAIN Numerals}

\* What follows the phrase that asks to think hard.
HardQuestion(norm) ==
    LET phrase == CHOOSE p \in HardPhrases : IsPrefix(p, norm)
    IN  SubSeq(norm, Len(phrase) + 1, Len(norm))

\* The rules of parse: when one applies, and the command it names.
Rules(norm) == <<
    <<norm = <<>>,                   "help">>,
    <<Introduced(norm) # {},         "introduce">>,
    <<norm \in ForgetPhrases,        "forget">>,
    <<norm \in UsagePhrases,         "usage">>,
    <<norm \in WhoPhrases,           "who">>,
    <<norm \in ExitPhrases,          "exit">>,
    <<norm \in HelpPhrases,          "help">>,
    <<StartsWith(norm, WindowPhrases) /\ NumbersIn(norm) # {}, "window">>,
    <<Mentions(norm, SmartPhrases),  "smart">>,
    <<Mentions(norm, FastPhrases),   "fast">>,
    <<Triggered(norm) # {},          "enter">>,
    <<StartsWith(norm, HardPhrases), "askHard">>,
    <<TRUE,                          "ask">> >>

\* parse: the first rule that applies.  The text is for a question: the phrase
\* that asks to think hard is not part of it, unless nothing follows.
Parse(utterance) ==
    LET norm  == Normalize(utterance)
        rules == Rules(norm)
        kind  == rules[First({i \in DOMAIN rules : rules[i][1]})][2]
    IN  [kind   |-> kind,
         name   |-> CASE kind = "introduce" -> Roster[First(Introduced(norm))].name
                      [] kind = "enter"     -> Modes[First(Triggered(norm))].name
                      [] OTHER              -> "",
         text   |-> IF kind = "askHard" /\ HardQuestion(norm) # <<>> THEN HardQuestion(norm) ELSE utterance,
         number |-> IF kind = "window" THEN Numerals[norm[First(NumbersIn(norm))]] ELSE 0]
=============================================================================

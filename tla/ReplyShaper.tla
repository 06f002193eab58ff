---------------------------- MODULE ReplyShaper ----------------------------
(***************************************************************************)
(* Where a reply is cut: ReplyShaper::split of crates/bridge-core/src/     *)
(* reply.rs, which cuts a long answer of a house into chunks, and          *)
(* clip_to_limit of crates/alice-protocol/src/response.rs, which every     *)
(* reply passes on its way to Alice.                                       *)
(*                                                                         *)
(* A text is a sequence of characters; the functions tell five classes of  *)
(* them apart: "." ends a sentence, "e" is the ellipsis, "n" the newline,  *)
(* " " any other whitespace, "a" anything else.                            *)
(***************************************************************************)
EXTENDS Naturals, Sequences

CONSTANTS
    Suffix,       \* CONTINUATION_SUFFIX, the question after a chunk
    MaxTextLen    \* MAX_TEXT_LEN, the longest text Alice accepts

Characters == {"a", ".", "e", " ", "n"}
Whitespace == {" ", "n"}

ASSUME SuffixAssumption     == Suffix \in Seq(Characters)
ASSUME MaxTextLenAssumption == MaxTextLen \in Nat \ {0}

\* The greatest of a set of positions, 0 when there is none.
Latest(positions) ==
    IF positions = {} THEN 0 ELSE CHOOSE i \in positions : \A j \in positions : j <= i

Prefix(text, n) == SubSeq(text, 1, n)
Drop(text, n)   == SubSeq(text, n + 1, Len(text))

\* How much of a prefix to speak: to the end of the last paragraph, else of
\* the last sentence, else up to the last whitespace that is not the first
\* character, else all of it.
PreferredSplit(prefix) ==
    LET paragraphs == {i \in 2..Len(prefix) : prefix[i - 1] = "n" /\ prefix[i] = "n"}
        sentences  == {i \in 1..Len(prefix) : prefix[i] \in {".", "e"}}
        gaps       == {i \in 1..Len(prefix) - 1 : prefix[i + 1] \in Whitespace}
    IN  CASE paragraphs # {} -> Latest(paragraphs)
          [] paragraphs = {} /\ sentences # {} -> Latest(sentences)
          [] paragraphs = {} /\ sentences = {} /\ gaps # {} -> Latest(gaps)
          [] OTHER -> Len(prefix)

\* Mutant of SplitIntoChunks: a chunk does not begin with whitespace.
SplitIntoChunksTrimmed(text, limit) ==
    LET chunksFrom[n \in 0..Len(text)] ==
            LET rest == Drop(text, n)
                cut  == PreferredSplit(Prefix(rest, limit))
                skip == IF Drop(rest, cut)[1] \in Whitespace THEN 1 ELSE 0
            IN  IF Len(rest) > limit THEN <<Prefix(rest, cut)>> \o chunksFrom[n + cut + skip]
                                     ELSE <<rest>>
    IN  chunksFrom[0]

\* The chunks of a text, from the left; an empty text is one empty chunk.
SplitIntoChunks(text, limit) ==
    LET chunksFrom[n \in 0..Len(text)] ==
            LET rest == Drop(text, n)
                cut  == PreferredSplit(Prefix(rest, limit))
            IN  IF Len(rest) > limit THEN <<Prefix(rest, cut)>> \o chunksFrom[n + cut]
                                     ELSE <<rest>>
    IN  chunksFrom[0]

\* Mutant of Split: only the chunk that is spoken makes room for the question.
SplitRoomForSpoken(text, limit) ==
    LET first == SplitIntoChunks(text, limit - Len(Suffix))[1]
        rest  == Drop(text, Len(first))
    IN  IF rest = <<>> THEN [spoken |-> first, remaining |-> <<>>]
        ELSE [spoken |-> first \o Suffix, remaining |-> SplitIntoChunks(rest, limit)]

\* ReplyShaper::split: the first chunk is spoken, with a question when there
\* are more.
Split(text, limit) ==
    LET chunks == SplitIntoChunks(text, limit - Len(Suffix))
    IN  [spoken    |-> IF Len(chunks) = 1 THEN chunks[1] ELSE chunks[1] \o Suffix,
         remaining |-> Tail(chunks)]

TrimEnd(text) == Prefix(text, Latest({i \in 1..Len(text) : text[i] \notin Whitespace}))

\* Mutant of ClipToLimit: the ellipsis is added to a full text.
ClipToLimitEllipsis(text) ==
    IF Len(text) <= MaxTextLen THEN text ELSE Append(Prefix(text, MaxTextLen), "e")

\* clip_to_limit: a text that is too long ends with a sentence, else before a
\* whitespace and with an ellipsis, else anywhere.
ClipToLimit(text) ==
    LET cut    == Prefix(text, MaxTextLen)
        marks  == {i \in 1..MaxTextLen : cut[i] = "."}
        blanks == {i \in 1..MaxTextLen : cut[i] \in Whitespace}
    IN  CASE Len(text) <= MaxTextLen -> text
          [] Len(text) > MaxTextLen /\ marks # {} -> Prefix(cut, Latest(marks))
          [] Len(text) > MaxTextLen /\ marks = {} /\ blanks # {} ->
                Append(TrimEnd(Prefix(cut, Latest(blanks) - 1)), "e")
          [] OTHER -> cut
=============================================================================

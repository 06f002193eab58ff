------------------------- MODULE ReplyShaperProofs -------------------------
(***************************************************************************)
(* Where a reply is cut, for every text and every limit: what              *)
(* SplitIntoChunks, a recursive function, and FlattenSeq compute.  The     *)
(* provers take no induction theorem with an operator as its parameter, so *)
(* every induction is an argument about the least, or the greatest, number *)
(* of a set.                                                               *)
(***************************************************************************)
EXTENDS ReplyShaper, SequencesExt, TLAPS, SequenceTheorems, WellFoundedInduction

----------------------------------------------------------------------------
(* Least and greatest numbers. *)

LEMMA LeastExists ==
    ASSUME NEW S \in SUBSET Nat, S # {}
    PROVE  \E n \in S : \A m \in S : n <= m
<1>1. IsWellFoundedOn(OpToRel(<, Nat), Nat)
    BY NatLessThanWellFounded
<1>2. \E n \in S : \A m \in S : ~(<<m, n>> \in OpToRel(<, Nat))
    BY <1>1, WFMin
<1>3. \A m, n \in Nat : m < n => <<m, n>> \in OpToRel(<, Nat)
    BY DEF OpToRel
<1>4. \A n \in S : n \in Nat
    OBVIOUS
<1>5. \E n \in S : \A m \in S : ~(m < n)
    BY <1>2, <1>3, <1>4, Zenon
<1> QED BY <1>4, <1>5

LEMMA GreatestExists ==
    ASSUME NEW S \in SUBSET Nat, S # {}, NEW b \in Nat, \A n \in S : n <= b
    PROVE  \E n \in S : \A m \in S : m <= n
<1> DEFINE T == {b - n : n \in S}
<1>1. \A n \in S : n \in Nat /\ b - n \in Nat
    OBVIOUS
<1>2. T \in SUBSET Nat /\ T # {}
    BY <1>1
<1>3. PICK t \in T : \A u \in T : t <= u
  <2> HIDE DEF T
  <2> QED BY <1>2, LeastExists
<1>4. PICK n \in S : t = b - n
    BY <1>3
<1>5. ASSUME NEW m \in S
      PROVE  m <= n
  <2>1. b - n <= b - m
      BY <1>3, <1>4
  <2>2. m \in Nat /\ n \in Nat
      BY <1>4
  <2> QED BY <2>1, <2>2
<1> QED BY <1>4, <1>5

\* A number that every smaller one would follow from is in the set: induction.
LEMMA UpTo ==
    ASSUME NEW n \in Nat, NEW S, \A i \in 0 .. n : (\A j \in 0 .. n : j < i => j \in S) => i \in S
    PROVE  \A i \in 0 .. n : i \in S
<1> DEFINE T == {i \in 0 .. n : i \notin S}
<1> SUFFICES ASSUME T # {} PROVE FALSE
    OBVIOUS
<1>1. T \in SUBSET Nat /\ \A i \in T : i <= n
    OBVIOUS
<1>2. PICK i \in T : \A j \in T : i <= j
  <2> HIDE DEF T
  <2> QED BY <1>1, LeastExists
<1>3. \A j \in 0 .. n : j < i => j \in S
    BY <1>2
<1> QED BY <1>2, <1>3

LEMMA DownTo ==
    ASSUME NEW n \in Nat, NEW S, \A i \in 0 .. n : (\A j \in 0 .. n : j > i => j \in S) => i \in S
    PROVE  \A i \in 0 .. n : i \in S
<1> DEFINE T == {i \in 0 .. n : i \notin S}
<1> SUFFICES ASSUME T # {} PROVE FALSE
    OBVIOUS
<1>1. T \in SUBSET Nat /\ \A i \in T : i <= n
    OBVIOUS
<1>2. PICK i \in T : \A j \in T : j <= i
  <2> HIDE DEF T
  <2> QED BY <1>1, GreatestExists
<1>3. \A j \in 0 .. n : j > i => j \in S
    BY <1>2
<1> QED BY <1>2, <1>3

\* The greatest of a set of positions is one of them.
LEMMA LatestIsGreatest ==
    ASSUME NEW n \in Nat, NEW positions \in SUBSET (1 .. n), positions # {}
    PROVE  Latest(positions) \in positions /\ \A i \in positions : i <= Latest(positions)
<1>1. positions \in SUBSET Nat /\ \A i \in positions : i <= n
    OBVIOUS
<1>2. \E i \in positions : \A j \in positions : j <= i
    BY <1>1, GreatestExists
<1> QED BY <1>2 DEF Latest

----------------------------------------------------------------------------
(* Parts of a text. *)

LEMMA PrefixFacts ==
    ASSUME NEW S, NEW text \in Seq(S), NEW n \in 0 .. Len(text)
    PROVE  /\ Prefix(text, n) \in Seq(S) /\ Len(Prefix(text, n)) = n
           /\ \A i \in 1 .. n : Prefix(text, n)[i] = text[i]
<1>1. Len(text) \in Nat /\ \A i \in 1 .. n : text[i] \in S
    BY LenProperties
<1>2. n \in Nat
    BY <1>1
<1>3. /\ SubSeq(text, 1, n) \in Seq(S)
      /\ Len(SubSeq(text, 1, n)) = IF 1 <= n THEN n - 1 + 1 ELSE 0
      /\ \A i \in 1 .. n - 1 + 1 : SubSeq(text, 1, n)[i] = text[1 + i - 1]
    BY <1>1, <1>2, SubSeqProperties
<1> QED BY <1>2, <1>3 DEF Prefix

LEMMA DropFacts ==
    ASSUME NEW S, NEW text \in Seq(S), NEW n \in 0 .. Len(text)
    PROVE  /\ Drop(text, n) \in Seq(S) /\ Len(Drop(text, n)) = Len(text) - n
           /\ \A i \in 1 .. Len(text) - n : Drop(text, n)[i] = text[n + i]
<1>1. Len(text) \in Nat /\ \A i \in n + 1 .. Len(text) : text[i] \in S
    BY LenProperties
<1>2. n \in Nat
    BY <1>1
<1> DEFINE l == Len(text)
<1>3. /\ SubSeq(text, n + 1, l) \in Seq(S)
      /\ Len(SubSeq(text, n + 1, l)) = IF n + 1 <= l THEN l - (n + 1) + 1 ELSE 0
      /\ \A i \in 1 .. l - (n + 1) + 1 : SubSeq(text, n + 1, l)[i] = text[(n + 1) + i - 1]
    BY <1>1, <1>2, SubSeqProperties
<1>4. \A i \in 1 .. l - n : (n + 1) + i - 1 = n + i
    BY <1>1, <1>2
<1> QED BY <1>1, <1>2, <1>3, <1>4 DEF Drop

LEMMA DropNone ==
    ASSUME NEW S, NEW text \in Seq(S)
    PROVE  Drop(text, 0) = text
<1>1. Len(text) \in Nat /\ 0 \in 0 .. Len(text)
    BY LenProperties
<1>2. Drop(text, 0) \in Seq(S) /\ Len(Drop(text, 0)) = Len(text) /\ \A i \in 1 .. Len(text) : Drop(text, 0)[i] = text[i]
    BY <1>1, DropFacts, LenProperties
<1> QED BY <1>2, SeqEqual

LEMMA DropOfDrop ==
    ASSUME NEW S, NEW text \in Seq(S), NEW k \in 0 .. Len(text), NEW n \in 0 .. Len(text) - k
    PROVE  Drop(Drop(text, k), n) = Drop(text, k + n)
<1> DEFINE t == Drop(text, k)
           u == Drop(t, n)
           v == Drop(text, k + n)
<1>1. Len(text) \in Nat /\ k \in Nat /\ n \in Nat /\ k + n \in 0 .. Len(text)
    BY LenProperties
<1>2. t \in Seq(S) /\ Len(t) = Len(text) - k /\ \A i \in 1 .. Len(text) - k : t[i] = text[k + i]
    BY DropFacts
<1>3. v \in Seq(S) /\ Len(v) = Len(text) - (k + n)
      /\ \A i \in 1 .. Len(text) - (k + n) : v[i] = text[(k + n) + i]
    BY <1>1, DropFacts
<1> HIDE DEF t, v
<1>4. n \in 0 .. Len(t)
    BY <1>1, <1>2
<1>5. u \in Seq(S) /\ Len(u) = Len(t) - n /\ \A i \in 1 .. Len(t) - n : u[i] = t[n + i]
    BY <1>2, <1>4, DropFacts
<1> HIDE DEF u
<1>6. ASSUME NEW i \in 1 .. Len(u)
      PROVE  u[i] = v[i]
  <2>1. i \in Nat /\ i \in 1 .. Len(t) - n /\ n + i \in 1 .. Len(text) - k /\ i \in 1 .. Len(text) - (k + n)
      BY <1>1, <1>2, <1>5
  <2>2. u[i] = text[k + (n + i)] /\ v[i] = text[(k + n) + i]
      BY <1>2, <1>3, <1>5, <2>1
  <2>3. k + (n + i) = (k + n) + i
      BY <1>1, <2>1
  <2> QED BY <2>2, <2>3
<1>7. Len(u) = Len(v)
    BY <1>1, <1>2, <1>3, <1>5
<1>8. u = v
    BY <1>3, <1>5, <1>6, <1>7, SeqEqual
<1> QED BY <1>8 DEF u, v, t

LEMMA PrefixAndDrop ==
    ASSUME NEW S, NEW text \in Seq(S), NEW n \in 0 .. Len(text)
    PROVE  Prefix(text, n) \o Drop(text, n) = text
<1>1. Len(text) \in Nat /\ n \in Nat
    BY LenProperties
<1>2. 1 \in 1 .. Len(text) + 1 /\ n \in 1 - 1 .. Len(text) /\ Len(text) \in n .. Len(text)
    BY <1>1
<1>3. SubSeq(text, 1, n) \o SubSeq(text, n + 1, Len(text)) = SubSeq(text, 1, Len(text))
    BY <1>2, ConcatAdjacentSubSeq
<1> QED BY <1>3, SubSeqFull DEF Prefix, Drop

----------------------------------------------------------------------------
(* Where a chunk ends. *)

\* A prefix that is not empty is cut after one of its characters.
LEMMA SplitInside ==
    ASSUME NEW prefix \in Seq(Characters), prefix # <<>>
    PROVE  PreferredSplit(prefix) \in 1 .. Len(prefix)
<1> DEFINE paragraphs == {i \in 2..Len(prefix) : prefix[i - 1] = "n" /\ prefix[i] = "n"}
           sentences  == {i \in 1..Len(prefix) : prefix[i] \in {".", "e"}}
           gaps       == {i \in 1..Len(prefix) - 1 : prefix[i + 1] \in Whitespace}
<1>1. Len(prefix) \in Nat \ {0}
    BY EmptySeq
<1>2. /\ paragraphs \in SUBSET (1 .. Len(prefix)) /\ sentences \in SUBSET (1 .. Len(prefix))
      /\ gaps \in SUBSET (1 .. Len(prefix))
    BY <1>1
<1>3. /\ paragraphs # {} => Latest(paragraphs) \in 1 .. Len(prefix)
      /\ sentences # {} => Latest(sentences) \in 1 .. Len(prefix)
      /\ gaps # {} => Latest(gaps) \in 1 .. Len(prefix)
  <2> HIDE DEF paragraphs, sentences, gaps
  <2> QED BY <1>1, <1>2, LatestIsGreatest
<1>4. PreferredSplit(prefix) =
          CASE paragraphs # {} -> Latest(paragraphs)
            [] paragraphs = {} /\ sentences # {} -> Latest(sentences)
            [] paragraphs = {} /\ sentences = {} /\ gaps # {} -> Latest(gaps)
            [] OTHER -> Len(prefix)
    BY DEF PreferredSplit
<1> HIDE DEF paragraphs, sentences, gaps
<1> QED BY <1>1, <1>3, <1>4

\* The end of the first chunk of a text that is too long for one.
CutOf(text, limit) == PreferredSplit(Prefix(text, limit))

LEMMA CutInside ==
    ASSUME NEW text \in Seq(Characters), NEW limit \in Nat \ {0}, Len(text) > limit
    PROVE  CutOf(text, limit) \in 1 .. limit
<1>1. limit \in 0 .. Len(text)
    BY LenProperties
<1>2. Prefix(text, limit) \in Seq(Characters) /\ Len(Prefix(text, limit)) = limit
    BY <1>1, PrefixFacts
<1>3. Prefix(text, limit) # <<>>
    BY <1>2, EmptySeq
<1> QED BY <1>2, <1>3, SplitInside DEF CutOf

----------------------------------------------------------------------------
(* The recursive function of SplitIntoChunks. *)

\* Its value at n, from those further on.
ChunksAt(f, text, limit, n) ==
    LET rest == Drop(text, n)
    IN  IF Len(rest) > limit
        THEN <<Prefix(rest, CutOf(rest, limit))>> \o f[n + CutOf(rest, limit)]
        ELSE <<rest>>

\* A function that has these values from k on.
Chunks(f, text, limit, k) ==
    f = [n \in k .. Len(text) |-> ChunksAt(f, text, limit, n)]

\* The next chunk begins further on, within the text.
LEMMA NextChunk ==
    ASSUME NEW text \in Seq(Characters), NEW limit \in Nat \ {0}, NEW n \in 0 .. Len(text),
           Len(Drop(text, n)) > limit
    PROVE  n + CutOf(Drop(text, n), limit) \in n + 1 .. Len(text)
<1>1. Len(text) \in Nat /\ n \in Nat
    BY LenProperties
<1>2. Drop(text, n) \in Seq(Characters) /\ Len(Drop(text, n)) = Len(text) - n
    BY DropFacts
<1>3. CutOf(Drop(text, n), limit) \in 1 .. limit
    BY <1>2, CutInside
<1> QED BY <1>1, <1>2, <1>3

LEMMA ChunksExtend ==
    ASSUME NEW text \in Seq(Characters), NEW limit \in Nat \ {0}, NEW k \in 0 .. Len(text), NEW f,
           k = Len(text) \/ Chunks(f, text, limit, k + 1)
    PROVE  \E g : Chunks(g, text, limit, k)
<1> DEFINE g == [n \in k .. Len(text) |-> IF n = k THEN ChunksAt(f, text, limit, k) ELSE f[n]]
<1>1. Len(text) \in Nat /\ k \in Nat
    BY LenProperties
<1>2. ASSUME NEW n \in k .. Len(text)
      PROVE  g[n] = ChunksAt(g, text, limit, n)
  <2> DEFINE next == n + CutOf(Drop(text, n), limit)
  <2>1. n \in 0 .. Len(text) /\ n \in Nat
      BY <1>1
  <2>2. Len(Drop(text, n)) > limit => next \in n + 1 .. Len(text)
      BY <2>1, NextChunk
  <2>3. Len(Drop(text, n)) > limit => g[next] = f[next]
    <3> HIDE DEF next
    <3>1. ASSUME next \in n + 1 .. Len(text) PROVE next \in k .. Len(text) /\ next # k
        BY <1>1, <2>1, <3>1
    <3> QED BY <2>2, <3>1
  <2>4. ChunksAt(g, text, limit, n) = ChunksAt(f, text, limit, n)
    <3> HIDE DEF g
    <3> QED BY <2>3 DEF ChunksAt
  <2>5. CASE n = k
      BY <2>4, <2>5
  <2>6. CASE n # k
    <3>1. n \in k + 1 .. Len(text) /\ k # Len(text)
        BY <1>1, <2>1, <2>6
    <3>2. f[n] = ChunksAt(f, text, limit, n)
        BY <3>1 DEF Chunks
    <3> QED BY <2>4, <2>6, <3>2
  <2> QED BY <2>5, <2>6
<1>3. g = [n \in k .. Len(text) |-> ChunksAt(g, text, limit, n)]
    BY <1>2
<1>4. Chunks(g, text, limit, k)
  <2> HIDE DEF g
  <2> QED BY <1>3 DEF Chunks
<1> QED BY <1>4

\* SplitIntoChunks is the value at 0 of such a function.
LEMMA ChunksExist ==
    ASSUME NEW text \in Seq(Characters), NEW limit \in Nat \ {0}
    PROVE  \E f : Chunks(f, text, limit, 0) /\ SplitIntoChunks(text, limit) = f[0]
<1> DEFINE S == {k \in 0 .. Len(text) : \E f : Chunks(f, text, limit, k)}
<1>1. Len(text) \in Nat
    BY LenProperties
<1>2. ASSUME NEW k \in 0 .. Len(text), \A j \in 0 .. Len(text) : j > k => j \in S
      PROVE  k \in S
  <2>1. k = Len(text) \/ k + 1 \in S
    <3> HIDE DEF S
    <3> QED BY <1>1, <1>2
  <2>2. PICK f : k = Len(text) \/ Chunks(f, text, limit, k + 1)
      BY <2>1
  <2> QED BY <2>2, ChunksExtend
<1>3. \A k \in 0 .. Len(text) : k \in S
  <2> HIDE DEF S
  <2> QED BY <1>1, <1>2, DownTo
<1>4. \E f : Chunks(f, text, limit, 0)
    BY <1>1, <1>3
<1> DEFINE chunksFrom == CHOOSE f : Chunks(f, text, limit, 0)
<1>5. Chunks(chunksFrom, text, limit, 0)
    BY <1>4
<1>6. SplitIntoChunks(text, limit) = chunksFrom[0]
    BY DEF SplitIntoChunks, Chunks, ChunksAt, CutOf
<1> QED BY <1>5, <1>6

\* The chunks of the rest of a text are those of the text from there on.
LEMMA ChunksOfRest ==
    ASSUME NEW text \in Seq(Characters), NEW limit \in Nat \ {0}, NEW k \in 0 .. Len(text),
           NEW f, Chunks(f, text, limit, 0), NEW g, Chunks(g, Drop(text, k), limit, 0)
    PROVE  g[0] = f[k]
<1> DEFINE rest == Drop(text, k)
           S    == {n \in 0 .. Len(rest) : g[n] = f[k + n]}
<1>1. Len(text) \in Nat /\ k \in Nat
    BY LenProperties
<1>2. rest \in Seq(Characters) /\ Len(rest) = Len(text) - k
    BY DropFacts
<1>3. ASSUME NEW n \in 0 .. Len(rest), \A j \in 0 .. Len(rest) : j > n => j \in S
      PROVE  n \in S
  <2> DEFINE cut == CutOf(Drop(rest, n), limit)
  <2>1. n \in Nat /\ n \in 0 .. Len(text) - k /\ k + n \in 0 .. Len(text)
      BY <1>1, <1>2
  <2>2. Drop(rest, n) = Drop(text, k + n)
      BY <2>1, DropOfDrop
  <2>3. Len(Drop(rest, n)) > limit => n + cut \in n + 1 .. Len(rest) /\ cut \in 1 .. limit
    <3>1. Drop(rest, n) \in Seq(Characters)
        BY <1>2, DropFacts
    <3> QED BY <1>2, <3>1, NextChunk, CutInside
  <2>4. Len(Drop(rest, n)) > limit => g[n + cut] = f[(k + n) + cut]
    <3> HIDE DEF cut, rest
    <3> SUFFICES ASSUME Len(Drop(rest, n)) > limit PROVE g[n + cut] = f[(k + n) + cut]
        OBVIOUS
    <3>1. n + cut \in 0 .. Len(rest) /\ n + cut > n /\ cut \in Nat
        BY <2>1, <2>3
    <3>2. g[n + cut] = f[k + (n + cut)]
        BY <1>3, <3>1
    <3>3. k + (n + cut) = (k + n) + cut
        BY <1>1, <2>1, <3>1
    <3> QED BY <3>2, <3>3
  <2>5. g[n] = ChunksAt(g, rest, limit, n)
      BY DEF Chunks
  <2>6. f[k + n] = ChunksAt(f, text, limit, k + n)
      BY <2>1 DEF Chunks
  <2>7. ChunksAt(g, rest, limit, n) = ChunksAt(f, text, limit, k + n)
      BY <2>2, <2>4 DEF ChunksAt
  <2> QED BY <2>5, <2>6, <2>7
<1>4. \A n \in 0 .. Len(rest) : n \in S
  <2> HIDE DEF S, rest
  <2> QED BY <1>2, <1>3, DownTo, LenProperties
<1>5. g[0] = f[k + 0]
    BY <1>1, <1>2, <1>4
<1> QED BY <1>1, <1>5

\* The chunks of a text: the whole text when it fits, else the first chunk
\* and the chunks of the rest.
LEMMA SplitUnfolds ==
    ASSUME NEW text \in Seq(Characters), NEW limit \in Nat \ {0}
    PROVE  SplitIntoChunks(text, limit) =
               IF Len(text) > limit
               THEN <<Prefix(text, CutOf(text, limit))>>
                        \o SplitIntoChunks(Drop(text, CutOf(text, limit)), limit)
               ELSE <<text>>
<1>1. PICK f : Chunks(f, text, limit, 0) /\ SplitIntoChunks(text, limit) = f[0]
    BY ChunksExist
<1>2. Len(text) \in Nat /\ 0 \in 0 .. Len(text)
    BY LenProperties
<1>3. f[0] = ChunksAt(f, text, limit, 0)
    BY <1>1, <1>2 DEF Chunks
<1>4. Drop(text, 0) = text
    BY DropNone
<1>5. CASE Len(text) > limit
  <2> DEFINE k == CutOf(text, limit)
  <2>1. k \in 1 .. limit
      BY <1>5, CutInside
  <2>2. k \in 0 .. Len(text) /\ 0 + k = k
      BY <1>2, <1>5, <2>1
  <2>3. Drop(text, k) \in Seq(Characters)
      BY <2>2, DropFacts
  <2>4. PICK g : Chunks(g, Drop(text, k), limit, 0) /\ SplitIntoChunks(Drop(text, k), limit) = g[0]
      BY <2>3, ChunksExist
  <2>5. g[0] = f[k]
      BY <1>1, <2>2, <2>4, ChunksOfRest
  <2>6. f[0] = <<Prefix(text, k)>> \o f[0 + k]
      BY <1>3, <1>4, <1>5 DEF ChunksAt
  <2> QED BY <1>1, <1>5, <2>2, <2>4, <2>5, <2>6
<1>6. CASE ~(Len(text) > limit)
    BY <1>1, <1>3, <1>4, <1>6 DEF ChunksAt
<1> QED BY <1>5, <1>6

----------------------------------------------------------------------------
(* Joining chunks. *)

\* A function that joins the first of some sequences, up to k.
Joins(f, seqs, k) ==
    f = [i \in 1 .. k |-> IF i = 1 THEN seqs[i] ELSE f[i - 1] \o seqs[i]]

LEMMA JoinsAt ==
    ASSUME NEW f, NEW seqs, NEW k \in Nat, Joins(f, seqs, k)
    PROVE  /\ k >= 1 => f[1] = seqs[1]
           /\ \A i \in 2 .. k : f[i] = f[i - 1] \o seqs[i]
<1>1. \A i \in 1 .. k : f[i] = IF i = 1 THEN seqs[i] ELSE f[i - 1] \o seqs[i]
    BY DEF Joins
<1>2. ASSUME k >= 1 PROVE f[1] = seqs[1]
  <2>1. 1 \in 1 .. k
      BY <1>2
  <2> QED BY <1>1, <2>1, Zenon
<1>3. ASSUME NEW i \in 2 .. k PROVE f[i] = f[i - 1] \o seqs[i]
  <2>1. i \in 1 .. k /\ i # 1
      OBVIOUS
  <2> QED BY <1>1, <2>1, Zenon
<1> QED BY <1>2, <1>3

LEMMA JoinsExtend ==
    ASSUME NEW seqs, NEW k \in Nat, NEW f, Joins(f, seqs, k)
    PROVE  \E g : Joins(g, seqs, k + 1)
<1> DEFINE g == [i \in 1 .. k + 1 |->
                     IF i \in 1 .. k THEN f[i]
                     ELSE IF i = 1 THEN seqs[i] ELSE f[i - 1] \o seqs[i]]
<1>1. ASSUME NEW i \in 1 .. k + 1
      PROVE  g[i] = IF i = 1 THEN seqs[i] ELSE g[i - 1] \o seqs[i]
  <2>1. i # 1 => i - 1 \in 1 .. k /\ i - 1 \in 1 .. k + 1
      OBVIOUS
  <2>2. i # 1 => g[i - 1] = f[i - 1]
      BY <2>1
  <2>3. i \in 1 .. k => f[i] = IF i = 1 THEN seqs[i] ELSE f[i - 1] \o seqs[i]
      BY DEF Joins
  <2>4. g[i] = IF i = 1 THEN seqs[i] ELSE f[i - 1] \o seqs[i]
      BY <2>3
  <2> HIDE DEF g
  <2> QED BY <2>2, <2>4
<1>2. g = [i \in 1 .. k + 1 |-> IF i = 1 THEN seqs[i] ELSE g[i - 1] \o seqs[i]]
    BY <1>1
<1>3. Joins(g, seqs, k + 1)
  <2> HIDE DEF g
  <2> QED BY <1>2 DEF Joins
<1> QED BY <1>3

LEMMA JoinsExist ==
    ASSUME NEW seqs, Len(seqs) \in Nat \ {0}
    PROVE  \E f : Joins(f, seqs, Len(seqs)) /\ FlattenSeq(seqs) = f[Len(seqs)]
<1> DEFINE S == {k \in 0 .. Len(seqs) : \E f : Joins(f, seqs, k)}
<1>1. 0 \in S
  <2>1. \E f : Joins(f, seqs, 0)
    <3> DEFINE f == [i \in 1 .. 0 |-> 0]
    <3>1. f = [i \in 1 .. 0 |-> IF i = 1 THEN seqs[i] ELSE f[i - 1] \o seqs[i]]
        OBVIOUS
    <3>2. Joins(f, seqs, 0)
      <4> HIDE DEF f
      <4> QED BY <3>1 DEF Joins
    <3> QED BY <3>2
  <2> QED BY <2>1
<1>2. ASSUME NEW k \in 0 .. Len(seqs), \A j \in 0 .. Len(seqs) : j < k => j \in S
      PROVE  k \in S
  <2>1. CASE k = 0
      BY <1>1, <2>1
  <2>2. CASE k # 0
    <3>1. k - 1 \in Nat /\ k - 1 \in S /\ (k - 1) + 1 = k
      <4> HIDE DEF S
      <4> QED BY <1>2, <2>2
    <3>2. PICK f : Joins(f, seqs, k - 1)
        BY <3>1
    <3>3. \E g : Joins(g, seqs, k)
        BY <3>1, <3>2, JoinsExtend
    <3> QED BY <3>3
  <2> QED BY <2>1, <2>2
<1>3. \A k \in 0 .. Len(seqs) : k \in S
  <2> HIDE DEF S
  <2> QED BY <1>2, UpTo
<1>4. \E f : Joins(f, seqs, Len(seqs))
    BY <1>3
<1> DEFINE flatten == CHOOSE f : Joins(f, seqs, Len(seqs))
<1>5. Joins(flatten, seqs, Len(seqs))
    BY <1>4
<1>6. FlattenSeq(seqs) = flatten[Len(seqs)]
    BY DEF FlattenSeq, Joins
<1> QED BY <1>5, <1>6

LEMMA FlattenOne == \A text : FlattenSeq(<<text>>) = text
<1> SUFFICES ASSUME NEW text PROVE FlattenSeq(<<text>>) = text
    OBVIOUS
<1>1. Len(<<text>>) = 1 /\ <<text>>[1] = text
    OBVIOUS
<1> DEFINE seqs == <<text>>
<1>2. PICK f : Joins(f, seqs, 1) /\ FlattenSeq(seqs) = f[1]
  <2> HIDE DEF seqs
  <2>1. Len(seqs) = 1 /\ Len(seqs) \in Nat \ {0}
      BY <1>1 DEF seqs
  <2> QED BY <2>1, JoinsExist
<1>3. f[1] = seqs[1]
  <2> HIDE DEF seqs
  <2>1. 1 \in Nat /\ 1 >= 1
      OBVIOUS
  <2> QED BY <1>2, <2>1, JoinsAt, Zenon
<1> QED BY <1>1, <1>2, <1>3

\* Joining begins with the first sequence.
LEMMA FlattenFirst ==
    ASSUME NEW S, NEW first \in Seq(S), NEW rest \in Seq(Seq(S)), rest # <<>>
    PROVE  FlattenSeq(<<first>> \o rest) = first \o FlattenSeq(rest)
<1> DEFINE all == <<first>> \o rest
           n   == Len(rest)
<1>1. n \in Nat \ {0}
    BY EmptySeq
<1>2. /\ all \in Seq(Seq(S)) /\ Len(all) = n + 1 /\ all[1] = first
      /\ \A i \in 1 .. n : all[i + 1] = rest[i]
  <2>1. <<first>> \in Seq(Seq(S)) /\ Len(<<first>>) = 1 /\ <<first>>[1] = first
      OBVIOUS
  <2>2. /\ all \in Seq(Seq(S)) /\ Len(all) = 1 + n
        /\ \A i \in 1 .. 1 + n : all[i] = IF i <= 1 THEN <<first>>[i] ELSE rest[i - 1]
      BY <2>1, ConcatProperties
  <2> HIDE DEF all
  <2> QED BY <1>1, <2>1, <2>2
<1>3. PICK f : Joins(f, all, n + 1) /\ FlattenSeq(all) = f[n + 1]
  <2>1. Len(all) \in Nat \ {0}
      BY <1>1, <1>2
  <2> QED BY <1>2, <2>1, JoinsExist
<1>4. PICK g : Joins(g, rest, n) /\ FlattenSeq(rest) = g[n]
    BY <1>1, JoinsExist
<1> DEFINE T == {i \in 0 .. n : i = 0 \/ (g[i] \in Seq(S) /\ f[i + 1] = first \o g[i])}
<1>5. ASSUME NEW i \in 0 .. n, \A j \in 0 .. n : j < i => j \in T
      PROVE  i \in T
  <2>1. CASE i = 0
      BY <2>1
  <2>2. CASE i = 1
    <3>1. g[1] = rest[1] /\ rest[1] \in Seq(S)
      <4>1. n \in Nat /\ n >= 1 /\ 1 \in 1 .. n
          BY <1>1
      <4>2. g[1] = rest[1]
          BY <1>4, <4>1, JoinsAt, Zenon
      <4> QED BY <4>1, <4>2, ElementOfSeq
    <3>2. f[1] = all[1] /\ f[2] = f[1] \o all[2] /\ all[2] = rest[1]
      <4> HIDE DEF all
      <4>1. n + 1 \in Nat /\ 2 \in 2 .. n + 1 /\ 1 \in 1 .. n /\ 1 + 1 = 2 /\ 2 - 1 = 1 /\ n + 1 >= 1
          BY <1>1
      <4>2. f[1] = all[1]
          BY <1>3, <4>1, JoinsAt, Zenon
      <4>3. f[2] = f[2 - 1] \o all[2]
          BY <1>3, <4>1, JoinsAt, Zenon
      <4> QED BY <1>2, <4>1, <4>2, <4>3
    <3>3. f[1 + 1] = first \o g[1] /\ g[1] \in Seq(S)
      <4> HIDE DEF all
      <4> QED BY <1>2, <3>1, <3>2
    <3> QED BY <2>2, <3>3
  <2>3. CASE i > 1
    <3>1. i \in 1 .. n /\ i - 1 \in 1 .. n /\ i + 1 \in 1 .. n + 1 /\ i + 1 # 1 /\ (i + 1) - 1 = i /\ (i - 1) + 1 = i
        BY <1>1, <2>3
    <3>2. i - 1 \in T /\ i - 1 # 0
      <4> HIDE DEF T
      <4> QED BY <1>5, <2>3, <3>1
    <3>3. g[i - 1] \in Seq(S) /\ f[i] = first \o g[i - 1]
        BY <3>1, <3>2
    <3>4. g[i] = g[i - 1] \o rest[i]
      <4>1. i \in 2 .. n
          BY <2>3, <3>1
      <4> QED BY <1>1, <1>4, <4>1, JoinsAt
    <3>5. f[i + 1] = f[i] \o rest[i]
      <4> HIDE DEF all
      <4>1. i + 1 \in 2 .. n + 1 /\ n + 1 \in Nat
          BY <1>1, <2>3, <3>1
      <4>2. f[i + 1] = f[(i + 1) - 1] \o all[i + 1]
          BY <1>3, <4>1, JoinsAt
      <4> QED BY <1>2, <3>1, <4>2
    <3>6. rest[i] \in Seq(S)
        BY <3>1, ElementOfSeq
    <3>7. g[i] \in Seq(S)
        BY <3>3, <3>4, <3>6, ConcatProperties
    <3>8. (first \o g[i - 1]) \o rest[i] = first \o (g[i - 1] \o rest[i])
      <4>1. PICK p \in Seq(S) : p = g[i - 1]
          BY <3>3
      <4>2. PICK q \in Seq(S) : q = rest[i]
          BY <3>6
      <4>3. (first \o p) \o q = first \o (p \o q)
          BY ConcatAssociative
      <4> QED BY <4>1, <4>2, <4>3
    <3> QED BY <3>3, <3>4, <3>5, <3>7, <3>8
  <2>4. i = 0 \/ i = 1 \/ i > 1
      BY <1>1
  <2> QED BY <2>1, <2>2, <2>3, <2>4
<1>6. \A i \in 0 .. n : i \in T
  <2> HIDE DEF T, n
  <2> QED BY <1>1, <1>5, UpTo
<1>7. f[n + 1] = first \o g[n]
    BY <1>1, <1>6
<1> QED BY <1>3, <1>4, <1>7

----------------------------------------------------------------------------
(* What cutting and joining promise, for every text and every limit. *)

\* Nothing is lost, added or moved by cutting: the chunks of a text, which are
\* one or more texts, join to that text.
THEOREM ChunksJoin ==
    ASSUME NEW limit \in Nat \ {0}, NEW text \in Seq(Characters)
    PROVE  /\ SplitIntoChunks(text, limit) \in Seq(Seq(Characters))
           /\ SplitIntoChunks(text, limit) # <<>>
           /\ FlattenSeq(SplitIntoChunks(text, limit)) = text
<1> DEFINE Good(t) == /\ SplitIntoChunks(t, limit) \in Seq(Seq(Characters))
                      /\ SplitIntoChunks(t, limit) # <<>>
                      /\ FlattenSeq(SplitIntoChunks(t, limit)) = t
           n == Len(text)
           S == {k \in 0 .. n : \A t \in Seq(Characters) : Len(t) = k => Good(t)}
<1>1. n \in Nat
    BY LenProperties
<1>2. ASSUME NEW k \in 0 .. n, \A j \in 0 .. n : j < k => j \in S
      PROVE  k \in S
  <2> SUFFICES ASSUME NEW t \in Seq(Characters), Len(t) = k PROVE Good(t)
      OBVIOUS
  <2> DEFINE cut   == CutOf(t, limit)
             first == Prefix(t, cut)
             rest  == Drop(t, cut)
  <2>1. CASE Len(t) > limit
    <3>1. cut \in 1 .. limit
        BY <2>1, CutInside
    <3>2. cut \in 0 .. Len(t) /\ cut \in Nat /\ cut > 0
        BY <1>1, <2>1, <3>1
    <3>3. first \in Seq(Characters)
      <4> HIDE DEF cut
      <4> QED BY <3>2, PrefixFacts
    <3>4. rest \in Seq(Characters) /\ Len(rest) = Len(t) - cut
      <4> HIDE DEF cut
      <4> QED BY <3>2, DropFacts
    <3>5. Len(rest) \in 0 .. n /\ Len(rest) < k
      <4> HIDE DEF cut, rest
      <4> QED BY <1>1, <3>2, <3>4
    <3>6. Good(rest)
      <4>1. Len(rest) \in S
        <5> HIDE DEF S, rest
        <5> QED BY <1>2, <3>5
      <4> HIDE DEF Good, rest
      <4> QED BY <3>4, <4>1
    <3>7. SplitIntoChunks(t, limit) = <<first>> \o SplitIntoChunks(rest, limit)
        BY <2>1, SplitUnfolds
    <3>8. first \o rest = t
      <4> HIDE DEF cut
      <4> QED BY <3>2, PrefixAndDrop
    <3> DEFINE others == SplitIntoChunks(rest, limit)
    <3>9. FlattenSeq(<<first>> \o others) = first \o FlattenSeq(others)
      <4> HIDE DEF first, others
      <4>1. others \in Seq(Seq(Characters)) /\ others # <<>>
          BY <3>6 DEF others
      <4> QED BY <3>3, <4>1, FlattenFirst
    <3>10. <<first>> \o others \in Seq(Seq(Characters)) /\ <<first>> \o others # <<>>
      <4> HIDE DEF first, others
      <4>1. others \in Seq(Seq(Characters)) /\ others # <<>>
          BY <3>6 DEF others
      <4>2. <<first>> \in Seq(Seq(Characters))
          BY <3>3
      <4> QED BY <4>1, <4>2, ConcatProperties, ConcatEqualIffEmpty
    <3> QED BY <3>6, <3>7, <3>8, <3>9, <3>10
  <2>2. CASE ~(Len(t) > limit)
    <3>1. SplitIntoChunks(t, limit) = <<t>>
        BY <2>2, SplitUnfolds
    <3>2. FlattenSeq(<<t>>) = t
        BY FlattenOne
    <3>3. <<t>> \in Seq(Seq(Characters)) /\ <<t>> # <<>>
        OBVIOUS
    <3> QED BY <3>1, <3>2, <3>3
  <2> QED BY <2>1, <2>2
<1>3. \A k \in 0 .. n : k \in S
  <2> HIDE DEF S, n
  <2> QED BY <1>1, <1>2, UpTo
<1>4. n \in S
  <2> HIDE DEF S, n
  <2> QED BY <1>1, <1>3
<1> HIDE DEF Good
<1>5. Good(text)
    BY <1>4
<1> QED BY <1>5 DEF Good

LEMMA TailOfChunks ==
    ASSUME NEW S, NEW first \in S, NEW rest \in Seq(S)
    PROVE  /\ (<<first>> \o rest)[1] = first /\ Tail(<<first>> \o rest) = rest
           /\ Len(<<first>> \o rest) = Len(rest) + 1
<1> DEFINE all == <<first>> \o rest
<1>1. <<first>> \in Seq(S) /\ Len(<<first>>) = 1 /\ <<first>>[1] = first
    OBVIOUS
<1>2. Len(rest) \in Nat
    BY LenProperties
<1>3. /\ all \in Seq(S) /\ Len(all) = 1 + Len(rest)
      /\ \A i \in 1 .. 1 + Len(rest) : all[i] = IF i <= 1 THEN <<first>>[i] ELSE rest[i - 1]
    BY <1>1, ConcatProperties
<1> HIDE DEF all
<1>4. all[1] = first /\ all # <<>> /\ \A i \in 1 .. Len(rest) : all[i + 1] = rest[i]
  <2>1. all # <<>>
      BY <1>2, <1>3, EmptySeq
  <2> QED BY <1>1, <1>2, <1>3, <2>1
<1>5. /\ Tail(all) \in Seq(S) /\ Len(Tail(all)) = Len(rest)
      /\ \A i \in 1 .. Len(rest) : Tail(all)[i] = all[i + 1]
    BY <1>2, <1>3, <1>4, HeadTailProperties
<1>6. Tail(all) = rest
    BY <1>4, <1>5, SeqEqual
<1> QED BY <1>2, <1>3, <1>4, <1>6 DEF all

\* ReplyShaper::split: a text that fits is spoken as it is; of a longer one a
\* first part is spoken, with the question, and the rest kept in chunks.
LEMMA Shaped ==
    ASSUME NEW text \in Seq(Characters), NEW limit \in Nat, limit > Len(Suffix)
    PROVE  \/ /\ Split(text, limit).spoken = text
              /\ Split(text, limit).remaining = <<>>
              /\ Len(text) <= limit
           \/ \E first, rest \in Seq(Characters) \ {<<>>} :
                 /\ first \o rest = text
                 /\ Split(text, limit).spoken = first \o Suffix
                 /\ Split(text, limit).remaining = SplitIntoChunks(rest, limit - Len(Suffix))
                 /\ Len(first) + Len(Suffix) <= limit
<1> DEFINE room   == limit - Len(Suffix)
           chunks == SplitIntoChunks(text, room)
<1>1. Len(text) \in Nat /\ Len(Suffix) \in Nat
    BY LenProperties, SuffixAssumption
<1>2. room \in Nat \ {0}
    BY <1>1
<1>3. Split(text, limit) = [spoken    |-> IF Len(chunks) = 1 THEN chunks[1] ELSE chunks[1] \o Suffix,
                            remaining |-> Tail(chunks)]
    BY DEF Split
<1>4. CASE Len(text) > room
  <2> DEFINE cut    == CutOf(text, room)
             first  == Prefix(text, cut)
             rest   == Drop(text, cut)
             others == SplitIntoChunks(rest, room)
  <2>1. cut \in 1 .. room
    <3> HIDE DEF room
    <3> QED BY <1>2, <1>4, CutInside
  <2>2. cut \in 0 .. Len(text) /\ cut \in Nat /\ cut > 0 /\ cut < Len(text) /\ cut + Len(Suffix) <= limit
    <3> HIDE DEF cut
    <3> QED BY <1>1, <1>2, <1>4, <2>1
  <2>3. first \in Seq(Characters) /\ Len(first) = cut /\ rest \in Seq(Characters) /\ Len(rest) = Len(text) - cut
    <3> HIDE DEF cut
    <3> QED BY <2>2, PrefixFacts, DropFacts
  <2>4. first \o rest = text
    <3> HIDE DEF cut
    <3> QED BY <2>2, PrefixAndDrop
  <2>5. first # <<>> /\ rest # <<>> /\ Len(first) + Len(Suffix) <= limit
    <3> HIDE DEF first, rest, cut
    <3> QED BY <1>1, <2>2, <2>3, EmptySeq
  <2>6. chunks = <<first>> \o others
    <3> HIDE DEF room
    <3> QED BY <1>2, <1>4, SplitUnfolds
  <2>7. others \in Seq(Seq(Characters)) /\ others # <<>>
    <3> HIDE DEF room, rest
    <3> QED BY <1>2, <2>3, ChunksJoin
  <2>8. chunks[1] = first /\ Tail(chunks) = others /\ Len(chunks) # 1
    <3> HIDE DEF chunks, first, others
    <3>1. Len(others) \in Nat \ {0}
        BY <2>7, EmptySeq
    <3>2. chunks[1] = first /\ Tail(chunks) = others /\ Len(chunks) = Len(others) + 1
        BY <2>3, <2>6, <2>7, TailOfChunks
    <3> QED BY <3>1, <3>2
  <2> HIDE DEF chunks, first, rest
  <2>9. Split(text, limit).spoken = first \o Suffix /\ Split(text, limit).remaining = others
      BY <1>3, <2>8
  <2> QED BY <2>3, <2>4, <2>5, <2>9
<1>5. CASE ~(Len(text) > room)
  <2>1. chunks = <<text>>
    <3> HIDE DEF room
    <3> QED BY <1>2, <1>5, SplitUnfolds
  <2>2. Len(<<text>>) = 1 /\ <<text>>[1] = text /\ Tail(<<text>>) = <<>>
      OBVIOUS
  <2>3. Len(chunks) = 1 /\ chunks[1] = text /\ Tail(chunks) = <<>>
      BY <2>1, <2>2
  <2> HIDE DEF chunks
  <2>4. Split(text, limit).spoken = text /\ Split(text, limit).remaining = <<>>
      BY <1>3, <2>3
  <2> QED BY <1>1, <1>5, <2>4
<1> QED BY <1>4, <1>5

LEMMA LatestWithin ==
    ASSUME NEW n \in Nat, NEW positions \in SUBSET (1 .. n)
    PROVE  Latest(positions) \in 0 .. n
<1>1. CASE positions = {}
    BY <1>1 DEF Latest
<1>2. CASE positions # {}
  <2>1. Latest(positions) \in positions
      BY <1>2, LatestIsGreatest
  <2>2. \A i \in positions : i \in 0 .. n
      OBVIOUS
  <2> QED BY <2>1, <2>2
<1> QED BY <1>1, <1>2

\* clip_to_limit returns a text Alice accepts, the same text when it was one.
THEOREM ClipFits ==
    ASSUME NEW text \in Seq(Characters)
    PROVE  /\ ClipToLimit(text) \in Seq(Characters)
           /\ Len(ClipToLimit(text)) <= MaxTextLen
           /\ Len(text) <= MaxTextLen => ClipToLimit(text) = text
<1> DEFINE cut    == Prefix(text, MaxTextLen)
           marks  == {i \in 1..MaxTextLen : cut[i] = "."}
           blanks == {i \in 1..MaxTextLen : cut[i] \in Whitespace}
           before == Prefix(cut, Latest(blanks) - 1)
<1>1. ClipToLimit(text) =
          CASE Len(text) <= MaxTextLen -> text
            [] Len(text) > MaxTextLen /\ marks # {} -> Prefix(cut, Latest(marks))
            [] Len(text) > MaxTextLen /\ marks = {} /\ blanks # {} -> Append(TrimEnd(before), "e")
            [] OTHER -> cut
    BY DEF ClipToLimit
<1>2. MaxTextLen \in Nat /\ Len(text) \in Nat
    BY MaxTextLenAssumption, LenProperties
<1>3. CASE Len(text) <= MaxTextLen
  <2> HIDE DEF cut, marks, blanks, before
  <2> QED BY <1>1, <1>2, <1>3
<1>4. CASE Len(text) > MaxTextLen
  <2>1. cut \in Seq(Characters) /\ Len(cut) = MaxTextLen
    <3>1. MaxTextLen \in 0 .. Len(text)
        BY <1>2, <1>4
    <3> QED BY <3>1, PrefixFacts
  <2>2. marks \in SUBSET (1 .. MaxTextLen) /\ blanks \in SUBSET (1 .. MaxTextLen)
      OBVIOUS
  <2> HIDE DEF cut, marks, blanks
  <2>3. Prefix(cut, Latest(marks)) \in Seq(Characters) /\ Len(Prefix(cut, Latest(marks))) <= MaxTextLen
    <3>1. PICK m \in 0 .. MaxTextLen : m = Latest(marks)
        BY <1>2, <2>2, LatestWithin
    <3>2. Prefix(cut, m) \in Seq(Characters) /\ Len(Prefix(cut, m)) = m
        BY <2>1, <3>1, PrefixFacts
    <3> QED BY <1>2, <3>1, <3>2
  <2>4. ASSUME blanks # {}
        PROVE  /\ Append(TrimEnd(before), "e") \in Seq(Characters)
               /\ Len(Append(TrimEnd(before), "e")) <= MaxTextLen
    <3>1. PICK b \in 1 .. MaxTextLen : b = Latest(blanks)
        BY <1>2, <2>2, <2>4, LatestIsGreatest
    <3>2. b - 1 \in 0 .. Len(cut) /\ b - 1 \in Nat /\ b - 1 + 1 <= MaxTextLen
        BY <1>2, <2>1, <3>1
    <3>3. before \in Seq(Characters) /\ Len(before) = b - 1
        BY <2>1, <3>1, <3>2, PrefixFacts
    <3> HIDE DEF before
    <3> DEFINE words == {i \in 1..Len(before) : before[i] \notin Whitespace}
    <3>4. TrimEnd(before) = Prefix(before, Latest(words))
        BY DEF TrimEnd
    <3>5. words \in SUBSET (1 .. Len(before)) /\ Len(before) \in Nat
        BY <3>2, <3>3
    <3> HIDE DEF words
    <3>6. PICK w \in 0 .. Len(before) : w = Latest(words)
        BY <3>5, LatestWithin
    <3>7. Prefix(before, w) \in Seq(Characters) /\ Len(Prefix(before, w)) = w
        BY <3>3, PrefixFacts
    <3>8. TrimEnd(before) \in Seq(Characters) /\ Len(TrimEnd(before)) = w
        BY <3>4, <3>6, <3>7
    <3>9. w \in Nat /\ w + 1 <= MaxTextLen
        BY <1>2, <3>2, <3>3, <3>6
    <3>10. "e" \in Characters
        BY DEF Characters
    <3>11. /\ Append(TrimEnd(before), "e") \in Seq(Characters)
           /\ Len(Append(TrimEnd(before), "e")) = Len(TrimEnd(before)) + 1
        BY <3>8, <3>10, AppendProperties
    <3> QED BY <3>8, <3>9, <3>11
  <2>5. ClipToLimit(text) =
            IF marks # {} THEN Prefix(cut, Latest(marks))
            ELSE IF blanks # {} THEN Append(TrimEnd(before), "e") ELSE cut
    <3> HIDE DEF before
    <3> QED BY <1>1, <1>2, <1>4
  <2> HIDE DEF before
  <2>6. MaxTextLen <= MaxTextLen /\ ~(Len(text) <= MaxTextLen)
      BY <1>2, <1>4
  <2> QED BY <2>1, <2>3, <2>4, <2>5, <2>6
<1> QED BY <1>2, <1>3, <1>4
=============================================================================

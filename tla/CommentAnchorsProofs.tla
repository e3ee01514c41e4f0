------------------------- MODULE CommentAnchorsProofs -------------------------
(***************************************************************************)
(* What holds of a manifest and of a thread over any sequence of           *)
(* refreshes, for any sets of changes, any contexts of hunks and any       *)
(* number of stored lines: first what is read of the patches jj may print, *)
(* then the thread.                                                        *)
(***************************************************************************)
EXTENDS CommentAnchors, SequenceTheorems, FiniteSetTheorems, WellFoundedInduction, TLAPS

Text == Seq(Word)
Document == Seq(Text)

(* What is known of the entry of a file, however its patch was read: its   *)
(* contents are contents, but for those that are not stored.               *)
IsEntry(e) == \A side \in Side : e[side] \in {NoContent} \cup Content

(* Where an anchor was taken, the target is: in its document or its hunk.  *)
AnchorIsWhole(a) ==
    /\ a.kind \in {"file", "hunk", "document"}
    /\ a.side \in Side
    /\ a.kind = "file" => a.side = "new"
    /\ a.kind = "hunk" => a.side = "new"
    /\ a.kind = "document" =>
          /\ a.line \in DOMAIN DocumentLines(a.document)
          /\ DocumentLines(a.document)[a.line] = a.text
          /\ a.around \in Document
          /\ a.index \in DOMAIN a.around
          /\ a.around[a.index] = a.text

(* The hunks of a file that are equal to the one a thread was written in.  *)
EqualHunks(a, e) == {h \in DOMAIN e.hunks : SameHunk(a.hunk, e.hunks[h])}

(* The line has the text of the target in a hunk equal to that of the      *)
(* anchor, of which there is no other unless the line never moved.         *)
HunkHas(a, e, line) ==
    \E h \in EqualHunks(a, e) :
        /\ \E i \in DOMAIN e.hunks[h] :
              /\ e.hunks[h][i].mark \in Marks("new")
              /\ e.hunks[h][i].new = line
              /\ e.hunks[h][i].text = a.text
        /\ line = a.line \/ \A k \in DOMAIN e.hunks \ {h} : ~SameHunk(a.hunk, e.hunks[k])

DocumentHas(a, e, line) ==
    \/ e[a.side] = a.document /\ line = a.line
    \/ Fits(a, DocumentLines(e[a.side])) = {line}

DocumentPath(side, e) ==
    IF side = "old" THEN OneOf(e.original, e.current) ELSE OneOf(e.current, e.original)

(* A current line thread is where its anchor is found, unless it was just  *)
(* written in one of several equal hunks.                                  *)
LineIsFound(t, e) ==
    LET a == t.anchor
        line == t.projection.line
    IN  /\ e.isText /\ e[a.side] # NoContent
        /\ t.projection = Shown(a, e, line)
        /\ \/ t.projection.path = NoPath
           \/ line = Line(a, e)
           \/ a.kind = "hunk" /\ ~IsSingle(EqualHunks(a, e))
        /\ a.kind = "hunk" => HunkHas(a, e, line)
        /\ a.kind = "document" => DocumentHas(a, e, line)
        /\ line # NotFound

(* A current thread is shown in the document of a file.                    *)
FoundIn(t, e) ==
    /\ t.projection.side = t.anchor.side
    /\ t.projection.path = DocumentPath(t.anchor.side, e)
    /\ t.projection.path = NoPath => {t.anchor.original, t.anchor.current} = {NoPath}
    /\ IF t.anchor.kind = "file" THEN t.projection = Shown(t.anchor, e, 0)
       ELSE LineIsFound(t, e)

ThreadIsWhole(t) ==
    /\ t = [anchor |-> t.anchor, projection |-> t.projection]
    /\ AnchorIsWhole(t.anchor)

ManifestWasRead == \E t \in Trees : manifest \in Readings[t] \ {Unreadable}

ThreadInv ==
    /\ ManifestWasRead
    /\ thread # NoThread =>
          /\ ThreadIsWhole(thread)
          /\ thread.projection # NoProjection => \E e \in manifest : FoundIn(thread, e)

-----------------------------------------------------------------------------
(* Sequences.                                                              *)

LEMMA SetInduction ==
    ASSUME NEW S, S \subseteq Nat, 0 \in S, \A n \in S : n + 1 \in S
    PROVE  S = Nat
<1> DEFINE T == Nat \ S
<1>1. ASSUME T # {} PROVE FALSE
  <2>1. PICK x \in T : \A y \in T : ~(<<y, x>> \in OpToRel(<, Nat))
    <3>1. T \subseteq Nat
      OBVIOUS
    <3> HIDE DEF T
    <3> QED BY <1>1, <3>1, NatLessThanWellFounded, WFMin
  <2>2. x \in Nat /\ x # 0 /\ x - 1 \in Nat /\ x - 1 \notin S
    OBVIOUS
  <2>3. <<x - 1, x>> \in OpToRel(<, Nat)
    BY <2>2 DEF OpToRel
  <2> QED BY <2>1, <2>2, <2>3
<1> QED BY <1>1

LEMMA FunctionIsSeq ==
    ASSUME NEW S, NEW n \in Nat, NEW f \in [1 .. n -> S]
    PROVE  f \in Seq(S) /\ Len(f) = n
<1>1. f \in Seq(S)
  BY SeqDef
<1>2. DOMAIN f = 1 .. Len(f) /\ Len(f) \in Nat
  BY <1>1, LenProperties
<1> QED BY <1>1, <1>2

(* What is appended to a function on the first numbers.                    *)
LEMMA AppendIs ==
    ASSUME NEW S, NEW n \in Nat, NEW f \in [1 .. n -> S], NEW x
    PROVE  /\ Len(f) = n
           /\ Append(f, x) = [j \in 1 .. n + 1 |-> IF j = n + 1 THEN x ELSE f[j]]
           /\ Len(Append(f, x)) = n + 1
<1> DEFINE D == S \cup {x}
<1>1. f \in Seq(D) /\ Len(f) = n /\ x \in D
  <2>1. f \in [1 .. n -> D]
    OBVIOUS
  <2> HIDE DEF D
  <2>2. f \in Seq(D) /\ Len(f) = n
    BY <2>1, FunctionIsSeq
  <2> QED BY <2>2 DEF D
<1> HIDE DEF D
<1>2. /\ Append(f, x) \in Seq(D) /\ Len(Append(f, x)) = n + 1
      /\ \A j \in 1 .. n : Append(f, x)[j] = f[j]
      /\ Append(f, x)[n + 1] = x
  BY <1>1, AppendProperties
<1>3. DOMAIN Append(f, x) = 1 .. n + 1
  BY <1>2, LenProperties
<1>4. Append(f, x) = [j \in 1 .. n + 1 |-> Append(f, x)[j]]
  BY <1>2, <1>3, LenProperties
<1>5. \A j \in 1 .. n + 1 : Append(f, x)[j] = IF j = n + 1 THEN x ELSE f[j]
  BY <1>2
<1> DEFINE g == Append(f, x)
<1>6. g = [j \in 1 .. n + 1 |-> g[j]] /\ \A j \in 1 .. n + 1 : g[j] = IF j = n + 1 THEN x ELSE f[j]
  BY <1>4, <1>5
<1> HIDE DEF g
<1>7. g = [j \in 1 .. n + 1 |-> IF j = n + 1 THEN x ELSE f[j]]
  BY <1>6
<1> QED BY <1>1, <1>2, <1>7 DEF g

(* What sequences are joined to, one after the other.                      *)
Joined(flat, s) ==
    /\ flat[0] = <<>>
    /\ \A i \in 1 .. Len(s) : flat[i] = flat[i - 1] \o s[i]
    /\ flat[Len(s)] = FlattenSeq(s)

LEMMA FlatIsJoined ==
    ASSUME NEW S, NEW s \in Seq(Seq(S))
    PROVE  \E flat \in [0 .. Len(s) -> Seq(S)] : Joined(flat, s)
<1>1. Len(s) \in Nat /\ DOMAIN s = 1 .. Len(s) /\ \A i \in 1 .. Len(s) : s[i] \in Seq(S)
  BY LenProperties
<1>2. CASE Len(s) = 0
  <2>1. s = <<>>
    BY <1>2, EmptySeq
  <2>2. FlattenSeq(s) = <<>>
    BY <1>2, <2>1 DEF FlattenSeq
  <2> DEFINE flat == [i \in 0 .. Len(s) |-> <<>>]
  <2>3. flat \in [0 .. Len(s) -> Seq(S)] /\ flat[0] = <<>> /\ flat[Len(s)] = <<>>
    BY <1>2, EmptySeq
  <2>4. \A i \in 1 .. Len(s) : FALSE
    BY <1>2
  <2> HIDE DEF flat
  <2>5. Joined(flat, s)
    BY <2>2, <2>3, <2>4 DEF Joined
  <2> QED BY <2>3, <2>5
<1>3. CASE Len(s) # 0
  <2> DEFINE Value(g, i) == IF i = 1 THEN s[i] ELSE g[i - 1] \o s[i]
             Joins(g, k) == g = [i \in 1 .. k |-> Value(g, i)]
             Exists == {k \in Nat : \E g : Joins(g, k)}
  <2>1. Exists = Nat
    <3>1. 0 \in Exists
      <4> DEFINE g == [i \in 1 .. 0 |-> s[i]]
      <4>1. Joins(g, 0)
        OBVIOUS
      <4> HIDE DEF g, Joins
      <4> QED BY <4>1
    <3>2. ASSUME NEW k \in Exists PROVE k + 1 \in Exists
      <4>1. k \in Nat /\ \E g : Joins(g, k)
        OBVIOUS
      <4>2. PICK g : Joins(g, k)
        BY <4>1
      <4> DEFINE h == [i \in 1 .. k + 1 |-> IF i = k + 1 THEN Value(g, i) ELSE g[i]]
      <4>3. \A i \in 1 .. k + 1 : h[i] = Value(h, i)
        <5> TAKE i \in 1 .. k + 1
        <5>1. i = 1 \/ i - 1 \in 1 .. k
          BY <4>1
        <5>2. i - 1 \in 1 .. k => h[i - 1] = g[i - 1]
          BY <4>1
        <5>3. Value(h, i) = Value(g, i)
          <6> HIDE DEF h
          <6> QED BY <5>1, <5>2
        <5>4. i \in 1 .. k => g[i] = Value(g, i)
          <6> HIDE DEF Value
          <6> QED BY <4>2
        <5>5. h[i] = Value(g, i)
          <6> HIDE DEF Value
          <6> QED BY <4>1, <5>4
        <5> QED BY <5>3, <5>5
      <4>4. Joins(h, k + 1)
        <5>1. h = [i \in 1 .. k + 1 |-> h[i]]
          OBVIOUS
        <5> HIDE DEF h, Value
        <5> QED BY <4>3, <5>1
      <4> HIDE DEF h, Joins
      <4> QED BY <4>1, <4>4
    <3>3. Exists \subseteq Nat
      OBVIOUS
    <3> HIDE DEF Exists
    <3> QED BY <3>1, <3>2, <3>3, SetInduction
  <2> DEFINE flat == CHOOSE g : Joins(g, Len(s))
  <2>2. Joins(flat, Len(s))
    <3>1. \E g : Joins(g, Len(s))
      <4> HIDE DEF Joins
      <4> QED BY <1>1, <2>1
    <3> HIDE DEF Joins
    <3> QED BY <3>1
  <2>3. FlattenSeq(s) = flat[Len(s)]
    BY <1>3 DEF FlattenSeq
  <2> HIDE DEF flat
  <2>4. \A i \in 1 .. Len(s) : flat[i] = Value(flat, i)
    <3> HIDE DEF Value
    <3> QED BY <2>2
  <2> DEFINE all == [i \in 0 .. Len(s) |-> IF i = 0 THEN <<>> ELSE flat[i]]
  <2>5. /\ all[0] = <<>> /\ all[Len(s)] = FlattenSeq(s)
        /\ \A i \in 1 .. Len(s) : all[i] = flat[i]
        /\ \A i \in 1 .. Len(s) : i # 1 => all[i - 1] = flat[i - 1]
    BY <1>1, <1>3, <2>3
  <2>6. \A i \in 1 .. Len(s) : all[i] = all[i - 1] \o s[i]
    <3> TAKE i \in 1 .. Len(s)
    <3>1. all[i] = flat[i] /\ flat[i] = Value(flat, i) /\ (i # 1 => all[i - 1] = flat[i - 1])
          /\ all[0] = <<>>
      <4> HIDE DEF all, Value
      <4> QED BY <2>4, <2>5
    <3> HIDE DEF all
    <3>2. CASE i = 1
      <4>1. all[i] = s[i] /\ all[i - 1] = <<>>
        BY <3>1, <3>2
      <4>2. <<>> \o s[i] = s[i]
        BY <1>1, ConcatEmptySeq
      <4> QED BY <4>1, <4>2
    <3>3. CASE i # 1
      BY <3>1, <3>3
    <3> QED BY <3>2, <3>3
  <2>7. all \in [0 .. Len(s) -> Seq(S)]
    <3> DEFINE Typed == {k \in Nat : k \in 0 .. Len(s) => all[k] \in Seq(S)}
    <3>0. all = [i \in 0 .. Len(s) |-> all[i]]
      OBVIOUS
    <3> HIDE DEF all
    <3>1. 0 \in Typed
      BY <2>5, EmptySeq
    <3>2. ASSUME NEW k \in Typed PROVE k + 1 \in Typed
      <4>1. SUFFICES ASSUME k + 1 \in 0 .. Len(s) PROVE all[k + 1] \in Seq(S)
        OBVIOUS
      <4>2. k \in Nat /\ k \in 0 .. Len(s) /\ k + 1 \in 1 .. Len(s) /\ (k + 1) - 1 = k
        BY <1>1, <4>1
      <4>3. all[k + 1] = all[k] \o s[k + 1] /\ all[k] \in Seq(S) /\ s[k + 1] \in Seq(S)
        BY <1>1, <2>6, <4>2
      <4> QED BY <4>3, ConcatProperties
    <3>3. Typed = Nat
      <4>1. Typed \subseteq Nat
        OBVIOUS
      <4> HIDE DEF Typed
      <4> QED BY <3>1, <3>2, <4>1, SetInduction
    <3>4. \A k \in 0 .. Len(s) : all[k] \in Seq(S)
      BY <1>1, <3>3
    <3> QED BY <3>0, <3>4
  <2> HIDE DEF all
  <2>8. Joined(all, s)
    BY <2>5, <2>6 DEF Joined
  <2> QED BY <2>7, <2>8
<1> QED BY <1>2, <1>3

(* Sequences joined are a sequence.                                        *)
LEMMA FlatIsSeq ==
    ASSUME NEW S, NEW s \in Seq(Seq(S))
    PROVE  FlattenSeq(s) \in Seq(S)
<1>1. PICK flat \in [0 .. Len(s) -> Seq(S)] : Joined(flat, s)
  BY FlatIsJoined
<1>2. Len(s) \in 0 .. Len(s)
  BY LenProperties
<1> QED BY <1>1, <1>2 DEF Joined

(* What an editor makes of a line is its text, up to a carriage return.    *)
LEMMA BrokenIsText ==
    ASSUME NEW l, l.text \in Seq(Word)
    PROVE  Broken(l) \in Seq(Word) /\ ReadsAs(l.text, Broken(l))
<1> DEFINE t == l.text
           n == Len(t)
           front == SubSeq(t, 1, n - 1)
<1>1. t \in Seq(Word) /\ n \in Nat
  BY LenProperties
<1>2. CASE ~l.cut /\ n > 1 /\ t[n] = Blank
  <2>1. Broken(l) = front
    BY <1>2 DEF Broken, Front, Last
  <2> HIDE DEF t
  <2>2. /\ front \in Seq(Word) /\ Len(front) = n - 1
        /\ \A i \in 1 .. n - 1 : front[i] = t[i]
    <3>1. 1 \in 1 .. n + 1 /\ n - 1 \in 0 .. n /\ 1 <= n - 1 /\ (n - 1) - 1 + 1 = n - 1
      BY <1>1, <1>2
    <3>2. \A i \in 1 .. n - 1 : 1 + i - 1 = i
      BY <1>1
    <3> QED BY <1>1, <3>1, <3>2, SubSeqProperties
  <2> HIDE DEF front
  <2>3. <<Blank>> \in Seq(Word)
    BY AnchorsAssumption
  <2>4. /\ front \o <<Blank>> \in Seq(Word)
        /\ Len(front \o <<Blank>>) = n
        /\ \A i \in 1 .. n : (front \o <<Blank>>)[i] = IF i <= n - 1 THEN front[i] ELSE Blank
    <3>1. Append(front, Blank) = front \o <<Blank>>
      BY <2>2, AnchorsAssumption, AppendIsConcat
    <3>2. /\ Append(front, Blank) \in Seq(Word) /\ Len(Append(front, Blank)) = (n - 1) + 1
          /\ \A i \in 1 .. n - 1 : Append(front, Blank)[i] = front[i]
          /\ Append(front, Blank)[(n - 1) + 1] = Blank
      BY <2>2, AnchorsAssumption, AppendProperties
    <3>3. (n - 1) + 1 = n /\ \A i \in 1 .. n : i \in 1 .. n - 1 \/ (i = n /\ ~(i <= n - 1))
      BY <1>1
    <3> QED BY <3>1, <3>2, <3>3
  <2>5. \A i \in 1 .. n : (front \o <<Blank>>)[i] = t[i]
    <3>1. \A i \in 1 .. n : (i \in 1 .. n - 1 /\ i <= n - 1) \/ (i = n /\ ~(i <= n - 1))
      BY <1>1
    <3> QED BY <1>2, <2>2, <2>4, <3>1
  <2>6. t = front \o <<Blank>>
    BY <1>1, <2>4, <2>5, SeqEqual
  <2> QED BY <2>1, <2>2, <2>6 DEF ReadsAs, t
<1>3. CASE ~(~l.cut /\ n > 1 /\ t[n] = Blank)
  <2>1. Broken(l) = t
    BY <1>3 DEF Broken, Last
  <2> QED BY <1>1, <2>1 DEF ReadsAs
<1> QED BY <1>2, <1>3

(* The lines an editor shows of a content are lines.                       *)
LEMMA DocumentLinesAreLines ==
    ASSUME NEW content \in Content
    PROVE  DocumentLines(content) \in Document
<1> DEFINE parts == [i \in DOMAIN content |->
                        [j \in DOMAIN Broken(content[i]) |-> <<Broken(content[i])[j]>>]]
           final == IF content # <<>> /\ Last(content).cut THEN <<>> ELSE <<<<Blank>>>>
<1>1. /\ Len(content) \in Nat /\ DOMAIN content = 1 .. Len(content)
      /\ \A i \in DOMAIN content : Broken(content[i]) \in Seq(Word)
  <2> DEFINE L == [text : Seq(Word), cut : BOOLEAN]
  <2>1. content \in Seq(L)
    BY DEF Content
  <2>2. \A l \in L : l.text \in Seq(Word)
    OBVIOUS
  <2> HIDE DEF L
  <2> QED BY <2>1, <2>2, LenProperties, BrokenIsText
<1>2. ASSUME NEW i \in DOMAIN content
      PROVE  [j \in DOMAIN Broken(content[i]) |-> <<Broken(content[i])[j]>>] \in Seq(Text)
  <2> DEFINE t == Broken(content[i])
  <2>1. t \in Seq(Word) /\ Len(t) \in Nat /\ DOMAIN t = 1 .. Len(t)
        /\ \A j \in DOMAIN t : t[j] \in Word
    BY <1>1, LenProperties
  <2> HIDE DEF t
  <2>2. \A j \in DOMAIN t : <<t[j]>> \in Text
    BY <2>1 DEF Text
  <2>3. [j \in DOMAIN t |-> <<t[j]>>] \in [1 .. Len(t) -> Text]
    BY <2>1, <2>2
  <2>4. [j \in DOMAIN t |-> <<t[j]>>] \in Seq(Text)
    BY <2>1, <2>3, FunctionIsSeq
  <2> QED BY <2>4 DEF t
<1>3. parts \in [1 .. Len(content) -> Seq(Text)]
  BY <1>1, <1>2
<1>4. FlattenSeq(parts) \in Seq(Text)
  <2> HIDE DEF parts
  <2>1. parts \in Seq(Seq(Text))
    BY <1>1, <1>3, FunctionIsSeq
  <2> QED BY <2>1, FlatIsSeq
<1>5. final \in Seq(Text)
  BY AnchorsAssumption DEF Text
<1>6. DocumentLines(content) = FlattenSeq(parts) \o final
  BY DEF DocumentLines
<1> HIDE DEF parts, final
<1> QED BY <1>4, <1>5, <1>6, ConcatProperties DEF Document

-----------------------------------------------------------------------------
(* Counting.                                                               *)

LEMMA LeastNumber ==
    ASSUME NEW S, S \subseteq Nat, S # {}
    PROVE  \E x \in S : \A y \in S : x <= y
<1>1. PICK x \in S : \A y \in S : ~(<<y, x>> \in OpToRel(<, Nat))
  BY NatLessThanWellFounded, WFMin
<1>2. \A y \in S : y < x => <<y, x>> \in OpToRel(<, Nat)
  BY DEF OpToRel
<1>3. \A y \in S : ~(y < x)
  BY <1>1, <1>2
<1>4. \A y \in S : x <= y
  BY <1>3
<1> QED BY <1>4

LEMMA GreatestNumber ==
    ASSUME NEW n \in Nat, NEW S, S \subseteq 0 .. n, S # {}
    PROVE  \E x \in S : \A y \in S : y <= x
<1> DEFINE T == {n - y : y \in S}
<1>1. T \subseteq Nat /\ T # {}
  <2>1. \A y \in S : n - y \in Nat
    OBVIOUS
  <2> QED BY <2>1
<1>2. PICK m \in T : \A k \in T : m <= k
  <2> HIDE DEF T
  <2> QED BY <1>1, LeastNumber
<1>3. PICK x \in S : m = n - x
  OBVIOUS
<1>4. \A y \in S : n - x <= n - y
  BY <1>2, <1>3
<1>5. \A y \in S : y <= x
  BY <1>4
<1> QED BY <1>5

Positive(S) == \A k \in S : k \in Nat /\ k > 0

(* How many members of a set are up to a number.                           *)
Rank(S, i) == Cardinality({k \in S : k <= i})

LEMMA RankStep ==
    ASSUME NEW S, Positive(S), NEW i \in Nat
    PROVE  /\ IsFiniteSet({k \in S : k <= i})
           /\ Rank(S, i) \in Nat
           /\ Rank(S, 0) = 0
           /\ Rank(S, i + 1) = Rank(S, i) + IF i + 1 \in S THEN 1 ELSE 0
<1>1. IsFiniteSet({k \in S : k <= i}) /\ Rank(S, i) \in Nat
  <2>1. {k \in S : k <= i} \in SUBSET Nat /\ \A k \in {j \in S : j <= i} : k <= i
    BY DEF Positive
  <2>2. IsFiniteSet({k \in S : k <= i})
    BY <2>1, FS_BoundedSetOfNaturals
  <2> QED BY <2>2, FS_CardinalityType DEF Rank
<1>2. Rank(S, 0) = 0
  <2>1. {k \in S : k <= 0} = {}
    BY DEF Positive
  <2> QED BY <2>1, FS_EmptySet DEF Rank
<1>3. CASE i + 1 \in S
  <2>1. \A k \in S : k <= i + 1 <=> k <= i \/ k = i + 1
    BY DEF Positive
  <2>2. {k \in S : k <= i + 1} = {k \in S : k <= i} \cup {i + 1}
    BY <1>3, <2>1
  <2>3. i + 1 \notin {k \in S : k <= i}
    OBVIOUS
  <2> QED BY <1>1, <1>2, <1>3, <2>2, <2>3, FS_AddElement DEF Rank
<1>4. CASE i + 1 \notin S
  <2>1. \A k \in S : k <= i + 1 <=> k <= i
    BY <1>4 DEF Positive
  <2>2. {k \in S : k <= i + 1} = {k \in S : k <= i}
    BY <2>1
  <2> QED BY <1>1, <1>2, <1>4, <2>2 DEF Rank
<1> QED BY <1>3, <1>4

LEMMA RankGrows ==
    ASSUME NEW S, Positive(S), NEW i \in Nat, NEW j \in Nat, i <= j
    PROVE  /\ Rank(S, i) \in Nat /\ Rank(S, j) \in Nat
           /\ Rank(S, i) <= Rank(S, j)
           /\ i < j /\ j \in S => Rank(S, i) < Rank(S, j)
<1>1. /\ IsFiniteSet({k \in S : k <= i}) /\ IsFiniteSet({k \in S : k <= j})
      /\ Rank(S, i) \in Nat /\ Rank(S, j) \in Nat
  BY RankStep
<1>2. {k \in S : k <= i} \in SUBSET {k \in S : k <= j}
  BY DEF Positive
<1>3. /\ Rank(S, i) <= Rank(S, j)
      /\ Rank(S, i) = Rank(S, j) => {k \in S : k <= i} = {k \in S : k <= j}
  BY <1>1, <1>2, FS_Subset DEF Rank
<1>4. i < j /\ j \in S => j \in {k \in S : k <= j} /\ j \notin {k \in S : k <= i}
  OBVIOUS
<1>5. i < j /\ j \in S => Rank(S, i) # Rank(S, j)
  BY <1>3, <1>4
<1> QED BY <1>1, <1>3, <1>5

LEMMA RankTells ==
    ASSUME NEW S, Positive(S), NEW i \in S, NEW j \in S, Rank(S, i) = Rank(S, j)
    PROVE  i = j
<1>1. i \in Nat /\ j \in Nat
  BY DEF Positive
<1>2. ~(i < j)
  BY <1>1, RankGrows
<1>3. ~(j < i)
  BY <1>1, RankGrows
<1> QED BY <1>1, <1>2, <1>3

(* Every number up to the cardinality is the rank of a member.             *)
LEMMA RankReaches ==
    ASSUME NEW n \in Nat, NEW S, S \subseteq 1 .. n
    PROVE  /\ IsFiniteSet(S) /\ Cardinality(S) \in Nat
           /\ Rank(S, n) = Cardinality(S)
           /\ \A i \in S : Rank(S, i) \in 1 .. Cardinality(S)
           /\ \A h \in 1 .. Cardinality(S) : \E i \in S : Rank(S, i) = h
<1>0. Positive(S)
  BY DEF Positive
<1> DEFINE Good == {m \in Nat : \A h \in 1 .. Rank(S, m) : \E i \in S : Rank(S, i) = h}
<1>1. 0 \in Good
  <2>1. Rank(S, 0) = 0
    BY <1>0, RankStep
  <2> QED BY <2>1
<1>2. ASSUME NEW m \in Good PROVE m + 1 \in Good
  <2>1. m \in Nat /\ \A h \in 1 .. Rank(S, m) : \E i \in S : Rank(S, i) = h
    OBVIOUS
  <2>2. /\ Rank(S, m) \in Nat
        /\ Rank(S, m + 1) = Rank(S, m) + IF m + 1 \in S THEN 1 ELSE 0
    BY <1>0, <2>1, RankStep
  <2>3. ASSUME NEW h \in 1 .. Rank(S, m + 1) PROVE \E i \in S : Rank(S, i) = h
    <3>1. CASE h \in 1 .. Rank(S, m)
      BY <2>1, <3>1
    <3>2. CASE h \notin 1 .. Rank(S, m)
      <4>1. m + 1 \in S /\ Rank(S, m + 1) = h
        BY <2>2, <3>2
      <4> QED BY <4>1
    <3> QED BY <3>1, <3>2
  <2> QED BY <2>1, <2>3
<1>3. Good = Nat
  <2>1. Good \subseteq Nat
    OBVIOUS
  <2> HIDE DEF Good
  <2> QED BY <1>1, <1>2, <2>1, SetInduction
<1>4. {k \in S : k <= n} = S
  <2>1. \A k \in S : k <= n
    OBVIOUS
  <2> QED BY <2>1
<1>5. Rank(S, n) = Cardinality(S)
  BY <1>4 DEF Rank
<1>6. IsFiniteSet(S) /\ Cardinality(S) \in Nat
  BY <1>0, <1>4, <1>5, RankStep
<1>7. ASSUME NEW i \in S PROVE Rank(S, i) \in 1 .. Cardinality(S)
  <2>1. i \in Nat /\ i - 1 \in Nat /\ i - 1 < i /\ i <= n
    OBVIOUS
  <2>2. Rank(S, i - 1) \in Nat /\ Rank(S, i - 1) < Rank(S, i) /\ Rank(S, i) <= Rank(S, n)
        /\ Rank(S, i) \in Nat
    BY <1>0, <2>1, RankGrows
  <2> QED BY <1>5, <1>6, <2>2
<1> QED BY <1>3, <1>5, <1>6, <1>7

(* The member of a rank.                                                   *)
Ranked(S, h) == CHOOSE i \in S : Rank(S, i) = h

LEMMA RankedIs ==
    ASSUME NEW n \in Nat, NEW S, S \subseteq 1 .. n
    PROVE  /\ \A h \in 1 .. Cardinality(S) : Ranked(S, h) \in S /\ Rank(S, Ranked(S, h)) = h
           /\ \A i \in S : Ranked(S, Rank(S, i)) = i
<1>1. \A h \in 1 .. Cardinality(S) : Ranked(S, h) \in S /\ Rank(S, Ranked(S, h)) = h
  BY RankReaches DEF Ranked
<1>2. ASSUME NEW i \in S PROVE Ranked(S, Rank(S, i)) = i
  <2>1. Ranked(S, Rank(S, i)) \in S /\ Rank(S, Ranked(S, Rank(S, i))) = Rank(S, i)
    BY RankReaches, <1>1
  <2>2. Positive(S)
    BY DEF Positive
  <2> QED BY <2>1, <2>2, RankTells
<1> QED BY <1>1, <1>2

(* A map onto a set that keeps the order keeps the ranks.                  *)
KeepsOrder(f, S, T) ==
    /\ f \in [S -> T]
    /\ \A i, j \in S : i < j => f[i] < f[j]
    /\ \A k \in T : \E i \in S : f[i] = k

LEMMA RankKept ==
    ASSUME NEW S, Positive(S), NEW T, Positive(T), NEW f, KeepsOrder(f, S, T), NEW i \in S
    PROVE  Rank(T, f[i]) = Rank(S, i)
<1> USE DEF KeepsOrder
<1> DEFINE A == {k \in S : k <= i}
           B == {k \in T : k <= f[i]}
           g == [k \in A |-> f[k]]
<1>0. \A j, k \in S : f[j] \in Nat /\ j \in Nat /\ (f[j] = f[k] => j = k) /\ (f[j] <= f[k] => j <= k)
                     /\ (j <= k => f[j] <= f[k])
  <2> TAKE j, k \in S
  <2>1. j \in Nat /\ k \in Nat /\ f[j] \in Nat /\ f[k] \in Nat
    BY DEF Positive
  <2>2. j < k \/ j = k \/ k < j
    BY <2>1
  <2> QED BY <2>1, <2>2
<1>1. g \in [A -> B]
  BY <1>0
<1>2. \A j, k \in A : g[j] = g[k] => j = k
  BY <1>0
<1>3. \A k \in B : \E j \in A : g[j] = k
  <2> TAKE k \in B
  <2>1. PICK j \in S : f[j] = k
    OBVIOUS
  <2>2. j \in A /\ g[j] = k
    BY <1>0, <2>1
  <2> QED BY <2>2
<1>4. ExistsBijection(A, B)
  <2> HIDE DEF A, B, g
  <2>1. g \in Bijection(A, B)
    BY <1>1, <1>2, <1>3 DEF Bijection, Injection, Surjection, IsInjective
  <2> QED BY <2>1 DEF ExistsBijection
<1>5. IsFiniteSet(A)
  <2>1. i \in Nat
    BY DEF Positive
  <2> QED BY <2>1, RankStep
<1>6. Cardinality(B) = Cardinality(A)
  <2> HIDE DEF A, B
  <2> QED BY <1>4, <1>5, FS_Bijection
<1> QED BY <1>6 DEF Rank

-----------------------------------------------------------------------------
(* What is read of a hunk.                                                 *)

(* The states of the parser, from the header of a hunk to its last line.   *)
ReadFrom(r, printed) ==
    /\ r[0] = [lines |-> <<>>, old |-> printed.oldStart, new |-> printed.newStart]
    /\ \A i \in 1 .. Len(printed.body) : r[i] = ReadLine(r[i - 1], printed.body[i])
    /\ r[Len(printed.body)] = ReadHunk(printed)

LEMMA HunksAreReadInTurn ==
    ASSUME NEW printed, Len(printed.body) \in Nat
    PROVE  \E r : ReadFrom(r, printed)
<1> DEFINE n == Len(printed.body)
           first == [lines |-> <<>>, old |-> printed.oldStart, new |-> printed.newStart]
           Value(g, i) == IF i = 0 THEN first ELSE ReadLine(g[i - 1], printed.body[i])
           Reads(g, k) == g = [i \in 0 .. k |-> Value(g, i)]
           Exists == {k \in Nat : \E g : Reads(g, k)}
<1>1. Exists = Nat
  <2>1. 0 \in Exists
    <3> DEFINE g == [i \in 0 .. 0 |-> first]
    <3>1. \A i \in 0 .. 0 : i = 0
      OBVIOUS
    <3>2. g = [i \in 0 .. 0 |-> Value(g, i)]
      BY <3>1
    <3> HIDE DEF g, Value
    <3> QED BY <3>2
  <2>2. ASSUME NEW k \in Exists PROVE k + 1 \in Exists
    <3>1. k \in Nat /\ \E g : Reads(g, k)
      OBVIOUS
    <3>2. PICK g : Reads(g, k)
      BY <3>1
    <3> DEFINE h == [i \in 0 .. k + 1 |-> IF i = k + 1 THEN Value(g, i) ELSE g[i]]
    <3>3. \A i \in 0 .. k + 1 : h[i] = Value(h, i)
      <4> TAKE i \in 0 .. k + 1
      <4>1. i = 0 \/ i - 1 \in 0 .. k
        BY <3>1
      <4>2. i - 1 \in 0 .. k => h[i - 1] = g[i - 1]
        BY <3>1
      <4>3. Value(h, i) = Value(g, i)
        <5> HIDE DEF h, first
        <5> QED BY <4>1, <4>2
      <4>4. i \in 0 .. k => g[i] = Value(g, i)
        <5> HIDE DEF Value
        <5> QED BY <3>2
      <4>5. h[i] = Value(g, i)
        <5> HIDE DEF Value
        <5> QED BY <3>1, <4>4
      <4> QED BY <4>3, <4>5
    <3>4. Reads(h, k + 1)
      <4>1. h = [i \in 0 .. k + 1 |-> h[i]]
        OBVIOUS
      <4> HIDE DEF h, Value
      <4> QED BY <3>3, <4>1
    <3> HIDE DEF h, Reads
    <3> QED BY <3>1, <3>4
  <2>3. Exists \subseteq Nat
    OBVIOUS
  <2> HIDE DEF Exists
  <2> QED BY <2>1, <2>2, <2>3, SetInduction
<1> DEFINE r == CHOOSE g : Reads(g, n)
<1>2. Reads(r, n)
  <2>1. \E g : Reads(g, n)
    <3> HIDE DEF Reads
    <3> QED BY <1>1
  <2> HIDE DEF Reads
  <2> QED BY <2>1
<1>3. ReadHunk(printed) = r[n]
  BY DEF ReadHunk
<1> HIDE DEF r
<1>4. \A i \in 0 .. n : r[i] = Value(r, i)
  <2> HIDE DEF Value
  <2> QED BY <1>2
<1>5. r[0] = first
  <2>1. 0 \in 0 .. n
    OBVIOUS
  <2> HIDE DEF first, n
  <2> QED BY <1>4, <2>1
<1>6. \A i \in 1 .. n : r[i] = ReadLine(r[i - 1], printed.body[i])
  <2> TAKE i \in 1 .. n
  <2>1. i \in 0 .. n /\ i # 0
    OBVIOUS
  <2> HIDE DEF first, n
  <2> QED BY <1>4, <2>1
<1> QED BY <1>3, <1>5, <1>6 DEF ReadFrom

Mark == {" ", "-", "+"}
GitLine == [text : Seq(Word), cut : BOOLEAN]
Script == Seq([mark : Mark, line : GitLine])

(* The entries of a script that are lines of a side.                       *)
On(side, s) == {k \in DOMAIN s : s[k].mark \in Marks(side)}

(* The number of an entry's line on a side, and what is read of it.        *)
Number(side, s, k) == IF s[k].mark \in Marks(side) THEN Rank(On(side, s), k) ELSE 0

ReadOf(s, k) ==
    [mark |-> s[k].mark, text |-> s[k].line.text, cut |-> s[k].line.cut,
     old |-> Number("old", s, k), new |-> Number("new", s, k)]

LEMMA ScriptParts ==
    ASSUME NEW s \in Script
    PROVE  /\ Len(s) \in Nat /\ DOMAIN s = 1 .. Len(s)
           /\ \A k \in 1 .. Len(s) :
                 /\ s[k].mark \in Mark /\ s[k].line \in GitLine
                 /\ s[k].line.text \in Seq(Word) /\ s[k].line.cut \in BOOLEAN
           /\ \A side \in Side : Positive(On(side, s)) /\ On(side, s) \subseteq 1 .. Len(s)
<1>1. Len(s) \in Nat /\ DOMAIN s = 1 .. Len(s)
      /\ \A k \in 1 .. Len(s) : s[k] \in [mark : Mark, line : GitLine]
  BY LenProperties DEF Script
<1>2. \A k \in 1 .. Len(s) : s[k].mark \in Mark /\ s[k].line \in GitLine
  <2> HIDE DEF Mark, GitLine
  <2> QED BY <1>1
<1>3. \A l \in GitLine : l.text \in Seq(Word) /\ l.cut \in BOOLEAN
  BY DEF GitLine
<1>4. \A side \in Side : Positive(On(side, s)) /\ On(side, s) \subseteq 1 .. Len(s)
  BY <1>1 DEF On, Positive
<1> QED BY <1>1, <1>2, <1>3, <1>4

LEMMA ReachedCounts ==
    ASSUME NEW m \in Nat, NEW marks, NEW side \in Side, NEW i \in 0 .. m
    PROVE  Reached(side, marks, i) = Rank({k \in 1 .. m : marks[k] \in Marks(side)}, i)
<1> DEFINE S == {k \in 1 .. m : marks[k] \in Marks(side)}
<1>1. {k \in 1 .. i : marks[k] \in Marks(side)} \subseteq {k \in S : k <= i}
  OBVIOUS
<1>2. {k \in S : k <= i} \subseteq {k \in 1 .. i : marks[k] \in Marks(side)}
  OBVIOUS
<1> QED BY <1>1, <1>2 DEF Reached, Rank

LEMMA ReachedIsRank ==
    ASSUME NEW s \in Script, NEW side \in Side, NEW i \in 0 .. Len(s)
    PROVE  Reached(side, [k \in DOMAIN s |-> s[k].mark], i) = Rank(On(side, s), i)
<1> DEFINE marks == [k \in DOMAIN s |-> s[k].mark]
           S == {k \in 1 .. Len(s) : marks[k] \in Marks(side)}
<1>1. Len(s) \in Nat /\ DOMAIN s = 1 .. Len(s)
  BY ScriptParts
<1>2. S = On(side, s)
  <2>1. \A k \in 1 .. Len(s) : marks[k] = s[k].mark
    BY <1>1
  <2> HIDE DEF marks
  <2> QED BY <1>1, <2>1 DEF On
<1> HIDE DEF marks
<1>3. Reached(side, marks, i) = Rank(S, i)
  BY <1>1, ReachedCounts
<1> QED BY <1>2, <1>3 DEF marks

(* A hunk is printed of the entries from first to last.                    *)
EntriesOf(s, first, last) == [i \in 1 .. last - first + 1 |-> Printed(s[first + i - 1])]

Counted(side, s, first, last) == Rank(On(side, s), last) - Rank(On(side, s), first - 1)

StartOf(side, s, first, last) ==
    Rank(On(side, s), first - 1) + (IF Counted(side, s, first, last) = 0 THEN 0 ELSE 1)

LEMMA HunkParts ==
    ASSUME NEW s \in Script, NEW first \in DOMAIN s, NEW last \in DOMAIN s, first <= last
    PROVE  HunkAt(s, first, last) =
              [oldStart |-> StartOf("old", s, first, last),
               oldLines |-> Counted("old", s, first, last),
               newStart |-> StartOf("new", s, first, last),
               newLines |-> Counted("new", s, first, last),
               body |-> FlattenSeq(EntriesOf(s, first, last))]
<1> DEFINE marks == [k \in DOMAIN s |-> s[k].mark]
<1>1. first - 1 \in 0 .. Len(s) /\ last \in 0 .. Len(s)
  BY ScriptParts
<1>2. "old" \in Side /\ "new" \in Side
  BY DEF Side
<1>3. /\ Reached("old", marks, first - 1) = Rank(On("old", s), first - 1)
      /\ Reached("new", marks, first - 1) = Rank(On("new", s), first - 1)
      /\ Reached("old", marks, last) = Rank(On("old", s), last)
      /\ Reached("new", marks, last) = Rank(On("new", s), last)
  BY <1>1, <1>2, ReachedIsRank
<1> QED BY <1>3 DEF HunkAt, StartOf, Counted, EntriesOf

(* What the parser has read after the first i entries of a hunk.           *)
ReadUpTo(s, first, last, i) ==
    [lines |-> [j \in 1 .. i |-> ReadOf(s, first + j - 1)],
     old |-> StartOf("old", s, first, last) + Counted("old", s, first, first + i - 1),
     new |-> StartOf("new", s, first, last) + Counted("new", s, first, first + i - 1)]

LEMMA SidesAdvance ==
    ASSUME NEW s \in Script, NEW first \in DOMAIN s, NEW last \in DOMAIN s,
           NEW i \in Nat, first + i \in first .. last, NEW side \in Side
    PROVE  LET k == first + i
               now == StartOf(side, s, first, last) + Counted(side, s, first, k - 1)
           IN  /\ now \in Nat
               /\ StartOf(side, s, first, last) + Counted(side, s, first, k)
                    = now + (IF s[k].mark \in Marks(side) THEN 1 ELSE 0)
               /\ s[k].mark \in Marks(side) => now = Rank(On(side, s), k) /\ now >= 1
               /\ Counted(side, s, first, first - 1) = 0
<1> DEFINE S == On(side, s)
           k == first + i
<1>1. /\ Len(s) \in Nat /\ first \in 1 .. Len(s) /\ last \in 1 .. Len(s) /\ Positive(S)
      /\ k \in DOMAIN s
  BY ScriptParts
<1>2. k \in S <=> s[k].mark \in Marks(side)
  BY <1>1 DEF On
<1> HIDE DEF S
<1>3. /\ first - 1 \in Nat /\ k - 1 \in Nat /\ k \in Nat /\ last \in Nat
      /\ first - 1 <= k - 1 /\ k <= last /\ (k - 1) + 1 = k
  BY <1>1
<1> HIDE DEF k
<1>4. /\ Rank(S, first - 1) \in Nat /\ Rank(S, k - 1) \in Nat
      /\ Rank(S, first - 1) <= Rank(S, k - 1)
  BY <1>1, <1>3, RankGrows
<1>5. Rank(S, k) \in Nat /\ Rank(S, last) \in Nat /\ Rank(S, k) <= Rank(S, last)
  BY <1>1, <1>3, RankGrows
<1>6. Rank(S, k) = Rank(S, k - 1) + IF k \in S THEN 1 ELSE 0
  <2>1. Rank(S, (k - 1) + 1) = Rank(S, k - 1) + IF (k - 1) + 1 \in S THEN 1 ELSE 0
    BY <1>1, <1>3, RankStep
  <2> QED BY <1>3, <2>1
<1> DEFINE now == StartOf(side, s, first, last) + Counted(side, s, first, k - 1)
<1>7. /\ now = Rank(S, k - 1) + (IF Rank(S, last) - Rank(S, first - 1) = 0 THEN 0 ELSE 1)
      /\ StartOf(side, s, first, last) + Counted(side, s, first, k)
           = Rank(S, k) + (IF Rank(S, last) - Rank(S, first - 1) = 0 THEN 0 ELSE 1)
  BY <1>4, <1>5 DEF StartOf, Counted, S
<1>8. Counted(side, s, first, first - 1) = 0
  BY <1>4 DEF Counted, S
<1> HIDE DEF now
<1>9. /\ now \in Nat
      /\ StartOf(side, s, first, last) + Counted(side, s, first, k)
           = now + (IF k \in S THEN 1 ELSE 0)
      /\ k \in S => now = Rank(S, k) /\ now >= 1
  BY <1>4, <1>5, <1>6, <1>7
<1> QED BY <1>2, <1>8, <1>9 DEF now, k, S

LEMMA ReadGoesOn ==
    ASSUME NEW s \in Script, NEW first \in DOMAIN s, NEW last \in DOMAIN s,
           NEW i \in Nat, first + i \in first .. last
    PROVE  LET k == first + i
               now == ReadUpTo(s, first, last, i)
               plain == ReadLine(now, [mark |-> s[k].mark, text |-> s[k].line.text])
           IN  IF s[k].line.cut
               THEN ReadLine(plain, [mark |-> "\\", text |-> <<Blank>>])
                      = ReadUpTo(s, first, last, i + 1)
               ELSE plain = ReadUpTo(s, first, last, i + 1)
<1> DEFINE k == first + i
           now == ReadUpTo(s, first, last, i)
           next == ReadUpTo(s, first, last, i + 1)
           e == [mark |-> s[k].mark, text |-> s[k].line.text]
           plain == ReadLine(now, e)
           l == [mark |-> s[k].mark, text |-> s[k].line.text, cut |-> FALSE,
                 old |-> Number("old", s, k), new |-> Number("new", s, k)]
<1>1. k \in 1 .. Len(s) /\ first \in 1 .. Len(s) /\ k \in DOMAIN s /\ Len(s) \in Nat
  BY ScriptParts
<1>2. "old" \in Side /\ "new" \in Side
  BY DEF Side
<1>3. s[k].mark \in Mark /\ s[k].line.cut \in BOOLEAN
  BY <1>1, ScriptParts
<1>4. first + (i + 1) - 1 = k /\ first + i - 1 = k - 1
  BY <1>1
<1>5. /\ next.old = now.old + (IF s[k].mark \in Marks("old") THEN 1 ELSE 0)
      /\ next.new = now.new + (IF s[k].mark \in Marks("new") THEN 1 ELSE 0)
      /\ s[k].mark \in Marks("old") => now.old = Rank(On("old", s), k)
      /\ s[k].mark \in Marks("new") => now.new = Rank(On("new", s), k)
  BY <1>2, <1>4, SidesAdvance DEF ReadUpTo
<1>6. /\ now.lines = [j \in 1 .. i |-> ReadOf(s, first + j - 1)]
      /\ next.lines = [j \in 1 .. i + 1 |-> ReadOf(s, first + j - 1)]
      /\ next = [lines |-> next.lines, old |-> next.old, new |-> next.new]
  BY DEF ReadUpTo
<1>7. Numbered(now, e) = l
  <2>1. e.mark = s[k].mark /\ e.text = s[k].line.text
    OBVIOUS
  <2>2. /\ (IF s[k].mark \in Marks("old") THEN now.old ELSE 0) = Number("old", s, k)
        /\ (IF s[k].mark \in Marks("new") THEN now.new ELSE 0) = Number("new", s, k)
    <3> HIDE DEF now, k
    <3> QED BY <1>5 DEF Number
  <2> HIDE DEF now, e, k
  <2> QED BY <2>1, <2>2 DEF Numbered
<1>8. s[k].mark # "\\"
  BY <1>3 DEF Mark
<1>9. plain = [lines |-> Append(now.lines, l), old |-> next.old, new |-> next.new]
  <2> HIDE DEF now, next, l
  <2> QED BY <1>5, <1>7, <1>8 DEF ReadLine
<1>10. /\ Len(now.lines) = i /\ Len(Append(now.lines, l)) = i + 1
       /\ Append(now.lines, l) = [j \in 1 .. i + 1 |-> IF j = i + 1 THEN l ELSE ReadOf(s, first + j - 1)]
  <2> DEFINE D == {ReadOf(s, first + j - 1) : j \in 1 .. i}
  <2>1. now.lines \in [1 .. i -> D]
    BY <1>6
  <2> HIDE DEF D, l, now
  <2>2. \A j \in 1 .. i : now.lines[j] = ReadOf(s, first + j - 1)
    BY <1>6
  <2>3. /\ Append(now.lines, l) = [j \in 1 .. i + 1 |-> IF j = i + 1 THEN l ELSE now.lines[j]]
        /\ Len(now.lines) = i /\ Len(Append(now.lines, l)) = i + 1
    BY <2>1, AppendIs
  <2> QED BY <2>2, <2>3
<1>11. CASE ~s[k].line.cut
  <2>1. l = ReadOf(s, k)
    <3>1. s[k].line.cut = FALSE
      BY <1>3, <1>11
    <3> HIDE DEF k
    <3> QED BY <3>1 DEF ReadOf
  <2>2. Append(now.lines, l) = next.lines
    <3> HIDE DEF l, now, next
    <3>1. \A j \in 1 .. i + 1 : (IF j = i + 1 THEN l ELSE ReadOf(s, first + j - 1)) = ReadOf(s, first + j - 1)
      BY <1>4, <2>1
    <3> QED BY <1>6, <1>10, <3>1
  <2>3. plain = next
    <3> HIDE DEF l, now, next, plain
    <3> QED BY <1>6, <1>9, <2>2
  <2> QED BY <1>11, <2>3
<1>12. CASE s[k].line.cut
  <2> DEFINE m == [mark |-> "\\", text |-> <<Blank>>]
  <2>1. Len(plain.lines) = i + 1
    <3> HIDE DEF l, now, next, plain
    <3>1. plain.lines = Append(now.lines, l)
      BY <1>9
    <3> QED BY <1>10, <3>1
  <2>2. ReadLine(plain, m) = [plain EXCEPT !.lines[i + 1].cut = TRUE]
    <3> HIDE DEF plain
    <3> QED BY <2>1 DEF ReadLine
  <2>3. [l EXCEPT !.cut = TRUE] = ReadOf(s, k)
    <3> DEFINE a == s[k].mark
               b == s[k].line.text
               c == Number("old", s, k)
               d == Number("new", s, k)
               no == FALSE
               yes == TRUE
    <3>1. s[k].line.cut = TRUE
      BY <1>3, <1>12
    <3>2. ReadOf(s, k) = [mark |-> a, text |-> b, cut |-> TRUE, old |-> c, new |-> d]
      <4> HIDE DEF k
      <4> QED BY <3>1 DEF ReadOf
    <3>3. l = [mark |-> a, text |-> b, cut |-> no, old |-> c, new |-> d]
      OBVIOUS
    <3> HIDE DEF a, b, c, d, l, k, no, yes
    <3>4. [l EXCEPT !.cut = yes] = [mark |-> a, text |-> b, cut |-> yes, old |-> c, new |-> d]
      BY <3>3
    <3> QED BY <3>2, <3>4 DEF yes
  <2>4. [plain.lines EXCEPT ![i + 1].cut = TRUE] = next.lines
    <3> HIDE DEF l, now, next, plain
    <3>1. plain.lines = [j \in 1 .. i + 1 |-> IF j = i + 1 THEN l ELSE ReadOf(s, first + j - 1)]
      BY <1>9, <1>10
    <3>2. [plain.lines EXCEPT ![i + 1].cut = TRUE]
            = [j \in 1 .. i + 1 |-> IF j = i + 1 THEN [l EXCEPT !.cut = TRUE] ELSE ReadOf(s, first + j - 1)]
      BY <3>1
    <3>3. \A j \in 1 .. i + 1 : (IF j = i + 1 THEN [l EXCEPT !.cut = TRUE] ELSE ReadOf(s, first + j - 1)) = ReadOf(s, first + j - 1)
      BY <1>4, <2>3
    <3> QED BY <1>6, <3>2, <3>3
  <2>5. [plain EXCEPT !.lines[i + 1].cut = TRUE]
          = [lines |-> [plain.lines EXCEPT ![i + 1].cut = TRUE], old |-> next.old, new |-> next.new]
    <3> DEFINE a == Append(now.lines, l)
    <3>1. plain = [lines |-> a, old |-> next.old, new |-> next.new]
      BY <1>9
    <3> HIDE DEF l, now, next, plain, a
    <3>2. plain.lines = a
      BY <3>1
    <3>3. [plain EXCEPT !.lines = [a EXCEPT ![i + 1].cut = TRUE]]
             = [lines |-> [a EXCEPT ![i + 1].cut = TRUE], old |-> next.old, new |-> next.new]
      BY <3>1
    <3>4. [plain EXCEPT !.lines[i + 1].cut = TRUE] = [plain EXCEPT !.lines = [plain.lines EXCEPT ![i + 1].cut = TRUE]]
      BY <3>1
    <3> QED BY <3>2, <3>3, <3>4
  <2>6. ReadLine(plain, m) = next
    <3> HIDE DEF l, now, next, plain, m
    <3> QED BY <1>6, <2>2, <2>4, <2>5
  <2> QED BY <1>12, <2>6
<1> QED BY <1>3, <1>11, <1>12

LEMMA JoinedBegins ==
    ASSUME NEW S, NEW s \in Seq(Seq(S)), NEW flat \in [0 .. Len(s) -> Seq(S)], Joined(flat, s),
           NEW i \in 0 .. Len(s)
    PROVE  /\ Len(flat[i]) \in Nat /\ Len(flat[i]) <= Len(FlattenSeq(s))
           /\ \A k \in 1 .. Len(flat[i]) : FlattenSeq(s)[k] = flat[i][k]
<1> DEFINE n == Len(s)
           all == FlattenSeq(s)
           Begins(t) == Len(t) \in Nat /\ Len(t) <= Len(all) /\ \A k \in 1 .. Len(t) : all[k] = t[k]
           Good == {d \in Nat : d <= n => Begins(flat[n - d])}
<1>1. n \in Nat /\ \A j \in 1 .. n : s[j] \in Seq(S)
  BY LenProperties
<1>2. /\ \A j \in 1 .. n : flat[j] = flat[j - 1] \o s[j]
      /\ all = flat[n]
      /\ \A j \in 0 .. n : flat[j] \in Seq(S)
  BY DEF Joined
<1> HIDE DEF all, n
<1>3. 0 \in Good
  <2>1. n - 0 = n /\ n \in 0 .. n
    BY <1>1
  <2>2. flat[n] \in Seq(S) /\ Len(flat[n]) \in Nat
    BY <1>2, <2>1, LenProperties
  <2>3. Begins(flat[n])
    BY <1>2, <2>2
  <2> HIDE DEF Begins
  <2> QED BY <2>1, <2>3
<1>4. ASSUME NEW d \in Good PROVE d + 1 \in Good
  <2>1. d \in Nat /\ (d <= n => Begins(flat[n - d]))
    OBVIOUS
  <2>2. SUFFICES ASSUME d + 1 <= n PROVE Begins(flat[n - (d + 1)])
    BY <2>1
  <2> DEFINE j == n - d
             t == flat[j - 1]
  <2>3. j \in 1 .. n /\ j - 1 \in 0 .. n /\ n - (d + 1) = j - 1 /\ j \in 0 .. n
    BY <1>1, <2>1, <2>2
  <2>4. Begins(flat[j])
    <3> HIDE DEF Begins
    <3> QED BY <1>1, <2>1, <2>2
  <2>5. t \in Seq(S) /\ s[j] \in Seq(S) /\ flat[j] = t \o s[j] /\ flat[j] \in Seq(S)
    <3> HIDE DEF j
    <3> QED BY <1>1, <1>2, <2>3
  <2> HIDE DEF t, j
  <2>6. /\ Len(flat[j]) = Len(t) + Len(s[j]) /\ Len(t) \in Nat /\ Len(s[j]) \in Nat
        /\ \A k \in 1 .. Len(t) : flat[j][k] = t[k]
    <3>1. \A k \in 1 .. Len(t) + Len(s[j]) : (t \o s[j])[k] = IF k <= Len(t) THEN t[k] ELSE s[j][k - Len(t)]
      BY <2>5, ConcatProperties
    <3>2. Len(t) \in Nat /\ Len(s[j]) \in Nat /\ Len(t \o s[j]) = Len(t) + Len(s[j])
      BY <2>5, ConcatProperties, LenProperties
    <3>3. \A k \in 1 .. Len(t) : k \in 1 .. Len(t) + Len(s[j]) /\ k <= Len(t)
      BY <3>2
    <3> QED BY <2>5, <3>1, <3>2, <3>3
  <2>7. Begins(t)
    <3>1. Len(t) <= Len(flat[j]) /\ Len(flat[j]) \in Nat /\ \A k \in 1 .. Len(t) : k \in 1 .. Len(flat[j])
      BY <2>6
    <3>2. Len(all) \in Nat
      <4>1. n \in 0 .. n
        BY <1>1
      <4> QED BY <1>2, <4>1, LenProperties
    <3>3. \A k \in 1 .. Len(t) : all[k] = t[k]
      BY <2>4, <2>6, <3>1
    <3>4. Len(t) <= Len(all)
      BY <2>4, <2>6, <3>1, <3>2
    <3> QED BY <2>6, <3>3, <3>4
  <2> HIDE DEF Begins
  <2> QED BY <2>3, <2>7 DEF t
<1>5. Good = Nat
  <2>1. Good \subseteq Nat
    OBVIOUS
  <2> HIDE DEF Good
  <2> QED BY <1>3, <1>4, <2>1, SetInduction
<1>6. n - i \in Nat /\ n - i <= n /\ n - (n - i) = i
  BY <1>1 DEF n
<1>7. Begins(flat[i])
  <2>1. n - i \in Good
    BY <1>5, <1>6
  <2>2. Begins(flat[n - (n - i)])
    <3> HIDE DEF Begins
    <3> QED BY <1>6, <2>1
  <2> HIDE DEF Begins
  <2> QED BY <1>6, <2>2
<1> QED BY <1>7 DEF all

(* What is printed of lines.                                               *)
PrintLine == [mark : Mark \cup {"\\"}, text : Seq(Word)]
Marker == [mark |-> "\\", text |-> <<Blank>>]
Plain(e) == [mark |-> e.mark, text |-> e.line.text]

LEMMA PrintedIs ==
    ASSUME NEW s \in Script, NEW k \in DOMAIN s
    PROVE  /\ Printed(s[k]) \in Seq(PrintLine)
           /\ Len(Printed(s[k])) = IF s[k].line.cut THEN 2 ELSE 1
           /\ Printed(s[k])[1] = Plain(s[k])
           /\ s[k].line.cut => Printed(s[k])[2] = Marker
           /\ Plain(s[k]).mark # "\\"
<1>1. s[k].mark \in Mark /\ s[k].line.text \in Seq(Word)
  BY ScriptParts
<1>2. Plain(s[k]) \in PrintLine /\ Plain(s[k]).mark # "\\"
  BY <1>1 DEF Plain, PrintLine, Mark
<1>3. Marker \in PrintLine
  BY AnchorsAssumption DEF Marker, PrintLine
<1>4. Printed(s[k]) = <<Plain(s[k])>> \o (IF s[k].line.cut THEN <<Marker>> ELSE <<>>)
  BY DEF Printed, Plain, Marker
<1> DEFINE p == Plain(s[k])
           m == Marker
<1>5. p \in PrintLine /\ m \in PrintLine
  BY <1>2, <1>3
<1> HIDE DEF p, m, PrintLine
<1>6. <<p>> \in Seq(PrintLine) /\ <<m>> \in Seq(PrintLine) /\ Len(<<p>>) = 1 /\ Len(<<m>>) = 1
      /\ <<p>>[1] = p /\ <<m>>[1] = m
  BY <1>5
<1>7. CASE s[k].line.cut
  <2>1. Printed(s[k]) = <<p>> \o <<m>>
    BY <1>4, <1>7 DEF p, m
  <2>2. /\ <<p>> \o <<m>> \in Seq(PrintLine)
        /\ Len(<<p>> \o <<m>>) = 2
        /\ (<<p>> \o <<m>>)[1] = p /\ (<<p>> \o <<m>>)[2] = m
    BY <1>6, ConcatProperties
  <2> QED BY <1>2, <1>7, <2>1, <2>2 DEF p, m
<1>8. CASE ~s[k].line.cut
  <2>1. Printed(s[k]) = <<p>>
    <3>1. Printed(s[k]) = <<p>> \o <<>>
      BY <1>4, <1>8 DEF p
    <3> QED BY <1>6, <3>1, ConcatEmptySeq
  <2> QED BY <1>2, <1>6, <1>8, <2>1 DEF p
<1> QED BY <1>7, <1>8

LEMMA EntriesArePrinted ==
    ASSUME NEW s \in Script, NEW first \in DOMAIN s, NEW last \in DOMAIN s, first <= last
    PROVE  /\ EntriesOf(s, first, last) \in Seq(Seq(PrintLine))
           /\ Len(EntriesOf(s, first, last)) = last - first + 1
           /\ \A i \in 1 .. last - first + 1 : EntriesOf(s, first, last)[i] = Printed(s[first + i - 1])
<1>1. /\ last - first + 1 \in Nat
      /\ \A i \in 1 .. last - first + 1 : first + i - 1 \in DOMAIN s
  BY ScriptParts
<1>2. EntriesOf(s, first, last) \in [1 .. last - first + 1 -> Seq(PrintLine)]
  BY <1>1, PrintedIs DEF EntriesOf
<1>3. \A i \in 1 .. last - first + 1 : EntriesOf(s, first, last)[i] = Printed(s[first + i - 1])
  BY DEF EntriesOf
<1> QED BY <1>1, <1>2, <1>3, FunctionIsSeq

(* A marker follows a line.                                                *)
Follow(body) == \A k \in DOMAIN body : body[k].mark = "\\" => k > 1 /\ body[k - 1].mark # "\\"

(* The parser reads each printed line with its marker, and no marker too   *)
(* many.                                                                   *)
LEMMA HunkIsRead ==
    ASSUME NEW s \in Script, NEW first \in DOMAIN s, NEW last \in DOMAIN s, first <= last
    PROVE  LET printed == HunkAt(s, first, last)
           IN  /\ ReadHunk(printed) = ReadUpTo(s, first, last, last - first + 1)
               /\ Follow(printed.body)
<1> DEFINE printed == HunkAt(s, first, last)
           es == EntriesOf(s, first, last)
           n == last - first + 1
           body == FlattenSeq(es)
<1>1. /\ printed.oldStart = StartOf("old", s, first, last)
      /\ printed.newStart = StartOf("new", s, first, last)
      /\ printed.body = body
  BY HunkParts
<1>2. es \in Seq(Seq(PrintLine)) /\ Len(es) = n
      /\ \A i \in 1 .. n : es[i] = Printed(s[first + i - 1])
  BY EntriesArePrinted
<1>3. /\ n \in Nat /\ first \in 1 .. Len(s) /\ last \in 1 .. Len(s) /\ Len(s) \in Nat
      /\ DOMAIN s = 1 .. Len(s)
  BY ScriptParts
<1> HIDE DEF es, n
<1>4. PICK flat \in [0 .. n -> Seq(PrintLine)] : Joined(flat, es)
  BY <1>2, FlatIsJoined
<1>5. /\ flat[0] = <<>> /\ flat[n] = body
      /\ \A i \in 1 .. n : flat[i] = flat[i - 1] \o es[i]
  BY <1>2, <1>4 DEF Joined
<1> HIDE DEF body, printed
<1>6. ASSUME NEW i \in 0 .. n
      PROVE  /\ flat[i] \in Seq(PrintLine) /\ Len(flat[i]) \in Nat /\ Len(flat[i]) <= Len(body)
             /\ \A k \in 1 .. Len(flat[i]) : body[k] = flat[i][k]
  <2>1. i \in 0 .. Len(es) /\ flat \in [0 .. Len(es) -> Seq(PrintLine)] /\ es \in Seq(Seq(PrintLine))
    BY <1>2
  <2>2. flat[i] \in Seq(PrintLine)
    BY <1>4
  <2> QED BY <1>4, <2>1, <2>2, JoinedBegins DEF body
<1>7. body \in Seq(PrintLine) /\ Len(body) \in Nat /\ DOMAIN body = 1 .. Len(body)
  <2>1. n \in 0 .. n
    BY <1>3
  <2> QED BY <1>4, <1>5, <2>1, LenProperties
<1>8. PICK r : ReadFrom(r, printed)
  BY <1>1, <1>7, HunksAreReadInTurn
<1>9. /\ r[0] = [lines |-> <<>>, old |-> printed.oldStart, new |-> printed.newStart]
      /\ \A i \in 1 .. Len(body) : r[i] = ReadLine(r[i - 1], body[i])
      /\ r[Len(body)] = ReadHunk(printed)
  BY <1>1, <1>8 DEF ReadFrom
<1> DEFINE Read(i) == /\ r[Len(flat[i])] = ReadUpTo(s, first, last, i)
                      /\ \A k \in 1 .. Len(flat[i]) :
                            body[k].mark = "\\" => k > 1 /\ body[k - 1].mark # "\\"
           Good == {i \in Nat : i <= n => Read(i)}
<1>10. 0 \in Good
  <2>1. Len(flat[0]) = 0
    BY <1>5
  <2>2. r[0] = ReadUpTo(s, first, last, 0)
    <3>1. /\ Counted("old", s, first, first - 1) = 0
          /\ Counted("new", s, first, first - 1) = 0
          /\ StartOf("old", s, first, last) \in Nat /\ StartOf("new", s, first, last) \in Nat
      <4>1. 0 \in Nat /\ first + 0 = first /\ first + 0 \in first .. last
        BY <1>3
      <4>2. ASSUME NEW side \in Side
            PROVE  Counted(side, s, first, first - 1) = 0 /\ StartOf(side, s, first, last) \in Nat
        <5>1. /\ StartOf(side, s, first, last) + Counted(side, s, first, (first + 0) - 1) \in Nat
              /\ Counted(side, s, first, first - 1) = 0
          BY <4>1, SidesAdvance
        <5>2. Counted(side, s, first, (first + 0) - 1) = 0
          BY <4>1, <5>1
        <5>3. StartOf(side, s, first, last) + 0 \in Nat
          BY <5>1, <5>2
        <5>4. StartOf(side, s, first, last) \in Int
          <6>1. Positive(On(side, s)) /\ first - 1 \in Nat /\ last \in Nat
            BY <1>3, ScriptParts
          <6>2. Rank(On(side, s), first - 1) \in Nat
            BY <6>1, RankStep
          <6> QED BY <6>2 DEF StartOf
        <5> QED BY <5>1, <5>3, <5>4
      <4> QED BY <4>2 DEF Side
    <3>2. first + 0 - 1 = first - 1
      BY <1>3
    <3>3. [j \in 1 .. 0 |-> ReadOf(s, first + j - 1)] = <<>>
      OBVIOUS
    <3> QED BY <1>1, <1>9, <3>1, <3>2, <3>3 DEF ReadUpTo
  <2>3. Read(0)
    BY <2>1, <2>2
  <2> HIDE DEF Read
  <2> QED BY <2>3
<1>11. ASSUME NEW i \in Good PROVE i + 1 \in Good
  <2>1. i \in Nat /\ (i <= n => Read(i))
    OBVIOUS
  <2>2. SUFFICES ASSUME i + 1 <= n PROVE Read(i + 1)
    BY <2>1
  <2> DEFINE k == first + i
             a == flat[i]
             b == flat[i + 1]
             e == Printed(s[k])
             top == Len(a)
  <2>3. /\ i \in 0 .. n /\ i + 1 \in 0 .. n /\ i + 1 \in 1 .. n /\ (i + 1) - 1 = i
        /\ first + (i + 1) - 1 = k /\ k \in first .. last /\ k \in DOMAIN s
    BY <1>3, <2>1, <2>2 DEF n
  <2>4. Read(i)
    <3> HIDE DEF Read
    <3> QED BY <1>3, <2>1, <2>2
  <2>5. b = a \o e /\ a \in Seq(PrintLine) /\ e \in Seq(PrintLine) /\ b \in Seq(PrintLine)
    <3>1. b = a \o es[i + 1] /\ es[i + 1] = e
      <4> HIDE DEF k
      <4> QED BY <1>2, <1>5, <2>3
    <3>2. e \in Seq(PrintLine)
      BY <2>3, PrintedIs
    <3> HIDE DEF k, e
    <3> QED BY <1>4, <2>3, <3>1, <3>2
  <2>6. /\ Len(e) = IF s[k].line.cut THEN 2 ELSE 1
        /\ e[1] = Plain(s[k])
        /\ s[k].line.cut => e[2] = Marker
        /\ Plain(s[k]).mark # "\\"
    BY <2>3, PrintedIs
  <2> HIDE DEF a, b, e, k
  <2>7. /\ Len(b) = top + Len(e) /\ top \in Nat
        /\ \A j \in 1 .. Len(e) : top + j \in 1 .. Len(b) /\ b[top + j] = e[j]
    <3>1. \A j \in 1 .. Len(a) + Len(e) : (a \o e)[j] = IF j <= Len(a) THEN a[j] ELSE e[j - Len(a)]
      BY <2>5, ConcatProperties
    <3>2. Len(a) \in Nat /\ Len(e) \in Nat /\ Len(a \o e) = Len(a) + Len(e)
      BY <2>5, ConcatProperties, LenProperties
    <3>3. \A j \in 1 .. Len(e) : top + j \in 1 .. Len(a) + Len(e) /\ ~(top + j <= Len(a))
                                 /\ (top + j) - Len(a) = j
      BY <3>2
    <3> QED BY <2>5, <3>1, <3>2, <3>3
  <2>8. /\ Len(b) <= Len(body) /\ Len(b) \in Nat
        /\ \A j \in 1 .. Len(b) : j \in 1 .. Len(body) /\ body[j] = b[j]
    <3>1. /\ Len(b) <= Len(body) /\ Len(b) \in Nat /\ \A j \in 1 .. Len(b) : body[j] = b[j]
      BY <1>6, <2>3 DEF b
    <3> QED BY <1>7, <3>1
  <2> HIDE DEF top
  <2>9. Len(e) \in {1, 2} /\ 1 \in 1 .. Len(e)
    BY <2>6
  <2>10. /\ top + 1 \in 1 .. Len(body) /\ body[top + 1] = Plain(s[k])
         /\ (top + 1) - 1 = top
    BY <2>6, <2>7, <2>8, <2>9
  <2>11. r[top] = ReadUpTo(s, first, last, i)
         /\ \A j \in 1 .. top : body[j].mark = "\\" => j > 1 /\ body[j - 1].mark # "\\"
    BY <2>4 DEF top, a
  <2>12. r[top + 1] = ReadLine(ReadUpTo(s, first, last, i), Plain(s[k]))
    BY <1>9, <2>10, <2>11
  <2>13. CASE s[k].line.cut
    <3>1. top + 2 \in 1 .. Len(body) /\ body[top + 2] = Marker /\ (top + 2) - 1 = top + 1
          /\ Len(b) = top + 2
      <4>1. Len(e) = 2 /\ 2 \in 1 .. Len(e)
        BY <2>6, <2>13
      <4> QED BY <2>6, <2>7, <2>8, <2>13, <4>1
    <3>2. r[top + 2] = ReadLine(ReadLine(ReadUpTo(s, first, last, i), Plain(s[k])), Marker)
      BY <1>9, <2>12, <3>1
    <3>3. ReadLine(ReadLine(ReadUpTo(s, first, last, i), Plain(s[k])), Marker)
            = ReadUpTo(s, first, last, i + 1)
      BY <2>1, <2>3, <2>13, ReadGoesOn DEF Plain, Marker, k
    <3>4. \A j \in 1 .. Len(b) : body[j].mark = "\\" => j > 1 /\ body[j - 1].mark # "\\"
      <4> TAKE j \in 1 .. Len(b)
      <4>1. j \in 1 .. top \/ j = top + 1 \/ j = top + 2
        BY <2>7, <3>1
      <4>2. top + 2 > 1
        BY <2>7
      <4> QED BY <2>6, <2>10, <2>11, <3>1, <4>1, <4>2
    <3> QED BY <3>1, <3>2, <3>3, <3>4 DEF b
  <2>14. CASE ~s[k].line.cut
    <3>1. Len(b) = top + 1
      BY <2>6, <2>7, <2>14
    <3>2. ReadLine(ReadUpTo(s, first, last, i), Plain(s[k])) = ReadUpTo(s, first, last, i + 1)
      BY <2>1, <2>3, <2>14, ReadGoesOn DEF Plain, k
    <3>3. \A j \in 1 .. Len(b) : body[j].mark = "\\" => j > 1 /\ body[j - 1].mark # "\\"
      <4> TAKE j \in 1 .. Len(b)
      <4>1. j \in 1 .. top \/ j = top + 1
        BY <2>7, <3>1
      <4> QED BY <2>6, <2>10, <2>11, <4>1
    <3> QED BY <2>12, <3>1, <3>2, <3>3 DEF b
  <2> QED BY <2>13, <2>14
<1>12. Good = Nat
  <2>1. Good \subseteq Nat
    OBVIOUS
  <2> HIDE DEF Good
  <2> QED BY <1>10, <1>11, <2>1, SetInduction
<1>13. Read(n)
  <2>1. n \in Good
    BY <1>3, <1>12
  <2> HIDE DEF Read
  <2> QED BY <1>3, <2>1
<1>14. ReadHunk(printed) = ReadUpTo(s, first, last, n)
  BY <1>5, <1>9, <1>13
<1>15. Follow(printed.body)
  BY <1>1, <1>5, <1>7, <1>13 DEF Follow
<1> QED BY <1>14, <1>15 DEF printed, n

LEMMA HunkIsAccepted ==
    ASSUME NEW s \in Script, NEW first \in DOMAIN s, NEW last \in DOMAIN s, first <= last
    PROVE  HunkAccepted(HunkAt(s, first, last))
<1> DEFINE printed == HunkAt(s, first, last)
           n == last - first + 1
           read == ReadUpTo(s, first, last, n)
<1>1. ReadHunk(printed) = read /\ Follow(printed.body)
  BY HunkIsRead
<1>2. /\ printed.oldStart = StartOf("old", s, first, last)
      /\ printed.oldLines = Counted("old", s, first, last)
      /\ printed.newStart = StartOf("new", s, first, last)
      /\ printed.newLines = Counted("new", s, first, last)
  BY HunkParts
<1>3. /\ n \in Nat /\ first \in 1 .. Len(s) /\ last \in 1 .. Len(s) /\ Len(s) \in Nat
      /\ DOMAIN s = 1 .. Len(s) /\ first + n - 1 = last
  BY ScriptParts
<1>4. ASSUME NEW side \in Side
      PROVE  /\ Counted(side, s, first, last) \in Int /\ StartOf(side, s, first, last) \in Int
             /\ \A k \in On(side, s) : Rank(On(side, s), k) \in Nat /\ Rank(On(side, s), k) >= 1
  <2>1. Positive(On(side, s)) /\ On(side, s) \subseteq 1 .. Len(s) /\ first - 1 \in Nat /\ last \in Nat
    BY <1>3, ScriptParts
  <2>2. Rank(On(side, s), first - 1) \in Nat /\ Rank(On(side, s), last) \in Nat
    BY <2>1, RankStep
  <2>3. \A k \in On(side, s) : Rank(On(side, s), k) \in 1 .. Cardinality(On(side, s))
        /\ Cardinality(On(side, s)) \in Nat
    BY <1>3, <2>1, RankReaches
  <2> QED BY <2>2, <2>3 DEF StartOf, Counted
<1>5. read.old - printed.oldStart = printed.oldLines /\ read.new - printed.newStart = printed.newLines
  <2>1. /\ read.old = StartOf("old", s, first, last) + Counted("old", s, first, last)
        /\ read.new = StartOf("new", s, first, last) + Counted("new", s, first, last)
    <3> HIDE DEF n
    <3> QED BY <1>3 DEF ReadUpTo
  <2>2. /\ Counted("old", s, first, last) \in Int /\ StartOf("old", s, first, last) \in Int
        /\ Counted("new", s, first, last) \in Int /\ StartOf("new", s, first, last) \in Int
    BY <1>4 DEF Side
  <2> HIDE DEF read, printed
  <2> QED BY <1>2, <2>1, <2>2
<1>6. ASSUME NEW i \in DOMAIN read.lines, NEW side \in Side, read.lines[i].mark \in Marks(side)
      PROVE  read.lines[i][side] >= 1
  <2> DEFINE k == first + i - 1
  <2>1. i \in 1 .. n /\ read.lines[i] = ReadOf(s, k)
    BY DEF ReadUpTo
  <2>2. k \in DOMAIN s
    BY <1>3, <2>1
  <2>3. s[k].mark \in Marks(side)
    <3> HIDE DEF k, read
    <3>1. ReadOf(s, k).mark = s[k].mark
      BY DEF ReadOf
    <3> QED BY <1>6, <2>1, <3>1
  <2>4. k \in On(side, s)
    <3> HIDE DEF k
    <3> QED BY <2>2, <2>3 DEF On
  <2> HIDE DEF k, read
  <2>5. ReadOf(s, k)[side] = Number(side, s, k)
    BY DEF ReadOf, Side
  <2>6. Number(side, s, k) = Rank(On(side, s), k)
    BY <2>3 DEF Number
  <2> QED BY <1>4, <2>1, <2>4, <2>5, <2>6
<1> HIDE DEF read, printed
<1>7. HunkAccepted(printed)
  BY <1>1, <1>5, <1>6 DEF HunkAccepted, Follow
<1> QED BY <1>7 DEF printed

-----------------------------------------------------------------------------
(* Hunks.                                                                  *)

(* The entries of a script that are in its hunks.                          *)
Kept(s, context) ==
    {i \in DOMAIN s : \E k \in DOMAIN s : s[k].mark # " " /\ i - k \in -context .. context}

HunkOf(p, s, kept, first, last) ==
    /\ first \in DOMAIN s /\ last \in DOMAIN s /\ first <= last
    /\ first .. last \subseteq kept
    /\ p = HunkAt(s, first, last)

(* The hunks are of runs of kept entries, and every kept entry is in one.  *)
LEMMA HunksAreRuns ==
    ASSUME NEW s \in Script, NEW context \in Nat
    PROVE  LET kept == Kept(s, context)
               hunks == HunksOf(s, context)
           IN  /\ \A h \in DOMAIN hunks : \E first, last \in DOMAIN s :
                     HunkOf(hunks[h], s, kept, first, last)
               /\ \A k \in kept : \E h \in DOMAIN hunks : \E first, last \in DOMAIN s :
                     HunkOf(hunks[h], s, kept, first, last) /\ k \in first .. last
               /\ hunks \in Seq({hunks[h] : h \in DOMAIN hunks})
<1> DEFINE n == Len(s)
           kept == Kept(s, context)
           hunks == HunksOf(s, context)
           firsts == {i \in kept : i - 1 \notin kept}
           lastOf(i) == CHOOSE k \in kept : k >= i /\ k + 1 \notin kept /\ i .. k \subseteq kept
           IsLast(i, k) == k >= i /\ k + 1 \notin kept /\ i .. k \subseteq kept
           first(h) == Ranked(firsts, h)
<1>1. n \in Nat /\ DOMAIN s = 1 .. n
  BY ScriptParts
<1>2. kept \subseteq 1 .. n
  BY <1>1 DEF Kept
<1>3. hunks = [h \in 1 .. Cardinality(firsts) |-> HunkAt(s, first(h), lastOf(first(h)))]
  BY DEF HunksOf, Kept, Ranked, Rank
<1>4. firsts \subseteq 1 .. n
  BY <1>2
<1> HIDE DEF hunks, kept, n
<1>5. ASSUME NEW i \in kept PROVE \E k \in kept : IsLast(i, k)
  <2> DEFINE After == {k \in i .. n : k + 1 \notin kept}
  <2>1. n \in After
    <3>1. i <= n /\ i \in Nat /\ n + 1 \notin 1 .. n
      BY <1>1, <1>2
    <3> QED BY <1>1, <1>2, <3>1
  <2>2. PICK k \in After : \A j \in After : k <= j
    <3>1. \A j \in After : j \in Nat
      BY <1>2
    <3>2. After \subseteq Nat /\ After # {}
      BY <2>1, <3>1
    <3> HIDE DEF After
    <3> QED BY <3>2, LeastNumber
  <2>3. i \in Nat /\ k \in Nat /\ k >= i /\ k <= n /\ k + 1 \notin kept
    BY <1>2
  <2> DEFINE Run == {d \in Nat : i + d <= k => i + d \in kept}
  <2>4. 0 \in Run
    BY <2>3
  <2>5. ASSUME NEW d \in Run PROVE d + 1 \in Run
    <3>1. SUFFICES ASSUME i + (d + 1) <= k PROVE i + (d + 1) \in kept
      OBVIOUS
    <3>2. d \in Nat /\ i + d <= k /\ i + d \in i .. n /\ ~(k <= i + d) /\ (i + d) + 1 = i + (d + 1)
      BY <1>1, <2>3, <3>1
    <3>3. i + d \notin After
      BY <2>2, <3>2
    <3> QED BY <3>2, <3>3
  <2>6. Run = Nat
    <3>1. Run \subseteq Nat
      OBVIOUS
    <3> HIDE DEF Run
    <3> QED BY <2>4, <2>5, <3>1, SetInduction
  <2>7. ASSUME NEW j \in i .. k PROVE j \in kept
    <3>1. j - i \in Nat /\ i + (j - i) = j /\ j <= k
      BY <2>3
    <3>2. j - i \in Run
      BY <2>6, <3>1
    <3>3. i + (j - i) <= k => i + (j - i) \in kept
      BY <3>2
    <3> QED BY <3>1, <3>3
  <2>8. k \in kept
    BY <2>3, <2>7
  <2>9. IsLast(i, k)
    BY <2>3, <2>7
  <2> HIDE DEF IsLast
  <2> QED BY <2>8, <2>9
<1>6. ASSUME NEW i \in kept PROVE lastOf(i) \in kept /\ IsLast(i, lastOf(i))
  BY <1>5
<1> HIDE DEF lastOf
<1>7. ASSUME NEW i \in kept PROVE HunkOf(HunkAt(s, i, lastOf(i)), s, kept, i, lastOf(i))
  <2>1. i \in 1 .. n /\ lastOf(i) \in 1 .. n /\ i <= lastOf(i) /\ i .. lastOf(i) \subseteq kept
    BY <1>2, <1>6
  <2> QED BY <1>1, <2>1 DEF HunkOf
<1>8. /\ \A h \in 1 .. Cardinality(firsts) : first(h) \in firsts
      /\ \A i \in firsts : Rank(firsts, i) \in 1 .. Cardinality(firsts) /\ first(Rank(firsts, i)) = i
      /\ Cardinality(firsts) \in Nat
  <2> HIDE DEF firsts
  <2> QED BY <1>1, <1>4, RankedIs, RankReaches
<1>9. DOMAIN hunks = 1 .. Cardinality(firsts)
      /\ \A h \in 1 .. Cardinality(firsts) : hunks[h] = HunkAt(s, first(h), lastOf(first(h)))
  <2> HIDE DEF firsts, first
  <2> QED BY <1>3
<1>10. ASSUME NEW h \in DOMAIN hunks
       PROVE  \E f, l \in DOMAIN s : HunkOf(hunks[h], s, kept, f, l)
  <2>1. first(h) \in kept
    BY <1>8, <1>9
  <2> HIDE DEF first
  <2>2. HunkOf(hunks[h], s, kept, first(h), lastOf(first(h)))
    BY <1>7, <1>9, <2>1
  <2>3. first(h) \in DOMAIN s /\ lastOf(first(h)) \in DOMAIN s
    BY <2>2 DEF HunkOf
  <2> QED BY <2>2, <2>3
<1>11. ASSUME NEW k \in kept
       PROVE  \E h \in DOMAIN hunks : \E f, l \in DOMAIN s :
                 HunkOf(hunks[h], s, kept, f, l) /\ k \in f .. l
  <2> DEFINE Back == {d \in 0 .. k : k - d .. k \subseteq kept}
  <2>1. k \in Nat /\ k > 0 /\ k <= n
    BY <1>1, <1>2
  <2>2. 0 \in Back
    <3>1. k - 0 .. k = {k}
      BY <2>1
    <3> QED BY <2>1, <3>1
  <2>3. PICK d \in Back : \A j \in Back : j <= d
    <3>1. Back \subseteq 0 .. k /\ Back # {}
      BY <2>2
    <3> HIDE DEF Back
    <3> QED BY <2>1, <3>1, GreatestNumber
  <2> DEFINE i == k - d
  <2>4. d \in 0 .. k /\ i .. k \subseteq kept /\ i \in Int /\ i <= k /\ i \in i .. k
    BY <2>1, <2>3
  <2>5. i \in kept /\ i \in Nat /\ i > 0
    <3>1. i \in kept
      <4> HIDE DEF i
      <4> QED BY <2>4
    <3> QED BY <1>2, <3>1
  <2>6. i - 1 \notin kept
    <3>1. SUFFICES ASSUME i - 1 \in kept PROVE FALSE
      OBVIOUS
    <3>2. d + 1 \in 0 .. k /\ k - (d + 1) = i - 1
      BY <2>1, <2>4, <2>5
    <3>3. ASSUME NEW j \in k - (d + 1) .. k PROVE j \in kept
      <4>1. j = i - 1 \/ j \in i .. k
        BY <2>1, <2>4, <3>2
      <4> QED BY <2>4, <3>1, <4>1
    <3>4. d + 1 \in Back
      BY <3>2, <3>3
    <3>5. d + 1 <= d
      BY <2>3, <3>4
    <3> QED BY <2>4, <3>5
  <2> HIDE DEF i
  <2>7. k \in i .. lastOf(i)
    <3>1. lastOf(i) >= i /\ lastOf(i) + 1 \notin kept /\ lastOf(i) \in Nat
      <4>1. lastOf(i) \in kept /\ IsLast(i, lastOf(i))
        BY <1>6, <2>5
      <4>2. lastOf(i) \in 1 .. n
        BY <1>2, <4>1
      <4> QED BY <1>1, <4>1, <4>2
    <3>2. ~(lastOf(i) < k)
      <4>1. lastOf(i) < k => lastOf(i) + 1 \in i .. k
        BY <2>1, <2>5, <3>1
      <4> QED BY <2>4, <3>1, <4>1
    <3> QED BY <2>1, <2>4, <2>5, <3>1, <3>2
  <2> DEFINE h == Rank(firsts, i)
  <2>8. h \in DOMAIN hunks /\ first(h) = i
    <3>1. i \in firsts
      BY <2>5, <2>6
    <3> HIDE DEF firsts, first
    <3> QED BY <1>8, <1>9, <3>1
  <2> HIDE DEF h, first
  <2>9. HunkOf(hunks[h], s, kept, i, lastOf(i))
    <3>1. hunks[h] = HunkAt(s, i, lastOf(i))
      BY <1>9, <2>8
    <3> QED BY <1>7, <2>5, <3>1
  <2>10. i \in DOMAIN s /\ lastOf(i) \in DOMAIN s
    BY <2>9 DEF HunkOf
  <2> QED BY <2>7, <2>8, <2>9, <2>10
<1>12. hunks \in Seq({hunks[h] : h \in DOMAIN hunks})
  <2> DEFINE m == Cardinality(firsts)
             H == {hunks[h] : h \in DOMAIN hunks}
  <2>1. hunks \in [1 .. m -> H] /\ m \in Nat
    <3>1. hunks = [h \in 1 .. m |-> hunks[h]]
      <4> HIDE DEF first, firsts
      <4> QED BY <1>3
    <3>2. m \in Nat /\ DOMAIN hunks = 1 .. m
      BY <1>8, <1>9
    <3> HIDE DEF m
    <3> QED BY <3>1, <3>2
  <2> HIDE DEF H, m
  <2>2. hunks \in Seq(H)
    BY <2>1, FunctionIsSeq
  <2> QED BY <2>2 DEF H
<1> QED BY <1>10, <1>11, <1>12 DEF kept, hunks

-----------------------------------------------------------------------------
(* Scripts and contents.                                                   *)

(* The contents a script was made of: each of its lines is the line of     *)
(* each side it is on, in order, and no line of a side is missing.         *)
Scripted(s, side, content) ==
    /\ Cardinality(On(side, s)) = Len(content)
    /\ \A k \in On(side, s) : s[k].line = content[Rank(On(side, s), k)]

LEMMA ScriptsAreScripts ==
    ASSUME NEW old \in Content, NEW new \in Content, NEW s \in Scripts(old, new)
    PROVE  s \in Script /\ Scripted(s, "old", old) /\ Scripted(s, "new", new)
<1> DEFINE LineOf(w, i) == IF w[i] = "+" THEN new[Reached("new", w, i)] ELSE old[Reached("old", w, i)]
<1>1. PICK w :
         /\ w \in SeqOf({" ", "-", "+"}, Len(old) + Len(new))
         /\ Reached("old", w, Len(w)) = Len(old)
         /\ Reached("new", w, Len(w)) = Len(new)
         /\ \A i \in DOMAIN w :
               w[i] = " " => old[Reached("old", w, i)] = new[Reached("new", w, i)]
         /\ s = [i \in DOMAIN w |-> [mark |-> w[i], line |-> LineOf(w, i)]]
  BY DEF Scripts
<1>2. PICK m \in Nat : w \in [1 .. m -> Mark]
  <2>1. \A c \in Content : Len(c) \in Nat
    BY LenProperties DEF Content
  <2>2. Len(old) + Len(new) \in Nat
    BY <2>1
  <2> DEFINE n == Len(old) + Len(new)
  <2>3. w \in UNION {[1 .. m -> Mark] : m \in 0 .. n}
    BY <1>1 DEF SeqOf, Mark
  <2> HIDE DEF n
  <2>4. \E m \in 0 .. n : w \in [1 .. m -> Mark]
    BY <2>3
  <2> QED BY <2>4
<1>3. Len(w) = m /\ DOMAIN w = 1 .. m
  BY <1>2, FunctionIsSeq
<1> DEFINE S(side) == {k \in 1 .. m : w[k] \in Marks(side)}
<1>4. ASSUME NEW side \in Side
      PROVE  /\ \A i \in 1 .. m : Reached(side, w, i) = Rank(S(side), i)
             /\ Reached(side, w, Len(w)) = Cardinality(S(side))
             /\ \A i \in S(side) : Rank(S(side), i) \in 1 .. Cardinality(S(side))
             /\ Cardinality(S(side)) \in Nat
  <2>1. \A i \in 0 .. m : Reached(side, w, i) = Rank(S(side), i)
    BY <1>2, ReachedCounts
  <2>2. S(side) \subseteq 1 .. m
    OBVIOUS
  <2> HIDE DEF S
  <2>3. /\ Rank(S(side), m) = Cardinality(S(side)) /\ Cardinality(S(side)) \in Nat
        /\ \A i \in S(side) : Rank(S(side), i) \in 1 .. Cardinality(S(side))
    BY <1>2, <2>2, RankReaches
  <2>4. m \in 0 .. m /\ \A i \in 1 .. m : i \in 0 .. m
    OBVIOUS
  <2> QED BY <1>3, <2>1, <2>3, <2>4
<1>5. "old" \in Side /\ "new" \in Side
  BY DEF Side
<1>6. /\ \A l \in 1 .. Len(old) : old[l] \in GitLine
      /\ \A l \in 1 .. Len(new) : new[l] \in GitLine
  <2>1. old \in Seq(GitLine) /\ new \in Seq(GitLine)
    BY DEF Content, GitLine
  <2> QED BY <2>1, LenProperties
<1> HIDE DEF S
<1>7. ASSUME NEW i \in 1 .. m
      PROVE  /\ w[i] \in Mark
             /\ i \in S("old") <=> w[i] \in {" ", "-"}
             /\ i \in S("new") <=> w[i] \in {" ", "+"}
  BY <1>2 DEF S, Marks
<1>8. ASSUME NEW i \in 1 .. m
      PROVE  /\ LineOf(w, i) \in GitLine
             /\ i \in S("old") => LineOf(w, i) = old[Rank(S("old"), i)]
             /\ i \in S("new") => LineOf(w, i) = new[Rank(S("new"), i)]
  <2> DEFINE o == Rank(S("old"), i)
             n == Rank(S("new"), i)
  <2>1. Reached("old", w, i) = o /\ Reached("new", w, i) = n
    BY <1>4, <1>5
  <2>2. i \in S("old") => o \in 1 .. Len(old)
    BY <1>1, <1>4, <1>5
  <2>3. i \in S("new") => n \in 1 .. Len(new)
    BY <1>1, <1>4, <1>5
  <2>4. LineOf(w, i) = IF w[i] = "+" THEN new[n] ELSE old[o]
    BY <2>1
  <2>5. w[i] = " " => old[o] = new[n]
    BY <1>1, <1>3, <2>1
  <2> HIDE DEF o, n, LineOf
  <2>6. CASE w[i] = "+"
    BY <1>6, <1>7, <2>3, <2>4, <2>6 DEF o, n
  <2>7. CASE w[i] = "-"
    BY <1>6, <1>7, <2>2, <2>4, <2>7 DEF o, n
  <2>8. CASE w[i] = " "
    BY <1>6, <1>7, <2>2, <2>3, <2>4, <2>5, <2>8 DEF o, n
  <2> QED BY <1>7, <2>6, <2>7, <2>8 DEF Mark
<1> HIDE DEF LineOf
<1>9. s = [i \in 1 .. m |-> [mark |-> w[i], line |-> LineOf(w, i)]]
  BY <1>1, <1>3
<1>10. s \in Script
  <2>1. s \in [1 .. m -> [mark : Mark, line : GitLine]]
    BY <1>7, <1>8, <1>9
  <2> QED BY <1>2, <2>1, FunctionIsSeq DEF Script
<1>11. DOMAIN s = 1 .. m /\ \A i \in 1 .. m : s[i].mark = w[i] /\ s[i].line = LineOf(w, i)
  BY <1>9
<1>12. ASSUME NEW side \in Side PROVE On(side, s) = S(side)
  BY <1>11 DEF On, S
<1>13. Scripted(s, "old", old)
  <2>1. On("old", s) = S("old") /\ Cardinality(S("old")) = Len(old)
    BY <1>1, <1>4, <1>5, <1>12
  <2>2. \A k \in S("old") : k \in 1 .. m
    BY DEF S
  <2> QED BY <1>8, <1>11, <2>1, <2>2 DEF Scripted
<1>14. Scripted(s, "new", new)
  <2>1. On("new", s) = S("new") /\ Cardinality(S("new")) = Len(new)
    BY <1>1, <1>4, <1>5, <1>12
  <2>2. \A k \in S("new") : k \in 1 .. m
    BY DEF S
  <2> QED BY <1>8, <1>11, <2>1, <2>2 DEF Scripted
<1> QED BY <1>10, <1>13, <1>14

(* The hunks of an entry have the kept lines of a script, and no other.    *)
HunksShow(e, s, kept) ==
    /\ \A h \in DOMAIN e.hunks : \A i \in DOMAIN e.hunks[h] : \E k \in kept :
          e.hunks[h][i] = ReadOf(s, k)
    /\ \A k \in kept : \E h \in DOMAIN e.hunks : \E i \in DOMAIN e.hunks[h] :
          e.hunks[h][i] = ReadOf(s, k)

LEMMA HunksShowKept ==
    ASSUME NEW s \in Script, NEW context \in Nat, NEW e,
           e.hunks = [h \in DOMAIN HunksOf(s, context) |-> ReadHunk(HunksOf(s, context)[h]).lines]
    PROVE  HunksShow(e, s, Kept(s, context))
<1> DEFINE hs == HunksOf(s, context)
           kept == Kept(s, context)
<1>0. DOMAIN e.hunks = DOMAIN hs /\ \A h \in DOMAIN hs : e.hunks[h] = ReadHunk(hs[h]).lines
  <2>1. e.hunks = [h \in DOMAIN hs |-> ReadHunk(hs[h]).lines]
    OBVIOUS
  <2> HIDE DEF hs
  <2> QED BY <2>1
<1>1. ASSUME NEW p, NEW first \in DOMAIN s, NEW last \in DOMAIN s, HunkOf(p, s, kept, first, last)
      PROVE  /\ DOMAIN ReadHunk(p).lines = 1 .. last - first + 1
             /\ \A i \in 1 .. last - first + 1 : /\ ReadHunk(p).lines[i] = ReadOf(s, first + i - 1)
                                                 /\ first + i - 1 \in first .. last
             /\ \A k \in first .. last : k - first + 1 \in 1 .. last - first + 1
                                         /\ first + (k - first + 1) - 1 = k
             /\ first .. last \subseteq kept
  <2>1. first <= last /\ p = HunkAt(s, first, last) /\ first .. last \subseteq kept
    BY <1>1 DEF HunkOf
  <2>2. ReadHunk(p) = ReadUpTo(s, first, last, last - first + 1)
    BY <2>1, HunkIsRead
  <2>3. first \in Nat /\ last \in Nat
    BY ScriptParts
  <2> DEFINE n == last - first + 1
  <2>4. ReadHunk(p).lines = [j \in 1 .. n |-> ReadOf(s, first + j - 1)]
    BY <2>2 DEF ReadUpTo
  <2>5. DOMAIN ReadHunk(p).lines = 1 .. n /\ \A i \in 1 .. n : ReadHunk(p).lines[i] = ReadOf(s, first + i - 1)
    <3> HIDE DEF n
    <3> QED BY <2>4
  <2>6. \A i \in 1 .. n : first + i - 1 \in first .. last
    BY <2>3
  <2>7. \A k \in first .. last : k - first + 1 \in 1 .. n /\ first + (k - first + 1) - 1 = k
    BY <2>3
  <2> QED BY <2>1, <2>5, <2>6, <2>7
<1>2. /\ \A h \in DOMAIN hs : \E first, last \in DOMAIN s : HunkOf(hs[h], s, kept, first, last)
      /\ \A k \in kept : \E h \in DOMAIN hs : \E first, last \in DOMAIN s :
            HunkOf(hs[h], s, kept, first, last) /\ k \in first .. last
  BY HunksAreRuns
<1> HIDE DEF hs, kept
<1>3. ASSUME NEW h \in DOMAIN e.hunks, NEW i \in DOMAIN e.hunks[h]
      PROVE  \E k \in kept : e.hunks[h][i] = ReadOf(s, k)
  <2>1. h \in DOMAIN hs /\ e.hunks[h] = ReadHunk(hs[h]).lines
    BY <1>0
  <2>2. PICK first, last \in DOMAIN s : HunkOf(hs[h], s, kept, first, last)
    BY <1>2, <2>1
  <2>3. i \in 1 .. last - first + 1
    <3>1. DOMAIN ReadHunk(hs[h]).lines = 1 .. last - first + 1
      BY <1>1, <2>2
    <3> QED BY <2>1, <3>1
  <2>4. e.hunks[h][i] = ReadOf(s, first + i - 1) /\ first + i - 1 \in kept
    BY <1>1, <2>1, <2>2, <2>3
  <2> QED BY <2>4
<1>4. ASSUME NEW k \in kept
      PROVE  \E h \in DOMAIN e.hunks : \E i \in DOMAIN e.hunks[h] : e.hunks[h][i] = ReadOf(s, k)
  <2>1. PICK h \in DOMAIN hs, first \in DOMAIN s, last \in DOMAIN s :
           HunkOf(hs[h], s, kept, first, last) /\ k \in first .. last
    BY <1>2
  <2> DEFINE i == k - first + 1
  <2>2. i \in 1 .. last - first + 1 /\ first + i - 1 = k
    BY <1>1, <2>1
  <2> HIDE DEF i
  <2>3. i \in DOMAIN e.hunks[h] /\ e.hunks[h][i] = ReadOf(s, k)
    <3>1. /\ DOMAIN ReadHunk(hs[h]).lines = 1 .. last - first + 1
          /\ ReadHunk(hs[h]).lines[i] = ReadOf(s, first + i - 1)
      BY <1>1, <2>1, <2>2
    <3> QED BY <1>0, <2>1, <2>2, <3>1
  <2> QED BY <1>0, <2>3
<1> QED BY <1>3, <1>4 DEF HunksShow, kept

(* What no hunk shows of a side: the lines of the entries that are not     *)
(* kept.                                                                   *)
Skipped(s, U) == [i \in 1 .. Cardinality(U) |-> s[Ranked(U, i)].line]

LEMMA UnprintedIs ==
    ASSUME NEW s \in Script, NEW context \in Nat, NEW c, NEW e, NEW side \in Side,
           HunksShow(e, s, Kept(s, context)),
           Stored(c[side]) \in Content, Scripted(s, side, Stored(c[side]))
    PROVE  Unprinted(c, e, side) = Skipped(s, DOMAIN s \ Kept(s, context))
<1> DEFINE kept == Kept(s, context)
           U == DOMAIN s \ kept
           lines == Stored(c[side])
           numbers == {l[side] : l \in UNION {Range(h) : h \in Range(e.hunks)}}
           S == On(side, s)
           C == DOMAIN lines \ numbers
           n == Len(s)
<1>1. n \in Nat /\ DOMAIN s = 1 .. n /\ Positive(S) /\ S \subseteq 1 .. n
      /\ \A k \in 1 .. n : s[k].mark \in Mark
  BY ScriptParts
<1>2. U \subseteq 1 .. n /\ Positive(U) /\ kept \subseteq 1 .. n
  <2>1. kept \subseteq 1 .. n
    BY <1>1 DEF Kept
  <2> HIDE DEF kept
  <2>2. U \subseteq 1 .. n
    BY <1>1
  <2> HIDE DEF U
  <2>3. Positive(U)
    BY <1>1, <2>2 DEF Positive
  <2> QED BY <2>1, <2>2, <2>3
<1>3. ASSUME NEW k \in U PROVE s[k].mark = " " /\ k \in S
  <2>1. k \in 1 .. n /\ k \notin kept
    BY <1>1
  <2>2. k - k \in -context .. context
    BY <2>1
  <2>3. s[k].mark = " "
    BY <1>1, <2>1, <2>2 DEF Kept
  <2> QED BY <1>1, <2>1, <2>3 DEF On, Marks
<1>4. numbers = {Number(side, s, k) : k \in kept}
  <2>1. ASSUME NEW x \in numbers PROVE x \in {Number(side, s, k) : k \in kept}
    <3>0. PICK h \in DOMAIN e.hunks : \E j \in DOMAIN e.hunks[h] : x = e.hunks[h][j][side]
      BY DEF Range
    <3>1. PICK i \in DOMAIN e.hunks[h] : x = e.hunks[h][i][side]
      BY <3>0
    <3>2. PICK k \in kept : e.hunks[h][i] = ReadOf(s, k)
      BY <3>1 DEF HunksShow
    <3>3. x = Number(side, s, k)
      BY <3>1, <3>2 DEF ReadOf, Side
    <3> QED BY <3>3
  <2>2. ASSUME NEW k \in kept PROVE Number(side, s, k) \in numbers
    <3>0. PICK h \in DOMAIN e.hunks : \E j \in DOMAIN e.hunks[h] : e.hunks[h][j] = ReadOf(s, k)
      BY DEF HunksShow
    <3>1. PICK i \in DOMAIN e.hunks[h] : e.hunks[h][i] = ReadOf(s, k)
      BY <3>0
    <3>2. e.hunks[h][i][side] = Number(side, s, k)
      BY <3>1 DEF ReadOf, Side
    <3>3. e.hunks[h][i] \in UNION {Range(g) : g \in Range(e.hunks)}
      <4>1. e.hunks[h] \in Range(e.hunks) /\ e.hunks[h][i] \in Range(e.hunks[h])
        BY DEF Range
      <4> QED BY <4>1
    <3> QED BY <3>2, <3>3
  <2> HIDE DEF numbers, kept
  <2> QED BY <2>1, <2>2
<1>5. Unprinted(c, e, side)
        = [i \in 1 .. Len(lines) - Cardinality(numbers \cap DOMAIN lines) |->
              lines[CHOOSE k \in C : Cardinality((1 .. k) \ numbers) = i]]
  BY DEF Unprinted
<1>6. Len(lines) \in Nat /\ DOMAIN lines = 1 .. Len(lines) /\ Len(lines) = Cardinality(S)
      /\ \A k \in S : s[k].line = lines[Rank(S, k)]
  <2>1. Len(lines) \in Nat /\ DOMAIN lines = 1 .. Len(lines)
    BY LenProperties DEF Content
  <2> QED BY <2>1 DEF Scripted
<1>7. /\ \A k \in S : Rank(S, k) \in 1 .. Cardinality(S)
      /\ \A h \in 1 .. Cardinality(S) : \E k \in S : Rank(S, k) = h
  <2> HIDE DEF S, n
  <2> QED BY <1>1, RankReaches
<1> HIDE DEF lines, numbers, S, kept, n
<1> DEFINE f == [k \in U |-> Rank(S, k)]
<1>8. f \in [U -> C]
  <2>1. ASSUME NEW k \in U PROVE Rank(S, k) \in C
    <3>1. k \in S /\ Rank(S, k) \in 1 .. Len(lines)
      BY <1>3, <1>6, <1>7
    <3>2. ASSUME NEW j \in kept, Rank(S, k) = Number(side, s, j) PROVE FALSE
      <4>1. j \in S
        <5>1. Rank(S, k) # 0
          BY <1>6, <3>1
        <5>2. s[j].mark \in Marks(side)
          BY <3>2, <5>1 DEF Number
        <5> QED BY <1>1, <1>2, <5>2 DEF On, S
      <4>2. Number(side, s, j) = Rank(S, j)
        BY <4>1 DEF Number, On, S
      <4>3. j = k
        BY <1>1, <3>1, <3>2, <4>1, <4>2, RankTells
      <4> QED BY <4>3
    <3> QED BY <1>4, <1>6, <3>1, <3>2
  <2> HIDE DEF U, C
  <2> QED BY <2>1
<1>9. \A i, j \in U : i < j => f[i] < f[j]
  <2> TAKE i, j \in U
  <2>1. i \in Nat /\ j \in Nat /\ j \in S /\ f[i] = Rank(S, i) /\ f[j] = Rank(S, j)
    BY <1>2, <1>3 DEF Positive
  <2> HIDE DEF f
  <2>2. ASSUME i < j PROVE Rank(S, i) < Rank(S, j)
    <3>1. i <= j
      BY <2>1, <2>2
    <3> QED BY <1>1, <2>1, <2>2, <3>1, RankGrows
  <2> QED BY <2>1, <2>2
<1>10. ASSUME NEW m \in C PROVE \E k \in U : f[k] = m
  <2>1. m \in 1 .. Cardinality(S) /\ m \notin numbers
    BY <1>6
  <2>2. PICK k \in S : Rank(S, k) = m
    BY <1>7, <2>1
  <2>3. k \notin kept
    <3>1. SUFFICES ASSUME k \in kept PROVE FALSE
      OBVIOUS
    <3>2. Number(side, s, k) = m
      BY <2>2 DEF Number, On, S
    <3> QED BY <1>4, <2>1, <3>1, <3>2
  <2>4. k \in U
    BY <1>1, <2>3 DEF n
  <2> QED BY <2>2, <2>4
<1>11. Positive(C) /\ C \subseteq 1 .. Len(lines)
  BY <1>6 DEF Positive
<1>12. IsFiniteSet(U) /\ Cardinality(U) \in Nat
  <2> HIDE DEF U
  <2> QED BY <1>1, <1>2, RankReaches
<1>13. Cardinality(C) = Cardinality(U)
  <2>1. \A i, j \in U : f[i] = f[j] => i = j
    <3> TAKE i, j \in U
    <3>1. i \in Nat /\ j \in Nat
      BY <1>2 DEF Positive
    <3>2. f[i] \in Nat /\ f[j] \in Nat
      <4> HIDE DEF U, C, f
      <4> QED BY <1>8, <1>11 DEF Positive
    <3>3. i < j \/ i = j \/ j < i
      BY <3>1
    <3> HIDE DEF U, f
    <3> QED BY <1>9, <3>2, <3>3
  <2> HIDE DEF U, C, f
  <2>2. f \in Bijection(U, C)
    BY <1>8, <1>10, <2>1 DEF Bijection, Injection, Surjection, IsInjective
  <2>3. ExistsBijection(U, C)
    BY <2>2 DEF ExistsBijection
  <2> QED BY <1>12, <2>3, FS_Bijection
<1>14. Len(lines) - Cardinality(numbers \cap DOMAIN lines) = Cardinality(U)
  <2>1. IsFiniteSet(DOMAIN lines) /\ Cardinality(DOMAIN lines) = Len(lines)
    BY <1>6, FS_Interval
  <2>2. Cardinality(C) = Cardinality(DOMAIN lines) - Cardinality(DOMAIN lines \cap numbers)
    BY <2>1, FS_Difference
  <2>3. DOMAIN lines \cap numbers = numbers \cap DOMAIN lines
    OBVIOUS
  <2>4. Cardinality(numbers \cap DOMAIN lines) \in Nat
    <3>1. IsFiniteSet(numbers \cap DOMAIN lines)
      BY <2>1, FS_Intersection
    <3> QED BY <3>1, FS_CardinalityType
  <2> HIDE DEF C, U
  <2> QED BY <1>6, <1>12, <1>13, <2>1, <2>2, <2>3, <2>4
<1>15. \A k \in C : Cardinality((1 .. k) \ numbers) = Rank(C, k)
  <2> TAKE k \in C
  <2>1. (1 .. k) \ numbers \subseteq {j \in C : j <= k}
    BY <1>6
  <2>2. {j \in C : j <= k} \subseteq (1 .. k) \ numbers
    BY <1>6
  <2> HIDE DEF C
  <2> QED BY <2>1, <2>2 DEF Rank
<1>16. ASSUME NEW i \in 1 .. Cardinality(U)
       PROVE  lines[CHOOSE k \in C : Cardinality((1 .. k) \ numbers) = i] = s[Ranked(U, i)].line
  <2> DEFINE u == Ranked(U, i)
             m == CHOOSE k \in C : Cardinality((1 .. k) \ numbers) = i
  <2>1. u \in U /\ Rank(U, u) = i
    <3> HIDE DEF U
    <3> QED BY <1>1, <1>2, RankedIs
  <2> HIDE DEF u
  <2>2. Rank(C, f[u]) = i /\ f[u] \in C
    <3> HIDE DEF U, C, f
    <3>0. KeepsOrder(f, U, C)
      BY <1>8, <1>9, <1>10 DEF KeepsOrder
    <3>1. Rank(C, f[u]) = Rank(U, u)
      BY <1>2, <1>11, <2>1, <3>0, RankKept
    <3> QED BY <1>8, <2>1, <3>1
  <2>3. \E k \in C : Cardinality((1 .. k) \ numbers) = i
    <3> HIDE DEF C, f
    <3> QED BY <1>15, <2>2
  <2>4. m \in C /\ Cardinality((1 .. m) \ numbers) = i
    <3> HIDE DEF C
    <3> QED BY <2>3
  <2> HIDE DEF m
  <2>5. m = f[u]
    <3> HIDE DEF C, f
    <3>1. Rank(C, m) = i
      BY <1>15, <2>4
    <3> QED BY <1>11, <2>2, <2>4, <3>1, RankTells
  <2>6. f[u] = Rank(S, u) /\ u \in S
    BY <1>3, <2>1
  <2> HIDE DEF C, f
  <2>7. lines[m] = s[u].line
    BY <1>6, <2>5, <2>6
  <2> QED BY <2>7 DEF u, m
<1> HIDE DEF C, f, U
<1>17. Unprinted(c, e, side) = [i \in 1 .. Cardinality(U) |-> s[Ranked(U, i)].line]
  BY <1>5, <1>14, <1>16
<1> QED BY <1>17 DEF U, kept, Skipped

-----------------------------------------------------------------------------
(* Sections.                                                               *)

LEMMA ChangeParts ==
    ASSUME NEW c, IsChange(c)
    PROVE  /\ c.status \in {"added", "deleted", "modified", "renamed", "copied"}
           /\ c.original = NoPath <=> c.status = "added"
           /\ c.current = NoPath <=> c.status = "deleted"
           /\ c.status = "modified" => c.original = c.current
           /\ c.isText \in BOOLEAN
           /\ c.original # NoPath => c.original \in Seq(Part) /\ c.original # <<>> /\ c.original # Missing
           /\ c.current # NoPath => c.current \in Seq(Part) /\ c.current # <<>> /\ c.current # Missing
           /\ c.isText => /\ c.original = NoPath => c.old = NoContent
                          /\ c.original # NoPath => c.old \in Content /\ c.old # NoContent
                          /\ c.current = NoPath => c.new = NoContent
                          /\ c.current # NoPath => c.new \in Content /\ c.new # NoContent
<1>1. "old" \in Side /\ "new" \in Side
  BY DEF Side
<1>2. /\ PathOn("old", c) = c.original /\ PathOn("new", c) = c.current
      /\ c["old"] = c.old /\ c["new"] = c.new
  BY DEF PathOn
<1>3. ASSUME NEW side \in Side
      PROVE  IF PathOn(side, c) = NoPath THEN c.isText => c[side] = NoContent
             ELSE /\ PathOn(side, c) \in Seq(Part) \ {<<>>} /\ PathOn(side, c) # Missing
                  /\ c.isText => c[side] \in Content /\ c[side] # NoContent
  BY DEF IsChange
<1>4. IF c.original = NoPath THEN c.isText => c.old = NoContent
      ELSE /\ c.original \in Seq(Part) \ {<<>>} /\ c.original # Missing
           /\ c.isText => c.old \in Content /\ c.old # NoContent
  BY <1>1, <1>2, <1>3
<1>5. IF c.current = NoPath THEN c.isText => c.new = NoContent
      ELSE /\ c.current \in Seq(Part) \ {<<>>} /\ c.current # Missing
           /\ c.isText => c.new \in Content /\ c.new # NoContent
  BY <1>1, <1>2, <1>3
<1>6. /\ c.status \in {"added", "deleted", "modified", "renamed", "copied"}
      /\ c.original = NoPath <=> c.status = "added"
      /\ c.current = NoPath <=> c.status = "deleted"
      /\ c.status = "modified" => c.original = c.current
      /\ c.isText \in BOOLEAN
  BY DEF IsChange
<1> QED BY <1>4, <1>5, <1>6

(* What the headers of a section say, by the change.                       *)
LEMMA SectionParts ==
    ASSUME NEW c, NEW hunks
    PROVE  LET s == Section(c, hunks)
               moved == c.status \in {"renamed", "copied"}
           IN  /\ s.header = (IF c.original = NoPath THEN c.current ELSE c.original)
                                \o (IF c.current = NoPath THEN c.original ELSE c.current)
               /\ s.from = IF moved THEN c.original ELSE Missing
               /\ s.to = IF moved THEN c.current ELSE Missing
               /\ s.copy <=> c.status = "copied"
               /\ s.newFile <=> c.status = "added"
               /\ s.deletedFile <=> c.status = "deleted"
               /\ s.oldMarker = IF hunks = <<>> THEN Missing ELSE c.original
               /\ s.newMarker = IF hunks = <<>> THEN Missing ELSE c.current
               /\ s.binary <=> ~c.isText
               /\ s.hunks = hunks
  BY DEF Section

LEMMA StatusIsFound ==
    ASSUME NEW c, IsChange(c), NEW hunks
    PROVE  Status(Section(c, hunks)) = c.status
<1> DEFINE s == Section(c, hunks)
<1>1. /\ s.from = IF c.status \in {"renamed", "copied"} THEN c.original ELSE Missing
      /\ s.copy <=> c.status = "copied"
      /\ s.newFile <=> c.status = "added"
      /\ s.deletedFile <=> c.status = "deleted"
      /\ s.oldMarker \in {Missing, c.original}
      /\ s.newMarker \in {Missing, c.current}
  BY DEF Section
<1>2. Missing # NoPath
  BY TreesAssumption
<1> HIDE DEF s
<1>3. Status(s) = c.status
  <2>1. CASE c.status = "copied"
    BY <1>1, <2>1 DEF Status
  <2>2. CASE c.status = "renamed"
    BY <1>1, <2>2, ChangeParts DEF Status
  <2>3. CASE c.status = "added"
    BY <1>1, <2>3 DEF Status
  <2>4. CASE c.status = "deleted"
    <3>1. ~s.copy /\ s.from = Missing /\ ~s.newFile /\ s.oldMarker # NoPath /\ s.deletedFile
      BY <1>1, <1>2, <2>4, ChangeParts
    <3> QED BY <2>4, <3>1 DEF Status
  <2>5. CASE c.status = "modified"
    <3>1. /\ ~s.copy /\ s.from = Missing /\ ~s.newFile /\ s.oldMarker # NoPath
          /\ ~s.deletedFile /\ s.newMarker # NoPath
      BY <1>1, <1>2, <2>5, ChangeParts
    <3> QED BY <2>5, <3>1 DEF Status
  <2> QED BY <2>1, <2>2, <2>3, <2>4, <2>5, ChangeParts
<1> QED BY <1>3 DEF s

LEMMA MetadataIsAccepted ==
    ASSUME NEW c, IsChange(c), NEW hunks, c.isText \/ hunks = <<>>
    PROVE  MetadataAccepted(Section(c, hunks))
<1> DEFINE s == Section(c, hunks)
           said == {k \in {"new", "deleted", "moved"} :
                      \/ k = "new" /\ s.newFile
                      \/ k = "deleted" /\ s.deletedFile
                      \/ k = "moved" /\ s.from # Missing}
<1>1. /\ s.from = IF c.status \in {"renamed", "copied"} THEN c.original ELSE Missing
      /\ s.to = IF c.status \in {"renamed", "copied"} THEN c.current ELSE Missing
      /\ s.newFile <=> c.status = "added"
      /\ s.deletedFile <=> c.status = "deleted"
      /\ s.oldMarker = IF hunks = <<>> THEN Missing ELSE c.original
      /\ s.newMarker = IF hunks = <<>> THEN Missing ELSE c.current
      /\ s.binary <=> ~c.isText
      /\ s.hunks = hunks
  BY DEF Section
<1>2. /\ c.original # Missing /\ c.current # Missing
      /\ c.original = NoPath <=> c.status = "added"
      /\ c.current = NoPath <=> c.status = "deleted"
  BY TreesAssumption, ChangeParts
<1>3. (s.from = Missing) = (s.to = Missing)
  BY <1>1, <1>2
<1>4. Cardinality(said) <= 1
  <2> DEFINE word == IF c.status = "added" THEN "new"
                     ELSE IF c.status = "deleted" THEN "deleted" ELSE "moved"
  <2>1. \A k \in said : k = word
    <3> HIDE DEF s
    <3> QED BY <1>1
  <2>2. said \in SUBSET {word}
    <3> HIDE DEF said, word
    <3> QED BY <2>1
  <2>3. IsFiniteSet({word}) /\ Cardinality({word}) = 1
    BY FS_Singleton
  <2> HIDE DEF said, word
  <2> QED BY <2>2, <2>3, FS_Subset
<1>5. (s.oldMarker = Missing) = (s.newMarker = Missing)
  BY <1>1, <1>2
<1>6. s.newFile => s.oldMarker \in {Missing, NoPath}
  BY <1>1, <1>2
<1>7. s.deletedFile => s.newMarker \in {Missing, NoPath}
  BY <1>1, <1>2
<1>8. s.binary => s.hunks = <<>>
  BY <1>1
<1> HIDE DEF s
<1>9. MetadataAccepted(s)
  BY <1>3, <1>4, <1>5, <1>6, <1>7, <1>8 DEF MetadataAccepted
<1> QED BY <1>9 DEF s

(* Two paths in one string: if one of the two is known, so is the cut.     *)
LEMMA CutIsFound ==
    ASSUME NEW left \in Seq(Part), NEW right \in Seq(Part), left # <<>>, right # <<>>,
           NEW k \in 1 .. Len(left \o right) - 1
    PROVE  /\ SubSeq(left \o right, 1, Len(left)) = left
           /\ SubSeq(left \o right, Len(left) + 1, Len(left \o right)) = right
           /\ Len(left) \in 1 .. Len(left \o right) - 1
           /\ SubSeq(left \o right, 1, k) = left => k = Len(left)
           /\ SubSeq(left \o right, k + 1, Len(left \o right)) = right => k = Len(left)
<1> DEFINE both == left \o right
           l == Len(left)
           r == Len(right)
<1>1. /\ both \in Seq(Part) /\ l \in Nat /\ r \in Nat /\ Len(both) = l + r
      /\ \A i \in 1 .. l + r : both[i] = IF i <= l THEN left[i] ELSE right[i - l]
  BY ConcatProperties, LenProperties
<1>2. l # 0 /\ r # 0
  BY EmptySeq
<1> HIDE DEF both, l, r
<1>3. k \in 1 .. l + r - 1 /\ l \in 1 .. l + r - 1
  BY <1>1, <1>2 DEF both
<1>4. /\ SubSeq(both, 1, k) \in Seq(Part) /\ Len(SubSeq(both, 1, k)) = k
      /\ SubSeq(both, k + 1, l + r) \in Seq(Part)
      /\ Len(SubSeq(both, k + 1, l + r)) = l + r - k
      /\ SubSeq(both, 1, l) \in Seq(Part) /\ Len(SubSeq(both, 1, l)) = l
      /\ SubSeq(both, l + 1, l + r) \in Seq(Part)
      /\ Len(SubSeq(both, l + 1, l + r)) = r
      /\ \A i \in 1 .. l : SubSeq(both, 1, l)[i] = both[i]
      /\ \A i \in 1 .. r : SubSeq(both, l + 1, l + r)[i] = both[l + i]
  <2>1. ASSUME NEW a \in 1 .. l + r, NEW b \in 1 .. l + r, a <= b
        PROVE  /\ SubSeq(both, a, b) \in Seq(Part)
               /\ Len(SubSeq(both, a, b)) = b - a + 1
               /\ \A i \in 1 .. b - a + 1 : SubSeq(both, a, b)[i] = both[a + i - 1]
    <3>1. a \in 1 .. Len(both) + 1 /\ b \in a - 1 .. Len(both) /\ a <= b
      BY <1>1, <2>1
    <3> QED BY <1>1, <2>1, <3>1, SubSeqProperties
  <2>2. /\ 1 \in 1 .. l + r /\ k \in 1 .. l + r /\ 1 <= k /\ k - 1 + 1 = k
        /\ k + 1 \in 1 .. l + r /\ l + r \in 1 .. l + r /\ k + 1 <= l + r
        /\ (l + r) - (k + 1) + 1 = l + r - k
        /\ l \in 1 .. l + r /\ 1 <= l /\ l - 1 + 1 = l
        /\ l + 1 \in 1 .. l + r /\ l + 1 <= l + r /\ (l + r) - (l + 1) + 1 = r
    BY <1>1, <1>3
  <2>3. SubSeq(both, 1, k) \in Seq(Part) /\ Len(SubSeq(both, 1, k)) = k
    BY <2>1, <2>2
  <2>4. SubSeq(both, k + 1, l + r) \in Seq(Part) /\ Len(SubSeq(both, k + 1, l + r)) = l + r - k
    BY <2>1, <2>2
  <2>5. /\ SubSeq(both, 1, l) \in Seq(Part) /\ Len(SubSeq(both, 1, l)) = l
        /\ \A i \in 1 .. l : SubSeq(both, 1, l)[i] = both[1 + i - 1]
    <3>1. \A i \in 1 .. l - 1 + 1 : SubSeq(both, 1, l)[i] = both[1 + i - 1]
      BY <2>1, <2>2
    <3> QED BY <2>1, <2>2, <3>1
  <2>6. /\ SubSeq(both, l + 1, l + r) \in Seq(Part) /\ Len(SubSeq(both, l + 1, l + r)) = r
        /\ \A i \in 1 .. r : SubSeq(both, l + 1, l + r)[i] = both[(l + 1) + i - 1]
    BY <2>1, <2>2
  <2>7. /\ \A i \in 1 .. l : 1 + i - 1 = i
        /\ \A i \in 1 .. r : (l + 1) + i - 1 = l + i
    BY <1>1
  <2> QED BY <2>3, <2>4, <2>5, <2>6, <2>7
<1>5. SubSeq(both, 1, l) = left
  <2>1. \A i \in 1 .. l : both[i] = left[i]
    BY <1>1
  <2> QED BY <1>1, <1>4, <2>1, SeqEqual DEF l
<1>6. SubSeq(both, l + 1, l + r) = right
  <2>1. \A i \in 1 .. r : l + i \in 1 .. l + r /\ ~(l + i <= l) /\ (l + i) - l = i
    BY <1>1
  <2>2. \A i \in 1 .. r : both[l + i] = right[i]
    BY <1>1, <2>1
  <2> QED BY <1>1, <1>4, <2>2, SeqEqual DEF r
<1>7. SubSeq(both, 1, k) = left => k = l
  BY <1>4 DEF l
<1>8. SubSeq(both, k + 1, l + r) = right => k = l
  <2>1. SubSeq(both, k + 1, l + r) = right => l + r - k = r
    BY <1>4 DEF r
  <2> QED BY <1>1, <1>3, <2>1
<1>9. Len(both) = l + r
  BY <1>1
<1>10. /\ SubSeq(both, 1, l) = left
       /\ SubSeq(both, l + 1, Len(both)) = right
       /\ l \in 1 .. Len(both) - 1
       /\ SubSeq(both, 1, k) = left => k = l
       /\ SubSeq(both, k + 1, Len(both)) = right => k = l
  BY <1>3, <1>5, <1>6, <1>7, <1>8, <1>9
<1> QED BY <1>10 DEF both, l

(* The paths of a header are told apart by those that jj lists.            *)
LEMMA PathsAreFound ==
    ASSUME NEW c, IsChange(c), NEW hunks
    PROVE  PathPairs(Section(c, hunks), Listed(c))
             = {<<IF c.original = NoPath THEN c.current ELSE c.original,
                  IF c.current = NoPath THEN c.original ELSE c.current>>}
<1> DEFINE s == Section(c, hunks)
           listed == Listed(c)
           left == IF c.original = NoPath THEN c.current ELSE c.original
           right == IF c.current = NoPath THEN c.original ELSE c.current
           expect(moved, marker) == IF moved # Missing THEN moved
                                    ELSE IF marker = NoPath THEN Missing ELSE marker
           old == expect(s.from, s.oldMarker)
           new == expect(s.to, s.newMarker)
           agree == {p \in HeaderPairs(s) :
                        /\ old \in {Missing, p[1]}
                        /\ new \in {Missing, p[2]}
                        /\ listed.original \in {NoPath, p[1]}
                        /\ listed.current \in {NoPath, p[2]}}
           same == {p \in agree : p[1] = p[2]}
<1>1. /\ c.original = NoPath <=> c.status = "added"
      /\ c.current = NoPath <=> c.status = "deleted"
      /\ c.original # NoPath => c.original \in Seq(Part) /\ c.original # <<>> /\ c.original # Missing
      /\ c.current # NoPath => c.current \in Seq(Part) /\ c.current # <<>> /\ c.current # Missing
  BY ChangeParts
<1>2. Missing # NoPath
  BY TreesAssumption
<1>3. left \in Seq(Part) /\ right \in Seq(Part) /\ left # <<>> /\ right # <<>>
  BY <1>1
<1>4. s.header = left \o right
  BY DEF Section
<1>5. /\ s.from \in {Missing, c.original} /\ s.oldMarker \in {Missing, c.original}
      /\ s.to \in {Missing, c.current} /\ s.newMarker \in {Missing, c.current}
      /\ s.from = c.original => c.original # NoPath
      /\ s.to = c.current => c.current # NoPath
  BY <1>1, <1>2 DEF Section
<1>6. old \in {Missing, left} /\ new \in {Missing, right}
  <2> HIDE DEF s
  <2> QED BY <1>1, <1>2, <1>5
<1>7. listed.original = c.original /\ listed.current = c.current
  BY DEF Listed
<1>8. <<left, right>> \in agree
  <2>1. Len(left) \in 1 .. Len(left \o right) - 1
        /\ SubSeq(left \o right, 1, Len(left)) = left
        /\ SubSeq(left \o right, Len(left) + 1, Len(left \o right)) = right
    <3>1. /\ Len(left) \in Nat /\ Len(right) \in Nat /\ Len(left \o right) = Len(left) + Len(right)
          /\ Len(left) # 0 /\ Len(right) # 0
      <4> HIDE DEF left, right
      <4> QED BY <1>3, ConcatProperties, LenProperties, EmptySeq
    <3>2. 1 \in 1 .. Len(left \o right) - 1
      <4> HIDE DEF left, right
      <4> QED BY <3>1
    <3> HIDE DEF left, right
    <3> QED BY <1>3, <3>2, CutIsFound
  <2>2. <<left, right>> \in HeaderPairs(s)
    <3> HIDE DEF left, right, s
    <3> QED BY <1>4, <2>1 DEF HeaderPairs
  <2>3. listed.original \in {NoPath, left} /\ listed.current \in {NoPath, right}
    BY <1>7
  <2> HIDE DEF left, right, s, old, new, listed
  <2> QED BY <1>6, <2>2, <2>3
<1>9. ASSUME NEW p \in agree PROVE p = <<left, right>>
  <2>1. PICK k \in 1 .. Len(left \o right) - 1 :
           p = <<SubSeq(left \o right, 1, k), SubSeq(left \o right, k + 1, Len(left \o right))>>
    <3>1. p \in HeaderPairs(s)
      OBVIOUS
    <3> HIDE DEF left, right, s, agree
    <3> QED BY <1>4, <3>1 DEF HeaderPairs
  <2>2. p[1] = left \/ p[2] = right
    <3>1. c.original \in {NoPath, p[1]} /\ c.current \in {NoPath, p[2]}
      BY <1>7
    <3> HIDE DEF agree
    <3> QED BY <1>1, <3>1
  <2> HIDE DEF left, right, agree
  <2>3. /\ SubSeq(left \o right, 1, Len(left)) = left
        /\ SubSeq(left \o right, Len(left) + 1, Len(left \o right)) = right
        /\ SubSeq(left \o right, 1, k) = left => k = Len(left)
        /\ SubSeq(left \o right, k + 1, Len(left \o right)) = right => k = Len(left)
    BY <1>3, CutIsFound
  <2>4. k = Len(left)
    BY <2>1, <2>2, <2>3
  <2> QED BY <2>1, <2>3, <2>4
<1>10. PathPairs(s, listed) = IF Cardinality(agree) > 1 /\ old = Missing /\ new = Missing /\ same # {}
                              THEN same ELSE agree
  BY DEF PathPairs
<1> HIDE DEF s, listed, left, right, old, new, agree, same
<1>11. agree = {<<left, right>>}
  BY <1>8, <1>9
<1>12. Cardinality(agree) = 1
  BY <1>11, FS_Singleton
<1>13. PathPairs(s, listed) = {<<left, right>>}
  BY <1>10, <1>11, <1>12
<1> QED BY <1>13 DEF s, listed, left, right

(* What jj prints of a change is accepted, and its entry is the change.    *)
LEMMA EntriesAreChanges ==
    ASSUME NEW c, IsChange(c), NEW hunks, c.isText \/ hunks = <<>>
    PROVE  LET s == Section(c, hunks)
               e == Entry(s, Listed(c), c.old, c.new)
           IN  /\ Legible(c) /\ (\A h \in DOMAIN hunks : HunkAccepted(hunks[h])) =>
                     Accepted(s, Listed(c))
               /\ e.status = c.status /\ e.original = c.original /\ e.current = c.current
               /\ e.isText = c.isText
               /\ c.isText => /\ c.original # NoPath => e.old = c.old
                              /\ e.new = IF c.current = NoPath THEN <<>> ELSE c.new
                              /\ e.hunks = [h \in DOMAIN hunks |-> ReadHunk(hunks[h]).lines]
               /\ ~c.isText => e.hunks = <<>>
<1> DEFINE s == Section(c, hunks)
           listed == Listed(c)
           left == IF c.original = NoPath THEN c.current ELSE c.original
           right == IF c.current = NoPath THEN c.original ELSE c.current
           e == Entry(s, listed, c.old, c.new)
<1>1. Status(s) = c.status
  BY StatusIsFound
<1>2. PathPairs(s, listed) = {<<left, right>>}
  BY PathsAreFound
<1>3. MetadataAccepted(s)
  BY MetadataIsAccepted
<1>4. /\ s.hunks = hunks
      /\ s.oldMarker = IF hunks = <<>> THEN Missing ELSE c.original
      /\ s.newMarker = IF hunks = <<>> THEN Missing ELSE c.current
      /\ s.binary = ~c.isText
  BY DEF Section
<1>5. /\ c.original = NoPath <=> c.status = "added"
      /\ c.current = NoPath <=> c.status = "deleted"
      /\ c.original # Missing /\ c.current # Missing
      /\ c.isText \in BOOLEAN
  BY ChangeParts, TreesAssumption
<1>6. listed.status = c.status /\ listed.original = c.original /\ listed.current = c.current
  BY DEF Listed
<1>0. Legible(c) => HeaderAccepted(s)
  <2>1. s.header = Section(c, <<>>).header
    BY DEF Section
  <2>2. HeaderPairs(s) = HeaderPairs(Section(c, <<>>))
    BY <2>1 DEF HeaderPairs
  <2> QED BY <2>2 DEF Legible, HeaderAccepted
<1> HIDE DEF s, listed, left, right, e
<1>7. Cardinality(PathPairs(s, listed)) = 1
  BY <1>2, FS_Singleton
<1>8. ASSUME Legible(c), \A h \in DOMAIN hunks : HunkAccepted(hunks[h])
      PROVE  Accepted(s, listed)
  <2>1. s.hunks # <<>> => s.oldMarker # Missing /\ s.newMarker # Missing
    BY <1>4, <1>5
  <2> QED BY <1>0, <1>1, <1>3, <1>4, <1>6, <1>7, <1>8, <2>1 DEF Accepted
<1>9. PathsOf(s, listed).original = c.original /\ PathsOf(s, listed).current = c.current
  <2>1. (CHOOSE p \in PathPairs(s, listed) : TRUE) = <<left, right>>
    BY <1>2
  <2>2. /\ PathsOf(s, listed).original = IF Status(s) = "added" THEN NoPath ELSE left
        /\ PathsOf(s, listed).current = IF Status(s) = "deleted" THEN NoPath ELSE right
    <3> DEFINE pairs == PathPairs(s, listed)
               pair == IF Cardinality(pairs) = 1 THEN CHOOSE p \in pairs : TRUE
                       ELSE <<listed.original, listed.current>>
    <3>1. PathsOf(s, listed) = [original |-> IF Status(s) = "added" THEN NoPath ELSE pair[1],
                                current |-> IF Status(s) = "deleted" THEN NoPath ELSE pair[2]]
      BY DEF PathsOf
    <3>2. pair = <<left, right>>
      BY <1>7, <2>1
    <3> HIDE DEF pair
    <3> QED BY <3>1, <3>2
  <2> QED BY <1>1, <1>5, <2>2 DEF left, right
<1>10. /\ e.status = c.status /\ e.original = c.original /\ e.current = c.current
       /\ e.isText = ~s.binary
       /\ e.old = IF s.binary \/ c.original = NoPath THEN NoContent ELSE c.old
       /\ e.new = IF s.binary THEN NoContent ELSE IF c.current = NoPath THEN <<>> ELSE c.new
       /\ e.hunks = IF s.binary THEN <<>> ELSE [h \in DOMAIN s.hunks |-> ReadHunk(s.hunks[h]).lines]
  BY <1>1, <1>9 DEF Entry, e
<1>11. e.isText = c.isText
  BY <1>4, <1>5, <1>10
<1>12. c.isText => /\ c.original # NoPath => e.old = c.old
                   /\ e.new = IF c.current = NoPath THEN <<>> ELSE c.new
                   /\ e.hunks = [h \in DOMAIN hunks |-> ReadHunk(hunks[h]).lines]
  BY <1>4, <1>10
<1>13. ~c.isText => e.hunks = <<>>
  BY <1>4, <1>10
<1> QED BY <1>8, <1>10, <1>11, <1>12, <1>13 DEF s, listed, e

-----------------------------------------------------------------------------
(* Manifests.                                                              *)

(* What is read of a script of a change's contents describes the change.   *)
LEMMA HunksDescribe ==
    ASSUME NEW c, IsChange(c), c.isText, NEW context \in Nat,
           NEW s \in Scripts(Stored(c.old), Stored(c.new)), NEW e, HunksShow(e, s, Kept(s, context))
    PROVE  /\ \A h \in DOMAIN e.hunks, side \in Side : \A i \in DOMAIN e.hunks[h] :
                 LET l == e.hunks[h][i]
                 IN  l.mark \in Marks(side) =>
                        /\ c[side] # NoContent
                        /\ l[side] \in DOMAIN c[side]
                        /\ c[side][l[side]] = [text |-> l.text, cut |-> l.cut]
           /\ Unprinted(c, e, "old") = Unprinted(c, e, "new")
<1>1. "old" \in Side /\ "new" \in Side /\ c["old"] = c.old /\ c["new"] = c.new
  BY DEF Side
<1>2. Stored(c.old) \in Content /\ Stored(c.new) \in Content
  BY ChangeParts, EmptySeq DEF Stored, Content
<1>3. s \in Script /\ Scripted(s, "old", Stored(c.old)) /\ Scripted(s, "new", Stored(c.new))
  BY <1>2, ScriptsAreScripts
<1>4. ASSUME NEW side \in Side
      PROVE  Stored(c[side]) \in Content /\ Scripted(s, side, Stored(c[side]))
  BY <1>1, <1>2, <1>3 DEF Side
<1>5. ASSUME NEW h \in DOMAIN e.hunks, NEW side \in Side, NEW i \in DOMAIN e.hunks[h],
             e.hunks[h][i].mark \in Marks(side)
      PROVE  LET l == e.hunks[h][i]
             IN  /\ c[side] # NoContent
                 /\ l[side] \in DOMAIN c[side]
                 /\ c[side][l[side]] = [text |-> l.text, cut |-> l.cut]
  <2> DEFINE S == On(side, s)
             content == Stored(c[side])
             l == e.hunks[h][i]
  <2>1. PICK k \in Kept(s, context) : l = ReadOf(s, k)
    BY DEF HunksShow
  <2>2. k \in S /\ Len(s) \in Nat /\ S \subseteq 1 .. Len(s) /\ s[k].line \in GitLine
    <3>1. k \in DOMAIN s
      BY DEF Kept
    <3>2. s[k].mark = l.mark
      BY <2>1 DEF ReadOf
    <3> QED BY <1>3, <1>5, <3>1, <3>2, ScriptParts DEF On
  <2>3. l[side] = Rank(S, k) /\ l.text = s[k].line.text /\ l.cut = s[k].line.cut
    <3>1. l[side] = Number(side, s, k)
      BY <2>1 DEF ReadOf, Side
    <3>2. l.text = s[k].line.text /\ l.cut = s[k].line.cut
      BY <2>1 DEF ReadOf
    <3> QED BY <2>2, <3>1, <3>2 DEF Number, On
  <2>4. Rank(S, k) \in 1 .. Cardinality(S) /\ Cardinality(S) \in Nat
    <3> HIDE DEF S
    <3> QED BY <2>2, RankReaches
  <2>5. /\ Cardinality(S) = Len(content) /\ s[k].line = content[Rank(S, k)]
        /\ DOMAIN content = 1 .. Len(content)
    <3>1. DOMAIN content = 1 .. Len(content)
      BY <1>4, LenProperties DEF Content
    <3> QED BY <1>4, <2>2, <3>1 DEF Scripted
  <2>6. content = c[side] /\ c[side] # NoContent
    <3>1. ASSUME c[side] = NoContent PROVE FALSE
      <4>1. content = <<>>
        BY <3>1 DEF Stored
      <4>2. Len(content) = 0
        BY <4>1
      <4> HIDE DEF S, content
      <4> QED BY <2>4, <2>5, <4>2
    <3> QED BY <3>1 DEF Stored
  <2>7. s[k].line = [text |-> s[k].line.text, cut |-> s[k].line.cut]
    BY <2>2 DEF GitLine
  <2> HIDE DEF S, content, l
  <2>8. /\ c[side] # NoContent /\ l[side] \in DOMAIN c[side]
        /\ c[side][l[side]] = [text |-> l.text, cut |-> l.cut]
    <3>1. l[side] \in DOMAIN c[side]
      BY <2>3, <2>4, <2>5, <2>6
    <3>2. c[side][l[side]] = s[k].line
      BY <2>3, <2>5, <2>6
    <3>3. s[k].line = [text |-> l.text, cut |-> l.cut]
      <4> HIDE DEF GitLine
      <4> QED BY <2>3, <2>7
    <3> QED BY <2>6, <3>1, <3>2, <3>3
  <2> QED BY <2>8 DEF l
<1>6. Unprinted(c, e, "old") = Unprinted(c, e, "new")
  <2> DEFINE U == DOMAIN s \ Kept(s, context)
             common == Skipped(s, U)
  <2>1. ASSUME NEW side \in Side PROVE Unprinted(c, e, side) = common
    BY <1>3, <1>4, UnprintedIs
  <2> QED BY <1>1, <2>1
<1> QED BY <1>5, <1>6

(* Lines of the new side are of a content there is.                        *)
NewLinesAreStored(e, c) ==
    \A h \in DOMAIN e.hunks : \A i \in DOMAIN e.hunks[h] :
        e.hunks[h][i].mark \in Marks("new") => c.isText /\ c.new # NoContent

(* What is read of a patch of a change is true, and accepted if its header *)
(* is legible.                                                             *)
LEMMA SectionsAreTrue ==
    ASSUME NEW c, IsChange(c), NEW s \in Sections(c, Contexts)
    PROVE  LET e == Entry(s, Listed(c), c.old, c.new)
           IN  /\ Legible(c) => Accepted(s, Listed(c))
               /\ Describes(e, c) /\ NewLinesAreStored(e, c)
               /\ e.original = c.original /\ e.current = c.current
<1> DEFINE e == Entry(s, Listed(c), c.old, c.new)
<1>1. CASE c.isText
  <2>1. PICK w \in Scripts(Stored(c.old), Stored(c.new)), context \in Contexts :
           s = Section(c, HunksOf(w, context))
    BY <1>1 DEF Sections
  <2> DEFINE hs == HunksOf(w, context)
  <2>2. context \in Nat
    BY AnchorsAssumption
  <2>3. Stored(c.old) \in Content /\ Stored(c.new) \in Content
    BY <1>1, ChangeParts, EmptySeq DEF Stored, Content
  <2>4. w \in Script
    BY <2>3, ScriptsAreScripts
  <2>5. ASSUME NEW h \in DOMAIN hs PROVE HunkAccepted(hs[h])
    <3>1. PICK first, last \in DOMAIN w : HunkOf(hs[h], w, Kept(w, context), first, last)
      BY <2>2, <2>4, HunksAreRuns
    <3> HIDE DEF hs
    <3>2. first <= last /\ hs[h] = HunkAt(w, first, last)
      BY <3>1 DEF HunkOf
    <3> QED BY <2>4, <3>2, HunkIsAccepted
  <2>6. /\ Legible(c) => Accepted(s, Listed(c))
        /\ e.status = c.status /\ e.original = c.original /\ e.current = c.current
        /\ e.isText = c.isText
        /\ c.original # NoPath => e.old = c.old
        /\ e.new = IF c.current = NoPath THEN <<>> ELSE c.new
        /\ e.hunks = [h \in DOMAIN hs |-> ReadHunk(hs[h]).lines]
    <3> HIDE DEF hs
    <3>1. s = Section(c, hs)
      BY <2>1 DEF hs
    <3> QED BY <1>1, <2>5, <3>1, EntriesAreChanges
  <2> HIDE DEF e
  <2>7. HunksShow(e, w, Kept(w, context))
    BY <2>2, <2>4, <2>6, HunksShowKept
  <2>8. /\ \A h \in DOMAIN e.hunks, side \in Side : \A i \in DOMAIN e.hunks[h] :
              LET l == e.hunks[h][i]
              IN  l.mark \in Marks(side) =>
                     /\ c[side] # NoContent
                     /\ l[side] \in DOMAIN c[side]
                     /\ c[side][l[side]] = [text |-> l.text, cut |-> l.cut]
        /\ Unprinted(c, e, "old") = Unprinted(c, e, "new")
    BY <1>1, <2>2, <2>7, HunksDescribe
  <2>9. \A side \in Side : PathOn(side, c) # NoPath => e[side] = c[side]
    BY <2>6 DEF Side, PathOn
  <2>10. \A f \in {"status", "original", "current", "isText"} : e[f] = c[f]
    BY <2>6
  <2>11. Describes(e, c)
    BY <2>8, <2>9, <2>10 DEF Describes
  <2>12. NewLinesAreStored(e, c)
    <3>1. "new" \in Side /\ c["new"] = c.new
      BY DEF Side
    <3> QED BY <1>1, <2>8, <3>1 DEF NewLinesAreStored
  <2> QED BY <2>6, <2>11, <2>12 DEF e
<1>2. CASE ~c.isText
  <2>1. s = Section(c, <<>>)
    BY <1>2 DEF Sections
  <2>2. \A h \in DOMAIN <<>> : HunkAccepted(<<>>[h])
    OBVIOUS
  <2>3. /\ Legible(c) => Accepted(s, Listed(c))
        /\ e.status = c.status /\ e.original = c.original /\ e.current = c.current
        /\ e.isText = c.isText /\ e.hunks = <<>>
    BY <1>2, <2>1, <2>2, EntriesAreChanges
  <2> HIDE DEF e
  <2>4. \A f \in {"status", "original", "current", "isText"} : e[f] = c[f]
    BY <2>3
  <2>5. Describes(e, c)
    BY <1>2, <2>4 DEF Describes
  <2>6. NewLinesAreStored(e, c)
    BY <2>3 DEF NewLinesAreStored
  <2> QED BY <2>3, <2>5, <2>6 DEF e
<1> QED BY <1>1, <1>2

LEMMA PatchesAreTrue ==
    ASSUME NEW t \in Trees, NEW printed \in Patches[t]
    PROVE  /\ Reading(printed) \in {Manifest(printed), Unreadable}
           /\ (\A c \in t : Legible(c)) => Reading(printed) = Manifest(printed)
           /\ Manifest(printed) # Unreadable
           /\ Cardinality(Manifest(printed)) = Cardinality(t)
           /\ \A c \in t : \E e \in Manifest(printed) : Describes(e, c)
           /\ \A e \in Manifest(printed) : \E c \in t : Describes(e, c) /\ NewLinesAreStored(e, c)
<1> DEFINE entry(c) == Entry(printed[c], Listed(c), c.old, c.new)
<1>1. IsFiniteSet(t) /\ \A c \in t : IsChange(c)
  BY TreesAssumption
<1>2. DOMAIN printed = t /\ \A c \in t : printed[c] \in Sections(c, Contexts)
  <2>1. \A c \in t : c \in UNION Trees
    OBVIOUS
  <2> QED BY <2>1 DEF Patches
<1>3. ASSUME NEW c \in t
      PROVE  /\ Legible(c) => Accepted(printed[c], Listed(c))
             /\ Describes(entry(c), c)
             /\ NewLinesAreStored(entry(c), c)
             /\ entry(c).original = c.original /\ entry(c).current = c.current
  BY <1>1, <1>2, SectionsAreTrue
<1>4. /\ Reading(printed) \in {Manifest(printed), Unreadable}
      /\ (\A c \in t : Legible(c)) => Reading(printed) = Manifest(printed)
  BY <1>2, <1>3 DEF Reading
<1>5. Manifest(printed) = {entry(c) : c \in t}
  BY <1>2 DEF Manifest
<1> HIDE DEF entry
<1>6. \A c \in t : \E e \in Manifest(printed) : Describes(e, c)
  BY <1>3, <1>5
<1>7. Cardinality(Manifest(printed)) = Cardinality(t)
  <2> DEFINE f == [c \in t |-> entry(c)]
             M == Manifest(printed)
  <2>1. f \in [t -> M] /\ \A e \in M : \E c \in t : f[c] = e
    BY <1>5
  <2>2. \A c, d \in t : f[c] = f[d] => c = d
    <3> TAKE c, d \in t
    <3>1. ASSUME entry(c) = entry(d) PROVE c = d
      <4>1. c.original = d.original /\ c.current = d.current
        BY <1>3, <3>1
      <4> QED BY <4>1, TreesAssumption
    <3> QED BY <3>1
  <2> HIDE DEF f, M
  <2>3. f \in Bijection(t, M)
    BY <2>1, <2>2 DEF Bijection, Injection, Surjection, IsInjective
  <2>4. ExistsBijection(t, M)
    BY <2>3 DEF ExistsBijection
  <2>5. Cardinality(M) = Cardinality(t)
    BY <1>1, <2>4, FS_Bijection
  <2> QED BY <2>5 DEF M
<1>8. Manifest(printed) # Unreadable
  BY UnreadableAssumption
<1>9. \A e \in Manifest(printed) : \E c \in t : Describes(e, c) /\ NewLinesAreStored(e, c)
  BY <1>3, <1>5
<1> QED BY <1>4, <1>6, <1>7, <1>8, <1>9

(* The manifest is one that was read of the changes there are, if they can *)
(* be read.                                                                *)
ManifestIsRead ==
    /\ tree \in Trees
    /\ (\A c \in tree : Legible(c)) =>
          \E printed \in Patches[tree] : manifest = Manifest(printed)

LEMMA ReadingsAreManifests ==
    ASSUME NEW t \in Trees, NEW reading \in Readings[t]
    PROVE  /\ reading # Unreadable => \E printed \in Patches[t] : reading = Manifest(printed)
           /\ (\A c \in t : Legible(c)) => reading # Unreadable
<1>1. PICK printed \in Patches[t] : reading = Reading(printed)
  BY DEF Readings
<1> QED BY <1>1, PatchesAreTrue

(* ManifestIsTrue, for all changes, however jj cuts them into lines and    *)
(* hunks: parseGitPatch accepts every patch jj may print of them, unless a *)
(* header has a cut with a malformed path, and each entry has the status,  *)
(* the paths and the contents of its change, each line of a hunk under its *)
(* number in both contents, and what no hunk shows is the same on both     *)
(* sides.                                                                  *)
THEOREM ManifestsAreTrue == Spec => []ManifestIsTrue
<1>1. Init => ManifestIsRead
  BY ReadingsAreManifests DEF Init, ManifestIsRead
<1>2. ManifestIsRead /\ [Next]_vars => ManifestIsRead'
  <2> SUFFICES ASSUME ManifestIsRead, [Next]_vars PROVE ManifestIsRead'
    OBVIOUS
  <2>1. CASE Comment \/ CommentOnFile \/ UNCHANGED vars
    BY <2>1 DEF Comment, CommentOnFile, vars, ManifestIsRead
  <2>2. CASE Refresh
    <3>0. PICK t \in Trees : \E reading \in Readings[t] :
             tree' = t /\ (reading # Unreadable => manifest' = reading)
      BY <2>2 DEF Refresh
    <3>1. PICK reading \in Readings[t] :
             tree' = t /\ (reading # Unreadable => manifest' = reading)
      BY <3>0
    <3>2. (\A c \in t : Legible(c)) =>
             /\ reading # Unreadable
             /\ \E printed \in Patches[t] : reading = Manifest(printed)
      BY ReadingsAreManifests
    <3> QED BY <3>1, <3>2 DEF ManifestIsRead
  <2> QED BY <2>1, <2>2 DEF Next
<1>3. ManifestIsRead => ManifestIsTrue
  BY PatchesAreTrue DEF ManifestIsRead, ManifestIsTrue
<1> QED BY <1>1, <1>2, <1>3, PTL DEF Spec

(* Up to a line, where none is broken, the editor shows each line under    *)
(* its number.                                                             *)
LEMMA LinesAreShown ==
    ASSUME NEW content \in Content, NEW m \in DOMAIN content, UnbrokenTo(content, m)
    PROVE  m \in DOMAIN DocumentLines(content) /\ DocumentLines(content)[m] = Broken(content[m])
<1> DEFINE Words(text) == [j \in DOMAIN text |-> <<text[j]>>]
           part(i) == Words(Broken(content[i]))
           parts == [i \in DOMAIN content |-> part(i)]
           final == IF content # <<>> /\ Last(content).cut THEN <<>> ELSE <<<<Blank>>>>
           n == Len(content)
<1>1. /\ n \in Nat /\ DOMAIN content = 1 .. n
      /\ \A i \in 1 .. n : Broken(content[i]) \in Seq(Word)
  <2>1. content \in Seq(GitLine) /\ \A l \in GitLine : l.text \in Seq(Word)
    BY DEF Content, GitLine
  <2> QED BY <2>1, LenProperties, BrokenIsText
<1>2. ASSUME NEW text \in Seq(Word)
      PROVE  /\ Words(text) \in Seq(Text) /\ text \in Text
             /\ Len(text) = 1 => Words(text) = <<text>>
  <2>1. Len(text) \in Nat /\ DOMAIN text = 1 .. Len(text)
        /\ \A j \in DOMAIN text : <<text[j]>> \in Text
    BY <1>2, LenProperties DEF Text
  <2>2. Words(text) \in Seq(Text)
    BY <2>1, FunctionIsSeq
  <2>3. ASSUME Len(text) = 1 PROVE Words(text) = <<text>>
    <3>1. DOMAIN text = 1 .. 1 /\ text = [j \in 1 .. 1 |-> text[j]]
      BY <2>1, <2>3
    <3>2. text = <<text[1]>>
      BY <1>2, <3>1
    <3>3. Words(text) = [j \in 1 .. 1 |-> <<text[j]>>]
      BY <3>1
    <3>4. [j \in 1 .. 1 |-> <<text[j]>>] = <<<<text[1]>>>>
      OBVIOUS
    <3>5. <<<<text[1]>>>> = <<text>>
      BY <3>2
    <3> QED BY <3>3, <3>4, <3>5
  <2> HIDE DEF Words
  <2> QED BY <2>2, <2>3 DEF Text
<1> HIDE DEF Words
<1>3. /\ parts \in Seq(Seq(Text)) /\ Len(parts) = n /\ m \in 1 .. n
      /\ \A i \in 1 .. m : i \in 1 .. n /\ parts[i] = <<Broken(content[i])>>
      /\ \A i \in 1 .. m : Broken(content[i]) \in Text
  <2>1. parts \in [1 .. n -> Seq(Text)] /\ \A i \in 1 .. n : parts[i] = part(i)
    <3> HIDE DEF n
    <3> QED BY <1>1, <1>2
  <2>2. m \in 1 .. n /\ \A i \in 1 .. m : i \in 1 .. n /\ i <= m
    <3> HIDE DEF n
    <3> QED BY <1>1
  <2>3. \A i \in 1 .. m : Len(Broken(content[i])) = 1
    BY <1>1, <2>2 DEF UnbrokenTo
  <2> HIDE DEF parts, n
  <2>4. parts \in Seq(Seq(Text)) /\ Len(parts) = n
    BY <1>1, <2>1, FunctionIsSeq
  <2> QED BY <1>1, <1>2, <2>1, <2>2, <2>3, <2>4
<1>4. DocumentLines(content) = FlattenSeq(parts) \o final
  BY DEF DocumentLines, Words
<1>5. final \in Seq(Text)
  BY AnchorsAssumption DEF Text
<1> HIDE DEF parts, final, n
<1>6. PICK flat \in [0 .. n -> Seq(Text)] : Joined(flat, parts)
  BY <1>3, FlatIsJoined
<1> DEFINE Good == {k \in Nat : k <= m => /\ Len(flat[k]) = k
                                          /\ \A i \in 1 .. k : flat[k][i] = Broken(content[i])}
<1>7. 0 \in Good
  BY <1>6 DEF Joined
<1>8. ASSUME NEW k \in Good PROVE k + 1 \in Good
  <2>1. SUFFICES ASSUME k + 1 <= m
                 PROVE  /\ Len(flat[k + 1]) = k + 1
                        /\ \A i \in 1 .. k + 1 : flat[k + 1][i] = Broken(content[i])
    OBVIOUS
  <2>2. /\ k \in Nat /\ k \in 0 .. n /\ k + 1 \in 1 .. n /\ k + 1 \in 1 .. m /\ (k + 1) - 1 = k
        /\ Len(flat[k]) = k /\ \A i \in 1 .. k : flat[k][i] = Broken(content[i])
    BY <1>1, <1>3, <2>1
  <2> DEFINE a == flat[k]
             x == Broken(content[k + 1])
  <2>3. flat[k + 1] = a \o <<x>> /\ a \in Seq(Text) /\ x \in Text
    <3>1. flat[k + 1] = flat[k] \o parts[k + 1]
      BY <1>3, <1>6, <2>2 DEF Joined
    <3> QED BY <1>3, <1>6, <2>2, <3>1
  <2>4. Len(a) = k /\ \A i \in 1 .. k : a[i] = Broken(content[i])
    BY <2>2
  <2> HIDE DEF a, x
  <2>5. a \o <<x>> = Append(a, x)
    BY <2>3, AppendIsConcat
  <2>6. /\ Len(Append(a, x)) = k + 1
        /\ \A i \in 1 .. k : Append(a, x)[i] = a[i]
        /\ Append(a, x)[k + 1] = x
    BY <2>3, <2>4, AppendProperties
  <2>7. \A i \in 1 .. k + 1 : i \in 1 .. k \/ i = k + 1
    BY <2>2
  <2> QED BY <2>3, <2>4, <2>5, <2>6, <2>7 DEF x
<1>9. Good = Nat
  <2>1. Good \subseteq Nat
    OBVIOUS
  <2> HIDE DEF Good
  <2> QED BY <1>7, <1>8, <2>1, SetInduction
<1>10. Len(flat[m]) = m /\ flat[m][m] = Broken(content[m]) /\ m \in Nat /\ m \in 0 .. n
  <2>1. m \in Nat /\ m \in 0 .. n /\ m \in 1 .. m /\ m <= m
    BY <1>1, <1>3
  <2>2. m \in Good
    <3> HIDE DEF Good
    <3> QED BY <1>9, <2>1
  <2> QED BY <2>1, <2>2
<1> DEFINE all == FlattenSeq(parts)
<1>11. all \in Seq(Text) /\ m \in 1 .. Len(all) /\ all[m] = Broken(content[m])
  <2>1. all \in Seq(Text)
    BY <1>3, FlatIsSeq
  <2>2. /\ Len(flat[m]) <= Len(all)
        /\ \A k \in 1 .. Len(flat[m]) : all[k] = flat[m][k]
    BY <1>3, <1>6, <1>10, JoinedBegins
  <2>3. Len(all) \in Nat
    BY <2>1, LenProperties
  <2> HIDE DEF all
  <2> QED BY <1>3, <1>10, <2>1, <2>2, <2>3
<1> HIDE DEF all
<1>12. /\ Len(all \o final) = Len(all) + Len(final) /\ Len(final) \in Nat /\ Len(all) \in Nat
       /\ \A i \in 1 .. Len(all) + Len(final) :
             (all \o final)[i] = IF i <= Len(all) THEN all[i] ELSE final[i - Len(all)]
       /\ DOMAIN (all \o final) = 1 .. Len(all) + Len(final)
  <2>1. all \o final \in Seq(Text)
    BY <1>5, <1>11, ConcatProperties
  <2> QED BY <1>5, <1>11, <2>1, ConcatProperties, LenProperties
<1>13. m \in DOMAIN (all \o final) /\ (all \o final)[m] = all[m]
  BY <1>10, <1>11, <1>12
<1> QED BY <1>4, <1>11, <1>13 DEF all

(* What a hunk has on the new side is in the document under its number,    *)
(* above a carriage return within a line.                                  *)
HunkLineIsShown(e, line, text) ==
    UnbrokenTo(e.new, line) =>
        line \in DOMAIN Lines(e, "new") /\ ReadsAs(text, Lines(e, "new")[line])

LEMMA DocumentsAreShown ==
    ASSUME NEW t \in Trees, NEW entries \in Readings[t] \ {Unreadable}, NEW e \in entries,
           NEW h \in DOMAIN e.hunks, NEW i \in DOMAIN e.hunks[h],
           e.hunks[h][i].mark \in Marks("new")
    PROVE  HunkLineIsShown(e, e.hunks[h][i].new, e.hunks[h][i].text)
<1> DEFINE l == e.hunks[h][i]
<1>1. PICK c \in t : Describes(e, c) /\ NewLinesAreStored(e, c)
  <2>1. PICK printed \in Patches[t] : entries = Manifest(printed)
    BY ReadingsAreManifests
  <2> QED BY <2>1, PatchesAreTrue
<1>2. c.isText /\ c.new # NoContent /\ IsChange(c)
  BY <1>1, TreesAssumption DEF NewLinesAreStored
<1>3. "new" \in Side /\ PathOn("new", c) = c.current /\ c["new"] = c.new /\ e["new"] = e.new
      /\ l["new"] = l.new
  BY DEF Side, PathOn
<1>4. c.current # NoPath /\ c.new \in Content
  BY <1>2, ChangeParts
<1>5. e.new = c.new
  BY <1>1, <1>2, <1>3, <1>4 DEF Describes
<1>6. l.new \in DOMAIN c.new /\ c.new[l.new] = [text |-> l.text, cut |-> l.cut]
  BY <1>1, <1>2, <1>3 DEF Describes
<1>7. c.new[l.new].text \in Seq(Word)
  <2>1. c.new \in Seq(GitLine) /\ \A g \in GitLine : g.text \in Seq(Word)
    BY <1>4 DEF Content, GitLine
  <2> QED BY <1>6, <2>1, LenProperties
<1>8. ReadsAs(l.text, Broken(c.new[l.new]))
  <2>1. c.new[l.new].text = l.text
    BY <1>6
  <2> HIDE DEF l
  <2> QED BY <1>7, <2>1, BrokenIsText
<1>9. ASSUME UnbrokenTo(e.new, l.new)
      PROVE  l.new \in DOMAIN Lines(e, "new") /\ ReadsAs(l.text, Lines(e, "new")[l.new])
  <2>1. /\ l.new \in DOMAIN DocumentLines(c.new)
        /\ DocumentLines(c.new)[l.new] = Broken(c.new[l.new])
    BY <1>4, <1>5, <1>6, <1>9, LinesAreShown
  <2> HIDE DEF l
  <2> QED BY <1>3, <1>5, <1>8, <2>1 DEF Lines
<1> QED BY <1>9 DEF HunkLineIsShown

(* Every entry a refresh reads has contents.                               *)
LEMMA EntriesAreRead ==
    ASSUME NEW t \in Trees, NEW entries \in Readings[t] \ {Unreadable}, NEW e \in entries
    PROVE  IsEntry(e)
<1>1. PICK printed \in Patches[t] : entries = Manifest(printed)
  BY ReadingsAreManifests
<1>2. PICK c \in t : e = Entry(printed[c], Listed(c), c.old, c.new)
  <2>1. DOMAIN printed = t
    BY DEF Patches
  <2> QED BY <1>1, <2>1 DEF Manifest
<1>3. c.old \in {NoContent} \cup Content /\ c.new \in {NoContent} \cup Content
  BY AnchorsAssumption DEF Side
<1>4. <<>> \in Content
  BY EmptySeq DEF Content
<1>5. e.old \in {NoContent} \cup Content /\ e.new \in {NoContent} \cup Content
  BY <1>2, <1>3, <1>4 DEF Entry
<1> QED BY <1>5 DEF IsEntry, Side

(* The documents of a manifest's entries.                                  *)
LEMMA DocumentsAreLines ==
    ASSUME ManifestWasRead, NEW e \in manifest, NEW side \in Side, e[side] # NoContent
    PROVE  /\ DocumentLines(e[side]) \in Document
           /\ Len(DocumentLines(e[side])) \in Nat
           /\ DOMAIN DocumentLines(e[side]) = 1 .. Len(DocumentLines(e[side]))
<1>1. IsEntry(e)
  BY EntriesAreRead DEF ManifestWasRead
<1>2. DocumentLines(e[side]) \in Document
  BY <1>1, DocumentLinesAreLines DEF IsEntry
<1> QED BY <1>2, LenProperties DEF Document

-----------------------------------------------------------------------------
(* A new thread.                                                           *)

(* An anchor in the document has the line and what is around it.           *)
LEMMA DocumentAnchorFound ==
    ASSUME ManifestWasRead, NEW e \in manifest, NEW side \in Side, e.isText,
           e[side] # NoContent, NEW line \in DOMAIN DocumentLines(e[side])
    PROVE  LET a == DocumentAnchor(e, side, line) IN
           /\ a.kind = "document" /\ a.side = side /\ a.line = line
           /\ a.original = e.original /\ a.current = e.current
           /\ a.document = e[side]
           /\ AnchorIsWhole(a)
<1> DEFINE lines == DocumentLines(e[side])
           first == IF line - Around < 1 THEN 1 ELSE line - Around
           last == IF line + Around > Len(lines) THEN Len(lines) ELSE line + Around
           a == DocumentAnchor(e, side, line)
<1>1. lines \in Seq(Text) /\ Len(lines) \in Nat /\ line \in 1 .. Len(lines)
  BY DocumentsAreLines DEF Document
<1>2. Around \in Nat
  BY AnchorsAssumption
<1>3. /\ first \in 1 .. line /\ last \in line .. Len(lines)
      /\ first \in 1 .. Len(lines) /\ last \in 1 .. Len(lines)
  <2> HIDE DEF lines
  <2> QED BY <1>1, <1>2
<1>4. a = [kind |-> "document", side |-> side, original |-> e.original, current |-> e.current,
           line |-> line, text |-> lines[line], around |-> SubSeq(lines, first, last),
           index |-> line - first + 1, document |-> e[side]]
  BY DEF DocumentAnchor
<1> HIDE DEF lines, first, last, a
<1>5. /\ SubSeq(lines, first, last) \in Seq(Text)
      /\ Len(SubSeq(lines, first, last)) = last - first + 1
      /\ \A i \in 1 .. last - first + 1 : SubSeq(lines, first, last)[i] = lines[first + i - 1]
  BY <1>1, <1>3, SubSeqProperties
<1>6. /\ line - first + 1 \in 1 .. last - first + 1
      /\ first + (line - first + 1) - 1 = line
  BY <1>1, <1>3
<1>7. /\ DOMAIN SubSeq(lines, first, last) = 1 .. last - first + 1
      /\ SubSeq(lines, first, last)[line - first + 1] = lines[line]
  BY <1>5, <1>6, LenProperties
<1>8. /\ a.around \in Document /\ a.index \in DOMAIN a.around
      /\ a.around[a.index] = a.text
  BY <1>4, <1>5, <1>6, <1>7 DEF Document
<1>9. /\ a.line \in DOMAIN DocumentLines(a.document)
      /\ DocumentLines(a.document)[a.line] = a.text
  BY <1>1, <1>4 DEF lines
<1>10. /\ a.kind = "document" /\ a.side = side /\ a.line = line
       /\ a.original = e.original /\ a.current = e.current
       /\ a.document = e[side]
  BY <1>4
<1>11. AnchorIsWhole(a)
  BY <1>8, <1>9, <1>10 DEF AnchorIsWhole
<1> QED BY <1>10, <1>11 DEF a

(* An anchor in a hunk has the hunk of its line.                           *)
LEMMA HunkAnchorFound ==
    ASSUME NEW e, NEW line, IsSingle(Places(e, "new", line))
    PROVE  LET a == HunkAnchor(e, line) IN
           /\ a.kind = "hunk" /\ a.side = "new" /\ a.line = line
           /\ a.original = e.original /\ a.current = e.current
           /\ HunkHas(a, e, line)
           /\ IsSingle(EqualHunks(a, e)) => HunkLine(a, e) = line
<1> DEFINE place == CHOOSE p \in Places(e, "new", line) : TRUE
           h == place[1]
           i == place[2]
           a == HunkAnchor(e, line)
<1>1. Places(e, "new", line) = {place}
  BY DEF IsSingle
<1>2. /\ h \in DOMAIN e.hunks /\ i \in DOMAIN e.hunks[h] /\ place = <<h, i>>
      /\ e.hunks[h][i].mark \in Marks("new") /\ e.hunks[h][i].new = line
  <2>1. place \in Places(e, "new", line)
    BY <1>1
  <2>2. PICK k \in DOMAIN e.hunks : place \in {<<k, j>> : j \in DOMAIN e.hunks[k]}
    BY <2>1 DEF Places
  <2>3. e.hunks[h][i].mark \in Marks("new") /\ e.hunks[h][i]["new"] = line
    BY <2>1 DEF Places
  <2> HIDE DEF place
  <2> QED BY <2>2, <2>3
<1>3. a = [kind |-> "hunk", side |-> "new", original |-> e.original, current |-> e.current,
           line |-> line, text |-> e.hunks[h][i].text, hunk |-> e.hunks[h]]
  BY DEF HunkAnchor
<1> HIDE DEF place, h, i, a
<1>4. h \in EqualHunks(a, e)
  BY <1>2, <1>3 DEF EqualHunks, SameHunk
<1>5. HunkHas(a, e, line)
  BY <1>2, <1>3, <1>4 DEF HunkHas
<1>6. ASSUME IsSingle(EqualHunks(a, e)) PROVE HunkLine(a, e) = line
  <2> DEFINE targets == {j \in DOMAIN a.hunk : /\ a.hunk[j].mark \in Marks(a.side)
                                               /\ a.hunk[j][a.side] = a.line
                                               /\ a.hunk[j].text = a.text}
             equal == EqualHunks(a, e)
  <2>1. \A j \in targets : <<h, j>> \in Places(e, "new", line)
    BY <1>2, <1>3 DEF Places
  <2>2. targets = {i}
    <3>1. i \in targets
      BY <1>2, <1>3
    <3>2. \A j \in targets : j = i
      BY <1>1, <1>2, <2>1
    <3> HIDE DEF targets
    <3> QED BY <3>1, <3>2
  <2>3. equal = {h}
    BY <1>4, <1>6 DEF IsSingle
  <2>4. HunkLine(a, e) = IF IsSingle(targets) /\ IsSingle(equal)
                         THEN e.hunks[CHOOSE k \in equal : TRUE][CHOOSE j \in targets : TRUE][a.side]
                         ELSE NotFound
    BY DEF HunkLine, EqualHunks
  <2> HIDE DEF targets, equal
  <2>5. /\ IsSingle(targets) /\ IsSingle(equal)
        /\ (CHOOSE k \in equal : TRUE) = h /\ (CHOOSE j \in targets : TRUE) = i
    BY <2>2, <2>3 DEF IsSingle
  <2> QED BY <1>2, <1>3, <2>4, <2>5
<1> QED BY <1>3, <1>5, <1>6 DEF a

LEMMA LineAnchorFound ==
    ASSUME ManifestWasRead, NEW e \in manifest, NEW side \in Side, e.isText,
           e[side] # NoContent, NEW line \in DOMAIN DocumentLines(e[side])
    PROVE  LET a == LineAnchor(e, side, line) IN
           /\ a.kind \in {"hunk", "document"} /\ a.side = side /\ a.line = line
           /\ a.original = e.original /\ a.current = e.current
           /\ AnchorIsWhole(a)
           /\ a.kind = "hunk" =>
                 /\ HunkHas(a, e, line)
                 /\ IsSingle(EqualHunks(a, e)) => HunkLine(a, e) = line
           /\ a.kind = "document" => a.document = e[side]
<1>1. CASE side = "new" /\ IsSingle(Places(e, side, line))
  <2> DEFINE a == LineAnchor(e, side, line)
  <2>1. a = HunkAnchor(e, line)
    BY <1>1 DEF LineAnchor
  <2> HIDE DEF a
  <2>2. a.kind = "hunk" /\ a.side = "new" /\ a.line = line
        /\ a.original = e.original /\ a.current = e.current
        /\ HunkHas(a, e, line) /\ (IsSingle(EqualHunks(a, e)) => HunkLine(a, e) = line)
    BY <1>1, <2>1, HunkAnchorFound
  <2>3. AnchorIsWhole(a)
    BY <2>2 DEF AnchorIsWhole, Side
  <2> QED BY <1>1, <2>2, <2>3 DEF a
<1>2. CASE ~(side = "new" /\ IsSingle(Places(e, side, line)))
  <2> DEFINE a == LineAnchor(e, side, line)
  <2>1. a = DocumentAnchor(e, side, line)
    BY <1>2 DEF LineAnchor
  <2> HIDE DEF a
  <2>2. a.kind = "document" /\ a.side = side /\ a.line = line
        /\ a.original = e.original /\ a.current = e.current
        /\ a.document = e[side] /\ AnchorIsWhole(a)
    BY <2>1, DocumentAnchorFound
  <2> QED BY <2>2 DEF a
<1> QED BY <1>1, <1>2

LEMMA ShownAt ==
    ASSUME NEW a, NEW e, NEW line
    PROVE  /\ a.kind = "file" =>
                 /\ Shown(a, e, line).path = DocumentPath("new", e)
                 /\ Shown(a, e, line).side = "new" /\ Shown(a, e, line) = Shown(a, e, 0)
           /\ a.kind # "file" => /\ Shown(a, e, line).path = PathOn(a.side, e)
                                 /\ Shown(a, e, line).side = a.side
                                 /\ Shown(a, e, line).line = line
  BY DEF Shown, DocumentPath

LEMMA CommentKeeps ==
    ASSUME ThreadInv, Comment
    PROVE  ThreadInv'
<1>1. PICK d \in Documents(manifest) :
         /\ Commentable(d)
         /\ \E line \in DOMAIN DocumentLines(d.file[d.side]) :
               thread' = [anchor |-> LineAnchor(d.file, d.side, line),
                          projection |-> Shown(LineAnchor(d.file, d.side, line), d.file, line)]
  BY DEF Comment
<1>2. PICK line \in DOMAIN DocumentLines(d.file[d.side]) :
         thread' = [anchor |-> LineAnchor(d.file, d.side, line),
                    projection |-> Shown(LineAnchor(d.file, d.side, line), d.file, line)]
  BY <1>1
<1> DEFINE e == d.file
           side == d.side
           a == LineAnchor(e, side, line)
<1>3. e \in manifest /\ side \in Side /\ d.path = DocumentPath(side, e)
  BY DEF Documents, DocumentPath
<1>4. e.isText /\ d.path = PathOn(side, e) /\ e[side] # NoContent
  BY <1>1 DEF Commentable
<1>5. thread' = [anchor |-> a, projection |-> Shown(a, e, line)]
  BY <1>2
<1>6. UNCHANGED manifest /\ ManifestWasRead /\ ManifestWasRead'
  BY DEF Comment, ThreadInv, ManifestWasRead
<1>7. line \in DOMAIN DocumentLines(e[side]) /\ line # NotFound
  <2>1. line \in DOMAIN DocumentLines(e[side])
    OBVIOUS
  <2> HIDE DEF e, side
  <2> QED BY <1>3, <1>4, <1>6, <2>1, DocumentsAreLines DEF NotFound
<1> HIDE DEF e, side
<1>8. /\ a.kind \in {"hunk", "document"} /\ a.side = side /\ a.line = line
      /\ a.original = e.original /\ a.current = e.current
      /\ AnchorIsWhole(a)
      /\ a.kind = "hunk" =>
            /\ HunkHas(a, e, line)
            /\ IsSingle(EqualHunks(a, e)) => HunkLine(a, e) = line
      /\ a.kind = "document" => a.document = e[side]
  <2> HIDE DEF a
  <2>1. a = LineAnchor(e, side, line)
    BY DEF a
  <2> QED BY <1>3, <1>4, <1>6, <1>7, <2>1, LineAnchorFound
<1> HIDE DEF a
<1>9. /\ Shown(a, e, line).path = PathOn(side, e)
      /\ Shown(a, e, line).side = side /\ Shown(a, e, line).line = line
  BY <1>8, ShownAt
<1> DEFINE t == [anchor |-> a, projection |-> Shown(a, e, line)]
<1>10. ThreadIsWhole(t)
  BY <1>8 DEF ThreadIsWhole
<1>11. LineIsFound(t, e)
  <2>1. \/ Shown(a, e, line).path = NoPath
        \/ line = Line(a, e)
        \/ a.kind = "hunk" /\ ~IsSingle(EqualHunks(a, e))
    BY <1>4, <1>8, <1>9 DEF Line, DocumentLine
  <2>2. a.kind = "document" => DocumentHas(a, e, line)
    BY <1>8 DEF DocumentHas
  <2> QED BY <1>4, <1>7, <1>8, <1>9, <2>1, <2>2 DEF LineIsFound
<1>12. FoundIn(t, e)
  <2>1. Shown(a, e, line).path = DocumentPath(side, e)
    BY <1>3, <1>4, <1>9
  <2>2. DocumentPath(side, e) = NoPath => e.original = NoPath /\ e.current = NoPath
    BY DEF DocumentPath, OneOf
  <2> QED BY <1>8, <1>9, <1>11, <2>1, <2>2 DEF FoundIn
<1> QED BY <1>3, <1>5, <1>6, <1>10, <1>12 DEF ThreadInv

LEMMA CommentOnFileKeeps ==
    ASSUME ThreadInv, CommentOnFile
    PROVE  ThreadInv'
<1>1. PICK e \in manifest :
         thread' = [anchor |-> FileAnchor(e), projection |-> Shown(FileAnchor(e), e, 0)]
  BY DEF CommentOnFile
<1>2. UNCHANGED manifest /\ ManifestWasRead'
  BY DEF CommentOnFile, ThreadInv, ManifestWasRead
<1> DEFINE a == FileAnchor(e)
           t == [anchor |-> a, projection |-> Shown(a, e, 0)]
<1>3. /\ a.kind = "file" /\ a.side = "new"
      /\ a.original = e.original /\ a.current = e.current
  BY DEF FileAnchor
<1> HIDE DEF a
<1>4. ThreadIsWhole(t)
  BY <1>3 DEF ThreadIsWhole, AnchorIsWhole, Side
<1>5. FoundIn(t, e)
  <2>1. DocumentPath("new", e) = NoPath => e.original = NoPath /\ e.current = NoPath
    BY DEF DocumentPath, OneOf
  <2> QED BY <1>3, <2>1, ShownAt DEF FoundIn
<1> QED BY <1>1, <1>2, <1>4, <1>5 DEF ThreadInv, a

-----------------------------------------------------------------------------
(* A refresh.                                                              *)

(* A line found by its hunk has the target's text in an equal hunk, and    *)
(* no other hunk is equal.                                                 *)
LEMMA HunkLineFound ==
    ASSUME NEW a, NEW e, a.side = "new", HunkLine(a, e) # NotFound
    PROVE  HunkHas(a, e, HunkLine(a, e))
<1> DEFINE targets == {j \in DOMAIN a.hunk : /\ a.hunk[j].mark \in Marks(a.side)
                                             /\ a.hunk[j][a.side] = a.line
                                             /\ a.hunk[j].text = a.text}
           equal == EqualHunks(a, e)
           h == CHOOSE k \in equal : TRUE
           i == CHOOSE j \in targets : TRUE
<1>1. /\ IsSingle(targets) /\ IsSingle(equal)
      /\ HunkLine(a, e) = e.hunks[h][i][a.side]
  BY DEF HunkLine, EqualHunks
<1>2. i \in targets /\ equal = {h}
  BY <1>1 DEF IsSingle
<1>3. /\ i \in DOMAIN a.hunk /\ a.hunk[i].mark \in Marks("new") /\ a.hunk[i].text = a.text
      /\ HunkLine(a, e) = e.hunks[h][i].new
  <2> HIDE DEF h, i
  <2> QED BY <1>1, <1>2
<1> HIDE DEF targets, equal, h, i
<1>4. /\ h \in DOMAIN e.hunks /\ SameHunk(a.hunk, e.hunks[h])
      /\ \A k \in DOMAIN e.hunks \ {h} : ~SameHunk(a.hunk, e.hunks[k])
  BY <1>2 DEF equal, EqualHunks
<1>5. /\ i \in DOMAIN e.hunks[h]
      /\ e.hunks[h][i]["mark"] = a.hunk[i]["mark"] /\ e.hunks[h][i]["text"] = a.hunk[i]["text"]
  BY <1>3, <1>4 DEF SameHunk
<1>6. h \in EqualHunks(a, e)
  BY <1>4 DEF EqualHunks
<1> QED BY <1>3, <1>4, <1>5, <1>6 DEF HunkHas

LEMMA DocumentLineFound ==
    ASSUME NEW a, NEW e, DocumentLine(a, e) # NotFound
    PROVE  DocumentHas(a, e, DocumentLine(a, e))
  BY DEF DocumentLine, DocumentHas, IsSingle

(* A refresh that finds a thread finds it where its anchor is.             *)
LEMMA ProjectionFound ==
    ASSUME NEW t, ThreadIsWhole(t), NEW entries, Projection(t, entries) # NoProjection
    PROVE  LET u == [t EXCEPT !.projection = Projection(t, entries)]
           IN  ThreadIsWhole(u) /\ \E e \in entries : FoundIn(u, e)
<1> DEFINE bearers == Bearers(entries, AnchorPaths(t))
           e == CHOOSE f \in bearers : TRUE
           a == t.anchor
           u == [t EXCEPT !.projection = Projection(t, entries)]
<1>1. /\ IsSingle(bearers)
      /\ a.kind = "file" => Projection(t, entries) = Shown(a, e, 0)
      /\ a.kind # "file" => /\ Line(a, e) # NotFound
                            /\ Projection(t, entries) = Shown(a, e, Line(a, e))
  BY DEF Projection
<1>2. e \in entries /\ {e.original, e.current} \cap AnchorPaths(t) # {}
  <2>1. e \in bearers
    BY <1>1 DEF IsSingle
  <2> HIDE DEF e
  <2> QED BY <2>1 DEF Bearers
<1>3. e.original # NoPath \/ e.current # NoPath
  <2>1. NoPath \notin AnchorPaths(t)
    BY DEF AnchorPaths
  <2> HIDE DEF e
  <2> QED BY <1>2, <2>1
<1>4. /\ u.anchor = a /\ u.projection = Projection(t, entries)
      /\ u = [anchor |-> u.anchor, projection |-> u.projection]
  BY DEF ThreadIsWhole
<1>5. AnchorIsWhole(a)
  BY DEF ThreadIsWhole
<1> HIDE DEF bearers, e, a, u
<1>6. ThreadIsWhole(u)
  BY <1>4, <1>5 DEF ThreadIsWhole
<1>7. CASE a.kind = "file"
  <2>1. DocumentPath("new", e) # NoPath
    BY <1>3 DEF DocumentPath, OneOf
  <2>2. u.projection = Shown(a, e, 0) /\ a.side = "new"
    BY <1>1, <1>4, <1>5, <1>7 DEF AnchorIsWhole
  <2>3. FoundIn(u, e)
    BY <1>4, <1>7, <2>1, <2>2, ShownAt DEF FoundIn
  <2> QED BY <1>2, <1>6, <2>3 DEF u
<1>8. CASE a.kind # "file"
  <2> DEFINE line == Line(a, e)
  <2>1. /\ u.projection = Shown(a, e, line) /\ line # NotFound
        /\ u.projection.path = PathOn(a.side, e)
        /\ u.projection.side = a.side /\ u.projection.line = line
    BY <1>1, <1>4, <1>8, ShownAt
  <2>2. /\ e.isText /\ PathOn(a.side, e) # NoPath /\ e[a.side] # NoContent
        /\ a.kind = "hunk" => line = HunkLine(a, e)
        /\ a.kind # "hunk" => line = DocumentLine(a, e)
    BY <2>1 DEF Line
  <2> HIDE DEF line
  <2>3. a.kind = "hunk" => HunkHas(a, e, line)
    BY <1>5, <2>1, <2>2, HunkLineFound DEF AnchorIsWhole
  <2>4. a.kind = "document" => DocumentHas(a, e, line)
    BY <2>1, <2>2, DocumentLineFound
  <2>5. LineIsFound(u, e)
    BY <1>4, <2>1, <2>2, <2>3, <2>4 DEF LineIsFound, line
  <2>6. u.projection.path = DocumentPath(a.side, e) /\ u.projection.path # NoPath
    BY <1>5, <2>1, <2>2 DEF PathOn, DocumentPath, OneOf, AnchorIsWhole, Side
  <2>7. FoundIn(u, e)
    BY <1>4, <1>8, <2>1, <2>5, <2>6 DEF FoundIn
  <2> QED BY <1>2, <1>6, <2>7 DEF u
<1> QED BY <1>7, <1>8

LEMMA RefreshKeeps ==
    ASSUME ThreadInv, Refresh
    PROVE  ThreadInv'
<1>0. PICK t \in Trees :
         \E reading \in Readings[t] :
            IF reading = Unreadable
            THEN UNCHANGED <<manifest, thread>>
            ELSE /\ manifest' = reading
                 /\ thread' = IF thread = NoThread THEN NoThread
                              ELSE [thread EXCEPT !.projection = Projection(thread, reading)]
  BY DEF Refresh
<1>1. PICK reading \in Readings[t] :
         IF reading = Unreadable
         THEN UNCHANGED <<manifest, thread>>
         ELSE /\ manifest' = reading
              /\ thread' = IF thread = NoThread THEN NoThread
                           ELSE [thread EXCEPT !.projection = Projection(thread, reading)]
  BY <1>0
<1>2. CASE reading = Unreadable
  BY <1>1, <1>2 DEF ThreadInv, ManifestWasRead
<1>3. CASE reading # Unreadable
  <2>1. ManifestWasRead' /\ manifest' = reading
    BY <1>1, <1>3 DEF ManifestWasRead
  <2>2. CASE thread = NoThread
    BY <1>1, <1>3, <2>1, <2>2 DEF ThreadInv
  <2>3. CASE thread # NoThread
    <3>1. thread' = [thread EXCEPT !.projection = Projection(thread, reading)]
      BY <1>1, <1>3, <2>3
    <3>2. ThreadIsWhole(thread)
      BY <2>3 DEF ThreadInv
    <3>3. thread'.projection = Projection(thread, reading) /\ thread'.anchor = thread.anchor
      BY <3>1, <3>2 DEF ThreadIsWhole
    <3>4. ThreadIsWhole(thread')
      BY <3>1, <3>2 DEF ThreadIsWhole
    <3>5. CASE Projection(thread, reading) = NoProjection
      BY <2>1, <3>3, <3>4, <3>5 DEF ThreadInv
    <3>6. CASE Projection(thread, reading) # NoProjection
      BY <2>1, <3>1, <3>2, <3>4, <3>6, ProjectionFound DEF ThreadInv
    <3> QED BY <3>5, <3>6
  <2> QED BY <2>2, <2>3
<1> QED BY <1>2, <1>3

LEMMA ThreadInvHolds == Spec => []ThreadInv
<1>1. Init => ThreadInv
  BY DEF Init, ThreadInv, ManifestWasRead
<1>2. ThreadInv /\ [Next]_vars => ThreadInv'
  <2> SUFFICES ASSUME ThreadInv, [Next]_vars PROVE ThreadInv'
    OBVIOUS
  <2>1. CASE Comment
    BY <2>1, CommentKeeps
  <2>2. CASE CommentOnFile
    BY <2>2, CommentOnFileKeeps
  <2>3. CASE Refresh
    BY <2>3, RefreshKeeps
  <2>4. CASE UNCHANGED vars
    BY <2>4 DEF vars, ThreadInv, ManifestWasRead
  <2> QED BY <2>1, <2>2, <2>3, <2>4 DEF Next
<1> QED BY <1>1, <1>2, PTL DEF Spec

-----------------------------------------------------------------------------
(* UnchangedFileKeepsThread: a refresh that leaves the file of a current   *)
(* thread as it is and brings no other of its paths leaves the thread      *)
(* where it is, whatever its history.                                      *)
THEOREM UnchangedKeeps == Spec => UnchangedFileKeepsThread
<1>1. ASSUME ThreadInv, [Next]_vars, NEW e \in manifest \cap manifest',
             thread # NoThread, thread' # NoThread,
             thread.projection # NoProjection,
             Bearers(manifest, AnchorPaths(thread)) = {e},
             Bearers(manifest', AnchorPaths(thread)) = {e},
             thread.anchor.kind = "hunk" => IsSingle(EqualHunks(thread.anchor, e))
      PROVE  thread'.projection = thread.projection
  <2> DEFINE a == thread.anchor
  <2>1. CASE UNCHANGED thread
    BY <2>1
  <2>2. CASE ~UNCHANGED thread
    <3>1. /\ ThreadIsWhole(thread)
          /\ thread' = [thread EXCEPT !.projection = Projection(thread, manifest')]
      BY <1>1, <2>2 DEF Next, Comment, CommentOnFile, Refresh, vars, ThreadInv
    <3>2. thread'.projection = Projection(thread, manifest')
      BY <3>1 DEF ThreadIsWhole
    <3>3. PICK f \in manifest : FoundIn(thread, f)
      BY <1>1 DEF ThreadInv
    <3>4. thread.projection.path # NoPath
      <4>1. AnchorPaths(thread) = {} \/ thread.projection.path # NoPath
        BY <3>3, <1>1 DEF FoundIn, AnchorPaths
      <4>2. AnchorPaths(thread) # {}
        BY <1>1 DEF Bearers
      <4> QED BY <4>1, <4>2
    <3>5. f = e
      <4>1. thread.projection.path \in {f.original, f.current}
        BY <3>3, <3>4 DEF FoundIn, DocumentPath, OneOf
      <4>2. thread.projection.path \in AnchorPaths(thread)
        BY <1>1, <3>4 DEF AnchorPaths
      <4>3. f \in Bearers(manifest, AnchorPaths(thread))
        BY <4>1, <4>2 DEF Bearers
      <4> QED BY <1>1, <4>3
    <3>6. Projection(thread, manifest') = IF a.kind = "file" THEN Shown(a, e, 0)
                                          ELSE IF Line(a, e) = NotFound THEN NoProjection
                                          ELSE Shown(a, e, Line(a, e))
      <4>1. IsSingle({e}) /\ (CHOOSE x \in {e} : TRUE) = e
        BY DEF IsSingle
      <4> QED BY <1>1, <4>1 DEF Projection
    <3>7. CASE a.kind = "file"
      BY <3>2, <3>3, <3>5, <3>6, <3>7 DEF FoundIn
    <3>8. CASE a.kind # "file"
      <4>1. /\ thread.projection = Shown(a, e, thread.projection.line)
            /\ thread.projection.line = Line(a, e) /\ thread.projection.line # NotFound
        BY <1>1, <3>3, <3>4, <3>5, <3>8 DEF FoundIn, LineIsFound
      <4> QED BY <3>2, <3>6, <3>8, <4>1
    <3> QED BY <3>7, <3>8
  <2> QED BY <2>1, <2>2
<1>2. ThreadInv /\ [Next]_vars =>
         [\A e \in manifest \cap manifest' :
             /\ thread # NoThread /\ thread' # NoThread
             /\ thread.projection # NoProjection
             /\ Bearers(manifest, AnchorPaths(thread)) = {e}
             /\ Bearers(manifest', AnchorPaths(thread)) = {e}
             /\ thread.anchor.kind = "hunk" =>
                   IsSingle({h \in DOMAIN e.hunks : SameHunk(thread.anchor.hunk, e.hunks[h])})
             => thread'.projection = thread.projection]_vars
  BY <1>1 DEF EqualHunks
<1> QED BY <1>2, ThreadInvHolds, PTL DEF Spec, UnchangedFileKeepsThread

(* The line a hunk has for an anchor is shown under its number.            *)
LEMMA HunkTextIsShown ==
    ASSUME ManifestWasRead, NEW e \in manifest, NEW a, NEW line, HunkHas(a, e, line)
    PROVE  HunkLineIsShown(e, line, a.text)
<1>1. PICK h \in EqualHunks(a, e) :
         \E i \in DOMAIN e.hunks[h] : /\ e.hunks[h][i].mark \in Marks("new")
                                      /\ e.hunks[h][i].new = line
                                      /\ e.hunks[h][i].text = a.text
  BY DEF HunkHas
<1>2. h \in DOMAIN e.hunks
  BY DEF EqualHunks
<1> QED BY <1>1, <1>2, DocumentsAreShown DEF ManifestWasRead

(* CurrentMeansExact: through any refreshes a thread the editor shows is   *)
(* shown where its text is, by its hunk or by the lines around it, which   *)
(* are there once: what the parser reads of a hunk is what the document    *)
(* has under its numbers, as far as the editor numbers lines as Git does.  *)
THEOREM CurrentIsExact == Spec => []CurrentMeansExact
<1>1. ASSUME ThreadInv PROVE CurrentMeansExact
  <2> SUFFICES ASSUME thread # NoThread, thread.projection # NoProjection
               PROVE  \E d \in Placements(thread, manifest) :
                         LET a == thread.anchor
                             line == thread.projection.line
                             lines == Lines(d.file, d.side)
                         IN  \/ a.kind = "file"
                             \/ /\ a.kind = "hunk"
                                /\ HunkShows(a, d.file.hunks, line)
                                /\ UnbrokenTo(d.file[d.side], line) =>
                                      line \in DOMAIN lines /\ ReadsAs(a.text, lines[line])
                             \/ /\ a.kind = "document"
                                /\ line \in DOMAIN lines /\ lines[line] = a.text
                                /\ \/ d.file[d.side] = a.document /\ line = a.line
                                   \/ Fits(a, lines) = {line}
    BY DEF CurrentMeansExact
  <2> DEFINE a == thread.anchor
             line == thread.projection.line
  <2>1. PICK e \in manifest : FoundIn(thread, e)
    BY <1>1 DEF ThreadInv
  <2>2. AnchorIsWhole(a) /\ ManifestWasRead
    BY <1>1 DEF ThreadInv, ThreadIsWhole
  <2> DEFINE d == [file |-> e, side |-> a.side, path |-> DocumentPath(a.side, e)]
             lines == DocumentLines(e[a.side])
  <2>3. d \in Placements(thread, manifest)
    <3>1. d \in Documents(manifest)
      BY <2>2 DEF Documents, DocumentPath, AnchorIsWhole
    <3>2. /\ d.side = thread.projection.side /\ d.path = thread.projection.path
          /\ thread.projection.path \in {d.file.original, d.file.current}
      BY <2>1 DEF FoundIn, DocumentPath, OneOf
    <3> QED BY <3>1, <3>2 DEF Placements
  <2>4. CASE a.kind = "file"
    BY <2>3, <2>4
  <2>5. CASE a.kind = "hunk"
    <3>1. HunkHas(a, e, line) /\ a.side = "new"
      BY <2>1, <2>2, <2>5 DEF FoundIn, LineIsFound, AnchorIsWhole
    <3>4. UnbrokenTo(e[a.side], line) =>
             line \in DOMAIN Lines(e, a.side) /\ ReadsAs(a.text, Lines(e, a.side)[line])
      <4>1. HunkLineIsShown(e, line, a.text)
        BY <2>2, <3>1, HunkTextIsShown
      <4>2. e[a.side] = e.new
        BY <3>1
      <4> HIDE DEF a, line
      <4> QED BY <3>1, <4>1, <4>2 DEF HunkLineIsShown
    <3>5. HunkShows(a, e.hunks, line)
      <4>1. PICK h \in EqualHunks(a, e) :
               /\ \E i \in DOMAIN e.hunks[h] : e.hunks[h][i].new = line
               /\ line = a.line \/ \A k \in DOMAIN e.hunks \ {h} : ~SameHunk(a.hunk, e.hunks[k])
        BY <3>1 DEF HunkHas
      <4>2. h \in DOMAIN e.hunks /\ SameHunk(a.hunk, e.hunks[h])
        BY DEF EqualHunks
      <4>3. PICK i \in DOMAIN e.hunks[h] : e.hunks[h][i].new = line
        BY <4>1
      <4>4. e.hunks[h][i] \in Range(e.hunks[h]) /\ e.hunks[h][i]["new"] = line
        BY <4>3 DEF Range
      <4> QED BY <3>1, <4>1, <4>2, <4>4 DEF HunkShows
    <3> QED BY <2>3, <2>5, <3>4, <3>5
  <2>6. CASE a.kind = "document"
    <3>1. /\ a.side \in Side /\ e[a.side] # NoContent
          /\ DocumentHas(a, e, line)
          /\ a.line \in DOMAIN DocumentLines(a.document)
          /\ DocumentLines(a.document)[a.line] = a.text
          /\ a.around \in Document /\ a.index \in DOMAIN a.around /\ a.around[a.index] = a.text
      BY <2>1, <2>2, <2>6 DEF FoundIn, LineIsFound, AnchorIsWhole
    <3>2. Len(lines) \in Nat /\ DOMAIN lines = 1 .. Len(lines)
      BY <2>2, <3>1, DocumentsAreLines
    <3>3. CASE e[a.side] = a.document /\ line = a.line
      BY <2>3, <2>6, <3>1, <3>3 DEF Lines
    <3>4. CASE Fits(a, lines) = {line}
      <4>1. PICK s \in 0 .. Len(lines) - Len(a.around) :
               /\ line = s + a.index
               /\ \A i \in DOMAIN a.around : a.around[i] = lines[s + i]
        <5> HIDE DEF a, lines, line
        <5>1. line \in Fits(a, lines)
          BY <3>4
        <5> QED BY <5>1 DEF Fits
      <4>2. Len(a.around) \in Nat /\ DOMAIN a.around = 1 .. Len(a.around)
        BY <3>1, LenProperties DEF Document
      <4>3. line \in DOMAIN lines /\ lines[line] = a.text
        <5> HIDE DEF a, lines, line
        <5> QED BY <3>1, <3>2, <4>1, <4>2
      <4> QED BY <2>3, <2>6, <3>4, <4>3 DEF Lines
    <3> QED BY <3>1, <3>3, <3>4 DEF DocumentHas
  <2> QED BY <2>2, <2>4, <2>5, <2>6 DEF AnchorIsWhole
<1> QED BY <1>1, ThreadInvHolds, PTL

(* AnchorsWhatIsShown: a line thread is anchored in the text its author    *)
(* sees at the line he chose, in all files as far as the editor numbers    *)
(* lines as Git does.                                                      *)
THEOREM AnchorsAreShown == Spec => AnchorsWhatIsShown
<1> DEFINE Anchored(a) ==
        \E e \in manifest :
            LET shown == Lines(e, a.side)[a.line]
            IN  /\ e.original = a.original /\ e.current = a.current
                /\ IF a.kind = "document" THEN a.text = shown
                   ELSE UnbrokenTo(e[a.side], a.line) => ReadsAs(a.text, shown)
<1>1. ASSUME ThreadInv, ThreadInv', [Next]_vars,
             thread = NoThread, thread' # NoThread, thread'.anchor.kind # "file"
      PROVE  Anchored(thread'.anchor)
  <2>1. Comment
    <3>1. ASSUME CommentOnFile PROVE FALSE
      <4>1. PICK e \in manifest :
               thread' = [anchor |-> FileAnchor(e), projection |-> Shown(FileAnchor(e), e, 0)]
        BY <3>1 DEF CommentOnFile
      <4>2. thread'.anchor = FileAnchor(e)
        BY <4>1
      <4> QED BY <1>1, <4>2 DEF FileAnchor
    <3>2. ~Refresh /\ ~UNCHANGED vars
      BY <1>1 DEF Refresh, vars
    <3> QED BY <1>1, <3>1, <3>2 DEF Next
  <2>2. PICK d \in Documents(manifest) :
           /\ Commentable(d)
           /\ \E line \in DOMAIN DocumentLines(d.file[d.side]) :
                 thread' = [anchor |-> LineAnchor(d.file, d.side, line),
                            projection |-> Shown(LineAnchor(d.file, d.side, line), d.file, line)]
    BY <2>1 DEF Comment
  <2>3. PICK line \in DOMAIN DocumentLines(d.file[d.side]) :
           thread'.anchor = LineAnchor(d.file, d.side, line)
    BY <2>2
  <2> DEFINE e == d.file
             side == d.side
             a == thread'.anchor
  <2>4. e \in manifest /\ side \in Side /\ e.isText /\ e[side] # NoContent /\ ManifestWasRead
    BY <1>1, <2>2 DEF Documents, Commentable, ThreadInv
  <2>5. line \in DOMAIN DocumentLines(e[side]) /\ a = LineAnchor(e, side, line)
    BY <2>3
  <2> HIDE DEF e, side, a
  <2>6. /\ a.kind \in {"hunk", "document"} /\ a.side = side /\ a.line = line
        /\ a.original = e.original /\ a.current = e.current
        /\ AnchorIsWhole(a)
        /\ a.kind = "hunk" => HunkHas(a, e, line)
        /\ a.kind = "document" => a.document = e[side]
    BY <2>4, <2>5, LineAnchorFound
  <2>7. CASE a.kind = "hunk"
    <3>1. a.side = "new"
      BY <2>6, <2>7 DEF AnchorIsWhole
    <3>2. HunkLineIsShown(e, a.line, a.text)
      BY <2>4, <2>6, <2>7, HunkTextIsShown
    <3>3. UnbrokenTo(e[a.side], a.line) => ReadsAs(a.text, Lines(e, a.side)[a.line])
      BY <3>1, <3>2 DEF HunkLineIsShown
    <3> QED BY <2>4, <2>6, <2>7, <3>3 DEF a
  <2>8. CASE a.kind = "document"
    <3>1. Lines(e, a.side)[a.line] = a.text
      BY <2>6, <2>8 DEF AnchorIsWhole, Lines
    <3> QED BY <2>4, <2>6, <2>8, <3>1 DEF a
  <2> QED BY <2>6, <2>7, <2>8
<1>2. ThreadInv /\ ThreadInv' /\ [Next]_vars =>
         [thread = NoThread /\ thread' # NoThread /\ thread'.anchor.kind # "file" =>
             Anchored(thread'.anchor)]_vars
  <2> HIDE DEF Anchored
  <2> QED BY <1>1
<1> QED BY <1>2, ThreadInvHolds, PTL DEF Spec, AnchorsWhatIsShown
=============================================================================

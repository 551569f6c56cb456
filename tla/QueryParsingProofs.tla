------------------------- MODULE QueryParsingProofs -------------------------
(***************************************************************************)
(* What parsing finds in a query, for select lists of any length, of any   *)
(* names, tables, aliases and expressions: the columns, their indexes, the *)
(* column that a name or an index reads, and the parameters.               *)
(***************************************************************************)
EXTENDS MCQueryParsing, NumberInduction, SequenceTheorems, FiniteSetTheorems

-----------------------------------------------------------------------------
(***************************************************************************)
(* The least and the greatest of a set of positions.                       *)
(***************************************************************************)
\* The least of a set of positions is in it.
LEMMA MinIsLeast ==
  ASSUME NEW S, S \subseteq Nat, S # {}
  PROVE  Min(S) \in S /\ Min(S) \in Nat /\ \A y \in S : Min(S) =< y
<1>1. \E x \in S : \A y \in S : x =< y
  BY LeastElement
<1> QED
  BY <1>1, Zenon DEF Min

\* So is the greatest, if they are bounded.
LEMMA MaxIsGreatest ==
  ASSUME NEW n \in Nat, NEW S, S \subseteq 0..n, S # {}
  PROVE  Max(S) \in S /\ Max(S) \in Nat /\ \A y \in S : Max(S) >= y
<1> DEFINE T == {y \in Nat : n - y \in S}
<1>0. \A y \in S : y \in Nat /\ y =< n /\ n - y \in T
  OBVIOUS
<1>1. T \subseteq Nat /\ T # {}
  BY <1>0
<1>2. PICK t \in T : \A u \in T : t =< u
  BY <1>1, LeastElement
<1>3. n - t \in S /\ t \in Nat
  BY <1>2
<1>4. \A y \in S : n - t >= y
  <2> TAKE y \in S
  <2>1. n - y \in T /\ y \in Nat
    BY <1>0
  <2>2. t =< n - y
    BY <1>2, <2>1
  <2> QED
    BY <1>3, <2>1, <2>2
<1>5. Max(S) \in S /\ \A y \in S : Max(S) >= y
  BY <1>3, <1>4, Zenon DEF Max
<1> QED
  BY <1>0, <1>5

-----------------------------------------------------------------------------
(***************************************************************************)
(* Words in texts.  Positions count from 0, as in QueryParsing.            *)
(***************************************************************************)
\* A word stands at a position of a text.
Stands(text, pos, word) == \A k \in 1..Len(word) : text[pos + k] = word[k]

\* A part of a text.
LEMMA PartOf ==
  ASSUME NEW text \in Text, NEW i \in Nat, NEW j \in Nat, i =< j, j =< Len(text)
  PROVE  /\ SubSeq(text, i + 1, j) \in Text
         /\ Len(SubSeq(text, i + 1, j)) = j - i
         /\ \A k \in 1..(j - i) : SubSeq(text, i + 1, j)[k] = text[i + k]
<1>1. Len(text) \in Nat /\ i + 1 \in Int /\ j \in Int
  BY LenProperties DEF Text
<1>2. \A k \in (i + 1)..j : text[k] \in Characters
  <2> TAKE k \in (i + 1)..j
  <2>1. k \in 1..Len(text)
    BY <1>1
  <2> QED
    BY <2>1, ElementOfSeq DEF Text
<1>3. /\ SubSeq(text, i + 1, j) \in Seq(Characters)
      /\ Len(SubSeq(text, i + 1, j)) = IF i + 1 <= j THEN j - (i + 1) + 1 ELSE 0
      /\ \A k \in 1..(j - (i + 1) + 1) : SubSeq(text, i + 1, j)[k] = text[i + 1 + k - 1]
  BY <1>1, <1>2, SubSeqProperties
<1>4. \A k \in 1..(j - i) : SubSeq(text, i + 1, j)[k] = text[i + k]
  <2> TAKE k \in 1..(j - i)
  <2>1. k \in 1..(j - (i + 1) + 1) /\ i + 1 + k - 1 = i + k
    OBVIOUS
  <2> QED
    BY <1>3, <2>1
<1> QED
  BY <1>1, <1>3, <1>4 DEF Text

\* The characters of a text.
LEMMA TextOK ==
  ASSUME NEW text \in Text
  PROVE  /\ Len(text) \in Nat
         /\ \A k \in 1..Len(text) : text[k] \in Characters
         /\ \A pos \in Nat : pos < Len(text) => CharAt(text, pos) = text[pos + 1]
         /\ \A pos \in Nat : pos >= Len(text) => CharAt(text, pos) = "\\0"
         /\ text # <<>> => Len(text) >= 1
         /\ text = <<>> => Len(text) = 0
<1>1. Len(text) \in Nat
  BY LenProperties DEF Text
<1>2. \A k \in 1..Len(text) : text[k] \in Characters
  BY ElementOfSeq DEF Text
<1>3. text # <<>> => Len(text) >= 1
  BY EmptySeq DEF Text
<1>4. text = <<>> => Len(text) = 0
  BY EmptySeq
<1> QED
  BY <1>1, <1>2, <1>3, <1>4 DEF CharAt

\* A word stands where the part of its length is that word.
LEMMA PartIsWord ==
  ASSUME NEW text \in Text, NEW word \in Text, NEW i \in Nat, i + Len(word) =< Len(text)
  PROVE  SubSeq(text, i + 1, i + Len(word)) = word <=> Stands(text, i, word)
<1> DEFINE n == Len(word)
           part_ == SubSeq(text, i + 1, i + n)
<1>1. n \in Nat /\ Len(text) \in Nat
  BY TextOK
<1>2. /\ part_ \in Text /\ Len(part_) = n
      /\ \A k \in 1..n : part_[k] = text[i + k]
  <2>1. i + n \in Nat /\ i =< i + n /\ (i + n) - i = n
    BY <1>1
  <2> QED
    BY <2>1, PartOf
<1>3. ASSUME Stands(text, i, word) PROVE part_ = word
  <2>1. \A k \in 1..Len(part_) : part_[k] = word[k]
    BY <1>2, <1>3 DEF Stands
  <2> HIDE DEF part_
  <2> QED
    BY <1>2, <2>1, SeqEqual DEF Text
<1> QED
  BY <1>2, <1>3 DEF Stands

\* A word that stands in a word stands in the text of that word.
LEMMA StandsWithin ==
  ASSUME NEW text, NEW p \in Nat, NEW word \in Text, Stands(text, p, word),
         NEW r \in Nat, NEW inner \in Text, Stands(word, r, inner), r + Len(inner) =< Len(word)
  PROVE  Stands(text, p + r, inner)
<1>1. Len(word) \in Nat /\ Len(inner) \in Nat
  BY TextOK
<1>2. ASSUME NEW k \in 1..Len(inner) PROVE text[p + r + k] = inner[k]
  <2>1. r + k \in 1..Len(word) /\ p + (r + k) = p + r + k
    BY <1>1
  <2> QED
    BY <2>1 DEF Stands
<1> QED
  BY <1>2 DEF Stands

\* Also at the start of the text.
LEMMA StandsInPrefix ==
  ASSUME NEW text, NEW word \in Text, Stands(text, 0, word),
         NEW r \in Nat, NEW inner \in Text, Stands(word, r, inner), r + Len(inner) =< Len(word)
  PROVE  Stands(text, r, inner)
<1>1. Stands(text, 0 + r, inner)
  BY StandsWithin
<1> QED
  BY <1>1

\* Two texts in a row.
LEMMA TwoTexts ==
  ASSUME NEW u \in Text, NEW v \in Text
  PROVE  /\ u \o v \in Text /\ Len(u \o v) = Len(u) + Len(v)
         /\ Stands(u \o v, 0, u) /\ Stands(u \o v, Len(u), v)
<1>1. Len(u) \in Nat /\ Len(v) \in Nat
  BY TextOK
<1>2. /\ u \o v \in Seq(Characters) /\ Len(u \o v) = Len(u) + Len(v)
      /\ \A i \in 1..(Len(u) + Len(v)) :
           (u \o v)[i] = IF i <= Len(u) THEN u[i] ELSE v[i - Len(u)]
  BY ConcatProperties DEF Text
<1>3. ASSUME NEW k \in 1..Len(u) PROVE (u \o v)[0 + k] = u[k]
  <2>1. k \in 1..(Len(u) + Len(v)) /\ 0 + k = k /\ k <= Len(u)
    BY <1>1
  <2> QED
    BY <1>2, <2>1
<1>4. ASSUME NEW k \in 1..Len(v) PROVE (u \o v)[Len(u) + k] = v[k]
  <2>1. /\ Len(u) + k \in 1..(Len(u) + Len(v)) /\ ~(Len(u) + k <= Len(u))
        /\ (Len(u) + k) - Len(u) = k
    BY <1>1
  <2> QED
    BY <1>2, <2>1
<1> QED
  BY <1>2, <1>3, <1>4 DEF Stands, Text

\* The pieces of a text that is put together of five.
LEMMA FiveTexts ==
  ASSUME NEW a \in Text, NEW b \in Text, NEW c \in Text, NEW d \in Text, NEW e \in Text
  PROVE  LET text == a \o b \o c \o d \o e
             n == Len(a)  m == n + Len(b)  l == m + Len(c)  k == l + Len(d) IN
         /\ text \in Text /\ Len(text) = k + Len(e)
         /\ Stands(text, 0, a) /\ Stands(text, n, b) /\ Stands(text, m, c)
         /\ Stands(text, l, d) /\ Stands(text, k, e)
<1> DEFINE ab == a \o b  abc == ab \o c  abcd == abc \o d  text == abcd \o e
           n == Len(a)  m == n + Len(b)  l == m + Len(c)  k == l + Len(d)
<1>0. Len(a) \in Nat /\ Len(b) \in Nat /\ Len(c) \in Nat /\ Len(d) \in Nat /\ Len(e) \in Nat
  BY TextOK
<1>1. ab \in Text /\ Len(ab) = m /\ Stands(ab, 0, a) /\ Stands(ab, n, b)
  BY TwoTexts
<1>2. abc \in Text /\ Len(abc) = l /\ Stands(abc, 0, ab) /\ Stands(abc, m, c)
  <2> HIDE DEF ab
  <2> QED
    BY <1>1, TwoTexts
<1>3. abcd \in Text /\ Len(abcd) = k /\ Stands(abcd, 0, abc) /\ Stands(abcd, l, d)
  <2> HIDE DEF abc
  <2> QED
    BY <1>2, TwoTexts
<1>4. text \in Text /\ Len(text) = k + Len(e) /\ Stands(text, 0, abcd) /\ Stands(text, k, e)
  <2> HIDE DEF abcd
  <2> QED
    BY <1>3, TwoTexts
<1> HIDE DEF ab, abc, abcd, text
<1>5. m \in Nat /\ l \in Nat /\ n \in Nat
  BY <1>0
<1> HIDE DEF n, m, l, k
<1>6. Stands(text, l, d) /\ Stands(text, 0, abc)
  BY <1>0, <1>2, <1>3, <1>4, <1>5, StandsInPrefix DEF k
<1>7. Stands(text, m, c) /\ Stands(text, 0, ab)
  BY <1>0, <1>1, <1>2, <1>5, <1>6, StandsInPrefix DEF l
<1>8. Stands(text, n, b) /\ Stands(text, 0, a)
  BY <1>0, <1>1, <1>5, <1>7, StandsInPrefix DEF m, n
<1>9. a \o b \o c \o d \o e = text
  BY DEF text, abcd, abc, ab
<1> QED
  BY <1>4, <1>6, <1>7, <1>8, <1>9 DEF n, m, l, k

\* FlattenSeq adds one text at a time.
LEMMA FlattenSteps ==
  ASSUME NEW seqs \in Seq(Text), Len(seqs) >= 1
  PROVE  \E f \in [0..Len(seqs) -> Text] :
           /\ f[0] = <<>>
           /\ \A i \in 1..Len(seqs) : f[i] = f[i - 1] \o seqs[i]
           /\ FlattenSeq(seqs) = f[Len(seqs)]
<1> DEFINE n == Len(seqs)
           D == 0..n
           step == [i \in D \ {0} |-> [x \in Text |-> x \o seqs[i]]]
<1>1. /\ n \in Nat /\ n >= 1 /\ D \subseteq Nat /\ 0 \in D
      /\ \A i \in D : i # 0 => i - 1 \in D
  <2>1. n \in Nat
    BY LenProperties
  <2> QED
    BY <2>1
<1>2. \A i \in 1..n : seqs[i] \in Text
  BY ElementOfSeq
<1>3. <<>> \in Text /\ step \in [D \ {0} -> [Text -> Text]]
  <2>1. ASSUME NEW i \in D \ {0}, NEW x \in Text PROVE x \o seqs[i] \in Text
    <3>1. i \in 1..n
      BY <1>1
    <3> QED
      BY <1>2, <3>1, TwoTexts
  <2>2. <<>> \in Text
    BY EmptySeq DEF Text
  <2> HIDE DEF D
  <2> QED
    BY <2>1, <2>2
<1>4. PICK f \in [D -> Text] : f[0] = <<>> /\ \A i \in D \ {0} : f[i] = step[i][f[i - 1]]
  <2> HIDE DEF D, step
  <2>1. Recursive(D, Text, <<>>, step) # {}
    BY <1>1, <1>3, Recursion
  <2> QED
    BY <2>1 DEF Recursive
<1>5. ASSUME NEW i \in 1..n PROVE f[i] = f[i - 1] \o seqs[i]
  <2>1. i \in D \ {0} /\ f[i - 1] \in Text
    BY <1>1
  <2>2. step[i][f[i - 1]] = f[i - 1] \o seqs[i]
    BY <2>1
  <2> HIDE DEF step
  <2> QED
    BY <1>4, <2>1, <2>2
<1>6. f[1] = seqs[1]
  <2>1. seqs[1] \in Text /\ f[1] = f[0] \o seqs[1]
    <3>1. 1 \in 1..n /\ 1 - 1 = 0
      BY <1>1
    <3> QED
      BY <1>2, <1>5, <3>1
  <2>2. <<>> \o seqs[1] = seqs[1]
    BY <2>1, ConcatEmptySeq DEF Text
  <2> QED
    BY <1>4, <2>1, <2>2
<1> DEFINE E == 1..Len(seqs)
           h == [i \in E |-> f[i]]
<1>7. h = [i \in E |-> IF i = 1 THEN seqs[i] ELSE h[i - 1] \o seqs[i]]
  <2>1. ASSUME NEW i \in E PROVE f[i] = IF i = 1 THEN seqs[i] ELSE h[i - 1] \o seqs[i]
    <3>1. i # 1 => i - 1 \in E
      BY <1>1
    <3> QED
      BY <1>5, <1>6, <3>1
  <2> QED
    BY <2>1
<1>8. PICK g : /\ g = [i \in E |-> IF i = 1 THEN seqs[i] ELSE g[i - 1] \o seqs[i]]
               /\ FlattenSeq(seqs) = g[Len(seqs)]
  <2>1. \E g : g = [i \in 1..Len(seqs) |-> IF i = 1 THEN seqs[i] ELSE g[i - 1] \o seqs[i]]
    BY <1>7
  <2>2. Len(seqs) # 0
    BY <1>1
  <2> QED
    BY <2>1, <2>2, Zenon DEF FlattenSeq
<1>9. \A i \in 1..n : g[i] = f[i]
  <2> DEFINE S == {i \in D : i # 0 => g[i] = f[i]}
  <2>1. 0 \in S
    BY <1>1
  <2>2. ASSUME NEW i \in D, i # 0 PROVE i - 1 \in D /\ (i - 1 \in S => i \in S)
    <3>1. i \in 1..n /\ i - 1 \in D
      BY <1>1, <2>2
    <3>2. g[i] = IF i = 1 THEN seqs[i] ELSE g[i - 1] \o seqs[i]
      BY <1>8, <3>1
    <3> QED
      BY <1>5, <1>6, <3>1, <3>2
  <2>3. D \subseteq S
    <3> HIDE DEF D, S
    <3> QED
      BY <1>1, <2>1, <2>2, Induction
  <2> QED
    BY <2>3
<1> QED
  <2>1. FlattenSeq(seqs) = f[n]
    BY <1>1, <1>8, <1>9
  <2> QED
    BY <1>4, <1>5, <2>1

\* So every one of them stands in the whole, behind the ones before it.
LEMMA FlattenStands ==
  ASSUME NEW seqs \in Seq(Text), Len(seqs) >= 1
  PROVE  \E at \in [1..(Len(seqs) + 1) -> Nat] :
           /\ at[1] = 0 /\ FlattenSeq(seqs) \in Text
           /\ Len(FlattenSeq(seqs)) = at[Len(seqs) + 1]
           /\ \A i \in 1..Len(seqs) : /\ at[i + 1] = at[i] + Len(seqs[i])
                                      /\ Stands(FlattenSeq(seqs), at[i], seqs[i])
<1> DEFINE n == Len(seqs)
<1>1. n \in Nat
  BY LenProperties
<1>2. \A i \in 1..n : seqs[i] \in Text
  BY ElementOfSeq
<1>3. PICK f \in [0..n -> Text] : /\ f[0] = <<>>
                                  /\ \A i \in 1..n : f[i] = f[i - 1] \o seqs[i]
                                  /\ FlattenSeq(seqs) = f[n]
  BY FlattenSteps
<1> DEFINE at == [i \in 1..(n + 1) |-> Len(f[i - 1])]
<1>4. ASSUME NEW i \in 1..n
      PROVE  /\ f[i] \in Text /\ f[i - 1] \in Text /\ seqs[i] \in Text /\ i - 1 \in 0..n
             /\ Len(f[i]) = Len(f[i - 1]) + Len(seqs[i])
             /\ Stands(f[i], 0, f[i - 1]) /\ Stands(f[i], Len(f[i - 1]), seqs[i])
  <2>1. f[i] \in Text /\ f[i - 1] \in Text /\ seqs[i] \in Text /\ i - 1 \in 0..n
    BY <1>1, <1>2, <1>3
  <2> QED
    BY <1>3, <2>1, TwoTexts
<1>5. \A j \in 0..n : \A i \in 1..j : Stands(f[j], Len(f[i - 1]), seqs[i])
  <2> DEFINE D == 0..n
             S == {j \in D : \A i \in 1..j : Stands(f[j], Len(f[i - 1]), seqs[i])
                                             /\ Len(f[i - 1]) + Len(seqs[i]) =< Len(f[j])}
  <2>1. 0 \in S
    BY <1>1
  <2>2. ASSUME NEW j \in D, j # 0 PROVE j - 1 \in D /\ (j - 1 \in S => j \in S)
    <3>1. j - 1 \in D /\ j \in 1..n
      BY <1>1, <2>2
    <3> SUFFICES ASSUME j - 1 \in S, NEW i \in 1..j
                 PROVE  /\ Stands(f[j], Len(f[i - 1]), seqs[i])
                        /\ Len(f[i - 1]) + Len(seqs[i]) =< Len(f[j])
      BY <3>1
    <3>2. i \in 1..n
      BY <1>1, <3>1
    <3>3. /\ Len(f[j]) \in Nat /\ Len(f[j - 1]) \in Nat /\ Len(f[i - 1]) \in Nat
          /\ Len(seqs[i]) \in Nat /\ Len(seqs[j]) \in Nat
      BY <1>4, <3>1, <3>2, TextOK
    <3>4. CASE i = j
      BY <1>4, <3>1, <3>3, <3>4
    <3>5. CASE i # j
      <4>1. i \in 1..(j - 1)
        BY <3>1, <3>5
      <4>2. /\ Stands(f[j - 1], Len(f[i - 1]), seqs[i])
            /\ Len(f[i - 1]) + Len(seqs[i]) =< Len(f[j - 1])
        BY <4>1
      <4>3. Stands(f[j], Len(f[i - 1]), seqs[i])
        BY <1>4, <3>1, <3>2, <3>3, <4>2, StandsInPrefix
      <4>4. Len(f[j]) = Len(f[j - 1]) + Len(seqs[j])
        BY <1>4, <3>1
      <4>5. Len(f[i - 1]) + Len(seqs[i]) =< Len(f[j])
        <5>1. PICK a \in Nat, b \in Nat, c \in Nat, d \in Nat, e \in Nat :
                /\ a = Len(f[i - 1]) /\ b = Len(seqs[i]) /\ c = Len(f[j - 1])
                /\ d = Len(seqs[j]) /\ e = Len(f[j])
          BY <3>3
        <5>2. a + b =< c /\ e = c + d
          BY <4>2, <4>4, <5>1
        <5> HIDE DEF n, D, S
        <5>3. a + b =< e
          BY <5>2
        <5> QED
          BY <5>1, <5>3
      <4> QED
        BY <4>3, <4>5
    <3> QED
      BY <3>4, <3>5
  <2>3. D \subseteq S
    <3>1. D \subseteq Nat
      BY <1>1
    <3> HIDE DEF D, S
    <3> QED
      BY <3>1, <2>1, <2>2, Induction
  <2> QED
    BY <2>3
<1>6. at \in [1..(n + 1) -> Nat]
  <2>1. ASSUME NEW i \in 1..(n + 1) PROVE Len(f[i - 1]) \in Nat
    <3>1. i - 1 \in 0..n
      BY <1>1
    <3>2. f[i - 1] \in Text
      BY <1>3, <3>1
    <3> QED
      BY <3>2, TextOK
  <2> QED
    BY <2>1
<1>7. at[1] = 0
  <2>1. 1 \in 1..(n + 1) /\ 1 - 1 = 0
    BY <1>1
  <2> QED
    BY <1>3, <2>1, EmptySeq
<1>8. FlattenSeq(seqs) \in Text /\ Len(FlattenSeq(seqs)) = at[n + 1]
  <2>1. n + 1 \in 1..(n + 1) /\ (n + 1) - 1 = n /\ n \in 0..n
    BY <1>1
  <2> QED
    BY <1>3, <2>1
<1>9. ASSUME NEW i \in 1..n
      PROVE  /\ at[i + 1] = at[i] + Len(seqs[i])
             /\ Stands(FlattenSeq(seqs), at[i], seqs[i])
  <2>1. i \in 1..(n + 1) /\ i + 1 \in 1..(n + 1) /\ (i + 1) - 1 = i /\ n \in 0..n
    BY <1>1
  <2> QED
    BY <1>3, <1>4, <1>5, <2>1
<1> HIDE DEF at
<1> QED
  BY <1>6, <1>7, <1>8, <1>9

-----------------------------------------------------------------------------
(***************************************************************************)
(* Where the pieces of an item stand in a query.                           *)
(***************************************************************************)
\* The words of an item.
SpaceOf(item) == item.space
TableOf(item) == item.table
ExprOf(item)  == item.expr
AliasOf(item) == item.alias

AtTable(pos, item) == pos + Len(SpaceOf(item))
AtExpr(pos, item)  == AtTable(pos, item) + Len(TableOf(item))
AtAlias(pos, item) == AtExpr(pos, item) + Len(ExprOf(item)) + 4
AtEnd(pos, item)   == IF AliasOf(item) = None THEN AtExpr(pos, item) + Len(ExprOf(item))
                      ELSE AtAlias(pos, item) + Len(AliasOf(item))
AtSpace(pos, item) == AtEnd(pos, item) + Len(SpaceOf(item))

\* An item is written at a position of a text.
ItemAt(text, pos, item) ==
  /\ Stands(text, pos, SpaceOf(item)) /\ Stands(text, AtTable(pos, item), TableOf(item))
  /\ Stands(text, AtExpr(pos, item), ExprOf(item))
  /\ AliasOf(item) # None =>
       /\ Stands(text, AtAlias(pos, item) - 4, <<Space>>)
       /\ Stands(text, AtAlias(pos, item) - 3, as)
       /\ Stands(text, AtAlias(pos, item) - 1, <<Space>>)
       /\ Stands(text, AtAlias(pos, item), AliasOf(item))
  /\ Stands(text, AtEnd(pos, item), SpaceOf(item))
  /\ AtSpace(pos, item) =< Len(text)

\* What is assumed of the words, of the item they are in.
ItemOK(item) ==
  /\ SpaceOf(item) \in Spaces /\ TableOf(item) \in Text /\ ExprOf(item) \in Text /\ AliasOf(item) \in Text
  /\ Len(SpaceOf(item)) \in {0, 1} /\ Len(TableOf(item)) \in Nat /\ Len(AliasOf(item)) \in Nat
  /\ Len(ExprOf(item)) \in Nat \ {0}
  /\ Plain(TableOf(item), {Comma, "*"}) /\ Plain(AliasOf(item), {Comma, ".", "*"})
  /\ Len(TableOf(item)) > 0 => TableOf(item)[Len(TableOf(item))] = "."
  /\ AliasOf(item) = None <=> Len(AliasOf(item)) = 0
  /\ ExprOf(item)[1] \notin Whitespace /\ ExprOf(item)[Len(ExprOf(item))] \notin Whitespace
  /\ ExprOf(item) # as /\ ~BeginsWithAs(ExprOf(item)) /\ AliasOf(item) # as
  /\ ExprOf(item) = star => AliasOf(item) = None
  /\ ExprOf(item) # star => ~StarEnds(ExprOf(item))
  /\ TableOf(item) # None => ExprOf(item)[Len(ExprOf(item))] # "."

\* The characters that parsing looks for are different ones.
LEMMA MarksDiffer ==
  /\ "a" \notin Whitespace /\ "s" \notin Whitespace /\ "f" \notin Whitespace
  /\ "r" \notin Whitespace /\ "o" \notin Whitespace /\ "m" \notin Whitespace
  /\ "*" \notin Whitespace /\ "." \notin Whitespace /\ Comma \notin Whitespace
  /\ "\\0" \notin Whitespace /\ "\\0" # Comma /\ Space \in Whitespace /\ "\n" \in Whitespace
  /\ Comma # "a" /\ Comma # "s" /\ Comma # "f" /\ Comma # "r" /\ Comma # "o" /\ Comma # "m"
  /\ Comma # "." /\ Comma # "*" /\ Comma # Space /\ Comma # "\n"
<1>1. \A c \in Whitespace : c = Space \/ c = "\t" \/ c = "\n"
  BY Zenon DEF Whitespace
<1>2. Space \in Whitespace /\ "\n" \in Whitespace
  BY Zenon DEF Whitespace
<1>3. /\ Space # "a" /\ Space # "s" /\ Space # "f" /\ Space # "r" /\ Space # "o" /\ Space # "m"
      /\ Space # "*" /\ Space # "." /\ Space # "\\0" /\ Space # Comma
  BY Zenon DEF Space, Comma
<1>4. /\ Comma # "a" /\ Comma # "s" /\ Comma # "f" /\ Comma # "r" /\ Comma # "o" /\ Comma # "m"
      /\ Comma # "." /\ Comma # "*" /\ Comma # "\n" /\ Comma # "\t" /\ Comma # "\\0"
  BY Zenon DEF Comma
<1> QED
  BY <1>1, <1>2, <1>3, <1>4

\* The keywords are texts.
LEMMA KeywordsOK ==
  /\ None \in Text /\ Len(None) = 0
  /\ as \in Text /\ Len(as) = 2 /\ as[1] = "a" /\ as[2] = "s"
  /\ star \in Text /\ Len(star) = 1 /\ star[1] = "*"
  /\ from \in Text /\ Len(from) = 4
  /\ from[1] = "f" /\ from[2] = "r" /\ from[3] = "o" /\ from[4] = "m"
  /\ select \in Text /\ Len(select) = 6
  /\ <<Space>> \in Text /\ <<Comma>> \in Text /\ <<"\n">> \in Text
  /\ Len(<<Space>>) = 1 /\ Len(<<Comma>>) = 1 /\ Len(<<"\n">>) = 1
<1>1. /\ "s" \in Characters /\ "e" \in Characters /\ "l" \in Characters /\ "c" \in Characters
      /\ "t" \in Characters /\ "f" \in Characters /\ "r" \in Characters /\ "o" \in Characters
      /\ "m" \in Characters /\ "a" \in Characters /\ Comma \in Characters /\ "*" \in Characters
  BY QueryAssumption DEF Marks
<1>2. None \in Text /\ Len(None) = 0
  BY EmptySeq DEF None, Text
<1>3. as \in Text /\ Len(as) = 2 /\ as[1] = "a" /\ as[2] = "s"
  BY <1>1 DEF as, Text
<1>4. star \in Text /\ Len(star) = 1 /\ star[1] = "*"
  BY <1>1 DEF star, Text
<1>5. from \in Text /\ Len(from) = 4 /\ from[1] = "f" /\ from[2] = "r" /\ from[3] = "o" /\ from[4] = "m"
  BY <1>1 DEF from, Text
<1>6. select \in Text /\ Len(select) = 6
  BY <1>1 DEF select, Text
<1>7. /\ <<Space>> \in Text /\ <<Comma>> \in Text /\ <<"\n">> \in Text
      /\ Len(<<Space>>) = 1 /\ Len(<<Comma>>) = 1 /\ Len(<<"\n">>) = 1
  <2>1. Space \in Characters /\ "\n" \in Characters
    BY QueryAssumption DEF Whitespace
  <2> QED
    BY <1>1, <2>1 DEF Text
<1> QED
  BY <1>2, <1>3, <1>4, <1>5, <1>6, <1>7

\* What is assumed of the words of an item.
LEMMA WordsOK ==
  /\ \A word \in Columns :
       /\ word \in Text \ {None, as} /\ Plain(word, {Comma, ".", "*"})
       /\ word[1] \notin Whitespace /\ word[Len(word)] \notin Whitespace
       /\ ~BeginsWithAs(word) /\ ~StarEnds(word) /\ word # star
  /\ \A word \in Expressions :
       /\ word \in Text \ {None, as}
       /\ word[1] \notin Whitespace /\ word[Len(word)] \notin Whitespace
       /\ ~BeginsWithAs(word) /\ ~StarEnds(word) /\ word # star
  /\ \A word \in Aliases : /\ word \in Text \ {as} /\ Plain(word, {Comma, ".", "*"})
  /\ \A word \in Tables :
       /\ word \in Text /\ Plain(word, {Comma, "*"})
       /\ word # None => word[Len(word)] = "."
<1>1. None \in Text /\ Len(None) = 0 /\ as \in Text /\ Len(as) = 2 /\ as[1] = "a" /\ as[2] = "s"
  BY KeywordsOK
<1>2. Plain(None, {Comma, ".", "*"}) /\ Plain(None, {Comma, "*"}) /\ None # as
  <2>1. 1..Len(None) = {}
    BY <1>1
  <2>2. Plain(None, {Comma, ".", "*"}) /\ Plain(None, {Comma, "*"})
    BY <2>1 DEF Plain
  <2>3. None # as
    <3>1. 0 # 2
      OBVIOUS
    <3> QED
      BY <1>1, <3>1, Zenon
  <2> QED
    BY <2>2, <2>3
<1>3. star \in Text /\ Len(star) = 1 /\ star[1] = "*"
  BY KeywordsOK
<1>4. StarEnds(star)
  BY <1>3 DEF StarEnds
<1>5. BeginsWithAs(as)
  <2>1. SubSeq(as, 1, 2) = as
    BY <1>1, SubSeqFull DEF Text
  <2>2. Len(as) >= 2 /\ ~(Len(as) > 2)
    BY <1>1
  <2> QED
    BY <2>1, <2>2, Zenon DEF BeginsWithAs
<1>6. ASSUME NEW word \in Columns
      PROVE  /\ word \in Text \ {None, as} /\ Plain(word, {Comma, ".", "*"})
             /\ word[1] \notin Whitespace /\ word[Len(word)] \notin Whitespace
             /\ ~BeginsWithAs(word) /\ ~StarEnds(word) /\ word # star
  <2>1. word \in Text \ {None, as} /\ Plain(word, {Comma, ".", "*"})
    BY QueryAssumption
  <2>2. Len(word) \in Nat /\ Len(word) >= 1
    BY <2>1, TextOK DEF None
  <2>3. \A i \in 1..Len(word) : word[i] \notin Whitespace \cup {Comma, ".", "*"}
    BY <2>1 DEF Plain
  <2>4. ~StarEnds(word)
    <3> SUFFICES ASSUME NEW i \in 1..Len(word), word[i] = "*" PROVE FALSE
      BY DEF StarEnds
    <3> QED
      BY <2>3
  <2>5. ~BeginsWithAs(word)
    <3> SUFFICES ASSUME BeginsWithAs(word) PROVE FALSE
      OBVIOUS
    <3>1. Len(word) = 2 /\ SubSeq(word, 1, 2) = as
      <4>1. Len(word) >= 2 /\ (Len(word) > 2 => word[3] \in Whitespace)
        BY Zenon DEF BeginsWithAs
      <4>2. SubSeq(word, 1, 2) = as
        BY Zenon DEF BeginsWithAs
      <4>3. Len(word) = 2
        BY <2>2, <2>3, <4>1
      <4> QED
        BY <4>2, <4>3
    <3>2. SubSeq(word, 1, Len(word)) = word
      BY <2>1, SubSeqFull DEF Text
    <3> QED
      BY <2>1, <3>1, <3>2
  <2>6. word[1] \notin Whitespace /\ word[Len(word)] \notin Whitespace
    BY <2>2, <2>3
  <2>7. word # star
    BY <1>4, <2>4
  <2> QED
    BY <2>1, <2>4, <2>5, <2>6, <2>7
<1>7. \A word \in Expressions :
       /\ word \in Text \ {None} /\ word # as /\ word # star
       /\ word[1] \notin Whitespace /\ word[Len(word)] \notin Whitespace
       /\ ~BeginsWithAs(word) /\ ~StarEnds(word)
  BY <1>4, <1>5, QueryAssumption
<1>8. \A word \in Aliases : word \in Text \ {as} /\ Plain(word, {Comma, ".", "*"})
  BY <1>1, <1>2, QueryAssumption
<1>9. \A word \in Tables : /\ word \in Text /\ Plain(word, {Comma, "*"})
                           /\ word # None => word[Len(word)] = "."
  BY <1>1, <1>2, QueryAssumption
<1> QED
  BY <1>6, <1>7, <1>8, <1>9

\* An item is made of such words.
LEMMA ItemIsOK ==
  ASSUME NEW item \in Items
  PROVE  ItemOK(item)
<1>1. /\ item.space \in Spaces /\ item.table \in Tables \cup {None}
      /\ item.alias \in Aliases \cup {None} /\ item.expr \in Columns \cup Expressions \cup {star}
      /\ item.expr = star => item.alias = None
  BY WordsOK DEF Items
<1>2. None \in Text /\ Len(None) = 0 /\ star \in Text /\ Len(star) = 1 /\ star[1] = "*"
  BY KeywordsOK
<1>3. Plain(None, {Comma, ".", "*"}) /\ Plain(None, {Comma, "*"}) /\ None # as /\ None # star
  BY <1>2 DEF Plain, as
<1>4. Len(item.space) \in {0, 1}
  BY <1>1, <1>2 DEF Spaces
<1>5. /\ item.table \in Text /\ item.alias \in Text /\ item.expr \in Text
      /\ Plain(item.table, {Comma, "*"}) /\ Plain(item.alias, {Comma, ".", "*"})
      /\ item.table # None => item.table[Len(item.table)] = "."
      /\ item.alias # as
  BY <1>1, <1>2, <1>3, WordsOK
<1>6. /\ item.expr # None /\ item.expr # as /\ ~BeginsWithAs(item.expr)
      /\ item.expr[1] \notin Whitespace /\ item.expr[Len(item.expr)] \notin Whitespace
      /\ item.expr # star => ~StarEnds(item.expr)
  <2>1. star # as /\ ~BeginsWithAs(star) /\ star[1] \notin Whitespace
    <3>1. 1 # 2 /\ ~(1 >= 2)
      OBVIOUS
    <3> QED
      BY <1>2, <3>1, KeywordsOK, MarksDiffer, Zenon DEF BeginsWithAs
  <2> QED
    BY <1>1, <1>2, <1>3, <2>1, WordsOK
<1>7. /\ Len(item.table) \in Nat /\ Len(item.alias) \in Nat /\ Len(item.expr) \in Nat \ {0}
      /\ item.alias = None <=> Len(item.alias) = 0
      /\ Len(item.table) > 0 => item.table # None
  BY <1>2, <1>5, <1>6, TextOK DEF None
<1>8. item.table # None => item.expr[Len(item.expr)] # "."
  <2>1. ASSUME item.table # None PROVE item.expr \in Columns \cup {star}
    BY <2>1 DEF Items
  <2>2. ASSUME item.expr \in Columns PROVE item.expr[Len(item.expr)] # "."
    <3>1. Len(item.expr) \in 1..Len(item.expr)
      BY <1>7
    <3> QED
      BY <2>2, <3>1, WordsOK DEF Plain
  <2>3. star[Len(star)] # "."
    <3>1. "*" # "."
      BY Zenon
    <3> QED
      BY <1>2, <3>1
  <2> QED
    BY <2>1, <2>2, <2>3
<1> QED
  BY <1>1, <1>4, <1>5, <1>6, <1>7, <1>8 DEF ItemOK, SpaceOf, TableOf, ExprOf, AliasOf

\* The characters of a text where a word stands.
LEMMA StandsChars ==
  ASSUME NEW text \in Text, NEW pos \in Nat, NEW word \in Text,
         Stands(text, pos, word), pos + Len(word) =< Len(text)
  PROVE  \A p \in pos..(pos + Len(word) - 1) : CharAt(text, p) = word[p - pos + 1]
<1> TAKE p \in pos..(pos + Len(word) - 1)
<1>1. Len(word) \in Nat /\ Len(text) \in Nat
  BY TextOK
<1>2. /\ p \in Nat /\ p < Len(text) /\ p - pos + 1 \in 1..Len(word)
      /\ pos + (p - pos + 1) = p + 1
  BY <1>1
<1>3. CharAt(text, p) = text[p + 1]
  BY <1>2 DEF CharAt
<1>4. text[pos + (p - pos + 1)] = word[p - pos + 1]
  BY <1>2 DEF Stands
<1> QED
  BY <1>2, <1>3, <1>4

\* How an item is written, the name that it gives included.
Naming(item) ==
  IF AliasOf(item) = None THEN None ELSE <<Space>> \o as \o <<Space>> \o AliasOf(item)
TextOf(item) == SpaceOf(item) \o TableOf(item) \o ExprOf(item) \o Naming(item) \o SpaceOf(item)

\* White space has no other characters in it.
LEMMA SpacesOK ==
  ASSUME NEW space \in Spaces
  PROVE  space \in Text /\ Len(space) \in Nat /\ \A k \in 1..Len(space) : space[k] \in Whitespace
<1>1. /\ None \in Text /\ <<Space>> \in Text /\ Len(None) = 0 /\ Len(<<Space>>) = 1
      /\ <<Space>>[1] = Space /\ Space \in Whitespace
  BY KeywordsOK, MarksDiffer
<1>2. CASE space = None
  BY <1>1, <1>2
<1>3. CASE space = <<Space>>
  BY <1>1, <1>3
<1> QED
  BY <1>2, <1>3 DEF Spaces

\* AS and an alias, as they are written.
WithAlias(blank, alias) == blank \o as \o blank \o alias

\* An AS between two blanks, and the alias.
LEMMA AliasWritten ==
  ASSUME NEW blank \in Text, Len(blank) = 1, NEW alias \in Text
  PROVE  /\ WithAlias(blank, alias) \in Text /\ Len(WithAlias(blank, alias)) = 4 + Len(alias)
         /\ Stands(WithAlias(blank, alias), 0, blank) /\ Stands(WithAlias(blank, alias), 1, as)
         /\ Stands(WithAlias(blank, alias), 3, blank) /\ Stands(WithAlias(blank, alias), 4, alias)
<1>1. as \in Text /\ Len(as) = 2 /\ Len(alias) \in Nat
  BY KeywordsOK, TextOK
<1>2. PICK u : u = blank \o as
  OBVIOUS
<1>3. /\ u \in Text /\ Len(u) = 3 /\ Stands(u, 0, blank) /\ Stands(u, 1, as)
  <2>1. Len(u) = Len(blank) + Len(as)
    BY <1>1, <1>2, TwoTexts
  <2>2. Len(u) = 3
    BY <1>1, <2>1
  <2> QED
    BY <1>1, <1>2, <2>2, TwoTexts
<1>4. PICK v : v = u \o blank
  OBVIOUS
<1>5. /\ v \in Text /\ Len(v) = 4 /\ Stands(v, 0, u) /\ Stands(v, 3, blank)
  <2>1. Len(v) = Len(u) + Len(blank)
    BY <1>1, <1>3, <1>4, TwoTexts
  <2>2. Len(v) = 4
    BY <1>3, <2>1
  <2> QED
    BY <1>1, <1>3, <1>4, <2>2, TwoTexts
<1>6. PICK text : text = v \o alias
  OBVIOUS
<1>7. text \in Text /\ Len(text) = 4 + Len(alias) /\ Stands(text, 0, v) /\ Stands(text, 4, alias)
  BY <1>5, <1>6, TwoTexts
<1>8. Stands(text, 3, blank)
  <2>1. 3 + Len(blank) =< Len(v)
    BY <1>1, <1>5
  <2> QED
    BY <1>1, <1>5, <1>7, <2>1, StandsInPrefix
<1>9. Stands(text, 0, u)
  <2>1. 0 + Len(u) =< Len(v)
    BY <1>3, <1>5
  <2> QED
    BY <1>3, <1>5, <1>7, <2>1, StandsInPrefix
<1>10. Stands(text, 0, blank) /\ Stands(text, 1, as)
  <2>1. 0 + Len(blank) =< Len(u) /\ 1 + Len(as) =< Len(u)
    BY <1>1, <1>3
  <2> QED
    BY <1>1, <1>3, <1>9, <2>1, StandsInPrefix
<1>11. text = WithAlias(blank, alias)
  BY <1>2, <1>4, <1>6, Zenon DEF WithAlias
<1> QED
  BY <1>7, <1>8, <1>10, <1>11

\* So the places of the alias in the text of an item.
LEMMA NamingOK ==
  ASSUME NEW item, ItemOK(item)
  PROVE  /\ Naming(item) \in Text
         /\ AliasOf(item) = None => Len(Naming(item)) = 0
         /\ AliasOf(item) # None =>
              /\ Len(Naming(item)) = 4 + Len(AliasOf(item))
              /\ Stands(Naming(item), 0, <<Space>>) /\ Stands(Naming(item), 1, as)
              /\ Stands(Naming(item), 3, <<Space>>) /\ Stands(Naming(item), 4, AliasOf(item))
<1>1. AliasOf(item) \in Text
  BY DEF ItemOK
<1>2. CASE AliasOf(item) = None
  BY <1>2, KeywordsOK DEF Naming
<1>3. CASE AliasOf(item) # None
  <2>1. Naming(item) = WithAlias(<<Space>>, AliasOf(item))
    BY <1>3, Zenon DEF Naming, WithAlias
  <2> QED
    <3>1. <<Space>> \in Text /\ Len(<<Space>>) = 1
      BY KeywordsOK
    <3> QED
      BY <1>1, <1>3, <2>1, <3>1, AliasWritten, Zenon
<1> QED
  BY <1>2, <1>3

\* The order of the pieces.
LEMMA Places ==
  ASSUME NEW pos \in Nat, NEW item, ItemOK(item)
  PROVE  /\ AtTable(pos, item) \in Nat /\ AtExpr(pos, item) \in Nat /\ AtAlias(pos, item) \in Nat
         /\ AtEnd(pos, item) \in Nat /\ AtSpace(pos, item) \in Nat
         /\ AtTable(pos, item) = pos + Len(SpaceOf(item))
         /\ AtExpr(pos, item) = AtTable(pos, item) + Len(TableOf(item))
         /\ AtAlias(pos, item) = AtExpr(pos, item) + Len(ExprOf(item)) + 4
         /\ AliasOf(item) = None => AtEnd(pos, item) = AtExpr(pos, item) + Len(ExprOf(item))
         /\ AliasOf(item) # None => AtEnd(pos, item) = AtAlias(pos, item) + Len(AliasOf(item))
         /\ AtSpace(pos, item) = AtEnd(pos, item) + Len(SpaceOf(item))
         /\ pos =< AtTable(pos, item) /\ AtTable(pos, item) =< AtExpr(pos, item)
         /\ AtExpr(pos, item) + 1 =< AtEnd(pos, item) /\ AtEnd(pos, item) =< AtSpace(pos, item)
         /\ AtExpr(pos, item) + Len(ExprOf(item)) =< AtEnd(pos, item)
         /\ AtEnd(pos, item) = AtExpr(pos, item) + Len(ExprOf(item)) + Len(Naming(item))
<1>1. PICK s \in Nat, t \in Nat, e \in Nat \ {0}, a \in Nat, n \in Nat :
        /\ s = Len(SpaceOf(item)) /\ t = Len(TableOf(item)) /\ e = Len(ExprOf(item))
        /\ a = Len(AliasOf(item)) /\ n = Len(Naming(item))
  BY NamingOK, TextOK DEF ItemOK
<1>2. (AliasOf(item) = None => n = 0) /\ (AliasOf(item) # None => n = 4 + a)
  BY <1>1, NamingOK
<1>3. PICK at, ae, al, an, sp :
        /\ at = pos + s /\ ae = at + t /\ al = ae + e + 4 /\ sp = an + s
        /\ an = IF AliasOf(item) = None THEN ae + e ELSE al + a
  OBVIOUS
<1>4. /\ at = AtTable(pos, item) /\ ae = AtExpr(pos, item) /\ al = AtAlias(pos, item)
      /\ an = AtEnd(pos, item) /\ sp = AtSpace(pos, item)
  BY <1>1, <1>3 DEF AtTable, AtExpr, AtAlias, AtEnd, AtSpace
<1>5. an = ae + e + n
  BY <1>2, <1>3
<1>6. /\ at \in Nat /\ ae \in Nat /\ al \in Nat /\ an \in Nat /\ sp \in Nat
      /\ pos =< at /\ at =< ae /\ ae + 1 =< an /\ an =< sp /\ ae + e =< an
  BY <1>3, <1>5
<1> QED
  BY <1>1, <1>3, <1>4, <1>5, <1>6

\* An item stands where its text does.
LEMMA WrittenAt ==
  ASSUME NEW item, ItemOK(item)
  PROVE  /\ TextOf(item) \in Text
         /\ \A pos \in Nat : AtSpace(pos, item) = pos + Len(TextOf(item))
         /\ \A text \in Text, pos \in Nat :
              Stands(text, pos, TextOf(item)) /\ pos + Len(TextOf(item)) =< Len(text)
                => ItemAt(text, pos, item)
<1>1. PICK w, s, t, e, n : /\ w = TextOf(item) /\ s = Len(SpaceOf(item)) /\ t = Len(TableOf(item))
                           /\ e = Len(ExprOf(item)) /\ n = Len(Naming(item))
  OBVIOUS
<1>2. /\ SpaceOf(item) \in Text /\ TableOf(item) \in Text /\ ExprOf(item) \in Text /\ Naming(item) \in Text
  BY NamingOK, SpacesOK DEF ItemOK
<1>3. s \in Nat /\ t \in Nat /\ e \in Nat /\ n \in Nat
  BY <1>1, <1>2, TextOK
<1>4. /\ w \in Text /\ Len(w) = s + t + e + n + s
      /\ Stands(w, 0, SpaceOf(item)) /\ Stands(w, s, TableOf(item)) /\ Stands(w, s + t, ExprOf(item))
      /\ Stands(w, s + t + e, Naming(item)) /\ Stands(w, s + t + e + n, SpaceOf(item))
  <2>1. w = SpaceOf(item) \o TableOf(item) \o ExprOf(item) \o Naming(item) \o SpaceOf(item)
    BY <1>1, Zenon DEF TextOf
  <2>2. PICK a, b, d : a = SpaceOf(item) /\ b = TableOf(item) /\ d = ExprOf(item)
    OBVIOUS
  <2>3. a \in Text /\ b \in Text /\ d \in Text /\ w = a \o b \o d \o Naming(item) \o a
    BY <1>2, <2>1, <2>2
  <2>4. w \in Text /\ Len(w) = Len(a) + Len(b) + Len(d) + Len(Naming(item)) + Len(a)
    BY <1>2, <2>3, FiveTexts
  <2>5. Stands(w, 0, a) /\ Stands(w, Len(a), b)
    BY <1>2, <2>3, FiveTexts
  <2>6. Stands(w, Len(a) + Len(b), d)
    BY <1>2, <2>3, FiveTexts
  <2>7. Stands(w, Len(a) + Len(b) + Len(d), Naming(item))
    BY <1>2, <2>3, FiveTexts
  <2>8. Stands(w, Len(a) + Len(b) + Len(d) + Len(Naming(item)), a)
    BY <1>2, <2>3, FiveTexts
  <2> QED
    BY <1>1, <2>2, <2>4, <2>5, <2>6, <2>7, <2>8
<1>5. ASSUME NEW pos \in Nat
      PROVE  /\ AtTable(pos, item) = pos + s /\ AtExpr(pos, item) = pos + (s + t)
             /\ AtExpr(pos, item) + e = pos + (s + t + e)
             /\ AtEnd(pos, item) = pos + (s + t + e + n)
             /\ AtSpace(pos, item) = pos + Len(w)
  <2>1. PICK at, ae, an, sp \in Nat :
          /\ at = AtTable(pos, item) /\ ae = AtExpr(pos, item) /\ an = AtEnd(pos, item)
          /\ sp = AtSpace(pos, item)
    BY Places
  <2>2. at = pos + s /\ ae = at + t /\ an = ae + e + n /\ sp = an + s
    <3>1. AtTable(pos, item) = pos + Len(SpaceOf(item))
      BY Places
    <3>2. AtExpr(pos, item) = AtTable(pos, item) + Len(TableOf(item))
      BY Places
    <3>3. AtSpace(pos, item) = AtEnd(pos, item) + Len(SpaceOf(item))
      BY Places
    <3>4. AtEnd(pos, item) = AtExpr(pos, item) + Len(ExprOf(item)) + Len(Naming(item))
      BY Places
    <3> QED
      BY <1>1, <2>1, <3>1, <3>2, <3>3, <3>4
  <2>3. /\ at = pos + s /\ ae = pos + (s + t) /\ ae + e = pos + (s + t + e)
        /\ an = pos + (s + t + e + n) /\ sp = pos + (s + t + e + n + s)
    BY <1>3, <2>2
  <2> QED
    BY <1>4, <2>1, <2>3
<1>6. ASSUME NEW text \in Text, NEW pos \in Nat, Stands(text, pos, w), pos + Len(w) =< Len(text)
      PROVE  ItemAt(text, pos, item)
  <2>1. /\ s + t \in Nat /\ s + t + e \in Nat /\ s + t + e + n \in Nat
        /\ 0 + s =< Len(w) /\ s + t =< Len(w) /\ (s + t) + e =< Len(w) /\ (s + t + e) + n =< Len(w)
        /\ (s + t + e + n) + s =< Len(w)
    BY <1>3, <1>4
  <2>2. Stands(text, pos + 0, SpaceOf(item))
    BY <1>1, <1>2, <1>4, <1>6, <2>1, StandsWithin
  <2>3. Stands(text, pos + s, TableOf(item))
    BY <1>1, <1>2, <1>3, <1>4, <1>6, <2>1, StandsWithin
  <2>4. Stands(text, pos + (s + t), ExprOf(item))
    BY <1>1, <1>2, <1>4, <1>6, <2>1, StandsWithin
  <2>5. Stands(text, pos + (s + t + e), Naming(item))
    BY <1>1, <1>2, <1>4, <1>6, <2>1, StandsWithin
  <2>6. Stands(text, pos + (s + t + e + n), SpaceOf(item))
    BY <1>1, <1>2, <1>4, <1>6, <2>1, StandsWithin
  <2>7. Stands(text, pos, SpaceOf(item))
    BY <2>2
  <2>8. ASSUME AliasOf(item) # None
        PROVE  /\ Stands(text, AtAlias(pos, item) - 4, <<Space>>)
               /\ Stands(text, AtAlias(pos, item) - 3, as)
               /\ Stands(text, AtAlias(pos, item) - 1, <<Space>>)
               /\ Stands(text, AtAlias(pos, item), AliasOf(item))
    <3>1. PICK x \in Nat : x = pos + (s + t + e)
      BY <2>1
    <3>2. AtAlias(pos, item) = x + 4
      <4>1. AtAlias(pos, item) = AtExpr(pos, item) + Len(ExprOf(item)) + 4
        BY Places
      <4> QED
        BY <1>1, <1>5, <3>1, <4>1
    <3>3. /\ Naming(item) \in Text /\ Len(Naming(item)) = 4 + Len(AliasOf(item))
          /\ Stands(Naming(item), 0, <<Space>>) /\ Stands(Naming(item), 1, as)
          /\ Stands(Naming(item), 3, <<Space>>) /\ Stands(Naming(item), 4, AliasOf(item))
      BY <2>8, NamingOK
    <3>4. /\ <<Space>> \in Text /\ as \in Text /\ Len(<<Space>>) = 1 /\ Len(as) = 2
          /\ AliasOf(item) \in Text /\ Len(AliasOf(item)) \in Nat
      BY KeywordsOK DEF ItemOK
    <3>5. /\ 0 + Len(<<Space>>) =< Len(Naming(item)) /\ 1 + Len(as) =< Len(Naming(item))
          /\ 3 + Len(<<Space>>) =< Len(Naming(item)) /\ 4 + Len(AliasOf(item)) =< Len(Naming(item))
      BY <3>3, <3>4
    <3>6. Stands(text, x, Naming(item))
      BY <2>5, <3>1
    <3>7. Stands(text, x + 0, <<Space>>)
      BY <3>3, <3>4, <3>5, <3>6, StandsWithin
    <3>8. Stands(text, x + 1, as)
      BY <3>3, <3>4, <3>5, <3>6, StandsWithin
    <3>9. Stands(text, x + 3, <<Space>>)
      BY <3>3, <3>4, <3>5, <3>6, StandsWithin
    <3>10. Stands(text, x + 4, AliasOf(item))
      BY <3>3, <3>4, <3>5, <3>6, StandsWithin
    <3>11. x + 4 - 4 = x + 0 /\ x + 4 - 3 = x + 1 /\ x + 4 - 1 = x + 3
      OBVIOUS
    <3>12. /\ AtAlias(pos, item) - 4 = x + 0 /\ AtAlias(pos, item) - 3 = x + 1
           /\ AtAlias(pos, item) - 1 = x + 3
      BY <3>2, <3>11
    <3> QED
      BY <3>2, <3>7, <3>8, <3>9, <3>10, <3>12, Zenon
  <2> QED
    BY <1>5, <1>6, <2>3, <2>4, <2>6, <2>7, <2>8 DEF ItemAt
<1> QED
  BY <1>1, <1>4, <1>5, <1>6

\* Where the items stand in the query: the item i at at[i], a comma or the end of
\* the line in front of at[i + 1], and the rest behind the last.
Laid(at) ==
  /\ at \in [1..(Len(items) + 1) -> Nat] /\ at[1] = 7
  /\ query \in Text /\ Len(query) = at[Len(items) + 1] + Len(tail)
  /\ Stands(query, 0, select) /\ Stands(query, 6, <<Space>>)
  /\ \A i \in 1..Len(items) :
       /\ Stands(query, at[i], TextOf(items[i]))
       /\ ItemAt(query, at[i], items[i]) /\ at[i + 1] = AtSpace(at[i], items[i]) + 1
       /\ Stands(query, at[i + 1] - 1, IF i < Len(items) THEN <<Comma>> ELSE <<"\n">>)
  /\ Stands(query, at[Len(items) + 1], tail)

\* What a query is made of.
Made ==
  /\ items \in Seq(Items) /\ tail \in Tails
  /\ Len(items) \in Nat /\ Len(items) >= 1 /\ tail \in Text /\ Len(tail) \in Nat
  /\ \A i \in 1..Len(items) : items[i] \in Items /\ ItemOK(items[i])

\* The items of a list, and what stands behind it, are what is assumed of them.
LEMMA MadeOK ==
  ASSUME items \in Seq(Items), Len(items) >= 1, tail \in Tails
  PROVE  Made
<1>1. Len(items) \in Nat /\ \A i \in 1..Len(items) : items[i] \in Items
  BY LenProperties, ElementOfSeq
<1>2. tail \in Text /\ Len(tail) \in Nat
  BY QueryAssumption, KeywordsOK, TextOK
<1> QED
  BY <1>1, <1>2, ItemIsOK DEF Made

\* The list of the items, as it is written.
Pieces ==
  [i \in 1..Len(items) |-> Written(i) \o IF i < Len(items) THEN <<Comma>> ELSE None]

\* The text of an item, put together of its words.
LEMMA WrittenIs ==
  ASSUME NEW i
  PROVE  Written(i) = TextOf(items[i])
BY Zenon DEF Written, TextOf, Naming, SpaceOf, TableOf, ExprOf, AliasOf

\* The separator stands behind its item.
LEMMA PieceOK ==
  ASSUME Made, NEW i \in 1..Len(items)
  PROVE  /\ Pieces[i] \in Text
         /\ Stands(Pieces[i], 0, TextOf(items[i]))
         /\ i < Len(items) =>
              /\ Len(Pieces[i]) = Len(TextOf(items[i])) + 1
              /\ Stands(Pieces[i], Len(TextOf(items[i])), <<Comma>>)
         /\ i = Len(items) => Len(Pieces[i]) = Len(TextOf(items[i]))
<1>1. TextOf(items[i]) \in Text
  BY WrittenAt DEF Made
<1>2. PICK w : w = TextOf(items[i])
  OBVIOUS
<1>3. PICK comma : comma = <<Comma>>
  OBVIOUS
<1>4. comma \in Text /\ Len(comma) = 1 /\ None \in Text /\ Len(None) = 0
  BY <1>3, KeywordsOK
<1>5. Pieces[i] = w \o IF i < Len(items) THEN comma ELSE None
  BY <1>2, <1>3, WrittenIs DEF Pieces
<1>6. w \in Text /\ Len(w) \in Nat
  BY <1>1, <1>2, TextOK
<1>7. CASE i < Len(items)
  <2>1. Pieces[i] = w \o comma
    BY <1>5, <1>7
  <2>2. /\ w \o comma \in Text /\ Stands(w \o comma, 0, w) /\ Stands(w \o comma, Len(w), comma)
    BY <1>4, <1>6, TwoTexts
  <2>3. Len(w \o comma) = Len(w) + Len(comma)
    BY <1>4, <1>6, TwoTexts
  <2>4. Len(w \o comma) = Len(w) + 1 /\ i # Len(items)
    BY <1>4, <1>7, <2>3 DEF Made
  <2> QED
    BY <1>2, <1>3, <2>1, <2>2, <2>4
<1>8. CASE ~(i < Len(items))
  <2>1. Pieces[i] = w
    BY <1>5, <1>6, <1>8, ConcatEmptySeq DEF Text, None
  <2>2. 0 + Len(w) =< Len(w)
    BY <1>6
  <2>3. Stands(w, 0, w)
    <3>1. ASSUME NEW k \in 1..Len(w) PROVE w[0 + k] = w[k]
      BY <1>6
    <3> QED
      BY <3>1 DEF Stands
  <2> QED
    BY <1>2, <1>6, <1>8, <2>1, <2>3
<1> QED
  BY <1>7, <1>8

\* The pieces are texts, one for each item.
LEMMA PiecesOK ==
  ASSUME Made
  PROVE  Pieces \in Seq(Text) /\ Len(Pieces) = Len(items)
<1> DEFINE n == Len(items)
<1>1. n \in Nat
  BY DEF Made
<1>2. \A i \in 1..n : Pieces[i] \in Text
  BY PieceOK
<1>3. Pieces = [i \in 1..n |-> Pieces[i]]
  BY DEF Pieces
<1> HIDE DEF n
<1>4. [i \in 1..n |-> Pieces[i]] \in Seq(Text)
  BY <1>1, <1>2
<1>5. Pieces \in Seq(Text)
  BY <1>3, <1>4
<1>6. Len(Pieces) = n
  BY <1>1, <1>3, <1>5
<1> QED
  BY <1>5, <1>6 DEF n

\* A function on numbers that goes up by steps goes up.
LEMMA Ascending ==
  ASSUME NEW m \in Nat, NEW f \in [1..m -> Nat], \A i \in 1..(m - 1) : f[i] =< f[i + 1],
         NEW i \in 1..m, NEW j \in 1..m, i =< j
  PROVE  f[i] =< f[j]
<1> DEFINE D == 0..m
           S == {k \in D : k >= i => f[i] =< f[k]}
<1>1. D \subseteq Nat
  OBVIOUS
<1>2. 0 \in S
  OBVIOUS
<1>3. ASSUME NEW k \in D, k # 0 PROVE k - 1 \in D /\ (k - 1 \in S => k \in S)
  <2>1. k - 1 \in D /\ k \in 1..m
    BY <1>3
  <2>2. CASE k < i \/ k = i
    <3>1. k >= i => f[i] =< f[k]
      BY <2>1, <2>2
    <3> QED
      BY <2>1, <3>1
  <2>3. CASE k > i
    <3>1. k - 1 \in 1..(m - 1) /\ (k - 1) + 1 = k /\ k - 1 >= i
      BY <2>1, <2>3
    <3>2. f[k - 1] =< f[k] /\ f[k - 1] \in Nat /\ f[k] \in Nat /\ f[i] \in Nat
      BY <2>1, <3>1
    <3> QED
      BY <2>1, <3>1, <3>2
  <2> QED
    BY <2>1, <2>2, <2>3
<1>4. D \subseteq S
  <2> HIDE DEF D, S
  <2> QED
    BY <1>1, <1>2, <1>3, Induction
<1>5. j \in D /\ j >= i
  OBVIOUS
<1> QED
  BY <1>4, <1>5

\* The list of the items stands in the query.
LEMMA QueryOK ==
  ASSUME Made
  PROVE  LET list == FlattenSeq(Pieces) IN
         /\ query \in Text /\ list \in Text
         /\ Len(query) = 8 + Len(list) + Len(tail)
         /\ Stands(query, 0, select) /\ Stands(query, 6, <<Space>>)
         /\ Stands(query, 7, list) /\ Stands(query, 7 + Len(list), <<"\n">>)
         /\ Stands(query, 8 + Len(list), tail)
<1>1. PICK blank, newline, list :
        blank = <<Space>> /\ newline = <<"\n">> /\ list = FlattenSeq(Pieces)
  OBVIOUS
<1>2. Len(Pieces) = Len(items) /\ Len(items) >= 1 /\ Pieces \in Seq(Text)
  BY PiecesOK DEF Made
<1>3. list \in Text /\ Len(list) \in Nat
  BY <1>1, <1>2, FlattenStands, TextOK
<1>4. /\ blank \in Text /\ newline \in Text /\ Len(blank) = 1 /\ Len(newline) = 1
      /\ select \in Text /\ Len(select) = 6
  BY <1>1, KeywordsOK
<1>5. tail \in Text /\ Len(tail) \in Nat
  BY DEF Made
<1>0. /\ list \in Text /\ blank \in Text /\ newline \in Text /\ select \in Text /\ tail \in Text
  BY <1>3, <1>4, <1>5
<1>6. query = select \o blank \o list \o newline \o tail
  BY <1>1, Zenon DEF query, Pieces
<1>7. query \in Text
  BY <1>0, <1>6, FiveTexts
<1>8. Len(query) = Len(select) + Len(blank) + Len(list) + Len(newline) + Len(tail)
  BY <1>0, <1>6, FiveTexts
<1>9. Stands(query, 0, select)
  BY <1>0, <1>6, FiveTexts
<1>10. Stands(query, Len(select), blank)
  BY <1>0, <1>6, FiveTexts
<1>11. Stands(query, Len(select) + Len(blank), list)
  BY <1>0, <1>6, FiveTexts
<1>12. Stands(query, Len(select) + Len(blank) + Len(list), newline)
  BY <1>0, <1>6, FiveTexts
<1>13. Stands(query, Len(select) + Len(blank) + Len(list) + Len(newline), tail)
  BY <1>0, <1>6, FiveTexts
<1>14. /\ Len(select) + Len(blank) = 7 /\ Len(select) + Len(blank) + Len(list) = 7 + Len(list)
       /\ Len(select) + Len(blank) + Len(list) + Len(newline) = 8 + Len(list)
       /\ Len(query) = 8 + Len(list) + Len(tail)
  BY <1>3, <1>4, <1>5, <1>8
<1>15. Stands(query, 6, blank)
  BY <1>4, <1>10
<1> QED
  BY <1>1, <1>3, <1>7, <1>9, <1>11, <1>12, <1>13, <1>14, <1>15, Zenon

\* So do the items.
LEMMA QueryLaid ==
  ASSUME Made
  PROVE  \E at : Laid(at)
<1>1. PICK n \in Nat : n = Len(items) /\ n >= 1
  BY DEF Made
<1>2. PICK list : list = FlattenSeq(Pieces)
  OBVIOUS
<1>3. Len(Pieces) = n /\ Pieces \in Seq(Text)
  BY <1>1, PiecesOK
<1>4. PICK f \in [1..(n + 1) -> Nat] :
        /\ f[1] = 0 /\ list \in Text /\ Len(list) = f[n + 1]
        /\ \A i \in 1..n : f[i + 1] = f[i] + Len(Pieces[i]) /\ Stands(list, f[i], Pieces[i])
  BY <1>1, <1>2, <1>3, FlattenStands
<1>5. /\ query \in Text /\ Len(query) = 8 + Len(list) + Len(tail)
      /\ Stands(query, 0, select) /\ Stands(query, 6, <<Space>>)
      /\ Stands(query, 7, list) /\ Stands(query, 7 + Len(list), <<"\n">>)
      /\ Stands(query, 8 + Len(list), tail)
  BY <1>2, QueryOK, Zenon
<1> DEFINE at == [i \in 1..(n + 1) |-> IF i = n + 1 THEN 8 + f[i] ELSE 7 + f[i]]
<1>6. at \in [1..(n + 1) -> Nat] /\ at[1] = 7 /\ at[n + 1] = 8 + Len(list)
  <2>1. \A i \in 1..(n + 1) : f[i] \in Nat
    BY <1>4
  <2>2. 1 \in 1..(n + 1) /\ n + 1 \in 1..(n + 1) /\ 1 # n + 1
    BY <1>1
  <2> QED
    BY <1>4, <2>1, <2>2
<1>7. ASSUME NEW i \in 1..n
      PROVE  /\ f[i] \in Nat /\ f[i + 1] \in Nat /\ at[i] = 7 + f[i]
             /\ at[i + 1] = IF i < n THEN 7 + f[i + 1] ELSE 8 + f[i + 1]
             /\ f[i + 1] =< Len(list)
             /\ Pieces[i] \in Text /\ TextOf(items[i]) \in Text /\ ItemOK(items[i])
             /\ Len(TextOf(items[i])) \in Nat
  <2>1. i \in 1..(n + 1) /\ i + 1 \in 1..(n + 1) /\ i # n + 1 /\ (i < n <=> i + 1 # n + 1)
    BY <1>1
  <2>2. f[i] \in Nat /\ f[i + 1] \in Nat
    BY <1>4, <2>1
  <2>3. at[i] = 7 + f[i] /\ at[i + 1] = IF i < n THEN 7 + f[i + 1] ELSE 8 + f[i + 1]
    BY <2>1
  <2>4. Pieces[i] \in Text /\ TextOf(items[i]) \in Text /\ ItemOK(items[i])
    BY <1>1, PieceOK, WrittenAt DEF Made
  <2>5. Len(TextOf(items[i])) \in Nat
    BY <2>4, TextOK
  <2>6. f[i + 1] =< f[n + 1]
    <3> HIDE DEF at
    <3>1. ASSUME NEW j \in 1..n PROVE f[j] =< f[j + 1]
      <4>1. j \in 1..(n + 1) /\ j + 1 \in 1..(n + 1)
        BY <1>1
      <4>2. f[j] \in Nat /\ f[j + 1] \in Nat /\ f[j + 1] = f[j] + Len(Pieces[j])
        BY <1>4, <4>1
      <4>3. Len(Pieces[j]) \in Nat
        BY <1>1, PieceOK, TextOK
      <4> QED
        BY <4>2, <4>3
    <3>2. n + 1 \in Nat /\ (n + 1) - 1 = n /\ n + 1 \in 1..(n + 1) /\ i + 1 =< n + 1
      BY <1>1
    <3> QED
      BY <1>4, <2>1, <3>1, <3>2, Ascending
  <2> QED
    BY <1>4, <2>2, <2>3, <2>4, <2>5, <2>6
<1> HIDE DEF at
<1>8. ASSUME NEW i \in 1..n
      PROVE  /\ Stands(query, at[i], TextOf(items[i]))
             /\ ItemAt(query, at[i], items[i]) /\ at[i + 1] = AtSpace(at[i], items[i]) + 1
             /\ Stands(query, at[i + 1] - 1, IF i < n THEN <<Comma>> ELSE <<"\n">>)
  <2>1. PICK w : w = TextOf(items[i])
    OBVIOUS
  <2>2. PICK x \in Nat, y \in Nat, l \in Nat, s \in Nat :
           x = f[i] /\ y = f[i + 1] /\ l = Len(list) /\ s = Len(w)
    BY <1>4, <1>7, <2>1, TextOK
  <2>3. /\ Stands(list, x, Pieces[i]) /\ y = x + Len(Pieces[i]) /\ y =< l
        /\ Stands(Pieces[i], 0, w)
        /\ i < n => Len(Pieces[i]) = s + 1 /\ Stands(Pieces[i], s, <<Comma>>)
        /\ i = n => Len(Pieces[i]) = s
    BY <1>1, <1>4, <1>7, <2>1, <2>2, PieceOK
  <2>4. Pieces[i] \in Text /\ w \in Text
    BY <1>7, <2>1
  <2>5. Stands(query, 7 + x, Pieces[i])
    <3>1. x + Len(Pieces[i]) =< Len(list)
      BY <2>2, <2>3
    <3> QED
      BY <1>4, <1>5, <2>3, <2>4, <3>1, StandsWithin
  <2>6. i < n \/ i = n
    BY <1>1
  <2>7. Len(Pieces[i]) \in {s, s + 1}
    BY <2>3, <2>6
  <2>8. Stands(query, 7 + x, w)
    <3>1. 0 + Len(w) =< Len(Pieces[i]) /\ 7 + x \in Nat
      BY <2>2, <2>7
    <3>2. Stands(query, 7 + x + 0, w)
      BY <2>3, <2>4, <2>5, <3>1, StandsWithin
    <3>3. 7 + x + 0 = 7 + x
      BY <3>1
    <3> QED
      BY <3>2, <3>3
  <2>9. 7 + x + s =< Len(query) /\ 7 + x \in Nat
    <3>1. Len(query) = 8 + l + Len(tail) /\ Len(tail) \in Nat
      BY <1>5, <2>2 DEF Made
    <3>2. y >= x + s
      BY <2>2, <2>3, <2>7
    <3>3. PICK q \in Nat, t \in Nat : q = Len(query) /\ t = Len(tail) /\ q = 8 + l + t
      BY <2>2, <3>1
    <3>4. y =< l
      BY <2>3
    <3>5. /\ x \in Nat /\ y \in Nat /\ l \in Nat /\ s \in Nat /\ q \in Nat /\ t \in Nat
          /\ y >= x + s /\ y =< l /\ q = 8 + l + t
      BY <2>2, <3>2, <3>3, <3>4
    <3>6. 7 + x + s =< q
      BY <3>5
    <3> QED
      BY <2>2, <3>3, <3>6
  <2>10. ItemAt(query, 7 + x, items[i]) /\ AtSpace(7 + x, items[i]) = 7 + x + s
    BY <1>5, <1>7, <2>1, <2>2, <2>8, <2>9, WrittenAt
  <2>11. at[i] = 7 + x
    BY <1>7, <2>2
  <2>12. ASSUME i < n
         PROVE  /\ ItemAt(query, at[i], items[i]) /\ at[i + 1] = AtSpace(at[i], items[i]) + 1
                /\ Stands(query, at[i + 1] - 1, IF i < n THEN <<Comma>> ELSE <<"\n">>)
    <3>1. at[i + 1] = 7 + y /\ y = x + (s + 1)
      BY <1>7, <2>2, <2>3, <2>12
    <3>2. at[i + 1] = 7 + x + s + 1 /\ at[i + 1] - 1 = 7 + x + s
      <4>1. 7 + y = 7 + x + s + 1 /\ 7 + x + s + 1 - 1 = 7 + x + s
        BY <3>1
      <4> QED
        BY <3>1, <4>1
    <3>3. Stands(query, 7 + x + s, <<Comma>>)
      <4>1. <<Comma>> \in Text /\ Len(<<Comma>>) = 1
        BY KeywordsOK
      <4>2. s + Len(<<Comma>>) =< Len(Pieces[i])
        BY <2>2, <2>3, <2>12, <4>1
      <4> QED
        BY <2>2, <2>3, <2>4, <2>5, <2>9, <2>12, <4>1, <4>2, StandsWithin
    <3> QED
      BY <2>10, <2>11, <2>12, <3>2, <3>3
  <2>13. ASSUME i = n
         PROVE  /\ ItemAt(query, at[i], items[i]) /\ at[i + 1] = AtSpace(at[i], items[i]) + 1
                /\ Stands(query, at[i + 1] - 1, IF i < n THEN <<Comma>> ELSE <<"\n">>)
    <3>1. at[i + 1] = 8 + y /\ y = x + s /\ y = l
      <4>1. ~(i < n)
        BY <1>1, <2>13
      <4> QED
        BY <1>4, <1>7, <2>2, <2>3, <2>13, <4>1
    <3>2. at[i + 1] = 7 + x + s + 1 /\ at[i + 1] - 1 = 7 + l /\ ~(i < n)
      BY <1>1, <2>2, <2>13, <3>1
    <3>3. Stands(query, 7 + l, <<"\n">>)
      BY <1>5, <2>2
    <3> QED
      BY <2>10, <2>11, <3>2, <3>3
  <2>14. Stands(query, at[i], TextOf(items[i]))
    BY <2>1, <2>8, <2>11
  <2> QED
    BY <2>6, <2>12, <2>13, <2>14
<1>9. Laid(at)
  <2>1. Len(query) = at[n + 1] + Len(tail) /\ Stands(query, at[n + 1], tail)
    BY <1>5, <1>6
  <2> QED
    BY <1>1, <1>5, <1>6, <1>8, <2>1 DEF Laid
<1> QED
  BY <1>9

\* A word that stands in a text, by the positions of its characters.
LEMMA WordChars ==
  ASSUME NEW text \in Text, NEW pos \in Nat, NEW word \in Text, Stands(text, pos, word),
         pos + Len(word) =< Len(text), NEW p \in Nat, pos =< p, p < pos + Len(word)
  PROVE  CharAt(text, p) = word[p - pos + 1] /\ p - pos + 1 \in 1..Len(word)
<1>1. Len(word) \in Nat
  BY TextOK
<1>2. p \in pos..(pos + Len(word) - 1) /\ p - pos + 1 \in 1..Len(word)
  BY <1>1
<1> QED
  BY <1>2, StandsChars

\* The characters of an item.
LEMMA ItemChars ==
  ASSUME NEW text \in Text, NEW pos \in Nat, NEW item, ItemOK(item), ItemAt(text, pos, item)
  PROVE  /\ \A p \in pos..(AtTable(pos, item) - 1) : CharAt(text, p) \in Whitespace
         /\ \A p \in AtTable(pos, item)..(AtExpr(pos, item) - 1) :
              /\ CharAt(text, p) = TableOf(item)[p - AtTable(pos, item) + 1]
              /\ p - AtTable(pos, item) + 1 \in 1..Len(TableOf(item))
         /\ \A p \in AtExpr(pos, item)..(AtExpr(pos, item) + Len(ExprOf(item)) - 1) :
              /\ CharAt(text, p) = ExprOf(item)[p - AtExpr(pos, item) + 1]
              /\ p - AtExpr(pos, item) + 1 \in 1..Len(ExprOf(item))
         /\ AliasOf(item) # None =>
              \A p \in AtAlias(pos, item)..(AtEnd(pos, item) - 1) :
                /\ CharAt(text, p) = AliasOf(item)[p - AtAlias(pos, item) + 1]
                /\ p - AtAlias(pos, item) + 1 \in 1..Len(AliasOf(item))
         /\ \A p \in AtEnd(pos, item)..(AtSpace(pos, item) - 1) : CharAt(text, p) \in Whitespace
<1> DEFINE a == AtTable(pos, item)
           b == AtExpr(pos, item)
           c == AtAlias(pos, item)
           d == AtEnd(pos, item)
           e == AtSpace(pos, item)
<1>1. /\ SpaceOf(item) \in Text /\ TableOf(item) \in Text /\ ExprOf(item) \in Text /\ AliasOf(item) \in Text
      /\ \A k \in 1..Len(SpaceOf(item)) : SpaceOf(item)[k] \in Whitespace
  BY SpacesOK DEF ItemOK
<1>2. PICK ls \in Nat, lt \in Nat, le \in Nat, la \in Nat, n \in Nat :
        /\ ls = Len(SpaceOf(item)) /\ lt = Len(TableOf(item)) /\ le = Len(ExprOf(item))
        /\ la = Len(AliasOf(item)) /\ n = Len(text)
  BY <1>1, TextOK
<1>3. a \in Nat /\ b \in Nat /\ c \in Nat /\ d \in Nat /\ e \in Nat
  BY Places
<1>4. a = pos + ls /\ b = a + lt
  BY <1>2, Places
<1>5. b + le =< d /\ e = d + ls
  BY <1>2, Places
<1>6. ASSUME AliasOf(item) # None PROVE d = c + la
  BY <1>2, <1>6, Places
<1>7. /\ Stands(text, pos, SpaceOf(item)) /\ Stands(text, a, TableOf(item)) /\ Stands(text, b, ExprOf(item))
      /\ AliasOf(item) # None => Stands(text, c, AliasOf(item))
      /\ Stands(text, d, SpaceOf(item)) /\ e =< n
  BY <1>2 DEF ItemAt
<1> HIDE DEF a, b, c, d, e
<1>8. pos + ls =< n /\ a + lt =< n /\ b + le =< n /\ d + ls =< n /\ b + le \in Nat /\ d =< n
  BY <1>3, <1>4, <1>5, <1>7
<1>9. ASSUME NEW p \in pos..(a - 1) PROVE CharAt(text, p) \in Whitespace
  <2>1. p \in Nat /\ pos =< p /\ p < pos + ls
    BY <1>3, <1>4
  <2>2. CharAt(text, p) = SpaceOf(item)[p - pos + 1] /\ p - pos + 1 \in 1..Len(SpaceOf(item))
    BY <1>1, <1>2, <1>3, <1>7, <1>8, <2>1, WordChars
  <2> QED
    BY <1>1, <2>2
<1>10. ASSUME NEW p \in d..(e - 1) PROVE CharAt(text, p) \in Whitespace
  <2>1. p \in Nat /\ d =< p /\ p < d + ls
    BY <1>3, <1>5
  <2>2. CharAt(text, p) = SpaceOf(item)[p - d + 1] /\ p - d + 1 \in 1..Len(SpaceOf(item))
    BY <1>1, <1>2, <1>3, <1>7, <1>8, <2>1, WordChars
  <2> QED
    BY <1>1, <2>2
<1>11. ASSUME NEW p \in a..(b - 1)
       PROVE  /\ CharAt(text, p) = TableOf(item)[p - a + 1]
              /\ p - a + 1 \in 1..Len(TableOf(item))
  <2>1. p \in Nat /\ a =< p /\ p < a + lt
    BY <1>3, <1>4
  <2> QED
    BY <1>1, <1>2, <1>3, <1>7, <1>8, <2>1, WordChars
<1>12. ASSUME NEW p \in b..(b + le - 1)
       PROVE  /\ CharAt(text, p) = ExprOf(item)[p - b + 1]
              /\ p - b + 1 \in 1..Len(ExprOf(item))
  <2>1. p \in Nat /\ b =< p /\ p < b + le
    BY <1>3
  <2> QED
    BY <1>1, <1>2, <1>3, <1>7, <1>8, <2>1, WordChars
<1>13. ASSUME AliasOf(item) # None, NEW p \in c..(d - 1)
       PROVE  /\ CharAt(text, p) = AliasOf(item)[p - c + 1]
              /\ p - c + 1 \in 1..Len(AliasOf(item))
  <2>1. p \in Nat /\ c =< p /\ p < c + la /\ c + la =< n
    BY <1>3, <1>6, <1>8, <1>13
  <2> QED
    BY <1>1, <1>2, <1>3, <1>7, <1>13, <2>1, WordChars
<1> QED
  BY <1>2, <1>9, <1>10, <1>11, <1>12, <1>13 DEF a, b, c, d, e

\* What a position of an item may be.
LEMMA ItemPositions ==
  ASSUME NEW text \in Text, NEW pos \in Nat, NEW item, ItemOK(item), ItemAt(text, pos, item),
         NEW p \in Nat
  PROVE  /\ pos =< p /\ p < AtTable(pos, item) => CharAt(text, p) \in Whitespace
         /\ AtTable(pos, item) =< p /\ p < AtExpr(pos, item) =>
              /\ CharAt(text, p) \notin Whitespace \cup {Comma, "*"}
              /\ p = AtExpr(pos, item) - 1 => CharAt(text, p) = "."
         /\ AtExpr(pos, item) =< p /\ p < AtExpr(pos, item) + Len(ExprOf(item)) =>
              /\ CharAt(text, p) = ExprOf(item)[p - AtExpr(pos, item) + 1]
              /\ p - AtExpr(pos, item) + 1 \in 1..Len(ExprOf(item))
         /\ AliasOf(item) # None /\ AtAlias(pos, item) =< p /\ p < AtEnd(pos, item) =>
              /\ CharAt(text, p) = AliasOf(item)[p - AtAlias(pos, item) + 1]
              /\ p - AtAlias(pos, item) + 1 \in 1..Len(AliasOf(item))
              /\ CharAt(text, p) \notin Whitespace \cup {Comma, ".", "*"}
         /\ AtEnd(pos, item) =< p /\ p < AtSpace(pos, item) => CharAt(text, p) \in Whitespace
<1>1. /\ AtTable(pos, item) \in Nat /\ AtExpr(pos, item) \in Nat /\ AtAlias(pos, item) \in Nat
      /\ AtEnd(pos, item) \in Nat /\ AtSpace(pos, item) \in Nat
  BY Places
<1>2. Len(ExprOf(item)) \in Nat /\ Len(TableOf(item)) \in Nat /\ Len(AliasOf(item)) \in Nat
  BY DEF ItemOK
<1>3. pos =< p /\ p < AtTable(pos, item) => CharAt(text, p) \in Whitespace
  BY <1>1, ItemChars
<1>4. AtEnd(pos, item) =< p /\ p < AtSpace(pos, item) => CharAt(text, p) \in Whitespace
  BY <1>1, ItemChars
<1>5. ASSUME AtTable(pos, item) =< p, p < AtExpr(pos, item)
      PROVE  /\ CharAt(text, p) \notin Whitespace \cup {Comma, "*"}
             /\ p = AtExpr(pos, item) - 1 => CharAt(text, p) = "."
  <2>1. p \in AtTable(pos, item)..(AtExpr(pos, item) - 1)
    BY <1>1, <1>5
  <2>2. /\ CharAt(text, p) = TableOf(item)[p - AtTable(pos, item) + 1]
        /\ p - AtTable(pos, item) + 1 \in 1..Len(TableOf(item))
    BY <2>1, ItemChars
  <2>3. CharAt(text, p) \notin Whitespace \cup {Comma, "*"}
    BY <2>2 DEF ItemOK, Plain
  <2>4. ASSUME p = AtExpr(pos, item) - 1 PROVE CharAt(text, p) = "."
    <3>1. AtExpr(pos, item) = AtTable(pos, item) + Len(TableOf(item))
      BY Places
    <3>2. p - AtTable(pos, item) + 1 = Len(TableOf(item)) /\ Len(TableOf(item)) > 0
      <4>1. PICK x \in Nat, y \in Nat, l \in Nat :
              x = AtTable(pos, item) /\ y = AtExpr(pos, item) /\ l = Len(TableOf(item))
        BY <1>1, <1>2
      <4>2. y = x + l /\ x =< p /\ p < y /\ p = y - 1
        BY <1>5, <2>4, <3>1, <4>1
      <4>3. p - x + 1 = l /\ l > 0
        BY <4>2
      <4> QED
        BY <4>1, <4>3
    <3> QED
      BY <2>2, <3>2 DEF ItemOK
  <2> QED
    BY <2>3, <2>4
<1>6. ASSUME AtExpr(pos, item) =< p, p < AtExpr(pos, item) + Len(ExprOf(item))
      PROVE  /\ CharAt(text, p) = ExprOf(item)[p - AtExpr(pos, item) + 1]
             /\ p - AtExpr(pos, item) + 1 \in 1..Len(ExprOf(item))
  <2>1. p \in AtExpr(pos, item)..(AtExpr(pos, item) + Len(ExprOf(item)) - 1)
    BY <1>1, <1>2, <1>6
  <2> QED
    BY <2>1, ItemChars
<1>7. ASSUME AliasOf(item) # None, AtAlias(pos, item) =< p, p < AtEnd(pos, item)
      PROVE  /\ CharAt(text, p) = AliasOf(item)[p - AtAlias(pos, item) + 1]
             /\ p - AtAlias(pos, item) + 1 \in 1..Len(AliasOf(item))
             /\ CharAt(text, p) \notin Whitespace \cup {Comma, ".", "*"}
  <2>1. p \in AtAlias(pos, item)..(AtEnd(pos, item) - 1)
    BY <1>1, <1>7
  <2>2. /\ CharAt(text, p) = AliasOf(item)[p - AtAlias(pos, item) + 1]
        /\ p - AtAlias(pos, item) + 1 \in 1..Len(AliasOf(item))
    BY <1>7, <2>1, ItemChars
  <2> QED
    BY <2>2 DEF ItemOK, Plain
<1> QED
  BY <1>3, <1>4, <1>5, <1>6, <1>7

\* AS in front of an alias.
LEMMA AliasChars ==
  ASSUME NEW text \in Text, NEW pos \in Nat, NEW item, ItemOK(item), ItemAt(text, pos, item),
         AliasOf(item) # None
  PROVE  \E p \in Nat :
           /\ p = AtExpr(pos, item) + Len(ExprOf(item))
           /\ CharAt(text, p) = Space /\ CharAt(text, p + 1) = "a"
           /\ CharAt(text, p + 2) = "s" /\ CharAt(text, p + 3) = Space
           /\ p + 4 = AtAlias(pos, item) /\ p + 5 =< AtEnd(pos, item)
           /\ Stands(text, p + 1, as)
<1>1. PICK p, e : p = AtExpr(pos, item) + Len(ExprOf(item)) /\ e = AtEnd(pos, item)
  OBVIOUS
<1>2. AtExpr(pos, item) \in Nat /\ Len(ExprOf(item)) \in Nat /\ e \in Nat
  BY <1>1, Places DEF ItemOK
<1>3. p \in Nat
  BY <1>1, <1>2
<1>4. AtAlias(pos, item) = AtExpr(pos, item) + Len(ExprOf(item)) + 4
  BY Places
<1>5. AtAlias(pos, item) = p + 4
  BY <1>1, <1>2, <1>4
<1>6. p + 4 - 4 = p /\ p + 4 - 3 = p + 1 /\ p + 4 - 1 = p + 3
  BY <1>3
<1>11. PICK blank : blank = <<Space>>
  OBVIOUS
<1>7. Stands(text, p, blank)
  <2>1. Stands(text, AtAlias(pos, item) - 4, blank)
    BY <1>11, Zenon DEF ItemAt
  <2> QED
    BY <1>3, <1>5, <1>6, <2>1
<1>8. Stands(text, p + 1, as) /\ Stands(text, p + 3, blank)
  <2>1. Stands(text, AtAlias(pos, item) - 3, as) /\ Stands(text, AtAlias(pos, item) - 1, blank)
    BY <1>11, Zenon DEF ItemAt
  <2>2. AtAlias(pos, item) - 3 = p + 1 /\ AtAlias(pos, item) - 1 = p + 3
    BY <1>3, <1>5
  <2> QED
    BY <2>1, <2>2
<1>9. p + 5 =< e
  <2>1. PICK l \in Nat : l = Len(AliasOf(item)) /\ l # 0
    BY DEF ItemOK
  <2>2. e = AtAlias(pos, item) + l
    BY <1>1, <2>1, Places
  <2>3. e = p + 4 + l
    BY <1>5, <2>2
  <2>4. l >= 1
    BY <2>1
  <2> QED
    BY <1>3, <2>3, <2>4
<1>10. e =< Len(text) /\ Len(text) \in Nat
  <2>1. e =< AtSpace(pos, item) /\ AtSpace(pos, item) \in Nat
    BY <1>1, Places
  <2>2. AtSpace(pos, item) =< Len(text)
    BY DEF ItemAt
  <2> QED
    BY <1>2, <2>1, <2>2, TextOK
<1>12. /\ blank \in Text /\ as \in Text /\ Len(blank) = 1 /\ Len(as) = 2 /\ blank[1] = Space
       /\ as[1] = "a" /\ as[2] = "s"
  BY <1>11, KeywordsOK
<1>13. /\ p + Len(blank) =< Len(text) /\ p + 1 + Len(as) =< Len(text) /\ p + 3 + Len(blank) =< Len(text)
       /\ p + 1 \in Nat /\ p + 3 \in Nat
  BY <1>2, <1>3, <1>9, <1>10, <1>12
<1>14. CharAt(text, p) = Space
  <2>1. p \in p..(p + Len(blank) - 1) /\ p - p + 1 = 1
    BY <1>3, <1>12
  <2>2. CharAt(text, p) = blank[p - p + 1]
    BY <1>3, <1>7, <1>8, <1>11, <1>12, <1>13, <2>1, StandsChars
  <2> QED
    BY <1>12, <2>1, <2>2
<1>15. CharAt(text, p + 3) = Space
  <2>1. p + 3 \in (p + 3)..(p + 3 + Len(blank) - 1) /\ (p + 3) - (p + 3) + 1 = 1
    BY <1>3, <1>12
  <2>2. CharAt(text, p + 3) = blank[(p + 3) - (p + 3) + 1]
    BY <1>7, <1>8, <1>11, <1>12, <1>13, <2>1, StandsChars
  <2> QED
    BY <1>12, <2>1, <2>2
<1>16. CharAt(text, p + 1) = "a" /\ CharAt(text, p + 2) = "s"
  <2>1. /\ p + 1 \in (p + 1)..(p + 1 + Len(as) - 1) /\ (p + 1) - (p + 1) + 1 = 1
        /\ p + 2 \in (p + 1)..(p + 1 + Len(as) - 1) /\ (p + 2) - (p + 1) + 1 = 2
    BY <1>3, <1>12
  <2>2. /\ CharAt(text, p + 1) = as[(p + 1) - (p + 1) + 1]
        /\ CharAt(text, p + 2) = as[(p + 2) - (p + 1) + 1]
    BY <1>8, <1>12, <1>13, <2>1, StandsChars
  <2> QED
    BY <1>12, <2>1, <2>2
<1> QED
  BY <1>1, <1>3, <1>5, <1>8, <1>9, <1>14, <1>15, <1>16

\* The places of the items are in order, and a separator is behind each.
LEMMA LaidOK ==
  ASSUME Made, NEW at, Laid(at), NEW i \in 1..Len(items)
  PROVE  /\ query \in Text /\ Len(query) \in Nat /\ ItemOK(items[i])
         /\ ItemAt(query, at[i], items[i])
         /\ at[i] \in Nat /\ at[i + 1] \in Nat /\ at[i] + 2 =< at[i + 1]
         /\ AtSpace(at[i], items[i]) = at[i + 1] - 1
         /\ CharAt(query, at[i + 1] - 1) = IF i < Len(items) THEN Comma ELSE "\n"
<1>1. PICK n \in Nat : n = Len(items)
  BY DEF Made
<1>2. query \in Text /\ Len(query) \in Nat /\ ItemOK(items[i])
  BY TextOK DEF Made, Laid
<1>3. at[i] \in Nat /\ at[i + 1] \in Nat
  <2>1. i \in 1..(n + 1) /\ i + 1 \in 1..(n + 1)
    BY <1>1
  <2>2. at \in [1..(n + 1) -> Nat]
    BY <1>1 DEF Laid
  <2> QED
    BY <2>1, <2>2
<1>4. ItemAt(query, at[i], items[i]) /\ at[i + 1] = AtSpace(at[i], items[i]) + 1
  BY DEF Laid
<1>5. PICK s \in Nat, d \in Nat, b \in Nat :
        /\ s = AtSpace(at[i], items[i]) /\ d = AtEnd(at[i], items[i]) /\ b = AtExpr(at[i], items[i])
        /\ at[i] =< b /\ b + 1 =< d /\ d =< s
  <2>1. /\ AtTable(at[i], items[i]) \in Nat /\ AtExpr(at[i], items[i]) \in Nat
        /\ AtEnd(at[i], items[i]) \in Nat /\ AtSpace(at[i], items[i]) \in Nat
    BY <1>2, <1>3, Places
  <2>2. /\ at[i] =< AtTable(at[i], items[i]) /\ AtTable(at[i], items[i]) =< AtExpr(at[i], items[i])
        /\ AtExpr(at[i], items[i]) + 1 =< AtEnd(at[i], items[i])
        /\ AtEnd(at[i], items[i]) =< AtSpace(at[i], items[i])
    BY <1>2, <1>3, Places
  <2> QED
    BY <1>3, <2>1, <2>2
<1>6. at[i] + 2 =< at[i + 1] /\ s = at[i + 1] - 1
  BY <1>3, <1>4, <1>5
<1>7. PICK comma, newline : comma = <<Comma>> /\ newline = <<"\n">>
  OBVIOUS
<1>8. /\ comma \in Text /\ newline \in Text /\ Len(comma) = 1 /\ Len(newline) = 1
      /\ comma[1] = Comma /\ newline[1] = "\n"
  BY <1>7, KeywordsOK
<1>9. PICK word : /\ word = IF i < Len(items) THEN comma ELSE newline
                  /\ Stands(query, at[i + 1] - 1, word)
  BY <1>7 DEF Laid
<1>10. word \in Text /\ Len(word) = 1 /\ word[1] = IF i < Len(items) THEN Comma ELSE "\n"
  BY <1>8, <1>9
<1>11. at[i + 1] =< at[n + 1]
  <2>1. /\ n + 1 \in Nat /\ (n + 1) - 1 = n /\ i + 1 \in 1..(n + 1) /\ n + 1 \in 1..(n + 1)
        /\ i + 1 =< n + 1
    BY <1>1
  <2>2. at \in [1..(n + 1) -> Nat]
    BY <1>1 DEF Laid
  <2>3. ASSUME NEW j \in 1..n PROVE at[j] =< at[j + 1]
    <3>1. j \in 1..(n + 1) /\ j + 1 \in 1..(n + 1) /\ at[j] \in Nat /\ at[j + 1] \in Nat
      BY <1>1, <2>2
    <3>2. at[j + 1] = AtSpace(at[j], items[j]) + 1 /\ ItemOK(items[j])
      BY <1>1 DEF Laid, Made
    <3>3. AtSpace(at[j], items[j]) = AtEnd(at[j], items[j]) + Len(SpaceOf(items[j]))
      BY <3>1, <3>2, Places
    <3>4. /\ AtTable(at[j], items[j]) \in Nat /\ AtExpr(at[j], items[j]) \in Nat
          /\ AtEnd(at[j], items[j]) \in Nat /\ AtSpace(at[j], items[j]) \in Nat
      BY <3>1, <3>2, Places
    <3>5. /\ at[j] =< AtTable(at[j], items[j]) /\ AtTable(at[j], items[j]) =< AtExpr(at[j], items[j])
          /\ AtExpr(at[j], items[j]) + 1 =< AtEnd(at[j], items[j])
          /\ AtEnd(at[j], items[j]) =< AtSpace(at[j], items[j])
      BY <3>1, <3>2, Places
    <3> QED
      BY <3>1, <3>2, <3>4, <3>5
  <2> QED
    BY <2>1, <2>2, <2>3, Ascending
<1>12. at[n + 1] =< Len(query) /\ at[n + 1] \in Nat
  <2>1. n + 1 \in 1..(n + 1)
    BY <1>1
  <2>2. at[n + 1] \in Nat /\ Len(tail) \in Nat /\ Len(query) = at[n + 1] + Len(tail)
    BY <1>1, <2>1 DEF Laid, Made
  <2> QED
    BY <2>2
<1>13. CharAt(query, at[i + 1] - 1) = word[1]
  <2>1. PICK p \in Nat : p = at[i + 1] - 1 /\ p + 1 =< Len(query)
    BY <1>2, <1>3, <1>6, <1>11, <1>12
  <2>2. word \in Text
    BY <1>10
  <2>3. PICK l \in Nat : l = Len(word) /\ l = 1
    <3>1. 1 \in Nat
      OBVIOUS
    <3> QED
      BY <1>10, <3>1, Zenon
  <2>4. p < p + l /\ p + l =< Len(query) /\ p - p + 1 = 1
    BY <1>2, <2>1, <2>3
  <2>5. Stands(query, p, word)
    BY <1>9, <2>1
  <2>6. query[p + 1] = word[1]
    <3>1. 1 \in 1..Len(word)
      BY <2>3
    <3> QED
      BY <2>5, <3>1, Zenon DEF Stands
  <2>7. CharAt(query, p) = query[p + 1]
    <3>1. p < Len(query)
      BY <1>2, <2>1
    <3> QED
      BY <1>2, <3>1, TextOK
  <2> QED
    BY <2>1, <2>6, <2>7
<1> QED
  BY <1>2, <1>3, <1>4, <1>5, <1>6, <1>10, <1>13

\* The items stand one behind the other, in front of the rest.
LEMMA LaidInOrder ==
  ASSUME Made, NEW at, Laid(at)
  PROVE  /\ at[1] = 7 /\ at[Len(items) + 1] \in Nat
         /\ Len(query) = at[Len(items) + 1] + Len(tail) /\ at[Len(items) + 1] =< Len(query)
         /\ \A i, j \in 1..(Len(items) + 1) : i =< j => at[i] =< at[j]
<1>1. PICK n \in Nat : n = Len(items)
  BY DEF Made
<1>2. at \in [1..(n + 1) -> Nat] /\ at[1] = 7
  BY <1>1 DEF Laid
<1>3. ASSUME NEW j \in 1..n PROVE at[j] =< at[j + 1]
  <2>1. at[j] \in Nat /\ at[j + 1] \in Nat /\ at[j] + 2 =< at[j + 1]
    BY <1>1, LaidOK
  <2> QED
    BY <2>1
<1>4. n + 1 \in Nat /\ (n + 1) - 1 = n /\ n + 1 \in 1..(n + 1)
  OBVIOUS
<1>5. \A i, j \in 1..(n + 1) : i =< j => at[i] =< at[j]
  BY <1>2, <1>3, <1>4, Ascending
<1>6. at[n + 1] \in Nat /\ Len(tail) \in Nat /\ Len(query) = at[n + 1] + Len(tail)
  BY <1>1, <1>2, <1>4 DEF Laid, Made
<1>7. at[n + 1] =< Len(query)
  BY <1>6
<1> QED
  BY <1>1, <1>2, <1>5, <1>6, <1>7

\* Every position in front of the rest is one of an item or of its separator.
LEMMA InSomeItem ==
  ASSUME Made, NEW at, Laid(at), NEW p \in Nat, 7 =< p, p < at[Len(items) + 1]
  PROVE  \E i \in 1..Len(items) : at[i] =< p /\ p < at[i + 1]
<1>1. PICK n \in Nat : n = Len(items)
  BY DEF Made
<1>2. at \in [1..(n + 1) -> Nat] /\ at[1] = 7
  BY <1>1 DEF Laid
<1> DEFINE S == {i \in 1..(n + 1) : at[i] =< p}
<1>3. S \subseteq 0..(n + 1) /\ 1 \in S /\ n + 1 \in Nat
  BY <1>2
<1>4. Max(S) \in S /\ \A y \in S : Max(S) >= y
  BY <1>3, MaxIsGreatest
<1>5. PICK i \in 1..(n + 1) : at[i] =< p /\ \A y \in S : i >= y
  BY <1>4
<1>6. i # n + 1
  <2>1. at[n + 1] \in Nat /\ p < at[n + 1] /\ n + 1 \in 1..(n + 1)
    BY <1>1, <1>2
  <2> QED
    BY <1>5, <2>1
<1>7. i \in 1..n /\ i + 1 \in 1..(n + 1)
  BY <1>6
<1>8. ~(at[i + 1] =< p)
  <2> SUFFICES ASSUME at[i + 1] =< p PROVE FALSE
    OBVIOUS
  <2>1. i + 1 \in S
    BY <1>7
  <2>2. i >= i + 1
    BY <1>5, <2>1
  <2> QED
    BY <2>2
<1>9. at[i + 1] \in Nat
  BY <1>2, <1>7
<1> QED
  BY <1>1, <1>5, <1>7, <1>8, <1>9

-----------------------------------------------------------------------------
(***************************************************************************)
(* Keywords in a query.                                                    *)
(***************************************************************************)
\* A keyword has no white space and no punctuation.
Keyword(word) ==
  /\ word \in Text /\ Len(word) \in Nat /\ Len(word) >= 1
  /\ \A k \in 1..Len(word) : word[k] \notin Whitespace \cup {Comma, "."}

\* AS and FROM are keywords.
LEMMA KeywordOK ==
  Keyword(as) /\ Keyword(from) /\ Len(as) = 2 /\ Len(from) = 4
<1>1. /\ as \in Text /\ Len(as) = 2 /\ as[1] = "a" /\ as[2] = "s"
      /\ from \in Text /\ Len(from) = 4
      /\ from[1] = "f" /\ from[2] = "r" /\ from[3] = "o" /\ from[4] = "m"
  BY KeywordsOK
<1>2. /\ "a" # "." /\ "s" # "." /\ "f" # "." /\ "r" # "." /\ "o" # "." /\ "m" # "."
  BY Zenon
<1>3. \A k \in 1..2 : as[k] \notin Whitespace \cup {Comma, "."}
  <2> TAKE k \in 1..2
  <2>1. k = 1 \/ k = 2
    OBVIOUS
  <2> QED
    BY <1>1, <1>2, <2>1, MarksDiffer
<1>4. \A k \in 1..4 : from[k] \notin Whitespace \cup {Comma, "."}
  <2> TAKE k \in 1..4
  <2>1. k = 1 \/ k = 2 \/ k = 3 \/ k = 4
    OBVIOUS
  <2> QED
    BY <1>1, <1>2, <2>1, MarksDiffer
<1>5. Keyword(as)
  <2>1. \A k \in 1..Len(as) : as[k] \notin Whitespace \cup {Comma, "."}
    BY <1>1, <1>3
  <2>2. as \in Text /\ Len(as) \in Nat /\ Len(as) >= 1
    <3>1. 2 \in Nat /\ 2 >= 1
      OBVIOUS
    <3> QED
      BY <1>1, <3>1, Zenon
  <2> QED
    BY <2>1, <2>2, Zenon DEF Keyword
<1>6. Keyword(from)
  BY <1>1, <1>4 DEF Keyword
<1> QED
  BY <1>1, <1>5, <1>6

\* A word holds a keyword that stands in it, with a blank or its end behind.
LEMMA HoldsIs ==
  ASSUME NEW word \in Text, NEW key \in Text
  PROVE  Holds(word, key) <=>
           \E r \in Nat : /\ r + Len(key) =< Len(word) /\ Stands(word, r, key)
                          /\ r + Len(key) = Len(word) \/ word[r + Len(key) + 1] \in Whitespace
<1>1. PICK n \in Nat, l \in Nat : n = Len(word) /\ l = Len(key)
  BY TextOK
<1>2. ASSUME NEW r \in Nat, r + l =< n
      PROVE  SubSeq(word, r + 1, r + 1 + l - 1) = key <=> Stands(word, r, key)
  <2>1. r + 1 + l - 1 = r + l
    BY <1>1
  <2> QED
    <3>1. r + Len(key) =< Len(word)
      BY <1>1, <1>2
    <3>2. SubSeq(word, r + 1, r + Len(key)) = key <=> Stands(word, r, key)
      BY <3>1, PartIsWord
    <3> QED
      BY <1>1, <2>1, <3>2
<1>3. ASSUME Holds(word, key)
      PROVE  \E r \in Nat : /\ r + l =< n /\ Stands(word, r, key)
                            /\ r + l = n \/ word[r + l + 1] \in Whitespace
  <2>1. PICK i \in 1..(n - l + 1) :
           /\ SubSeq(word, i, i + l - 1) = key
           /\ i + l > n \/ word[i + l] \in Whitespace
    BY <1>1, <1>3 DEF Holds
  <2>2. PICK r \in Nat : i = r + 1 /\ r + l =< n /\ i + l = r + l + 1 /\ i + l - 1 = r + 1 + l - 1
    <3>1. i - 1 \in Nat /\ i = (i - 1) + 1 /\ (i - 1) + l =< n
      BY <1>1, <2>1
    <3> QED
      BY <1>1, <3>1
  <2>3. Stands(word, r, key)
    BY <1>2, <2>1, <2>2
  <2>4. r + l = n \/ word[r + l + 1] \in Whitespace
    <3>1. CASE i + l > n
      BY <1>1, <2>2, <3>1
    <3>2. CASE word[i + l] \in Whitespace
      BY <2>2, <3>2
    <3> QED
      BY <2>1, <3>1, <3>2
  <2> QED
    BY <2>2, <2>3, <2>4
<1>4. ASSUME NEW r \in Nat, r + l =< n, Stands(word, r, key),
             r + l = n \/ word[r + l + 1] \in Whitespace
      PROVE  Holds(word, key)
  <2>1. PICK i \in Nat : i = r + 1 /\ i + l = r + l + 1 /\ i \in 1..(n - l + 1)
    <3>1. r + 1 \in 1..(n - l + 1) /\ (r + 1) + l = r + l + 1
      BY <1>1, <1>4
    <3> QED
      BY <3>1
  <2>2. SubSeq(word, i, i + l - 1) = key
    BY <1>2, <1>4, <2>1
  <2>3. i + l > n \/ word[i + l] \in Whitespace
    BY <1>1, <1>4, <2>1
  <2> QED
    BY <1>1, <2>1, <2>2, <2>3 DEF Holds
<1> QED
  BY <1>1, <1>3, <1>4

\* A keyword that stands in a text where a word does stands in that word.
LEMMA StandsInside ==
  ASSUME NEW text, NEW pos \in Nat, NEW word \in Text, Stands(text, pos, word),
         NEW p \in Nat, NEW key \in Text, Stands(text, p, key),
         pos =< p, p + Len(key) =< pos + Len(word)
  PROVE  Stands(word, p - pos, key) /\ p - pos \in Nat /\ p - pos + Len(key) =< Len(word)
<1>1. Len(word) \in Nat /\ Len(key) \in Nat
  BY TextOK
<1>2. p - pos \in Nat /\ p - pos + Len(key) =< Len(word)
  BY <1>1
<1>3. ASSUME NEW k \in 1..Len(key) PROVE word[p - pos + k] = key[k]
  <2>1. p - pos + k \in 1..Len(word) /\ pos + (p - pos + k) = p + k
    BY <1>1
  <2>2. text[p + k] = key[k]
    BY DEF Stands
  <2>3. text[pos + (p - pos + k)] = word[p - pos + k]
    BY <2>1, Zenon DEF Stands
  <2> QED
    BY <2>1, <2>2, <2>3
<1> QED
  BY <1>2, <1>3 DEF Stands

\* The word holds it if it ends there, or a blank is behind it.
LEMMA HoldsWhere ==
  ASSUME NEW text \in Text, NEW pos \in Nat, NEW word \in Text, Stands(text, pos, word),
         pos + Len(word) =< Len(text),
         NEW p \in Nat, NEW key \in Text, Stands(text, p, key),
         pos =< p, p + Len(key) =< pos + Len(word),
         p + Len(key) = pos + Len(word) \/ CharAt(text, p + Len(key)) \in Whitespace
  PROVE  Holds(word, key)
<1>1. PICK n \in Nat, l \in Nat, r \in Nat : n = Len(word) /\ l = Len(key) /\ r = p - pos
  BY TextOK
<1>2. Stands(word, r, key) /\ r + l =< n
  BY <1>1, StandsInside
<1>3. r + l = n \/ word[r + l + 1] \in Whitespace
  <2>1. CASE p + l = pos + n
    BY <1>1, <2>1
  <2>2. CASE p + l # pos + n
    <3>1. p + l \in Nat /\ pos =< p + l /\ p + l < pos + Len(word) /\ p + l - pos + 1 = r + l + 1
      BY <1>1, <2>2
    <3>2. CharAt(text, p + l) = word[p + l - pos + 1]
      BY <3>1, WordChars
    <3> QED
      BY <1>1, <2>2, <3>1, <3>2
  <2> QED
    BY <2>1, <2>2
<1> QED
  BY <1>1, <1>2, <1>3, HoldsIs

\* Where a keyword stands in an item: in one of its words, or it is the AS.
LEMMA KeywordIn ==
  ASSUME NEW text \in Text, NEW pos \in Nat, NEW item, ItemOK(item), ItemAt(text, pos, item),
         CharAt(text, AtSpace(pos, item)) \in Whitespace \cup {Comma},
         NEW key, Keyword(key), NEW p \in Nat, Stands(text, p, key),
         pos =< p, p =< AtSpace(pos, item), p + Len(key) =< Len(text)
  PROVE  \/ /\ AtTable(pos, item) =< p /\ p + Len(key) < AtExpr(pos, item)
            /\ CharAt(text, p + Len(key)) \notin Whitespace
         \/ /\ AtExpr(pos, item) =< p
            /\ p + Len(key) =< AtExpr(pos, item) + Len(ExprOf(item))
            /\ \/ p + Len(key) = AtExpr(pos, item) + Len(ExprOf(item))
               \/ CharAt(text, p + Len(key)) \in Whitespace
               => Holds(ExprOf(item), key)
         \/ /\ AliasOf(item) # None /\ AtExpr(pos, item) + Len(ExprOf(item)) < p
            /\ p + Len(key) < AtAlias(pos, item)
         \/ /\ AliasOf(item) # None /\ AtAlias(pos, item) =< p /\ p + Len(key) =< AtEnd(pos, item)
            /\ p + Len(key) = AtEnd(pos, item) \/ CharAt(text, p + Len(key)) \in Whitespace
               => Holds(AliasOf(item), key)
<1>1. PICK l \in Nat : l = Len(key) /\ l >= 1
  BY DEF Keyword
<1>2. PICK a, b, c, d, e \in Nat :
        /\ a = AtTable(pos, item) /\ b = AtExpr(pos, item) /\ c = AtAlias(pos, item)
        /\ d = AtEnd(pos, item) /\ e = AtSpace(pos, item)
  BY Places
<1>3. PICK x \in Nat : x = b + Len(ExprOf(item)) /\ x =< d /\ c = x + 4
  <2>1. Len(ExprOf(item)) \in Nat
    BY DEF ItemOK
  <2>2. c = b + Len(ExprOf(item)) + 4
    BY <1>2, Places
  <2>3. b + Len(ExprOf(item)) =< d
    BY <1>2, Places
  <2>4. b + Len(ExprOf(item)) \in Nat
    BY <2>1
  <2> QED
    BY <2>2, <2>3, <2>4
<1>4. pos =< a /\ a =< b /\ b < d /\ d =< e /\ e =< Len(text)
  <2>1. pos =< a /\ a =< b
    BY <1>2, Places
  <2>2. b + 1 =< d /\ d =< e
    BY <1>2, Places
  <2>3. e =< Len(text)
    BY <1>2 DEF ItemAt
  <2> QED
    BY <2>1, <2>2, <2>3
<1>5. ASSUME NEW q \in p..(p + l - 1)
      PROVE  CharAt(text, q) \notin Whitespace \cup {Comma, "."}
  <2>1. q \in Nat /\ p =< q /\ q < p + Len(key)
    BY <1>1
  <2>2. CharAt(text, q) = key[q - p + 1] /\ q - p + 1 \in 1..Len(key)
    BY <2>1, WordChars DEF Keyword
  <2> QED
    BY <2>2 DEF Keyword
<1>6. AliasOf(item) # None => CharAt(text, x) = Space /\ CharAt(text, x + 3) = Space /\ x + 5 =< d
  <2> SUFFICES ASSUME AliasOf(item) # None
               PROVE  CharAt(text, x) = Space /\ CharAt(text, x + 3) = Space /\ x + 5 =< d
    OBVIOUS
  <2>1. PICK y \in Nat :
          /\ y = AtExpr(pos, item) + Len(ExprOf(item))
          /\ CharAt(text, y) = Space /\ CharAt(text, y + 3) = Space /\ y + 5 =< AtEnd(pos, item)
    BY AliasChars
  <2>2. x = y
    BY <1>2, <1>3, <2>1
  <2> QED
    BY <1>2, <2>1, <2>2
<1>7. AliasOf(item) = None => x = d
  BY <1>2, <1>3, Places
<1>8. Space \in Whitespace
  BY MarksDiffer
<1>9. a =< p
  <2> SUFFICES ASSUME p < a PROVE FALSE
    OBVIOUS
  <2>1. CharAt(text, p) \in Whitespace
    BY <1>2, ItemPositions
  <2>2. p \in p..(p + l - 1)
    BY <1>1
  <2> QED
    BY <1>5, <2>1, <2>2
<1>10. ASSUME NEW q \in Nat, d =< q, q =< e PROVE CharAt(text, q) \in Whitespace \cup {Comma}
  <2>1. CASE q < e
    BY <1>2, <1>10, <2>1, ItemPositions
  <2>2. CASE q = e
    BY <1>2, <2>2
  <2> QED
    BY <1>10, <2>1, <2>2
<1>11. p + l =< d
  <2>1. p < d
    <3> SUFFICES ASSUME d =< p PROVE FALSE
      OBVIOUS
    <3>1. CharAt(text, p) \in Whitespace \cup {Comma}
      BY <1>2, <1>10
    <3>2. p \in p..(p + l - 1)
      BY <1>1
    <3> QED
      BY <1>5, <3>1, <3>2
  <2> SUFFICES ASSUME d < p + l PROVE FALSE
    OBVIOUS
  <2>2. d \in p..(p + l - 1)
    BY <2>1
  <2>3. CharAt(text, d) \in Whitespace \cup {Comma}
    BY <1>4, <1>10
  <2> QED
    BY <1>5, <2>2, <2>3
<1>12. CASE p < b
  <2>1. CharAt(text, b - 1) = "." /\ b - 1 \in Nat
    <3>1. b - 1 \in Nat /\ a =< b - 1 /\ b - 1 < b
      BY <1>9, <1>12
    <3> QED
      BY <1>2, <3>1, ItemPositions
  <2>2. p + l < b
    <3> SUFFICES ASSUME b =< p + l PROVE FALSE
      BY <1>1
    <3>1. b - 1 \in p..(p + l - 1)
      BY <1>12
    <3> QED
      BY <1>5, <2>1, <3>1
  <2>3. CharAt(text, p + l) \notin Whitespace
    <3>1. p + l \in Nat /\ a =< p + l
      BY <1>1, <1>9
    <3> QED
      BY <1>2, <2>2, <3>1, ItemPositions
  <2> QED
    BY <1>1, <1>2, <1>9, <2>2, <2>3
<1>13. CASE b =< p /\ p < x
  <2>1. p + l =< x
    <3>1. CASE AliasOf(item) = None
      BY <1>7, <1>11, <3>1
    <3>2. CASE AliasOf(item) # None
      <4> SUFFICES ASSUME x < p + l PROVE FALSE
        BY <1>1
      <4>1. x \in p..(p + l - 1)
        BY <1>13
      <4> QED
        BY <1>5, <1>6, <1>8, <3>2, <4>1
    <3> QED
      BY <3>1, <3>2
  <2>2. ASSUME p + l = x \/ CharAt(text, p + l) \in Whitespace
        PROVE  Holds(ExprOf(item), key)
    <3>1. Stands(text, b, ExprOf(item)) /\ ExprOf(item) \in Text /\ key \in Text
      BY <1>2 DEF ItemAt, ItemOK, Keyword
    <3>2. b + Len(ExprOf(item)) =< Len(text)
      BY <1>3, <1>4, TextOK
    <3> QED
      BY <1>1, <1>3, <1>13, <2>1, <2>2, <3>1, <3>2, HoldsWhere
  <2> QED
    BY <1>1, <1>2, <1>3, <1>13, <2>1, <2>2
<1>14. CASE x =< p
  <2>1. AliasOf(item) # None
    BY <1>1, <1>7, <1>11, <1>14
  <2>2. x < p
    <3> SUFFICES ASSUME x = p PROVE FALSE
      BY <1>14
    <3>1. x \in p..(p + l - 1)
      BY <1>1
    <3> QED
      BY <1>5, <1>6, <1>8, <2>1, <3>1
  <2>3. CASE p < c
    <3>1. p + l < c
      <4> SUFFICES ASSUME c =< p + l PROVE FALSE
        BY <1>1
      <4>1. x + 3 \in p..(p + l - 1)
        BY <1>3, <2>3
      <4> QED
        BY <1>5, <1>6, <1>8, <2>1, <4>1
    <3> QED
      BY <1>1, <1>2, <1>3, <2>1, <2>2, <3>1
  <2>4. CASE c =< p
    <3>1. ASSUME p + l = d \/ CharAt(text, p + l) \in Whitespace
          PROVE  Holds(AliasOf(item), key)
      <4>1. Stands(text, c, AliasOf(item)) /\ AliasOf(item) \in Text /\ key \in Text
        BY <1>2, <2>1 DEF ItemAt, ItemOK, Keyword
      <4>2. d = c + Len(AliasOf(item))
        BY <1>2, <2>1, Places
      <4>3. c + Len(AliasOf(item)) =< Len(text)
        BY <1>4, <4>2, TextOK
      <4> QED
        BY <1>1, <1>11, <2>4, <3>1, <4>1, <4>2, <4>3, HoldsWhere
    <3> QED
      BY <1>1, <1>2, <1>11, <2>1, <2>4, <3>1
  <2> QED
    BY <2>3, <2>4
<1> QED
  BY <1>12, <1>13, <1>14

-----------------------------------------------------------------------------
(***************************************************************************)
(* The name of a column.                                                   *)
(***************************************************************************)
\* skip_whitespace stops at the first character that is no white space.
LEMMA SkipOK ==
  ASSUME NEW text \in Text, NEW pos \in Nat, pos =< Len(text)
  PROVE  \E x \in Nat :
           /\ x = skip_whitespace(text, pos) /\ pos =< x /\ x =< Len(text)
           /\ x = Len(text) \/ ~Blank(text, x)
           /\ \A p \in pos..(x - 1) : Blank(text, p)
<1> DEFINE S == {p \in pos..Len(text) : p = Len(text) \/ ~Blank(text, p)}
<1>1. Len(text) \in Nat
  BY TextOK
<1>2. S \subseteq Nat /\ Len(text) \in S
  BY <1>1
<1>3. Min(S) \in S /\ Min(S) \in Nat /\ \A y \in S : Min(S) =< y
  <2> HIDE DEF S
  <2> QED
    BY <1>2, MinIsLeast
<1>4. PICK x \in Nat : x = Min(S) /\ x \in S /\ \A y \in S : x =< y
  BY <1>3
<1>5. ASSUME NEW p \in pos..(x - 1) PROVE Blank(text, p)
  <2> SUFFICES ASSUME ~Blank(text, p) PROVE FALSE
    OBVIOUS
  <2>1. p \in S
    BY <1>1, <1>4
  <2> QED
    BY <1>4, <2>1
<1>6. x = skip_whitespace(text, pos)
  BY <1>4, Zenon DEF skip_whitespace
<1>7. pos =< x /\ x =< Len(text) /\ (x = Len(text) \/ ~Blank(text, x))
  BY <1>1, <1>4
<1> HIDE DEF S
<1> QED
  BY <1>5, <1>6, <1>7

\* trim_bounds leaves out the white space on both sides, and nothing else.
LEMMA TrimOK ==
  ASSUME NEW text \in Text, NEW start \in Nat, NEW end \in Nat, start =< end, end =< Len(text)
  PROVE  \E s, e \in Nat :
           /\ s = trim_bounds(text, start, end)[1] /\ e = trim_bounds(text, start, end)[2]
           /\ start =< s /\ s =< e /\ e =< end
           /\ s = end \/ ~Blank(text, s)
           /\ e = s \/ ~Blank(text, e - 1)
           /\ \A p \in start..(s - 1) : Blank(text, p)
           /\ \A p \in e..(end - 1) : Blank(text, p)
<1> DEFINE S == {p \in start..end : p = end \/ ~Blank(text, p)}
<1>1. S \subseteq Nat /\ end \in S
  OBVIOUS
<1>2. PICK s \in Nat : s = Min(S) /\ s \in S /\ \A y \in S : s =< y
  <2> HIDE DEF S
  <2> QED
    BY <1>1, MinIsLeast
<1> DEFINE T == {p \in s..end : p = s \/ ~Blank(text, p - 1)}
<1>3. T \subseteq 0..end /\ s \in T
  <2>1. s =< end /\ s \in s..end
    BY <1>2
  <2>2. \A p \in s..end : p \in 0..end
    OBVIOUS
  <2> HIDE DEF S
  <2> QED
    BY <2>1, <2>2
<1>4. PICK e \in Nat : e = Max(T) /\ e \in T /\ \A y \in T : e >= y
  <2> HIDE DEF T
  <2> QED
    BY <1>3, MaxIsGreatest
<1>5. trim_bounds(text, start, end) = <<s, e>>
  BY <1>2, <1>4, Zenon DEF trim_bounds
<1>6. ASSUME NEW p \in start..(s - 1) PROVE Blank(text, p)
  <2> SUFFICES ASSUME ~Blank(text, p) PROVE FALSE
    OBVIOUS
  <2>1. p \in S
    BY <1>2
  <2> QED
    BY <1>2, <2>1
<1>7. ASSUME NEW p \in e..(end - 1) PROVE Blank(text, p)
  <2> SUFFICES ASSUME ~Blank(text, p) PROVE FALSE
    OBVIOUS
  <2>1. (p + 1) - 1 = p /\ p + 1 \in s..end
    BY <1>2, <1>4
  <2>2. p + 1 \in T
    BY <2>1
  <2>3. e >= p + 1
    BY <1>4, <2>2
  <2> QED
    BY <2>3
<1>8. <<s, e>>[1] = s /\ <<s, e>>[2] = e
  OBVIOUS
<1>9. start =< s /\ s =< e /\ e =< end /\ (s = end \/ ~Blank(text, s)) /\ (e = s \/ ~Blank(text, e - 1))
  BY <1>2, <1>4
<1> QED
  BY <1>5, <1>6, <1>7, <1>8, <1>9

\* It is determined by that.
LEMMA TrimIs ==
  ASSUME NEW text \in Text, NEW start \in Nat, NEW end \in Nat, end =< Len(text),
         NEW s \in Nat, NEW e \in Nat, start =< s, s < e, e =< end,
         \A p \in start..(s - 1) : Blank(text, p), ~Blank(text, s),
         \A p \in e..(end - 1) : Blank(text, p), ~Blank(text, e - 1)
  PROVE  trim_bounds(text, start, end)[1] = s /\ trim_bounds(text, start, end)[2] = e
<1>1. PICK a, b \in Nat :
           /\ a = trim_bounds(text, start, end)[1] /\ b = trim_bounds(text, start, end)[2]
           /\ start =< a /\ a =< b /\ b =< end
           /\ a = end \/ ~Blank(text, a)
           /\ b = a \/ ~Blank(text, b - 1)
           /\ \A p \in start..(a - 1) : Blank(text, p)
           /\ \A p \in b..(end - 1) : Blank(text, p)
  <2>1. start =< end
    OBVIOUS
  <2> QED
    BY <2>1, TrimOK
<1>2. a = s
  <2>1. ~(a < s)
    <3>1. a < s => a \in start..(s - 1) /\ a # end
      BY <1>1
    <3> QED
      BY <1>1, <3>1
  <2>2. ~(s < a)
    <3>1. s < a => s \in start..(a - 1)
      BY <1>1
    <3> QED
      BY <1>1, <3>1
  <2> QED
    BY <2>1, <2>2
<1>3. b = e
  <2>1. ~(e < b)
    <3>1. e < b => b - 1 \in e..(end - 1) /\ b # a
      BY <1>1, <1>2
    <3> QED
      BY <1>1, <3>1
  <2>2. ~(b < e)
    <3>1. b < e => e - 1 \in b..(end - 1)
      BY <1>1
    <3> QED
      BY <1>1, <3>1
  <2> QED
    BY <2>1, <2>2
<1> QED
  BY <1>1, <1>2, <1>3

\* Where "as" is taken for the keyword.
LEMMA MarkIs ==
  ASSUME NEW text \in Text, NEW s \in Nat, NEW e \in Nat, e =< Len(text)
  PROVE  /\ AliasMarks(text, s, e) \subseteq 0..e
         /\ \A m \in Nat :
              m \in AliasMarks(text, s, e) <=>
                /\ s < m /\ m + 2 =< e /\ Stands(text, m, as)
                /\ m + 2 = e \/ CharAt(text, m + 2) \in Whitespace
<1>1. PICK l \in Nat : l = Len(as) /\ l = 2
  <2>1. 2 \in Nat
    OBVIOUS
  <2> QED
    BY <2>1, KeywordsOK, Zenon
<1>2. as \in Text /\ Len(text) \in Nat
  BY KeywordsOK, TextOK
<1>3. AliasMarks(text, s, e) \subseteq 0..e
  <2>1. AliasMarks(text, s, e) \subseteq (s + 1)..(e - 2)
    BY Zenon DEF AliasMarks
  <2> QED
    BY <2>1
<1>4. ASSUME NEW m \in Nat, m + 2 =< e
      PROVE  SubSeq(text, m + 1, m + 2) = as <=> Stands(text, m, as)
  <2>1. m + Len(as) =< Len(text) /\ m + Len(as) = m + 2
    BY <1>1, <1>2, <1>4
  <2>2. SubSeq(text, m + 1, m + Len(as)) = as <=> Stands(text, m, as)
    BY <1>2, <2>1, PartIsWord
  <2> QED
    BY <2>1, <2>2
<1>5. ASSUME NEW m \in Nat
      PROVE  m \in AliasMarks(text, s, e) <=>
                /\ s < m /\ m + 2 =< e /\ Stands(text, m, as)
                /\ m + 2 = e \/ CharAt(text, m + 2) \in Whitespace
  <2>1. m \in (s + 1)..(e - 2) <=> s < m /\ m + 2 =< e
    OBVIOUS
  <2>2. CASE m + 2 =< e
    <3>1. m + 2 >= e <=> m + 2 = e
      BY <2>2
    <3> QED
      BY <1>4, <2>1, <2>2, <3>1 DEF AliasMarks, Blank
  <2>3. CASE ~(m + 2 =< e)
    <3>1. ~(m \in (s + 1)..(e - 2))
      BY <2>3
    <3> QED
      BY <2>3, <3>1 DEF AliasMarks
  <2> QED
    BY <2>2, <2>3
<1> QED
  BY <1>3, <1>5

\* Where the name of a column begins: behind the last AS, or behind the last dot,
\* or where the column does.
LEMMA ExtractOK ==
  ASSUME NEW text \in Text, NEW s \in Nat, NEW e \in Nat, s < e, e =< Len(text)
  PROVE  \E x \in Nat :
           /\ x = extract_column_name(text, s, e)
           /\ \/ \E m \in Nat :
                   /\ m \in AliasMarks(text, s, e) /\ \A y \in AliasMarks(text, s, e) : y =< m
                   /\ m + 2 =< x /\ x =< Len(text)
                   /\ x = Len(text) \/ ~Blank(text, x)
                   /\ \A p \in (m + 2)..(x - 1) : Blank(text, p)
              \/ /\ AliasMarks(text, s, e) = {} /\ CharAt(text, e - 1) # "."
                 /\ \E d \in Nat : /\ s =< d /\ d + 2 =< e /\ x = d + 1 /\ CharAt(text, d) = "."
                                   /\ \A p \in x..(e - 2) : CharAt(text, p) # "."
              \/ /\ AliasMarks(text, s, e) = {} /\ x = s
                 /\ CharAt(text, e - 1) = "." \/ \A p \in s..(e - 2) : CharAt(text, p) # "."
<1>1. PICK marks, dots : marks = AliasMarks(text, s, e) /\ dots = Dots(text, s, e)
  OBVIOUS
<1>2. extract_column_name(text, s, e) =
        CASE marks # {} -> skip_whitespace(text, LastMark(marks) + 2)
          [] marks = {} /\ CharAt(text, e - 1) # "." /\ dots # {} -> Max(dots) + 1
          [] OTHER -> s
  BY <1>1, Zenon DEF extract_column_name
<1>3. marks \subseteq 0..e /\ dots \subseteq 0..e
  <2>1. marks \subseteq 0..e
    BY <1>1, MarkIs
  <2>2. dots \subseteq s..(e - 2)
    BY <1>1, Zenon DEF Dots
  <2>3. dots \subseteq 0..e
    BY <2>2
  <2> QED
    BY <2>1, <2>3
<1>4. CASE marks # {}
  <2>1. PICK m \in Nat : m = Max(marks) /\ m \in marks /\ \A y \in marks : m >= y
    BY <1>3, <1>4, MaxIsGreatest
  <2>2. m + 2 =< e
    BY <1>1, <2>1, MarkIs
  <2>3. m + 2 \in Nat /\ m + 2 =< Len(text)
    BY <2>2, TextOK
  <2>4. PICK x \in Nat :
           /\ x = skip_whitespace(text, m + 2) /\ m + 2 =< x /\ x =< Len(text)
           /\ x = Len(text) \/ ~Blank(text, x)
           /\ \A p \in (m + 2)..(x - 1) : Blank(text, p)
    BY <2>3, SkipOK
  <2>5. x = extract_column_name(text, s, e)
    BY <1>2, <1>4, <2>1, <2>4, Zenon DEF LastMark
  <2>6. \A y \in marks : y =< m
    BY <1>3, <2>1
  <2> QED
    BY <1>1, <2>1, <2>4, <2>5, <2>6
<1>5. CASE marks = {} /\ CharAt(text, e - 1) # "." /\ dots # {}
  <2>1. PICK d \in Nat : d = Max(dots) /\ d \in dots /\ \A y \in dots : d >= y
    BY <1>3, <1>5, MaxIsGreatest
  <2>2. extract_column_name(text, s, e) = d + 1
    BY <1>2, <1>5, <2>1, Zenon
  <2>3. s =< d /\ d + 2 =< e /\ CharAt(text, d) = "." /\ d + 1 \in Nat
    BY <1>1, <2>1 DEF Dots
  <2>4. ASSUME NEW p \in (d + 1)..(e - 2) PROVE CharAt(text, p) # "."
    <3> SUFFICES ASSUME CharAt(text, p) = "." PROVE FALSE
      OBVIOUS
    <3>1. p \in dots
      BY <1>1, <2>3 DEF Dots
    <3> QED
      BY <2>1, <3>1
  <2> QED
    BY <1>1, <1>5, <2>2, <2>3, <2>4
<1>6. CASE marks = {} /\ ~(CharAt(text, e - 1) # "." /\ dots # {})
  <2>1. extract_column_name(text, s, e) = s
    BY <1>2, <1>6, Zenon
  <2>2. ASSUME dots = {}, NEW p \in s..(e - 2) PROVE CharAt(text, p) # "."
    BY <1>1, <2>2 DEF Dots
  <2> QED
    BY <1>1, <1>6, <2>1, <2>2
<1> QED
  BY <1>4, <1>5, <1>6

\* The name is what stands from there on; a column that is not blank has one,
\* unless what is behind its AS is.
LEMMA ColumnOK ==
  ASSUME NEW text \in Text, NEW start \in Nat, NEW end \in Nat, start =< end, end =< Len(text),
         ColumnBetween(text, start, end) # <<>>
  PROVE  \E s, e, x \in Nat :
           /\ start =< s /\ s < e /\ e =< end
           /\ ~Blank(text, s) /\ ~Blank(text, e - 1)
           /\ \A p \in start..(s - 1) : Blank(text, p)
           /\ \A p \in e..(end - 1) : Blank(text, p)
           /\ x = extract_column_name(text, s, e) /\ x < e
           /\ ColumnBetween(text, start, end) = SubSeq(text, x + 1, e)
<1>1. PICK s, e \in Nat :
           /\ s = trim_bounds(text, start, end)[1] /\ e = trim_bounds(text, start, end)[2]
           /\ start =< s /\ s =< e /\ e =< end
           /\ s = end \/ ~Blank(text, s)
           /\ e = s \/ ~Blank(text, e - 1)
           /\ \A p \in start..(s - 1) : Blank(text, p)
           /\ \A p \in e..(end - 1) : Blank(text, p)
  BY TrimOK
<1>2. ColumnBetween(text, start, end) =
        IF s = e THEN <<>> ELSE SubSeq(text, extract_column_name(text, s, e) + 1, e)
  BY <1>1, Zenon DEF ColumnBetween
<1>3. s # e
  BY <1>2
<1>4. s < e /\ s # end
  BY <1>1, <1>3
<1>5. PICK x \in Nat : x = extract_column_name(text, s, e)
  <2>1. e =< Len(text)
    BY <1>1, TextOK
  <2> QED
    BY <1>4, <2>1, ExtractOK
<1>6. ColumnBetween(text, start, end) = SubSeq(text, x + 1, e)
  BY <1>2, <1>3, <1>5
<1>7. x < e
  <2> SUFFICES ASSUME ~(x < e) PROVE FALSE
    OBVIOUS
  <2>1. e < x + 1 /\ x + 1 \in Int /\ e \in Int
    OBVIOUS
  <2>2. SubSeq(text, x + 1, e) = <<>>
    BY <2>1, SubSeqEmpty
  <2> QED
    BY <1>6, <2>2
<1> QED
  BY <1>1, <1>3, <1>4, <1>5, <1>6, <1>7

\* Every name is a text.
LEMMA ColumnIsText ==
  ASSUME NEW text \in Text, NEW start \in Nat, NEW end \in Nat, start =< end, end =< Len(text)
  PROVE  ColumnBetween(text, start, end) \in Text
<1>1. CASE ColumnBetween(text, start, end) = <<>>
  BY <1>1, EmptySeq DEF Text
<1>2. CASE ColumnBetween(text, start, end) # <<>>
  <2>1. PICK s, e, x \in Nat :
           /\ start =< s /\ s < e /\ e =< end
           /\ x = extract_column_name(text, s, e) /\ x < e
           /\ ColumnBetween(text, start, end) = SubSeq(text, x + 1, e)
    BY <1>2, ColumnOK
  <2>2. e =< Len(text) /\ x =< e
    BY <2>1, TextOK
  <2> QED
    BY <2>1, <2>2, PartOf
<1> QED
  BY <1>1, <1>2

-----------------------------------------------------------------------------
(***************************************************************************)
(* The list of the columns.                                                *)
(***************************************************************************)
\* A position where a column ends, and the name of that column.
Cut(text, last, p) == p = last \/ CharAt(text, p) = Comma
NameAt(text, first, p) == ColumnBetween(text, StartOfColumn(text, first, p), p)

\* A column begins at the first position or behind the last comma.
LEMMA StartOK ==
  ASSUME NEW text \in Text, NEW first \in Nat, NEW p \in Nat, first =< p
  PROVE  \E b \in Nat :
           /\ b = StartOfColumn(text, first, p) /\ first =< b /\ b =< p
           /\ b = first \/ (first < b /\ CharAt(text, b - 1) = Comma)
           /\ \A q \in b..(p - 1) : CharAt(text, q) # Comma
<1> DEFINE S == {first} \cup {q \in (first + 1)..p : CharAt(text, q - 1) = Comma}
<1>1. S \subseteq 0..p /\ S # {}
  <2>1. \A q \in (first + 1)..p : q \in 0..p
    OBVIOUS
  <2>2. first \in 0..p
    OBVIOUS
  <2> QED
    BY <2>1, <2>2
<1>2. PICK b \in Nat : b = Max(S) /\ b \in S /\ \A y \in S : b >= y
  <2> HIDE DEF S
  <2> QED
    BY <1>1, MaxIsGreatest
<1>3. b = StartOfColumn(text, first, p)
  BY <1>2, Zenon DEF StartOfColumn
<1>4. first =< b /\ b =< p /\ (b = first \/ (first < b /\ CharAt(text, b - 1) = Comma))
  BY <1>2
<1>5. ASSUME NEW q \in b..(p - 1) PROVE CharAt(text, q) # Comma
  <2> SUFFICES ASSUME CharAt(text, q) = Comma PROVE FALSE
    OBVIOUS
  <2>1. q + 1 \in (first + 1)..p /\ (q + 1) - 1 = q
    BY <1>4
  <2>2. q + 1 \in S
    BY <2>1
  <2>3. b >= q + 1
    BY <1>2, <2>2
  <2> QED
    BY <2>3
<1> HIDE DEF S
<1> QED
  BY <1>3, <1>4, <1>5

\* So every column has a text for a name.
LEMMA NameAtIsText ==
  ASSUME NEW text \in Text, NEW first \in Nat, NEW p \in Nat, first =< p, p =< Len(text)
  PROVE  NameAt(text, first, p) \in Text
<1>1. PICK b \in Nat : b = StartOfColumn(text, first, p) /\ b =< p
  BY StartOK
<1> QED
  BY <1>1, ColumnIsText DEF NameAt

\* The loop of ReadColumns, one position after the other.
LEMMA ReadSteps ==
  ASSUME NEW text \in Text, NEW first \in Nat \ {0}, NEW last \in Nat,
         first =< last, last =< Len(text)
  PROVE  \E read \in [0..last -> Seq(Text)] :
           /\ ReadColumns(text, first, last) = read[last]
           /\ \A p \in 0..last :
                read[p] = IF p < first THEN <<>>
                          ELSE IF Cut(text, last, p)
                          THEN add_column(read[p - 1], NameAt(text, first, p),
                                          count_max_possible_columns(text))
                          ELSE read[p - 1]
<1>0. PICK places : places = count_max_possible_columns(text)
  OBVIOUS
<1> DEFINE D == 0..last
           V == Seq(Text)
           Body(p, x) == IF p < first THEN <<>>
                         ELSE IF Cut(text, last, p)
                         THEN add_column(x, NameAt(text, first, p), places)
                         ELSE x
           step == [p \in D \ {0} |-> [x \in V |-> Body(p, x)]]
<1>1. D \subseteq Nat /\ 0 \in D /\ \A p \in D : p # 0 => p - 1 \in D
  OBVIOUS
<1>2. <<>> \in V
  BY EmptySeq
<1>3. ASSUME NEW p \in D, NEW x \in V PROVE Body(p, x) \in V
  <2>1. CASE p < first
    BY <1>2, <2>1
  <2>2. CASE ~(p < first)
    <3>1. NameAt(text, first, p) \in Text
      <4>1. p \in Nat /\ first =< p /\ p =< Len(text)
        BY <2>2, TextOK
      <4> QED
        BY <4>1, NameAtIsText
    <3>2. Append(x, NameAt(text, first, p)) \in V
      BY <3>1
    <3>3. add_column(x, NameAt(text, first, p), places) \in {x, Append(x, NameAt(text, first, p))}
      BY Zenon DEF add_column
    <3>4. Body(p, x) \in {x, add_column(x, NameAt(text, first, p), places)}
      BY <2>2, Zenon
    <3> HIDE DEF V, Body
    <3> QED
      BY <3>2, <3>3, <3>4
  <2> QED
    BY <2>1, <2>2
<1>4. step \in [D \ {0} -> [V -> V]]
  <2> HIDE DEF D, V, Body
  <2> QED
    BY <1>3
<1>5. PICK f \in [D -> V] : f[0] = <<>> /\ \A p \in D \ {0} : f[p] = step[p][f[p - 1]]
  <2> HIDE DEF D, V, step
  <2>1. Recursive(D, V, <<>>, step) # {}
    BY <1>1, <1>2, <1>4, Recursion
  <2> QED
    BY <2>1 DEF Recursive
<1>6. ASSUME NEW p \in D PROVE f[p] = Body(p, f[p - 1])
  <2>1. CASE p = 0
    BY <1>5, <2>1
  <2>2. CASE p # 0
    <3>1. p \in D \ {0} /\ f[p - 1] \in V
      BY <1>1, <1>5, <2>2
    <3>2. step[p][f[p - 1]] = Body(p, f[p - 1])
      <4> HIDE DEF D, V, Body
      <4> QED
        BY <3>1
    <3> HIDE DEF D, V, Body, step
    <3> QED
      BY <1>5, <3>1, <3>2
  <2> QED
    BY <2>1, <2>2
<1> HIDE DEF step
<1>7. f = [p \in D |-> Body(p, f[p - 1])]
  <2> HIDE DEF D, V, Body
  <2> QED
    BY <1>5, <1>6
<1>8. PICK g : /\ g = [p \in D |-> Body(p, g[p - 1])]
               /\ ReadColumns(text, first, last) = g[last]
  <2>1. \E g : g = [p \in 0..last |->
                      IF p < first THEN <<>>
                      ELSE IF p = last \/ CharAt(text, p) = Comma
                      THEN add_column(g[p - 1],
                             ColumnBetween(text, StartOfColumn(text, first, p), p),
                             count_max_possible_columns(text))
                      ELSE g[p - 1]]
    BY <1>0, <1>7, Zenon DEF Cut, NameAt
  <2> QED
    BY <1>0, <2>1, Zenon DEF ReadColumns, Cut, NameAt
<1>9. ASSUME NEW p \in D PROVE g[p] = Body(p, g[p - 1])
  <2> HIDE DEF D, Body
  <2> QED
    BY <1>8
<1>10. D \subseteq {p \in D : g[p] = f[p]}
  <2> DEFINE S == {p \in D : g[p] = f[p]}
  <2>1. 0 \in S
    <3>1. Body(0, g[0 - 1]) = <<>>
      OBVIOUS
    <3> HIDE DEF Body
    <3> QED
      BY <1>1, <1>5, <1>9, <3>1
  <2>2. ASSUME NEW p \in D, p # 0 PROVE p - 1 \in D /\ (p - 1 \in S => p \in S)
    <3> HIDE DEF D, Body
    <3> QED
      BY <1>1, <1>6, <1>9, <2>2
  <2> HIDE DEF D, S
  <2>3. D \subseteq S
    BY <1>1, <2>1, <2>2, Induction
  <2> QED
    BY <2>3 DEF S
<1>11. ReadColumns(text, first, last) = f[last]
  <2>1. last \in D
    OBVIOUS
  <2> HIDE DEF D, Body
  <2> QED
    BY <1>8, <1>10, <2>1
<1>12. \A p \in 0..last :
         f[p] = IF p < first THEN <<>>
                ELSE IF Cut(text, last, p)
                THEN add_column(f[p - 1], NameAt(text, first, p), count_max_possible_columns(text))
                ELSE f[p - 1]
  BY <1>0, <1>6, Zenon
<1> QED
  BY <1>5, <1>11, <1>12

\* The commas among the first p + 1 characters.
CommasUpTo(text, p) == {q \in 1..Len(text) : q =< p + 1 /\ text[q] = Comma}

\* Every comma adds one to them.
LEMMA CommasCounted ==
  ASSUME NEW text \in Text
  PROVE  \E count \in [0..Len(text) -> Nat], places \in Nat :
           /\ places = count_max_possible_columns(text)
           /\ \A p \in 0..Len(text) : count[p] < places
           /\ \A p \in 1..Len(text) :
                /\ count[p - 1] =< count[p]
                /\ p < Len(text) /\ CharAt(text, p) = Comma => count[p] = count[p - 1] + 1
           /\ 0 < Len(text) /\ CharAt(text, 0) = Comma => count[0] = 1
<1> DEFINE n == Len(text)
           all == {q \in 1..n : text[q] = Comma}
<1>1. n \in Nat
  BY TextOK
<1>2. IsFiniteSet(all) /\ Cardinality(all) \in Nat
  <2>1. IsFiniteSet(1..n)
    BY <1>1, FS_Interval
  <2>2. all \in SUBSET (1..n)
    OBVIOUS
  <2> HIDE DEF all
  <2> QED
    BY <2>1, <2>2, FS_Subset, FS_CardinalityType
<1>3. ASSUME NEW p \in 0..n
      PROVE  /\ IsFiniteSet(CommasUpTo(text, p)) /\ Cardinality(CommasUpTo(text, p)) \in Nat
             /\ Cardinality(CommasUpTo(text, p)) =< Cardinality(all)
  <2>1. CommasUpTo(text, p) \in SUBSET all
    BY DEF CommasUpTo
  <2> HIDE DEF all
  <2> QED
    BY <1>2, <2>1, FS_Subset, FS_CardinalityType
<1>4. ASSUME NEW p \in 1..n
      PROVE  /\ Cardinality(CommasUpTo(text, p - 1)) =< Cardinality(CommasUpTo(text, p))
             /\ p < n /\ CharAt(text, p) = Comma =>
                  Cardinality(CommasUpTo(text, p)) = Cardinality(CommasUpTo(text, p - 1)) + 1
  <2>1. p \in 0..n /\ p - 1 \in 0..n
    BY <1>1
  <2>2. CommasUpTo(text, p - 1) \in SUBSET CommasUpTo(text, p)
    BY DEF CommasUpTo
  <2>3. Cardinality(CommasUpTo(text, p - 1)) =< Cardinality(CommasUpTo(text, p))
    BY <1>3, <2>1, <2>2, FS_Subset
  <2>4. ASSUME p < n, CharAt(text, p) = Comma
        PROVE  Cardinality(CommasUpTo(text, p)) = Cardinality(CommasUpTo(text, p - 1)) + 1
    <3>1. p + 1 \in 1..n /\ text[p + 1] = Comma
      BY <1>1, <2>4 DEF CharAt
    <3>2. CommasUpTo(text, p) = CommasUpTo(text, p - 1) \cup {p + 1}
      BY <3>1 DEF CommasUpTo
    <3>3. p + 1 \notin CommasUpTo(text, p - 1)
      BY DEF CommasUpTo
    <3> QED
      BY <1>3, <2>1, <3>2, <3>3, FS_AddElement
  <2> QED
    BY <2>3, <2>4
<1>5. ASSUME 0 < n, CharAt(text, 0) = Comma PROVE Cardinality(CommasUpTo(text, 0)) = 1
  <2>1. 0 + 1 = 1 /\ 1 \in 1..n /\ text[1] = Comma
    BY <1>1, <1>5 DEF CharAt
  <2>2. CommasUpTo(text, 0) = {} \cup {1}
    BY <2>1 DEF CommasUpTo
  <2> QED
    BY <2>2, FS_EmptySet, FS_AddElement
<1> DEFINE count == [p \in 0..n |-> Cardinality(CommasUpTo(text, p))]
           places == 1 + Cardinality(all)
<1>6. places = count_max_possible_columns(text)
  BY Zenon DEF count_max_possible_columns
<1> HIDE DEF all
<1>7. count \in [0..n -> Nat] /\ places \in Nat /\ \A p \in 0..n : count[p] < places
  <2>1. \A p \in 0..n : /\ Cardinality(CommasUpTo(text, p)) \in Nat
                        /\ Cardinality(CommasUpTo(text, p)) < places
    BY <1>2, <1>3
  <2> QED
    BY <1>2, <2>1
<1>8. \A p \in 1..n : /\ count[p - 1] =< count[p]
                      /\ p < n /\ CharAt(text, p) = Comma => count[p] = count[p - 1] + 1
  <2> TAKE p \in 1..n
  <2>1. p \in 0..n /\ p - 1 \in 0..n
    BY <1>1
  <2> QED
    BY <1>4, <2>1
<1>9. 0 < n /\ CharAt(text, 0) = Comma => count[0] = 1
  BY <1>1, <1>5
<1> HIDE DEF count, places
<1> QED
  BY <1>6, <1>7, <1>8, <1>9

\* There is a place for every column, though the commas are counted before the
\* columns are known: of the columns up to a comma there are no more than commas.
LEMMA ReadNames ==
  ASSUME NEW text \in Text, NEW first \in Nat \ {0}, NEW last \in Nat,
         first =< last, last =< Len(text)
  PROVE  \E read \in [0..last -> Seq(Text)] :
           /\ ReadColumns(text, first, last) = read[last]
           /\ \A p \in 0..last :
                /\ p < first => read[p] = <<>>
                /\ first =< p =>
                     read[p] = IF Cut(text, last, p) /\ NameAt(text, first, p) # <<>>
                               THEN Append(read[p - 1], NameAt(text, first, p))
                               ELSE read[p - 1]
<1>0. PICK count \in [0..Len(text) -> Nat], places \in Nat :
        /\ places = count_max_possible_columns(text)
        /\ \A p \in 0..Len(text) : count[p] < places
        /\ \A p \in 1..Len(text) :
             /\ count[p - 1] =< count[p]
             /\ p < Len(text) /\ CharAt(text, p) = Comma => count[p] = count[p - 1] + 1
  BY CommasCounted
<1>1. PICK read \in [0..last -> Seq(Text)] :
        /\ ReadColumns(text, first, last) = read[last]
        /\ \A p \in 0..last :
             read[p] = IF p < first THEN <<>>
                       ELSE IF Cut(text, last, p)
                       THEN add_column(read[p - 1], NameAt(text, first, p), places)
                       ELSE read[p - 1]
  <2>1. PICK c : c = count_max_possible_columns(text)
    OBVIOUS
  <2>2. \E read \in [0..last -> Seq(Text)] :
          /\ ReadColumns(text, first, last) = read[last]
          /\ \A p \in 0..last :
               read[p] = IF p < first THEN <<>>
                         ELSE IF Cut(text, last, p)
                         THEN add_column(read[p - 1], NameAt(text, first, p), c)
                         ELSE read[p - 1]
    <3>1. PICK read \in [0..last -> Seq(Text)] :
            /\ ReadColumns(text, first, last) = read[last]
            /\ \A p \in 0..last :
                 read[p] = IF p < first THEN <<>>
                           ELSE IF Cut(text, last, p)
                           THEN add_column(read[p - 1], NameAt(text, first, p),
                                           count_max_possible_columns(text))
                           ELSE read[p - 1]
      BY ReadSteps
    <3> QED
      BY <2>1, <3>1, Zenon
  <2>3. c = places
    BY <1>0, <2>1
  <2> QED
    BY <2>2, <2>3
<1>2. Len(text) \in Nat
  BY TextOK
<1>3. ASSUME NEW p \in 0..last, first =< p
      PROVE  /\ p - 1 \in 0..last /\ read[p - 1] \in Seq(Text) /\ Len(read[p - 1]) \in Nat
             /\ NameAt(text, first, p) \in Text
             /\ p \in 1..Len(text) /\ p - 1 \in 0..Len(text) /\ p \in 0..Len(text)
  <2>1. /\ p - 1 \in 0..last /\ p \in 1..Len(text) /\ p - 1 \in 0..Len(text) /\ p \in 0..Len(text)
        /\ p \in Nat /\ p =< Len(text)
    BY <1>2, <1>3
  <2>2. read[p - 1] \in Seq(Text)
    BY <2>1
  <2> QED
    BY <1>3, <2>1, <2>2, NameAtIsText, LenProperties
<1>4. ASSUME NEW p \in 0..last, first =< p
      PROVE  read[p] \in {read[p - 1], Append(read[p - 1], NameAt(text, first, p))}
  <2>1. ~(p < first)
    BY <1>4
  <2> QED
    BY <1>1, <2>1, Zenon DEF add_column
<1>5. ASSUME NEW p \in 0..last, first =< p, ~Cut(text, last, p) PROVE read[p] = read[p - 1]
  <2>1. ~(p < first)
    BY <1>5
  <2> QED
    BY <1>1, <1>5, <2>1, Zenon
<1>6. \A p \in 0..last : p < last => Len(read[p]) =< count[p]
  <2> DEFINE D == 0..last
             S == {p \in D : p < last => Len(read[p]) =< count[p]}
  <2>1. 0 \in D => 0 \in S
    <3>1. read[0] = <<>>
      <4>1. 0 \in 0..last /\ 0 < first
        OBVIOUS
      <4> QED
        BY <1>1, <4>1, Zenon
    <3>2. count[0] \in Nat
      <4>1. 0 \in 0..Len(text)
        BY <1>2
      <4> QED
        BY <1>0, <4>1, Zenon
    <3>3. Len(read[0]) = 0
      BY <3>1, EmptySeq
    <3>4. Len(read[0]) =< count[0]
      BY <3>2, <3>3
    <3> QED
      BY <3>4
  <2>2. ASSUME NEW p \in D, p # 0 PROVE p - 1 \in D /\ (p - 1 \in S => p \in S)
    <3>1. p - 1 \in D /\ p \in 0..Len(text) /\ p - 1 \in 0..Len(text) /\ p \in 1..Len(text)
      BY <1>2, <2>2
    <3> SUFFICES ASSUME p - 1 \in S, p < last PROVE Len(read[p]) =< count[p]
      BY <3>1
    <3>2. Len(read[p - 1]) =< count[p - 1]
      BY <2>2
    <3>3. CASE p < first
      <4>1. read[p] = <<>> /\ count[p] \in Nat
        BY <1>1, <3>1, <3>3
      <4> QED
        BY <4>1, EmptySeq
    <3>4. CASE first =< p
      <4>1. Len(read[p - 1]) \in Nat /\ count[p] \in Nat /\ count[p - 1] \in Nat
        BY <1>3, <3>1, <3>4
      <4>2. count[p - 1] =< count[p]
        BY <1>0, <3>1
      <4>3. CASE Cut(text, last, p)
        <5>1. CharAt(text, p) = Comma
          BY <4>3 DEF Cut
        <5>2. p < Len(text)
          BY <1>2
        <5>3. count[p] = count[p - 1] + 1
          BY <1>0, <3>1, <5>1, <5>2
        <5>4. Len(Append(read[p - 1], NameAt(text, first, p))) = Len(read[p - 1]) + 1
          BY <1>3, <3>4, AppendProperties
        <5>5. Len(read[p]) = Len(read[p - 1]) \/ Len(read[p]) = Len(read[p - 1]) + 1
          BY <1>4, <3>4, <5>4
        <5>6. PICK a \in Nat, b \in Nat, d \in Nat :
                a = Len(read[p - 1]) /\ b = count[p - 1] /\ d = count[p]
          BY <4>1
        <5> HIDE DEF S, D
        <5>7. a =< b /\ d = b + 1
          BY <3>2, <5>3, <5>6
        <5>8. a =< d /\ a + 1 =< d
          BY <5>7
        <5> QED
          BY <5>5, <5>6, <5>8
      <4>4. CASE ~Cut(text, last, p)
        <5>1. read[p] = read[p - 1]
          BY <1>5, <3>4, <4>4
        <5> HIDE DEF S, D
        <5> QED
          BY <3>2, <4>1, <4>2, <5>1
      <4> QED
        BY <4>3, <4>4
    <3> QED
      BY <3>3, <3>4
  <2>3. D \subseteq S
    <3>1. D \subseteq Nat
      OBVIOUS
    <3> HIDE DEF D, S
    <3> QED
      BY <2>1, <2>2, <3>1, Induction
  <2> QED
    BY <2>3
<1>7. ASSUME NEW p \in 0..last, first =< p
      PROVE  read[p] = IF Cut(text, last, p) /\ NameAt(text, first, p) # <<>>
                       THEN Append(read[p - 1], NameAt(text, first, p))
                       ELSE read[p - 1]
  <2>1. Len(read[p - 1]) =< count[p - 1]
    <3>1. p - 1 \in 0..last /\ p - 1 < last
      BY <1>7
    <3> QED
      BY <1>6, <3>1
  <2>2. ~(Len(read[p - 1]) >= places)
    <3>1. count[p - 1] < places /\ count[p - 1] \in Nat /\ Len(read[p - 1]) \in Nat
      BY <1>0, <1>3, <1>7
    <3> QED
      BY <2>1, <3>1
  <2>3. ~(p < first)
    BY <1>7
  <2> QED
    BY <1>1, <2>2, <2>3, Zenon DEF add_column
<1> QED
  BY <1>1, <1>7

-----------------------------------------------------------------------------
(***************************************************************************)
(* Where the list of columns begins and ends.                              *)
(***************************************************************************)
\* A keyword at a position of a text, with white space or nothing behind it.
KeywordAt(text, key, p) ==
  /\ p + Len(key) =< Len(text) /\ Stands(text, p, key)
  /\ p + Len(key) = Len(text) \/ CharAt(text, p + Len(key)) \in Whitespace

\* That is what find_keyword looks for.
LEMMA MatchIs ==
  ASSUME NEW text \in Text, NEW key \in Text, NEW p \in Nat, p + Len(key) =< Len(text)
  PROVE  MatchesAt(text, key, p) <=> KeywordAt(text, key, p)
<1>1. Len(text) \in Nat /\ Len(key) \in Nat
  BY TextOK
<1>2. SubSeq(text, p + 1, p + Len(key)) = key <=> Stands(text, p, key)
  BY PartIsWord
<1>3. p + Len(key) >= Len(text) <=> p + Len(key) = Len(text)
  BY <1>1
<1> QED
  BY <1>2, <1>3, Zenon DEF MatchesAt, KeywordAt, Blank

\* find_keyword finds the first.
LEMMA FindOK ==
  ASSUME NEW text \in Text, NEW key \in Text, NEW start \in Nat
  PROVE  \/ /\ find_keyword(text, key, start) = NotFound
            /\ \A p \in Nat : start =< p => ~KeywordAt(text, key, p)
         \/ \E hit \in Nat :
              /\ find_keyword(text, key, start) = hit + Len(key)
              /\ start =< hit /\ KeywordAt(text, key, hit)
              /\ \A p \in Nat : start =< p /\ p < hit => ~KeywordAt(text, key, p)
<1> DEFINE S == {i \in start..(Len(text) - Len(key)) : MatchesAt(text, key, i)}
<1>1. Len(text) \in Nat /\ Len(key) \in Nat
  BY TextOK
<1>2. find_keyword(text, key, start) = IF S = {} THEN NotFound ELSE Min(S) + Len(key)
  BY Zenon DEF find_keyword
<1>3. ASSUME NEW p \in Nat, start =< p
      PROVE  p \in S <=> KeywordAt(text, key, p)
  <2>1. CASE p + Len(key) =< Len(text)
    <3>1. p \in start..(Len(text) - Len(key))
      BY <1>1, <1>3, <2>1
    <3> QED
      BY <2>1, <3>1, MatchIs
  <2>2. CASE ~(p + Len(key) =< Len(text))
    <3>1. p \notin start..(Len(text) - Len(key))
      BY <1>1, <2>2
    <3> QED
      BY <2>2, <3>1 DEF KeywordAt
  <2> QED
    BY <2>1, <2>2
<1>4. S \subseteq Nat /\ \A p \in S : start =< p
  OBVIOUS
<1> HIDE DEF S
<1>5. CASE S = {}
  BY <1>2, <1>3, <1>5
<1>6. CASE S # {}
  <2>1. PICK hit \in Nat : hit = Min(S) /\ hit \in S /\ \A y \in S : hit =< y
    BY <1>4, <1>6, MinIsLeast
  <2>2. ASSUME NEW p \in Nat, start =< p, p < hit PROVE ~KeywordAt(text, key, p)
    BY <1>3, <2>1, <2>2
  <2>3. find_keyword(text, key, start) = hit + Len(key)
    BY <1>2, <1>6, <2>1
  <2> QED
    BY <1>3, <1>4, <2>1, <2>2, <2>3
<1> QED
  BY <1>5, <1>6

\* EndOfColumns is the first FROM, or the end.
LEMMA EndOK ==
  ASSUME NEW text \in Text, NEW start \in Nat, start =< Len(text)
  PROVE  \E e \in Nat :
           /\ e = EndOfColumns(text, start) /\ start =< e /\ e =< Len(text)
           /\ e = Len(text) \/ KeywordAt(text, from, e)
           /\ \A p \in Nat : start =< p /\ p < e => ~KeywordAt(text, from, p)
<1>1. Len(text) \in Nat /\ from \in Text /\ Len(from) = 4
  BY TextOK, KeywordsOK
<1>2. CASE /\ find_keyword(text, from, start) = NotFound
           /\ \A p \in Nat : start =< p => ~KeywordAt(text, from, p)
  <2>1. EndOfColumns(text, start) = Len(text)
    BY <1>2, Zenon DEF EndOfColumns
  <2> QED
    BY <1>1, <1>2, <2>1
<1>3. CASE \E hit \in Nat :
              /\ find_keyword(text, from, start) = hit + Len(from)
              /\ start =< hit /\ KeywordAt(text, from, hit)
              /\ \A p \in Nat : start =< p /\ p < hit => ~KeywordAt(text, from, p)
  <2>1. PICK hit \in Nat :
              /\ find_keyword(text, from, start) = hit + Len(from)
              /\ start =< hit /\ KeywordAt(text, from, hit)
              /\ \A p \in Nat : start =< p /\ p < hit => ~KeywordAt(text, from, p)
    BY <1>3
  <2>2. find_keyword(text, from, start) # NotFound
    BY <1>1, <2>1 DEF NotFound
  <2>3. PICK f \in Nat, l \in Nat :
          f = find_keyword(text, from, start) /\ l = Len(from) /\ f = hit + l
    BY <1>1, <2>1
  <2>4. EndOfColumns(text, start) = hit
    <3>1. EndOfColumns(text, start) = f - l
      BY <2>2, <2>3, Zenon DEF EndOfColumns
    <3>2. f - l = hit
      BY <2>3
    <3> QED
      BY <3>1, <3>2
  <2>5. hit =< Len(text)
    <3>1. hit + 4 =< Len(text)
      BY <1>1, <2>1 DEF KeywordAt
    <3> QED
      BY <1>1, <3>1
  <2> QED
    BY <2>1, <2>4, <2>5
<1> QED
  BY <1>1, <1>2, <1>3, FindOK

\* An item has white space on both sides of it, and none at its ends.
LEMMA ItemEdges ==
  ASSUME NEW text \in Text, NEW pos \in Nat, NEW item, ItemOK(item), ItemAt(text, pos, item)
  PROVE  /\ ~Blank(text, AtTable(pos, item)) /\ ~Blank(text, AtEnd(pos, item) - 1)
         /\ \A p \in Nat : pos =< p /\ p < AtTable(pos, item) => Blank(text, p)
         /\ \A p \in Nat : AtEnd(pos, item) =< p /\ p < AtSpace(pos, item) => Blank(text, p)
<1>1. /\ AtTable(pos, item) \in Nat /\ AtExpr(pos, item) \in Nat /\ AtAlias(pos, item) \in Nat
      /\ AtEnd(pos, item) \in Nat /\ Len(ExprOf(item)) \in Nat /\ Len(ExprOf(item)) >= 1
  <2>1. Len(ExprOf(item)) \in Nat \ {0}
    BY Zenon DEF ItemOK
  <2> QED
    BY <2>1, Places
<1>2. /\ AtTable(pos, item) =< AtExpr(pos, item)
      /\ AtExpr(pos, item) + 1 =< AtEnd(pos, item)
  BY Places
<1>3. ExprOf(item)[1] \notin Whitespace /\ ExprOf(item)[Len(ExprOf(item))] \notin Whitespace
  BY DEF ItemOK
<1>4. ~Blank(text, AtTable(pos, item))
  <2>1. CASE AtTable(pos, item) < AtExpr(pos, item)
    BY <1>1, <2>1, ItemPositions DEF Blank
  <2>2. CASE AtTable(pos, item) = AtExpr(pos, item)
    <3>1. PICK p \in Nat : p = AtExpr(pos, item)
      BY <1>1
    <3>2. p < p + Len(ExprOf(item)) /\ p =< p /\ p - p + 1 = 1
      BY <1>1
    <3>3. CharAt(text, p) = ExprOf(item)[p - p + 1]
      BY <3>1, <3>2, ItemPositions
    <3> QED
      BY <1>3, <2>2, <3>1, <3>2, <3>3 DEF Blank
  <2> QED
    BY <1>1, <1>2, <2>1, <2>2
<1>5. ~Blank(text, AtEnd(pos, item) - 1)
  <2>1. CASE AliasOf(item) = None
    <3>1. PICK p \in Nat, l \in Nat : p = AtExpr(pos, item) /\ l = Len(ExprOf(item)) /\ l >= 1
      BY <1>1
    <3>2. AtEnd(pos, item) = p + l
      BY <2>1, <3>1, Places
    <3>3. PICK q \in Nat : q = p + l - 1 /\ p =< q /\ q < p + l /\ q - p + 1 = l
      <4>1. /\ p + l - 1 \in Nat /\ (p + l - 1) - p + 1 = l
            /\ p =< p + l - 1 /\ p + l - 1 < p + l
        BY <3>1
      <4> QED
        BY <4>1, Zenon
    <3>4. CharAt(text, q) = ExprOf(item)[q - p + 1]
      <4>1. AtExpr(pos, item) =< q /\ q < AtExpr(pos, item) + Len(ExprOf(item))
        BY <3>1, <3>3
      <4> QED
        BY <3>1, <4>1, ItemPositions
    <3>5. CharAt(text, q) \notin Whitespace
      BY <1>3, <3>1, <3>3, <3>4
    <3>6. AtEnd(pos, item) - 1 = q
      BY <3>1, <3>2, <3>3
    <3> QED
      BY <3>5, <3>6 DEF Blank
  <2>2. CASE AliasOf(item) # None
    <3>1. PICK a \in Nat, e \in Nat : a = AtAlias(pos, item) /\ e = AtEnd(pos, item)
      BY <1>1
    <3>2. Len(AliasOf(item)) \in Nat /\ Len(AliasOf(item)) # 0
      BY <2>2 DEF ItemOK
    <3>3. e = a + Len(AliasOf(item))
      BY <2>2, <3>1, Places
    <3>4. e - 1 \in Nat /\ a =< e - 1 /\ e - 1 < e
      BY <3>1, <3>2, <3>3
    <3> QED
      BY <2>2, <3>1, <3>4, ItemPositions DEF Blank
  <2> QED
    BY <2>1, <2>2
<1>6. ASSUME NEW p \in Nat
      PROVE  /\ pos =< p /\ p < AtTable(pos, item) => Blank(text, p)
             /\ AtEnd(pos, item) =< p /\ p < AtSpace(pos, item) => Blank(text, p)
  BY ItemPositions DEF Blank
<1> QED
  BY <1>4, <1>5, <1>6

\* The list of columns begins at the table, or the expression, of the first item.
LEMMA FirstIs ==
  ASSUME Made, NEW at, Laid(at)
  PROVE  \E first \in Nat \ {0} :
           /\ first = AtTable(at[1], items[1]) /\ first =< at[2] - 1 /\ 7 =< first
           /\ first =< Len(query)
           /\ parse_select_columns(query) = ReadColumns(query, first, EndOfColumns(query, first))
<1>1. 1 \in 1..Len(items) /\ 1 + 1 = 2
  BY DEF Made
<1>2. /\ query \in Text /\ Len(query) \in Nat /\ ItemOK(items[1]) /\ ItemAt(query, at[1], items[1])
      /\ at[1] \in Nat /\ at[2] \in Nat /\ AtSpace(at[1], items[1]) = at[2] - 1 /\ at[1] = 7
  BY <1>1, LaidOK, LaidInOrder
<1>3. PICK first \in Nat : first = AtTable(at[1], items[1])
  BY <1>2, Places
<1>4. 7 =< first /\ first =< at[2] - 1
  <2>1. at[1] =< first
    BY <1>2, <1>3, Places
  <2>2. /\ AtTable(at[1], items[1]) =< AtExpr(at[1], items[1])
        /\ AtExpr(at[1], items[1]) + 1 =< AtEnd(at[1], items[1])
        /\ AtEnd(at[1], items[1]) =< AtSpace(at[1], items[1])
        /\ AtExpr(at[1], items[1]) \in Nat /\ AtEnd(at[1], items[1]) \in Nat
    BY <1>2, Places
  <2> QED
    BY <1>2, <1>3, <2>1, <2>2
<1>5. at[2] =< Len(query)
  <2>1. 2 =< Len(items) + 1 /\ 2 \in 1..(Len(items) + 1) /\ Len(items) + 1 \in 1..(Len(items) + 1)
    BY DEF Made
  <2>2. at[2] =< at[Len(items) + 1] /\ at[Len(items) + 1] =< Len(query)
        /\ at[Len(items) + 1] \in Nat
    BY <2>1, LaidInOrder
  <2> QED
    BY <1>2, <2>2
<1>6. first =< Len(query) /\ 7 =< Len(query)
  BY <1>2, <1>4, <1>5
<1>7. Blank(query, 6)
  <2>1. PICK blank : blank = <<Space>>
    OBVIOUS
  <2>2. blank \in Text /\ Len(blank) = 1 /\ blank[1] = Space
    BY <2>1, KeywordsOK
  <2>3. Stands(query, 6, blank)
    BY <2>1, Zenon DEF Laid
  <2>6. PICK l \in Nat : l = Len(blank) /\ l = 1
    <3>1. 1 \in Nat
      OBVIOUS
    <3> QED
      BY <2>2, <3>1, Zenon
  <2>7. 6 + Len(blank) =< Len(query) /\ 6 < 6 + Len(blank) /\ 6 =< 6 /\ 6 \in Nat
    BY <1>2, <1>6, <2>6
  <2>8. query \in Text
    BY <1>2
  <2>9. blank \in Text
    BY <2>2
  <2>4. CharAt(query, 6) = blank[6 - 6 + 1]
    BY <2>3, <2>7, <2>8, <2>9, WordChars
  <2>5. 6 - 6 + 1 = 1
    OBVIOUS
  <2> QED
    BY <2>2, <2>4, <2>5, MarksDiffer DEF Blank
<1>8. KeywordAt(query, select, 0)
  <2>1. select \in Text /\ Len(select) = 6 /\ 0 + 6 = 6 /\ 0 + 6 =< Len(query)
    BY <1>2, <1>6, KeywordsOK
  <2>2. Stands(query, 0, select)
    BY Zenon DEF Laid
  <2> QED
    BY <1>7, <2>1, <2>2, Zenon DEF KeywordAt, Blank
<1>9. find_keyword(query, select, 0) = 6
  <2>1. select \in Text /\ Len(select) = 6
    BY KeywordsOK
  <2>2. PICK hit \in Nat :
              /\ find_keyword(query, select, 0) = hit + Len(select)
              /\ \A p \in Nat : 0 =< p /\ p < hit => ~KeywordAt(query, select, p)
    <3>1. query \in Text /\ 0 \in Nat
      BY <1>2
    <3>2. ~(\A p \in Nat : 0 =< p => ~KeywordAt(query, select, p))
      BY <1>8
    <3>3. select \in Text
      BY <2>1
    <3> QED
      BY <3>1, <3>2, <3>3, FindOK
  <2>3. hit = 0
    BY <1>8, <2>2
  <2> QED
    BY <2>1, <2>2, <2>3
<1>10. skip_whitespace(query, 6) = first
  <2>1. PICK x \in Nat :
           /\ x = skip_whitespace(query, 6) /\ 6 =< x /\ x =< Len(query)
           /\ x = Len(query) \/ ~Blank(query, x)
           /\ \A p \in 6..(x - 1) : Blank(query, p)
    <3>1. query \in Text /\ 6 \in Nat
      BY <1>2
    <3>2. 6 =< Len(query)
      BY <1>2, <1>6
    <3> QED
      BY <3>1, <3>2, SkipOK
  <2>2. ~Blank(query, first) /\ \A p \in Nat : 7 =< p /\ p < first => Blank(query, p)
    BY <1>2, <1>3, ItemEdges
  <2>3. \A p \in Nat : 6 =< p /\ p < first => Blank(query, p)
    BY <1>7, <2>2
  <2>4. ~(first < x)
    <3>1. first < x => first \in 6..(x - 1)
      BY <1>4
    <3> QED
      BY <2>1, <2>2, <3>1
  <2>5. ~(x < first)
    <3>1. x < first => x # Len(query)
      BY <1>2, <1>6
    <3> QED
      BY <2>1, <2>3, <3>1
  <2>6. x = first
    BY <2>4, <2>5
  <2> QED
    BY <2>1, <2>6
<1>11. parse_select_columns(query) = ReadColumns(query, first, EndOfColumns(query, first))
  <2>1. 6 # NotFound
    BY DEF NotFound
  <2> QED
    BY <1>9, <1>10, <2>1, Zenon DEF parse_select_columns
<1>12. first \in Nat \ {0}
  BY <1>4
<1> QED
  BY <1>3, <1>4, <1>6, <1>11, <1>12

\* The text behind the list is empty, or it begins with FROM.
LEMMA TailFrom ==
  ASSUME Made, NEW at, Laid(at), Len(tail) # 0
  PROVE  KeywordAt(query, from, at[Len(items) + 1])
<1>1. /\ query \in Text /\ at[Len(items) + 1] \in Nat
      /\ Len(query) = at[Len(items) + 1] + Len(tail) /\ Len(query) \in Nat
  <2>1. 1 \in 1..Len(items)
    BY DEF Made
  <2> QED
    BY <2>1, LaidOK, LaidInOrder
<1>2. PICK a \in Nat : a = at[Len(items) + 1]
  BY <1>1
<1>3. /\ tail \in Text /\ Len(tail) \in Nat /\ Len(tail) >= 4 /\ SubSeq(tail, 1, 4) = from
      /\ Len(tail) > 4 => tail[5] \in Whitespace
  <2>1. tail \in Text /\ Len(tail) \in Nat /\ tail \in Tails
    BY DEF Made
  <2>2. tail # None
    BY KeywordsOK
  <2> QED
    BY <2>1, <2>2, QueryAssumption
<1>4. Stands(query, a, tail)
  BY <1>2, Zenon DEF Laid
<1>5. from \in Text /\ Len(from) = 4
  BY KeywordsOK
<1>6. Stands(tail, 0, from)
  <2>1. 0 + Len(from) =< Len(tail) /\ 0 + Len(from) = 4 /\ 0 + 1 = 1
    BY <1>3, <1>5
  <2>2. SubSeq(tail, 0 + 1, 0 + Len(from)) = from
    BY <1>3, <2>1
  <2> QED
    BY <1>3, <1>5, <2>1, <2>2, PartIsWord
<1>7. Stands(query, a, from)
  <2>1. tail \in Text /\ from \in Text /\ 0 \in Nat
    BY <1>3, <1>5
  <2>2. 0 + Len(from) =< Len(tail)
    BY <1>3, <1>5
  <2>3. Stands(query, a + 0, from)
    BY <1>4, <1>6, <2>1, <2>2, StandsWithin
  <2> QED
    BY <2>3
<1>8. a + 4 = Len(query) \/ CharAt(query, a + 4) \in Whitespace
  <2>1. ASSUME a + 4 # Len(query) PROVE CharAt(query, a + 4) \in Whitespace
    <3>1. Len(tail) > 4 /\ a + Len(tail) =< Len(query) /\ a =< a + 4 /\ a + 4 < a + Len(tail)
          /\ (a + 4) - a + 1 = 5 /\ a + 4 \in Nat
      <4>1. PICK lt \in Nat, lq \in Nat : lt = Len(tail) /\ lq = Len(query)
        BY <1>1, <1>3
      <4>2. lq = a + lt /\ lt >= 4 /\ a + 4 # lq
        BY <1>1, <1>2, <1>3, <2>1, <4>1
      <4>3. lt > 4 /\ a + lt =< lq /\ a =< a + 4 /\ a + 4 < a + lt /\ (a + 4) - a + 1 = 5 /\ a + 4 \in Nat
        BY <4>2
      <4> QED
        BY <4>1, <4>3
    <3>2. CharAt(query, a + 4) = tail[(a + 4) - a + 1]
      BY <1>1, <1>3, <1>4, <3>1, WordChars
    <3> QED
      BY <1>3, <3>1, <3>2
  <2> QED
    BY <2>1
<1>9. a + 4 =< Len(query)
  BY <1>1, <1>2, <1>3
<1> QED
  BY <1>2, <1>5, <1>7, <1>8, <1>9, Zenon DEF KeywordAt

\* Before it, only an item that is taken for FROM has one.
LEMMA FromInItem ==
  ASSUME Made, NEW at, Laid(at), NEW i \in 1..Len(items), NEW p \in Nat,
         at[i] =< p, p < at[i + 1], KeywordAt(query, from, p)
  PROVE  TakenForFrom(items[i])
<1>1. /\ query \in Text /\ Len(query) \in Nat /\ ItemOK(items[i])
      /\ ItemAt(query, at[i], items[i])
      /\ at[i] \in Nat /\ at[i + 1] \in Nat
      /\ AtSpace(at[i], items[i]) = at[i + 1] - 1
      /\ CharAt(query, at[i + 1] - 1) = IF i < Len(items) THEN Comma ELSE "\n"
  BY LaidOK
<1>2. Keyword(from) /\ Len(from) = 4
  BY KeywordOK
<1>3. CharAt(query, AtSpace(at[i], items[i])) \in Whitespace \cup {Comma}
  BY <1>1, MarksDiffer
<1>4. p + 4 =< Len(query) /\ Stands(query, p, from)
      /\ (p + 4 = Len(query) \/ CharAt(query, p + 4) \in Whitespace)
  BY <1>2 DEF KeywordAt
<1>5. PICK b \in Nat, x \in Nat, l \in Nat, a \in Nat, e \in Nat :
        /\ b = at[i] /\ x = AtExpr(b, items[i]) /\ l = Len(ExprOf(items[i]))
        /\ a = AtAlias(b, items[i]) /\ e = AtEnd(b, items[i])
  <2>1. Len(ExprOf(items[i])) \in Nat
    BY <1>1 DEF ItemOK
  <2> QED
    BY <1>1, <2>1, Places
<1>6. p =< AtSpace(b, items[i])
  BY <1>1, <1>5
<1>7. x + l =< e /\ e < Len(query) /\ x < Len(query) /\ a = x + l + 4
  <2>0. PICK item : item = items[i] /\ ItemOK(item)
    BY <1>1
  <2>1. x + l =< e /\ e =< AtSpace(b, items[i]) /\ a = x + l + 4 /\ AtSpace(b, items[i]) \in Nat
    <3>1. /\ AtExpr(b, item) + Len(ExprOf(item)) =< AtEnd(b, item)
          /\ AtEnd(b, item) =< AtSpace(b, item) /\ AtSpace(b, item) \in Nat
          /\ AtAlias(b, item) = AtExpr(b, item) + Len(ExprOf(item)) + 4
      BY <2>0, Places
    <3> QED
      BY <1>5, <2>0, <3>1
  <2>2. AtSpace(b, items[i]) = at[i + 1] - 1 /\ at[i + 1] =< Len(query)
    <3>1. i + 1 \in 1..(Len(items) + 1) /\ Len(items) + 1 \in 1..(Len(items) + 1)
          /\ i + 1 =< Len(items) + 1
      BY DEF Made
    <3>2. at[i + 1] =< at[Len(items) + 1] /\ at[Len(items) + 1] =< Len(query)
          /\ at[Len(items) + 1] \in Nat
      BY <3>1, LaidInOrder
    <3> QED
      BY <1>1, <1>5, <3>2
  <2> QED
    BY <1>1, <2>1, <2>2
<1>8. \/ x =< p /\ p + 4 =< x + l /\ Holds(ExprOf(items[i]), from)
      \/ p + 4 =< e /\ Holds(AliasOf(items[i]), from)
  <2>1. \/ AtTable(b, items[i]) =< p /\ p + 4 < x /\ CharAt(query, p + 4) \notin Whitespace
        \/ /\ x =< p /\ p + 4 =< x + l
           /\ p + 4 = x + l \/ CharAt(query, p + 4) \in Whitespace
              => Holds(ExprOf(items[i]), from)
        \/ x + l < p /\ p + 4 < a
        \/ /\ a =< p /\ p + 4 =< e
           /\ p + 4 = e \/ CharAt(query, p + 4) \in Whitespace
              => Holds(AliasOf(items[i]), from)
    <3>1. b =< p
      BY <1>5
    <3>2. p + Len(from) =< Len(query)
      BY <1>2, <1>4
    <3>3. /\ ItemAt(query, b, items[i])
          /\ CharAt(query, AtSpace(b, items[i])) \in Whitespace \cup {Comma}
      BY <1>1, <1>3, <1>5
    <3>4. PICK item : item = items[i]
      OBVIOUS
    <3>5. query \in Text /\ ItemOK(items[i]) /\ Keyword(from) /\ Stands(query, p, from)
      BY <1>1, <1>2, <1>4
    <3>6. \/ /\ AtTable(b, item) =< p /\ p + Len(from) < AtExpr(b, item)
             /\ CharAt(query, p + Len(from)) \notin Whitespace
          \/ /\ AtExpr(b, item) =< p
             /\ p + Len(from) =< AtExpr(b, item) + Len(ExprOf(item))
             /\ \/ p + Len(from) = AtExpr(b, item) + Len(ExprOf(item))
                \/ CharAt(query, p + Len(from)) \in Whitespace
                => Holds(ExprOf(item), from)
          \/ /\ AliasOf(item) # None /\ AtExpr(b, item) + Len(ExprOf(item)) < p
             /\ p + Len(from) < AtAlias(b, item)
          \/ /\ AliasOf(item) # None /\ AtAlias(b, item) =< p /\ p + Len(from) =< AtEnd(b, item)
             /\ p + Len(from) = AtEnd(b, item) \/ CharAt(query, p + Len(from)) \in Whitespace
                => Holds(AliasOf(item), from)
      BY <1>6, <3>1, <3>2, <3>3, <3>4, <3>5, KeywordIn
    <3>7. /\ x = AtExpr(b, item) /\ l = Len(ExprOf(item))
          /\ a = AtAlias(b, item) /\ e = AtEnd(b, item) /\ Len(from) = 4
      BY <1>2, <1>5, <3>4
    <3> QED
      BY <3>4, <3>6, <3>7, Zenon
  <2> QED
    BY <1>4, <1>7, <2>1
<1> QED
  BY <1>8, Zenon DEF TakenForFrom, ExprOf, AliasOf

\* The list ends with the last item, or in one that is taken for FROM.
LEMMA LastIs ==
  ASSUME Made, NEW at, Laid(at),
         NEW first \in Nat, 7 =< first, first =< at[2] - 1
  PROVE  \E end \in Nat :
           /\ end = EndOfColumns(query, first) /\ first =< end
           /\ end =< at[Len(items) + 1] /\ end =< Len(query)
           /\ (\A i \in 1..Len(items) : ~TakenForFrom(items[i])) => end = at[Len(items) + 1]
<1>1. /\ query \in Text /\ Len(query) \in Nat /\ at[2] \in Nat
  <2>1. 1 \in 1..Len(items) /\ 1 + 1 = 2
    BY DEF Made
  <2> QED
    BY <2>1, LaidOK
<1>2. PICK z \in Nat : z = at[Len(items) + 1] /\ z =< Len(query) /\ Len(query) = z + Len(tail)
  BY LaidInOrder
<1>3. first < z
  <2>1. 2 =< Len(items) + 1 /\ 2 \in 1..(Len(items) + 1) /\ Len(items) + 1 \in 1..(Len(items) + 1)
    BY DEF Made
  <2>2. at[2] =< z
    BY <1>2, <2>1, LaidInOrder
  <2> QED
    BY <1>1, <1>2, <2>2
<1>4. PICK end \in Nat :
        /\ end = EndOfColumns(query, first) /\ first =< end /\ end =< Len(query)
        /\ end = Len(query) \/ KeywordAt(query, from, end)
        /\ \A p \in Nat : first =< p /\ p < end => ~KeywordAt(query, from, p)
  <2>1. first =< Len(query)
    BY <1>1, <1>2, <1>3
  <2> QED
    BY <1>1, <2>1, EndOK
<1>5. end =< z
  <2>1. CASE Len(tail) = 0
    BY <1>2, <1>4, <2>1
  <2>2. CASE Len(tail) # 0
    <3>1. KeywordAt(query, from, z)
      BY <1>2, <2>2, TailFrom
    <3> QED
      BY <1>2, <1>3, <1>4, <3>1
  <2> QED
    BY <2>1, <2>2
<1>6. ASSUME \A i \in 1..Len(items) : ~TakenForFrom(items[i]), end < z PROVE FALSE
  <2>1. 7 =< end /\ end < at[Len(items) + 1]
    BY <1>2, <1>4, <1>6
  <2>2. PICK i \in 1..Len(items) : at[i] =< end /\ end < at[i + 1]
    BY <2>1, InSomeItem
  <2>3. KeywordAt(query, from, end)
    BY <1>1, <1>2, <1>4, <1>6
  <2>4. TakenForFrom(items[i])
    BY <2>2, <2>3, FromInItem
  <2> QED
    BY <1>6, <2>4
<1> QED
  BY <1>2, <1>4, <1>5, <1>6

-----------------------------------------------------------------------------
(***************************************************************************)
(* The columns, item by item, if no expression has a comma.                *)
(***************************************************************************)
\* A function that does not change from one number to the next.
LEMMA Unchanged ==
  ASSUME NEW n \in Nat, NEW f, NEW a \in 0..n, NEW b \in 0..n, a =< b,
         \A p \in 0..n : a < p /\ p =< b => f[p] = f[p - 1]
  PROVE  f[b] = f[a]
<1> DEFINE D == 0..(b - a)
           S == {k \in D : f[a + k] = f[a]}
<1>1. a \in Nat /\ b \in Nat /\ b - a \in Nat /\ a + 0 = a /\ a + (b - a) = b
  OBVIOUS
<1>2. D \subseteq Nat /\ 0 \in D /\ b - a \in D
  BY <1>1
<1>3. 0 \in S
  BY <1>1, <1>2
<1>4. ASSUME NEW k \in D, k # 0 PROVE k - 1 \in D /\ (k - 1 \in S => k \in S)
  <2>1. k - 1 \in D /\ a + k \in 0..n /\ a < a + k /\ a + k =< b /\ (a + k) - 1 = a + (k - 1)
    BY <1>1, <1>4
  <2>2. f[a + k] = f[a + (k - 1)]
    BY <2>1
  <2> QED
    BY <2>1, <2>2
<1>5. D \subseteq S
  <2> HIDE DEF D, S
  <2> QED
    BY <1>2, <1>3, <1>4, Induction
<1> QED
  BY <1>1, <1>2, <1>5

\* The characters between the expression and its alias.
LEMMA AliasGap ==
  ASSUME NEW text \in Text, NEW pos \in Nat, NEW item, ItemOK(item), ItemAt(text, pos, item),
         AliasOf(item) # None,
         NEW p \in Nat, AtExpr(pos, item) + Len(ExprOf(item)) =< p, p < AtAlias(pos, item)
  PROVE  CharAt(text, p) = Space \/ CharAt(text, p) = "a" \/ CharAt(text, p) = "s"
<1>1. PICK q \in Nat :
        /\ q = AtExpr(pos, item) + Len(ExprOf(item))
        /\ CharAt(text, q) = Space /\ CharAt(text, q + 1) = "a"
        /\ CharAt(text, q + 2) = "s" /\ CharAt(text, q + 3) = Space
        /\ q + 4 = AtAlias(pos, item) /\ q + 5 =< AtEnd(pos, item)
        /\ Stands(text, q + 1, as)
  BY AliasChars
<1>2. p = q \/ p = q + 1 \/ p = q + 2 \/ p = q + 3
  <2>1. q =< p /\ p < q + 4
    BY <1>1
  <2> QED
    BY <2>1
<1> QED
  BY <1>1, <1>2

\* An item has no comma, then.
LEMMA ItemCommas ==
  ASSUME NEW text \in Text, NEW pos \in Nat, NEW item, ItemOK(item), ItemAt(text, pos, item),
         ~HoldsComma(item), NEW p \in Nat, pos =< p, p < AtSpace(pos, item)
  PROVE  CharAt(text, p) # Comma
<1>1. PICK t \in Nat, x \in Nat, l \in Nat, e \in Nat, z \in Nat :
        /\ t = AtTable(pos, item) /\ x = AtExpr(pos, item) /\ l = Len(ExprOf(item))
        /\ e = AtEnd(pos, item) /\ z = AtSpace(pos, item)
  <2>1. Len(ExprOf(item)) \in Nat
    BY DEF ItemOK
  <2> QED
    BY <2>1, Places
<1>2. CASE p < t
  BY <1>1, <1>2, ItemPositions, MarksDiffer
<1>3. CASE t =< p /\ p < x
  BY <1>1, <1>3, ItemPositions
<1>4. CASE x =< p /\ p < x + l
  <2>1. /\ CharAt(text, p) = ExprOf(item)[p - x + 1]
        /\ p - x + 1 \in 1..Len(ExprOf(item))
    BY <1>1, <1>4, ItemPositions
  <2>2. \A k \in 1..Len(ExprOf(item)) : ExprOf(item)[k] # Comma
    BY Zenon DEF HoldsComma, Contains, ExprOf
  <2> QED
    BY <2>1, <2>2
<1>5. CASE x + l =< p /\ p < e
  <2>1. AliasOf(item) # None
    <3>1. AliasOf(item) = None => e = x + l
      BY <1>1, Places
    <3> QED
      BY <1>1, <1>5, <3>1
  <2>2. CASE p < AtAlias(pos, item)
    BY <1>1, <1>5, <2>1, <2>2, AliasGap, MarksDiffer
  <2>3. CASE ~(p < AtAlias(pos, item))
    <3>1. AtAlias(pos, item) =< p /\ p < AtEnd(pos, item)
      <4>1. AtAlias(pos, item) \in Nat
        BY Places
      <4> QED
        BY <1>1, <1>5, <2>3, <4>1
    <3> QED
      BY <2>1, <3>1, ItemPositions
  <2> QED
    BY <2>2, <2>3
<1>6. CASE e =< p
  BY <1>1, <1>6, ItemPositions, MarksDiffer
<1> QED
  BY <1>1, <1>2, <1>3, <1>4, <1>5, <1>6

\* The commas of the list are the ones between the items.
NoCommas == \A i \in 1..Len(items) : ~HoldsComma(items[i])

\* An item without a comma is followed by one, unless it is the last.
LEMMA CommasBetween ==
  ASSUME Made, NEW at, Laid(at), NEW i \in 1..Len(items), ~HoldsComma(items[i]),
         NEW p \in Nat, at[i] =< p, p < at[i + 1]
  PROVE  CharAt(query, p) = Comma <=> (p = at[i + 1] - 1 /\ i < Len(items))
<1>1. /\ query \in Text /\ ItemOK(items[i]) /\ ItemAt(query, at[i], items[i])
      /\ at[i] \in Nat /\ at[i + 1] \in Nat
      /\ AtSpace(at[i], items[i]) = at[i + 1] - 1
      /\ CharAt(query, at[i + 1] - 1) = IF i < Len(items) THEN Comma ELSE "\n"
  BY LaidOK
<1>2. CASE p = at[i + 1] - 1
  BY <1>1, <1>2, MarksDiffer
<1>3. CASE p # at[i + 1] - 1
  <2>1. p < AtSpace(at[i], items[i])
    BY <1>1, <1>3
  <2> QED
    BY <1>1, <1>3, <2>1, ItemCommas
<1> QED
  BY <1>2, <1>3

\* Where the column of an item begins.
Seg(at, i) == IF i = 1 THEN AtTable(at[1], items[1]) ELSE at[i]

\* It begins in the white space in front of the item; that of the first, behind it.
LEMMA SegOK ==
  ASSUME Made, NEW at, Laid(at), NEW i \in 1..Len(items)
  PROVE  /\ Seg(at, i) \in Nat /\ Seg(at, 1) \in Nat /\ at[i] \in Nat /\ at[i + 1] \in Nat
         /\ at[i] =< Seg(at, i) /\ Seg(at, i) =< AtTable(at[i], items[i])
         /\ AtTable(at[i], items[i]) \in Nat /\ AtTable(at[i], items[i]) < at[i + 1] - 1
         /\ Seg(at, 1) =< Seg(at, i)
         /\ i # 1 => Seg(at, i) = at[i] /\ Seg(at, 1) < at[i]
<1>1. /\ ItemOK(items[i]) /\ at[i] \in Nat /\ at[i + 1] \in Nat
      /\ AtSpace(at[i], items[i]) = at[i + 1] - 1
  BY LaidOK
<1>2. 1 \in 1..Len(items) /\ 1 + 1 = 2
  BY DEF Made
<1>3. /\ ItemOK(items[1]) /\ at[1] \in Nat /\ at[2] \in Nat
      /\ AtSpace(at[1], items[1]) = at[2] - 1
  BY <1>2, LaidOK
<1>4. /\ AtTable(at[i], items[i]) \in Nat /\ at[i] =< AtTable(at[i], items[i])
      /\ AtTable(at[i], items[i]) < at[i + 1] - 1
  <2>0. PICK item : item = items[i]
    OBVIOUS
  <2>1. PICK pos \in Nat : pos = at[i] /\ item = items[i]
    BY <1>1, <2>0
  <2>2. /\ AtTable(pos, item) \in Nat /\ pos =< AtTable(pos, item)
        /\ AtTable(pos, item) =< AtExpr(pos, item)
        /\ AtExpr(pos, item) + 1 =< AtEnd(pos, item) /\ AtEnd(pos, item) =< AtSpace(pos, item)
        /\ AtExpr(pos, item) \in Nat /\ AtEnd(pos, item) \in Nat /\ AtSpace(pos, item) \in Nat
    BY <1>1, <2>1, Places
  <2>3. AtTable(pos, item) < AtSpace(pos, item)
    BY <2>2
  <2> QED
    BY <1>1, <2>1, <2>2, <2>3
<1>5. AtTable(at[1], items[1]) \in Nat /\ AtTable(at[1], items[1]) < at[2] - 1
  <2>0. PICK item : item = items[1]
    OBVIOUS
  <2>1. PICK pos \in Nat : pos = at[1] /\ item = items[1]
    BY <1>3, <2>0
  <2>2. /\ AtTable(pos, item) \in Nat /\ AtTable(pos, item) =< AtExpr(pos, item)
        /\ AtExpr(pos, item) + 1 =< AtEnd(pos, item) /\ AtEnd(pos, item) =< AtSpace(pos, item)
        /\ AtExpr(pos, item) \in Nat /\ AtEnd(pos, item) \in Nat /\ AtSpace(pos, item) \in Nat
    BY <1>3, <2>1, Places
  <2>3. AtTable(pos, item) < AtSpace(pos, item)
    BY <2>2
  <2> QED
    BY <1>3, <2>1, <2>2, <2>3
<1>6. i # 1 => at[2] =< at[i]
  <2>1. i # 1 => 2 =< i /\ 2 \in 1..(Len(items) + 1) /\ i \in 1..(Len(items) + 1)
    BY DEF Made
  <2> QED
    BY <2>1, LaidInOrder
<1>7. CASE i = 1
  <2>1. Seg(at, i) = AtTable(at[i], items[i]) /\ Seg(at, 1) = AtTable(at[i], items[i])
    BY <1>7, Zenon DEF Seg
  <2> QED
    BY <1>1, <1>4, <1>7, <2>1
<1>8. CASE i # 1
  <2>1. Seg(at, i) = at[i] /\ Seg(at, 1) = AtTable(at[1], items[1])
    BY <1>8, Zenon DEF Seg
  <2> QED
    BY <1>1, <1>3, <1>4, <1>5, <1>6, <1>8, <2>1
<1> QED
  BY <1>7, <1>8

\* It is behind the last comma.
LEMMA StartIs ==
  ASSUME Made, NEW at, Laid(at), NEW i \in 1..Len(items), ~HoldsComma(items[i]), NEW p \in Nat,
         Seg(at, i) =< p, p < at[i + 1] \/ (i = Len(items) /\ p = at[i + 1])
  PROVE  StartOfColumn(query, Seg(at, 1), p) = Seg(at, i)
<1>1. /\ Seg(at, i) \in Nat /\ Seg(at, 1) \in Nat /\ at[i] \in Nat /\ at[i + 1] \in Nat
      /\ at[i] =< Seg(at, i) /\ Seg(at, 1) =< Seg(at, i)
      /\ i # 1 => Seg(at, i) = at[i] /\ Seg(at, 1) < at[i]
  BY SegOK
<1>2. query \in Text
  BY LaidOK
<1>3. PICK b \in Nat :
           /\ b = StartOfColumn(query, Seg(at, 1), p) /\ Seg(at, 1) =< b /\ b =< p
           /\ b = Seg(at, 1) \/ (Seg(at, 1) < b /\ CharAt(query, b - 1) = Comma)
           /\ \A q \in b..(p - 1) : CharAt(query, q) # Comma
  <2>1. Seg(at, 1) =< p
    BY <1>1
  <2> QED
    BY <1>1, <1>2, <2>1, StartOK
<1>4. ASSUME NEW q \in Nat, at[i] =< q, q < p PROVE CharAt(query, q) # Comma
  <2>1. q < at[i + 1] /\ (q = at[i + 1] - 1 => ~(i < Len(items)))
    <3>1. Len(items) \in Nat /\ i \in Nat
      BY DEF Made
    <3> QED
      BY <1>1, <1>4, <3>1
  <2> QED
    BY <1>4, <2>1, CommasBetween
<1>5. ~(Seg(at, i) < b)
  <2> SUFFICES ASSUME Seg(at, i) < b PROVE FALSE
    OBVIOUS
  <2>1. b - 1 \in Nat /\ at[i] =< b - 1 /\ b - 1 < p
    BY <1>1, <1>3
  <2>2. CharAt(query, b - 1) = Comma
    BY <1>1, <1>3
  <2> QED
    BY <1>4, <2>1, <2>2
<1>6. ~(b < Seg(at, i))
  <2> SUFFICES ASSUME b < Seg(at, i) PROVE FALSE
    OBVIOUS
  <2>1. i # 1
    BY <1>1, <1>3
  <2>2. i - 1 \in 1..Len(items) /\ (i - 1) + 1 = i /\ i - 1 < Len(items)
    BY <2>1 DEF Made
  <2>3. at[i - 1] \in Nat /\ at[i - 1] + 2 =< at[i]
    BY <2>2, LaidOK
  <2>4. CharAt(query, at[i] - 1) = Comma
    <3>1. PICK j \in 1..Len(items) : j = i - 1 /\ j + 1 = i /\ j < Len(items)
      BY <2>2
    <3> QED
      BY <3>1, LaidOK
  <2>5. at[i] - 1 \in b..(p - 1)
    BY <1>1, <1>3, <2>1, <2>3
  <2> QED
    BY <1>3, <2>4, <2>5
<1>7. b = Seg(at, i)
  BY <1>1, <1>3, <1>5, <1>6
<1> QED
  BY <1>3, <1>7

\* The name that is read between the start of an item and a stop.
NameUpTo(at, i, p) == ColumnBetween(query, Seg(at, i), p)

\* Where the columns of the items end: m is the item that FROM is found in, or the last.
Stops(at, m, stop) ==
  /\ m \in 1..Len(items) /\ stop \in [1..m -> Nat]
  /\ \A i \in 1..m :
       /\ Seg(at, i) =< stop[i] /\ stop[i] =< stop[m] /\ stop[i] =< Len(query)
       /\ stop[i] < at[i + 1] \/ (i = Len(items) /\ stop[i] = at[i + 1])
       /\ i < m => stop[i] = at[i + 1] - 1

\* There are such stops.
LEMMA SomeStops ==
  ASSUME Made, NEW at, Laid(at), NEW end \in Nat, Seg(at, 1) =< end,
         end =< at[Len(items) + 1], end =< Len(query)
  PROVE  \E m \in 1..Len(items) : \E stop \in [1..m -> Nat] :
           /\ Stops(at, m, stop) /\ stop[m] = end
           /\ end = at[Len(items) + 1] => m = Len(items)
<1>1. PICK n \in Nat : n = Len(items) /\ n >= 1
  BY DEF Made
<1>2. PICK m \in 1..n :
        /\ (at[m] =< end /\ end < at[m + 1]) \/ (m = n /\ end = at[m + 1])
        /\ end = at[n + 1] => m = n
  <2>1. at[n + 1] \in Nat /\ at[n] \in Nat /\ at[n] =< at[n + 1]
    <3>1. n \in 1..Len(items)
      BY <1>1
    <3>2. at[n] \in Nat /\ at[n + 1] \in Nat /\ at[n] + 2 =< at[n + 1]
      BY <3>1, LaidOK
    <3> QED
      BY <3>2
  <2>2. CASE end = at[n + 1]
    BY <1>1, <2>1, <2>2
  <2>3. CASE end # at[n + 1]
    <3>1. end < at[Len(items) + 1]
      BY <1>1, <2>1, <2>3
    <3>2. 7 =< end
      <4>1. at[1] = 7 /\ 1 \in 1..Len(items)
        BY <1>1, LaidInOrder
      <4>2. at[1] =< Seg(at, 1) /\ Seg(at, 1) \in Nat
        BY <4>1, SegOK
      <4> QED
        BY <4>1, <4>2
    <3>3. PICK i \in 1..Len(items) : at[i] =< end /\ end < at[i + 1]
      BY <3>1, <3>2, InSomeItem
    <3> QED
      BY <1>1, <2>3, <3>3
  <2> QED
    BY <2>2, <2>3
<1>3. at[m] =< end
  <2>1. m \in 1..Len(items) 
    BY <1>1
  <2>2. at[m] \in Nat /\ at[m + 1] \in Nat /\ at[m] + 2 =< at[m + 1]
    BY <2>1, LaidOK
  <2> QED
    BY <1>2, <2>2
<1> DEFINE stop == [i \in 1..m |-> IF i < m THEN at[i + 1] - 1 ELSE end]
<1>4. ASSUME NEW i \in 1..m
      PROVE  /\ i \in 1..Len(items) /\ at[i + 1] \in Nat /\ at[i] + 2 =< at[i + 1] /\ at[i] \in Nat
             /\ Seg(at, i) \in Nat /\ Seg(at, i) < at[i + 1] - 1
             /\ i # 1 => Seg(at, i) = at[i]
             /\ i < m => at[i + 1] =< at[m]
  <2>1. i \in 1..Len(items)
    BY <1>1
  <2>2. at[i] \in Nat /\ at[i + 1] \in Nat /\ at[i] + 2 =< at[i + 1]
    BY <2>1, LaidOK
  <2>3. i < m => at[i + 1] =< at[m]
    <3>1. i < m => i + 1 =< m /\ i + 1 \in 1..(Len(items) + 1) /\ m \in 1..(Len(items) + 1)
      BY <1>1
    <3> QED
      BY <3>1, LaidInOrder
  <2>4. /\ Seg(at, i) \in Nat /\ Seg(at, i) =< AtTable(at[i], items[i])
        /\ AtTable(at[i], items[i]) \in Nat /\ AtTable(at[i], items[i]) < at[i + 1] - 1
        /\ i # 1 => Seg(at, i) = at[i]
    BY <2>1, SegOK
  <2>5. Seg(at, i) < at[i + 1] - 1
    BY <2>2, <2>4
  <2> QED
    BY <2>1, <2>2, <2>3, <2>4, <2>5
<1>5. ASSUME NEW i \in 1..m
      PROVE  /\ stop[i] \in Nat /\ Seg(at, i) =< stop[i] /\ stop[i] =< end
             /\ stop[i] < at[i + 1] \/ (i = Len(items) /\ stop[i] = at[i + 1])
             /\ i < m => stop[i] = at[i + 1] - 1
             /\ i = m => stop[i] = end
  <2>1. CASE i < m
    <3>1. stop[i] = at[i + 1] - 1
      BY <2>1
    <3>2. at[m] \in Nat
      BY <1>4
    <3>3. PICK a \in Nat, b \in Nat, s \in Nat : a = at[i + 1] /\ b = at[m] /\ s = Seg(at, i)
      BY <1>4, <3>2
    <3>4. s < a - 1 /\ a =< b /\ b =< end
      BY <1>3, <1>4, <2>1, <3>3
    <3>5. a - 1 \in Nat /\ s =< a - 1 /\ a - 1 =< end /\ a - 1 < a /\ i # m
      BY <2>1, <3>4
    <3> HIDE DEF stop
    <3> QED
      BY <3>1, <3>3, <3>5
  <2>2. CASE ~(i < m)
    <3>1. i = m /\ stop[i] = end
      BY <2>2
    <3>2. Seg(at, i) =< end
      BY <1>3, <1>4, <3>1
    <3> HIDE DEF stop
    <3> QED
      BY <1>1, <1>2, <2>2, <3>1, <3>2
  <2> QED
    BY <2>1, <2>2
<1>6. stop \in [1..m -> Nat]
  BY <1>5
<1> HIDE DEF stop
<1>7. stop[m] = end
  BY <1>5
<1>8. Stops(at, m, stop)
  <2>1. m \in 1..Len(items)
    BY <1>1
  <2>2. Len(query) \in Nat
    BY <2>1, LaidOK
  <2>3. \A i \in 1..m :
          /\ Seg(at, i) =< stop[i] /\ stop[i] =< stop[m] /\ stop[i] =< Len(query)
          /\ stop[i] < at[i + 1] \/ (i = Len(items) /\ stop[i] = at[i + 1])
          /\ i < m => stop[i] = at[i + 1] - 1
    BY <1>5, <1>7, <2>2
  <2> QED
    BY <1>6, <2>1, <2>3 DEF Stops
<1> QED
  BY <1>1, <1>2, <1>6, <1>7, <1>8

\* No comma stands between the start of an item and its stop.
LEMMA NoStopBefore ==
  ASSUME Made, NEW at, Laid(at), NoCommas, NEW m, NEW stop, Stops(at, m, stop), NEW i \in 1..m,
         NEW p \in Nat, Seg(at, i) =< p, p < stop[i]
  PROVE  ~Cut(query, stop[m], p)
<1>1. /\ m \in 1..Len(items) /\ stop[i] \in Nat /\ stop[m] \in Nat
      /\ Seg(at, i) =< stop[i] /\ stop[i] =< stop[m]
      /\ stop[i] < at[i + 1] \/ (i = Len(items) /\ stop[i] = at[i + 1])
  <2>1. m \in 1..Len(items) /\ stop \in [1..m -> Nat]
    BY DEF Stops
  <2>2. m \in 1..m
    BY <2>1
  <2> QED
    BY <2>1, <2>2 DEF Stops
<1>2. i \in 1..Len(items) /\ Len(items) \in Nat
  BY <1>1 DEF Made
<1>3. /\ Seg(at, i) \in Nat /\ at[i] \in Nat /\ at[i + 1] \in Nat /\ at[i] =< Seg(at, i)
  BY <1>2, SegOK
<1>4. p # stop[m] /\ at[i] =< p /\ p < at[i + 1] /\ (p = at[i + 1] - 1 => i = Len(items))
  BY <1>1, <1>3
<1>5. CharAt(query, p) # Comma
  <2>1. ~(p = at[i + 1] - 1 /\ i < Len(items))
    BY <1>2, <1>4
  <2>2. ~HoldsComma(items[i])
    BY <1>2 DEF NoCommas
  <2> QED
    BY <1>2, <1>4, <2>1, <2>2, CommasBetween
<1> QED
  BY <1>4, <1>5 DEF Cut

\* There is one at the stop, or the end.
LEMMA StopIs ==
  ASSUME Made, NEW at, Laid(at), NoCommas, NEW m, NEW stop, Stops(at, m, stop), NEW i \in 1..m
  PROVE  /\ Cut(query, stop[m], stop[i])
         /\ NameAt(query, Seg(at, 1), stop[i]) = NameUpTo(at, i, stop[i])
<1>1. /\ m \in 1..Len(items) /\ stop[i] \in Nat /\ stop[m] \in Nat
      /\ Seg(at, i) =< stop[i] /\ stop[i] =< stop[m]
      /\ stop[i] < at[i + 1] \/ (i = Len(items) /\ stop[i] = at[i + 1])
      /\ i < m => stop[i] = at[i + 1] - 1
  <2>1. m \in 1..Len(items) /\ stop \in [1..m -> Nat]
    BY DEF Stops
  <2>2. m \in 1..m
    BY <2>1
  <2> QED
    BY <2>1, <2>2 DEF Stops
<1>2. i \in 1..Len(items) /\ Len(items) \in Nat
  BY <1>1 DEF Made
<1>6. ~HoldsComma(items[i])
  BY <1>2 DEF NoCommas
<1>3. StartOfColumn(query, Seg(at, 1), stop[i]) = Seg(at, i)
  BY <1>1, <1>2, <1>6, StartIs
<1>4. CASE i < m
  <2>1. at[i] \in Nat /\ at[i + 1] \in Nat /\ at[i] + 2 =< at[i + 1]
    BY <1>2, LaidOK
  <2>2. i < Len(items) /\ stop[i] = at[i + 1] - 1 /\ at[i] =< stop[i] /\ stop[i] < at[i + 1]
    BY <1>1, <1>2, <1>4, <2>1
  <2>3. CharAt(query, stop[i]) = Comma
    BY <1>1, <1>2, <1>6, <2>2, CommasBetween
  <2> QED
    BY <1>3, <2>3 DEF Cut, NameAt, NameUpTo
<1>5. CASE ~(i < m)
  <2>1. i = m
    BY <1>1, <1>5
  <2> QED
    BY <1>3, <2>1 DEF Cut, NameAt, NameUpTo
<1> QED
  BY <1>4, <1>5

\* The columns, item by item: up to each one, the columns of the ones before it
\* and its own, if it has a name.
ItemByItem(at, m, stop, cols) ==
  /\ m \in 1..Len(items) /\ stop \in [1..m -> Nat] /\ cols \in [0..m -> Seq(Text)]
  /\ Stops(at, m, stop)
  /\ (\A i \in 1..Len(items) : ~TakenForFrom(items[i])) =>
       m = Len(items) /\ stop[m] = at[Len(items) + 1]
  /\ cols[0] = <<>> /\ cols[m] = parse_select_columns(query)
  /\ \A i \in 1..m :
       cols[i] = IF NameUpTo(at, i, stop[i]) # <<>>
                 THEN Append(cols[i - 1], NameUpTo(at, i, stop[i]))
                 ELSE cols[i - 1]

\* So the columns are those of the items, one after the other.
LEMMA ItemColumns ==
  ASSUME Made, NEW at, Laid(at), NoCommas
  PROVE  \E m, stop, cols : ItemByItem(at, m, stop, cols)
<1>1. PICK first \in Nat \ {0} :
           /\ first = AtTable(at[1], items[1]) /\ first =< at[2] - 1 /\ 7 =< first
           /\ first =< Len(query)
           /\ parse_select_columns(query) = ReadColumns(query, first, EndOfColumns(query, first))
  BY FirstIs
<1>2. first = Seg(at, 1)
  BY <1>1, Zenon DEF Seg
<1>3. PICK end \in Nat :
           /\ end = EndOfColumns(query, first) /\ first =< end
           /\ end =< at[Len(items) + 1] /\ end =< Len(query)
           /\ (\A i \in 1..Len(items) : ~TakenForFrom(items[i])) => end = at[Len(items) + 1]
  BY <1>1, LastIs
<1>13. PICK m \in 1..Len(items) : \E stop \in [1..m -> Nat] :
         /\ Stops(at, m, stop) /\ stop[m] = end
         /\ end = at[Len(items) + 1] => m = Len(items)
  BY <1>2, <1>3, SomeStops
<1>4. PICK stop \in [1..m -> Nat] :
        /\ Stops(at, m, stop) /\ stop[m] = end
        /\ end = at[Len(items) + 1] => m = Len(items)
  BY <1>13
<1>5. query \in Text /\ 1 \in 1..Len(items)
  <2>1. 1 \in 1..Len(items)
    BY DEF Made
  <2> QED
    BY <2>1, LaidOK
<1>6. PICK read \in [0..end -> Seq(Text)] :
           /\ ReadColumns(query, first, end) = read[end]
           /\ \A p \in 0..end :
                /\ p < first => read[p] = <<>>
                /\ first =< p =>
                     read[p] = IF Cut(query, end, p) /\ NameAt(query, first, p) # <<>>
                               THEN Append(read[p - 1], NameAt(query, first, p))
                               ELSE read[p - 1]
  <2>1. query \in Text /\ first =< end /\ end =< Len(query)
    BY <1>3, <1>5
  <2> QED
    BY <2>1, ReadNames
<1>7. ASSUME NEW i \in 1..m
      PROVE  /\ Seg(at, i) \in Nat /\ stop[i] \in Nat /\ first =< Seg(at, i)
             /\ Seg(at, i) =< stop[i] /\ stop[i] =< end
             /\ i \in 1..Len(items)
  <2>1. i \in 1..Len(items)
    BY DEF Made
  <2>2. Seg(at, i) \in Nat /\ first =< Seg(at, i)
    BY <1>2, <2>1, SegOK
  <2> QED
    BY <1>4, <2>1, <2>2 DEF Stops
<1>8. ASSUME NEW i \in 1..m PROVE read[stop[i] - 1] = read[Seg(at, i) - 1]
  <2>1. PICK a \in 0..end, b \in 0..end : a = Seg(at, i) - 1 /\ b = stop[i] - 1 /\ a =< b
    <3>1. PICK s \in Nat, e \in Nat : s = Seg(at, i) /\ e = stop[i]
      BY <1>7
    <3>2. 7 =< s /\ s =< e /\ e =< end
      BY <1>1, <1>7, <3>1
    <3>3. s - 1 \in 0..end /\ e - 1 \in 0..end /\ s - 1 =< e - 1
      BY <3>2
    <3> QED
      BY <3>1, <3>3
  <2>2. ASSUME NEW p \in 0..end, a < p, p =< b PROVE read[p] = read[p - 1]
    <3>1. Seg(at, i) =< p /\ p < stop[i] /\ first =< p /\ p \in Nat
      <4>1. PICK s \in Nat, e \in Nat : s = Seg(at, i) /\ e = stop[i] /\ first =< s
        BY <1>7
      <4>2. a = s - 1 /\ b = e - 1
        BY <2>1, <4>1
      <4>3. p \in Nat /\ s - 1 < p /\ p =< e - 1
        BY <2>2, <4>2
      <4>4. s =< p /\ p < e
        BY <4>3
      <4>5. first =< p
        BY <4>1, <4>3, <4>4
      <4> QED
        BY <4>1, <4>3, <4>4, <4>5
    <3>2. ~Cut(query, end, p)
      BY <1>4, <3>1, NoStopBefore
    <3> QED
      BY <1>6, <3>1, <3>2
  <2>3. read[b] = read[a]
    <3>1. a =< b /\ \A p \in 0..end : a < p /\ p =< b => read[p] = read[p - 1]
      BY <2>1, <2>2
    <3> QED
      BY <3>1, Unchanged
  <2> QED
    BY <2>1, <2>3
<1>9. ASSUME NEW i \in 1..m
      PROVE  read[stop[i]] = IF NameUpTo(at, i, stop[i]) # <<>>
                             THEN Append(read[Seg(at, i) - 1], NameUpTo(at, i, stop[i]))
                             ELSE read[Seg(at, i) - 1]
  <2>1. stop[i] \in 0..end /\ first =< stop[i]
    <3>1. PICK s \in Nat, e \in Nat : s = Seg(at, i) /\ e = stop[i]
      BY <1>7
    <3>2. first =< s /\ s =< e /\ e =< end
      BY <1>7, <3>1
    <3>3. e \in 0..end /\ first =< e
      BY <3>2
    <3> QED
      BY <3>1, <3>3
  <2>2. Cut(query, end, stop[i]) /\ NameAt(query, first, stop[i]) = NameUpTo(at, i, stop[i])
    BY <1>2, <1>4, StopIs
  <2>3. read[stop[i]] = IF Cut(query, end, stop[i]) /\ NameAt(query, first, stop[i]) # <<>>
                        THEN Append(read[stop[i] - 1], NameAt(query, first, stop[i]))
                        ELSE read[stop[i] - 1]
    BY <1>6, <2>1
  <2> QED
    BY <1>8, <2>2, <2>3, Zenon
<1> DEFINE cols == [i \in 0..m |-> IF i = 0 THEN <<>> ELSE read[stop[i]]]
<1>10. cols[0] = <<>> /\ cols[m] = parse_select_columns(query) /\ cols \in [0..m -> Seq(Text)]
  <2>1. \A i \in 0..m : (IF i = 0 THEN <<>> ELSE read[stop[i]]) \in Seq(Text)
    <3> TAKE i \in 0..m
    <3>1. CASE i = 0
      BY <3>1, EmptySeq
    <3>2. CASE i # 0
      <4>1. stop[i] \in 0..end
        BY <1>7, <3>2
      <4> QED
        BY <3>2, <4>1
    <3> QED
      BY <3>1, <3>2
  <2>2. 0 \in 0..m /\ m \in 0..m /\ m # 0
    BY <1>4
  <2>3. cols[m] = read[end]
    BY <1>4, <2>2
  <2> QED
    BY <1>1, <1>3, <1>6, <2>1, <2>2, <2>3
<1>11. ASSUME NEW i \in 1..m PROVE cols[i - 1] = read[Seg(at, i) - 1] /\ cols[i] = read[stop[i]]
  <2>1. i \in 0..m /\ i - 1 \in 0..m /\ i # 0
    OBVIOUS
  <2>2. CASE i = 1
    <3>1. Seg(at, i) - 1 \in 0..end /\ Seg(at, i) - 1 < first
      BY <1>1, <1>2, <1>3, <2>2
    <3> QED
      BY <1>6, <2>1, <2>2, <3>1
  <2>3. CASE i # 1
    <3>1. i - 1 # 0 /\ i - 1 \in 1..m /\ i - 1 < m /\ (i - 1) + 1 = i
      BY <2>3
    <3>2. stop[i - 1] = at[i] - 1
      <4>1. PICK j \in 1..m : j = i - 1 /\ j < m /\ j + 1 = i
        BY <3>1
      <4>2. stop[j] = at[j + 1] - 1
        BY <1>4, <4>1 DEF Stops
      <4> QED
        BY <4>1, <4>2
    <3>3. Seg(at, i) = at[i]
      BY <2>3 DEF Seg
    <3> QED
      BY <2>1, <3>1, <3>2, <3>3
  <2> QED
    BY <2>2, <2>3
<1>12. ASSUME NEW i \in 1..m
       PROVE  cols[i] = IF NameUpTo(at, i, stop[i]) # <<>>
                        THEN Append(cols[i - 1], NameUpTo(at, i, stop[i]))
                        ELSE cols[i - 1]
  <2> HIDE DEF cols
  <2> QED
    BY <1>9, <1>11, Zenon
<1> HIDE DEF cols
<1>14. (\A i \in 1..Len(items) : ~TakenForFrom(items[i])) =>
         m = Len(items) /\ stop[m] = at[Len(items) + 1]
  BY <1>3, <1>4
<1>15. ItemByItem(at, m, stop, cols)
  BY <1>4, <1>10, <1>12, <1>14, Zenon DEF ItemByItem
<1> QED
  BY <1>15

-----------------------------------------------------------------------------
(***************************************************************************)
(* The queries that the specification builds.                              *)
(***************************************************************************)
\* The names of the items are those of the fields, where no wildcard adds others.
NamesOfItems == [i \in 1..Len(items) |-> Name(items[i])]

\* The inductive invariant: the columns are those of the query, and every item
\* has a field, or as many as the table has columns.
QueryInv ==
  /\ items \in Seq(Items) /\ Len(items) \in Nat \ {0} /\ Len(items) =< MaxItems
  /\ tail \in Tails
  /\ columns = parse_select_columns(query)
  /\ fields \in Seq(Text)
  /\ Len(items) =< Len(fields) /\ Len(fields) =< Len(items) * Len(TableColumns)
  /\ (\A i \in 1..Len(items) : ~Wildcard(items[i])) => fields = NamesOfItems

\* The fields of an item.
LEMMA ReturnedOK ==
  ASSUME NEW item \in Items
  PROVE  /\ Returned(item) \in Seq(Text) /\ Name(item) \in Text
         /\ Len(Returned(item)) \in Nat /\ 1 =< Len(Returned(item))
         /\ Len(Returned(item)) =< Len(TableColumns) /\ Len(TableColumns) \in Nat
         /\ ~Wildcard(item) => Returned(item) = <<Name(item)>> /\ Len(Returned(item)) = 1
<1>1. Name(item) \in Text
  <2>1. ExprOf(item) \in Text /\ AliasOf(item) \in Text
    BY ItemIsOK DEF ItemOK
  <2>2. Name(item) \in {AliasOf(item), ExprOf(item)}
    BY Zenon DEF Name, AliasOf, ExprOf
  <2> QED
    BY <2>1, <2>2
<1>2. /\ TableColumns \in Seq(Text) /\ Len(TableColumns) \in Nat /\ Len(TableColumns) >= 1
  <2>1. TableColumns \in Seq(Text) /\ TableColumns # <<>>
    BY QueryAssumption
  <2> QED
    BY <2>1, EmptySeq, LenProperties
<1>3. PICK name \in Text : name = Name(item)
  BY <1>1
<1>4. <<name>> \in Seq(Text) /\ Len(<<name>>) = 1
  OBVIOUS
<1>5. CASE Wildcard(item)
  <2>1. Returned(item) = TableColumns
    BY <1>5, Zenon DEF Returned
  <2> QED
    BY <1>1, <1>2, <1>5, <2>1
<1>6. CASE ~Wildcard(item)
  <2>1. Returned(item) = <<name>>
    BY <1>3, <1>6, Zenon DEF Returned
  <2> QED
    BY <1>1, <1>2, <1>3, <1>4, <1>6, <2>1
<1> QED
  BY <1>5, <1>6

\* It holds of the first query.
LEMMA QueryInvInit == Init => QueryInv
<1> SUFFICES ASSUME Init PROVE QueryInv
  OBVIOUS
<1>1. PICK item \in Items : items = <<item>>
  BY Zenon DEF Init
<1>2. items \in Seq(Items) /\ Len(items) = 1 /\ items[1] = item
  BY <1>1
<1>3. tail \in Tails /\ columns = parse_select_columns(query) /\ fields = Returned(item)
  BY <1>2, Zenon DEF Init
<1>4. MaxItems \in Nat /\ MaxItems >= 1
  BY QueryAssumption
<1>5. /\ Returned(item) \in Seq(Text)
      /\ Len(Returned(item)) \in Nat /\ 1 =< Len(Returned(item))
      /\ Len(Returned(item)) =< Len(TableColumns) /\ Len(TableColumns) \in Nat
      /\ ~Wildcard(item) => Returned(item) = <<Name(item)>>
  BY ReturnedOK
<1>6. (\A i \in 1..Len(items) : ~Wildcard(items[i])) => fields = NamesOfItems
  <2> SUFFICES ASSUME \A i \in 1..Len(items) : ~Wildcard(items[i]) PROVE fields = NamesOfItems
    OBVIOUS
  <2>1. ~Wildcard(item)
    BY <1>2
  <2>2. PICK name : name = Name(item)
    OBVIOUS
  <2>3. fields = <<name>>
    BY <1>3, <1>5, <2>1, <2>2
  <2>4. NamesOfItems = [i \in 1..1 |-> name]
    BY <1>2, <2>2 DEF NamesOfItems
  <2>5. [i \in 1..1 |-> name] = <<name>>
    OBVIOUS
  <2> QED
    BY <2>3, <2>4, <2>5
<1>7. 1 =< Len(fields) /\ Len(fields) =< 1 * Len(TableColumns)
  BY <1>3, <1>5
<1> QED
  BY <1>2, <1>3, <1>4, <1>5, <1>6, <1>7 DEF QueryInv

\* Another item keeps it.
LEMMA QueryInvNext == QueryInv /\ [Next]_<<items, tail, columns, fields>> => QueryInv'
<1> SUFFICES ASSUME QueryInv, [Next]_<<items, tail, columns, fields>> PROVE QueryInv'
  OBVIOUS
<1>0. CASE UNCHANGED <<items, tail, columns, fields>>
  BY <1>0 DEF QueryInv, NamesOfItems, query, Written
<1>1. CASE Next
  <2>1. PICK item \in Items : items' = Append(items, item) /\ fields' = fields \o Returned(item)
    BY <1>1, Zenon DEF Next
  <2>2. Len(items) < MaxItems /\ tail' = tail /\ columns' = parse_select_columns(query')
    BY <1>1, Zenon DEF Next
  <2>3. /\ items \in Seq(Items) /\ Len(items) \in Nat /\ tail \in Tails
        /\ fields \in Seq(Text) /\ Len(items) =< Len(fields)
        /\ Len(fields) =< Len(items) * Len(TableColumns) /\ Len(fields) \in Nat
    BY LenProperties DEF QueryInv
  <2>4. /\ items' \in Seq(Items) /\ Len(items') = Len(items) + 1
        /\ \A i \in 1..Len(items) : items'[i] = items[i]
        /\ items'[Len(items) + 1] = item
    BY <2>1, <2>3, AppendProperties
  <2>5. /\ Returned(item) \in Seq(Text)
        /\ Len(Returned(item)) \in Nat /\ 1 =< Len(Returned(item))
        /\ Len(Returned(item)) =< Len(TableColumns) /\ Len(TableColumns) \in Nat
        /\ ~Wildcard(item) => Returned(item) = <<Name(item)>> /\ Len(Returned(item)) = 1
    BY ReturnedOK
  <2>6. fields' \in Seq(Text) /\ Len(fields') = Len(fields) + Len(Returned(item))
    BY <2>1, <2>3, <2>5, ConcatProperties
  <2>7. PICK k \in Nat, f \in Nat, r \in Nat, t \in Nat :
          /\ k = Len(items) /\ f = Len(fields) /\ r = Len(Returned(item)) /\ t = Len(TableColumns)
    BY <2>3, <2>5
  <2>8. Len(items') =< Len(fields') /\ Len(fields') =< Len(items') * Len(TableColumns)
    <3>1. k =< f /\ f =< k * t /\ 1 =< r /\ r =< t
      BY <2>3, <2>5, <2>7
    <3>2. k * t \in Nat /\ (k + 1) * t = k * t + t
      OBVIOUS
    <3>3. k + 1 =< f + r /\ f + r =< (k + 1) * t
      BY <3>1, <3>2
    <3> QED
      BY <2>4, <2>6, <2>7, <3>3
  <2>9. (\A i \in 1..Len(items') : ~Wildcard(items'[i])) => fields' = NamesOfItems'
    <3> SUFFICES ASSUME \A i \in 1..Len(items') : ~Wildcard(items'[i])
                 PROVE  fields' = NamesOfItems'
      OBVIOUS
    <3>1. k + 1 \in 1..Len(items') /\ \A i \in 1..k : i \in 1..Len(items')
      BY <2>4, <2>7
    <3>2. ~Wildcard(item) /\ \A i \in 1..Len(items) : ~Wildcard(items[i])
      BY <2>4, <2>7, <3>1
    <3>3. fields = NamesOfItems
      BY <3>2 DEF QueryInv
    <3>4. PICK name : name = Name(item)
      OBVIOUS
    <3>5. Returned(item) = <<name>>
      BY <2>5, <3>2, <3>4
    <3>6. fields' = fields \o <<name>>
      BY <2>1, <3>5
    <3>7. NamesOfItems' = [i \in 1..(k + 1) |-> IF i = k + 1 THEN name ELSE fields[i]]
      <4>1. NamesOfItems' = [i \in 1..(k + 1) |-> Name(items'[i])]
        BY <2>4, <2>7 DEF NamesOfItems
      <4>2. ASSUME NEW i \in 1..(k + 1)
            PROVE  Name(items'[i]) = IF i = k + 1 THEN name ELSE fields[i]
        <5>1. CASE i = k + 1
          BY <2>4, <2>7, <3>4, <5>1
        <5>2. CASE i # k + 1
          <6>1. i \in 1..k
            BY <5>2
          <6>2. fields[i] = Name(items[i])
            BY <2>7, <3>3, <6>1 DEF NamesOfItems
          <6> QED
            BY <2>4, <2>7, <5>2, <6>1, <6>2
        <5> QED
          BY <5>1, <5>2
      <4> QED
        BY <4>1, <4>2
    <3>8. fields \in Seq(Text) /\ Len(fields) = k
      <4>1. Len(NamesOfItems) = k
        <5>1. NamesOfItems = [i \in 1..k |-> Name(items[i])]
          BY <2>7 DEF NamesOfItems
        <5>2. \A i \in 1..k : Name(items[i]) \in Text
          <6> TAKE i \in 1..k
          <6>1. items[i] \in Items
            BY <2>3, <2>7, ElementOfSeq
          <6> QED
            BY <6>1, ReturnedOK
        <5> QED
          BY <5>1, <5>2
      <4> QED
        BY <2>3, <3>3, <4>1
    <3>9. fields \o <<name>> = [i \in 1..(k + 1) |-> IF i = k + 1 THEN name ELSE fields[i]]
      <4>1. name \in Text
        BY <3>4, ReturnedOK
      <4>2. /\ Append(fields, name) \in Seq(Text) /\ Len(Append(fields, name)) = k + 1
            /\ \A i \in 1..k : Append(fields, name)[i] = fields[i]
            /\ Append(fields, name)[k + 1] = name
        BY <3>8, <4>1, AppendProperties
      <4>3. fields \o <<name>> = Append(fields, name)
        BY <3>8, <4>1, AppendIsConcat
      <4>4. Append(fields, name) = [i \in 1..(k + 1) |-> Append(fields, name)[i]]
        <5>1. PICK s : s = Append(fields, name)
          OBVIOUS
        <5>2. s \in Seq(Text) /\ Len(s) = k + 1
          BY <4>2, <5>1
        <5>3. s \in [1..(k + 1) -> Text]
          BY <5>2, LenProperties
        <5>4. s = [i \in 1..(k + 1) |-> s[i]]
          BY <5>3
        <5> QED
          BY <5>1, <5>4
      <4> QED
        BY <4>2, <4>3, <4>4
    <3> QED
      BY <3>6, <3>7, <3>9
  <2>10. Len(items') \in Nat \ {0} /\ Len(items') =< MaxItems
    <3>1. MaxItems \in Nat
      BY QueryAssumption
    <3> QED
      BY <2>2, <2>3, <2>4, <3>1
  <2>11. tail' \in Tails
    BY <2>2, <2>3
  <2> QED
    BY <2>2, <2>4, <2>6, <2>8, <2>9, <2>10, <2>11, Zenon DEF QueryInv
<1> QED
  BY <1>0, <1>1

\* It holds of every query.
THEOREM QueryIsBuilt == Spec => []QueryInv
<1> QED
  BY QueryInvInit, QueryInvNext, PTL DEF Spec

-----------------------------------------------------------------------------
(***************************************************************************)
(* The parameters of a query.                                              *)
(***************************************************************************)
MarksOf(text, mark) == {p \in 0..Len(text) : CharAt(text, p) = mark}
OpenMarks(text, mark, Quoted) == {p \in 1..Len(text) : text[p] = mark /\ p \notin Quoted}

\* The marks of a text, counted from 0 and from 1, are as many; those that are
\* not in quotes are no more, and as many if nothing is inside.
LEMMA MarksCounted ==
  ASSUME NEW text \in Text, NEW mark, mark # "\\0", NEW Quoted
  PROVE  /\ Cardinality(MarksOf(text, mark)) \in Nat
         /\ Cardinality(OpenMarks(text, mark, Quoted)) \in Nat
         /\ Cardinality(MarksOf(text, mark)) >= Cardinality(OpenMarks(text, mark, Quoted))
         /\ Quoted = {} =>
              Cardinality(MarksOf(text, mark)) = Cardinality(OpenMarks(text, mark, Quoted))
<1> DEFINE n == Len(text)
           all == {p \in 1..n : text[p] = mark}
           f == [p \in all |-> p - 1]
<1>0. PICK marks, open : /\ marks = MarksOf(text, mark) /\ open = OpenMarks(text, mark, Quoted)
                         /\ marks = {p \in 0..n : CharAt(text, p) = mark}
                         /\ open = {p \in 1..n : text[p] = mark /\ p \notin Quoted}
  BY Zenon DEF MarksOf, OpenMarks
<1>1. n \in Nat
  BY TextOK
<1>2. \A p \in 0..n : p \in marks <=> p + 1 \in all
  <2> TAKE p \in 0..n
  <2>1. CASE p = n
    <3>1. CharAt(text, p) = "\\0"
      BY <1>1, <2>1, TextOK
    <3>2. p + 1 \notin 1..n
      BY <1>1, <2>1
    <3> QED
      BY <1>0, <3>1, <3>2
  <2>2. CASE p # n
    <3>1. CharAt(text, p) = text[p + 1] /\ p + 1 \in 1..n
      BY <1>1, <2>2, TextOK
    <3> QED
      BY <1>0, <3>1
  <2> QED
    BY <2>1, <2>2
<1>3. IsFiniteSet(1..n) /\ all \in SUBSET (1..n) /\ open \in SUBSET all
  BY <1>0, <1>1, FS_Interval
<1>4. IsFiniteSet(all) /\ Cardinality(all) \in Nat
  <2> HIDE DEF all
  <2> QED
    BY <1>3, FS_Subset, FS_CardinalityType
<1>5. Cardinality(open) \in Nat /\ Cardinality(open) =< Cardinality(all)
  <2> HIDE DEF all
  <2> QED
    BY <1>3, <1>4, FS_Subset, FS_CardinalityType
<1>6. f \in Bijection(all, marks)
  <2>1. \A p \in all : p \in Nat /\ p - 1 \in 0..n /\ (p - 1) + 1 = p
    BY <1>1
  <2>2. \A p \in all : f[p] = p - 1 /\ p - 1 \in marks
    BY <1>2, <2>1
  <2>3. f \in [all -> marks]
    <3> HIDE DEF all
    <3> QED
      BY <2>2
  <2>4. \A p, q \in all : f[p] = f[q] => p = q
    BY <2>1, <2>2
  <2>5. \A q \in marks : \E p \in all : f[p] = q
    <3> TAKE q \in marks
    <3>1. q \in 0..n /\ q + 1 \in all /\ (q + 1) - 1 = q
      BY <1>0, <1>1, <1>2
    <3>2. f[q + 1] = q
      BY <2>2, <3>1
    <3> QED
      BY <3>1, <3>2
  <2> HIDE DEF all, f
  <2> QED
    BY <2>3, <2>4, <2>5, Zenon DEF Bijection, Injection, Surjection, IsInjective
<1>7. Cardinality(marks) = Cardinality(all)
  <2> HIDE DEF all, f
  <2>1. ExistsBijection(all, marks)
    BY <1>6, Zenon DEF ExistsBijection
  <2> QED
    BY <1>4, <2>1, FS_Bijection
<1>8. Quoted = {} => open = all
  BY <1>0
<1> HIDE DEF all
<1> QED
  BY <1>0, <1>4, <1>5, <1>7, <1>8

\* Every parameter that the server counts is bound.
LEMMA Bound == QueryInv => PlaceholdersAreBound
<1> SUFFICES ASSUME QueryInv PROVE PlaceholdersAreBound
  OBVIOUS
<1>1. query \in Text
  <2>1. Len(items) >= 1
    BY DEF QueryInv
  <2>2. Made
    BY <2>1, MadeOK DEF QueryInv
  <2> QED
    BY <2>2, QueryOK
<1>2. PICK mark : mark = "?" /\ mark # "\\0"
  <2>1. "?" # "\\0"
    OBVIOUS
  <2> QED
    BY <2>1
<1>3. PICK quote : quote = "'"
  OBVIOUS
<1>4. PICK text \in Text : text = query
  BY <1>1
<1> DEFINE inside == {p \in 1..Len(text) : ~(p = 1 \/ text[p - 1] # quote)}
<1>5. /\ Cardinality(MarksOf(text, mark)) \in Nat
      /\ Cardinality(OpenMarks(text, mark, inside)) \in Nat
      /\ Cardinality(MarksOf(text, mark)) >= Cardinality(OpenMarks(text, mark, inside))
      /\ inside = {} =>
           Cardinality(MarksOf(text, mark)) = Cardinality(OpenMarks(text, mark, inside))
  <2> HIDE DEF inside
  <2> QED
    BY <1>2, MarksCounted
<1>6. OpenMarks(text, mark, inside)
        = {p \in 1..Len(text) : text[p] = mark /\ (p = 1 \/ text[p - 1] # quote)}
  BY DEF OpenMarks
<1>7. parse_bind_params(query) = Cardinality(MarksOf(text, mark))
  BY <1>2, <1>4, Zenon DEF parse_bind_params, PositionsOf, MarksOf
<1>8. Placeholders(query) = Cardinality(OpenMarks(text, mark, inside))
  <2>1. Placeholders(query)
          = Cardinality({p \in 1..Len(text) : text[p] = mark /\ (p = 1 \/ text[p - 1] # quote)})
    BY <1>2, <1>3, <1>4, Zenon DEF Placeholders
  <2> QED
    BY <1>6, <2>1, Zenon
<1>9. ~Contains(query, "'") => inside = {}
  <2> SUFFICES ASSUME ~Contains(query, "'"), NEW p \in inside PROVE FALSE
    OBVIOUS
  <2>1. \A k \in 1..Len(text) : text[k] # quote
    BY <1>3, <1>4, Zenon DEF Contains
  <2>2. p \in 1..Len(text) /\ p # 1 /\ text[p - 1] = quote
    OBVIOUS
  <2>3. p - 1 \in 1..Len(text)
    BY <2>2, <1>4, TextOK
  <2> QED
    BY <2>1, <2>2, <2>3
<1> HIDE DEF inside
<1> QED
  BY <1>5, <1>7, <1>8, <1>9, Zenon DEF PlaceholdersAreBound

\* PlaceholdersAreBound holds: a prepared query that compiles binds at least the
\* parameters that the server counts in its text, and all of them unless a mark
\* stands in quotes (parse_bind_params).
THEOREM MarksAreBound == Spec => []PlaceholdersAreBound
<1> QED
  BY QueryIsBuilt, Bound, PTL

-----------------------------------------------------------------------------
(***************************************************************************)
(* The number of columns.                                                  *)
(***************************************************************************)
\* An item adds at most one column.
LEMMA NoMoreColumns ==
  ASSUME Made, NoCommas
  PROVE  /\ parse_select_columns(query) \in Seq(Text)
         /\ Len(parse_select_columns(query)) =< Len(items)
<1>1. PICK at : Laid(at)
  BY QueryLaid
<1>2. PICK m, stop, cols : ItemByItem(at, m, stop, cols)
  BY <1>1, ItemColumns
<1>3. /\ m \in 1..Len(items) /\ stop \in [1..m -> Nat] /\ cols \in [0..m -> Seq(Text)]
      /\ cols[0] = <<>> /\ cols[m] = parse_select_columns(query)
      /\ \A i \in 1..m :
           cols[i] = IF NameUpTo(at, i, stop[i]) # <<>>
                     THEN Append(cols[i - 1], NameUpTo(at, i, stop[i]))
                     ELSE cols[i - 1]
  BY <1>2, Zenon DEF ItemByItem
<1>4. m \in Nat /\ m =< Len(items)
  BY <1>3 DEF Made
<1> DEFINE D == 0..m
           S == {i \in D : Len(cols[i]) =< i}
<1>5. D \subseteq S
  <2>1. 0 \in S /\ D \subseteq Nat
    BY <1>3, <1>4, EmptySeq
  <2>2. ASSUME NEW i \in D, i # 0 PROVE i - 1 \in D /\ (i - 1 \in S => i \in S)
    <3>1. i - 1 \in D /\ i \in 1..m /\ i \in Nat
      BY <1>4, <2>2
    <3>2. cols[i - 1] \in Seq(Text) /\ cols[i] \in Seq(Text)
      BY <1>3, <3>1
    <3>3. PICK name : name = NameUpTo(at, i, stop[i])
      OBVIOUS
    <3>4. cols[i] = cols[i - 1] \/ cols[i] = Append(cols[i - 1], name)
      BY <1>3, <3>1, <3>3
    <3>5. Len(cols[i]) = Len(cols[i - 1]) \/ Len(cols[i]) = Len(cols[i - 1]) + 1
      BY <3>2, <3>4
    <3>6. PICK a \in Nat, b \in Nat : a = Len(cols[i - 1]) /\ b = Len(cols[i])
      BY <3>2, LenProperties
    <3>7. a =< i - 1 => b =< i
      BY <3>1, <3>5, <3>6
    <3> QED
      BY <3>1, <3>6, <3>7
  <2> HIDE DEF D, S
  <2> QED
    BY <2>1, <2>2, Induction
<1>6. m \in D
  BY <1>4
<1>7. Len(cols[m]) =< m /\ cols[m] \in Seq(Text)
  BY <1>3, <1>5, <1>6
<1>8. PICK c \in Seq(Text) : c = parse_select_columns(query) /\ Len(c) =< m
  BY <1>3, <1>7
<1>9. Len(c) =< Len(items)
  <2>1. Len(c) \in Nat /\ Len(items) \in Nat
    BY LenProperties DEF Made
  <2> QED
    BY <1>4, <1>8, <2>1
<1> QED
  BY <1>8, <1>9

\* The items of a query, and its columns.
LEMMA QueryMade ==
  ASSUME QueryInv
  PROVE  /\ Made /\ columns = parse_select_columns(query)
         /\ Len(items) \in Nat /\ Len(fields) \in Nat /\ Len(items) =< Len(fields)
         /\ fields \in Seq(Text)
<1>1. Len(items) >= 1 /\ Len(fields) \in Nat
  BY LenProperties DEF QueryInv
<1>2. Made
  BY <1>1, MadeOK DEF QueryInv
<1> QED
  BY <1>1, <1>2 DEF QueryInv

\* There are no more columns than items.
LEMMA ColumnsInRange ==
  ASSUME QueryInv, NoCommas
  PROVE  columns \in Seq(Text) /\ Len(columns) \in Nat /\ Len(columns) =< Len(items)
<1>1. Made /\ columns = parse_select_columns(query)
  BY QueryMade
<1>2. columns \in Seq(Text) /\ Len(columns) =< Len(items)
  BY <1>1, NoMoreColumns
<1> QED
  BY <1>2, LenProperties

\* AllItems, spelled out.
LEMMA NoCommasIs == AllItems(LAMBDA item : ~HoldsComma(item)) => NoCommas
BY DEF AllItems, NoCommas

\* So an index that parsing finds is one of the row.
LEMMA InRange == QueryInv => IndexesStayInRange
<1> SUFFICES ASSUME QueryInv, NoCommas PROVE Len(columns) <= Len(fields)
  BY NoCommasIs DEF IndexesStayInRange
<1>1. Len(columns) \in Nat /\ Len(columns) =< Len(items)
  BY ColumnsInRange
<1>2. Len(items) \in Nat /\ Len(fields) \in Nat /\ Len(items) =< Len(fields)
  BY QueryMade
<1> QED
  BY <1>1, <1>2

\* IndexesStayInRange holds: whatever the items are called, parsing finds no
\* more columns than the server returns, unless an expression has a comma.
THEOREM IndexesAreInRange == Spec => []IndexesStayInRange
<1> QED
  BY QueryIsBuilt, InRange, PTL

-----------------------------------------------------------------------------
(***************************************************************************)
(* The name that is read for an item.                                      *)
(***************************************************************************)
\* A part of a text that holds an item, and white space.
AroundItem(text, pos, item, start, end) ==
  /\ ItemOK(item) /\ ItemAt(text, pos, item)
  /\ CharAt(text, AtSpace(pos, item)) \in Whitespace \cup {Comma}
  /\ pos =< start /\ start =< AtTable(pos, item) /\ AtEnd(pos, item) =< end /\ end =< Len(text)
  /\ \A p \in Nat : AtEnd(pos, item) =< p /\ p < end => Blank(text, p)

\* It is trimmed to the item.
LEMMA TrimmedToItem ==
  ASSUME NEW text \in Text, NEW pos \in Nat, NEW item, NEW start \in Nat, NEW end \in Nat,
         AroundItem(text, pos, item, start, end)
  PROVE  /\ AtTable(pos, item) \in Nat /\ AtEnd(pos, item) \in Nat
         /\ AtTable(pos, item) < AtEnd(pos, item) /\ AtEnd(pos, item) =< Len(text)
         /\ Len(text) \in Nat
         /\ trim_bounds(text, start, end)[1] = AtTable(pos, item)
         /\ trim_bounds(text, start, end)[2] = AtEnd(pos, item)
         /\ ColumnBetween(text, start, end)
              = SubSeq(text, extract_column_name(text, AtTable(pos, item), AtEnd(pos, item)) + 1,
                       AtEnd(pos, item))
<1>1. ItemOK(item) /\ ItemAt(text, pos, item) /\ Len(text) \in Nat
  BY TextOK DEF AroundItem
<1>2. PICK s \in Nat, e \in Nat : s = AtTable(pos, item) /\ e = AtEnd(pos, item) /\ s < e
  <2>1. /\ AtTable(pos, item) \in Nat /\ AtEnd(pos, item) \in Nat /\ AtExpr(pos, item) \in Nat
        /\ AtTable(pos, item) =< AtExpr(pos, item)
        /\ AtExpr(pos, item) + 1 =< AtEnd(pos, item)
    BY <1>1, Places
  <2>2. AtTable(pos, item) < AtEnd(pos, item)
    BY <2>1
  <2> QED
    BY <2>1, <2>2
<1>3. pos =< start /\ start =< s /\ e =< end /\ end =< Len(text)
  BY <1>2 DEF AroundItem
<1>4. ~Blank(text, s) /\ ~Blank(text, e - 1) /\ \A p \in start..(s - 1) : Blank(text, p)
  <2>1. /\ ~Blank(text, s) /\ ~Blank(text, e - 1)
        /\ \A p \in Nat : pos =< p /\ p < s => Blank(text, p)
    BY <1>1, <1>2, ItemEdges
  <2>2. \A p \in start..(s - 1) : p \in Nat /\ pos =< p /\ p < s
    BY <1>3
  <2> QED
    BY <2>1, <2>2
<1>5. \A p \in e..(end - 1) : Blank(text, p)
  <2>1. \A p \in Nat : e =< p /\ p < end => Blank(text, p)
    BY <1>2 DEF AroundItem
  <2>2. \A p \in e..(end - 1) : p \in Nat /\ e =< p /\ p < end
    OBVIOUS
  <2> QED
    BY <2>1, <2>2
<1>6. trim_bounds(text, start, end)[1] = s /\ trim_bounds(text, start, end)[2] = e
  BY <1>2, <1>3, <1>4, <1>5, TrimIs
<1>7. ColumnBetween(text, start, end) = SubSeq(text, extract_column_name(text, s, e) + 1, e)
  <2>1. s # e
    BY <1>2
  <2> QED
    BY <1>6, <2>1, Zenon DEF ColumnBetween
<1>8. e =< Len(text)
  BY <1>1, <1>3
<1> QED
  BY <1>1, <1>2, <1>6, <1>7, <1>8

\* An AS in the item, as parsing sees it.
LEMMA MarkInItem ==
  ASSUME NEW text \in Text, NEW pos \in Nat, NEW item, ItemOK(item), ItemAt(text, pos, item),
         CharAt(text, AtSpace(pos, item)) \in Whitespace \cup {Comma},
         NEW s \in Nat, pos =< s,
         NEW m \in Nat, m \in AliasMarks(text, s, AtEnd(pos, item))
  PROVE  \/ /\ AtExpr(pos, item) =< m /\ m + 2 =< AtExpr(pos, item) + Len(ExprOf(item))
            /\ Holds(ExprOf(item), as)
         \/ AliasOf(item) # None /\ m + 3 = AtAlias(pos, item)
         \/ /\ AliasOf(item) # None /\ AtAlias(pos, item) =< m
            /\ Holds(AliasOf(item), as)
<1>1. /\ Keyword(as) /\ Len(as) = 2
  BY KeywordOK
<1>2. PICK x \in Nat, l \in Nat, a \in Nat, e \in Nat, z \in Nat :
        /\ x = AtExpr(pos, item) /\ l = Len(ExprOf(item)) /\ a = AtAlias(pos, item)
        /\ e = AtEnd(pos, item) /\ z = AtSpace(pos, item)
  <2>1. Len(ExprOf(item)) \in Nat
    BY DEF ItemOK
  <2> QED
    BY <2>1, Places
<1>3. /\ x + l =< e /\ e =< z /\ a = x + l + 4 /\ z =< Len(text)
      /\ AliasOf(item) = None => e = x + l
      /\ x + 1 =< e
  <2>1. /\ x + l =< e /\ e =< z /\ a = x + l + 4 /\ x + 1 =< e
        /\ AliasOf(item) = None => e = x + l
    BY <1>2, Places
  <2>2. z =< Len(text)
    BY <1>2 DEF ItemAt
  <2> QED
    BY <2>1, <2>2
<1>4. s < m /\ m + 2 =< e /\ Stands(text, m, as) /\ (m + 2 = e \/ CharAt(text, m + 2) \in Whitespace)
  <2>1. e =< Len(text)
    BY <1>2, <1>3, TextOK
  <2> QED
    BY <1>2, <2>1, MarkIs
<1>5. \/ /\ AtTable(pos, item) =< m /\ m + 2 < AtExpr(pos, item)
         /\ CharAt(text, m + 2) \notin Whitespace
      \/ /\ AtExpr(pos, item) =< m
         /\ m + 2 =< AtExpr(pos, item) + Len(ExprOf(item))
         /\ \/ m + 2 = AtExpr(pos, item) + Len(ExprOf(item))
            \/ CharAt(text, m + 2) \in Whitespace
            => Holds(ExprOf(item), as)
      \/ /\ AliasOf(item) # None /\ AtExpr(pos, item) + Len(ExprOf(item)) < m
         /\ m + 2 < AtAlias(pos, item)
      \/ /\ AliasOf(item) # None /\ AtAlias(pos, item) =< m /\ m + 2 =< AtEnd(pos, item)
         /\ m + 2 = AtEnd(pos, item) \/ CharAt(text, m + 2) \in Whitespace
            => Holds(AliasOf(item), as)
  <2>1. pos =< m /\ m =< AtSpace(pos, item) /\ m + Len(as) =< Len(text)
    <3>1. pos =< m /\ m =< z /\ m + 2 =< Len(text)
      BY <1>3, <1>4, TextOK
    <3> QED
      BY <1>1, <1>2, <3>1
  <2>2. \/ /\ AtTable(pos, item) =< m /\ m + Len(as) < AtExpr(pos, item)
           /\ CharAt(text, m + Len(as)) \notin Whitespace
        \/ /\ AtExpr(pos, item) =< m
           /\ m + Len(as) =< AtExpr(pos, item) + Len(ExprOf(item))
           /\ \/ m + Len(as) = AtExpr(pos, item) + Len(ExprOf(item))
              \/ CharAt(text, m + Len(as)) \in Whitespace
              => Holds(ExprOf(item), as)
        \/ /\ AliasOf(item) # None /\ AtExpr(pos, item) + Len(ExprOf(item)) < m
           /\ m + Len(as) < AtAlias(pos, item)
        \/ /\ AliasOf(item) # None /\ AtAlias(pos, item) =< m /\ m + Len(as) =< AtEnd(pos, item)
           /\ m + Len(as) = AtEnd(pos, item) \/ CharAt(text, m + Len(as)) \in Whitespace
              => Holds(AliasOf(item), as)
    <3>1. Stands(text, m, as) /\ Keyword(as)
      BY <1>1, <1>4
    <3> QED
      BY <2>1, <3>1, KeywordIn
  <2> QED
    BY <1>1, <2>2, Zenon
<1>6. CASE AtTable(pos, item) =< m /\ m + 2 < x /\ CharAt(text, m + 2) \notin Whitespace
  BY <1>3, <1>4, <1>6
<1>7. CASE /\ x =< m /\ m + 2 =< x + l
           /\ m + 2 = x + l \/ CharAt(text, m + 2) \in Whitespace => Holds(ExprOf(item), as)
  <2>1. m + 2 = x + l \/ CharAt(text, m + 2) \in Whitespace
    BY <1>3, <1>4, <1>7
  <2> QED
    BY <1>2, <1>7, <2>1
<1>8. CASE AliasOf(item) # None /\ x + l < m /\ m + 2 < a
  <2>1. m + 3 = a
    BY <1>3, <1>8
  <2> QED
    BY <1>2, <1>8, <2>1
<1>9. CASE /\ AliasOf(item) # None /\ a =< m
           /\ m + 2 = e \/ CharAt(text, m + 2) \in Whitespace => Holds(AliasOf(item), as)
  BY <1>2, <1>4, <1>9
<1> QED
  BY <1>2, <1>5, <1>6, <1>7, <1>8, <1>9

\* An item that has no alias is read under its expression, unless there is an
\* AS in it, or a dot.
LEMMA ExprIsRead ==
  ASSUME NEW text \in Text, NEW pos \in Nat, NEW item, ItemOK(item), ItemAt(text, pos, item),
         CharAt(text, AtSpace(pos, item)) \in Whitespace \cup {Comma},
         AliasOf(item) = None, ~Holds(ExprOf(item), as), ~HoldsDot(item)
  PROVE  SubSeq(text, extract_column_name(text, AtTable(pos, item), AtEnd(pos, item)) + 1,
                AtEnd(pos, item)) = ExprOf(item)
<1>1. PICK s \in Nat, x \in Nat, l \in Nat, e \in Nat :
        /\ s = AtTable(pos, item) /\ x = AtExpr(pos, item) /\ l = Len(ExprOf(item))
        /\ e = AtEnd(pos, item) /\ l >= 1
  <2>1. Len(ExprOf(item)) \in Nat /\ Len(ExprOf(item)) >= 1
    BY DEF ItemOK
  <2> QED
    BY <2>1, Places
<1>2. /\ pos =< s /\ s =< x /\ e = x + l /\ e =< Len(text) /\ Len(text) \in Nat
      /\ x = s + Len(TableOf(item))
  <2>1. pos =< s /\ s =< x /\ e = x + l /\ x = s + Len(TableOf(item))
    BY <1>1, Places
  <2>2. e =< AtSpace(pos, item) /\ AtSpace(pos, item) \in Nat
    BY <1>1, Places
  <2>3. AtSpace(pos, item) =< Len(text)
    BY DEF ItemAt
  <2>4. Len(text) \in Nat
    BY TextOK
  <2> QED
    BY <2>1, <2>2, <2>3, <2>4
<1>10. /\ s \in Nat /\ x \in Nat /\ l \in Nat /\ e \in Nat /\ l >= 1 /\ s =< x /\ e = x + l
  BY <1>1, <1>2
<1>3. AliasMarks(text, s, e) = {}
  <2> SUFFICES ASSUME NEW m \in AliasMarks(text, s, e) PROVE FALSE
    OBVIOUS
  <2>1. m \in Nat
    <3>1. e =< Len(text)
      BY <1>2
    <3>2. AliasMarks(text, s, e) \subseteq 0..e
      BY <1>10, <3>1, MarkIs
    <3> QED
      BY <3>2
  <2> QED
    BY <1>1, <1>2, <2>1, MarkInItem
<1>4. ExprOf(item) \in Text /\ Stands(text, x, ExprOf(item))
  BY <1>1 DEF ItemOK, ItemAt
<1>5. ASSUME NEW p \in Nat, x =< p, p + 2 =< e PROVE CharAt(text, p) # "."
  <2>1. /\ CharAt(text, p) = ExprOf(item)[p - x + 1]
        /\ p - x + 1 \in 1..Len(ExprOf(item))
    <3>1. AtExpr(pos, item) =< p /\ p < AtExpr(pos, item) + Len(ExprOf(item))
      BY <1>1, <1>2, <1>5
    <3> QED
      BY <1>1, <3>1, ItemPositions
  <2>2. p - x + 1 \in 1..(Len(ExprOf(item)) - 1)
    <3>1. p - x + 1 \in 1..(l - 1)
      BY <1>5, <1>10
    <3> QED
      BY <1>1, <3>1
  <2>3. \A i \in 1..(Len(ExprOf(item)) - 1) : ExprOf(item)[i] # "."
    BY Zenon DEF HoldsDot, AliasOf, ExprOf
  <2> QED
    BY <2>1, <2>2, <2>3
<1>6. s < x => CharAt(text, x - 1) = "." /\ CharAt(text, e - 1) # "." /\ x - 1 \in Nat
  <2> SUFFICES ASSUME s < x
               PROVE  CharAt(text, x - 1) = "." /\ CharAt(text, e - 1) # "." /\ x - 1 \in Nat
    OBVIOUS
  <2>1. x - 1 \in Nat /\ s =< x - 1 /\ x - 1 < x
    BY <1>1
  <2>2. CharAt(text, x - 1) = "."
    BY <1>1, <2>1, ItemPositions
  <2>3. PICK q \in Nat : q = e - 1 /\ x =< q /\ q < x + l /\ q - x + 1 = l
    <3>1. e - 1 \in Nat /\ x =< e - 1 /\ e - 1 < x + l /\ (e - 1) - x + 1 = l
      BY <1>10
    <3> QED
      BY <3>1, Zenon
  <2>4. CharAt(text, q) = ExprOf(item)[q - x + 1]
    <3>1. AtExpr(pos, item) =< q /\ q < AtExpr(pos, item) + Len(ExprOf(item))
      BY <1>1, <2>3
    <3> QED
      BY <1>1, <3>1, ItemPositions
  <2>5. ExprOf(item)[Len(ExprOf(item))] # "."
    <3>1. TableOf(item) # None
      <4>1. Len(TableOf(item)) # 0
        BY <1>2
      <4> QED
        BY <4>1, KeywordsOK
    <3> QED
      BY <3>1 DEF ItemOK
  <2> QED
    BY <1>1, <2>1, <2>2, <2>3, <2>4, <2>5
<1>7. PICK y \in Nat :
           /\ y = extract_column_name(text, s, e)
           /\ \/ \E m \in Nat : m \in AliasMarks(text, s, e)
              \/ /\ CharAt(text, e - 1) # "."
                 /\ \E d \in Nat : /\ s =< d /\ d + 2 =< e /\ y = d + 1 /\ CharAt(text, d) = "."
                                   /\ \A p \in y..(e - 2) : CharAt(text, p) # "."
              \/ /\ y = s
                 /\ CharAt(text, e - 1) = "." \/ \A p \in s..(e - 2) : CharAt(text, p) # "."
  <2>1. s < e
    BY <1>10
  <2>2. e =< Len(text)
    BY <1>2
  <2>3. PICK y \in Nat :
           /\ y = extract_column_name(text, s, e)
           /\ \/ \E m \in Nat :
                   /\ m \in AliasMarks(text, s, e) /\ \A k \in AliasMarks(text, s, e) : k =< m
                   /\ m + 2 =< y /\ y =< Len(text)
                   /\ y = Len(text) \/ ~Blank(text, y)
                   /\ \A p \in (m + 2)..(y - 1) : Blank(text, p)
              \/ /\ AliasMarks(text, s, e) = {} /\ CharAt(text, e - 1) # "."
                 /\ \E d \in Nat : /\ s =< d /\ d + 2 =< e /\ y = d + 1 /\ CharAt(text, d) = "."
                                   /\ \A p \in y..(e - 2) : CharAt(text, p) # "."
              \/ /\ AliasMarks(text, s, e) = {} /\ y = s
                 /\ CharAt(text, e - 1) = "." \/ \A p \in s..(e - 2) : CharAt(text, p) # "."
    BY <2>1, <2>2, ExtractOK
  <2> QED
    BY <2>3
<1>8. y = x
  <2>1. CASE \E d \in Nat : /\ s =< d /\ d + 2 =< e /\ y = d + 1 /\ CharAt(text, d) = "."
                            /\ \A p \in y..(e - 2) : CharAt(text, p) # "."
    <3>1. PICK d \in Nat : /\ s =< d /\ d + 2 =< e /\ y = d + 1 /\ CharAt(text, d) = "."
                           /\ \A p \in y..(e - 2) : CharAt(text, p) # "."
      BY <2>1
    <3>2. d < x
      BY <1>1, <1>5, <3>1
    <3>3. CharAt(text, x - 1) = "." /\ x - 1 \in Nat
      BY <1>1, <1>6, <3>1, <3>2
    <3>4. ~(d < x - 1)
      <4>0. y = d + 1 /\ d \in Nat
        BY <3>1
      <4>1. d < x - 1 => x - 1 \in y..(e - 2)
        BY <1>10, <4>0
      <4> QED
        BY <3>1, <3>3, <4>1
    <3> QED
      BY <1>1, <3>1, <3>2, <3>3, <3>4
  <2>2. CASE /\ y = s
             /\ CharAt(text, e - 1) = "." \/ \A p \in s..(e - 2) : CharAt(text, p) # "."
    <3>1. ~(s < x)
      <4> SUFFICES ASSUME s < x PROVE FALSE
        OBVIOUS
      <4>1. CharAt(text, x - 1) = "." /\ CharAt(text, e - 1) # "." /\ x - 1 \in Nat
        BY <1>6
      <4>2. x - 1 \in s..(e - 2)
        <5>1. s < x
          OBVIOUS
        <5> QED
          BY <1>10, <5>1
      <4> QED
        BY <2>2, <4>1, <4>2
    <3> QED
      BY <1>1, <1>2, <2>2, <3>1
  <2> QED
    BY <1>3, <1>7, <2>1, <2>2
<1>9. SubSeq(text, x + 1, x + Len(ExprOf(item))) = ExprOf(item)
  <2>1. x + Len(ExprOf(item)) =< Len(text)
    BY <1>1, <1>2
  <2> QED
    BY <1>4, <2>1, PartIsWord
<1> QED
  BY <1>1, <1>2, <1>7, <1>8, <1>9, Zenon

\* The AS in front of an alias.
AsAt(text, pos, item, q) ==
  /\ q = AtExpr(pos, item) + Len(ExprOf(item))
  /\ CharAt(text, q + 3) = Space /\ Stands(text, q + 1, as)

\* There is one, if the item has an alias.
LEMMA BeforeAlias ==
  ASSUME NEW text \in Text, NEW pos \in Nat, NEW item, ItemOK(item), ItemAt(text, pos, item),
         AliasOf(item) # None
  PROVE  \E q \in Nat : AsAt(text, pos, item, q)
<1>1. PICK q \in Nat :
        /\ q = AtExpr(pos, item) + Len(ExprOf(item))
        /\ CharAt(text, q) = Space /\ CharAt(text, q + 1) = "a"
        /\ CharAt(text, q + 2) = "s" /\ CharAt(text, q + 3) = Space
        /\ q + 4 = AtAlias(pos, item) /\ q + 5 =< AtEnd(pos, item)
        /\ Stands(text, q + 1, as)
  BY AliasChars
<1> QED
  BY <1>1, Zenon DEF AsAt

\* An item that has an alias is read under it, unless there is an AS in that.
LEMMA AliasIsRead ==
  ASSUME NEW text \in Text, NEW pos \in Nat, NEW item, ItemOK(item), ItemAt(text, pos, item),
         CharAt(text, AtSpace(pos, item)) \in Whitespace \cup {Comma},
         AliasOf(item) # None, ~Holds(AliasOf(item), as)
  PROVE  SubSeq(text, extract_column_name(text, AtTable(pos, item), AtEnd(pos, item)) + 1,
                AtEnd(pos, item)) = AliasOf(item)
<1>1. PICK s \in Nat, x \in Nat, l \in Nat, a \in Nat, e \in Nat, n \in Nat :
        /\ s = AtTable(pos, item) /\ x = AtExpr(pos, item) /\ l = Len(ExprOf(item))
        /\ a = AtAlias(pos, item) /\ e = AtEnd(pos, item) /\ n = Len(AliasOf(item))
        /\ l >= 1 /\ n >= 1
  <2>1. Len(ExprOf(item)) \in Nat /\ Len(ExprOf(item)) >= 1
    BY DEF ItemOK
  <2>2. Len(AliasOf(item)) \in Nat /\ Len(AliasOf(item)) >= 1
    BY DEF ItemOK
  <2> QED
    BY <2>1, <2>2, Places
<1>2. /\ pos =< s /\ s =< x /\ a = x + l + 4 /\ e = a + n
      /\ e =< Len(text) /\ Len(text) \in Nat
  <2>1. pos =< s /\ s =< x /\ a = x + l + 4 /\ e = a + n
    BY <1>1, Places
  <2>2. e =< AtSpace(pos, item) /\ AtSpace(pos, item) \in Nat
    BY <1>1, Places
  <2>3. AtSpace(pos, item) =< Len(text)
    BY DEF ItemAt
  <2>4. Len(text) \in Nat
    BY TextOK
  <2> QED
    BY <2>1, <2>2, <2>3, <2>4
<1>12. PICK q \in Nat : AsAt(text, pos, item, q)
  BY BeforeAlias
<1>3. /\ q = x + l /\ CharAt(text, q + 3) = Space /\ Stands(text, q + 1, as)
  BY <1>1, <1>12, Zenon DEF AsAt
<1>11. /\ s \in Nat /\ x \in Nat /\ l \in Nat /\ e \in Nat /\ a \in Nat /\ n \in Nat
       /\ l >= 1 /\ n >= 1 /\ s =< x /\ a = x + l + 4 /\ e = a + n /\ q = x + l
  BY <1>1, <1>2, <1>3
<1>4. q + 4 = a /\ q + 1 \in Nat /\ s < q + 1 /\ (q + 1) + 2 =< e /\ (q + 1) + 2 = q + 3
  BY <1>11
<1>5. q + 1 \in AliasMarks(text, s, e)
  <2>1. CharAt(text, (q + 1) + 2) \in Whitespace
    BY <1>3, <1>4, MarksDiffer
  <2> QED
    BY <1>2, <1>3, <1>4, <2>1, MarkIs
<1>6. PICK y \in Nat :
           /\ y = extract_column_name(text, s, e)
           /\ \E m \in Nat :
                   /\ m \in AliasMarks(text, s, e) /\ \A k \in AliasMarks(text, s, e) : k =< m
                   /\ m + 2 =< y /\ y =< Len(text)
                   /\ y = Len(text) \/ ~Blank(text, y)
                   /\ \A p \in (m + 2)..(y - 1) : Blank(text, p)
  <2>1. s < e
    BY <1>11
  <2>2. AliasMarks(text, s, e) # {}
    BY <1>5
  <2>3. e =< Len(text)
    BY <1>2
  <2> QED
    BY <2>1, <2>2, <2>3, ExtractOK
<1>7. PICK m \in Nat :
        /\ m \in AliasMarks(text, s, e) /\ \A k \in AliasMarks(text, s, e) : k =< m
        /\ m + 2 =< y /\ y =< Len(text)
        /\ y = Len(text) \/ ~Blank(text, y)
        /\ \A p \in (m + 2)..(y - 1) : Blank(text, p)
  BY <1>6
<1>8. m = q + 1
  <2>1. q + 1 =< m
    BY <1>5, <1>7
  <2>2. \/ m + 2 =< x + l
        \/ m + 3 = a
    BY <1>1, <1>2, <1>7, MarkInItem
  <2> QED
    BY <1>3, <1>4, <1>12, <2>1, <2>2
<1>9. y = a
  <2>1. Blank(text, q + 3)
    BY <1>3, MarksDiffer DEF Blank
  <2>2. ~Blank(text, a)
    <3>0. a =< a /\ a < e
      BY <1>11
    <3>1. AtAlias(pos, item) =< a /\ a < AtEnd(pos, item)
      BY <1>1, <3>0
    <3> QED
      BY <3>1, ItemPositions DEF Blank
  <2>3. q + 3 =< y
    BY <1>7, <1>8
  <2>4. y # q + 3
    <3>0. q + 3 < e /\ q + 3 \in Nat
      BY <1>11
    <3>1. q + 3 # Len(text)
      BY <1>2, <3>0
    <3> QED
      BY <1>7, <2>1, <3>1
  <2>5. ~(a < y)
    <3>1. a < y => a \in (m + 2)..(y - 1)
      BY <1>4, <1>8
    <3> QED
      BY <1>7, <2>2, <3>1
  <2> QED
    BY <1>4, <2>3, <2>4, <2>5
<1>10. SubSeq(text, a + 1, a + Len(AliasOf(item))) = AliasOf(item)
  <2>1. AliasOf(item) \in Text /\ Stands(text, a, AliasOf(item))
    BY <1>1 DEF ItemOK, ItemAt
  <2>2. a + Len(AliasOf(item)) =< Len(text)
    BY <1>1, <1>2
  <2> QED
    BY <2>1, <2>2, PartIsWord
<1> QED
  BY <1>1, <1>2, <1>6, <1>9, <1>10, Zenon

\* So an item is read under its name, if that has no AS and no dot in it.
LEMMA ReadsTheName ==
  ASSUME NEW text \in Text, NEW pos \in Nat, NEW item, NEW start \in Nat, NEW end \in Nat,
         AroundItem(text, pos, item, start, end), ~TakenForAs(item), ~HoldsDot(item)
  PROVE  ColumnBetween(text, start, end) = Name(item)
<1>1. /\ ItemOK(item) /\ ItemAt(text, pos, item)
      /\ CharAt(text, AtSpace(pos, item)) \in Whitespace \cup {Comma}
  BY DEF AroundItem
<1>2. ColumnBetween(text, start, end)
        = SubSeq(text, extract_column_name(text, AtTable(pos, item), AtEnd(pos, item)) + 1,
                 AtEnd(pos, item))
  BY TrimmedToItem
<1>3. CASE AliasOf(item) = None
  <2>1. Name(item) = ExprOf(item) /\ ~Holds(ExprOf(item), as)
    BY <1>3, Zenon DEF Name, ExprOf, AliasOf, TakenForAs
  <2> QED
    BY <1>1, <1>2, <1>3, <2>1, ExprIsRead
<1>4. CASE AliasOf(item) # None
  <2>1. Name(item) = AliasOf(item) /\ ~Holds(AliasOf(item), as)
    BY <1>4, Zenon DEF Name, ExprOf, AliasOf, TakenForAs
  <2> QED
    BY <1>1, <1>2, <1>4, <2>1, AliasIsRead
<1> QED
  BY <1>3, <1>4

\* The part of the query that is read for an item.
LEMMA SegmentAround ==
  ASSUME Made, NEW at, Laid(at), NEW i \in 1..Len(items), NEW end \in Nat,
         end = at[i + 1] - 1 \/ (i = Len(items) /\ end = at[i + 1])
  PROVE  /\ AroundItem(query, at[i], items[i], Seg(at, i), end)
         /\ query \in Text /\ at[i] \in Nat /\ Seg(at, i) \in Nat
<1>1. PICK item : item = items[i]
  OBVIOUS
<1>2. PICK pos \in Nat, next \in Nat : pos = at[i] /\ next = at[i + 1]
  BY LaidOK
<1>3. /\ query \in Text /\ ItemOK(item) /\ ItemAt(query, pos, item)
      /\ AtSpace(pos, item) = next - 1
      /\ CharAt(query, next - 1) = IF i < Len(items) THEN Comma ELSE "\n"
  BY <1>1, <1>2, LaidOK
<1>4. Seg(at, i) \in Nat /\ pos =< Seg(at, i) /\ Seg(at, i) =< AtTable(pos, item)
  BY <1>1, <1>2, SegOK
<1>5. AtEnd(pos, item) \in Nat /\ AtEnd(pos, item) =< next - 1 /\ AtSpace(pos, item) \in Nat
  <2>1. /\ AtEnd(pos, item) \in Nat /\ AtSpace(pos, item) \in Nat
        /\ AtEnd(pos, item) =< AtSpace(pos, item)
    BY <1>3, Places
  <2> QED
    BY <1>3, <2>1
<1>6. next - 1 =< end /\ end =< next /\ (end = next => i = Len(items))
  BY <1>2
<1>7. end =< Len(query)
  <2>1. i + 1 \in 1..(Len(items) + 1) /\ Len(items) + 1 \in 1..(Len(items) + 1)
        /\ i + 1 =< Len(items) + 1
    BY DEF Made
  <2>2. next =< at[Len(items) + 1] /\ at[Len(items) + 1] =< Len(query)
        /\ at[Len(items) + 1] \in Nat
    BY <1>2, <2>1, LaidInOrder
  <2>3. Len(query) \in Nat
    BY <1>3, TextOK
  <2> QED
    BY <1>6, <2>2, <2>3
<1>8. ASSUME NEW p \in Nat, AtEnd(pos, item) =< p, p < end PROVE Blank(query, p)
  <2>1. CASE p < next - 1
    <3>1. p < AtSpace(pos, item)
      BY <1>3, <2>1
    <3> QED
      BY <1>3, <1>8, <3>1, ItemEdges
  <2>2. CASE ~(p < next - 1)
    <3>1. p = next - 1 /\ i = Len(items)
      BY <1>6, <1>8, <2>2
    <3>2. ~(i < Len(items))
      BY <3>1 DEF Made
    <3> QED
      BY <1>3, <3>1, <3>2, MarksDiffer DEF Blank
  <2> QED
    BY <2>1, <2>2
<1>9. CharAt(query, AtSpace(pos, item)) \in Whitespace \cup {Comma}
  BY <1>3, MarksDiffer
<1>10. AtEnd(pos, item) =< end
  BY <1>5, <1>6
<1>11. AroundItem(query, pos, item, Seg(at, i), end)
  BY <1>3, <1>4, <1>7, <1>8, <1>9, <1>10, Zenon DEF AroundItem
<1> QED
  BY <1>1, <1>2, <1>3, <1>4, <1>11

\* An item that is read up to its end.
Whole(at, m, stop, i) == i < m \/ (m = Len(items) /\ stop[m] = at[Len(items) + 1])

\* The part that is read for it holds all of it.
LEMMA WholeAround ==
  ASSUME Made, NEW at, Laid(at), NEW m, NEW stop, Stops(at, m, stop), NEW i \in 1..m,
         Whole(at, m, stop, i)
  PROVE  /\ AroundItem(query, at[i], items[i], Seg(at, i), stop[i])
         /\ query \in Text /\ at[i] \in Nat /\ Seg(at, i) \in Nat /\ stop[i] \in Nat
         /\ i \in 1..Len(items)
<1>1. /\ m \in 1..Len(items) /\ stop \in [1..m -> Nat]
      /\ i < m => stop[i] = at[i + 1] - 1
  BY DEF Stops
<1>2. i \in 1..Len(items) /\ stop[i] \in Nat
  BY <1>1 DEF Made
<1>3. stop[i] = at[i + 1] - 1 \/ (i = Len(items) /\ stop[i] = at[i + 1])
  <2>1. CASE i < m
    BY <1>1, <2>1
  <2>2. CASE ~(i < m)
    <3>1. i = m
      BY <1>1, <2>2
    <3> QED
      BY <2>2, <3>1 DEF Whole
  <2> QED
    BY <2>1, <2>2
<1> QED
  BY <1>2, <1>3, SegmentAround

\* It is read under its name, if that has no AS and no dot in it.
LEMMA NameIsRead ==
  ASSUME Made, NEW at, Laid(at), NEW m, NEW stop, Stops(at, m, stop), NEW i \in 1..m,
         Whole(at, m, stop, i), ~TakenForAs(items[i]), ~HoldsDot(items[i])
  PROVE  NameUpTo(at, i, stop[i]) = Name(items[i])
<1>1. PICK item : item = items[i]
  OBVIOUS
<1>2. PICK pos \in Nat, start \in Nat, end \in Nat :
        pos = at[i] /\ start = Seg(at, i) /\ end = stop[i]
  BY WholeAround
<1>3. query \in Text /\ AroundItem(query, pos, item, start, end)
  BY <1>1, <1>2, WholeAround
<1>4. ColumnBetween(query, start, end) = Name(item)
  BY <1>1, <1>3, ReadsTheName
<1> QED
  BY <1>1, <1>2, <1>4, Zenon DEF NameUpTo

\* No name is empty.
LEMMA NamesOK ==
  ASSUME Made, NEW i \in 1..Len(items)
  PROVE  Name(items[i]) \in Text /\ Name(items[i]) # <<>>
<1>1. PICK item \in Items : item = items[i] /\ ItemOK(item)
  BY DEF Made
<1>2. ExprOf(item) # None /\ (Name(item) = ExprOf(item) \/ (Name(item) = AliasOf(item) /\ AliasOf(item) # None))
  <2>1. ExprOf(item) # None
    BY <1>1, KeywordsOK DEF ItemOK
  <2> QED
    BY <2>1, Zenon DEF Name, ExprOf, AliasOf
<1> QED
  BY <1>1, <1>2, ReturnedOK DEF None

-----------------------------------------------------------------------------
(***************************************************************************)
(* Lists of regular items.                                                 *)
(***************************************************************************)
AllRegular == \A i \in 1..Len(items) : Regular(items[i])

\* None of them is misread.
LEMMA RegularIs ==
  ASSUME AllRegular
  PROVE  /\ NoCommas
         /\ \A i \in 1..Len(items) : /\ ~TakenForFrom(items[i]) /\ ~TakenForAs(items[i])
                                     /\ ~HoldsDot(items[i])
BY Zenon DEF AllRegular, Regular, NoCommas

\* The columns are the names of the items.
LEMMA RegularColumns ==
  ASSUME Made, AllRegular
  PROVE  parse_select_columns(query) = NamesOfItems
<1>0. NoCommas
  BY RegularIs
<1>1. PICK at : Laid(at)
  BY QueryLaid
<1>2. PICK m, stop, cols : ItemByItem(at, m, stop, cols)
  BY <1>0, <1>1, ItemColumns
<1>3. /\ m \in 1..Len(items) /\ stop \in [1..m -> Nat] /\ cols \in [0..m -> Seq(Text)]
      /\ cols[0] = <<>> /\ cols[m] = parse_select_columns(query)
      /\ \A i \in 1..m :
           cols[i] = IF NameUpTo(at, i, stop[i]) # <<>>
                     THEN Append(cols[i - 1], NameUpTo(at, i, stop[i]))
                     ELSE cols[i - 1]
      /\ Stops(at, m, stop)
  BY <1>2, Zenon DEF ItemByItem
<1>4. m = Len(items) /\ stop[m] = at[Len(items) + 1]
  <2>1. (\A i \in 1..Len(items) : ~TakenForFrom(items[i])) =>
          m = Len(items) /\ stop[m] = at[Len(items) + 1]
    BY <1>2, Zenon DEF ItemByItem
  <2> QED
    BY <2>1, RegularIs
<1>5. m \in Nat /\ m >= 1
  BY <1>4 DEF Made
<1>6. ASSUME NEW i \in 1..m
      PROVE  Name(items[i]) \in Text /\ cols[i] = Append(cols[i - 1], Name(items[i]))
  <2>1. i \in 1..Len(items)
    BY <1>4
  <2>2. Name(items[i]) \in Text /\ Name(items[i]) # <<>>
    BY <2>1, NamesOK
  <2>3. NameUpTo(at, i, stop[i]) = Name(items[i])
    <3>1. Whole(at, m, stop, i)
      BY <1>4 DEF Whole
    <3>2. ~TakenForAs(items[i]) /\ ~HoldsDot(items[i])
      BY <2>1, RegularIs
    <3>3. Made /\ Laid(at) /\ Stops(at, m, stop)
      BY <1>1, <1>3
    <3> QED
      BY <3>1, <3>2, <3>3, NameIsRead
  <2> QED
    BY <1>3, <2>2, <2>3, Zenon
<1> DEFINE D == 0..m
           S == {i \in D : Len(cols[i]) = i /\ \A k \in 1..i : cols[i][k] = Name(items[k])}
<1>7. D \subseteq S
  <2>1. 0 \in S /\ D \subseteq Nat
    BY <1>3, <1>5, EmptySeq
  <2>2. ASSUME NEW i \in D, i # 0 PROVE i - 1 \in D /\ (i - 1 \in S => i \in S)
    <3>1. i - 1 \in D /\ i \in 1..m /\ i \in Nat
      BY <1>5, <2>2
    <3> SUFFICES ASSUME i - 1 \in S PROVE i \in S
      BY <3>1
    <3>2. PICK c \in Seq(Text), name \in Text :
            /\ c = cols[i - 1] /\ name = Name(items[i]) /\ cols[i] = Append(c, name)
      BY <1>3, <1>6, <3>1
    <3>3. Len(c) = i - 1 /\ \A k \in 1..(i - 1) : c[k] = Name(items[k])
      BY <3>2
    <3>4. /\ Len(Append(c, name)) = Len(c) + 1 /\ Append(c, name)[Len(c) + 1] = name
          /\ \A k \in 1..Len(c) : Append(c, name)[k] = c[k]
      BY AppendProperties
    <3>5. (i - 1) + 1 = i /\ \A k \in 1..i : k = i \/ k \in 1..(i - 1)
      BY <3>1
    <3>6. Len(cols[i]) = i /\ \A k \in 1..i : cols[i][k] = Name(items[k])
      <4>1. Len(Append(c, name)) = i
        BY <3>3, <3>4, <3>5
      <4>2. Append(c, name)[i] = name
        BY <3>3, <3>4, <3>5
      <4>3. \A k \in 1..(i - 1) : Append(c, name)[k] = Name(items[k])
        BY <3>3, <3>4
      <4> QED
        BY <3>2, <3>5, <4>1, <4>2, <4>3
    <3> QED
      BY <3>6
  <2> HIDE DEF D, S
  <2> QED
    BY <2>1, <2>2, Induction
<1>8. PICK c \in Seq(Text) : c = cols[m] /\ Len(c) = m /\ \A k \in 1..m : c[k] = Name(items[k])
  <2>1. m \in D
    BY <1>5
  <2> QED
    BY <1>3, <1>7, <2>1
<1>9. c = NamesOfItems
  <2>1. c \in [1..m -> Text]
    BY <1>8, LenProperties
  <2>2. c = [k \in 1..m |-> Name(items[k])]
    BY <1>8, <2>1
  <2> QED
    BY <1>4, <2>2 DEF NamesOfItems
<1> QED
  BY <1>3, <1>8, <1>9

\* So are the fields, if there is no wildcard.
LEMMA Found == QueryInv => FindsTheColumns
<1> SUFFICES ASSUME QueryInv, \A i \in 1..Len(items) : Regular(items[i]) /\ ~Wildcard(items[i])
             PROVE  columns = fields
  BY DEF FindsTheColumns, AllItems
<1>1. AllRegular
  BY DEF AllRegular
<1>2. Made /\ columns = parse_select_columns(query)
  BY QueryMade
<1>3. columns = NamesOfItems
  BY <1>1, <1>2, RegularColumns
<1>4. fields = NamesOfItems
  BY DEF QueryInv
<1> QED
  BY <1>3, <1>4

\* FindsTheColumns holds: the columns that parsing finds in a list of regular
\* items are those that the server returns, in its order and under its names,
\* and none is dropped for want of a place (parse_select_columns).
THEOREM ColumnsAreFound == Spec => []FindsTheColumns
<1> QED
  BY QueryIsBuilt, Found, PTL

-----------------------------------------------------------------------------
(***************************************************************************)
(* The map from the names of the columns to their indexes.                 *)
(***************************************************************************)
\* How many columns go into the map.
LEMMA MappedOK ==
  ASSUME NEW cols \in Seq(Text), NEW names \in Seq(Text)
  PROVE  \E n \in Nat :
           /\ NamesMapped(cols, names) = SubSeq(names, 1, n) /\ n =< Len(names)
           /\ has_wildcard_column(cols) => n = Len(names)
           /\ ~has_wildcard_column(cols) /\ Len(cols) =< Len(names) => n = Len(cols)
<1>1. PICK a \in Nat, b \in Nat : a = Len(cols) /\ b = Len(names)
  BY LenProperties
<1>2. SubSeq(names, 1, b) = names
  BY <1>1
<1>3. CASE has_wildcard_column(cols)
  <2>1. NamesMapped(cols, names) = names
    BY <1>3, Zenon DEF NamesMapped
  <2> QED
    BY <1>1, <1>2, <1>3, <2>1
<1>4. CASE ~has_wildcard_column(cols)
  <2>1. PICK n : n = Min({a, b})
    OBVIOUS
  <2>2. n \in {a, b} /\ n \in Nat /\ \A y \in {a, b} : n =< y
    BY <2>1, MinIsLeast
  <2>3. n =< b /\ (a =< b => n = a)
    BY <2>2
  <2>4. NamesMapped(cols, names) = SubSeq(names, 1, n)
    BY <1>1, <1>4, <2>1, Zenon DEF NamesMapped
  <2> QED
    BY <1>1, <1>4, <2>2, <2>3, <2>4
<1> QED
  BY <1>3, <1>4

\* The places of a name.
PlacesOf(names, n, name) == {i \in 1..n : names[i] = name}

\* What the map holds.
LEMMA MapIs ==
  ASSUME NEW names \in Seq(Text), NEW n \in Nat, n =< Len(names),
         NEW cols, NamesMapped(cols, names) = SubSeq(names, 1, n)
  PROVE  /\ DOMAIN column_map(cols, names) = {names[k] : k \in 1..n}
         /\ \A k \in 1..n :
              column_map(cols, names)[names[k]] = Max(PlacesOf(names, n, names[k])) - 1
<1>1. PICK listed \in Seq(Text) : listed = SubSeq(names, 1, n)
  BY SubSeqProperties
<1>2. Len(listed) = n /\ DOMAIN listed = 1..n /\ \A k \in 1..n : listed[k] = names[k]
  BY <1>1, SubSeqProperties
<1>3. column_map(cols, names) =
        [name \in Range(listed) |-> Max({i \in 1..n : listed[i] = name}) - 1]
  BY <1>1, <1>2, Zenon DEF column_map
<1>4. Range(listed) = {names[k] : k \in 1..n}
  BY <1>2 DEF Range
<1>5. ASSUME NEW k \in 1..n
      PROVE  column_map(cols, names)[names[k]] = Max(PlacesOf(names, n, names[k])) - 1
  <2>1. names[k] \in Range(listed)
    BY <1>4
  <2>2. {i \in 1..n : listed[i] = names[k]} = PlacesOf(names, n, names[k])
    BY <1>2 DEF PlacesOf
  <2> QED
    BY <1>3, <2>1, <2>2, Zenon
<1>6. DOMAIN column_map(cols, names) = Range(listed)
  BY <1>3, Zenon
<1> QED
  BY <1>4, <1>5, <1>6

\* What a view is looked up as.
LEMMA ViewIs ==
  /\ \A chars, rest : data(View(chars, rest)) = chars \o rest
  /\ \A chars \in Text : data(View(chars, None)) = chars
<1>1. \A chars, rest : data(View(chars, rest)) = chars \o rest
  BY DEF data, View
<1>2. ASSUME NEW chars \in Text PROVE chars \o None = chars
  BY ConcatEmptySeq DEF Text, None
<1> QED
  BY <1>1, <1>2, Zenon

\* A name is found at the last column of that name that is in the map.
LEMMA IndexIs ==
  ASSUME NEW names \in Seq(Text), NEW n \in Nat, n =< Len(names),
         NEW cols, NamesMapped(cols, names) = SubSeq(names, 1, n),
         NEW name, NEW view, data(view) = name
  PROVE  \/ IndexOfName(cols, names, view) = NotFound /\ \A k \in 1..n : names[k] # name
         \/ \E i \in Nat : /\ IndexOfName(cols, names, view) = i
                           /\ i < n /\ names[i + 1] = name
                           /\ \A k \in 1..n : names[k] = name => k =< i + 1
<1>1. PICK map : map = column_map(cols, names)
  OBVIOUS
<1>2. DOMAIN map = {names[k] : k \in 1..n}
  BY <1>1, MapIs
<1>3. IndexOfName(cols, names, view) = IF name \in DOMAIN map THEN map[name] ELSE NotFound
  BY <1>1, Zenon DEF IndexOfName
<1>4. CASE name \notin DOMAIN map
  BY <1>2, <1>3, <1>4
<1>5. CASE name \in DOMAIN map
  <2>1. PICK k \in 1..n : name = names[k]
    BY <1>2, <1>5
  <2>2. PICK S : S = {i \in 1..n : names[i] = name}
    OBVIOUS
  <2>3. map[name] = Max(S) - 1
    <3>1. column_map(cols, names)[names[k]] = Max(PlacesOf(names, n, names[k])) - 1
      <4>1. k \in 1..n
        BY <2>1
      <4> QED
        BY <4>1, MapIs
    <3> QED
      BY <1>1, <2>1, <2>2, <3>1, Zenon DEF PlacesOf
  <2>4. S \subseteq 0..n /\ S # {}
    BY <2>1, <2>2
  <2>5. PICK x \in Nat : x = Max(S) /\ x \in S /\ \A y \in S : x >= y
    BY <2>4, MaxIsGreatest
  <2>6. PICK i \in Nat : i = x - 1 /\ i < n /\ i + 1 = x
    <3>1. x \in 1..n
      BY <2>2, <2>5
    <3>2. x - 1 \in Nat /\ x - 1 < n /\ (x - 1) + 1 = x
      BY <3>1
    <3> QED
      BY <3>2
  <2>7. names[i + 1] = name /\ \A y \in 1..n : names[y] = name => y =< i + 1
    BY <2>2, <2>5, <2>6
  <2>8. IndexOfName(cols, names, view) = i
    BY <1>3, <1>5, <2>3, <2>5, <2>6
  <2> QED
    BY <2>6, <2>7, <2>8
<1> QED
  BY <1>4, <1>5

\* The map has no more names than it has columns, and as many if they differ.
LEMMA MapSizeOK ==
  ASSUME NEW names \in Seq(Text), NEW n \in Nat, n =< Len(names),
         NEW cols, NamesMapped(cols, names) = SubSeq(names, 1, n)
  PROVE  /\ MapSize(cols, names) \in Nat /\ MapSize(cols, names) =< n
         /\ IsInjective(names) => MapSize(cols, names) = n
<1> DEFINE R == {names[k] : k \in 1..n}
           f == [k \in 1..n |-> names[k]]
<1>1. MapSize(cols, names) = Cardinality(R)
  <2>1. DOMAIN column_map(cols, names) = R
    BY MapIs
  <2> QED
    BY <2>1, Zenon DEF MapSize
<1>2. IsFiniteSet(1..n) /\ Cardinality(1..n) = n
  BY FS_Interval
<1>3. f \in Surjection(1..n, R)
  BY DEF Surjection
<1>4. /\ IsFiniteSet(R) /\ Cardinality(R) =< Cardinality(1..n)
      /\ Cardinality(R) = Cardinality(1..n) <=> f \in Injection(1..n, R)
  <2> HIDE DEF f, R
  <2> QED
    BY <1>2, <1>3, FS_Surjection
<1>5. Cardinality(R) \in Nat
  <2> HIDE DEF R
  <2> QED
    BY <1>4, FS_CardinalityType
<1>6. IsInjective(names) => f \in Injection(1..n, R)
  <2> SUFFICES ASSUME IsInjective(names) PROVE f \in Injection(1..n, R)
    OBVIOUS
  <2>1. 1..n \subseteq DOMAIN names
    <3>1. DOMAIN names = 1..Len(names) /\ Len(names) \in Nat
      BY LenProperties
    <3> QED
      BY <3>1
  <2>2. \A i, k \in 1..n : f[i] = f[k] => i = k
    BY <2>1 DEF IsInjective
  <2>3. f \in [1..n -> R] /\ DOMAIN f = 1..n
    OBVIOUS
  <2>4. IsInjective(f)
    BY <2>2, <2>3 DEF IsInjective
  <2> QED
    BY <2>2, <2>3, <2>4 DEF Injection
<1> HIDE DEF f, R
<1> QED
  BY <1>1, <1>2, <1>4, <1>5, <1>6

\* Of a list of regular items, either a wildcard is found or the fields are.
LEMMA RegularFields ==
  ASSUME QueryInv, AllRegular
  PROVE  /\ columns \in Seq(Text) /\ fields \in Seq(Text)
         /\ has_wildcard_column(columns) \/ columns = fields
<1>1. Made /\ columns = parse_select_columns(query) /\ fields \in Seq(Text)
  BY QueryMade
<1>2. columns = NamesOfItems
  BY <1>1, RegularColumns
<1>3. columns \in Seq(Text)
  BY ColumnsInRange, RegularIs
<1>4. ASSUME ~has_wildcard_column(columns) PROVE columns = fields
  <2>1. ASSUME NEW i \in 1..Len(items), Wildcard(items[i]) PROVE FALSE
    <3>1. PICK item \in Items : item = items[i]
      BY DEF QueryInv
    <3>2. ExprOf(item) = star
      BY <2>1, <3>1, Zenon DEF Wildcard, ExprOf
    <3>3. AliasOf(item) = None
      BY <3>1, <3>2, ItemIsOK DEF ItemOK
    <3>4. Name(item) = star
      BY <3>2, <3>3, Zenon DEF Name, ExprOf, AliasOf
    <3>5. i \in 1..Len(columns) /\ columns[i] = star
      <4>1. PICK n \in Nat : n = Len(items)
        BY <1>1 DEF Made
      <4>2. NamesOfItems = [k \in 1..n |-> Name(items[k])]
        BY <4>1, Zenon DEF NamesOfItems
      <4>3. NamesOfItems[i] = star /\ DOMAIN NamesOfItems = 1..n
        BY <3>1, <3>4, <4>1, <4>2
      <4>4. DOMAIN columns = 1..Len(columns)
        BY <1>3, LenProperties
      <4> QED
        BY <1>2, <4>1, <4>3, <4>4
    <3>6. has_wildcard_column(columns)
      BY <3>5 DEF has_wildcard_column, Contains, star
    <3> QED
      BY <1>4, <3>6
  <2>2. fields = NamesOfItems
    BY <2>1 DEF QueryInv
  <2> QED
    BY <1>2, <2>2
<1> QED
  BY <1>1, <1>3, <1>4

\* AllItems(Regular), spelled out.
LEMMA AllRegularIs == AllItems(Regular) => AllRegular
BY DEF AllItems, AllRegular

\* What an accessor with an index is checked against.
LEMMA CountOK ==
  ASSUME QueryInv, NoCommas
  PROVE  \E n, count, size \in Nat :
           /\ NamesMapped(columns, fields) = SubSeq(fields, 1, n)
           /\ n =< size /\ size = Len(fields)
           /\ count = column_count(columns, fields) /\ count =< n
           /\ has_wildcard_column(columns) => n = size /\ (IsInjective(fields) => count = n)
           /\ ~has_wildcard_column(columns) => n = Len(columns) /\ count = n
<1>1. columns \in Seq(Text) /\ Len(columns) \in Nat /\ Len(columns) =< Len(items)
  BY ColumnsInRange
<1>2. Len(items) \in Nat /\ Len(fields) \in Nat /\ Len(items) =< Len(fields) /\ fields \in Seq(Text)
  BY QueryMade
<1>3. Len(columns) =< Len(fields)
  BY <1>1, <1>2
<1>4. PICK n \in Nat :
        /\ NamesMapped(columns, fields) = SubSeq(fields, 1, n) /\ n =< Len(fields)
        /\ has_wildcard_column(columns) => n = Len(fields)
        /\ ~has_wildcard_column(columns) /\ Len(columns) =< Len(fields) => n = Len(columns)
  BY <1>1, <1>2, MappedOK
<1>5. /\ MapSize(columns, fields) \in Nat /\ MapSize(columns, fields) =< n
      /\ IsInjective(fields) => MapSize(columns, fields) = n
  BY <1>2, <1>4, MapSizeOK
<1>6. column_count(columns, fields) =
        IF has_wildcard_column(columns) THEN MapSize(columns, fields) ELSE Len(columns)
  BY Zenon DEF column_count
<1>7. CASE has_wildcard_column(columns)
  <2>1. column_count(columns, fields) = MapSize(columns, fields)
    BY <1>6, <1>7
  <2> QED
    BY <1>2, <1>4, <1>5, <1>7, <2>1
<1>8. CASE ~has_wildcard_column(columns)
  <2>1. column_count(columns, fields) = n /\ n = Len(columns)
    BY <1>3, <1>4, <1>6, <1>8
  <2> QED
    BY <1>2, <1>4, <1>8, <2>1
<1> QED
  BY <1>7, <1>8

-----------------------------------------------------------------------------
(***************************************************************************)
(* What is read for an index and for a name.                               *)
(***************************************************************************)
LEMMA Indexes == QueryInv => EveryColumnHasAnIndex
<1> SUFFICES ASSUME QueryInv PROVE EveryColumnHasAnIndex
  OBVIOUS
<1>1. ASSUME NoCommas, NEW i \in 0..Len(fields)
      PROVE  IndexChecked(columns, fields, i) < Len(fields)
  <2>1. PICK count \in Nat, size \in Nat :
          count = column_count(columns, fields) /\ size = Len(fields) /\ count =< size
    <3>1. PICK n \in Nat, count \in Nat, size \in Nat :
            n =< size /\ size = Len(fields) /\ count = column_count(columns, fields) /\ count =< n
      BY <1>1, CountOK
    <3>2. count =< size
      BY <3>1
    <3> QED
      BY <3>1, <3>2
  <2>2. i \in Nat
    BY <1>1, <2>1
  <2>3. IndexChecked(columns, fields, i) = IF i < count THEN i ELSE -1
    BY <2>1, Zenon DEF IndexChecked, NotFound
  <2> QED
    BY <2>1, <2>2, <2>3
<1>2. ASSUME AllRegular, has_wildcard_column(columns) => IsInjective(fields),
             NEW i \in 0..(Len(fields) - 1)
      PROVE  IndexChecked(columns, fields, i) = i
  <2>1. NoCommas
    BY <1>2, RegularIs
  <2>2. PICK n \in Nat, count \in Nat, size \in Nat :
          /\ n =< size /\ size = Len(fields)
          /\ count = column_count(columns, fields)
          /\ has_wildcard_column(columns) => n = size /\ (IsInjective(fields) => count = n)
          /\ ~has_wildcard_column(columns) => n = Len(columns) /\ count = n
    BY <2>1, CountOK
  <2>3. count = size
    BY <1>2, <2>2, RegularFields
  <2>4. i < count
    BY <1>2, <2>2, <2>3
  <2> QED
    BY <2>2, <2>4, Zenon DEF IndexChecked
<1>3. /\ NoCommas => \A i \in 0..Len(fields) : IndexChecked(columns, fields, i) < Len(fields)
      /\ AllRegular /\ (has_wildcard_column(columns) => IsInjective(fields)) =>
           \A i \in 0..(Len(fields) - 1) : IndexChecked(columns, fields, i) = i
  BY <1>1, <1>2
<1> QED
  BY <1>3, NoCommasIs, AllRegularIs DEF EveryColumnHasAnIndex

\* EveryColumnHasAnIndex holds: an index that is checked is one of the server's
\* row, and every column has one, of regular lists and of wildcards whose names
\* differ (column_count).
THEOREM ColumnsHaveIndexes == Spec => []EveryColumnHasAnIndex
<1> QED
  BY QueryIsBuilt, Indexes, PTL

\* A name is found in the map under the index of a field of that name.
LEMMA Lookups == QueryInv => LookupsFindTheName
<1> SUFFICES ASSUME QueryInv PROVE LookupsFindTheName
  OBVIOUS
<1> DEFINE Buffer(f, rest) == IF rest = None THEN fields[f] ELSE fields[f] \o rest
           ReadsIt(f, rest) ==
             LET i == IndexOfName(columns, fields, View(fields[f], rest)) IN
             i # NotFound => /\ i < Len(fields) /\ fields[i + 1] = Buffer(f, rest)
<1>5. fields \in Seq(Text) /\ \A f \in 1..Len(fields) : fields[f] \in Text
  <2>1. fields \in Seq(Text)
    BY QueryMade
  <2> QED
    BY <2>1, ElementOfSeq
<1>1. ASSUME NoCommas, NEW f \in 1..Len(fields), NEW rest \in Rests \cup {None}
      PROVE  ReadsIt(f, rest)
  <2>1. PICK n \in Nat, size \in Nat :
          NamesMapped(columns, fields) = SubSeq(fields, 1, n) /\ n =< size /\ size = Len(fields)
    BY <1>1, CountOK
  <2>2. PICK name : name = Buffer(f, rest)
    OBVIOUS
  <2>3. data(View(fields[f], rest)) = name
    BY <1>1, <1>5, <2>2, ViewIs, Zenon
  <2>4. PICK view : view = View(fields[f], rest) /\ data(view) = name
    BY <2>3
  <2>5. \/ IndexOfName(columns, fields, view) = NotFound
        \/ \E i \in Nat : /\ IndexOfName(columns, fields, view) = i
                          /\ i < n /\ fields[i + 1] = name
    BY <1>5, <2>1, <2>4, IndexIs
  <2>6. IndexOfName(columns, fields, view) # NotFound
          => IndexOfName(columns, fields, view) < Len(fields)
               /\ fields[IndexOfName(columns, fields, view) + 1] = name
    BY <2>1, <2>5
  <2> QED
    BY <2>2, <2>4, <2>6, Zenon
<1>2. ASSUME AllRegular, NEW f \in 1..Len(fields)
      PROVE  IndexOfName(columns, fields, View(fields[f], None)) >= f - 1
  <2>1. fields \in Seq(Text) /\ (has_wildcard_column(columns) \/ columns = fields)
    BY <1>2, RegularFields
  <2>2. PICK n \in Nat, size \in Nat :
          /\ NamesMapped(columns, fields) = SubSeq(fields, 1, n) /\ n =< size /\ size = Len(fields)
          /\ has_wildcard_column(columns) => n = size
          /\ ~has_wildcard_column(columns) => n = Len(columns)
    BY <1>2, RegularIs, CountOK
  <2>3. n = Len(fields)
    BY <2>1, <2>2
  <2>6. PICK view : view = View(fields[f], None) /\ data(view) = fields[f]
    BY <1>2, <1>5, ViewIs
  <2>4. PICK i \in Nat : /\ IndexOfName(columns, fields, view) = i
                         /\ \A k \in 1..n : fields[k] = fields[f] => k =< i + 1
    BY <1>2, <2>1, <2>2, <2>3, <2>6, IndexIs
  <2>5. f =< i + 1 /\ f \in Nat
    BY <1>2, <2>3, <2>4
  <2> QED
    BY <2>4, <2>5, <2>6
<1>3. ASSUME AllRegular, ~has_wildcard_column(columns), NEW f \in 1..Len(fields)
      PROVE  /\ column_index(columns, fields[f]) \in 0..(f - 1)
             /\ column_name(columns, column_index(columns, fields[f])) = fields[f]
  <2>1. columns = fields
    BY <1>3, RegularFields
  <2>2. PICK n \in Nat : n = Len(columns) /\ f \in 1..n
    BY <1>3, <2>1, QueryMade
  <2>3. PICK S : S = {i \in 1..n : columns[i] = fields[f]}
    OBVIOUS
  <2>4. f \in S /\ S \subseteq Nat /\ S # {}
    BY <2>1, <2>2, <2>3
  <2>5. PICK x \in Nat : x = Min(S) /\ x \in S /\ \A y \in S : x =< y
    BY <2>4, MinIsLeast
  <2>6. column_index(columns, fields[f]) = x - 1
    BY <2>2, <2>3, <2>4, <2>5, Zenon DEF column_index, FirstPlace
  <2>7. x >= 1 /\ x =< f /\ f \in Nat /\ columns[x] = fields[f]
    BY <2>2, <2>3, <2>4, <2>5
  <2>8. x - 1 \in 0..(f - 1) /\ (x - 1) + 1 = x
    BY <2>7
  <2> QED
    BY <2>6, <2>7, <2>8, Zenon DEF column_name
<1>4. /\ NoCommas => \A f \in 1..Len(fields), rest \in Rests \cup {None} : ReadsIt(f, rest)
      /\ AllRegular =>
           \A f \in 1..Len(fields) :
             /\ IndexOfName(columns, fields, View(fields[f], None)) >= f - 1
             /\ ~has_wildcard_column(columns) =>
                  column_index(columns, fields[f]) \in 0..(f - 1)
                    /\ column_name(columns, column_index(columns, fields[f])) = fields[f]
  <2> HIDE DEF ReadsIt
  <2> QED
    BY <1>1, <1>2, <1>3
<1> QED
  BY <1>4, NoCommasIs, AllRegularIs DEF LookupsFindTheName

\* LookupsFindTheName holds: a name that is looked up at run time never reads a
\* column of another name than its buffer holds, its own where the view ends with
\* the buffer, and of regular lists every such name is found, at run time and at
\* compile time (column_map, column_index).
THEOREM NamesAreFound == Spec => []LookupsFindTheName
<1> QED
  BY QueryIsBuilt, Lookups, PTL

\* No list is so long that the proxy's index for a name that is not there counts.
LEMMA FieldsFewer ==
  ASSUME QueryInv
  PROVE  Len(fields) =< NoColumn /\ NoColumn \in Int
<1>1. PICK n \in Nat, w \in Nat, size \in Nat :
        n = Len(items) /\ w = Len(TableColumns) /\ size = Len(fields)
  <2>1. TableColumns \in Seq(Text)
    BY QueryAssumption
  <2> QED
    BY <2>1, QueryMade, LenProperties
<1>2. n =< MaxItems /\ size =< n * w /\ MaxItems \in Nat /\ MaxItems * w =< MaxIndex
  BY <1>1, QueryAssumption DEF QueryInv
<1>3. n * w =< MaxItems * w
  BY <1>2
<1>4. NoColumn \in Int /\ NoColumn = MaxIndex
  BY DEF NoColumn, MaxIndex
<1>5. n * w \in Nat /\ MaxItems * w \in Nat
  BY <1>2
<1> QED
  BY <1>1, <1>2, <1>3, <1>4, <1>5

\* A proxy's index is checked against the number of entries of the map.
LEMMA Proxies == QueryInv => ProxiesReadTheSame
<1> SUFFICES ASSUME QueryInv, NoCommas, NEW view
             PROVE  LET direct == IndexOfName(columns, fields, view)
                        proxy  == IndexThroughProxy(columns, fields, view) IN
                    \/ proxy = direct
                    \/ proxy = NotFound /\ has_wildcard_column(columns) /\ ~IsInjective(fields)
  BY NoCommasIs DEF ProxiesReadTheSame
<1>1. PICK n \in Nat, count \in Nat, size \in Nat :
        /\ NamesMapped(columns, fields) = SubSeq(fields, 1, n)
        /\ n =< size /\ size = Len(fields)
        /\ count = column_count(columns, fields) /\ count =< n
        /\ has_wildcard_column(columns) => n = size /\ (IsInjective(fields) => count = n)
        /\ ~has_wildcard_column(columns) => n = Len(columns) /\ count = n
  BY CountOK
<1>2. PICK direct : direct = IndexOfName(columns, fields, view)
  OBVIOUS
<1>3. IndexThroughProxy(columns, fields, view) =
        LET index == IF direct = NotFound THEN NoColumn ELSE direct
        IN  IF index < count THEN index ELSE NotFound
  BY <1>1, <1>2, Zenon DEF IndexThroughProxy, ProxyIndex, IndexChecked
<1>4. CASE direct = NotFound
  <2>1. ~(NoColumn < count)
    <3>1. size =< NoColumn /\ NoColumn \in Int
      BY <1>1, FieldsFewer
    <3> QED
      BY <1>1, <3>1
  <2> QED
    BY <1>2, <1>3, <1>4, <2>1, Zenon
<1>5. CASE direct # NotFound
  <2>1. fields \in Seq(Text)
    BY QueryMade
  <2>2. direct \in Nat /\ direct < n
    BY <1>1, <1>2, <1>5, <2>1, IndexIs
  <2>3. direct < count \/ (has_wildcard_column(columns) /\ ~IsInjective(fields))
    BY <1>1, <2>2
  <2>4. IndexThroughProxy(columns, fields, view) = IF direct < count THEN direct ELSE NotFound
    BY <1>3, <1>5, Zenon
  <2> QED
    BY <1>2, <2>3, <2>4, Zenon
<1> QED
  BY <1>4, <1>5

\* ProxiesReadTheSame holds: a proxy that is converted reads what the accessor
\* with the type reads, unless a run-time set has two columns of one name.
THEOREM ProxiesAgree == Spec => []ProxiesReadTheSame
<1> QED
  BY QueryIsBuilt, Proxies, PTL

-----------------------------------------------------------------------------
(***************************************************************************)
(* The names that are read, whatever stands between the separators.        *)
(***************************************************************************)
\* A name is read at a separator.
ReadBy(text, first, last, q, name) ==
  \E p \in Nat : /\ first =< p /\ p =< q
                 /\ Cut(text, last, p) /\ NameAt(text, first, p) = name

\* The names in a list that is longer by one.
LEMMA AppendContains ==
  ASSUME NEW list \in Seq(Text), NEW x \in Text, NEW name
  PROVE  Contains(Append(list, x), name) <=> Contains(list, name) \/ x = name
<1>1. PICK n \in Nat : n = Len(list)
  BY LenProperties
<1>2. /\ Len(Append(list, x)) = n + 1 /\ Append(list, x)[n + 1] = x
      /\ \A k \in 1..n : Append(list, x)[k] = list[k]
  BY <1>1, AppendProperties
<1>3. \A k \in 1..(n + 1) : k = n + 1 \/ k \in 1..n
  BY <1>1
<1>4. n + 1 \in 1..(n + 1) /\ \A k \in 1..n : k \in 1..(n + 1)
  BY <1>1
<1>5. Contains(list, name) <=> \E k \in 1..n : list[k] = name
  BY <1>1, Zenon DEF Contains
<1>6. Contains(Append(list, x), name) <=> \E k \in 1..(n + 1) : Append(list, x)[k] = name
  BY <1>2, Zenon DEF Contains
<1> QED
  BY <1>2, <1>3, <1>4, <1>5, <1>6

\* The columns are the names that are read.
LEMMA NamesRead ==
  ASSUME NEW text \in Text, NEW first \in Nat \ {0}, NEW last \in Nat,
         first =< last, last =< Len(text), NEW name, name # None
  PROVE  Contains(ReadColumns(text, first, last), name) <=> ReadBy(text, first, last, last, name)
<1>1. PICK read \in [0..last -> Seq(Text)] :
           /\ ReadColumns(text, first, last) = read[last]
           /\ \A p \in 0..last :
                /\ p < first => read[p] = <<>>
                /\ first =< p =>
                     read[p] = IF Cut(text, last, p) /\ NameAt(text, first, p) # <<>>
                               THEN Append(read[p - 1], NameAt(text, first, p))
                               ELSE read[p - 1]
  BY ReadNames
<1> DEFINE D == 0..last
           S == {q \in D : Contains(read[q], name) <=> ReadBy(text, first, last, q, name)}
<1>2. ~Contains(<<>>, name)
  BY EmptySeq DEF Contains
<1>3. D \subseteq S
  <2>1. 0 \in S /\ D \subseteq Nat
    <3>1. 0 \in D /\ 0 < first /\ D \subseteq Nat
      OBVIOUS
    <3>2. read[0] = <<>>
      BY <1>1, <3>1
    <3>3. ~ReadBy(text, first, last, 0, name)
      BY <3>1 DEF ReadBy
    <3> QED
      BY <1>2, <3>1, <3>2, <3>3
  <2>2. ASSUME NEW q \in D, q # 0 PROVE q - 1 \in D /\ (q - 1 \in S => q \in S)
    <3>1. q - 1 \in D /\ q \in Nat /\ q =< last
      BY <2>2
    <3> SUFFICES ASSUME Contains(read[q - 1], name) <=> ReadBy(text, first, last, q - 1, name)
                 PROVE  Contains(read[q], name) <=> ReadBy(text, first, last, q, name)
      BY <3>1
    <3>2. CASE q < first
      <4>1. read[q] = <<>>
        BY <1>1, <2>2, <3>2
      <4>2. ~ReadBy(text, first, last, q, name)
        BY <3>1, <3>2 DEF ReadBy
      <4> QED
        BY <1>2, <4>1, <4>2
    <3>3. CASE first =< q
      <4>1. ReadBy(text, first, last, q, name)
              <=> \/ ReadBy(text, first, last, q - 1, name)
                  \/ Cut(text, last, q) /\ NameAt(text, first, q) = name
        <5>1. \A p \in Nat : p =< q <=> (p =< q - 1 \/ p = q)
          BY <3>1
        <5> QED
          BY <3>1, <3>3, <5>1, Zenon DEF ReadBy
      <4>2. PICK word \in Text : word = NameAt(text, first, q)
        <5>1. q =< Len(text)
          <6>1. Len(text) \in Nat
            BY TextOK
          <6> QED
            BY <3>1, <6>1
        <5> QED
          BY <3>1, <3>3, <5>1, NameAtIsText
      <4>3. PICK list \in Seq(Text) : list = read[q - 1]
        BY <3>1
      <4>4. read[q] = IF Cut(text, last, q) /\ word # <<>> THEN Append(list, word) ELSE list
        BY <1>1, <2>2, <3>3, <4>2, <4>3
      <4>5. Contains(Append(list, word), name) <=> Contains(list, name) \/ word = name
        BY AppendContains
      <4>6. CASE Cut(text, last, q) /\ word # <<>>
        <5>1. read[q] = Append(list, word)
          BY <4>4, <4>6
        <5> QED
          BY <4>1, <4>2, <4>3, <4>5, <4>6, <5>1, Zenon
      <4>7. CASE ~(Cut(text, last, q) /\ word # <<>>)
        <5>1. read[q] = list
          BY <4>4, <4>7
        <5>2. ~(Cut(text, last, q) /\ word = name)
          BY <4>7 DEF None
        <5> QED
          BY <4>1, <4>2, <4>3, <5>1, <5>2, Zenon
      <4> QED
        BY <4>6, <4>7
    <3> QED
      BY <3>1, <3>2, <3>3
  <2> HIDE DEF D, S
  <2> QED
    BY <2>1, <2>2, Induction
<1>4. last \in D
  OBVIOUS
<1>5. Contains(read[last], name) <=> ReadBy(text, first, last, last, name)
  BY <1>3, <1>4
<1> QED
  BY <1>1, <1>5, Zenon

\* A wildcard is read as it is written.
LEMMA StarIsRead ==
  ASSUME Made, NEW at, Laid(at), NEW i \in 1..Len(items), Wildcard(items[i]),
         NEW end, end = at[Len(items) + 1]
  PROVE  ReadBy(query, Seg(at, 1), end, end, star)
<1>1. PICK item : item = items[i]
  OBVIOUS
<1>2. ItemOK(item) /\ query \in Text
  BY <1>1, LaidOK
<1>3. ExprOf(item) = star
  BY <1>1, Zenon DEF Wildcard, ExprOf
<1>4. AliasOf(item) = None
  BY <1>2, <1>3 DEF ItemOK
<1>5. Name(item) = star
  BY <1>3, <1>4, Zenon DEF Name, ExprOf, AliasOf
<1>6. ~TakenForAs(item)
  <2>1. ~Holds(star, as)
    <3>1. ~\E r \in Nat : r + Len(as) =< Len(star)
      BY KeywordsOK
    <3> QED
      BY <3>1, KeywordsOK, HoldsIs
  <2> QED
    BY <1>5, <2>1, Zenon DEF TakenForAs
<1>7. ~HoldsDot(item)
  <2>1. \A k \in 1..(Len(star) - 1) : FALSE
    BY KeywordsOK
  <2> QED
    BY <1>3, <2>1, Zenon DEF HoldsDot, ExprOf
<1>8. ~HoldsComma(item)
  <2>1. PICK l \in Nat : l = Len(star) /\ l = 1
    BY KeywordsOK
  <2>2. \A k \in 1..l : k = 1
    BY <2>1
  <2>3. star[1] # Comma
    BY KeywordsOK, MarksDiffer
  <2>4. \A k \in 1..Len(star) : star[k] # Comma
    BY <2>1, <2>2, <2>3
  <2> QED
    BY <1>3, <2>4, Zenon DEF HoldsComma, ExprOf, Contains
<1>9. PICK pos \in Nat, next \in Nat, first \in Nat, start \in Nat, n \in Nat :
        /\ pos = at[i] /\ next = at[i + 1] /\ first = Seg(at, 1) /\ start = Seg(at, i)
        /\ n = Len(items) /\ start < next - 1 /\ first =< start
  <2>1. /\ Seg(at, i) \in Nat /\ Seg(at, 1) \in Nat /\ at[i] \in Nat /\ at[i + 1] \in Nat
        /\ Seg(at, i) =< AtTable(at[i], items[i]) /\ Seg(at, 1) =< Seg(at, i)
        /\ AtTable(at[i], items[i]) \in Nat /\ AtTable(at[i], items[i]) < at[i + 1] - 1
    BY SegOK
  <2>2. Len(items) \in Nat /\ Seg(at, i) < at[i + 1] - 1
    BY <2>1 DEF Made
  <2> QED
    BY <2>1, <2>2
<1>10. end \in Nat /\ next =< end /\ end =< Len(query) /\ (i = n => next = end)
  <2>1. i + 1 \in 1..(n + 1) /\ n + 1 \in 1..(n + 1) /\ i + 1 =< n + 1
    BY <1>9
  <2>2. at[i + 1] =< at[n + 1] /\ at[n + 1] \in Nat /\ at[n + 1] =< Len(query)
    BY <1>9, <2>1, LaidInOrder
  <2> QED
    BY <1>9, <2>2
<1>11. PICK p \in Nat : /\ start =< p /\ p =< end
                        /\ i < n => p = next - 1
                        /\ ~(i < n) => p = end /\ i = n
  <2>1. CASE i < n
    <3>1. next - 1 \in Nat /\ start =< next - 1 /\ next - 1 =< end
      <4>1. start < next - 1
        BY <1>9
      <4>2. next =< end /\ end \in Nat
        BY <1>10
      <4> QED
        BY <4>1, <4>2, SMTT(60)
    <3> QED
      BY <2>1, <3>1
  <2>2. CASE ~(i < n)
    <3>1. i = n
      BY <1>9, <2>2
    <3>2. start =< end
      <4>1. start < next - 1
        BY <1>9
      <4>2. next =< end /\ end \in Nat
        BY <1>10
      <4> QED
        BY <4>1, <4>2, SMTT(60)
    <3> QED
      BY <1>10, <2>2, <3>1, <3>2
  <2> QED
    BY <2>1, <2>2
<1>12. Cut(query, end, p)
  <2>1. CASE i < n
    <3>1. CharAt(query, at[i + 1] - 1) = Comma
      BY <1>9, <2>1, LaidOK
    <3> QED
      BY <1>9, <1>11, <2>1, <3>1 DEF Cut
  <2>2. CASE ~(i < n)
    BY <1>11, <2>2 DEF Cut
  <2> QED
    BY <2>1, <2>2
<1>13. p = at[i + 1] - 1 \/ (i = Len(items) /\ p = at[i + 1])
  BY <1>9, <1>10, <1>11
<1>14. ColumnBetween(query, start, p) = star
  <2>1. AroundItem(query, at[i], items[i], Seg(at, i), p)
    BY <1>13, SegmentAround
  <2>2. AroundItem(query, pos, item, start, p)
    BY <1>1, <1>9, <2>1
  <2> QED
    BY <1>2, <1>5, <1>6, <1>7, <2>2, ReadsTheName
<1>15. StartOfColumn(query, first, p) = start
  <2>1. Seg(at, i) =< p /\ (p < at[i + 1] \/ (i = Len(items) /\ p = at[i + 1]))
    BY <1>9, <1>11, <1>13
  <2>2. ~HoldsComma(items[i])
    BY <1>1, <1>8
  <2> QED
    BY <1>9, <2>1, <2>2, StartIs
<1>16. NameAt(query, first, p) = star
  BY <1>14, <1>15, Zenon DEF NameAt
<1>17. first =< p
  BY <1>9, <1>11
<1> QED
  BY <1>9, <1>11, <1>12, <1>16, <1>17, Zenon DEF ReadBy

\* A star in a query stands in an expression.
LEMMA StarInExpr ==
  ASSUME NEW text \in Text, NEW pos \in Nat, NEW item, ItemOK(item), ItemAt(text, pos, item),
         NEW x \in Nat, pos =< x, x < AtSpace(pos, item), CharAt(text, x) = "*"
  PROVE  AtExpr(pos, item) =< x /\ x < AtExpr(pos, item) + Len(ExprOf(item))
<1>1. PICK t \in Nat, b \in Nat, l \in Nat, e \in Nat, z \in Nat :
        /\ t = AtTable(pos, item) /\ b = AtExpr(pos, item) /\ l = Len(ExprOf(item))
        /\ e = AtEnd(pos, item) /\ z = AtSpace(pos, item)
  <2>1. Len(ExprOf(item)) \in Nat
    BY DEF ItemOK
  <2> QED
    BY <2>1, Places
<1>2. CharAt(text, x) \notin Whitespace
  BY MarksDiffer
<1>3. ~(x < t)
  BY <1>1, <1>2, ItemPositions
<1>4. ~(t =< x /\ x < b)
  <2>1. t =< x /\ x < b => CharAt(text, x) \notin Whitespace \cup {Comma, "*"}
    BY <1>1, ItemPositions
  <2> QED
    BY <2>1
<1>5. ~(e =< x)
  BY <1>1, <1>2, ItemPositions
<1>6. ~(b + l =< x /\ x < e)
  <2> SUFFICES ASSUME b + l =< x, x < e PROVE FALSE
    OBVIOUS
  <2>1. AliasOf(item) # None
    <3>1. AliasOf(item) = None => e = b + l
      BY <1>1, Places
    <3> QED
      BY <1>1, <3>1
  <2>2. PICK a \in Nat : a = AtAlias(pos, item)
    BY Places
  <2>3. CASE x < a
    <3>1. AtExpr(pos, item) + Len(ExprOf(item)) =< x /\ x < AtAlias(pos, item)
      BY <1>1, <2>2, <2>3
    <3>2. CharAt(text, x) = Space \/ CharAt(text, x) = "a" \/ CharAt(text, x) = "s"
      BY <2>1, <3>1, AliasGap
    <3>3. "*" # Space /\ "*" # "a" /\ "*" # "s"
      BY DEF Space
    <3> QED
      BY <3>2, <3>3
  <2>4. CASE a =< x
    <3>1. AtAlias(pos, item) =< x /\ x < AtEnd(pos, item)
      BY <1>1, <2>2, <2>4
    <3>2. CharAt(text, x) \notin Whitespace \cup {Comma, ".", "*"}
      BY <2>1, <3>1, ItemPositions
    <3> QED
      BY <3>2
  <2> QED
    BY <2>2, <2>3, <2>4
<1>7. b =< x /\ x < b + l
  BY <1>1, <1>3, <1>4, <1>5, <1>6
<1> QED
  BY <1>1, <1>7

\* A star at the end of a column is a wildcard.
LEMMA StarAtEnd ==
  ASSUME NEW text \in Text, NEW pos \in Nat, NEW item, ItemOK(item), ItemAt(text, pos, item),
         NEW x \in Nat, pos =< x, x < AtSpace(pos, item), CharAt(text, x) = "*",
         NEW p \in Nat, x < p, \A q \in (x + 1)..(p - 1) : Blank(text, q),
         p < AtSpace(pos, item) => CharAt(text, p) = Comma
  PROVE  ExprOf(item) = star
<1> SUFFICES ASSUME ExprOf(item) # star PROVE FALSE
  OBVIOUS
<1>1. PICK word : word = ExprOf(item)
  OBVIOUS
<1>2. PICK b \in Nat, l \in Nat : b = AtExpr(pos, item) /\ l = Len(word) /\ b =< x /\ x < b + l
  <2>1. Len(ExprOf(item)) \in Nat /\ AtExpr(pos, item) \in Nat
    BY Places DEF ItemOK
  <2> QED
    BY <1>1, <2>1, StarInExpr
<1>3. b + l =< AtSpace(pos, item)
  <2>1. /\ AtExpr(pos, item) + Len(ExprOf(item)) =< AtEnd(pos, item)
        /\ AtEnd(pos, item) \in Nat /\ AtSpace(pos, item) \in Nat
        /\ AtEnd(pos, item) =< AtSpace(pos, item)
    BY Places
  <2> QED
    BY <1>1, <1>2, <2>1
<1>4. \A q \in Nat : b =< q /\ q < b + l => CharAt(text, q) = word[q - b + 1]
  BY <1>1, <1>2, ItemPositions
<1>5. PICK i \in Nat, k \in Nat :
        /\ i = x - b + 1 /\ 1 =< i /\ i =< l
        /\ k = (IF p < b + l THEN p - b + 1 ELSE l + 1) /\ i < k /\ k =< l + 1
  <2>1. CASE p < b + l
    <3>1. /\ x - b + 1 \in Nat /\ 1 =< x - b + 1 /\ x - b + 1 =< l
          /\ p - b + 1 \in Nat /\ x - b + 1 < p - b + 1 /\ p - b + 1 =< l + 1
      BY <1>2, <2>1
    <3> QED
      BY <2>1, <3>1
  <2>2. CASE ~(p < b + l)
    <3>1. /\ x - b + 1 \in Nat /\ 1 =< x - b + 1 /\ x - b + 1 =< l
          /\ l + 1 \in Nat /\ x - b + 1 < l + 1
      BY <1>2
    <3> QED
      BY <2>2, <3>1
  <2> QED
    BY <2>1, <2>2
<1>11. /\ b \in Nat /\ l \in Nat /\ i \in Nat /\ k \in Nat
       /\ b =< x /\ x < b + l /\ i = x - b + 1 /\ 1 =< i /\ i =< l /\ i < k /\ k =< l + 1
       /\ p < b + l => k = p - b + 1
       /\ p >= b + l => k = l + 1
  BY <1>2, <1>5
<1>6. word[i] = "*"
  BY <1>2, <1>4, <1>5
<1>7. ASSUME NEW m \in (i + 1)..(k - 1) PROVE word[m] \in Whitespace
  <2>1. PICK q \in Nat : q = b + m - 1 /\ x + 1 =< q /\ q =< p - 1 /\ q < b + l /\ q - b + 1 = m /\ b =< q
    <3>1. m \in Nat /\ i + 1 =< m /\ m =< k - 1
      BY <1>5, <1>7
    <3>3. /\ b + m - 1 \in Nat /\ x + 1 =< b + m - 1 /\ b + m - 1 =< p - 1 /\ b + m - 1 < b + l
          /\ (b + m - 1) - b + 1 = m /\ b =< b + m - 1
      BY <1>11, <3>1
    <3> QED
      BY <3>3
  <2>2. q \in (x + 1)..(p - 1)
    BY <2>1
  <2>3. Blank(text, q)
    BY <2>2
  <2>4. CharAt(text, q) = word[m]
    BY <1>4, <2>1
  <2> QED
    BY <2>3, <2>4 DEF Blank
<1>8. k =< l => word[k] = Comma
  <2> SUFFICES ASSUME k =< l PROVE word[k] = Comma
    OBVIOUS
  <2>1. p < b + l /\ b =< p /\ p - b + 1 = k
    BY <1>2, <1>5
  <2>2. CharAt(text, p) = word[k]
    BY <1>4, <2>1
  <2>3. p < AtSpace(pos, item)
    <3>1. AtSpace(pos, item) \in Nat
      BY Places
    <3> QED
      BY <1>2, <1>3, <2>1, <3>1
  <2> QED
    BY <2>2, <2>3
<1>9. i \in 1..l /\ k \in (i + 1)..(l + 1)
  BY <1>11
<1>10. StarEnds(word)
  BY <1>2, <1>6, <1>7, <1>8, <1>9, Zenon DEF StarEnds
<1> QED
  BY <1>1, <1>10 DEF ItemOK

\* So where a star is read, there is one.
LEMMA StarOfItem ==
  ASSUME Made, NEW at, Laid(at), NEW end, end = at[Len(items) + 1],
         ReadBy(query, Seg(at, 1), end, end, star)
  PROVE  \E i \in 1..Len(items) : Wildcard(items[i])
<1>1. PICK first \in Nat, n \in Nat : first = Seg(at, 1) /\ 7 =< first /\ n = Len(items)
  <2>1. 1 \in 1..Len(items) /\ Len(items) \in Nat
    BY DEF Made
  <2>2. Seg(at, 1) \in Nat /\ at[1] =< Seg(at, 1) /\ at[1] = 7
    BY <2>1, SegOK, LaidInOrder
  <2> QED
    BY <2>1, <2>2
<1>2. query \in Text /\ end \in Nat /\ end =< Len(query) /\ Len(query) \in Nat
  BY LaidInOrder, QueryOK, TextOK
<1>3. PICK p \in Nat : /\ first =< p /\ p =< end
                       /\ Cut(query, end, p) /\ NameAt(query, first, p) = star
  BY <1>1 DEF ReadBy
<1>4. PICK b \in Nat : b = StartOfColumn(query, first, p) /\ first =< b /\ b =< p
  BY <1>2, <1>3, StartOK
<1>5. ColumnBetween(query, b, p) = star /\ star # <<>> /\ p =< Len(query)
  <2>1. star # <<>>
    BY KeywordsOK DEF None
  <2>2. p =< Len(query)
    BY <1>2, <1>3
  <2> QED
    BY <1>3, <1>4, <2>1, <2>2, Zenon DEF NameAt
<1>6. PICK s \in Nat, e \in Nat, x \in Nat :
        /\ b =< s /\ s < e /\ e =< p /\ x < e
        /\ \A q \in e..(p - 1) : Blank(query, q)
        /\ SubSeq(query, x + 1, e) = star
  <2>1. ColumnBetween(query, b, p) # <<>>
    BY <1>5
  <2>2. PICK s, e, x \in Nat :
        /\ b =< s /\ s < e /\ e =< p
        /\ ~Blank(query, s) /\ ~Blank(query, e - 1)
        /\ \A q \in b..(s - 1) : Blank(query, q)
        /\ \A q \in e..(p - 1) : Blank(query, q)
        /\ x = extract_column_name(query, s, e) /\ x < e
        /\ ColumnBetween(query, b, p) = SubSeq(query, x + 1, e)
    <3>1. b \in Nat /\ p \in Nat /\ b =< p /\ p =< Len(query) /\ query \in Text
      BY <1>2, <1>3, <1>4, <1>5
    <3> QED
      BY <2>1, <3>1, ColumnOK
  <2> QED
    BY <1>5, <2>2
<1>7. e =< Len(query) /\ x =< e
  BY <1>2, <1>3, <1>6
<1>8. e = x + 1 /\ CharAt(query, x) = "*"
  <2>1. /\ Len(SubSeq(query, x + 1, e)) = e - x
        /\ \A k \in 1..(e - x) : SubSeq(query, x + 1, e)[k] = query[x + k]
    BY <1>2, <1>7, PartOf
  <2>2. PICK l \in Nat : l = Len(star) /\ l = 1 /\ star[1] = "*"
    BY KeywordsOK
  <2>3. e - x = l
    BY <1>6, <2>1, <2>2
  <2>4. 1 \in 1..(e - x) /\ e = x + 1 /\ x < Len(query)
    BY <1>2, <1>7, <2>2, <2>3
  <2>5. query[x + 1] = "*"
    BY <1>6, <2>1, <2>2, <2>4
  <2> QED
    BY <1>2, <2>4, <2>5, TextOK
<1>9. 7 =< x /\ x < at[Len(items) + 1] /\ x < p
  <2>1. 7 =< x /\ x < p /\ x < end
    <3>1. 7 =< first /\ first =< b /\ b =< s /\ s < e /\ e = x + 1 /\ e =< p /\ p =< end
      BY <1>1, <1>3, <1>4, <1>6, <1>8
    <3> QED
      BY <1>2, <3>1
  <2> QED
    BY <2>1
<1>10. PICK i \in 1..Len(items) : at[i] =< x /\ x < at[i + 1]
  BY <1>9, InSomeItem
<1>11. PICK item : item = items[i]
  OBVIOUS
<1>12. PICK pos \in Nat, next \in Nat : pos = at[i] /\ next = at[i + 1]
  BY LaidOK
<1>13. /\ ItemOK(item) /\ ItemAt(query, pos, item) /\ AtSpace(pos, item) = next - 1
       /\ CharAt(query, next - 1) = IF i < Len(items) THEN Comma ELSE "\n"
  BY <1>11, <1>12, LaidOK
<1>14. x < AtSpace(pos, item)
  <2>1. CharAt(query, next - 1) # "*"
    BY <1>13, MarksDiffer
  <2>2. x # next - 1
    BY <1>8, <2>1
  <2> QED
    BY <1>10, <1>12, <1>13, <2>2
<1>15. p < AtSpace(pos, item) => CharAt(query, p) = Comma
  <2> SUFFICES ASSUME p < next - 1 PROVE CharAt(query, p) = Comma
    BY <1>13
  <2>1. i + 1 \in 1..(n + 1) /\ n + 1 \in 1..(n + 1) /\ i + 1 =< n + 1
    BY <1>1
  <2>2. next =< end
    BY <1>1, <1>12, <2>1, LaidInOrder
  <2>3. p # end
    BY <1>2, <1>12, <2>2
  <2> QED
    BY <1>3, <2>3 DEF Cut
<1>16. \A q \in (x + 1)..(p - 1) : Blank(query, q)
  BY <1>6, <1>8
<1>17. ExprOf(item) = star
  <2>1. pos =< x
    BY <1>10, <1>12
  <2> QED
    BY <1>2, <1>8, <1>9, <1>13, <1>14, <1>15, <1>16, <2>1, StarAtEnd
<1> QED
  BY <1>11, <1>17, Zenon DEF Wildcard, ExprOf

\* The columns have a wildcard if the items do.
LEMMA Wildcards == QueryInv => WildcardsReadAtRunTime
<1> SUFFICES ASSUME QueryInv, \A i \in 1..Len(items) : ~TakenForFrom(items[i])
             PROVE  has_wildcard_column(columns) <=> \E i \in 1..Len(items) : Wildcard(items[i])
  BY DEF WildcardsReadAtRunTime, AllItems
<1>1. Made /\ columns = parse_select_columns(query)
  BY QueryMade
<1>2. PICK at : Laid(at)
  BY <1>1, QueryLaid
<1>3. PICK first \in Nat \ {0} :
        /\ first = AtTable(at[1], items[1]) /\ first =< at[2] - 1 /\ 7 =< first
        /\ first =< Len(query)
        /\ parse_select_columns(query) = ReadColumns(query, first, EndOfColumns(query, first))
  BY <1>1, <1>2, FirstIs
<1>4. first = Seg(at, 1)
  BY <1>3, Zenon DEF Seg
<1>5. PICK end \in Nat :
        /\ end = EndOfColumns(query, first) /\ first =< end /\ end =< Len(query)
        /\ end = at[Len(items) + 1]
  <2>1. first \in Nat /\ 7 =< first /\ first =< at[2] - 1
    BY <1>3
  <2> QED
    BY <1>1, <1>2, <2>1, LastIs
<1>6. query \in Text
  BY <1>1, QueryOK
<1>7. star # None
  BY KeywordsOK
<1>8. Contains(ReadColumns(query, first, end), star) <=> ReadBy(query, first, end, end, star)
  BY <1>5, <1>6, <1>7, NamesRead
<1>9. has_wildcard_column(columns) <=> Contains(columns, star)
  BY Zenon DEF has_wildcard_column, star
<1>10. columns = ReadColumns(query, first, end)
  BY <1>1, <1>3, <1>5
<1>11. ReadBy(query, first, end, end, star) <=> \E i \in 1..Len(items) : Wildcard(items[i])
  <2>1. PICK last : last = end /\ last = at[Len(items) + 1]
    BY <1>5
  <2>2. ReadBy(query, Seg(at, 1), last, last, star) => \E i \in 1..Len(items) : Wildcard(items[i])
    BY <1>1, <1>2, <2>1, StarOfItem
  <2>3. (\E i \in 1..Len(items) : Wildcard(items[i])) => ReadBy(query, Seg(at, 1), last, last, star)
    BY <1>1, <1>2, <2>1, StarIsRead
  <2> QED
    BY <1>4, <2>1, <2>2, <2>3
<1> QED
  BY <1>8, <1>9, <1>10, <1>11

\* WildcardsReadAtRunTime holds: the set is a run-time set just if an item of
\* the list is a wildcard, wherever it stands and whatever the other items are,
\* unless one is taken for FROM (has_wildcard_column).
THEOREM WildcardsAreFound == Spec => []WildcardsReadAtRunTime
<1> QED
  BY QueryIsBuilt, Wildcards, PTL

-----------------------------------------------------------------------------
(***************************************************************************)
(* The names that are not read as they are written.                        *)
(***************************************************************************)
\* No name begins with AS.
LEMMA NameBegins ==
  ASSUME NEW item, ItemOK(item)
  PROVE  Name(item) \in Text /\ ~BeginsWithAs(Name(item))
<1>1. CASE AliasOf(item) = None
  <2>1. Name(item) = ExprOf(item)
    BY <1>1, Zenon DEF Name, ExprOf, AliasOf
  <2> QED
    BY <2>1 DEF ItemOK
<1>2. CASE AliasOf(item) # None
  <2>1. Name(item) = AliasOf(item)
    BY <1>2, Zenon DEF Name, AliasOf
  <2>2. PICK word \in Text :
          word = AliasOf(item) /\ Plain(word, {Comma, ".", "*"}) /\ word # as
    BY DEF ItemOK
  <2>3. ~BeginsWithAs(word)
    <3> SUFFICES ASSUME BeginsWithAs(word) PROVE FALSE
      OBVIOUS
    <3>1. Len(word) >= 2 /\ SubSeq(word, 1, 2) = as
      BY Zenon DEF BeginsWithAs
    <3>2. Len(word) > 2 => word[3] \in Whitespace
      BY Zenon DEF BeginsWithAs
    <3>3. PICK n \in Nat : n = Len(word)
      BY TextOK
    <3>4. \A k \in 1..n : word[k] \notin Whitespace
      BY <2>2, <3>3 DEF Plain
    <3>5. n = 2
      BY <3>1, <3>2, <3>3, <3>4
    <3>6. SubSeq(word, 1, n) = word
      BY <3>3, SubSeqFull DEF Text
    <3> QED
      BY <2>2, <3>1, <3>5, <3>6
  <2> QED
    BY <2>1, <2>2, <2>3
<1> QED
  BY <1>1, <1>2

\* What is read of a part of a text: from x up to e, of what is left of the part
\* without the white space around, from s up to e.
ReadOf(text, start, end, s, e, x) ==
  /\ start =< s /\ s < e /\ e =< end /\ x < e /\ s =< x
  /\ ~Blank(text, e - 1)
  /\ ColumnBetween(text, start, end) = SubSeq(text, x + 1, e)
  /\ Stands(text, x, ColumnBetween(text, start, end))
  /\ Len(ColumnBetween(text, start, end)) = e - x
  /\ \/ \E m \in AliasMarks(text, s, e) :
           m + 2 =< x /\ \A y \in AliasMarks(text, s, e) : y =< m
     \/ /\ AliasMarks(text, s, e) = {} /\ CharAt(text, e - 1) # "."
        /\ \A p \in x..(e - 2) : CharAt(text, p) # "."
     \/ /\ AliasMarks(text, s, e) = {} /\ x = s
        /\ CharAt(text, e - 1) = "." \/ \A p \in s..(e - 2) : CharAt(text, p) # "."

\* Every name that is read is read so.
LEMMA ReadOfPart ==
  ASSUME NEW text \in Text, NEW start \in Nat, NEW end \in Nat, start =< end, end =< Len(text),
         ColumnBetween(text, start, end) # <<>>
  PROVE  \E s, e, x \in Nat : ReadOf(text, start, end, s, e, x)
<1>1. PICK s, e, x \in Nat :
        /\ start =< s /\ s < e /\ e =< end
        /\ ~Blank(text, s) /\ ~Blank(text, e - 1)
        /\ \A p \in start..(s - 1) : Blank(text, p)
        /\ \A p \in e..(end - 1) : Blank(text, p)
        /\ x = extract_column_name(text, s, e) /\ x < e
        /\ ColumnBetween(text, start, end) = SubSeq(text, x + 1, e)
  BY ColumnOK
<1>2. e =< Len(text) /\ x =< e /\ Len(text) \in Nat
  <2>1. Len(text) \in Nat
    BY TextOK
  <2> QED
    BY <1>1, <2>1
<1>3. PICK word \in Text : word = ColumnBetween(text, start, end)
  BY ColumnIsText
<1>4. /\ Len(word) = e - x /\ \A k \in 1..(e - x) : word[k] = text[x + k]
  <2>1. word = SubSeq(text, x + 1, e)
    BY <1>1, <1>3
  <2>2. /\ Len(SubSeq(text, x + 1, e)) = e - x
        /\ \A k \in 1..(e - x) : SubSeq(text, x + 1, e)[k] = text[x + k]
    BY <1>2, PartOf
  <2> QED
    BY <2>1, <2>2
<1>5. Stands(text, x, word)
  BY <1>4 DEF Stands
<1>6. PICK y \in Nat :
        /\ y = extract_column_name(text, s, e)
        /\ \/ \E m \in Nat :
                /\ m \in AliasMarks(text, s, e) /\ \A k \in AliasMarks(text, s, e) : k =< m
                /\ m + 2 =< y
           \/ /\ AliasMarks(text, s, e) = {} /\ CharAt(text, e - 1) # "."
              /\ \E d \in Nat : /\ s =< d /\ y = d + 1
                                /\ \A p \in y..(e - 2) : CharAt(text, p) # "."
           \/ /\ AliasMarks(text, s, e) = {} /\ y = s
              /\ CharAt(text, e - 1) = "." \/ \A p \in s..(e - 2) : CharAt(text, p) # "."
  <2>1. s < e /\ e =< Len(text)
    BY <1>1, <1>2
  <2>2. PICK y \in Nat :
           /\ y = extract_column_name(text, s, e)
           /\ \/ \E m \in Nat :
                   /\ m \in AliasMarks(text, s, e) /\ \A k \in AliasMarks(text, s, e) : k =< m
                   /\ m + 2 =< y /\ y =< Len(text)
                   /\ y = Len(text) \/ ~Blank(text, y)
                   /\ \A p \in (m + 2)..(y - 1) : Blank(text, p)
              \/ /\ AliasMarks(text, s, e) = {} /\ CharAt(text, e - 1) # "."
                 /\ \E d \in Nat : /\ s =< d /\ d + 2 =< e /\ y = d + 1 /\ CharAt(text, d) = "."
                                   /\ \A p \in y..(e - 2) : CharAt(text, p) # "."
              \/ /\ AliasMarks(text, s, e) = {} /\ y = s
                 /\ CharAt(text, e - 1) = "." \/ \A p \in s..(e - 2) : CharAt(text, p) # "."
    BY <2>1, ExtractOK
  <2> QED
    BY <2>2
<1>7. x = y
  BY <1>1, <1>6
<1>8. CASE \E m \in Nat :
             /\ m \in AliasMarks(text, s, e) /\ \A k \in AliasMarks(text, s, e) : k =< m
             /\ m + 2 =< y
  <2>1. PICK m \in Nat :
          /\ m \in AliasMarks(text, s, e) /\ \A k \in AliasMarks(text, s, e) : k =< m
          /\ m + 2 =< x
    BY <1>7, <1>8
  <2>2. s < m
    BY <1>2, <2>1, MarkIs
  <2>3. s =< x
    BY <2>1, <2>2
  <2>4. \E k \in AliasMarks(text, s, e) : k + 2 =< x /\ \A z \in AliasMarks(text, s, e) : z =< k
    BY <2>1
  <2> QED
    BY <1>1, <1>3, <1>4, <1>5, <2>3, <2>4, Zenon DEF ReadOf
<1>9. CASE /\ AliasMarks(text, s, e) = {} /\ CharAt(text, e - 1) # "."
           /\ \E d \in Nat : /\ s =< d /\ y = d + 1
                             /\ \A p \in y..(e - 2) : CharAt(text, p) # "."
  <2>1. s =< x
    BY <1>1, <1>7, <1>9
  <2>2. /\ AliasMarks(text, s, e) = {} /\ CharAt(text, e - 1) # "."
        /\ \A p \in x..(e - 2) : CharAt(text, p) # "."
    BY <1>7, <1>9
  <2> QED
    BY <1>1, <1>3, <1>4, <1>5, <2>1, <2>2, Zenon DEF ReadOf
<1>10. CASE /\ AliasMarks(text, s, e) = {} /\ y = s
            /\ CharAt(text, e - 1) = "." \/ \A p \in s..(e - 2) : CharAt(text, p) # "."
  <2>1. s =< x /\ x = s
    BY <1>1, <1>7, <1>10
  <2> QED
    BY <1>1, <1>3, <1>4, <1>5, <1>10, <2>1, Zenon DEF ReadOf
<1> QED
  BY <1>6, <1>8, <1>9, <1>10

\* A name with an AS in it is never read: the name would begin behind that.
LEMMA NoAsIsRead ==
  ASSUME NEW text \in Text, NEW start \in Nat, NEW end \in Nat, start =< end, end =< Len(text),
         NEW word \in Text, word = ColumnBetween(text, start, end), word # <<>>,
         Holds(word, as)
  PROVE  BeginsWithAs(word)
<1>1. PICK s \in Nat, e \in Nat, x \in Nat : ReadOf(text, start, end, s, e, x)
  BY ReadOfPart
<1>2. /\ s < e /\ e =< end /\ x < e /\ s =< x
      /\ Stands(text, x, word) /\ Len(word) = e - x
      /\ \/ \E m \in AliasMarks(text, s, e) :
               m + 2 =< x /\ \A y \in AliasMarks(text, s, e) : y =< m
         \/ AliasMarks(text, s, e) = {} /\ CharAt(text, e - 1) # "."
         \/ AliasMarks(text, s, e) = {} /\ x = s
  BY <1>1, Zenon DEF ReadOf
<1>3. e =< Len(text) /\ Len(text) \in Nat
  <2>1. Len(text) \in Nat
    BY TextOK
  <2> QED
    BY <1>2, <2>1
<1>4. PICK r \in Nat : /\ r + 2 =< e - x /\ Stands(word, r, as)
                       /\ r + 2 = e - x \/ word[r + 3] \in Whitespace
  <2>1. as \in Text /\ Len(as) = 2
    BY KeywordsOK
  <2>2. PICK r \in Nat : /\ r + Len(as) =< Len(word) /\ Stands(word, r, as)
                         /\ r + Len(as) = Len(word) \/ word[r + Len(as) + 1] \in Whitespace
    BY <2>1, HoldsIs
  <2>3. r + Len(as) = r + 2 /\ r + Len(as) + 1 = r + 3
    BY <2>1
  <2> QED
    BY <1>2, <2>2, <2>3
<1>5. x + r \in Nat /\ Stands(text, x + r, as)
  <2>1. as \in Text /\ Len(as) = 2
    BY KeywordsOK
  <2>2. r + Len(as) =< Len(word)
    BY <1>2, <1>4, <2>1
  <2>3. Stands(text, x + r, as)
    BY <1>2, <1>4, <2>1, <2>2, StandsWithin
  <2>4. x + r \in Nat
    BY <1>1, <1>4
  <2> QED
    BY <2>3, <2>4
<1>6. (x + r) + 2 = e \/ CharAt(text, (x + r) + 2) \in Whitespace
  <2> SUFFICES ASSUME (x + r) + 2 # e PROVE CharAt(text, (x + r) + 2) \in Whitespace
    OBVIOUS
  <2>1. r + 2 # e - x /\ r + 3 \in 1..(e - x) /\ (x + r) + 2 \in Nat /\ (x + r) + 2 < Len(text)
        /\ x + (r + 3) = ((x + r) + 2) + 1
    BY <1>2, <1>3, <1>4
  <2>2. word[r + 3] \in Whitespace
    BY <1>4, <2>1
  <2>3. text[x + (r + 3)] = word[r + 3]
    BY <1>2, <2>1 DEF Stands
  <2>4. CharAt(text, (x + r) + 2) = text[((x + r) + 2) + 1]
    BY <2>1, TextOK
  <2> QED
    BY <2>1, <2>2, <2>3, <2>4
<1>7. s < x + r => x + r \in AliasMarks(text, s, e)
  <2>1. (x + r) + 2 =< e
    BY <1>2, <1>4
  <2> QED
    BY <1>3, <1>5, <1>6, <2>1, MarkIs
<1>8. x = s /\ r = 0
  <2>1. ~(s < x + r)
    <3> SUFFICES ASSUME s < x + r PROVE FALSE
      OBVIOUS
    <3>1. PICK m \in AliasMarks(text, s, e) :
            m + 2 =< x /\ \A y \in AliasMarks(text, s, e) : y =< m
      BY <1>2, <1>7
    <3>2. x + r =< m
      BY <1>7, <3>1
    <3>3. m \in Nat
      <4>1. AliasMarks(text, s, e) \subseteq 0..e
        BY <1>3, MarkIs
      <4> QED
        BY <4>1
    <3> QED
      BY <3>1, <3>2, <3>3
  <2> QED
    BY <1>2, <1>4, <2>1
<1>9. PICK n \in Nat : n = Len(word) /\ n >= 2 /\ (n > 2 => word[3] \in Whitespace)
  <2>1. e - x \in Nat /\ e - x >= 2 /\ (e - x > 2 => word[3] \in Whitespace)
    BY <1>2, <1>4, <1>8
  <2> QED
    BY <1>2, <2>1
<1>10. SubSeq(word, 1, 2) = as
  <2>1. as \in Text /\ Len(as) = 2 /\ Stands(word, 0, as)
    BY <1>4, <1>8, KeywordsOK
  <2>2. 0 + Len(as) =< Len(word) /\ 0 + 1 = 1 /\ 0 + Len(as) = 2
    BY <1>9, <2>1
  <2>3. SubSeq(word, 0 + 1, 0 + Len(as)) = as
    BY <2>1, <2>2, PartIsWord
  <2> QED
    BY <2>2, <2>3
<1> QED
  BY <1>9, <1>10, Zenon DEF BeginsWithAs

\* A name with a dot in it is read behind an AS, if it does not end in a dot.
LEMMA DotIsReadBehindAs ==
  ASSUME NEW text \in Text, NEW start \in Nat, NEW end \in Nat, start =< end, end =< Len(text),
         NEW word \in Text, word = ColumnBetween(text, start, end), word # <<>>,
         NEW r \in Nat, r + 2 =< Len(word), word[r + 1] = ".", word[Len(word)] # "."
  PROVE  \E s, e, x, m \in Nat :
           /\ start =< s /\ e =< end /\ x < e /\ s =< x /\ ~Blank(text, e - 1)
           /\ Stands(text, x, word) /\ Len(word) = e - x
           /\ s < m /\ m + 2 =< x /\ Stands(text, m, as) /\ CharAt(text, m + 2) \in Whitespace
<1>1. PICK s \in Nat, e \in Nat, x \in Nat : ReadOf(text, start, end, s, e, x)
  BY ReadOfPart
<1>2. /\ start =< s /\ s < e /\ e =< end /\ x < e /\ s =< x /\ ~Blank(text, e - 1)
      /\ Stands(text, x, word) /\ Len(word) = e - x
      /\ \/ \E m \in AliasMarks(text, s, e) :
               m + 2 =< x /\ \A y \in AliasMarks(text, s, e) : y =< m
         \/ \A p \in x..(e - 2) : CharAt(text, p) # "."
         \/ x = s /\ (CharAt(text, e - 1) = "." \/ \A p \in s..(e - 2) : CharAt(text, p) # ".")
  BY <1>1, Zenon DEF ReadOf
<1>3. e =< Len(text) /\ Len(text) \in Nat
  <2>1. Len(text) \in Nat
    BY TextOK
  <2> QED
    BY <1>2, <2>1
<1>4. ASSUME NEW k \in Nat, k < e - x PROVE CharAt(text, x + k) = word[k + 1]
  <2>1. k + 1 \in 1..(e - x) /\ x + k \in Nat /\ x + k < Len(text) /\ x + (k + 1) = (x + k) + 1
    BY <1>1, <1>2, <1>3, <1>4
  <2>2. text[x + (k + 1)] = word[k + 1]
    BY <1>2, <2>1 DEF Stands
  <2> QED
    BY <2>1, <2>2, TextOK
<1>5. /\ x + r \in x..(e - 2) /\ CharAt(text, x + r) = "."
  <2>1. r < e - x /\ x + r \in x..(e - 2)
    BY <1>1, <1>2
  <2> QED
    BY <1>4, <2>1
<1>6. CharAt(text, e - 1) # "."
  <2>1. PICK k \in Nat : k = e - x - 1 /\ k < e - x /\ x + k = e - 1 /\ k + 1 = e - x
    <3>1. e - x - 1 \in Nat /\ e - x - 1 < e - x /\ x + (e - x - 1) = e - 1 /\ (e - x - 1) + 1 = e - x
      BY <1>1, <1>2
    <3> QED
      BY <3>1
  <2>2. CharAt(text, x + k) = word[k + 1]
    BY <1>4, <2>1
  <2> QED
    BY <1>2, <2>1, <2>2
<1>7. PICK m \in AliasMarks(text, s, e) : m + 2 =< x
  <2>1. ~\A p \in x..(e - 2) : CharAt(text, p) # "."
    BY <1>5
  <2>2. x = s => ~\A p \in s..(e - 2) : CharAt(text, p) # "."
    BY <2>1
  <2> QED
    BY <1>2, <1>6, <2>1, <2>2
<1>8. AliasMarks(text, s, e) \subseteq 0..e
  BY <1>1, <1>3, MarkIs
<1>9. m \in Nat
  BY <1>7, <1>8
<1>10. s < m /\ Stands(text, m, as) /\ CharAt(text, m + 2) \in Whitespace
  <2>1. m + 2 # e
    BY <1>1, <1>2, <1>7, <1>9
  <2>2. /\ s < m /\ m + 2 =< e /\ Stands(text, m, as)
        /\ m + 2 = e \/ CharAt(text, m + 2) \in Whitespace
    <3>1. m \in AliasMarks(text, s, e)
      BY <1>7
    <3> QED
      BY <1>1, <1>3, <1>9, <3>1, MarkIs
  <2> QED
    BY <2>1, <2>2
<1> QED
  BY <1>1, <1>2, <1>7, <1>9, <1>10

\* No dot stands behind the AS of an item.
LEMMA NoDotBehindAs ==
  ASSUME NEW text \in Text, NEW pos \in Nat, NEW item, ItemOK(item), ItemAt(text, pos, item),
         CharAt(text, AtSpace(pos, item)) \in Whitespace \cup {Comma}, AliasOf(item) # None,
         NEW d \in Nat, AtAlias(pos, item) - 1 =< d, d =< AtSpace(pos, item)
  PROVE  CharAt(text, d) # "."
<1>1. PICK a \in Nat, b \in Nat, e \in Nat, z \in Nat :
        /\ a = AtAlias(pos, item) /\ b = AtExpr(pos, item) + Len(ExprOf(item))
        /\ e = AtEnd(pos, item) /\ z = AtSpace(pos, item) /\ a = b + 4
  <2>1. Len(ExprOf(item)) \in Nat
    BY DEF ItemOK
  <2>2. /\ AtExpr(pos, item) \in Nat /\ AtAlias(pos, item) \in Nat
        /\ AtEnd(pos, item) \in Nat /\ AtSpace(pos, item) \in Nat
        /\ AtAlias(pos, item) = AtExpr(pos, item) + Len(ExprOf(item)) + 4
    BY Places
  <2> QED
    BY <2>1, <2>2
<1>2. \A c \in Whitespace \cup {Comma} : c # "."
  BY MarksDiffer
<1>3. CASE d < a
  <2>1. b =< d /\ d < a
    BY <1>1, <1>3
  <2>2. CharAt(text, d) = Space \/ CharAt(text, d) = "a" \/ CharAt(text, d) = "s"
    BY <1>1, <2>1, AliasGap
  <2>3. "." # "a" /\ "." # "s" /\ "." # Space
    BY <1>2, MarksDiffer
  <2> QED
    BY <2>2, <2>3
<1>4. CASE a =< d /\ d < e
  <2>1. AtAlias(pos, item) =< d /\ d < AtEnd(pos, item)
    BY <1>1, <1>4
  <2>2. CharAt(text, d) \notin Whitespace \cup {Comma, ".", "*"}
    BY <2>1, ItemPositions
  <2> QED
    BY <2>2
<1>5. CASE e =< d /\ d < z
  <2>1. CharAt(text, d) \in Whitespace
    BY <1>1, <1>5, ItemPositions
  <2> QED
    BY <1>2, <2>1
<1>6. CASE d = z
  BY <1>1, <1>2, <1>6
<1> QED
  BY <1>1, <1>3, <1>4, <1>5, <1>6

\* An AS in an item with white space behind it, and a dot behind that, stands in
\* the expression.
LEMMA AsBeforeDot ==
  ASSUME NEW text \in Text, NEW pos \in Nat, NEW item, ItemOK(item), ItemAt(text, pos, item),
         CharAt(text, AtSpace(pos, item)) \in Whitespace \cup {Comma},
         NEW m \in Nat, pos =< m, Stands(text, m, as), CharAt(text, m + 2) \in Whitespace,
         NEW d \in Nat, m + 2 =< d, d < AtSpace(pos, item), CharAt(text, d) = "."
  PROVE  Holds(ExprOf(item), as)
<1>1. Keyword(as) /\ Len(as) = 2
  BY KeywordOK
<1>2. PICK a \in Nat, b \in Nat, z \in Nat :
        /\ a = AtAlias(pos, item) /\ b = AtExpr(pos, item) + Len(ExprOf(item))
        /\ z = AtSpace(pos, item) /\ a = b + 4
  <2>1. Len(ExprOf(item)) \in Nat
    BY DEF ItemOK
  <2>2. /\ AtExpr(pos, item) \in Nat /\ AtAlias(pos, item) \in Nat /\ AtSpace(pos, item) \in Nat
        /\ AtAlias(pos, item) = AtExpr(pos, item) + Len(ExprOf(item)) + 4
    BY Places
  <2> QED
    BY <2>1, <2>2
<1>3. ~(AliasOf(item) # None /\ a - 1 =< d)
  <2>1. AliasOf(item) # None /\ a - 1 =< d => CharAt(text, d) # "."
    <3> SUFFICES ASSUME AliasOf(item) # None, a - 1 =< d PROVE CharAt(text, d) # "."
      OBVIOUS
    <3>1. AtAlias(pos, item) - 1 =< d /\ d =< AtSpace(pos, item)
      BY <1>2
    <3> QED
      BY <3>1, NoDotBehindAs
  <2> QED
    BY <2>1
<1>4. \/ /\ AtTable(pos, item) =< m /\ m + Len(as) < AtExpr(pos, item)
         /\ CharAt(text, m + Len(as)) \notin Whitespace
      \/ /\ AtExpr(pos, item) =< m
         /\ m + Len(as) =< AtExpr(pos, item) + Len(ExprOf(item))
         /\ \/ m + Len(as) = AtExpr(pos, item) + Len(ExprOf(item))
            \/ CharAt(text, m + Len(as)) \in Whitespace
            => Holds(ExprOf(item), as)
      \/ /\ AliasOf(item) # None /\ AtExpr(pos, item) + Len(ExprOf(item)) < m
         /\ m + Len(as) < AtAlias(pos, item)
      \/ /\ AliasOf(item) # None /\ AtAlias(pos, item) =< m /\ m + Len(as) =< AtEnd(pos, item)
         /\ m + Len(as) = AtEnd(pos, item) \/ CharAt(text, m + Len(as)) \in Whitespace
            => Holds(AliasOf(item), as)
  <2>1. m =< AtSpace(pos, item) /\ m + Len(as) =< Len(text)
    <3>1. AtSpace(pos, item) =< Len(text) /\ Len(text) \in Nat
      BY TextOK DEF ItemAt
    <3>2. m =< z /\ m + 2 =< Len(text)
      BY <1>2, <3>1
    <3> QED
      BY <1>1, <1>2, <3>2
  <2> QED
    BY <1>1, <2>1, KeywordIn
<1>5. CharAt(text, m + Len(as)) \in Whitespace
  BY <1>1
<1>6. CASE AliasOf(item) # None /\ AtExpr(pos, item) + Len(ExprOf(item)) < m
  <2>1. a - 1 =< d
    <3>1. b < m
      BY <1>2, <1>6
    <3> QED
      BY <1>2, <3>1
  <2> QED
    BY <1>3, <1>6, <2>1
<1>7. CASE AliasOf(item) # None /\ AtAlias(pos, item) =< m
  <2>1. a - 1 =< d
    BY <1>2, <1>7
  <2> QED
    BY <1>3, <1>7, <2>1
<1> QED
  BY <1>4, <1>5, <1>6, <1>7, Zenon

\* So a name with a dot in it, which does not end in one, is read of an
\* expression with an AS in front of it.
LEMMA DotIsOfAnother ==
  ASSUME Made, NEW at, Laid(at), NEW m, NEW stop, Stops(at, m, stop), NEW j \in 1..m,
         NEW word \in Text, word = NameUpTo(at, j, stop[j]), word # <<>>,
         NEW r \in Nat, r + 2 =< Len(word), word[r + 1] = ".", word[Len(word)] # "."
  PROVE  /\ j \in 1..Len(items) /\ Holds(items[j].expr, as) /\ Inside(word, Written(j))
<1>1. /\ m \in 1..Len(items) /\ stop \in [1..m -> Nat]
      /\ Seg(at, j) =< stop[j] /\ stop[j] =< Len(query)
      /\ stop[j] < at[j + 1] \/ (j = Len(items) /\ stop[j] = at[j + 1])
  BY DEF Stops
<1>2. j \in 1..Len(items) /\ Len(items) \in Nat
  BY <1>1 DEF Made
<1>3. PICK item : item = items[j]
  OBVIOUS
<1>4. PICK pos \in Nat, next \in Nat, start \in Nat, end \in Nat :
        /\ pos = at[j] /\ next = at[j + 1] /\ start = Seg(at, j) /\ end = stop[j]
        /\ pos =< start /\ start =< end
        /\ end < next \/ (j = Len(items) /\ end = next)
  BY <1>1, <1>2, SegOK
<1>5. /\ query \in Text /\ ItemOK(item) /\ ItemAt(query, pos, item)
      /\ AtSpace(pos, item) = next - 1 /\ pos + 2 =< next
      /\ CharAt(query, next - 1) = IF j < Len(items) THEN Comma ELSE "\n"
  BY <1>2, <1>3, <1>4, LaidOK
<1>6. PICK s \in Nat, e \in Nat, x \in Nat, q \in Nat :
        /\ start =< s /\ e =< end /\ x < e /\ s =< x /\ ~Blank(query, e - 1)
        /\ Stands(query, x, word) /\ Len(word) = e - x
        /\ s < q /\ q + 2 =< x /\ Stands(query, q, as) /\ CharAt(query, q + 2) \in Whitespace
  <2>1. start =< end /\ end =< Len(query) /\ word = ColumnBetween(query, start, end)
    BY <1>1, <1>4, Zenon DEF NameUpTo
  <2> QED
    BY <1>5, <2>1, DotIsReadBehindAs
<1>7. e =< next - 1
  <2>1. CASE end < next
    BY <1>4, <1>6, <2>1
  <2>2. CASE j = Len(items) /\ end = next
    <3>1. CharAt(query, next - 1) = "\n"
      BY <1>2, <1>5, <2>2
    <3>2. Blank(query, next - 1)
      BY <3>1, MarksDiffer DEF Blank
    <3>3. e # next
      BY <1>6, <3>2
    <3> QED
      BY <1>4, <1>6, <2>2, <3>3
  <2> QED
    BY <1>4, <2>1, <2>2
<1>8. PICK d \in Nat : d = x + r /\ q + 2 =< d /\ d < e - 1 /\ CharAt(query, d) = "."
  <2>1. r + 2 =< e - x
    BY <1>6
  <2>2. x + r \in Nat /\ q + 2 =< x + r /\ x + r < e - 1 /\ x + (r + 1) = (x + r) + 1
    BY <1>6, <2>1
  <2>3. query[x + (r + 1)] = word[r + 1]
    <3>1. r + 1 \in 1..Len(word)
      BY <1>6, <2>1
    <3> QED
      BY <1>6, <3>1 DEF Stands
  <2>4. x + r < Len(query)
    <3>1. Len(query) \in Nat /\ end =< Len(query)
      BY <1>1, <1>4, <1>5, TextOK
    <3> QED
      BY <1>6, <2>2, <3>1
  <2>5. CharAt(query, x + r) = query[(x + r) + 1]
    BY <1>5, <2>2, <2>4, TextOK
  <2> QED
    BY <2>2, <2>3, <2>5
<1>9. Holds(ExprOf(item), as)
  <2>1. CharAt(query, AtSpace(pos, item)) \in Whitespace \cup {Comma}
    BY <1>5, MarksDiffer
  <2>2. pos =< q /\ d < AtSpace(pos, item)
    <3>1. /\ pos \in Nat /\ start \in Nat /\ s \in Nat /\ q \in Nat /\ d \in Nat /\ e \in Nat
          /\ next \in Nat /\ pos =< start /\ start =< s /\ s < q /\ d < e - 1 /\ e =< next - 1
      BY <1>4, <1>6, <1>7, <1>8
    <3>2. pos =< q /\ d < next - 1
      BY <3>1
    <3> QED
      BY <1>5, <3>2
  <2>3. Stands(query, q, as) /\ CharAt(query, q + 2) \in Whitespace /\ q \in Nat
    BY <1>6
  <2>4. d \in Nat /\ q + 2 =< d /\ CharAt(query, d) = "."
    BY <1>8
  <2> QED
    BY <1>5, <2>1, <2>2, <2>3, <2>4, AsBeforeDot
<1>10. Inside(word, Written(j))
  <2>1. PICK whole : whole = TextOf(item)
    OBVIOUS
  <2>2. whole \in Text /\ AtSpace(pos, item) = pos + Len(whole)
    BY <1>5, <2>1, WrittenAt
  <2>3. Stands(query, pos, whole)
    <3>1. \A i \in 1..Len(items) : Stands(query, at[i], TextOf(items[i]))
      BY Zenon DEF Laid
    <3>2. Stands(query, at[j], TextOf(items[j]))
      BY <1>2, <3>1
    <3> QED
      BY <1>3, <1>4, <2>1, <3>2
  <2>4. PICK l \in Nat, n \in Nat : l = Len(whole) /\ n = Len(word)
    BY <2>2, TextOK
  <2>5. /\ pos =< x /\ x + n =< pos + l
    <3>1. /\ pos \in Nat /\ start \in Nat /\ s \in Nat /\ x \in Nat /\ e \in Nat /\ next \in Nat
          /\ l \in Nat /\ pos =< start /\ start =< s /\ s =< x /\ x < e /\ e =< next - 1
      BY <1>4, <1>6, <1>7, <2>4
    <3>2. n = e - x /\ next - 1 = pos + l
      BY <1>5, <1>6, <2>2, <2>4
    <3>3. n \in Nat
      BY <2>4
    <3> QED
      BY <3>1, <3>2, <3>3
  <2>6. Stands(whole, x - pos, word) /\ x - pos \in Nat /\ x - pos + Len(word) =< Len(whole)
    <3>1. pos =< x /\ x + Len(word) =< pos + Len(whole)
      BY <2>4, <2>5
    <3>2. Stands(query, x, word) /\ x \in Nat
      BY <1>6
    <3> QED
      BY <2>2, <2>3, <3>1, <3>2, StandsInside
  <2>7. SubSeq(whole, (x - pos) + 1, (x - pos) + Len(word)) = word
    BY <2>2, <2>6, PartIsWord
  <2>8. x - pos \in 0..(Len(whole) - Len(word))
    <3>1. x - pos \in Nat /\ x - pos + n =< l
      BY <2>4, <2>6
    <3>2. x - pos \in 0..(l - n)
      BY <3>1
    <3> QED
      BY <2>4, <3>2
  <2>9. Written(j) = whole
    BY <1>3, <2>1, WrittenIs
  <2> QED
    BY <2>7, <2>8, <2>9, Zenon DEF Inside
<1> QED
  BY <1>2, <1>3, <1>9, <1>10, Zenon DEF ExprOf

\* A name that ends in a dot, without an AS in it.
EndsInDot(item) ==
  AliasOf(item) = None /\ ~Holds(ExprOf(item), as) /\ ExprOf(item)[Len(ExprOf(item))] = "."

\* It is read as it is written.
LEMMA DotAtEndIsRead ==
  ASSUME NEW text \in Text, NEW pos \in Nat, NEW item, NEW start \in Nat, NEW end \in Nat,
         AroundItem(text, pos, item, start, end),
         EndsInDot(item)
  PROVE  ColumnBetween(text, start, end) = ExprOf(item)
<1>0. AliasOf(item) = None /\ ~Holds(ExprOf(item), as) /\ ExprOf(item)[Len(ExprOf(item))] = "."
  BY Zenon DEF EndsInDot
<1>1. /\ ItemOK(item) /\ ItemAt(text, pos, item)
      /\ CharAt(text, AtSpace(pos, item)) \in Whitespace \cup {Comma}
  BY DEF AroundItem
<1>2. ColumnBetween(text, start, end)
        = SubSeq(text, extract_column_name(text, AtTable(pos, item), AtEnd(pos, item)) + 1,
                 AtEnd(pos, item))
  BY TrimmedToItem
<1>3. TableOf(item) = None
  BY <1>0, <1>1 DEF ItemOK
<1>4. PICK s \in Nat, l \in Nat, e \in Nat :
        /\ s = AtTable(pos, item) /\ s = AtExpr(pos, item) /\ l = Len(ExprOf(item))
        /\ e = AtEnd(pos, item) /\ e = s + l /\ l >= 1 /\ pos =< s
  <2>1. Len(ExprOf(item)) \in Nat /\ Len(ExprOf(item)) >= 1
    BY <1>1 DEF ItemOK
  <2>2. Len(TableOf(item)) = 0
    BY <1>3, KeywordsOK
  <2>3. /\ AtTable(pos, item) \in Nat /\ AtEnd(pos, item) \in Nat /\ AtExpr(pos, item) \in Nat
        /\ AtExpr(pos, item) = AtTable(pos, item) + Len(TableOf(item))
        /\ AtEnd(pos, item) = AtExpr(pos, item) + Len(ExprOf(item)) /\ pos =< AtTable(pos, item)
    BY <1>0, <1>1, Places
  <2>4. AtExpr(pos, item) = AtTable(pos, item)
    BY <2>2, <2>3
  <2> QED
    BY <2>1, <2>3, <2>4
<1>5. e =< Len(text) /\ Len(text) \in Nat
  <2>1. AtEnd(pos, item) =< Len(text) /\ Len(text) \in Nat
    <3>1. AtSpace(pos, item) =< Len(text)
      BY <1>1 DEF ItemAt
    <3>2. Len(text) \in Nat
      BY TextOK
    <3>3. AtEnd(pos, item) =< AtSpace(pos, item) /\ AtEnd(pos, item) \in Nat /\ AtSpace(pos, item) \in Nat
      BY <1>0, <1>1, Places
    <3>4. PICK u, w, y \in Nat : u = AtEnd(pos, item) /\ w = AtSpace(pos, item) /\ y = Len(text)
      BY <3>2, <3>3
    <3>5. u =< w /\ w =< y
      BY <3>1, <3>3, <3>4
    <3>6. u =< y
      BY <3>4, <3>5
    <3> QED
      BY <3>4, <3>6
  <2> QED
    BY <1>4, <2>1
<1>6. AliasMarks(text, s, e) = {}
  <2> SUFFICES ASSUME NEW q \in AliasMarks(text, s, e) PROVE FALSE
    OBVIOUS
  <2>1. AliasMarks(text, s, e) \subseteq 0..e
    BY <1>4, <1>5, MarkIs
  <2>2. q \in Nat
    BY <2>1
  <2>3. q \in AliasMarks(text, s, AtEnd(pos, item)) /\ pos =< s /\ s \in Nat
    BY <1>4
  <2> QED
    BY <1>0, <1>1, <2>2, <2>3, MarkInItem
<1>7. CharAt(text, e - 1) = "."
  <2>1. PICK q \in Nat : q = e - 1 /\ s =< q /\ q < s + l /\ q - s + 1 = l
    <3>1. e - 1 \in Nat /\ s =< e - 1 /\ e - 1 < s + l /\ (e - 1) - s + 1 = l
      BY <1>4
    <3> QED
      BY <3>1
  <2>2. AtExpr(pos, item) =< q /\ q < AtExpr(pos, item) + Len(ExprOf(item))
    BY <1>4, <2>1
  <2>3. CharAt(text, q) = ExprOf(item)[q - AtExpr(pos, item) + 1]
    BY <1>1, <2>2, ItemPositions
  <2> QED
    BY <1>0, <1>4, <2>1, <2>3
<1>8. extract_column_name(text, s, e) = s
  <2>1. s < e /\ e =< Len(text)
    BY <1>4, <1>5
  <2>2. \E x \in Nat : /\ x = extract_column_name(text, s, e)
                       /\ \/ \E m \in Nat : m \in AliasMarks(text, s, e)
                          \/ CharAt(text, e - 1) # "."
                          \/ x = s
    <3>1. PICK x \in Nat :
           /\ x = extract_column_name(text, s, e)
           /\ \/ \E m \in Nat :
                   /\ m \in AliasMarks(text, s, e) /\ \A y \in AliasMarks(text, s, e) : y =< m
                   /\ m + 2 =< x /\ x =< Len(text)
                   /\ x = Len(text) \/ ~Blank(text, x)
                   /\ \A p \in (m + 2)..(x - 1) : Blank(text, p)
              \/ /\ AliasMarks(text, s, e) = {} /\ CharAt(text, e - 1) # "."
                 /\ \E d \in Nat : /\ s =< d /\ d + 2 =< e /\ x = d + 1 /\ CharAt(text, d) = "."
                                   /\ \A p \in x..(e - 2) : CharAt(text, p) # "."
              \/ /\ AliasMarks(text, s, e) = {} /\ x = s
                 /\ CharAt(text, e - 1) = "." \/ \A p \in s..(e - 2) : CharAt(text, p) # "."
      BY <1>4, <2>1, ExtractOK
    <3> QED
      BY <3>1
  <2> QED
    BY <1>6, <1>7, <2>2
<1>9. SubSeq(text, s + 1, s + Len(ExprOf(item))) = ExprOf(item)
  <2>1. ExprOf(item) \in Text /\ Stands(text, s, ExprOf(item))
    BY <1>1, <1>4 DEF ItemOK, ItemAt
  <2>2. s + Len(ExprOf(item)) =< Len(text)
    BY <1>4, <1>5
  <2> QED
    BY <1>4, <2>1, <2>2, PartIsWord
<1> QED
  BY <1>2, <1>4, <1>8, <1>9, Zenon

-----------------------------------------------------------------------------
(***************************************************************************)
(* Where the name of an item is found.                                     *)
(***************************************************************************)
\* The words of a sequence that are not empty, one after the other: none stands
\* behind its own place.
Picks(list, word, q) ==
  /\ Len(list) =< q
  /\ \A k \in 1..Len(list) : \E j \in 1..q : k =< j /\ list[k] = word[j]
  /\ \A i \in 1..q : word[i] # <<>> => \E k \in 1..i : k =< Len(list) /\ list[k] = word[i]

\* Such a list, and the next word.
LEMMA PicksNext ==
  ASSUME NEW list \in Seq(Text), NEW word, NEW q \in Nat \ {0}, word[q] \in Text,
         Picks(list, word, q - 1)
  PROVE  Picks(IF word[q] # <<>> THEN Append(list, word[q]) ELSE list, word, q)
<1>1. PICK n \in Nat : n = Len(list)
  BY LenProperties
<1>2. /\ n =< q - 1
      /\ \A k \in 1..n : \E j \in 1..(q - 1) : k =< j /\ list[k] = word[j]
      /\ \A i \in 1..(q - 1) : word[i] # <<>> => \E k \in 1..i : k =< n /\ list[k] = word[i]
  BY <1>1, Zenon DEF Picks
<1>3. \A i \in 1..q : i = q \/ i \in 1..(q - 1)
  OBVIOUS
<1>4. \A i \in 1..(q - 1) : i \in 1..q
  OBVIOUS
<1>5. CASE word[q] = <<>>
  <2>1. n =< q
    BY <1>2
  <2>2. \A k \in 1..n : \E j \in 1..q : k =< j /\ list[k] = word[j]
    BY <1>2, <1>4
  <2>3. \A i \in 1..q : word[i] # <<>> => \E k \in 1..i : k =< n /\ list[k] = word[i]
    BY <1>2, <1>3, <1>5
  <2>4. Picks(list, word, q)
    BY <1>1, <2>1, <2>2, <2>3, Zenon DEF Picks
  <2> QED
    BY <1>5, <2>4
<1>6. CASE word[q] # <<>>
  <2>1. PICK more : more = Append(list, word[q])
    OBVIOUS
  <2>2. /\ Len(more) = n + 1 /\ more[n + 1] = word[q]
        /\ \A k \in 1..n : more[k] = list[k]
    BY <1>1, <2>1, AppendProperties
  <2>3. n + 1 =< q
    BY <1>2
  <2>4. \A k \in 1..(n + 1) : k = n + 1 \/ k \in 1..n
    OBVIOUS
  <2>5. \A k \in 1..(n + 1) : \E j \in 1..q : k =< j /\ more[k] = word[j]
    <3> SUFFICES ASSUME NEW k \in 1..(n + 1)
                 PROVE  \E j \in 1..q : k =< j /\ more[k] = word[j]
      OBVIOUS
    <3>1. CASE k = n + 1
      <4>1. q \in 1..q /\ k =< q /\ more[k] = word[q]
        BY <2>2, <2>3, <3>1
      <4> QED
        BY <4>1
    <3>2. CASE k \in 1..n
      <4>1. PICK j \in 1..(q - 1) : k =< j /\ list[k] = word[j]
        BY <1>2, <3>2
      <4>2. j \in 1..q /\ k =< j /\ more[k] = word[j]
        BY <1>4, <2>2, <3>2, <4>1
      <4> QED
        BY <4>2
    <3> QED
      BY <2>4, <3>1, <3>2
  <2>6. \A i \in 1..q : word[i] # <<>> => \E k \in 1..i : k =< n + 1 /\ more[k] = word[i]
    <3> SUFFICES ASSUME NEW i \in 1..q, word[i] # <<>>
                 PROVE  \E k \in 1..i : k =< n + 1 /\ more[k] = word[i]
      OBVIOUS
    <3>1. CASE i = q
      <4>1. n + 1 \in 1..i /\ n + 1 =< n + 1 /\ more[n + 1] = word[i]
        BY <2>2, <2>3, <3>1
      <4> QED
        BY <4>1
    <3>2. CASE i \in 1..(q - 1)
      <4>1. PICK k \in 1..i : k =< n /\ list[k] = word[i]
        BY <1>2, <3>2
      <4>2. k \in 1..n /\ k =< n + 1
        BY <4>1
      <4>3. more[k] = word[i]
        BY <2>2, <4>1, <4>2
      <4> QED
        BY <4>2, <4>3
    <3> QED
      BY <1>3, <3>1, <3>2
  <2>7. Picks(more, word, q)
    BY <2>2, <2>3, <2>5, <2>6, Zenon DEF Picks
  <2> QED
    BY <1>6, <2>1, <2>7
<1> QED
  BY <1>5, <1>6

\* The columns are the names that are read, one after the other.
LEMMA ColumnsPicked ==
  ASSUME Made, NEW at, Laid(at), NEW m, NEW stop, NEW cols, ItemByItem(at, m, stop, cols),
         NEW word, word = [i \in 1..m |-> NameUpTo(at, i, stop[i])]
  PROVE  Picks(parse_select_columns(query), word, m)
<1>1. /\ m \in 1..Len(items) /\ stop \in [1..m -> Nat] /\ cols \in [0..m -> Seq(Text)]
      /\ cols[0] = <<>> /\ cols[m] = parse_select_columns(query)
      /\ \A i \in 1..m :
           cols[i] = IF NameUpTo(at, i, stop[i]) # <<>>
                     THEN Append(cols[i - 1], NameUpTo(at, i, stop[i]))
                     ELSE cols[i - 1]
      /\ Stops(at, m, stop)
  BY Zenon DEF ItemByItem
<1>2. m \in Nat /\ m =< Len(items)
  BY <1>1 DEF Made
<1>3. ASSUME NEW i \in 1..m PROVE word[i] = NameUpTo(at, i, stop[i]) /\ word[i] \in Text
  <2>1. i \in 1..Len(items)
    BY <1>1 DEF Made
  <2>2. PICK start \in Nat, end \in Nat :
          start = Seg(at, i) /\ end = stop[i] /\ start =< end /\ end =< Len(query)
    BY <1>1, <2>1, SegOK DEF Stops
  <2>3. query \in Text
    BY DEF Laid
  <2>4. ColumnBetween(query, start, end) \in Text
    BY <2>2, <2>3, ColumnIsText
  <2>5. word[i] = NameUpTo(at, i, stop[i])
    OBVIOUS
  <2> QED
    BY <2>2, <2>4, <2>5, Zenon DEF NameUpTo
<1> DEFINE D == 0..m
           S == {q \in D : Picks(cols[q], word, q)}
<1>4. D \subseteq S
  <2>1. 0 \in S /\ D \subseteq Nat
    <3>1. Picks(<<>>, word, 0)
      <4>1. Len(<<>>) = 0
        BY EmptySeq
      <4>2. \A k \in 1..0 : FALSE
        OBVIOUS
      <4> QED
        BY <4>1, <4>2 DEF Picks
    <3> QED
      BY <1>1, <1>2, <3>1
  <2>2. ASSUME NEW q \in D, q # 0 PROVE q - 1 \in D /\ (q - 1 \in S => q \in S)
    <3>1. q - 1 \in D /\ q \in 1..m /\ q \in Nat \ {0}
      BY <1>2, <2>2
    <3> SUFFICES ASSUME Picks(cols[q - 1], word, q - 1) PROVE Picks(cols[q], word, q)
      BY <3>1
    <3>2. cols[q - 1] \in Seq(Text) /\ word[q] \in Text
      BY <1>1, <1>3, <3>1
    <3>3. cols[q] = IF word[q] # <<>> THEN Append(cols[q - 1], word[q]) ELSE cols[q - 1]
      BY <1>1, <1>3, <3>1
    <3>4. Picks(IF word[q] # <<>> THEN Append(cols[q - 1], word[q]) ELSE cols[q - 1], word, q)
      BY <3>1, <3>2, PicksNext
    <3> QED
      BY <3>3, <3>4
  <2> HIDE DEF D, S
  <2> QED
    BY <2>1, <2>2, Induction
<1>5. m \in D
  BY <1>2
<1>6. Picks(cols[m], word, m)
  BY <1>4, <1>5
<1> QED
  BY <1>1, <1>6

\* The least place of a name.
LEMMA IndexOfPlace ==
  ASSUME NEW list \in Seq(Text), NEW name
  PROVE  \/ column_index(list, name) = -1 /\ \A k \in 1..Len(list) : list[k] # name
         \/ \E x \in Nat : /\ x \in 1..Len(list) /\ list[x] = name
                           /\ column_index(list, name) = x - 1
                           /\ \A k \in 1..Len(list) : list[k] = name => x =< k
<1>1. PICK n \in Nat : n = Len(list)
  BY LenProperties
<1>2. PICK S : S = {i \in 1..n : list[i] = name}
  OBVIOUS
<1>3. column_index(list, name) = IF S = {} THEN NotFound ELSE Min(S) - 1
  BY <1>1, <1>2, Zenon DEF column_index, FirstPlace
<1>4. CASE S = {}
  <2>1. column_index(list, name) = -1
    BY <1>3, <1>4 DEF NotFound
  <2>2. \A k \in 1..n : list[k] # name
    BY <1>2, <1>4
  <2> QED
    BY <1>1, <2>1, <2>2
<1>5. CASE S # {}
  <2>1. S \subseteq Nat
    BY <1>2
  <2>2. PICK x \in Nat : x = Min(S) /\ x \in S /\ \A y \in S : x =< y
    BY <1>5, <2>1, MinIsLeast
  <2>3. column_index(list, name) = x - 1
    BY <1>3, <1>5, <2>2
  <2>4. x \in 1..n /\ list[x] = name /\ \A k \in 1..n : list[k] = name => x =< k
    BY <1>2, <2>2
  <2> QED
    BY <1>1, <2>3, <2>4
<1> QED
  BY <1>4, <1>5

\* A name with a dot that is found behind its item is what is left of another.
LEMMA FoundOfAnother ==
  ASSUME Made, NEW at, Laid(at), NEW m, NEW stop, Stops(at, m, stop),
         NEW i \in 1..Len(items), HoldsDot(items[i]),
         NEW name, name = Name(items[i]), name[Len(name)] # ".",
         NEW j \in 1..m, i < j, name = NameUpTo(at, j, stop[j])
  PROVE  ReadOfAnother(i)
<1>1. name \in Text /\ name # <<>>
  BY NamesOK
<1>2. AliasOf(items[i]) = None /\ name = ExprOf(items[i])
  BY Zenon DEF HoldsDot, Name, AliasOf, ExprOf
<1>3. PICK k \in 1..(Len(name) - 1) : name[k] = "."
  BY <1>2, Zenon DEF HoldsDot, ExprOf
<1>4. PICK r \in Nat : r + 2 =< Len(name) /\ name[r + 1] = "."
  <2>1. PICK n \in Nat : n = Len(name)
    BY <1>1, TextOK
  <2>2. k \in Nat /\ k >= 1 /\ k =< n - 1
    BY <1>3, <2>1
  <2>3. k - 1 \in Nat /\ (k - 1) + 2 =< n /\ (k - 1) + 1 = k
    BY <2>2
  <2> QED
    BY <1>3, <2>1, <2>3
<1>5. j \in 1..Len(items) /\ Holds(items[j].expr, as) /\ Inside(name, Written(j))
  BY <1>1, <1>4, DotIsOfAnother
<1>6. j \in (i + 1)..Len(items)
  BY <1>5
<1> QED
  BY <1>5, <1>6, Zenon DEF ReadOfAnother

\* No name with an AS in it is found.
LEMMA NoAsIsFound ==
  ASSUME Made, NEW at, Laid(at), NEW m, NEW stop, Stops(at, m, stop),
         NEW i \in 1..Len(items), TakenForAs(items[i]), NEW j \in 1..m
  PROVE  NameUpTo(at, j, stop[j]) # Name(items[i])
<1> SUFFICES ASSUME NameUpTo(at, j, stop[j]) = Name(items[i]) PROVE FALSE
  OBVIOUS
<1>1. PICK name \in Text : name = Name(items[i]) /\ name # <<>> /\ ~BeginsWithAs(name)
  <2>1. ItemOK(items[i])
    BY DEF Made
  <2> QED
    BY <2>1, NamesOK, NameBegins
<1>2. Holds(name, as)
  BY <1>1, Zenon DEF TakenForAs
<1>3. j \in 1..Len(items)
  BY DEF Stops, Made
<1>4. PICK start \in Nat, end \in Nat :
        start = Seg(at, j) /\ end = stop[j] /\ start =< end /\ end =< Len(query)
  BY <1>3, SegOK DEF Stops
<1>5. query \in Text
  BY DEF Laid
<1>6. name = ColumnBetween(query, start, end)
  BY <1>1, <1>4, Zenon DEF NameUpTo
<1>7. BeginsWithAs(name)
  BY <1>1, <1>2, <1>4, <1>5, <1>6, NoAsIsRead
<1> QED
  BY <1>1, <1>7

\* The name of an item is read of it, or of none, or of one with an AS.
LEMMA OwnName ==
  ASSUME Made, NEW at, Laid(at), NEW m, NEW stop, Stops(at, m, stop), NEW i \in 1..m,
         Whole(at, m, stop, i), ~TakenForAs(items[i]),
         NEW name, name = Name(items[i]), ~HoldsDot(items[i]) \/ name[Len(name)] = "."
  PROVE  NameUpTo(at, i, stop[i]) = name
<1>1. CASE ~HoldsDot(items[i])
  BY <1>1, NameIsRead
<1>2. CASE HoldsDot(items[i]) /\ name[Len(name)] = "."
  <2>1. PICK item : item = items[i]
    OBVIOUS
  <2>2. AliasOf(item) = None /\ name = ExprOf(item)
    BY <1>2, <2>1, Zenon DEF HoldsDot, Name, AliasOf, ExprOf
  <2>3. ~Holds(ExprOf(item), as)
    BY <2>1, <2>2, Zenon DEF TakenForAs
  <2>4. PICK pos \in Nat, start \in Nat, end \in Nat :
          pos = at[i] /\ start = Seg(at, i) /\ end = stop[i]
    BY WholeAround
  <2>5. query \in Text /\ AroundItem(query, pos, item, start, end)
    BY <2>1, <2>4, WholeAround
  <2>6. ColumnBetween(query, start, end) = ExprOf(item)
    <3>1. EndsInDot(item)
      BY <1>2, <2>2, <2>3, Zenon DEF EndsInDot
    <3>2. pos \in Nat /\ start \in Nat /\ end \in Nat
      BY <2>4
    <3> QED
      BY <2>5, <3>1, <3>2, DotAtEndIsRead
  <2> QED
    BY <2>2, <2>4, <2>6, Zenon DEF NameUpTo
<1> QED
  BY <1>1, <1>2

\* ShiftsLeftOnly, item by item.
LEMMA ShiftsLeft == QueryInv => ShiftsLeftOnly
<1> SUFFICES ASSUME QueryInv, NoCommas, NEW i \in 1..Len(items), ~ReadOfAnother(i)
             PROVE  column_index(columns, Name(items[i])) <= i - 1
  BY NoCommasIs DEF ShiftsLeftOnly
<1>1. Made /\ columns = parse_select_columns(query) /\ Len(items) \in Nat
  BY QueryMade
<1>2. columns \in Seq(Text) /\ Len(columns) \in Nat
  BY ColumnsInRange
<1>3. PICK at : Laid(at)
  BY <1>1, QueryLaid
<1>4. PICK m, stop, cols : ItemByItem(at, m, stop, cols)
  BY <1>1, <1>3, ItemColumns
<1>5. m \in 1..Len(items) /\ Stops(at, m, stop)
  BY <1>4, Zenon DEF ItemByItem
<1>6. PICK word : word = [j \in 1..m |-> NameUpTo(at, j, stop[j])]
  OBVIOUS
<1>7. Picks(columns, word, m)
  BY <1>1, <1>3, <1>4, <1>6, ColumnsPicked
<1>8. /\ Len(columns) =< m
      /\ \A k \in 1..Len(columns) : \E j \in 1..m : k =< j /\ columns[k] = word[j]
      /\ \A j \in 1..m : word[j] # <<>> =>
           \E k \in 1..j : k =< Len(columns) /\ columns[k] = word[j]
  BY <1>7, Zenon DEF Picks
<1>9. PICK name \in Text : name = Name(items[i]) /\ name # <<>>
  BY <1>1, NamesOK
<1>10. CASE column_index(columns, name) = -1
  BY <1>9, <1>10
<1>11. CASE column_index(columns, name) # -1
  <2>1. PICK x \in Nat :
          /\ x \in 1..Len(columns) /\ columns[x] = name /\ column_index(columns, name) = x - 1
          /\ \A k \in 1..Len(columns) : columns[k] = name => x =< k
    BY <1>2, <1>11, IndexOfPlace
  <2>2. x =< i => column_index(columns, Name(items[i])) <= i - 1
    BY <1>9, <2>1
  <2>3. ASSUME i < x PROVE FALSE
    <3>1. PICK j \in 1..m : x =< j /\ name = word[j]
      BY <1>8, <2>1
    <3>2. name = NameUpTo(at, j, stop[j]) /\ i < j
      BY <1>6, <2>3, <3>1
    <3>3. i \in 1..m /\ i < m
      BY <1>5, <3>2
    <3>4. Whole(at, m, stop, i)
      BY <3>3 DEF Whole
    <3>5. ~TakenForAs(items[i])
      BY <1>1, <1>3, <1>5, <1>9, <3>2, NoAsIsFound
    <3>6. CASE HoldsDot(items[i]) /\ name[Len(name)] # "."
      <4>1. ReadOfAnother(i)
        BY <1>1, <1>3, <1>5, <1>9, <3>2, <3>6, FoundOfAnother
      <4> QED
        BY <4>1
    <3>7. CASE ~HoldsDot(items[i]) \/ name[Len(name)] = "."
      <4>1. NameUpTo(at, i, stop[i]) = name
        BY <1>1, <1>3, <1>5, <1>9, <3>3, <3>4, <3>5, <3>7, OwnName
      <4>2. word[i] = name
        BY <1>6, <3>3, <4>1
      <4>3. PICK k \in 1..i : k =< Len(columns) /\ columns[k] = name
        BY <1>8, <1>9, <3>3, <4>2
      <4>4. k \in 1..Len(columns)
        BY <1>2, <4>3
      <4>5. x =< k
        BY <2>1, <4>3, <4>4
      <4> QED
        BY <2>3, <4>3, <4>5
    <3> QED
      BY <3>6, <3>7
  <2> QED
    BY <2>1, <2>2, <2>3
<1> QED
  BY <1>9, <1>10, <1>11

\* ShiftsLeftOnly holds: where names are misread, columns are lost, and an item
\* is found at its place or in front of it; only a name with a dot may be found
\* behind, as what is left of an expression with an AS in it
\* (extract_column_name, column_index).
THEOREM ColumnsShiftLeft == Spec => []ShiftsLeftOnly
<1> QED
  BY QueryIsBuilt, ShiftsLeft, PTL
=============================================================================

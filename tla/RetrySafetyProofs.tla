------------------------- MODULE RetrySafetyProofs -------------------------
(***************************************************************************)
(* is_safe_retry_query rejects every text there is, so the retry after a   *)
(* lost result in base_text_query is dead code.                            *)
(***************************************************************************)
EXTENDS MCRetrySafety, TLAPS

\* No character is a lower-case and an upper-case letter: the loop skips all.
LEMMA SkipsEverything == \A c : Skips(c)
  BY DEF Skips, LowerCase, UpperCase

LEMMA SkipsToTheEnd ==
  ASSUME NEW q \in QueryTexts
  PROVE  SkipTo(q) = Len(q)
<1> DEFINE Stop(i) == LoopStops(q, i) /\ \A j \in 0..(i - 1) : ~LoopStops(q, j)
<1>1. Len(q) \in Nat
  BY DEF QueryTexts
<1>2. \A i : LoopStops(q, i) <=> i = Len(q)
  BY SkipsEverything DEF LoopStops
<1>3. Stop(Len(q)) /\ \A i \in 0..Len(q) : Stop(i) => i = Len(q)
  BY <1>1, <1>2
<1> QED
  BY <1>1, <1>3 DEF SkipTo

\* For every sequence of bytes: it is not safe to retry. In particular the
\* texts that start with one of the five keywords are not (connection.h:625).
THEOREM NoTextIsSafe ==
  ASSUME NEW q \in QueryTexts
  PROVE  ~is_safe_retry_query(q)
<1>1. \A k \in ReadKeywords : Len(k) > 0
  BY DEF ReadKeywords, select, show, describe, explain, check
<1>2. \A k \in ReadKeywords : ~starts_with_any_case(q, k, Len(q))
  <2>1. \A k \in ReadKeywords : Len(k) \in Nat
    BY DEF ReadKeywords, select, show, describe, explain, check
  <2> QED
    BY <1>1, <2>1 DEF starts_with_any_case, QueryTexts
<1> QED
  BY <1>2, SkipsToTheEnd DEF is_safe_retry_query

\* The same as an invariant of the module that enumerates texts, for every
\* alphabet of bytes and every length.
THEOREM NothingSafe == Spec => []NothingIsSafeToRetry
<1> DEFINE IsText == query \in QueryTexts
<1>1. Init => IsText
  BY DEF Init, QueryTexts
<1>2. IsText /\ [Next]_query => IsText'
  BY AlphabetAssumption DEF Next, QueryTexts
<1>3. IsText => NothingIsSafeToRetry
  BY NoTextIsSafe DEF NothingIsSafeToRetry
<1> HIDE DEF IsText
<1> QED
  BY <1>1, <1>2, <1>3, PTL DEF Spec
-----------------------------------------------------------------------------
\* One character of the comparison ignores case, whichever side is upper.
LEMMA SameLowered ==
  ASSUME NEW s \in Byte, NEW p \in Byte
  PROVE  SameLetter(s, p) <=> to_lower(s) = to_lower(p)
  BY DEF SameLetter, to_lower, Byte, UpperCase

\* For every text, every prefix and every offset: starts_with_any_case compares
\* the lower-cased characters, and nothing behind the end (query_parsing.h:70).
LEMMA ComparesLowered ==
  ASSUME NEW str \in QueryTexts, NEW prefix \in QueryTexts, NEW offset \in Nat
  PROVE  starts_with_any_case(str, prefix, offset) <=>
           /\ offset + Len(prefix) <= Len(str)
           /\ [i \in 1..Len(prefix) |-> to_lower(str[offset + i])]
                = [i \in 1..Len(prefix) |-> to_lower(prefix[i])]
<1>1. Len(str) \in Nat /\ Len(prefix) \in Nat
  BY DEF QueryTexts
<1>2. ASSUME offset + Len(prefix) <= Len(str), NEW i \in 1..Len(prefix)
      PROVE  /\ str[i + offset] = str[offset + i]
             /\ SameLetter(str[i + offset], prefix[i])
                  <=> to_lower(str[offset + i]) = to_lower(prefix[i])
  <2>1. i + offset = offset + i /\ i + offset \in 1..Len(str)
    BY <1>1, <1>2
  <2>2. str[i + offset] \in Byte /\ prefix[i] \in Byte
    BY <2>1 DEF QueryTexts
  <2> QED
    BY <2>1, <2>2, SameLowered
<1>3. Len(str) >= Len(prefix) + offset <=> offset + Len(prefix) <= Len(str)
  BY <1>1
<1> QED
  BY <1>2, <1>3 DEF starts_with_any_case

\* The same as an invariant of the module that enumerates texts, for every
\* alphabet of bytes and every length.
THEOREM IgnoresCase == Spec => []ComparesCaseInsensitively
<1> DEFINE IsText == query \in QueryTexts
<1>1. Init => IsText
  BY DEF Init, QueryTexts
<1>2. IsText /\ [Next]_query => IsText'
  BY AlphabetAssumption DEF Next, QueryTexts
<1>3. IsText => ComparesCaseInsensitively
  <2>1. /\ show \in QueryTexts /\ <<83, 72>> \in QueryTexts
        /\ <<91>> \in QueryTexts /\ <<64, 115>> \in QueryTexts
    <3>1. \A a, b, c, d \in Byte : <<a>> \in QueryTexts /\ <<a, b>> \in QueryTexts
                                 /\ <<a, b, c, d>> \in QueryTexts
      BY DEF QueryTexts
    <3>2. /\ 64 \in Byte /\ 72 \in Byte /\ 83 \in Byte /\ 91 \in Byte
          /\ 104 \in Byte /\ 111 \in Byte /\ 115 \in Byte /\ 119 \in Byte
      BY DEF Byte
    <3> QED
      BY <3>1, <3>2 DEF show
  <2> DEFINE prefixes == {show, <<83, 72>>, <<91>>, <<64, 115>>}
  <2> SUFFICES ASSUME query \in QueryTexts, NEW offset \in 0..3, NEW prefix \in prefixes
               PROVE  starts_with_any_case(query, prefix, offset) <=>
                        /\ offset + Len(prefix) <= Len(query)
                        /\ [i \in 1..Len(prefix) |-> to_lower(query[offset + i])]
                             = [i \in 1..Len(prefix) |-> to_lower(prefix[i])]
    BY DEF ComparesCaseInsensitively
  <2>2. prefix \in QueryTexts /\ offset \in Nat
    BY <2>1
  <2> QED
    BY <2>2, ComparesLowered
<1> HIDE DEF IsText
<1> QED
  BY <1>1, <1>2, <1>3, PTL DEF Spec
=============================================================================

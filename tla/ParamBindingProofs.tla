------------------------- MODULE ParamBindingProofs -------------------------
(***************************************************************************)
(* For any number of arguments, each bind record points at the copy of its *)
(* own argument, and one string is always safe.                            *)
(***************************************************************************)
EXTENDS ParamBinding, TLAPS

\* The record of a number or of characters, and that of a string, whose block
\* is the one in use as long as it is the only string.
InPlace(i) == binds[i] = [buffer |-> ArgumentItself(i), exact |-> TRUE]
OfCopy(i) ==
  \E e \in 1..Len(holder), b \in Nat :
    /\ holder[e] = i
    /\ binds[i] = [buffer |-> CharsOf(e, args[i].long, b), exact |-> CopiedWhole(args[i])]
    /\ Len(holder) = 1 => b = storage

\* The elements of the vector are copies of different arguments.
HolderOK ==
  /\ \A k \in 1..Len(holder) : holder[k] \in Bound /\ Copied(args[holder[k]])
  /\ \A k, l \in 1..Len(holder) : holder[k] = holder[l] => k = l

SizesOK ==
  /\ Len(binds) <= Len(args)
  /\ Len(holder) <= capacity
  /\ Len(holder) = 0 => capacity = 0 /\ storage = 0
  /\ Len(holder) = 1 => storage = 1

Records == [buffer : [in : {"heap", "vector", "argument"}, block : Nat, element : Nat],
            exact : BOOLEAN]

Types ==
  /\ args \in Seq(Args) /\ binds \in Seq(Records) /\ holder \in Seq(Nat)
  /\ capacity \in Nat /\ storage \in Nat

IInv ==
  /\ Types /\ SizesOK /\ HolderOK
  /\ \A i \in Bound : IF Copied(args[i]) THEN OfCopy(i) ELSE InPlace(i)

-----------------------------------------------------------------------------
LEMMA InitIInv == Init => IInv
<1> SUFFICES ASSUME Init PROVE IInv
  OBVIOUS
<1>1. PICK n \in 0..MaxArgs : args \in [1..n -> Args]
  BY DEF Init
<1>2. args \in Seq(Args)
  BY <1>1, BindingAssumption
<1> QED
  BY <1>2 DEF Init, IInv, Types, SizesOK, HolderOK, Bound, Records

\* An argument that is bound where it is adds a record and nothing else.
LEMMA InPlaceStep ==
  ASSUME IInv, BindInPlace
  PROVE  IInv'
<1> USE DEF index
<1>1. /\ Types /\ SizesOK /\ HolderOK
      /\ args' = args /\ holder' = holder /\ capacity' = capacity /\ storage' = storage
  BY DEF IInv, BindInPlace
<1>2. [buffer |-> ArgumentItself(index), exact |-> TRUE] \in Records
  BY <1>1 DEF Records, ArgumentItself, Types
<1>3. /\ binds' \in Seq(Records) /\ Len(binds') = Len(binds) + 1
      /\ binds'[index] = [buffer |-> ArgumentItself(index), exact |-> TRUE]
      /\ \A i \in Bound : binds'[i] = binds[i]
  BY <1>1, <1>2 DEF BindInPlace, Types, Bound
<1>4. Bound' = Bound \cup {index} /\ index \notin Bound
  BY <1>1, <1>3 DEF Bound, Types
<1>5. Types' /\ SizesOK'
  BY <1>1, <1>3 DEF Types, SizesOK, BindInPlace
<1>6. HolderOK'
  BY <1>1, <1>4 DEF HolderOK, Copied
<1>7. \A i \in Bound' : (IF Copied(args[i]) THEN OfCopy(i) ELSE InPlace(i))'
  <2> SUFFICES ASSUME NEW i \in Bound'
               PROVE  IF Copied(args[i]) THEN OfCopy(i)' ELSE InPlace(i)'
    BY <1>1 DEF Copied
  <2>1. CASE i = index
    BY <1>1, <1>3, <2>1 DEF InPlace, BindInPlace
  <2>2. CASE i \in Bound
    BY <1>1, <1>3, <2>2 DEF IInv, InPlace, OfCopy
  <2> QED
    BY <1>4, <2>1, <2>2
<1> QED
  BY <1>5, <1>6, <1>7 DEF IInv

\* A string adds a copy, which may move the vector, and a record of the copy.
LEMMA StringStep ==
  ASSUME IInv, BindString
  PROVE  IInv'
<1> USE DEF index
<1> DEFINE new == [buffer |-> CharsOf(Len(holder) + 1, args[index].long, storage'),
                   exact |-> CopiedWhole(args[index])]
<1>1. /\ Types /\ SizesOK /\ HolderOK
      /\ args' = args /\ Copied(args[index]) /\ index \in 1..Len(args)
  BY DEF IInv, BindString, Types
<1>2. /\ holder' = Append(holder, index)
      /\ storage' = storage + IF Grows THEN 1 ELSE 0
      /\ IF Grows THEN capacity' \in (capacity + 1)..(2 * capacity + 1)
                  ELSE capacity' = capacity
  BY DEF BindString, push_back
<1>3. /\ holder' \in Seq(Nat) /\ Len(holder') = Len(holder) + 1
      /\ holder'[Len(holder) + 1] = index
      /\ \A k \in 1..Len(holder) : holder'[k] = holder[k]
  BY <1>1, <1>2 DEF Types
<1>4. storage' \in Nat /\ capacity' \in Nat
  BY <1>1, <1>2 DEF Types, Grows
<1>5. new \in Records
  BY <1>1, <1>4 DEF Records, CharsOf, CopiedWhole, Types, Args
<1>6. binds' = Append(binds, new)
  BY <1>3 DEF BindString, Element
<1>7. /\ binds' \in Seq(Records) /\ Len(binds') = Len(binds) + 1
      /\ binds'[index] = new /\ \A i \in Bound : binds'[i] = binds[i]
  BY <1>1, <1>5, <1>6 DEF Types, Bound
<1>8. Bound' = Bound \cup {index} /\ index \notin Bound
  BY <1>1, <1>7 DEF Bound, Types
<1>9. Types' /\ SizesOK'
  BY <1>1, <1>2, <1>3, <1>4, <1>7 DEF Types, SizesOK, Grows
<1>10. HolderOK'
  <2>1. Bound \subseteq Bound' /\ index \in Bound'
    BY <1>8
  <2>2. \A k \in 1..Len(holder') : k \in 1..Len(holder) \/ k = Len(holder) + 1
    BY <1>1, <1>3 DEF Types
  <2>3. \A k \in 1..Len(holder) : holder[k] \in Bound /\ holder[k] # index
    BY <1>1, <1>8 DEF HolderOK
  <2>4. \A k \in 1..Len(holder') : holder'[k] \in Bound' /\ Copied(args[holder'[k]])
    BY <1>1, <1>3, <2>1, <2>2, <2>3 DEF HolderOK
  <2>5. \A k, l \in 1..Len(holder') : holder'[k] = holder'[l] => k = l
    BY <1>1, <1>3, <2>2, <2>3 DEF HolderOK
  <2> QED
    BY <1>1, <2>4, <2>5 DEF HolderOK, Copied
<1>11. \A i \in Bound' : (IF Copied(args[i]) THEN OfCopy(i) ELSE InPlace(i))'
  <2> SUFFICES ASSUME NEW i \in Bound'
               PROVE  IF Copied(args[i]) THEN OfCopy(i)' ELSE InPlace(i)'
    BY <1>1 DEF Copied
  <2>1. CASE i = index
    <3>1. Len(holder) + 1 \in 1..Len(holder')
      BY <1>1, <1>3 DEF Types
    <3> QED
      BY <1>1, <1>3, <1>4, <1>7, <2>1, <3>1 DEF OfCopy
  <2>2. CASE i \in Bound /\ ~Copied(args[i])
    BY <1>1, <1>7, <2>2 DEF IInv, InPlace
  <2>3. CASE i \in Bound /\ Copied(args[i])
    <3>1. PICK e \in 1..Len(holder), b \in Nat :
            /\ holder[e] = i
            /\ binds[i] = [buffer |-> CharsOf(e, args[i].long, b),
                           exact |-> CopiedWhole(args[i])]
      BY <2>3 DEF IInv, OfCopy
    <3>2. e \in 1..Len(holder') /\ Len(holder') # 1 /\ holder'[e] = i
      BY <1>1, <1>3, <3>1 DEF Types
    <3> QED
      BY <1>1, <1>7, <2>3, <3>1, <3>2 DEF OfCopy
  <2> QED
    BY <1>8, <2>1, <2>2, <2>3
<1> QED
  BY <1>9, <1>10, <1>11 DEF IInv

\* The invariant: where every record points, whatever is bound.
THEOREM Bindings == Spec => []IInv
<1>1. IInv /\ [Next]_vars => IInv'
  <2> SUFFICES ASSUME IInv, [Next]_vars PROVE IInv'
    OBVIOUS
  <2>1. CASE BindString
    BY <2>1, StringStep
  <2>2. CASE BindInPlace
    BY <2>2, InPlaceStep
  <2>3. CASE UNCHANGED vars
    <3>1. Types' /\ SizesOK' /\ HolderOK'
      BY <2>3 DEF vars, IInv, Types, SizesOK, HolderOK, Bound, Copied
    <3>2. \A i \in Bound : (IF Copied(args[i]) THEN OfCopy(i) ELSE InPlace(i))'
      BY <2>3 DEF vars, IInv, OfCopy, InPlace, Copied
    <3> QED
      BY <2>3, <3>1, <3>2 DEF vars, IInv, Bound
  <2> QED
    BY <2>1, <2>2, <2>3 DEF Next
<1> QED
  BY InitIInv, <1>1, PTL DEF Spec

-----------------------------------------------------------------------------
\* A record delivers its argument, unless the argument is a view that ends
\* early, or the record is that of a short string and dangles.
LEMMA DeliversOrDangles ==
  ASSUME IInv, NEW i \in Bound
  PROVE  \/ Delivers(i) \/ args[i].open
         \/ ~args[i].long /\ Copied(args[i]) /\ Dangles(i)
<1>1. args[i] \in Args
  BY DEF IInv, Types, SizesOK, Bound
<1>2. CASE ~Copied(args[i])
  <2>1. binds[i] = [buffer |-> ArgumentItself(i), exact |-> TRUE]
    BY <1>2 DEF IInv, InPlace
  <2>2. binds[i].buffer.in = "argument" /\ binds[i].buffer.element = i
    BY <2>1 DEF ArgumentItself
  <2>3. binds[i].exact = TRUE
    BY <2>1
  <2> QED
    BY <2>2, <2>3 DEF Delivers, Dangles
<1>3. CASE Copied(args[i])
  <2>1. PICK e \in 1..Len(holder), b \in Nat :
          /\ holder[e] = i
          /\ binds[i] = [buffer |-> CharsOf(e, args[i].long, b),
                         exact |-> CopiedWhole(args[i])]
    BY <1>3 DEF IInv, OfCopy
  <2>2. args[i].long \in BOOLEAN /\ args[i].open \in BOOLEAN
    BY <1>1 DEF Args
  <2>3. /\ binds[i].buffer.in = IF args[i].long THEN "heap" ELSE "vector"
        /\ binds[i].buffer.element = e /\ binds[i].exact = ~args[i].open
    BY <2>1 DEF CharsOf, CopiedWhole
  <2>4. CASE args[i].long
    <3>1. binds[i].buffer.in = "heap"
      BY <2>3, <2>4
    <3> QED
      BY <2>1, <2>2, <2>3, <3>1 DEF Delivers, Dangles
  <2>5. CASE ~args[i].long
    <3>1. binds[i].buffer.in = "vector"
      BY <2>3, <2>5
    <3> QED
      BY <1>3, <2>1, <2>2, <2>3, <2>5, <3>1 DEF Delivers, Dangles
  <2> QED
    BY <2>2, <2>4, <2>5
<1> QED
  BY <1>2, <1>3

\* For any number of arguments: every record points at the copy of its own
\* argument (connection.h:575), a short string until the vector moves.
THEOREM RecordsRead == Spec => []RecordsReadTheirArgument
<1>1. IInv => RecordsReadTheirArgument
  BY DeliversOrDangles DEF RecordsReadTheirArgument
<1> QED
  BY Bindings, <1>1, PTL

\* For any number of arguments: a call with one string delivers all of them,
\* as only a second string can move the vector (connection.h:569, 573).
THEOREM OneString == Spec => []OneStringIsSafe
<1>1. IInv => OneStringIsSafe
  <2> SUFFICES ASSUME IInv,
                      \A i, j \in Bound : Copied(args[i]) /\ Copied(args[j]) => i = j,
                      NEW i \in Bound
               PROVE  Delivers(i) \/ args[i].open
    BY DEF OneStringIsSafe
  <2>1. CASE ~Copied(args[i])
    BY <2>1, DeliversOrDangles DEF IInv, Delivers
  <2>2. CASE Copied(args[i])
    <3>1. PICK e \in 1..Len(holder), b \in Nat :
            /\ holder[e] = i
            /\ binds[i] = [buffer |-> CharsOf(e, args[i].long, b),
                           exact |-> CopiedWhole(args[i])]
            /\ Len(holder) = 1 => b = storage
      BY <2>2 DEF IInv, OfCopy
    <3>2. \A k \in 1..Len(holder) : k = e
      BY <2>2, <3>1 DEF IInv, HolderOK
    <3>3. Len(holder) = 1
      <4>1. Len(holder) \in Nat
        BY DEF IInv, Types
      <4>2. 2 \notin 1..Len(holder)
        <5>1. 2 \in 1..Len(holder) => 1 \in 1..Len(holder)
          BY <4>1
        <5> QED
          BY <3>2, <5>1
      <4>3. \A n \in Nat : \A k \in 1..n : 2 \notin 1..n => n = 1
        OBVIOUS
      <4> QED
        BY <4>1, <4>2, <4>3
    <3>4. ~Dangles(i)
      BY <3>1, <3>3 DEF Dangles, CharsOf
    <3> QED
      BY <3>4, DeliversOrDangles
  <2> QED
    BY <2>1, <2>2
<1> QED
  BY Bindings, <1>1, PTL
=============================================================================

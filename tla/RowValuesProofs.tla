-------------------------- MODULE RowValuesProofs ---------------------------
(***************************************************************************)
(* What is read of a column, for bytes with any number of values, types of *)
(* any width, a buffer of any size, and any records: the number that was   *)
(* sent, the string, a copy that fits, and whether there is a value.       *)
(***************************************************************************)
EXTENDS RowValues, NumberInduction

-----------------------------------------------------------------------------
(***************************************************************************)
(* Quotients and remainders.                                               *)
(***************************************************************************)
\* Every integer has a quotient and a remainder.
LEMMA Divided ==
  ASSUME NEW v \in Int, NEW p \in Nat \ {0}
  PROVE  \E q \in Int, r \in 0..(p - 1) : v = q * p + r /\ v \div p = q /\ v % p = r
<1>1. v = (v \div p) * p + (v % p) /\ v % p \in 0..(p - 1) /\ v \div p \in Int
  OBVIOUS
<1> QED
  BY <1>1

\* It has only one of each.
LEMMA DividedOnce ==
  ASSUME NEW p \in Nat \ {0}, NEW q \in Int, NEW r \in 0..(p - 1),
         NEW k \in Int, NEW s \in 0..(p - 1), q * p + r = k * p + s
  PROVE  q = k /\ r = s
<1>1. (q - k) * p = s - r
  OBVIOUS
<1>2. ~(q - k >= 1)
  <2> SUFFICES ASSUME q - k >= 1 PROVE FALSE
    OBVIOUS
  <2>1. (q - k) * p >= p
    OBVIOUS
  <2> QED
    BY <1>1, <2>1
<1>3. ~(k - q >= 1)
  <2> SUFFICES ASSUME k - q >= 1 PROVE FALSE
    OBVIOUS
  <2>1. (k - q) * p >= p
    OBVIOUS
  <2> QED
    BY <1>1, <2>1
<1>4. q = k
  BY <1>2, <1>3
<1> QED
  BY <1>1, <1>4

\* The quotient and the remainder of a number that is written with them.
LEMMA DivisionOf ==
  ASSUME NEW p \in Nat \ {0}, NEW q \in Int, NEW r \in 0..(p - 1)
  PROVE  (q * p + r) % p = r /\ (q * p + r) \div p = q
<1>1. q * p + r \in Int
  OBVIOUS
<1>2. PICK k \in Int, s \in 0..(p - 1) :
        q * p + r = k * p + s /\ (q * p + r) \div p = k /\ (q * p + r) % p = s
  BY <1>1, Divided
<1>3. q = k /\ r = s
  BY <1>2, DividedOnce
<1> QED
  BY <1>2, <1>3

\* The remainder of a product: one factor's, and one of the quotient.
LEMMA RemainderOfProduct ==
  ASSUME NEW v \in Int, NEW p \in Nat \ {0}, NEW b \in Nat \ {0}
  PROVE  v % (b * p) = (v % p) + ((v \div p) % b) * p
<1>1. PICK q \in Int, r \in 0..(p - 1) : v = q * p + r /\ v \div p = q /\ v % p = r
  BY Divided
<1>2. PICK k \in Int, d \in 0..(b - 1) : q = k * b + d /\ q \div b = k /\ q % b = d
  BY Divided
<1>3. v = k * (b * p) + (d * p + r)
  BY <1>1, <1>2
<1>4. d * p + r \in 0..(b * p - 1) /\ b * p \in Nat \ {0}
  <2>1. d * p >= 0 /\ d * p \in Int
    BY <1>2
  <2>2. d * p =< (b - 1) * p
    BY <1>2
  <2>3. (b - 1) * p = b * p - p /\ b * p >= p
    OBVIOUS
  <2> QED
    BY <1>1, <2>1, <2>2, <2>3
<1>5. v % (b * p) = d * p + r
  BY <1>2, <1>3, <1>4, DivisionOf
<1> QED
  BY <1>1, <1>2, <1>5

\* A remainder by a multiple has the same remainder, whatever its sign.
LEMMA RemainderOfRemainder ==
  ASSUME NEW v \in Int, NEW p \in Nat \ {0}, NEW k \in Nat \ {0}, NEW m, m = p * k
  PROVE  (v % m) % p = v % p /\ ((v % m) - m) % p = v % p
<1>1. m \in Nat \ {0}
  OBVIOUS
<1>2. PICK q \in Int, r \in 0..(m - 1) : v = q * m + r /\ v % m = r
  BY <1>1, Divided
<1>3. r \in Int
  BY <1>1, <1>2
<1>4. PICK t \in Int, s \in 0..(p - 1) : r = t * p + s
  BY <1>3, Divided
<1>5. (q * k + t) * p + s = v /\ q * k + t \in Int
  <2>1. q * m = (q * k) * p /\ q * k \in Int
    OBVIOUS
  <2>2. (q * k + t) * p = (q * k) * p + t * p
    BY <2>1
  <2> QED
    BY <1>2, <1>4, <2>1, <2>2
<1>6. (t - k) * p + s = r - m /\ t - k \in Int
  <2>1. (t - k) * p = t * p - k * p
    OBVIOUS
  <2> QED
    BY <1>4, <2>1
<1>7. v % p = s
  BY <1>5, DivisionOf
<1>8. r % p = s
  BY <1>4, DivisionOf
<1>9. (r - m) % p = s
  BY <1>6, DivisionOf
<1> QED
  BY <1>2, <1>7, <1>8, <1>9

-----------------------------------------------------------------------------
(***************************************************************************)
(* Powers of the base, and integers in bytes.                              *)
(***************************************************************************)
Byte == 0..(Base - 1)
Bits == Byte \cup {Garbage}

\* A byte has two values or more.
LEMMA BaseOK == Base \in Nat \ {0, 1} /\ Capacity \in Nat
  BY ValuesAssumption

\* Powers are what their recursion says, and positive.
LEMMA PowerDef ==
  /\ Power \in [Nat -> Nat \ {0}]
  /\ Power[0] = 1
  /\ \A n \in Nat \ {0} : Power[n] = Base * Power[n - 1]
<1> DEFINE V == Nat \ {0}
           step == [n \in Nat \ {0} |-> [x \in V |-> Base * x]]
<1>1. \A x \in V : Base * x \in V
  BY BaseOK
<1>2. step \in [Nat \ {0} -> [V -> V]] /\ 1 \in V
  BY <1>1
<1>3. PICK f \in [Nat -> V] : f[0] = 1 /\ \A n \in Nat \ {0} : f[n] = step[n][f[n - 1]]
  <2> HIDE DEF V, step
  <2>1. Nat \subseteq Nat /\ 0 \in Nat /\ \A n \in Nat : n # 0 => n - 1 \in Nat
    OBVIOUS
  <2>2. Recursive(Nat, V, 1, step) # {}
    BY <1>2, <2>1, Recursion
  <2> QED
    BY <2>2 DEF Recursive
<1>4. ASSUME NEW n \in Nat PROVE f[n] = IF n = 0 THEN 1 ELSE Base * f[n - 1]
  <2>1. CASE n = 0
    BY <1>3, <2>1
  <2>2. CASE n # 0
    <3>1. n - 1 \in Nat /\ f[n - 1] \in V
      <4> HIDE DEF V, step
      <4> QED
        BY <1>3, <2>2
    <3> QED
      BY <1>3, <2>2, <3>1
  <2> QED
    BY <2>1, <2>2
<1>5. f = [n \in Nat |-> IF n = 0 THEN 1 ELSE Base * f[n - 1]]
  <2> HIDE DEF V, step
  <2> QED
    BY <1>3, <1>4
<1>6. Power = [n \in Nat |-> IF n = 0 THEN 1 ELSE Base * Power[n - 1]]
  <2>1. \E g : g = [n \in Nat |-> IF n = 0 THEN 1 ELSE Base * g[n - 1]]
    BY <1>5
  <2> QED
    BY <2>1, Zenon DEF Power
<1>7. Power[0] = 1 /\ \A n \in Nat \ {0} : Power[n] = Base * Power[n - 1]
  BY <1>6
<1>8. Nat \subseteq {n \in Nat : Power[n] \in V}
  <2> DEFINE S == {n \in Nat : Power[n] \in V}
  <2>1. 0 \in S
    BY <1>7
  <2>2. ASSUME NEW n \in Nat, n # 0 PROVE n - 1 \in Nat /\ (n - 1 \in S => n \in S)
    <3>1. n - 1 \in Nat /\ Power[n] = Base * Power[n - 1]
      BY <1>7, <2>2
    <3> QED
      BY <1>1, <3>1
  <2> HIDE DEF S
  <2>3. Nat \subseteq S
    BY <2>1, <2>2, Induction
  <2> QED
    BY <2>3 DEF S
<1> QED
  BY <1>6, <1>7, <1>8

\* Powers multiply: a larger one is a multiple of a smaller one.
LEMMA PowerSum ==
  ASSUME NEW m \in Nat, NEW n \in Nat
  PROVE  Power[m + n] = Power[m] * Power[n]
<1> DEFINE S == {k \in Nat : Power[m + k] = Power[m] * Power[k]}
<1>1. 0 \in S
  BY PowerDef
<1>2. ASSUME NEW k \in Nat, k # 0 PROVE k - 1 \in Nat /\ (k - 1 \in S => k \in S)
  <2>1. k - 1 \in Nat /\ m + k \in Nat \ {0} /\ (m + k) - 1 = m + (k - 1)
    BY <1>2
  <2> SUFFICES ASSUME k - 1 \in S PROVE k \in S
    BY <2>1
  <2>2. PICK p \in Nat, q \in Nat : p = Power[m] /\ q = Power[k - 1]
    BY <2>1, PowerDef
  <2>3. Power[m + k] = Base * (p * q)
    BY <2>1, <2>2, PowerDef
  <2>4. Power[k] = Base * q
    BY <1>2, <2>2, PowerDef
  <2>5. Base * (p * q) = p * (Base * q)
    BY BaseOK
  <2> QED
    BY <2>2, <2>3, <2>4, <2>5
<1> HIDE DEF S
<1>3. Nat \subseteq S
  BY <1>1, <1>2, Induction
<1> QED
  BY <1>3 DEF S

\* A smaller power divides a larger one.
LEMMA PowerDivides ==
  ASSUME NEW m \in Nat, NEW n \in Nat, m =< n
  PROVE  \E k \in Nat \ {0} : Power[n] = Power[m] * k
<1>1. n - m \in Nat /\ m + (n - m) = n
  OBVIOUS
<1>2. Power[m + (n - m)] = Power[m] * Power[n - m] /\ Power[n - m] \in Nat \ {0}
  BY <1>1, PowerSum, PowerDef
<1> QED
  BY <1>1, <1>2

\* Number adds the bytes up, each by its place.
LEMMA NumberSteps ==
  ASSUME NEW bytes \in Seq(Int)
  PROVE  \E f \in [0..Len(bytes) -> Int] :
           /\ f[0] = 0
           /\ \A n \in 1..Len(bytes) : f[n] = f[n - 1] + bytes[n] * Power[n - 1]
           /\ Number(bytes) = f[Len(bytes)]
<1> DEFINE D == 0..Len(bytes)
           V == Int
           step == [n \in D \ {0} |-> [x \in V |-> x + bytes[n] * Power[n - 1]]]
<1>1. ASSUME NEW n \in D \ {0}, NEW x \in V PROVE x + bytes[n] * Power[n - 1] \in V
  <2>1. bytes[n] \in Int /\ n - 1 \in Nat
    OBVIOUS
  <2>2. Power[n - 1] \in Nat
    BY <2>1, PowerDef
  <2>3. \A p \in Nat, b \in Int : x + b * p \in Int
    OBVIOUS
  <2> QED
    BY <2>1, <2>2, <2>3
<1>2. step \in [D \ {0} -> [V -> V]] /\ 0 \in V
  <2>1. 0 \in V
    OBVIOUS
  <2> HIDE DEF D, V
  <2> QED
    BY <1>1, <2>1
<1>3. D \subseteq Nat /\ 0 \in D /\ \A n \in D : n # 0 => n - 1 \in D
  OBVIOUS
<1>4. PICK f \in [D -> V] : f[0] = 0 /\ \A n \in D \ {0} : f[n] = step[n][f[n - 1]]
  <2> HIDE DEF D, V, step
  <2>1. Recursive(D, V, 0, step) # {}
    BY <1>2, <1>3, Recursion
  <2> QED
    BY <2>1 DEF Recursive
<1>5. ASSUME NEW n \in D
      PROVE  f[n] = IF n = 0 THEN 0 ELSE f[n - 1] + bytes[n] * Power[n - 1]
  <2>1. CASE n = 0
    BY <1>4, <2>1
  <2>2. CASE n # 0
    <3>1. n \in D \ {0} /\ f[n - 1] \in Int
      BY <1>3, <2>2
    <3>2. step[n][f[n - 1]] = f[n - 1] + bytes[n] * Power[n - 1]
      BY <3>1
    <3> HIDE DEF step
    <3> QED
      BY <1>4, <2>2, <3>2
  <2> QED
    BY <2>1, <2>2
<1>6. f = [n \in D |-> IF n = 0 THEN 0 ELSE f[n - 1] + bytes[n] * Power[n - 1]]
  <2> HIDE DEF D, step
  <2> QED
    BY <1>4, <1>5
<1>7. \E g : /\ g = [n \in D |-> IF n = 0 THEN 0 ELSE g[n - 1] + bytes[n] * Power[n - 1]]
             /\ Number(bytes) = g[Len(bytes)]
  <2>1. \E g : g = [n \in 0..Len(bytes) |-> IF n = 0 THEN 0 ELSE g[n - 1] + bytes[n] * Power[n - 1]]
    BY <1>6
  <2> QED
    BY <2>1, Zenon DEF Number
<1>8. PICK g : /\ g = [n \in D |-> IF n = 0 THEN 0 ELSE g[n - 1] + bytes[n] * Power[n - 1]]
               /\ Number(bytes) = g[Len(bytes)]
  BY <1>7
<1>9. g = f
  <2> DEFINE S == {n \in D : g[n] = f[n]}
  <2>1. 0 \in S
    BY <1>3, <1>5, <1>8
  <2>2. ASSUME NEW n \in D, n # 0 PROVE n - 1 \in D /\ (n - 1 \in S => n \in S)
    BY <1>3, <1>5, <1>8, <2>2
  <2>3. D \subseteq S
    <3> HIDE DEF D, S
    <3> QED
      BY <1>3, <2>1, <2>2, Induction
  <2> QED
    BY <1>6, <1>8, <2>3
<1>10. f[0] = 0 /\ \A n \in 1..Len(bytes) : f[n] = f[n - 1] + bytes[n] * Power[n - 1]
  BY <1>5
<1> QED
  BY <1>4, <1>8, <1>9, <1>10

\* Sequences, of a set and of a larger one, and what is in them.
LEMMA SequenceOfMore ==
  ASSUME NEW S, NEW T, S \subseteq T, NEW s \in Seq(S)
  PROVE  s \in Seq(T)
  OBVIOUS

LEMMA ElementOf ==
  ASSUME NEW S, NEW s \in Seq(S), NEW i \in 1..Len(s)
  PROVE  s[i] \in S
  OBVIOUS

\* Bytes have a value.
LEMMA NumberTyped ==
  ASSUME NEW bytes \in Seq(Int)
  PROVE  Number(bytes) \in Int
<1>1. Len(bytes) \in Nat
  OBVIOUS
<1> QED
  BY <1>1, NumberSteps

\* The digits of a number are bytes, as many as asked for.
LEMMA DigitsTyped ==
  ASSUME NEW v \in Int, NEW n \in Nat
  PROVE  Digits(v, n) \in Seq(Byte) /\ Len(Digits(v, n)) = n
<1>1. ASSUME NEW i \in 1..n PROVE (v \div Power[i - 1]) % Base \in Byte
  <2>1. i - 1 \in Nat
    OBVIOUS
  <2>2. PICK p \in Nat \ {0} : p = Power[i - 1]
    BY <2>1, PowerDef
  <2>3. PICK q \in Int : v \div p = q
    BY Divided
  <2>4. q % Base \in 0..(Base - 1)
    BY BaseOK, Divided
  <2> QED
    BY <2>2, <2>3, <2>4 DEF Byte
<1> QED
  BY <1>1 DEF Digits

\* The first digits of a number are digits of the number.
LEMMA FirstDigits ==
  ASSUME NEW v \in Int, NEW n \in Nat, NEW i \in 1..n
  PROVE  Digits(v, n)[i] = (v \div Power[i - 1]) % Base
  BY DEF Digits

\* The digits of a number add up to its remainder.
LEMMA NumberOfDigits ==
  ASSUME NEW v \in Int, NEW n \in Nat
  PROVE  Number(Digits(v, n)) = v % Power[n]
<1>1. Digits(v, n) \in Seq(Int) /\ Len(Digits(v, n)) = n
  <2>1. Byte \subseteq Int
    BY BaseOK DEF Byte
  <2>2. Digits(v, n) \in Seq(Byte) /\ Len(Digits(v, n)) = n
    BY DigitsTyped
  <2> QED
    BY <2>1, <2>2, SequenceOfMore
<1>2. PICK f \in [0..n -> Int] :
        /\ f[0] = 0
        /\ \A i \in 1..n : f[i] = f[i - 1] + Digits(v, n)[i] * Power[i - 1]
        /\ Number(Digits(v, n)) = f[n]
  BY <1>1, NumberSteps
<1> DEFINE D == 0..n
           S == {i \in D : f[i] = v % Power[i]}
<1>3. 0 \in S
  <2>1. v % 1 = 0
    OBVIOUS
  <2> QED
    BY <1>2, <2>1, PowerDef
<1>4. ASSUME NEW i \in D, i # 0 PROVE i - 1 \in D /\ (i - 1 \in S => i \in S)
  <2>1. i \in 1..n /\ i - 1 \in D /\ i \in Nat \ {0} /\ i - 1 \in Nat
    BY <1>4
  <2> SUFFICES ASSUME i - 1 \in S PROVE f[i] = v % Power[i]
    BY <2>1
  <2>2. PICK p \in Nat \ {0} : p = Power[i - 1]
    BY <2>1, PowerDef
  <2>3. f[i] = (v % p) + ((v \div p) % Base) * p
    BY <1>2, <2>1, <2>2, FirstDigits
  <2>4. v % (Base * p) = (v % p) + ((v \div p) % Base) * p
    BY BaseOK, RemainderOfProduct
  <2>5. Power[i] = Base * p
    BY <2>1, <2>2, PowerDef
  <2> QED
    BY <2>3, <2>4, <2>5
<1>5. D \subseteq S
  <2>1. D \subseteq Nat
    OBVIOUS
  <2> HIDE DEF D, S
  <2> QED
    BY <1>3, <1>4, <2>1, Induction
<1>6. n \in D
  OBVIOUS
<1> QED
  BY <1>2, <1>5, <1>6

\* Decimal digits have a value.
LEMMA DecimalTyped ==
  ASSUME NEW digits \in Seq(Int)
  PROVE  DecimalOf(digits) \in Int
<1> DEFINE D == 0..Len(digits)
           V == Int
           step == [n \in D \ {0} |-> [x \in V |-> x * (Base - 1) + digits[n] - 1]]
<1>1. ASSUME NEW n \in D \ {0}, NEW x \in V PROVE x * (Base - 1) + digits[n] - 1 \in V
  <2>1. digits[n] \in Int /\ x * (Base - 1) \in Int
    BY BaseOK
  <2> QED
    BY <2>1
<1>2. step \in [D \ {0} -> [V -> V]] /\ 0 \in V
  <2>1. 0 \in V
    OBVIOUS
  <2> HIDE DEF D, V
  <2> QED
    BY <1>1, <2>1
<1>3. D \subseteq Nat /\ 0 \in D /\ \A n \in D : n # 0 => n - 1 \in D
  OBVIOUS
<1>4. PICK f \in [D -> V] : f[0] = 0 /\ \A n \in D \ {0} : f[n] = step[n][f[n - 1]]
  <2> HIDE DEF D, V, step
  <2>1. Recursive(D, V, 0, step) # {}
    BY <1>2, <1>3, Recursion
  <2> QED
    BY <2>1 DEF Recursive
<1>5. ASSUME NEW n \in D
      PROVE  f[n] = IF n = 0 THEN 0 ELSE f[n - 1] * (Base - 1) + digits[n] - 1
  <2>1. CASE n = 0
    BY <1>4, <2>1
  <2>2. CASE n # 0
    <3>1. n \in D \ {0} /\ f[n - 1] \in Int
      BY <1>3, <2>2
    <3>2. step[n][f[n - 1]] = f[n - 1] * (Base - 1) + digits[n] - 1
      BY <3>1
    <3> HIDE DEF step
    <3> QED
      BY <1>4, <2>2, <3>2
  <2> QED
    BY <2>1, <2>2
<1>6. f = [n \in D |-> IF n = 0 THEN 0 ELSE f[n - 1] * (Base - 1) + digits[n] - 1]
  <2> HIDE DEF D, step
  <2> QED
    BY <1>4, <1>5
<1>7. \E g : /\ g = [n \in D |-> IF n = 0 THEN 0 ELSE g[n - 1] * (Base - 1) + digits[n] - 1]
             /\ DecimalOf(digits) = g[Len(digits)]
  <2>1. \E g : g = [n \in 0..Len(digits) |->
                      IF n = 0 THEN 0 ELSE g[n - 1] * (Base - 1) + digits[n] - 1]
    BY <1>6
  <2> QED
    BY <2>1, Zenon DEF DecimalOf
<1>8. PICK g : /\ g = [n \in D |-> IF n = 0 THEN 0 ELSE g[n - 1] * (Base - 1) + digits[n] - 1]
               /\ DecimalOf(digits) = g[Len(digits)]
  BY <1>7
<1>9. D \subseteq {n \in D : g[n] = f[n]}
  <2> DEFINE S == {n \in D : g[n] = f[n]}
  <2>1. 0 \in S
    BY <1>3, <1>5, <1>8
  <2>2. ASSUME NEW n \in D, n # 0 PROVE n - 1 \in D /\ (n - 1 \in S => n \in S)
    BY <1>3, <1>5, <1>8, <2>2
  <2> HIDE DEF D, S
  <2>3. D \subseteq S
    BY <1>3, <2>1, <2>2, Induction
  <2> QED
    BY <2>3 DEF S
<1>10. Len(digits) \in D
  OBVIOUS
<1> HIDE DEF D, step
<1>11. g[Len(digits)] = f[Len(digits)] /\ f[Len(digits)] \in V
  BY <1>4, <1>9, <1>10
<1> QED
  BY <1>8, <1>11

-----------------------------------------------------------------------------
(***************************************************************************)
(* Conversions between integer types.                                      *)
(***************************************************************************)
LEMMA RemainderTyped ==
  ASSUME NEW v \in Int, NEW n \in Nat
  PROVE  v % Power[n] \in 0..(Power[n] - 1) /\ v % Power[n] \in Nat /\ Power[n] \in Nat \ {0}
<1>1. PICK p \in Nat \ {0} : p = Power[n]
  BY PowerDef
<1>2. PICK r \in 0..(p - 1) : v % p = r
  BY Divided
<1> QED
  BY <1>1, <1>2

\* Extending a sign subtracts the power, or nothing.
LEMMA ExtendedTyped ==
  ASSUME NEW m \in Int, NEW n \in Nat
  PROVE  SignExtended(m, n) \in {m, m - Power[n]} /\ SignExtended(m, n) \in Int
  BY PowerDef DEF SignExtended

\* A conversion gives an integer.
LEMMA CastTyped ==
  ASSUME NEW T \in Targets, NEW v \in Int
  PROVE  Cast(T, v) \in Int
<1>1. PICK n \in Nat : n = T.size
  BY ValuesAssumption
<1>2. v % Power[n] \in Int
  BY RemainderTyped
<1>3. SignExtended(v % Power[n], n) \in Int
  BY <1>2, ExtendedTyped
<1> QED
  BY <1>1, <1>2, <1>3 DEF Cast

\* A type that is no wider keeps of a remainder what it keeps of the number.
LEMMA CastOfRemainder ==
  ASSUME NEW T \in Targets, NEW v \in Int, NEW n \in Nat, T.size =< n
  PROVE  Cast(T, v % Power[n]) = Cast(T, v) /\ Cast(T, (v % Power[n]) - Power[n]) = Cast(T, v)
<1>1. PICK s \in Nat : s = T.size
  BY ValuesAssumption
<1>2. PICK p \in Nat \ {0}, m \in Nat \ {0}, k \in Nat \ {0} :
        p = Power[T.size] /\ m = Power[n] /\ m = p * k
  <2>1. PICK k \in Nat \ {0} : Power[n] = Power[s] * k
    BY <1>1, PowerDivides
  <2>2. Power[n] \in Nat \ {0} /\ Power[s] \in Nat \ {0}
    BY PowerDef
  <2> QED
    BY <1>1, <2>1, <2>2
<1>3. (v % m) % p = v % p /\ ((v % m) - m) % p = v % p
  BY <1>2, RemainderOfRemainder
<1> QED
  BY <1>2, <1>3 DEF Cast

\* Nor does it matter to such a type that the sign was extended.
LEMMA CastOfExtended ==
  ASSUME NEW T \in Targets, NEW v \in Int, NEW n \in Nat, T.size =< n
  PROVE  Cast(T, SignExtended(v % Power[n], n)) = Cast(T, v)
<1>1. v % Power[n] \in Int
  BY RemainderTyped
<1>2. SignExtended(v % Power[n], n) \in {v % Power[n], (v % Power[n]) - Power[n]}
  BY <1>1, ExtendedTyped
<1> QED
  BY <1>2, CastOfRemainder

\* A remainder smaller than the number it is taken by is the number.
LEMMA RemainderOfSmall ==
  ASSUME NEW p \in Nat \ {0}, NEW v \in 0..(p - 1)
  PROVE  v % p = v /\ (v - p) % p = v
<1>1. 0 * p + v = v /\ (-1) * p + v = v - p
  OBVIOUS
<1>2. (0 * p + v) % p = v /\ ((-1) * p + v) % p = v
  BY DivisionOf
<1> QED
  BY <1>1, <1>2

\* A signed number is read back from its bytes.
LEMMA ExtendsBack ==
  ASSUME NEW v \in Int, NEW n \in Nat, -Power[n] =< 2 * v, 2 * v < Power[n]
  PROVE  SignExtended(v % Power[n], n) = v
<1>1. PICK p \in Nat \ {0} : p = Power[n]
  BY PowerDef
<1>2. CASE v >= 0
  <2>1. v \in 0..(p - 1)
    BY <1>1, <1>2
  <2>2. v % p = v
    BY <2>1, RemainderOfSmall
  <2> QED
    BY <1>1, <2>2 DEF SignExtended
<1>3. CASE v < 0
  <2>1. v + p \in 0..(p - 1) /\ (v + p) - p = v /\ 2 * (v + p) >= p
    BY <1>1, <1>3
  <2>2. v % p = v + p
    BY <2>1, RemainderOfSmall
  <2> QED
    BY <1>1, <2>1, <2>2 DEF SignExtended
<1> QED
  BY <1>2, <1>3

\* The smallest number of a set.
LEMMA MinIs ==
  ASSUME NEW S, S \subseteq Int, NEW x \in S, \A y \in S : x =< y
  PROVE  Min(S) = x
<1>1. \A z \in S : (\A y \in S : z =< y) => z = x
  OBVIOUS
<1>2. \E z \in S : \A y \in S : z =< y
  OBVIOUS
<1>3. Min(S) \in S /\ \A y \in S : Min(S) =< y
  BY <1>2, Zenon DEF Min
<1> QED
  BY <1>1, <1>3

-----------------------------------------------------------------------------
(***************************************************************************)
(* What a fetch leaves in the buffer.                                      *)
(***************************************************************************)
BindOK ==
  /\ bind = [length |-> bind.length, is_null |-> bind.is_null, is_null_value |-> bind.is_null_value]
  /\ bind.length \in Nat \cup {Garbage}
  /\ bind.is_null \in {None, "own"}
  /\ bind.is_null_value \in BOOLEAN
BufferOK == buffer \in Seq(Bits) /\ Len(buffer) = Capacity

TypeInv ==
  /\ platform \in Platforms /\ record \in Records
  /\ BindOK /\ BufferOK

\* What the client library stores are bytes.
LEMMA StoredTyped ==
  ASSUME record \in Records, NEW c \in DOMAIN record
  PROVE  /\ ColumnOK(record[c])
         /\ Stored(c) \in Seq(Byte) /\ Stored(c) \in Seq(Bits) /\ Len(Stored(c)) \in Nat
<1>1. ColumnOK(record[c])
  BY ValuesAssumption
<1>2. Stored(c) \in Seq(Byte)
  <2>1. CASE record[c].type = "STRING"
    BY <1>1, <2>1 DEF Stored, HasCharacters, ColumnOK, Byte
  <2>2. CASE record[c].type = "DECIMAL"
    <3>1. record[c].value \in Seq(1..(Base - 1)) /\ 1..(Base - 1) \subseteq Byte
      BY <1>1, <2>2, BaseOK DEF ColumnOK, Byte
    <3>2. record[c].value \in Seq(Byte)
      BY <3>1, SequenceOfMore
    <3> QED
      BY <2>2, <3>2 DEF Stored, HasCharacters
  <2>3. CASE record[c].type \in Integral \cup {"DATE"}
    <3>1. record[c].value \in Int
      BY <1>1, <2>3 DEF ColumnOK
    <3>2. PICK n \in Nat : n = Width[record[c].type]
      BY <2>3, ValuesAssumption
    <3>3. Digits(record[c].value, n) \in Seq(Byte)
      BY <3>1, DigitsTyped
    <3>4. ~HasCharacters(c)
      BY <2>3 DEF HasCharacters, Integral, Switched, OtherIntegers
    <3> QED
      BY <3>2, <3>3, <3>4 DEF Stored
  <2> QED
    BY <1>1, <2>1, <2>2, <2>3 DEF ColumnOK
<1>3. Byte \subseteq Bits
  BY DEF Bits
<1>4. Stored(c) \in Seq(Bits)
  BY <1>2, <1>3, SequenceOfMore
<1> QED
  BY <1>1, <1>2, <1>4

\* Bytes has the length asked for; behind the buffer is what memory holds.
LEMMA BytesTyped ==
  ASSUME NEW b \in Seq(Bits), NEW n \in Nat
  PROVE  /\ Bytes(b, n) \in Seq(Bits) /\ Len(Bytes(b, n)) = n
         /\ \A i \in 1..n : Bytes(b, n)[i] = IF i <= Len(b) THEN b[i] ELSE Garbage
<1>1. Garbage \in Bits
  BY DEF Bits
<1> QED
  BY <1>1 DEF Bytes

\* The buffer has its size; a value that is not NULL lies in it as far as it
\* fits, and characters have a null behind them.
LEMMA Fetched ==
  ASSUME TypeInv, NEW c \in DOMAIN record
  PROVE  /\ fetch_column(c) \in Seq(Bits) /\ Len(fetch_column(c)) = Capacity
         /\ ~record[c].null => \A i \in 1..Capacity :
              /\ i <= Len(Stored(c)) => fetch_column(c)[i] = Stored(c)[i]
              /\ HasCharacters(c) /\ i = Len(Stored(c)) + 1 => fetch_column(c)[i] = 0
<1>1. Stored(c) \in Seq(Bits) /\ Len(Stored(c)) \in Nat
  BY StoredTyped DEF TypeInv
<1>2. CASE record[c].null
  BY <1>2 DEF TypeInv, BufferOK, fetch_column
<1>3. CASE ~record[c].null
  <2> DEFINE at(i) == CASE i <= Len(Stored(c)) -> Stored(c)[i]
                        [] Terminates(c, i)    -> 0
                        [] OTHER               -> buffer[i]
  <2>1. fetch_column(c) = [i \in 1..Capacity |-> at(i)]
    BY <1>3 DEF fetch_column
  <2>2. ASSUME NEW i \in 1..Capacity
        PROVE  /\ at(i) \in Bits
               /\ i <= Len(Stored(c)) => at(i) = Stored(c)[i]
               /\ HasCharacters(c) /\ i = Len(Stored(c)) + 1 => at(i) = 0
    <3>1. CASE i <= Len(Stored(c))
      <4>1. ~Terminates(c, i) /\ Stored(c)[i] \in Bits
        BY <1>1, <3>1, BaseOK DEF Terminates
      <4> QED
        BY <1>1, <3>1, <4>1, BaseOK
    <3>2. CASE Terminates(c, i)
      <4>1. ~(i <= Len(Stored(c))) /\ 0 \in Bits
        BY <1>1, <3>2, BaseOK DEF Terminates, Bits, Byte
      <4> QED
        BY <3>2, <4>1
    <3>3. CASE ~(i <= Len(Stored(c))) /\ ~Terminates(c, i)
      <4>1. buffer[i] \in Bits
        BY BaseOK DEF TypeInv, BufferOK
      <4> QED
        BY <3>3, <4>1 DEF Terminates
    <3> QED
      BY <3>1, <3>2, <3>3
  <2> HIDE DEF at
  <2> QED
    BY <1>3, <2>1, <2>2, BaseOK
<1> QED
  BY <1>2, <1>3 DEF TypeInv

\* What a fetch leaves in the bind record: of a value its length and that it is no
\* NULL, of a NULL the flag, if the library has been given a place for it.
LEMMA BindTyped ==
  ASSUME TypeInv, NEW c \in DOMAIN record
  PROVE  /\ LengthAfter(c) \in Nat \cup {Garbage}
         /\ BindAfter(c).is_null \in {None, "own"}
         /\ BindAfter(c).is_null_value \in BOOLEAN
         /\ BindAfter(c) = [length |-> LengthAfter(c), is_null |-> BindAfter(c).is_null,
                            is_null_value |-> BindAfter(c).is_null_value]
         /\ ~record[c].null =>
              /\ LengthAfter(c) = Len(Stored(c)) /\ LengthAfter(c) \in Nat
              /\ BindAfter(c).is_null_value = FALSE
         /\ record[c].null => /\ BindAfter(c).is_null = bind.is_null
                              /\ BindAfter(c).is_null_value = (bind.is_null # None)
<1>1. Len(Stored(c)) \in Nat /\ record[c].null \in BOOLEAN
  BY StoredTyped DEF TypeInv, ColumnOK
<1>2. CASE record[c].null
  BY <1>2 DEF TypeInv, BindOK, LengthAfter, BindAfter
<1>3. CASE ~record[c].null
  BY <1>1, <1>3 DEF LengthAfter, BindAfter
<1> QED
  BY <1>2, <1>3

-----------------------------------------------------------------------------
(***************************************************************************)
(* Numbers and times.                                                      *)
(***************************************************************************)
LEMMA GarbageIsNoByte == Garbage \notin Int /\ Garbage \notin Byte
<1>1. Garbage \notin Int /\ Byte \subseteq Int
  BY ValuesAssumption, BaseOK DEF Byte
<1> QED
  BY <1>1

\* A column of integers or times has a width, which the buffer holds.
LEMMA IntegerColumn ==
  ASSUME record \in Records, NEW c \in DOMAIN record, ~HasCharacters(c)
  PROVE  /\ record[c].type \in Integral \cup {"DATE"} /\ record[c].value \in Int
         /\ Width[record[c].type] \in 1..Capacity
         /\ -Power[Width[record[c].type]] <= 2 * record[c].value
         /\ record[c].type = "DATE" \/ ~record[c].unsigned =>
              2 * record[c].value < Power[Width[record[c].type]]
<1>1. ColumnOK(record[c])
  BY StoredTyped
<1>2. record[c].type \in Integral \cup {"DATE"}
  BY <1>1 DEF ColumnOK, HasCharacters
<1>3. Width[record[c].type] \in 1..Capacity
  BY <1>2, ValuesAssumption
<1> QED
  BY <1>1, <1>2, <1>3 DEF ColumnOK

\* The first bytes that are fetched of it are its first digits.
LEMMA IntegerFetched ==
  ASSUME TypeInv, NEW c \in DOMAIN record, ~HasCharacters(c), ~record[c].null,
         NEW n \in 1..Width[record[c].type]
  PROVE  LET bytes == Bytes(fetch_column(c), n) IN
         /\ Known(bytes) /\ Len(bytes) = n
         /\ Number(bytes) = record[c].value % Power[n]
<1>1. PICK w \in 1..Capacity, v \in Int : w = Width[record[c].type] /\ v = record[c].value
  BY IntegerColumn DEF TypeInv
<1>2. n \in 1..w /\ w \in Nat /\ n \in Nat /\ Capacity \in Nat
  BY <1>1, BaseOK
<1>3. Stored(c) = Digits(v, w) /\ Len(Digits(v, w)) = w
  BY <1>1, <1>2, DigitsTyped DEF Stored
<1>4. ASSUME NEW i \in 1..n PROVE Bytes(fetch_column(c), n)[i] = Digits(v, n)[i]
  <2>1. i \in 1..w /\ i \in 1..Capacity
    BY <1>2
  <2>2. fetch_column(c) \in Seq(Bits) /\ Len(fetch_column(c)) = Capacity
    BY Fetched
  <2>3. Bytes(fetch_column(c), n)[i] = fetch_column(c)[i]
    BY <1>2, <2>1, <2>2 DEF Bytes
  <2>4. fetch_column(c)[i] = Digits(v, w)[i]
    BY <1>2, <1>3, <2>1, Fetched
  <2>5. Digits(v, w)[i] = Digits(v, n)[i]
    BY <1>2, <2>1, FirstDigits
  <2> QED
    BY <2>3, <2>4, <2>5
<1>5. Bytes(fetch_column(c), n) = Digits(v, n)
  <2>1. Bytes(fetch_column(c), n) = [i \in 1..n |-> Bytes(fetch_column(c), n)[i]]
    BY DEF Bytes
  <2>2. Digits(v, n) = [i \in 1..n |-> Digits(v, n)[i]]
    BY DEF Digits
  <2> QED
    BY <1>4, <2>1, <2>2
<1>6. Digits(v, n) \in Seq(Byte) /\ Len(Digits(v, n)) = n
  BY <1>2, DigitsTyped
<1>7. Known(Digits(v, n))
  BY <1>6, GarbageIsNoByte DEF Known, Range
<1>8. Number(Digits(v, n)) = v % Power[n]
  BY <1>2, NumberOfDigits
<1> QED
  BY <1>1, <1>5, <1>6, <1>7, <1>8

\* A binary row reads an integer, or a time, as the target takes it: read at the
\* column's width and cut, or with the sign the column has.
LEMMA BinaryIntegerArrives ==
  ASSUME TypeInv, NEW c \in DOMAIN record, ~HasCharacters(c), ~record[c].null,
         NEW T \in Targets,
         T.size > Width[record[c].type] =>
           /\ ~record[c].unsigned /\ record[c].type \notin OtherIntegers
           /\ record[c].type # "TINY" \/ platform.signed_char
  PROVE  BinaryInteger(c, T) = Cast(T, record[c].value)
<1> DEFINE type == record[c].type
           v == record[c].value
<1>1. /\ type \in Integral \cup {"DATE"} /\ v \in Int /\ Width[type] \in 1..Capacity
      /\ -Power[Width[type]] <= 2 * v
      /\ type = "DATE" \/ ~record[c].unsigned => 2 * v < Power[Width[type]]
  BY IntegerColumn DEF TypeInv
<1>2. PICK n : n = BytesRead(type, T)
  OBVIOUS
<1>3. /\ n \in 1..Width[type] /\ n \in Nat
      /\ T.size =< n \/ (n = Width[type] /\ T.size > n)
  <2>1. PICK s \in Nat \ {0}, w \in Nat \ {0} : s = T.size /\ w = Width[type]
    <3>1. T.size \in Nat \ {0} /\ Width[type] \in Nat \ {0}
      BY <1>1, BaseOK, ValuesAssumption
    <3> QED
      BY <3>1
  <2>2. CASE n = w
    BY <2>1, <2>2
  <2>3. CASE n # w
    <3>1. type \notin Switched \cup {"DATE"}
      BY <1>2, <2>1, <2>3 DEF BytesRead
    <3>2. type \in OtherIntegers /\ n = s
      BY <1>1, <1>2, <2>1, <3>1 DEF BytesRead, Integral
    <3>3. s =< w
      BY <2>1, <3>2
    <3> QED
      BY <2>1, <3>2, <3>3
  <2> QED
    BY <2>2, <2>3
<1>4. PICK bytes : bytes = Bytes(fetch_column(c), n)
  OBVIOUS
<1>5. Known(bytes) /\ Len(bytes) = n /\ Number(bytes) = v % Power[n]
  BY <1>3, <1>4, IntegerFetched
<1>6. BinaryInteger(c, T) = Cast(T, Interpreted(type, bytes))
  BY <1>2, <1>4, <1>5 DEF BinaryInteger
<1>7. CASE T.size =< n
  <2>1. Interpreted(type, bytes) \in {v % Power[n], SignExtended(v % Power[n], n)}
    BY <1>5 DEF Interpreted
  <2>2. Cast(T, v % Power[n]) = Cast(T, v) /\ Cast(T, SignExtended(v % Power[n], n)) = Cast(T, v)
    BY <1>1, <1>3, <1>7, CastOfRemainder, CastOfExtended
  <2> QED
    BY <1>6, <2>1, <2>2
<1>8. CASE n = Width[type] /\ T.size > n
  <2>1. Interpreted(type, bytes) = SignExtended(v % Power[n], n)
    BY <1>5, <1>8 DEF Interpreted
  <2>2. SignExtended(v % Power[n], n) = v
    BY <1>1, <1>3, <1>8, ExtendsBack
  <2> QED
    BY <1>6, <2>1, <2>2
<1> QED
  BY <1>3, <1>7, <1>8

\* It reads a time point as the time.
LEMMA BinaryTimeArrives ==
  ASSUME TypeInv, NEW c \in DOMAIN record, ~record[c].null
  PROVE  BinaryTime(c) = IF record[c].type = "DATE" THEN record[c].value ELSE Thrown
<1> SUFFICES ASSUME record[c].type = "DATE" PROVE BinaryTime(c) = record[c].value
  BY DEF BinaryTime
<1>1. ~HasCharacters(c)
  BY DEF HasCharacters
<1>2. PICK n, v : n = Width["DATE"] /\ v = record[c].value
  OBVIOUS
<1>3. n \in 1..Width[record[c].type] /\ n \in Nat /\ v \in Int
      /\ -Power[n] <= 2 * v /\ 2 * v < Power[n]
  BY <1>1, <1>2, IntegerColumn, BaseOK DEF TypeInv
<1>4. PICK bytes : bytes = Bytes(fetch_column(c), n)
  OBVIOUS
<1>5. Known(bytes) /\ Len(bytes) = n /\ Number(bytes) = v % Power[n]
  BY <1>1, <1>2, <1>3, <1>4, IntegerFetched
<1>6. SignExtended(v % Power[n], n) = v
  BY <1>3, ExtendsBack
<1> QED
  BY <1>2, <1>4, <1>5, <1>6 DEF BinaryTime

\* Characters that fit into the buffer are fetched as they were sent.
LEMMA CharactersFetched ==
  ASSUME TypeInv, NEW c \in DOMAIN record, HasCharacters(c), ~record[c].null,
         Len(Stored(c)) =< Capacity
  PROVE  Bytes(fetch_column(c), LengthAfter(c)) = record[c].value
<1>1. PICK value \in Seq(Byte) : value = record[c].value /\ Stored(c) = value
  BY StoredTyped DEF TypeInv, Stored
<1>2. PICK n \in Nat : n = Len(value) /\ LengthAfter(c) = n /\ n =< Capacity
  BY <1>1, BindTyped
<1>3. fetch_column(c) \in Seq(Bits) /\ Len(fetch_column(c)) = Capacity
  BY Fetched
<1>4. Capacity \in Nat
  BY BaseOK
<1>5. ASSUME NEW i \in 1..n
      PROVE  (IF i <= Len(fetch_column(c)) THEN fetch_column(c)[i] ELSE Garbage) = value[i]
  <2>1. i \in 1..Capacity /\ i <= Len(value)
    BY <1>2, <1>4
  <2>2. fetch_column(c)[i] = value[i]
    BY <1>1, <2>1, Fetched
  <2> QED
    BY <1>3, <2>1, <2>2
<1>6. Bytes(fetch_column(c), n) = [i \in 1..n |-> value[i]]
  BY <1>5 DEF Bytes
<1>7. value = [i \in 1..n |-> value[i]]
  BY <1>2
<1> QED
  BY <1>1, <1>2, <1>6, <1>7

\* Every column but a string has a quantity.
LEMMA QuantityTyped ==
  ASSUME record \in Records, NEW c \in DOMAIN record, ~IsString(c)
  PROVE  Quantity(c) \in Int
<1>1. CASE record[c].type = "DECIMAL"
  <2>1. record[c].value \in Seq(1..(Base - 1)) /\ 1..(Base - 1) \subseteq Int
    BY <1>1, StoredTyped, BaseOK DEF ColumnOK
  <2>2. record[c].value \in Seq(Int)
    BY <2>1, SequenceOfMore
  <2> QED
    BY <1>1, <2>2, DecimalTyped DEF Quantity
<1>2. CASE record[c].type # "DECIMAL"
  BY <1>2, IntegerColumn DEF Quantity, IsString, HasCharacters
<1> QED
  BY <1>1, <1>2

\* A binary row reads a decimal that the buffer and the target hold.
LEMMA BinaryDecimalArrives ==
  ASSUME TypeInv, NEW c \in DOMAIN record, record[c].type = "DECIMAL", ~record[c].null,
         Len(Stored(c)) =< Capacity, NEW T, Holds(T, Quantity(c))
  PROVE  BinaryDecimal(c, T) = Cast(T, Quantity(c))
<1>1. PICK value : /\ value = record[c].value /\ Stored(c) = value
                   /\ value \in Seq(1..(Base - 1)) /\ value # <<>>
  BY StoredTyped DEF TypeInv, ColumnOK, Stored, HasCharacters
<1>2. Bytes(fetch_column(c), LengthAfter(c)) = value
  BY <1>1, CharactersFetched DEF HasCharacters
<1>3. LengthAfter(c) # Garbage
  <2>1. LengthAfter(c) \in Nat
    BY BindTyped
  <2> QED
    BY <2>1, GarbageIsNoByte
<1>4. {i \in 1..Len(value) : value[i] \notin 1..(Base - 1)} = {}
  <2>1. \A i \in 1..Len(value) : value[i] \in 1..(Base - 1)
    BY <1>1, ElementOf
  <2> QED
    BY <2>1
<1>5. from_chars(value) = DecimalOf(value)
  BY <1>1, <1>4 DEF from_chars
<1>6. Quantity(c) = DecimalOf(value) /\ Quantity(c) \in Int
  BY <1>1, QuantityTyped DEF Quantity, TypeInv, IsString
<1>7. Quantity(c) \notin {Garbage, Thrown}
  BY <1>6, ValuesAssumption
<1> QED
  BY <1>2, <1>3, <1>5, <1>6, <1>7 DEF BinaryDecimal, Holds

\* strtoul keeps what the target takes of the number.
LEMMA TextNumberArrives ==
  ASSUME TypeInv, NEW T \in Targets, NEW v \in Int,
         v \in IF T.size > platform.long_size THEN 0..(Power[platform.long_size] - 1)
               ELSE (1 - Power[platform.long_size])..(Power[platform.long_size] - 1)
  PROVE  Cast(T, strtoul(v)) = Cast(T, v)
<1>1. PICK n \in Nat, s \in Nat : n = platform.long_size /\ s = T.size
  BY ValuesAssumption DEF TypeInv
<1>2. PICK p \in Nat \ {0} : p = Power[n]
  BY PowerDef
<1>3. v \in (1 - p)..(p - 1) /\ (s > n => v \in 0..(p - 1))
  BY <1>1, <1>2
<1>4. strtoul(v) = v % p
  BY <1>1, <1>2, <1>3 DEF strtoul
<1>5. CASE s > n
  <2>1. v % p = v
    BY <1>3, <1>5, RemainderOfSmall
  <2> QED
    BY <1>4, <2>1
<1>6. CASE s =< n
  BY <1>1, <1>2, <1>4, <1>6, CastOfRemainder
<1> QED
  BY <1>5, <1>6

-----------------------------------------------------------------------------
(***************************************************************************)
(* Strings and copies.                                                     *)
(***************************************************************************)
LEMMA StringColumn ==
  ASSUME record \in Records, NEW c \in DOMAIN record, IsString(c)
  PROVE  /\ HasCharacters(c) /\ Stored(c) = record[c].value
         /\ record[c].value \in Seq(Bits) /\ Len(record[c].value) \in Nat
<1>1. HasCharacters(c) /\ Stored(c) = record[c].value
  BY DEF IsString, HasCharacters, Stored
<1> QED
  BY <1>1, StoredTyped

\* A binary row reads a string with its length, and right as far as the buffer goes.
LEMMA BinaryStringArrives ==
  ASSUME TypeInv, NEW c \in DOMAIN record, IsString(c), ~record[c].null
  PROVE  /\ Len(BinaryString(c)) = Len(record[c].value)
         /\ \A i \in 1..Len(record[c].value) :
              i =< Capacity => BinaryString(c)[i] = record[c].value[i]
<1>1. PICK value \in Seq(Bits) : value = record[c].value /\ Stored(c) = value
  BY StringColumn DEF TypeInv
<1>2. PICK n \in Nat : n = Len(value) /\ LengthAfter(c) = n
  BY <1>1, BindTyped
<1>3. fetch_column(c) \in Seq(Bits) /\ Len(fetch_column(c)) = Capacity
  BY Fetched
<1>4. BinaryString(c) = Bytes(fetch_column(c), n)
  BY <1>2, GarbageIsNoByte DEF BinaryString
<1>5. Len(BinaryString(c)) = n
  BY <1>3, <1>4, BytesTyped
<1>6. ASSUME NEW i \in 1..n, i =< Capacity PROVE BinaryString(c)[i] = value[i]
  <2>1. i \in 1..Capacity /\ i <= Len(value)
    BY <1>2, <1>6, BaseOK
  <2>2. fetch_column(c)[i] = value[i]
    BY <1>1, <2>1, Fetched
  <2> QED
    BY <1>3, <1>4, <1>6, <2>2 DEF Bytes
<1> QED
  BY <1>1, <1>2, <1>5, <1>6

\* Characters end at the first null, whatever is behind it.
LEMMA SameUpToNull ==
  ASSUME NEW a \in Seq(Bits), NEW b \in Seq(Bits),
         NEW n \in Nat \ {0}, n =< Len(a), n =< Len(b),
         \A i \in 1..n : a[i] = b[i], a[n] = 0
  PROVE  UpToNull(a) = UpToNull(b)
<1> DEFINE Ends(s) == {i \in 1..Len(s) : s[i] = 0}
<1>1. PICK m \in Ends(a) : \A i \in Ends(a) : m =< i
  <2>1. n \in Ends(a) /\ Ends(a) \subseteq Nat
    OBVIOUS
  <2> HIDE DEF Ends
  <2> QED
    BY <2>1, LeastElement
<1>2. m \in Nat /\ m >= 1 /\ m =< n
  <2>1. n \in Ends(a)
    OBVIOUS
  <2> QED
    BY <1>1, <2>1
<1>3. m \in Ends(b)
  BY <1>2
<1>4. ASSUME NEW i \in Ends(b) PROVE m =< i
  <2> SUFFICES ASSUME i < m PROVE FALSE
    BY <1>2
  <2>1. i \in Ends(a)
    BY <1>2
  <2> QED
    BY <1>1, <1>2, <2>1
<1>5. Min(Ends(a)) = m /\ Min(Ends(b)) = m
  <2>1. Ends(a) \subseteq Int /\ Ends(b) \subseteq Int
    OBVIOUS
  <2> HIDE DEF Ends
  <2> QED
    BY <1>1, <1>3, <1>4, <2>1, MinIs
<1>6. UpToNull(a) = SubSeq(a, 1, m - 1) /\ UpToNull(b) = SubSeq(b, 1, m - 1)
  <2>1. Ends(a) # {} /\ Ends(b) # {}
    BY <1>3
  <2> QED
    BY <1>5, <2>1 DEF UpToNull
<1>7. SubSeq(a, 1, m - 1) = SubSeq(b, 1, m - 1)
  <2>1. SubSeq(a, 1, m - 1) = [i \in 1..(m - 1) |-> a[i]]
    BY <1>2
  <2>2. SubSeq(b, 1, m - 1) = [i \in 1..(m - 1) |-> b[i]]
    BY <1>2
  <2>3. \A i \in 1..(m - 1) : a[i] = b[i]
    BY <1>2
  <2> QED
    BY <2>1, <2>2, <2>3
<1> QED
  BY <1>6, <1>7

\* Characters shorter than the buffer end at their own null, or at the one behind.
LEMMA BinaryCharsArrive ==
  ASSUME TypeInv, NEW c \in DOMAIN record, IsString(c), ~record[c].null,
         Len(record[c].value) < Capacity
  PROVE  BinaryChars(c) = UpToNull(Append(record[c].value, 0))
<1>1. PICK value \in Seq(Bits) : /\ value = record[c].value /\ Stored(c) = value
                                 /\ HasCharacters(c)
  BY StringColumn DEF TypeInv
<1>2. PICK n \in Nat : n = Len(value) /\ n + 1 =< Capacity
  BY <1>1, BaseOK
<1>3. fetch_column(c) \in Seq(Bits) /\ Len(fetch_column(c)) = Capacity
  BY Fetched
<1>4. PICK end : end = Append(value, 0)
  OBVIOUS
<1>5. /\ end \in Seq(Bits) /\ Len(end) = n + 1 /\ end[n + 1] = 0
      /\ \A i \in 1..n : end[i] = value[i]
  <2>1. 0 \in Bits
    BY BaseOK DEF Bits, Byte
  <2> QED
    BY <1>2, <1>4, <2>1
<1>6. ASSUME NEW i \in 1..(n + 1) PROVE end[i] = fetch_column(c)[i]
  <2>1. i \in 1..Capacity
    BY <1>2, BaseOK
  <2>2. CASE i = n + 1
    <3>1. fetch_column(c)[i] = 0
      BY <1>1, <1>2, <2>1, <2>2, Fetched
    <3> QED
      BY <1>5, <2>2, <3>1
  <2>3. CASE i \in 1..n
    <3>1. fetch_column(c)[i] = value[i]
      BY <1>1, <1>2, <2>1, <2>3, Fetched
    <3> QED
      BY <1>5, <2>3, <3>1
  <2> QED
    BY <2>2, <2>3
<1>7. UpToNull(end) = UpToNull(fetch_column(c))
  <2>1. n + 1 \in Nat \ {0} /\ n + 1 =< Len(end) /\ n + 1 =< Len(fetch_column(c))
    BY <1>2, <1>3, <1>5
  <2> QED
    BY <1>3, <1>5, <1>6, <2>1, SameUpToNull
<1> QED
  BY <1>1, <1>4, <1>7 DEF BinaryChars

\* As many bytes as the length says, wherever they lie.
LEMMA BinaryBytesTyped ==
  ASSUME TypeInv, NEW c \in DOMAIN record, LengthAfter(c) # Garbage
  PROVE  /\ BinaryBytes(c) \in Seq(Bits) /\ Len(BinaryBytes(c)) = LengthAfter(c)
         /\ LengthAfter(c) \in Nat
<1>1. LengthAfter(c) \in Nat
  BY BindTyped
<1> QED
  BY <1>1, Fetched, BytesTyped DEF BinaryBytes

\* What a copy from a text row takes is the value.
LEMMA TextBytesTyped ==
  ASSUME record \in Records, NEW c \in DOMAIN record, IsString(c)
  PROVE  TextBytes(c) \in Seq(Bits) /\ (~record[c].null => TextBytes(c) = record[c].value)
  BY StringColumn DEF TextBytes

\* A copy is the beginning of the bytes, and fits.
LEMMA ArrayCopy ==
  ASSUME NEW bytes \in Seq(Bits), NEW room \in Nat
  PROVE  LET copy == CopyToArray(bytes, room) IN
         /\ copy.room = room /\ copy.returned \in {Len(bytes), room}
         /\ copy.returned \in Nat /\ copy.returned =< room
         /\ Len(copy.bytes) = copy.returned
         /\ IsPrefix(copy.bytes, bytes)
<1>1. PICK n \in Nat : n = Len(bytes)
  OBVIOUS
<1>2. PICK k \in {n, room} : k =< n /\ k =< room
  OBVIOUS
<1>3. k \in Nat /\ CopySize(n, room) = k
  BY <1>2, MinIs DEF CopySize
<1>4. Bytes(bytes, k) \in Seq(Bits) /\ Len(Bytes(bytes, k)) = k
  BY <1>3, BytesTyped
<1>5. IsPrefix(Bytes(bytes, k), bytes)
  <2>1. \A i \in 1..k : Bytes(bytes, k)[i] = bytes[i]
    BY <1>1, <1>2, <1>3 DEF Bytes
  <2>2. SubSeq(Bytes(bytes, k), 1, k) = [i \in 1..k |-> Bytes(bytes, k)[i]]
    BY <1>3, <1>4
  <2>3. SubSeq(bytes, 1, k) = [i \in 1..k |-> bytes[i]]
    BY <1>1, <1>2, <1>3
  <2> QED
    BY <1>1, <1>2, <1>4, <2>1, <2>2, <2>3 DEF IsPrefix
<1> QED
  BY <1>1, <1>2, <1>3, <1>4, <1>5 DEF CopyToArray, Copied

\* A vector takes all the bytes; it has room for them if they fill its elements.
LEMMA VectorCopy ==
  ASSUME NEW bytes \in Seq(Bits), NEW element \in Nat \ {0}
  PROVE  LET copy == CopyToVector(bytes, element) IN
         /\ copy.bytes = bytes /\ copy.returned = Len(bytes)
         /\ Len(bytes) % element = 0 => copy.room = Len(bytes)
<1>1. PICK n \in Nat : n = Len(bytes)
  OBVIOUS
<1>2. n % element = 0 => (n \div element) * element = n
  BY Divided
<1> QED
  BY <1>1, <1>2 DEF CopyToVector, Copied, VectorRoom

-----------------------------------------------------------------------------
(***************************************************************************)
(* No value that is read is None.                                          *)
(***************************************************************************)
LEMMA NoneIsNoValue ==
  None \notin Int /\ None \notin Seq(Bits) /\ None # Garbage /\ None # Thrown /\ None # "own"
  BY ValuesAssumption DEF Bits, Byte

\* Bytes that are known are numbers.
LEMMA KnownBytes ==
  ASSUME NEW bytes \in Seq(Bits), Known(bytes)
  PROVE  bytes \in Seq(Int)
<1>1. ASSUME NEW i \in 1..Len(bytes) PROVE bytes[i] \in Int
  <2>1. bytes[i] # Garbage
    BY DEF Known, Range
  <2>2. bytes[i] \in Bits
    BY ElementOf
  <2>3. bytes[i] \in Byte /\ Byte \subseteq Int
    BY <2>1, <2>2, BaseOK DEF Bits, Byte
  <2> QED
    BY <2>3
<1> QED
  BY <1>1

\* from_chars gives a number, an exception, or what memory held.
LEMMA FromCharsTyped ==
  ASSUME NEW bytes \in Seq(Bits)
  PROVE  from_chars(bytes) \in Int \cup {Garbage, Thrown}
<1> DEFINE others == {i \in 1..Len(bytes) : bytes[i] \notin 1..(Base - 1)}
<1>1. CASE others = {}
  <2>1. ASSUME NEW i \in 1..Len(bytes) PROVE bytes[i] \in Int
    <3>1. bytes[i] \in 1..(Base - 1)
      BY <1>1
    <3> QED
      BY <3>1
  <2>2. bytes \in Seq(Int)
    BY <2>1
  <2>3. DecimalOf(bytes) \in Int
    BY <2>2, DecimalTyped
  <2> QED
    BY <1>1, <2>3 DEF from_chars
<1>2. CASE others # {}
  <2>1. PICK m \in others : \A i \in others : m =< i
    <3>1. others \subseteq Nat
      OBVIOUS
    <3> HIDE DEF others
    <3> QED
      BY <1>2, <3>1, LeastElement
  <2>2. Min(others) = m
    <3>1. others \subseteq Int
      OBVIOUS
    <3> HIDE DEF others
    <3> QED
      BY <2>1, <3>1, MinIs
  <2>3. PICK digits : digits = SubSeq(bytes, 1, m - 1)
    OBVIOUS
  <2>4. m \in 1..Len(bytes) /\ digits = [i \in 1..(m - 1) |-> bytes[i]]
    BY <2>3
  <2>5. ASSUME NEW i \in 1..(m - 1) PROVE bytes[i] \in Int
    <3>1. i \in 1..Len(bytes) /\ i < m
      BY <2>4
    <3>2. bytes[i] \in 1..(Base - 1)
      BY <2>1, <2>4, <3>1
    <3> QED
      BY <3>2
  <2>6. digits \in Seq(Int)
    BY <2>4, <2>5
  <2>7. DecimalOf(digits) \in Int
    BY <2>6, DecimalTyped
  <2>8. from_chars(bytes) = IF bytes[m] = Garbage THEN Garbage
                            ELSE IF digits = <<>> THEN Thrown ELSE DecimalOf(digits)
    BY <1>2, <2>2, <2>3, Zenon DEF from_chars
  <2> QED
    BY <2>7, <2>8
<1> QED
  BY <1>1, <1>2

\* Characters are bytes.
LEMMA UpToNullTyped ==
  ASSUME NEW bytes \in Seq(Bits)
  PROVE  UpToNull(bytes) \in Seq(Bits)
<1> DEFINE ends == {i \in 1..Len(bytes) : bytes[i] = 0}
<1>1. CASE ends = {}
  <2>1. Append(bytes, Garbage) \in Seq(Bits)
    BY DEF Bits
  <2> QED
    BY <1>1, <2>1 DEF UpToNull
<1>2. CASE ends # {}
  <2>1. PICK m \in ends : \A i \in ends : m =< i
    <3>1. ends \subseteq Nat
      OBVIOUS
    <3> HIDE DEF ends
    <3> QED
      BY <1>2, <3>1, LeastElement
  <2>2. Min(ends) = m
    <3>1. ends \subseteq Int
      OBVIOUS
    <3> HIDE DEF ends
    <3> QED
      BY <2>1, <3>1, MinIs
  <2>3. SubSeq(bytes, 1, m - 1) \in Seq(Bits)
    OBVIOUS
  <2> QED
    BY <1>2, <2>2, <2>3 DEF UpToNull
<1> QED
  BY <1>1, <1>2

\* A binary row never reads None ...
LEMMA BinaryIsNotNone ==
  ASSUME TypeInv, NEW c \in DOMAIN record
  PROVE  /\ ~IsString(c) => \A T \in Targets : BinaryNumber(c, T) # None
         /\ BinaryTime(c) # None
         /\ IsString(c) => BinaryString(c) # None /\ BinaryChars(c) # None
<1>1. /\ fetch_column(c) \in Seq(Bits)
      /\ \A n \in Nat : Bytes(fetch_column(c), n) \in Seq(Bits) /\ Len(Bytes(fetch_column(c), n)) = n
  BY Fetched, BytesTyped
<1>2. LengthAfter(c) \in Nat \cup {Garbage}
  BY BindTyped
<1>3. ASSUME NEW n \in Nat, Known(Bytes(fetch_column(c), n))
      PROVE  LET bytes == Bytes(fetch_column(c), n) IN
             Number(bytes) \in Int /\ SignExtended(Number(bytes), Len(bytes)) \in Int
  <2>1. Number(Bytes(fetch_column(c), n)) \in Int
    BY <1>1, <1>3, KnownBytes, NumberTyped
  <2> QED
    BY <1>1, <2>1, ExtendedTyped
<1>4. ASSUME ~IsString(c), NEW T \in Targets PROVE BinaryNumber(c, T) # None
  <2>1. CASE record[c].type = "DECIMAL"
    <3>1. LengthAfter(c) # Garbage =>
            from_chars(Bytes(fetch_column(c), LengthAfter(c))) \in Int \cup {Garbage, Thrown}
      BY <1>1, <1>2, FromCharsTyped
    <3>2. BinaryDecimal(c, T) \in Int \cup {Garbage, Thrown}
      BY <3>1 DEF BinaryDecimal
    <3> QED
      BY <2>1, <3>2, NoneIsNoValue DEF BinaryNumber
  <2>2. CASE record[c].type # "DECIMAL"
    <3>1. ~HasCharacters(c)
      BY <1>4, <2>2 DEF HasCharacters, IsString
    <3>2. PICK n \in Nat : n = BytesRead(record[c].type, T)
      <4>1. Width[record[c].type] \in Nat /\ T.size \in Nat
        BY <3>1, IntegerColumn, ValuesAssumption DEF TypeInv
      <4> QED
        BY <4>1 DEF BytesRead
    <3>3. CASE Known(Bytes(fetch_column(c), n))
      <4>1. Interpreted(record[c].type, Bytes(fetch_column(c), n)) \in Int
        BY <1>3, <3>3 DEF Interpreted
      <4>2. BinaryInteger(c, T) \in Int
        BY <3>2, <3>3, <4>1, CastTyped DEF BinaryInteger
      <4> QED
        BY <2>2, <4>2, NoneIsNoValue DEF BinaryNumber
    <3>4. CASE ~Known(Bytes(fetch_column(c), n))
      BY <2>2, <3>2, <3>4, NoneIsNoValue DEF BinaryNumber, BinaryInteger
    <3> QED
      BY <3>3, <3>4
  <2> QED
    BY <2>1, <2>2
<1>5. BinaryTime(c) # None
  <2>1. Width["DATE"] \in Nat
    BY ValuesAssumption, BaseOK
  <2> QED
    BY <1>3, <2>1, NoneIsNoValue DEF BinaryTime
<1>6. BinaryString(c) # None
  BY <1>1, <1>2, NoneIsNoValue DEF BinaryString
<1>7. BinaryChars(c) # None
  BY <1>1, UpToNullTyped, NoneIsNoValue DEF BinaryChars
<1> QED
  BY <1>4, <1>5, <1>6, <1>7

\* ... nor does a text row, of a value.
LEMMA TextIsNotNone ==
  ASSUME TypeInv, NEW c \in DOMAIN record
  PROVE  /\ ~IsString(c) => \A T \in Targets : Cast(T, strtoul(Quantity(c))) # None
         /\ IsString(c) => Stored(c) # None /\ UpToNull(Append(Stored(c), 0)) # None
<1>1. ASSUME ~IsString(c), NEW T \in Targets PROVE Cast(T, strtoul(Quantity(c))) # None
  <2>1. PICK v \in Int : v = Quantity(c)
    BY <1>1, QuantityTyped DEF TypeInv
  <2>2. PICK n \in Nat : n = platform.long_size
    BY ValuesAssumption DEF TypeInv
  <2>3. strtoul(v) \in Int
    <3>1. v % Power[n] \in Nat /\ Power[n] \in Nat
      BY RemainderTyped
    <3>2. Power[n] - 1 \in Int
      BY <3>1
    <3> QED
      BY <2>2, <3>1, <3>2 DEF strtoul
  <2> QED
    BY <2>1, <2>3, CastTyped, NoneIsNoValue
<1>2. Stored(c) \in Seq(Bits)
  BY StoredTyped DEF TypeInv
<1>3. UpToNull(Append(Stored(c), 0)) \in Seq(Bits)
  <2>1. 0 \in Bits
    BY BaseOK DEF Bits, Byte
  <2>2. Append(Stored(c), 0) \in Seq(Bits)
    BY <1>2, <2>1
  <2> QED
    BY <2>2, UpToNullTyped
<1> QED
  BY <1>1, <1>2, <1>3, NoneIsNoValue

-----------------------------------------------------------------------------
(***************************************************************************)
(* The theorems.                                                           *)
(***************************************************************************)
LEMMA InitTyped == Init => TypeInv
<1> SUFFICES ASSUME Init PROVE TypeInv
  OBVIOUS
<1>1. buffer \in Seq(Bits) /\ Len(buffer) = Capacity
  BY BaseOK DEF Init, Bits
<1> QED
  BY <1>1 DEF Init, TypeInv, BindOK, BufferOK

\* A step fetches a column, or changes nothing that is read.
LEMMA StepKinds ==
  ASSUME TypeInv, [Next]_vars
  PROVE  (\E c \in DOMAIN record : Fetches(c)) \/ Stays
<1>1. CASE UNCHANGED vars
  BY <1>1 DEF vars, Stays
<1>2. CASE Next
  BY <1>2 DEF Next, GetNumber, GetTime, GetString, GetChars, ByteLength, CopyTo, CopyVector,
              TextNumber, TextString, TextChars, TextByteLength, TextCopyTo, TextCopyVector
<1> QED
  BY <1>1, <1>2

\* Every step keeps the types.
LEMMA StepTyped ==
  ASSUME TypeInv, [Next]_vars
  PROVE  TypeInv'
<1>1. ASSUME NEW c \in DOMAIN record, Fetches(c) PROVE TypeInv'
  <2>1. buffer' = fetch_column(c) /\ bind' = BindAfter(c) /\ UNCHANGED <<platform, record>>
    BY <1>1 DEF Fetches
  <2>2. BindOK'
    BY <2>1, BindTyped DEF BindOK, LengthAfter
  <2>3. BufferOK'
    BY <2>1, Fetched DEF BufferOK
  <2> QED
    BY <2>1, <2>2, <2>3 DEF TypeInv
<1>2. CASE Stays
  BY <1>2 DEF Stays, TypeInv, BindOK, BufferOK
<1> QED
  BY <1>1, <1>2, StepKinds

\* The bind record, the buffer and what was read keep their types: every length
\* the record holds is a value's, or what memory held.
THEOREM KeepsTypes == Spec => []TypeInv
<1> QED
  BY InitTyped, StepTyped, PTL DEF Spec

\* What each step reads as a number or a time.
LEMMA NumbersStep ==
  ASSUME TypeInv, NumbersArrive, [Next]_vars
  PROVE  NumbersArrive'
<1>1. CASE UNCHANGED vars
  <2>1. record' = record /\ platform' = platform /\ got' = got
    BY <1>1 DEF vars
  <2>2. Column' = Column /\ Binary' = Binary
    BY <2>1 DEF Column, Binary
  <2>3. /\ Widened' = Widened /\ Quantity(got.col)' = Quantity(got.col)
        /\ Stored(got.col)' = Stored(got.col)
    BY <2>1, <2>2 DEF Widened, Quantity, Stored, HasCharacters, Column
  <2>4. /\ BeyondLong' = BeyondLong /\ DecimalTooLarge' = DecimalTooLarge
        /\ \A how : Reads(how)' = Reads(how)
    BY <2>1, <2>2, <2>3 DEF BeyondLong, DecimalTooLarge, TooLong, Reads
  <2> QED
    BY <2>1, <2>2, <2>3, <2>4 DEF NumbersArrive
<1>2. ASSUME NEW c \in DOMAIN record, NEW T \in Targets, NEW opt \in BOOLEAN, GetNumber(c, T, opt)
      PROVE  NumbersArrive'
  <2>1. /\ record' = record /\ platform' = platform
        /\ got' = [row |-> "binary", how |-> "number", col |-> c, to |-> T, opt |-> opt,
                   value |-> Opt(c, opt, BinaryNumber(c, T))]
    BY <1>2 DEF GetNumber, Fetches, Got
  <2>2. Quantity(got.col)' = Quantity(c) /\ Stored(got.col)' = Stored(c)
    BY <2>1 DEF Quantity, Stored, HasCharacters
  <2>3. ASSUME ~record[c].null, ~Widened', ~DecimalTooLarge'
        PROVE  got'.value = Cast(T, Quantity(c))
    <3>1. got'.value = BinaryNumber(c, T)
      BY <2>1, <2>3, BindTyped DEF Opt
    <3>2. CASE record[c].type = "DECIMAL"
      <4>1. Len(Stored(c)) =< Capacity /\ Holds(T, Quantity(c))
        <5>1. ~(Len(Stored(c)) > Capacity) /\ Holds(T, Quantity(c))
          BY <2>1, <2>2, <2>3, <3>2 DEF DecimalTooLarge, TooLong, Binary, Column
        <5>2. Len(Stored(c)) \in Nat
          BY StoredTyped DEF TypeInv
        <5> QED
          BY <5>1, <5>2, BaseOK
      <4> QED
        BY <2>3, <3>1, <3>2, <4>1, BinaryDecimalArrives DEF BinaryNumber
    <3>3. CASE record[c].type # "DECIMAL"
      <4>1. ~HasCharacters(c)
        BY <1>2, <3>3 DEF GetNumber, IsString, HasCharacters
      <4>2. T.size > Width[record[c].type] =>
              /\ ~record[c].unsigned /\ record[c].type \notin OtherIntegers
              /\ record[c].type # "TINY" \/ platform.signed_char
        BY <2>1, <2>3, <3>3 DEF Widened, Binary, Column
      <4>3. Quantity(c) = record[c].value
        BY <3>3 DEF Quantity
      <4> QED
        BY <2>3, <3>1, <3>3, <4>1, <4>2, <4>3, BinaryIntegerArrives DEF BinaryNumber
    <3> QED
      BY <3>2, <3>3
  <2> QED
    BY <2>1, <2>2, <2>3 DEF NumbersArrive, Reads, Column
<1>3. ASSUME NEW c \in DOMAIN record, NEW T \in Targets, NEW opt \in BOOLEAN, TextNumber(c, T, opt)
      PROVE  NumbersArrive'
  <2>1. /\ record' = record /\ platform' = platform
        /\ got' = [row |-> "text", how |-> "number", col |-> c, to |-> T, opt |-> opt,
                   value |-> TextOpt(c, opt, Cast(T, strtoul(Quantity(c))), 0)]
    BY <1>3 DEF TextNumber, Stays, Got
  <2>2. Quantity(got.col)' = Quantity(c)
    BY <2>1 DEF Quantity
  <2>3. ASSUME ~record[c].null, ~BeyondLong'
        PROVE  got'.value = Cast(T, Quantity(c))
    <3>1. got'.value = Cast(T, strtoul(Quantity(c)))
      BY <2>1, <2>3 DEF TextOpt
    <3>2. Quantity(c) \in Int
      BY <1>3, QuantityTyped DEF TextNumber, TypeInv, IsString, Integral, Switched, OtherIntegers
    <3>3. Quantity(c) \in IF T.size > platform.long_size THEN 0..(Power[platform.long_size] - 1)
                          ELSE (1 - Power[platform.long_size])..(Power[platform.long_size] - 1)
      BY <2>1, <2>2, <2>3 DEF BeyondLong
    <3> QED
      BY <3>1, <3>2, <3>3, TextNumberArrives
  <2> QED
    BY <2>1, <2>2, <2>3 DEF NumbersArrive, Reads, Column
<1>4. ASSUME NEW c \in DOMAIN record, NEW opt \in BOOLEAN, GetTime(c, opt)
      PROVE  NumbersArrive'
  <2>1. /\ record' = record
        /\ got' = [row |-> "binary", how |-> "time", col |-> c, to |-> None, opt |-> opt,
                   value |-> Opt(c, opt, BinaryTime(c))]
    BY <1>4 DEF GetTime, Fetches, Got
  <2>2. ASSUME ~record[c].null
        PROVE  got'.value = IF record[c].type = "DATE" THEN record[c].value ELSE Thrown
    <3>1. got'.value = BinaryTime(c)
      BY <2>1, <2>2, BindTyped DEF Opt
    <3> QED
      BY <2>2, <3>1, BinaryTimeArrives
  <2> QED
    BY <2>1, <2>2 DEF NumbersArrive, Reads, Column
<1>5. ASSUME got'.how \notin {"number", "time"}
      PROVE  NumbersArrive'
  BY <1>5 DEF NumbersArrive, Reads
<1> QED
  BY <1>1, <1>2, <1>3, <1>4, <1>5
     DEF Next, GetString, GetChars, ByteLength, CopyTo, CopyVector, TextString, TextChars,
         TextByteLength, TextCopyTo, TextCopyVector, Got

\* A number is the column's value converted to the type asked for, from either
\* kind of row and whatever was read before, and a time point is its time
\* (parse_column of binary_row_base.h, get of text_row_base.h).
THEOREM ReadsNumbers == Spec => []NumbersArrive
<1>1. Init => NumbersArrive
  BY DEF Init, NothingRead, NumbersArrive, Reads
<1> QED
  BY <1>1, InitTyped, StepTyped, NumbersStep, PTL DEF Spec

\* What each step reads as a string, as characters or as a length.
LEMMA StringsStep ==
  ASSUME TypeInv, StringsArrive, [Next]_vars
  PROVE  StringsArrive'
<1>1. CASE UNCHANGED vars
  <2>1. record' = record /\ got' = got
    BY <1>1 DEF vars
  <2>2. Column' = Column /\ Binary' = Binary /\ Stored(got.col)' = Stored(got.col)
    BY <2>1 DEF Column, Binary, Stored, HasCharacters
  <2>3. TooLong' = TooLong /\ \A how : Reads(how)' = Reads(how)
    BY <2>1, <2>2 DEF TooLong, Reads
  <2> QED
    BY <2>1, <2>2, <2>3 DEF StringsArrive
<1>2. ASSUME NEW c \in DOMAIN record, NEW opt \in BOOLEAN, GetString(c, opt)
      PROVE  StringsArrive'
  <2>1. /\ record' = record /\ IsString(c)
        /\ got' = [row |-> "binary", how |-> "string", col |-> c, to |-> None, opt |-> opt,
                   value |-> Opt(c, opt, BinaryString(c))]
    BY <1>2 DEF GetString, Fetches, Got
  <2>2. Stored(got.col)' = record[c].value /\ Len(record[c].value) \in Nat
    BY <2>1, StringColumn DEF Stored, HasCharacters, IsString, TypeInv
  <2>3. ASSUME ~record[c].null
        PROVE  /\ Len(got'.value) = Len(record[c].value)
               /\ \A i \in 1..Len(record[c].value) :
                    got'.value[i] = record[c].value[i] \/ (TooLong' /\ i > Capacity)
    <3>1. got'.value = BinaryString(c)
      BY <2>1, <2>3, BindTyped DEF Opt
    <3>2. ASSUME NEW i \in 1..Len(record[c].value), i > Capacity PROVE TooLong'
      <4>1. Len(record[c].value) > Capacity
        BY <2>2, <3>2, BaseOK
      <4> QED
        BY <2>1, <2>2, <4>1 DEF TooLong, Binary
    <3>3. \A i \in 1..Len(record[c].value) : i =< Capacity \/ i > Capacity
      BY <2>2, BaseOK
    <3> QED
      BY <2>1, <2>3, <3>1, <3>2, <3>3, BinaryStringArrives
  <2> QED
    BY <2>1, <2>3 DEF StringsArrive, Reads, Column
<1>3. ASSUME NEW c \in DOMAIN record, NEW opt \in BOOLEAN, GetChars(c, opt)
      PROVE  StringsArrive'
  <2>1. /\ record' = record /\ IsString(c)
        /\ got' = [row |-> "binary", how |-> "chars", col |-> c, to |-> None, opt |-> opt,
                   value |-> Opt(c, opt, BinaryChars(c))]
    BY <1>3 DEF GetChars, Fetches, Got
  <2>2. ASSUME ~record[c].null, Len(record[c].value) < Capacity
        PROVE  got'.value = UpToNull(Append(record[c].value, 0))
    <3>1. got'.value = BinaryChars(c)
      BY <2>1, <2>2, BindTyped DEF Opt
    <3> QED
      BY <2>1, <2>2, <3>1, BinaryCharsArrive
  <2> QED
    BY <2>1, <2>2 DEF StringsArrive, Reads, Column, Binary
<1>4. ASSUME NEW c \in DOMAIN record, ByteLength(c)
      PROVE  StringsArrive'
  <2>1. /\ record' = record
        /\ got' = [row |-> "binary", how |-> "length", col |-> c, to |-> None, opt |-> FALSE,
                   value |-> LengthAfter(c)]
    BY <1>4 DEF ByteLength, Fetches, Got
  <2>2. Stored(got.col)' = Stored(c)
    BY <2>1 DEF Stored, HasCharacters
  <2>3. ~record[c].null => LengthAfter(c) = Len(Stored(c))
    BY BindTyped
  <2> QED
    BY <2>1, <2>2, <2>3 DEF StringsArrive, Reads, Column
<1>5. ASSUME NEW c \in DOMAIN record, NEW opt \in BOOLEAN, TextString(c, opt)
      PROVE  StringsArrive'
  <2>1. /\ record' = record /\ IsString(c)
        /\ got' = [row |-> "text", how |-> "string", col |-> c, to |-> None, opt |-> opt,
                   value |-> TextOpt(c, opt, Stored(c), <<>>)]
    BY <1>5 DEF TextString, Stays, Got
  <2>2. Stored(c) = record[c].value
    BY <2>1, StringColumn DEF TypeInv
  <2> QED
    BY <2>1, <2>2 DEF StringsArrive, Reads, Column, TextOpt
<1>6. ASSUME NEW c \in DOMAIN record, NEW opt \in BOOLEAN, TextChars(c, opt)
      PROVE  StringsArrive'
  <2>1. /\ record' = record /\ IsString(c)
        /\ got' = [row |-> "text", how |-> "chars", col |-> c, to |-> None, opt |-> opt,
                   value |-> TextOpt(c, opt, UpToNull(Append(Stored(c), 0)), None)]
    BY <1>6 DEF TextChars, Stays, Got
  <2>2. Stored(c) = record[c].value
    BY <2>1, StringColumn DEF TypeInv
  <2> QED
    BY <2>1, <2>2 DEF StringsArrive, Reads, Column, TextOpt
<1>7. ASSUME NEW c \in DOMAIN record, TextByteLength(c)
      PROVE  StringsArrive'
  <2>1. /\ record' = record
        /\ got' = [row |-> "text", how |-> "length", col |-> c, to |-> None, opt |-> FALSE,
                   value |-> TextLength(c)]
    BY <1>7 DEF TextByteLength, Stays, Got
  <2>2. Stored(got.col)' = Stored(c)
    BY <2>1 DEF Stored, HasCharacters
  <2> QED
    BY <2>1, <2>2 DEF StringsArrive, Reads, Column, TextLength
<1>8. ASSUME got'.how \notin {"string", "chars", "length"}
      PROVE  StringsArrive'
  BY <1>8 DEF StringsArrive, Reads
<1> QED
  BY <1>1, <1>2, <1>3, <1>4, <1>5, <1>6, <1>7, <1>8
     DEF Next, GetNumber, GetTime, CopyTo, CopyVector, TextNumber, TextCopyTo, TextCopyVector, Got

\* A string is read with all its bytes, and of one longer than the buffer those
\* that are in it are right; characters end where the value's do, not where
\* those of an earlier one did (get of binary_row_base.h and text_row_base.h).
THEOREM ReadsStrings == Spec => []StringsArrive
<1>1. Init => StringsArrive
  BY DEF Init, NothingRead, StringsArrive, Reads
<1> QED
  BY <1>1, InitTyped, StepTyped, StringsStep, PTL DEF Spec

\* What each step copies.
LEMMA CopiesStep ==
  ASSUME TypeInv, CopiesFit, [Next]_vars
  PROVE  CopiesFit'
<1>1. CASE UNCHANGED vars
  <2>1. record' = record /\ got' = got
    BY <1>1 DEF vars
  <2>2. Column' = Column /\ Binary' = Binary /\ Stored(got.col)' = Stored(got.col)
    BY <2>1 DEF Column, Binary, Stored, HasCharacters
  <2>3. TooLong' = TooLong
    BY <2>1, <2>2 DEF TooLong
  <2> QED
    BY <2>1, <2>2, <2>3 DEF CopiesFit
<1> DEFINE Kept(c) == ~record[c].null /\ (got'.row = "binary" => Len(record[c].value) =< Capacity)
\* What a copy takes from a string is the value, if it lies in the buffer.
<1>2. ASSUME NEW c \in DOMAIN record, IsString(c), record' = record, got'.col = c,
             NEW bytes \in Seq(Bits), NEW room \in Nat,
             got'.how = "copy", got'.value = CopyToArray(bytes, room),
             ~record[c].null => Len(bytes) = Len(record[c].value),
             Kept(c) => bytes = record[c].value
      PROVE  CopiesFit'
  <2>1. Stored(got.col)' = record[c].value /\ Len(record[c].value) \in Nat
    BY <1>2, StringColumn DEF Stored, HasCharacters, IsString, TypeInv
  <2>2. ~record[c].null /\ ~TooLong' => bytes = record[c].value
    BY <1>2, <2>1, BaseOK DEF TooLong, Binary
  <2> QED
    BY <1>2, <2>2, ArrayCopy DEF CopiesFit, Column
<1>3. ASSUME NEW c \in DOMAIN record, IsString(c), record' = record, got'.col = c,
             NEW bytes \in Seq(Bits), NEW element \in Elements,
             got'.how = "vector", got'.to = element, got'.value = CopyToVector(bytes, element),
             ~record[c].null => Len(bytes) = Len(record[c].value),
             Kept(c) => bytes = record[c].value
      PROVE  CopiesFit'
  <2>1. Stored(got.col)' = record[c].value /\ record[c].value \in Seq(Bits)
        /\ Len(record[c].value) \in Nat
    BY <1>3, StringColumn DEF Stored, HasCharacters, IsString, TypeInv
  <2>2. ~record[c].null /\ ~TooLong' => bytes = record[c].value
    BY <1>3, <2>1, BaseOK DEF TooLong, Binary
  <2>3. IsPrefix(bytes, bytes)
    BY DEF IsPrefix
  <2>4. element \in Nat \ {0}
    BY ValuesAssumption
  <2>5. /\ got'.value.bytes = bytes /\ got'.value.returned = Len(bytes)
        /\ Len(bytes) % element = 0 => got'.value.room = Len(bytes)
    BY <1>3, <2>4, VectorCopy
  <2>6. Len(bytes) <= got'.value.room \/ Len(bytes) % element # 0
    BY <2>5
  <2> QED
    BY <1>3, <2>2, <2>3, <2>5, <2>6 DEF CopiesFit, Column
<1>4. ASSUME NEW c \in DOMAIN record, IsString(c), LengthAfter(c) # Garbage
      PROVE  /\ BinaryBytes(c) \in Seq(Bits)
             /\ ~record[c].null => Len(BinaryBytes(c)) = Len(record[c].value)
             /\ ~record[c].null /\ Len(record[c].value) =< Capacity
                  => BinaryBytes(c) = record[c].value
  <2>1. HasCharacters(c) /\ Stored(c) = record[c].value
    BY <1>4, StringColumn DEF TypeInv
  <2> QED
    BY <1>4, <2>1, BinaryBytesTyped, BindTyped, CharactersFetched DEF BinaryBytes
<1>5. ASSUME NEW c \in DOMAIN record, NEW room \in Rooms, CopyTo(c, room)
      PROVE  CopiesFit'
  <2>1. /\ record' = record /\ IsString(c) /\ got'.row = "binary" /\ got'.how = "copy"
        /\ got'.col = c
        /\ got'.value = IF LengthAfter(c) = Garbage THEN Garbage
                        ELSE CopyToArray(BinaryBytes(c), room)
    BY <1>5 DEF CopyTo, Fetches, Got
  <2>2. room \in Nat
    BY ValuesAssumption
  <2>3. CASE LengthAfter(c) = Garbage
    BY <2>1, <2>3 DEF CopiesFit
  <2>4. CASE LengthAfter(c) # Garbage
    BY <1>2, <1>4, <2>1, <2>2, <2>4
  <2> QED
    BY <2>3, <2>4
<1>6. ASSUME NEW c \in DOMAIN record, NEW element \in Elements, CopyVector(c, element)
      PROVE  CopiesFit'
  <2>1. /\ record' = record /\ IsString(c) /\ got'.row = "binary" /\ got'.how = "vector"
        /\ got'.col = c /\ got'.to = element
        /\ got'.value = IF LengthAfter(c) = Garbage THEN Garbage
                        ELSE CopyToVector(BinaryBytes(c), element)
    BY <1>6 DEF CopyVector, Fetches, Got
  <2>2. CASE LengthAfter(c) = Garbage
    BY <2>1, <2>2 DEF CopiesFit
  <2>3. CASE LengthAfter(c) # Garbage
    BY <1>3, <1>4, <2>1, <2>3
  <2> QED
    BY <2>2, <2>3
<1>7. ASSUME NEW c \in DOMAIN record, NEW room \in Rooms, TextCopyTo(c, room)
      PROVE  CopiesFit'
  <2>1. /\ record' = record /\ IsString(c) /\ got'.how = "copy" /\ got'.col = c
        /\ got'.value = CopyToArray(TextBytes(c), room)
    BY <1>7 DEF TextCopyTo, Stays, Got
  <2>2. room \in Nat
    BY ValuesAssumption
  <2>3. TextBytes(c) \in Seq(Bits) /\ (~record[c].null => TextBytes(c) = record[c].value)
    BY <2>1, TextBytesTyped DEF TypeInv
  <2> QED
    BY <1>2, <2>1, <2>2, <2>3
<1>8. ASSUME NEW c \in DOMAIN record, NEW element \in Elements, TextCopyVector(c, element)
      PROVE  CopiesFit'
  <2>1. /\ record' = record /\ IsString(c) /\ got'.how = "vector" /\ got'.col = c
        /\ got'.to = element /\ got'.value = CopyToVector(TextBytes(c), element)
    BY <1>8 DEF TextCopyVector, Stays, Got
  <2>2. TextBytes(c) \in Seq(Bits) /\ (~record[c].null => TextBytes(c) = record[c].value)
    BY <2>1, TextBytesTyped DEF TypeInv
  <2> QED
    BY <1>3, <2>1, <2>2
<1>9. ASSUME got'.how \notin {"copy", "vector"}
      PROVE  CopiesFit'
  BY <1>9 DEF CopiesFit
<1> QED
  BY <1>1, <1>5, <1>6, <1>7, <1>8, <1>9
     DEF Next, GetNumber, GetTime, GetString, GetChars, ByteLength, TextNumber, TextString,
         TextChars, TextByteLength, Got

\* A copy is the beginning of the value, as much as there is room for, and
\* nothing is written behind the target, but for a vector whose elements the
\* value does not fill (copy_to of both rows).
THEOREM CopiesStayInside == Spec => []CopiesFit
<1>1. Init => CopiesFit
  BY DEF Init, NothingRead, CopiesFit
<1> QED
  BY <1>1, InitTyped, StepTyped, CopiesStep, PTL DEF Spec

\* What each step gives for a NULL.
LEMMA OptionalsStep ==
  ASSUME TypeInv, OptionalsKnowNull, [Next]_vars
  PROVE  OptionalsKnowNull'
<1>1. CASE UNCHANGED vars
  BY <1>1 DEF vars, OptionalsKnowNull, Binary, Column
\* A binary row asks for the flag after the column was fetched.
<1>2. ASSUME NEW c \in DOMAIN record, Fetches(c), got'.row = "binary", got'.col = c,
             NEW value, value # None, NEW opt \in BOOLEAN, got'.opt = opt,
             got'.value = Opt(c, opt, value)
      PROVE  OptionalsKnowNull'
  <2>1. record' = record /\ bind' = BindAfter(c) /\ record[c].null \in BOOLEAN
    BY <1>2, StoredTyped DEF Fetches, TypeInv, ColumnOK
  <2> SUFFICES ASSUME got'.opt, bind'.is_null = "own"
               PROVE  (got'.value = None) = record[c].null
    BY <1>2, <2>1 DEF OptionalsKnowNull, Binary, Column
  <2>2. CASE record[c].null
    <3>1. bind.is_null = "own" /\ BindAfter(c).is_null_value = (bind.is_null # None)
      BY <2>1, <2>2, BindTyped
    <3>2. BindAfter(c).is_null_value
      BY <3>1, NoneIsNoValue
    <3> QED
      BY <1>2, <2>2, <3>2 DEF Opt
  <2>3. CASE ~record[c].null
    <3>1. ~BindAfter(c).is_null_value
      BY <2>3, BindTyped
    <3> QED
      BY <1>2, <2>1, <2>3, <3>1 DEF Opt
  <2> QED
    BY <2>1, <2>2, <2>3
\* A text row has no pointer for a NULL.
<1>3. ASSUME NEW c \in DOMAIN record, Stays, got'.row = "text", got'.col = c,
             NEW value, value # None, NEW default, NEW opt \in BOOLEAN, got'.opt = opt,
             got'.value = TextOpt(c, opt, value, default)
      PROVE  OptionalsKnowNull'
  <2>1. record' = record /\ record[c].null \in BOOLEAN
    BY <1>3, StoredTyped DEF Stays, TypeInv, ColumnOK
  <2> QED
    BY <1>3, <2>1 DEF OptionalsKnowNull, Binary, Column, TextOpt
<1>4. ASSUME NEW c \in DOMAIN record, NEW opt \in BOOLEAN,
             \/ \E T \in Targets : GetNumber(c, T, opt)
             \/ GetTime(c, opt) \/ GetString(c, opt) \/ GetChars(c, opt)
      PROVE  OptionalsKnowNull'
  <2>1. ASSUME NEW T \in Targets, GetNumber(c, T, opt) PROVE OptionalsKnowNull'
    <3>1. BinaryNumber(c, T) # None
      BY <2>1, BinaryIsNotNone DEF GetNumber
    <3> QED
      BY <1>2, <2>1, <3>1 DEF GetNumber, Got
  <2>2. CASE GetTime(c, opt)
    <3>1. BinaryTime(c) # None
      BY BinaryIsNotNone
    <3> QED
      BY <1>2, <2>2, <3>1 DEF GetTime, Got
  <2>3. CASE GetString(c, opt)
    <3>1. BinaryString(c) # None
      BY <2>3, BinaryIsNotNone DEF GetString
    <3> QED
      BY <1>2, <2>3, <3>1 DEF GetString, Got
  <2>4. CASE GetChars(c, opt)
    <3>1. BinaryChars(c) # None
      BY <2>4, BinaryIsNotNone DEF GetChars
    <3> QED
      BY <1>2, <2>4, <3>1 DEF GetChars, Got
  <2> QED
    BY <1>4, <2>1, <2>2, <2>3, <2>4
<1>5. ASSUME NEW c \in DOMAIN record, NEW opt \in BOOLEAN,
             \/ \E T \in Targets : TextNumber(c, T, opt)
             \/ TextString(c, opt) \/ TextChars(c, opt)
      PROVE  OptionalsKnowNull'
  <2>1. ASSUME NEW T \in Targets, TextNumber(c, T, opt) PROVE OptionalsKnowNull'
    <3>1. ~IsString(c)
      BY <2>1 DEF TextNumber, IsString, Integral, Switched, OtherIntegers
    <3>2. Cast(T, strtoul(Quantity(c))) # None
      BY <3>1, TextIsNotNone
    <3> QED
      BY <1>3, <2>1, <3>2 DEF TextNumber, Got
  <2>2. CASE TextString(c, opt)
    <3>1. Stored(c) # None
      BY <2>2, TextIsNotNone DEF TextString
    <3> QED
      BY <1>3, <2>2, <3>1 DEF TextString, Got
  <2>3. CASE TextChars(c, opt)
    <3>1. UpToNull(Append(Stored(c), 0)) # None
      BY <2>3, TextIsNotNone DEF TextChars
    <3> QED
      BY <1>3, <2>3, <3>1 DEF TextChars, Got
  <2> QED
    BY <1>5, <2>1, <2>2, <2>3
<1>6. ASSUME ~got'.opt
      PROVE  OptionalsKnowNull'
  BY <1>6 DEF OptionalsKnowNull
<1> QED
  BY <1>1, <1>4, <1>5, <1>6
     DEF Next, ByteLength, CopyTo, CopyVector, TextByteLength, TextCopyTo, TextCopyVector, Got

\* get_opt has a value exactly when the column has one: a binary row asks for
\* the flag after it has fetched, and once a value was fetched the flag is told
\* of every NULL (get_opt of both rows).
THEOREM KnowsNull == Spec => []OptionalsKnowNull
<1>1. Init => OptionalsKnowNull
  BY DEF Init, NothingRead, OptionalsKnowNull
<1> QED
  BY <1>1, InitTyped, StepTyped, OptionalsStep, PTL DEF Spec
=============================================================================

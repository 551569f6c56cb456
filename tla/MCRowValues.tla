---------------------------- MODULE MCRowValues -----------------------------
(***************************************************************************)
(* An instance of RowValues for TLC: bytes of two bits, a buffer of four.  *)
(***************************************************************************)
EXTENDS RowValues, TLC

CONSTANTS c1, c2

Bytes4 == [TINY |-> 1, SHORT |-> 2, INT24 |-> 3, LONG |-> 3, LONGLONG |-> 4, DATE |-> 4]

\* Linux and macOS, Windows, and Linux on ARM.
PlatformsUsed == {[signed_char |-> TRUE, long_size |-> 4], [signed_char |-> TRUE, long_size |-> 3],
                  [signed_char |-> FALSE, long_size |-> 4]}

\* The edges of the ranges of the integer types.
Half(type) == Power[Bytes4[type]] \div 2
Edges(type, unsigned) ==
  IF unsigned THEN {1, Half(type), 2 * Half(type) - 1} ELSE {-Half(type), -1, Half(type) - 1}

\* Strings of every length up to one more than the buffer has, one with a null
\* character in it.
Strings == {<<>>, <<3>>, <<1, 2>>, <<2, 0, 3>>, <<1, 2, 3>>, <<3, 2, 1, 3>>, <<2, 1, 3, 1, 2>>}

Value(type, unsigned, null, v) == [type |-> type, unsigned |-> unsigned, null |-> null, value |-> v]
IntegerColumns == UNION {{Value(type, unsigned, FALSE, v) : v \in Edges(type, unsigned)} :
                         type \in Integral, unsigned \in BOOLEAN}
StringColumns == {Value("STRING", FALSE, FALSE, v) : v \in Strings}
DecimalColumns == {Value("DECIMAL", FALSE, FALSE, v) :
                   v \in {<<1>>, <<2, 3>>, <<3, 3, 3, 3>>, <<2, 1, 1, 1, 1>>}}
OtherColumns == {Value("DATE", FALSE, FALSE, 37), Value("SHORT", FALSE, TRUE, 0),
                 Value("DECIMAL", FALSE, TRUE, <<>>),
                 Value("STRING", FALSE, TRUE, <<>>), Value("DATE", FALSE, TRUE, 0)}
ColumnsUsed == IntegerColumns \cup StringColumns \cup DecimalColumns \cup OtherColumns

\* What may lie in the buffer when a column of any kind is read: numbers and
\* strings of several lengths, or nothing yet.
Neighbours == {Value("LONGLONG", FALSE, FALSE, -2),
               Value("STRING", FALSE, FALSE, <<3, 2, 1, 3>>),
               Value("STRING", FALSE, FALSE, <<2, 1, 3, 1, 2>>),
               Value("SHORT", FALSE, TRUE, 0)}

RecordsUsed == {c1 :> n @@ c2 :> v : n \in Neighbours, v \in ColumnsUsed}
TargetsUsed == [size : 1..4, signed : BOOLEAN]
=============================================================================

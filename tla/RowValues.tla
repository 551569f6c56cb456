----------------------------- MODULE RowValues ------------------------------
(***************************************************************************)
(* binary_row_base.h and text_row_base.h: how the value of a column is     *)
(* converted to the type asked for, and how many of its bytes are copied.  *)
(*                                                                         *)
(* One record is read as a text row and as a binary row, column by column  *)
(* in any order.  A text row reads the characters of the value.  A binary  *)
(* one has the client library put its bytes into the one buffer of the set *)
(* and reads them there; what an earlier column left behind them stays.    *)
(*                                                                         *)
(* Bytes have Base values and integers keep their width in bytes, so that  *)
(* small instances wrap, extend signs and overrun as the real sizes do.    *)
(***************************************************************************)
EXTENDS Integers, Sequences, FiniteSetsExt, SequencesExt

CONSTANTS
  Base,       \* how many values a byte has
  Width,      \* [types of integers and times -> how many bytes they have]
  Capacity,   \* CT_SQL_MAX_BUFFER_LENGTH
  Platforms,  \* whether char is signed, the size of unsigned long
  Records,    \* what may be read: functions from columns to values
  Targets,    \* the integer types of the program: size and sign
  Elements,   \* sizes of the elements of a vector
  Rooms,      \* sizes of arrays, in bytes
  None, Thrown, Garbage  \* no value, an exception, what memory happened to hold

Switched == {"TINY", "SHORT", "LONG", "LONGLONG"}
OtherIntegers == {"INT24"}
Integral == Switched \cup OtherIntegers

\* Base to the power of n.
Power[n \in Nat] == IF n = 0 THEN 1 ELSE Base * Power[n - 1]

\* What the server sends in a column: a number in the range of its type, or
\* characters; a decimal has a digit.
ColumnOK(v) ==
  /\ v.type \in Integral \cup {"DATE", "DECIMAL", "STRING"}
  /\ v.unsigned \in BOOLEAN /\ v.null \in BOOLEAN
  /\ v.type \in Integral \cup {"DATE"} =>
       LET end == Power[Width[v.type]] IN
       /\ v.value \in Int /\ -end <= 2 * v.value /\ v.value < end
       /\ IF v.type # "DATE" /\ v.unsigned THEN v.value >= 0 ELSE 2 * v.value < end
  /\ v.type = "DECIMAL" =>
       v.value \in Seq(1..(Base - 1)) /\ (~v.null => v.value # <<>>)
  /\ v.type = "STRING" => v.value \in Seq(0..(Base - 1))

ASSUME ValuesAssumption ==
  /\ Base \in Nat \ {0, 1} /\ Capacity \in Nat
  /\ \A t \in Integral \cup {"DATE"} : Width[t] \in 1..Capacity
  /\ \A p \in Platforms : p.long_size \in Nat /\ p.signed_char \in BOOLEAN
  /\ \A R \in Records : \A c \in DOMAIN R : ColumnOK(R[c])
  /\ \A T \in Targets : T.size \in Nat \ {0} /\ T.signed \in BOOLEAN
  /\ Elements \subseteq Nat \ {0} /\ Rooms \subseteq Nat
  /\ None # Thrown /\ None # Garbage /\ Thrown # Garbage /\ None # "own"
  /\ \A x \in {None, Thrown, Garbage} :
       x \notin Int /\ x \notin Seq(0..(Base - 1) \cup {Garbage})

VARIABLES
  platform, record,  \* chosen once
  bind,              \* length, is_null_value, and whether is_null points at it
  buffer,            \* buffer_ of the set
  got                \* what the last step has read

vars == <<platform, record, bind, buffer, got>>

-----------------------------------------------------------------------------
(***************************************************************************)
(* Integers in bytes, the lowest first.                                    *)
(***************************************************************************)
Digits(v, n) == [i \in 1..n |-> (v \div Power[i - 1]) % Base]
Number(bytes) ==
  LET first[n \in 0..Len(bytes)] ==
        IF n = 0 THEN 0 ELSE first[n - 1] + bytes[n] * Power[n - 1]
  IN first[Len(bytes)]
SignExtended(m, n) == IF 2 * m >= Power[n] THEN m - Power[n] ELSE m

\* static_cast to an integer type.
Cast(T, v) == LET m == v % Power[T.size] IN IF T.signed THEN SignExtended(m, T.size) ELSE m

\* strtoul of a number's text: too large a one becomes the largest.
strtoul(v) ==
  LET end == Power[platform.long_size] IN IF v \in (1 - end)..(end - 1) THEN v % end ELSE end - 1

IsString(c) == record[c].type = "STRING"
\* Decimals are sent as their digits.
HasCharacters(c) == record[c].type \in {"STRING", "DECIMAL"}
\* The bytes that the client library stores for a value.
Stored(c) ==
  IF HasCharacters(c) THEN record[c].value ELSE Digits(record[c].value, Width[record[c].type])

-----------------------------------------------------------------------------
(***************************************************************************)
(* Fetching a column.                                                      *)
(***************************************************************************)
\* A slip: a string ends where the buffer's last one ended.
Unterminated(c, i) == FALSE
\* A string is followed by a null character.
Terminates(c, i) == HasCharacters(c) /\ i = Len(Stored(c)) + 1

\* What the buffer holds of a column; of a NULL, what it held before.
fetch_column(c) ==
  IF record[c].null THEN buffer
  ELSE [i \in 1..Capacity |-> CASE i <= Len(Stored(c)) -> Stored(c)[i]
                                [] Terminates(c, i)    -> 0
                                [] OTHER               -> buffer[i]]

\* The length of a value is that of all of it.  The code leaves is_null a null
\* pointer; the client library reports a NULL through it and nowhere else, and
\* lets it point at is_null_value with the first value it fetches.
BindAfter(c) ==
  IF record[c].null THEN [bind EXCEPT !.is_null_value = bind.is_null # None]
  ELSE [length |-> Len(Stored(c)), is_null |-> "own", is_null_value |-> FALSE]

\* The first n bytes of a buffer, and of what is behind it.
Bytes(b, n) == [i \in 1..n |-> IF i <= Len(b) THEN b[i] ELSE Garbage]
Known(bytes) == Garbage \notin Range(bytes)
LengthAfter(c) == BindAfter(c).length

-----------------------------------------------------------------------------
(***************************************************************************)
(* parse_column of a binary row.                                           *)
(***************************************************************************)
\* A slip: the bytes of the type asked for, whatever the type of the column.
BytesOfTarget(type, T) == T.size
\* How many bytes are read: those of the column's type, or of the target's.
BytesRead(type, T) == IF type \in Switched \cup {"DATE"} THEN Width[type] ELSE T.size

\* Integers are read signed, char as the platform has it; times are counts.
\* What the switch does not name is taken for a value of the target's type.
Interpreted(type, bytes) ==
  IF (type = "TINY" /\ ~platform.signed_char) \/ type \in OtherIntegers
  THEN Number(bytes) ELSE SignExtended(Number(bytes), Len(bytes))

BinaryInteger(c, T) ==
  LET type  == record[c].type
      bytes == Bytes(fetch_column(c), BytesRead(type, T))
  IN IF Known(bytes) THEN Cast(T, Interpreted(type, bytes)) ELSE Garbage

\* Whole decimals without a sign: digit d is the byte d + 1.
DecimalOf(digits) ==
  LET first[n \in 0..Len(digits)] ==
        IF n = 0 THEN 0 ELSE first[n - 1] * (Base - 1) + digits[n] - 1
  IN first[Len(digits)]
Quantity(c) == IF record[c].type = "DECIMAL" THEN DecimalOf(record[c].value) ELSE record[c].value
\* from_chars takes the digits at the beginning, and needs one.
from_chars(bytes) ==
  LET others == {i \in 1..Len(bytes) : bytes[i] \notin 1..(Base - 1)}
      digits == IF others = {} THEN bytes ELSE SubSeq(bytes, 1, Min(others) - 1)
  IN IF others # {} /\ bytes[Min(others)] = Garbage THEN Garbage
     ELSE IF digits = <<>> THEN Thrown ELSE DecimalOf(digits)

\* A number that the target cannot hold is not converted, but undefined.
Holds(T, v) == Cast(T, v) = v
BinaryDecimal(c, T) ==
  IF LengthAfter(c) = Garbage THEN Garbage
  ELSE LET v == from_chars(Bytes(fetch_column(c), LengthAfter(c)))
       IN IF v \in {Garbage, Thrown} THEN v ELSE IF Holds(T, v) THEN v ELSE Garbage

BinaryNumber(c, T) ==
  IF record[c].type = "DECIMAL" THEN BinaryDecimal(c, T) ELSE BinaryInteger(c, T)

\* A time point is read of columns that hold times, others throw.
BinaryTime(c) ==
  IF record[c].type # "DATE" THEN Thrown
  ELSE LET bytes == Bytes(fetch_column(c), Width["DATE"])
       IN IF Known(bytes) THEN SignExtended(Number(bytes), Len(bytes)) ELSE Garbage

\* Strings, spans and vectors of bytes: as many as the length says.
BinaryString(c) ==
  IF LengthAfter(c) = Garbage THEN Garbage ELSE Bytes(fetch_column(c), LengthAfter(c))

\* Characters up to the null that ends them, if there is one in the buffer.
UpToNull(bytes) ==
  LET ends == {i \in 1..Len(bytes) : bytes[i] = 0}
  IN IF ends = {} THEN Append(bytes, Garbage) ELSE SubSeq(bytes, 1, Min(ends) - 1)
BinaryChars(c) == UpToNull(fetch_column(c))

-----------------------------------------------------------------------------
(***************************************************************************)
(* Reading: get, get_opt, byte_length and copy_to.                         *)
(***************************************************************************)
Got(row, how, c, to, opt, value) ==
  got' = [row |-> row, how |-> how, col |-> c, to |-> to, opt |-> opt, value |-> value]

\* A binary row fetches; get_opt then asks for the flag.
Fetches(c) == buffer' = fetch_column(c) /\ bind' = BindAfter(c) /\ UNCHANGED <<platform, record>>
\* A slip: the flag is asked for before the column is fetched.
OptOfBefore(c, opt, value) == IF opt /\ bind.is_null_value THEN None ELSE value
Opt(c, opt, value) == IF opt /\ BindAfter(c).is_null_value THEN None ELSE value
\* A text row has a pointer for each value, null for NULL, and changes nothing.
TextOpt(c, opt, value, default) ==
  IF record[c].null THEN IF opt THEN None ELSE default ELSE value
Stays == UNCHANGED <<platform, record, bind, buffer>>

GetNumber(c, T, opt) ==
  ~IsString(c) /\ Fetches(c) /\ Got("binary", "number", c, T, opt, Opt(c, opt, BinaryNumber(c, T)))
GetTime(c, opt) ==
  Fetches(c) /\ Got("binary", "time", c, None, opt, Opt(c, opt, BinaryTime(c)))
GetString(c, opt) ==
  IsString(c) /\ Fetches(c) /\ Got("binary", "string", c, None, opt, Opt(c, opt, BinaryString(c)))
GetChars(c, opt) ==
  IsString(c) /\ Fetches(c) /\ Got("binary", "chars", c, None, opt, Opt(c, opt, BinaryChars(c)))
ByteLength(c) ==
  Fetches(c) /\ Got("binary", "length", c, None, FALSE, LengthAfter(c))

TextNumber(c, T, opt) ==
  /\ record[c].type \in Integral \cup {"DECIMAL"} /\ Stays
  /\ Got("text", "number", c, T, opt, TextOpt(c, opt, Cast(T, strtoul(Quantity(c))), 0))
TextString(c, opt) ==
  IsString(c) /\ Stays /\ Got("text", "string", c, None, opt, TextOpt(c, opt, Stored(c), <<>>))
\* The characters lie in the record, with a null behind each value.
TextChars(c, opt) ==
  /\ IsString(c) /\ Stays
  /\ Got("text", "chars", c, None, opt, TextOpt(c, opt, UpToNull(Append(Stored(c), 0)), None))
TextLength(c) == IF record[c].null THEN 0 ELSE Len(Stored(c))
TextByteLength(c) == IsString(c) /\ Stays /\ Got("text", "length", c, None, FALSE, TextLength(c))

\* A slip: an array is filled, however long the value is.
FillsTheRoom(length, room) == room
\* copy_to a pointer or an array; room is its size in bytes.
CopySize(length, room) == Min({length, room})

\* A vector is resized to the elements that the value fills.
VectorRoom(length, element) == (length \div element) * element

\* What is written, into how much room, and the size that is returned.
Copied(bytes, room, returned) == [bytes |-> bytes, room |-> room, returned |-> returned]
CopyToArray(bytes, room) ==
  LET size == CopySize(Len(bytes), room) IN Copied(Bytes(bytes, size), room, size)
CopyToVector(bytes, element) == Copied(bytes, VectorRoom(Len(bytes), element), Len(bytes))

\* What a copy may take from: as many bytes as the length says, behind the
\* buffer or at the pointer of the record's value.
BinaryBytes(c) == Bytes(fetch_column(c), LengthAfter(c))
TextBytes(c) == IF record[c].null THEN <<>> ELSE Stored(c)

\* Before any value was fetched the length is what memory held: not a copy
\* of anything.
CopyTo(c, room) ==
  /\ IsString(c) /\ Fetches(c)
  /\ Got("binary", "copy", c, room, FALSE,
         IF LengthAfter(c) = Garbage THEN Garbage ELSE CopyToArray(BinaryBytes(c), room))
CopyVector(c, element) ==
  /\ IsString(c) /\ Fetches(c)
  /\ Got("binary", "vector", c, element, FALSE,
         IF LengthAfter(c) = Garbage THEN Garbage ELSE CopyToVector(BinaryBytes(c), element))
TextCopyTo(c, room) ==
  IsString(c) /\ Stays /\ Got("text", "copy", c, room, FALSE, CopyToArray(TextBytes(c), room))
TextCopyVector(c, element) ==
  /\ IsString(c) /\ Stays
  /\ Got("text", "vector", c, element, FALSE, CopyToVector(TextBytes(c), element))

-----------------------------------------------------------------------------
NothingRead ==
  [row |-> None, how |-> "none", col |-> None, to |-> None, opt |-> FALSE, value |-> None]

\* The constructor of a set clears the bind record, not the buffer.
Init ==
  /\ platform \in Platforms /\ record \in Records
  /\ bind = [length |-> Garbage, is_null |-> None, is_null_value |-> FALSE]
  /\ buffer = [i \in 1..Capacity |-> Garbage]
  /\ got = NothingRead

Next ==
  \E c \in DOMAIN record :
    \/ \E opt \in BOOLEAN :
         \/ \E T \in Targets : GetNumber(c, T, opt) \/ TextNumber(c, T, opt)
         \/ GetTime(c, opt) \/ GetString(c, opt) \/ GetChars(c, opt)
         \/ TextString(c, opt) \/ TextChars(c, opt)
    \/ ByteLength(c) \/ TextByteLength(c)
    \/ \E room \in Rooms : CopyTo(c, room) \/ TextCopyTo(c, room)
    \/ \E element \in Elements : CopyVector(c, element) \/ TextCopyVector(c, element)

Spec == Init /\ [][Next]_vars

-----------------------------------------------------------------------------
(***************************************************************************)
(* Properties.  What is read of a NULL with get_opt is a property of its   *)
(* own; read otherwise, it is what an earlier column has left.             *)
(***************************************************************************)
Column == record[got.col]
Reads(how) == got.how \in how /\ ~Column.null
Binary == got.row = "binary"
TooLong == Binary /\ Len(Stored(got.col)) > Capacity

\* A target wider than the column gets the wrong sign, or bytes that are not
\* the column's: a binary row reads unsigned columns signed, char may not be
\* signed at all, and a type the switch does not name is not read at its width.
Widened ==
  /\ Binary /\ Column.type # "DECIMAL" /\ got.to.size > Width[Column.type]
  /\ \/ Column.unsigned \/ Column.type \in OtherIntegers
     \/ Column.type = "TINY" /\ ~platform.signed_char
\* strtoul has no room for the number, or none for its sign.
BeyondLong ==
  LET end == Power[platform.long_size] IN
  got.row = "text" /\ Quantity(got.col) \notin
    (IF got.to.size > platform.long_size THEN 0..(end - 1) ELSE (1 - end)..(end - 1))

\* The digits do not fit into the buffer, or the number not into the target.
DecimalTooLarge ==
  Binary /\ Column.type = "DECIMAL" /\ (TooLong \/ ~Holds(got.to, Quantity(got.col)))

\* A number is read as the column's value converted to the type asked for,
\* from either kind of row and whatever was read before, unless a wider type
\* is asked for than the column has (test.cpp:351), or unsigned long is too
\* short; a time point is the column's time, or an exception.
NumbersArrive ==
  /\ Reads({"number"}) /\ ~Widened /\ ~BeyondLong /\ ~DecimalTooLarge
       => got.value = Cast(got.to, Quantity(got.col))
  /\ Reads({"time"}) => got.value = IF Column.type = "DATE" THEN Column.value ELSE Thrown

\* A string is read with all its bytes and no others, or up to its own null
\* character, whatever the buffer held, if it is shorter than the buffer; the
\* bytes that are in the buffer are right in any case.
StringsArrive ==
  /\ Reads({"string"}) =>
       /\ Len(got.value) = Len(Column.value)
       /\ \A i \in 1..Len(Column.value) :
            got.value[i] = Column.value[i] \/ (TooLong /\ i > Capacity)
  /\ Reads({"chars"}) /\ (Binary => Len(Column.value) < Capacity)
       => got.value = UpToNull(Append(Column.value, 0))
  /\ Reads({"length"}) => got.value = Len(Stored(got.col))

\* A copy is the beginning of the value, as much as there is room for, with
\* its size returned, and nothing is written behind the target; a vector whose
\* elements the value does not fill is the exception.
CopiesFit ==
  (got.how \in {"copy", "vector"} /\ got.value # Garbage)
    => /\ \/ Len(got.value.bytes) <= got.value.room
          \/ got.how = "vector" /\ got.value.returned % got.to # 0
       /\ Len(got.value.bytes) = got.value.returned
       /\ ~Column.null /\ ~TooLong => IsPrefix(got.value.bytes, Column.value)
       /\ ~Column.null => \/ got.value.returned = Len(Column.value)
                          \/ got.how = "copy" /\ got.value.returned = got.value.room

\* get_opt has a value exactly when the column has one; a binary row's knows
\* once a value, of any column, was fetched with the set.
OptionalsKnowNull ==
  got.opt /\ got.value # Thrown /\ (Binary => bind.is_null = "own")
    => (got.value = None) = Column.null
=============================================================================

---------------------------- MODULE ParamBinding ----------------------------
(***************************************************************************)
(* bind_params_recursive (connection.h): the arguments of a prepared query *)
(* become bind records that point at their values; strings are copied      *)
(* into a vector first.  The records are read when the statement is run.   *)
(*                                                                         *)
(* What matters of an address is whether it is still good: a long string   *)
(* keeps its characters outside the vector, a short one inside (external:  *)
(* the std::string and std::vector of the build).                          *)
(***************************************************************************)
EXTENDS Integers, Sequences

CONSTANT MaxArgs

ASSUME BindingAssumption == MaxArgs \in Nat

\* A string_view may end before its buffer does ("open"); the others end with it.
Args == [kind : {"number", "chars"}, long : {FALSE}, open : {FALSE}]
          \cup [kind : {"string"}, long : BOOLEAN, open : {FALSE}]
          \cup [kind : {"string_view"}, long : BOOLEAN, open : BOOLEAN]

VARIABLES
  args,       \* the arguments of the call
  binds,      \* the bind records made so far: binds[i] is that of args[i]
  holder,     \* str_data_holder: which argument each element is a copy of
  capacity,   \* of that vector
  storage     \* the block of memory it uses, counted from 0

vars == <<args, binds, holder, capacity, storage>>

index == Len(binds) + 1
Copied(arg) == arg.kind \in {"string", "string_view"}

\* Where the characters of an element of the vector are.
CharsOf(element, long, block) ==
  [in |-> IF long THEN "heap" ELSE "vector", block |-> IF long THEN 0 ELSE block,
   element |-> element]
\* The caller's own memory, which outlives the call.
ArgumentItself(i) == [in |-> "argument", block |-> 0, element |-> i]

\* push_back moves the elements to a larger block when it has no room; how
\* much larger depends on the library.
Grows == Len(holder) = capacity
push_back(i) ==
  /\ holder' = Append(holder, i)
  /\ storage' = storage + IF Grows THEN 1 ELSE 0
  /\ IF Grows THEN capacity' \in (capacity + 1)..(2 * capacity + 1) ELSE UNCHANGED capacity

\* A slip: the record is filled in before the copy is made.
ElementBefore == Len(holder)
\* back() of the vector, after push_back.
Element == Len(holder')

\* What is copied of a string_view: the characters up to the end of its
\* buffer, not of the view (its data() is taken for a C string).
CopiedWhole(arg) == ~arg.open

BindString ==
  /\ index <= Len(args) /\ Copied(args[index])
  /\ push_back(index)
  /\ binds' = Append(binds, [buffer |-> CharsOf(Element, args[index].long, storage'),
                             exact |-> CopiedWhole(args[index])])
  /\ UNCHANGED args

\* A number, or characters with a static lifetime: bound where they are.
BindInPlace ==
  /\ index <= Len(args) /\ ~Copied(args[index])
  /\ binds' = Append(binds, [buffer |-> ArgumentItself(index), exact |-> TRUE])
  /\ UNCHANGED <<args, holder, capacity, storage>>

Init ==
  /\ args \in UNION {[1..n -> Args] : n \in 0..MaxArgs}
  /\ binds = <<>> /\ holder = <<>> /\ capacity = 0 /\ storage = 0

Next == BindString \/ BindInPlace
Spec == Init /\ [][Next]_vars

-----------------------------------------------------------------------------
\* What the record of argument i delivers when the statement is run now.
Dangles(i) == binds[i].buffer.in = "vector" /\ binds[i].buffer.block # storage
Delivers(i) ==
  LET b == binds[i].buffer IN
  /\ binds[i].exact /\ ~Dangles(i)
  /\ IF b.in = "argument" THEN b.element = i
     ELSE b.element \in 1..Len(holder) /\ holder[b.element] = i

Bound == 1..Len(binds)

\* Every record delivers its own argument and no more: numbers, characters
\* and long strings whatever is bound after them, and a short string until the
\* vector moves, which the next string may make it do.  The exception is a
\* string_view that ends before its buffer does (connection.h:569).
RecordsReadTheirArgument ==
  \A i \in Bound :
    \/ Delivers(i) \/ args[i].open
    \/ ~args[i].long /\ Copied(args[i]) /\ Dangles(i)

\* A call with one string delivers all of its arguments, up to the end of a
\* string_view: only a second string can move the vector under the first one.
OneStringIsSafe ==
  (\A i, j \in Bound : Copied(args[i]) /\ Copied(args[j]) => i = j)
    => \A i \in Bound : Delivers(i) \/ args[i].open

\* "Store a copy of the string to a vector to ensure its lifetime"
\* (connection.h:566): the characters a record points at are there when the
\* statement is run.
CopiesOutlive == \A i \in Bound : ~Dangles(i)
=============================================================================

------------------------------ MODULE Buffers ------------------------------
(***************************************************************************)
(* The growing buffers of the standard library: String (src/std/string.ly) *)
(* and Vec (src/std/containers/vec.ly), on a heap block of cells, with the *)
(* arithmetic the compiler gives u32: it wraps at Limit, and widening to   *)
(* size_t extends the sign, so that a capacity from Half on asks for a     *)
(* block malloc does not have.  Indices are the code's, from 0.            *)
(***************************************************************************)
EXTENDS Integers, Sequences, SequencesExt

CONSTANTS
  Half,     \* 2^31
  Values,   \* the elements; of a String, characters that are not NUL
  Fresh,    \* what malloc leaves in a cell
  Texts,    \* the strs given to a String
  Sizes     \* the capacities asked for

Limit == 2 * Half   \* 2^32
Indices == 0..(Limit - 1)
Signed(n) == IF n < Half THEN n ELSE n - Limit
Cells == Values \cup {Fresh}

ASSUME BuffersAssumption ==
  /\ Half \in Nat \ {0, 1, 2}
  /\ Fresh \notin Values
  /\ Texts \subseteq Seq(Values)
  /\ Sizes \subseteq 0..(Limit - 1)
  /\ \A t \in Texts : Len(t) < Half

VARIABLES
  kind,     \* "String" or "Vec": the buffer the program has
  buf,      \* its data, len and cap; ok until it is accessed outside its block
  list,     \* what the program has put into it
  rest,     \* the characters push_str has still to push
  misuse,   \* an index past the end was let through, and the block not left
  last      \* the last operation, with its index or what it met

bufferVars == <<kind, buf, list, rest, misuse, last>>

-----------------------------------------------------------------------------
(* The heap: a block is a function from 1..size.  A size from Half on is   *)
(* one malloc does not have, and the block is as empty as one of size 0.   *)
Block(size) == 1..(IF size < Half THEN size ELSE 0)
Malloc(size) == [k \in Block(size) |-> Fresh]
Realloc(data, size) == [k \in Block(size) |-> IF k \in DOMAIN data THEN data[k] ELSE Fresh]

Buffer(data, len, cap, ok) == [data |-> data, len |-> len, cap |-> cap, ok |-> ok]

Resized(b, cap) == Buffer(Realloc(b.data, cap), b.len, cap, b.ok)
WithLen(b, len) == Buffer(b.data, len, b.cap, b.ok)
Write(b, k, v) ==
  Buffer([n \in DOMAIN b.data |-> IF n = k + 1 THEN v ELSE b.data[n]],
         b.len, b.cap, b.ok /\ k + 1 \in DOMAIN b.data)
(* memmove of n elements; a negative n is a size_t no block has. *)
Move(b, dest, from, n) ==
  Buffer([k \in DOMAIN b.data |->
            IF k \in (dest + 1)..(dest + n) /\ k - dest + from \in DOMAIN b.data
              THEN b.data[k - dest + from] ELSE b.data[k]],
         b.len, b.cap,
         b.ok /\ n \in 0..(Half - 1) /\ (n > 0 => {from + 1, from + n, dest + 1, dest + n} \subseteq DOMAIN b.data))

-----------------------------------------------------------------------------
(* String. *)
StringNew(size) == Buffer(Malloc(size), 0, size, TRUE)
StringFrom(s) == Buffer(s, Len(s), Len(s), TRUE)

Grow(b) == Resized(b, (2 * (IF b.cap = 0 THEN 1 ELSE b.cap)) % Limit)
StringPush(b, char) ==
  LET g == IF b.len = b.cap THEN Grow(b) ELSE b
  IN WithLen(Write(g, g.len, char), (g.len + 1) % Limit)

(* strcpy stops at the first NUL, and nothing writes one behind the text:  *)
(* it may be what malloc left there, if the block goes on.                 *)
StringClone_Short(b, stops) ==
  Buffer([k \in Block(b.len) |-> IF k \in DOMAIN b.data THEN b.data[k] ELSE Fresh],
         b.len, b.cap, stops /\ b.len + 1 \in DOMAIN b.data)
StringClone(b, stops) ==
  Buffer([k \in Block(b.cap) |-> IF k <= b.len /\ k \in DOMAIN b.data THEN b.data[k] ELSE Fresh],
         b.len, b.cap, stops /\ b.len + 1 \in DOMAIN b.data)

(* Vec. *)
VecNew == Buffer(<<>>, 0, 0, TRUE)
VecWithSize(size) == Buffer(Malloc(size), 0, size, TRUE)

MayGrow_Once(b) == IF b.cap = 0 THEN Resized(b, 1) ELSE IF b.cap = b.len THEN Resized(b, (2 * b.cap) % Limit) ELSE b
MayGrow(b) ==
  LET g == IF b.cap = 0 THEN Resized(b, 1) ELSE b
  IN IF g.cap = g.len THEN Resized(g, (2 * g.cap) % Limit) ELSE g
VecPush(b, value) ==
  LET g == MayGrow(b)
  IN WithLen(Write(g, g.len, value), (g.len + 1) % Limit)
VecPop(b) ==
  LET l == (b.len - 1) % Limit IN Buffer(b.data, l, b.cap, b.ok /\ l + 1 \in DOMAIN b.data)
VecInsertItem_MovesHead(b, index, item) ==
  LET g == MayGrow(WithLen(b, (b.len + 1) % Limit))
      m == Move(g, index + 1, index, index)
  IN Write(m, index, item)
VecInsertItem(b, index, item) ==
  LET g == MayGrow(WithLen(b, (b.len + 1) % Limit))
      m == Move(g, index + 1, index, g.len - index)
  IN Write(m, index, item)
VecRemove(b, index) ==
  LET m == Move(b, index, index + 1, (b.len - index) % Limit)
  IN WithLen(m, (b.len - 1) % Limit)

-----------------------------------------------------------------------------
(* One action per operation, and per turn of the loop of push_str. *)
Op(name) == [op |-> name]
OpAt(name, index) == [op |-> name, index |-> index]

Does(op, b, l) ==
  /\ buf' = b
  /\ list' = l
  /\ last' = op
  /\ UNCHANGED <<kind, rest, misuse>>
Strays(op, b) ==
  /\ buf' = b
  /\ misuse' = TRUE
  /\ last' = op
  /\ UNCHANGED <<kind, list, rest>>
Usable(k) == kind = k /\ buf.ok /\ ~misuse /\ rest = <<>>

DoStringPush == Usable("String") /\ \E c \in Values : Does(Op("push"), StringPush(buf, c), Append(list, c))
BeginPushStr ==
  /\ Usable("String")
  /\ rest' \in Texts
  /\ last' = Op("push_str")
  /\ UNCHANGED <<kind, buf, list, misuse>>
TurnPushStr ==
  /\ buf.ok /\ rest # <<>>
  /\ buf' = StringPush(buf, Head(rest))
  /\ list' = Append(list, Head(rest))
  /\ rest' = Tail(rest)
  /\ last' = Op("push")
  /\ UNCHANGED <<kind, misuse>>
DoStringClone ==
  /\ Usable("String")
  /\ \E stops \in BOOLEAN : Does([op |-> "clone", stops |-> stops], StringClone(buf, stops), list)

DoVecPush == Usable("Vec") /\ \E v \in Values : Does(Op("push"), VecPush(buf, v), Append(list, v))
DoVecPop == Usable("Vec") /\ Does(Op("pop"), VecPop(buf), Front(list))

(* Any index is taken; those of u64 from Limit on are no different. *)
DoVecInsertItem ==
  /\ Usable("Vec")
  /\ \E i \in Indices, v \in Values :
       IF i <= Len(list) THEN Does(OpAt("insert_item", i), VecInsertItem(buf, i, v), InsertAt(list, i + 1, v))
       ELSE Strays(OpAt("insert_item", i), VecInsertItem(buf, i, v))

(* The index is compared with cap, and the comparison is a signed one: of  *)
(* the indices past the end, some are let through.                         *)
DoVecRemove ==
  /\ Usable("Vec")
  /\ \E i \in Indices :
       /\ ~(Signed(i) > Signed(buf.cap))
       /\ IF i < Len(list) THEN Does(OpAt("remove", i), VecRemove(buf, i), RemoveAt(list, i + 1))
          ELSE Strays(OpAt("remove", i), VecRemove(buf, i))

-----------------------------------------------------------------------------
BuffersInit ==
  /\ \/ kind = "String" /\ \E n \in Sizes : buf = StringNew(n) /\ list = <<>>
     \/ kind = "String" /\ \E s \in Texts : buf = StringFrom(s) /\ list = s
     \/ kind = "Vec" /\ buf = VecNew /\ list = <<>>
     \/ kind = "Vec" /\ \E n \in Sizes : buf = VecWithSize(n) /\ list = <<>>
  /\ rest = <<>>
  /\ misuse = FALSE
  /\ last = Op("new")

BuffersNext ==
  \/ DoStringPush \/ BeginPushStr \/ TurnPushStr \/ DoStringClone
  \/ DoVecPush \/ DoVecPop \/ DoVecInsertItem \/ DoVecRemove

BuffersSpec == BuffersInit /\ [][BuffersNext]_bufferVars

-----------------------------------------------------------------------------
(***************************************************************************)
(* len and cap describe the block: it has the cells cap says, and the len  *)
(* used ones are among them.  This is what every write by index in the     *)
(* library relies on, over any sequence of operations, until the first of  *)
(* them that leaves the block or is given an index past the end.           *)
(***************************************************************************)
LenWithinBlock ==
  buf.ok /\ ~misuse => DOMAIN buf.data = Block(buf.cap) /\ 1..buf.len \subseteq DOMAIN buf.data

(***************************************************************************)
(* The buffer is the sequence the program has made, whatever was moved,    *)
(* copied or reallocated in between.                                       *)
(***************************************************************************)
ActsAsSequence ==
  buf.ok /\ ~misuse =>
    /\ buf.len = Len(list)
    /\ \A k \in DOMAIN list : k \in DOMAIN buf.data /\ buf.data[k] = list[k]

(* Whether an operation on a buffer that holds n elements in a block of    *)
(* cap cells leaves the block.                                             *)
Leaves(op, n, cap) ==
  LET unmade == cap >= Half IN
    CASE op.op = "push" -> unmade \/ (n = cap /\ 2 * cap >= Half)
      [] op.op = "pop" -> n = 0
      [] op.op = "insert_item" ->
           \/ unmade
           \/ op.index > n + 1
           \/ n = cap /\ cap > 0
           \/ n + 1 = cap /\ 2 * cap >= Half
      [] op.op = "remove" -> unmade \/ op.index > n \/ (n = cap /\ op.index < n)
      [] op.op = "clone" -> unmade \/ n = cap \/ ~op.stops
      [] OTHER -> FALSE

(***************************************************************************)
(* The block is left in these cases, and in no other: any operation but    *)
(* push_str of nothing when malloc had no block of the capacity asked for; *)
(* push when the capacity would double to Half; pop of an empty Vec;       *)
(* insert_item more than one past the end, or on a full Vec, whose growth  *)
(* compares cap with the length already raised; remove past the end of an  *)
(* index that cap lets through, and on a full Vec, as it moves one element *)
(* more than follow the index; clone of a String whose text fills its      *)
(* block, as nothing writes a NUL behind it, or has no NUL behind it.      *)
(* format_ leaves it only if half of 2^31 characters are exceeded.         *)
(***************************************************************************)
LeavesBlockExactlyWhen ==
  [][IF last'.op = "format" THEN ~buf'.ok => 2 * Len(list') > Half
     ELSE ~buf'.ok <=> Leaves(last', Len(list), buf.cap)]_bufferVars
=============================================================================

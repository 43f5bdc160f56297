--------------------------- MODULE Containers_proofs ---------------------------
(***************************************************************************)
(* Proofs about the containers of the standard library.                    *)
(*                                                                         *)
(* Buffers: whatever operations a program does, the buffer fits its block  *)
(* and holds the sequence the program made.                                *)
(*                                                                         *)
(* StringMap is a map, for every set of keys, hash and length of the       *)
(* table: the chains implement AbstractMap, a reference that get has       *)
(* returned stays good, and keys of lower-case letters stay in the table.  *)
(* The inductive invariant is the order of a chain: nodes are linked at    *)
(* its end, so that next goes to the following node of the same bucket in  *)
(* the order of their addresses, and a walk has left behind no node that   *)
(* it could have been looking for.                                         *)
(***************************************************************************)
EXTENDS Buffers, StringMap, SequenceTheorems, WellFoundedInduction, TLAPS

-----------------------------------------------------------------------------
(* String and Vec: Buffers. *)

(* A buffer in its block, with l in it. *)
Fits(b, l) ==
  /\ b.len = Len(l)
  /\ b.cap \in 0..(Half - 1)
  /\ b.len <= b.cap
  /\ DOMAIN b.data = 1..b.cap
  /\ \A k \in 1..Len(l) : b.data[k] = l[k]

(* One that may have grown, to a block malloc may not have. *)
Room(g, l) ==
  /\ g.cap \in Nat
  /\ DOMAIN g.data = Block(g.cap)
  /\ \A k \in 1..Len(l) : k \in DOMAIN g.data => g.data[k] = l[k]

(* One malloc has had no block for. *)
Unmade(b, l) ==
  /\ l = <<>>
  /\ b.len = 0
  /\ b.cap \in Half..(Limit - 1)
  /\ DOMAIN b.data = {}

Inv ==
  /\ list \in Seq(Values)
  /\ rest \in Seq(Values)
  /\ rest # <<>> => ~misuse
  /\ buf.ok /\ ~misuse => Fits(buf, list) \/ Unmade(buf, list)

-----------------------------------------------------------------------------
(* No u32 below 2^32 wraps. *)
LEMMA NoWrap ==
  ASSUME NEW n \in 0..(Limit - 1)
  PROVE  n % Limit = n
<1>1. Limit \in Nat \ {0}
  BY BuffersAssumption DEF Limit
<1> QED
  BY <1>1

(* What fits its block has room for what it holds. *)
LEMMA FitsRoom ==
  ASSUME NEW b, NEW l \in Seq(Values), Fits(b, l)
  PROVE  Room(b, l)
BY BuffersAssumption DEF Fits, Room, Block

(* Growing keeps what is there. *)
LEMMA ResizedRoom ==
  ASSUME NEW b, NEW l \in Seq(Values), NEW cap \in Nat,
         1..Len(l) \subseteq DOMAIN b.data,
         \A k \in 1..Len(l) : b.data[k] = l[k]
  PROVE  /\ Room(Resized(b, cap), l)
         /\ Resized(b, cap).cap = cap
         /\ Resized(b, cap).len = b.len
         /\ Resized(b, cap).ok = b.ok
<1> DEFINE r == Resized(b, cap)
<1>1. /\ r.cap = cap /\ r.len = b.len /\ r.ok = b.ok
      /\ r.data = Realloc(b.data, cap)
  BY DEF Resized, Buffer
<1>2. DOMAIN r.data = Block(cap)
  BY <1>1 DEF Realloc
<1>3. \A k \in Block(cap) : k \in DOMAIN b.data => r.data[k] = b.data[k]
  BY <1>1 DEF Realloc
<1> HIDE DEF r
<1>4. Room(r, l)
  BY <1>1, <1>2, <1>3 DEF Room
<1> QED
  BY <1>1, <1>4 DEF r

(* may_grow, of a buffer whose len may have been raised already. *)
LEMMA MayGrowRoom ==
  ASSUME NEW b, NEW l \in Seq(Values),
         b.cap \in 0..(Half - 1), DOMAIN b.data = 1..b.cap,
         Len(l) <= b.cap, \A k \in 1..Len(l) : b.data[k] = l[k]
  PROVE  Room(MayGrow(b), l) /\ MayGrow(b).len = b.len /\ MayGrow(b).ok = b.ok
<1> DEFINE g == IF b.cap = 0 THEN Resized(b, 1) ELSE b
<1>1. /\ Room(g, l) /\ g.len = b.len /\ g.ok = b.ok
      /\ g.cap = IF b.cap = 0 THEN 1 ELSE b.cap
  <2>1. CASE b.cap = 0
    <3>1. 1..Len(l) \subseteq DOMAIN b.data
      OBVIOUS
    <3>2. /\ Room(Resized(b, 1), l)
          /\ Resized(b, 1).cap = 1
          /\ Resized(b, 1).len = b.len
          /\ Resized(b, 1).ok = b.ok
      BY <3>1, ResizedRoom
    <3> QED
      BY <2>1, <3>2, Zenon
  <2>2. CASE b.cap # 0
    BY <2>2, BuffersAssumption DEF Room, Block
  <2> QED
    BY <2>1, <2>2
<1>2. g.cap \in 1..(Half - 1)
  BY <1>1, BuffersAssumption
<1>3. DOMAIN g.data = 1..g.cap
  BY <1>1, <1>2, BuffersAssumption DEF Room, Block
<1>4. 1..Len(l) \subseteq DOMAIN g.data /\ \A k \in 1..Len(l) : g.data[k] = l[k]
  BY <1>1, <1>3, BuffersAssumption DEF Room
<1>5. (2 * g.cap) % Limit \in Nat
  BY <1>2, BuffersAssumption DEF Limit
<1>6. MayGrow(b) = IF g.cap = g.len THEN Resized(g, (2 * g.cap) % Limit) ELSE g
  BY DEF MayGrow
<1> DEFINE c == (2 * g.cap) % Limit
<1> HIDE DEF g, c
<1>7. /\ Room(Resized(g, c), l)
      /\ Resized(g, c).len = g.len
      /\ Resized(g, c).ok = g.ok
  BY <1>4, <1>5, ResizedRoom DEF c
<1>8. MayGrow(b) = IF g.cap = g.len THEN Resized(g, c) ELSE g
  BY <1>6 DEF c
<1> QED
  BY <1>1, <1>7, <1>8, Zenon

LEMMA GrowRoom ==
  ASSUME NEW b, NEW l \in Seq(Values), Fits(b, l)
  PROVE  Room(Grow(b), l) /\ Grow(b).len = b.len /\ Grow(b).ok = b.ok
<1> DEFINE c == (2 * (IF b.cap = 0 THEN 1 ELSE b.cap)) % Limit
<1>1. c \in Nat
  BY BuffersAssumption DEF Fits, Limit
<1>2. 1..Len(l) \subseteq DOMAIN b.data /\ \A k \in 1..Len(l) : b.data[k] = l[k]
  BY BuffersAssumption DEF Fits
<1>3. Grow(b) = Resized(b, c)
  BY DEF Grow
<1> HIDE DEF c
<1>4. /\ Room(Resized(b, c), l)
      /\ Resized(b, c).len = b.len
      /\ Resized(b, c).ok = b.ok
  BY <1>1, <1>2, ResizedRoom
<1> QED
  BY <1>3, <1>4, Zenon

(* Writing behind the last element. *)
LEMMA WriteFits ==
  ASSUME NEW g, NEW l \in Seq(Values), NEW c \in Values,
         Room(g, l), g.len = Len(l),
         WithLen(Write(g, g.len, c), (g.len + 1) % Limit).ok
  PROVE  Fits(WithLen(Write(g, g.len, c), (g.len + 1) % Limit), Append(l, c))
<1> DEFINE r == WithLen(Write(g, g.len, c), (g.len + 1) % Limit)
<1>1. /\ r.cap = g.cap /\ r.len = (g.len + 1) % Limit
      /\ r.data = [n \in DOMAIN g.data |-> IF n = g.len + 1 THEN c ELSE g.data[n]]
      /\ r.ok = (g.ok /\ g.len + 1 \in DOMAIN g.data)
  BY DEF Write, WithLen, Buffer
<1> HIDE DEF r
<1>2. g.len + 1 \in Block(g.cap)
  BY <1>1 DEF Room, r
<1>3. g.cap < Half /\ g.len + 1 <= g.cap /\ DOMAIN g.data = 1..g.cap
  BY <1>2, BuffersAssumption DEF Room, Block
<1>4. r.len = Len(l) + 1
  <2>1. Len(l) + 1 \in 0..(Limit - 1)
    BY <1>3, BuffersAssumption DEF Limit, Room
  <2> QED
    BY <1>1, <2>1, NoWrap
<1>5. Len(Append(l, c)) = Len(l) + 1
  OBVIOUS
<1>6. \A k \in 1..(Len(l) + 1) : r.data[k] = Append(l, c)[k]
  BY <1>1, <1>3 DEF Room
<1>7. Fits(r, Append(l, c))
  BY <1>1, <1>3, <1>4, <1>5, <1>6, BuffersAssumption DEF Fits, Room
<1> QED
  BY <1>7 DEF r

LEMMA StringPushFits ==
  ASSUME NEW b, NEW l \in Seq(Values), NEW c \in Values, Fits(b, l), StringPush(b, c).ok
  PROVE  Fits(StringPush(b, c), Append(l, c))
<1> DEFINE g == IF b.len = b.cap THEN Grow(b) ELSE b
<1>1. Room(g, l) /\ g.len = Len(l)
  BY FitsRoom, GrowRoom DEF Fits
<1>2. StringPush(b, c) = WithLen(Write(g, g.len, c), (g.len + 1) % Limit)
  BY DEF StringPush
<1> HIDE DEF g
<1> QED
  BY <1>1, <1>2, WriteFits

LEMMA VecPushFits ==
  ASSUME NEW b, NEW l \in Seq(Values), NEW v \in Values, Fits(b, l), VecPush(b, v).ok
  PROVE  Fits(VecPush(b, v), Append(l, v))
<1> DEFINE g == MayGrow(b)
<1>1. Room(g, l) /\ g.len = Len(l)
  BY MayGrowRoom DEF Fits
<1>2. VecPush(b, v) = WithLen(Write(g, g.len, v), (g.len + 1) % Limit)
  BY DEF VecPush
<1> HIDE DEF g
<1> QED
  BY <1>1, <1>2, WriteFits

LEMMA StringCloneFits ==
  ASSUME NEW b, NEW l \in Seq(Values), NEW stops \in BOOLEAN, Fits(b, l)
  PROVE  Fits(StringClone(b, stops), l)
<1> DEFINE r == StringClone(b, stops)
<1>1. /\ r.cap = b.cap /\ r.len = b.len
      /\ r.data = [k \in Block(b.cap) |-> IF k <= b.len /\ k \in DOMAIN b.data THEN b.data[k] ELSE Fresh]
  BY DEF StringClone, Buffer
<1>2. Block(b.cap) = 1..b.cap
  BY BuffersAssumption DEF Fits, Block
<1> HIDE DEF r
<1>3. Fits(r, l)
  BY <1>1, <1>2, BuffersAssumption DEF Fits
<1> QED
  BY <1>3 DEF r

(* What Front, InsertAt and RemoveAt of the community modules return. *)
LEMMA FrontElements ==
  ASSUME NEW l \in Seq(Values), l # <<>>
  PROVE  /\ Front(l) \in Seq(Values)
         /\ Len(Front(l)) = Len(l) - 1
         /\ \A k \in 1..(Len(l) - 1) : Front(l)[k] = l[k]
<1> DEFINE n == Len(l) - 1
<1>1. n \in Nat /\ n <= Len(l)
  OBVIOUS
<1>2. Front(l) = SubSeq(l, 1, n)
  BY DEF Front
<1> HIDE DEF n
<1>3. /\ SubSeq(l, 1, n) \in Seq(Values)
      /\ Len(SubSeq(l, 1, n)) = n
      /\ \A k \in 1..n : SubSeq(l, 1, n)[k] = l[k]
  BY <1>1
<1> QED
  BY <1>2, <1>3 DEF n

LEMMA InsertAtParts ==
  ASSUME NEW s, NEW i \in Int, NEW e
  PROVE  InsertAt(s, i + 1, e) = SubSeq(s, 1, i) \o <<e>> \o SubSeq(s, i + 1, Len(s))
<1> DEFINE j == i + 1
<1>1. j - 1 = i
  OBVIOUS
<1> HIDE DEF j
<1>2. InsertAt(s, j, e) = SubSeq(s, 1, j - 1) \o <<e>> \o SubSeq(s, j, Len(s))
  BY DEF InsertAt
<1>3. InsertAt(s, j, e) = SubSeq(s, 1, i) \o <<e>> \o SubSeq(s, j, Len(s))
  BY <1>1, <1>2, Zenon
<1> QED
  BY <1>3 DEF j

LEMMA RemoveAtParts ==
  ASSUME NEW s, NEW i \in Int
  PROVE  RemoveAt(s, i + 1) = SubSeq(s, 1, i) \o SubSeq(s, i + 2, Len(s))
<1> DEFINE j == i + 1
           k == i + 2
<1>1. j - 1 = i /\ j + 1 = k
  OBVIOUS
<1> HIDE DEF j, k
<1>2. RemoveAt(s, j) = SubSeq(s, 1, j - 1) \o SubSeq(s, j + 1, Len(s))
  BY DEF RemoveAt
<1>3. RemoveAt(s, j) = SubSeq(s, 1, i) \o SubSeq(s, k, Len(s))
  BY <1>1, <1>2, Zenon
<1> QED
  BY <1>3 DEF j, k

LEMMA VecPopFits ==
  ASSUME NEW b, NEW l \in Seq(Values), l # <<>>, Fits(b, l)
  PROVE  Fits(VecPop(b), Front(l)) /\ Front(l) \in Seq(Values)
<1> DEFINE r == VecPop(b)
<1>1. r.cap = b.cap /\ r.len = (b.len - 1) % Limit /\ r.data = b.data
  BY DEF VecPop, Buffer
<1>2. Len(l) \in 1..(Half - 1)
  BY BuffersAssumption DEF Fits
<1>3. r.len = Len(l) - 1
  <2>1. Len(l) - 1 \in 0..(Limit - 1)
    BY <1>2, BuffersAssumption DEF Limit
  <2> QED
    BY <1>1, <2>1, NoWrap DEF Fits
<1>4. /\ Front(l) \in Seq(Values) /\ Len(Front(l)) = Len(l) - 1
      /\ \A k \in 1..(Len(l) - 1) : Front(l)[k] = l[k]
  BY FrontElements
<1> HIDE DEF r
<1>5. Fits(r, Front(l))
  BY <1>1, <1>2, <1>3, <1>4, BuffersAssumption DEF Fits
<1> QED
  BY <1>4, <1>5 DEF r

(* l2 is l with v put in after the first i elements. *)
Inserted(l2, l, i, v) ==
  /\ Len(l2) = Len(l) + 1
  /\ \A k \in 1..(Len(l) + 1) :
       l2[k] = IF k <= i THEN l[k] ELSE IF k = i + 1 THEN v ELSE l[k - 1]

LEMMA InsertAtElements ==
  ASSUME NEW l \in Seq(Values), NEW i \in 0..Len(l), NEW v \in Values
  PROVE  /\ InsertAt(l, i + 1, v) \in Seq(Values)
         /\ Inserted(InsertAt(l, i + 1, v), l, i, v)
<1> DEFINE h == SubSeq(l, 1, i)
           t == SubSeq(l, i + 1, Len(l))
<1>1. h \in Seq(Values) /\ Len(h) = i /\ \A k \in 1..i : h[k] = l[k]
  OBVIOUS
<1>2. t \in Seq(Values) /\ Len(t) = Len(l) - i /\ \A k \in 1..(Len(l) - i) : t[k] = l[k + i]
  OBVIOUS
<1>3. InsertAt(l, i + 1, v) = h \o <<v>> \o t
  <2>1. i \in Int
    OBVIOUS
  <2> QED
    BY <2>1, InsertAtParts, Zenon
<1> HIDE DEF h, t
<1> DEFINE c == h \o <<v>>
<1>4. /\ c \in Seq(Values) /\ Len(c) = i + 1
      /\ \A k \in 1..(i + 1) : c[k] = IF k <= i THEN l[k] ELSE v
  BY <1>1
<1> HIDE DEF c
<1>5. /\ c \o t \in Seq(Values)
      /\ Len(c \o t) = Len(c) + Len(t)
      /\ \A k \in 1..(Len(c) + Len(t)) : (c \o t)[k] = IF k <= Len(c) THEN c[k] ELSE t[k - Len(c)]
  BY <1>2, <1>4, ConcatProperties, Zenon
<1>6. Len(c \o t) = Len(l) + 1 /\ Len(c) + Len(t) = Len(l) + 1
  BY <1>2, <1>4, <1>5
<1>7. ASSUME NEW k \in 1..(Len(l) + 1)
      PROVE  (c \o t)[k] = IF k <= i THEN l[k] ELSE IF k = i + 1 THEN v ELSE l[k - 1]
  <2>1. (c \o t)[k] = IF k <= i + 1 THEN c[k] ELSE t[k - (i + 1)]
    BY <1>4, <1>5, <1>6
  <2>2. CASE k <= i + 1
    BY <1>4, <2>1, <2>2
  <2>3. CASE k > i + 1
    <3>1. k - (i + 1) \in 1..(Len(l) - i) /\ k - (i + 1) + i = k - 1
      BY <2>3
    <3> QED
      BY <1>2, <2>1, <2>3, <3>1
  <2>4. k <= i + 1 \/ k > i + 1
    OBVIOUS
  <2> QED
    BY <2>2, <2>3, <2>4, Zenon
<1>8. InsertAt(l, i + 1, v) = c \o t
  BY <1>3 DEF c
<1> QED
  BY <1>5, <1>6, <1>7, <1>8, Zenon DEF Inserted

(* l2 is l without the element that follows the first i. *)
Removed(l2, l, i) ==
  /\ Len(l2) = Len(l) - 1
  /\ \A k \in 1..(Len(l) - 1) : l2[k] = IF k <= i THEN l[k] ELSE l[k + 1]

LEMMA RemoveAtElements ==
  ASSUME NEW l \in Seq(Values), NEW i \in 0..(Len(l) - 1)
  PROVE  /\ RemoveAt(l, i + 1) \in Seq(Values)
         /\ Removed(RemoveAt(l, i + 1), l, i)
<1> DEFINE h == SubSeq(l, 1, i)
           t == SubSeq(l, i + 2, Len(l))
<1>1. h \in Seq(Values) /\ Len(h) = i /\ \A k \in 1..i : h[k] = l[k]
  OBVIOUS
<1>2. t \in Seq(Values) /\ Len(t) = Len(l) - i - 1 /\ \A k \in 1..(Len(l) - i - 1) : t[k] = l[k + i + 1]
  OBVIOUS
<1>3. RemoveAt(l, i + 1) = h \o t
  <2>1. i \in Int
    OBVIOUS
  <2> QED
    BY <2>1, RemoveAtParts, Zenon
<1> HIDE DEF h, t
<1>0. h \in Seq(Values) /\ t \in Seq(Values)
  BY <1>1, <1>2
<1>4. /\ h \o t \in Seq(Values)
      /\ Len(h \o t) = Len(h) + Len(t)
      /\ \A k \in 1..(Len(h) + Len(t)) : (h \o t)[k] = IF k <= Len(h) THEN h[k] ELSE t[k - Len(h)]
  BY <1>0, ConcatProperties, Zenon
<1>5. Len(h \o t) = Len(l) - 1 /\ Len(h) + Len(t) = Len(l) - 1
  BY <1>1, <1>2, <1>4
<1>6. ASSUME NEW k \in 1..(Len(l) - 1)
      PROVE  (h \o t)[k] = IF k <= i THEN l[k] ELSE l[k + 1]
  <2>1. (h \o t)[k] = IF k <= i THEN h[k] ELSE t[k - i]
    BY <1>1, <1>4, <1>5
  <2>2. CASE k <= i
    BY <1>1, <2>1, <2>2
  <2>3. CASE k > i
    <3>1. k - i \in 1..(Len(l) - i - 1) /\ k - i + i + 1 = k + 1
      BY <2>3
    <3> QED
      BY <1>2, <2>1, <2>3, <3>1
  <2>4. k <= i \/ k > i
    OBVIOUS
  <2> QED
    BY <2>2, <2>3, <2>4, Zenon
<1> QED
  BY <1>3, <1>4, <1>5, <1>6, Zenon DEF Removed

LEMMA VecInsertItemFits ==
  ASSUME NEW b, NEW l \in Seq(Values), NEW i \in 0..Len(l), NEW v \in Values,
         Fits(b, l), VecInsertItem(b, i, v).ok
  PROVE  Fits(VecInsertItem(b, i, v), InsertAt(l, i + 1, v))
<1> DEFINE w == WithLen(b, (b.len + 1) % Limit)
           g == MayGrow(w)
           n == g.len - i
           m == Move(g, i + 1, i, n)
           r == VecInsertItem(b, i, v)
<1>1. w.data = b.data /\ w.cap = b.cap /\ w.len = Len(l) + 1
  <2>1. Len(l) + 1 \in 0..(Limit - 1)
    BY BuffersAssumption DEF Fits, Limit
  <2> QED
    BY <2>1, NoWrap DEF WithLen, Buffer, Fits
<1> HIDE DEF w
<1>2. Room(g, l) /\ g.len = Len(l) + 1
  BY <1>1, MayGrowRoom DEF Fits
<1>3. r = Write(m, i, v)
  BY DEF VecInsertItem, w
<1> HIDE DEF g
<1>4. /\ m.len = g.len /\ m.cap = g.cap
      /\ m.ok => n \in 0..(Half - 1) /\ (n > 0 => {i + 1, i + n, i + 1 + 1, i + 1 + n} \subseteq DOMAIN g.data)
      /\ m.data = [k \in DOMAIN g.data |->
                     IF k \in (i + 1 + 1)..(i + 1 + n) /\ k - (i + 1) + i \in DOMAIN g.data
                       THEN g.data[k - (i + 1) + i] ELSE g.data[k]]
  BY DEF Move, Buffer
<1> HIDE DEF m
<1>5. /\ r.len = m.len /\ r.cap = m.cap
      /\ r.data = [k \in DOMAIN m.data |-> IF k = i + 1 THEN v ELSE m.data[k]]
  BY <1>3 DEF Write, Buffer
<1>6. m.ok
  <2>1. Write(m, i, v).ok
    BY <1>3
  <2> QED
    BY <2>1 DEF Write, Buffer
<1> HIDE DEF r
<1>7. n = Len(l) + 1 - i /\ n > 0
  BY <1>2
<1>8. i + 1 + n \in Block(g.cap)
  BY <1>2, <1>4, <1>5, <1>6, <1>7 DEF Room
<1>9. g.cap < Half /\ Len(l) + 2 <= g.cap /\ DOMAIN g.data = 1..g.cap
  BY <1>2, <1>7, <1>8, BuffersAssumption DEF Room, Block
<1>10. ASSUME NEW k \in 1..(Len(l) + 1)
       PROVE  r.data[k] = IF k <= i THEN l[k] ELSE IF k = i + 1 THEN v ELSE l[k - 1]
  <2>0. k \in DOMAIN g.data /\ k \in DOMAIN m.data
    BY <1>4, <1>9, <1>2 DEF Room
  <2>1. CASE k <= i
    <3>1. k \notin (i + 1 + 1)..(i + 1 + n) /\ k # i + 1
      BY <2>1
    <3>2. r.data[k] = g.data[k]
      BY <1>4, <1>5, <2>0, <3>1
    <3> QED
      BY <1>2, <2>0, <2>1, <3>2 DEF Room
  <2>2. CASE k = i + 1
    BY <1>5, <2>0, <2>2
  <2>3. CASE k > i + 1
    <3>1. k \in (i + 1 + 1)..(i + 1 + n) /\ k - (i + 1) + i = k - 1 /\ k - 1 \in 1..Len(l)
      BY <1>7, <2>3
    <3>2. k - 1 \in DOMAIN g.data
      BY <1>9, <1>2, <3>1 DEF Room
    <3>3. m.data[k] = g.data[k - 1]
      BY <1>4, <2>0, <3>1, <3>2
    <3> QED
      BY <1>2, <1>5, <2>0, <2>3, <3>1, <3>2, <3>3 DEF Room
  <2> QED
    BY <2>1, <2>2, <2>3
<1>11. DOMAIN r.data = 1..r.cap /\ r.cap \in 0..(Half - 1) /\ r.len = Len(l) + 1 /\ r.len <= r.cap
  BY <1>2, <1>4, <1>5, <1>9, BuffersAssumption DEF Room
<1> DEFINE l2 == InsertAt(l, i + 1, v)
<1>12. Inserted(l2, l, i, v)
  <2>1. i \in 0..Len(l)
    BY <1>1
  <2> QED
    BY <2>1, InsertAtElements
<1> HIDE DEF l2
<1>13. Fits(r, l2)
  BY <1>10, <1>11, <1>12 DEF Fits, Inserted
<1> QED
  BY <1>13 DEF r, l2

LEMMA VecRemoveFits ==
  ASSUME NEW b, NEW l \in Seq(Values), NEW i \in 0..(Len(l) - 1),
         Fits(b, l), VecRemove(b, i).ok
  PROVE  Fits(VecRemove(b, i), RemoveAt(l, i + 1))
<1> DEFINE n == (b.len - i) % Limit
           m == Move(b, i, i + 1, n)
           r == VecRemove(b, i)
<1>1. Len(l) \in 1..(Half - 1)
  BY BuffersAssumption DEF Fits
<1>2. n = Len(l) - i /\ (b.len - 1) % Limit = Len(l) - 1
  <2>1. Len(l) - i \in 0..(Limit - 1) /\ Len(l) - 1 \in 0..(Limit - 1)
    BY <1>1, BuffersAssumption DEF Limit
  <2> QED
    BY <2>1, NoWrap DEF Fits
<1>3. r = WithLen(m, Len(l) - 1)
  BY <1>2 DEF VecRemove
<1> HIDE DEF n
<1>4. /\ m.cap = b.cap
      /\ m.ok => n \in 0..(Half - 1) /\ (n > 0 => {i + 1 + 1, i + 1 + n, i + 1, i + n} \subseteq DOMAIN b.data)
      /\ m.data = [k \in DOMAIN b.data |->
                     IF k \in (i + 1)..(i + n) /\ k - i + (i + 1) \in DOMAIN b.data
                       THEN b.data[k - i + (i + 1)] ELSE b.data[k]]
  BY DEF Move, Buffer
<1> HIDE DEF m
<1>5. r.len = Len(l) - 1 /\ r.cap = m.cap /\ r.data = m.data
  BY <1>3 DEF WithLen, Buffer
<1>6. m.ok
  BY <1>3 DEF WithLen, Buffer
<1> HIDE DEF r
<1>7. Len(l) + 1 \in DOMAIN b.data
  BY <1>1, <1>2, <1>4, <1>6
<1>8. ASSUME NEW k \in 1..(Len(l) - 1)
      PROVE  r.data[k] = IF k <= i THEN l[k] ELSE l[k + 1]
  <2>0. k \in DOMAIN b.data /\ k + 1 \in DOMAIN b.data /\ k - i + (i + 1) = k + 1
    BY <1>7, BuffersAssumption DEF Fits
  <2>1. CASE k <= i
    <3>1. k \notin (i + 1)..(i + n)
      BY <2>1
    <3>2. r.data[k] = b.data[k]
      BY <1>4, <1>5, <2>0, <3>1
    <3> QED
      BY <2>1, <3>2 DEF Fits
  <2>2. CASE k > i
    <3>1. k \in (i + 1)..(i + n)
      BY <1>2, <2>2
    <3>2. r.data[k] = b.data[k + 1]
      BY <1>4, <1>5, <2>0, <3>1
    <3>3. k + 1 \in 1..Len(l)
      OBVIOUS
    <3>4. b.data[k + 1] = l[k + 1]
      BY <3>3 DEF Fits
    <3> QED
      BY <2>2, <3>2, <3>4
  <2> QED
    BY <2>1, <2>2
<1>9. DOMAIN r.data = 1..r.cap /\ r.cap \in 0..(Half - 1) /\ r.len <= r.cap
  BY <1>1, <1>4, <1>5, BuffersAssumption DEF Fits
<1>10. Fits(r, RemoveAt(l, i + 1))
  <2> DEFINE m2 == RemoveAt(l, i + 1)
  <2>1. Removed(m2, l, i)
    BY RemoveAtElements
  <2> HIDE DEF m2
  <2>2. Fits(r, m2)
    BY <1>5, <1>8, <1>9, <2>1 DEF Fits, Removed
  <2> QED
    BY <2>2 DEF m2
<1> QED
  BY <1>10 DEF r

-----------------------------------------------------------------------------
(* To what capacity a buffer grows: doubling does not wrap. *)
LEMMA Doubles ==
  ASSUME NEW cap \in 0..(Half - 1)
  PROVE  (2 * cap) % Limit = 2 * cap
<1>1. 2 * cap \in 0..(Limit - 1)
  BY BuffersAssumption DEF Limit
<1> QED
  BY <1>1, NoWrap

LEMMA GrowCap ==
  ASSUME NEW b, NEW l \in Seq(Values), Fits(b, l)
  PROVE  Grow(b).cap = IF b.cap = 0 THEN 2 ELSE 2 * b.cap
<1>1. Grow(b).cap = (2 * (IF b.cap = 0 THEN 1 ELSE b.cap)) % Limit
  BY DEF Grow, Resized, Buffer
<1>2. (2 * 1) % Limit = 2 /\ (2 * b.cap) % Limit = 2 * b.cap
  <2>1. b.cap \in 0..(Half - 1)
    BY DEF Fits
  <2>2. (2 * b.cap) % Limit = 2 * b.cap
    BY <2>1, Doubles
  <2>3. 2 \in 0..(Limit - 1) /\ 2 * 1 = 2
    BY BuffersAssumption DEF Limit
  <2>4. 2 % Limit = 2
    BY <2>3, NoWrap
  <2> QED
    BY <2>2, <2>3, <2>4
<1> QED
  BY <1>1, <1>2

LEMMA MayGrowCap ==
  ASSUME NEW b, b.cap \in 0..(Half - 1)
  PROVE  MayGrow(b).cap = IF b.cap = 0 THEN IF b.len = 1 THEN 2 ELSE 1
                          ELSE IF b.cap = b.len THEN 2 * b.cap ELSE b.cap
<1>1. (2 * 1) % Limit = 2 /\ (2 * b.cap) % Limit = 2 * b.cap
  <2>1. (2 * b.cap) % Limit = 2 * b.cap
    BY Doubles
  <2>2. 2 \in 0..(Limit - 1) /\ 2 * 1 = 2
    BY BuffersAssumption DEF Limit
  <2>3. 2 % Limit = 2
    BY <2>2, NoWrap
  <2> QED
    BY <2>1, <2>2, <2>3
<1>2. CASE b.cap = 0
  <2>1. Resized(b, 1).cap = 1 /\ Resized(b, 1).len = b.len
    BY DEF Resized, Buffer
  <2>2. Resized(Resized(b, 1), 2).cap = 2
    BY DEF Resized, Buffer
  <2>3. MayGrow(b) = IF 1 = b.len THEN Resized(Resized(b, 1), 2) ELSE Resized(b, 1)
    BY <1>1, <1>2, <2>1 DEF MayGrow
  <2> QED
    BY <1>2, <2>1, <2>2, <2>3
<1>3. CASE b.cap # 0
  <2>1. Resized(b, 2 * b.cap).cap = 2 * b.cap
    BY DEF Resized, Buffer
  <2>2. MayGrow(b) = IF b.cap = b.len THEN Resized(b, 2 * b.cap) ELSE b
    BY <1>1, <1>3 DEF MayGrow
  <2> QED
    BY <1>3, <2>1, <2>2
<1> QED
  BY <1>2, <1>3

LEMMA Wraps ==
  ASSUME NEW n \in (-Limit)..(-1)
  PROVE  n % Limit = n + Limit
<1>1. Limit \in Nat \ {0}
  BY BuffersAssumption DEF Limit
<1> QED
  BY <1>1

(* Which operations stay inside the block of a buffer that fits it. *)
LEMMA WriteStays ==
  ASSUME NEW g, NEW l \in Seq(Values), NEW v, NEW len, Room(g, l), g.len = Len(l), g.ok
  PROVE  WithLen(Write(g, g.len, v), len).ok <=> g.cap < Half /\ Len(l) < g.cap
<1>1. WithLen(Write(g, g.len, v), len).ok <=> Len(l) + 1 \in DOMAIN g.data
  BY DEF WithLen, Write, Buffer
<1>2. DOMAIN g.data = Block(g.cap) /\ g.cap \in Nat
  BY DEF Room
<1>3. Len(l) + 1 \in Block(g.cap) <=> g.cap < Half /\ Len(l) < g.cap
  BY <1>2, BuffersAssumption DEF Block
<1> QED
  BY <1>1, <1>2, <1>3

LEMMA StringPushStays ==
  ASSUME NEW b, NEW l \in Seq(Values), NEW c, Fits(b, l), b.ok
  PROVE  StringPush(b, c).ok <=> ~(Len(l) = b.cap /\ 2 * b.cap >= Half)
<1> DEFINE g == IF b.len = b.cap THEN Grow(b) ELSE b
<1>1. Room(g, l) /\ g.len = Len(l)
  BY FitsRoom, GrowRoom DEF Fits
<1>2. g.ok
  BY GrowRoom, Zenon
<1>3. g.cap = IF Len(l) = b.cap THEN IF b.cap = 0 THEN 2 ELSE 2 * b.cap ELSE b.cap
  BY GrowCap DEF Fits
<1>4. StringPush(b, c) = WithLen(Write(g, g.len, c), (g.len + 1) % Limit)
  BY DEF StringPush
<1> HIDE DEF g
<1>5. StringPush(b, c).ok <=> g.cap < Half /\ Len(l) < g.cap
  BY <1>1, <1>2, <1>4, WriteStays
<1>6. b.cap \in 0..(Half - 1) /\ Len(l) <= b.cap
  BY DEF Fits
<1> QED
  BY <1>3, <1>5, <1>6, BuffersAssumption

LEMMA VecPushStays ==
  ASSUME NEW b, NEW l \in Seq(Values), NEW v, Fits(b, l), b.ok
  PROVE  VecPush(b, v).ok <=> ~(Len(l) = b.cap /\ 2 * b.cap >= Half)
<1> DEFINE g == MayGrow(b)
<1>1. Room(g, l) /\ g.len = Len(l) /\ g.ok = b.ok
  BY MayGrowRoom DEF Fits
<1>2. g.ok
  BY <1>1, Zenon
<1>6. b.cap \in 0..(Half - 1) /\ Len(l) <= b.cap /\ b.len = Len(l)
  BY DEF Fits
<1>3. g.cap = IF b.cap = 0 THEN 1 ELSE IF Len(l) = b.cap THEN 2 * b.cap ELSE b.cap
  BY <1>6, MayGrowCap
<1>4. VecPush(b, v) = WithLen(Write(g, g.len, v), (g.len + 1) % Limit)
  BY DEF VecPush
<1> HIDE DEF g
<1>5. VecPush(b, v).ok <=> g.cap < Half /\ Len(l) < g.cap
  BY <1>1, <1>2, <1>4, WriteStays
<1> QED
  BY <1>3, <1>5, <1>6, BuffersAssumption

LEMMA VecPopStays ==
  ASSUME NEW b, NEW l \in Seq(Values), Fits(b, l), b.ok
  PROVE  VecPop(b).ok <=> Len(l) # 0
<1>1. Len(l) \in 0..(Half - 1) /\ b.len = Len(l) /\ DOMAIN b.data = 1..b.cap
      /\ b.cap \in 0..(Half - 1) /\ Len(l) <= b.cap
  BY BuffersAssumption DEF Fits
<1>2. VecPop(b).ok <=> ((Len(l) - 1) % Limit) + 1 \in 1..b.cap
  BY <1>1 DEF VecPop, Buffer
<1>3. CASE Len(l) = 0
  <2>1. Len(l) - 1 \in (-Limit)..(-1)
    BY <1>3, BuffersAssumption DEF Limit
  <2>2. (Len(l) - 1) % Limit = Limit - 1
    <3>1. (Len(l) - 1) % Limit = Len(l) - 1 + Limit
      BY <2>1, Wraps
    <3> QED
      BY <1>3, <3>1, BuffersAssumption DEF Limit
  <2>3. (Limit - 1) + 1 \notin 1..b.cap
    BY <1>1, BuffersAssumption DEF Limit
  <2> QED
    BY <1>2, <1>3, <2>2, <2>3
<1>4. CASE Len(l) # 0
  <2>1. Len(l) - 1 \in 0..(Limit - 1)
    BY <1>1, <1>4, BuffersAssumption DEF Limit
  <2>2. (Len(l) - 1) % Limit = Len(l) - 1
    BY <2>1, NoWrap
  <2> QED
    BY <1>1, <1>2, <1>4, <2>2
<1> QED
  BY <1>3, <1>4

(* When memmove stays inside a block that malloc had. *)
LEMMA MoveStays ==
  ASSUME NEW b, NEW dest, NEW from, NEW n, b.ok
  PROVE  /\ DOMAIN Move(b, dest, from, n).data = DOMAIN b.data
         /\ Move(b, dest, from, n).ok <=>
              /\ n \in 0..(Half - 1)
              /\ n > 0 => {from + 1, from + n, dest + 1, dest + n} \subseteq DOMAIN b.data
BY DEF Move, Buffer

LEMMA VecInsertItemStays ==
  ASSUME NEW b, NEW l \in Seq(Values), NEW i \in Nat, NEW v, Fits(b, l), b.ok
  PROVE  VecInsertItem(b, i, v).ok <=>
           ~(\/ i > Len(l) + 1
             \/ Len(l) = b.cap /\ b.cap > 0
             \/ Len(l) + 1 = b.cap /\ 2 * b.cap >= Half)
<1> DEFINE w == WithLen(b, (b.len + 1) % Limit)
           g == MayGrow(w)
           n == g.len - i
           to == i + 1
           m == Move(g, to, i, n)
<1>1. w.data = b.data /\ w.cap = b.cap /\ w.len = Len(l) + 1
  <2>1. Len(l) + 1 \in 0..(Limit - 1)
    BY BuffersAssumption DEF Fits, Limit
  <2> QED
    BY <2>1, NoWrap DEF WithLen, Buffer, Fits
<1>2. w.ok
  BY DEF WithLen, Buffer
<1>3. VecInsertItem(b, i, v) = Write(m, i, v)
  BY DEF VecInsertItem
<1> HIDE DEF w
<1>4. Room(g, l) /\ g.len = Len(l) + 1 /\ g.ok = w.ok
  BY <1>1, MayGrowRoom DEF Fits
<1>5. g.ok
  BY <1>2, <1>4, Zenon
<1>6. b.cap \in 0..(Half - 1) /\ Len(l) <= b.cap
  BY DEF Fits
<1>7. g.cap = IF b.cap = 0 THEN 2 ELSE IF Len(l) + 1 = b.cap THEN 2 * b.cap ELSE b.cap
  <2>1. w.cap \in 0..(Half - 1)
    BY <1>1, <1>6
  <2>2. g.cap = IF w.cap = 0 THEN IF w.len = 1 THEN 2 ELSE 1
                ELSE IF w.cap = w.len THEN 2 * w.cap ELSE w.cap
    BY <2>1, MayGrowCap
  <2> QED
    BY <1>1, <1>6, <2>2
<1> HIDE DEF g
<1>8. n = Len(l) + 1 - i /\ to = i + 1
  BY <1>4
<1>9. DOMAIN g.data = Block(g.cap)
  BY <1>4 DEF Room
<1> HIDE DEF n, to
<1>10. /\ DOMAIN m.data = DOMAIN g.data
       /\ m.ok <=> /\ n \in 0..(Half - 1)
                   /\ n > 0 => {i + 1, i + n, to + 1, to + n} \subseteq DOMAIN g.data
  BY <1>5, MoveStays
<1> HIDE DEF m
<1>11. Write(m, i, v).ok <=> m.ok /\ i + 1 \in DOMAIN g.data
  BY <1>10 DEF Write, Buffer
<1>12. CASE g.cap >= Half
  <2>1. DOMAIN g.data = {}
    BY <1>6, <1>7, <1>9, <1>12, BuffersAssumption DEF Block
  <2>2. Len(l) + 1 = b.cap /\ 2 * b.cap >= Half
    BY <1>6, <1>7, <1>12, BuffersAssumption
  <2> QED
    BY <1>3, <1>11, <2>1, <2>2
<1>13. CASE g.cap < Half
  <2>1. DOMAIN g.data = 1..g.cap /\ g.cap \in Nat
    BY <1>6, <1>7, <1>9, <1>13, BuffersAssumption DEF Block
  <2>2. m.ok /\ i + 1 \in DOMAIN g.data <=> i <= Len(l) + 1 /\ Len(l) + 2 <= g.cap
    <3>1. CASE i <= Len(l)
      <4>1. n \in 1..(Len(l) + 1) /\ i + n = Len(l) + 1 /\ to + n = Len(l) + 2 /\ to + 1 = i + 2
        BY <1>8, <3>1
      <4>2. {i + 1, i + n, to + 1, to + n} \subseteq 1..g.cap <=> Len(l) + 2 <= g.cap
        BY <2>1, <3>1, <4>1
      <4>3. Len(l) + 2 <= g.cap => n \in 0..(Half - 1)
        BY <1>13, <2>1, <4>1, BuffersAssumption
      <4>4. Len(l) + 2 <= g.cap => i + 1 \in 1..g.cap
        BY <2>1, <3>1
      <4>5. n > 0 /\ i <= Len(l) + 1
        BY <3>1, <4>1
      <4> QED
        BY <1>10, <2>1, <4>2, <4>3, <4>4, <4>5
    <3>2. CASE i = Len(l) + 1
      <4>1. n = 0 /\ 0 \in 0..(Half - 1) /\ ~(0 > 0)
        BY <1>8, <3>2, BuffersAssumption
      <4>2. i + 1 \in 1..g.cap <=> Len(l) + 2 <= g.cap
        BY <2>1, <3>2
      <4> QED
        BY <1>10, <2>1, <3>2, <4>1, <4>2
    <3>3. CASE i > Len(l) + 1
      <4>1. n \notin 0..(Half - 1)
        BY <1>8, <3>3
      <4> QED
        BY <1>10, <3>3, <4>1
    <3> QED
      BY <3>1, <3>2, <3>3
  <2>3. Len(l) + 2 <= g.cap <=> ~(\/ Len(l) = b.cap /\ b.cap > 0
                                  \/ Len(l) + 1 = b.cap /\ 2 * b.cap >= Half)
    BY <1>6, <1>7, <1>13, BuffersAssumption
  <2>4. i <= Len(l) + 1 <=> ~(i > Len(l) + 1)
    OBVIOUS
  <2> QED
    BY <1>3, <1>11, <2>2, <2>3, <2>4
<1>14. g.cap < Half \/ g.cap >= Half
  BY <1>6, <1>7, BuffersAssumption
<1> QED
  BY <1>12, <1>13, <1>14

LEMMA VecRemoveStays ==
  ASSUME NEW b, NEW l \in Seq(Values), NEW i \in Indices, Fits(b, l), b.ok
  PROVE  VecRemove(b, i).ok <=> ~(i > Len(l) \/ (Len(l) = b.cap /\ i < Len(l)))
<1> DEFINE n == (b.len - i) % Limit
           from == i + 1
           m == Move(b, i, from, n)
<1>1. /\ b.cap \in 0..(Half - 1) /\ Len(l) \in 0..b.cap /\ b.len = Len(l)
      /\ DOMAIN b.data = 1..b.cap /\ i \in 0..(Limit - 1) /\ Limit = 2 * Half
  BY DEF Fits, Indices, Limit
<1>2. VecRemove(b, i) = WithLen(m, (b.len - 1) % Limit)
  BY DEF VecRemove
<1>3. VecRemove(b, i).ok <=> m.ok
  BY <1>2 DEF WithLen, Buffer
<1>4. n = IF i <= Len(l) THEN Len(l) - i ELSE Len(l) - i + Limit
  <2>1. CASE i <= Len(l)
    <3>1. Len(l) - i \in 0..(Limit - 1)
      BY <1>1, <2>1, BuffersAssumption
    <3> QED
      BY <1>1, <2>1, <3>1, NoWrap
  <2>2. CASE ~(i <= Len(l))
    <3>1. Len(l) - i \in (-Limit)..(-1)
      BY <1>1, <2>2, BuffersAssumption
    <3> QED
      BY <1>1, <2>2, <3>1, Wraps
  <2> QED
    BY <2>1, <2>2
<1> HIDE DEF n
<1>5. m.ok <=> /\ n \in 0..(Half - 1)
               /\ n > 0 => {from + 1, from + n, i + 1, i + n} \subseteq 1..b.cap
  BY <1>1, MoveStays
<1>6. CASE i > Len(l)
  <2>1. n > 0 /\ i + n = Len(l) + Limit
    BY <1>1, <1>4, <1>6, BuffersAssumption
  <2>2. i + n \notin 1..b.cap
    BY <1>1, <2>1, BuffersAssumption
  <2> QED
    BY <1>3, <1>5, <1>6, <2>1, <2>2
<1>7. CASE i = Len(l)
  <2>1. n = 0 /\ 0 \in 0..(Half - 1) /\ ~(0 > 0)
    BY <1>1, <1>4, <1>7, BuffersAssumption
  <2>2. ~(i > Len(l)) /\ ~(i < Len(l))
    BY <1>7
  <2> QED
    BY <1>3, <1>5, <2>1, <2>2
<1>8. CASE i < Len(l)
  <2>1. n \in 1..Len(l) /\ i + n = Len(l) /\ from + n = Len(l) + 1 /\ from + 1 = i + 2
    BY <1>1, <1>4, <1>8
  <2>2. {from + 1, from + n, i + 1, i + n} \subseteq 1..b.cap <=> Len(l) # b.cap
    <3>1. from + n \in 1..b.cap => Len(l) # b.cap
      BY <1>1, <2>1, BuffersAssumption
    <3>2. Len(l) # b.cap => /\ from + 1 \in 1..b.cap /\ from + n \in 1..b.cap
                            /\ i + 1 \in 1..b.cap /\ i + n \in 1..b.cap
      BY <1>1, <1>8, <2>1, BuffersAssumption
    <3> HIDE DEF from
    <3> QED
      BY <3>1, <3>2
  <2>3. n \in 0..(Half - 1) /\ n > 0
    BY <1>1, <2>1, BuffersAssumption
  <2>4. ~(i > Len(l))
    BY <1>1, <1>8
  <2> HIDE DEF from
  <2> QED
    BY <1>3, <1>5, <1>8, <2>2, <2>3, <2>4
<1> QED
  BY <1>1, <1>6, <1>7, <1>8

LEMMA StringCloneStays ==
  ASSUME NEW b, NEW l \in Seq(Values), NEW stops \in BOOLEAN, Fits(b, l)
  PROVE  StringClone(b, stops).ok <=> ~(Len(l) = b.cap \/ ~stops)
<1>1. StringClone(b, stops).ok <=> stops /\ b.len + 1 \in DOMAIN b.data
  BY DEF StringClone, Buffer
<1>2. b.len + 1 \in DOMAIN b.data <=> Len(l) # b.cap
  BY BuffersAssumption DEF Fits
<1> QED
  BY <1>1, <1>2

(* A buffer malloc had no block for has no cell to write or read. *)
LEMMA UnmadeLeaves ==
  ASSUME NEW b, NEW l, Unmade(b, l)
  PROVE  /\ \A c : ~StringPush(b, c).ok /\ ~VecPush(b, c).ok
         /\ \A stops : ~StringClone(b, stops).ok
         /\ ~VecPop(b).ok
         /\ \A i, v : ~VecInsertItem(b, i, v).ok
         /\ \A i \in Indices : ~(Signed(i) > Signed(b.cap)) => ~VecRemove(b, i).ok
<1>1. DOMAIN b.data = {} /\ b.len = 0 /\ b.cap \in Half..(Limit - 1) /\ b.cap # 0 /\ b.cap # 1
  BY BuffersAssumption DEF Unmade
<1>2. ASSUME NEW g, DOMAIN g.data = {}, NEW k, NEW v, NEW len
      PROVE  ~Write(g, k, v).ok /\ ~WithLen(Write(g, k, v), len).ok
  BY <1>2 DEF Write, WithLen, Buffer
<1>3. ASSUME NEW c
      PROVE  ~StringPush(b, c).ok /\ ~VecPush(b, c).ok
  <2>1. StringPush(b, c) = WithLen(Write(b, b.len, c), (b.len + 1) % Limit)
    BY <1>1 DEF StringPush
  <2>2. MayGrow(b) = b
    BY <1>1 DEF MayGrow
  <2>3. VecPush(b, c) = WithLen(Write(b, b.len, c), (b.len + 1) % Limit)
    BY <2>2 DEF VecPush
  <2> QED
    BY <1>1, <1>2, <2>1, <2>3
<1>4. \A stops : ~StringClone(b, stops).ok
  BY <1>1 DEF StringClone, Buffer
<1>5. ~VecPop(b).ok
  BY <1>1 DEF VecPop, Buffer
<1>6. ASSUME NEW i, NEW v
      PROVE  ~VecInsertItem(b, i, v).ok
  <2> DEFINE w == WithLen(b, (b.len + 1) % Limit)
             m == Move(w, i + 1, i, w.len - i)
  <2>1. w.cap = b.cap /\ w.data = b.data /\ w.len = 1
    <3>1. 0 + 1 \in 0..(Limit - 1)
      BY BuffersAssumption DEF Limit
    <3>2. (0 + 1) % Limit = 1
      BY <3>1, NoWrap
    <3> QED
      BY <1>1, <3>2 DEF WithLen, Buffer
  <2>2. MayGrow(w) = w
    <3> HIDE DEF w
    <3> QED
      BY <1>1, <2>1 DEF MayGrow
  <2>3. VecInsertItem(b, i, v) = Write(m, i, v)
    BY <2>2 DEF VecInsertItem
  <2>4. DOMAIN m.data = {}
    <3> HIDE DEF w
    <3> QED
      BY <1>1, <2>1 DEF Move, Buffer
  <2> HIDE DEF m
  <2> QED
    BY <1>2, <2>3, <2>4
<1>7. ASSUME NEW i \in Indices, ~(Signed(i) > Signed(b.cap))
      PROVE  ~VecRemove(b, i).ok
  <2> DEFINE n == (b.len - i) % Limit
             m == Move(b, i, i + 1, n)
  <2>1. i \in Half..(Limit - 1)
    BY <1>1, <1>7, BuffersAssumption DEF Indices, Signed, Limit
  <2>2. n > 0
    <3>1. 0 - i \in (-Limit)..(-1)
      BY <2>1, BuffersAssumption DEF Limit
    <3>2. n = 0 - i + Limit
      BY <1>1, <3>1, Wraps
    <3> QED
      BY <2>1, <3>2, BuffersAssumption DEF Limit
  <2> HIDE DEF n
  <2>3. ~m.ok
    BY <1>1, <2>2 DEF Move, Buffer
  <2>4. VecRemove(b, i) = WithLen(m, (b.len - 1) % Limit)
    BY DEF VecRemove, n
  <2> HIDE DEF m
  <2> QED
    BY <2>3, <2>4 DEF WithLen, Buffer
<1> QED
  BY <1>3, <1>4, <1>5, <1>6, <1>7

-----------------------------------------------------------------------------
(* Both ways of making a String, and both of making a Vec, fit their block,*)
(* or have none.                                                           *)
LEMMA InitInv == BuffersInit => Inv
<1> SUFFICES ASSUME BuffersInit PROVE Inv
  OBVIOUS
<1>1. ASSUME NEW n \in 0..(Limit - 1), list = <<>>,
             buf = Buffer([k \in Block(n) |-> Fresh], 0, n, TRUE)
      PROVE  Fits(buf, list) \/ Unmade(buf, list)
  <2>1. CASE n < Half
    <3>1. Block(n) = 1..n
      BY <2>1, BuffersAssumption DEF Block
    <3> QED
      BY <1>1, <2>1, <3>1, BuffersAssumption DEF Fits, Buffer
  <2>2. CASE ~(n < Half)
    <3>1. Block(n) = {}
      BY <2>2, BuffersAssumption DEF Block
    <3>2. n \in Half..(Limit - 1)
      BY <2>2, BuffersAssumption DEF Limit
    <3> QED
      BY <1>1, <3>1, <3>2 DEF Unmade, Buffer
  <2> QED
    BY <2>1, <2>2
<1>2. ASSUME NEW s \in Texts, buf = StringFrom(s), list = s
      PROVE  Fits(buf, list)
  BY <1>2, BuffersAssumption DEF Fits, StringFrom, Buffer
<1>3. ASSUME buf = VecNew, list = <<>>
      PROVE  Fits(buf, list)
  BY <1>3, BuffersAssumption DEF Fits, VecNew, Buffer
<1>4. Fits(buf, list) \/ Unmade(buf, list)
  BY <1>1, <1>2, <1>3, BuffersAssumption
     DEF BuffersInit, StringNew, VecWithSize, Malloc
<1> QED
  <2>1. list \in Seq(Values)
    <3>1. list = <<>> \/ list \in Texts
      BY DEF BuffersInit
    <3>2. <<>> \in Seq(Values)
      OBVIOUS
    <3>3. Texts \subseteq Seq(Values)
      BY BuffersAssumption
    <3> QED
      BY <3>1, <3>2, <3>3, Zenon
  <2>2. rest = <<>> /\ rest \in Seq(Values)
    BY DEF BuffersInit
  <2> QED
    BY <1>4, <2>1, <2>2 DEF Inv

LEMMA FrontSeq ==
  ASSUME NEW l \in Seq(Values)
  PROVE  Front(l) \in Seq(Values)
<1>1. CASE l = <<>>
  <2>1. Front(l) = SubSeq(l, 1, Len(l) - 1)
    BY DEF Front
  <2>2. Len(l) - 1 = -1
    BY <1>1
  <2>3. SubSeq(l, 1, -1) = <<>>
    BY <1>1
  <2> QED
    BY <2>1, <2>2, <2>3
<1>2. CASE l # <<>>
  BY <1>2, FrontElements
<1> QED
  BY <1>1, <1>2

(* An operation on a buffer malloc had no block for leaves the block. *)
LEMMA UnmadeStep ==
  ASSUME buf.ok, Unmade(buf, list), BuffersNext, ~BeginPushStr
  PROVE  ~buf'.ok /\ Leaves(last', Len(list), buf.cap)
<1>1. buf.cap >= Half /\ Len(list) = 0
  BY BuffersAssumption DEF Unmade, Limit
<1>2. CASE DoStringPush \/ TurnPushStr \/ DoVecPush
  <2>1. last'.op = "push" /\ ~buf'.ok
    BY <1>2, UnmadeLeaves DEF DoStringPush, TurnPushStr, DoVecPush, Does, Op
  <2> QED
    BY <1>1, <2>1 DEF Leaves
<1>3. CASE DoStringClone
  <2>1. last'.op = "clone" /\ ~buf'.ok
    BY <1>3, UnmadeLeaves DEF DoStringClone, Does
  <2> QED
    BY <1>1, <2>1 DEF Leaves
<1>4. CASE DoVecPop
  <2>1. last'.op = "pop" /\ ~buf'.ok
    BY <1>4, UnmadeLeaves DEF DoVecPop, Does, Op
  <2> QED
    BY <1>1, <2>1 DEF Leaves
<1>5. CASE DoVecInsertItem
  <2>1. last'.op = "insert_item" /\ ~buf'.ok
    BY <1>5, UnmadeLeaves DEF DoVecInsertItem, Does, Strays, OpAt
  <2> QED
    BY <1>1, <2>1 DEF Leaves
<1>6. CASE DoVecRemove
  <2>1. last'.op = "remove" /\ ~buf'.ok
    BY <1>6, UnmadeLeaves DEF DoVecRemove, Does, Strays, OpAt
  <2> QED
    BY <1>1, <2>1 DEF Leaves
<1> QED
  BY <1>2, <1>3, <1>4, <1>5, <1>6 DEF BuffersNext

(* Every operation keeps them there. *)
LEMMA StepInv == Inv /\ [BuffersNext]_bufferVars => Inv'
<1> SUFFICES ASSUME Inv, [BuffersNext]_bufferVars PROVE Inv'
  OBVIOUS
<1>0. /\ list \in Seq(Values) /\ rest \in Seq(Values)
      /\ rest # <<>> => ~misuse
      /\ buf.ok /\ ~misuse => Fits(buf, list) \/ Unmade(buf, list)
  BY DEF Inv
<1>1. CASE UNCHANGED bufferVars
  BY <1>1 DEF Inv, bufferVars
<1>2. CASE BeginPushStr
  BY <1>2, <1>0, BuffersAssumption DEF Inv, BeginPushStr, Usable
<1>3. CASE BuffersNext /\ ~BeginPushStr
  <2>1. buf.ok /\ ~misuse
    BY <1>3, <1>0 DEF BuffersNext, DoStringPush, TurnPushStr, DoStringClone, DoVecPush,
                      DoVecPop, DoVecInsertItem, DoVecRemove, Usable
  <2>2. list' \in Seq(Values) /\ rest' \in Seq(Values) /\ (rest' # <<>> => ~misuse')
    <3>1. CASE DoStringPush
      BY <1>0, <2>1, <3>1 DEF DoStringPush, Does, Usable
    <3>2. CASE TurnPushStr
      BY <1>0, <2>1, <3>2 DEF TurnPushStr
    <3>3. CASE DoStringClone
      BY <1>0, <2>1, <3>3 DEF DoStringClone, Does, Usable
    <3>4. CASE DoVecPush
      BY <1>0, <2>1, <3>4 DEF DoVecPush, Does, Usable
    <3>5. CASE DoVecPop
      BY <1>0, <2>1, <3>5, FrontSeq DEF DoVecPop, Does, Usable
    <3>6. CASE DoVecInsertItem
      <4>1. PICK i \in Indices, v \in Values :
              IF i <= Len(list) THEN Does(OpAt("insert_item", i), VecInsertItem(buf, i, v), InsertAt(list, i + 1, v))
              ELSE Strays(OpAt("insert_item", i), VecInsertItem(buf, i, v))
        BY <3>6 DEF DoVecInsertItem
      <4>2. i \in Nat /\ rest = <<>>
        BY <3>6, BuffersAssumption DEF Indices, Limit, DoVecInsertItem, Usable
      <4>3. CASE i <= Len(list)
        <5>1. i \in 0..Len(list)
          BY <1>0, <4>2, <4>3
        <5>2. InsertAt(list, i + 1, v) \in Seq(Values)
          BY <1>0, <5>1, InsertAtElements
        <5> QED
          BY <1>0, <2>1, <4>1, <4>2, <4>3, <5>2 DEF Does
      <4>4. CASE ~(i <= Len(list))
        BY <1>0, <4>1, <4>2, <4>4 DEF Strays
      <4> QED
        BY <4>3, <4>4
    <3>7. CASE DoVecRemove
      <4>1. PICK i \in Indices :
              IF i < Len(list) THEN Does(OpAt("remove", i), VecRemove(buf, i), RemoveAt(list, i + 1))
              ELSE Strays(OpAt("remove", i), VecRemove(buf, i))
        BY <3>7 DEF DoVecRemove
      <4>2. i \in Nat /\ rest = <<>>
        BY <3>7, BuffersAssumption DEF Indices, Limit, DoVecRemove, Usable
      <4>3. CASE i < Len(list)
        <5>1. i \in 0..(Len(list) - 1)
          BY <1>0, <4>2, <4>3
        <5>2. RemoveAt(list, i + 1) \in Seq(Values)
          BY <1>0, <5>1, RemoveAtElements
        <5> QED
          BY <1>0, <2>1, <4>1, <4>2, <4>3, <5>2 DEF Does
      <4>4. CASE ~(i < Len(list))
        BY <1>0, <4>1, <4>2, <4>4 DEF Strays
      <4> QED
        BY <4>3, <4>4
    <3> QED
      BY <1>3, <3>1, <3>2, <3>3, <3>4, <3>5, <3>6, <3>7 DEF BuffersNext
  <2>3. ASSUME buf'.ok, ~misuse'
        PROVE  Fits(buf', list')
    <3>0. Fits(buf, list)
      BY <1>0, <1>3, <2>1, <2>3, UnmadeStep
    <3>1. CASE DoStringPush
      BY <1>0, <2>3, <3>0, <3>1, StringPushFits DEF DoStringPush, Does
    <3>2. CASE TurnPushStr
      <4>1. Head(rest) \in Values
        BY <1>0, <3>2 DEF TurnPushStr
      <4> QED
        BY <1>0, <2>3, <3>0, <3>2, <4>1, StringPushFits DEF TurnPushStr
    <3>3. CASE DoStringClone
      BY <1>0, <3>0, <3>3, StringCloneFits DEF DoStringClone, Does
    <3>4. CASE DoVecPush
      BY <1>0, <2>3, <3>0, <3>4, VecPushFits DEF DoVecPush, Does
    <3>5. CASE DoVecPop
      <4>1. buf' = VecPop(buf) /\ list' = Front(list)
        BY <3>5 DEF DoVecPop, Does
      <4>2. list # <<>>
        BY <1>0, <2>1, <2>3, <3>0, <4>1, VecPopStays
      <4> QED
        BY <1>0, <3>0, <4>1, <4>2, VecPopFits
    <3>6. CASE DoVecInsertItem
      <4>1. PICK i \in Indices, v \in Values :
              IF i <= Len(list) THEN Does(OpAt("insert_item", i), VecInsertItem(buf, i, v), InsertAt(list, i + 1, v))
              ELSE Strays(OpAt("insert_item", i), VecInsertItem(buf, i, v))
        BY <3>6 DEF DoVecInsertItem
      <4>2. i <= Len(list)
        BY <2>3, <4>1 DEF Strays
      <4>3. i \in 0..Len(list)
        BY <1>0, <4>2, BuffersAssumption DEF Indices, Limit
      <4>4. buf' = VecInsertItem(buf, i, v) /\ list' = InsertAt(list, i + 1, v)
        BY <4>1, <4>2 DEF Does
      <4> QED
        BY <1>0, <2>3, <3>0, <4>3, <4>4, VecInsertItemFits
    <3>7. CASE DoVecRemove
      <4>1. PICK i \in Indices :
              IF i < Len(list) THEN Does(OpAt("remove", i), VecRemove(buf, i), RemoveAt(list, i + 1))
              ELSE Strays(OpAt("remove", i), VecRemove(buf, i))
        BY <3>7 DEF DoVecRemove
      <4>2. i < Len(list)
        BY <2>3, <4>1 DEF Strays
      <4>3. i \in 0..(Len(list) - 1)
        BY <1>0, <4>2, BuffersAssumption DEF Indices, Limit
      <4>4. buf' = VecRemove(buf, i) /\ list' = RemoveAt(list, i + 1)
        BY <4>1, <4>2 DEF Does
      <4> QED
        BY <1>0, <2>3, <3>0, <4>3, <4>4, VecRemoveFits
    <3> QED
      BY <1>3, <3>1, <3>2, <3>3, <3>4, <3>5, <3>6, <3>7 DEF BuffersNext
  <2> QED
    BY <2>2, <2>3 DEF Inv
<1> QED
  BY <1>1, <1>2, <1>3

LEMMA AlwaysInv == BuffersSpec => []Inv
  BY InitInv, StepInv, PTL DEF BuffersSpec

(***************************************************************************)
(* len and cap of a String or a Vec describe its block, over any sequence  *)
(* of new, from, push, push_str, clone, pop, insert_item and remove, for   *)
(* any width of the integers and any capacities and texts (string.ly,      *)
(* vec.ly), until an operation leaves the block.                           *)
(***************************************************************************)
THEOREM BufferFits == BuffersSpec => []LenWithinBlock
<1>1. Inv => LenWithinBlock
  <2>1. ASSUME Fits(buf, list)
        PROVE  DOMAIN buf.data = Block(buf.cap) /\ 1..buf.len \subseteq DOMAIN buf.data
    BY <2>1, BuffersAssumption DEF Inv, Fits, Block
  <2>2. ASSUME Unmade(buf, list)
        PROVE  DOMAIN buf.data = Block(buf.cap) /\ 1..buf.len \subseteq DOMAIN buf.data
    BY <2>2, BuffersAssumption DEF Unmade, Block, Limit
  <2> QED
    BY <2>1, <2>2 DEF Inv, LenWithinBlock
<1> QED
  BY <1>1, AlwaysInv, PTL

(***************************************************************************)
(* The buffer holds the sequence the program has made with those           *)
(* operations, through every reallocation and move (string.ly, vec.ly).    *)
(***************************************************************************)
THEOREM BufferIsSequence == BuffersSpec => []ActsAsSequence
<1>1. Inv => ActsAsSequence
  BY BuffersAssumption DEF Inv, Fits, Unmade, ActsAsSequence
<1> QED
  BY <1>1, AlwaysInv, PTL

(* The same of the steps of a buffer that fits its block. *)
LEMMA FitStep ==
  ASSUME Inv, buf.ok, Fits(buf, list), BuffersNext, ~BeginPushStr
  PROVE  last'.op # "format" /\ (~buf'.ok <=> Leaves(last', Len(list), buf.cap))
<1>0. list \in Seq(Values)
  BY DEF Inv
<1>1. buf.cap \in 0..(Half - 1) /\ ~(buf.cap >= Half)
  BY BuffersAssumption DEF Fits
<1>2. CASE DoStringPush \/ TurnPushStr \/ DoVecPush
  <2>1. last'.op = "push" /\ (buf'.ok <=> ~(Len(list) = buf.cap /\ 2 * buf.cap >= Half))
    BY <1>0, <1>2, StringPushStays, VecPushStays DEF DoStringPush, TurnPushStr, DoVecPush, Does, Op
  <2> QED
    BY <1>1, <2>1 DEF Leaves
<1>3. CASE DoStringClone
  <2>1. PICK stops \in BOOLEAN :
          last' = [op |-> "clone", stops |-> stops] /\ buf' = StringClone(buf, stops)
    BY <1>3 DEF DoStringClone, Does
  <2>2. last'.op = "clone" /\ last'.stops = stops
    BY <2>1
  <2>3. buf'.ok <=> ~(Len(list) = buf.cap \/ ~stops)
    BY <1>0, <2>1, StringCloneStays
  <2> QED
    BY <1>1, <2>2, <2>3 DEF Leaves
<1>4. CASE DoVecPop
  <2>1. last'.op = "pop" /\ (buf'.ok <=> Len(list) # 0)
    BY <1>0, <1>4, VecPopStays DEF DoVecPop, Does, Op
  <2> QED
    BY <2>1 DEF Leaves
<1>5. CASE DoVecInsertItem
  <2>1. PICK i \in Indices, v \in Values :
          last' = OpAt("insert_item", i) /\ buf' = VecInsertItem(buf, i, v)
    BY <1>5 DEF DoVecInsertItem, Does, Strays
  <2>2. last'.op = "insert_item" /\ last'.index = i
    BY <2>1 DEF OpAt
  <2>3. i \in Nat
    BY BuffersAssumption DEF Indices, Limit
  <2>4. buf'.ok <=> ~(\/ i > Len(list) + 1
                      \/ Len(list) = buf.cap /\ buf.cap > 0
                      \/ Len(list) + 1 = buf.cap /\ 2 * buf.cap >= Half)
    BY <1>0, <2>1, <2>3, VecInsertItemStays
  <2> QED
    BY <1>1, <2>2, <2>4 DEF Leaves
<1>6. CASE DoVecRemove
  <2>1. PICK i \in Indices : last' = OpAt("remove", i) /\ buf' = VecRemove(buf, i)
    BY <1>6 DEF DoVecRemove, Does, Strays
  <2>2. last'.op = "remove" /\ last'.index = i
    BY <2>1 DEF OpAt
  <2>3. buf'.ok <=> ~(i > Len(list) \/ (Len(list) = buf.cap /\ i < Len(list)))
    BY <1>0, <2>1, VecRemoveStays
  <2> QED
    BY <1>1, <2>2, <2>3 DEF Leaves
<1> QED
  BY <1>2, <1>3, <1>4, <1>5, <1>6 DEF BuffersNext

(***************************************************************************)
(* An operation of a String or a Vec leaves its block in exactly the cases *)
(* that Leaves lists, after any sequence of operations that stayed inside  *)
(* it, and for any capacities, texts and indices (string.ly, vec.ly).      *)
(***************************************************************************)
THEOREM BlockIsLeftExactly == BuffersSpec => LeavesBlockExactlyWhen
<1> DEFINE Exact == IF last'.op = "format" THEN ~buf'.ok => 2 * Len(list') > Half
                    ELSE ~buf'.ok <=> Leaves(last', Len(list), buf.cap)
<1>1. ASSUME Inv, BuffersNext
      PROVE  Exact
  <2>1. buf.ok /\ ~misuse
    BY <1>1 DEF Inv, BuffersNext, DoStringPush, BeginPushStr, TurnPushStr, DoStringClone,
                DoVecPush, DoVecPop, DoVecInsertItem, DoVecRemove, Usable
  <2>2. CASE BeginPushStr
    <3>1. last'.op = "push_str" /\ buf'.ok
      BY <2>1, <2>2 DEF BeginPushStr, Op
    <3> QED
      BY <3>1 DEF Leaves
  <2>3. CASE Fits(buf, list) /\ ~BeginPushStr
    BY <1>1, <2>1, <2>3, FitStep
  <2>4. CASE Unmade(buf, list) /\ ~BeginPushStr
    <3>1. ~buf'.ok /\ Leaves(last', Len(list), buf.cap)
      BY <1>1, <2>1, <2>4, UnmadeStep
    <3>2. last'.op # "format"
      BY <3>1 DEF Leaves
    <3> QED
      BY <3>1, <3>2
  <2> QED
    BY <1>1, <2>1, <2>2, <2>3, <2>4 DEF Inv
<1>2. Inv /\ [BuffersNext]_bufferVars => [Exact]_bufferVars
  BY <1>1
<1> HIDE DEF Exact
<1>3. BuffersSpec => [][Exact]_bufferVars
  BY <1>2, AlwaysInv, PTL DEF BuffersSpec
<1> QED
  BY <1>3 DEF LeavesBlockExactlyWhen, Exact

-----------------------------------------------------------------------------
(* The hash map: StringMap. *)

Node == [key : Keys, value : MapValues, next : Nat]
Buckets == 0..(Size - 1)

(* The bucket a node belongs to. *)
Home(e) == Bucket[nodes[e].key]

Heap ==
  /\ nodes \in Seq(Node)
  /\ table \in [Buckets -> 0..Len(nodes)]
  /\ \A e \in DOMAIN nodes : Home(e) \in Buckets /\ nodes[e].next \in 0..Len(nodes)
  /\ answer \in 0..Len(nodes)
  /\ outside \in Keys \cup {Missing}
  /\ outside # Missing => Bucket[outside] \notin Buckets

Chains ==
  /\ \A e, f \in DOMAIN nodes : nodes[e].key = nodes[f].key => e = f
  /\ \A b \in Buckets : table[b] # 0 => Home(table[b]) = b
  /\ \A e \in DOMAIN nodes : table[Home(e)] # 0 /\ table[Home(e)] <= e
  /\ \A e \in DOMAIN nodes :
       nodes[e].next # 0 => e < nodes[e].next /\ Home(nodes[e].next) = Home(e)
  /\ \A e, f \in DOMAIN nodes :
       e < f /\ Home(e) = Home(f) => nodes[e].next # 0 /\ nodes[e].next <= f

Calls == [op : {"insert", "get", "contains"}, key : Keys, value : MapValues \cup {Missing},
          bucket : Buckets, prev : Nat, entry : Nat]
Calling ==
  call # Idle =>
    /\ call \in Calls
    /\ call.op = "insert" => call.value \in MapValues
    /\ call.bucket = Bucket[call.key]
    /\ call.entry <= Len(nodes)
    /\ call.entry # 0 => Home(call.entry) = call.bucket
    /\ call.prev = 0 => call.entry = table[call.bucket]
    /\ call.prev # 0 => /\ call.prev \in DOMAIN nodes /\ Home(call.prev) = call.bucket
                        /\ nodes[call.prev].next = call.entry
    /\ \A e \in DOMAIN nodes : nodes[e].key = call.key => call.entry # 0 /\ call.entry <= e

Mapping == Heap /\ Chains /\ Calling

-----------------------------------------------------------------------------
(* Induction over the turns of a loop. *)
LEMMA Least ==
  ASSUME NEW T, T \subseteq Nat, T # {}
  PROVE  \E n \in T : \A m \in T : n <= m
<1>1. IsWellFoundedOn({ss \in Nat \X Nat : ss[1] < ss[2]}, Nat)
  BY NatLessThanWellFounded DEF OpToRel
<1>2. PICK x \in T : \A y \in T : <<y, x>> \notin {ss \in Nat \X Nat : ss[1] < ss[2]}
  BY <1>1, WFMin
<1>3. \A y \in T : ~(y < x)
  BY <1>2
<1>4. QED
  BY <1>3

LEMMA Upward ==
  ASSUME NEW T, NEW l \in Nat, 0 \in T, \A n \in 1..l : n - 1 \in T => n \in T
  PROVE  0..l \subseteq T
<1> DEFINE B == (0..l) \ T
<1>1. SUFFICES ASSUME B # {} PROVE FALSE
  OBVIOUS
<1>2. PICK n \in B : \A m \in B : n <= m
  <2>1. B \subseteq Nat
    OBVIOUS
  <2>2. QED
    BY <1>1, <2>1, Least
<1>3. n \in 1..l /\ n - 1 \in 0..l /\ ~(n <= n - 1)
  BY <1>2
<1>4. n - 1 \in T
  BY <1>2, <1>3
<1>5. QED
  BY <1>2, <1>3, <1>4

(***************************************************************************)
(* What l turns of a loop make of start: F[n] is what turn n does to the   *)
(* values of S.                                                            *)
(***************************************************************************)
Turns(f, F, S, start, l) ==
  /\ f \in [0..l -> S]
  /\ f[0] = start
  /\ \A n \in 1..l : f[n] = F[n][f[n - 1]]
TurnsWithin(g, F, S, start, l) ==
  g[0] = start /\ \A n \in 1..l : g[n - 1] \in S => g[n] = F[n][g[n - 1]]

LEMMA LoopExists ==
  ASSUME NEW S, NEW F \in [Nat -> [S -> S]], NEW start \in S, NEW l \in Nat
  PROVE  \E f : Turns(f, F, S, start, l)
<1> DEFINE T == {k \in Nat : \E f : Turns(f, F, S, start, k)}
<1>1. 0 \in T
  <2> DEFINE f == [n \in 0..0 |-> start]
  <2>1. Turns(f, F, S, start, 0)
    BY DEF Turns
  <2>2. QED
    BY <2>1
<1>2. ASSUME NEW k \in 1..l, k - 1 \in T
      PROVE  k \in T
  <2>1. PICK f : Turns(f, F, S, start, k - 1)
    BY <1>2
  <2> DEFINE g == [n \in 0..k |-> IF n = k THEN F[k][f[k - 1]] ELSE f[n]]
  <2>2. f \in [0..(k - 1) -> S] /\ F[k] \in [S -> S] /\ f[k - 1] \in S
    BY <2>1 DEF Turns
  <2>3. g \in [0..k -> S]
    BY <2>2
  <2>4. g[0] = start
    BY <2>1 DEF Turns
  <2>5. ASSUME NEW n \in 1..k PROVE g[n] = F[n][g[n - 1]]
    <3>1. n - 1 \in 0..(k - 1) /\ n \in 0..k /\ n - 1 # k /\ n - 1 \in 0..k
      OBVIOUS
    <3>2. g[n - 1] = f[n - 1]
      BY <3>1
    <3>3. CASE n = k
      BY <3>1, <3>2, <3>3
    <3>4. CASE n # k
      <4>1. n \in 1..(k - 1) /\ g[n] = f[n]
        BY <3>1, <3>4
      <4>2. QED
        BY <2>1, <3>2, <4>1 DEF Turns
    <3>5. QED
      BY <3>3, <3>4
  <2> HIDE DEF g
  <2>6. Turns(g, F, S, start, k) /\ k \in Nat
    <3>1. k \in Nat
      OBVIOUS
    <3>2. QED
      BY <2>3, <2>4, <2>5, <3>1 DEF Turns
  <2>7. QED
    BY <2>6
<1> HIDE DEF T
<1>3. 0..l \subseteq T
  BY <1>1, <1>2, Upward
<1>4. l \in T
  BY <1>3
<1>5. QED
  BY <1>4 DEF T

LEMMA LoopUnique ==
  ASSUME NEW S, NEW F, NEW start, NEW l \in Nat, NEW f, Turns(f, F, S, start, l),
         NEW g, TurnsWithin(g, F, S, start, l)
  PROVE  \A n \in 0..l : g[n] = f[n]
<1> DEFINE T == {n \in 0..l : g[n] = f[n]}
<1>1. 0 \in T
  BY DEF Turns, TurnsWithin
<1>2. ASSUME NEW n \in 1..l, n - 1 \in T
      PROVE  n \in T
  <2>1. n - 1 \in 0..l /\ n \in 0..l /\ g[n - 1] = f[n - 1]
    BY <1>2
  <2>2. f[n - 1] \in S
    BY <2>1 DEF Turns
  <2>3. g[n] = F[n][f[n - 1]] /\ f[n] = F[n][f[n - 1]]
    BY <2>1, <2>2 DEF Turns, TurnsWithin
  <2>4. QED
    BY <2>1, <2>3
<1> HIDE DEF T
<1>3. 0..l \subseteq T
  BY <1>1, <1>2, Upward
<1>4. QED
  BY <1>3 DEF T

-----------------------------------------------------------------------------
(* The hash of letters. *)
Letters(key) == \A n \in DOMAIN key : Code[key[n]] > 0
State == [value : Nat, pow : Nat]

LEMMA RemNat ==
  ASSUME NEW a \in Nat, NEW b \in Nat \ {0}
  PROVE  Rem(a, b) \in 0..(b - 1)
BY DEF Rem

LEMMA TurnNat ==
  ASSUME NEW x \in State, NEW c, Code[c] \in Int, Code[c] > 0
  PROVE  Turn(x, c) \in State
<1> USE MapAssumption DEF MapAssumption
<1>1. x.value \in Nat /\ x.pow \in Nat /\ Code[c] \in Nat
  BY DEF State
<1>2. \A a, b \in Nat : a * b \in Nat
  OBVIOUS
<1>3. Code[c] * x.pow \in Nat /\ x.pow * P \in Nat
  BY <1>1, <1>2
<1>4. x.value + Code[c] * x.pow \in Nat
  BY <1>1, <1>3
<1>5. Rem(x.value + Code[c] * x.pow, M) \in Nat /\ Rem(x.pow * P, M) \in Nat
  BY <1>3, <1>4, RemNat
<1>6. QED
  BY <1>5 DEF Turn, State

LEMMA HashNat ==
  ASSUME NEW key \in Keys, Letters(key)
  PROVE  Hash(key) \in Nat
<1> DEFINE l == Len(key)
           start == [value |-> 0, pow |-> 1]
           F == [n \in Nat |-> [x \in State |-> IF n \in 1..l THEN Turn(x, key[n]) ELSE x]]
<1>1. l \in Nat /\ DOMAIN key = 1..l /\ \A n \in 1..l : key[n] \in DOMAIN Code
  BY MapAssumption DEF MapAssumption
<1>2. \A n \in 1..l : Code[key[n]] \in Int /\ Code[key[n]] > 0
  BY <1>1, MapAssumption DEF MapAssumption, Letters
<1>3. \A n \in Nat, x \in State : (IF n \in 1..l THEN Turn(x, key[n]) ELSE x) \in State
  BY <1>2, TurnNat
<1>4. F \in [Nat -> [State -> State]]
  BY <1>3
<1>5. start \in State
  BY DEF State
<1>6. \A n \in 1..l, x \in State : F[n][x] = Turn(x, key[n])
  BY <1>1
<1> HIDE DEF F, start
<1>7. PICK f : Turns(f, F, State, start, l)
  BY <1>1, <1>4, <1>5, LoopExists
<1>70. f \in [0..l -> State]
  BY <1>7 DEF Turns
<1>8. f = [n \in 0..l |-> IF n = 0 THEN start ELSE Turn(f[n - 1], key[n])]
  <2>1. ASSUME NEW n \in 0..l
        PROVE  f[n] = IF n = 0 THEN start ELSE Turn(f[n - 1], key[n])
    <3>1. n # 0 => n \in 1..l /\ f[n - 1] \in State
      BY <1>1, <1>70
    <3>2. QED
      BY <1>6, <1>7, <3>1 DEF Turns
  <2>2. QED
    BY <1>70, <2>1
<1>9. PICK g : /\ g = [n \in 0..l |-> IF n = 0 THEN start ELSE Turn(g[n - 1], key[n])]
               /\ Hash(key) = g[l].value
  BY <1>8 DEF Hash, start
<1>10. g[l] = f[l]
  <2>1. g[0] = start
    BY <1>1, <1>9
  <2>2. \A n \in 1..l : g[n - 1] \in State => g[n] = F[n][g[n - 1]]
    <3>1. \A n \in 1..l : n \in 0..l /\ n # 0
      BY <1>1
    <3>2. QED
      BY <1>6, <1>9, <3>1
  <2>3. TurnsWithin(g, F, State, start, l)
    BY <2>1, <2>2 DEF TurnsWithin
  <2>4. \A n \in 0..l : g[n] = f[n]
    BY <1>1, <1>7, <2>3, LoopUnique
  <2>5. QED
    BY <1>1, <2>4
<1>11. f[l] \in State
  BY <1>1, <1>70
<1>12. QED
  BY <1>9, <1>10, <1>11 DEF State

LEMMA BucketOfLetters ==
  ASSUME NEW key \in Keys, Letters(key)
  PROVE  Bucket[key] \in Buckets
<1>1. Hash(key) \in Nat
  BY HashNat
<1>2. Rem(Hash(key), Size) \in 0..(Size - 1)
  BY <1>1, RemNat, MapAssumption DEF MapAssumption
<1>3. QED
  BY <1>2 DEF Bucket, Buckets

-----------------------------------------------------------------------------
(* Where a walk for a key ends. *)
LEMMA SearchEnds ==
  ASSUME Heap, NEW key, Bucket[key] \in Buckets
  PROVE  \E f \in [0..Len(nodes) -> 0..Len(nodes)] :
           /\ f[0] = table[Bucket[key]]
           /\ \A n \in 1..Len(nodes) : f[n] = Past(f[n - 1], key)
           /\ Search(key) = f[Len(nodes)]
<1> DEFINE l == Len(nodes)
           S == 0..l
           start == table[Bucket[key]]
           F == [n \in Nat |-> [e \in S |-> Past(e, key)]]
<1>1. l \in Nat /\ DOMAIN nodes = 1..l /\ start \in S
  BY DEF Heap
<1>2. \A e \in S : Past(e, key) \in S
  <2>1. \A e \in S : e # 0 => e \in DOMAIN nodes
    BY <1>1
  <2>2. \A e \in S : e # 0 => nodes[e].next \in S
    BY <2>1 DEF Heap
  <2>3. QED
    BY <2>2 DEF Past, IsValidEntry
<1>3. F \in [Nat -> [S -> S]]
  BY <1>2
<1>4. \A n \in 1..l, e \in S : F[n][e] = Past(e, key)
  BY <1>1
<1> HIDE DEF F, S
<1>5. PICK f : Turns(f, F, S, start, l)
  BY <1>1, <1>3, LoopExists
<1>50. f \in [0..l -> S]
  BY <1>5 DEF Turns
<1>6. \A n \in 1..l : f[n - 1] \in S /\ n # 0
  BY <1>1, <1>50
<1>7. f = [n \in 0..l |-> IF n = 0 THEN start ELSE Past(f[n - 1], key)]
  <2>1. ASSUME NEW n \in 0..l
        PROVE  f[n] = IF n = 0 THEN start ELSE Past(f[n - 1], key)
    <3>1. n # 0 => n \in 1..l
      BY <1>1
    <3>2. QED
      BY <1>4, <1>5, <1>6, <3>1 DEF Turns
  <2>2. QED
    BY <1>50, <2>1
<1>8. PICK g : /\ g = [n \in 0..l |-> IF n = 0 THEN start ELSE Past(g[n - 1], key)]
               /\ Search(key) = g[l]
  BY <1>7 DEF Search
<1>9. g[l] = f[l]
  <2>1. g[0] = start
    BY <1>1, <1>8
  <2>2. \A n \in 1..l : g[n - 1] \in S => g[n] = F[n][g[n - 1]]
    <3>1. \A n \in 1..l : n \in 0..l /\ n # 0
      BY <1>1
    <3>2. QED
      BY <1>4, <1>8, <3>1
  <2>3. TurnsWithin(g, F, S, start, l)
    BY <2>1, <2>2 DEF TurnsWithin
  <2>4. \A n \in 0..l : g[n] = f[n]
    BY <1>1, <1>5, <2>3, LoopUnique
  <2>5. QED
    BY <1>1, <2>4
<1>10. f[0] = start /\ \A n \in 1..l : f[n] = Past(f[n - 1], key)
  BY <1>4, <1>5, <1>6 DEF Turns
<1>11. QED
  BY <1>50, <1>8, <1>9, <1>10 DEF S

(* In ordered chains a walk for a key ends at its node, or past the chain. *)
LEMMA SearchFinds ==
  ASSUME Heap, Chains, NEW key \in Keys, Bucket[key] \in Buckets
  PROVE  /\ \A e \in DOMAIN nodes : nodes[e].key = key => Search(key) = e
         /\ (\A e \in DOMAIN nodes : nodes[e].key # key) => Search(key) = 0
<1> DEFINE l == Len(nodes)
           b == Bucket[key]
<1>1. l \in Nat /\ DOMAIN nodes = 1..l
  BY DEF Heap
<1>2. PICK f \in [0..l -> 0..l] : /\ f[0] = table[b]
                                  /\ \A n \in 1..l : f[n] = Past(f[n - 1], key)
                                  /\ Search(key) = f[l]
  BY SearchEnds
(* After n turns the walk has left n nodes behind, none with the key. *)
<1> DEFINE OnTheWay(n, e) ==
             /\ e # 0 => Home(e) = b
             /\ \A a \in DOMAIN nodes : nodes[a].key = key => e # 0 /\ e <= a
             /\ e # 0 /\ nodes[e].key # key => n < e
           T == {n \in 0..l : OnTheWay(n, f[n])}
<1>3. 0 \in T
  <2>1. f[0] # 0 => Home(f[0]) = b
    BY <1>2 DEF Chains
  <2>2. \A a \in DOMAIN nodes : nodes[a].key = key => f[0] # 0 /\ f[0] <= a
    BY <1>2 DEF Chains, Home
  <2>3. f[0] # 0 => 0 < f[0]
    BY <1>1, <1>2
  <2>4. QED
    BY <1>1, <2>1, <2>2, <2>3
<1>4. ASSUME NEW n \in 1..l, n - 1 \in T
      PROVE  n \in T
  <2> DEFINE e == f[n - 1]
  <2>1. /\ e \in 0..l /\ f[n] = Past(e, key) /\ n \in 0..l
        /\ OnTheWay(n - 1, e)
    BY <1>1, <1>2, <1>4
  <2>2. CASE e = 0 \/ nodes[e].key = key
    <3>1. f[n] = e
      BY <2>1, <2>2 DEF Past, IsValidEntry
    <3>2. OnTheWay(n, e)
      BY <2>1, <2>2
    <3>3. QED
      BY <2>1, <3>1, <3>2
  <2>3. CASE e # 0 /\ nodes[e].key # key
    <3> DEFINE x == nodes[e].next
    <3>1. f[n] = x /\ e \in DOMAIN nodes /\ e \in 1..l
      BY <1>1, <2>1, <2>3 DEF Past, IsValidEntry
    <3>2. x # 0 => e < x /\ Home(x) = b
      BY <2>1, <2>3, <3>1 DEF Chains
    <3>3. ASSUME NEW a \in DOMAIN nodes, nodes[a].key = key
          PROVE  x # 0 /\ x <= a
      <4>1. e <= a /\ e # a
        BY <2>1, <2>3, <3>3
      <4>2. a \in Nat /\ e \in Nat
        BY <1>1, <3>1
      <4>3. e < a
        BY <4>1, <4>2
      <4>4. Home(a) = Home(e)
        BY <2>1, <2>3, <3>3 DEF Home
      <4>5. QED
        BY <3>1, <4>3, <4>4 DEF Chains
    <3>4. x # 0 => n < x
      <4>1. n - 1 < e /\ e \in Nat /\ n \in Nat
        BY <1>1, <2>1, <2>3, <3>1
      <4>2. x \in Nat
        BY <3>1 DEF Heap
      <4>3. QED
        BY <3>2, <4>1, <4>2
    <3> HIDE DEF x
    <3>5. OnTheWay(n, x)
      BY <3>2, <3>3, <3>4
    <3>6. QED
      BY <2>1, <3>1, <3>5
  <2>4. QED
    BY <2>2, <2>3
<1> HIDE DEF T
<1>5. 0..l \subseteq T
  BY <1>1, <1>3, <1>4, Upward
<1>6. f[l] \in 0..l /\ OnTheWay(l, f[l])
  BY <1>1, <1>5 DEF T
<1>7. f[l] = 0 \/ (f[l] \in DOMAIN nodes /\ nodes[f[l]].key = key)
  BY <1>1, <1>6
<1>8. QED
  BY <1>2, <1>6, <1>7 DEF Chains

(* What the map holds, in terms of the heap. *)
LEMMA StoredIs ==
  ASSUME Heap, Chains, NEW key \in Keys
  PROVE  /\ \A e \in DOMAIN nodes : nodes[e].key = key => Stored(key) = nodes[e].value
         /\ (\A e \in DOMAIN nodes : nodes[e].key # key) => Stored(key) = Missing
<1>1. DOMAIN table = Buckets
  BY DEF Heap
<1>2. CASE Bucket[key] \in Buckets
  <2>1. \A e \in DOMAIN nodes : e # 0
    BY DEF Heap
  <2>2. QED
    BY <1>1, <1>2, <2>1, SearchFinds DEF Stored
<1>3. CASE Bucket[key] \notin Buckets
  <2>1. \A e \in DOMAIN nodes : nodes[e].key # key
    BY <1>3 DEF Heap, Home
  <2>2. QED
    BY <1>1, <1>3, <2>1 DEF Stored
<1>4. QED
  BY <1>2, <1>3

-----------------------------------------------------------------------------
LEMMA InitMapping == MapInit => Mapping
<1> SUFFICES ASSUME MapInit PROVE Mapping
  OBVIOUS
<1>1. nodes = <<>> /\ nodes \in Seq(Node) /\ Len(nodes) = 0 /\ DOMAIN nodes = {}
  BY DEF MapInit
<1>2. table = [b \in Buckets |-> 0] /\ answer = 0 /\ outside = Missing /\ call = Idle
  BY DEF MapInit, Buckets
<1>3. Heap
  BY <1>1, <1>2 DEF Heap
<1>4. Chains
  BY <1>1, <1>2 DEF Chains
<1>5. Calling
  BY <1>2 DEF Calling
<1>6. QED
  BY <1>3, <1>4, <1>5 DEF Mapping

LEMMA CallFields ==
  ASSUME NEW op, NEW key, NEW value, NEW bucket, NEW prev, NEW entry
  PROVE  LET c == Call(op, key, value, bucket, prev, entry)
         IN  /\ c.op = op /\ c.key = key /\ c.value = value
             /\ c.bucket = bucket /\ c.prev = prev /\ c.entry = entry
BY DEF Call

LEMMA BeginMapping ==
  ASSUME Mapping, NEW op \in {"insert", "get", "contains"}, NEW key \in Keys,
         NEW value \in MapValues \cup {Missing}, op = "insert" => value \in MapValues,
         Begin(op, key, value)
  PROVE  Mapping'
<1>1. UNCHANGED <<table, nodes, answer>> /\ DOMAIN table = Buckets
  BY DEF Begin, Mapping, Heap
<1>2. Chains'
  BY <1>1 DEF Mapping, Chains, Home
<1>3. CASE Bucket[key] \in Buckets
  <2> DEFINE b == Bucket[key]
  <2>1. call' = Call(op, key, value, b, 0, table[b]) /\ outside' = outside
    BY <1>1, <1>3 DEF Begin
  <2>2. Heap'
    BY <1>1, <2>1 DEF Mapping, Heap, Home
  <2>3. table[b] \in 0..Len(nodes) /\ Len(nodes) \in Nat
    BY <1>3 DEF Mapping, Heap
  <2>4. call' \in Calls
    BY <1>3, <2>1, <2>3 DEF Call, Calls
  <2>5. /\ call'.op = op /\ call'.key = key /\ call'.value = value
        /\ call'.bucket = b /\ call'.prev = 0 /\ call'.entry = table[b]
    BY <2>1, CallFields
  <2>6. table[b] # 0 => Home(table[b]) = b
    BY <1>3 DEF Mapping, Chains
  <2>7. \A e \in DOMAIN nodes : nodes[e].key = key => table[b] # 0 /\ table[b] <= e
    BY DEF Mapping, Chains, Home
  <2> HIDE DEF b
  <2>8. Calling'
    BY <1>1, <2>3, <2>4, <2>5, <2>6, <2>7 DEF Calling, Home, b
  <2>9. QED
    BY <1>2, <2>2, <2>8 DEF Mapping
<1>4. CASE Bucket[key] \notin Buckets
  <2>1. call' = call /\ outside' = key
    BY <1>1, <1>4 DEF Begin
  <2>2. Heap'
    BY <1>1, <1>4, <2>1 DEF Mapping, Heap, Home
  <2>3. Calling'
    BY <1>1, <2>1 DEF Mapping, Calling, Home
  <2>4. QED
    BY <1>2, <2>2, <2>3 DEF Mapping
<1>5. QED
  BY <1>3, <1>4

(* What is known of a call under way. *)
LEMMA CallFacts ==
  ASSUME Mapping, call # Idle
  PROVE  /\ call \in Calls
         /\ call.op = "insert" => call.value \in MapValues
         /\ call.bucket = Bucket[call.key]
         /\ call.entry <= Len(nodes)
         /\ call.entry # 0 => Home(call.entry) = call.bucket
         /\ call.prev = 0 => call.entry = table[call.bucket]
         /\ call.prev # 0 => /\ call.prev \in DOMAIN nodes /\ Home(call.prev) = call.bucket
                             /\ nodes[call.prev].next = call.entry
         /\ \A e \in DOMAIN nodes : nodes[e].key = call.key => call.entry # 0 /\ call.entry <= e
         /\ call.op \in {"insert", "get", "contains"} /\ call.key \in Keys
         /\ call.bucket \in Buckets /\ call.prev \in Nat /\ call.entry \in 0..Len(nodes)
         /\ DOMAIN nodes = 1..Len(nodes) /\ Len(nodes) \in Nat
         /\ call.entry # 0 => call.entry \in DOMAIN nodes
<1>1. Calling /\ Heap
  BY DEF Mapping
<1>2. call \in Calls
  BY <1>1 DEF Calling
<1>3. /\ call.op \in {"insert", "get", "contains"} /\ call.key \in Keys
      /\ call.bucket \in Buckets /\ call.prev \in Nat /\ call.entry \in Nat
  BY <1>2 DEF Calls
<1>4. DOMAIN nodes = 1..Len(nodes) /\ Len(nodes) \in Nat
  BY <1>1 DEF Heap
<1>5. QED
  BY <1>1, <1>2, <1>3, <1>4 DEF Calling

LEMMA NotIdle ==
  ASSUME Mapping, Walk \/ InsertNew \/ InsertOld \/ EndGet
  PROVE  call # Idle
<1>1. Idle.op = "none" /\ Idle.entry = 0
  BY CallFields DEF Idle
<1>2. QED
  BY <1>1 DEF Walk, InsertNew, InsertOld, EndGet, Returns, IsValidEntry

LEMMA WalkMapping ==
  ASSUME Mapping, Walk
  PROVE  Mapping'
<1>1. UNCHANGED <<table, nodes, answer, outside>>
  BY DEF Walk
<1>2. Heap' /\ Chains'
  BY <1>1 DEF Mapping, Heap, Chains, Home
<1> DEFINE e == call.entry
           x == nodes[e].next
<1>3. call # Idle /\ e # 0 /\ nodes[e].key # call.key
  BY NotIdle DEF Walk, IsValidEntry
<1>4. e \in DOMAIN nodes /\ e \in Nat
  BY <1>3, CallFacts
<1>5. x \in 0..Len(nodes) /\ (x # 0 => e < x /\ Home(x) = Home(e))
  BY <1>4 DEF Mapping, Heap, Chains
<1>6. ASSUME NEW a \in DOMAIN nodes, nodes[a].key = call.key
      PROVE  x # 0 /\ x <= a
  <2>1. e <= a /\ a # e /\ a \in Nat
    BY <1>3, <1>6, CallFacts
  <2>2. Home(a) = Home(e)
    BY <1>3, <1>6, CallFacts DEF Home
  <2>3. e < a
    BY <1>4, <2>1
  <2>4. QED
    BY <1>4, <2>2, <2>3 DEF Mapping, Chains
<1>7. call' = [call EXCEPT !.prev = e, !.entry = x]
  BY DEF Walk, Onward
<1>8. call \in Calls
  BY <1>3, CallFacts
<1>9. /\ call'.op = call.op /\ call'.key = call.key /\ call'.value = call.value
      /\ call'.bucket = call.bucket /\ call'.prev = e /\ call'.entry = x
  BY <1>7, <1>8 DEF Calls
<1>10. x \in Nat
  BY <1>5
<1>11. Home(e) = call.bucket
  BY <1>3, CallFacts
<1> HIDE DEF e, x
<1>12. call' \in Calls
  BY <1>4, <1>7, <1>8, <1>10 DEF Calls
<1>13. /\ call.op = "insert" => call.value \in MapValues
       /\ call.bucket = Bucket[call.key]
       /\ Len(nodes) \in Nat
  BY <1>3, CallFacts
<1>14. x = nodes[e].next
  BY DEF x
<1>15. x <= Len(nodes)
  BY <1>5, <1>13
<1>16. Calling'
  <2>1. call'.op = "insert" => call'.value \in MapValues
    BY <1>9, <1>13
  <2>2. call'.bucket = Bucket[call'.key] /\ call'.entry <= Len(nodes')
    BY <1>1, <1>9, <1>13, <1>15
  <2>3. call'.entry # 0 => Bucket[nodes'[call'.entry].key] = call'.bucket
    BY <1>1, <1>5, <1>9, <1>11 DEF Home
  <2>4. call'.prev # 0 /\ call'.prev \in DOMAIN nodes' /\ Bucket[nodes'[call'.prev].key] = call'.bucket
    BY <1>1, <1>3, <1>4, <1>9, <1>11 DEF Home, e
  <2>5. nodes'[call'.prev].next = call'.entry
    BY <1>1, <1>9, <1>14
  <2>6. \A a \in DOMAIN nodes' : nodes'[a].key = call'.key => call'.entry # 0 /\ call'.entry <= a
    BY <1>1, <1>6, <1>9
  <2>7. QED
    BY <1>12, <2>1, <2>2, <2>3, <2>4, <2>5, <2>6 DEF Calling, Home
<1>17. QED
  BY <1>2, <1>16 DEF Mapping

LEMMA NextChanges ==
  ASSUME NEW node \in Node, NEW n \in Nat
  PROVE  /\ [node EXCEPT !.next = n] \in Node
         /\ [node EXCEPT !.next = n].key = node.key
         /\ [node EXCEPT !.next = n].value = node.value
         /\ [node EXCEPT !.next = n].next = n
BY DEF Node

LEMMA ValueChanges ==
  ASSUME NEW node \in Node, NEW v \in MapValues
  PROVE  /\ [node EXCEPT !.value = v] \in Node
         /\ [node EXCEPT !.value = v].key = node.key
         /\ [node EXCEPT !.value = v].value = v
         /\ [node EXCEPT !.value = v].next = node.next
BY DEF Node

(***************************************************************************)
(* InsertNew: the walk has reached the end of the chain, so that the new   *)
(* node follows every other of its bucket.                                 *)
(***************************************************************************)
LEMMA LinkFacts ==
  ASSUME Mapping, InsertNew
  PROVE  LET l == Len(nodes)
         IN  /\ l \in Nat /\ DOMAIN nodes = 1..l /\ nodes' \in Seq(Node)
             /\ Len(nodes') = l + 1 /\ DOMAIN nodes' = 1..(l + 1)
             /\ \A e \in 1..l :
                  /\ nodes'[e].key = nodes[e].key /\ nodes'[e].value = nodes[e].value
                  /\ nodes'[e].next = IF e = call.prev THEN l + 1 ELSE nodes[e].next
             /\ nodes'[l + 1] = [key |-> call.key, value |-> call.value, next |-> 0]
             /\ table' \in [Buckets -> 0..(l + 1)]
             /\ \A b \in Buckets :
                  table'[b] = IF call.prev = 0 /\ b = call.bucket THEN l + 1 ELSE table[b]
<1> DEFINE l == Len(nodes)
           node == [key |-> call.key, value |-> call.value, next |-> 0]
<1>1. call # Idle /\ call.op = "insert"
  BY NotIdle DEF InsertNew, Returns
<1>2. /\ nodes \in Seq(Node) /\ l \in Nat /\ DOMAIN nodes = 1..l
      /\ table \in [Buckets -> 0..l]
  BY DEF Mapping, Heap
<1>3. node \in Node
  BY <1>1, CallFacts DEF Node
<1>4. call.prev # 0 => call.prev \in 1..l
  BY <1>1, <1>2, CallFacts
<1>5. call.bucket \in Buckets
  BY <1>1, CallFacts
<1>6. 0..l \subseteq 0..(l + 1) /\ l + 1 \in 0..(l + 1)
  BY <1>2
<1>7. CASE call.prev = 0
  <2>1. table' = [table EXCEPT ![call.bucket] = l + 1] /\ nodes' = Append(nodes, node)
    BY <1>7 DEF InsertNew, Link
  <2>2. /\ nodes' \in Seq(Node) /\ Len(nodes') = l + 1 /\ DOMAIN nodes' = 1..(l + 1)
        /\ nodes'[l + 1] = node
        /\ \A e \in 1..l : nodes'[e] = nodes[e]
    BY <1>2, <1>3, <2>1, AppendProperties
  <2>3. /\ table' \in [Buckets -> 0..(l + 1)]
        /\ \A b \in Buckets : table'[b] = IF b = call.bucket THEN l + 1 ELSE table[b]
    BY <1>2, <1>5, <1>6, <2>1
  <2>4. \A e \in 1..l : e # 0
    BY <1>2
  <2>5. QED
    BY <1>2, <1>7, <2>2, <2>3, <2>4
<1>8. CASE call.prev # 0
  <2> DEFINE p == call.prev
             linked == [nodes EXCEPT ![p].next = l + 1]
  <2>1. nodes' = Append(linked, node) /\ table' = table
    BY <1>8 DEF InsertNew, Link
  <2>2. p \in 1..l /\ nodes[p] \in Node
    BY <1>2, <1>4, <1>8
  <2> DEFINE new == [nodes[p] EXCEPT !.next = l + 1]
  <2>3. new \in Node /\ new.key = nodes[p].key /\ new.value = nodes[p].value /\ new.next = l + 1
    <3> DEFINE next == l + 1
               old == nodes[p]
    <3>1. next \in Nat /\ old \in Node
      BY <1>2, <2>2
    <3> HIDE DEF next, old
    <3>2. /\ [old EXCEPT !.next = next] \in Node /\ [old EXCEPT !.next = next].key = old.key
          /\ [old EXCEPT !.next = next].value = old.value /\ [old EXCEPT !.next = next].next = next
      BY <3>1, NextChanges
    <3>3. QED
      BY <3>2 DEF next, old
  <2>4. linked = [nodes EXCEPT ![p] = new]
    BY <1>2, <2>2
  <2>5. /\ linked \in Seq(Node) /\ Len(linked) = l
        /\ \A e \in DOMAIN nodes :
             linked[e] = IF e = p THEN new ELSE nodes[e]
    BY <1>2, <2>2, <2>3, <2>4, ExceptSeq
  <2> HIDE DEF linked, new
  <2>6. /\ nodes' \in Seq(Node) /\ Len(nodes') = l + 1 /\ DOMAIN nodes' = 1..(l + 1)
        /\ nodes'[l + 1] = node
        /\ \A e \in 1..l : nodes'[e] = linked[e]
    BY <1>3, <2>1, <2>5, AppendProperties
  <2>7. ASSUME NEW e \in 1..l
        PROVE  /\ nodes'[e].key = nodes[e].key /\ nodes'[e].value = nodes[e].value
               /\ nodes'[e].next = IF e = p THEN l + 1 ELSE nodes[e].next
    BY <1>2, <2>2, <2>3, <2>5, <2>6
  <2>8. table' \in [Buckets -> 0..(l + 1)]
    BY <1>2, <1>6, <2>1
  <2>9. QED
    BY <1>2, <1>8, <2>1, <2>6, <2>7, <2>8
<1>9. QED
  BY <1>7, <1>8

LEMMA InsertNewMapping ==
  ASSUME Mapping, InsertNew
  PROVE  Mapping'
<1> DEFINE l == Len(nodes)
           b == call.bucket
           p == call.prev
           home(e) == Bucket[nodes'[e].key]
<1>1. call # Idle /\ call.entry = 0 /\ call' = Idle /\ UNCHANGED <<answer, outside>>
  BY NotIdle DEF InsertNew, Returns
<1>2. /\ l \in Nat /\ DOMAIN nodes = 1..l /\ nodes' \in Seq(Node)
      /\ Len(nodes') = l + 1 /\ DOMAIN nodes' = 1..(l + 1)
      /\ table' \in [Buckets -> 0..(l + 1)]
  BY LinkFacts
<1>3. \A e \in 1..l : /\ nodes'[e].key = nodes[e].key
                      /\ nodes'[e].next = IF e = p THEN l + 1 ELSE nodes[e].next
  BY LinkFacts
<1>4. nodes'[l + 1].key = call.key /\ nodes'[l + 1].next = 0
  BY LinkFacts
<1>5. \A c \in Buckets : table'[c] = IF p = 0 /\ c = b THEN l + 1 ELSE table[c]
  BY LinkFacts
<1>6. /\ b = Bucket[call.key] /\ b \in Buckets
      /\ p = 0 => table[b] = 0
      /\ p # 0 => p \in 1..l /\ Home(p) = b /\ nodes[p].next = 0
      /\ \A e \in 1..l : nodes[e].key # call.key
  BY <1>1, CallFacts
<1>7. /\ \A e \in 1..l : home(e) = Home(e)
      /\ home(l + 1) = b
  BY <1>3, <1>4, <1>6 DEF Home
<1>8. \A e \in 1..l : Home(e) \in Buckets /\ nodes[e].next \in 0..l
  BY <1>2 DEF Mapping, Heap
<1>9. \A e \in 1..(l + 1) : e \in 1..l \/ e = l + 1
  BY <1>2
(* The predecessor is the last of its bucket. *)
<1>10. \A e \in 1..l : Home(e) = b => p # 0 /\ e <= p
  <2>1. ASSUME NEW e \in 1..l, Home(e) = b
        PROVE  p # 0
    BY <1>2, <1>6, <2>1 DEF Mapping, Chains
  <2>2. ASSUME NEW e \in 1..l, Home(e) = b, ~(e <= p), p # 0
        PROVE  FALSE
    <3>1. p < e /\ p \in 1..l
      BY <1>2, <1>6, <2>2
    <3>2. nodes[p].next # 0
      BY <1>2, <1>6, <2>2, <3>1 DEF Mapping, Chains
    <3>3. QED
      BY <1>6, <2>2, <3>2
  <2>3. QED
    BY <2>1, <2>2
<1> HIDE DEF l, b, p, home
<1>11. Heap'
  <2>1. answer' \in 0..(l + 1)
    BY <1>1, <1>2 DEF Mapping, Heap, l
  <2>2. outside' \in Keys \cup {Missing} /\ (outside' # Missing => Bucket[outside'] \notin Buckets)
    BY <1>1 DEF Mapping, Heap
  <2>3. \A e \in 1..(l + 1) : home(e) \in Buckets /\ nodes'[e].next \in 0..(l + 1)
    <3>1. \A e \in 1..l : nodes[e].next \in 0..(l + 1)
      BY <1>2, <1>8
    <3>2. l + 1 \in 0..(l + 1) /\ 0 \in 0..(l + 1)
      BY <1>2
    <3>3. QED
      BY <1>3, <1>4, <1>6, <1>7, <1>8, <1>9, <3>1, <3>2
  <2>4. QED
    BY <1>2, <2>1, <2>2, <2>3 DEF Heap, Home, home
<1>12. Chains'
  <2>1. \A e, f \in 1..(l + 1) : nodes'[e].key = nodes'[f].key => e = f
    <3>1. \A e, f \in 1..l : nodes[e].key = nodes[f].key => e = f
      BY <1>2 DEF Mapping, Chains
    <3>2. QED
      BY <1>3, <1>4, <1>6, <1>9, <3>1
  <2>2. \A c \in Buckets : table'[c] # 0 => home(table'[c]) = c
    <3>1. ASSUME NEW c \in Buckets, table[c] # 0
          PROVE  table[c] \in 1..l /\ Home(table[c]) = c
      <4>1. table[c] \in 0..l
        BY DEF Mapping, Heap, l
      <4>2. QED
        BY <1>2, <3>1, <4>1 DEF Mapping, Chains
    <3>2. QED
      BY <1>5, <1>7, <3>1
  <2>3. \A e \in 1..(l + 1) : table'[home(e)] # 0 /\ table'[home(e)] <= e
    <3>1. ASSUME NEW e \in 1..l
          PROVE  table'[Home(e)] # 0 /\ table'[Home(e)] <= e
      <4>1. table[Home(e)] # 0 /\ table[Home(e)] <= e
        BY <1>2 DEF Mapping, Chains
      <4>2. ~(p = 0 /\ Home(e) = b)
        BY <1>10
      <4>3. QED
        BY <1>5, <1>8, <4>1, <4>2
    <3>2. table'[b] # 0 /\ table'[b] <= l + 1
      <4>1. CASE p = 0
        BY <1>2, <1>5, <1>6, <4>1
      <4>2. CASE p # 0
        <5>1. p \in 1..l /\ Home(p) = b
          BY <1>6, <4>2
        <5>2. table'[b] # 0 /\ table'[b] <= p
          BY <3>1, <5>1
        <5>3. table'[b] \in 0..(l + 1)
          BY <1>2, <1>6
        <5>4. QED
          BY <1>2, <5>1, <5>2, <5>3
      <4>3. QED
        BY <4>1, <4>2
    <3>3. QED
      BY <1>7, <1>9, <3>1, <3>2
  <2>4. \A e \in 1..(l + 1) :
          nodes'[e].next # 0 => e < nodes'[e].next /\ home(nodes'[e].next) = home(e)
    <3>1. ASSUME NEW e \in 1..l, nodes[e].next # 0
          PROVE  nodes[e].next \in 1..l /\ e < nodes[e].next /\ Home(nodes[e].next) = Home(e)
      BY <1>2, <1>8, <3>1 DEF Mapping, Chains
    <3>2. p # 0 => p < l + 1
      BY <1>2, <1>6
    <3>3. QED
      BY <1>3, <1>4, <1>6, <1>7, <1>9, <3>1, <3>2
  <2>5. \A e, f \in 1..(l + 1) :
          e < f /\ home(e) = home(f) => nodes'[e].next # 0 /\ nodes'[e].next <= f
    <3>1. ASSUME NEW e \in 1..l, NEW f \in 1..l, e < f, Home(e) = Home(f)
          PROVE  nodes'[e].next # 0 /\ nodes'[e].next <= f
      <4>1. nodes[e].next # 0 /\ nodes[e].next <= f
        BY <1>2, <3>1 DEF Mapping, Chains
      <4>2. e # p
        BY <1>6, <4>1
      <4>3. QED
        BY <1>3, <4>1, <4>2
    <3>2. ASSUME NEW e \in 1..l, Home(e) = b
          PROVE  nodes'[e].next # 0 /\ nodes'[e].next <= l + 1
      <4>1. p # 0 /\ e <= p /\ p \in 1..l
        BY <1>6, <1>10, <3>2
      <4>2. CASE e = p
        BY <1>2, <1>3, <4>2
      <4>3. CASE e # p
        <5>1. e < p
          BY <1>2, <4>1, <4>3
        <5>2. nodes'[e].next # 0 /\ nodes'[e].next <= p
          BY <1>6, <3>1, <3>2, <4>1, <5>1
        <5>3. nodes'[e].next = nodes[e].next /\ nodes[e].next \in 0..l
          BY <1>3, <1>8, <4>3
        <5>4. QED
          BY <1>2, <4>1, <5>2, <5>3
      <4>4. QED
        BY <4>2, <4>3
    <3>3. \A f \in 1..(l + 1) : ~(l + 1 < f)
      BY <1>2
    <3>4. QED
      BY <1>7, <1>9, <3>1, <3>2, <3>3
  <2>6. QED
    BY <1>2, <2>1, <2>2, <2>3, <2>4, <2>5 DEF Chains, Home, home
<1>13. Calling'
  BY <1>1 DEF Calling
<1>14. QED
  BY <1>11, <1>12, <1>13 DEF Mapping

(* A step that changes no key and no next keeps the chains. *)
LEMMA SameShape ==
  ASSUME Mapping, nodes' \in Seq(Node), Len(nodes') = Len(nodes),
         \A e \in DOMAIN nodes : nodes'[e].key = nodes[e].key /\ nodes'[e].next = nodes[e].next,
         UNCHANGED <<table, outside>>, answer' \in 0..Len(nodes)
  PROVE  Heap' /\ Chains'
<1> DEFINE home(e) == Bucket[nodes'[e].key]
<1>1. /\ DOMAIN nodes' = DOMAIN nodes
      /\ \A e \in DOMAIN nodes : home(e) = Home(e)
      /\ \A b \in Buckets : table[b] # 0 => table[b] \in DOMAIN nodes
      /\ \A e \in DOMAIN nodes : nodes[e].next # 0 => nodes[e].next \in DOMAIN nodes
  BY DEF Mapping, Heap, Home
<1>2. Heap'
  <2>1. \A e \in DOMAIN nodes' : home(e) \in Buckets /\ nodes'[e].next \in 0..Len(nodes')
    BY <1>1 DEF Mapping, Heap
  <2>2. table' \in [Buckets -> 0..Len(nodes')] /\ answer' \in 0..Len(nodes')
    BY DEF Mapping, Heap
  <2>3. outside' \in Keys \cup {Missing} /\ (outside' # Missing => Bucket[outside'] \notin Buckets)
    BY DEF Mapping, Heap
  <2>4. QED
    BY <2>1, <2>2, <2>3 DEF Heap, Home
<1> HIDE DEF home
<1>3. \A e, f \in DOMAIN nodes' : nodes'[e].key = nodes'[f].key => e = f
  BY <1>1 DEF Mapping, Chains
<1>4. \A b \in Buckets : table'[b] # 0 => home(table'[b]) = b
  BY <1>1 DEF Mapping, Chains
<1>5. \A e \in DOMAIN nodes' : table'[home(e)] # 0 /\ table'[home(e)] <= e
  BY <1>1 DEF Mapping, Chains
<1>6. \A e \in DOMAIN nodes' :
        nodes'[e].next # 0 => e < nodes'[e].next /\ home(nodes'[e].next) = home(e)
  BY <1>1 DEF Mapping, Chains
<1>7. \A e, f \in DOMAIN nodes' :
        e < f /\ home(e) = home(f) => nodes'[e].next # 0 /\ nodes'[e].next <= f
  BY <1>1 DEF Mapping, Chains
<1>8. Chains'
  BY <1>3, <1>4, <1>5, <1>6, <1>7 DEF Chains, Home, home
<1>9. QED
  BY <1>2, <1>8

LEMMA OldFacts ==
  ASSUME Mapping, InsertOld
  PROVE  /\ nodes' \in Seq(Node) /\ Len(nodes') = Len(nodes) /\ DOMAIN nodes' = DOMAIN nodes
         /\ call.entry \in DOMAIN nodes /\ nodes[call.entry].key = call.key
         /\ \A e \in DOMAIN nodes :
              /\ nodes'[e].key = nodes[e].key /\ nodes'[e].next = nodes[e].next
              /\ nodes'[e].value = IF e = call.entry THEN call.value ELSE nodes[e].value
<1>1. call # Idle /\ call.op = "insert" /\ call.entry # 0
      /\ nodes[call.entry].key = call.key
  BY NotIdle DEF InsertOld, Returns, IsValidEntry
<1>2. nodes \in Seq(Node) /\ call.entry \in DOMAIN nodes /\ call.value \in MapValues
  BY <1>1, CallFacts DEF Mapping, Heap
<1> DEFINE new == [nodes[call.entry] EXCEPT !.value = call.value]
<1>3. nodes[call.entry] \in Node /\ call.entry \in 1..Len(nodes) /\ 0 \in Nat
  BY <1>2
<1>4. /\ new \in Node /\ new.key = nodes[call.entry].key
      /\ new.value = call.value /\ new.next = nodes[call.entry].next
  <2> DEFINE node == nodes[call.entry]
             v == call.value
  <2>1. node \in Node /\ v \in MapValues
    BY <1>2, <1>3
  <2> HIDE DEF node, v
  <2>2. /\ [node EXCEPT !.value = v] \in Node /\ [node EXCEPT !.value = v].key = node.key
        /\ [node EXCEPT !.value = v].value = v /\ [node EXCEPT !.value = v].next = node.next
    BY <2>1, ValueChanges
  <2>3. QED
    BY <2>2 DEF node, v
<1>5. nodes' = [nodes EXCEPT ![call.entry] = new]
  BY DEF InsertOld
<1> HIDE DEF new
<1>6. /\ nodes' \in Seq(Node) /\ Len(nodes') = Len(nodes)
      /\ \A e \in DOMAIN nodes : nodes'[e] = IF e = call.entry THEN new ELSE nodes[e]
  BY <1>2, <1>3, <1>4, <1>5, ExceptSeq
<1>7. DOMAIN nodes' = DOMAIN nodes
  BY <1>2, <1>6
<1>8. QED
  BY <1>1, <1>2, <1>4, <1>6, <1>7

LEMMA ReturnMapping ==
  ASSUME Mapping, InsertOld \/ EndGet
  PROVE  Mapping'
<1>1. call # Idle /\ call' = Idle
  BY NotIdle DEF InsertOld, EndGet, Returns
<1>2. Heap' /\ Chains'
  <2>1. CASE InsertOld
    <3>1. UNCHANGED <<table, outside, answer>> /\ answer \in 0..Len(nodes)
      BY <2>1 DEF InsertOld, Mapping, Heap
    <3>2. QED
      BY <2>1, <3>1, OldFacts, SameShape
  <2>2. CASE EndGet
    <3>1. UNCHANGED <<table, nodes, outside>> /\ answer' = call.entry
      BY <2>2 DEF EndGet
    <3>2. answer' \in 0..Len(nodes) /\ nodes' \in Seq(Node)
      BY <1>1, <3>1, CallFacts DEF Mapping, Heap
    <3>3. QED
      BY <3>1, <3>2, SameShape
  <2>3. QED
    BY <2>1, <2>2
<1>3. Calling'
  BY <1>1 DEF Calling
<1>4. QED
  BY <1>2, <1>3 DEF Mapping

LEMMA NextMapping == Mapping /\ [MapNext]_mapVars => Mapping'
<1> SUFFICES ASSUME Mapping, [MapNext]_mapVars PROVE Mapping'
  OBVIOUS
<1>1. CASE BeginInsert
  BY <1>1, BeginMapping DEF BeginInsert
<1>2. CASE BeginGet \/ BeginContains
  BY <1>2, BeginMapping DEF BeginGet, BeginContains
<1>3. CASE Step
  BY <1>3, WalkMapping, InsertNewMapping, ReturnMapping DEF Step
<1>4. CASE UNCHANGED mapVars
  BY <1>4 DEF mapVars, Mapping, Heap, Chains, Calling, Home
<1>5. QED
  BY <1>1, <1>2, <1>3, <1>4 DEF MapNext

LEMMA SpecMapping == MapSpec => []Mapping
<1>1. MapInit => Mapping
  BY InitMapping
<1>2. Mapping /\ [MapNext]_mapVars => Mapping'
  BY NextMapping
<1>3. QED
  BY <1>1, <1>2, PTL DEF MapSpec

(***************************************************************************)
(* A reference that get or contains has found is still the node of its key *)
(* after any other insertions: nodes are only linked behind it.            *)
(***************************************************************************)
THEOREM ReferencesStay == MapSpec => []ReferenceStays
<1>1. Mapping => ReferenceStays
  <2>1. SUFFICES ASSUME Mapping, answer # 0 PROVE Search(nodes[answer].key) = answer
    BY DEF ReferenceStays
  <2>2. answer \in DOMAIN nodes /\ nodes[answer] \in Node
    BY <2>1 DEF Mapping, Heap
  <2>3. nodes[answer].key \in Keys /\ Bucket[nodes[answer].key] \in Buckets
    BY <2>1, <2>2 DEF Mapping, Heap, Home, Node
  <2>4. QED
    BY <2>1, <2>2, <2>3, SearchFinds DEF Mapping
<1>2. QED
  BY <1>1, SpecMapping, PTL

(***************************************************************************)
(* The table is indexed outside its bounds only for a key with a character *)
(* in front of `a': the hash of letters is never negative.                 *)
(***************************************************************************)
THEOREM LettersStayInTable == MapSpec => []InTableForLetters
<1>1. Mapping => InTableForLetters
  <2>1. SUFFICES ASSUME Mapping, outside # Missing
                 PROVE  \E n \in DOMAIN outside : Code[outside[n]] <= 0
    BY DEF InTableForLetters
  <2>2. outside \in Keys /\ Bucket[outside] \notin Buckets
    BY <2>1 DEF Mapping, Heap
  <2>3. ~Letters(outside)
    BY <2>2, BucketOfLetters
  <2>4. \A n \in DOMAIN outside : Code[outside[n]] \in Int
    BY <2>2, MapAssumption DEF MapAssumption
  <2>5. QED
    BY <2>3, <2>4 DEF Letters
<1>2. QED
  BY <1>1, SpecMapping, PTL

-----------------------------------------------------------------------------
(* The refinement.  What the map holds is what its nodes hold. *)
Holds ==
  \A key \in Keys :
    /\ \A e \in DOMAIN nodes : nodes[e].key = key => Stored(key) = nodes[e].value
    /\ (\A e \in DOMAIN nodes : nodes[e].key # key) => Stored(key) = Missing

LEMMA MappingHolds == Mapping => Holds
BY StoredIs DEF Mapping, Holds

LEMMA HoldsNext == Mapping /\ [MapNext]_mapVars => Holds'
<1>1. Mapping /\ [MapNext]_mapVars => Mapping'
  BY NextMapping
<1>2. Mapping => Holds
  BY MappingHolds
<1>3. Mapping' => Holds'
  BY <1>2, PTL
<1>4. QED
  BY <1>1, <1>3

Held == [k \in Keys |-> Stored(k)]
Found == IF answer = 0 THEN Missing ELSE nodes[answer].key

LEMMA SameMap ==
  ASSUME Holds, Holds', DOMAIN nodes' = DOMAIN nodes,
         \A e \in DOMAIN nodes : nodes'[e].key = nodes[e].key /\ nodes'[e].value = nodes[e].value
  PROVE  Held' = Held
<1>1. ASSUME NEW key \in Keys
      PROVE  Stored(key)' = Stored(key)
  <2>1. CASE \E e \in DOMAIN nodes : nodes[e].key = key
    BY <2>1 DEF Holds
  <2>2. CASE \A e \in DOMAIN nodes : nodes[e].key # key
    BY <2>2 DEF Holds
  <2>3. QED
    BY <2>1, <2>2
<1>2. QED
  BY <1>1 DEF Held

(* A call of insert takes effect when it returns, for its own key only. *)
LEMMA Inserts ==
  ASSUME Mapping, Holds, Holds', InsertNew \/ InsertOld
  PROVE  \E k \in Keys, v \in MapValues : Held' = [Held EXCEPT ![k] = v]
<1>1. call # Idle /\ call.op = "insert"
  BY NotIdle DEF InsertNew, InsertOld, Returns
<1>2. PICK k \in Keys, v \in MapValues : k = call.key /\ v = call.value
  BY <1>1, CallFacts
<1>3. /\ \E e \in DOMAIN nodes' : nodes'[e].key = k /\ nodes'[e].value = v
      /\ \A e \in DOMAIN nodes : nodes[e].key # k =>
           e \in DOMAIN nodes' /\ nodes'[e].key = nodes[e].key /\ nodes'[e].value = nodes[e].value
      /\ \A e \in DOMAIN nodes' : nodes'[e].key # k =>
           e \in DOMAIN nodes /\ nodes'[e].key = nodes[e].key
  <2>1. CASE InsertNew
    <3> DEFINE l == Len(nodes)
    <3>1. /\ l \in Nat /\ DOMAIN nodes = 1..l /\ DOMAIN nodes' = 1..(l + 1)
          /\ \A e \in 1..l : nodes'[e].key = nodes[e].key /\ nodes'[e].value = nodes[e].value
          /\ nodes'[l + 1] = [key |-> call.key, value |-> call.value, next |-> 0]
      BY <2>1, LinkFacts
    <3> HIDE DEF l
    <3>2. l + 1 \in DOMAIN nodes' /\ \A e \in 1..(l + 1) : e \in 1..l \/ e = l + 1
      BY <3>1
    <3>3. nodes'[l + 1].key = k /\ nodes'[l + 1].value = v
      BY <1>2, <3>1
    <3>4. \A e \in 1..l : e \in 1..(l + 1)
      BY <3>1
    <3>5. QED
      BY <3>1, <3>2, <3>3, <3>4
  <2>2. CASE InsertOld
    <3>1. \A e \in DOMAIN nodes : nodes[e].key # k => e # call.entry
      BY <1>2, <2>2, OldFacts
    <3>2. QED
      BY <1>2, <2>2, <3>1, OldFacts
  <2>3. QED
    BY <2>1, <2>2
<1>4. Stored(k)' = v
  BY <1>3 DEF Holds
<1>5. ASSUME NEW key \in Keys, key # k
      PROVE  Stored(key)' = Stored(key)
  <2>1. CASE \E e \in DOMAIN nodes : nodes[e].key = key
    BY <1>3, <1>5, <2>1 DEF Holds
  <2>2. CASE \A e \in DOMAIN nodes : nodes[e].key # key
    BY <1>3, <1>5, <2>2 DEF Holds
  <2>3. QED
    BY <2>1, <2>2
<1>6. Held' = [Held EXCEPT ![k] = v]
  BY <1>4, <1>5 DEF Held
<1>7. QED
  BY <1>6

(* The reference found last keeps its key. *)
LEMMA SameReference ==
  ASSUME Mapping, InsertNew \/ InsertOld
  PROVE  Found' = Found
<1>1. answer' = answer
  BY DEF InsertNew, InsertOld
<1>2. answer # 0 => answer \in DOMAIN nodes
  BY DEF Mapping, Heap
<1>3. \A e \in DOMAIN nodes : nodes'[e].key = nodes[e].key
  BY LinkFacts, OldFacts
<1>4. QED
  BY <1>1, <1>2, <1>3 DEF Found

(* A call of get or contains answers by what the map holds. *)
LEMMA Finds ==
  ASSUME Mapping, Holds, EndGet
  PROVE  /\ call.key \in Keys
         /\ Found' = IF Stored(call.key) = Missing THEN Missing ELSE call.key
<1>1. call # Idle /\ UNCHANGED nodes /\ answer' = call.entry
      /\ ~IsValidEntry(call.entry, call.key)
  BY NotIdle DEF EndGet, Returns
<1>2. call.key \in Keys
  BY <1>1, CallFacts
<1>3. CASE call.entry = 0
  <2>1. \A e \in DOMAIN nodes : nodes[e].key # call.key
    BY <1>1, <1>3, CallFacts
  <2>2. QED
    BY <1>1, <1>2, <1>3, <2>1 DEF Found, Holds
<1>4. CASE call.entry # 0
  <2>1. call.entry \in DOMAIN nodes /\ nodes[call.entry].key = call.key
    BY <1>1, <1>4, CallFacts DEF IsValidEntry
  <2>2. nodes[call.entry] \in Node
    BY <2>1 DEF Mapping, Heap
  <2>3. Stored(call.key) = nodes[call.entry].value /\ Stored(call.key) # Missing
    BY <1>2, <2>1, <2>2, MapAssumption DEF Holds, Node, MapAssumption
  <2>4. QED
    BY <1>1, <1>2, <1>4, <2>1, <2>3 DEF Found
<1>5. QED
  BY <1>2, <1>3, <1>4

LEMMA RefinesInit == MapInit => Abstract!Init
<1> SUFFICES ASSUME MapInit PROVE Abstract!Init
  OBVIOUS
<1>1. Holds
  BY InitMapping, MappingHolds
<1>2. \A k \in Keys : Stored(k) = Missing
  BY <1>1 DEF MapInit, Holds
<1>3. answer = 0
  BY DEF MapInit
<1>4. QED
  BY <1>2, <1>3 DEF Abstract!Init

LEMMA RefinesNext ==
  Mapping /\ Holds /\ Holds' /\ [MapNext]_mapVars
    => [Abstract!Insert \/ Abstract!Find]_<<Held, Found>>
<1> SUFFICES ASSUME Mapping, Holds, Holds', [MapNext]_mapVars
             PROVE  [Abstract!Insert \/ Abstract!Find]_<<Held, Found>>
  OBVIOUS
<1>1. CASE UNCHANGED <<nodes, answer>>
  <2>1. Held' = Held
    BY <1>1, SameMap
  <2>2. Found' = Found
    BY <1>1 DEF Found
  <2>3. QED
    BY <2>1, <2>2
<1>2. CASE BeginInsert \/ BeginGet \/ BeginContains \/ Walk \/ UNCHANGED mapVars
  BY <1>1, <1>2 DEF BeginInsert, BeginGet, BeginContains, Begin, Walk, mapVars
<1>3. CASE InsertNew \/ InsertOld
  <2>1. /\ \E k \in Keys, v \in MapValues : Held' = [Held EXCEPT ![k] = v]
        /\ Found' = Found
    BY <1>3, Inserts, SameReference
  <2>2. Abstract!Insert
    BY <2>1 DEF Abstract!Insert, Held, Found
  <2>3. QED
    BY <2>2
<1>4. CASE EndGet
  <2>1. /\ call.key \in Keys
        /\ Found' = IF Stored(call.key) = Missing THEN Missing ELSE call.key
    BY <1>4, Finds
  <2>2. Held' = Held
    BY <1>4, SameMap DEF EndGet
  <2>3. Held[call.key] = Stored(call.key)
    BY <2>1 DEF Held
  <2>4. Abstract!Find
    BY <2>1, <2>2, <2>3 DEF Abstract!Find, Held, Found
  <2>5. QED
    BY <2>4
<1>5. QED
  BY <1>2, <1>3, <1>4 DEF MapNext, Step

(***************************************************************************)
(* The chains of the heap implement the map: every call takes effect once, *)
(* when it returns, and for its own key only, whatever other keys share    *)
(* its bucket; what get and contains answer is what the map holds.         *)
(***************************************************************************)
THEOREM ImplementsTheMap == MapSpec => ImplementsMap
<1>1. MapInit => Abstract!Init
  BY RefinesInit
<1>2. Mapping => Holds
  BY MappingHolds
<1>3. Mapping /\ Holds /\ Holds' /\ [MapNext]_mapVars
        => [Abstract!Insert \/ Abstract!Find]_<<Held, Found>>
  BY RefinesNext
<1>4. MapSpec => [](Mapping /\ Holds)
  BY SpecMapping, <1>2, PTL
<1>5. MapSpec => MapInit /\ [][MapNext]_mapVars
  BY PTL DEF MapSpec
<1>6. MapSpec => Abstract!Init /\ [][Abstract!Insert \/ Abstract!Find]_<<Held, Found>>
  BY <1>1, <1>3, <1>4, <1>5, PTL
<1>7. QED
  BY <1>6, PTL DEF ImplementsMap, Abstract!Spec, Held, Found

==============================================================================

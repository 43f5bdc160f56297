------------------------ MODULE TypeLowering_proofs ------------------------
(***************************************************************************)
(* Every struct that the code generator has had lowered has its body, for  *)
(* every program, set of names and depth of the stack; and the recursion   *)
(* overflows a stack with room for twice the names only for a program with *)
(* a cycle of aliases.                                                     *)
(*                                                                         *)
(* The inductive invariant of the first is about the middle of the recursion, where     *)
(* BodiesComplete says nothing: each struct made is complete or still has  *)
(* its frame on the stack, and each part a frame has lowered is what its   *)
(* type denotes.  That an alias denotes what its type does, with aliases   *)
(* followed as often as there are names, holds because the aliases on the  *)
(* way to a type that is none are all different.                           *)
(*                                                                         *)
(* For the second, Visiting says what the frames on the stack are: a path  *)
(* from a name asked for, without a struct twice.  Behind the last struct  *)
(* of a path too long for that there are more aliases than names, so one   *)
(* of them leads back to itself.                                           *)
(***************************************************************************)
EXTENDS TypeLowering, FiniteSetTheorems, SequenceTheorems, NaturalsInduction,
        WellFoundedInduction, TLAPS

LlvmType == [ptr : BOOLEAN, to : Names \cup {Base}]
Frame == [name : Names, done : Seq(LlvmType)]

IsAlias(m) == m \in Names /\ defs[m].kind = "alias"
PartOf(n, k) == defs[n].parts[k]

Meaning == [m \in Names \cup {Base} |-> Denotes(m)]

(* What definition n asks for in place of its part k, which is no longer   *)
(* opaque then, whatever aliases it is behind.                             *)
Right(n, k, l) ==
  /\ l = Through(PartOf(n, k), Meaning[PartOf(n, k).name])
  /\ Meaning[PartOf(n, k).name].to \in made \cup {Base}
DoneRight(n, s) == \A k \in DOMAIN s : Right(n, k, s[k])

Typed ==
  /\ defs \in Programs
  /\ made \subseteq {n \in Names : defs[n].kind = "struct"}
  /\ bodies \in [Names -> Seq(LlvmType)]
  /\ stack \in Seq(Frame)

Lowering ==
  \A i \in DOMAIN stack :
    /\ defs[stack[i].name].kind \in {"struct", "alias"}
    /\ defs[stack[i].name].kind = "struct" => stack[i].name \in made
    /\ Len(stack[i].done) <= Len(defs[stack[i].name].parts)
    /\ DoneRight(stack[i].name, stack[i].done)
    /\ i # Len(stack) =>
         /\ Len(stack[i].done) < Len(defs[stack[i].name].parts)
         /\ PartOf(stack[i].name, Len(stack[i].done) + 1).name = stack[i + 1].name

Complete(n) == Len(bodies[n]) = Len(defs[n].parts) /\ DoneRight(n, bodies[n])
OnStack(n) == \E i \in DOMAIN stack : stack[i].name = n
Making == \A n \in made : OnStack(n) \/ Complete(n)

Inv == Typed /\ Lowering /\ Making

-----------------------------------------------------------------------------
(* Induction over the hops from alias to alias. *)
LEMMA Least ==
  ASSUME NEW T, T \subseteq Nat, T # {}
  PROVE  \E n \in T : \A m \in T : n <= m
<1>1. IsWellFoundedOn({ss \in Nat \X Nat : ss[1] < ss[2]}, Nat)
  BY NatLessThanWellFounded DEF OpToRel
<1>2. PICK x \in T : \A y \in T : <<y, x>> \notin {ss \in Nat \X Nat : ss[1] < ss[2]}
  BY <1>1, WFMin
<1>3. \A y \in T : ~(y < x)
  BY <1>2
<1>4. QED
  BY <1>3

LEMMA Upward ==
  ASSUME NEW T, NEW l \in Nat, 0 \in T, \A n \in 1..l : n - 1 \in T => n \in T
  PROVE  0..l \subseteq T
<1> DEFINE B == (0..l) \ T
<1>1. SUFFICES ASSUME B # {} PROVE FALSE
  OBVIOUS
<1>2. PICK n \in B : \A m \in B : n <= m
  <2>1. B \subseteq Nat
    OBVIOUS
  <2>2. QED
    BY <1>1, <2>1, Least
<1>3. n \in 1..l /\ n - 1 \in 0..l /\ ~(n <= n - 1)
  BY <1>2
<1>4. n - 1 \in T
  BY <1>2, <1>3
<1>5. QED
  BY <1>2, <1>3, <1>4

(* A walk in a finite set that ends outside it meets nothing twice. *)
LEMMA WalkBound ==
  ASSUME NEW A, IsFiniteSet(A), NEW l \in Nat, NEW e, NEW next,
         \A i \in 0..(l - 1) : e[i] \in A /\ e[i + 1] = next[e[i]], e[l] \notin A
  PROVE  l <= Cardinality(A)
<1> DEFINE f == [i \in 0..(l - 1) |-> e[i]]
<1>1. SUFFICES ASSUME ~(l <= Cardinality(A)) PROVE FALSE
  OBVIOUS
<1>2. Cardinality(A) \in Nat
  BY FS_CardinalityType
<1>3. IsFiniteSet(0..(l - 1)) /\ Cardinality(0..(l - 1)) = l
  <2>1. 0 \in Int /\ l - 1 \in Int /\ ~(0 > l - 1)
    BY <1>1, <1>2
  <2>2. QED
    BY <2>1, FS_Interval
<1>4. f \in [0..(l - 1) -> A]
  OBVIOUS
<1>5. PICK x \in 0..(l - 1), y \in 0..(l - 1) : x # y /\ f[x] = f[y]
  <2>1. Cardinality(A) < Cardinality(0..(l - 1))
    BY <1>1, <1>2, <1>3
  <2> HIDE DEF f
  <2>2. QED
    BY <1>3, <1>4, <2>1, FS_PigeonHole
<1>6. PICK a \in 0..(l - 1), b \in 0..(l - 1) : a < b /\ e[a] = e[b]
  BY <1>5
<1> DEFINE T == {i \in 0..(l - b) : e[a + i] = e[b + i]}
<1>7. 0 \in T
  BY <1>6
<1>8. ASSUME NEW i \in 1..(l - b), i - 1 \in T PROVE i \in T
  <2>1. /\ a + (i - 1) \in 0..(l - 1) /\ b + (i - 1) \in 0..(l - 1)
        /\ (a + (i - 1)) + 1 = a + i /\ (b + (i - 1)) + 1 = b + i
    BY <1>6
  <2>2. e[a + i] = next[e[a + (i - 1)]] /\ e[b + i] = next[e[b + (i - 1)]]
    BY <2>1
  <2>3. e[a + (i - 1)] = e[b + (i - 1)]
    BY <1>8
  <2>4. QED
    BY <2>2, <2>3
<1>9. l - b \in T
  <2>1. l - b \in Nat
    OBVIOUS
  <2> HIDE DEF T
  <2>2. 0..(l - b) \subseteq T
    BY <1>7, <1>8, <2>1, Upward
  <2>3. QED
    BY <2>1, <2>2
<1>10. e[a + (l - b)] = e[l] /\ a + (l - b) \in 0..(l - 1)
  BY <1>6, <1>9
<1>11. QED
  BY <1>10

-----------------------------------------------------------------------------
(* One alias followed, and what many hops lead to. *)
Hop(l) == IF IsAlias(l.to) THEN Through(PartOf(l.to, 1), Lowered(l.ptr, PartOf(l.to, 1).name)) ELSE l
Count == Cardinality(Names)
Hops(h, n) == h[0] = Lowered(FALSE, n) /\ \A k \in 1..Count : h[k] = Hop(h[k - 1])

LEMMA CountNat == Count \in Nat /\ IsFiniteSet(Names)
BY LoweringAssumption, FS_CardinalityType DEF Count

LEMMA ThroughFacts ==
  /\ \A part, l : Through(part, l).to = l.to
  /\ \A part, a, b : a.to = b.to /\ (a.ptr <=> b.ptr) => Through(part, a) = Through(part, b)
BY DEF Through, Lowered

LEMMA HopIs ==
  ASSUME NEW l
  PROVE  Hop(l) = IF l.to \in Names /\ defs[l.to].kind = "alias"
                    THEN Lowered(l.ptr \/ defs[l.to].parts[1].wrap = "ptr", defs[l.to].parts[1].name)
                    ELSE l
BY DEF Hop, IsAlias, Through, Lowered, PartOf

LEMMA HopThrough ==
  ASSUME NEW part, NEW l
  PROVE  Hop(Through(part, l)) = Through(part, Hop(l))
BY DEF Hop, IsAlias, Through, Lowered, PartOf

LEMMA HopsExist ==
  ASSUME NEW n
  PROVE  \E h : Hops(h, n) /\ Denotes(n) = h[Count]
<1> DEFINE Walk(h, j) ==
             h = [k \in 0..j |-> IF k = 0 THEN Lowered(FALSE, n) ELSE Hop(h[k - 1])]
           T == {j \in Nat : \E h : Walk(h, j)}
<1>1. 0 \in T
  <2> DEFINE g == [k \in 0..0 |-> Lowered(FALSE, n)]
  <2>1. Walk(g, 0)
    OBVIOUS
  <2>2. QED
    BY <2>1
<1>2. ASSUME NEW j \in 1..Count, j - 1 \in T
      PROVE  j \in T
  <2>1. PICK f : Walk(f, j - 1)
    BY <1>2
  <2> DEFINE g == [k \in 0..j |-> IF k = j THEN Hop(f[j - 1]) ELSE f[k]]
  <2>2. j \in Nat /\ j # 0
    BY CountNat
  <2>3. ASSUME NEW k \in 0..j
        PROVE  g[k] = IF k = 0 THEN Lowered(FALSE, n) ELSE Hop(g[k - 1])
    <3>1. CASE k = 0
      <4>1. 0 \in 0..(j - 1) /\ 0 # j
        BY <2>2
      <4>2. f[0] = Lowered(FALSE, n)
        BY <2>1, <4>1
      <4>3. g[0] = f[0]
        BY <2>2, <4>1
      <4>4. QED
        BY <3>1, <4>2, <4>3
    <3>2. CASE k # 0
      <4>1. k - 1 \in 0..j /\ k - 1 # j /\ k - 1 \in 0..(j - 1)
        BY <2>2, <3>2
      <4>2. g[k - 1] = f[k - 1]
        BY <4>1
      <4>3. CASE k = j
        BY <3>2, <4>2, <4>3
      <4>4. CASE k # j
        <5>1. k \in 0..(j - 1) /\ g[k] = f[k]
          BY <2>2, <4>4
        <5>2. QED
          BY <2>1, <3>2, <4>2, <5>1
      <4>5. QED
        BY <4>3, <4>4
    <3>3. QED
      BY <3>1, <3>2
  <2>4. Walk(g, j)
    <3>1. g = [k \in 0..j |-> g[k]]
      OBVIOUS
    <3> HIDE DEF g
    <3>2. QED
      BY <2>3, <3>1
  <2>5. QED
    BY <2>2, <2>4
<1> HIDE DEF T
<1>3. Count \in T
  BY <1>1, <1>2, CountNat, Upward
<1>4. PICK f : f = [k \in 0..Count |-> IF k = 0 THEN Lowered(FALSE, n) ELSE Hop(f[k - 1])]
  BY <1>3 DEF T
<1> DEFINE h == CHOOSE h :
             h = [k \in 0..Count |-> IF k = 0 THEN Lowered(FALSE, n) ELSE Hop(h[k - 1])]
<1>5. /\ h = [k \in 0..Count |-> IF k = 0 THEN Lowered(FALSE, n) ELSE Hop(h[k - 1])]
      /\ Denotes(n) = h[Count]
  <2>1. h = [k \in 0..Count |-> IF k = 0 THEN Lowered(FALSE, n) ELSE Hop(h[k - 1])]
    BY <1>4
  <2>2. \A l : Hop(l) = IF l.to \in Names /\ defs[l.to].kind = "alias"
                        THEN Lowered(l.ptr \/ defs[l.to].parts[1].wrap = "ptr", defs[l.to].parts[1].name)
                        ELSE l
    BY HopIs
  <2>3. Denotes(n) = h[Count]
    BY <2>2 DEF Denotes, Count
  <2>4. QED
    BY <2>1, <2>3
<1> HIDE DEF h
<1>6. h[0] = Lowered(FALSE, n)
  <2>1. 0 \in 0..Count
    BY CountNat
  <2>2. QED
    BY <1>5, <2>1
<1>7. ASSUME NEW k \in 1..Count PROVE h[k] = Hop(h[k - 1])
  <2>1. k \in 0..Count /\ k # 0
    BY CountNat
  <2>2. QED
    BY <1>5, <2>1
<1>8. QED
  BY <1>5, <1>6, <1>7 DEF Hops

(* A type that is no alias denotes itself. *)
LEMMA DenotesItself ==
  ASSUME NEW n, ~IsAlias(n)
  PROVE  Denotes(n) = Lowered(FALSE, n)
<1>1. PICK h : Hops(h, n) /\ Denotes(n) = h[Count]
  BY HopsExist
<1> DEFINE start == Lowered(FALSE, n)
           T == {k \in 0..Count : h[k] = start}
<1>2. Hop(start) = start
  BY DEF Hop, Lowered
<1>3. h[0] = start /\ \A k \in 1..Count : h[k] = Hop(h[k - 1])
  BY <1>1 DEF Hops
<1> HIDE DEF start
<1>4. 0 \in T /\ \A k \in 1..Count : k - 1 \in T => k \in T
  <2>1. 0 \in T
    BY <1>3, CountNat
  <2>2. ASSUME NEW k \in 1..Count, k - 1 \in T PROVE k \in T
    <3>1. k \in 0..Count /\ h[k] = Hop(start)
      BY <1>3, <2>2, CountNat
    <3>2. QED
      BY <1>2, <3>1
  <2>3. QED
    BY <2>1, <2>2
<1> HIDE DEF T
<1>5. Count \in T
  BY <1>4, CountNat, Upward
<1>6. QED
  BY <1>1, <1>5 DEF T, start

(* The hops from an alias are those from its type, one later. *)
LEMMA AliasHops ==
  ASSUME NEW n, IsAlias(n)
  PROVE  /\ Count \in Nat /\ Count >= 1
         /\ \E g : /\ Hops(g, PartOf(n, 1).name) /\ Denotes(PartOf(n, 1).name) = g[Count]
                   /\ Denotes(n) = Through(PartOf(n, 1), g[Count - 1])
<1> DEFINE part == PartOf(n, 1)
<1>1. PICK h : Hops(h, n) /\ Denotes(n) = h[Count]
  BY HopsExist
<1>2. PICK g : Hops(g, part.name) /\ Denotes(part.name) = g[Count]
  BY HopsExist
<1>3. Count \in Nat /\ Count >= 1
  BY CountNat, FS_EmptySet DEF Count, IsAlias
<1>4. \A k \in 1..Count : h[k] = Through(part, g[k - 1])
  <2> DEFINE T == {k \in 0..Count : k >= 1 => h[k] = Through(part, g[k - 1])}
  <2>1. 0 \in T
    BY <1>3
  <2>2. ASSUME NEW k \in 1..Count, k - 1 \in T
        PROVE  k \in T
    <3>1. h[k] = Hop(h[k - 1])
      BY <1>1 DEF Hops
    <3>2. CASE k = 1
      <4>1. h[k - 1] = h[0] /\ g[k - 1] = g[0] /\ k \in 0..Count
        BY <1>3, <3>2
      <4>2. h[0] = Lowered(FALSE, n) /\ g[0] = Lowered(FALSE, part.name)
        BY <1>1, <1>2 DEF Hops
      <4>3. Hop(Lowered(FALSE, n)) = Through(part, Lowered(FALSE, part.name))
        BY DEF Hop, Lowered
      <4>4. h[k] = Through(part, g[k - 1])
        BY <3>1, <4>1, <4>2, <4>3
      <4>5. QED
        BY <4>1, <4>4
    <3>3. CASE k # 1
      <4>1. k - 1 >= 1 /\ k - 1 \in 1..Count
        BY <1>3, <3>3
      <4>2. h[k - 1] = Through(part, g[k - 2]) /\ g[k - 1] = Hop(g[k - 2])
        <5>1. (k - 1) - 1 = k - 2
          OBVIOUS
        <5>2. QED
          BY <1>2, <2>2, <4>1, <5>1 DEF Hops
      <4>3. QED
        BY <3>1, <4>2, HopThrough
    <3>4. QED
      BY <3>2, <3>3
  <2> HIDE DEF T
  <2>3. 0..Count \subseteq T
    BY <1>3, <2>1, <2>2, Upward
  <2>4. QED
    BY <1>3, <2>3 DEF T
<1>5. QED
  BY <1>1, <1>2, <1>3, <1>4

(***************************************************************************)
(* An alias denotes what its type does.  The aliases on the way from n     *)
(* are different, so that there is one hop left when its type has used     *)
(* all of its own.                                                         *)
(***************************************************************************)
LEMMA DenotesItsType ==
  ASSUME NEW n, IsAlias(n), ~IsAlias(Denotes(PartOf(n, 1).name).to)
  PROVE  Denotes(n) = Through(PartOf(n, 1), Denotes(PartOf(n, 1).name))
<1> DEFINE part == PartOf(n, 1)
<1>1. Count \in Nat /\ Count >= 1
  BY AliasHops
<1>2. PICK g : /\ Hops(g, part.name) /\ Denotes(part.name) = g[Count]
               /\ Denotes(n) = Through(part, g[Count - 1])
  BY AliasHops
<1>3. Count \in Nat /\ Count >= 1
  BY <1>1
<1>5. ~IsAlias(g[Count - 1].to)
  <2>1. SUFFICES ASSUME IsAlias(g[Count - 1].to) PROVE FALSE
    OBVIOUS
  <2> DEFINE A == {m \in Names : IsAlias(m)}
             e == [i \in 0..(Count + 1) |-> IF i = 0 THEN n ELSE g[i - 1].to]
             next == [m \in A |-> PartOf(m, 1).name]
  <2>2. \A k \in 0..Count : k # Count => IsAlias(g[k].to) /\ g[k + 1].to = next[g[k].to]
    <3> DEFINE T == {k \in 0..(Count - 1) : IsAlias(g[(Count - 1) - k].to)}
    <3>1. 0 \in T
      BY <1>3, <2>1
    <3>2. ASSUME NEW k \in 1..(Count - 1), k - 1 \in T
          PROVE  k \in T
      <4>1. (Count - 1) - k \in 0..Count /\ (Count - 1) - (k - 1) \in 1..Count
            /\ ((Count - 1) - (k - 1)) - 1 = (Count - 1) - k
        BY <1>3
      <4>2. g[(Count - 1) - (k - 1)] = Hop(g[(Count - 1) - k])
        BY <1>2, <4>1 DEF Hops
      <4>3. IsAlias(g[(Count - 1) - (k - 1)].to)
        BY <3>2
      <4>4. IsAlias(g[(Count - 1) - k].to)
        BY <4>2, <4>3 DEF Hop
      <4>5. k \in 0..(Count - 1)
        OBVIOUS
      <4>6. QED
        BY <4>4, <4>5
    <3>3. 0..(Count - 1) \subseteq T
      <4> HIDE DEF T
      <4>1. Count - 1 \in Nat
        BY <1>3
      <4>2. QED
        BY <3>1, <3>2, <4>1, Upward
    <3>4. ASSUME NEW k \in 0..Count, k # Count
          PROVE  IsAlias(g[k].to) /\ g[k + 1].to = next[g[k].to]
      <4>1. (Count - 1) - k \in 0..(Count - 1) /\ (Count - 1) - ((Count - 1) - k) = k
        BY <1>3, <3>4
      <4>2. IsAlias(g[k].to)
        BY <3>3, <4>1
      <4>3. k + 1 \in 1..Count /\ (k + 1) - 1 = k
        BY <1>3, <3>4
      <4>4. g[k + 1] = Hop(g[k])
        BY <1>2, <4>3 DEF Hops
      <4>5. g[k + 1].to = PartOf(g[k].to, 1).name
        BY <4>2, <4>4, ThroughFacts DEF Hop, Lowered
      <4>6. g[k].to \in A
        BY <4>2 DEF IsAlias
      <4>7. QED
        BY <4>2, <4>5, <4>6
    <3>5. QED
      BY <3>4
  <2>3. \A i \in 0..((Count + 1) - 1) : e[i] \in A /\ e[i + 1] = next[e[i]]
    <3>1. ASSUME NEW i \in 0..((Count + 1) - 1) PROVE e[i] \in A /\ e[i + 1] = next[e[i]]
      <4>1. i \in 0..Count /\ i \in 0..(Count + 1) /\ i + 1 \in 0..(Count + 1)
            /\ i + 1 # 0 /\ (i + 1) - 1 = i
        BY <1>3
      <4>2. e[i + 1] = g[i].to
        BY <4>1
      <4>3. CASE i = 0
        <5>1. e[i] = n /\ n \in A
          BY <4>1, <4>3 DEF IsAlias
        <5>2. g[0].to = part.name
          BY <1>2 DEF Hops, Lowered
        <5>3. QED
          BY <4>2, <4>3, <5>1, <5>2
      <4>4. CASE i # 0
        <5>1. i - 1 \in 0..Count /\ i - 1 # Count /\ (i - 1) + 1 = i
          BY <1>3, <4>1, <4>4
        <5>2. IsAlias(g[i - 1].to) /\ g[i].to = next[g[i - 1].to]
          BY <2>2, <5>1
        <5>3. e[i] = g[i - 1].to
          BY <4>1, <4>4
        <5>4. QED
          BY <4>2, <5>2, <5>3 DEF IsAlias
      <4>5. QED
        BY <4>3, <4>4
    <3>2. QED
      BY <3>1
  <2>4. e[Count + 1] \notin A
    <3>1. e[Count + 1] = g[Count].to
      BY <1>3
    <3>2. QED
      BY <1>2, <3>1
  <2>5. /\ IsFiniteSet(A) /\ Cardinality(A) <= Count
    BY CountNat, FS_Subset DEF Count
  <2>6. Cardinality(A) \in Nat
    BY <2>5, FS_CardinalityType
  <2> HIDE DEF A, e, next
  <2>7. Count + 1 <= Cardinality(A)
    <3>1. Count + 1 \in Nat
      BY <1>3
    <3>2. QED
      BY <2>3, <2>4, <2>5, <3>1, WalkBound
  <2>8. QED
    BY <1>3, <2>5, <2>6, <2>7
<1>6. g[Count] = g[Count - 1]
  BY <1>2, <1>3, <1>5 DEF Hops, Hop
<1>7. QED
  BY <1>2, <1>6

(* The other way round: what an alias has come to, its type has come to.   *)
LEMMA TypeDenotes ==
  ASSUME NEW n, IsAlias(n), ~IsAlias(Denotes(n).to)
  PROVE  Denotes(PartOf(n, 1).name).to = Denotes(n).to
<1> DEFINE part == PartOf(n, 1)
<1>1. PICK g : /\ Hops(g, part.name) /\ Denotes(part.name) = g[Count]
               /\ Denotes(n) = Through(part, g[Count - 1])
  BY AliasHops
<1>2. Count \in Nat /\ Count >= 1
  BY AliasHops
<1>3. Denotes(n).to = g[Count - 1].to
  BY <1>1, ThroughFacts
<1>4. g[Count] = g[Count - 1]
  BY <1>1, <1>2, <1>3 DEF Hops, Hop
<1>5. QED
  BY <1>1, <1>3, <1>4

-----------------------------------------------------------------------------
LEMMA DefsFacts ==
  ASSUME Typed
  PROVE  /\ defs \in [Names -> [kind : Kinds, parts : Seq(Types)]]
         /\ \A n \in Names : defs[n].kind = "alias" => Len(defs[n].parts) = 1
         /\ \A n \in Names, k \in Nat : k + 1 <= Len(defs[n].parts) =>
              PartOf(n, k + 1) \in Types
         /\ Base \notin Names
BY LoweringAssumption DEF Typed, PartOf

LEMMA MeaningKept ==
  ASSUME defs' = defs
  PROVE  Meaning' = Meaning
BY DEF Meaning, Denotes

LEMMA Same ==
  ASSUME Inv, UNCHANGED <<defs, made, bodies, stack>>
  PROVE  Inv'
<1>1. Meaning' = Meaning
  BY MeaningKept
<1>2. Typed'
  BY DEF Inv, Typed
<1>3. Lowering'
  BY <1>1 DEF Inv, Lowering, DoneRight, Right, PartOf
<1>4. Making'
  BY <1>1 DEF Inv, Making, OnStack, Complete, DoneRight, Right, PartOf
<1>5. QED
  BY <1>2, <1>3, <1>4 DEF Inv

LEMMA InitInv == Init => Inv
<1>1. SUFFICES ASSUME Init PROVE Inv
  OBVIOUS
<1>2. Typed
  BY <1>1 DEF Init, Typed
<1>3. Lowering /\ Making
  BY <1>1 DEF Init, Lowering, Making
<1>4. QED
  BY <1>2, <1>3 DEF Inv

(* A call goes a level deeper. *)
LEMMA Pushed ==
  ASSUME Inv, NEW n \in Names, defs[n].kind # "none", UNCHANGED <<defs, bodies>>,
         made' = Opaque(n), stack' = Append(stack, [name |-> n, done |-> <<>>]),
         stack # <<>> => InPart /\ Part.name = n
  PROVE  Inv'
<1> DEFINE l == Len(stack)
           new == [name |-> n, done |-> <<>>]
<1>1. /\ stack \in Seq(Frame) /\ l \in Nat /\ new \in Frame
      /\ stack' \in Seq(Frame) /\ Len(stack') = l + 1 /\ stack'[l + 1] = new
      /\ \A i \in 1..l : stack'[i] = stack[i]
  BY DEF Inv, Typed, Frame
<1>2. Meaning' = Meaning /\ made \subseteq made'
  BY MeaningKept DEF Opaque
<1>3. defs[n].kind \in {"struct", "alias"} /\ Len(defs[n].parts) \in Nat
  BY DefsFacts DEF Inv, Kinds
<1>4. Typed'
  <2>1. made' \subseteq {m \in Names : defs[m].kind = "struct"}
    BY DEF Inv, Typed, Opaque
  <2>2. QED
    BY <1>1, <2>1 DEF Inv, Typed
<1>5. ASSUME NEW i \in DOMAIN stack'
      PROVE  /\ defs[stack'[i].name].kind \in {"struct", "alias"}
             /\ defs[stack'[i].name].kind = "struct" => stack'[i].name \in made'
             /\ Len(stack'[i].done) <= Len(defs[stack'[i].name].parts)
             /\ DoneRight(stack'[i].name, stack'[i].done)
             /\ i # Len(stack') =>
                  /\ Len(stack'[i].done) < Len(defs[stack'[i].name].parts)
                  /\ PartOf(stack'[i].name, Len(stack'[i].done) + 1).name = stack'[i + 1].name
  <2>1. CASE i = l + 1
    <3>1. stack'[i].name = n /\ stack'[i].done = <<>> /\ i = Len(stack')
      BY <1>1, <2>1
    <3>2. DoneRight(n, <<>>)
      BY DEF DoneRight
    <3>3. defs[n].kind = "struct" => n \in made'
      BY DEF Opaque
    <3>4. QED
      BY <1>3, <3>1, <3>2, <3>3
  <2>2. CASE i # l + 1
    <3>1. i \in DOMAIN stack /\ stack'[i] = stack[i]
      BY <1>1, <2>2
    <3>2. CASE i = l
      <4>1. stack'[i + 1].name = n /\ stack # <<>>
        BY <1>1, <3>1, <3>2
      <4>2. /\ Len(stack[i].done) < Len(defs[stack[i].name].parts)
            /\ PartOf(stack[i].name, Len(stack[i].done) + 1).name = n
        BY <3>2, <4>1 DEF InPart, Part, TopDef, Top, PartOf
      <4>3. QED
        BY <1>2, <3>1, <4>1, <4>2 DEF Inv, Lowering
    <3>3. CASE i # l
      <4>1. i + 1 \in 1..l /\ stack'[i + 1] = stack[i + 1]
        BY <1>1, <3>1, <3>3
      <4>2. QED
        BY <1>2, <3>1, <3>3, <4>1 DEF Inv, Lowering
    <3>4. QED
      BY <3>2, <3>3
  <2>3. QED
    BY <2>1, <2>2
<1>6. Lowering'
  <2>1. UNCHANGED defs /\ made \subseteq made'
    BY DEF Opaque
  <2>2. ASSUME NEW i \in DOMAIN stack'
        PROVE  DoneRight(stack[i].name, stack[i].done)'
    <3>1. \A k \in DOMAIN stack'[i].done :
            Right(stack'[i].name, k, stack'[i].done[k])
      BY <1>5 DEF DoneRight
    <3>2. QED
      BY <1>2, <2>1, <3>1 DEF DoneRight, Right, PartOf
  <2>3. QED
    BY <1>5, <2>1, <2>2 DEF Lowering, PartOf
<1>7. ASSUME NEW m \in made' PROVE OnStack(m)' \/ Complete(m)'
  <2>1. CASE m = n
    BY <1>1, <2>1 DEF OnStack
  <2>2. CASE m # n /\ OnStack(m)
    <3>1. PICK i \in DOMAIN stack : stack[i].name = m
      BY <2>2 DEF OnStack
    <3>2. i \in DOMAIN stack' /\ stack'[i].name = m
      BY <1>1, <3>1
    <3>3. QED
      BY <3>2 DEF OnStack
  <2>3. CASE m # n /\ ~OnStack(m)
    <3>1. Complete(m)
      BY <2>3 DEF Inv, Making, Opaque
    <3>2. QED
      BY <1>2, <3>1 DEF Complete, DoneRight, Right, PartOf
  <2>4. QED
    BY <2>1, <2>2, <2>3
<1>8. Making'
  BY <1>7 DEF Making
<1>9. QED
  BY <1>4, <1>6, <1>8 DEF Inv

(***************************************************************************)
(* A call returns l to the frames under it: the stack is theirs, with the  *)
(* part under way done.                                                    *)
(***************************************************************************)
Returned(frames, l) ==
  frames # <<>> =>
    LET t == frames[Len(frames)] IN
      /\ Len(t.done) < Len(defs[t.name].parts)
      /\ l = Meaning[PartOf(t.name, Len(t.done) + 1).name]
      /\ l.to \in made \cup {Base}

LEMMA TopFacts ==
  ASSUME NEW frames \in Seq(Frame), frames # <<>>
  PROVE  /\ Len(frames) \in Nat \ {0} /\ Len(frames) \in DOMAIN frames
         /\ frames[Len(frames)] \in Frame
         /\ Front(frames) \in Seq(Frame) /\ Len(Front(frames)) = Len(frames) - 1
         /\ \A i \in 1..(Len(frames) - 1) : Front(frames)[i] = frames[i]
<1>1. Len(frames) \in Nat \ {0}
  OBVIOUS
<1>2. Len(frames) \in DOMAIN frames
  BY <1>1
<1>3. frames[Len(frames)] \in Frame
  BY <1>2
<1>4. /\ SubSeq(frames, 1, Len(frames) - 1) \in Seq(Frame)
      /\ Len(SubSeq(frames, 1, Len(frames) - 1)) = Len(frames) - 1
      /\ \A i \in 1..(Len(frames) - 1) : SubSeq(frames, 1, Len(frames) - 1)[i] = frames[i]
  <2>1. \A i \in 1..(Len(frames) - 1) : frames[i] \in Frame
    BY <1>1
  <2>2. 1 \in Int /\ Len(frames) - 1 \in Int
    BY <1>1
  <2>3. /\ SubSeq(frames, 1, Len(frames) - 1) \in Seq(Frame)
        /\ Len(SubSeq(frames, 1, Len(frames) - 1)) =
             IF 1 <= Len(frames) - 1 THEN (Len(frames) - 1) - 1 + 1 ELSE 0
        /\ \A i \in 1..((Len(frames) - 1) - 1 + 1) :
             SubSeq(frames, 1, Len(frames) - 1)[i] = frames[1 + i - 1]
    BY <2>1, <2>2, SubSeqProperties
  <2> DEFINE sub == SubSeq(frames, 1, Len(frames) - 1)
  <2> HIDE DEF sub
  <2>4. /\ sub \in Seq(Frame)
        /\ Len(sub) = IF 1 <= Len(frames) - 1 THEN (Len(frames) - 1) - 1 + 1 ELSE 0
        /\ \A i \in 1..((Len(frames) - 1) - 1 + 1) : sub[i] = frames[1 + i - 1]
    BY <2>3 DEF sub
  <2>5. Len(sub) = Len(frames) - 1
    <3> DEFINE n == Len(frames)
    <3>1. n \in Nat \ {0} /\ Len(sub) = IF 1 <= n - 1 THEN (n - 1) - 1 + 1 ELSE 0
      BY <1>1, <2>4
    <3> HIDE DEF n
    <3>2. Len(sub) = n - 1
      BY <3>1
    <3>3. QED
      BY <3>2 DEF n
  <2>6. ASSUME NEW i \in 1..(Len(frames) - 1) PROVE sub[i] = frames[i]
    <3>1. i \in 1..((Len(frames) - 1) - 1 + 1) /\ 1 + i - 1 = i
      BY <1>1
    <3>2. QED
      BY <2>4, <3>1
  <2>7. QED
    BY <2>4, <2>5, <2>6 DEF sub
<1>5. QED
  BY <1>1, <1>2, <1>3, <1>4 DEF Front

LEMMA PartDoneFacts ==
  ASSUME NEW frames \in Seq(Frame), NEW l \in LlvmType
  PROVE  /\ PartDone(frames, l) \in Seq(Frame)
         /\ Len(PartDone(frames, l)) = Len(frames)
         /\ \A i \in 1..Len(frames) : PartDone(frames, l)[i].name = frames[i].name
         /\ \A i \in 1..Len(frames) : i # Len(frames) => PartDone(frames, l)[i] = frames[i]
         /\ frames # <<>> =>
              LET t == frames[Len(frames)] IN
              PartDone(frames, l)[Len(frames)].done =
                Append(t.done, Through(PartOf(t.name, Len(t.done) + 1), l))
<1>1. CASE frames = <<>>
  BY <1>1 DEF PartDone
<1>2. CASE frames # <<>>
  <2> DEFINE t == frames[Len(frames)]
             p == PartOf(t.name, Len(t.done) + 1)
             new == [t EXCEPT !.done = Append(@, Through(p, l))]
  <2>1. Len(frames) \in Nat \ {0} /\ t \in Frame
    BY <1>2, TopFacts
  <2>2. Through(p, l) \in LlvmType
    BY DEF Through, Lowered, LlvmType
  <2>3. new \in Frame /\ new.name = t.name /\ new.done = Append(t.done, Through(p, l))
    <3> HIDE DEF p, t
    <3>1. t.name \in Names /\ t.done \in Seq(LlvmType)
      BY <2>1 DEF Frame
    <3>2. Append(t.done, Through(p, l)) \in Seq(LlvmType)
      BY <2>2, <3>1
    <3>3. QED
      BY <2>1, <3>1, <3>2 DEF Frame
  <2>4. PartDone(frames, l) = Append(Front(frames), new)
    BY <1>2 DEF PartDone, Last, PartOf
  <2>5. /\ Append(Front(frames), new) \in Seq(Frame)
        /\ Len(Append(Front(frames), new)) = Len(frames)
        /\ Append(Front(frames), new)[Len(frames)] = new
        /\ \A i \in 1..Len(frames) : i # Len(frames) =>
             Append(Front(frames), new)[i] = frames[i]
    <3> HIDE DEF new
    <3>1. /\ Front(frames) \in Seq(Frame) /\ Len(Front(frames)) = Len(frames) - 1
          /\ \A i \in 1..(Len(frames) - 1) : Front(frames)[i] = frames[i]
      BY <1>2, TopFacts
    <3> DEFINE front == Front(frames)
    <3> HIDE DEF front
    <3>2. /\ Append(front, new) \in Seq(Frame) /\ Len(Append(front, new)) = Len(front) + 1
          /\ Append(front, new)[Len(front) + 1] = new
          /\ \A i \in 1..Len(front) : Append(front, new)[i] = front[i]
      BY <2>3, <3>1 DEF front
    <3>3. QED
      BY <2>1, <3>1, <3>2 DEF front
  <2> DEFINE all == PartDone(frames, l)
  <2> HIDE DEF new, all
  <2>6. /\ all \in Seq(Frame) /\ Len(all) = Len(frames) /\ all[Len(frames)] = new
        /\ \A i \in 1..Len(frames) : i # Len(frames) => all[i] = frames[i]
    BY <2>4, <2>5 DEF all
  <2>7. \A i \in 1..Len(frames) : all[i].name = frames[i].name
    BY <2>3, <2>6
  <2>8. all[Len(frames)].done = Append(t.done, Through(p, l))
    BY <2>3, <2>6
  <2>9. QED
    BY <2>6, <2>7, <2>8 DEF all
<1>3. QED
  BY <1>1, <1>2

LEMMA FramesReturned ==
  ASSUME Inv, NEW frames \in Seq(Frame), NEW l \in LlvmType,
         Len(frames) <= Len(stack), \A i \in 1..Len(frames) : frames[i] = stack[i],
         Returned(frames, l), UNCHANGED <<defs, made>>, stack' = PartDone(frames, l)
  PROVE  /\ Lowering'
         /\ stack' \in Seq(Frame) /\ Len(stack') = Len(frames)
         /\ \A i \in 1..Len(frames) : stack'[i].name = stack[i].name
<1> DEFINE n == Len(frames)
<1>1. /\ stack' \in Seq(Frame) /\ Len(stack') = n /\ n \in Nat
      /\ DOMAIN stack' = 1..n /\ stack \in Seq(Frame) /\ n <= Len(stack) /\ Len(stack) \in Nat
      /\ DOMAIN stack = 1..Len(stack)
      /\ \A i \in 1..n : stack'[i].name = stack[i].name
      /\ \A i \in 1..n : i # n => stack'[i] = stack[i]
      /\ \A i \in 1..n : frames[i] = stack[i]
  BY PartDoneFacts DEF Inv, Typed
<1> HIDE DEF n
<1>2. Meaning' = Meaning
  BY MeaningKept
<1>3. ASSUME NEW i \in 1..n
      PROVE  /\ defs[stack'[i].name].kind \in {"struct", "alias"}
             /\ defs[stack'[i].name].kind = "struct" => stack'[i].name \in made
             /\ Len(stack'[i].done) <= Len(defs[stack'[i].name].parts)
             /\ DoneRight(stack'[i].name, stack'[i].done)
             /\ i # Len(stack') =>
                  /\ Len(stack'[i].done) < Len(defs[stack'[i].name].parts)
                  /\ PartOf(stack'[i].name, Len(stack'[i].done) + 1).name = stack'[i + 1].name
  <2>1. i \in DOMAIN stack
    BY <1>1
  <2>2. CASE i # n
    <3>1. i + 1 \in 1..n /\ i # Len(stack) /\ i # Len(stack')
      <4>1. n \in Nat /\ Len(stack') = n /\ n <= Len(stack) /\ Len(stack) \in Nat
        BY <1>1
      <4>2. QED
        BY <2>2, <4>1
    <3>2. stack'[i] = stack[i] /\ stack'[i + 1].name = stack[i + 1].name
      BY <1>1, <2>2, <3>1
    <3>3. QED
      BY <2>1, <3>1, <3>2 DEF Inv, Lowering
  <2>3. CASE i = n
    <3> DEFINE t == stack[n]
               k == Len(t.done) + 1
    <3>1. frames # <<>> /\ frames[n] = t /\ stack'[n].name = t.name /\ t \in Frame
      <4>1. frames # <<>>
        BY <2>3 DEF n
      <4>2. QED
        BY <1>1, <2>1, <2>3, <4>1
    <3>2. /\ Len(t.done) < Len(defs[t.name].parts)
          /\ l = Meaning[PartOf(t.name, k).name] /\ l.to \in made \cup {Base}
      BY <3>1 DEF Returned, n
    <3>3. stack'[n].done = Append(t.done, Through(PartOf(t.name, k), l))
      BY <3>1, PartDoneFacts DEF n
    <3>4. /\ defs[t.name].kind \in {"struct", "alias"} /\ DoneRight(t.name, t.done)
          /\ defs[t.name].kind = "struct" => t.name \in made
      BY <2>1, <2>3 DEF Inv, Lowering
    <3>5. t.done \in Seq(LlvmType) /\ Len(t.done) \in Nat /\ Len(defs[t.name].parts) \in Nat
      <4>1. Typed
        BY DEF Inv
      <4> HIDE DEF t
      <4>2. t.name \in Names /\ t.done \in Seq(LlvmType)
        BY <3>1 DEF Frame
      <4>3. defs[t.name].parts \in Seq(Types)
        BY <4>1, <4>2, DefsFacts
      <4>4. QED
        BY <4>2, <4>3
    <3>6. Right(t.name, k, Through(PartOf(t.name, k), l))
      BY <3>2 DEF Right
    <3> DEFINE new == Through(PartOf(t.name, k), l)
    <3> HIDE DEF new
    <3>7. DoneRight(t.name, Append(t.done, new)) /\ Len(Append(t.done, new)) = Len(t.done) + 1
      <4>1. /\ DOMAIN Append(t.done, new) = 1..k /\ Append(t.done, new)[k] = new
            /\ \A j \in 1..k : j # k => j \in DOMAIN t.done /\ Append(t.done, new)[j] = t.done[j]
        <5> DEFINE s == t.done
        <5>1. s \in Seq(LlvmType) /\ k = Len(s) + 1
          BY <3>5
        <5> HIDE DEF s, k
        <5>2. QED
          BY <5>1 DEF s
      <4>2. QED
        BY <3>4, <3>5, <3>6, <4>1 DEF DoneRight, new
    <3>8. stack'[i].name = t.name /\ stack'[i].done = Append(t.done, new) /\ i = Len(stack')
      BY <1>1, <2>3, <3>1, <3>3 DEF new
    <3>9. Len(t.done) + 1 <= Len(defs[t.name].parts)
      <4>1. \A a, b \in Nat : a < b => a + 1 <= b
        OBVIOUS
      <4> HIDE DEF t, k
      <4>2. QED
        BY <3>2, <3>5, <4>1
    <3> HIDE DEF t
    <3>10. QED
      BY <3>4, <3>7, <3>8, <3>9
  <2>4. QED
    BY <2>2, <2>3
<1>4. Lowering'
  <2>1. \A i \in DOMAIN stack' : i \in 1..n
    BY <1>1
  <2>2. QED
    <3>1. ASSUME NEW i \in DOMAIN stack'
          PROVE  DoneRight(stack[i].name, stack[i].done)'
      <4>1. \A k \in DOMAIN stack'[i].done :
              Right(stack'[i].name, k, stack'[i].done[k])
        BY <1>3, <2>1 DEF DoneRight
      <4>2. QED
        BY <1>2, <4>1 DEF DoneRight, Right, PartOf
    <3>2. QED
      BY <1>3, <2>1, <3>1 DEF Lowering, PartOf
<1>5. QED
  BY <1>1, <1>4 DEF n

-----------------------------------------------------------------------------
(* The frame on top. *)
LEMMA TopIs ==
  ASSUME Inv, stack # <<>>
  PROVE  /\ stack \in Seq(Frame) /\ Top \in Frame /\ Top.name \in Names /\ Top.done \in Seq(LlvmType)
         /\ Len(stack) \in Nat \ {0} /\ Len(stack) \in DOMAIN stack
         /\ TopDef = defs[Top.name] /\ TopDef.kind \in {"struct", "alias"}
         /\ TopDef.parts \in Seq(Types)
         /\ TopDef.kind = "struct" => Top.name \in made
         /\ Len(Top.done) <= Len(TopDef.parts) /\ DoneRight(Top.name, Top.done)
<1>1. stack \in Seq(Frame)
  BY DEF Inv, Typed
<1>2. Top \in Frame /\ Len(stack) \in Nat \ {0} /\ Len(stack) \in DOMAIN stack
  BY <1>1, TopFacts DEF Top
<1>3. Top.name \in Names /\ Top.done \in Seq(LlvmType)
  BY <1>2 DEF Frame
<1>4. /\ defs[Top.name].kind \in {"struct", "alias"}
      /\ defs[Top.name].kind = "struct" => Top.name \in made
      /\ Len(Top.done) <= Len(defs[Top.name].parts) /\ DoneRight(Top.name, Top.done)
  BY <1>2 DEF Inv, Lowering, Top
<1>5. defs[Top.name].parts \in Seq(Types)
  BY <1>3, DefsFacts DEF Inv
<1>6. QED
  BY <1>1, <1>2, <1>3, <1>4, <1>5 DEF TopDef

LEMMA PartIs ==
  ASSUME Inv, stack # <<>>, InPart
  PROVE  /\ Part = PartOf(Top.name, Len(Top.done) + 1)
         /\ Part.name \in Names \cup {Base}
<1>1. Part = PartOf(Top.name, Len(Top.done) + 1)
  BY DEF Part, TopDef, PartOf
<1>2. Len(Top.done) \in Nat /\ Len(Top.done) + 1 <= Len(defs[Top.name].parts) /\ Top.name \in Names
  <2>1. Len(Top.done) \in Nat /\ Len(TopDef.parts) \in Nat /\ Top.name \in Names
    BY TopIs
  <2>2. QED
    BY <2>1 DEF InPart, TopDef
<1>3. Part \in Types
  BY <1>1, <1>2, DefsFacts DEF Inv
<1>4. QED
  BY <1>1, <1>3 DEF Types

(* The frames that are left when the top one returns. *)
LEMMA BelowTop ==
  ASSUME Inv, stack # <<>>
  PROVE  /\ Front(stack) \in Seq(Frame) /\ Len(Front(stack)) = Len(stack) - 1
         /\ \A i \in 1..Len(Front(stack)) : Front(stack)[i] = stack[i]
         /\ Front(stack) # <<>> =>
              LET t == Front(stack)[Len(Front(stack))] IN
                /\ Len(t.done) < Len(defs[t.name].parts)
                /\ PartOf(t.name, Len(t.done) + 1).name = Top.name
<1>1. /\ stack \in Seq(Frame) /\ Len(stack) \in Nat \ {0}
      /\ Front(stack) \in Seq(Frame) /\ Len(Front(stack)) = Len(stack) - 1
      /\ \A i \in 1..(Len(stack) - 1) : Front(stack)[i] = stack[i]
  BY TopIs, TopFacts
<1>2. ASSUME Front(stack) # <<>>
      PROVE  LET t == stack[Len(stack) - 1] IN
             /\ Front(stack)[Len(Front(stack))] = t
             /\ Len(t.done) < Len(defs[t.name].parts)
             /\ PartOf(t.name, Len(t.done) + 1).name = Top.name
  <2>1. Len(Front(stack)) \in Nat \ {0}
    BY <1>1, <1>2, TopFacts
  <2>2. /\ Len(stack) - 1 \in 1..(Len(stack) - 1) /\ Len(stack) - 1 \in DOMAIN stack
        /\ Len(stack) - 1 # Len(stack) /\ (Len(stack) - 1) + 1 = Len(stack)
    BY <1>1, <2>1
  <2>3. QED
    BY <1>1, <2>2 DEF Inv, Lowering, Top
<1>3. QED
  BY <1>1, <1>2

LEMMA AnswerPartInv ==
  ASSUME Inv, AnswerPart
  PROVE  Inv'
<1> DEFINE l == Lowered(FALSE, Part.name)
<1>1. /\ stack # <<>> /\ InPart /\ Part.name \in made \cup {Base}
      /\ stack' = PartDone(stack, l) /\ UNCHANGED <<defs, made, bodies>>
  BY DEF AnswerPart, InPart
<1>2. /\ Part = PartOf(Top.name, Len(Top.done) + 1) /\ Part.name \in Names \cup {Base}
  BY <1>1, PartIs
<1>3. ~IsAlias(Part.name)
  BY <1>1, DefsFacts DEF Inv, Typed, IsAlias
<1>4. Meaning[Part.name] = l
  BY <1>2, <1>3, DenotesItself DEF Meaning
<1>5. l \in LlvmType /\ l.to = Part.name
  BY <1>2 DEF LlvmType, Lowered
<1> HIDE DEF l
<1>6. stack \in Seq(Frame) /\ Len(stack) \in Nat
  BY DEF Inv, Typed
<1>7. Returned(stack, l)
  BY <1>1, <1>2, <1>4, <1>5 DEF Returned, Top, InPart, TopDef
<1>8. /\ Lowering' /\ stack' \in Seq(Frame) /\ Len(stack') = Len(stack)
      /\ \A i \in 1..Len(stack) : stack'[i].name = stack[i].name
  BY <1>1, <1>5, <1>6, <1>7, FramesReturned
<1>9. Typed'
  BY <1>1, <1>8 DEF Inv, Typed
<1>10. Making'
  <2>1. \A n : OnStack(n) => OnStack(n)'
    <3>1. DOMAIN stack = 1..Len(stack) /\ DOMAIN stack' = 1..Len(stack)
      BY <1>6, <1>8
    <3>2. QED
      BY <1>8, <3>1 DEF OnStack
  <2>2. \A n : Complete(n) => Complete(n)'
    <3>1. Meaning' = Meaning
      BY <1>1, MeaningKept
    <3>2. QED
      BY <1>1, <3>1 DEF Complete, DoneRight, Right, PartOf
  <2>3. QED
    BY <1>1, <2>1, <2>2 DEF Inv, Making
<1>11. QED
  BY <1>8, <1>9, <1>10 DEF Inv

(* The frames under the top one are still there when it has returned. *)
LEMMA Popped ==
  ASSUME Inv, stack # <<>>, NEW l \in LlvmType, stack' = PartDone(Front(stack), l),
         UNCHANGED <<defs, made>>, l = Meaning[Top.name], l.to \in made \cup {Base}
  PROVE  /\ Lowering' /\ stack' \in Seq(Frame) /\ Meaning' = Meaning
         /\ Len(stack') = Len(stack) - 1
         /\ \A i \in 1..Len(stack') : stack'[i].name = stack[i].name
         /\ \A n : OnStack(n) => n = Top.name \/ OnStack(n)'
<1> DEFINE below == Front(stack)
<1>1. /\ stack \in Seq(Frame) /\ Len(stack) \in Nat \ {0}
      /\ below \in Seq(Frame) /\ Len(below) = Len(stack) - 1
      /\ \A i \in 1..Len(below) : below[i] = stack[i]
      /\ below # <<>> =>
           LET t == below[Len(below)] IN
             /\ Len(t.done) < Len(defs[t.name].parts)
             /\ PartOf(t.name, Len(t.done) + 1).name = Top.name
  BY TopIs, BelowTop
<1>2. Returned(below, l)
  BY <1>1 DEF Returned
<1>3. stack' = PartDone(below, l)
  OBVIOUS
<1> HIDE DEF below
<1>4. /\ Lowering' /\ stack' \in Seq(Frame) /\ Len(stack') = Len(below)
      /\ \A i \in 1..Len(below) : stack'[i].name = stack[i].name
  <2>1. Len(below) <= Len(stack)
    BY <1>1
  <2>2. QED
    BY <1>1, <1>2, <1>3, <2>1, FramesReturned
<1>5. ASSUME NEW n, OnStack(n), n # Top.name PROVE OnStack(n)'
  <2>1. PICK i \in DOMAIN stack : stack[i].name = n
    BY <1>5 DEF OnStack
  <2>2. i \in 1..Len(below) /\ i \in DOMAIN stack'
    <3>1. i # Len(stack)
      BY <1>5, <2>1 DEF Top
    <3>2. i \in 1..Len(stack) /\ DOMAIN stack' = 1..Len(below)
      BY <1>1, <1>4
    <3>3. QED
      BY <1>1, <3>1, <3>2
  <2>3. stack'[i].name = n
    BY <1>4, <2>1, <2>2
  <2>4. QED
    BY <2>2, <2>3 DEF OnStack
<1>6. QED
  BY <1>1, <1>4, <1>5, MeaningKept

(* A frame with all its parts is what its definition asks for. *)
LEMMA StructReturns ==
  ASSUME Inv, FinishStruct
  PROVE  /\ stack # <<>> /\ Top.name \in Names /\ DoneRight(Top.name, Top.done)
         /\ Len(Top.done) = Len(defs[Top.name].parts)
         /\ made' = made /\ defs' = defs /\ bodies' \in [Names -> Seq(LlvmType)]
         /\ bodies'[Top.name] = Top.done
         /\ \A n \in Names : n # Top.name => bodies'[n] = bodies[n]
         /\ Lowered(FALSE, Top.name) \in LlvmType /\ Top.name \in made
         /\ Lowered(FALSE, Top.name) = Meaning[Top.name]
         /\ stack' = PartDone(Front(stack), Lowered(FALSE, Top.name))
<1> DEFINE l == Lowered(FALSE, Top.name)
<1>1. /\ stack # <<>> /\ ~InPart /\ TopDef.kind = "struct"
      /\ bodies' = [bodies EXCEPT ![Top.name] = Top.done]
      /\ made' = made \cup {Top.name} /\ stack' = PartDone(Front(stack), l) /\ defs' = defs
  BY DEF FinishStruct
<1>2. /\ Top.name \in Names /\ Top.name \in made /\ defs[Top.name].kind = "struct"
      /\ Top.done \in Seq(LlvmType) /\ DoneRight(Top.name, Top.done)
      /\ Len(Top.done) = Len(defs[Top.name].parts)
  <2>1. Len(Top.done) \in Nat /\ Len(TopDef.parts) \in Nat
    BY <1>1, TopIs
  <2>2. QED
    BY <1>1, <2>1, TopIs DEF InPart
<1>3. made' = made
  BY <1>1, <1>2
<1>4. /\ bodies \in [Names -> Seq(LlvmType)] /\ bodies' \in [Names -> Seq(LlvmType)]
      /\ bodies'[Top.name] = Top.done
      /\ \A n \in Names : n # Top.name => bodies'[n] = bodies[n]
  BY <1>1, <1>2 DEF Inv, Typed
<1>5. Meaning[Top.name] = l
  BY <1>2, DenotesItself DEF Meaning, IsAlias
<1>6. l \in LlvmType /\ l.to \in made \cup {Base}
  BY <1>2 DEF LlvmType, Lowered
<1>7. QED
  BY <1>1, <1>2, <1>3, <1>4, <1>5, <1>6

LEMMA FinishStructInv ==
  ASSUME Inv, FinishStruct
  PROVE  Inv'
<1> DEFINE l == Lowered(FALSE, Top.name)
<1>1. /\ stack # <<>> /\ stack' = PartDone(Front(stack), l) /\ defs' = defs
  BY StructReturns
<1>2. /\ Top.name \in Names /\ DoneRight(Top.name, Top.done)
      /\ Len(Top.done) = Len(defs[Top.name].parts)
  BY StructReturns
<1>3. made' = made
  BY StructReturns
<1>4. /\ bodies' \in [Names -> Seq(LlvmType)] /\ bodies'[Top.name] = Top.done
      /\ \A n \in Names : n # Top.name => bodies'[n] = bodies[n]
  BY StructReturns
<1>5. Meaning[Top.name] = l
  BY StructReturns
<1>6. l \in LlvmType /\ l.to \in made \cup {Base}
  BY StructReturns DEF Lowered
<1> HIDE DEF l
<1>7. /\ Lowering' /\ stack' \in Seq(Frame) /\ Meaning' = Meaning
      /\ \A n : OnStack(n) => n = Top.name \/ OnStack(n)'
  BY <1>1, <1>3, <1>5, <1>6, Popped
<1>8. Typed'
  BY <1>1, <1>3, <1>4, <1>7 DEF Inv, Typed
<1>9. ASSUME NEW n \in made PROVE OnStack(n)' \/ Complete(n)'
  <2>1. n \in Names /\ (OnStack(n) \/ Complete(n))
    BY DEF Inv, Typed, Making
  <2>2. CASE n = Top.name
    <3>1. bodies'[n] = Top.done
      BY <1>4, <2>2
    <3>2. QED
      BY <1>1, <1>2, <1>3, <1>7, <2>2, <3>1 DEF Complete, DoneRight, Right, PartOf
  <2>3. CASE n # Top.name /\ OnStack(n)
    BY <1>7, <2>3
  <2>4. CASE n # Top.name /\ Complete(n)
    <3>1. bodies'[n] = bodies[n]
      BY <1>4, <2>1, <2>4
    <3>2. QED
      BY <1>1, <1>3, <1>7, <2>4, <3>1 DEF Complete, DoneRight, Right, PartOf
  <2>5. QED
    BY <2>1, <2>2, <2>3, <2>4
<1>10. Making'
  BY <1>3, <1>9 DEF Making
<1>11. QED
  BY <1>7, <1>8, <1>10 DEF Inv

(* An alias is what its type is. *)
LEMMA AliasReturns ==
  ASSUME Inv, FinishAlias
  PROVE  /\ stack # <<>> /\ Top.name \in Names /\ defs[Top.name].kind = "alias"
         /\ UNCHANGED <<defs, made, bodies>>
         /\ Top.done[1] \in LlvmType /\ Top.done[1] = Meaning[Top.name]
         /\ Top.done[1].to \in made \cup {Base}
         /\ stack' = PartDone(Front(stack), Top.done[1])
<1> DEFINE l == Top.done[1]
           part == PartOf(Top.name, 1)
<1>1. /\ stack # <<>> /\ ~InPart /\ TopDef.kind = "alias"
      /\ stack' = PartDone(Front(stack), l) /\ UNCHANGED <<defs, made, bodies>>
  BY DEF FinishAlias
<1>2. /\ Top.name \in Names /\ defs[Top.name].kind = "alias"
      /\ Top.done \in Seq(LlvmType) /\ DoneRight(Top.name, Top.done) /\ Len(Top.done) = 1
  <2>1. Len(Top.done) \in Nat /\ Len(TopDef.parts) \in Nat /\ Len(Top.done) <= Len(TopDef.parts)
    BY <1>1, TopIs
  <2>2. Top.name \in Names /\ TopDef = defs[Top.name]
    BY <1>1, TopIs
  <2>3. Len(TopDef.parts) = 1
    BY <1>1, <2>2, DefsFacts DEF Inv
  <2>4. Len(Top.done) = 1
    <3> DEFINE d == Len(Top.done)
               p == Len(TopDef.parts)
    <3>1. d \in Nat /\ d <= p /\ p = 1 /\ ~(d < p)
      BY <1>1, <2>1, <2>3 DEF InPart
    <3> HIDE DEF d, p
    <3>2. d = 1
      BY <3>1
    <3>3. QED
      BY <3>2 DEF d
  <2>5. QED
    BY <1>1, <2>2, <2>4, TopIs
<1>3. 1 \in DOMAIN Top.done /\ l \in LlvmType
  <2> DEFINE done == Top.done
  <2>1. done \in Seq(LlvmType) /\ Len(done) = 1
    BY <1>2
  <2> HIDE DEF done
  <2>2. 1 \in DOMAIN done /\ done[1] \in LlvmType
    BY <2>1
  <2>3. QED
    BY <2>2 DEF done
<1>4. Right(Top.name, 1, l)
  BY <1>2, <1>3 DEF DoneRight
<1>5. part.name \in Names \cup {Base}
  <2>1. 0 \in Nat /\ 0 + 1 <= Len(defs[Top.name].parts)
    <3>1. Len(defs[Top.name].parts) = 1
      BY <1>2, DefsFacts DEF Inv
    <3>2. QED
      BY <3>1
  <2>2. PartOf(Top.name, 0 + 1) \in Types
    BY <1>2, <2>1, DefsFacts DEF Inv
  <2>3. QED
    BY <2>2 DEF Types
<1>6. /\ l = Through(part, Denotes(part.name)) /\ Denotes(part.name).to \in made \cup {Base}
  BY <1>4, <1>5 DEF Right, Meaning
<1>7. l.to \in made \cup {Base}
  BY <1>6, ThroughFacts
<1>8. l = Meaning[Top.name]
  <2>1. IsAlias(Top.name) /\ ~IsAlias(Denotes(part.name).to)
    BY <1>2, <1>6, DefsFacts DEF IsAlias, Inv, Typed
  <2>2. Denotes(Top.name) = l
    BY <1>6, <2>1, DenotesItsType
  <2>3. QED
    BY <1>2, <2>2 DEF Meaning
<1>9. QED
  BY <1>1, <1>2, <1>3, <1>7, <1>8

LEMMA FinishAliasInv ==
  ASSUME Inv, FinishAlias
  PROVE  Inv'
<1> DEFINE l == Top.done[1]
<1>1. /\ stack # <<>> /\ stack' = PartDone(Front(stack), l) /\ UNCHANGED <<defs, made, bodies>>
  BY AliasReturns
<1>2. Top.name \in Names /\ defs[Top.name].kind = "alias"
  BY AliasReturns
<1>3. l \in LlvmType /\ l.to \in made \cup {Base} /\ l = Meaning[Top.name]
  BY AliasReturns
<1> HIDE DEF l
<1>9. /\ Lowering' /\ stack' \in Seq(Frame) /\ Meaning' = Meaning
      /\ \A n : OnStack(n) => n = Top.name \/ OnStack(n)'
  BY <1>1, <1>3, Popped
<1>10. Typed'
  BY <1>1, <1>9 DEF Inv, Typed
<1>11. ASSUME NEW n \in made PROVE OnStack(n)' \/ Complete(n)'
  <2>1. n \in Names /\ n # Top.name /\ (OnStack(n) \/ Complete(n))
    BY <1>2 DEF Inv, Typed, Making
  <2>2. CASE OnStack(n)
    BY <1>9, <2>1, <2>2
  <2>3. CASE Complete(n)
    BY <1>1, <1>9, <2>3 DEF Complete, DoneRight, Right, PartOf
  <2>4. QED
    BY <2>1, <2>2, <2>3
<1>12. Making'
  BY <1>1, <1>11 DEF Making
<1>13. QED
  BY <1>9, <1>10, <1>12 DEF Inv

LEMMA EnterInv ==
  ASSUME Inv, NEW n \in Names, Enter(n), stack # <<>> => InPart /\ Part.name = n
  PROVE  Inv'
<1>1. UNCHANGED <<defs, bodies>>
  BY DEF Enter
<1>2. CASE UNCHANGED <<made, stack>>
  BY <1>1, <1>2, Same
<1>3. CASE /\ defs[n].kind # "none" /\ made' = Opaque(n)
           /\ stack' = Append(stack, [name |-> n, done |-> <<>>])
  BY <1>1, <1>3, Pushed
<1>4. QED
  BY <1>2, <1>3 DEF Enter

LEMMA NextInv == Inv /\ [Next]_vars => Inv'
<1> SUFFICES ASSUME Inv, [Next]_vars PROVE Inv'
  OBVIOUS
<1>1. ASSUME NEW n \in Names, Ask(n) PROVE Inv'
  BY <1>1, EnterInv DEF Ask
<1>2. CASE AnswerPart
  BY <1>2, AnswerPartInv
<1>3. CASE EnterPart
  <2>1. stack # <<>> /\ InPart /\ Enter(Part.name) /\ Part.name # Base
    BY <1>3 DEF EnterPart, InPart
  <2>2. Part.name \in Names
    BY <2>1, PartIs
  <2>3. QED
    BY <2>1, <2>2, EnterInv
<1>4. CASE FinishStruct
  BY <1>4, FinishStructInv
<1>5. CASE FinishAlias
  BY <1>5, FinishAliasInv
<1>6. CASE UNCHANGED vars
  BY <1>6, Same DEF vars
<1>7. QED
  BY <1>1, <1>2, <1>3, <1>4, <1>5, <1>6 DEF Next

LEMMA InvComplete == Inv => BodiesComplete
<1> SUFFICES ASSUME Inv, Idle, NEW n \in made
    PROVE  /\ Len(bodies[n]) = Len(defs[n].parts)
           /\ \A k \in DOMAIN bodies[n] :
                LET d == Denotes(defs[n].parts[k].name) IN
                  /\ bodies[n][k] = Lowered(defs[n].parts[k].wrap = "ptr" \/ d.ptr, d.to)
                  /\ d.to \in made \cup {Base}
  BY DEF BodiesComplete
<1>1. Complete(n)
  BY DEF Inv, Making, OnStack, Idle
<1>2. n \in Names /\ defs[n].parts \in Seq(Types) /\ bodies[n] \in Seq(LlvmType)
  BY DefsFacts DEF Inv, Typed
<1>3. Len(bodies[n]) = Len(defs[n].parts) /\ DOMAIN bodies[n] = DOMAIN defs[n].parts
  BY <1>1, <1>2 DEF Complete
<1>4. ASSUME NEW k \in DOMAIN bodies[n]
      PROVE  /\ bodies[n][k] = Through(PartOf(n, k), Denotes(PartOf(n, k).name))
             /\ Denotes(PartOf(n, k).name).to \in made \cup {Base}
  <2>1. PartOf(n, k) \in Types
    BY <1>2, <1>3 DEF PartOf
  <2>2. PartOf(n, k).name \in Names \cup {Base}
    BY <2>1 DEF Types
  <2>3. Right(n, k, bodies[n][k])
    BY <1>1 DEF Complete, DoneRight
  <2>4. QED
    BY <2>2, <2>3 DEF Right, Meaning
<1>5. QED
  BY <1>3, <1>4 DEF Through, PartOf

-----------------------------------------------------------------------------
(***************************************************************************)
(* What a name reaches: Reached(n) is closed under Parts, as every round   *)
(* but the last adds a name.                                               *)
(***************************************************************************)
Wider(w) == w \cup UNION {Parts(m) : m \in w}
Rounds(w, n) ==
  w[0] = {n} /\ \A k \in 1..Count : w[k] = Wider(w[k - 1])

LEMMA RoundsExist ==
  ASSUME NEW n
  PROVE  \E w : Rounds(w, n) /\ Reached(n) = w[Count]
<1> DEFINE Walk(w, j) ==
             w = [k \in 0..j |-> IF k = 0 THEN {n} ELSE Wider(w[k - 1])]
           T == {j \in Nat : \E w : Walk(w, j)}
<1>1. 0 \in T
  <2> DEFINE g == [k \in 0..0 |-> {n}]
  <2>1. Walk(g, 0)
    OBVIOUS
  <2>2. QED
    BY <2>1
<1>2. ASSUME NEW j \in 1..Count, j - 1 \in T
      PROVE  j \in T
  <2>1. PICK f : Walk(f, j - 1)
    BY <1>2
  <2> DEFINE g == [k \in 0..j |-> IF k = j THEN Wider(f[j - 1]) ELSE f[k]]
  <2>2. j \in Nat /\ j # 0
    BY CountNat
  <2>3. ASSUME NEW k \in 0..j
        PROVE  g[k] = IF k = 0 THEN {n} ELSE Wider(g[k - 1])
    <3>1. CASE k = 0
      <4>1. 0 \in 0..(j - 1) /\ 0 # j
        BY <2>2
      <4>2. f[0] = {n}
        BY <2>1, <4>1
      <4>3. g[0] = f[0]
        BY <2>2, <4>1
      <4>4. QED
        BY <3>1, <4>2, <4>3
    <3>2. CASE k # 0
      <4>1. k - 1 \in 0..j /\ k - 1 # j /\ k - 1 \in 0..(j - 1)
        BY <2>2, <3>2
      <4>2. g[k - 1] = f[k - 1]
        BY <4>1
      <4>3. CASE k = j
        BY <3>2, <4>2, <4>3
      <4>4. CASE k # j
        <5>1. k \in 0..(j - 1) /\ g[k] = f[k]
          BY <2>2, <4>4
        <5>2. QED
          BY <2>1, <3>2, <4>2, <5>1
      <4>5. QED
        BY <4>3, <4>4
    <3>3. QED
      BY <3>1, <3>2
  <2>4. Walk(g, j)
    <3>1. g = [k \in 0..j |-> g[k]]
      OBVIOUS
    <3> HIDE DEF g
    <3>2. QED
      BY <2>3, <3>1
  <2>5. QED
    BY <2>2, <2>4
<1> HIDE DEF T
<1>3. Count \in T
  BY <1>1, <1>2, CountNat, Upward
<1>4. PICK f : f = [k \in 0..Count |-> IF k = 0 THEN {n} ELSE Wider(f[k - 1])]
  BY <1>3 DEF T
<1>5. PICK w : /\ w = [k \in 0..Count |-> IF k = 0 THEN {n} ELSE Wider(w[k - 1])]
               /\ Reached(n) = w[Count]
  BY <1>4 DEF Reached, Count, Wider
<1>6. w[0] = {n}
  <2>1. 0 \in 0..Count
    BY CountNat
  <2>2. QED
    BY <1>5, <2>1
<1>7. ASSUME NEW k \in 1..Count PROVE w[k] = Wider(w[k - 1])
  <2>1. k \in 0..Count /\ k # 0
    BY CountNat
  <2>2. QED
    BY <1>5, <2>1
<1>8. QED
  BY <1>5, <1>6, <1>7 DEF Rounds

LEMMA PartsNames ==
  ASSUME Typed, NEW n \in Names
  PROVE  Parts(n) \subseteq Names
<1>1. defs[n].parts \in Seq(Types)
  BY DefsFacts
<1>2. \A k \in DOMAIN defs[n].parts : defs[n].parts[k] \in Types
  BY <1>1
<1>3. QED
  BY <1>2 DEF Parts, Types

LEMMA ReachedClosed ==
  ASSUME Typed, NEW n \in Names
  PROVE  n \in Reached(n) /\ \A m \in Reached(n) : Parts(m) \subseteq Reached(n)
<1>1. PICK w : Rounds(w, n) /\ Reached(n) = w[Count]
  BY RoundsExist
<1>2. \A k \in 0..Count : n \in w[k] /\ w[k] \subseteq Names
  <2> DEFINE T == {k \in 0..Count : n \in w[k] /\ w[k] \subseteq Names}
  <2>1. 0 \in T
    BY <1>1, CountNat DEF Rounds
  <2>2. ASSUME NEW k \in 1..Count, k - 1 \in T
        PROVE  k \in T
    <3>1. w[k] = Wider(w[k - 1]) /\ k \in 0..Count
      BY <1>1, CountNat DEF Rounds
    <3>2. \A m \in w[k - 1] : Parts(m) \subseteq Names
      BY <2>2, PartsNames
    <3>3. n \in w[k] /\ w[k] \subseteq Names
      BY <2>2, <3>1, <3>2 DEF Wider
    <3>4. QED
      BY <3>1, <3>3
  <2> HIDE DEF T
  <2>3. 0..Count \subseteq T
    BY <2>1, <2>2, CountNat, Upward
  <2>4. QED
    BY <2>3 DEF T
<1>3. \E k \in 1..Count : w[k] = w[k - 1]
  <2>1. SUFFICES ASSUME \A k \in 1..Count : w[k] # w[k - 1] PROVE FALSE
    OBVIOUS
  <2> DEFINE T == {k \in 0..Count : IsFiniteSet(w[k]) /\ Cardinality(w[k]) > k}
  <2>2. 0 \in T
    <3>1. w[0] = {n}
      BY <1>1 DEF Rounds
    <3>2. IsFiniteSet({n}) /\ Cardinality({n}) = 1
      BY FS_Singleton
    <3>3. QED
      BY <3>1, <3>2, CountNat
  <2>3. ASSUME NEW k \in 1..Count, k - 1 \in T
        PROVE  k \in T
    <3>1. k \in 0..Count /\ k - 1 \in 0..Count /\ w[k] = Wider(w[k - 1])
      BY <1>1, CountNat DEF Rounds
    <3>2. w[k - 1] \subseteq w[k] /\ w[k] # w[k - 1]
      BY <2>1, <3>1 DEF Wider
    <3>3. IsFiniteSet(w[k])
      BY <1>2, <3>1, CountNat, FS_Subset
    <3>4. /\ Cardinality(w[k - 1]) <= Cardinality(w[k])
          /\ Cardinality(w[k - 1]) # Cardinality(w[k])
      BY <3>2, <3>3, FS_Subset
    <3>5. Cardinality(w[k - 1]) \in Nat /\ Cardinality(w[k]) \in Nat
      BY <2>3, <3>3, FS_CardinalityType
    <3>6. Cardinality(w[k - 1]) > k - 1
      BY <2>3
    <3>7. Cardinality(w[k]) > k
      BY <3>4, <3>5, <3>6
    <3>8. QED
      BY <3>1, <3>3, <3>7
  <2> HIDE DEF T
  <2>4. Count \in T
    BY <2>2, <2>3, CountNat, Upward
  <2>5. Cardinality(w[Count]) > Count /\ IsFiniteSet(w[Count])
    BY <2>4 DEF T
  <2>6. w[Count] \subseteq Names
    BY <1>2, CountNat
  <2>7. Cardinality(w[Count]) <= Count
    BY <2>6, CountNat, FS_Subset DEF Count
  <2>8. Cardinality(w[Count]) \in Nat
    BY <2>5, FS_CardinalityType
  <2>9. QED
    BY <2>5, <2>7, <2>8, CountNat
<1>4. PICK j \in 1..Count : w[j] = w[j - 1]
  BY <1>3
<1>5. w[j] = Wider(w[j])
  BY <1>1, <1>4 DEF Rounds
<1>6. w[Count] = w[j]
  <2> DEFINE T == {k \in 0..(Count - j) : w[j + k] = w[j]}
  <2>1. 0 \in T
    BY CountNat
  <2>2. ASSUME NEW k \in 1..(Count - j), k - 1 \in T
        PROVE  k \in T
    <3>1. j + k \in 1..Count /\ (j + k) - 1 = j + (k - 1) /\ k \in 0..(Count - j)
      BY CountNat
    <3>2. w[j + k] = Wider(w[(j + k) - 1])
      BY <1>1, <3>1 DEF Rounds
    <3>3. w[j + (k - 1)] = w[j]
      BY <2>2
    <3>4. w[j + k] = w[j]
      BY <1>5, <3>1, <3>2, <3>3
    <3>5. QED
      BY <3>1, <3>4
  <2> HIDE DEF T
  <2>3. Count - j \in T
    <3>1. Count - j \in Nat
      BY CountNat
    <3>2. QED
      BY <2>1, <2>2, <3>1, Upward
  <2>4. j + (Count - j) = Count
    BY CountNat
  <2>5. QED
    BY <2>3, <2>4 DEF T
<1>7. n \in w[Count]
  BY <1>2, CountNat
<1>8. \A m \in w[Count] : Parts(m) \subseteq w[Count]
  BY <1>5, <1>6 DEF Wider
<1>9. QED
  BY <1>1, <1>7, <1>8

(* What holds of n and is passed on to parts holds of all n reaches. *)
LEMMA ReachedWithin ==
  ASSUME NEW n, NEW G, n \in G, \A m \in G : Parts(m) \subseteq G
  PROVE  Reached(n) \subseteq G
<1>1. PICK w : Rounds(w, n) /\ Reached(n) = w[Count]
  BY RoundsExist
<1> DEFINE T == {k \in 0..Count : w[k] \subseteq G}
<1>2. 0 \in T
  BY <1>1, CountNat DEF Rounds
<1>3. ASSUME NEW k \in 1..Count, k - 1 \in T
      PROVE  k \in T
  <2>1. w[k] = Wider(w[k - 1]) /\ k \in 0..Count
    BY <1>1, CountNat DEF Rounds
  <2>2. w[k] \subseteq G
    BY <1>3, <2>1 DEF Wider
  <2>3. QED
    BY <2>1, <2>2
<1> HIDE DEF T
<1>4. Count \in T
  BY <1>2, <1>3, CountNat, Upward
<1>5. QED
  BY <1>1, <1>4 DEF T

-----------------------------------------------------------------------------
(***************************************************************************)
(* A path through the program that meets no struct twice and is longer     *)
(* than twice the names runs into a cycle of aliases: all of it up to its  *)
(* last struct is different, and the aliases behind are more than there    *)
(* are.                                                                    *)
(***************************************************************************)
IsStruct(n) == defs[n].kind = "struct"
Path(s, l) ==
  /\ s \in [1..l -> Names]
  /\ \A i \in 1..l : IsStruct(s[i]) \/ IsAlias(s[i])
  /\ \A i \in 1..(l - 1) : \E k \in DOMAIN defs[s[i]].parts : PartOf(s[i], k).name = s[i + 1]
  /\ \A i, k \in 1..l : s[i] = s[k] /\ IsStruct(s[i]) => i = k

LEMMA AliasLeads ==
  ASSUME Typed, NEW l \in Nat, NEW s, Path(s, l), NEW i \in 1..(l - 1), IsAlias(s[i])
  PROVE  s[i + 1] = PartOf(s[i], 1).name
<1>1. s[i] \in Names /\ defs[s[i]].parts \in Seq(Types) /\ Len(defs[s[i]].parts) = 1
  BY DefsFacts DEF IsAlias
<1>2. PICK k \in DOMAIN defs[s[i]].parts : PartOf(s[i], k).name = s[i + 1]
  BY DEF Path
<1> DEFINE parts == defs[s[i]].parts
<1>3. parts \in Seq(Types) /\ Len(parts) = 1 /\ k \in DOMAIN parts
  BY <1>1, <1>2
<1> HIDE DEF parts
<1>4. k = 1
  BY <1>3
<1>5. QED
  BY <1>2, <1>4

LEMMA LastStruct ==
  ASSUME NEW l \in Nat, NEW s, Path(s, l)
  PROVE  \E j \in 0..l : (j # 0 => IsStruct(s[j])) /\ \A i \in (j + 1)..l : IsAlias(s[i])
<1> DEFINE T == {m \in 0..l : \E j \in 0..m :
                   (j # 0 => IsStruct(s[j])) /\ \A i \in (j + 1)..m : IsAlias(s[i])}
<1>1. 0 \in T
  OBVIOUS
<1>2. ASSUME NEW m \in 1..l, m - 1 \in T
      PROVE  m \in T
  <2>1. PICK j \in 0..(m - 1) :
          (j # 0 => IsStruct(s[j])) /\ \A i \in (j + 1)..(m - 1) : IsAlias(s[i])
    BY <1>2
  <2>2. CASE IsStruct(s[m])
    <3>1. m \in 0..m /\ \A i \in (m + 1)..m : IsAlias(s[i])
      OBVIOUS
    <3>2. QED
      BY <2>2, <3>1
  <2>3. CASE IsAlias(s[m])
    <3>1. j \in 0..m /\ \A i \in (j + 1)..m : i = m \/ i \in (j + 1)..(m - 1)
      OBVIOUS
    <3>2. QED
      BY <2>1, <2>3, <3>1
  <2>4. QED
    BY <2>2, <2>3 DEF Path
<1> HIDE DEF T
<1>3. l \in T
  BY <1>1, <1>2, Upward
<1>4. QED
  BY <1>3 DEF T

LEMMA UpToStruct ==
  ASSUME Typed, NEW l \in Nat, NEW s, Path(s, l), NEW j \in 1..l, IsStruct(s[j])
  PROVE  j <= Count
<1>1. SUFFICES ASSUME ~(j <= Count) PROVE FALSE
  OBVIOUS
<1> DEFINE f == [i \in 1..j |-> s[i]]
<1>2. f \in [1..j -> Names]
  BY DEF Path
<1>3. IsFiniteSet(1..j) /\ Cardinality(1..j) = j
  <2>1. 1 \in Int /\ j \in Int /\ ~(1 > j) /\ j - 1 + 1 = j
    OBVIOUS
  <2>2. QED
    BY <2>1, FS_Interval
<1>4. PICK x \in 1..j, y \in 1..j : x # y /\ f[x] = f[y]
  <2>1. IsFiniteSet(Names) /\ Cardinality(Names) < Cardinality(1..j)
    BY <1>1, <1>3, CountNat DEF Count
  <2> HIDE DEF f
  <2>2. QED
    BY <1>2, <1>3, <2>1, FS_PigeonHole
<1>5. PICK a \in 1..j, b \in 1..j : a < b /\ s[a] = s[b]
  BY <1>4
<1> DEFINE T == {i \in 0..(j - b) : s[a + i] = s[b + i] /\ IsAlias(s[a + i])}
<1>6. ASSUME NEW i \in 0..(j - b), s[a + i] = s[b + i]
      PROVE  i \in T
  <2>1. a + i \in 1..l /\ b + i \in 1..l /\ a + i # b + i
    BY <1>5
  <2>2. ~IsStruct(s[a + i])
    BY <1>6, <2>1 DEF Path
  <2>3. IsAlias(s[a + i])
    BY <2>1, <2>2 DEF Path
  <2>4. QED
    BY <1>6, <2>3
<1>7. 0 \in T
  <2>1. a + 0 = a /\ b + 0 = b /\ 0 \in 0..(j - b)
    OBVIOUS
  <2> HIDE DEF T
  <2>2. QED
    BY <1>5, <1>6, <2>1
<1>8. ASSUME NEW i \in 1..(j - b), i - 1 \in T
      PROVE  i \in T
  <2>1. s[a + (i - 1)] = s[b + (i - 1)] /\ IsAlias(s[a + (i - 1)])
    BY <1>8
  <2>2. /\ a + (i - 1) \in 1..(l - 1) /\ b + (i - 1) \in 1..(l - 1) /\ i \in 0..(j - b)
        /\ (a + (i - 1)) + 1 = a + i /\ (b + (i - 1)) + 1 = b + i
    BY <1>5
  <2>3. s[a + i] = s[b + i]
    BY <2>1, <2>2, AliasLeads
  <2> HIDE DEF T
  <2>4. QED
    BY <1>6, <2>2, <2>3
<1>9. j - b \in T
  <2>1. j - b \in Nat
    OBVIOUS
  <2> HIDE DEF T
  <2>2. QED
    BY <1>7, <1>8, <2>1, Upward
<1>10. IsAlias(s[j])
  <2>1. b + (j - b) = j
    OBVIOUS
  <2>2. QED
    BY <1>9, <2>1
<1>11. QED
  BY <1>10 DEF IsAlias, IsStruct

LEMMA LongPath ==
  ASSUME Typed, NEW l \in Nat, NEW s, Path(s, l), l > 2 * Count
  PROVE  \E i \in 1..l : OnAliasCycle(s[i])
<1>1. PICK j \in 0..l : (j # 0 => IsStruct(s[j])) /\ \A i \in (j + 1)..l : IsAlias(s[i])
  BY LastStruct
<1>2. j <= Count
  <2>1. CASE j = 0
    BY <2>1, CountNat
  <2>2. CASE j # 0
    <3>1. j \in 1..l
      BY <2>2
    <3>2. QED
      BY <1>1, <2>2, <3>1, UpToStruct
  <2>3. QED
    BY <2>1, <2>2
<1> DEFINE a == j + 1
<1>3. a \in 1..l /\ a + Count <= l
  BY <1>2, CountNat
<1>4. PICK h : Hops(h, s[a]) /\ Denotes(s[a]) = h[Count]
  BY HopsExist
<1> DEFINE T == {k \in 0..Count : h[k].to = s[a + k]}
<1>5. 0 \in T
  <2>1. h[0].to = s[a] /\ a + 0 = a /\ 0 \in 0..Count
    BY <1>4, CountNat DEF Hops, Lowered
  <2>2. QED
    BY <2>1
<1>6. ASSUME NEW k \in 1..Count, k - 1 \in T
      PROVE  k \in T
  <2>1. /\ a + (k - 1) \in 1..(l - 1) /\ a + (k - 1) \in (j + 1)..l /\ (a + (k - 1)) + 1 = a + k
        /\ k \in 0..Count
    BY <1>3, CountNat
  <2>2. h[k - 1].to = s[a + (k - 1)] /\ IsAlias(s[a + (k - 1)])
    BY <1>1, <1>6, <2>1
  <2>3. h[k] = Hop(h[k - 1])
    BY <1>4 DEF Hops
  <2>4. h[k].to = PartOf(s[a + (k - 1)], 1).name
    BY <2>2, <2>3, ThroughFacts DEF Hop, Lowered
  <2>5. s[a + k] = PartOf(s[a + (k - 1)], 1).name
    BY <2>1, <2>2, AliasLeads
  <2>6. QED
    BY <2>1, <2>4, <2>5
<1> HIDE DEF T
<1>7. Count \in T
  BY <1>5, <1>6, CountNat, Upward
<1>8. Denotes(s[a]).to = s[a + Count]
  BY <1>4, <1>7 DEF T
<1>9. IsAlias(s[a + Count])
  <2>1. a + Count \in (j + 1)..l
    BY <1>3, CountNat
  <2>2. QED
    BY <1>1, <2>1
<1>10. OnAliasCycle(s[a])
  BY <1>8, <1>9 DEF OnAliasCycle, IsAlias
<1>11. QED
  BY <1>3, <1>10

-----------------------------------------------------------------------------
(***************************************************************************)
(* What the recursion is about: the name asked for is at the bottom of the *)
(* stack until it is lowered, no struct is met twice, and an overflow was  *)
(* on the way to one more name.                                            *)
(***************************************************************************)
HasLowered(n) == Meaning[n].to \in made \cup {Base}
Visiting ==
  /\ asked \subseteq Names
  /\ stack # <<>> => stack[1].name \in asked
  /\ phase = "run" => \A n \in asked : HasLowered(n) \/ (stack # <<>> /\ stack[1].name = n)
  /\ \A i, k \in DOMAIN stack : stack[i].name = stack[k].name /\ IsStruct(stack[i].name) => i = k
  /\ phase = "overflow" =>
       /\ stack # <<>> /\ InPart /\ Len(stack) = MaxDepth
       /\ Part.name \in Names \ made /\ defs[Part.name].kind # "none"

LEMMA InitVisiting == Init => Visiting
BY DEF Init, Visiting

(* A part answered, or a call returned. *)
LEMMA ReturnVisits ==
  ASSUME Inv, Visiting, phase = "run", UNCHANGED <<defs, asked, phase>>, made \subseteq made',
         stack # <<>>, stack' \in Seq(Frame), Len(stack') <= Len(stack),
         \A i \in 1..Len(stack') : stack'[i].name = stack[i].name,
         stack' = <<>> => HasLowered(stack[1].name)
  PROVE  Visiting'
<1>1. /\ stack \in Seq(Frame) /\ DOMAIN stack' = 1..Len(stack')
      /\ \A i \in DOMAIN stack' : i \in DOMAIN stack
  BY DEF Inv, Typed
<1>2. Meaning' = Meaning
  BY MeaningKept
<1>3. stack' # <<>> => stack'[1].name = stack[1].name
  <2>1. SUFFICES ASSUME stack' # <<>> PROVE stack'[1].name = stack[1].name
    OBVIOUS
  <2>2. Len(stack') \in Nat \ {0}
    BY <2>1, TopFacts
  <2>3. QED
    BY <2>2
<1>4. \A n \in asked : HasLowered(n)' \/ (stack' # <<>> /\ stack'[1].name = n)
  BY <1>2, <1>3 DEF Visiting, HasLowered
<1>5. \A i, k \in DOMAIN stack' :
        stack'[i].name = stack'[k].name /\ IsStruct(stack'[i].name) => i = k
  BY <1>1 DEF Visiting, IsStruct
<1>6. QED
  BY <1>3, <1>4, <1>5 DEF Visiting, IsStruct

(* A call goes a level deeper, or the compiler stops. *)
LEMMA EnterVisits ==
  ASSUME Inv, Visiting, phase = "run", NEW n \in Names \ made, Enter(n),
         \/ stack = <<>> /\ asked' = asked \cup {n}
         \/ stack # <<>> /\ InPart /\ Part.name = n /\ asked' = asked
  PROVE  Visiting'
<1>1. defs' = defs /\ asked' \subseteq Names /\ asked \subseteq asked'
  BY DEF Enter, Visiting
<1>2. Meaning' = Meaning
  BY <1>1, MeaningKept
<1>3. CASE phase' = "error" /\ UNCHANGED <<made, stack>>
  <2>1. stack' # <<>> => stack'[1].name \in asked'
    BY <1>1, <1>3 DEF Visiting
  <2>2. QED
    BY <1>1, <1>3, <2>1 DEF Visiting, IsStruct
<1>4. CASE /\ defs[n].kind # "none" /\ Len(stack) = MaxDepth /\ phase' = "overflow"
           /\ UNCHANGED <<made, stack>>
  <2>1. stack # <<>> /\ InPart /\ Part.name = n
    <3>1. Len(<<>>) = 0 /\ MaxDepth # 0
      BY LoweringAssumption
    <3>2. QED
      BY <1>4, <3>1
  <2>2. InPart' /\ Part' = Part
    BY <1>1, <1>4, <2>1 DEF InPart, Part, TopDef, Top
  <2>3. QED
    BY <1>1, <1>4, <2>1, <2>2 DEF Visiting, IsStruct
<1>5. CASE /\ made' = Opaque(n) /\ stack' = Append(stack, [name |-> n, done |-> <<>>])
           /\ UNCHANGED phase
  <2> DEFINE l == Len(stack)
             new == [name |-> n, done |-> <<>>]
  <2>1. /\ stack \in Seq(Frame) /\ l \in Nat /\ DOMAIN stack = 1..l
        /\ stack' \in Seq(Frame) /\ Len(stack') = l + 1 /\ DOMAIN stack' = 1..(l + 1)
        /\ stack'[l + 1].name = n /\ \A i \in 1..l : stack'[i] = stack[i]
    BY <1>5 DEF Inv, Typed, Frame
  <2>2. made \subseteq made'
    BY <1>5 DEF Opaque
  <2>3. \A i \in DOMAIN stack : stack[i].name = n => ~IsStruct(n)
    BY DEF Inv, Lowering, IsStruct
  <2>4. \A i, k \in DOMAIN stack' :
          stack'[i].name = stack'[k].name /\ IsStruct(stack'[i].name) => i = k
    <3>1. ASSUME NEW i \in DOMAIN stack', NEW k \in DOMAIN stack',
                 stack'[i].name = stack'[k].name, IsStruct(stack'[i].name)
          PROVE  i = k
      <4>1. CASE i \in 1..l /\ k \in 1..l
        BY <2>1, <3>1, <4>1 DEF Visiting
      <4>2. CASE i = l + 1
        BY <2>1, <2>3, <3>1, <4>2
      <4>3. CASE k = l + 1
        BY <2>1, <2>3, <3>1, <4>3
      <4>4. QED
        BY <2>1, <4>1, <4>2, <4>3
    <3>2. QED
      BY <3>1
  <2>5. stack' # <<>> /\ stack'[1].name \in asked' /\
        (stack = <<>> => stack'[1].name = n) /\ (stack # <<>> => stack'[1].name = stack[1].name)
    <3>1. CASE stack = <<>>
      <4>1. l = 0 /\ n \in asked'
        BY <3>1
      <4>2. QED
        BY <2>1, <3>1, <4>1
    <3>2. CASE stack # <<>>
      <4>1. l \in Nat \ {0}
        BY <2>1, <3>2, TopFacts
      <4>2. stack'[1] = stack[1] /\ stack' # <<>>
        BY <2>1, <4>1
      <4>3. QED
        BY <1>1, <3>2, <4>2 DEF Visiting
    <3>3. QED
      BY <3>1, <3>2
  <2>6. \A m \in asked' : HasLowered(m)' \/ (stack' # <<>> /\ stack'[1].name = m)
    BY <1>2, <2>2, <2>5 DEF Visiting, HasLowered
  <2>7. QED
    BY <1>1, <1>5, <2>4, <2>5, <2>6 DEF Visiting, IsStruct
<1>6. QED
  BY <1>3, <1>4, <1>5 DEF Enter

LEMMA AnswerVisits ==
  ASSUME Inv, Visiting, AnswerPart
  PROVE  Visiting'
<1> DEFINE l == Lowered(FALSE, Part.name)
<1>1. /\ phase = "run" /\ stack # <<>> /\ InPart /\ stack' = PartDone(stack, l)
      /\ UNCHANGED <<defs, asked, phase, made>>
  BY DEF AnswerPart, InPart
<1>2. stack \in Seq(Frame) /\ l \in LlvmType
  BY <1>1, PartIs DEF Inv, Typed, LlvmType, Lowered
<1> HIDE DEF l
<1>3. /\ stack' \in Seq(Frame) /\ Len(stack') = Len(stack)
      /\ \A i \in 1..Len(stack) : stack'[i].name = stack[i].name
  BY <1>1, <1>2, PartDoneFacts
<1>4. stack' # <<>> /\ Len(stack') <= Len(stack)
  <2>1. Len(stack) \in Nat \ {0}
    BY <1>1, <1>2, TopFacts
  <2>2. QED
    BY <1>3, <2>1
<1>5. QED
  BY <1>1, <1>3, <1>4, ReturnVisits

LEMMA FinishVisits ==
  ASSUME Inv, Visiting, phase = "run", stack # <<>>, NEW l \in LlvmType,
         stack' = PartDone(Front(stack), l), UNCHANGED <<defs, made, asked, phase>>,
         l = Meaning[Top.name], l.to \in made \cup {Base}
  PROVE  Visiting'
<1>1. /\ stack' \in Seq(Frame) /\ Len(stack') = Len(stack) - 1
      /\ \A i \in 1..Len(stack') : stack'[i].name = stack[i].name
  BY Popped
<1>2. Len(stack) \in Nat \ {0}
  BY TopIs
<1>3. stack' = <<>> => HasLowered(stack[1].name)
  <2>1. stack' = <<>> => Len(stack) = 1
    BY <1>1, <1>2
  <2>2. QED
    BY <2>1 DEF HasLowered, Top
<1>4. Len(stack') <= Len(stack)
  BY <1>1, <1>2
<1>5. QED
  BY <1>1, <1>3, <1>4, ReturnVisits

LEMMA NextVisits == Inv /\ Visiting /\ [Next]_vars => Visiting'
<1> SUFFICES ASSUME Inv, Visiting, [Next]_vars PROVE Visiting'
  OBVIOUS
<1>1. ASSUME NEW n \in Names, Ask(n) PROVE Visiting'
  BY <1>1, EnterVisits DEF Ask
<1>2. CASE AnswerPart
  BY <1>2, AnswerVisits
<1>3. CASE EnterPart
  <2>1. /\ phase = "run" /\ stack # <<>> /\ InPart /\ Enter(Part.name) /\ asked' = asked
        /\ Part.name # Base /\ Part.name \notin made
    BY <1>3 DEF EnterPart, InPart
  <2>2. Part.name \in Names \ made
    BY <2>1, PartIs
  <2>3. QED
    BY <2>1, <2>2, EnterVisits
<1>4. CASE FinishStruct
  <2> DEFINE l == Lowered(FALSE, Top.name)
  <2>1. phase = "run" /\ UNCHANGED <<asked, phase>>
    BY <1>4 DEF FinishStruct
  <2>2. /\ stack # <<>> /\ l \in LlvmType /\ l = Meaning[Top.name] /\ l.to \in made \cup {Base}
        /\ stack' = PartDone(Front(stack), l) /\ UNCHANGED <<defs, made>>
    BY <1>4, StructReturns DEF Lowered
  <2> HIDE DEF l
  <2>3. QED
    BY <2>1, <2>2, FinishVisits
<1>5. CASE FinishAlias
  <2> DEFINE l == Top.done[1]
  <2>1. phase = "run" /\ UNCHANGED <<asked, phase>>
    BY <1>5 DEF FinishAlias
  <2>2. /\ stack # <<>> /\ l \in LlvmType /\ l = Meaning[Top.name] /\ l.to \in made \cup {Base}
        /\ stack' = PartDone(Front(stack), l) /\ UNCHANGED <<defs, made>>
    BY <1>5, AliasReturns
  <2> HIDE DEF l
  <2>3. QED
    BY <2>1, <2>2, FinishVisits
<1>6. CASE UNCHANGED vars
  <2>1. Meaning' = Meaning
    BY <1>6, MeaningKept DEF vars
  <2>2. QED
    BY <1>6, <2>1 DEF vars, Visiting, HasLowered, IsStruct, InPart, Part, TopDef, Top
<1>7. QED
  BY <1>1, <1>2, <1>3, <1>4, <1>5, <1>6 DEF Next

-----------------------------------------------------------------------------
(* An overflow was on the way round a cycle of aliases. *)
LEMMA OverflowOnCycle ==
  ASSUME Inv, Visiting, phase = "overflow"
  PROVE  \E n \in asked : \E m \in Reached(n) : OnAliasCycle(m)
<1> DEFINE l == Len(stack)
           s == [i \in 1..(l + 1) |-> IF i = l + 1 THEN Part.name ELSE stack[i].name]
           n == stack[1].name
<1>1. /\ stack # <<>> /\ InPart /\ l = MaxDepth /\ n \in asked /\ n \in Names
      /\ Part.name \in Names \ made /\ defs[Part.name].kind # "none"
  BY DEF Visiting
<1>2. /\ stack \in Seq(Frame) /\ l \in Nat \ {0} /\ DOMAIN stack = 1..l
      /\ \A i \in 1..l : stack[i].name \in Names /\ s[i] = stack[i].name
      /\ s[l + 1] = Part.name
  <2>1. stack \in Seq(Frame) /\ l \in Nat \ {0}
    BY <1>1, TopIs
  <2>2. \A i \in 1..l : stack[i] \in Frame /\ i # l + 1 /\ i \in 1..(l + 1)
    BY <2>1
  <2>3. \A i \in 1..l : stack[i].name \in Names
    BY <2>2 DEF Frame
  <2>4. \A i \in 1..l : s[i] = stack[i].name
    BY <2>2
  <2>5. s[l + 1] = Part.name
    BY <2>1
  <2>6. QED
    BY <2>1, <2>3, <2>4, <2>5
<1>2s. s = [i \in 1..(l + 1) |-> s[i]]
  OBVIOUS
<1> HIDE DEF s
<1>0. \A i \in 1..(l + 1) : i \in 1..l \/ i = l + 1
  BY <1>2
<1>3. \A i \in 1..(l + 1) : s[i] \in Names
  <2>1. \A i \in 1..l : s[i] \in Names
    BY <1>2
  <2>2. s[l + 1] \in Names
    BY <1>1, <1>2
  <2>3. QED
    BY <1>0, <2>1, <2>2
<1>4. s \in [1..(l + 1) -> Names]
  BY <1>2s, <1>3
<1>5. ASSUME NEW i \in 1..((l + 1) - 1)
      PROVE  \E k \in DOMAIN defs[s[i]].parts : PartOf(s[i], k).name = s[i + 1]
  <2> DEFINE k == Len(stack[i].done) + 1
             parts == defs[stack[i].name].parts
  <2>1. i \in 1..l /\ s[i] = stack[i].name /\ stack[i] \in Frame /\ parts \in Seq(Types)
    <3>1. i \in 1..l
      BY <1>2
    <3>2. stack[i] \in Frame
      BY <1>2, <3>1
    <3>3. stack[i].name \in Names
      BY <1>2, <3>1
    <3>4. QED
      BY <1>2, <3>1, <3>2, <3>3, DefsFacts DEF Inv
  <2>2. Len(stack[i].done) \in Nat /\ Len(parts) \in Nat /\ DOMAIN parts = 1..Len(parts)
    BY <2>1 DEF Frame
  <2>3. Len(stack[i].done) < Len(parts) /\ PartOf(stack[i].name, k).name = s[i + 1]
    <3>1. CASE i = l
      BY <1>1, <1>2, <3>1 DEF InPart, Part, TopDef, Top, PartOf
    <3>2. CASE i # l
      <4>1. i \in DOMAIN stack /\ i + 1 \in 1..l /\ s[i + 1] = stack[i + 1].name
        <5>1. i \in 1..l /\ i + 1 \in 1..l
          <6>1. i \in 1..l /\ l \in Nat
            BY <1>2, <2>1
          <6> HIDE DEF l
          <6>2. QED
            BY <3>2, <6>1
        <5>2. QED
          BY <1>2, <5>1
      <4>2. QED
        BY <3>2, <4>1 DEF Inv, Lowering
    <3>3. QED
      BY <3>1, <3>2
  <2>4. k \in DOMAIN parts
    BY <2>2, <2>3
  <2>5. QED
    BY <2>1, <2>3, <2>4
<1>6. \A i \in 1..(l + 1) : defs[s[i]].kind \in {"struct", "alias"}
  <2>1. \A i \in 1..l : defs[s[i]].kind \in {"struct", "alias"}
    BY <1>2 DEF Inv, Lowering
  <2>2. defs[s[l + 1]].kind \in {"struct", "alias"}
    BY <1>1, <1>2, DefsFacts DEF Inv, Kinds
  <2>3. QED
    BY <1>0, <2>1, <2>2
<1>7. ASSUME NEW i \in 1..(l + 1), NEW k \in 1..(l + 1), s[i] = s[k], IsStruct(s[i])
      PROVE  i = k
  <2>1. \A j \in 1..l : s[j] = s[l + 1] => ~IsStruct(s[j])
    BY <1>1, <1>2 DEF Inv, Lowering, IsStruct
  <2>2. CASE i \in 1..l /\ k \in 1..l
    BY <1>2, <1>7, <2>2 DEF Visiting
  <2>3. CASE i = l + 1
    BY <1>0, <1>7, <2>1, <2>3
  <2>4. CASE k = l + 1
    BY <1>0, <1>7, <2>1, <2>4
  <2>5. QED
    BY <1>0, <2>2, <2>3, <2>4
<1>8. s[1] = n
  <2>1. 1 \in 1..l
    BY <1>2
  <2>2. QED
    BY <1>2, <2>1
<1> HIDE DEF l
<1>9. Path(s, l + 1)
  BY <1>3, <1>4, <1>5, <1>6, <1>7 DEF Path, IsStruct, IsAlias
<1>10. PICK i \in 1..(l + 1) : OnAliasCycle(s[i])
  <2>1. l + 1 \in Nat /\ l + 1 > 2 * Count
    BY <1>1, <1>2, CountNat, StackAssumption DEF Count
  <2>2. QED
    BY <1>9, <2>1, LongPath DEF Inv
<1> DEFINE T == {j \in 0..l : s[j + 1] \in Reached(n)}
<1>11. 0 \in T
  BY <1>1, <1>2, <1>8, ReachedClosed DEF Inv
<1>12. ASSUME NEW j \in 1..l, j - 1 \in T
       PROVE  j \in T
  <2>1. j \in 1..((l + 1) - 1) /\ j \in 0..l /\ (j - 1) + 1 = j /\ j + 1 \in 1..(l + 1)
    BY <1>2
  <2>2. s[j] \in Reached(n)
    BY <1>12, <2>1
  <2>3. PICK k \in DOMAIN defs[s[j]].parts : PartOf(s[j], k).name = s[j + 1]
    BY <1>5, <2>1
  <2>4. s[j + 1] # Base
    BY <1>3, <2>1, DefsFacts DEF Inv
  <2>5. s[j + 1] \in Parts(s[j])
    BY <2>3, <2>4 DEF Parts, PartOf
  <2>6. s[j + 1] \in Reached(n)
    BY <1>1, <2>2, <2>5, ReachedClosed DEF Inv
  <2>7. QED
    BY <2>1, <2>6
<1> HIDE DEF T
<1>13. 0..l \subseteq T
  BY <1>2, <1>11, <1>12, Upward
<1>14. s[i] \in Reached(n)
  <2>1. i - 1 \in 0..l /\ (i - 1) + 1 = i
    BY <1>2
  <2>2. QED
    BY <1>13, <2>1 DEF T
<1>15. QED
  BY <1>1, <1>10, <1>14

(* And what has been lowered reaches none. *)
LEMMA IdleReachesNone ==
  ASSUME Inv, Visiting, Idle, NEW n \in asked, NEW m \in Reached(n)
  PROVE  ~OnAliasCycle(m)
<1> DEFINE G == {p \in Names : Denotes(p).to \in made \cup {Base}}
<1>1. n \in G
  BY DEF Visiting, Idle, HasLowered, Meaning
<1>2. ASSUME NEW p \in G, NEW q \in Parts(p)
      PROVE  q \in G
  <2>1. p \in Names /\ q \in Names
    BY <1>2, PartsNames DEF Inv
  <2>2. PICK k \in DOMAIN defs[p].parts : q = PartOf(p, k).name
    BY DEF Parts, PartOf
  <2>3. CASE IsAlias(p)
    <3>1. defs[p].parts \in Seq(Types) /\ Len(defs[p].parts) = 1
      BY <2>1, <2>3, DefsFacts DEF IsAlias, Inv
    <3> DEFINE parts == defs[p].parts
    <3>2. parts \in Seq(Types) /\ Len(parts) = 1 /\ k \in DOMAIN parts
      BY <2>2, <3>1
    <3> HIDE DEF parts
    <3>3. k = 1
      BY <3>2
    <3>4. ~IsAlias(Denotes(p).to)
      BY DefsFacts DEF IsAlias, Inv, Typed
    <3>5. Denotes(q).to = Denotes(p).to
      BY <2>2, <2>3, <3>3, <3>4, TypeDenotes
    <3>6. QED
      BY <2>1, <3>5
  <2>4. CASE ~IsAlias(p)
    <3>1. p \in made
      <4>1. Denotes(p).to = p
        BY <2>4, DenotesItself DEF Lowered
      <4>2. QED
        BY <2>1, <4>1, DefsFacts DEF Inv
    <3>2. Complete(p)
      BY <3>1 DEF Inv, Making, OnStack, Idle
    <3>3. k \in DOMAIN bodies[p]
      <4>1. defs[p].parts \in Seq(Types) /\ bodies[p] \in Seq(LlvmType)
        BY <2>1, DefsFacts DEF Inv, Typed
      <4>2. QED
        BY <2>2, <3>2, <4>1 DEF Complete
    <3>4. Meaning[q].to \in made \cup {Base}
      BY <2>2, <3>2, <3>3 DEF Complete, DoneRight, Right
    <3>5. QED
      BY <2>1, <3>4 DEF Meaning
  <2>5. QED
    BY <2>3, <2>4
<1> HIDE DEF G
<1>3. m \in G
  BY <1>1, <1>2, ReachedWithin
<1>4. QED
  BY <1>3, DefsFacts DEF G, OnAliasCycle, Inv, Typed

-----------------------------------------------------------------------------
LEMMA SpecInv == Spec => [](Inv /\ Visiting)
<1>1. Init => Inv /\ Visiting
  BY InitInv, InitVisiting
<1>2. Inv /\ Visiting /\ [Next]_vars => Inv' /\ Visiting'
  BY NextInv, NextVisits
<1>3. QED
  BY <1>1, <1>2, PTL DEF Spec

(***************************************************************************)
(* Whatever the program, whenever resolve_type has returned to the code    *)
(* generator no struct it has made is left opaque, and each field is what  *)
(* its type denotes.                                                       *)
(***************************************************************************)
THEOREM NoneLeftOpaque == Spec => []BodiesComplete
<1>1. Inv /\ Visiting => BodiesComplete
  BY InvComplete
<1>2. QED
  BY <1>1, SpecInv, PTL

(***************************************************************************)
(* resolve_type overflows the stack only if a name it was asked for        *)
(* reaches a cycle of aliases, and it never returns from such a name.      *)
(***************************************************************************)
THEOREM OnlyAliasCyclesOverflow == Spec => []OverflowsOnlyOnAliasCycles
<1>1. Inv /\ Visiting => OverflowsOnlyOnAliasCycles
  BY OverflowOnCycle, IdleReachesNone DEF OverflowsOnlyOnAliasCycles
<1>2. QED
  BY <1>1, SpecInv, PTL
=============================================================================

--------------------------- MODULE WellFormed_proofs ---------------------------
(***************************************************************************)
(* The function generated is well formed for the LLVM verifier exactly     *)
(* when the source is clean (WellFormedIffClean), proved for every source. *)
(*                                                                         *)
(* Three facts carry it.  The blocks an if or a loop keeps for later are   *)
(* its own, attached and empty until it hands them to the insertion point  *)
(* (Apart).  As long as the source has been clean, every other block ends  *)
(* in its only terminator, and the insertion point ends in one exactly     *)
(* when control does not get past the item before pc (Straight).  Once it  *)
(* has not been, some block holds a terminator that is not its last, or is *)
(* about to when the innermost loop emits its next instruction (Crooked).  *)
(***************************************************************************)
EXTENDS Nesting_proofs, WellFoundedInduction

-----------------------------------------------------------------------------
(* An if and its else know each other. *)
Elses ==
  \A i \in DOMAIN ast :
    /\ ast[i].els # 0 =>
         /\ ast[i].els \in DOMAIN ast
         /\ ast[ast[i].els].op = "else" /\ ast[ast[i].els].opener = i
    /\ ast[i].op = "else" => ast[ast[i].opener].els = i

(* The else of an if was begun before item p. *)
Begun(j, p) == ast[j].els # 0 /\ ast[j].els < p

(* The blocks a frame is still to branch to, and all it has in use. *)
IsFor(fr) == ast[fr.item].op = "for"
Ends(fr) == IF IsIf(fr) THEN {fr.f, fr.m} ELSE IF IsFor(fr) THEN {fr.m} ELSE {}
Uses(fr) == Ends(fr) \cup {fr.head}
Waits(fr) == Ends(fr) \ {fr.head}
Waiting(fs) == UNION {Waits(fs[k]) : k \in DOMAIN fs}
Split(fr, p) ==
  /\ IsIf(fr) => fr.f # fr.m /\ fr.head # fr.m /\ (fr.head = fr.f <=> Begun(fr.item, p))
  /\ IsFor(fr) => fr.head # fr.m

(***************************************************************************)
(* The invariants below are stated of frames fs, attached blocks att, the  *)
(* insertion point ins, the ret blocks rets and code c in front of item p. *)
(***************************************************************************)
Apart(fs, att, ins, rets, c, p) ==
  /\ \A k \in DOMAIN fs : Split(fs[k], p)
  /\ \A j, k \in DOMAIN fs : j # k => Ends(fs[k]) \cap Uses(fs[j]) = {}
  /\ \A k \in DOMAIN fs : Ends(fs[k]) \cap rets = {} /\ Uses(fs[k]) \subseteq att
  /\ rets \subseteq att
  /\ ins \notin Waiting(fs)
  /\ \A b \in Waiting(fs) : c[b] = <<>>

(* A terminator stands before the last instruction of block b. *)
Spoiled(c, b) == \E k \in 1..(Len(c[b]) - 1) : c[b][k].op \in Terminators
SomeSpoiled(c, att) == \E b \in att : Spoiled(c, b)
Ended(c, b) == HasTerminator(c, b) /\ ~Spoiled(c, b)

(* The source has been clean up to item p. *)
Follows(i) == ast[i + 1].op \in {"else", "end"} /\ ast[ast[i + 1].opener].op # "for"
Sofar(p) == \A i \in 1..(p - 2) : Leaves[i] => Follows(i)

(* The function's ret block is unused until the function ends. *)
RetKept(fs, ins, ret, c, p) ==
  /\ ret # 0 <=> HasRet(p)
  /\ ret # 0 => c[ret] = <<>> /\ ret # ins /\ \A k \in DOMAIN fs : fs[k].head # ret

(* What the end of an if will find: m is branched to unless both arms leave. *)
Joined(fr, c, p) ==
  ~Mentions(c, fr.m) <=>
    ast[fr.item].els # 0 /\ (ast[fr.item].els < p => Leaves[ast[fr.item].els - 1])
Straight(fs, att, ins, ret, c, p) ==
  /\ \A b \in att \ (Waiting(fs) \cup {ins, ret}) : Ended(c, b)
  /\ ~Spoiled(c, ins)
  /\ HasTerminator(c, ins) <=> Leaves[p - 1]
  /\ \A k \in DOMAIN fs : IsIf(fs[k]) => Joined(fs[k], c, p)
Crooked(fs, att, ins, c) ==
  SomeSpoiled(c, att) \/ (HasTerminator(c, ins) /\ IsFor(fs[Len(fs)]))
Track(fs, att, ins, ret, c, p) ==
  /\ RetKept(fs, ins, ret, c, p)
  /\ Sofar(p) => Straight(fs, att, ins, ret, c, p)
  /\ ~Sofar(p) => Crooked(fs, att, ins, c)

Rets == {retBlock[i] : i \in 1..MaxItems} \ {0}
Ret == retBlock[1]
Running == phase = "gen" /\ pc > 1

Kindred ==
  /\ Apart(frames, attached, insert, Rets, code, pc)
  /\ Running => insert \in attached
  /\ pc = 1 => nfuncs = 0 /\ nblocks = 0
Owned == \A b \in 1..nblocks : owner[b] = 1
Looped ==
  phase \in {"gen", "done"} =>
    \A i \in 1..(pc - 1) : ast[i].op = "break" => Loops(i) # {}
Tracked ==
  NoClosure =>
    /\ Owned /\ Looped
    /\ Running => Track(frames, attached, insert, Ret, code, pc)

(* A closure that was left behind spoilt the block after it. *)
Closed ==
  phase \in {"gen", "done"} =>
    \/ SomeSpoiled(code, attached)
    \/ \A i \in 1..(pc - 1) : ast[i].op = "closure" => i \in Open(ast, pc)

-----------------------------------------------------------------------------
(* What an instruction at the end of a block does to the block. *)
Written(c, d, b, term) ==
  /\ HasTerminator(d, b) <=> term
  /\ Spoiled(d, b) <=> Spoiled(c, b) \/ HasTerminator(c, b)
Elsewhere(c, d, n, b) == \A x \in 1..n : x # b => d[x] = c[x]

LEMMA SameBlock ==
  ASSUME NEW c, NEW d, NEW b, d[b] = c[b]
  PROVE  /\ HasTerminator(d, b) <=> HasTerminator(c, b)
         /\ Spoiled(d, b) <=> Spoiled(c, b)
BY DEF HasTerminator, Spoiled

LEMMA EmptyBlock ==
  ASSUME NEW c, NEW b, c[b] = <<>>
  PROVE  ~HasTerminator(c, b) /\ ~Spoiled(c, b)
<1>1. Len(c[b]) = 0
  OBVIOUS
<1>2. QED
  BY <1>1 DEF HasTerminator, Spoiled

LEMMA AppendWrites ==
  ASSUME NEW s \in Seq(Instr), NEW i \in Instr, NEW t, t = Append(s, i)
  PROVE  /\ Len(t) > 0 /\ t[Len(t)] = i
         /\ (\E k \in 1..(Len(t) - 1) : t[k].op \in Terminators) <=>
              \/ \E k \in 1..(Len(s) - 1) : s[k].op \in Terminators
              \/ Len(s) > 0 /\ s[Len(s)].op \in Terminators
<1>1. /\ Len(t) = Len(s) + 1 /\ t[Len(s) + 1] = i /\ Len(s) \in Nat
      /\ \A k \in 1..Len(s) : t[k] = s[k]
  BY PushSeq
<1>2. Len(t) > 0 /\ t[Len(t)] = i /\ Len(t) - 1 = Len(s)
  BY <1>1
<1>3. \A k \in 1..Len(s) : k \in 1..(Len(s) - 1) \/ k = Len(s)
  BY <1>1
<1>4. \A k \in 1..(Len(s) - 1) : k \in 1..Len(s)
  BY <1>1
<1>5. Len(s) > 0 => Len(s) \in 1..Len(s)
  BY <1>1
<1>6. \A k \in 1..Len(s) : Len(s) > 0
  BY <1>1
<1>7. QED
  BY <1>1, <1>2, <1>3, <1>4, <1>5, <1>6

LEMMA EmitWrites ==
  ASSUME NEW n \in Nat, NEW c \in Code(n), NEW b \in 1..n, NEW i \in Instr
  PROVE  /\ Emit(c, b, i) \in Code(n)
         /\ Written(c, Emit(c, b, i), b, i.op \in Terminators)
         /\ Elsewhere(c, Emit(c, b, i), n, b)
         /\ \A t : Mentions(Emit(c, b, i), t) <=> Mentions(c, t) \/ t \in Named(i)
<1> DEFINE d == Emit(c, b, i)
<1>1. d \in Code(n) /\ Instrs(d) = Instrs(c) \cup {i}
  BY EmitBoth
<1>2. d[b] = Append(c[b], i) /\ c[b] \in Seq(Instr) /\ Elsewhere(c, d, n, b)
  BY DEF Emit, Code, Elsewhere
<1>3. \A e, t : Mentions(e, t) <=> \E j \in Instrs(e) : t \in Named(j)
  BY DEF Mentions, Instrs
<1> HIDE DEF d
<1>4. Written(c, d, b, i.op \in Terminators)
  <2> DEFINE s == c[b]
             t == d[b]
  <2>1. s \in Seq(Instr) /\ t = Append(s, i)
    BY <1>2
  <2> HIDE DEF s, t
  <2>2. /\ Len(t) > 0 /\ t[Len(t)] = i
        /\ (\E k \in 1..(Len(t) - 1) : t[k].op \in Terminators) <=>
             \/ \E k \in 1..(Len(s) - 1) : s[k].op \in Terminators
             \/ Len(s) > 0 /\ s[Len(s)].op \in Terminators
    BY <2>1, AppendWrites
  <2>3. QED
    BY <2>2, Zenon DEF s, t, Written, HasTerminator, Spoiled
<1>5. \A t : Mentions(d, t) <=> Mentions(c, t) \/ t \in Named(i)
  BY <1>1, <1>3
<1>6. QED
  BY <1>1, <1>2, <1>4, <1>5 DEF d

LEMMA GrowWrites ==
  ASSUME nblocks \in Nat, code \in Code(nblocks), NEW n \in Nat
  PROVE  /\ Grow(code, n) \in Code(nblocks + n)
         /\ \A x \in 1..nblocks : Grow(code, n)[x] = code[x]
         /\ \A x \in (nblocks + 1)..(nblocks + n) : Grow(code, n)[x] = <<>>
         /\ \A t : Mentions(Grow(code, n), t) <=> Mentions(code, t)
<1> DEFINE d == Grow(code, n)
<1>1. d \in Code(nblocks + n) /\ Instrs(d) = Instrs(code)
  BY GrowType, InstrsGrow DEF Code
<1>2. \A x \in 1..(nblocks + n) : d[x] = IF x <= nblocks THEN code[x] ELSE <<>>
  BY DEF Grow
<1>3. \A e, t : Mentions(e, t) <=> \E j \in Instrs(e) : t \in Named(j)
  BY DEF Mentions, Instrs
<1> HIDE DEF d
<1>4. /\ \A x \in 1..nblocks : x \in 1..(nblocks + n) /\ x <= nblocks
      /\ \A x \in (nblocks + 1)..(nblocks + n) : x \in 1..(nblocks + n) /\ ~(x <= nblocks)
  OBVIOUS
<1>5. /\ \A x \in 1..nblocks : d[x] = code[x]
      /\ \A x \in (nblocks + 1)..(nblocks + n) : d[x] = <<>>
  BY <1>2, <1>4
<1>6. \A t : Mentions(d, t) <=> Mentions(code, t)
  BY <1>1, <1>3
<1>7. QED
  BY <1>1, <1>5, <1>6 DEF d

LEMMA UnusedIs ==
  ASSUME NEW c, NEW t
  PROVE  Unused(c, t) <=> ~Mentions(c, t)
BY DEF Unused, Mentions

-----------------------------------------------------------------------------
(***************************************************************************)
(* Leaves, item by item.  The function it is computed with exists: an item *)
(* refers to earlier ones only.                                            *)
(***************************************************************************)
LEMMA Least ==
  ASSUME NEW T, T \subseteq Nat, T # {}
  PROVE  \E n \in T : \A m \in T : n <= m
<1>1. IsWellFoundedOn({ss \in Nat \X Nat : ss[1] < ss[2]}, Nat)
  BY NatLessThanWellFounded DEF OpToRel
<1>2. PICK x \in T : \A y \in T : <<y, x>> \notin {ss \in Nat \X Nat : ss[1] < ss[2]}
  BY <1>1, WFMin
<1>3. \A y \in T : ~(y < x)
  BY <1>2
<1>4. QED
  BY <1>3

LEMMA Upward ==
  ASSUME NEW T, NEW l \in Nat, 0 \in T, \A n \in 1..l : n - 1 \in T => n \in T
  PROVE  0..l \subseteq T
<1> DEFINE B == (0..l) \ T
<1>1. SUFFICES ASSUME B # {} PROVE FALSE
  OBVIOUS
<1>2. PICK n \in B : \A m \in B : n <= m
  <2>1. B \subseteq Nat
    OBVIOUS
  <2>2. QED
    BY <1>1, <2>1, Least
<1>3. n \in 1..l /\ n - 1 \in 0..l /\ ~(n <= n - 1)
  BY <1>2
<1>4. n - 1 \in T
  BY <1>2, <1>3
<1>5. QED
  BY <1>2, <1>3, <1>4

(* Well-formed positions: an end of an else follows both arms. *)
JoinsArms(j) == ast[j].op = "end" /\ ast[ast[j].opener].op = "else"

LEMMA ArmsBefore ==
  ASSUME ast \in Seq(Item), Nested(ast), ast[1].op = "fn",
         NEW j \in DOMAIN ast, JoinsArms(j)
  PROVE  /\ j - 1 \in DOMAIN ast
         /\ ast[j].opener \in 1..(j - 1) /\ ast[j].opener - 1 \in 1..(j - 1)
         /\ ast[j].opener - 1 \in DOMAIN ast
<1>1. j \in Nat /\ j \in 1..Len(ast) /\ Len(ast) \in Nat
  OBVIOUS
<1>2. ast[j].opener # 0
  BY DEF Nested, JoinsArms
<1>3. ast[j].opener \in 1..(j - 1)
  BY <1>2 DEF Nested, Inner, Open
<1>4. ast[j].opener # 1
  BY DEF JoinsArms
<1>5. QED
  BY <1>1, <1>3, <1>4

Leave(left, j) ==
  \/ ast[j].op = "break"
  \/ ast[j].op \in Returns /\ HasRet(j)
  \/ /\ ast[j].op = "end" /\ ast[ast[j].opener].op = "else"
     /\ left[ast[j].opener - 1] /\ left[j - 1]

LEMMA LeavesExist ==
  ASSUME ast \in Seq(Item), Nested(ast), ast[1].op = "fn"
  PROVE  \E f : f = [j \in DOMAIN ast |-> Leave(f, j)]
<1> DEFINE T == {n \in Nat : \E f : \A j \in 1..n : j \in DOMAIN ast => f[j] = Leave(f, j)}
           l == Len(ast)
<1>0. l \in Nat /\ DOMAIN ast = 1..l
  OBVIOUS
<1>1. 0 \in T
  OBVIOUS
<1>2. ASSUME NEW n \in 1..l, n - 1 \in T
      PROVE  n \in T
  <2>1. PICK f : \A j \in 1..(n - 1) : j \in DOMAIN ast => f[j] = Leave(f, j)
    BY <1>2
  <2> DEFINE g == [j \in 1..n |-> IF j = n THEN Leave(f, n) ELSE f[j]]
  <2>2. n \in Nat /\ g[n] = Leave(f, n) /\ \A j \in 1..(n - 1) : g[j] = f[j]
    OBVIOUS
  <2> HIDE DEF g
  <2>3. ASSUME NEW j \in 1..n, j \in DOMAIN ast
        PROVE  Leave(g, j) = Leave(f, j)
    <3>1. CASE JoinsArms(j)
      <4>1. ast[j].opener - 1 \in 1..(n - 1) /\ j - 1 \in 1..(n - 1)
        <5>1. /\ j - 1 \in DOMAIN ast /\ ast[j].opener - 1 \in 1..(j - 1)
          BY <2>3, <3>1, ArmsBefore
        <5>2. QED
          BY <5>1, <1>0
      <4>2. QED
        BY <2>2, <4>1 DEF Leave
    <3>2. CASE ~JoinsArms(j)
      BY <3>2 DEF Leave, JoinsArms
    <3>3. QED
      BY <3>1, <3>2
  <2>4. \A j \in 1..n : j \in DOMAIN ast => g[j] = Leave(g, j)
    <3>1. \A j \in 1..n : j \in 1..(n - 1) \/ j = n
      OBVIOUS
    <3>2. QED
      BY <2>1, <2>2, <2>3, <3>1
  <2>5. QED
    BY <2>2, <2>4
<1> HIDE DEF T
<1> HIDE DEF l
<1>3. l \in T
  <2>1. 0..l \subseteq T
    BY <1>0, <1>1, <1>2, Upward
  <2>2. QED
    BY <1>0, <2>1
<1>4. PICK f : \A j \in 1..l : j \in DOMAIN ast => f[j] = Leave(f, j)
  BY <1>3 DEF T
<1> DEFINE h == [j \in DOMAIN ast |-> f[j]]
<1>5. \A j \in DOMAIN ast : h[j] = f[j]
  OBVIOUS
<1> HIDE DEF h
<1>6. ASSUME NEW j \in DOMAIN ast
      PROVE  Leave(h, j) = Leave(f, j)
  <2>1. CASE JoinsArms(j)
    <3>1. ast[j].opener - 1 \in DOMAIN ast /\ j - 1 \in DOMAIN ast
      BY <2>1, ArmsBefore
    <3>2. QED
      BY <1>5, <3>1 DEF Leave
  <2>2. CASE ~JoinsArms(j)
    BY <2>2 DEF Leave, JoinsArms
  <2>3. QED
    BY <2>1, <2>2
<1>7. h = [j \in DOMAIN ast |-> Leave(h, j)]
  <2>1. \A j \in DOMAIN ast : f[j] = Leave(h, j)
    BY <1>0, <1>4, <1>6
  <2>2. [j \in DOMAIN ast |-> f[j]] = [j \in DOMAIN ast |-> Leave(h, j)]
    BY <2>1
  <2>3. QED
    BY <2>2 DEF h
<1>8. QED
  BY <1>7

LEMMA LeavesIs ==
  ASSUME ast \in Seq(Item), Nested(ast), ast[1].op = "fn"
  PROVE  \A j \in DOMAIN ast :
           /\ Leaves[j] \in BOOLEAN
           /\ ast[j].op = "break" => Leaves[j]
           /\ ast[j].op \in Returns => (Leaves[j] <=> HasRet(j))
           /\ JoinsArms(j) => (Leaves[j] <=> Leaves[ast[j].opener - 1] /\ Leaves[j - 1])
           /\ ast[j].op \notin Returns \cup {"break"} /\ ~JoinsArms(j) => ~Leaves[j]
<1>1. PICK f : f = [j \in DOMAIN ast |-> Leave(f, j)]
  BY LeavesExist
<1>2. Leaves = CHOOSE left : left = [j \in DOMAIN ast |-> Leave(left, j)]
  BY DEF Leaves, Leave
<1>3. Leaves = [j \in DOMAIN ast |-> Leave(Leaves, j)]
  BY <1>1, <1>2
<1>4. \A j \in DOMAIN ast : Leaves[j] = Leave(Leaves, j)
  BY <1>3
<1>5. ASSUME NEW j \in DOMAIN ast
      PROVE  /\ Leaves[j] \in BOOLEAN
             /\ ast[j].op = "break" => Leaves[j]
             /\ ast[j].op \in Returns => (Leaves[j] <=> HasRet(j))
             /\ JoinsArms(j) => (Leaves[j] <=> Leaves[ast[j].opener - 1] /\ Leaves[j - 1])
             /\ ast[j].op \notin Returns \cup {"break"} /\ ~JoinsArms(j) => ~Leaves[j]
  <2>1. Leaves[j] = Leave(Leaves, j)
    BY <1>4
  <2>2. CASE ast[j].op = "break"
    BY <2>1, <2>2 DEF Leave, JoinsArms, Returns
  <2>3. CASE ast[j].op \in Returns
    BY <2>1, <2>3 DEF Leave, JoinsArms, Returns
  <2>4. CASE JoinsArms(j)
    BY <2>1, <2>4 DEF Leave, JoinsArms, Returns
  <2>5. CASE ast[j].op \notin Returns \cup {"break"} /\ ~JoinsArms(j)
    BY <2>1, <2>5 DEF Leave, JoinsArms
  <2>6. QED
    BY <2>2, <2>3, <2>4, <2>5
<1>6. QED
  BY <1>5

-----------------------------------------------------------------------------
(* The parser links an if with its else. *)
Relinks ==
  /\ New.els = 0
  /\ \A i \in DOMAIN ast :
       ast'[i].els = IF New.op = "else" /\ i = Innermost THEN Len(ast) + 1 ELSE ast[i].els

LEMMA AppendOne ==
  ASSUME NEW b, ast \in Seq(Item), b \in Seq(Item), Len(b) = Len(ast), NEW item \in Item,
         ast' = Append(b, item)
  PROVE  New = item /\ \A i \in DOMAIN ast : ast'[i] = b[i]
BY DEF New

LEMMA ParseRelinks ==
  ASSUME Typed, BodyNext
  PROVE  Relinks
<1> USE BodyAssumption DEF BodyAssumption
<1>1. /\ ast \in Seq(Item) /\ Len(ast) \in Nat
      /\ Innermost \in DOMAIN ast /\ Innermost \in Nat
      /\ \A i \in DOMAIN ast : ast[i] \in Item
  BY ParseFacts
<1>2. \A op \in Ops, opener \in Nat, void \in BOOLEAN :
        /\ NewItem(op, opener, void) \in Item
        /\ NewItem(op, opener, void).op = op
        /\ NewItem(op, opener, void).els = 0
  BY DEF NewItem, Item
<1>3. ASSUME NEW op \in Ops, NEW opener \in Nat, NEW void \in BOOLEAN, op # "else",
             ast' = Append(ast, NewItem(op, opener, void))
      PROVE  Relinks
  <2> DEFINE item == NewItem(op, opener, void)
  <2>1. item \in Item /\ item.op # "else" /\ item.els = 0 /\ ast' = Append(ast, item)
    BY <1>2, <1>3
  <2> HIDE DEF item
  <2>2. New = item /\ \A i \in DOMAIN ast : ast'[i] = ast[i]
    BY <1>1, <2>1, AppendOne
  <2>3. QED
    BY <2>1, <2>2 DEF Relinks
<1>4. CASE \E op \in Simples \ Returns : ParseSimple(op)
  <2>1. PICK op \in Simples \ Returns : ParseSimple(op)
    BY <1>4
  <2>2. op \in Ops /\ op # "else" /\ ast' = Append(ast, NewItem(op, 0, FALSE))
    BY <2>1 DEF AllSimples, Ops, Returns, Blocks, ParseSimple
  <2>3. QED
    BY <1>3, <2>2
<1>5. CASE \E op \in Simples \cap Returns : ParseReturn(op)
  <2>1. PICK op \in Simples \cap Returns : ParseReturn(op)
    BY <1>5
  <2> DEFINE flagged == [ast EXCEPT ![Innermost].returns = TRUE]
             item == NewItem(op, 0, FALSE)
             r == [ast[Innermost] EXCEPT !.returns = TRUE]
  <2>2. op \in Ops /\ op # "else"
    BY DEF Ops, Returns, Blocks
  <2>3. ast' = Append(flagged, item)
    BY <2>1 DEF ParseReturn, EnterStatement
  <2>4. item \in Item /\ item.op # "else" /\ item.els = 0
    <3>1. 0 \in Nat /\ FALSE \in BOOLEAN
      OBVIOUS
    <3>2. /\ NewItem(op, 0, FALSE) \in Item /\ NewItem(op, 0, FALSE).op = op
          /\ NewItem(op, 0, FALSE).els = 0
      BY <1>2, <2>2, <3>1
    <3>3. QED
      BY <2>2, <3>2
  <2>5. r \in Item /\ r.els = ast[Innermost].els
    BY <1>1 DEF Item
  <2>6. flagged = [ast EXCEPT ![Innermost] = r] /\ Innermost \in 1..Len(ast)
    BY <1>1
  <2> HIDE DEF flagged, item, r
  <2>7. /\ flagged \in Seq(Item) /\ Len(flagged) = Len(ast)
        /\ \A i \in DOMAIN ast : flagged[i] = IF i = Innermost THEN r ELSE ast[i]
    BY <1>1, <2>5, <2>6, PutSeq
  <2>8. New = item /\ \A i \in DOMAIN ast : ast'[i] = flagged[i]
    BY <1>1, <2>3, <2>4, <2>7, AppendOne
  <2>9. QED
    BY <2>4, <2>5, <2>7, <2>8 DEF Relinks
<1>6. CASE \E op \in Openers, void \in VoidFns : ParseOpen(op, void)
  <2>1. PICK op \in Openers, void \in VoidFns : ParseOpen(op, void)
    BY <1>6
  <2> DEFINE v == op = "closure" /\ void
  <2>2. op \in Ops /\ op # "else" /\ v \in BOOLEAN
    BY DEF AllOpeners, Ops, Blocks
  <2>3. ast' = Append(ast, NewItem(op, 0, v))
    BY <2>1 DEF ParseOpen
  <2> HIDE DEF v
  <2>4. QED
    BY <1>3, <2>2, <2>3
<1>7. CASE ParseElse
  <2> DEFINE n == Len(ast) + 1
             linked == [ast EXCEPT ![Innermost].els = n]
             item == NewItem("else", Innermost, FALSE)
             r == [ast[Innermost] EXCEPT !.els = n]
  <2>1. "else" \in Ops /\ n \in Nat
    BY <1>1 DEF Ops, Blocks
  <2>2. ast' = Append(linked, item)
    BY <1>7 DEF ParseElse
  <2>3. item \in Item /\ item.op = "else" /\ item.els = 0
    BY <1>1, <1>2, <2>1
  <2> HIDE DEF n
  <2>4. r \in Item /\ r.els = n
    BY <1>1, <2>1 DEF Item
  <2>5. linked = [ast EXCEPT ![Innermost] = r] /\ Innermost \in 1..Len(ast)
    BY <1>1
  <2> HIDE DEF linked, item, r
  <2>6. /\ linked \in Seq(Item) /\ Len(linked) = Len(ast)
        /\ \A i \in DOMAIN ast : linked[i] = IF i = Innermost THEN r ELSE ast[i]
    BY <1>1, <2>4, <2>5, PutSeq
  <2>7. New = item /\ \A i \in DOMAIN ast : ast'[i] = linked[i]
    BY <1>1, <2>2, <2>3, <2>6, AppendOne
  <2>8. QED
    BY <2>3, <2>4, <2>6, <2>7 DEF Relinks, n
<1>8. CASE ParseClose
  <2>1. "end" \in Ops /\ ast' = Append(ast, NewItem("end", Innermost, FALSE))
    BY <1>8 DEF ParseClose, Ops
  <2>2. QED
    BY <1>1, <1>3, <2>1
<1>9. QED
  BY <1>4, <1>5, <1>6, <1>7, <1>8 DEF BodyNext

LEMMA ParseElses ==
  ASSUME Typed, BodyNext, Bracketed, Elses
  PROVE  Elses'
<1> DEFINE n == Len(ast) + 1
           in == Innermost
<1>1. /\ ast \in Seq(Item) /\ ast' \in Seq(Item) /\ Extends(ast, ast') /\ Len(ast) \in Nat
      /\ in \in DOMAIN ast /\ Nested(ast) /\ Nested(ast') /\ Inner(ast, n, in)
      /\ Relinks
  BY ParseFacts, ParseStep, ParseInner, ParseNested, ParseRelinks DEF Bracketed
<1>2. /\ DOMAIN ast = 1..Len(ast) /\ DOMAIN ast' = 1..n /\ n \notin DOMAIN ast
      /\ n \in DOMAIN ast'
      /\ \A i \in DOMAIN ast' : i \in DOMAIN ast \/ i = n
  BY <1>1 DEF Extends
<1>3. New.op = "else" => New.opener = in
  <2>1. Plain \/ Opens \/ Turns \/ Closes
    BY ParseStep
  <2>2. QED
    BY <2>1 DEF Plain, Opens, Turns, Closes
<1>4. \A i \in DOMAIN ast : ast[i].opener # in
  <2>1. \A i \in DOMAIN ast : ast[i].opener = in => n <= i
    BY <1>1 DEF Inner, Open
  <2>2. QED
    BY <1>1, <1>2, <2>1
<1>5. \A i \in DOMAIN ast :
        /\ ast'[i].op = ast[i].op /\ ast'[i].opener = ast[i].opener
        /\ ast'[i].els = IF New.op = "else" /\ i = in THEN n ELSE ast[i].els
  BY <1>1 DEF Extends, Relinks
<1>6. ast'[n] = New /\ New.els = 0
  BY <1>1 DEF New, Relinks
<1> HIDE DEF n, in
<1>7. ASSUME NEW i \in DOMAIN ast', ast'[i].els # 0
      PROVE  /\ ast'[i].els \in DOMAIN ast'
             /\ ast'[ast'[i].els].op = "else" /\ ast'[ast'[i].els].opener = i
  <2>1. i \in DOMAIN ast
    BY <1>2, <1>6, <1>7
  <2>2. CASE New.op = "else" /\ i = in
    BY <1>2, <1>3, <1>5, <1>6, <2>1, <2>2
  <2>3. CASE ~(New.op = "else" /\ i = in)
    <3>1. /\ ast'[i].els = ast[i].els /\ ast[i].els \in DOMAIN ast
          /\ ast[ast[i].els].op = "else" /\ ast[ast[i].els].opener = i
      BY <1>5, <1>7, <2>1, <2>3 DEF Elses
    <3>2. ast[i].els \in DOMAIN ast'
      BY <1>1, <1>2, <3>1
    <3>3. QED
      BY <1>5, <3>1, <3>2
  <2>4. QED
    BY <2>2, <2>3
<1>8. ASSUME NEW i \in DOMAIN ast', ast'[i].op = "else"
      PROVE  ast'[ast'[i].opener].els = i
  <2>1. CASE i = n
    BY <1>1, <1>3, <1>5, <1>6, <1>8, <2>1
  <2>2. CASE i \in DOMAIN ast
    <3>1. /\ ast'[i].opener = ast[i].opener /\ ast[i].op = "else"
          /\ ast[ast[i].opener].els = i /\ ast[i].opener # in
      BY <1>4, <1>5, <1>8, <2>2 DEF Elses
    <3>2. ast[i].opener \in DOMAIN ast
      <4>1. Inner(ast, i, ast[i].opener) /\ i \in 1..Len(ast)
        BY <1>1, <2>2, <3>1 DEF Nested
      <4>2. QED
        BY <1>1, <1>2, <4>1 DEF Inner, Open
    <3>3. QED
      BY <1>5, <3>1, <3>2
  <2>3. QED
    BY <1>2, <2>1, <2>2
<1>9. QED
  BY <1>7, <1>8 DEF Elses

-----------------------------------------------------------------------------
(* What the source says of an item and the items before it. *)
Source == ast \in Seq(Item) /\ Nested(ast) /\ Elses /\ ast[1].op = "fn"

LEMMA SourceHere ==
  ASSUME Typed, Nesting, Elses, Generate
  PROVE  Source
<1>1. ast \in Seq(Item) /\ Len(ast) \in 1..MaxItems /\ Nested(ast)
  BY DEF Typed, TypeOK, BodyTypeOK, Nesting, Bracketed
<1>2. 1 \in DOMAIN ast
  BY <1>1
<1>3. ast[1].op = "fn"
  BY <1>2 DEF Typed, ParseInv
<1>4. QED
  BY <1>1, <1>3 DEF Source

LEMMA ElseOf ==
  ASSUME Source, NEW j \in DOMAIN ast, ast[j].els # 0
  PROVE  /\ ast[j].els \in DOMAIN ast /\ ast[j].els \in Nat /\ j \in 1..(ast[j].els - 1)
         /\ ast[j].op = "if"
         /\ ast[ast[j].els].op = "else" /\ ast[ast[j].els].opener = j
<1>1. ast[j].els \in DOMAIN ast /\ ast[ast[j].els].op = "else" /\ ast[ast[j].els].opener = j
  BY DEF Source, Elses
<1>2. ast \in Seq(Item) /\ j \in Nat /\ j # 0 /\ ast[j].els \in Nat
  BY <1>1 DEF Source
<1>3. Inner(ast, ast[j].els, j) /\ ast[j].op = "if"
  BY <1>1, <1>2 DEF Source, Nested
<1>4. QED
  BY <1>1, <1>2, <1>3 DEF Inner, Open

LEMMA TurnHere ==
  ASSUME Source, NEW p \in DOMAIN ast, NEW j \in DOMAIN ast, ast[j].els = p
  PROVE  ast[p].op = "else" /\ ast[p].opener = j
<1>1. ast[j].els # 0
  BY DEF Source
<1>2. QED
  BY <1>1, ElseOf

LEMMA BegunNext ==
  ASSUME Source, NEW p \in DOMAIN ast, NEW j \in DOMAIN ast, ast[j].els # p
  PROVE  /\ Begun(j, p + 1) <=> Begun(j, p)
         /\ ast[j].els < p + 1 <=> ast[j].els < p
<1>1. ast[j] \in Item /\ p \in Nat
  BY DEF Source
<1>2. ast[j].els \in Nat
  BY <1>1 DEF Item
<1>3. QED
  BY <1>1, <1>2 DEF Begun

LEMMA CloserOnce ==
  ASSUME Source, NEW p \in DOMAIN ast, NEW q \in DOMAIN ast,
         ast[p].opener # 0, ast[p].opener = ast[q].opener
  PROVE  p = q
<1>1. Inner(ast, p, ast[p].opener) /\ Inner(ast, q, ast[p].opener) /\ p \in Nat /\ q \in Nat
  BY DEF Source, Nested
<1>2. p <= q /\ q <= p
  BY <1>1 DEF Inner, Open
<1>3. QED
  BY <1>1, <1>2

LEMMA SofarNext ==
  ASSUME NEW p \in Nat, p > 0
  PROVE  Sofar(p + 1) <=>
           /\ Sofar(p)
           /\ p > 1 /\ Leaves[p - 1] =>
                ast[p].op \in {"else", "end"} /\ ast[ast[p].opener].op # "for"
<1>1. /\ \A i \in 1..(p + 1 - 2) : i \in 1..(p - 2) \/ (i = p - 1 /\ p > 1)
      /\ 1..(p - 2) \subseteq 1..(p + 1 - 2)
      /\ p > 1 => p - 1 \in 1..(p + 1 - 2) /\ p - 1 + 1 = p
  OBVIOUS
<1>2. p > 1 => (Follows(p - 1) <=> ast[p].op \in {"else", "end"} /\ ast[ast[p].opener].op # "for")
  BY <1>1 DEF Follows
<1>3. QED
  BY <1>1, <1>2 DEF Sofar

(* An item control does not get past opens and closes no loop. *)
LEMMA LeavesSame ==
  ASSUME Source, NEW i \in DOMAIN ast, Leaves[i]
  PROVE  Loops(i + 1) = Loops(i)
<1>1. ast[i].op \in Returns \cup {"break"} \/ JoinsArms(i)
  BY LeavesIs DEF Source
<1>2. Open(ast, i + 1) = (Open(ast, i) \cup IF ast[i].op \in Blocks THEN {i} ELSE {}) \ {ast[i].opener}
  BY OpenNext DEF Source
<1>3. ast[i].op \notin Blocks
  BY <1>1 DEF JoinsArms, Returns, Blocks
<1>4. ast[i].op \notin {"else", "end"} => ast[i].opener = 0 /\ 0 \notin Open(ast, i)
  BY DEF Source, Nested, Open
<1>5. CASE JoinsArms(i)
  BY <1>2, <1>3, <1>5 DEF Loops, JoinsArms
<1>6. CASE ast[i].op \in Returns \cup {"break"}
  <2>1. ast[i].op \notin {"else", "end"}
    BY <1>6 DEF Returns
  <2>2. Open(ast, i + 1) = Open(ast, i)
    BY <1>2, <1>3, <1>4, <2>1
  <2>3. QED
    BY <2>2 DEF Loops
<1>7. QED
  BY <1>1, <1>5, <1>6

(* Control that leaves for good goes to a ret block or out of a loop. *)
LEMMA LeavesOpen ==
  ASSUME Source, NEW p \in 1..(Len(ast) + 1),
         \A i \in 1..(p - 1) : ast[i].op = "break" => Loops(i) # {}
  PROVE  \A i \in 1..(p - 1) : Leaves[i] => HasRet(i) \/ Loops(i) # {}
<1> DEFINE T == {n \in Nat : n \in 1..(p - 1) /\ Leaves[n] => HasRet(n) \/ Loops(n) # {}}
           l == p - 1
<1>1. /\ l \in Nat /\ Len(ast) \in Nat /\ p \in Nat
      /\ \A n \in 1..l : n \in DOMAIN ast /\ n \in Nat
  BY DEF Source
<1>2. 0 \in T
  OBVIOUS
<1>3. ASSUME NEW n \in 1..l, n - 1 \in T
      PROVE  n \in T
  <2>1. SUFFICES ASSUME Leaves[n] PROVE HasRet(n) \/ Loops(n) # {}
    BY <1>1
  <2>2. n \in DOMAIN ast /\ n \in Nat
    BY <1>1
  <2>3. ast[n].op \in Returns \/ ast[n].op = "break" \/ JoinsArms(n)
    BY <2>1, <2>2, LeavesIs DEF Source
  <2>4. CASE ast[n].op \in Returns
    BY <2>1, <2>2, <2>4, LeavesIs DEF Source
  <2>5. CASE ast[n].op = "break"
    BY <2>5
  <2>6. CASE JoinsArms(n)
    <3>1. Leaves[n - 1] /\ n - 1 \in DOMAIN ast
      BY <2>1, <2>2, <2>6, LeavesIs, ArmsBefore DEF Source
    <3>2. n - 1 \in 1..(p - 1) /\ n - 1 \in Nat /\ n - 1 > 0 /\ n - 1 + 1 = n
      BY <1>1, <2>2, <3>1
    <3>3. HasRet(n - 1) \/ Loops(n - 1) # {}
      BY <1>3, <3>1, <3>2
    <3>4. HasRet(n - 1) => HasRet(n)
      BY <3>2, HasRetNext
    <3>5. Loops(n - 1) = Loops(n)
      BY <3>1, <3>2, LeavesSame
    <3>6. QED
      BY <3>3, <3>4, <3>5
  <2>7. QED
    BY <2>3, <2>4, <2>5, <2>6
<1> HIDE DEF l
<1>4. 0..l \subseteq T
  <2> HIDE DEF T
  <2>1. QED
    BY <1>1, <1>2, <1>3, Upward
<1>5. QED
  BY <1>1, <1>4 DEF l

-----------------------------------------------------------------------------
(***************************************************************************)
(* The frame on top generates the innermost block, and only its if can     *)
(* have its else at pc.                                                    *)
(***************************************************************************)
LEMMA FramesAre ==
  ASSUME Typed, Generate, Walked, pc # 1
  PROVE  /\ frames \in Seq(Frame) /\ Len(frames) \in DOMAIN frames /\ Len(frames) \in Nat
         /\ Top = frames[Len(frames)] /\ DOMAIN frames = 1..Len(frames)
         /\ \A k \in DOMAIN frames : /\ frames[k].item \in DOMAIN ast
                                     /\ frames[k] \in Frame
                                     /\ frames[k].item \in Nat
         /\ \A j, k \in DOMAIN frames : j < k => frames[j].item < frames[k].item
<1>1. /\ frames \in Seq(Frame) /\ Len(frames) \in 1..Len(frames) /\ ast \in Seq(Item)
      /\ \A k \in DOMAIN frames : FrameOK(frames[k], nblocks)
  BY GenFacts DEF Typed, TypeOK, BodyTypeOK, FrameInv
<1>2. \A k \in DOMAIN frames : frames[k].item \in 1..Len(ast) /\ frames[k] \in Frame
  BY <1>1 DEF FrameOK
<1>3. \A j, k \in DOMAIN frames : j < k => frames[j].item < frames[k].item
  <2>1. DOMAIN FrameItems = DOMAIN frames /\ \A k \in DOMAIN frames : FrameItems[k] = frames[k].item
    BY DEF FrameItems, ItemsOf
  <2>2. QED
    BY <2>1 DEF Walked, Increasing
<1>4. QED
  BY <1>1, <1>2, <1>3 DEF Top

LEMMA TopInner ==
  ASSUME Typed, Generate, Source, Walked, pc # 1
  PROVE  \E j \in DOMAIN ast : /\ Inner(ast, pc, j) /\ Top.item = FrameItem(j)
                               /\ ast[pc].opener # 0 => j = ast[pc].opener
<1>1. /\ pc \in DOMAIN ast /\ ast \in Seq(Item) /\ pc \in 1..(Len(ast) + 1) /\ Nested(ast)
  BY GenPlace DEF Source
<1>2. PICK x \in DOMAIN ast : Inner(ast, pc, x)
  BY <1>1 DEF Nested
<1>3. x \in Open(ast, pc) /\ \A j \in Open(ast, pc) : j = x \/ j < x
  BY <1>2 DEF Inner, Open
<1>4. ast[pc].opener # 0 => x = ast[pc].opener
  <2>1. ast[pc].opener # 0 => Inner(ast, pc, ast[pc].opener)
    BY <1>1 DEF Nested
  <2>2. QED
    BY <1>2, <2>1 DEF Inner, Open
<1>5. \A j \in Open(ast, pc) : FrameItem(j) \in Nat
  BY <1>1, FrameItemType
<1>6. \A j \in Open(ast, pc) : FrameItem(j) <= FrameItem(x)
  <2>1. \A j \in Open(ast, pc) : j < x => FrameItem(j) < FrameItem(x)
    BY <1>1, <1>3, ItemOrder
  <2>2. QED
    BY <1>3, <1>5, <2>1
<1>7. Top.item \in Entries(FrameItems) /\ FrameItem(x) \in Entries(FrameItems)
  <2>1. DOMAIN FrameItems = DOMAIN frames /\ \A k \in DOMAIN frames : FrameItems[k] = frames[k].item
    BY DEF FrameItems, ItemsOf
  <2>2. Top.item \in Entries(FrameItems)
    BY <2>1, FramesAre DEF Entries
  <2>3. QED
    BY <1>3, <2>2 DEF Walked
<1>8. \A i \in Entries(FrameItems) : i <= Top.item
  <2>1. DOMAIN FrameItems = DOMAIN frames /\ \A k \in DOMAIN frames : FrameItems[k] = frames[k].item
    BY DEF FrameItems, ItemsOf
  <2>2. \A k \in DOMAIN frames : frames[k].item <= Top.item
    <3>1. \A k \in DOMAIN frames : k < Len(frames) \/ k = Len(frames)
      BY FramesAre
    <3>2. QED
      BY <3>1, FramesAre
  <2>3. QED
    BY <2>1, <2>2 DEF Entries
<1>9. \E j \in Open(ast, pc) : FrameItem(j) = Top.item
  BY <1>7 DEF Walked
<1>10. Top.item = FrameItem(x)
  BY <1>3, <1>5, <1>6, <1>7, <1>8, <1>9
<1>11. QED
  BY <1>2, <1>4, <1>10

LEMMA TopCloses ==
  ASSUME Typed, Generate, Source, Walked, pc # 1, ast[pc].opener # 0
  PROVE  Top.item = FrameItem(ast[pc].opener)
<1>1. PICK j \in DOMAIN ast : Top.item = FrameItem(j) /\ j = ast[pc].opener
  BY TopInner
<1>2. QED
  BY <1>1

LEMMA TurnFrame ==
  ASSUME Typed, Generate, Source, Walked, pc # 1
  PROVE  \A k \in DOMAIN frames : ast[frames[k].item].els = pc =>
           ast[pc].op = "else" /\ k = Len(frames)
<1> TAKE k \in DOMAIN frames
<1> HAVE ast[frames[k].item].els = pc
<1>1. pc \in DOMAIN ast /\ frames[k].item \in DOMAIN ast
  BY GenPlace, FramesAre
<1>2. ast[pc].op = "else" /\ ast[pc].opener = frames[k].item /\ ast[frames[k].item].op = "if"
  <2>1. ast[pc].op = "else" /\ ast[pc].opener = frames[k].item
    BY <1>1, TurnHere
  <2>2. ast[frames[k].item].els # 0
    BY <1>1 DEF Source
  <2>3. QED
    BY <1>1, <2>1, <2>2, ElseOf
<1>3. Top.item = frames[k].item
  <2>1. ast[pc].opener # 0
    BY <1>1, <1>2 DEF Source, Nested
  <2>2. Top.item = FrameItem(ast[pc].opener)
    BY <2>1, TopCloses
  <2>3. QED
    BY <1>2, <2>2 DEF FrameItem
<1>4. ~(k < Len(frames))
  <2>1. k < Len(frames) => frames[k].item < Top.item
    BY FramesAre
  <2>2. QED
    BY <1>3, <2>1, FramesAre
<1>5. QED
  BY <1>2, <1>4, FramesAre

(* What an else, or the end of an if, finds on top. *)
LEMMA TurnTop ==
  ASSUME Typed, Generate, Source, Walked, At("else")
  PROVE  ast[Top.item].els = pc /\ pc # 1
<1>1. pc \in DOMAIN ast /\ ast[pc].op = "else" /\ pc # 1
  BY GenPlace DEF At, Source
<1>2. ast[pc].opener # 0 /\ ast[ast[pc].opener].op = "if" /\ ast[ast[pc].opener].els = pc
  BY <1>1 DEF Source, Nested, Elses
<1>3. Top.item = ast[pc].opener
  <2>1. Top.item = FrameItem(ast[pc].opener)
    BY <1>1, <1>2, TopCloses
  <2>2. QED
    BY <1>2, <2>1 DEF FrameItem
<1>4. QED
  BY <1>1, <1>2, <1>3

LEMMA EndTop ==
  ASSUME Typed, Generate, Source, Walked, At("end")
  PROVE  /\ pc # 1
         /\ ast[Top.item].op = "if" =>
              \/ ast[Top.item].els = 0 /\ ~JoinsArms(pc)
              \/ /\ ast[Top.item].els = ast[pc].opener /\ ast[Top.item].els # 0
                 /\ ast[Top.item].els < pc /\ JoinsArms(pc)
         /\ ast[Top.item].op # "if" => Top.item = ast[pc].opener /\ ~JoinsArms(pc)
<1>1. pc \in DOMAIN ast /\ pc \in Nat /\ ast[pc].op = "end" /\ pc # 1
  BY GenPlace DEF At, Source
<1>2. ast[pc].opener # 0 /\ Inner(ast, pc, ast[pc].opener)
  BY <1>1 DEF Source, Nested
<1> DEFINE x == ast[pc].opener
<1>3. Top.item = FrameItem(x) /\ x \in DOMAIN ast /\ x \in 1..(pc - 1)
  <2>1. Top.item = FrameItem(x)
    BY <1>1, <1>2, TopCloses
  <2>2. x \in 1..(pc - 1) /\ pc \in 1..Len(ast) /\ Len(ast) \in Nat /\ DOMAIN ast = 1..Len(ast)
    BY <1>1, <1>2 DEF Inner, Open, Source
  <2>3. QED
    BY <2>1, <2>2
<1>4. CASE ast[x].op = "else"
  <2>1. Top.item = ast[x].opener /\ ast[ast[x].opener].els = x /\ ast[ast[x].opener].op = "if"
    BY <1>3, <1>4 DEF FrameItem, Source, Elses, Nested
  <2>2. QED
    BY <1>1, <1>3, <1>4, <2>1 DEF JoinsArms
<1>5. CASE ast[x].op # "else"
  <2>1. Top.item = x /\ ~JoinsArms(pc)
    BY <1>3, <1>5 DEF FrameItem, JoinsArms
  <2>2. ast[x].els = 0
    <3>1. SUFFICES ASSUME ast[x].els # 0 PROVE FALSE
      OBVIOUS
    <3>2. /\ ast[x].els \in DOMAIN ast /\ ast[ast[x].els].op = "else"
          /\ ast[ast[x].els].opener = x
      BY <1>3, <3>1, ElseOf
    <3>3. ast[x].els = pc
      BY <1>1, <1>2, <3>2, CloserOnce
    <3>4. QED
      BY <1>1, <3>2, <3>3
  <2>3. QED
    BY <1>1, <2>1, <2>2
<1>6. QED
  BY <1>4, <1>5

-----------------------------------------------------------------------------
(***************************************************************************)
(* What each step writes: to one block of those there were, the insertion  *)
(* point but for the end of a function.                                    *)
(***************************************************************************)
Writes(b, term, names) ==
  /\ Written(code, code', b, term)
  /\ Elsewhere(code, code', nblocks, b)
  /\ \A t : Mentions(code', t) <=> Mentions(code, t) \/ t \in names
Grows(b) ==
  /\ Elsewhere(code, code', nblocks, b)
  /\ \A x \in 1..nblocks : Spoiled(code, x) => Spoiled(code', x)

LEMMA WritesGrow ==
  ASSUME NEW b, NEW term, NEW names, Writes(b, term, names)
  PROVE  Grows(b)
<1>1. ASSUME NEW x \in 1..nblocks, Spoiled(code, x)
      PROVE  Spoiled(code', x)
  <2>1. CASE x = b
    BY <1>1, <2>1 DEF Writes, Written
  <2>2. CASE x # b
    <3>1. code'[x] = code[x]
      BY <2>2 DEF Writes, Elsewhere
    <3>2. QED
      BY <1>1, <3>1 DEF Spoiled
  <2>3. QED
    BY <2>1, <2>2
<1>2. QED
  BY <1>1 DEF Grows, Writes

LEMMA StillGrow ==
  ASSUME NEW b, UNCHANGED code
  PROVE  Grows(b)
BY DEF Grows, Elsewhere

LEMMA InsNames ==
  ASSUME Typed, NEW op \in Terminators \cup {"inst", "store"}, NEW yes \in Nat, NEW no \in Nat
  PROVE  /\ Ins(op, yes, no) \in Instr
         /\ Ins(op, yes, no).op \in Terminators <=> op \in Terminators
         /\ Named(Ins(op, yes, no)) = {yes, no} \ {0}
<1>1. pc \in Nat
  BY DEF Typed, TypeOK
<1>2. Ins(op, yes, no) \in Instr
  BY <1>1, InsType
<1>3. QED
  BY <1>2, InsFields DEF Named

LEMMA TwoWrites ==
  ASSUME NEW n \in Nat, NEW c \in Code(n), NEW b \in 1..n, NEW i \in Instr, NEW j \in Instr
  PROVE  /\ Emit(Emit(c, b, i), b, j) \in Code(n)
         /\ HasTerminator(Emit(Emit(c, b, i), b, j), b) <=> j.op \in Terminators
         /\ Spoiled(Emit(Emit(c, b, i), b, j), b) <=>
              Spoiled(c, b) \/ HasTerminator(c, b) \/ i.op \in Terminators
         /\ Elsewhere(c, Emit(Emit(c, b, i), b, j), n, b)
         /\ \A t : Mentions(Emit(Emit(c, b, i), b, j), t) <=>
                     Mentions(c, t) \/ t \in Named(i) \cup Named(j)
<1> DEFINE d == Emit(c, b, i)
           e == Emit(d, b, j)
<1>1. /\ d \in Code(n) /\ Written(c, d, b, i.op \in Terminators) /\ Elsewhere(c, d, n, b)
      /\ \A t : Mentions(d, t) <=> Mentions(c, t) \/ t \in Named(i)
  BY EmitWrites
<1> HIDE DEF d
<1>2. /\ e \in Code(n) /\ Written(d, e, b, j.op \in Terminators) /\ Elsewhere(d, e, n, b)
      /\ \A t : Mentions(e, t) <=> Mentions(d, t) \/ t \in Named(j)
  BY <1>1, EmitWrites
<1> HIDE DEF e
<1>3. /\ HasTerminator(e, b) <=> j.op \in Terminators
      /\ Spoiled(e, b) <=> Spoiled(c, b) \/ HasTerminator(c, b) \/ i.op \in Terminators
  BY <1>1, <1>2 DEF Written
<1>4. Elsewhere(c, e, n, b)
  BY <1>1, <1>2 DEF Elsewhere
<1>5. \A t : Mentions(e, t) <=> Mentions(c, t) \/ t \in Named(i) \cup Named(j)
  BY <1>1, <1>2
<1>6. QED
  BY <1>2, <1>3, <1>4, <1>5 DEF e, d

(* One instruction more, or two of which the first is no terminator. *)
LEMMA OneWrite ==
  ASSUME Typed, NEW b \in 1..nblocks, NEW i \in Instr, code' = Emit(code, b, i)
  PROVE  Writes(b, i.op \in Terminators, Named(i))
<1>1. nblocks \in Nat /\ code \in Code(nblocks)
  BY DEF Typed, TypeOK, Code
<1>2. /\ Written(code, Emit(code, b, i), b, i.op \in Terminators)
      /\ Elsewhere(code, Emit(code, b, i), nblocks, b)
      /\ \A t : Mentions(Emit(code, b, i), t) <=> Mentions(code, t) \/ t \in Named(i)
  BY <1>1, EmitWrites
<1>3. QED
  BY <1>2 DEF Writes

LEMMA OneIns ==
  ASSUME Typed, NEW b \in 1..nblocks, NEW op \in Terminators \cup {"inst", "store"},
         NEW yes \in Nat, NEW no \in Nat, code' = Emit(code, b, Ins(op, yes, no))
  PROVE  Writes(b, op \in Terminators, {yes, no} \ {0})
<1> DEFINE i == Ins(op, yes, no)
<1>1. i \in Instr /\ (i.op \in Terminators <=> op \in Terminators) /\ Named(i) = {yes, no} \ {0}
  BY InsNames
<1> HIDE DEF i
<1>2. Writes(b, i.op \in Terminators, Named(i))
  BY <1>1, OneWrite DEF i
<1>3. QED
  BY <1>1, <1>2 DEF Writes, Written

(* Where the insertion point and the blocks of the frame on top are. *)
LEMMA Blocks1 ==
  ASSUME Typed, Generate, pc # 1
  PROVE  /\ nblocks \in Nat /\ insert \in 1..nblocks
         /\ Top.head \in 1..nblocks /\ Top.head \in Nat
         /\ ast[Top.item].op = "if" => Top.f \in 1..nblocks /\ Top.m \in 1..nblocks
         /\ ast[Top.item].op = "for" => Top.m \in 1..nblocks
         /\ Top.m \in Nat /\ Top.item \in 1..MaxItems
         /\ \A i \in 1..MaxItems : retBlock[i] \in 0..nblocks /\ retBlock[i] \in Nat
         /\ currentFunction \in 1..MaxItems
<1>1. /\ Len(frames) \in 1..Len(frames) /\ frames \in Seq(Frame) /\ Top \in Frame
      /\ insert \in 1..nblocks /\ nblocks \in Nat /\ currentFunction \in 1..MaxItems
      /\ retBlock \in [1..MaxItems -> Nat] /\ \A i \in 1..MaxItems : retBlock[i] <= nblocks
      /\ \A k \in DOMAIN frames : FrameOK(frames[k], nblocks)
      /\ ast \in Seq(Item) /\ Len(ast) \in 1..MaxItems
  BY GenFacts, StateFacts DEF FramesOK, Typed, TypeOK, BodyTypeOK
<1>2. FrameOK(Top, nblocks)
  BY <1>1 DEF Top
<1>3. MaxItems \in Nat
  BY BodyAssumption DEF BodyAssumption
<1>4. Top.item \in 1..MaxItems /\ Top.m \in Nat
  BY <1>1, <1>2, <1>3 DEF FrameOK, Frame
<1>5. /\ Top.head \in 1..nblocks
      /\ ast[Top.item].op = "if" => Top.f \in 1..nblocks /\ Top.m \in 1..nblocks
      /\ ast[Top.item].op = "for" => Top.m \in 1..nblocks
  BY <1>2 DEF FrameOK
<1>6. \A i \in 1..MaxItems : retBlock[i] \in 0..nblocks /\ retBlock[i] \in Nat
  BY <1>1
<1>7. Top.head \in Nat
  BY <1>5
<1>8. QED
  BY <1>1, <1>4, <1>5, <1>6, <1>7

-----------------------------------------------------------------------------
(* The statements. *)
LEMMA StatementWrites ==
  ASSUME Typed, Generate, pc # 1, Statement
  PROVE  Writes(insert, FALSE, {})
<1>1. Writes(insert, "inst" \in Terminators, {0, 0} \ {0})
  <2>1. code' = Emit(code, insert, Ins("inst", 0, 0)) /\ insert \in 1..nblocks
    BY Blocks1 DEF Statement
  <2>2. "inst" \in Terminators \cup {"inst", "store"} /\ 0 \in Nat
    OBVIOUS
  <2>3. QED
    BY <2>1, <2>2, OneIns
<1>2. "inst" \notin Terminators /\ {0, 0} \ {0} = {}
  BY DEF Terminators
<1>3. QED
  BY <1>1, <1>2 DEF Writes, Written

LEMMA BranchWrites ==
  ASSUME Typed, NEW b \in 1..nblocks, NEW t \in Nat \ {0}, code' = Emit(code, b, Ins("br", t, 0))
  PROVE  Writes(b, TRUE, {t})
<1>1. Writes(b, "br" \in Terminators, {t, 0} \ {0})
  <2>1. "br" \in Terminators \cup {"inst", "store"} /\ 0 \in Nat /\ t \in Nat
    BY DEF Terminators
  <2>2. QED
    BY <2>1, OneIns
<1>2. "br" \in Terminators /\ {t, 0} \ {0} = {t}
  BY DEF Terminators
<1>3. QED
  BY <1>1, <1>2 DEF Writes, Written

LEMMA ReturnWrites ==
  ASSUME Typed, Generate, pc # 1, Return
  PROVE  /\ retBlock[currentFunction] = 0 => UNCHANGED code
         /\ retBlock[currentFunction] # 0 => Writes(insert, TRUE, {retBlock[currentFunction]})
<1> DEFINE r == retBlock[currentFunction]
<1>1. r \in Nat /\ insert \in 1..nblocks
  BY Blocks1
<1>2. code' = IF r = 0 THEN code ELSE Emit(code, insert, Ins("br", r, 0))
  BY DEF Return
<1> HIDE DEF r
<1>3. r # 0 => Writes(insert, TRUE, {r})
  BY <1>1, <1>2, BranchWrites
<1>4. QED
  BY <1>2, <1>3 DEF r

LEMMA ReturnValueWrites ==
  ASSUME Typed, Generate, pc # 1, ReturnValue
  PROVE  /\ phase' # "gen" => UNCHANGED code
         /\ phase' = "gen" =>
              /\ retBlock[currentFunction] = 0 => Writes(insert, FALSE, {})
              /\ retBlock[currentFunction] # 0 => Writes(insert, TRUE, {retBlock[currentFunction]})
<1> DEFINE r == retBlock[currentFunction]
           store == Ins("store", 0, 0)
           stored == Emit(code, insert, store)
           br == Ins("br", r, 0)
<1>1. r \in Nat /\ insert \in 1..nblocks /\ nblocks \in Nat /\ code \in Code(nblocks)
  BY Blocks1 DEF Typed, TypeOK, Code
<1>2. \/ /\ phase' = "gen"
         /\ code' = IF r = 0 THEN stored ELSE Emit(stored, insert, br)
      \/ phase' = "error" /\ code' = code
  BY DEF ReturnValue, Step
<1>3. /\ store \in Instr /\ store.op \notin Terminators /\ Named(store) = {}
  <2>1. "store" \in Terminators \cup {"inst", "store"} /\ 0 \in Nat /\ "store" \notin Terminators
        /\ {0, 0} \ {0} = {}
    BY DEF Terminators
  <2>2. QED
    BY <2>1, InsNames
<1>4. r # 0 => br \in Instr /\ br.op \in Terminators /\ Named(br) = {r}
  <2>1. "br" \in Terminators /\ 0 \in Nat
    BY DEF Terminators
  <2>2. r # 0 => {r, 0} \ {0} = {r}
    OBVIOUS
  <2>3. QED
    BY <1>1, <2>1, <2>2, InsNames
<1> HIDE DEF r, store, br
<1>5. code' = stored => Writes(insert, FALSE, {})
  <2>1. code' = stored => Writes(insert, store.op \in Terminators, Named(store))
    BY <1>1, <1>3, OneWrite
  <2>2. QED
    BY <1>3, <2>1 DEF Writes, Written
<1>6. r # 0 /\ code' = Emit(stored, insert, br) => Writes(insert, TRUE, {r})
  <2>1. SUFFICES ASSUME r # 0, code' = Emit(stored, insert, br) PROVE Writes(insert, TRUE, {r})
    OBVIOUS
  <2>2. /\ HasTerminator(code', insert) <=> br.op \in Terminators
        /\ Spoiled(code', insert) <=>
             Spoiled(code, insert) \/ HasTerminator(code, insert) \/ store.op \in Terminators
        /\ Elsewhere(code, code', nblocks, insert)
        /\ \A t : Mentions(code', t) <=> Mentions(code, t) \/ t \in Named(store) \cup Named(br)
    BY <1>1, <1>3, <1>4, <2>1, TwoWrites
  <2>3. QED
    BY <1>3, <1>4, <2>1, <2>2 DEF Writes, Written
<1>7. QED
  BY <1>2, <1>5, <1>6 DEF r

LEMMA BreakWrites ==
  ASSUME Typed, Linked, Generate, pc # 1, Break
  PROVE  /\ phase' # "gen" => UNCHANGED code
         /\ phase' = "gen" =>
              /\ breakPoints # <<>> /\ BreakPoint \in Kept
              /\ Writes(insert, TRUE, {BreakPoint})
<1>1. \/ /\ phase' = "gen" /\ breakPoints # <<>>
         /\ code' = Emit(code, insert, Ins("br", BreakPoint, 0))
      \/ phase' = "error" /\ code' = code
  BY DEF Break, Step
<1>2. breakPoints # <<>> => BreakPoint \in Kept
  <2>1. breakPoints \in Seq(Nat)
    BY DEF Typed, TypeOK
  <2>2. breakPoints # <<>> => Len(breakPoints) \in DOMAIN breakPoints
    BY <2>1
  <2>3. QED
    BY <2>2 DEF BreakPoint, Kept
<1>3. insert \in 1..nblocks /\ \A t \in Kept : t \in Nat \ {0}
  <2>1. Kept \subseteq 1..nblocks /\ nblocks \in Nat
    BY Blocks1 DEF Linked, Typed, TypeOK
  <2>2. QED
    BY <2>1, Blocks1
<1>4. QED
  BY <1>1, <1>2, <1>3, BranchWrites

-----------------------------------------------------------------------------
(* The steps that create blocks. *)
LEMMA GrownWrites ==
  ASSUME nblocks \in Nat, code \in Code(nblocks), insert \in 1..nblocks, NEW n \in Nat,
         NEW d, NEW term, NEW names,
         Written(Grow(code, n), d, insert, term),
         Elsewhere(Grow(code, n), d, nblocks + n, insert),
         \A t : Mentions(d, t) <=> Mentions(Grow(code, n), t) \/ t \in names
  PROVE  /\ Written(code, d, insert, term)
         /\ Elsewhere(code, d, nblocks, insert)
         /\ \A t : Mentions(d, t) <=> Mentions(code, t) \/ t \in names
         /\ \A x \in (nblocks + 1)..(nblocks + n) : d[x] = <<>>
<1> DEFINE g == Grow(code, n)
<1>1. /\ \A x \in 1..nblocks : g[x] = code[x]
      /\ \A x \in (nblocks + 1)..(nblocks + n) : g[x] = <<>>
      /\ \A t : Mentions(g, t) <=> Mentions(code, t)
  BY GrowWrites
<1>2. /\ Written(g, d, insert, term) /\ Elsewhere(g, d, nblocks + n, insert)
      /\ \A t : Mentions(d, t) <=> Mentions(g, t) \/ t \in names
  OBVIOUS
<1> HIDE DEF g
<1>3. /\ \A x \in 1..nblocks : x \in 1..(nblocks + n)
      /\ \A x \in (nblocks + 1)..(nblocks + n) : x \in 1..(nblocks + n) /\ x # insert
  OBVIOUS
<1>4. /\ HasTerminator(g, insert) <=> HasTerminator(code, insert)
      /\ Spoiled(g, insert) <=> Spoiled(code, insert)
  BY <1>1, SameBlock
<1>5. Written(code, d, insert, term)
  BY <1>2, <1>4 DEF Written
<1>6. Elsewhere(code, d, nblocks, insert)
  BY <1>1, <1>2, <1>3 DEF Elsewhere
<1>7. \A x \in (nblocks + 1)..(nblocks + n) : d[x] = <<>>
  BY <1>1, <1>2, <1>3 DEF Elsewhere
<1>8. QED
  BY <1>1, <1>2, <1>5, <1>6, <1>7

LEMMA BeginFunctionWrites ==
  ASSUME Typed, Generate, BeginFunction
  PROVE  /\ nblocks \in Nat
         /\ \A x \in 1..nblocks : code'[x] = code[x]
         /\ code'[nblocks + 1] = <<>>
         /\ \A t : Mentions(code', t) <=> Mentions(code, t)
<1>1. nblocks \in Nat /\ code \in Code(nblocks) /\ code' = Grow(code, 1)
  BY StateFacts DEF BeginFunction, Code
<1>2. /\ \A x \in 1..nblocks : code'[x] = code[x]
      /\ \A x \in (nblocks + 1)..(nblocks + 1) : code'[x] = <<>>
      /\ \A t : Mentions(code', t) <=> Mentions(code, t)
  BY <1>1, GrowWrites
<1>3. QED
  BY <1>1, <1>2

(* The blocks of an if, after the ret block where there is one. *)
Asked == IF NeedsRet(pc) THEN 4 ELSE 3
Otherwise == IF ast[pc].els # 0 THEN nblocks + Asked - 1 ELSE nblocks + Asked

LEMMA BeginIfWrites ==
  ASSUME Typed, Generate, pc # 1, BeginIf
  PROVE  /\ Writes(insert, TRUE, {nblocks + Asked - 2, Otherwise})
         /\ \A x \in (nblocks + 1)..(nblocks + Asked) : code'[x] = <<>>
<1> DEFINE n == Asked
           t == nblocks + n - 2
           no == Otherwise
           i == Ins("condbr", t, no)
<1>1. /\ nblocks \in Nat /\ code \in Code(nblocks) /\ insert \in 1..nblocks
      /\ n \in {3, 4} /\ t \in Nat \ {0} /\ no \in Nat \ {0}
  <2>1. nblocks \in Nat /\ code \in Code(nblocks) /\ insert \in 1..nblocks
    BY Blocks1 DEF Typed, TypeOK, Code
  <2>2. n \in {3, 4}
    BY DEF Asked
  <2>3. no \in {nblocks + n - 1, nblocks + n}
    BY DEF Otherwise
  <2> HIDE DEF n, no
  <2>4. t \in Nat \ {0} /\ no \in Nat \ {0}
    BY <2>1, <2>2, <2>3
  <2>5. QED
    BY <2>1, <2>2, <2>4
<1>2. code' = Emit(Grow(code, n), insert, i)
  BY DEF BeginIf, Asked, Otherwise
<1> HIDE DEF n, t, no
<1>3. i \in Instr /\ i.op \in Terminators /\ Named(i) = {t, no}
  <2>1. "condbr" \in Terminators /\ {t, no} \ {0} = {t, no}
    BY <1>1 DEF Terminators
  <2>2. QED
    BY <1>1, <2>1, InsNames
<1> HIDE DEF i
<1> DEFINE g == Grow(code, n)
<1>4. n \in Nat /\ nblocks + n \in Nat /\ insert \in 1..(nblocks + n) /\ g \in Code(nblocks + n)
  <2>1. n \in Nat /\ nblocks + n \in Nat /\ insert \in 1..(nblocks + n)
    BY <1>1
  <2>2. QED
    BY <1>1, <2>1, GrowWrites
<1>5. /\ Written(g, code', insert, TRUE)
      /\ Elsewhere(g, code', nblocks + n, insert)
      /\ \A x : Mentions(code', x) <=> Mentions(g, x) \/ x \in {t, no}
  <2> HIDE DEF g
  <2>1. /\ Written(g, Emit(g, insert, i), insert, i.op \in Terminators)
        /\ Elsewhere(g, Emit(g, insert, i), nblocks + n, insert)
        /\ \A x : Mentions(Emit(g, insert, i), x) <=> Mentions(g, x) \/ x \in Named(i)
    BY <1>3, <1>4, EmitWrites
  <2>2. code' = Emit(g, insert, i)
    BY <1>2 DEF g
  <2>3. QED
    BY <1>3, <2>1, <2>2 DEF Written
<1>6. /\ Written(code, code', insert, TRUE)
      /\ Elsewhere(code, code', nblocks, insert)
      /\ \A x : Mentions(code', x) <=> Mentions(code, x) \/ x \in {t, no}
      /\ \A x \in (nblocks + 1)..(nblocks + n) : code'[x] = <<>>
  BY <1>1, <1>4, <1>5, GrownWrites
<1>7. Writes(insert, TRUE, {t, no})
  BY <1>6 DEF Writes
<1>8. QED
  BY <1>6, <1>7 DEF n, t, no

LEMMA BeginForWrites ==
  ASSUME Typed, Generate, pc # 1, BeginFor
  PROVE  /\ Writes(insert, TRUE, (nblocks + 1)..(nblocks + 3))
         /\ Ended(code', nblocks + 1)
         /\ code'[nblocks + 2] = <<>> /\ code'[nblocks + 3] = <<>>
<1> DEFINE cond == nblocks + 1
           i == Ins("inst", 0, 0)
           j == Ins("br", cond, 0)
           test == Ins("condbr", nblocks + 2, nblocks + 3)
           g == Grow(code, 3)
           init == Emit(Emit(g, insert, i), insert, j)
<1>1. /\ nblocks \in Nat /\ code \in Code(nblocks) /\ insert \in 1..nblocks
      /\ 3 \in Nat /\ nblocks + 3 \in Nat /\ insert \in 1..(nblocks + 3)
      /\ cond \in 1..(nblocks + 3) /\ cond # insert
      /\ cond \in Nat /\ nblocks + 2 \in Nat /\ 0 \in Nat
  <2>1. nblocks \in Nat /\ code \in Code(nblocks) /\ insert \in 1..nblocks
    BY Blocks1 DEF Typed, TypeOK, Code
  <2>2. QED
    BY <2>1
<1>2. code' = Emit(init, cond, test)
  BY DEF BeginFor
<1>3. /\ i \in Instr /\ i.op \notin Terminators /\ Named(i) = {}
      /\ j \in Instr /\ j.op \in Terminators /\ Named(j) = {cond}
      /\ test \in Instr /\ test.op \in Terminators /\ Named(test) = {nblocks + 2, nblocks + 3}
  <2>1. /\ "inst" \notin Terminators /\ "br" \in Terminators /\ "condbr" \in Terminators
        /\ {0, 0} \ {0} = {} /\ {cond, 0} \ {0} = {cond}
        /\ {nblocks + 2, nblocks + 3} \ {0} = {nblocks + 2, nblocks + 3}
    BY <1>1 DEF Terminators
  <2>2. i \in Instr /\ i.op \notin Terminators /\ Named(i) = {}
    BY <1>1, <2>1, InsNames
  <2>3. j \in Instr /\ j.op \in Terminators /\ Named(j) = {cond}
    BY <1>1, <2>1, InsNames
  <2>4. test \in Instr /\ test.op \in Terminators /\ Named(test) = {nblocks + 2, nblocks + 3}
    BY <1>1, <2>1, InsNames
  <2>5. QED
    BY <2>2, <2>3, <2>4
<1>4. g \in Code(nblocks + 3)
  BY <1>1, GrowWrites
<1> HIDE DEF i, j, test, cond, g
<1>5. /\ init \in Code(nblocks + 3)
      /\ HasTerminator(init, insert)
      /\ Spoiled(init, insert) <=> Spoiled(g, insert) \/ HasTerminator(g, insert)
      /\ Elsewhere(g, init, nblocks + 3, insert)
      /\ \A t : Mentions(init, t) <=> Mentions(g, t) \/ t = cond
  <2> DEFINE n == nblocks + 3
  <2>0. n \in Nat /\ insert \in 1..n /\ g \in Code(n) /\ i \in Instr /\ j \in Instr
    BY <1>1, <1>3, <1>4
  <2> HIDE DEF n
  <2>1. /\ init \in Code(n)
        /\ HasTerminator(init, insert) <=> j.op \in Terminators
        /\ Spoiled(init, insert) <=>
             Spoiled(g, insert) \/ HasTerminator(g, insert) \/ i.op \in Terminators
        /\ Elsewhere(g, init, n, insert)
        /\ \A t : Mentions(init, t) <=> Mentions(g, t) \/ t \in Named(i) \cup Named(j)
    BY <2>0, TwoWrites
  <2> HIDE DEF init
  <2> USE DEF n
  <2>2. QED
    BY <1>3, <2>1
<1> HIDE DEF init
<1>6. /\ Written(code, init, insert, TRUE)
      /\ Elsewhere(code, init, nblocks, insert)
      /\ \A t : Mentions(init, t) <=> Mentions(code, t) \/ t \in {cond}
      /\ \A x \in (nblocks + 1)..(nblocks + 3) : init[x] = <<>>
  <2>1. Written(g, init, insert, TRUE)
    BY <1>5 DEF Written
  <2>2. \A t : Mentions(init, t) <=> Mentions(g, t) \/ t \in {cond}
    BY <1>5
  <2>3. QED
    BY <1>1, <1>5, <2>1, <2>2, GrownWrites DEF g
<1>7. /\ Written(init, code', cond, TRUE)
      /\ Elsewhere(init, code', nblocks + 3, cond)
      /\ \A t : Mentions(code', t) <=> Mentions(init, t) \/ t \in {nblocks + 2, nblocks + 3}
  <2>1. /\ Written(init, code', cond, test.op \in Terminators)
        /\ Elsewhere(init, code', nblocks + 3, cond)
        /\ \A t : Mentions(code', t) <=> Mentions(init, t) \/ t \in Named(test)
    BY <1>1, <1>2, <1>3, <1>5, EmitWrites
  <2>2. QED
    BY <1>3, <2>1 DEF Written
<1>8. /\ \A x \in 1..nblocks : code'[x] = init[x]
      /\ code'[nblocks + 2] = init[nblocks + 2] /\ code'[nblocks + 3] = init[nblocks + 3]
      /\ nblocks + 2 \in (nblocks + 1)..(nblocks + 3) /\ nblocks + 3 \in (nblocks + 1)..(nblocks + 3)
      /\ cond \in (nblocks + 1)..(nblocks + 3)
  <2>1. /\ \A x \in 1..nblocks : x \in 1..(nblocks + 3) /\ x # cond
        /\ nblocks + 2 \in 1..(nblocks + 3) /\ nblocks + 2 # cond
        /\ nblocks + 3 \in 1..(nblocks + 3) /\ nblocks + 3 # cond
    BY <1>1 DEF cond
  <2>2. /\ nblocks + 2 \in (nblocks + 1)..(nblocks + 3) /\ nblocks + 3 \in (nblocks + 1)..(nblocks + 3)
        /\ cond \in (nblocks + 1)..(nblocks + 3)
    BY <1>1 DEF cond
  <2>3. QED
    BY <1>7, <2>1, <2>2 DEF Elsewhere
<1>9. Writes(insert, TRUE, (nblocks + 1)..(nblocks + 3))
  <2>1. Written(code, code', insert, TRUE)
    <3>1. /\ HasTerminator(code', insert) <=> HasTerminator(init, insert)
          /\ Spoiled(code', insert) <=> Spoiled(init, insert)
      BY <1>1, <1>8, SameBlock
    <3>2. QED
      BY <1>6, <3>1 DEF Written
  <2>2. Elsewhere(code, code', nblocks, insert)
    BY <1>6, <1>8 DEF Elsewhere
  <2>3. (nblocks + 1)..(nblocks + 3) = {cond, nblocks + 2, nblocks + 3}
    BY <1>1 DEF cond
  <2>4. \A t : Mentions(code', t) <=> Mentions(code, t) \/ t \in {cond, nblocks + 2, nblocks + 3}
    BY <1>6, <1>7
  <2>5. QED
    BY <2>1, <2>2, <2>3, <2>4 DEF Writes
<1>10. Ended(code', cond)
  <2>1. ~HasTerminator(init, cond) /\ ~Spoiled(init, cond)
    BY <1>6, <1>8, EmptyBlock
  <2>2. QED
    BY <1>7, <2>1 DEF Written, Ended
<1>11. QED
  BY <1>6, <1>8, <1>9, <1>10 DEF cond

-----------------------------------------------------------------------------
(***************************************************************************)
(* The ends.  An arm of an if joins m when its first or its last block is  *)
(* open; the end of a closure spoils the block it was in.                  *)
(***************************************************************************)
LEMMA JoinWrites ==
  ASSUME Typed, Generate, pc # 1, Top.m # 0, code' = JoinArm(code, Top.head, Top.m)
  PROVE  IF HasTerminator(code, Top.head) /\ HasTerminator(code, insert)
           THEN UNCHANGED code
           ELSE Writes(insert, TRUE, {Top.m})
<1>1. insert \in 1..nblocks /\ Top.m \in Nat \ {0}
  BY Blocks1
<1>2. CASE HasTerminator(code, Top.head) /\ HasTerminator(code, insert)
  BY <1>2 DEF JoinArm
<1>3. CASE ~(HasTerminator(code, Top.head) /\ HasTerminator(code, insert))
  <2>1. code' = Emit(code, insert, Ins("br", Top.m, 0))
    BY <1>3 DEF JoinArm
  <2>2. QED
    BY <1>1, <1>3, <2>1, BranchWrites
<1>4. QED
  BY <1>2, <1>3

LEMMA EndForWrites ==
  ASSUME Typed, Generate, pc # 1, EndFor
  PROVE  Writes(insert, TRUE, {Top.head})
<1>1. insert \in 1..nblocks /\ Top.head \in Nat \ {0}
  <2>1. insert \in 1..nblocks /\ Top.head \in 1..nblocks
    BY Blocks1
  <2>2. QED
    BY <2>1, Blocks1
<1>2. code' = Emit(code, insert, Ins("br", Top.head, 0))
  BY DEF EndFor
<1>3. QED
  BY <1>1, <1>2, BranchWrites

(* The block a function ends in. *)
RetEnd == IF retBlock[Top.item] # 0 THEN retBlock[Top.item] ELSE insert

LEMMA EndFunctionWrites ==
  ASSUME Typed, Generate, pc # 1, EndFunction
  PROVE  /\ RetEnd \in 1..nblocks
         /\ ast[Top.item].op = "fn" => Writes(RetEnd, TRUE, {})
         /\ ast[Top.item].op # "fn" => Grows(RetEnd) /\ Spoiled(code', RetEnd)
<1> DEFINE b == RetEnd
           i == Ins("ret", 0, 0)
           j == Ins("inst", 0, 0)
           done == Emit(code, b, i)
<1>1. b \in 1..nblocks /\ nblocks \in Nat /\ code \in Code(nblocks)
  BY EndBlock, Blocks1 DEF RetEnd, Typed, TypeOK, Code
<1>2. code' = IF ast[Top.item].op = "fn" THEN done ELSE Emit(done, b, j)
  BY DEF EndFunction, RetEnd
<1> HIDE DEF b
<1>3. /\ i \in Instr /\ i.op \in Terminators /\ Named(i) = {}
      /\ j \in Instr /\ j.op \notin Terminators /\ Named(j) = {}
  <2>1. "ret" \in Terminators /\ "inst" \notin Terminators /\ {0, 0} \ {0} = {} /\ 0 \in Nat
    BY DEF Terminators
  <2>2. i \in Instr /\ i.op \in Terminators /\ Named(i) = {}
    BY <2>1, InsNames
  <2>3. j \in Instr /\ j.op \notin Terminators /\ Named(j) = {}
    BY <2>1, InsNames
  <2>4. QED
    BY <2>2, <2>3
<1> HIDE DEF i, j
<1>4. code' = done => Writes(b, TRUE, {})
  <2>1. code' = done => Writes(b, i.op \in Terminators, Named(i))
    BY <1>1, <1>3, OneWrite
  <2>2. QED
    BY <1>3, <2>1 DEF Writes, Written
<1>5. code' = Emit(done, b, j) => Grows(b) /\ Spoiled(code', b)
  <2>1. SUFFICES ASSUME code' = Emit(done, b, j) PROVE Grows(b) /\ Spoiled(code', b)
    OBVIOUS
  <2>2. /\ Spoiled(code', b) <=>
             Spoiled(code, b) \/ HasTerminator(code, b) \/ i.op \in Terminators
        /\ Elsewhere(code, code', nblocks, b)
    BY <1>1, <1>3, <2>1, TwoWrites
  <2>3. \A x \in 1..nblocks : x # b => (Spoiled(code, x) <=> Spoiled(code', x))
    BY <2>2, SameBlock DEF Elsewhere
  <2>4. QED
    BY <1>3, <2>2, <2>3 DEF Grows
<1>6. QED
  BY <1>1, <1>2, <1>4, <1>5 DEF b

-----------------------------------------------------------------------------
(***************************************************************************)
(* Apart through the four ways a step treats the frames: as they are, one  *)
(* more, the arm of the top one turned, the top one gone.                  *)
(***************************************************************************)
LEMMA ApartPrimed ==
  ASSUME UNCHANGED ast, Apart(frames', attached', insert', Rets', code', pc')
  PROVE  Apart(frames, attached, insert, Rets, code, pc)'
<1>1. /\ \A k \in DOMAIN frames' : Split(frames'[k], pc')
      /\ \A j, k \in DOMAIN frames' : j # k => Ends(frames'[k]) \cap Uses(frames'[j]) = {}
      /\ \A k \in DOMAIN frames' : /\ Ends(frames'[k]) \cap Rets' = {}
                                   /\ Uses(frames'[k]) \subseteq attached'
      /\ Rets' \subseteq attached'
      /\ insert' \notin Waiting(frames')
      /\ \A b \in Waiting(frames') : code'[b] = <<>>
  BY DEF Apart
<1>2. (\A k \in DOMAIN frames : Split(frames[k], pc))'
  BY <1>1 DEF Split, Begun, IsIf, IsFor
<1>3. (\A j, k \in DOMAIN frames : j # k => Ends(frames[k]) \cap Uses(frames[j]) = {})'
  BY <1>1 DEF Uses, Ends, IsIf, IsFor
<1>4. (\A k \in DOMAIN frames : /\ Ends(frames[k]) \cap Rets = {}
                                /\ Uses(frames[k]) \subseteq attached)'
  BY <1>1 DEF Uses, Ends, IsIf, IsFor
<1>5. (insert \notin Waiting(frames))' /\ (\A b \in Waiting(frames) : code[b] = <<>>)'
  BY <1>1 DEF Waiting, Waits, Ends, IsIf, IsFor
<1>6. QED
  BY <1>1, <1>2, <1>3, <1>4, <1>5 DEF Apart

LEMMA KindredNext ==
  ASSUME UNCHANGED ast, pc' # 1,
         Apart(frames', attached', insert', Rets', code', pc'),
         Running' => insert' \in attached'
  PROVE  Kindred'
<1>1. Apart(frames, attached, insert, Rets, code, pc)'
  BY ApartPrimed
<1>2. QED
  BY <1>1 DEF Kindred

LEMMA InWaiting ==
  ASSUME NEW fs, NEW b
  PROVE  b \in Waiting(fs) <=> \E k \in DOMAIN fs : b \in Ends(fs[k]) /\ b # fs[k].head
BY DEF Waiting, Waits

LEMMA SplitNext ==
  ASSUME Source, NEW p \in DOMAIN ast, NEW fr, fr.item \in DOMAIN ast, ast[fr.item].els # p
  PROVE  Split(fr, p + 1) <=> Split(fr, p)
BY BegunNext DEF Split

(* No if of a frame has its else at item p. *)
Settled(fs, p) == \A k \in DOMAIN fs : fs[k].item \in DOMAIN ast /\ ast[fs[k].item].els # p

Same(c, d, S) == \A b \in S : d[b] = c[b]

LEMMA StayApart ==
  ASSUME Source, NEW p \in DOMAIN ast, NEW fs, NEW att, NEW ins, NEW rets, NEW c, NEW d,
         Apart(fs, att, ins, rets, c, p),
         Settled(fs, p), Same(c, d, Waiting(fs)), NEW q, q = p + 1
  PROVE  Apart(fs, att, ins, rets, d, q)
<1> USE DEF Settled, Same
<1>1. \A k \in DOMAIN fs : Split(fs[k], p + 1)
  BY SplitNext DEF Apart
<1>2. \A b \in Waiting(fs) : d[b] = <<>>
  BY DEF Apart
<1>3. QED
  BY <1>1, <1>2 DEF Apart

(* A frame for item p over blocks nobody had. *)
NewFrame(fr, p, new) ==
  /\ fr.item = p /\ Uses(fr) \subseteq new
  /\ IsIf(fr) => fr.f # fr.m /\ fr.head # fr.m /\ fr.head # fr.f
  /\ IsFor(fr) => fr.head # fr.m

LEMMA PushApart ==
  ASSUME Source, NEW p \in DOMAIN ast, NEW fs \in Seq(Frame), NEW att, NEW ins, NEW rets,
         NEW c, NEW d, Apart(fs, att, ins, rets, c, p),
         Settled(fs, p),
         NEW fr \in Frame, NEW new, att \cap new = {}, NewFrame(fr, p, new),
         NEW ins2, ins2 \in new \ Waits(fr),
         NEW rets2, rets2 \subseteq rets \cup (new \ Ends(fr)),
         Same(c, d, Waiting(fs)), \A b \in Waits(fr) : d[b] = <<>>,
         NEW gs, gs = Append(fs, fr), NEW att2, att2 = att \cup new, NEW q, q = p + 1
  PROVE  Apart(gs, att2, ins2, rets2, d, q)
<1> DEFINE n == Len(fs) + 1
<1> USE DEF NewFrame, Settled, Same
<1>1. /\ \A k \in DOMAIN fs : k \in DOMAIN gs /\ gs[k] = fs[k] /\ k # n
      /\ n \in DOMAIN gs /\ gs[n] = fr
      /\ \A k \in DOMAIN gs : k \in DOMAIN fs \/ k = n
  <2>1. /\ Len(gs) = Len(fs) + 1 /\ DOMAIN gs = 1..(Len(fs) + 1) /\ gs[Len(fs) + 1] = fr
        /\ \A k \in DOMAIN fs : gs[k] = fs[k]
    BY PushSeq
  <2>2. Len(fs) \in Nat /\ DOMAIN fs = 1..Len(fs)
    OBVIOUS
  <2>3. QED
    BY <2>1, <2>2
<1> HIDE DEF n
<1>2. Split(fr, p + 1)
  <2>1. ~Begun(p, p + 1)
    <3>1. ast[p].els # 0 => p \in 1..(ast[p].els - 1) /\ ast[p].els \in Nat
      BY ElseOf
    <3>2. p \in Nat
      BY DEF Source
    <3>3. QED
      BY <3>1, <3>2 DEF Begun
  <2>2. QED
    BY <2>1 DEF Split
<1>3. \A k \in DOMAIN gs : Split(gs[k], p + 1)
  <2>1. \A k \in DOMAIN fs : Split(fs[k], p + 1)
    BY SplitNext DEF Apart
  <2>2. QED
    BY <1>1, <1>2, <2>1
<1>4. /\ \A k \in DOMAIN fs : /\ Uses(fs[k]) \subseteq att /\ Ends(fs[k]) \subseteq Uses(fs[k])
                              /\ Ends(fs[k]) \cap rets = {}
      /\ \A j, k \in DOMAIN fs : j # k => Ends(fs[k]) \cap Uses(fs[j]) = {}
      /\ rets \subseteq att
      /\ Ends(fr) \subseteq Uses(fr)
  BY DEF Apart, Uses
<1>5. \A j, k \in DOMAIN gs : j # k => Ends(gs[k]) \cap Uses(gs[j]) = {}
  BY <1>1, <1>4
<1>6. /\ \A k \in DOMAIN gs : Ends(gs[k]) \cap rets2 = {} /\ Uses(gs[k]) \subseteq att \cup new
      /\ rets2 \subseteq att \cup new
  <2>1. \A k \in DOMAIN fs : Ends(fs[k]) \cap rets2 = {} /\ Uses(fs[k]) \subseteq att \cup new
    BY <1>4
  <2>2. Ends(fr) \cap rets2 = {} /\ Uses(fr) \subseteq att \cup new
    BY <1>4
  <2>3. QED
    BY <1>1, <1>4, <2>1, <2>2
<1>7. \A b \in Waiting(gs) : b \in Waiting(fs) \/ b \in Waits(fr)
  <2> TAKE b \in Waiting(gs)
  <2>1. PICK k \in DOMAIN gs : b \in Ends(gs[k]) /\ b # gs[k].head
    BY DEF Waiting, Waits
  <2>2. CASE k = n
    BY <1>1, <2>1, <2>2 DEF Waits
  <2>3. CASE k # n
    <3>1. k \in DOMAIN fs /\ gs[k] = fs[k]
      BY <1>1, <2>3
    <3>2. QED
      BY <2>1, <3>1, InWaiting
  <2>4. QED
    BY <2>2, <2>3
<1>8. ins2 \notin Waiting(gs)
  <2>1. \A b \in Waiting(fs) : b \in att
    BY <1>4, InWaiting
  <2>2. QED
    BY <1>7, <2>1
<1>9. \A b \in Waiting(gs) : d[b] = <<>>
  <2>1. \A b \in Waiting(fs) : d[b] = <<>>
    BY DEF Apart
  <2>2. QED
    BY <1>7, <2>1
<1>10. QED
  BY <1>3, <1>5, <1>6, <1>8, <1>9 DEF Apart

LEMMA TurnApart ==
  ASSUME Source, NEW p \in DOMAIN ast, NEW fs, NEW att, NEW ins, NEW rets, NEW c, NEW d,
         Apart(fs, att, ins, rets, c, p),
         NEW n \in DOMAIN fs, IsIf(fs[n]), ast[fs[n].item].els = p,
         \A k \in DOMAIN fs : fs[k].item \in DOMAIN ast /\ (k # n => ast[fs[k].item].els # p),
         Same(c, d, Waiting(fs)), NEW q, q = p + 1,
         NEW gs, DOMAIN gs = DOMAIN fs, \A k \in DOMAIN fs : k # n => gs[k] = fs[k],
         gs[n].item = fs[n].item, gs[n].f = fs[n].f, gs[n].m = fs[n].m, gs[n].head = fs[n].f
  PROVE  Apart(gs, att, fs[n].f, rets, d, q)
<1> USE DEF Same
<1>1. /\ Ends(fs[n]) = {fs[n].f, fs[n].m} /\ Ends(gs[n]) = {fs[n].f, fs[n].m}
      /\ Uses(gs[n]) = {fs[n].f, fs[n].m} /\ IsIf(gs[n]) /\ ~IsFor(gs[n])
      /\ {fs[n].f, fs[n].m} \subseteq Uses(fs[n])
  BY DEF Ends, Uses, IsIf, IsFor
<1>2. \A k \in DOMAIN fs : Ends(gs[k]) = Ends(fs[k]) /\ Uses(gs[k]) \subseteq Uses(fs[k])
  <2> TAKE k \in DOMAIN fs
  <2>1. CASE k = n
    BY <1>1, <2>1
  <2>2. CASE k # n
    <3>1. gs[k] = fs[k]
      BY <2>2
    <3>2. QED
      BY <3>1
  <2>3. QED
    BY <2>1, <2>2
<1>3. \A k \in DOMAIN gs : Split(gs[k], p + 1)
  <2>1. \A k \in DOMAIN fs : k # n => Split(gs[k], p + 1)
    BY SplitNext DEF Apart
  <2>2. Split(gs[n], p + 1)
    <3>1. Begun(fs[n].item, p + 1)
      <4>1. p \in Nat /\ p # 0
        BY DEF Source
      <4>2. QED
        BY <4>1 DEF Begun
    <3>2. fs[n].f # fs[n].m
      BY DEF Apart, Split
    <3>3. QED
      BY <1>1, <3>1, <3>2 DEF Split
  <2>3. QED
    BY <2>1, <2>2
<1>4. /\ \A j, k \in DOMAIN fs : j # k => Ends(fs[k]) \cap Uses(fs[j]) = {}
      /\ \A k \in DOMAIN fs : Ends(fs[k]) \cap rets = {} /\ Uses(fs[k]) \subseteq att
      /\ rets \subseteq att
      /\ \A b \in Waiting(fs) : c[b] = <<>>
      /\ fs[n].head # fs[n].m /\ fs[n].f # fs[n].m
  BY DEF Apart, Split
<1>5. \A j, k \in DOMAIN gs : j # k => Ends(gs[k]) \cap Uses(gs[j]) = {}
  BY <1>2, <1>4
<1>6. \A k \in DOMAIN gs : Ends(gs[k]) \cap rets = {} /\ Uses(gs[k]) \subseteq att
  BY <1>2, <1>4
<1>7. \A b \in Waiting(gs) : b \in Waiting(fs) /\ b # fs[n].f
  <2> TAKE b \in Waiting(gs)
  <2>1. PICK k \in DOMAIN gs : b \in Ends(gs[k]) /\ b # gs[k].head
    BY InWaiting
  <2>2. CASE k = n
    <3>1. b = fs[n].m /\ b # fs[n].head /\ b # fs[n].f
      BY <1>1, <1>4, <2>1, <2>2
    <3>2. QED
      BY <1>1, <3>1, InWaiting
  <2>3. CASE k # n
    <3>1. gs[k] = fs[k] /\ b # fs[n].f
      BY <1>1, <1>4, <2>1, <2>3
    <3>2. QED
      BY <2>1, <3>1, InWaiting
  <2>4. QED
    BY <2>2, <2>3
<1>8. \A b \in Waiting(gs) : d[b] = <<>>
  BY <1>4, <1>7
<1>9. QED
  BY <1>3, <1>4, <1>5, <1>6, <1>7, <1>8 DEF Apart

LEMMA PopApart ==
  ASSUME Source, NEW p \in DOMAIN ast, NEW fs, NEW att, NEW ins, NEW rets, NEW c, NEW d,
         Apart(fs, att, ins, rets, c, p),
         Settled(fs, p), Same(c, d, Waiting(fs)), NEW q, q = p + 1,
         NEW n \in DOMAIN fs, NEW gs,
         \A k \in DOMAIN gs : k \in DOMAIN fs /\ k # n /\ gs[k] = fs[k],
         NEW att2, att \ Ends(fs[n]) \subseteq att2,
         NEW ins2, ins2 \in {ins} \cup Ends(fs[n]) \cup rets
  PROVE  Apart(gs, att2, ins2, rets, d, q)
<1> USE DEF Settled, Same
<1>1. /\ \A j, k \in DOMAIN fs : j # k => Ends(fs[k]) \cap Uses(fs[j]) = {}
      /\ \A k \in DOMAIN fs : /\ Ends(fs[k]) \cap rets = {} /\ Uses(fs[k]) \subseteq att
                              /\ Ends(fs[k]) \subseteq Uses(fs[k])
      /\ rets \subseteq att
      /\ ins \notin Waiting(fs)
      /\ \A b \in Waiting(fs) : c[b] = <<>>
  BY DEF Apart, Uses
<1>2. \A k \in DOMAIN gs : Split(gs[k], p + 1)
  BY SplitNext DEF Apart
<1>3. \A j, k \in DOMAIN gs : j # k => Ends(gs[k]) \cap Uses(gs[j]) = {}
  BY <1>1
<1>4. \A k \in DOMAIN gs : Ends(gs[k]) \cap rets = {} /\ Uses(gs[k]) \subseteq att2
  BY <1>1
<1>5. rets \subseteq att2
  BY <1>1
<1>6. \A b \in Waiting(gs) : b \in Waiting(fs) /\ b \notin Ends(fs[n]) \cup rets
  BY <1>1, InWaiting
<1>7. ins2 \notin Waiting(gs) /\ \A b \in Waiting(gs) : d[b] = <<>>
  BY <1>1, <1>6
<1>8. QED
  BY <1>2, <1>3, <1>4, <1>5, <1>7 DEF Apart

-----------------------------------------------------------------------------
(***************************************************************************)
(* Kindred is an invariant, and what is spoilt stays so: an end takes away *)
(* only blocks that were still waiting.                                    *)
(***************************************************************************)
Base == Typed /\ Linked /\ Nesting /\ Elses /\ Kindred

LEMMA Setting ==
  ASSUME Base, Generate
  PROVE  /\ Source /\ Walked /\ ast' = ast
         /\ pc \in DOMAIN ast /\ pc \in Nat /\ pc' = pc + 1 /\ pc' # 1
         /\ frames \in Seq(Frame) /\ nblocks \in Nat /\ attached \subseteq 1..nblocks
         /\ Apart(frames, attached, insert, Rets, code, pc)
         /\ \A k \in DOMAIN frames : frames[k].item \in DOMAIN ast
         /\ \A k \in DOMAIN frames :
              ast[frames[k].item].els = pc => ast[pc].op = "else" /\ k = Len(frames)
         /\ pc # 1 => insert \in attached
         /\ pc = 1 => frames = <<>> /\ nfuncs = 0 /\ nblocks = 0
<1>1. /\ Typed /\ Nesting /\ Elses /\ Kindred
      /\ Source /\ Walked /\ ast' = ast
      /\ pc \in DOMAIN ast /\ pc \in Nat /\ pc' = pc + 1
  BY SourceHere, GenPlace DEF Base, Nesting
<1>2. /\ frames \in Seq(Frame) /\ nblocks \in Nat /\ attached \subseteq 1..nblocks
      /\ phase = "gen" /\ pc # 0
  BY <1>1, GenFacts DEF Typed, TypeOK
<1>3. Apart(frames, attached, insert, Rets, code, pc)
  BY <1>1 DEF Kindred
<1>4. pc = 1 => frames = <<>> /\ nfuncs = 0 /\ nblocks = 0
  BY <1>1, <1>2 DEF Typed, FrameInv, Kindred
<1>5. pc # 1 => insert \in attached
  <2>1. pc # 1 => pc > 1
    BY <1>1, <1>2
  <2>2. QED
    BY <1>1, <1>2, <2>1 DEF Kindred, Running
<1>6. \A k \in DOMAIN frames : frames[k].item \in DOMAIN ast
  BY <1>1, <1>4, FramesAre
<1>7. \A k \in DOMAIN frames :
        ast[frames[k].item].els = pc => ast[pc].op = "else" /\ k = Len(frames)
  BY <1>1, <1>4, TurnFrame
<1>8. pc' # 1
  BY <1>1, <1>2
<1>9. QED
  BY <1>1, <1>2, <1>3, <1>4, <1>5, <1>6, <1>7, <1>8

LEMMA WaitingIn ==
  ASSUME NEW fs, NEW att, NEW ins, NEW rets, NEW c, NEW p, Apart(fs, att, ins, rets, c, p)
  PROVE  /\ Waiting(fs) \subseteq att \ {ins} /\ Waiting(fs) \cap rets = {}
         /\ \A b \in Waiting(fs) : c[b] = <<>>
         /\ \A k \in DOMAIN fs : fs[k].head \in att \ Waiting(fs)
         /\ rets \subseteq att
<1>1. /\ \A j, k \in DOMAIN fs : j # k => Ends(fs[k]) \cap Uses(fs[j]) = {}
      /\ \A k \in DOMAIN fs : Ends(fs[k]) \cap rets = {} /\ Uses(fs[k]) \subseteq att
      /\ \A k \in DOMAIN fs : Ends(fs[k]) \subseteq Uses(fs[k]) /\ fs[k].head \in Uses(fs[k])
      /\ ins \notin Waiting(fs) /\ rets \subseteq att
      /\ \A b \in Waiting(fs) : c[b] = <<>>
  BY DEF Apart, Uses
<1>2. Waiting(fs) \subseteq att \ {ins} /\ Waiting(fs) \cap rets = {}
  BY <1>1, InWaiting
<1>3. \A k \in DOMAIN fs : fs[k].head \in att \ Waiting(fs)
  BY <1>1, InWaiting
<1>4. QED
  BY <1>1, <1>2, <1>3

LEMMA SpoiltStays ==
  ASSUME attached \subseteq 1..nblocks, NEW b, Grows(b), NEW att,
         \A x \in attached \ att : code[x] = <<>>,
         SomeSpoiled(code, attached)
  PROVE  SomeSpoiled(code', att)
<1>1. PICK x \in attached : Spoiled(code, x)
  BY DEF SomeSpoiled
<1>2. Spoiled(code', x)
  BY <1>1 DEF Grows
<1>3. x \in att
  BY <1>1, EmptyBlock
<1>4. QED
  BY <1>2, <1>3 DEF SomeSpoiled

LEMMA WaitingKept ==
  ASSUME attached \subseteq 1..nblocks, Apart(frames, attached, insert, Rets, code, pc),
         NEW b, Grows(b), b \in {insert} \cup Rets
  PROVE  Same(code, code', Waiting(frames))
<1>1. Waiting(frames) \subseteq attached \ {insert} /\ Waiting(frames) \cap Rets = {}
  BY WaitingIn
<1>2. \A x \in Waiting(frames) : x \in 1..nblocks /\ x # b
  BY <1>1
<1>3. QED
  BY <1>2 DEF Grows, Elsewhere, Same

KeepsKindred ==
  /\ Kindred'
  /\ SomeSpoiled(code, attached) => SomeSpoiled(code', attached')

LEMMA EmitsKindred ==
  ASSUME Base, Generate, Statement \/ Return \/ ReturnValue \/ Break
  PROVE  KeepsKindred
<1>1. pc # 1 /\ ast[pc].op # "else"
  <2>1. ast[pc].op \in {"stmt", "return", "returnv", "break"}
    BY DEF Statement, Return, ReturnValue, Break, At
  <2>2. QED
    BY <2>1, Setting DEF Source
<1>2. /\ UNCHANGED <<nfuncs, nblocks, owner, attached, insert, frames, retBlock>>
      /\ Rets' = Rets
  BY DEF Statement, Return, ReturnValue, Break, OnlyEmits, Rets
<1>3. Grows(insert)
  <2>1. Typed /\ Linked
    BY DEF Base
  <2>2. QED
    BY <1>1, <2>1, StatementWrites, ReturnWrites, ReturnValueWrites, BreakWrites, WritesGrow,
       StillGrow
<1>4. /\ Source /\ pc \in DOMAIN ast /\ pc' = pc + 1 /\ pc' # 1 /\ ast' = ast
      /\ Apart(frames, attached, insert, Rets, code, pc)
      /\ insert \in attached /\ attached \subseteq 1..nblocks
  BY <1>1, Setting
<1>5. Settled(frames, pc) /\ Same(code, code', Waiting(frames))
  BY <1>1, <1>3, <1>4, Setting, WaitingKept DEF Settled
<1>6. Apart(frames, attached, insert, Rets, code', pc')
  BY <1>4, <1>5, StayApart
<1>7. Kindred'
  <2>1. Apart(frames', attached', insert', Rets', code', pc')
    BY <1>2, <1>4, <1>6
  <2>2. insert' \in attached'
    BY <1>2, <1>4
  <2>3. QED
    BY <1>4, <2>1, <2>2, KindredNext
<1>8. SomeSpoiled(code, attached) => SomeSpoiled(code', attached')
  BY <1>2, <1>3, <1>4, SpoiltStays
<1>9. QED
  BY <1>7, <1>8 DEF KeepsKindred

LEMMA PushKindred ==
  ASSUME Base, Generate, ast[pc].op # "else",
         NEW fr \in Frame, frames' = Append(frames, fr),
         NEW new, new \cap 1..nblocks = {}, attached' = attached \cup new, NewFrame(fr, pc, new),
         insert' \in new \ Waits(fr),
         Rets' \subseteq Rets \cup (new \ Ends(fr)),
         \A b \in Waits(fr) : code'[b] = <<>>,
         Grows(insert)
  PROVE  KeepsKindred
<1>1. /\ Source /\ pc \in DOMAIN ast /\ pc' = pc + 1 /\ pc' # 1 /\ ast' = ast
      /\ Apart(frames, attached, insert, Rets, code, pc)
      /\ attached \subseteq 1..nblocks /\ frames \in Seq(Frame)
  BY Setting
<1>2. Settled(frames, pc)
  BY Setting DEF Settled
<1>3. Same(code, code', Waiting(frames))
  BY <1>1, WaitingKept
<1>4. attached \cap new = {}
  BY <1>1
<1>5. Apart(frames', attached', insert', Rets', code', pc')
  BY <1>1, <1>2, <1>3, <1>4, PushApart
<1>6. Kindred'
  BY <1>1, <1>5, KindredNext
<1>7. SomeSpoiled(code, attached) => SomeSpoiled(code', attached')
  BY <1>1, SpoiltStays
<1>8. QED
  BY <1>6, <1>7 DEF KeepsKindred

LEMMA BeginFunctionKindred ==
  ASSUME Base, Generate, BeginFunction
  PROVE  KeepsKindred
<1> DEFINE fr == [item |-> pc, head |-> nblocks + 1, f |-> 0, m |-> 0]
           new == {nblocks + 1}
<1>1. /\ ast[pc].op \in {"fn", "closure"} /\ frames' = Append(frames, fr)
      /\ attached' = attached \cup new /\ insert' = nblocks + 1 /\ retBlock' = retBlock
  BY DEF BeginFunction, At
<1>2. nblocks \in Nat /\ pc \in Nat
  BY Setting
<1>3. /\ fr \in Frame /\ fr.item = pc /\ fr.head = nblocks + 1
      /\ Ends(fr) = {} /\ Uses(fr) = {nblocks + 1} /\ Waits(fr) = {}
      /\ ~IsIf(fr) /\ ~IsFor(fr)
  BY <1>1, <1>2 DEF Frame, Ends, Uses, Waits, IsIf, IsFor
<1> HIDE DEF fr
<1>4. Grows(insert)
  <2>1. \A x \in 1..nblocks : code'[x] = code[x]
    BY BeginFunctionWrites DEF Base
  <2>2. \A x \in 1..nblocks : Spoiled(code, x) => Spoiled(code', x)
    BY <2>1, SameBlock
  <2>3. QED
    BY <2>1, <2>2 DEF Grows, Elsewhere
<1>5. new \cap 1..nblocks = {} /\ Uses(fr) \subseteq new /\ insert' \in new \ Waits(fr)
  BY <1>1, <1>2, <1>3
<1>6. Rets' = Rets
  BY <1>1 DEF Rets
<1>7. QED
  BY <1>1, <1>3, <1>4, <1>5, <1>6, PushKindred DEF NewFrame

LEMMA BeginForKindred ==
  ASSUME Base, Generate, BeginFor
  PROVE  KeepsKindred
<1> DEFINE fr == [item |-> pc, head |-> nblocks + 1, f |-> 0, m |-> nblocks + 3]
           new == (nblocks + 1)..(nblocks + 3)
<1>1. /\ ast[pc].op = "for" /\ frames' = Append(frames, fr)
      /\ attached' = attached \cup new /\ insert' = nblocks + 2 /\ retBlock' = retBlock
  BY DEF BeginFor, At
<1>2. nblocks \in Nat /\ pc \in Nat /\ pc # 1
  BY <1>1, Setting DEF Source
<1>3. /\ fr \in Frame /\ fr.item = pc /\ fr.head = nblocks + 1 /\ fr.m = nblocks + 3
      /\ Ends(fr) = {nblocks + 3} /\ Uses(fr) = {nblocks + 1, nblocks + 3}
      /\ Waits(fr) \subseteq {nblocks + 3} /\ ~IsIf(fr)
  BY <1>1, <1>2 DEF Frame, Ends, Uses, Waits, IsIf, IsFor
<1> HIDE DEF fr
<1>4. Grows(insert) /\ code'[nblocks + 3] = <<>>
  BY <1>2, BeginForWrites, WritesGrow DEF Base
<1>5. /\ new \cap 1..nblocks = {} /\ Uses(fr) \subseteq new /\ insert' \in new \ Waits(fr)
      /\ fr.head # fr.m
  BY <1>1, <1>2, <1>3
<1>6. Rets' = Rets
  BY <1>1 DEF Rets
<1>7. \A b \in Waits(fr) : code'[b] = <<>>
  BY <1>3, <1>4
<1>8. QED
  BY <1>1, <1>3, <1>4, <1>5, <1>6, <1>7, PushKindred DEF NewFrame

LEMMA BeginIfKindred ==
  ASSUME Base, Generate, BeginIf
  PROVE  KeepsKindred
<1> DEFINE n == Asked
           fr == [item |-> pc, head |-> nblocks + n - 2, f |-> nblocks + n - 1, m |-> nblocks + n]
           new == (nblocks + 1)..(nblocks + n)
<1>1. /\ ast[pc].op = "if" /\ frames' = Append(frames, fr)
      /\ attached' = attached \cup new /\ insert' = nblocks + n - 2
      /\ retBlock' = IF NeedsRet(pc)
           THEN [retBlock EXCEPT ![currentFunction] = nblocks + 1] ELSE retBlock
  BY DEF BeginIf, At, Asked
<1>2. nblocks \in Nat /\ pc \in Nat /\ pc # 1 /\ n \in {3, 4} /\ (NeedsRet(pc) => n = 4)
  BY <1>1, Setting DEF Source, Asked
<1>3. \A b \in new : code'[b] = <<>>
  BY <1>2, BeginIfWrites DEF Base
<1>4. Grows(insert)
  BY <1>2, BeginIfWrites, WritesGrow DEF Base
<1> HIDE DEF n
<1>5. /\ fr \in Frame /\ fr.item = pc
      /\ fr.head = nblocks + n - 2 /\ fr.f = nblocks + n - 1 /\ fr.m = nblocks + n
  BY <1>2 DEF Frame
<1> HIDE DEF fr
<1>6. /\ IsIf(fr) /\ ~IsFor(fr) /\ Ends(fr) = {nblocks + n - 1, nblocks + n}
      /\ Uses(fr) = {nblocks + n - 2, nblocks + n - 1, nblocks + n}
      /\ Waits(fr) \subseteq Ends(fr)
  BY <1>1, <1>5 DEF Ends, Uses, Waits, IsIf, IsFor
<1>7. /\ new \cap 1..nblocks = {} /\ Uses(fr) \subseteq new /\ insert' \in new \ Waits(fr)
      /\ fr.f # fr.m /\ fr.head # fr.m /\ fr.head # fr.f
      /\ Ends(fr) \subseteq new
  BY <1>1, <1>2, <1>5, <1>6
<1>8. Rets' \subseteq Rets \cup (new \ Ends(fr))
  <2>1. \A i \in 1..MaxItems : retBlock'[i] = retBlock[i] \/ (NeedsRet(pc) /\ retBlock'[i] = nblocks + 1)
    BY <1>1 DEF Base, Typed, TypeOK
  <2>2. NeedsRet(pc) => nblocks + 1 \in new \ Ends(fr)
    BY <1>2, <1>6
  <2>3. QED
    BY <2>1, <2>2 DEF Rets
<1>9. \A b \in Waits(fr) : code'[b] = <<>>
  BY <1>3, <1>6, <1>7
<1>10. QED
  BY <1>1, <1>4, <1>5, <1>6, <1>7, <1>8, <1>9, PushKindred DEF NewFrame

LEMMA PopKindred ==
  ASSUME Base, Generate, pc # 1, ast[pc].op # "else", frames' = Pop, UNCHANGED retBlock,
         attached' \subseteq attached, attached \ Ends(Top) \subseteq attached',
         \A x \in attached \ attached' : code[x] = <<>>,
         insert' \in {insert} \cup Ends(Top) \cup Rets, Running' => insert' \in attached',
         NEW b, b \in {insert} \cup Rets, Grows(b)
  PROVE  KeepsKindred
<1>1. /\ Source /\ pc \in DOMAIN ast /\ pc' = pc + 1 /\ pc' # 1 /\ ast' = ast
      /\ Apart(frames, attached, insert, Rets, code, pc)
      /\ attached \subseteq 1..nblocks
  BY Setting
<1>2. Settled(frames, pc)
  BY Setting DEF Settled
<1>3. Same(code, code', Waiting(frames))
  BY <1>1, WaitingKept
<1> DEFINE n == Len(frames)
<1>4. /\ n \in DOMAIN frames /\ frames[n] = Top
      /\ \A k \in DOMAIN frames' : k \in DOMAIN frames /\ k # n /\ frames'[k] = frames[k]
  BY PopKept DEF Base
<1>5. Rets' = Rets
  BY DEF Rets
<1> HIDE DEF n
<1>6. attached \ Ends(frames[n]) \subseteq attached' /\ insert' \in {insert} \cup Ends(frames[n]) \cup Rets
  BY <1>4
<1>7. Apart(frames', attached', insert', Rets, code', pc')
  BY <1>1, <1>2, <1>3, <1>4, <1>6, PopApart
<1>8. Kindred'
  BY <1>1, <1>5, <1>7, KindredNext
<1>9. SomeSpoiled(code, attached) => SomeSpoiled(code', attached')
  BY <1>1, SpoiltStays
<1>10. QED
  BY <1>8, <1>9 DEF KeepsKindred

(* Blocks the frame on top has in use. *)
LEMMA TopUses ==
  ASSUME Base, Generate, pc # 1
  PROVE  /\ Top = frames[Len(frames)] /\ Len(frames) \in DOMAIN frames
         /\ Split(Top, pc) /\ Uses(Top) \subseteq attached /\ Ends(Top) \subseteq Uses(Top)
         /\ Ends(Top) \cap Rets = {}
         /\ IsIf(Top) => Ends(Top) = {Top.f, Top.m} /\ ~IsFor(Top)
         /\ IsFor(Top) => Ends(Top) = {Top.m} /\ ~IsIf(Top)
         /\ \A b \in Ends(Top) : b # Top.head => b \in Waiting(frames) /\ b # insert /\ code[b] = <<>>
         /\ insert \in attached /\ insert \in 1..nblocks
<1>1. /\ Apart(frames, attached, insert, Rets, code, pc) /\ Typed /\ Walked /\ insert \in attached
      /\ attached \subseteq 1..nblocks
  BY Setting DEF Base
<1>2. Top = frames[Len(frames)] /\ Len(frames) \in DOMAIN frames
  BY <1>1, FramesAre
<1>3. /\ Split(Top, pc) /\ Uses(Top) \subseteq attached /\ Ends(Top) \cap Rets = {}
      /\ insert \notin Waiting(frames) /\ \A b \in Waiting(frames) : code[b] = <<>>
  BY <1>1, <1>2 DEF Apart
<1>4. \A b \in Ends(Top) : b # Top.head => b \in Waiting(frames)
  BY <1>2, InWaiting
<1>5. /\ IsIf(Top) => Ends(Top) = {Top.f, Top.m} /\ ~IsFor(Top)
      /\ IsFor(Top) => Ends(Top) = {Top.m} /\ ~IsIf(Top)
      /\ Ends(Top) \subseteq Uses(Top)
  BY DEF IsIf, IsFor, Ends, Uses
<1>6. QED
  BY <1>1, <1>2, <1>3, <1>4, <1>5

LEMMA EndFunctionKindred ==
  ASSUME Base, Generate, EndFunction
  PROVE  KeepsKindred
<1>1. ast[pc].op = "end" /\ frames' = Pop /\ UNCHANGED <<attached, retBlock>> /\ insert' = RetEnd
  BY DEF EndFunction, At, RetEnd
<1>2. pc # 1 /\ Typed
  BY <1>1, Setting DEF Source, Base
<1>3. Grows(RetEnd)
  BY <1>2, EndFunctionWrites, WritesGrow
<1>4. RetEnd \in {insert} \cup Rets
  BY <1>2, Blocks1 DEF RetEnd, Rets
<1>5. insert \in attached /\ Rets \subseteq attached
  BY <1>2, Setting DEF Apart
<1>6. insert' \in attached'
  BY <1>1, <1>4, <1>5
<1>7. QED
  BY <1>1, <1>2, <1>3, <1>4, <1>6, PopKindred

LEMMA EndForKindred ==
  ASSUME Base, Generate, EndFor
  PROVE  KeepsKindred
<1>1. /\ ast[pc].op = "end" /\ frames' = Pop /\ UNCHANGED <<attached, retBlock>> /\ insert' = Top.m
      /\ IsFor(Top)
  BY DEF EndFor, At, IsFor
<1>2. pc # 1 /\ Typed
  BY <1>1, Setting DEF Source, Base
<1>3. Grows(insert)
  BY <1>2, EndForWrites, WritesGrow
<1>4. Ends(Top) = {Top.m} /\ Ends(Top) \subseteq attached
  BY <1>1, <1>2, TopUses
<1>5. QED
  BY <1>1, <1>2, <1>3, <1>4, PopKindred

(* The end of an arm writes the insertion point or nothing. *)
LEMMA JoinGrows ==
  ASSUME Typed, Generate, pc # 1, Top.m # 0, code' = JoinArm(code, Top.head, Top.m)
  PROVE  Grows(insert)
BY JoinWrites, WritesGrow, StillGrow

LEMMA EndIfKindred ==
  ASSUME Base, Generate, EndIf
  PROVE  KeepsKindred
<1> DEFINE dead == Unused(code', Top.m)
           gone == (IF ast[Top.item].els = 0 THEN {Top.f} ELSE {}) \cup IF dead THEN {Top.m} ELSE {}
<1>1. /\ At("end") /\ IsIf(Top) /\ frames' = Pop /\ UNCHANGED retBlock
      /\ code' = JoinArm(code, Top.head, Top.m)
      /\ attached' = attached \ gone
      /\ insert' = IF dead THEN insert ELSE Top.m
  BY DEF EndIf, IsIf
<1> HIDE DEF dead
<1>2. Source /\ Walked
  BY Setting
<1>3. pc # 1 /\ Typed /\ ast[pc].op = "end" /\ (ast[Top.item].els = 0 => ~Begun(Top.item, pc))
  BY <1>1, <1>2, EndTop DEF Base, At, Begun
<1>4. /\ Ends(Top) = {Top.f, Top.m} /\ Ends(Top) \subseteq attached
      /\ Top.f # Top.m /\ Top.head # Top.m
      /\ ast[Top.item].els = 0 => Top.f # Top.head
  BY <1>1, <1>3, TopUses DEF Split
<1>5. Top.m # 0
  BY <1>1, <1>3, Blocks1 DEF IsIf
<1>6. Grows(insert)
  BY <1>1, <1>3, <1>5, JoinGrows
<1>7. gone \subseteq Ends(Top) /\ Top.head \notin gone
  BY <1>4
<1> HIDE DEF gone
<1>8. \A x \in attached \ attached' : code[x] = <<>> /\ x # insert
  BY <1>1, <1>3, <1>7, TopUses
<1>9. /\ attached' \subseteq attached /\ attached \ Ends(Top) \subseteq attached'
      /\ insert' \in {insert} \cup Ends(Top)
  BY <1>1, <1>4, <1>7
<1>10. insert' \in attached'
  <2>1. insert \in attached
    BY <1>3, TopUses
  <2>2. CASE dead
    BY <1>1, <1>8, <2>1, <2>2
  <2>3. CASE ~dead
    BY <1>1, <1>4, <2>3 DEF gone
  <2>4. QED
    BY <2>2, <2>3
<1>11. QED
  BY <1>1, <1>3, <1>6, <1>8, <1>9, <1>10, PopKindred

LEMMA BeginElseKindred ==
  ASSUME Base, Generate, BeginElse
  PROVE  KeepsKindred
<1> DEFINE n == Len(frames)
<1>1. /\ At("else") /\ IsIf(Top) /\ UNCHANGED <<attached, retBlock>>
      /\ code' = JoinArm(code, Top.head, Top.m) /\ insert' = Top.f
      /\ frames' = [frames EXCEPT ![n].head = Top.f]
  BY DEF BeginElse, IsIf
<1>2. /\ Source /\ pc \in DOMAIN ast /\ pc' = pc + 1 /\ pc' # 1 /\ ast' = ast /\ Walked /\ Typed
      /\ Apart(frames, attached, insert, Rets, code, pc)
      /\ attached \subseteq 1..nblocks
      /\ \A k \in DOMAIN frames : /\ frames[k].item \in DOMAIN ast
                                  /\ k # n => ast[frames[k].item].els # pc
  BY Setting DEF Base
<1>3. ast[Top.item].els = pc /\ pc # 1
  BY <1>1, <1>2, TurnTop
<1>4. /\ n \in DOMAIN frames /\ Top = frames[n] /\ Ends(Top) = {Top.f, Top.m}
      /\ Ends(Top) \subseteq attached /\ \A k \in DOMAIN frames : frames[k] \in Frame
  BY <1>1, <1>2, <1>3, TopUses, FramesAre
<1>5. /\ DOMAIN frames' = DOMAIN frames /\ \A k \in DOMAIN frames : k # n => frames'[k] = frames[k]
      /\ frames'[n].item = frames[n].item /\ frames'[n].f = frames[n].f
      /\ frames'[n].m = frames[n].m /\ frames'[n].head = frames[n].f
  BY <1>1, <1>4 DEF Frame
<1> HIDE DEF n
<1>6. Grows(insert)
  <2>1. Top.m # 0
    BY <1>1, <1>2, <1>3, Blocks1 DEF IsIf
  <2>2. QED
    BY <1>1, <1>2, <1>3, <2>1, JoinGrows
<1>7. Same(code, code', Waiting(frames))
  BY <1>2, <1>6, WaitingKept
<1>8. Apart(frames', attached, frames[n].f, Rets, code', pc')
  <2>1. IsIf(frames[n]) /\ ast[frames[n].item].els = pc
    BY <1>1, <1>3, <1>4
  <2>2. QED
    BY <1>2, <1>4, <1>5, <1>7, <2>1, TurnApart
<1>9. Kindred'
  <2>1. Apart(frames', attached', insert', Rets', code', pc')
    BY <1>1, <1>4, <1>8 DEF Rets
  <2>2. insert' \in attached'
    BY <1>1, <1>4
  <2>3. QED
    BY <1>2, <2>1, <2>2, KindredNext
<1>10. SomeSpoiled(code, attached) => SomeSpoiled(code', attached')
  BY <1>1, <1>2, <1>6, SpoiltStays
<1>11. QED
  BY <1>9, <1>10 DEF KeepsKindred

LEMMA GenKindred ==
  ASSUME Base, Generate
  PROVE  KeepsKindred
BY EmitsKindred, BeginFunctionKindred, EndFunctionKindred, BeginIfKindred, BeginElseKindred,
   EndIfKindred, BeginForKindred, EndForKindred DEF Generate

-----------------------------------------------------------------------------
(* The end of a closure spoils a block, for good. *)
LEMMA EndClosure ==
  ASSUME Base, Generate, EndFunction, ast[Top.item].op # "fn"
  PROVE  SomeSpoiled(code', attached')
<1>1. ast[pc].op = "end" /\ attached' = attached
  BY DEF EndFunction, At
<1>2. pc # 1 /\ Typed
  BY <1>1, Setting DEF Source, Base
<1>3. Spoiled(code', RetEnd)
  BY <1>2, EndFunctionWrites
<1>4. RetEnd \in {insert} \cup Rets
  BY <1>2, Blocks1 DEF RetEnd, Rets
<1>5. insert \in attached /\ Rets \subseteq attached
  BY <1>2, Setting DEF Apart
<1>6. QED
  BY <1>1, <1>3, <1>4, <1>5 DEF SomeSpoiled

LEMMA GenClosed ==
  ASSUME Base, Generate, Closed
  PROVE  Closed'
<1>1. /\ Source /\ Walked /\ ast' = ast /\ pc \in DOMAIN ast /\ pc \in Nat /\ pc' = pc + 1
      /\ phase = "gen" /\ Typed
  BY Setting, GenFacts DEF Base
<1>2. CASE SomeSpoiled(code, attached)
  <2>1. SomeSpoiled(code', attached')
    BY <1>2, GenKindred DEF KeepsKindred
  <2>2. QED
    BY <2>1 DEF Closed, SomeSpoiled, Spoiled
<1>3. CASE \A i \in 1..(pc - 1) : ast[i].op = "closure" => i \in Open(ast, pc)
  <2>1. Open(ast, pc + 1) =
          (Open(ast, pc) \cup IF ast[pc].op \in Blocks THEN {pc} ELSE {}) \ {ast[pc].opener}
    BY <1>1, OpenNext DEF Source
  <2>2. /\ ast[pc].op = "closure" => ast[pc].op \in Blocks /\ ast[pc].opener = 0
        /\ ast[pc].opener # 0 => ast[pc].op \in {"else", "end"}
        /\ ast[pc].op = "else" => ast[ast[pc].opener].op = "if"
    BY <1>1 DEF Source, Nested, Blocks
  <2>3. CASE ast[pc].opener # 0 /\ ast[ast[pc].opener].op = "closure"
    <3>1. At("end") /\ pc # 1
      BY <1>1, <2>2, <2>3 DEF At, Source
    <3>2. Top.item = ast[pc].opener
      <4>1. Top.item = FrameItem(ast[pc].opener)
        BY <1>1, <2>3, <3>1, TopCloses
      <4>2. QED
        BY <2>3, <4>1 DEF FrameItem
    <3>3. EndFunction
      BY <2>3, <3>1, <3>2 DEF Generate, BeginFunction, EndFunction, Statement, Return, ReturnValue,
         Break, BeginIf, BeginElse, EndIf, BeginFor, EndFor, At
    <3>4. SomeSpoiled(code', attached')
      BY <2>3, <3>2, <3>3, EndClosure
    <3>5. QED
      BY <3>4 DEF Closed, SomeSpoiled, Spoiled
  <2>4. CASE ~(ast[pc].opener # 0 /\ ast[ast[pc].opener].op = "closure")
    <3>1. ASSUME NEW i \in 1..pc, ast[i].op = "closure"
          PROVE  i \in Open(ast, pc + 1)
      <4>1. i # ast[pc].opener /\ (i \in 1..(pc - 1) \/ i = pc)
        BY <1>1, <2>4, <3>1
      <4>2. i \in Open(ast, pc) \/ i = pc
        BY <1>3, <3>1, <4>1
      <4>3. QED
        BY <2>1, <2>2, <3>1, <4>1, <4>2
    <3>2. pc' - 1 = pc
      BY <1>1
    <3>3. (\A i \in 1..(pc - 1) : ast[i].op = "closure" => i \in Open(ast, pc))'
      BY <1>1, <3>1, <3>2
    <3>4. QED
      BY <3>3 DEF Closed
  <2>5. QED
    BY <2>3, <2>4
<1>4. QED
  BY <1>1, <1>2, <1>3 DEF Closed

-----------------------------------------------------------------------------
(* Without a closure all blocks are the function's own. *)
LEMMA GenOwned ==
  ASSUME Base, Generate, NoClosure, Owned
  PROVE  Owned'
<1>1. /\ Source /\ pc \in DOMAIN ast /\ nblocks \in Nat /\ attached \subseteq 1..nblocks
      /\ (pc # 1 => insert \in attached) /\ Typed
      /\ pc = 1 => nfuncs = 0
  BY Setting DEF Base
<1>2. ASSUME NEW n \in Nat, NEW f, f = 1, NewBlocks(n, f)
      PROVE  Owned'
  <2>1. /\ nblocks' = nblocks + n
        /\ \A b \in 1..(nblocks + n) : owner'[b] = IF b <= nblocks THEN owner[b] ELSE f
    BY <1>2 DEF NewBlocks
  <2>2. \A b \in 1..(nblocks + n) : b <= nblocks => b \in 1..nblocks
    BY <1>1
  <2>3. \A b \in 1..nblocks' : owner'[b] = 1
    BY <1>2, <2>1, <2>2 DEF Owned
  <2>4. QED
    BY <2>3 DEF Owned
<1>3. ASSUME UNCHANGED <<nblocks, owner>>
      PROVE  Owned'
  BY <1>3 DEF Owned
<1>4. pc # 1 => owner[insert] = 1
  BY <1>1 DEF Owned
<1>5. CASE BeginFunction
  <2>1. ast[pc].op = "fn"
    BY <1>1, <1>5 DEF BeginFunction, At, NoClosure
  <2>2. pc = 1
    BY <1>1, <2>1, GenFacts
  <2>3. nfuncs' = 1 /\ NewBlocks(1, nfuncs')
    BY <1>1, <1>5, <2>1, <2>2 DEF BeginFunction
  <2>4. QED
    BY <1>2, <2>3
<1>6. CASE BeginIf
  <2>1. NewBlocks(Asked, owner[insert]) /\ Asked \in Nat
    BY <1>6 DEF BeginIf, Asked
  <2>2. pc # 1
    BY <1>1, <1>6 DEF BeginIf, At, Source
  <2>3. QED
    BY <1>2, <1>4, <2>1, <2>2
<1>7. CASE BeginFor
  <2>1. NewBlocks(3, owner[insert]) /\ 3 \in Nat
    BY <1>7 DEF BeginFor
  <2>2. pc # 1
    BY <1>1, <1>7 DEF BeginFor, At, Source
  <2>3. QED
    BY <1>2, <1>4, <2>1, <2>2
<1>8. CASE \/ EndFunction \/ Statement \/ Return \/ ReturnValue \/ Break \/ BeginElse
           \/ EndIf \/ EndFor
  BY <1>3, <1>8 DEF EndFunction, Statement, Return, ReturnValue, Break, BeginElse, EndIf, EndFor,
     OnlyEmits
<1>9. QED
  BY <1>5, <1>6, <1>7, <1>8 DEF Generate

(* A break is generated in a loop only. *)
LEMMA GenLooped ==
  ASSUME Base, Generate, Looped
  PROVE  Looped'
<1>1. /\ ast' = ast /\ pc \in DOMAIN ast /\ pc \in Nat /\ pc' = pc + 1 /\ phase = "gen"
      /\ Typed /\ Targeted /\ Source
  BY Setting, GenFacts DEF Base, Nesting
<1>2. SUFFICES ASSUME phase' \in {"gen", "done"}
               PROVE  \A i \in 1..pc : ast[i].op = "break" => Loops(i) # {}
  <2>1. pc' - 1 = pc
    BY <1>1
  <2>2. QED
    BY <1>1, <2>1 DEF Looped, Loops
<1>3. \A i \in 1..(pc - 1) : ast[i].op = "break" => Loops(i) # {}
  BY <1>1 DEF Looped
<1>4. ast[pc].op = "break" => Loops(pc) # {}
  <2>1. SUFFICES ASSUME ast[pc].op = "break" PROVE Loops(pc) # {}
    OBVIOUS
  <2>2. Break
    BY <2>1 DEF Generate, BeginFunction, EndFunction, Statement, Return, ReturnValue,
         Break, BeginIf, BeginElse, EndIf, BeginFor, EndFor, At
  <2>3. breakPoints # <<>> /\ breakPoints \in Seq(Nat)
    BY <1>1, <1>2, <2>2 DEF Break, Step, Typed, TypeOK
  <2>4. PICK s \in Seq(1..MaxItems) : Len(s) = Len(breakPoints) /\ Entries(s) = Loops(pc)
    BY <1>1 DEF Targeted, LoopStack
  <2>5. 1 \in DOMAIN s
    BY <2>3, <2>4
  <2>6. QED
    BY <2>4, <2>5 DEF Entries
<1>5. \A i \in 1..pc : i \in 1..(pc - 1) \/ i = pc
  BY <1>1
<1>6. QED
  BY <1>3, <1>4, <1>5

-----------------------------------------------------------------------------
(***************************************************************************)
(* Track through a step of a function without closures.                    *)
(***************************************************************************)
LEMMA SourceSame ==
  ASSUME UNCHANGED ast
  PROVE  /\ \A i : HasRet(i)' <=> HasRet(i)
         /\ Leaves' = Leaves
         /\ \A p : Sofar(p)' <=> Sofar(p)
<1>1. \A i : HasRet(i)' <=> HasRet(i)
  BY DEF HasRet, AsksForRet
<1>2. Leaves' = Leaves
  BY DEF Leaves, HasRet, AsksForRet
<1>3. \A p : Sofar(p)' <=> Sofar(p)
  BY <1>2 DEF Sofar, Follows
<1>4. QED
  BY <1>1, <1>2, <1>3

TrackNext == Track(frames', attached', insert', Ret', code', pc')

LEMMA TrackPrimed ==
  ASSUME UNCHANGED ast, TrackNext
  PROVE  Track(frames, attached, insert, Ret, code, pc)'
<1>1. /\ RetKept(frames', insert', Ret', code', pc')
      /\ Sofar(pc') => Straight(frames', attached', insert', Ret', code', pc')
      /\ ~Sofar(pc') => Crooked(frames', attached', insert', code')
  BY DEF TrackNext, Track
<1>2. RetKept(frames, insert, Ret, code, pc)'
  BY <1>1, SourceSame DEF RetKept
<1>3. Sofar(pc)' => Straight(frames, attached, insert, Ret, code, pc)'
  <2>1. SUFFICES ASSUME Sofar(pc)' PROVE Straight(frames, attached, insert, Ret, code, pc)'
    OBVIOUS
  <2>2. Sofar(pc')
    BY <2>1, SourceSame DEF Sofar, Follows
  <2>3. Straight(frames', attached', insert', Ret', code', pc')
    BY <1>1, <2>2
  <2>4. QED
    BY <2>3, SourceSame DEF Straight, Waiting, Waits, Ends, IsIf, IsFor, Joined, Ended, Spoiled,
       HasTerminator, Mentions, Named
<1>4. ~Sofar(pc)' => Crooked(frames, attached, insert, code)'
  BY <1>1, SourceSame DEF Crooked, SomeSpoiled, Spoiled, IsFor, HasTerminator
<1>5. QED
  BY <1>2, <1>3, <1>4 DEF Track

(* A step inside the body of a function without closures. *)
Going ==
  /\ Base /\ Generate /\ NoClosure /\ Looped /\ pc # 1
  /\ Track(frames, attached, insert, Ret, code, pc)

LEMMA Onward ==
  ASSUME Going
  PROVE  /\ Typed /\ Linked /\ Source /\ Walked /\ ast' = ast
         /\ pc \in DOMAIN ast /\ pc \in Nat /\ pc - 1 \in DOMAIN ast
         /\ pc > 1 /\ pc' = pc + 1 /\ pc' - 1 = pc
         /\ nblocks \in Nat /\ attached \subseteq 1..nblocks /\ insert \in attached
         /\ Apart(frames, attached, insert, Rets, code, pc)
         /\ currentFunction = 1
<1>1. /\ Base /\ Generate /\ NoClosure /\ pc # 1 /\ Typed /\ Linked /\ Returned
  BY DEF Going, Base, Nesting
<1>2. /\ Source /\ Walked /\ ast' = ast
      /\ pc \in DOMAIN ast /\ pc \in Nat /\ pc' = pc + 1
      /\ nblocks \in Nat /\ attached \subseteq 1..nblocks /\ insert \in attached
      /\ Apart(frames, attached, insert, Rets, code, pc)
  BY <1>1, Setting
<1>3. pc > 1 /\ pc' - 1 = pc /\ pc - 1 \in DOMAIN ast
  <2>1. ast \in Seq(Item) /\ pc \in 1..Len(ast) /\ Len(ast) \in Nat
    BY <1>2 DEF Source
  <2>2. pc - 1 \in 1..Len(ast)
    BY <1>1, <2>1
  <2>3. QED
    BY <1>1, <1>2, <2>1, <2>2
<1>4. currentFunction = 1
  <2>1. currentFunction \in {0, 1}
    BY <1>1 DEF Returned
  <2>2. QED
    BY <1>1, <2>1, StepFunction
<1>5. QED
  BY <1>1, <1>2, <1>3, <1>4

(* The ret block of the function: empty, and nobody's own. *)
LEMMA RetHere ==
  ASSUME Going
  PROVE  /\ Ret \in 0..nblocks /\ Ret \in Nat
         /\ Ret # 0 => /\ Ret \in Rets /\ Ret \in attached /\ Ret \notin Waiting(frames)
                       /\ Ret # insert /\ code[Ret] = <<>>
                       /\ \A k \in DOMAIN frames : frames[k].head # Ret /\ Ret \notin Ends(frames[k])
         /\ Ret # 0 <=> HasRet(pc)
<1>1. /\ Typed /\ Generate /\ pc # 1 /\ Apart(frames, attached, insert, Rets, code, pc)
      /\ RetKept(frames, insert, Ret, code, pc)
  BY Onward DEF Going, Track
<1>2. 1 \in 1..MaxItems
  BY BodyAssumption DEF BodyAssumption
<1>3. Ret \in 0..nblocks /\ Ret \in Nat /\ (Ret # 0 => Ret \in Rets)
  BY <1>1, <1>2, Blocks1 DEF Ret, Rets
<1>4. Rets \subseteq attached /\ Waiting(frames) \cap Rets = {}
  BY <1>1, WaitingIn
<1>5. \A k \in DOMAIN frames : Ends(frames[k]) \cap Rets = {}
  BY <1>1 DEF Apart
<1>6. QED
  BY <1>1, <1>3, <1>4, <1>5 DEF RetKept

LEMMA StraightHere ==
  ASSUME Going, Sofar(pc + 1)
  PROVE  /\ Straight(frames, attached, insert, Ret, code, pc)
         /\ ~Spoiled(code, insert)
         /\ HasTerminator(code, insert) <=> Leaves[pc - 1]
         /\ Leaves[pc - 1] => ast[pc].op \in {"else", "end"} /\ ast[ast[pc].opener].op # "for"
<1>1. pc \in Nat /\ pc > 1
  BY Onward
<1>2. Sofar(pc) /\ (Leaves[pc - 1] => ast[pc].op \in {"else", "end"} /\ ast[ast[pc].opener].op # "for")
  BY <1>1, SofarNext
<1>3. Straight(frames, attached, insert, Ret, code, pc)
  BY <1>2 DEF Going, Track
<1>4. QED
  BY <1>2, <1>3 DEF Straight

-----------------------------------------------------------------------------
(* The ret block through a step. *)
LEMMA RetSame ==
  ASSUME Going, Grows(insert), UNCHANGED retBlock,
         ast[pc].op = "if" /\ AsksForRet(pc) => Ret # 0,
         insert' \in {insert} \cup Ends(Top) \/ insert' \notin 1..nblocks,
         \A k \in DOMAIN frames' :
           \/ \E j \in DOMAIN frames : frames'[k].head = frames[j].head
           \/ frames'[k].head \in Ends(Top) \/ frames'[k].head \notin 1..nblocks
  PROVE  RetKept(frames', insert', Ret', code', pc')
<1>1. /\ Ret \in 0..nblocks /\ Ret' = Ret /\ (Ret # 0 <=> HasRet(pc))
      /\ Ret # 0 => /\ Ret # insert /\ code[Ret] = <<>>
                    /\ \A k \in DOMAIN frames : frames[k].head # Ret /\ Ret \notin Ends(frames[k])
  BY RetHere DEF Ret
<1>2. pc \in Nat /\ pc > 1 /\ pc' = pc + 1 /\ nblocks \in Nat /\ Typed /\ Walked
  BY Onward
<1>3. Ret # 0 <=> HasRet(pc')
  BY <1>1, <1>2, HasRetNext
<1>4. Ret # 0 => Ret \notin Ends(Top) /\ Ret \in 1..nblocks
  <2>1. Top = frames[Len(frames)] /\ Len(frames) \in DOMAIN frames
    BY <1>2, FramesAre DEF Going
  <2>2. QED
    BY <1>1, <1>2, <2>1
<1>5. Ret # 0 => code'[Ret] = <<>> /\ Ret # insert'
  BY <1>1, <1>4 DEF Grows, Elsewhere
<1>6. Ret # 0 => \A k \in DOMAIN frames' : frames'[k].head # Ret
  BY <1>1, <1>4
<1>7. QED
  BY <1>1, <1>3, <1>5, <1>6 DEF RetKept

(* The frames after a push, a pop and a turn, and the blocks they wait for. *)
LEMMA Pushed ==
  ASSUME NEW fs \in Seq(Frame), NEW fr \in Frame, NEW gs, gs = Append(fs, fr)
  PROVE  /\ \A k \in DOMAIN fs : k \in DOMAIN gs /\ gs[k] = fs[k]
         /\ \A k \in DOMAIN gs : (k \in DOMAIN fs /\ gs[k] = fs[k]) \/ gs[k] = fr
         /\ \A b : b \in Waiting(gs) <=> b \in Waiting(fs) \/ b \in Waits(fr)
<1> DEFINE n == Len(fs)
<1>1. /\ n \in Nat /\ DOMAIN fs = 1..n /\ DOMAIN gs = 1..(n + 1) /\ gs[n + 1] = fr
      /\ \A k \in DOMAIN fs : gs[k] = fs[k]
  BY PushSeq
<1> HIDE DEF n
<1>2. (\A k \in 1..(n + 1) : k \in 1..n \/ k = n + 1) /\ 1..n \subseteq 1..(n + 1) /\ n + 1 \in 1..(n + 1)
  BY <1>1
<1>3. /\ \A k \in DOMAIN fs : k \in DOMAIN gs /\ gs[k] = fs[k]
      /\ \A k \in DOMAIN gs : (k \in DOMAIN fs /\ gs[k] = fs[k]) \/ gs[k] = fr
      /\ n + 1 \in DOMAIN gs /\ gs[n + 1] = fr
  BY <1>1, <1>2
<1>4. /\ \A b : b \in Waiting(gs) <=> \E k \in DOMAIN gs : b \in Waits(gs[k])
      /\ \A b : b \in Waiting(fs) <=> \E k \in DOMAIN fs : b \in Waits(fs[k])
  BY DEF Waiting
<1>5. \A b : b \in Waiting(gs) <=> b \in Waiting(fs) \/ b \in Waits(fr)
  BY <1>3, <1>4
<1>6. QED
  BY <1>3, <1>5

LEMMA Popped ==
  ASSUME Going, frames' = Pop
  PROVE  /\ \A k \in DOMAIN frames' :
              k \in DOMAIN frames /\ k # Len(frames) /\ frames'[k] = frames[k]
         /\ \A b : b \in Waiting(frames) => b \in Waiting(frames') \/ b \in Waits(Top)
<1> DEFINE n == Len(frames)
<1>1. /\ frames \in Seq(Frame) /\ n \in DOMAIN frames /\ n \in Nat /\ Top = frames[n]
      /\ DOMAIN frames = 1..n
  BY Onward, FramesAre DEF Going
<1>2. /\ DOMAIN frames' = 1..(n - 1) /\ \A k \in 1..(n - 1) : frames'[k] = frames[k]
  BY <1>1, PopSeq DEF Pop
<1> HIDE DEF n
<1>3. /\ 1..(n - 1) \subseteq 1..n /\ n \notin 1..(n - 1)
      /\ \A k \in 1..n : k \in 1..(n - 1) \/ k = n
  BY <1>1
<1>4. \A k \in DOMAIN frames' : k \in DOMAIN frames /\ k # n /\ frames'[k] = frames[k]
  BY <1>1, <1>2, <1>3
<1>5. /\ \A b : b \in Waiting(frames') <=> \E k \in DOMAIN frames' : b \in Waits(frames'[k])
      /\ \A b : b \in Waiting(frames) <=> \E k \in DOMAIN frames : b \in Waits(frames[k])
  BY DEF Waiting
<1>6. \A b : b \in Waiting(frames) => b \in Waiting(frames') \/ b \in Waits(Top)
  BY <1>1, <1>2, <1>3, <1>5
<1>7. QED
  BY <1>4, <1>6 DEF n

LEMMA Turned ==
  ASSUME Going, IsIf(Top), frames' = [frames EXCEPT ![Len(frames)].head = Top.f]
  PROVE  /\ DOMAIN frames' = DOMAIN frames
         /\ \A k \in DOMAIN frames : /\ frames'[k].item = frames[k].item
                                     /\ frames'[k].m = frames[k].m
                                     /\ k # Len(frames) => frames'[k] = frames[k]
         /\ frames'[Len(frames)].head = Top.f
         /\ Top.f # Top.m
         /\ \A b : b \in Waiting(frames) => b \in Waiting(frames') \/ b = Top.f
<1> DEFINE n == Len(frames)
<1>1. /\ frames \in Seq(Frame) /\ n \in DOMAIN frames /\ Top = frames[n]
      /\ \A k \in DOMAIN frames : frames[k] \in Frame
  BY Onward, FramesAre DEF Going
<1>2. Ends(Top) = {Top.f, Top.m} /\ Split(Top, pc)
  BY TopUses DEF Going
<1>3. Top.f # Top.m
  BY <1>2 DEF Split
<1>4. /\ DOMAIN frames' = DOMAIN frames /\ \A k \in DOMAIN frames : k # n => frames'[k] = frames[k]
      /\ frames'[n].item = Top.item /\ frames'[n].f = Top.f
      /\ frames'[n].m = Top.m /\ frames'[n].head = Top.f
  BY <1>1 DEF Frame
<1> HIDE DEF n
<1>5. Ends(frames'[n]) = {Top.f, Top.m}
  BY <1>4 DEF Ends, IsIf
<1>6. \A b : b \in Waits(Top) => b \in Waits(frames'[n]) \/ b = Top.f
  BY <1>2, <1>3, <1>4, <1>5 DEF Waits
<1>7. /\ \A b : b \in Waiting(frames') <=> \E k \in DOMAIN frames' : b \in Waits(frames'[k])
      /\ \A b : b \in Waiting(frames) <=> \E k \in DOMAIN frames : b \in Waits(frames[k])
  BY DEF Waiting
<1>8. \A b : b \in Waiting(frames) => b \in Waiting(frames') \/ b = Top.f
  BY <1>1, <1>4, <1>6, <1>7
<1>9. \A k \in DOMAIN frames : /\ frames'[k].item = frames[k].item
                               /\ frames'[k].m = frames[k].m
                               /\ k # n => frames'[k] = frames[k]
  BY <1>1, <1>4
<1>10. QED
  BY <1>3, <1>4, <1>8, <1>9 DEF n

(* A step that stays in the body is none of a function's. *)
LEMMA Inside ==
  ASSUME Going, phase' = "gen"
  PROVE  \/ Statement \/ Return \/ ReturnValue \/ Break
         \/ BeginIf \/ BeginElse \/ EndIf \/ BeginFor \/ EndFor
<1>1. /\ Generate /\ NoClosure /\ pc # 1 /\ pc \in DOMAIN ast /\ Typed /\ Walked
  BY Onward DEF Going
<1>2. ~BeginFunction
  <2>1. ast[pc].op = "fn" <=> pc = 1
    BY <1>1, GenFacts
  <2>2. QED
    BY <1>1, <2>1 DEF BeginFunction, At, NoClosure
<1>3. ~EndFunction
  <2>1. Top.item \in DOMAIN ast
    BY <1>1, FramesAre
  <2>2. ast[Top.item].op # "closure"
    BY <1>1, <2>1 DEF NoClosure
  <2>3. EndFunction => phase' = "done"
    BY <2>2 DEF EndFunction, Step
  <2>4. QED
    BY <2>3
<1>4. QED
  BY <1>1, <1>2, <1>3 DEF Generate

LEMMA EmitsRet ==
  ASSUME Going, Statement \/ Return \/ ReturnValue \/ Break
  PROVE  RetKept(frames', insert', Ret', code', pc')
<1>1. Typed /\ Linked /\ Generate /\ pc # 1
  BY Onward DEF Going
<1>2. /\ UNCHANGED <<insert, frames, retBlock>> /\ ast[pc].op # "if"
  BY DEF Statement, Return, ReturnValue, Break, OnlyEmits, At
<1>3. Grows(insert)
  BY <1>1, StatementWrites, ReturnWrites, ReturnValueWrites, BreakWrites, WritesGrow, StillGrow
<1>4. QED
  BY <1>2, <1>3, RetSame

LEMMA BeginForRet ==
  ASSUME Going, BeginFor
  PROVE  RetKept(frames', insert', Ret', code', pc')
<1> DEFINE fr == [item |-> pc, head |-> nblocks + 1, f |-> 0, m |-> nblocks + 3]
<1>1. /\ Typed /\ Generate /\ pc # 1 /\ pc \in Nat /\ nblocks \in Nat /\ frames \in Seq(Frame)
  BY Onward, Setting DEF Going
<1>2. /\ UNCHANGED retBlock /\ ast[pc].op # "if" /\ insert' = nblocks + 2
      /\ frames' = Append(frames, fr)
  BY DEF BeginFor, At
<1>3. Grows(insert)
  BY <1>1, BeginForWrites, WritesGrow
<1>4. fr \in Frame /\ fr.head \notin 1..nblocks /\ insert' \notin 1..nblocks
  BY <1>1, <1>2 DEF Frame
<1> HIDE DEF fr
<1>5. \A k \in DOMAIN frames' :
        (\E j \in DOMAIN frames : frames'[k].head = frames[j].head) \/ frames'[k].head \notin 1..nblocks
  BY <1>1, <1>2, <1>4, Pushed
<1>6. QED
  BY <1>2, <1>3, <1>4, <1>5, RetSame

LEMMA EndForRet ==
  ASSUME Going, EndFor
  PROVE  RetKept(frames', insert', Ret', code', pc')
<1>1. /\ Base /\ Typed /\ Generate /\ pc # 1
  BY Onward DEF Going
<1>2. /\ UNCHANGED retBlock /\ ast[pc].op # "if" /\ insert' = Top.m /\ frames' = Pop /\ IsFor(Top)
  BY DEF EndFor, At, IsFor
<1>3. Grows(insert)
  BY <1>1, EndForWrites, WritesGrow
<1>4. insert' \in Ends(Top)
  BY <1>1, <1>2, TopUses
<1>5. \A k \in DOMAIN frames' : \E j \in DOMAIN frames : frames'[k].head = frames[j].head
  BY <1>2, Popped
<1>6. QED
  BY <1>2, <1>3, <1>4, <1>5, RetSame

LEMMA EndIfRet ==
  ASSUME Going, EndIf
  PROVE  RetKept(frames', insert', Ret', code', pc')
<1>1. /\ Base /\ Typed /\ Generate /\ pc # 1
  BY Onward DEF Going
<1>2. /\ UNCHANGED retBlock /\ ast[pc].op # "if" /\ insert' \in {insert, Top.m}
      /\ frames' = Pop /\ IsIf(Top) /\ code' = JoinArm(code, Top.head, Top.m)
  BY DEF EndIf, At, IsIf
<1>3. Top.m \in Ends(Top)
  BY <1>1, <1>2, TopUses
<1>4. Grows(insert)
  <2>1. Top.m # 0
    BY <1>1, <1>2, Blocks1 DEF IsIf
  <2>2. QED
    BY <1>1, <1>2, <2>1, JoinGrows
<1>5. \A k \in DOMAIN frames' : \E j \in DOMAIN frames : frames'[k].head = frames[j].head
  BY <1>2, Popped
<1>6. QED
  BY <1>2, <1>3, <1>4, <1>5, RetSame

LEMMA BeginElseRet ==
  ASSUME Going, BeginElse
  PROVE  RetKept(frames', insert', Ret', code', pc')
<1>1. /\ Base /\ Typed /\ Generate /\ pc # 1
  BY Onward DEF Going
<1>2. /\ UNCHANGED retBlock /\ ast[pc].op # "if" /\ insert' = Top.f /\ IsIf(Top)
      /\ frames' = [frames EXCEPT ![Len(frames)].head = Top.f]
      /\ code' = JoinArm(code, Top.head, Top.m)
  BY DEF BeginElse, At, IsIf
<1>3. Top.f \in Ends(Top)
  BY <1>1, <1>2, TopUses
<1>4. Grows(insert)
  <2>1. Top.m # 0
    BY <1>1, <1>2, Blocks1 DEF IsIf
  <2>2. QED
    BY <1>1, <1>2, <2>1, JoinGrows
<1>5. \A k \in DOMAIN frames' :
        (\E j \in DOMAIN frames : frames'[k].head = frames[j].head) \/ frames'[k].head \in Ends(Top)
  BY <1>2, <1>3, Turned
<1>6. QED
  BY <1>2, <1>3, <1>4, <1>5, RetSame

LEMMA BeginIfRet ==
  ASSUME Going, BeginIf
  PROVE  RetKept(frames', insert', Ret', code', pc')
<1> DEFINE n == Asked
           fr == [item |-> pc, head |-> nblocks + n - 2, f |-> nblocks + n - 1, m |-> nblocks + n]
<1>1. /\ Typed /\ Generate /\ pc # 1 /\ pc \in Nat /\ nblocks \in Nat /\ frames \in Seq(Frame)
      /\ currentFunction = 1 /\ retBlock \in [1..MaxItems -> Nat] /\ 1 \in 1..MaxItems
  <2>1. /\ Typed /\ Generate /\ pc # 1 /\ pc \in Nat /\ nblocks \in Nat /\ currentFunction = 1
    BY Onward DEF Going
  <2>2. frames \in Seq(Frame) /\ retBlock \in [1..MaxItems -> Nat]
    BY <2>1 DEF Typed, TypeOK
  <2>3. 1 \in 1..MaxItems
    BY BodyAssumption DEF BodyAssumption
  <2>4. QED
    BY <2>1, <2>2, <2>3
<1>2. /\ ast[pc].op = "if" /\ insert' = nblocks + n - 2 /\ frames' = Append(frames, fr)
      /\ retBlock' = IF NeedsRet(pc) THEN [retBlock EXCEPT ![currentFunction] = nblocks + 1]
                     ELSE retBlock
  BY DEF BeginIf, At, Asked
<1>3. n \in {3, 4} /\ (NeedsRet(pc) => n = 4)
  BY DEF Asked
<1>4. Grows(insert) /\ \A x \in (nblocks + 1)..(nblocks + n) : code'[x] = <<>>
  BY <1>1, BeginIfWrites, WritesGrow
<1> HIDE DEF n
<1>5. fr \in Frame /\ fr.head = nblocks + n - 2
  BY <1>1, <1>3 DEF Frame
<1> HIDE DEF fr
<1>6. \A k \in DOMAIN frames' :
        (\E j \in DOMAIN frames : frames'[k].head = frames[j].head) \/ frames'[k].head = nblocks + n - 2
  BY <1>1, <1>2, <1>5, Pushed
<1>7. NeedsRet(pc) <=> AsksForRet(pc) /\ Ret = 0
  BY <1>1 DEF NeedsRet, Ret
<1>8. CASE ~NeedsRet(pc)
  <2>1. nblocks + n - 2 \notin 1..nblocks
    BY <1>1, <1>3
  <2>2. QED
    BY <1>2, <1>4, <1>6, <1>7, <1>8, <2>1, RetSame
<1>9. CASE NeedsRet(pc)
  <2>1. Ret' = nblocks + 1 /\ n = 4
    BY <1>1, <1>2, <1>3, <1>9 DEF Ret
  <2>2. /\ Ret' # 0 /\ nblocks + n - 2 # Ret' /\ nblocks + 1 \in (nblocks + 1)..(nblocks + n)
        /\ nblocks + 1 \notin 1..nblocks
    BY <1>1, <2>1
  <2>3. HasRet(pc')
    <3>1. pc' = pc + 1 /\ pc \in Nat /\ pc > 0
      BY Onward
    <3>2. HasRet(pc + 1)
      BY <1>2, <1>7, <1>9, <3>1, HasRetNext
    <3>3. QED
      BY <3>1, <3>2
  <2>4. code'[Ret'] = <<>> /\ Ret' # insert'
    BY <1>2, <1>4, <2>1, <2>2
  <2>5. \A k \in DOMAIN frames : frames[k].head # Ret'
    <3>1. /\ Apart(frames, attached, insert, Rets, code, pc) /\ attached \subseteq 1..nblocks
      BY Onward
    <3>2. \A k \in DOMAIN frames : frames[k].head \in attached
      BY <3>1, WaitingIn
    <3>3. QED
      BY <2>1, <2>2, <3>1, <3>2
  <2>6. \A k \in DOMAIN frames' : frames'[k].head # Ret'
    BY <1>6, <2>2, <2>5
  <2>7. QED
    BY <2>2, <2>3, <2>4, <2>6 DEF RetKept
<1>10. QED
  BY <1>8, <1>9

LEMMA RetStays ==
  ASSUME Going, phase' = "gen"
  PROVE  RetKept(frames', insert', Ret', code', pc')
BY Inside, EmitsRet, BeginIfRet, BeginElseRet, EndIfRet, BeginForRet, EndForRet

-----------------------------------------------------------------------------
(* The frame on top is a loop's exactly when the block pc closes is one's. *)
LEMMA TopOpener ==
  ASSUME Going, ast[pc].op \in {"else", "end"}
  PROVE  IsFor(Top) <=> ast[ast[pc].opener].op = "for"
<1>1. Source /\ Walked /\ Typed /\ Generate /\ pc # 1 /\ pc \in DOMAIN ast
  BY Onward DEF Going
<1>2. ast[pc].opener # 0 /\ Inner(ast, pc, ast[pc].opener)
  BY <1>1 DEF Source, Nested
<1>3. Top.item = FrameItem(ast[pc].opener)
  BY <1>1, <1>2, TopCloses
<1>4. ast[pc].opener \in DOMAIN ast
  <2>1. pc \in 1..Len(ast) /\ Len(ast) \in Nat /\ pc \in Nat
    BY <1>1 DEF Source
  <2>2. ast[pc].opener \in 1..(pc - 1)
    BY <1>2 DEF Inner, Open
  <2>3. ast[pc].opener \in 1..Len(ast)
    BY <2>1, <2>2
  <2>4. QED
    BY <1>1, <2>3 DEF Source
<1>5. CASE ast[ast[pc].opener].op = "else"
  <2>1. ast[Top.item].op = "if"
    BY <1>1, <1>3, <1>4, <1>5 DEF Source, Nested, FrameItem
  <2>2. QED
    BY <1>5, <2>1 DEF IsFor
<1>6. CASE ast[ast[pc].opener].op # "else"
  BY <1>3, <1>6 DEF FrameItem, IsFor
<1>7. QED
  BY <1>5, <1>6

(***************************************************************************)
(* A return that emits nothing after an item control does not get past     *)
(* stands directly in a loop: elsewhere its block asks for the ret block.  *)
(***************************************************************************)
LEMMA SilentReturn ==
  ASSUME Going, ast[pc].op \in Returns, Ret = 0, Leaves[pc - 1]
  PROVE  IsFor(Top)
<1>1. /\ Source /\ Walked /\ Typed /\ Generate /\ pc # 1 /\ pc \in DOMAIN ast /\ pc \in Nat
      /\ pc - 1 \in DOMAIN ast /\ pc > 1 /\ NoClosure /\ Flagged /\ phase = "gen"
  BY Onward, GenFacts DEF Going, Base, Nesting
<1>2. ~HasRet(pc)
  BY RetHere
<1>3. \A i \in 1..(pc - 1) : ast[i].op = "if" => ~AsksForRet(i)
  BY <1>2 DEF HasRet
<1>4. Loops(pc) # {}
  <2>1. \A i \in 1..(pc - 1) : ast[i].op = "break" => Loops(i) # {}
    BY <1>1 DEF Going, Looped
  <2>2. pc \in 1..(Len(ast) + 1) /\ pc - 1 \in 1..(pc - 1)
    <3>1. pc \in 1..Len(ast) /\ Len(ast) \in Nat
      BY <1>1 DEF Source
    <3>2. QED
      BY <1>1, <3>1
  <2>3. HasRet(pc - 1) \/ Loops(pc - 1) # {}
    BY <1>1, <2>1, <2>2, LeavesOpen
  <2>4. ~HasRet(pc - 1)
    <3>1. 1..(pc - 1 - 1) \subseteq 1..(pc - 1)
      BY <1>1
    <3>2. QED
      BY <1>2, <3>1 DEF HasRet
  <2>5. Loops(pc - 1 + 1) = Loops(pc - 1) /\ pc - 1 + 1 = pc
    BY <1>1, LeavesSame
  <2>6. QED
    BY <2>3, <2>4, <2>5
<1>5. PICK j \in DOMAIN ast : Inner(ast, pc, j) /\ Top.item = FrameItem(j)
  BY <1>1, TopInner
<1>6. /\ j \in 1..(pc - 1) /\ ast[j].op \in Blocks /\ \A k \in Open(ast, pc) : k <= j
  BY <1>5 DEF Inner, Open
<1>7. ast[j].returns
  BY <1>1, <1>5, <1>6 DEF Flagged
<1>8. ast[j].op # "closure"
  BY <1>1 DEF NoClosure
<1>9. ast[j].op # "if"
  BY <1>3, <1>6, <1>7 DEF AsksForRet
<1>10. ast[j].op # "else"
  <2>1. SUFFICES ASSUME ast[j].op = "else" PROVE FALSE
    OBVIOUS
  <2> DEFINE i == ast[j].opener
  <2>2. ast[i].els = j /\ ast[i].op = "if" /\ i # 0 /\ Inner(ast, j, i)
    BY <1>1, <2>1 DEF Source, Elses, Nested
  <2>3. i \in 1..(j - 1)
    BY <2>2 DEF Inner, Open
  <2> HIDE DEF i
  <2>4. i \in 1..(pc - 1)
    BY <1>1, <1>6, <2>3
  <2>5. j # 0
    BY <1>6
  <2>6. AsksForRet(i)
    BY <1>7, <2>2, <2>5 DEF AsksForRet
  <2>7. QED
    BY <1>3, <2>2, <2>4, <2>6
<1>11. ast[j].op # "fn"
  <2>1. SUFFICES ASSUME ast[j].op = "fn" PROVE FALSE
    OBVIOUS
  <2>2. j = 1
    BY <1>1, <2>1 DEF Typed, ParseInv
  <2>3. PICK l \in Open(ast, pc) : ast[l].op = "for"
    BY <1>4 DEF Loops
  <2>4. l <= j /\ l \in 1..(pc - 1)
    BY <1>6, <2>3 DEF Open
  <2>5. l = 1
    BY <2>2, <2>4
  <2>6. QED
    BY <2>1, <2>2, <2>3, <2>5
<1>12. ast[j].op = "for"
  BY <1>6, <1>8, <1>9, <1>10, <1>11 DEF Blocks
<1>13. QED
  BY <1>5, <1>12 DEF FrameItem, IsFor

(* Once the source is not clean a block is spoilt, or will be. *)
LEMMA CrookedNext ==
  ASSUME Going, phase' = "gen", ~Sofar(pc')
  PROVE  Crooked(frames', attached', insert', code')
<1>1. /\ Base /\ Generate /\ Typed /\ Linked /\ pc # 1 /\ pc \in Nat /\ pc > 1 /\ pc' = pc + 1
      /\ insert \in attached /\ Walked /\ attached \subseteq 1..nblocks
  BY Onward DEF Going
<1>2. SomeSpoiled(code, attached) => SomeSpoiled(code', attached')
  BY <1>1, GenKindred DEF KeepsKindred
<1>3. SUFFICES ASSUME ~SomeSpoiled(code, attached)
               PROVE  Crooked(frames', attached', insert', code')
  BY <1>2 DEF Crooked
<1>4. /\ HasTerminator(code, insert)
      /\ ~(ast[pc].op \in {"else", "end"} /\ ast[ast[pc].opener].op # "for")
      /\ IsFor(Top) \/ Leaves[pc - 1]
  <2>1. CASE Sofar(pc)
    <3>1. Leaves[pc - 1] /\ ~(ast[pc].op \in {"else", "end"} /\ ast[ast[pc].opener].op # "for")
      BY <1>1, <2>1, SofarNext
    <3>2. HasTerminator(code, insert)
      BY <2>1, <3>1 DEF Going, Track, Straight
    <3>3. QED
      BY <3>1, <3>2
  <2>2. CASE ~Sofar(pc)
    <3>1. HasTerminator(code, insert) /\ IsFor(Top)
      BY <1>3, <2>2 DEF Going, Track, Crooked, Top
    <3>2. QED
      BY <3>1, TopOpener
  <2>3. QED
    BY <2>1, <2>2
<1>5. ASSUME NEW term, NEW names, Writes(insert, term, names), insert \in attached'
      PROVE  Crooked(frames', attached', insert', code')
  <2>1. Spoiled(code', insert)
    BY <1>4, <1>5 DEF Writes, Written
  <2>2. QED
    BY <1>5, <2>1 DEF Crooked, SomeSpoiled
<1>6. CASE Statement
  BY <1>1, <1>5, <1>6, StatementWrites DEF Statement, OnlyEmits
<1>7. CASE Break
  BY <1>1, <1>5, <1>7, BreakWrites DEF Break, OnlyEmits
<1>8. CASE ReturnValue
  BY <1>1, <1>5, <1>8, ReturnValueWrites DEF ReturnValue, OnlyEmits
<1>9. CASE Return
  <2>1. /\ UNCHANGED <<attached, insert, frames>> /\ ast[pc].op \in Returns
    BY <1>9 DEF Return, OnlyEmits, At, Returns
  <2>2. currentFunction = 1
    BY Onward
  <2>3. CASE Ret # 0
    BY <1>1, <1>5, <1>9, <2>1, <2>2, <2>3, ReturnWrites DEF Ret
  <2>4. CASE Ret = 0
    <3>1. code' = code
      BY <1>1, <1>9, <2>2, <2>4, ReturnWrites DEF Ret
    <3>2. IsFor(Top)
      BY <1>4, <2>1, <2>4, SilentReturn
    <3>3. QED
      <4>1. HasTerminator(code', insert')
        BY <1>4, <2>1, <3>1
      <4>2. frames'[Len(frames')] = Top
        BY <2>1 DEF Top
      <4>3. IsFor(frames'[Len(frames')])
        BY <3>2, <4>2
      <4>4. QED
        BY <4>1, <4>3 DEF Crooked
  <2>5. QED
    BY <2>3, <2>4
<1>10. CASE BeginIf
  BY <1>1, <1>5, <1>10, BeginIfWrites DEF BeginIf
<1>11. CASE BeginFor
  BY <1>1, <1>5, <1>11, BeginForWrites DEF BeginFor
<1>12. CASE EndFor
  BY <1>1, <1>5, <1>12, EndForWrites DEF EndFor
<1>13. CASE BeginElse \/ EndIf
  <2>1. ast[pc].op \in {"else", "end"} /\ ~IsFor(Top)
    BY <1>13 DEF BeginElse, EndIf, At, IsFor
  <2>2. QED
    BY <1>4, <2>1, TopOpener
<1>14. QED
  BY <1>6, <1>7, <1>8, <1>9, <1>10, <1>11, <1>12, <1>13, Inside

-----------------------------------------------------------------------------
(* A clean source: the blocks nobody waits for stay ended. *)
LEMMA EndedNext ==
  ASSUME Going, Straight(frames, attached, insert, Ret, code, pc), Grows(insert),
         \A b \in attached' :
           b \in attached \/ b \in Waiting(frames') \cup {insert', Ret'} \/ Ended(code', b),
         \A b \in Waiting(frames) : b \in Waiting(frames') \cup {insert'} \/ b \notin attached',
         insert # insert' => Ended(code', insert),
         Ret # 0 => Ret' = Ret
  PROVE  \A b \in attached' \ (Waiting(frames') \cup {insert', Ret'}) : Ended(code', b)
<1>1. attached \subseteq 1..nblocks /\ 0 \notin attached
  BY Onward
<1>2. SUFFICES ASSUME NEW b \in attached', b \notin Waiting(frames') \cup {insert', Ret'}
               PROVE  Ended(code', b)
  OBVIOUS
<1>3. CASE b \in attached
  <2>1. b \notin Waiting(frames)
    BY <1>2
  <2>2. b # Ret
    BY <1>1, <1>2, <1>3
  <2>3. CASE b = insert
    BY <1>2, <2>3
  <2>4. CASE b # insert
    <3>1. Ended(code, b)
      BY <1>3, <2>1, <2>2, <2>4 DEF Straight
    <3>2. code'[b] = code[b]
      BY <1>1, <1>3, <2>4 DEF Grows, Elsewhere
    <3>3. QED
      BY <3>1, <3>2, SameBlock DEF Ended
  <2>5. QED
    BY <2>3, <2>4
<1>4. QED
  BY <1>2, <1>3

(* What joins an if does not change unless pc is its else or names its m. *)
LEMMA JoinedNext ==
  ASSUME Going, NEW names, \A t : Mentions(code', t) <=> Mentions(code, t) \/ t \in names,
         NEW fr, fr.item \in DOMAIN ast, ast[fr.item].els # pc, fr.m \notin names
  PROVE  Joined(fr, code', pc') <=> Joined(fr, code, pc)
<1>1. Source /\ pc \in DOMAIN ast /\ pc' = pc + 1
  BY Onward
<1>2. ast[fr.item].els < pc + 1 <=> ast[fr.item].els < pc
  BY <1>1, BegunNext
<1>3. Mentions(code', fr.m) <=> Mentions(code, fr.m)
  OBVIOUS
<1>4. QED
  BY <1>1, <1>2, <1>3 DEF Joined

(* The ifs under way, and where their m is not. *)
LEMMA IfHere ==
  ASSUME Going, NEW k \in DOMAIN frames, IsIf(frames[k])
  PROVE  /\ frames[k].item \in DOMAIN ast
         /\ frames[k].m \in attached /\ frames[k].m \in 1..nblocks
         /\ frames[k].m \notin Kept /\ frames[k].m # Ret
         /\ k # Len(frames) => frames[k].m \notin Uses(Top)
         /\ ast[frames[k].item].els = pc => ast[pc].op = "else" /\ k = Len(frames)
<1>1. /\ Apart(frames, attached, insert, Rets, code, pc) /\ Linked /\ Typed /\ Walked
      /\ Generate /\ pc # 1 /\ attached \subseteq 1..nblocks
  BY Onward DEF Going
<1>2. frames[k].m \in Ends(frames[k]) /\ frames[k].m \in Arms(frames[k])
  BY DEF Ends, Arms
<1>3. frames[k].m \in attached /\ frames[k].m \notin Kept
  BY <1>1, <1>2 DEF Linked, IfLinked
<1>4. Top = frames[Len(frames)] /\ Len(frames) \in DOMAIN frames
  BY <1>1, FramesAre
<1>5. k # Len(frames) => frames[k].m \notin Uses(Top)
  BY <1>1, <1>2, <1>4 DEF Apart
<1>6. frames[k].m # Ret
  BY <1>1, <1>2, <1>3, RetHere
<1>7. /\ frames[k].item \in DOMAIN ast
      /\ ast[frames[k].item].els = pc => ast[pc].op = "else" /\ k = Len(frames)
  BY Setting DEF Going
<1>8. QED
  BY <1>1, <1>3, <1>5, <1>6, <1>7

(* A statement after one that control gets past. *)
LEMMA EmitStraight ==
  ASSUME Going, Sofar(pc'), ast[pc].op \notin {"else", "end"},
         UNCHANGED <<frames, attached, insert, retBlock>>,
         NEW names, Writes(insert, Leaves[pc], names),
         \A k \in DOMAIN frames : IsIf(frames[k]) => frames[k].m \notin names
  PROVE  Straight(frames', attached', insert', Ret', code', pc')
<1>1. /\ pc' = pc + 1 /\ pc' - 1 = pc /\ Ret' = Ret /\ insert' = insert /\ attached' = attached
      /\ frames' = frames
  BY Onward DEF Ret
<1>2. /\ Straight(frames, attached, insert, Ret, code, pc)
      /\ ~Spoiled(code, insert) /\ ~HasTerminator(code, insert)
  BY <1>1, StraightHere
<1>3. /\ \A b \in attached' :
           b \in attached \/ b \in Waiting(frames') \cup {insert', Ret'} \/ Ended(code', b)
      /\ \A b \in Waiting(frames) : b \in Waiting(frames') \cup {insert'} \/ b \notin attached'
      /\ insert # insert' => Ended(code', insert)
  BY <1>1
<1>4. /\ Grows(insert) /\ Written(code, code', insert, Leaves[pc])
      /\ \A t : Mentions(code', t) <=> Mentions(code, t) \/ t \in names
  BY WritesGrow DEF Writes
<1>5. \A b \in attached' \ (Waiting(frames') \cup {insert', Ret'}) : Ended(code', b)
  BY <1>1, <1>2, <1>3, <1>4, EndedNext
<1>6. ~Spoiled(code', insert') /\ (HasTerminator(code', insert') <=> Leaves[pc' - 1])
  BY <1>1, <1>2, <1>4 DEF Written
<1>7. ASSUME NEW k \in DOMAIN frames', IsIf(frames'[k])
      PROVE  Joined(frames'[k], code', pc')
  <2>1. k \in DOMAIN frames /\ frames'[k] = frames[k] /\ IsIf(frames[k])
    BY <1>1, <1>7
  <2>2. Joined(frames[k], code, pc) /\ frames[k].m \notin names
    BY <1>2, <2>1 DEF Straight
  <2>3. frames[k].item \in DOMAIN ast /\ ast[frames[k].item].els # pc
    BY <2>1, IfHere
  <2>4. Joined(frames[k], code', pc')
    BY <1>4, <2>2, <2>3, JoinedNext
  <2>5. QED
    BY <2>1, <2>4
<1>8. QED
  BY <1>5, <1>6, <1>7 DEF Straight

LEMMA StatementStraight ==
  ASSUME Going, Sofar(pc'), phase' = "gen", Statement \/ Return \/ ReturnValue \/ Break
  PROVE  Straight(frames', attached', insert', Ret', code', pc')
<1>1. /\ Typed /\ Linked /\ Source /\ Generate /\ pc # 1 /\ pc \in DOMAIN ast /\ currentFunction = 1
  BY Onward DEF Going
<1>2. /\ ast[pc].op \in {"stmt", "return", "returnv", "break"}
      /\ UNCHANGED <<frames, attached, insert, retBlock>>
  BY DEF Statement, Return, ReturnValue, Break, OnlyEmits, At
<1>3. ast[pc].op \notin {"else", "end"} /\ ~JoinsArms(pc)
  BY <1>2 DEF JoinsArms
<1>4. /\ ast[pc].op = "stmt" => ~Leaves[pc]
      /\ ast[pc].op = "break" => Leaves[pc]
      /\ ast[pc].op \in Returns => (Leaves[pc] <=> Ret # 0)
  <2>1. Ret # 0 <=> HasRet(pc)
    BY RetHere
  <2>2. ast[pc].op = "stmt" => ast[pc].op \notin Returns \cup {"break"}
    BY DEF Returns
  <2>3. QED
    BY <1>1, <1>3, <2>1, <2>2, LeavesIs DEF Source
<1>5. \A k \in DOMAIN frames : IsIf(frames[k]) =>
        frames[k].m \notin {} /\ frames[k].m \notin {Ret} /\ frames[k].m \notin Kept
  BY IfHere
<1>6. UNCHANGED code => Writes(insert, FALSE, {})
  <2>1. ~HasTerminator(code, insert)
    BY <1>3, StraightHere, Onward
  <2>2. QED
    BY <2>1 DEF Writes, Written, Elsewhere
<1>7. CASE Statement
  <2>1. Writes(insert, FALSE, {}) /\ ast[pc].op = "stmt"
    BY <1>1, <1>7, StatementWrites DEF Statement, At
  <2>2. Writes(insert, Leaves[pc], {})
    BY <1>4, <2>1 DEF Writes, Written
  <2>3. QED
    BY <1>2, <1>3, <1>5, <2>2, EmitStraight
<1>8. CASE Break
  <2>1. Writes(insert, TRUE, {BreakPoint}) /\ BreakPoint \in Kept /\ ast[pc].op = "break"
    BY <1>1, <1>8, BreakWrites DEF Break, At
  <2>2. \A k \in DOMAIN frames : IsIf(frames[k]) => frames[k].m \notin {BreakPoint}
    BY <1>5, <2>1
  <2>3. Writes(insert, Leaves[pc], {BreakPoint})
    BY <1>4, <2>1 DEF Writes, Written
  <2>4. QED
    BY <1>2, <1>3, <2>2, <2>3, EmitStraight
<1>9. CASE Return \/ ReturnValue
  <2>1. /\ Ret # 0 => Writes(insert, TRUE, {Ret})
        /\ Ret = 0 => Writes(insert, FALSE, {})
    BY <1>1, <1>6, <1>9, ReturnWrites, ReturnValueWrites DEF Ret
  <2>2. ast[pc].op \in Returns
    BY <1>9 DEF Return, ReturnValue, At, Returns
  <2>3. CASE Ret # 0
    <3>1. Writes(insert, Leaves[pc], {Ret})
      BY <1>4, <2>1, <2>2, <2>3 DEF Writes, Written
    <3>2. QED
      BY <1>2, <1>3, <1>5, <3>1, EmitStraight
  <2>4. CASE Ret = 0
    <3>1. Writes(insert, Leaves[pc], {})
      BY <1>4, <2>1, <2>2, <2>4 DEF Writes, Written
    <3>2. QED
      BY <1>2, <1>3, <1>5, <3>1, EmitStraight
  <2>5. QED
    BY <2>3, <2>4
<1>10. QED
  BY <1>7, <1>8, <1>9

(* The steps that open a block of their own. *)
LEMMA JoinedKept ==
  ASSUME Going, Straight(frames, attached, insert, Ret, code, pc),
         NEW names, \A t : Mentions(code', t) <=> Mentions(code, t) \/ t \in names,
         NEW k \in DOMAIN frames, IsIf(frames[k]), frames[k].m \notin names,
         ast[pc].op # "else" \/ k # Len(frames)
  PROVE  Joined(frames[k], code', pc')
<1>1. frames[k].item \in DOMAIN ast /\ ast[frames[k].item].els # pc
  BY IfHere
<1>2. Joined(frames[k], code, pc)
  BY DEF Straight
<1>3. QED
  BY <1>1, <1>2, JoinedNext

LEMMA BeginForStraight ==
  ASSUME Going, Sofar(pc'), BeginFor
  PROVE  Straight(frames', attached', insert', Ret', code', pc')
<1> DEFINE fr == [item |-> pc, head |-> nblocks + 1, f |-> 0, m |-> nblocks + 3]
           new == (nblocks + 1)..(nblocks + 3)
<1>1. /\ Typed /\ Source /\ Generate /\ pc # 1 /\ pc \in Nat /\ pc \in DOMAIN ast
      /\ pc' = pc + 1 /\ pc' - 1 = pc
      /\ nblocks \in Nat /\ attached \subseteq 1..nblocks /\ insert \in attached
  BY Onward DEF Going
<1>2. /\ ast[pc].op = "for" /\ frames' = Append(frames, fr) /\ insert' = nblocks + 2
      /\ attached' = attached \cup new /\ Ret' = Ret
  BY DEF BeginFor, At, Ret
<1>3. /\ Writes(insert, TRUE, new) /\ Grows(insert)
      /\ Ended(code', nblocks + 1) /\ code'[nblocks + 2] = <<>>
  BY <1>1, BeginForWrites, WritesGrow
<1>4. /\ Straight(frames, attached, insert, Ret, code, pc)
      /\ ~Spoiled(code, insert) /\ ~HasTerminator(code, insert)
  BY <1>1, <1>2, StraightHere
<1>5. /\ fr \in Frame /\ fr.item = pc /\ Waits(fr) = {nblocks + 3} /\ ~IsIf(fr)
  BY <1>1, <1>2 DEF Frame, Waits, Ends, IsIf, IsFor
<1>6. new = {nblocks + 1, nblocks + 2, nblocks + 3}
  BY <1>1
<1> HIDE DEF fr, new
<1>7. /\ \A k \in DOMAIN frames' : (k \in DOMAIN frames /\ frames'[k] = frames[k]) \/ frames'[k] = fr
      /\ \A b : b \in Waiting(frames') <=> b \in Waiting(frames) \/ b \in Waits(fr)
  <2>1. frames \in Seq(Frame) /\ fr \in Frame /\ frames' = Append(frames, fr)
    BY <1>1, <1>2, <1>5 DEF Typed, TypeOK
  <2>2. \A k \in DOMAIN frames' :
          (k \in DOMAIN frames /\ frames'[k] = frames[k]) \/ frames'[k] = fr
    BY <2>1, Pushed
  <2>3. \A b : b \in Waiting(frames') <=> b \in Waiting(frames) \/ b \in Waits(fr)
    BY <2>1, Pushed
  <2>4. QED
    BY <2>2, <2>3
<1>8. \A b \in attached' \ (Waiting(frames') \cup {insert', Ret'}) : Ended(code', b)
  <2>1. Ended(code', insert)
    BY <1>3, <1>4 DEF Ended, Writes, Written
  <2>2. \A b \in attached' :
          b \in attached \/ b \in Waiting(frames') \cup {insert', Ret'} \/ Ended(code', b)
    BY <1>2, <1>3, <1>5, <1>6, <1>7
  <2>3. \A b \in Waiting(frames) : b \in Waiting(frames') \cup {insert'} \/ b \notin attached'
    BY <1>7
  <2>4. QED
    BY <1>2, <1>3, <1>4, <2>1, <2>2, <2>3, EndedNext
<1>9. ~Leaves[pc]
  <2>1. ast[pc].op \notin Returns \cup {"break"} /\ ~JoinsArms(pc)
    BY <1>2 DEF Returns, JoinsArms
  <2>2. QED
    BY <1>1, <2>1, LeavesIs DEF Source
<1>10. ~Spoiled(code', insert') /\ (HasTerminator(code', insert') <=> Leaves[pc' - 1])
  <2>1. ~Spoiled(code', insert') /\ ~HasTerminator(code', insert')
    BY <1>2, <1>3, EmptyBlock
  <2>2. QED
    BY <1>1, <1>9, <2>1
<1>11. ASSUME NEW k \in DOMAIN frames', IsIf(frames'[k])
       PROVE  Joined(frames'[k], code', pc')
  <2>1. k \in DOMAIN frames /\ frames'[k] = frames[k] /\ IsIf(frames[k])
    BY <1>5, <1>7, <1>11
  <2>2. frames[k].m \notin new
    <3>1. frames[k].m \in 1..nblocks
      BY <2>1, IfHere
    <3>2. QED
      BY <1>1, <1>6, <3>1
  <2>3. \A t : Mentions(code', t) <=> Mentions(code, t) \/ t \in new
    BY <1>3 DEF Writes
  <2>4. ast[pc].op # "else"
    BY <1>2
  <2>5. Joined(frames[k], code', pc')
    BY <1>4, <2>1, <2>2, <2>3, <2>4, JoinedKept
  <2>6. QED
    BY <2>1, <2>5
<1>12. QED
  BY <1>8, <1>10, <1>11 DEF Straight

LEMMA BeginIfStraight ==
  ASSUME Going, Sofar(pc'), BeginIf
  PROVE  Straight(frames', attached', insert', Ret', code', pc')
<1> DEFINE n == Asked
           fr == [item |-> pc, head |-> nblocks + n - 2, f |-> nblocks + n - 1, m |-> nblocks + n]
           new == (nblocks + 1)..(nblocks + n)
           names == {nblocks + n - 2, Otherwise}
<1>1. /\ Typed /\ Linked /\ Source /\ Generate /\ pc # 1 /\ pc \in Nat /\ pc \in DOMAIN ast
      /\ pc' = pc + 1 /\ pc' - 1 = pc /\ currentFunction = 1
      /\ nblocks \in Nat /\ attached \subseteq 1..nblocks /\ insert \in attached
  BY Onward DEF Going
<1>2. /\ ast[pc].op = "if" /\ frames' = Append(frames, fr) /\ insert' = nblocks + n - 2
      /\ attached' = attached \cup new
      /\ retBlock' = IF NeedsRet(pc) THEN [retBlock EXCEPT ![currentFunction] = nblocks + 1]
                     ELSE retBlock
  BY DEF BeginIf, At, Asked
<1>3. n \in {3, 4} /\ n = (IF NeedsRet(pc) THEN 4 ELSE 3)
  BY DEF Asked
<1>4. /\ Writes(insert, TRUE, names) /\ Grows(insert)
      /\ \A x \in new : code'[x] = <<>>
  BY <1>1, BeginIfWrites, WritesGrow
<1>5. /\ Straight(frames, attached, insert, Ret, code, pc)
      /\ ~Spoiled(code, insert) /\ ~HasTerminator(code, insert)
  BY <1>1, <1>2, StraightHere
<1>6. Otherwise = IF ast[pc].els # 0 THEN nblocks + n - 1 ELSE nblocks + n
  BY DEF Otherwise
<1> HIDE DEF n
<1>7. /\ fr \in Frame /\ fr.item = pc /\ fr.m = nblocks + n
      /\ Waits(fr) = {nblocks + n - 1, nblocks + n}
  <2>1. /\ fr \in Frame /\ fr.item = pc /\ fr.head = nblocks + n - 2 /\ fr.f = nblocks + n - 1
        /\ fr.m = nblocks + n
    BY <1>1, <1>3 DEF Frame
  <2> HIDE DEF fr
  <2>2. Ends(fr) = {nblocks + n - 1, nblocks + n}
    BY <1>2, <2>1 DEF Ends, IsIf
  <2>3. nblocks + n - 2 \notin {nblocks + n - 1, nblocks + n}
    BY <1>1, <1>3
  <2>4. QED
    BY <2>1, <2>2, <2>3 DEF Waits
<1> HIDE DEF fr
<1>8. /\ \A k \in DOMAIN frames' : (k \in DOMAIN frames /\ frames'[k] = frames[k]) \/ frames'[k] = fr
      /\ \A b : b \in Waiting(frames') <=> b \in Waiting(frames) \/ b \in Waits(fr)
  <2>1. frames \in Seq(Frame) /\ fr \in Frame /\ frames' = Append(frames, fr)
    BY <1>1, <1>2, <1>7 DEF Typed, TypeOK
  <2>2. \A k \in DOMAIN frames' :
          (k \in DOMAIN frames /\ frames'[k] = frames[k]) \/ frames'[k] = fr
    BY <2>1, Pushed
  <2>3. \A b : b \in Waiting(frames') <=> b \in Waiting(frames) \/ b \in Waits(fr)
    BY <2>1, Pushed
  <2>4. QED
    BY <2>2, <2>3
<1>9. (Ret # 0 => Ret' = Ret) /\ (n = 4 => Ret' = nblocks + 1)
  <2>1. retBlock \in [1..MaxItems -> Nat] /\ 1 \in 1..MaxItems
    BY <1>1, BodyAssumption DEF BodyAssumption, Typed, TypeOK
  <2>2. NeedsRet(pc) => Ret = 0
    BY <1>1 DEF NeedsRet, Ret
  <2>3. NeedsRet(pc) => Ret' = nblocks + 1
    BY <1>1, <1>2, <2>1 DEF Ret
  <2>4. ~NeedsRet(pc) => Ret' = Ret
    BY <1>2 DEF Ret
  <2>5. QED
    BY <1>3, <2>2, <2>3, <2>4
<1>10. \A x \in new : x \in {nblocks + n - 2, nblocks + n - 1, nblocks + n} \/ (n = 4 /\ x = nblocks + 1)
  BY <1>1, <1>3
<1>11. \A b \in attached' \ (Waiting(frames') \cup {insert', Ret'}) : Ended(code', b)
  <2> HIDE DEF new, names
  <2>1. Ended(code', insert)
    BY <1>4, <1>5 DEF Ended, Writes, Written
  <2>2. \A b \in attached' :
          b \in attached \/ b \in Waiting(frames') \cup {insert', Ret'} \/ Ended(code', b)
    BY <1>2, <1>7, <1>8, <1>9, <1>10
  <2>3. \A b \in Waiting(frames) : b \in Waiting(frames') \cup {insert'} \/ b \notin attached'
    BY <1>8
  <2>4. QED
    BY <1>4, <1>5, <1>9, <2>1, <2>2, <2>3, EndedNext
<1>12. ~Leaves[pc]
  <2>1. ast[pc].op \notin Returns \cup {"break"} /\ ~JoinsArms(pc)
    BY <1>2 DEF Returns, JoinsArms
  <2>2. QED
    BY <1>1, <2>1, LeavesIs DEF Source
<1>13. ~Spoiled(code', insert') /\ (HasTerminator(code', insert') <=> Leaves[pc' - 1])
  <2>1. insert' \in new
    BY <1>1, <1>2, <1>3
  <2>2. ~Spoiled(code', insert') /\ ~HasTerminator(code', insert')
    BY <1>4, <2>1, EmptyBlock
  <2>3. QED
    BY <1>1, <1>12, <2>2
<1>14. \A t : Mentions(code', t) <=> Mentions(code, t) \/ t \in names
  BY <1>4 DEF Writes
<1>15. ASSUME NEW k \in DOMAIN frames', IsIf(frames'[k])
       PROVE  Joined(frames'[k], code', pc')
  <2>1. CASE k \in DOMAIN frames /\ frames'[k] = frames[k]
    <3>1. frames[k].m \notin names
      <4>1. frames[k].m \in 1..nblocks
        BY <1>15, <2>1, IfHere
      <4>2. QED
        BY <1>1, <1>3, <1>6, <4>1
    <3>2. ast[pc].op # "else" /\ IsIf(frames[k])
      BY <1>2, <1>15, <2>1
    <3>3. Joined(frames[k], code', pc')
      BY <1>5, <1>14, <2>1, <3>1, <3>2, JoinedKept
    <3>4. QED
      BY <2>1, <3>3
  <2>2. CASE frames'[k] = fr
    <3>1. ~Mentions(code, nblocks + n)
      <4>1. \A t : Mentions(code, t) => t \in attached
        BY <1>1, MentionedAttached DEF Linked
      <4>2. nblocks + n \notin 1..nblocks
        BY <1>1, <1>3
      <4>3. QED
        BY <1>1, <4>1, <4>2
    <3>2. nblocks + n \in names <=> ast[pc].els = 0
      BY <1>1, <1>3, <1>6
    <3>3. Mentions(code', nblocks + n) <=> ast[pc].els = 0
      BY <1>14, <3>1, <3>2
    <3>4. ast[pc].els # 0 => ~(ast[pc].els < pc')
      <4>1. SUFFICES ASSUME ast[pc].els # 0 PROVE ~(ast[pc].els < pc')
        OBVIOUS
      <4>2. ast[pc].els \in Nat /\ pc \in 1..(ast[pc].els - 1)
        BY <1>1, <4>1, ElseOf
      <4>3. QED
        BY <1>1, <4>2
    <3>5. QED
      BY <1>7, <2>2, <3>3, <3>4 DEF Joined
  <2>3. QED
    BY <1>8, <2>1, <2>2
<1>16. QED
  BY <1>11, <1>13, <1>15 DEF Straight

(* The end of a loop: control got to the end of its body. *)
LEMMA EndForStraight ==
  ASSUME Going, Sofar(pc'), EndFor
  PROVE  Straight(frames', attached', insert', Ret', code', pc')
<1>1. /\ Base /\ Typed /\ Source /\ Walked /\ Generate /\ pc # 1 /\ pc \in Nat /\ pc \in DOMAIN ast
      /\ pc' = pc + 1 /\ pc' - 1 = pc
      /\ nblocks \in Nat /\ attached \subseteq 1..nblocks /\ insert \in attached
  BY Onward DEF Going
<1>2. /\ At("end") /\ IsFor(Top) /\ frames' = Pop /\ insert' = Top.m /\ attached' = attached
      /\ Ret' = Ret
  BY DEF EndFor, IsFor, Ret
<1>3. ast[pc].op = "end" /\ ast[Top.item].op # "if"
  BY <1>2 DEF At, IsFor
<1>4. /\ Straight(frames, attached, insert, Ret, code, pc)
      /\ ~Spoiled(code, insert) /\ ~HasTerminator(code, insert)
  <2>1. ast[ast[pc].opener].op = "for"
    BY <1>2, <1>3, TopOpener
  <2>2. QED
    BY <1>1, <2>1, StraightHere
<1>5. Writes(insert, TRUE, {Top.head}) /\ Grows(insert)
  BY <1>1, EndForWrites, WritesGrow
<1>6. /\ Ends(Top) = {Top.m} /\ Top.m # Top.head /\ Top.m \in attached
      /\ Top.m # insert /\ code[Top.m] = <<>>
  BY <1>1, <1>2, TopUses DEF Split
<1>7. /\ \A k \in DOMAIN frames' :
           k \in DOMAIN frames /\ k # Len(frames) /\ frames'[k] = frames[k]
      /\ \A b : b \in Waiting(frames) => b \in Waiting(frames') \/ b \in Waits(Top)
  BY <1>2, Popped
<1>8. \A b \in attached' \ (Waiting(frames') \cup {insert', Ret'}) : Ended(code', b)
  <2>1. Ended(code', insert)
    BY <1>4, <1>5 DEF Ended, Writes, Written
  <2>2. \A b \in Waiting(frames) : b \in Waiting(frames') \cup {insert'} \/ b \notin attached'
    BY <1>2, <1>6, <1>7 DEF Waits
  <2>3. QED
    BY <1>2, <1>4, <1>5, <2>1, <2>2, EndedNext
<1>9. ~Leaves[pc]
  <2>1. ~JoinsArms(pc)
    BY <1>1, <1>2, <1>3, EndTop
  <2>2. ast[pc].op \notin Returns \cup {"break"}
    BY <1>3 DEF Returns
  <2>3. QED
    BY <1>1, <2>1, <2>2, LeavesIs DEF Source
<1>10. ~Spoiled(code', insert') /\ (HasTerminator(code', insert') <=> Leaves[pc' - 1])
  <2>1. code'[insert'] = <<>>
    BY <1>1, <1>2, <1>5, <1>6 DEF Grows, Elsewhere
  <2>2. ~Spoiled(code', insert') /\ ~HasTerminator(code', insert')
    BY <2>1, EmptyBlock
  <2>3. QED
    BY <1>1, <1>9, <2>2
<1>11. ASSUME NEW k \in DOMAIN frames', IsIf(frames'[k])
       PROVE  Joined(frames'[k], code', pc')
  <2>1. k \in DOMAIN frames /\ k # Len(frames) /\ frames'[k] = frames[k] /\ IsIf(frames[k])
    BY <1>7, <1>11
  <2>2. frames[k].m \notin {Top.head}
    BY <2>1, IfHere DEF Uses
  <2>3. \A t : Mentions(code', t) <=> Mentions(code, t) \/ t \in {Top.head}
    BY <1>5 DEF Writes
  <2>4. Joined(frames[k], code', pc')
    BY <1>4, <2>1, <2>2, <2>3, JoinedKept
  <2>5. QED
    BY <2>1, <2>4
<1>12. QED
  BY <1>8, <1>10, <1>11 DEF Straight

(* The end of an arm branches to m exactly when control gets to it. *)
Joins == IF Leaves[pc - 1] THEN {} ELSE {Top.m}

LEMMA ArmJoins ==
  ASSUME Going, Sofar(pc'), IsIf(Top), code' = JoinArm(code, Top.head, Top.m)
  PROVE  /\ Leaves[pc - 1] => UNCHANGED code
         /\ Ended(code', insert) /\ Grows(insert)
         /\ \A t : Mentions(code', t) <=> Mentions(code, t) \/ t \in Joins
<1>1. /\ Base /\ Typed /\ Walked /\ Generate /\ pc # 1 /\ pc' = pc + 1
      /\ Apart(frames, attached, insert, Rets, code, pc) /\ attached \subseteq 1..nblocks
  BY Onward DEF Going
<1>2. /\ Straight(frames, attached, insert, Ret, code, pc)
      /\ ~Spoiled(code, insert) /\ (HasTerminator(code, insert) <=> Leaves[pc - 1])
  BY <1>1, StraightHere
<1>3. Top = frames[Len(frames)] /\ Len(frames) \in DOMAIN frames
  BY <1>1, FramesAre
<1>4. HasTerminator(code, insert) => HasTerminator(code, Top.head)
  <2>1. Top.head \in attached \ Waiting(frames)
    BY <1>1, <1>3, WaitingIn
  <2>2. Top.head # Ret
    <3>1. Ret # 0 => Top.head # Ret
      BY <1>3, RetHere
    <3>2. Top.head # 0
      BY <1>1, <2>1
    <3>3. QED
      BY <3>1, <3>2
  <2>3. Top.head # insert => Ended(code, Top.head)
    BY <1>2, <2>1, <2>2 DEF Straight
  <2>4. QED
    BY <2>3 DEF Ended
<1>5. Top.m # 0
  BY <1>1, Blocks1 DEF IsIf
<1>6. IF HasTerminator(code, Top.head) /\ HasTerminator(code, insert)
        THEN UNCHANGED code
        ELSE Writes(insert, TRUE, {Top.m})
  BY <1>1, <1>5, JoinWrites
<1>7. Grows(insert)
  BY <1>1, <1>5, JoinGrows
<1>8. CASE Leaves[pc - 1]
  <2>1. UNCHANGED code
    BY <1>2, <1>4, <1>6, <1>8
  <2>2. Ended(code', insert)
    BY <1>2, <1>8, <2>1 DEF Ended
  <2>3. QED
    BY <1>7, <1>8, <2>1, <2>2 DEF Joins
<1>9. CASE ~Leaves[pc - 1]
  <2>1. Writes(insert, TRUE, {Top.m})
    BY <1>2, <1>6, <1>9
  <2>2. Ended(code', insert)
    BY <1>2, <1>9, <2>1 DEF Ended, Writes, Written
  <2>3. QED
    BY <1>7, <1>9, <2>1, <2>2 DEF Joins, Writes
<1>10. QED
  BY <1>8, <1>9

LEMMA BeginElseStraight ==
  ASSUME Going, Sofar(pc'), BeginElse
  PROVE  Straight(frames', attached', insert', Ret', code', pc')
<1> DEFINE n == Len(frames)
<1>1. /\ Base /\ Typed /\ Source /\ Walked /\ Generate /\ pc # 1 /\ pc \in Nat /\ pc \in DOMAIN ast
      /\ pc > 1 /\ pc' = pc + 1 /\ pc' - 1 = pc
      /\ nblocks \in Nat /\ attached \subseteq 1..nblocks /\ insert \in attached
  BY Onward DEF Going
<1>2. /\ At("else") /\ IsIf(Top) /\ insert' = Top.f /\ attached' = attached /\ Ret' = Ret
      /\ frames' = [frames EXCEPT ![Len(frames)].head = Top.f]
      /\ code' = JoinArm(code, Top.head, Top.m)
  BY DEF BeginElse, IsIf, Ret
<1>3. ast[pc].op = "else" /\ ast[Top.item].els = pc
  BY <1>1, <1>2, TurnTop DEF At
<1>4. /\ Straight(frames, attached, insert, Ret, code, pc)
      /\ Ended(code', insert) /\ Grows(insert)
      /\ \A t : Mentions(code', t) <=> Mentions(code, t) \/ t \in Joins
  BY <1>1, <1>2, StraightHere, ArmJoins
<1>5. /\ DOMAIN frames' = DOMAIN frames
      /\ \A k \in DOMAIN frames : /\ frames'[k].item = frames[k].item
                                  /\ frames'[k].m = frames[k].m
                                  /\ k # n => frames'[k] = frames[k]
      /\ \A b : b \in Waiting(frames) => b \in Waiting(frames') \/ b = Top.f
  BY <1>2, Turned
<1>6. /\ n \in DOMAIN frames /\ Top = frames[n] /\ Top.f \in attached /\ Top.f # insert
      /\ Top.m \in Uses(Top) /\ code[Top.f] = <<>>
  <2>1. ~Begun(Top.item, pc)
    BY <1>1, <1>3 DEF Begun
  <2>2. Top.head # Top.f
    BY <1>1, <1>2, <2>1, TopUses DEF Split
  <2>3. QED
    BY <1>1, <1>2, <2>2, TopUses
<1> HIDE DEF n
<1>7. \A b \in attached' \ (Waiting(frames') \cup {insert', Ret'}) : Ended(code', b)
  <2>1. \A b \in Waiting(frames) : b \in Waiting(frames') \cup {insert'} \/ b \notin attached'
    BY <1>2, <1>5
  <2>2. QED
    BY <1>2, <1>4, <2>1, EndedNext
<1>8. ~Leaves[pc]
  <2>1. ast[pc].op \notin Returns \cup {"break"} /\ ~JoinsArms(pc)
    BY <1>3 DEF Returns, JoinsArms
  <2>2. QED
    BY <1>1, <2>1, LeavesIs DEF Source
<1>9. ~Spoiled(code', insert') /\ (HasTerminator(code', insert') <=> Leaves[pc' - 1])
  <2>1. code'[insert'] = <<>>
    BY <1>1, <1>2, <1>4, <1>6 DEF Grows, Elsewhere
  <2>2. ~Spoiled(code', insert') /\ ~HasTerminator(code', insert')
    BY <2>1, EmptyBlock
  <2>3. QED
    BY <1>1, <1>8, <2>2
<1>10. ASSUME NEW k \in DOMAIN frames', IsIf(frames'[k])
       PROVE  Joined(frames'[k], code', pc')
  <2>1. k \in DOMAIN frames /\ IsIf(frames[k])
    BY <1>5, <1>10 DEF IsIf
  <2>2. CASE k # n
    <3>1. frames[k].m \notin Joins
      BY <1>6, <2>1, <2>2, IfHere DEF Joins, n
    <3>2. Joined(frames[k], code', pc')
      BY <1>4, <2>1, <2>2, <3>1, JoinedKept DEF n
    <3>3. QED
      BY <1>5, <2>1, <2>2, <3>2
  <2>3. CASE k = n
    <3>1. Joined(Top, code, pc)
      BY <1>4, <1>6, <2>1, <2>3 DEF Straight
    <3>2. pc # 0 /\ pc < pc' /\ ~(pc < pc)
      BY <1>1
    <3>3. ~Mentions(code, Top.m)
      BY <1>3, <3>1, <3>2 DEF Joined
    <3>4. ~Mentions(code', Top.m) <=> Leaves[pc - 1]
      BY <1>4, <3>3 DEF Joins
    <3>5. frames'[k].item = Top.item /\ frames'[k].m = Top.m
      BY <1>5, <1>6, <2>1, <2>3
    <3>6. QED
      BY <1>3, <3>2, <3>4, <3>5 DEF Joined
  <2>4. QED
    BY <2>2, <2>3
<1>11. QED
  BY <1>7, <1>9, <1>10 DEF Straight

LEMMA EndIfStraight ==
  ASSUME Going, Sofar(pc'), EndIf
  PROVE  Straight(frames', attached', insert', Ret', code', pc')
<1> DEFINE dead == Unused(code', Top.m)
           removed == IF ast[Top.item].els = 0 THEN {Top.f} ELSE {}
<1>1. /\ Base /\ Typed /\ Source /\ Walked /\ Generate /\ pc # 1 /\ pc \in Nat /\ pc \in DOMAIN ast
      /\ pc' = pc + 1 /\ pc' - 1 = pc
      /\ nblocks \in Nat /\ attached \subseteq 1..nblocks /\ insert \in attached
  BY Onward DEF Going
<1>2. /\ At("end") /\ ast[Top.item].op = "if" /\ IsIf(Top) /\ frames' = Pop /\ Ret' = Ret
      /\ code' = JoinArm(code, Top.head, Top.m)
      /\ attached' = attached \ (removed \cup IF dead THEN {Top.m} ELSE {})
      /\ insert' = IF dead THEN insert ELSE Top.m
  BY DEF EndIf, IsIf, Ret
<1>3. /\ Straight(frames, attached, insert, Ret, code, pc)
      /\ ~Spoiled(code, insert) /\ (HasTerminator(code, insert) <=> Leaves[pc - 1])
      /\ Ended(code', insert) /\ Grows(insert)
      /\ Leaves[pc - 1] => UNCHANGED code
      /\ \A t : Mentions(code', t) <=> Mentions(code, t) \/ t \in Joins
  BY <1>1, <1>2, StraightHere, ArmJoins
<1>4. /\ \A k \in DOMAIN frames' :
           k \in DOMAIN frames /\ k # Len(frames) /\ frames'[k] = frames[k]
      /\ \A b : b \in Waiting(frames) => b \in Waiting(frames') \/ b \in Waits(Top)
  BY <1>2, Popped
<1>5. dead <=> ~Mentions(code', Top.m)
  BY UnusedIs
<1>6. /\ Top = frames[Len(frames)] /\ Len(frames) \in DOMAIN frames
      /\ Ends(Top) = {Top.f, Top.m} /\ Top.m # Top.head /\ Top.m \in Uses(Top)
      /\ Top.m \in attached /\ Top.m # insert /\ code[Top.m] = <<>>
  BY <1>1, <1>2, TopUses DEF Split
<1>7. /\ ast[Top.item].els # 0 => Top.f = Top.head
      /\ dead <=> Leaves[pc]
  <2>1. Joined(Top, code, pc)
    BY <1>2, <1>3, <1>6 DEF Straight
  <2>2. CASE ast[Top.item].els = 0 /\ ~JoinsArms(pc)
    <3>1. Mentions(code', Top.m)
      BY <1>3, <2>1, <2>2 DEF Joined
    <3>2. ast[pc].op \notin Returns \cup {"break"}
      BY <1>2 DEF At, Returns
    <3>3. ~Leaves[pc]
      BY <1>1, <2>2, <3>2, LeavesIs DEF Source
    <3>4. QED
      BY <1>5, <2>2, <3>1, <3>3
  <2>3. CASE /\ ast[Top.item].els = ast[pc].opener /\ ast[Top.item].els # 0
             /\ ast[Top.item].els < pc /\ JoinsArms(pc)
    <3>1. ~Mentions(code, Top.m) <=> Leaves[ast[pc].opener - 1]
      BY <2>1, <2>3 DEF Joined
    <3>2. ~Mentions(code', Top.m) <=> Leaves[ast[pc].opener - 1] /\ Leaves[pc - 1]
      BY <1>3, <3>1 DEF Joins
    <3>3. Leaves[pc] <=> Leaves[ast[pc].opener - 1] /\ Leaves[pc - 1]
      BY <1>1, <2>3, LeavesIs DEF Source
    <3>4. Begun(Top.item, pc)
      BY <2>3 DEF Begun
    <3>5. Top.f = Top.head
      BY <1>1, <1>2, <3>4, TopUses DEF Split
    <3>6. QED
      BY <1>5, <3>2, <3>3, <3>5
  <2>4. QED
    BY <1>1, <1>2, <2>2, <2>3, EndTop
<1> HIDE DEF dead
<1>8. \A b \in Waits(Top) : b = Top.m \/ b \in removed
  BY <1>6, <1>7 DEF Waits
<1>9. \A b \in attached' \ (Waiting(frames') \cup {insert', Ret'}) : Ended(code', b)
  <2>1. \A b \in Waiting(frames) : b \in Waiting(frames') \cup {insert'} \/ b \notin attached'
    <3>1. \A b \in Waits(Top) : b = insert' \/ b \notin attached'
      BY <1>2, <1>8
    <3>2. QED
      BY <1>4, <3>1
  <2>2. \A b \in attached' : b \in attached
    BY <1>2
  <2>3. QED
    BY <1>2, <1>3, <2>1, <2>2, EndedNext
<1>10. ~Spoiled(code', insert') /\ (HasTerminator(code', insert') <=> Leaves[pc])
  <2>1. CASE dead
    <3>1. Ended(code', insert') /\ Leaves[pc]
      BY <1>2, <1>3, <1>7, <2>1
    <3>2. QED
      BY <3>1 DEF Ended
  <2>2. CASE ~dead
    <3>1. code'[insert'] = <<>>
      BY <1>1, <1>2, <1>3, <1>6, <2>2 DEF Grows, Elsewhere
    <3>2. ~Spoiled(code', insert') /\ ~HasTerminator(code', insert')
      BY <3>1, EmptyBlock
    <3>3. QED
      BY <1>7, <2>2, <3>2
  <2>3. QED
    BY <2>1, <2>2
<1>11. ASSUME NEW k \in DOMAIN frames', IsIf(frames'[k])
       PROVE  Joined(frames'[k], code', pc')
  <2>1. k \in DOMAIN frames /\ k # Len(frames) /\ frames'[k] = frames[k] /\ IsIf(frames[k])
    BY <1>4, <1>11
  <2>2. frames[k].m \notin Joins
    BY <1>6, <2>1, IfHere DEF Joins
  <2>3. Joined(frames[k], code', pc')
    BY <1>3, <2>1, <2>2, JoinedKept
  <2>4. QED
    BY <2>1, <2>3
<1>12. QED
  BY <1>1, <1>9, <1>10, <1>11 DEF Straight

LEMMA StraightNext ==
  ASSUME Going, phase' = "gen", Sofar(pc')
  PROVE  Straight(frames', attached', insert', Ret', code', pc')
BY Inside, StatementStraight, BeginIfStraight, BeginElseStraight, EndIfStraight, BeginForStraight,
   EndForStraight

(* At the function itself: one block, empty. *)
LEMMA BeginTrack ==
  ASSUME Base, Generate, NoClosure, pc = 1
  PROVE  TrackNext
<1>1. /\ Source /\ Typed /\ pc \in DOMAIN ast /\ pc \in Nat /\ pc' = pc + 1
      /\ Apart(frames, attached, insert, Rets, code, pc)
      /\ nblocks = 0 /\ nblocks \in Nat /\ attached \subseteq 1..nblocks /\ frames = <<>>
  BY Setting DEF Base
<1>2. BeginFunction /\ ast[pc].op = "fn"
  <2>1. ast[pc].op = "fn"
    BY <1>1 DEF Source
  <2>2. QED
    BY <2>1 DEF Generate, BeginFunction, EndFunction, Statement, Return, ReturnValue,
         Break, BeginIf, BeginElse, EndIf, BeginFor, EndFor, At
<1> DEFINE fr == [item |-> pc, head |-> nblocks + 1, f |-> 0, m |-> 0]
<1>3. /\ frames' = Append(frames, fr) /\ attached' = attached \cup {nblocks + 1}
      /\ insert' = nblocks + 1 /\ UNCHANGED retBlock
  BY <1>2 DEF BeginFunction
<1>4. fr \in Frame /\ fr.item = pc
  BY <1>1 DEF Frame
<1> HIDE DEF fr
<1>5. attached' = {1} /\ insert' = 1 /\ frames' = <<fr>>
  <2>1. attached = {}
    BY <1>1
  <2>2. QED
    BY <1>1, <1>3, <2>1
<1>6. code'[insert'] = <<>>
  BY <1>1, <1>2, <1>3, BeginFunctionWrites
<1>7. Ret = 0 /\ Ret' = 0
  <2>1. 1 \in 1..MaxItems /\ retBlock[1] <= nblocks /\ retBlock[1] \in Nat
    BY <1>1, BodyAssumption DEF BodyAssumption, Typed, TypeOK, FrameInv
  <2>2. QED
    BY <1>1, <1>3, <2>1 DEF Ret
<1>8. ~HasRet(pc')
  <2>1. \A j \in 1..(pc' - 1) : j = 1
    BY <1>1
  <2>2. ast[1].op = "fn"
    BY <1>1 DEF Source
  <2>3. QED
    BY <2>1, <2>2 DEF HasRet
<1>9. Sofar(pc')
  BY <1>1 DEF Sofar
<1>10. ~Leaves[pc' - 1]
  <2>1. ast[pc].op \notin Returns \cup {"break"} /\ ~JoinsArms(pc)
    BY <1>2 DEF Returns, JoinsArms
  <2>2. ~Leaves[pc]
    BY <1>1, <2>1, LeavesIs DEF Source
  <2>3. pc' - 1 = pc
    BY <1>1
  <2>4. QED
    BY <2>2, <2>3
<1>11. Straight(frames', attached', insert', Ret', code', pc')
  <2>1. \A b \in attached' \ (Waiting(frames') \cup {insert', Ret'}) : Ended(code', b)
    BY <1>5
  <2>2. ~Spoiled(code', insert') /\ (HasTerminator(code', insert') <=> Leaves[pc' - 1])
    BY <1>6, <1>10, EmptyBlock
  <2>3. \A k \in DOMAIN frames' : frames'[k] = fr
    BY <1>5
  <2>4. ~IsIf(fr)
    BY <1>2, <1>4 DEF IsIf
  <2>5. \A k \in DOMAIN frames' : ~IsIf(frames'[k])
    BY <2>3, <2>4
  <2>6. QED
    BY <2>1, <2>2, <2>5 DEF Straight
<1>12. RetKept(frames', insert', Ret', code', pc')
  BY <1>7, <1>8 DEF RetKept
<1>13. QED
  BY <1>9, <1>11, <1>12 DEF TrackNext, Track

LEMMA GenTracked ==
  ASSUME Base, Generate, Tracked
  PROVE  Tracked'
<1>1. ast' = ast /\ phase = "gen" /\ pc \in Nat /\ pc # 0 /\ (NoClosure' <=> NoClosure)
  <2>1. ast' = ast /\ phase = "gen" /\ pc \in 1..MaxItems
    BY GenFacts DEF Base
  <2>2. QED
    BY <2>1, BodyAssumption DEF NoClosure, BodyAssumption
<1>2. SUFFICES ASSUME NoClosure
               PROVE  /\ Owned' /\ Looped'
                      /\ Running' => Track(frames, attached, insert, Ret, code, pc)'
  BY <1>1 DEF Tracked
<1>3. Owned' /\ Looped'
  BY <1>2, GenOwned, GenLooped DEF Tracked
<1>4. ASSUME Running'
      PROVE  TrackNext
  <2>1. phase' = "gen"
    BY <1>4 DEF Running
  <2>2. CASE pc = 1
    BY <1>2, <2>2, BeginTrack
  <2>3. CASE pc # 1
    <3>1. Going
      <4>1. Running
        BY <1>1, <2>3 DEF Running
      <4>2. QED
        BY <1>2, <2>3, <4>1 DEF Going, Tracked
    <3>2. QED
      BY <2>1, <3>1, RetStays, StraightNext, CrookedNext DEF TrackNext, Track
  <2>4. QED
    BY <2>2, <2>3
<1>5. QED
  BY <1>1, <1>3, <1>4, TrackPrimed

-----------------------------------------------------------------------------
(***************************************************************************)
(* The end of the function.  Its body was its last open block, so nothing  *)
(* is waited for any more, and no item is left.                            *)
(***************************************************************************)
LEMMA FunctionEnds ==
  ASSUME Base, Generate, phase' = "done"
  PROVE  /\ EndFunction /\ ast[pc].op = "end" /\ pc # 1
         /\ Top.item = 1 /\ ast[1].op = "fn" /\ ast[pc].opener = 1
         /\ Open(ast, pc) = {1} /\ pc = Len(ast) /\ pc \in Nat
         /\ Waiting(frames) = {}
<1>1. /\ Typed /\ Source /\ Walked /\ pc \in DOMAIN ast /\ pc \in Nat
  BY Setting DEF Base
<1>2. EndFunction /\ ast[Top.item].op = "fn"
  BY DEF Generate, BeginFunction, EndFunction, Statement, Return, ReturnValue, Break, BeginIf,
         BeginElse, EndIf, BeginFor, EndFor, Step
<1>3. At("end") /\ ast[pc].op = "end"
  BY <1>2 DEF EndFunction, At
<1>4. pc # 1 /\ Top.item = ast[pc].opener
  BY <1>1, <1>2, <1>3, EndTop
<1>5. Top.item = 1 /\ ast[1].op = "fn"
  <2>1. Top.item \in DOMAIN ast
    BY <1>1, <1>4, FramesAre
  <2>2. QED
    BY <1>1, <1>2, <2>1 DEF Typed, ParseInv
<1>6. Open(ast, pc) = {1}
  <2>1. Inner(ast, pc, 1)
    <3>1. ast[pc].opener = 1
      BY <1>4, <1>5
    <3>2. ast[pc].opener # 0 => Inner(ast, pc, ast[pc].opener)
      BY <1>1 DEF Source, Nested
    <3>3. QED
      BY <3>1, <3>2
  <2>2. 1 \in Open(ast, pc) /\ \A k \in Open(ast, pc) : k <= 1
    BY <2>1 DEF Inner
  <2>3. \A k \in Open(ast, pc) : k \in Nat /\ k >= 1
    BY <1>1 DEF Open
  <2>4. \A k \in Open(ast, pc) : k = 1
    BY <2>2, <2>3
  <2>5. QED
    BY <2>2, <2>4
<1>7. pc = Len(ast)
  <2>1. Open(ast, pc + 1) = {}
    <3>1. ast[pc].op \notin Blocks
      BY <1>3 DEF Blocks
    <3>2. Open(ast, pc + 1) =
            (Open(ast, pc) \cup IF ast[pc].op \in Blocks THEN {pc} ELSE {}) \ {ast[pc].opener}
      BY <1>1, OpenNext DEF Source
    <3>3. QED
      BY <1>4, <1>5, <1>6, <3>1, <3>2
  <2>2. ~(pc + 1 \in DOMAIN ast)
    <3>1. pc + 1 # 1
      <4>1. pc \in 1..Len(ast)
        BY <1>1 DEF Source
      <4>2. QED
        BY <1>1, <4>1
    <3>2. pc + 1 \in DOMAIN ast => \E j \in DOMAIN ast : Inner(ast, pc + 1, j)
      BY <1>1, <3>1 DEF Source, Nested
    <3>3. QED
      BY <2>1, <3>2 DEF Inner
  <2>3. Len(ast) \in Nat /\ DOMAIN ast = 1..Len(ast)
    BY <1>1 DEF Source
  <2>4. QED
    BY <1>1, <2>2, <2>3
<1>8. Waiting(frames) = {}
  <2>1. /\ Len(frames) \in Nat /\ Top = frames[Len(frames)] /\ DOMAIN frames = 1..Len(frames)
        /\ Len(frames) \in DOMAIN frames
        /\ \A k \in DOMAIN frames : frames[k].item \in DOMAIN ast /\ frames[k].item \in Nat
        /\ \A j, k \in DOMAIN frames : j < k => frames[j].item < frames[k].item
    BY <1>1, <1>4, FramesAre
  <2>2. ASSUME NEW k \in DOMAIN frames
        PROVE  k = Len(frames)
    <3>1. k < Len(frames) => frames[k].item < 1
      BY <1>5, <2>1
    <3>2. frames[k].item \in 1..Len(ast)
      BY <1>1, <2>1 DEF Source
    <3>3. ~(k < Len(frames)) /\ k \in 1..Len(frames)
      BY <2>1, <3>1, <3>2
    <3>4. QED
      BY <2>1, <3>3
  <2>3. Waits(Top) = {}
    BY <1>2 DEF Waits, Ends, IsIf, IsFor
  <2>4. QED
    BY <2>1, <2>2, <2>3 DEF Waiting
<1>9. QED
  BY <1>1, <1>2, <1>3, <1>4, <1>5, <1>6, <1>7, <1>8

(* The verifier's demands, where all blocks are one function's own. *)
LEMMA WellFormedNext ==
  ASSUME TypeOK', Linked', Owned'
  PROVE  WellFormed' <=> \A b \in attached' : Ended(code', b)
<1>1. /\ code' \in Code(nblocks') /\ attached' \subseteq 1..nblocks'
      /\ \A b \in 1..nblocks' : owner'[b] = 1
      /\ \A b \in DOMAIN code' : \A k \in DOMAIN code'[b] : Named(code'[b][k]) \subseteq attached'
  BY DEF TypeOK, Code, Linked, BranchTargetsAttached, Owned, Named
<1>2. WellFormed' <=>
        \A b \in attached' :
          /\ HasTerminator(code', b)
          /\ \A k \in 1..(Len(code'[b]) - 1) : code'[b][k].op \notin Terminators
          /\ \A t \in Named(code'[b][Len(code'[b])]) : t \in attached' /\ owner'[t] = owner'[b]
  BY DEF WellFormed, BlockOK, HasTerminator, Named
<1>3. ASSUME NEW b \in attached', HasTerminator(code', b)
      PROVE  \A t \in Named(code'[b][Len(code'[b])]) : t \in attached' /\ owner'[t] = owner'[b]
  <2>1. b \in DOMAIN code' /\ code'[b] \in Seq(Instr) /\ b \in 1..nblocks'
    BY <1>1 DEF Code
  <2>2. Len(code'[b]) > 0
    BY <1>3 DEF HasTerminator
  <2>3. Len(code'[b]) \in DOMAIN code'[b]
    BY <2>1, <2>2
  <2>4. Named(code'[b][Len(code'[b])]) \subseteq attached'
    BY <1>1, <2>1, <2>3
  <2>5. QED
    BY <1>1, <2>1, <2>4
<1>4. QED
  BY <1>2, <1>3 DEF Ended, Spoiled

LEMMA CleanAtEnd ==
  ASSUME ast \in Seq(Item), NoClosure, NEW p \in Nat, p = Len(ast), p > 1,
         ast[p].op = "end", ast[ast[p].opener].op # "for"
  PROVE  Clean <=> Sofar(p) /\ (HasRet(p) => Leaves[p - 1])
<1>1. /\ \A i \in 1..(p - 1) : i \in 1..(p - 2) \/ i = p - 1
      /\ 1..(p - 2) \subseteq 1..(p - 1)
      /\ p - 1 + 1 = p
  OBVIOUS
<1>2. Follows(p - 1)
  BY <1>1 DEF Follows
<1>3. (\A i \in 1..(p - 1) : Leaves[i] => Follows(i)) <=> Sofar(p)
  BY <1>1, <1>2 DEF Sofar
<1>4. QED
  BY <1>3 DEF Clean, Follows

(* The function ends well formed exactly for a clean source. *)
LEMMA EndWellFormed ==
  ASSUME Base, Generate, Tracked, Closed, phase' = "done", Typed', Linked', Tracked'
  PROVE  WellFormed' <=> Clean
<1>1. /\ EndFunction /\ ast[pc].op = "end" /\ pc # 1
      /\ Top.item = 1 /\ ast[1].op = "fn" /\ ast[pc].opener = 1
      /\ Open(ast, pc) = {1} /\ pc = Len(ast) /\ pc \in Nat
      /\ Waiting(frames) = {}
  BY FunctionEnds
<1>2. /\ Source /\ Typed /\ phase = "gen" /\ pc \in DOMAIN ast /\ ast' = ast /\ ast \in Seq(Item)
      /\ attached \subseteq 1..nblocks /\ insert \in attached /\ pc > 1
  <2>1. Typed /\ phase = "gen" /\ pc \in 1..Len(ast)
    BY GenFacts DEF Base
  <2>2. pc > 1
    BY <1>1, <2>1
  <2>3. QED
    BY <1>1, <2>1, <2>2, Setting DEF Source
<1>3. SomeSpoiled(code', attached') => ~WellFormed'
  BY DEF SomeSpoiled, Spoiled, WellFormed, BlockOK
<1>4. SomeSpoiled(code, attached) => ~WellFormed'
  BY <1>3, GenKindred DEF KeepsKindred
<1>5. CASE ~NoClosure
  <2>1. ~Clean
    BY <1>5 DEF Clean
  <2>2. SomeSpoiled(code, attached)
    <3>1. PICK i \in DOMAIN ast : ast[i].op = "closure"
      BY <1>5 DEF NoClosure
    <3>2. i \in 1..(pc - 1) /\ i \notin Open(ast, pc)
      <4>1. i \in 1..pc /\ i # pc /\ i # 1
        BY <1>1, <1>2, <3>1
      <4>2. QED
        BY <1>1, <4>1
    <3>3. QED
      BY <1>2, <3>1, <3>2 DEF Closed
  <2>3. QED
    BY <1>4, <2>1, <2>2
<1>6. CASE NoClosure
  <2>1. Going /\ Owned'
    <3>1. Running
      BY <1>2 DEF Running
    <3>2. NoClosure'
      BY <1>2, <1>6 DEF NoClosure
    <3>3. QED
      BY <1>1, <1>6, <3>1, <3>2 DEF Tracked, Going
  <2>2. WellFormed' <=> \A b \in attached' : Ended(code', b)
    BY <2>1, WellFormedNext DEF Typed
  <2>3. Clean <=> Sofar(pc) /\ (HasRet(pc) => Leaves[pc - 1])
    BY <1>1, <1>2, <1>6, CleanAtEnd
  <2>4. CASE ~Sofar(pc)
    <3>1. ~IsFor(Top)
      BY <1>1 DEF IsFor
    <3>2. SomeSpoiled(code, attached)
      BY <2>1, <2>4, <3>1 DEF Going, Track, Crooked, Top
    <3>3. QED
      BY <1>4, <2>3, <2>4, <3>2
  <2>5. CASE Sofar(pc)
    <3>1. /\ \A b \in attached \ {insert, Ret} : Ended(code, b)
          /\ ~Spoiled(code, insert) /\ (HasTerminator(code, insert) <=> Leaves[pc - 1])
      BY <1>1, <2>1, <2>5 DEF Going, Track, Straight
    <3>2. attached' = attached /\ Writes(RetEnd, TRUE, {})
      BY <1>1, <1>2, EndFunctionWrites DEF EndFunction
    <3>3. RetEnd = (IF Ret # 0 THEN Ret ELSE insert) /\ (Ret # 0 <=> HasRet(pc))
      BY <1>1, <2>1, RetHere DEF RetEnd, Ret
    <3>4. \A b \in attached : b # RetEnd => code'[b] = code[b]
      BY <1>2, <3>2 DEF Writes, Elsewhere
    <3>5. \A b \in attached \ {insert, Ret} : Ended(code', b)
      <4>1. \A b \in attached \ {insert, Ret} : code'[b] = code[b]
        BY <3>3, <3>4
      <4>2. QED
        BY <3>1, <4>1, SameBlock DEF Ended
    <3>6. CASE Ret # 0
      <4>1. code[Ret] = <<>> /\ Ret # insert /\ Ret \in attached
        BY <2>1, <3>6, RetHere
      <4>2. Ended(code', Ret)
        <5>1. ~HasTerminator(code, Ret) /\ ~Spoiled(code, Ret)
          BY <4>1, EmptyBlock
        <5>2. QED
          BY <3>2, <3>3, <3>6, <5>1 DEF Writes, Written, Ended
      <4>3. Ended(code', insert) <=> Leaves[pc - 1]
        <5>1. code'[insert] = code[insert]
          BY <1>2, <3>3, <3>4, <3>6, <4>1
        <5>2. QED
          BY <3>1, <5>1, SameBlock DEF Ended
      <4>4. QED
        BY <1>2, <2>2, <2>3, <2>5, <3>2, <3>3, <3>5, <3>6, <4>2, <4>3
    <3>7. CASE Ret = 0
      <4>1. ~Leaves[pc - 1]
        <5>1. pc \in 1..(Len(ast) + 1) /\ pc - 1 \in 1..(pc - 1) /\ pc - 1 \in DOMAIN ast
              /\ pc - 1 + 1 = pc /\ 1..(pc - 1 - 1) \subseteq 1..(pc - 1)
          BY <1>1, <1>2
        <5>2. \A i \in 1..(pc - 1) : ast[i].op = "break" => Loops(i) # {}
          BY <1>2, <2>1 DEF Going, Looped
        <5>3. Leaves[pc - 1] => HasRet(pc - 1) \/ Loops(pc - 1) # {}
          BY <1>2, <5>1, <5>2, LeavesOpen
        <5>4. ~HasRet(pc - 1)
          BY <3>3, <3>7, <5>1 DEF HasRet
        <5>5. Leaves[pc - 1] => Loops(pc) = Loops(pc - 1)
          BY <1>2, <5>1, LeavesSame
        <5>6. Loops(pc) = {}
          BY <1>1 DEF Loops
        <5>7. QED
          BY <5>3, <5>4, <5>5, <5>6
      <4>2. Ended(code', insert)
        BY <3>1, <3>2, <3>3, <3>7, <4>1 DEF Writes, Written, Ended
      <4>3. 0 \notin attached
        BY <1>2
      <4>4. \A b \in attached' : Ended(code', b)
        BY <3>2, <3>5, <3>7, <4>2, <4>3
      <4>5. QED
        BY <2>2, <2>3, <2>5, <3>3, <3>7, <4>4
    <3>8. QED
      BY <3>6, <3>7
  <2>6. QED
    BY <2>4, <2>5
<1>7. QED
  BY <1>5, <1>6

LEMMA GenWellFormed ==
  ASSUME Base, Generate, Tracked, Closed, Typed', Linked', Tracked'
  PROVE  WellFormedIffClean'
<1>1. Clean' <=> Clean
  <2>1. ast' = ast
    BY GenFacts DEF Base
  <2>2. Leaves' = Leaves /\ \A i : HasRet(i)' <=> HasRet(i)
    BY <2>1, SourceSame
  <2>3. HasRet(Len(ast))' <=> HasRet(Len(ast))
    BY <2>1 DEF HasRet, AsksForRet
  <2>4. QED
    BY <2>1, <2>2, <2>3 DEF Clean, NoClosure
<1>2. phase' = "done" => (WellFormed' <=> Clean)
  BY EndWellFormed
<1>3. QED
  BY <1>1, <1>2 DEF WellFormedIffClean

-----------------------------------------------------------------------------
(***************************************************************************)
(* The inductive invariant.  WellFormedIffClean speaks of the end of the   *)
(* generation only; Tracked and Closed say what it means at every item     *)
(* before it, and Base which blocks the frames may still use.              *)
(***************************************************************************)
Whole == Base /\ Tracked /\ Closed /\ WellFormedIffClean

(* Before the generation nothing is asked. *)
Idle ==
  /\ phase \in {"parse", "gen"} /\ pc = 1 /\ frames = <<>> /\ insert = 0
  /\ nfuncs = 0 /\ nblocks = 0 /\ Rets \subseteq attached

LEMMA IdleWhole ==
  ASSUME Idle
  PROVE  Kindred /\ Tracked /\ Closed /\ WellFormedIffClean
<1>1. ~Running /\ phase # "done"
  BY DEF Idle, Running
<1>2. Waiting(frames) = {}
  BY DEF Idle, Waiting
<1>3. Apart(frames, attached, insert, Rets, code, pc)
  BY <1>2 DEF Idle, Apart
<1>4. Kindred
  BY <1>1, <1>3 DEF Idle, Kindred
<1>5. Owned /\ Looped /\ Closed
  BY DEF Idle, Owned, Looped, Closed
<1>6. QED
  BY <1>1, <1>4, <1>5 DEF Tracked, WellFormedIffClean

LEMMA IdleNext ==
  ASSUME Idle'
  PROVE  Kindred' /\ Tracked' /\ Closed' /\ WellFormedIffClean'
<1>1. ~Running' /\ phase' # "done"
  BY DEF Idle, Running
<1>2. Waiting(frames)' = {}
  BY DEF Idle, Waiting
<1>3. Apart(frames, attached, insert, Rets, code, pc)'
  BY <1>2 DEF Idle, Apart
<1>4. Kindred'
  BY <1>1, <1>3 DEF Idle, Kindred
<1>5. Owned' /\ Looped' /\ Closed'
  BY DEF Idle, Owned, Looped, Closed
<1>6. QED
  BY <1>1, <1>4, <1>5 DEF Tracked, WellFormedIffClean

LEMMA InitWhole == Init => Whole
<1> SUFFICES ASSUME Init PROVE Whole
  OBVIOUS
<1>1. Typed /\ Linked /\ Nesting
  BY InitTyped, InitLinked, InitNesting
<1>2. Elses
  <2>1. PICK void \in VoidFns : ast = <<NewItem("fn", 0, void)>>
    BY DEF Init, BodyInit
  <2>2. DOMAIN ast = {1} /\ ast[1].els = 0 /\ ast[1].op = "fn"
    BY <2>1 DEF NewItem
  <2>3. QED
    BY <2>2 DEF Elses
<1>3. Idle
  BY DEF Init, BodyInit, GenInit, Idle, Rets
<1>4. QED
  BY <1>1, <1>2, <1>3, IdleWhole DEF Whole, Base

LEMMA ParseWhole ==
  ASSUME Whole, BodyNext, UNCHANGED genVars
  PROVE  Elses' /\ Kindred' /\ Tracked' /\ Closed' /\ WellFormedIffClean'
<1>1. Typed /\ Elses /\ Bracketed /\ Kindred /\ phase = "parse"
  BY ParseFacts DEF Whole, Base, Nesting
<1>2. Elses'
  BY <1>1, ParseElses
<1>3. pc = 1 /\ frames = <<>>
  <2>1. pc = 1 /\ Len(frames) = 0 /\ frames \in Seq(Frame)
    BY <1>1 DEF Typed, TypeOK, FrameInv
  <2>2. QED
    BY <2>1
<1>4. nfuncs = 0 /\ nblocks = 0 /\ Rets \subseteq attached /\ insert = 0
  <2>1. nfuncs = 0 /\ nblocks = 0 /\ Rets \subseteq attached
    BY <1>1, <1>3 DEF Kindred, Apart
  <2>2. insert \in 0..nblocks
    BY <1>1 DEF Typed, TypeOK
  <2>3. QED
    BY <2>1, <2>2
<1>5. phase' \in {"parse", "gen"}
  BY <1>1 DEF BodyNext, ParseSimple, ParseReturn, ParseOpen, ParseElse, ParseClose
<1>6. Idle'
  BY <1>3, <1>4, <1>5 DEF Idle, genVars, Rets
<1>7. QED
  BY <1>2, <1>6, IdleNext

LEMMA StayWhole ==
  ASSUME Whole, UNCHANGED vars
  PROVE  Elses' /\ Kindred' /\ Tracked' /\ Closed' /\ WellFormedIffClean'
<1>1. /\ ast' = ast /\ phase' = phase /\ pc' = pc /\ nfuncs' = nfuncs /\ nblocks' = nblocks
      /\ owner' = owner /\ code' = code /\ attached' = attached /\ insert' = insert
      /\ frames' = frames /\ retBlock' = retBlock
  BY DEF vars, bodyVars, genVars
<1>2. Elses'
  BY <1>1 DEF Whole, Base, Elses
<1>3. Kindred'
  <2>1. Apart(frames, attached, insert, Rets, code, pc)
    BY DEF Whole, Base, Kindred
  <2>2. Apart(frames, attached, insert, Rets, code, pc)'
    <3>1. Rets' = Rets
      BY <1>1 DEF Rets
    <3>2. Apart(frames', attached', insert', Rets', code', pc')
      BY <1>1, <2>1, <3>1
    <3>3. QED
      BY <1>1, <3>2, ApartPrimed
  <2>3. (Running => insert \in attached)' /\ (pc = 1 => nfuncs = 0 /\ nblocks = 0)'
    BY <1>1 DEF Whole, Base, Kindred, Running
  <2>4. QED
    BY <2>2, <2>3 DEF Kindred
<1>4. Tracked'
  <2>1. Tracked /\ (NoClosure' <=> NoClosure) /\ (Running' <=> Running)
    BY <1>1 DEF Whole, NoClosure, Running
  <2>2. NoClosure => Owned' /\ Looped'
    BY <1>1, <2>1 DEF Tracked, Owned, Looped, Loops
  <2>3. NoClosure /\ Running => TrackNext
    BY <1>1, <2>1 DEF Tracked, TrackNext, Ret
  <2>4. NoClosure /\ Running => Track(frames, attached, insert, Ret, code, pc)'
    BY <1>1, <2>3, TrackPrimed
  <2>5. QED
    BY <2>1, <2>2, <2>4 DEF Tracked
<1>5. Closed'
  BY <1>1 DEF Whole, Closed, SomeSpoiled, Spoiled
<1>6. WellFormedIffClean'
  <2>1. WellFormed' <=> WellFormed
    BY <1>1 DEF WellFormed, BlockOK, HasTerminator
  <2>2. Leaves' = Leaves /\ \A i : HasRet(i)' <=> HasRet(i)
    BY <1>1, SourceSame
  <2>3. HasRet(Len(ast))' <=> HasRet(Len(ast))
    BY <1>1 DEF HasRet, AsksForRet
  <2>4. Clean' <=> Clean
    BY <1>1, <2>2, <2>3 DEF Clean, NoClosure
  <2>5. QED
    BY <1>1, <2>1, <2>4 DEF Whole, WellFormedIffClean
<1>7. QED
  BY <1>2, <1>3, <1>4, <1>5, <1>6

LEMMA NextWhole == Whole /\ [Next]_vars => Whole'
<1> SUFFICES ASSUME Whole, [Next]_vars PROVE Whole'
  OBVIOUS
<1>1. Base /\ Tracked /\ Closed /\ Typed /\ Linked /\ Nesting /\ Elses
  BY DEF Whole, Base
<1>2. Typed' /\ Linked' /\ Nesting'
  BY <1>1, NextTyped, NextLinked, NextNesting
<1>3. Elses' /\ Kindred' /\ Tracked' /\ Closed' /\ WellFormedIffClean'
  <2>1. CASE BodyNext /\ UNCHANGED genVars
    BY <2>1, ParseWhole
  <2>2. CASE Generate
    <3>1. Elses'
      <4>1. ast' = ast
        BY <1>1, <2>2, GenFacts
      <4>2. QED
        BY <1>1, <4>1 DEF Elses
    <3>2. Kindred' /\ Tracked' /\ Closed'
      BY <1>1, <2>2, GenKindred, GenTracked, GenClosed DEF KeepsKindred
    <3>3. WellFormedIffClean'
      BY <1>1, <1>2, <2>2, <3>2, GenWellFormed
    <3>4. QED
      BY <3>1, <3>2, <3>3
  <2>3. CASE UNCHANGED vars
    BY <2>3, StayWhole
  <2>4. QED
    BY <2>1, <2>2, <2>3 DEF Next
<1>4. QED
  BY <1>2, <1>3 DEF Whole, Base

(***************************************************************************)
(* The function generated for a source passes the LLVM verifier exactly    *)
(* when the source is clean: no closure, nothing after a statement control *)
(* does not get past, no falling off the end once an if has a return.      *)
(* Function::gen_code drops the verifier's answer (function.rs:103), so    *)
(* the theorem says which programs reach the later passes as invalid IR.   *)
(***************************************************************************)
THEOREM WellFormedExactlyWhenClean == Spec => []WellFormedIffClean
<1>1. Init => Whole
  BY InitWhole
<1>2. Whole /\ [Next]_vars => Whole'
  BY NextWhole
<1>3. Whole => WellFormedIffClean
  BY DEF Whole
<1>4. QED
  BY <1>1, <1>2, <1>3, PTL DEF Spec
=============================================================================

-------------------------- MODULE ControlFlow_proofs --------------------------
(***************************************************************************)
(* The parser and the code generator keep the types of their state for     *)
(* every bound MaxItems and MaxDepth.  Typed is the inductive invariant:   *)
(* it adds to TypeOK that the parser's and the generator's stacks are what *)
(* their recursion makes them and name items and blocks that exist.  On it *)
(* rests that no instruction is left naming a block that was removed.      *)
(***************************************************************************)
EXTENDS ControlFlow, SequenceTheorems, TLAPS

(* Parsing: the open blocks are items of the AST and leave room for their  *)
(* ends; the function's item is the first.                                 *)
ParseInv ==
  /\ \A k \in DOMAIN opened : opened[k] \in 1..Len(ast)
  /\ phase = "parse" => Len(opened) > 0 /\ Len(ast) + Len(opened) <= MaxItems
  /\ \A i \in DOMAIN ast : ast[i].op = "fn" <=> i = 1

(* A frame of the calls under way, over the first n blocks. *)
FrameOK(fr, n) ==
  /\ fr \in Frame
  /\ fr.item \in 1..Len(ast)
  /\ fr.head \in 1..n
  /\ ast[fr.item].op = "if" => fr.f \in 1..n /\ fr.m \in 1..n
  /\ ast[fr.item].op = "for" => fr.m \in 1..n

(* The recursion of gen_code: the function's own call is the outermost.    *)
FrameInv ==
  /\ \A k \in DOMAIN frames :
       FrameOK(frames[k], nblocks) /\ (ast[frames[k].item].op = "fn" <=> k = 1)
  /\ phase = "parse" \/ (phase = "gen" /\ pc = 1) => pc = 1 /\ Len(frames) = 0
  /\ phase = "gen" /\ pc # 1 => Len(frames) > 0
  /\ Len(frames) > 0 => currentFunction \in 1..MaxItems /\ insert \in 1..nblocks
  /\ \A i \in 1..MaxItems : retBlock[i] <= nblocks
  /\ \A k \in DOMAIN breakPoints : breakPoints[k] <= nblocks

Typed == TypeOK /\ ParseInv /\ FrameInv

-----------------------------------------------------------------------------
(* The builder's operators keep a function from blocks to instructions. *)
LEMMA EmitType ==
  ASSUME NEW n \in Nat, NEW c \in [1..n -> Seq(Instr)], NEW b, NEW i \in Instr
  PROVE  Emit(c, b, i) \in [1..n -> Seq(Instr)]
<1>1. \A x \in 1..n : c[x] \in Seq(Instr) /\ Append(c[x], i) \in Seq(Instr)
  OBVIOUS
<1>2. QED
  BY <1>1 DEF Emit

LEMMA GrowType ==
  ASSUME nblocks \in Nat, code \in [1..nblocks -> Seq(Instr)], NEW n \in Nat
  PROVE  Grow(code, n) \in [1..(nblocks + n) -> Seq(Instr)]
<1>1. <<>> \in Seq(Instr)
  OBVIOUS
<1>2. \A b \in 1..(nblocks + n) : b <= nblocks => code[b] \in Seq(Instr)
  OBVIOUS
<1>3. QED
  BY <1>1, <1>2 DEF Grow

LEMMA InsType ==
  ASSUME pc \in Nat, NEW op \in Terminators \cup {"inst", "store"},
         NEW yes \in Nat, NEW no \in Nat
  PROVE  Ins(op, yes, no) \in Instr
BY DEF Ins, Instr

LEMMA JoinType ==
  ASSUME NEW n \in Nat, NEW c \in [1..n -> Seq(Instr)], NEW head, NEW m \in Nat,
         pc \in Nat
  PROVE  JoinArm(c, head, m) \in [1..n -> Seq(Instr)]
<1>1. Ins("br", m, 0) \in Instr
  BY InsType DEF Terminators
<1>2. QED
  BY <1>1, EmitType DEF JoinArm

-----------------------------------------------------------------------------
(* The stacks: pushing, popping and updating a sequence, pointwise. *)
LEMMA PushSeq ==
  ASSUME NEW S, NEW s \in Seq(S), NEW e \in S
  PROVE  /\ Append(s, e) \in Seq(S)
         /\ Len(Append(s, e)) = Len(s) + 1
         /\ DOMAIN Append(s, e) = 1..(Len(s) + 1)
         /\ Append(s, e)[Len(s) + 1] = e
         /\ \A k \in DOMAIN s : Append(s, e)[k] = s[k]
BY AppendProperties

LEMMA PopSeq ==
  ASSUME NEW S, NEW s \in Seq(S), Len(s) > 0
  PROVE  /\ SubSeq(s, 1, Len(s) - 1) \in Seq(S)
         /\ Len(SubSeq(s, 1, Len(s) - 1)) = Len(s) - 1
         /\ DOMAIN SubSeq(s, 1, Len(s) - 1) = 1..(Len(s) - 1)
         /\ \A k \in 1..(Len(s) - 1) : SubSeq(s, 1, Len(s) - 1)[k] = s[k]
<1>1. ASSUME NEW n \in Int, n = Len(s) - 1
      PROVE  SubSeq(s, 1, n) \in Seq(S) /\ Len(SubSeq(s, 1, n)) = n
  <2>1. 1 \in Int /\ \A i \in 1..n : s[i] \in S
    BY <1>1
  <2>2. /\ SubSeq(s, 1, n) \in Seq(S)
        /\ Len(SubSeq(s, 1, n)) = IF 1 <= n THEN n - 1 + 1 ELSE 0
    BY <2>1, SubSeqProperties
  <2>3. QED
    BY <2>2, <1>1
<1>2. \A k \in 1..(Len(s) - 1) : SubSeq(s, 1, Len(s) - 1)[k] = s[k]
  OBVIOUS
<1>3. Len(s) - 1 \in Int
  OBVIOUS
<1>4. /\ SubSeq(s, 1, Len(s) - 1) \in Seq(S)
      /\ Len(SubSeq(s, 1, Len(s) - 1)) = Len(s) - 1
  BY <1>1, <1>3
<1>5. DOMAIN SubSeq(s, 1, Len(s) - 1) = 1..Len(SubSeq(s, 1, Len(s) - 1))
  BY <1>4
<1>6. QED
  BY <1>2, <1>4, <1>5

LEMMA PutSeq ==
  ASSUME NEW S, NEW s \in Seq(S), NEW k \in 1..Len(s), NEW e \in S
  PROVE  /\ [s EXCEPT ![k] = e] \in Seq(S)
         /\ Len([s EXCEPT ![k] = e]) = Len(s)
         /\ \A j \in DOMAIN s : [s EXCEPT ![k] = e][j] = IF j = k THEN e ELSE s[j]
BY ExceptSeq

-----------------------------------------------------------------------------
LEMMA InitTyped == Init => Typed
<1> SUFFICES ASSUME Init PROVE Typed
  OBVIOUS
<1> USE BodyAssumption DEF BodyAssumption, Init, BodyInit, GenInit
<1>1. PICK void \in VoidFns : ast = <<NewItem("fn", 0, void)>>
  OBVIOUS
<1>2. NewItem("fn", 0, void) \in Item
  BY DEF NewItem, Item, Ops, Blocks
<1>3. TypeOK
  BY <1>1, <1>2 DEF TypeOK, BodyTypeOK
<1>4. ParseInv
  BY <1>1 DEF ParseInv, NewItem
<1>5. FrameInv
  BY DEF FrameInv
<1>6. QED
  BY <1>3, <1>4, <1>5 DEF Typed

LEMMA NewItemType ==
  ASSUME NEW op \in Ops, NEW opener \in Nat, NEW void \in BOOLEAN
  PROVE  /\ NewItem(op, opener, void) \in Item
         /\ NewItem(op, opener, void).op = op
BY DEF NewItem, Item

LEMMA FlagItem ==
  ASSUME NEW r \in Item
  PROVE  /\ [r EXCEPT !.returns = TRUE] \in Item
         /\ [r EXCEPT !.returns = TRUE].op = r.op
BY DEF Item

LEMMA LinkItem ==
  ASSUME NEW r \in Item, NEW n \in Nat
  PROVE  /\ [r EXCEPT !.els = n] \in Item
         /\ [r EXCEPT !.els = n].op = r.op
BY DEF Item

(* t is a stack of len blocks opened by the first n items. *)
Stack(t, len, n) ==
  /\ t \in Seq(1..MaxItems)
  /\ Len(t) = len
  /\ \A k \in DOMAIN t : t[k] \in 1..n

(* The stack of open blocks of an AST of n items, after one item more. *)
LEMMA ParseStack ==
  ASSUME NEW s \in Seq(1..MaxItems), Len(s) > 0, NEW n \in 1..MaxItems,
         \A k \in DOMAIN s : s[k] \in 1..n
  PROVE  /\ Stack(s, Len(s), n + 1)
         /\ Stack(SubSeq(s, 1, Len(s) - 1), Len(s) - 1, n + 1)
         /\ n + 1 <= MaxItems =>
              /\ Stack(Append(s, n + 1), Len(s) + 1, n + 1)
              /\ Stack(Append(SubSeq(s, 1, Len(s) - 1), n + 1), Len(s), n + 1)
<1> USE BodyAssumption DEF BodyAssumption
<1> DEFINE t0 == SubSeq(s, 1, Len(s) - 1)
<1>1. Len(s) \in Nat /\ 1..n \subseteq 1..(n + 1)
  OBVIOUS
<1>2. Stack(s, Len(s), n + 1)
  BY <1>1 DEF Stack
<1>3. Stack(t0, Len(s) - 1, n + 1)
  <2>1. /\ t0 \in Seq(1..MaxItems)
        /\ Len(t0) = Len(s) - 1
        /\ DOMAIN t0 = 1..(Len(s) - 1)
        /\ \A k \in 1..(Len(s) - 1) : t0[k] = s[k]
    BY PopSeq
  <2>2. \A k \in 1..(Len(s) - 1) : k \in DOMAIN s
    BY <1>1
  <2> HIDE DEF t0
  <2>3. QED
    BY <1>1, <2>1, <2>2 DEF Stack
<1>4. ASSUME NEW t, NEW len \in Nat, Stack(t, len, n + 1), n + 1 <= MaxItems
      PROVE  Stack(Append(t, n + 1), len + 1, n + 1)
  <2>1. n + 1 \in 1..MaxItems /\ DOMAIN t = 1..len
    BY <1>4 DEF Stack
  <2>2. /\ Append(t, n + 1) \in Seq(1..MaxItems)
        /\ Len(Append(t, n + 1)) = len + 1
        /\ DOMAIN Append(t, n + 1) = 1..(len + 1)
        /\ Append(t, n + 1)[len + 1] = n + 1
        /\ \A k \in DOMAIN t : Append(t, n + 1)[k] = t[k]
    BY <1>4, <2>1, PushSeq DEF Stack
  <2>3. ASSUME NEW k \in 1..(len + 1)
        PROVE  Append(t, n + 1)[k] \in 1..(n + 1)
    <3>1. CASE k \in DOMAIN t
      BY <1>4, <2>2, <3>1 DEF Stack
    <3>2. CASE k = len + 1
      BY <2>2, <3>2
    <3>3. QED
      BY <2>1, <3>1, <3>2
  <2>4. QED
    BY <2>2, <2>3 DEF Stack
<1>5. n + 1 <= MaxItems => Stack(Append(s, n + 1), Len(s) + 1, n + 1)
  BY <1>1, <1>2, <1>4
<1>6. n + 1 <= MaxItems => Stack(Append(t0, n + 1), (Len(s) - 1) + 1, n + 1)
  BY <1>1, <1>3, <1>4
<1>7. (Len(s) - 1) + 1 = Len(s)
  BY <1>1
<1>8. QED
  BY <1>2, <1>3, <1>5, <1>6, <1>7

(* Parsing one more item. *)
LEMMA ParseTyped ==
  ASSUME Typed, BodyNext, UNCHANGED genVars
  PROVE  Typed'
<1> USE BodyAssumption DEF BodyAssumption
<1>1. /\ phase = "parse"
      /\ ast \in Seq(Item) /\ Len(ast) \in 1..MaxItems
      /\ opened \in Seq(1..MaxItems)
      /\ Len(opened) > 0
      /\ \A k \in DOMAIN opened : opened[k] \in 1..Len(ast)
      /\ Innermost \in 1..Len(ast)
      /\ Len(ast) + Len(opened) <= MaxItems
  <2>1. phase = "parse"
    BY DEF BodyNext, ParseSimple, ParseReturn, ParseOpen, ParseElse, ParseClose,
           EnterStatement
  <2>2. /\ ast \in Seq(Item) /\ Len(ast) \in 1..MaxItems
        /\ opened \in Seq(1..MaxItems)
    BY DEF Typed, TypeOK, BodyTypeOK
  <2>3. /\ Len(opened) > 0
        /\ \A k \in DOMAIN opened : opened[k] \in 1..Len(ast)
        /\ Len(ast) + Len(opened) <= MaxItems
    BY <2>1 DEF Typed, ParseInv
  <2>4. Innermost \in 1..Len(ast)
    BY <2>2, <2>3 DEF Innermost
  <2>5. QED
    BY <2>1, <2>2, <2>3, <2>4
<1>2. PICK items \in Seq(Item), item \in Item :
        /\ ast' = Append(items, item)
        /\ Len(items) = Len(ast)
        /\ \A i \in DOMAIN ast : items[i].op = ast[i].op
        /\ item.op # "fn"
  <2>1. CASE \E op \in Simples \ Returns : ParseSimple(op)
    <3>1. PICK op \in Simples \ Returns : ParseSimple(op)
      BY <2>1
    <3>2. op \in Ops /\ op # "fn"
      BY DEF AllSimples, Ops, Returns
    <3>3. ast' = Append(ast, NewItem(op, 0, FALSE))
      BY <3>1 DEF ParseSimple, EnterStatement
    <3>4. NewItem(op, 0, FALSE) \in Item /\ NewItem(op, 0, FALSE).op # "fn"
      BY <3>2, NewItemType
    <3>5. QED
      BY <3>3, <3>4, <1>1
  <2>2. CASE \E op \in Simples \cap Returns : ParseReturn(op)
    <3>1. PICK op \in Simples \cap Returns : ParseReturn(op)
      BY <2>2
    <3> DEFINE flagged == [ast EXCEPT ![Innermost].returns = TRUE]
    <3>2. /\ flagged \in Seq(Item)
          /\ Len(flagged) = Len(ast)
          /\ \A i \in DOMAIN ast : flagged[i].op = ast[i].op
      <4>1. [ast[Innermost] EXCEPT !.returns = TRUE] \in Item
        BY <1>1, FlagItem
      <4>2. flagged = [ast EXCEPT ![Innermost] = [ast[Innermost] EXCEPT !.returns = TRUE]]
        BY <1>1
      <4>3. [ast[Innermost] EXCEPT !.returns = TRUE].op = ast[Innermost].op
        BY <1>1, FlagItem
      <4>4. QED
        BY <1>1, <4>1, <4>2, <4>3, PutSeq
    <3>3. op \in Ops /\ op # "fn"
      BY DEF Ops, Returns
    <3>4. NewItem(op, 0, FALSE) \in Item /\ NewItem(op, 0, FALSE).op # "fn"
      BY <3>3, NewItemType
    <3>5. ast' = Append(flagged, NewItem(op, 0, FALSE))
      BY <3>1 DEF ParseReturn, EnterStatement
    <3>6. QED
      BY <3>2, <3>4, <3>5
  <2>3. CASE \E op \in Openers, void \in VoidFns : ParseOpen(op, void)
    <3>1. PICK op \in Openers, void \in VoidFns : ParseOpen(op, void)
      BY <2>3
    <3>2. op \in Ops /\ op # "fn"
      BY DEF AllOpeners, Ops, Blocks
    <3>3. ast' = Append(ast, NewItem(op, 0, op = "closure" /\ void))
      BY <3>1 DEF ParseOpen
    <3>4. (op = "closure" /\ void) \in BOOLEAN
      OBVIOUS
    <3>5. /\ NewItem(op, 0, op = "closure" /\ void) \in Item
          /\ NewItem(op, 0, op = "closure" /\ void).op # "fn"
      BY <3>2, <3>4, NewItemType
    <3>6. QED
      BY <3>3, <3>5, <1>1
  <2>4. CASE ParseElse
    <3> DEFINE linked == [ast EXCEPT ![Innermost].els = Len(ast) + 1]
    <3>1. /\ linked \in Seq(Item)
          /\ Len(linked) = Len(ast)
          /\ \A i \in DOMAIN ast : linked[i].op = ast[i].op
      <4>0. Len(ast) + 1 \in Nat /\ ast[Innermost] \in Item
        BY <1>1
      <4>1. [ast[Innermost] EXCEPT !.els = Len(ast) + 1] \in Item
        BY <4>0, LinkItem
      <4>2. linked = [ast EXCEPT ![Innermost] = [ast[Innermost] EXCEPT !.els = Len(ast) + 1]]
        BY <1>1
      <4>3. [ast[Innermost] EXCEPT !.els = Len(ast) + 1].op = ast[Innermost].op
        BY <4>0, LinkItem
      <4>4. QED
        BY <1>1, <4>1, <4>2, <4>3, PutSeq
    <3>2. /\ NewItem("else", Innermost, FALSE) \in Item
          /\ NewItem("else", Innermost, FALSE).op # "fn"
      <4>1. "else" \in Ops /\ Innermost \in Nat /\ FALSE \in BOOLEAN
        BY <1>1 DEF Ops, Blocks
      <4>2. QED
        BY <4>1, NewItemType
    <3>3. ast' = Append(linked, NewItem("else", Innermost, FALSE))
      BY <2>4 DEF ParseElse
    <3>4. QED
      BY <3>1, <3>2, <3>3
  <2>5. CASE ParseClose
    <3>1. "end" \in Ops /\ Innermost \in Nat
      BY <1>1 DEF Ops
    <3>2. QED
      BY <2>5, <3>1, <1>1, NewItemType DEF ParseClose
  <2>6. QED
    BY <2>1, <2>2, <2>3, <2>4, <2>5 DEF BodyNext
<1>3. /\ ast' \in Seq(Item)
      /\ Len(ast') = Len(ast) + 1
      /\ \A i \in DOMAIN ast : ast'[i].op = ast[i].op
      /\ ast'[Len(ast) + 1].op # "fn"
  BY <1>1, <1>2
<1>4. /\ phase' \in {"parse", "gen"}
      /\ currentBlock' \in 1..MaxItems
      /\ opened' \in Seq(1..MaxItems)
      /\ \A k \in DOMAIN opened' : opened'[k] \in 1..Len(ast')
      /\ Len(ast') \in 1..MaxItems
      /\ phase' = "parse" =>
           Len(opened') > 0 /\ Len(ast') + Len(opened') <= MaxItems
  <2>1. /\ Stack(opened, Len(opened), Len(ast) + 1)
        /\ Stack(CloseInnermost, Len(opened) - 1, Len(ast) + 1)
        /\ Len(ast) + 1 <= MaxItems =>
             /\ Stack(Append(opened, Len(ast) + 1), Len(opened) + 1, Len(ast) + 1)
             /\ Stack(Append(CloseInnermost, Len(ast) + 1), Len(opened), Len(ast) + 1)
    BY <1>1, ParseStack DEF CloseInnermost
  <2>2. /\ currentBlock \in 1..MaxItems
        /\ Innermost \in 1..MaxItems
        /\ Len(ast') = Len(ast) + 1
        /\ Len(ast) \in Nat /\ Len(opened) \in Nat /\ MaxItems \in Nat
        /\ Len(opened) > 0
        /\ Len(ast) + Len(opened) <= MaxItems
        /\ phase = "parse"
    <3>1. currentBlock \in 1..MaxItems
      BY <1>1 DEF Typed, TypeOK, BodyTypeOK
    <3>2. Innermost \in 1..MaxItems /\ Len(ast) \in Nat
      BY <1>1
    <3>3. Len(opened) \in Nat
      BY <1>1
    <3>4. QED
      BY <1>1, <1>3, <3>1, <3>2, <3>3
  <2>3. \/ /\ UNCHANGED opened /\ phase' = "parse" /\ currentBlock' = Innermost
           /\ Len(ast) + 1 + Len(opened) <= MaxItems
        \/ /\ opened' = Append(opened, Len(ast) + 1)
           /\ phase' = "parse" /\ currentBlock' = Innermost
           /\ Len(ast) + 2 + Len(opened) <= MaxItems
        \/ /\ opened' = Append(CloseInnermost, Len(ast) + 1)
           /\ phase' = "parse" /\ UNCHANGED currentBlock
           /\ Len(ast) + 1 + Len(opened) <= MaxItems
        \/ /\ opened' = CloseInnermost
           /\ phase' = IF Len(opened) = 1 THEN "gen" ELSE "parse"
           /\ UNCHANGED currentBlock
    BY <2>2 DEF BodyNext, ParseSimple, ParseReturn, ParseOpen, ParseElse, ParseClose,
                EnterStatement, Room
  <2>4. PICK len \in Nat :
          /\ Stack(opened', len, Len(ast) + 1)
          /\ phase' \in {"parse", "gen"}
          /\ currentBlock' \in 1..MaxItems
          /\ Len(ast) + 1 \in 1..MaxItems
          /\ phase' = "parse" => len > 0 /\ Len(ast) + 1 + len <= MaxItems
    <3>1. Len(ast) + 1 \in 1..MaxItems
      BY <2>2
    <3>2. CASE /\ UNCHANGED opened /\ phase' = "parse" /\ currentBlock' = Innermost
               /\ Len(ast) + 1 + Len(opened) <= MaxItems
      BY <2>1, <2>2, <3>1, <3>2
    <3>3. CASE /\ opened' = Append(opened, Len(ast) + 1)
               /\ phase' = "parse" /\ currentBlock' = Innermost
               /\ Len(ast) + 2 + Len(opened) <= MaxItems
      BY <2>1, <2>2, <3>1, <3>3
    <3>4. CASE /\ opened' = Append(CloseInnermost, Len(ast) + 1)
               /\ phase' = "parse" /\ UNCHANGED currentBlock
               /\ Len(ast) + 1 + Len(opened) <= MaxItems
      BY <2>1, <2>2, <3>1, <3>4
    <3>5. CASE /\ opened' = CloseInnermost
               /\ phase' = IF Len(opened) = 1 THEN "gen" ELSE "parse"
               /\ UNCHANGED currentBlock
      <4>1. /\ Len(opened) - 1 \in Nat
            /\ Len(opened) # 1 => Len(opened) - 1 > 0
            /\ Len(ast) + 1 + (Len(opened) - 1) <= MaxItems
        <5>1. \A o, l, x \in Nat : o > 0 /\ l + o <= x =>
                /\ o - 1 \in Nat
                /\ o # 1 => o - 1 > 0
                /\ l + 1 + (o - 1) <= x
          OBVIOUS
        <5>2. /\ Len(ast) \in Nat /\ Len(opened) \in Nat /\ MaxItems \in Nat
              /\ Len(opened) > 0
              /\ Len(ast) + Len(opened) <= MaxItems
          BY <2>2
        <5>3. QED
          BY <5>1, <5>2
      <4>2. phase' = "parse" => Len(opened) # 1
        BY <3>5
      <4>3. phase' \in {"parse", "gen"}
        BY <3>5
      <4>4. QED
        BY <2>1, <2>2, <3>1, <3>5, <4>1, <4>2, <4>3
    <3>6. QED
      BY <2>3, <3>2, <3>3, <3>4, <3>5
  <2>5. QED
    BY <2>2, <2>4 DEF Stack
<1>5. ParseInv'
  <2>1. \A i \in DOMAIN ast : ast[i].op = "fn" <=> i = 1
    BY DEF Typed, ParseInv
  <2>2. \A i \in DOMAIN ast' : ast'[i].op = "fn" <=> i = 1
    <3>1. /\ DOMAIN ast' = 1..(Len(ast) + 1) /\ DOMAIN ast = 1..Len(ast)
          /\ Len(ast) \in Nat
      BY <1>1, <1>3
    <3>2. \A i \in DOMAIN ast' : i \in DOMAIN ast \/ i = Len(ast) + 1
      BY <3>1
    <3>3. 1 \in DOMAIN ast
      BY <1>1
    <3>4. Len(ast) + 1 # 1
      BY <3>1, <3>3
    <3>5. QED
      BY <1>3, <2>1, <3>2, <3>4
  <2>3. QED
    BY <1>4, <2>2 DEF ParseInv
<1>6. TypeOK'
  <2>1. BodyTypeOK'
    BY <1>3, <1>4 DEF BodyTypeOK
  <2>2. QED
    BY <2>1 DEF Typed, TypeOK, genVars
<1>7. FrameInv'
  <2>1. UNCHANGED <<pc, nblocks, frames, breakPoints, currentFunction, retBlock>>
    BY DEF genVars
  <2>2. FrameInv /\ Len(frames) = 0 /\ pc = 1 /\ frames \in Seq(Frame)
    BY <1>1 DEF Typed, FrameInv, TypeOK
  <2>3. QED
    BY <2>1, <2>2, <1>4 DEF FrameInv
<1>8. QED
  BY <1>5, <1>6, <1>7 DEF Typed

-----------------------------------------------------------------------------
(* What holds before every generation step, and what all of them do. *)
LEMMA GenFacts ==
  ASSUME Typed, Generate
  PROVE  /\ phase = "gen"
         /\ pc \in 1..Len(ast) /\ pc \in 1..MaxItems /\ pc' = pc + 1
         /\ UNCHANGED <<ast, opened, currentBlock>>
         /\ phase' \in {"gen", "done", "error"}
         /\ ast[pc].op = "fn" <=> pc = 1
         /\ pc # 1 => /\ Len(frames) \in 1..Len(frames)
                      /\ Top \in Frame
                      /\ currentFunction \in 1..MaxItems
                      /\ insert \in 1..nblocks
<1> USE BodyAssumption DEF BodyAssumption
<1>1. /\ phase = "gen" /\ pc <= Len(ast) /\ pc' = pc + 1
      /\ UNCHANGED <<ast, opened, currentBlock>>
      /\ phase' \in {"gen", "done", "error"}
  BY DEF Generate, BeginFunction, EndFunction, Statement, Return, ReturnValue, Break, BeginIf,
         BeginElse, EndIf, BeginFor, EndFor, At, Step
<1>2. pc \in Nat \ {0} /\ Len(ast) \in 1..MaxItems /\ frames \in Seq(Frame)
  BY DEF Typed, TypeOK, BodyTypeOK
<1>3. pc \in 1..Len(ast) /\ pc \in 1..MaxItems
  BY <1>1, <1>2
<1>4. ast[pc].op = "fn" <=> pc = 1
  BY <1>3 DEF Typed, ParseInv, TypeOK, BodyTypeOK
<1>5. pc # 1 => /\ Len(frames) > 0 /\ currentFunction \in 1..MaxItems
                /\ insert \in 1..nblocks
  BY <1>1 DEF Typed, FrameInv
<1>6. Len(frames) > 0 => Len(frames) \in 1..Len(frames) /\ Top \in Frame
  BY <1>2 DEF Top
<1>7. QED
  BY <1>1, <1>3, <1>4, <1>5, <1>6

FramesOK(fs, n) ==
  /\ fs \in Seq(Frame)
  /\ \A k \in DOMAIN fs : FrameOK(fs[k], n) /\ (ast[fs[k].item].op = "fn" <=> k = 1)

(***************************************************************************)
(* A step that creates blocks and stays within them keeps the types.       *)
(***************************************************************************)
LEMMA StepTyped ==
  ASSUME Typed, Generate,
         nfuncs' \in Nat, nblocks' \in Nat,
         owner' \in [1..nblocks' -> Nat],
         code' \in [1..nblocks' -> Seq(Instr)],
         attached' \subseteq 1..nblocks',
         insert' \in 1..nblocks',
         FramesOK(frames', nblocks'),
         phase' = "gen" => Len(frames') > 0,
         breakPoints' \in Seq(Nat),
         \A k \in DOMAIN breakPoints' : breakPoints'[k] <= nblocks',
         currentFunction' \in 1..MaxItems,
         retBlock' \in [1..MaxItems -> Nat],
         \A i \in 1..MaxItems : retBlock'[i] <= nblocks'
  PROVE  Typed'
<1> USE BodyAssumption DEF BodyAssumption
<1>1. /\ pc' = pc + 1 /\ pc \in 1..MaxItems
      /\ UNCHANGED <<ast, opened, currentBlock>>
      /\ phase' \in {"gen", "done", "error"}
  BY GenFacts
<1>2. BodyTypeOK'
  BY <1>1 DEF Typed, TypeOK, BodyTypeOK
<1>3. TypeOK'
  <2>1. frames' \in Seq(Frame)
    BY DEF FramesOK
  <2>2. pc' \in Nat \ {0}
    BY <1>1
  <2>3. currentFunction' \in 0..MaxItems /\ insert' \in 0..nblocks'
    OBVIOUS
  <2>4. QED
    BY <1>2, <2>1, <2>2, <2>3 DEF TypeOK
<1>4. ParseInv'
  BY <1>1 DEF Typed, ParseInv
<1>5. pc' # 1 /\ phase' # "parse"
  BY <1>1
<1>6. FrameInv'
  BY <1>1, <1>5 DEF FrameInv, FramesOK, FrameOK
<1>7. QED
  BY <1>3, <1>4, <1>6 DEF Typed

(* Facts on the state before a step, in the form the step lemmas use them. *)
LEMMA StateFacts ==
  ASSUME Typed, Generate
  PROVE  /\ pc \in Nat \ {0} /\ nfuncs \in Nat /\ nblocks \in Nat
         /\ owner \in [1..nblocks -> Nat]
         /\ code \in [1..nblocks -> Seq(Instr)]
         /\ attached \subseteq 1..nblocks
         /\ insert \in 0..nblocks
         /\ FramesOK(frames, nblocks)
         /\ breakPoints \in Seq(Nat)
         /\ \A k \in DOMAIN breakPoints : breakPoints[k] <= nblocks
         /\ retBlock \in [1..MaxItems -> Nat]
         /\ \A i \in 1..MaxItems : retBlock[i] <= nblocks
<1>1. /\ pc \in Nat \ {0} /\ nfuncs \in Nat /\ nblocks \in Nat
      /\ owner \in [1..nblocks -> Nat]
      /\ code \in [1..nblocks -> Seq(Instr)]
      /\ attached \subseteq 1..nblocks
      /\ insert \in 0..nblocks
      /\ frames \in Seq(Frame)
      /\ breakPoints \in Seq(Nat)
      /\ retBlock \in [1..MaxItems -> Nat]
  BY DEF Typed, TypeOK
<1>2. \A k \in DOMAIN frames : frames[k] \in Frame
  BY <1>1
<1>3. FramesOK(frames, nblocks)
  BY <1>1, <1>2 DEF Typed, FrameInv, FramesOK, FrameOK
<1>4. QED
  BY <1>1, <1>3 DEF Typed, FrameInv

LEMMA BoundsGrow ==
  ASSUME Typed, Generate, NEW n \in Nat, nblocks <= n
  PROVE  /\ \A k \in DOMAIN breakPoints : breakPoints[k] \in Nat /\ breakPoints[k] <= n
         /\ \A i \in 1..MaxItems : retBlock[i] \in Nat /\ retBlock[i] <= n
<1>1. nblocks \in Nat
  BY StateFacts
<1>2. ASSUME NEW k \in DOMAIN breakPoints
      PROVE  breakPoints[k] \in Nat /\ breakPoints[k] <= n
  <2>1. breakPoints[k] \in Nat /\ breakPoints[k] <= nblocks
    BY StateFacts
  <2>2. QED
    BY <1>1, <2>1
<1>3. ASSUME NEW i \in 1..MaxItems
      PROVE  retBlock[i] \in Nat /\ retBlock[i] <= n
  <2>1. retBlock[i] \in Nat /\ retBlock[i] <= nblocks
    BY StateFacts
  <2>2. QED
    BY <1>1, <2>1
<1>4. QED
  BY <1>2, <1>3

(* Pushing the frame of item pc, whose blocks are among the first n. *)
LEMMA PushFrame ==
  ASSUME Typed, Generate, NEW n \in Nat, nblocks <= n,
         NEW head \in 1..n, NEW f \in 0..n, NEW m \in 0..n,
         ast[pc].op = "if" => f \in 1..n /\ m \in 1..n,
         ast[pc].op = "for" => m \in 1..n
  PROVE  LET fr == [item |-> pc, head |-> head, f |-> f, m |-> m]
         IN /\ FramesOK(Append(frames, fr), n)
            /\ Len(Append(frames, fr)) > 0
<1> DEFINE fr == [item |-> pc, head |-> head, f |-> f, m |-> m]
<1>1. /\ FramesOK(frames, nblocks) /\ nblocks \in Nat
      /\ pc \in 1..Len(ast)
      /\ ast[pc].op = "fn" <=> pc = 1
      /\ phase = "gen"
  BY GenFacts, StateFacts
<1>2. fr \in Frame /\ FrameOK(fr, n)
  <2>1. pc \in Nat
    BY StateFacts
  <2>2. fr \in Frame
    BY <2>1 DEF Frame
  <2>3. QED
    BY <1>1, <2>2 DEF FrameOK
<1>3. /\ Append(frames, fr) \in Seq(Frame)
      /\ Len(Append(frames, fr)) = Len(frames) + 1
      /\ DOMAIN Append(frames, fr) = 1..(Len(frames) + 1)
      /\ Append(frames, fr)[Len(frames) + 1] = fr
      /\ \A k \in DOMAIN frames : Append(frames, fr)[k] = frames[k]
  BY <1>1, <1>2, PushSeq DEF FramesOK
<1>4. Len(frames) \in Nat /\ DOMAIN frames = 1..Len(frames)
  BY <1>1 DEF FramesOK
<1>5. Len(frames) = 0 <=> pc = 1
  BY <1>1, <1>4 DEF Typed, FrameInv
<1>6. \A k \in DOMAIN frames : FrameOK(frames[k], n)
  BY <1>1 DEF FramesOK, FrameOK
<1>7. FramesOK(Append(frames, fr), n)
  <2> HIDE DEF fr
  <2>1. ASSUME NEW k \in 1..(Len(frames) + 1)
        PROVE  /\ FrameOK(Append(frames, fr)[k], n)
               /\ ast[Append(frames, fr)[k].item].op = "fn" <=> k = 1
    <3>1. CASE k \in DOMAIN frames
      BY <1>1, <1>3, <1>6, <3>1 DEF FramesOK
    <3>2. CASE k = Len(frames) + 1
      <4>1. fr.item = pc
        BY DEF fr
      <4>2. QED
        BY <1>1, <1>2, <1>3, <1>4, <1>5, <3>2, <4>1
    <3>3. QED
      BY <1>4, <3>1, <3>2
  <2>2. QED
    BY <1>3, <2>1 DEF FramesOK
<1>8. QED
  BY <1>3, <1>4, <1>7

(* The frame a call of gen_code leaves behind; the outermost is the function's. *)
LEMMA PopFrame ==
  ASSUME Typed, Generate, pc # 1
  PROVE  /\ FramesOK(Pop, nblocks)
         /\ FrameOK(Top, nblocks)
         /\ ast[Top.item].op # "fn" => Len(Pop) > 0
<1>1. FramesOK(frames, nblocks) /\ Len(frames) \in 1..Len(frames)
  BY GenFacts, StateFacts
<1>2. /\ Len(frames) \in Nat /\ Len(frames) > 0
      /\ frames \in Seq(Frame) /\ DOMAIN frames = 1..Len(frames)
  BY <1>1 DEF FramesOK
<1>3. /\ Pop \in Seq(Frame)
      /\ Len(Pop) = Len(frames) - 1
      /\ DOMAIN Pop = 1..(Len(frames) - 1)
      /\ \A k \in 1..(Len(frames) - 1) : Pop[k] = frames[k]
  BY <1>2, PopSeq DEF Pop
<1>4. \A k \in DOMAIN Pop : k \in DOMAIN frames
  BY <1>2, <1>3
<1>5. FramesOK(Pop, nblocks)
  BY <1>1, <1>3, <1>4 DEF FramesOK
<1>6. FrameOK(Top, nblocks) /\ (ast[Top.item].op = "fn" <=> Len(frames) = 1)
  BY <1>1, <1>2 DEF FramesOK, Top
<1>7. Len(frames) # 1 => Len(frames) - 1 > 0
  <2>1. \A n \in Nat : n > 0 /\ n # 1 => n - 1 > 0
    OBVIOUS
  <2>2. QED
    BY <2>1, <1>2
<1>8. QED
  BY <1>3, <1>5, <1>6, <1>7

LEMMA NewBlocksType ==
  ASSUME Typed, Generate, NEW n \in Nat, NEW f \in Nat, NewBlocks(n, f)
  PROVE  /\ nblocks' = nblocks + n
         /\ nblocks' \in Nat
         /\ nblocks <= nblocks'
         /\ owner' \in [1..nblocks' -> Nat]
         /\ 1..nblocks \subseteq 1..nblocks'
         /\ (nblocks + 1)..nblocks' \subseteq 1..nblocks'
         /\ \A b \in 1..nblocks : b <= nblocks'
BY StateFacts DEF NewBlocks

-----------------------------------------------------------------------------
(* The statements that only emit instructions. *)
LEMMA EmitsTyped ==
  ASSUME Typed, Generate, Statement \/ Return \/ ReturnValue \/ Break
  PROVE  Typed'
<1> USE BodyAssumption DEF BodyAssumption
<1>1. pc # 1
  BY GenFacts DEF Statement, Return, ReturnValue, Break, At
<1>2. UNCHANGED <<nfuncs, nblocks, owner, attached, insert, frames, breakPoints,
                  currentFunction, retBlock>>
  BY DEF Statement, Return, ReturnValue, Break, OnlyEmits
<1>3. code' \in [1..nblocks -> Seq(Instr)]
  <2>1. /\ nblocks \in Nat /\ code \in [1..nblocks -> Seq(Instr)] /\ pc \in Nat
        /\ retBlock[currentFunction] \in Nat
    BY <1>1, GenFacts, StateFacts
  <2>2. /\ Ins("inst", 0, 0) \in Instr /\ Ins("store", 0, 0) \in Instr
        /\ \A t \in Nat : Ins("br", t, 0) \in Instr
    BY <2>1, InsType DEF Terminators
  <2>3. CASE Statement
    BY <2>1, <2>2, <2>3, EmitType DEF Statement
  <2>4. CASE Return
    BY <2>1, <2>2, <2>4, EmitType DEF Return
  <2>5. CASE ReturnValue
    <3>1. Emit(code, insert, Ins("store", 0, 0)) \in [1..nblocks -> Seq(Instr)]
      BY <2>1, <2>2, EmitType
    <3>2. Emit(Emit(code, insert, Ins("store", 0, 0)), insert,
               Ins("br", retBlock[currentFunction], 0)) \in [1..nblocks -> Seq(Instr)]
      BY <3>1, <2>1, <2>2, EmitType
    <3>3. QED
      BY <2>1, <2>5, <3>1, <3>2 DEF ReturnValue
  <2>6. CASE Break
    <3>1. breakPoints # <<>> => breakPoints[Len(breakPoints)] \in Nat
      BY StateFacts
    <3>2. QED
      BY <2>1, <2>2, <2>6, <3>1, EmitType DEF Break, BreakPoint
  <2>7. QED
    BY <2>3, <2>4, <2>5, <2>6
<1>4. FramesOK(frames', nblocks')
  BY <1>2, GenFacts, StateFacts DEF FramesOK, FrameOK
<1>5. /\ Len(frames') > 0 /\ currentFunction' \in 1..MaxItems
      /\ insert' \in 1..nblocks'
  BY <1>1, <1>2, GenFacts
<1>6. /\ nfuncs' \in Nat /\ nblocks' \in Nat
      /\ owner' \in [1..nblocks' -> Nat]
      /\ code' \in [1..nblocks' -> Seq(Instr)]
      /\ attached' \subseteq 1..nblocks'
      /\ breakPoints' \in Seq(Nat)
      /\ \A k \in DOMAIN breakPoints' : breakPoints'[k] <= nblocks'
      /\ retBlock' \in [1..MaxItems -> Nat]
      /\ \A i \in 1..MaxItems : retBlock'[i] <= nblocks'
  BY <1>2, <1>3, StateFacts
<1>7. QED
  BY <1>4, <1>5, <1>6, StepTyped

(* The actions that open a function, an if or a loop. *)
LEMMA BeginFunctionTyped ==
  ASSUME Typed, Generate, BeginFunction
  PROVE  Typed'
<1> USE BodyAssumption DEF BodyAssumption
<1>1. /\ nfuncs' \in Nat
      /\ NewBlocks(1, nfuncs')
      /\ code' = Grow(code, 1)
      /\ attached' = attached \cup {nblocks + 1}
      /\ insert' = nblocks + 1
      /\ frames' = Append(frames, [item |-> pc, head |-> nblocks + 1, f |-> 0, m |-> 0])
      /\ currentFunction' = pc
      /\ UNCHANGED <<breakPoints, retBlock>>
  <2>1. nfuncs' = nfuncs + 1 \/ nfuncs' = nfuncs + 2
    BY DEF BeginFunction
  <2>2. nfuncs \in Nat
    BY StateFacts
  <2>3. nfuncs' \in Nat
    BY <2>1, <2>2
  <2>4. QED
    BY <2>3 DEF BeginFunction
<1>2. /\ nblocks' = nblocks + 1 /\ nblocks' \in Nat /\ nblocks \in Nat
      /\ nblocks <= nblocks'
      /\ owner' \in [1..nblocks' -> Nat]
      /\ 1..nblocks \subseteq 1..nblocks'
  BY <1>1, NewBlocksType, StateFacts
<1>3. code' \in [1..nblocks' -> Seq(Instr)]
  BY <1>1, <1>2, GrowType, StateFacts
<1>4. FramesOK(frames', nblocks') /\ Len(frames') > 0
  <2>1. /\ nblocks + 1 \in 1..nblocks' /\ 0 \in 0..nblocks'
        /\ ast[pc].op \notin {"if", "for"}
    BY <1>2 DEF BeginFunction, At
  <2>2. QED
    BY <1>1, <1>2, <2>1, PushFrame
<1>5. /\ attached' \subseteq 1..nblocks'
      /\ insert' \in 1..nblocks'
  BY <1>1, <1>2, StateFacts
<1>6. /\ breakPoints' \in Seq(Nat)
      /\ \A k \in DOMAIN breakPoints' : breakPoints'[k] <= nblocks'
  <2>1. \A k \in DOMAIN breakPoints : breakPoints[k] <= nblocks'
    BY <1>2, BoundsGrow
  <2>2. QED
    BY <1>1, <2>1, StateFacts
<1>7. /\ retBlock' \in [1..MaxItems -> Nat]
      /\ \A i \in 1..MaxItems : retBlock'[i] <= nblocks'
      /\ currentFunction' \in 1..MaxItems
  <2>1. \A i \in 1..MaxItems : retBlock[i] <= nblocks'
    BY <1>2, BoundsGrow
  <2>2. currentFunction' \in 1..MaxItems
    BY <1>1, GenFacts
  <2>3. QED
    BY <1>1, <2>1, <2>2, StateFacts
<1>8. QED
  BY <1>1, <1>2, <1>3, <1>4, <1>5, <1>6, <1>7, StepTyped

LEMMA BeginForTyped ==
  ASSUME Typed, Generate, BeginFor
  PROVE  Typed'
<1> USE BodyAssumption DEF BodyAssumption
<1> DEFINE cond == nblocks + 1
           body == nblocks + 2
           merge == nblocks + 3
           init == Emit(Emit(Grow(code, 3), insert, Ins("inst", 0, 0)),
                        insert, Ins("br", cond, 0))
<1>1. /\ NewBlocks(3, owner[insert])
      /\ attached' = attached \cup cond..merge
      /\ code' = Emit(init, cond, Ins("condbr", body, merge))
      /\ insert' = body
      /\ breakPoints' = Append(breakPoints, merge)
      /\ frames' = Append(frames, [item |-> pc, head |-> cond, f |-> 0, m |-> merge])
      /\ UNCHANGED <<nfuncs, currentFunction, retBlock>>
      /\ pc # 1
  BY GenFacts DEF BeginFor, At
<1>2. /\ nblocks' = nblocks + 3 /\ nblocks' \in Nat /\ nblocks \in Nat
      /\ nblocks <= nblocks'
      /\ 1..nblocks \subseteq 1..nblocks'
      /\ cond \in 1..nblocks' /\ body \in 1..nblocks' /\ merge \in 1..nblocks'
      /\ cond..merge \subseteq 1..nblocks'
      /\ owner' \in [1..nblocks' -> Nat]
  <2>1. owner[insert] \in Nat
    BY <1>1, GenFacts, StateFacts
  <2>2. /\ nblocks' = nblocks + 3 /\ nblocks' \in Nat /\ nblocks \in Nat
        /\ owner' \in [1..nblocks' -> Nat]
    BY <1>1, <2>1, NewBlocksType, StateFacts
  <2>3. QED
    BY <2>2
<1>3. code' \in [1..nblocks' -> Seq(Instr)]
  <2>1. /\ pc \in Nat /\ nblocks' = nblocks + 3
        /\ cond \in Nat /\ body \in Nat /\ merge \in Nat
    BY <1>2, StateFacts
  <2>2. /\ Ins("inst", 0, 0) \in Instr /\ Ins("br", cond, 0) \in Instr
        /\ Ins("condbr", body, merge) \in Instr
    BY <2>1, InsType DEF Terminators
  <2>3. Grow(code, 3) \in [1..nblocks' -> Seq(Instr)]
    BY <1>2, GrowType, StateFacts
  <2>4. Emit(Grow(code, 3), insert, Ins("inst", 0, 0)) \in [1..nblocks' -> Seq(Instr)]
    BY <1>2, <2>2, <2>3, EmitType
  <2>5. init \in [1..nblocks' -> Seq(Instr)]
    BY <1>2, <2>2, <2>4, EmitType
  <2>6. QED
    BY <1>1, <1>2, <2>2, <2>5, EmitType
<1>4. FramesOK(frames', nblocks') /\ Len(frames') > 0
  <2>1. /\ cond \in 1..nblocks' /\ merge \in 0..nblocks' /\ 0 \in 0..nblocks'
        /\ merge \in 1..nblocks'
        /\ ast[pc].op = "for"
    BY <1>2 DEF BeginFor, At
  <2>2. QED
    BY <1>1, <1>2, <2>1, PushFrame
<1>5. /\ breakPoints' \in Seq(Nat)
      /\ \A k \in DOMAIN breakPoints' : breakPoints'[k] <= nblocks'
  <2>1. /\ \A k \in DOMAIN breakPoints : breakPoints[k] <= nblocks'
        /\ breakPoints \in Seq(Nat) /\ merge \in Nat
    BY <1>2, BoundsGrow, StateFacts
  <2>2. /\ breakPoints' \in Seq(Nat)
        /\ DOMAIN breakPoints' = 1..(Len(breakPoints) + 1)
        /\ breakPoints'[Len(breakPoints) + 1] = merge
        /\ \A k \in DOMAIN breakPoints : breakPoints'[k] = breakPoints[k]
    BY <1>1, <2>1, PushSeq
  <2>3. ASSUME NEW k \in DOMAIN breakPoints'
        PROVE  breakPoints'[k] <= nblocks'
    <3>1. k \in DOMAIN breakPoints \/ k = Len(breakPoints) + 1
      BY <2>1, <2>2
    <3>2. QED
      BY <1>2, <2>1, <2>2, <3>1
  <2>4. QED
    BY <2>2, <2>3
<1>6. /\ retBlock' \in [1..MaxItems -> Nat]
      /\ \A i \in 1..MaxItems : retBlock'[i] <= nblocks'
      /\ currentFunction' \in 1..MaxItems
      /\ nfuncs' \in Nat
  <2>1. \A i \in 1..MaxItems : retBlock[i] <= nblocks'
    BY <1>2, BoundsGrow
  <2>2. QED
    BY <1>1, <2>1, GenFacts, StateFacts
<1>7. attached' \subseteq 1..nblocks' /\ insert' \in 1..nblocks'
  BY <1>1, <1>2, StateFacts
<1>8. QED
  BY <1>2, <1>3, <1>4, <1>5, <1>6, <1>7, StepTyped

LEMMA BeginIfTyped ==
  ASSUME Typed, Generate, BeginIf
  PROVE  Typed'
<1> USE BodyAssumption DEF BodyAssumption
<1> DEFINE needsRet == NeedsRet(pc)
           n == IF needsRet THEN 4 ELSE 3
           t == nblocks + n - 2
           f == nblocks + n - 1
           m == nblocks + n
<1>1. /\ NewBlocks(n, owner[insert])
      /\ attached' = attached \cup (nblocks + 1)..(nblocks + n)
      /\ retBlock' = IF needsRet
           THEN [retBlock EXCEPT ![currentFunction] = nblocks + 1] ELSE retBlock
      /\ code' = Emit(Grow(code, n), insert,
                      Ins("condbr", t, IF ast[pc].els # 0 THEN f ELSE m))
      /\ insert' = t
      /\ frames' = Append(frames, [item |-> pc, head |-> t, f |-> f, m |-> m])
      /\ UNCHANGED <<nfuncs, breakPoints, currentFunction>>
      /\ pc # 1 /\ ast[pc].op = "if"
      /\ n \in {3, 4} /\ (needsRet => n = 4)
  BY GenFacts DEF BeginIf, At
<1> HIDE DEF needsRet, n
<1>2. /\ nblocks' = nblocks + n /\ nblocks' \in Nat /\ nblocks \in Nat
      /\ nblocks <= nblocks'
      /\ 1..nblocks \subseteq 1..nblocks'
      /\ t \in 1..nblocks' /\ f \in 1..nblocks' /\ m \in 1..nblocks'
      /\ (nblocks + 1)..(nblocks + n) \subseteq 1..nblocks'
      /\ nblocks + 1 \in 1..nblocks'
      /\ owner' \in [1..nblocks' -> Nat]
  <2>1. owner[insert] \in Nat
    BY <1>1, GenFacts, StateFacts
  <2>2. /\ nblocks' = nblocks + n /\ nblocks' \in Nat /\ nblocks \in Nat
        /\ owner' \in [1..nblocks' -> Nat]
    BY <1>1, <2>1, NewBlocksType, StateFacts
  <2>3. CASE n = 3
    BY <2>2, <2>3
  <2>4. CASE n = 4
    BY <2>2, <2>4
  <2>5. QED
    BY <1>1, <2>3, <2>4
<1>3. code' \in [1..nblocks' -> Seq(Instr)]
  <2>1. Ins("condbr", t, IF ast[pc].els # 0 THEN f ELSE m) \in Instr
    <3>1. t \in Nat /\ f \in Nat /\ m \in Nat
      BY <1>2
    <3>2. pc \in Nat
      BY StateFacts
    <3>3. QED
      BY <3>1, <3>2, InsType DEF Terminators
  <2>2. Grow(code, n) \in [1..nblocks' -> Seq(Instr)]
    BY <1>1, <1>2, GrowType, StateFacts
  <2>3. QED
    BY <1>1, <1>2, <2>1, <2>2, EmitType
<1>4. FramesOK(frames', nblocks') /\ Len(frames') > 0
  <2>1. f \in 0..nblocks' /\ m \in 0..nblocks'
    BY <1>2
  <2>2. QED
    BY <1>1, <1>2, <2>1, PushFrame
<1>5. /\ breakPoints' \in Seq(Nat)
      /\ \A k \in DOMAIN breakPoints' : breakPoints'[k] <= nblocks'
  <2>1. \A k \in DOMAIN breakPoints : breakPoints[k] <= nblocks'
    BY <1>2, BoundsGrow
  <2>2. QED
    BY <1>1, <2>1, StateFacts
<1>6. /\ retBlock' \in [1..MaxItems -> Nat]
      /\ \A i \in 1..MaxItems : retBlock'[i] <= nblocks'
  <2>1. nblocks + 1 \in Nat /\ nblocks + 1 <= nblocks'
    BY <1>2
  <2>2. retBlock \in [1..MaxItems -> Nat]
    BY StateFacts
  <2>3. \A i \in 1..MaxItems : retBlock[i] <= nblocks'
    BY <1>2, BoundsGrow
  <2>4. QED
    BY <1>1, <2>1, <2>2, <2>3
<1>7. /\ currentFunction' \in 1..MaxItems
      /\ nfuncs' \in Nat
  BY <1>1, GenFacts, StateFacts
<1>8. attached' \subseteq 1..nblocks' /\ insert' \in 1..nblocks'
  BY <1>1, <1>2, StateFacts
<1>9. QED
  BY <1>2, <1>3, <1>4, <1>5, <1>6, <1>7, <1>8, StepTyped

-----------------------------------------------------------------------------
(* The actions that close an arm, an if, a loop or a function. *)
LEMMA CloseTyped ==
  ASSUME Typed, Generate, pc # 1,
         UNCHANGED <<nfuncs, nblocks, owner, currentFunction, retBlock>>,
         code' \in [1..nblocks -> Seq(Instr)],
         attached' \subseteq attached,
         insert' \in 1..nblocks,
         FramesOK(frames', nblocks),
         phase' = "gen" => Len(frames') > 0,
         breakPoints' \in Seq(Nat),
         \A k \in DOMAIN breakPoints' : breakPoints'[k] <= nblocks
  PROVE  Typed'
<1>1. /\ nfuncs' \in Nat /\ nblocks' \in Nat
      /\ owner' \in [1..nblocks' -> Nat]
      /\ attached' \subseteq 1..nblocks'
      /\ retBlock' \in [1..MaxItems -> Nat]
      /\ \A i \in 1..MaxItems : retBlock'[i] <= nblocks'
  BY StateFacts
<1>2. currentFunction' \in 1..MaxItems
  BY GenFacts
<1>3. FramesOK(frames', nblocks')
  OBVIOUS
<1>4. QED
  BY <1>1, <1>2, <1>3, StepTyped

LEMMA EndFunctionTyped ==
  ASSUME Typed, Generate, EndFunction
  PROVE  Typed'
<1> USE BodyAssumption DEF BodyAssumption
<1> DEFINE b == IF retBlock[Top.item] # 0 THEN retBlock[Top.item] ELSE insert
           done == Emit(code, b, Ins("ret", 0, 0))
<1>1. /\ insert' = b
      /\ code' = IF ast[Top.item].op = "fn"
                    THEN done ELSE Emit(done, b, Ins("inst", 0, 0))
      /\ frames' = Pop
      /\ phase' = IF ast[Top.item].op = "fn" THEN "done" ELSE "gen"
      /\ UNCHANGED <<nfuncs, nblocks, owner, attached, breakPoints,
                     currentFunction, retBlock>>
      /\ pc # 1
  BY GenFacts DEF EndFunction, At, Step
<1>2. /\ nblocks \in Nat /\ pc \in Nat
      /\ code \in [1..nblocks -> Seq(Instr)]
      /\ FramesOK(Pop, nblocks)
      /\ Top.item \in 1..MaxItems
      /\ ast[Top.item].op # "fn" => Len(Pop) > 0
  <2>1. Top.item \in 1..Len(ast) /\ Len(ast) \in 1..MaxItems
    BY <1>1, PopFrame DEF FrameOK, Typed, TypeOK, BodyTypeOK
  <2>2. QED
    BY <1>1, <2>1, PopFrame, StateFacts
<1>3. b \in 1..nblocks
  <2>1. /\ retBlock[Top.item] \in Nat /\ retBlock[Top.item] <= nblocks
        /\ insert \in 1..nblocks
    BY <1>1, <1>2, StateFacts, GenFacts
  <2>2. QED
    BY <1>2, <2>1
<1>4. code' \in [1..nblocks -> Seq(Instr)]
  <2>1. Ins("ret", 0, 0) \in Instr /\ Ins("inst", 0, 0) \in Instr
    BY <1>2, InsType DEF Terminators
  <2>2. done \in [1..nblocks -> Seq(Instr)]
    BY <1>2, <2>1, EmitType
  <2>3. Emit(done, b, Ins("inst", 0, 0)) \in [1..nblocks -> Seq(Instr)]
    BY <1>2, <2>1, <2>2, EmitType
  <2>4. QED
    BY <1>1, <2>2, <2>3
<1>5. phase' = "gen" => Len(frames') > 0
  BY <1>1, <1>2
<1>6. QED
  BY <1>1, <1>2, <1>3, <1>4, <1>5, StateFacts, CloseTyped

LEMMA EndIfTyped ==
  ASSUME Typed, Generate, EndIf
  PROVE  Typed'
<1>1. /\ ast[Top.item].op = "if"
      /\ code' = JoinArm(code, Top.head, Top.m)
      /\ attached' \subseteq attached
      /\ insert' \in {insert, Top.m}
      /\ frames' = Pop
      /\ UNCHANGED <<nfuncs, nblocks, owner, breakPoints, currentFunction, retBlock>>
      /\ pc # 1
  BY GenFacts DEF EndIf, At
<1>2. /\ nblocks \in Nat /\ pc \in Nat
      /\ code \in [1..nblocks -> Seq(Instr)]
      /\ FramesOK(Pop, nblocks) /\ Len(Pop) > 0
      /\ Top.m \in 1..nblocks /\ insert \in 1..nblocks
  BY <1>1, PopFrame, StateFacts, GenFacts DEF FrameOK
<1>3. Top.m \in Nat
  BY <1>2
<1>4. code' \in [1..nblocks -> Seq(Instr)]
  BY <1>1, <1>2, <1>3, JoinType
<1>5. QED
  BY <1>1, <1>2, <1>4, StateFacts, CloseTyped

LEMMA EndForTyped ==
  ASSUME Typed, Generate, EndFor
  PROVE  Typed'
<1>1. /\ ast[Top.item].op = "for"
      /\ code' = Emit(code, insert, Ins("br", Top.head, 0))
      /\ breakPoints' = SubSeq(breakPoints, 1, Len(breakPoints) - 1)
      /\ insert' = Top.m
      /\ frames' = Pop
      /\ UNCHANGED <<nfuncs, nblocks, owner, attached, currentFunction, retBlock>>
      /\ pc # 1
  BY GenFacts DEF EndFor, At
<1>2. /\ nblocks \in Nat /\ pc \in Nat
      /\ code \in [1..nblocks -> Seq(Instr)]
      /\ FramesOK(Pop, nblocks) /\ Len(Pop) > 0
      /\ Top.m \in 1..nblocks /\ Top.head \in 1..nblocks
  BY <1>1, PopFrame, StateFacts, GenFacts DEF FrameOK
<1>3. code' \in [1..nblocks -> Seq(Instr)]
  <2>1. Ins("br", Top.head, 0) \in Instr
    BY <1>2, InsType DEF Terminators
  <2>2. QED
    BY <1>1, <1>2, <2>1, EmitType
<1>4. /\ breakPoints' \in Seq(Nat)
      /\ \A k \in DOMAIN breakPoints' : breakPoints'[k] <= nblocks
  <2>1. breakPoints \in Seq(Nat) /\ \A k \in DOMAIN breakPoints : breakPoints[k] <= nblocks
    BY StateFacts
  <2>2. CASE Len(breakPoints) > 0
    <3>1. /\ breakPoints' \in Seq(Nat)
          /\ DOMAIN breakPoints' = 1..(Len(breakPoints) - 1)
          /\ \A k \in 1..(Len(breakPoints) - 1) : breakPoints'[k] = breakPoints[k]
      BY <1>1, <2>1, <2>2, PopSeq
    <3>2. \A k \in 1..(Len(breakPoints) - 1) : k \in DOMAIN breakPoints
      BY <2>1
    <3>3. QED
      BY <2>1, <3>1, <3>2
  <2>3. CASE Len(breakPoints) = 0
    <3>1. breakPoints' = <<>>
      BY <1>1, <2>1, <2>3, SubSeqEmpty
    <3>2. QED
      BY <3>1
  <2>4. QED
    BY <2>1, <2>2, <2>3
<1>5. QED
  BY <1>1, <1>2, <1>3, <1>4, StateFacts, CloseTyped

LEMMA BeginElseTyped ==
  ASSUME Typed, Generate, BeginElse
  PROVE  Typed'
<1> DEFINE fr == [Top EXCEPT !.head = Top.f]
<1>1. /\ ast[Top.item].op = "if"
      /\ code' = JoinArm(code, Top.head, Top.m)
      /\ insert' = Top.f
      /\ frames' = [frames EXCEPT ![Len(frames)].head = Top.f]
      /\ UNCHANGED <<nfuncs, nblocks, owner, attached, breakPoints,
                     currentFunction, retBlock>>
      /\ pc # 1
  BY GenFacts DEF BeginElse, At
<1>2. /\ nblocks \in Nat /\ pc \in Nat
      /\ code \in [1..nblocks -> Seq(Instr)]
      /\ FramesOK(frames, nblocks)
      /\ Len(frames) \in 1..Len(frames)
      /\ FrameOK(Top, nblocks) /\ Top \in Frame
      /\ Top.f \in 1..nblocks /\ Top.m \in 1..nblocks
  BY <1>1, PopFrame, StateFacts, GenFacts DEF FrameOK
<1>3. code' \in [1..nblocks -> Seq(Instr)]
  BY <1>1, <1>2, JoinType
<1>4. fr \in Frame /\ FrameOK(fr, nblocks) /\ fr.item = Top.item
  BY <1>1, <1>2 DEF Frame, FrameOK
<1>5. frames' = [frames EXCEPT ![Len(frames)] = fr]
  BY <1>1, <1>2 DEF Top
<1>6. /\ frames' \in Seq(Frame)
      /\ Len(frames') = Len(frames)
      /\ \A k \in DOMAIN frames : frames'[k] = IF k = Len(frames) THEN fr ELSE frames[k]
  <2> HIDE DEF fr
  <2>1. QED
    BY <1>2, <1>4, <1>5, PutSeq DEF FramesOK
<1>7. DOMAIN frames' = DOMAIN frames
  BY <1>2, <1>6 DEF FramesOK
<1>8. FramesOK(frames', nblocks)
  <2> HIDE DEF fr
  <2>1. ASSUME NEW k \in DOMAIN frames
        PROVE  FrameOK(frames'[k], nblocks) /\ (ast[frames'[k].item].op = "fn" <=> k = 1)
    <3>1. CASE k = Len(frames)
      <4>1. frames[k] = Top
        BY <3>1 DEF Top
      <4>2. QED
        BY <1>2, <1>4, <1>6, <3>1, <4>1 DEF FramesOK
    <3>2. CASE k # Len(frames)
      BY <1>2, <1>6, <3>2 DEF FramesOK
    <3>3. QED
      BY <3>1, <3>2
  <2>2. QED
    BY <1>6, <1>7, <2>1 DEF FramesOK
<1>9. Len(frames') > 0 /\ insert' \in 1..nblocks
  BY <1>1, <1>2, <1>6
<1>10. QED
  BY <1>1, <1>2, <1>3, <1>8, <1>9, StateFacts, CloseTyped

-----------------------------------------------------------------------------
LEMMA NextTyped == Typed /\ [Next]_vars => Typed'
<1> SUFFICES ASSUME Typed, [Next]_vars PROVE Typed'
  OBVIOUS
<1>1. CASE BodyNext /\ UNCHANGED genVars
  BY <1>1, ParseTyped
<1>2. CASE Generate
  BY <1>2, EmitsTyped, BeginFunctionTyped, BeginIfTyped, BeginForTyped, EndFunctionTyped,
     BeginElseTyped, EndIfTyped, EndForTyped DEF Generate
<1>3. CASE UNCHANGED vars
  BY <1>3 DEF vars, bodyVars, genVars, Typed, TypeOK, BodyTypeOK, ParseInv, FrameInv,
              FrameOK
<1>4. QED
  BY <1>1, <1>2, <1>3 DEF Next

(***************************************************************************)
(* The parser and the code generator keep their types for every bound on   *)
(* the source; in particular every frame's blocks exist and only the       *)
(* function's own call is at the bottom of the recursion.                  *)
(***************************************************************************)
THEOREM TypeCorrect == Spec => []TypeOK
<1>1. Init => Typed
  BY InitTyped
<1>2. Typed /\ [Next]_vars => Typed'
  BY NextTyped
<1>3. Typed => TypeOK
  BY DEF Typed
<1>4. QED
  BY <1>1, <1>2, <1>3, PTL DEF Spec

-----------------------------------------------------------------------------
(***************************************************************************)
(* IfStmt::gen_code takes blocks f and m out of the function again         *)
(* (control_flow.rs:81, 84-85).  Proved here, for every source: no         *)
(* instruction is left naming a block taken out (BranchTargetsAttached).   *)
(*                                                                         *)
(* BranchTargetsAttached alone is not inductive: that f is named by nobody *)
(* when it goes, and that m is the only name an arm's end can add, depend  *)
(* on which blocks the steps still to come may name.  Linked says it: the  *)
(* blocks in use by breaks, returns and loops are never an if's own.       *)
(***************************************************************************)
IsIf(fr) == ast[fr.item].op = "if"
Arms(fr) == {fr.f, fr.m}

(* Some instruction of c names block t. *)
Mentions(c, t) == \E x \in DOMAIN c : \E k \in DOMAIN c[x] : t \in Named(c[x][k])

(* The blocks a break, a return or a back edge may still name. *)
LoopFrames == {k \in DOMAIN frames : ast[frames[k].item].op = "for"}
Kept ==
  {breakPoints[k] : k \in DOMAIN breakPoints}
    \cup ({retBlock[i] : i \in 1..MaxItems} \ {0})
    \cup {frames[k].head : k \in LoopFrames}

(* What holds of the if of frame k. *)
IfLinked(k) ==
  /\ Arms(frames[k]) \subseteq attached
  /\ Arms(frames[k]) \cap Kept = {}
  /\ frames[k].f # frames[k].m
  /\ ast[frames[k].item].els = 0 => ~Mentions(code, frames[k].f)
  /\ \A j \in DOMAIN frames :
       j # k /\ IsIf(frames[j]) => Arms(frames[j]) \cap Arms(frames[k]) = {}

Linked ==
  /\ BranchTargetsAttached
  /\ Kept \subseteq attached
  /\ \A k \in DOMAIN frames : IsIf(frames[k]) => IfLinked(k)

-----------------------------------------------------------------------------
(* What an instruction, and new blocks, add to the blocks mentioned. *)
LEMMA MentionsEmit ==
  ASSUME NEW n \in Nat, NEW c \in [1..n -> Seq(Instr)], NEW b, NEW i \in Instr,
         NEW t, Mentions(Emit(c, b, i), t)
  PROVE  Mentions(c, t) \/ t \in Named(i)
<1> DEFINE e == Emit(c, b, i)
<1>1. /\ DOMAIN e = DOMAIN c /\ DOMAIN c = 1..n
      /\ \A x \in DOMAIN c : e[x] = IF x = b THEN Append(c[x], i) ELSE c[x]
  BY DEF Emit
<1>2. PICK x \in DOMAIN e : \E k \in DOMAIN e[x] : t \in Named(e[x][k])
  BY DEF Mentions
<1>3. PICK k \in DOMAIN e[x] : t \in Named(e[x][k])
  BY <1>2
<1> HIDE DEF e
<1>4. CASE x = b
  <2>1. c[x] \in Seq(Instr) /\ e[x] = Append(c[x], i) /\ x \in DOMAIN c
    BY <1>1, <1>4
  <2>2. /\ DOMAIN e[x] = 1..(Len(c[x]) + 1)
        /\ e[x][Len(c[x]) + 1] = i
        /\ \A j \in DOMAIN c[x] : e[x][j] = c[x][j]
    BY <2>1, PushSeq
  <2>3. k \in DOMAIN c[x] \/ k = Len(c[x]) + 1
    BY <2>1, <2>2
  <2>4. QED
    BY <1>3, <2>1, <2>2, <2>3 DEF Mentions
<1>5. CASE x # b
  BY <1>1, <1>3, <1>5 DEF Mentions
<1>6. QED
  BY <1>4, <1>5

LEMMA MentionsGrow ==
  ASSUME Typed, NEW n \in Nat, NEW t, Mentions(Grow(code, n), t)
  PROVE  Mentions(code, t)
<1> DEFINE g == Grow(code, n)
<1>1. nblocks \in Nat /\ code \in [1..nblocks -> Seq(Instr)]
  BY DEF Typed, TypeOK
<1>2. /\ DOMAIN g = 1..(nblocks + n)
      /\ \A x \in DOMAIN g : g[x] = IF x <= nblocks THEN code[x] ELSE <<>>
  BY DEF Grow
<1>3. PICK x \in DOMAIN g : \E k \in DOMAIN g[x] : t \in Named(g[x][k])
  BY DEF Mentions
<1> HIDE DEF g
<1>4. CASE x <= nblocks
  <2>1. x \in DOMAIN code /\ g[x] = code[x]
    BY <1>1, <1>2, <1>4
  <2>2. QED
    BY <1>3, <2>1 DEF Mentions
<1>5. CASE ~(x <= nblocks)
  <2>1. g[x] = <<>>
    BY <1>2, <1>5
  <2>2. QED
    BY <1>3, <2>1
<1>6. QED
  BY <1>4, <1>5

LEMMA MentionsJoin ==
  ASSUME Typed, NEW head, NEW m \in Nat,
         NEW t, Mentions(JoinArm(code, head, m), t)
  PROVE  Mentions(code, t) \/ t = m
<1>1. /\ nblocks \in Nat /\ pc \in Nat
      /\ code \in [1..nblocks -> Seq(Instr)]
  BY DEF Typed, TypeOK
<1>2. Ins("br", m, 0) \in Instr
  BY <1>1, InsType DEF Terminators
<1>3. Named(Ins("br", m, 0)) \subseteq {m}
  BY DEF Named, Ins
<1>4. Mentions(Emit(code, insert, Ins("br", m, 0)), t) => Mentions(code, t) \/ t = m
  BY <1>1, <1>2, <1>3, MentionsEmit
<1>5. QED
  BY <1>4 DEF JoinArm

LEMMA MentionedAttached ==
  BranchTargetsAttached <=> \A t : Mentions(code, t) => t \in attached
BY DEF BranchTargetsAttached, Mentions

-----------------------------------------------------------------------------
(***************************************************************************)
(* A step that opens no if keeps Linked when it takes away only blocks     *)
(* nobody needs, and names only kept blocks and the join block of an if    *)
(* under way.                                                              *)
(***************************************************************************)
LEMMA LinkKeep ==
  ASSUME Linked, UNCHANGED ast,
         attached' \subseteq attached,
         Kept' \subseteq Kept,
         \A k \in DOMAIN frames' :
           /\ k \in DOMAIN frames
           /\ frames'[k].item = frames[k].item
           /\ frames'[k].f = frames[k].f
           /\ frames'[k].m = frames[k].m,
         \A t : Mentions(code', t) =>
           \/ Mentions(code, t)
           \/ t \in Kept
           \/ \E j \in DOMAIN frames : IsIf(frames[j]) /\ t = frames[j].m,
         \A t \in attached \ attached' :
           /\ ~Mentions(code', t)
           /\ t \notin Kept'
           /\ \A k \in DOMAIN frames' : IsIf(frames[k]) => t \notin Arms(frames[k])
  PROVE  Linked'
<1>1. \A t : Mentions(code', t) => t \in attached'
  BY MentionedAttached DEF Linked, IfLinked, Arms
<1>2. BranchTargetsAttached'
  BY <1>1 DEF BranchTargetsAttached, Mentions
<1>3. Kept' \subseteq attached'
  BY DEF Linked
<1>4. ASSUME NEW k \in DOMAIN frames', IsIf(frames'[k])
      PROVE  IfLinked(k)'
  <2>1. k \in DOMAIN frames /\ IsIf(frames[k]) /\ IfLinked(k)
    BY <1>4 DEF Linked, IsIf
  <2>2. Arms(frames'[k]) = Arms(frames[k])
    BY DEF Arms
  <2>3. Arms(frames'[k]) \subseteq attached' /\ Arms(frames'[k]) \cap Kept' = {}
    BY <2>1, <2>2 DEF IfLinked
  <2>4. frames'[k].f # frames'[k].m
    BY <2>1 DEF IfLinked
  <2>5. ast'[frames'[k].item].els = 0 => ~Mentions(code', frames'[k].f)
    <3>1. ~Mentions(code, frames[k].f) => ~Mentions(code', frames[k].f)
      <4>1. frames[k].f \notin Kept
        BY <2>1 DEF IfLinked, Arms
      <4>2. ASSUME NEW j \in DOMAIN frames, IsIf(frames[j])
            PROVE  frames[k].f # frames[j].m
        BY <2>1, <4>2 DEF IfLinked, Arms
      <4>3. QED
        BY <4>1, <4>2
    <3>2. QED
      BY <2>1, <3>1 DEF IfLinked
  <2>6. ASSUME NEW j \in DOMAIN frames', j # k, IsIf(frames'[j])
        PROVE  Arms(frames'[j]) \cap Arms(frames'[k]) = {}
    BY <2>1, <2>2, <2>6 DEF IfLinked, Arms, IsIf
  <2>7. QED
    BY <2>3, <2>4, <2>5, <2>6 DEF IfLinked, Arms, IsIf
<1>5. QED
  BY <1>2, <1>3, <1>4 DEF Linked, IsIf

(* A step that pushes a frame, names only new blocks, and gives an if two  *)
(* new blocks of its own.                                                  *)
LEMMA LinkGrow ==
  ASSUME Linked, UNCHANGED ast, frames \in Seq(Frame),
         NEW fr \in Frame, frames' = Append(frames, fr),
         NEW new, attached' = attached \cup new, new \cap attached = {},
         Kept' \subseteq Kept \cup (new \ (IF IsIf(fr) THEN Arms(fr) ELSE {})),
         IsIf(fr) => Arms(fr) \subseteq new /\ fr.f # fr.m,
         \A t : Mentions(code', t) =>
           \/ Mentions(code, t)
           \/ t \in new /\ (IsIf(fr) /\ ast[fr.item].els = 0 => t # fr.f)
  PROVE  Linked'
<1>1. /\ DOMAIN frames' = 1..(Len(frames) + 1)
      /\ frames'[Len(frames) + 1] = fr
      /\ \A k \in DOMAIN frames : frames'[k] = frames[k]
      /\ \A k \in DOMAIN frames' : k \in DOMAIN frames \/ k = Len(frames) + 1
      /\ Len(frames) + 1 \notin DOMAIN frames
  BY PushSeq
<1>2. \A t : Mentions(code, t) => t \in attached
  BY MentionedAttached DEF Linked
<1>3. BranchTargetsAttached'
  <2>1. \A t : Mentions(code', t) => t \in attached'
    BY <1>2
  <2>2. QED
    BY <2>1 DEF BranchTargetsAttached, Mentions
<1>4. Kept' \subseteq attached'
  BY DEF Linked
<1>5. ASSUME NEW k \in DOMAIN frames, IsIf(frames[k])
      PROVE  /\ Arms(frames[k]) \subseteq attached /\ Arms(frames[k]) \cap Kept' = {}
             /\ frames[k].f # frames[k].m
             /\ ast[frames[k].item].els = 0 => ~Mentions(code', frames[k].f)
  <2>1. IfLinked(k)
    BY <1>5 DEF Linked
  <2>2. frames[k].f \in attached
    BY <2>1 DEF IfLinked, Arms
  <2>3. QED
    BY <2>1, <2>2 DEF IfLinked
<1>6. ASSUME IsIf(fr)
      PROVE  /\ Arms(fr) \subseteq attached' /\ Arms(fr) \cap Kept' = {}
             /\ fr.f # fr.m
             /\ ast[fr.item].els = 0 => ~Mentions(code', fr.f)
  <2>1. fr.f \notin attached
    BY <1>6 DEF Arms
  <2>2. Arms(fr) \cap Kept = {}
    BY <1>6 DEF Linked
  <2>3. QED
    BY <1>2, <1>6, <2>1, <2>2
<1>7. ASSUME NEW k \in DOMAIN frames', IsIf(frames'[k])
      PROVE  IfLinked(k)'
  <2>1. /\ Arms(frames'[k]) \subseteq attached' /\ Arms(frames'[k]) \cap Kept' = {}
        /\ frames'[k].f # frames'[k].m
        /\ ast'[frames'[k].item].els = 0 => ~Mentions(code', frames'[k].f)
    <3>1. CASE k \in DOMAIN frames
      BY <1>1, <1>5, <1>7, <3>1 DEF IsIf
    <3>2. CASE k = Len(frames) + 1
      BY <1>1, <1>6, <1>7, <3>2 DEF IsIf
    <3>3. QED
      BY <1>1, <3>1, <3>2
  <2>2. ASSUME NEW j \in DOMAIN frames', j # k, IsIf(frames'[j])
        PROVE  Arms(frames'[j]) \cap Arms(frames'[k]) = {}
    <3>1. CASE j \in DOMAIN frames /\ k \in DOMAIN frames
      <4>1. IfLinked(k)
        BY <1>1, <1>7, <3>1 DEF Linked, IsIf
      <4>2. QED
        BY <1>1, <2>2, <3>1, <4>1 DEF IfLinked, IsIf
    <3>2. CASE j \in DOMAIN frames /\ k = Len(frames) + 1
      BY <1>1, <1>5, <1>7, <2>2, <3>2 DEF IsIf
    <3>3. CASE j = Len(frames) + 1 /\ k \in DOMAIN frames
      BY <1>1, <1>5, <1>7, <2>2, <3>3 DEF IsIf
    <3>4. QED
      BY <1>1, <2>2, <3>1, <3>2, <3>3
  <2>3. QED
    BY <2>1, <2>2 DEF IfLinked, Arms, IsIf
<1>8. QED
  BY <1>3, <1>4, <1>7 DEF Linked, IsIf

-----------------------------------------------------------------------------
LEMMA InitLinked == Init => Linked
<1> SUFFICES ASSUME Init PROVE Linked
  OBVIOUS
<1>1. /\ code = <<>> /\ attached = {} /\ frames = <<>> /\ breakPoints = <<>>
      /\ \A i \in 1..MaxItems : retBlock[i] = 0
  BY DEF Init, GenInit
<1>2. DOMAIN code = {} /\ DOMAIN frames = {} /\ DOMAIN breakPoints = {}
  BY <1>1
<1>3. BranchTargetsAttached
  BY <1>2 DEF BranchTargetsAttached
<1>4. Kept = {}
  BY <1>1, <1>2 DEF Kept, LoopFrames
<1>5. QED
  BY <1>2, <1>3, <1>4 DEF Linked

(* While the source is parsed no frame exists, so no if is to be linked. *)
LEMMA ParseLinked ==
  ASSUME Typed, Linked, BodyNext, UNCHANGED genVars
  PROVE  Linked'
<1>1. phase = "parse"
  BY DEF BodyNext, ParseSimple, ParseReturn, ParseOpen, ParseElse, ParseClose,
         EnterStatement
<1>2. frames \in Seq(Frame) /\ Len(frames) = 0
  BY <1>1 DEF Typed, TypeOK, FrameInv
<1>3. UNCHANGED <<code, attached, frames, breakPoints, retBlock>>
  BY DEF genVars
<1>4. DOMAIN frames = {}
  BY <1>2
<1>5. BranchTargetsAttached' /\ Kept' = Kept
  BY <1>3, <1>4 DEF Linked, BranchTargetsAttached, Kept, LoopFrames
<1>6. QED
  BY <1>3, <1>4, <1>5 DEF Linked

(* A step that leaves the frames, the break points and the ret blocks.     *)
LEMMA StayLinked ==
  ASSUME Linked, UNCHANGED <<ast, attached, frames, breakPoints, retBlock>>,
         \A t : Mentions(code', t) =>
           \/ Mentions(code, t)
           \/ t \in Kept
           \/ \E j \in DOMAIN frames : IsIf(frames[j]) /\ t = frames[j].m
  PROVE  Linked'
<1>1. Kept' = Kept
  BY DEF Kept, LoopFrames
<1>2. QED
  BY <1>1, LinkKeep

(* One instruction into the insertion point. *)
LEMMA EmitLinked ==
  ASSUME Typed, Linked,
         UNCHANGED <<ast, attached, frames, breakPoints, retBlock>>,
         NEW c \in [1..nblocks -> Seq(Instr)],
         \A t : Mentions(c, t) => Mentions(code, t) \/ t \in Kept,
         NEW b, NEW i \in Instr, Named(i) \subseteq Kept, code' = Emit(c, b, i)
  PROVE  Linked'
<1>1. nblocks \in Nat
  BY DEF Typed, TypeOK
<1>2. ASSUME NEW t, Mentions(code', t)
      PROVE  Mentions(code, t) \/ t \in Kept
  BY <1>1, <1>2, MentionsEmit
<1>3. QED
  BY <1>2, StayLinked

LEMMA EmitsLinked ==
  ASSUME Typed, Linked, Generate, Statement \/ Return \/ ReturnValue \/ Break
  PROVE  Linked'
<1>1. /\ UNCHANGED <<ast, attached, frames, breakPoints, retBlock>>
      /\ pc # 1
  BY GenFacts DEF Statement, Return, ReturnValue, Break, OnlyEmits, At
<1>2. /\ nblocks \in Nat /\ pc \in Nat
      /\ code \in [1..nblocks -> Seq(Instr)]
      /\ currentFunction \in 1..MaxItems
      /\ retBlock[currentFunction] \in Nat
      /\ breakPoints \in Seq(Nat)
  BY <1>1, GenFacts, StateFacts
<1>3. /\ Ins("inst", 0, 0) \in Instr /\ Named(Ins("inst", 0, 0)) \subseteq Kept
      /\ Ins("store", 0, 0) \in Instr /\ Named(Ins("store", 0, 0)) \subseteq Kept
  BY <1>2, InsType DEF Ins, Named
<1> DEFINE r == retBlock[currentFunction]
           toRet == Ins("br", r, 0)
<1>4. r # 0 => toRet \in Instr /\ Named(toRet) \subseteq Kept
  <2>1. toRet \in Instr
    BY <1>2, InsType DEF Terminators
  <2>2. r # 0 => r \in Kept
    BY <1>2 DEF Kept
  <2>3. Named(toRet) \subseteq {r}
    BY DEF Named, Ins
  <2>4. QED
    BY <2>1, <2>2, <2>3
<1>5. UNCHANGED code => Linked'
  BY <1>1, StayLinked
<1>6. CASE Statement
  <2>1. code' = Emit(code, insert, Ins("inst", 0, 0))
    BY <1>6 DEF Statement
  <2>2. QED
    BY <1>1, <1>2, <1>3, <2>1, EmitLinked
<1>7. CASE Return
  <2>1. code' = IF r = 0 THEN code ELSE Emit(code, insert, toRet)
    BY <1>7 DEF Return
  <2> HIDE DEF r, toRet
  <2>2. QED
    BY <1>1, <1>2, <1>4, <1>5, <2>1, EmitLinked
<1>8. CASE ReturnValue
  <2> DEFINE stored == Emit(code, insert, Ins("store", 0, 0))
  <2>1. \/ UNCHANGED code
        \/ code' = stored
        \/ r # 0 /\ code' = Emit(stored, insert, toRet)
    BY <1>8 DEF ReturnValue
  <2>2. stored \in [1..nblocks -> Seq(Instr)]
    BY <1>2, <1>3, EmitType
  <2>3. \A t : Mentions(stored, t) => Mentions(code, t) \/ t \in Kept
    BY <1>2, <1>3, MentionsEmit
  <2>4. CASE code' = stored
    BY <1>1, <1>2, <1>3, <2>4, EmitLinked
  <2>5. CASE r # 0 /\ code' = Emit(stored, insert, toRet)
    <3> HIDE DEF r, toRet, stored
    <3>1. QED
      BY <1>1, <1>2, <1>4, <2>2, <2>3, <2>5, EmitLinked
  <2>6. QED
    BY <1>5, <2>1, <2>4, <2>5
<1>9. CASE Break
  <2> DEFINE b == BreakPoint
  <2>1. \/ UNCHANGED code
        \/ breakPoints # <<>> /\ code' = Emit(code, insert, Ins("br", b, 0))
    BY <1>9 DEF Break
  <2>2. CASE breakPoints # <<>> /\ code' = Emit(code, insert, Ins("br", b, 0))
    <3>1. Len(breakPoints) \in DOMAIN breakPoints /\ b \in Nat
      BY <1>2, <2>2 DEF BreakPoint
    <3>2. b \in Kept
      BY <3>1 DEF Kept, BreakPoint
    <3>3. Ins("br", b, 0) \in Instr
      BY <1>2, <3>1, InsType DEF Terminators
    <3>4. Named(Ins("br", b, 0)) \subseteq Kept
      BY <3>2 DEF Named, Ins
    <3>5. QED
      BY <1>1, <1>2, <2>2, <3>3, <3>4, EmitLinked
  <2>3. QED
    BY <1>5, <2>1, <2>2
<1>10. QED
  BY <1>6, <1>7, <1>8, <1>9

-----------------------------------------------------------------------------
(* The actions that begin a block. *)
LEMMA BeginFunctionLinked ==
  ASSUME Typed, Linked, Generate, BeginFunction
  PROVE  Linked'
<1> DEFINE fr == [item |-> pc, head |-> nblocks + 1, f |-> 0, m |-> 0]
<1>1. /\ UNCHANGED <<ast, breakPoints, retBlock>>
      /\ code' = Grow(code, 1)
      /\ attached' = attached \cup {nblocks + 1}
      /\ frames' = Append(frames, fr)
      /\ ast[pc].op \in {"fn", "closure"}
  BY GenFacts DEF BeginFunction, At
<1>2. /\ nblocks \in Nat /\ pc \in Nat /\ attached \subseteq 1..nblocks
      /\ frames \in Seq(Frame)
  BY StateFacts DEF FramesOK
<1>3. fr \in Frame /\ ~IsIf(fr) /\ ast[fr.item].op # "for"
  BY <1>1, <1>2 DEF Frame, IsIf
<1>4. nblocks + 1 \notin attached
  BY <1>2
<1>5. Kept' \subseteq Kept
  <2> HIDE DEF fr
  <2>1. /\ DOMAIN frames' = 1..(Len(frames) + 1)
        /\ frames'[Len(frames) + 1] = fr
        /\ \A k \in DOMAIN frames : frames'[k] = frames[k]
        /\ \A k \in DOMAIN frames' : k \in DOMAIN frames \/ k = Len(frames) + 1
    BY <1>1, <1>2, <1>3, PushSeq
  <2>2. QED
    BY <1>1, <1>3, <2>1 DEF Kept, LoopFrames
<1>6. \A t : Mentions(code', t) => Mentions(code, t)
  BY <1>1, MentionsGrow
<1> HIDE DEF fr
<1> DEFINE new == {nblocks + 1}
<1>7. /\ attached' = attached \cup new
      /\ new \cap attached = {}
      /\ Kept' \subseteq Kept \cup (new \ (IF IsIf(fr) THEN Arms(fr) ELSE {}))
  BY <1>1, <1>4, <1>5
<1> HIDE DEF new
<1>8. QED
  BY <1>1, <1>2, <1>3, <1>6, <1>7, LinkGrow

LEMMA BeginForLinked ==
  ASSUME Typed, Linked, Generate, BeginFor
  PROVE  Linked'
<1> DEFINE cond == nblocks + 1
           body == nblocks + 2
           merge == nblocks + 3
           new == cond..merge
           fr == [item |-> pc, head |-> cond, f |-> 0, m |-> merge]
           grown == Grow(code, 3)
           step == Emit(grown, insert, Ins("inst", 0, 0))
           init == Emit(step, insert, Ins("br", cond, 0))
<1>1. /\ UNCHANGED <<ast, retBlock>>
      /\ code' = Emit(init, cond, Ins("condbr", body, merge))
      /\ attached' = attached \cup new
      /\ breakPoints' = Append(breakPoints, merge)
      /\ frames' = Append(frames, fr)
      /\ ast[pc].op = "for"
  BY GenFacts DEF BeginFor, At
<1>2. /\ nblocks \in Nat /\ pc \in Nat /\ attached \subseteq 1..nblocks
      /\ frames \in Seq(Frame) /\ breakPoints \in Seq(Nat)
      /\ code \in [1..nblocks -> Seq(Instr)]
  BY StateFacts DEF FramesOK
<1>3. /\ cond \in Nat /\ body \in Nat /\ merge \in Nat
      /\ cond \in new /\ body \in new /\ merge \in new /\ nblocks + 3 \in Nat
      /\ new \cap attached = {}
  BY <1>2
<1>4. fr \in Frame /\ ~IsIf(fr) /\ fr.head = cond
  BY <1>1, <1>2, <1>3 DEF Frame, IsIf
<1>5. Kept' \subseteq Kept \cup new
  <2> HIDE DEF fr, cond, merge, new
  <2>1. /\ frames'[Len(frames) + 1] = fr
        /\ \A k \in DOMAIN frames : frames'[k] = frames[k]
        /\ DOMAIN frames' = 1..(Len(frames) + 1)
        /\ \A k \in DOMAIN frames' : k \in DOMAIN frames \/ k = Len(frames) + 1
    BY <1>1, <1>2, <1>4, PushSeq
  <2>2. /\ breakPoints'[Len(breakPoints) + 1] = merge
        /\ \A k \in DOMAIN breakPoints : breakPoints'[k] = breakPoints[k]
        /\ DOMAIN breakPoints' = 1..(Len(breakPoints) + 1)
        /\ \A k \in DOMAIN breakPoints' : k \in DOMAIN breakPoints \/ k = Len(breakPoints) + 1
    <3>1. Len(breakPoints) \in Nat /\ DOMAIN breakPoints = 1..Len(breakPoints)
      BY <1>2
    <3>2. /\ breakPoints'[Len(breakPoints) + 1] = merge
          /\ \A k \in DOMAIN breakPoints : breakPoints'[k] = breakPoints[k]
          /\ DOMAIN breakPoints' = 1..(Len(breakPoints) + 1)
      BY <1>1, <1>2, <1>3, PushSeq
    <3>3. \A k \in 1..(Len(breakPoints) + 1) :
            k \in 1..Len(breakPoints) \/ k = Len(breakPoints) + 1
      BY <3>1
    <3>4. QED
      BY <3>1, <3>2, <3>3
  <2>3. \A k \in DOMAIN breakPoints' : breakPoints'[k] \in Kept \cup new
    BY <1>3, <2>2 DEF Kept
  <2>4. \A k \in LoopFrames' : frames'[k].head \in Kept \cup new
    BY <1>1, <1>3, <1>4, <2>1 DEF Kept, LoopFrames
  <2>5. \A i \in 1..MaxItems : retBlock'[i] \in Kept \cup {0}
    BY <1>1 DEF Kept
  <2>6. QED
    BY <2>3, <2>4, <2>5 DEF Kept
<1>6. \A t : Mentions(code', t) => Mentions(code, t) \/ t \in new
  <2>1. /\ Ins("inst", 0, 0) \in Instr /\ Named(Ins("inst", 0, 0)) = {}
        /\ Ins("br", cond, 0) \in Instr /\ Named(Ins("br", cond, 0)) \subseteq new
        /\ Ins("condbr", body, merge) \in Instr
        /\ Named(Ins("condbr", body, merge)) \subseteq new
    <3> HIDE DEF cond, body, merge, new
    <3>1. QED
      BY <1>2, <1>3, InsType DEF Terminators, Named, Ins
  <2> HIDE DEF new
  <2>2. grown \in [1..(nblocks + 3) -> Seq(Instr)]
    BY <1>2, GrowType
  <2>3. step \in [1..(nblocks + 3) -> Seq(Instr)]
    BY <1>3, <2>1, <2>2, EmitType
  <2>4. init \in [1..(nblocks + 3) -> Seq(Instr)]
    BY <1>3, <2>1, <2>3, EmitType
  <2> HIDE DEF cond, body, merge
  <2>5. ASSUME NEW t, Mentions(code', t)
        PROVE  Mentions(code, t) \/ t \in new
    <3>1. Mentions(init, t) \/ t \in new
      BY <1>1, <1>3, <2>1, <2>4, <2>5, MentionsEmit
    <3>2. Mentions(init, t) => Mentions(step, t) \/ t \in new
      BY <1>3, <2>1, <2>3, MentionsEmit
    <3>3. Mentions(step, t) => Mentions(grown, t)
      BY <1>3, <2>1, <2>2, MentionsEmit
    <3>4. Mentions(grown, t) => Mentions(code, t)
      BY MentionsGrow
    <3>5. QED
      BY <3>1, <3>2, <3>3, <3>4
  <2>6. QED
    BY <2>5
<1> HIDE DEF fr, new
<1>7. QED
  BY <1>1, <1>2, <1>3, <1>4, <1>5, <1>6, LinkGrow

LEMMA BeginIfLinked ==
  ASSUME Typed, Linked, Generate, BeginIf
  PROVE  Linked'
<1> USE BodyAssumption DEF BodyAssumption
<1> DEFINE needsRet == NeedsRet(pc)
           n == IF needsRet THEN 4 ELSE 3
           t == nblocks + n - 2
           f == nblocks + n - 1
           m == nblocks + n
           new == (nblocks + 1)..(nblocks + n)
           no == IF ast[pc].els # 0 THEN f ELSE m
           fr == [item |-> pc, head |-> t, f |-> f, m |-> m]
<1>1. /\ UNCHANGED <<ast, breakPoints>>
      /\ code' = Emit(Grow(code, n), insert, Ins("condbr", t, no))
      /\ attached' = attached \cup new
      /\ retBlock' = IF needsRet
           THEN [retBlock EXCEPT ![currentFunction] = nblocks + 1] ELSE retBlock
      /\ frames' = Append(frames, fr)
      /\ ast[pc].op = "if"
      /\ n \in {3, 4} /\ (needsRet => n = 4)
  BY GenFacts DEF BeginIf, At
<1> HIDE DEF needsRet, n
<1>2. /\ nblocks \in Nat /\ pc \in Nat /\ attached \subseteq 1..nblocks
      /\ frames \in Seq(Frame)
      /\ code \in [1..nblocks -> Seq(Instr)]
      /\ retBlock \in [1..MaxItems -> Nat]
  BY StateFacts DEF FramesOK
<1>3. /\ t \in Nat /\ f \in Nat /\ m \in Nat /\ nblocks + n \in Nat /\ n \in Nat
      /\ {t, f, m} \subseteq new /\ f # m /\ f # t
      /\ needsRet => nblocks + 1 \in new \ {f, m}
      /\ new \cap attached = {}
  <2>1. n \in {3, 4} /\ (needsRet => n = 4)
    BY <1>1
  <2>2. new \cap attached = {}
    BY <1>2, <2>1
  <2>3. /\ t \in Nat /\ f \in Nat /\ m \in Nat /\ nblocks + n \in Nat /\ n \in Nat
        /\ t \in new /\ f \in new /\ m \in new /\ f # m /\ f # t
    BY <1>2, <2>1
  <2>4. needsRet => nblocks + 1 \in new \ {f, m}
    BY <1>2, <2>1
  <2>5. QED
    BY <2>2, <2>3, <2>4
<1>4. fr \in Frame /\ IsIf(fr) /\ Arms(fr) = {f, m} /\ fr.item = pc /\ fr.f = f /\ fr.m = m
  BY <1>1, <1>2, <1>3 DEF Frame, IsIf, Arms
<1> HIDE DEF t, f, m, new, fr
<1>5. Kept' \subseteq Kept \cup (new \ {f, m})
  <2>1. /\ frames'[Len(frames) + 1] = fr
        /\ \A k \in DOMAIN frames : frames'[k] = frames[k]
        /\ DOMAIN frames' = 1..(Len(frames) + 1)
        /\ \A k \in DOMAIN frames' : k \in DOMAIN frames \/ k = Len(frames) + 1
    BY <1>1, <1>2, <1>4, PushSeq
  <2>2. {frames'[k].head : k \in LoopFrames'} \subseteq {frames[k].head : k \in LoopFrames}
    BY <1>1, <1>4, <2>1 DEF LoopFrames
  <2>3. \A i \in 1..MaxItems : retBlock'[i] = retBlock[i]
                               \/ (needsRet /\ retBlock'[i] = nblocks + 1)
    BY <1>1, <1>2
  <2>4. {retBlock'[i] : i \in 1..MaxItems}
          \subseteq {retBlock[i] : i \in 1..MaxItems} \cup (new \ {f, m})
    BY <1>3, <2>3
  <2>5. {breakPoints'[k] : k \in DOMAIN breakPoints'}
          = {breakPoints[k] : k \in DOMAIN breakPoints}
    BY <1>1
  <2>6. QED
    BY <2>2, <2>4, <2>5 DEF Kept
<1>6. ASSUME NEW u, Mentions(code', u)
      PROVE  \/ Mentions(code, u)
             \/ u \in new /\ (IsIf(fr) /\ ast[fr.item].els = 0 => u # fr.f)
  <2>1. /\ Ins("condbr", t, no) \in Instr
        /\ Named(Ins("condbr", t, no)) \subseteq {t, no}
    BY <1>2, <1>3, InsType DEF Terminators, Named, Ins
  <2>2. Grow(code, n) \in [1..(nblocks + n) -> Seq(Instr)]
    BY <1>2, <1>3, GrowType
  <2>3. Mentions(Grow(code, n), u) \/ u \in {t, no}
    BY <1>1, <1>3, <1>6, <2>1, <2>2, MentionsEmit
  <2>4. Mentions(Grow(code, n), u) => Mentions(code, u)
    BY <1>3, MentionsGrow
  <2>5. u \in {t, no} => u \in new /\ (ast[pc].els = 0 => u # f)
    BY <1>3
  <2>6. QED
    BY <1>4, <2>3, <2>4, <2>5
<1>7. /\ Kept' \subseteq Kept \cup (new \ (IF IsIf(fr) THEN Arms(fr) ELSE {}))
      /\ IsIf(fr) => Arms(fr) \subseteq new /\ fr.f # fr.m
  BY <1>3, <1>4, <1>5
<1>8. QED
  BY <1>1, <1>2, <1>3, <1>4, <1>6, <1>7, LinkGrow

-----------------------------------------------------------------------------
(* The actions that end a block. *)
LEMMA PopKept ==
  ASSUME Typed, Generate, pc # 1
  PROVE  /\ \A k \in DOMAIN Pop : k \in DOMAIN frames /\ Pop[k] = frames[k] /\ k # Len(frames)
         /\ Len(frames) \in DOMAIN frames /\ frames[Len(frames)] = Top
<1>1. frames \in Seq(Frame) /\ Len(frames) > 0
  BY GenFacts, StateFacts DEF FramesOK
<1>2. /\ DOMAIN Pop = 1..(Len(frames) - 1)
      /\ \A k \in 1..(Len(frames) - 1) : Pop[k] = frames[k]
  BY <1>1, PopSeq DEF Pop
<1>3. \A k \in 1..(Len(frames) - 1) : k \in DOMAIN frames /\ k # Len(frames)
  BY <1>1
<1>4. QED
  BY <1>1, <1>2, <1>3 DEF Top

LEMMA EndFunctionLinked ==
  ASSUME Typed, Linked, Generate, EndFunction
  PROVE  Linked'
<1> DEFINE b == IF retBlock[Top.item] # 0 THEN retBlock[Top.item] ELSE insert
           done == Emit(code, b, Ins("ret", 0, 0))
<1>1. /\ code' = done \/ code' = Emit(done, b, Ins("inst", 0, 0))
      /\ frames' = Pop
      /\ UNCHANGED <<ast, attached, breakPoints, retBlock>>
      /\ pc # 1
  BY GenFacts DEF EndFunction, At
<1>2. /\ nblocks \in Nat /\ pc \in Nat
      /\ code \in [1..nblocks -> Seq(Instr)]
  BY StateFacts
<1>3. /\ Ins("ret", 0, 0) \in Instr /\ Named(Ins("ret", 0, 0)) = {}
      /\ Ins("inst", 0, 0) \in Instr /\ Named(Ins("inst", 0, 0)) = {}
  BY <1>2, InsType DEF Terminators, Named, Ins
<1>4. ASSUME NEW t, Mentions(code', t)
      PROVE  Mentions(code, t)
  <2>1. done \in [1..nblocks -> Seq(Instr)]
    BY <1>2, <1>3, EmitType
  <2>2. Mentions(done, t) => Mentions(code, t)
    BY <1>2, <1>3, MentionsEmit
  <2> HIDE DEF done
  <2>3. Mentions(Emit(done, b, Ins("inst", 0, 0)), t) => Mentions(done, t)
    BY <1>2, <1>3, <2>1, MentionsEmit
  <2>4. QED
    BY <1>1, <1>4, <2>2, <2>3
<1>5. Kept' \subseteq Kept
  BY <1>1, PopKept DEF Kept, LoopFrames
<1>6. QED
  BY <1>1, <1>4, <1>5, PopKept, LinkKeep

LEMMA EndForLinked ==
  ASSUME Typed, Linked, Generate, EndFor
  PROVE  Linked'
<1>1. /\ ast[Top.item].op = "for"
      /\ code' = Emit(code, insert, Ins("br", Top.head, 0))
      /\ breakPoints' = SubSeq(breakPoints, 1, Len(breakPoints) - 1)
      /\ frames' = Pop
      /\ UNCHANGED <<ast, attached, retBlock>>
      /\ pc # 1
  BY GenFacts DEF EndFor, At
<1>2. /\ nblocks \in Nat /\ pc \in Nat
      /\ code \in [1..nblocks -> Seq(Instr)]
      /\ breakPoints \in Seq(Nat)
      /\ Top.head \in Nat
  BY <1>1, StateFacts, GenFacts DEF Frame
<1>3. Top.head \in Kept
  BY <1>1, PopKept DEF Kept, LoopFrames
<1>4. /\ Ins("br", Top.head, 0) \in Instr
      /\ Named(Ins("br", Top.head, 0)) \subseteq Kept
  BY <1>2, <1>3, InsType DEF Terminators, Named, Ins
<1>5. \A t : Mentions(code', t) => Mentions(code, t) \/ t \in Kept
  BY <1>1, <1>2, <1>4, MentionsEmit
<1>6. \A k \in DOMAIN breakPoints' :
        k \in DOMAIN breakPoints /\ breakPoints'[k] = breakPoints[k]
  <2>1. CASE Len(breakPoints) > 0
    <3>1. /\ DOMAIN breakPoints' = 1..(Len(breakPoints) - 1)
          /\ \A k \in 1..(Len(breakPoints) - 1) : breakPoints'[k] = breakPoints[k]
      BY <1>1, <1>2, <2>1, PopSeq
    <3>2. \A k \in 1..(Len(breakPoints) - 1) : k \in DOMAIN breakPoints
      BY <1>2
    <3>3. QED
      BY <3>1, <3>2
  <2>2. CASE Len(breakPoints) = 0
    <3>1. breakPoints' = <<>>
      BY <1>1, <1>2, <2>2, SubSeqEmpty
    <3>2. QED
      BY <3>1
  <2>3. QED
    BY <1>2, <2>1, <2>2
<1>7. Kept' \subseteq Kept
  BY <1>1, <1>6, PopKept DEF Kept, LoopFrames
<1>8. QED
  BY <1>1, <1>5, <1>7, PopKept, LinkKeep

LEMMA BeginElseLinked ==
  ASSUME Typed, Linked, Generate, BeginElse
  PROVE  Linked'
<1>1. /\ ast[Top.item].op = "if"
      /\ code' = JoinArm(code, Top.head, Top.m)
      /\ frames' = [frames EXCEPT ![Len(frames)].head = Top.f]
      /\ UNCHANGED <<ast, attached, breakPoints, retBlock>>
      /\ pc # 1
  BY GenFacts DEF BeginElse, At
<1>2. Top \in Frame /\ frames \in Seq(Frame)
  BY <1>1, GenFacts, StateFacts DEF FramesOK
<1>3. /\ DOMAIN frames' = DOMAIN frames
      /\ \A k \in DOMAIN frames :
           /\ frames'[k].item = frames[k].item
           /\ frames'[k].f = frames[k].f /\ frames'[k].m = frames[k].m
           /\ k # Len(frames) => frames'[k] = frames[k]
  <2> DEFINE fr == [Top EXCEPT !.head = Top.f]
  <2>1. /\ fr \in Frame /\ fr.item = Top.item /\ fr.f = Top.f /\ fr.m = Top.m
    BY <1>2 DEF Frame
  <2>2. Len(frames) \in DOMAIN frames /\ frames[Len(frames)] = Top
    BY <1>1, PopKept
  <2>3. frames' = [frames EXCEPT ![Len(frames)] = fr]
    BY <1>1, <2>2
  <2> HIDE DEF fr
  <2>4. /\ DOMAIN frames' = DOMAIN frames
        /\ \A k \in DOMAIN frames : frames'[k] = IF k = Len(frames) THEN fr ELSE frames[k]
    BY <2>3
  <2>5. QED
    BY <2>1, <2>2, <2>4
<1>4. /\ Len(frames) \in DOMAIN frames /\ IsIf(frames[Len(frames)])
      /\ Top.m = frames[Len(frames)].m
  BY <1>1, PopKept DEF IsIf
<1>5. Kept' \subseteq Kept
  <2>1. \A k \in LoopFrames' : k \in LoopFrames /\ frames'[k].head = frames[k].head
    BY <1>1, <1>3, <1>4 DEF LoopFrames, IsIf
  <2>2. QED
    BY <1>1, <2>1 DEF Kept
<1>6. ASSUME NEW t, Mentions(code', t)
      PROVE  \/ Mentions(code, t)
             \/ \E j \in DOMAIN frames : IsIf(frames[j]) /\ t = frames[j].m
  <2>1. Top.m \in Nat
    BY <1>2 DEF Frame
  <2>2. Mentions(code, t) \/ t = Top.m
    BY <1>1, <1>6, <2>1, MentionsJoin
  <2>3. QED
    BY <1>4, <2>2
<1>7. QED
  BY <1>1, <1>3, <1>5, <1>6, LinkKeep

(***************************************************************************)
(* The step that takes blocks away.  Without an else, f was never named    *)
(* and the arm's end names m only; m goes when nothing names it.           *)
(***************************************************************************)
LEMMA EndIfLinked ==
  ASSUME Typed, Linked, Generate, EndIf
  PROVE  Linked'
<1> DEFINE removed == IF ast[Top.item].els = 0 THEN {Top.f} ELSE {}
           dead == Unused(code', Top.m)
<1>1. /\ ast[Top.item].op = "if"
      /\ code' = JoinArm(code, Top.head, Top.m)
      /\ attached' = attached \ (removed \cup IF dead THEN {Top.m} ELSE {})
      /\ frames' = Pop
      /\ UNCHANGED <<ast, breakPoints, retBlock>>
      /\ pc # 1
  BY GenFacts DEF EndIf, At
<1>2. /\ Len(frames) \in DOMAIN frames /\ IsIf(frames[Len(frames)])
      /\ Top = frames[Len(frames)]
      /\ IfLinked(Len(frames))
      /\ Top.m \in Nat
  BY <1>1, PopKept, GenFacts DEF IsIf, Linked, Frame
<1>3. Kept' \subseteq Kept
  BY <1>1, PopKept DEF Kept, LoopFrames
<1>4. \A t : Mentions(code', t) => Mentions(code, t) \/ t = Top.m
  BY <1>1, <1>2, MentionsJoin
<1>5. ASSUME NEW t \in attached \ attached'
      PROVE  /\ ~Mentions(code', t)
             /\ t \notin Kept'
             /\ \A k \in DOMAIN frames' : IsIf(frames[k]) => t \notin Arms(frames[k])
  <2>1. t \in Arms(Top)
    BY <1>1 DEF Arms
  <2>2. t \notin Kept'
    BY <1>2, <1>3, <2>1 DEF IfLinked
  <2>3. ASSUME NEW k \in DOMAIN frames', IsIf(frames[k])
        PROVE  t \notin Arms(frames[k])
    <3>1. k \in DOMAIN frames /\ k # Len(frames)
      BY <1>1, PopKept
    <3>2. QED
      BY <1>2, <2>1, <2>3, <3>1 DEF IfLinked
  <2>4. ~Mentions(code', t)
    <3>1. CASE t = Top.m
      <4>1. t # Top.f
        BY <1>2, <3>1 DEF IfLinked
      <4>2. dead
        BY <1>1, <3>1, <4>1
      <4>3. QED
        BY <3>1, <4>2 DEF Unused, Mentions
    <3>2. CASE t # Top.m
      <4>1. t = Top.f /\ ast[Top.item].els = 0
        BY <1>1, <3>2
      <4>2. ~Mentions(code, t)
        BY <1>2, <4>1 DEF IfLinked
      <4>3. QED
        BY <1>4, <3>2, <4>2
    <3>3. QED
      BY <3>1, <3>2
  <2>5. QED
    BY <2>2, <2>3, <2>4
<1>6. \A t : Mentions(code', t) =>
        \/ Mentions(code, t)
        \/ \E j \in DOMAIN frames : IsIf(frames[j]) /\ t = frames[j].m
  BY <1>2, <1>4
<1>7. attached' \subseteq attached
  BY <1>1
<1>8. QED
  BY <1>1, <1>3, <1>5, <1>6, <1>7, PopKept, LinkKeep

-----------------------------------------------------------------------------
LEMMA NextLinked == Typed /\ Linked /\ [Next]_vars => Linked'
<1> SUFFICES ASSUME Typed, Linked, [Next]_vars PROVE Linked'
  OBVIOUS
<1>1. CASE BodyNext /\ UNCHANGED genVars
  BY <1>1, ParseLinked
<1>2. CASE Generate
  BY <1>2, EmitsLinked, BeginFunctionLinked, BeginIfLinked, BeginForLinked,
     EndFunctionLinked, BeginElseLinked, EndIfLinked, EndForLinked DEF Generate
<1>3. CASE UNCHANGED vars
  <2>1. UNCHANGED <<ast, attached, frames, breakPoints, retBlock, code>>
    BY <1>3 DEF vars, bodyVars, genVars
  <2>2. QED
    BY <2>1, StayLinked
<1>4. QED
  BY <1>1, <1>2, <1>3 DEF Next

(***************************************************************************)
(* Whatever the source, no instruction names a block the generator has     *)
(* taken out of its function: remove_from_parent (control_flow.rs:81, 85)  *)
(* never leaves a dangling branch.                                         *)
(***************************************************************************)
THEOREM NoDanglingBranch == Spec => []BranchTargetsAttached
<1>1. Init => Typed /\ Linked
  BY InitTyped, InitLinked
<1>2. Typed /\ Linked /\ [Next]_vars => (Typed /\ Linked)'
  BY NextTyped, NextLinked
<1>3. Linked => BranchTargetsAttached
  BY DEF Linked
<1>4. QED
  BY <1>1, <1>2, <1>3, PTL DEF Spec
=============================================================================

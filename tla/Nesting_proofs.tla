---------------------------- MODULE Nesting_proofs ----------------------------
(***************************************************************************)
(* What the parser's raw pointer current_block, the generator's stacks and *)
(* its function-wide ret block have to do with how the source nests,       *)
(* proved for every source: the flag `returns' is exact                    *)
(* (ReturnsFlagExact), a break leaves the innermost loop around it         *)
(* (BreakLeavesInnermostLoop), a return reaches the ret                    *)
(* (ReturnsReachRet).                                                      *)
(*                                                                         *)
(* All three rest on one view of the AST: the set of blocks open in front  *)
(* of an item.  The parser's recursion is that set at the end of what it   *)
(* has parsed (Bracketed), the generator's frames are that set in front of *)
(* pc (Walked), and the stack of break points is its loops (Targeted).     *)
(***************************************************************************)
EXTENDS ControlFlow_proofs

(* The blocks of a that are open in front of its item p, and the innermost. *)
Open(a, p) ==
  {j \in 1..(p - 1) : a[j].op \in Blocks /\ \A i \in DOMAIN a : a[i].opener = j => p <= i}
Inner(a, p, j) == j \in Open(a, p) /\ \A k \in Open(a, p) : k <= j

(* Every item stands in a block; an `else' or end closes the innermost. *)
Nested(a) ==
  \A i \in DOMAIN a :
    /\ i # 1 => \E j \in DOMAIN a : Inner(a, i, j)
    /\ a[i].opener # 0 <=> a[i].op \in {"else", "end"}
    /\ a[i].opener # 0 => Inner(a, i, a[i].opener)
    /\ a[i].op = "else" => a[a[i].opener].op = "if"

Increasing(s) == \A k, l \in DOMAIN s : k < l => s[k] < s[l]
Entries(s) == {s[k] : k \in DOMAIN s}

(* The parser's recursion is the stack of the blocks open at its end. *)
Bracketed ==
  /\ Nested(ast)
  /\ Increasing(opened)
  /\ Entries(opened) = Open(ast, Len(ast) + 1)

Flagged ==
  \A j \in DOMAIN ast :
    ast[j].op \in Blocks =>
      (ast[j].returns <=> \E i \in DOMAIN ast : ast[i].op \in Returns /\ Inner(ast, i, j))

(* The item whose frame generates block j: an else is its if's. *)
FrameItem(j) == IF ast[j].op = "else" THEN ast[j].opener ELSE j
ItemsOf(fs) == [k \in DOMAIN fs |-> fs[k].item]
FrameItems == ItemsOf(frames)
Walked ==
  /\ Increasing(FrameItems)
  /\ Entries(FrameItems) = {FrameItem(j) : j \in Open(ast, pc)}

Instrs(c) == UNION {{c[b][k] : k \in DOMAIN c[b]} : b \in DOMAIN c}
Emitted == pc <= Len(ast) + 1 /\ \A i \in Instrs(code) : i.item \in 1..(pc - 1)

(* The loops around item p, and that t is the exit of the loop of item j. *)
Loops(p) == {j \in Open(ast, p) : ast[j].op = "for"}
Tests(c, j) == {i \in Instrs(c) : i.op = "condbr" /\ i.item = j}
Exit(c, j, t) == Tests(c, j) # {} /\ \A i \in Tests(c, j) : i.no = t

LoopStack(s, c, p) ==
  /\ Len(s) = Len(breakPoints)
  /\ Increasing(s)
  /\ Entries(s) = Loops(p)
  /\ \A m \in DOMAIN s : Exit(c, s[m], breakPoints[m])
Targeted == \E s \in Seq(1..MaxItems) : LoopStack(s, code, pc)

Leaving(c, i) ==
  ast[i.item].op = "break" =>
    \E j \in Loops(i.item) :
      (\A l \in Loops(i.item) : l <= j) /\ Exit(c, j, i.yes)
Left == \A i \in Instrs(code) : Leaving(code, i)

Returning == {i \in Instrs(code) : i.op = "br" /\ ast[i.item].op \in Returns}
Returned ==
  /\ pc = 1 => currentFunction = 0
  /\ NoClosure =>
       /\ currentFunction \in {0, 1}
       /\ \A i \in Returning : i.yes = retBlock[1] /\ i.yes # 0
       /\ phase = "done" => \A i \in Returning : \E k \in DOMAIN code[i.yes] : code[i.yes][k].op = "ret"

(* Which returns branch: those generated after the ret block was made. *)
Branches(c, i) == \E x \in Instrs(c) : x.op = "br" /\ x.item = i
Answered ==
  /\ pc = 1 => retBlock[1] = 0
  /\ phase = "done" => pc = Len(ast) + 1
  /\ NoClosure =>
       /\ retBlock[1] # 0 <=> HasRet(pc)
       /\ phase # "error" =>
            \A i \in 1..(pc - 1) : ast[i].op \in Returns => (HasRet(i) <=> Branches(code, i))
-----------------------------------------------------------------------------
(* How the open blocks change with an item appended. *)
Extends(a, b) ==
  /\ Len(b) = Len(a) + 1
  /\ \A i \in DOMAIN a : b[i].op = a[i].op /\ b[i].opener = a[i].opener

LEMMA OpenGrows ==
  ASSUME NEW a \in Seq(Item), NEW b \in Seq(Item), Extends(a, b),
         \A i \in DOMAIN a : a[i].opener <= Len(a),
         NEW c, c = b[Len(a) + 1].opener, c # Len(a) + 1
  PROVE  /\ \A p \in 1..(Len(a) + 1) : Open(b, p) = Open(a, p)
         /\ Open(b, Len(a) + 2) =
              (Open(a, Len(a) + 1) \cup
                 IF b[Len(a) + 1].op \in Blocks THEN {Len(a) + 1} ELSE {}) \ {c}
<1> DEFINE n == Len(a)
<1>1. /\ n \in Nat /\ DOMAIN a = 1..n /\ DOMAIN b = 1..(n + 1)
      /\ \A i \in 1..n : b[i].op = a[i].op /\ b[i].opener = a[i].opener
      /\ \A i \in 1..n : a[i].opener <= n
      /\ b[n + 1].opener = c /\ c # n + 1
  BY DEF Extends
<1> HIDE DEF n
<1>2. ASSUME NEW p \in 1..(n + 1) PROVE Open(b, p) = Open(a, p)
  <2>1. ASSUME NEW j \in 1..(p - 1)
        PROVE  (\A i \in 1..(n + 1) : b[i].opener = j => p <= i)
                 <=> (\A i \in 1..n : a[i].opener = j => p <= i)
    <3>1. p <= n + 1
      BY <1>1
    <3>2. \A i \in 1..(n + 1) : i \in 1..n \/ i = n + 1
      BY <1>1
    <3>3. QED
      BY <1>1, <3>1, <3>2
  <2>2. \A j \in 1..(p - 1) : j \in 1..n
    BY <1>1
  <2>3. \A j \in 1..(p - 1) : b[j].op = a[j].op
    BY <1>1, <2>2
  <2>4. /\ Open(b, p) = {j \in 1..(p - 1) : b[j].op \in Blocks
                           /\ \A i \in 1..(n + 1) : b[i].opener = j => p <= i}
        /\ Open(a, p) = {j \in 1..(p - 1) : a[j].op \in Blocks
                           /\ \A i \in 1..n : a[i].opener = j => p <= i}
    BY <1>1 DEF Open
  <2>5. QED
    BY <2>1, <2>3, <2>4
<1>3. ASSUME NEW j \in 1..n
      PROVE  (\A i \in 1..(n + 1) : b[i].opener = j => n + 2 <= i)
               <=> (\A i \in 1..n : a[i].opener = j => n + 1 <= i) /\ c # j
  <2>1. (\A i \in 1..(n + 1) : b[i].opener = j => n + 2 <= i)
          <=> (\A i \in 1..(n + 1) : b[i].opener # j)
    BY <1>1
  <2>2. (\A i \in 1..n : a[i].opener = j => n + 1 <= i) <=> (\A i \in 1..n : a[i].opener # j)
    BY <1>1
  <2>3. (\A i \in 1..(n + 1) : b[i].opener # j) <=> (\A i \in 1..n : a[i].opener # j) /\ c # j
    <3>1. \A i : i \in 1..(n + 1) <=> i \in 1..n \/ i = n + 1
      BY <1>1
    <3>2. b[n + 1].opener = c /\ \A i \in 1..n : b[i].opener = a[i].opener
      BY <1>1
    <3>3. QED
      BY <3>1, <3>2
  <2>4. QED
    BY <2>1, <2>2, <2>3
<1>4. \A i \in 1..(n + 1) : b[i].opener # n + 1
  BY <1>1
<1>5. ASSUME NEW j
      PROVE  j \in Open(b, n + 2) <=>
               j \in (Open(a, n + 1) \cup IF b[n + 1].op \in Blocks THEN {n + 1} ELSE {}) \ {c}
  <2>1. CASE j \in 1..n
    <3>1. j \in 1..(n + 2 - 1) /\ j \in 1..(n + 1 - 1) /\ j # n + 1 /\ b[j].op = a[j].op
      BY <1>1, <2>1
    <3>2. j \in Open(b, n + 2) <=>
            a[j].op \in Blocks /\ \A i \in 1..(n + 1) : b[i].opener = j => n + 2 <= i
      <4>1. Open(b, n + 2) = {k \in 1..(n + 2 - 1) : b[k].op \in Blocks
                                /\ \A i \in 1..(n + 1) : b[i].opener = k => n + 2 <= i}
        BY <1>1 DEF Open
      <4>2. QED
        BY <3>1, <4>1
    <3>3. j \in Open(a, n + 1) <=>
            a[j].op \in Blocks /\ \A i \in 1..n : a[i].opener = j => n + 1 <= i
      <4>1. Open(a, n + 1) = {k \in 1..(n + 1 - 1) : a[k].op \in Blocks
                                /\ \A i \in 1..n : a[i].opener = k => n + 1 <= i}
        BY <1>1 DEF Open
      <4>2. QED
        BY <3>1, <4>1
    <3>4. QED
      BY <1>3, <2>1, <3>1, <3>2, <3>3
  <2>2. CASE j = n + 1
    BY <1>1, <1>4, <2>2 DEF Open
  <2>3. CASE j \notin 1..(n + 1)
    BY <1>1, <2>3 DEF Open
  <2>4. QED
    BY <1>1, <2>1, <2>2, <2>3
<1>6. QED
  BY <1>2, <1>5 DEF n

(* An item that closes the innermost block, or none, keeps the nesting. *)
LEMMA NestedGrows ==
  ASSUME NEW a \in Seq(Item), NEW b \in Seq(Item), Extends(a, b), Nested(a),
         NEW x \in DOMAIN a, Inner(a, Len(a) + 1, x),
         b[Len(a) + 1].opener # 0 <=> b[Len(a) + 1].op \in {"else", "end"},
         b[Len(a) + 1].opener \in {0, x},
         b[Len(a) + 1].op = "else" => a[x].op = "if"
  PROVE  /\ Nested(b)
         /\ \A p \in 1..(Len(a) + 1) : \A j : Inner(b, p, j) <=> Inner(a, p, j)
         /\ Open(b, Len(a) + 2) =
              (Open(a, Len(a) + 1) \cup
                 IF b[Len(a) + 1].op \in Blocks THEN {Len(a) + 1} ELSE {})
              \ {b[Len(a) + 1].opener}
<1> DEFINE n == Len(a)
<1>1. n \in Nat /\ DOMAIN a = 1..n /\ DOMAIN b = 1..(n + 1) /\ x \in 1..n
  BY DEF Extends
<1>2. \A i \in 1..n : a[i].opener <= n
  <2>1. \A i \in 1..n : a[i].opener # 0 => a[i].opener \in 1..(i - 1)
    BY <1>1 DEF Nested, Inner, Open
  <2>2. QED
    BY <1>1, <2>1
<1>3. b[n + 1].opener # n + 1
  BY <1>1
<1>4. /\ \A p \in 1..(n + 1) : Open(b, p) = Open(a, p)
      /\ Open(b, n + 2) = (Open(a, n + 1) \cup
                             IF b[n + 1].op \in Blocks THEN {n + 1} ELSE {}) \ {b[n + 1].opener}
  BY <1>1, <1>2, <1>3, OpenGrows
<1>5. \A p \in 1..(n + 1) : \A j : Inner(b, p, j) <=> Inner(a, p, j)
  BY <1>4 DEF Inner
<1>6. ASSUME NEW i \in 1..(n + 1)
      PROVE  /\ i # 1 => \E j \in DOMAIN b : Inner(b, i, j)
             /\ b[i].opener # 0 <=> b[i].op \in {"else", "end"}
             /\ b[i].opener # 0 => Inner(b, i, b[i].opener)
             /\ b[i].op = "else" => b[b[i].opener].op = "if"
  <2>1. CASE i \in 1..n
    <3>1. b[i].op = a[i].op /\ b[i].opener = a[i].opener
      BY <1>1, <2>1 DEF Extends
    <3>2. a[i].opener # 0 => a[i].opener \in 1..n
      BY <1>1, <2>1 DEF Nested, Inner, Open
    <3>3. a[i].opener # 0 => b[a[i].opener].op = a[a[i].opener].op
      BY <1>1, <3>2 DEF Extends
    <3>4. \A j \in DOMAIN a : j \in DOMAIN b
      BY <1>1
    <3>5. QED
      BY <1>1, <1>5, <2>1, <3>1, <3>3, <3>4 DEF Nested
  <2>2. CASE i = n + 1
    <3>1. Inner(b, i, x) /\ x \in DOMAIN b /\ b[x].op = a[x].op
      BY <1>1, <1>5, <2>2 DEF Extends
    <3>2. QED
      BY <2>2, <3>1
  <2>3. QED
    BY <1>1, <2>1, <2>2
<1>7. Nested(b)
  BY <1>1, <1>6 DEF Nested
<1>8. QED
  BY <1>4, <1>5, <1>7

-----------------------------------------------------------------------------
(* What a turn of the parser appends, and where: the innermost open block. *)
New == ast'[Len(ast) + 1]
Keeps == \A i \in DOMAIN ast : ast'[i].returns = ast[i].returns
Plain ==
  /\ New.op \notin Blocks \cup {"else", "end"} /\ New.opener = 0
  /\ UNCHANGED opened
  /\ IF New.op \in Returns
       THEN \A i \in DOMAIN ast : ast'[i].returns = IF i = Innermost THEN TRUE ELSE ast[i].returns
       ELSE Keeps
Opens ==
  /\ New.op \in Blocks \ {"else"} /\ New.opener = 0 /\ ~New.returns
  /\ opened' = Append(opened, Len(ast) + 1)
  /\ Keeps
Turns ==
  /\ New.op = "else" /\ New.opener = Innermost /\ ~New.returns
  /\ ast[Innermost].op = "if"
  /\ opened' = Append(CloseInnermost, Len(ast) + 1)
  /\ Keeps
Closes ==
  /\ New.op = "end" /\ New.opener = Innermost
  /\ opened' = CloseInnermost
  /\ Keeps

LEMMA ParseFacts ==
  ASSUME Typed, BodyNext
  PROVE  /\ phase = "parse"
         /\ ast \in Seq(Item) /\ Len(ast) \in Nat
         /\ opened \in Seq(1..MaxItems) /\ Len(opened) > 0
         /\ Innermost \in DOMAIN ast
<1>1. phase = "parse"
  BY DEF BodyNext, ParseSimple, ParseReturn, ParseOpen, ParseElse, ParseClose,
         EnterStatement
<1>2. QED
  BY <1>1 DEF Typed, TypeOK, BodyTypeOK, ParseInv, Innermost

(* A generation step stays within the AST. *)
LEMMA GenPlace ==
  ASSUME Typed, Generate
  PROVE  /\ ast \in Seq(Item) /\ ast' = ast
         /\ pc \in DOMAIN ast /\ pc \in Nat /\ pc' = pc + 1
         /\ pc \in 1..(Len(ast) + 1) /\ pc' <= Len(ast) + 1
<1>1. ast \in Seq(Item)
  BY DEF Typed, TypeOK, BodyTypeOK
<1>2. pc \in 1..Len(ast) /\ pc' = pc + 1 /\ ast' = ast
  BY GenFacts
<1>3. Len(ast) \in Nat /\ DOMAIN ast = 1..Len(ast)
  BY <1>1
<1>4. QED
  BY <1>1, <1>2, <1>3

LEMMA AppendItem ==
  ASSUME NEW a \in Seq(Item), NEW b \in Seq(Item), NEW item \in Item,
         ast' = Append(b, item), ast = a, Len(b) = Len(a),
         \A i \in DOMAIN a : b[i].op = a[i].op /\ b[i].opener = a[i].opener
  PROVE  /\ ast' \in Seq(Item) /\ Extends(ast, ast') /\ New = item
         /\ \A i \in DOMAIN ast : ast'[i] = b[i]
BY DEF Extends, New

LEMMA ParseStep ==
  ASSUME Typed, BodyNext
  PROVE  /\ ast' \in Seq(Item) /\ Extends(ast, ast')
         /\ Plain \/ Opens \/ Turns \/ Closes
<1> USE BodyAssumption DEF BodyAssumption
<1>1. /\ ast \in Seq(Item) /\ Len(ast) \in Nat
      /\ Innermost \in DOMAIN ast /\ ast[Innermost] \in Item /\ Innermost \in Nat
      /\ phase = "parse"
  BY ParseFacts
<1>2. \A op \in Ops, opener \in Nat, void \in BOOLEAN :
        /\ NewItem(op, opener, void) \in Item
        /\ NewItem(op, opener, void).op = op
        /\ NewItem(op, opener, void).opener = opener
        /\ ~NewItem(op, opener, void).returns
  BY DEF NewItem, Item
<1>3. CASE \E op \in Simples \ Returns : ParseSimple(op)
  <2>1. PICK op \in Simples \ Returns : ParseSimple(op)
    BY <1>3
  <2>2. op \in Ops /\ op \notin Returns /\ op \notin Blocks \cup {"else", "end"}
    BY DEF AllSimples, Ops, Returns, Blocks
  <2>3. ast' = Append(ast, NewItem(op, 0, FALSE)) /\ UNCHANGED opened
    BY <2>1 DEF ParseSimple
  <2>4. NewItem(op, 0, FALSE) \in Item
    BY <1>2, <2>2 DEF NewItem
  <2>5. /\ ast' \in Seq(Item) /\ Extends(ast, ast') /\ New = NewItem(op, 0, FALSE)
        /\ \A i \in DOMAIN ast : ast'[i] = ast[i]
    BY <1>1, <2>3, <2>4, AppendItem
  <2>6. New.op = op /\ New.opener = 0
    <3>1. NewItem(op, 0, FALSE).op = op /\ NewItem(op, 0, FALSE).opener = 0
      BY <1>2, <2>2 DEF NewItem
    <3>2. QED
      BY <2>5, <3>1
  <2>7. QED
    BY <2>2, <2>3, <2>5, <2>6 DEF Plain, Keeps
<1>4. CASE \E op \in Simples \cap Returns : ParseReturn(op)
  <2>1. PICK op \in Simples \cap Returns : ParseReturn(op)
    BY <1>4
  <2> DEFINE flagged == [ast EXCEPT ![Innermost].returns = TRUE]
  <2>2. op \in Ops /\ op \notin Blocks \cup {"else", "end"}
    BY DEF Ops, Returns, Blocks
  <2>3. ast' = Append(flagged, NewItem(op, 0, FALSE)) /\ UNCHANGED opened
    BY <2>1 DEF ParseReturn, EnterStatement
  <2>4. /\ flagged \in Seq(Item) /\ Len(flagged) = Len(ast)
        /\ \A i \in DOMAIN ast :
             /\ flagged[i].op = ast[i].op /\ flagged[i].opener = ast[i].opener
             /\ flagged[i].returns = IF i = Innermost THEN TRUE ELSE ast[i].returns
    <3> DEFINE r == [ast[Innermost] EXCEPT !.returns = TRUE]
    <3>1. /\ r \in Item /\ r.op = ast[Innermost].op
          /\ r.opener = ast[Innermost].opener /\ r.returns = TRUE
      BY <1>1 DEF Item
    <3>2. flagged = [ast EXCEPT ![Innermost] = r]
      BY <1>1
    <3>3. Innermost \in 1..Len(ast)
      BY <1>1
    <3> HIDE DEF r, flagged
    <3>4. /\ flagged \in Seq(Item) /\ Len(flagged) = Len(ast)
          /\ \A i \in DOMAIN ast : flagged[i] = IF i = Innermost THEN r ELSE ast[i]
      BY <1>1, <3>1, <3>2, <3>3, PutSeq
    <3>5. QED
      BY <3>1, <3>4
  <2> HIDE DEF flagged
  <2>5. NewItem(op, 0, FALSE) \in Item
    BY <1>2, <2>2 DEF NewItem
  <2>6. /\ ast' \in Seq(Item) /\ Extends(ast, ast') /\ New = NewItem(op, 0, FALSE)
        /\ \A i \in DOMAIN ast : ast'[i] = flagged[i]
    <3>1. \A i \in DOMAIN ast : flagged[i].op = ast[i].op /\ flagged[i].opener = ast[i].opener
      BY <2>4
    <3>2. flagged \in Seq(Item) /\ Len(flagged) = Len(ast)
      BY <2>4
    <3>3. QED
      BY <1>1, <2>3, <2>5, <3>1, <3>2, AppendItem
  <2>7. New.op \in Returns /\ New.op \notin Blocks \cup {"else", "end"} /\ New.opener = 0
    <3>1. New.op = op /\ New.opener = 0
      <4>1. NewItem(op, 0, FALSE).op = op /\ NewItem(op, 0, FALSE).opener = 0
        BY <1>2, <2>2 DEF NewItem
      <4>2. QED
        BY <2>6, <4>1
    <3>2. QED
      BY <2>2, <3>1
  <2>8. \A i \in DOMAIN ast :
          ast'[i].returns = IF i = Innermost THEN TRUE ELSE ast[i].returns
    BY <2>4, <2>6
  <2>9. Plain
    BY <2>3, <2>7, <2>8 DEF Plain
  <2>10. QED
    BY <2>6, <2>9
<1>5. CASE \E op \in Openers, void \in VoidFns : ParseOpen(op, void)
  <2>1. PICK op \in Openers, void \in VoidFns : ParseOpen(op, void)
    BY <1>5
  <2> DEFINE v == op = "closure" /\ void
  <2>2. op \in Ops /\ op \in Blocks \ {"else"} /\ v \in BOOLEAN
    BY DEF AllOpeners, Ops, Blocks
  <2>3. ast' = Append(ast, NewItem(op, 0, v)) /\ opened' = Append(opened, Len(ast) + 1)
    BY <2>1 DEF ParseOpen
  <2> HIDE DEF v
  <2>4. NewItem(op, 0, v) \in Item
    BY <1>2, <2>2 DEF NewItem
  <2>5. /\ ast' \in Seq(Item) /\ Extends(ast, ast') /\ New = NewItem(op, 0, v)
        /\ \A i \in DOMAIN ast : ast'[i] = ast[i]
    BY <1>1, <2>3, <2>4, AppendItem
  <2>6. New.op = op /\ New.opener = 0 /\ ~New.returns
    BY <1>2, <2>2, <2>5
  <2>7. QED
    BY <2>2, <2>3, <2>5, <2>6 DEF Opens, Keeps
<1>6. CASE ParseElse
  <2> DEFINE linked == [ast EXCEPT ![Innermost].els = Len(ast) + 1]
  <2>1. "else" \in Ops
    BY DEF Ops, Blocks
  <2>2. /\ ast' = Append(linked, NewItem("else", Innermost, FALSE))
        /\ opened' = Append(CloseInnermost, Len(ast) + 1)
        /\ ast[Innermost].op = "if"
    BY <1>6 DEF ParseElse
  <2>3. /\ linked \in Seq(Item) /\ Len(linked) = Len(ast)
        /\ \A i \in DOMAIN ast :
             /\ linked[i].op = ast[i].op /\ linked[i].opener = ast[i].opener
             /\ linked[i].returns = ast[i].returns
    <3> DEFINE r == [ast[Innermost] EXCEPT !.els = Len(ast) + 1]
    <3>1. /\ r \in Item /\ r.op = ast[Innermost].op
          /\ r.opener = ast[Innermost].opener /\ r.returns = ast[Innermost].returns
      <4>1. Len(ast) + 1 \in Nat
        BY <1>1
      <4>2. QED
        BY <1>1, <4>1 DEF Item
    <3>2. linked = [ast EXCEPT ![Innermost] = r]
      BY <1>1
    <3>3. Innermost \in 1..Len(ast)
      BY <1>1
    <3> HIDE DEF r, linked
    <3>4. /\ linked \in Seq(Item) /\ Len(linked) = Len(ast)
          /\ \A i \in DOMAIN ast : linked[i] = IF i = Innermost THEN r ELSE ast[i]
      BY <1>1, <3>1, <3>2, <3>3, PutSeq
    <3>5. QED
      BY <3>1, <3>4
  <2> HIDE DEF linked
  <2>4. NewItem("else", Innermost, FALSE) \in Item
    BY <1>1, <1>2, <2>1
  <2>5. /\ ast' \in Seq(Item) /\ Extends(ast, ast') /\ New = NewItem("else", Innermost, FALSE)
        /\ \A i \in DOMAIN ast : ast'[i] = linked[i]
    <3>1. \A i \in DOMAIN ast : linked[i].op = ast[i].op /\ linked[i].opener = ast[i].opener
      BY <2>3
    <3>2. linked \in Seq(Item) /\ Len(linked) = Len(ast)
      BY <2>3
    <3>3. QED
      BY <1>1, <2>2, <2>4, <3>1, <3>2, AppendItem
  <2>6. New.op = "else" /\ New.opener = Innermost /\ ~New.returns
    <3>1. /\ NewItem("else", Innermost, FALSE).op = "else"
          /\ NewItem("else", Innermost, FALSE).opener = Innermost
          /\ ~NewItem("else", Innermost, FALSE).returns
      BY DEF NewItem
    <3>2. QED
      BY <2>5, <3>1
  <2>7. QED
    BY <2>2, <2>3, <2>5, <2>6 DEF Turns, Keeps
<1>7. CASE ParseClose
  <2>1. "end" \in Ops
    BY DEF Ops
  <2>2. /\ ast' = Append(ast, NewItem("end", Innermost, FALSE))
        /\ opened' = CloseInnermost
    BY <1>7 DEF ParseClose
  <2>3. NewItem("end", Innermost, FALSE) \in Item
    BY <1>1, <1>2, <2>1
  <2>4. /\ ast' \in Seq(Item) /\ Extends(ast, ast') /\ New = NewItem("end", Innermost, FALSE)
        /\ \A i \in DOMAIN ast : ast'[i] = ast[i]
    BY <1>1, <2>2, <2>3, AppendItem
  <2>5. New.op = "end" /\ New.opener = Innermost
    <3>1. /\ NewItem("end", Innermost, FALSE).op = "end"
          /\ NewItem("end", Innermost, FALSE).opener = Innermost
      BY DEF NewItem
    <3>2. QED
      BY <2>4, <3>1
  <2>6. QED
    BY <2>2, <2>4, <2>5 DEF Closes, Keeps
<1>8. QED
  BY <1>3, <1>4, <1>5, <1>6, <1>7 DEF BodyNext

(* The stack of open blocks is the AST's, after every turn. *)
LEMMA TopIsInner ==
  ASSUME NEW s \in Seq(Nat), Len(s) > 0, Increasing(s), NEW a \in Seq(Item),
         Entries(s) = Open(a, Len(a) + 1)
  PROVE  Inner(a, Len(a) + 1, s[Len(s)])
<1>1. /\ Len(s) \in Nat /\ Len(s) \in DOMAIN s
      /\ \A k \in DOMAIN s : k \in 1..Len(s) /\ s[k] \in Nat
  OBVIOUS
<1>2. s[Len(s)] \in Open(a, Len(a) + 1)
  BY <1>1 DEF Entries
<1>3. ASSUME NEW j \in Open(a, Len(a) + 1) PROVE j <= s[Len(s)]
  <2>1. PICK k \in DOMAIN s : s[k] = j
    BY DEF Entries
  <2>2. k < Len(s) \/ k = Len(s)
    BY <1>1
  <2>3. k < Len(s) => s[k] < s[Len(s)]
    BY <1>1 DEF Increasing
  <2>4. s[k] \in Nat /\ s[Len(s)] \in Nat
    BY <1>1
  <2>5. QED
    BY <2>1, <2>2, <2>3, <2>4
<1>4. QED
  BY <1>2, <1>3 DEF Inner

(* Pushing and popping an increasing sequence. *)
LEMMA PushIncreasing ==
  ASSUME NEW s \in Seq(Nat), Increasing(s), NEW e \in Nat, \A j \in Entries(s) : j < e
  PROVE  /\ Append(s, e) \in Seq(Nat)
         /\ Increasing(Append(s, e))
         /\ Entries(Append(s, e)) = Entries(s) \cup {e}
<1>1. /\ Append(s, e) \in Seq(Nat) /\ Len(s) \in Nat
      /\ DOMAIN Append(s, e) = 1..(Len(s) + 1) /\ DOMAIN s = 1..Len(s)
      /\ Append(s, e)[Len(s) + 1] = e
      /\ \A k \in DOMAIN s : Append(s, e)[k] = s[k]
  BY PushSeq
<1>2. Increasing(Append(s, e))
  BY <1>1 DEF Increasing, Entries
<1>3. Entries(Append(s, e)) = Entries(s) \cup {e}
  <2>1. \A k \in 1..(Len(s) + 1) : k \in 1..Len(s) \/ k = Len(s) + 1
    BY <1>1
  <2>2. \A k \in 1..Len(s) : k \in 1..(Len(s) + 1)
    BY <1>1
  <2>3. Len(s) + 1 \in 1..(Len(s) + 1)
    BY <1>1
  <2>4. QED
    BY <1>1, <2>1, <2>2, <2>3 DEF Entries
<1>4. QED
  BY <1>1, <1>2, <1>3

LEMMA PopIncreasing ==
  ASSUME NEW s \in Seq(Nat), Increasing(s), Len(s) > 0
  PROVE  LET t == SubSeq(s, 1, Len(s) - 1)
         IN  /\ t \in Seq(Nat)
             /\ Increasing(t)
             /\ Entries(t) = Entries(s) \ {s[Len(s)]}
             /\ \A j \in Entries(t) : j < s[Len(s)]
<1> DEFINE t == SubSeq(s, 1, Len(s) - 1)
<1>1. /\ t \in Seq(Nat) /\ Len(s) \in Nat
      /\ DOMAIN t = 1..(Len(s) - 1) /\ DOMAIN s = 1..Len(s)
      /\ \A k \in 1..(Len(s) - 1) : t[k] = s[k]
      /\ \A k \in DOMAIN s : s[k] \in Nat
  BY PopSeq
<1> HIDE DEF t
<1>2. \A k \in 1..(Len(s) - 1) : k \in DOMAIN s /\ k < Len(s) /\ s[k] < s[Len(s)]
  <2>1. \A k \in 1..(Len(s) - 1) : k \in DOMAIN s /\ k < Len(s)
    BY <1>1
  <2>2. Len(s) \in DOMAIN s
    BY <1>1
  <2>3. QED
    BY <2>1, <2>2 DEF Increasing
<1>3. Increasing(t)
  <2>1. \A k \in DOMAIN t : k \in DOMAIN s /\ t[k] = s[k]
    BY <1>1, <1>2
  <2>2. QED
    BY <2>1 DEF Increasing
<1>4. Entries(t) = Entries(s) \ {s[Len(s)]}
  <2>1. \A k \in DOMAIN s : k \in 1..(Len(s) - 1) \/ k = Len(s)
    BY <1>1
  <2>2. \A k \in 1..(Len(s) - 1) : s[k] # s[Len(s)]
    BY <1>1, <1>2
  <2>3. QED
    BY <1>1, <1>2, <2>1, <2>2 DEF Entries
<1>5. \A j \in Entries(t) : j < s[Len(s)]
  BY <1>1, <1>2 DEF Entries
<1>6. QED
  BY <1>1, <1>3, <1>4, <1>5 DEF t

LEMMA ParseInner ==
  ASSUME Typed, BodyNext, Bracketed
  PROVE  Inner(ast, Len(ast) + 1, Innermost)
<1>1. /\ opened \in Seq(Nat) /\ Len(opened) > 0 /\ ast \in Seq(Item)
  <2>1. opened \in Seq(1..MaxItems)
    BY ParseFacts
  <2>2. QED
    BY <2>1, ParseFacts, BodyAssumption DEF BodyAssumption
<1>2. QED
  BY <1>1, TopIsInner DEF Bracketed, Innermost

LEMMA ParseNested ==
  ASSUME Typed, BodyNext, Bracketed
  PROVE  /\ Nested(ast')
         /\ \A p \in 1..(Len(ast) + 1) : \A j : Inner(ast', p, j) <=> Inner(ast, p, j)
         /\ Open(ast', Len(ast) + 2) =
              (Open(ast, Len(ast) + 1) \cup
                 IF New.op \in Blocks THEN {Len(ast) + 1} ELSE {})
              \ {New.opener}
<1>1. /\ ast \in Seq(Item) /\ ast' \in Seq(Item) /\ Extends(ast, ast')
      /\ Innermost \in DOMAIN ast /\ Nested(ast)
      /\ Inner(ast, Len(ast) + 1, Innermost)
  BY ParseFacts, ParseStep, ParseInner DEF Bracketed
<1>2. /\ New.opener # 0 <=> New.op \in {"else", "end"}
      /\ New.opener \in {0, Innermost}
      /\ New.op = "else" => ast[Innermost].op = "if"
  <2>1. Innermost # 0
    BY <1>1
  <2>2. Plain \/ Opens \/ Turns \/ Closes
    BY ParseStep
  <2>3. CASE Plain
    BY <2>3 DEF Plain
  <2>4. CASE Opens
    BY <2>4 DEF Opens, Blocks
  <2>5. CASE Turns
    BY <2>1, <2>5 DEF Turns
  <2>6. CASE Closes
    BY <2>1, <2>6 DEF Closes
  <2>7. QED
    BY <2>2, <2>3, <2>4, <2>5, <2>6
<1>3. QED
  BY <1>1, <1>2, NestedGrows DEF New

LEMMA ParseBracketed ==
  ASSUME Typed, BodyNext, Bracketed
  PROVE  Bracketed'
<1> DEFINE n == Len(ast)
<1>1. /\ opened \in Seq(Nat) /\ Len(opened) > 0 /\ n \in Nat
      /\ Increasing(opened) /\ Entries(opened) = Open(ast, n + 1)
      /\ Innermost = opened[Len(opened)] /\ Innermost # 0
      /\ Len(ast') = n + 1
  <2>1. opened \in Seq(1..MaxItems) /\ Len(opened) > 0 /\ n \in Nat
    BY ParseFacts
  <2>2. opened \in Seq(Nat)
    BY <2>1, BodyAssumption DEF BodyAssumption
  <2>3. Len(ast') = n + 1
    BY ParseStep DEF Extends
  <2>4. Innermost # 0
    BY ParseFacts
  <2>5. QED
    BY <2>1, <2>2, <2>3, <2>4 DEF Bracketed, Innermost
<1>2. /\ Nested(ast')
      /\ Open(ast', n + 2) = (Open(ast, n + 1) \cup
           IF New.op \in Blocks THEN {n + 1} ELSE {}) \ {New.opener}
  BY ParseNested
<1>3. \A j \in Open(ast, n + 1) : j \in Nat /\ j < n + 1 /\ j # 0 /\ j # n + 1
  BY <1>1 DEF Open
<1>4. /\ CloseInnermost \in Seq(Nat) /\ Increasing(CloseInnermost)
      /\ Entries(CloseInnermost) = Open(ast, n + 1) \ {Innermost}
  BY <1>1, PopIncreasing DEF CloseInnermost
<1> HIDE DEF n
<1>5. Increasing(opened') /\ Entries(opened') = Open(ast', n + 2)
  <2>1. CASE Plain
    <3>1. New.op \notin Blocks /\ New.opener = 0 /\ opened' = opened
      BY <2>1 DEF Plain
    <3>2. QED
      BY <1>1, <1>2, <1>3, <3>1
  <2>2. CASE Opens
    <3>1. New.op \in Blocks /\ New.opener = 0 /\ opened' = Append(opened, n + 1)
      BY <2>2 DEF Opens, n
    <3>2. Increasing(opened') /\ Entries(opened') = Open(ast, n + 1) \cup {n + 1}
      BY <1>1, <1>3, <3>1, PushIncreasing
    <3>3. Open(ast', n + 2) = (Open(ast, n + 1) \cup {n + 1}) \ {0}
      BY <1>2, <3>1
    <3>4. 0 \notin Open(ast, n + 1) \cup {n + 1}
      BY <1>1, <1>3
    <3>5. QED
      BY <3>2, <3>3, <3>4
  <2>3. CASE Turns
    <3>1. /\ New.op \in Blocks /\ New.opener = Innermost
          /\ opened' = Append(CloseInnermost, n + 1)
      BY <2>3 DEF Turns, Blocks, n
    <3>2. \A j \in Entries(CloseInnermost) : j < n + 1
      BY <1>3, <1>4
    <3>3. /\ Increasing(opened')
          /\ Entries(opened') = (Open(ast, n + 1) \ {Innermost}) \cup {n + 1}
      BY <1>1, <1>4, <3>1, <3>2, PushIncreasing
    <3>4. Innermost # n + 1
      <4>1. Len(opened) \in DOMAIN opened
        BY <1>1
      <4>2. Innermost \in Open(ast, n + 1)
        BY <1>1, <4>1 DEF Entries
      <4>3. QED
        BY <1>3, <4>2
    <3>5. QED
      BY <1>2, <3>1, <3>3, <3>4
  <2>4. CASE Closes
    <3>1. New.op \notin Blocks /\ New.opener = Innermost /\ opened' = CloseInnermost
      BY <2>4 DEF Closes, Blocks
    <3>2. QED
      BY <1>2, <1>4, <3>1
  <2>5. QED
    BY <2>1, <2>2, <2>3, <2>4, ParseStep
<1>6. Len(ast') + 1 = n + 2
  BY <1>1
<1>7. QED
  BY <1>2, <1>5, <1>6 DEF Bracketed

-----------------------------------------------------------------------------
(* The flag `returns' of the blocks, after every turn. *)
LEMMA ParseFlagged ==
  ASSUME Typed, BodyNext, Bracketed, Flagged
  PROVE  Flagged'
<1> DEFINE n == Len(ast)
<1>1. /\ n \in Nat /\ DOMAIN ast = 1..n /\ DOMAIN ast' = 1..(n + 1)
      /\ Innermost \in 1..n
      /\ \A i \in 1..n : ast'[i].op = ast[i].op
  <2>1. ast' \in Seq(Item) /\ Extends(ast, ast')
    BY ParseStep
  <2>2. ast \in Seq(Item) /\ n \in Nat /\ Innermost \in DOMAIN ast
    BY ParseFacts
  <2>3. QED
    BY <2>1, <2>2 DEF Extends
<1>2. /\ \A p \in 1..(n + 1) : \A j : Inner(ast', p, j) <=> Inner(ast, p, j)
      /\ Inner(ast, n + 1, Innermost)
  BY ParseNested, ParseInner
<1>3. \A p \in 1..(n + 1) : \A j, k : Inner(ast, p, j) /\ Inner(ast, p, k) => j = k
  BY <1>1 DEF Inner, Open
<1>4. \A p \in 1..(n + 1) : ~Inner(ast, p, n + 1)
  BY <1>1 DEF Inner, Open
<1> HIDE DEF n
(* What stands in block j now. *)
<1>5. ASSUME NEW j
      PROVE  (\E i \in 1..(n + 1) : ast'[i].op \in Returns /\ Inner(ast', i, j))
               <=> \/ \E i \in 1..n : ast[i].op \in Returns /\ Inner(ast, i, j)
                   \/ New.op \in Returns /\ Inner(ast, n + 1, j)
  <2>1. \A i \in 1..(n + 1) : i \in 1..n \/ i = n + 1
    BY <1>1
  <2>2. n + 1 \in 1..(n + 1) /\ 1..n \subseteq 1..(n + 1)
    BY <1>1
  <2>3. New = ast'[n + 1]
    BY DEF New, n
  <2>4. QED
    BY <1>1, <1>2, <2>1, <2>2, <2>3
<1>6. ASSUME NEW j \in 1..n, ast[j].op \in Blocks
      PROVE  ast'[j].returns <=> \E i \in 1..(n + 1) : ast'[i].op \in Returns /\ Inner(ast', i, j)
  <2>1. ast[j].returns <=> \E i \in 1..n : ast[i].op \in Returns /\ Inner(ast, i, j)
    BY <1>1, <1>6 DEF Flagged
  <2>2. CASE New.op \in Returns
    <3>1. ast'[j].returns = IF j = Innermost THEN TRUE ELSE ast[j].returns
      BY <1>1, <2>2, ParseStep DEF Plain, Opens, Turns, Closes, Returns, Blocks
    <3>2. Inner(ast, n + 1, j) <=> j = Innermost
      BY <1>1, <1>2, <1>3
    <3>3. QED
      BY <1>5, <2>1, <2>2, <3>1, <3>2
  <2>3. CASE New.op \notin Returns
    <3>1. ast'[j].returns = ast[j].returns
      BY <1>1, <2>3, ParseStep DEF Plain, Opens, Turns, Closes, Keeps
    <3>2. QED
      BY <1>5, <2>1, <2>3, <3>1
  <2>4. QED
    BY <2>2, <2>3
<1>7. ASSUME ast'[n + 1].op \in Blocks
      PROVE  ast'[n + 1].returns
               <=> \E i \in 1..(n + 1) : ast'[i].op \in Returns /\ Inner(ast', i, n + 1)
  <2>1. New = ast'[n + 1]
    BY DEF New, n
  <2>2. ~New.returns
    BY <1>7, <2>1, ParseStep DEF Plain, Opens, Turns, Closes, Blocks
  <2>3. 1..n \subseteq 1..(n + 1) /\ n + 1 \in 1..(n + 1)
    BY <1>1
  <2>4. QED
    BY <1>4, <1>5, <2>1, <2>2, <2>3
<1>8. QED
  <2>1. \A j \in 1..(n + 1) : j \in 1..n \/ j = n + 1
    BY <1>1
  <2>2. QED
    BY <1>1, <1>6, <1>7, <2>1 DEF Flagged

(***************************************************************************)
(* In a nested AST, Encloses and BlockOf are the blocks open in front of a *)
(* statement and the innermost of them.                                    *)
(***************************************************************************)
LEMMA EnclosesOpen ==
  ASSUME ast \in Seq(Item), Nested(ast),
         NEW i \in DOMAIN ast, ast[i].opener = 0, NEW j \in DOMAIN ast
  PROVE  Encloses(j, i) <=> j \in Open(ast, i)
<1> DEFINE n == Len(ast)
<1>1. n \in Nat /\ DOMAIN ast = 1..n /\ i \in 1..n /\ j \in 1..n
  OBVIOUS
<1>2. \A p \in 1..n : ast[p].opener = j => j \in Open(ast, p)
  BY <1>1 DEF Nested, Inner
<1>3. \A p, q \in 1..n : ast[p].opener = j /\ ast[q].opener = j => p = q
  <2>1. \A p, q \in 1..n : ast[p].opener = j /\ ast[q].opener = j => p <= q
    BY <1>1, <1>2 DEF Open
  <2>2. QED
    BY <2>1
<1>4. CASE \E c \in 1..n : ast[c].opener = j
  <2>1. PICK c \in 1..n : ast[c].opener = j
    BY <1>4
  <2>2. Closer(j) = c
    BY <1>1, <1>3, <2>1 DEF Closer
  <2>3. c # i
    BY <1>1, <2>1
  <2>4. (\A p \in 1..n : ast[p].opener = j => i <= p) <=> i <= c
    BY <1>3, <2>1
  <2>5. j \in Open(ast, i) <=> j < i /\ ast[j].op \in Blocks /\ i <= c
    BY <1>1, <2>4 DEF Open
  <2>6. i <= c <=> i < c
    BY <1>1, <2>1, <2>3
  <2>7. QED
    BY <2>2, <2>5, <2>6 DEF Encloses
<1>5. CASE \A c \in 1..n : ast[c].opener # j
  <2>1. Closer(j) = n + 1
    BY <1>1, <1>5 DEF Closer
  <2>2. j \in Open(ast, i) <=> j < i /\ ast[j].op \in Blocks
    BY <1>1, <1>5 DEF Open
  <2>3. i < n + 1
    BY <1>1
  <2>4. QED
    BY <2>1, <2>2, <2>3 DEF Encloses
<1>6. QED
  BY <1>4, <1>5

LEMMA BlockOfInner ==
  ASSUME ast \in Seq(Item), Nested(ast),
         NEW i \in DOMAIN ast, i # 1, ast[i].opener = 0, NEW j \in DOMAIN ast
  PROVE  BlockOf(i) = j <=> Inner(ast, i, j)
<1>1. \A k \in DOMAIN ast : k \in Open(ast, i) <=> Encloses(k, i)
  BY EnclosesOpen
<1>2. \A k \in Open(ast, i) : k \in DOMAIN ast
  <2>1. \A k \in 1..(i - 1) : k \in DOMAIN ast
    OBVIOUS
  <2>2. QED
    BY <2>1 DEF Open
<1>3. PICK x \in DOMAIN ast : Inner(ast, i, x)
  BY DEF Nested
<1>4. \A k \in DOMAIN ast :
        (Encloses(k, i) /\ \A l \in DOMAIN ast : Encloses(l, i) => l <= k) <=> k = x
  <2>1. \A k \in DOMAIN ast : k \in Nat
    OBVIOUS
  <2>2. QED
    BY <1>1, <1>2, <1>3, <2>1 DEF Inner
<1>5. BlockOf(i) = x
  BY <1>3, <1>4 DEF BlockOf
<1>6. Inner(ast, i, j) <=> j = x
  BY <1>1, <1>2, <1>3, <1>4 DEF Inner
<1>7. QED
  BY <1>5, <1>6

LEMMA FlaggedExact ==
  ASSUME Typed, Bracketed, Flagged
  PROVE  ReturnsFlagExact
<1>1. ast \in Seq(Item) /\ Nested(ast)
  BY DEF Typed, TypeOK, BodyTypeOK, Bracketed
<1>2. ASSUME NEW i \in DOMAIN ast, ast[i].op \in Returns
      PROVE  i # 1 /\ ast[i].opener = 0
  <2>1. ast[i].op # "fn" /\ ast[i].op \notin {"else", "end"}
    BY <1>2 DEF Returns
  <2>2. i # 1
    BY <2>1 DEF Typed, ParseInv
  <2>3. QED
    BY <1>1, <2>1, <2>2 DEF Nested
<1>3. \A i, j \in DOMAIN ast : ast[i].op \in Returns => (BlockOf(i) = j <=> Inner(ast, i, j))
  BY <1>1, <1>2, BlockOfInner
<1>4. QED
  BY <1>3 DEF Flagged, ReturnsFlagExact

-----------------------------------------------------------------------------
(* The generator's frames are the blocks open in front of pc. *)
LEMMA OpenNext ==
  ASSUME ast \in Seq(Item), Nested(ast), NEW p \in DOMAIN ast
  PROVE  Open(ast, p + 1) =
           (Open(ast, p) \cup IF ast[p].op \in Blocks THEN {p} ELSE {}) \ {ast[p].opener}
<1> DEFINE n == Len(ast)
<1>1. n \in Nat /\ DOMAIN ast = 1..n /\ p \in 1..n
  OBVIOUS
<1>2. \A i \in 1..n : ast[i].opener # p \/ p + 1 <= i
  BY <1>1 DEF Nested, Inner, Open
<1>3. ASSUME NEW j \in 1..(p - 1)
      PROVE  (\A i \in 1..n : ast[i].opener = j => p + 1 <= i)
               <=> (\A i \in 1..n : ast[i].opener = j => p <= i) /\ ast[p].opener # j
  BY <1>1
<1>4. ast[p].opener # p
  BY <1>1, <1>2
<1>5. \A j \in 1..p : j \in 1..(p - 1) \/ j = p
  BY <1>1
<1>6. ASSUME NEW j
      PROVE  j \in Open(ast, p + 1) <=>
               j \in (Open(ast, p) \cup IF ast[p].op \in Blocks THEN {p} ELSE {})
                       \ {ast[p].opener}
  <2>1. CASE j \in 1..(p - 1)
    <3>1. j # p /\ j \in 1..p
      BY <1>1, <2>1
    <3>2. j \in Open(ast, p + 1) <=>
            ast[j].op \in Blocks /\ \A i \in 1..n : ast[i].opener = j => p + 1 <= i
      BY <1>1, <3>1 DEF Open
    <3>3. j \in Open(ast, p) <=>
            ast[j].op \in Blocks /\ \A i \in 1..n : ast[i].opener = j => p <= i
      BY <1>1, <2>1 DEF Open
    <3>4. QED
      BY <1>3, <2>1, <3>1, <3>2, <3>3
  <2>2. CASE j = p
    <3>1. j \notin Open(ast, p)
      BY <1>1, <2>2 DEF Open
    <3>2. j \in Open(ast, p + 1) <=> ast[j].op \in Blocks
      BY <1>1, <1>2, <2>2 DEF Open
    <3>3. QED
      BY <1>4, <2>2, <3>1, <3>2
  <2>3. CASE j \notin 1..p
    BY <1>1, <2>3 DEF Open
  <2>4. QED
    BY <1>5, <2>1, <2>2, <2>3
<1>7. QED
  BY <1>6

(* An else belongs to the if it closes. *)
LEMMA FrameItemType ==
  ASSUME ast \in Seq(Item), Nested(ast), NEW p \in 1..(Len(ast) + 1), NEW j \in Open(ast, p)
  PROVE  /\ j \in DOMAIN ast /\ j \in 1..(p - 1) /\ ast[j].op \in Blocks
         /\ FrameItem(j) \in 1..j /\ FrameItem(j) \in DOMAIN ast
         /\ ast[j].op = "else" => /\ Inner(ast, j, FrameItem(j))
                                  /\ FrameItem(j) = ast[j].opener
                                  /\ ast[FrameItem(j)].op = "if"
         /\ ast[j].op # "else" => FrameItem(j) = j
<1>1. j \in DOMAIN ast /\ j \in 1..(p - 1) /\ ast[j].op \in Blocks /\ Len(ast) \in Nat
  BY DEF Open
<1>2. CASE ast[j].op = "else"
  <2>1. FrameItem(j) = ast[j].opener /\ ast[j].opener # 0
    BY <1>1, <1>2 DEF FrameItem, Nested
  <2>2. Inner(ast, j, FrameItem(j)) /\ ast[FrameItem(j)].op = "if"
    BY <1>1, <1>2, <2>1 DEF Nested
  <2>3. FrameItem(j) \in 1..(j - 1)
    BY <2>2 DEF Inner, Open
  <2>4. QED
    BY <1>1, <1>2, <2>1, <2>2, <2>3
<1>3. CASE ast[j].op # "else"
  BY <1>1, <1>3 DEF FrameItem
<1>4. QED
  BY <1>2, <1>3

LEMMA ItemOrder ==
  ASSUME ast \in Seq(Item), Nested(ast), NEW p \in 1..(Len(ast) + 1),
         NEW j \in Open(ast, p), NEW k \in Open(ast, p), j < k
  PROVE  FrameItem(j) < FrameItem(k)
<1>1. /\ j \in DOMAIN ast /\ k \in DOMAIN ast /\ k \in 1..(p - 1) /\ j \in 1..(p - 1)
      /\ FrameItem(j) \in 1..j
  BY FrameItemType
<1>2. CASE ast[k].op = "else"
  <2>1. Inner(ast, k, ast[k].opener) /\ FrameItem(k) = ast[k].opener
    BY <1>2, FrameItemType
  <2>2. ast[k].opener # j
    BY <1>1 DEF Open
  <2>3. j \in Open(ast, k)
    <3>1. \A i \in DOMAIN ast : ast[i].opener = j => k <= i
      BY <1>1 DEF Open
    <3>2. j \in 1..(k - 1)
      BY <1>1
    <3>3. QED
      BY <3>1, <3>2 DEF Open
  <2>4. j <= ast[k].opener /\ ast[k].opener \in 1..(k - 1)
    BY <2>1, <2>3 DEF Inner, Open
  <2>5. QED
    BY <1>1, <2>1, <2>2, <2>4
<1>3. CASE ast[k].op # "else"
  <2>1. FrameItem(k) = k
    BY <1>3, FrameItemType
  <2>2. QED
    BY <1>1, <2>1
<1>4. QED
  BY <1>2, <1>3

(* The image of the open blocks loses or gains one item with its block. *)
LEMMA ItemsNext ==
  ASSUME ast \in Seq(Item), Nested(ast), NEW p \in DOMAIN ast
  PROVE  /\ ast[p].opener = 0 /\ ast[p].op \notin Blocks =>
              {FrameItem(j) : j \in Open(ast, p + 1)} = {FrameItem(j) : j \in Open(ast, p)}
         /\ ast[p].opener = 0 /\ ast[p].op \in Blocks =>
              {FrameItem(j) : j \in Open(ast, p + 1)} =
                {FrameItem(j) : j \in Open(ast, p)} \cup {p}
         /\ ast[p].op = "else" =>
              {FrameItem(j) : j \in Open(ast, p + 1)} = {FrameItem(j) : j \in Open(ast, p)}
         /\ ast[p].op = "end" =>
              {FrameItem(j) : j \in Open(ast, p + 1)} =
                {FrameItem(j) : j \in Open(ast, p)} \ {FrameItem(ast[p].opener)}
<1> DEFINE O == Open(ast, p)
           N == Open(ast, p + 1)
           x == ast[p].opener
<1>1. N = (O \cup IF ast[p].op \in Blocks THEN {p} ELSE {}) \ {x}
  BY OpenNext
<1>2. \A j \in O : j # 0 /\ j # p
  BY DEF Open
<1>3. p # 0
  OBVIOUS
<1>4. \A j, k \in O : j # k => FrameItem(j) # FrameItem(k)
  <2>1. p \in 1..(Len(ast) + 1)
    OBVIOUS
  <2>2. \A j \in O : j \in Nat /\ FrameItem(j) \in Nat
    BY <2>1, FrameItemType
  <2>3. \A j, k \in O : j < k => FrameItem(j) < FrameItem(k)
    BY <2>1, ItemOrder
  <2>4. QED
    BY <2>2, <2>3
<1>5. x # 0 => x \in O /\ ast[p].op \in {"else", "end"}
  BY DEF Nested, Inner
<1> HIDE DEF O, N, x
<1>6. ASSUME x = 0, ast[p].op \notin Blocks
      PROVE  {FrameItem(j) : j \in N} = {FrameItem(j) : j \in O}
  BY <1>1, <1>2, <1>6
<1>7. ASSUME x = 0, ast[p].op \in Blocks
      PROVE  {FrameItem(j) : j \in N} = {FrameItem(j) : j \in O} \cup {p}
  <2>1. N = O \cup {p}
    BY <1>1, <1>2, <1>3, <1>7
  <2>2. ast[p].op # "else"
    <3>1. ast[p].op = "else" => ast[p].opener # 0
      BY DEF Nested
    <3>2. QED
      BY <1>7, <3>1 DEF x
  <2>3. FrameItem(p) = p
    BY <2>2 DEF FrameItem
  <2>4. QED
    BY <2>1, <2>3
<1>8. ASSUME ast[p].op = "else"
      PROVE  {FrameItem(j) : j \in N} = {FrameItem(j) : j \in O}
  <2>1. x \in O /\ ast[x].op = "if"
    BY <1>5, <1>8 DEF Nested, x
  <2>2. FrameItem(p) = x /\ FrameItem(x) = x
    BY <1>8, <2>1 DEF FrameItem, x
  <2>3. N = (O \ {x}) \cup {p}
    BY <1>1, <1>2, <1>8, <2>1 DEF Blocks
  <2>4. QED
    BY <2>1, <2>2, <2>3
<1>9. ASSUME ast[p].op = "end"
      PROVE  {FrameItem(j) : j \in N} = {FrameItem(j) : j \in O} \ {FrameItem(x)}
  <2>1. x \in O
    BY <1>5, <1>9 DEF Nested, x
  <2>2. N = O \ {x}
    BY <1>1, <1>9 DEF Blocks
  <2>3. QED
    BY <1>4, <2>1, <2>2
<1>10. QED
  BY <1>6, <1>7, <1>8, <1>9 DEF O, N, x

LEMMA FrameItemsType ==
  ASSUME NEW fs \in Seq(Frame)
  PROVE  /\ ItemsOf(fs) \in Seq(Nat) /\ Len(ItemsOf(fs)) = Len(fs)
         /\ \A k \in 1..Len(fs) : ItemsOf(fs)[k] = fs[k].item
<1>1. \A k \in 1..Len(fs) : fs[k] \in Frame
  OBVIOUS
<1>2. \A k \in 1..Len(fs) : fs[k].item \in Nat
  BY <1>1 DEF Frame
<1>3. Len(fs) \in Nat /\ DOMAIN fs = 1..Len(fs)
  OBVIOUS
<1>4. ItemsOf(fs) \in [1..Len(fs) -> Nat]
  BY <1>2, <1>3 DEF ItemsOf
<1>5. ItemsOf(fs) \in Seq(Nat) /\ Len(ItemsOf(fs)) = Len(fs)
  BY <1>3, <1>4
<1>6. QED
  BY <1>3, <1>5 DEF ItemsOf

(* What a step does to the frames, by the kind of its item. *)
LEMMA StepFrames ==
  ASSUME Typed, Generate, Nested(ast)
  PROVE  \/ /\ ast[pc].op \notin Blocks \cup {"else", "end"} /\ ast[pc].opener = 0
            /\ FrameItems' = FrameItems
         \/ /\ ast[pc].op \in Blocks \ {"else"} /\ ast[pc].opener = 0
            /\ FrameItems' = Append(FrameItems, pc)
         \/ /\ ast[pc].op = "else" /\ FrameItems' = FrameItems
         \/ /\ ast[pc].op = "end" /\ pc # 1
            /\ FrameItems' = SubSeq(FrameItems, 1, Len(FrameItems) - 1)
<1>1. /\ frames \in Seq(Frame) /\ frames' \in Seq(Frame) /\ Len(frames) \in Nat
      /\ pc \in DOMAIN ast /\ pc \in Nat
  <2>1. Typed'
    BY NextTyped DEF Next
  <2>2. frames \in Seq(Frame) /\ frames' \in Seq(Frame)
    BY <2>1 DEF Typed, TypeOK
  <2>3. ast \in Seq(Item)
    BY DEF Typed, TypeOK, BodyTypeOK
  <2>4. pc \in 1..Len(ast)
    BY GenFacts
  <2>5. QED
    BY <2>2, <2>3, <2>4
<1>2. /\ FrameItems \in Seq(Nat) /\ Len(FrameItems) = Len(frames)
      /\ \A k \in 1..Len(frames) : FrameItems[k] = frames[k].item
  BY <1>1, FrameItemsType DEF FrameItems
<1>3. /\ FrameItems' \in Seq(Nat) /\ Len(FrameItems') = Len(frames')
      /\ \A k \in 1..Len(frames') : FrameItems'[k] = frames'[k].item
  BY <1>1, FrameItemsType DEF FrameItems
<1>4. ast[pc].op \notin {"else", "end"} => ast[pc].opener = 0
  BY <1>1 DEF Nested
<1>5. CASE Statement \/ Return \/ ReturnValue \/ Break
  <2>1. UNCHANGED frames /\ ast[pc].op \in {"stmt", "return", "returnv", "break"}
    BY <1>5 DEF Statement, Return, ReturnValue, Break, At, OnlyEmits
  <2>2. FrameItems' = FrameItems
    BY <2>1 DEF FrameItems, ItemsOf
  <2>3. QED
    BY <1>4, <2>1, <2>2 DEF Blocks
<1>6. CASE BeginFunction \/ BeginIf \/ BeginFor
  <2>1. PICK fr : frames' = Append(frames, fr) /\ fr.item = pc
    BY <1>6 DEF BeginFunction, BeginIf, BeginFor
  <2>2. ast[pc].op \in Blocks \ {"else"}
    BY <1>6 DEF BeginFunction, BeginIf, BeginFor, At, Blocks
  <2>3. /\ Len(frames') = Len(frames) + 1
        /\ \A k \in 1..Len(frames) : frames'[k] = frames[k]
        /\ frames'[Len(frames) + 1] = fr
    BY <1>1, <2>1
  <2>4. /\ Append(FrameItems, pc) \in Seq(Nat)
        /\ Len(Append(FrameItems, pc)) = Len(frames) + 1
        /\ Append(FrameItems, pc)[Len(frames) + 1] = pc
        /\ \A k \in 1..Len(frames) : Append(FrameItems, pc)[k] = FrameItems[k]
    BY <1>1, <1>2
  <2>5. ASSUME NEW k \in 1..(Len(frames) + 1)
        PROVE  FrameItems'[k] = Append(FrameItems, pc)[k]
    <3>1. k \in 1..Len(frames) \/ k = Len(frames) + 1
      BY <1>1
    <3>2. FrameItems'[k] = frames'[k].item
      BY <1>3, <2>3
    <3>3. QED
      BY <1>2, <2>1, <2>3, <2>4, <3>1, <3>2
  <2>6. FrameItems' = Append(FrameItems, pc)
    BY <1>3, <2>3, <2>4, <2>5, SeqEqual
  <2>7. ast[pc].opener = 0
    BY <1>4, <2>2 DEF Blocks
  <2>8. QED
    BY <2>2, <2>6, <2>7
<1>7. CASE BeginElse
  <2>1. ast[pc].op = "else" /\ pc # 1
    BY <1>7, GenFacts DEF BeginElse, At
  <2>2. frames' = [frames EXCEPT ![Len(frames)].head = Top.f] /\ Len(frames) \in 1..Len(frames)
    BY <1>7, <2>1, GenFacts DEF BeginElse
  <2>3. /\ DOMAIN frames' = DOMAIN frames
        /\ \A k \in DOMAIN frames : frames'[k].item = frames[k].item
    <3>1. \A k \in DOMAIN frames : frames[k] \in Frame
      BY <1>1
    <3>2. QED
      BY <1>1, <2>2, <3>1 DEF Frame
  <2>4. FrameItems' = FrameItems
    BY <2>3 DEF FrameItems, ItemsOf
  <2>5. QED
    BY <2>1, <2>4
<1>8. CASE EndFunction \/ EndIf \/ EndFor
  <2>1. frames' = Pop /\ ast[pc].op = "end" /\ pc # 1
    BY <1>8, GenFacts DEF EndFunction, EndIf, EndFor, At
  <2>2. Len(frames) > 0
    BY <1>1, <2>1, GenFacts
  <2>3. /\ Len(frames') = Len(frames) - 1
        /\ \A k \in 1..(Len(frames) - 1) : frames'[k] = frames[k]
    BY <1>1, <2>1, <2>2, PopSeq DEF Pop
  <2> DEFINE rest == SubSeq(FrameItems, 1, Len(FrameItems) - 1)
  <2>4. /\ rest \in Seq(Nat) /\ Len(rest) = Len(frames) - 1
        /\ \A k \in 1..(Len(frames) - 1) : rest[k] = FrameItems[k]
    BY <1>2, <2>2, PopSeq
  <2> HIDE DEF rest
  <2>5. \A k \in 1..(Len(frames) - 1) : k \in 1..Len(frames)
    BY <1>1
  <2>6. FrameItems' = rest
    <3>1. FrameItems' \in Seq(Nat) /\ Len(FrameItems') = Len(rest)
      BY <1>3, <2>3, <2>4
    <3>2. \A k \in 1..(Len(frames) - 1) : FrameItems'[k] = rest[k]
      BY <1>2, <1>3, <2>3, <2>4, <2>5
    <3>3. \A k \in 1..Len(rest) : FrameItems'[k] = rest[k]
      BY <2>4, <3>2
    <3>4. QED
      BY <2>4, <3>1, <3>3, SeqEqual
  <2>7. QED
    BY <2>1, <2>6 DEF rest
<1>9. QED
  BY <1>5, <1>6, <1>7, <1>8 DEF Generate

(* At an end, the top frame is that of the block closed. *)
LEMMA TopFrame ==
  ASSUME Typed, Generate, Nested(ast), Walked, ast[pc].op \in {"else", "end"}
  PROVE  /\ Top.item = FrameItem(ast[pc].opener)
         /\ ast[pc].opener \in Open(ast, pc)
         /\ FrameItems[Len(FrameItems)] = Top.item /\ Len(FrameItems) > 0
<1>1. /\ pc \in DOMAIN ast /\ pc # 1 /\ ast \in Seq(Item)
      /\ frames \in Seq(Frame) /\ Len(frames) \in 1..Len(frames)
      /\ pc \in 1..(Len(ast) + 1)
  <2>1. pc \in 1..Len(ast) /\ (ast[pc].op = "fn" <=> pc = 1)
    BY GenFacts
  <2>2. ast \in Seq(Item) /\ frames \in Seq(Frame)
    BY DEF Typed, TypeOK, BodyTypeOK
  <2>3. pc # 1
    BY <2>1
  <2>4. Len(frames) \in 1..Len(frames)
    BY <2>3, GenFacts
  <2>5. pc \in DOMAIN ast /\ pc \in 1..(Len(ast) + 1)
    BY <2>1, <2>2
  <2>6. QED
    BY <2>2, <2>3, <2>4, <2>5
<1>2. /\ FrameItems \in Seq(Nat) /\ Len(FrameItems) = Len(frames)
      /\ FrameItems[Len(frames)] = Top.item
      /\ \A k \in DOMAIN FrameItems : FrameItems[k] \in Nat
  <2>1. /\ FrameItems \in Seq(Nat) /\ Len(FrameItems) = Len(frames)
        /\ \A k \in 1..Len(frames) : FrameItems[k] = frames[k].item
    BY <1>1, FrameItemsType DEF FrameItems
  <2>2. FrameItems[Len(frames)] = Top.item
    BY <1>1, <2>1 DEF Top
  <2>3. \A k \in DOMAIN FrameItems : FrameItems[k] \in Nat
    BY <2>1
  <2>4. QED
    BY <2>1, <2>2, <2>3
<1> DEFINE x == ast[pc].opener
<1>3. Inner(ast, pc, x)
  BY <1>1 DEF Nested
<1>4. x \in Open(ast, pc) /\ \A j \in Open(ast, pc) : j = x \/ j < x
  BY <1>3 DEF Inner, Open
<1> HIDE DEF x
<1>5. \A j \in Open(ast, pc) : FrameItem(j) \in Nat
  BY <1>1, FrameItemType
<1>6. \A j \in Open(ast, pc) : FrameItem(j) <= FrameItem(x)
  <2>1. \A j \in Open(ast, pc) : j < x => FrameItem(j) < FrameItem(x)
    BY <1>1, <1>4, ItemOrder
  <2>2. QED
    BY <1>4, <1>5, <2>1
<1>7. \A k \in DOMAIN FrameItems : FrameItems[k] <= Top.item
  <2>1. DOMAIN FrameItems = 1..Len(frames)
    BY <1>2
  <2>2. \A k \in DOMAIN FrameItems : k < Len(frames) => FrameItems[k] < FrameItems[Len(frames)]
    BY <1>1, <2>1 DEF Walked, Increasing
  <2>3. \A k \in DOMAIN FrameItems : k < Len(frames) \/ k = Len(frames)
    BY <1>1, <2>1
  <2>4. Top.item \in Nat
    BY <1>1, <1>2, <2>1
  <2>5. QED
    BY <1>2, <2>2, <2>3, <2>4
<1>8. \E k \in DOMAIN FrameItems : FrameItems[k] = FrameItem(x)
  BY <1>4 DEF Walked, Entries
<1>9. \E j \in Open(ast, pc) : FrameItem(j) = Top.item
  <2>1. Len(frames) \in DOMAIN FrameItems
    BY <1>1, <1>2
  <2>2. Top.item \in Entries(FrameItems)
    BY <1>2, <2>1 DEF Entries
  <2>3. QED
    BY <2>2 DEF Walked
<1>10. Top.item = FrameItem(x)
  BY <1>4, <1>5, <1>6, <1>7, <1>8, <1>9
<1>11. QED
  BY <1>1, <1>2, <1>4, <1>10 DEF x

LEMMA GenWalked ==
  ASSUME Typed, Generate, Nested(ast), Walked
  PROVE  Walked'
<1>1. /\ pc \in DOMAIN ast /\ pc \in Nat /\ ast \in Seq(Item) /\ pc' = pc + 1 /\ ast' = ast
      /\ frames \in Seq(Frame) /\ pc \in 1..(Len(ast) + 1)
  <2>1. frames \in Seq(Frame)
    BY DEF Typed, TypeOK
  <2>2. QED
    BY <2>1, GenPlace
<1>2. FrameItems \in Seq(Nat) /\ Increasing(FrameItems)
  BY <1>1, FrameItemsType DEF FrameItems, Walked
<1>3. Entries(FrameItems) = {FrameItem(j) : j \in Open(ast, pc)}
  BY DEF Walked
<1>4. \A e \in Entries(FrameItems) : e < pc
  <2>1. \A j \in Open(ast, pc) : FrameItem(j) \in 1..j /\ j \in 1..(pc - 1)
    BY <1>1, FrameItemType
  <2>2. ASSUME NEW j \in Open(ast, pc) PROVE FrameItem(j) < pc
    <3>1. FrameItem(j) \in Nat /\ FrameItem(j) <= j /\ j \in Nat /\ j <= pc - 1 /\ pc \in Nat
      BY <1>1, <2>1
    <3>2. QED
      BY <3>1
  <2>3. QED
    BY <1>3, <2>2
<1>5. {FrameItem(j) : j \in Open(ast, pc)}' = {FrameItem(j) : j \in Open(ast, pc + 1)}
  BY <1>1 DEF FrameItem
<1>6. Increasing(FrameItems') /\ Entries(FrameItems') = {FrameItem(j) : j \in Open(ast, pc + 1)}
  <2>1. CASE /\ ast[pc].op \notin Blocks \cup {"else", "end"} /\ ast[pc].opener = 0
             /\ FrameItems' = FrameItems
    BY <1>1, <1>2, <1>3, <2>1, ItemsNext
  <2>2. CASE /\ ast[pc].op \in Blocks \ {"else"} /\ ast[pc].opener = 0
             /\ FrameItems' = Append(FrameItems, pc)
    <3>1. /\ Increasing(Append(FrameItems, pc))
          /\ Entries(Append(FrameItems, pc)) = Entries(FrameItems) \cup {pc}
      BY <1>1, <1>2, <1>4, PushIncreasing
    <3>2. QED
      BY <1>1, <1>3, <2>2, <3>1, ItemsNext
  <2>3. CASE ast[pc].op = "else" /\ FrameItems' = FrameItems
    BY <1>1, <1>2, <1>3, <2>3, ItemsNext
  <2>4. CASE /\ ast[pc].op = "end" /\ pc # 1
             /\ FrameItems' = SubSeq(FrameItems, 1, Len(FrameItems) - 1)
    <3>1. FrameItems[Len(FrameItems)] = FrameItem(ast[pc].opener) /\ Len(FrameItems) > 0
      BY <2>4, TopFrame
    <3>2. Increasing(FrameItems') /\ Entries(FrameItems') = Entries(FrameItems) \ {FrameItem(ast[pc].opener)}
      BY <1>2, <2>4, <3>1, PopIncreasing
    <3>3. QED
      BY <1>1, <1>3, <2>4, <3>2, ItemsNext
  <2>5. QED
    BY <2>1, <2>2, <2>3, <2>4, StepFrames
<1>7. QED
  BY <1>5, <1>6 DEF Walked

-----------------------------------------------------------------------------
(* The instructions of a step. *)
LEMMA InstrsEmit ==
  ASSUME NEW n \in Nat, NEW c \in [1..n -> Seq(Instr)], NEW b \in 1..n, NEW i \in Instr
  PROVE  Instrs(Emit(c, b, i)) = Instrs(c) \cup {i}
<1> DEFINE e == Emit(c, b, i)
<1>1. /\ DOMAIN e = 1..n /\ DOMAIN c = 1..n
      /\ \A x \in 1..n : e[x] = IF x = b THEN Append(c[x], i) ELSE c[x]
      /\ \A x \in 1..n : c[x] \in Seq(Instr)
  BY DEF Emit
<1> HIDE DEF e
<1>2. /\ DOMAIN e[b] = 1..(Len(c[b]) + 1) /\ DOMAIN c[b] = 1..Len(c[b])
      /\ e[b][Len(c[b]) + 1] = i /\ Len(c[b]) \in Nat
      /\ \A k \in 1..Len(c[b]) : e[b][k] = c[b][k]
  <2>1. e[b] = Append(c[b], i) /\ c[b] \in Seq(Instr)
    BY <1>1
  <2>2. QED
    BY <2>1, PushSeq
<1>3. {e[b][k] : k \in DOMAIN e[b]} = {c[b][k] : k \in DOMAIN c[b]} \cup {i}
  <2>1. /\ \A k \in 1..(Len(c[b]) + 1) : k \in 1..Len(c[b]) \/ k = Len(c[b]) + 1
        /\ Len(c[b]) + 1 \in 1..(Len(c[b]) + 1)
        /\ \A k \in 1..Len(c[b]) : k \in 1..(Len(c[b]) + 1)
    BY <1>2
  <2>2. QED
    BY <1>2, <2>1
<1>4. \A x \in 1..n : x # b => {e[x][k] : k \in DOMAIN e[x]} = {c[x][k] : k \in DOMAIN c[x]}
  BY <1>1
<1>5. ASSUME NEW y
      PROVE  y \in Instrs(e) <=> y \in Instrs(c) \cup {i}
  <2>1. y \in Instrs(e) <=> \E x \in 1..n : y \in {e[x][k] : k \in DOMAIN e[x]}
    BY <1>1 DEF Instrs
  <2>2. y \in Instrs(c) <=> \E x \in 1..n : y \in {c[x][k] : k \in DOMAIN c[x]}
    BY <1>1 DEF Instrs
  <2>3. QED
    BY <1>3, <1>4, <2>1, <2>2
<1>6. QED
  BY <1>5 DEF e

(* The same, and its type, of the blocks 1..n. *)
Code(n) == [1..n -> Seq(Instr)]
LEMMA EmitBoth ==
  ASSUME NEW n \in Nat, NEW c \in Code(n), NEW b \in 1..n, NEW i \in Instr
  PROVE  Emit(c, b, i) \in Code(n) /\ Instrs(Emit(c, b, i)) = Instrs(c) \cup {i}
<1>1. c \in [1..n -> Seq(Instr)]
  BY DEF Code
<1>2. Emit(c, b, i) \in [1..n -> Seq(Instr)]
  BY <1>1, EmitType
<1>3. Instrs(Emit(c, b, i)) = Instrs(c) \cup {i}
  BY <1>1, InstrsEmit
<1>4. QED
  BY <1>2, <1>3 DEF Code

LEMMA InstrsGrow ==
  ASSUME nblocks \in Nat, code \in [1..nblocks -> Seq(Instr)], NEW n \in Nat
  PROVE  Instrs(Grow(code, n)) = Instrs(code)
<1> DEFINE g == Grow(code, n)
<1>1. /\ DOMAIN g = 1..(nblocks + n) /\ DOMAIN code = 1..nblocks
      /\ \A x \in 1..(nblocks + n) : g[x] = IF x <= nblocks THEN code[x] ELSE <<>>
  BY DEF Grow
<1> HIDE DEF g
<1>2. \A x \in 1..nblocks : x \in 1..(nblocks + n) /\ g[x] = code[x]
  BY <1>1
<1>3. \A x \in 1..(nblocks + n) : x \notin 1..nblocks => DOMAIN g[x] = {}
  <2>1. \A x \in 1..(nblocks + n) : x \notin 1..nblocks => g[x] = <<>>
    BY <1>1
  <2>2. QED
    BY <2>1
<1>4. ASSUME NEW y
      PROVE  y \in Instrs(g) <=> y \in Instrs(code)
  <2>1. y \in Instrs(g) <=> \E x \in 1..(nblocks + n) : \E k \in DOMAIN g[x] : y = g[x][k]
    BY <1>1 DEF Instrs
  <2>2. y \in Instrs(code) <=> \E x \in 1..nblocks : \E k \in DOMAIN code[x] : y = code[x][k]
    BY <1>1 DEF Instrs
  <2>3. QED
    BY <1>2, <1>3, <2>1, <2>2
<1>5. QED
  BY <1>4 DEF g

LEMMA InstrsJoin ==
  ASSUME Typed, insert \in 1..nblocks, NEW head, NEW m \in Nat
  PROVE  \/ Instrs(JoinArm(code, head, m)) = Instrs(code)
         \/ Instrs(JoinArm(code, head, m)) = Instrs(code) \cup {Ins("br", m, 0)}
<1>1. nblocks \in Nat /\ code \in [1..nblocks -> Seq(Instr)] /\ pc \in Nat
  BY DEF Typed, TypeOK
<1>2. Ins("br", m, 0) \in Instr
  BY <1>1, InsType DEF Terminators
<1>3. QED
  BY <1>1, <1>2, InstrsEmit DEF JoinArm

(* What the instructions of a step say of its item. *)
Emits(new) ==
  /\ Instrs(code') = Instrs(code) \cup new
  /\ \A i \in new : i.item = pc
  /\ ast[pc].op = "break" =>
       \A i \in new : breakPoints # <<>> /\ i.yes = BreakPoint
  /\ ast[pc].op \in Returns =>
       \A i \in new : i.op = "br" =>
         i.yes = retBlock[currentFunction] /\ i.yes # 0
  /\ ast[pc].op \in Returns /\ phase' # "error" /\ retBlock[currentFunction] # 0 =>
       \E i \in new : i.op = "br"
  /\ ast[pc].op = "for" =>
       /\ \E i \in new : i.op = "condbr"
       /\ \A i \in new : i.op = "condbr" => i.no = nblocks + 3

LEMMA InsFields ==
  ASSUME NEW op, NEW yes, NEW no
  PROVE  /\ Ins(op, yes, no).op = op /\ Ins(op, yes, no).item = pc
         /\ Ins(op, yes, no).yes = yes /\ Ins(op, yes, no).no = no
BY DEF Ins

LEMMA EmitsInstrs ==
  ASSUME Typed, Generate, Statement \/ Return \/ ReturnValue \/ Break
  PROVE  \E new : Emits(new)
<1>1. /\ nblocks \in Nat /\ code \in [1..nblocks -> Seq(Instr)] /\ pc \in Nat
  BY StateFacts
<1>2. pc # 1
  BY GenFacts DEF Statement, Return, ReturnValue, Break, At
<1>3. insert \in 1..nblocks /\ currentFunction \in 1..MaxItems
  BY <1>2, GenFacts
<1>4. retBlock[currentFunction] \in Nat
  BY <1>3, StateFacts
<1> DEFINE ret == retBlock[currentFunction]
<1>5. Ins("br", ret, 0) \in Instr /\ Ins("inst", 0, 0) \in Instr /\ Ins("store", 0, 0) \in Instr
  BY <1>1, <1>4, InsType DEF Terminators
<1>6. CASE Statement
  <2>1. code' = Emit(code, insert, Ins("inst", 0, 0)) /\ ast[pc].op = "stmt"
    BY <1>6 DEF Statement, At
  <2>2. Instrs(code') = Instrs(code) \cup {Ins("inst", 0, 0)}
    BY <1>1, <1>3, <1>5, <2>1, InstrsEmit
  <2>3. Emits({Ins("inst", 0, 0)})
    BY <2>1, <2>2, InsFields DEF Emits, Returns
  <2>4. QED
    BY <2>3
<1>7. CASE Return
  <2>1. ast[pc].op = "return"
    BY <1>7 DEF Return, At
  <2>2. CASE ret = 0
    <3>1. Instrs(code') = Instrs(code) \cup {}
      BY <1>7, <2>2 DEF Return
    <3>2. Emits({})
      BY <2>1, <2>2, <3>1 DEF Emits
    <3>3. QED
      BY <3>2
  <2>3. CASE ret # 0
    <3>0. code' = Emit(code, insert, Ins("br", ret, 0))
      BY <1>7, <2>3 DEF Return
    <3>1. Instrs(code') = Instrs(code) \cup {Ins("br", ret, 0)}
      BY <1>1, <1>3, <1>5, <3>0, InstrsEmit
    <3>2. Emits({Ins("br", ret, 0)})
      BY <2>1, <2>3, <3>1, InsFields DEF Emits
    <3>3. QED
      BY <3>2
  <2>4. QED
    BY <2>2, <2>3
<1>8. CASE ReturnValue
  <2>1. ast[pc].op = "returnv"
    BY <1>8 DEF ReturnValue, At
  <2> DEFINE stored == Emit(code, insert, Ins("store", 0, 0))
  <2>0. code \in Code(nblocks)
    BY <1>1 DEF Code
  <2>2. stored \in Code(nblocks) /\ Instrs(stored) = Instrs(code) \cup {Ins("store", 0, 0)}
    BY <1>1, <1>3, <1>5, <2>0, EmitBoth
  <2>4. \/ code' = code /\ phase' = "error"
        \/ code' = stored /\ ret = 0
        \/ ret # 0 /\ code' = Emit(stored, insert, Ins("br", ret, 0))
    BY <1>8 DEF ReturnValue, Step
  <2> HIDE DEF stored
  <2>5. CASE code' = code /\ phase' = "error"
    <3>1. Emits({})
      BY <2>1, <2>5 DEF Emits
    <3>2. QED
      BY <3>1
  <2>6. CASE code' = stored /\ ret = 0
    <3>1. Emits({Ins("store", 0, 0)})
      BY <2>1, <2>2, <2>6, InsFields DEF Emits
    <3>2. QED
      BY <3>1
  <2>7. CASE ret # 0 /\ code' = Emit(stored, insert, Ins("br", ret, 0))
    <3>1. Instrs(code') = Instrs(code) \cup {Ins("store", 0, 0), Ins("br", ret, 0)}
      <4>1. Instrs(Emit(stored, insert, Ins("br", ret, 0))) = Instrs(stored) \cup {Ins("br", ret, 0)}
        BY <1>1, <1>3, <1>5, <2>2, EmitBoth
      <4>2. QED
        BY <2>2, <2>7, <4>1
    <3>2. Emits({Ins("store", 0, 0), Ins("br", ret, 0)})
      BY <2>1, <2>7, <3>1, InsFields DEF Emits
    <3>3. QED
      BY <3>2
  <2>8. QED
    BY <2>4, <2>5, <2>6, <2>7
<1>9. CASE Break
  <2>1. ast[pc].op = "break"
    BY <1>9 DEF Break, At
  <2>2. CASE breakPoints = <<>>
    <3>1. Instrs(code') = Instrs(code) \cup {}
      BY <1>9, <2>2 DEF Break
    <3>2. Emits({})
      BY <2>1, <3>1 DEF Emits, Returns
    <3>3. QED
      BY <3>2
  <2>3. CASE breakPoints # <<>>
    <3>1. BreakPoint \in Nat
      BY <2>3, StateFacts DEF BreakPoint
    <3>2. Ins("br", BreakPoint, 0) \in Instr
      BY <1>1, <3>1, InsType DEF Terminators
    <3>3. Instrs(code') = Instrs(code) \cup {Ins("br", BreakPoint, 0)}
      BY <1>1, <1>3, <1>9, <2>3, <3>2, InstrsEmit DEF Break
    <3>4. Emits({Ins("br", BreakPoint, 0)})
      BY <2>1, <2>3, <3>3, InsFields DEF Emits, Returns
    <3>5. QED
      BY <3>4
  <2>4. QED
    BY <2>2, <2>3
<1>10. QED
  BY <1>6, <1>7, <1>8, <1>9

LEMMA JoinInstrs ==
  ASSUME Typed, Generate, BeginElse \/ EndIf
  PROVE  \E new : Emits(new)
<1>1. ast[pc].op \in {"else", "end"} /\ code' = JoinArm(code, Top.head, Top.m)
  BY DEF BeginElse, EndIf, At
<1>2. pc # 1
  BY <1>1, GenFacts
<1>3. insert \in 1..nblocks /\ Top.m \in Nat
  BY <1>2, GenFacts DEF Frame
<1>4. \/ Instrs(code') = Instrs(code) \cup {}
      \/ Instrs(code') = Instrs(code) \cup {Ins("br", Top.m, 0)}
  BY <1>1, <1>3, InstrsJoin
<1>5. Emits({}) \/ Emits({Ins("br", Top.m, 0)})
  BY <1>1, <1>4, InsFields DEF Emits, Returns
<1>6. QED
  BY <1>5

(* The block gen_code of a function ends in. *)
LEMMA EndBlock ==
  ASSUME Typed, Generate, EndFunction
  PROVE  /\ (IF retBlock[Top.item] # 0 THEN retBlock[Top.item] ELSE insert) \in 1..nblocks
         /\ Top.item \in 1..MaxItems
<1> USE BodyAssumption DEF BodyAssumption
<1>1. pc # 1
  BY GenFacts DEF EndFunction, At
<1>2. Top.item \in 1..Len(ast) /\ Len(ast) \in 1..MaxItems
  BY <1>1, PopFrame DEF FrameOK, Typed, TypeOK, BodyTypeOK
<1>3. Top.item \in 1..MaxItems
  BY <1>2
<1>4. /\ retBlock[Top.item] \in Nat /\ retBlock[Top.item] <= nblocks
      /\ insert \in 1..nblocks /\ nblocks \in Nat
  BY <1>1, <1>3, StateFacts, GenFacts
<1>5. QED
  BY <1>3, <1>4

LEMMA FunctionInstrs ==
  ASSUME Typed, Generate, BeginFunction \/ EndFunction \/ EndFor
  PROVE  \E new : Emits(new)
<1>1. /\ nblocks \in Nat /\ code \in [1..nblocks -> Seq(Instr)] /\ pc \in Nat
  BY StateFacts
<1>2. CASE BeginFunction
  <2>1. Instrs(code') = Instrs(code) \cup {} /\ ast[pc].op \in {"fn", "closure"}
    BY <1>1, <1>2, InstrsGrow DEF BeginFunction, At
  <2>2. Emits({})
    BY <2>1 DEF Emits, Returns
  <2>3. QED
    BY <2>2
<1>3. CASE EndFor
  <2>1. ast[pc].op = "end" /\ code' = Emit(code, insert, Ins("br", Top.head, 0))
    BY <1>3 DEF EndFor, At
  <2>2. pc # 1
    BY <2>1, GenFacts
  <2>3. insert \in 1..nblocks /\ Top.head \in Nat
    BY <2>2, GenFacts DEF Frame
  <2>4. Ins("br", Top.head, 0) \in Instr
    BY <1>1, <2>3, InsType DEF Terminators
  <2>5. Instrs(code') = Instrs(code) \cup {Ins("br", Top.head, 0)}
    BY <1>1, <2>1, <2>3, <2>4, InstrsEmit
  <2>6. Emits({Ins("br", Top.head, 0)})
    BY <2>1, <2>5, InsFields DEF Emits, Returns
  <2>7. QED
    BY <2>6
<1>4. CASE EndFunction
  <2> DEFINE b == IF retBlock[Top.item] # 0 THEN retBlock[Top.item] ELSE insert
             done == Emit(code, b, Ins("ret", 0, 0))
  <2>1. /\ ast[pc].op = "end"
        /\ code' = IF ast[Top.item].op = "fn" THEN done ELSE Emit(done, b, Ins("inst", 0, 0))
    BY <1>4 DEF EndFunction, At
  <2>2. b \in 1..nblocks
    BY <1>4, EndBlock
  <2>3. Ins("ret", 0, 0) \in Instr /\ Ins("inst", 0, 0) \in Instr
    BY <1>1, InsType DEF Terminators
  <2> HIDE DEF b
  <2>4. done \in [1..nblocks -> Seq(Instr)]
    BY <1>1, <2>3, EmitType
  <2>5. Instrs(done) = Instrs(code) \cup {Ins("ret", 0, 0)}
    BY <1>1, <2>2, <2>3, InstrsEmit
  <2> HIDE DEF done
  <2>6. \/ Instrs(code') = Instrs(code) \cup {Ins("ret", 0, 0)}
        \/ Instrs(code') = Instrs(code) \cup {Ins("ret", 0, 0), Ins("inst", 0, 0)}
    <3>1. Instrs(Emit(done, b, Ins("inst", 0, 0))) =
            (Instrs(code) \cup {Ins("ret", 0, 0)}) \cup {Ins("inst", 0, 0)}
      BY <1>1, <2>2, <2>3, <2>4, <2>5, InstrsEmit
    <3>2. QED
      BY <2>1, <2>5, <3>1
  <2>7. \/ Emits({Ins("ret", 0, 0)})
        \/ Emits({Ins("ret", 0, 0), Ins("inst", 0, 0)})
    BY <2>1, <2>6, InsFields DEF Emits, Returns
  <2>8. QED
    BY <2>7
<1>5. QED
  BY <1>2, <1>3, <1>4

LEMMA BranchInstrs ==
  ASSUME Typed, Generate, BeginIf \/ BeginFor
  PROVE  \E new : Emits(new)
<1>1. /\ nblocks \in Nat /\ code \in [1..nblocks -> Seq(Instr)] /\ pc \in Nat
  BY StateFacts
<1>2. pc # 1
  BY GenFacts DEF BeginIf, BeginFor, At
<1>3. insert \in 1..nblocks
  BY <1>2, GenFacts
<1>4. CASE BeginIf
  <2>1. PICK n \in {3, 4}, t \in Nat, e \in Nat :
          code' = Emit(Grow(code, n), insert, Ins("condbr", t, e))
    <3> DEFINE n == IF NeedsRet(pc) THEN 4 ELSE 3
    <3>1. n \in {3, 4} /\ nblocks + n - 2 \in Nat /\ nblocks + n - 1 \in Nat /\ nblocks + n \in Nat
      BY <1>1
    <3>2. code' = Emit(Grow(code, n), insert,
                       Ins("condbr", nblocks + n - 2,
                           IF ast[pc].els # 0 THEN nblocks + n - 1 ELSE nblocks + n))
      BY <1>4 DEF BeginIf
    <3> HIDE DEF n
    <3>3. QED
      BY <3>1, <3>2
  <2>2. /\ Grow(code, n) \in [1..(nblocks + n) -> Seq(Instr)]
        /\ nblocks + n \in Nat /\ insert \in 1..(nblocks + n)
        /\ Instrs(Grow(code, n)) = Instrs(code)
    <3>1. n \in Nat
      OBVIOUS
    <3>2. nblocks + n \in Nat /\ insert \in 1..(nblocks + n)
      BY <1>1, <1>3, <3>1
    <3>3. Instrs(Grow(code, n)) = Instrs(code)
      BY <1>1, <3>1, InstrsGrow
    <3>4. Grow(code, n) \in [1..(nblocks + n) -> Seq(Instr)]
      BY <1>1, <3>1, GrowType
    <3>5. QED
      BY <3>2, <3>3, <3>4
  <2>3. Ins("condbr", t, e) \in Instr
    BY <1>1, InsType DEF Terminators
  <2>4. Instrs(code') = Instrs(code) \cup {Ins("condbr", t, e)}
    <3> DEFINE i == Ins("condbr", t, e)
               g == Grow(code, n)
               q == nblocks + n
    <3>1. g \in [1..q -> Seq(Instr)] /\ q \in Nat /\ insert \in 1..q /\ i \in Instr
      BY <2>2, <2>3
    <3>2. code' = Emit(g, insert, i) /\ Instrs(g) = Instrs(code)
      BY <2>1, <2>2
    <3> HIDE DEF i, g, q
    <3>3. Instrs(Emit(g, insert, i)) = Instrs(g) \cup {i}
      BY <3>1, InstrsEmit
    <3>4. QED
      BY <3>2, <3>3 DEF i
  <2>5. ast[pc].op = "if"
    BY <1>4 DEF BeginIf, At
  <2>6. Emits({Ins("condbr", t, e)})
    BY <2>4, <2>5, InsFields DEF Emits, Returns
  <2>7. QED
    BY <2>6
<1>5. CASE BeginFor
  <2> DEFINE cond == nblocks + 1
             body == nblocks + 2
             merge == nblocks + 3
             g == Grow(code, 3)
             c1 == Emit(g, insert, Ins("inst", 0, 0))
             c2 == Emit(c1, insert, Ins("br", cond, 0))
             new == {Ins("inst", 0, 0), Ins("br", cond, 0), Ins("condbr", body, merge)}
  <2>1. code' = Emit(c2, cond, Ins("condbr", body, merge)) /\ ast[pc].op = "for"
    BY <1>5 DEF BeginFor, At
  <2>2. /\ g \in [1..(nblocks + 3) -> Seq(Instr)] /\ Instrs(g) = Instrs(code)
    BY <1>1, GrowType, InstrsGrow
  <2>3. /\ nblocks + 3 \in Nat /\ insert \in 1..(nblocks + 3) /\ cond \in 1..(nblocks + 3)
        /\ Ins("inst", 0, 0) \in Instr /\ Ins("br", cond, 0) \in Instr
        /\ Ins("condbr", body, merge) \in Instr
    BY <1>1, <1>3, InsType DEF Terminators
  <2> DEFINE N == nblocks + 3
  <2>3a. g \in Code(N)
    BY <2>2 DEF Code
  <2> HIDE DEF g, cond, body, merge, N, c1, c2
  <2>4. c1 \in Code(N) /\ Instrs(c1) = Instrs(g) \cup {Ins("inst", 0, 0)}
    <3>1. N \in Nat /\ insert \in 1..N /\ Ins("inst", 0, 0) \in Instr
      BY <2>3 DEF N
    <3>2. QED
      BY <2>3a, <3>1, EmitBoth DEF c1
  <2>5. c2 \in Code(N) /\ Instrs(c2) = Instrs(c1) \cup {Ins("br", cond, 0)}
    <3>1. N \in Nat /\ insert \in 1..N /\ Ins("br", cond, 0) \in Instr
      BY <2>3 DEF N
    <3>2. QED
      BY <2>4, <3>1, EmitBoth DEF c2
  <2>6. Instrs(code') = Instrs(c2) \cup {Ins("condbr", body, merge)}
    <3>1. N \in Nat /\ cond \in 1..N /\ Ins("condbr", body, merge) \in Instr
      BY <2>3 DEF N
    <3>2. QED
      BY <2>1, <2>5, <3>1, EmitBoth
  <2>7. Instrs(code') = Instrs(code) \cup new
    BY <2>2, <2>4, <2>5, <2>6
  <2>8. Ins("condbr", body, merge).op = "condbr" /\ Ins("condbr", body, merge).no = nblocks + 3
    BY InsFields DEF merge
  <2>9. Emits(new)
    BY <2>1, <2>7, <2>8, InsFields DEF Emits, Returns
  <2>10. QED
    BY <2>9
<1>6. QED
  BY <1>4, <1>5

LEMMA StepInstrs ==
  ASSUME Typed, Generate
  PROVE  \E new : Emits(new)
BY EmitsInstrs, JoinInstrs, FunctionInstrs, BranchInstrs DEF Generate

-----------------------------------------------------------------------------
(* No instruction is emitted for an item that is still to come. *)
LEMMA GenEmitted ==
  ASSUME Typed, Generate, Emitted
  PROVE  Emitted'
<1>1. PICK new : Emits(new)
  BY StepInstrs
<1>2. pc \in Nat \ {0} /\ pc' = pc + 1
  BY GenFacts, StateFacts
<1>3. 1..(pc' - 1) = 1..pc /\ pc \in 1..pc /\ 1..(pc - 1) \subseteq 1..pc
  BY <1>2
<1>4. pc' <= Len(ast') + 1
  BY GenPlace
<1>5. \A i \in Instrs(code) : i.item \in 1..(pc - 1)
  BY DEF Emitted
<1>6. Instrs(code') = Instrs(code) \cup new /\ \A i \in new : i.item = pc
  BY <1>1 DEF Emits
<1>7. QED
  BY <1>3, <1>4, <1>5, <1>6 DEF Emitted

(* The loops around the next item. *)
LEMMA LoopsNext ==
  ASSUME Typed, Generate, Nested(ast)
  PROVE  /\ pc \in DOMAIN ast /\ pc \in Nat
         /\ Loops(pc + 1) =
              (Loops(pc) \cup IF ast[pc].op = "for" THEN {pc} ELSE {}) \ {ast[pc].opener}
         /\ \A j \in Loops(pc) : j \in 1..(pc - 1) /\ j \in 1..MaxItems /\ j < pc
         /\ ast[pc].op = "for" => ast[pc].opener = 0
         /\ ast[pc].op = "else" => ast[pc].opener \notin Loops(pc)
         /\ ast[pc].op \notin {"else", "end"} => ast[pc].opener = 0
         /\ 0 \notin Loops(pc)
<1>1. /\ ast \in Seq(Item) /\ pc \in DOMAIN ast /\ pc \in 1..MaxItems /\ MaxItems \in Nat
  <2>1. MaxItems \in Nat
    BY BodyAssumption DEF BodyAssumption
  <2>2. pc \in 1..MaxItems
    BY GenFacts
  <2>3. QED
    BY <2>1, <2>2, GenPlace
<1>2. Open(ast, pc + 1) =
        (Open(ast, pc) \cup IF ast[pc].op \in Blocks THEN {pc} ELSE {}) \ {ast[pc].opener}
  BY <1>1, OpenNext
<1>3. ast[pc].op = "for" => ast[pc].op \in Blocks
  BY DEF Blocks
<1>4. Loops(pc + 1) =
        (Loops(pc) \cup IF ast[pc].op = "for" THEN {pc} ELSE {}) \ {ast[pc].opener}
  BY <1>2, <1>3 DEF Loops
<1>5. \A j \in Loops(pc) : j \in 1..(pc - 1)
  BY DEF Loops, Open
<1>6. \A j \in Loops(pc) : j \in 1..MaxItems /\ j < pc
  BY <1>1, <1>5
<1>7. /\ ast[pc].op \notin {"else", "end"} => ast[pc].opener = 0
      /\ ast[pc].op = "else" => ast[ast[pc].opener].op = "if"
  BY <1>1 DEF Nested
<1>8. ast[pc].op = "else" => ast[pc].opener \notin Loops(pc)
  BY <1>7 DEF Loops
<1>9. ast[pc].op = "for" => ast[pc].opener = 0
  BY <1>7
<1>10. 0 \notin Loops(pc)
  BY <1>5
<1>11. QED
  BY <1>1, <1>4, <1>5, <1>6, <1>7, <1>8, <1>9, <1>10

(* What a step does to the stack of break points. *)
LEMMA StepBreakPoints ==
  ASSUME Typed, Generate, Nested(ast), Walked
  PROVE  \/ ast[pc].op = "for" /\ breakPoints' = Append(breakPoints, nblocks + 3)
         \/ /\ ast[pc].op = "end" /\ ast[pc].opener \in Loops(pc)
            /\ breakPoints' = SubSeq(breakPoints, 1, Len(breakPoints) - 1)
         \/ /\ ast[pc].op # "for" /\ ast[pc].opener \notin Loops(pc)
            /\ breakPoints' = breakPoints
<1>1. CASE BeginFor
  BY <1>1 DEF BeginFor, At
<1>2. CASE EndFor \/ EndIf \/ EndFunction
  <2> DEFINE x == ast[pc].opener
  <2>1. ast[pc].op = "end"
    BY <1>2 DEF EndFor, EndIf, EndFunction, At
  <2>2. Top.item = FrameItem(x) /\ x \in Open(ast, pc)
    BY <2>1, TopFrame
  <2>3. /\ ast[x].op = "else" => ast[Top.item].op = "if"
        /\ ast[x].op # "else" => Top.item = x
    <3>1. /\ ast \in Seq(Item) /\ pc \in 1..(Len(ast) + 1)
      BY GenPlace
    <3>2. QED
      BY <2>2, <3>1, FrameItemType
  <2>4. ast[Top.item].op = "for" <=> x \in Loops(pc)
    BY <2>2, <2>3 DEF Loops
  <2>5. CASE EndFor
    BY <2>1, <2>4, <2>5 DEF EndFor
  <2>6. CASE EndIf \/ EndFunction
    <3>1. ast[Top.item].op # "for" /\ breakPoints' = breakPoints
      BY <2>6 DEF EndIf, EndFunction
    <3>2. QED
      BY <2>1, <2>4, <3>1
  <2>7. QED
    BY <1>2, <2>5, <2>6
<1>3. CASE BeginElse
  <2>1. ast[pc].op = "else" /\ breakPoints' = breakPoints
    BY <1>3 DEF BeginElse, At
  <2>2. QED
    BY <2>1, LoopsNext
<1>4. CASE BeginFunction \/ BeginIf \/ Statement \/ Return \/ ReturnValue \/ Break
  <2>1. ast[pc].op \notin {"else", "end", "for"} /\ breakPoints' = breakPoints
    BY <1>4 DEF BeginFunction, BeginIf, Statement, Return, ReturnValue, Break, At, OnlyEmits
  <2>2. QED
    BY <2>1, LoopsNext
<1>5. QED
  BY <1>1, <1>2, <1>3, <1>4 DEF Generate

(* The exits of the loops entered before stay what they are. *)
LEMMA ExitKept ==
  ASSUME NEW new, Emits(new), NEW j, j # pc, NEW t
  PROVE  Exit(code', j, t) <=> Exit(code, j, t)
<1>1. Instrs(code') = Instrs(code) \cup new /\ \A i \in new : i.item = pc
  BY DEF Emits
<1>2. Tests(code', j) = Tests(code, j)
  BY <1>1 DEF Tests
<1>3. QED
  BY <1>2 DEF Exit

LEMMA ExitNew ==
  ASSUME NEW new, Emits(new), Emitted, pc \in Nat, ast[pc].op = "for"
  PROVE  Exit(code', pc, nblocks + 3)
<1>1. \A i \in Instrs(code) : i.item # pc
  BY DEF Emitted
<1>2. Instrs(code') = Instrs(code) \cup new /\ \A i \in new : i.item = pc
  BY DEF Emits
<1>3. (\E i \in new : i.op = "condbr") /\ \A i \in new : i.op = "condbr" => i.no = nblocks + 3
  BY DEF Emits
<1>4. Tests(code', pc) = {i \in new : i.op = "condbr"}
  BY <1>1, <1>2 DEF Tests
<1>5. QED
  BY <1>3, <1>4 DEF Exit

(* The last of the stack of loops is the innermost. *)
LEMMA LastLoop ==
  ASSUME NEW s \in Seq(Nat), Increasing(s), NEW x \in Entries(s), \A j \in Entries(s) : j <= x
  PROVE  Len(s) > 0 /\ Len(s) \in DOMAIN s /\ s[Len(s)] = x
<1>1. /\ Len(s) \in Nat /\ DOMAIN s = 1..Len(s) /\ \A k \in DOMAIN s : s[k] \in Nat
  OBVIOUS
<1>2. PICK k \in DOMAIN s : s[k] = x
  BY DEF Entries
<1>3. Len(s) \in DOMAIN s /\ Len(s) > 0
  BY <1>1, <1>2
<1>4. s[Len(s)] <= x
  BY <1>3 DEF Entries
<1>5. k < Len(s) => s[k] < s[Len(s)]
  BY <1>2, <1>3 DEF Increasing
<1>6. k = Len(s) \/ k < Len(s)
  BY <1>1, <1>2
<1>7. s[Len(s)] \in Nat /\ x \in Nat
  BY <1>1, <1>2, <1>3
<1>8. QED
  BY <1>2, <1>3, <1>4, <1>5, <1>6, <1>7

(* The break points are the exits of the loops around pc, the innermost last. *)
LEMMA GenTargeted ==
  ASSUME Typed, Generate, Nested(ast), Walked, Emitted, Targeted
  PROVE  Targeted'
<1>1. PICK s \in Seq(1..MaxItems) : LoopStack(s, code, pc)
  BY DEF Targeted
<1>2. /\ Len(s) = Len(breakPoints) /\ Increasing(s) /\ Entries(s) = Loops(pc)
      /\ \A m \in DOMAIN s : Exit(code, s[m], breakPoints[m])
      /\ Len(s) \in Nat /\ DOMAIN s = 1..Len(s)
  BY <1>1 DEF LoopStack
<1>3. s \in Seq(Nat)
  BY <1>1, BodyAssumption DEF BodyAssumption
<1>4. PICK new : Emits(new)
  BY StepInstrs
<1>5. /\ pc' = pc + 1 /\ pc \in Nat /\ pc \in 1..MaxItems /\ ast' = ast
      /\ breakPoints \in Seq(Nat) /\ nblocks \in Nat
  BY GenFacts, StateFacts
<1>6. \A m \in DOMAIN s : s[m] \in Loops(pc) /\ s[m] < pc /\ s[m] # pc
  <2>1. \A m \in DOMAIN s : s[m] \in Loops(pc)
    BY <1>2 DEF Entries
  <2>2. \A j \in Loops(pc) : j < pc /\ j # pc
    <3>1. \A j \in Loops(pc) : j \in 1..(pc - 1)
      BY LoopsNext
    <3>2. QED
      BY <1>5, <3>1
  <2>3. QED
    BY <2>1, <2>2
<1>7. \A m \in DOMAIN s : Exit(code', s[m], breakPoints[m])
  BY <1>2, <1>4, <1>6, ExitKept
<1> DEFINE Fits(t) ==
      /\ Len(t) = Len(breakPoints') /\ Increasing(t) /\ Entries(t) = Loops(pc + 1)
      /\ \A m \in DOMAIN t : Exit(code', t[m], breakPoints'[m])
<1>8. \E t \in Seq(1..MaxItems) : Fits(t)
  <2>1. CASE ast[pc].op = "for" /\ breakPoints' = Append(breakPoints, nblocks + 3)
    <3> DEFINE t == Append(s, pc)
    <3>1. t \in Seq(1..MaxItems) /\ Len(t) = Len(s) + 1 /\ DOMAIN t = 1..(Len(s) + 1)
          /\ t[Len(s) + 1] = pc /\ \A k \in DOMAIN s : t[k] = s[k]
      BY <1>5, PushSeq
    <3>2. Increasing(t) /\ Entries(t) = Loops(pc) \cup {pc}
      <4>1. \A j \in Entries(s) : j < pc
        BY <1>6 DEF Entries
      <4>2. QED
        BY <1>2, <1>3, <1>5, <4>1, PushIncreasing
    <3>3. Loops(pc + 1) = Loops(pc) \cup {pc}
      <4>1. ast[pc].opener = 0 /\ 0 \notin Loops(pc) /\ pc # 0
        BY <1>5, <2>1, LoopsNext
      <4>2. Loops(pc + 1) = (Loops(pc) \cup {pc}) \ {ast[pc].opener}
        BY <2>1, LoopsNext
      <4>3. QED
        BY <4>1, <4>2
    <3>4. /\ Len(breakPoints') = Len(s) + 1 /\ breakPoints'[Len(s) + 1] = nblocks + 3
          /\ \A k \in DOMAIN s : breakPoints'[k] = breakPoints[k]
      <4>1. /\ Len(breakPoints') = Len(breakPoints) + 1
            /\ breakPoints'[Len(breakPoints) + 1] = nblocks + 3
            /\ \A k \in DOMAIN breakPoints : breakPoints'[k] = breakPoints[k]
            /\ DOMAIN breakPoints = 1..Len(breakPoints)
        BY <1>5, <2>1, PushSeq
      <4>2. QED
        BY <1>2, <4>1
    <3>5. Exit(code', pc, nblocks + 3)
      BY <1>4, <1>5, <2>1, ExitNew
    <3> HIDE DEF t
    <3>6. \A m \in 1..(Len(s) + 1) : m \in DOMAIN s \/ m = Len(s) + 1
      BY <1>2
    <3>7. \A m \in DOMAIN t : Exit(code', t[m], breakPoints'[m])
      BY <1>7, <3>1, <3>4, <3>5, <3>6
    <3>8. Fits(t)
      BY <3>1, <3>2, <3>3, <3>4, <3>7
    <3>9. QED
      BY <3>1, <3>8
  <2>2. CASE /\ ast[pc].op = "end" /\ ast[pc].opener \in Loops(pc)
             /\ breakPoints' = SubSeq(breakPoints, 1, Len(breakPoints) - 1)
    <3> DEFINE x == ast[pc].opener
               t == SubSeq(s, 1, Len(s) - 1)
    <3>1. \A j \in Loops(pc) : j <= x
      <4>1. Inner(ast, pc, x)
        BY <2>2, LoopsNext DEF Nested
      <4>2. QED
        BY <4>1 DEF Inner, Loops
    <3>2. Len(s) > 0 /\ Len(s) \in DOMAIN s /\ s[Len(s)] = x
      BY <1>2, <1>3, <2>2, <3>1, LastLoop
    <3>3. /\ t \in Seq(1..MaxItems) /\ Len(t) = Len(s) - 1 /\ DOMAIN t = 1..(Len(s) - 1)
          /\ \A k \in 1..(Len(s) - 1) : t[k] = s[k]
      BY <3>2, PopSeq
    <3>4. Increasing(t) /\ Entries(t) = Loops(pc) \ {x}
      BY <1>2, <1>3, <3>2, PopIncreasing
    <3>5. Loops(pc + 1) = Loops(pc) \ {x}
      BY <2>2, LoopsNext
    <3>6. /\ Len(breakPoints') = Len(s) - 1
          /\ \A k \in 1..(Len(s) - 1) : breakPoints'[k] = breakPoints[k]
      BY <1>2, <1>5, <2>2, <3>2, PopSeq
    <3> HIDE DEF t, x
    <3>7. \A m \in 1..(Len(s) - 1) : m \in DOMAIN s
      BY <1>2
    <3>8. \A m \in DOMAIN t : Exit(code', t[m], breakPoints'[m])
      BY <1>7, <3>3, <3>6, <3>7
    <3>9. Fits(t)
      BY <3>3, <3>4, <3>5, <3>6, <3>8
    <3>10. QED
      BY <3>3, <3>9
  <2>3. CASE /\ ast[pc].op # "for" /\ ast[pc].opener \notin Loops(pc)
             /\ breakPoints' = breakPoints
    <3>1. Loops(pc + 1) = Loops(pc)
      BY <2>3, LoopsNext
    <3>2. Fits(s)
      BY <1>2, <1>7, <2>3, <3>1
    <3>3. QED
      BY <3>2
  <2>4. QED
    BY <2>1, <2>2, <2>3, StepBreakPoints
<1>9. PICK t \in Seq(1..MaxItems) : Fits(t)
  BY <1>8
<1>10. Loops(pc)' = Loops(pc + 1)
  BY <1>5 DEF Loops
<1>11. LoopStack(t, code, pc)'
  BY <1>9, <1>10 DEF LoopStack, Exit, Tests
<1>12. QED
  BY <1>9, <1>11 DEF Targeted

(* A break branches to the exit of the innermost of the loops around it. *)
LEMMA GenLeft ==
  ASSUME Typed, Generate, Nested(ast), Emitted, Targeted, Left
  PROVE  Left'
<1>1. PICK new : Emits(new)
  BY StepInstrs
<1>2. /\ Instrs(code') = Instrs(code) \cup new /\ \A i \in new : i.item = pc
      /\ ast[pc].op = "break" => \A i \in new : breakPoints # <<>> /\ i.yes = BreakPoint
  BY <1>1 DEF Emits
<1>3. ast' = ast /\ pc \in Nat /\ breakPoints \in Seq(Nat)
  BY GenFacts, StateFacts
<1> DEFINE Leaves1(i) ==
      ast[i.item].op = "break" =>
        \E j \in Loops(i.item) :
          (\A l \in Loops(i.item) : l <= j) /\ Exit(code', j, i.yes)
<1>4. ASSUME NEW i \in Instrs(code)
      PROVE  Leaves1(i)
  <2>1. Leaving(code, i) /\ i.item \in 1..(pc - 1)
    BY DEF Left, Emitted
  <2>2. \A j \in Loops(i.item) : j # pc
    BY <1>3, <2>1 DEF Loops, Open
  <2>3. \A j \in Loops(i.item) : Exit(code, j, i.yes) => Exit(code', j, i.yes)
    BY <1>1, <2>2, ExitKept
  <2>4. QED
    BY <2>1, <2>3 DEF Leaving
<1>5. ASSUME NEW i \in new, ast[pc].op = "break"
      PROVE  Leaves1(i)
  <2>1. i.item = pc /\ breakPoints # <<>> /\ i.yes = breakPoints[Len(breakPoints)]
    BY <1>2, <1>5 DEF BreakPoint
  <2>2. PICK s \in Seq(1..MaxItems) : LoopStack(s, code, pc)
    BY DEF Targeted
  <2>3. s \in Seq(Nat)
    BY <2>2, BodyAssumption DEF BodyAssumption
  <2>4. Len(breakPoints) \in Nat /\ Len(breakPoints) > 0
    BY <1>3, <2>1
  <2>5. /\ Len(s) = Len(breakPoints) /\ Increasing(s) /\ Entries(s) = Loops(pc)
        /\ \A m \in DOMAIN s : Exit(code, s[m], breakPoints[m])
        /\ Len(s) \in DOMAIN s
    BY <2>2, <2>4 DEF LoopStack
  <2> DEFINE j == s[Len(s)]
  <2>6. j \in Loops(pc) /\ Exit(code, j, i.yes)
    BY <2>1, <2>5 DEF Entries
  <2>7. \A l \in Loops(pc) : l <= j
    <3>1. \A m \in DOMAIN s : m < Len(s) \/ m = Len(s)
      BY <2>3
    <3>2. \A m \in DOMAIN s : s[m] \in Nat
      BY <2>3
    <3>3. \A m \in DOMAIN s : s[m] <= s[Len(s)]
      BY <2>5, <3>1, <3>2 DEF Increasing
    <3>4. QED
      BY <2>5, <3>3 DEF Entries
  <2> HIDE DEF j
  <2>8. j # pc
    BY <1>3, <2>6 DEF Loops, Open
  <2>9. Exit(code', j, i.yes)
    BY <1>1, <2>6, <2>8, ExitKept
  <2>10. QED
    BY <2>1, <2>6, <2>7, <2>9
<1>6. \A i \in new : Leaves1(i)
  BY <1>2, <1>5
<1>7. \A i \in Instrs(code') : Leaves1(i)
  BY <1>2, <1>4, <1>6
<1>8. \A i : Leaving(code, i)' <=> Leaves1(i)
  BY <1>3 DEF Leaving, Loops, Exit, Tests
<1>9. QED
  BY <1>7, <1>8 DEF Left

-----------------------------------------------------------------------------
(* Where no closure is, the returns branch to the function's own ret block. *)
LEMMA StepFunction ==
  ASSUME Typed, Generate, NoClosure, currentFunction \in {0, 1}
  PROVE  /\ currentFunction' \in {0, 1}
         /\ pc # 1 => currentFunction = 1
         /\ \/ retBlock' = retBlock
            \/ retBlock[1] = 0 /\ currentFunction = 1 /\ ast[pc].op = "if"
<1>1. pc \in DOMAIN ast /\ (pc # 1 => currentFunction = 1)
  <2>1. pc # 1 => currentFunction \in 1..MaxItems
    BY GenFacts
  <2>2. QED
    BY <2>1, GenPlace, BodyAssumption DEF BodyAssumption
<1>2. CASE BeginFunction
  <2>1. ast[pc].op = "fn"
    BY <1>1, <1>2 DEF BeginFunction, At, NoClosure
  <2>2. pc = 1
    BY <2>1, GenFacts
  <2>3. QED
    BY <1>2, <2>2 DEF BeginFunction
<1>3. CASE BeginIf
  <2>1. ast[pc].op = "if" /\ currentFunction' = currentFunction
    BY <1>3 DEF BeginIf, At
  <2>2. currentFunction = 1
    BY <1>1, <2>1, GenFacts
  <2>3. retBlock' = retBlock \/ NeedsRet(pc)
    BY <1>3 DEF BeginIf
  <2>4. QED
    BY <2>1, <2>2, <2>3 DEF NeedsRet
<1>4. CASE Statement \/ Return \/ ReturnValue \/ Break \/ BeginElse \/ BeginFor
           \/ EndFunction \/ EndIf \/ EndFor
  <2>1. retBlock' = retBlock /\ currentFunction' = currentFunction
    BY <1>4 DEF Statement, Return, ReturnValue, Break, BeginElse, BeginFor, EndFunction, EndIf,
                EndFor, OnlyEmits
  <2>2. QED
    BY <1>1, <2>1
<1>5. QED
  BY <1>2, <1>3, <1>4 DEF Generate

LEMMA DoneStep ==
  ASSUME Typed, Generate, phase' = "done"
  PROVE  /\ ast[pc].op = "end"
         /\ retBlock[1] # 0 => /\ retBlock[1] \in 1..nblocks
                               /\ \E k \in DOMAIN code'[retBlock[1]] : code'[retBlock[1]][k].op = "ret"
<1>1. EndFunction /\ ast[Top.item].op = "fn"
  BY DEF Generate, BeginFunction, EndFunction, Statement, Return, ReturnValue, Break, BeginIf,
         BeginElse, EndIf, BeginFor, EndFor, Step
<1>2. ast[pc].op = "end" /\ pc # 1
  BY <1>1, GenFacts DEF EndFunction, At
<1>3. Top.item = 1
  <2>1. Top.item \in 1..Len(ast)
    BY <1>2, PopFrame DEF FrameOK
  <2>2. QED
    BY <1>1, <2>1 DEF Typed, ParseInv, TypeOK, BodyTypeOK
<1>4. ASSUME retBlock[1] # 0
      PROVE  /\ retBlock[1] \in 1..nblocks
             /\ \E k \in DOMAIN code'[retBlock[1]] : code'[retBlock[1]][k].op = "ret"
  <2> DEFINE b == retBlock[1]
  <2>1. b \in 1..nblocks
    BY <1>1, <1>3, <1>4, EndBlock
  <2>2. code' = Emit(code, b, Ins("ret", 0, 0))
    BY <1>1, <1>3, <1>4 DEF EndFunction
  <2>3. code \in [1..nblocks -> Seq(Instr)] /\ Ins("ret", 0, 0) \in Instr
    <3>1. code \in [1..nblocks -> Seq(Instr)] /\ pc \in Nat
      BY StateFacts
    <3>2. QED
      BY <3>1, InsType DEF Terminators
  <2> HIDE DEF b
  <2>4. code'[b] = Append(code[b], Ins("ret", 0, 0)) /\ code[b] \in Seq(Instr)
    BY <2>1, <2>2, <2>3 DEF Emit
  <2>5. /\ DOMAIN code'[b] = 1..(Len(code[b]) + 1)
        /\ code'[b][Len(code[b]) + 1] = Ins("ret", 0, 0)
    BY <2>3, <2>4, PushSeq
  <2>6. Len(code[b]) + 1 \in 1..(Len(code[b]) + 1)
    BY <2>4
  <2>7. \E k \in DOMAIN code'[b] : code'[b][k].op = "ret"
    BY <2>5, <2>6, InsFields
  <2>8. QED
    BY <2>1, <2>7 DEF b
<1>5. QED
  BY <1>2, <1>4

LEMMA GenReturned ==
  ASSUME Typed, Generate, Returned
  PROVE  Returned'
<1>1. PICK new : Emits(new)
  BY StepInstrs
<1>2. /\ Instrs(code') = Instrs(code) \cup new /\ \A i \in new : i.item = pc
      /\ ast[pc].op \in Returns =>
           \A i \in new : i.op = "br" => i.yes = retBlock[currentFunction] /\ i.yes # 0
  BY <1>1 DEF Emits
<1>3. ast' = ast /\ pc' # 1 /\ (ast[pc].op = "fn" <=> pc = 1)
  BY GenFacts
<1>4. SUFFICES ASSUME NoClosure
               PROVE  /\ currentFunction' \in {0, 1}
                      /\ \A i \in Returning' : i.yes = retBlock'[1] /\ i.yes # 0
                      /\ phase' = "done" =>
                           \A i \in Returning' :
                             \E k \in DOMAIN code'[i.yes] : code'[i.yes][k].op = "ret"
  <2>1. NoClosure' <=> NoClosure
    BY <1>3 DEF NoClosure
  <2>2. QED
    BY <1>3, <1>4, <2>1 DEF Returned
<1>5. /\ currentFunction \in {0, 1}
      /\ \A i \in Returning : i.yes = retBlock[1] /\ i.yes # 0
  BY <1>4 DEF Returned
<1>6. /\ currentFunction' \in {0, 1}
      /\ pc # 1 => currentFunction = 1
      /\ \/ retBlock' = retBlock
         \/ retBlock[1] = 0 /\ currentFunction = 1 /\ ast[pc].op = "if"
  BY <1>4, <1>5, StepFunction
<1>7. Returning' = {i \in Instrs(code) \cup new : i.op = "br" /\ ast[i.item].op \in Returns}
  BY <1>2, <1>3 DEF Returning
<1>8. ASSUME NEW i \in Returning'
      PROVE  i.yes = retBlock[1] /\ i.yes # 0
  <2>1. CASE i \in Instrs(code)
    <3>1. i \in Returning
      BY <1>7, <1>8, <2>1 DEF Returning
    <3>2. QED
      BY <1>5, <3>1
  <2>2. CASE i \in new
    <3>1. ast[pc].op \in Returns /\ i.op = "br"
      BY <1>2, <1>7, <1>8, <2>2
    <3>2. currentFunction = 1
      BY <1>3, <1>6, <3>1 DEF Returns
    <3>3. QED
      BY <1>2, <2>2, <3>1, <3>2
  <2>3. QED
    BY <1>7, <2>1, <2>2
<1>9. \A i \in Returning' : i.yes = retBlock'[1] /\ i.yes # 0
  BY <1>6, <1>8
<1>10. ASSUME phase' = "done", NEW i \in Returning'
       PROVE  \E k \in DOMAIN code'[i.yes] : code'[i.yes][k].op = "ret"
  BY <1>8, <1>10, DoneStep
<1>11. QED
  BY <1>6, <1>9, <1>10

-----------------------------------------------------------------------------
(* A return emits its branch as soon as the function has a ret block. *)
LEMMA StepRet ==
  ASSUME Typed, Generate, NoClosure, currentFunction \in {0, 1}
  PROVE  retBlock'[1] # 0 <=> retBlock[1] # 0 \/ (ast[pc].op = "if" /\ AsksForRet(pc))
<1>1. CASE BeginIf
  <2>1. ast[pc].op = "if"
    BY <1>1 DEF BeginIf, At
  <2>2. currentFunction = 1
    BY <2>1, StepFunction, GenFacts
  <2>3. retBlock' = IF NeedsRet(pc) THEN [retBlock EXCEPT ![1] = nblocks + 1] ELSE retBlock
    BY <1>1, <2>2 DEF BeginIf
  <2>4. 1 \in DOMAIN retBlock /\ nblocks + 1 # 0
    BY StateFacts, BodyAssumption DEF BodyAssumption
  <2>5. NeedsRet(pc) <=> AsksForRet(pc) /\ retBlock[1] = 0
    BY <2>2 DEF NeedsRet
  <2>6. QED
    BY <2>1, <2>3, <2>4, <2>5
<1>2. CASE BeginFunction \/ Statement \/ Return \/ ReturnValue \/ Break \/ BeginElse \/ BeginFor
           \/ EndFunction \/ EndIf \/ EndFor
  <2>1. retBlock' = retBlock /\ ast[pc].op # "if"
    BY <1>2 DEF BeginFunction, Statement, Return, ReturnValue, Break, BeginElse, BeginFor,
                EndFunction, EndIf, EndFor, OnlyEmits, At
  <2>2. QED
    BY <2>1
<1>3. QED
  BY <1>1, <1>2 DEF Generate

LEMMA HasRetNext ==
  ASSUME NEW p \in Nat, p > 0
  PROVE  HasRet(p + 1) <=> HasRet(p) \/ (ast[p].op = "if" /\ AsksForRet(p))
<1>1. (\A j \in 1..(p + 1 - 1) : j \in 1..(p - 1) \/ j = p) /\ 1..(p - 1) \subseteq 1..(p + 1 - 1)
      /\ p \in 1..(p + 1 - 1)
  OBVIOUS
<1>2. QED
  BY <1>1 DEF HasRet

(* The function ends with the last item of its AST. *)
LEMMA DoneLast ==
  ASSUME Typed, Generate, Nested(ast), Walked', phase' = "done"
  PROVE  pc' = Len(ast') + 1
<1>1. /\ ast \in Seq(Item) /\ ast' = ast /\ pc \in 1..Len(ast) /\ pc' = pc + 1
      /\ Len(ast) \in Nat
  BY GenPlace, GenFacts
<1>2. EndFunction /\ ast[Top.item].op = "fn"
  BY DEF Generate, BeginFunction, EndFunction, Statement, Return, ReturnValue, Break, BeginIf,
         BeginElse, EndIf, BeginFor, EndFor, Step
<1>3. pc # 1
  BY <1>2, GenFacts DEF EndFunction, At
<1>4. frames' = <<>>
  <2>1. Len(frames) \in 1..Len(frames) /\ frames \in Seq(Frame)
    BY <1>3, GenFacts, StateFacts DEF FramesOK
  <2>2. Len(frames) = 1
    <3>1. Len(frames) \in DOMAIN frames
      BY <2>1
    <3>2. \A k \in DOMAIN frames : ast[frames[k].item].op = "fn" <=> k = 1
      BY DEF Typed, FrameInv
    <3>3. Top = frames[Len(frames)]
      BY DEF Top
    <3>4. QED
      BY <1>2, <3>1, <3>2, <3>3
  <2>3. QED
    BY <1>2, <2>1, <2>2 DEF EndFunction, Pop
<1>5. Open(ast, pc + 1) = {}
  <2>1. Entries(FrameItems') = {}
    BY <1>4 DEF FrameItems, ItemsOf, Entries
  <2>2. Entries(FrameItems') = {FrameItem(j)' : j \in Open(ast', pc')}
    BY DEF Walked
  <2>3. QED
    BY <1>1, <2>1, <2>2
<1>6. pc + 1 \notin DOMAIN ast
  <2>1. pc + 1 # 1
    BY <1>1
  <2>2. QED
    BY <1>5, <2>1 DEF Nested, Inner
<1>7. QED
  BY <1>1, <1>6

LEMMA GenAnswered ==
  ASSUME Typed, Generate, Nested(ast), Walked', Emitted, Returned, Answered
  PROVE  Answered'
<1>1. PICK new : Emits(new)
  BY StepInstrs
<1>2. /\ Instrs(code') = Instrs(code) \cup new /\ \A i \in new : i.item = pc
      /\ ast[pc].op \in Returns =>
           \A i \in new : i.op = "br" => i.yes = retBlock[currentFunction] /\ i.yes # 0
      /\ ast[pc].op \in Returns /\ phase' # "error" /\ retBlock[currentFunction] # 0 =>
           \E i \in new : i.op = "br"
  BY <1>1 DEF Emits
<1>3. /\ ast' = ast /\ pc \in Nat /\ pc > 0 /\ pc' = pc + 1 /\ phase = "gen"
      /\ ast[pc].op = "fn" <=> pc = 1
  BY GenFacts, StateFacts
<1>4. phase' = "done" => pc' = Len(ast') + 1
  BY DoneLast
<1>5. \A i : HasRet(i)' <=> HasRet(i)
  BY <1>3 DEF HasRet, AsksForRet
<1>6. SUFFICES ASSUME NoClosure
               PROVE  /\ retBlock'[1] # 0 <=> HasRet(pc')
                      /\ phase' # "error" =>
                           \A i \in 1..(pc' - 1) :
                             ast[i].op \in Returns => (HasRet(i) <=> Branches(code', i))
  <2>1. NoClosure' <=> NoClosure
    BY <1>3 DEF NoClosure
  <2>2. \A i : Branches(code, i)' <=> Branches(code', i)
    BY DEF Branches, Instrs
  <2>3. pc' # 1
    BY <1>3
  <2>4. QED
    BY <1>3, <1>4, <1>5, <1>6, <2>1, <2>2, <2>3 DEF Answered
<1>7. /\ currentFunction \in {0, 1} /\ (pc # 1 => currentFunction = 1)
      /\ retBlock[1] # 0 <=> HasRet(pc)
      /\ \A i \in 1..(pc - 1) : ast[i].op \in Returns => (HasRet(i) <=> Branches(code, i))
  BY <1>3, <1>6, StepFunction DEF Returned, Answered
<1>8. retBlock'[1] # 0 <=> HasRet(pc')
  BY <1>3, <1>6, <1>7, StepRet, HasRetNext
<1>9. ASSUME phase' # "error", NEW i \in 1..(pc' - 1), ast[i].op \in Returns
      PROVE  HasRet(i) <=> Branches(code', i)
  <2>1. CASE i = pc
    <3>1. currentFunction = 1
      BY <1>3, <1>7, <1>9, <2>1 DEF Returns
    <3>2. \A x \in Instrs(code) : x.item # pc
      BY <1>3 DEF Emitted
    <3>3. Branches(code', pc) <=> \E x \in new : x.op = "br"
      BY <1>2, <3>2 DEF Branches
    <3>4. (\E x \in new : x.op = "br") <=> retBlock[1] # 0
      BY <1>2, <1>9, <2>1, <3>1
    <3>5. QED
      BY <1>7, <2>1, <3>3, <3>4
  <2>2. CASE i # pc
    <3>1. i \in 1..(pc - 1)
      BY <1>3, <1>9, <2>2
    <3>2. Branches(code', i) <=> Branches(code, i)
      BY <1>2, <2>2 DEF Branches
    <3>3. QED
      BY <1>7, <1>9, <3>1, <3>2
  <2>3. QED
    BY <2>1, <2>2
<1>10. QED
  BY <1>8, <1>9

-----------------------------------------------------------------------------
(* The inductive invariant. *)
Nesting ==
  Bracketed /\ Flagged /\ Walked /\ Emitted /\ Targeted /\ Left /\ Returned /\ Answered

LEMMA InitNesting == Init => Nesting
<1> SUFFICES ASSUME Init PROVE Nesting
  OBVIOUS
<1>1. PICK void \in VoidFns : ast = <<NewItem("fn", 0, void)>>
  BY DEF Init, BodyInit
<1>2. /\ DOMAIN ast = {1} /\ Len(ast) = 1 /\ ast[1].op = "fn" /\ ast[1].opener = 0
      /\ ~ast[1].returns
  BY <1>1 DEF NewItem
<1>3. /\ opened = <<1>> /\ pc = 1 /\ code = <<>> /\ frames = <<>> /\ breakPoints = <<>>
      /\ currentFunction = 0 /\ phase = "parse"
  BY DEF Init, BodyInit, GenInit
<1>4. Bracketed
  <2>1. Nested(ast)
    BY <1>2 DEF Nested
  <2>2. Increasing(opened)
    BY <1>3 DEF Increasing
  <2>3. Entries(opened) = {1}
    BY <1>3 DEF Entries
  <2>4. Open(ast, 2) = {1}
    BY <1>2 DEF Open, Blocks
  <2>5. Len(ast) + 1 = 2
    BY <1>2
  <2>6. QED
    BY <2>1, <2>2, <2>3, <2>4, <2>5 DEF Bracketed
<1>5. Flagged
  BY <1>2 DEF Flagged, Returns
<1>6. Open(ast, 1) = {}
  BY DEF Open
<1>7. Walked
  BY <1>3, <1>6 DEF Walked, FrameItems, ItemsOf, Increasing, Entries
<1>8. Instrs(code) = {}
  BY <1>3 DEF Instrs
<1>9. Emitted /\ Left /\ Returned
  BY <1>3, <1>8 DEF Emitted, Left, Returned, Returning
<1>9a. Answered
  <2>1. retBlock[1] = 0
    BY BodyAssumption DEF Init, GenInit, BodyAssumption
  <2>2. ~HasRet(1) /\ 1..(1 - 1) = {}
    BY DEF HasRet
  <2>3. QED
    BY <1>3, <2>1, <2>2 DEF Answered
<1>10. Targeted
  <2>1. <<>> \in Seq(1..MaxItems) /\ DOMAIN <<>> = {}
    OBVIOUS
  <2>2. LoopStack(<<>>, code, pc)
    BY <1>3, <1>6, <2>1 DEF LoopStack, Increasing, Entries, Loops
  <2>3. QED
    BY <2>1, <2>2 DEF Targeted
<1>11. QED
  BY <1>4, <1>5, <1>7, <1>9, <1>9a, <1>10 DEF Nesting

(* While the parser runs the generator has not begun. *)
LEMMA ParseNesting ==
  ASSUME Typed, Nesting, BodyNext, UNCHANGED genVars
  PROVE  Nesting'
<1>1. /\ pc = 1 /\ Len(frames) = 0 /\ frames \in Seq(Frame) /\ breakPoints \in Seq(Nat)
      /\ phase = "parse"
  BY ParseFacts DEF Typed, TypeOK, FrameInv
<1>2. /\ pc' = 1 /\ code' = code /\ frames' = frames /\ breakPoints' = breakPoints
      /\ currentFunction' = currentFunction /\ retBlock' = retBlock
  BY <1>1 DEF genVars
<1>3. Instrs(code) = {}
  <2>1. 1..(pc - 1) = {}
    BY <1>1
  <2>2. QED
    BY <2>1 DEF Nesting, Emitted
<1>4. Instrs(code') = {}
  BY <1>2, <1>3
<1>5. Emitted' /\ Left'
  <2>1. Len(ast') \in Nat
    BY ParseFacts, ParseStep DEF Extends
  <2>2. QED
    BY <1>2, <1>4, <2>1 DEF Emitted, Left
<1>6. Returned'
  <2>1. currentFunction = 0
    BY <1>1 DEF Nesting, Returned
  <2>2. Returning' = {}
    BY <1>4 DEF Returning
  <2>3. QED
    BY <1>2, <2>1, <2>2 DEF Returned
<1>6a. Answered'
  <2>1. retBlock[1] = 0
    BY <1>1 DEF Nesting, Answered
  <2>2. ~HasRet(1)' /\ 1..(1 - 1) = {}
    BY DEF HasRet
  <2>3. phase' # "done"
    BY <1>1 DEF BodyNext, ParseSimple, ParseReturn, ParseOpen, ParseElse, ParseClose
  <2>4. QED
    BY <1>2, <2>1, <2>2, <2>3 DEF Answered
<1>7. Open(ast', 1) = {} /\ Open(ast, 1) = {}
  BY DEF Open
<1>8. Walked'
  <2>1. frames = <<>>
    BY <1>1
  <2>2. QED
    BY <1>2, <1>7, <2>1 DEF Walked, FrameItems, ItemsOf, Increasing, Entries
<1>9. Targeted'
  <2>1. PICK s \in Seq(1..MaxItems) : LoopStack(s, code, pc)
    BY DEF Nesting, Targeted
  <2>2. Loops(1) = {} /\ Loops(1)' = {}
    BY <1>7 DEF Loops
  <2>3. Entries(s) = {} /\ Len(s) = Len(breakPoints) /\ Increasing(s)
    BY <1>1, <2>1, <2>2 DEF LoopStack
  <2>4. DOMAIN s = {}
    BY <2>3 DEF Entries
  <2>5. LoopStack(s, code, pc)'
    BY <1>2, <2>2, <2>3, <2>4 DEF LoopStack
  <2>6. QED
    BY <2>1, <2>5 DEF Targeted
<1>10. QED
  BY <1>5, <1>6, <1>6a, <1>8, <1>9, ParseBracketed, ParseFlagged DEF Nesting

LEMMA NextNesting == Typed /\ Nesting /\ [Next]_vars => Nesting'
<1> SUFFICES ASSUME Typed, Nesting, [Next]_vars PROVE Nesting'
  OBVIOUS
<1>1. CASE BodyNext /\ UNCHANGED genVars
  BY <1>1, ParseNesting
<1>2. CASE Generate
  <2>1. ast' = ast /\ opened' = opened
    BY <1>2, GenFacts
  <2>2. Bracketed' /\ Flagged'
    BY <2>1 DEF Nesting, Bracketed, Flagged
  <2>3. Nested(ast)
    BY DEF Nesting, Bracketed
  <2>4. QED
    BY <1>2, <2>2, <2>3, GenWalked, GenEmitted, GenTargeted, GenLeft, GenReturned, GenAnswered
       DEF Nesting
<1>3. CASE UNCHANGED vars
  <2>1. /\ ast' = ast /\ opened' = opened /\ frames' = frames /\ pc' = pc /\ code' = code
        /\ breakPoints' = breakPoints /\ currentFunction' = currentFunction
        /\ retBlock' = retBlock /\ phase' = phase
    BY <1>3 DEF vars, bodyVars, genVars
  <2>2. Bracketed' /\ Flagged' /\ Walked' /\ Emitted'
    BY <2>1 DEF Nesting, Bracketed, Flagged, Walked, FrameItems, FrameItem, Emitted
  <2>3. Targeted' /\ Left'
    BY <2>1 DEF Nesting, Targeted, LoopStack, Left, Leaving, Loops, Exit, Tests
  <2>4. Returned'
    BY <2>1 DEF Nesting, Returned, Returning, NoClosure
  <2>4a. Answered'
    BY <2>1 DEF Nesting, Answered, Branches, HasRet, AsksForRet, NoClosure
  <2>5. QED
    BY <2>2, <2>3, <2>4, <2>4a DEF Nesting
<1>4. QED
  BY <1>1, <1>2, <1>3 DEF Next

(***************************************************************************)
(* The properties of the runs follow.                                      *)
(***************************************************************************)
LEMMA IssuedInstrs ==
  ASSUME NEW op, NEW i
  PROVE  Issued(op, i) = {x \in Instrs(code) : x.op = op /\ x.item = i}
BY DEF Issued, Instrs

LEMMA LeftInnermost ==
  ASSUME Typed, Nesting
  PROVE  BreakLeavesInnermostLoop
<1>1. ast \in Seq(Item) /\ Nested(ast) /\ pc \in Nat /\ pc <= Len(ast) + 1
  BY DEF Typed, TypeOK, BodyTypeOK, Nesting, Bracketed, Emitted
<1>2. SUFFICES ASSUME NEW i \in DOMAIN ast, ast[i].op = "break", NEW x \in Issued("br", i)
               PROVE  \E j \in (IF OwnLoops(i) # {} THEN OwnLoops(i) ELSE LoopsAround(i)) :
                        /\ \A l \in (IF OwnLoops(i) # {} THEN OwnLoops(i) ELSE LoopsAround(i)) :
                             l <= j
                        /\ x.yes = LoopExit(j)
  BY DEF BreakLeavesInnermostLoop
<1>3. x \in Instrs(code) /\ x.item = i
  BY IssuedInstrs
<1>4. LoopsAround(i) = Loops(i) /\ LoopsAround(i) \subseteq Nat
  <2>1. ast[i].opener = 0
    BY <1>1, <1>2 DEF Nested
  <2>2. \A j \in DOMAIN ast : Encloses(j, i) <=> j \in Open(ast, i)
    BY <1>1, <2>1, EnclosesOpen
  <2>3. \A j \in Open(ast, i) : j \in DOMAIN ast
    BY <1>1 DEF Open
  <2>4. LoopsAround(i) = Loops(i)
    BY <2>2, <2>3 DEF Loops, LoopsAround
  <2>5. QED
    BY <1>1, <2>4 DEF LoopsAround
<1>5. PICK j \in LoopsAround(i) :
        (\A l \in LoopsAround(i) : l <= j) /\ Exit(code, j, x.yes)
  <2>1. Leaving(code, x)
    BY <1>3 DEF Nesting, Left
  <2>2. QED
    BY <1>2, <1>3, <1>4, <2>1 DEF Leaving
<1>6. x.yes = LoopExit(j)
  <2>1. Tests(code, j) # {} /\ \A y \in Tests(code, j) : y.no = x.yes
    BY <1>5 DEF Exit
  <2>2. Issued("condbr", j) = Tests(code, j)
    BY IssuedInstrs DEF Tests
  <2>3. (CHOOSE y \in Tests(code, j) : TRUE) \in Tests(code, j)
    BY <2>1
  <2>4. LoopExit(j) = (CHOOSE y \in Tests(code, j) : TRUE).no
    BY <2>2 DEF LoopExit
  <2>5. QED
    BY <2>1, <2>3, <2>4
(* The innermost loop of all is one of the function's own if there is any. *)
<1>7. ASSUME NEW o \in OwnLoops(i) PROVE j \in OwnLoops(i)
  <2>1. o \in LoopsAround(i) /\ o <= j
    BY <1>5 DEF OwnLoops
  <2>2. \A c \in DOMAIN ast : ast[c].op = "closure" /\ Encloses(c, i) => c < o
    BY DEF OwnLoops
  <2>3. \A c \in DOMAIN ast : ast[c].op = "closure" /\ Encloses(c, i) => c < j
    <3>1. \A c \in DOMAIN ast : c \in Nat
      BY <1>1
    <3>2. o \in Nat /\ j \in Nat
      BY <1>4, <1>5, <2>1
    <3>3. QED
      BY <2>1, <2>2, <3>1, <3>2
  <2>4. QED
    BY <1>5, <2>3 DEF OwnLoops
<1>8. OwnLoops(i) \subseteq LoopsAround(i)
  BY DEF OwnLoops
<1>9. QED
  BY <1>5, <1>6, <1>7, <1>8

LEMMA ReturnedRet ==
  ASSUME Typed, Nesting
  PROVE  ReturnsReachRet
<1>1. SUFFICES ASSUME phase = "done", NoClosure, NEW i \in DOMAIN ast, ast[i].op \in Returns
               PROVE  /\ Issued("br", i) # {} <=> HasRet(i)
                      /\ \A x \in Issued("br", i) :
                           \E k \in DOMAIN code[x.yes] : code[x.yes][k].op = "ret"
  BY DEF ReturnsReachRet
<1>2. Issued("br", i) = {x \in Instrs(code) : x.op = "br" /\ x.item = i}
  BY IssuedInstrs
<1>3. HasRet(i) <=> Branches(code, i)
  <2>1. Answered /\ pc = Len(ast) + 1
    BY <1>1 DEF Nesting, Answered
  <2>2. i \in 1..(pc - 1)
    <3>1. ast \in Seq(Item)
      BY DEF Typed, TypeOK, BodyTypeOK
    <3>2. QED
      BY <2>1, <3>1
  <2>3. QED
    BY <1>1, <2>1, <2>2 DEF Answered
<1>4. ASSUME NEW x \in Issued("br", i)
      PROVE  \E k \in DOMAIN code[x.yes] : code[x.yes][k].op = "ret"
  <2>1. x \in Returning
    BY <1>1, <1>2 DEF Returning
  <2>2. QED
    BY <1>1, <2>1 DEF Nesting, Returned
<1>5. QED
  BY <1>2, <1>3, <1>4 DEF Branches

LEMMA SpecNesting == Spec => [](Typed /\ Nesting)
<1>1. Init => Typed /\ Nesting
  BY InitTyped, InitNesting
<1>2. Typed /\ Nesting /\ [Next]_vars => Typed' /\ Nesting'
  BY NextTyped, NextNesting
<1>3. QED
  BY <1>1, <1>2, PTL DEF Spec

(***************************************************************************)
(* The flag `returns' is on exactly the blocks with a return of their own, *)
(* whatever the parser opened and closed before that return: current_block *)
(* is never the pointer a nested block left behind (parse_if_stmt,          *)
(* parse_for_stmt and parse_ret_expr of parser.rs).                        *)
(***************************************************************************)
THEOREM FlagIsExact == Spec => []ReturnsFlagExact
<1>1. Typed /\ Nesting => ReturnsFlagExact
  BY FlaggedExact DEF Nesting
<1>2. QED
  BY <1>1, SpecNesting, PTL

(***************************************************************************)
(* A break branches to the exit of the innermost loop of its own function  *)
(* or closure, or, where that has none, of the innermost loop around the   *)
(* closure: current_break_point is the stack of the loops around the item, *)
(* however deep loops, ifs and closures nest and whatever loops were       *)
(* closed before it.                                                       *)
(***************************************************************************)
THEOREM BreaksLeaveInnermostLoop == Spec => []BreakLeavesInnermostLoop
<1>1. Typed /\ Nesting => BreakLeavesInnermostLoop
  BY LeftInnermost
<1>2. QED
  BY <1>1, SpecNesting, PTL

(***************************************************************************)
(* In a finished function without closures a return emits a branch exactly *)
(* if an if before it asked for the ret block, and then it branches to the *)
(* block that holds the ret; every other return falls through.             *)
(***************************************************************************)
THEOREM ReturnsReachTheRet == Spec => []ReturnsReachRet
<1>1. Typed /\ Nesting => ReturnsReachRet
  BY ReturnedRet
<1>2. QED
  BY <1>1, SpecNesting, PTL
=============================================================================

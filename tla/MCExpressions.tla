--------------------------- MODULE MCExpressions ---------------------------
EXTENDS ExprMeaning

CONSTANT MaxTokens   \* the length of the sources that are no trees

MCNumeral == "0" :> 0 @@ "1" :> 1 @@ "2" :> 2 @@ "7" :> 7
MCNumbers == DOMAIN MCNumeral

(* Three bits for 32 and two for 8: a sign, a carry and a wider type. *)
MCWidth == [bool |-> 1, i8 |-> 2, u8 |-> 2, i32 |-> 3, u32 |-> 3]

I32 == Leaf("i32")
To(t) == Node("*", <<t>>)
Ref(t) == Node("&", <<t>>)
Pair(t) == Node("[;]", <<t, Leaf("2")>>)

MCStructs ==
  [S |-> <<[id |-> "m", typ |-> I32], [id |-> "q", typ |-> To(I32)], [id |-> "w", typ |-> Ref(Leaf("S"))]>>]
MCEnums == [E |-> <<"A", "B">>]
MCFunctions ==   \* f sets x; g returns its address, h a struct
  [f |-> [typ |-> I32, v |-> <<1>>, sets |-> <<2, 0>>],
   g |-> [typ |-> To(I32), v |-> <<2>>, sets |-> <<1, 0>>],
   h |-> [typ |-> Leaf("S"), v |-> <<1, 2, 9>>, sets |-> <<1, 0>>]]

Var(t, at) == [typ |-> t, at |-> at]
MCVars ==
  [x |-> Var(I32, 2), u |-> Var(Leaf("u32"), 3), n |-> Var(Leaf("u32"), 4), c |-> Var(Leaf("u8"), 5),
   p |-> Var(To(I32), 6), y |-> Var(Ref(I32), 7), pp |-> Var(To(To(I32)), 8), s |-> Var(Leaf("S"), 9),
   t |-> Var(To(Leaf("S")), 12), v |-> Var(Ref(Leaf("S")), 13), a |-> Var(Pair(I32), 14)]
(* Cell 1 is the return value; p and y point to x, pp to p, t, v and s.w to s. *)
MCMemory == <<0, 2, 5, 1, 3, 2, 2, 6, 0, 2, 9, 9, 9, 3, 7>>
MCRetType == I32
MCNames == DOMAIN MCVars \cup DOMAIN MCWidth \cup
  {"f", "g", "h", "m", "q", "w", "S", "E", "A", "B", "z"}

-----------------------------------------------------------------------------
(* Trees for the parser: every operator in every operand of every other,   *)
(* and of every pair of others.                                            *)
A == Leaf("a")
Heads == {"&&", "==", "+", "*", "=", "[", ".", "::", "call", "deref", "ret", "cast", "{}", "let mut"}
Build(o, l, r) ==
  CASE o = "deref" -> Node("*", <<r>>)
    [] o = "ret" -> Node(o, <<r>>)
    [] o = "cast" -> Node(o, <<I32, r>>)
    [] o = "let mut" -> Node(o, <<A, I32, r>>)
    [] o = "{}" -> Node(o, <<l, Node(".=", <<A, r>>)>>)
    [] OTHER -> Node(o, <<l, r>>)
One == {Build(o, A, A) : o \in Heads} \cup
  {A, Node("$", <<A, Node("tokens", <<A, Leaf("+")>>)>>), Leaf("{}")}
Two == {Build(o, l, r) : o \in Heads, l \in One, r \in One}
Three == {IF left THEN Build(o, t, A) ELSE Build(o, A, t) : o \in Heads, t \in Two, left \in BOOLEAN}

Types == {To(I32), Node("&", <<Leaf("mut"), I32>>), Node("[]", <<To(I32)>>), Pair(I32),
  Node("fn", <<I32>>), Node("fn", <<Node("[]", <<I32>>), I32, Node("fn", <<I32>>)>>)}
Typed == {Node("let mut", <<A, ty, Absent>>) : ty \in Types} \cup {Node("cast", <<ty, A>>) : ty \in Types}

-----------------------------------------------------------------------------
(* Statements for the code: operands of two operators, one on the other.   *)
Call(k) == Node("call", <<Leaf(k)>>)
Atoms == {Leaf(k) : k \in DOMAIN MCVars \cup {"0", "7"}} \cup {Call("f"), Call("g"), Call("h")}
Unaries == {<<k>> : k \in {"*", "&", "!", "i32", "u8", "u32", "p", "[0]", "[x]"}} \cup ({".", "->"} \X {"m", "q", "w"})
Apply(o, e) ==
  CASE o[1] \in {"*", "&", "!"} -> Node(o[1], <<e>>)
    [] o[1] \in {"i32", "u8", "u32"} -> Node("cast", <<Leaf(o[1]), e>>)
    [] o[1] = "p" -> Node("cast", <<To(I32), e>>)
    [] o[1] = "[0]" -> Node("[", <<e, Leaf("0")>>)
    [] o[1] = "[x]" -> Node("[", <<e, Leaf("x")>>)
    [] OTHER -> Node(o[1], <<e, Leaf(o[2])>>)
E1 == Atoms \cup {Apply(o, e) : o \in Unaries, e \in Atoms}
E2 == {Apply(o, e) : o \in Unaries, e \in E1}
Operands == {Leaf("x"), Leaf("u"), Leaf("n"), Leaf("7"), Leaf("1"), Call("f"), Node("::", <<Leaf("E"), Leaf("B")>>)}
Sums2 == {Node(o, <<IF left THEN e ELSE k, IF left THEN k ELSE e>>) :
           o \in {"+", "/", "<", ">=", "=="}, e \in E1, k \in Operands, left \in BOOLEAN}
List(l, r) == Node("{}", <<l, r>>)
Lists == {List(Node(".=", <<Leaf("q"), l>>), r) : l \in {Leaf("p"), Call("g")}, r \in Atoms} \cup
         {List(l, r) : l \in Atoms, r \in {Leaf("p"), Node("&", <<Leaf("x")>>), Leaf("y")}}

Let(ty, e) == Node("let", <<Leaf("z"), ty, e>>)
Assign(l, r) == Node("=", <<l, r>>)
Statements ==
  {{Let(ty, e) : ty \in {Absent, I32, Leaf("u8")}, e \in E2},
   {Let(Absent, e) : e \in Sums2},
   {Let(ty, e) : ty \in {Leaf("S"), Absent}, e \in Lists},
   {Node("ret", <<e>>) : e \in E2},
   {Assign(l, r) : l \in E1, r \in E1},
   {Assign(l, Leaf("1")) : l \in E2},
   {Assign(Leaf("s"), e) : e \in Lists}}

MCTrees == Statements \cup {Three, Typed}

MCSources ==
  UNION {{Append(s, ";") : s \in BoundedSeq(alphabet, MaxTokens)} : alphabet \in
    {{"a", "*", "&&", "==", "+", "."}, {"a", "(", ")", ",", "$"}, {"let", "mut", "a", ":", "=", ";"},
     {"a", "{", "}", ".", "=", ","}, {"(", ":", ")", "i32", "[", "]"}}}
  \cup {<<"a", "$", "(">> \o Append(s, ";") : s \in BoundedSeq({"a", "(", ")", ","}, MaxTokens + 1)}
=============================================================================

----------------------------- MODULE ExprParser -----------------------------
(***************************************************************************)
(* The expression parser (src/src/parse/parser.rs:540-1064): a recursive   *)
(* descent, one function per level of binding.  Each is an operator from   *)
(* the position of its first token to the tree it builds and the position  *)
(* after its last one.  Position 0 means rejected: it has the token        *)
(* "error", which nothing accepts, so a failure spreads to the callers.    *)
(*                                                                         *)
(* Statement tokens (if, for, match), closures, and macros the             *)
(* preprocessor knows, which are spliced into the tokens before the parse  *)
(* goes on (TokenStream), do not occur in the sources of this module.      *)
(***************************************************************************)
EXTENDS Integers, Sequences, SequencesExt

CONSTANTS
  Names,     \* the identifiers, type names among them
  Numbers,   \* the number literals
  Trees,     \* sets of trees to be written down and parsed back
  Sources    \* other sequences of tokens

VARIABLES
  meant,     \* the tree the source was written for, or Unknown
  source,    \* Parser.tokens, of one statement
  tree,      \* the statement parsed, Unparsed or Rejected
  index      \* Parser.index, from 1; 0 when the statement is rejected

parserVars == <<meant, source, tree, index>>

-----------------------------------------------------------------------------
(* Trees: a token with the trees of its operands. *)
Node(op, kids) == [op |-> op, kids |-> kids]
Leaf(t) == Node(t, <<>>)
Absent == Leaf("none")
Unknown == Leaf("unknown")
Unparsed == Leaf("unparsed")
Rejected == Leaf("rejected")

Tok(k) == IF k \in DOMAIN source THEN source[k]
          ELSE IF k = Len(source) + 1 THEN "eof" ELSE "error"
At(t, k) == [tree |-> t, at |-> k]
Failed == At(Rejected, 0)

(* The token t at the end of r, or a failure. *)
Expect(r, t) == At(r.tree, IF Tok(r.at) = t THEN r.at + 1 ELSE 0)

(* The operator between two operands read one after the other. *)
Join(l, r) == At(Node(Tok(l.at), <<l.tree, r.tree>>), r.at)

Comparisons == {"==", "!=", "<", ">", "<=", ">="}
Logic == {"&&", "||"}
Sums == {"+", "-"}
Products == {"*", "/", "%"}
Members == {".", "->"}
UnaryOps == {"*", "&", "!"}
Lets == {"let", "let mut"}

RECURSIVE ParseExpr(_), ParseCond(_), CondRest(_), LogicRest(_), SumRest(_),
  ProductRest(_), IndexRest(_), MemberRest(_), ResolutionRest(_),
  ParseTypeSpec(_), Items(_, _, _), ArgEnd(_, _), MacroArgs(_, _), Value(_)

(* `,'-separated items up to the closing token, a `,' at the end allowed. *)
Initializer(k) ==
  IF Tok(k) # "." THEN ParseExpr(k)
  ELSE IF Tok(k + 1) \notin Names \/ Tok(k + 2) # "=" THEN Failed
  ELSE LET v == ParseExpr(k + 3) IN At(Node(".=", <<Leaf(Tok(k + 1)), v.tree>>), v.at)
Item(kind, k) ==
  CASE kind = "args" -> ParseExpr(k)
    [] kind = "values" -> Initializer(k)
    [] kind = "types" -> ParseTypeSpec(k)
Close(kind) == IF kind = "values" THEN "}" ELSE ")"
ItemsFrom(t, item, kind) ==
  LET more == Node(t.op, Append(t.kids, item.tree)) IN
    CASE Tok(item.at) = Close(kind) -> At(more, item.at + 1)
      [] Tok(item.at) = "," -> Items(more, item.at + 1, kind)
      [] OTHER -> Failed
Items(t, k, kind) ==
  IF Tok(k) = Close(kind) THEN At(t, k + 1) ELSE ItemsFrom(t, Item(kind, k), kind)

FnReturn(ps) ==
  LET ret == IF Tok(ps.at) = "->" THEN ParseTypeSpec(ps.at + 1) ELSE At(Leaf("void"), ps.at) IN
    At(Node("fn", Append(ps.tree.kids, ret.tree)), ret.at)
ParseTypeSpec(k) ==
  CASE Tok(k) \in {"*", "&"} ->
         LET mut == IF Tok(k + 1) = "mut" THEN <<Leaf("mut")>> ELSE <<>>
             t == ParseTypeSpec(k + 1 + Len(mut)) IN
           At(Node(Tok(k), Append(mut, t.tree)), t.at)
    [] Tok(k) = "[" ->
         LET t == ParseTypeSpec(k + 1) IN
           CASE Tok(t.at) = "]" -> At(Node("[]", <<t.tree>>), t.at + 1)
             [] Tok(t.at) = ";" /\ Tok(t.at + 1) \in Numbers ->
                  Expect(At(Node("[;]", <<t.tree, Leaf(Tok(t.at + 1))>>), t.at + 2), "]")
             [] OTHER -> Failed
    [] Tok(k) = "fn" ->
         FnReturn(IF Tok(k + 1) = "(" THEN Items(Leaf("fn"), k + 2, "types") ELSE Failed)
    [] Tok(k) \in {"error", "Self"} -> Failed   \* Self stands for a type in impls only
    [] OTHER -> At(Leaf(Tok(k)), k + 1)         \* whatever the token is

-----------------------------------------------------------------------------
(* Operands, from the tightest level outwards. *)
ParsePrimary(k) ==
  IF Tok(k) \in Names \cup Numbers \cup {"break"} THEN At(Leaf(Tok(k)), k + 1) ELSE Failed

CastTo(ty) ==
  LET e == ParseExpr(ty.at) IN At(Node("cast", <<ty.tree, e.tree>>), e.at)
ParseCast(k) == CastTo(Expect(ParseTypeSpec(k + 2), ")"))

ParseParan(k) ==
  IF Tok(k) # "(" THEN ParsePrimary(k)
  ELSE IF Tok(k + 1) = ":" THEN ParseCast(k)
  ELSE Expect(ParseExpr(k + 1), ")")

ParseInitializer(k) ==
  IF Tok(k) = "{" THEN Items(Leaf("{}"), k + 1, "values") ELSE ParseParan(k)

ParseUnary(k) ==
  IF Tok(k) \notin UnaryOps THEN ParseInitializer(k)
  ELSE LET e == ParseExpr(k + 1) IN At(Node(Tok(k), <<e.tree>>), e.at)

ResolutionRest(l) ==
  IF Tok(l.at) = "::" THEN ResolutionRest(Join(l, ParseExpr(l.at + 1))) ELSE l
ParseResolution(k) == ResolutionRest(ParseUnary(k))

(* AST::get_value: the name an expression starts from. *)
Value(t) ==
  CASE t.op \in {"ret", "{}"} \/ t.kids = <<>> -> t.op
    [] t.op = "cast" -> Value(t.kids[2])
    [] OTHER -> Value(t.kids[1])

(***************************************************************************)
(* The arguments of a macro are sequences of tokens.  One ends at a `,',   *)
(* or in front of a `)' that none of its own parentheses is open for.      *)
(***************************************************************************)
Depth(k, d) == d + (IF Tok(k) = "(" THEN 1 ELSE IF Tok(k) = ")" THEN -1 ELSE 0)
ArgEnd(k, d) ==
  CASE Tok(k) = "," -> k
    [] Tok(k) \in {"eof", "error"} -> 0
    [] Tok(k + 1) = ")" /\ Depth(k, d) = 0 -> k + 1
    [] OTHER -> ArgEnd(k + 1, Depth(k, d))
Arg(k, e) == Node("tokens", [n \in 1..(e - k) |-> Leaf(Tok(k + n - 1))])
MacroArgs_LastOnly(t, k) ==
  LET e == ArgEnd(k, 0)
      more == Node(t.op, Append(t.kids, Arg(k, e))) IN
    IF Tok(k) = ")" THEN At(t, k + 1)
    ELSE CASE Tok(e) = ")" -> At(more, e + 1)
           [] Tok(e) = "," -> MacroArgs(t, e + 1)
           [] OTHER -> Failed
MacroArgs(t, k) ==
  LET e == ArgEnd(k, 0)
      more == Node(t.op, Append(t.kids, Arg(k, e))) IN
    IF Tok(k) = ")" THEN At(t, k + 1)
    ELSE CASE Tok(e) = ")" -> At(more, e + 1)
           [] Tok(e) = "," -> MacroArgs(more, e + 1)
           [] OTHER -> Failed

(* A `$' behind a callee is eaten whether arguments follow or not. *)
MacroRest(c) ==
  CASE Tok(c.at) # "$" -> c
    [] Tok(c.at + 1) = "(" -> MacroArgs(Node("$", <<Leaf(Value(c.tree))>>), c.at + 2)
    [] OTHER -> At(c.tree, c.at + 1)
CallRest(c) ==
  IF Tok(c.at) = "(" THEN Items(Node("call", <<c.tree>>), c.at + 1, "args") ELSE c
ParseCall(k) == CallRest(MacroRest(ParseResolution(k)))

MemberRest(l) ==
  IF Tok(l.at) \in Members THEN MemberRest(Join(l, ParseCall(l.at + 1))) ELSE l
ParseMember(k) == MemberRest(ParseCall(k))

IndexRest(l) ==
  IF Tok(l.at) # "[" THEN l
  ELSE IndexRest(Expect(Join(l, ParseExpr(l.at + 1)), "]"))
ParseIndex(k) == IndexRest(ParseMember(k))

AssignmentRest(l) ==
  IF Tok(l.at) = "=" THEN Join(l, ParseExpr(l.at + 1)) ELSE l
ParseAssignment(k) == AssignmentRest(ParseIndex(k))

ProductRest(l) ==
  IF Tok(l.at) \in Products
    THEN ProductRest(Join(l, ParseAssignment(l.at + 1))) ELSE l
ParseMult(k) == ProductRest(ParseAssignment(k))

SumRest_ToTheRight(l) ==
  IF Tok(l.at) \in Sums THEN Join(l, SumRest(ParseMult(l.at + 1))) ELSE l
SumRest(l) ==
  IF Tok(l.at) \in Sums THEN SumRest(Join(l, ParseMult(l.at + 1))) ELSE l
ParseAdditive(k) == SumRest(ParseMult(k))

(* && and || are looked for behind the right operand of a comparison. *)
LogicRest(l) ==
  IF Tok(l.at) \in Logic THEN LogicRest(Join(l, ParseCond(l.at + 1))) ELSE l
CondRest(l) ==
  IF Tok(l.at) \in Comparisons
    THEN CondRest(LogicRest(Join(l, ParseAdditive(l.at + 1)))) ELSE l
ParseCond(k) == CondRest(ParseAdditive(k))

ParseRet(k) ==
  IF Tok(k + 1) = ";" THEN At(Leaf("ret"), k + 1)
  ELSE LET e == ParseExpr(k + 1) IN At(Node("ret", <<e.tree>>), e.at)

(* Without a type, the `;' that ends the declaration is eaten with it. *)
ParseVarDecl(k) ==
  LET mut == Tok(k + 1) = "mut"
      id == IF mut THEN k + 2 ELSE k + 1
      typed == Tok(id + 1) = ":"
      ty == IF typed THEN ParseTypeSpec(id + 2) ELSE At(Absent, id + 1)
      Decl(v) == Node(IF mut THEN "let mut" ELSE "let", <<Leaf(Tok(id)), ty.tree, v>>)
      value == ParseExpr(ty.at + 1) IN
    CASE Tok(id) \in Names /\ Tok(ty.at) = ";" /\ mut ->
           At(Decl(Absent), IF typed THEN ty.at ELSE ty.at + 1)
      [] Tok(id) \in Names /\ Tok(ty.at) = "=" -> At(Decl(value.tree), value.at)
      [] OTHER -> Failed

ParseExpr(k) ==
  CASE Tok(k) = "let" -> ParseVarDecl(k)
    [] Tok(k) = "ret" -> ParseRet(k)
    [] OTHER -> ParseCond(k)

ParseStmt(k) == Expect(ParseExpr(k), ";")

-----------------------------------------------------------------------------
(***************************************************************************)
(* The language, as a writer uses it: how a tree is written down with the  *)
(* parentheses it needs.  The levels are those of the usual grammars; but  *)
(* a prefix operator, a cast, `::' and `=' take all that follows them.     *)
(***************************************************************************)
Greedy(t) ==
  \/ t.op \in Lets \cup {"ret", "=", "::", "cast"}
  \/ t.op \in UnaryOps /\ Len(t.kids) = 1

Level(t) ==
  CASE t.op \in Lets \cup {"ret"} -> 0
    [] t.op = "{}" \/ t.kids = <<>> -> 11
    [] Greedy(t) /\ t.op \notin {"=", "::"} -> 10
    [] t.op \in Logic -> 1
    [] t.op \in Comparisons -> 2
    [] t.op \in Sums -> 3
    [] t.op \in Products -> 4
    [] t.op = "=" -> 5
    [] t.op = "[" -> 6
    [] t.op \in Members -> 7
    [] t.op \in {"call", "$"} -> 8
    [] t.op = "::" -> 9
LeftMin(t) == IF t.op \in {"=", "call"} THEN Level(t) + 1 ELSE Level(t)
RightMin(t) == IF t.op \in Logic THEN 1 ELSE IF Greedy(t) \/ t.op = "[" THEN 0 ELSE Level(t) + 1

RECURSIVE OpenEnd(_), Written(_), WrittenType(_), Writable(_), Spelled(_)

(* More tokens behind the text of t would become a part of its last operand. *)
OpenEnd(t) ==
  \/ Greedy(t)
  \/ /\ t.op \in Logic \cup Comparisons \cup Sums \cup Products \cup Members
     /\ LET r == t.kids[2] IN
          \/ t.op \in Logic /\ Level(r) <= 2
          \/ Level(r) >= RightMin(t) /\ OpenEnd(r)

Paren(s) == <<"(">> \o s \o <<")">>
LeftOf(t, min) == IF Level(t) < min \/ OpenEnd(t) THEN Paren(Written(t)) ELSE Written(t)
RightOf(t, min) == IF Level(t) < min THEN Paren(Written(t)) ELSE Written(t)
Listed(ss) == FlattenSeq([n \in DOMAIN ss |-> IF n = 1 THEN ss[n] ELSE <<",">> \o ss[n]])

WrittenType(t) ==
  CASE t.kids = <<>> -> <<t.op>>
    [] t.op \in {"*", "&"} -> <<t.op>> \o FlattenSeq([n \in DOMAIN t.kids |-> WrittenType(t.kids[n])])
    [] t.op = "[]" -> <<"[">> \o WrittenType(t.kids[1]) \o <<"]">>
    [] t.op = "[;]" -> <<"[">> \o WrittenType(t.kids[1]) \o <<";", t.kids[2].op, "]">>
    [] t.op = "fn" ->
         <<"fn", "(">> \o Listed([n \in 1..(Len(t.kids) - 1) |-> WrittenType(t.kids[n])])
           \o <<")", "->">> \o WrittenType(Last(t.kids))

Written(t) ==
  CASE t.op \in Lets ->
         (IF t.op = "let" THEN <<"let">> ELSE <<"let", "mut">>) \o <<t.kids[1].op>>
           \o (IF t.kids[2] = Absent THEN <<>> ELSE <<":">> \o WrittenType(t.kids[2]))
           \o (IF t.kids[3] = Absent THEN <<>> ELSE <<"=">> \o Written(t.kids[3]))
    [] t.op = "{}" -> <<"{">> \o Listed([n \in DOMAIN t.kids |-> Written(t.kids[n])]) \o <<"}">>
    [] t.op = ".=" -> <<".", t.kids[1].op, "=">> \o Written(t.kids[2])
    [] t.op = "tokens" -> [n \in DOMAIN t.kids |-> t.kids[n].op]
    [] t.op = "cast" -> <<"(", ":">> \o WrittenType(t.kids[1]) \o <<")">> \o Written(t.kids[2])
    [] t.op = "call" ->
         LeftOf(t.kids[1], LeftMin(t))
           \o Paren(Listed([n \in 1..(Len(t.kids) - 1) |-> Written(t.kids[n + 1])]))
    [] t.op = "$" ->
         <<t.kids[1].op, "$">>
           \o Paren(Listed([n \in 1..(Len(t.kids) - 1) |-> Written(t.kids[n + 1])]))
    [] t.op = "[" -> LeftOf(t.kids[1], LeftMin(t)) \o <<"[">> \o Written(t.kids[2]) \o <<"]">>
    [] Len(t.kids) = 2 /\ t.op \notin {"{}", ".=", "tokens", "cast", "call", "$", "["} ->
         LeftOf(t.kids[1], LeftMin(t)) \o <<t.op>> \o RightOf(t.kids[2], RightMin(t))
    [] Len(t.kids) = 1 /\ t.op \in UnaryOps \cup {"ret"} -> <<t.op>> \o Written(t.kids[1])
    [] OTHER -> <<t.op>>

(* What has no text: && and || need a comparison, or another of them, in   *)
(* front; a declaration its value, or mut and a type.                      *)
Writable(t) ==
  /\ t.op \in Logic => Level(t.kids[1]) \in {1, 2} /\ ~OpenEnd(t.kids[1])
  /\ t.op \in Lets =>
       \/ t.kids[3] # Absent
       \/ t.op = "let mut" /\ t.kids[2] # Absent
  /\ \A n \in DOMAIN t.kids : Writable(t.kids[n])

-----------------------------------------------------------------------------
ParserInit ==
  /\ \/ \E ts \in Trees : \E t \in ts :
          Writable(t) /\ meant = t /\ source = Append(Written(t), ";")
     \/ meant = Unknown /\ source \in Sources
  /\ tree = Unparsed
  /\ index = 1

Parse ==
  /\ tree = Unparsed
  /\ LET r == ParseStmt(1) IN
       /\ tree' = IF r.at = 0 THEN Rejected ELSE r.tree
       /\ index' = r.at
  /\ UNCHANGED <<meant, source>>

-----------------------------------------------------------------------------
(***************************************************************************)
(* Every level binds as the language says: a tree written with the         *)
(* parentheses it needs, and no more, is parsed as that tree.  Operators   *)
(* of one level group to the left, an assignment to the right, an operand  *)
(* never takes part in two operations, and what takes all that follows     *)
(* stops at the bracket, `,' or `;' that closes it.                        *)
(***************************************************************************)
RoundTrip ==
  meant # Unknown /\ tree # Unparsed => tree = meant /\ index = Len(source) + 1

(* The tokens of a tree in the order of the text, brackets left out. *)
Meaningful == Names \cup Numbers \cup Comparisons \cup Logic \cup Sums \cup Products
  \cup Members \cup UnaryOps \cup {"=", "::", "let", "mut", "ret", "$", "fn", "break"}
InFront(t) == Len(t.kids) # 2 \/ t.kids[1] = Leaf("mut")
Spelled(t) ==
  LET ks == [n \in DOMAIN t.kids |-> Spelled(t.kids[n])]
      all == FlattenSeq(ks) IN
    CASE t.op \in Lets ->
           (IF t.op = "let" THEN <<"let">> ELSE <<"let", "mut">>) \o ks[1] \o ks[2]
             \o (IF t.kids[3] = Absent THEN <<>> ELSE <<"=">> \o ks[3])
      [] t.op = "fn" ->
           <<"fn">> \o FlattenSeq(Front(ks))
             \o (IF Last(t.kids) = Leaf("void") THEN <<>> ELSE <<"->">> \o Last(ks))
      [] t.op = ".=" -> <<".">> \o ks[1] \o <<"=">> \o ks[2]
      [] t.op = "$" -> ks[1] \o <<"$">> \o FlattenSeq(Tail(ks))
      [] t.op \in Meaningful \ (Lets \cup {"fn", "$"}) ->
           IF InFront(t) THEN <<t.op>> \o all ELSE ks[1] \o <<t.op>> \o ks[2]
      [] OTHER -> all

(***************************************************************************)
(* Whatever statement is accepted, no token is dropped, doubled or moved   *)
(* across another: the tree holds the tokens of the text in their order.   *)
(* The exceptions are a `$' without arguments, and a macro whose callee is *)
(* more than a name: of `(a.b)$()' only `a' is kept.                       *)
(***************************************************************************)
NamedMacros ==
  \A k \in DOMAIN source :
    source[k] = "$" => k > 1 /\ source[k - 1] \in Names /\ Tok(k + 1) = "("
KeepsOrder ==
  tree \notin {Unparsed, Rejected} /\ NamedMacros =>
    Spelled(tree) = SelectSeq(SubSeq(source, 1, index - 1), LAMBDA t : t \in Meaningful)
=============================================================================

---------------------------- MODULE FunctionBody ----------------------------
(***************************************************************************)
(* The recursive-descent parser of function bodies (src/src/parse/         *)
(* parser.rs): parse_func, parse_closure, parse_if_stmt, parse_for_stmt    *)
(* and parse_ret_expr, which builds the AST the code generator walks and   *)
(* sets the `returns' flag of a Block through the raw pointer              *)
(* current_block.                                                          *)
(*                                                                         *)
(* The AST of one function is the sequence ast of its items in source      *)
(* order.  An item with op "fn", "closure", "if", "else" or "for" opens a  *)
(* Block that the matching "end" (or "else") closes; every other item is a *)
(* statement.  The expressions inside a statement are abstracted to one    *)
(* item "stmt": they emit ordinary instructions into the current basic     *)
(* block and never a branch.                                               *)
(***************************************************************************)
EXTENDS Naturals, Sequences

CONSTANTS
  MaxItems,     \* bound on the length of a function's AST
  MaxDepth,     \* bound on the nesting of blocks
  Simples,      \* the statements without a block that sources use
  Openers,      \* the statements with a block that sources use
  VoidFns       \* whether functions are void (TRUE), return a value, or both

AllSimples == {"stmt", "break", "return", "returnv"}
AllOpeners == {"if", "for", "closure"}

ASSUME BodyAssumption ==
  /\ MaxItems \in Nat \ {0, 1}
  /\ MaxDepth \in Nat \ {0}
  /\ Simples \subseteq AllSimples
  /\ Openers \subseteq AllOpeners
  /\ VoidFns \subseteq BOOLEAN

VARIABLES
  phase,        \* "parse", then "gen", then "done" or "error"
  ast,          \* the items parsed so far
  opened,       \* the parser's recursion: indexes of the open blocks' items
  currentBlock  \* Parser.current_block, as the item that opened the block

bodyVars == <<phase, ast, opened, currentBlock>>

Returns == {"return", "returnv"}
Blocks == {"fn", "closure", "if", "else", "for"}
Ops == Blocks \cup Returns \cup {"stmt", "break", "end"}

(***************************************************************************)
(* op: the node's kind, "returnv" being a return with a value; returns:    *)
(* Block.returns of the block the item opens; els: on an "if", the index   *)
(* of its "else" or 0; opener: on an "else" or "end", the item that opened *)
(* the block it closes; void: on a function, that its type is void.        *)
(***************************************************************************)
Item == [op : Ops, returns : BOOLEAN, els : Nat, opener : Nat, void : BOOLEAN]
NewItem(op, opener, void) ==
  [op |-> op, returns |-> FALSE, els |-> 0, opener |-> opener, void |-> void]

Innermost == opened[Len(opened)]
CloseInnermost == SubSeq(opened, 1, Len(opened) - 1)

(* Every item leaves room for the `end' of each block still open. *)
Room(n) == Len(ast) + n + Len(opened) <= MaxItems

BodyTypeOK ==
  /\ phase \in {"parse", "gen", "done", "error"}
  /\ ast \in Seq(Item)
  /\ Len(ast) \in 1..MaxItems
  /\ opened \in Seq(1..MaxItems)
  /\ currentBlock \in 1..MaxItems

BodyInit ==
  /\ phase = "parse"
  /\ \E void \in VoidFns : ast = <<NewItem("fn", 0, void)>>
  /\ opened = <<1>>
  /\ currentBlock = 1

-----------------------------------------------------------------------------
(* The loop of every block sets current_block before each parse_stmt. *)
EnterStatement_AtBrace ==
  /\ phase = "parse"
  /\ currentBlock' = CHOOSE i \in DOMAIN ast :
        /\ ast[i].op \in Blocks
        /\ \A j \in DOMAIN ast : ast[j].op \in Blocks => j <= i
EnterStatement ==
  /\ phase = "parse"
  /\ currentBlock' = Innermost

ParseSimple(op) ==
  /\ EnterStatement
  /\ Room(1)
  /\ ast' = Append(ast, NewItem(op, 0, FALSE))
  /\ UNCHANGED <<phase, opened>>

ParseReturn(op) ==
  /\ EnterStatement
  /\ Room(1)
  /\ ast' = Append([ast EXCEPT ![currentBlock'].returns = TRUE],
                   NewItem(op, 0, FALSE))
  /\ UNCHANGED <<phase, opened>>

(* The `{' of an if, a for or a closure's body. *)
ParseOpen(op, void) ==
  /\ EnterStatement
  /\ Room(2)
  /\ Len(opened) < MaxDepth
  /\ ast' = Append(ast, NewItem(op, 0, op = "closure" /\ void))
  /\ opened' = Append(opened, Len(ast) + 1)
  /\ UNCHANGED phase

(* `} else {' after the then-branch of an if. *)
ParseElse ==
  /\ phase = "parse"
  /\ Room(1)
  /\ ast[Innermost].op = "if"
  /\ ast' = Append([ast EXCEPT ![Innermost].els = Len(ast) + 1],
                   NewItem("else", Innermost, FALSE))
  /\ opened' = Append(CloseInnermost, Len(ast) + 1)
  /\ UNCHANGED <<phase, currentBlock>>

(* The `}' of a block; the function's own ends the parse. *)
ParseClose ==
  /\ phase = "parse"
  /\ ast' = Append(ast, NewItem("end", Innermost, FALSE))
  /\ opened' = CloseInnermost
  /\ phase' = IF Len(opened) = 1 THEN "gen" ELSE phase
  /\ UNCHANGED currentBlock

BodyNext ==
  \/ \E op \in Simples \ Returns : ParseSimple(op)
  \/ \E op \in Simples \cap Returns : ParseReturn(op)
  \/ \E op \in Openers, void \in VoidFns : ParseOpen(op, void)
  \/ ParseElse
  \/ ParseClose

-----------------------------------------------------------------------------
(* The position that closes the block item j opened, or one past the AST. *)
Closer(j) ==
  IF \E i \in DOMAIN ast : ast[i].opener = j
    THEN CHOOSE i \in DOMAIN ast : ast[i].opener = j
    ELSE Len(ast) + 1

(* The block whose statement item i is. *)
Encloses(j, i) == ast[j].op \in Blocks /\ j < i /\ i < Closer(j)
BlockOf(i) ==
  CHOOSE j \in DOMAIN ast :
    Encloses(j, i) /\ \A k \in DOMAIN ast : Encloses(k, i) => k <= j

(***************************************************************************)
(* A Block is flagged as returning exactly when a return is one of its own *)
(* statements, whatever blocks were parsed between the brace that opened   *)
(* it and that return: current_block, which parse_ret_expr writes through, *)
(* is then never the pointer a nested block left behind.                   *)
(***************************************************************************)
ReturnsFlagExact ==
  \A j \in DOMAIN ast :
    ast[j].op \in Blocks =>
      (ast[j].returns <=>
        \E i \in DOMAIN ast : ast[i].op \in Returns /\ BlockOf(i) = j)
=============================================================================

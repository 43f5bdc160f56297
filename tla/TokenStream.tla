----------------------------- MODULE TokenStream -----------------------------
(***************************************************************************)
(* The parser's token stream, which #include and macro calls rewrite while *)
(* it is being parsed: Parser::build_ast, parse_globals, parse_pound and   *)
(* the macro part of parse_call_expr (src/src/parse/parser.rs), over       *)
(* Preprocessor::expand_include, expand_macro and add_macro                *)
(* (src/src/ast/preprocessor.rs).                                          *)
(*                                                                         *)
(* A token stands for a phrase the splicing does not look into: "item" is  *)
(* a whole declaration, "expr" an operand, "+" an operator, "call" a macro *)
(* call `m$(...)', "macro" a macro definition and "include" a directive.   *)
(* A macro has one arm without parameters; what arguments do to its tokens *)
(* is the subject of module MacroArms.                                     *)
(***************************************************************************)
EXTENDS Naturals, Sequences, SequencesExt

CONSTANTS
  Files,        \* the source files
  Root,         \* the file given on the command line
  Macros,       \* the names of macros
  Texts,        \* the choices of a text for every file that can be read
  MaxDepth      \* bound on the parser's recursion through macro calls

(* at is the token's location, body the tokens of a macro definition. *)
Token(op, name, at, body) == [op |-> op, name |-> name, at |-> at, body |-> body]
Semi == Token(";", "", <<"inte", 0>>, <<>>)
Eof == Token("eof", "", <<"", 0>>, <<>>)

ASSUME StreamAssumption ==
  /\ Root \in Files
  /\ MaxDepth \in Nat
  /\ \A text \in Texts : Root \in DOMAIN text /\ DOMAIN text \subseteq Files

VARIABLES
  text,         \* what read_file returns; outside its domain, an error
  tokens,       \* Parser.tokens
  index,        \* Parser.index, from 1
  macros,       \* Preprocessor.macros: the tokens of the macros defined
  included,     \* DependencyGraph.included_files
  at,           \* what the parser is about to parse: "globals" or an "operand",
                \* or what it has just parsed: "operands" of a statement
  operands,     \* the locations of the operands of the statement under way
  pending,      \* the operands of the statements whose macro call is parsed
  module,       \* the locations of what build_ast has pushed on the module
  status        \* "parse", "done", "error" (an error message ends the
                \* process), "panic" or "overflow" (of MaxDepth)

vars == <<text, tokens, index, macros, included, at, operands, pending, module, status>>

Cur == tokens[index]

-----------------------------------------------------------------------------
(* tokens[index..index+len-1] gives way to the tokens of s. *)
Splice(from, len, s) ==
  SubSeq(tokens, 1, from - 1) \o s \o SubSeq(tokens, from + len, Len(tokens))

Fail(why) ==
  /\ status' = why
  /\ UNCHANGED <<text, tokens, index, macros, included, at, operands, pending, module>>

(***************************************************************************)
(* parse_globals returns the node v.  To build_ast, which pushes it and    *)
(* stops at the end of file; or to the call whose expansion it is the      *)
(* start of, which puts back a `;' and goes on with the statement.         *)
(***************************************************************************)
Return(v, next) ==
  IF pending = <<>>
    THEN /\ module' = Append(module, v)
         /\ status' = IF next > Len(tokens) THEN "panic"
                      ELSE IF tokens[next].op = "eof" THEN "done" ELSE status
         /\ at' = "globals"
         /\ index' = next
         /\ UNCHANGED <<tokens, operands, pending>>
    ELSE /\ tokens' = Splice(next, 0, <<Semi>>)
         /\ operands' = Last(pending) \o v
         /\ pending' = Front(pending)
         /\ at' = "operands"
         /\ index' = next
         /\ UNCHANGED <<module, status>>

Parsing(what) ==
  /\ status = "parse"
  /\ at = what
  /\ index <= Len(tokens)

(* A declaration. *)
ParseItem ==
  /\ Parsing("globals")
  /\ Cur.op = "item"
  /\ Return(<<Cur.at>>, index + 1)
  /\ UNCHANGED <<text, macros, included>>

(* parse_macro: a later definition of the same name replaces the earlier. *)
ParseMacro ==
  /\ Parsing("globals")
  /\ Cur.op = "macro"
  /\ macros' = [macros EXCEPT ![Cur.name] = [defined |-> TRUE, tokens |-> Cur.body]]
  /\ Return(<<Cur.at>>, index + 1)
  /\ UNCHANGED <<text, included>>

(***************************************************************************)
(* parse_pound: the directive gives way to the file's tokens, or to none   *)
(* if the file was included already, and parse_globals starts again.  A    *)
(* file that cannot be read is an error.  The root file is read by main    *)
(* and never entered as included.                                          *)
(***************************************************************************)
(* get_tokens keeps the first token, and so the end of a file without any. *)
Lexed(f) == IF text[f] = <<>> THEN <<Eof>> ELSE text[f]
ExpandInclude_Forgotten(f) == included' = included
ExpandInclude(f) == included' = included \cup {f}
ParseInclude ==
  /\ Parsing("globals")
  /\ Cur.op = "include"
  /\ IF Cur.name \notin included \cup DOMAIN text THEN Fail("error")
     ELSE /\ tokens' = Splice(index, 1, IF Cur.name \in included THEN <<>> ELSE Lexed(Cur.name))
          /\ ExpandInclude(Cur.name)
          /\ UNCHANGED <<text, index, macros, at, operands, pending, module, status>>

(* Any other token begins a statement. *)
ParseStmt ==
  /\ Parsing("globals")
  /\ Cur.op \notin {"item", "macro", "include"}
  /\ at' = "operand"
  /\ operands' = <<>>
  /\ UNCHANGED <<text, tokens, index, macros, included, pending, module, status>>

ParseOperand ==
  /\ Parsing("operand")
  /\ Cur.op = "expr"
  /\ index' = index + 1
  /\ operands' = Append(operands, Cur.at)
  /\ at' = "operands"
  /\ UNCHANGED <<text, tokens, macros, included, pending, module, status>>

(***************************************************************************)
(* A macro call: its tokens and the one after them, whatever it is, give   *)
(* way to the macro's tokens, and parse_globals parses the first of them.  *)
(* With no token after the call, the last of the removals panics.          *)
(***************************************************************************)
Removed_CallOnly == 1
Removed == 2
ParseCall ==
  /\ Parsing("operand")
  /\ Cur.op = "call"
  /\ IF ~macros[Cur.name].defined THEN Fail("error")
     ELSE IF index + Removed - 1 > Len(tokens) THEN Fail("panic")
     ELSE IF Len(pending) = MaxDepth THEN Fail("overflow")
     ELSE /\ tokens' = Splice(index, Removed, macros[Cur.name].tokens)
          /\ pending' = Append(pending, operands)
          /\ at' = "globals"
          /\ UNCHANGED <<text, index, macros, included, operands, module, status>>

(* An operator asks for another operand, a `;' ends the statement. *)
ParseOperator ==
  /\ Parsing("operands")
  /\ Cur.op = "+"
  /\ index' = index + 1
  /\ at' = "operand"
  /\ UNCHANGED <<text, tokens, macros, included, operands, pending, module, status>>

ParseSemi ==
  /\ Parsing("operands")
  /\ Cur.op = ";"
  /\ Return(operands, index + 1)
  /\ UNCHANGED <<text, macros, included>>

UnexpectedToken ==
  /\ \/ Parsing("operand") /\ Cur.op \notin {"expr", "call"}
     \/ Parsing("operands") /\ Cur.op \notin {"+", ";"}
  /\ Fail("error")

(* A call that only the end of file followed has removed it. *)
PastTheEnd == status = "parse" /\ index > Len(tokens) /\ Fail("panic")

-----------------------------------------------------------------------------
Init ==
  /\ text \in Texts
  /\ tokens = Append(Lexed(Root), Eof)
  /\ index = 1
  /\ macros = [m \in Macros |-> [defined |-> FALSE, tokens |-> <<>>]]
  /\ included = {}
  /\ at = "globals"
  /\ operands = <<>>
  /\ pending = <<>>
  /\ module = <<>>
  /\ status = "parse"

Next ==
  \/ ParseItem \/ ParseMacro \/ ParseInclude \/ ParseStmt
  \/ ParseOperand \/ ParseCall \/ ParseOperator \/ ParseSemi
  \/ UnexpectedToken \/ PastTheEnd

Spec == Init /\ [][Next]_vars /\ WF_vars(Next)
=============================================================================

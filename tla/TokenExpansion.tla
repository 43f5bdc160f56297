---------------------------- MODULE TokenExpansion ----------------------------
(***************************************************************************)
(* What the rewriting of TokenStream amounts to: the module the parser     *)
(* builds is the expansion of the sources, defined here by recursion over  *)
(* their texts and not over the parser's vector and index.                 *)
(***************************************************************************)
EXTENDS TokenStream, Functions, Relation

(***************************************************************************)
(* An expansion under way: the locations of the nodes so far, the files    *)
(* included, the macros defined, whether a node must still follow, and     *)
(* whether the parser has stopped: at a macro called before its            *)
(* definition, or at an included file that cannot be read or holds no      *)
(* token.                                                                  *)
(***************************************************************************)
Start == [out |-> <<>>, included |-> {}, hungry |-> TRUE, stopped |-> FALSE,
          macros |-> [m \in Macros |-> [defined |-> FALSE, tokens |-> <<>>]]]

Node(x, v) == [x EXCEPT !.out = Append(x.out, v), !.hungry = FALSE]

(* The expansion of the tokens s after x, an include's file in its place   *)
(* the first time, a call's macro in the place of `call ;'.                *)
RECURSIVE Expand(_, _)
Expand(s, x) ==
  IF s = <<>> \/ x.stopped THEN x
  ELSE LET t == Head(s) IN
    CASE t.op = "item" -> Expand(Tail(s), Node(x, <<t.at>>))
      [] t.op = "macro" ->
           Expand(Tail(s), [Node(x, <<t.at>>) EXCEPT
             !.macros[t.name] = [defined |-> TRUE, tokens |-> t.body]])
      [] t.op = "include" ->
           LET y == [x EXCEPT !.included = @ \cup {t.name}, !.hungry = TRUE]
           IN CASE t.name \in x.included -> Expand(Tail(s), y)
                [] t.name \notin DOMAIN text -> [x EXCEPT !.stopped = TRUE]
                [] text[t.name] = <<>> -> [y EXCEPT !.stopped = TRUE]
                [] OTHER -> Expand(Tail(s), Expand(text[t.name], y))
      [] t.op = "expr" -> Expand(Tail(Tail(s)), Node(x, <<t.at>>))
      [] t.op = "call" ->
           IF x.macros[t.name].defined
             THEN Expand(Tail(Tail(s)), Expand(x.macros[t.name].tokens, x))
             ELSE [x EXCEPT !.stopped = TRUE]

(* The texts the program's sources hold, and the macros' with them. *)
Sources ==
  LET files == {text[f] : f \in DOMAIN text}
  IN files \cup {t.body : t \in {u \in UNION {Range(s) : s \in files} : u.op = "macro"}}

(* Every operand is a statement of its own. *)
Delimited ==
  \A s \in Sources : \A i \in DOMAIN s :
    /\ s[i].op # "+"
    /\ s[i].op \in {"expr", "call"} => i < Len(s) /\ s[i + 1].op = ";"

(* Macro m may be defined with a text that calls macro n. *)
Calls(m, n) ==
  \E f \in DOMAIN text : \E i \in DOMAIN text[f] :
    /\ text[f][i].op = "macro" /\ text[f][i].name = m
    /\ \E k \in DOMAIN text[f][i].body :
         text[f][i].body[k].op = "call" /\ text[f][i].body[k].name = n
Recursive ==
  LET reaches == TransitiveClosure([p \in Macros \X Macros |-> Calls(p[1], p[2])], Macros)
  IN \E m \in Macros : reaches[m, m]

-----------------------------------------------------------------------------
(***************************************************************************)
(* The parser builds exactly the expansion of delimited sources: every     *)
(* file once and in the place of its first include (the root once more if  *)
(* it is included), every macro call its latest definition, in order, with *)
(* no token lost or invented by the splices of nested includes and calls.  *)
(* It fails only for a macro called before its definition, a file that     *)
(* cannot be read, and, although such sources mean something, when no node *)
(* follows the last include, or a file that is included has no token.      *)
(***************************************************************************)
BuildsExpansion ==
  Delimited /\ ~Recursive /\ status # "parse" =>
    LET x == Expand(text[Root], Start)
    IN IF x.stopped \/ x.hungry
         THEN status = "error" ELSE status = "done" /\ module = x.out

(***************************************************************************)
(* Parsing ends, however files include one another or themselves.          *)
(***************************************************************************)
Ends == <>(status # "parse")

(***************************************************************************)
(* A location enters the module at most once per occurrence the sources    *)
(* give it: twice for the root's declarations, once for every other file's.*)
(***************************************************************************)
Occurrences(l) == {i \in DOMAIN module : l \in Range(module[i])}
IncludedOnce ==
  \A f \in DOMAIN text : \A i \in DOMAIN text[f] :
    Cardinality(Occurrences(text[f][i].at)) <= IF f = Root THEN 2 ELSE 1
=============================================================================

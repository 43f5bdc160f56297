---------------------------- MODULE MCTokenStream ----------------------------
(* Instance of TokenStream for TLC: every choice of texts of a few         *)
(* phrases, of three files that include one another, one of which may be   *)
(* missing, and of one file with macros.                                   *)
EXTENDS TokenExpansion

CONSTANTS MaxIncludes, MaxPhrases

Plain(op, name) == Token(op, name, <<name, 0>>, <<>>)
Def(m, s) ==
  Token("macro", m, <<m, 0>>, [i \in DOMAIN s |-> [s[i] EXCEPT !.at = <<m, i>>]])
Item == Plain("item", "")
Expr == Plain("expr", "")
Plus == Plain("+", "")
Call(m) == Plain("call", m)

FilePhrases == {<<Item>>} \cup {<<Plain("include", f)>> : f \in Files}
MacroPhrases ==
  {<<Item>>, <<Expr, Semi>>}
    \cup {<<Call(m), Semi>> : m \in Macros}
    \cup {<<Call("m"), Plus, Expr, Semi>>, <<Expr, Plus, Call("n"), Semi>>, <<Call("m")>>}
    \cup {<<Def("m", s)>> : s \in {<<Item, Item>>, <<Expr, Semi>>, <<Expr>>,
                                   <<Call("n"), Semi>>, <<Call("n")>>}}
    \cup {<<Def("n", s)>> : s \in {<<Expr, Semi, Item>>, <<Call("m"), Semi>>}}

(* Every token is located in the file that holds it. *)
Located(f, phrases) ==
  LET s == FlattenSeq(phrases) IN [i \in DOMAIN s |-> [s[i] EXCEPT !.at = <<f, i>>]]
Missing == "b"
MCTexts ==
  {[f \in DOMAIN p |-> Located(f, p[f])] :
     p \in [Files -> BoundedSeq(FilePhrases, MaxIncludes)]
             \cup [Files \ {Missing} -> BoundedSeq(FilePhrases, MaxIncludes)]
             \cup {[f \in Files |-> IF f = Root THEN s ELSE <<>>] :
                     s \in BoundedSeq(MacroPhrases, MaxPhrases)}}
=============================================================================

------------------------------ MODULE MCSymbols ------------------------------
(* Instance of Symbols for TLC: sources whose items define types and impls *)
(* of them, or functions and methods that call one another.                *)
EXTENDS Symbols

A == <<"A">>
B == <<"B">>
f == <<"f">>
g == <<"g">>
MCNames == {Str, A, B, f, g, A \o f}

None == Mention("none", NoName, NoName)
Plain(n) == Fn(n, TRUE, NoName, None)
TypeItems ==
  {Item("struct", A, NoName, <<>>), Item("struct", A, A, <<>>), Item("struct", B, A, <<>>),
   Item("struct", Str, NoName, <<>>),
   Item("enum", B, NoName, <<>>), Item("trait", g, NoName, <<>>),
   Item("alias", B, A, <<>>), Item("alias", A, B, <<>>), Item("static", B, <<"ext">>, <<>>)}
    \cup {Item("fn", n, NoName, <<Plain(n)>>) : n \in {B, f}}
    \cup {Item("impl", n, t, fns) : n \in {A, B}, t \in {NoName, g},
                                    fns \in {<<>>, <<Plain(f)>>}}
    \cup {Item("impl", A, NoName, <<Plain(g), Plain(f)>>), Item("impl", Str, g, <<Plain(f)>>)}

Uses ==
  {None, Mention("call", NoName, f), Mention("method", A, f), Mention("var", NoName, g)}
CallItems ==
  {Item("struct", A, NoName, <<>>), Item("alias", B, A, <<>>), Item("alias", B, B, <<>>),
   Item("static", g, NoName, <<>>), Item("static", f, NoName, <<>>)}
    \cup {Item("fn", f, NoName, <<Fn(f, FALSE, NoName, None)>>), Item("fn", f, NoName, <<Plain(f)>>),
          Item("fn", A \o f, NoName, <<Plain(A \o f)>>)}
    \cup {Item("fn", g, NoName, <<Fn(g, TRUE, NoName, u)>>) :
            u \in Uses \cup {Mention("method", B, f), Mention("call", NoName, A \o f)}}
    \cup {Item("fn", g, NoName, <<Fn(g, TRUE, p, None)>>) : p \in {f, A}}
    \cup {Item("fn", g, NoName, <<Fn(g, TRUE, p, Mention("method", B, f))>>) : p \in {A, B}}
    \cup {Item("fn", g, NoName, <<Fn(g, TRUE, f, Mention(op, NoName, f))>>) : op \in {"call", "var"}}
    \cup {Item("impl", A, NoName, <<Fn(f, TRUE, NoName, u)>>) : u \in Uses}
    \cup {Item("impl", A, NoName, <<Fn(g, TRUE, NoName, Mention("method", A, f)), Plain(f)>>),
          Item("impl", A, NoName, <<Fn(f, FALSE, NoName, None)>>)}
MCItems == TypeItems \cup CallItems
=============================================================================

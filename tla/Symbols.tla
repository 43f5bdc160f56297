------------------------------- MODULE Symbols -------------------------------
(***************************************************************************)
(* The global symbols of a program: Mod::collect_symbols enters them in    *)
(* one table in source order, whatever refers to them (src/src/ast/        *)
(* module.rs, scope.rs, symbol.rs, struct.rs, impl.rs, trait.rs), then     *)
(* gen_code creates LLVM functions under mangled names, from definitions   *)
(* and from calls, whichever comes first (function.rs, call.rs).           *)
(*                                                                         *)
(* A name is the sequence of its parts between underscores, so mangling is *)
(* concatenation and `A_b' and method b of A collide as in the code.       *)
(***************************************************************************)
EXTENDS Naturals, Sequences, FiniteSets

CONSTANTS
  Names,      \* the identifiers of types, functions, methods and statics
  Items,      \* the global items sources are made of
  MaxItems    \* bound on the number of items of a source

NoName == <<>>
Str == <<"str">>

(* A function's one mention of another symbol: a call, a call of method    *)
(* name of type on, a variable, or "none".  No variable holds a function.   *)
Mention(op, on, name) == [op |-> op, on |-> on, name |-> name]
Fn(name, def, param, use) == [name |-> name, def |-> def, param |-> param, use |-> use]

(* of: an alias's type, the type of a struct's field, the trait of an      *)
(* impl; fns: the functions of an impl, or the one of op "fn".             *)
Item(op, name, of, fns) == [op |-> op, name |-> name, of |-> of, fns |-> fns]

Ext == <<"ext">>   \* a type no item defines
Mentions == [op : {"none", "call", "method", "var"}, on : Names \cup {NoName}, name : Names \cup {NoName}]
FnDefs == [name : Names, def : BOOLEAN, param : Names \cup {NoName}, use : Mentions]
GlobalItems ==
  [op : {"struct", "enum", "alias", "trait", "static", "fn", "impl"}, name : Names,
   of : Names \cup {NoName, Ext}, fns : Seq(FnDefs)]

(* What the parser builds: a name has parts; a function is an item of its  *)
(* own name or stands in an impl, and no other item has functions; the     *)
(* trait of an impl is a name or none; a mention says what it mentions.    *)
ASSUME SymbolAssumption ==
  /\ Str \in Names
  /\ \A n \in Names : n \in Seq(STRING) /\ n # NoName
  /\ IsFiniteSet(Names)
  /\ MaxItems \in Nat
  /\ Items \subseteq GlobalItems
  /\ \A i \in Items :
       /\ i.op = "fn" => Len(i.fns) = 1 /\ i.fns[1].name = i.name
       /\ i.op \notin {"fn", "impl"} => i.fns = <<>>
       /\ i.op = "impl" => i.of \in Names \cup {NoName}
       /\ \A k \in DOMAIN i.fns : i.fns[k].use.op # "none" => i.fns[k].use.name \in Names

VARIABLES
  phase,    \* "parse", "collect", "gen", "done", or how the compiler stopped:
            \* "refused" in collect, "error" in gen, "overflow" of the stack
  module,   \* the items of Mod.body
  pos,      \* the item collected or generated next
  sub,      \* the function of that item generated next
  table,    \* Scope.symbol_table of the module
  llvm,     \* the LLVM module's functions: whether made, the bodies appended
  calls     \* history: the function a generated call meant, the LLVM name called

vars == <<phase, module, pos, sub, table, llvm, calls>>

NoFn == <<0, 0>>
NoMethods == [m \in Names |-> [fn |-> NoFn, llvm |-> NoName]]

(* item: the item that defined it (0: the compiler or, for a struct with   *)
(* resolved fields missing, nobody yet); dest: an alias's type.            *)
Symbol(kind, item, dest, fielded) ==
  [kind |-> kind, item |-> item, dest |-> dest, fielded |-> fielded,
   methods |-> NoMethods, traits |-> {}]
NoSymbol == Symbol("none", 0, NoName, FALSE)
Dummy == Symbol("struct", 0, NoName, FALSE)

LlvmNames == Names \cup {a \o b : a \in Names, b \in Names}

Cur == module[pos]
FnAt(p) == module[p[1]].fns[p[2]]

-----------------------------------------------------------------------------
(* Scope. *)

(* add_symbol refuses a name only a function's definition has. *)
Defined_Any(t, n) == t[n].kind # "none"
Defined(t, n) == t[n].kind = "function" /\ FnAt(<<t[n].item, 1>>).def

(* The symbol get_struct arrives at from n; an alias on a cycle of aliases. *)
Target(t, n) ==
  LET hop[k \in 0..Cardinality(Names)] ==
        IF k = 0 THEN n
        ELSE LET m == hop[k - 1] IN
             IF m \in Names /\ t[m].kind = "alias" THEN t[m].dest ELSE m
  IN hop[Cardinality(Names)]
KindOf(t, n) == IF n \in Names THEN t[n].kind ELSE "none"
StructOf(t, n) == KindOf(t, Target(t, n)) = "struct"
Endless(t, n) == KindOf(t, Target(t, n)) = "alias"

-----------------------------------------------------------------------------
Init ==
  /\ phase = "parse"
  /\ module = <<>>
  /\ pos = 1
  /\ sub = 1
  /\ table = [n \in Names |-> NoSymbol]
  /\ llvm = [n \in LlvmNames |-> [made |-> FALSE, bodies |-> <<>>]]
  /\ calls = {}

ParseItem(i) ==
  /\ phase = "parse"
  /\ Len(module) < MaxItems
  /\ module' = Append(module, i)
  /\ UNCHANGED <<phase, pos, sub, table, llvm, calls>>

(* Mod::collect_symbols enters the struct `str' before any item. *)
BeginCollect ==
  /\ phase = "parse"
  /\ module # <<>>
  /\ phase' = "collect"
  /\ table' = [table EXCEPT ![Str] = Symbol("struct", 0, NoName, TRUE)]
  /\ UNCHANGED <<module, pos, sub, llvm, calls>>

Collecting(ops) == phase = "collect" /\ pos <= Len(module) /\ Cur.op \in ops

Collected(t) ==
  /\ table' = t
  /\ pos' = pos + 1
  /\ UNCHANGED <<phase, module, sub, llvm, calls>>

Stop(why) ==
  /\ phase' = why
  /\ UNCHANGED <<module, pos, sub, table, llvm, calls>>

(* A struct whose name an impl has used keeps that symbol's functions; a   *)
(* definition whose name another kind of symbol has is dropped.            *)
Resolve_Anew(s) == Symbol("struct", pos, NoName, TRUE)
Resolve(s) == [s EXCEPT !.item = pos, !.fielded = TRUE]
CollectStruct ==
  /\ Collecting({"struct"})
  /\ IF Cur.of = Cur.name THEN Stop("refused")
     ELSE Collected(
            CASE table[Cur.name].kind = "struct" -> [table EXCEPT ![Cur.name] = Resolve(@)]
              [] table[Cur.name].kind = "none" ->
                   [table EXCEPT ![Cur.name] = Symbol("struct", pos, NoName, TRUE)]
              [] OTHER -> table)

CollectNamed ==
  /\ Collecting({"enum", "alias", "trait", "fn"})
  /\ IF Defined(table, Cur.name) THEN Stop("refused")
     ELSE Collected([table EXCEPT ![Cur.name] =
            Symbol(IF Cur.op = "fn" THEN "function" ELSE Cur.op, pos,
                   IF Cur.op = "alias" THEN Cur.of ELSE NoName, FALSE)])

(* Statics and macros enter nothing. *)
CollectNothing == Collecting({"static"}) /\ Collected(table)

(***************************************************************************)
(* Impl::collect_symbols: the functions, under a symbol that is made for   *)
(* them unless the name has a struct's, then the trait.                    *)
(***************************************************************************)
Mangled(s, f) == s \o f
Impled ==
  LET s == IF table[Cur.name].kind = "struct" THEN table[Cur.name] ELSE Dummy
      last(m) == {k \in DOMAIN Cur.fns : Cur.fns[k].name = m
                    /\ \A l \in DOMAIN Cur.fns : Cur.fns[l].name = m => l <= k}
  IN IF Cur.fns = <<>> THEN table
     ELSE [table EXCEPT ![Cur.name] = [s EXCEPT !.methods =
             [m \in Names |->
                IF last(m) = {} THEN s.methods[m]
                ELSE [fn |-> <<pos, CHOOSE k \in last(m) : TRUE>>,
                      llvm |-> Mangled(Cur.name, m)]]]]

CollectImpl ==
  /\ Collecting({"impl"})
  /\ LET n == Target(Impled, Cur.name) IN
     IF Cur.fns # <<>> /\ Defined(table, Cur.name) THEN Stop("refused")
     ELSE IF Cur.of = NoName THEN Collected(Impled)
     ELSE IF Endless(Impled, Cur.name) THEN Stop("overflow")
     ELSE IF ~StructOf(Impled, Cur.name) \/ Cur.of \in Impled[n].traits
            THEN Stop("refused")
     ELSE Collected([Impled EXCEPT ![n].traits = @ \cup {Cur.of}])

(* check_structs finds every struct resolved: new_dummy says so too. *)
EndCollect ==
  /\ phase = "collect"
  /\ pos > Len(module)
  /\ phase' = "gen"
  /\ pos' = 1
  /\ UNCHANGED <<module, sub, table, llvm, calls>>

-----------------------------------------------------------------------------
Generating(ops) == phase = "gen" /\ pos <= Len(module) /\ Cur.op \in ops

NextFn ==
  IF sub < Len(Cur.fns) THEN sub' = sub + 1 /\ pos' = pos ELSE sub' = 1 /\ pos' = pos + 1

GenNothing ==
  /\ Generating({"struct", "enum", "alias", "trait", "impl"})
  /\ Cur.fns = <<>>
  /\ pos' = pos + 1
  /\ UNCHANGED <<phase, module, sub, table, llvm, calls>>

GenStatic ==
  /\ Generating({"static"})
  /\ IF Defined(table, Cur.name) THEN Stop("error")
     ELSE /\ table' = [table EXCEPT ![Cur.name] = Symbol("variable", pos, NoName, FALSE)]
          /\ pos' = pos + 1
          /\ UNCHANGED <<phase, module, sub, llvm, calls>>

(* The LLVM name of function k of item i, as Function::gen_code makes it. *)
GenName_Plain(i, k) == module[i].fns[k].name
GenName(i, k) ==
  IF module[i].op = "impl" THEN module[i].name \o module[i].fns[k].name
  ELSE module[i].fns[k].name

Make(l, n) == [l EXCEPT ![n].made = TRUE]
Begun == LET n == GenName(pos, sub)
         IN [Make(llvm, n) EXCEPT ![n].bodies = Append(@, <<pos, sub>>)]

(* `fn f();' *)
Declare ==
  /\ Generating({"fn", "impl"})
  /\ Cur.fns # <<>>
  /\ ~Cur.fns[sub].def
  /\ llvm' = Make(llvm, GenName(pos, sub))
  /\ NextFn
  /\ UNCHANGED <<phase, module, table, calls>>

(* The symbols a function's body sees: its parameter hides the module's. *)
InBody(f) ==
  [n \in Names |-> IF n = f.param THEN Symbol("variable", pos, NoName, FALSE) ELSE table[n]]

(* What a call means in t: the function its symbol has, and its LLVM name. *)
Meant(t, u) ==
  IF u.op = "call" THEN [fn |-> <<t[u.name].item, 1>>, llvm |-> u.name]
  ELSE t[Target(t, u.on)].methods[u.name]

Unresolved_AnyMethod(t, u) ==
  \/ u.op = "call" /\ t[u.name].kind # "function"
  \/ u.op = "var" /\ t[u.name].kind # "variable"
  \/ u.op = "method" /\ ~StructOf(t, u.on)
Unresolved(t, u) ==
  \/ u.op = "call" /\ t[u.name].kind # "function"
  \/ u.op = "var" /\ t[u.name].kind # "variable"
  \/ u.op = "method" /\ (~StructOf(t, u.on) \/ Meant(t, u).fn = NoFn)

(* A parameter is a symbol too, and add_symbol looks through every scope. *)
Define ==
  /\ Generating({"fn", "impl"})
  /\ Cur.fns # <<>>
  /\ LET f == Cur.fns[sub]
         u == f.use
         t == InBody(f)
     IN /\ f.def
        /\ IF f.param # NoName /\ Defined(table, f.param) THEN Stop("error")
           ELSE IF u.op = "method" /\ Endless(t, u.on) THEN Stop("overflow")
           ELSE IF Unresolved(t, u) THEN Stop("error")
           ELSE /\ IF u.op \in {"call", "method"}
                     THEN /\ llvm' = Make(Begun, Meant(t, u).llvm)
                          /\ calls' = calls \cup {Meant(t, u)}
                     ELSE llvm' = Begun /\ calls' = calls
                /\ NextFn
                /\ UNCHANGED <<phase, module, table>>

EndGen ==
  /\ phase = "gen"
  /\ pos > Len(module)
  /\ phase' = "done"
  /\ UNCHANGED <<module, pos, sub, table, llvm, calls>>

Next ==
  \/ \E i \in Items : ParseItem(i)
  \/ BeginCollect
  \/ CollectStruct \/ CollectNamed \/ CollectNothing \/ CollectImpl \/ EndCollect
  \/ GenNothing \/ GenStatic \/ Declare \/ Define \/ EndGen

Spec == Init /\ [][Next]_vars

-----------------------------------------------------------------------------
(* Properties. *)

SymbolType ==
  [kind : {"none", "struct", "enum", "alias", "trait", "function", "variable"},
   item : 0..MaxItems, dest : Names \cup {NoName, Ext}, fielded : BOOLEAN,
   methods : [Names -> [fn : (0..MaxItems) \X Nat, llvm : LlvmNames \cup {NoName}]],
   traits : SUBSET Names]
TypeOK ==
  /\ phase \in {"parse", "collect", "gen", "done", "refused", "error", "overflow"}
  /\ module \in Seq(Items) /\ Len(module) <= MaxItems
  /\ pos \in 1..(MaxItems + 1)
  /\ sub \in Nat \ {0}
  /\ table \in [Names -> SymbolType]
  /\ \A n \in LlvmNames :
       llvm[n].made \in BOOLEAN /\ llvm[n].bodies \in Seq((1..MaxItems) \X Nat)
  /\ calls \subseteq [fn : (0..MaxItems) \X Nat, llvm : LlvmNames]

Fns == UNION {{<<i, k>> : k \in DOMAIN module[i].fns} : i \in DOMAIN module}
Bodied == {p \in Fns : FnAt(p).def}

(***************************************************************************)
(* Every call runs the function its symbol means: the LLVM function that   *)
(* the call names has that function's body and no other, whether the call, *)
(* a declaration or the definition was generated first.  LLVM names that   *)
(* two bodies share are the exception; no error is reported for them.      *)
(***************************************************************************)
Unambiguous ==
  \A p, q \in Bodied : GenName(p[1], p[2]) = GenName(q[1], q[2]) => p = q
CallsReachDefinition ==
  phase = "done" /\ Unambiguous =>
    \A c \in calls : c.fn \in Bodied => llvm[c.llvm].bodies = <<c.fn>>

(* The items that give name n a meaning, and the methods of type n. *)
Defs(n) == {i \in DOMAIN module : module[i].op # "impl" /\ module[i].name = n}
Impls(n) == {i \in DOMAIN module : module[i].op = "impl" /\ module[i].name = n}
MethodsOf(n, m) == {p \in Fns : p[1] \in Impls(n) /\ FnAt(p).name = m}

(***************************************************************************)
(* Sources without name clashes: one definition for a name, one function   *)
(* for a method, one impl of a trait for a type; impls of structs, of      *)
(* `str' and of types with no definition (the basic ones).                 *)
(***************************************************************************)
Separate ==
  /\ \A n \in Names :
       /\ Cardinality(Defs(n)) <= 1
       /\ n = Str => Defs(n) = {}
       /\ \A m \in Names : Cardinality(MethodsOf(n, m)) <= 1
       /\ \A i \in Impls(n) :
            /\ \A j \in Defs(n) : module[j].op = "struct"
            /\ \A j \in Impls(n) :
                 module[i].of = module[j].of => i = j \/ module[i].of = NoName
  /\ \A i \in DOMAIN module :
       module[i].op = "struct" => module[i].of # module[i].name

(* An item that makes a struct's symbol, and an impl of a trait without    *)
(* functions that comes before any has made its type's: it is refused.     *)
Makes(i) == module[i].op = "struct" \/ (module[i].op = "impl" /\ module[i].fns # <<>>)
Early(i) ==
  /\ module[i].op = "impl" /\ module[i].fns = <<>> /\ module[i].of # NoName
  /\ module[i].name # Str
  /\ \A j \in 1..(i - 1) : module[j].name = module[i].name => ~Makes(j)

(* What such a source says of name n, in whatever order it says it. *)
Means(n, s) ==
  LET said == {module[i].op : i \in Defs(n)} IN
    /\ s.kind = (CASE "fn" \in said -> "function"
                   [] said \cap {"enum", "alias", "trait", "struct"} # {} ->
                        CHOOSE k \in said : TRUE
                   [] n = Str \/ \E i \in Impls(n) : Makes(i) -> "struct"
                   [] OTHER -> "none")
    /\ s.item \in Defs(n) \/ (s.item = 0 /\ Defs(n) = {})
    /\ s.fielded <=> n = Str \/ "struct" \in said
    /\ \A m \in Names : s.methods[m].fn \in
         IF MethodsOf(n, m) = {} THEN {NoFn} ELSE MethodsOf(n, m)
    /\ s.traits = {module[i].of : i \in Impls(n)} \ {NoName}

(***************************************************************************)
(* A source without clashes is refused only for an impl of a trait that    *)
(* has no functions and comes before everything that makes a symbol of its *)
(* type (for a basic type: before its first impl with functions).  In any  *)
(* other order the table says of every name what the source says: an impl  *)
(* may precede its struct, and several impls and traits add up.            *)
(***************************************************************************)
CollectsInAnyOrder ==
  phase \notin {"parse", "collect"} /\ Separate =>
    /\ phase = "refused" <=> \E i \in DOMAIN module : Early(i)
    /\ phase # "refused" => \A n \in Names :
         (\A i \in Defs(n) : module[i].op # "static") => Means(n, table[n])

(* The type a name stands for. *)
Denoted(n) ==
  IF \E i \in Defs(n) : module[i].op = "alias"
    THEN module[CHOOSE i \in Defs(n) : TRUE].of ELSE n
Resolvable(p) ==
  LET f == FnAt(p) IN
    /\ ~ \E q \in Bodied : module[q[1]].op = "fn" /\ FnAt(q).name = f.param
    /\ f.use.op = "call" =>
         f.use.name # f.param /\ \E i \in Defs(f.use.name) : module[i].op = "fn"
    /\ f.use.op = "method" =>
         /\ f.param \notin {f.use.on, Denoted(f.use.on)}
         /\ MethodsOf(Denoted(f.use.on), f.use.name) # {}
    /\ f.use.op = "var" =>
         \/ f.use.name = f.param
         \/ \E i \in Defs(f.use.name) : module[i].op = "static" /\ i < p[1]

NoAliasOfAlias == \A i \in DOMAIN module :
  Denoted(Denoted(module[i].name)) = Denoted(module[i].name)

(***************************************************************************)
(* Such a source compiles exactly when every function's call and method    *)
(* has a definition somewhere, before or after it or behind an alias, its  *)
(* variable a static before it or its parameter, its parameter hides no    *)
(* function or type it calls, and no parameter has the name of a defined   *)
(* function, which add_symbol takes for a redefinition.                    *)
(***************************************************************************)
CompilesIffResolvable ==
  phase \in {"done", "error", "overflow"} /\ Separate /\ NoAliasOfAlias =>
    (phase = "done" <=> \A p \in Bodied : Resolvable(p))
=============================================================================

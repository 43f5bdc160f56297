---------------------------- MODULE Symbols_proofs ----------------------------
(***************************************************************************)
(* Proofs about Symbols, for every source: the table keeps its type, a     *)
(* call's LLVM name is the name of the function its symbol means, what the *)
(* table says of a name does not depend on the order of the items, and a   *)
(* source compiles exactly when what it mentions has a definition.         *)
(*                                                                         *)
(* The inductive invariant relates each symbol to the items it was made    *)
(* from (Agreeing), the bodies in the LLVM module to the functions         *)
(* generated so far (Built), the table to the items collected so far       *)
(* (Told, Aliased, Entered), and how far the generator has come to what    *)
(* could be resolved (Judged).                                             *)
(***************************************************************************)
EXTENDS Symbols, SequenceTheorems, FiniteSetTheorems, TLAPS

LlvmFunctions == [made : BOOLEAN, bodies : Seq((1..MaxItems) \X Nat)]
Typed == TypeOK /\ llvm \in [LlvmNames -> LlvmFunctions]

NoMethod == [fn |-> NoFn, llvm |-> NoName]

(* The symbol s of name n is made from items that define n. *)
Sound(n, s) ==
  /\ s.kind = "function" =>
       s.item \in DOMAIN module /\ module[s.item].op = "fn" /\ module[s.item].name = n
  /\ \A m \in Names :
       s.methods[m] # NoMethod =>
         /\ s.methods[m].fn \in MethodsOf(n, m)
         /\ s.methods[m].llvm = n \o m
Agreeing ==
  /\ \A n \in Names : Sound(n, table[n])
  /\ \A c \in calls : c.fn \in Fns /\ c.llvm = GenName(c.fn[1], c.fn[2])

(* Where each phase stands in the module. *)
Placed ==
  /\ pos <= Len(module) + 1
  /\ phase = "parse" => pos = 1 /\ table = [n \in Names |-> NoSymbol]
  /\ phase \in {"parse", "collect"} =>
       sub = 1 /\ calls = {} /\ \A n \in LlvmNames : llvm[n].bodies = <<>>
  /\ phase = "gen" => sub = 1 \/ (pos <= Len(module) /\ sub \in DOMAIN module[pos].fns)
  /\ phase = "done" => pos > Len(module)

Base == Typed /\ Agreeing /\ Placed

(* The functions whose body has been generated, and where it has gone. *)
Done(p) == p[1] < pos \/ (p[1] = pos /\ p[2] < sub)
Generated == {p \in Bodied : Done(p)}
Built ==
  phase \in {"gen", "done"} /\ Unambiguous =>
    \A n \in LlvmNames :
      /\ \A p \in Generated : GenName(p[1], p[2]) = n => llvm[n].bodies = <<p>>
      /\ (\A p \in Generated : GenName(p[1], p[2]) # n) => llvm[n].bodies = <<>>

(* What the items before item q say of name n, in whatever order.  As in   *)
(* the property, Separate excludes clashes of names, and a static, which   *)
(* is entered only by gen_code, says nothing.                              *)
DefsTo(n, q) == {i \in Defs(n) : i < q}
ImplsTo(n, q) == {i \in Impls(n) : i < q}
MakersTo(n, q) == {i \in ImplsTo(n, q) : module[i].fns # <<>>}
MethodsTo(n, m, q) == {p \in MethodsOf(n, m) : p[1] < q}
Kind(op) == IF op = "fn" THEN "function" ELSE op
Tells(n, s, q) ==
  /\ \A i \in DefsTo(n, q) : s.kind = Kind(module[i].op) /\ s.item = i
  /\ DefsTo(n, q) = {} =>
       s.item = 0 /\ s.kind = IF n = Str \/ MakersTo(n, q) # {} THEN "struct" ELSE "none"
  /\ s.fielded <=> n = Str \/ \E i \in DefsTo(n, q) : module[i].op = "struct"
  /\ \A m \in Names : s.methods[m].fn \in
       IF MethodsTo(n, m, q) = {} THEN {NoFn} ELSE MethodsTo(n, m, q)
  /\ s.traits = {module[i].of : i \in ImplsTo(n, q)} \ {NoName}
NoStatic(n) == \A i \in Defs(n) : module[i].op # "static"
AllTold(t, q) == \A n \in Names : NoStatic(n) => Tells(n, t[n], q)
Reached == IF phase = "collect" THEN pos ELSE Len(module) + 1
NoneEarly(q) == \A i \in DOMAIN module : i < q => ~Early(i)
Told ==
  phase # "parse" /\ Separate =>
    IF phase = "refused" THEN \E i \in DOMAIN module : Early(i)
    ELSE NoneEarly(Reached) /\ AllTold(table, Reached)

(* What the table says of aliases, at any time, and of statics.            *)
Aliased ==
  \A n \in Names : table[n].kind = "alias" =>
    /\ table[n].item \in Defs(n) /\ module[table[n].item].op = "alias"
    /\ table[n].dest = module[table[n].item].of
Entered ==
  phase \in {"collect", "gen", "done"} /\ Separate =>
    \A n \in Names : \A i \in Defs(n) : module[i].op = "static" =>
      table[n].kind = IF phase # "collect" /\ i < pos THEN "variable" ELSE "none"

(* The functions generated could be, and one that could not be stops the   *)
(* compiler.                                                               *)
Clear == Separate /\ NoAliasOfAlias
Judged ==
  Clear =>
    /\ phase \in {"gen", "done"} => \A p \in Generated : Resolvable(p)
    /\ phase \in {"error", "overflow"} => \E p \in Bodied : ~Resolvable(p)

Compiling == Base /\ Told /\ Aliased /\ Entered /\ Judged

-----------------------------------------------------------------------------
LEMMA ItemFacts ==
  ASSUME NEW i \in Items
  PROVE  /\ i.op \in {"struct", "enum", "alias", "trait", "static", "fn", "impl"}
         /\ i.name \in Names /\ i.of \in Names \cup {NoName, Ext}
         /\ i.fns \in Seq(FnDefs) /\ Len(i.fns) \in Nat /\ DOMAIN i.fns = 1..Len(i.fns)
         /\ i.op = "fn" => Len(i.fns) = 1 /\ i.fns[1].name = i.name
         /\ i.op \notin {"fn", "impl"} => i.fns = <<>>
         /\ i.op = "impl" => i.of \in Names \cup {NoName}
         /\ \A k \in DOMAIN i.fns :
              /\ i.fns[k].name \in Names
              /\ i.fns[k].use.op # "none" => i.fns[k].use.name \in Names
<1>1. i \in GlobalItems
  BY SymbolAssumption DEF SymbolAssumption
<1>2. i.fns \in Seq(FnDefs) /\ Len(i.fns) \in Nat /\ DOMAIN i.fns = 1..Len(i.fns)
  BY <1>1 DEF GlobalItems
<1>3. \A k \in DOMAIN i.fns : i.fns[k] \in FnDefs
  BY <1>2
<1>4. \A k \in DOMAIN i.fns : i.fns[k].name \in Names
  BY <1>3 DEF FnDefs
<1>5. /\ i.op \in {"struct", "enum", "alias", "trait", "static", "fn", "impl"}
      /\ i.name \in Names /\ i.of \in Names \cup {NoName, Ext}
  BY <1>1 DEF GlobalItems
<1>6. QED
  BY <1>2, <1>4, <1>5, SymbolAssumption DEF SymbolAssumption

LEMMA ModuleFacts ==
  ASSUME Typed
  PROVE  /\ module \in Seq(Items) /\ Len(module) \in Nat /\ DOMAIN module = 1..Len(module)
         /\ Len(module) <= MaxItems /\ MaxItems \in Nat
         /\ \A i \in DOMAIN module : module[i] \in Items /\ i \in 1..MaxItems
BY SymbolAssumption DEF Typed, TypeOK, SymbolAssumption

LEMMA NoMethodFacts ==
  /\ NoFn \in (0..MaxItems) \X Nat
  /\ NoMethod \in [fn : (0..MaxItems) \X Nat, llvm : LlvmNames \cup {NoName}]
  /\ NoMethods \in [Names -> [fn : (0..MaxItems) \X Nat, llvm : LlvmNames \cup {NoName}]]
  /\ \A m \in Names : NoMethods[m] = NoMethod
BY SymbolAssumption DEF SymbolAssumption, NoFn, NoMethod, NoMethods

Kinds == {"none", "struct", "enum", "alias", "trait", "function", "variable"}

LEMMA SymbolFacts ==
  ASSUME NEW kind \in Kinds, NEW item \in 0..MaxItems, NEW dest \in Names \cup {NoName, Ext},
         NEW fielded \in BOOLEAN
  PROVE  /\ Symbol(kind, item, dest, fielded) \in SymbolType
         /\ Symbol(kind, item, dest, fielded).kind = kind
         /\ Symbol(kind, item, dest, fielded).item = item
         /\ Symbol(kind, item, dest, fielded).fielded = fielded
         /\ Symbol(kind, item, dest, fielded).methods = NoMethods
         /\ Symbol(kind, item, dest, fielded).traits = {}
BY NoMethodFacts DEF Symbol, SymbolType, Kinds

LEMMA SymbolSound ==
  ASSUME NEW n \in Names, NEW kind \in Kinds, NEW item \in 0..MaxItems,
         NEW dest \in Names \cup {NoName, Ext}, NEW fielded \in BOOLEAN,
         kind = "function" =>
           item \in DOMAIN module /\ module[item].op = "fn" /\ module[item].name = n
  PROVE  Sound(n, Symbol(kind, item, dest, fielded))
<1> DEFINE s == Symbol(kind, item, dest, fielded)
<1>1. s.kind = kind /\ s.item = item /\ s.methods = NoMethods
  BY SymbolFacts
<1> HIDE DEF s
<1>2. \A m \in Names : s.methods[m] = NoMethod
  BY <1>1, NoMethodFacts
<1>3. Sound(n, s)
  BY <1>1, <1>2 DEF Sound
<1>4. QED
  BY <1>3 DEF s

(* A table with one symbol replaced. *)
LEMMA TableFacts ==
  ASSUME table \in [Names -> SymbolType], \A n \in Names : Sound(n, table[n]),
         NEW m \in Names, NEW s \in SymbolType, Sound(m, s),
         NEW t, t = [table EXCEPT ![m] = s]
  PROVE  /\ t \in [Names -> SymbolType]
         /\ \A n \in Names : Sound(n, t[n])
         /\ \A n \in Names : t[n] = IF n = m THEN s ELSE table[n]
<1>1. /\ t \in [Names -> SymbolType]
      /\ \A n \in Names : t[n] = IF n = m THEN s ELSE table[n]
  OBVIOUS
<1>2. \A n \in Names : Sound(n, t[n])
  BY <1>1
<1>3. QED
  BY <1>1, <1>2

LEMMA AgreeingKept ==
  ASSUME module' = module, \A n \in Names : Sound(n, table'[n]),
         \A c \in calls' : c.fn \in Fns /\ c.llvm = GenName(c.fn[1], c.fn[2])
  PROVE  Agreeing'
<1>1. Fns' = Fns /\ \A p \in Fns : FnAt(p)' = FnAt(p)
  BY DEF Fns, FnAt
<1>2. \A n \in Names : Impls(n)' = Impls(n)
  BY DEF Impls
<1>3. \A n, m \in Names : MethodsOf(n, m)' = MethodsOf(n, m)
  BY <1>1, <1>2 DEF MethodsOf
<1>4. \A n \in Names : Sound(n, table[n])'
  BY <1>3 DEF Sound
<1>5. \A c \in calls' : c.fn \in Fns' /\ c.llvm = GenName(c.fn[1], c.fn[2])'
  BY <1>1 DEF GenName
<1>6. QED
  BY <1>4, <1>5 DEF Agreeing

(* A state of the same module with another table. *)
LEMMA TypedKept ==
  ASSUME Typed, UNCHANGED <<module, llvm, calls>>, table' \in [Names -> SymbolType],
         phase' \in {"parse", "collect", "gen", "done", "refused", "error", "overflow"},
         pos' \in 1..(MaxItems + 1), sub' \in Nat \ {0}
  PROVE  Typed'
BY DEF Typed, TypeOK

-----------------------------------------------------------------------------
LEMMA InitBase == Init => Base
<1> SUFFICES ASSUME Init PROVE Base
  OBVIOUS
<1>1. MaxItems \in Nat
  BY SymbolAssumption DEF SymbolAssumption
<1>2. /\ NoSymbol \in SymbolType
      /\ \A n \in Names : Sound(n, NoSymbol)
  <2>1. "none" \in Kinds /\ 0 \in 0..MaxItems /\ NoName \in Names \cup {NoName, Ext} /\ FALSE \in BOOLEAN
    BY <1>1 DEF Kinds
  <2>2. Symbol("none", 0, NoName, FALSE) \in SymbolType
    BY <2>1, SymbolFacts
  <2>3. \A n \in Names : Sound(n, Symbol("none", 0, NoName, FALSE))
    BY <2>1, SymbolSound
  <2>4. QED
    BY <2>2, <2>3 DEF NoSymbol
<1>3. table = [n \in Names |-> NoSymbol] /\ table \in [Names -> SymbolType]
  BY <1>2 DEF Init
<1>4. llvm \in [LlvmNames -> LlvmFunctions] /\ \A n \in LlvmNames : llvm[n].bodies = <<>>
  BY DEF Init, LlvmFunctions
<1>5. Typed
  <2>1. module \in Seq(Items) /\ Len(module) <= MaxItems
    BY <1>1 DEF Init
  <2>2. \A n \in LlvmNames : llvm[n].made \in BOOLEAN /\ llvm[n].bodies \in Seq((1..MaxItems) \X Nat)
    BY <1>4 DEF LlvmFunctions
  <2>3. QED
    BY <1>1, <1>3, <1>4, <2>1, <2>2 DEF Init, Typed, TypeOK
<1>6. Agreeing
  BY <1>2, <1>3 DEF Init, Agreeing
<1>7. Placed
  BY <1>3, <1>4 DEF Init, Placed
<1>8. QED
  BY <1>5, <1>6, <1>7 DEF Base

LEMMA ParseBase ==
  ASSUME Base, NEW i \in Items, ParseItem(i)
  PROVE  Base'
<1>1. /\ phase = "parse" /\ phase' = phase /\ Len(module) < MaxItems /\ module' = Append(module, i)
      /\ UNCHANGED <<pos, sub, table, llvm, calls>>
  BY DEF ParseItem
<1>2. module' \in Seq(Items) /\ Len(module') = Len(module) + 1
  BY <1>1, ModuleFacts DEF Base
<1>3. Typed'
  BY <1>1, <1>2, ModuleFacts DEF Base, Typed, TypeOK
<1>4. Placed'
  BY <1>1, <1>2, ModuleFacts DEF Base, Placed
<1>5. Agreeing'
  <2>1. table' = [n \in Names |-> NoSymbol] /\ calls' = {}
    BY <1>1 DEF Base, Placed
  <2>2. \A m \in Names : NoSymbol.methods[m] = NoMethod
    BY NoMethodFacts DEF NoSymbol, Symbol
  <2>3. NoSymbol.kind = "none"
    BY DEF NoSymbol, Symbol
  <2>4. QED
    BY <2>1, <2>2, <2>3 DEF Agreeing, Sound
<1>6. QED
  BY <1>3, <1>4, <1>5 DEF Base

LEMMA BeginCollectBase ==
  ASSUME Base, BeginCollect
  PROVE  Base'
<1>1. /\ phase = "parse" /\ phase' = "collect" /\ UNCHANGED <<module, pos, sub, llvm, calls>>
      /\ table' = [table EXCEPT ![Str] = Symbol("struct", 0, NoName, TRUE)]
  BY DEF BeginCollect
<1>2. Str \in Names /\ 0 \in 0..MaxItems
  BY SymbolAssumption DEF SymbolAssumption
<1>3. Symbol("struct", 0, NoName, TRUE) \in SymbolType /\ Sound(Str, Symbol("struct", 0, NoName, TRUE))
  BY <1>2, SymbolFacts, SymbolSound DEF Kinds
<1>4. table' \in [Names -> SymbolType] /\ \A n \in Names : Sound(n, table'[n])
  BY <1>1, <1>2, <1>3, TableFacts DEF Base, Typed, TypeOK, Agreeing
<1>5. Typed'
  BY <1>1, <1>4, TypedKept DEF Base, Typed, TypeOK
<1>6. Agreeing'
  BY <1>1, <1>4, AgreeingKept DEF Base, Agreeing
<1>7. Placed'
  BY <1>1 DEF Base, Placed
<1>8. QED
  BY <1>5, <1>6, <1>7 DEF Base

LEMMA CurFacts ==
  ASSUME Base, pos <= Len(module)
  PROVE  /\ pos \in DOMAIN module /\ Cur \in Items /\ Cur = module[pos]
         /\ pos \in 0..MaxItems /\ pos \in 1..MaxItems /\ pos + 1 \in 1..(MaxItems + 1)
<1>1. pos \in 1..(MaxItems + 1)
  BY DEF Base, Typed, TypeOK
<1>2. QED
  BY <1>1, ModuleFacts DEF Base, Cur

LEMMA CollectedBase ==
  ASSUME Base, phase = "collect", pos <= Len(module), NEW t \in [Names -> SymbolType],
         \A n \in Names : Sound(n, t[n]), Collected(t)
  PROVE  Base'
<1>1. table' = t /\ pos' = pos + 1 /\ UNCHANGED <<phase, module, sub, llvm, calls>>
  BY DEF Collected
<1>2. Typed'
  BY <1>1, CurFacts, TypedKept DEF Base, Typed, TypeOK
<1>3. Agreeing'
  BY <1>1, AgreeingKept DEF Base, Agreeing
<1>4. Placed'
  BY <1>1, CurFacts, ModuleFacts DEF Base, Placed
<1>5. QED
  BY <1>2, <1>3, <1>4 DEF Base

LEMMA StopBase ==
  ASSUME Base, NEW why \in {"refused", "error", "overflow"}, Stop(why)
  PROVE  Base'
<1>1. phase' = why /\ UNCHANGED <<module, pos, sub, table, llvm, calls>>
  BY DEF Stop
<1>2. Typed'
  BY <1>1, TypedKept DEF Base, Typed, TypeOK
<1>3. Agreeing'
  BY <1>1, AgreeingKept DEF Base, Agreeing
<1>4. Placed'
  BY <1>1 DEF Base, Placed
<1>5. QED
  BY <1>2, <1>3, <1>4 DEF Base

(* A new symbol for the current item. *)
LEMMA EnterFacts ==
  ASSUME Base, pos <= Len(module), NEW kind \in Kinds, NEW dest \in Names \cup {NoName, Ext},
         NEW fielded \in BOOLEAN, kind = "function" => Cur.op = "fn",
         NEW t, t = [table EXCEPT ![Cur.name] = Symbol(kind, pos, dest, fielded)]
  PROVE  /\ t \in [Names -> SymbolType]
         /\ \A n \in Names : Sound(n, t[n])
         /\ \A n \in Names : t[n] = IF n = Cur.name THEN Symbol(kind, pos, dest, fielded) ELSE table[n]
<1>1. pos \in 0..MaxItems /\ pos \in DOMAIN module /\ Cur = module[pos] /\ Cur.name \in Names
  BY CurFacts, ItemFacts
<1> DEFINE s == Symbol(kind, pos, dest, fielded)
<1>2. s \in SymbolType /\ Sound(Cur.name, s)
  BY <1>1, SymbolFacts, SymbolSound
<1> HIDE DEF s
<1>3. t = [table EXCEPT ![Cur.name] = s]
  BY DEF s
<1>4. table \in [Names -> SymbolType] /\ \A n \in Names : Sound(n, table[n])
  BY DEF Base, Typed, TypeOK, Agreeing
<1>5. /\ t \in [Names -> SymbolType]
      /\ \A n \in Names : Sound(n, t[n])
      /\ \A n \in Names : t[n] = IF n = Cur.name THEN s ELSE table[n]
  BY <1>1, <1>2, <1>3, <1>4, TableFacts
<1>6. QED
  BY <1>5 DEF s

(* The symbol an impl has used, resolved. *)
LEMMA ResolveFacts ==
  ASSUME Base, pos <= Len(module), NEW s \in SymbolType
  PROVE  /\ Resolve(s) \in SymbolType
         /\ Resolve(s).kind = s.kind /\ Resolve(s).item = pos /\ Resolve(s).fielded = TRUE
         /\ Resolve(s).methods = s.methods /\ Resolve(s).traits = s.traits
<1>1. pos \in 0..MaxItems
  BY CurFacts
<1>2. QED
  BY <1>1 DEF Resolve, SymbolType

LEMMA ResolveTable ==
  ASSUME Base, pos <= Len(module), table[Cur.name].kind = "struct",
         NEW t, t = [table EXCEPT ![Cur.name] = Resolve(@)]
  PROVE  /\ t \in [Names -> SymbolType]
         /\ \A n \in Names : Sound(n, t[n])
         /\ \A n \in Names : t[n] = IF n = Cur.name THEN Resolve(table[n]) ELSE table[n]
<1> DEFINE n == Cur.name
           s == Resolve(table[n])
<1>1. table \in [Names -> SymbolType] /\ \A m \in Names : Sound(m, table[m])
  BY DEF Base, Typed, TypeOK, Agreeing
<1>2. n \in Names
  BY CurFacts, ItemFacts
<1>3. /\ s \in SymbolType /\ s.kind = "struct" /\ s.methods = table[n].methods
  BY <1>1, <1>2, ResolveFacts
<1>4. t = [table EXCEPT ![n] = s]
  BY <1>1, <1>2
<1> HIDE DEF s, n
<1>5. Sound(n, s)
  BY <1>1, <1>2, <1>3 DEF Sound
<1>6. /\ t \in [Names -> SymbolType]
      /\ \A m \in Names : Sound(m, t[m])
      /\ \A m \in Names : t[m] = IF m = n THEN s ELSE table[m]
  BY <1>1, <1>2, <1>3, <1>4, <1>5, TableFacts
<1>7. QED
  BY <1>6 DEF s, n

LEMMA CollectStructBase ==
  ASSUME Base, CollectStruct
  PROVE  Base'
<1>1. phase = "collect" /\ pos <= Len(module)
  BY DEF CollectStruct, Collecting
<1>2. CASE Cur.of = Cur.name
  BY <1>2, StopBase DEF CollectStruct
<1>3. CASE Cur.of # Cur.name
  <2>1. table \in [Names -> SymbolType] /\ \A m \in Names : Sound(m, table[m])
    BY DEF Base, Typed, TypeOK, Agreeing
  <2>2. CASE table[Cur.name].kind = "struct"
    <3>1. Collected([table EXCEPT ![Cur.name] = Resolve(@)])
      BY <1>3, <2>2 DEF CollectStruct
    <3>2. QED
      BY <1>1, <2>2, <3>1, ResolveTable, CollectedBase
  <2>3. CASE table[Cur.name].kind = "none"
    <3>1. Collected([table EXCEPT ![Cur.name] = Symbol("struct", pos, NoName, TRUE)])
      BY <1>3, <2>3 DEF CollectStruct
    <3>2. "struct" \in Kinds /\ "struct" # "function"
      BY DEF Kinds
    <3>3. QED
      BY <1>1, <3>1, <3>2, EnterFacts, CollectedBase
  <2>4. CASE table[Cur.name].kind \notin {"none", "struct"}
    <3>1. Collected(table)
      BY <1>3, <2>4 DEF CollectStruct
    <3>2. QED
      BY <1>1, <2>1, <3>1, CollectedBase
  <2>5. QED
    BY <2>2, <2>3, <2>4
<1>4. QED
  BY <1>2, <1>3

LEMMA CollectNamedBase ==
  ASSUME Base, CollectNamed
  PROVE  Base'
<1>1. phase = "collect" /\ pos <= Len(module) /\ Cur.op \in {"enum", "alias", "trait", "fn"}
  BY DEF CollectNamed, Collecting
<1>2. CASE Defined(table, Cur.name)
  BY <1>2, StopBase DEF CollectNamed
<1>3. CASE ~Defined(table, Cur.name)
  <2> DEFINE kind == IF Cur.op = "fn" THEN "function" ELSE Cur.op
             dest == IF Cur.op = "alias" THEN Cur.of ELSE NoName
             t == [table EXCEPT ![Cur.name] = Symbol(kind, pos, dest, FALSE)]
  <2>1. Collected(t)
    BY <1>3 DEF CollectNamed
  <2>2. kind \in Kinds /\ (kind = "function" => Cur.op = "fn")
    BY <1>1 DEF Kinds
  <2>3. dest \in Names \cup {NoName, Ext}
    BY <1>1, CurFacts, ItemFacts
  <2> HIDE DEF kind, dest
  <2>4. t \in [Names -> SymbolType] /\ \A n \in Names : Sound(n, t[n])
    BY <1>1, <2>2, <2>3, EnterFacts
  <2>5. QED
    BY <1>1, <2>1, <2>4, CollectedBase
<1>4. QED
  BY <1>2, <1>3

LEMMA CollectNothingBase ==
  ASSUME Base, CollectNothing
  PROVE  Base'
BY CollectedBase DEF CollectNothing, Collecting, Base, Typed, TypeOK, Agreeing

-----------------------------------------------------------------------------
(* Impl::collect_symbols. *)
LEMMA Least ==
  ASSUME NEW S, S \subseteq Nat, S # {}
  PROVE  \E n \in S : \A m \in S : n <= m
<1>1. IsWellFoundedOn({ss \in Nat \X Nat : ss[1] < ss[2]}, Nat)
  BY NatLessThanWellFounded DEF OpToRel
<1>2. PICK x \in S : \A y \in S : <<y, x>> \notin {ss \in Nat \X Nat : ss[1] < ss[2]}
  BY <1>1, WFMin
<1>3. \A y \in S : ~(y < x)
  BY <1>2
<1>4. QED
  BY <1>3

LEMMA Greatest ==
  ASSUME NEW l \in Nat, NEW S, S \subseteq 1..l, S # {}
  PROVE  \E k \in S : \A j \in S : j <= k
<1> DEFINE R == {r \in Nat : l - r \in S}
<1>1. \A j \in S : l - j \in Nat /\ l - (l - j) = j
  OBVIOUS
<1>2. \A j \in S : l - j \in R
  BY <1>1
<1>3. PICK r \in R : \A q \in R : r <= q
  <2>1. R # {} /\ R \subseteq Nat
    BY <1>2
  <2>2. QED
    BY <2>1, Least
<1>4. r \in Nat /\ l - r \in S
  BY <1>3
<1>5. ASSUME NEW j \in S PROVE j <= l - r
  <2>1. l - j \in R
    BY <1>2
  <2>2. r <= l - j
    BY <1>3, <2>1
  <2>3. QED
    BY <1>4, <2>2
<1>6. QED
  BY <1>4, <1>5

LEMMA Mangles ==
  /\ \A a \in Names : a \in LlvmNames
  /\ \A a, b \in Names : a \o b \in LlvmNames
<1>0. \A a \in Names : a \in LlvmNames
  BY DEF LlvmNames
<1>1. SUFFICES ASSUME NEW a \in Names, NEW b \in Names PROVE a \o b \in LlvmNames
  BY <1>0
<1> DEFINE pairs == {x \o y : x \in Names, y \in Names}
<1>2. a \o b \in pairs
  OBVIOUS
<1>3. LlvmNames = Names \cup pairs
  BY DEF LlvmNames
<1> HIDE DEF pairs
<1>4. QED
  BY <1>2, <1>3

(* The symbol an impl adds its functions to, and those of its functions *)
(* that have name m.                                                     *)
Before == IF table[Cur.name].kind = "struct" THEN table[Cur.name] ELSE Dummy
Named(m) == {k \in DOMAIN Cur.fns : Cur.fns[k].name = m}
Last(m) == {k \in Named(m) : \A l \in Named(m) : l <= k}
Methods ==
  [m \in Names |-> IF Last(m) = {} THEN Before.methods[m]
                   ELSE [fn |-> <<pos, CHOOSE k \in Last(m) : TRUE>>, llvm |-> Mangled(Cur.name, m)]]

LEMMA LastFacts ==
  ASSUME Base, pos <= Len(module), NEW m \in Names, Named(m) # {}
  PROVE  Last(m) # {} /\ (CHOOSE k \in Last(m) : TRUE) \in Named(m)
<1>1. Len(Cur.fns) \in Nat /\ Named(m) \subseteq 1..Len(Cur.fns)
  BY CurFacts, ItemFacts DEF Named
<1>2. \E k \in Named(m) : \A l \in Named(m) : l <= k
  BY <1>1, Greatest
<1>3. Last(m) # {}
  BY <1>2 DEF Last
<1>4. QED
  BY <1>3 DEF Last

LEMMA BeforeFacts ==
  ASSUME Base, pos <= Len(module)
  PROVE  Before \in SymbolType /\ Before.kind = "struct" /\ Sound(Cur.name, Before)
<1>1. Cur.name \in Names
  BY CurFacts, ItemFacts
<1>2. table \in [Names -> SymbolType] /\ \A m \in Names : Sound(m, table[m])
  BY DEF Base, Typed, TypeOK, Agreeing
<1>3. Dummy \in SymbolType /\ Dummy.kind = "struct" /\ Sound(Cur.name, Dummy)
  <2>1. "struct" \in Kinds /\ 0 \in 0..MaxItems /\ "struct" # "function" /\ FALSE \in BOOLEAN
    BY ModuleFacts DEF Kinds, Base
  <2>2. NoName \in Names \cup {NoName, Ext}
    OBVIOUS
  <2>3. Dummy \in SymbolType /\ Dummy.kind = "struct"
    <3>1. Symbol("struct", 0, NoName, FALSE) \in SymbolType
      BY <2>1, <2>2, SymbolFacts
    <3>2. Symbol("struct", 0, NoName, FALSE).kind = "struct"
      BY DEF Symbol
    <3>3. QED
      BY <3>1, <3>2 DEF Dummy
  <2>4. Sound(Cur.name, Dummy)
    BY <1>1, <2>1, <2>2, SymbolSound DEF Dummy
  <2>5. QED
    BY <2>3, <2>4
<1>4. QED
  BY <1>1, <1>2, <1>3 DEF Before

LEMMA MethodsFacts ==
  ASSUME Base, pos <= Len(module), Cur.op = "impl"
  PROVE  /\ \A m \in Names :
              /\ Named(m) = {} => Methods[m] = Before.methods[m]
              /\ Named(m) # {} => \E k \in Named(m) : Methods[m] = [fn |-> <<pos, k>>, llvm |-> Cur.name \o m]
         /\ Methods \in [Names -> [fn : (0..MaxItems) \X Nat, llvm : LlvmNames \cup {NoName}]]
         /\ \A m \in Names : Methods[m] # NoMethod =>
              Methods[m].fn \in MethodsOf(Cur.name, m) /\ Methods[m].llvm = Cur.name \o m
<1>1. ASSUME NEW m \in Names, Named(m) = {}
      PROVE  Methods[m] = Before.methods[m]
  BY <1>1 DEF Methods, Last
<1>2. ASSUME NEW m \in Names, Named(m) # {}
      PROVE  \E k \in Named(m) : Methods[m] = [fn |-> <<pos, k>>, llvm |-> Cur.name \o m]
  BY <1>2, LastFacts DEF Methods, Mangled
<1>3. Cur.name \in Names /\ pos \in 0..MaxItems /\ DOMAIN Cur.fns \subseteq Nat /\ Cur = module[pos]
      /\ pos \in DOMAIN module
  BY CurFacts, ItemFacts
<1>4. Before.methods \in [Names -> [fn : (0..MaxItems) \X Nat, llvm : LlvmNames \cup {NoName}]]
  BY BeforeFacts DEF SymbolType
<1>5. ASSUME NEW m \in Names
      PROVE  Methods[m] \in [fn : (0..MaxItems) \X Nat, llvm : LlvmNames \cup {NoName}]
  <2>1. CASE Named(m) = {}
    BY <1>1, <1>4, <2>1
  <2>2. CASE Named(m) # {}
    <3>1. PICK k \in Named(m) : Methods[m] = [fn |-> <<pos, k>>, llvm |-> Cur.name \o m]
      BY <1>2, <2>2
    <3>2. Cur.name \o m \in LlvmNames
      BY <1>3, Mangles
    <3>3. <<pos, k>> \in (0..MaxItems) \X Nat
      BY <1>3 DEF Named
    <3>4. QED
      BY <3>1, <3>2, <3>3
  <2>3. QED
    BY <2>1, <2>2
<1>6. Methods \in [Names -> [fn : (0..MaxItems) \X Nat, llvm : LlvmNames \cup {NoName}]]
  <2>1. Methods = [m \in Names |-> Methods[m]]
    BY DEF Methods
  <2>2. QED
    BY <1>5, <2>1
<1>7. ASSUME NEW m \in Names, Methods[m] # NoMethod
      PROVE  Methods[m].fn \in MethodsOf(Cur.name, m) /\ Methods[m].llvm = Cur.name \o m
  <2>1. CASE Named(m) = {}
    <3>1. Sound(Cur.name, Before) /\ Methods[m] = Before.methods[m]
      BY <1>1, <2>1, BeforeFacts
    <3>2. QED
      BY <1>7, <3>1 DEF Sound
  <2>2. CASE Named(m) # {}
    <3>1. PICK k \in Named(m) : Methods[m] = [fn |-> <<pos, k>>, llvm |-> Cur.name \o m]
      BY <1>2, <2>2
    <3>2. k \in DOMAIN module[pos].fns /\ module[pos].fns[k].name = m
      BY <1>3 DEF Named
    <3>3. <<pos, k>> \in Fns
      BY <1>3, <3>2 DEF Fns
    <3>4. pos \in Impls(Cur.name)
      BY <1>3 DEF Impls
    <3>5. <<pos, k>> \in MethodsOf(Cur.name, m)
      BY <3>2, <3>3, <3>4 DEF MethodsOf, FnAt
    <3>6. QED
      BY <3>1, <3>5
  <2>3. QED
    BY <2>1, <2>2
<1>8. QED
  BY <1>1, <1>2, <1>6, <1>7

LEMMA ImpledFacts ==
  ASSUME Base, pos <= Len(module), Cur.op = "impl", Cur.fns # <<>>
  PROVE  /\ Impled \in [Names -> SymbolType]
         /\ \A n \in Names : Sound(n, Impled[n])
         /\ \A n \in Names : n # Cur.name => Impled[n] = table[n]
         /\ LET s == Impled[Cur.name]
            IN  /\ s.kind = "struct" /\ s.methods = Methods
                /\ s.item = Before.item /\ s.fielded = Before.fielded /\ s.traits = Before.traits
<1> DEFINE n == Cur.name
           s == [Before EXCEPT !.methods = Methods]
<1>1. n \in Names
  BY CurFacts, ItemFacts
<1>2. Impled = [table EXCEPT ![n] = s]
  BY DEF Impled, Before, Methods, Last, Named
<1>3. /\ s \in SymbolType /\ s.kind = "struct" /\ s.methods = Methods
      /\ s.item = Before.item /\ s.fielded = Before.fielded /\ s.traits = Before.traits
  BY BeforeFacts, MethodsFacts DEF SymbolType
<1> HIDE DEF s, n
<1>4. Sound(n, s)
  BY <1>3, MethodsFacts DEF Sound, n
<1>5. table \in [Names -> SymbolType] /\ \A m \in Names : Sound(m, table[m])
  BY DEF Base, Typed, TypeOK, Agreeing
<1>6. /\ Impled \in [Names -> SymbolType]
      /\ \A m \in Names : Sound(m, Impled[m])
      /\ \A m \in Names : Impled[m] = IF m = n THEN s ELSE table[m]
  BY <1>1, <1>2, <1>3, <1>4, <1>5, TableFacts
<1>7. QED
  BY <1>1, <1>3, <1>6 DEF n

LEMMA ImpledTable ==
  ASSUME Base, pos <= Len(module), Cur.op = "impl"
  PROVE  Impled \in [Names -> SymbolType] /\ \A n \in Names : Sound(n, Impled[n])
<1>1. CASE Cur.fns # <<>>
  BY <1>1, ImpledFacts
<1>2. CASE Cur.fns = <<>>
  <2>1. Impled = table
    BY <1>2 DEF Impled
  <2>2. QED
    BY <2>1 DEF Base, Typed, TypeOK, Agreeing
<1>3. QED
  BY <1>1, <1>2

(* The trait, for the struct a name stands for. *)
LEMMA TraitFacts ==
  ASSUME Base, NEW t \in [Names -> SymbolType], \A m \in Names : Sound(m, t[m]),
         NEW n \in Names, NEW trait \in Names,
         NEW u, u = [t EXCEPT ![n].traits = @ \cup {trait}]
  PROVE  /\ u \in [Names -> SymbolType]
         /\ \A m \in Names : Sound(m, u[m])
         /\ \A m \in Names :
              /\ u[m].kind = t[m].kind /\ u[m].item = t[m].item /\ u[m].fielded = t[m].fielded
              /\ u[m].methods = t[m].methods
              /\ u[m].traits = IF m = n THEN t[m].traits \cup {trait} ELSE t[m].traits
<1> DEFINE s == [t[n] EXCEPT !.traits = @ \cup {trait}]
<1>1. u = [t EXCEPT ![n] = s]
  OBVIOUS
<1>2. t[n] \in SymbolType
  OBVIOUS
<1>3. /\ s \in SymbolType /\ s.kind = t[n].kind /\ s.item = t[n].item /\ s.fielded = t[n].fielded
      /\ s.methods = t[n].methods /\ s.traits = t[n].traits \cup {trait}
  BY <1>2 DEF SymbolType
<1> HIDE DEF s
<1>4. \A m \in Names : u[m] = IF m = n THEN s ELSE t[m]
  BY <1>1
<1>5. Sound(n, s)
  BY <1>3 DEF Sound
<1>6. u \in [Names -> SymbolType]
  BY <1>1, <1>3
<1>7. \A m \in Names : Sound(m, u[m])
  BY <1>4, <1>5
<1>8. QED
  BY <1>3, <1>4, <1>6, <1>7

LEMMA CollectImplBase ==
  ASSUME Base, CollectImpl
  PROVE  Base'
<1>1. phase = "collect" /\ pos <= Len(module) /\ Cur.op = "impl"
  BY DEF CollectImpl, Collecting
<1>2. Impled \in [Names -> SymbolType] /\ \A n \in Names : Sound(n, Impled[n])
  BY <1>1, ImpledTable
<1> DEFINE n == Target(Impled, Cur.name)
<1>3. \/ Stop("refused") \/ Stop("overflow")
      \/ Collected(Impled)
      \/ /\ Cur.of # NoName /\ StructOf(Impled, Cur.name)
         /\ Collected([Impled EXCEPT ![n].traits = @ \cup {Cur.of}])
  BY DEF CollectImpl
<1>4. ASSUME StructOf(Impled, Cur.name), Cur.of # NoName,
             Collected([Impled EXCEPT ![n].traits = @ \cup {Cur.of}])
      PROVE  Base'
  <2>1. n \in Names
    BY <1>4 DEF StructOf, KindOf
  <2>2. Cur.of \in Names
    BY <1>1, <1>4, CurFacts, ItemFacts
  <2> HIDE DEF n
  <2> DEFINE u == [Impled EXCEPT ![n].traits = @ \cup {Cur.of}]
  <2>3. u \in [Names -> SymbolType] /\ \A m \in Names : Sound(m, u[m])
    BY <1>2, <2>1, <2>2, TraitFacts
  <2>4. QED
    BY <1>1, <1>4, <2>3, CollectedBase
<1>5. QED
  BY <1>1, <1>2, <1>3, <1>4, StopBase, CollectedBase

-----------------------------------------------------------------------------
(* The functions of the module and their LLVM names. *)
LEMMA FnsFacts ==
  ASSUME Typed, NEW p \in Fns
  PROVE  /\ p = <<p[1], p[2]>> /\ p[1] \in DOMAIN module /\ p[2] \in DOMAIN module[p[1]].fns
         /\ p[1] \in 1..MaxItems /\ p[2] \in Nat \ {0} /\ p \in (0..MaxItems) \X Nat
         /\ GenName(p[1], p[2]) \in LlvmNames
<1>1. PICK i \in DOMAIN module : p \in {<<i, k>> : k \in DOMAIN module[i].fns}
  BY DEF Fns
<1>2. PICK k \in DOMAIN module[i].fns : p = <<i, k>>
  BY <1>1
<1>3. module[i] \in Items /\ i \in 1..MaxItems
  BY <1>1, ModuleFacts
<1>4. k \in Nat \ {0} /\ module[i].fns[k].name \in Names /\ module[i].name \in Names
  BY <1>2, <1>3, ItemFacts
<1>5. GenName(i, k) \in LlvmNames
  BY <1>4, Mangles DEF GenName
<1>6. p[1] = i /\ p[2] = k
  BY <1>2
<1>7. QED
  BY <1>2, <1>3, <1>4, <1>5, <1>6

LEMMA SameModule ==
  ASSUME module' = module
  PROVE  /\ Fns' = Fns /\ Bodied' = Bodied /\ (Unambiguous' <=> Unambiguous)
         /\ \A i, k : GenName(i, k)' = GenName(i, k)
<1>1. Fns' = Fns /\ \A p : FnAt(p)' = FnAt(p)
  BY DEF Fns, FnAt
<1>2. \A i, k : GenName(i, k)' = GenName(i, k)
  BY DEF GenName
<1>3. Bodied' = Bodied
  BY <1>1 DEF Bodied
<1>4. Unambiguous' <=> Unambiguous
  BY <1>2, <1>3 DEF Unambiguous
<1>5. QED
  BY <1>1, <1>2, <1>3, <1>4

LEMMA SubFacts ==
  ASSUME Base, phase = "gen", pos <= Len(module), Cur.fns # <<>>
  PROVE  /\ sub \in DOMAIN Cur.fns /\ <<pos, sub>> \in Fns
         /\ GenName(pos, sub) \in LlvmNames /\ <<pos, sub>> \in (1..MaxItems) \X Nat
<1>1. /\ pos \in DOMAIN module /\ Cur \in Items /\ Cur = module[pos] /\ pos \in 1..MaxItems
  BY CurFacts
<1>2. Cur.fns \in Seq(FnDefs) /\ DOMAIN Cur.fns = 1..Len(Cur.fns) /\ Len(Cur.fns) \in Nat
  BY <1>1, ItemFacts
<1>3. 1 \in DOMAIN Cur.fns
  BY <1>2
<1>4. sub \in DOMAIN Cur.fns
  BY <1>1, <1>3 DEF Base, Placed
<1>5. <<pos, sub>> \in Fns
  BY <1>1, <1>4 DEF Fns
<1>6. GenName(pos, sub) \in LlvmNames /\ sub \in Nat
  BY <1>5, FnsFacts DEF Base
<1>7. QED
  BY <1>1, <1>4, <1>5, <1>6

LEMMA MakeFacts ==
  ASSUME NEW l \in [LlvmNames -> LlvmFunctions], NEW n \in LlvmNames
  PROVE  /\ Make(l, n) \in [LlvmNames -> LlvmFunctions]
         /\ \A m \in LlvmNames : Make(l, n)[m].bodies = l[m].bodies
<1>1. \A m \in LlvmNames : l[m] \in LlvmFunctions
  OBVIOUS
<1> DEFINE s == [l[n] EXCEPT !.made = TRUE]
<1>2. s \in LlvmFunctions /\ s.bodies = l[n].bodies
  BY <1>1 DEF LlvmFunctions
<1>3. Make(l, n) = [l EXCEPT ![n] = s]
  BY DEF Make
<1> HIDE DEF s
<1>4. QED
  BY <1>1, <1>2, <1>3

LEMMA BegunFacts ==
  ASSUME Base, phase = "gen", pos <= Len(module), Cur.fns # <<>>
  PROVE  /\ Begun \in [LlvmNames -> LlvmFunctions]
         /\ \A m \in LlvmNames :
              Begun[m].bodies = IF m = GenName(pos, sub) THEN Append(llvm[m].bodies, <<pos, sub>>)
                                ELSE llvm[m].bodies
<1> DEFINE n == GenName(pos, sub)
           p == <<pos, sub>>
           l == Make(llvm, n)
           s == [l[n] EXCEPT !.bodies = Append(@, p)]
<1>1. n \in LlvmNames /\ p \in (1..MaxItems) \X Nat
  BY SubFacts
<1>2. llvm \in [LlvmNames -> LlvmFunctions]
  BY DEF Base, Typed
<1>3. Begun = [l EXCEPT ![n] = s]
  BY DEF Begun
<1> HIDE DEF n, p
<1>4. l \in [LlvmNames -> LlvmFunctions] /\ \A m \in LlvmNames : l[m].bodies = llvm[m].bodies
  BY <1>1, <1>2, MakeFacts
<1> HIDE DEF l
<1>5. l[n] \in LlvmFunctions
  BY <1>1, <1>4
<1>6. s \in LlvmFunctions /\ s.bodies = Append(l[n].bodies, p)
  <2>1. l[n].bodies \in Seq((1..MaxItems) \X Nat)
    BY <1>5 DEF LlvmFunctions
  <2>2. Append(l[n].bodies, p) \in Seq((1..MaxItems) \X Nat)
    BY <1>1, <2>1, AppendProperties
  <2>3. QED
    BY <1>5, <2>2 DEF LlvmFunctions
<1> HIDE DEF s
<1>7. Begun \in [LlvmNames -> LlvmFunctions]
  BY <1>3, <1>4, <1>6
<1>8. \A m \in LlvmNames : Begun[m] = IF m = n THEN s ELSE l[m]
  BY <1>3, <1>4
<1>9. \A m \in LlvmNames : Begun[m].bodies = IF m = n THEN Append(llvm[m].bodies, p) ELSE llvm[m].bodies
  BY <1>1, <1>4, <1>6, <1>8
<1>10. QED
  BY <1>7, <1>9 DEF n, p

(* The symbols of a function's body are made as the module's are. *)
LEMMA InBodyFacts ==
  ASSUME Base, pos <= Len(module), NEW f
  PROVE  InBody(f) \in [Names -> SymbolType] /\ \A n \in Names : Sound(n, InBody(f)[n])
<1> DEFINE v == Symbol("variable", pos, NoName, FALSE)
<1>1. /\ "variable" \in Kinds /\ "variable" # "function" /\ pos \in 0..MaxItems
      /\ NoName \in Names \cup {NoName, Ext} /\ FALSE \in BOOLEAN
  BY CurFacts DEF Kinds
<1>2. v \in SymbolType
  BY <1>1, SymbolFacts
<1>3. \A n \in Names : Sound(n, v)
  BY <1>1, SymbolSound
<1>4. table \in [Names -> SymbolType] /\ \A n \in Names : Sound(n, table[n])
  BY DEF Base, Typed, TypeOK, Agreeing
<1>5. InBody(f) = [n \in Names |-> IF n = f.param THEN v ELSE table[n]]
  BY DEF InBody
<1> HIDE DEF v
<1>6. InBody(f) \in [Names -> SymbolType]
  BY <1>2, <1>4, <1>5
<1>7. \A n \in Names : InBody(f)[n] = v \/ InBody(f)[n] = table[n]
  BY <1>5
<1>8. QED
  BY <1>3, <1>4, <1>6, <1>7

(* What a resolved mention means. *)
LEMMA MeantFacts ==
  ASSUME Base, NEW t \in [Names -> SymbolType], \A n \in Names : Sound(n, t[n]),
         NEW u, u.op \in {"call", "method"}, u.name \in Names, ~Unresolved(t, u)
  PROVE  LET c == Meant(t, u)
         IN  /\ c.fn \in Fns /\ c.llvm = GenName(c.fn[1], c.fn[2])
             /\ c = [fn |-> c.fn, llvm |-> c.llvm]
<1>1. CASE u.op = "call"
  <2> DEFINE i == t[u.name].item
  <2>1. t[u.name].kind = "function"
    BY <1>1 DEF Unresolved
  <2>2. i \in DOMAIN module /\ module[i].op = "fn" /\ module[i].name = u.name
    BY <2>1 DEF Sound
  <2>3. module[i] \in Items
    BY <2>2, ModuleFacts DEF Base
  <2>4. 1 \in DOMAIN module[i].fns /\ module[i].fns[1].name = u.name
    BY <2>2, <2>3, ItemFacts
  <2>5. Meant(t, u) = [fn |-> <<i, 1>>, llvm |-> u.name]
    BY <1>1 DEF Meant
  <2> HIDE DEF i
  <2>6. <<i, 1>> \in Fns
    BY <2>2, <2>4 DEF Fns
  <2>7. GenName(i, 1) = u.name
    BY <2>2, <2>4 DEF GenName
  <2>8. QED
    BY <2>5, <2>6, <2>7
<1>2. CASE u.op = "method"
  <2> DEFINE n == Target(t, u.on)
             s == t[n].methods[u.name]
  <2>1. Meant(t, u) = s
    BY <1>2 DEF Meant
  <2>2. n \in Names /\ s.fn # NoFn
    BY <1>2, <2>1 DEF Unresolved, StructOf, KindOf
  <2> HIDE DEF n
  <2>3. t[n] \in SymbolType /\ Sound(n, t[n])
    BY <2>2
  <2>4. s \in [fn : (0..MaxItems) \X Nat, llvm : LlvmNames \cup {NoName}]
    BY <2>3 DEF SymbolType
  <2>5. s.fn \in MethodsOf(n, u.name) /\ s.llvm = n \o u.name
    <3> DEFINE r == t[n]
    <3>1. Sound(n, r) /\ s = r.methods[u.name] /\ s.fn # NoFn
      BY <2>2, <2>3
    <3> HIDE DEF s, r
    <3>2. s # NoMethod
      BY <3>1 DEF NoMethod
    <3>3. QED
      BY <3>1, <3>2 DEF Sound
  <2> HIDE DEF s
  <2>6. s.fn \in Fns /\ module[s.fn[1]].op = "impl" /\ module[s.fn[1]].name = n
        /\ module[s.fn[1]].fns[s.fn[2]].name = u.name
    BY <2>5 DEF MethodsOf, Impls, FnAt
  <2>7. QED
    BY <2>1, <2>4, <2>5, <2>6 DEF GenName
<1>3. QED
  BY <1>1, <1>2

-----------------------------------------------------------------------------
(* The steps of gen_code. *)
LEMMA GeneratedKept ==
  ASSUME Built, module' = module, llvm' = llvm, phase \in {"gen", "done"},
         \A p \in Bodied : Done(p)' <=> Done(p)
  PROVE  Built'
<1>1. Generated' = Generated
  BY SameModule DEF Generated
<1>2. QED
  BY <1>1, SameModule DEF Built

(* To the next function, or to the next item. *)
LEMMA NextFnFacts ==
  ASSUME Base, phase = "gen", pos <= Len(module), Cur.fns # <<>>, NextFn, module' = module
  PROVE  /\ pos' \in 1..(MaxItems + 1) /\ pos' <= Len(module) + 1 /\ sub' \in Nat \ {0}
         /\ sub' = 1 \/ (pos' <= Len(module) /\ sub' \in DOMAIN module[pos'].fns)
         /\ \A p \in Fns : Done(p)' <=> (Done(p) \/ p = <<pos, sub>>)
<1>1. /\ pos \in 1..MaxItems /\ Cur \in Items /\ Cur = module[pos] /\ pos \in Nat
      /\ DOMAIN Cur.fns = 1..Len(Cur.fns) /\ Len(Cur.fns) \in Nat
  BY CurFacts, ItemFacts
<1>2. sub \in 1..Len(Cur.fns)
  BY <1>1, SubFacts
<1>3. Len(module) \in Nat /\ Len(module) <= MaxItems /\ MaxItems \in Nat
  BY ModuleFacts DEF Base
<1>4. \A p \in Fns :
        /\ p = <<p[1], p[2]>> /\ p[1] \in Nat /\ p[2] \in Nat \ {0}
        /\ p[1] = pos => p[2] \in 1..Len(Cur.fns)
  BY <1>1, FnsFacts DEF Base
<1>5. CASE sub < Len(Cur.fns)
  <2>1. sub' = sub + 1 /\ pos' = pos
    BY <1>5 DEF NextFn
  <2>2. sub' \in DOMAIN module[pos'].fns
    BY <1>1, <1>2, <1>5, <2>1
  <2>3. ASSUME NEW p \in Fns
        PROVE  Done(p)' <=> (Done(p) \/ p = <<pos, sub>>)
    <3>1. p = <<p[1], p[2]>> /\ p[1] \in Nat /\ p[2] \in Nat
      BY <1>4
    <3>2. p[2] < sub + 1 <=> p[2] < sub \/ p[2] = sub
      BY <1>2, <3>1
    <3>3. p = <<pos, sub>> <=> p[1] = pos /\ p[2] = sub
      BY <3>1
    <3>4. pos \in Nat /\ ~(pos < pos)
      BY <1>1
    <3>5. QED
      BY <2>1, <3>1, <3>2, <3>3, <3>4 DEF Done
  <2>4. pos' \in 1..(MaxItems + 1) /\ pos' <= Len(module) + 1 /\ sub' \in Nat \ {0} /\ pos' <= Len(module)
    BY <1>1, <1>2, <1>3, <2>1
  <2>5. QED
    BY <2>2, <2>3, <2>4
<1>6. CASE ~(sub < Len(Cur.fns))
  <2>1. sub' = 1 /\ pos' = pos + 1 /\ sub = Len(Cur.fns)
    BY <1>1, <1>2, <1>6 DEF NextFn
  <2>2. ASSUME NEW p \in Fns
        PROVE  Done(p)' <=> (Done(p) \/ p = <<pos, sub>>)
    <3>1. p = <<p[1], p[2]>> /\ p[1] \in Nat /\ p[2] \in Nat \ {0}
      BY <1>4
    <3>2. p[1] < pos + 1 <=> p[1] < pos \/ p[1] = pos
      BY <1>1, <3>1
    <3>3. p[1] = pos => p[2] < sub \/ p[2] = sub
      BY <1>1, <1>4, <2>1
    <3>4. p = <<pos, sub>> <=> p[1] = pos /\ p[2] = sub
      BY <3>1
    <3>5. ~(p[2] < 1)
      BY <3>1
    <3>6. QED
      BY <2>1, <3>1, <3>2, <3>3, <3>4, <3>5 DEF Done
  <2>3. pos' \in 1..(MaxItems + 1) /\ pos' <= Len(module) + 1 /\ sub' \in Nat \ {0}
    BY <1>1, <1>3, <2>1
  <2>4. QED
    BY <2>1, <2>2, <2>3
<1>7. QED
  BY <1>5, <1>6

LEMMA SkipFacts ==
  ASSUME Base, phase = "gen", pos <= Len(module), Cur.fns = <<>>, pos' = pos + 1, sub' = sub
  PROVE  /\ pos' \in 1..(MaxItems + 1) /\ pos' <= Len(module) + 1 /\ sub' = 1
         /\ \A p \in Fns : Done(p)' <=> Done(p)
<1>1. pos \in 1..MaxItems /\ Cur = module[pos] /\ Cur \in Items
  BY CurFacts
<1>2. DOMAIN Cur.fns = {}
  BY <1>1
<1>3. sub = 1
  BY <1>1, <1>2 DEF Base, Placed
<1>4. ASSUME NEW p \in Fns
      PROVE  Done(p)' <=> Done(p)
  <2>1. p[1] \in Nat /\ p[2] \in Nat \ {0} /\ p[1] # pos
    BY <1>1, <1>2, FnsFacts DEF Base
  <2>2. (p[1] < pos + 1 <=> p[1] < pos) /\ ~(p[2] < 1)
    BY <1>1, <2>1
  <2>3. QED
    BY <1>3, <2>1, <2>2 DEF Done
<1>5. QED
  BY <1>1, <1>3, <1>4, ModuleFacts DEF Base

(* A state of generating with the same table. *)
LEMMA GenBase ==
  ASSUME Base, phase = "gen", phase' = "gen", module' = module,
         table' \in [Names -> SymbolType], \A n \in Names : Sound(n, table'[n]),
         llvm' \in [LlvmNames -> LlvmFunctions],
         \A c \in calls' : c.fn \in Fns /\ c.llvm = GenName(c.fn[1], c.fn[2])
                             /\ c = [fn |-> c.fn, llvm |-> c.llvm],
         pos' \in 1..(MaxItems + 1), pos' <= Len(module) + 1, sub' \in Nat \ {0},
         sub' = 1 \/ (pos' <= Len(module) /\ sub' \in DOMAIN module[pos'].fns)
  PROVE  Base'
<1>1. calls' \subseteq [fn : (0..MaxItems) \X Nat, llvm : LlvmNames]
  <2>1. ASSUME NEW c \in calls' PROVE c \in [fn : (0..MaxItems) \X Nat, llvm : LlvmNames]
    <3>1. c.fn \in (0..MaxItems) \X Nat /\ c.llvm \in LlvmNames
      BY FnsFacts DEF Base
    <3>2. QED
      BY <3>1
  <2>2. QED
    BY <2>1
<1>2. \A n \in LlvmNames :
        llvm'[n].made \in BOOLEAN /\ llvm'[n].bodies \in Seq((1..MaxItems) \X Nat)
  BY DEF LlvmFunctions
<1>3. Typed'
  BY <1>1, <1>2 DEF Base, Typed, TypeOK
<1>4. Agreeing'
  BY AgreeingKept
<1>5. Placed'
  BY DEF Placed
<1>6. QED
  BY <1>3, <1>4, <1>5 DEF Base

LEMMA CallsFacts ==
  ASSUME Base, NEW c \in calls
  PROVE  /\ c.fn \in Fns /\ c.llvm = GenName(c.fn[1], c.fn[2])
         /\ c = [fn |-> c.fn, llvm |-> c.llvm]
BY DEF Base, Agreeing, Typed, TypeOK

LEMMA EndCollectKeeps ==
  ASSUME Base, EndCollect
  PROVE  Base' /\ Built'
<1>1. /\ phase = "collect" /\ phase' = "gen" /\ pos' = 1 /\ UNCHANGED <<module, sub, table, llvm, calls>>
  BY DEF EndCollect
<1>2. sub = 1 /\ calls = {} /\ \A n \in LlvmNames : llvm[n].bodies = <<>>
  BY <1>1 DEF Base, Placed
<1>3. Len(module) \in Nat /\ MaxItems \in Nat
  BY ModuleFacts DEF Base
<1>4. Typed'
  BY <1>1, <1>3, TypedKept DEF Base, Typed, TypeOK
<1>5. Agreeing'
  BY <1>1, AgreeingKept DEF Base, Agreeing
<1>6. Placed'
  BY <1>1, <1>2, <1>3 DEF Placed
<1>7. Generated' = {}
  <2>1. ASSUME NEW p \in Fns PROVE ~Done(p)'
    <3>1. p[1] \in Nat \ {0} /\ p[2] \in Nat \ {0}
      BY FnsFacts DEF Base
    <3>2. QED
      BY <1>1, <1>2, <3>1 DEF Done
  <2>2. QED
    BY <1>1, <2>1, SameModule DEF Generated, Bodied
<1>8. Built'
  BY <1>1, <1>2, <1>7 DEF Built
<1>9. QED
  BY <1>4, <1>5, <1>6, <1>8 DEF Base

LEMMA EndGenKeeps ==
  ASSUME Base, Built, EndGen
  PROVE  Base' /\ Built'
<1>1. /\ phase = "gen" /\ phase' = "done" /\ pos > Len(module)
      /\ UNCHANGED <<module, pos, sub, table, llvm, calls>>
  BY DEF EndGen
<1>2. Typed'
  BY <1>1, TypedKept DEF Base, Typed, TypeOK
<1>3. Agreeing'
  BY <1>1, AgreeingKept DEF Base, Agreeing
<1>4. Placed'
  BY <1>1 DEF Base, Placed
<1>5. Built'
  BY <1>1, GeneratedKept DEF Done
<1>6. QED
  BY <1>2, <1>3, <1>4, <1>5 DEF Base

LEMMA GenNothingKeeps ==
  ASSUME Base, Built, GenNothing
  PROVE  Base' /\ Built'
<1>1. /\ phase = "gen" /\ phase' = "gen" /\ pos <= Len(module) /\ Cur.fns = <<>> /\ pos' = pos + 1
      /\ UNCHANGED <<module, sub, table, llvm, calls>>
  BY DEF GenNothing, Generating
<1>2. Base'
  BY <1>1, SkipFacts, GenBase, CallsFacts DEF Base, Typed, TypeOK, Agreeing
<1>3. Built'
  BY <1>1, SkipFacts, GeneratedKept DEF Bodied
<1>4. QED
  BY <1>2, <1>3

LEMMA StopKeeps ==
  ASSUME Base, NEW why \in {"refused", "error", "overflow"}, Stop(why)
  PROVE  Base' /\ Built'
<1>1. phase' \notin {"gen", "done"}
  BY DEF Stop
<1>2. QED
  BY <1>1, StopBase DEF Built

LEMMA GenStaticKeeps ==
  ASSUME Base, Built, GenStatic
  PROVE  Base' /\ Built'
<1>1. phase = "gen" /\ pos <= Len(module) /\ Cur.op = "static"
  BY DEF GenStatic, Generating
<1>2. CASE Defined(table, Cur.name)
  BY <1>2, StopKeeps DEF GenStatic
<1>3. CASE ~Defined(table, Cur.name)
  <2>1. /\ table' = [table EXCEPT ![Cur.name] = Symbol("variable", pos, NoName, FALSE)]
        /\ pos' = pos + 1 /\ phase' = "gen" /\ UNCHANGED <<module, sub, llvm, calls>>
    BY <1>1, <1>3 DEF GenStatic
  <2>2. Cur.fns = <<>>
    BY <1>1, CurFacts, ItemFacts
  <2>3. "variable" \in Kinds /\ "variable" # "function"
    BY DEF Kinds
  <2>4. table' \in [Names -> SymbolType] /\ \A n \in Names : Sound(n, table'[n])
    BY <1>1, <2>1, <2>3, EnterFacts
  <2>5. Base'
    <3>1. pos' \in 1..(MaxItems + 1) /\ pos' <= Len(module) + 1 /\ sub' = 1
      BY <1>1, <2>1, <2>2, SkipFacts
    <3>2. \A c \in calls' : c.fn \in Fns /\ c.llvm = GenName(c.fn[1], c.fn[2])
                               /\ c = [fn |-> c.fn, llvm |-> c.llvm]
      BY <2>1, CallsFacts
    <3>3. llvm' \in [LlvmNames -> LlvmFunctions]
      BY <2>1 DEF Base, Typed
    <3>4. /\ table' \in [Names -> SymbolType]
          /\ sub' \in Nat \ {0}
          /\ sub' = 1 \/ (pos' <= Len(module) /\ sub' \in DOMAIN module[pos'].fns)
      BY <2>4, <3>1
    <3>5. \A n \in Names : Sound(n, table'[n])
      BY <2>4
    <3>6. phase = "gen" /\ phase' = "gen" /\ module' = module
      BY <1>1, <2>1
    <3>7. QED
      BY <3>1, <3>2, <3>3, <3>4, <3>5, <3>6, GenBase
  <2>6. Built'
    BY <1>1, <2>1, <2>2, SkipFacts, GeneratedKept DEF Bodied
  <2>7. QED
    BY <2>5, <2>6
<1>4. QED
  BY <1>2, <1>3

LEMMA DeclareKeeps ==
  ASSUME Base, Built, Declare
  PROVE  Base' /\ Built'
<1>1. /\ phase = "gen" /\ phase' = "gen" /\ pos <= Len(module) /\ Cur.fns # <<>> /\ ~Cur.fns[sub].def
      /\ llvm' = Make(llvm, GenName(pos, sub)) /\ NextFn /\ UNCHANGED <<module, table, calls>>
  BY DEF Declare, Generating
<1>2. GenName(pos, sub) \in LlvmNames /\ llvm \in [LlvmNames -> LlvmFunctions]
  BY <1>1, SubFacts DEF Base, Typed
<1>3. /\ llvm' \in [LlvmNames -> LlvmFunctions]
      /\ \A n \in LlvmNames : llvm'[n].bodies = llvm[n].bodies
  BY <1>1, <1>2, MakeFacts
<1>4. Base'
  BY <1>1, <1>3, NextFnFacts, GenBase, CallsFacts DEF Base, Typed, TypeOK, Agreeing
<1>5. <<pos, sub>> \notin Bodied
  BY <1>1 DEF Bodied, FnAt, Cur
<1>6. \A p \in Bodied : Done(p)' <=> Done(p)
  BY <1>1, <1>5, NextFnFacts DEF Bodied
<1>7. Generated' = Generated
  BY <1>1, <1>6, SameModule DEF Generated
<1>8. Built'
  BY <1>1, <1>3, <1>7, SameModule DEF Built
<1>9. QED
  BY <1>4, <1>8

(* A body is appended under the name of its function, which no other has. *)
LEMMA DefineKeeps ==
  ASSUME Base, Built, Define
  PROVE  Base' /\ Built'
<1> DEFINE u == Cur.fns[sub].use
           n == GenName(pos, sub)
           d == <<pos, sub>>
           t == InBody(Cur.fns[sub])
           c == Meant(t, u)
<1>1. /\ phase = "gen" /\ pos <= Len(module) /\ Cur.fns # <<>> /\ Cur.fns[sub].def
  BY DEF Define, Generating
<1>2. CASE Stop("error") \/ Stop("overflow")
  BY <1>2, StopKeeps
<1>3. ASSUME ~Unresolved(t, u),
             IF u.op \in {"call", "method"}
               THEN llvm' = Make(Begun, c.llvm) /\ calls' = calls \cup {c}
               ELSE llvm' = Begun /\ calls' = calls,
             NextFn, UNCHANGED <<phase, module, table>>
      PROVE  Base' /\ Built'
  <2>1. /\ Begun \in [LlvmNames -> LlvmFunctions]
        /\ \A m \in LlvmNames :
             Begun[m].bodies = IF m = n THEN Append(llvm[m].bodies, d) ELSE llvm[m].bodies
    BY <1>1, BegunFacts
  <2>2. /\ sub \in DOMAIN Cur.fns /\ d \in Fns
    BY <1>1, SubFacts
  <2>3. u.op \in {"call", "method"} => u.name \in Names
    BY <1>1, <2>2, CurFacts, ItemFacts
  <2>3a. t \in [Names -> SymbolType] /\ \A m \in Names : Sound(m, t[m])
    BY <1>1, InBodyFacts
  <2> HIDE DEF u, n, d, t
  <2>4. u.op \in {"call", "method"} =>
          /\ c.fn \in Fns /\ c.llvm = GenName(c.fn[1], c.fn[2])
          /\ c = [fn |-> c.fn, llvm |-> c.llvm]
          /\ c.llvm \in LlvmNames
    <3>1. SUFFICES ASSUME u.op \in {"call", "method"}
                   PROVE  /\ c.fn \in Fns /\ c.llvm = GenName(c.fn[1], c.fn[2])
                          /\ c = [fn |-> c.fn, llvm |-> c.llvm]
                          /\ c.llvm \in LlvmNames
      OBVIOUS
    <3>2. /\ c.fn \in Fns /\ c.llvm = GenName(c.fn[1], c.fn[2])
          /\ c = [fn |-> c.fn, llvm |-> c.llvm]
      BY <1>3, <2>3, <2>3a, <3>1, MeantFacts
    <3> HIDE DEF c
    <3>3. Typed
      BY DEF Base
    <3>4. QED
      BY <3>2, <3>3, FnsFacts
  <2> HIDE DEF c
  <2>5. /\ llvm' \in [LlvmNames -> LlvmFunctions]
        /\ \A m \in LlvmNames : llvm'[m].bodies = Begun[m].bodies
    BY <1>3, <2>1, <2>4, MakeFacts
  <2>6. ASSUME NEW e \in calls'
        PROVE  /\ e.fn \in Fns /\ e.llvm = GenName(e.fn[1], e.fn[2])
               /\ e = [fn |-> e.fn, llvm |-> e.llvm]
    <3>1. CASE e \in calls
      BY <3>1, CallsFacts
    <3>2. CASE e \notin calls
      <4>1. e = c /\ u.op \in {"call", "method"}
        BY <1>3, <2>6, <3>2
      <4>2. QED
        BY <2>4, <4>1
    <3>3. QED
      BY <3>1, <3>2
  <2>7. /\ pos' \in 1..(MaxItems + 1) /\ pos' <= Len(module) + 1 /\ sub' \in Nat \ {0}
        /\ sub' = 1 \/ (pos' <= Len(module) /\ sub' \in DOMAIN module[pos'].fns)
        /\ \A p \in Fns : Done(p)' <=> (Done(p) \/ p = d)
    BY <1>1, <1>3, NextFnFacts DEF d
  <2>8. Base'
    BY <1>1, <1>3, <2>5, <2>6, <2>7, GenBase DEF Base, Typed, TypeOK, Agreeing
  <2>9. d \in Bodied /\ d[1] = pos /\ d[2] = sub /\ n = GenName(d[1], d[2])
    BY <1>1, <2>2 DEF Bodied, FnAt, Cur, d, n
  <2>10. ~Done(d)
    BY <2>9, CurFacts, <1>1, <2>2, FnsFacts DEF Done, Base
  <2>11. Generated' = Generated \cup {d} /\ d \notin Generated
    BY <1>3, <2>2, <2>7, <2>9, <2>10, SameModule DEF Generated, Bodied
  <2>12. Built'
    <3>1. SUFFICES ASSUME Unambiguous, NEW m \in LlvmNames
                   PROVE  /\ \A p \in Generated' : GenName(p[1], p[2]) = m => llvm'[m].bodies = <<p>>
                          /\ (\A p \in Generated' : GenName(p[1], p[2]) # m) => llvm'[m].bodies = <<>>
      BY <1>3, SameModule DEF Built
    <3>2. /\ \A p \in Generated : GenName(p[1], p[2]) = m => llvm[m].bodies = <<p>>
          /\ (\A p \in Generated : GenName(p[1], p[2]) # m) => llvm[m].bodies = <<>>
      BY <1>1, <3>1 DEF Built
    <3>3. CASE m = n
      <4>1. \A p \in Generated : GenName(p[1], p[2]) # n
        BY <2>9, <2>11, <3>1 DEF Unambiguous, Generated
      <4>2. llvm'[m].bodies = Append(<<>>, d)
        BY <2>1, <2>5, <3>2, <3>3, <4>1
      <4>3. QED
        BY <2>9, <2>11, <3>3, <4>1, <4>2
    <3>4. CASE m # n
      BY <2>1, <2>5, <2>9, <2>11, <3>2, <3>4
    <3>5. QED
      BY <3>3, <3>4
  <2>13. QED
    BY <2>8, <2>12
<1>4. QED
  BY <1>2, <1>3 DEF Define

-----------------------------------------------------------------------------
LEMMA InitInv == Init => Base /\ Built
<1>1. Init => Built
  BY DEF Init, Built
<1>2. QED
  BY <1>1, InitBase

LEMMA NextInv == Base /\ Built /\ [Next]_vars => Base' /\ Built'
<1> SUFFICES ASSUME Base, Built, [Next]_vars PROVE Base' /\ Built'
  OBVIOUS
(* No body is generated before gen. *)
<1>1. (phase' = "parse" \/ phase' = "collect") => Built'
  BY DEF Built
<1>2. ASSUME NEW i \in Items, ParseItem(i) PROVE Base' /\ Built'
  BY <1>1, <1>2, ParseBase DEF ParseItem
<1>3. CASE BeginCollect
  BY <1>1, <1>3, BeginCollectBase DEF BeginCollect
<1>4. CASE CollectStruct \/ CollectNamed \/ CollectNothing \/ CollectImpl
  <2>1. phase = "collect"
    BY <1>4 DEF CollectStruct, CollectNamed, CollectNothing, CollectImpl, Collecting
  <2>2. \/ Stop("refused") \/ Stop("overflow") \/ phase' = phase
    BY <1>4 DEF CollectStruct, CollectNamed, CollectNothing, CollectImpl, Collected
  <2>3. Built'
    BY <1>1, <2>1, <2>2, StopKeeps
  <2>4. Base'
    BY <1>4, CollectStructBase, CollectNamedBase, CollectNothingBase, CollectImplBase
  <2>5. QED
    BY <2>3, <2>4
<1>5. CASE EndCollect
  BY <1>5, EndCollectKeeps
<1>6. CASE GenNothing
  BY <1>6, GenNothingKeeps
<1>7. CASE GenStatic
  BY <1>7, GenStaticKeeps
<1>8. CASE Declare
  BY <1>8, DeclareKeeps
<1>9. CASE Define
  BY <1>9, DefineKeeps
<1>10. CASE EndGen
  BY <1>10, EndGenKeeps
<1>11. CASE UNCHANGED vars
  <2>1. module' = module /\ Fns' = Fns
    BY <1>11, SameModule DEF vars
  <2>2. Typed'
    BY <1>11, TypedKept DEF vars, Base, Typed, TypeOK
  <2>3. Agreeing'
    BY <1>11, AgreeingKept DEF vars, Base, Agreeing
  <2>4. Placed'
    BY <1>11 DEF vars, Base, Placed
  <2>5. Built'
    <3>1. CASE phase \in {"gen", "done"}
      BY <1>11, <3>1, GeneratedKept DEF vars, Done
    <3>2. CASE phase \notin {"gen", "done"}
      BY <1>11, <3>2 DEF vars, Built
    <3>3. QED
      BY <3>1, <3>2
  <2>6. QED
    BY <2>2, <2>3, <2>4, <2>5 DEF Base
<1>12. QED
  BY <1>2, <1>3, <1>4, <1>5, <1>6, <1>7, <1>8, <1>9, <1>10, <1>11 DEF Next

LEMMA SpecInv == Spec => [](Base /\ Built)
<1>1. Init => Base /\ Built
  BY InitInv
<1>2. Base /\ Built /\ [Next]_vars => Base' /\ Built'
  BY NextInv
<1>3. QED
  BY <1>1, <1>2, PTL DEF Spec

(* The types of the table, of the LLVM functions and of the calls. *)
THEOREM TypeCorrect == Spec => []TypeOK
<1>1. Base => TypeOK
  BY DEF Base, Typed
<1>2. QED
  BY <1>1, SpecInv, PTL

(***************************************************************************)
(* When the generator is done, the LLVM function a call names has the body *)
(* of the function the call meant and no other, whichever of call,         *)
(* declaration and definition came first (Function::gen_code, CallExpr's   *)
(* gen_code), unless two bodies share an LLVM name.                        *)
(***************************************************************************)
THEOREM CallsReach == Spec => []CallsReachDefinition
<1>1. Base /\ Built => CallsReachDefinition
  <2>1. SUFFICES ASSUME Base, Built, phase = "done", Unambiguous, NEW c \in calls, c.fn \in Bodied
                 PROVE  llvm[c.llvm].bodies = <<c.fn>>
    BY DEF CallsReachDefinition
  <2>2. c.fn \in Fns /\ c.llvm = GenName(c.fn[1], c.fn[2])
    BY <2>1, CallsFacts
  <2>3. c.fn[1] \in DOMAIN module /\ c.llvm \in LlvmNames
    BY <2>1, <2>2, FnsFacts DEF Base
  <2>4. c.fn[1] < pos
    <3>1. pos > Len(module) /\ pos \in Nat
      BY <2>1 DEF Base, Placed, Typed, TypeOK
    <3>2. c.fn[1] \in 1..Len(module) /\ Len(module) \in Nat
      BY <2>1, <2>3, ModuleFacts DEF Base
    <3>3. QED
      BY <3>1, <3>2
  <2>5. c.fn \in Generated
    BY <2>1, <2>4 DEF Generated, Done
  <2>6. QED
    BY <2>1, <2>2, <2>3, <2>5 DEF Built
<1>2. QED
  BY <1>1, SpecInv, PTL

-----------------------------------------------------------------------------
(***************************************************************************)
(* The order of the items.  First what Separate says of one name.          *)
(***************************************************************************)
LEMMA AtMostOne ==
  ASSUME NEW S, IsFiniteSet(S), Cardinality(S) <= 1, NEW a \in S, NEW b \in S
  PROVE  a = b
<1>1. SUFFICES ASSUME a # b PROVE FALSE
  OBVIOUS
<1>2. IsFiniteSet({}) /\ Cardinality({}) = 0
  BY FS_EmptySet
<1>3. IsFiniteSet({a}) /\ Cardinality({a}) = 1
  <2>1. a \notin {} /\ {} \cup {a} = {a}
    OBVIOUS
  <2>2. IsFiniteSet({} \cup {a}) /\ Cardinality({} \cup {a}) = Cardinality({}) + 1
    BY <1>2, <2>1, FS_AddElement
  <2>3. QED
    BY <1>2, <2>1, <2>2
<1>4. Cardinality({a, b}) = 2
  <2> DEFINE T == {a}
  <2>1. T \cup {b} = {a, b} /\ b \notin T
    BY <1>1
  <2>2. IsFiniteSet(T) /\ Cardinality(T) = 1
    BY <1>3
  <2> HIDE DEF T
  <2>3. Cardinality(T \cup {b}) = Cardinality(T) + 1
    BY <2>1, <2>2, FS_AddElement
  <2>4. QED
    BY <2>1, <2>2, <2>3
<1>5. Cardinality({a, b}) <= Cardinality(S) /\ Cardinality(S) \in Nat
  <2>1. {a, b} \subseteq S
    OBVIOUS
  <2>2. QED
    BY <2>1, FS_Subset, FS_CardinalityType
<1>6. QED
  BY <1>4, <1>5

LEMMA OneDefinition ==
  ASSUME Typed, Separate, NEW n \in Names, NEW i \in Defs(n), NEW j \in Defs(n)
  PROVE  i = j
<1>1. IsFiniteSet(Defs(n))
  <2>1. IsFiniteSet(1..Len(module))
    BY ModuleFacts, FS_Interval
  <2>2. Defs(n) \subseteq 1..Len(module)
    BY ModuleFacts DEF Defs
  <2>3. QED
    BY <2>1, <2>2, FS_Subset
<1>2. Cardinality(Defs(n)) <= 1
  BY DEF Separate
<1>3. QED
  BY <1>1, <1>2, AtMostOne

LEMMA SeparateFacts ==
  ASSUME Separate, NEW n \in Names
  PROVE  /\ n = Str => Defs(n) = {}
         /\ \A i \in Impls(n), j \in Defs(n) : module[j].op = "struct"
         /\ \A i, j \in Impls(n) :
              module[i].of = module[j].of => i = j \/ module[i].of = NoName
BY DEF Separate

(* An item says something of its own name only. *)
LEMMA OtherNames ==
  ASSUME Base, pos <= Len(module), NEW n \in Names, n # Cur.name
  PROVE  /\ DefsTo(n, pos + 1) = DefsTo(n, pos) /\ ImplsTo(n, pos + 1) = ImplsTo(n, pos)
         /\ MakersTo(n, pos + 1) = MakersTo(n, pos)
         /\ \A m \in Names : MethodsTo(n, m, pos + 1) = MethodsTo(n, m, pos)
<1>1. pos \in Nat /\ Cur = module[pos] /\ DOMAIN module \subseteq Nat
  BY CurFacts, ModuleFacts DEF Base
<1>2. pos \notin Defs(n) /\ pos \notin Impls(n)
  BY <1>1 DEF Defs, Impls
<1>3. \A i \in Nat : i < pos + 1 <=> i < pos \/ i = pos
  BY <1>1
<1>4. Defs(n) \subseteq Nat /\ Impls(n) \subseteq Nat
  BY <1>1 DEF Defs, Impls
<1>5. \A m \in Names : \A p \in MethodsOf(n, m) : p[1] \in Impls(n)
  BY DEF MethodsOf
<1>6. DefsTo(n, pos + 1) = DefsTo(n, pos) /\ ImplsTo(n, pos + 1) = ImplsTo(n, pos)
  BY <1>2, <1>3, <1>4 DEF DefsTo, ImplsTo
<1>7. \A m \in Names : MethodsTo(n, m, pos + 1) = MethodsTo(n, m, pos)
  BY <1>2, <1>3, <1>4, <1>5 DEF MethodsTo
<1>8. QED
  BY <1>6, <1>7 DEF MakersTo

LEMMA OwnName ==
  ASSUME Base, pos <= Len(module), Separate
  PROVE  LET n == Cur.name
         IN  /\ n \in Names
             /\ Cur.op # "impl" =>
                  /\ pos \in Defs(n) /\ DefsTo(n, pos) = {} /\ DefsTo(n, pos + 1) = {pos}
                  /\ ImplsTo(n, pos + 1) = ImplsTo(n, pos)
                  /\ \A m \in Names : MethodsTo(n, m, pos + 1) = MethodsTo(n, m, pos)
             /\ Cur.op = "impl" =>
                  /\ pos \in Impls(n)
                  /\ DefsTo(n, pos + 1) = DefsTo(n, pos)
                  /\ ImplsTo(n, pos + 1) = ImplsTo(n, pos) \cup {pos}
                  /\ \A m \in Names :
                       MethodsTo(n, m, pos + 1) =
                         MethodsTo(n, m, pos) \cup {<<pos, k>> : k \in Named(m)}
<1> DEFINE n == Cur.name
<1>1. pos \in Nat /\ pos \in DOMAIN module /\ Cur = module[pos] /\ DOMAIN module \subseteq Nat /\ n \in Names
  BY CurFacts, ModuleFacts, ItemFacts DEF Base
<1>2. \A i \in Nat : i < pos + 1 <=> i < pos \/ i = pos
  BY <1>1
<1>3. Defs(n) \subseteq Nat /\ Impls(n) \subseteq Nat
  BY <1>1 DEF Defs, Impls
<1>4. \A m \in Names : \A p \in MethodsOf(n, m) : p[1] \in Impls(n)
  BY DEF MethodsOf
<1>5. ASSUME Cur.op # "impl"
      PROVE  /\ pos \in Defs(n) /\ DefsTo(n, pos) = {} /\ DefsTo(n, pos + 1) = {pos}
             /\ ImplsTo(n, pos + 1) = ImplsTo(n, pos)
             /\ \A m \in Names : MethodsTo(n, m, pos + 1) = MethodsTo(n, m, pos)
  <2>1. pos \in Defs(n) /\ pos \notin Impls(n)
    BY <1>1, <1>5 DEF Defs, Impls
  <2>2. \A i \in Defs(n) : i = pos
    BY <1>1, <2>1, OneDefinition DEF Base
  <2>3. DefsTo(n, pos) = {} /\ DefsTo(n, pos + 1) = {pos}
    <3>1. Defs(n) = {pos}
      BY <2>1, <2>2
    <3>2. ~(pos < pos) /\ pos < pos + 1
      BY <1>1
    <3>3. QED
      BY <3>1, <3>2 DEF DefsTo
  <2>4. ImplsTo(n, pos + 1) = ImplsTo(n, pos)
    BY <1>2, <1>3, <2>1 DEF ImplsTo
  <2>5. \A m \in Names : MethodsTo(n, m, pos + 1) = MethodsTo(n, m, pos)
    BY <1>2, <1>3, <1>4, <2>1 DEF MethodsTo
  <2>6. QED
    BY <2>1, <2>3, <2>4, <2>5
<1>6. ASSUME Cur.op = "impl"
      PROVE  /\ pos \in Impls(n)
             /\ DefsTo(n, pos + 1) = DefsTo(n, pos)
             /\ ImplsTo(n, pos + 1) = ImplsTo(n, pos) \cup {pos}
             /\ \A m \in Names :
                  MethodsTo(n, m, pos + 1) =
                    MethodsTo(n, m, pos) \cup {<<pos, k>> : k \in Named(m)}
  <2>1. pos \notin Defs(n) /\ pos \in Impls(n)
    BY <1>1, <1>6 DEF Defs, Impls
  <2>2. DefsTo(n, pos + 1) = DefsTo(n, pos)
    BY <1>2, <1>3, <2>1 DEF DefsTo
  <2>3. ImplsTo(n, pos + 1) = ImplsTo(n, pos) \cup {pos}
    BY <1>1, <1>2, <1>3, <2>1 DEF ImplsTo
  <2>4. ASSUME NEW m \in Names
        PROVE  MethodsTo(n, m, pos + 1) = MethodsTo(n, m, pos) \cup {<<pos, k>> : k \in Named(m)}
    <3>1. \A p \in MethodsOf(n, m) : p[1] < pos + 1 <=> p[1] < pos \/ p[1] = pos
      BY <1>2, <1>3, <1>4
    <3>2. ASSUME NEW p PROVE (p \in MethodsOf(n, m) /\ p[1] = pos) <=> \E k \in Named(m) : p = <<pos, k>>
      <4>1. ASSUME p \in MethodsOf(n, m), p[1] = pos
            PROVE  \E k \in Named(m) : p = <<pos, k>>
        <5>1. p \in Fns /\ FnAt(p).name = m
          BY <4>1 DEF MethodsOf
        <5>2. p = <<p[1], p[2]>> /\ p[2] \in DOMAIN module[p[1]].fns
          BY <5>1, FnsFacts DEF Base
        <5>3. p[2] \in Named(m) /\ p = <<pos, p[2]>>
          BY <1>1, <4>1, <5>1, <5>2 DEF Named, FnAt
        <5>4. QED
          BY <5>3
      <4>2. ASSUME NEW k \in Named(m), p = <<pos, k>>
            PROVE  p \in MethodsOf(n, m) /\ p[1] = pos
        <5>1. k \in DOMAIN module[pos].fns /\ module[pos].fns[k].name = m
          BY <1>1 DEF Named
        <5>2. p \in Fns
          BY <1>1, <4>2, <5>1 DEF Fns
        <5>3. QED
          BY <2>1, <4>2, <5>1, <5>2 DEF MethodsOf, FnAt
      <4>3. QED
        BY <4>1, <4>2
    <3>3. ~(pos < pos) /\ \A p : p[1] = pos => ~(p[1] < pos)
      BY <1>1
    <3>4. \A p : p \in MethodsTo(n, m, pos + 1) <=>
                   p \in MethodsTo(n, m, pos) \/ (p \in MethodsOf(n, m) /\ p[1] = pos)
      BY <3>1 DEF MethodsTo
    <3>5. \A p : p \in {<<pos, k>> : k \in Named(m)} <=> \E k \in Named(m) : p = <<pos, k>>
      OBVIOUS
    <3>6. QED
      BY <3>2, <3>4, <3>5
  <2>5. QED
    BY <2>1, <2>2, <2>3, <2>4
<1>7. QED
  BY <1>1, <1>5, <1>6

LEMMA NoImplsNoMethods ==
  ASSUME NEW n, NEW m, NEW q, ImplsTo(n, q) = {}
  PROVE  MethodsTo(n, m, q) = {}
BY DEF MethodsTo, MethodsOf, ImplsTo

(* No impl of a name that is not a struct's. *)
LEMMA OnlyStructs ==
  ASSUME Base, pos <= Len(module), Separate, Cur.op \notin {"impl", "struct"}
  PROVE  \A q : ImplsTo(Cur.name, q) = {}
BY OwnName, SeparateFacts, CurFacts DEF ImplsTo

-----------------------------------------------------------------------------
(* The table after one more item. *)
LEMMA OthersTold ==
  ASSUME Base, pos <= Len(module), AllTold(table, pos), NEW t,
         \A n \in Names : n # Cur.name => t[n] = table[n],
         NoStatic(Cur.name) => Tells(Cur.name, t[Cur.name], pos + 1)
  PROVE  AllTold(t, pos + 1)
<1>1. ASSUME NEW n \in Names, NoStatic(n)
      PROVE  Tells(n, t[n], pos + 1)
  <2>1. CASE n = Cur.name
    BY <1>1, <2>1
  <2>2. CASE n # Cur.name
    <3>1. t[n] = table[n] /\ Tells(n, table[n], pos)
      BY <1>1, <2>2 DEF AllTold
    <3>2. QED
      BY <1>1, <2>2, <3>1, OtherNames DEF Tells
  <2>3. QED
    BY <2>1, <2>2
<1>2. QED
  BY <1>1 DEF AllTold

(* A definition: the first, of a name nothing but impls have used. *)
LEMMA BeforeDefinition ==
  ASSUME Base, pos <= Len(module), Separate, AllTold(table, pos),
         Cur.op \notin {"impl", "static"}
  PROVE  LET n == Cur.name
         IN  /\ n \in Names /\ n # Str /\ Cur.op \in {"struct", "enum", "alias", "trait", "fn"}
             /\ Tells(n, table[n], pos) /\ DefsTo(n, pos) = {}
             /\ table[n].kind = IF MakersTo(n, pos) # {} THEN "struct" ELSE "none"
<1> DEFINE n == Cur.name
<1>1. n \in Names /\ pos \in Defs(n) /\ DefsTo(n, pos) = {}
  BY OwnName
<1>2. n # Str
  BY <1>1, SeparateFacts
<1>3. NoStatic(n)
  <2>1. \A i \in Defs(n) : i = pos
    BY <1>1, OneDefinition DEF Base
  <2>2. QED
    BY <2>1, CurFacts DEF NoStatic
<1>4. Tells(n, table[n], pos)
  BY <1>1, <1>3 DEF AllTold
<1>5. table[n].kind = IF MakersTo(n, pos) # {} THEN "struct" ELSE "none"
  BY <1>1, <1>2, <1>4 DEF Tells
<1>6. Cur.op \in {"struct", "enum", "alias", "trait", "fn"}
  BY CurFacts, ItemFacts
<1>7. QED
  BY <1>1, <1>2, <1>4, <1>5, <1>6

(* What a symbol that item pos defines must be. *)
LEMMA Defining ==
  ASSUME Base, pos <= Len(module), Separate, AllTold(table, pos),
         Cur.op \notin {"impl", "static"}, NEW s,
         s.kind = Kind(Cur.op), s.item = pos, s.fielded = (Cur.op = "struct"),
         s.methods = table[Cur.name].methods, s.traits = table[Cur.name].traits
  PROVE  Tells(Cur.name, s, pos + 1)
<1> DEFINE n == Cur.name
<1>1. /\ n # Str /\ Tells(n, table[n], pos)
  BY BeforeDefinition
<1>2. /\ DefsTo(n, pos + 1) = {pos}
      /\ ImplsTo(n, pos + 1) = ImplsTo(n, pos)
      /\ \A m \in Names : MethodsTo(n, m, pos + 1) = MethodsTo(n, m, pos)
  BY OwnName
<1>3. Cur = module[pos]
  BY CurFacts
<1> HIDE DEF n
<1>4. /\ \A m \in Names : s.methods[m].fn \in
            IF MethodsTo(n, m, pos) = {} THEN {NoFn} ELSE MethodsTo(n, m, pos)
      /\ s.traits = {module[i].of : i \in ImplsTo(n, pos)} \ {NoName}
  BY <1>1 DEF Tells, n
<1>5. s.fielded <=> n = Str \/ \E i \in DefsTo(n, pos + 1) : module[i].op = "struct"
  BY <1>1, <1>2, <1>3
<1>6. \A i \in DefsTo(n, pos + 1) : s.kind = Kind(module[i].op) /\ s.item = i
  BY <1>2, <1>3
<1>7. DefsTo(n, pos + 1) # {}
  BY <1>2
<1>8. Tells(n, s, pos + 1)
  BY <1>2, <1>4, <1>5, <1>6, <1>7 DEF Tells
<1>9. QED
  BY <1>8 DEF n

(* What nothing has made a symbol of has only impls that say nothing: one   *)
(* of a trait would be early.                                              *)
LEMMA NothingSaid ==
  ASSUME Base, NEW n \in Names, n # Str, NEW q \in Nat, NoneEarly(q),
         DefsTo(n, q) = {}, MakersTo(n, q) = {}
  PROVE  /\ {module[i].of : i \in ImplsTo(n, q)} \ {NoName} = {}
         /\ \A m \in Names : MethodsTo(n, m, q) = {}
<1>1. DOMAIN module \subseteq Nat
  BY ModuleFacts DEF Base
<1>2. ASSUME NEW i \in ImplsTo(n, q), module[i].of # NoName PROVE FALSE
  <2>1. /\ i \in DOMAIN module /\ i < q /\ module[i].op = "impl" /\ module[i].name = n
        /\ module[i].fns = <<>>
    BY DEF ImplsTo, Impls, MakersTo
  <2>2. ASSUME NEW j \in 1..(i - 1), module[j].name = n, Makes(j) PROVE FALSE
    <3>1. j \in DOMAIN module /\ j < q
      BY <1>1, <2>1, ModuleFacts DEF Base
    <3>2. CASE module[j].op = "struct"
      BY <2>2, <3>1, <3>2 DEF DefsTo, Defs
    <3>3. CASE module[j].op = "impl" /\ module[j].fns # <<>>
      BY <2>2, <3>1, <3>3 DEF MakersTo, ImplsTo, Impls
    <3>4. QED
      BY <2>2, <3>2, <3>3 DEF Makes
  <2>3. Early(i)
    BY <1>2, <2>1, <2>2 DEF Early
  <2>4. QED
    BY <2>1, <2>3 DEF NoneEarly
<1>3. ASSUME NEW m \in Names, NEW p \in MethodsTo(n, m, q) PROVE FALSE
  <2>1. p[1] \in ImplsTo(n, q) /\ p[2] \in DOMAIN module[p[1]].fns
    BY FnsFacts DEF MethodsTo, MethodsOf, ImplsTo, Base
  <2>2. module[p[1]].fns = <<>>
    BY <2>1 DEF MakersTo
  <2>3. QED
    BY <2>1, <2>2
<1>4. QED
  BY <1>2, <1>3

(* A symbol made anew has what no impl has added. *)
LEMMA NothingAdded ==
  ASSUME Base, NEW n \in Names, n # Str, NEW q \in Nat, Tells(n, table[n], q), NoneEarly(q),
         DefsTo(n, q) = {}, MakersTo(n, q) = {}
  PROVE  table[n].traits = {} /\ \A m \in Names : table[n].methods[m].fn = NoFn
BY NothingSaid DEF Tells

LEMMA NothingAddedMethods ==
  ASSUME Base, NEW n \in Names, n # Str, NEW q \in Nat, Tells(n, table[n], q), NoneEarly(q),
         DefsTo(n, q) = {}, MakersTo(n, q) = {}
  PROVE  table[n].methods = NoMethods /\ table[n].traits = {}
<1>1. table[n] \in SymbolType /\ Sound(n, table[n])
  BY DEF Base, Typed, TypeOK, Agreeing
<1>2. table[n].methods \in [Names -> [fn : (0..MaxItems) \X Nat, llvm : LlvmNames \cup {NoName}]]
  BY <1>1 DEF SymbolType
<1>3. ASSUME NEW m \in Names
      PROVE  table[n].methods[m] = NoMethod
  <2>1. table[n].methods[m].fn = NoFn
    BY NothingAdded
  <2>2. NoFn \notin Fns
    <3>1. ASSUME NoFn \in Fns PROVE FALSE
      <4>1. NoFn[1] \in 1..MaxItems
        BY <3>1, FnsFacts DEF Base
      <4>2. QED
        BY <4>1 DEF NoFn
    <3>2. QED
      BY <3>1
  <2>3. NoFn \notin MethodsOf(n, m)
    BY <2>2 DEF MethodsOf
  <2>4. QED
    BY <1>1, <2>1, <2>3 DEF Sound
<1>4. table[n].methods = NoMethods
  BY <1>2, <1>3, NoMethodFacts
<1>5. QED
  BY <1>4, NothingAdded

LEMMA StructTold ==
  ASSUME Base, Separate, NoneEarly(pos), AllTold(table, pos), CollectStruct
  PROVE  \E t : Collected(t) /\ AllTold(t, pos + 1)
<1> DEFINE n == Cur.name
<1>1. phase = "collect" /\ pos <= Len(module) /\ Cur.op = "struct"
  BY DEF CollectStruct, Collecting
<1>2. Cur.of # n
  <2>1. pos \in DOMAIN module /\ Cur = module[pos]
    BY <1>1, CurFacts
  <2>2. QED
    BY <1>1, <2>1 DEF Separate
<1>3. /\ n \in Names /\ n # Str /\ Tells(n, table[n], pos) /\ DefsTo(n, pos) = {}
      /\ table[n].kind = IF MakersTo(n, pos) # {} THEN "struct" ELSE "none"
  BY <1>1, BeforeDefinition
<1>4. table \in [Names -> SymbolType]
  BY DEF Base, Typed, TypeOK
<1>5. CASE table[n].kind = "struct"
  <2> DEFINE t == [table EXCEPT ![n] = Resolve(@)]
  <2>1. Collected(t)
    BY <1>2, <1>5 DEF CollectStruct
  <2>2. \A m \in Names : t[m] = IF m = n THEN Resolve(table[m]) ELSE table[m]
    BY <1>1, <1>5, ResolveTable
  <2>3. /\ t[n].kind = "struct" /\ t[n].item = pos /\ t[n].fielded = TRUE
        /\ t[n].methods = table[n].methods /\ t[n].traits = table[n].traits
    BY <1>1, <1>3, <1>4, <1>5, <2>2, ResolveFacts
  <2> HIDE DEF t
  <2>4. Tells(n, t[n], pos + 1)
    BY <1>1, <2>3, Defining DEF Kind
  <2>5. AllTold(t, pos + 1)
    BY <1>1, <2>2, <2>4, OthersTold
  <2>6. QED
    BY <2>1, <2>5
<1>6. CASE table[n].kind = "none"
  <2> DEFINE t == [table EXCEPT ![n] = Symbol("struct", pos, NoName, TRUE)]
  <2>1. Collected(t)
    BY <1>2, <1>6 DEF CollectStruct
  <2>2. "struct" \in Kinds /\ "struct" # "function" /\ pos \in 0..MaxItems
    BY <1>1, CurFacts DEF Kinds
  <2>3. \A m \in Names : t[m] = IF m = n THEN Symbol("struct", pos, NoName, TRUE) ELSE table[m]
    BY <1>4
  <2>4. table[n].methods = NoMethods /\ table[n].traits = {}
    <3>1. pos \in Nat /\ MakersTo(n, pos) = {}
      BY <1>1, <1>3, <1>6, CurFacts
    <3>2. QED
      BY <1>3, <3>1, NothingAddedMethods
  <2>5. /\ t[n].kind = "struct" /\ t[n].item = pos /\ t[n].fielded = TRUE
        /\ t[n].methods = NoMethods /\ t[n].traits = {}
    BY <1>3, <2>3 DEF Symbol
  <2> HIDE DEF t
  <2>6. Tells(n, t[n], pos + 1)
    BY <1>1, <2>4, <2>5, Defining DEF Kind
  <2>7. AllTold(t, pos + 1)
    BY <1>1, <2>3, <2>6, OthersTold
  <2>8. QED
    BY <2>1, <2>7
<1>7. QED
  BY <1>3, <1>5, <1>6

LEMMA NamedTold ==
  ASSUME Base, Separate, NoneEarly(pos), AllTold(table, pos), CollectNamed
  PROVE  \E t : Collected(t) /\ AllTold(t, pos + 1)
<1> DEFINE n == Cur.name
           kind == IF Cur.op = "fn" THEN "function" ELSE Cur.op
           dest == IF Cur.op = "alias" THEN Cur.of ELSE NoName
           t == [table EXCEPT ![n] = Symbol(kind, pos, dest, FALSE)]
<1>1. phase = "collect" /\ pos <= Len(module) /\ Cur.op \in {"enum", "alias", "trait", "fn"}
  BY DEF CollectNamed, Collecting
<1>2. /\ n \in Names /\ n # Str /\ Tells(n, table[n], pos) /\ DefsTo(n, pos) = {}
      /\ table[n].kind = IF MakersTo(n, pos) # {} THEN "struct" ELSE "none"
  BY <1>1, BeforeDefinition
<1>3. Collected(t)
  <2>1. ~Defined(table, n)
    BY <1>2 DEF Defined
  <2>2. QED
    BY <2>1 DEF CollectNamed
<1>4. kind \in Kinds /\ (kind = "function" => Cur.op = "fn") /\ kind = Kind(Cur.op)
  BY <1>1 DEF Kinds, Kind
<1>5. dest \in Names \cup {NoName, Ext} /\ pos \in 0..MaxItems
  BY <1>1, CurFacts, ItemFacts
<1> HIDE DEF kind, dest
<1>6. \A m \in Names : t[m] = IF m = n THEN Symbol(kind, pos, dest, FALSE) ELSE table[m]
  BY DEF Base, Typed, TypeOK
<1>7. MakersTo(n, pos) = {} /\ pos \in Nat
  BY <1>1, OnlyStructs, CurFacts DEF MakersTo
<1>8. table[n].methods = NoMethods /\ table[n].traits = {}
  BY <1>2, <1>7, NothingAddedMethods
<1>9. /\ t[n].kind = kind /\ t[n].item = pos /\ t[n].fielded = FALSE
      /\ t[n].methods = NoMethods /\ t[n].traits = {}
  BY <1>2, <1>6 DEF Symbol
<1> HIDE DEF t
<1>10. Tells(n, t[n], pos + 1)
  BY <1>1, <1>4, <1>8, <1>9, Defining
<1>11. AllTold(t, pos + 1)
  BY <1>1, <1>6, <1>10, OthersTold
<1>12. QED
  BY <1>3, <1>11

LEMMA NothingTold ==
  ASSUME Base, Separate, AllTold(table, pos), CollectNothing
  PROVE  \E t : Collected(t) /\ AllTold(t, pos + 1)
<1>1. pos <= Len(module) /\ Cur.op = "static" /\ Collected(table)
  BY DEF CollectNothing, Collecting
<1>2. ~NoStatic(Cur.name)
  BY <1>1, OwnName, CurFacts DEF NoStatic
<1>3. AllTold(table, pos + 1)
  BY <1>1, <1>2, OthersTold
<1>4. QED
  BY <1>1, <1>3

(* A name is behind at most one alias when that alias' type is no alias. *)
Hop(t, m) == IF m \in Names /\ t[m].kind = "alias" THEN t[m].dest ELSE m
LEMMA TargetOnce ==
  ASSUME NEW t, NEW n, NEW d, d = Hop(t, n), Hop(t, d) = d
  PROVE  Target(t, n) = d
<1> DEFINE l == Cardinality(Names)
           f == [k \in 0..l |-> IF k = 0 THEN n ELSE d]
<1>1. l \in Nat /\ l # 0
  <2>1. IsFiniteSet(Names) /\ Names # {}
    BY SymbolAssumption DEF SymbolAssumption
  <2>2. QED
    BY <2>1, FS_CardinalityType, FS_EmptySet
<1> HIDE DEF l
<1>2. f = [k \in 0..l |-> IF k = 0 THEN n ELSE Hop(t, f[k - 1])]
  <2>1. \A k \in 0..l : k # 0 => k - 1 \in 0..l
    BY <1>1
  <2>2. \A k \in 0..l : k # 0 => Hop(t, f[k - 1]) = d
    BY <2>1
  <2>3. QED
    BY <2>2
<1>3. PICK g : g = [k \in 0..l |-> IF k = 0 THEN n ELSE Hop(t, g[k - 1])] /\ Target(t, n) = g[l]
  BY <1>2 DEF Target, Hop, l
<1> DEFINE B == {k \in 0..l : k # 0 /\ g[k] # d}
<1>4. B = {}
  <2>1. SUFFICES ASSUME B # {} PROVE FALSE
    OBVIOUS
  <2>2. PICK k \in B : \A j \in B : k <= j
    <3>1. B \subseteq Nat
      OBVIOUS
    <3>2. QED
      BY <2>1, <3>1, Least
  <2>3. k \in 0..l /\ k # 0 /\ g[k] # d
    OBVIOUS
  <2>4. k - 1 \in 0..l /\ ~(k <= k - 1)
    BY <1>1, <2>3
  <2>5. g[k] = Hop(t, g[k - 1])
    BY <1>3, <2>3
  <2>6. CASE k - 1 = 0
    <3>1. g[k - 1] = n
      BY <1>3, <2>4, <2>6
    <3>2. QED
      BY <2>3, <2>5, <3>1
  <2>7. CASE k - 1 # 0
    <3>1. g[k - 1] = d
      BY <2>2, <2>4, <2>7
    <3>2. QED
      BY <2>3, <2>5, <3>1
  <2>8. QED
    BY <2>6, <2>7
<1>5. l \in 0..l
  BY <1>1
<1>6. QED
  BY <1>1, <1>3, <1>4, <1>5

LEMMA TargetSelf ==
  ASSUME NEW t, NEW n \in Names, t[n].kind # "alias"
  PROVE  Target(t, n) = n
<1>1. Hop(t, n) = n
  BY DEF Hop
<1>2. QED
  BY <1>1, TargetOnce

(* An impl: its functions and its trait are added to what the name has,    *)
(* unless it names a trait only and nothing has made a symbol of the type. *)
LEMMA BeforeImpl ==
  ASSUME Base, pos <= Len(module), Separate, NoneEarly(pos), AllTold(table, pos), Cur.op = "impl"
  PROVE  LET n == Cur.name
         IN  /\ n \in Names /\ NoStatic(n) /\ Tells(n, table[n], pos)
             /\ table[n].kind \in {"struct", "none"}
             /\ Before.item = table[n].item /\ Before.fielded = table[n].fielded
             /\ Before.traits = table[n].traits /\ Before.methods = table[n].methods
             /\ \A i \in DefsTo(n, pos) : Before.kind = Kind(module[i].op)
<1> DEFINE n == Cur.name
<1>1. n \in Names /\ pos \in Impls(n)
  BY OwnName
<1>2. \A j \in Defs(n) : module[j].op = "struct"
  BY <1>1, SeparateFacts
<1>3. NoStatic(n)
  BY <1>2 DEF NoStatic
<1>4. Tells(n, table[n], pos)
  BY <1>1, <1>3 DEF AllTold
<1>5. \A i \in DefsTo(n, pos) : Kind(module[i].op) = "struct"
  BY <1>2 DEF DefsTo, Kind
<1>6. table[n].kind \in {"struct", "none"}
  BY <1>4, <1>5 DEF Tells
<1>7. Before.kind = "struct"
  BY BeforeFacts
<1>8. CASE table[n].kind = "struct"
  BY <1>1, <1>3, <1>4, <1>5, <1>7, <1>8 DEF Before
<1>9. CASE table[n].kind = "none"
  <2>1. DefsTo(n, pos) = {} /\ MakersTo(n, pos) = {} /\ n # Str /\ pos \in Nat
    BY <1>4, <1>5, <1>9, CurFacts DEF Tells
  <2>2. table[n].item = 0 /\ ~table[n].fielded
    BY <1>4, <2>1 DEF Tells
  <2>3. table[n].methods = NoMethods /\ table[n].traits = {}
    BY <1>1, <1>4, <2>1, NothingAddedMethods
  <2>4. table[n].fielded = FALSE
    <3>1. table[n] \in SymbolType
      BY <1>1 DEF Base, Typed, TypeOK
    <3>2. table[n].fielded \in BOOLEAN
      BY <3>1 DEF SymbolType
    <3>3. QED
      BY <2>2, <3>2
  <2>5. /\ Before.item = 0 /\ Before.fielded = FALSE /\ Before.traits = {} /\ Before.methods = NoMethods
    BY <1>9 DEF Before, Dummy, Symbol
  <2>6. QED
    BY <1>1, <1>3, <1>4, <1>5, <1>6, <1>7, <2>2, <2>3, <2>4, <2>5
<1>10. QED
  BY <1>6, <1>8, <1>9

LEMMA Implementing ==
  ASSUME Base, pos <= Len(module), Separate, NoneEarly(pos), AllTold(table, pos), Cur.op = "impl",
         NEW s, Cur.fns # <<>> \/ table[Cur.name].kind = "struct",
         s.kind = "struct", s.methods = Methods,
         s.item = Before.item, s.fielded = Before.fielded,
         s.traits = Before.traits \cup ({Cur.of} \ {NoName})
  PROVE  Tells(Cur.name, s, pos + 1)
<1> DEFINE n == Cur.name
<1>1. /\ n \in Names /\ Tells(n, table[n], pos)
      /\ Before.item = table[n].item /\ Before.fielded = table[n].fielded
      /\ Before.traits = table[n].traits /\ Before.methods = table[n].methods
      /\ \A i \in DefsTo(n, pos) : Before.kind = Kind(module[i].op)
  BY BeforeImpl
<1>2. /\ DefsTo(n, pos + 1) = DefsTo(n, pos)
      /\ ImplsTo(n, pos + 1) = ImplsTo(n, pos) \cup {pos}
      /\ \A m \in Names :
           MethodsTo(n, m, pos + 1) = MethodsTo(n, m, pos) \cup {<<pos, k>> : k \in Named(m)}
  BY OwnName
<1>3. Cur = module[pos] /\ Before.kind = "struct"
  BY CurFacts, BeforeFacts
<1> HIDE DEF n
<1>4. \A i \in DefsTo(n, pos + 1) : s.kind = Kind(module[i].op) /\ s.item = i
  BY <1>1, <1>2, <1>3 DEF Tells
<1>5. DefsTo(n, pos + 1) = {} => s.item = 0
  BY <1>1, <1>2 DEF Tells
<1>6. DefsTo(n, pos + 1) = {} => n = Str \/ MakersTo(n, pos + 1) # {}
  <2>1. CASE Cur.fns # <<>>
    BY <1>2, <1>3, <2>1 DEF MakersTo
  <2>2. CASE table[n].kind = "struct"
    <3>1. DefsTo(n, pos) = {} => n = Str \/ MakersTo(n, pos) # {}
      BY <1>1, <2>2 DEF Tells
    <3>2. MakersTo(n, pos) \subseteq MakersTo(n, pos + 1)
      BY <1>2 DEF MakersTo
    <3>3. QED
      BY <1>2, <3>1, <3>2
  <2>3. QED
    BY <2>1, <2>2 DEF n
<1>7. s.fielded <=> n = Str \/ \E i \in DefsTo(n, pos + 1) : module[i].op = "struct"
  BY <1>1, <1>2 DEF Tells
<1>8. ASSUME NEW m \in Names
      PROVE  s.methods[m].fn \in
               IF MethodsTo(n, m, pos + 1) = {} THEN {NoFn} ELSE MethodsTo(n, m, pos + 1)
  <2>1. table[n].methods[m].fn \in
          IF MethodsTo(n, m, pos) = {} THEN {NoFn} ELSE MethodsTo(n, m, pos)
    BY <1>1 DEF Tells
  <2>2. MethodsTo(n, m, pos + 1) = MethodsTo(n, m, pos) \cup {<<pos, k>> : k \in Named(m)}
    BY <1>2
  <2>3. CASE Named(m) = {}
    <3>1. Methods[m] = table[n].methods[m]
      BY <1>1, <2>3, MethodsFacts
    <3>2. MethodsTo(n, m, pos + 1) = MethodsTo(n, m, pos)
      BY <2>2, <2>3
    <3>3. QED
      BY <2>1, <3>1, <3>2
  <2>4. CASE Named(m) # {}
    <3>1. PICK k \in Named(m) : Methods[m] = [fn |-> <<pos, k>>, llvm |-> Cur.name \o m]
      BY <2>4, MethodsFacts
    <3>2. <<pos, k>> \in MethodsTo(n, m, pos + 1)
      BY <2>2
    <3>3. Methods[m].fn = <<pos, k>>
      BY <3>1
    <3>4. QED
      BY <3>2, <3>3
  <2>5. QED
    BY <2>3, <2>4
<1>9. s.traits = {module[i].of : i \in ImplsTo(n, pos + 1)} \ {NoName}
  <2>1. {module[i].of : i \in ImplsTo(n, pos + 1)} = {module[i].of : i \in ImplsTo(n, pos)} \cup {Cur.of}
    BY <1>2, <1>3
  <2>2. table[n].traits = {module[i].of : i \in ImplsTo(n, pos)} \ {NoName}
    BY <1>1 DEF Tells
  <2>3. QED
    BY <1>1, <2>1, <2>2
<1>10. Tells(n, s, pos + 1)
  BY <1>4, <1>5, <1>6, <1>7, <1>8, <1>9 DEF Tells
<1>11. QED
  BY <1>10 DEF n

(* A trait the name has not, as one impl of it there is. *)
LEMMA NewTrait ==
  ASSUME Base, pos <= Len(module), Separate, Cur.op = "impl", Cur.of # NoName,
         Tells(Cur.name, table[Cur.name], pos)
  PROVE  Cur.of \notin table[Cur.name].traits
<1> DEFINE n == Cur.name
<1>1. n \in Names /\ pos \in Impls(n) /\ Cur = module[pos] /\ pos \in Nat
  BY OwnName, CurFacts
<1>2. SUFFICES ASSUME Cur.of \in table[n].traits PROVE FALSE
  OBVIOUS
<1>3. Cur.of \in {module[i].of : i \in ImplsTo(n, pos)}
  BY <1>2 DEF Tells
<1>4. PICK i \in ImplsTo(n, pos) : module[i].of = Cur.of
  BY <1>3
<1>5. i \in Impls(n) /\ i < pos
  BY DEF ImplsTo
<1>6. i = pos
  BY <1>1, <1>4, <1>5, SeparateFacts
<1>7. QED
  BY <1>1, <1>5, <1>6

LEMMA ImplTold ==
  ASSUME Base, Separate, NoneEarly(pos), AllTold(table, pos), CollectImpl, Cur.fns # <<>>
  PROVE  \E t : Collected(t) /\ AllTold(t, pos + 1)
<1> DEFINE n == Cur.name
<1>1. phase = "collect" /\ pos <= Len(module) /\ Cur.op = "impl"
  BY DEF CollectImpl, Collecting
<1>2. /\ n \in Names /\ Tells(n, table[n], pos) /\ table[n].kind \in {"struct", "none"}
      /\ Before.traits = table[n].traits
  BY <1>1, BeforeImpl
<1>3. ~Defined(table, n)
  BY <1>2 DEF Defined
<1>6. /\ Impled \in [Names -> SymbolType] /\ \A m \in Names : Sound(m, Impled[m])
      /\ \A m \in Names : m # n => Impled[m] = table[m]
      /\ Impled[n].kind = "struct" /\ Impled[n].methods = Methods
      /\ Impled[n].item = Before.item /\ Impled[n].fielded = Before.fielded
      /\ Impled[n].traits = Before.traits
  BY <1>1, ImpledFacts
<1>7. CASE Cur.of = NoName
  <2>1. Collected(Impled)
    BY <1>3, <1>7 DEF CollectImpl
  <2>2. Tells(n, Impled[n], pos + 1)
    BY <1>1, <1>6, <1>7, Implementing
  <2>3. AllTold(Impled, pos + 1)
    BY <1>1, <1>6, <2>2, OthersTold
  <2>4. QED
    BY <2>1, <2>3
<1>8. CASE Cur.of # NoName
  <2>1. Target(Impled, n) = n
    BY <1>2, <1>6, TargetSelf
  <2>2. StructOf(Impled, n) /\ ~Endless(Impled, n)
    BY <1>2, <1>6, <2>1 DEF StructOf, Endless, KindOf
  <2>3. Cur.of \notin Impled[n].traits
    BY <1>1, <1>2, <1>6, <1>8, NewTrait
  <2> DEFINE t == [Impled EXCEPT ![n].traits = @ \cup {Cur.of}]
  <2>4. Collected(t)
    BY <1>3, <1>8, <2>1, <2>2, <2>3 DEF CollectImpl
  <2>5. Cur.of \in Names
    BY <1>1, <1>8, CurFacts, ItemFacts
  <2>6. \A m \in Names : m # n => t[m] = table[m]
    BY <1>6
  <2>7. /\ t[n].kind = Impled[n].kind /\ t[n].item = Impled[n].item /\ t[n].fielded = Impled[n].fielded
        /\ t[n].methods = Impled[n].methods /\ t[n].traits = Impled[n].traits \cup {Cur.of}
    BY <1>2, <1>6, <2>5, TraitFacts
  <2> HIDE DEF t
  <2>8. {Cur.of} \ {NoName} = {Cur.of}
    BY <1>8
  <2>9. Tells(n, t[n], pos + 1)
    BY <1>1, <1>6, <2>7, <2>8, Implementing
  <2>10. AllTold(t, pos + 1)
    BY <1>1, <2>6, <2>9, OthersTold
  <2>11. QED
    BY <2>4, <2>10
<1>9. QED
  BY <1>7, <1>8

(* An impl that has no functions adds its trait to what has been made, and *)
(* without a trait it says nothing.                                        *)
LEMMA BareImplTold ==
  ASSUME Base, Separate, NoneEarly(pos), AllTold(table, pos), CollectImpl, Cur.fns = <<>>,
         Cur.of = NoName \/ table[Cur.name].kind = "struct"
  PROVE  \E t : Collected(t) /\ AllTold(t, pos + 1)
<1> DEFINE n == Cur.name
<1>1. phase = "collect" /\ pos <= Len(module) /\ Cur.op = "impl" /\ Impled = table
  BY DEF CollectImpl, Collecting, Impled
<1>2. /\ n \in Names /\ Tells(n, table[n], pos)
      /\ Before.item = table[n].item /\ Before.fielded = table[n].fielded
      /\ Before.traits = table[n].traits /\ Before.methods = table[n].methods
  BY <1>1, BeforeImpl
<1>3. table \in [Names -> SymbolType] /\ \A m \in Names : Sound(m, table[m])
  BY DEF Base, Typed, TypeOK, Agreeing
<1>4. \A m \in Names : Named(m) = {}
  BY DEF Named
<1>5. CASE Cur.of = NoName
  <2>1. Collected(table)
    BY <1>1, <1>5 DEF CollectImpl
  <2>2. /\ DefsTo(n, pos + 1) = DefsTo(n, pos)
        /\ ImplsTo(n, pos + 1) = ImplsTo(n, pos) \cup {pos}
        /\ \A m \in Names :
             MethodsTo(n, m, pos + 1) = MethodsTo(n, m, pos) \cup {<<pos, k>> : k \in Named(m)}
    BY <1>1, OwnName
  <2>3. Cur = module[pos]
    BY <1>1, CurFacts
  <2>4. MakersTo(n, pos + 1) = MakersTo(n, pos)
    BY <2>2, <2>3 DEF MakersTo
  <2>5. \A m \in Names : MethodsTo(n, m, pos + 1) = MethodsTo(n, m, pos)
    BY <1>4, <2>2
  <2> HIDE DEF n
  <2>6. {module[i].of : i \in ImplsTo(n, pos + 1)} \ {NoName}
          = {module[i].of : i \in ImplsTo(n, pos)} \ {NoName}
    BY <1>5, <2>2, <2>3
  <2>7. Tells(n, table[n], pos + 1)
    BY <1>2, <2>2, <2>4, <2>5, <2>6 DEF Tells
  <2>8. AllTold(table, pos + 1)
    BY <1>1, <2>7, OthersTold DEF n
  <2>9. QED
    BY <2>1, <2>8
<1>6. CASE Cur.of # NoName
  <2>1. table[n].kind = "struct"
    BY <1>6
  <2>2. Target(table, n) = n
    BY <1>2, <2>1, TargetSelf
  <2>3. StructOf(table, n) /\ ~Endless(table, n)
    BY <1>2, <2>1, <2>2 DEF StructOf, Endless, KindOf
  <2>4. Cur.of \notin table[n].traits
    BY <1>1, <1>2, <1>6, NewTrait
  <2> DEFINE t == [table EXCEPT ![n].traits = @ \cup {Cur.of}]
  <2>5. Collected(t)
    BY <1>1, <1>6, <2>2, <2>3, <2>4 DEF CollectImpl
  <2>6. Cur.of \in Names
    BY <1>1, <1>6, CurFacts, ItemFacts
  <2>7. \A m \in Names : m # n => t[m] = table[m]
    BY <1>3
  <2>8. /\ t[n].kind = table[n].kind /\ t[n].item = table[n].item /\ t[n].fielded = table[n].fielded
        /\ t[n].methods = table[n].methods /\ t[n].traits = table[n].traits \cup {Cur.of}
    BY <1>2, <1>3, <2>6, TraitFacts
  <2> HIDE DEF t
  <2>9. {Cur.of} \ {NoName} = {Cur.of}
    BY <1>6
  <2>10. Methods = table[n].methods
    <3>1. /\ Methods \in [Names -> [fn : (0..MaxItems) \X Nat, llvm : LlvmNames \cup {NoName}]]
          /\ \A m \in Names : Methods[m] = Before.methods[m]
      BY <1>1, <1>4, MethodsFacts
    <3>2. table[n] \in SymbolType
      BY <1>2, <1>3
    <3>3. table[n].methods \in [Names -> [fn : (0..MaxItems) \X Nat, llvm : LlvmNames \cup {NoName}]]
      BY <3>2 DEF SymbolType
    <3>4. \A m \in Names : Methods[m] = table[n].methods[m]
      BY <1>2, <3>1
    <3> DEFINE new == Methods
               old == table[n].methods
    <3>5. /\ new = [m \in Names |-> new[m]] /\ old = [m \in Names |-> old[m]]
          /\ \A m \in Names : new[m] = old[m]
      BY <3>1, <3>3, <3>4
    <3> HIDE DEF new, old
    <3>6. new = old
      BY <3>5
    <3>7. QED
      BY <3>6 DEF new, old
  <2>11. Tells(n, t[n], pos + 1)
    BY <1>1, <1>2, <2>1, <2>8, <2>9, <2>10, Implementing
  <2>12. AllTold(t, pos + 1)
    BY <1>1, <2>7, <2>11, OthersTold
  <2>13. QED
    BY <2>5, <2>12
<1>7. QED
  BY <1>5, <1>6

(* Whether the impl is early is whether its name has no symbol yet. *)
LEMMA EarlyNow ==
  ASSUME Base, pos <= Len(module), Separate, NoneEarly(pos), AllTold(table, pos), Cur.op = "impl",
         Cur.fns = <<>>, Cur.of # NoName
  PROVE  Early(pos) <=> table[Cur.name].kind = "none"
<1> DEFINE n == Cur.name
<1>1. /\ n \in Names /\ Tells(n, table[n], pos) /\ table[n].kind \in {"struct", "none"}
  BY BeforeImpl
<1>2. pos \in Nat /\ Cur = module[pos] /\ pos \in Impls(n) /\ DOMAIN module = 1..Len(module)
  BY CurFacts, OwnName, ModuleFacts DEF Base
<1>3. \A j \in Defs(n) : module[j].op = "struct"
  BY <1>1, <1>2, SeparateFacts
<1>4. table[n].kind = "none" <=> n # Str /\ DefsTo(n, pos) = {} /\ MakersTo(n, pos) = {}
  <2>1. \A j \in DefsTo(n, pos) : table[n].kind = "struct"
    BY <1>1, <1>3 DEF Tells, DefsTo, Kind
  <2>2. DefsTo(n, pos) = {} =>
          table[n].kind = IF n = Str \/ MakersTo(n, pos) # {} THEN "struct" ELSE "none"
    BY <1>1 DEF Tells
  <2>3. QED
    BY <2>1, <2>2
<1>5. DefsTo(n, pos) = {} /\ MakersTo(n, pos) = {} <=>
        \A j \in 1..(pos - 1) : module[j].name = n => ~Makes(j)
  <2>1. ASSUME NEW j \in 1..(pos - 1), module[j].name = n, Makes(j)
        PROVE  j \in DefsTo(n, pos) \cup MakersTo(n, pos)
    <3>1. j \in DOMAIN module /\ j < pos
      BY <1>2, ModuleFacts DEF Base
    <3>2. CASE module[j].op = "struct"
      BY <2>1, <3>1, <3>2 DEF DefsTo, Defs
    <3>3. CASE module[j].op = "impl" /\ module[j].fns # <<>>
      BY <2>1, <3>1, <3>3 DEF MakersTo, ImplsTo, Impls
    <3>4. QED
      BY <2>1, <3>2, <3>3 DEF Makes
  <2>2. ASSUME NEW j \in DefsTo(n, pos) \cup MakersTo(n, pos)
        PROVE  j \in 1..(pos - 1) /\ module[j].name = n /\ Makes(j)
    <3>1. j \in DOMAIN module /\ j < pos /\ module[j].name = n
      BY DEF DefsTo, Defs, MakersTo, ImplsTo, Impls
    <3>2. Makes(j)
      BY <1>3 DEF DefsTo, MakersTo, ImplsTo, Impls, Makes
    <3>3. j \in 1..(pos - 1)
      BY <1>2, <3>1, ModuleFacts DEF Base
    <3>4. QED
      BY <3>1, <3>2, <3>3
  <2>3. QED
    BY <2>1, <2>2
<1>6. Early(pos) <=> n # Str /\ \A j \in 1..(pos - 1) : module[j].name = n => ~Makes(j)
  BY <1>2 DEF Early
<1>7. QED
  BY <1>4, <1>5, <1>6

(* An item that is not early is entered, and one that is is refused. *)
LEMMA ItemTold ==
  ASSUME Base, Separate, NoneEarly(pos), AllTold(table, pos),
         CollectStruct \/ CollectNamed \/ CollectNothing \/ CollectImpl
  PROVE  \/ Stop("refused") /\ Early(pos)
         \/ ~Early(pos) /\ \E t : Collected(t) /\ AllTold(t, pos + 1)
<1>1. pos <= Len(module) /\ Cur = module[pos]
  BY CurFacts DEF CollectStruct, CollectNamed, CollectNothing, CollectImpl, Collecting
<1>2. CASE ~CollectImpl
  <2>1. Cur.op # "impl"
    BY <1>2 DEF CollectStruct, CollectNamed, CollectNothing, Collecting
  <2>2. ~Early(pos)
    BY <1>1, <2>1 DEF Early
  <2>3. QED
    BY <1>2, <2>2, StructTold, NamedTold, NothingTold
<1>3. CASE CollectImpl
  <2>1. Cur.op = "impl"
    BY <1>3 DEF CollectImpl, Collecting
  <2>2. CASE Cur.fns # <<>>
    <3>1. ~Early(pos)
      BY <1>1, <2>2 DEF Early
    <3>2. QED
      BY <1>3, <2>2, <3>1, ImplTold
  <2>3. CASE Cur.fns = <<>> /\ Cur.of = NoName
    <3>1. ~Early(pos)
      BY <1>1, <2>3 DEF Early
    <3>2. QED
      BY <1>3, <2>3, <3>1, BareImplTold
  <2>4. CASE Cur.fns = <<>> /\ Cur.of # NoName /\ table[Cur.name].kind # "none"
    <3>1. ~Early(pos)
      BY <1>1, <2>1, <2>4, EarlyNow
    <3>2. table[Cur.name].kind = "struct"
      BY <1>1, <2>1, <2>4, BeforeImpl
    <3>3. QED
      BY <1>3, <2>4, <3>1, <3>2, BareImplTold
  <2>5. CASE Cur.fns = <<>> /\ Cur.of # NoName /\ table[Cur.name].kind = "none"
    <3>1. Early(pos)
      BY <1>1, <2>1, <2>5, EarlyNow
    <3>2. Cur.name \in Names /\ Impled = table
      BY <1>1, <2>1, <2>5, BeforeImpl DEF Impled
    <3>3. Target(table, Cur.name) = Cur.name
      BY <2>5, <3>2, TargetSelf
    <3>4. ~Endless(table, Cur.name) /\ ~StructOf(table, Cur.name)
      BY <2>5, <3>2, <3>3 DEF Endless, StructOf, KindOf
    <3>5. Stop("refused")
      BY <1>3, <2>5, <3>2, <3>4 DEF CollectImpl
    <3>6. QED
      BY <3>1, <3>5
  <2>6. QED
    BY <2>2, <2>3, <2>4, <2>5
<1>4. QED
  BY <1>2, <1>3

-----------------------------------------------------------------------------
(* The steps of the compiler keep Told. *)
LEMMA ToldKept ==
  ASSUME module' = module, NEW q, q = Reached',
         Separate =>
           IF phase' = "refused" THEN \E i \in DOMAIN module : Early(i)
           ELSE NoneEarly(q) /\ AllTold(table', q)
  PROVE  Told'
<1>1. Separate' <=> Separate
  <2>1. Fns' = Fns /\ \A p : FnAt(p)' = FnAt(p)
    BY SameModule DEF FnAt
  <2>2. \A n : Defs(n)' = Defs(n) /\ Impls(n)' = Impls(n)
    BY DEF Defs, Impls
  <2>3. \A n, m : MethodsOf(n, m)' = MethodsOf(n, m)
    BY <2>1, <2>2 DEF MethodsOf
  <2>4. QED
    BY <2>2, <2>3 DEF Separate
<1>2. \A n : Defs(n)' = Defs(n) /\ Impls(n)' = Impls(n)
  BY DEF Defs, Impls
<1>3. \A n, m : MethodsOf(n, m)' = MethodsOf(n, m)
  BY <1>2, SameModule DEF MethodsOf, FnAt
<1>4. \A n : /\ DefsTo(n, Reached)' = DefsTo(n, q) /\ ImplsTo(n, Reached)' = ImplsTo(n, q)
             /\ MakersTo(n, Reached)' = MakersTo(n, q)
  BY <1>2 DEF DefsTo, ImplsTo, MakersTo
<1>5. \A n, m : MethodsTo(n, m, Reached)' = MethodsTo(n, m, q)
  BY <1>3 DEF MethodsTo
<1>6. ASSUME AllTold(table', q)
      PROVE  AllTold(table, Reached)'
  BY <1>2, <1>4, <1>5, <1>6 DEF AllTold, NoStatic, Tells
<1>7. \A i : Early(i)' <=> Early(i)
  BY DEF Early, Makes
<1>8. NoneEarly(Reached)' <=> NoneEarly(q)
  BY <1>7 DEF NoneEarly
<1>9. QED
  BY <1>1, <1>6, <1>7, <1>8 DEF Told

LEMMA CollectTold ==
  ASSUME Base, Told, CollectStruct \/ CollectNamed \/ CollectNothing \/ CollectImpl
  PROVE  Told'
<1>1. phase = "collect" /\ module' = module /\ pos <= Len(module)
  BY DEF CollectStruct, CollectNamed, CollectNothing, CollectImpl, Collecting, Collected, Stop
<1>2. CASE Separate
  <2>1. NoneEarly(pos) /\ AllTold(table, pos)
    BY <1>1, <1>2 DEF Told, Reached
  <2>2. pos \in Nat /\ pos \in DOMAIN module /\ DOMAIN module \subseteq Nat
    BY <1>1, CurFacts, ModuleFacts DEF Base
  <2>3. CASE Stop("refused") /\ Early(pos)
    <3>1. phase' = "refused"
      BY <2>3 DEF Stop
    <3>2. QED
      BY <1>1, <2>2, <2>3, <3>1, ToldKept
  <2>4. ASSUME ~Early(pos), NEW t, Collected(t), AllTold(t, pos + 1)
        PROVE  Told'
    <3>1. table' = t /\ phase' = "collect" /\ pos' = pos + 1
      BY <1>1, <2>4 DEF Collected
    <3>2. Reached' = pos + 1
      BY <3>1 DEF Reached
    <3>3. \A i \in DOMAIN module : i < pos + 1 => i < pos \/ i = pos
      BY <2>2
    <3>4. NoneEarly(pos + 1)
      BY <2>1, <2>4, <3>3 DEF NoneEarly
    <3>5. QED
      BY <1>1, <2>4, <3>1, <3>2, <3>4, ToldKept
  <2>5. QED
    BY <1>2, <2>1, <2>3, <2>4, ItemTold
<1>3. CASE ~Separate
  BY <1>1, <1>3, ToldKept
<1>4. QED
  BY <1>2, <1>3

LEMMA BeginTold ==
  ASSUME Base, BeginCollect
  PROVE  Told'
<1>1. /\ phase = "parse" /\ phase' = "collect" /\ pos' = pos /\ module' = module
      /\ table' = [table EXCEPT ![Str] = Symbol("struct", 0, NoName, TRUE)]
  BY DEF BeginCollect
<1>2. pos = 1 /\ table = [n \in Names |-> NoSymbol] /\ Str \in Names
  BY <1>1, SymbolAssumption DEF Base, Placed, SymbolAssumption
<1>3. Reached' = 1
  BY <1>1, <1>2 DEF Reached
<1>4. ASSUME NEW n \in Names
      PROVE  /\ DefsTo(n, 1) = {} /\ ImplsTo(n, 1) = {} /\ MakersTo(n, 1) = {}
             /\ \A m \in Names : MethodsTo(n, m, 1) = {}
  <2>1. DOMAIN module \subseteq Nat \ {0}
    BY ModuleFacts DEF Base
  <2>2. \A i \in DOMAIN module : ~(i < 1)
    BY <2>1
  <2>3. DefsTo(n, 1) = {} /\ ImplsTo(n, 1) = {}
    BY <2>2 DEF DefsTo, ImplsTo, Defs, Impls
  <2>4. MakersTo(n, 1) = {}
    BY <2>3 DEF MakersTo
  <2>5. QED
    BY <2>3, <2>4, NoImplsNoMethods
<1>5. \A n \in Names : table'[n] = IF n = Str THEN Symbol("struct", 0, NoName, TRUE) ELSE NoSymbol
  BY <1>1, <1>2
<1>6. ASSUME NEW n \in Names
      PROVE  /\ table'[n].item = 0 /\ table'[n].kind = IF n = Str THEN "struct" ELSE "none"
             /\ table'[n].fielded = IF n = Str THEN TRUE ELSE FALSE
             /\ table'[n].methods = NoMethods /\ table'[n].traits = {}
  <2>1. CASE n = Str
    <3>1. table'[n] = Symbol("struct", 0, NoName, TRUE)
      BY <1>5, <2>1
    <3>2. QED
      BY <2>1, <3>1 DEF Symbol
  <2>2. CASE n # Str
    <3>1. table'[n] = Symbol("none", 0, NoName, FALSE)
      BY <1>5, <2>2 DEF NoSymbol
    <3>2. QED
      BY <2>2, <3>1 DEF Symbol
  <2>3. QED
    BY <2>1, <2>2
<1>7. ASSUME NEW n \in Names
      PROVE  Tells(n, table'[n], 1)
  <2>1. \A m \in Names : table'[n].methods[m].fn = NoFn
    <3>1. table'[n].methods = NoMethods
      BY <1>6
    <3>2. \A m \in Names : NoMethods[m].fn = NoFn
      BY NoMethodFacts DEF NoMethod
    <3>3. QED
      BY <3>1, <3>2
  <2>2. QED
    BY <1>4, <1>6, <2>1 DEF Tells
<1>8. NoneEarly(1)
  <2>1. DOMAIN module \subseteq Nat \ {0}
    BY ModuleFacts DEF Base
  <2>2. QED
    BY <2>1 DEF NoneEarly
<1>9. QED
  BY <1>1, <1>3, <1>7, <1>8, ToldKept DEF AllTold

(* From collect on only gen_code's statics change the table. *)
LEMMA LaterTold ==
  ASSUME Base, Told, phase \notin {"parse", "refused"}, module' = module,
         phase' \notin {"parse", "collect", "refused"},
         phase = "collect" => pos > Len(module),
         \A n \in Names : NoStatic(n) => table'[n] = table[n]
  PROVE  Told'
<1>1. Reached' = Len(module) + 1
  BY DEF Reached
<1>2. Reached = Len(module) + 1
  <2>1. phase = "collect" => pos = Len(module) + 1
    BY ModuleFacts DEF Base, Placed, Typed, TypeOK
  <2>2. QED
    BY <2>1 DEF Reached
<1>3. Separate => NoneEarly(Len(module) + 1) /\ AllTold(table', Len(module) + 1)
  BY <1>2 DEF Told, AllTold
<1>4. QED
  BY <1>1, <1>3, ToldKept

LEMMA NextTold == Base /\ Told /\ [Next]_vars => Told'
<1> SUFFICES ASSUME Base, Told, [Next]_vars PROVE Told'
  OBVIOUS
<1>1. ASSUME NEW i \in Items, ParseItem(i) PROVE Told'
  BY <1>1 DEF ParseItem, Told
<1>2. CASE BeginCollect
  BY <1>2, BeginTold
<1>3. CASE CollectStruct \/ CollectNamed \/ CollectNothing \/ CollectImpl
  BY <1>3, CollectTold
<1>4. CASE EndCollect
  BY <1>4, LaterTold DEF EndCollect
<1>5. CASE GenNothing \/ Declare \/ Define \/ EndGen
  <2>1. phase = "gen" /\ module' = module /\ table' = table /\ phase' \in {"gen", "error", "overflow", "done"}
    BY <1>5 DEF GenNothing, Declare, Define, EndGen, Generating, Stop
  <2>2. QED
    BY <2>1, LaterTold
<1>6. CASE GenStatic
  <2>1. phase = "gen" /\ pos <= Len(module) /\ Cur.op = "static" /\ module' = module
    BY <1>6 DEF GenStatic, Generating, Stop
  <2>2. pos \in Defs(Cur.name) /\ Cur = module[pos]
    BY <2>1, CurFacts DEF Defs
  <2>3. ~NoStatic(Cur.name)
    BY <2>1, <2>2 DEF NoStatic
  <2>4. table' = table \/ table' = [table EXCEPT ![Cur.name] = Symbol("variable", pos, NoName, FALSE)]
    BY <1>6 DEF GenStatic, Stop
  <2>5. \A n \in Names : n # Cur.name => table'[n] = table[n]
    BY <2>4 DEF Base, Typed, TypeOK
  <2>6. phase' \in {"gen", "error"}
    BY <1>6, <2>1 DEF GenStatic, Stop
  <2>7. QED
    BY <2>1, <2>3, <2>5, <2>6, LaterTold
<1>7. CASE UNCHANGED vars
  <2>1. module' = module /\ Reached' = Reached /\ phase' = phase /\ table' = table
    BY <1>7 DEF vars, Reached
  <2>2. CASE phase = "parse"
    BY <2>1, <2>2 DEF Told
  <2>3. CASE phase # "parse"
    BY <2>1, <2>3, ToldKept DEF Told
  <2>4. QED
    BY <2>2, <2>3
<1>8. QED
  BY <1>1, <1>2, <1>3, <1>4, <1>5, <1>6, <1>7 DEF Next

(* What is told of all items is what the source means. *)
LEMMA ToldMeans ==
  ASSUME Base, Separate, NEW n \in Names, NoStatic(n), Tells(n, table[n], Len(module) + 1)
  PROVE  Means(n, table[n])
<1> DEFINE q == Len(module) + 1
           s == table[n]
           said == {module[i].op : i \in Defs(n)}
           Made == \E i \in Impls(n) : Makes(i)
<1>1. \A i \in DOMAIN module : i < q
  BY ModuleFacts DEF Base
<1>1b. MakersTo(n, q) # {} <=> Made
  BY <1>1 DEF MakersTo, ImplsTo, Impls, Makes
<1>2. DefsTo(n, q) = Defs(n) /\ ImplsTo(n, q) = Impls(n)
  BY <1>1 DEF DefsTo, ImplsTo, Defs, Impls
<1>3. \A m \in Names : MethodsTo(n, m, q) = MethodsOf(n, m)
  BY <1>1 DEF MethodsTo, MethodsOf, Impls
<1>4. Tells(n, s, q)
  OBVIOUS
<1> HIDE DEF q, s
<1>5. /\ s.traits = {module[i].of : i \in Impls(n)} \ {NoName}
      /\ \A m \in Names : s.methods[m].fn \in
           IF MethodsOf(n, m) = {} THEN {NoFn} ELSE MethodsOf(n, m)
      /\ s.fielded <=> n = Str \/ \E i \in Defs(n) : module[i].op = "struct"
      /\ \A i \in Defs(n) : s.kind = Kind(module[i].op) /\ s.item = i
      /\ Defs(n) = {} => s.item = 0 /\ s.kind = IF n = Str \/ Made THEN "struct" ELSE "none"
  BY <1>1b, <1>2, <1>3, <1>4 DEF Tells
<1>6. s.item \in Defs(n) \/ (s.item = 0 /\ Defs(n) = {})
  BY <1>5
<1>7. s.fielded <=> n = Str \/ "struct" \in said
  BY <1>5
<1>8. s.kind = (CASE "fn" \in said -> "function"
                  [] said \cap {"enum", "alias", "trait", "struct"} # {} ->
                       CHOOSE k \in said : TRUE
                  [] n = Str \/ Made -> "struct"
                  [] OTHER -> "none")
  <2>1. CASE Defs(n) = {}
    <3>1. said = {}
      BY <2>1
    <3>2. s.kind = IF n = Str \/ Made THEN "struct" ELSE "none"
      BY <1>5, <2>1
    <3> HIDE DEF said, Made
    <3>3. QED
      BY <3>1, <3>2
  <2>2. CASE Defs(n) # {}
    <3>1. PICK i \in Defs(n) : TRUE
      BY <2>2
    <3>2. \A j \in Defs(n) : j = i
      BY OneDefinition DEF Base
    <3> DEFINE op == module[i].op
    <3>3. said = {op}
      BY <3>2
    <3>4. op \in {"struct", "enum", "alias", "trait", "static", "fn", "impl"} /\ op # "impl" /\ op # "static"
      BY ModuleFacts, ItemFacts DEF Defs, NoStatic, Base
    <3>5. s.kind = Kind(op)
      BY <1>5
    <3> HIDE DEF op, said
    <3>6. CASE op = "fn"
      <4>1. "fn" \in said /\ s.kind = "function"
        BY <3>3, <3>5, <3>6 DEF Kind
      <4>2. said \cap {"enum", "alias", "trait", "struct"} = {}
        BY <3>3, <3>6
      <4>3. ~(n = Str \/ Made)
        BY <3>1, <3>6, SeparateFacts DEF op
      <4>4. QED
        BY <4>1, <4>2, <4>3
    <3>7. CASE op # "fn"
      <4>1. s.kind = op /\ "fn" \notin said
        BY <3>3, <3>5, <3>7 DEF Kind
      <4>2. said \cap {"enum", "alias", "trait", "struct"} # {}
        BY <3>3, <3>4, <3>7
      <4>3. (CHOOSE k \in said : TRUE) = op
        BY <3>3
      <4>4. n = Str \/ Made => op = "struct"
        BY <3>1, SeparateFacts DEF op
      <4>5. QED
        BY <4>1, <4>2, <4>3, <4>4
    <3>8. QED
      BY <3>6, <3>7
  <2>3. QED
    BY <2>1, <2>2
<1>9. QED
  BY <1>5, <1>6, <1>7, <1>8 DEF Means, s

(***************************************************************************)
(* For every source without clashes of names: collect_symbols refuses it   *)
(* exactly when an impl of a trait, without functions, comes before all    *)
(* that makes a symbol of its type, and in any other order the table says  *)
(* of every name what the items say: an impl with functions may precede    *)
(* its struct, several impls and traits add up (the collect_symbols of     *)
(* struct.rs, impl.rs, trait.rs, function.rs).                             *)
(***************************************************************************)
THEOREM AnyOrder == Spec => []CollectsInAnyOrder
<1>1. Init => Told
  BY DEF Init, Told
<1>2. Base /\ Told /\ [Next]_vars => Told'
  BY NextTold
<1>3. Base /\ Told => CollectsInAnyOrder
  <2>1. SUFFICES ASSUME Base, Told, phase \notin {"parse", "collect"}, Separate
                 PROVE  /\ phase = "refused" <=> \E i \in DOMAIN module : Early(i)
                        /\ phase # "refused" => \A n \in Names :
                             (\A i \in Defs(n) : module[i].op # "static") => Means(n, table[n])
    BY DEF CollectsInAnyOrder
  <2>2. phase = "refused" => \E i \in DOMAIN module : Early(i)
    BY <2>1 DEF Told
  <2>3. ASSUME phase # "refused"
        PROVE  NoneEarly(Len(module) + 1) /\ AllTold(table, Len(module) + 1)
    BY <2>1, <2>3 DEF Told, Reached
  <2>4. \A i \in DOMAIN module : i < Len(module) + 1
    BY <2>1, ModuleFacts DEF Base
  <2>5. phase # "refused" => \A i \in DOMAIN module : ~Early(i)
    BY <2>3, <2>4 DEF NoneEarly
  <2>6. ASSUME phase # "refused", NEW n \in Names, NoStatic(n)
        PROVE  Means(n, table[n])
    BY <2>1, <2>3, <2>6, ToldMeans DEF AllTold
  <2>7. QED
    BY <2>2, <2>5, <2>6 DEF NoStatic
<1>4. Spec => []Told
  BY <1>1, <1>2, SpecInv, PTL DEF Spec
<1>5. QED
  BY <1>3, <1>4, SpecInv, PTL

-----------------------------------------------------------------------------
(***************************************************************************)
(* Which sources compile.  What a state says of the module stays as long   *)
(* as the module does.                                                     *)
(***************************************************************************)
LEMMA SameSource ==
  ASSUME module' = module
  PROVE  /\ Separate' <=> Separate
         /\ NoAliasOfAlias' <=> NoAliasOfAlias
         /\ \A n : Defs(n)' = Defs(n)
         /\ \A p : Resolvable(p)' <=> Resolvable(p)
<1>1. Fns' = Fns /\ Bodied' = Bodied /\ \A p : FnAt(p)' = FnAt(p)
  BY SameModule DEF FnAt
<1>2. \A n : Defs(n)' = Defs(n) /\ Impls(n)' = Impls(n)
  BY DEF Defs, Impls
<1>3. \A n, m : MethodsOf(n, m)' = MethodsOf(n, m)
  BY <1>1, <1>2 DEF MethodsOf
<1>4. Separate' <=> Separate
  BY <1>2, <1>3 DEF Separate
<1>5. \A n : Denoted(n)' = Denoted(n)
  BY DEF Denoted, Defs
<1>6. NoAliasOfAlias' <=> NoAliasOfAlias
  BY <1>5 DEF NoAliasOfAlias
<1>7. \A p : Resolvable(p)' <=> Resolvable(p)
  BY <1>1, <1>2, <1>3, <1>5 DEF Resolvable
<1>8. QED
  BY <1>2, <1>4, <1>6, <1>7

LEMMA AliasedKept ==
  ASSUME Aliased, module' = module,
         \A n \in Names : table'[n].kind = "alias" =>
           \/ table[n].kind = "alias" /\ table'[n].item = table[n].item /\ table'[n].dest = table[n].dest
           \/ /\ table'[n].item \in Defs(n) /\ module[table'[n].item].op = "alias"
              /\ table'[n].dest = module[table'[n].item].of
  PROVE  Aliased'
BY SameSource DEF Aliased

(* A trait added to a struct makes no alias of it. *)
LEMMA TraitKeepsKind ==
  ASSUME NEW t \in [Names -> SymbolType], NEW n, n \in Names => t[n].kind = "struct",
         NEW traits, NEW u, u = [t EXCEPT ![n].traits = traits]
  PROVE  \A m \in Names : u[m].kind = t[m].kind /\ (t[m].kind = "alias" => u[m] = t[m])
<1> DEFINE s == [t[n] EXCEPT !.traits = traits]
<1>1. u = [t EXCEPT ![n] = s]
  OBVIOUS
<1>2. \A m \in Names : t[m] \in SymbolType
  OBVIOUS
<1>3. n \in Names => s.kind = t[n].kind
  BY <1>2 DEF SymbolType
<1> HIDE DEF s
<1>4. \A m \in Names : u[m] = IF m = n THEN s ELSE t[m]
  BY <1>1
<1>5. QED
  BY <1>3, <1>4

LEMMA CollectAliased ==
  ASSUME Base, Aliased, CollectStruct \/ CollectNamed \/ CollectNothing \/ CollectImpl
  PROVE  Aliased'
<1> DEFINE n == Cur.name
<1>1. /\ pos <= Len(module) /\ module' = module
      /\ table \in [Names -> SymbolType]
  BY DEF CollectStruct, CollectNamed, CollectNothing, CollectImpl, Collecting, Collected, Stop,
         Base, Typed, TypeOK
<1>2. n \in Names /\ pos \in DOMAIN module /\ Cur = module[pos]
  BY <1>1, CurFacts, ItemFacts
<1>3. CASE CollectStruct
  <2>1. CASE UNCHANGED table
    BY <1>1, <2>1, AliasedKept
  <2>2. CASE table' = [table EXCEPT ![n] = Resolve(@)] /\ table[n].kind = "struct"
    <3>1. table[n] \in SymbolType
      BY <1>1, <1>2
    <3>2. Resolve(table[n]).kind = "struct"
      BY <1>1, <2>2, <3>1, ResolveFacts
    <3>3. \A m \in Names : table'[m] = IF m = n THEN Resolve(table[n]) ELSE table[m]
      BY <1>1, <2>2
    <3>4. QED
      BY <1>1, <3>2, <3>3, AliasedKept
  <2>3. CASE table' = [table EXCEPT ![n] = Symbol("struct", pos, NoName, TRUE)]
    <3>1. \A m \in Names : table'[m] = IF m = n THEN Symbol("struct", pos, NoName, TRUE) ELSE table[m]
      BY <1>1, <2>3
    <3>2. Symbol("struct", pos, NoName, TRUE).kind # "alias"
      BY DEF Symbol
    <3>3. QED
      BY <1>1, <3>1, <3>2, AliasedKept
  <2>4. QED
    BY <1>3, <2>1, <2>2, <2>3 DEF CollectStruct, Stop, Collected
<1>4. CASE CollectNamed
  <2> DEFINE kind == IF Cur.op = "fn" THEN "function" ELSE Cur.op
             dest == IF Cur.op = "alias" THEN Cur.of ELSE NoName
  <2>1. CASE UNCHANGED table
    BY <1>1, <2>1, AliasedKept
  <2>2. CASE table' = [table EXCEPT ![n] = Symbol(kind, pos, dest, FALSE)]
    <3>1. kind = "alias" => Cur.op = "alias" /\ dest = Cur.of
      OBVIOUS
    <3> HIDE DEF kind, dest
    <3>2. \A m \in Names : table'[m] = IF m = n THEN Symbol(kind, pos, dest, FALSE) ELSE table[m]
      BY <1>1, <2>2
    <3>3. /\ Symbol(kind, pos, dest, FALSE).kind = kind /\ Symbol(kind, pos, dest, FALSE).item = pos
          /\ Symbol(kind, pos, dest, FALSE).dest = dest
      BY DEF Symbol
    <3>4. kind = "alias" => pos \in Defs(n)
      BY <1>2, <3>1 DEF Defs
    <3>5. QED
      BY <1>1, <1>2, <3>1, <3>2, <3>3, <3>4, AliasedKept
  <2>3. QED
    BY <1>4, <2>1, <2>2 DEF CollectNamed, Stop, Collected
<1>5. CASE CollectNothing
  BY <1>1, <1>5, AliasedKept DEF CollectNothing, Collected
<1>6. CASE CollectImpl
  <2>1. Cur.op = "impl"
    BY <1>6 DEF CollectImpl, Collecting
  <2>2. Impled \in [Names -> SymbolType]
    BY <1>1, <2>1, ImpledTable
  <2>3. \A m \in Names : Impled[m].kind = "alias" => Impled[m] = table[m]
    <3>1. CASE Cur.fns = <<>>
      BY <3>1 DEF Impled
    <3>2. CASE Cur.fns # <<>>
      BY <1>1, <2>1, <3>2, ImpledFacts
    <3>3. QED
      BY <3>1, <3>2
  <2>4. CASE UNCHANGED table
    BY <1>1, <2>4, AliasedKept
  <2>5. CASE table' = Impled
    BY <1>1, <2>3, <2>5, AliasedKept
  <2> DEFINE d == Target(Impled, n)
  <2>6. CASE StructOf(Impled, n) /\ table' = [Impled EXCEPT ![d].traits = @ \cup {Cur.of}]
    <3>1. d \in Names => Impled[d].kind = "struct"
      BY <2>6 DEF StructOf, KindOf
    <3> HIDE DEF d
    <3>2. \A m \in Names : table'[m].kind = Impled[m].kind /\ (Impled[m].kind = "alias" => table'[m] = Impled[m])
      BY <2>2, <2>6, <3>1, TraitKeepsKind
    <3>3. QED
      BY <1>1, <2>3, <3>2, AliasedKept
  <2>7. QED
    BY <1>6, <2>4, <2>5, <2>6 DEF CollectImpl, Stop, Collected
<1>7. QED
  BY <1>3, <1>4, <1>5, <1>6

LEMMA NextAliased == Base /\ Aliased /\ [Next]_vars => Aliased'
<1> SUFFICES ASSUME Base, Aliased, [Next]_vars PROVE Aliased'
  OBVIOUS
<1>1. table \in [Names -> SymbolType]
  BY DEF Base, Typed, TypeOK
<1>2. ASSUME NEW i \in Items, ParseItem(i) PROVE Aliased'
  <2>1. phase = "parse" /\ table' = table
    BY <1>2 DEF ParseItem
  <2>2. \A n \in Names : table[n] = Symbol("none", 0, NoName, FALSE)
    BY <2>1 DEF Base, Placed, NoSymbol
  <2>3. \A n \in Names : table'[n].kind # "alias"
    BY <2>1, <2>2 DEF Symbol
  <2>4. QED
    BY <2>3 DEF Aliased
<1>3. CASE BeginCollect
  <2>1. module' = module /\ table' = [table EXCEPT ![Str] = Symbol("struct", 0, NoName, TRUE)]
    BY <1>3 DEF BeginCollect
  <2>2. \A m \in Names : table'[m] = IF m = Str THEN Symbol("struct", 0, NoName, TRUE) ELSE table[m]
    BY <1>1, <2>1
  <2>3. Symbol("struct", 0, NoName, TRUE).kind # "alias"
    BY DEF Symbol
  <2>4. QED
    BY <2>1, <2>2, <2>3, AliasedKept
<1>4. CASE CollectStruct \/ CollectNamed \/ CollectNothing \/ CollectImpl
  BY <1>4, CollectAliased
<1>5. CASE EndCollect \/ GenNothing \/ Declare \/ Define \/ EndGen
  <2>1. module' = module /\ table' = table
    BY <1>5 DEF EndCollect, GenNothing, Declare, Define, EndGen, Stop
  <2>2. QED
    BY <2>1, AliasedKept
<1>6. CASE GenStatic
  <2>1. CASE UNCHANGED table
    BY <1>6, <2>1, AliasedKept DEF GenStatic, Stop
  <2>2. CASE table' = [table EXCEPT ![Cur.name] = Symbol("variable", pos, NoName, FALSE)]
    <3>1. \A m \in Names : table'[m] = IF m = Cur.name THEN Symbol("variable", pos, NoName, FALSE) ELSE table[m]
      BY <1>1, <2>2
    <3>2. Symbol("variable", pos, NoName, FALSE).kind # "alias"
      BY DEF Symbol
    <3>3. QED
      BY <1>6, <3>1, <3>2, AliasedKept DEF GenStatic, Stop
  <2>3. QED
    BY <1>6, <2>1, <2>2 DEF GenStatic, Stop
<1>7. CASE UNCHANGED vars
  BY <1>7, AliasedKept DEF vars
<1>8. QED
  BY <1>2, <1>3, <1>4, <1>5, <1>6, <1>7 DEF Next

-----------------------------------------------------------------------------
(* Statics are entered by gen_code, one after the other. *)
LEMMA StaticUntouched ==
  ASSUME Base, Separate, CollectStruct \/ CollectNamed \/ CollectNothing \/ CollectImpl,
         NEW n \in Names, NEW i \in Defs(n), module[i].op = "static"
  PROVE  table'[n].kind = table[n].kind
<1>1. /\ pos <= Len(module) /\ table \in [Names -> SymbolType]
      /\ Cur.op # "impl" \/ CollectImpl
  BY DEF CollectStruct, CollectNamed, CollectNothing, CollectImpl, Collecting, Base, Typed, TypeOK
<1>2. Cur = module[pos] /\ Cur.name \in Names
  BY <1>1, CurFacts, ItemFacts
<1>3. CASE n = Cur.name
  <2>1. Cur.op # "impl"
    BY <1>1, <1>2, <1>3, OwnName, SeparateFacts
  <2>2. pos \in Defs(n)
    BY <1>1, <1>3, <2>1, OwnName
  <2>3. Cur.op = "static"
    BY <1>2, <2>2, OneDefinition DEF Base
  <2>4. CollectNothing
    BY <2>3 DEF CollectStruct, CollectNamed, CollectImpl, Collecting
  <2>5. QED
    BY <2>4 DEF CollectNothing, Collected
<1>4. CASE n # Cur.name
  <2>1. CASE \E s : table' = [table EXCEPT ![Cur.name] = s]
    BY <1>1, <1>4, <2>1
  <2>2. CASE UNCHANGED table
    BY <2>2
  <2>3. CASE CollectStruct
    BY <2>1, <2>2, <2>3 DEF CollectStruct, Stop, Collected
  <2>4. CASE CollectNamed
    BY <2>1, <2>2, <2>4 DEF CollectNamed, Stop, Collected
  <2>5. CASE CollectNothing
    BY <2>2, <2>5 DEF CollectNothing, Collected
  <2>6. CASE CollectImpl
    <3> DEFINE d == Target(Impled, Cur.name)
    <3>1. Cur.op = "impl"
      BY <2>6 DEF CollectImpl, Collecting
    <3>2. Impled \in [Names -> SymbolType]
      BY <1>1, <3>1, ImpledTable
    <3>3. Impled[n] = table[n]
      <4>1. CASE Cur.fns = <<>>
        BY <4>1 DEF Impled
      <4>2. CASE Cur.fns # <<>>
        BY <1>1, <1>4, <3>1, <4>2, ImpledFacts
      <4>3. QED
        BY <4>1, <4>2
    <3>4. CASE table' = Impled
      BY <3>3, <3>4
    <3>5. CASE StructOf(Impled, Cur.name) /\ table' = [Impled EXCEPT ![d].traits = @ \cup {Cur.of}]
      <4>1. d \in Names => Impled[d].kind = "struct"
        BY <3>5 DEF StructOf, KindOf
      <4> HIDE DEF d
      <4>2. table'[n].kind = Impled[n].kind
        BY <3>2, <3>5, <4>1, TraitKeepsKind
      <4>3. QED
        BY <3>3, <4>2
    <3>6. QED
      BY <2>2, <2>6, <3>4, <3>5 DEF CollectImpl, Stop, Collected
  <2>7. QED
    BY <2>3, <2>4, <2>5, <2>6
<1>5. QED
  BY <1>3, <1>4

(* Any other step of gen_code passes no static by. *)
LEMMA NoStaticPassed ==
  ASSUME Base, phase = "gen", pos <= Len(module), Cur.op # "static", pos' \in {pos, pos + 1},
         NEW n, NEW i \in Defs(n), module[i].op = "static"
  PROVE  i < pos' <=> i < pos
<1>1. pos \in Nat /\ Cur = module[pos]
  BY CurFacts
<1>2. i \in Nat
  BY ModuleFacts DEF Defs, Base
<1>3. i # pos
  BY <1>1
<1>4. QED
  BY <1>1, <1>2, <1>3

LEMMA EnteredKept ==
  ASSUME module' = module,
         Separate => \A n \in Names : \A i \in Defs(n) : module[i].op = "static" =>
           table'[n].kind = IF phase' # "collect" /\ i < pos' THEN "variable" ELSE "none"
  PROVE  Entered'
BY SameSource DEF Entered

LEMMA NextEntered == Base /\ Entered /\ [Next]_vars => Entered'
<1> SUFFICES ASSUME Base, Entered, [Next]_vars PROVE Entered'
  OBVIOUS
<1>1. table \in [Names -> SymbolType]
  BY DEF Base, Typed, TypeOK
<1>2. ASSUME NEW i \in Items, ParseItem(i) PROVE Entered'
  BY <1>2 DEF ParseItem, Entered
<1>3. CASE BeginCollect
  <2>1. /\ module' = module /\ table' = [table EXCEPT ![Str] = Symbol("struct", 0, NoName, TRUE)]
        /\ phase = "parse" /\ phase' = "collect"
    BY <1>3 DEF BeginCollect
  <2>2. \A m \in Names : m # Str => table'[m] = Symbol("none", 0, NoName, FALSE)
    BY <1>1, <2>1 DEF Base, Placed, NoSymbol
  <2>3. Symbol("none", 0, NoName, FALSE).kind = "none"
    BY DEF Symbol
  <2>4. \A m \in Names : m # Str => table'[m].kind = "none"
    BY <2>2, <2>3
  <2>5. Separate => \A n \in Names : \A i \in Defs(n) : n # Str
    BY SeparateFacts
  <2>6. QED
    BY <2>1, <2>4, <2>5, EnteredKept
<1>4. CASE CollectStruct \/ CollectNamed \/ CollectNothing \/ CollectImpl
  <2>1. phase = "collect" /\ module' = module
    BY <1>4 DEF CollectStruct, CollectNamed, CollectNothing, CollectImpl, Collecting, Collected, Stop
  <2>2. CASE phase' = "collect"
    BY <1>4, <2>1, <2>2, StaticUntouched, EnteredKept DEF Entered
  <2>3. CASE phase' # "collect"
    <3>1. phase' \in {"refused", "overflow"}
      BY <1>4, <2>1, <2>3 DEF CollectStruct, CollectNamed, CollectNothing, CollectImpl, Collected, Stop
    <3>2. QED
      BY <3>1 DEF Entered
  <2>4. QED
    BY <2>2, <2>3
<1>5. CASE EndCollect
  <2>1. /\ module' = module /\ table' = table /\ pos' = 1
        /\ phase = "collect" /\ phase' = "gen"
    BY <1>5 DEF EndCollect
  <2>2. \A n : \A i \in Defs(n) : i \in Nat \ {0}
    BY ModuleFacts DEF Defs, Base
  <2>3. \A n : \A i \in Defs(n) : ~(i < 1)
    BY <2>2
  <2>4. QED
    BY <2>1, <2>3, EnteredKept DEF Entered
<1>6. CASE GenNothing \/ Declare \/ Define
  <2>1. phase = "gen" /\ pos <= Len(module) /\ module' = module /\ table' = table /\ Cur.op # "static"
    BY <1>6 DEF GenNothing, Declare, Define, Generating, Stop
  <2>2. CASE phase' = "gen"
    <3>1. pos' \in {pos, pos + 1}
      BY <1>6, <2>1, <2>2 DEF GenNothing, Declare, Define, Stop, NextFn
    <3>2. QED
      BY <2>1, <2>2, <3>1, NoStaticPassed, EnteredKept DEF Entered
  <2>3. CASE phase' # "gen"
    <3>1. phase' \in {"error", "overflow"}
      BY <1>6, <2>1, <2>3 DEF GenNothing, Declare, Define, Stop
    <3>2. QED
      BY <3>1 DEF Entered
  <2>4. QED
    BY <2>2, <2>3
<1>7. CASE GenStatic
  <2>1. phase = "gen" /\ pos <= Len(module) /\ module' = module /\ Cur.op = "static"
    BY <1>7 DEF GenStatic, Generating, Stop
  <2>2. CASE Stop("error")
    BY <2>2 DEF Stop, Entered
  <2>3. CASE /\ phase' = "gen" /\ pos' = pos + 1
             /\ table' = [table EXCEPT ![Cur.name] = Symbol("variable", pos, NoName, FALSE)]
    <3>1. Cur = module[pos] /\ pos \in Nat /\ Cur.name \in Names /\ pos \in DOMAIN module
      BY <2>1, CurFacts, ItemFacts
    <3>2. Symbol("variable", pos, NoName, FALSE).kind = "variable"
      BY DEF Symbol
    <3>3. ASSUME Separate, NEW n \in Names, NEW i \in Defs(n), module[i].op = "static"
          PROVE  table'[n].kind = IF i < pos + 1 THEN "variable" ELSE "none"
      <4>1. i \in Nat
        BY ModuleFacts DEF Defs, Base
      <4>2. CASE n = Cur.name
        <5>1. i = pos
          <6>1. pos \in Defs(n)
            BY <2>1, <3>1, <4>2 DEF Defs
          <6>2. QED
            BY <3>3, <6>1, OneDefinition DEF Base
        <5>2. table'[n].kind = "variable"
          BY <1>1, <2>3, <3>1, <3>2, <4>2
        <5>3. QED
          BY <3>1, <5>1, <5>2
      <4>3. CASE n # Cur.name
        <5>1. i # pos
          BY <3>1, <4>3 DEF Defs
        <5>2. i < pos + 1 <=> i < pos
          BY <3>1, <4>1, <5>1
        <5>3. table'[n] = table[n]
          BY <1>1, <2>3, <4>3
        <5>4. table[n].kind = IF i < pos THEN "variable" ELSE "none"
          BY <2>1, <3>3 DEF Entered
        <5>5. QED
          BY <5>2, <5>3, <5>4
      <4>4. QED
        BY <4>2, <4>3
    <3>4. QED
      BY <2>1, <2>3, <3>3, EnteredKept
  <2>4. QED
    BY <1>7, <2>1, <2>2, <2>3 DEF GenStatic
<1>8. CASE EndGen
  BY <1>8, EnteredKept DEF EndGen, Entered
<1>9. CASE UNCHANGED vars
  BY <1>9, EnteredKept DEF vars, Entered
<1>10. QED
  BY <1>2, <1>3, <1>4, <1>5, <1>6, <1>7, <1>8, <1>9 DEF Next

-----------------------------------------------------------------------------
(***************************************************************************)
(* What gen_code finds for a mention, once all items are told.             *)
(***************************************************************************)
AllItems == Len(module) + 1

LEMMA ToAll ==
  ASSUME Base
  PROVE  \A n : /\ DefsTo(n, AllItems) = Defs(n) /\ ImplsTo(n, AllItems) = Impls(n)
                /\ \A m : MethodsTo(n, m, AllItems) = MethodsOf(n, m)
<1>1. \A i \in DOMAIN module : i < AllItems
  BY ModuleFacts DEF Base, AllItems
<1>2. \A n : DefsTo(n, AllItems) = Defs(n) /\ ImplsTo(n, AllItems) = Impls(n)
  BY <1>1 DEF DefsTo, ImplsTo, Defs, Impls
<1>3. \A n, m : MethodsTo(n, m, AllItems) = MethodsOf(n, m)
  BY <1>1 DEF MethodsTo, MethodsOf, Impls
<1>4. QED
  BY <1>2, <1>3

(* Every name has its kind, its item and its methods. *)
Known ==
  /\ phase = "gen" /\ Separate /\ NoAliasOfAlias
  /\ Base /\ Aliased /\ Entered /\ AllTold(table, AllItems)

LEMMA KindFacts ==
  ASSUME Known, NEW n \in Names
  PROVE  /\ \A i \in Defs(n) : module[i].op # "static" =>
              table[n].kind = Kind(module[i].op) /\ table[n].item = i
         /\ \A i \in Defs(n) : module[i].op = "static" =>
              Impls(n) = {} /\ table[n].kind = IF i < pos THEN "variable" ELSE "none"
         /\ Defs(n) = {} => table[n].kind =
              IF n = Str \/ \E i \in Impls(n) : module[i].fns # <<>> THEN "struct" ELSE "none"
<1>1. NoStatic(n) => Tells(n, table[n], AllItems)
  BY DEF Known, AllTold
<1>2. ASSUME NEW i \in Defs(n), module[i].op # "static"
      PROVE  table[n].kind = Kind(module[i].op) /\ table[n].item = i
  <2>1. NoStatic(n)
    BY <1>2, OneDefinition DEF NoStatic, Known, Base
  <2>2. QED
    BY <1>1, <2>1, ToAll DEF Tells, Known
<1>3. ASSUME NEW i \in Defs(n), module[i].op = "static"
      PROVE  Impls(n) = {} /\ table[n].kind = IF i < pos THEN "variable" ELSE "none"
  <2>1. Impls(n) = {}
    BY <1>3, SeparateFacts DEF Known
  <2>2. QED
    BY <1>3, <2>1 DEF Known, Entered
<1>4. Defs(n) = {} => table[n].kind =
        IF n = Str \/ \E i \in Impls(n) : module[i].fns # <<>> THEN "struct" ELSE "none"
  <2>1. MakersTo(n, AllItems) # {} <=> \E i \in Impls(n) : module[i].fns # <<>>
    BY ToAll DEF MakersTo, Known
  <2>2. QED
    BY <1>1, <2>1, ToAll DEF Tells, NoStatic, Known
<1>5. QED
  BY <1>2, <1>3, <1>4

LEMMA ItemOf ==
  ASSUME Known, NEW n, NEW i \in Defs(n)
  PROVE  /\ i \in DOMAIN module /\ module[i] \in Items /\ module[i].name = n /\ n \in Names
         /\ module[i].op \in {"struct", "enum", "alias", "trait", "static", "fn"}
BY ModuleFacts, ItemFacts DEF Defs, Known, Base

LEMMA CallKnown ==
  ASSUME Known, NEW n \in Names
  PROVE  table[n].kind = "function" <=> \E i \in Defs(n) : module[i].op = "fn"
<1>1. CASE Defs(n) = {}
  BY <1>1, KindFacts
<1>2. ASSUME NEW i \in Defs(n)
      PROVE  table[n].kind = "function" <=> \E j \in Defs(n) : module[j].op = "fn"
  <2>1. \A j \in Defs(n) : j = i
    BY OneDefinition DEF Known, Base
  <2>2. table[n].kind = "function" <=> module[i].op = "fn"
    BY KindFacts, ItemOf DEF Kind
  <2>3. QED
    BY <2>1, <2>2
<1>3. QED
  BY <1>1, <1>2

LEMMA VariableKnown ==
  ASSUME Known, NEW n \in Names
  PROVE  table[n].kind = "variable" <=> \E i \in Defs(n) : module[i].op = "static" /\ i < pos
<1>1. CASE Defs(n) = {}
  BY <1>1, KindFacts
<1>2. ASSUME NEW i \in Defs(n)
      PROVE  table[n].kind = "variable" <=> \E j \in Defs(n) : module[j].op = "static" /\ j < pos
  <2>1. \A j \in Defs(n) : j = i
    BY OneDefinition DEF Known, Base
  <2>2. table[n].kind = "variable" <=> module[i].op = "static" /\ i < pos
    BY KindFacts, ItemOf DEF Kind
  <2>3. QED
    BY <2>1, <2>2
<1>3. QED
  BY <1>1, <1>2

(* The function a name has been defined as. *)
LEMMA DefinedKnown ==
  ASSUME Known, NEW n \in Names
  PROVE  Defined(table, n) <=> \E q \in Bodied : module[q[1]].op = "fn" /\ FnAt(q).name = n
<1>1. ASSUME Defined(table, n)
      PROVE  \E q \in Bodied : module[q[1]].op = "fn" /\ FnAt(q).name = n
  <2> DEFINE i == table[n].item
  <2>1. table[n].kind = "function" /\ FnAt(<<i, 1>>).def
    BY <1>1 DEF Defined
  <2>2. i \in DOMAIN module /\ module[i].op = "fn" /\ module[i].name = n
    BY <2>1 DEF Known, Base, Agreeing, Sound
  <2>3. 1 \in DOMAIN module[i].fns /\ module[i].fns[1].name = n
    BY <2>2, ModuleFacts, ItemFacts DEF Known, Base
  <2> HIDE DEF i
  <2>4. <<i, 1>> \in Fns /\ FnAt(<<i, 1>>).name = n
    BY <2>2, <2>3 DEF Fns, FnAt
  <2>5. <<i, 1>> \in Bodied /\ module[<<i, 1>>[1]].op = "fn"
    BY <2>1, <2>2, <2>4 DEF Bodied
  <2>6. QED
    BY <2>4, <2>5
<1>2. ASSUME NEW q \in Bodied, module[q[1]].op = "fn", FnAt(q).name = n
      PROVE  Defined(table, n)
  <2> DEFINE i == q[1]
  <2>1. q = <<i, q[2]>> /\ i \in DOMAIN module /\ q[2] \in DOMAIN module[i].fns /\ FnAt(q).def
    BY FnsFacts DEF Bodied, Known, Base
  <2>2. module[i] \in Items
    BY <2>1, ModuleFacts DEF Known, Base
  <2>3. q[2] = 1 /\ module[i].name = n
    BY <1>2, <2>1, <2>2, ItemFacts DEF FnAt
  <2>4. i \in Defs(n) /\ module[i].op # "static"
    BY <1>2, <2>1, <2>3 DEF Defs
  <2>5. table[n].kind = Kind(module[i].op) /\ table[n].item = i
    BY <2>4, KindFacts
  <2>6. q = <<table[n].item, 1>> /\ table[n].kind = "function"
    BY <1>2, <2>1, <2>3, <2>5 DEF Kind
  <2>7. QED
    BY <2>1, <2>6 DEF Defined
<1>3. QED
  BY <1>1, <1>2

(* The type a method is called on: itself, or what its alias stands for. *)
LEMMA NotANameKnown ==
  ASSUME Known, NEW n, n \notin Names
  PROVE  Defs(n) = {} /\ Impls(n) = {} /\ Denoted(n) = n
<1>1. \A i \in DOMAIN module : module[i].name \in Names
  BY ModuleFacts, ItemFacts DEF Known, Base
<1>2. Defs(n) = {} /\ Impls(n) = {}
  BY <1>1 DEF Defs, Impls
<1>3. QED
  BY <1>2 DEF Denoted

LEMMA DenotedIsHop ==
  ASSUME Known, NEW n
  PROVE  Hop(table, n) = Denoted(n)
<1>1. CASE n \notin Names
  BY <1>1, NotANameKnown DEF Hop
<1>2. CASE n \in Names /\ table[n].kind = "alias"
  <2> DEFINE i == table[n].item
  <2>1. i \in Defs(n) /\ module[i].op = "alias" /\ table[n].dest = module[i].of
    BY <1>2 DEF Known, Aliased
  <2> HIDE DEF i
  <2>2. (CHOOSE j \in Defs(n) : TRUE) \in Defs(n)
    BY <2>1
  <2>3. (CHOOSE j \in Defs(n) : TRUE) = i
    BY <1>2, <2>1, <2>2, OneDefinition DEF Known, Base
  <2>4. Denoted(n) = module[i].of
    BY <2>1, <2>3 DEF Denoted
  <2>5. QED
    BY <1>2, <2>1, <2>4 DEF Hop
<1>3. CASE n \in Names /\ table[n].kind # "alias"
  <2>1. \A i \in Defs(n) : module[i].op # "alias"
    BY <1>3, KindFacts DEF Kind
  <2>2. QED
    BY <1>3, <2>1 DEF Denoted, Hop
<1>4. QED
  BY <1>1, <1>2, <1>3

LEMMA DenotedTwice ==
  ASSUME Known, NEW n
  PROVE  Denoted(Denoted(n)) = Denoted(n)
<1>1. CASE \E i \in Defs(n) : module[i].op = "alias"
  <2>1. PICK i \in Defs(n) : module[i].op = "alias"
    BY <1>1
  <2>2. i \in DOMAIN module /\ module[i].name = n
    BY <2>1, ItemOf
  <2>3. QED
    BY <2>2 DEF Known, NoAliasOfAlias
<1>2. CASE ~ \E i \in Defs(n) : module[i].op = "alias"
  BY <1>2 DEF Denoted
<1>3. QED
  BY <1>1, <1>2

LEMMA TargetKnown ==
  ASSUME Known, NEW n
  PROVE  Target(table, n) = Denoted(n)
<1>1. Hop(table, n) = Denoted(n) /\ Hop(table, Denoted(n)) = Denoted(n)
  BY DenotedIsHop, DenotedTwice
<1>2. QED
  BY <1>1, TargetOnce

(* Methods belong to structs, and so to no alias. *)
LEMMA MethodKnown ==
  ASSUME Known, NEW d, NEW m \in Names
  PROVE  /\ KindOf(table, d) = "struct" /\ table[d].methods[m].fn # NoFn <=> MethodsOf(d, m) # {}
         /\ KindOf(table, d) = "alias" => MethodsOf(d, m) = {}
<1>1. MethodsOf(d, m) # {} => \E i \in Impls(d) : module[i].fns # <<>>
  <2>1. ASSUME NEW p \in MethodsOf(d, m)
        PROVE  p[1] \in Impls(d) /\ module[p[1]].fns # <<>>
    BY FnsFacts DEF MethodsOf, Known, Base
  <2>2. QED
    BY <2>1
<1>2. CASE d \notin Names
  BY <1>1, <1>2, NotANameKnown DEF KindOf
<1>3. CASE d \in Names /\ ~NoStatic(d)
  <2>1. Impls(d) = {} /\ table[d].kind \in {"variable", "none"}
    BY <1>3, KindFacts DEF NoStatic
  <2>2. QED
    BY <1>1, <1>3, <2>1 DEF KindOf
<1>4. CASE d \in Names /\ NoStatic(d)
  <2>1. table[d].methods[m].fn \in IF MethodsOf(d, m) = {} THEN {NoFn} ELSE MethodsOf(d, m)
    BY <1>4, ToAll DEF Known, AllTold, Tells
  <2>2. NoFn \notin Fns
    <3>1. ASSUME NoFn \in Fns PROVE FALSE
      <4>1. NoFn[1] \in 1..MaxItems
        BY <3>1, FnsFacts DEF Known, Base
      <4>2. QED
        BY <4>1 DEF NoFn
    <3>2. QED
      BY <3>1
  <2>3. table[d].methods[m].fn # NoFn <=> MethodsOf(d, m) # {}
    BY <2>1, <2>2 DEF MethodsOf
  <2>4. MethodsOf(d, m) # {} => table[d].kind = "struct"
    <3>1. CASE Defs(d) = {}
      BY <1>1, <1>4, <3>1, KindFacts
    <3>2. ASSUME NEW i \in Defs(d), MethodsOf(d, m) # {} PROVE table[d].kind = "struct"
      <4>1. module[i].op = "struct"
        BY <1>1, <1>4, <3>2, SeparateFacts DEF Known
      <4>2. QED
        BY <1>4, <4>1, KindFacts DEF Kind
    <3>3. QED
      BY <3>1, <3>2
  <2>5. QED
    BY <1>4, <2>3, <2>4 DEF KindOf
<1>5. QED
  BY <1>2, <1>3, <1>4

(* A parameter hides the type of its name, and every other name stays what *)
(* it was.                                                                 *)
LEMMA HiddenTarget ==
  ASSUME Known, NEW f, f.param \in Names \cup {NoName}, NEW n
  PROVE  /\ f.param \notin {n, Denoted(n)} => Target(InBody(f), n) = Denoted(n)
         /\ f.param \in {n, Denoted(n)} =>
              KindOf(InBody(f), Target(InBody(f), n)) \in {"variable", "none"}
<1> DEFINE t == InBody(f)
           d == Denoted(n)
<1>1. /\ \A m \in Names : m # f.param => t[m] = table[m]
      /\ f.param \in Names => t[f.param].kind = "variable"
  BY DEF InBody, Symbol
<1>2. NoName \notin Names
  BY SymbolAssumption DEF SymbolAssumption
<1>3. Target(table, n) = d /\ Hop(table, n) = d /\ Hop(table, d) = d
  <2>1. Denoted(d) = d
    BY DenotedTwice
  <2>2. QED
    BY <2>1, DenotedIsHop, TargetKnown
<1> HIDE DEF t, d
<1>4. ASSUME NEW m, m # f.param \/ m \notin Names PROVE Hop(t, m) = Hop(table, m)
  BY <1>1, <1>4 DEF Hop
<1>5. f.param \in Names => Hop(t, f.param) = f.param
  BY <1>1 DEF Hop
<1>6. CASE f.param \notin {n, d}
  <2>1. Hop(t, n) = d /\ Hop(t, d) = d
    BY <1>3, <1>4, <1>6
  <2>2. QED
    BY <1>6, <2>1, TargetOnce DEF t, d
<1>7. CASE f.param \in {n, d} /\ f.param \in Names
  <2>1. Target(t, n) = f.param
    <3>1. CASE f.param = n
      <4>1. Hop(t, n) = n
        BY <1>5, <1>7, <3>1
      <4>2. Target(t, n) = n
        BY <4>1, TargetOnce
      <4>3. QED
        BY <3>1, <4>2
    <3>2. CASE f.param # n /\ f.param = d
      <4>1. Hop(t, n) = d /\ Hop(t, d) = d
        BY <1>3, <1>4, <1>5, <1>7, <3>2
      <4>2. Target(t, n) = d
        BY <4>1, TargetOnce
      <4>3. QED
        BY <3>2, <4>2
    <3>3. QED
      BY <1>7, <3>1, <3>2
  <2>2. KindOf(t, Target(t, n)) = "variable"
    BY <1>1, <1>7, <2>1 DEF KindOf
  <2>3. QED
    BY <1>7, <2>2 DEF t, d
<1>8. CASE f.param \in {n, d} /\ f.param \notin Names
  <2>1. d \notin Names
    BY <1>8, NotANameKnown DEF d
  <2>2. Hop(t, n) = d /\ Hop(t, d) = d
    <3>1. n # f.param \/ n \notin Names
      BY <1>8
    <3>2. QED
      BY <1>3, <1>4, <2>1, <3>1
  <2>3. Target(t, n) = d
    BY <2>2, TargetOnce
  <2>4. KindOf(t, Target(t, n)) = "none"
    BY <2>1, <2>3 DEF KindOf
  <2>5. QED
    BY <1>8, <2>4 DEF t, d
<1>9. QED
  BY <1>6, <1>7, <1>8 DEF t, d

(* Define stops exactly at a function that cannot be resolved. *)
LEMMA StopsAtUnresolvable ==
  ASSUME Known, pos <= Len(module), Cur.fns # <<>>
  PROVE  LET f == Cur.fns[sub]
             u == f.use
             t == InBody(f)
         IN  Resolvable(<<pos, sub>>) <=>
               /\ ~(f.param # NoName /\ Defined(table, f.param))
               /\ ~(u.op = "method" /\ Endless(t, u.on))
               /\ ~Unresolved(t, u)
<1> DEFINE f == Cur.fns[sub]
           u == f.use
           t == InBody(f)
           p == <<pos, sub>>
<1>1. /\ sub \in DOMAIN Cur.fns /\ p \in Fns /\ Cur = module[pos] /\ Cur \in Items
  BY SubFacts, CurFacts DEF Known
<1>2. FnAt(p) = f /\ p[1] = pos
  BY <1>1 DEF FnAt
<1>3. f \in FnDefs /\ (u.op # "none" => u.name \in Names)
  <2>1. Cur \in GlobalItems
    BY <1>1, SymbolAssumption DEF SymbolAssumption
  <2>2. Cur.fns \in Seq(FnDefs)
    BY <2>1 DEF GlobalItems
  <2>3. QED
    BY <1>1, <2>2, ItemFacts
<1>4. f.param \in Names \cup {NoName} /\ u.op \in {"none", "call", "method", "var"}
  BY <1>3 DEF FnDefs, Mentions
<1> HIDE DEF f, p
<1>4a. \A n \in Names : t[n].kind = IF n = f.param THEN "variable" ELSE table[n].kind
  BY DEF InBody, Symbol
<1>5. (f.param # NoName /\ Defined(table, f.param)) <=>
        \E q \in Bodied : module[q[1]].op = "fn" /\ FnAt(q).name = f.param
  <2>1. CASE f.param \in Names
    <3>1. f.param # NoName
      BY <2>1, SymbolAssumption DEF SymbolAssumption
    <3>2. QED
      BY <2>1, <3>1, DefinedKnown
  <2>2. CASE f.param = NoName
    <3>1. ASSUME NEW q \in Bodied PROVE FnAt(q).name # NoName
      <4>1. q[1] \in DOMAIN module /\ q[2] \in DOMAIN module[q[1]].fns /\ module[q[1]] \in Items
        BY FnsFacts, ModuleFacts DEF Bodied, Known, Base
      <4>2. module[q[1]].fns[q[2]].name \in Names
        BY <4>1, ItemFacts
      <4>3. QED
        BY <4>2, SymbolAssumption DEF SymbolAssumption, FnAt
    <3>2. QED
      BY <2>2, <3>1
  <2>3. QED
    BY <1>4, <2>1, <2>2
<1>6. u.op = "call" =>
        (~Unresolved(t, u) <=> u.name # f.param /\ \E i \in Defs(u.name) : module[i].op = "fn")
  BY <1>3, <1>4a, CallKnown DEF Unresolved
<1>7. u.op = "var" =>
        (~Unresolved(t, u) <=> \/ u.name = f.param
                               \/ \E i \in Defs(u.name) : module[i].op = "static" /\ i < pos)
  BY <1>3, <1>4a, VariableKnown DEF Unresolved
<1>8. ASSUME u.op = "method"
      PROVE  ~Endless(t, u.on) /\ ~Unresolved(t, u) <=>
               /\ f.param \notin {u.on, Denoted(u.on)}
               /\ MethodsOf(Denoted(u.on), u.name) # {}
  <2> DEFINE d == Denoted(u.on)
             r == Target(t, u.on)
  <2>1. u.name \in Names
    BY <1>3, <1>8
  <2>2. ~Unresolved(t, u) <=> KindOf(t, r) = "struct" /\ t[r].methods[u.name].fn # NoFn
    BY <1>8 DEF Unresolved, StructOf, Meant
  <2>3. Endless(t, u.on) <=> KindOf(t, r) = "alias"
    BY DEF Endless
  <2>4. CASE f.param \in {u.on, d}
    <3>1. KindOf(t, r) \in {"variable", "none"}
      BY <1>4, <2>4, HiddenTarget
    <3>2. QED
      BY <2>2, <2>4, <3>1
  <2>5. CASE f.param \notin {u.on, d}
    <3>1. r = d
      BY <1>4, <2>5, HiddenTarget
    <3>2. d \in Names => t[d] = table[d]
      BY <2>5 DEF InBody
    <3> HIDE DEF d, r, t
    <3>3. KindOf(t, d) = KindOf(table, d)
      BY <3>2 DEF KindOf
    <3>4. /\ KindOf(table, d) = "struct" /\ table[d].methods[u.name].fn # NoFn
               <=> MethodsOf(d, u.name) # {}
          /\ KindOf(table, d) = "alias" => MethodsOf(d, u.name) = {}
      BY <2>1, MethodKnown
    <3>5. KindOf(table, d) = "struct" => d \in Names
      BY DEF KindOf
    <3>6. ~Endless(t, u.on) /\ ~Unresolved(t, u) <=> MethodsOf(d, u.name) # {}
      BY <2>2, <2>3, <3>1, <3>2, <3>3, <3>4, <3>5
    <3>7. QED
      BY <2>5, <3>6 DEF d
  <2>6. QED
    BY <2>4, <2>5
<1>9. u.op = "none" => ~Unresolved(t, u)
  BY DEF Unresolved
<1>10. Resolvable(p) <=>
        /\ ~ \E q \in Bodied : module[q[1]].op = "fn" /\ FnAt(q).name = f.param
        /\ u.op = "call" => u.name # f.param /\ \E i \in Defs(u.name) : module[i].op = "fn"
        /\ u.op = "method" =>
             /\ f.param \notin {u.on, Denoted(u.on)}
             /\ MethodsOf(Denoted(u.on), u.name) # {}
        /\ u.op = "var" => \/ u.name = f.param
                           \/ \E i \in Defs(u.name) : module[i].op = "static" /\ i < pos
  BY <1>2 DEF Resolvable
<1> HIDE DEF t
<1>11. Resolvable(p) <=>
         /\ ~(f.param # NoName /\ Defined(table, f.param))
         /\ ~(u.op = "method" /\ Endless(t, u.on))
         /\ ~Unresolved(t, u)
  <2>1. CASE u.op = "call"
    BY <1>5, <1>6, <1>10, <2>1
  <2>2. CASE u.op = "var"
    BY <1>5, <1>7, <1>10, <2>2
  <2>3. CASE u.op = "method"
    BY <1>5, <1>8, <1>10, <2>3
  <2>4. CASE u.op = "none"
    BY <1>5, <1>9, <1>10, <2>4
  <2>5. QED
    BY <1>4, <2>1, <2>2, <2>3, <2>4
<1>12. QED
  BY <1>11 DEF f, p, t

-----------------------------------------------------------------------------
(* The steps of the compiler keep Judged. *)
LEMMA JudgedKept ==
  ASSUME module' = module,
         Clear => /\ phase' \in {"gen", "done"} => \A p \in Generated' : Resolvable(p)
                  /\ phase' \in {"error", "overflow"} => \E p \in Bodied : ~Resolvable(p)
  PROVE  Judged'
<1>1. Clear' <=> Clear
  BY SameSource DEF Clear
<1>2. Bodied' = Bodied /\ \A p : Resolvable(p)' <=> Resolvable(p)
  BY SameModule, SameSource
<1>3. QED
  BY <1>1, <1>2 DEF Judged

(* No clash, no endless alias: collect_symbols goes through or refuses. *)
LEMMA CollectGoesOn ==
  ASSUME Base, Told, Separate, CollectStruct \/ CollectNamed \/ CollectNothing \/ CollectImpl
  PROVE  phase' \in {"collect", "refused"}
<1>1. phase = "collect"
  BY DEF CollectStruct, CollectNamed, CollectNothing, CollectImpl, Collecting
<1>2. NoneEarly(pos) /\ AllTold(table, pos)
  BY <1>1 DEF Told, Reached
<1>3. Stop("refused") \/ \E t : Collected(t)
  BY <1>2, ItemTold
<1>4. QED
  BY <1>1, <1>3 DEF Collected, Stop

LEMMA CompilingKnows ==
  ASSUME Compiling, Clear, phase = "gen"
  PROVE  Known
BY DEF Compiling, Clear, Known, Told, Reached, AllItems

LEMMA SameGenerated ==
  ASSUME module' = module, \A p \in Bodied : Done(p)' <=> Done(p)
  PROVE  Generated' = Generated
BY SameModule DEF Generated

LEMMA DefineJudged ==
  ASSUME Compiling, Define
  PROVE  Judged'
<1> DEFINE d == <<pos, sub>>
           f == Cur.fns[sub]
           u == f.use
           t == InBody(f)
<1>1. /\ phase = "gen" /\ pos <= Len(module) /\ Cur.fns # <<>> /\ f.def /\ module' = module /\ Base
  BY DEF Define, Generating, Stop, Compiling
<1>2. d \in Fns /\ FnAt(d) = f
  BY <1>1, SubFacts DEF FnAt, Cur
<1>3. d \in Bodied
  BY <1>1, <1>2 DEF Bodied
<1>4. Clear => (Resolvable(d) <=>
                  /\ ~(f.param # NoName /\ Defined(table, f.param))
                  /\ ~(u.op = "method" /\ Endless(t, u.on))
                  /\ ~Unresolved(t, u))
  BY <1>1, CompilingKnows, StopsAtUnresolvable
<1>5. CASE /\ Stop("error") \/ Stop("overflow")
           /\ \/ f.param # NoName /\ Defined(table, f.param)
              \/ u.op = "method" /\ Endless(t, u.on)
              \/ Unresolved(t, u)
  <2>1. phase' \in {"error", "overflow"}
    BY <1>5 DEF Stop
  <2>2. Clear => ~Resolvable(d)
    BY <1>4, <1>5
  <2>3. QED
    BY <1>1, <1>3, <2>1, <2>2, JudgedKept
<1>6. CASE /\ NextFn /\ phase' = phase
           /\ ~(f.param # NoName /\ Defined(table, f.param))
           /\ ~(u.op = "method" /\ Endless(t, u.on))
           /\ ~Unresolved(t, u)
  <2>1. \A p \in Fns : Done(p)' <=> (Done(p) \/ p = d)
    BY <1>1, <1>6, NextFnFacts
  <2> HIDE DEF d
  <2>2. Generated' \subseteq Generated \cup {d}
    BY <1>1, <2>1, SameModule DEF Generated, Bodied
  <2>3. Clear => \A p \in Generated : Resolvable(p)
    BY <1>1 DEF Compiling, Judged
  <2>4. Clear => Resolvable(d)
    BY <1>4, <1>6
  <2>5. phase' = "gen"
    BY <1>1, <1>6
  <2>6. QED
    BY <1>1, <2>2, <2>3, <2>4, <2>5, JudgedKept
<1>7. QED
  BY <1>5, <1>6 DEF Define

LEMMA NextJudged == Compiling /\ [Next]_vars => Judged'
<1> SUFFICES ASSUME Compiling, [Next]_vars PROVE Judged'
  OBVIOUS
<1>1. Base /\ Told /\ Judged
  BY DEF Compiling
<1>2. ASSUME NEW i \in Items, ParseItem(i) PROVE Judged'
  <2>1. phase' = "parse"
    BY <1>2 DEF ParseItem
  <2>2. QED
    BY <2>1 DEF Judged
<1>3. CASE BeginCollect
  BY <1>3 DEF BeginCollect, Judged
<1>4. CASE CollectStruct \/ CollectNamed \/ CollectNothing \/ CollectImpl
  <2>1. module' = module /\ phase' \in {"collect", "refused", "overflow"}
    BY <1>4 DEF CollectStruct, CollectNamed, CollectNothing, CollectImpl, Collecting, Collected, Stop
  <2>2. Clear => phase' \in {"collect", "refused"}
    BY <1>1, <1>4, CollectGoesOn DEF Clear
  <2>3. QED
    BY <2>1, <2>2, JudgedKept
<1>5. CASE EndCollect
  <2>1. phase = "collect" /\ phase' = "gen" /\ pos' = 1 /\ sub' = sub /\ module' = module
    BY <1>5 DEF EndCollect
  <2>2. sub = 1
    BY <1>1, <2>1 DEF Base, Placed
  <2>3. Generated' = {}
    <3>1. ASSUME NEW p \in Fns PROVE ~Done(p)'
      <4>1. p[1] \in Nat \ {0} /\ p[2] \in Nat \ {0}
        BY <1>1, FnsFacts DEF Base
      <4>2. QED
        BY <2>1, <2>2, <4>1 DEF Done
    <3>2. QED
      BY <2>1, <3>1, SameModule DEF Generated, Bodied
  <2>4. QED
    BY <2>1, <2>3, JudgedKept
<1>6. CASE GenNothing
  <2>1. /\ phase = "gen" /\ phase' = "gen" /\ pos <= Len(module) /\ Cur.fns = <<>> /\ pos' = pos + 1
        /\ sub' = sub /\ module' = module
    BY <1>6 DEF GenNothing, Generating
  <2>2. Generated' = Generated
    BY <1>1, <2>1, SkipFacts, SameGenerated DEF Bodied
  <2>3. QED
    BY <1>1, <2>1, <2>2, JudgedKept DEF Judged
<1>7. CASE GenStatic
  <2>1. phase = "gen" /\ pos <= Len(module) /\ module' = module /\ Cur.op = "static"
    BY <1>7 DEF GenStatic, Generating, Stop
  <2>2. CASE Defined(table, Cur.name) /\ Stop("error")
    <3>1. ~Clear
      <4>1. SUFFICES ASSUME Clear PROVE FALSE
        OBVIOUS
      <4>2. Known
        BY <2>1, <4>1, CompilingKnows
      <4>3. pos \in Defs(Cur.name) /\ Cur = module[pos] /\ Cur.name \in Names
        BY <1>1, <2>1, CurFacts, ItemFacts DEF Defs
      <4>4. table[Cur.name].kind # "function"
        BY <2>1, <4>2, <4>3, KindFacts
      <4>5. QED
        BY <2>2, <4>4 DEF Defined
    <3>2. QED
      BY <2>1, <3>1, JudgedKept
  <2>3. CASE phase' = "gen" /\ pos' = pos + 1 /\ sub' = sub
    <3>1. Cur.fns = <<>>
      BY <1>1, <2>1, CurFacts, ItemFacts
    <3>2. Generated' = Generated
      BY <1>1, <2>1, <2>3, <3>1, SkipFacts, SameGenerated DEF Bodied
    <3>3. QED
      BY <1>1, <2>1, <2>3, <3>2, JudgedKept DEF Judged
  <2>4. QED
    BY <1>7, <2>1, <2>2, <2>3 DEF GenStatic
<1>8. CASE Declare
  <2>1. /\ phase = "gen" /\ phase' = "gen" /\ pos <= Len(module) /\ Cur.fns # <<>> /\ ~Cur.fns[sub].def
        /\ NextFn /\ module' = module
    BY <1>8 DEF Declare, Generating
  <2>2. <<pos, sub>> \notin Bodied
    BY <2>1 DEF Bodied, FnAt, Cur
  <2>3. \A p \in Bodied : Done(p)' <=> Done(p)
    BY <1>1, <2>1, <2>2, NextFnFacts DEF Bodied
  <2>4. Generated' = Generated
    BY <2>1, <2>3, SameGenerated
  <2>5. QED
    BY <1>1, <2>1, <2>4, JudgedKept DEF Judged
<1>9. CASE Define
  BY <1>9, DefineJudged
<1>10. CASE EndGen
  <2>1. phase = "gen" /\ phase' = "done" /\ pos' = pos /\ sub' = sub /\ module' = module
    BY <1>10 DEF EndGen
  <2>2. Generated' = Generated
    BY <2>1, SameGenerated DEF Done
  <2>3. QED
    BY <1>1, <2>1, <2>2, JudgedKept DEF Judged
<1>11. CASE UNCHANGED vars
  <2>1. phase' = phase /\ pos' = pos /\ sub' = sub /\ module' = module
    BY <1>11 DEF vars
  <2>2. Generated' = Generated
    BY <2>1, SameGenerated DEF Done
  <2>3. QED
    BY <1>1, <2>1, <2>2, JudgedKept DEF Judged
<1>12. QED
  BY <1>2, <1>3, <1>4, <1>5, <1>6, <1>7, <1>8, <1>9, <1>10, <1>11 DEF Next

(***************************************************************************)
(* A source without clashes and without aliases of aliases compiles        *)
(* exactly when each of its functions' mentions can be resolved, before or *)
(* after the definition and behind what the function's parameter hides,    *)
(* and no parameter has a defined function's name                          *)
(* (Function::gen_code, Scope::get_function, get_struct, add_symbol).      *)
(***************************************************************************)
THEOREM Compiles == Spec => []CompilesIffResolvable
<1>1. Init => Told /\ Aliased /\ Entered /\ Judged
  <2>1. SUFFICES ASSUME Init PROVE Told /\ Aliased /\ Entered /\ Judged
    OBVIOUS
  <2>2. phase = "parse" /\ \A n \in Names : table[n] = Symbol("none", 0, NoName, FALSE)
    BY <2>1 DEF Init, NoSymbol
  <2>3. \A n \in Names : table[n].kind # "alias"
    BY <2>2 DEF Symbol
  <2>4. QED
    BY <2>2, <2>3 DEF Told, Aliased, Entered, Judged
<1>2. Base /\ Told /\ Aliased /\ Entered /\ Judged /\ [Next]_vars
        => Told' /\ Aliased' /\ Entered' /\ Judged'
  BY NextTold, NextAliased, NextEntered, NextJudged DEF Compiling
<1>3. Base /\ Judged => CompilesIffResolvable
  <2>1. SUFFICES ASSUME Base, Judged, phase \in {"done", "error", "overflow"}, Clear
                 PROVE  phase = "done" <=> \A p \in Bodied : Resolvable(p)
    BY DEF CompilesIffResolvable, Clear
  <2>2. CASE phase = "done"
    <3>1. pos > Len(module) /\ pos \in Nat
      BY <2>1, <2>2 DEF Base, Placed, Typed, TypeOK
    <3>2. ASSUME NEW p \in Bodied PROVE p \in Generated
      <4>1. p[1] \in 1..Len(module) /\ Len(module) \in Nat
        BY <2>1, FnsFacts, ModuleFacts DEF Bodied, Base
      <4>2. p[1] < pos
        BY <3>1, <4>1
      <4>3. QED
        BY <4>2 DEF Generated, Done
    <3>3. QED
      BY <2>1, <2>2, <3>2 DEF Judged
  <2>3. CASE phase \in {"error", "overflow"}
    BY <2>1, <2>3 DEF Judged
  <2>4. QED
    BY <2>1, <2>2, <2>3
<1>4. Spec => [](Base /\ Built)
  BY SpecInv
<1>5. QED
  BY <1>1, <1>2, <1>3, <1>4, PTL DEF Spec
=============================================================================

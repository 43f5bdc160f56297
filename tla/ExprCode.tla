------------------------------ MODULE ExprCode ------------------------------
(***************************************************************************)
(* The code generated for an expression: gen_code and get_type of the      *)
(* nodes in access.rs, casting.rs, binary.rs, assignment.rs, vardecl.rs,   *)
(* initializers.rs and literals.rs, AST::should_load, and the parts of     *)
(* Type they decide by.                                                    *)
(*                                                                         *)
(* Generation and execution are one evaluation.  A generated value is what *)
(* its instruction yields, with its LLVM type: pointers are typed          *)
(* (src/src/main.rs:61), so a load, a store or an element address whose    *)
(* pointer has another pointee is malformed, which LLVM asserts.  Memory   *)
(* is a sequence of cells, one for each integer and each pointer; an       *)
(* address is an index.  Integers have a width of a few bits, and are kept *)
(* unsigned.                                                               *)
(*                                                                         *)
(* A type is a tree of the parser; an LLVM type is one without `&', `mut'  *)
(* and unsigned names.                                                     *)
(***************************************************************************)
EXTENDS ExprParser

CONSTANTS
  Width,      \* the number of bits of each integer type, by name
  Numeral,    \* the value of each number literal
  Structs,    \* the fields of each struct: a sequence of [id, typ]
  Enums,      \* the variants of each enum: a sequence of names
  Functions,  \* [typ, v, sets] of each function: it sets one cell and returns v
  Vars,       \* [typ, at] of each variable
  Memory,     \* the cells before the statement
  RetType     \* the type of the current function

VARIABLE outcome   \* what the statement's code did, or Pending

codeVars == <<meant, source, tree, index, outcome>>

-----------------------------------------------------------------------------
(* Types.  *)
None == Leaf("none")
I(name) == Leaf(name)
Ptr(t) == Node("*", <<t>>)
IsPointer(t) == t.op \in {"*", "&"}
IsRef(t) == t.op = "&"
IsArray(t) == t.op = "[;]"
IsStruct(t) == t.op \in DOMAIN Structs
IsInt(t) == t.op \in DOMAIN Width
Pointee(t) == Last(t.kids)
GetBase(t) == IF IsPointer(t) THEN Pointee(t) ELSE IF IsArray(t) THEN t.kids[1] ELSE None
Unsigned == {"bool", "u8", "u32"}

RECURSIVE GetName(_), Matches(_, _), Lower(_), Size(_), TypeOf(_), Gen(_, _)

GetName(t) == IF GetBase(t) = None THEN t.op ELSE GetName(GetBase(t))

Matches(l, r) ==
  IF IsPointer(l) /\ IsPointer(r) THEN Matches(Pointee(l), Pointee(r)) ELSE l = r

(* Scope::resolve_type; both signs of a width are one LLVM type. *)
Lower(t) ==
  CASE IsPointer(t) -> Ptr(Lower(Pointee(t)))
    [] IsArray(t) -> Node(t.op, <<Lower(t.kids[1]), t.kids[2]>>)
    [] t.op \in DOMAIN Enums -> I("i32")
    [] t.op = "u32" -> I("i32")
    [] t.op = "u8" -> I("i8")
    [] OTHER -> t

Size(t) ==
  CASE IsArray(t) -> Numeral[t.kids[2].op] * Size(t.kids[1])
    [] IsStruct(t) -> FoldSeq(+, 0, [n \in DOMAIN Structs[t.op] |-> Size(Structs[t.op][n].typ)])
    [] OTHER -> 1

FieldsNamed(s, f) == {n \in DOMAIN Structs[s] : Structs[s][n].id = f}
HasField(t, f) == GetName(t) \in DOMAIN Structs /\ FieldsNamed(GetName(t), f) # {}
Field(t, f) == Max(FieldsNamed(GetName(t), f))
Offset(s, n) == FoldSeq(+, 0, [k \in 1..(n - 1) |-> Size(Structs[s][k].typ)])

-----------------------------------------------------------------------------
(* Integers of a width. *)
Mod(v, t) == v % 2^Width[t.op]
Signed(v, t) == IF v < 2^(Width[t.op] - 1) THEN v ELSE v - 2^Width[t.op]
Quotient(l, r) ==   \* towards zero
  LET Abs(n) == IF n < 0 THEN -n ELSE n
      q == Abs(l) \div Abs(r) IN IF (l < 0) = (r < 0) THEN q ELSE -q
Bool(b) == IF b THEN 1 ELSE 0

Compare(op, l, r) ==
  CASE op = "==" -> Bool(l = r)
    [] op = "!=" -> Bool(l # r)
    [] op = "<" -> Bool(l < r)
    [] op = "<=" -> Bool(l <= r)
    [] op = ">" -> Bool(l > r)
    [] op = ">=" -> Bool(l >= r)
Compute(op, l, r) ==
  CASE op = "+" -> l + r
    [] op = "-" -> l - r
    [] op = "*" -> l * r
    [] op = "/" -> Quotient(l, r)
    [] op = "%" -> l - r * Quotient(l, r)

-----------------------------------------------------------------------------
(* What a piece of code yields: a value of an LLVM type and the memory, or *)
(* why there is none: "error" for one that is reported (or a panic of the  *)
(* compiler), "malformed" for ill-typed LLVM code, "fault" at run time.    *)
Yield(ty, v, m) == [ty |-> ty, v |-> v, mem |-> m, fail |-> "no"]
Failing(r, why) == IF r.fail = "no" THEN [r EXCEPT !.fail = why] ELSE r
Unless(r, ok, why) == IF ok THEN r ELSE Failing(r, why)
Also(r, s) == Failing(r, s.fail)

InMemory(m, a, n) == a > 0 /\ a + n - 1 <= Len(m)
Cells(m, a, n) == SubSeq(m, a, a + n - 1)
Overwrite(m, a, v) == [k \in DOMAIN m |-> IF k \in a..(a + Len(v) - 1) THEN v[k - a + 1] ELSE m[k]]

Load(r, ty) ==
  CASE r.fail # "no" -> r
    [] r.ty # Ptr(ty) -> Failing(r, "malformed")
    [] ~InMemory(r.mem, r.v[1], Size(ty)) -> Failing(r, "fault")
    [] OTHER -> Yield(ty, Cells(r.mem, r.v[1], Size(ty)), r.mem)

(* Stores r in front of what p points to, in the memory r left. *)
Store(r, p) ==
  CASE r.fail # "no" -> r
    [] p.fail # "no" -> Also(r, p)
    [] p.ty # Ptr(r.ty) -> Failing(r, "malformed")
    [] ~InMemory(r.mem, p.v[1], Len(r.v)) -> Failing(r, "fault")
    [] OTHER -> [p EXCEPT !.mem = Overwrite(r.mem, p.v[1], r.v)]

Alloca(r) ==   \* a new place that holds r
  IF r.fail # "no" THEN r ELSE Yield(Ptr(r.ty), <<Len(r.mem) + 1>>, r.mem \o r.v)

StructGep(r, ty, n) ==
  IF r.ty = Ptr(ty) /\ IsStruct(ty)
    THEN [r EXCEPT !.ty = Ptr(Lower(Structs[ty.op][n].typ)), !.v = <<r.v[1] + Offset(ty.op, n)>>]
    ELSE Failing(r, "malformed")

-----------------------------------------------------------------------------
(* AST::should_load and get_type. *)
IsId(t) == t.kids = <<>> /\ t.op \in Names
IsNumber(t) == t.kids = <<>> /\ t.op \in Numbers
IsUnary(t, op) == t.op = op /\ Len(t.kids) = 1
IsMember(t) == t.op \in Members /\ t.kids[2].op # "call"
IsBinary(t) == t.op \in Comparisons \cup Logic \cup Sums \cup Products /\ Len(t.kids) = 2

ShouldLoad_NotIndexed(t) ==
  IsId(t) \/ IsMember(t) \/ t.op = "{}" \/ IsUnary(t, "*") \/ IsUnary(t, "!")
ShouldLoad(t) ==
  IsId(t) \/ IsMember(t) \/ t.op = "[" \/ t.op = "{}" \/ IsUnary(t, "*") \/ IsUnary(t, "!")

TypeOf(t) ==
  LET obj == IF t.kids = <<>> THEN None ELSE TypeOf(t.kids[1]) IN
    CASE IsId(t) /\ t.op \in DOMAIN Vars ->
           IF IsRef(Vars[t.op].typ) THEN Pointee(Vars[t.op].typ) ELSE Vars[t.op].typ
      [] IsNumber(t) -> I("i32")
      [] IsMember(t) /\ HasField(obj, t.kids[2].op) ->
           Structs[GetName(obj)][Field(obj, t.kids[2].op)].typ
      [] t.op = "[" -> IF GetBase(obj) = None THEN obj ELSE GetBase(obj)
      [] IsUnary(t, "*") -> IF IsPointer(obj) THEN Pointee(obj) ELSE None
      [] IsUnary(t, "&") -> IF obj = None THEN None ELSE Ptr(obj)
      [] IsUnary(t, "!") -> I("bool")
      [] t.op = "cast" -> t.kids[1]
      [] IsBinary(t) -> IF t.op \in Comparisons THEN I("bool") ELSE obj
      [] t.op = "=" -> obj
      [] t.op = "call" /\ t.kids[1].op \in DOMAIN Functions -> Functions[t.kids[1].op].typ
      [] t.op = "::" /\ t.kids[1].op \in DOMAIN Enums -> t.kids[1]
      [] OTHER -> None

(* The operand's code, loaded where the parent asks should_load. *)
LoadedAs(r, typ) == IF typ = None THEN Failing(r, "error") ELSE Load(r, Lower(typ))
Operand(t, m) == IF ShouldLoad(t) THEN LoadedAs(Gen(t, m), TypeOf(t)) ELSE Gen(t, m)

-----------------------------------------------------------------------------
(* get_cast_ops and the cast it chooses. *)
Converts(src, dest) ==
  \/ IsInt(src) /\ (IsInt(dest) \/ IsPointer(dest))
  \/ IsPointer(src) /\ (IsInt(dest) \/ IsPointer(dest))
  \/ IsStruct(src) /\ src = dest
Converted(v, src, dest) ==
  CASE IsInt(dest) /\ IsInt(src) -> <<Mod(Signed(v[1], src), dest)>>
    [] IsInt(dest) /\ IsPointer(src) -> <<Mod(v[1], dest)>>
    [] OTHER -> v
Cast(r, typ) ==
  LET dest == Lower(typ) IN
    IF r.fail # "no" THEN r
    ELSE IF ~Converts(r.ty, dest) THEN Failing(r, "error")
    ELSE [r EXCEPT !.ty = dest, !.v = Converted(r.v, r.ty, dest)]

(* Operations are signed, whatever the type, and >= is generated as >. *)
Generated_LessAsGreater(op) == IF op \in {">=", "<"} THEN ">" ELSE op
Generated(op) == IF op = ">=" THEN ">" ELSE op
Arith(op, l, r) ==
  LET ty == l.ty
      lv == IF IsInt(ty) THEN Signed(l.v[1], ty) ELSE l.v[1]
      rv == IF IsInt(ty) THEN Signed(r.v[1], ty) ELSE r.v[1] IN
    CASE l.fail # "no" -> l
      [] r.fail # "no" -> r
      [] ty # r.ty \/ ~(IsInt(ty) \/ (IsPointer(ty) /\ op \in Comparisons)) -> Failing(r, "malformed")
      [] op \in {"/", "%"} /\ rv = 0 -> Failing(r, "fault")
      [] op \in Comparisons -> Yield(I("bool"), <<Compare(Generated(op), lv, rv)>>, r.mem)
      [] OTHER -> Yield(ty, <<Mod(Compute(op, lv, rv), ty)>>, r.mem)

(* Both operands are generated before either is loaded. *)
LoadedLate(t, r, m) == IF ShouldLoad(t) THEN Load([r EXCEPT !.mem = m], Lower(TypeOf(t))) ELSE r
BinaryOf(op, lhs, rhs, ltyp, rtyp) ==
  CASE ltyp = None \/ rtyp = None -> Failing(lhs, "error")
    [] ~Matches(ltyp, rtyp) \/ op \in Logic -> Failing(Also(lhs, rhs), "error")
    [] OTHER -> Arith(op, lhs, rhs)
GenBinary(t, m) ==
  LET l == Gen(t.kids[1], m)
      r == Gen(t.kids[2], l.mem) IN
    BinaryOf(t.op, LoadedLate(t.kids[1], l, r.mem), LoadedLate(t.kids[2], r, r.mem),
             TypeOf(t.kids[1]), TypeOf(t.kids[2]))

(* The object, with its address at last: `->' loads it unless its type says *)
(* it is loaded, a reference is followed, and a value gets a place.         *)
Reached(o, typ) == IF typ # None /\ o.ty # Lower(typ) THEN Load(o, Lower(typ)) ELSE o
Referred(o, typ) == IF IsRef(typ) THEN Load(o, Lower(Pointee(typ))) ELSE o
Placed(o) == IF IsPointer(o.ty) THEN o ELSE Alloca(o)
MemberBase(arrow, typ) == IF arrow THEN GetBase(typ) ELSE IF IsRef(typ) THEN Pointee(typ) ELSE typ
MemberOf(o, typ, base, f) ==
  CASE o.fail # "no" -> o
    [] typ = None \/ ~HasField(typ, f) \/ base = None \/ GetBase(base) # None -> Failing(o, "error")
    [] OTHER -> StructGep(o, Lower(base), Field(typ, f))
GenMember(t, typ, m) ==
  LET o == Gen(t.kids[1], m)
      arrow == t.op = "->" IN
    MemberOf(Placed(Referred(IF arrow THEN Reached(o, typ) ELSE o, typ)),
             typ, MemberBase(arrow, typ), t.kids[2].op)

ElementOf(obj, i, base, elem) ==
  CASE obj.fail # "no" \/ i.fail # "no" -> Also(obj, i)
    [] obj.ty # Ptr(base) \/ ~IsInt(i.ty) -> Failing(obj, "malformed")
    [] OTHER -> Yield(Ptr(elem), <<obj.v[1] + Signed(i.v[1], i.ty) * Size(elem)>>, i.mem)
GenAccess(t, typ, m) ==
  LET o == Gen(t.kids[1], m)
      obj == IF IsPointer(typ) THEN Load(o, Lower(typ)) ELSE o
      elem == Lower(IF GetBase(typ) = None THEN typ ELSE GetBase(typ)) IN
    IF typ = None THEN Failing(o, "error")
    ELSE ElementOf(obj, Operand(t.kids[2], obj.mem), IF IsPointer(typ) THEN elem ELSE Lower(typ), elem)

GenDeref(t, typ, m) ==
  LET o == Gen(t.kids[1], m) IN
    CASE o.fail # "no" -> o
      [] ~IsPointer(typ) -> Failing(o, "error")
      [] IsMember(t.kids[1]) -> o
      [] OTHER -> Load(o, Lower(IF o.ty # Lower(typ) THEN typ ELSE Pointee(typ)))

NotOf(o) ==
  CASE o.fail # "no" -> o
    [] ~IsInt(o.ty) -> Failing(o, "malformed")
    [] OTHER -> Yield(I("bool"), <<Bool(o.v[1] = 0)>>, o.mem)

(* The temporary is filled field by field, by name or by position. *)
StoredIn(acc, stored) == [acc EXCEPT !.mem = stored.mem, !.fail = stored.fail]
Initialized(acc, v, typ, fields) ==
  IF acc.fail # "no" \/ v.fail # "no" THEN Also(acc, v)
  ELSE IF fields = {} THEN Failing(acc, "error")
  ELSE StoredIn(acc, Store(v, StructGep(acc, Lower(typ), Min(fields))))
GenInit(t, typ, m) ==
  LET s == GetName(typ)
      tmp == Yield(Ptr(Lower(typ)), <<Len(m) + 1>>, m \o [n \in 1..Size(Lower(typ)) |-> 0])
      Init1(acc, n) ==
        LET k == t.kids[n]
            named == k.op = ".=" IN
          Initialized(acc, Operand(IF named THEN k.kids[2] ELSE k, acc.mem), typ,
            IF named THEN FieldsNamed(s, k.kids[1].op) ELSE {n} \cap DOMAIN Structs[s]) IN
    IF typ = None \/ s \notin DOMAIN Structs THEN Failing(Yield(None, <<0>>, m), "error")
    ELSE FoldLeft(Init1, tmp, [n \in DOMAIN t.kids |-> n])

(* A value whose list, if it is one, is told the type expected here. *)
Given(t, typ, m) ==
  IF t.op = "{}" THEN Load(GenInit(t, typ, m), Lower(typ)) ELSE Operand(t, m)
GivenType(t, typ) == IF t.op = "{}" THEN typ ELSE TypeOf(t)

AssignTo(var, value, matching) ==
  CASE var.fail # "no" -> var
    [] ~matching -> Failing(value, "error")
    [] OTHER -> Store(value, var)
GenAssign(t, typ, m) ==
  LET var == Gen(t.kids[1], m) IN
    AssignTo(var, Given(t.kids[2], typ, var.mem), Matches(typ, GivenType(t.kids[2], typ)))

(* The new variable's place, with the type it is declared with. *)
Declared(val, typ, given) ==
  IF given = None THEN Failing(val, "error") ELSE Alloca(IF typ = Absent THEN val ELSE Cast(val, typ))
GenVarDecl(t, m) ==
  LET typ == t.kids[2] IN
    IF t.kids[3] = Absent THEN Alloca(Yield(Lower(typ), [n \in 1..Size(Lower(typ)) |-> 0], m))
    ELSE Declared(Given(t.kids[3], typ, m), typ, GivenType(t.kids[3], typ))

(* ReturnExpr: a unary operator's result is stored as it is. *)
Returned(value, given) ==
  IF given = None THEN Failing(value, "error")
  ELSE Store(value, Yield(Ptr(Lower(RetType)), <<1>>, value.mem))
GenReturn(k, m) ==
  Returned(IF IsUnary(k, "*") \/ IsUnary(k, "!") \/ IsUnary(k, "&") THEN Gen(k, m) ELSE Given(k, RetType, m),
           GivenType(k, RetType))

GenCall(t, m) ==
  LET f == Functions[t.kids[1].op] IN Yield(Lower(f.typ), f.v, Overwrite(m, f.sets[1], <<f.sets[2]>>))

Gen(t, m) ==
  CASE IsId(t) /\ t.op \in DOMAIN Vars ->
         LET v == Vars[t.op]
             place == Yield(Ptr(Lower(v.typ)), <<v.at>>, m) IN
           IF IsRef(v.typ) THEN Load(place, Lower(v.typ)) ELSE place
    [] IsNumber(t) ->
         Unless(Yield(I("i32"), <<Numeral[t.op]>>, m), Numeral[t.op] < 2^(Width["i32"] - 1), "error")
    [] IsMember(t) -> GenMember(t, TypeOf(t.kids[1]), m)
    [] t.op = "[" -> GenAccess(t, TypeOf(t.kids[1]), m)
    [] IsUnary(t, "*") -> GenDeref(t, TypeOf(t.kids[1]), m)
    [] IsUnary(t, "&") -> Gen(t.kids[1], m)
    [] IsUnary(t, "!") -> NotOf(Operand(t.kids[1], m))
    [] t.op = "cast" -> Cast(Operand(t.kids[2], m), t.kids[1])
    [] IsBinary(t) -> GenBinary(t, m)
    [] t.op = "=" -> GenAssign(t, TypeOf(t.kids[1]), m)
    [] t.op = "call" /\ t.kids[1].op \in DOMAIN Functions -> GenCall(t, m)
    [] t.op = "::" /\ t.kids[1].op \in DOMAIN Enums /\ t.kids[2].op \in Range(Enums[t.kids[1].op]) ->
         Yield(I("i32"), <<(CHOOSE n \in DOMAIN Enums[t.kids[1].op] : Enums[t.kids[1].op][n] = t.kids[2].op) - 1>>, m)
    [] t.op \in Lets -> GenVarDecl(t, m)
    [] t.op = "ret" /\ t.kids # <<>> -> GenReturn(t.kids[1], m)
    [] OTHER -> Failing(Yield(None, <<0>>, m), "error")

-----------------------------------------------------------------------------
Pending == Failing(Yield(None, <<>>, Memory), "pending")

Init ==
  /\ ParserInit
  /\ outcome = Pending

ParseStatement ==
  /\ Parse
  /\ UNCHANGED outcome

Generate ==
  /\ tree \notin {Unparsed, Rejected}
  /\ outcome = Pending
  /\ outcome' = Gen(tree, Memory)
  /\ UNCHANGED parserVars

Next == ParseStatement \/ Generate

Spec == Init /\ [][Next]_codeVars
=============================================================================

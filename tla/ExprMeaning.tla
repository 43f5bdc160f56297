---------------------------- MODULE ExprMeaning ----------------------------
(***************************************************************************)
(* What the code of an expression is held against: the meaning the         *)
(* language intends.  An expression is a place, or a value, of a Lygos     *)
(* type; a variable of a reference type is the place it refers to;         *)
(* operands are evaluated from left to right; integers have their sign.    *)
(* Nothing here knows when the compiler loads.                             *)
(***************************************************************************)
EXTENDS ExprCode

RECURSIVE Mean(_, _), Subtrees(_)

Meaning(typ, lv, v, m) == [typ |-> typ, lv |-> lv, v |-> v, mem |-> m, ok |-> TRUE]
Senseless == [typ |-> None, lv |-> FALSE, v |-> <<0>>, mem |-> Memory, ok |-> FALSE]
Place(typ, a, m) == Meaning(typ, TRUE, <<a>>, m)
When(r, ok, s) == IF r.ok /\ ok THEN s ELSE Senseless

Read(r, n) ==
  IF ~r.lv THEN r
  ELSE When(r, InMemory(r.mem, r.v[1], n), Meaning(r.typ, FALSE, Cells(r.mem, r.v[1], n), r.mem))
RValue(r) == Read(r, Size(Lower(r.typ)))
Target(p) == When(p, IsPointer(p.typ), Place(Pointee(p.typ), p.v[1], p.mem))
Follow(r) == IF IsRef(r.typ) THEN Target(RValue(r)) ELSE r

Number(v, typ) == IF typ.op \in Unsigned THEN v[1] ELSE Signed(v[1], typ)
Convert(v, src, dest) ==
  IF IsInt(Lower(src)) /\ IsInt(Lower(dest)) THEN <<Mod(Number(v, src), dest)>> ELSE Converted(v, Lower(src), Lower(dest))

MeanField(o, typ, at) ==
  IF o.lv THEN Place(typ, o.v[1] + at, o.mem)
  ELSE Meaning(typ, FALSE, Cells(o.v, at + 1, Size(Lower(typ))), o.mem)
MeanMember(o, f) ==
  LET n == Field(o.typ, f) IN
    When(o, IsStruct(o.typ) /\ HasField(o.typ, f),
         MeanField(o, Structs[o.typ.op][n].typ, Offset(o.typ.op, n)))

MeanElement(o, base, elem, i) ==
  When(o, i.ok /\ base.ok /\ IsInt(Lower(i.typ)) /\ (IF IsArray(o.typ) THEN o.lv ELSE o.typ.op = "*"),
       Place(elem, base.v[1] + Number(i.v, i.typ) * Size(Lower(elem)), i.mem))

MeanOperation(op, typ, l, r, m) ==
  CASE op \in Comparisons -> Meaning(I("bool"), FALSE, <<Compare(op, l, r)>>, m)
    [] op \in {"/", "%"} /\ r = 0 -> Senseless
    [] OTHER -> Meaning(typ, FALSE, <<Mod(Compute(op, l, r), Lower(typ))>>, m)
Operative(r) == IF IsInt(Lower(r.typ)) THEN Number(r.v, r.typ) ELSE r.v[1]
MeanBinary(op, l, r) ==
  When(l, r.ok /\ Matches(l.typ, r.typ) /\ op \notin Logic
             /\ (IsInt(Lower(l.typ)) \/ (IsPointer(l.typ) /\ op \in Comparisons)),
       MeanOperation(op, l.typ, Operative(l), Operative(r), r.mem))

MeanNot(v) == When(v, IsInt(Lower(v.typ)), Meaning(I("bool"), FALSE, <<Bool(v.v[1] = 0)>>, v.mem))
MeanCast(v, typ) ==
  When(v, Converts(Lower(v.typ), Lower(typ)), Meaning(typ, FALSE, Convert(v.v, v.typ, typ), v.mem))

Filled(acc, typ, n, v) ==
  When(acc, v.ok /\ Matches(v.typ, Structs[typ.op][n].typ),
       Meaning(typ, FALSE, Overwrite(acc.v, Offset(typ.op, n) + 1, v.v), v.mem))
MeanList(t, typ, m) ==
  LET Fill(acc, n) ==
        LET k == t.kids[n]
            named == k.op = ".=" IN
          IF IF named THEN HasField(typ, k.kids[1].op) ELSE n <= Len(Structs[typ.op])
            THEN Filled(acc, typ, IF named THEN Field(typ, k.kids[1].op) ELSE n,
                        RValue(Mean(IF named THEN k.kids[2] ELSE k, acc.mem)))
            ELSE Senseless IN
    IF ~IsStruct(typ) THEN Senseless
    ELSE FoldLeft(Fill, Meaning(typ, FALSE, [n \in 1..Size(typ) |-> 0], m), [n \in DOMAIN t.kids |-> n])
MeanGiven(t, typ, m) == IF t.op = "{}" THEN MeanList(t, typ, m) ELSE RValue(Mean(t, m))

MeanStore(p, r) ==
  When(p, r.ok /\ p.lv /\ Matches(p.typ, r.typ) /\ InMemory(r.mem, p.v[1], Len(r.v)),
        [p EXCEPT !.mem = Overwrite(r.mem, p.v[1], r.v)])

MeanDecl(t, m) ==
  IF t.kids[3] = Absent THEN Meaning(t.kids[2], FALSE, [n \in 1..Size(Lower(t.kids[2])) |-> 0], m)
  ELSE IF t.kids[2] = Absent THEN MeanGiven(t.kids[3], t.kids[2], m)
  ELSE MeanCast(MeanGiven(t.kids[3], t.kids[2], m), t.kids[2])

Mean(t, m) ==
  LET o == Mean(t.kids[1], m) IN
    CASE IsId(t) /\ t.op \in DOMAIN Vars -> Follow(Place(Vars[t.op].typ, Vars[t.op].at, m))
      [] IsNumber(t) /\ Numeral[t.op] < 2^(Width["i32"] - 1) -> Meaning(I("i32"), FALSE, <<Numeral[t.op]>>, m)
      [] IsMember(t) -> MeanMember(IF t.op = "." THEN Follow(o) ELSE Target(RValue(o)), t.kids[2].op)
      [] t.op = "[" ->
           MeanElement(o, IF IsArray(o.typ) THEN o ELSE RValue(o), GetBase(o.typ), RValue(Mean(t.kids[2], o.mem)))
      [] IsUnary(t, "*") -> Target(RValue(o))
      [] IsUnary(t, "&") -> When(o, o.lv, Meaning(Ptr(o.typ), FALSE, o.v, o.mem))
      [] IsUnary(t, "!") -> MeanNot(RValue(o))
      [] t.op = "cast" -> MeanCast(RValue(Mean(t.kids[2], m)), t.kids[1])
      [] IsBinary(t) -> MeanBinary(t.op, RValue(o), RValue(Mean(t.kids[2], RValue(o).mem)))
      [] t.op = "=" -> MeanStore(o, MeanGiven(t.kids[2], o.typ, o.mem))
      [] t.op = "call" /\ t.kids[1].op \in DOMAIN Functions ->
           LET f == Functions[t.kids[1].op] IN Meaning(f.typ, FALSE, f.v, Overwrite(m, f.sets[1], <<f.sets[2]>>))
      [] t.op = "::" /\ t.kids[1].op \in DOMAIN Enums /\ t.kids[2].op \in Range(Enums[t.kids[1].op]) ->
           Meaning(t.kids[1], FALSE, <<(CHOOSE n \in DOMAIN Enums[t.kids[1].op] : Enums[t.kids[1].op][n] = t.kids[2].op) - 1>>, m)
      [] t.op \in Lets -> MeanDecl(t, m)
      [] t.op = "ret" /\ t.kids # <<>> -> MeanStore(Place(RetType, 1, m), MeanGiven(t.kids[1], RetType, m))
      [] OTHER -> Senseless

-----------------------------------------------------------------------------
(* Classes of expressions. *)
Subtrees(t) == {t} \cup UNION {Subtrees(t.kids[n]) : n \in DOMAIN t.kids}

(* A place, so that its code is an address still to be loaded. *)
IsPlace(t) == IsId(t) \/ IsMember(t) \/ t.op = "[" \/ IsUnary(t, "*")
IsDeref(t) == IsUnary(t, "*")

(***************************************************************************)
(* The forms the compiler has code for.  It has none for: indexing or      *)
(* dereferencing a pointer that is not read from a place; dereferencing a  *)
(* member (parser.rs:19 names it); `.' on a field that is a reference; the *)
(* result of an assignment or of `!' as an operand.  For ret, which loads  *)
(* no unary operator's result, it is the other way round.                  *)
(***************************************************************************)
Supported(t) ==
  LET plain == IF t.op = "ret" /\ t.kids # <<>> /\ (IsDeref(t.kids[1]) \/ IsUnary(t.kids[1], "!"))
                 THEN Subtrees(t.kids[1]) \ {t.kids[1]} ELSE Subtrees(t) IN
    /\ t.op = "ret" /\ t.kids # <<>> /\ IsDeref(t.kids[1]) => ~IsPlace(t.kids[1].kids[1])
    /\ \A k \in plain :
         /\ k.op = "[" /\ IsPointer(TypeOf(k.kids[1])) => IsPlace(k.kids[1])
         /\ IsDeref(k) => IsPlace(k.kids[1]) /\ ~IsMember(k.kids[1])
         /\ IsMember(k) /\ k.op = "." => ~IsRef(TypeOf(k.kids[1]))
         /\ k.op = "=" => k = t
         /\ ~IsUnary(k, "!")

(***************************************************************************)
(* What the compiler computes otherwise than written: >= as >; unsigned    *)
(* operands of a division, a comparison or a widening as signed; a left    *)
(* operand that is a place after the calls in the right one; and through   *)
(* `->' on a field that is a reference, a copy is written or pointed to.   *)
(***************************************************************************)
HasCall(t) == \E k \in Subtrees(t) : k.op = "call"
Widens(t, typ) ==
  LET src == TypeOf(t).op IN
    src \in Unsigned /\ typ.op \in DOMAIN Width /\ Width[typ.op] > Width[src]
AsWritten(t) ==
  \A k \in Subtrees(t) :
    /\ k.op = "cast" => ~Widens(k.kids[2], k.kids[1])
    /\ k.op \in Lets => ~Widens(k.kids[3], k.kids[2])
    /\ IsBinary(k) =>
         /\ k.op # ">="
         /\ TypeOf(k.kids[1]).op \in Unsigned => k.op \in {"==", "!=", "+", "-", "*"}
         /\ ~(IsPlace(k.kids[1]) /\ HasCall(k.kids[2]))
    /\ k.op = "->" /\ IsRef(TypeOf(k.kids[1])) =>
         t.op # "=" /\ \A j \in Subtrees(t) : ~IsUnary(j, "&")

Ran == outcome # Pending
Visible(m) == Cells(m, 1, Len(Memory))
SameEffect(mean) ==
  /\ Visible(outcome.mem) = Visible(mean.mem)
  /\ tree.op \in Lets =>
       Cells(outcome.mem, outcome.v[1], Size(Lower(mean.typ))) = mean.v

(***************************************************************************)
(* Every expression that has a meaning, in the forms the compiler has code *)
(* for, compiles to well-typed code with that meaning: each operand is     *)
(* loaded exactly when it is a place, once, with the type it has, although *)
(* get_type, should_load and gen_code are three separate walks.            *)
(***************************************************************************)
ComputesMeaning ==
  Ran /\ Supported(tree) /\ AsWritten(tree) =>
    LET mean == Mean(tree, Memory) IN
      mean.ok => outcome.fail = "no" /\ SameEffect(mean)

(***************************************************************************)
(* And outside those forms: an expression the compiler accepts, with code  *)
(* LLVM finds well typed, never computes something else than it says.      *)
(***************************************************************************)
NeverSilentlyWrong ==
  Ran /\ outcome.fail = "no" /\ AsWritten(tree) =>
    LET mean == Mean(tree, Memory) IN mean.ok => SameEffect(mean)
=============================================================================

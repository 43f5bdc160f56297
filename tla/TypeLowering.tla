---------------------------- MODULE TypeLowering ----------------------------
(***************************************************************************)
(* Lowering of the program's types to LLVM: Scope::resolve_type            *)
(* (src/src/ast/scope.rs:170-229).  A struct becomes an LLVM struct that   *)
(* is created opaque, remembered in Struct.generated, and given its body   *)
(* once its fields' types are lowered, which may ask for the struct again; *)
(* aliases and enums are not remembered.                                   *)
(*                                                                         *)
(* One step is one turn of the recursion; stack holds its frames.  A type  *)
(* is a name wrapped in pointers (function pointers included) or arrays    *)
(* (slices included, which hold an element), or not at all.                *)
(***************************************************************************)
EXTENDS Naturals, Sequences, SequencesExt, FiniteSets

CONSTANTS
  Names,      \* the names of structs, aliases and enums
  Base,       \* stands for every basic type
  Programs,   \* the choices of a definition for every name
  MaxDepth    \* the recursion the stack has room for

Wraps == {"path", "array", "ptr"}
Type(wrap, name) == [wrap |-> wrap, name |-> name]

(* parts: a struct's field types, the type of an alias or an enum. *)
Def(kind, parts) == [kind |-> kind, parts |-> parts]
Kinds == {"struct", "alias", "none"}

(* The parser gives an alias, and an enum, exactly one type.               *)
Types == [wrap : Wraps, name : Names \cup {Base}]
ASSUME LoweringAssumption ==
  /\ Base \notin Names
  /\ IsFiniteSet(Names)
  /\ MaxDepth \in Nat \ {0}
  /\ Programs \subseteq [Names -> [kind : Kinds, parts : Seq(Types)]]
  /\ \A p \in Programs, n \in Names : p[n].kind = "alias" => Len(p[n].parts) = 1

(* The stack has room for any recursion that meets each struct once and no *)
(* name oftener than twice.                                                *)
ASSUME StackAssumption == MaxDepth >= 2 * Cardinality(Names)

VARIABLES
  defs,       \* the symbols
  made,       \* the structs whose Struct.generated is set
  bodies,     \* the bodies given to LLVM structs, <<>> before
  stack,      \* calls of resolve_type under way: the name, the parts lowered
  asked,      \* history: the names the code generator has had lowered
  phase       \* "run", "error" (unknown type) or "overflow" (of the stack)

vars == <<defs, made, bodies, stack, asked, phase>>

(* An LLVM type: a struct or basic type, behind pointers or held. *)
Lowered(ptr, to) == [ptr |-> ptr, to |-> to]

Top == stack[Len(stack)]
TopDef == defs[Top.name]
Part == TopDef.parts[Len(Top.done) + 1]
InPart == stack # <<>> /\ Len(Top.done) < Len(TopDef.parts)

-----------------------------------------------------------------------------
(***************************************************************************)
(* is_self_referential (src/src/ast/struct.rs:47-56) has refused structs   *)
(* with a field of their own type.                                         *)
(***************************************************************************)
SelfReferential(p, n) ==
  p[n].kind = "struct" /\ \E k \in DOMAIN p[n].parts : p[n].parts[k] = Type("path", n)

Init ==
  /\ defs \in {p \in Programs : \A n \in Names : ~SelfReferential(p, n)}
  /\ made = {}
  /\ bodies = [n \in Names |-> <<>>]
  /\ stack = <<>>
  /\ asked = {}
  /\ phase = "run"

(* A call with a name that is not lowered yet, or is an alias or an enum. *)
Opaque_Late(n) == made
Opaque(n) == IF defs[n].kind = "struct" THEN made \cup {n} ELSE made
Enter(n) ==
  /\ IF defs[n].kind = "none" THEN phase' = "error" /\ UNCHANGED <<made, stack>>
     ELSE IF Len(stack) = MaxDepth THEN phase' = "overflow" /\ UNCHANGED <<made, stack>>
     ELSE /\ made' = Opaque(n)
          /\ stack' = Append(stack, [name |-> n, done |-> <<>>])
          /\ UNCHANGED phase
  /\ UNCHANGED <<defs, bodies>>

(* The code generator asks for the type of a variable, a parameter, .. *)
Ask(n) ==
  /\ phase = "run"
  /\ stack = <<>>
  /\ n \notin made
  /\ n \notin asked
  /\ Enter(n)
  /\ asked' = asked \cup {n}

(* The part under way of the top frame has been lowered to l. *)
Through_Bare(part, l) == Lowered(part.wrap = "ptr", l.to)
Through(part, l) == Lowered(part.wrap = "ptr" \/ l.ptr, l.to)
PartDone(frames, l) ==
  IF frames = <<>> THEN frames
  ELSE LET t == Last(frames)
           part == defs[t.name].parts[Len(t.done) + 1]
       IN Append(Front(frames), [t EXCEPT !.done = Append(@, Through(part, l))])

(* Basic types, and structs already made, are answered at once. *)
AnswerPart ==
  /\ phase = "run" /\ InPart
  /\ Part.name = Base \/ Part.name \in made
  /\ stack' = PartDone(stack, Lowered(FALSE, Part.name))
  /\ UNCHANGED <<defs, made, bodies, asked, phase>>

EnterPart ==
  /\ phase = "run" /\ InPart
  /\ Part.name # Base /\ Part.name \notin made
  /\ Enter(Part.name)
  /\ UNCHANGED asked

FinishStruct ==
  /\ phase = "run" /\ stack # <<>> /\ ~InPart
  /\ TopDef.kind = "struct"
  /\ bodies' = [bodies EXCEPT ![Top.name] = Top.done]
  /\ made' = made \cup {Top.name}
  /\ stack' = PartDone(Front(stack), Lowered(FALSE, Top.name))
  /\ UNCHANGED <<defs, asked, phase>>

FinishAlias ==
  /\ phase = "run" /\ stack # <<>> /\ ~InPart
  /\ TopDef.kind = "alias"
  /\ stack' = PartDone(Front(stack), Top.done[1])
  /\ UNCHANGED <<defs, made, bodies, asked, phase>>

Next ==
  \/ \E n \in Names : Ask(n)
  \/ AnswerPart \/ EnterPart \/ FinishStruct \/ FinishAlias

Spec == Init /\ [][Next]_vars

-----------------------------------------------------------------------------
(* Properties. *)

Idle == phase = "run" /\ stack = <<>>

(* What name n stands for, aliases followed. *)
Denotes(n) ==
  LET hop[k \in 0..Cardinality(Names)] ==
        IF k = 0 THEN Lowered(FALSE, n)
        ELSE LET l == hop[k - 1] IN
             IF l.to \in Names /\ defs[l.to].kind = "alias"
               THEN Lowered(l.ptr \/ defs[l.to].parts[1].wrap = "ptr", defs[l.to].parts[1].name)
               ELSE l
  IN hop[Cardinality(Names)]
OnAliasCycle(n) == Denotes(n).to \in Names /\ defs[Denotes(n).to].kind = "alias"

Parts(n) == {defs[n].parts[k].name : k \in DOMAIN defs[n].parts} \ {Base}
Reached(n) ==
  LET within[k \in 0..Cardinality(Names)] ==
        IF k = 0 THEN {n} ELSE within[k - 1] \cup UNION {Parts(m) : m \in within[k - 1]}
  IN within[Cardinality(Names)]

(***************************************************************************)
(* Whenever resolve_type has returned to the code generator, no struct is  *)
(* left opaque: every struct made has the body its definition asks for,    *)
(* each field the struct its type names through aliases, and the structs   *)
(* these bodies mention are made as well.                                  *)
(***************************************************************************)
BodiesComplete ==
  Idle => \A n \in made :
    /\ Len(bodies[n]) = Len(defs[n].parts)
    /\ \A k \in DOMAIN bodies[n] :
         LET d == Denotes(defs[n].parts[k].name) IN
           /\ bodies[n][k] = Lowered(defs[n].parts[k].wrap = "ptr" \/ d.ptr, d.to)
           /\ d.to \in made \cup {Base}

(***************************************************************************)
(* The recursion ends for every program whose aliases and enums are not    *)
(* defined by themselves, structs that point to one another included, and  *)
(* for no other program that uses such a name.                             *)
(***************************************************************************)
OverflowsOnlyOnAliasCycles ==
  /\ phase = "overflow" => \E n \in asked : \E m \in Reached(n) : OnAliasCycle(m)
  /\ Idle => ~ \E n \in asked : \E m \in Reached(n) : OnAliasCycle(m)

(***************************************************************************)
(* What the error "cannot self referece" (struct.rs:77) promises: no       *)
(* struct that is lowered holds itself.                                    *)
(***************************************************************************)
SelfReferenceReported ==
  Idle => \A n \in made : \A k \in DOMAIN bodies[n] : bodies[n][k] # Lowered(FALSE, n)
=============================================================================

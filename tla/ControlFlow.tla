----------------------------- MODULE ControlFlow -----------------------------
(***************************************************************************)
(* Code generation of structured control flow into LLVM basic blocks:      *)
(* Function::gen_code and ClosureExpr::gen_code (src/src/ast/function.rs), *)
(* IfStmt, ForStmt and BreakExpr (src/src/ast/control_flow.rs) and         *)
(* ReturnExpr (src/src/ast/call.rs), over the IR builder of src/llvm.      *)
(*                                                                         *)
(* One step is the code run between two AST items: pc is the next item,    *)
(* frames the recursion of gen_code over nested blocks.  An instruction    *)
(* keeps its kind, the blocks it names and the item it was emitted for.    *)
(***************************************************************************)
EXTENDS FunctionBody, FiniteSets

VARIABLES
  pc,               \* the item to generate next
  nfuncs,           \* LLVM functions created in the module
  nblocks,          \* basic blocks created
  owner,            \* the LLVM function a block was created in
  code,             \* a block's instructions
  attached,         \* blocks not removed from their function
  insert,           \* the builder's insertion point (always a block's end)
  frames,           \* the gen_code calls under way, outermost first
  breakPoints,      \* GenerationContext.current_break_point
  currentFunction,  \* GenerationContext.current_function, 0 when null
  retBlock          \* Function.ret_block of the function at an item, 0 for None

genVars == <<pc, nfuncs, nblocks, owner, code, attached, insert, frames,
             breakPoints, currentFunction, retBlock>>
vars == <<bodyVars, genVars>>

Terminators == {"br", "condbr", "ret"}
Instr == [op : Terminators \cup {"inst", "store"}, item : Nat, yes : Nat, no : Nat]
Ins(op, yes, no) == [op |-> op, item |-> pc, yes |-> yes, no |-> no]
Named(i) == {i.yes, i.no} \ {0}

(***************************************************************************)
(* A call of gen_code under way: the item, the block its body or current   *)
(* arm began in (for a loop the test's), and the blocks f and m of an if   *)
(* or the exit m of a loop.                                                *)
(***************************************************************************)
Frame == [item : Nat, head : Nat, f : Nat, m : Nat]
Top == frames[Len(frames)]
Pop == SubSeq(frames, 1, Len(frames) - 1)

-----------------------------------------------------------------------------
(* The IR builder and the blocks of src/llvm. *)

(* BasicBlock::new, n times, in function f. *)
NewBlocks(n, f) ==
  /\ nblocks' = nblocks + n
  /\ owner' = [b \in 1..(nblocks + n) |-> IF b <= nblocks THEN owner[b] ELSE f]
Grow_Unmade(c, n) == c
Grow(c, n) == [b \in 1..(nblocks + n) |-> IF b <= nblocks THEN c[b] ELSE <<>>]
Emit(c, b, i) == [c EXCEPT ![b] = Append(@, i)]

(* get_terminator: the last instruction, if it is a terminator. *)
HasTerminator(c, b) == Len(c[b]) > 0 /\ c[b][Len(c[b])].op \in Terminators

(* has_n_uses(0) *)
Unused_OffByOne(c, b) ==
  \A x, y \in DOMAIN c : \A k \in DOMAIN c[x], j \in DOMAIN c[y] :
    b \in Named(c[x][k]) \cap Named(c[y][j]) => <<x, k>> = <<y, j>>
Unused(c, b) ==
  \A x \in DOMAIN c : \A k \in DOMAIN c[x] : b \notin Named(c[x][k])

-----------------------------------------------------------------------------
GenInit ==
  /\ pc = 1
  /\ nfuncs = 0
  /\ nblocks = 0
  /\ owner = <<>>
  /\ code = <<>>
  /\ attached = {}
  /\ insert = 0
  /\ frames = <<>>
  /\ breakPoints = <<>>
  /\ currentFunction = 0
  /\ retBlock = [i \in 1..MaxItems |-> 0]

At(op) ==
  /\ phase = "gen"
  /\ pc <= Len(ast)
  /\ ast[pc].op = op

Step(ph) ==
  /\ pc' = pc + 1
  /\ phase' = ph
  /\ UNCHANGED <<ast, opened, currentBlock>>

OnlyEmits ==
  UNCHANGED <<nfuncs, nblocks, owner, attached, insert, frames, breakPoints,
              currentFunction, retBlock>>

(***************************************************************************)
(* Function::gen_code up to the body: the LLVM function, its entry block   *)
(* and current_function.  A closure first creates an empty function of its *)
(* own, whose address is the value of the expression.                      *)
(***************************************************************************)
BeginFunction ==
  /\ At("fn") \/ At("closure")
  /\ nfuncs' = IF ast[pc].op = "fn" THEN nfuncs + 1 ELSE nfuncs + 2
  /\ NewBlocks(1, nfuncs')
  /\ code' = Grow(code, 1)
  /\ attached' = attached \cup {nblocks + 1}
  /\ insert' = nblocks + 1
  /\ frames' = Append(frames, [item |-> pc, head |-> nblocks + 1, f |-> 0, m |-> 0])
  /\ currentFunction' = pc
  /\ Step("gen")
  /\ UNCHANGED <<breakPoints, retBlock>>

(***************************************************************************)
(* The rest of Function::gen_code: the function's ret block, if one was    *)
(* created, becomes the insertion point and the ret is emitted.  After a   *)
(* closure the enclosing statement uses its value at that same insertion   *)
(* point; current_function and the insertion point are not restored.       *)
(***************************************************************************)
EndFunction ==
  /\ At("end")
  /\ ast[Top.item].op \in {"fn", "closure"}
  /\ LET b == IF retBlock[Top.item] # 0 THEN retBlock[Top.item] ELSE insert
         done == Emit(code, b, Ins("ret", 0, 0))
     IN /\ insert' = b
        /\ code' = IF ast[Top.item].op = "fn"
                     THEN done ELSE Emit(done, b, Ins("inst", 0, 0))
  /\ frames' = Pop
  /\ Step(IF ast[Top.item].op = "fn" THEN "done" ELSE "gen")
  /\ UNCHANGED <<nfuncs, nblocks, owner, attached, breakPoints,
                 currentFunction, retBlock>>

Statement ==
  /\ At("stmt")
  /\ code' = Emit(code, insert, Ins("inst", 0, 0))
  /\ OnlyEmits
  /\ Step("gen")

(* `return;': without a ret block nothing is emitted. *)
Return ==
  /\ At("return")
  /\ code' = IF retBlock[currentFunction] = 0 THEN code
             ELSE Emit(code, insert, Ins("br", retBlock[currentFunction], 0))
  /\ OnlyEmits
  /\ Step("gen")

(* get_return_alloc walks the scopes up to the outermost function's. *)
ReturnAlloc ==
  \E k \in DOMAIN frames :
    ast[frames[k].item].op \in {"fn", "closure"} /\ ~ast[frames[k].item].void

(* `return value;': an error where no scope has a return slot. *)
ReturnValue ==
  /\ At("returnv")
  /\ IF ReturnAlloc
       THEN LET stored == Emit(code, insert, Ins("store", 0, 0))
            IN /\ code' = IF retBlock[currentFunction] = 0 THEN stored
                          ELSE Emit(stored, insert,
                                    Ins("br", retBlock[currentFunction], 0))
               /\ Step("gen")
       ELSE UNCHANGED code /\ Step("error")
  /\ OnlyEmits

(* The exit of the loop entered last. *)
BreakPoint_Outermost == breakPoints[1]
BreakPoint == breakPoints[Len(breakPoints)]

Break ==
  /\ At("break")
  /\ IF breakPoints # <<>>
       THEN code' = Emit(code, insert, Ins("br", BreakPoint, 0)) /\ Step("gen")
       ELSE UNCHANGED code /\ Step("error")
  /\ OnlyEmits

-----------------------------------------------------------------------------
(* The if at item i asks for a ret block: one of its own blocks returns. *)
AsksForRet(i) ==
  ast[i].returns \/ (ast[i].els # 0 /\ ast[ast[i].els].returns)

(* Only the first such if of a function creates the block. *)
NeedsRet_Always(i) == AsksForRet(i)
NeedsRet(i) == AsksForRet(i) /\ retBlock[currentFunction] = 0

(***************************************************************************)
(* IfStmt::gen_code up to the then-body: the ret block of current_function *)
(* on first need, then blocks t, f and m and the conditional branch.       *)
(***************************************************************************)
BeginIf ==
  /\ At("if")
  /\ LET n == IF NeedsRet(pc) THEN 4 ELSE 3
         t == nblocks + n - 2
         f == nblocks + n - 1
         m == nblocks + n
     IN /\ NewBlocks(n, owner[insert])
        /\ attached' = attached \cup (nblocks + 1)..(nblocks + n)
        /\ retBlock' = IF NeedsRet(pc)
             THEN [retBlock EXCEPT ![currentFunction] = nblocks + 1]
             ELSE retBlock
        /\ code' = Emit(Grow(code, n), insert,
                        Ins("condbr", t, IF ast[pc].els # 0 THEN f ELSE m))
        /\ insert' = t
        /\ frames' = Append(frames, [item |-> pc, head |-> t, f |-> f, m |-> m])
  /\ Step("gen")
  /\ UNCHANGED <<nfuncs, breakPoints, currentFunction>>

(***************************************************************************)
(* The end of an arm that began in block head: the branch to m, unless     *)
(* both head and the insertion point end in a terminator.                  *)
(***************************************************************************)
JoinArm_HeadOnly(c, head, m) ==
  IF ~HasTerminator(c, head) THEN Emit(c, insert, Ins("br", m, 0)) ELSE c
JoinArm(c, head, m) ==
  IF ~HasTerminator(c, head) \/ ~HasTerminator(c, insert)
    THEN Emit(c, insert, Ins("br", m, 0)) ELSE c

BeginElse ==
  /\ At("else")
  /\ ast[Top.item].op = "if"
  /\ code' = JoinArm(code, Top.head, Top.m)
  /\ insert' = Top.f
  /\ frames' = [frames EXCEPT ![Len(frames)].head = Top.f]
  /\ Step("gen")
  /\ UNCHANGED <<nfuncs, nblocks, owner, attached, breakPoints,
                 currentFunction, retBlock>>

(***************************************************************************)
(* The end of the if: without an else f is removed; m is removed when      *)
(* nothing branches to it, and is the insertion point otherwise.           *)
(***************************************************************************)
EndIf ==
  /\ At("end")
  /\ ast[Top.item].op = "if"
  /\ LET removed == IF ast[Top.item].els = 0 THEN {Top.f} ELSE {}
         dead == Unused(code', Top.m)
     IN /\ code' = JoinArm(code, Top.head, Top.m)
        /\ attached' = attached \ (removed \cup IF dead THEN {Top.m} ELSE {})
        /\ insert' = IF dead THEN insert ELSE Top.m
  /\ frames' = Pop
  /\ Step("gen")
  /\ UNCHANGED <<nfuncs, nblocks, owner, breakPoints, currentFunction, retBlock>>

(***************************************************************************)
(* ForStmt::gen_code up to the body: its three blocks, the variable's      *)
(* initialisation and the test in a block of its own.                      *)
(***************************************************************************)
BeginFor ==
  /\ At("for")
  /\ LET cond == nblocks + 1
         body == nblocks + 2
         merge == nblocks + 3
         init == Emit(Emit(Grow(code, 3), insert, Ins("inst", 0, 0)),
                      insert, Ins("br", cond, 0))
     IN /\ NewBlocks(3, owner[insert])
        /\ attached' = attached \cup cond..merge
        /\ code' = Emit(init, cond, Ins("condbr", body, merge))
        /\ insert' = body
        /\ breakPoints' = Append(breakPoints, merge)
        /\ frames' = Append(frames, [item |-> pc, head |-> cond, f |-> 0, m |-> merge])
  /\ Step("gen")
  /\ UNCHANGED <<nfuncs, currentFunction, retBlock>>

(* The back edge is emitted whatever the body ended in. *)
EndFor ==
  /\ At("end")
  /\ ast[Top.item].op = "for"
  /\ code' = Emit(code, insert, Ins("br", Top.head, 0))
  /\ breakPoints' = SubSeq(breakPoints, 1, Len(breakPoints) - 1)
  /\ insert' = Top.m
  /\ frames' = Pop
  /\ Step("gen")
  /\ UNCHANGED <<nfuncs, nblocks, owner, attached, currentFunction, retBlock>>

-----------------------------------------------------------------------------
Init == BodyInit /\ GenInit

Generate ==
  \/ BeginFunction \/ EndFunction
  \/ Statement \/ Return \/ ReturnValue \/ Break
  \/ BeginIf \/ BeginElse \/ EndIf
  \/ BeginFor \/ EndFor

Next ==
  \/ BodyNext /\ UNCHANGED genVars
  \/ Generate

Spec == Init /\ [][Next]_vars /\ WF_vars(Generate)

-----------------------------------------------------------------------------
(* Properties. *)

TypeOK ==
  /\ BodyTypeOK
  /\ pc \in Nat \ {0}
  /\ nfuncs \in Nat
  /\ nblocks \in Nat
  /\ owner \in [1..nblocks -> Nat]
  /\ code \in [1..nblocks -> Seq(Instr)]
  /\ attached \subseteq 1..nblocks
  /\ insert \in 0..nblocks
  /\ frames \in Seq(Frame)
  /\ breakPoints \in Seq(Nat)
  /\ currentFunction \in 0..MaxItems
  /\ retBlock \in [1..MaxItems -> Nat]

(***************************************************************************)
(* No instruction names a block that was removed from its function, at any *)
(* point of the generation and for every source, clean or not: IfStmt      *)
(* removes f and m with remove_from_parent and LLVM would keep a branch to *)
(* a block that no function owns.                                          *)
(***************************************************************************)
BranchTargetsAttached ==
  \A b \in DOMAIN code : \A k \in DOMAIN code[b] :
    Named(code[b][k]) \subseteq attached

(***************************************************************************)
(* What makes a block acceptable to the LLVM verifier: one terminator, at  *)
(* its end, naming blocks of the same function.                            *)
(***************************************************************************)
BlockOK(b) ==
  /\ HasTerminator(code, b)
  /\ \A k \in 1..(Len(code[b]) - 1) : code[b][k].op \notin Terminators
  /\ \A t \in Named(code[b][Len(code[b])]) : t \in attached /\ owner[t] = owner[b]
WellFormed == \A b \in attached : BlockOK(b)

(* An if before item i has created the ret block. *)
HasRet(i) == \E j \in 1..(i - 1) : ast[j].op = "if" /\ AsksForRet(j)

(***************************************************************************)
(* Control never gets past item i: it branches away, or it ends an if      *)
(* whose two arms do.                                                      *)
(***************************************************************************)
Leaves[i \in DOMAIN ast] ==
  \/ ast[i].op = "break"
  \/ ast[i].op \in Returns /\ HasRet(i)
  \/ /\ ast[i].op = "end" /\ ast[ast[i].opener].op = "else"
     /\ Leaves[ast[i].opener - 1] /\ Leaves[i - 1]

NoClosure == \A i \in DOMAIN ast : ast[i].op # "closure"

(***************************************************************************)
(* The sources the generator handles: no closure; nothing after a          *)
(* statement control does not get past, the back edge of a loop included;  *)
(* and once an if has asked for a ret block, no falling off the end.       *)
(***************************************************************************)
Clean ==
  /\ NoClosure
  /\ \A i \in 1..(Len(ast) - 1) : Leaves[i] =>
        /\ ast[i + 1].op \in {"else", "end"}
        /\ ast[ast[i + 1].opener].op # "for"
  /\ HasRet(Len(ast)) => Leaves[Len(ast) - 1]

(***************************************************************************)
(* The generated function is well formed exactly for the clean sources.    *)
(* Function::gen_code ignores the result of verify (function.rs:103), so   *)
(* every other source reaches the later LLVM passes as invalid IR.         *)
(***************************************************************************)
WellFormedIffClean == phase = "done" => (WellFormed <=> Clean)

(* The instructions of a kind that were emitted for an item. *)
Issued(op, i) ==
  {x \in UNION {{code[b][k] : k \in DOMAIN code[b]} : b \in DOMAIN code} :
     x.op = op /\ x.item = i}

(* The block control reaches when the loop at item j ends. *)
LoopExit(j) == (CHOOSE x \in Issued("condbr", j) : TRUE).no

(* The loops around item i, and those in its own function or closure. *)
LoopsAround(i) == {j \in DOMAIN ast : ast[j].op = "for" /\ Encloses(j, i)}
OwnLoops(i) ==
  {j \in LoopsAround(i) :
     \A c \in DOMAIN ast : ast[c].op = "closure" /\ Encloses(c, i) => c < j}

(***************************************************************************)
(* Every break that is generated branches to the exit of the innermost     *)
(* loop of its own function or closure, however loops and ifs nest and     *)
(* whatever loops, closures among them, were closed before it: the stack   *)
(* current_break_point agrees with the source.  Only a break in a closure  *)
(* without a loop of its own leaves a loop that is not its function's: the *)
(* innermost one around the closure, whose exit is still on the stack      *)
(* (control_flow.rs:184), where an "invalid break point" is meant (:188).  *)
(***************************************************************************)
BreakLeavesInnermostLoop ==
  \A i \in DOMAIN ast : ast[i].op = "break" =>
    LET loops == IF OwnLoops(i) # {} THEN OwnLoops(i) ELSE LoopsAround(i)
    IN \A x \in Issued("br", i) :
         \E j \in loops : (\A l \in loops : l <= j) /\ x.yes = LoopExit(j)

(***************************************************************************)
(* Which returns leave a finished function: those behind an if with a      *)
(* returning arm, which made the ret block, and they branch to the block   *)
(* that now holds the ret, the one gen_code ended in.  Any other return    *)
(* emits no branch, and what follows it in the source is executed          *)
(* (call.rs:290).  A closure leaves current_function at itself             *)
(* (function.rs:88), so functions that hold one are excepted.              *)
(***************************************************************************)
ReturnsReachRet ==
  phase = "done" /\ NoClosure =>
    \A i \in DOMAIN ast : ast[i].op \in Returns =>
      /\ Issued("br", i) # {} <=> HasRet(i)
      /\ \A x \in Issued("br", i) :
           \E k \in DOMAIN code[x.yes] : code[x.yes][k].op = "ret"
=============================================================================

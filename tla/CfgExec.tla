------------------------------- MODULE CfgExec -------------------------------
(***************************************************************************)
(* Execution of the basic blocks ControlFlow generates, from the entry     *)
(* block's first instruction to a ret, for the sources that Faithful       *)
(* characterises.  It implements SourceExec.                               *)
(***************************************************************************)
EXTENDS ControlFlow

VARIABLES
  at,     \* <<block, position>> of the next instruction that is not a br
  taken   \* the outcome of the last conditional branch

cfgVars == <<vars, at, taken>>

NotStarted == <<0, 0>>
Stopped == <<0, 1>>

(***************************************************************************)
(* A return that no ret block has been created for emits no branch, so it  *)
(* only returns where the function ends anyway.                            *)
(***************************************************************************)
LostReturn ==
  \E i \in DOMAIN ast :
    ast[i].op \in Returns /\ ~HasRet(i) /\ i + 1 # Len(ast)

Faithful == Clean /\ ~LostReturn

(* Follows unconditional branches; every cycle of blocks holds a test. *)
Land(b, k) ==
  LET first[x \in DOMAIN code] ==
        IF code[x][1].op = "br" THEN first[code[x][1].yes] ELSE <<x, 1>>
  IN IF code[b][k].op = "br" THEN first[code[b][k].yes] ELSE <<b, k>>

Here == code[at[1]][at[2]]

ExecInit == Init /\ at = NotStarted /\ taken = FALSE

Call ==
  /\ phase = "done"
  /\ at = NotStarted
  /\ Faithful
  /\ at' = Land(1, 1)
  /\ UNCHANGED <<vars, taken>>

Straight ==
  /\ at[1] # 0
  /\ Here.op \in {"inst", "store"}
  /\ at' = Land(at[1], at[2] + 1)
  /\ UNCHANGED <<vars, taken>>

Branch ==
  /\ at[1] # 0
  /\ Here.op = "condbr"
  /\ taken' \in BOOLEAN
  /\ at' = Land(IF taken' THEN Here.yes ELSE Here.no, 1)
  /\ UNCHANGED vars

Leave ==
  /\ at[1] # 0
  /\ Here.op = "ret"
  /\ at' = Stopped
  /\ UNCHANGED <<vars, taken>>

Running == Straight \/ Branch \/ Leave

ExecNext ==
  \/ Next /\ UNCHANGED <<at, taken>>
  \/ Call
  \/ Running

ExecSpec == ExecInit /\ [][ExecNext]_cfgVars /\ WF_cfgVars(Running)

-----------------------------------------------------------------------------
(* The event of the source that the next instruction stands for. *)
Shown ==
  CASE at = NotStarted -> <<"idle", 0>>
    [] at = Stopped -> <<"halted", 0>>
    [] Here.op = "condbr" -> <<"test", Here.item>>
    [] OTHER -> <<Here.op, Here.item>>

Source == INSTANCE SourceExec WITH todo <- Shown

(***************************************************************************)
(* The generated function executes the source: the same statements, tests  *)
(* and stores in the same order for the same outcomes of its tests, and it *)
(* returns when and only when the source does.                             *)
(***************************************************************************)
ExecutesSource == Source!Spec
=============================================================================

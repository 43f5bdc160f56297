----------------------------- MODULE SourceExec -----------------------------
(***************************************************************************)
(* What a function's source says must happen: structured execution of the  *)
(* AST, against which the generated basic blocks are checked.  The state   *)
(* is the next thing control will do and the outcome of the last test; the *)
(* tests' outcomes are arbitrary.                                          *)
(***************************************************************************)
EXTENDS FunctionBody

VARIABLES
  todo,   \* <<what, item>>: the next visible event, or Idle, or Halted
  taken   \* the outcome of the last test

Idle == <<"idle", 0>>
Halted == <<"halted", 0>>

(* The loop a break at item i leaves. *)
LoopOf(i) ==
  CHOOSE j \in DOMAIN ast :
    /\ ast[j].op = "for" /\ Encloses(j, i)
    /\ \A l \in DOMAIN ast : ast[l].op = "for" /\ Encloses(l, i) => l <= j

(***************************************************************************)
(* The first visible event once control reaches item i: an "inst" of a     *)
(* statement or of a loop's initialisation, a "test", the "store" of a     *)
(* returned value, or the function's "ret".                                *)
(***************************************************************************)
Event ==
  [i \in DOMAIN ast |->
    LET ev[j \in DOMAIN ast] ==
          CASE ast[j].op \in {"stmt", "for"} -> <<"inst", j>>
            [] ast[j].op = "if"      -> <<"test", j>>
            [] ast[j].op = "returnv" -> <<"store", j>>
            [] ast[j].op = "return"  -> <<"ret", Len(ast)>>
            [] ast[j].op = "break"   -> ev[Closer(LoopOf(j)) + 1]
            [] ast[j].op = "else"    -> ev[Closer(j) + 1]
            [] ast[j].op = "end" /\ ast[ast[j].opener].op = "for" ->
                 <<"test", ast[j].opener>>
            [] ast[j].op = "end" /\ ast[ast[j].opener].op \in {"if", "else"} ->
                 ev[j + 1]
            [] OTHER -> <<"ret", Len(ast)>>
    IN ev[i]]

Init == todo = Idle /\ taken = FALSE

(* While the source is being read nothing runs. *)
Wait == todo = Idle /\ UNCHANGED <<todo, taken>>

Start ==
  /\ todo = Idle
  /\ todo' = Event[2]
  /\ UNCHANGED <<ast, taken>>

Instruction ==
  /\ todo[1] = "inst"
  /\ todo' = IF ast[todo[2]].op = "for" THEN <<"test", todo[2]>>
             ELSE Event[todo[2] + 1]
  /\ UNCHANGED <<ast, taken>>

(* A test that fails skips to the else, or past the end of its block. *)
Test ==
  /\ todo[1] = "test"
  /\ taken' \in BOOLEAN
  /\ todo' = CASE taken' -> Event[todo[2] + 1]
               [] ~taken' /\ ast[todo[2]].els # 0 -> Event[ast[todo[2]].els + 1]
               [] OTHER -> Event[Closer(todo[2]) + 1]
  /\ UNCHANGED ast

Store ==
  /\ todo[1] = "store"
  /\ todo' = <<"ret", Len(ast)>>
  /\ UNCHANGED <<ast, taken>>

Ret ==
  /\ todo[1] = "ret"
  /\ todo' = Halted
  /\ UNCHANGED <<ast, taken>>

Running == Instruction \/ Test \/ Store \/ Ret

Next == Wait \/ Start \/ Running

Spec == Init /\ [][Next]_<<ast, todo, taken>> /\ WF_<<ast, todo, taken>>(Running)
=============================================================================

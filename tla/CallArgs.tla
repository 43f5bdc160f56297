------------------------------- MODULE CallArgs -------------------------------
(***************************************************************************)
(* The check of a call's arguments against the function's parameters:      *)
(* CallExpr::gen_code_internal (src/src/ast/call.rs:44-173).  A member     *)
(* call `obj.f(..)' has one argument more than are written, obj itself,    *)
(* which is inserted in front unchecked; a static call `T::f(..)' and a    *)
(* free one have the arguments written; in a call through a function       *)
(* pointer the parameters are those of the pointer's type.  The code takes *)
(* every callee whose type is a function pointer for a pointer, and for a  *)
(* function called by name that type is what it returns.  No function      *)
(* takes variable arguments: parser.rs:243,256 always say it does not.  No *)
(* variable has the name of the method called.                             *)
(***************************************************************************)
EXTENDS Naturals, Sequences, SequencesExt

CONSTANTS
  Types,     \* the types of parameters and arguments
  MaxArgs    \* bound on the parameters and on the arguments written

(* A type: the `*' and `&' in front of it, and the rest by its name. *)
TypeOf(ptrs, base) == [ptrs |-> ptrs, base |-> base]

Kinds == {"free", "static", "member", "pointer"}

ASSUME ArgsAssumption == MaxArgs \in Nat

VARIABLES
  kind,     \* what is called, and how
  fnptr,    \* whether the function called returns a function pointer
  params,   \* the types of the function's parameters
  args,     \* the types of the arguments written
  iter,     \* the parameter compared next, from 0
  phase     \* "look", "count", "compare", "called" or "error"

vars == <<kind, fnptr, params, args, iter, phase>>

(* Type::matches: under the same number of pointers, the same name. *)
Matches(a, b) == Len(a.ptrs) = Len(b.ptrs) /\ a.base = b.base

Adder == IF kind = "member" THEN 1 ELSE 0

Init ==
  /\ kind \in Kinds
  /\ fnptr \in BOOLEAN
  /\ params \in BoundedSeq(Types, MaxArgs)
  /\ args \in BoundedSeq(Types, MaxArgs)
  /\ iter = Adder
  /\ phase = "look"

(* What is not the name of a variable cannot be loaded from: get_variable  *)
(* refuses a function called by its name that is taken for a pointer.      *)
ByName == kind # "pointer"
LookUp ==
  /\ phase = "look"
  /\ phase' = IF ByName /\ fnptr THEN "error" ELSE "count"
  /\ UNCHANGED <<kind, fnptr, params, args, iter>>

Enough_AtLeast == Len(args) + Adder >= Len(params)
Enough == Len(args) + Adder = Len(params)
CountArgs ==
  /\ phase = "count"
  /\ phase' = IF ByName /\ ~Enough THEN "error" ELSE "compare"
  /\ UNCHANGED <<kind, fnptr, params, args, iter>>

(* Member calls skip the object, and compare with the argument before. *)
Comparing == phase = "compare" /\ iter < Len(params) /\ iter < Len(args)
CompareArg ==
  /\ Comparing
  /\ IF Matches(args[iter - Adder + 1], params[iter + 1])
       THEN iter' = iter + 1 /\ phase' = phase
       ELSE phase' = "error" /\ iter' = iter
  /\ UNCHANGED <<kind, fnptr, params, args>>

CreateCall ==
  /\ phase = "compare" /\ ~Comparing
  /\ phase' = "called"
  /\ UNCHANGED <<kind, fnptr, params, args, iter>>

Next == LookUp \/ CountArgs \/ CompareArg \/ CreateCall

Spec == Init /\ [][Next]_vars

-----------------------------------------------------------------------------
(* Properties. *)

Fit == Len(args) + Adder = Len(params)
         /\ \A k \in DOMAIN args : Matches(args[k], params[k + Adder])

(***************************************************************************)
(* A call by name, free or static, is generated exactly when it has as     *)
(* many arguments as parameters, every type matches and the function does  *)
(* not return a function pointer; so is a member call but for the type of  *)
(* its last argument.  Any other call that fits is never refused, however  *)
(* it is made.                                                             *)
(***************************************************************************)
ExactForNames ==
  /\ phase = "called" =>
       /\ ByName => ~fnptr
       /\ kind \in {"free", "static"} => Fit
       /\ kind = "member" =>
            /\ Len(args) + 1 = Len(params)
            /\ \A k \in 1..(Len(args) - 1) : Matches(args[k], params[k + 1])
  /\ phase = "error" => ~Fit \/ (ByName /\ fnptr)
=============================================================================

--------------------------- MODULE CallArgs_proofs ---------------------------
(***************************************************************************)
(* The arguments of calls by name are checked, for calls of any length and *)
(* any set of types.                                                       *)
(***************************************************************************)
EXTENDS CallArgs, TLAPS

Typed ==
  /\ kind \in Kinds
  /\ fnptr \in BOOLEAN
  /\ params \in Seq(Types)
  /\ args \in Seq(Types)
  /\ iter \in Nat
  /\ phase \in {"look", "count", "compare", "called", "error"}

(* The comparisons made so far, and why the loop or the call stopped. *)
Compared ==
  /\ iter >= Adder
  /\ phase \in {"count", "compare", "called"} /\ ByName => ~fnptr
  /\ phase \in {"compare", "called"} /\ ByName => Enough
  /\ \A k \in DOMAIN args :
       k + Adder <= iter =>
         k + Adder <= Len(params) /\ Matches(args[k], params[k + Adder])
  /\ phase = "called" => ~(iter < Len(params) /\ iter < Len(args))
  /\ phase = "error" => ~Fit \/ (ByName /\ fnptr)

IInv == Typed /\ Compared

LEMMA AdderIsNat == Adder \in 0..1
  BY DEF Adder

(* A bounded sequence is a sequence. *)
LEMMA BoundedSeqIsSeq ==
  ASSUME NEW S, NEW n \in Nat, NEW s \in BoundedSeq(S, n)
  PROVE  s \in Seq(S)
<1>1. PICK m \in 0..n : s \in [1..m -> S]
  BY DEF BoundedSeq, SeqOf
<1> QED
  BY <1>1

LEMMA InitCompared == Init => IInv
<1> SUFFICES ASSUME Init PROVE IInv
  OBVIOUS
<1>1. Typed
  BY ArgsAssumption, BoundedSeqIsSeq, AdderIsNat DEF Init, Typed
<1>2. Compared
  BY <1>1, AdderIsNat DEF Init, Compared, Typed
<1> QED
  BY <1>1, <1>2 DEF IInv

LEMMA StepCompared == IInv /\ [Next]_vars => IInv'
<1> SUFFICES ASSUME IInv, [Next]_vars PROVE IInv'
  OBVIOUS
<1> USE DEF IInv
<1>0. CASE LookUp
  <2>1. Typed'
    BY <1>0 DEF Typed, LookUp
  <2>2. Adder' = Adder /\ Fit' = Fit /\ Enough' = Enough /\ ByName' = ByName
    BY <1>0 DEF LookUp, Adder, Fit, Enough, ByName
  <2> QED
    BY <1>0, <2>1, <2>2 DEF LookUp, Compared, Matches
<1>1. CASE CountArgs
  <2>1. Typed'
    BY <1>1 DEF Typed, CountArgs
  <2>2. Adder' = Adder /\ Fit' = Fit /\ Enough' = Enough /\ ByName' = ByName
    BY <1>1 DEF CountArgs, Adder, Fit, Enough, ByName
  <2>3. phase' = "error" => ~Fit'
    BY <1>1, <2>2 DEF CountArgs, Fit, Enough
  <2> QED
    BY <1>1, <2>1, <2>2, <2>3 DEF CountArgs, Compared
<1>2. CASE CompareArg
  <2>1. iter - Adder + 1 \in DOMAIN args /\ iter + 1 \in DOMAIN params
    BY <1>2, AdderIsNat DEF CompareArg, Comparing, Compared, Typed
  <2>2. Adder' = Adder /\ Fit' = Fit /\ Enough' = Enough /\ ByName' = ByName
    BY <1>2 DEF CompareArg, Adder, Fit, Enough, ByName
  <2>3. Typed'
    BY <1>2 DEF Typed, CompareArg
  <2>4. CASE Matches(args[iter - Adder + 1], params[iter + 1])
    <3>1. UNCHANGED <<params, args, phase>> /\ iter' = iter + 1
      BY <1>2, <2>4 DEF CompareArg
    <3>2. ASSUME NEW k \in DOMAIN args, k + Adder <= iter + 1
          PROVE  k + Adder <= Len(params) /\ Matches(args[k], params[k + Adder])
      <4>1. CASE k + Adder <= iter
        BY <4>1 DEF Compared
      <4>2. CASE k + Adder = iter + 1
        <5>1. k = iter - Adder + 1
          BY <4>2, AdderIsNat DEF Typed
        <5> QED
          BY <4>2, <5>1, <2>1, <2>4 DEF Typed
      <4> QED
        BY <3>2, <4>1, <4>2, AdderIsNat DEF Typed
    <3>3. phase = "compare"
      BY <1>2 DEF CompareArg, Comparing
    <3>4. (iter >= Adder)'
      BY <2>2, <3>1, AdderIsNat DEF Compared, Typed
    <3>5. (\A k \in DOMAIN args : k + Adder <= iter =>
             k + Adder <= Len(params) /\ Matches(args[k], params[k + Adder]))'
      BY <2>2, <3>1, <3>2 DEF Matches
    <3>6. (ByName => Enough /\ ~fnptr)'
      BY <1>2, <2>2, <3>3 DEF CompareArg, Compared
    <3> QED
      BY <2>3, <3>1, <3>3, <3>4, <3>5, <3>6 DEF Compared
  <2>5. CASE ~Matches(args[iter - Adder + 1], params[iter + 1])
    <3>1. ~Fit
      <4>1. (iter - Adder + 1) + Adder = iter + 1
        BY AdderIsNat DEF Typed
      <4> QED
        BY <2>1, <2>5, <4>1 DEF Fit
    <3>2. UNCHANGED <<kind, fnptr, params, args, iter>> /\ phase' = "error"
      BY <1>2, <2>5 DEF CompareArg
    <3> QED
      BY <2>2, <2>3, <3>1, <3>2 DEF Compared, Matches
  <2> QED
    BY <2>4, <2>5
<1>3. CASE CreateCall
  <2>1. Adder' = Adder /\ Fit' = Fit /\ Enough' = Enough /\ ByName' = ByName
    BY <1>3 DEF CreateCall, Adder, Fit, Enough, ByName
  <2>2. Typed'
    BY <1>3 DEF Typed, CreateCall
  <2> QED
    BY <1>3, <2>1, <2>2 DEF CreateCall, Comparing, Compared, Matches
<1>4. CASE UNCHANGED vars
  BY <1>4 DEF vars, Typed, Compared, Adder, Fit, Enough, Matches, ByName
<1> QED
  BY <1>0, <1>1, <1>2, <1>3, <1>4 DEF Next

LEMMA ComparedSuffices == IInv => ExactForNames
<1> SUFFICES ASSUME IInv PROVE ExactForNames
  OBVIOUS
<1> USE DEF IInv
<1>1. ASSUME phase = "called", kind \in {"free", "static"} PROVE Fit
  <2>1. Adder = 0 /\ Len(args) = Len(params) /\ iter >= Len(args)
    BY <1>1 DEF Compared, Typed, Enough, Adder, ByName
  <2>2. \A k \in DOMAIN args : k + Adder <= iter
    BY <2>1 DEF Typed
  <2> QED
    BY <2>1, <2>2 DEF Fit, Compared
<1>2. ASSUME phase = "called", kind = "member"
      PROVE  /\ Len(args) + 1 = Len(params)
             /\ \A k \in 1..(Len(args) - 1) : Matches(args[k], params[k + 1])
  <2>1. Adder = 1 /\ Len(args) + 1 = Len(params) /\ iter >= Len(args)
    BY <1>2 DEF Compared, Typed, Enough, Adder, ByName
  <2>2. \A k \in 1..(Len(args) - 1) : k \in DOMAIN args /\ k + Adder <= iter
    BY <2>1 DEF Typed
  <2> QED
    BY <2>1, <2>2 DEF Compared
<1> QED
  BY <1>1, <1>2 DEF ExactForNames, Compared

(***************************************************************************)
(* A call by name is generated exactly when its arguments fit and the      *)
(* function returns no function pointer, the last argument of a member     *)
(* call aside (call.rs:44-151).                                            *)
(***************************************************************************)
THEOREM CallsByNameChecked == Spec => []ExactForNames
<1>1. Init => IInv
  BY InitCompared
<1>2. IInv /\ [Next]_vars => IInv'
  BY StepCompared
<1>3. IInv => ExactForNames
  BY ComparedSuffices
<1> QED
  BY <1>1, <1>2, <1>3, PTL DEF Spec
=============================================================================

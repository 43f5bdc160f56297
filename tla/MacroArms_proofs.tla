--------------------------- MODULE MacroArms_proofs ---------------------------
(***************************************************************************)
(* Proofs about MacroArms, for every macro and every call: the loop over   *)
(* the arms, with its fall back to the last one and its early error, picks *)
(* an arm meant for the call when the macro is written in order.           *)
(***************************************************************************)
EXTENDS MacroArms, FiniteSetTheorems, TLAPS

CondType == [id : STRING, variadic : BOOLEAN]

(* The arms before the one under consideration neither fit nor end in the  *)
(* error, and the arm chosen fits or is the last.                          *)
PassedOver(k) == ~Fits(arms[k].conds) /\ ~Starved(arms[k].conds)
Choosing ==
  /\ arms \in Seq(Arms) /\ args \in Seq(Seq(Seq(STRING)))
  /\ arm \in Nat \ {0}
  /\ arms # <<>> => arm \in DOMAIN arms
  /\ \A k \in DOMAIN arms : k < arm => PassedOver(k)
  /\ phase # "arms" /\ arms # <<>> =>
       IF phase = "error" THEN Starved(arms[arm].conds)
       ELSE Fits(arms[arm].conds) \/ (arm = Len(arms) /\ PassedOver(arm))

LEMMA SinglesFacts ==
  ASSUME NEW c \in Seq(CondType)
  PROVE  /\ Len(c) \in Nat /\ DOMAIN c = 1..Len(c)
         /\ IsFiniteSet(Singles(c)) /\ Cardinality(Singles(c)) \in 0..Len(c)
         /\ Cardinality(Singles(c)) = Len(c) <=> Singles(c) = DOMAIN c
<1>1. Len(c) \in Nat /\ DOMAIN c = 1..Len(c)
  OBVIOUS
<1>2. IsFiniteSet(DOMAIN c) /\ Cardinality(DOMAIN c) = Len(c)
  BY <1>1, FS_Interval
<1>3. Singles(c) \subseteq DOMAIN c
  BY DEF Singles
<1>4. /\ IsFiniteSet(Singles(c)) /\ Cardinality(Singles(c)) <= Len(c)
      /\ Cardinality(Singles(c)) = Len(c) => Singles(c) = DOMAIN c
  BY <1>2, <1>3, FS_Subset
<1>5. Cardinality(Singles(c)) \in Nat
  BY <1>4, FS_CardinalityType
<1>6. QED
  BY <1>1, <1>2, <1>4, <1>5

(* An arm whose conditions are all single fits the calls it accepts, and   *)
(* one that fits accepts the call.                                         *)
LEMMA FitsFacts ==
  ASSUME NEW c \in Seq(CondType), args \in Seq(Seq(Seq(STRING)))
  PROVE  Fits(c) <=> Singles(c) = DOMAIN c /\ Len(args) = Len(c)
BY SinglesFacts DEF Fits, SingleArgs

(* The loop stops with the error early only for a call without arguments,  *)
(* at an arm that has a condition.                                         *)
LEMMA StarvedFacts ==
  ASSUME NEW c \in Seq(CondType), args \in Seq(Seq(Seq(STRING))), Starved(c)
  PROVE  Len(args) = 0 /\ Len(c) # 0
<1>1. Len(args) \in Nat
  OBVIOUS
<1>2. CASE Len(c) = Len(args)
  <2>1. Cardinality(Singles(c)) >= Len(args) /\ Cardinality(Singles(c)) # Len(c)
    BY <1>2 DEF Starved, Fits, SingleArgs
  <2>2. QED
    BY <1>1, <1>2, <2>1, SinglesFacts
<1>3. CASE Len(c) # Len(args)
  BY <1>1, <1>3, SinglesFacts DEF Starved, SingleArgs
<1>4. QED
  BY <1>2, <1>3

LEMMA ArmFacts ==
  ASSUME arms \in Seq(Arms)
  PROVE  /\ Len(arms) \in Nat /\ DOMAIN arms = 1..Len(arms)
         /\ \A k \in DOMAIN arms : arms[k].conds \in Seq(CondType)
         /\ arms # <<>> => Len(arms) > 0
<1>1. /\ Len(arms) \in Nat /\ DOMAIN arms = 1..Len(arms)
      /\ arms # <<>> => Len(arms) > 0
  OBVIOUS
<1>2. \A k \in DOMAIN arms : arms[k] \in Arms
  OBVIOUS
<1>3. QED
  BY <1>1, <1>2 DEF Arms, CondType

LEMMA InitChoosing == Init => Choosing
<1> SUFFICES ASSUME Init PROVE Choosing
  OBVIOUS
<1>1. arms \in Seq(Arms) /\ args \in Seq(Seq(Seq(STRING))) /\ arm = 1 /\ phase = "arms"
  BY MacroAssumption DEF Init, MacroAssumption
<1>2. arms # <<>> => 1 \in DOMAIN arms
  BY <1>1, ArmFacts
<1>3. \A k \in DOMAIN arms : ~(k < 1)
  BY <1>1, ArmFacts
<1>4. QED
  BY <1>1, <1>2, <1>3 DEF Choosing

(* Once an arm is chosen it stays so. *)
LEMMA ChosenStays ==
  ASSUME Choosing, UNCHANGED <<arms, args, arm>>, phase # "arms", phase' # "arms",
         phase' = "error" <=> phase = "error"
  PROVE  Choosing'
<1>1. \A c : (Fits(c)' <=> Fits(c)) /\ (Starved(c)' <=> Starved(c))
  BY DEF Fits, Starved, SingleArgs
<1>2. \A k : PassedOver(k)' <=> PassedOver(k)
  BY <1>1 DEF PassedOver
<1>3. QED
  BY <1>1, <1>2 DEF Choosing

LEMMA TryArmChoosing == Choosing /\ TryArm => Choosing'
<1> SUFFICES ASSUME Choosing, TryArm PROVE Choosing'
  OBVIOUS
<1>1. /\ arms' = arms /\ args' = args /\ phase = "arms" /\ arms # <<>>
      /\ arms \in Seq(Arms) /\ args \in Seq(Seq(Seq(STRING))) /\ arm \in DOMAIN arms /\ arm \in Nat \ {0}
      /\ \A k \in DOMAIN arms : k < arm => PassedOver(k)
  BY DEF Choosing, TryArm, Chosen
<1>2. \A c : (Fits(c)' <=> Fits(c)) /\ (Starved(c)' <=> Starved(c))
  BY <1>1 DEF Fits, Starved, SingleArgs
<1>3. CASE Fits(arms[arm].conds) /\ Chosen(arm)
  <2>1. arm' = arm /\ phase' = "subst"
    BY <1>3 DEF Chosen
  <2>2. QED
    BY <1>1, <1>2, <1>3, <2>1 DEF Choosing, PassedOver
<1>4. CASE Starved(arms[arm].conds) /\ phase' = "error" /\ arm' = arm
  BY <1>1, <1>2, <1>4 DEF Choosing, PassedOver
<1>5. CASE PassedOver(arm) /\ arm = Len(arms) /\ Chosen(arm)
  <2>1. arm' = arm /\ phase' = "subst"
    BY <1>5 DEF Chosen
  <2>2. QED
    BY <1>1, <1>2, <1>5, <2>1 DEF Choosing, PassedOver
<1>6. CASE PassedOver(arm) /\ arm # Len(arms) /\ arm' = arm + 1 /\ phase' = phase
  <2>1. arm' \in DOMAIN arms
    BY <1>1, <1>6, ArmFacts
  <2>2. \A k \in DOMAIN arms : k < arm' => k < arm \/ k = arm
    BY <1>1, <1>6, ArmFacts
  <2>3. \A k \in DOMAIN arms : k < arm' => PassedOver(k)
    BY <1>1, <1>6, <2>2
  <2>4. arm' \in Nat \ {0}
    BY <2>1, <1>1, ArmFacts
  <2>5. QED
    BY <1>1, <1>2, <1>6, <2>1, <2>3, <2>4 DEF Choosing, PassedOver
<1>7. QED
  BY <1>3, <1>4, <1>5, <1>6 DEF TryArm, PassedOver

LEMMA NextChoosing == Choosing /\ [Next]_vars => Choosing'
<1> SUFFICES ASSUME Choosing, [Next]_vars PROVE Choosing'
  OBVIOUS
<1>1. CASE NoArm
  BY <1>1 DEF NoArm, Choosing, PassedOver, Fits, Starved, SingleArgs
<1>2. CASE TryArm
  BY <1>2, TryArmChoosing
<1>3. CASE SubstituteHere \/ NextCond \/ Substituted \/ PasteHere \/ Finish
  <2>1. /\ UNCHANGED <<arms, args, arm>> /\ phase \in {"subst", "paste"}
        /\ phase' \in {"subst", "paste", "panic", "done"}
    BY <1>3 DEF SubstituteHere, NextCond, Substituted, PasteHere, Finish
  <2>2. QED
    BY <2>1, ChosenStays
<1>4. CASE UNCHANGED vars
  BY <1>4 DEF vars, Choosing, PassedOver, Fits, Starved, SingleArgs
<1>5. QED
  BY <1>1, <1>2, <1>3, <1>4 DEF Next

(***************************************************************************)
(* In a macro written in the order of the standard library's, whatever arm *)
(* the loop of expand_macro leaves with is meant for the call while one    *)
(* is, and the error for too few arguments is never early.                 *)
(***************************************************************************)
LEMMA ChosenFits ==
  ASSUME Choosing, Ordered, phase # "arms",
         NEW k \in DOMAIN arms, Accepts(arms[k].conds, Len(args))
  PROVE  phase # "error" /\ Accepts(Conds, Len(args))
<1> DEFINE c == arms[arm].conds
           d == arms[k].conds
           n == Len(args)
<1>1. /\ arms \in Seq(Arms) /\ args \in Seq(Seq(Seq(STRING))) /\ arms # <<>> /\ arm \in DOMAIN arms
      /\ n \in Nat
  <2>1. arms \in Seq(Arms) /\ args \in Seq(Seq(Seq(STRING))) /\ (arms # <<>> => arm \in DOMAIN arms)
    BY DEF Choosing
  <2>2. arms # <<>>
    OBVIOUS
  <2>3. QED
    BY <2>1, <2>2
<1>2. c \in Seq(CondType) /\ d \in Seq(CondType)
  BY <1>1, ArmFacts
<1>3. /\ Singles(d) = DOMAIN d => n = Len(d)
      /\ Singles(d) # DOMAIN d => n >= Len(d) /\ k = Len(arms)
  BY DEF Accepts, Ordered
<1> HIDE DEF c, d, n
<1>4. phase # "error"
  <2>1. SUFFICES ASSUME phase = "error" PROVE FALSE
    OBVIOUS
  <2>2. Starved(c)
    BY <1>1, <2>1 DEF Choosing, c
  <2>3. n = 0 /\ Len(c) # 0
    BY <1>1, <1>2, <2>2, StarvedFacts DEF n
  <2>4. Len(d) = 0
    BY <1>2, <1>3, <2>3, SinglesFacts
  <2>5. d = <<>> /\ Singles(d) = DOMAIN d
    BY <1>2, <2>4 DEF Singles
  <2>6. k = 1
    BY <2>5 DEF Ordered, d
  <2>7. Fits(d)
    BY <1>1, <1>2, <2>3, <2>4, <2>5, FitsFacts DEF n
  <2>8. arm # 1
    BY <2>3, <2>4, <2>6 DEF c, d
  <2>9. 1 < arm
    BY <1>1, <2>8, ArmFacts
  <2>10. QED
    BY <2>6, <2>7, <2>9 DEF Choosing, PassedOver, d
<1>5. CASE Fits(c)
  <2>1. Singles(c) = DOMAIN c /\ n = Len(c)
    BY <1>1, <1>2, <1>5, FitsFacts DEF n
  <2>2. QED
    BY <1>4, <2>1 DEF Accepts, Conds, c, n
<1>6. CASE arm = Len(arms) /\ PassedOver(arm)
  <2>1. k = arm
    <3>1. SUFFICES ASSUME k # arm PROVE FALSE
      OBVIOUS
    <3>2. k < arm
      BY <1>1, <1>6, <3>1, ArmFacts
    <3>3. ~Fits(d)
      BY <3>2 DEF Choosing, PassedOver, d
    <3>4. Singles(d) # DOMAIN d
      BY <1>1, <1>2, <1>3, <3>3, FitsFacts DEF n
    <3>5. QED
      BY <1>3, <1>6, <3>1, <3>4
  <2>2. QED
    BY <1>4, <2>1 DEF Conds
<1>7. QED
  BY <1>1, <1>4, <1>5, <1>6 DEF Choosing, c

(***************************************************************************)
(* A macro written in that order is never expanded with an arm that is not *)
(* meant for the call while another one is (Preprocessor::expand_macro's   *)
(* loop over the arms).                                                    *)
(***************************************************************************)
THEOREM ArmIsRight == Spec => []RightArm
<1>1. Init => Choosing
  BY InitChoosing
<1>2. Choosing /\ [Next]_vars => Choosing'
  BY NextChoosing
<1>3. Choosing => RightArm
  BY ChosenFits DEF RightArm
<1>4. QED
  BY <1>1, <1>2, <1>3, PTL DEF Spec
=============================================================================

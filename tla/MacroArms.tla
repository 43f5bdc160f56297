------------------------------ MODULE MacroArms ------------------------------
(***************************************************************************)
(* The expansion of one macro call: Preprocessor::expand_macro             *)
(* (src/src/ast/preprocessor.rs:84-199).  An arm is chosen by the number   *)
(* of arguments, its tokens have every `$name' replaced in place, and the  *)
(* two sides of every `##' become one identifier.                          *)
(*                                                                         *)
(* A token is the sequence of the names it is made of: <<"x">>, <<",">>,   *)
(* or <<"x", "y">> for the two identifiers pasted.  One step is one turn   *)
(* of a loop; a vector indexed past its end panics.                        *)
(***************************************************************************)
EXTENDS Integers, Sequences, SequencesExt, FiniteSets

CONSTANTS
  MacroChoices,  \* the sequences of arms considered, [conds, tokens] each
  CallChoices    \* the sequences of arguments, each a sequence of tokens

(* What parse_macro builds: an arm has its conditions and its tokens.  A   *)
(* macro may have no arms.                                                 *)
Arms == [conds : Seq([id : STRING, variadic : BOOLEAN]), tokens : Seq(Seq(STRING))]
ASSUME MacroAssumption ==
  MacroChoices \subseteq Seq(Arms) /\ CallChoices \subseteq Seq(Seq(Seq(STRING)))

VARIABLES
  arms,     \* Macro.arms
  args,     \* MacroCall.args
  phase,    \* "arms", "subst", "paste", "done", "error" or "panic"
  arm,      \* the arm under consideration, then the arm chosen
  tokens,   \* the chosen arm's tokens, rewritten in place
  i,        \* the condition being substituted
  j         \* the index into tokens, from 1

vars == <<arms, args, phase, arm, tokens, i, j>>

Dollar == <<"$">>
Hash == <<"#">>
Comma == <<",">>
IsId(t) == t \notin {Dollar, Hash, Comma}

(* A condition of an arm: a name and Single or Variadic. *)
Cond(id, variadic) == [id |-> id, variadic |-> variadic]
Singles(c) == {k \in DOMAIN c : ~c[k].variadic}

-----------------------------------------------------------------------------
(***************************************************************************)
(* The choice of an arm, one arm a step: the first that takes single       *)
(* arguments only and exactly as many as the call has; else the last.      *)
(***************************************************************************)
SingleArgs(c) == IF Len(c) = Len(args) THEN Cardinality(Singles(c)) ELSE 0
Fits_AtMost(c) == Len(c) <= Len(args) /\ Singles(c) = DOMAIN c
Fits(c) == Len(c) = Len(args) /\ SingleArgs(c) = Len(c)
Starved(c) == ~Fits(c) /\ SingleArgs(c) >= Len(args)

Chosen(k) ==
  /\ phase' = "subst"
  /\ arm' = k
  /\ tokens' = arms[k].tokens
  /\ UNCHANGED <<arms, args, i, j>>

(* arms[0] of a macro without arms. *)
NoArm ==
  /\ phase = "arms" /\ arms = <<>>
  /\ phase' = "panic"
  /\ UNCHANGED <<arms, args, arm, tokens, i, j>>

TryArm ==
  /\ phase = "arms" /\ arms # <<>>
  /\ LET c == arms[arm].conds IN
       \/ Fits(c) /\ Chosen(arm)
       \/ /\ Starved(c)
          /\ phase' = "error"
          /\ UNCHANGED <<arms, args, arm, tokens, i, j>>
       \/ /\ ~Fits(c) /\ ~Starved(c)
          /\ IF arm = Len(arms) THEN Chosen(arm)
             ELSE arm' = arm + 1 /\ UNCHANGED <<arms, args, phase, tokens, i, j>>

-----------------------------------------------------------------------------
(* Condition i is substituted wherever `$' is followed by its name. *)
Conds == arms[arm].conds
Before(k) == SubSeq(tokens, 1, k - 1)
From(k) == SubSeq(tokens, k, Len(tokens))

Named == j < Len(tokens) /\ tokens[j] = Dollar /\ tokens[j + 1] = <<Conds[i].id>>

(* `$name' gives way to the argument's tokens; an empty one leaves the `$'. *)
Single == Before(j) \o (IF args[i] = <<>> THEN <<Dollar>> ELSE args[i]) \o From(j + 2)

(***************************************************************************)
(* The loop for k in i..args.len() inserts args[args.len() - k], indexes   *)
(* from 0, and a comma, each in front of what it inserted before: from the *)
(* second argument on, as many arguments as are left for the condition.    *)
(***************************************************************************)
Rest == 2..(Len(args) - i + 2)
Variadic ==
  Before(j) \o FlattenSeq([k \in 1..(Len(args) - i + 1) |-> Append(args[k + 1], Comma)])
            \o From(j + 2)

(* An argument, or the token after `$name' whose place is read, is missing. *)
Missing ==
  \/ i > Len(args)
  \/ Conds[i].variadic /\ (j + 1 = Len(tokens) \/ ~(Rest \subseteq DOMAIN args))

SubstituteHere ==
  /\ phase = "subst" /\ i <= Len(Conds) /\ j <= Len(tokens)
  /\ IF (tokens[j] = Dollar /\ j = Len(tokens)) \/ (Named /\ Missing)
       THEN phase' = "panic" /\ UNCHANGED <<tokens, j>>
       ELSE /\ tokens' = IF ~Named THEN tokens
                         ELSE IF Conds[i].variadic THEN Variadic ELSE Single
            /\ j' = j + 1
            /\ UNCHANGED phase
  /\ UNCHANGED <<arms, args, arm, i>>

NextCond_KeepsPlace ==
  /\ phase = "subst" /\ i <= Len(Conds) /\ j > Len(tokens)
  /\ i' = i + 1
  /\ UNCHANGED <<arms, args, phase, arm, tokens, j>>
NextCond ==
  /\ phase = "subst" /\ i <= Len(Conds) /\ j > Len(tokens)
  /\ i' = i + 1
  /\ j' = 1
  /\ UNCHANGED <<arms, args, phase, arm, tokens>>

Substituted ==
  /\ phase = "subst" /\ i > Len(Conds)
  /\ phase' = "paste"
  /\ j' = 1
  /\ UNCHANGED <<arms, args, arm, tokens, i>>

-----------------------------------------------------------------------------
(* `##' at j appends the name after it to the token before it; the next    *)
(* turn starts behind the token that follows.                              *)
Double == j < Len(tokens) /\ tokens[j] = Hash /\ tokens[j + 1] = Hash
Pasted == Append(Before(j - 1), tokens[j - 1] \o tokens[j + 2]) \o From(j + 3)

(* Nothing to the left, nothing or no identifier to the right, a last `#'. *)
CannotPaste ==
  \/ Double /\ (j = 1 \/ j + 2 > Len(tokens))
  \/ Double /\ ~IsId(tokens[j + 2])
  \/ tokens[j] = Hash /\ j = Len(tokens)

PasteHere ==
  /\ phase = "paste" /\ j <= Len(tokens)
  /\ IF CannotPaste THEN phase' = "panic" /\ UNCHANGED <<tokens, j>>
     ELSE /\ tokens' = IF Double THEN Pasted ELSE tokens
          /\ j' = j + 1
          /\ UNCHANGED phase
  /\ UNCHANGED <<arms, args, arm, i>>

Finish ==
  /\ phase = "paste" /\ j > Len(tokens)
  /\ phase' = "done"
  /\ UNCHANGED <<arms, args, arm, tokens, i, j>>

Init ==
  /\ arms \in MacroChoices
  /\ args \in CallChoices
  /\ phase = "arms"
  /\ arm = 1
  /\ tokens = <<>>
  /\ i = 1
  /\ j = 1

Next == NoArm \/ TryArm \/ SubstituteHere \/ NextCond \/ Substituted \/ PasteHere \/ Finish

Spec == Init /\ [][Next]_vars /\ WF_vars(Next)

-----------------------------------------------------------------------------
(* Properties. *)
Ended == phase \in {"done", "error", "panic"}

(* The arm is meant for a call with n arguments: a variadic condition      *)
(* takes one or more.                                                      *)
Accepts(c, n) ==
  IF Singles(c) = DOMAIN c THEN n = Len(c) ELSE n >= Len(c)

(* An arm the expansion supports: at most one variadic condition, the      *)
(* second and last.                                                        *)
Supported(c) == Singles(c) = DOMAIN c \/ (Len(c) = 2 /\ Singles(c) = {1})

(* How the standard library writes its macros (std/io/print.ly): the arm   *)
(* without conditions first, a variadic one last.                          *)
Ordered ==
  \A k \in DOMAIN arms :
    /\ Supported(arms[k].conds)
    /\ arms[k].conds = <<>> => k = 1
    /\ Singles(arms[k].conds) # DOMAIN arms[k].conds => k = Len(arms)

(***************************************************************************)
(* A macro written in that order is never expanded with an arm that is not *)
(* meant for the call while another one is: the fall back to the last arm  *)
(* and the early error for a call without arguments do no harm.            *)
(***************************************************************************)
RightArm ==
  Ordered /\ phase # "arms" /\ (\E k \in DOMAIN arms : Accepts(arms[k].conds, Len(args)))
    => phase # "error" /\ Accepts(Conds, Len(args))

(* `$name' in the tokens s, by what it stands for, all at once. *)
Value(c, k) ==
  IF c[k].variadic
    THEN FlattenSeq([n \in 1..(Len(args) - k + 1) |-> Append(args[n + k - 1], Comma)])
    ELSE args[k]
Uses(s, c, p, k) == p \in 1..(Len(s) - 1) /\ s[p] = Dollar /\ s[p + 1] = <<c[k].id>>
UsesAny(s, c, p) == \E k \in DOMAIN c : Uses(s, c, p, k)
Replaced(s, c) ==
  FlattenSeq([p \in DOMAIN s |->
    IF UsesAny(s, c, p) THEN Value(c, CHOOSE k \in DOMAIN c : Uses(s, c, p, k))
    ELSE IF p > 1 /\ UsesAny(s, c, p - 1) THEN <<>> ELSE <<s[p]>>])

(* Every `##' is between two tokens that belong to no other `##'. *)
PasteAt(s, p) == p \in 2..(Len(s) - 2) /\ s[p] = Hash /\ s[p + 1] = Hash
WellPasted(s) ==
  \A p \in DOMAIN s : s[p] = Hash =>
    \/ PasteAt(s, p) /\ IsId(s[p + 2]) /\ s[p - 1] # Hash
         /\ (p + 3 \in DOMAIN s => s[p + 3] # Hash)
    \/ PasteAt(s, p - 1)
PasteAll(s) ==
  FlattenSeq([p \in DOMAIN s |->
    IF PasteAt(s, p + 1) THEN <<s[p] \o s[p + 3]>>
    ELSE IF PasteAt(s, p) \/ PasteAt(s, p - 1) \/ PasteAt(s, p - 2) THEN <<>>
    ELSE <<s[p]>>])

WellUsed ==
  arms # <<>> /\ LET s == arms[arm].tokens IN
    /\ Supported(Conds) /\ Accepts(Conds, Len(args))
    /\ \A k \in DOMAIN args : args[k] # <<>>
    /\ \A p \in DOMAIN s : s[p] = Dollar => p < Len(s) /\ s[p + 1] # Dollar
    /\ \A k \in DOMAIN Conds :
         Conds[k].variadic => ~Uses(s, Conds, Len(s) - 1, k)
    /\ WellPasted(Replaced(s, Conds))

(***************************************************************************)
(* Under these conditions the rewriting in place, condition by condition,  *)
(* gives what replacing every name at once would: no argument's token is   *)
(* taken for a parameter, none is skipped or doubled, the rest arguments   *)
(* keep their order, and no index leaves the vector.                       *)
(***************************************************************************)
ExpandsExactly ==
  Ended /\ phase # "error" /\ WellUsed =>
    phase = "done" /\ tokens = PasteAll(Replaced(arms[arm].tokens, Conds))

(* An arm whose tokens name every condition, and whose every `$' names one. *)
NamesItsConds(a) ==
  /\ \A k \in DOMAIN a.conds : \E p \in DOMAIN a.tokens : Uses(a.tokens, a.conds, p, k)
  /\ \A p \in DOMAIN a.tokens : a.tokens[p] = Dollar => UsesAny(a.tokens, a.conds, p)

(***************************************************************************)
(* What the error message at preprocessor.rs:117 promises: a call with too *)
(* few arguments for every arm of the macro, variadic ones aside, is       *)
(* reported.  It is not: the last arm is taken, and the name of the first  *)
(* condition without an argument reads past the end of call.args (:131).   *)
(***************************************************************************)
TooFewReported ==
  /\ Ended
  /\ arms # <<>> /\ <<>> \notin Range(args)
  /\ \A k \in DOMAIN arms :
       NamesItsConds(arms[k]) /\ Len(args) < Cardinality(Singles(arms[k].conds))
  => phase = "error"
=============================================================================

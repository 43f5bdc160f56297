----------------------------- MODULE MCMacroArms -----------------------------
(* Instance of MacroArms for TLC: macros of one arm with every short body,  *)
(* and macros of no arm or several with a fixed body, for every short call. *)
EXTENDS MacroArms

CONSTANTS MaxBody, MaxArms, MaxArgs

CondChoices ==
  {<<>>, <<Cond("p", FALSE)>>, <<Cond("p", TRUE)>>,
   <<Cond("p", FALSE), Cond("q", FALSE)>>, <<Cond("p", FALSE), Cond("q", TRUE)>>}
Unsupported == <<Cond("p", FALSE), Cond("q", FALSE), Cond("r", TRUE)>>

BodyPhrases == {<<Dollar, <<"p">>>>, <<Dollar, <<"q">>>>, <<<<"x">>>>, <<Hash, Hash>>, <<Dollar>>}
Bodies == {FlattenSeq(s) : s \in BoundedSeq(BodyPhrases, MaxBody)} \ {<<>>}

MCMacros ==
  {[k \in DOMAIN s |-> [conds |-> s[k], tokens |-> <<Dollar, <<"p">>, <<"x">>>>]] :
     s \in BoundedSeq(CondChoices, MaxArms)}
    \cup {<<[conds |-> c, tokens |-> b]>> : c \in CondChoices \cup {Unsupported}, b \in Bodies}

MCCalls == BoundedSeq({<<>>, <<<<"q">>>>, <<<<"b">>, <<"p">>>>}, MaxArgs)
=============================================================================

------------------------------ MODULE MCLexer ------------------------------
(* Instance of Lexer for TLC: every text over a few small alphabets, each  *)
(* of which exercises one part of the lexer.                               *)
EXTENDS Lexer

CONSTANTS MaxComment, MaxQuoted, MaxRun, MaxSymbols

MCKeywords == {<<"i", "f">>}
MCSpaces == {" ", "\n"}
MCTexts ==
  UNION {BoundedSeq({"/", "*", "a"}, MaxComment),
         BoundedSeq({"/", "\n", "\"", "'", "a", "*"}, MaxQuoted),
         BoundedSeq({"i", "f", "1", ".", "_", " "}, MaxRun),
         BoundedSeq(Singles \cup {" "}, MaxSymbols)}
=============================================================================

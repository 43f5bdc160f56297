----------------------------- MODULE Formatting -----------------------------
(***************************************************************************)
(* format_args$ and format_: macro_format (src/src/ast/intrinsics.rs) cuts *)
(* the format string into pieces at compile time, and format_              *)
(* (src/std/core/fmt.ly) writes the pieces and the arguments in turn into  *)
(* a String of the pieces' length, which grows for the arguments.          *)
(***************************************************************************)
EXTENDS Buffers

CONSTANTS
  Formats,     \* format strings: sequences of characters
  Arguments    \* [display, debug]: what an argument's two functions write

(* One turn takes the text up to a `{' as a piece, and two characters, or  *)
(* four of `{:?}'.  Slicing past the end of the string panics.             *)
Taken(f, pos) ==
  LET debug == pos + 2 < Len(f) /\ SubSeq(f, pos + 1, pos + 2) = <<":", "?">>
  IN [to |-> IF debug THEN pos + 3 ELSE pos + 1, debug |-> debug]

RECURSIVE Cut(_, _, _), Filled(_, _)
Cut(f, pieces, debug) ==
  LET pos == SelectInSeq(f, LAMBDA c : c = "{")
      taken == Taken(f, pos) IN
    CASE pos = 0 -> [pieces |-> IF f = <<>> THEN pieces ELSE Append(pieces, f),
                     debug |-> debug, panic |-> FALSE]
      [] pos > 0 /\ taken.to > Len(f) -> [pieces |-> pieces, debug |-> debug, panic |-> TRUE]
      [] OTHER -> Cut(SubSeq(f, taken.to + 1, Len(f)), Append(pieces, SubSeq(f, 1, pos - 1)),
                      Append(debug, taken.debug))

(* Argument::fmt, with the function get_formatting_function has chosen. *)
Shown(arg, debug) == IF debug THEN arg.debug ELSE arg.display

StringPushStr(b, s) == FoldLeft(StringPush, b, s)
Format(cut, args) ==
  LET estimated == FoldLeft(LAMBDA n, s : n + Len(s), 0, cut.pieces)
      One(b, i) == StringPushStr(StringPushStr(b, cut.pieces[i]), Shown(args[i], cut.debug[i]))
      written == FoldLeft(One, StringNew(estimated), [i \in DOMAIN args |-> i]) IN
    IF Len(args) < Len(cut.pieces) THEN StringPushStr(written, cut.pieces[Len(args) + 1]) ELSE written

-----------------------------------------------------------------------------
(* What a format string means: each placeholder is replaced by the next    *)
(* argument, and everything else stands for itself.                        *)
Holder(f) ==
  CASE Len(f) >= 2 /\ SubSeq(f, 1, 2) = <<"{", "}">> -> 2
    [] Len(f) >= 4 /\ SubSeq(f, 1, 4) = <<"{", ":", "?", "}">> -> 4
    [] OTHER -> 0
WellFormed(f) == \A n \in DOMAIN f : f[n] = "{" => Holder(SubSeq(f, n, Len(f))) > 0
Holders(f) == Cardinality({n \in DOMAIN f : f[n] = "{"})
Filled(f, args) ==
  IF f = <<>> THEN <<>>
  ELSE CASE Holder(f) > 0 -> Shown(Head(args), Holder(f) = 4) \o Filled(SubSeq(f, Holder(f) + 1, Len(f)), Tail(args))
         [] OTHER -> <<Head(f)>> \o Filled(Tail(f), args)

(* The program's String is the result of format_; a wrong number of        *)
(* arguments is reported, and it keeps the one it has.  What a malformed   *)
(* placeholder does is not looked at.                                      *)
DoFormat ==
  /\ Usable("String") /\ last = Op("new")
  /\ \E f \in Formats, args \in BoundedSeq(Arguments, 2) :
       LET cut == Cut(f, <<>>, <<>>)
           accepted == ~cut.panic /\ Len(args) = Len(cut.debug) IN
         /\ WellFormed(f)
         /\ Does(Op("format"), IF accepted THEN Format(cut, args) ELSE buf,
                 IF Len(args) = Holders(f) THEN Filled(f, args) ELSE list)
=============================================================================

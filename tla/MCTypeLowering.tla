--------------------------- MODULE MCTypeLowering ---------------------------
(* Instance of TypeLowering for TLC: every program over three names whose  *)
(* structs have at most one field, and, with pointers only, at most two.   *)
EXTENDS TypeLowering

CONSTANT Used

TypesOf(wraps) == {Type(w, n) : w \in wraps, n \in Names} \cup {Type("path", Base)}
ProgramsWith(wraps, fields) ==
  [Names -> {Def("struct", s) : s \in BoundedSeq(TypesOf(wraps), fields)}
              \cup {Def("alias", <<t>>) : t \in TypesOf(wraps)} \cup {Def("none", <<>>)}]
MCPrograms == ProgramsWith(Used, 1) \cup ProgramsWith({"ptr"}, 2)
=============================================================================

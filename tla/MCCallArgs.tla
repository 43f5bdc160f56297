------------------------------ MODULE MCCallArgs ------------------------------
(* Instance of CallArgs for TLC; the bounds are in the .cfg files. *)
EXTENDS CallArgs

MCTypes == {TypeOf(<<>>, "i8"), TypeOf(<<"*">>, "i8"), TypeOf(<<"&">>, "i8"), TypeOf(<<>>, "i32")}
=============================================================================

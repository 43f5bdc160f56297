--------------------------- MODULE MCContainers ---------------------------
(* Instance of Buffers and StringMap for TLC: a program that has either a  *)
(* buffer or a map.  They share nothing, so that their steps need not be   *)
(* interleaved: one is used as long as the other is untouched.             *)
EXTENDS Formatting, StringMap

MCTexts == {<<>>, <<"a">>, <<"a", "b", "a">>}
Phrases == {<<"{", "}">>, <<"{", ":", "?", "}">>, <<"a">>, <<"}">>, <<":", "?">>}
MCFormats == {FlattenSeq(s) : s \in BoundedSeq(Phrases, 3)}
MCArguments == {[display |-> <<>>, debug |-> <<"b">>], [display |-> <<"b", "a", "b">>, debug |-> <<"a", "a">>]}

MCKeys == {<<"a">>, <<"c">>, <<"a", "c">>, <<"b">>, <<"_">>}
MCCode == "a" :> 1 @@ "b" :> 2 @@ "c" :> 3 @@ "_" :> -1

OnBuffer(A) == A /\ nodes = <<>> /\ call = Idle /\ UNCHANGED mapVars
OnMap(A) == A /\ kind = "Vec" /\ buf = VecNew /\ last = Op("new") /\ UNCHANGED bufferVars

Init == BuffersInit /\ MapInit
Next ==
  \/ OnBuffer(DoStringPush) \/ OnBuffer(BeginPushStr) \/ OnBuffer(TurnPushStr) \/ OnBuffer(DoStringClone) \/ OnBuffer(DoFormat)
  \/ OnBuffer(DoVecPush) \/ OnBuffer(DoVecPop) \/ OnBuffer(DoVecInsertItem) \/ OnBuffer(DoVecRemove)
  \/ OnMap(BeginInsert) \/ OnMap(BeginGet) \/ OnMap(BeginContains)
  \/ OnMap(Walk) \/ OnMap(InsertNew) \/ OnMap(InsertOld) \/ OnMap(EndGet)

Spec == Init /\ [][Next]_<<bufferVars, mapVars>> /\ WF_mapVars(OnMap(Step))
=============================================================================

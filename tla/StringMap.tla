----------------------------- MODULE StringMap -----------------------------
(***************************************************************************)
(* The hash map of the standard library (src/std/containers/map.ly), with  *)
(* str.hash (src/std/string.ly): a table of chains of nodes on the heap.   *)
(* A call walks one chain, one action for each turn of its loop, and links *)
(* a new node or changes an old one at the end.                            *)
(***************************************************************************)
EXTENDS Integers, Sequences

CONSTANTS
  Keys,         \* sequences of characters
  MapValues,
  Missing,
  Code,         \* of a character: c - 'a' + 1
  P, M, Size    \* of the hash, and the length of the table

ASSUME MapAssumption ==
  /\ Code \in [DOMAIN Code -> Int]
  /\ Keys \subseteq Seq(DOMAIN Code)
  /\ Missing \notin Keys /\ Missing \notin MapValues
  /\ P \in Nat /\ M \in Nat \ {0} /\ Size \in Nat \ {0}

VARIABLES
  table,    \* the address of the first node of each bucket, or 0
  nodes,    \* the heap: an address is an index
  call,     \* the call under way, or Idle
  answer,   \* the node the last get or contains has found
  outside   \* the key the table was indexed for outside its bounds, or Missing

mapVars == <<table, nodes, call, answer, outside>>

Call(op, key, value, bucket, prev, entry) ==
  [op |-> op, key |-> key, value |-> value, bucket |-> bucket, prev |-> prev, entry |-> entry]
Idle == Call("none", <<>>, Missing, 0, 0, 0)

(* % is generated as a signed remainder, on unsigned types too. *)
Rem(a, b) == IF a >= 0 THEN a % b ELSE -((-a) % b)
Turn(x, c) == [value |-> Rem(x.value + Code[c] * x.pow, M), pow |-> Rem(x.pow * P, M)]
Hash(key) ==
  LET x[n \in 0..Len(key)] == IF n = 0 THEN [value |-> 0, pow |-> 1] ELSE Turn(x[n - 1], key[n])
  IN x[Len(key)].value
Bucket_Hash == [key \in Keys |-> Hash(key)]
Bucket == [key \in Keys |-> Rem(Hash(key), Size)]

(* is_valid_entry: the walk goes on. *)
IsValidEntry(entry, key) == entry # 0 /\ nodes[entry].key # key

-----------------------------------------------------------------------------
Begin(op, key, value) ==
  /\ call = Idle /\ outside = Missing
  /\ IF Bucket[key] \in DOMAIN table
       THEN /\ call' = Call(op, key, value, Bucket[key], 0, table[Bucket[key]])
            /\ UNCHANGED outside
       ELSE outside' = key /\ UNCHANGED call
  /\ UNCHANGED <<table, nodes, answer>>
BeginInsert == \E k \in Keys, v \in MapValues : Begin("insert", k, v)
BeginGet == \E k \in Keys : Begin("get", k, Missing)
BeginContains == \E k \in Keys : Begin("contains", k, Missing)

Onward_Stays == [call EXCEPT !.prev = call.entry]
Onward == [call EXCEPT !.prev = call.entry, !.entry = nodes[call.entry].next]
Walk ==
  /\ IsValidEntry(call.entry, call.key)
  /\ call' = Onward
  /\ UNCHANGED <<table, nodes, answer, outside>>

Returns(op) == call.op = op /\ ~IsValidEntry(call.entry, call.key) /\ call' = Idle

(* insert_helper *)
Link_AtHead(new) ==
  /\ table' = [table EXCEPT ![call.bucket] = new]
  /\ nodes' = Append(nodes, [key |-> call.key, value |-> call.value, next |-> 0])
Link(new) ==
  LET node == [key |-> call.key, value |-> call.value, next |-> 0] IN
    IF call.prev = 0
      THEN table' = [table EXCEPT ![call.bucket] = new] /\ nodes' = Append(nodes, node)
      ELSE nodes' = Append([nodes EXCEPT ![call.prev].next = new], node) /\ UNCHANGED table
InsertNew ==
  /\ Returns("insert") /\ call.entry = 0
  /\ Link(Len(nodes) + 1)
  /\ UNCHANGED <<answer, outside>>
InsertOld ==
  /\ Returns("insert") /\ call.entry # 0
  /\ nodes' = [nodes EXCEPT ![call.entry].value = call.value]
  /\ UNCHANGED <<table, answer, outside>>
EndGet ==
  /\ Returns("get") \/ Returns("contains")
  /\ answer' = call.entry
  /\ UNCHANGED <<table, nodes, outside>>

-----------------------------------------------------------------------------
MapInit ==
  /\ table = [b \in 0..(Size - 1) |-> 0]
  /\ nodes = <<>>
  /\ call = Idle
  /\ answer = 0
  /\ outside = Missing

Step == Walk \/ InsertNew \/ InsertOld \/ EndGet
MapNext == BeginInsert \/ BeginGet \/ BeginContains \/ Step

MapSpec == MapInit /\ [][MapNext]_mapVars /\ WF_mapVars(Step)

-----------------------------------------------------------------------------
(* Where the walk for a key ends, in as many turns as there are nodes. *)
Past(entry, key) == IF IsValidEntry(entry, key) THEN nodes[entry].next ELSE entry
Search(key) ==
  LET entry[n \in 0..Len(nodes)] ==
        IF n = 0 THEN table[Bucket[key]] ELSE Past(entry[n - 1], key)
  IN entry[Len(nodes)]
Stored(key) ==
  IF Bucket[key] \notin DOMAIN table THEN Missing
  ELSE LET entry == Search(key) IN IF entry = 0 THEN Missing ELSE nodes[entry].value

(***************************************************************************)
(* The chains implement the map: a call takes effect once, when it         *)
(* returns, for its own key only, in whatever bucket the others are; and a *)
(* reference that get has returned is still the key's node after others    *)
(* were linked behind it.                                                  *)
(***************************************************************************)
Abstract == INSTANCE AbstractMap WITH
  map <- [k \in Keys |-> Stored(k)],
  ref <- IF answer = 0 THEN Missing ELSE nodes[answer].key
ImplementsMap == Abstract!Spec
ReferenceStays == answer # 0 => Search(nodes[answer].key) = answer

(***************************************************************************)
(* The table is indexed within its bounds as long as keys are made of      *)
(* lower-case letters.  A character in front of `a' can make the hash      *)
(* negative, and the remainder with it.                                    *)
(***************************************************************************)
InTableForLetters ==
  outside # Missing => \E n \in DOMAIN outside : Code[outside[n]] <= 0

(***************************************************************************)
(* Every call returns: no chain runs in a circle.                          *)
(***************************************************************************)
CallsReturn == call # Idle ~> call = Idle
=============================================================================

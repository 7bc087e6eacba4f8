---------------------------- MODULE MCDiagControl ---------------------------
(***************************************************************************)
(* DiagControl for TLC: two equipments with two items each, of which the   *)
(* modem lacks the second item of equipment 1.                             *)
(***************************************************************************)
EXTENDS DiagControl

MCLastItem == [e \in Equips |-> IF e = 0 THEN 1 ELSE 0]

MCInitialMask == [e \in Equips |-> IF e = 0 THEN {} ELSE {0}]

Nothing     == [explicit |-> {}, profile |-> {}]
ByProfile   == [explicit |-> {}, profile |-> {<<0, 1>>, <<1, 0>>, <<1, 1>>}]
ByLog       == [explicit |-> {<<1, 0>>}, profile |-> {}]
Merged      == [explicit |-> {<<0, 0>>}, profile |-> {<<0, 1>>, <<1, 1>>}]
Unavailable == [explicit |-> {<<0, 1>>, <<1, 1>>}, profile |-> {}]

AllSelections  == {Nothing, ByProfile, ByLog, Merged, Unavailable}
OneMask        == {ByLog}
=============================================================================

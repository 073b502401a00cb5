------------------------------- MODULE MCTree -------------------------------
(* Three ids in one initiative and one in another; a card is told to need   *)
(* one ticket of the first initiative, none, or the first two, so that      *)
(* there are chains of four, circles, and two ways down to the same ticket. *)
EXTENDS TreeOverlap

CONSTANT p
MCProcs == {p}
MCIds == {<<1, 1>>, <<1, 2>>, <<1, 3>>, <<2, 1>>}
MCLists == {{}, {<<1, 1>>}, {<<1, 2>>}, {<<1, 3>>}, {<<1, 1>>, <<1, 2>>}}
=============================================================================

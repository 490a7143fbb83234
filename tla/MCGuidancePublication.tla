------------------------ MODULE MCGuidancePublication ------------------------
(* Three Brain revisions and a few providers on pages of one.  Forked: b2 and  *)
(* b3 both descend from b1, b3 changing documentation only, and main may be  *)
(* rewritten.  Linear: b1, b2, b3 in a row, and main only moves forward.     *)
EXTENDS GuidancePublication, TLC

CONSTANTS b1, b2, b3, p1, p2, p3

Forked == b1 :> {b1} @@ b2 :> {b1, b2} @@ b3 :> {b1, b3}
ForkedMoves == (Brains \X Brains) \ {<<b, b>> : b \in Brains}
ForkedInert == {<<b1, b3>>}

Linear == b1 :> {b1} @@ b2 :> {b1, b2} @@ b3 :> {b1, b2, b3}
LinearMoves == {<<b1, b2>>, <<b2, b3>>}
LinearInert == {<<b1, b2>>}

NoMoves == {}

OneCohort == {<<p1, p2>>}
TwoCohorts == {<<p1, p2>>, <<p2>>}
=============================================================================

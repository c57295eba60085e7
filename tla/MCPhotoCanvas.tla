---------------------------- MODULE MCPhotoCanvas ----------------------------
(* Instance of PhotoCanvas: one hand-drawn layer and two generations           *)
(* (the fewest one of which can displace the other) and two requests at once.  *)
EXTENDS PhotoCanvas

CONSTANTS h1, g1, g2
MCDrawn == {h1}
MCGens == {g1, g2}
=============================================================================

----------------------------- MODULE MCPhotoTabs -----------------------------
(* Instance of PhotoTabs: two projects, stored or yet to be created, two tabs, *)
(* two drawings in each, and two requests in flight.  The projects and the     *)
(* drawings are interchangeable.  What comes after the tabs have changed under *)
(* an awaiting closure is not explored: the properties claim nothing of it.    *)
EXTENDS PhotoTabs, TLC

CONSTANTS w1, w2, r1, r2
MCWorkspaces == {w1, w2}
MCRevisions == {r1, r2}
MCSymmetry == Permutations(MCWorkspaces) \cup Permutations(MCRevisions)
NotCrossed == ~crossed
=============================================================================

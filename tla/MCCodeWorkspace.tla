-------------------------- MODULE MCCodeWorkspace --------------------------
(***************************************************************************)
(* Two files, of which the project has one or none to begin with, both at  *)
(* paths of the demo project, and one text besides the empty one and the   *)
(* demo's.  The files are interchangeable.                                 *)
(***************************************************************************)
EXTENDS CodeWorkspace, TLC

CONSTANTS f1, f2, a, d

MCFiles == {f1, f2}
MCSymmetry == Permutations(MCFiles)
MCProjects == {{}, {f1}, {f2}}
MCContents == {a, d}
MCStored == {a, Empty}
MCDemo == [f \in MCFiles |-> d]
MCDemoOfOne == [f \in MCFiles |-> IF f = f1 THEN d ELSE Empty]
MCSessions == {{"edit", "type"}, {"grow", "arrange"},
               {"create", "arrange", "type"}, {"create", "deploy", "type", "search"}}

\* What comes after a state of which nothing is claimed is not explored: every
\* file is crossed, and the tree is overtaken or never changes.
SomethingClaimed ==
  \/ born \ crossed # {}
  \/ ~overtaken /\ session \cap {"grow", "create"} # {}
=============================================================================

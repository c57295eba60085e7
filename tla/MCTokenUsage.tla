---------------------------- MODULE MCTokenUsage ----------------------------
(***************************************************************************)
(* Three requests, which are interchangeable, in two months.               *)
(***************************************************************************)
EXTENDS TokenUsage, TLC

CONSTANTS r1, r2, r3

MCRequests == {r1, r2, r3}
MCSymmetry == Permutations(MCRequests)
=============================================================================

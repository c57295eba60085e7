-------------------------- MODULE MCPreviewManager --------------------------
(* Instance of PreviewManager: three requests, the fewest that can overlap   *)
(* while a session exists.                                                   *)
EXTENDS PreviewManager

CONSTANTS r1, r2, r3
MCRequests == {r1, r2, r3}
=============================================================================

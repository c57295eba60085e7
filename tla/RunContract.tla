---------------------------- MODULE RunContract ----------------------------
(***************************************************************************)
(* What the platform promises about one generation run to those who see    *)
(* only its row, its artifact and its bill: the run opens once and is      *)
(* settled at most once; it is charged at most once, after its artifact    *)
(* has been stored and before it is completed; a failed run has neither,   *)
(* and a run whose client leaves is not charged.                           *)
(* PlatformRun implements it.                                              *)
(***************************************************************************)
EXTENDS Naturals

VARIABLES
    phase,      \* "none", "running", "completed", "failed"; unsettled for good:
                \* "left" by its client, or "dead" with its process
    stored,     \* whether there is an artifact
    charged     \* how often usage was recorded for it

contract == <<phase, stored, charged>>

Init == phase = "none" /\ stored = FALSE /\ charged = 0

Open == phase = "none" /\ phase' = "running" /\ UNCHANGED <<stored, charged>>

Store == /\ phase = "running" /\ ~stored
         /\ stored' = TRUE
         /\ UNCHANGED <<phase, charged>>

Charge == /\ phase = "running" /\ stored /\ charged = 0
          /\ charged' = 1
          /\ UNCHANGED <<phase, stored>>

Complete == phase = "running" /\ stored /\ phase' = "completed" /\ UNCHANGED <<stored, charged>>

\* A run whose artifact is stored can only be completed.
Fail == phase = "running" /\ ~stored /\ phase' = "failed" /\ UNCHANGED <<stored, charged>>

\* Nobody leaves a run between its bill and its completion.
Leave == phase = "running" /\ charged = 0 /\ phase' = "left" /\ UNCHANGED <<stored, charged>>

Die == phase \in {"running", "left"} /\ phase' = "dead" /\ UNCHANGED <<stored, charged>>

Next == Open \/ Store \/ Charge \/ Complete \/ Fail \/ Leave \/ Die

Spec == Init /\ [][Next]_contract
=============================================================================

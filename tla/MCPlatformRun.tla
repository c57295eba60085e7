--------------------------- MODULE MCPlatformRun ---------------------------
(* Instance of PlatformRun: one stage of each kind the loop distinguishes. *)
EXTENDS PlatformRun

MCStages == <<"intent_classification", "requirements", "task_breakdown",
              "code_generation", "write_files", "validation", "fix", "review",
              "upload">>
MCCosts == {1, 2}
=============================================================================

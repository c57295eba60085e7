---------------------------- MODULE PlatformRun ----------------------------
(***************************************************************************)
(* One run of the project generation workflow of the AI platform:          *)
(* WorkflowOrchestrator.run_project_generation with the RunStore and the   *)
(* CheckpointManager it writes through.                                    *)
(*                                                                         *)
(* The orchestrator is an async generator.  An action below is the code    *)
(* between two points where it can be suspended (an await or a yield) or   *)
(* between two commits, whichever is shorter, so that the client going     *)
(* away (Disconnect) and the process dying (Crash) can happen wherever     *)
(* they can happen in the code.  Agent calls run in an asyncio task of     *)
(* their own that is not cancelled with the generator.                     *)
(***************************************************************************)
EXTENDS Integers, Sequences, FiniteSets, Functions

CONSTANTS
    Stages,     \* stages_json of the workflow row: a sequence of stage names
    MaxFix,     \* max_fix_attempts of the workflow row
    MaxTasks,   \* bound: file tasks of a run (the code keeps at most 12)
    Costs,      \* bound: the token counts an agent call can report
    Estimate    \* estimated_tokens, computed by the gateway

ASSUME StagesAssumption == Stages \in Seq(STRING)
\* `int(max_fix_attempts or 3)` turns 0 into 3, so the loop has an attempt.
ASSUME MaxFixAssumption == MaxFix \in Nat \ {0}
ASSUME MaxTasksAssumption == MaxTasks \in Nat \ {0}
\* run_text falls back to an estimate when the provider reports no usage.
ASSUME CostsAssumption == Costs \subseteq Nat \ {0}
ASSUME EstimateAssumption == Estimate \in Nat \ {0}

VARIABLES
    pc,         \* where the generator is
    idx,        \* index of the stage the for loop is at
    run,        \* the platform_workflow_runs row
    agentRuns,  \* the platform_agent_runs rows, in order of insertion
    ckpts,      \* the platform_checkpoints rows, in order of insertion
    ctx,        \* the WorkflowContext
    task,       \* the asyncio task of the current agent call
    batch,      \* locals of _run_batched_code_generation
    total,      \* total_in + total_out
    artifact,   \* whether the platform_artifacts row exists
    charge      \* what record_usage has been called with for this run

vars == <<pc, idx, run, agentRuns, ckpts, ctx, task, batch, total, artifact,
          charge>>

-----------------------------------------------------------------------------
Intent == "intent_classification"

\* Stages the loop skips: they are run elsewhere in the function.
Inline == {Intent, "upload", "fix"}

\* Stages that never call an agent, and those that do not on the fast path.
AlwaysLocal == {"write_files", "task_breakdown"}
FastLocal == {"requirements", "planning", "architecture", "validation",
              "artifact", "documentation", "review"}

\* Local work that touches the workspace and may therefore raise.
OnDisk == {"write_files", "architecture", "documentation", "review"}

Stage == Stages[idx]
IsLocal == Stage \in AlwaysLocal \/ (ctx.fast /\ Stage \in FastLocal)
IsAgentStage == ~IsLocal /\ Stage \notin {"validation", "code_generation"}

Batches == IF ctx.tasks = 0 THEN 1 ELSE ctx.tasks

NoTask == [state |-> "none", cost |-> 0, error |-> "none"]
Pending == [NoTask EXCEPT !.state = "pending"]
Returned(c) == [NoTask EXCEPT !.state = "done", !.cost = c]
\* "handled" is a TimeoutError or a ValueError, "other" any other exception.
Raised(e) == [NoTask EXCEPT !.state = "raised", !.error = e]

Init ==
    /\ pc = "start"
    /\ idx = 1
    /\ run = [status |-> "none", stage |-> Intent, tokens |-> 0]
    /\ agentRuns = <<>>
    /\ ckpts = <<>>
    /\ ctx \in [fast : BOOLEAN, tasks : {0}, valid : {"none"}, retry : {0}]
    /\ task = NoTask
    /\ batch = [at |-> 0, spent |-> 0]
    /\ total = 0
    /\ artifact = FALSE
    /\ charge = [times |-> 0, tokens |-> 0]

-----------------------------------------------------------------------------
(* Shared steps of the handlers.                                           *)

\* complete_run("failed"): what the `except Exception` does, in one commit.
FailWith(tokens) ==
    /\ run' = [run EXCEPT !.status = "failed", !.tokens = tokens]
    /\ pc' = "done"
    /\ task' = NoTask

Fail == FailWith(total)

\* _run_agent_stage up to the model call: the row is inserted unless there
\* is no enabled configuration for the role or the agent cannot be built.
CallAgent(stage) ==
    \/ /\ agentRuns' = Append(agentRuns, [stage |-> stage,
                                          status |-> "running", tokens |-> 0])
       /\ task' = Pending
    \/ /\ task' = Raised("handled")
       /\ UNCHANGED agentRuns

Checkpoint(stage, retry) ==
    ckpts' = Append(ckpts, [stage |-> stage, retry |-> retry])

\* The checkpoint that ends a stage, and the next turn of the for loop.
EndStage(stage) ==
    /\ Checkpoint(stage, 0)
    /\ idx' = idx + 1
    /\ pc' = "loop"

-----------------------------------------------------------------------------
(* The agent call, in its own task.                                        *)

\* finish_agent_run.  The row is the last one: the generator awaits a call
\* before it makes another.
FinishAgentRun(status, tokens) ==
    agentRuns' = [agentRuns EXCEPT ![Len(agentRuns)] =
                     [@ EXCEPT !.status = status, !.tokens = tokens]]

\* Variant: the `except` of _run_agent_stage forgets finish_agent_run.
AgentReturnsUnsettled ==
    /\ task.state = "pending"
    /\ \E e \in {"handled", "other"} : task' = Raised(e)
    /\ UNCHANGED <<pc, idx, run, agentRuns, ckpts, ctx, batch, total, artifact, charge>>

\* run_json returned and finish_agent_run committed the usage, or it raised
\* and finish_agent_run committed "failed".
AgentReturns ==
    /\ task.state = "pending"
    /\ \/ \E c \in Costs :
            /\ FinishAgentRun("completed", c)
            /\ task' = Returned(c)
       \/ \E e \in {"handled", "other"} :
            /\ FinishAgentRun("failed", 0)
            /\ task' = Raised(e)
    /\ UNCHANGED <<pc, idx, run, ckpts, ctx, batch, total, artifact, charge>>

-----------------------------------------------------------------------------
(* Opening the run and classifying the intent.                             *)

CreateRun ==
    /\ pc = "start"
    /\ run' = [run EXCEPT !.status = "running"]
    /\ pc' = "opened"
    /\ UNCHANGED <<idx, agentRuns, ckpts, ctx, task, batch, total, artifact, charge>>

ClassifyFast ==
    /\ pc = "opened" /\ ctx.fast
    /\ Checkpoint(Intent, 0)
    /\ pc' = "loop"
    /\ UNCHANGED <<idx, run, agentRuns, ctx, task, batch, total, artifact, charge>>

ClassifyByAgent ==
    /\ pc = "opened" /\ ~ctx.fast
    /\ CallAgent(Intent)
    /\ pc' = "intent"
    /\ UNCHANGED <<idx, run, ckpts, ctx, batch, total, artifact, charge>>

\* The answer itself may ask for the fast path (static_fast_path).
IntentDone ==
    /\ pc = "intent" /\ task.state = "done"
    /\ \E f \in BOOLEAN : ctx' = [ctx EXCEPT !.fast = f]
    /\ total' = total + task.cost
    /\ Checkpoint(Intent, 0)
    /\ pc' = "loop"
    /\ task' = NoTask
    /\ UNCHANGED <<idx, run, agentRuns, batch, artifact, charge>>

\* The agent call raised, or no workflow is configured for the intent.
IntentFails ==
    /\ \/ pc = "intent" /\ task.state = "raised"
       \/ pc = "loop" /\ idx = 1
    /\ Fail
    /\ UNCHANGED <<idx, agentRuns, ckpts, ctx, batch, total, artifact, charge>>

-----------------------------------------------------------------------------
(* The stage loop.                                                         *)

SkipStage ==
    /\ pc = "loop" /\ idx <= Len(Stages) /\ Stage \in Inline
    /\ idx' = idx + 1
    /\ UNCHANGED <<pc, run, agentRuns, ckpts, ctx, task, batch, total, artifact, charge>>

EnterStage ==
    /\ pc = "loop" /\ idx <= Len(Stages) /\ Stage \notin Inline
    /\ run' = [run EXCEPT !.stage = Stage]
    /\ pc' = "stage"
    /\ UNCHANGED <<idx, agentRuns, ckpts, ctx, task, batch, total, artifact, charge>>

\* write_files, task_breakdown, and what the fast path computes locally.
LocalStage ==
    /\ pc = "stage" /\ IsLocal
    /\ CASE Stage = "task_breakdown" ->
              \E n \in 1..(IF ctx.fast THEN 1 ELSE MaxTasks) :
                 ctx' = [ctx EXCEPT !.tasks = n]
         [] Stage = "validation" -> ctx' = [ctx EXCEPT !.valid = "passed"]
         [] OTHER -> UNCHANGED ctx
    /\ EndStage(Stage)
    /\ UNCHANGED <<run, agentRuns, task, batch, total, artifact, charge>>

\* The review scans the workspace before it calls its agent.
StageFails ==
    /\ pc = "stage" /\ Stage \in OnDisk
    /\ IsLocal \/ Stage = "review"
    /\ Fail
    /\ UNCHANGED <<idx, agentRuns, ckpts, ctx, batch, total, artifact, charge>>

StartAgentStage ==
    /\ pc = "stage" /\ IsAgentStage
    /\ CallAgent(Stage)
    /\ pc' = "agent"
    /\ UNCHANGED <<idx, run, ckpts, ctx, batch, total, artifact, charge>>

AgentStageDone ==
    /\ pc = "agent" /\ task.state = "done"
    /\ total' = total + task.cost
    /\ EndStage(Stage)
    /\ task' = NoTask
    /\ UNCHANGED <<run, agentRuns, ctx, batch, artifact, charge>>

\* Variant: the substitute review is not checkpointed.
ReviewFallbackUncheckpointed ==
    /\ pc = "agent" /\ task.state = "raised"
    /\ Stage = "review" /\ task.error = "handled"
    /\ idx' = idx + 1
    /\ pc' = "loop"
    /\ task' = NoTask
    /\ UNCHANGED <<run, agentRuns, ckpts, ctx, batch, total, artifact, charge>>

\* Only the review has a substitute, and only for these two exceptions.
ReviewFallback ==
    /\ pc = "agent" /\ task.state = "raised"
    /\ Stage = "review" /\ task.error = "handled"
    /\ EndStage(Stage)
    /\ task' = NoTask
    /\ UNCHANGED <<run, agentRuns, ctx, batch, total, artifact, charge>>

\* The call raised, or its output could not be applied to the workspace.
AgentStageFails ==
    /\ pc = "agent"
    /\ \/ /\ task.state = "raised"
          /\ Stage # "review" \/ task.error = "other"
       \/ task.state = "done" /\ Stage # "artifact"
    /\ total' = total + task.cost
    /\ FailWith(total + task.cost)
    /\ UNCHANGED <<idx, agentRuns, ckpts, ctx, batch, artifact, charge>>

-----------------------------------------------------------------------------
(* Code generation: one agent call per file task.                          *)

StartCodeGeneration ==
    /\ pc = "stage" /\ Stage = "code_generation"
    /\ CallAgent(Stage)
    /\ batch' = [at |-> 1, spent |-> 0]
    /\ pc' = "batch"
    /\ UNCHANGED <<idx, run, ckpts, ctx, total, artifact, charge>>

\* Variant: only the last batch's usage reaches the caller.
NextBatchForgetsUsage ==
    /\ pc = "batch" /\ task.state = "done" /\ batch.at < Batches
    /\ batch' = [at |-> batch.at + 1, spent |-> 0]
    /\ CallAgent(Stage)
    /\ UNCHANGED <<pc, idx, run, ckpts, ctx, total, artifact, charge>>

\* The usage of a batch stays in the inner generator until the last one.
NextBatch ==
    /\ pc = "batch" /\ task.state = "done" /\ batch.at < Batches
    /\ batch' = [at |-> batch.at + 1, spent |-> batch.spent + task.cost]
    /\ CallAgent(Stage)
    /\ UNCHANGED <<pc, idx, run, ckpts, ctx, total, artifact, charge>>

CodeGenerationDone ==
    /\ pc = "batch" /\ task.state = "done" /\ batch.at = Batches
    /\ total' = total + batch.spent + task.cost
    /\ EndStage(Stage)
    /\ task' = NoTask
    /\ UNCHANGED <<run, agentRuns, ctx, batch, artifact, charge>>

\* A first attempt that raised: the inner generator yields its retry notice
\* as a dict (StreamEvent.to_sse()), the caller calls to_sse() on it, and the
\* AttributeError ends the run; with no file task the exception is re-raised.
\* A batch that cannot be written to the workspace ends the run as well, the
\* last one before or after its usage is added up.
CodeGenerationFails ==
    /\ pc = "batch" /\ task.state \in {"raised", "done"}
    /\ \/ Fail /\ UNCHANGED total
       \/ /\ task.state = "done" /\ batch.at = Batches
          /\ total' = total + batch.spent + task.cost
          /\ FailWith(total + batch.spent + task.cost)
    /\ UNCHANGED <<idx, agentRuns, ckpts, ctx, batch, artifact, charge>>

\* After the checkpoint repair_static_project rewrites files of the workspace.
RepairFails ==
    /\ pc = "loop" /\ idx > 1 /\ Stages[idx - 1] = "code_generation"
    /\ Fail
    /\ UNCHANGED <<idx, agentRuns, ckpts, ctx, batch, total, artifact, charge>>

-----------------------------------------------------------------------------
(* Validation and its fix loop.                                            *)

StartValidation ==
    /\ pc = "stage" /\ Stage = "validation" /\ ~IsLocal
    /\ pc' = "validate"
    /\ UNCHANGED <<idx, run, agentRuns, ckpts, ctx, task, batch, total, artifact, charge>>

ValidationPasses ==
    /\ pc = "validate"
    /\ ctx' = [ctx EXCEPT !.valid = "passed"]
    /\ pc' = "validated"
    /\ UNCHANGED <<idx, run, agentRuns, ckpts, task, batch, total, artifact, charge>>

ValidationFails ==
    /\ pc = "validate"
    /\ ctx' = [ctx EXCEPT !.valid = "failed", !.retry = 1]
    /\ CallAgent("fix")
    /\ pc' = "fix"
    /\ UNCHANGED <<idx, run, ckpts, batch, total, artifact, charge>>

\* Variant: nothing handles an exception of the fix agent.
FixReturnsOnlyWhenDone ==
    /\ pc = "fix" /\ task.state = "done"
    /\ total' = total + task.cost
    /\ task' = NoTask
    /\ pc' = "revalidate"
    /\ UNCHANGED <<idx, run, agentRuns, ckpts, ctx, batch, artifact, charge>>

\* Whatever happens to the fix agent or its patches, validation runs again.
FixReturns ==
    /\ pc = "fix" /\ task.state \in {"done", "raised"}
    /\ total' = total + task.cost
    /\ task' = NoTask
    /\ pc' = "revalidate"
    /\ UNCHANGED <<idx, run, agentRuns, ckpts, ctx, batch, artifact, charge>>

RevalidationPasses ==
    /\ pc = "revalidate"
    /\ Checkpoint("fix", ctx.retry)
    /\ ctx' = [ctx EXCEPT !.valid = "passed"]
    /\ pc' = "validated"
    /\ UNCHANGED <<idx, run, agentRuns, task, batch, total, artifact, charge>>

\* Variant: range(max_fix + 1).
RevalidationFailsOnceMore ==
    /\ pc = "revalidate"
    /\ Checkpoint("fix", ctx.retry)
    /\ \/ /\ ctx.retry <= MaxFix
          /\ ctx' = [ctx EXCEPT !.retry = @ + 1]
          /\ CallAgent("fix")
          /\ pc' = "fix"
       \/ /\ ctx.retry > MaxFix
          /\ pc' = "validated"
          /\ UNCHANGED <<ctx, agentRuns, task>>
    /\ UNCHANGED <<idx, run, batch, total, artifact, charge>>

\* Another attempt while there are any; the run goes on when there are not.
RevalidationFails ==
    /\ pc = "revalidate"
    /\ Checkpoint("fix", ctx.retry)
    /\ \/ /\ ctx.retry < MaxFix
          /\ ctx' = [ctx EXCEPT !.retry = @ + 1]
          /\ CallAgent("fix")
          /\ pc' = "fix"
       \/ /\ ctx.retry = MaxFix
          /\ pc' = "validated"
          /\ UNCHANGED <<ctx, agentRuns, task>>
    /\ UNCHANGED <<idx, run, batch, total, artifact, charge>>

\* run_sandbox_command refuses a blocked command outside any handler.
ValidationRaises ==
    /\ pc \in {"validate", "revalidate"}
    /\ Fail
    /\ UNCHANGED <<idx, agentRuns, ckpts, ctx, batch, total, artifact, charge>>

ValidationDone ==
    /\ pc = "validated"
    /\ EndStage(Stage)
    /\ UNCHANGED <<run, agentRuns, ctx, task, batch, total, artifact, charge>>

-----------------------------------------------------------------------------
(* Delivery: archive, upload, bill, complete.                              *)

StagesDone ==
    /\ pc = "loop" /\ idx > Len(Stages)
    /\ pc' = "deliver"
    /\ UNCHANGED <<idx, run, agentRuns, ckpts, ctx, task, batch, total, artifact, charge>>

SaveArtifact ==
    /\ pc = "deliver"
    /\ artifact' = TRUE
    /\ pc' = "bill"
    /\ UNCHANGED <<idx, run, agentRuns, ckpts, ctx, task, batch, total, charge>>

DeliveryFails ==
    /\ pc = "deliver"
    /\ Fail
    /\ UNCHANGED <<idx, agentRuns, ckpts, ctx, batch, total, artifact, charge>>

RecordUsage ==
    /\ pc = "bill"
    /\ charge' = [times |-> charge.times + 1,
                  tokens |-> charge.tokens + (IF total <= 0 THEN Estimate ELSE total)]
    /\ pc' = "complete"
    /\ UNCHANGED <<idx, run, agentRuns, ckpts, ctx, task, batch, total, artifact>>

\* The account is gone: record_usage raises ValueError and billing is skipped.
SkipBilling ==
    /\ pc = "bill"
    /\ pc' = "complete"
    /\ UNCHANGED <<idx, run, agentRuns, ckpts, ctx, task, batch, total, artifact, charge>>

CompleteRun ==
    /\ pc = "complete"
    /\ run' = [run EXCEPT !.status = "completed", !.tokens = total]
    /\ pc' = "done"
    /\ UNCHANGED <<idx, agentRuns, ckpts, ctx, task, batch, total, artifact, charge>>

-----------------------------------------------------------------------------
(* The environment.                                                        *)

\* Variant: an event is yielded between record_usage and complete_run.
SuspendedAfterBilling ==
    pc \notin {"start", "bill", "done", "gone", "crashed"}

\* Points where the generator is suspended.  There is none between the
\* artifact row and record_usage, nor after record_usage unless it raised.
Suspended ==
    \/ pc \in {"opened", "intent", "stage", "agent", "batch", "fix", "validate",
               "revalidate", "validated", "deliver"}
    \/ pc = "complete" /\ charge.times = 0
    \/ pc = "loop" /\ idx > 1 /\ Stages[idx - 1] = "code_generation"

\* CancelledError or GeneratorExit: neither is an Exception, so nothing marks
\* the run.  The intent call is awaited directly and dies with the generator;
\* any other call is a task that asyncio.wait leaves running.
Disconnect ==
    /\ Suspended
    /\ pc' = "gone"
    /\ task' = IF pc = "intent" THEN NoTask ELSE task
    /\ UNCHANGED <<idx, run, agentRuns, ckpts, ctx, batch, total, artifact, charge>>

\* The process dies; nothing looks at "running" rows when it comes back.
Crash ==
    /\ pc \notin {"start", "done", "crashed"}
    /\ pc' = "crashed"
    /\ task' = NoTask
    /\ UNCHANGED <<idx, run, agentRuns, ckpts, ctx, batch, total, artifact, charge>>

-----------------------------------------------------------------------------
Opening == CreateRun \/ ClassifyFast \/ ClassifyByAgent \/ IntentDone \/ IntentFails
Looping == SkipStage \/ EnterStage \/ LocalStage \/ StageFails
           \/ StartAgentStage \/ AgentStageDone \/ ReviewFallback \/ AgentStageFails
Generating == StartCodeGeneration \/ NextBatch \/ CodeGenerationDone
              \/ CodeGenerationFails \/ RepairFails
Validating == StartValidation \/ ValidationPasses \/ ValidationFails \/ FixReturns
              \/ RevalidationPasses \/ RevalidationFails \/ ValidationRaises
              \/ ValidationDone
Delivering == StagesDone \/ SaveArtifact \/ DeliveryFails \/ RecordUsage
              \/ SkipBilling \/ CompleteRun

System == AgentReturns \/ Opening \/ Looping \/ Generating \/ Validating \/ Delivering

Next == System \/ Disconnect \/ Crash

Spec == Init /\ [][Next]_vars

\* The event loop keeps resuming what is runnable, and an agent call always
\* ends: run_text bounds it with asyncio.wait_for.
FairSpec == Spec /\ WF_vars(System)
-----------------------------------------------------------------------------
(* Properties.                                                             *)

\* What can stand in a stage column.
Names == Range(Stages) \union {Intent, "fix"}

RunRow == [status : {"none", "running", "completed", "failed"},
           stage : Names, tokens : Nat]
AgentRunRow == [stage : Names, status : {"running", "completed", "failed"},
                tokens : Nat]
Context == [fast : BOOLEAN, tasks : Nat, valid : {"none", "passed", "failed"},
            retry : 0..MaxFix]
TaskState == [state : {"none", "pending", "done", "raised"}, cost : Nat,
              error : {"none", "handled", "other"}]
Places == {"start", "opened", "intent", "loop", "stage", "agent", "batch", "fix",
           "validate", "revalidate", "validated", "deliver", "bill", "complete",
           "done", "gone", "crashed"}

\* Every variable has the type of the row, local or context it stands for.
TypeOK ==
    /\ pc \in Places
    /\ idx \in Nat \ {0}
    /\ run \in RunRow
    /\ agentRuns \in Seq(AgentRunRow)
    /\ ckpts \in Seq([stage : Names, retry : 0..MaxFix])
    /\ ctx \in Context
    /\ task \in TaskState
    /\ batch \in [at : Nat, spent : Nat]
    /\ total \in Nat
    /\ artifact \in BOOLEAN
    /\ charge \in [times : Nat, tokens : Nat]

Finished == run.status \in {"completed", "failed"}

\* The sums of the first 0, 1, ... numbers of a list, and the sum of them all.
Totals(s) == LET t[n \in 0..Len(s)] == IF n = 0 THEN 0 ELSE t[n - 1] + s[n] IN t
Total(s) == Totals(s)[Len(s)]

\* What the first 0, 1, ... names of a list come to without those in drop.
Keepings(s, drop) ==
    LET k[n \in 0..Len(s)] ==
            IF n = 0 THEN <<>>
            ELSE IF s[n] \in drop THEN k[n - 1] ELSE Append(k[n - 1], s[n])
    IN  k
Kept(s, drop) == Keepings(s, drop)[Len(s)]

\* The tokens the agent run rows of this workflow run add up to.
Spent == Total([i \in DOMAIN agentRuns |-> agentRuns[i].tokens])

\* The checkpoints that end a stage, in order, and the stages the workflow
\* has to go through.
StageCkpts == Kept([i \in DOMAIN ckpts |-> ckpts[i].stage], {"fix"})
Planned == <<Intent>> \o Kept(Stages, Inline)

\* A completed run has accounted for each token its agents used, batches and
\* fix attempts included, and its owner is charged that sum, or the estimate
\* when no agent ran; a failed run never reports more than was used.
AccountsForItsAgents ==
    /\ run.status = "completed" =>
          /\ run.tokens = Spent
          /\ charge.times = 1 =>
                charge.tokens = IF Spent = 0 THEN Estimate ELSE Spent
    /\ run.status = "failed" => run.tokens <= Spent

\* The owner is charged at most once, only for a project that was stored, and
\* a charged run ends completed unless the process dies before its last commit;
\* in particular a failed or abandoned run is never charged.
ChargedOnlyForDelivery ==
    charge.times # 0 =>
        /\ charge.times = 1
        /\ artifact
        /\ run.status = "completed" \/ pc \in {"complete", "crashed"}

\* When a run is completed or failed no agent run of it is still "running":
\* the row of an agent call is settled before the call's outcome is acted on.
NoAgentRunLeftRunning ==
    Finished => \A i \in DOMAIN agentRuns : agentRuns[i].status # "running"

\* Checkpoints follow the configured stages with none missing, repeated or out
\* of order, a completed run has all of them, and no agent of a stage is called
\* before every earlier stage is checkpointed (what a resume would rely on).
CheckpointsFollowStages ==
    /\ Len(StageCkpts) <= Len(Planned)
    /\ \A i \in DOMAIN StageCkpts : StageCkpts[i] = Planned[i]
    /\ run.status = "completed" => Len(StageCkpts) = Len(Planned)
    /\ \A r \in DOMAIN agentRuns :
          \/ agentRuns[r].stage = "fix"
          \/ \E i \in DOMAIN Planned :
                agentRuns[r].stage = Planned[i] /\ Len(StageCkpts) >= i - 1

\* A step of a generator whose run is finished, or of a call that outlived its
\* generator, never adds a checkpoint, a charge or a new agent run, and never
\* changes the workflow run's row.
SettledStaysSettled ==
    [][(Finished \/ pc \in {"gone", "crashed"}) =>
          /\ UNCHANGED <<run, ckpts, charge, artifact>>
          /\ Len(agentRuns') = Len(agentRuns)]_vars

\* The phase of the run for those who see only its row and whether anybody is
\* left to change it.
Phase == IF ~Finished /\ pc = "gone" THEN "left"
         ELSE IF ~Finished /\ pc = "crashed" THEN "dead" ELSE run.status

Contract == INSTANCE RunContract
                WITH phase <- Phase, stored <- artifact, charged <- charge.times

\* The run keeps its contract: opened once, settled once and for good, charged
\* at most once and between the artifact and completion, never failed with an
\* artifact, whatever leaves, dies or is late (orchestrator.py:76-99, 589-677,
\* run_store.py:20-41, 109-127).
ImplementsContract == Contract!Spec

\* Unless its client leaves or the process dies, a run ends completed or failed
\* whatever the agents answer.
RunFinishes == <>(Finished \/ pc \in {"gone", "crashed"})

\* "each stage runs ... with checkpoints, retries": a run does not fail in code
\* generation because of the first answer to a file task; the batch is tried
\* a second time (`for batch_attempt in range(2)`).
BatchIsRetried ==
    LET n == Len(agentRuns)
        FailedCall(i) == /\ agentRuns[i].stage = "code_generation"
                         /\ agentRuns[i].status = "failed"
    IN  (/\ run.status = "failed" /\ ctx.tasks > 0
         /\ n > 0 /\ FailedCall(n))
        => n > 1 /\ FailedCall(n - 1)
=============================================================================

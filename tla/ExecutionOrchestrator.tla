----------------------- MODULE ExecutionOrchestrator -----------------------
(***************************************************************************)
(* The run-the-project loop of the code workspace: the Planner proposes a  *)
(* plan of terminal commands, the Executor runs them one at a time, and a  *)
(* failed command goes back to the Planner, whose recovery plan is run by  *)
(* a recursive call of the same function.  `stack` is that recursion: one  *)
(* frame per active call of _execute_plan_until_done, the last one on top. *)
(* The commands and the model's answers are free; what they do is chosen   *)
(* when they are run.                                                      *)
(***************************************************************************)
EXTENDS Integers, Sequences, FiniteSets

CONSTANTS
    Commands,       \* normalised terminal commands
    Servers,        \* those that contain "uvicorn"
    Errors,         \* the outputs a failed command can end with
    MaxTotalSteps,  \* max_total_steps
    MaxPlanCycles,  \* max_plan_cycles
    MaxPlanLen      \* bound: steps the Planner puts in one plan

ASSUME ServersAssumption == Servers \subseteq Commands
ASSUME BudgetAssumption ==
    MaxTotalSteps \in Nat /\ MaxPlanCycles \in Nat \ {0} /\ MaxPlanLen \in Nat \ {0}

VARIABLES
    phase,      \* what the innermost call is about to do
    stack,      \* active calls: the plan, its cycle and the index reached
    executed,   \* executed_steps
    cycles,     \* plan_cycles
    signatures  \* _failure_signatures

loopVars == <<phase, stack, executed, cycles, signatures>>

Plans == UNION {[1..n -> Commands] : n \in 1..MaxPlanLen}

Top == stack[Len(stack)]
Command == Top.steps[Top.index]
InPlan == Top.index <= Len(Top.steps)
PlanKind == IF Len(stack) = 1 THEN "run" ELSE "recovery"

Frame(steps, cycle) == [steps |-> steps, index |-> 1, cycle |-> cycle]

\* index += 1 in the innermost call.
Advanced(s) == [s EXCEPT ![Len(s)].index = @ + 1]

\* A StepRecord.  "up" is a server that started (the output of any command may
\* say so, whatever the exit code), "ok" any other success; a failure carries
\* its output.  `at` is a ghost the code does not keep: the position of the step
\* in its plan, by which SuccessMeansStepsRan finds it (the code's own index
\* starts at 0, positions of a sequence at 1).
Record(outcome) == [command |-> Command, kind |-> PlanKind, at |-> Top.index,
                    outcome |-> outcome]
Outcomes == {"ok", "up"}
Succeeded(r) == r.outcome \in {"ok", "up"}

LoopInit ==
    /\ phase = "plan"
    /\ stack = <<>>
    /\ executed = <<>>
    /\ cycles = 0
    /\ signatures = {}

-----------------------------------------------------------------------------
\* _planner_run_plan, or the explicit command as a plan of one step.
PlanRun ==
    /\ phase = "plan"
    /\ cycles' = 1
    /\ \/ \E p \in Plans : stack' = <<Frame(p, 1)>> /\ phase' = "run"
       \/ stack' = <<>> /\ phase' = "failed"
    /\ UNCHANGED <<executed, signatures>>

\* Variant: one step more than the budget.
OneMoreStep == Len(executed) <= MaxTotalSteps

\* Checked at the top of the loop, before a step and after a recovery.
BudgetLeft == Len(executed) < MaxTotalSteps

OutOfBudget ==
    /\ phase = "run" /\ InPlan
    /\ ~BudgetLeft
    /\ phase' = "failed"
    /\ UNCHANGED <<stack, executed, cycles, signatures>>

StepSucceeds ==
    /\ phase = "run" /\ InPlan
    /\ BudgetLeft
    /\ \E o \in Outcomes : executed' = Append(executed, Record(o))
    /\ stack' = Advanced(stack)
    /\ UNCHANGED <<phase, cycles, signatures>>

\* Variant: failures are not remembered.
StepFailsForgotten ==
    /\ phase = "run" /\ InPlan
    /\ BudgetLeft
    /\ \E e \in Errors : executed' = Append(executed, Record(e))
    /\ phase' = "recover"
    /\ UNCHANGED <<stack, cycles, signatures>>

\* A failure seen before ends everything; a new one goes to the Planner.
StepFails ==
    /\ phase = "run" /\ InPlan
    /\ BudgetLeft
    /\ \E e \in Errors :
          /\ executed' = Append(executed, Record(e))
          /\ signatures' = signatures \union {<<Command, e>>}
          /\ phase' = IF <<Command, e>> \in signatures THEN "failed" ELSE "recover"
    /\ UNCHANGED <<stack, cycles>>

\* Variant: the cycle is compared before it is counted.
RecoverOnceMore ==
    /\ phase = "recover"
    /\ cycles' = cycles + 1
    /\ \/ /\ cycles <= MaxPlanCycles
          /\ \E p \in Plans : stack' = Append(stack, Frame(p, cycles'))
          /\ phase' = "run"
       \/ phase' = "failed" /\ UNCHANGED stack
    /\ UNCHANGED <<executed, signatures>>

\* create_recovery_plan drops steps whose text was already executed, but the
\* rest is normalised afterwards and may be a command tried before; its own
\* fallback ends with the failed command.  Any plan may come back, or none.
Recover ==
    /\ phase = "recover"
    /\ cycles' = cycles + 1
    /\ \/ /\ cycles' <= MaxPlanCycles
          /\ \E p \in Plans : stack' = Append(stack, Frame(p, cycles'))
          /\ phase' = "run"
       \/ phase' = "failed" /\ UNCHANGED stack
    /\ UNCHANGED <<executed, signatures>>

\* The innermost call returns True.
PlanDone ==
    /\ phase = "run" /\ ~InPlan
    /\ IF Len(stack) = 1
         THEN phase' = "succeeded" /\ UNCHANGED stack
         ELSE phase' = "recovered" /\ stack' = SubSeq(stack, 1, Len(stack) - 1)
    /\ UNCHANGED <<executed, cycles, signatures>>

\* _recovery_satisfied_uvicorn_goal: any recovery step so far started a server.
ServerIsUp ==
    /\ Command \in Servers
    /\ \E i \in DOMAIN executed :
          executed[i].kind = "recovery" /\ executed[i].outcome = "up"

SkipServerStep ==
    /\ phase = "recovered" /\ ServerIsUp
    /\ stack' = Advanced(stack)
    /\ phase' = "run"
    /\ UNCHANGED <<executed, cycles, signatures>>

\* Variant: a recovered step is taken as done.
RetrySkipped ==
    /\ phase = "recovered"
    /\ stack' = Advanced(stack)
    /\ phase' = "run"
    /\ UNCHANGED <<executed, cycles, signatures>>

\* The failed command once more; nothing looks at the budget here.
RetrySucceeds ==
    /\ phase = "recovered" /\ ~ServerIsUp
    /\ \E o \in Outcomes : executed' = Append(executed, Record(o))
    /\ stack' = Advanced(stack)
    /\ phase' = "run"
    /\ UNCHANGED <<cycles, signatures>>

\* A second failure is not handed to the Planner.
RetryFails ==
    /\ phase = "recovered" /\ ~ServerIsUp
    /\ \E e \in Errors : executed' = Append(executed, Record(e))
    /\ phase' = "failed"
    /\ UNCHANGED <<stack, cycles, signatures>>

LoopNext == \/ PlanRun \/ OutOfBudget \/ StepSucceeds \/ StepFails \/ Recover \/ PlanDone
        \/ SkipServerStep \/ RetrySucceeds \/ RetryFails

LoopSpec == LoopInit /\ [][LoopNext]_loopVars

-----------------------------------------------------------------------------
(* Properties.                                                             *)

Phases == {"plan", "run", "recover", "recovered", "succeeded", "failed"}
FrameType == [steps : Seq(Commands), index : Nat \ {0}, cycle : Nat]
RecordType == [command : Commands, kind : {"run", "recovery"}, at : Nat \ {0},
               outcome : {"ok", "up"} \union Errors]

\* Every variable has the type of the attribute or local it stands for; the
\* Planner counts at most one cycle more than it may plan (the refused one).
LoopTypeOK ==
    /\ phase \in Phases
    /\ stack \in Seq(FrameType)
    /\ executed \in Seq(RecordType)
    /\ cycles \in 0..(MaxPlanCycles + 1)
    /\ signatures \subseteq Commands \X Errors

\* The recursion is never deeper than max_plan_cycles, and a retry after a
\* recovery is the only step that can exceed max_total_steps: once for each
\* call that has returned, so the total is bounded by the two budgets together.
BudgetsBound ==
    /\ Len(stack) <= MaxPlanCycles
    /\ Len(executed) <= MaxTotalSteps + MaxPlanCycles - 1

\* The Planner is asked at most once about a failure (a command and how it
\* ended): the number of plans is bounded by the number of distinct failures.
NoFailureReplanned == cycles <= 1 + Cardinality(signatures)

\* The last time the step at position p of the run plan was executed.
LastRun(p) ==
    LET runs == {i \in DOMAIN executed : executed[i].kind = "run" /\ executed[i].at = p}
    IN  IF runs = {} THEN 0 ELSE CHOOSE i \in runs : \A k \in runs : k <= i

\* A run reported as successful has run each step of the run plan to success,
\* the last time it was tried, except server steps a recovery took care of.
SuccessMeansStepsRan ==
    phase = "succeeded" =>
        \A p \in DOMAIN stack[1].steps :
            stack[1].steps[p] \notin Servers =>
                LastRun(p) # 0 /\ Succeeded(executed[LastRun(p)])
=============================================================================

------------------------- MODULE PlatformRunProofs -------------------------
(***************************************************************************)
(* Theorems about PlatformRun, for every list of stages, every bound on    *)
(* the fix attempts and every answer of the agents.                        *)
(*                                                                         *)
(* Shape holds the facts on types and on the loop index that every other   *)
(* proof uses.  Billing, Settling, Books and Following are the inductive   *)
(* strengthenings of ChargedOnlyForDelivery, NoAgentRunLeftRunning,        *)
(* AccountsForItsAgents and CheckpointsFollowStages; the last two rest on  *)
(* lemmas about sums and selections of lists of any length.                *)
(***************************************************************************)
EXTENDS PlatformRun, SequenceTheorems, WellFoundedInduction, TLAPS

\* Where the generator works on Stages[idx].
InStage == {"stage", "agent", "batch", "fix", "validate", "revalidate", "validated"}

CkptRow == [stage : Names, retry : 0..MaxFix]

\* The types, an index that is in range wherever a stage is being run, and a
\* row for the agent call in progress.
Shape == /\ TypeOK
         /\ pc \in InStage => idx <= Len(Stages)
         /\ task.state = "pending" => agentRuns # <<>>

-----------------------------------------------------------------------------
(* What the helpers produce.                                               *)

\* The task records the actions write are of the type and in the state meant.
LEMMA TaskFacts ==
    /\ NoTask \in TaskState /\ NoTask.state = "none" /\ NoTask.cost = 0
    /\ Pending \in TaskState /\ Pending.state = "pending"
    /\ \A c \in Nat : Returned(c) \in TaskState /\ Returned(c).state = "done"
    /\ \A e \in {"handled", "other"} :
          Raised(e) \in TaskState /\ Raised(e).state = "raised"
BY DEF TaskState, NoTask, Pending, Returned, Raised

\* The names the actions write besides those of the stages, and the counters.
LEMMA ConstantFacts ==
    /\ Intent \in Names /\ "fix" \in Names
    /\ MaxFix \in Nat /\ 0 \in 0..MaxFix /\ 1 \in 0..MaxFix
BY MaxFixAssumption DEF Names

\* The stage at hand is one of the configured stages.
LEMMA StageIsName ==
    ASSUME idx \in Nat \ {0}, idx <= Len(Stages) PROVE Stage \in Names
BY StagesAssumption DEF Stage, Names, Range

\* A checkpoint keeps the type of the list.
LEMMA CheckpointShape ==
    ASSUME NEW s \in Names, NEW r \in 0..MaxFix, TypeOK, Checkpoint(s, r)
    PROVE  ckpts' \in Seq(CkptRow)
<1>1. [stage |-> s, retry |-> r] \in CkptRow
  BY DEF CkptRow
<1> QED
  BY <1>1 DEF Checkpoint, TypeOK, CkptRow

\* Ending a stage appends a checkpoint of the right type and moves on.
LEMMA EndStageShape ==
    ASSUME Shape, pc \in InStage, EndStage(Stage)
    PROVE  /\ ckpts' \in Seq(CkptRow)
           /\ idx' \in Nat \ {0}
           /\ pc' = "loop"
<1>1. Stage \in Names
  BY StageIsName DEF Shape, TypeOK
<1>2. ckpts' \in Seq(CkptRow)
  BY <1>1, CheckpointShape, ConstantFacts DEF Shape, EndStage
<1> QED
  BY <1>2 DEF EndStage, Shape, TypeOK

\* Calling an agent appends at most one row, of the right type, and leaves a
\* task that is pending on that row or has raised.
LEMMA CallAgentShape ==
    ASSUME NEW s \in Names, TypeOK, CallAgent(s)
    PROVE  /\ agentRuns' \in Seq(AgentRunRow)
           /\ task' \in TaskState
           /\ task'.state \in {"pending", "raised"}
           /\ task'.state = "pending" => agentRuns' # <<>>
<1> DEFINE row == [stage |-> s, status |-> "running", tokens |-> 0]
<1>1. row \in AgentRunRow
  BY DEF AgentRunRow
<1>2. CASE agentRuns' = Append(agentRuns, row) /\ task' = Pending
  <2>1. agentRuns' \in Seq(AgentRunRow) /\ Len(agentRuns') = Len(agentRuns) + 1
    BY <1>1, <1>2, AppendProperties DEF TypeOK
  <2> QED
    BY <1>2, <2>1, TaskFacts, EmptySeq, LenProperties DEF TypeOK
<1>3. CASE task' = Raised("handled") /\ UNCHANGED agentRuns
  BY <1>3, TaskFacts DEF TypeOK
<1> QED
  BY <1>2, <1>3 DEF CallAgent

\* Settling the last row keeps the list's type and its length.
LEMMA FinishAgentRunShape ==
    ASSUME NEW st \in {"completed", "failed"}, NEW n \in Nat,
           TypeOK, agentRuns # <<>>, FinishAgentRun(st, n)
    PROVE  /\ agentRuns' \in Seq(AgentRunRow)
           /\ Len(agentRuns') = Len(agentRuns)
           /\ \A i \in 1..Len(agentRuns) :
                 agentRuns'[i] = IF i = Len(agentRuns)
                                   THEN [agentRuns[i] EXCEPT !.status = st, !.tokens = n]
                                   ELSE agentRuns[i]
<1> DEFINE l == Len(agentRuns)
           row == [agentRuns[l] EXCEPT !.status = st, !.tokens = n]
<1>1. l \in 1..Len(agentRuns)
  BY EmptySeq, LenProperties DEF TypeOK
<1>2. row \in AgentRunRow
  <2>1. agentRuns[l] \in AgentRunRow
    BY <1>1, ElementOfSeq DEF TypeOK
  <2> QED
    BY <2>1 DEF AgentRunRow
<1>3. agentRuns' = [agentRuns EXCEPT ![l] = row]
  BY DEF FinishAgentRun
<1> HIDE DEF row
<1>4. /\ agentRuns' \in Seq(AgentRunRow)
      /\ Len(agentRuns') = Len(agentRuns)
      /\ \A i \in 1..Len(agentRuns) : agentRuns'[i] = IF i = l THEN row ELSE agentRuns[i]
  BY <1>1, <1>2, <1>3, ExceptSeq DEF TypeOK
<1> QED
  BY <1>4 DEF row

\* Failing keeps the row's type, whatever the tokens are.
LEMMA FailShape ==
    ASSUME NEW n \in Nat, TypeOK, FailWith(n)
    PROVE  run' \in RunRow /\ task' \in TaskState /\ pc' = "done"
           /\ run'.status = "failed" /\ task'.state = "none"
BY TaskFacts DEF FailWith, TypeOK, RunRow

-----------------------------------------------------------------------------
(* Types.                                                                  *)

\* The context of a new request has the right type.
LEMMA InitShape == Init => Shape
<1> SUFFICES ASSUME Init PROVE Shape
  OBVIOUS
<1>1. ctx \in Context
  <2>1. PICK f \in BOOLEAN : ctx = [fast |-> f, tasks |-> 0, valid |-> "none", retry |-> 0]
    BY DEF Init
  <2> QED
    BY <2>1, ConstantFacts DEF Context
<1>2. run \in RunRow
  BY ConstantFacts DEF Init, RunRow
<1>3. agentRuns \in Seq(AgentRunRow) /\ ckpts \in Seq(CkptRow)
  BY DEF Init
<1>4. batch \in [at : Nat, spent : Nat] /\ charge \in [times : Nat, tokens : Nat]
  BY DEF Init
<1>5. pc \in Places /\ pc \notin InStage
  BY DEF Init, Places, InStage
<1>6. idx \in Nat \ {0} /\ total \in Nat /\ task \in TaskState
  BY TaskFacts DEF Init
<1>7. artifact \in BOOLEAN
  BY Zenon DEF Init
<1>8. TypeOK
  BY <1>1, <1>2, <1>3, <1>4, <1>5, <1>6, <1>7 DEF TypeOK, CkptRow
<1> QED
  BY <1>5, <1>8, TaskFacts DEF Init, Shape

\* The row a call settles exists, also after its generator is gone.
LEMMA AgentReturnsShape ==
    ASSUME Shape, AgentReturns PROVE Shape'
<1>1. agentRuns # <<>>
  BY DEF Shape, AgentReturns
<1>2. PICK st \in {"completed", "failed"}, n \in Nat : FinishAgentRun(st, n)
  BY CostsAssumption DEF AgentReturns
<1>3. agentRuns' \in Seq(AgentRunRow)
  BY <1>1, <1>2, FinishAgentRunShape DEF Shape
<1>4. task' \in TaskState /\ task'.state # "pending"
  BY CostsAssumption, TaskFacts DEF AgentReturns
<1> QED
  BY <1>3, <1>4 DEF AgentReturns, Shape, TypeOK

\* Creating the run and detecting the intent.
LEMMA OpeningShape ==
    ASSUME Shape, Opening PROVE Shape'
<1> USE DEF Shape, TypeOK, Places, InStage
<1>1. CASE CreateRun
  <2>1. run' \in RunRow
    BY <1>1 DEF CreateRun, RunRow
  <2> QED
    BY <1>1, <2>1 DEF CreateRun
<1>2. CASE ClassifyFast
  BY <1>2, CheckpointShape, ConstantFacts DEF ClassifyFast, CkptRow
<1>3. CASE ClassifyByAgent
  BY <1>3, CallAgentShape, ConstantFacts DEF ClassifyByAgent
<1>4. CASE IntentDone
  <2>1. ckpts' \in Seq(CkptRow)
    BY <1>4, CheckpointShape, ConstantFacts DEF IntentDone
  <2>2. ctx' \in Context
    BY <1>4 DEF IntentDone, Context
  <2>3. total' \in Nat
    BY <1>4 DEF IntentDone, TaskState
  <2> QED
    BY <1>4, <2>1, <2>2, <2>3, TaskFacts DEF IntentDone, CkptRow
<1>5. CASE IntentFails
  BY <1>5, FailShape DEF IntentFails, Fail
<1> QED
  BY <1>1, <1>2, <1>3, <1>4, <1>5 DEF Opening

\* Skipping, entering and ending a stage.
LEMMA LoopingShape ==
    ASSUME Shape, Looping PROVE Shape'
<1> USE DEF Shape, TypeOK, Places, InStage, CkptRow
<1>1. CASE SkipStage
  BY <1>1 DEF SkipStage
<1>2. CASE EnterStage
  <2>1. Stage \in Names
    BY <1>2, StageIsName, StagesAssumption DEF EnterStage
  <2>2. run' \in RunRow
    BY <1>2, <2>1 DEF EnterStage, RunRow
  <2>3. idx <= Len(Stages)
    BY <1>2 DEF EnterStage
  <2> QED
    BY <1>2, <2>2, <2>3 DEF EnterStage
<1>3. CASE LocalStage
  <2>0. ctx \in Context /\ \A n \in 1..(IF ctx.fast THEN 1 ELSE MaxTasks) : n \in Nat
    BY MaxTasksAssumption
  <2>a. \A n \in Nat : [ctx EXCEPT !.tasks = n] \in Context
    BY <2>0 DEF Context
  <2>b. [ctx EXCEPT !.valid = "passed"] \in Context
    BY <2>0 DEF Context
  <2>1. ctx' \in Context
    BY <1>3, <2>0, <2>a, <2>b DEF LocalStage
  <2> QED
    BY <1>3, <2>1, EndStageShape DEF LocalStage
<1>4. CASE StageFails
  BY <1>4, FailShape DEF StageFails, Fail
<1>5. CASE StartAgentStage
  <2>1. Stage \in Names
    BY <1>5, StageIsName DEF StartAgentStage
  <2> QED
    BY <1>5, <2>1, CallAgentShape DEF StartAgentStage
<1>6. CASE AgentStageDone
  <2>1. total' \in Nat
    BY <1>6 DEF AgentStageDone, TaskState
  <2> QED
    BY <1>6, <2>1, EndStageShape, TaskFacts DEF AgentStageDone
<1>7. CASE ReviewFallback
  BY <1>7, EndStageShape, TaskFacts DEF ReviewFallback
<1>8. CASE AgentStageFails
  <2>1. total + task.cost \in Nat
    BY DEF TaskState
  <2> QED
    BY <1>8, <2>1, FailShape DEF AgentStageFails
<1> QED
  BY <1>1, <1>2, <1>3, <1>4, <1>5, <1>6, <1>7, <1>8 DEF Looping

\* Generating files, in one call or in batches.
LEMMA GeneratingShape ==
    ASSUME Shape, Generating PROVE Shape'
<1> USE DEF Shape, TypeOK, Places, InStage, CkptRow
<1>1. Stage \in Names \/ pc \notin InStage
  BY StageIsName
<1>2. task.cost \in Nat /\ batch.at \in Nat /\ batch.spent \in Nat
  BY DEF TaskState
<1>3. CASE StartCodeGeneration
  BY <1>1, <1>3, CallAgentShape DEF StartCodeGeneration
<1>4. CASE NextBatch
  <2>1. batch' \in [at : Nat, spent : Nat]
    BY <1>2, <1>4 DEF NextBatch
  <2> QED
    BY <1>1, <1>4, <2>1, CallAgentShape DEF NextBatch
<1>5. CASE CodeGenerationDone
  <2>1. total' \in Nat
    BY <1>2, <1>5 DEF CodeGenerationDone
  <2> QED
    BY <1>5, <2>1, EndStageShape, TaskFacts DEF CodeGenerationDone
<1>6. CASE CodeGenerationFails
  <2>1. total + batch.spent + task.cost \in Nat
    BY <1>2
  <2> QED
    BY <1>6, <2>1, FailShape DEF CodeGenerationFails, Fail
<1>7. CASE RepairFails
  BY <1>7, FailShape DEF RepairFails, Fail
<1> QED
  BY <1>3, <1>4, <1>5, <1>6, <1>7 DEF Generating

\* Validating and fixing, within the fix budget.
LEMMA ValidatingShape ==
    ASSUME Shape, Validating PROVE Shape'
<1> USE DEF Shape, TypeOK, Places, InStage, CkptRow
<1>1. ctx.retry \in 0..MaxFix
  BY DEF Context
<1>2. CASE StartValidation
  BY <1>2 DEF StartValidation
<1>3. CASE ValidationPasses
  <2>1. ctx' \in Context
    BY <1>3 DEF ValidationPasses, Context
  <2> QED
    BY <1>3, <2>1 DEF ValidationPasses
<1>4. CASE ValidationFails
  <2>1. ctx' \in Context
    BY <1>4, ConstantFacts DEF ValidationFails, Context
  <2> QED
    BY <1>4, <2>1, ConstantFacts, CallAgentShape DEF ValidationFails
<1>5. CASE FixReturns
  <2>1. total' \in Nat
    BY <1>5 DEF FixReturns, TaskState
  <2> QED
    BY <1>5, <2>1, TaskFacts DEF FixReturns
<1>6. CASE RevalidationPasses
  <2>1. ctx' \in Context
    BY <1>6 DEF RevalidationPasses, Context
  <2>2. ckpts' \in Seq(CkptRow)
    BY <1>1, <1>6, CheckpointShape, ConstantFacts DEF RevalidationPasses
  <2> QED
    BY <1>6, <2>1, <2>2 DEF RevalidationPasses
<1>7. CASE RevalidationFails
  <2>1. ckpts' \in Seq(CkptRow)
    BY <1>1, <1>7, CheckpointShape, ConstantFacts DEF RevalidationFails
  <2>2. CASE ctx.retry < MaxFix
    <3>1. ctx' \in Context
      BY <1>1, <1>7, <2>2, ConstantFacts DEF RevalidationFails, Context
    <3>2. CallAgent("fix") /\ pc' = "fix" /\ UNCHANGED <<idx, run, batch, total, artifact, charge>>
      BY <1>7, <2>2, <1>1, ConstantFacts DEF RevalidationFails
    <3> QED
      BY <1>7, <2>1, <3>1, <3>2, ConstantFacts, CallAgentShape DEF RevalidationFails
  <2>3. CASE ctx.retry = MaxFix
    BY <1>7, <2>1, <2>3, ConstantFacts DEF RevalidationFails
  <2> QED
    BY <1>7, <2>2, <2>3 DEF RevalidationFails
<1>8. CASE ValidationRaises
  BY <1>8, FailShape DEF ValidationRaises, Fail
<1>9. CASE ValidationDone
  BY <1>9, EndStageShape DEF ValidationDone
<1> QED
  BY <1>2, <1>3, <1>4, <1>5, <1>6, <1>7, <1>8, <1>9 DEF Validating

\* Storing the artifact and billing.
LEMMA DeliveringShape ==
    ASSUME Shape, Delivering PROVE Shape'
<1> USE DEF Shape, TypeOK, Places, InStage
<1>1. CASE StagesDone
  BY <1>1 DEF StagesDone
<1>2. CASE SaveArtifact
  BY <1>2 DEF SaveArtifact
<1>3. CASE DeliveryFails
  BY <1>3, FailShape DEF DeliveryFails, Fail
<1>4. CASE RecordUsage
  BY <1>4, EstimateAssumption DEF RecordUsage
<1>5. CASE SkipBilling
  BY <1>5 DEF SkipBilling
<1>6. CASE CompleteRun
  <2>1. run' \in RunRow
    BY <1>6 DEF CompleteRun, RunRow
  <2> QED
    BY <1>6, <2>1 DEF CompleteRun
<1> QED
  BY <1>1, <1>2, <1>3, <1>4, <1>5, <1>6 DEF Delivering

\* Leaving or dying changes the place and at most cancels the call.
LEMMA EnvironmentShape ==
    ASSUME Shape, Disconnect \/ Crash PROVE Shape'
BY TaskFacts DEF Shape, TypeOK, Places, InStage, Disconnect, Crash

\* The shape is kept by every step.
LEMMA StepShape == Shape /\ [Next]_vars => Shape'
<1> SUFFICES ASSUME Shape, [Next]_vars PROVE Shape'
  OBVIOUS
<1>1. CASE UNCHANGED vars
  BY <1>1 DEF vars, Shape, TypeOK
<1> QED
  BY <1>1, AgentReturnsShape, OpeningShape, LoopingShape, GeneratingShape,
     ValidatingShape, DeliveringShape, EnvironmentShape DEF Next, System

\* The shape holds throughout.
LEMMA ShapeHolds == Spec => []Shape
BY InitShape, StepShape, PTL DEF Spec

\* The rows, the context and the locals keep their types in every run.
THEOREM TypeCorrect == Spec => []TypeOK
<1>1. Shape => TypeOK
  BY DEF Shape
<1> QED
  BY <1>1, ShapeHolds, PTL

-----------------------------------------------------------------------------
(* The charge.                                                             *)

\* Where a charge can be: only after the artifact, at most once, and from then
\* on the run can only be completed or die.
Billing ==
    /\ pc = "bill" => charge.times = 0 /\ artifact
    /\ charge.times # 0 =>
          /\ charge.times = 1
          /\ artifact
          /\ pc \in {"complete", "crashed"} \/ (pc = "done" /\ run.status = "completed")

\* No step charges a run twice, or one that is not delivered.
LEMMA StepBilling == Shape /\ Billing /\ [Next]_vars => Billing'
<1> SUFFICES ASSUME Shape, Billing, [Next]_vars PROVE Billing'
  OBVIOUS
<1> USE DEF Billing
<1>1. CASE UNCHANGED vars
  BY <1>1 DEF vars
<1>2. CASE AgentReturns
  BY <1>2 DEF AgentReturns
<1>3. CASE Opening
  BY <1>3 DEF Opening, CreateRun, ClassifyFast, ClassifyByAgent, IntentDone,
              IntentFails, Fail, FailWith
<1>4. CASE Looping
  BY <1>4 DEF Looping, SkipStage, EnterStage, LocalStage, StageFails, StartAgentStage,
              AgentStageDone, ReviewFallback, AgentStageFails, EndStage, Fail, FailWith
<1>5. CASE Generating
  BY <1>5 DEF Generating, StartCodeGeneration, NextBatch, CodeGenerationDone,
              CodeGenerationFails, RepairFails, EndStage, Fail, FailWith
<1>6. CASE Validating
  BY <1>6 DEF Validating, StartValidation, ValidationPasses, ValidationFails, FixReturns,
              RevalidationPasses, RevalidationFails, ValidationRaises, ValidationDone,
              EndStage, Fail, FailWith
<1>7. CASE Delivering
  <2>1. CASE StagesDone \/ SaveArtifact \/ DeliveryFails \/ SkipBilling
    BY <2>1 DEF StagesDone, SaveArtifact, DeliveryFails, SkipBilling, Fail, FailWith
  <2>2. CASE RecordUsage
    BY <2>2 DEF RecordUsage
  <2>3. CASE CompleteRun
    BY <2>3 DEF CompleteRun, Shape, TypeOK, RunRow
  <2> QED
    BY <1>7, <2>1, <2>2, <2>3 DEF Delivering
<1>8. CASE Disconnect \/ Crash
  BY <1>8 DEF Disconnect, Crash, Suspended
<1> QED
  BY <1>1, <1>2, <1>3, <1>4, <1>5, <1>6, <1>7, <1>8 DEF Next, System

\* Whatever the agents answer and wherever the client leaves or the process
\* dies: at most one charge, never without a stored project, and never for a
\* run that ends failed or is abandoned.
THEOREM ChargeIsForDelivery == Spec => []ChargedOnlyForDelivery
<1>1. Init => Billing
  BY DEF Init, Billing
<1>2. Billing => ChargedOnlyForDelivery
  BY DEF Billing, ChargedOnlyForDelivery
<1> QED
  BY <1>1, <1>2, StepBilling, ShapeHolds, PTL DEF Spec

-----------------------------------------------------------------------------
(* Agent runs.                                                             *)

\* Only the row of the call in progress can be "running" while the generator
\* lives, and the generator does not finish while a call is in progress.
Settling ==
    /\ \A i \in 1..Len(agentRuns) :
          agentRuns[i].status = "running" =>
             pc \in {"gone", "crashed"} \/ (i = Len(agentRuns) /\ task.state = "pending")
    /\ task.state = "pending" => pc \in {"intent", "agent", "batch", "fix", "gone"}
    /\ Finished => pc = "done"

\* A call can be started when none is in progress.
LEMMA CallAgentSettling ==
    ASSUME NEW s \in Names, Shape, Settling, CallAgent(s), task.state # "pending",
           pc' \in {"intent", "agent", "batch", "fix"}, pc \notin {"gone", "crashed", "done"},
           UNCHANGED run
    PROVE  Settling'
<1>1. \A i \in 1..Len(agentRuns) : agentRuns[i].status # "running"
  BY DEF Settling
<1>2. CASE /\ agentRuns' = Append(agentRuns, [stage |-> s, status |-> "running", tokens |-> 0])
           /\ task' = Pending
  <2>1. /\ Len(agentRuns') = Len(agentRuns) + 1
        /\ Len(agentRuns) \in Nat
        /\ \A i \in 1..Len(agentRuns) : agentRuns'[i] = agentRuns[i]
    BY <1>2 DEF Shape, TypeOK
  <2>2. task'.state = "pending"
    BY <1>2, TaskFacts
  <2> QED
    BY <1>1, <2>1, <2>2 DEF Settling, Finished
<1>3. CASE task' = Raised("handled") /\ UNCHANGED agentRuns
  BY <1>1, <1>3, TaskFacts DEF Settling, Finished
<1> QED
  BY <1>2, <1>3 DEF CallAgent

\* A call that returns settles the row it was pending on.
LEMMA AgentReturnsSettling ==
    ASSUME Shape, Settling, AgentReturns PROVE Settling'
<1>1. PICK st \in {"completed", "failed"}, n \in Nat : FinishAgentRun(st, n)
  BY CostsAssumption DEF AgentReturns
<1>2. task'.state # "pending"
  BY CostsAssumption, TaskFacts DEF AgentReturns
<1>3. /\ Len(agentRuns') = Len(agentRuns)
      /\ \A i \in 1..Len(agentRuns) :
            agentRuns'[i] = IF i = Len(agentRuns)
                              THEN [agentRuns[i] EXCEPT !.status = st, !.tokens = n]
                              ELSE agentRuns[i]
  BY <1>1, FinishAgentRunShape DEF Shape, AgentReturns
<1>4. ASSUME NEW i \in 1..Len(agentRuns), agentRuns'[i].status = "running"
      PROVE  pc' \in {"gone", "crashed"}
  <2>1. agentRuns[i] \in AgentRunRow
    BY DEF Shape, TypeOK
  <2>2. i # Len(agentRuns)
    BY <1>3, <1>4, <2>1 DEF AgentRunRow
  <2> QED
    BY <1>3, <1>4, <2>2 DEF Settling, AgentReturns
<1> QED
  BY <1>2, <1>3, <1>4 DEF Settling, AgentReturns, Finished

\* Failing, or a step that leaves the rows alone, keeps what Settling says.
LEMMA QuietSettling ==
    ASSUME Shape, Settling, UNCHANGED agentRuns, task'.state # "pending",
           task.state # "pending" \/ pc' \in {"gone", "crashed"},
           pc \notin {"gone", "crashed"} \/ pc' \in {"gone", "crashed"},
           run'.status = run.status \/ pc' = "done",
           pc # "done"
    PROVE  Settling'
BY DEF Settling, Finished

\* No step leaves a running row without its call.
LEMMA StepSettling == Shape /\ Settling /\ [Next]_vars => Settling'
<1> SUFFICES ASSUME Shape, Settling, [Next]_vars PROVE Settling'
  OBVIOUS
<1>0. NoTask.state = "none" /\ Intent \in Names /\ "fix" \in Names
      /\ (pc \in InStage => Stage \in Names)
  BY TaskFacts, ConstantFacts, StageIsName DEF Shape, TypeOK
<1>1. CASE UNCHANGED vars
  BY <1>1 DEF vars, Settling, Finished
<1>2. CASE AgentReturns
  BY <1>2, AgentReturnsSettling
<1>3. CASE Opening
  <2>1. CASE CreateRun
    BY <2>1, QuietSettling DEF CreateRun, Settling, Finished, Shape, TypeOK, RunRow
  <2>2. CASE ClassifyFast \/ IntentDone \/ IntentFails
    BY <1>0, <2>2, QuietSettling DEF Settling, ClassifyFast, IntentDone, IntentFails, Fail, FailWith
  <2>3. CASE ClassifyByAgent
    BY <1>0, <2>3, CallAgentSettling DEF ClassifyByAgent, Settling
  <2> QED
    BY <1>3, <2>1, <2>2, <2>3 DEF Opening
<1>4. CASE Looping
  <2>1. CASE EnterStage
    BY <2>1, QuietSettling DEF EnterStage, Settling, Shape, TypeOK, RunRow
  <2>2. CASE \/ SkipStage \/ LocalStage \/ StageFails
             \/ AgentStageDone \/ ReviewFallback \/ AgentStageFails
    BY <1>0, <2>2, QuietSettling DEF Settling, SkipStage, LocalStage, StageFails,
       AgentStageDone, ReviewFallback, AgentStageFails, EndStage, Fail, FailWith
  <2>3. CASE StartAgentStage
    BY <1>0, <2>3, CallAgentSettling DEF StartAgentStage, Settling, InStage
  <2> QED
    BY <1>4, <2>1, <2>2, <2>3 DEF Looping
<1>5. CASE Generating
  <2>1. CASE CodeGenerationDone \/ CodeGenerationFails \/ RepairFails
    BY <1>0, <2>1, QuietSettling DEF Settling, CodeGenerationDone, CodeGenerationFails,
       RepairFails, EndStage, Fail, FailWith
  <2>2. CASE StartCodeGeneration \/ NextBatch
    BY <1>0, <2>2, CallAgentSettling DEF StartCodeGeneration, NextBatch, Settling, InStage
  <2> QED
    BY <1>5, <2>1, <2>2 DEF Generating
<1>6. CASE Validating
  <2>1. CASE ValidationFails
    BY <1>0, <2>1, CallAgentSettling DEF ValidationFails, Settling
  <2>2. CASE RevalidationFails /\ CallAgent("fix")
    BY <1>0, <2>2, CallAgentSettling, QuietSettling DEF RevalidationFails, Settling
  <2>3. CASE RevalidationFails /\ ~CallAgent("fix")
    BY <1>0, <2>3, QuietSettling DEF RevalidationFails, Settling
  <2>4. CASE \/ StartValidation \/ ValidationPasses \/ FixReturns
             \/ RevalidationPasses \/ ValidationRaises \/ ValidationDone
    BY <1>0, <2>4, QuietSettling DEF Settling, StartValidation, ValidationPasses,
       FixReturns, RevalidationPasses, ValidationRaises, ValidationDone, EndStage, Fail,
       FailWith
  <2> QED
    BY <1>6, <2>1, <2>2, <2>3, <2>4 DEF Validating
<1>7. CASE Delivering
  BY <1>0, <1>7, QuietSettling DEF Delivering, StagesDone, SaveArtifact, DeliveryFails,
     RecordUsage, SkipBilling, CompleteRun, Settling, Fail, FailWith
<1>8. CASE Disconnect
  BY <1>0, <1>8 DEF Disconnect, Suspended, Settling, Finished
<1>9. CASE Crash
  BY <1>0, <1>9, QuietSettling DEF Crash, Settling
<1> QED
  BY <1>1, <1>2, <1>3, <1>4, <1>5, <1>6, <1>7, <1>8, <1>9 DEF Next, System

\* Settling holds throughout.
LEMMA SettlingHolds == Spec => []Settling
<1>1. Init => Settling
  BY TaskFacts DEF Init, Settling, Finished
<1> QED
  BY <1>1, StepSettling, ShapeHolds, PTL DEF Spec

\* A run that is completed or failed has no agent run left "running".
THEOREM AgentRunsSettle == Spec => []NoAgentRunLeftRunning
<1>1. Shape /\ Settling => NoAgentRunLeftRunning
  BY DEF Settling, NoAgentRunLeftRunning, Shape, TypeOK, Finished
<1> QED
  BY <1>1, ShapeHolds, SettlingHolds, PTL

\* Nothing is added to a run that is finished, abandoned or dead: an agent call
\* that outlives it only settles its own row.
THEOREM NothingAfterTheEnd == Spec => SettledStaysSettled
<1> DEFINE Over == Finished \/ pc \in {"gone", "crashed"}
           Quiet == /\ UNCHANGED <<run, ckpts, charge, artifact>>
                    /\ Len(agentRuns') = Len(agentRuns)
<1>1. ASSUME Shape, Settling, [Next]_vars PROVE [Over => Quiet]_vars
  <2> SUFFICES ASSUME Over, Next PROVE Quiet
    BY <1>1
  <2>1. pc \in {"done", "gone", "crashed"}
    BY <1>1 DEF Settling
  <2>2. CASE AgentReturns
    <3>1. PICK st \in {"completed", "failed"}, n \in Nat : FinishAgentRun(st, n)
      BY <2>2, CostsAssumption DEF AgentReturns
    <3> QED
      BY <1>1, <2>2, <3>1, FinishAgentRunShape DEF Shape, AgentReturns
  <2>3. CASE Disconnect \/ Crash
    BY <2>3 DEF Disconnect, Crash
  <2>4. ~Opening /\ ~Looping
    BY <2>1 DEF Opening, CreateRun, ClassifyFast, ClassifyByAgent, IntentDone,
       IntentFails, Looping, SkipStage, EnterStage, LocalStage, StageFails,
       StartAgentStage, AgentStageDone, ReviewFallback, AgentStageFails
  <2>5. ~Generating /\ ~Validating /\ ~Delivering
    BY <2>1 DEF Generating, StartCodeGeneration, NextBatch, CodeGenerationDone,
       CodeGenerationFails, RepairFails, Validating, StartValidation, ValidationPasses,
       ValidationFails, FixReturns, RevalidationPasses, RevalidationFails,
       ValidationRaises, ValidationDone, Delivering, StagesDone, SaveArtifact,
       DeliveryFails, RecordUsage, SkipBilling, CompleteRun
  <2> QED
    BY <2>2, <2>3, <2>4, <2>5 DEF Next, System
<1> QED
  BY <1>1, ShapeHolds, SettlingHolds, PTL DEF Spec, SettledStaysSettled

-----------------------------------------------------------------------------
(* The refinement of RunContract.                                          *)

\* How the row, the artifact and the place of the generator go together: a row
\* from the first commit on, a settled row at the end, and an artifact exactly
\* from its commit on.
Ledger ==
    /\ (pc = "start") <=> (run.status = "none")
    /\ pc = "done" => Finished
    /\ pc \in {"bill", "complete"} => artifact
    /\ artifact => pc \in {"bill", "complete", "done", "gone", "crashed"}

\* Where the run is open and has no artifact yet.
Early == Places \ {"start", "bill", "complete", "done", "gone", "crashed"}

\* A step within these places that leaves the status and the artifact alone.
LEMMA QuietLedger ==
    ASSUME Ledger, pc \in Early, pc' \in Early, UNCHANGED <<run.status, artifact>>
    PROVE  Ledger'
BY DEF Ledger, Early, Finished

\* Failing from these places.
LEMMA FailLedger ==
    ASSUME Shape, Ledger, NEW tokens, FailWith(tokens), pc \in Early, UNCHANGED artifact
    PROVE  Ledger'
<1>1. run'.status = "failed" /\ pc' = "done" /\ ~artifact
  BY DEF FailWith, Shape, TypeOK, RunRow, Ledger, Early
<1> QED
  BY <1>1 DEF Ledger, Finished

\* Every step keeps the row, the artifact and the place together.
LEMMA StepLedger == Shape /\ Ledger /\ [Next]_vars => Ledger'
<1> SUFFICES ASSUME Shape, Ledger, [Next]_vars PROVE Ledger'
  OBVIOUS
<1>0. run \in RunRow
  BY DEF Shape, TypeOK
<1> USE DEF Early, Places
<1>1. CASE UNCHANGED vars
  BY <1>1 DEF vars, Ledger, Finished
<1>2. CASE AgentReturns
  BY <1>2 DEF AgentReturns, Ledger, Finished
<1>3. CASE Opening
  <2>1. CASE CreateRun
    BY <1>0, <2>1 DEF CreateRun, Ledger, Finished, RunRow
  <2>2. CASE ClassifyFast \/ ClassifyByAgent \/ IntentDone
    BY <2>2, QuietLedger DEF ClassifyFast, ClassifyByAgent, IntentDone
  <2>3. CASE IntentFails
    BY <2>3, FailLedger DEF IntentFails, Fail
  <2> QED
    BY <1>3, <2>1, <2>2, <2>3 DEF Opening
<1>4. CASE Looping
  <2>1. CASE EnterStage
    BY <1>0, <2>1, QuietLedger DEF EnterStage, RunRow
  <2>2. CASE SkipStage \/ LocalStage \/ StartAgentStage \/ AgentStageDone \/ ReviewFallback
    BY <2>2, QuietLedger DEF SkipStage, LocalStage, StartAgentStage, AgentStageDone,
       ReviewFallback, EndStage
  <2>3. CASE StageFails \/ AgentStageFails
    BY <2>3, FailLedger DEF StageFails, AgentStageFails, Fail
  <2> QED
    BY <1>4, <2>1, <2>2, <2>3 DEF Looping
<1>5. CASE Generating
  <2>1. CASE StartCodeGeneration \/ NextBatch \/ CodeGenerationDone
    BY <2>1, QuietLedger DEF StartCodeGeneration, NextBatch, CodeGenerationDone, EndStage
  <2>2. CASE CodeGenerationFails \/ RepairFails
    BY <2>2, FailLedger DEF CodeGenerationFails, RepairFails, Fail
  <2> QED
    BY <1>5, <2>1, <2>2 DEF Generating
<1>6. CASE Validating
  <2>1. CASE ValidationRaises
    BY <2>1, FailLedger DEF ValidationRaises, Fail
  <2>2. CASE ~ValidationRaises
    BY <1>6, <2>2, QuietLedger DEF Validating, StartValidation, ValidationPasses,
       ValidationFails, FixReturns, RevalidationPasses, RevalidationFails,
       ValidationDone, EndStage
  <2> QED
    BY <2>1, <2>2
<1>7. CASE Delivering
  <2>1. CASE DeliveryFails
    BY <2>1, FailLedger DEF DeliveryFails, Fail
  <2>2. CASE StagesDone
    BY <2>2, QuietLedger DEF StagesDone
  <2>3. CASE SaveArtifact \/ RecordUsage \/ SkipBilling
    BY <2>3 DEF SaveArtifact, RecordUsage, SkipBilling, Ledger, Finished
  <2>4. CASE CompleteRun
    BY <1>0, <2>4 DEF CompleteRun, Ledger, Finished, RunRow
  <2> QED
    BY <1>7, <2>1, <2>2, <2>3, <2>4 DEF Delivering
<1>8. CASE Disconnect \/ Crash
  BY <1>8 DEF Disconnect, Crash, Suspended, Ledger, Finished
<1> QED
  BY <1>1, <1>2, <1>3, <1>4, <1>5, <1>6, <1>7, <1>8 DEF Next, System

\* A step that leaves the row's status, the artifact and the charge alone, and
\* neither leaves nor dies, is none of the contract's.
LEMMA QuietKeepsContract ==
    ASSUME UNCHANGED <<run.status, artifact, charge>>, pc \notin {"gone", "crashed"},
           pc' \notin {"gone", "crashed"}
    PROVE  UNCHANGED Contract!contract
BY DEF Contract!contract, Phase, Finished

\* Failing is the contract's Fail, as nothing fails once there is an artifact.
LEMMA FailIsFail ==
    ASSUME Shape, NEW tokens, FailWith(tokens), run.status = "running", ~artifact,
           pc \notin {"gone", "crashed"}, UNCHANGED <<artifact, charge>>
    PROVE  Contract!Fail
<1>1. run'.status = "failed"
  BY DEF FailWith, Shape, TypeOK, RunRow
<1> QED
  BY <1>1 DEF Contract!Fail, Phase, Finished

\* Each step of the generator, its agents and the environment is a step of the
\* contract or none.
LEMMA StepRefines ==
    Shape /\ Settling /\ Billing /\ Ledger /\ [Next]_vars
        => [Contract!Next]_(Contract!contract)
<1> SUFFICES ASSUME Shape, Settling, Billing, Ledger, [Next]_vars
             PROVE  [Contract!Next]_(Contract!contract)
  OBVIOUS
<1>0. run \in RunRow /\ (Finished => pc = "done") /\ pc \in Places
  BY DEF Shape, TypeOK, Settling
<1>a. pc \notin {"start", "done", "gone", "crashed"} => run.status = "running"
  BY <1>0 DEF Ledger, Finished, RunRow
<1>1. CASE UNCHANGED vars
  BY <1>1 DEF vars, Contract!contract, Phase, Finished
<1>2. CASE AgentReturns
  BY <1>2 DEF AgentReturns, Contract!contract, Phase, Finished
<1>3. CASE Opening
  <2>1. CASE CreateRun
    BY <1>0, <2>1 DEF CreateRun, Ledger, RunRow, Phase, Finished, Contract!Next, Contract!Open
  <2>2. CASE ClassifyFast \/ ClassifyByAgent \/ IntentDone
    BY <2>2, QuietKeepsContract DEF ClassifyFast, ClassifyByAgent, IntentDone
  <2>3. CASE IntentFails
    BY <1>a, <2>3, FailIsFail DEF IntentFails, Fail, Ledger, Contract!Next
  <2> QED
    BY <1>3, <2>1, <2>2, <2>3 DEF Opening
<1>4. CASE Looping
  <2>1. CASE EnterStage
    BY <1>0, <2>1, QuietKeepsContract DEF EnterStage, RunRow
  <2>2. CASE SkipStage \/ LocalStage \/ StartAgentStage \/ AgentStageDone \/ ReviewFallback
    BY <2>2, QuietKeepsContract DEF SkipStage, LocalStage, StartAgentStage,
       AgentStageDone, ReviewFallback, EndStage
  <2>3. CASE StageFails \/ AgentStageFails
    BY <1>a, <2>3, FailIsFail DEF StageFails, AgentStageFails, Fail, Ledger, Contract!Next
  <2> QED
    BY <1>4, <2>1, <2>2, <2>3 DEF Looping
<1>5. CASE Generating
  <2>1. CASE StartCodeGeneration \/ NextBatch \/ CodeGenerationDone
    BY <2>1, QuietKeepsContract DEF StartCodeGeneration, NextBatch, CodeGenerationDone,
       EndStage
  <2>2. CASE CodeGenerationFails \/ RepairFails
    BY <1>a, <2>2, FailIsFail DEF CodeGenerationFails, RepairFails, Fail, Ledger,
       Contract!Next
  <2> QED
    BY <1>5, <2>1, <2>2 DEF Generating
<1>6. CASE Validating
  <2>1. CASE ValidationRaises
    BY <1>a, <2>1, FailIsFail DEF ValidationRaises, Fail, Ledger, Contract!Next
  <2>2. CASE ~ValidationRaises
    BY <1>6, <2>2, QuietKeepsContract DEF Validating, StartValidation, ValidationPasses,
       ValidationFails, FixReturns, RevalidationPasses, RevalidationFails,
       ValidationDone, EndStage
  <2> QED
    BY <2>1, <2>2
<1>7. CASE Delivering
  <2>1. CASE StagesDone \/ SkipBilling
    BY <2>1, QuietKeepsContract DEF StagesDone, SkipBilling
  <2>2. CASE SaveArtifact
    BY <1>a, <2>2 DEF SaveArtifact, Ledger, Phase, Finished, Contract!Next, Contract!Store
  <2>3. CASE DeliveryFails
    BY <1>a, <2>3, FailIsFail DEF DeliveryFails, Fail, Ledger, Contract!Next
  <2>4. CASE RecordUsage
    BY <1>a, <2>4 DEF RecordUsage, Ledger, Billing, Phase, Finished, Contract!Next,
       Contract!Charge
  <2>5. CASE CompleteRun
    BY <1>0, <1>a, <2>5 DEF CompleteRun, Ledger, RunRow, Phase, Finished, Contract!Next,
       Contract!Complete
  <2> QED
    BY <1>7, <2>1, <2>2, <2>3, <2>4, <2>5 DEF Delivering
<1>8. CASE Disconnect \/ Crash
  <2>1. CASE Disconnect
    <3>1. pc \notin {"start", "done", "gone", "crashed"} /\ charge.times = 0
      BY <2>1 DEF Disconnect, Suspended, Billing
    <3>2. Phase = "running" /\ Phase' = "left"
      BY <1>a, <2>1, <3>1 DEF Disconnect, Phase, Finished
    <3> QED
      BY <2>1, <3>1, <3>2 DEF Disconnect, Contract!Next, Contract!Leave
  <2>2. CASE Crash
    <3>1. Phase \in {"running", "left"} /\ Phase' = "dead"
      BY <1>0, <1>a, <2>2 DEF Crash, Ledger, Places, Phase, Finished, RunRow
    <3> QED
      BY <2>2, <3>1 DEF Crash, Contract!Next, Contract!Die
  <2> QED
    BY <1>8, <2>1, <2>2
<1> QED
  BY <1>1, <1>2, <1>3, <1>4, <1>5, <1>6, <1>7, <1>8 DEF Next, System

\* Whoever sees only the row, the artifact and the bill of a run sees a run that
\* opens once, is settled once, and is charged once and for a stored project.
THEOREM RunKeepsContract == Spec => ImplementsContract
<1>1. Init => Contract!Init /\ Billing /\ Ledger
  BY DEF Init, Contract!Init, Billing, Ledger, Phase, Finished
<1>2. Spec => []Billing
  BY <1>1, StepBilling, ShapeHolds, PTL DEF Spec
<1>3. Spec => []Ledger
  BY <1>1, StepLedger, ShapeHolds, PTL DEF Spec
<1> QED
  BY <1>1, <1>2, <1>3, StepRefines, ShapeHolds, SettlingHolds, PTL
     DEF Spec, ImplementsContract, Contract!Spec

-----------------------------------------------------------------------------
(* Sums and selections.  Both are defined by recursion on the length of a  *)
(* list; what they compute is proved by induction, in the form of a least  *)
(* counterexample, because a set can be given to the theorem WFMin.        *)

Below == {p \in Nat \X Nat : p[1] < p[2]}

\* A set of numbers that is not empty has a least member.
LEMMA LeastNumber ==
    ASSUME NEW T, T \subseteq Nat, T # {} PROVE \E n \in T : \A m \in T : n <= m
<1>1. IsWellFoundedOn(Below, Nat)
  BY NatLessThanWellFounded DEF OpToRel, Below
<1>2. PICK n \in T : \A m \in T : <<m, n>> \notin Below
  BY <1>1, WFMin
<1>3. \A k, m \in Nat : <<m, k>> \notin Below => k <= m
  BY DEF Below
<1>4. ASSUME NEW m \in T PROVE n <= m
  <2>1. n \in Nat /\ m \in Nat
    OBVIOUS
  <2> QED
    BY <1>2, <1>3, <2>1
<1> QED
  BY <1>4

\* The list of sums exists up to every length.
LEMMA TotalsExist ==
    ASSUME NEW s \in Seq(Nat), NEW n \in 0..Len(s)
    PROVE  \E t : t = [i \in 0..n |-> IF i = 0 THEN 0 ELSE t[i - 1] + s[i]]
<1> DEFINE Good(m) == \E t : t = [i \in 0..m |-> IF i = 0 THEN 0 ELSE t[i - 1] + s[i]]
           Bad == {m \in 0..Len(s) : ~Good(m)}
<1>1. Good(0)
  <2>1. [i \in 0..0 |-> 0]
          = [i \in 0..0 |-> IF i = 0 THEN 0 ELSE [j \in 0..0 |-> 0][i - 1] + s[i]]
    OBVIOUS
  <2> QED
    BY <2>1
<1>2. ASSUME NEW m \in 0..Len(s), m # 0, Good(m - 1) PROVE Good(m)
  <2>1. PICK t : t = [i \in 0..(m - 1) |-> IF i = 0 THEN 0 ELSE t[i - 1] + s[i]]
    BY <1>2
  <2> DEFINE u == [i \in 0..m |-> IF i = m THEN t[m - 1] + s[m] ELSE t[i]]
  <2>2. \A i \in 0..m : u[i] = IF i = 0 THEN 0 ELSE u[i - 1] + s[i]
    BY <1>2, <2>1
  <2>3. u = [i \in 0..m |-> u[i]]
    OBVIOUS
  <2>4. u = [i \in 0..m |-> IF i = 0 THEN 0 ELSE u[i - 1] + s[i]]
    <3> HIDE DEF u
    <3> QED
      BY <2>2, <2>3
  <2> QED
    BY <2>4
<1> SUFFICES ASSUME Bad # {} PROVE FALSE
  OBVIOUS
<1>3. PICK m \in Bad : \A k \in Bad : m <= k
  <2>1. Bad \subseteq Nat
    BY LenProperties
  <2> QED
    BY <2>1, LeastNumber
<1> HIDE DEF Good
<1>4. m # 0 /\ m - 1 \in 0..Len(s) /\ m - 1 \notin Bad
  BY <1>1, <1>3, LenProperties
<1> QED
  BY <1>2, <1>3, <1>4

\* So it is what its definition says.
LEMMA TotalsDef ==
    ASSUME NEW s \in Seq(Nat)
    PROVE  /\ DOMAIN Totals(s) = 0..Len(s)
           /\ Totals(s)[0] = 0
           /\ \A n \in 1..Len(s) : Totals(s)[n] = Totals(s)[n - 1] + s[n]
<1>0. Len(s) \in Nat
  BY LenProperties
<1>1. \E t : t = [i \in 0..Len(s) |-> IF i = 0 THEN 0 ELSE t[i - 1] + s[i]]
  BY <1>0, TotalsExist
<1>2. Totals(s) = [i \in 0..Len(s) |-> IF i = 0 THEN 0 ELSE Totals(s)[i - 1] + s[i]]
  BY <1>1 DEF Totals
<1> QED
  BY <1>0, <1>2

\* Sums are numbers.
LEMMA TotalsType ==
    ASSUME NEW s \in Seq(Nat), NEW n \in 0..Len(s) PROVE Totals(s)[n] \in Nat
<1> DEFINE Bad == {m \in 0..Len(s) : Totals(s)[m] \notin Nat}
<1>0. Len(s) \in Nat /\ \A i \in 1..Len(s) : s[i] \in Nat
  BY LenProperties, ElementOfSeq
<1> SUFFICES ASSUME Bad # {} PROVE FALSE
  OBVIOUS
<1>1. PICK m \in Bad : \A k \in Bad : m <= k
  <2>1. Bad \subseteq Nat
    BY <1>0
  <2> QED
    BY <2>1, LeastNumber
<1>2. m # 0
  BY <1>1, TotalsDef
<1>3. m - 1 \in 0..Len(s) /\ m \in 1..Len(s) /\ m - 1 \notin Bad
  BY <1>0, <1>1, <1>2
<1>4. Totals(s)[m - 1] \in Nat /\ s[m] \in Nat
  BY <1>0, <1>3
<1>5. Totals(s)[m] = Totals(s)[m - 1] + s[m]
  BY <1>3, TotalsDef
<1> QED
  BY <1>1, <1>4, <1>5

\* Lists that begin alike have the same first sums.
LEMMA TotalsAgree ==
    ASSUME NEW s \in Seq(Nat), NEW t \in Seq(Nat),
           NEW n \in Nat, n <= Len(s), n <= Len(t), \A i \in 1..n : s[i] = t[i]
    PROVE  Totals(s)[n] = Totals(t)[n]
<1> DEFINE Bad == {m \in 0..n : Totals(s)[m] # Totals(t)[m]}
<1>0. Len(s) \in Nat /\ Len(t) \in Nat
  BY LenProperties
<1> SUFFICES ASSUME Bad # {} PROVE FALSE
  OBVIOUS
<1>1. PICK m \in Bad : \A k \in Bad : m <= k
  <2>1. Bad \subseteq Nat
    OBVIOUS
  <2> QED
    BY <2>1, LeastNumber
<1>2. m # 0
  BY <1>1, TotalsDef
<1>3. /\ m - 1 \in 0..n /\ m - 1 \notin Bad
      /\ m \in 1..Len(s) /\ m \in 1..Len(t) /\ s[m] = t[m]
  BY <1>0, <1>1, <1>2
<1> QED
  BY <1>1, <1>3, TotalsDef

\* What the last number adds.
LEMMA TotalStep ==
    ASSUME NEW s \in Seq(Nat), Len(s) # 0
    PROVE  Totals(s)[Len(s) - 1] \in Nat
           /\ Total(s) = Totals(s)[Len(s) - 1] + s[Len(s)]
<1>1. Len(s) \in 1..Len(s) /\ Len(s) - 1 \in 0..Len(s)
  BY LenProperties
<1> QED
  BY <1>1, TotalsDef, TotalsType DEF Total

\* One more number.
LEMMA TotalAppend ==
    ASSUME NEW s \in Seq(Nat), NEW n \in Nat
    PROVE  Total(Append(s, n)) = Total(s) + n
<1> DEFINE t == Append(s, n)
<1>1. /\ t \in Seq(Nat) /\ Len(t) = Len(s) + 1 /\ Len(s) \in Nat
      /\ \A i \in 1..Len(s) : t[i] = s[i]
      /\ t[Len(t)] = n
  BY AppendProperties, LenProperties
<1> HIDE DEF t
<1>2. Totals(t)[Len(s)] = Totals(s)[Len(s)]
  <2>1. Len(s) <= Len(t) /\ Len(s) <= Len(s)
    BY <1>1
  <2> QED
    BY <1>1, <2>1, TotalsAgree
<1>3. Len(t) # 0 /\ Len(t) - 1 = Len(s)
  BY <1>1
<1>4. Total(t) = Totals(t)[Len(s)] + n
  BY <1>1, <1>3, TotalStep
<1> QED
  BY <1>2, <1>4 DEF t, Total

\* Another last number.
LEMMA TotalReplaceLast ==
    ASSUME NEW s \in Seq(Nat), NEW t \in Seq(Nat), Len(s) # 0, Len(t) = Len(s),
           \A i \in 1..Len(s) : i # Len(s) => t[i] = s[i]
    PROVE  Total(t) = Total(s) - s[Len(s)] + t[Len(s)]
<1>1. Len(s) \in Nat /\ Len(s) - 1 \in Nat
  BY LenProperties
<1>2. Totals(t)[Len(s) - 1] = Totals(s)[Len(s) - 1]
  <2>1. /\ Len(s) - 1 <= Len(t) /\ Len(s) - 1 <= Len(s)
        /\ \A i \in 1..(Len(s) - 1) : t[i] = s[i]
    BY <1>1
  <2> QED
    BY <1>1, <2>1, TotalsAgree
<1>3. s[Len(s)] \in Nat /\ t[Len(s)] \in Nat
  BY <1>1, ElementOfSeq
<1> QED
  BY <1>2, <1>3, TotalStep

\* The recursion that defines the selections.
IsKeepings(k, s, drop) ==
    k = [i \in 0..Len(s) |->
           IF i = 0 THEN <<>>
           ELSE IF s[i] \in drop THEN k[i - 1] ELSE Append(k[i - 1], s[i])]

\* The list of selections exists.
LEMMA KeepingsExist ==
    ASSUME NEW S, NEW s \in Seq(S), NEW drop
    PROVE  \E k : IsKeepings(k, s, drop)
<1> DEFINE Then(p, i) == IF s[i] \in drop THEN p ELSE Append(p, s[i])
           Good(m) == \E k : k = [i \in 0..m |-> IF i = 0 THEN <<>> ELSE Then(k[i - 1], i)]
           Bad == {m \in 0..Len(s) : ~Good(m)}
<1> HIDE DEF Then
<1>1. Good(0)
  <2>1. [i \in 0..0 |-> <<>>]
          = [i \in 0..0 |-> IF i = 0 THEN <<>> ELSE Then([j \in 0..0 |-> <<>>][i - 1], i)]
    OBVIOUS
  <2> QED
    BY <2>1
<1>2. ASSUME NEW m \in 0..Len(s), m # 0, Good(m - 1) PROVE Good(m)
  <2>1. PICK k : k = [i \in 0..(m - 1) |-> IF i = 0 THEN <<>> ELSE Then(k[i - 1], i)]
    BY <1>2
  <2> DEFINE u == [i \in 0..m |-> IF i = m THEN Then(k[m - 1], m) ELSE k[i]]
  <2>2. \A i \in 0..m : u[i] = IF i = 0 THEN <<>> ELSE Then(u[i - 1], i)
    BY <1>2, <2>1
  <2>3. u = [i \in 0..m |-> u[i]]
    OBVIOUS
  <2>4. u = [i \in 0..m |-> IF i = 0 THEN <<>> ELSE Then(u[i - 1], i)]
    <3> HIDE DEF u
    <3> QED
      BY <2>2, <2>3
  <2> QED
    BY <2>4
<1>3. Bad = {}
  <2> SUFFICES ASSUME Bad # {} PROVE FALSE
    OBVIOUS
  <2>1. PICK m \in Bad : \A k \in Bad : m <= k
    <3>1. Bad \subseteq Nat
      BY LenProperties
    <3> QED
      BY <3>1, LeastNumber
  <2> HIDE DEF Good
  <2>2. m # 0 /\ m - 1 \in 0..Len(s) /\ m - 1 \notin Bad
    BY <1>1, <2>1, LenProperties
  <2> QED
    BY <1>2, <2>1, <2>2
<1>4. Good(Len(s))
  <2>1. Len(s) \in 0..Len(s)
    BY LenProperties
  <2> HIDE DEF Good
  <2> QED
    BY <1>3, <2>1
<1> QED
  BY <1>4 DEF Then, IsKeepings

\* So it is what its definition says.
LEMMA KeepingsDef ==
    ASSUME NEW S, NEW s \in Seq(S), NEW drop
    PROVE  /\ Keepings(s, drop)[0] = <<>>
           /\ \A n \in 1..Len(s) :
                 Keepings(s, drop)[n] = IF s[n] \in drop
                                          THEN Keepings(s, drop)[n - 1]
                                          ELSE Append(Keepings(s, drop)[n - 1], s[n])
<1>0. Len(s) \in Nat
  BY LenProperties
<1>1. \E k : IsKeepings(k, s, drop)
  BY KeepingsExist
<1> DEFINE K == Keepings(s, drop)
<1>k. K = CHOOSE k : IsKeepings(k, s, drop)
  BY DEF Keepings, IsKeepings
<1>i. IsKeepings(K, s, drop)
  <2> HIDE DEF K
  <2> QED
    BY <1>1, <1>k
<1>2. K = [i \in 0..Len(s) |->
             IF i = 0 THEN <<>>
             ELSE IF s[i] \in drop THEN K[i - 1] ELSE Append(K[i - 1], s[i])]
  BY <1>i DEF IsKeepings
<1> HIDE DEF K
<1>3. \A n \in 0..Len(s) :
         K[n] = IF n = 0 THEN <<>>
                ELSE IF s[n] \in drop THEN K[n - 1] ELSE Append(K[n - 1], s[n])
  BY <1>2, Zenon
<1>4. K[0] = <<>>
  BY <1>0, <1>3
<1>5. ASSUME NEW n \in 1..Len(s)
      PROVE  K[n] = IF s[n] \in drop THEN K[n - 1] ELSE Append(K[n - 1], s[n])
  <2>1. n \in 0..Len(s) /\ n # 0
    BY <1>0
  <2> QED
    BY <1>3, <2>1, Zenon
<1> QED
  BY <1>4, <1>5 DEF K

\* A selection is a list of the same kind.
LEMMA KeepingsType ==
    ASSUME NEW S, NEW s \in Seq(S), NEW drop, NEW n \in 0..Len(s)
    PROVE  Keepings(s, drop)[n] \in Seq(S)
<1> DEFINE Bad == {m \in 0..Len(s) : Keepings(s, drop)[m] \notin Seq(S)}
<1>0. Len(s) \in Nat
  BY LenProperties
<1> SUFFICES ASSUME Bad # {} PROVE FALSE
  OBVIOUS
<1>1. PICK m \in Bad : \A k \in Bad : m <= k
  <2>1. Bad \subseteq Nat
    BY <1>0
  <2> QED
    BY <2>1, LeastNumber
<1>2. m # 0
  <2>1. Keepings(s, drop)[0] = <<>> /\ <<>> \in Seq(S)
    BY KeepingsDef, EmptySeq
  <2> QED
    BY <1>1, <2>1
<1>3. m - 1 \in 0..Len(s) /\ m \in 1..Len(s) /\ m - 1 \notin Bad
  BY <1>0, <1>1, <1>2
<1>4. Keepings(s, drop)[m - 1] \in Seq(S) /\ s[m] \in S
  BY <1>3, ElementOfSeq
<1>5. Append(Keepings(s, drop)[m - 1], s[m]) \in Seq(S)
  BY <1>4, AppendProperties
<1>6. Keepings(s, drop)[m] = IF s[m] \in drop THEN Keepings(s, drop)[m - 1]
                             ELSE Append(Keepings(s, drop)[m - 1], s[m])
  BY <1>3, KeepingsDef
<1> QED
  BY <1>1, <1>4, <1>5, <1>6

\* Lists that begin alike have the same first selections.
LEMMA KeepingsAgree ==
    ASSUME NEW S, NEW s \in Seq(S), NEW t \in Seq(S), NEW drop,
           NEW n \in Nat, n <= Len(s), n <= Len(t), \A i \in 1..n : s[i] = t[i]
    PROVE  Keepings(s, drop)[n] = Keepings(t, drop)[n]
<1> DEFINE Bad == {m \in 0..n : Keepings(s, drop)[m] # Keepings(t, drop)[m]}
<1>0. Len(s) \in Nat /\ Len(t) \in Nat
  BY LenProperties
<1> SUFFICES ASSUME Bad # {} PROVE FALSE
  OBVIOUS
<1>1. PICK m \in Bad : \A k \in Bad : m <= k
  <2>1. Bad \subseteq Nat
    OBVIOUS
  <2> QED
    BY <2>1, LeastNumber
<1>2. m # 0
  BY <1>1, KeepingsDef
<1>3. /\ m - 1 \in 0..n /\ m - 1 \notin Bad
      /\ m \in 1..Len(s) /\ m \in 1..Len(t) /\ s[m] = t[m]
  BY <1>0, <1>1, <1>2
<1>4. Keepings(s, drop)[m] = IF s[m] \in drop THEN Keepings(s, drop)[m - 1]
                             ELSE Append(Keepings(s, drop)[m - 1], s[m])
  BY <1>3, KeepingsDef
<1>5. Keepings(t, drop)[m] = IF t[m] \in drop THEN Keepings(t, drop)[m - 1]
                             ELSE Append(Keepings(t, drop)[m - 1], t[m])
  BY <1>3, KeepingsDef
<1> QED
  BY <1>1, <1>3, <1>4, <1>5

\* One more name.
LEMMA KeptAppend ==
    ASSUME NEW S, NEW s \in Seq(S), NEW drop, NEW e \in S
    PROVE  Kept(Append(s, e), drop) =
              IF e \in drop THEN Kept(s, drop) ELSE Append(Kept(s, drop), e)
<1> DEFINE t == Append(s, e)
<1>1. /\ t \in Seq(S) /\ Len(t) = Len(s) + 1 /\ Len(s) \in Nat
      /\ \A i \in 1..Len(s) : t[i] = s[i]
      /\ t[Len(t)] = e
  BY AppendProperties, LenProperties
<1> HIDE DEF t
<1>2. Keepings(t, drop)[Len(s)] = Keepings(s, drop)[Len(s)]
  <2>1. Len(s) <= Len(t) /\ Len(s) <= Len(s)
    BY <1>1
  <2> QED
    BY <1>1, <2>1, KeepingsAgree
<1>3. Len(t) \in 1..Len(t) /\ Len(t) - 1 = Len(s)
  BY <1>1
<1>4. Keepings(t, drop)[Len(t)] = IF t[Len(t)] \in drop THEN Keepings(t, drop)[Len(t) - 1]
                                  ELSE Append(Keepings(t, drop)[Len(t) - 1], t[Len(t)])
  BY <1>1, <1>3, KeepingsDef
<1> QED
  BY <1>1, <1>2, <1>3, <1>4 DEF t, Kept

\* A selection from the first names is the beginning of the whole selection.
LEMMA KeepingsPrefix ==
    ASSUME NEW S, NEW s \in Seq(S), NEW drop, NEW n \in 0..Len(s)
    PROVE  /\ Len(Keepings(s, drop)[n]) <= Len(Kept(s, drop))
           /\ \A i \in 1..Len(Keepings(s, drop)[n]) :
                 Keepings(s, drop)[n][i] = Kept(s, drop)[i]
<1> DEFINE K == Keepings(s, drop)
           Good(m) == /\ Len(K[n]) <= Len(K[m])
                      /\ \A i \in 1..Len(K[n]) : K[n][i] = K[m][i]
           Bad == {m \in n..Len(s) : ~Good(m)}
<1>0. Len(s) \in Nat
  BY LenProperties
<1>t. \A m \in 0..Len(s) : K[m] \in Seq(S) /\ Len(K[m]) \in Nat
  <2>1. \A m \in 0..Len(s) : K[m] \in Seq(S)
    BY KeepingsType
  <2> QED
    BY <2>1, LenProperties
<1>d. \A m \in 1..Len(s) : K[m] = IF s[m] \in drop THEN K[m - 1] ELSE Append(K[m - 1], s[m])
  BY KeepingsDef
<1>e. \A m \in 1..Len(s) : s[m] \in S
  BY ElementOfSeq
<1> HIDE DEF K
<1>1. ASSUME NEW m \in (n + 1)..Len(s), Good(m - 1) PROVE Good(m)
  <2>1. m \in 1..Len(s) /\ m - 1 \in 0..Len(s)
    BY <1>0
  <2>2. K[m - 1] \in Seq(S) /\ s[m] \in S /\ Len(K[n]) \in Nat /\ Len(K[m - 1]) \in Nat
    BY <1>t, <1>e, <2>1
  <2>3. CASE s[m] \in drop
    <3>1. K[m] = K[m - 1]
      BY <1>d, <2>1, <2>3
    <3> QED
      BY <1>1, <3>1
  <2>4. CASE s[m] \notin drop
    <3>1. K[m] = Append(K[m - 1], s[m])
      BY <1>d, <2>1, <2>4
    <3>2. /\ Len(K[m]) = Len(K[m - 1]) + 1
          /\ \A i \in 1..Len(K[m - 1]) : K[m][i] = K[m - 1][i]
      BY <2>2, <3>1, AppendProperties
    <3> QED
      BY <1>1, <2>2, <3>2
  <2> QED
    BY <2>3, <2>4
<1>2. Good(n)
  BY <1>t
<1>3. Bad = {}
  <2> SUFFICES ASSUME Bad # {} PROVE FALSE
    OBVIOUS
  <2>1. PICK m \in Bad : \A k \in Bad : m <= k
    <3>1. Bad \subseteq Nat
      BY <1>0
    <3> QED
      BY <3>1, LeastNumber
  <2> HIDE DEF Good
  <2>2. m \in n..Len(s) /\ ~Good(m)
    OBVIOUS
  <2>3. m # n
    BY <1>2, <2>2
  <2>4. m \in (n + 1)..Len(s) /\ m - 1 \in n..Len(s)
    BY <1>0, <2>2, <2>3
  <2>5. m - 1 \notin Bad
    BY <2>1, <2>4
  <2> QED
    BY <1>1, <2>2, <2>4, <2>5
<1>4. Good(Len(s))
  <2>1. Len(s) \in n..Len(s)
    BY <1>0
  <2> HIDE DEF Good
  <2> QED
    BY <1>3, <2>1
<1> QED
  BY <1>4 DEF K, Kept

-----------------------------------------------------------------------------
(* The tokens.                                                             *)

\* The tokens of a list of agent runs, and their sum.
TokensOf(rows) == [i \in DOMAIN rows |-> rows[i].tokens]
SpentOf(rows) == Total(TokensOf(rows))

\* The tokens of the rows are a list of numbers as long as theirs.
LEMMA TokensType ==
    ASSUME NEW rows \in Seq(AgentRunRow)
    PROVE  /\ TokensOf(rows) \in Seq(Nat) /\ Len(TokensOf(rows)) = Len(rows)
           /\ \A i \in 1..Len(rows) : TokensOf(rows)[i] = rows[i].tokens
<1>1. Len(rows) \in Nat /\ DOMAIN rows = 1..Len(rows)
  BY LenProperties
<1>2. \A i \in 1..Len(rows) : rows[i].tokens \in Nat
  <2>1. \A i \in 1..Len(rows) : rows[i] \in AgentRunRow
    BY ElementOfSeq
  <2> QED
    BY <2>1 DEF AgentRunRow
<1> QED
  BY <1>1, <1>2 DEF TokensOf

\* A sum of tokens is a number.
LEMMA SpentType == ASSUME NEW rows \in Seq(AgentRunRow) PROVE SpentOf(rows) \in Nat
<1>1. TokensOf(rows) \in Seq(Nat)
  BY TokensType
<1>2. Len(TokensOf(rows)) \in 0..Len(TokensOf(rows))
  BY <1>1, LenProperties
<1> QED
  BY <1>1, <1>2, TotalsType DEF SpentOf, Total

\* A new row adds its own tokens.
LEMMA SpentAppend ==
    ASSUME NEW rows \in Seq(AgentRunRow), NEW row \in AgentRunRow
    PROVE  SpentOf(Append(rows, row)) = SpentOf(rows) + row.tokens
<1> DEFINE more == Append(rows, row)
<1>1. /\ more \in Seq(AgentRunRow) /\ Len(more) = Len(rows) + 1 /\ Len(rows) \in Nat
      /\ \A i \in 1..Len(rows) : more[i] = rows[i]
      /\ more[Len(more)] = row
  BY AppendProperties, LenProperties
<1>2. row.tokens \in Nat
  BY DEF AgentRunRow
<1> HIDE DEF more
<1>3. /\ TokensOf(rows) \in Seq(Nat) /\ Len(TokensOf(rows)) = Len(rows)
      /\ \A i \in 1..Len(rows) : TokensOf(rows)[i] = rows[i].tokens
  BY TokensType
<1>4. /\ TokensOf(more) \in Seq(Nat) /\ Len(TokensOf(more)) = Len(rows) + 1
      /\ \A i \in 1..(Len(rows) + 1) : TokensOf(more)[i] = more[i].tokens
  BY <1>1, TokensType
<1> DEFINE sum == Append(TokensOf(rows), row.tokens)
<1>5. /\ sum \in Seq(Nat) /\ Len(sum) = Len(rows) + 1
      /\ \A i \in 1..Len(rows) : sum[i] = rows[i].tokens
      /\ sum[Len(rows) + 1] = row.tokens
  BY <1>2, <1>3, AppendProperties
<1> HIDE DEF sum
<1>6. Len(TokensOf(more)) = Len(sum)
  BY <1>4, <1>5
<1>7. \A i \in 1..Len(TokensOf(more)) : TokensOf(more)[i] = sum[i]
  <2>1. more[Len(rows) + 1] = row
    BY <1>1
  <2>2. \A i \in 1..(Len(rows) + 1) : i \in 1..Len(rows) \/ i = Len(rows) + 1
    BY <1>1
  <2>3. \A i \in 1..Len(rows) : TokensOf(more)[i] = sum[i]
    BY <1>1, <1>4, <1>5
  <2>4. TokensOf(more)[Len(rows) + 1] = sum[Len(rows) + 1]
    BY <1>1, <1>4, <1>5, <2>1
  <2> QED
    BY <1>4, <2>2, <2>3, <2>4
<1>8. TokensOf(more) = sum
  BY <1>4, <1>5, <1>6, <1>7, SeqEqual
<1>9. Total(sum) = Total(TokensOf(rows)) + row.tokens
  BY <1>2, <1>3, TotalAppend DEF sum
<1> QED
  BY <1>8, <1>9 DEF SpentOf, more

\* Settling the last row replaces its tokens in the sum.
LEMMA SpentReplaceLast ==
    ASSUME NEW rows \in Seq(AgentRunRow), NEW more \in Seq(AgentRunRow),
           Len(rows) # 0, Len(more) = Len(rows),
           \A i \in 1..Len(rows) : i # Len(rows) => more[i] = rows[i]
    PROVE  SpentOf(more) = SpentOf(rows) - rows[Len(rows)].tokens + more[Len(rows)].tokens
<1>0. Len(rows) \in 1..Len(rows)
  BY LenProperties
<1>1. /\ TokensOf(rows) \in Seq(Nat) /\ Len(TokensOf(rows)) = Len(rows)
      /\ \A i \in 1..Len(rows) : TokensOf(rows)[i] = rows[i].tokens
  BY TokensType
<1>2. /\ TokensOf(more) \in Seq(Nat) /\ Len(TokensOf(more)) = Len(rows)
      /\ \A i \in 1..Len(rows) : TokensOf(more)[i] = more[i].tokens
  BY TokensType
<1>3. \A i \in 1..Len(rows) : i # Len(rows) => TokensOf(more)[i] = TokensOf(rows)[i]
  BY <1>1, <1>2
<1>4. Total(TokensOf(more)) = Total(TokensOf(rows)) - TokensOf(rows)[Len(rows)]
                              + TokensOf(more)[Len(rows)]
  BY <1>1, <1>2, <1>3, TotalReplaceLast
<1> QED
  BY <1>0, <1>1, <1>2, <1>4 DEF SpentOf

\* What the owner is charged for the tokens used so far.
Bill == IF Spent = 0 THEN Estimate ELSE Spent

\* The usage that the inner generator of the batches has not handed over yet.
InBatch == IF pc = "batch" THEN batch.spent ELSE 0

\* Where no call is in progress or answered.
NoCall == Places \ {"intent", "agent", "batch", "fix", "gone"}

\* While the generator lives, the tokens of the agent runs are in its total, in
\* the batches or in the answer it has not taken yet, and in one of them only.
Books ==
    /\ task.state = "pending" => agentRuns[Len(agentRuns)].tokens = 0
    /\ task.state # "done" \/ pc \in NoCall => task.cost = 0
    /\ pc \notin {"done", "gone", "crashed"} => Spent = total + InBatch + task.cost
    /\ charge.times = 0 => charge.tokens = 0
    /\ pc = "complete" /\ charge.times = 1 => charge.tokens = Bill
    /\ AccountsForItsAgents

\* Calling an agent uses nothing yet.
LEMMA CallAgentBooks ==
    ASSUME NEW s \in Names, Shape, CallAgent(s)
    PROVE  /\ Spent' = Spent /\ task'.cost = 0 /\ task'.state # "done"
           /\ task'.state = "pending" => agentRuns'[Len(agentRuns')].tokens = 0
<1> DEFINE row == [stage |-> s, status |-> "running", tokens |-> 0]
<1>0. row \in AgentRunRow /\ row.tokens = 0 /\ agentRuns \in Seq(AgentRunRow)
  BY DEF AgentRunRow, Shape, TypeOK
<1>s. Spent = SpentOf(agentRuns) /\ Spent' = SpentOf(agentRuns')
  BY DEF Spent, SpentOf, TokensOf
<1>1. CASE agentRuns' = Append(agentRuns, row) /\ task' = Pending
  <2>1. SpentOf(agentRuns') = SpentOf(agentRuns) + 0
    BY <1>0, <1>1, SpentAppend
  <2>2. agentRuns'[Len(agentRuns')] = row
    BY <1>0, <1>1, AppendProperties
  <2> QED
    BY <1>0, <1>1, <1>s, <2>1, <2>2, SpentType DEF Pending, NoTask
<1>2. CASE task' = Raised("handled") /\ UNCHANGED agentRuns
  BY <1>2 DEF Spent, Raised, NoTask
<1> QED
  BY <1>1, <1>2 DEF CallAgent

\* An answer's tokens are in the row that its call settles.
LEMMA AgentReturnsBooks ==
    ASSUME Shape, Settling, Books, AgentReturns PROVE Books'
<1>1. PICK st \in {"completed", "failed"}, n \in Nat :
        /\ FinishAgentRun(st, n)
        /\ task'.cost = n /\ task'.state # "pending" /\ (task'.state # "done" => n = 0)
  BY CostsAssumption DEF AgentReturns, Returned, Raised, NoTask
<1>2. /\ agentRuns' \in Seq(AgentRunRow) /\ agentRuns \in Seq(AgentRunRow)
      /\ agentRuns # <<>>
      /\ Len(agentRuns') = Len(agentRuns)
      /\ \A i \in 1..Len(agentRuns) :
            agentRuns'[i] = IF i = Len(agentRuns)
                              THEN [agentRuns[i] EXCEPT !.status = st, !.tokens = n]
                              ELSE agentRuns[i]
  BY <1>1, FinishAgentRunShape DEF Shape, TypeOK, AgentReturns
<1>3. Len(agentRuns) \in 1..Len(agentRuns) /\ Len(agentRuns) # 0
  <2>1. Len(agentRuns) \in Nat \ {0}
    BY <1>2, EmptySeq
  <2> QED
    BY <2>1
<1>4. agentRuns'[Len(agentRuns)].tokens = n
  <2>1. agentRuns[Len(agentRuns)] \in AgentRunRow
    BY <1>2, <1>3, ElementOfSeq
  <2> QED
    BY <1>2, <1>3, <2>1 DEF AgentRunRow
<1>5. SpentOf(agentRuns') = SpentOf(agentRuns) - agentRuns[Len(agentRuns)].tokens
                            + agentRuns'[Len(agentRuns)].tokens
  BY <1>2, <1>3, SpentReplaceLast
<1>6. agentRuns[Len(agentRuns)].tokens = 0 /\ task.cost = 0
  BY DEF Books, AgentReturns
<1>7. Spent' = Spent + n
  <2>1. Spent = SpentOf(agentRuns) /\ Spent' = SpentOf(agentRuns')
    BY DEF Spent, SpentOf, TokensOf
  <2>2. SpentOf(agentRuns) \in Nat
    BY <1>2, SpentType
  <2> QED
    BY <1>4, <1>5, <1>6, <2>1, <2>2
<1>8. pc \in {"intent", "agent", "batch", "fix", "gone"} /\ ~Finished
  BY DEF Settling, AgentReturns
<1>9. total \in Nat /\ InBatch \in Nat /\ Spent \in Nat
  BY <1>2, SpentType DEF Shape, TypeOK, InBatch, Spent, SpentOf, TokensOf
<1>10. pc' = pc /\ total' = total /\ batch' = batch /\ run' = run /\ charge' = charge
       /\ InBatch' = InBatch
  BY DEF AgentReturns, InBatch
<1> QED
  BY <1>1, <1>6, <1>7, <1>8, <1>9, <1>10
  DEF Books, AccountsForItsAgents, Finished, NoCall

\* A step that leaves the rows and the charge alone, and moves tokens between
\* the answer, the batches and the total.
LEMMA QuietBooks ==
    ASSUME Shape, Settling, Books, UNCHANGED <<agentRuns, charge, run.status>>,
           pc \notin {"done", "complete"}, pc' \notin {"done", "complete"},
           task'.state # "pending", task'.state # "done" \/ pc' \in NoCall => task'.cost = 0,
           pc' \notin {"gone", "crashed"} =>
              /\ pc \notin {"gone", "crashed"}
              /\ total' + InBatch' + task'.cost = total + InBatch + task.cost
    PROVE  Books'
<1>1. Spent' = Spent
  BY DEF Spent
<1>2. ~Finished
  BY DEF Settling
<1> QED
  BY <1>1, <1>2 DEF Books, AccountsForItsAgents, Finished

\* Failing reports no more than was used.
LEMMA FailBooks ==
    ASSUME Shape, Settling, Books, NEW n \in Nat, FailWith(n), n <= Spent,
           UNCHANGED <<agentRuns, charge>>, pc # "done"
    PROVE  Books'
<1>1. Spent' = Spent
  BY DEF Spent
<1>2. run'.status = "failed" /\ run'.tokens = n /\ pc' = "done" /\ task'.cost = 0
      /\ task'.state = "none"
  BY TaskFacts DEF FailWith, Shape, TypeOK, RunRow
<1> QED
  BY <1>1, <1>2 DEF Books, AccountsForItsAgents

\* A step that calls an agent, with the answer before it accounted for.
LEMMA CallBooks ==
    ASSUME Shape, Shape', Settling, Books, NEW s \in Names, CallAgent(s),
           UNCHANGED <<charge, run.status, total>>,
           pc \notin {"done", "gone", "crashed", "complete"},
           pc' \in {"intent", "agent", "batch", "fix"},
           total + InBatch' = total + InBatch + task.cost
    PROVE  Books'
<1>1. /\ Spent' = Spent /\ task'.cost = 0 /\ task'.state # "done"
      /\ task'.state = "pending" => agentRuns'[Len(agentRuns')].tokens = 0
  BY CallAgentBooks
<1>2. ~Finished
  BY DEF Settling
<1>3. Spent = total + InBatch + task.cost /\ total' = total
  BY DEF Books
<1>4. Spent' = total' + InBatch' + task'.cost
  <2>1. total + InBatch' + 0 = total + InBatch'
    BY DEF Shape, TypeOK, InBatch
  <2> QED
    BY <1>1, <1>3
<1> QED
  BY <1>1, <1>2, <1>4 DEF Books, AccountsForItsAgents, Finished, NoCall

\* Every step keeps the books.
LEMMA StepBooks ==
    Shape /\ Shape' /\ Settling /\ Billing /\ Books /\ [Next]_vars => Books'
<1> SUFFICES ASSUME Shape, Shape', Settling, Billing, Books, [Next]_vars PROVE Books'
  OBVIOUS
<1>0. /\ Intent \in Names /\ "fix" \in Names /\ (pc \in InStage => Stage \in Names)
      /\ NoTask.state = "none" /\ NoTask.cost = 0
  BY TaskFacts, ConstantFacts, StageIsName DEF Shape, TypeOK
<1>n. total \in Nat /\ batch.spent \in Nat /\ task.cost \in Nat /\ Spent \in Nat
      /\ InBatch \in Nat
  <2>1. agentRuns \in Seq(AgentRunRow) /\ Spent = SpentOf(agentRuns)
    BY DEF Shape, TypeOK, Spent, SpentOf, TokensOf
  <2> QED
    BY <2>1, SpentType DEF Shape, TypeOK, TaskState, InBatch
<1>s. pc \notin {"done", "gone", "crashed"} => Spent = total + InBatch + task.cost
  BY DEF Books
<1>p. task.state = "pending" => pc \in {"intent", "agent", "batch", "fix", "gone"}
  BY DEF Settling
<1>c. pc \in NoCall \/ task.state # "done" => task.cost = 0
  BY DEF Books
<1>i. InBatch = IF pc = "batch" THEN batch.spent ELSE 0
  BY DEF InBatch
<1>j. InBatch' = IF pc' = "batch" THEN batch'.spent ELSE 0
  BY DEF InBatch
<1>r. run \in RunRow
  BY DEF Shape, TypeOK
<1>1. CASE UNCHANGED vars
  BY <1>1 DEF vars, Books, AccountsForItsAgents, Spent, InBatch, Bill, Finished
<1>2. CASE AgentReturns
  BY <1>2, AgentReturnsBooks
<1> USE DEF NoCall, Places
<1>3. CASE Opening
  <2>1. CASE CreateRun
    <3>1. Spent' = Spent /\ Bill' = Bill
      BY <2>1 DEF CreateRun, Spent, Bill
    <3>2. ~Finished /\ run'.status = "running"
      BY <1>r, <2>1 DEF CreateRun, Settling, RunRow
    <3> QED
      BY <1>n, <2>1, <3>1, <3>2 DEF CreateRun, Books, AccountsForItsAgents, Finished, InBatch
  <2>2. CASE ClassifyFast
    BY <1>n, <1>p, <1>c, <1>i, <1>j, <2>2, QuietBooks DEF ClassifyFast
  <2>3. CASE ClassifyByAgent
    BY <1>0, <1>n, <1>c, <1>i, <1>j, <2>3, CallBooks DEF ClassifyByAgent
  <2>4. CASE IntentDone
    BY <1>0, <1>n, <1>i, <1>j, <2>4, QuietBooks DEF IntentDone
  <2>5. CASE IntentFails
    BY <1>n, <1>s, <2>5, FailBooks DEF IntentFails, Fail
  <2> QED
    BY <1>3, <2>1, <2>2, <2>3, <2>4, <2>5 DEF Opening
<1>4. CASE Looping
  <2>1. CASE SkipStage
    BY <1>n, <1>p, <1>c, <1>i, <1>j, <2>1, QuietBooks DEF SkipStage
  <2>2. CASE EnterStage
    <3>1. run'.status = run.status
      BY <1>r, <2>2 DEF EnterStage, RunRow
    <3> QED
      BY <1>n, <1>p, <1>c, <1>i, <1>j, <2>2, <3>1, QuietBooks DEF EnterStage
  <2>3. CASE LocalStage
    BY <1>n, <1>p, <1>c, <1>i, <1>j, <2>3, QuietBooks DEF LocalStage, EndStage
  <2>4. CASE StageFails
    BY <1>n, <1>s, <2>4, FailBooks DEF StageFails, Fail
  <2>5. CASE StartAgentStage
    BY <1>0, <1>n, <1>c, <1>i, <1>j, <2>5, CallBooks DEF StartAgentStage, InStage
  <2>6. CASE AgentStageDone
    BY <1>0, <1>n, <1>i, <1>j, <2>6, QuietBooks DEF AgentStageDone, EndStage
  <2>7. CASE ReviewFallback
    BY <1>0, <1>n, <1>c, <1>i, <1>j, <2>7, QuietBooks DEF ReviewFallback, EndStage
  <2>8. CASE AgentStageFails
    BY <1>n, <1>s, <1>i, <2>8, FailBooks DEF AgentStageFails
  <2> QED
    BY <1>4, <2>1, <2>2, <2>3, <2>4, <2>5, <2>6, <2>7, <2>8 DEF Looping
<1>5. CASE Generating
  <2>1. CASE StartCodeGeneration
    BY <1>0, <1>n, <1>c, <1>i, <1>j, <2>1, CallBooks DEF StartCodeGeneration, InStage
  <2>2. CASE NextBatch
    BY <1>0, <1>n, <1>i, <1>j, <2>2, CallBooks DEF NextBatch, InStage
  <2>3. CASE CodeGenerationDone
    BY <1>0, <1>n, <1>i, <1>j, <2>3, QuietBooks DEF CodeGenerationDone, EndStage
  <2>4. CASE CodeGenerationFails
    BY <1>n, <1>s, <1>i, <2>4, FailBooks DEF CodeGenerationFails, Fail
  <2>5. CASE RepairFails
    BY <1>n, <1>s, <2>5, FailBooks DEF RepairFails, Fail
  <2> QED
    BY <1>5, <2>1, <2>2, <2>3, <2>4, <2>5 DEF Generating
<1>6. CASE Validating
  <2>1. CASE StartValidation \/ ValidationPasses
    BY <1>n, <1>p, <1>c, <1>i, <1>j, <2>1, QuietBooks DEF StartValidation, ValidationPasses
  <2>2. CASE ValidationFails
    BY <1>0, <1>n, <1>c, <1>i, <1>j, <2>2, CallBooks DEF ValidationFails
  <2>3. CASE FixReturns
    BY <1>0, <1>n, <1>i, <1>j, <2>3, QuietBooks DEF FixReturns
  <2>4. CASE RevalidationPasses \/ ValidationDone
    BY <1>n, <1>p, <1>c, <1>i, <1>j, <2>4, QuietBooks
    DEF RevalidationPasses, ValidationDone, EndStage
  <2>5. CASE RevalidationFails /\ CallAgent("fix") /\ pc' = "fix"
    BY <1>0, <1>n, <1>c, <1>i, <1>j, <2>5, CallBooks DEF RevalidationFails
  <2>6. CASE RevalidationFails /\ UNCHANGED <<agentRuns, task>> /\ pc' = "validated"
    BY <1>n, <1>p, <1>c, <1>i, <1>j, <2>6, QuietBooks DEF RevalidationFails
  <2>7. CASE ValidationRaises
    BY <1>n, <1>s, <2>7, FailBooks DEF ValidationRaises, Fail
  <2> QED
    BY <1>6, <2>1, <2>2, <2>3, <2>4, <2>5, <2>6, <2>7 DEF Validating, RevalidationFails
<1>7. CASE Delivering
  <2>1. CASE StagesDone \/ SaveArtifact
    BY <1>n, <1>p, <1>c, <1>i, <1>j, <2>1, QuietBooks DEF StagesDone, SaveArtifact
  <2>2. CASE DeliveryFails
    BY <1>n, <1>s, <2>2, FailBooks DEF DeliveryFails, Fail
  <2>3. CASE RecordUsage
    <3>1. Spent = total /\ charge.times = 0 /\ charge.tokens = 0 /\ ~Finished
      BY <1>n, <1>s, <1>c, <1>i, <2>3 DEF RecordUsage, Billing, Books, Settling
    <3>2. Spent' = Spent /\ Bill' = Bill
      BY <2>3 DEF RecordUsage, Spent, Bill
    <3>3. Bill = IF total <= 0 THEN Estimate ELSE total
      BY <1>n, <3>1 DEF Bill
    <3>4. charge' = [times |-> 1, tokens |-> Bill]
      BY <2>3, <3>1, <3>3, EstimateAssumption, <1>n DEF RecordUsage
    <3>5. charge'.times = 1 /\ charge'.tokens = Bill'
      BY <3>2, <3>4
    <3>6. /\ task.state # "pending" /\ task.cost = 0 /\ pc' = "complete" /\ ~Finished'
          /\ UNCHANGED <<task, total, run>>
      BY <1>p, <1>c, <2>3, <3>1 DEF RecordUsage, Finished
    <3>7. Spent' = total' + InBatch' + task'.cost
      BY <1>n, <1>j, <3>1, <3>2, <3>6
    <3> QED
      BY <3>5, <3>6, <3>7 DEF Books, AccountsForItsAgents, Finished
  <2>4. CASE SkipBilling
    <3>1. Spent' = Spent /\ charge.times = 0 /\ ~Finished
      BY <2>4 DEF SkipBilling, Spent, Billing, Settling
    <3> QED
      BY <1>n, <1>p, <1>c, <2>4, <3>1
      DEF SkipBilling, Books, AccountsForItsAgents, Finished, InBatch
  <2>5. CASE CompleteRun
    <3>1. Spent' = Spent /\ Bill' = Bill /\ Spent = total
      BY <1>n, <1>s, <1>c, <1>i, <2>5 DEF CompleteRun, Spent, Bill
    <3>2. run'.status = "completed" /\ run'.tokens = total
      BY <1>r, <2>5 DEF CompleteRun, RunRow
    <3> QED
      BY <1>n, <1>p, <1>c, <2>5, <3>1, <3>2
      DEF CompleteRun, Books, AccountsForItsAgents, Bill
  <2> QED
    BY <1>7, <2>1, <2>2, <2>3, <2>4, <2>5 DEF Delivering
<1>8. CASE Disconnect \/ Crash
  <2>1. Spent' = Spent /\ Bill' = Bill /\ pc' \in {"gone", "crashed"}
        /\ task'.cost \in {0, task.cost}
        /\ (task'.state = task.state \/ task'.state = "none") /\ pc # "done"
        /\ (pc' = "crashed" => task'.cost = 0 /\ task'.state = "none")
        /\ (task' = task \/ task'.cost = 0)
    BY <1>0, <1>8 DEF Disconnect, Crash, Suspended, Spent, Bill
  <2>2. ~Finished
    BY <2>1 DEF Settling
  <2> QED
    BY <1>8, <1>c, <2>1, <2>2 DEF Disconnect, Crash, Books, AccountsForItsAgents, Finished
<1> QED
  BY <1>1, <1>2, <1>3, <1>4, <1>5, <1>6, <1>7, <1>8 DEF Next, System

\* A completed run reports, and its owner is charged for, every token its agents
\* used and no other, whatever the batches, the fix attempts and the answers; a
\* failed run never reports more than was used.
THEOREM TokensAreAccounted == Spec => []AccountsForItsAgents
<1>1. Init => Books
  <2> SUFFICES ASSUME Init PROVE Books
    OBVIOUS
  <2>1. TokensOf(<<>>) \in Seq(Nat) /\ Len(TokensOf(<<>>)) = 0
    BY EmptySeq, TokensType
  <2>2. Spent = 0
    <3>1. Totals(TokensOf(<<>>))[0] = 0
      BY <2>1, TotalsDef
    <3>2. Spent = Total(TokensOf(<<>>))
      BY DEF Init, Spent, TokensOf
    <3> QED
      BY <2>1, <3>1, <3>2 DEF Total
  <2> QED
    BY <2>2, TaskFacts DEF Init, Books, AccountsForItsAgents, InBatch
<1>2. Books => AccountsForItsAgents
  BY DEF Books
<1>3. Init => Billing
  BY DEF Init, Billing
<1> QED
  BY <1>1, <1>2, <1>3, StepBooks, StepBilling, SettlingHolds, ShapeHolds, PTL DEF Spec

-----------------------------------------------------------------------------
(* The checkpoints.                                                        *)

\* The stages of a list of checkpoints.
StagesOf(rows) == [i \in DOMAIN rows |-> rows[i].stage]

\* They are names, one for each checkpoint.
LEMMA StagesOfType ==
    ASSUME NEW rows \in Seq(CkptRow)
    PROVE  /\ StagesOf(rows) \in Seq(Names) /\ Len(StagesOf(rows)) = Len(rows)
           /\ \A i \in 1..Len(rows) : StagesOf(rows)[i] = rows[i].stage
<1>1. Len(rows) \in Nat /\ DOMAIN rows = 1..Len(rows)
  BY LenProperties
<1>2. \A i \in 1..Len(rows) : rows[i].stage \in Names
  <2>1. \A i \in 1..Len(rows) : rows[i] \in CkptRow
    BY ElementOfSeq
  <2> QED
    BY <2>1 DEF CkptRow
<1> QED
  BY <1>1, <1>2 DEF StagesOf

\* A checkpoint adds its stage to those that have ended, unless it is a fix.
LEMMA CheckpointEnds ==
    ASSUME NEW s \in Names, NEW n \in 0..MaxFix, TypeOK, Checkpoint(s, n)
    PROVE  /\ StageCkpts \in Seq(Names)
           /\ StageCkpts' = IF s = "fix" THEN StageCkpts ELSE Append(StageCkpts, s)
<1> DEFINE row == [stage |-> s, retry |-> n]
           more == Append(ckpts, row)
<1>0. row \in CkptRow /\ row.stage = s /\ ckpts \in Seq(CkptRow)
  BY DEF CkptRow, TypeOK
<1>1. /\ more \in Seq(CkptRow) /\ Len(more) = Len(ckpts) + 1 /\ Len(ckpts) \in Nat
      /\ \A i \in 1..Len(ckpts) : more[i] = ckpts[i]
      /\ more[Len(ckpts) + 1] = row
  BY <1>0, AppendProperties, LenProperties
<1>2. more = ckpts'
  BY DEF Checkpoint
<1> HIDE DEF row, more
<1>3. /\ StagesOf(ckpts) \in Seq(Names) /\ Len(StagesOf(ckpts)) = Len(ckpts)
      /\ \A i \in 1..Len(ckpts) : StagesOf(ckpts)[i] = ckpts[i].stage
  BY <1>0, StagesOfType
<1>4. /\ StagesOf(more) \in Seq(Names) /\ Len(StagesOf(more)) = Len(ckpts) + 1
      /\ \A i \in 1..(Len(ckpts) + 1) : StagesOf(more)[i] = more[i].stage
  BY <1>1, StagesOfType
<1> DEFINE list == Append(StagesOf(ckpts), s)
<1>5. /\ list \in Seq(Names) /\ Len(list) = Len(ckpts) + 1
      /\ \A i \in 1..Len(ckpts) : list[i] = ckpts[i].stage
      /\ list[Len(ckpts) + 1] = s
  BY <1>3, AppendProperties
<1> HIDE DEF list
<1>6. \A i \in 1..Len(StagesOf(more)) : StagesOf(more)[i] = list[i]
  <2>1. \A i \in 1..(Len(ckpts) + 1) : i \in 1..Len(ckpts) \/ i = Len(ckpts) + 1
    BY <1>1
  <2>2. \A i \in 1..Len(ckpts) : StagesOf(more)[i] = list[i]
    BY <1>1, <1>4, <1>5
  <2>3. StagesOf(more)[Len(ckpts) + 1] = list[Len(ckpts) + 1]
    BY <1>0, <1>1, <1>4, <1>5
  <2> QED
    BY <1>4, <2>1, <2>2, <2>3
<1>7. StagesOf(more) = list
  <2>1. Len(StagesOf(more)) = Len(list)
    BY <1>4, <1>5
  <2> QED
    BY <1>4, <1>5, <1>6, <2>1, SeqEqual
<1>8. Kept(list, {"fix"}) = IF s \in {"fix"} THEN Kept(StagesOf(ckpts), {"fix"})
                            ELSE Append(Kept(StagesOf(ckpts), {"fix"}), s)
  BY <1>3, KeptAppend DEF list
<1>9. StageCkpts = Kept(StagesOf(ckpts), {"fix"}) /\ StageCkpts' = Kept(StagesOf(ckpts'), {"fix"})
  BY DEF StageCkpts, StagesOf
<1>10. Kept(StagesOf(ckpts), {"fix"}) \in Seq(Names)
  <2>1. Len(StagesOf(ckpts)) \in 0..Len(StagesOf(ckpts))
    BY <1>3, LenProperties
  <2> QED
    BY <1>3, <2>1, KeepingsType DEF Kept
<1> QED
  BY <1>2, <1>7, <1>8, <1>9, <1>10

\* The planned stages up to the n-th configured one.
PlannedTo(n) == <<Intent>> \o Keepings(Stages, Inline)[n]

\* The plan grows with each configured stage that is not run elsewhere, and each
\* part of it is a beginning of the whole.
LEMMA PlanGrows ==
    /\ PlannedTo(0) = <<Intent>> /\ PlannedTo(Len(Stages)) = Planned
    /\ \A n \in 0..Len(Stages) :
          /\ PlannedTo(n) \in Seq(Names)
          /\ 1 <= Len(PlannedTo(n)) /\ Len(PlannedTo(n)) <= Len(Planned)
          /\ \A i \in 1..Len(PlannedTo(n)) : PlannedTo(n)[i] = Planned[i]
    /\ \A n \in 1..Len(Stages) :
          PlannedTo(n) = IF Stages[n] \in Inline THEN PlannedTo(n - 1)
                         ELSE Append(PlannedTo(n - 1), Stages[n])
<1> DEFINE K == Keepings(Stages, Inline)
           I == <<Intent>>
<1>0. Len(Stages) \in Nat /\ Stages \in Seq(Names) /\ Intent \in Names
  <2>1. Len(Stages) \in Nat
    BY StagesAssumption, LenProperties
  <2>2. Stages \in Seq(Range(Stages))
    BY StagesAssumption, SeqOfRange
  <2>3. Range(Stages) \subseteq Names /\ Intent \in Names
    BY DEF Names
  <2> QED
    BY <2>1, <2>2, <2>3, SeqMonotonic
<1>1. K[0] = <<>>
      /\ \A n \in 1..Len(Stages) :
           K[n] = IF Stages[n] \in Inline THEN K[n - 1] ELSE Append(K[n - 1], Stages[n])
  BY <1>0, KeepingsDef
<1>2. \A n \in 0..Len(Stages) : K[n] \in Seq(Names)
  BY <1>0, KeepingsType
<1>3. \A n \in 0..Len(Stages) :
        /\ Len(K[n]) <= Len(K[Len(Stages)])
        /\ \A i \in 1..Len(K[n]) : K[n][i] = K[Len(Stages)][i]
  BY <1>0, KeepingsPrefix DEF Kept
<1>k. PlannedTo(Len(Stages)) = I \o K[Len(Stages)] /\ Planned = I \o K[Len(Stages)]
  BY DEF PlannedTo, Planned, Kept
<1> HIDE DEF K
<1>i. I \in Seq(Names) /\ Len(I) = 1 /\ I[1] = Intent
  <2> HIDE DEF I
  <2>1. I = <<Intent>> => I \in Seq(Names) /\ Len(I) = 1 /\ I[1] = Intent
    BY <1>0
  <2> QED
    BY <2>1 DEF I
<1>p. \A n : PlannedTo(n) = I \o K[n]
  BY DEF PlannedTo, K
<1> HIDE DEF I
<1>4. \A n \in 0..Len(Stages) :
        /\ I \o K[n] \in Seq(Names) /\ Len(I \o K[n]) = 1 + Len(K[n]) /\ Len(K[n]) \in Nat
        /\ \A i \in 1..(1 + Len(K[n])) :
             (I \o K[n])[i] = IF i <= 1 THEN I[i] ELSE K[n][i - 1]
  <2> SUFFICES ASSUME NEW n \in 0..Len(Stages)
               PROVE  /\ I \o K[n] \in Seq(Names) /\ Len(I \o K[n]) = 1 + Len(K[n])
                      /\ Len(K[n]) \in Nat
                      /\ \A i \in 1..(1 + Len(K[n])) :
                           (I \o K[n])[i] = IF i <= 1 THEN I[i] ELSE K[n][i - 1]
    OBVIOUS
  <2>1. K[n] \in Seq(Names) /\ I \in Seq(Names) /\ Len(I) = 1
    BY <1>2, <1>i
  <2>2. /\ I \o K[n] \in Seq(Names) /\ Len(I \o K[n]) = Len(I) + Len(K[n])
        /\ \A i \in 1..(Len(I) + Len(K[n])) :
             (I \o K[n])[i] = IF i <= Len(I) THEN I[i] ELSE K[n][i - Len(I)]
    BY <2>1, ConcatProperties
  <2>3. Len(K[n]) \in Nat
    BY <2>1, LenProperties
  <2> QED
    BY <2>1, <2>2, <2>3
<1>5. ASSUME NEW n \in 0..Len(Stages)
      PROVE  /\ PlannedTo(n) \in Seq(Names)
             /\ 1 <= Len(PlannedTo(n)) /\ Len(PlannedTo(n)) <= Len(Planned)
             /\ \A i \in 1..Len(PlannedTo(n)) : PlannedTo(n)[i] = Planned[i]
  <2>1. Len(Stages) \in 0..Len(Stages)
    BY <1>0
  <2>2. /\ Len(I \o K[n]) = 1 + Len(K[n]) /\ Len(K[n]) \in Nat
        /\ Len(I \o K[Len(Stages)]) = 1 + Len(K[Len(Stages)]) /\ Len(K[Len(Stages)]) \in Nat
        /\ Len(K[n]) <= Len(K[Len(Stages)])
    BY <1>3, <1>4, <2>1
  <2>3. ASSUME NEW i \in 1..(1 + Len(K[n])) PROVE (I \o K[n])[i] = (I \o K[Len(Stages)])[i]
    <3>1. (I \o K[n])[i] = IF i <= 1 THEN I[i] ELSE K[n][i - 1]
      BY <1>4, <2>3
    <3>2. i \in 1..(1 + Len(K[Len(Stages)]))
      BY <2>2
    <3>3. (I \o K[Len(Stages)])[i] = IF i <= 1 THEN I[i] ELSE K[Len(Stages)][i - 1]
      BY <1>4, <2>1, <3>2
    <3>4. i <= 1 \/ i - 1 \in 1..Len(K[n])
      BY <2>2
    <3> QED
      BY <1>3, <3>1, <3>3, <3>4
  <2>4. PlannedTo(n) = I \o K[n] /\ Planned = I \o K[Len(Stages)]
        /\ I \o K[n] \in Seq(Names)
    BY <1>4, <1>k, <1>p
  <2> QED
    BY <2>2, <2>3, <2>4
<1>6. PlannedTo(0) = I
  <2>1. PlannedTo(0) = I \o <<>>
    BY <1>1, <1>p
  <2> QED
    BY <1>i, <2>1, ConcatEmptySeq
<1>7. ASSUME NEW n \in 1..Len(Stages)
      PROVE  PlannedTo(n) = IF Stages[n] \in Inline THEN PlannedTo(n - 1)
                            ELSE Append(PlannedTo(n - 1), Stages[n])
  <2>1. K[n] = IF Stages[n] \in Inline THEN K[n - 1] ELSE Append(K[n - 1], Stages[n])
    BY <1>1
  <2>2. CASE Stages[n] \in Inline
    BY <1>p, <2>1, <2>2
  <2>3. CASE Stages[n] \notin Inline
    <3>1. n - 1 \in 0..Len(Stages) /\ Stages[n] \in Names
      BY <1>0, ElementOfSeq
    <3>2. K[n - 1] \in Seq(Names) /\ I \o K[n - 1] \in Seq(Names)
          /\ <<Stages[n]>> \in Seq(Names)
      BY <1>2, <1>4, <3>1
    <3>3. Append(K[n - 1], Stages[n]) = K[n - 1] \o <<Stages[n]>>
      BY <3>1, <3>2, AppendIsConcat
    <3>4. Append(I \o K[n - 1], Stages[n]) = (I \o K[n - 1]) \o <<Stages[n]>>
      BY <3>1, <3>2, AppendIsConcat
    <3>5. (I \o K[n - 1]) \o <<Stages[n]>> = I \o (K[n - 1] \o <<Stages[n]>>)
      <4>1. I \in Seq(Names)
        BY <1>i
      <4>2. \A u, v \in Seq(Names) : (I \o u) \o v = I \o (u \o v)
        BY <4>1, ConcatAssociative
      <4> QED
        BY <3>2, <4>2
    <3>6. PlannedTo(n) = I \o Append(K[n - 1], Stages[n])
      BY <1>p, <2>1, <2>3
    <3> QED
      BY <1>p, <2>3, <3>3, <3>4, <3>5, <3>6
  <2> QED
    BY <2>2, <2>3
<1> QED
  BY <1>5, <1>6, <1>7, <1>k DEF I

\* The agent runs are of planned stages whose predecessors have ended, or fixes.
RunsFollow ==
    \A r \in DOMAIN agentRuns :
       \/ agentRuns[r].stage = "fix"
       \/ \E i \in DOMAIN Planned :
             agentRuns[r].stage = Planned[i] /\ Len(StageCkpts) >= i - 1

\* The checkpoints are the first stages of the plan.
BeginsPlan(done) ==
    Len(done) <= Len(Planned) /\ \A i \in DOMAIN done : done[i] = Planned[i]

\* Where the generator is, the checkpoints are the stages before it; wherever it
\* ends, they are the first of the plan.
Following ==
    /\ pc \in {"start", "opened", "intent"} => StageCkpts = <<>> /\ idx = 1
    /\ pc \in InStage \union {"loop"} =>
          idx <= Len(Stages) + 1 /\ StageCkpts = PlannedTo(idx - 1)
    /\ pc \in InStage => Stage \notin Inline
    /\ pc \in {"deliver", "bill", "complete"} => StageCkpts = Planned
    /\ StageCkpts \in Seq(Names)
    /\ BeginsPlan(StageCkpts)
    /\ run.status = "completed" => StageCkpts = Planned
    /\ RunsFollow

\* The plan as facts about its parts, for the steps below.
LEMMA PlanFacts ==
    /\ Len(Stages) \in Nat /\ Planned \in Seq(Names) /\ Len(Planned) \in Nat
    /\ DOMAIN Planned = 1..Len(Planned) /\ Len(Planned) >= 1 /\ Planned[1] = Intent
    /\ \A n \in 0..Len(Stages) :
          /\ PlannedTo(n) \in Seq(Names) /\ BeginsPlan(PlannedTo(n))
          /\ Len(PlannedTo(n)) \in Nat
<1>0. Len(Stages) \in Nat
  BY StagesAssumption, LenProperties
<1>1. 0 \in 0..Len(Stages) /\ Len(Stages) \in 0..Len(Stages)
  BY <1>0
<1>2. Planned \in Seq(Names)
  BY <1>1, PlanGrows
<1>3. Len(Planned) \in Nat /\ DOMAIN Planned = 1..Len(Planned)
  BY <1>2, LenProperties
<1>4. Len(Planned) >= 1 /\ Planned[1] = Intent
  <2>1. PlannedTo(0)[1] = Intent /\ Len(PlannedTo(0)) = 1
    BY PlanGrows
  <2>2. /\ 1 <= Len(PlannedTo(0)) /\ Len(PlannedTo(0)) <= Len(Planned)
        /\ \A i \in 1..Len(PlannedTo(0)) : PlannedTo(0)[i] = Planned[i]
    BY <1>1, PlanGrows
  <2> QED
    BY <1>3, <2>1, <2>2
<1>5. ASSUME NEW n \in 0..Len(Stages)
      PROVE  /\ PlannedTo(n) \in Seq(Names) /\ BeginsPlan(PlannedTo(n))
             /\ Len(PlannedTo(n)) \in Nat
  <2>1. /\ PlannedTo(n) \in Seq(Names) /\ Len(PlannedTo(n)) <= Len(Planned)
        /\ \A i \in 1..Len(PlannedTo(n)) : PlannedTo(n)[i] = Planned[i]
    BY PlanGrows
  <2>2. DOMAIN PlannedTo(n) = 1..Len(PlannedTo(n)) /\ Len(PlannedTo(n)) \in Nat
    BY <2>1, LenProperties
  <2> QED
    BY <2>1, <2>2 DEF BeginsPlan
<1> QED
  BY <1>0, <1>2, <1>3, <1>4, <1>5

\* The stage at hand is the one after the checkpointed ones.
LEMMA StageIsNext ==
    ASSUME Shape, Following, pc \in InStage
    PROVE  /\ idx \in 1..Len(Stages) /\ Stage \in Names /\ Stage # "fix"
           /\ PlannedTo(idx) = Append(StageCkpts, Stage)
           /\ Len(StageCkpts) + 1 \in DOMAIN Planned
           /\ Planned[Len(StageCkpts) + 1] = Stage
<1>1. idx \in 1..Len(Stages) /\ Stage \in Names /\ Stage \notin Inline
  BY PlanFacts, StageIsName DEF Shape, TypeOK, Following
<1>2. Stage # "fix" /\ Stages[idx] \notin Inline
  BY <1>1 DEF Inline, Stage
<1>3. StageCkpts = PlannedTo(idx - 1) /\ StageCkpts \in Seq(Names)
  BY DEF Following
<1>4. PlannedTo(idx) = Append(StageCkpts, Stage)
  BY <1>1, <1>2, <1>3, PlanGrows DEF Stage
<1>5. /\ Len(PlannedTo(idx)) = Len(StageCkpts) + 1 /\ Len(StageCkpts) \in Nat
      /\ PlannedTo(idx)[Len(StageCkpts) + 1] = Stage
  BY <1>1, <1>3, <1>4, AppendProperties, LenProperties
<1>6. idx \in 0..Len(Stages)
  BY <1>1
<1>7. /\ Len(PlannedTo(idx)) <= Len(Planned)
      /\ \A i \in 1..Len(PlannedTo(idx)) : PlannedTo(idx)[i] = Planned[i]
  BY <1>6, PlanGrows
<1> QED
  BY <1>1, <1>2, <1>4, <1>5, <1>7, PlanFacts

\* Runs that follow the plan still do when more stages have ended.
LEMMA RunsStillFollow ==
    ASSUME TypeOK, RunsFollow, UNCHANGED agentRuns,
           Len(StageCkpts) \in Nat, Len(StageCkpts') \in Nat, Len(StageCkpts') >= Len(StageCkpts)
    PROVE  RunsFollow'
<1> SUFFICES ASSUME NEW r \in DOMAIN agentRuns, agentRuns[r].stage # "fix"
             PROVE  \E i \in DOMAIN Planned :
                       agentRuns[r].stage = Planned[i] /\ Len(StageCkpts') >= i - 1
  BY DEF RunsFollow
<1>1. PICK i \in DOMAIN Planned :
         agentRuns[r].stage = Planned[i] /\ Len(StageCkpts) >= i - 1
  BY DEF RunsFollow
<1>2. i \in Nat
  BY PlanFacts
<1> QED
  BY <1>1, <1>2

\* Calling the agent of the next stage, or a fix, follows the plan.
LEMMA CallFollows ==
    ASSUME NEW s \in Names, Shape, RunsFollow, CallAgent(s), StageCkpts' = StageCkpts,
           \/ s = "fix"
           \/ \E i \in DOMAIN Planned : s = Planned[i] /\ Len(StageCkpts) >= i - 1
    PROVE  RunsFollow'
<1> DEFINE row == [stage |-> s, status |-> "running", tokens |-> 0]
<1>1. CASE agentRuns' = Append(agentRuns, row) /\ task' = Pending
  <2>1. row \in AgentRunRow /\ row.stage = s /\ agentRuns \in Seq(AgentRunRow)
    BY DEF AgentRunRow, Shape, TypeOK
  <2>2. /\ Len(agentRuns') = Len(agentRuns) + 1 /\ Len(agentRuns) \in Nat
        /\ DOMAIN agentRuns' = 1..(Len(agentRuns) + 1) /\ DOMAIN agentRuns = 1..Len(agentRuns)
        /\ \A r \in 1..Len(agentRuns) : agentRuns'[r] = agentRuns[r]
        /\ agentRuns'[Len(agentRuns) + 1] = row
    BY <1>1, <2>1, AppendProperties, LenProperties
  <2>3. \A r \in DOMAIN agentRuns' : r \in DOMAIN agentRuns \/ agentRuns'[r].stage = s
    BY <2>1, <2>2
  <2> HIDE DEF row
  <2> SUFFICES ASSUME NEW r \in DOMAIN agentRuns'
               PROVE  \/ agentRuns'[r].stage = "fix"
                      \/ \E i \in DOMAIN Planned :
                            agentRuns'[r].stage = Planned[i] /\ Len(StageCkpts) >= i - 1
    BY DEF RunsFollow
  <2>4. CASE r \in DOMAIN agentRuns
    BY <2>2, <2>4 DEF RunsFollow
  <2>5. CASE agentRuns'[r].stage = s
    BY <2>5
  <2> QED
    BY <2>3, <2>4, <2>5
<1>2. CASE task' = Raised("handled") /\ UNCHANGED agentRuns
  BY <1>2 DEF RunsFollow
<1> QED
  BY <1>1, <1>2 DEF CallAgent

\* Settling a row leaves its stage.
LEMMA AgentReturnsFollowing ==
    ASSUME Shape, Following, AgentReturns PROVE Following'
<1>1. PICK st \in {"completed", "failed"}, n \in Nat : FinishAgentRun(st, n)
  BY CostsAssumption DEF AgentReturns
<1>2. /\ agentRuns' \in Seq(AgentRunRow) /\ agentRuns \in Seq(AgentRunRow)
      /\ Len(agentRuns') = Len(agentRuns)
      /\ \A i \in 1..Len(agentRuns) :
            agentRuns'[i] = IF i = Len(agentRuns)
                              THEN [agentRuns[i] EXCEPT !.status = st, !.tokens = n]
                              ELSE agentRuns[i]
  BY <1>1, FinishAgentRunShape DEF Shape, TypeOK, AgentReturns
<1>3. DOMAIN agentRuns' = 1..Len(agentRuns) /\ DOMAIN agentRuns = 1..Len(agentRuns)
  BY <1>2, LenProperties
<1>4. \A i \in 1..Len(agentRuns) : agentRuns'[i].stage = agentRuns[i].stage
  <2>1. \A i \in 1..Len(agentRuns) : agentRuns[i] \in AgentRunRow
    BY <1>2, ElementOfSeq
  <2> QED
    BY <1>2, <2>1 DEF AgentRunRow
<1>5. StageCkpts' = StageCkpts
  BY DEF AgentReturns, StageCkpts
<1>6. RunsFollow'
  BY <1>3, <1>4, <1>5 DEF RunsFollow, Following
<1> QED
  BY <1>5, <1>6 DEF Following, AgentReturns, Stage

\* A step that adds neither a checkpoint of a stage nor a run that does not
\* follow the plan.
LEMMA QuietFollowing ==
    ASSUME Shape, Following, StageCkpts' = StageCkpts, RunsFollow',
           pc' \in {"start", "opened", "intent"} => pc \in {"start", "opened", "intent"},
           pc' \in InStage \union {"loop"} => pc \in InStage \union {"loop"},
           pc' \in InStage => Stage \notin Inline,
           pc' \notin {"deliver", "bill", "complete"}, idx' = idx,
           run'.status = run.status \/ run'.status \in {"running", "failed"}
    PROVE  Following'
BY DEF Following, BeginsPlan, Stage

\* Nothing is checkpointed and nobody is called.
LEMMA StillFollowing ==
    ASSUME UNCHANGED <<ckpts, agentRuns>>
    PROVE  StageCkpts' = StageCkpts /\ (RunsFollow => RunsFollow')
<1>1. StageCkpts' = StageCkpts
  BY DEF StageCkpts
<1> QED
  BY <1>1 DEF RunsFollow

\* Ending a stage is the next step of the plan.
LEMMA EndStageFollowing ==
    ASSUME Shape, Following, pc \in InStage, EndStage(Stage),
           UNCHANGED <<agentRuns, run>>, run.status # "completed"
    PROVE  Following'
<1>1. /\ idx \in 1..Len(Stages) /\ Stage \in Names /\ Stage # "fix"
      /\ PlannedTo(idx) = Append(StageCkpts, Stage)
  BY StageIsNext
<1>2. StageCkpts' = Append(StageCkpts, Stage) /\ StageCkpts \in Seq(Names)
  BY <1>1, CheckpointEnds, ConstantFacts DEF EndStage, Shape
<1>3. StageCkpts' = PlannedTo(idx) /\ idx' = idx + 1 /\ pc' = "loop"
  BY <1>1, <1>2 DEF EndStage
<1>4. idx \in 0..Len(Stages) /\ idx' - 1 = idx /\ idx' <= Len(Stages) + 1
  BY <1>1, <1>3, PlanFacts
<1>5. Len(StageCkpts') = Len(StageCkpts) + 1 /\ Len(StageCkpts) \in Nat
  BY <1>1, <1>2, AppendProperties, LenProperties
<1>6. RunsFollow'
  BY <1>5, RunsStillFollow DEF Shape, Following
<1>7. PlannedTo(idx) \in Seq(Names) /\ BeginsPlan(PlannedTo(idx))
  BY <1>4, PlanFacts
<1>8. BeginsPlan(StageCkpts')
  BY <1>3, <1>7
<1> QED
  BY <1>3, <1>4, <1>6, <1>7, <1>8 DEF Following, InStage, BeginsPlan

\* The intent's checkpoint begins the plan.
LEMMA IntentFollowing ==
    ASSUME Shape, Following, pc \in {"opened", "intent"}, Checkpoint(Intent, 0), pc' = "loop",
           UNCHANGED <<agentRuns, run, idx>>, run.status # "completed"
    PROVE  Following'
<1>1. StageCkpts = <<>> /\ idx = 1
  BY DEF Following
<1>2. StageCkpts' = Append(StageCkpts, Intent)
  BY CheckpointEnds, ConstantFacts DEF Shape, Intent
<1>3. StageCkpts' = PlannedTo(0)
  BY <1>1, <1>2, PlanGrows
<1>4. 0 \in 0..Len(Stages) /\ Len(Stages) \in Nat
  BY PlanFacts
<1>5. PlannedTo(0) \in Seq(Names) /\ BeginsPlan(PlannedTo(0)) /\ Len(PlannedTo(0)) \in Nat
  BY <1>4, PlanFacts
<1>6. RunsFollow'
  <2>1. Len(StageCkpts) = 0
    BY <1>1
  <2> QED
    BY <1>3, <1>5, <2>1, RunsStillFollow DEF Shape, Following
<1> QED
  BY <1>1, <1>3, <1>4, <1>5, <1>6 DEF Following, InStage, BeginsPlan

\* An attempt's checkpoint does not end a stage.
LEMMA FixEndsNoStage ==
    ASSUME Shape, Following, Checkpoint("fix", ctx.retry)
    PROVE  StageCkpts' = StageCkpts
<1>1. ctx.retry \in 0..MaxFix /\ "fix" \in Names
  BY ConstantFacts DEF Shape, TypeOK, Context
<1> QED
  BY <1>1, CheckpointEnds DEF Shape

\* Calling the agent of the stage at hand follows the plan.
LEMMA StageCallFollows ==
    ASSUME Shape, Following, pc \in InStage, CallAgent(Stage), UNCHANGED ckpts
    PROVE  StageCkpts' = StageCkpts /\ RunsFollow'
<1>1. /\ Stage \in Names /\ Len(StageCkpts) + 1 \in DOMAIN Planned
      /\ Planned[Len(StageCkpts) + 1] = Stage
  BY StageIsNext
<1>2. StageCkpts' = StageCkpts /\ Len(StageCkpts) \in Nat
  BY LenProperties DEF StageCkpts, Following
<1>3. \E i \in DOMAIN Planned : Stage = Planned[i] /\ Len(StageCkpts) >= i - 1
  BY <1>1, <1>2
<1> QED
  BY <1>1, <1>2, <1>3, CallFollows DEF Following

\* Every step leaves the checkpoints in the order of the plan.
LEMMA StepFollowing ==
    Shape /\ Shape' /\ Settling /\ Following /\ [Next]_vars => Following'
<1> SUFFICES ASSUME Shape, Shape', Settling, Following, [Next]_vars PROVE Following'
  OBVIOUS
<1>0. /\ Finished => pc = "done"
      /\ run \in RunRow
      /\ pc \in InStage => idx <= Len(Stages)
  BY DEF Settling, Shape, TypeOK
<1>1. CASE UNCHANGED vars
  BY <1>1 DEF vars, Following, StageCkpts, RunsFollow, Stage, BeginsPlan
<1>2. CASE AgentReturns
  BY <1>2, AgentReturnsFollowing DEF Following
<1>f. ASSUME NEW n \in Nat, FailWith(n), UNCHANGED <<idx, agentRuns, ckpts>> PROVE Following'
  <2>1. pc' = "done" /\ run'.status = "failed"
    BY <1>0, <1>f DEF FailWith, RunRow
  <2> QED
    BY <1>f, <2>1, StillFollowing, QuietFollowing DEF Following, InStage
<1>t. total \in Nat /\ total + task.cost \in Nat /\ total + batch.spent + task.cost \in Nat
  <2>1. total \in Nat /\ batch.spent \in Nat /\ task.cost \in Nat
    BY DEF Shape, TypeOK, TaskState
  <2> QED
    BY <2>1
<1>e. ASSUME EndStage(Stage), pc \in InStage, UNCHANGED <<agentRuns, run>> PROVE Following'
  <2>1. run.status # "completed"
    BY <1>0, <1>e DEF Finished, InStage
  <2> QED
    BY <1>e, <2>1, EndStageFollowing
<1>3. CASE Opening
  <2>1. CASE CreateRun
    <3>1. run'.status = "running"
      BY <1>0, <2>1 DEF CreateRun, RunRow
    <3> QED
      BY <2>1, <3>1, StillFollowing, QuietFollowing DEF CreateRun, Following, InStage
  <2>2. CASE ClassifyFast \/ IntentDone
    <3>1. pc \in {"opened", "intent"} /\ run.status # "completed"
      BY <1>0, <2>2 DEF ClassifyFast, IntentDone, Finished
    <3> QED
      BY <2>2, <3>1, IntentFollowing DEF ClassifyFast, IntentDone
  <2>3. CASE ClassifyByAgent
    <3>1. StageCkpts' = StageCkpts /\ Len(StageCkpts) = 0
      BY <2>3 DEF ClassifyByAgent, StageCkpts, Following
    <3>2. \E i \in DOMAIN Planned : Intent = Planned[i] /\ Len(StageCkpts) >= i - 1
      BY <3>1, PlanFacts
    <3>3. RunsFollow'
      BY <2>3, <3>1, <3>2, ConstantFacts, CallFollows DEF ClassifyByAgent, Following
    <3> QED
      BY <2>3, <3>1, <3>3, QuietFollowing DEF ClassifyByAgent, InStage
  <2>4. CASE IntentFails
    BY <1>f, <1>t, <2>4 DEF IntentFails, Fail
  <2> QED
    BY <1>3, <2>1, <2>2, <2>3, <2>4 DEF Opening
<1>4. CASE Looping
  <2>1. CASE SkipStage
    <3>1. idx \in 1..Len(Stages) /\ Stages[idx] \in Inline
      BY <2>1, PlanFacts DEF SkipStage, Shape, TypeOK, Stage
    <3>2. PlannedTo(idx) = PlannedTo(idx - 1)
      BY <3>1, PlanGrows
    <3>3. /\ StageCkpts' = StageCkpts /\ RunsFollow'
          /\ pc' = "loop" /\ pc = "loop" /\ idx' = idx + 1 /\ UNCHANGED run
      BY <2>1, StillFollowing DEF SkipStage, Following
    <3>4. idx' <= Len(Stages) + 1 /\ idx' - 1 = idx
      BY <3>1, <3>3
    <3>5. StageCkpts' = PlannedTo(idx' - 1)
      BY <3>2, <3>3, <3>4 DEF Following
    <3> QED
      BY <3>3, <3>4, <3>5 DEF Following, InStage, BeginsPlan
  <2>2. CASE EnterStage
    <3>1. run'.status = run.status
      BY <1>0, <2>2 DEF EnterStage, RunRow
    <3> QED
      BY <2>2, <3>1, StillFollowing, QuietFollowing DEF EnterStage, Following, InStage
  <2>3. CASE LocalStage \/ AgentStageDone \/ ReviewFallback
    BY <1>e, <2>3 DEF LocalStage, AgentStageDone, ReviewFallback, InStage
  <2>4. CASE StageFails \/ AgentStageFails
    BY <1>f, <1>t, <2>4 DEF StageFails, AgentStageFails, Fail
  <2>5. CASE StartAgentStage
    <3>1. StageCkpts' = StageCkpts /\ RunsFollow'
      BY <2>5, StageCallFollows DEF StartAgentStage, InStage
    <3> QED
      BY <2>5, <3>1, QuietFollowing DEF StartAgentStage, Following, InStage
  <2> QED
    BY <1>4, <2>1, <2>2, <2>3, <2>4, <2>5 DEF Looping
<1>5. CASE Generating
  <2>1. CASE StartCodeGeneration \/ NextBatch
    <3>1. StageCkpts' = StageCkpts /\ RunsFollow'
      BY <2>1, StageCallFollows DEF StartCodeGeneration, NextBatch, InStage
    <3> QED
      BY <2>1, <3>1, QuietFollowing DEF StartCodeGeneration, NextBatch, Following, InStage
  <2>2. CASE CodeGenerationDone
    BY <1>e, <2>2 DEF CodeGenerationDone, InStage
  <2>3. CASE CodeGenerationFails \/ RepairFails
    BY <1>f, <1>t, <2>3 DEF CodeGenerationFails, RepairFails, Fail
  <2> QED
    BY <1>5, <2>1, <2>2, <2>3 DEF Generating
<1>6. CASE Validating
  <2>1. CASE StartValidation \/ ValidationPasses \/ FixReturns
    BY <2>1, StillFollowing, QuietFollowing
    DEF StartValidation, ValidationPasses, FixReturns, Following, InStage
  <2>2. CASE ValidationFails
    <3>1. StageCkpts' = StageCkpts
      BY <2>2 DEF ValidationFails, StageCkpts
    <3>2. RunsFollow'
      BY <2>2, <3>1, ConstantFacts, CallFollows DEF ValidationFails, Following
    <3> QED
      BY <2>2, <3>1, <3>2, QuietFollowing DEF ValidationFails, Following, InStage
  <2>3. CASE RevalidationPasses \/ RevalidationFails
    <3>1. StageCkpts' = StageCkpts
      BY <2>3, FixEndsNoStage DEF RevalidationPasses, RevalidationFails
    <3>2. UNCHANGED agentRuns \/ CallAgent("fix")
      BY <2>3 DEF RevalidationPasses, RevalidationFails
    <3>3. RunsFollow'
      <4>1. CASE UNCHANGED agentRuns
        BY <3>1, <4>1 DEF RunsFollow, Following
      <4>2. CASE CallAgent("fix")
        BY <3>1, <4>2, ConstantFacts, CallFollows DEF Following
      <4> QED
        BY <3>2, <4>1, <4>2
    <3>4. pc = "revalidate" /\ pc' \in {"fix", "validated"} /\ UNCHANGED <<idx, run>>
      BY <2>3 DEF RevalidationPasses, RevalidationFails
    <3> QED
      BY <3>1, <3>3, <3>4, QuietFollowing DEF Following, InStage
  <2>4. CASE ValidationRaises
    BY <1>f, <1>t, <2>4 DEF ValidationRaises, Fail
  <2>5. CASE ValidationDone
    BY <1>e, <2>5 DEF ValidationDone, InStage
  <2> QED
    BY <1>6, <2>1, <2>2, <2>3, <2>4, <2>5 DEF Validating
<1>7. CASE Delivering
  <2>1. CASE StagesDone
    <3>1. idx = Len(Stages) + 1
      BY <2>1, PlanFacts DEF StagesDone, Following, Shape, TypeOK
    <3>2. idx - 1 = Len(Stages)
      BY <3>1, PlanFacts
    <3>3. StageCkpts = Planned
      BY <2>1, <3>2, PlanGrows DEF StagesDone, Following
    <3>4. StageCkpts' = StageCkpts /\ RunsFollow'
      BY <2>1, StillFollowing DEF StagesDone, Following
    <3> QED
      BY <2>1, <3>3, <3>4 DEF StagesDone, Following, InStage, BeginsPlan
  <2>2. CASE SaveArtifact \/ RecordUsage \/ SkipBilling \/ CompleteRun
    <3>1. /\ StageCkpts' = StageCkpts /\ RunsFollow' /\ StageCkpts = Planned
          /\ pc' \in {"bill", "complete", "done"}
      BY <2>2, StillFollowing DEF SaveArtifact, RecordUsage, SkipBilling, CompleteRun, Following
    <3> QED
      BY <3>1 DEF Following, InStage, BeginsPlan
  <2>3. CASE DeliveryFails
    BY <1>f, <1>t, <2>3 DEF DeliveryFails, Fail
  <2> QED
    BY <1>7, <2>1, <2>2, <2>3 DEF Delivering
<1>8. CASE Disconnect \/ Crash
  BY <1>8, StillFollowing, QuietFollowing DEF Disconnect, Crash, Following, InStage
<1> QED
  BY <1>1, <1>2, <1>3, <1>4, <1>5, <1>6, <1>7, <1>8 DEF Next, System

\* Whatever the stages configured, repeated or unknown ones among them, the
\* checkpoints of a run are the first stages of its plan, all of them when it
\* completes, and no agent of a stage was called before the stages before it had
\* ended.
THEOREM CheckpointsInOrder == Spec => []CheckpointsFollowStages
<1>1. Init => Following
  <2> SUFFICES ASSUME Init PROVE Following
    OBVIOUS
  <2>1. StageCkpts = <<>>
    <3>1. StagesOf(<<>>) \in Seq(Names) /\ Len(StagesOf(<<>>)) = 0
      BY EmptySeq, StagesOfType
    <3>2. Keepings(StagesOf(<<>>), {"fix"})[0] = <<>>
      BY <3>1, KeepingsDef
    <3>3. StageCkpts = Kept(StagesOf(<<>>), {"fix"})
      BY DEF Init, StageCkpts, StagesOf
    <3> QED
      BY <3>1, <3>2, <3>3 DEF Kept
  <2>2. BeginsPlan(StageCkpts) /\ StageCkpts \in Seq(Names)
    BY <2>1, EmptySeq, PlanFacts DEF BeginsPlan
  <2> QED
    BY <2>1, <2>2 DEF Init, Following, RunsFollow, InStage
<1>2. Following => CheckpointsFollowStages
  BY DEF Following, BeginsPlan, RunsFollow, CheckpointsFollowStages
<1> QED
  BY <1>1, <1>2, StepFollowing, SettlingHolds, ShapeHolds, PTL DEF Spec
=============================================================================

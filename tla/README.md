# Formal models of OrbitAI

TLA+ models of OrbitAI, both of its backend (`src/Orbit_API`, Python) and of its web
client (`src/Orbit_UI`, TypeScript), the TLC runs that check them on small instances, and
TLAPS proofs of properties for every instance. `PROJECT.json` maps each definition to the
lines it models and lists the runs, mutants, hazards and theorems.

## 1. The system

OrbitAI is a FastAPI application (one uvicorn process, optionally one Celery worker)
with a PostgreSQL database, and several React front ends (`src/Orbit_UI`). Requests
are async handlers on one event loop, or sync handlers in a thread pool. Long answers
are server-sent event streams produced by async generators, which the server cancels
when the client leaves.

| Component | State it keeps | Operations | Talks to |
|---|---|---|---|
| Project generation workflow (`services/ai_platform/workflow`, `stores/run_store.py`, `checkpoint`) | workflow run, agent run, checkpoint, artifact and log rows; the workspace directory; `WorkflowContext` in the generator | one generator: classify, run each stage, validate and fix, archive, bill, complete | model providers, token usage, blob store, the SSE response that drives the generator |
| Document ingest (`services/rag`, `api/v1/public/files.py`, `worker`) | `rag_documents` and `rag_chunks` rows, the uploaded file | upload, import, dispatch, ingest job, delete, retrieve | Celery broker, embedding models; request and job share only the row |
| Run-the-project loop (`clovops/execution_orchestrator.py`) | executed steps, plan cycles, failure signatures, the recursion | plan, execute, recover, retry | Planner (a model), sandboxed terminal |
| Preview servers (`ai_platform/preview/manager.py`) | sessions and tasks by run id, a child process each, a log ring | start, stop, session task, stream | child processes, overlapping HTTP requests |
| Token usage (`services/token_usage.py`) | `tokens_used`, `tokens_period_start` of a user | roll over, check, record | every charged request |
| Chat turn (`multi_agent_stream.py`, `multi_agent_chat.py`, `orchestration/runner.py`) | conversation and message rows | store question, load history, stream, store answer, charge | orchestration package, token usage |
| Orchestration package (`packages/orbit_orchestration`) | sessions in memory | start, turn, resume | model and search services |
| Clovops pipeline and human-in-the-loop (`clovops/pipeline_runner.py`, `clovops/maf`) | merged graph state; paused sessions in memory | run steps, adapt the pipeline, pause, resume | code workspace stores, model services |
| Code workspace projects (`code_workspace/*_store.py`) | project row with its node tree, files on disk | add, rename, move, write, delete | the pipeline, the front end |
| Rate limiter (`core/rate_limit.py`) | timestamps per caller under a lock | enforce | all rate-limited endpoints |
| Auth, crawl, photo studio, project planning, library, configuration, migrations | rows written by one request each | CRUD and model calls | — |
| Photo Studio canvas (`photo-studio-app.tsx`) | layers, generations, what is selected, what is on the canvas, requests in flight | draw, import, generate, select, delete, restore, save | the page around it, the photo studio API |
| Photo Studio workspace tabs (`photo-studio-app-page.tsx`) | tabs, a cached snapshot of each, the URL | open, switch, close, load, save, delete, upload | the mounted canvas, the router, the workspace API |
| Code workspace editor (`code-workspace.tsx`, `ide-right-sidebar.tsx`) | buffers, timers, node tree, the agent's changes and their review | type, autosave, create, accept, reject, deploy | the project stores of the backend, the agent's event stream |
| Chat client (`chat-interface.tsx`, `chat-store.ts`, `chat-navigation.ts`) | conversations and their messages, the active one, the route | ask, launch, list, load, delete, navigate | the chat API |
| Other web front ends | component state | rendering, forms | the API |

### What is hard, and what makes it correct

- **Generation run.** The generator can be abandoned at any `await` or `yield`, while the
  agent call it was waiting for runs on in a task of its own; `except Exception` sees
  neither cancellation nor a crash; eight code paths end a stage; billing, artifact and
  completion are separate commits. Correct means: the run keeps its contract (opened once,
  settled once, charged once and only for a stored project); the bill and the run's token
  counts equal what the agents used; checkpoints follow the configured stages; agent rows
  settle; a run ends.
- **Ingest.** Handler, job and delete work on one row through sessions that remember what
  they loaded. Correct means: `ready` implies indexed, a deleted document stays deleted,
  a row keeps its file, polling ends.
- **Run-the-project loop.** Recursion with two budgets driven by an arbitrary planner.
  Correct means: it stays within both budgets, it does not ask twice about one failure, and
  success means the steps ran.
- **Previews.** `stop` awaits a task and a process, and another request for the same
  project may do anything meanwhile. Correct means: a stopped server is dead and its task
  can start no other, ended previews stay ended, no server is out of reach, requests return.
- **Token usage.** Checked before a turn, charged after it, through sessions that hold an
  old row, around the start of a month. Correct means: the counter is what was charged in
  its period, and the limit is overdrawn by no more than the turns under way.
- **Photo Studio.** Handlers are closures over the render they were made in; while one
  awaits the server the user draws, deletes, switches tabs. Correct means: layers and panel
  agree, answers keep what the user drew, a tab keeps what its canvas was given, and a save
  goes to the project of the tab that is shown, which has one tab.
- **Code workspace editor.** Autosaves, reloads, the agent's edits and their review all
  exchange whole texts and whole trees with the server, in any order, and the agent writes
  before it tells. Correct means: a settled editor shows what the server holds, a rejected
  edit is undone, no file is lost.
- **Chat client.** Pages that were left go on loading, answers stream into conversations
  that are no longer shown, lists are merged by title, and messages of equal text are shown
  once. Correct means: messages stay in their conversation, no answer is lost, the page
  shows its address.

The complete list, by line, is under `hazards` in `PROJECT.json`.

## 2. Modules

| Module | Role |
|---|---|
| `PlatformRun` | one run of the project generation workflow |
| `RunContract` | what the platform promises of a run; `PlatformRun` implements it |
| `PlatformRunProofs` | theorems, among them the refinement |
| `RagIngest`, `RagIngestProofs` | one library document and everything that touches it |
| `ExecutionOrchestrator` | the Planner/Executor recursion that runs the project of a code workspace |
| `PreviewManager`, `PreviewManagerProofs` | the previews of one project |
| `TokenUsage`, `TokenUsageProofs` | the token counter of one user and the requests that check and charge it |
| `PhotoCanvas`, `PhotoCanvasProofs` | the canvas of one Photo Studio workspace |
| `PhotoTabs`, `PhotoTabsProofs` | the workspace tabs around it |
| `CodeWorkspace` | the editor, the server's copies and the agent of one project |
| `CodeWorkspaceProofs` | theorems about both halves of the code workspace: the editor and the loop that runs the project |
| `ChatClient`, `ChatClientProofs` | the conversations of one user in the browser |
| `MC*` | instances for TLC; each `.cfg` is one run |

`PhotoTabs` composes the page with the one canvas it mounts, seen through the snapshots
the two exchange; `PhotoCanvas` is the inside of that canvas. `CodeWorkspace` and
`ChatClient` each compose a browser with the part of the server it talks to. `TokenUsage`
is what the last stage of `PlatformRun` (`RecordUsage`) and a chat turn charge through.
`ExecutionOrchestrator` names its specification `LoopSpec`, so that one module of proofs can
extend it together with `CodeWorkspace`; the two share no state.

Definitions whose comment begins with *Variant* are small mutations of the definition
that follows them. `Next` does not use them; they stand for plausible bugs, and each is
paired in `PROJECT.json` with a property that fails when it replaces the original.

### PlatformRun

An action is the code between two suspension points or two commits, whichever is
shorter. `pc` is the place in `run_project_generation`; `idx` the turn of the stage loop;
`run`, `agentRuns`, `ckpts`, `artifact` the database rows; `ctx` the part of
`WorkflowContext` that decides control (fast path, number of file tasks, validation,
attempt); `task` the asyncio task of the current agent call; `batch` and `total` the
locals that add up usage; `charge` what `record_usage` has been called with.

- Prompts, generated files and payloads are left out. Whether an agent answers, times out
  or raises, whether its output can be written, and whether validation passes are choices.
- A token count is one number for input plus output; `Costs` are the counts a call may
  report. A failed call reports none, as `finish_agent_run(..., 0, 0)` does.
- `CallAgent` may fail before the row is inserted: no configuration for the role, or the
  agent cannot be built.
- `Disconnect` is enabled only where the generator is suspended (`Suspended`): there is no
  await between the artifact row and `record_usage`, nor between a successful
  `record_usage` and `complete_run`. `Crash` is enabled everywhere, which is why a charged
  run may be left uncompleted by it and by nothing else.
- Commits are assumed to succeed, and so are the small JSON snapshots written next to the
  checkpoint rows: a database error inside the run also breaks the commit of its own
  `except` clause, which has the effect of `Crash`.

### RagIngest

A session keeps what it loaded until it commits, and writes the columns it has assigned a
different value: `held` and `Flushed` model that, and the upload handler's writes
(`Finish`) are those of a session that loaded `pending` before it dispatched the job.
`Settings` are the values of `rag_ingest_mode` an instance covers. A job runs in the API
process (inside the request or after the response) or on a worker. When `delay()` raises
the task may have reached the broker, so both jobs may exist. A dead API process loses its
requests and background jobs; a dead worker loses the task it runs (Celery acknowledges
on receipt by default), not the queued ones. `CommitFails` is a commit of the job that
raises: the chunks are rolled back, the commit of the exception's handler raises as well,
and the row stays `processing`, so `PollingEndsInBackground` excuses it like a crash.

### ExecutionOrchestrator

`stack` is the recursion of `_execute_plan_until_done`. Plans are arbitrary sequences of
commands, because the prompt filter of `create_recovery_plan` does not survive
normalisation and its fallback ends with the failed command. A failure carries the end of
its output, the other half of a failure signature. `up` is an output in which
`server_started_successfully` finds a server, which any command may print. A record keeps
the position of its step, counted from 1 as TLA+ sequences are; the code keeps it in the
loop variable, and the properties use it to tell two executions of one command apart.
`BudgetLeft` is the test at the top of the loop, and there only: a retry is executed
without it.

### PreviewManager

A session is named after the start request that created it. `stop` is split where it
awaits: the cancelled task, then the process; everything between, including the
registration of a new session after `stop` returned inside `start`, is one action.
`overlapped` is a history variable: a request began while another was inside `stop`.
Whether the workspace is a Node project is fixed when the model starts, since previews are
started for a generated workspace. `proc` is what the manager spawned, a shell or npm: a SIGKILL
of it does not reach what it has started itself, so `StoppedIsDead` is about the spawned
process only. The children of `npm install`, the log and the HTTP proxy are not modelled;
neither is the end of the API process.

### TokenUsage

A step is what a request does between two suspensions. SQLAlchemy's session keeps the row it
has loaded until it commits and then writes the columns that were assigned another value;
`held` is that row, and the difference between requests is how old it is when they use it.
Chat and generation load the row anew to charge; insights charge the row loaded before the
model was asked; the subscription page runs in a thread and rolls the period over too.
`closing` says whether FastAPI closes the session of a request before its answer streams (of
the versions the project admits, 0.115 to 0.117 do): a detached user can be read but not
refreshed, so in that case the first chat turn of a month breaks off (`ChatBreaks`) until
another request has rolled the period over. History variables: `billed` is the account the
counter is compared with, `peak` counts the turns under way together, `outdated` records
that a session wrote a row another one had changed, `unchecked` that insights, which are not
checked, were charged.

### PhotoCanvas

Handlers that call the server go on, after their `await`, with the state of the render
they were created in: the records in `fetches` and `deletes` are exactly what those
closures remember, and the functional updates of React read the state of the moment. A
layer is its id, and all layers of a generation are one. `AutoLoadTimer` is the automatic
restore 800 ms after mounting. `overlapped` is a history variable: two requests were in
flight together.

### PhotoTabs

`page` is the record of the states and refs that one click updates together; `Rendered` is
the render and the effects that follow before anything else can happen. The URL follows
later (`navigating`), because `router.replace` is a transition. `page.awaits` says what may
still be given to the mounted canvas: the answer of a generation, which comes whatever the
user does meanwhile, a save included, and the last export, with which the automatic restore
replaces what was drawn. Both belong to the mounted workspace and are lost with it.

History variables: `work` is what the canvas of a tab was last given; `overtaken` are the
tabs whose canvas was given something while a save was awaited, until it is given the next
thing; `adopted` says that the shown draft has taken the project of the URL; `crossed`, that
the tabs changed while a closure that remembers them was awaiting.

### CodeWorkspace

Every call to the server is a record of `requests`; the server takes them in any order,
and a call that reads has a second leg. Reads and writes of rows by the server are single
steps. Autosave is on, as by default. Calls are a set: two calls of the same kind about the
same file with the same content, made before either is taken, are one.

A path of the demo project has a demo text (`Demo`), which the editor shows for a file that
is empty on the server or could not be fetched (`Fetched`, `LoadFails`). A refetch
(`FileReloaded`) takes the text as it is.

The agent's run on the server writes files (`AgentEdits`, `AgentCreates`) while its writer
step is at work; the edits are told when that step has returned (`AgentTells`), for each file
only the first of a run, and `done` repeats them all. A run may also end without a `done`
(`AgentFails`: a plan to review, or an error, after which edits may never be told), and its
connection may break (`StreamBreaks`). A created file makes the editor ask for the project
twice, at the edit and at `project_changed`.

History variables: `crossed` holds the files on which two exchanges have overlapped or
failed, or of which an edit was never told; `overtaken` says that the tree was changed on
one side while a change of the other was on its way, that such news was lost, or that an
answer arrived after a newer one and took nodes away again (`applyRemoteProject` compares no
versions); `original` is the text before the agent's first edit not yet reviewed.

### ChatClient

The Next.js router shows another conversation with a new instance of the page, and what an
old instance awaited still changes the store. A conversation's title is the start of its
first question; the store takes two of the same title updated within two minutes for one
(`Twins`; a session as short as the model's never lasts longer). `Text` gives every message
its text: two messages of one role and text are `Alike`, the store keeps the first
(`dedupeMessages`), and the page shows an answer once (`Shown`). The home page leaves its
question to the next page, and moves `launchSeq`: a chat page that the user has gone to
meanwhile takes the question at once, asks it or drops it (`Launched`). `strayed` records that a
load came back after its page was left, `hasty` the questions asked before their
conversation was listed, or while the home page was still creating it.

## 3. Runs

| Run | Shows | Instance | Distinct states |
|---|---|---|---|
| `platform_run` | all properties of a generation run and its contract | one workflow with a stage of each kind, 2 fix attempts, up to 2 file tasks, calls costing 1 or 2 tokens | 71 543 |
| `platform_run_retry` | *violation*: the second attempt at a file task is never made | same | — |
| `rag_ingest` | what holds in every ingest mode, and what in background mode | all four modes | 2 736 |
| `rag_ingest_celery` | *violation*: polling may never end | mode `celery` | — |
| `execution` | budgets, memory of failures, success | 2 commands (one a server), 2 error outputs, plans of at most 2 steps, 4 steps, 3 plans | 61 424 |
| `preview` | lifecycle of previews under overlapping requests | 3 requests | 14 472 |
| `token_usage` | the counter is exact, the overdraft bounded | 3 interchangeable requests, 2 months, limit 3 | 1 377 239 |
| `photo_canvas` | layers and panel agree, hand-made layers survive answers, the delete button returns | 1 drawn layer, 2 generations, 2 requests at once | 724 840 |
| `photo_tabs` | tabs keep their work, saves go to the shown tab's project | 2 projects, 2 tabs, 2 contents per tab, 2 requests at once; states with `crossed` are not continued | 1 014 481 |
| `code_workspace` | editor and server agree, files are kept, rejection undoes | 2 interchangeable files, a project that begins with one or none, 2 texts, one of them the demo's, 2 calls at once, 2 acts, 2 agent runs of 2 edits; states of which nothing is claimed are not continued | 1 247 726 |
| `code_workspace_deploy` | *violation*: deploying empties files that were not opened | the same with 3 acts | — |
| `chat_client` | messages stay home, answers arrive, the page shows its address | 3 conversations of which 2 are twins, 2 questions with a text asked before and answers of one text, 3 acts | 1 598 341 |

Deadlock checking is on for `photo_canvas` and `photo_tabs`, where the user can always do
something. Elsewhere it is off: a run, a document, a loop, a set of requests and a bounded
session all come to an end.

### Bounds, and why they are enough

- *PlatformRun.* `MCStages` has one stage of every kind the loop distinguishes (inline,
  local, fast-path, batched, validation, review with its fallback, ordinary agent). Two
  fix attempts distinguish the first and the last turn of `range(max_fix)`; two
  file tasks distinguish the last batch from an earlier one; two costs make sums that miss
  or repeat a call visible. The theorems cover every other value for the properties proved.
- *RagIngest.* Documents share no state, so one suffices; the two places a job can run in
  are all there are. The state space is complete: no bound cuts it.
- *Constraints.* `NotCrossed` and `SomethingClaimed` stop TLC where nothing is claimed.
  `crossed` of `PhotoTabs` never goes back, so nothing is claimed later either. Of
  `CodeWorkspace`, a file is left out that is created when all others are crossed already
  and the tree is overtaken; the theorems cover it.
- *ExecutionOrchestrator.* Three plans give a recovery of a recovery; four steps are
  enough to run out of either budget first; two errors allow a repeated and a new failure.
- *PreviewManager.* Three requests are the fewest that can overlap while a session exists.
- *TokenUsage.* Three requests: one that rolls over or charges between the load and the
  write of another, and a third to see the result. Two months give every relation of a
  held row to the present (this month's, last month's). `Limit` 3 is reached by two turns.
- *PhotoCanvas.* Two generations are the fewest of which one can displace the other, and
  two requests the fewest that overlap. The theorems cover the rest.
- *PhotoTabs.* Two tabs and two projects give a tab to come from and one to go to. Two
  saves, deletes or uploads at a time, next to a load, a navigation, a generation, an export
  and a tab being prepared.
- *CodeWorkspace.* `Sessions` are sets of features; each run explores sessions that use
  one of them, so that the features that interact meet (typing with the agent's edits,
  the agent's new files with moves in the tree, creating and moving and typing, creating
  and deploying and typing and searching), without the product of all. A project begins
  empty, as with the default template (`project_templates.py:19`), or with one file; from
  an empty one two files are made, which is what an answer that is older than another and
  misses a file needs.
- *ChatClient.* `MaxAwaited` limits only what the *user* starts while something is in
  flight; refreshes and loads the client starts itself come on top. With 1, the run has no
  two creates of one composer; the theorems do not depend on it.

## 4. Fairness

- `PlatformRun`: weak fairness of the generator and of the agent call together. The event
  loop resumes what is runnable, and an agent call ends because `run_text` wraps it in
  `asyncio.wait_for`. Nothing is assumed of the client or of crashes.
- `RagIngest`: a request that has begun is carried through, and a job that may start runs.
  Nobody has to upload or delete, nothing has to crash.
- `PreviewManager`: what the event loop or a timeout brings about. Not `npm install`, which
  has no timeout (`StartingEnds` says so), and not the exit of a server: a request returns
  because `wait_for` gives up and kills.
- `PhotoCanvas`: a delete that was sent is answered, with success or failure; `fetch`
  rejects when the connection is lost. Nothing is assumed of the user.
- The other modules state safety only. That the run-the-project loop ends follows from
  `BudgetsBound`, which leaves it no infinite execution, and not from fairness.

## 5. Disagreements with the documentation, and other reachable oddities

Three runs end in a violation of a sentence of the repository itself; the quotes and
lines are under `findings` in `PROJECT.json`.

1. *No retry of a file task* (`orchestrator.py:820`). The retry notice is yielded as a
   dict, the caller calls `to_sse()` on it, and the run fails.
2. *`processing` over `ready`* (`files.py:237`). With a Celery worker the handler may
   write its status after the job's, and polling never ends.
3. *Deploy empties files* (`code-workspace.tsx:942`). Every file of the project is saved
   first, and one that was never opened in the editor is saved as an empty text.

Reachable in the models, and the reason why some properties have a condition:

- With overlapping requests a preview server can be left that neither `stop` nor a new
  `start` will ever find (`manager.py:110`, `151`; `NoOrphanWithoutOverlap`).
- A session that writes a user row it loaded before another one's change loses charges, or
  keeps those of the old month (`token_usage.py:45-51`, `library_insights.py:104`; `outdated`).
- Overlapping requests leave "on canvas" marks of deleted generations (`overlapped`), and
  the automatic restore replaces what was drawn in its first 800 ms.
- A new draft tab can take over the project of the tab before, because the URL changes
  later than the tab (`photo-studio-app-page.tsx:412`): saving the draft then overwrites
  that project. `app-help-content.ts:42` calls it a local draft. `adopted` records it, and
  `OneTabPerWorkspace` says that nothing else makes a save go to another tab's project.
- The answer of a generation that comes while a save is awaited changes the canvas; the
  save then brings the older content back (`photo-studio-app-page.tsx:746-750`), and the
  next change of tabs loses the newer one (`overtaken`).
- The metadata keys of a document can be lost in either direction when a worker runs the
  job, and two jobs of one document can both index it (`ReadyIsIndexed` asks for both sides'
  keys in background mode only).
- The scan for a server started by a recovery covers earlier steps as well
  (`execution_orchestrator.py:131`), and a retry that fails in a new way ends the loop with
  plans left (391).
- Autosaves are not ordered: crossing exchanges can leave editor and server apart
  (`crossed`), and a structure autosave can drop a file created meanwhile (`overtaken`).
- Two refreshes of the tree may be answered in one order and arrive in the other
  (`code-workspace.tsx:394-408`): the editor then shows the older list, and its next
  structure autosave or deploy drops the newer file on the server. An instance whose
  project began with a file did not reach this, because only one more was made; the proof
  of `EveryFileKept` did. `overtaken` records such an answer.
- Conversations of the same title swap messages (`Twins`), a page that was left reactivates
  its conversation (`strayed`), and a question asked before its conversation is listed, or
  while the home page is still creating it and will empty it (`chat-navigation.ts:58`), can
  lose its answer on the screen (`hasty`). A question launched from the home page may be
  dropped by the page the user went to meanwhile (`launchSeq`).

## 6. Proofs

All constants are arbitrary within the assumptions of the modules; `MaxFix > 0` because
the code turns 0 into 3, `Costs` are positive because `run_text` falls back on an estimate,
`Estimate` is positive because the gateway never estimates less than 6000, and
`max_plan_cycles` is positive as its default is. `Questions` and `Answers` of
`TokenUsage` are not empty: they are the values the estimate of a text can take. `None` of
`CodeWorkspace` is neither a file, nor a text, nor the record of a change: it stands for
`undefined`.

Facts about sums and sequences, and that a set of numbers has a least element, are proved
without the induction theorems of the library (which take an operator as a parameter):
`<` on the naturals is well-founded (`NatLessThanWellFounded`), so if a claim failed for
some length there would be a least length for which it fails, and the step from the one
before refutes it. The functions concerned (`Totals`, `Keepings`, `Pages`) are
recursive functions, of which the proofs show once that they satisfy their equations.

**PlatformRunProofs**

- `TypeCorrect`: `Spec => []TypeOK`. The invariant `Shape` adds to the types what they
  need to be preserved: inside a stage `idx` is a position of the workflow, and
  `agentRuns` is not empty while a call is pending, so that the row the call settles
  exists.
- `ChargeIsForDelivery`: `ChargedOnlyForDelivery`, the part of the contract about the bill.
  It is not inductive, because nothing in
  it keeps a charged run from being charged again or failed; `Billing` says that a charged
  run is at `complete`, crashed, or done and completed, and that at `bill` the artifact
  exists and nothing has been charged.
- `AgentRunsSettle`: `NoAgentRunLeftRunning`. `Settling` says that a `running` row is the
  last one with its call pending, or belongs to a generator that is gone, that calls are
  pending only where the code waits for one, and that a finished run is at `done`.
- `NothingAfterTheEnd`: the action property `SettledStaysSettled`, from the same
  invariants: at a place where the run is over the only enabled steps are `AgentReturns`
  of an orphaned task and `Crash`.
- `RunKeepsContract`: `ImplementsContract`, the refinement of `RunContract`. `Phase` maps
  the row and the place of the generator to the phase of the run. It needs `Ledger` (a row
  exists from the first commit on, an artifact from its own), `Billing` and `Settling`.
  Most steps are stutters (`QuietKeepsContract`), failures map to `Fail` (`FailIsFail`),
  and a client that leaves maps to `Leave`, which the contract allows uncharged runs only.
- `TokensAreAccounted`: `AccountsForItsAgents`. The invariant `Books` says where a used
  token is at any moment: in the total, in the batch that is being added up, or in the call
  that has returned and not been read. The sum over the agent rows is `Total`; a row that
  is added or settled changes it by its own tokens.
- `CheckpointsInOrder`: `CheckpointsFollowStages`, with `Following`: at a turn of the stage
  loop the stage checkpoints are the plan up to it. Inline and unknown stages leave none,
  so the plan is the configuration filtered (`Kept`), and a prefix filtered is a prefix.

**CodeWorkspaceProofs: the editor**

Invariants about the editor are about what is on its way: a text in a buffer is right if
every call, timer and event that may still change the buffer or the server's copy agrees.

- `TypeCorrect`: `Spec => []TypeOK`, with `Shape`. `SoundCall` says that a call is about a
  file that exists and carries a text, and that a call about the tree carries nodes that
  exist, the open file among them, which the editor is going to open. `Known` bounds what
  changes, timers, deploy and agent refer to by the files that were born, and
  `Streamed` says that a stream carries edits of its own run that have been told, each file's
  first one, and `Done` last.
- `NoFileIsLost`: `EveryFileKept`, with `Kept`. Three things replace the server's list of
  nodes: a structure call, a deploy, and the next structure the editor sends. `Kept` says
  that the first two carry all nodes of the server, and that a node the editor lacks is
  announced: by an event of the stream that says `created`, by an edit of the run that has
  yet to be told, or by a call about the tree that has not been taken yet or has the node in
  its answer. The editor sends its list
  only when nothing can announce a node, so the list is complete (`EditorHasTree`).
- `BuffersShowTheServer`: `EditorShowsServer`, with `Showing`. For a file whose
  exchanges have not crossed, `Shows` says: writes carry the buffer's text; reads that were
  served carry the server's text, unless the buffer will ignore them or the agent has
  edited since; the last edit of a run is the server's text; a buffer whose edit has been
  delivered, with no other of the run to come, is too; and a buffer about which nothing but
  loads is on its way agrees with the server (`InStep`: it is the server's text, or the demo
  text while that is empty). A write is alone with its file (`Alone`), which is what not
  having crossed means.
- `RejectsUndo`: the action property `RejectUndoesEveryEdit`, with `Undoing`. `Undoes` says
  that an open change goes back to `original`; that, if none is open, the first edit of the
  file in the run was made from `original`, so that the change its arrival opens goes back
  there too, and that edit has yet to be delivered (`Owed`: it is in the stream, or not told
  yet); and that the read after the restoring save finds `original` on the server. `done`
  repeats every edit of the run, so what matters is the whole list and not what is left of
  the stream. A list of edits is folded into the page by a recursive
  function (`Pages`): `PagedAll` follows it one edit at a time, by the least length for
  which the claim fails, and `DeliversFacts` is the one lemma the invariants use of it.

The invariants were checked by TLC before they were proved.

**CodeWorkspaceProofs: the loop**

- `LoopTypeCorrect`: `LoopSpec => []LoopTypeOK`, with `LoopShape`: the stack is not empty
  while a plan is run, and every index below the top points at the step being recovered.
- `BudgetsHold`: `BudgetsBound`. `Budgets` counts: cycles bound the depth of the stack,
  and the steps executed beyond `MaxTotalSteps` are paid for by calls that have returned.
- `FailuresAskedOnce`: `NoFailureReplanned`. `Asked` relates cycles to the number of
  signatures, with one more signature than plans while a recovery is being asked for; it
  needs the cardinality of a finite set to grow by one with a new element.
- `SuccessIsEarned`: `SuccessMeansStepsRan`, with `Ran`: below the index of the outermost
  frame every step is a server's or its last execution succeeded. A new record is the last
  one of its own step and leaves those of the others, at whatever depth it was made.

**PreviewManagerProofs**

The steps are first sorted by what they do to a session: a request begins to wait for one
(`Waits`), a request is answered (`Answers`), `_run_session` goes on (`TaskStep`), a process
ends. `StepCases` says that there are no others, and each proof has one step per kind.

- `TypeCorrect`: `Spec => []TypeOK`. It needs `Shape`: a request that has not been answered
  has created no session (`Created`), and `Owning`, whose core is that a task that is not
  the registered one of the current session is over, that is, finished or cancelled.
- `StoppedStaysDead`: `StoppedIsDead`, inductive with `Shape`: a request stops a session
  whose task is over, and a task that is over starts no process.
- `EndedIsFinal`: the action property `EndedStaysEnded`. An ended session has a task that is
  over, and a cancelled task has no step left but its end.
- `NothingIsOrphaned`: `NoOrphanWithoutOverlap`, with `Alone`: without overlap at most one
  request is inside `stop`, and with the registered session. Both fail once requests
  overlap, and so does the property.

**PhotoCanvasProofs**

- `TypeCorrect`: `Spec => []TypeOK`.
- `OneGenerationOnCanvas`: `LayersMatchMaterialized`, with the same agreement of layers and
  mark in the snapshot that is being saved, from which the canvas may hydrate again.
- `HandMadeSurvivesAnswers`: the action property `AnswersKeepHandMade`. Each answer removes
  or adds generation layers only, on the layers as they are by then.
- `PanelIsConsistent`: `SequentialUseKeepsPanel`. While requests do not overlap, what a
  closure remembers is still true when it goes on.

**TokenUsageProofs**

- `TypeCorrect`: `Spec => []TypeOK`, with `Holding`: a request that is going to use the row
  it has loaded has one.
- `CounterExact`: `CounterIsExact`, with `Account`: nothing has been charged to a month
  after the row's period, so that a period that begins with 0 begins right. Every use of a
  row is one of `Rolls` and `Charges`, and the two lemmas about them are the proof.
- `OverdraftIsBounded`: `OverdraftBounded`, with `Overdraft`: the counter exceeds the limit
  by no more than what the turns of the peak may have cost that are not *through* any more.
  A turn is through when it has passed the check, or holds a row on which it will pass;
  the second half is needed because a chat turn may check a row loaded before others were
  charged. A turn that gets through on the present row starts from a counter within the
  limit, and one that is charged stops being through, so the peak pays for it.

**RagIngestProofs**

- `TypeCorrect`: `Spec => []TypeOK`.
- `RowKeepsItsFileAlways`: `RowKeepsItsFile`, from `BytesFirst`: the bytes are there before
  the row and before any step that inserts it.
- `DeletedForGood`: the action property `DeletedStaysDeleted`, from `DeletionIsLast`: a row
  can be deleted only after its request inserted it, and no request inserts twice; the jobs
  only update.
- `ReadyIsIndexedAlways`: `ReadyIsIndexed`, with `OneJobAfterTheAnswer`: in background mode
  there is one job, and it read the metadata after the handler had written them.

**PhotoTabsProofs**

A render runs through several effects. `RenderedFacts` sums them up once: after it the
mounted workspace has hydrated, and the page holds what it held, or what it was given for
the tab that is shown now. Everything else uses that lemma only.

- `TypeCorrect`: `Spec => []TypeOK`, with what is known while the page opens (`Opening`)
  and with the tabs a pending deletion remembers, from which it chooses the last one.
- `NoTabLosesItsWork`: `EveryTabKeepsItsWork`. What is shown is held in four places, the
  canvas, the snapshot, the latest one and the cache. `kept` is the work of a tab that no
  awaited save will overwrite. `Working` says that it
  is in the cache, that of the shown tab also on the canvas and in the latest snapshot, and
  that the workspace has hydrated: otherwise its next render would take the states of an
  older snapshot. `Awaiting` says that closures remember the tabs as they are.
- `TabsStayApart`: `OneTabPerWorkspace`, with `Distinct`: no tab has a workspace the server
  has yet to create; and `Owned`: the page's project is that of the shown tab, or the tab is
  a draft that has taken one. That a render keeps `Owned` is where the order of its effects
  matters.

**ChatClientProofs**

- `TypeCorrect`: `Spec => []TypeOK`, with `Shape`: the calls have their types, and whatever
  is listed or created belongs to a conversation that was born.
- `NoStrangersMessages`: `MessagesStayHome`, with `AtHome`, the same of the server's copies
  and of what the loads carry.
- `AddressIsShown`: `PageShowsItsAddress`, with `Address`: calls made by the page that is
  shown are about its conversation.
- `NoAnswerIsLost`: `AnswersFindTheirQuestion`. `Answering` follows a question from the call
  that asks it to the server, to a load and to the store (`Bound`). In a conversation that
  is not deleted and has no twin (`Followed`): as long as anything knows of the question,
  its conversation is listed and not empty and no launch is going to empty it (`Settled`),
  and in the store the place of its answer is filled or looked after by a call (`Answered`).
  While this was being proved the exception `hasty` turned out to be too wide: it also
  excused questions asked while a load or a list was in flight, which the code loses none
  of. It now covers only questions asked before their conversation was listed or while its
  launch was under way.

**Model-checked only.** Liveness (`RunFinishes`, `PollingEndsInBackground`,
`RequestsReturn`, `StartingEnds`, `DeleteButtonReturns`), because fairness is out of the
prover's reach. Every other property of a passing run, each invariant, action property and
the refinement, is a theorem.

## 7. Assumptions, and what is not modelled

Assumptions common to the models of the client: one signed-in user, one browser tab, and
the server's read-modify-writes of one row taken as one step (the session effects are
the subject of `RagIngest` and `TokenUsage`).

Not modelled:

- The orchestration package (tools and providers called in a loop of LangGraph's), the
  routing, planning and review of the Clovops pipeline and its paused sessions, what a run
  still writes after the browser has lost its connection, the log stream of previews, the
  contents of chat turns and the rate limiter: candidates of section 8.
- Authentication, crawl, photo studio services, project planning, library and
  configuration endpoints: one request, one row.
- Prompt building, templates, parsing of answers, provider wrappers: text.
- Schema and migrations: declarations; the modules model the columns they use.
- The rendering parts of the web client: most of `src/Orbit_UI` is markup, styling,
  geometry of canvas tools, static content and forms that make one request. The protocols
  of its four largest applications with the server are modelled; the markup around them
  has no state over several steps that a model could say anything about, so the share of
  the client's lines that the map covers is small.

## 8. Plan

In order of importance:

1. `PreviewStream`: the log ring and `stream_events` of one session.
2. `ClovopsHitl`: pause and resume of the agent of a code workspace project.
3. The server's side of a chat turn: two turns on one conversation, disconnection.
4. `RateLimiter`: the window never admits more than its limit.

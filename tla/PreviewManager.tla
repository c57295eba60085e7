--------------------------- MODULE PreviewManager ---------------------------
(***************************************************************************)
(* The preview servers of one generated project: PreviewManager and the    *)
(* start and stop endpoints that call it.  Everything runs on one event    *)
(* loop, so an action below is the code between two awaits; what is awaited*)
(* is the end of a cancelled task or of a process, and that is where other *)
(* requests for the same project get in.  A session is named after the     *)
(* start request that created it; sessions of other projects live under    *)
(* other keys of the same dicts and share nothing but the port range.      *)
(***************************************************************************)
EXTENDS Naturals, FiniteSets

CONSTANTS
    Requests,   \* the start and stop requests made for the project
    NoSession   \* None

ASSUME NoSessionAssumption == NoSession \notin Requests

VARIABLES
    stack,      \* what detect_preview_stack finds in the workspace
    current,    \* _sessions.get(run_id)
    owned,      \* _tasks.get(run_id)
    status,     \* PreviewSession.status of each session
    proc,       \* PreviewSession.process
    task,       \* where _run_session of each session is
    cancelled,  \* the tasks cancel() has been called on
    req,        \* where each request is
    overlapped  \* history: a request began while another was in stop()

vars == <<stack, current, owned, status, proc, task, cancelled, req, overlapped>>

Sessions == Requests
Live == {"alive", "term", "kill"}       \* process.returncode is None
Kinds == {"start", "stop"}

InStop == {r \in Requests : req[r].at \in {"task", "exit"}}

Idle == [at |-> "idle", kind |-> "stop", session |-> NoSession, task |-> NoSession]

Init ==
    /\ stack \in {"node", "static"}
    /\ current = NoSession
    /\ owned = NoSession
    /\ status = [s \in Sessions |-> "none"]
    /\ proc = [s \in Sessions |-> "none"]
    /\ task = [s \in Sessions |-> "none"]
    /\ cancelled = {}
    /\ req = [r \in Requests |-> Idle]
    /\ overlapped = FALSE

-----------------------------------------------------------------------------
(* stop(), and the rest of start() after its own call of stop().           *)

Request(r, at, k, s, t) ==
    req' = [req EXCEPT ![r] = [at |-> at, kind |-> k, session |-> s, task |-> t]]

\* Nothing is awaited between the end of stop() and the answer: a start
\* request registers its session, unless the workspace is gone.
Answer(r, k, s, st, ow) ==
    /\ Request(r, "done", k, s, NoSession)
    /\ \/ /\ current' = NoSession
          /\ status' = st
          /\ owned' = ow
          /\ UNCHANGED task
       \/ /\ k = "start" /\ stack = "static"
          /\ current' = r
          /\ status' = [st EXCEPT ![r] = "running"]
          /\ owned' = ow
          /\ UNCHANGED task
       \/ /\ k = "start" /\ stack = "node"
          /\ current' = r
          /\ status' = [st EXCEPT ![r] = "starting"]
          /\ owned' = r
          /\ task' = [task EXCEPT ![r] = "new"]

\* The session the request found is marked, whichever is popped.
Stopped(r, k, s, ow) == Answer(r, k, s, [status EXCEPT ![s] = "stopped"], ow)

\* terminate() and wait, or nothing to wait for.
TerminateProcess(r, k, s, ow) ==
    \/ /\ proc[s] \in Live
       /\ proc' = [proc EXCEPT ![s] = IF @ = "alive" THEN "term" ELSE @]
       /\ Request(r, "exit", k, s, NoSession)
       /\ owned' = ow
       /\ UNCHANGED <<current, status, task>>
    \/ /\ proc[s] \notin Live
       /\ Stopped(r, k, s, ow)
       /\ UNCHANGED proc

Begin(r) ==
    /\ req[r].at = "idle"
    /\ overlapped' = (overlapped \/ InStop # {})
    /\ UNCHANGED stack

BeginWithoutSession(r) ==
    /\ Begin(r) /\ current = NoSession
    /\ \E k \in Kinds : Answer(r, k, NoSession, status, owned)
    /\ UNCHANGED <<proc, cancelled>>

\* The task is popped and cancelled before it is awaited.
BeginByCancelling(r) ==
    /\ Begin(r) /\ current # NoSession
    /\ owned # NoSession /\ task[owned] # "done"
    /\ cancelled' = cancelled \union {owned}
    /\ \E k \in Kinds : Request(r, "task", k, current, owned)
    /\ owned' = NoSession
    /\ UNCHANGED <<current, status, proc, task>>

\* No task: it is over, there never was one, or another request popped it.
BeginByTerminating(r) ==
    /\ Begin(r) /\ current # NoSession
    /\ owned # NoSession => task[owned] = "done"
    /\ \E k \in Kinds : TerminateProcess(r, k, current, NoSession)
    /\ UNCHANGED cancelled

\* Variant: the process is left to the task, which does not stop it.
TaskOverLeavesProcess(r) ==
    /\ req[r].at = "task" /\ task[req[r].task] = "done"
    /\ Stopped(r, req[r].kind, req[r].session, owned)
    /\ UNCHANGED <<stack, proc, cancelled, overlapped>>

TaskOver(r) ==
    /\ req[r].at = "task" /\ task[req[r].task] = "done"
    /\ TerminateProcess(r, req[r].kind, req[r].session, owned)
    /\ UNCHANGED <<stack, cancelled, overlapped>>

ProcessGone(r) ==
    /\ req[r].at = "exit" /\ proc[req[r].session] \notin Live
    /\ Stopped(r, req[r].kind, req[r].session, owned)
    /\ UNCHANGED <<stack, proc, cancelled, overlapped>>

\* Variant: the timeout is taken for the end of the process.
GiveUpWaiting(r) ==
    /\ req[r].at = "exit" /\ proc[req[r].session] \in Live
    /\ Stopped(r, req[r].kind, req[r].session, owned)
    /\ UNCHANGED <<stack, proc, cancelled, overlapped>>

\* wait_for(process.wait(), 5) timed out; the killed process is not awaited.
KillProcess(r) ==
    /\ req[r].at = "exit" /\ proc[req[r].session] \in Live
    /\ proc' = [proc EXCEPT ![req[r].session] = "kill"]
    /\ Stopped(r, req[r].kind, req[r].session, owned)
    /\ UNCHANGED <<stack, cancelled, overlapped>>

-----------------------------------------------------------------------------
(* _run_session.                                                           *)

UnchangedByTasks == UNCHANGED <<stack, current, owned, cancelled, req, overlapped>>

Goto(s, at) == task' = [task EXCEPT ![s] = at]
Mark(s, st) == status' = [status EXCEPT ![s] = st]

\* A task cancelled before its first step never enters the coroutine.
TaskBegins(s) ==
    /\ task[s] = "new"
    /\ \/ s \in cancelled /\ Goto(s, "done")
       \/ s \notin cancelled /\ \E at \in {"install", "spawn"} : Goto(s, at)
    /\ UNCHANGED <<status, proc>> /\ UnchangedByTasks

\* npm install has no timeout.
InstallEnds(s) ==
    /\ task[s] = "install" /\ s \notin cancelled
    /\ \/ Goto(s, "spawn") /\ UNCHANGED status
       \/ Goto(s, "done") /\ Mark(s, "failed")
    /\ UNCHANGED proc /\ UnchangedByTasks

ServerSpawned(s) ==
    /\ task[s] = "spawn" /\ s \notin cancelled
    /\ \/ /\ proc' = [proc EXCEPT ![s] = "alive"]
          /\ Goto(s, "port")
          /\ UNCHANGED status
       \/ /\ Goto(s, "done") /\ Mark(s, "failed")
          /\ UNCHANGED proc
    /\ UnchangedByTasks

\* Variant: the polling loop swallows the CancelledError.
PortAnswersAnyway(s) ==
    /\ task[s] = "port"
    /\ Mark(s, "running")
    /\ Goto(s, "pump")
    /\ UNCHANGED proc /\ UnchangedByTasks

\* Any listener on the port will do, so the process may have ended.
PortAnswers(s) ==
    /\ task[s] = "port" /\ s \notin cancelled
    /\ Mark(s, "running")
    /\ Goto(s, "pump")
    /\ UNCHANGED proc /\ UnchangedByTasks

\* Variant: a status nobody knows.
PortTimeoutNamed(s) ==
    /\ task[s] = "port" /\ s \notin cancelled
    /\ proc' = [proc EXCEPT ![s] = IF @ = "alive" THEN "term" ELSE @]
    /\ Mark(s, "timeout")
    /\ Goto(s, "done")
    /\ UnchangedByTasks

\* Variant: the timeout is only logged.
PortTimeoutLogged(s) ==
    /\ task[s] = "port" /\ s \notin cancelled
    /\ proc' = [proc EXCEPT ![s] = IF @ = "alive" THEN "term" ELSE @]
    /\ Goto(s, "done")
    /\ UNCHANGED status /\ UnchangedByTasks

\* terminate(), without waiting for the process.
PortTimeout(s) ==
    /\ task[s] = "port" /\ s \notin cancelled
    /\ proc' = [proc EXCEPT ![s] = IF @ = "alive" THEN "term" ELSE @]
    /\ Mark(s, "failed")
    /\ Goto(s, "done")
    /\ UnchangedByTasks

\* Both pipes are at their end.  The exit code may not be known yet, and
\* `returncode or 0` then makes a crash look like a clean exit.
ServerEnds(s) ==
    /\ task[s] = "pump" /\ s \notin cancelled /\ proc[s] \notin Live
    /\ \E st \in {"stopped", "failed"} : Mark(s, st)
    /\ Goto(s, "done")
    /\ UNCHANGED proc /\ UnchangedByTasks

\* Variant: the install is not interrupted.
TaskCancelledAfterInstall(s) ==
    /\ task[s] \in {"spawn", "port", "pump"} /\ s \in cancelled
    /\ Mark(s, "stopped")
    /\ Goto(s, "done")
    /\ UNCHANGED proc /\ UnchangedByTasks

\* Delivered at the await the task is at; a process that is being spawned is
\* closed by asyncio, and npm install goes on without anybody reading it.
TaskCancelled(s) ==
    /\ task[s] \in {"install", "spawn", "port", "pump"} /\ s \in cancelled
    /\ Mark(s, "stopped")
    /\ Goto(s, "done")
    /\ UNCHANGED proc /\ UnchangedByTasks

\* The server ends by itself, by SIGTERM or by SIGKILL.
ProcessExits(s) ==
    /\ proc[s] \in Live
    /\ proc' = [proc EXCEPT ![s] = "dead"]
    /\ UNCHANGED <<status, task>> /\ UnchangedByTasks

-----------------------------------------------------------------------------
Begins(r) == BeginWithoutSession(r) \/ BeginByCancelling(r) \/ BeginByTerminating(r)
Continues(r) == TaskOver(r) \/ ProcessGone(r) \/ KillProcess(r)

\* What the event loop or a timeout brings about, and what nothing bounds.
Driven(s) == TaskBegins(s) \/ ServerSpawned(s) \/ PortAnswers(s) \/ PortTimeout(s)
             \/ TaskCancelled(s)
Unbounded(s) == InstallEnds(s) \/ ServerEnds(s) \/ ProcessExits(s)

Next == \/ \E r \in Requests : Begins(r) \/ Continues(r)
        \/ \E s \in Sessions : Driven(s) \/ Unbounded(s)

Spec == Init /\ [][Next]_vars

\* The event loop resumes what is runnable, wait_for has timeouts; npm install
\* and a running server have none.
FairSpec == /\ Spec
            /\ \A r \in Requests : WF_vars(Continues(r))
            /\ \A s \in Sessions : WF_vars(Driven(s))
-----------------------------------------------------------------------------
(* Properties.                                                             *)

Nullable == Requests \union {NoSession}
RequestType == [at : {"idle", "task", "exit", "done"}, kind : Kinds,
                session : Nullable, task : Nullable]

\* Every variable has the type of the attribute or local it stands for.
TypeOK ==
    /\ stack \in {"node", "static"}
    /\ current \in Nullable
    /\ owned \in Nullable
    /\ status \in [Sessions -> {"none", "starting", "running", "failed", "stopped"}]
    /\ proc \in [Sessions -> {"none", "dead"} \union Live]
    /\ task \in [Sessions -> {"none", "new", "install", "spawn", "port", "pump", "done"}]
    /\ cancelled \subseteq Sessions
    /\ req \in [Requests -> RequestType]
    /\ overlapped \in BOOLEAN

\* A preview that was reported stopped or failed is never reported starting or
\* running again: no task outruns the cancellation of a stop it overlapped with.
EndedStaysEnded ==
    [][\A s \in Sessions : status[s] \in {"stopped", "failed"} =>
          status'[s] \in {"stopped", "failed"}]_vars

\* When a request that found a session has been answered, that session's server
\* is dead or killed and its task can start no other, whoever else was stopping it.
StoppedIsDead ==
    \A r \in Requests :
        req[r].at = "done" /\ req[r].session # NoSession =>
            /\ proc[req[r].session] \in {"none", "kill", "dead"}
            /\ task[req[r].session] \in {"none", "done"} \/ req[r].session \in cancelled

\* As long as no two requests for the project overlap, a server that has not
\* been told to end, or a task that may start one, belongs to the session that
\* stop() would find: nothing is left running that no request can reach.
NoOrphanWithoutOverlap ==
    ~overlapped =>
        \A s \in Sessions :
            \/ proc[s] = "alive"
            \/ task[s] \notin {"none", "done"} /\ s \notin cancelled
            => s = current

\* Every start or stop request is answered: the awaits of stop() end whatever
\* the task was doing and whether or not the server reacts to SIGTERM.
RequestsReturn == \A r \in Requests : req[r].at \in {"task", "exit"} ~> req[r].at = "done"

\* A session does not stay "starting" unless npm install does not come back.
StartingEnds ==
    \A s \in Sessions :
        status[s] = "starting" ~> status[s] # "starting" \/ task[s] = "install"
=============================================================================

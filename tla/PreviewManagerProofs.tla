----------------------- MODULE PreviewManagerProofs -----------------------
(***************************************************************************)
(* Theorems about PreviewManager, for every set of requests.               *)
(*                                                                         *)
(* Created says which sessions exist, Owning how sessions, tasks and       *)
(* requests refer to each other; with the types they make the safety       *)
(* properties inductive.                                                   *)
(***************************************************************************)
EXTENDS PreviewManager, TLAPS

\* The task of the session will start no server any more.
Over(s) == task[s] \in {"none", "done"} \/ s \in cancelled

\* A request that has not been answered has created no session yet.
Fresh(r) == /\ task[r] = "none" /\ status[r] = "none" /\ proc[r] = "none"
            /\ r \notin cancelled /\ current # r /\ owned # r

Created == /\ \A r \in Requests : req[r].at # "done" => Fresh(r)
           /\ \A q, r \in Requests : req[q].session = r => req[r].at = "done"

\* The session a request is stopping is registered, or was, and is over.
Stopping(r) == req[r].session \in Sessions /\ Over(req[r].session)

\* A task that is not the registered one of the current session is over.
Owning == /\ current # NoSession => owned \in {NoSession, current}
          /\ stack = "static" => owned = NoSession
          /\ \A s \in Sessions : s = current /\ s # owned => Over(s)
          /\ \A s \in Sessions : ~Over(s) => status[s] \in {"starting", "running"}
          /\ \A r \in InStop : Stopping(r)

Shape == TypeOK /\ Created /\ Owning

-----------------------------------------------------------------------------
\* Before the first request there is nothing to relate.
LEMMA InitShape == Init => Shape
<1> SUFFICES ASSUME Init PROVE Shape
  OBVIOUS
<1>1. \A r \in Requests : req[r] = Idle /\ task[r] = "none" /\ status[r] = "none"
                          /\ proc[r] = "none"
  BY DEF Init, Sessions
<1>2. Idle \in RequestType /\ Idle.at = "idle" /\ Idle.session = NoSession
  BY DEF Idle, RequestType, Nullable, Kinds
<1>3. TypeOK
  BY <1>2 DEF Init, TypeOK, Nullable, Sessions
<1>4. Created
  BY <1>1, <1>2, NoSessionAssumption DEF Init, Created, Fresh
<1>5. Owning
  BY <1>1, <1>2, NoSessionAssumption DEF Init, Owning, Over, InStop, Sessions
<1> QED
  BY <1>3, <1>4, <1>5 DEF Shape

Statuses == {"none", "starting", "running", "failed", "stopped"}

\* Whatever stop() found, an answer leaves the types as they are.
LEMMA AnswerTypes ==
    ASSUME TypeOK, NEW r \in Requests, NEW k \in Kinds, NEW s \in Nullable,
           NEW st \in [Sessions -> Statuses], NEW ow \in Nullable,
           Answer(r, k, s, st, ow)
    PROVE  /\ current' \in Nullable /\ owned' \in Nullable
           /\ status' \in [Sessions -> Statuses]
           /\ task' \in [Sessions -> {"none", "new", "install", "spawn", "port", "pump", "done"}]
           /\ req' \in [Requests -> RequestType]
<1>1. req' \in [Requests -> RequestType]
  BY DEF TypeOK, Answer, Request, RequestType, Nullable
<1>2. current' \in Nullable /\ owned' \in Nullable
  BY DEF Answer, Nullable
<1>3. status' \in [Sessions -> Statuses]
  BY DEF Answer, Statuses
<1>4. task' \in [Sessions -> {"none", "new", "install", "spawn", "port", "pump", "done"}]
  BY DEF TypeOK, Answer
<1> QED
  BY <1>1, <1>2, <1>3, <1>4

\* The same for stop() from terminate() on.
LEMMA TerminateTypes ==
    ASSUME TypeOK, NEW r \in Requests, NEW k \in Kinds, NEW s \in Sessions,
           NEW ow \in Nullable, TerminateProcess(r, k, s, ow)
    PROVE  /\ current' \in Nullable /\ owned' \in Nullable
           /\ status' \in [Sessions -> Statuses]
           /\ task' \in [Sessions -> {"none", "new", "install", "spawn", "port", "pump", "done"}]
           /\ req' \in [Requests -> RequestType]
           /\ proc' \in [Sessions -> {"none", "dead"} \union Live]
<1>1. CASE proc[s] \in Live /\ Request(r, "exit", k, s, NoSession) /\ owned' = ow
           /\ proc' = [proc EXCEPT ![s] = IF @ = "alive" THEN "term" ELSE @]
           /\ UNCHANGED <<current, status, task>>
  <2>1. req' \in [Requests -> RequestType]
    BY <1>1 DEF TypeOK, Request, RequestType, Nullable, Sessions
  <2>2. proc' \in [Sessions -> {"none", "dead"} \union Live]
    BY <1>1 DEF TypeOK, Live
  <2> QED
    BY <1>1, <2>1, <2>2 DEF TypeOK, Statuses
<1>2. CASE proc[s] \notin Live /\ Stopped(r, k, s, ow) /\ UNCHANGED proc
  <2>1. [status EXCEPT ![s] = "stopped"] \in [Sessions -> Statuses] /\ s \in Nullable
    BY DEF TypeOK, Statuses, Nullable, Sessions
  <2>2. Answer(r, k, s, [status EXCEPT ![s] = "stopped"], ow)
    BY <1>2 DEF Stopped
  <2> QED
    BY <1>2, <2>1, <2>2, AnswerTypes DEF TypeOK
<1> QED
  BY <1>1, <1>2 DEF TerminateProcess

\* Every step keeps the types; Shape gives a waiting request its session.
LEMMA StepTypes == Shape /\ [Next]_vars => TypeOK'
<1> SUFFICES ASSUME Shape, [Next]_vars PROVE TypeOK'
  OBVIOUS
<1>t. TypeOK
  BY DEF Shape
<1>i. ASSUME NEW r \in InStop
      PROVE  r \in Requests /\ req[r].session \in Sessions /\ req[r].kind \in Kinds
  BY DEF Shape, TypeOK, Owning, Stopping, InStop, RequestType
<1>1. CASE UNCHANGED vars
  BY <1>1, <1>t DEF vars, TypeOK, Nullable
<1>2. ASSUME NEW r \in Requests, BeginWithoutSession(r) PROVE TypeOK'
  <2>1. PICK k \in Kinds : Answer(r, k, NoSession, status, owned)
    BY <1>2 DEF BeginWithoutSession
  <2>2. NoSession \in Nullable /\ status \in [Sessions -> Statuses] /\ owned \in Nullable
    BY <1>t DEF TypeOK, Statuses, Nullable
  <2> QED
    BY <1>2, <1>t, <2>1, <2>2, AnswerTypes DEF TypeOK, BeginWithoutSession, Begin,
       Nullable, Statuses
<1>3. ASSUME NEW r \in Requests, BeginByCancelling(r) PROVE TypeOK'
  <2>1. req' \in [Requests -> RequestType]
    BY <1>3, <1>t DEF TypeOK, BeginByCancelling, Request, RequestType
  <2> QED
    BY <1>3, <1>t, <2>1 DEF TypeOK, BeginByCancelling, Begin, Nullable, Sessions
<1>4. ASSUME NEW r \in Requests, BeginByTerminating(r) PROVE TypeOK'
  <2>1. PICK k \in Kinds : TerminateProcess(r, k, current, NoSession)
    BY <1>4 DEF BeginByTerminating
  <2>2. NoSession \in Nullable /\ current \in Sessions
    BY <1>4, <1>t DEF TypeOK, BeginByTerminating, Nullable, Sessions
  <2> QED
    BY <1>4, <1>t, <2>1, <2>2, TerminateTypes DEF TypeOK, BeginByTerminating, Begin, Statuses
<1>5. ASSUME NEW r \in Requests, TaskOver(r) PROVE TypeOK'
  <2>1. r \in InStop /\ owned \in Nullable
    BY <1>5, <1>t DEF TaskOver, InStop, TypeOK
  <2> QED
    BY <1>5, <1>t, <1>i, <2>1, TerminateTypes DEF TypeOK, TaskOver, Statuses
<1>6. ASSUME NEW r \in Requests, ProcessGone(r) \/ KillProcess(r) PROVE TypeOK'
  <2>1. r \in InStop /\ owned \in Nullable
    BY <1>6, <1>t DEF ProcessGone, KillProcess, InStop, TypeOK
  <2>2. /\ [status EXCEPT ![req[r].session] = "stopped"] \in [Sessions -> Statuses]
        /\ req[r].session \in Nullable
    BY <1>i, <1>t, <2>1 DEF TypeOK, Statuses, Nullable, Sessions
  <2>3. Answer(r, req[r].kind, req[r].session,
               [status EXCEPT ![req[r].session] = "stopped"], owned)
    BY <1>6 DEF ProcessGone, KillProcess, Stopped
  <2>4. proc' \in [Sessions -> {"none", "dead"} \union Live]
    BY <1>6, <1>t, <1>i, <2>1 DEF ProcessGone, KillProcess, TypeOK, Live
  <2>5. UNCHANGED <<stack, cancelled, overlapped>>
    BY <1>6 DEF ProcessGone, KillProcess
  <2> QED
    BY <1>t, <1>i, <2>1, <2>2, <2>3, <2>4, <2>5, AnswerTypes DEF TypeOK, Statuses
<1>7. ASSUME NEW s \in Sessions, Driven(s) PROVE TypeOK'
  <2> USE <1>t DEF TypeOK, Goto, Mark, UnchangedByTasks, Nullable
  <2>1. CASE TaskBegins(s)
    BY <2>1 DEF TaskBegins
  <2>2. CASE ServerSpawned(s)
    BY <2>2 DEF ServerSpawned, Live
  <2>3. CASE PortAnswers(s)
    BY <2>3 DEF PortAnswers
  <2>4. CASE PortTimeout(s)
    BY <2>4 DEF PortTimeout, Live
  <2>5. CASE TaskCancelled(s)
    BY <2>5 DEF TaskCancelled
  <2> QED
    BY <1>7, <2>1, <2>2, <2>3, <2>4, <2>5 DEF Driven
<1>8. ASSUME NEW s \in Sessions, Unbounded(s) PROVE TypeOK'
  <2> USE <1>t DEF TypeOK, Goto, Mark, UnchangedByTasks, Nullable
  <2>1. CASE InstallEnds(s)
    BY <2>1 DEF InstallEnds
  <2>2. CASE ServerEnds(s)
    BY <2>2 DEF ServerEnds
  <2>3. CASE ProcessExits(s)
    BY <2>3 DEF ProcessExits
  <2> QED
    BY <1>8, <2>1, <2>2, <2>3 DEF Unbounded
<1> QED
  BY <1>1, <1>2, <1>3, <1>4, <1>5, <1>6, <1>7, <1>8 DEF Next, Begins, Continues

-----------------------------------------------------------------------------
(* What the steps have in common.                                          *)

\* Where the session comes from that a request stops.
Found(r, s) ==
    /\ req[r].at # "done"
    /\ s = current \/ (r \in InStop /\ s = req[r].session)
    /\ s \in Sessions => req[s].at = "done"
    /\ ~overlapped' => ~overlapped /\ (InStop = {} \/ r \in InStop)
    /\ UNCHANGED stack

\* The request waits for the task or the process of the session.
Waits(r, s) ==
    /\ Found(r, s) /\ s \in Sessions
    /\ \E at \in {"task", "exit"}, k \in Kinds, t \in Nullable : Request(r, at, k, s, t)
    /\ UNCHANGED owned \/ (owned' = NoSession /\ s = current)
    /\ cancelled \subseteq cancelled' /\ cancelled' \subseteq cancelled \union {s}
    /\ task[s] \in {"none", "done"} \/ s \in cancelled'
    /\ \E p \in {"none", "dead"} \union Live :
          /\ proc' = [proc EXCEPT ![s] = p]
          /\ p = proc[s] \/ (proc[s] = "alive" /\ p = "term")
    /\ UNCHANGED <<current, status, task>>

\* The request is answered: the session it found, if any, is over for good.
Answers(r, s) ==
    /\ Found(r, s) /\ s \in Nullable
    /\ \E k \in Kinds, ow \in {owned, NoSession}, st \in [Sessions -> Statuses] :
          /\ Answer(r, k, s, st, ow)
          /\ \A q \in Sessions : st[q] = IF q = s THEN "stopped" ELSE status[q]
    /\ s \in Sessions => Over(s) /\ proc'[s] \in {"none", "kill", "dead"}
    /\ \A q \in Sessions \ {s} : proc'[q] = proc[q]
    /\ UNCHANGED cancelled

\* A step of _run_session; a cancelled one can only end.
TaskStep(s) ==
    /\ task[s] \notin {"none", "done"}
    /\ \E at \in {"install", "spawn", "port", "pump", "done"}, st \in Statuses,
          p \in {"none", "dead"} \union Live :
          /\ task' = [task EXCEPT ![s] = at]
          /\ status' = [status EXCEPT ![s] = st]
          /\ proc' = [proc EXCEPT ![s] = p]
          /\ s \in cancelled => at = "done" /\ st \in {status[s], "stopped"} /\ p = proc[s]
          /\ at # "done" => st \in {status[s], "running"}
    /\ UnchangedByTasks

\* From terminate() on, stop() waits for the process or lets the request answer.
LEMMA TerminateCases ==
    ASSUME Shape, NEW r \in Requests, NEW k \in Kinds, NEW s \in Sessions,
           NEW ow \in {owned, NoSession}, TerminateProcess(r, k, s, ow),
           Found(r, s), Over(s), ow = owned \/ s = current, UNCHANGED cancelled
    PROVE  Waits(r, s) \/ Answers(r, s)
<1>t. TypeOK
  BY DEF Shape
<1>1. CASE proc[s] \in Live /\ Request(r, "exit", k, s, NoSession) /\ owned' = ow
           /\ proc' = [proc EXCEPT ![s] = IF @ = "alive" THEN "term" ELSE @]
           /\ UNCHANGED <<current, status, task>>
  <2> DEFINE p == IF proc[s] = "alive" THEN "term" ELSE proc[s]
  <2>1. p \in {"none", "dead"} \union Live /\ proc' = [proc EXCEPT ![s] = p]
    BY <1>1, <1>t DEF TypeOK, Live
  <2>2. NoSession \in Nullable
    BY DEF Nullable
  <2> QED
    BY <1>1, <2>1, <2>2 DEF Waits, Over
<1>2. CASE proc[s] \notin Live /\ Stopped(r, k, s, ow) /\ UNCHANGED proc
  <2> DEFINE st == [status EXCEPT ![s] = "stopped"]
  <2>1. st \in [Sessions -> Statuses]
        /\ \A q \in Sessions : st[q] = IF q = s THEN "stopped" ELSE status[q]
    BY <1>t DEF TypeOK, Statuses
  <2>2. proc[s] \in {"none", "kill", "dead"}
    BY <1>2, <1>t DEF TypeOK, Live
  <2>3. Answer(r, k, s, st, ow)
    BY <1>2 DEF Stopped
  <2>4. s \in Nullable
    BY DEF Nullable, Sessions
  <2> HIDE DEF st
  <2> QED
    BY <1>2, <2>1, <2>2, <2>3, <2>4 DEF Answers
<1> QED
  BY <1>1, <1>2 DEF TerminateProcess

\* A request begins with the session that is registered.
LEMMA BeginFinds ==
    ASSUME Shape, NEW r \in Requests, Begin(r)
    PROVE  Found(r, current) /\ (current # NoSession => current \in Sessions)
<1>1. req[r].at # "done"
  BY DEF Begin
<1>2. current \in Sessions => req[current].at = "done"
  BY DEF Shape, Created, Fresh, Sessions
<1>3. current # NoSession => current \in Sessions
  BY DEF Shape, TypeOK, Nullable, Sessions
<1>4. ~overlapped' => ~overlapped /\ InStop = {}
  BY DEF Shape, TypeOK, Begin
<1> QED
  BY <1>1, <1>2, <1>3, <1>4 DEF Found, Begin

\* A request goes on with the session it found.
LEMMA ContinueFinds ==
    ASSUME Shape, NEW r \in InStop, UNCHANGED <<stack, overlapped>>
    PROVE  /\ Found(r, req[r].session) /\ Over(req[r].session)
           /\ r \in Requests /\ req[r].session \in Sessions /\ req[r].kind \in Kinds
<1>1. r \in Requests /\ req[r].at # "done"
  BY DEF InStop
<1>2. req[r].kind \in Kinds
  BY <1>1 DEF Shape, TypeOK, RequestType
<1>3. req[r].session \in Sessions /\ Over(req[r].session)
  BY DEF Shape, Owning, Stopping
<1>4. req[req[r].session].at = "done"
  BY <1>1, <1>3 DEF Shape, Created, Sessions
<1> QED
  BY <1>1, <1>2, <1>3, <1>4 DEF Found

\* There are no steps of other kinds: requests wait or are answered, tasks go
\* on, processes end.
LEMMA StepCases ==
    ASSUME Shape, [Next]_vars
    PROVE  \/ UNCHANGED vars
           \/ \E r \in Requests : \E s \in Nullable : Waits(r, s) \/ Answers(r, s)
           \/ \E s \in Sessions : TaskStep(s) \/ ProcessExits(s)
<1>t. TypeOK
  BY DEF Shape
<1> DEFINE Goal == \E q \in Requests : \E s \in Nullable : Waits(q, s) \/ Answers(q, s)
<1>1. ASSUME NEW r \in Requests, BeginWithoutSession(r) PROVE Goal
  <2>1. PICK k \in Kinds : Answer(r, k, NoSession, status, owned)
    BY <1>1 DEF BeginWithoutSession
  <2>2. Found(r, NoSession)
    BY <1>1, BeginFinds DEF BeginWithoutSession
  <2>3. status \in [Sessions -> Statuses]
    BY <1>t DEF TypeOK, Statuses
  <2>4. NoSession \in Nullable /\ NoSession \notin Sessions
    BY NoSessionAssumption DEF Nullable, Sessions
  <2>5. UNCHANGED <<proc, cancelled>>
    BY <1>1 DEF BeginWithoutSession
  <2>6. Answers(r, NoSession)
    BY <2>1, <2>2, <2>3, <2>4, <2>5 DEF Answers
  <2> QED
    BY <2>4, <2>6
<1>2. ASSUME NEW r \in Requests, BeginByCancelling(r) PROVE Goal
  <2>1. Found(r, current) /\ current \in Sessions
    BY <1>2, BeginFinds DEF BeginByCancelling
  <2>2. owned = current
    BY <1>2 DEF BeginByCancelling, Shape, Owning
  <2>3. PICK k \in Kinds : Request(r, "task", k, current, owned)
    BY <1>2 DEF BeginByCancelling
  <2>4. proc[current] \in {"none", "dead"} \union Live
        /\ proc' = [proc EXCEPT ![current] = proc[current]]
    BY <1>2, <1>t, <2>1 DEF BeginByCancelling, TypeOK
  <2>5. owned \in Nullable /\ current \in Nullable
    BY <1>t DEF TypeOK
  <2>6. /\ cancelled' = cancelled \union {current}
        /\ owned' = NoSession /\ UNCHANGED <<current, status, task>>
    BY <1>2, <2>2 DEF BeginByCancelling
  <2>7. Waits(r, current)
    BY <2>1, <2>3, <2>4, <2>5, <2>6 DEF Waits
  <2> QED
    BY <2>5, <2>7
<1>3. ASSUME NEW r \in Requests, BeginByTerminating(r) PROVE Goal
  <2>1. Found(r, current) /\ current \in Sessions
    BY <1>3, BeginFinds DEF BeginByTerminating
  <2>2. PICK k \in Kinds : TerminateProcess(r, k, current, NoSession)
    BY <1>3 DEF BeginByTerminating
  <2>3. Over(current)
    BY <1>3, <2>1 DEF BeginByTerminating, Shape, Owning, Over
  <2>4. UNCHANGED cancelled
    BY <1>3 DEF BeginByTerminating
  <2>5. current \in Nullable
    BY <1>t DEF TypeOK
  <2> QED
    BY <2>1, <2>2, <2>3, <2>4, <2>5, TerminateCases
<1>4. ASSUME NEW r \in Requests, TaskOver(r) PROVE Goal
  <2>1. r \in InStop /\ UNCHANGED <<stack, overlapped, cancelled>>
    BY <1>4 DEF TaskOver, InStop
  <2>2. /\ Found(r, req[r].session) /\ Over(req[r].session)
        /\ req[r].session \in Sessions /\ req[r].kind \in Kinds
    BY <2>1, ContinueFinds
  <2>3. TerminateProcess(r, req[r].kind, req[r].session, owned)
    BY <1>4 DEF TaskOver
  <2>4. req[r].session \in Nullable
    BY <2>2 DEF Nullable, Sessions
  <2> QED
    BY <2>1, <2>2, <2>3, <2>4, TerminateCases
<1>5. ASSUME NEW r \in Requests, ProcessGone(r) \/ KillProcess(r) PROVE Goal
  <2> DEFINE s == req[r].session
             st == [status EXCEPT ![s] = "stopped"]
  <2>1. r \in InStop /\ UNCHANGED <<stack, overlapped, cancelled>>
    BY <1>5 DEF ProcessGone, KillProcess, InStop
  <2>2. /\ Found(r, s) /\ Over(s) /\ s \in Sessions /\ req[r].kind \in Kinds
    BY <2>1, ContinueFinds
  <2>3. Answer(r, req[r].kind, s, st, owned)
    BY <1>5 DEF ProcessGone, KillProcess, Stopped
  <2>4. s \in Nullable
    BY <2>2 DEF Nullable, Sessions
  <2>5. st \in [Sessions -> Statuses]
        /\ \A q \in Sessions : st[q] = IF q = s THEN "stopped" ELSE status[q]
    BY <1>t, <2>2 DEF TypeOK, Statuses
  <2>6. proc'[s] \in {"none", "kill", "dead"} /\ \A q \in Sessions \ {s} : proc'[q] = proc[q]
    BY <1>5, <1>t, <2>2 DEF ProcessGone, KillProcess, TypeOK, Live
  <2> HIDE DEF s, st
  <2>7. Answers(r, s)
    BY <2>1, <2>2, <2>3, <2>4, <2>5, <2>6 DEF Answers
  <2> QED
    BY <2>4, <2>7
<1>6. ASSUME NEW s \in Sessions, Driven(s) \/ InstallEnds(s) \/ ServerEnds(s)
      PROVE  TaskStep(s)
  <2>1. /\ status = [status EXCEPT ![s] = status[s]] /\ status[s] \in Statuses
        /\ proc = [proc EXCEPT ![s] = proc[s]] /\ proc[s] \in {"none", "dead"} \union Live
    BY <1>t DEF TypeOK, Statuses
  <2> USE DEF Goto, Mark
  <2>2. CASE TaskBegins(s)
    BY <2>1, <2>2 DEF TaskBegins, TaskStep
  <2>3. CASE ServerSpawned(s)
    <3>1. CASE Goto(s, "port") /\ proc' = [proc EXCEPT ![s] = "alive"] /\ UNCHANGED status
      BY <2>1, <2>3, <3>1 DEF ServerSpawned, TaskStep, Live
    <3>2. CASE Goto(s, "done") /\ Mark(s, "failed") /\ UNCHANGED proc
      BY <2>1, <2>3, <3>2 DEF ServerSpawned, TaskStep, Statuses
    <3> QED
      BY <2>3, <3>1, <3>2 DEF ServerSpawned
  <2>4. CASE PortAnswers(s)
    BY <2>1, <2>4 DEF PortAnswers, TaskStep, Statuses
  <2>5. CASE PortTimeout(s)
    BY <2>1, <2>5 DEF PortTimeout, TaskStep, Statuses, Live
  <2>6. CASE TaskCancelled(s)
    BY <2>1, <2>6 DEF TaskCancelled, TaskStep, Statuses
  <2>7. CASE InstallEnds(s)
    BY <2>1, <2>7 DEF InstallEnds, TaskStep, Statuses
  <2>8. CASE ServerEnds(s)
    BY <2>1, <2>8 DEF ServerEnds, TaskStep, Statuses
  <2> QED
    BY <1>6, <2>2, <2>3, <2>4, <2>5, <2>6, <2>7, <2>8 DEF Driven
<1> HIDE DEF Goal
<1>7. (\E r \in Requests : Begins(r) \/ Continues(r)) => Goal
  BY <1>1, <1>2, <1>3, <1>4, <1>5 DEF Begins, Continues
<1>8. (\E s \in Sessions : Driven(s) \/ Unbounded(s))
        => \E s \in Sessions : TaskStep(s) \/ ProcessExits(s)
  BY <1>6 DEF Unbounded
<1> QED
  BY <1>7, <1>8 DEF Next, Goal

-----------------------------------------------------------------------------
(* The shape of the state is kept.                                         *)

\* What an answered request leaves of the sessions other than its own.
LEMMA AnswerEffect ==
    ASSUME Shape, NEW r \in Requests, NEW s \in Nullable, Answers(r, s)
    PROVE  /\ r # s /\ r \in Sessions /\ Fresh(r)
           /\ \A q \in Sessions : q # r => task'[q] = task[q]
           /\ \A q \in Sessions : q # r => status'[q] = IF q = s THEN "stopped" ELSE status[q]
           /\ \/ current' = NoSession /\ task'[r] = "none" /\ status'[r] = "none"
                 /\ owned' \in {owned, NoSession}
              \/ current' = r /\ task'[r] = "none" /\ status'[r] = "running"
                 /\ owned' \in {owned, NoSession} /\ stack = "static"
              \/ current' = r /\ task'[r] = "new" /\ status'[r] = "starting"
                 /\ owned' = r /\ stack = "node"
           /\ req'[r].at = "done" /\ req'[r].session = s
           /\ \A q \in Requests : q # r => req'[q] = req[q]
<1>t. TypeOK
  BY DEF Shape
<1>1. PICK k \in Kinds, ow \in {owned, NoSession}, st \in [Sessions -> Statuses] :
         /\ Answer(r, k, s, st, ow)
         /\ \A q \in Sessions : st[q] = IF q = s THEN "stopped" ELSE status[q]
  BY DEF Answers
<1>2. r # s /\ r \in Sessions /\ Fresh(r)
  BY DEF Answers, Found, Shape, Created, Sessions
<1>3. task[r] = "none" /\ st[r] = "none"
  BY <1>1, <1>2 DEF Fresh
<1>4. req'[r].at = "done" /\ req'[r].session = s /\ \A q \in Requests : q # r => req'[q] = req[q]
  BY <1>t, <1>1 DEF TypeOK, Answer, Request
<1>5. \A q \in Sessions : q # r => task'[q] = task[q]
  BY <1>t, <1>1 DEF TypeOK, Answer
<1>6. \A q \in Sessions : q # r => status'[q] = st[q]
  BY <1>1 DEF Answer
<1>7. \/ current' = NoSession /\ task'[r] = "none" /\ status'[r] = "none"
         /\ owned' \in {owned, NoSession}
      \/ current' = r /\ task'[r] = "none" /\ status'[r] = "running"
         /\ owned' \in {owned, NoSession} /\ stack = "static"
      \/ current' = r /\ task'[r] = "new" /\ status'[r] = "starting"
         /\ owned' = r /\ stack = "node"
  BY <1>t, <1>1, <1>2, <1>3 DEF TypeOK, Answer
<1> QED
  BY <1>1, <1>2, <1>4, <1>5, <1>6, <1>7

\* What a request that begins to wait changes.
LEMMA WaitEffect ==
    ASSUME Shape, NEW r \in Requests, NEW s \in Nullable, Waits(r, s)
    PROVE  /\ r # s /\ s \in Sessions /\ req[s].at = "done" /\ req[r].at # "done"
           /\ req'[r].at \in {"task", "exit"} /\ req'[r].session = s
           /\ \A q \in Requests : q # r => req'[q] = req[q]
           /\ \A q \in Sessions : q # s => proc'[q] = proc[q]
           /\ proc'[s] = proc[s] \/ (proc[s] = "alive" /\ proc'[s] = "term")
           /\ \A q \in Sessions : q # s /\ q \notin cancelled => q \notin cancelled'
           /\ \A q \in Sessions : Over(q) => Over(q)'
           /\ Over(s)'
<1>t. TypeOK
  BY DEF Shape
<1>1. s \in Sessions /\ req[s].at = "done" /\ req[r].at # "done"
  BY DEF Waits, Found
<1>2. req'[r].at \in {"task", "exit"} /\ req'[r].session = s
      /\ \A q \in Requests : q # r => req'[q] = req[q]
  BY <1>t DEF TypeOK, Waits, Request
<1>3. /\ \A q \in Sessions : q # s => proc'[q] = proc[q]
      /\ proc'[s] = proc[s] \/ (proc[s] = "alive" /\ proc'[s] = "term")
  BY <1>t, <1>1 DEF TypeOK, Waits
<1>4. Over(s)' /\ \A q \in Sessions : Over(q) => Over(q)'
  BY DEF Waits, Over
<1>5. \A q \in Sessions : q # s /\ q \notin cancelled => q \notin cancelled'
  BY DEF Waits
<1> QED
  BY <1>1, <1>2, <1>3, <1>4, <1>5

\* What a step of a task changes.
LEMMA TaskEffect ==
    ASSUME Shape, NEW s \in Sessions, TaskStep(s)
    PROVE  /\ req[s].at = "done"
           /\ \A q \in Sessions : q # s => /\ task'[q] = task[q]
                                           /\ status'[q] = status[q]
                                           /\ proc'[q] = proc[q]
           /\ task'[s] \in {"install", "spawn", "port", "pump", "done"}
           /\ task'[s] # "done" => status'[s] \in {status[s], "running"}
           /\ s \in cancelled => task'[s] = "done" /\ status'[s] \in {status[s], "stopped"}
                                 /\ proc'[s] = proc[s]
           /\ Over(s) => s \in cancelled
           /\ UNCHANGED <<stack, current, owned, cancelled, req, overlapped>>
<1>t. TypeOK
  BY DEF Shape
<1>1. req[s].at = "done"
  BY DEF TaskStep, Shape, Created, Fresh, Sessions
<1>2. Over(s) => s \in cancelled
  BY DEF TaskStep, Over
<1> QED
  BY <1>t, <1>1, <1>2 DEF TypeOK, TaskStep, UnchangedByTasks

\* What the end of a process changes.
LEMMA ExitEffect ==
    ASSUME Shape, NEW s \in Sessions, ProcessExits(s)
    PROVE  /\ req[s].at = "done"
           /\ proc'[s] = "dead" /\ \A q \in Sessions : q # s => proc'[q] = proc[q]
           /\ UNCHANGED <<stack, current, owned, status, task, cancelled, req, overlapped>>
<1>1. req[s].at = "done"
  BY DEF ProcessExits, Live, Shape, Created, Fresh, Sessions
<1> QED
  BY <1>1 DEF ProcessExits, UnchangedByTasks, Shape, TypeOK

\* A request creates its session, and is referred to, only when it is answered.
LEMMA StepCreated == Shape /\ [Next]_vars => Created'
<1> SUFFICES ASSUME Shape, [Next]_vars PROVE Created'
  OBVIOUS
<1>c. Created
  BY DEF Shape
<1> USE DEF Sessions
<1>1. CASE UNCHANGED vars
  BY <1>1, <1>c DEF vars, Created, Fresh
<1>2. ASSUME NEW r \in Requests, NEW s \in Nullable, Waits(r, s) PROVE Created'
  <2>e. /\ r # s /\ s \in Sessions /\ req[s].at = "done" /\ req[r].at # "done"
        /\ req'[r].at \in {"task", "exit"} /\ req'[r].session = s
        /\ \A q \in Requests : q # r => req'[q] = req[q]
        /\ \A q \in Sessions : q # s => proc'[q] = proc[q]
        /\ \A q \in Sessions : q # s /\ q \notin cancelled => q \notin cancelled'
    BY <1>2, WaitEffect
  <2>u. UNCHANGED <<current, status, task>> /\ owned' \in {owned, NoSession}
    BY <1>2 DEF Waits
  <2>1. ASSUME NEW q \in Requests, req'[q].at # "done" PROVE Fresh(q)'
    BY <1>c, <2>1, <2>e, <2>u, NoSessionAssumption DEF Created, Fresh
  <2>2. ASSUME NEW p \in Requests, NEW q \in Requests, req'[p].session = q
        PROVE  req'[q].at = "done"
    BY <1>c, <2>2, <2>e DEF Created
  <2> QED
    BY <2>1, <2>2 DEF Created
<1>3. ASSUME NEW r \in Requests, NEW s \in Nullable, Answers(r, s) PROVE Created'
  <2>e. /\ r # s /\ req'[r].at = "done" /\ req'[r].session = s
        /\ \A q \in Requests : q # r => req'[q] = req[q]
        /\ \A q \in Sessions : q # r => task'[q] = task[q]
        /\ \A q \in Sessions : q # r => status'[q] = IF q = s THEN "stopped" ELSE status[q]
        /\ current' \in {NoSession, r} /\ owned' \in {owned, NoSession, r}
    BY <1>3, AnswerEffect
  <2>u. /\ UNCHANGED cancelled /\ \A q \in Sessions \ {s} : proc'[q] = proc[q]
        /\ s \in Sessions => req[s].at = "done"
    BY <1>3 DEF Answers, Found
  <2>1. ASSUME NEW q \in Requests, req'[q].at # "done" PROVE Fresh(q)'
    <3>1. q # r /\ q # s /\ Fresh(q)
      BY <1>c, <2>1, <2>e, <2>u DEF Created
    <3> QED
      BY <3>1, <2>e, <2>u, NoSessionAssumption DEF Fresh
  <2>2. ASSUME NEW p \in Requests, NEW q \in Requests, req'[p].session = q
        PROVE  req'[q].at = "done"
    BY <1>c, <2>2, <2>e, <2>u DEF Created
  <2> QED
    BY <2>1, <2>2 DEF Created
<1>4. ASSUME NEW s \in Sessions, TaskStep(s) PROVE Created'
  BY <1>4, <1>c, TaskEffect DEF Created, Fresh
<1>5. ASSUME NEW s \in Sessions, ProcessExits(s) PROVE Created'
  BY <1>5, <1>c, ExitEffect DEF Created, Fresh
<1> QED
  BY <1>1, <1>2, <1>3, <1>4, <1>5, StepCases

\* No step leaves a task that may go on without its registration.
LEMMA StepOwning == Shape /\ [Next]_vars => Owning'
<1> SUFFICES ASSUME Shape, [Next]_vars PROVE Owning'
  OBVIOUS
<1>o. Owning
  BY DEF Shape
<1>c. Created
  BY DEF Shape
<1>1. CASE UNCHANGED vars
  BY <1>1, <1>o DEF vars, Owning, Over, Stopping, InStop
<1>2. ASSUME NEW r \in Requests, NEW s \in Nullable, Waits(r, s) PROVE Owning'
  <2>e. /\ s \in Sessions /\ Over(s)' /\ \A q \in Sessions : Over(q) => Over(q)'
        /\ req'[r].session = s /\ \A q \in Requests : q # r => req'[q] = req[q]
    BY <1>2, WaitEffect
  <2>u. /\ UNCHANGED <<stack, current, status, task>>
        /\ UNCHANGED owned \/ (owned' = NoSession /\ s = current)
    BY <1>2 DEF Waits, Found
  <2>1. \A q \in Sessions : q = current' /\ q # owned' => Over(q)'
    BY <1>o, <2>e, <2>u DEF Owning
  <2>2. \A q \in Sessions : ~Over(q)' => status'[q] \in {"starting", "running"}
    BY <1>o, <2>e, <2>u DEF Owning
  <2>3. ASSUME NEW q \in InStop' PROVE Stopping(q)'
    <3>1. CASE q = r
      BY <3>1, <2>e, <2>u DEF Stopping, Over
    <3>2. CASE q # r
      <4>1. q \in InStop /\ req'[q] = req[q]
        BY <3>2, <2>e DEF InStop
      <4>2. req[q].session \in Sessions /\ Over(req[q].session)
        BY <4>1, <1>o DEF Owning, Stopping
      <4> QED
        BY <4>1, <4>2, <2>e, <2>u, <1>2 DEF Stopping, Over, Waits
    <3> QED
      BY <3>1, <3>2
  <2>4. (current' # NoSession => owned' \in {NoSession, current'})
        /\ (stack' = "static" => owned' = NoSession)
    BY <1>o, <2>u DEF Owning
  <2> QED
    BY <2>1, <2>2, <2>3, <2>4 DEF Owning
<1>3. ASSUME NEW r \in Requests, NEW s \in Nullable, Answers(r, s) PROVE Owning'
  <2>e. /\ r # s /\ r \in Sessions /\ Fresh(r)
        /\ \A q \in Sessions : q # r => task'[q] = task[q]
        /\ \A q \in Sessions : q # r => status'[q] = IF q = s THEN "stopped" ELSE status[q]
        /\ \/ current' = NoSession /\ task'[r] = "none" /\ status'[r] = "none"
              /\ owned' \in {owned, NoSession}
           \/ current' = r /\ task'[r] = "none" /\ status'[r] = "running"
              /\ owned' \in {owned, NoSession} /\ stack = "static"
           \/ current' = r /\ task'[r] = "new" /\ status'[r] = "starting"
              /\ owned' = r /\ stack = "node"
        /\ req'[r].at = "done" /\ \A q \in Requests : q # r => req'[q] = req[q]
    BY <1>3, AnswerEffect
  <2>u. UNCHANGED <<stack, cancelled>> /\ (s \in Sessions => Over(s)) /\ req[r].at # "done"
    BY <1>3 DEF Answers, Found
  <2>n. r # NoSession /\ NoSession \notin Sessions
    BY NoSessionAssumption DEF Sessions
  <2>1. ASSUME NEW q \in Sessions, q = current', q # owned' PROVE Over(q)'
    BY <2>1, <2>e, <2>n DEF Over
  <2>2. ASSUME NEW q \in Sessions, ~Over(q)' PROVE status'[q] \in {"starting", "running"}
    <3>1. CASE q = r
      BY <3>1, <2>2, <2>e DEF Over
    <3>2. CASE q # r
      <4>1. ~Over(q)
        BY <3>2, <2>2, <2>e, <2>u DEF Over
      <4> QED
        BY <3>2, <4>1, <1>o, <2>e, <2>u DEF Owning
    <3> QED
      BY <3>1, <3>2
  <2>3. ASSUME NEW q \in InStop' PROVE Stopping(q)'
    <3>1. q # r /\ q \in InStop /\ req'[q] = req[q]
      BY <2>3, <2>e DEF InStop
    <3>2. req[q].session \in Sessions /\ Over(req[q].session)
      BY <3>1, <1>o DEF Owning, Stopping
    <3>3. req[q].session # r
      BY <3>1, <2>u, <1>c DEF Created, InStop, Sessions
    <3> QED
      BY <3>1, <3>2, <3>3, <2>e, <2>u DEF Stopping, Over
  <2>4. current' # NoSession => owned' \in {NoSession, current'}
    BY <2>e, <1>o DEF Owning
  <2>5. stack' = "static" => owned' = NoSession
    BY <2>e, <2>u, <1>o DEF Owning
  <2> QED
    BY <2>1, <2>2, <2>3, <2>4, <2>5 DEF Owning
<1>4. ASSUME NEW s \in Sessions, TaskStep(s) PROVE Owning'
  <2>e. /\ \A q \in Sessions : q # s => task'[q] = task[q] /\ status'[q] = status[q]
        /\ task'[s] # "done" => status'[s] \in {status[s], "running"}
        /\ s \in cancelled => task'[s] = "done"
        /\ Over(s) => s \in cancelled
        /\ UNCHANGED <<stack, current, owned, cancelled, req>>
    BY <1>4, TaskEffect
  <2>1. \A q \in Sessions : Over(q) => Over(q)'
    BY <2>e DEF Over
  <2>2. ASSUME NEW q \in Sessions, ~Over(q)' PROVE status'[q] \in {"starting", "running"}
    <3>1. status[q] \in {"starting", "running"}
      BY <2>1, <2>2, <1>o DEF Owning
    <3>2. q = s => task'[s] # "done"
      BY <2>2 DEF Over
    <3> QED
      BY <3>1, <3>2, <2>e
  <2>3. ASSUME NEW q \in InStop' PROVE Stopping(q)'
    <3>1. q \in InStop /\ req[q].session \in Sessions /\ Over(req[q].session)
      BY <2>e, <1>o DEF InStop, Owning, Stopping
    <3> QED
      BY <3>1, <2>e DEF Stopping, Over
  <2>4. \A q \in Sessions : q = current' /\ q # owned' => Over(q)'
    BY <2>1, <2>e, <1>o DEF Owning
  <2> QED
    BY <2>2, <2>3, <2>4, <2>e, <1>o DEF Owning
<1>5. ASSUME NEW s \in Sessions, ProcessExits(s) PROVE Owning'
  BY <1>5, <1>o, ExitEffect DEF Owning, Over, Stopping, InStop
<1> QED
  BY <1>1, <1>2, <1>3, <1>4, <1>5, StepCases

\* The three invariants together are inductive.
LEMMA ShapeHolds == Spec => []Shape
<1>1. Shape /\ [Next]_vars => Shape'
  BY StepTypes, StepCreated, StepOwning DEF Shape
<1> QED
  BY <1>1, InitShape, PTL DEF Spec

-----------------------------------------------------------------------------
(* The properties.                                                         *)

\* In every state the variables have the types of the attributes and locals
\* of PreviewManager they stand for.
THEOREM TypeCorrect == Spec => []TypeOK
<1>1. Shape => TypeOK
  BY DEF Shape
<1> QED
  BY <1>1, ShapeHolds, PTL

\* Once stop() has returned to a request, the server of the session it had
\* found is dead or killed and the session's task will start no other.
THEOREM StoppedStaysDead == Spec => []StoppedIsDead
<1>1. Init => StoppedIsDead
  BY DEF Init, Idle, StoppedIsDead
<1>2. Shape /\ StoppedIsDead /\ [Next]_vars => StoppedIsDead'
  <2> SUFFICES ASSUME Shape, StoppedIsDead, [Next]_vars,
                      NEW r \in Requests, req'[r].at = "done", req'[r].session # NoSession
               PROVE  /\ proc'[req'[r].session] \in {"none", "kill", "dead"}
                      /\ \/ task'[req'[r].session] \in {"none", "done"}
                         \/ req'[r].session \in cancelled'
    BY DEF StoppedIsDead
  <2> DEFINE x == req[r].session
  <2>o. x # NoSession => x \in Sessions
    BY DEF Shape, TypeOK, RequestType, Nullable, Sessions
  <2>d. req[r].at = "done" /\ x # NoSession =>
          proc[x] \in {"none", "kill", "dead"} /\ Over(x)
    BY DEF StoppedIsDead, Over
  <2>1. CASE UNCHANGED vars
    BY <2>1, <2>d DEF vars, Over
  <2>2. ASSUME NEW q \in Requests, NEW s \in Nullable, Waits(q, s)
        PROVE  /\ proc'[req'[r].session] \in {"none", "kill", "dead"}
               /\ \/ task'[req'[r].session] \in {"none", "done"}
                  \/ req'[r].session \in cancelled'
    <3>1. r # q /\ req'[r] = req[r]
      BY <2>2, WaitEffect
    <3>2. proc'[x] \in {"none", "kill", "dead"}
      BY <2>2, <2>o, <2>d, <3>1, WaitEffect
    <3>3. UNCHANGED task /\ cancelled \subseteq cancelled'
      BY <2>2 DEF Waits
    <3> QED
      BY <2>d, <3>1, <3>2, <3>3 DEF Over
  <2>3. ASSUME NEW q \in Requests, NEW s \in Nullable, Answers(q, s)
        PROVE  /\ proc'[req'[r].session] \in {"none", "kill", "dead"}
               /\ \/ task'[req'[r].session] \in {"none", "done"}
                  \/ req'[r].session \in cancelled'
    <3>e. /\ q # s /\ req'[q].session = s /\ req[q].at # "done"
          /\ \A p \in Requests : p # q => req'[p] = req[p]
          /\ \A p \in Sessions : p # q => task'[p] = task[p]
      BY <2>3, AnswerEffect DEF Answers, Found
    <3>u. /\ UNCHANGED cancelled /\ \A p \in Sessions \ {s} : proc'[p] = proc[p]
          /\ s \in Sessions => Over(s) /\ proc'[s] \in {"none", "kill", "dead"}
      BY <2>3 DEF Answers
    <3>1. CASE r = q
      BY <3>1, <3>e, <3>u DEF Over, Nullable, Sessions
    <3>2. CASE r # q
      <4>1. req'[r] = req[r] /\ x \in Sessions /\ proc[x] \in {"none", "kill", "dead"} /\ Over(x)
        BY <3>2, <3>e, <2>o, <2>d
      <4>2. x # q
        BY <4>1, <3>e DEF Shape, Created, Sessions
      <4> QED
        BY <4>1, <4>2, <3>e, <3>u DEF Over
    <3> QED
      BY <3>1, <3>2
  <2>4. ASSUME NEW s \in Sessions, TaskStep(s)
        PROVE  /\ proc'[req'[r].session] \in {"none", "kill", "dead"}
               /\ \/ task'[req'[r].session] \in {"none", "done"}
                  \/ req'[r].session \in cancelled'
    <3>e. /\ \A q \in Sessions : q # s => task'[q] = task[q] /\ proc'[q] = proc[q]
          /\ s \in cancelled => proc'[s] = proc[s]
          /\ Over(s) => s \in cancelled
          /\ UNCHANGED <<cancelled, req>>
      BY <2>4, TaskEffect
    <3> QED
      BY <3>e, <2>o, <2>d DEF Over
  <2>5. ASSUME NEW s \in Sessions, ProcessExits(s)
        PROVE  /\ proc'[req'[r].session] \in {"none", "kill", "dead"}
               /\ \/ task'[req'[r].session] \in {"none", "done"}
                  \/ req'[r].session \in cancelled'
    BY <2>5, <2>o, <2>d, ExitEffect DEF Over
  <2> QED
    BY <2>1, <2>2, <2>3, <2>4, <2>5, StepCases
<1> QED
  BY <1>1, <1>2, ShapeHolds, PTL DEF Spec

\* A session that was reported stopped or failed is never reported starting
\* or running again, whichever task or request is late.
THEOREM EndedIsFinal == Spec => EndedStaysEnded
<1>1. Shape /\ [Next]_vars =>
        [\A s \in Sessions : status[s] \in {"stopped", "failed"} =>
            status'[s] \in {"stopped", "failed"}]_vars
  <2> SUFFICES ASSUME Shape, [Next]_vars, NEW q \in Sessions,
                      status[q] \in {"stopped", "failed"}
               PROVE  status'[q] \in {"stopped", "failed"}
    OBVIOUS
  <2>o. Over(q)
    BY DEF Shape, Owning
  <2>1. CASE UNCHANGED vars
    BY <2>1 DEF vars
  <2>2. ASSUME NEW r \in Requests, NEW s \in Nullable, Waits(r, s)
        PROVE  status'[q] \in {"stopped", "failed"}
    BY <2>2 DEF Waits
  <2>3. ASSUME NEW r \in Requests, NEW s \in Nullable, Answers(r, s)
        PROVE  status'[q] \in {"stopped", "failed"}
    <3>1. /\ Fresh(r)
          /\ \A p \in Sessions : p # r => status'[p] = IF p = s THEN "stopped" ELSE status[p]
      BY <2>3, AnswerEffect
    <3>2. q # r
      BY <3>1 DEF Fresh
    <3> QED
      BY <3>1, <3>2
  <2>4. ASSUME NEW s \in Sessions, TaskStep(s)
        PROVE  status'[q] \in {"stopped", "failed"}
    <3>1. /\ q # s => status'[q] = status[q]
          /\ s \in cancelled => status'[s] \in {status[s], "stopped"}
          /\ Over(s) => s \in cancelled
      BY <2>4, TaskEffect
    <3> QED
      BY <3>1, <2>o
  <2>5. ASSUME NEW s \in Sessions, ProcessExits(s)
        PROVE  status'[q] \in {"stopped", "failed"}
    BY <2>5, ExitEffect
  <2> QED
    BY <2>1, <2>2, <2>3, <2>4, <2>5, StepCases
<1> QED
  BY <1>1, ShapeHolds, PTL DEF Spec, EndedStaysEnded

-----------------------------------------------------------------------------
(* Without overlap nothing is orphaned.                                    *)

\* The session runs a server that was not told to end, or may start one.
Runs(s) == proc[s] = "alive" \/ ~Over(s)

\* One request at a time is in stop(), with the registered session, and
\* nothing runs for any other.
Alone == /\ \A q, r \in InStop : q = r
         /\ \A r \in InStop : req[r].session = current
         /\ \A s \in Sessions : Runs(s) => s = current

\* A step after which no requests have overlapped keeps what runs with the
\* registered session.
LEMMA StepAlone ==
    ASSUME Shape, [Next]_vars, ~overlapped => Alone, ~overlapped'
    PROVE  Alone'
<1>1. CASE UNCHANGED vars
  BY <1>1 DEF vars, Alone, InStop, Runs, Over
<1>2. ASSUME NEW r \in Requests, NEW s \in Nullable, Waits(r, s) PROVE Alone'
  <2>e. /\ s \in Sessions /\ req'[r].session = s
        /\ \A q \in Requests : q # r => req'[q] = req[q]
        /\ \A q \in Sessions : q # s => proc'[q] = proc[q]
        /\ proc'[s] = proc[s] \/ (proc[s] = "alive" /\ proc'[s] = "term")
        /\ \A q \in Sessions : Over(q) => Over(q)'
    BY <1>2, WaitEffect
  <2>a. Alone /\ UNCHANGED current /\ (InStop = {} \/ r \in InStop)
    BY <1>2 DEF Waits, Found
  <2>1. \A q \in InStop' : q = r
    BY <2>e, <2>a DEF Alone, InStop
  <2>2. s = current
    BY <1>2, <2>a DEF Waits, Found, Alone
  <2>3. \A q \in Sessions : Runs(q)' => Runs(q)
    BY <2>e DEF Runs
  <2> QED
    BY <2>1, <2>2, <2>3, <2>e, <2>a DEF Alone
<1>3. ASSUME NEW r \in Requests, NEW s \in Nullable, Answers(r, s) PROVE Alone'
  <2>e. /\ r # s /\ r \in Sessions /\ Fresh(r) /\ req'[r].at = "done"
        /\ \A q \in Requests : q # r => req'[q] = req[q]
        /\ \A q \in Sessions : q # r => task'[q] = task[q]
        /\ \/ current' = NoSession /\ task'[r] = "none"
           \/ current' = r
    BY <1>3, AnswerEffect
  <2>u. /\ UNCHANGED cancelled /\ \A q \in Sessions \ {s} : proc'[q] = proc[q]
        /\ s \in Sessions => Over(s) /\ proc'[s] \in {"none", "kill", "dead"}
    BY <1>3 DEF Answers
  <2>a. Alone /\ (InStop = {} \/ r \in InStop)
    BY <1>3 DEF Answers, Found
  <2>1. InStop' = {}
    BY <2>e, <2>a DEF Alone, InStop
  <2>2. s = current
    BY <1>3, <2>a DEF Answers, Found, Alone
  <2>3. ASSUME NEW q \in Sessions, Runs(q)' PROVE q = current'
    <3>1. CASE q = s
      BY <3>1, <2>3, <2>e, <2>u DEF Runs, Over
    <3>2. CASE q # s /\ q # r
      BY <3>2, <2>3, <2>2, <2>e, <2>u, <2>a DEF Alone, Runs, Over
    <3>3. CASE q = r
      BY <3>3, <2>3, <2>e, <2>u DEF Runs, Over, Fresh
    <3> QED
      BY <3>1, <3>2, <3>3
  <2> QED
    BY <2>1, <2>3 DEF Alone
<1>4. ASSUME NEW s \in Sessions, TaskStep(s) PROVE Alone'
  <2>e. /\ \A q \in Sessions : q # s => task'[q] = task[q] /\ proc'[q] = proc[q]
        /\ s \in cancelled => proc'[s] = proc[s] /\ task'[s] = "done"
        /\ Over(s) => s \in cancelled
        /\ UNCHANGED <<current, cancelled, req, overlapped>>
    BY <1>4, TaskEffect
  <2>1. \A q \in Sessions : Runs(q)' => Runs(q)
    BY <2>e DEF Runs, Over
  <2> QED
    BY <2>1, <2>e DEF Alone, InStop
<1>5. ASSUME NEW s \in Sessions, ProcessExits(s) PROVE Alone'
  BY <1>5, ExitEffect DEF Alone, InStop, Runs, Over
<1> QED
  BY <1>1, <1>2, <1>3, <1>4, <1>5, StepCases

\* While the project's requests do not overlap, a server that nobody told to
\* end, or a task that may start one, belongs to the session stop() would find.
THEOREM NothingIsOrphaned == Spec => []NoOrphanWithoutOverlap
<1>1. Init => (~overlapped => Alone)
  BY DEF Init, Idle, Alone, InStop, Runs, Over
<1>2. Shape /\ (~overlapped => Alone) /\ [Next]_vars => (~overlapped => Alone)'
  BY StepAlone
<1>3. (~overlapped => Alone) => NoOrphanWithoutOverlap
  BY DEF Alone, Runs, Over, NoOrphanWithoutOverlap
<1> QED
  BY <1>1, <1>2, <1>3, ShapeHolds, PTL DEF Spec
=============================================================================

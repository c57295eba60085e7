--------------------------- MODULE CodeWorkspace ---------------------------
(***************************************************************************)
(* The code workspace's editor: one signed-in user, one saved project, the *)
(* files' buffers in the browser, their copies on the server, and the      *)
(* agent of the right sidebar, which edits the server's copies and streams *)
(* its edits to the editor (code-workspace.tsx, ide-right-sidebar.tsx).    *)
(*                                                                         *)
(* Every call to the server is a record of `requests`.  The server may     *)
(* take the calls in any order, whatever order they were made in.  A call  *)
(* that reads has a second leg, in which what was read travels back, and   *)
(* more can happen in between; the answer of a call that only writes       *)
(* carries nothing, and comes with the write.                              *)
(*                                                                         *)
(* A file's text is Empty or one of Contents.  A path of the demo project  *)
(* has a demo text, which the editor shows for an empty file; the others'  *)
(* is Empty.  Nodes keep their paths (the workspace renames and moves      *)
(* none).  Automatic saving is on (the default of the settings page).  A   *)
(* project has files only: a folder is a node without a text and changes   *)
(* nothing below.                                                          *)
(***************************************************************************)
EXTENDS Naturals, FiniteSets, Sequences

CONSTANTS
  Files,          \* the ids a node of the project can ever get
  Projects,       \* the sets of files a project may hold when it is opened
  Contents,       \* what the user and the agent write, apart from nothing
  Empty,          \* the text of an empty file
  Demo,           \* CODE_WORKSPACE_FILES: the demo project's text of a file's path
  None,           \* no file, no pending timer, a buffer that is not loaded
  Stored,         \* bound: what a file holds at first
  Sessions,       \* bound: what one session uses, sets of features
  MaxAwaited,     \* bound: calls in flight when another is started
  MaxActs,        \* bound: what the user does, clicks and edits together
  MaxEdits,       \* bound: edits of one run of the agent
  MaxRuns         \* bound: runs of the agent

Written == Contents \cup {Empty}
Text == Written \cup {Demo[f] : f \in Files}
Change == [previous : Text, new : Text, status : {"pending", "accepted", "rejected"}]

ASSUME EditorAssumption ==
  /\ Projects \subseteq SUBSET Files
  /\ None \notin Files /\ None \notin Contents /\ None \notin Change
  /\ Empty \notin Contents /\ Empty # None
  /\ Stored \subseteq Written /\ Empty \in Stored
  /\ DOMAIN Demo = Files /\ \A f \in Files : Demo[f] # None
  /\ Sessions \subseteq SUBSET 
       {"type", "search", "arrange", "create", "deploy", "edit", "grow"}
  /\ {MaxAwaited, MaxActs, MaxEdits, MaxRuns} \subseteq Nat

VARIABLES
  disk,           \* server: what each file holds
  tree,           \* server: the nodes of the project's row
  serverOpen,     \* server: activeFileId of the project's row
  buffers,        \* fileContents
  timers,         \* fileSaveTimersRef: the text a pending timer will save
  nodes,          \* project.state.nodes
  active,         \* project.state.ui.activeFileId
  structureTimer, \* the structure's autosave is pending
  requests,       \* calls to the server that have not come back
  changes,        \* agentChanges, per file
  busy,           \* changeReviewBusyFileId
  deploy,         \* how far handleDeploy is, and the project it captured
  agent,          \* the sidebar's run, and the server's: see AtRest
  session,        \* the features this session uses
  acts,           \* how much the user has done
  original,       \* history: the text before the agent's first open edit
  born,           \* history: every file the project has been given
  crossed,        \* history: files on which two exchanges have overlapped
  overtaken       \* history: the tree moved while it was being changed

editorVars == <<buffers, timers, nodes, active, structureTimer>>
serverVars == <<disk, tree, serverOpen>>
reviewVars == <<changes, busy, original>>
notes == <<born, crossed, overtaken>>
vars == <<serverVars, editorVars, requests, reviewVars, deploy, agent, session, acts, notes>>

----------------------------------------------------------------------------

FileCall(kind, f, text) ==
  [kind |-> kind, file |-> f, text |-> text, nodes |-> {}, served |-> FALSE]

\* A call about the project itself: its nodes, and the file that is open.
TreeCall(kind, members, f) ==
  [kind |-> kind, file |-> f, text |-> None, nodes |-> members, served |-> FALSE]

Reads == {"load", "reload", "undone"}
Writes == {"autosave", "save", "restore", "flush"}

Calls(kinds) == {r \in requests : r.kind \in kinds}
CallsOn(f) == {r \in Calls(Reads \cup Writes) : r.file = f}

\* Something that calls the server starts.
MayCall == Cardinality(requests) < MaxAwaited

\* The effect that loads the open file, and openFile's own call: a file that
\* has a buffer is never fetched again.
LoadOf(f, texts) ==
  IF f # None /\ texts[f] = None THEN {FileCall("load", f, None)} ELSE {}

\* The run has edited f and may yet deliver that edit, at the latest when its
\* "done" event repeats every edit.
Touched(edits) == {edits[i].file : i \in DOMAIN edits}
Streaming(f) == agent.running /\ f \in Touched(agent.edits)

Idle == [phase |-> "no", nodes |-> {}, file |-> None]

\* running: the sidebar reads the stream (isLoading); working: the pipeline has
\* not ended; edits: what it has written, of which the first `told` have been
\* given to the stream; telling: a write_code step has returned, and its edits
\* are being told.
AtRest == [running |-> FALSE, working |-> FALSE, telling |-> FALSE, told |-> 0,
           stream |-> <<>>, edits |-> <<>>, runs |-> 0]

Init ==
  /\ tree \in Projects /\ nodes = tree /\ born = tree
  /\ disk \in [Files -> Stored]
  /\ \A f \in Files \ tree : disk[f] = Empty
  /\ serverOpen \in tree \cup {None}
  /\ active = serverOpen
  /\ buffers = [f \in Files |-> None]
  /\ timers = [f \in Files |-> None]
  /\ structureTimer = FALSE
  /\ requests = LoadOf(active, buffers)
  /\ changes = [f \in Files |-> None]
  /\ busy = None
  /\ deploy = Idle
  /\ agent = AtRest
  /\ session \in Sessions /\ acts = 0
  /\ original = [f \in Files |-> None]
  /\ crossed = {}
  /\ overtaken = FALSE

----------------------------------------------------------------------------
(* What overlaps: history only, no action reads it. *)

\* f is being written or is about to be, while something else is under way.
CrossedNow(f) ==
  \/ timers[f] # None /\ (CallsOn(f) # {} \/ Streaming(f))
  \/ \E w \in CallsOn(f) : w.kind \in Writes /\ (CallsOn(f) # {w} \/ Streaming(f))

\* The list of nodes is about to be replaced by the editor's, while the
\* server's is growing or the editor has not heard of it yet.
OvertakenNow ==
  /\ structureTimer \/ Calls({"structure"}) # {} \/ deploy.phase # "no"
  /\ agent.running \/ Calls({"create", "refresh"}) # {}

\* Ends every action; `more` are files the action itself leaves at odds with
\* the server, `lost` says the editor did not hear of the server's nodes.
Note(more, lost) ==
  /\ crossed' = crossed \cup more \cup {f \in Files : CrossedNow(f)'}
  /\ overtaken' = (overtaken \/ lost \/ OvertakenNow')
  /\ born' = born \cup tree'

----------------------------------------------------------------------------
(* The user reads, types and saves. *)

\* openFile and openSearchResult.  Opening is a change of the project: the
\* structure's autosave starts its wait again.
OpenFile(f) ==
  /\ MayCall
  /\ f \in nodes /\ f # active
  /\ active' = f
  /\ structureTimer' = TRUE
  /\ requests' = requests \cup LoadOf(f, buffers)
  /\ UNCHANGED <<serverVars, buffers, timers, nodes, reviewVars, deploy, agent>>
  /\ Note({}, FALSE)

CloseTab ==
  /\ active # None
  /\ active' = None
  /\ structureTimer' = TRUE
  /\ UNCHANGED <<serverVars, buffers, timers, nodes, requests, reviewVars, deploy, agent>>
  /\ Note({}, FALSE)

\* prepareSearch fetches every file that has no buffer.
PrepareSearch ==
  /\ MayCall
  /\ \E f \in nodes : buffers[f] = None
  /\ requests' = requests \cup UNION {LoadOf(f, buffers) : f \in nodes}
  /\ UNCHANGED <<serverVars, editorVars, reviewVars, deploy, agent>>
  /\ Note({}, FALSE)

\* The effect on fileContents: a pending change whose new text is empty takes
\* what the buffer holds.
Backfilled(records, texts) ==
  [f \in Files |->
     IF /\ records[f] # None /\ texts[f] # None
        /\ records[f].status = "pending" /\ records[f].new = Empty
     THEN [records[f] EXCEPT !.new = texts[f]]
     ELSE records[f]]

\* updateActiveFile.  The editor shows a file only once its buffer is loaded.
Type(text) ==
  /\ active \in nodes /\ buffers[active] \notin {None, text}
  /\ buffers' = [buffers EXCEPT ![active] = text]
  /\ timers' = [timers EXCEPT ![active] = text]
  /\ changes' = Backfilled(changes, buffers')
  /\ UNCHANGED <<serverVars, nodes, active, structureTimer, requests, busy, original,
                 deploy, agent>>
  /\ Note({}, FALSE)

AutosaveFires(f) ==
  /\ MayCall
  /\ timers[f] # None
  /\ timers' = [timers EXCEPT ![f] = None]
  /\ requests' = requests \cup {FileCall("autosave", f, timers[f])}
  /\ UNCHANGED <<serverVars, buffers, nodes, active, structureTimer, reviewVars, deploy, agent>>
  /\ Note({}, FALSE)

\* handleSave: the menu's entry is disabled while a save is under way.
SaveFile ==
  /\ MayCall
  /\ Calls({"save"}) = {}
  /\ active \in nodes /\ buffers[active] # None
  /\ timers' = [timers EXCEPT ![active] = None]
  /\ requests' = requests \cup {FileCall("save", active, buffers[active])}
  /\ UNCHANGED <<serverVars, buffers, nodes, active, structureTimer, reviewVars, deploy, agent>>
  /\ Note({}, FALSE)

StructureTimerFires ==
  /\ MayCall
  /\ structureTimer
  /\ structureTimer' = FALSE
  /\ requests' = requests \cup {TreeCall("structure", nodes, active)}
  /\ UNCHANGED <<serverVars, buffers, timers, nodes, active, reviewVars, deploy, agent>>
  /\ Note({}, FALSE)

\* handleCreateFile: the server gives the new node its id.
CreateFile ==
  /\ MayCall
  /\ Files \ born # {}
  /\ Calls({"create"}) = {}
  /\ requests' = requests \cup {TreeCall("create", {}, None)}
  /\ UNCHANGED <<serverVars, editorVars, reviewVars, deploy, agent>>
  /\ Note({}, FALSE)

----------------------------------------------------------------------------
(* The server takes a call. *)

\* A file can be read and written only while it is a node of the project.
ServeRead(r) ==
  /\ r.kind \in Reads /\ ~r.served /\ r.file \in tree
  /\ requests' = (requests \ {r}) \cup {[r EXCEPT !.served = TRUE, !.text = disk[r.file]]}
  /\ UNCHANGED <<serverVars, editorVars, reviewVars, deploy, agent>>
  /\ Note({}, FALSE)

ServeRefresh(r) ==
  /\ r.kind = "refresh" /\ ~r.served
  /\ requests' = (requests \ {r})
                   \cup {[r EXCEPT !.served = TRUE, !.nodes = tree, !.file = serverOpen]}
  /\ UNCHANGED <<serverVars, editorVars, reviewVars, deploy, agent>>
  /\ Note({}, FALSE)

\* add_project_node also opens the new file.
ServeCreate(r) ==
  /\ r.kind = "create" /\ ~r.served
  /\ \E f \in Files \ born :
       /\ tree' = tree \cup {f}
       /\ serverOpen' = f
       /\ requests' = (requests \ {r})
                        \cup {[r EXCEPT !.served = TRUE, !.nodes = tree', !.file = f]}
  /\ UNCHANGED <<disk, editorVars, reviewVars, deploy, agent>>
  /\ Note({}, FALSE)

\* An autosave's answer is not awaited, and a save's only ends "Saving...".
ServeSave(r) ==
  /\ r.kind \in {"autosave", "save", "flush"} /\ r.file \in tree
  /\ disk' = [disk EXCEPT ![r.file] = r.text]
  /\ requests' = requests \ {r}
  /\ UNCHANGED <<tree, serverOpen, editorVars, reviewVars, deploy, agent>>
  /\ Note({}, FALSE)

\* update_project_structure replaces the list of nodes with the editor's.
ServeStructure(r) ==
  /\ r.kind = "structure"
  /\ tree' = r.nodes
  /\ serverOpen' = r.file
  /\ requests' = requests \ {r}
  /\ UNCHANGED <<disk, editorVars, reviewVars, deploy, agent>>
  /\ Note({}, FALSE)

----------------------------------------------------------------------------
(* Answers. *)

\* What fetchFileContent puts into the buffer of f for a text.
Fetched(f, text) == IF text = Empty THEN Demo[f] ELSE text

\* Variant: a late answer replaces the buffer.
FileLoadedOverwrites(r) ==
  /\ r.kind = "load" /\ r.served
  /\ requests' = requests \ {r}
  /\ buffers' = [buffers EXCEPT ![r.file] = Fetched(r.file, r.text)]
  /\ changes' = Backfilled(changes, buffers')
  /\ UNCHANGED <<serverVars, timers, nodes, active, structureTimer, busy, original, deploy, agent>>
  /\ Note({}, FALSE)

\* fetchFileContent keeps a buffer that is there already: typed in, or set
\* by the agent, while the file was on its way.
FileLoaded(r) ==
  /\ r.kind = "load" /\ r.served
  /\ requests' = requests \ {r}
  /\ buffers' = IF buffers[r.file] # None THEN buffers
                ELSE [buffers EXCEPT ![r.file] = Fetched(r.file, r.text)]
  /\ changes' = Backfilled(changes, buffers')
  /\ UNCHANGED <<serverVars, timers, nodes, active, structureTimer, busy, original, deploy, agent>>
  /\ Note({}, FALSE)

\* A load that fails leaves the demo text in the buffer.
LoadFails(r) ==
  /\ r.kind = "load"
  /\ requests' = requests \ {r}
  /\ buffers' = IF buffers[r.file] # None THEN buffers
                ELSE [buffers EXCEPT ![r.file] = Fetched(r.file, Empty)]
  /\ changes' = Backfilled(changes, buffers')
  /\ UNCHANGED <<serverVars, timers, nodes, active, structureTimer, busy, original, deploy, agent>>
  /\ Note({r.file}, FALSE)

\* reloadFileContent takes an empty text as it is.
FileReloaded(r) ==
  /\ r.kind = "reload" /\ r.served
  /\ requests' = requests \ {r}
  /\ buffers' = [buffers EXCEPT ![r.file] = r.text]
  /\ changes' = Backfilled(changes, buffers')
  /\ UNCHANGED <<serverVars, timers, nodes, active, structureTimer, busy, original, deploy, agent>>
  /\ Note({}, FALSE)

\* A refetch that fails keeps the buffer: what was typed there may have lost
\* the timer that would have saved it.
ReloadFails(r) ==
  /\ r.kind = "reload"
  /\ requests' = requests \ {r}
  /\ UNCHANGED <<serverVars, editorVars, reviewVars, deploy, agent>>
  /\ Note({r.file}, FALSE)

\* What was typed is in the buffer only.
SaveFails(r) ==
  /\ r.kind \in {"autosave", "save"}
  /\ requests' = requests \ {r}
  /\ UNCHANGED <<serverVars, editorVars, reviewVars, deploy, agent>>
  /\ Note({r.file}, FALSE)

\* Variant: the open file is taken from the answer, the nodes are not.
ApplyRemoteOpens(r) ==
  /\ r.kind \in {"create", "refresh"} /\ r.served
  /\ active' = r.file
  /\ structureTimer' = FALSE
  /\ requests' = (requests \ {r}) \cup LoadOf(r.file, buffers)
  /\ UNCHANGED <<serverVars, nodes, buffers, timers, reviewVars, deploy, agent>>
  /\ Note({}, FALSE)

\* Variant: the answer is dropped, as a failed one is.
ApplyRemoteNothing(r) ==
  /\ r.kind \in {"create", "refresh"} /\ r.served
  /\ requests' = requests \ {r}
  /\ UNCHANGED <<serverVars, editorVars, reviewVars, deploy, agent>>
  /\ Note({}, FALSE)

\* applyRemoteProject: the server's nodes and open file replace the editor's,
\* and skipSaveRef keeps this change from being saved: the autosave of an
\* earlier one is dropped with it.  An answer that was overtaken by a newer one
\* takes nodes away again.
ApplyRemoteProject(r) ==
  /\ r.kind \in {"create", "refresh"} /\ r.served
  /\ nodes' = r.nodes
  /\ active' = r.file
  /\ structureTimer' = FALSE
  /\ requests' = (requests \ {r}) \cup LoadOf(r.file, buffers)
  /\ UNCHANGED <<serverVars, buffers, timers, reviewVars, deploy, agent>>
  /\ Note({}, ~(nodes \subseteq r.nodes))

\* A refresh that fails is ignored, and so is a structure that was not saved;
\* a creation that fails is reported, whether or not the server made the node.
ProjectCallFails(r) ==
  /\ r.kind \in {"create", "refresh", "structure"}
  /\ deploy.phase # "structure" \/ r.kind # "structure"
  /\ requests' = requests \ {r}
  /\ UNCHANGED <<serverVars, editorVars, reviewVars, deploy, agent>>
  /\ Note({}, r.kind # "structure")

----------------------------------------------------------------------------
(* The agent edits the server's copies and streams its edits. *)

\* Variant: every edit keeps the text it was made from.
HandleLastChange(page, edit) ==
  LET f == edit.file
      texts == [page.buffers EXCEPT ![f] = edit.new]
      record == [previous |-> edit.previous, new |-> edit.new, status |-> "pending"]
  IN [changes |-> Backfilled([page.changes EXCEPT ![f] = record], texts), buffers |-> texts]

\* handleAgentChange, on the list of changes and the buffers.  The first
\* pending edit of a file keeps the text to go back to.
HandleAgentChange(page, edit) ==
  LET f == edit.file
      old == page.changes[f]
      open == old # None /\ old.status = "pending"
      texts == [page.buffers EXCEPT ![f] = edit.new]
      record == [previous |-> IF open THEN old.previous ELSE edit.previous,
                 new |-> edit.new, status |-> "pending"]
  IN [changes |-> Backfilled([page.changes EXCEPT ![f] = record], texts), buffers |-> texts]

\* handleSend: one run at a time.
StartAgent ==
  /\ ~agent.running
  /\ agent.runs < MaxRuns
  /\ agent' = [AtRest EXCEPT !.running = TRUE, !.working = TRUE, !.runs = agent.runs + 1]
  /\ UNCHANGED <<serverVars, editorVars, requests, reviewVars, deploy>>
  /\ Note({}, FALSE)

\* The write_code step has written edit.new to the file, and goes on.
AgentWrites(edit) ==
  /\ agent.working /\ ~agent.telling
  /\ Len(agent.edits) < MaxEdits
  /\ agent' = [agent EXCEPT !.edits = Append(@, edit)]

\* write_code_workspace_file_for_agent
AgentEdits(f, text) ==
  /\ f \in tree /\ disk[f] # text
  /\ disk' = [disk EXCEPT ![f] = text]
  /\ original' = IF original[f] = None THEN [original EXCEPT ![f] = disk[f]] ELSE original
  /\ AgentWrites([file |-> f, previous |-> disk[f], new |-> text, created |-> FALSE])
  /\ UNCHANGED <<tree, serverOpen, editorVars, requests, changes, busy, deploy>>
  /\ Note({r.file : r \in Calls({"reload", "undone"})} \cap {f}, FALSE)

\* create_code_workspace_file_for_agent: the new file is the open one.
AgentCreates(f, text) ==
  /\ f \notin born
  /\ tree' = tree \cup {f}
  /\ serverOpen' = f
  /\ disk' = [disk EXCEPT ![f] = text]
  /\ original' = [original EXCEPT ![f] = Empty]
  /\ AgentWrites([file |-> f, previous |-> Empty, new |-> text, created |-> TRUE])
  /\ UNCHANGED <<editorVars, requests, changes, busy, deploy>>
  /\ Note({}, FALSE)

\* The step returns and its edits are told, one event each; emitted_edit_ids
\* leaves out a file of which the run has told an edit already.
AgentTells ==
  /\ agent.working /\ agent.told < Len(agent.edits)
  /\ LET n == agent.told + 1
         first == \A m \in 1 .. n - 1 : agent.edits[m].file # agent.edits[n].file
     IN agent' = [agent EXCEPT !.told = n, !.telling = n < Len(agent.edits),
                    !.stream = IF first THEN Append(@, agent.edits[n]) ELSE @]
  /\ UNCHANGED <<serverVars, editorVars, requests, reviewVars, deploy>>
  /\ Note({}, FALSE)

Done == [file |-> None]

AgentDone ==
  /\ agent.working /\ agent.told = Len(agent.edits)
  /\ agent' = [agent EXCEPT !.working = FALSE, !.stream = Append(@, Done)]
  /\ UNCHANGED <<serverVars, editorVars, requests, reviewVars, deploy>>
  /\ Note({}, FALSE)

\* Every edit of f has been told.
Told(f) == \A m, n \in DOMAIN agent.edits :
  (agent.edits[m].file = f /\ agent.edits[n].file = f) => m = n /\ n <= agent.told

\* The run ends without a "done": at a plan to review, or when a step raises,
\* after which the edits of a step that has not returned are never told.
AgentFails ==
  /\ agent.working /\ ~agent.telling
  /\ agent' = [agent EXCEPT !.working = FALSE]
  /\ UNCHANGED <<serverVars, editorVars, requests, reviewVars, deploy>>
  /\ Note({f \in Files : ~Told(f)},
          \E n \in DOMAIN agent.edits : n > agent.told /\ agent.edits[n].created)

\* The connection breaks, and what was in it is lost.  (What the run still
\* writes on the server after that is left out.)
StreamBreaks ==
  /\ agent.working \/ agent.stream # <<>>
  /\ agent' = [agent EXCEPT !.working = FALSE, !.telling = FALSE, !.stream = <<>>]
  /\ UNCHANGED <<serverVars, editorVars, requests, reviewVars, deploy>>
  /\ Note(Touched(agent.edits), \E n \in DOMAIN agent.edits : agent.edits[n].created)

\* The page after the first n edits.
Pages(edits) ==
  LET page[n \in 0 .. Len(edits)] ==
        IF n = 0 THEN [changes |-> changes, buffers |-> buffers]
        ELSE HandleAgentChange(page[n - 1], edits[n])
  IN page

\* What a list of edits does to the editor: onAgentChange, then onFileEdited,
\* which is reloadFileContent: it drops the file's pending save and fetches.
Delivers(edits, calls) ==
  /\ changes' = Pages(edits)[Len(edits)].changes
  /\ buffers' = Pages(edits)[Len(edits)].buffers
  /\ timers' = [f \in Files |-> IF f \in Touched(edits) THEN None ELSE timers[f]]
  /\ requests' = requests \cup calls \cup {FileCall("reload", f, None) : f \in Touched(edits)}

\* The event that follows the edit that created a file.
ProjectChanged == [file |-> None, created |-> TRUE]

\* "edit": a new file makes the editor ask for the project too, ...
EditArrives ==
  /\ MayCall
  /\ agent.stream # <<>> /\ Head(agent.stream) \notin {Done, ProjectChanged}
  /\ LET edit == Head(agent.stream)
     IN /\ Delivers(<<edit>>, IF edit.created THEN {TreeCall("refresh", {}, None)} ELSE {})
        /\ agent' = [agent EXCEPT !.stream =
                       IF edit.created THEN [@ EXCEPT ![1] = ProjectChanged] ELSE Tail(@)]
  /\ UNCHANGED <<serverVars, nodes, active, structureTimer, busy, original, deploy>>
  /\ Note({}, FALSE)

\* ... and again at "project_changed".
ProjectChangedArrives ==
  /\ MayCall
  /\ agent.stream # <<>> /\ Head(agent.stream) = ProjectChanged
  /\ requests' = requests \cup {TreeCall("refresh", {}, None)}
  /\ agent' = [agent EXCEPT !.stream = Tail(@)]
  /\ UNCHANGED <<serverVars, editorVars, reviewVars, deploy>>
  /\ Note({}, FALSE)

\* "done": every edit of the run again, reviewed or not.
DoneArrives ==
  /\ MayCall
  /\ agent.stream # <<>> /\ Head(agent.stream) = Done
  /\ Delivers(agent.edits, {})
  /\ agent' = [agent EXCEPT !.stream = <<>>]
  /\ UNCHANGED <<serverVars, nodes, active, structureTimer, busy, original, deploy>>
  /\ Note({}, FALSE)

\* The finally of handleSend.
StreamEnds ==
  /\ agent.running /\ ~agent.working /\ agent.stream = <<>>
  /\ agent' = [agent EXCEPT !.running = FALSE, !.edits = <<>>, !.told = 0]
  /\ UNCHANGED <<serverVars, editorVars, requests, reviewVars, deploy>>
  /\ Note({}, FALSE)

----------------------------------------------------------------------------
(* The user reviews the agent's changes. *)

Pending(f) == changes[f] # None /\ changes[f].status = "pending"

\* handleAcceptChange: the editor takes the agent's text, whatever has been
\* typed since, and nothing is saved.
AcceptChange(f) ==
  /\ Pending(f) /\ busy # f
  /\ buffers' = [buffers EXCEPT ![f] = changes[f].new]
  /\ changes' = Backfilled([changes EXCEPT ![f].status = "accepted"], buffers')
  /\ busy' = None
  /\ original' = [original EXCEPT ![f] = None]
  /\ UNCHANGED <<serverVars, timers, nodes, active, structureTimer, requests, deploy, agent>>
  /\ Note(IF buffers[f] # changes[f].new \/ Streaming(f) THEN {f} ELSE {}, FALSE)

\* handleRejectChange: the text to go back to is saved first, ...
RejectChange(f) ==
  /\ MayCall
  /\ Pending(f) /\ busy # f
  /\ busy' = f
  /\ requests' = requests \cup {FileCall("restore", f, changes[f].previous)}
  /\ UNCHANGED <<serverVars, editorVars, changes, original, deploy, agent>>
  /\ Note({}, FALSE)

\* ... then reloadFileContent drops a pending save and fetches it, ...
ServeRestore(r) ==
  /\ r.kind = "restore" /\ r.file \in tree
  /\ disk' = [disk EXCEPT ![r.file] = r.text]
  /\ timers' = [timers EXCEPT ![r.file] = None]
  /\ requests' = (requests \ {r}) \cup {FileCall("undone", r.file, None)}
  /\ UNCHANGED <<tree, serverOpen, buffers, nodes, active, structureTimer, reviewVars, deploy,
                  agent>>
  /\ Note({}, FALSE)

\* ... and the change is marked, also when it could not be fetched.
Rejected(f, texts) ==
  /\ changes' = Backfilled([changes EXCEPT ![f].status = "rejected"], texts)
  /\ original' = [original EXCEPT ![f] = None]
  /\ busy' = None

ChangeUndone(r) ==
  /\ r.kind = "undone" /\ r.served
  /\ requests' = requests \ {r}
  /\ buffers' = [buffers EXCEPT ![r.file] = r.text]
  /\ Rejected(r.file, buffers')
  /\ UNCHANGED <<serverVars, timers, nodes, active, structureTimer, deploy, agent>>
  /\ Note({}, FALSE)

UndoneUnseen(r) ==
  /\ r.kind = "undone"
  /\ requests' = requests \ {r}
  /\ Rejected(r.file, buffers)
  /\ UNCHANGED <<serverVars, editorVars, deploy, agent>>
  /\ Note({r.file}, FALSE)

\* The save of the text to go back to fails; the server may have taken it.
RejectFails(r) ==
  /\ r.kind = "restore"
  /\ \/ disk' = disk
     \/ r.file \in tree /\ disk' = [disk EXCEPT ![r.file] = r.text]
  /\ requests' = requests \ {r}
  /\ busy' = None
  /\ UNCHANGED <<tree, serverOpen, editorVars, changes, original, deploy, agent>>
  /\ Note({r.file}, FALSE)

----------------------------------------------------------------------------
(* Deploying: every file is saved, then the structure, then the server builds. *)

\* handleDeploy and flushProjectFiles.  A file that was never opened has no
\* buffer, and is saved as an empty one.
Deploy ==
  /\ MayCall
  /\ deploy.phase = "no"
  /\ deploy' = [phase |-> "files", nodes |-> nodes, file |-> active]
  /\ timers' = [f \in Files |-> IF f \in nodes THEN None ELSE timers[f]]
  /\ requests' = requests \cup
       {FileCall("flush", f, IF buffers[f] = None THEN Empty ELSE buffers[f]) : f \in nodes}
  /\ UNCHANGED <<serverVars, buffers, nodes, active, structureTimer, reviewVars, agent>>
  /\ Note({}, FALSE)

FilesFlushed ==
  /\ MayCall
  /\ deploy.phase = "files" /\ Calls({"flush"}) = {}
  /\ deploy' = [deploy EXCEPT !.phase = "structure"]
  /\ requests' = requests \cup {TreeCall("structure", deploy.nodes, deploy.file)}
  /\ UNCHANGED <<serverVars, editorVars, reviewVars, agent>>
  /\ Note({}, FALSE)

StructureFlushed ==
  /\ deploy.phase = "structure"
  /\ TreeCall("structure", deploy.nodes, deploy.file) \notin requests
  /\ deploy' = [deploy EXCEPT !.phase = "build"]
  /\ UNCHANGED <<serverVars, editorVars, requests, reviewVars, agent>>
  /\ Note({}, FALSE)

\* The deploy's answer, or an error of any of its calls: the rest of the
\* saves are not taken back.
DeployEnds ==
  /\ deploy.phase # "no"
  /\ deploy' = Idle
  /\ UNCHANGED <<serverVars, editorVars, requests, reviewVars, agent>>
  /\ Note({}, FALSE)

FlushFails(r) ==
  /\ r.kind = "flush"
  /\ requests' = requests \ {r}
  /\ deploy' = Idle
  /\ UNCHANGED <<serverVars, editorVars, reviewVars, agent>>
  /\ Note({r.file}, FALSE)

----------------------------------------------------------------------------

UserStep ==
  /\ acts < MaxActs
  /\ acts' = acts + 1
  /\ session' = session
  /\ \/ CloseTab
     \/ \E f \in Files : OpenFile(f) \/ AcceptChange(f) \/ RejectChange(f)
     \/ "type" \in session /\ (SaveFile \/ \E text \in Written : Type(text))
     \/ "search" \in session /\ PrepareSearch
     \/ "create" \in session /\ CreateFile
     \/ "deploy" \in session /\ Deploy

TimerStep ==
  \/ "arrange" \in session /\ StructureTimerFires
  \/ \E f \in Files : AutosaveFires(f)

ServerStep == \E r \in requests :
  \/ ServeRead(r) \/ ServeRefresh(r) \/ ServeCreate(r)
  \/ ServeSave(r) \/ ServeStructure(r) \/ ServeRestore(r)

Answer == \E r \in requests :
  \/ FileLoaded(r) \/ LoadFails(r)
  \/ FileReloaded(r) \/ ReloadFails(r)
  \/ SaveFails(r) \/ ApplyRemoteProject(r) \/ ProjectCallFails(r)
  \/ ChangeUndone(r) \/ UndoneUnseen(r) \/ RejectFails(r) \/ FlushFails(r)

AgentStep ==
  \/ session \cap {"edit", "grow"} # {} /\ StartAgent
  \/ AgentTells \/ AgentDone \/ AgentFails \/ StreamBreaks
  \/ "edit" \in session /\ \E f \in Files, text \in Contents : AgentEdits(f, text)
  \/ "grow" \in session /\ \E f \in Files, text \in Stored \ {Empty} : AgentCreates(f, text)
  \/ EditArrives \/ ProjectChangedArrives \/ DoneArrives \/ StreamEnds

DeployStep == FilesFlushed \/ StructureFlushed \/ DeployEnds

Next ==
  \/ UserStep
  \/ /\ TimerStep \/ ServerStep \/ Answer \/ AgentStep \/ DeployStep
     /\ UNCHANGED <<session, acts>>

Spec == Init /\ [][Next]_vars

----------------------------------------------------------------------------
(* Properties. *)

Edit == [file : Files, previous : Text, new : Text, created : BOOLEAN]

Request ==
  [kind : Reads \cup Writes \cup {"create", "refresh", "structure"},
   file : Files \cup {None}, text : Text \cup {None}, nodes : SUBSET Files,
   served : BOOLEAN]

\* Every variable has its type, and the open file is a node the editor knows.
TypeOK ==
  /\ disk \in [Files -> Text]
  /\ tree \subseteq Files /\ serverOpen \in Files \cup {None}
  /\ buffers \in [Files -> Text \cup {None}]
  /\ timers \in [Files -> Text \cup {None}]
  /\ nodes \subseteq Files /\ active \in nodes \cup {None}
  /\ structureTimer \in BOOLEAN
  /\ requests \subseteq Request
  /\ changes \in [Files -> Change \cup {None}]
  /\ busy \in Files \cup {None} /\ session \in Sessions /\ acts \in 0 .. MaxActs
  /\ deploy \in [phase : {"no", "files", "structure", "build"},
                 nodes : SUBSET Files, file : Files \cup {None}]
  /\ agent \in [running : BOOLEAN, working : BOOLEAN, telling : BOOLEAN, told : Nat,
                stream : Seq(Edit \cup {Done, ProjectChanged}), edits : Seq(Edit),
                runs : 0 .. MaxRuns]
  /\ original \in [Files -> Text \cup {None}]
  /\ born \subseteq Files /\ crossed \subseteq Files /\ overtaken \in BOOLEAN

\* The buffer agrees with the server's copy.
InStep(f) == buffers[f] = disk[f] \/ (disk[f] = Empty /\ buffers[f] = Demo[f])

\* Nothing about f is on its way between the editor and the server.
Settled(f) ==
  /\ timers[f] = None /\ ~Streaming(f) /\ CallsOn(f) = {}

\* The editor shows what the server holds: of a file whose exchanges never
\* overlapped and never failed, once nothing about it is on its way, the
\* buffer is the server's copy -- typed and saved, edited by the agent,
\* accepted, rejected or deployed -- or the demo text of the file's path, and
\* then only while the server's copy is empty (code-workspace.tsx:300-376,
\* 663-678, 1160-1204, 1241-1268).
EditorShowsServer ==
  \A f \in Files :
    (buffers[f] # None /\ Settled(f) /\ f \notin crossed) => InStep(f)

\* A rejected change is undone: when the change of a file is marked rejected,
\* and its exchanges never overlapped, the server and the editor are back at
\* the text the file had before the agent's first edit the user had not
\* reviewed, however many edits and runs came after it
\* (code-workspace.tsx:1160-1204, 1241-1268).
RejectUndoesEveryEdit ==
  [][\A f \in Files :
       (/\ f \notin crossed' /\ Pending(f)
        /\ changes'[f].status = "rejected")
         => disk'[f] = original[f] /\ buffers'[f] = original[f]]_vars

\* No file of the project gets lost: unless the user moved in the tree while
\* it was being changed on the server, or the news of a change was lost or
\* applied after newer news, every file ever created, by the user or by the
\* agent, is still a node of the project (code-workspace.tsx:394-408, 582-601,
\* 748-765).
EveryFileKept == ~overtaken => tree = born

\* For the run that refutes it.  The deploy dialog says it "builds your
\* project" (ide-deploy-modal.tsx:85): flushing the editor's files leaves a
\* file of the project that the editor has not opened as the server has it
\* (code-workspace.tsx:936-952).
DeployKeepsUnopenedFiles ==
  [][\A f \in Files :
       (deploy.phase = "files" /\ buffers[f] = None /\ f # active /\ ~agent.running)
         => disk'[f] = disk[f]]_vars
=============================================================================

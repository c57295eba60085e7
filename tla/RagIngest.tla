----------------------------- MODULE RagIngest -----------------------------
(***************************************************************************)
(* The life of one library document: the upload and import endpoints, the  *)
(* ingest job they dispatch (inside the request, after the response, or on *)
(* a Celery worker) and the delete endpoint.  Each works in a database     *)
(* session of its own, and the row they share is the only thing that tells *)
(* them of each other.  Documents share no state, so one is enough.        *)
(*                                                                         *)
(* A session keeps the values of its last load until it commits (`held`),  *)
(* and an UPDATE writes the columns assigned a value different from the    *)
(* loaded one: that is how SQLAlchemy flushes, and what makes the          *)
(* interleavings below matter.                                             *)
(***************************************************************************)
EXTENDS Integers, FiniteSets

CONSTANT Settings   \* the values of rag_ingest_mode the instance covers

ASSUME SettingsAssumption ==
    Settings \subseteq {"sync", "auto", "celery", "background"}

\* The two places an ingest job can run in: the API process and a worker.
Jobs == {"api", "worker"}

VARIABLES
    setting,    \* rag_ingest_mode of this deployment
    req,        \* where the upload or import request is
    mode,       \* IngestDispatchResult.mode
    row,        \* the rag_documents row and its rag_chunks
    file,       \* whether the uploaded bytes are on disk
    jobs,       \* the ingest jobs of the document
    deleting,   \* where the delete request is
    crashed     \* the processes that have died, and a commit that has failed

vars == <<setting, req, mode, row, file, jobs, deleting, crashed>>

Statuses == {"absent", "pending", "processing", "ready", "failed"}

\* "upload": the keys the handler adds; "stack": the embedding_stack that
\* retrieval needs to embed a query the way the chunks were embedded.
Keys == {"upload", "stack"}

NoRow == [status |-> "absent", meta |-> {}, chunks |-> {}]
Present == row.status # "absent"

NoHeld == [status |-> "absent", meta |-> {}, seen |-> {}]
NoJob == [at |-> "none", held |-> NoHeld]

\* What a flush leaves in the status column.
Flushed(held, new) == IF new = held THEN row.status ELSE new

Init ==
    /\ setting \in Settings
    /\ req = "idle"
    /\ mode = "none"
    /\ row = NoRow
    /\ file = FALSE
    /\ jobs = [j \in Jobs |-> NoJob]
    /\ deleting = "no"
    /\ crashed = {}

-----------------------------------------------------------------------------
(* The upload endpoint.                                                    *)

\* Variant: the bytes are written by a later step.
SaveFileLater ==
    /\ req = "idle"
    /\ req' \in {"saved", "webpage"}
    /\ UNCHANGED <<setting, mode, row, file, jobs, deleting, crashed>>

\* The bytes are written before anything else is known about them.
SaveFile ==
    /\ req = "idle"
    /\ file' = TRUE
    /\ req' \in {"saved", "webpage"}
    /\ UNCHANGED <<setting, mode, row, jobs, deleting, crashed>>

\* _inspect_pdf_bytes answers 400 and leaves the file where it is.
RejectPdf ==
    /\ req = "saved"
    /\ req' = "refused"
    /\ UNCHANGED <<setting, mode, row, file, jobs, deleting, crashed>>

InsertImage ==
    /\ req = "saved"
    /\ row' = [row EXCEPT !.status = "ready", !.meta = {"upload"}]
    /\ req' = "image"
    /\ UNCHANGED <<setting, mode, file, jobs, deleting, crashed>>

InsertPdf ==
    /\ req = "saved"
    /\ row' = [row EXCEPT !.status = "pending"]
    /\ req' = "inserted"
    /\ UNCHANGED <<setting, mode, file, jobs, deleting, crashed>>

Queue(S) == jobs' = [j \in Jobs |-> IF j \in S THEN [NoJob EXCEPT !.at = "queued"]
                                               ELSE jobs[j]]

\* run_ingest_job is called by the handler, which waits for it.
DispatchSync ==
    /\ req = "inserted" /\ setting = "sync"
    /\ Queue({"api"})
    /\ mode' = "sync"
    /\ req' = "waiting"
    /\ UNCHANGED <<setting, row, file, deleting, crashed>>

DispatchCelery ==
    /\ req = "inserted" /\ setting \in {"auto", "celery"}
    /\ Queue({"worker"})
    /\ mode' = "celery"
    /\ req' = "dispatched"
    /\ UNCHANGED <<setting, row, file, deleting, crashed>>

\* delay() raised, before the task reached the broker or after: a job of its
\* own is added to the response although the worker's may exist as well.
DispatchBackground ==
    /\ req = "inserted" /\ setting \in {"auto", "background"}
    /\ \/ Queue({"api"})
       \/ setting = "auto" /\ Queue({"api", "worker"})
    /\ mode' = "background"
    /\ req' = "dispatched"
    /\ UNCHANGED <<setting, row, file, deleting, crashed>>

\* The same exception with RAG_INGEST_MODE=celery: 503, the row stays.
DispatchRefused ==
    /\ req = "inserted" /\ setting = "celery"
    /\ Queue({}) \/ Queue({"worker"})
    /\ req' = "refused"
    /\ UNCHANGED <<setting, mode, row, file, deleting, crashed>>

\* Variant: the dispatch mode is written to the status column.
FinishStoresMode ==
    /\ req = "dispatched" /\ Present
    /\ row' = [row EXCEPT !.meta = {"upload"}, !.status = mode]
    /\ req' = "answered"
    /\ UNCHANGED <<setting, mode, file, jobs, deleting, crashed>>

\* The handler's session loaded the row before the dispatch (refresh), so it
\* writes its own metadata over whatever the job has written, and its own
\* "processing" over any status.
Finish ==
    /\ \/ req = "dispatched"
       \/ req = "waiting" /\ jobs["api"].at = "ended"
    /\ \/ /\ Present
          /\ row' = [row EXCEPT !.meta = {"upload"},
                                !.status = IF mode # "sync" THEN "processing" ELSE @]
          /\ req' = "answered"
       \/ ~Present /\ req' = "refused" /\ UNCHANGED row
    /\ UNCHANGED <<setting, mode, file, jobs, deleting, crashed>>

-----------------------------------------------------------------------------
(* import_webpage: insert and index in one request.                        *)

InsertWebpage ==
    /\ req = "webpage"
    /\ row' = [row EXCEPT !.status = "processing", !.meta = {"upload"}]
    /\ req' = "indexing"
    /\ UNCHANGED <<setting, mode, file, jobs, deleting, crashed>>

IndexWebpage ==
    /\ req = "indexing"
    /\ \/ /\ Present
          /\ row' = [status |-> "ready", meta |-> Keys, chunks |-> {"api"}]
          /\ req' = "imported"
       \/ /\ Present
          /\ row' = [row EXCEPT !.status = "failed"]
          /\ req' = "refused"
       \/ ~Present /\ req' = "refused" /\ UNCHANGED row
    /\ UNCHANGED <<setting, mode, file, jobs, deleting, crashed>>

-----------------------------------------------------------------------------
(* run_ingest_job / ingest_document.                                       *)

Job(j, at, held) == jobs' = [jobs EXCEPT ![j] = [at |-> at, held |-> held]]

\* Variant: the job does not wait for the response.
MayStartAtOnce(j) == jobs[j].at = "queued"

\* BackgroundTasks run once the response is sent.
MayStart(j) ==
    /\ jobs[j].at = "queued"
    /\ j = "api" => req \in {"waiting", "answered"}

JobStart(j) ==
    /\ MayStart(j)
    /\ \/ /\ Present
          /\ row' = [row EXCEPT !.status = "processing"]
          /\ Job(j, "started", NoHeld)
       \/ ~Present /\ Job(j, "ended", NoHeld) /\ UNCHANGED row
    /\ UNCHANGED <<setting, req, mode, file, deleting, crashed>>

\* The commit expired the row; reading storage_path loads it again, and this
\* is the metadata that is written back minutes later.  Extraction reads the
\* file right after.
JobLoad(j) ==
    /\ jobs[j].at = "started" /\ Present
    /\ Job(j, IF file THEN "loaded" ELSE "unreadable",
           [status |-> row.status, meta |-> row.meta, seen |-> {}])
    /\ UNCHANGED <<setting, req, mode, row, file, deleting, crashed>>

\* Pages extracted and embedded; the chunks of earlier ingests are deleted
\* in the transaction that will add the new ones.
JobClearChunks(j) ==
    /\ jobs[j].at = "loaded"
    /\ Job(j, "cleared", [jobs[j].held EXCEPT !.seen = row.chunks])
    /\ UNCHANGED <<setting, req, mode, row, file, deleting, crashed>>

\* Variant: the row is written back whether or not it still exists.
JobReadyResurrects(j) ==
    /\ jobs[j].at = "cleared"
    /\ row' = [status |-> "ready", meta |-> jobs[j].held.meta \union {"stack"},
               chunks |-> (row.chunks \ jobs[j].held.seen) \union {j}]
    /\ Job(j, "ended", NoHeld)
    /\ UNCHANGED <<setting, req, mode, file, deleting, crashed>>

\* Variant: the job writes only the metadata keys of its own.
JobReadyDropsMetadata(j) ==
    /\ jobs[j].at = "cleared" /\ Present
    /\ row' = [status |-> "ready", meta |-> {"stack"}, chunks |-> {j}]
    /\ Job(j, "ended", NoHeld)
    /\ UNCHANGED <<setting, req, mode, file, deleting, crashed>>

JobReady(j) ==
    /\ jobs[j].at = "cleared" /\ Present
    /\ row' = [status |-> Flushed(jobs[j].held.status, "ready"),
               meta |-> jobs[j].held.meta \union {"stack"},
               chunks |-> (row.chunks \ jobs[j].held.seen) \union {j}]
    /\ Job(j, "ended", NoHeld)
    /\ UNCHANGED <<setting, req, mode, file, deleting, crashed>>

\* Extraction or embedding raised.
JobFailed(j) ==
    /\ jobs[j].at \in {"loaded", "unreadable"} /\ Present
    /\ row' = [row EXCEPT !.status = Flushed(jobs[j].held.status, "failed")]
    /\ Job(j, "ended", NoHeld)
    /\ UNCHANGED <<setting, req, mode, file, deleting, crashed>>

\* The row is gone: the flush raises, so does the handler's commit, and
\* run_ingest_job logs it.
JobStale(j) ==
    /\ jobs[j].at \in {"started", "loaded", "unreadable", "cleared"} /\ ~Present
    /\ Job(j, "ended", NoHeld)
    /\ UNCHANGED <<setting, req, mode, row, file, deleting, crashed>>

\* The commit of the outcome raises.  The chunks that were deleted and added are
\* rolled back and the session wants a rollback first, so that the handler's
\* commit raises as well, and the row keeps the status that was committed last.
CommitFails(j) ==
    /\ "commit" \notin crashed /\ crashed' = crashed \union {"commit"}
    /\ jobs[j].at \in {"loaded", "unreadable", "cleared"} /\ Present
    /\ Job(j, "ended", NoHeld)
    /\ UNCHANGED <<setting, req, mode, row, file, deleting>>

-----------------------------------------------------------------------------
(* The delete endpoint: the file first, then the row and its chunks.       *)

DeleteFile ==
    /\ Present /\ deleting \in {"no", "interrupted"}
    /\ file' = FALSE
    /\ deleting' = "unlinked"
    /\ UNCHANGED <<setting, req, mode, row, jobs, crashed>>

DeleteRow ==
    /\ deleting = "unlinked"
    /\ row' = NoRow
    /\ deleting' = "done"
    /\ UNCHANGED <<setting, req, mode, file, jobs, crashed>>

-----------------------------------------------------------------------------
(* Processes die: requests, background tasks and running Celery tasks       *)
(* (acknowledged when received) are lost, queued Celery tasks are not.      *)

Lost(j) == [at |-> "lost", held |-> NoHeld]

CrashApi ==
    /\ "api" \notin crashed
    /\ crashed' = crashed \union {"api"}
    /\ req' = IF req \in {"answered", "image", "imported", "refused"} THEN req ELSE "refused"
    /\ jobs' = [jobs EXCEPT !["api"] =
                   IF @.at \in {"none", "ended"} THEN @ ELSE Lost("api")]
    /\ deleting' = IF deleting = "unlinked" THEN "interrupted" ELSE deleting
    /\ UNCHANGED <<setting, mode, row, file>>

CrashWorker ==
    /\ "worker" \notin crashed
    /\ crashed' = crashed \union {"worker"}
    /\ jobs' = [jobs EXCEPT !["worker"] =
                   IF @.at \in {"none", "queued", "ended"} THEN @ ELSE Lost("worker")]
    /\ UNCHANGED <<setting, req, mode, row, file, deleting>>

-----------------------------------------------------------------------------
Upload == \/ RejectPdf \/ InsertImage \/ InsertPdf \/ DispatchSync \/ DispatchCelery
          \/ DispatchBackground \/ DispatchRefused \/ Finish
Import == InsertWebpage \/ IndexWebpage
JobStep(j) == \/ JobStart(j) \/ JobLoad(j) \/ JobClearChunks(j) \/ JobReady(j)
              \/ JobFailed(j) \/ JobStale(j)

Next == \/ SaveFile \/ Upload \/ Import
        \/ \E j \in Jobs : JobStep(j)
        \/ DeleteFile \/ DeleteRow
        \/ CrashApi \/ CrashWorker \/ \E j \in Jobs : CommitFails(j)

Spec == Init /\ [][Next]_vars

\* A request that has begun is carried through and a job that may start is
\* run; nobody has to upload or delete anything, and nothing has to crash.
FairSpec == /\ Spec
            /\ WF_vars(Upload \/ Import)
            /\ \A j \in Jobs : WF_vars(JobStep(j))
            /\ WF_vars(DeleteRow)
-----------------------------------------------------------------------------
(* Properties.                                                             *)

Places == {"none", "queued", "started", "loaded", "unreadable", "cleared", "ended",
           "lost"}
Requests == {"idle", "saved", "webpage", "refused", "image", "inserted", "waiting",
             "dispatched", "answered", "indexing", "imported"}

\* Every variable has the type of the row, session or request it stands for.
TypeOK ==
    /\ setting \in Settings
    /\ req \in Requests
    /\ mode \in {"none", "sync", "celery", "background"}
    /\ row \in [status : Statuses, meta : SUBSET Keys, chunks : SUBSET Jobs]
    /\ file \in BOOLEAN
    /\ jobs \in [Jobs -> [at : Places,
                          held : [status : Statuses, meta : SUBSET Keys,
                                  seen : SUBSET Jobs]]]
    /\ deleting \in {"no", "unlinked", "interrupted", "done"}
    /\ crashed \subseteq {"api", "worker", "commit"}

\* A document somebody can list has its bytes on disk, unless its deletion has
\* begun: whatever the order of uploads, jobs, deletions and crashes.
RowKeepsItsFile == Present /\ deleting = "no" => file

\* A document shown as ready has been indexed (an image has nothing to index):
\* no order of jobs and requests publishes "ready" without chunks.  Where the job
\* starts after the response the index is whole, and what a query is embedded
\* with and what the upload recorded both survive (ingest.py:69-93,
\* files.py:227-247).
ReadyIsIndexed ==
    row.status = "ready" /\ req # "image" =>
        /\ row.chunks # {}
        /\ setting = "background" => row.meta = Keys /\ row.chunks = {"api"}

\* A deleted document stays deleted: a job that still holds the row in its
\* session cannot bring it, or its chunks, back.
DeletedStaysDeleted == [][deleting = "done" => row' = NoRow]_vars

\* "Poll GET /api/files/{id} until status is ready or failed": an accepted
\* upload gets there, unless it is deleted, a process dies or a commit fails.
PollingEnds ==
    req = "answered" ~> \/ row.status \in {"ready", "failed", "absent"}
                        \/ crashed # {}

\* The same where the job starts after the response, so that the handler has
\* written its "processing" by then (files.py:236-238, ingest_dispatch.py:46).
\* When the commit of the outcome fails (ingest.py:91) the row stays "processing".
PollingEndsInBackground ==
    setting = "background" /\ req = "answered"
        ~> row.status \in {"ready", "failed", "absent"} \/ crashed # {}
=============================================================================

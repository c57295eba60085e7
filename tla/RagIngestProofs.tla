-------------------------- MODULE RagIngestProofs --------------------------
(***************************************************************************)
(* Theorems about RagIngest, for every set of ingest modes.                *)
(*                                                                         *)
(* None of the three properties is inductive: whether a row keeps its      *)
(* bytes depends on what the upload has done before there is a row, whether *)
(* a deleted row comes back on which requests can still insert one, and    *)
(* whether a ready row is indexed on what the job read before the response *)
(* was sent.  BytesFirst, DeletionIsLast and OneJobAfterTheAnswer say so.  *)
(***************************************************************************)
EXTENDS RagIngest, TLAPS

Row == [status : Statuses, meta : SUBSET Keys, chunks : SUBSET Jobs]
Held == [status : Statuses, meta : SUBSET Keys, seen : SUBSET Jobs]
JobState == [at : Places, held : Held]

\* The bytes come before the row and before any step that inserts it.
BytesFirst ==
  deleting = "no" /\ (Present \/ req \notin {"idle", "refused"}) => file

\* A row is deleted only after its request has inserted it, and no request
\* inserts twice.
DeletionIsLast ==
  /\ req \in {"idle", "saved", "webpage"} => row = NoRow /\ deleting = "no"
  /\ deleting = "done" => row = NoRow

\* Where the job runs after the response there is one job, and it reads the
\* metadata that the handler has written.
OneJobAfterTheAnswer ==
  setting = "background" =>
    /\ mode # "sync" /\ req # "waiting"
    /\ jobs["worker"].at = "none"
    /\ row.chunks \subseteq {"api"}
    /\ req = "answered" /\ Present => "upload" \in row.meta
    /\ jobs["api"].at \in {"started", "loaded", "unreadable", "cleared"} =>
         req = "answered"
    /\ jobs["api"].at \in {"loaded", "unreadable", "cleared"} =>
         "upload" \in jobs["api"].held.meta

Indexed == OneJobAfterTheAnswer /\ ReadyIsIndexed

----------------------------------------------------------------------------
(* Types.                                                                  *)

\* What the job actions assign is a state of a job.
LEMMA JobType ==
  ASSUME TypeOK, NEW j \in Jobs, NEW at \in Places, NEW held \in Held, Job(j, at, held)
  PROVE  jobs' \in [Jobs -> JobState]
BY DEF TypeOK, Job, JobState, Held

\* What dispatching assigns is a state of every job.
LEMMA QueueType ==
  ASSUME TypeOK, NEW S, Queue(S)
  PROVE  jobs' \in [Jobs -> JobState]
BY DEF TypeOK, Queue, JobState, Held, NoJob, NoHeld, Statuses, Places

\* What the sessions start from.
LEMMA RowTypes ==
  ASSUME TypeOK
  PROVE  /\ row \in Row /\ NoRow \in Row /\ NoHeld \in Held
         /\ \A j \in Jobs : jobs[j] \in JobState
<1>1. row \in Row
  BY DEF TypeOK, Row
<1>2. NoRow \in Row /\ NoHeld \in Held
  BY DEF Row, Held, NoRow, NoHeld, Statuses
<1>3. \A j \in Jobs : jobs[j] \in JobState
  BY DEF TypeOK, JobState, Held
<1> QED
  BY <1>1, <1>2, <1>3

\* The rows that the handlers write: new values of the status and the
\* metadata, and the chunks as they were.
LEMMA RowUpdate ==
  ASSUME NEW r \in Row, NEW s \in Statuses, NEW m \in SUBSET Keys
  PROVE  /\ [r EXCEPT !.status = s] = [status |-> s, meta |-> r.meta, chunks |-> r.chunks]
         /\ [r EXCEPT !.status = s, !.meta = m]
              = [status |-> s, meta |-> m, chunks |-> r.chunks]
         /\ [r EXCEPT !.meta = m, !.status = s]
              = [status |-> s, meta |-> m, chunks |-> r.chunks]
         /\ [r EXCEPT !.status = s] \in Row
         /\ [r EXCEPT !.status = s, !.meta = m] \in Row
         /\ [r EXCEPT !.meta = m, !.status = s] \in Row
<1> DEFINE a == [r EXCEPT !.status = s]
           b == [r EXCEPT !.status = s, !.meta = m]
           c == [r EXCEPT !.meta = m, !.status = s]
<1>1. a \in Row /\ a.status = s /\ a.meta = r.meta /\ a.chunks = r.chunks
  BY DEF Row
<1>2. b \in Row /\ b.status = s /\ b.meta = m /\ b.chunks = r.chunks
  BY DEF Row
<1>3. c \in Row /\ c.status = s /\ c.meta = m /\ c.chunks = r.chunks
  BY DEF Row
<1> HIDE DEF a, b, c
<1>4. \A e \in Row : e = [status |-> e.status, meta |-> e.meta, chunks |-> e.chunks]
  BY DEF Row
<1>5. /\ a = [status |-> s, meta |-> r.meta, chunks |-> r.chunks]
      /\ b = [status |-> s, meta |-> m, chunks |-> r.chunks]
      /\ c = [status |-> s, meta |-> m, chunks |-> r.chunks]
  BY <1>1, <1>2, <1>3, <1>4
<1> QED
  BY <1>1, <1>2, <1>3, <1>5 DEF a, b, c

\* A flush leaves a status.
LEMMA FlushedType ==
  ASSUME TypeOK, NEW h, NEW s \in Statuses
  PROVE  Flushed(h, s) \in Statuses
BY DEF TypeOK, Flushed

\* The empty database.
LEMMA InitTypeOK == Init => TypeOK
<1> SUFFICES ASSUME Init PROVE TypeOK
  OBVIOUS
<1>1. NoRow \in Row /\ NoJob \in JobState
  BY DEF NoRow, NoJob, NoHeld, Row, JobState, Held, Statuses, Places
<1>2. jobs \in [Jobs -> JobState]
  BY <1>1 DEF Init
<1> QED
  BY <1>1, <1>2 DEF Init, TypeOK, Row, JobState, Held, Requests

\* The upload endpoint keeps the types.
LEMMA UploadTypeOK == TypeOK /\ (SaveFile \/ Upload) => TypeOK'
<1> SUFFICES ASSUME TypeOK, SaveFile \/ Upload PROVE TypeOK'
  OBVIOUS
<1> USE RowTypes
<1>1. CASE SaveFile
  BY <1>1 DEF SaveFile, TypeOK, Requests
<1>2. CASE RejectPdf
  BY <1>2 DEF RejectPdf, TypeOK, Requests
<1>3. CASE InsertImage
  <2>1. row' \in Row
    BY <1>3 DEF InsertImage, Row, Statuses, Keys
  <2> QED
    BY <1>3, <2>1 DEF InsertImage, TypeOK, Requests, Row
<1>4. CASE InsertPdf
  <2>1. row' \in Row
    BY <1>4 DEF InsertPdf, Row, Statuses
  <2> QED
    BY <1>4, <2>1 DEF InsertPdf, TypeOK, Requests, Row
<1>5. CASE DispatchSync \/ DispatchCelery \/ DispatchBackground \/ DispatchRefused
  <2>1. jobs' \in [Jobs -> JobState]
    BY <1>5, QueueType
    DEF DispatchSync, DispatchCelery, DispatchBackground, DispatchRefused
  <2> QED
    BY <1>5, <2>1
    DEF DispatchSync, DispatchCelery, DispatchBackground, DispatchRefused, TypeOK,
        Requests, JobState, Held
<1>6. CASE Finish
  <2>1. row' \in Row
    <3>1. (IF mode # "sync" THEN "processing" ELSE row.status) \in Statuses
      BY DEF Row, Statuses
    <3>2. {"upload"} \in SUBSET Keys
      BY DEF Keys
    <3>3. [row EXCEPT !.meta = {"upload"},
                       !.status = IF mode # "sync" THEN "processing" ELSE row.status]
            \in Row
      BY <3>1, <3>2, RowUpdate
    <3> QED
      BY <1>6, <3>3 DEF Finish
  <2> QED
    BY <1>6, <2>1 DEF Finish, TypeOK, Requests, Row
<1> QED
  BY <1>1, <1>2, <1>3, <1>4, <1>5, <1>6 DEF Upload

\* So does the import of a webpage,
LEMMA ImportTypeOK == TypeOK /\ Import => TypeOK'
<1> SUFFICES ASSUME TypeOK, Import PROVE TypeOK'
  OBVIOUS
<1>1. row' \in Row
  <2>1. {"processing", "failed", "ready"} \subseteq Statuses /\ {"upload"} \in SUBSET Keys
    BY DEF Statuses, Keys
  <2>2. [status |-> "ready", meta |-> Keys, chunks |-> {"api"}] \in Row
    BY <2>1 DEF Row, Jobs
  <2>3. [row EXCEPT !.status = "processing", !.meta = {"upload"}] \in Row
    BY <2>1, RowTypes, RowUpdate
  <2>4. [row EXCEPT !.status = "failed"] \in Row
    BY <2>1, RowTypes, RowUpdate DEF Row
  <2> QED
    BY <2>2, <2>3, <2>4, RowTypes DEF Import, InsertWebpage, IndexWebpage
<1> QED
  BY <1>1 DEF Import, InsertWebpage, IndexWebpage, TypeOK, Requests, Row

\* an ingest job, in either process,
LEMMA JobStepTypeOK == ASSUME TypeOK, NEW j \in Jobs, JobStep(j) PROVE TypeOK'
<1> USE RowTypes
<1>1. CASE JobStart(j) \/ JobStale(j)
  <2>1. row' \in Row
    <3>1. [row EXCEPT !.status = "processing"] \in Row
      BY RowUpdate DEF Statuses, Row
    <3> QED
      BY <1>1, <3>1 DEF JobStart, JobStale
  <2>2. jobs' \in [Jobs -> JobState]
    BY <1>1, JobType DEF JobStart, JobStale, Places
  <2> QED
    BY <1>1, <2>1, <2>2 DEF JobStart, JobStale, TypeOK, Row, JobState, Held
<1>2. CASE JobLoad(j)
  <2>1. [status |-> row.status, meta |-> row.meta, seen |-> {}] \in Held
    BY DEF Row, Held
  <2>2. jobs' \in [Jobs -> JobState]
    BY <1>2, <2>1, JobType DEF JobLoad, Places
  <2> QED
    BY <1>2, <2>2 DEF JobLoad, TypeOK, JobState, Held
<1>3. CASE JobClearChunks(j)
  <2>1. [jobs[j].held EXCEPT !.seen = row.chunks] \in Held
    BY DEF Row, Held, JobState
  <2>2. jobs' \in [Jobs -> JobState]
    BY <1>3, <2>1, JobType DEF JobClearChunks, Places
  <2> QED
    BY <1>3, <2>2 DEF JobClearChunks, TypeOK, JobState, Held
<1>4. CASE JobReady(j) \/ JobFailed(j)
  <2>1. Flushed(jobs[j].held.status, "ready") \in Statuses
        /\ Flushed(jobs[j].held.status, "failed") \in Statuses
    BY FlushedType DEF Statuses
  <2>2. row' \in Row
    BY <1>4, <2>1 DEF JobReady, JobFailed, Row, JobState, Held, Keys
  <2>3. jobs' \in [Jobs -> JobState]
    BY <1>4, JobType DEF JobReady, JobFailed, Places
  <2> QED
    BY <1>4, <2>2, <2>3 DEF JobReady, JobFailed, TypeOK, Row, JobState, Held
<1> QED
  BY <1>1, <1>2, <1>3, <1>4 DEF JobStep

\* the delete endpoint,
LEMMA DeleteTypeOK == TypeOK /\ (DeleteFile \/ DeleteRow) => TypeOK'
BY RowTypes DEF DeleteFile, DeleteRow, TypeOK, Row

\* a commit that fails,
LEMMA CommitTypeOK == ASSUME TypeOK, NEW j \in Jobs, CommitFails(j) PROVE TypeOK'
<1>1. NoHeld \in Held
  BY RowTypes
<1>2. jobs' \in [Jobs -> JobState]
  BY <1>1, JobType DEF CommitFails, Places
<1> QED
  BY <1>2 DEF CommitFails, TypeOK, JobState, Held

\* and the death of a process.
LEMMA CrashTypeOK == TypeOK /\ (CrashApi \/ CrashWorker) => TypeOK'
<1> SUFFICES ASSUME TypeOK, CrashApi \/ CrashWorker PROVE TypeOK'
  OBVIOUS
<1>1. jobs' \in [Jobs -> JobState]
  BY RowTypes DEF TypeOK, CrashApi, CrashWorker, JobState, Held, Lost, Places, Jobs
<1>2. req' \in Requests
  BY DEF TypeOK, CrashApi, CrashWorker, Requests
<1> QED
  BY <1>1, <1>2 DEF TypeOK, CrashApi, CrashWorker, JobState, Held

\* Every step keeps the types.
LEMMA NextTypeOK == TypeOK /\ [Next]_vars => TypeOK'
<1> SUFFICES ASSUME TypeOK, [Next]_vars PROVE TypeOK'
  OBVIOUS
<1>1. CASE UNCHANGED vars
  BY <1>1 DEF vars, TypeOK
<1> QED
  BY <1>1, UploadTypeOK, ImportTypeOK, JobStepTypeOK, DeleteTypeOK, CommitTypeOK, CrashTypeOK
  DEF Next

\* Every variable has its type, whatever the deployment's ingest modes.
THEOREM TypeCorrect == Spec => []TypeOK
BY InitTypeOK, NextTypeOK, PTL DEF Spec

----------------------------------------------------------------------------
(* The bytes of a row, and rows that were deleted.                         *)

\* The bytes are written before anything else, and removed by a deletion only.
LEMMA NextBytesFirst == TypeOK /\ BytesFirst /\ [Next]_vars => BytesFirst'
<1> SUFFICES ASSUME TypeOK, BytesFirst, [Next]_vars PROVE BytesFirst'
  OBVIOUS
<1> USE DEF BytesFirst, Present
<1>1. CASE SaveFile \/ Upload
  BY <1>1 DEF SaveFile, Upload, RejectPdf, InsertImage, InsertPdf, DispatchSync,
              DispatchCelery, DispatchBackground, DispatchRefused, Finish
<1>2. CASE Import
  BY <1>2 DEF Import, InsertWebpage, IndexWebpage
<1>3. ASSUME NEW j \in Jobs, JobStep(j) PROVE BytesFirst'
  BY <1>3 DEF JobStep, JobStart, JobLoad, JobClearChunks, JobReady, JobFailed, JobStale
<1>4. CASE \/ DeleteFile \/ DeleteRow \/ CrashApi \/ CrashWorker
           \/ \E j \in Jobs : CommitFails(j)
           \/ UNCHANGED vars
  BY <1>4 DEF DeleteFile, DeleteRow, CrashApi, CrashWorker, CommitFails, vars, TypeOK
<1> QED
  BY <1>1, <1>2, <1>3, <1>4 DEF Next

\* A document that can be listed has its bytes on disk until its deletion
\* begins: no order of uploads, jobs, deletions and crashes loses them.
THEOREM RowKeepsItsFileAlways == Spec => []RowKeepsItsFile
<1>1. Init => BytesFirst
  BY DEF Init, BytesFirst, Present, NoRow
<1>2. BytesFirst => RowKeepsItsFile
  BY DEF BytesFirst, RowKeepsItsFile
<1> QED
  BY <1>1, <1>2, TypeCorrect, NextBytesFirst, PTL DEF Spec

\* A row is inserted once, by the request that saved the bytes; every later
\* step needs the row it finds.
LEMMA NextDeletionIsLast ==
  TypeOK /\ DeletionIsLast /\ [Next]_vars =>
    DeletionIsLast' /\ (deleting = "done" => row' = NoRow)
<1> SUFFICES ASSUME TypeOK, DeletionIsLast, [Next]_vars
             PROVE  DeletionIsLast' /\ (deleting = "done" => row' = NoRow)
  OBVIOUS
<1> USE DEF DeletionIsLast
<1>0. row = NoRow => ~Present
  BY DEF Present, NoRow
<1>1. CASE SaveFile \/ Upload
  BY <1>1, <1>0
  DEF SaveFile, Upload, RejectPdf, InsertImage, InsertPdf, DispatchSync, DispatchCelery,
      DispatchBackground, DispatchRefused, Finish
<1>2. CASE Import
  BY <1>2, <1>0 DEF Import, InsertWebpage, IndexWebpage
<1>3. ASSUME NEW j \in Jobs, JobStep(j)
      PROVE  DeletionIsLast' /\ (deleting = "done" => row' = NoRow)
  BY <1>3, <1>0
  DEF JobStep, JobStart, JobLoad, JobClearChunks, JobReady, JobFailed, JobStale
<1>4. CASE \/ DeleteFile \/ DeleteRow \/ CrashApi \/ CrashWorker
           \/ \E j \in Jobs : CommitFails(j)
           \/ UNCHANGED vars
  BY <1>4, <1>0 DEF DeleteFile, DeleteRow, CrashApi, CrashWorker, CommitFails, vars
<1> QED
  BY <1>1, <1>2, <1>3, <1>4 DEF Next

\* Neither a job that still holds the row in its session, nor the request that
\* dispatched it, brings a deleted document back.
THEOREM DeletedForGood == Spec => DeletedStaysDeleted
<1>1. Init => DeletionIsLast
  BY DEF Init, DeletionIsLast
<1>2. TypeOK /\ DeletionIsLast /\ [Next]_vars => [deleting = "done" => row' = NoRow]_vars
  BY NextDeletionIsLast
<1>3. TypeOK /\ DeletionIsLast /\ [Next]_vars => DeletionIsLast'
  BY NextDeletionIsLast
<1> QED
  BY <1>1, <1>2, <1>3, TypeCorrect, PTL DEF Spec, DeletedStaysDeleted

----------------------------------------------------------------------------
(* What "ready" promises.                                                  *)

\* The upload writes the metadata before the job reads it, and never a status
\* that the chunks do not bear out.
LEMMA UploadIndexed == TypeOK /\ Indexed /\ (SaveFile \/ Upload) => Indexed'
<1> SUFFICES ASSUME TypeOK, Indexed, SaveFile \/ Upload PROVE Indexed'
  OBVIOUS
<1>0. row \in Row /\ {"ready", "pending", "processing"} \subseteq Statuses
      /\ {"upload"} \in SUBSET Keys
  BY RowTypes DEF Statuses, Keys
<1> USE DEF Indexed, OneJobAfterTheAnswer, ReadyIsIndexed, Present
<1>1. CASE SaveFile \/ RejectPdf
  BY <1>1 DEF SaveFile, RejectPdf
<1>2. CASE InsertImage
  <2>1. row' = [status |-> "ready", meta |-> {"upload"}, chunks |-> row.chunks]
    BY <1>0, <1>2, RowUpdate DEF InsertImage
  <2> QED
    BY <1>2, <2>1 DEF InsertImage
<1>3. CASE InsertPdf
  <2>1. row' = [status |-> "pending", meta |-> row.meta, chunks |-> row.chunks]
    BY <1>0, <1>3, RowUpdate DEF InsertPdf
  <2> QED
    BY <1>3, <2>1 DEF InsertPdf
<1>4. CASE DispatchSync \/ DispatchCelery \/ DispatchBackground \/ DispatchRefused
  BY <1>4 DEF DispatchSync, DispatchCelery, DispatchBackground, DispatchRefused, Queue,
              NoJob, Jobs
<1>5. CASE Finish /\ Present
  <2>1. PICK s \in Statuses :
          /\ row' = [row EXCEPT !.meta = {"upload"}, !.status = s]
          /\ s = IF mode # "sync" THEN "processing" ELSE row.status
    BY <1>0, <1>5 DEF Finish, Row
  <2>2. row' = [status |-> s, meta |-> {"upload"}, chunks |-> row.chunks]
    BY <1>0, <2>1, RowUpdate
  <2> QED
    BY <1>5, <2>1, <2>2 DEF Finish
<1>6. CASE Finish /\ ~Present
  BY <1>6 DEF Finish
<1> QED
  BY <1>1, <1>2, <1>3, <1>4, <1>5, <1>6 DEF Upload

\* The import publishes the row with its chunks in one step.
LEMMA ImportIndexed == TypeOK /\ Indexed /\ Import => Indexed'
<1> SUFFICES ASSUME TypeOK, Indexed, Import PROVE Indexed'
  OBVIOUS
<1>0. row \in Row /\ {"failed", "processing"} \subseteq Statuses
      /\ {"upload"} \in SUBSET Keys
  BY RowTypes DEF Statuses, Keys
<1>1. CASE InsertWebpage
  <2>1. row' = [status |-> "processing", meta |-> {"upload"}, chunks |-> row.chunks]
    BY <1>0, <1>1, RowUpdate DEF InsertWebpage
  <2> QED
    BY <1>1, <2>1
    DEF InsertWebpage, Indexed, OneJobAfterTheAnswer, ReadyIsIndexed, Present
<1>2. CASE IndexWebpage /\ row' = [row EXCEPT !.status = "failed"]
  <2>1. row' = [status |-> "failed", meta |-> row.meta, chunks |-> row.chunks]
    BY <1>0, <1>2, RowUpdate
  <2> QED
    BY <1>2, <2>1
    DEF IndexWebpage, Indexed, OneJobAfterTheAnswer, ReadyIsIndexed, Present
<1>3. CASE IndexWebpage /\ row' # [row EXCEPT !.status = "failed"]
  BY <1>3 DEF IndexWebpage, Indexed, OneJobAfterTheAnswer, ReadyIsIndexed, Present, Keys
<1> QED
  BY <1>1, <1>2, <1>3 DEF Import

\* A job publishes "ready" together with its chunks, and with the metadata it
\* has read.
LEMMA JobStepIndexed ==
  ASSUME TypeOK, Indexed, NEW j \in Jobs, JobStep(j) PROVE Indexed'
<1>0. row \in Row /\ {"failed", "processing"} \subseteq Statuses
  BY RowTypes DEF Statuses
<1>j. /\ DOMAIN jobs = Jobs
      /\ "api" \in Jobs /\ "worker" \in Jobs
      /\ setting = "background" /\ jobs[j].at # "none" => j = "api"
  BY DEF TypeOK, Jobs, Indexed, OneJobAfterTheAnswer
<1> USE DEF Indexed, OneJobAfterTheAnswer, ReadyIsIndexed, Present
<1>1. CASE JobStart(j) /\ Present
  <2>1. row' = [status |-> "processing", meta |-> row.meta, chunks |-> row.chunks]
    BY <1>0, <1>1, RowUpdate DEF JobStart
  <2>2. jobs' = [jobs EXCEPT ![j] = [at |-> "started", held |-> NoHeld]]
    BY <1>1 DEF JobStart, Job
  <2>3. setting = "background" => req = "answered"
    BY <1>1, <1>j DEF JobStart, MayStart
  <2>4. setting' = setting /\ req' = req /\ mode' = mode
    BY <1>1 DEF JobStart
  <2>5. setting = "background" => jobs'["worker"] = jobs["worker"]
    BY <1>1, <1>j, <2>2 DEF JobStart, MayStart
  <2>6. jobs'["api"].at = "started" \/ jobs'["api"] = jobs["api"]
    BY <1>j, <2>2
  <2> QED
    BY <1>1, <2>1, <2>3, <2>4, <2>5, <2>6
<1>2. CASE (JobStart(j) /\ ~Present) \/ JobLoad(j) \/ JobClearChunks(j) \/ JobStale(j)
  <2>1. PICK p, h : /\ jobs' = [jobs EXCEPT ![j] = [at |-> p, held |-> h]]
                    /\ \/ p = "ended"
                       \/ p \in {"loaded", "unreadable"} /\ JobLoad(j) /\ h.meta = row.meta
                       \/ p = "cleared" /\ JobClearChunks(j) /\ h.meta = jobs[j].held.meta
    <3>1. CASE JobLoad(j)
      <4>1. [status |-> row.status, meta |-> row.meta, seen |-> {}].meta = row.meta
        OBVIOUS
      <4>2. CASE file
        BY <3>1, <4>1, <4>2 DEF JobLoad, Job
      <4>3. CASE ~file
        BY <3>1, <4>1, <4>3 DEF JobLoad, Job
      <4> QED
        BY <4>2, <4>3
    <3>2. CASE JobClearChunks(j)
      <4>1. [jobs[j].held EXCEPT !.seen = row.chunks].meta = jobs[j].held.meta
        BY RowTypes DEF JobState, Held
      <4> QED
        BY <3>2, <4>1 DEF JobClearChunks, Job
    <3>3. CASE (JobStart(j) /\ ~Present) \/ JobStale(j)
      BY <3>3 DEF JobStart, JobStale, Job
    <3> QED
      BY <1>2, <3>1, <3>2, <3>3
  <2>2. /\ setting' = setting /\ req' = req /\ mode' = mode /\ row' = row
        /\ jobs[j].at # "none"
    BY <1>2 DEF JobStart, MayStart, JobLoad, JobClearChunks, JobStale
  <2>3. setting = "background" => jobs'["worker"] = jobs["worker"]
    BY <1>j, <2>1, <2>2
  <2>4. \/ jobs'["api"] = jobs["api"]
        \/ j = "api" /\ jobs'["api"] = [at |-> p, held |-> h]
    BY <1>j, <2>1
  <2>5. /\ JobLoad(j) => jobs[j].at = "started" /\ row.status # "absent"
        /\ JobClearChunks(j) => jobs[j].at = "loaded"
    BY DEF JobLoad, JobClearChunks
  <2> QED
    BY <2>1, <2>2, <2>3, <2>4, <2>5
<1>3. CASE JobReady(j)
  <2>1. jobs' = [jobs EXCEPT ![j] = [at |-> "ended", held |-> NoHeld]]
    BY <1>3 DEF JobReady, Job
  <2>2. /\ row'.chunks = (row.chunks \ jobs[j].held.seen) \union {j}
        /\ row'.meta = jobs[j].held.meta \union {"stack"}
        /\ jobs[j].at = "cleared" /\ row.status # "absent"
    BY <1>3 DEF JobReady
  <2>3. jobs[j].held.meta \subseteq Keys
    BY RowTypes DEF JobState, Held
  <2>4. setting = "background" =>
          /\ row'.meta = Keys /\ row'.chunks = {"api"}
          /\ "upload" \in row'.meta
    BY <1>j, <2>2, <2>3 DEF Keys
  <2>5. setting = "background" => req = "answered"
    BY <1>j, <2>2
  <2>6. setting' = setting /\ req' = req /\ mode' = mode
    BY <1>3 DEF JobReady
  <2>7. jobs'["api"].at = "ended" \/ jobs'["api"] = jobs["api"]
    BY <1>j, <2>1
  <2>8. setting = "background" => jobs'["worker"] = jobs["worker"]
    BY <1>j, <2>1, <2>2
  <2>9. OneJobAfterTheAnswer'
    BY <1>j, <2>2, <2>4, <2>5, <2>6, <2>7, <2>8
  <2>10. ReadyIsIndexed'
    BY <2>2, <2>4, <2>6
  <2> QED
    BY <2>9, <2>10
<1>4. CASE JobFailed(j)
  <2>1. jobs' = [jobs EXCEPT ![j] = [at |-> "ended", held |-> NoHeld]]
    BY <1>4 DEF JobFailed, Job
  <2>2. PICK s \in {row.status, "failed"} : row' = [row EXCEPT !.status = s]
    BY <1>4 DEF JobFailed, Flushed
  <2>3. row' = [status |-> s, meta |-> row.meta, chunks |-> row.chunks]
    BY <1>0, <2>2, RowUpdate DEF Row
  <2> QED
    BY <1>4, <1>j, <2>1, <2>2, <2>3 DEF JobFailed
<1> QED
  BY <1>1, <1>2, <1>3, <1>4 DEF JobStep

\* Nothing else publishes anything.
LEMMA DeleteIndexed == TypeOK /\ Indexed /\ (DeleteFile \/ DeleteRow) => Indexed'
BY DEF DeleteFile, DeleteRow, Indexed, OneJobAfterTheAnswer, ReadyIsIndexed, Present, NoRow

\* A process that dies takes its job with it.
LEMMA CrashIndexed == TypeOK /\ Indexed /\ (CrashApi \/ CrashWorker) => Indexed'
BY DEF TypeOK, CrashApi, CrashWorker, Indexed, OneJobAfterTheAnswer, ReadyIsIndexed,
       Present, Jobs, Lost

\* A commit that fails publishes nothing, and ends the job.
LEMMA CommitIndexed == ASSUME TypeOK, Indexed, NEW j \in Jobs, CommitFails(j) PROVE Indexed'
<1>1. /\ jobs[j].at \in {"loaded", "unreadable", "cleared"}
      /\ jobs' = [jobs EXCEPT ![j] = [at |-> "ended", held |-> NoHeld]]
      /\ UNCHANGED <<setting, req, mode, row, file, deleting>>
  BY DEF CommitFails, Job
<1> QED
  BY <1>1 DEF TypeOK, Indexed, OneJobAfterTheAnswer, ReadyIsIndexed, Present, Jobs

\* Every step keeps what "ready" promises.
LEMMA NextIndexed == TypeOK /\ Indexed /\ [Next]_vars => Indexed'
<1> SUFFICES ASSUME TypeOK, Indexed, [Next]_vars PROVE Indexed'
  OBVIOUS
<1>1. CASE UNCHANGED vars
  BY <1>1 DEF vars, Indexed, OneJobAfterTheAnswer, ReadyIsIndexed, Present
<1> QED
  BY <1>1, UploadIndexed, ImportIndexed, JobStepIndexed, DeleteIndexed, CommitIndexed, CrashIndexed
  DEF Next

\* No order of jobs and requests publishes "ready" without chunks; and where the
\* job starts after the response, what retrieval and the library page need of
\* the metadata both survive.
THEOREM ReadyIsIndexedAlways == Spec => []ReadyIsIndexed
<1>1. Init => Indexed
  BY DEF Init, Indexed, OneJobAfterTheAnswer, ReadyIsIndexed, Present, NoRow, NoJob, Jobs
<1>2. Indexed => ReadyIsIndexed
  BY DEF Indexed
<1> QED
  BY <1>1, <1>2, TypeCorrect, NextIndexed, PTL DEF Spec
=============================================================================

-------------------------- MODULE DocumentPipeline --------------------------
(***************************************************************************)
(* Uploaded documents: the upload, reprocess and delete handlers of        *)
(* handlers/documents.py, process_document of agent/document_processor.py, *)
(* the agent's read and analyze tools, and the start-up of rentmate/app.py *)
(* that queues unfinished documents again.                                 *)
(*                                                                         *)
(* An instance has one event loop.  The local storage never suspends, so   *)
(* a handler, or a whole process_document, keeps the loop until it ends;   *)
(* an agent run is on the loop too or has a thread of its own.  What can   *)
(* interleave is what lies between two commits of different workers, and a *)
(* crash can come between any two.                                         *)
(*                                                                         *)
(* All documents here are uploads of one file: documents of different      *)
(* files have nothing in common.                                           *)
(***************************************************************************)
EXTENDS Naturals, FiniteSets

CONSTANTS Instances,
          Threads,      \* the instances on which an agent run has a thread
          Docs,         \* document ids, none of them used twice
          MaxRequests,  \* bound: tool calls, requests to reprocess or to delete
          MaxCrashes    \* bound: crashes, errors that cannot be written, and
                        \* uploads and deletions whose commit fails

ASSUME PipelineAssumption ==
    /\ Threads \subseteq Instances
    /\ {MaxRequests, MaxCrashes} \subseteq Nat

VARIABLES
    up,        \* instances that run
    status,    \* status[d] of the row, "none" before and "deleted" after it
    text,      \* documents with a raw_text
    data,      \* data[d]: extracted_data
    files,     \* documents with a file in the storage
    job,       \* job[w]: what the worker w does, and with which document
    queue,     \* queue[i]: background tasks of instance i yet to start
    requests,  \* requests so far
    faults,    \* of these so far
    silent,    \* history: documents whose error could not be written
    cut,       \* history: documents whose upload or deletion was cut short
    raced,     \* history: documents reprocessed while a run was in its last step
    nulled,    \* history: documents whose last result was no object but null
    crossed    \* history: two uploads have overlapped

vars == <<up, status, text, data, files, job, queue, requests, faults, silent,
          cut, raced, nulled, crossed>>
history == <<silent, cut, raced, nulled, crossed>>

Workers == Instances \X {"loop"} \cup Threads \X {"agent"}
Loop(i) == <<i, "loop">>
Of(i) == {w \in Workers : w[1] = i}

Rows == {d \in Docs : status[d] \notin {"none", "deleted"}}
Results == {"found", "empty"}
Unfinished == {"pending", "processing"}

Idle == [phase |-> "idle"]
Job(phase, d) == [phase |-> phase, doc |-> d]
\* A run before its last commit, with the columns it has loaded.
LlmJob(d) == [phase |-> "llm", doc |-> d, seen |-> status[d], had |-> data[d]]

On(w, d) == job[w] # Idle /\ job[w].doc = d
Free(w) == w[1] \in up /\ job[w] = Idle
At(w, phase) == w[1] \in up /\ job[w].phase = phase
Become(w, j) == job' = [job EXCEPT ![w] = j]

Init ==
    /\ up = Instances
    /\ status = [d \in Docs |-> "none"]
    /\ text = {}
    /\ data = [d \in Docs |-> "none"]
    /\ files = {}
    /\ job = [w \in Workers |-> Idle]
    /\ queue = [i \in Instances |-> {}]
    /\ requests = 0
    /\ faults = 0
    /\ silent = {}
    /\ cut = {}
    /\ raced = {}
    /\ nulled = {}
    /\ crossed = FALSE

-----------------------------------------------------------------------------
(* upload_document: the query, the storage and the row.  A file that has   *)
(* one row is answered with it; with two rows one_or_none raises.          *)

\* Mutant of NewFile: the checksum is not looked up.
NewFile_Unchecked == TRUE
NewFile == Rows = {}

UploadBegins(i, d) ==
    /\ Free(Loop(i))
    /\ NewFile
    /\ status[d] = "none" /\ d \notin files
    /\ files' = files \cup {d}
    /\ Become(Loop(i), Job("inserting", d))
    /\ crossed' = (crossed \/ \E w \in Workers : job[w].phase = "inserting")
    /\ UNCHANGED <<up, status, text, data, queue, requests, faults, silent,
                   cut, raced, nulled>>

\* skip: the row is left pending until a tool or a start-up takes it.
UploadInserts(i, skip) ==
    LET w == Loop(i)
        d == job[w].doc IN
    /\ At(w, "inserting")
    /\ status' = [status EXCEPT ![d] = "pending"]
    /\ queue' = IF skip THEN queue ELSE [queue EXCEPT ![i] = @ \cup {d}]
    /\ Become(w, Idle)
    /\ UNCHANGED <<up, text, data, files, requests, faults, history>>

(* reprocess_document: the results are cleared, the text is not.           *)
Reprocess(i, d) ==
    /\ Free(Loop(i)) /\ requests < MaxRequests
    /\ d \in Rows
    /\ status' = [status EXCEPT ![d] = "pending"]
    /\ data' = [data EXCEPT ![d] = "none"]
    /\ queue' = [queue EXCEPT ![i] = @ \cup {d}]
    /\ requests' = requests + 1
    /\ raced' = IF \E w \in Workers : On(w, d) /\ job[w].phase = "llm"
                THEN raced \cup {d} ELSE raced
    /\ UNCHANGED <<up, text, files, job, faults, silent, cut, nulled, crossed>>

(* delete_document: the file, at best, and then the row.                   *)
DeleteFile(i, d) ==
    /\ Free(Loop(i)) /\ requests < MaxRequests
    /\ d \in Rows
    /\ files' \in {files, files \ {d}}
    /\ cut' = IF files' = files THEN cut \cup {d} ELSE cut
    /\ Become(Loop(i), Job("deleting", d))
    /\ requests' = requests + 1
    /\ UNCHANGED <<up, status, text, data, queue, faults, silent, raced,
                   nulled, crossed>>

\* Mutant of DeleteRow: the row stays.
DeleteRow_Kept(i) ==
    /\ At(Loop(i), "deleting")
    /\ Become(Loop(i), Idle)
    /\ UNCHANGED <<up, status, text, data, files, queue, requests, faults,
                   history>>

\* The row may be gone by now: the DELETE then matches none.
DeleteRow(i) ==
    LET w == Loop(i)
        d == job[w].doc IN
    /\ At(w, "deleting")
    /\ status' = [status EXCEPT ![d] = "deleted"]
    /\ Become(w, Idle)
    /\ UNCHANGED <<up, text, data, files, queue, requests, faults, history>>

\* The commit of an upload or a deletion fails, as for a document_type longer
\* than its column: what was done to the storage stays done.
CommitFails(i) ==
    LET w == Loop(i) IN
    /\ At(w, "inserting") \/ At(w, "deleting")
    /\ faults < MaxCrashes
    /\ faults' = faults + 1
    /\ cut' = cut \cup {job[w].doc}
    /\ Become(w, Idle)
    /\ UNCHANGED <<up, status, text, data, files, queue, requests, silent,
                   raced, nulled, crossed>>

-----------------------------------------------------------------------------
(* Who runs process_document.                                              *)

Begins(w, d) ==
    IF d \in Rows
    THEN /\ status' = [status EXCEPT ![d] = "processing"]
         /\ Become(w, Job("begun", d))
    ELSE /\ Become(w, Idle)
         /\ UNCHANGED status

StartQueued(i, d) ==
    /\ Free(Loop(i))
    /\ d \in queue[i]
    /\ queue' = [queue EXCEPT ![i] = @ \ {d}]
    /\ Begins(Loop(i), d)
    /\ UNCHANGED <<up, text, data, files, requests, faults, history>>

\* ReadDocumentTool analyses a document first that has no text.
Reads(d) == status[d] = "pending" /\ d \notin text
\* AnalyzeDocumentTool leaves alone what is done or in process.
Analyzes(d) == d \in Rows /\ status[d] \notin {"done", "processing"}

\* A tool looks at the status in a session of its own, then starts the run.
ToolCall(w, d) ==
    /\ Free(w) /\ requests < MaxRequests
    /\ Reads(d) \/ Analyzes(d)
    /\ Become(w, Job("called", d))
    /\ requests' = requests + 1
    /\ UNCHANGED <<up, status, text, data, files, queue, faults, history>>

StartCalled(w) ==
    /\ At(w, "called")
    /\ Begins(w, job[w].doc)
    /\ UNCHANGED <<up, text, data, files, queue, requests, faults, history>>

-----------------------------------------------------------------------------
(* process_document after its first commit.                                *)

\* A commit on a row that is gone raises like any other failure.
Commits(w, ok) == job[w].doc \in Rows /\ ok

\* The file is read; the text is committed, and the row loaded again, before
\* the model is called.
ExtractText(w, readable) ==
    LET d == job[w].doc IN
    /\ At(w, "begun")
    /\ IF Commits(w, d \in files /\ readable)
       THEN /\ text' = text \cup {d}
            /\ Become(w, LlmJob(d))
       ELSE /\ Become(w, Job("failed", d))
            /\ UNCHANGED text
    /\ UNCHANGED <<up, status, data, files, queue, requests, faults, history>>

\* Mutant of NewData: a model without an answer leaves the old result.
NewData_Keep(w, result) ==
    IF result = "empty" THEN data[job[w].doc] ELSE result

\* A commit writes the columns whose value is not the one that was loaded.
NewData(w, result) ==
    IF job[w].had = result THEN data[job[w].doc] ELSE result

\* A null answer counts until a run writes a result again.
Nulled(w, result) ==
    LET d == job[w].doc IN
    IF result = "none" THEN nulled \cup {d}
    ELSE IF job[w].had # result THEN nulled \ {d} ELSE nulled

\* A model that gives no answer counts as one that found no leases; one whose
\* answer is null gives no result, "none"; one of the wrong shape is an error.
Finish(w, result) ==
    LET d == job[w].doc IN
    /\ At(w, "llm")
    /\ IF Commits(w, result \in Results \cup {"none"})
       THEN /\ status' = [status EXCEPT ![d] =
                            IF job[w].seen = "done" THEN @ ELSE "done"]
            /\ data' = [data EXCEPT ![d] = NewData(w, result)]
            /\ nulled' = Nulled(w, result)
            /\ Become(w, Idle)
       ELSE /\ Become(w, Job("failed", d))
            /\ UNCHANGED <<status, data, nulled>>
    /\ UNCHANGED <<up, text, files, queue, requests, faults, silent, cut, raced,
                   crossed>>

\* Mutant of ErrorStatus: the document is left as it is.
ErrorStatus_Kept(d) == status[d]
ErrorStatus(d) == IF d \in Rows THEN "error" ELSE status[d]

\* The handler of the exception; what it raises itself is dropped.
RecordError(w, written) ==
    LET d == job[w].doc IN
    /\ At(w, "failed")
    /\ written \/ (d \in Rows /\ faults < MaxCrashes)
    /\ status' = IF written THEN [status EXCEPT ![d] = ErrorStatus(d)] ELSE status
    /\ silent' = IF written THEN silent ELSE silent \cup {d}
    /\ faults' = IF written THEN faults ELSE faults + 1
    /\ Become(w, Idle)
    /\ UNCHANGED <<up, text, data, files, queue, requests, cut, raced, nulled,
                   crossed>>

-----------------------------------------------------------------------------
(* The process of an instance.                                             *)

Crash(i) ==
    /\ i \in up /\ faults < MaxCrashes
    /\ up' = up \ {i}
    /\ cut' = cut \cup {job[w].doc : w \in {v \in Of(i) :
                          job[v].phase \in {"inserting", "deleting"}}}
    /\ job' = [w \in Workers |-> IF w \in Of(i) THEN Idle ELSE job[w]]
    /\ queue' = [queue EXCEPT ![i] = {}]
    /\ faults' = faults + 1
    /\ UNCHANGED <<status, text, data, files, requests, silent, raced, nulled,
                   crossed>>

\* Mutant of Stuck: only what was never begun is queued again.
Stuck_Pending == {d \in Docs : status[d] = "pending"}
Stuck == {d \in Docs : status[d] \in Unfinished}

\* Whatever another instance may be doing with them.
Restart(i) ==
    /\ i \notin up
    /\ up' = up \cup {i}
    /\ status' = [d \in Docs |-> IF d \in Stuck THEN "pending" ELSE status[d]]
    /\ queue' = [queue EXCEPT ![i] = Stuck]
    /\ UNCHANGED <<text, data, files, job, requests, faults, history>>

Handler(i) ==
    \/ \E d \in Docs : UploadBegins(i, d) \/ Reprocess(i, d) \/ DeleteFile(i, d)
    \/ DeleteRow(i) \/ CommitFails(i)
    \/ \E skip \in BOOLEAN : UploadInserts(i, skip)

Process(w) ==
    \/ StartCalled(w)
    \/ \E readable \in BOOLEAN : ExtractText(w, readable)
    \/ \E result \in Results \cup {"none", "misshapen"} : Finish(w, result)
    \/ \E written \in BOOLEAN : RecordError(w, written)

Next ==
    \/ \E i \in Instances : \/ Handler(i) \/ Crash(i) \/ Restart(i)
                            \/ \E d \in Docs : StartQueued(i, d)
    \/ \E w \in Workers : Process(w) \/ \E d \in Docs : ToolCall(w, d)

Spec == Init /\ [][Next]_vars

\* A worker goes on with what it has begun, a loop takes up what is queued,
\* and an instance that died is started again.
Fairness ==
    /\ \A w \in Workers : WF_vars(Process(w))
    /\ \A i \in Instances :
         /\ WF_vars(DeleteRow(i)
                      \/ \E skip \in BOOLEAN : UploadInserts(i, skip))
         /\ WF_vars(Restart(i))
         /\ WF_vars(\E d \in Docs : StartQueued(i, d))

FairSpec == Spec /\ Fairness

-----------------------------------------------------------------------------
(* Properties.                                                             *)

Phases == {"inserting", "deleting", "called", "begun", "failed"}
Statuses == {"none", "pending", "processing", "done", "error", "deleted"}

JobType ==
    {Idle} \cup [phase : Phases, doc : Docs]
      \cup [phase : {"llm"}, doc : Docs, seen : Statuses,
            had : Results \cup {"none"}]

TypeOK ==
    /\ up \subseteq Instances
    /\ status \in [Docs -> Statuses]
    /\ text \subseteq Docs
    /\ data \in [Docs -> Results \cup {"none"}]
    /\ files \subseteq Docs
    /\ job \in [Workers -> JobType]
    /\ queue \in [Instances -> SUBSET Docs]
    /\ requests \in 0..MaxRequests
    /\ faults \in 0..MaxCrashes
    /\ silent \subseteq Docs
    /\ cut \subseteq Docs
    /\ raced \subseteq Docs
    /\ nulled \subseteq Docs
    /\ crossed \in BOOLEAN

\* A run that will still write the end of d: it has not loaded "done" and so
\* leaves that column out of its last commit.
WillEnd(w, d) ==
    /\ On(w, d)
    /\ \/ job[w].phase \in {"begun", "failed"}
       \/ job[w].phase = "llm" /\ job[w].seen # "done"

\* A document is shown as being analysed only while a run will still end it:
\* otherwise an instance is down, and will queue it again when it starts, or
\* the error of its run could not be written.
ProcessingIsAttended ==
    \A d \in Docs : status[d] = "processing" =>
        (\E w \in Workers : WillEnd(w, d)) \/ up # Instances \/ d \in silent

\* One event loop looks up the checksum and inserts the row without a gap, so a
\* file has two rows only when two instances took an upload of it at once.
DuplicatesAreRaces == Cardinality(Rows) > 1 => crossed

\* A row has a file and a file has a row, except in the middle of an upload or
\* a deletion, and where a crash, the storage or a failing commit cut one short.
FilesFollowRows ==
    \A d \in Docs : (d \in Rows) # (d \in files) =>
        \/ d \in cut
        \/ \E w \in Workers : On(w, d) /\ job[w].phase \in {"inserting", "deleting"}

\* A document that is done has the result of some run, whichever of several
\* runs ended first, unless the model answered null, or it was reprocessed while
\* a run was waiting for the model: runs write only the columns they change.
DoneHasData ==
    \A d \in Docs :
        status[d] = "done" => data[d] # "none" \/ d \in raced \cup nulled

\* What is queued or in process comes to an end, whatever crashes: the page that
\* polls the status of a document does not poll for ever.
Settles ==
    \A d \in Docs :
        (status[d] = "processing" \/ \E i \in Instances : d \in queue[i])
            ~> (status[d] \in {"done", "error", "deleted"} \/ d \in silent)
=============================================================================

----------------------- MODULE DocumentPipelineProofs -----------------------
(***************************************************************************)
(* Proofs about DocumentPipeline for any instances, threads, documents and *)
(* bounds: its type, that no document is left in processing unattended,    *)
(* that two rows of one file come from overlapping uploads, that storage   *)
(* and rows agree, and that a document that is done has a result.          *)
(***************************************************************************)
EXTENDS DocumentPipeline, FiniteSetTheorems, TLAPS

-----------------------------------------------------------------------------
(* Jobs.                                                                   *)

LEMMA JobIsJob ==
    ASSUME NEW phase \in Phases, NEW d \in Docs
    PROVE  /\ Job(phase, d) \in JobType
           /\ Job(phase, d) # Idle
           /\ Job(phase, d).phase = phase
           /\ Job(phase, d).doc = d
  BY DEF Job, JobType, Idle, Phases

LEMMA LlmJobIsJob ==
    ASSUME TypeOK, NEW d \in Docs
    PROVE  /\ LlmJob(d) \in JobType
           /\ LlmJob(d) # Idle
           /\ LlmJob(d).phase = "llm"
           /\ LlmJob(d).doc = d
           /\ LlmJob(d).seen = status[d]
<1>1. status[d] \in Statuses /\ data[d] \in Results \cup {"none"}
  BY DEF TypeOK
<1> QED  BY <1>1 DEF LlmJob, JobType, Idle

LEMMA IdleIsJob == Idle \in JobType /\ Idle.phase = "idle"
  BY DEF Idle, JobType

\* A worker that is at a phase of a document has one.
LEMMA AtHasDoc ==
    ASSUME TypeOK, NEW w \in Workers, NEW phase \in Phases \cup {"llm"},
           At(w, phase)
    PROVE  job[w] \in JobType /\ job[w] # Idle /\ job[w].doc \in Docs
<1>1. job[w] \in JobType  BY DEF TypeOK
<1>2. job[w].phase = phase  BY DEF At
<1>3. job[w] # Idle  BY <1>2 DEF Idle, Phases
<1>4. job[w] \in [phase : Phases, doc : Docs]
       \/ job[w] \in [phase : {"llm"}, doc : Docs, seen : Statuses,
                      had : Results \cup {"none"}]
  BY <1>1, <1>3 DEF JobType
<1> QED  BY <1>1, <1>3, <1>4

LEMMA LoopIsWorker == ASSUME NEW i \in Instances PROVE Loop(i) \in Workers
  BY DEF Loop, Workers

-----------------------------------------------------------------------------
(* The type.                                                               *)

LEMMA TypeInit == Init => TypeOK
<1> SUFFICES ASSUME Init PROVE TypeOK  OBVIOUS
<1>1. job \in [Workers -> JobType]  BY IdleIsJob DEF Init
<1>2. requests \in 0..MaxRequests /\ faults \in 0..MaxCrashes
  BY PipelineAssumption DEF Init
<1>3. /\ status \in [Docs -> Statuses]
      /\ data \in [Docs -> Results \cup {"none"}]
  BY DEF Init, Statuses
<1> QED  BY <1>1, <1>2, <1>3 DEF Init, TypeOK

\* The columns that a step leaves alone or changes in one row.
LEMMA TypeStep == TypeOK /\ [Next]_vars => TypeOK'
<1> SUFFICES ASSUME TypeOK, [Next]_vars PROVE TypeOK'  OBVIOUS
<1> USE PipelineAssumption
<1>1. ASSUME NEW i \in Instances, NEW d \in Docs, UploadBegins(i, d)
      PROVE  TypeOK'
  <2>1. Job("inserting", d) \in JobType  BY JobIsJob DEF Phases
  <2> QED  BY <1>1, <2>1 DEF UploadBegins, Become, TypeOK
<1>2. ASSUME NEW i \in Instances, NEW skip \in BOOLEAN, UploadInserts(i, skip)
      PROVE  TypeOK'
  <2>1. job[Loop(i)].doc \in Docs
    BY <1>2, AtHasDoc, LoopIsWorker DEF UploadInserts, Phases
  <2> QED  BY <1>2, <2>1, IdleIsJob DEF UploadInserts, Become, TypeOK, Statuses,
                                        history
<1>3. ASSUME NEW i \in Instances, NEW d \in Docs, Reprocess(i, d)
      PROVE  TypeOK'
  <2>1. requests' \in 0..MaxRequests  BY <1>3 DEF Reprocess, TypeOK
  <2>2. raced' \subseteq Docs  BY <1>3 DEF Reprocess, TypeOK
  <2> QED  BY <1>3, <2>1, <2>2 DEF Reprocess, TypeOK, Statuses
<1>4. ASSUME NEW i \in Instances, NEW d \in Docs, DeleteFile(i, d)
      PROVE  TypeOK'
  <2>1. Job("deleting", d) \in JobType  BY JobIsJob DEF Phases
  <2>2. requests' \in 0..MaxRequests  BY <1>4 DEF DeleteFile, TypeOK
  <2>3. files' \subseteq Docs /\ cut' \subseteq Docs
    BY <1>4 DEF DeleteFile, TypeOK
  <2> QED  BY <1>4, <2>1, <2>2, <2>3 DEF DeleteFile, Become, TypeOK
<1>5. ASSUME NEW i \in Instances, DeleteRow(i)
      PROVE  TypeOK'
  <2>1. job[Loop(i)].doc \in Docs
    BY <1>5, AtHasDoc, LoopIsWorker DEF DeleteRow, Phases
  <2> QED  BY <1>5, <2>1, IdleIsJob
           DEF DeleteRow, Become, TypeOK, Statuses, history
<1>6. ASSUME NEW w \in Workers, NEW d \in Docs, Begins(w, d)
      PROVE  status' \in [Docs -> Statuses] /\ job' \in [Workers -> JobType]
  <2>1. Job("begun", d) \in JobType  BY JobIsJob DEF Phases
  <2> QED  BY <1>6, <2>1, IdleIsJob DEF Begins, Become, TypeOK, Statuses
<1>7. ASSUME NEW i \in Instances, NEW d \in Docs, StartQueued(i, d)
      PROVE  TypeOK'
  <2>1. status' \in [Docs -> Statuses] /\ job' \in [Workers -> JobType]
    BY <1>6, <1>7, LoopIsWorker DEF StartQueued
  <2> QED  BY <1>7, <2>1 DEF StartQueued, TypeOK, history
<1>8. ASSUME NEW w \in Workers, NEW d \in Docs, ToolCall(w, d)
      PROVE  TypeOK'
  <2>1. Job("called", d) \in JobType  BY JobIsJob DEF Phases
  <2>2. requests' \in 0..MaxRequests  BY <1>8 DEF ToolCall, TypeOK
  <2> QED  BY <1>8, <2>1, <2>2 DEF ToolCall, Become, TypeOK, history
<1>9. ASSUME NEW w \in Workers, StartCalled(w)
      PROVE  TypeOK'
  <2>1. job[w].doc \in Docs  BY <1>9, AtHasDoc DEF StartCalled, Phases
  <2>2. status' \in [Docs -> Statuses] /\ job' \in [Workers -> JobType]
    BY <1>6, <1>9, <2>1 DEF StartCalled
  <2> QED  BY <1>9, <2>2 DEF StartCalled, TypeOK, history
<1>10. ASSUME NEW w \in Workers, NEW readable \in BOOLEAN,
              ExtractText(w, readable)
       PROVE  TypeOK'
  <2> DEFINE d == job[w].doc
  <2>1. d \in Docs  BY <1>10, AtHasDoc DEF ExtractText, Phases
  <2>2. Job("failed", d) \in JobType /\ LlmJob(d) \in JobType
    BY <2>1, JobIsJob, LlmJobIsJob DEF Phases
  <2>3. job' \in [Workers -> JobType] /\ text' \subseteq Docs
    BY <1>10, <2>1, <2>2 DEF ExtractText, Become, TypeOK
  <2> QED  BY <1>10, <2>3 DEF ExtractText, TypeOK, history
<1>11. ASSUME NEW w \in Workers, NEW result \in Results \cup {"none", "misshapen"},
              Finish(w, result)
       PROVE  TypeOK'
  <2> DEFINE d == job[w].doc
  <2>1. d \in Docs  BY <1>11, AtHasDoc DEF Finish, Phases
  <2>2. Job("failed", d) \in JobType  BY <2>1, JobIsJob DEF Phases
  <2>3. result # "misshapen" => NewData(w, result) \in Results \cup {"none"}
    BY <2>1 DEF NewData, TypeOK
  <2>4. job' \in [Workers -> JobType]
    BY <1>11, <2>2, IdleIsJob DEF Finish, Become, TypeOK
  <2>5. /\ status' \in [Docs -> Statuses]
        /\ data' \in [Docs -> Results \cup {"none"}]
    BY <1>11, <2>1, <2>3 DEF Finish, Commits, TypeOK, Statuses, Results
  <2>6. nulled' \subseteq Docs
    BY <1>11, <2>1 DEF Finish, Nulled, TypeOK
  <2> QED  BY <1>11, <2>4, <2>5, <2>6 DEF Finish, TypeOK
<1>12. ASSUME NEW w \in Workers, NEW written \in BOOLEAN,
              RecordError(w, written)
       PROVE  TypeOK'
  <2> DEFINE d == job[w].doc
  <2>1. d \in Docs  BY <1>12, AtHasDoc DEF RecordError, Phases
  <2>2. status' \in [Docs -> Statuses] /\ silent' \subseteq Docs
    BY <1>12, <2>1 DEF RecordError, ErrorStatus, TypeOK, Statuses
  <2>3. job' \in [Workers -> JobType]
    BY <1>12, IdleIsJob DEF RecordError, Become, TypeOK
  <2>4. faults' \in 0..MaxCrashes
    <3>1. CASE written  BY <1>12, <3>1 DEF RecordError, TypeOK
    <3>2. CASE ~written  BY <1>12, <3>2 DEF RecordError, TypeOK
    <3> QED  BY <3>1, <3>2
  <2> QED  BY <1>12, <2>2, <2>3, <2>4 DEF RecordError, TypeOK
<1>13. ASSUME NEW i \in Instances, Crash(i)
       PROVE  TypeOK'
  <2>1. faults' \in 0..MaxCrashes  BY <1>13 DEF Crash, TypeOK
  <2>2. job' \in [Workers -> JobType]  BY <1>13, IdleIsJob DEF Crash, TypeOK
  <2>3. cut' \subseteq Docs
    <3> SUFFICES ASSUME NEW w \in Of(i), job[w].phase \in {"inserting", "deleting"}
                 PROVE  job[w].doc \in Docs
      BY <1>13 DEF Crash, TypeOK
    <3>1. w \in Workers  BY DEF Of
    <3>2. job[w] \in JobType /\ job[w].phase # "idle"  BY <3>1 DEF TypeOK
    <3> QED  BY <3>2 DEF JobType, Idle
  <2> QED  BY <1>13, <2>1, <2>2, <2>3 DEF Crash, TypeOK
<1>14. ASSUME NEW i \in Instances, Restart(i)
       PROVE  TypeOK'
  BY <1>14 DEF Restart, Stuck, TypeOK, Statuses, history
<1>16. ASSUME NEW i \in Instances, CommitFails(i)
       PROVE  TypeOK'
  <2>1. job[Loop(i)].doc \in Docs
    BY <1>16, AtHasDoc, LoopIsWorker DEF CommitFails, Phases
  <2>2. faults' \in 0..MaxCrashes  BY <1>16 DEF CommitFails, TypeOK
  <2>3. cut' \subseteq Docs  BY <1>16, <2>1 DEF CommitFails, TypeOK
  <2>4. job' \in [Workers -> JobType]
    BY <1>16, IdleIsJob DEF CommitFails, Become, TypeOK
  <2> QED  BY <1>16, <2>2, <2>3, <2>4 DEF CommitFails, TypeOK
<1>15. CASE UNCHANGED vars
  BY <1>15 DEF vars, TypeOK
<1> QED
  BY <1>1, <1>2, <1>3, <1>4, <1>5, <1>7, <1>8, <1>9, <1>10, <1>11, <1>12,
     <1>13, <1>14, <1>15, <1>16 DEF Next, Handler, Process

\* The state is of its type, whatever the instances, documents and bounds.
THEOREM TypeCorrect == Spec => []TypeOK
  BY TypeInit, TypeStep, PTL DEF Spec

-----------------------------------------------------------------------------
(* Documents in processing.                                                *)

\* A worker's step on another document, or its step from one phase that will
\* end the document to another, leaves every document attended that was.
LEMMA StillAttended ==
    ASSUME TypeOK, ProcessingIsAttended, NEW w \in Workers,
           NEW j, job' = [job EXCEPT ![w] = j],
           up' = up, silent \subseteq silent',
           \A d \in Docs : status'[d] = "processing" =>
               \/ status[d] = "processing" /\ ~WillEnd(w, d)
               \/ WillEnd(w, d)'
    PROVE  ProcessingIsAttended'
<1> SUFFICES ASSUME NEW d \in Docs, status'[d] = "processing",
                    ~(up' # Instances), d \notin silent'
             PROVE  \E v \in Workers : WillEnd(v, d)'
  BY DEF ProcessingIsAttended
<1>1. CASE WillEnd(w, d)'
  BY <1>1
<1>2. CASE status[d] = "processing" /\ ~WillEnd(w, d)
  <2>1. PICK v \in Workers : WillEnd(v, d)
    BY <1>2 DEF ProcessingIsAttended
  <2>2. v # w  BY <1>2, <2>1
  <2>3. job'[v] = job[v]  BY <2>2 DEF TypeOK
  <2>4. WillEnd(v, d)'  BY <2>1, <2>3 DEF WillEnd, On
  <2> QED  BY <2>4
<1> QED  BY <1>1, <1>2

\* A free worker ends nothing, and a worker ends the document of its job only.
LEMMA WhatWillEnd ==
    ASSUME TypeOK, NEW w \in Workers, NEW d \in Docs
    PROVE  /\ Free(w) => ~WillEnd(w, d)
           /\ job[w].phase \in {"inserting", "deleting", "called"} => ~WillEnd(w, d)
           /\ WillEnd(w, d) => d = job[w].doc
  BY DEF WillEnd, On, Free

LEMMA AttendedInit == Init => ProcessingIsAttended
  BY DEF Init, ProcessingIsAttended

\* Where the documents and the jobs that end them are what they were.
LEMMA BeginsAttended ==
    ASSUME TypeOK, ProcessingIsAttended, NEW w \in Workers, NEW d \in Docs,
           Begins(w, d), up' = up, silent' = silent,
           \A e \in Docs : ~WillEnd(w, e)
    PROVE  ProcessingIsAttended'
<1>1. CASE d \in Rows
  <2>1. /\ status' = [status EXCEPT ![d] = "processing"]
        /\ job' = [job EXCEPT ![w] = Job("begun", d)]
    BY <1>1 DEF Begins, Become
  <2>2. WillEnd(w, d)'
    <3>1. job'[w] = Job("begun", d)  BY <2>1 DEF TypeOK
    <3> QED  BY <3>1, JobIsJob DEF WillEnd, On, Phases
  <2>3. ASSUME NEW e \in Docs, status'[e] = "processing"
        PROVE  status[e] = "processing" \/ e = d
    BY <2>1, <2>3 DEF TypeOK
  <2> QED  BY <2>1, <2>2, <2>3, StillAttended
<1>2. CASE d \notin Rows
  <2>1. job' = [job EXCEPT ![w] = Idle] /\ status' = status
    BY <1>2 DEF Begins, Become
  <2> QED  BY <2>1, StillAttended
<1> QED  BY <1>1, <1>2

LEMMA AttendedStep ==
    TypeOK /\ ProcessingIsAttended /\ [Next]_vars => ProcessingIsAttended'
<1> SUFFICES ASSUME TypeOK, ProcessingIsAttended, [Next]_vars
             PROVE  ProcessingIsAttended'
  OBVIOUS
<1>1. ASSUME NEW i \in Instances, NEW d \in Docs, UploadBegins(i, d)
      PROVE  ProcessingIsAttended'
  <2>1. \A e \in Docs : ~WillEnd(Loop(i), e)
    BY <1>1, WhatWillEnd, LoopIsWorker DEF UploadBegins
  <2>2. /\ job' = [job EXCEPT ![Loop(i)] = Job("inserting", d)]
        /\ up' = up /\ status' = status /\ silent' = silent
    BY <1>1 DEF UploadBegins, Become
  <2> QED  BY <2>1, <2>2, StillAttended, LoopIsWorker
<1>2. ASSUME NEW i \in Instances, NEW skip \in BOOLEAN, UploadInserts(i, skip)
      PROVE  ProcessingIsAttended'
  <2>1. \A e \in Docs : ~WillEnd(Loop(i), e)
    BY <1>2, WhatWillEnd, LoopIsWorker DEF UploadInserts, At
  <2>2. /\ job' = [job EXCEPT ![Loop(i)] = Idle]
        /\ up' = up /\ silent' = silent
        /\ status' = [status EXCEPT ![job[Loop(i)].doc] = "pending"]
    BY <1>2 DEF UploadInserts, Become, history
  <2>3. \A e \in Docs : status'[e] = "processing" => status[e] = "processing"
    BY <2>2 DEF TypeOK
  <2> QED  BY <2>1, <2>2, <2>3, StillAttended, LoopIsWorker
<1>3. ASSUME NEW i \in Instances, NEW d \in Docs, Reprocess(i, d)
      PROVE  ProcessingIsAttended'
  <2>1. /\ job' = job /\ up' = up /\ silent' = silent
        /\ \A e \in Docs : status'[e] = "processing" => status[e] = "processing"
    BY <1>3 DEF Reprocess, TypeOK
  <2> QED  BY <2>1 DEF ProcessingIsAttended, WillEnd, On
<1>4. ASSUME NEW i \in Instances, NEW d \in Docs, DeleteFile(i, d)
      PROVE  ProcessingIsAttended'
  <2>1. \A e \in Docs : ~WillEnd(Loop(i), e)
    BY <1>4, WhatWillEnd, LoopIsWorker DEF DeleteFile
  <2>2. /\ job' = [job EXCEPT ![Loop(i)] = Job("deleting", d)]
        /\ up' = up /\ status' = status /\ silent' = silent
    BY <1>4 DEF DeleteFile, Become
  <2> QED  BY <2>1, <2>2, StillAttended, LoopIsWorker
<1>5. ASSUME NEW i \in Instances, DeleteRow(i)
      PROVE  ProcessingIsAttended'
  <2>1. \A e \in Docs : ~WillEnd(Loop(i), e)
    BY <1>5, WhatWillEnd, LoopIsWorker DEF DeleteRow, At
  <2>2. /\ job' = [job EXCEPT ![Loop(i)] = Idle]
        /\ up' = up /\ silent' = silent
        /\ status' = [status EXCEPT ![job[Loop(i)].doc] = "deleted"]
    BY <1>5 DEF DeleteRow, Become, history
  <2>3. \A e \in Docs : status'[e] = "processing" => status[e] = "processing"
    BY <2>2 DEF TypeOK
  <2> QED  BY <2>1, <2>2, <2>3, StillAttended, LoopIsWorker
<1>6. ASSUME NEW i \in Instances, NEW d \in Docs, StartQueued(i, d)
      PROVE  ProcessingIsAttended'
  <2>1. \A e \in Docs : ~WillEnd(Loop(i), e)
    BY <1>6, WhatWillEnd, LoopIsWorker DEF StartQueued
  <2> QED  BY <1>6, <2>1, BeginsAttended, LoopIsWorker DEF StartQueued, history
<1>7. ASSUME NEW w \in Workers, NEW d \in Docs, ToolCall(w, d)
      PROVE  ProcessingIsAttended'
  <2>1. \A e \in Docs : ~WillEnd(w, e)
    BY <1>7, WhatWillEnd DEF ToolCall
  <2>2. /\ job' = [job EXCEPT ![w] = Job("called", d)]
        /\ up' = up /\ status' = status /\ silent' = silent
    BY <1>7 DEF ToolCall, Become, history
  <2> QED  BY <2>1, <2>2, StillAttended
<1>8. ASSUME NEW w \in Workers, StartCalled(w)
      PROVE  ProcessingIsAttended'
  <2>1. \A e \in Docs : ~WillEnd(w, e)
    BY <1>8, WhatWillEnd DEF StartCalled, At
  <2>2. job[w].doc \in Docs  BY <1>8, AtHasDoc DEF StartCalled, Phases
  <2> QED  BY <1>8, <2>1, <2>2, BeginsAttended DEF StartCalled, history
<1>9. ASSUME NEW w \in Workers, NEW readable \in BOOLEAN, ExtractText(w, readable)
      PROVE  ProcessingIsAttended'
  <2>1. PICK d \in Docs : d = job[w].doc  BY <1>9, AtHasDoc DEF ExtractText, Phases
  <2>2. PICK j \in {LlmJob(d), Job("failed", d)} : job' = [job EXCEPT ![w] = j]
    BY <1>9, <2>1 DEF ExtractText, Become
  <2>3. up' = up /\ status' = status /\ silent' = silent
    BY <1>9 DEF ExtractText, history
  <2>4. ASSUME status[d] = "processing"
        PROVE  WillEnd(w, d)'
    <3>1. job'[w] = j  BY <2>2 DEF TypeOK
    <3>2. CASE j = LlmJob(d)
      BY <2>1, <2>4, <3>1, <3>2, LlmJobIsJob DEF WillEnd, On
    <3>3. CASE j = Job("failed", d)
      BY <2>1, <3>1, <3>3, JobIsJob DEF WillEnd, On, Phases
    <3> QED  BY <3>2, <3>3
  <2>5. \A e \in Docs : e # d => ~WillEnd(w, e)
    BY <2>1, WhatWillEnd
  <2> QED  BY <2>1, <2>2, <2>3, <2>4, <2>5, StillAttended
<1>10. ASSUME NEW w \in Workers, NEW result \in Results \cup {"none", "misshapen"},
              Finish(w, result)
       PROVE  ProcessingIsAttended'
  <2>1. PICK d \in Docs : d = job[w].doc  BY <1>10, AtHasDoc DEF Finish, Phases
  <2>2. up' = up /\ silent' = silent  BY <1>10 DEF Finish
  <2>3. \A e \in Docs : e # d => ~WillEnd(w, e)
    BY <2>1, WhatWillEnd
  <2>4. CASE Commits(w, result \in Results \cup {"none"})
    <3>1. /\ job' = [job EXCEPT ![w] = Idle]
          /\ status' = [status EXCEPT ![d] = IF job[w].seen = "done"
                                             THEN @ ELSE "done"]
      BY <1>10, <2>1, <2>4 DEF Finish, Become
    <3>2. job[w].phase = "llm"  BY <1>10 DEF Finish, At
    <3>3. job[w].seen = "done" => ~WillEnd(w, d)
      BY <3>2 DEF WillEnd
    <3>4. \A e \in Docs : e # d => status'[e] = status[e]
      BY <3>1 DEF TypeOK
    <3>5. status'[d] = "processing" => status[d] = "processing" /\ ~WillEnd(w, d)
      BY <2>1, <3>1, <3>3 DEF TypeOK
    <3> QED  BY <2>2, <2>3, <3>1, <3>4, <3>5, StillAttended
  <2>5. CASE ~Commits(w, result \in Results \cup {"none"})
    <3>1. job' = [job EXCEPT ![w] = Job("failed", d)] /\ status' = status
      BY <1>10, <2>1, <2>5 DEF Finish, Become
    <3>2. WillEnd(w, d)'
      <4>1. job'[w] = Job("failed", d)  BY <3>1 DEF TypeOK
      <4> QED  BY <2>1, <4>1, JobIsJob DEF WillEnd, On, Phases
    <3> QED  BY <2>1, <2>2, <2>3, <3>1, <3>2, StillAttended
  <2> QED  BY <2>4, <2>5
<1>11. ASSUME NEW w \in Workers, NEW written \in BOOLEAN, RecordError(w, written)
       PROVE  ProcessingIsAttended'
  <2>1. PICK d \in Docs : d = job[w].doc  BY <1>11, AtHasDoc DEF RecordError, Phases
  <2>2. up' = up /\ job' = [job EXCEPT ![w] = Idle]
    BY <1>11 DEF RecordError, Become
  <2>3. \A e \in Docs : e # d => ~WillEnd(w, e)
    BY <2>1, WhatWillEnd
  <2>4. CASE written
    <3>1. silent' = silent /\ status' = [status EXCEPT ![d] = ErrorStatus(d)]
      BY <1>11, <2>1, <2>4 DEF RecordError
    <3>2. status'[d] # "processing"
      BY <2>1, <3>1 DEF TypeOK, ErrorStatus, Rows
    <3>3. \A e \in Docs : e # d => status'[e] = status[e]
      BY <3>1 DEF TypeOK
    <3> QED  BY <2>2, <2>3, <3>1, <3>2, <3>3, StillAttended
  <2>5. CASE ~written
    <3>1. silent' = silent \cup {d} /\ status' = status
      BY <1>11, <2>1, <2>5 DEF RecordError
    <3> SUFFICES ASSUME NEW e \in Docs, status'[e] = "processing",
                        ~(up' # Instances), e \notin silent'
                 PROVE  \E v \in Workers : WillEnd(v, e)'
      BY DEF ProcessingIsAttended
    <3>2. e # d /\ e \notin silent  BY <3>1
    <3>3. PICK v \in Workers : WillEnd(v, e)
      BY <2>2, <3>1, <3>2 DEF ProcessingIsAttended
    <3>4. v # w  BY <2>3, <3>2, <3>3
    <3>5. job'[v] = job[v]  BY <2>2, <3>4 DEF TypeOK
    <3> QED  BY <3>3, <3>5 DEF WillEnd, On
  <2> QED  BY <2>4, <2>5
<1>12. ASSUME NEW i \in Instances, Crash(i)
       PROVE  ProcessingIsAttended'
  <2>1. up' # Instances  BY <1>12 DEF Crash
  <2> QED  BY <2>1 DEF ProcessingIsAttended
<1>13. ASSUME NEW i \in Instances, Restart(i)
       PROVE  ProcessingIsAttended'
  <2>1. \A d \in Docs : status'[d] # "processing"
    BY <1>13 DEF Restart, Stuck, Unfinished
  <2> QED  BY <2>1 DEF ProcessingIsAttended
<1>14. CASE UNCHANGED vars
  BY <1>14 DEF vars, ProcessingIsAttended, WillEnd, On
<1>15. ASSUME NEW i \in Instances, CommitFails(i)
       PROVE  ProcessingIsAttended'
  <2>1. \A e \in Docs : ~WillEnd(Loop(i), e)
    BY <1>15, WhatWillEnd, LoopIsWorker DEF CommitFails, At
  <2>2. /\ job' = [job EXCEPT ![Loop(i)] = Idle]
        /\ up' = up /\ status' = status /\ silent' = silent
    BY <1>15 DEF CommitFails, Become
  <2> QED  BY <2>1, <2>2, StillAttended, LoopIsWorker
<1> QED
  BY <1>1, <1>2, <1>3, <1>4, <1>5, <1>6, <1>7, <1>8, <1>9, <1>10, <1>11,
     <1>12, <1>13, <1>14, <1>15 DEF Next, Handler, Process

\* A document is in processing only while a run will still end it, or an
\* instance is down, or the error of its run could not be written.
THEOREM AlwaysAttended == Spec => []ProcessingIsAttended
<1>1. Init => TypeOK /\ ProcessingIsAttended
  BY TypeInit, AttendedInit
<1>2. TypeOK /\ ProcessingIsAttended /\ [Next]_vars
        => (TypeOK /\ ProcessingIsAttended)'
  BY TypeStep, AttendedStep
<1> QED  BY <1>1, <1>2, PTL DEF Spec

-----------------------------------------------------------------------------
(* Duplicates.                                                             *)

Uploading(d) == {w \in Workers : job[w].phase = "inserting" /\ job[w].doc = d}
Claimed == {d \in Docs : d \in Rows \/ Uploading(d) # {}}

\* Until two uploads overlap, one document at most has a row or is about to get
\* one, and one worker at most is inserting.
OneClaim ==
    ~crossed => /\ \A d, e \in Claimed : d = e
                /\ \A d \in Claimed : \A v, w \in Uploading(d) : v = w

LEMMA ClaimsKept ==
    ASSUME OneClaim, crossed' = crossed,
           \A d \in Docs : d \in Rows' => d \in Claimed,
           \A d \in Docs : Uploading(d)' \subseteq Uploading(d)
    PROVE  OneClaim'
<1>1. \A d \in Claimed' : d \in Claimed /\ d \in Docs  BY DEF Claimed
<1> SUFFICES ASSUME ~crossed'
             PROVE  /\ \A d, e \in Claimed' : d = e
                    /\ \A d \in Claimed' : \A v, w \in Uploading(d)' : v = w
  BY DEF OneClaim
<1>2. \A d, e \in Claimed' : d = e  BY <1>1 DEF OneClaim
<1>3. ASSUME NEW d \in Claimed', NEW v \in Uploading(d)', NEW w \in Uploading(d)'
      PROVE  v = w
  <2>1. d \in Claimed /\ d \in Docs  BY <1>1
  <2>2. v \in Uploading(d) /\ w \in Uploading(d)  BY <2>1
  <2> QED  BY <2>1, <2>2 DEF OneClaim
<1> QED  BY <1>2, <1>3

\* A worker takes up something else than an upload.
LEMMA UploadsKept ==
    ASSUME TypeOK, NEW w \in Workers, NEW j, j.phase # "inserting",
           job' = [job EXCEPT ![w] = j], NEW d \in Docs
    PROVE  Uploading(d)' \subseteq Uploading(d)
<1> SUFFICES ASSUME NEW v \in Uploading(d)' PROVE v \in Uploading(d)
  OBVIOUS
<1>1. v \in Workers /\ job'[v].phase = "inserting" /\ job'[v].doc = d
  BY DEF Uploading
<1>2. v # w  BY <1>1 DEF TypeOK
<1>3. job'[v] = job[v]  BY <1>1, <1>2 DEF TypeOK
<1> QED  BY <1>1, <1>3 DEF Uploading

LEMMA ClaimInit == Init => OneClaim
<1> SUFFICES ASSUME Init PROVE OneClaim  OBVIOUS
<1>1. Claimed = {}
  <2>1. \A w \in Workers : job[w].phase = "idle"  BY IdleIsJob DEF Init
  <2>2. \A d \in Docs : Uploading(d) = {}  BY <2>1 DEF Uploading
  <2>3. Rows = {}  BY DEF Init, Rows
  <2> QED  BY <2>2, <2>3 DEF Claimed
<1> QED  BY <1>1 DEF OneClaim

LEMMA ClaimStep == TypeOK /\ OneClaim /\ [Next]_vars => OneClaim'
<1> SUFFICES ASSUME TypeOK, OneClaim, [Next]_vars PROVE OneClaim'  OBVIOUS
<1>1. ASSUME NEW i \in Instances, NEW d \in Docs, UploadBegins(i, d)
      PROVE  OneClaim'
  <2> SUFFICES ASSUME ~crossed'
               PROVE  /\ \A e \in Claimed' : e = d
                      /\ \A w \in Workers : w # Loop(i) => job'[w].phase # "inserting"
    BY LoopIsWorker DEF OneClaim, Uploading
  <2>1. \A w \in Workers : job[w].phase # "inserting"
    BY <1>1 DEF UploadBegins
  <2>2. job' = [job EXCEPT ![Loop(i)] = Job("inserting", d)]
    BY <1>1 DEF UploadBegins, Become
  <2>3. \A w \in Workers : w # Loop(i) => job'[w].phase # "inserting"
    BY <2>1, <2>2 DEF TypeOK
  <2>4. job'[Loop(i)].doc = d
    BY <2>2, LoopIsWorker, JobIsJob DEF TypeOK, Phases
  <2>5. Rows' = {}  BY <1>1 DEF UploadBegins, NewFile, Rows
  <2>6. \A e \in Claimed' : e = d
    BY <2>3, <2>4, <2>5 DEF Claimed, Uploading
  <2> QED  BY <2>3, <2>6
<1>2. ASSUME NEW i \in Instances, NEW skip \in BOOLEAN, UploadInserts(i, skip)
      PROVE  OneClaim'
  <2>1. PICK d \in Docs : d = job[Loop(i)].doc
    BY <1>2, AtHasDoc, LoopIsWorker DEF UploadInserts, Phases
  <2>2. /\ job' = [job EXCEPT ![Loop(i)] = Idle] /\ crossed' = crossed
        /\ status' = [status EXCEPT ![d] = "pending"]
    BY <1>2, <2>1 DEF UploadInserts, Become, history
  <2>3. d \in Claimed
    BY <1>2, <2>1, LoopIsWorker DEF UploadInserts, At, Claimed, Uploading
  <2>4. \A e \in Docs : e \in Rows' => e \in Rows \/ e = d
    BY <2>2 DEF Rows, TypeOK
  <2>5. \A e \in Docs : Uploading(e)' \subseteq Uploading(e)
    BY <2>2, UploadsKept, LoopIsWorker, IdleIsJob
  <2> QED  BY <2>2, <2>3, <2>4, <2>5, ClaimsKept DEF Claimed
<1>3. ASSUME NEW w \in Workers, NEW j, j.phase # "inserting",
             job' = [job EXCEPT ![w] = j] \/ job' = job,
             crossed' = crossed, Rows' \subseteq Rows
      PROVE  OneClaim'
  <2>1. \A e \in Docs : Uploading(e)' \subseteq Uploading(e)
    BY <1>3, UploadsKept DEF Uploading
  <2> QED  BY <1>3, <2>1, ClaimsKept DEF Claimed
<1>4. ASSUME NEW i \in Instances, NEW d \in Docs, Reprocess(i, d)
      PROVE  OneClaim'
  <2>1. Rows' \subseteq Rows  BY <1>4 DEF Reprocess, Rows, TypeOK
  <2> QED  BY <1>4, <2>1, <1>3, IdleIsJob, LoopIsWorker DEF Reprocess
<1>5. ASSUME NEW i \in Instances, NEW d \in Docs, DeleteFile(i, d)
      PROVE  OneClaim'
  <2>1. Rows' \subseteq Rows /\ crossed' = crossed
    BY <1>5 DEF DeleteFile, Rows
  <2>2. /\ job' = [job EXCEPT ![Loop(i)] = Job("deleting", d)]
        /\ Job("deleting", d).phase # "inserting"
    BY <1>5, JobIsJob DEF DeleteFile, Become, Phases
  <2> QED  BY <2>1, <2>2, <1>3, LoopIsWorker
<1>6. ASSUME NEW i \in Instances, DeleteRow(i)
      PROVE  OneClaim'
  <2>1. Rows' \subseteq Rows /\ crossed' = crossed
    BY <1>6 DEF DeleteRow, Rows, TypeOK, history
  <2>2. job' = [job EXCEPT ![Loop(i)] = Idle]  BY <1>6 DEF DeleteRow, Become
  <2> QED  BY <2>1, <2>2, <1>3, LoopIsWorker, IdleIsJob
<1>7. ASSUME NEW w \in Workers, NEW d \in Docs, Begins(w, d), crossed' = crossed
      PROVE  OneClaim'
  <2>1. Rows' \subseteq Rows  BY <1>7 DEF Begins, Rows, TypeOK
  <2>2. PICK j \in {Idle, Job("begun", d)} : job' = [job EXCEPT ![w] = j]
    BY <1>7 DEF Begins, Become
  <2>3. j.phase # "inserting"  BY <2>2, IdleIsJob, JobIsJob DEF Phases
  <2> QED  BY <1>3, <1>7, <2>1, <2>2, <2>3
<1>8. ASSUME NEW i \in Instances, NEW d \in Docs, StartQueued(i, d)
      PROVE  OneClaim'
  BY <1>7, <1>8, LoopIsWorker DEF StartQueued, history
<1>9. ASSUME NEW w \in Workers, NEW d \in Docs, ToolCall(w, d)
      PROVE  OneClaim'
  <2>1. Rows' \subseteq Rows /\ crossed' = crossed
    BY <1>9 DEF ToolCall, Rows, history
  <2>2. /\ job' = [job EXCEPT ![w] = Job("called", d)]
        /\ Job("called", d).phase # "inserting"
    BY <1>9, JobIsJob DEF ToolCall, Become, Phases
  <2> QED  BY <2>1, <2>2, <1>3
<1>10. ASSUME NEW w \in Workers, StartCalled(w)
       PROVE  OneClaim'
  <2>1. job[w].doc \in Docs  BY <1>10, AtHasDoc DEF StartCalled, Phases
  <2> QED  BY <1>7, <1>10, <2>1 DEF StartCalled, history
<1>11. ASSUME NEW w \in Workers, NEW readable \in BOOLEAN, ExtractText(w, readable)
       PROVE  OneClaim'
  <2>1. PICK d \in Docs : d = job[w].doc
    BY <1>11, AtHasDoc DEF ExtractText, Phases
  <2>2. Rows' \subseteq Rows /\ crossed' = crossed
    BY <1>11 DEF ExtractText, Rows, history
  <2>3. PICK j \in {LlmJob(d), Job("failed", d)} : job' = [job EXCEPT ![w] = j]
    BY <1>11, <2>1 DEF ExtractText, Become
  <2>4. j.phase # "inserting"
    BY <2>3, LlmJobIsJob, JobIsJob DEF Phases
  <2> QED  BY <1>3, <2>2, <2>3, <2>4
<1>12. ASSUME NEW w \in Workers, NEW result \in Results \cup {"none", "misshapen"},
              Finish(w, result)
       PROVE  OneClaim'
  <2>1. PICK d \in Docs : d = job[w].doc
    BY <1>12, AtHasDoc DEF Finish, Phases
  <2>2. crossed' = crossed  BY <1>12 DEF Finish
  <2>3. Rows' \subseteq Rows
    BY <1>12 DEF Finish, Commits, Rows, TypeOK
  <2>4. PICK j \in {Idle, Job("failed", d)} : job' = [job EXCEPT ![w] = j]
    BY <1>12, <2>1 DEF Finish, Become
  <2>5. j.phase # "inserting"  BY <2>4, IdleIsJob, JobIsJob DEF Phases
  <2> QED  BY <1>3, <2>2, <2>3, <2>4, <2>5
<1>13. ASSUME NEW w \in Workers, NEW written \in BOOLEAN, RecordError(w, written)
       PROVE  OneClaim'
  <2>1. crossed' = crossed /\ job' = [job EXCEPT ![w] = Idle]
    BY <1>13 DEF RecordError, Become
  <2>2. Rows' \subseteq Rows
    BY <1>13 DEF RecordError, ErrorStatus, Rows, TypeOK
  <2> QED  BY <1>3, <2>1, <2>2, IdleIsJob
<1>14. ASSUME NEW i \in Instances, Crash(i)
       PROVE  OneClaim'
  <2>1. Rows' = Rows /\ crossed' = crossed  BY <1>14 DEF Crash, Rows
  <2>2. \A w \in Workers : job'[w] = Idle \/ job'[w] = job[w]
    BY <1>14 DEF Crash
  <2>3. \A e \in Docs : Uploading(e)' \subseteq Uploading(e)
    BY <2>2, IdleIsJob DEF Uploading
  <2> QED  BY <2>1, <2>3, ClaimsKept DEF Claimed
<1>15. ASSUME NEW i \in Instances, Restart(i)
       PROVE  OneClaim'
  <2>1. Rows' \subseteq Rows
    BY <1>15 DEF Restart, Stuck, Unfinished, Rows, TypeOK
  <2> QED  BY <1>3, <1>15, <2>1, IdleIsJob, LoopIsWorker DEF Restart, history
<1>16. CASE UNCHANGED vars
  BY <1>16, ClaimsKept DEF vars, Claimed, Rows, Uploading
<1>17. ASSUME NEW i \in Instances, CommitFails(i)
       PROVE  OneClaim'
  <2>1. Rows' \subseteq Rows /\ crossed' = crossed
    BY <1>17 DEF CommitFails, Rows
  <2>2. job' = [job EXCEPT ![Loop(i)] = Idle]  BY <1>17 DEF CommitFails, Become
  <2> QED  BY <2>1, <2>2, <1>3, LoopIsWorker, IdleIsJob
<1> QED
  BY <1>1, <1>2, <1>4, <1>5, <1>6, <1>8, <1>9, <1>10, <1>11, <1>12, <1>13,
     <1>14, <1>15, <1>16, <1>17 DEF Next, Handler, Process

LEMMA OneClaimIsEnough == OneClaim => DuplicatesAreRaces
<1> SUFFICES ASSUME OneClaim, ~crossed PROVE ~(Cardinality(Rows) > 1)
  BY DEF DuplicatesAreRaces
<1>1. \A d, e \in Rows : d = e  BY DEF OneClaim, Claimed, Rows
<1>2. CASE Rows = {}  BY <1>2, FS_EmptySet
<1>3. CASE Rows # {}
  <2>1. PICK d : d \in Rows  BY <1>3
  <2>2. Rows = {d}  BY <1>1, <2>1
  <2>3. Cardinality({d}) = 1  BY FS_Singleton
  <2> QED  BY <2>2, <2>3
<1> QED  BY <1>2, <1>3

\* One file has two rows only if two uploads of it have overlapped.
THEOREM DuplicatesAlwaysRaces == Spec => []DuplicatesAreRaces
<1>1. Init => TypeOK /\ OneClaim
  BY TypeInit, ClaimInit
<1>2. TypeOK /\ OneClaim /\ [Next]_vars => (TypeOK /\ OneClaim)'
  BY TypeStep, ClaimStep
<1> QED  BY <1>1, <1>2, OneClaimIsEnough, PTL DEF Spec

-----------------------------------------------------------------------------
(* Files and rows.                                                         *)

Moving == {"inserting", "deleting"}

\* An upload that has stored its file has it to itself until the row is there;
\* a deletion is of a row that was there, and has taken the file or failed to.
FilesHeld ==
    /\ FilesFollowRows
    /\ \A w \in Workers : job[w].phase = "inserting" =>
          /\ status[job[w].doc] = "none" /\ job[w].doc \in files
          /\ \A v \in Workers :
                job[v].phase = "inserting" /\ job[v].doc = job[w].doc => v = w
    /\ \A w \in Workers : job[w].phase = "deleting" =>
          /\ status[job[w].doc] # "none"
          /\ job[w].doc \notin files \/ job[w].doc \in cut

LEMMA MovingIsOn ==
    ASSUME TypeOK, NEW w \in Workers, job[w].phase \in Moving
    PROVE  job[w] # Idle /\ job[w].doc \in Docs /\ On(w, job[w].doc)
<1>1. job[w] \in JobType /\ job[w] # Idle  BY DEF TypeOK, Moving, Idle
<1>2. job[w].doc \in Docs  BY <1>1 DEF JobType, Moving
<1> QED  BY <1>1, <1>2 DEF On

\* A step that moves no file and makes or removes no row.
LEMMA FilesKept ==
    ASSUME TypeOK, FilesHeld, files' = files, cut' = cut,
           \A d \in Docs : /\ status'[d] = "none" <=> status[d] = "none"
                           /\ d \in Rows' <=> d \in Rows,
           \A w \in Workers : \/ job'[w] = job[w]
                              \/ /\ job[w].phase \notin Moving
                                 /\ job'[w].phase \notin Moving
    PROVE  FilesHeld'
<1>1. FilesFollowRows'
  <2> SUFFICES ASSUME NEW d \in Docs, (d \in Rows') # (d \in files'), d \notin cut'
               PROVE  \E w \in Workers : On(w, d)' /\ job'[w].phase \in Moving
    BY DEF FilesFollowRows, Moving
  <2>1. PICK w \in Workers : On(w, d) /\ job[w].phase \in Moving
    BY DEF FilesHeld, FilesFollowRows, Moving
  <2> QED  BY <2>1 DEF On
<1>2. ASSUME NEW w \in Workers, job'[w].phase \in Moving
      PROVE  job'[w] = job[w] /\ job[w].doc \in Docs
  <2>1. job'[w] = job[w]  BY <1>2
  <2> QED  BY <1>2, <2>1, MovingIsOn
<1> QED  BY <1>1, <1>2 DEF FilesHeld, Moving

LEMMA FilesInit == Init => FilesHeld
  BY DEF Init, FilesHeld, FilesFollowRows, Rows, Idle

LEMMA UploadHolds ==
    ASSUME TypeOK, FilesHeld, NEW i \in Instances, NEW d \in Docs, UploadBegins(i, d)
    PROVE  FilesHeld'
<1> DEFINE w == Loop(i)
<1>1. /\ status[d] = "none" /\ d \notin files /\ files' = files \cup {d}
      /\ job' = [job EXCEPT ![w] = Job("inserting", d)] /\ job[w] = Idle
      /\ status' = status /\ cut' = cut /\ w \in Workers
      /\ job \in [Workers -> JobType]
  BY LoopIsWorker DEF UploadBegins, Become, Free, TypeOK
<1>2. /\ job'[w] = Job("inserting", d) /\ job'[w].phase = "inserting"
      /\ job'[w].doc = d /\ job'[w] # Idle
      /\ \A v \in Workers : v # w => job'[v] = job[v]
  BY <1>1, JobIsJob DEF Phases
<1>3. job[w].phase \notin Moving  BY <1>1, IdleIsJob DEF Moving
<1>4. ASSUME NEW v \in Workers, job'[v].phase \in Moving, v # w
      PROVE  job'[v] = job[v] /\ job[v].doc \in Docs /\ job[v].phase \in Moving
  BY <1>2, <1>4, MovingIsOn
<1>5. ASSUME NEW v \in Workers, job[v].phase \in Moving PROVE job[v].doc # d
  BY <1>1, <1>5 DEF FilesHeld, Moving
<1>6. FilesFollowRows'
  <2> SUFFICES ASSUME NEW e \in Docs, (e \in Rows') # (e \in files'), e \notin cut'
               PROVE  \E v \in Workers : On(v, e)' /\ job'[v].phase \in Moving
    BY DEF FilesFollowRows, Moving
  <2>1. CASE e = d
    BY <1>1, <1>2, <2>1 DEF On, Moving
  <2>2. CASE e # d
    <3>1. (e \in Rows) # (e \in files) /\ e \notin cut
      BY <1>1, <2>2 DEF Rows
    <3>2. PICK v \in Workers : On(v, e) /\ job[v].phase \in Moving
      BY <3>1 DEF FilesHeld, FilesFollowRows, Moving
    <3> QED  BY <1>2, <1>3, <3>2 DEF On
  <2> QED  BY <2>1, <2>2
<1> HIDE DEF w
<1>7. ASSUME NEW v \in Workers, job'[v].phase = "inserting"
      PROVE  /\ status'[job'[v].doc] = "none" /\ job'[v].doc \in files'
             /\ \A u \in Workers :
                   job'[u].phase = "inserting" /\ job'[u].doc = job'[v].doc => u = v
  BY <1>1, <1>2, <1>4, <1>5, <1>7 DEF FilesHeld, Moving
<1>8. ASSUME NEW v \in Workers, job'[v].phase = "deleting"
      PROVE  /\ status'[job'[v].doc] # "none"
             /\ job'[v].doc \notin files' \/ job'[v].doc \in cut'
  BY <1>1, <1>2, <1>4, <1>5, <1>8 DEF FilesHeld, Moving
<1> QED  BY <1>6, <1>7, <1>8 DEF FilesHeld

LEMMA InsertHolds ==
    ASSUME TypeOK, FilesHeld, NEW i \in Instances, NEW skip \in BOOLEAN,
           UploadInserts(i, skip)
    PROVE  FilesHeld'
<1>1. PICK w \in Workers, d \in Docs : w = Loop(i) /\ d = job[w].doc
  BY AtHasDoc, LoopIsWorker DEF UploadInserts, Phases
<1>2. /\ job[w].phase = "inserting" /\ job' = [job EXCEPT ![w] = Idle]
      /\ status' = [status EXCEPT ![d] = "pending"]
      /\ files' = files /\ cut' = cut /\ job \in [Workers -> JobType]
      /\ status \in [Docs -> Statuses]
  BY <1>1 DEF UploadInserts, Become, At, TypeOK, history
<1>3. /\ status[d] = "none" /\ d \in files
      /\ \A v \in Workers : job[v].phase = "inserting" /\ job[v].doc = d => v = w
  BY <1>1, <1>2 DEF FilesHeld
<1>4. /\ job'[w].phase = "idle" /\ \A v \in Workers : v # w => job'[v] = job[v]
      /\ status'[d] = "pending" /\ \A e \in Docs : e # d => status'[e] = status[e]
  BY <1>2, IdleIsJob
<1>5. ASSUME NEW v \in Workers, job'[v].phase \in Moving
      PROVE  /\ v # w /\ job'[v] = job[v] /\ job[v].doc \in Docs
             /\ job[v].phase = "inserting" => job[v].doc # d
             /\ job[v].phase = "deleting" => job[v].doc # d
  <2>1. v # w  BY <1>4, <1>5 DEF Moving
  <2>2. job'[v] = job[v]  BY <1>4, <2>1
  <2>3. job[v].doc \in Docs  BY <1>5, <2>2, MovingIsOn
  <2>4. job[v].phase = "deleting" => job[v].doc # d  BY <1>3 DEF FilesHeld
  <2> QED  BY <1>3, <2>1, <2>2, <2>3, <2>4
<1>6. FilesFollowRows'
  <2> SUFFICES ASSUME NEW e \in Docs, (e \in Rows') # (e \in files'), e \notin cut'
               PROVE  \E v \in Workers : On(v, e)' /\ job'[v].phase \in Moving
    BY DEF FilesFollowRows, Moving
  <2>1. e # d  BY <1>2, <1>3, <1>4 DEF Rows
  <2>2. (e \in Rows) # (e \in files) /\ e \notin cut  BY <1>2, <1>4, <2>1 DEF Rows
  <2>3. PICK v \in Workers : On(v, e) /\ job[v].phase \in Moving
    BY <2>2 DEF FilesHeld, FilesFollowRows, Moving
  <2>4. v # w  BY <1>1, <2>1, <2>3 DEF On
  <2> QED  BY <1>4, <2>3, <2>4 DEF On
<1>7. ASSUME NEW v \in Workers, job'[v].phase = "inserting"
      PROVE  /\ status'[job'[v].doc] = "none" /\ job'[v].doc \in files'
             /\ \A u \in Workers :
                   job'[u].phase = "inserting" /\ job'[u].doc = job'[v].doc => u = v
  BY <1>2, <1>4, <1>5, <1>7 DEF FilesHeld, Moving
<1>8. ASSUME NEW v \in Workers, job'[v].phase = "deleting"
      PROVE  /\ status'[job'[v].doc] # "none"
             /\ job'[v].doc \notin files' \/ job'[v].doc \in cut'
  BY <1>2, <1>4, <1>5, <1>8 DEF FilesHeld, Moving
<1> QED  BY <1>6, <1>7, <1>8 DEF FilesHeld

LEMMA DeleteFileHolds ==
    ASSUME TypeOK, FilesHeld, NEW i \in Instances, NEW d \in Docs, DeleteFile(i, d)
    PROVE  FilesHeld'
<1>1. PICK w \in Workers : w = Loop(i)  BY LoopIsWorker
<1>2. /\ d \in Rows /\ status' = status /\ job[w] = Idle
      /\ job' = [job EXCEPT ![w] = Job("deleting", d)]
      /\ files' \in {files, files \ {d}}
      /\ cut' = IF files' = files THEN cut \cup {d} ELSE cut
      /\ job \in [Workers -> JobType]
  BY <1>1 DEF DeleteFile, Become, Free, TypeOK
<1>3. /\ job'[w] = Job("deleting", d) /\ job'[w].phase = "deleting"
      /\ job'[w].doc = d /\ job'[w] # Idle
      /\ \A v \in Workers : v # w => job'[v] = job[v]
  BY <1>2, JobIsJob DEF Phases
<1>4. job[w].phase \notin Moving  BY <1>2, IdleIsJob DEF Moving
<1>5. ASSUME NEW v \in Workers, job'[v].phase \in Moving, v # w
      PROVE  /\ job'[v] = job[v] /\ job[v].doc \in Docs
             /\ job[v].phase = "inserting" => job[v].doc # d
  <2>1. job'[v] = job[v]  BY <1>3, <1>5
  <2>2. job[v].doc \in Docs  BY <1>5, <2>1, MovingIsOn
  <2>3. status[d] # "none"  BY <1>2 DEF Rows
  <2> QED  BY <2>1, <2>2, <2>3 DEF FilesHeld
<1>6. d \notin files' \/ d \in cut'  BY <1>2
<1>7. FilesFollowRows'
  <2> SUFFICES ASSUME NEW e \in Docs, (e \in Rows') # (e \in files'), e \notin cut'
               PROVE  \E v \in Workers : On(v, e)' /\ job'[v].phase \in Moving
    BY DEF FilesFollowRows, Moving
  <2>1. CASE e = d
    BY <1>3, <2>1 DEF On, Moving
  <2>2. CASE e # d
    <3>1. (e \in Rows) # (e \in files) /\ e \notin cut
      BY <1>2, <2>2 DEF Rows
    <3>2. PICK v \in Workers : On(v, e) /\ job[v].phase \in Moving
      BY <3>1 DEF FilesHeld, FilesFollowRows, Moving
    <3> QED  BY <1>3, <1>4, <3>2 DEF On
  <2> QED  BY <2>1, <2>2
<1>8. ASSUME NEW v \in Workers, job'[v].phase = "inserting"
      PROVE  /\ status'[job'[v].doc] = "none" /\ job'[v].doc \in files'
             /\ \A u \in Workers :
                   job'[u].phase = "inserting" /\ job'[u].doc = job'[v].doc => u = v
  BY <1>2, <1>3, <1>5, <1>8 DEF FilesHeld, Moving
<1>9. ASSUME NEW v \in Workers, job'[v].phase = "deleting"
      PROVE  /\ status'[job'[v].doc] # "none"
             /\ job'[v].doc \notin files' \/ job'[v].doc \in cut'
  <2>1. CASE v = w  BY <1>2, <1>3, <1>6, <2>1 DEF Rows
  <2>2. CASE v # w  BY <1>2, <1>3, <1>5, <1>9, <2>2 DEF FilesHeld, Moving
  <2> QED  BY <2>1, <2>2
<1> QED  BY <1>7, <1>8, <1>9 DEF FilesHeld

LEMMA DeleteRowHolds ==
    ASSUME TypeOK, FilesHeld, NEW i \in Instances, DeleteRow(i)
    PROVE  FilesHeld'
<1>1. PICK w \in Workers, d \in Docs : w = Loop(i) /\ d = job[w].doc
  BY AtHasDoc, LoopIsWorker DEF DeleteRow, Phases
<1>2. /\ job[w].phase = "deleting" /\ job' = [job EXCEPT ![w] = Idle]
      /\ status' = [status EXCEPT ![d] = "deleted"]
      /\ files' = files /\ cut' = cut /\ job \in [Workers -> JobType]
      /\ status \in [Docs -> Statuses]
  BY <1>1 DEF DeleteRow, Become, At, TypeOK, history
<1>3. status[d] # "none" /\ (d \notin files \/ d \in cut)
  BY <1>1, <1>2 DEF FilesHeld
<1>4. /\ job'[w].phase = "idle" /\ \A v \in Workers : v # w => job'[v] = job[v]
      /\ status'[d] = "deleted" /\ \A e \in Docs : e # d => status'[e] = status[e]
  BY <1>2, IdleIsJob
<1>5. ASSUME NEW v \in Workers, job'[v].phase \in Moving
      PROVE  /\ v # w /\ job'[v] = job[v] /\ job[v].doc \in Docs
             /\ job[v].phase = "inserting" => job[v].doc # d
  <2>1. v # w  BY <1>4, <1>5 DEF Moving
  <2>2. job'[v] = job[v]  BY <1>4, <2>1
  <2>3. job[v].doc \in Docs  BY <1>5, <2>2, MovingIsOn
  <2> QED  BY <1>3, <2>1, <2>2, <2>3 DEF FilesHeld
<1>6. FilesFollowRows'
  <2> SUFFICES ASSUME NEW e \in Docs, (e \in Rows') # (e \in files'), e \notin cut'
               PROVE  \E v \in Workers : On(v, e)' /\ job'[v].phase \in Moving
    BY DEF FilesFollowRows, Moving
  <2>1. e # d  BY <1>2, <1>3, <1>4 DEF Rows
  <2>2. (e \in Rows) # (e \in files) /\ e \notin cut  BY <1>2, <1>4, <2>1 DEF Rows
  <2>3. PICK v \in Workers : On(v, e) /\ job[v].phase \in Moving
    BY <2>2 DEF FilesHeld, FilesFollowRows, Moving
  <2>4. v # w  BY <1>1, <2>1, <2>3 DEF On
  <2> QED  BY <1>4, <2>3, <2>4 DEF On
<1>7. ASSUME NEW v \in Workers, job'[v].phase = "inserting"
      PROVE  /\ status'[job'[v].doc] = "none" /\ job'[v].doc \in files'
             /\ \A u \in Workers :
                   job'[u].phase = "inserting" /\ job'[u].doc = job'[v].doc => u = v
  BY <1>2, <1>4, <1>5, <1>7 DEF FilesHeld, Moving
<1>8. ASSUME NEW v \in Workers, job'[v].phase = "deleting"
      PROVE  /\ status'[job'[v].doc] # "none"
             /\ job'[v].doc \notin files' \/ job'[v].doc \in cut'
  BY <1>2, <1>4, <1>5, <1>8 DEF FilesHeld, Moving
<1> QED  BY <1>6, <1>7, <1>8 DEF FilesHeld

\* Uploads and deletions that stop short are known by then.
LEMMA FilesCut ==
    ASSUME TypeOK, FilesHeld,
           status' = status, files' = files, cut \subseteq cut',
           \A v \in Workers :
              \/ job'[v] = job[v]
              \/ /\ job'[v] = Idle
                 /\ job[v].phase \in Moving => job[v].doc \in cut'
    PROVE  FilesHeld'
<1>2. ASSUME NEW v \in Workers, job'[v].phase \in Moving
      PROVE  job'[v] = job[v] /\ job[v].doc \in Docs
  <2>1. job'[v] = job[v]  BY <1>2, IdleIsJob DEF Moving
  <2> QED  BY <1>2, <2>1, MovingIsOn
<1>3. FilesFollowRows'
  <2> SUFFICES ASSUME NEW e \in Docs, (e \in Rows') # (e \in files'), e \notin cut'
               PROVE  \E v \in Workers : On(v, e)' /\ job'[v].phase \in Moving
    BY DEF FilesFollowRows, Moving
  <2>1. (e \in Rows) # (e \in files) /\ e \notin cut  BY DEF Rows
  <2>2. PICK v \in Workers : On(v, e) /\ job[v].phase \in Moving
    BY <2>1 DEF FilesHeld, FilesFollowRows, Moving
  <2>3. job'[v] = job[v]  BY <2>2 DEF On
  <2> QED  BY <2>2, <2>3 DEF On
<1> QED  BY <1>2, <1>3 DEF FilesHeld, Moving

LEMMA CrashHolds ==
    ASSUME TypeOK, FilesHeld, NEW i \in Instances, Crash(i)
    PROVE  FilesHeld'
<1>1. /\ status' = status /\ files' = files /\ cut \subseteq cut'
      /\ \A v \in Workers :
            /\ job'[v] = IF v \in Of(i) THEN Idle ELSE job[v]
            /\ v \in Of(i) /\ job[v].phase \in Moving => job[v].doc \in cut'
  BY DEF Crash, Moving
<1> QED  BY <1>1, FilesCut

LEMMA CommitFailsHolds ==
    ASSUME TypeOK, FilesHeld, NEW i \in Instances, CommitFails(i)
    PROVE  FilesHeld'
<1>1. PICK w \in Workers : w = Loop(i)  BY LoopIsWorker
<1>2. /\ status' = status /\ files' = files /\ cut' = cut \cup {job[w].doc}
      /\ job' = [job EXCEPT ![w] = Idle] /\ job \in [Workers -> JobType]
  BY <1>1 DEF CommitFails, Become, TypeOK
<1>3. \A v \in Workers : job'[v] = IF v = w THEN Idle ELSE job[v]
  BY <1>2
<1> QED  BY <1>2, <1>3, FilesCut

\* A run of process_document, wherever it is, moves no file.
LEMMA RunMoves ==
    ASSUME TypeOK, NEW w \in Workers, NEW j \in JobType, j.phase \notin Moving,
           job[w].phase \notin Moving, job' = [job EXCEPT ![w] = j]
    PROVE  \A v \in Workers : \/ job'[v] = job[v]
                              \/ /\ job[v].phase \notin Moving
                                 /\ job'[v].phase \notin Moving
  BY DEF TypeOK

LEMMA BeginsMoves ==
    ASSUME TypeOK, NEW w \in Workers, NEW d \in Docs, Begins(w, d),
           job[w].phase \notin Moving
    PROVE  /\ \A e \in Docs : /\ status'[e] = "none" <=> status[e] = "none"
                              /\ e \in Rows' <=> e \in Rows
           /\ \A v \in Workers : \/ job'[v] = job[v]
                                 \/ /\ job[v].phase \notin Moving
                                    /\ job'[v].phase \notin Moving
<1>1. PICK j \in {Job("begun", d), Idle} : job' = [job EXCEPT ![w] = j]
  BY DEF Begins, Become
<1>2. j \in JobType /\ j.phase \notin Moving
  BY <1>1, JobIsJob, IdleIsJob DEF Phases, Moving
<1>3. \A e \in Docs : /\ status'[e] = "none" <=> status[e] = "none"
                      /\ e \in Rows' <=> e \in Rows
  BY DEF Begins, Rows, TypeOK
<1> QED  BY <1>1, <1>2, <1>3, RunMoves

LEMMA FilesStep == TypeOK /\ FilesHeld /\ [Next]_vars => FilesHeld'
<1> SUFFICES ASSUME TypeOK, FilesHeld, [Next]_vars PROVE FilesHeld'
  OBVIOUS
<1>1. ASSUME NEW i \in Instances, NEW d \in Docs, Reprocess(i, d)
      PROVE  FilesHeld'
  <2>1. /\ files' = files /\ cut' = cut /\ job' = job /\ d \in Rows
        /\ status' = [status EXCEPT ![d] = "pending"]
    BY <1>1 DEF Reprocess
  <2>2. \A e \in Docs : /\ status'[e] = "none" <=> status[e] = "none"
                        /\ e \in Rows' <=> e \in Rows
    BY <2>1 DEF Rows, TypeOK
  <2> QED  BY <2>1, <2>2, FilesKept
<1>2. ASSUME NEW i \in Instances, Restart(i) PROVE FilesHeld'
  <2>1. /\ files' = files /\ cut' = cut /\ job' = job
        /\ status' = [d \in Docs |-> IF d \in Stuck THEN "pending" ELSE status[d]]
    BY <1>2 DEF Restart, history
  <2>2. \A e \in Docs : /\ status'[e] = "none" <=> status[e] = "none"
                        /\ e \in Rows' <=> e \in Rows
    BY <2>1 DEF Rows, Stuck, Unfinished
  <2> QED  BY <2>1, <2>2, FilesKept
<1>3. ASSUME NEW i \in Instances, NEW d \in Docs, StartQueued(i, d)
      PROVE  FilesHeld'
  <2>1. /\ files' = files /\ cut' = cut /\ Begins(Loop(i), d)
        /\ job[Loop(i)].phase \notin Moving
    BY <1>3, IdleIsJob DEF StartQueued, Free, Moving, history
  <2> QED  BY <2>1, BeginsMoves, FilesKept, LoopIsWorker
<1>4. ASSUME NEW w \in Workers, StartCalled(w) PROVE FilesHeld'
  <2>1. job[w].doc \in Docs  BY <1>4, AtHasDoc DEF StartCalled, Phases
  <2>2. /\ files' = files /\ cut' = cut /\ Begins(w, job[w].doc)
        /\ job[w].phase \notin Moving
    BY <1>4 DEF StartCalled, At, Moving, history
  <2> QED  BY <2>1, <2>2, BeginsMoves, FilesKept
<1>5. ASSUME NEW w \in Workers, NEW d \in Docs, ToolCall(w, d) PROVE FilesHeld'
  <2>1. /\ files' = files /\ cut' = cut /\ status' = status
        /\ job' = [job EXCEPT ![w] = Job("called", d)]
        /\ job[w].phase \notin Moving
    BY <1>5, IdleIsJob DEF ToolCall, Become, Free, Moving, history
  <2>2. Job("called", d) \in JobType /\ Job("called", d).phase \notin Moving
    BY JobIsJob DEF Phases, Moving
  <2>3. \A v \in Workers : \/ job'[v] = job[v]
                           \/ /\ job[v].phase \notin Moving
                              /\ job'[v].phase \notin Moving
    BY <2>1, <2>2, RunMoves
  <2> QED  BY <2>1, <2>3, FilesKept DEF Rows
<1>6. ASSUME NEW w \in Workers, NEW readable \in BOOLEAN, ExtractText(w, readable)
      PROVE  FilesHeld'
  <2>1. PICK d \in Docs : d = job[w].doc  BY <1>6, AtHasDoc DEF ExtractText, Phases
  <2>2. PICK j \in {LlmJob(d), Job("failed", d)} : job' = [job EXCEPT ![w] = j]
    BY <1>6, <2>1 DEF ExtractText, Become
  <2>3. j \in JobType /\ j.phase \notin Moving /\ job[w].phase \notin Moving
    BY <1>6, <2>2, JobIsJob, LlmJobIsJob DEF Phases, Moving, ExtractText, At
  <2>4. files' = files /\ cut' = cut /\ status' = status
    BY <1>6 DEF ExtractText, history
  <2>5. \A v \in Workers : \/ job'[v] = job[v]
                           \/ /\ job[v].phase \notin Moving
                              /\ job'[v].phase \notin Moving
    BY <2>2, <2>3, RunMoves
  <2> QED  BY <2>4, <2>5, FilesKept DEF Rows
<1>7. ASSUME NEW w \in Workers, NEW result \in Results \cup {"none", "misshapen"},
             Finish(w, result)
      PROVE  FilesHeld'
  <2>1. PICK d \in Docs : d = job[w].doc  BY <1>7, AtHasDoc DEF Finish, Phases
  <2>2. PICK j \in {Idle, Job("failed", d)} : job' = [job EXCEPT ![w] = j]
    BY <1>7, <2>1 DEF Finish, Become
  <2>3. j \in JobType /\ j.phase \notin Moving /\ job[w].phase \notin Moving
    BY <1>7, <2>2, JobIsJob, IdleIsJob DEF Phases, Moving, Finish, At
  <2>4. /\ files' = files /\ cut' = cut
        /\ \/ status' = status
           \/ /\ d \in Rows
              /\ \E x \in {status[d], "done"} : status' = [status EXCEPT ![d] = x]
    BY <1>7, <2>1 DEF Finish, Commits
  <2>5. \A e \in Docs : /\ status'[e] = "none" <=> status[e] = "none"
                        /\ e \in Rows' <=> e \in Rows
    BY <2>4 DEF Rows, TypeOK
  <2>6. \A v \in Workers : \/ job'[v] = job[v]
                           \/ /\ job[v].phase \notin Moving
                              /\ job'[v].phase \notin Moving
    BY <2>2, <2>3, RunMoves
  <2> QED  BY <2>4, <2>5, <2>6, FilesKept
<1>8. ASSUME NEW w \in Workers, NEW written \in BOOLEAN, RecordError(w, written)
      PROVE  FilesHeld'
  <2>1. PICK d \in Docs : d = job[w].doc  BY <1>8, AtHasDoc DEF RecordError, Phases
  <2>2. /\ job' = [job EXCEPT ![w] = Idle] /\ files' = files /\ cut' = cut
        /\ job[w].phase \notin Moving
        /\ status' = status \/ status' = [status EXCEPT ![d] = ErrorStatus(d)]
    BY <1>8, <2>1 DEF RecordError, Become, At, Moving
  <2>3. \A e \in Docs : /\ status'[e] = "none" <=> status[e] = "none"
                        /\ e \in Rows' <=> e \in Rows
    BY <2>2 DEF Rows, TypeOK, ErrorStatus
  <2>4. \A v \in Workers : \/ job'[v] = job[v]
                           \/ /\ job[v].phase \notin Moving
                              /\ job'[v].phase \notin Moving
    BY <2>2, IdleIsJob, RunMoves DEF Moving
  <2> QED  BY <2>2, <2>3, <2>4, FilesKept
<1>9. CASE UNCHANGED vars
  BY <1>9, FilesKept DEF vars, Rows
<1> QED
  BY <1>1, <1>2, <1>3, <1>4, <1>5, <1>6, <1>7, <1>8, <1>9, UploadHolds, InsertHolds,
     DeleteFileHolds, DeleteRowHolds, CrashHolds, CommitFailsHolds DEF Next, Handler, Process

\* Storage and rows agree, whatever overlaps and crashes, except in the middle of
\* an upload or a deletion and where a crash, the storage or a failing commit cut
\* one short.
THEOREM FilesAlwaysFollow == Spec => []FilesFollowRows
<1>1. FilesHeld => FilesFollowRows  BY DEF FilesHeld
<1> QED  BY <1>1, FilesInit, FilesStep, TypeCorrect, PTL DEF Spec

-----------------------------------------------------------------------------
(* Results.                                                                *)

\* What a run has loaded is still there, or was not there, or was overwritten by
\* a null or cleared by a request that raced with the run.
Excused == raced \cup nulled

ResultsHeld ==
    /\ DoneHasData
    /\ \A w \in Workers : job[w].phase = "llm" =>
          \/ job[w].had = "none" \/ data[job[w].doc] # "none"
          \/ job[w].doc \in Excused

\* A step that takes no result and no excuse away, and puts no run before its
\* last commit.
LEMMA ResultsKept ==
    ASSUME TypeOK, ResultsHeld,
           \A d \in Docs :
              \/ data'[d] # "none" \/ d \in Excused'
              \/ /\ data[d] = "none" /\ d \notin Excused
                 /\ status'[d] = "done" => status[d] = "done",
           \A w \in Workers : job'[w].phase = "llm" => job'[w] = job[w]
    PROVE  ResultsHeld'
<1>1. DoneHasData'  BY DEF ResultsHeld, DoneHasData, Excused
<1>2. ASSUME NEW w \in Workers, job'[w].phase = "llm"
      PROVE  \/ job'[w].had = "none" \/ data'[job'[w].doc] # "none"
             \/ job'[w].doc \in Excused'
  <2>1. job'[w] = job[w] /\ job[w].phase = "llm"  BY <1>2
  <2>2. job[w].doc \in Docs
    <3>1. job[w] \in JobType  BY DEF TypeOK
    <3> QED  BY <2>1, <3>1 DEF JobType, Idle
  <2> QED  BY <2>1, <2>2 DEF ResultsHeld
<1> QED  BY <1>1, <1>2 DEF ResultsHeld

\* The same where no result is written.
LEMMA ResultsStay ==
    ASSUME TypeOK, ResultsHeld, UNCHANGED <<data, raced, nulled>>,
           \A d \in Docs : status'[d] = "done" => status[d] = "done",
           \A w \in Workers : job'[w].phase = "llm" => job'[w] = job[w]
    PROVE  ResultsHeld'
<1>1. Excused' = Excused  BY DEF Excused
<1> QED  BY <1>1, ResultsKept

LEMMA ResultsInit == Init => ResultsHeld
  BY DEF Init, ResultsHeld, DoneHasData, Idle

\* A worker turns to something that is not the last step of a run.
LEMMA NoLlm ==
    ASSUME TypeOK, NEW w \in Workers, NEW j, job' = [job EXCEPT ![w] = j],
           j.phase # "llm"
    PROVE  \A v \in Workers : job'[v].phase = "llm" => job'[v] = job[v]
  BY DEF TypeOK

LEMMA BeginsNoLlm ==
    ASSUME TypeOK, NEW w \in Workers, NEW d \in Docs, Begins(w, d)
    PROVE  /\ \A v \in Workers : job'[v].phase = "llm" => job'[v] = job[v]
           /\ \A e \in Docs : status'[e] = "done" => status[e] = "done"
<1>1. PICK j \in {Job("begun", d), Idle} : job' = [job EXCEPT ![w] = j]
  BY DEF Begins, Become
<1>2. j.phase # "llm"  BY <1>1, JobIsJob, IdleIsJob DEF Phases
<1>3. \A e \in Docs : status'[e] = "done" => status[e] = "done"
  BY DEF Begins, TypeOK
<1> QED  BY <1>1, <1>2, <1>3, NoLlm

LEMMA ReprocessResults ==
    ASSUME TypeOK, ResultsHeld, NEW i \in Instances, NEW d \in Docs, Reprocess(i, d)
    PROVE  ResultsHeld'
<1>1. /\ status' = [status EXCEPT ![d] = "pending"] /\ job' = job
      /\ data' = [data EXCEPT ![d] = "none"] /\ Excused \subseteq Excused'
      /\ (\E w \in Workers : On(w, d) /\ job[w].phase = "llm") => d \in Excused'
  BY DEF Reprocess, Excused
<1>2. DoneHasData'  BY <1>1 DEF ResultsHeld, DoneHasData, TypeOK, Excused
<1>3. ASSUME NEW w \in Workers, job[w].phase = "llm"
      PROVE  \/ job[w].had = "none" \/ data'[job[w].doc] # "none"
             \/ job[w].doc \in Excused'
  <2>1. job[w] \in JobType /\ job[w] # Idle  BY <1>3 DEF TypeOK, Idle
  <2>2. job[w].doc \in Docs  BY <1>3, <2>1 DEF JobType
  <2>3. CASE job[w].doc = d  BY <1>1, <1>3, <2>1, <2>3 DEF On
  <2>4. CASE job[w].doc # d
    BY <1>1, <1>3, <2>2, <2>4 DEF ResultsHeld, TypeOK
  <2> QED  BY <2>3, <2>4
<1> QED  BY <1>1, <1>2, <1>3 DEF ResultsHeld

LEMMA ExtractResults ==
    ASSUME TypeOK, ResultsHeld, NEW w \in Workers, NEW readable \in BOOLEAN,
           ExtractText(w, readable)
    PROVE  ResultsHeld'
<1>1. PICK d \in Docs : d = job[w].doc  BY AtHasDoc DEF ExtractText, Phases
<1>2. PICK j \in {LlmJob(d), Job("failed", d)} : job' = [job EXCEPT ![w] = j]
  BY <1>1 DEF ExtractText, Become
<1>3. status' = status /\ data' = data /\ Excused' = Excused
  BY DEF ExtractText, history, Excused
<1>4. j.phase = "llm" => j.had = data[d] /\ j.doc = d
  BY <1>2, JobIsJob DEF LlmJob, Phases
<1>5. job'[w] = j /\ \A v \in Workers : v # w => job'[v] = job[v]
  BY <1>2 DEF TypeOK
<1> QED  BY <1>3, <1>4, <1>5 DEF ResultsHeld, DoneHasData, Excused

LEMMA FinishResults ==
    ASSUME TypeOK, ResultsHeld, NEW w \in Workers,
           NEW result \in Results \cup {"none", "misshapen"}, Finish(w, result)
    PROVE  ResultsHeld'
<1>1. PICK d \in Docs : d = job[w].doc  BY AtHasDoc DEF Finish, Phases
<1>2. PICK j \in {Idle, Job("failed", d)} : job' = [job EXCEPT ![w] = j]
  BY <1>1 DEF Finish, Become
<1>3. j.phase # "llm"  BY <1>2, JobIsJob, IdleIsJob DEF Phases
<1>4. \A v \in Workers : job'[v].phase = "llm" => job'[v] = job[v]
  BY <1>2, <1>3, NoLlm
<1>5. job[w].phase = "llm" /\ raced' = raced
  BY DEF Finish, At
<1>6. CASE Commits(w, result \in Results \cup {"none"})
  <2>1. /\ status' = [status EXCEPT ![d] =
                         IF job[w].seen = "done" THEN @ ELSE "done"]
        /\ data' = [data EXCEPT ![d] = NewData(w, result)]
        /\ nulled' = Nulled(w, result)
    BY <1>1, <1>6 DEF Finish
  <2>2. data'[d] = NewData(w, result)
        /\ \A e \in Docs : e # d => data'[e] = data[e] /\ status'[e] = status[e]
    BY <2>1 DEF TypeOK
  <2>3. \A e \in Docs : e # d => (e \in Excused' <=> e \in Excused)
    BY <1>1, <1>5, <2>1 DEF Nulled, Excused
  <2>4. data'[d] # "none" \/ d \in Excused'
    <3>1. CASE result = "none"  BY <1>1, <2>1, <3>1 DEF Nulled, Excused
    <3>2. CASE result # "none" /\ job[w].had # result
      BY <2>2, <3>2 DEF NewData
    <3>3. CASE result # "none" /\ job[w].had = result
      <4>1. data[d] # "none" \/ d \in Excused
        BY <1>1, <1>5, <3>3 DEF ResultsHeld
      <4>2. data'[d] = data[d] /\ Excused' = Excused
        BY <1>1, <1>5, <2>1, <2>2, <3>3 DEF NewData, Nulled, Excused
      <4> QED  BY <4>1, <4>2
    <3> QED  BY <3>1, <3>2, <3>3
  <2> QED  BY <1>4, <2>2, <2>3, <2>4, ResultsKept
<1>7. CASE ~Commits(w, result \in Results \cup {"none"})
  <2>1. UNCHANGED <<status, data, raced, nulled>>  BY <1>5, <1>7 DEF Finish
  <2> QED  BY <1>4, <2>1, ResultsStay
<1> QED  BY <1>6, <1>7

LEMMA ResultsStep == TypeOK /\ ResultsHeld /\ [Next]_vars => ResultsHeld'
<1> SUFFICES ASSUME TypeOK, ResultsHeld, [Next]_vars PROVE ResultsHeld'
  OBVIOUS
<1>1. ASSUME NEW i \in Instances, NEW d \in Docs,
             UploadBegins(i, d) \/ DeleteFile(i, d)
      PROVE  ResultsHeld'
  <2>1. PICK j \in {Job("inserting", d), Job("deleting", d)} :
           job' = [job EXCEPT ![Loop(i)] = j]
    BY <1>1 DEF UploadBegins, DeleteFile, Become
  <2>2. j.phase # "llm"  BY <2>1, JobIsJob DEF Phases
  <2>3. UNCHANGED <<status, data, raced, nulled>>
    BY <1>1 DEF UploadBegins, DeleteFile
  <2> QED  BY <2>1, <2>2, <2>3, NoLlm, ResultsStay, LoopIsWorker
<1>2. ASSUME NEW i \in Instances,
             \/ DeleteRow(i) \/ CommitFails(i)
             \/ \E skip \in BOOLEAN : UploadInserts(i, skip)
      PROVE  ResultsHeld'
  <2>1. /\ job' = [job EXCEPT ![Loop(i)] = Idle] /\ UNCHANGED <<data, raced, nulled>>
        /\ \/ status' = status
           \/ \E x \in {"pending", "deleted"} :
                 status' = [status EXCEPT ![job[Loop(i)].doc] = x]
    BY <1>2 DEF DeleteRow, CommitFails, UploadInserts, Become, history
  <2>2. \A d \in Docs : status'[d] = "done" => status[d] = "done"
    BY <2>1 DEF TypeOK
  <2> QED  BY <2>1, <2>2, IdleIsJob, NoLlm, ResultsStay, LoopIsWorker
<1>3. ASSUME NEW i \in Instances, NEW d \in Docs, StartQueued(i, d)
      PROVE  ResultsHeld'
  <2>1. Begins(Loop(i), d) /\ UNCHANGED <<data, raced, nulled>>
    BY <1>3 DEF StartQueued, history
  <2> QED  BY <2>1, BeginsNoLlm, ResultsStay, LoopIsWorker
<1>4. ASSUME NEW w \in Workers, StartCalled(w) PROVE ResultsHeld'
  <2>1. job[w].doc \in Docs  BY <1>4, AtHasDoc DEF StartCalled, Phases
  <2>2. Begins(w, job[w].doc) /\ UNCHANGED <<data, raced, nulled>>
    BY <1>4 DEF StartCalled, history
  <2> QED  BY <2>1, <2>2, BeginsNoLlm, ResultsStay
<1>5. ASSUME NEW w \in Workers, NEW d \in Docs, ToolCall(w, d) PROVE ResultsHeld'
  <2>1. /\ job' = [job EXCEPT ![w] = Job("called", d)]
        /\ UNCHANGED <<status, data, raced, nulled>>
    BY <1>5 DEF ToolCall, Become, history
  <2>2. Job("called", d).phase # "llm"  BY JobIsJob DEF Phases
  <2> QED  BY <2>1, <2>2, NoLlm, ResultsStay
<1>6. ASSUME NEW w \in Workers, NEW written \in BOOLEAN, RecordError(w, written)
      PROVE  ResultsHeld'
  <2>1. /\ job' = [job EXCEPT ![w] = Idle] /\ UNCHANGED <<data, raced, nulled>>
        /\ \/ status' = status
           \/ status' = [status EXCEPT ![job[w].doc] = ErrorStatus(job[w].doc)]
    BY <1>6 DEF RecordError, Become
  <2>2. \A d \in Docs : status'[d] = "done" => status[d] = "done"
    BY <2>1 DEF TypeOK, ErrorStatus
  <2> QED  BY <2>1, <2>2, IdleIsJob, NoLlm, ResultsStay
<1>7. ASSUME NEW i \in Instances, Crash(i) \/ Restart(i) PROVE ResultsHeld'
  <2>1. /\ UNCHANGED <<data, raced, nulled>>
        /\ \A d \in Docs : status'[d] = "done" => status[d] = "done"
        /\ \A w \in Workers : job'[w] = Idle \/ job'[w] = job[w]
    BY <1>7 DEF Crash, Restart, history
  <2> QED  BY <2>1, IdleIsJob, ResultsStay
<1>8. CASE UNCHANGED vars
  BY <1>8, ResultsStay DEF vars
<1> QED
  BY <1>1, <1>2, <1>3, <1>4, <1>5, <1>6, <1>7, <1>8, ReprocessResults,
     ExtractResults, FinishResults DEF Next, Handler, Process

\* A document that is done has a result, whichever of several runs ended first
\* and whatever crashed, unless the model answered null or the document was
\* reprocessed during a run's last step.
THEOREM DoneAlwaysHasData == Spec => []DoneHasData
<1>1. ResultsHeld => DoneHasData  BY DEF ResultsHeld
<1> QED  BY <1>1, ResultsInit, ResultsStep, TypeCorrect, PTL DEF Spec

=============================================================================

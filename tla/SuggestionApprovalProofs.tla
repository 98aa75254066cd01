---------------------- MODULE SuggestionApprovalProofs ----------------------
(***************************************************************************)
(* Proofs about SuggestionApproval for any drafts, executions and bounds:  *)
(* what is shown as accepted by its own action was sent, no SMS announces  *)
(* what is not stored, a proposal has one task, a risky draft is sent for  *)
(* a known reason, and the whole implements SuggestionLife.                *)
(***************************************************************************)
EXTENDS SuggestionApproval, FiniteSetTheorems, TLAPS

Proposals == {"create", "assign"}
Messages == {"message", "standalone"}
RowStatuses == {"pending", "accepted", "dismissed"}
StartJobs == [phase : {"start"}, sid : Drafts, action : Actions]
EffectsJobs == [phase : {"effects"}, sid : Drafts, action : Actions,
                seen : RowStatuses, creates : BOOLEAN]
DoneJobs == [phase : {"check", "write"}, sid : Drafts, action : Actions,
             seen : RowStatuses, fresh : BOOLEAN, task : BOOLEAN,
             note : BOOLEAN]
Jobs == {NoJob} \cup StartJobs \cup EffectsJobs \cup DoneJobs

Shape ==
    /\ sug \in [Drafts -> RowType \cup {NoRow}]
    /\ called \subseteq Drafts /\ asked \subseteq called
    /\ acts \in 0..MaxActs
    /\ job \in [Requests -> Jobs]
    /\ \A q \in Requests : job[q] # NoJob => job[q].sid \in Existing
    /\ sent \in [Drafts -> Nat] /\ tasks \in [Drafts -> Nat]
    /\ notes \in [Drafts -> Nat] /\ texts \in [Drafts -> Nat]
    /\ raced \subseteq Existing /\ Existing \subseteq called

Explained(d) ==
    \/ d \in asked
    \/ Kind[d] = "message" /\ \E x \in called \ Risky : Kind[x] = "message"

\* What an execution has done about its suggestion, or found done.
JobGood(q) == job[q] # NoJob =>
    /\ job[q].action = "send" => Explained(job[q].sid)
    /\ job[q].phase = "effects" =>
          /\ job[q].creates => Kind[job[q].sid] \notin Messages
          /\ Kind[job[q].sid] \in Proposals
                => job[q].creates \/ tasks[job[q].sid] > 0
    /\ (job[q].phase \in {"check", "write"} /\ job[q].action = "send") =>
          /\ Kind[job[q].sid] \in Messages => sent[job[q].sid] > 0
          /\ Kind[job[q].sid] \in Proposals
                => job[q].task \/ tasks[job[q].sid] > 0

RowGood(i) ==
    /\ Sent(i) /\ Kind[i] \in Messages => sent[i] > 0
    /\ Kind[i] \in Proposals /\ sug[i].linked => tasks[i] > 0

Sound ==
    /\ \A q \in Requests : JobGood(q)
    /\ \A i \in Existing : RowGood(i)
    /\ RiskyIsExplained

\* Executions that have yet to store a notification.
ToNote(d) ==
    {q \in Requests : /\ job[q].phase \in {"check", "write"} /\ job[q].note
                      /\ job[q].sid = d}
CountedAt(d) ==
    /\ IsFiniteSet(ToNote(d))
    /\ notes[d] + texts[d] + Cardinality(ToNote(d)) <= sent[d]
Counted == \A d \in Drafts : CountedAt(d)

\* What an execution knows of a suggestion that no other has in hand.
Knows(q) ==
    /\ job[q].phase \in {"effects", "check", "write"}
          => job[q].seen = sug[job[q].sid].status
    /\ job[q].phase = "write" => job[q].seen = "pending"
    /\ Kind[job[q].sid] \in Proposals =>
          /\ job[q].phase = "effects"
                => (job[q].creates <=> ~sug[job[q].sid].linked)
          /\ job[q].phase \in {"check", "write"}
                => (job[q].task
                       <=> job[q].action = "send" /\ ~sug[job[q].sid].linked)

OneTask(i) ==
    IF Sent(i) THEN tasks[i] = 1 /\ sug[i].linked
               ELSE tasks[i] = 0 /\ ~sug[i].linked

OneJob(i) == \A q, r \in InHand(i) : q = r
Single(i) ==
    /\ OneJob(i)
    /\ Kind[i] \in Proposals => OneTask(i)
    /\ \A q \in InHand(i) : Knows(q)

Alone ==
    /\ \A d \in Drafts \ Existing : tasks[d] = 0
    /\ \A i \in Existing \ raced : Single(i)

-----------------------------------------------------------------------------
(* What the job at each phase has.                                         *)

LEMMA JobCases ==
    ASSUME NEW j \in Jobs
    PROVE  /\ j.phase \in Phases
           /\ j.phase = "idle" <=> j = NoJob
           /\ j.phase = "start" => j \in StartJobs
           /\ j.phase = "effects" => j \in EffectsJobs
           /\ j.phase \in {"check", "write"} => j \in DoneJobs
           /\ j # NoJob => j.sid \in Drafts /\ j.action \in Actions
  BY DEF Jobs, NoJob, StartJobs, EffectsJobs, DoneJobs, Phases

LEMMA StartIsJob ==
    ASSUME NEW i \in Drafts, NEW a \in Actions
    PROVE  /\ Start(i, a) \in Jobs /\ Start(i, a) # NoJob
           /\ Start(i, a).phase = "start"
           /\ Start(i, a).sid = i /\ Start(i, a).action = a
  BY DEF Start, Jobs, StartJobs, NoJob

LEMMA DoneIsJob ==
    ASSUME NEW j \in EffectsJobs, NEW fresh \in BOOLEAN, NEW task \in BOOLEAN,
           NEW note \in BOOLEAN
    PROVE  /\ Done(j, fresh, task, note) \in DoneJobs
           /\ Done(j, fresh, task, note).phase = "check"
           /\ Done(j, fresh, task, note).sid = j.sid
           /\ Done(j, fresh, task, note).action = j.action
           /\ Done(j, fresh, task, note).seen = j.seen
           /\ Done(j, fresh, task, note).fresh = fresh
           /\ Done(j, fresh, task, note).task = task
           /\ Done(j, fresh, task, note).note = note
  BY DEF Done, EffectsJobs, DoneJobs

LEMMA RowFacts ==
    ASSUME Shape, NEW i \in Existing
    PROVE  /\ i \in Drafts /\ sug[i] \in RowType /\ sug[i] # NoRow
           /\ sug[i].linked \in BOOLEAN /\ sug[i].status \in RowStatuses
  BY DEF Shape, Existing, RowType, RowStatuses

-----------------------------------------------------------------------------
(* What the steps do.                                                      *)

Turns(q, j) == job' = [job EXCEPT ![q] = j]

LEMMA TurnsFacts ==
    ASSUME Shape, NEW q \in Requests, NEW j \in Jobs, Turns(q, j),
           Existing \subseteq Existing', j # NoJob => j.sid \in Existing'
    PROVE  /\ job' \in [Requests -> Jobs]
           /\ job'[q] = j
           /\ \A r \in Requests : r # q => job'[r] = job[r]
           /\ \A r \in Requests : job'[r] # NoJob => job'[r].sid \in Existing'
  BY DEF Turns, Shape

LEMMA PlusFacts ==
    ASSUME NEW f \in [Drafts -> Nat], NEW d \in Drafts
    PROVE  /\ Plus(f, d) \in [Drafts -> Nat]
           /\ Plus(f, d)[d] = f[d] + 1
           /\ \A e \in Drafts : e # d => Plus(f, d)[e] = f[e]
           /\ \A e \in Drafts : f[e] <= Plus(f, d)[e]
  BY DEF Plus

LEMMA NewRow ==
    ASSUME NEW i \in Drafts
    PROVE  /\ PendingRow(i) \in RowType /\ PendingRow(i) # NoRow
           /\ PendingRow(i).status = "pending"
           /\ PendingRow(i).linked <=> Kind[i] \in {"message", "reply"}
<1>1. PendingRow(i) \in RowType  BY DEF PendingRow, RowType
<1>2. PendingRow(i) # NoRow /\ PendingRow(i).status = "pending"
      /\ PendingRow(i).taken = "none"
  BY DEF PendingRow, NoRow
<1>3. PendingRow(i).linked <=> Kind[i] \in {"message", "reply"}
  BY Zenon DEF PendingRow
<1> QED  BY <1>1, <1>2, <1>3

\* The suggestion that a tool call comes to: a row of its own, or a pending one
\* about the same task.
LEMMA CreatedFacts ==
    ASSUME Shape, NEW d \in Drafts \ called, NEW i \in StandsFor(d), Created(i),
           called' = called \cup {d}
    PROVE  /\ i \in Drafts /\ Kind[i] = Kind[d]
           /\ \/ /\ i \notin Existing /\ sug'[i] = PendingRow(i)
                 /\ Existing' = Existing \cup {i}
              \/ i \in Existing /\ Existing' = Existing /\ sug'[i] = sug[i]
           /\ sug' \in [Drafts -> RowType \cup {NoRow}]
           /\ \A k \in Drafts : k # i => sug'[k] = sug[k]
           /\ \A k \in Existing : sug'[k] = sug[k]
           /\ Existing' = Existing \cup {i}
           /\ Existing' \subseteq called'
<1>1. sug \in [Drafts -> RowType \cup {NoRow}] /\ Existing \subseteq called
  BY DEF Shape
<1>2. CASE Equivalent(d) = {}
  <2>1. i = d /\ i \notin Existing  BY <1>1, <1>2 DEF StandsFor
  <2>2. sug[i] = NoRow  BY <2>1 DEF Existing
  <2>3. sug' = [sug EXCEPT ![i] = PendingRow(i)]  BY <2>2 DEF Created
  <2>4. PendingRow(i) \in RowType /\ PendingRow(i) # NoRow  BY <2>1, NewRow
  <2>5. /\ sug'[i] = PendingRow(i)
        /\ \A k \in Drafts : k # i => sug'[k] = sug[k]
        /\ sug' \in [Drafts -> RowType \cup {NoRow}]
    BY <1>1, <2>1, <2>3, <2>4
  <2>6. Existing' = Existing \cup {i}  BY <2>1, <2>4, <2>5 DEF Existing
  <2>7. \A k \in Existing : sug'[k] = sug[k]  BY <2>1, <2>5 DEF Existing
  <2> QED  BY <1>1, <2>1, <2>5, <2>6, <2>7
<1>3. CASE Equivalent(d) # {}
  <2>1. i \in Existing /\ Kind[i] = Kind[d]
    BY <1>3 DEF StandsFor, Equivalent
  <2>2. i \in Drafts /\ sug[i] # NoRow  BY <2>1 DEF Existing
  <2>3. sug' = [sug EXCEPT ![i] = sug[i]]  BY <2>2 DEF Created
  <2>4. sug' = sug  BY <1>1, <2>3
  <2>5. Existing' = Existing  BY <2>4 DEF Existing
  <2> QED  BY <1>1, <2>1, <2>2, <2>4, <2>5
<1> QED  BY <1>2, <1>3

LEMMA StageFacts ==
    ASSUME Shape, NEW q \in Requests, NEW d \in Drafts, StageMessage(q, d)
    PROVE  /\ d \notin called /\ called' = called \cup {d}
           /\ Kind[d] = "message" /\ job[q] = NoJob
           /\ UNCHANGED <<asked, acts, sent, tasks, notes, texts>>
           /\ \E i \in StandsFor(d) :
              /\ Created(i)
              /\ \/ UNCHANGED <<job, raced>>
                 \/ d \notin Risky /\ Turns(q, Start(i, "send")) /\ Races(i)
  BY DEF StageMessage, NeedsReview, Turns

LEMMA OtherFacts ==
    ASSUME Shape, NEW d \in Drafts, StageOther(d)
    PROVE  /\ d \notin called /\ called' = called \cup {d}
           /\ UNCHANGED <<asked, acts, job, tasks, notes, texts, raced>>
           /\ \/ sug' = sug /\ d \notin Risky /\ sent' = Plus(sent, d)
              \/ sent' = sent /\ \E i \in StandsFor(d) : Created(i)
  BY DEF StageOther, NeedsReview

LEMMA ActFacts ==
    ASSUME Shape, NEW q \in Requests, NEW i \in Drafts, NEW action \in Actions,
           Act(q, i, action)
    PROVE  /\ job[q] = NoJob /\ i \in Existing
           /\ acts' \in 0..MaxActs
           /\ asked \subseteq asked' /\ asked' \subseteq called
           /\ action = "send" => i \in asked'
           /\ Turns(q, Start(i, action)) /\ Races(i)
           /\ UNCHANGED <<sug, called, sent, tasks, notes, texts>>
           /\ Existing' = Existing
  BY ApprovalAssumption DEF Act, Turns, Shape, Existing

LEMMA ReadFacts ==
    ASSUME Shape, NEW q \in Requests, Read(q)
    PROVE  /\ job[q] # NoJob /\ job[q].phase = "start"
           /\ job[q].sid \in Existing
           /\ \E j \in EffectsJobs :
                 /\ Turns(q, j) /\ j # NoJob /\ j.phase = "effects"
                 /\ j.sid = job[q].sid /\ j.action = job[q].action
                 /\ j.creates <=> Creates(job[q].sid)
                 /\ j.seen = sug[job[q].sid].status
           /\ UNCHANGED <<sug, called, asked, acts, sent, tasks, notes, texts,
                          raced>>
           /\ Existing' = Existing
<1>1. job[q] \in Jobs /\ job[q].phase = "start"  BY DEF Shape, Read
<1>2. job[q] \in StartJobs /\ job[q] # NoJob  BY <1>1, JobCases
<1>3. job[q].sid \in Existing /\ job[q].sid \in Drafts /\ job[q].action \in Actions
  BY <1>1, <1>2, JobCases DEF Shape
<1>4. sug[job[q].sid].status \in RowStatuses  BY <1>3, RowFacts
<1> DEFINE j == [phase |-> "effects", sid |-> job[q].sid,
                 action |-> job[q].action, seen |-> sug[job[q].sid].status,
                 creates |-> Creates(job[q].sid)]
<1>5. j \in EffectsJobs  BY <1>3, <1>4 DEF EffectsJobs, Creates
<1>6. j # NoJob  BY DEF NoJob
<1>7. Turns(q, j)  BY DEF Read, Turns, Shape
<1> QED  BY <1>1, <1>2, <1>3, <1>5, <1>6, <1>7 DEF Read, Existing

\* Where an execution sends, and what it leaves to write.
LEMMA EffectsFacts ==
    ASSUME Shape, NEW q \in Requests, Effects(q)
    PROVE  /\ job[q] \in EffectsJobs /\ job[q] # NoJob
           /\ job[q].phase = "effects" /\ job[q].sid \in Existing
           /\ UNCHANGED <<sug, called, asked, acts, tasks, notes, texts, raced>>
           /\ Existing' = Existing
           /\ \E k \in DoneJobs :
                 /\ Turns(q, k) /\ k # NoJob /\ k.phase = "check"
                 /\ k.sid = job[q].sid /\ k.action = job[q].action
                 /\ k.seen = job[q].seen
                 /\ k.task <=> job[q].action = "send" /\ job[q].creates
                 /\ k.note <=> Kind[job[q].sid] = "message"
                               /\ job[q].action = "send"
           /\ \/ sent' = Plus(sent, job[q].sid) /\ job[q].action = "send"
              \/ /\ sent' = sent
                 /\ (job[q].action = "send" /\ Kind[job[q].sid] \in Messages)
                       => job[q].creates
<1>1. job[q] \in Jobs /\ job[q].phase = "effects"  BY DEF Shape, Effects
<1>2. job[q] \in EffectsJobs /\ job[q] # NoJob  BY <1>1, JobCases
<1>3. job[q].sid \in Existing  BY <1>2 DEF Shape
<1>4. PICK sends \in Delivers(job[q]) :
         /\ sent' = IF sends THEN Plus(sent, job[q].sid) ELSE sent
         /\ job' = [job EXCEPT ![q] =
                      Done(job[q], sends, job[q].action = "send" /\ job[q].creates,
                           Notes(job[q].sid, job[q].action))]
  BY DEF Effects
<1>5. /\ sends \in BOOLEAN
      /\ sends => job[q].action = "send"
      /\ (~sends /\ job[q].action = "send" /\ Kind[job[q].sid] \in Messages)
            => job[q].creates
  BY <1>4 DEF Delivers, Messages
<1>6. PICK task \in BOOLEAN, note \in BOOLEAN :
         /\ task = (job[q].action = "send" /\ job[q].creates)
         /\ note = Notes(job[q].sid, job[q].action)
  BY DEF Notes
<1> DEFINE k == Done(job[q], sends, task, note)
<1>7. /\ k \in DoneJobs /\ k.phase = "check" /\ k.sid = job[q].sid
      /\ k.action = job[q].action /\ k.seen = job[q].seen
      /\ k.task = task /\ k.note = note
  <2> HIDE DEF k
  <2>1. sends \in BOOLEAN  BY <1>5
  <2> QED  BY <1>2, <2>1, DoneIsJob DEF k
<1>8. k # NoJob  BY <1>7 DEF NoJob
<1>9. Turns(q, k)  BY <1>4, <1>6 DEF Turns
<1>10. UNCHANGED <<sug, called, asked, acts, tasks, notes, texts, raced>>
       /\ Existing' = Existing
  BY DEF Effects, Existing
<1>11. \E x \in DoneJobs :
          /\ Turns(q, x) /\ x # NoJob /\ x.phase = "check"
          /\ x.sid = job[q].sid /\ x.action = job[q].action
          /\ x.seen = job[q].seen
          /\ x.task <=> job[q].action = "send" /\ job[q].creates
          /\ x.note <=> Kind[job[q].sid] = "message" /\ job[q].action = "send"
  BY <1>6, <1>7, <1>8, <1>9 DEF Notes
<1>12. \/ sent' = Plus(sent, job[q].sid) /\ job[q].action = "send"
       \/ /\ sent' = sent
          /\ (job[q].action = "send" /\ Kind[job[q].sid] \in Messages)
                => job[q].creates
  BY <1>4, <1>5
<1> QED  BY <1>1, <1>2, <1>3, <1>10, <1>11, <1>12

\* An execution that gives up leaves the rest as it is.
Gone(q) ==
    /\ Turns(q, NoJob) /\ job[q] # NoJob
    /\ UNCHANGED <<sug, called, asked, acts, sent, tasks, notes, texts, raced>>

LEMMA GoneFacts ==
    ASSUME NEW q \in Requests, Fails(q) \/ Crash(q)
    PROVE  Gone(q)
  BY DEF Fails, Crash, Gone, Turns, NoJob

LEMMA CheckFacts ==
    ASSUME Shape, NEW q \in Requests, Check(q), ~Gone(q)
    PROVE  /\ job[q] \in DoneJobs /\ job[q] # NoJob /\ job[q].phase = "check"
           /\ job[q].sid \in Existing
           /\ (IF job[q].fresh THEN sug[job[q].sid].status ELSE job[q].seen)
                 = "pending"
           /\ \E k \in DoneJobs :
                 /\ Turns(q, k) /\ k # NoJob /\ k.phase = "write"
                 /\ k.sid = job[q].sid /\ k.action = job[q].action
                 /\ k.seen = job[q].seen
                 /\ k.task = job[q].task /\ k.note = job[q].note
           /\ UNCHANGED <<sug, called, asked, acts, sent, tasks, notes, texts,
                          raced>>
           /\ Existing' = Existing
<1>1. job[q] \in Jobs /\ job[q].phase = "check"  BY DEF Shape, Check
<1>2. job[q] \in DoneJobs /\ job[q] # NoJob  BY <1>1, JobCases
<1>3. job[q].sid \in Existing  BY <1>2 DEF Shape
<1>4. Accepts(job[q])  BY <1>2 DEF Check, Gone, Turns
<1> DEFINE k == [job[q] EXCEPT !.phase = "write"]
<1>5. Turns(q, k)  BY <1>4 DEF Check, Turns
<1>6. /\ k \in DoneJobs /\ k.phase = "write" /\ k.sid = job[q].sid
      /\ k.action = job[q].action /\ k.seen = job[q].seen
      /\ k.task = job[q].task /\ k.note = job[q].note
  BY <1>2 DEF DoneJobs
<1>7. k # NoJob  BY <1>6 DEF NoJob
<1>8. UNCHANGED <<sug, called, asked, acts, sent, tasks, notes, texts, raced>>
      /\ Existing' = Existing
  BY DEF Check, Existing
<1> QED  BY <1>1, <1>2, <1>3, <1>4, <1>5, <1>6, <1>7, <1>8 DEF Accepts

LEMMA WriteFacts ==
    ASSUME Shape, NEW q \in Requests, Write(q)
    PROVE  /\ job[q] \in DoneJobs /\ job[q] # NoJob /\ job[q].phase = "write"
           /\ job[q].sid \in Existing /\ Turns(q, NoJob)
           /\ sug' \in [Drafts -> RowType \cup {NoRow}]
           /\ Existing' = Existing
           /\ \A k \in Drafts : k # job[q].sid => sug'[k] = sug[k]
           /\ sug'[job[q].sid].status
                 = IF job[q].action = "dismiss" THEN "dismissed" ELSE "accepted"
           /\ sug'[job[q].sid].taken = job[q].action
           /\ sug'[job[q].sid].linked
                 <=> sug[job[q].sid].linked \/ job[q].task
           /\ tasks' = IF job[q].task THEN Plus(tasks, job[q].sid) ELSE tasks
           /\ notes' = IF job[q].note THEN Plus(notes, job[q].sid) ELSE notes
           /\ UNCHANGED <<called, asked, acts, sent, texts, raced>>
<1>1. job[q] \in Jobs /\ job[q].phase = "write"  BY DEF Shape, Write
<1>2. job[q] \in DoneJobs /\ job[q] # NoJob  BY <1>1, JobCases
<1>3. job[q].sid \in Existing  BY <1>2 DEF Shape
<1>4. PICK i \in Drafts : i = job[q].sid  BY <1>3 DEF Existing
<1>5. sug \in [Drafts -> RowType \cup {NoRow}]  BY DEF Shape
<1>6. sug[i].linked \in BOOLEAN /\ job[q].task \in BOOLEAN
      /\ job[q].action \in Actions
  BY <1>2, <1>3, <1>4, RowFacts DEF DoneJobs
<1> DEFINE status == IF job[q].action = "dismiss" THEN "dismissed" ELSE "accepted"
           row == [status |-> status, taken |-> job[q].action,
                   linked |-> sug[i].linked \/ job[q].task]
<1>7. sug' = [sug EXCEPT ![i] = row]  BY <1>4 DEF Write
<1>8. row \in RowType /\ row # NoRow
  <2>1. status \in {"pending", "accepted", "dismissed"}  OBVIOUS
  <2> QED  BY <1>6, <2>1 DEF RowType, NoRow
<1>9. /\ sug' \in [Drafts -> RowType \cup {NoRow}] /\ sug'[i] = row
      /\ \A k \in Drafts : k # i => sug'[k] = sug[k]
  BY <1>5, <1>7, <1>8
<1>10. Existing' = Existing  BY <1>3, <1>4, <1>8, <1>9 DEF Existing
<1>11. /\ tasks' = IF job[q].task THEN Plus(tasks, i) ELSE tasks
       /\ notes' = IF job[q].note THEN Plus(notes, i) ELSE notes
       /\ UNCHANGED <<called, asked, acts, sent, texts, raced>>
       /\ Turns(q, NoJob)
  BY <1>4 DEF Write, Turns
<1>12. /\ sug'[i].status = status /\ sug'[i].taken = job[q].action
       /\ sug'[i].linked = (sug[i].linked \/ job[q].task)
  BY <1>9
<1> QED  BY <1>1, <1>2, <1>3, <1>4, <1>9, <1>10, <1>11, <1>12

-----------------------------------------------------------------------------
(* The shape of the state.                                                 *)

LEMMA ShapeInit == Init => Shape
<1> SUFFICES ASSUME Init PROVE Shape
  OBVIOUS
<1>1. Existing = {}  BY DEF Init, Existing
<1>2. MaxActs \in Nat  BY ApprovalAssumption
<1> QED  BY <1>1, <1>2 DEF Init, Shape, Jobs

\* A step of one execution, with a suggestion that is there.
LEMMA ShapeOfWork ==
    ASSUME Shape, NEW q \in Requests, NEW j \in Jobs, Turns(q, j),
           sug' \in [Drafts -> RowType \cup {NoRow}], Existing' = Existing,
           j # NoJob => j.sid \in Existing,
           UNCHANGED <<called, asked, acts, texts, raced>>,
           sent' \in [Drafts -> Nat], tasks' \in [Drafts -> Nat],
           notes' \in [Drafts -> Nat]
    PROVE  Shape'
<1>1. /\ job' \in [Requests -> Jobs]
      /\ \A r \in Requests : job'[r] # NoJob => job'[r].sid \in Existing'
  BY TurnsFacts
<1> QED  BY <1>1 DEF Shape

LEMMA ShapeStage ==
    ASSUME Shape, NEW q \in Requests, NEW d \in Drafts, StageMessage(q, d)
    PROVE  Shape'
<1>1. /\ d \notin called /\ called' = called \cup {d}
      /\ UNCHANGED <<asked, acts, sent, tasks, notes, texts>>
  BY StageFacts
<1>2. PICK i \in StandsFor(d) :
         /\ Created(i)
         /\ UNCHANGED <<job, raced>> \/ (Turns(q, Start(i, "send")) /\ Races(i))
  BY StageFacts
<1>3. /\ i \in Drafts /\ sug' \in [Drafts -> RowType \cup {NoRow}]
      /\ Existing' = Existing \cup {i} /\ Existing' \subseteq called'
  BY <1>1, <1>2, CreatedFacts
<1>4. /\ job' \in [Requests -> Jobs]
      /\ \A r \in Requests : job'[r] # NoJob => job'[r].sid \in Existing'
      /\ raced' \subseteq Existing'
  <2>1. CASE UNCHANGED <<job, raced>>  BY <1>3, <2>1 DEF Shape
  <2>2. CASE Turns(q, Start(i, "send")) /\ Races(i)
    <3>1. Start(i, "send") \in Jobs /\ Start(i, "send").sid = i
      BY <1>3, StartIsJob DEF Actions
    <3>2. raced' \subseteq Existing'  BY <1>3, <2>2 DEF Races, Shape
    <3> QED  BY <1>3, <2>2, <3>1, <3>2, TurnsFacts
  <2> QED  BY <1>2, <2>1, <2>2
<1> QED  BY <1>1, <1>3, <1>4 DEF Shape

LEMMA ShapeOther ==
    ASSUME Shape, NEW d \in Drafts, StageOther(d)
    PROVE  Shape'
<1>1. /\ d \notin called /\ called' = called \cup {d}
      /\ UNCHANGED <<asked, acts, job, tasks, notes, texts, raced>>
  BY OtherFacts
<1>2. CASE sug' = sug /\ sent' = Plus(sent, d)
  <2>1. sent' \in [Drafts -> Nat]  BY <1>2, PlusFacts DEF Shape
  <2>2. Existing' = Existing  BY <1>2 DEF Existing
  <2> QED  BY <1>1, <1>2, <2>1, <2>2 DEF Shape
<1>3. ASSUME NEW i \in StandsFor(d), Created(i), sent' = sent
      PROVE  Shape'
  <2>1. /\ i \in Drafts /\ sug' \in [Drafts -> RowType \cup {NoRow}]
        /\ Existing' = Existing \cup {i} /\ Existing' \subseteq called'
    BY <1>1, <1>3, CreatedFacts
  <2> QED  BY <1>1, <1>3, <2>1 DEF Shape
<1> QED  BY <1>2, <1>3, OtherFacts

LEMMA ShapeAct ==
    ASSUME Shape, NEW q \in Requests, NEW i \in Drafts, NEW action \in Actions,
           Act(q, i, action)
    PROVE  Shape'
<1>1. /\ i \in Existing /\ acts' \in 0..MaxActs
      /\ asked' \subseteq called /\ Turns(q, Start(i, action)) /\ Races(i)
      /\ UNCHANGED <<sug, called, sent, tasks, notes, texts>>
      /\ Existing' = Existing
  BY ActFacts
<1>2. Start(i, action) \in Jobs /\ Start(i, action).sid = i  BY StartIsJob
<1>3. /\ job' \in [Requests -> Jobs]
      /\ \A r \in Requests : job'[r] # NoJob => job'[r].sid \in Existing'
  BY <1>1, <1>2, TurnsFacts
<1>4. raced' \subseteq Existing'  BY <1>1 DEF Races, Shape
<1> QED  BY <1>1, <1>3, <1>4 DEF Shape

LEMMA ShapeGone ==
    ASSUME Shape, NEW q \in Requests, Gone(q)
    PROVE  Shape'
<1>1. Turns(q, NoJob) /\ NoJob \in Jobs /\ Existing' = Existing
  BY DEF Gone, Jobs, Existing
<1> QED  BY <1>1, ShapeOfWork DEF Gone, Shape

LEMMA ShapeWork ==
    ASSUME Shape, NEW q \in Requests,
           Read(q) \/ Effects(q) \/ Fails(q) \/ Check(q) \/ Write(q) \/ Crash(q)
    PROVE  Shape'
<1>1. /\ sent \in [Drafts -> Nat] /\ tasks \in [Drafts -> Nat]
      /\ notes \in [Drafts -> Nat] /\ sug \in [Drafts -> RowType \cup {NoRow}]
      /\ Existing \subseteq Drafts
  BY DEF Shape, Existing
<1>2. CASE Read(q)
  <2>1. /\ job[q].sid \in Existing
        /\ \E j \in EffectsJobs : Turns(q, j) /\ j.sid = job[q].sid
        /\ UNCHANGED <<sug, called, asked, acts, sent, tasks, notes, texts, raced>>
        /\ Existing' = Existing
    BY <1>2, ReadFacts
  <2>2. PICK j \in EffectsJobs : Turns(q, j) /\ j.sid = job[q].sid  BY <2>1
  <2> QED  BY <1>1, <2>1, <2>2, ShapeOfWork DEF Jobs
<1>3. CASE Effects(q)
  <2>1. /\ job[q].sid \in Existing
        /\ \E j \in DoneJobs : Turns(q, j) /\ j.sid = job[q].sid
        /\ UNCHANGED <<sug, called, asked, acts, tasks, notes, texts, raced>>
        /\ Existing' = Existing
        /\ sent' = Plus(sent, job[q].sid) \/ sent' = sent
    BY <1>3, EffectsFacts
  <2>2. PICK j \in DoneJobs : Turns(q, j) /\ j.sid = job[q].sid  BY <2>1
  <2>3. sent' \in [Drafts -> Nat]  BY <1>1, <2>1, PlusFacts
  <2> QED  BY <1>1, <2>1, <2>2, <2>3, ShapeOfWork DEF Jobs
<1>4. CASE Gone(q)  BY <1>4, ShapeGone
<1>5. CASE Check(q) /\ ~Gone(q)
  <2>1. /\ job[q].sid \in Existing
        /\ \E j \in DoneJobs : Turns(q, j) /\ j.sid = job[q].sid
        /\ UNCHANGED <<sug, called, asked, acts, sent, tasks, notes, texts, raced>>
        /\ Existing' = Existing
    BY <1>5, CheckFacts
  <2>2. PICK j \in DoneJobs : Turns(q, j) /\ j.sid = job[q].sid  BY <2>1
  <2> QED  BY <1>1, <2>1, <2>2, ShapeOfWork DEF Jobs
<1>6. CASE Write(q)
  <2>1. /\ job[q].sid \in Existing /\ Turns(q, NoJob)
        /\ sug' \in [Drafts -> RowType \cup {NoRow}] /\ Existing' = Existing
        /\ tasks' = Plus(tasks, job[q].sid) \/ tasks' = tasks
        /\ notes' = Plus(notes, job[q].sid) \/ notes' = notes
        /\ UNCHANGED <<called, asked, acts, sent, texts, raced>>
    BY <1>6, WriteFacts
  <2>2. tasks' \in [Drafts -> Nat] /\ notes' \in [Drafts -> Nat]
    BY <1>1, <2>1, PlusFacts
  <2> QED  BY <1>1, <2>1, <2>2, ShapeOfWork DEF Jobs
<1> QED  BY <1>2, <1>3, <1>4, <1>5, <1>6, GoneFacts

LEMMA ShapeStep == Shape /\ [Next]_vars => Shape'
<1> SUFFICES ASSUME Shape, [Next]_vars PROVE Shape'
  OBVIOUS
<1>1. CASE UNCHANGED vars  BY <1>1 DEF vars, Shape, Existing
<1>2. ASSUME NEW d \in Drafts, Deliver(d) PROVE Shape'
  <2>1. notes' \in [Drafts -> Nat] /\ texts' \in [Drafts -> Nat]
    BY <1>2, PlusFacts DEF Deliver, Shape
  <2> QED  BY <1>2, <2>1 DEF Deliver, Shape, Existing
<1> QED  BY <1>1, <1>2, ShapeStage, ShapeOther, ShapeAct, ShapeWork DEF Next

-----------------------------------------------------------------------------
(* What executions have done, and what accepted rows stand for.            *)

\* No step takes a reason, a message or a task away.
Grows ==
    /\ asked \subseteq asked' /\ called \subseteq called'
    /\ \A d \in Drafts : /\ sent[d] > 0 => sent'[d] > 0
                         /\ tasks[d] > 0 => tasks'[d] > 0

LEMMA ExplainedGrows ==
    ASSUME Grows, NEW d, Explained(d) PROVE Explained(d)'
  BY DEF Grows, Explained

LEMMA GoodKept ==
    ASSUME Shape, Grows, NEW r \in Requests, job'[r] = job[r], JobGood(r)
    PROVE  JobGood(r)'
<1>1. CASE job[r] = NoJob  BY <1>1 DEF JobGood
<1>2. CASE job[r] # NoJob
  <2>1. PICK d \in Drafts : d = job[r].sid  BY <1>2 DEF Shape, Existing
  <2>2. Explained(d) => Explained(d)'  BY ExplainedGrows
  <2>3. (sent[d] > 0 => sent'[d] > 0) /\ (tasks[d] > 0 => tasks'[d] > 0)
    BY DEF Grows
  <2> QED  BY <1>2, <2>1, <2>2, <2>3 DEF JobGood, Explained
<1> QED  BY <1>1, <1>2

LEMMA RowKept ==
    ASSUME Grows, NEW i \in Drafts, sug'[i] = sug[i], RowGood(i)
    PROVE  RowGood(i)'
  BY DEF Grows, RowGood, Sent

\* A step of execution q about suggestion i.
LEMMA SoundOfStep ==
    ASSUME Shape, Sound, Grows, NEW q \in Requests, NEW i \in Drafts,
           \A r \in Requests : r # q => job'[r] = job[r], JobGood(q)',
           Existing' \subseteq Existing \cup {i},
           \A k \in Drafts : k # i => sug'[k] = sug[k],
           RowGood(i)', RiskyIsExplained'
    PROVE  Sound'
<1>1. ASSUME NEW r \in Requests PROVE JobGood(r)'
  BY GoodKept DEF Sound
<1>2. ASSUME NEW k \in Existing' PROVE RowGood(k)'
  <2>1. CASE k = i  BY <2>1
  <2>2. CASE k # i
    <3>1. k \in Existing /\ k \in Drafts  BY <2>2 DEF Existing
    <3> QED  BY <2>2, <3>1, RowKept DEF Sound
  <2> QED  BY <2>1, <2>2
<1> QED  BY <1>1, <1>2 DEF Sound

LEMMA RiskyKept ==
    ASSUME Sound, Grows, \A d \in Risky : sent'[d] > 0 => sent[d] > 0 \/ Explained(d)'
    PROVE  RiskyIsExplained'
<1> SUFFICES ASSUME NEW d \in Risky, sent'[d] > 0 PROVE Explained(d)'
  BY DEF RiskyIsExplained, Explained
<1>1. CASE sent[d] > 0
  <2>1. Explained(d)  BY <1>1 DEF Sound, RiskyIsExplained, Explained
  <2> QED  BY <2>1, ExplainedGrows
<1> QED  BY <1>1

LEMMA SoundInit == Init => Sound
<1> SUFFICES ASSUME Init PROVE Sound
  OBVIOUS
<1>1. Existing = {}  BY DEF Init, Existing
<1>2. RiskyIsExplained  BY ApprovalAssumption DEF Init, RiskyIsExplained
<1> QED  BY <1>1, <1>2 DEF Init, Sound, JobGood

\* A suggestion that a tool call came to.
LEMMA CreatedIsGood ==
    ASSUME Shape, Sound, Grows, NEW d \in Drafts \ called, NEW i \in StandsFor(d),
           Created(i), called' = called \cup {d}
    PROVE  RowGood(i)'
<1>1. /\ i \in Drafts
      /\ \/ i \notin Existing /\ sug'[i] = PendingRow(i)
         \/ i \in Existing /\ sug'[i] = sug[i]
  BY CreatedFacts
<1>2. CASE i \in Existing  BY <1>1, <1>2, RowKept DEF Sound
<1>3. CASE i \notin Existing
  <2>1. /\ sug'[i].status = "pending"
        /\ sug'[i].linked <=> Kind[i] \in {"message", "reply"}
    BY <1>1, <1>3, NewRow
  <2> QED  BY <2>1 DEF RowGood, Sent, Proposals
<1> QED  BY <1>2, <1>3

LEMMA StartIsGood ==
    ASSUME NEW q \in Requests, NEW i \in Drafts, NEW a \in Actions,
           job'[q] = Start(i, a), a = "send" => Explained(i)'
    PROVE  JobGood(q)'
<1>1. job'[q].phase = "start" /\ job'[q].sid = i /\ job'[q].action = a
  BY StartIsJob
<1> QED  BY <1>1 DEF JobGood

LEMMA SoundStage ==
    ASSUME Shape, Sound, NEW q \in Requests, NEW d \in Drafts, StageMessage(q, d)
    PROVE  Sound'
<1>1. /\ d \notin called /\ called' = called \cup {d} /\ Kind[d] = "message"
      /\ UNCHANGED <<asked, acts, sent, tasks, notes, texts>>
  BY StageFacts
<1>2. PICK i \in StandsFor(d) :
         /\ Created(i)
         /\ \/ UNCHANGED job
            \/ d \notin Risky /\ Turns(q, Start(i, "send"))
  BY StageFacts
<1>3. /\ i \in Drafts /\ Kind[i] = "message"
      /\ Existing' \subseteq Existing \cup {i}
      /\ \A k \in Drafts : k # i => sug'[k] = sug[k]
  BY <1>1, <1>2, CreatedFacts
<1>4. Grows  BY <1>1 DEF Grows
<1>5. RowGood(i)'  BY <1>1, <1>2, <1>4, CreatedIsGood
<1>6. RiskyIsExplained'  BY <1>1, <1>4, RiskyKept
<1>7. CASE UNCHANGED job
  <2>1. JobGood(q)'  BY <1>4, <1>7, GoodKept DEF Sound
  <2> QED  BY <1>3, <1>4, <1>5, <1>6, <1>7, <2>1, SoundOfStep
<1>8. CASE d \notin Risky /\ Turns(q, Start(i, "send"))
  <2>1. job'[q] = Start(i, "send") /\ \A r \in Requests : r # q => job'[r] = job[r]
    BY <1>8 DEF Turns, Shape
  <2>2. Explained(i)'  BY <1>1, <1>3, <1>8 DEF Explained
  <2>3. JobGood(q)'  BY <1>3, <2>1, <2>2, StartIsGood DEF Actions
  <2> QED  BY <1>3, <1>4, <1>5, <1>6, <2>1, <2>3, SoundOfStep
<1> QED  BY <1>2, <1>7, <1>8

LEMMA SoundOther ==
    ASSUME Shape, Sound, NEW d \in Drafts, StageOther(d)
    PROVE  Sound'
<1>1. /\ d \notin called /\ called' = called \cup {d}
      /\ UNCHANGED <<asked, job, tasks>>
  BY OtherFacts
<1>2. sent \in [Drafts -> Nat] /\ Risky \subseteq Drafts
  BY ApprovalAssumption DEF Shape
<1>3. CASE sug' = sug /\ d \notin Risky /\ sent' = Plus(sent, d)
  <2>1. \A e \in Drafts : sent[e] > 0 => sent'[e] > 0
    BY <1>2, <1>3, PlusFacts
  <2>2. Grows  BY <1>1, <2>1 DEF Grows
  <2>3. \A e \in Risky : sent'[e] = sent[e]  BY <1>2, <1>3, PlusFacts
  <2>4. RiskyIsExplained'  BY <2>2, <2>3, RiskyKept
  <2>5. \A r \in Requests : JobGood(r)'  BY <1>1, <2>2, GoodKept DEF Sound
  <2>6. \A k \in Existing' : RowGood(k)'
    BY <1>3, <2>2, RowKept DEF Sound, Existing
  <2> QED  BY <2>4, <2>5, <2>6 DEF Sound
<1>4. ASSUME NEW i \in StandsFor(d), Created(i), sent' = sent
      PROVE  Sound'
  <2>1. /\ i \in Drafts /\ Existing' \subseteq Existing \cup {i}
        /\ \A k \in Drafts : k # i => sug'[k] = sug[k]
    BY <1>1, <1>4, CreatedFacts
  <2>2. Grows  BY <1>1, <1>4 DEF Grows
  <2>3. RowGood(i)'  BY <1>1, <1>4, <2>2, CreatedIsGood
  <2>4. RiskyIsExplained'  BY <1>4, <2>2, RiskyKept
  <2>5. \A r \in Requests : JobGood(r)'  BY <1>1, <2>2, GoodKept DEF Sound
  <2>6. ASSUME NEW k \in Existing' PROVE RowGood(k)'
    <3>1. CASE k # i
      <4>1. k \in Existing /\ k \in Drafts  BY <2>1, <3>1 DEF Existing
      <4> QED  BY <2>1, <2>2, <3>1, <4>1, RowKept DEF Sound
    <3> QED  BY <2>3, <3>1
  <2> QED  BY <2>4, <2>5, <2>6 DEF Sound
<1> QED  BY <1>3, <1>4, OtherFacts

LEMMA SoundAct ==
    ASSUME Shape, Sound, NEW q \in Requests, NEW i \in Drafts, NEW action \in Actions,
           Act(q, i, action)
    PROVE  Sound'
<1>1. /\ i \in Existing /\ asked \subseteq asked'
      /\ action = "send" => i \in asked'
      /\ Turns(q, Start(i, action))
      /\ UNCHANGED <<sug, called, sent, tasks>> /\ Existing' = Existing
  BY ActFacts
<1>2. job'[q] = Start(i, action) /\ \A r \in Requests : r # q => job'[r] = job[r]
  BY <1>1 DEF Turns, Shape
<1>3. Grows  BY <1>1 DEF Grows
<1>4. JobGood(q)'  BY <1>1, <1>2, StartIsGood DEF Explained
<1>5. RowGood(i)'  BY <1>1, <1>3, RowKept DEF Sound
<1>6. RiskyIsExplained'  BY <1>1, <1>3, RiskyKept
<1> QED  BY <1>1, <1>2, <1>3, <1>4, <1>5, <1>6, SoundOfStep

\* An execution goes on, and writes nothing.
LEMMA SoundOfJob ==
    ASSUME Shape, Sound, NEW q \in Requests, NEW j \in Jobs, Turns(q, j),
           UNCHANGED <<sug, called, asked, sent, tasks>>, JobGood(q)'
    PROVE  Sound'
<1>1. \A r \in Requests : r # q => job'[r] = job[r]  BY DEF Turns, Shape
<1>2. Grows  BY DEF Grows
<1>3. \A r \in Requests : JobGood(r)'  BY <1>1, <1>2, GoodKept DEF Sound
<1>4. \A k \in Existing' : RowGood(k)'
  BY <1>2, RowKept DEF Sound, Existing
<1>5. RiskyIsExplained'  BY <1>2, RiskyKept
<1> QED  BY <1>3, <1>4, <1>5 DEF Sound

LEMMA SoundRead ==
    ASSUME Shape, Sound, NEW q \in Requests, Read(q)
    PROVE  Sound'
<1>1. /\ job[q] # NoJob /\ job[q].sid \in Existing
      /\ UNCHANGED <<sug, called, asked, sent, tasks>>
  BY ReadFacts
<1>2. PICK j \in EffectsJobs :
         /\ Turns(q, j) /\ j # NoJob /\ j.phase = "effects"
         /\ j.sid = job[q].sid /\ j.action = job[q].action
         /\ j.creates <=> Creates(job[q].sid)
  BY ReadFacts
<1>3. PICK i \in Existing : i = job[q].sid  BY <1>1
<1>4. job'[q] = j  BY <1>2 DEF Turns, Shape
<1>5. JobGood(q) /\ RowGood(i)  BY DEF Sound
<1>6. j.action = "send" => Explained(i)'
  BY <1>1, <1>2, <1>3, <1>5 DEF JobGood, Explained
<1>7. j.creates => Kind[i] \notin Messages  BY <1>2, <1>3 DEF Creates, Messages
<1>8. Kind[i] \in Proposals => j.creates \/ tasks[i] > 0
  BY <1>2, <1>3, <1>5 DEF Creates, RowGood, Proposals
<1>9. JobGood(q)'
  BY <1>1, <1>2, <1>3, <1>4, <1>6, <1>7, <1>8 DEF JobGood
<1> QED  BY <1>1, <1>2, <1>9, SoundOfJob DEF Jobs

LEMMA SoundEffects ==
    ASSUME Shape, Sound, NEW q \in Requests, Effects(q)
    PROVE  Sound'
<1>1. /\ job[q] \in EffectsJobs /\ job[q] # NoJob /\ job[q].phase = "effects"
      /\ job[q].sid \in Existing
      /\ UNCHANGED <<sug, called, asked, tasks>> /\ Existing' = Existing
      /\ \/ sent' = Plus(sent, job[q].sid) /\ job[q].action = "send"
         \/ /\ sent' = sent
            /\ (job[q].action = "send" /\ Kind[job[q].sid] \in Messages)
                  => job[q].creates
  BY EffectsFacts
<1>2. PICK i \in Existing : i = job[q].sid  BY <1>1
<1>3. PICK k \in DoneJobs :
         /\ Turns(q, k) /\ k # NoJob /\ k.phase = "check"
         /\ k.sid = i /\ k.action = job[q].action
         /\ k.task <=> job[q].action = "send" /\ job[q].creates
  BY <1>2, EffectsFacts
<1>4. sent \in [Drafts -> Nat] /\ i \in Drafts /\ Risky \subseteq Drafts
  BY ApprovalAssumption DEF Shape, Existing
<1>5. /\ \A e \in Drafts : sent[e] > 0 => sent'[e] > 0
      /\ \A e \in Drafts : sent'[e] # sent[e] => e = i /\ job[q].action = "send"
      /\ sent' = Plus(sent, i) => sent'[i] > 0
  BY <1>1, <1>2, <1>4, PlusFacts
<1>6. Grows  BY <1>1, <1>5 DEF Grows
<1>7. JobGood(q)  BY DEF Sound
<1>8. job[q].action = "send" => Explained(i)'
  BY <1>1, <1>2, <1>7 DEF JobGood, Explained
<1>9. job'[q] = k /\ \A r \in Requests : r # q => job'[r] = job[r]
  BY <1>3 DEF Turns, Shape
<1>10. job[q].action = "send" /\ Kind[i] \in Messages => sent'[i] > 0
  BY <1>1, <1>2, <1>5, <1>7 DEF JobGood
<1>11. job[q].action = "send" /\ Kind[i] \in Proposals => k.task \/ tasks'[i] > 0
  BY <1>1, <1>2, <1>3, <1>7 DEF JobGood
<1>12. JobGood(q)'
  BY <1>3, <1>8, <1>9, <1>10, <1>11 DEF JobGood
<1>13. RowGood(i)'  BY <1>1, <1>4, <1>6, RowKept DEF Sound
<1>14. RiskyIsExplained'  BY <1>4, <1>5, <1>6, <1>8, RiskyKept
<1> QED  BY <1>1, <1>4, <1>6, <1>9, <1>12, <1>13, <1>14, SoundOfStep

LEMMA SoundGone ==
    ASSUME Shape, Sound, NEW q \in Requests, Gone(q)
    PROVE  Sound'
<1>1. Turns(q, NoJob) /\ NoJob \in Jobs
      /\ UNCHANGED <<sug, called, asked, sent, tasks>>
  BY DEF Gone, Jobs
<1>2. JobGood(q)'  BY <1>1 DEF Turns, Shape, JobGood
<1> QED  BY <1>1, <1>2, SoundOfJob

LEMMA SoundCheck ==
    ASSUME Shape, Sound, NEW q \in Requests, Check(q), ~Gone(q)
    PROVE  Sound'
<1>1. /\ job[q] \in DoneJobs /\ job[q] # NoJob /\ job[q].phase = "check"
      /\ job[q].sid \in Existing
      /\ UNCHANGED <<sug, called, asked, sent, tasks>>
  BY CheckFacts
<1>2. PICK i \in Existing : i = job[q].sid  BY <1>1
<1>3. PICK k \in DoneJobs :
         /\ Turns(q, k) /\ k # NoJob /\ k.phase = "write"
         /\ k.sid = i /\ k.action = job[q].action /\ k.task = job[q].task
  BY <1>2, CheckFacts
<1>4. JobGood(q)  BY DEF Sound
<1>5. job'[q] = k  BY <1>3 DEF Turns, Shape
<1>6. k.action = "send" => Explained(i)'
  BY <1>1, <1>2, <1>3, <1>4 DEF JobGood, Explained
<1>7. JobGood(q)'
  BY <1>1, <1>2, <1>3, <1>4, <1>5, <1>6 DEF JobGood
<1> QED  BY <1>1, <1>3, <1>7, SoundOfJob DEF Jobs

LEMMA SoundWrite ==
    ASSUME Shape, Sound, NEW q \in Requests, Write(q)
    PROVE  Sound'
<1>1. /\ job[q] \in DoneJobs /\ job[q] # NoJob /\ job[q].phase = "write"
      /\ job[q].sid \in Existing /\ Turns(q, NoJob)
      /\ Existing' = Existing /\ UNCHANGED <<called, asked, sent>>
  BY WriteFacts
<1>2. PICK i \in Existing : i = job[q].sid  BY <1>1
<1>3. /\ \A k \in Drafts : k # i => sug'[k] = sug[k]
      /\ sug'[i].taken = job[q].action
      /\ sug'[i].linked <=> sug[i].linked \/ job[q].task
      /\ tasks' = IF job[q].task THEN Plus(tasks, i) ELSE tasks
  BY <1>2, WriteFacts
<1>4. i \in Drafts /\ tasks \in [Drafts -> Nat]  BY DEF Shape, Existing
<1>5. /\ \A e \in Drafts : tasks[e] > 0 => tasks'[e] > 0
      /\ job[q].task => tasks'[i] > 0
  BY <1>3, <1>4, PlusFacts
<1>6. Grows  BY <1>1, <1>5 DEF Grows
<1>7. job'[q] = NoJob /\ \A r \in Requests : r # q => job'[r] = job[r]
  BY <1>1 DEF Turns, Shape
<1>8. JobGood(q)'  BY <1>7 DEF JobGood
<1>9. RowGood(i)'
  <2>1. JobGood(q) /\ RowGood(i)  BY DEF Sound
  <2>2. Sent(i)' => job[q].action = "send"  BY <1>3 DEF Sent
  <2> QED  BY <1>1, <1>2, <1>3, <1>4, <1>5, <2>1, <2>2 DEF JobGood, RowGood
<1>10. RiskyIsExplained'  BY <1>1, <1>6, RiskyKept
<1> QED  BY <1>1, <1>3, <1>4, <1>6, <1>7, <1>8, <1>9, <1>10, SoundOfStep

LEMMA SoundStep == Shape /\ Sound /\ [Next]_vars => Sound'
<1> SUFFICES ASSUME Shape, Sound, [Next]_vars PROVE Sound'
  OBVIOUS
<1>1. CASE UNCHANGED vars
  BY <1>1 DEF vars, Sound, JobGood, RowGood, Sent, Explained, RiskyIsExplained,
              Existing
<1>2. ASSUME NEW d \in Drafts, Deliver(d) PROVE Sound'
  BY <1>2 DEF Deliver, Sound, JobGood, RowGood, Sent, Explained,
              RiskyIsExplained, Existing
<1>3. ASSUME NEW q \in Requests, Fails(q) \/ Crash(q) PROVE Sound'
  BY <1>3, GoneFacts, SoundGone
<1>4. ASSUME NEW q \in Requests, Check(q) PROVE Sound'
  BY <1>4, SoundGone, SoundCheck
<1> QED
  BY <1>1, <1>2, <1>3, <1>4, SoundStage, SoundOther, SoundAct, SoundRead,
     SoundEffects, SoundWrite DEF Next

-----------------------------------------------------------------------------
(* Notifications, texts and messages.                                      *)

LEMMA PartCount ==
    ASSUME NEW T, IsFiniteSet(T), NEW S, S \subseteq T
    PROVE  /\ IsFiniteSet(S) /\ Cardinality(S) \in Nat /\ Cardinality(T) \in Nat
           /\ Cardinality(S) <= Cardinality(T)
  BY FS_Subset, FS_CardinalityType

LEMMA CountKept ==
    ASSUME Shape, Shape', NEW d \in Drafts, CountedAt(d),
           ToNote(d)' \subseteq ToNote(d), sent[d] <= sent'[d],
           notes'[d] + texts'[d] = notes[d] + texts[d]
    PROVE  CountedAt(d)'
<1>1. /\ sent[d] \in Nat /\ sent'[d] \in Nat /\ notes[d] \in Nat
      /\ texts[d] \in Nat /\ notes'[d] \in Nat /\ texts'[d] \in Nat
  BY DEF Shape
<1>2. /\ IsFiniteSet(ToNote(d)') /\ Cardinality(ToNote(d)') \in Nat
      /\ Cardinality(ToNote(d)) \in Nat
      /\ Cardinality(ToNote(d)') <= Cardinality(ToNote(d))
  BY PartCount DEF CountedAt
<1> QED  BY <1>1, <1>2 DEF CountedAt

\* A step that writes no notification and leaves q none to write.
LEMMA CountQuiet ==
    ASSUME Shape, Shape', Counted, NEW q \in Requests,
           \A r \in Requests : r # q => job'[r] = job[r],
           ~(job'[q].phase \in {"check", "write"} /\ job'[q].note),
           \A d \in Drafts : sent[d] <= sent'[d], UNCHANGED <<notes, texts>>
    PROVE  Counted'
<1> SUFFICES ASSUME NEW d \in Drafts PROVE CountedAt(d)'
  BY DEF Counted
<1>1. ToNote(d)' \subseteq ToNote(d)  BY DEF ToNote
<1> QED  BY <1>1, CountKept DEF Counted

LEMMA CountedEffects ==
    ASSUME Shape, Shape', Sound, Counted, NEW q \in Requests, Effects(q)
    PROVE  Counted'
<1> SUFFICES ASSUME NEW d \in Drafts PROVE CountedAt(d)'
  BY DEF Counted
<1>1. /\ job[q] # NoJob /\ job[q].phase = "effects" /\ job[q].sid \in Existing
      /\ UNCHANGED <<notes, texts>>
      /\ \/ sent' = Plus(sent, job[q].sid)
         \/ /\ sent' = sent
            /\ (job[q].action = "send" /\ Kind[job[q].sid] \in Messages)
                  => job[q].creates
  BY EffectsFacts
<1>2. PICK i \in Existing : i = job[q].sid  BY <1>1
<1>3. PICK k \in DoneJobs :
         /\ Turns(q, k) /\ k.phase = "check" /\ k.sid = i
         /\ k.note <=> Kind[i] = "message" /\ job[q].action = "send"
  BY <1>2, EffectsFacts
<1>4. job'[q] = k /\ \A r \in Requests : r # q => job'[r] = job[r]
  BY <1>3 DEF Turns, Shape
<1>5. JobGood(q)  BY DEF Sound
<1>6. i \in Drafts /\ sent \in [Drafts -> Nat]  BY DEF Shape, Existing
<1>7. k.note => sent' = Plus(sent, i)
  BY <1>1, <1>2, <1>3, <1>5 DEF JobGood, Messages
<1>8. sent[d] <= sent'[d]  BY <1>1, <1>2, <1>6, PlusFacts
<1>9. CASE d # i \/ ~k.note
  <2>1. ToNote(d)' \subseteq ToNote(d)  BY <1>3, <1>4, <1>9 DEF ToNote
  <2> QED  BY <1>1, <1>8, <2>1, CountKept DEF Counted
<1>10. CASE d = i /\ k.note
  <2>1. sent'[d] = sent[d] + 1  BY <1>6, <1>7, <1>10, PlusFacts
  <2>2. ToNote(d)' \subseteq ToNote(d) \cup {q}  BY <1>4 DEF ToNote
  <2>3. CountedAt(d)  BY DEF Counted
  <2>4. q \notin ToNote(d)  BY <1>1 DEF ToNote
  <2>5. /\ IsFiniteSet(ToNote(d) \cup {q}) /\ Cardinality(ToNote(d)) \in Nat
        /\ Cardinality(ToNote(d) \cup {q}) = Cardinality(ToNote(d)) + 1
    BY <2>3, <2>4, FS_AddElement, FS_CardinalityType DEF CountedAt
  <2>6. /\ IsFiniteSet(ToNote(d)') /\ Cardinality(ToNote(d)') \in Nat
        /\ Cardinality(ToNote(d)') <= Cardinality(ToNote(d)) + 1
    BY <2>2, <2>5, PartCount
  <2>7. sent[d] \in Nat /\ notes[d] \in Nat /\ texts[d] \in Nat  BY DEF Shape
  <2> QED  BY <1>1, <2>1, <2>3, <2>5, <2>6, <2>7 DEF CountedAt
<1> QED  BY <1>9, <1>10

LEMMA CountedWrite ==
    ASSUME Shape, Shape', Counted, NEW q \in Requests, Write(q)
    PROVE  Counted'
<1> SUFFICES ASSUME NEW d \in Drafts PROVE CountedAt(d)'
  BY DEF Counted
<1>1. /\ job[q] \in DoneJobs /\ job[q].phase = "write"
      /\ job[q].sid \in Existing /\ Turns(q, NoJob)
      /\ notes' = IF job[q].note THEN Plus(notes, job[q].sid) ELSE notes
      /\ UNCHANGED <<sent, texts>>
  BY WriteFacts
<1>2. job'[q] = NoJob /\ \A r \in Requests : r # q => job'[r] = job[r]
  BY <1>1 DEF Turns, Shape
<1>3. ToNote(d)' \subseteq ToNote(d) \ {q}  BY <1>2 DEF ToNote, NoJob
<1>4. /\ sent[d] \in Nat /\ notes[d] \in Nat /\ texts[d] \in Nat
      /\ notes \in [Drafts -> Nat] /\ job[q].sid \in Drafts
  BY <1>1 DEF Shape, Existing
<1>5. CASE d # job[q].sid \/ ~job[q].note
  <2>1. notes'[d] = notes[d]  BY <1>1, <1>4, <1>5, PlusFacts
  <2> QED  BY <1>1, <1>3, <1>4, <2>1, CountKept DEF Counted
<1>6. CASE d = job[q].sid /\ job[q].note
  <2>1. notes'[d] = notes[d] + 1  BY <1>1, <1>4, <1>6, PlusFacts
  <2>2. q \in ToNote(d)  BY <1>1, <1>6 DEF ToNote
  <2>3. CountedAt(d)  BY DEF Counted
  <2>4. /\ IsFiniteSet(ToNote(d) \ {q}) /\ Cardinality(ToNote(d)) \in Nat
        /\ Cardinality(ToNote(d) \ {q}) = Cardinality(ToNote(d)) - 1
    BY <2>2, <2>3, FS_RemoveElement, FS_CardinalityType DEF CountedAt
  <2>5. /\ IsFiniteSet(ToNote(d)') /\ Cardinality(ToNote(d)') \in Nat
        /\ Cardinality(ToNote(d)') <= Cardinality(ToNote(d)) - 1
    BY <1>3, <2>4, PartCount
  <2> QED  BY <1>1, <1>4, <2>1, <2>3, <2>4, <2>5 DEF CountedAt
<1> QED  BY <1>5, <1>6

LEMMA CountedInit == Init => Counted
<1> SUFFICES ASSUME Init, NEW d \in Drafts PROVE CountedAt(d)
  BY DEF Counted
<1>1. ToNote(d) = {}  BY DEF Init, ToNote, NoJob
<1>2. IsFiniteSet({}) /\ Cardinality({}) = 0  BY FS_EmptySet
<1> QED  BY <1>1, <1>2 DEF Init, CountedAt

LEMMA CountedStep == Shape /\ Shape' /\ Sound /\ Counted /\ [Next]_vars => Counted'
<1> SUFFICES ASSUME Shape, Shape', Sound, Counted, [Next]_vars PROVE Counted'
  OBVIOUS
<1>0. \A d \in Drafts : sent[d] \in Nat  BY DEF Shape
<1>1. CASE UNCHANGED <<job, sent, notes, texts>>
  BY <1>1 DEF Counted, CountedAt, ToNote
<1>2. ASSUME NEW q \in Requests, NEW i \in Drafts, NEW a \in Actions,
             Turns(q, Start(i, a)), UNCHANGED <<sent, notes, texts>>
      PROVE  Counted'
  <2>1. job'[q].phase = "start" /\ \A r \in Requests : r # q => job'[r] = job[r]
    BY <1>2, StartIsJob DEF Turns, Shape
  <2> QED  BY <1>0, <1>2, <2>1, CountQuiet
<1>3. ASSUME NEW q \in Requests, NEW d \in Drafts, StageMessage(q, d)
      PROVE  Counted'
  <2>1. d \notin called /\ called' = called \cup {d}
        /\ UNCHANGED <<sent, notes, texts>>
    BY <1>3, StageFacts
  <2>2. PICK i \in StandsFor(d) :
           Created(i) /\ (UNCHANGED job \/ Turns(q, Start(i, "send")))
    BY <1>3, StageFacts
  <2>3. i \in Drafts  BY <2>1, <2>2, CreatedFacts
  <2> QED  BY <1>1, <1>2, <2>1, <2>2, <2>3 DEF Actions
<1>4. ASSUME NEW d \in Drafts, StageOther(d) PROVE Counted'
  <2>1. /\ UNCHANGED <<job, notes, texts>>
        /\ sent' = sent \/ sent' = Plus(sent, d)
    BY <1>4, OtherFacts
  <2>2. \A e \in Drafts : sent[e] <= sent'[e]
    BY <1>0, <2>1, PlusFacts DEF Shape
  <2>3. ASSUME NEW e \in Drafts PROVE CountedAt(e)'
    BY <2>1, <2>2, CountKept DEF Counted, ToNote
  <2> QED  BY <2>3 DEF Counted
<1>5. ASSUME NEW q \in Requests, NEW i \in Drafts, NEW a \in Actions, Act(q, i, a)
      PROVE  Counted'
  BY <1>2, <1>5, ActFacts
<1>6. ASSUME NEW q \in Requests, Read(q) PROVE Counted'
  <2>1. PICK j \in EffectsJobs : Turns(q, j) /\ j.phase = "effects"
    BY <1>6, ReadFacts
  <2>2. job'[q] = j /\ \A r \in Requests : r # q => job'[r] = job[r]
    BY <2>1 DEF Turns, Shape
  <2>3. UNCHANGED <<sent, notes, texts>>  BY <1>6, ReadFacts
  <2> QED  BY <1>0, <2>1, <2>2, <2>3, CountQuiet
<1>7. ASSUME NEW q \in Requests, Gone(q) PROVE Counted'
  <2>1. job'[q].phase = "idle" /\ \A r \in Requests : r # q => job'[r] = job[r]
    BY <1>7 DEF Gone, Turns, Shape, NoJob
  <2> QED  BY <1>0, <1>7, <2>1, CountQuiet DEF Gone
<1>8. ASSUME NEW q \in Requests, Check(q), ~Gone(q) PROVE Counted'
  <2>1. job[q].phase = "check" /\ UNCHANGED <<sent, notes, texts>>
    BY <1>8, CheckFacts
  <2>2. PICK k \in DoneJobs :
           /\ Turns(q, k) /\ k.phase = "write" /\ k.sid = job[q].sid
           /\ k.note = job[q].note
    BY <1>8, CheckFacts
  <2>3. job'[q] = k /\ \A r \in Requests : r # q => job'[r] = job[r]
    BY <2>2 DEF Turns, Shape
  <2>4. ASSUME NEW d \in Drafts PROVE CountedAt(d)'
    <3>1. ToNote(d)' \subseteq ToNote(d)  BY <2>1, <2>2, <2>3 DEF ToNote
    <3> QED  BY <1>0, <2>1, <3>1, CountKept DEF Counted
  <2> QED  BY <2>4 DEF Counted
<1>9. ASSUME NEW d \in Drafts, Deliver(d) PROVE Counted'
  <2>1. UNCHANGED <<job, sent>>  BY <1>9 DEF Deliver
  <2>2. \A e \in Drafts : notes'[e] + texts'[e] = notes[e] + texts[e]
    BY <1>9 DEF Deliver, Plus, Shape
  <2>3. ASSUME NEW e \in Drafts PROVE CountedAt(e)'
    BY <1>0, <2>1, <2>2, CountKept DEF Counted, ToNote
  <2> QED  BY <2>3 DEF Counted
<1>10. CASE UNCHANGED vars  BY <1>1, <1>10 DEF vars
<1> QED
  BY <1>3, <1>4, <1>5, <1>6, <1>7, <1>8, <1>9, <1>10, GoneFacts,
     CountedEffects, CountedWrite DEF Next

-----------------------------------------------------------------------------
(* A suggestion that one execution at a time has in hand.                  *)

LEMMA AloneInit == Init => Alone
  BY DEF Init, Alone, Existing

\* A suggestion no execution does anything about in a step.
LEMMA SingleKept ==
    ASSUME NEW i \in Drafts, Single(i), sug'[i] = sug[i], tasks'[i] = tasks[i],
           \A r \in Requests :
              job'[r] # NoJob /\ job'[r].sid = i => job'[r] = job[r]
    PROVE  Single(i)'
<1>1. ASSUME NEW r \in InHand(i)'
      PROVE  r \in InHand(i) /\ job'[r] = job[r] /\ job[r].sid = i
  BY DEF InHand
<1>2. OneJob(i)'  BY <1>1 DEF Single, OneJob
<1>3. ASSUME NEW r \in InHand(i)' PROVE Knows(r)'
  BY <1>1, <1>3 DEF Single, Knows
<1>4. (Kind[i] \in Proposals => OneTask(i))'  BY DEF Single, OneTask, Sent
<1> QED  BY <1>2, <1>3, <1>4 DEF Single

\* A step of execution q about suggestion i: the others go on as they are.
LEMMA AloneOfStep ==
    ASSUME Shape, Alone, NEW q \in Requests, NEW i \in Drafts,
           \A r \in Requests : r # q => job'[r] = job[r],
           job'[q] = NoJob \/ job'[q].sid = i \/ job'[q] = job[q],
           Existing' = Existing \cup {i}, raced \subseteq raced',
           \A k \in Drafts : k # i => sug'[k] = sug[k] /\ tasks'[k] = tasks[k],
           i \notin raced' => Single(i)'
    PROVE  Alone'
<1>1. \A d \in Drafts \ Existing' : tasks'[d] = 0  BY DEF Alone
<1>2. ASSUME NEW k \in Existing' \ raced', k # i PROVE Single(k)'
  <2>1. k \in Existing \ raced /\ k \in Drafts  BY <1>2 DEF Existing
  <2>2. \A r \in Requests :
           job'[r] # NoJob /\ job'[r].sid = k => job'[r] = job[r]
    BY <1>2
  <2> QED  BY <1>2, <2>1, <2>2, SingleKept DEF Alone
<1> QED  BY <1>1, <1>2 DEF Alone

\* An execution starts; where another has the suggestion in hand, they race.
LEMMA SingleStart ==
    ASSUME Shape, NEW q \in Requests, NEW i \in Drafts, NEW a \in Actions,
           Turns(q, Start(i, a)), Races(i), i \notin raced',
           (Kind[i] \in Proposals => OneTask(i))'
    PROVE  Single(i)'
<1>1. InHand(i) = {}  BY DEF Races
<1>2. job'[q].phase = "start" /\ \A r \in Requests : r # q => job'[r] = job[r]
  BY StartIsJob DEF Turns, Shape
<1>3. InHand(i)' \subseteq {q}  BY <1>1, <1>2 DEF InHand
<1>4. \A r \in InHand(i)' : Knows(r)'  BY <1>2, <1>3 DEF Knows
<1> QED  BY <1>3, <1>4 DEF Single, OneJob

\* A tool call's suggestion has its task when it was accepted, or is new.
LEMMA CreatedIsOne ==
    ASSUME Shape, Alone, NEW d \in Drafts \ called, NEW i \in StandsFor(d),
           Created(i), called' = called \cup {d}, tasks' = tasks, i \notin raced
    PROVE  (Kind[i] \in Proposals => OneTask(i))'
<1>1. /\ i \in Drafts
      /\ \/ i \notin Existing /\ sug'[i] = PendingRow(i)
         \/ i \in Existing /\ sug'[i] = sug[i]
  BY CreatedFacts
<1>2. CASE i \in Existing
  BY <1>1, <1>2 DEF Alone, Single, OneTask, Sent
<1>3. CASE i \notin Existing
  <2>1. /\ sug'[i].status = "pending"
        /\ sug'[i].linked <=> Kind[i] \in {"message", "reply"}
    BY <1>1, <1>3, NewRow
  <2>2. tasks'[i] = 0  BY <1>1, <1>3 DEF Alone
  <2> QED  BY <2>1, <2>2 DEF OneTask, Sent, Proposals
<1> QED  BY <1>2, <1>3

\* A tool call that starts no execution.
LEMMA AloneCreated ==
    ASSUME Shape, Alone, NEW d \in Drafts \ called, NEW i \in StandsFor(d),
           Created(i), called' = called \cup {d}, UNCHANGED <<job, tasks, raced>>
    PROVE  Alone'
<1>1. /\ i \in Drafts /\ Existing' = Existing \cup {i}
      /\ \A k \in Drafts : k # i => sug'[k] = sug[k]
      /\ \/ i \notin Existing
         \/ i \in Existing /\ sug'[i] = sug[i]
  BY CreatedFacts
<1>2. \A e \in Drafts \ Existing' : tasks'[e] = 0  BY <1>1 DEF Alone
<1>3. ASSUME NEW k \in Existing' \ raced' PROVE Single(k)'
  <2>1. CASE k \in Existing
    <3>1. k \in Drafts /\ sug'[k] = sug[k] /\ Single(k)
      BY <1>1, <1>3, <2>1 DEF Alone, Existing
    <3> QED  BY <3>1, SingleKept
  <2>2. CASE k \notin Existing
    <3>1. k = i  BY <1>1, <2>2
    <3>2. InHand(k)' = {}  BY <2>2 DEF InHand, Shape
    <3>3. (Kind[k] \in Proposals => OneTask(k))'
      BY <1>3, <3>1, CreatedIsOne
    <3> QED  BY <3>2, <3>3 DEF Single, OneJob
  <2> QED  BY <2>1, <2>2
<1> QED  BY <1>2, <1>3 DEF Alone

LEMMA AloneStage ==
    ASSUME Shape, Alone, NEW q \in Requests, NEW d \in Drafts, StageMessage(q, d)
    PROVE  Alone'
<1>1. d \notin called /\ called' = called \cup {d} /\ tasks' = tasks
  BY StageFacts
<1>2. PICK i \in StandsFor(d) :
         /\ Created(i)
         /\ UNCHANGED <<job, raced>> \/ (Turns(q, Start(i, "send")) /\ Races(i))
  BY StageFacts
<1>3. CASE UNCHANGED <<job, raced>>  BY <1>1, <1>2, <1>3, AloneCreated
<1>4. CASE Turns(q, Start(i, "send")) /\ Races(i)
  <2>1. /\ i \in Drafts /\ Existing' = Existing \cup {i}
        /\ \A k \in Drafts : k # i => sug'[k] = sug[k]
    BY <1>1, <1>2, CreatedFacts
  <2>2. job'[q].sid = i /\ \A r \in Requests : r # q => job'[r] = job[r]
    BY <1>4, <2>1, StartIsJob DEF Turns, Shape, Actions
  <2>3. raced \subseteq raced'  BY <1>4 DEF Races
  <2>4. ASSUME i \notin raced' PROVE Single(i)'
    <3>1. i \notin raced  BY <2>3, <2>4
    <3>2. (Kind[i] \in Proposals => OneTask(i))'
      BY <1>1, <1>2, <3>1, CreatedIsOne
    <3> QED  BY <1>4, <2>1, <2>4, <3>2, SingleStart DEF Actions
  <2> QED  BY <1>1, <2>1, <2>2, <2>3, <2>4, AloneOfStep
<1> QED  BY <1>2, <1>3, <1>4

LEMMA AloneOther ==
    ASSUME Shape, Alone, NEW d \in Drafts, StageOther(d)
    PROVE  Alone'
<1>1. /\ d \notin called /\ called' = called \cup {d}
      /\ UNCHANGED <<job, tasks, raced>>
      /\ sug' = sug \/ \E i \in StandsFor(d) : Created(i)
  BY OtherFacts
<1>2. CASE sug' = sug
  <2>1. Existing' = Existing  BY <1>2 DEF Existing
  <2>2. \A k \in Existing \ raced : Single(k)'
    BY <1>1, <1>2, SingleKept DEF Alone, Existing
  <2> QED  BY <1>1, <2>1, <2>2 DEF Alone
<1>3. ASSUME NEW i \in StandsFor(d), Created(i) PROVE Alone'
  BY <1>1, <1>3, AloneCreated
<1> QED  BY <1>1, <1>2, <1>3

LEMMA AloneAct ==
    ASSUME Shape, Alone, NEW q \in Requests, NEW i \in Drafts,
           NEW action \in Actions, Act(q, i, action)
    PROVE  Alone'
<1>1. /\ i \in Existing /\ Turns(q, Start(i, action)) /\ Races(i)
      /\ UNCHANGED <<sug, tasks>> /\ Existing' = Existing
  BY ActFacts
<1>2. job'[q].sid = i /\ \A r \in Requests : r # q => job'[r] = job[r]
  BY <1>1, StartIsJob DEF Turns, Shape
<1>3. raced \subseteq raced'  BY <1>1 DEF Races
<1>4. ASSUME i \notin raced' PROVE Single(i)'
  <2>1. Single(i)  BY <1>1, <1>3, <1>4 DEF Alone
  <2>2. (Kind[i] \in Proposals => OneTask(i))'
    BY <1>1, <2>1 DEF Single, OneTask, Sent
  <2> QED  BY <1>1, <1>4, <2>2, SingleStart
<1> QED  BY <1>1, <1>2, <1>3, <1>4, AloneOfStep

\* A job of the only execution of i goes on, or ends, and writes nothing.
LEMMA AloneOfJob ==
    ASSUME Shape, Alone, NEW q \in Requests, NEW j \in Jobs, Turns(q, j),
           job[q] # NoJob, j = NoJob \/ j.sid = job[q].sid,
           UNCHANGED <<sug, tasks, raced>>,
           Single(job[q].sid) /\ j # NoJob => Knows(q)'
    PROVE  Alone'
<1>1. PICK i \in Existing : i = job[q].sid  BY DEF Shape
<1>2. job'[q] = j /\ \A r \in Requests : r # q => job'[r] = job[r]
  BY DEF Turns, Shape
<1>3. i \in Drafts /\ Existing' = Existing  BY DEF Existing
<1>4. ASSUME i \notin raced PROVE Single(i)'
  <2>1. Single(i)  BY <1>4 DEF Alone
  <2>2. InHand(i) = {q}  BY <1>1, <2>1 DEF Single, OneJob, InHand
  <2>3. InHand(i)' \subseteq {q} /\ (j = NoJob => InHand(i)' = {})
    BY <1>2, <2>2 DEF InHand
  <2>4. \A r \in InHand(i)' : Knows(r)'  BY <1>1, <2>1, <2>3
  <2>5. (Kind[i] \in Proposals => OneTask(i))'
    BY <2>1 DEF Single, OneTask, Sent
  <2> QED  BY <2>3, <2>4, <2>5 DEF Single, OneJob
<1> QED  BY <1>1, <1>2, <1>3, <1>4, AloneOfStep

LEMMA KnowsOf ==
    ASSUME NEW q \in Requests, job[q] # NoJob, Single(job[q].sid)
    PROVE  Knows(q)
  BY DEF Single, InHand

LEMMA AloneRead ==
    ASSUME Shape, Alone, NEW q \in Requests, Read(q)
    PROVE  Alone'
<1>1. job[q] # NoJob /\ job[q].sid \in Existing /\ UNCHANGED <<sug, tasks, raced>>
  BY ReadFacts
<1>2. PICK j \in EffectsJobs :
         /\ Turns(q, j) /\ j.phase = "effects" /\ j.sid = job[q].sid
         /\ j.creates <=> Creates(job[q].sid)
         /\ j.seen = sug[job[q].sid].status
  BY ReadFacts
<1>3. job'[q] = j  BY <1>2 DEF Turns, Shape
<1>4. Kind[j.sid] \in Proposals => (j.creates <=> ~sug[j.sid].linked)
  BY <1>2 DEF Creates, Proposals
<1>5. Knows(q)'  BY <1>1, <1>2, <1>3, <1>4 DEF Knows
<1> QED  BY <1>1, <1>2, <1>5, AloneOfJob DEF Jobs

LEMMA AloneEffects ==
    ASSUME Shape, Alone, NEW q \in Requests, Effects(q)
    PROVE  Alone'
<1>1. /\ job[q] # NoJob /\ job[q].phase = "effects"
      /\ UNCHANGED <<sug, tasks, raced>>
  BY EffectsFacts
<1>2. PICK k \in DoneJobs :
         /\ Turns(q, k) /\ k.phase = "check" /\ k.sid = job[q].sid
         /\ k.action = job[q].action /\ k.seen = job[q].seen
         /\ k.task <=> job[q].action = "send" /\ job[q].creates
  BY EffectsFacts
<1>3. job'[q] = k  BY <1>2 DEF Turns, Shape
<1>4. ASSUME Single(job[q].sid) PROVE Knows(q)'
  <2>1. Knows(q)  BY <1>1, <1>4, KnowsOf
  <2> QED  BY <1>1, <1>2, <1>3, <2>1 DEF Knows
<1> QED  BY <1>1, <1>2, <1>4, AloneOfJob DEF Jobs

LEMMA AloneGone ==
    ASSUME Shape, Alone, NEW q \in Requests, Gone(q)
    PROVE  Alone'
  BY AloneOfJob DEF Gone, Jobs

LEMMA AloneCheck ==
    ASSUME Shape, Alone, NEW q \in Requests, Check(q), ~Gone(q)
    PROVE  Alone'
<1>1. /\ job[q] # NoJob /\ job[q].phase = "check"
      /\ UNCHANGED <<sug, tasks, raced>>
      /\ (IF job[q].fresh THEN sug[job[q].sid].status ELSE job[q].seen)
            = "pending"
  BY CheckFacts
<1>2. PICK k \in DoneJobs :
         /\ Turns(q, k) /\ k.phase = "write" /\ k.sid = job[q].sid
         /\ k.action = job[q].action /\ k.seen = job[q].seen
         /\ k.task = job[q].task
  BY CheckFacts
<1>3. job'[q] = k  BY <1>2 DEF Turns, Shape
<1>4. ASSUME Single(job[q].sid) PROVE Knows(q)'
  <2>1. Knows(q)  BY <1>1, <1>4, KnowsOf
  <2>2. k.seen = sug[k.sid].status /\ k.seen = "pending"
    BY <1>1, <1>2, <2>1 DEF Knows
  <2> QED  BY <1>1, <1>2, <1>3, <2>1, <2>2 DEF Knows
<1> QED  BY <1>1, <1>2, <1>4, AloneOfJob DEF Jobs

\* The verdict of the only execution comes over a pending row.
LEMMA WritesOverPending ==
    ASSUME Alone, NEW q \in Requests, job[q] # NoJob, job[q].phase = "write",
           job[q].sid \in Existing \ raced
    PROVE  Knows(q) /\ sug[job[q].sid].status = "pending"
<1>1. Single(job[q].sid)  BY DEF Alone
<1>2. Knows(q)  BY <1>1, KnowsOf
<1> QED  BY <1>2 DEF Knows

LEMMA AloneWrite ==
    ASSUME Shape, Alone, NEW q \in Requests, Write(q)
    PROVE  Alone'
<1>1. /\ job[q] # NoJob /\ job[q].phase = "write" /\ job[q].sid \in Existing
      /\ Turns(q, NoJob) /\ Existing' = Existing /\ raced' = raced
      /\ job[q] \in DoneJobs
  BY WriteFacts
<1>2. PICK i \in Existing : i = job[q].sid  BY <1>1
<1>3. /\ \A k \in Drafts : k # i => sug'[k] = sug[k]
      /\ sug'[i].status
            = IF job[q].action = "dismiss" THEN "dismissed" ELSE "accepted"
      /\ sug'[i].taken = job[q].action
      /\ sug'[i].linked <=> sug[i].linked \/ job[q].task
      /\ tasks' = IF job[q].task THEN Plus(tasks, i) ELSE tasks
  BY <1>2, WriteFacts
<1>4. i \in Drafts /\ tasks \in [Drafts -> Nat]  BY DEF Shape, Existing
<1>5. /\ \A k \in Drafts : k # i => tasks'[k] = tasks[k]
      /\ tasks'[i] = IF job[q].task THEN tasks[i] + 1 ELSE tasks[i]
  BY <1>3, <1>4, PlusFacts
<1>6. job'[q] = NoJob /\ \A r \in Requests : r # q => job'[r] = job[r]
  BY <1>1 DEF Turns, Shape
<1>7. ASSUME i \notin raced PROVE Single(i)'
  <2>1. Single(i)  BY <1>7 DEF Alone
  <2>2. Knows(q) /\ sug[i].status = "pending"
    BY <1>1, <1>2, <1>7, WritesOverPending
  <2>3. InHand(i) = {q}  BY <1>1, <1>2, <2>1 DEF Single, OneJob, InHand
  <2>4. InHand(i)' = {}  BY <1>6, <2>3 DEF InHand
  <2>5. ASSUME Kind[i] \in Proposals PROVE OneTask(i)'
    <3>1. tasks[i] = 0 /\ ~sug[i].linked
      BY <2>1, <2>2, <2>5 DEF Single, OneTask, Sent
    <3>2. job[q].task <=> job[q].action = "send"
      BY <1>1, <1>2, <2>2, <2>5, <3>1 DEF Knows
    <3>3. Sent(i)' <=> job[q].action = "send"  BY <1>3 DEF Sent
    <3> QED  BY <1>3, <1>5, <3>1, <3>2, <3>3 DEF OneTask
  <2> QED  BY <2>4, <2>5 DEF Single, OneJob
<1> QED  BY <1>1, <1>3, <1>4, <1>5, <1>6, <1>7, AloneOfStep

LEMMA AloneStep == Shape /\ Alone /\ [Next]_vars => Alone'
<1> SUFFICES ASSUME Shape, Alone, [Next]_vars PROVE Alone'
  OBVIOUS
<1>1. CASE UNCHANGED <<sug, job, tasks, raced>>
  <2>1. Existing' = Existing  BY <1>1 DEF Existing
  <2>2. \A k \in Existing \ raced : Single(k)'
    BY <1>1, SingleKept DEF Alone, Existing
  <2> QED  BY <1>1, <2>1, <2>2 DEF Alone
<1>2. ASSUME NEW d \in Drafts, Deliver(d) PROVE Alone'
  BY <1>1, <1>2 DEF Deliver
<1>3. CASE UNCHANGED vars  BY <1>1, <1>3 DEF vars
<1>4. ASSUME NEW q \in Requests, Fails(q) \/ Crash(q) PROVE Alone'
  BY <1>4, GoneFacts, AloneGone
<1>5. ASSUME NEW q \in Requests, Check(q) PROVE Alone'
  BY <1>5, AloneGone, AloneCheck
<1> QED
  BY <1>2, <1>3, <1>4, <1>5, AloneStage, AloneOther, AloneAct, AloneRead,
     AloneEffects, AloneWrite DEF Next

-----------------------------------------------------------------------------
(* The rows as managers see them implement SuggestionLife.                 *)

LifeStutters == UNCHANGED Life!lifeVars

LEMMA ProposedOf ==
    ASSUME Shape, NEW i \in Drafts
    PROVE  /\ Life!Proposed(i) <=> i \in Existing
           /\ Verdict[i] = "pending" <=> sug[i].status = "pending"
<1>1. /\ i \notin Existing => sug[i].status = "none"
      /\ i \in Existing => sug[i].status \in RowStatuses
  BY RowFacts DEF Existing, NoRow
<1>2. Verdict[i] = IF sug[i].status = "accepted" /\ ~Sent(i)
                   THEN "overridden" ELSE sug[i].status
  BY DEF Verdict
<1> QED  BY <1>1, <1>2 DEF Life!Proposed, RowStatuses, Sent

LEMMA VerdictAt ==
    ASSUME NEW i \in Drafts, \A k \in Drafts : k # i => sug'[k] = sug[k]
    PROVE  Verdict' = [Verdict EXCEPT ![i] = Verdict'[i]]
  BY DEF Verdict, Sent

LEMMA CarriedKept ==
    ASSUME UNCHANGED <<Existing, sent, tasks>>
    PROVE  CarriedOut' = CarriedOut
  BY DEF CarriedOut

LEMMA CarriedAt ==
    ASSUME Shape, NEW i \in Drafts, Existing' = Existing \cup {i},
           \A k \in Drafts : k # i => sent'[k] = sent[k] /\ tasks'[k] = tasks[k],
           sent'[i] \in Nat, sent[i] <= sent'[i],
           tasks'[i] \in Nat, tasks[i] <= tasks'[i]
    PROVE  CarriedOut' \in {CarriedOut, CarriedOut \cup {i}}
<1>1. ASSUME NEW k \in Drafts, k # i
      PROVE  k \in CarriedOut' <=> k \in CarriedOut
  BY <1>1 DEF CarriedOut
<1>2. CarriedOut \subseteq Drafts /\ CarriedOut' \subseteq Drafts
  BY DEF CarriedOut, Existing
<1>3. sent[i] \in Nat /\ tasks[i] \in Nat  BY DEF Shape
<1>4. i \in CarriedOut => i \in CarriedOut'  BY <1>3 DEF CarriedOut
<1>5. CASE i \in CarriedOut'
  <2>1. CarriedOut' = CarriedOut \cup {i}  BY <1>1, <1>2, <1>5
  <2> QED  BY <2>1
<1>6. CASE i \notin CarriedOut'
  <2>1. CarriedOut' = CarriedOut  BY <1>1, <1>2, <1>4, <1>6
  <2> QED  BY <2>1
<1> QED  BY <1>5, <1>6

\* A step that changes nothing a manager sees.
LEMMA LifeKept ==
    ASSUME UNCHANGED <<sug, sent, tasks, raced>>
    PROVE  LifeStutters
<1>1. UNCHANGED Existing  BY DEF Existing
<1>2. Verdict' = Verdict  BY DEF Verdict, Sent
<1> QED  BY <1>1, <1>2, CarriedKept DEF LifeStutters, Life!lifeVars

LEMMA LifeContends ==
    ASSUME Shape, NEW i \in Existing, Races(i), UNCHANGED <<sug, sent, tasks>>
    PROVE  LifeStutters \/ Life!Contend(i)
<1>1. CASE raced' = raced  BY <1>1, LifeKept
<1>2. CASE raced' = raced \cup {i}
  <2>1. Life!Proposed(i)  BY RowFacts, ProposedOf
  <2>2. UNCHANGED Existing  BY DEF Existing
  <2>3. Verdict' = Verdict  BY DEF Verdict, Sent
  <2> QED  BY <1>2, <2>1, <2>2, <2>3, CarriedKept DEF Life!Contend
<1> QED  BY <1>1, <1>2 DEF Races

\* A tool call that gets a suggestion of its own.
LEMMA LifeProposes ==
    ASSUME Shape, NEW d \in Drafts \ called, NEW i \in StandsFor(d), Created(i),
           called' = called \cup {d}, i \notin Existing,
           UNCHANGED <<sent, tasks, raced>>
    PROVE  Life!Propose(i)
<1>1. /\ i \in Drafts /\ sug'[i] = PendingRow(i)
      /\ Existing' = Existing \cup {i}
      /\ \A k \in Drafts : k # i => sug'[k] = sug[k]
  BY CreatedFacts
<1>2. sug'[i].status = "pending"  BY <1>1, NewRow
<1>3. Verdict'[i] = "pending"  BY <1>1, <1>2 DEF Verdict, Sent
<1>4. Verdict' = [Verdict EXCEPT ![i] = "pending"]  BY <1>1, <1>3, VerdictAt
<1>5. sent[i] \in Nat /\ tasks[i] \in Nat  BY <1>1 DEF Shape
<1>6. CarriedOut' \in {CarriedOut, CarriedOut \cup {i}}
  BY <1>1, <1>5, CarriedAt
<1>7. ~Life!Proposed(i)  BY <1>1, ProposedOf
<1> QED  BY <1>4, <1>6, <1>7 DEF Life!Propose

LEMMA LifeStage ==
    ASSUME Shape, NEW q \in Requests, NEW d \in Drafts, StageMessage(q, d)
    PROVE  LifeStutters \/ \E i \in Drafts : Life!Propose(i) \/ Life!Contend(i)
<1>1. d \notin called /\ called' = called \cup {d} /\ UNCHANGED <<sent, tasks>>
  BY StageFacts
<1>2. PICK i \in StandsFor(d) :
         /\ Created(i)
         /\ UNCHANGED <<job, raced>> \/ (Turns(q, Start(i, "send")) /\ Races(i))
  BY StageFacts
<1>3. /\ i \in Drafts
      /\ i \in Existing => sug'[i] = sug[i]
      /\ \A k \in Drafts : k # i => sug'[k] = sug[k]
      /\ sug' \in [Drafts -> RowType \cup {NoRow}]
  BY <1>1, <1>2, CreatedFacts
<1>4. CASE i \notin Existing
  <2>1. InHand(i) = {}  BY <1>4 DEF InHand, Shape
  <2>2. raced' = raced  BY <1>2, <2>1 DEF Races
  <2> QED  BY <1>1, <1>2, <1>3, <1>4, <2>2, LifeProposes
<1>5. CASE i \in Existing
  <2>1. sug' = sug  BY <1>3, <1>5 DEF Shape
  <2>2. CASE raced' = raced  BY <1>1, <2>1, <2>2, LifeKept
  <2>3. CASE Races(i)  BY <1>1, <1>3, <1>5, <2>1, <2>3, LifeContends
  <2> QED  BY <1>2, <2>2, <2>3
<1> QED  BY <1>4, <1>5

LEMMA LifeOther ==
    ASSUME Shape, NEW d \in Drafts, StageOther(d)
    PROVE  LifeStutters \/ \E i \in Drafts : Life!Propose(i)
<1>1. /\ d \notin called /\ called' = called \cup {d}
      /\ UNCHANGED <<tasks, raced>>
  BY OtherFacts
<1>2. CASE sug' = sug /\ sent' = Plus(sent, d)
  <2>1. UNCHANGED Existing /\ Verdict' = Verdict
    BY <1>2 DEF Existing, Verdict, Sent
  <2>2. d \notin Existing  BY <1>1 DEF Shape
  <2>3. \A k \in Existing : sent'[k] = sent[k]
    BY <1>2, <2>2, PlusFacts DEF Shape, Existing
  <2>4. CarriedOut' = CarriedOut  BY <1>1, <2>1, <2>3 DEF CarriedOut
  <2> QED  BY <1>1, <2>1, <2>4 DEF LifeStutters, Life!lifeVars
<1>3. ASSUME sent' = sent, NEW i \in StandsFor(d), Created(i)
      PROVE  LifeStutters \/ \E x \in Drafts : Life!Propose(x)
  <2>1. /\ i \in Drafts
        /\ i \in Existing => sug'[i] = sug[i]
        /\ \A k \in Drafts : k # i => sug'[k] = sug[k]
        /\ sug' \in [Drafts -> RowType \cup {NoRow}]
    BY <1>1, <1>3, CreatedFacts
  <2>2. CASE i \in Existing
    <3>1. sug' = sug  BY <2>1, <2>2 DEF Shape
    <3> QED  BY <1>1, <1>3, <3>1, LifeKept
  <2>3. CASE i \notin Existing
    BY <1>1, <1>3, <2>1, <2>3, LifeProposes
  <2> QED  BY <2>2, <2>3
<1> QED  BY <1>2, <1>3, OtherFacts

LEMMA LifeEffects ==
    ASSUME Shape, NEW q \in Requests, Effects(q)
    PROVE  LifeStutters \/ \E i \in Drafts : Life!CarryOut(i)
<1>1. job[q].sid \in Existing /\ UNCHANGED <<sug, tasks, raced, Existing>>
  BY EffectsFacts
<1>2. PICK i \in Existing : i = job[q].sid  BY <1>1
<1>3. i \in Drafts  BY DEF Existing
<1>4. CASE sent' = sent  BY <1>1, <1>4, LifeKept
<1>5. CASE sent' = Plus(sent, i)
  <2>1. /\ sent \in [Drafts -> Nat] /\ sent[i] \in Nat /\ tasks[i] \in Nat
    BY <1>3 DEF Shape
  <2>2. /\ sent'[i] = sent[i] + 1
        /\ \A k \in Drafts : k # i => sent'[k] = sent[k]
    BY <1>3, <1>5, <2>1, PlusFacts
  <2>3. CarriedOut' \in {CarriedOut, CarriedOut \cup {i}}
    BY <1>1, <1>3, <2>1, <2>2, CarriedAt
  <2>4. Verdict' = Verdict  BY <1>1 DEF Verdict, Sent
  <2>5. Life!Proposed(i)  BY <1>3, ProposedOf
  <2> QED
    BY <1>1, <1>3, <2>3, <2>4, <2>5
       DEF LifeStutters, Life!lifeVars, Life!CarryOut
<1> QED  BY <1>2, <1>4, <1>5, EffectsFacts

LEMMA LifeWrite ==
    ASSUME Shape, Sound, Alone, NEW q \in Requests, Write(q)
    PROVE  \E i \in Drafts : \E v \in {"accepted", "overridden", "dismissed"} :
              Life!Decide(i, v)
<1>1. /\ job[q] \in DoneJobs /\ job[q] # NoJob /\ job[q].phase = "write"
      /\ job[q].sid \in Existing /\ UNCHANGED <<Existing, sent, raced>>
  BY WriteFacts
<1>2. PICK i \in Existing : i = job[q].sid  BY <1>1
<1>3. i \in Drafts  BY DEF Existing
<1>4. /\ \A k \in Drafts : k # i => sug'[k] = sug[k]
      /\ sug'[i].status
            = IF job[q].action = "dismiss" THEN "dismissed" ELSE "accepted"
      /\ sug'[i].taken = job[q].action
      /\ tasks' = IF job[q].task THEN Plus(tasks, i) ELSE tasks
  BY <1>2, WriteFacts
<1>5. /\ tasks \in [Drafts -> Nat] /\ tasks[i] \in Nat /\ sent[i] \in Nat
  BY <1>3 DEF Shape
<1>6. /\ \A k \in Drafts : k # i => tasks'[k] = tasks[k]
      /\ tasks'[i] = IF job[q].task THEN tasks[i] + 1 ELSE tasks[i]
  BY <1>3, <1>4, <1>5, PlusFacts
<1>7. CarriedOut' \in {CarriedOut, CarriedOut \cup {i}}
  BY <1>1, <1>3, <1>5, <1>6, CarriedAt
<1>8. Verdict'[i] = IF job[q].action = "send" THEN "accepted"
                    ELSE IF job[q].action = "dismiss" THEN "dismissed"
                    ELSE "overridden"
  BY <1>3, <1>4 DEF Verdict, Sent
<1>9. Verdict' = [Verdict EXCEPT ![i] = Verdict'[i]]
  BY <1>3, <1>4, VerdictAt
<1>10. Verdict'[i] = "accepted" => i \in CarriedOut'
  <2>1. SUFFICES ASSUME job[q].action = "send" PROVE i \in CarriedOut'
    BY <1>8
  <2>2. JobGood(q)  BY DEF Sound
  <2>3. /\ Kind[i] \in Messages => sent[i] > 0
        /\ Kind[i] \in Proposals => job[q].task \/ tasks[i] > 0
    BY <1>1, <1>2, <2>1, <2>2 DEF JobGood
  <2>4. /\ Kind[i] \in Messages => sent'[i] > 0
        /\ Kind[i] \in Proposals => tasks'[i] > 0
    BY <1>1, <1>5, <1>6, <2>3
  <2>5. i \in Existing'  BY <1>1
  <2> QED  BY <2>4, <2>5 DEF CarriedOut, Messages, Proposals
<1>11. Verdict[i] = "pending" \/ (Life!Proposed(i) /\ i \in raced)
  <2>1. Life!Proposed(i) /\ (Verdict[i] = "pending" <=> sug[i].status = "pending")
    BY <1>3, ProposedOf
  <2>2. i \notin raced => sug[i].status = "pending"
    BY <1>1, <1>2, WritesOverPending
  <2> QED  BY <2>1, <2>2
<1>12. PICK v \in {"accepted", "overridden", "dismissed"} : v = Verdict'[i]
  BY <1>8
<1>13. Life!Decide(i, v)
  BY <1>1, <1>7, <1>9, <1>10, <1>11, <1>12 DEF Life!Decide
<1> QED  BY <1>3, <1>13

LEMMA LifeInit == Init => Life!LifeInit
<1> SUFFICES ASSUME Init PROVE Life!LifeInit
  OBVIOUS
<1>1. Existing = {}  BY DEF Init, Existing
<1>2. CarriedOut = {}  BY <1>1 DEF CarriedOut
<1>3. Verdict = [i \in Drafts |-> "none"]  BY DEF Init, Verdict, Sent, NoRow
<1> QED  BY <1>2, <1>3 DEF Init, Life!LifeInit

LEMMA LifeStep ==
    Shape /\ Sound /\ Alone /\ [Next]_vars => [Life!LifeNext]_(Life!lifeVars)
<1> SUFFICES ASSUME Shape, Sound, Alone, [Next]_vars
             PROVE  LifeStutters \/ Life!LifeNext
  BY DEF LifeStutters
<1>1. ASSUME NEW q \in Requests, NEW d \in Drafts, StageMessage(q, d)
      PROVE  LifeStutters \/ Life!LifeNext
  BY <1>1, LifeStage DEF Life!LifeNext
<1>2. ASSUME NEW d \in Drafts, StageOther(d)
      PROVE  LifeStutters \/ Life!LifeNext
  BY <1>2, LifeOther DEF Life!LifeNext
<1>3. ASSUME NEW q \in Requests, NEW i \in Drafts, NEW a \in Actions, Act(q, i, a)
      PROVE  LifeStutters \/ Life!LifeNext
  <2>1. /\ i \in Existing /\ Races(i) /\ UNCHANGED <<sug, sent, tasks>>
    BY <1>3, ActFacts
  <2> QED  BY <2>1, LifeContends DEF Life!LifeNext
<1>4. ASSUME NEW q \in Requests, Read(q) \/ Fails(q) \/ Check(q) \/ Crash(q)
      PROVE  LifeStutters
  BY <1>4, LifeKept DEF Read, Fails, Check, Crash
<1>5. ASSUME NEW q \in Requests, Effects(q)
      PROVE  LifeStutters \/ Life!LifeNext
  BY <1>5, LifeEffects DEF Life!LifeNext
<1>6. ASSUME NEW q \in Requests, Write(q)
      PROVE  Life!LifeNext
  BY <1>6, LifeWrite DEF Life!LifeNext
<1>7. ASSUME NEW d \in Drafts, Deliver(d) PROVE LifeStutters
  BY <1>7, LifeKept DEF Deliver
<1>8. CASE UNCHANGED vars  BY <1>8, LifeKept DEF vars
<1> QED  BY <1>1, <1>2, <1>3, <1>4, <1>5, <1>6, <1>7, <1>8 DEF Next

-----------------------------------------------------------------------------
(* The theorems.                                                           *)

Inv == Shape /\ Sound /\ Counted /\ Alone

LEMMA Invariant == Spec => []Inv
<1>1. Init => Inv
  BY ShapeInit, SoundInit, CountedInit, AloneInit DEF Inv
<1>2. Inv /\ [Next]_vars => Inv'
  BY ShapeStep, SoundStep, CountedStep, AloneStep DEF Inv
<1> QED  BY <1>1, <1>2, PTL DEF Spec

LEMMA InvTypeOK == Inv => TypeOK
<1> SUFFICES ASSUME Inv PROVE TypeOK
  OBVIOUS
<1>1. Shape  BY DEF Inv
<1>2. \A q \in Requests : job[q].phase \in Phases  BY <1>1, JobCases DEF Shape
<1> QED  BY <1>1, <1>2 DEF TypeOK, Shape, Counts

LEMMA InvTexts == Inv => TextsFollowMessages
<1> SUFFICES ASSUME Inv, NEW d \in Drafts PROVE notes[d] + texts[d] <= sent[d]
  BY DEF TextsFollowMessages
<1>1. CountedAt(d)  BY DEF Inv, Counted
<1>2. Cardinality(ToNote(d)) \in Nat  BY <1>1, FS_CardinalityType DEF CountedAt
<1>3. notes[d] \in Nat /\ texts[d] \in Nat /\ sent[d] \in Nat
  BY DEF Inv, Shape
<1> QED  BY <1>1, <1>2, <1>3 DEF CountedAt

LEMMA InvOneTask == Inv => OneTaskPerProposal
  BY DEF Inv, Alone, Single, OneTask, OneTaskPerProposal, Proposals

\* Suggestions, executions and messages keep their types, an execution under way
\* has a suggestion that exists, and so has one that executions raced for.
THEOREM TypeCorrect == Spec => []TypeOK
  BY Invariant, InvTypeOK, PTL

\* A suggested message that a manager sees as accepted by its own action was
\* stored, however executions failed, died, overlapped or were asked for twice
\* (act_on_suggestion, _send_draft_message).
THEOREM AcceptedIsSent == Spec => []AcceptedWasSent
<1>1. Inv => AcceptedWasSent
  BY DEF Inv, Sound, RowGood, AcceptedWasSent, Messages
<1> QED  BY Invariant, <1>1, PTL

\* The SMS about a draft never outnumber its stored messages.
THEOREM TextsNeverAhead == Spec => []TextsFollowMessages
  BY Invariant, InvTexts, PTL

\* A proposal that executions had in hand one at a time has exactly one task once
\* it is accepted by its own action, and none before, whichever of its executions
\* failed, died or came again after the acceptance.
THEOREM ProposalsHaveOneTask == Spec => []OneTaskPerProposal
  BY Invariant, InvOneTask, PTL

\* A risky draft is sent because a manager asked for it, or because a safe draft
\* about the same task took over its pending suggestion.
THEOREM RiskySendsExplained == Spec => []RiskyIsExplained
<1>1. Inv => RiskyIsExplained  BY DEF Inv, Sound
<1> QED  BY Invariant, <1>1, PTL

\* The approval implements SuggestionLife: what a manager sees of a suggestion is
\* proposed once, a message is accepted by its own action only over a stored
\* message and a proposal only with its task, and the first verdict is the last
\* unless two executions had the suggestion in hand at once.
THEOREM VerdictsFinal == Spec => VerdictsAreFinal
<1>1. Inv => Shape /\ Sound /\ Alone  BY DEF Inv
<1> QED
  BY Invariant, <1>1, LifeInit, LifeStep, PTL
     DEF Spec, VerdictsAreFinal, Life!LifeSpec
=============================================================================

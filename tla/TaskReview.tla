----------------------------- MODULE TaskReview -----------------------------
(***************************************************************************)
(* The periodic review of active tasks (handlers/task_review.py) and the   *)
(* agent's tool that records its result (agent/tools/task_review.py).  A   *)
(* sweep selects the tasks that are due and reviews them one after the     *)
(* other; managers start reviews of their own meanwhile.                   *)
(*                                                                         *)
(* A point in time is abstracted to what the due query compares it with:   *)
(* the messages that came before it, and whether the cooldown has passed.  *)
(* The sweep runs on the instance that holds its lease, a manager's review *)
(* on the instance that serves the request.                                *)
(***************************************************************************)
EXTENDS Naturals, FiniteSets, Sequences, FiniteSetsExt

CONSTANTS TaskIds,      \* naturals: tasks are ordered by their ids
          Closable,     \* bound: the tasks that are closed and taken up again
          Manual,       \* bound: managers' reviews under way at a time
          Decisions,    \* what the agent may record
          MaxMsgs,      \* bound: messages of outsiders per task
          MaxFailures   \* bound: errors, failed writes, restarts, and records
                        \* that no review of the task makes

ASSUME ReviewAssumption ==
    /\ TaskIds \subseteq Nat /\ IsFiniteSet(TaskIds)
    /\ Closable \subseteq TaskIds
    /\ "sweep" \notin Manual
    /\ "none" \notin Decisions
    /\ {MaxMsgs, MaxFailures} \subseteq Nat

VARIABLES
    active,   \* active[t]: the task's status is ACTIVE
    msgs,     \* msgs[t]: messages of outsiders on its conversations
    order,    \* the pairs of reviewed tasks, earlier and later last_reviewed_at
    mark,     \* mark[t]: messages up to last_reviewed_at
    cool,     \* cool[t]: the last review is within the cooldown
    status,   \* status[t]: last_review_status
    card,     \* card[t]: status shown by the last card of its AI conversation
    todo,     \* tasks the sweep under way has still to review
    review,   \* review[j]: the review the sweep, or a manager, has under way
    failures, \* of these so far
    read,     \* history: messages that a review which recorded had read
    passed,   \* history: messages there when a review recorded that began before
    astray,   \* history: messages there when another turn than a review of the
              \* task recorded
    quiet,    \* history: number of the last message that met no review
    spoiled   \* history: tasks whose last record came with no card

reviewVars == <<active, msgs, order, mark, cool, status, card, todo, review,
                failures, read, passed, astray, quiet, spoiled>>
columns == <<order, mark, cool, status>>
reviewHistory == <<failures, read, passed, astray, quiet, spoiled>>

Jobs == Manual \cup {"sweep"}
NoReview == [phase |-> "none"]
Statuses == Decisions \cup {"blocked"}

ReviewInit ==
    /\ active \in [TaskIds -> BOOLEAN]
    /\ \A t \in TaskIds \ Closable : active[t]
    /\ msgs = [t \in TaskIds |-> 0]
    /\ order = {}
    /\ mark = [t \in TaskIds |-> 0]
    /\ cool = [t \in TaskIds |-> FALSE]
    /\ status = [t \in TaskIds |-> "none"]
    /\ card = [t \in TaskIds |-> "none"]
    /\ todo = <<>>
    /\ review = [j \in Jobs |-> NoReview]
    /\ failures = 0
    /\ read = [t \in TaskIds |-> 0]
    /\ passed = [t \in TaskIds |-> 0]
    /\ astray = [t \in TaskIds |-> 0]
    /\ quiet = [t \in TaskIds |-> 0]
    /\ spoiled = {}

-----------------------------------------------------------------------------
Reviewed(t) == status[t] # "none"

\* Mutant of IsDue: the cooldown holds back tasks with new messages, too.
IsDue_Cooldown(t) == active[t] /\ ~cool[t]

\* The where clause of _select_due_tasks.
IsDue(t) == active[t] /\ (~Reviewed(t) \/ ~cool[t] \/ msgs[t] > mark[t])

\* Its order: never reviewed first, by their ids, then by last_reviewed_at.
Before(t, u) ==
    \/ ~Reviewed(t) /\ (Reviewed(u) \/ t < u)
    \/ <<t, u>> \in order

\* Its result, the only member of the set.
DueTasks ==
    LET due == {t \in TaskIds : IsDue(t)} IN
    {s \in [1..Cardinality(due) -> due] :
        \A m, n \in DOMAIN s : m < n => Before(s[m], s[n])}

UnderReview(t) == \E j \in Jobs : review[j].phase # "none" /\ review[j].task = t

\* Mutant of Recorded: a second review leaves its task where it was, as well.
Recorded_Twice(t, s) ==
    /\ order' = order \cup ({u \in TaskIds \ {t} : Reviewed(u)} \X {t})
    /\ mark' = [mark EXCEPT ![t] = msgs[t]]
    /\ cool' = [cool EXCEPT ![t] = TRUE]
    /\ status' = [status EXCEPT ![t] = s]

\* record_task_review_result: the columns of t, at once.
Recorded(t, s) ==
    /\ order' = {p \in order : t \notin {p[1], p[2]}}
                    \cup ({u \in TaskIds \ {t} : Reviewed(u)} \X {t})
    /\ mark' = [mark EXCEPT ![t] = msgs[t]]
    /\ cool' = [cool EXCEPT ![t] = TRUE]
    /\ status' = [status EXCEPT ![t] = s]

\* Reviews of t that were under way find a record made since they began.
Freshened(rs, t) ==
    [j \in Jobs |-> IF rs[j].phase # "none" /\ rs[j].task = t
                    THEN [rs[j] EXCEPT !.fresh = TRUE] ELSE rs[j]]

-----------------------------------------------------------------------------
(* What others do.                                                         *)

MessageArrives(t) ==
    /\ msgs[t] < MaxMsgs
    /\ msgs' = [msgs EXCEPT ![t] = @ + 1]
    /\ quiet' = IF UnderReview(t) THEN quiet
                ELSE [quiet EXCEPT ![t] = msgs[t] + 1]
    /\ UNCHANGED <<active, columns, card, todo, review, failures, read,
                   passed, astray, spoiled>>

\* A task is closed, paused or taken up again.
Toggle(t) ==
    /\ t \in Closable
    /\ active' = [active EXCEPT ![t] = ~@]
    /\ UNCHANGED <<msgs, columns, card, todo, review, reviewHistory>>

CooldownEnds(t) ==
    /\ cool[t]
    /\ cool' = [cool EXCEPT ![t] = FALSE]
    /\ UNCHANGED <<active, msgs, order, mark, status, card, todo, review,
                   reviewHistory>>

-----------------------------------------------------------------------------
(* _review_one_task.                                                       *)

\* Mutant of Began: any earlier record will do.
Began_AnyRecord(t) ==
    [phase |-> "running", task |-> t, seen |-> msgs[t], fresh |-> Reviewed(t)]

\* The prompt and the context are built, the only way for the agent to see the
\* messages; review_started_at is taken.
Began(t) == [phase |-> "running", task |-> t, seen |-> msgs[t], fresh |-> FALSE]

\* The review j of t has its result recorded, with what j has read.
Settled(j, t) ==
    /\ read' = [read EXCEPT ![t] = Max({@, review[j].seen})]
    /\ passed' = IF review[j].seen < msgs[t] THEN [passed EXCEPT ![t] = msgs[t]]
                 ELSE passed

\* The agent calls record_task_review for the task it reviews.
Record(j, s) ==
    /\ review[j].phase = "running"
    /\ LET t == review[j].task IN
       /\ Recorded(t, s)
       /\ review' = Freshened(review, t)
       /\ Settled(j, t)
    /\ UNCHANGED <<active, msgs, card, todo, failures, astray, quiet, spoiled>>

\* Every turn of the agent has the tool.  In a task's conversation it records for
\* that task; in any other turn, a review among them, for the id it is given.
RecordElsewhere(t, s) ==
    /\ failures < MaxFailures
    /\ failures' = failures + 1
    /\ Recorded(t, s)
    /\ review' = Freshened(review, t)
    /\ astray' = [astray EXCEPT ![t] = msgs[t]]
    /\ spoiled' = spoiled \cup {t}
    /\ UNCHANGED <<active, msgs, card, todo, read, passed, quiet>>

\* _ensure_review_recorded, after the agent's reply.
Ensure(j) ==
    /\ review[j].phase = "running"
    /\ LET t == review[j].task IN
       IF review[j].fresh
       THEN /\ review' = [review EXCEPT ![j].phase = "recorded"]
            /\ UNCHANGED <<columns, read, passed>>
       ELSE /\ Recorded(t, "blocked")
            /\ review' = [Freshened(review, t) EXCEPT ![j].phase = "recorded"]
            /\ Settled(j, t)
    /\ UNCHANGED <<active, msgs, card, todo, failures, astray, quiet, spoiled>>

ReviewEnds(j) ==
    /\ review' = [review EXCEPT ![j] = NoReview]
    /\ UNCHANGED <<active, msgs, columns, read, passed, astray, quiet>>

\* Mutant of Post: no card where the task already has one.
Post_Once(j) ==
    /\ review[j].phase = "recorded"
    /\ LET t == review[j].task IN
       /\ card' = [card EXCEPT ![t] = IF @ = "none" THEN status[t] ELSE @]
       /\ spoiled' = spoiled \ {t}
    /\ ReviewEnds(j)
    /\ UNCHANGED <<todo, failures>>

\* The card shows the columns as they are now, whoever wrote them.
Post(j) ==
    /\ review[j].phase = "recorded"
    /\ card' = [card EXCEPT ![review[j].task] = status[review[j].task]]
    /\ spoiled' = spoiled \ {review[j].task}
    /\ ReviewEnds(j)
    /\ UNCHANGED <<todo, failures>>

\* A review ends without its card.
Abandons(j) ==
    /\ spoiled' = IF review[j].fresh THEN spoiled \cup {review[j].task} ELSE spoiled
    /\ ReviewEnds(j)

\* The agent or a write fails: what was recorded stays.  The sweep goes on.
ReviewFails(j) ==
    /\ review[j] # NoReview
    /\ failures < MaxFailures
    /\ failures' = failures + 1
    /\ Abandons(j)
    /\ UNCHANGED <<card, todo>>

-----------------------------------------------------------------------------
(* The callers.                                                            *)

\* trigger_task_review: any task, due or not, of any status.
Trigger(j, t) ==
    /\ j \in Manual /\ review[j] = NoReview
    /\ review' = [review EXCEPT ![j] = Began(t)]
    /\ UNCHANGED <<active, msgs, columns, card, todo, reviewHistory>>

\* _task_review_tick selects the due tasks once.
Sweep ==
    /\ todo = <<>> /\ review["sweep"] = NoReview
    /\ todo' \in DueTasks /\ todo' # <<>>
    /\ UNCHANGED <<active, msgs, columns, card, review, reviewHistory>>

\* Mutant of SweepNext: the sweep takes the last of them.
SweepNext_Last ==
    /\ todo # <<>> /\ review["sweep"] = NoReview
    /\ todo' = <<>>
    /\ review' = [review EXCEPT !["sweep"] = Began(todo[Len(todo)])]
    /\ UNCHANGED <<active, msgs, columns, card, reviewHistory>>

\* The next of them, whether it is still due or not.
SweepNext ==
    /\ todo # <<>> /\ review["sweep"] = NoReview
    /\ todo' = Tail(todo)
    /\ review' = [review EXCEPT !["sweep"] = Began(Head(todo))]
    /\ UNCHANGED <<active, msgs, columns, card, reviewHistory>>

\* The instance that runs the sweep restarts.
Restart ==
    /\ todo # <<>> \/ review["sweep"] # NoReview
    /\ failures < MaxFailures
    /\ failures' = failures + 1
    /\ todo' = <<>>
    /\ IF review["sweep"] = NoReview THEN ReviewEnds("sweep") /\ UNCHANGED spoiled
       ELSE Abandons("sweep")
    /\ UNCHANGED card

SweepStep == Sweep \/ SweepNext
Concludes(j) == Ensure(j) \/ Post(j)

ReviewNext ==
    \/ \E t \in TaskIds : MessageArrives(t) \/ Toggle(t) \/ CooldownEnds(t)
    \/ \E j \in Jobs : Concludes(j) \/ ReviewFails(j)
    \/ \E j \in Jobs, s \in Decisions : Record(j, s)
    \/ \E t \in TaskIds, s \in Decisions : RecordElsewhere(t, s)
    \/ \E j \in Jobs, t \in TaskIds : Trigger(j, t)
    \/ SweepStep \/ Restart

ReviewSpec == ReviewInit /\ [][ReviewNext]_reviewVars

\* The loop sweeps for ever, and the agent's turns are bounded, so it replies.
FairReviewSpec ==
    /\ ReviewSpec
    /\ WF_reviewVars(SweepStep) /\ WF_reviewVars(Concludes("sweep"))
-----------------------------------------------------------------------------
ReviewType == [phase : {"running", "recorded"}, task : TaskIds, seen : 0..MaxMsgs,
               fresh : BOOLEAN]

ReviewTypeOK ==
    /\ active \in [TaskIds -> BOOLEAN] /\ cool \in [TaskIds -> BOOLEAN]
    /\ msgs \in [TaskIds -> 0..MaxMsgs]
    /\ \A t \in TaskIds : {mark[t], read[t], passed[t], astray[t]} \subseteq 0..msgs[t]
    /\ status \in [TaskIds -> Statuses \cup {"none"}]
    /\ card \in [TaskIds -> Statuses \cup {"none"}]
    /\ LET done == {t \in TaskIds : Reviewed(t)} IN
       /\ order \subseteq done \X done
       /\ \A t \in done : <<t, t>> \notin order
       /\ \A t, u \in done :
             t # u => (<<t, u>> \in order <=> <<u, t>> \notin order)
       /\ \A t, u, v \in done :
             <<t, u>> \in order /\ <<u, v>> \in order => <<t, v>> \in order
    /\ todo \in Seq(TaskIds)
    /\ \A m, n \in DOMAIN todo : todo[m] = todo[n] => m = n
    /\ review \in [Jobs -> ReviewType \cup {NoReview}]
    /\ failures \in 0..MaxFailures
    /\ quiet \in [TaskIds -> 0..MaxMsgs]
    /\ spoiled \subseteq TaskIds

\* A message keeps its task due until a review that has read it is recorded,
\* however reviews of managers and the sweep overlap, fail or record twice.  A
\* record by a turn that is no review of the task passes over what was there, and
\* one by a review what came since it began; never a message that met no review.
MessageKeepsDue ==
    \A t \in TaskIds : (active[t] /\ ~IsDue(t)) =>
        /\ msgs[t] <= Max({read[t], passed[t], astray[t]})
        /\ quiet[t] <= Max({read[t], astray[t]})

\* A review that ends well settles what it has read, even if the agent did not
\* record a result: those messages, at least, no longer make the task due.
ReviewSettles ==
    [][\A j \in Jobs : (review[j].phase = "recorded" /\ Post(j)) =>
          /\ Reviewed(review[j].task)
          /\ mark[review[j].task] >= review[j].seen]_reviewVars

\* When no review of a task is under way its last card shows the result its row
\* has, though reviews that overlap record and post in any order; unless the last
\* record came from a turn that is no review of the task, or from a review that
\* failed before its card.
CardShowsResult ==
    \A t \in TaskIds :
        (~UnderReview(t) /\ t \notin spoiled) => card[t] = status[t]

\* No task is starved: one that is due is reviewed or ceases to be due, whatever
\* becomes of the reviews of the tasks before it.
DueIsReviewed == \A t \in TaskIds : IsDue(t) ~> (UnderReview(t) \/ ~IsDue(t))
=============================================================================

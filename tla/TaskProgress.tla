---------------------------- MODULE TaskProgress ----------------------------
(***************************************************************************)
(* The progress steps of one task: the update_task_progress, close_task    *)
(* and create_suggestion tools (agent/tools/tasks.py), the task mutations  *)
(* of gql/schema.py with services/task_service.py, and the acceptance of a *)
(* proposal, which gives the task its plan.                                *)
(*                                                                         *)
(* The steps are one JSON column.  A tool call loads the row in a session  *)
(* of its own, works on a copy of the whole list and writes all of it when *)
(* its session ends; a client of updateTaskSteps sends back the whole list *)
(* it was shown.  Calls of several conversations, reviews and instances    *)
(* overlap, so a list may be written over one that its writer never saw.   *)
(*                                                                         *)
(* A key stands for the key and the label of a step, which stay together   *)
(* in every list.  A request of a file names it by a label the agent       *)
(* writes, and sets back the first step whose label contains that text:    *)
(* here, whose key is one of the request's matches.                        *)
(*                                                                         *)
(* resolved_at, the notes of the steps and the task's context are left     *)
(* out.  A note may hold the wording of a confirmation, too; it makes the  *)
(* gate refuse more, never less, for a step whose key or label has it.     *)
(***************************************************************************)
EXTENDS Naturals, Sequences

CONSTANTS Keys,      \* keys of steps
          Upload,    \* the step that waits for a file
          Worded,    \* keys of steps that confirm an outcome by their wording
          Labels,    \* sets of keys that the label of a requested file matches
          Plans,     \* what the agent proposes: the keys of steps, in order
          Requests,  \* tool calls and pages that can be open at one time
          MaxCalls,  \* bound: calls and pages opened
          MaxMsgs,   \* bound: inbound messages
          MaxFaults  \* bound: calls that die

ASSUME ProgressAssumption ==
    /\ Upload \in Keys
    /\ Worded \subseteq Keys
    /\ Labels \subseteq SUBSET Keys
    /\ Plans \subseteq Seq(Keys)
    /\ MaxCalls \in Nat /\ MaxMsgs \in Nat /\ MaxFaults \in Nat

VARIABLES
    status,    \* of the task: "none" before it exists, "gone" after deletion
    waiting,   \* its mode is waiting_approval, and not another
    steps,     \* the steps in order; <<>> stands for NULL, too
    request,   \* the suggestion that asks for a file
    word,      \* what the latest inbound message says of the outcome
    job,       \* job[r]: the call or page r has open
    calls, msgs, faults,  \* counters of the bounds
    confirmed, \* history: the latest message has been affirmative
    given,     \* history: keys that a manager or a plan wrote as done
    loose      \* history: a manager or a plan wrote two active steps

taskVars == <<status, waiting, steps, request>>
counters == <<calls, msgs, faults>>
history == <<confirmed, given, loose>>
vars == <<taskVars, word, job, counters, history>>

Statuses == {"pending", "active", "done"}
Step == [key : Keys, status : Statuses]
Words == {"none", "yes", "no", "other"}

Idle == [op |-> "idle"]
Exists == status \in {"active", "resolved"}
DoneKeys(ss) == {ss[i].key : i \in {j \in DOMAIN ss : ss[j].status = "done"}}
AllDone(ss) == \A i \in DOMAIN ss : ss[i].status = "done"
OneActive(ss) == \A i, j \in DOMAIN ss :
    ss[i].status = "active" /\ ss[j].status = "active" => i = j

Init ==
    /\ status = "none" /\ waiting = FALSE /\ steps = <<>>
    /\ request = "none"
    /\ word = "none"
    /\ job = [r \in Requests |-> Idle]
    /\ calls = 0 /\ msgs = 0 /\ faults = 0
    /\ confirmed = FALSE /\ given = {} /\ loose = FALSE

-----------------------------------------------------------------------------
(* What a call does to the list it has loaded.                             *)

Marked(ss, i, to) == [ss EXCEPT ![i].status = to]

\* Mutant of Demoted: the other steps are reset, done ones too.
Demoted_Reset(ss, i) ==
    [j \in DOMAIN ss |->
        IF j # i THEN [ss[j] EXCEPT !.status = "pending"] ELSE ss[j]]

Demoted(ss, i) ==
    [j \in DOMAIN ss |->
        IF j # i /\ ss[j].status = "active"
        THEN [ss[j] EXCEPT !.status = "pending"] ELSE ss[j]]

IsFirstPending(ss, j) ==
    /\ ss[j].status = "pending"
    /\ \A k \in DOMAIN ss : ss[k].status = "pending" => j <= k

\* Mutant of Promoted: every pending step starts.
Promoted_Every(ss) ==
    [j \in DOMAIN ss |->
        IF ss[j].status = "pending"
        THEN [ss[j] EXCEPT !.status = "active"] ELSE ss[j]]

Promoted(ss) ==
    [j \in DOMAIN ss |->
        IF IsFirstPending(ss, j)
        THEN [ss[j] EXCEPT !.status = "active"] ELSE ss[j]]

\* An active step is the only one; after a step is done the next one starts.
Advanced(ss, i, to) ==
    CASE to = "pending" -> Marked(ss, i, to)
      [] to = "active" -> Demoted(Marked(ss, i, to), i)
      [] to = "done" -> Promoted(Demoted(Marked(ss, i, to), i))

\* The first step that waits for the file or whose label contains the file's.
Awaits(key, hits) == key = Upload \/ key \in hits

IsAwaiting(ss, j, hits) ==
    /\ Awaits(ss[j].key, hits)
    /\ \A k \in DOMAIN ss : Awaits(ss[k].key, hits) => j <= k

\* It is pending, whatever it was; without one a step is added.
Blocked(ss, hits) ==
    IF \E i \in DOMAIN ss : Awaits(ss[i].key, hits)
    THEN [j \in DOMAIN ss |->
            IF IsAwaiting(ss, j, hits)
            THEN [ss[j] EXCEPT !.status = "pending"] ELSE ss[j]]
    ELSE Append(ss, [key |-> Upload, status |-> "pending"])

\* Mutant of Confirmed: any answer that is not negative will do.
Confirmed_NotNegative == word \in {"yes", "other"}

\* The latest message of a tenant or vendor affirms and does not deny.
Confirmed == word = "yes"

-----------------------------------------------------------------------------
(* Sessions.                                                               *)

Open(r, j) ==
    /\ job[r] = Idle
    /\ calls < MaxCalls
    /\ job' = [job EXCEPT ![r] = j]
    /\ calls' = calls + 1

Close(r) == job' = [job EXCEPT ![r] = Idle]

\* r writes the list; every other list in hand is then of an older state.
Outdated(j) ==
    IF j.op \in {"update", "close", "mark"}
    THEN [j EXCEPT !.stale = TRUE] ELSE j
Save(r, ss) ==
    /\ steps' = ss
    /\ job' = [q \in Requests |-> IF q = r THEN Idle ELSE Outdated(job[q])]

\* The UPDATE of a deleted row matches nothing, and the call fails.
Gone(r) == ~Exists /\ Close(r) /\ UNCHANGED taskVars

-----------------------------------------------------------------------------
(* Creation: an accepted proposal's plan, or a manager's task with none.   *)

\* propose_task refuses a plan whose last step does not confirm an outcome.
Proposable(plan) == plan # <<>> /\ plan[Len(plan)] \in Worded

\* The statuses are the agent's; nothing asks that they make sense.
Planned(plan, f) ==
    [i \in DOMAIN plan |-> [key |-> plan[i], status |-> f[i]]]

CreateFromProposal ==
    /\ status = "none"
    /\ \E plan \in Plans : \E f \in [DOMAIN plan -> Statuses] :
         /\ Proposable(plan)
         /\ steps' = Planned(plan, f)
         /\ given' = DoneKeys(Planned(plan, f))
         /\ loose' = ~OneActive(Planned(plan, f))
    /\ status' = "active"
    /\ UNCHANGED <<waiting, request, word, job, counters, confirmed>>

CreateTask ==
    /\ status = "none"
    /\ status' = "active"
    /\ waiting' \in BOOLEAN
    /\ UNCHANGED <<steps, request, word, job, counters, history>>

-----------------------------------------------------------------------------
(* update_task_progress                                                    *)

\* An unknown step, no steps at all, or an outcome nobody confirmed is
\* answered with an error and writes nothing.
BeginUpdate(r, key, to) ==
    /\ Exists
    /\ \E i \in DOMAIN steps : steps[i].key = key
    /\ to = "done" /\ key \in Worded => Confirmed
    /\ Open(r, [op |-> "update", ss |-> steps, key |-> key, to |-> to,
                stale |-> FALSE])
    /\ UNCHANGED <<taskVars, word, msgs, faults, history>>

\* The first step with the key.
IsNamed(ss, i, key) ==
    /\ ss[i].key = key
    /\ \A k \in DOMAIN ss : ss[k].key = key => i <= k

EndUpdate(r) ==
    /\ job[r].op = "update"
    /\ \/ /\ Exists
          /\ \E i \in DOMAIN job[r].ss :
               /\ IsNamed(job[r].ss, i, job[r].key)
               /\ Save(r, Advanced(job[r].ss, i, job[r].to))
          /\ UNCHANGED <<status, waiting, request>>
       \/ Gone(r)
    /\ UNCHANGED <<word, counters, history>>

-----------------------------------------------------------------------------
(* close_task                                                              *)

Closable == AllDone(steps)

BeginClose(r) ==
    /\ Exists
    /\ Closable
    /\ Open(r, [op |-> "close", was |-> status, stale |-> FALSE])
    /\ UNCHANGED <<taskVars, word, msgs, faults, history>>

\* Only a column that differs from what was loaded is written.
EndClose(r) ==
    /\ job[r].op = "close"
    /\ \/ /\ Exists
          /\ status' = IF job[r].was = "resolved" THEN status ELSE "resolved"
          /\ Close(r)
          /\ UNCHANGED <<waiting, steps, request>>
       \/ Gone(r)
    /\ UNCHANGED <<word, counters, history>>

-----------------------------------------------------------------------------
(* create_suggestion of a file, and what becomes of it.                    *)

\* The first transaction; a pending request of the task stands for the new
\* one, and the task is marked again, with the label of the new one.
AskForFile(r, hits) ==
    /\ Exists
    /\ request' = "pending"
    /\ Open(r, [op |-> "asked", hits |-> hits])
    /\ UNCHANGED <<status, waiting, steps, word, msgs, faults, history>>

\* The second one, in a session of its own; without a task it does nothing.
BeginMark(r) ==
    /\ job[r].op = "asked"
    /\ job' = [job EXCEPT ![r] =
                 IF Exists THEN [op |-> "mark", hits |-> job[r].hits,
                                 ss |-> steps, was |-> waiting,
                                 stale |-> FALSE]
                 ELSE Idle]
    /\ UNCHANGED <<taskVars, word, counters, history>>

EndMark(r) ==
    /\ job[r].op = "mark"
    /\ \/ /\ Exists
          /\ Save(r, Blocked(job[r].ss, job[r].hits))
          /\ waiting' = (waiting \/ ~job[r].was)
          /\ UNCHANGED <<status, request>>
       \/ Gone(r)
    /\ UNCHANGED <<word, counters, history>>

\* act_on_suggestion knows no action that accepts the request.
Dismiss ==
    /\ request = "pending"
    /\ request' = "dismissed"
    /\ UNCHANGED <<status, waiting, steps, word, job, counters, history>>

-----------------------------------------------------------------------------
(* The manager: updateTaskSteps, updateTaskStatus, updateTask, deleteTask. *)

LoadPage(r) ==
    /\ Exists
    /\ Open(r, [op |-> "page", ss |-> steps])
    /\ UNCHANGED <<taskVars, word, msgs, faults, history>>

Without(ss, i) == SubSeq(ss, 1, i - 1) \o SubSeq(ss, i + 1, Len(ss))

\* The whole list is replaced by what the client sends.
Replace(r, ss) ==
    /\ Save(r, ss)
    /\ given' = given \cup DoneKeys(ss)
    /\ loose' = (loose \/ ~OneActive(ss))

\* A page sends the list it was shown with one step changed or left out.
UpdateTaskSteps(r) ==
    /\ job[r].op = "page"
    /\ \/ /\ Exists
          /\ \E i \in DOMAIN job[r].ss :
               \/ \E to \in Statuses : Replace(r, Marked(job[r].ss, i, to))
               \/ Replace(r, Without(job[r].ss, i))
          /\ UNCHANGED <<status, waiting, request, confirmed>>
       \/ Gone(r) /\ UNCHANGED history
    /\ UNCHANGED <<word, counters>>

UpdateTask ==
    /\ Exists
    /\ status' \in {"active", "resolved"}
    /\ waiting' \in BOOLEAN
    /\ UNCHANGED <<steps, request, word, job, counters, history>>

\* The suggestions of the task go with it.
DeleteTask ==
    /\ Exists
    /\ status' = "gone"
    /\ steps' = <<>>
    /\ request' = "none"
    /\ UNCHANGED <<waiting, word, job, counters, history>>

-----------------------------------------------------------------------------

Receive(w) ==
    /\ Exists
    /\ msgs < MaxMsgs
    /\ msgs' = msgs + 1
    /\ word' = w
    /\ confirmed' = (confirmed \/ w = "yes")
    /\ UNCHANGED <<taskVars, job, calls, faults, given, loose>>

\* The process dies, the turn is cancelled or the commit fails.
Die(r) ==
    /\ job[r] # Idle
    /\ faults < MaxFaults
    /\ faults' = faults + 1
    /\ Close(r)
    /\ UNCHANGED <<taskVars, word, calls, msgs, history>>

Next ==
    \/ CreateFromProposal \/ CreateTask
    \/ Dismiss \/ UpdateTask \/ DeleteTask
    \/ \E w \in Words \ {"none"} : Receive(w)
    \/ \E r \in Requests :
         \/ \E key \in Keys, to \in Statuses : BeginUpdate(r, key, to)
         \/ EndUpdate(r)
         \/ BeginClose(r) \/ EndClose(r)
         \/ \E hits \in Labels : AskForFile(r, hits)
         \/ BeginMark(r) \/ EndMark(r)
         \/ LoadPage(r) \/ UpdateTaskSteps(r)
         \/ Die(r)

Spec == Init /\ [][Next]_vars

-----------------------------------------------------------------------------
(* Properties.                                                             *)

Jobs ==
    [op : {"update"}, ss : Seq(Step), key : Keys, to : Statuses,
     stale : BOOLEAN]
      \cup [op : {"close"}, was : {"active", "resolved"}, stale : BOOLEAN]
      \cup [op : {"asked"}, hits : Labels]
      \cup [op : {"mark"}, hits : Labels, ss : Seq(Step), was : BOOLEAN,
            stale : BOOLEAN]
      \cup [op : {"page"}, ss : Seq(Step)]
      \cup {Idle}

\* Every variable has a value of its kind.
TypeOK ==
    /\ status \in {"none", "active", "resolved", "gone"}
    /\ waiting \in BOOLEAN
    /\ steps \in Seq(Step)
    /\ request \in {"none", "pending", "dismissed"}
    /\ word \in Words
    /\ job \in [Requests -> Jobs]
    /\ calls \in Nat /\ msgs \in Nat /\ faults \in Nat
    /\ confirmed \in BOOLEAN /\ loose \in BOOLEAN
    /\ given \subseteq Keys

\* A step that confirms an outcome is done only if a tenant or a vendor had
\* affirmed something, or a manager or the plan itself had it done; neither
\* a list written from an old copy nor the promotion of steps gets round the
\* gate (tasks.py, 1161-1169).
VerifiedHasWord ==
    \A key \in DoneKeys(steps) \cap Worded : confirmed \/ key \in given

\* What was done stays done: a step that is done is set back, or dropped,
\* only by a call that names it, by a manager, by the task's deletion, by the
\* request of a file for which it is the first step of the list to match, or
\* by a call that had loaded the list before another one wrote it.
ProgressIsKept ==
    [][\A key \in DoneKeys(steps) \ DoneKeys(steps') :
         \/ status' = "gone"
         \/ \E r \in Requests :
              /\ job'[r] = Idle
              /\ \/ job[r].op = "page"
                 \/ job[r].op = "update" /\ (job[r].key = key \/ job[r].stale)
                 \/ /\ job[r].op = "mark"
                    /\ \/ job[r].stale
                       \/ \E i \in DOMAIN steps :
                            /\ steps[i].key = key
                            /\ IsAwaiting(steps, i, job[r].hits)]_vars

\* close_task resolves a task with every step done, unless the steps were
\* written after it had looked (tasks.py, 989-1005).
ClosedWasComplete ==
    [][\A r \in Requests :
         /\ job[r].op = "close" /\ job'[r] = Idle
         /\ status # "resolved" /\ status' = "resolved"
         => AllDone(steps) \/ job[r].stale]_vars

\* The agent's calls keep one step active at most, whatever copies they
\* start from (the comment at tasks.py, 1171), unless a manager or a plan
\* began with more.
AtMostOneActive == loose \/ OneActive(steps)
=============================================================================

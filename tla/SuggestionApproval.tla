------------------------- MODULE SuggestionApproval -------------------------
(***************************************************************************)
(* Drafts the agent wants sent, and the suggestions a manager accepts or   *)
(* dismisses: the message_person and propose_task tools (agent/tools/),    *)
(* services/task_suggestions.py, services/suggestion_service.py, the       *)
(* act_on_suggestion mutation, and the SMS that announces a message.       *)
(*                                                                         *)
(* An execution is synchronous, so two of them overlap only on two         *)
(* instances of the server; a request may reach an instance whatever the   *)
(* page it came from still shows.  send_autonomous_message commits in the  *)
(* middle of an execution: what follows it may fail, what it wrote stays,  *)
(* and the session's rows are read afresh.  Without that commit the        *)
(* session answers the second read of a suggestion from what it has seen,  *)
(* and the conversations of a task that it has just created from the empty *)
(* list it loaded before there was one.                                    *)
(***************************************************************************)
EXTENDS Naturals

CONSTANTS Drafts,        \* the tool calls of the agent, one draft each; a
                         \* suggestion goes by the draft it was created for
          Kind,          \* Kind[d]: what the tool call proposes
          Risky,         \* drafts the policy leaves to a manager
          Requests,      \* executions that can be under way at one time
          MaxActs        \* bound: manager's requests

Kinds == {"message",     \* message_person about the one task of the model
          "standalone",  \* message_person without a task
          "create",      \* propose_task with a draft for a vendor
          "assign",      \* propose_task without a draft
          "reply"}       \* propose_task naming the task, with a draft

ASSUME ApprovalAssumption ==
    /\ Kind \in [Drafts -> Kinds]
    /\ Risky \subseteq Drafts
    /\ MaxActs \in Nat

VARIABLES
    sug,      \* sug[d]: the row of the suggestion created for draft d
    called,   \* drafts whose tool call was made
    asked,    \* suggestions that a manager asked to send
    acts,     \* number of manager's requests
    job,      \* job[q]: the execution under way
    sent,     \* sent[d]: stored messages with d's text
    tasks,    \* tasks[d]: tasks created from d's suggestion
    notes,    \* notes[d]: stored notifications not yet delivered
    texts,    \* texts[d]: SMS sent about d
    raced     \* history: suggestions that two executions had in hand at once

vars == <<sug, called, asked, acts, job, sent, tasks, notes, texts,
          raced>>

\* What a manager can ask for: what the suggestion offers, its dismissal, or
\* an action that belongs to a suggestion of another kind.
Actions == {"send", "dismiss", "other"}

NoRow == [status |-> "none"]
NoJob == [phase |-> "idle"]
Existing == {i \in Drafts : sug[i] # NoRow}
PendingRow(d) == [status |-> "pending", taken |-> "none",
                  linked |-> Kind[d] \in {"message", "reply"}]
Start(i, action) == [phase |-> "start", sid |-> i, action |-> action]
InHand(i) == {q \in Requests : job[q] # NoJob /\ job[q].sid = i}

\* Another execution of i is under way where one of them starts.
Races(i) == raced' = IF InHand(i) = {} THEN raced ELSE raced \cup {i}
Plus(f, d) == [f EXCEPT ![d] = @ + 1]

Init ==
    /\ sug = [d \in Drafts |-> NoRow]
    /\ called = {} /\ asked = {}
    /\ acts = 0
    /\ job = [q \in Requests |-> NoJob]
    /\ sent = [d \in Drafts |-> 0]
    /\ tasks = [d \in Drafts |-> 0]
    /\ notes = [d \in Drafts |-> 0]
    /\ texts = [d \in Drafts |-> 0]
    /\ raced = {}

-----------------------------------------------------------------------------
(* The agent's tools.                                                      *)

\* A pending suggestion of the task with the same action stands for the new
\* one, whatever its draft and its recipient are.
Equivalent(d) == {i \in Existing : /\ Kind[d] \in {"message", "reply"}
                                   /\ Kind[i] = Kind[d]
                                   /\ sug[i].status = "pending"}

\* _create_suggestion returns one of these rows.
StandsFor(d) == IF Equivalent(d) = {} THEN {d} ELSE Equivalent(d)
Created(i) == sug' = [sug EXCEPT ![i] = IF @ = NoRow THEN PendingRow(i) ELSE @]

\* Mutant of NeedsReview: the risk counts only without a task.
NeedsReview_Standalone(d) == d \in Risky /\ Kind[d] = "standalone"
\* _needs_manager_review
NeedsReview(d) == d \in Risky

\* message_person with a task: create or reuse a suggestion; a draft that needs
\* no review goes on to execute it.
StageMessage(q, d) ==
    /\ d \notin called /\ Kind[d] = "message"
    /\ job[q] = NoJob
    /\ called' = called \cup {d}
    /\ \E i \in StandsFor(d) :
          /\ Created(i)
          /\ IF NeedsReview(d)
             THEN UNCHANGED <<job, raced>>      \* "staged for manager review"
             ELSE job' = [job EXCEPT ![q] = Start(i, "send")] /\ Races(i)
    /\ UNCHANGED <<asked, acts, sent, tasks, notes, texts>>

\* Without a task a safe draft is sent at once and leaves no suggestion; all
\* other proposals wait for a manager.
StageOther(d) ==
    /\ d \notin called /\ Kind[d] # "message"
    /\ called' = called \cup {d}
    /\ IF Kind[d] = "standalone" /\ ~NeedsReview(d)
       THEN sent' = Plus(sent, d) /\ UNCHANGED sug
       ELSE (\E i \in StandsFor(d) : Created(i)) /\ UNCHANGED sent
    /\ UNCHANGED <<asked, acts, job, tasks, notes, texts, raced>>

-----------------------------------------------------------------------------
(* Executing a suggestion.                                                 *)

\* The act_on_suggestion mutation; the page may be out of date.
Act(q, i, action) ==
    /\ job[q] = NoJob
    /\ i \in Existing
    /\ acts < MaxActs
    /\ acts' = acts + 1
    /\ asked' = IF action = "send" THEN asked \cup {i} ELSE asked
    /\ job' = [job EXCEPT ![q] = Start(i, action)] /\ Races(i)
    /\ UNCHANGED <<sug, called, sent, tasks, notes, texts>>

\* for_suggestion: a proposal that has a task is a reply in that task.
Creates(i) == Kind[i] \in {"create", "assign", "reply"} /\ ~sug[i].linked

\* for_suggestion and the executor load the row; any status will do.
Read(q) ==
    /\ job[q].phase = "start"
    /\ job' = [job EXCEPT ![q] =
                  [phase |-> "effects", sid |-> @.sid, action |-> @.action,
                   seen |-> sug[@.sid].status, creates |-> Creates(@.sid)]]
    /\ UNCHANGED <<sug, called, asked, acts, sent, tasks, notes, texts, raced>>

\* The job once its effects are done: `fresh` after a commit, `task` and `note`
\* for the rows that still wait for one.
Done(j, fresh, task, note) ==
    [phase |-> "check", sid |-> j.sid, action |-> j.action, seen |-> j.seen,
     fresh |-> fresh, task |-> task, note |-> note]

\* Mutant of Notes: the recipient hears of dismissed drafts too.
Notes_Always(d, action) == Kind[d] = "message"

\* Only a message in a task's thread is announced by SMS.
Notes(d, action) == Kind[d] = "message" /\ action = "send"

\* Whether the executor stores the draft as a message.  The task that it has
\* just created shows no conversation to send to, although the vendor's is
\* there; that conversation is found when the approval is repeated.  A task that
\* the agent named may have none.  Finding none is no error.
Delivers(j) ==
    LET finds == j.action = "send" /\ Kind[j.sid] # "assign" /\ ~j.creates
    IN  {sends \in BOOLEAN : IF Kind[j.sid] = "reply" THEN sends => finds
                                                      ELSE sends <=> finds}

\* Mutant of Effects: a proposal's task and its link are committed before the
\* verdict.
Effects_Commits(q) ==
    /\ job[q].phase = "effects"
    /\ LET j == job[q]
           creates == j.action = "send" /\ j.creates
       IN  /\ tasks' = IF creates THEN Plus(tasks, j.sid) ELSE tasks
           /\ sug' = [sug EXCEPT ![j.sid].linked = @ \/ creates]
           /\ \E sends \in Delivers(j) :
                 /\ sent' = IF sends THEN Plus(sent, j.sid) ELSE sent
                 /\ job' = [job EXCEPT ![q] = Done(j, sends \/ creates, FALSE,
                                                   Notes(j.sid, j.action))]
    /\ UNCHANGED <<called, asked, acts, notes, texts, raced>>

\* What the executors do before the suggestion is resolved: a message is
\* committed at once; a new task with its link, and the notification, are not.
Effects(q) ==
    /\ job[q].phase = "effects"
    /\ LET j == job[q]
       IN  \E sends \in Delivers(j) :
             /\ sent' = IF sends THEN Plus(sent, j.sid) ELSE sent
             /\ job' = [job EXCEPT ![q] =
                          Done(j, sends, j.action = "send" /\ j.creates,
                               Notes(j.sid, j.action))]
    /\ UNCHANGED <<sug, called, asked, acts, tasks, notes, texts, raced>>

\* Mutant of Fails: an effect that raised is passed over.
Fails_Swallowed(q) ==
    /\ job[q].phase = "effects" /\ job[q].action = "send"
    /\ job' = [job EXCEPT ![q] = Done(@, FALSE, FALSE, FALSE)]
    /\ UNCHANGED <<sug, called, asked, acts, sent, tasks, notes, texts, raced>>

\* An effect raises before its commit (unknown recipient, placeholder text).
Fails(q) ==
    /\ job[q].phase = "effects" /\ job[q].action = "send"
    /\ job' = [job EXCEPT ![q] = NoJob]
    /\ UNCHANGED <<sug, called, asked, acts, sent, tasks, notes, texts, raced>>

\* Mutant of Accepts: a second verdict replaces the first.
Accepts_Any(j) == TRUE

\* act_on_suggestion reads the suggestion again.
Accepts(j) == (IF j.fresh THEN sug[j.sid].status ELSE j.seen) = "pending"

\* "is already accepted": the session is closed without a commit.
Check(q) ==
    /\ job[q].phase = "check"
    /\ job' = [job EXCEPT ![q] = IF Accepts(@) THEN [@ EXCEPT !.phase = "write"]
                                ELSE NoJob]
    /\ UNCHANGED <<sug, called, asked, acts, sent, tasks, notes, texts, raced>>

\* Flush and commit.  Every known action but the dismissal accepts, whether or
\* not it was one of this suggestion's.
Write(q) ==
    /\ job[q].phase = "write"
    /\ LET j == job[q]
           status == IF j.action = "dismiss" THEN "dismissed" ELSE "accepted"
       IN  /\ sug' = [sug EXCEPT ![j.sid] =
                        [status |-> status, taken |-> j.action,
                         linked |-> @.linked \/ j.task]]
           /\ tasks' = IF j.task THEN Plus(tasks, j.sid) ELSE tasks
           /\ notes' = IF j.note THEN Plus(notes, j.sid) ELSE notes
    /\ job' = [job EXCEPT ![q] = NoJob]
    /\ UNCHANGED <<called, asked, acts, sent, texts, raced>>

\* The instance dies, or raises after the message was committed.
Crash(q) ==
    /\ job[q] # NoJob
    /\ job' = [job EXCEPT ![q] = NoJob]
    /\ UNCHANGED <<sug, called, asked, acts, sent, tasks, notes, texts, raced>>

\* _deliver_in_background, on a session of its own.
Deliver(d) ==
    /\ notes[d] > 0
    /\ notes' = [notes EXCEPT ![d] = @ - 1]
    /\ texts' = Plus(texts, d)
    /\ UNCHANGED <<sug, called, asked, acts, job, sent, tasks, raced>>

Next ==
    \/ \E q \in Requests, d \in Drafts : StageMessage(q, d)
    \/ \E d \in Drafts : StageOther(d)
    \/ \E q \in Requests, i \in Drafts, action \in Actions : Act(q, i, action)
    \/ \E q \in Requests : Read(q) \/ Effects(q) \/ Fails(q) \/ Check(q)
                                   \/ Write(q) \/ Crash(q)
    \/ \E d \in Drafts : Deliver(d)

Spec == Init /\ [][Next]_vars
-----------------------------------------------------------------------------
(* The rows as managers see them.                                          *)
Sent(i) == sug[i].status = "accepted" /\ sug[i].taken = "send"
Verdict == [i \in Drafts |->
              IF sug[i].status = "accepted" /\ ~Sent(i) THEN "overridden"
              ELSE sug[i].status]

\* A message is carried out once it is stored, a proposal once it has its task;
\* a reply promises nothing, since its task may have no conversation.
CarriedOut ==
    {i \in Existing : /\ Kind[i] \in {"message", "standalone"} => sent[i] > 0
                      /\ Kind[i] \in {"create", "assign"} => tasks[i] > 0}

Life == INSTANCE SuggestionLife WITH
            Ids <- Drafts, verdict <- Verdict, done <- CarriedOut,
            contended <- raced

-----------------------------------------------------------------------------
(* Properties.                                                             *)

RowType == [status : {"pending", "accepted", "dismissed"},
            taken : Actions \cup {"none"}, linked : BOOLEAN]
Counts == [Drafts -> Nat]
Phases == {"idle", "start", "effects", "check", "write"}

TypeOK ==
    /\ sug \in [Drafts -> RowType \cup {NoRow}]
    /\ called \subseteq Drafts
    /\ asked \subseteq called
    /\ acts \in 0..MaxActs
    /\ \A q \in Requests :
          /\ job[q].phase \in Phases
          /\ job[q] # NoJob => job[q].sid \in Existing
    /\ sent \in Counts /\ tasks \in Counts
    /\ notes \in Counts /\ texts \in Counts
    /\ raced \subseteq Existing

\* A suggested message that was accepted by its own action was stored, whatever
\* failed, died, overlapped or was asked twice on the way.  Of a proposal and of
\* a reply this is not so: they are accepted although nothing was sent.
AcceptedWasSent ==
    \A i \in Existing :
        (Sent(i) /\ Kind[i] \in {"message", "standalone"}) => sent[i] > 0

\* No SMS announces a message that is not stored, nor announces one twice.
TextsFollowMessages == \A d \in Drafts : notes[d] + texts[d] <= sent[d]

\* A proposal has one task, and is linked to it, when it was accepted by its own
\* action, and none otherwise, whatever died before its commit or was asked
\* again after it.  Executions of one suggestion that overlapped on two
\* instances are not protected from each other.
OneTaskPerProposal ==
    \A i \in Existing \ raced : Kind[i] \in {"create", "assign"} =>
        IF Sent(i) THEN tasks[i] = 1 /\ sug[i].linked
                   ELSE tasks[i] = 0 /\ ~sug[i].linked

\* "Risky messages route to a manager-review suggestion (pending approval)"
\* (agent/tools/messaging.py:87): a risky draft is sent because a manager asked,
\* or because a safe draft on its task took its pending suggestion for its own.
RiskyIsExplained ==
    \A d \in Risky : sent[d] > 0 =>
        \/ d \in asked
        \/ Kind[d] = "message" /\ \E x \in called \ Risky : Kind[x] = "message"

\* "is already accepted" (services/suggestion_service.py:264): the verdict that
\* a manager sees first is final, and is acceptance by the suggestion's own
\* action only over a stored message or with the task it proposes, although the
\* check comes after the effects and may look at an old row; only executions
\* that overlapped on two instances can replace it.
VerdictsAreFinal == Life!LifeSpec
=============================================================================

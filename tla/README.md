# RentMate: specifications and proofs

TLA+ specifications of the concurrent parts of RentMate, an assistant for
property managers: a FastAPI server with an LLM agent, background loops, SMS,
tenant and vendor portals, and a web interface. TLC checks the modules on small
instances. Every safety property that a run checks, invariant, action property
or refinement, is also proved with TLAPS for every instance; liveness is
model-checked. `PROJECT.json` maps every definition to the lines it models.

    tlc -config MCStreamRegistry.cfg MCStreamRegistry.tla      # a run
    tlapm StreamRegistryProofs.tla                             # proofs
    tlapm BackgroundLoopProofs.tla     # and SuggestionApprovalProofs,
                                       # TaskWorkProofs, ChatTurnProofs,
                                       # DocumentPipelineProofs,
                                       # TaskProgressProofs,
                                       # RentalRecordsProofs

## The system

The server is one Python process with one event loop, and several such
instances may run behind a load balancer (`rentmate/app.py:187`). What makes it
hard to test:

- Coroutines of the loop share one database session: `SessionLocal`
  (`db/session.py:21`) is scoped to the thread. A commit or a close by one
  expires, detaches or undoes what another has in hand.
- Synchronous agent runs and portal triggers run in threads with sessions of
  their own; locks, hashes, active streams and the poller's watermark live in
  the memory of one instance.
- The agent takes minutes, fails or times out, and acts through tools that
  commit on their own. Whatever was read before it is old after it.
- Many operations commit in the middle, and are repeated by a loop, a user or a
  restart.

| Component | State | Operations | Interacts with | What makes it correct |
|---|---|---|---|---|
| Agent streams (`agent/streams.py`, `agent/invocation.py`, `agent/agent_stream.py`) | runs in memory: log, terminal event, subscribers | start, emit, subscribe, reconnect, sweep | runners of agent turns; SSE clients | no event lost, repeated or reordered; runs in flight can be found; streams end |
| Routines (`handlers/routines.py`, mutations) | `routines` rows | create, update, delete, scheduler tick, SSE run and simulate, seeding | agent; shared session | counts and limits hold; deletions stay |
| Suggestions (`services/task_suggestions.py`, `services/suggestion_service.py`, `agent/tools/messaging.py`) | suggestion rows, messages, tasks, notifications | stage, auto-execute, approve, dismiss, deliver SMS | agent tools; GraphQL; other instances | accepted means sent; a risky draft is sent without a manager only for a known reason; one task per proposal |
| Autoreply (`handlers/chat.py`, `handlers/reply_scanner.py`, portals) | messages, typing flag; per instance a lock and a hash per task | scan, portal trigger, run, answer | agent; portals; SMS | no message passed over; no answer without a cause |
| Task reviews (`handlers/task_review.py`, `agent/tools/task_review.py`) | review columns of a task, cards in its AI conversation | sweep, manual review, record, fallback record, post card | agent; messages of outsiders | every new message gets reviewed; the card tells what the row tells |
| Inbound SMS (`handlers/quo_poller.py`, `handlers/chat.py`, `db/lib.py`) | messages, watermark | webhook, poll, duplicate check, route, answer | SMS provider; shared session | nothing missed, nothing twice |
| Chat turns over SSE (`handlers/chat.py`, `agent/side_effects.py`) | messages, `_active_chats`, cards waiting for the reply | send, reconnect | agent, clients | what the tools did is shown, what the reply claims was done, and clients are told how it ended |
| Agent runs (`agent/client.py`, `agent/loop.py`, `agent/runs.py`) | run rows, request context of the process | start, tool loop, corrective turns, finish | tools, model | every run is closed; no turn runs in another's context |
| Documents (`handlers/documents.py`, `agent/document_processor.py`) | document rows with a status, files | upload, extract, analyse, reprocess, delete, re-queue at start | storage, agent | each file once; no document stuck, none done without data |
| Task steps and status (`agent/tools/tasks.py`, `services/task_service.py`) | one JSON column of steps, status, mode, a request for a file | create, update a step, close, request a file, dismiss, edit, delete | agent tools on several threads; managers' pages | no outcome is called confirmed without a word of the tenant; one active step; progress is kept |
| Properties, tenants and leases (`services/*_service.py`, `agent/tools/leases.py`, `entities.py`) | rows, foreign keys, the roster of a lease | create, add, remove, replace, delete | agent tools; GraphQL; other instances | a lease's tenant is on its roster; one row per person and house |
| Background loops (`rentmate/app.py`) | Postgres advisory locks | acquire, run, release | all loops | one instance runs each loop |
| Notifications, auth, portals, settings, vendors and owners, data export, demo, evaluations, UI | rows | one transaction each | | row-level rules |

`PROJECT.json` lists every component, also those not modelled and why.

## The modules

| Module | Models | Composes |
|---|---|---|
| `StreamLog` | what readers of agent streams are promised: an append-only log, read from its start | |
| `StreamRegistry` | `agent/streams.py` with its runner and its connections | implements `StreamLog` |
| `RoutineScheduler` | the routines' rows, the scheduler's tick, SSE runs, seeding | |
| `SuggestionLife` | what a manager is promised of a suggestion: proposed once, one verdict, accepted by its own action only once that is carried out | |
| `SuggestionApproval` | staging, executing and resolving suggestions; the background SMS | implements `SuggestionLife` |
| `TaskAutoreply` | lock, hash and run per instance and task; scanner; portal threads | |
| `TaskReview` | review columns, sweep, managers' reviews, the recording tool | |
| `InboundSms` | webhook, poller, duplicate check, the session between flush and commit | |
| `DocumentPipeline` | upload, background and agent's analysis, reprocess, delete, restart | |
| `ChatTurn` | send, tool loop, corrective turns, run row, cards, reconnect, request context | |
| `TaskProgress` | the steps, status and mode of one task under overlapping calls | |
| `RentalRecords` | properties, tenants, leases and rosters under overlapping calls | |
| `BackgroundLoopProofs` | the proofs about `RoutineScheduler` and `InboundSms` | extends both |
| `TaskWorkProofs` | the proofs about `TaskAutoreply` and `TaskReview` | extends both |
| other `...Proofs` | the proofs about the module they are named after | extend it |
| `MC...` | one per specification: model values, bounds and symmetry for TLC | |

### StreamRegistry

Code between two suspending awaits is one action. `Emit` is `StreamRun.emit`;
`Subscribe` is the generator up to its first yield, where the queue is
registered and the log copied; `YieldReplay` and `YieldLive` send one event
from the copy or from the queue, and the `finally` block belongs to the step in
which the generator returns or is closed. A runner returns, raises, or returns
with a payload that cannot be built (`PayloadRaises`). `Start` and `Reconnect`
sweep as the code does. `age` counts ticks since the terminal event up to just
above `Ttl`. `StreamLog` has none of queues, copies and phases: the refinement
maps only `findable` to `registered`.

### RoutineScheduler

`row` is the table. `tick` is the scheduler's tick: the routine at work, the due
ones left and whether the rows it holds are expired. Why nothing the tick assigns
after a run is stored: `execute_routine` commits and closes the session that the
tick's rows belong to (`handlers/routines.py:349`). `TickStart(r, synced)` leaves
open whether the memory sync committed first, which decides whether reading a
row raises (`TickRecord` gives up the rest) or reads a detached copy. When its
agent has answered, an SSE run loads its row again (`SseLoad`) and then writes
the columns that it changes relative to what it loaded (`SseStore`, `StoredOver`):
`completed_count += 1` is a read and a later write, and another instance may
write in between. A routine for which that has happened is in the history
`crossed`. `Restart` is one instance that starts: its runs are gone, those of the
others go on, and it seeds.

### SuggestionApproval

An execution goes through `Read`, `Effects`, `Check`, `Write`, and may fail or
die between them. `Effects` is where `send_autonomous_message` commits. After
that commit the status is read afresh; without it the session answers from what
it has seen (`Done.fresh`, `Accepts`). What was only flushed, a new task with its
link and a notification, is the job's (`task`, `note`) until `Write` commits it.
`Delivers` says whether the executor finds a conversation to send to. One that
has just created its task does not: looking for the vendor's conversation has
loaded the task's conversations (`services/task_suggestions.py:154`) before there
was one, and `_send_draft_message` reads that list again. The proposal is then
accepted, with its task, and its draft is not sent; a repeated approval sends it
and is refused. A task that the agent named may have no conversation at all, in
which case a reply is accepted in silence. A request may carry any known action
for any suggestion (`Actions`): "other" is one of another kind, which accepts and
does nothing. Two executions overlap on two instances.
`raced` is a history variable: suggestions that two executions had in hand at once.
`NeedsReview` is the tool's decision about a draft; `RiskyIsExplained` lists the
ways in which a risky draft is sent although it says yes. `SuggestionLife` has
none of executions, sessions and commits: `Verdict` and `CarriedOut` map the
rows, messages and tasks to it, and `raced` to `contended`; an acceptance by
another action is a verdict of its own there, "overridden".

### TaskAutoreply

A run is `hashed`, `running`, `replied`, then over: with `[NO_RESPONSE]` the hash
computed before it is kept, after an answer a new one, after a failure none. The
hash is the tuple of what it is computed from. After an answer,
or one that could not be written, a failing `clear_typing_indicator` is passed
over (`TriesToClear`); after `[NO_RESPONSE]` it makes the run fail. `heard`, `calm`
and `left` are history: messages a finished run had read, the last message that
met no run, and tasks whose indicator a run has left on, until one clears it.

### TaskReview

A time is abstracted to what the due query compares it with: how many messages
came before it (`mark`), whether the cooldown has passed (`cool`), and the order
of reviews (`order`, the pairs of an earlier and a later one, from which
`Before` sorts the due tasks). `Record` is the tool call of a review for its
task; `Ensure` is the fallback; `Post` shows the columns as they are now. Every
other turn of the agent has the tool, too (`agent/dispatch.py:54`): in a task's
conversation it records for that task, elsewhere for the id the agent gives, a
review that gives a wrong one included. `RecordElsewhere` is such a record, with
no review of the task and no card. History: `read` and `astray` are the messages
that were covered when a review, or another turn, recorded; `passed` those that
came during the review that recorded; `quiet` the last that met no review; and
`spoiled` the tasks whose last record has no card to come.

### InboundSms

The clock's unit is the duplicate check's window of ten seconds. `handler[h]`
is the message that `process_inbound_sms` has in hand for the webhook or for the
poller. A tenant's message is flushed in a worker thread and committed on the
loop; in between anyone who closes the session takes it back (`TakenBack`, and
the duplicate check itself in `Check`). A poll cycle (`poll`) holds the
contacts it has still to fetch and the messages of the one it is at. `LookUp` is
the duplicate check with its session; it may fail and then finds nothing
(`blind` names the message whose look-up, the last one, failed), and it finds nothing for
a message without its `createdAt` (`Undated`). The time the poller asks for is
malformed (`handlers/quo_poller.py:67`, an aware time and a "Z"), and what the
provider makes of it is not in this repository: `Fetch` lets it be heeded or
ignored, `FetchFails` rejected. A webhook call that
is lost stays on the way for good. `Textless` messages are stored by the webhook and
passed over by the poller (`:149`). A handler of a vendor's or an unlisted
tenant's message never awaits before its commit (`Holds`).

### DocumentPipeline

All documents are uploads of one file, since documents of different files share
nothing. A worker is the event loop of an instance, which keeps control until it
commits, or the thread of an agent run. `job[w]` says which commit of a handler
or of `process_document` comes next: `called`, `begun` (status `processing` is
committed), `llm` (text is committed, columns are loaded), `failed`. A run writes
only the columns it changes relative to what it loaded (`LlmJob`, `Finish`).
`queue` holds the background tasks, which a crash loses and `Restart` refills
from the rows. The look-up of the checksum and the write to storage are one
step, as are the download and the extraction of the text: nothing is committed
between them. The histories name what excuses a state: an error that could not
be written (`silent`), an operation cut short (`cut`), a reprocess under a run's
last step (`raced`), a model's answer of null (`nulled`, until a run writes a
result again), overlapping uploads (`crossed`). `CommitFails` is the commit of an
upload or a deletion that raises, as for a `document_type` longer than its column
(`handlers/documents.py:58`, `:186`): the storage keeps what was done to it. A
commit of `process_document` that raises is the path of any other error.

### ChatTurn

A turn gives up the loop only while it waits for the model, so an answer and all
that follows it up to the next call is one step; `pc` is `sent` (message being
written), `model`, `replied` (run row finished, reply not yet written), `ended`
or `lost` with its process. `stage` is the corrective turn under way: after the
first answer the agent may be asked again about a tenant's appointment, and
about a document it claims but did not make. `effects` is what the tools did,
each committed (`real`) or not; `queued` the cards waiting for the reply, which
the tenant's corrective turn discards. `fallback` and `token` are the request
context of the process and the one each turn restores at its end. `reader` is
what the client has been told.

### TaskProgress

One task. A call loads the list of steps, works on a copy and writes all of it
when its session ends (`job[r]` between); a manager's page writes back the list
it was shown. `word` is what the latest inbound message says: the gate of
`update_task_progress` looks at it before a step that confirms an outcome by its
wording (`Worded`) becomes done. A call is `stale` when another one has written
the list since it was loaded. A key stands for a step's key and label: the request
of a file carries `hits`, the keys whose label contains the file's, one of the sets
in `Labels`, and sets back the first step that is `Upload` or in `hits`
(`IsAwaiting`). The mode is reduced to whether it is `waiting_approval`.

### RentalRecords

A call whose reads decide what it writes has two steps, `Begin...` and `End...`,
in a session of its own under READ COMMITTED; a call that only inserts is one
step, since the foreign keys check again what it looked up. A lease names its
first tenant twice, in `primary` and in `roster`. `Heirs` picks the next primary
tenant after a removal; deletions take along what the foreign keys cascade to.
`NameTaken` and the address check compare with what the call has seen.

## Runs

| Run | Instance | States | Shows |
|---|---|---|---|
| `streams` | 2 runs, 2 connections, 1 label, 2 progress events, Ttl 1 | 0.2 M | feeds complete, open streams end, `StreamLog` implemented |
| `routines` | 1 default, 1 user's routine, 2 SSE requests, 3 runs in all, limits 2 and none, 1 restart | 0.8 M | a count is never ahead of its runs, and behind only where two instances recorded on the same count; deletions stay |
| `approvals` | 5 drafts, of every kind but the proposal without a draft, 2 executions, 2 requests by managers | 0.3 M | an accepted message was sent, SMS follow messages, one task per accepted proposal unless executions raced; a risky draft sent without a manager is explained; `SuggestionLife` implemented |
| `autoreply` | 1 task, 2 instances, 2 messages in, 1 out, 1 edit, 3 answers, 1 fault | 3.1 M | the hash hides no message that met no run; typing is explained |
| `autoreply_live` | 2 tasks, 1 instance, 1 message and 1 edit each | 0.2 M | every waiting task is served; each answer has a cause |
| `review` | 2 tasks, sweep and 1 manager, 1 message each, 1 fault or record of another turn | 3.7 M | what no longer makes a task due was read, or passed over in a named way; reviews settle what they read, cards are right |
| `review_live` | 2 tasks, one closable, 1 fault | 0.3 M | no due task is starved |
| `sms` | tenant, vendor (no time) and unlisted sender (no text), 2 of 3 messages, 4 time units, 1 fault | 3.6 M | the watermark passes nothing by without a cause; repeats are explained |
| `documents` | 2 instances, an agent thread on one, 2 documents, 1 request, 1 crash or failing commit | 0.2 M | two rows only by a race; rows and files match; `processing` is attended; `done` has data; analyses end |
| `chat` | 2 turns, one busy, 2 calls of the model, 1 fault | 0.5 M | cards match what was done, claims are backed, run row, conversation and client agree, one greeting, contexts unwind, turns end |
| `progress` | 2 calls at a time, 3 in all, 3 keys, 3 plans, 2 labels, 1 message, 1 fault | 1.9 M | a verified step had a word behind it, one active step, done steps stay |
| `records` | 3 tenants, 2 leases, 2 properties, 2 names, 2 addresses, 3 calls at a time, 6 in all | 0.3 M | the primary tenant is on the roster; duplicates are explained |

Deadlock is not checked: every counter is bounded, so every instance ends.

Why the bounds are enough. Each hazard is a race of two: two connections, two
executions, two instances, a sweep and a manager, webhook and poller. Two of each
actor and one fault at any point reach every pair of steps. Two events per run
let one be in the replay and one in the queue while the terminal event comes, and
`Ttl = 1` separates "ended" from "evictable". Two messages let one be read and
one be missed. A limit of 2 with two overlapping runs is where a lost increment
shows, and the third run meets the count that it leaves. Two tasks are what
starvation needs. With two messages sent out of
three, every pair of kinds of sender occurs, two of them with the same text; four
time units let a message be older than the first poll's look-back, stored later
than the duplicate window, and polled again after a restart. Two
documents suffice for a duplicate, and one reprocess or deletion meets a run in
every phase of it, on its own instance or on the other; the crash falls between
any two commits. Two turns overlap in every way their contexts and greetings can;
the busy one goes through each corrective turn, and two calls of the model per
loop reach "a tool, then an answer" and "no answer at the limit" (20 in the
code). Two calls on one list are what a lost update needs, the third call sees
its result. One message is a yes, a no or neither, and a yes opens the gate for
good as far as `VerifiedHasWord` is concerned. A requested file matches no step by
its label, or both steps of a plan, so it meets its own step first, last or not at
all. Three tenants give a lease one to remove, one to inherit it and one
to be removed at the same time; six calls make them, their lease and two removals.

Symmetry is used for SSE requests, executions, instances, calls and, in
`records`, for the ids of rows: only in runs without liveness properties, and
nothing names or orders them there.

## Fairness

- `StreamRegistry`: weak fairness of each connection's generator and of each
  runner's end. The loop schedules a generator that has an event, and runners
  have timeouts. Clients need not disconnect, and runners need not succeed.
- `TaskAutoreply`: weak fairness of the scanner (it polls for ever and catches
  its exceptions) and of the end of a run, good or bad (the model's calls and
  the agent's turns are bounded). The agent need not answer.
- `TaskReview`: weak fairness of the sweep and of the end of its review. The
  loop catches every review's failure and goes on. Managers' reviews need not end.
- `DocumentPipeline`: weak fairness of each worker's `process_document`, of the
  handlers' second steps, of taking up a queued document, and of the restart
  of an instance (its supervisor starts it again; the bound on crashes lets it
  stay up in the end).
- `ChatTurn`: weak fairness, per turn, of its start, of the model's answers (they
  come or time out, and the loop is bounded), of the write of the reply and of
  the events to a client. Failures, departures and reconnections need not happen.

The other modules state safety only. Due routines are not served fairly (below).

## Proofs

`StreamRegistryProofs` proves, for any sets of runs, connections and labels and
any `Ttl` and `MaxEvents`:

| Theorem | Statement |
|---|---|
| `StreamInvariant` | `Spec => []IInv` |
| `FeedsAreComplete` | `FeedIsComplete`, which `streams` checks |
| `TypeCorrect`, `EndedStreamsAreWhole`, `LogsEndOnce`, `RunningRunsAreFindable` | `TypeOK`; a stream that has ended sent the whole log; nothing follows a terminal event; a run in flight is in the registry |
| `RegistryImplementsLog` | `Spec => StreamLogSpec` |

Assumptions: names do not clash (`NamesAssumption`), the bounds are naturals
(`BoundsAssumption`).

The argument. `FeedIsComplete` (sent, copied and queued events together are the
log) is not inductive: `Emit` extends the feed of a connection only if it is in
its run's subscriber list. `Bookkeeping` therefore says that a connection is in
exactly the list of the run it reads while it is replaying, and that one that has
not started has received nothing. `RunsInv` says that a run has no terminal event
before its runner ends, which is what keeps `Stale` away from runs in flight, and
that a terminated log is not empty. `TerminalIsLast` gives `CompleteMeansWhole`:
the event after which a generator returns is the last of the log, so nothing was
left in copy or queue. `EmitPreserves` and `SentPreserves` carry the two steps
that change a feed; they rest on lemmas about concatenation (`FeedAppend`,
`FeedPop`, `FeedAssoc`). `StepSimulation` maps every step under the invariant to
a step of `StreamLog` or a stutter: `Emit` to `Extend`, sends to `Receive`
(`SentIsReceive`), and a sweep retires only ended runs (`SweepRetiresEnded`).

`BackgroundLoopProofs` proves, for any routines, requests, limits, period and
bounds, and for any messages, senders, texts and bounds:

| Theorem | Statement |
|---|---|
| `RoutineInvariant`, `RoutineTypeCorrect` | `Spec => []IInv`, `Spec => []TypeOK` |
| `CountsAreExact` | `CountIsExact`, which `routines` checks |
| `DefaultsAreSimulated`, `RetiredAtLimit` | a default in service was simulated; a routine is completed only at its limit, unless it is in `crossed` |
| `DeletionsStay` | `Spec => DeletedStaysDeleted` |
| `SmsTypeCorrect` | `SmsSpec => []SmsTypeOK` |
| `MissedMessagesAreCaught` | `MissedAreCaught`: what was sent before the watermark is stored, or a fault of the poller's own kept it |
| `PollerRepeatsAreExplained` | `SmsSpec => RepeatsAreExplained` |

Assumptions: `RoutinesAssumption` (a default is not a user's routine, no routine
is called "nobody", requests are finite, limits are naturals or `Forever`, the
schedules' period and delay are positive); `SmsAssumption` (each message has a
sender and a text, if an empty one, no vendor counts as unlisted, bounds are naturals).

The argument. A lemma per operator shows that it makes a well-formed row from a
well-formed row. The hard case is an SSE run that writes over a row others have
changed, deleted or completed since it was loaded: the invariant says of every
row in hand how it fits the row there. A loaded count is never more than the
runs recorded by then, so the write is not ahead of them, and while the routine
is not in `crossed`, a count that is still the loaded one is exact.
`CountIsExact` is not inductive alone either: a new routine's count is zero, so
no earlier run may be recorded or under way for its id, which `UnspentIsUnused`
adds. `Shape` has no bound on counts and times. `Bounded` adds them: runs under
way (`Running`, a cardinality) count with those recorded.

For SMS, `MissedAreCaught` looks at the watermark, which moves when a cycle ends.
`Missed` says what a cycle knows on the way: each message sent before the cycle
began is caught, or its contact has still to be fetched, or it is in the batch,
or the poller has it in hand. `PollerRepeatsAreExplained` needs the check and the
write to be one story: `Unrepeated` says that a message the poller has in hand
had no copy near it when the check looked, or is in `blind` or `Undated`, and
that `raced` names it if a webhook took it up since then. `SmsTyped` orders the
times (a copy is stored after its message was sent), without which "near" means nothing.

`SuggestionApprovalProofs` proves, for any drafts, any executions and any number
of requests (`ApprovalAssumption`):

| Theorem | Statement |
|---|---|
| `TypeCorrect` | `Spec => []TypeOK` |
| `AcceptedIsSent`, `TextsNeverAhead` | `AcceptedWasSent`, `TextsFollowMessages` |
| `ProposalsHaveOneTask` | `OneTaskPerProposal` |
| `RiskySendsExplained` | `RiskyIsExplained` |
| `VerdictsFinal` | `Spec => VerdictsAreFinal`: `SuggestionApproval` implements `SuggestionLife` |

The argument. A lemma per action says what it does to the one row and the one job
it is about; `Shape` gives every job the fields of its phase and a row that
exists. `JobGood` is what an execution has done or found done: past its effects,
one that sends has stored the message, or has the task in hand, or found it
there. `RowGood` is what that leaves behind at `Write`. `TextsFollowMessages` is a
sum, and a notification is stored after its message, so `Counted` adds the
executions that have yet to store one (`ToNote`, a cardinality) to those stored
and delivered. `Alone` says of a suggestion that executions had in hand one at a
time (`Single`) that it has its task if it was accepted and none before, and that
its one execution `Knows` the status and the link as they are, in whichever of
the two ways `Accepts` reads them, and so writes only over `pending`. `LifeStep`
maps `Write` to `Decide`, `Effects` to `CarryOut`, a new row to `Propose`, the
start of an execution to `Contend`, all else to a stutter. The proposal without a
draft, which the run leaves out, is covered here.

`TaskWorkProofs` proves, for any tasks, instances, reviews and bounds
(`AutoreplyAssumption`, `ReviewAssumption`: ids are naturals, finitely many, "sweep"
is no manager, "none" no decision):

| Theorem | Statement |
|---|---|
| `AutoreplyTypeCorrect`, `ReviewTypeCorrect` | `Spec => []TypeOK`, `ReviewSpec => []ReviewTypeOK` |
| `SkippedHadBeenHeard` | `SkippedWasHeard`: the hash hides no message that met no run |
| `IndicatorExplained` | `TypingIsExplained` |
| `AnswersAreCaused` | `AnswersHaveCause`, on one instance (`OneInstance`, as in the run `autoreply_live`; with two it is false) |
| `MessagesKeepTasksDue`, `CardsShowResults` | `MessageKeepsDue`, `CardShowsResult` |
| `ReviewsSettle` | `ReviewSpec => ReviewSettles` |

The argument. A hash contains the number of messages, so it can only equal
today's context if no message has come since. `Remembered` says so of every hash
in memory and of the one each run started from: one with today's number was left
by a run that had read the last message that met no run. `AnswersHaveCause`
counts, so `Caused` charges an answer to a cause when its run begins: a run under
way, or one the hash would allow, leaves a cause unused. For reviews, `Covered`
says that a review has read what was quiet before it began (`Sees`), and that a
recorded review's columns cover it; where a task's columns cover all its
messages, a review that recorded had read them or another turn recorded
(`Passed`). `Ordered` makes `order` a strict order, so that what is not due is
really the latest. `AllShown` follows the last card: it differs from the row only
while a review that finds the record is under way (`Pending`), whose `Post` shows
the row as it is by then, or in a task of `spoiled`.

`DocumentPipelineProofs` proves, for any instances, agent threads, documents and
bounds (`PipelineAssumption`):

| Theorem | Statement |
|---|---|
| `TypeCorrect` | `Spec => []TypeOK` |
| `AlwaysAttended` | `ProcessingIsAttended` |
| `DuplicatesAlwaysRaces` | `DuplicatesAreRaces` |
| `FilesAlwaysFollow`, `DoneAlwaysHasData` | `FilesFollowRows`, `DoneHasData` |

The argument. `ProcessingIsAttended` is inductive with the type: a run that has
loaded `done` will not write the status again (`WillEnd`), and a run that loads
it commits in that step, so whoever is overtaken leaves the end to another run
in hand. A crash takes all workers of an instance at once, and then
`up # Instances`; the restart sets every row in process back to `pending`. For
duplicates, `OneClaim` counts a document from the moment its upload has found no
row: until two uploads overlap one document at most is claimed, by one worker.
Lemmas on cardinality turn "more than one row" into two distinct ones.
`FilesHeld` says whom a file without a row belongs to: the one upload that is
inserting its row, while a deletion under way has taken its file or is in `cut`.
`ResultsHeld` says of a run waiting for the model that the data it has loaded is
still there, or that the reprocess that cleared it is in `raced`, or the null that
overwrote it in `nulled`.

`ChatTurnProofs` proves, for any turns, busy turns and bounds (`TurnAssumption`):

| Theorem | Statement |
|---|---|
| `TypeCorrect` | `Spec => []TypeOK` |
| `CardsAlwaysMatch`, `ClaimsAlwaysBacked`, `OutcomesAlwaysAgree` | `CardsMatchEffects`, `ClaimsAreBacked`, `OutcomesAgree` |
| `WelcomedOnce`, `ContextsUnwind` | `GreetedOnce`, `ContextUnwinds` |

The argument. What the three say of a turn that is over must be said of a turn
under way: `Shown` (the cards waiting are those of all effects, unless they were
discarded), `Backed` (the text chosen is backed by the cards that wait for it)
and `Told` (which run rows and which news a client may have in each phase). One
lemma per step and part; the steps of one turn leave the others' parts alone.
`Greetings`: of two turns that greet without having overlapped, one has come to
nothing. `Contexts`: until turns end out of order (`tangled`), the turns with the
agent form a sequence in which each restores the one below it (`Nested`), so a
turn that begins extends the sequence and one that ends shortens it.

`TaskProgressProofs` proves, for any keys, plans, calls and bounds
(`ProgressAssumption`):

| Theorem | Statement |
|---|---|
| `Invariance` | `Spec => []Inv` |
| `TypeCorrect` | `Spec => []TypeOK` |
| `Verified`, `OneAtATime`, `Kept` | `VerifiedHasWord`, `AtMostOneActive`, `ProgressIsKept` |
| `Closed` | `ClosedWasComplete`: `close_task` resolves a task with every step done, unless the steps were written after it had looked |

The argument. `BlockedList` says that the request of a file changes what is done at
one step at most, the first that awaits it. A list in hand is as old as its call,
so each conjunct is stated for the stored list and for every list in hand: confirmed, at most one active
step, keys done by whom. The history variables are monotone, which is what lets
a list be written long after it was read.

`RentalRecordsProofs` proves, for any sets of rows, names and calls
(`RecordsAssumption`):

| Theorem | Statement |
|---|---|
| `TypeCorrect` | `Spec => []TypeOK` |
| `OnRoster` | `PrimaryOnRoster` |
| `Duplicates` | `DuplicatesAreExplained` |

The argument. `OnRoster` is inductive together with `IdsInv` (a row exists
only under an id that was given out, so nothing comes back) and with `Removal`:
while the lease of a removal in hand stays out of `raced`, the heir it has
chosen is on the roster or was deleted, and if it chose none, the lease's own
column names somebody else. Deletions and additions are shown to leave the
removals in hand alone (`Calm`).
`Duplicates` splits into names and addresses: a call in
hand has been told of every row with its name that came since it looked
(`HeardNames`), so the step that inserts a second one excuses the pair.

Type invariants of `StreamRegistry`, `SuggestionApproval`, `DocumentPipeline`,
`ChatTurn`, `TaskProgress` and `RentalRecords` are theorems and not repeated in a
`.cfg`.

Only model-checked, since fairness and ENABLED are outside the prover's reach:
`OpenStreamsEnd`, `WaitingIsServed`, `DueIsReviewed`, `Settles` and `TurnsEnd`.

## Where the code departs from what it says

Met while modelling. None of these has a run of its own; the properties above
that name an excuse (`raced`, `crossed`, `excused`...) hold only with it.

- Counts, limits and next times of scheduled runs are never stored, so a routine
  with a limit runs at every poll (`handlers/routines.py:349`), against
  `db/models/routine.py:31`.
- Two instances that end a manual run of one routine together count one of them
  (`handlers/routines.py:567` adds to the count it has loaded), so the routine
  runs once more than its limit. A run that reaches the limit while another
  instance switches the routine leaves it completed and enabled.
- A safe draft about a task whose risky draft is pending gets that suggestion's
  id and executes it (`agent/tools/messaging.py:342`), against `:87`.
- The hash after an answer covers messages that the run has not read, which are
  passed over (`handlers/chat.py:870`), against `handlers/reply_scanner.py:3`.
- `last_reviewed_at` is the time of the recording, not of the context
  (`agent/tools/task_review.py:44`): a message during a review gets no fresh one,
  against `handlers/task_review.py:5`.
- A chat, an autoreply or a routine can record a task's review
  (`agent/dispatch.py:54`): messages no review has read cease to make the task
  due, and the row has a result that no card shows (`astray`, `spoiled`).
- `invoke_agent` calls `done_payload` outside its try block
  (`agent/invocation.py:55`): if it raises, the run has no terminal event,
  against `agent/invocation.py:5`, and is never swept. `PayloadRaises` has it.
- When counting a run raises (`handlers/routines.py:358`) the due routines after
  it wait for the next poll, where the same one, still due, may come first again:
  they can starve, against "Execute all due routines" (`:326`).
- `create_routine` enables at once (`gql/schema.py:592`), against "Must simulate
  before enabling" (`db/models/routine.py:39`). A one-shot delay repeats every
  hour (`handlers/routines.py:100`), against "converted to a one-time run" (`:68`).
- Approving a proposed task with its draft creates the task and sends nothing
  (`services/task_suggestions.py:154` and `:225`), against the button's "Send to
  {vendor}" (`agent/tools/tasks.py:908`); so does approving a reply in a task
  without a conversation. An action that the suggestion does not offer accepts it
  (`services/suggestion_service.py:268`).
- Approving a dismissed standalone draft sends it before the status is looked at
  (`services/task_suggestions.py:530`), against "a dismissed draft leaves zero
  orphaned state behind" (`agent/tools/messaging.py:364`). Overlapping executions
  on two instances give two verdicts (`services/suggestion_service.py:263`). A
  second draft on a task is reported as staged but dropped
  (`agent/tools/messaging.py:332`).
- Lock and hash are per process, so up to three answers follow one message with
  two instances (`handlers/chat.py:709`). A portal's trigger does not look at the
  mode. After a failed run, or one whose clearing failed (`handlers/chat.py:889`),
  the typing indicator stays on.
- `record_sms_from_quo` calls a keyword-only function with positional arguments
  (`db/lib.py:479`), so messages of tenants who are not in `PHONE_WHITELIST` are
  never recorded (`Refuse`).
- The watermark moves although a listing or a fetch failed
  (`handlers/quo_poller.py:140`), against "last successful poll time" (`:15`).
  A message stored more than ten seconds after it was sent is stored and answered
  again when a restart makes the poller look back. `_is_duplicate` closes the
  session that a webhook has flushed into. The same text from two senders within
  ten seconds is dropped as a duplicate. A look-up that fails, or a message
  without `createdAt`, counts as no duplicate (`:101`, `:115`), against
  "Deduplicate against messages already in DB" (`:152`). A picture without text
  that the webhook missed is never stored (`:149`). `createdAfter` is malformed
  (`:67`); a provider that rejects it would leave every poll empty.
- A routine paused or deleted after the tick selected it still runs when its turn
  comes (`handlers/routines.py:347`); a schedule that croniter rejects repeats
  hourly (`:112`); `update_routine` raises after it has assigned to a row of the
  shared session (`gql/schema.py:635`), which another coroutine may commit.
- A task taken out of autonomous mode after a scan loaded its list is still
  answered (`handlers/reply_scanner.py:36`). A loop goes on after the connection
  that holds its advisory lock has died (`rentmate/app.py:223`).

Documents:

- An answer of JSON `null` passes for a result (`agent/litellm_utils.py:125`,
  `services/document_service.py:71`): the document is done and has no data.
- An upload whose commit fails leaves its file, which no row names; a deletion
  whose commit fails leaves a row without its file (`handlers/documents.py:58`,
  `:186`).
- A run that waits for the model while its document is reprocessed, and whose
  result equals what it had loaded, writes nothing: `done` without data.
- After two overlapping uploads of a file, `one_or_none` raises for every later one.
- Start-up queues documents that another instance is processing. A done document
  may be processed again and, when the model fails, end with `{"leases": []}`.
- `reprocess` keeps `raw_text`, so the agent's read tool does not analyse again.

Chat turns:

- A client that reconnects to a finished turn gets an error
  (`handlers/chat.py:1303`: three values into two names, `actions` unbound),
  against "receive its remaining SSE events" (`:1264`).
- A user message that cannot be committed is passed over (`:486`); a reply that
  cannot be written is reported with an invented id (`:577`).
- Without a model configured, `persist_user_message_only` is called with
  positional arguments that it does not take: the message is not stored.
  `assess` reads a `message` that `AssessRequest` does not have (`:935`).
- The lists of failed and completed tools are set in a task of their own and
  never reach `_local_fallback`: its correction of a switched tool and its reply
  for failures are dead. Cards never carry an `action_payload`, so the tenant's
  corrective turn runs whenever the message quotes a vendor's appointment.
- "I did not create the document" can be false when that corrective turn discarded
  the document's card. A card is queued before its suggestion is committed
  (`agent/tools/_common.py:625`).

Steps of tasks:

- Nothing accepts a `request_file_upload` suggestion: the web page opens the
  upload, and neither that nor a dismissal takes the task out of
  `waiting_approval` or unblocks its step. The request is committed before the
  task is marked (`agent/tools/tasks.py:1406`). The request sets back the first
  step whose label contains the file's label, done or not, before it looks for
  `upload_requested_file` further on (`agent/tools/tasks.py:347`).
- Any earlier "yes" satisfies the gate, though the outcome must be confirmed
  (`agent/tools/tasks.py:1027`). A note is overwritten before the gate looks at
  it. A plan may be proposed with its confirmation done. Progress of a resolved
  task can be updated. Stale lists overwrite newer ones; `updateTaskSteps` has no
  caller in the web interface.

Rental records:

- Two overlapping removals leave a lease without tenants or with a primary tenant
  off its roster, against "so the legacy tenant_id always points at a real row"
  (`services/lease_service.py:13`).
- Deleting a tenant deletes the leases of co-tenants, and a lease that the tenant
  was taken off in the meantime. `unit.tenant_id` is set with the tenant and
  never again, yet `_resolve_task_tenant` (`agent/tools/_common.py:278`) prefers it.
- `create_tenant` compares names regardless of case and trims neither side
  (`agent/tools/entities.py:302`), so "Ann " and "Ann" are no twins to it; in the
  model a name with other blanks is another name.
- `create_property` reports an error for a committed property when the update of
  the onboarding fails. The GraphQL mutations check no duplicates.
  `apply_document_extraction` (`db/lib.py:736`) has no caller.

## Not modelled

- The words of the agent: prompts, retrieval, memory, policies, ranking. A turn is
  a step with every outcome the callers tell apart.
- Row-level services (vendors, owners, settings, inbox, receipts), task numbers (one
  atomic UPSERT), authentication, import and export: one transaction each.
- The advisory locks of the background loops: the modules assume that one instance
  runs each loop.
- Suggestions: closing a task by suggestion, the text a manager edits, the
  deletion of a task with its suggestions (`services/task_service.py:171`), the
  race of two tool calls on the look-up of equivalent suggestions.
- Agent streams, autoreply, SMS: a restart of the process that holds
  agent streams (it forgets them), several
  external conversations per task, which task or conversation an SMS is routed to,
  the approval gate on replies by SMS, pages beyond 50 messages per contact.
- Chat turns: `assess`, agents on another host (`AGENT_URL`), tasks created by
  a turn, more than one conversation and process.
- Steps of tasks: `resolved_at`, notes, context. Rental records: dates, rent and
  payment (`update_lease`, `terminate_lease`), units, contact data.
- The user interface, demo, evaluations, scripts, migrations.

## Plan

Done: streams, routines, suggestions, autoreply, reviews, SMS, documents, chat
turns, steps of tasks, rental records. Next, the most important first:

1. `SingletonLoop`: advisory lock, lost connections, standby.
2. Autoreply and reviews composed on one task's messages.
3. The inbox (`services/chat_service.py`): conversations, receipts, unread counts.

Proofs to come: an abstract promise of the poller and the webhook together (each
message is stored, and twice only if it is late) that `InboundSms` implements;
one of the documents (`pending`, then `done` or `failed`, and again) for
`DocumentPipeline`. Each new module of the plan gets its theorems with it.

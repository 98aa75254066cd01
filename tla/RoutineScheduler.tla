-------------------------- MODULE RoutineScheduler --------------------------
(***************************************************************************)
(* Routines: saved agent prompts that run on a schedule.                   *)
(* handlers/routines.py (the scheduler loop, the SSE run and simulate      *)
(* endpoints, the seeding of defaults), the routine mutations of           *)
(* gql/schema.py and the table of db/models/routine.py.                    *)
(*                                                                         *)
(* All of it runs on one event loop whose coroutines share one SQLAlchemy  *)
(* session: SessionLocal of db/session.py is a thread-scoped registry.     *)
(* execute_routine therefore commits (the memory sync of                   *)
(* load_account_context does), which expires the rows the scheduler's tick *)
(* has loaded, and closes the tick's own session, which detaches them:     *)
(* nothing the tick assigns to them afterwards reaches the database, and   *)
(* reading an expired one raises.  When the memory sync failed before its  *)
(* commit the rows are detached and still readable.                        *)
(*                                                                         *)
(* Several instances serve requests (rentmate/app.py) and one of them runs *)
(* the scheduler.  The end of a manual run loads the row, adds one to the  *)
(* count it has read and stores it: the loop of its instance is not given  *)
(* up in between, but another instance may write the row.                  *)
(*                                                                         *)
(* The GraphQL mutations run_routine and simulate_routine assign to a row  *)
(* that the same close() has detached: they change nothing below.          *)
(***************************************************************************)
EXTENDS Naturals, FiniteSets

CONSTANTS Defaults,     \* routines seeded by the code
          Customs,      \* ids that users' routines get, each at most once
          Requests,     \* SSE requests that run or simulate a routine
          Forever,      \* "repeat is null"
          Repeats,      \* the limits callers ask for, Forever among them
          Period,       \* clock ticks between two occurrences of a schedule
          Hour,         \* delay used for a schedule croniter cannot parse
          MaxTime,      \* bound: last value of the clock
          MaxRuns,      \* bound: manual runs and simulations
          MaxCrashes    \* bound: restarts of an instance

ASSUME RoutinesAssumption ==
    /\ Defaults \cap Customs = {} /\ "nobody" \notin Defaults \cup Customs
    /\ IsFiniteSet(Requests)
    /\ Forever \notin Nat /\ Repeats \subseteq Nat \cup {Forever}
    /\ Period \in Nat \ {0} /\ Hour \in Nat \ {0}
    /\ MaxTime \in Nat /\ MaxRuns \in Nat /\ MaxCrashes \in Nat

Routines == Defaults \cup Customs
Exprs == {"cron", "oneshot"}                   \* "0 9 * * 1" and "30m"
Absent == [state |-> "absent"]
Nobody == "nobody"

VARIABLES
    row,        \* row[r]: the routine's row, or Absent
    spent,      \* ids that were given to a routine
    now,        \* the clock
    tick,       \* the scheduler: the routine at work, the due ones left, and
                \* whether the rows it holds can still be read
    job,        \* job[m]: what request m is running, and the row it has loaded
                \* to record the end of the run
    crashes,    \* restarts so far
    started,    \* manual runs and simulations so far
    okRuns,     \* history: manual runs that were recorded
    crossed     \* history: routines a run of which was recorded on a count that
                \* another recording had changed since it was loaded

vars == <<row, spent, now, tick, job, crashes, started, okRuns, crossed>>

Exists(r) == row[r] # Absent
IdleTick == [current |-> Nobody, todo |-> {}, expired |-> FALSE]
IdleJob == [kind |-> "idle", routine |-> Nobody, loaded |-> Absent]

\* parse_schedule(): a one-shot delay comes back as it was given.
ParseSchedule(expr) == expr

\* next_run(): the first occurrence after t; what croniter rejects, as it does
\* "30m", is due one hour later.
NextRun(expr, t) ==
    IF expr = "cron" THEN (t \div Period + 1) * Period ELSE t + Hour

\* A default routine as seed_default_routines() inserts it at time t.
Seeded(t) == [expr |-> "cron", enabled |-> FALSE, state |-> "paused",
              repeat |-> Forever, count |-> 0, next |-> NextRun("cron", t),
              simulated |-> FALSE]

\* Seeding at start-up: a missing default is inserted; one whose schedule is not
\* the code's gets that back and keeps all that users may change.
Resynced(x, t) ==
    IF x = Absent THEN Seeded(t)
    ELSE IF x.expr = "cron" THEN x
    ELSE [x EXCEPT !.expr = "cron", !.next = NextRun("cron", t)]

Init ==
    /\ now = 0
    /\ row = [r \in Routines |-> IF r \in Defaults THEN Seeded(0) ELSE Absent]
    /\ spent = Defaults
    /\ tick = IdleTick
    /\ job = [m \in Requests |-> IdleJob]
    /\ crashes = 0
    /\ started = 0
    /\ okRuns = [r \in Routines |-> 0]
    /\ crossed = {}

-----------------------------------------------------------------------------
(* The routine mutations.                                                  *)

\* create_routine, by a user or by the agent's tool.
Create(r, expr, repeat) ==
    /\ r \in Customs \ spent
    /\ spent' = spent \cup {r}
    /\ row' = [row EXCEPT ![r] =
                 [expr |-> ParseSchedule(expr), enabled |-> TRUE,
                  state |-> "scheduled", repeat |-> repeat, count |-> 0,
                  next |-> NextRun(ParseSchedule(expr), now),
                  simulated |-> FALSE]]
    /\ UNCHANGED <<now, tick, job, crashes, started, okRuns, crossed>>

\* The schedule argument of update_routine; "keep" stands for None.
Rescheduled(x, expr) ==
    IF expr = "keep" THEN x
    ELSE [x EXCEPT !.expr = ParseSchedule(expr),
                   !.next = NextRun(ParseSchedule(expr), now)]

\* The enabled argument of update_routine.
Toggled(x, flag) ==
    IF flag = "keep" THEN x
    ELSE [x EXCEPT !.enabled = (flag = "on"),
                   !.state = IF flag = "on" THEN "scheduled" ELSE "paused"]

\* Enabling before a simulation raises.
Refused(x, flag) == flag = "on" /\ ~x.simulated

\* update_routine: a refused flag raises before the commit, so a schedule given
\* in the same call is not stored either.
Update(r, expr, flag) ==
    /\ Exists(r)
    /\ ~Refused(row[r], flag)
    /\ row' = [row EXCEPT ![r] = Toggled(Rescheduled(@, expr), flag)]
    /\ UNCHANGED <<spent, now, tick, job, crashes, started, okRuns, crossed>>

Delete(r) ==
    /\ Exists(r)
    /\ row' = [row EXCEPT ![r] = Absent]
    /\ UNCHANGED <<spent, now, tick, job, crashes, started, okRuns, crossed>>

-----------------------------------------------------------------------------
(* The scheduler loop.                                                     *)

IsDue(r) == /\ Exists(r)
            /\ row[r].enabled
            /\ row[r].state = "scheduled"
            /\ row[r].next <= now

\* execute_routine is under way for r; others are still to be done.
Executing(r, others, expired) ==
    /\ tick' = [current |-> r, todo |-> others, expired |-> expired]
    /\ UNCHANGED <<row, spent, now, job, crashes, started, okRuns, crossed>>

\* _tick loads the due routines and, without awaiting anything, runs the first
\* up to the call of the agent.  The query has no order.
TickStart(r, synced) ==
    /\ tick = IdleTick
    /\ IsDue(r)
    /\ Executing(r, {q \in Routines : IsDue(q)} \ {r}, synced)

\* The agent has answered or failed.  Counting the run reads the row: if the row
\* is expired that raises, and the rest of the due routines are given up until
\* the next poll.  If it is detached the assignments go nowhere.
TickRecord ==
    /\ tick.current # Nobody
    /\ tick' = IF tick.expired \/ tick.todo = {} THEN IdleTick
               ELSE [tick EXCEPT !.current = Nobody]
    /\ UNCHANGED <<row, spent, now, job, crashes, started, okRuns, crossed>>

\* The next of the due routines is run whatever has happened to its row since.
\* Its commit and close find no row of the tick to expire or detach.
TickNext(r) ==
    /\ tick.current = Nobody
    /\ r \in tick.todo
    /\ Executing(r, tick.todo \ {r}, FALSE)

-----------------------------------------------------------------------------
(* Manual runs over SSE.                                                   *)

\* The repeat limit, on the count that includes the run just made.
Completed(x) == x.repeat # Forever /\ x.count >= x.repeat

\* Mutant of Counted: a run counts in the runner and in the recorder.
Counted_Twice(x) ==
    LET y == [x EXCEPT !.count = @ + 2]
    IN  IF Completed(y) THEN [y EXCEPT !.state = "completed", !.enabled = FALSE]
        ELSE [y EXCEPT !.next = NextRun(y.expr, now)]

\* What the end of a run makes of the row it has loaded.
Counted(x) ==
    LET y == [x EXCEPT !.count = @ + 1]
    IN  IF Completed(y) THEN [y EXCEPT !.state = "completed", !.enabled = FALSE]
        ELSE [y EXCEPT !.next = NextRun(y.expr, now)]

\* A column is written if it is no longer as it was loaded.
Written(was, is, stored) == IF is = was THEN stored ELSE is

\* The UPDATE of a row that holds x by now.
StoredOver(loaded, x) ==
    LET y == Counted(loaded)
    IN  [x EXCEPT !.count = y.count,
                  !.next = Written(loaded.next, y.next, @),
                  !.state = Written(loaded.state, y.state, @),
                  !.enabled = Written(loaded.enabled, y.enabled, @)]

\* POST /routines/{id}/run and /simulate: the row is loaded, expunged and run.
RunStart(m, r, kind) ==
    /\ job[m] = IdleJob
    /\ Exists(r)
    /\ started < MaxRuns
    /\ started' = started + 1
    /\ job' = [job EXCEPT ![m] = [kind |-> kind, routine |-> r, loaded |-> Absent]]
    /\ UNCHANGED <<row, spent, now, tick, crashes, okRuns, crossed>>

\* The agent has answered: the row is looked up again.
SseLoad(m) ==
    /\ job[m].kind = "run" /\ job[m].loaded = Absent
    /\ Exists(job[m].routine)
    /\ job' = [job EXCEPT ![m].loaded = row[job[m].routine]]
    /\ UNCHANGED <<row, spent, now, tick, crashes, started, okRuns, crossed>>

\* Mutant of Recorded: the row is merged, which inserts what is gone.
Recorded_Resurrects(r, loaded) ==
    [row EXCEPT ![r] = IF @ = Absent THEN Counted(loaded)
                       ELSE StoredOver(loaded, @)]

\* An UPDATE of a row that is gone matches nothing: the commit raises, and the
\* error branch finds no row either.
Recorded(r, loaded) ==
    IF Exists(r) THEN [row EXCEPT ![r] = StoredOver(loaded, @)] ELSE row

SseStore(m) ==
    LET r == job[m].routine
        loaded == job[m].loaded
    IN  /\ loaded # Absent
        /\ row' = Recorded(r, loaded)
        /\ IF Exists(r)
           THEN /\ okRuns' = [okRuns EXCEPT ![r] = @ + 1]
                /\ crossed' = IF row[r].count = loaded.count THEN crossed
                              ELSE crossed \cup {r}
           ELSE UNCHANGED <<okRuns, crossed>>
        /\ job' = [job EXCEPT ![m] = IdleJob]
        /\ UNCHANGED <<spent, now, tick, crashes, started>>

\* The end of a simulation stores one column, whatever the others are.
SseSimulated(m) ==
    /\ job[m].kind = "simulate"
    /\ row' = [r \in Routines |->
                 IF r = job[m].routine /\ Exists(r)
                 THEN [row[r] EXCEPT !.simulated = TRUE] ELSE row[r]]
    /\ job' = [job EXCEPT ![m] = IdleJob]
    /\ UNCHANGED <<spent, now, tick, crashes, started, okRuns, crossed>>

\* Mutant of SseLost: a failed run is counted, as the scheduler's loop does.
SseLost_Counted(m) ==
    /\ job[m] # IdleJob
    /\ row' = [r \in Routines |-> IF r = job[m].routine /\ Exists(r)
                                  THEN Counted(row[r]) ELSE row[r]]
    /\ job' = [job EXCEPT ![m] = IdleJob]
    /\ UNCHANGED <<spent, now, tick, crashes, started, okRuns, crossed>>

\* The run fails, which is not counted; its row is gone when it ends; or the
\* client disconnects: the generator is closed at its yield and nobody records
\* the end of the run.
SseLost(m) ==
    /\ job[m] # IdleJob
    /\ job' = [job EXCEPT ![m] = IdleJob]
    /\ UNCHANGED <<row, spent, now, tick, crashes, started, okRuns, crossed>>

-----------------------------------------------------------------------------
\* Runs that still find their row: a default that start-up seeds again is
\* another row.
Recordable == {m \in Requests : job[m] # IdleJob /\ Exists(job[m].routine)}

\* An instance restarts: its runs in flight are gone, those of other instances go
\* on, and start-up seeds.
Restart ==
    /\ crashes < MaxCrashes
    /\ crashes' = crashes + 1
    /\ row' = [r \in Routines |-> IF r \in Defaults THEN Resynced(row[r], now)
                                  ELSE row[r]]
    /\ tick' \in {tick, IdleTick}
    /\ \E kept \in SUBSET Recordable :
          job' = [m \in Requests |-> IF m \in kept THEN job[m] ELSE IdleJob]
    /\ UNCHANGED <<spent, now, started, okRuns, crossed>>

Clock ==
    /\ now < MaxTime
    /\ now' = now + 1
    /\ UNCHANGED <<row, spent, tick, job, crashes, started, okRuns, crossed>>

SchedulerStep ==
    \/ \E r \in Routines, synced \in BOOLEAN : TickStart(r, synced)
    \/ TickRecord
    \/ \E r \in Routines : TickNext(r)

Next ==
    \/ \E r \in Customs, expr \in Exprs, n \in Repeats : Create(r, expr, n)
    \/ \E r \in Routines, expr \in Exprs \cup {"keep"},
          flag \in {"keep", "on", "off"} : Update(r, expr, flag)
    \/ \E r \in Routines : Delete(r)
    \/ SchedulerStep
    \/ \E m \in Requests, r \in Routines, kind \in {"run", "simulate"} :
          RunStart(m, r, kind)
    \/ \E m \in Requests : SseLoad(m) \/ SseStore(m) \/ SseSimulated(m) \/ SseLost(m)
    \/ Restart
    \/ Clock

Spec == Init /\ [][Next]_vars
-----------------------------------------------------------------------------
Times == 0..(MaxTime + Period + Hour)

RowType == [expr : Exprs, enabled : BOOLEAN,
            state : {"scheduled", "paused", "completed"},
            repeat : Repeats \cup {Forever}, count : 0..MaxRuns, next : Times,
            simulated : BOOLEAN]

TickType == [current : Routines \cup {Nobody}, todo : SUBSET Routines,
             expired : BOOLEAN]

JobType == [kind : {"run", "simulate"}, routine : Routines,
            loaded : RowType \cup {Absent}]

TypeOK ==
    /\ row \in [Routines -> RowType \cup {Absent}]
    /\ spent \subseteq Routines
    /\ now \in 0..MaxTime
    /\ tick \in TickType
    /\ job \in [Requests -> JobType \cup {IdleJob}]
    /\ crashes \in 0..MaxCrashes
    /\ started \in 0..MaxRuns
    /\ okRuns \in [Routines -> 0..MaxRuns]
    /\ crossed \subseteq Routines

\* A default routine is in service only after a simulation, across restarts
\* that re-sync it ("Must simulate before enabling", db/models/routine.py).
DefaultsRunSimulated ==
    \A r \in Defaults : (Exists(r) /\ row[r].enabled) => row[r].simulated

\* completed_count of a user's routine is the number of runs recorded over SSE,
\* however many of them overlapped: it is never ahead of them, and only falls
\* behind when two instances have recorded on the same count.
CountIsExact ==
    \A r \in Customs : Exists(r) =>
        /\ row[r].count <= okRuns[r]
        /\ r \notin crossed => row[r].count = okRuns[r]

\* A routine is retired only when its limit is reached, unless a recording has
\* set its count back since.
CompletedAtLimit ==
    \A r \in Routines : (Exists(r) /\ row[r].state = "completed" /\ r \notin crossed) =>
        row[r].repeat # Forever /\ row[r].count >= row[r].repeat

\* A deleted routine is not written back by a run or a tick that was under way.
DeletedStaysDeleted ==
    [][\A r \in Customs : (r \in spent /\ ~Exists(r)) => row'[r] = Absent]_vars
=============================================================================

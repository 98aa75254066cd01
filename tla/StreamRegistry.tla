--------------------------- MODULE StreamRegistry ---------------------------
(***************************************************************************)
(* The reconnectable agent-stream registry of agent/streams.py, driven by  *)
(* agent/invocation.py (the runner of a run) and agent/agent_stream.py     *)
(* (the SSE body of a connection).                                         *)
(*                                                                         *)
(* Everything runs on one event loop, so a stretch of code without a       *)
(* suspending await is one action: emit() is atomic, and so are the two    *)
(* first statements of subscribe(), which register the queue and take the  *)
(* snapshot of the log.                                                    *)
(***************************************************************************)
EXTENDS Naturals, Sequences, FiniteSets

CONSTANTS Runs,        \* stream ids; start() makes a fresh one for each run
          Clients,     \* SSE connections
          Texts,       \* non-empty progress labels
          NoRun,       \* not a run
          NoEvent,     \* StreamRun.terminal is None
          Ttl,         \* ticks a terminated run stays in the registry
          MaxEvents    \* bound on the progress events of a run

Ends == {"done", "error"}
Events == Texts \cup Ends

ASSUME NamesAssumption ==
    /\ NoRun \notin Runs
    /\ NoEvent \notin Events
    /\ Texts \cap Ends = {}

ASSUME BoundsAssumption == Ttl \in Nat /\ MaxEvents \in Nat

VARIABLES
    log,          \* StreamRun.progress_log
    terminal,     \* StreamRun.terminal
    age,          \* ticks since terminal_at, saturating just above Ttl
    subscribers,  \* StreamRun.subscribers: the connections whose queue is in it
    registered,   \* keys of StreamRegistry._runs
    runner,       \* the task of invoke_agent
    phase,        \* where the SSE generator of a connection stands
    reading,      \* the StreamRun a connection holds
    replay,       \* the rest of its list(self.progress_log) snapshot
    queue,        \* its asyncio.Queue
    got           \* the events it has sent to the client

runVars == <<log, terminal, age>>
connVars == <<phase, reading, replay, got>>
vars == <<log, terminal, age, subscribers, registered, runner, phase,
          reading, replay, queue, got>>

Init ==
    /\ log = [r \in Runs |-> <<>>]
    /\ terminal = [r \in Runs |-> NoEvent]
    /\ age = [r \in Runs |-> 0]
    /\ subscribers = [r \in Runs |-> {}]
    /\ registered = {}
    /\ runner = [r \in Runs |-> "unborn"]
    /\ phase = [c \in Clients |-> "off"]
    /\ reading = [c \in Clients |-> NoRun]
    /\ replay = [c \in Clients |-> <<>>]
    /\ queue = [c \in Clients |-> <<>>]
    /\ got = [c \in Clients |-> <<>>]

-----------------------------------------------------------------------------
(* StreamRun.emit and the runner.                                          *)

\* Mutant of Emit: a terminal event is not put on the queues.
Emit_EndNotQueued(r, e) ==
    /\ terminal[r] = NoEvent
    /\ log' = [log EXCEPT ![r] = Append(@, e)]
    /\ terminal' = [terminal EXCEPT ![r] = IF e \in Ends THEN e ELSE @]
    /\ UNCHANGED age
    /\ queue' = [c \in Clients |-> IF c \in subscribers[r] /\ e \notin Ends
                                   THEN Append(queue[c], e) ELSE queue[c]]

\* emit(): drop everything after the terminal event; otherwise log the event,
\* note a terminal, and put it on the queue of every subscriber.
Emit(r, e) ==
    IF terminal[r] # NoEvent
    THEN UNCHANGED <<log, terminal, age, queue>>
    ELSE /\ log' = [log EXCEPT ![r] = Append(@, e)]
         /\ terminal' = [terminal EXCEPT ![r] = IF e \in Ends THEN e ELSE @]
         /\ UNCHANGED age
         /\ queue' = [c \in Clients |-> IF c \in subscribers[r]
                                        THEN Append(queue[c], e)
                                        ELSE queue[c]]

\* progress_cb: called by the runner, or by a straggler it left behind
\* after it returned.
Progress(r, t) ==
    /\ runner[r] # "unborn"
    /\ Len(log[r]) < MaxEvents
    /\ Emit(r, t)
    /\ UNCHANGED <<subscribers, registered, runner, connVars>>

\* The runner returns: done_payload(result) is computed and done is emitted.
RunnerReturns(r) ==
    /\ runner[r] = "running"
    /\ runner' = [runner EXCEPT ![r] = "returned"]
    /\ Emit(r, "done")
    /\ UNCHANGED <<subscribers, registered, connVars>>

\* The runner raises: error is emitted before the exception is re-raised.
RunnerRaises(r) ==
    /\ runner[r] = "running"
    /\ runner' = [runner EXCEPT ![r] = "raised"]
    /\ Emit(r, "error")
    /\ UNCHANGED <<subscribers, registered, connVars>>

\* The runner returns but done_payload(result) raises: that call is outside
\* the try block, so nothing is emitted.
PayloadRaises(r) ==
    /\ runner[r] = "running"
    /\ runner' = [runner EXCEPT ![r] = "returned"]
    /\ UNCHANGED <<runVars, queue, subscribers, registered, connVars>>

-----------------------------------------------------------------------------
(* StreamRegistry.                                                         *)

\* sweep(): the runs evicted are those that terminated more than ttl ago.
Stale(runs) == {r \in runs : terminal[r] # NoEvent /\ age[r] > Ttl}

\* start(): register the new run, then sweep; start_and_stream attaches the
\* response that will read it to the connection that asked.
Start(r, c) ==
    /\ runner[r] = "unborn"
    /\ phase[c] = "off"
    /\ registered' = (registered \cup {r}) \ Stale(registered \cup {r})
    /\ runner' = [runner EXCEPT ![r] = "running"]
    /\ phase' = [phase EXCEPT ![c] = "opening"]
    /\ reading' = [reading EXCEPT ![c] = r]
    /\ UNCHANGED <<runVars, subscribers, replay, queue, got>>

\* GET /agent-streams/{stream_id}: sweep, then look the run up.
Reconnect(c, r) ==
    /\ phase[c] = "off"
    /\ runner[r] # "unborn"
    /\ registered' = registered \ Stale(registered)
    /\ IF r \in registered'
       THEN /\ phase' = [phase EXCEPT ![c] = "opening"]
            /\ reading' = [reading EXCEPT ![c] = r]
       ELSE UNCHANGED <<phase, reading>>       \* 404
    /\ UNCHANGED <<runVars, subscribers, runner, replay, queue, got>>

\* Time passes for the terminated runs.
Tick ==
    /\ \E r \in Runs : terminal[r] # NoEvent /\ age[r] <= Ttl
    /\ age' = [r \in Runs |-> IF terminal[r] # NoEvent /\ age[r] <= Ttl
                              THEN age[r] + 1 ELSE age[r]]
    /\ UNCHANGED <<log, terminal, subscribers, registered, runner, queue,
                   connVars>>

-----------------------------------------------------------------------------
(* StreamRun.subscribe, the generator behind a connection.                 *)

\* Mutant of Subscribe: no replay of what was logged before.
Subscribe_NoSnapshot(c) ==
    /\ phase[c] = "opening"
    /\ phase' = [phase EXCEPT ![c] = "replaying"]
    /\ subscribers' = [subscribers EXCEPT ![reading[c]] = @ \cup {c}]
    /\ queue' = [queue EXCEPT ![c] = <<>>]
    /\ UNCHANGED <<runVars, registered, runner, reading, got, replay>>

\* Up to the first yield: register a new queue, snapshot the log.
Subscribe(c) ==
    /\ phase[c] = "opening"
    /\ phase' = [phase EXCEPT ![c] = "replaying"]
    /\ subscribers' = [subscribers EXCEPT ![reading[c]] = @ \cup {c}]
    /\ queue' = [queue EXCEPT ![c] = <<>>]
    /\ replay' = [replay EXCEPT ![c] = log[reading[c]]]
    /\ UNCHANGED <<runVars, registered, runner, reading, got>>

\* The generator returns after it yielded a terminal event, and its finally
\* block takes its queue out of the subscribers.
Sent(c, e) ==
    /\ got' = [got EXCEPT ![c] = Append(@, e)]
    /\ IF e \in Ends
       THEN /\ phase' = [phase EXCEPT ![c] = "complete"]
            /\ subscribers' = [subscribers EXCEPT ![reading[c]] = @ \ {c}]
       ELSE UNCHANGED <<phase, subscribers>>
    /\ UNCHANGED <<runVars, registered, runner, reading>>

YieldReplay(c) ==
    /\ phase[c] = "replaying"
    /\ replay[c] # <<>>
    /\ replay' = [replay EXCEPT ![c] = Tail(@)]
    /\ UNCHANGED queue
    /\ Sent(c, Head(replay[c]))

\* Mutant of YieldLive: live events overtake the replay.
YieldLive_Overtakes(c) ==
    /\ phase[c] = "replaying"
    /\ queue[c] # <<>>
    /\ queue' = [queue EXCEPT ![c] = Tail(@)]
    /\ UNCHANGED replay
    /\ Sent(c, Head(queue[c]))

\* q.get(), once the snapshot is exhausted.
YieldLive(c) ==
    /\ phase[c] = "replaying"
    /\ replay[c] = <<>>
    /\ queue[c] # <<>>
    /\ queue' = [queue EXCEPT ![c] = Tail(@)]
    /\ UNCHANGED replay
    /\ Sent(c, Head(queue[c]))

\* The client goes away (before or during the stream, or after its end): the
\* generator is closed, and its finally block runs.
Disconnect(c) ==
    /\ phase[c] # "off"
    /\ phase' = [phase EXCEPT ![c] = "off"]
    /\ subscribers' = [subscribers EXCEPT ![reading[c]] = @ \ {c}]
    /\ reading' = [reading EXCEPT ![c] = NoRun]
    /\ replay' = [replay EXCEPT ![c] = <<>>]
    /\ queue' = [queue EXCEPT ![c] = <<>>]
    /\ got' = [got EXCEPT ![c] = <<>>]
    /\ UNCHANGED <<runVars, registered, runner>>

-----------------------------------------------------------------------------
RunStep(r) ==
    \/ \E t \in Texts : Progress(r, t)
    \/ RunnerReturns(r)
    \/ RunnerRaises(r)
    \/ PayloadRaises(r)

ConnStep(c) == Subscribe(c) \/ YieldReplay(c) \/ YieldLive(c)

Next ==
    \/ \E r \in Runs : RunStep(r)
    \/ \E c \in Clients, r \in Runs : Start(r, c) \/ Reconnect(c, r)
    \/ \E c \in Clients : ConnStep(c) \/ Disconnect(c)
    \/ Tick

\* The event loop keeps running a generator that has something to send, and a
\* runner, which is bounded by its own timeouts, comes to an end.
Fairness ==
    /\ \A c \in Clients : WF_vars(ConnStep(c))
    /\ \A r \in Runs : WF_vars(RunnerReturns(r) \/ RunnerRaises(r)
                                                \/ PayloadRaises(r))

Spec == Init /\ [][Next]_vars
FairSpec == Spec /\ Fairness
-----------------------------------------------------------------------------
TypeOK ==
    /\ log \in [Runs -> Seq(Events)]
    /\ terminal \in [Runs -> Ends \cup {NoEvent}]
    /\ age \in [Runs -> 0..(Ttl + 1)]
    /\ subscribers \in [Runs -> SUBSET Clients]
    /\ registered \in SUBSET Runs
    /\ runner \in [Runs -> {"unborn", "running", "returned", "raised"}]
    /\ phase \in [Clients -> {"off", "opening", "replaying", "complete"}]
    /\ reading \in [Clients -> Runs \cup {NoRun}]
    /\ replay \in [Clients -> Seq(Events)]
    /\ queue \in [Clients -> Seq(Events)]
    /\ got \in [Clients -> Seq(Events)]

\* A connection never loses, repeats or reorders an event: what it has sent,
\* what is left of its snapshot and what waits in its queue are together the
\* log of its run, whatever was emitted between the snapshot, the replay and
\* the live tail of StreamRun.subscribe.
FeedIsComplete ==
    \A c \in Clients : phase[c] = "replaying" =>
        got[c] \o (replay[c] \o queue[c]) = log[reading[c]]

\* A connection whose generator ended by itself has sent the whole log of its
\* run, and the log ends with the terminal event.
CompleteMeansWhole ==
    \A c \in Clients : phase[c] = "complete" =>
        /\ got[c] = log[reading[c]]
        /\ terminal[reading[c]] # NoEvent

\* emit() ends a log once: an event is terminal iff it is the last one of a
\* run whose terminal field is set, however late a straggler reports.
TerminalIsLast ==
    \A r \in Runs : \A i \in 1..Len(log[r]) :
        log[r][i] \in Ends <=> (i = Len(log[r]) /\ terminal[r] # NoEvent)

\* sweep() never evicts a run that a client could still be waiting for, so an
\* in-flight run can always be reconnected to by its stream id.
InFlightIsFindable ==
    \A r \in Runs : runner[r] = "running" => r \in registered

\* Once its run has a terminal event, a connection that stays open reaches
\* the end of the stream.
OpenStreamsEnd ==
    \A c \in Clients : \A r \in Runs :
        (phase[c] \in {"opening", "replaying"} /\ reading[c] = r
            /\ terminal[r] # NoEvent)
        ~> phase[c] \in {"complete", "off"}

\* The registry implements the reader's view of it: an append-only log read
\* from the start.
Readers == INSTANCE StreamLog WITH findable <- registered
StreamLogSpec == Readers!LogSpec
=============================================================================

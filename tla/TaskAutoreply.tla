--------------------------- MODULE TaskAutoreply ---------------------------
(***************************************************************************)
(* The agent's answers to messages of tenants and vendors on a task:       *)
(* agent_task_autoreply of handlers/chat.py, called by the reply scanner   *)
(* (handlers/reply_scanner.py) and by the threads that the portals start   *)
(* (handlers/portals/_common.py).                                          *)
(*                                                                         *)
(* A run is skipped when the task's context has the hash its last run      *)
(* left.  The hash and the lock of a task live in the memory of one        *)
(* instance; the scanner runs on the instance that holds its lease; a      *)
(* portal's thread on the instance that served the request.                *)
(*                                                                         *)
(* A task has one external conversation here.  The hash is the tuple it is *)
(* computed from: it changes whenever that changes.  The agent's answer    *)
(* goes to the task's AI conversation; it writes to the external one only  *)
(* through its tools.                                                      *)
(***************************************************************************)
EXTENDS Naturals, FiniteSets, FiniteSetsExt

CONSTANTS Tasks, Instances,
          MaxIn,        \* bound: messages of outsiders per task
          MaxOut,       \* bound: our messages to them per task
          MaxEdits,     \* bound: other changes of a task's context
          MaxAnswers,   \* bound: answers of the agent per task
          MaxFaults     \* bound: restarts of an instance, lost hashes

ASSUME AutoreplyAssumption ==
    /\ Instances # {}
    /\ {MaxIn, MaxOut, MaxEdits, MaxAnswers, MaxFaults} \subseteq Nat

VARIABLES
    auto,     \* auto[t]: the task is active and in autonomous mode
    in,       \* in[t]: number of messages from outside
    out,      \* out[t]: number of our messages in the external conversation
    last,     \* last[t]: who wrote the last of them
    ai,       \* ai[t]: answers stored in the AI conversation
    rest,     \* rest[t]: status, steps, context, pending suggestions
    typing,   \* typing[t]: the indicator on the external conversation
    known,    \* known[i][t]: the hash in instance i's memory
    run,      \* run[i][t]: the run that holds the task's lock on instance i
    threads,  \* threads[i][t]: portal threads about to trigger a run
    leader,   \* instance whose reply scanner is running
    scan,     \* the scan under way: tasks left, and the one it waits for
    edits,    \* edits[t]: changes of auto and rest so far
    faults,   \* restarts and lost hashes so far
    heard,    \* history: messages that a run which answered had read
    calm,     \* history: number of the last message that met no run
    left      \* history: tasks whose indicator a run has left on

vars == <<auto, in, out, last, ai, rest, typing, known, run, threads, leader,
          scan, edits, faults, heard, calm, left>>
task == <<auto, in, out, last, ai, rest, typing>>
memory == <<known, run, threads>>
scanner == <<leader, scan>>
history == <<edits, faults, heard, calm, left>>

NoHash == <<>>
NoRun == [phase |-> "none"]
Nobody == "nobody"
IdleScan == [todo |-> {}, waits |-> Nobody]

\* _compute_autoreply_hash
Context(t) == <<auto[t], rest[t], ai[t], in[t] + out[t]>>

Init ==
    /\ auto \in [Tasks -> BOOLEAN]
    /\ in = [t \in Tasks |-> 0]
    /\ out = [t \in Tasks |-> 0]
    /\ last = [t \in Tasks |-> Nobody]
    /\ ai = [t \in Tasks |-> 0]
    /\ rest = [t \in Tasks |-> FALSE]
    /\ typing = [t \in Tasks |-> FALSE]
    /\ known = [i \in Instances |-> [t \in Tasks |-> NoHash]]
    /\ run = [i \in Instances |-> [t \in Tasks |-> NoRun]]
    /\ threads = [i \in Instances |-> [t \in Tasks |-> 0]]
    /\ leader \in Instances
    /\ scan = IdleScan
    /\ edits = [t \in Tasks |-> 0]
    /\ faults = 0
    /\ heard = [t \in Tasks |-> 0]
    /\ calm = [t \in Tasks |-> 0]
    /\ left = {}

-----------------------------------------------------------------------------
(* What others do to a task.                                               *)

Reading(i, t) == run[i][t].phase \in {"running", "replied"}

\* A message by SMS, or by a portal, which then starts a thread.
Arrive(t, portals) ==
    /\ in[t] < MaxIn
    /\ in' = [in EXCEPT ![t] = @ + 1]
    /\ last' = [last EXCEPT ![t] = "person"]
    /\ threads' = [i \in Instances |->
                     [threads[i] EXCEPT ![t] = IF i \in portals THEN @ + 1 ELSE @]]
    /\ calm' = IF \E i \in Instances : Reading(i, t) THEN calm
               ELSE [calm EXCEPT ![t] = in[t] + 1]
    /\ UNCHANGED <<auto, out, ai, rest, typing, known, run, scanner, edits,
                   faults, heard, left>>

\* The manager writes to the outsider.
ManagerWrites(t) ==
    /\ out[t] < MaxOut
    /\ out' = [out EXCEPT ![t] = @ + 1]
    /\ last' = [last EXCEPT ![t] = "us"]
    /\ UNCHANGED <<auto, in, ai, rest, typing, memory, scanner, history>>

\* The manager or the agent changes the task, or changes it back.
Edit(t) ==
    /\ edits[t] < MaxEdits
    /\ edits' = [edits EXCEPT ![t] = @ + 1]
    /\ \/ auto' = [auto EXCEPT ![t] = ~@] /\ UNCHANGED rest
       \/ rest' = [rest EXCEPT ![t] = ~@] /\ UNCHANGED auto
    /\ UNCHANGED <<in, out, last, ai, typing, memory, scanner, faults, heard,
                   calm, left>>

-----------------------------------------------------------------------------
(* agent_task_autoreply.                                                   *)

\* The lock is free and the context is not the one of the last run.
Begins(i, t) == run[i][t] = NoRun /\ known[i][t] # Context(t)

Called(i, t, by) ==
    IF Begins(i, t)
    THEN run' = [run EXCEPT ![i][t] =
                   [phase |-> "hashed", by |-> by, start |-> Context(t), seen |-> 0]]
    ELSE UNCHANGED run

\* The indicator is set and the context built, after the hash was computed.
Load(i, t) ==
    /\ run[i][t].phase = "hashed"
    /\ run' = [run EXCEPT ![i][t] = [phase |-> "running", by |-> @.by,
                                     start |-> @.start, seen |-> in[t]]]
    /\ typing' = [typing EXCEPT ![t] = TRUE]
    /\ UNCHANGED <<auto, in, out, last, ai, rest, known, threads, scanner, history>>

\* clear_typing_indicator
Clears(t) ==
    /\ typing' = [typing EXCEPT ![t] = FALSE]
    /\ left' = left \ {t}

\* A run goes without clearing the indicator it has set.
LeavesOn(i, t) ==
    /\ left' = IF Reading(i, t) /\ typing[t] THEN left \cup {t} ELSE left
    /\ UNCHANGED typing

\* Once the answer is written, or was to be, a clearing that raises is passed
\* over.
TriesToClear(i, t) == Clears(t) \/ LeavesOn(i, t)

\* The agent sends a message to the outsider: send_autonomous_message.
AgentWrites(i, t) ==
    /\ run[i][t].phase = "running"
    /\ out[t] < MaxOut
    /\ out' = [out EXCEPT ![t] = @ + 1]
    /\ last' = [last EXCEPT ![t] = "us"]
    /\ Clears(t)
    /\ UNCHANGED <<auto, in, ai, rest, memory, scanner, edits, faults, heard, calm>>

\* Mutant of Ends: the scan goes on waiting.
Ends_StillWaits(i, t) ==
    /\ run' = [run EXCEPT ![i][t] = NoRun]
    /\ UNCHANGED <<auto, in, out, last, rest, threads, scanner, edits, calm>>

\* The run is over and its lock is free; a scan that waited for it goes on.
Ends(i, t) ==
    /\ run' = [run EXCEPT ![i][t] = NoRun]
    /\ scan' = IF run[i][t].by = "scanner" THEN [scan EXCEPT !.waits = Nobody]
               ELSE scan
    /\ UNCHANGED <<auto, in, out, last, rest, threads, leader, edits, calm>>

Hears(i, t) == heard' = [heard EXCEPT ![t] = Max({@, run[i][t].seen})]

\* Mutant of NoResponse: the indicator is left on.
NoResponse_Typing(i, t) ==
    /\ run[i][t].phase = "running"
    /\ known' = [known EXCEPT ![i][t] = run[i][t].start]
    /\ Hears(i, t)
    /\ Ends(i, t)
    /\ UNCHANGED <<ai, typing, faults, left>>

\* "[NO_RESPONSE]": the hash is the one computed before the run.
NoResponse(i, t) ==
    /\ run[i][t].phase = "running"
    /\ known' = [known EXCEPT ![i][t] = run[i][t].start]
    /\ Clears(t)
    /\ Hears(i, t)
    /\ Ends(i, t)
    /\ UNCHANGED <<ai, faults>>

\* The answer is committed.
Reply(i, t) ==
    /\ run[i][t].phase = "running"
    /\ ai[t] < MaxAnswers
    /\ ai' = [ai EXCEPT ![t] = @ + 1]
    /\ run' = [run EXCEPT ![i][t].phase = "replied"]
    /\ Hears(i, t)
    /\ UNCHANGED <<auto, in, out, last, rest, typing, known, threads, scanner,
                   edits, faults, calm, left>>

\* Mutant of Settle: the answer itself is not part of the hash that is kept.
Settle_Start(i, t) ==
    /\ run[i][t].phase = "replied"
    /\ known' = [known EXCEPT ![i][t] = run[i][t].start]
    /\ TriesToClear(i, t)
    /\ Ends(i, t)
    /\ UNCHANGED <<ai, faults, heard>>

\* After an answer the hash is computed again.
Settle(i, t) ==
    /\ run[i][t].phase = "replied"
    /\ known' = [known EXCEPT ![i][t] = Context(t)]
    /\ TriesToClear(i, t)
    /\ Ends(i, t)
    /\ UNCHANGED <<ai, faults, heard>>

\* Computing it raises, which is passed over.
HashLost(i, t) ==
    /\ run[i][t].phase = "replied"
    /\ faults < MaxFaults
    /\ faults' = faults + 1
    /\ TriesToClear(i, t)
    /\ Ends(i, t)
    /\ UNCHANGED <<ai, known, heard>>

\* The answer could not be written.
WriteFails(i, t) ==
    /\ run[i][t].phase = "running"
    /\ TriesToClear(i, t)
    /\ Ends(i, t)
    /\ UNCHANGED <<ai, known, faults, heard>>

\* Mutant of Fails: a run that failed leaves its hash as well.
Fails_Remembered(i, t) ==
    /\ run[i][t].phase \in {"hashed", "running"}
    /\ known' = [known EXCEPT ![i][t] = run[i][t].start]
    /\ LeavesOn(i, t)
    /\ Ends(i, t)
    /\ UNCHANGED <<ai, faults, heard>>

\* An error, the clearing after "[NO_RESPONSE]" among them, no answer, or one that
\* came after the timeout: the executor waits for the thread all the same.  The
\* indicator stays on.
Fails(i, t) ==
    /\ run[i][t].phase \in {"hashed", "running"}
    /\ LeavesOn(i, t)
    /\ Ends(i, t)
    /\ UNCHANGED <<ai, known, faults, heard>>

-----------------------------------------------------------------------------
(* The callers.                                                            *)

\* A portal's thread; it is gone when the lock is taken.
PortalCall(i, t) ==
    /\ threads[i][t] > 0
    /\ threads' = [threads EXCEPT ![i][t] = @ - 1]
    /\ Called(i, t, "portal")
    /\ UNCHANGED <<task, known, scanner, history>>

\* The tasks are loaded once per scan.
ScanStart ==
    /\ scan = IdleScan
    /\ scan' = [scan EXCEPT !.todo = {t \in Tasks : auto[t]}]
    /\ scan'.todo # {}
    /\ UNCHANGED <<task, memory, leader, history>>

\* A task at a time; the last message is looked up when its turn comes.
ScanTask(t) ==
    /\ t \in scan.todo /\ scan.waits = Nobody
    /\ scan' = [todo |-> scan.todo \ {t},
                waits |-> IF last[t] = "person" /\ Begins(leader, t) THEN t ELSE Nobody]
    /\ IF last[t] = "person" THEN Called(leader, t, "scanner") ELSE UNCHANGED run
    /\ UNCHANGED <<task, known, threads, leader, history>>

\* An instance restarts; if it held the lease, some instance takes it.
Crash(i) ==
    /\ faults < MaxFaults
    /\ faults' = faults + 1
    /\ known' = [known EXCEPT ![i] = [t \in Tasks |-> NoHash]]
    /\ run' = [run EXCEPT ![i] = [t \in Tasks |-> NoRun]]
    /\ threads' = [threads EXCEPT ![i] = [t \in Tasks |-> 0]]
    /\ IF i = leader THEN leader' \in Instances /\ scan' = IdleScan
       ELSE UNCHANGED scanner
    /\ left' = left \cup {t \in Tasks : Reading(i, t) /\ typing[t]}
    /\ UNCHANGED <<task, edits, heard, calm>>

RunEnds(i, t) ==
    NoResponse(i, t) \/ Settle(i, t) \/ HashLost(i, t) \/ WriteFails(i, t) \/ Fails(i, t)

RunStep(i, t) == Load(i, t) \/ AgentWrites(i, t) \/ Reply(i, t) \/ RunEnds(i, t)

ScanStep == ScanStart \/ \E t \in Tasks : ScanTask(t)

Next ==
    \/ \E t \in Tasks : ManagerWrites(t) \/ Edit(t) \/ Arrive(t, {})
    \/ \E i \in Instances, t \in Tasks :
          Arrive(t, {i}) \/ PortalCall(i, t) \/ RunStep(i, t)
    \/ ScanStep
    \/ \E i \in Instances : Crash(i)

Spec == Init /\ [][Next]_vars

\* The scanner polls for ever; the agent's turns and its calls to the model are
\* bounded, so a run ends, well or badly.
FairSpec ==
    /\ Spec
    /\ WF_vars(ScanStep)
    /\ \A i \in Instances, t \in Tasks : WF_vars(Load(i, t) \/ RunEnds(i, t))
-----------------------------------------------------------------------------
Hashes == BOOLEAN \X BOOLEAN \X (0..MaxAnswers) \X (0..(MaxIn + MaxOut))
RunType == [phase : {"hashed", "running", "replied"}, by : {"scanner", "portal"},
            start : Hashes, seen : 0..MaxIn]

TypeOK ==
    /\ auto \in [Tasks -> BOOLEAN] /\ rest \in [Tasks -> BOOLEAN]
    /\ in \in [Tasks -> 0..MaxIn] /\ out \in [Tasks -> 0..MaxOut]
    /\ last \in [Tasks -> {Nobody, "person", "us"}]
    /\ ai \in [Tasks -> 0..MaxAnswers]
    /\ typing \in [Tasks -> BOOLEAN]
    /\ known \in [Instances -> [Tasks -> Hashes \cup {NoHash}]]
    /\ run \in [Instances -> [Tasks -> RunType \cup {NoRun}]]
    /\ threads \in [Instances -> [Tasks -> 0..MaxIn]]
    /\ leader \in Instances
    /\ scan \in [todo : SUBSET Tasks, waits : Tasks \cup {Nobody}]
    /\ scan.waits # Nobody => run[leader][scan.waits] # NoRun
    /\ edits \in [Tasks -> 0..MaxEdits] /\ faults \in 0..MaxFaults
    /\ heard \in [Tasks -> 0..MaxIn] /\ calm \in [Tasks -> 0..MaxIn]
    /\ left \subseteq Tasks

\* The hash that makes an instance skip a task never hides a message that came
\* while no run was under way: a run that answered, or chose not to, had it.
SkippedWasHeard ==
    \A i \in Instances, t \in Tasks :
        known[i][t] = Context(t) => calm[t] <= heard[t]

\* The agent does not talk to itself: on one instance each answer has a cause of
\* its own, a message, a change of the task or a lost hash, though the scanner
\* finds the outsider's message to be the last one again and again.
AnswersHaveCause ==
    \A t \in Tasks : ai[t] <= in[t] + out[t] + edits[t] + faults

\* "... is typing" is shown during a run.  After it the indicator is on only if a
\* run failed or could not clear it, and none has cleared it since, whichever
\* instances run at the same time.
TypingIsExplained ==
    \A t \in Tasks : (typing[t] /\ t \notin left)
        => \E i \in Instances : Reading(i, t)

\* A last word that the scanner's instance has not dealt with gets a run, however
\* long the other tasks' runs take.
Waiting(t) == auto[t] /\ last[t] = "person" /\ known[leader][t] # Context(t)
WaitingIsServed ==
    \A t \in Tasks : Waiting(t) ~> (run[leader][t] # NoRun \/ ~Waiting(t))
=============================================================================

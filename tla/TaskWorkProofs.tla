--------------------------- MODULE TaskWorkProofs ---------------------------
(***************************************************************************)
(* Proofs about the agent's own work on tasks, for any tasks, instances    *)
(* and bounds: its answers to messages (TaskAutoreply) and its reviews     *)
(* (TaskReview).  The two have no state in common.                         *)
(***************************************************************************)
EXTENDS TaskAutoreply, TaskReview, FiniteSetTheorems, TLAPS

Talk(t) == in[t] + out[t]
RunPhases == {"hashed", "running", "replied"}

\* The types of the state; a portal's thread stands for a message.
Typed ==
    /\ auto \in [Tasks -> BOOLEAN] /\ rest \in [Tasks -> BOOLEAN]
    /\ in \in [Tasks -> 0..MaxIn] /\ out \in [Tasks -> 0..MaxOut]
    /\ last \in [Tasks -> {Nobody, "person", "us"}]
    /\ ai \in [Tasks -> 0..MaxAnswers]
    /\ typing \in [Tasks -> BOOLEAN]
    /\ known \in [Instances -> [Tasks -> Hashes \cup {NoHash}]]
    /\ run \in [Instances -> [Tasks -> RunType \cup {NoRun}]]
    /\ threads \in [Instances -> [Tasks -> Nat]]
    /\ \A i \in Instances, t \in Tasks : threads[i][t] <= in[t]
    /\ leader \in Instances
    /\ scan \in [todo : SUBSET Tasks, waits : Tasks \cup {Nobody}]
    /\ edits \in [Tasks -> 0..MaxEdits] /\ faults \in 0..MaxFaults
    /\ heard \in [Tasks -> 0..MaxIn] /\ calm \in [Tasks -> 0..MaxIn]
    /\ left \subseteq Tasks

\* The scan waits for a run of its own, on its instance.
Waits ==
    scan.waits # Nobody =>
        run[leader][scan.waits] # NoRun /\ run[leader][scan.waits].by = "scanner"

\* Hashes are of the past: one with today's number of messages was left by a run
\* that had read the last message that met no run.
HashGood(i, t) ==
    known[i][t] # NoHash =>
        /\ known[i][t][4] <= Talk(t)
        /\ known[i][t][4] = Talk(t) => calm[t] <= heard[t]
RunGood(i, t) ==
    /\ run[i][t] # NoRun => run[i][t].start[4] <= Talk(t)
    /\ Reading(i, t) => calm[t] <= run[i][t].seen
    /\ run[i][t].phase = "replied" => calm[t] <= heard[t]
Remembered ==
    /\ \A t \in Tasks : calm[t] <= in[t]
    /\ \A i \in Instances, t \in Tasks : HashGood(i, t) /\ RunGood(i, t)

-----------------------------------------------------------------------------
(* Runs and hashes.                                                        *)

LEMMA Bounds ==
    /\ MaxIn \in Nat /\ MaxOut \in Nat /\ MaxEdits \in Nat
    /\ MaxAnswers \in Nat /\ MaxFaults \in Nat
  BY AutoreplyAssumption

LEMMA ContextType ==
    ASSUME Typed, NEW t \in Tasks
    PROVE  /\ Context(t) \in Hashes /\ Context(t)[4] = Talk(t)
           /\ Context(t) # NoHash /\ Talk(t) \in Nat
<1>1. /\ auto[t] \in BOOLEAN /\ rest[t] \in BOOLEAN /\ ai[t] \in 0..MaxAnswers
      /\ in[t] \in 0..MaxIn /\ out[t] \in 0..MaxOut
  BY DEF Typed
<1>2. Talk(t) \in 0..(MaxIn + MaxOut)  BY <1>1, Bounds DEF Talk
<1>3. Context(t) = <<auto[t], rest[t], ai[t], Talk(t)>>
  BY DEF Context, Talk
<1> QED  BY <1>1, <1>2, <1>3 DEF Hashes, NoHash

LEMMA HashType ==
    ASSUME NEW h \in Hashes
    PROVE  h[4] \in Nat /\ h # NoHash
<1>1. PICK a \in BOOLEAN, b \in BOOLEAN, c \in 0..MaxAnswers,
           d \in 0..(MaxIn + MaxOut) : h = <<a, b, c, d>>
  BY DEF Hashes
<1>2. h[4] = d /\ d \in Nat  BY <1>1, Bounds
<1>3. h # NoHash  BY <1>1 DEF NoHash
<1> QED  BY <1>2, <1>3

LEMMA RunFacts ==
    ASSUME NEW r \in RunType
    PROVE  /\ r # NoRun /\ r.phase \in RunPhases /\ r.by \in {"scanner", "portal"}
           /\ r.start \in Hashes /\ r.seen \in 0..MaxIn
  BY DEF RunType, NoRun, RunPhases

LEMMA NoRunFacts == NoRun.phase = "none" /\ NoRun \notin RunType
  BY DEF NoRun, RunType

\* One run changes.
Turn(i, t, r) == run' = [run EXCEPT ![i][t] = r]

LEMMA TurnFacts ==
    ASSUME Typed, NEW i \in Instances, NEW t \in Tasks,
           NEW r \in RunType \cup {NoRun}, Turn(i, t, r)
    PROVE  /\ run' \in [Instances -> [Tasks -> RunType \cup {NoRun}]]
           /\ run'[i][t] = r
           /\ \A k \in Instances, u \in Tasks :
                 k # i \/ u # t => run'[k][u] = run[k][u]
  BY DEF Typed, Turn

\* A trigger begins a run or changes nothing.
LEMMA CalledFacts ==
    ASSUME Typed, NEW i \in Instances, NEW t \in Tasks,
           NEW by \in {"scanner", "portal"}, Called(i, t, by)
    PROVE  \/ ~Begins(i, t) /\ run' = run
           \/ /\ Begins(i, t)
              /\ \E r \in RunType :
                    /\ Turn(i, t, r) /\ r.phase = "hashed" /\ r.by = by
                    /\ r.start = Context(t)
<1>1. CASE ~Begins(i, t)  BY <1>1 DEF Called
<1>2. CASE Begins(i, t)
  <2> DEFINE r == [phase |-> "hashed", by |-> by, start |-> Context(t), seen |-> 0]
  <2>1. r \in RunType  BY ContextType, Bounds DEF RunType
  <2>2. Turn(i, t, r)  BY <1>2 DEF Called, Turn
  <2> QED  BY <1>2, <2>1, <2>2
<1> QED  BY <1>1, <1>2

LEMMA LoadFacts ==
    ASSUME Typed, NEW i \in Instances, NEW t \in Tasks, Load(i, t)
    PROVE  \E r \in RunType :
              /\ Turn(i, t, r) /\ r.phase = "running" /\ r.by = run[i][t].by
              /\ r.start = run[i][t].start /\ r.seen = in[t]
<1> DEFINE r == [phase |-> "running", by |-> run[i][t].by,
                 start |-> run[i][t].start, seen |-> in[t]]
<1>1. run[i][t] \in RunType
  BY NoRunFacts DEF Load, Typed
<1>2. r \in RunType  BY <1>1 DEF RunType, Typed
<1>3. Turn(i, t, r)  BY DEF Load, Turn, Typed
<1> QED  BY <1>2, <1>3

LEMMA ReplyFacts ==
    ASSUME Typed, NEW i \in Instances, NEW t \in Tasks, Reply(i, t)
    PROVE  \E r \in RunType :
              /\ Turn(i, t, r) /\ r.phase = "replied" /\ r.by = run[i][t].by
              /\ r.start = run[i][t].start /\ r.seen = run[i][t].seen
<1> DEFINE r == [run[i][t] EXCEPT !.phase = "replied"]
<1>1. run[i][t] \in RunType
  BY NoRunFacts DEF Reply, Typed
<1>2. /\ r \in RunType /\ r.phase = "replied" /\ r.by = run[i][t].by
      /\ r.start = run[i][t].start /\ r.seen = run[i][t].seen
  BY <1>1 DEF RunType
<1>3. Turn(i, t, r)  BY DEF Reply, Turn
<1> QED  BY <1>2, <1>3

LEMMA HeardFacts ==
    ASSUME Typed, NEW i \in Instances, NEW t \in Tasks, run[i][t] # NoRun,
           Hears(i, t)
    PROVE  /\ heard' \in [Tasks -> 0..MaxIn]
           /\ \A u \in Tasks : heard[u] <= heard'[u]
           /\ run[i][t].seen <= heard'[t]
<1>1. run[i][t].seen \in 0..MaxIn /\ heard[t] \in 0..MaxIn
  BY RunFacts DEF Typed
<1>2. PICK m \in 0..MaxIn :
         /\ m = Max({heard[t], run[i][t].seen})
         /\ heard[t] <= m /\ run[i][t].seen <= m
  BY <1>1, Bounds DEF Max
<1>3. heard' = [heard EXCEPT ![t] = m]  BY <1>2 DEF Hears
<1>4. heard' \in [Tasks -> 0..MaxIn] /\ heard'[t] = m  BY <1>3 DEF Typed
<1>5. ASSUME NEW u \in Tasks PROVE heard[u] <= heard'[u]
  <2>1. heard[u] \in Nat  BY Bounds DEF Typed
  <2>2. CASE u = t  BY <1>2, <1>4, <2>2
  <2>3. CASE u # t  BY <1>3, <2>1, <2>3 DEF Typed
  <2> QED  BY <2>2, <2>3
<1> QED  BY <1>2, <1>4, <1>5

LEMMA ClearFacts ==
    ASSUME Typed, NEW i \in Instances, NEW t \in Tasks, TriesToClear(i, t)
    PROVE  /\ left' \subseteq Tasks /\ typing' \in [Tasks -> BOOLEAN]
           /\ \A u \in Tasks : typing'[u] => typing[u]
           /\ \A u \in left : typing'[u] => u \in left'
           /\ (Reading(i, t) /\ typing'[t]) => t \in left'
<1>1. CASE Clears(t)  BY <1>1 DEF Clears, Typed
<1>2. CASE LeavesOn(i, t)  BY <1>2 DEF LeavesOn, Typed
<1> QED  BY <1>1, <1>2 DEF TriesToClear

\* A run that ends, in whichever way.
LEMMA EndFacts ==
    ASSUME Typed, NEW i \in Instances, NEW t \in Tasks, RunEnds(i, t)
    PROVE  /\ run[i][t] \in RunType /\ Turn(i, t, NoRun)
           /\ UNCHANGED <<auto, in, out, last, rest, threads, leader, edits, calm, ai>>
           /\ scan' = IF run[i][t].by = "scanner" THEN [scan EXCEPT !.waits = Nobody]
                      ELSE scan
           /\ heard' \in [Tasks -> 0..MaxIn]
           /\ \A u \in Tasks : heard[u] <= heard'[u]
           /\ faults' \in 0..MaxFaults
           /\ left' \subseteq Tasks /\ typing' \in [Tasks -> BOOLEAN]
           /\ \A u \in Tasks : typing'[u] => typing[u]
           /\ \A u \in left : typing'[u] => u \in left'
           /\ (Reading(i, t) /\ typing'[t]) => t \in left'
           /\ \/ known' = known
              \/ /\ run[i][t].phase = "running" /\ run[i][t].seen <= heard'[t]
                 /\ known' = [known EXCEPT ![i][t] = run[i][t].start]
              \/ /\ run[i][t].phase = "replied"
                 /\ known' = [known EXCEPT ![i][t] = Context(t)]
<1>1. run[i][t] \in RunType
  BY NoRunFacts DEF RunEnds, NoResponse, Settle, HashLost, WriteFails, Fails, Typed
<1>2. run[i][t] # NoRun  BY <1>1, RunFacts
<1>3. Ends(i, t)
  BY DEF RunEnds, NoResponse, Settle, HashLost, WriteFails, Fails
<1>4. heard \in [Tasks -> 0..MaxIn] /\ \A u \in Tasks : heard[u] <= heard[u]
  BY Bounds DEF Typed
<1>5. TriesToClear(i, t)
  BY DEF RunEnds, NoResponse, Settle, HashLost, WriteFails, Fails, TriesToClear
<1>6. CASE NoResponse(i, t)
  BY <1>1, <1>2, <1>3, <1>5, <1>6, ClearFacts, HeardFacts
     DEF NoResponse, Ends, Turn, Typed
<1>7. CASE Settle(i, t)
  BY <1>1, <1>3, <1>4, <1>5, <1>7, ClearFacts DEF Settle, Ends, Turn, Typed
<1>8. CASE HashLost(i, t)
  BY <1>1, <1>3, <1>4, <1>5, <1>8, ClearFacts, Bounds
     DEF HashLost, Ends, Turn, Typed
<1>9. CASE WriteFails(i, t)
  BY <1>1, <1>3, <1>4, <1>5, <1>9, ClearFacts DEF WriteFails, Ends, Turn, Typed
<1>10. CASE Fails(i, t)
  BY <1>1, <1>3, <1>4, <1>5, <1>10, ClearFacts DEF Fails, Ends, Turn, Typed
<1> QED  BY <1>6, <1>7, <1>8, <1>9, <1>10 DEF RunEnds

-----------------------------------------------------------------------------
(* The types.                                                              *)

LEMMA TypedInit == Init => Typed /\ Waits
<1> SUFFICES ASSUME Init PROVE Typed /\ Waits
  OBVIOUS
<1>1. /\ auto \in [Tasks -> BOOLEAN] /\ rest \in [Tasks -> BOOLEAN]
      /\ in \in [Tasks -> 0..MaxIn] /\ out \in [Tasks -> 0..MaxOut]
      /\ last \in [Tasks -> {Nobody, "person", "us"}]
      /\ ai \in [Tasks -> 0..MaxAnswers] /\ typing \in [Tasks -> BOOLEAN]
      /\ edits \in [Tasks -> 0..MaxEdits] /\ faults \in 0..MaxFaults
      /\ heard \in [Tasks -> 0..MaxIn] /\ calm \in [Tasks -> 0..MaxIn]
      /\ left \subseteq Tasks
  BY Bounds DEF Init
<1>2. /\ known \in [Instances -> [Tasks -> Hashes \cup {NoHash}]]
      /\ run \in [Instances -> [Tasks -> RunType \cup {NoRun}]]
      /\ threads \in [Instances -> [Tasks -> Nat]]
      /\ \A i \in Instances, t \in Tasks : threads[i][t] <= in[t]
      /\ leader \in Instances
      /\ scan \in [todo : SUBSET Tasks, waits : Tasks \cup {Nobody}]
      /\ scan.waits = Nobody
  BY DEF Init, IdleScan
<1> QED  BY <1>1, <1>2 DEF Typed, Waits

LEMMA TypedArrive ==
    ASSUME Typed, Waits, NEW t \in Tasks, NEW portals, Arrive(t, portals)
    PROVE  Typed' /\ Waits'
<1>1. in' \in [Tasks -> 0..MaxIn] /\ \A u \in Tasks : in[u] <= in'[u]
      /\ in'[t] = in[t] + 1
  BY Bounds DEF Arrive, Typed
<1>2. last' \in [Tasks -> {Nobody, "person", "us"}]  BY DEF Arrive, Typed
<1>3. /\ threads' \in [Instances -> [Tasks -> Nat]]
      /\ \A k \in Instances, u \in Tasks :
            /\ u # t => threads'[k][u] = threads[k][u]
            /\ threads'[k][t] <= threads[k][t] + 1
  BY DEF Arrive, Typed
<1>4. ASSUME NEW k \in Instances, NEW u \in Tasks
      PROVE  threads'[k][u] <= in'[u]
  <2>1. /\ threads[k][u] \in Nat /\ threads'[k][u] \in Nat /\ in[u] \in Nat
        /\ in'[u] \in Nat /\ threads[k][u] <= in[u]
    BY <1>1, <1>3, Bounds DEF Typed
  <2>2. CASE u = t  BY <1>1, <1>3, <2>1, <2>2
  <2>3. CASE u # t  BY <1>1, <1>3, <2>1, <2>3
  <2> QED  BY <2>2, <2>3
<1>5. calm' \in [Tasks -> 0..MaxIn]
  <2>1. in[t] + 1 \in 0..MaxIn  BY Bounds DEF Arrive, Typed
  <2> QED  BY <2>1 DEF Arrive, Typed
<1>6. UNCHANGED <<auto, out, ai, rest, typing, known, run, leader, scan, edits,
                  faults, heard, left>>
  BY DEF Arrive, scanner
<1> QED  BY <1>1, <1>2, <1>3, <1>4, <1>5, <1>6 DEF Typed, Waits

LEMMA TypedOthers ==
    ASSUME Typed, Waits, NEW t \in Tasks, ManagerWrites(t) \/ Edit(t)
    PROVE  Typed' /\ Waits'
<1>1. UNCHANGED <<in, ai, typing, known, run, threads, leader, scan, faults, heard,
                  calm, left>>
  BY DEF ManagerWrites, Edit, memory, scanner, history
<1>2. /\ out' \in [Tasks -> 0..MaxOut] /\ edits' \in [Tasks -> 0..MaxEdits]
      /\ last' \in [Tasks -> {Nobody, "person", "us"}]
  <2>1. CASE ManagerWrites(t)
    BY <2>1, Bounds DEF ManagerWrites, history, Typed
  <2>2. CASE Edit(t)  BY <2>2, Bounds DEF Edit, Typed
  <2> QED  BY <2>1, <2>2
<1>3. auto' \in [Tasks -> BOOLEAN] /\ rest' \in [Tasks -> BOOLEAN]
  BY DEF ManagerWrites, Edit, Typed
<1> QED  BY <1>1, <1>2, <1>3 DEF Typed, Waits

\* A run that goes on keeps what the scan waits for.
LEMMA WaitsKept ==
    ASSUME Typed, Waits, NEW i \in Instances, NEW t \in Tasks, NEW r \in RunType,
           Turn(i, t, r), run[i][t] # NoRun => r.by = run[i][t].by,
           UNCHANGED <<leader, scan>>
    PROVE  Waits'
<1> SUFFICES ASSUME scan.waits # Nobody
             PROVE  /\ run'[leader][scan.waits] # NoRun
                    /\ run'[leader][scan.waits].by = "scanner"
  BY DEF Waits
<1>1. leader \in Instances /\ scan.waits \in Tasks  BY DEF Typed
<1>2. CASE leader = i /\ scan.waits = t
  BY <1>2, TurnFacts, RunFacts DEF Waits
<1>3. CASE ~(leader = i /\ scan.waits = t)
  BY <1>1, <1>3, TurnFacts DEF Waits
<1> QED  BY <1>2, <1>3

LEMMA TypedLoad ==
    ASSUME Typed, Waits, NEW i \in Instances, NEW t \in Tasks, Load(i, t)
    PROVE  Typed' /\ Waits'
<1>1. PICK r \in RunType : Turn(i, t, r) /\ r.by = run[i][t].by  BY LoadFacts
<1>2. run' \in [Instances -> [Tasks -> RunType \cup {NoRun}]]  BY <1>1, TurnFacts
<1>3. /\ typing' \in [Tasks -> BOOLEAN]
      /\ UNCHANGED <<auto, in, out, last, ai, rest, known, threads, leader, scan,
                     edits, faults, heard, calm, left>>
  BY DEF Load, scanner, history, Typed
<1>4. Waits'  BY <1>1, <1>3, WaitsKept
<1> QED  BY <1>2, <1>3, <1>4 DEF Typed

LEMMA TypedAgentWrites ==
    ASSUME Typed, Waits, NEW i \in Instances, NEW t \in Tasks, AgentWrites(i, t)
    PROVE  Typed' /\ Waits'
<1>1. /\ out' \in [Tasks -> 0..MaxOut] /\ typing' \in [Tasks -> BOOLEAN]
      /\ last' \in [Tasks -> {Nobody, "person", "us"}]
  BY Bounds DEF AgentWrites, Clears, Typed
<1>2. UNCHANGED <<auto, in, ai, rest, known, run, threads, leader, scan, edits,
                  faults, heard, calm>>
  BY DEF AgentWrites, memory, scanner
<1>3. left' \subseteq Tasks  BY DEF AgentWrites, Clears, Typed
<1> QED  BY <1>1, <1>2, <1>3 DEF Typed, Waits

LEMMA TypedReply ==
    ASSUME Typed, Waits, NEW i \in Instances, NEW t \in Tasks, Reply(i, t)
    PROVE  Typed' /\ Waits'
<1>1. PICK r \in RunType : Turn(i, t, r) /\ r.by = run[i][t].by  BY ReplyFacts
<1>2. run' \in [Instances -> [Tasks -> RunType \cup {NoRun}]]  BY <1>1, TurnFacts
<1>3. ai' \in [Tasks -> 0..MaxAnswers]  BY Bounds DEF Reply, Typed
<1>4. run[i][t] # NoRun  BY NoRunFacts DEF Reply
<1>5. heard' \in [Tasks -> 0..MaxIn]  BY <1>4, HeardFacts DEF Reply
<1>6. UNCHANGED <<auto, in, out, last, rest, typing, known, threads, leader, scan,
                  edits, faults, calm, left>>
  BY DEF Reply, scanner
<1>7. Waits'  BY <1>1, <1>6, WaitsKept
<1> QED  BY <1>2, <1>3, <1>5, <1>6, <1>7 DEF Typed

LEMMA TypedEnds ==
    ASSUME Typed, Waits, NEW i \in Instances, NEW t \in Tasks, RunEnds(i, t)
    PROVE  Typed' /\ Waits'
<1>1. /\ run[i][t] \in RunType /\ Turn(i, t, NoRun)
      /\ UNCHANGED <<auto, in, out, last, rest, threads, leader, edits, calm, ai>>
      /\ scan' = IF run[i][t].by = "scanner" THEN [scan EXCEPT !.waits = Nobody]
                 ELSE scan
      /\ heard' \in [Tasks -> 0..MaxIn] /\ faults' \in 0..MaxFaults
      /\ left' \subseteq Tasks /\ typing' \in [Tasks -> BOOLEAN]
  BY EndFacts
<1>2. /\ run' \in [Instances -> [Tasks -> RunType \cup {NoRun}]]
      /\ \A k \in Instances, u \in Tasks :
            k # i \/ u # t => run'[k][u] = run[k][u]
  BY <1>1, TurnFacts
<1>3. known' \in [Instances -> [Tasks -> Hashes \cup {NoHash}]]
  <2>1. run[i][t].start \in Hashes /\ Context(t) \in Hashes
    BY <1>1, RunFacts, ContextType
  <2>2. \/ known' = known
        \/ \E h \in Hashes : known' = [known EXCEPT ![i][t] = h]
    BY <2>1, EndFacts
  <2>3. CASE known' = known  BY <2>3 DEF Typed
  <2>4. ASSUME NEW h \in Hashes, known' = [known EXCEPT ![i][t] = h]
        PROVE  known' \in [Instances -> [Tasks -> Hashes \cup {NoHash}]]
    BY <2>4 DEF Typed
  <2> QED  BY <2>2, <2>3, <2>4
<1>4. scan' \in [todo : SUBSET Tasks, waits : Tasks \cup {Nobody}]
  BY <1>1 DEF Typed
<1>5. Waits'
  <2> SUFFICES ASSUME scan'.waits # Nobody
               PROVE  /\ run'[leader'][scan'.waits] # NoRun
                      /\ run'[leader'][scan'.waits].by = "scanner"
    BY DEF Waits
  <2>1. run[i][t].by # "scanner" /\ scan' = scan  BY <1>1 DEF Typed
  <2>2. leader \in Instances /\ scan.waits \in Tasks  BY <2>1 DEF Typed
  <2>3. ~(leader = i /\ scan.waits = t)  BY <2>1 DEF Waits
  <2> QED  BY <1>1, <1>2, <2>1, <2>2, <2>3 DEF Waits
<1> QED  BY <1>1, <1>2, <1>3, <1>4, <1>5 DEF Typed

LEMMA TypedPortal ==
    ASSUME Typed, Waits, NEW i \in Instances, NEW t \in Tasks, PortalCall(i, t)
    PROVE  Typed' /\ Waits'
<1>1. /\ threads' \in [Instances -> [Tasks -> Nat]]
      /\ \A k \in Instances, u \in Tasks : threads'[k][u] <= threads[k][u]
  BY DEF PortalCall, Typed
<1>2. \A k \in Instances, u \in Tasks : threads'[k][u] <= in[u]
  BY <1>1 DEF Typed
<1>3. UNCHANGED <<auto, in, out, last, ai, rest, typing, known, leader, scan, edits,
                  faults, heard, calm, left>>
  BY DEF PortalCall, task, scanner, history
<1>4. \/ run' = run
      \/ run[i][t] = NoRun /\ \E r \in RunType : Turn(i, t, r)
  BY CalledFacts DEF PortalCall, Begins
<1>5. run' \in [Instances -> [Tasks -> RunType \cup {NoRun}]]
  BY <1>4, TurnFacts DEF Typed
<1>6. Waits'
  <2>1. CASE run' = run  BY <1>3, <2>1 DEF Waits
  <2>2. CASE run[i][t] = NoRun /\ \E r \in RunType : Turn(i, t, r)
    BY <1>3, <2>2, WaitsKept
  <2> QED  BY <1>4, <2>1, <2>2
<1> QED  BY <1>1, <1>2, <1>3, <1>5, <1>6 DEF Typed

LEMMA TypedScan ==
    ASSUME Typed, Waits, ScanStep
    PROVE  Typed' /\ Waits'
<1>1. CASE ScanStart
  <2>1. /\ scan' \in [todo : SUBSET Tasks, waits : Tasks \cup {Nobody}]
        /\ scan'.waits = Nobody
    BY <1>1 DEF ScanStart, IdleScan, Typed
  <2>2. UNCHANGED <<auto, in, out, last, ai, rest, typing, known, run, threads,
                    leader, edits, faults, heard, calm, left>>
    BY <1>1 DEF ScanStart, task, memory, history
  <2> QED  BY <2>1, <2>2 DEF Typed, Waits
<1>2. ASSUME NEW t \in Tasks, ScanTask(t) PROVE Typed' /\ Waits'
  <2>1. UNCHANGED <<auto, in, out, last, ai, rest, typing, known, threads, leader,
                    edits, faults, heard, calm, left>>
    BY <1>2 DEF ScanTask, task, history
  <2>2. leader \in Instances  BY DEF Typed
  <2>3. scan' \in [todo : SUBSET Tasks, waits : Tasks \cup {Nobody}]
    BY <1>2 DEF ScanTask, Typed
  <2>4. CASE last[t] = "person" /\ Begins(leader, t)
    <3>1. PICK r \in RunType : Turn(leader, t, r) /\ r.by = "scanner"
      BY <1>2, <2>2, <2>4, CalledFacts DEF ScanTask
    <3>2. /\ run' \in [Instances -> [Tasks -> RunType \cup {NoRun}]]
          /\ run'[leader][t] = r
      BY <2>2, <3>1, TurnFacts
    <3>3. scan'.waits = t  BY <1>2, <2>4 DEF ScanTask
    <3>4. Waits'  BY <2>1, <3>1, <3>2, <3>3, RunFacts DEF Waits
    <3> QED  BY <2>1, <2>3, <3>2, <3>4 DEF Typed
  <2>5. CASE ~(last[t] = "person" /\ Begins(leader, t))
    <3>1. run' = run /\ scan'.waits = Nobody  BY <1>2, <2>5 DEF ScanTask, Called
    <3> QED  BY <2>1, <2>3, <3>1 DEF Typed, Waits
  <2> QED  BY <2>4, <2>5
<1> QED  BY <1>1, <1>2 DEF ScanStep

LEMMA CrashFacts ==
    ASSUME Typed, NEW i \in Instances, Crash(i)
    PROVE  /\ faults' \in 0..MaxFaults /\ faults' = faults + 1
           /\ known' \in [Instances -> [Tasks -> Hashes \cup {NoHash}]]
           /\ run' \in [Instances -> [Tasks -> RunType \cup {NoRun}]]
           /\ threads' \in [Instances -> [Tasks -> Nat]]
           /\ \A t \in Tasks : /\ known'[i][t] = NoHash /\ run'[i][t] = NoRun
                               /\ threads'[i][t] = 0
           /\ \A k \in Instances : k # i =>
                 /\ known'[k] = known[k] /\ run'[k] = run[k]
                 /\ threads'[k] = threads[k]
           /\ UNCHANGED <<auto, in, out, last, ai, rest, typing, edits, heard, calm>>
           /\ left' = left \cup {t \in Tasks : Reading(i, t) /\ typing[t]}
<1>1. faults' \in 0..MaxFaults /\ faults' = faults + 1
  BY Bounds DEF Crash, Typed
<1>2. UNCHANGED <<auto, in, out, last, ai, rest, typing, edits, heard, calm>>
  BY DEF Crash, task
<1>3. /\ known' \in [Instances -> [Tasks -> Hashes \cup {NoHash}]]
      /\ \A t \in Tasks : known'[i][t] = NoHash
      /\ \A k \in Instances : k # i => known'[k] = known[k]
  BY DEF Crash, Typed
<1>4. /\ run' \in [Instances -> [Tasks -> RunType \cup {NoRun}]]
      /\ \A t \in Tasks : run'[i][t] = NoRun
      /\ \A k \in Instances : k # i => run'[k] = run[k]
  BY DEF Crash, Typed
<1>5. /\ threads' \in [Instances -> [Tasks -> Nat]]
      /\ \A t \in Tasks : threads'[i][t] = 0
      /\ \A k \in Instances : k # i => threads'[k] = threads[k]
  BY DEF Crash, Typed
<1> QED  BY <1>1, <1>2, <1>3, <1>4, <1>5 DEF Crash

LEMMA TypedCrash ==
    ASSUME Typed, Waits, NEW i \in Instances, Crash(i)
    PROVE  Typed' /\ Waits'
<1>1. ASSUME NEW k \in Instances, NEW t \in Tasks PROVE threads'[k][t] <= in'[t]
  <2>1. in'[t] = in[t] /\ in[t] \in Nat  BY CrashFacts, Bounds DEF Typed
  <2>2. CASE k = i  BY <2>1, <2>2, CrashFacts
  <2>3. CASE k # i  BY <2>1, <2>3, CrashFacts DEF Typed
  <2> QED  BY <2>2, <2>3
<1>2. CASE i = leader
  <2>1. leader' \in Instances /\ scan' = IdleScan  BY <1>2 DEF Crash
  <2>2. scan' \in [todo : SUBSET Tasks, waits : Tasks \cup {Nobody}]
        /\ scan'.waits = Nobody
    BY <2>1 DEF IdleScan
  <2> QED  BY <1>1, <2>1, <2>2, CrashFacts DEF Typed, Waits
<1>3. CASE i # leader
  <2>1. UNCHANGED <<leader, scan>>  BY <1>3 DEF Crash, scanner
  <2>2. run'[leader] = run[leader]  BY <1>3, CrashFacts DEF Typed
  <2> QED  BY <1>1, <2>1, <2>2, CrashFacts DEF Typed, Waits
<1> QED  BY <1>2, <1>3

LEMMA TypedStep == Typed /\ Waits /\ [Next]_vars => Typed' /\ Waits'
<1> SUFFICES ASSUME Typed, Waits, [Next]_vars PROVE Typed' /\ Waits'
  OBVIOUS
<1>1. CASE UNCHANGED vars  BY <1>1 DEF vars, Typed, Waits
<1>2. ASSUME NEW t \in Tasks, NEW portals, Arrive(t, portals)
      PROVE  Typed' /\ Waits'
  BY <1>2, TypedArrive
<1>3. ASSUME NEW t \in Tasks, ManagerWrites(t) \/ Edit(t) PROVE Typed' /\ Waits'
  BY <1>3, TypedOthers
<1>4. ASSUME NEW i \in Instances, NEW t \in Tasks, RunStep(i, t)
      PROVE  Typed' /\ Waits'
  BY <1>4, TypedLoad, TypedAgentWrites, TypedReply, TypedEnds DEF RunStep
<1>5. ASSUME NEW i \in Instances, NEW t \in Tasks, PortalCall(i, t)
      PROVE  Typed' /\ Waits'
  BY <1>5, TypedPortal
<1>6. ASSUME NEW i \in Instances, Crash(i) PROVE Typed' /\ Waits'
  BY <1>6, TypedCrash
<1> QED  BY <1>1, <1>2, <1>3, <1>4, <1>5, <1>6, TypedScan DEF Next

-----------------------------------------------------------------------------
(* What a hash hides.                                                      *)

LEMMA RememberedInit == Init => Remembered
  BY DEF Init, Remembered, HashGood, RunGood, Reading, NoRun, NoHash

LEMMA Numbers ==
    ASSUME Typed, NEW t \in Tasks
    PROVE  /\ in[t] \in Nat /\ out[t] \in Nat /\ calm[t] \in Nat
           /\ heard[t] \in Nat /\ Talk(t) \in Nat
  BY Bounds, ContextType DEF Typed

\* A step that neither hears a message of the task nor ends a run of it.
LEMMA GoodKept ==
    ASSUME Typed, Remembered, NEW k \in Instances, NEW u \in Tasks,
           in'[u] = in[u], out'[u] \in Nat, out[u] <= out'[u],
           calm'[u] = calm[u], heard'[u] \in Nat, heard[u] <= heard'[u],
           known'[k][u] = known[k][u] \/ known'[k][u] = NoHash,
           run'[k][u] = run[k][u] \/ run'[k][u] = NoRun
    PROVE  HashGood(k, u)' /\ RunGood(k, u)' /\ calm'[u] <= in'[u]
<1>1. HashGood(k, u) /\ RunGood(k, u) /\ calm[u] <= in[u]  BY DEF Remembered
<1>2. /\ in[u] \in Nat /\ out[u] \in Nat /\ calm[u] \in Nat /\ heard[u] \in Nat
  BY Numbers
<1>3. /\ known[k][u] # NoHash => known[k][u][4] \in Nat
      /\ run[k][u] # NoRun => run[k][u].start[4] \in Nat
                              /\ run[k][u].seen \in Nat
  <2>1. known[k][u] \in Hashes \cup {NoHash} /\ run[k][u] \in RunType \cup {NoRun}
    BY DEF Typed
  <2> QED  BY <2>1, HashType, RunFacts, Bounds
<1>4. Talk(u)' \in Nat /\ Talk(u) \in Nat /\ Talk(u) <= Talk(u)'
  BY <1>2 DEF Talk
<1>5. HashGood(k, u)'
  <2> SUFFICES ASSUME known'[k][u] # NoHash
               PROVE  /\ known'[k][u][4] <= Talk(u)'
                      /\ known'[k][u][4] = Talk(u)' => calm'[u] <= heard'[u]
    BY DEF HashGood
  <2>1. known'[k][u] = known[k][u] /\ known[k][u] # NoHash  OBVIOUS
  <2>2. /\ known[k][u][4] \in Nat /\ known[k][u][4] <= Talk(u)
        /\ known[k][u][4] = Talk(u) => calm[u] <= heard[u]
    BY <1>1, <1>3, <2>1 DEF HashGood
  <2>3. known[k][u][4] <= Talk(u)'  BY <1>4, <2>2
  <2>4. known[k][u][4] = Talk(u)' => calm[u] <= heard'[u]
    BY <1>2, <1>4, <2>2
  <2> QED  BY <2>1, <2>3, <2>4
<1>6. RunGood(k, u)'
  <2>1. CASE run'[k][u] = NoRun
    BY <2>1, NoRunFacts DEF RunGood, Reading
  <2>2. CASE run'[k][u] = run[k][u] /\ run[k][u] # NoRun
    <3>1. run[k][u].start[4] <= Talk(u)'  BY <1>1, <1>3, <1>4, <2>2 DEF RunGood
    <3>2. Reading(k, u)' => calm'[u] <= run'[k][u].seen
      BY <1>1, <2>2 DEF RunGood, Reading
    <3>3. run'[k][u].phase = "replied" => calm'[u] <= heard'[u]
      BY <1>1, <1>2, <2>2 DEF RunGood
    <3> QED  BY <2>2, <3>1, <3>2, <3>3 DEF RunGood
  <2> QED  BY <2>1, <2>2
<1> QED  BY <1>1, <1>5, <1>6

LEMMA RememberedArrive ==
    ASSUME Typed, Remembered, NEW t \in Tasks, NEW portals, Arrive(t, portals)
    PROVE  Remembered'
<1>1. UNCHANGED <<out, known, run, heard>>  BY DEF Arrive
<1>2. /\ in'[t] = in[t] + 1 /\ \A u \in Tasks : u # t => in'[u] = in[u]
  BY DEF Arrive, Typed
<1>3. /\ \A u \in Tasks : u # t => calm'[u] = calm[u]
      /\ \/ calm'[t] = calm[t]
         \/ calm'[t] = in[t] + 1 /\ \A k \in Instances : ~Reading(k, t)
  <2>1. CASE \E k \in Instances : Reading(k, t)  BY <2>1 DEF Arrive
  <2>2. CASE ~\E k \in Instances : Reading(k, t)
    <3>1. calm' = [calm EXCEPT ![t] = in[t] + 1]  BY <2>2 DEF Arrive
    <3> QED  BY <2>2, <3>1 DEF Typed
  <2> QED  BY <2>1, <2>2
<1>4. ASSUME NEW k \in Instances, NEW u \in Tasks, u # t
      PROVE  HashGood(k, u)' /\ RunGood(k, u)'
  BY <1>1, <1>2, <1>3, <1>4, Numbers, GoodKept
<1>5. in[t] \in Nat /\ out[t] \in Nat /\ calm[t] \in Nat /\ heard[t] \in Nat
  BY Numbers
<1>6. Talk(t) \in Nat /\ Talk(t)' = Talk(t) + 1  BY <1>1, <1>2, <1>5 DEF Talk
<1>7. ASSUME NEW k \in Instances PROVE HashGood(k, t)' /\ RunGood(k, t)'
  <2>1. /\ known[k][t] # NoHash => known[k][t][4] \in Nat
        /\ run[k][t] # NoRun => run[k][t].start[4] \in Nat
    <3>1. known[k][t] \in Hashes \cup {NoHash} /\ run[k][t] \in RunType \cup {NoRun}
      BY DEF Typed
    <3> QED  BY <3>1, HashType, RunFacts
  <2>2. HashGood(k, t) /\ RunGood(k, t)  BY DEF Remembered
  <2>3. HashGood(k, t)'  BY <1>1, <1>6, <2>1, <2>2 DEF HashGood
  <2>4. run[k][t] # NoRun => run[k][t].start[4] <= Talk(t)'
    BY <1>6, <2>1, <2>2 DEF RunGood
  <2>5. Reading(k, t) => calm'[t] = calm[t]  BY <1>3
  <2>6. RunGood(k, t)'
    BY <1>1, <2>2, <2>4, <2>5 DEF RunGood, Reading
  <2> QED  BY <2>3, <2>6
<1>8. ASSUME NEW u \in Tasks PROVE calm'[u] <= in'[u]
  <2>1. calm[u] <= in[u]  BY DEF Remembered
  <2> QED  BY <1>2, <1>3, <1>5, <2>1
<1> QED  BY <1>4, <1>7, <1>8 DEF Remembered

\* Steps that touch neither runs nor hashes nor what was heard.
LEMMA RememberedQuiet ==
    ASSUME Typed, Remembered, UNCHANGED <<in, calm, heard, known, run>>,
           \A u \in Tasks : out'[u] \in Nat /\ out[u] <= out'[u]
    PROVE  Remembered'
<1>1. ASSUME NEW k \in Instances, NEW u \in Tasks
      PROVE  HashGood(k, u)' /\ RunGood(k, u)'
  BY Numbers, GoodKept
<1>2. \A u \in Tasks : calm'[u] <= in'[u]  BY DEF Remembered
<1> QED  BY <1>1, <1>2 DEF Remembered

\* One run of a task changes, and the hash of its instance perhaps.
LEMMA RememberedRun ==
    ASSUME Typed, Remembered, NEW i \in Instances, NEW t \in Tasks,
           UNCHANGED <<in, out, calm>>,
           \A u \in Tasks : heard'[u] \in Nat /\ heard[u] <= heard'[u],
           \A k \in Instances, u \in Tasks :
              (k # i \/ u # t) =>
                 /\ known'[k][u] = known[k][u] /\ run'[k][u] = run[k][u],
           HashGood(i, t)', RunGood(i, t)'
    PROVE  Remembered'
<1>1. ASSUME NEW k \in Instances, NEW u \in Tasks, k # i \/ u # t
      PROVE  HashGood(k, u)' /\ RunGood(k, u)'
  <2>1. out[u] \in Nat  BY Numbers
  <2> QED  BY <1>1, <2>1, GoodKept
<1>2. \A u \in Tasks : calm'[u] <= in'[u]  BY DEF Remembered
<1> QED  BY <1>1, <1>2 DEF Remembered

\* A run begins with the hash of the task as it is.
LEMMA RememberedCalled ==
    ASSUME Typed, Remembered, NEW i \in Instances, NEW t \in Tasks,
           NEW by \in {"scanner", "portal"}, Called(i, t, by),
           UNCHANGED <<in, out, calm, heard, known>>
    PROVE  Remembered'
<1>1. \A u \in Tasks : out[u] \in Nat /\ heard[u] \in Nat
  BY Numbers
<1>2. CASE run' = run  BY <1>1, <1>2, RememberedQuiet
<1>3. ASSUME NEW r \in RunType, Turn(i, t, r), r.phase = "hashed",
             r.start = Context(t)
      PROVE  Remembered'
  <2>1. run'[i][t] = r /\ \A k \in Instances, u \in Tasks :
                             k # i \/ u # t => run'[k][u] = run[k][u]
    BY <1>3, TurnFacts
  <2>2. HashGood(i, t)'
    BY DEF Remembered, HashGood, Talk
  <2>3. Talk(t)' = Talk(t) /\ r.start[4] = Talk(t) /\ Talk(t) \in Nat
    BY <1>3, ContextType DEF Talk
  <2>4. RunGood(i, t)'
    BY <1>3, <2>1, <2>3 DEF RunGood, Reading
  <2> QED  BY <1>1, <2>1, <2>2, <2>4, RememberedRun
<1> QED  BY <1>2, <1>3, CalledFacts

LEMMA RememberedLoad ==
    ASSUME Typed, Remembered, NEW i \in Instances, NEW t \in Tasks, Load(i, t)
    PROVE  Remembered'
<1>1. PICK r \in RunType :
         /\ Turn(i, t, r) /\ r.phase = "running"
         /\ r.start = run[i][t].start /\ r.seen = in[t]
  BY LoadFacts
<1>2. run'[i][t] = r /\ \A k \in Instances, u \in Tasks :
                           k # i \/ u # t => run'[k][u] = run[k][u]
  BY <1>1, TurnFacts
<1>3. UNCHANGED <<in, out, calm, heard, known>>  BY DEF Load, history
<1>4. \A u \in Tasks : heard[u] \in Nat  BY Numbers
<1>5. HashGood(i, t)'  BY <1>3 DEF Remembered, HashGood, Talk
<1>6. run[i][t] # NoRun  BY NoRunFacts DEF Load
<1>7. RunGood(i, t)'
  BY <1>1, <1>2, <1>3, <1>6 DEF Remembered, RunGood, Reading, Talk
<1> QED  BY <1>2, <1>3, <1>4, <1>5, <1>7, RememberedRun

LEMMA RememberedReply ==
    ASSUME Typed, Remembered, NEW i \in Instances, NEW t \in Tasks, Reply(i, t)
    PROVE  Remembered'
<1>1. PICK r \in RunType :
         /\ Turn(i, t, r) /\ r.phase = "replied"
         /\ r.start = run[i][t].start /\ r.seen = run[i][t].seen
  BY ReplyFacts
<1>2. run'[i][t] = r /\ \A k \in Instances, u \in Tasks :
                           k # i \/ u # t => run'[k][u] = run[k][u]
  BY <1>1, TurnFacts
<1>3. UNCHANGED <<in, out, calm, known>>  BY DEF Reply
<1>4. run[i][t] # NoRun /\ run[i][t].phase = "running"
  BY NoRunFacts DEF Reply
<1>5. /\ heard' \in [Tasks -> 0..MaxIn] /\ \A u \in Tasks : heard[u] <= heard'[u]
      /\ run[i][t].seen <= heard'[t]
  BY <1>4, HeardFacts DEF Reply
<1>6. \A u \in Tasks : heard'[u] \in Nat  BY <1>5, Bounds
<1>7. /\ calm[t] \in Nat /\ heard[t] \in Nat /\ run[i][t].seen \in Nat
  BY <1>4, Numbers, RunFacts, Bounds DEF Typed
<1>8. calm[t] <= run[i][t].seen  BY <1>4 DEF Remembered, RunGood, Reading
<1>9. HashGood(i, t)'
  BY <1>3, <1>5, <1>6, <1>7 DEF Remembered, HashGood, Talk
<1>10. RunGood(i, t)'
  BY <1>1, <1>2, <1>3, <1>4, <1>5, <1>6, <1>7, <1>8
     DEF Remembered, RunGood, Reading, Talk
<1> QED  BY <1>2, <1>3, <1>5, <1>6, <1>9, <1>10, RememberedRun

LEMMA RememberedEnds ==
    ASSUME Typed, Remembered, NEW i \in Instances, NEW t \in Tasks, RunEnds(i, t)
    PROVE  Remembered'
<1>1. /\ run[i][t] \in RunType /\ Turn(i, t, NoRun)
      /\ UNCHANGED <<in, out, calm>>
      /\ heard' \in [Tasks -> 0..MaxIn] /\ \A u \in Tasks : heard[u] <= heard'[u]
      /\ \/ known' = known
         \/ /\ run[i][t].phase = "running" /\ run[i][t].seen <= heard'[t]
            /\ known' = [known EXCEPT ![i][t] = run[i][t].start]
         \/ /\ run[i][t].phase = "replied"
            /\ known' = [known EXCEPT ![i][t] = Context(t)]
  BY EndFacts
<1>2. run'[i][t] = NoRun /\ \A k \in Instances, u \in Tasks :
                               k # i \/ u # t => run'[k][u] = run[k][u]
  BY <1>1, TurnFacts
<1>3. \A u \in Tasks : heard'[u] \in Nat  BY <1>1, Bounds
<1>4. \A k \in Instances, u \in Tasks :
         k # i \/ u # t => known'[k][u] = known[k][u]
  BY <1>1 DEF Typed
<1>5. RunGood(i, t)'  BY <1>2, NoRunFacts DEF RunGood, Reading
<1>6. run[i][t] # NoRun /\ run[i][t].seen \in Nat
  BY <1>1, RunFacts, Bounds
<1>7. calm[t] \in Nat /\ heard[t] \in Nat /\ Talk(t) \in Nat /\ Talk(t)' = Talk(t)
  BY <1>1, Numbers DEF Talk
<1>8. RunGood(i, t) /\ HashGood(i, t)  BY DEF Remembered
<1>9. HashGood(i, t)'
  <2>1. CASE known' = known
    BY <1>1, <1>3, <1>7, <1>8, <2>1 DEF HashGood
  <2>2. CASE /\ run[i][t].phase = "running" /\ run[i][t].seen <= heard'[t]
             /\ known' = [known EXCEPT ![i][t] = run[i][t].start]
    <3>1. known'[i][t] = run[i][t].start  BY <2>2 DEF Typed
    <3>2. run[i][t].start[4] <= Talk(t)  BY <1>6, <1>8 DEF RunGood
    <3>3. calm[t] <= heard'[t]
      BY <1>3, <1>6, <1>7, <1>8, <2>2 DEF RunGood, Reading
    <3> QED  BY <1>1, <1>7, <3>1, <3>2, <3>3 DEF HashGood
  <2>3. CASE /\ run[i][t].phase = "replied"
             /\ known' = [known EXCEPT ![i][t] = Context(t)]
    <3>1. known'[i][t] = Context(t) /\ Context(t)[4] = Talk(t)
      BY <2>3, ContextType DEF Typed
    <3>2. calm[t] <= heard'[t]
      BY <1>1, <1>3, <1>7, <1>8, <2>3 DEF RunGood
    <3> QED  BY <1>1, <1>7, <3>1, <3>2 DEF HashGood
  <2> QED  BY <1>1, <2>1, <2>2, <2>3
<1> QED  BY <1>1, <1>2, <1>3, <1>4, <1>5, <1>9, RememberedRun

LEMMA RememberedCrash ==
    ASSUME Typed, Remembered, NEW i \in Instances, Crash(i)
    PROVE  Remembered'
<1>1. /\ \A t \in Tasks : known'[i][t] = NoHash /\ run'[i][t] = NoRun
      /\ \A k \in Instances : k # i => known'[k] = known[k] /\ run'[k] = run[k]
      /\ UNCHANGED <<in, out, heard, calm>>
  BY CrashFacts
<1>2. ASSUME NEW k \in Instances, NEW u \in Tasks
      PROVE  HashGood(k, u)' /\ RunGood(k, u)'
  <2>1. out[u] \in Nat /\ heard[u] \in Nat  BY Numbers
  <2> QED  BY <1>1, <2>1, GoodKept
<1>3. \A u \in Tasks : calm'[u] <= in'[u]  BY <1>1 DEF Remembered
<1> QED  BY <1>2, <1>3 DEF Remembered

LEMMA RememberedStep == Typed /\ Remembered /\ [Next]_vars => Remembered'
<1> SUFFICES ASSUME Typed, Remembered, [Next]_vars PROVE Remembered'
  OBVIOUS
<1> DEFINE OutGrows == \A u \in Tasks : out'[u] \in Nat /\ out[u] <= out'[u]
<1>1. ASSUME UNCHANGED out PROVE OutGrows
  BY <1>1, Numbers
<1>2. ASSUME NEW t \in Tasks, out[t] < MaxOut, out' = [out EXCEPT ![t] = @ + 1]
      PROVE  OutGrows
  BY <1>2, Numbers DEF Typed
<1> HIDE DEF OutGrows
<1>3. ASSUME NEW t \in Tasks, NEW portals, Arrive(t, portals) PROVE Remembered'
  BY <1>3, RememberedArrive
<1>4. ASSUME NEW t \in Tasks, ManagerWrites(t) PROVE Remembered'
  BY <1>2, <1>4, RememberedQuiet DEF ManagerWrites, memory, history, OutGrows
<1>5. ASSUME NEW t \in Tasks, Edit(t) PROVE Remembered'
  BY <1>1, <1>5, RememberedQuiet DEF Edit, memory, OutGrows
<1>6. ASSUME NEW i \in Instances, NEW t \in Tasks, RunStep(i, t) PROVE Remembered'
  <2>1. CASE AgentWrites(i, t)
    BY <1>2, <2>1, RememberedQuiet DEF AgentWrites, memory, history, OutGrows
  <2> QED
    BY <1>6, <2>1, RememberedLoad, RememberedReply, RememberedEnds DEF RunStep
<1>7. ASSUME NEW i \in Instances, NEW t \in Tasks, PortalCall(i, t)
      PROVE  Remembered'
  BY <1>7, RememberedCalled DEF PortalCall, task, history
<1>8. ASSUME ScanStart PROVE Remembered'
  BY <1>1, <1>8, RememberedQuiet DEF ScanStart, task, memory, history, OutGrows
<1>9. ASSUME NEW t \in Tasks, ScanTask(t) PROVE Remembered'
  <2>1. UNCHANGED <<in, out, calm, heard, known>> /\ leader \in Instances
    BY <1>9 DEF ScanTask, task, history, Typed
  <2>2. CASE last[t] = "person"
    BY <1>9, <2>1, <2>2, RememberedCalled DEF ScanTask
  <2>3. CASE last[t] # "person"
    BY <1>1, <1>9, <2>1, <2>3, RememberedQuiet DEF ScanTask, OutGrows
  <2> QED  BY <2>2, <2>3
<1>10. ASSUME NEW i \in Instances, Crash(i) PROVE Remembered'
  BY <1>10, RememberedCrash
<1>11. CASE UNCHANGED vars
  BY <1>1, <1>11, RememberedQuiet DEF vars, OutGrows
<1> QED  BY <1>3, <1>4, <1>5, <1>6, <1>7, <1>8, <1>9, <1>10, <1>11
         DEF Next, ScanStep

-----------------------------------------------------------------------------
(* The indicator.                                                          *)

LEMMA TypingInit == Init => TypingIsExplained
  BY DEF Init, TypingIsExplained

\* Runs that read a task go on, and no indicator is set.
LEMMA TypingKept ==
    ASSUME TypingIsExplained, \A u \in Tasks : typing'[u] => typing[u],
           \A u \in left : typing'[u] => u \in left',
           \A k \in Instances, u \in Tasks :
              Reading(k, u) => Reading(k, u)' \/ ~typing'[u] \/ u \in left'
    PROVE  TypingIsExplained'
<1> SUFFICES ASSUME NEW u \in Tasks, typing'[u], u \notin left'
             PROVE  \E k \in Instances : Reading(k, u)'
  BY DEF TypingIsExplained
<1>1. PICK k \in Instances : Reading(k, u)  BY DEF TypingIsExplained
<1>2. Reading(k, u)'  BY <1>1
<1> QED  BY <1>2

LEMMA TypingStep ==
    Typed /\ TypingIsExplained /\ [Next]_vars => TypingIsExplained'
<1> SUFFICES ASSUME Typed, TypingIsExplained, [Next]_vars
             PROVE  TypingIsExplained'
  OBVIOUS
<1>1. ASSUME UNCHANGED <<typing, left, run>> PROVE TypingIsExplained'
  BY <1>1 DEF TypingIsExplained, Reading
<1>2. ASSUME NEW i \in Instances, NEW t \in Tasks,
             NEW by \in {"scanner", "portal"}, Called(i, t, by),
             UNCHANGED <<typing, left>>
      PROVE  TypingIsExplained'
  <2>1. CASE run' = run  BY <1>1, <1>2, <2>1
  <2>2. ASSUME NEW r \in RunType, Turn(i, t, r), run[i][t] = NoRun
        PROVE  TypingIsExplained'
    <3>1. \A k \in Instances, u \in Tasks : Reading(k, u) => Reading(k, u)'
      BY <2>2, TurnFacts, NoRunFacts DEF Reading
    <3> QED  BY <1>2, <3>1, TypingKept
  <2> QED  BY <1>2, <2>1, <2>2, CalledFacts DEF Begins
<1>3. ASSUME NEW i \in Instances, NEW t \in Tasks, Load(i, t)
      PROVE  TypingIsExplained'
  <2>1. PICK r \in RunType : Turn(i, t, r) /\ r.phase = "running"
    BY <1>3, LoadFacts
  <2>2. /\ run'[i][t] = r
        /\ \A k \in Instances, u \in Tasks :
              k # i \/ u # t => run'[k][u] = run[k][u]
    BY <2>1, TurnFacts
  <2>3. /\ \A u \in Tasks : u # t => typing'[u] = typing[u]
        /\ left' = left
    BY <1>3 DEF Load, history, Typed
  <2>4. Reading(i, t)'  BY <2>1, <2>2 DEF Reading
  <2>5. \A k \in Instances, u \in Tasks :
           u # t /\ Reading(k, u) => Reading(k, u)'
    BY <2>2 DEF Reading
  <2> SUFFICES ASSUME NEW u \in Tasks, typing'[u], u \notin left'
               PROVE  \E k \in Instances : Reading(k, u)'
    BY DEF TypingIsExplained
  <2>6. CASE u = t  BY <2>4, <2>6
  <2>7. CASE u # t
    <3>1. PICK k \in Instances : Reading(k, u)
      BY <2>3, <2>7 DEF TypingIsExplained
    <3>2. Reading(k, u)'  BY <2>5, <2>7, <3>1
    <3> QED  BY <3>2
  <2> QED  BY <2>6, <2>7
<1>4. ASSUME NEW i \in Instances, NEW t \in Tasks, AgentWrites(i, t)
      PROVE  TypingIsExplained'
  <2>1. /\ \A u \in Tasks : typing'[u] => typing[u]
        /\ \A u \in left : typing'[u] => u \in left'
    BY <1>4 DEF AgentWrites, Clears, Typed
  <2>2. run' = run  BY <1>4 DEF AgentWrites, memory
  <2> QED  BY <2>1, <2>2, TypingKept DEF Reading
<1>5. ASSUME NEW i \in Instances, NEW t \in Tasks, Reply(i, t)
      PROVE  TypingIsExplained'
  <2>1. PICK r \in RunType : Turn(i, t, r) /\ r.phase = "replied"
    BY <1>5, ReplyFacts
  <2>2. \A k \in Instances, u \in Tasks : Reading(k, u) => Reading(k, u)'
    BY <2>1, TurnFacts DEF Reading
  <2>3. UNCHANGED <<typing, left>>  BY <1>5 DEF Reply
  <2> QED  BY <2>2, <2>3, TypingKept
<1>6. ASSUME NEW i \in Instances, NEW t \in Tasks, RunEnds(i, t)
      PROVE  TypingIsExplained'
  <2>1. /\ run[i][t] \in RunType /\ Turn(i, t, NoRun)
        /\ \A u \in left : typing'[u] => u \in left'
        /\ \A u \in Tasks : typing'[u] => typing[u]
        /\ (Reading(i, t) /\ typing'[t]) => t \in left'
    BY <1>6, EndFacts
  <2>2. \A k \in Instances, u \in Tasks :
           k # i \/ u # t => run'[k][u] = run[k][u]
    BY <2>1, TurnFacts
  <2>3. \A k \in Instances, u \in Tasks :
           (k # i \/ u # t) /\ Reading(k, u) => Reading(k, u)'
    BY <2>2 DEF Reading
  <2>4. \A k \in Instances, u \in Tasks :
           Reading(k, u) => Reading(k, u)' \/ ~typing'[u] \/ u \in left'
    BY <2>1, <2>3
  <2> QED  BY <2>1, <2>4, TypingKept
<1>7. ASSUME NEW i \in Instances, Crash(i) PROVE TypingIsExplained'
  <2>1. /\ \A k \in Instances : k # i => run'[k] = run[k]
        /\ typing' = typing
        /\ left' = left \cup {t \in Tasks : Reading(i, t) /\ typing[t]}
    BY <1>7, CrashFacts
  <2>2. \A k \in Instances, u \in Tasks :
           Reading(k, u) => Reading(k, u)' \/ ~typing'[u] \/ u \in left'
    BY <2>1 DEF Reading
  <2> QED  BY <2>1, <2>2, TypingKept
<1>8. ASSUME NEW t \in Tasks, NEW portals, Arrive(t, portals)
      PROVE  TypingIsExplained'
  BY <1>1, <1>8 DEF Arrive
<1>9. ASSUME NEW t \in Tasks, ManagerWrites(t) \/ Edit(t)
      PROVE  TypingIsExplained'
  BY <1>1, <1>9 DEF ManagerWrites, Edit, memory, history
<1>10. ASSUME NEW i \in Instances, NEW t \in Tasks, PortalCall(i, t)
       PROVE  TypingIsExplained'
  BY <1>2, <1>10 DEF PortalCall, task, history
<1>11. ASSUME ScanStart PROVE TypingIsExplained'
  BY <1>1, <1>11 DEF ScanStart, task, memory, history
<1>12. ASSUME NEW t \in Tasks, ScanTask(t) PROVE TypingIsExplained'
  <2>1. UNCHANGED <<typing, left>> /\ leader \in Instances
    BY <1>12 DEF ScanTask, task, history, Typed
  <2>2. Called(leader, t, "scanner") \/ run' = run  BY <1>12 DEF ScanTask
  <2> QED  BY <1>1, <1>2, <2>1, <2>2
<1>13. CASE UNCHANGED vars  BY <1>1, <1>13 DEF vars
<1> QED  BY <1>3, <1>4, <1>5, <1>6, <1>7, <1>8, <1>9, <1>10, <1>11, <1>12, <1>13
         DEF Next, ScanStep, RunStep

-----------------------------------------------------------------------------
(* Answers, and what they are answers to.                                  *)

Causes(t) == in[t] + out[t] + edits[t] + faults

\* A task nobody wrote to gets no run; a run under way, or one that the context
\* allows, has a cause that no answer has used up.
CauseGood(i, t) ==
    /\ ai[t] <= Causes(t)
    /\ in[t] = 0 => ai[t] = 0 /\ run[i][t] = NoRun /\ last[t] # "person"
    /\ run[i][t].phase \in {"hashed", "running"} => ai[t] + 1 <= Causes(t)
    /\ (run[i][t] = NoRun /\ in[t] > 0 /\ known[i][t] # Context(t))
          => ai[t] + 1 <= Causes(t)
Caused == \A i \in Instances, t \in Tasks : CauseGood(i, t)
OneInstance == \A i, k \in Instances : i = k

LEMMA CausesType ==
    ASSUME Typed, NEW t \in Tasks
    PROVE  /\ Causes(t) \in Nat /\ ai[t] \in Nat /\ in[t] \in Nat
           /\ out[t] \in Nat /\ edits[t] \in Nat /\ faults \in Nat
<1>1. /\ in[t] \in Nat /\ out[t] \in Nat /\ edits[t] \in Nat /\ faults \in Nat
      /\ ai[t] \in Nat
  BY Bounds DEF Typed
<1> QED  BY <1>1 DEF Causes

LEMMA CausedInit == Init => Caused
<1> SUFFICES ASSUME Init, NEW i \in Instances, NEW t \in Tasks
             PROVE  CauseGood(i, t)
  BY DEF Caused
<1>1. /\ in[t] = 0 /\ out[t] = 0 /\ edits[t] = 0 /\ faults = 0 /\ ai[t] = 0
      /\ run[i][t] = NoRun /\ last[t] = Nobody
  BY DEF Init
<1> QED  BY <1>1, NoRunFacts DEF CauseGood, Causes, Nobody

\* A new cause covers whatever the run does.
LEMMA NewCause ==
    ASSUME Typed, Caused, NEW i \in Instances, NEW t \in Tasks,
           ai'[t] = ai[t], Causes(t)' \in Nat, Causes(t) + 1 <= Causes(t)',
           in'[t] = 0 => in[t] = 0,
           in'[t] = 0 => run'[i][t] = NoRun /\ last'[t] # "person"
    PROVE  CauseGood(i, t)'
<1>1. Causes(t) \in Nat /\ ai[t] \in Nat  BY CausesType
<1>2. ai[t] <= Causes(t) /\ (in[t] = 0 => ai[t] = 0)
  BY DEF Caused, CauseGood
<1> QED  BY <1>1, <1>2 DEF CauseGood

\* A task that a step leaves alone.
LEMMA CauseKept ==
    ASSUME Typed, Caused, NEW i \in Instances, NEW t \in Tasks,
           Causes(t)' \in Nat, Causes(t) <= Causes(t)',
           UNCHANGED <<ai[t], in[t], last[t], known[i][t], Context(t)>>,
           \/ run'[i][t] = run[i][t]
           \/ run'[i][t] = NoRun
              /\ run[i][t].phase \in {"hashed", "running"}
    PROVE  CauseGood(i, t)'
<1>1. Causes(t) \in Nat /\ ai[t] \in Nat  BY CausesType
<1>2. CauseGood(i, t)  BY DEF Caused
<1> QED  BY <1>1, <1>2, NoRunFacts DEF CauseGood

LEMMA CausedTalk ==
    ASSUME Typed, Caused, NEW t \in Tasks,
           \/ \E portals : Arrive(t, portals)
           \/ ManagerWrites(t)
           \/ Edit(t)
           \/ \E i \in Instances : AgentWrites(i, t)
    PROVE  Caused'
<1> SUFFICES ASSUME NEW i \in Instances, NEW u \in Tasks PROVE CauseGood(i, u)'
  BY DEF Caused
<1> DEFINE Others == UNCHANGED <<ai[u], in[u], out[u], last[u], edits[u],
                                 auto[u], rest[u]>>
<1>1. UNCHANGED <<ai, known, run, faults>>
  BY DEF Arrive, ManagerWrites, Edit, AgentWrites, memory, history
<1>2. u # t => Others
  BY DEF Arrive, ManagerWrites, Edit, AgentWrites, history, Typed
<1>3. CASE u # t
  <2>1. Causes(u)' = Causes(u) /\ Context(u)' = Context(u)
    BY <1>1, <1>2, <1>3 DEF Causes, Context
  <2>2. Causes(u) \in Nat  BY CausesType
  <2> QED  BY <1>1, <1>2, <1>3, <2>1, <2>2, CauseKept
<1>4. CASE u = t
  <2>1. /\ in[t] \in Nat /\ out[t] \in Nat /\ edits[t] \in Nat /\ faults \in Nat
    BY CausesType
  <2>2. \/ in'[t] = in[t] + 1 /\ UNCHANGED <<out, edits>>
        \/ out'[t] = out[t] + 1 /\ last'[t] = "us" /\ UNCHANGED <<in, edits>>
        \/ edits'[t] = edits[t] + 1 /\ UNCHANGED <<in, out, last>>
    BY DEF Arrive, ManagerWrites, Edit, AgentWrites, history, Typed
  <2>3. Causes(t)' = Causes(t) + 1 /\ Causes(t)' \in Nat
    BY <1>1, <2>1, <2>2 DEF Causes
  <2>4. in'[t] = 0 => in[t] = 0 /\ run'[i][t] = NoRun /\ last'[t] # "person"
    BY <1>1, <2>1, <2>2 DEF Caused, CauseGood
  <2> QED  BY <1>1, <1>4, <2>3, <2>4, NewCause
<1> QED  BY <1>3, <1>4

\* A run that the context allows begins for a cause.
LEMMA CausedCalled ==
    ASSUME Typed, Caused, NEW i \in Instances, NEW t \in Tasks,
           NEW by \in {"scanner", "portal"}, Called(i, t, by), in[t] > 0,
           UNCHANGED <<auto, in, out, last, ai, rest, known, edits, faults>>
    PROVE  Caused'
<1> SUFFICES ASSUME NEW k \in Instances, NEW u \in Tasks PROVE CauseGood(k, u)'
  BY DEF Caused
<1>1. /\ Causes(u)' = Causes(u) /\ Causes(u) \in Nat /\ Context(u)' = Context(u)
  BY CausesType DEF Causes, Context
<1>2. CASE run'[k][u] = run[k][u]
  BY <1>1, <1>2, CauseKept
<1>3. CASE run'[k][u] # run[k][u]
  <2>1. Begins(i, t) /\ \E r \in RunType : Turn(i, t, r) /\ r.phase = "hashed"
    BY <1>3, CalledFacts
  <2>2. k = i /\ u = t /\ run'[k][u].phase = "hashed"
    BY <1>3, <2>1, TurnFacts
  <2>3. run[i][t] = NoRun /\ known[i][t] # Context(t)  BY <2>1 DEF Begins
  <2>4. ai[t] + 1 <= Causes(t) /\ ai[t] <= Causes(t)
    BY <2>3 DEF Caused, CauseGood
  <2> QED  BY <1>1, <2>2, <2>4, NoRunFacts DEF CauseGood
<1> QED  BY <1>2, <1>3

LEMMA CausedLoad ==
    ASSUME Typed, Caused, NEW i \in Instances, NEW t \in Tasks, Load(i, t)
    PROVE  Caused'
<1> SUFFICES ASSUME NEW k \in Instances, NEW u \in Tasks PROVE CauseGood(k, u)'
  BY DEF Caused
<1>1. PICK r \in RunType : Turn(i, t, r) /\ r.phase = "running"
  BY LoadFacts
<1>2. UNCHANGED <<auto, in, out, last, ai, rest, known, edits, faults>>
  BY DEF Load, history
<1>3. /\ Causes(u)' = Causes(u) /\ Causes(u) \in Nat /\ Context(u)' = Context(u)
  BY <1>2, CausesType DEF Causes, Context
<1>4. CASE k = i /\ u = t
  <2>1. run'[k][u] = r /\ r # NoRun  BY <1>1, <1>4, TurnFacts, RunFacts
  <2>2. CauseGood(i, t) /\ run[i][t].phase = "hashed" /\ run[i][t] # NoRun
    BY NoRunFacts DEF Caused, Load
  <2> QED  BY <1>1, <1>2, <1>3, <1>4, <2>1, <2>2 DEF CauseGood
<1>5. CASE k # i \/ u # t
  BY <1>1, <1>2, <1>3, <1>5, TurnFacts, CauseKept
<1> QED  BY <1>4, <1>5

\* With one instance an answer uses up the cause of its run.
LEMMA CausedReply ==
    ASSUME Typed, Caused, OneInstance, NEW i \in Instances, NEW t \in Tasks,
           Reply(i, t)
    PROVE  Caused'
<1> SUFFICES ASSUME NEW k \in Instances, NEW u \in Tasks PROVE CauseGood(k, u)'
  BY DEF Caused
<1>1. PICK r \in RunType : Turn(i, t, r) /\ r.phase = "replied"
  BY ReplyFacts
<1>2. UNCHANGED <<auto, in, out, last, rest, known, edits, faults>>
  BY DEF Reply
<1>3. k = i  BY DEF OneInstance
<1>4. Causes(u)' = Causes(u) /\ Causes(u) \in Nat /\ ai[u] \in Nat
  BY <1>2, CausesType DEF Causes
<1>5. CASE u = t
  <2>1. run'[k][u] = r /\ r # NoRun  BY <1>1, <1>3, <1>5, TurnFacts, RunFacts
  <2>2. CauseGood(i, t) /\ run[i][t].phase = "running" /\ run[i][t] # NoRun
    BY NoRunFacts DEF Caused, Reply
  <2>3. ai'[u] = ai[u] + 1  BY <1>5 DEF Reply, Typed
  <2> QED  BY <1>1, <1>2, <1>3, <1>4, <1>5, <2>1, <2>2, <2>3 DEF CauseGood
<1>6. CASE u # t
  <2>1. ai'[u] = ai[u] /\ run'[k][u] = run[k][u]
    BY <1>1, <1>6, TurnFacts DEF Reply
  <2>2. Context(u)' = Context(u)  BY <1>2, <2>1 DEF Context
  <2> QED  BY <1>2, <1>4, <2>1, <2>2, CauseKept
<1> QED  BY <1>5, <1>6

LEMMA CausedEnds ==
    ASSUME Typed, Caused, NEW i \in Instances, NEW t \in Tasks, RunEnds(i, t)
    PROVE  Caused'
<1> SUFFICES ASSUME NEW k \in Instances, NEW u \in Tasks PROVE CauseGood(k, u)'
  BY DEF Caused
<1>1. /\ run[i][t] \in RunType /\ Turn(i, t, NoRun)
      /\ UNCHANGED <<auto, in, out, last, rest, edits, ai>>
  BY EndFacts
<1>2. faults' \in Nat /\ faults <= faults'
  BY Bounds DEF RunEnds, NoResponse, Settle, HashLost, WriteFails, Fails, Typed
<1>3. /\ Causes(u)' \in Nat /\ Causes(u) <= Causes(u)' /\ Causes(u) \in Nat
      /\ ai[u] \in Nat /\ Context(u)' = Context(u)
      /\ faults' = faults + 1 => Causes(u)' = Causes(u) + 1
  BY <1>1, <1>2, CausesType DEF Causes, Context
<1>4. CASE k # i \/ u # t
  <2>1. run'[k][u] = run[k][u]  BY <1>1, <1>4, TurnFacts
  <2>2. known'[k][u] = known[k][u]
    <3>1. \/ known' = known
          \/ known' = [known EXCEPT ![i][t] = run[i][t].start]
          \/ known' = [known EXCEPT ![i][t] = Context(t)]
      BY EndFacts
    <3>2. known \in [Instances -> [Tasks -> Hashes \cup {NoHash}]]
      BY DEF Typed
    <3> QED  BY <1>4, <3>1, <3>2
  <2> QED  BY <1>1, <1>3, <2>1, <2>2, CauseKept
<1>5. CASE k = i /\ u = t
  <2>1. run'[i][t] = NoRun /\ NoRun.phase = "none"
    BY <1>1, TurnFacts, NoRunFacts
  <2>2. CauseGood(i, t) /\ run[i][t] # NoRun  BY <1>1, RunFacts DEF Caused
  <2>3. in[t] # 0  BY <2>2 DEF CauseGood
  <2>4. \/ ai[t] + 1 <= Causes(t)'
        \/ known'[i][t] = Context(t)
    <3>1. CASE run[i][t].phase \in {"hashed", "running"}
      BY <1>3, <1>5, <2>2, <3>1 DEF CauseGood
    <3>2. CASE Settle(i, t)  BY <3>2 DEF Settle, Typed
    <3>3. CASE HashLost(i, t)
      <4>1. faults' = faults + 1  BY <3>3 DEF HashLost
      <4>2. ai[t] <= Causes(t)  BY <2>2 DEF CauseGood
      <4> QED  BY <1>3, <1>5, <4>1, <4>2
    <3> QED  BY <3>1, <3>2, <3>3 DEF RunEnds, NoResponse, WriteFails, Fails
  <2>5. ai[t] <= Causes(t)'  BY <1>3, <1>5, <2>2 DEF CauseGood
  <2> QED  BY <1>1, <1>3, <1>5, <2>1, <2>3, <2>4, <2>5 DEF CauseGood
<1> QED  BY <1>4, <1>5

LEMMA CausedCrash ==
    ASSUME Typed, Caused, NEW i \in Instances, Crash(i)
    PROVE  Caused'
<1> SUFFICES ASSUME NEW k \in Instances, NEW u \in Tasks PROVE CauseGood(k, u)'
  BY DEF Caused
<1>1. /\ UNCHANGED <<in, out, last, ai, edits>> /\ faults' = faults + 1
      /\ \A t \in Tasks : run'[i][t] = NoRun
      /\ \A m \in Instances : m # i => run'[m] = run[m]
  BY CrashFacts
<1>2. Causes(u)' = Causes(u) + 1 /\ Causes(u) \in Nat
  BY <1>1, CausesType DEF Causes
<1>3. in[u] = 0 => run'[k][u] = NoRun /\ last[u] # "person"
  BY <1>1 DEF Caused, CauseGood
<1> QED  BY <1>1, <1>2, <1>3, NewCause

LEMMA CausedStep ==
    ASSUME OneInstance, Typed, Caused, [Next]_vars
    PROVE  Caused'
<1>1. ASSUME UNCHANGED <<auto, in, out, last, ai, rest, known, run, edits, faults>>
      PROVE  Caused'
  BY <1>1 DEF Caused, CauseGood, Causes, Context
<1>2. ASSUME NEW t \in Tasks, NEW portals, Arrive(t, portals) PROVE Caused'
  BY <1>2, CausedTalk
<1>3. ASSUME NEW t \in Tasks, ManagerWrites(t) \/ Edit(t) PROVE Caused'
  BY <1>3, CausedTalk
<1>4. ASSUME NEW i \in Instances, NEW t \in Tasks, RunStep(i, t) PROVE Caused'
  BY <1>4, CausedTalk, CausedLoad, CausedReply, CausedEnds DEF RunStep
<1>5. ASSUME NEW i \in Instances, NEW t \in Tasks, PortalCall(i, t) PROVE Caused'
  <2>1. in[t] > 0
    <3>1. threads[i][t] \in Nat /\ threads[i][t] <= in[t] /\ in[t] \in Nat
      BY Bounds DEF Typed
    <3> QED  BY <1>5, <3>1 DEF PortalCall
  <2> QED  BY <1>5, <2>1, CausedCalled DEF PortalCall, task, history
<1>6. ASSUME ScanStart PROVE Caused'
  BY <1>1, <1>6 DEF ScanStart, task, memory, history
<1>7. ASSUME NEW t \in Tasks, ScanTask(t) PROVE Caused'
  <2>1. /\ UNCHANGED <<auto, in, out, last, ai, rest, known, edits, faults>>
        /\ leader \in Instances
    BY <1>7 DEF ScanTask, task, history, Typed
  <2>2. CASE last[t] = "person"
    <3>1. in[t] > 0  BY <2>1, <2>2, CausesType DEF Caused, CauseGood
    <3> QED  BY <1>7, <2>1, <2>2, <3>1, CausedCalled DEF ScanTask
  <2>3. CASE last[t] # "person"  BY <1>1, <1>7, <2>1, <2>3 DEF ScanTask
  <2> QED  BY <2>2, <2>3
<1>8. ASSUME NEW i \in Instances, Crash(i) PROVE Caused'
  BY <1>8, CausedCrash
<1>9. CASE UNCHANGED vars  BY <1>1, <1>9 DEF vars
<1> QED  BY <1>2, <1>3, <1>4, <1>5, <1>6, <1>7, <1>8, <1>9 DEF Next, ScanStep

-----------------------------------------------------------------------------
(* The theorems.                                                           *)

Inv == Typed /\ Waits /\ Remembered /\ TypingIsExplained

LEMMA Invariant == Spec => []Inv
<1>1. Init => Inv
  BY TypedInit, RememberedInit, TypingInit DEF Inv
<1>2. Inv /\ [Next]_vars => Inv'
  BY TypedStep, RememberedStep, TypingStep DEF Inv
<1> QED  BY <1>1, <1>2, PTL DEF Spec

\* The runs, threads and hashes of every instance are well formed, and a scan
\* waits only for a run that holds its task's lock on the scanner's instance
\* (agent_task_autoreply, _scan_once).
THEOREM AutoreplyTypeCorrect == Spec => []TypeOK
<1>1. Inv => TypeOK
  <2> SUFFICES ASSUME Inv PROVE TypeOK
    OBVIOUS
  <2>1. threads \in [Instances -> [Tasks -> 0..MaxIn]]
    <3>1. ASSUME NEW i \in Instances, NEW t \in Tasks
          PROVE  threads[i][t] \in 0..MaxIn
      BY Bounds DEF Inv, Typed
    <3> QED  BY <3>1 DEF Inv, Typed
  <2> QED  BY <2>1 DEF Inv, Typed, Waits, TypeOK
<1> QED  BY Invariant, <1>1, PTL

\* A hash under which an instance skips a task was left by a run that had read
\* the last message which met no run, for any number of instances.
THEOREM SkippedHadBeenHeard == Spec => []SkippedWasHeard
<1>1. Inv => SkippedWasHeard
  <2> SUFFICES ASSUME Inv, NEW i \in Instances, NEW t \in Tasks,
                      known[i][t] = Context(t)
               PROVE  calm[t] <= heard[t]
    BY DEF SkippedWasHeard
  <2>1. Context(t) # NoHash /\ Context(t)[4] = Talk(t)
    BY ContextType DEF Inv
  <2>2. HashGood(i, t)  BY DEF Inv, Remembered
  <2> QED  BY <2>1, <2>2 DEF HashGood
<1> QED  BY Invariant, <1>1, PTL

\* The typing indicator is on during a run of its task, or because one failed or
\* could not clear it, and none has cleared it since.
THEOREM IndicatorExplained == Spec => []TypingIsExplained
<1>1. Inv => TypingIsExplained  BY DEF Inv
<1> QED  BY Invariant, <1>1, PTL

\* On one instance the answers of the agent never outnumber the messages, the
\* changes of the task and the lost hashes: it does not answer itself.
THEOREM AnswersAreCaused ==
    ASSUME OneInstance
    PROVE  Spec => []AnswersHaveCause
<1>1. Init => Caused  BY CausedInit
<1>2. Inv /\ Caused /\ [Next]_vars => Caused'
  BY CausedStep DEF Inv
<1>3. Inv /\ Caused => AnswersHaveCause
  BY AutoreplyAssumption DEF Caused, CauseGood, Causes, AnswersHaveCause
<1> QED  BY Invariant, <1>1, <1>2, <1>3, PTL DEF Spec

-----------------------------------------------------------------------------
(* The reviews of tasks (TaskReview).                                      *)

Reviews == ReviewType \cup {NoReview}

\* The types of the state; nothing is read or marked before it comes.
ReviewTyped ==
    /\ active \in [TaskIds -> BOOLEAN] /\ cool \in [TaskIds -> BOOLEAN]
    /\ msgs \in [TaskIds -> 0..MaxMsgs]
    /\ mark \in [TaskIds -> Nat] /\ read \in [TaskIds -> Nat]
    /\ passed \in [TaskIds -> Nat] /\ astray \in [TaskIds -> Nat]
    /\ quiet \in [TaskIds -> Nat]
    /\ \A t \in TaskIds : mark[t] <= msgs[t] /\ read[t] <= msgs[t]
                        /\ passed[t] <= msgs[t] /\ astray[t] <= msgs[t]
                        /\ quiet[t] <= msgs[t]
    /\ status \in [TaskIds -> Statuses \cup {"none"}]
    /\ card \in [TaskIds -> Statuses \cup {"none"}]
    /\ todo \in Seq(TaskIds)
    /\ \A m, n \in DOMAIN todo : todo[m] = todo[n] => m = n
    /\ review \in [Jobs -> Reviews]
    /\ \A j \in Jobs :
          review[j] # NoReview => review[j].seen <= msgs[review[j].task]
    /\ failures \in 0..MaxFailures
    /\ spoiled \subseteq TaskIds

\* last_reviewed_at orders the reviewed tasks.
Ordered ==
    LET done == {t \in TaskIds : Reviewed(t)} IN
    /\ order \subseteq done \X done
    /\ \A t \in done : <<t, t>> \notin order
    /\ \A t, u \in done :
          t # u => (<<t, u>> \in order <=> <<u, t>> \notin order)
    /\ \A t, u, v \in done :
          <<t, u>> \in order /\ <<u, v>> \in order => <<t, v>> \in order

\* A review under way has read what came before it; where its result is recorded
\* the columns cover all that.
Sees(r) ==
    r # NoReview =>
       /\ quiet[r.task] <= r.seen
       /\ r.fresh \/ r.phase = "recorded" =>
             Reviewed(r.task) /\ r.seen <= mark[r.task]

\* What the columns of a task cover was read by a review that recorded, or came
\* while one was under way, or was there when another turn recorded.
Passed(t) ==
    Reviewed(t) /\ msgs[t] <= mark[t] =>
       /\ msgs[t] <= read[t] \/ msgs[t] <= passed[t] \/ msgs[t] <= astray[t]
       /\ quiet[t] <= read[t] \/ quiet[t] <= astray[t]

Covered ==
    (\A j \in Jobs : Sees(review[j])) /\ \A t \in TaskIds : Passed(t)

-----------------------------------------------------------------------------
(* Steps of reviews.                                                       *)

LEMMA ReviewFacts ==
    ASSUME NEW r \in ReviewType
    PROVE  /\ r # NoReview /\ r.phase \in {"running", "recorded"}
           /\ r.task \in TaskIds /\ r.seen \in 0..MaxMsgs /\ r.fresh \in BOOLEAN
           /\ r = [phase |-> r.phase, task |-> r.task, seen |-> r.seen,
                   fresh |-> r.fresh]
  BY DEF ReviewType, NoReview

LEMMA NoReviewFacts == NoReview.phase = "none" /\ NoReview \notin ReviewType
  BY DEF NoReview, ReviewType

LEMMA MaxOfTwo ==
    ASSUME NEW m \in Nat, NEW n \in Nat
    PROVE  /\ Max({m, n}) \in {m, n}
           /\ m <= Max({m, n}) /\ n <= Max({m, n})
<1>1. \E x \in {m, n} : \A y \in {m, n} : x >= y
  OBVIOUS
<1>2. Max({m, n}) \in {m, n} /\ \A y \in {m, n} : Max({m, n}) >= y
  BY <1>1 DEF Max
<1> QED  BY <1>2

LEMMA MaxOfThree ==
    ASSUME NEW l \in Nat, NEW m \in Nat, NEW n \in Nat
    PROVE  /\ Max({l, m, n}) \in Nat
           /\ l <= Max({l, m, n}) /\ m <= Max({l, m, n}) /\ n <= Max({l, m, n})
<1>1. \E x \in {l, m, n} : \A y \in {l, m, n} : x >= y
  OBVIOUS
<1>2. /\ Max({l, m, n}) \in {l, m, n}
      /\ \A y \in {l, m, n} : Max({l, m, n}) >= y
  BY <1>1 DEF Max
<1> QED  BY <1>2

\* The review r of the same task, with the same messages.
Alike(r, q) ==
    r \in ReviewType /\ q \in ReviewType /\ q.task = r.task /\ q.seen = r.seen

\* The review becomes q in one step, in which the task t is recorded.
Follows(r, q, t) ==
    \/ r = q /\ (r = NoReview \/ r.task # t)
    \/ Alike(r, q) /\ r.task = t /\ q.fresh

LEMMA FreshenedFacts ==
    ASSUME ReviewTyped, NEW t \in TaskIds, NEW rs,
           rs = Freshened(review, t)
    PROVE  /\ rs \in [Jobs -> Reviews]
           /\ \A k \in Jobs :
                 /\ rs[k] = NoReview <=> review[k] = NoReview
                 /\ Follows(review[k], rs[k], t)
                 /\ rs[k].phase = review[k].phase
<1> SUFFICES ASSUME NEW k \in Jobs
             PROVE  /\ rs[k] \in Reviews
                    /\ rs[k] = NoReview <=> review[k] = NoReview
                    /\ Follows(review[k], rs[k], t)
                    /\ rs[k].phase = review[k].phase
  BY DEF Freshened
<1>1. review[k] \in Reviews  BY DEF ReviewTyped
<1>2. CASE review[k] = NoReview
  <2>1. rs[k] = review[k]  BY <1>2, NoReviewFacts DEF Freshened
  <2> QED  BY <1>2, <2>1 DEF Follows, Reviews
<1>3. CASE review[k] \in ReviewType /\ review[k].task = t
  <2>1. rs[k] = [review[k] EXCEPT !.fresh = TRUE]
    BY <1>3, ReviewFacts DEF Freshened
  <2>2. rs[k] = [phase |-> review[k].phase, task |-> review[k].task,
                 seen |-> review[k].seen, fresh |-> TRUE]
    BY <1>3, <2>1, ReviewFacts
  <2>3. rs[k] \in ReviewType  BY <1>3, <2>2, ReviewFacts DEF ReviewType
  <2>4. Alike(review[k], rs[k])  BY <1>3, <2>2, <2>3 DEF Alike
  <2> QED  BY <1>3, <2>2, <2>3, <2>4, ReviewFacts DEF Follows, Reviews
<1>4. CASE review[k] \in ReviewType /\ review[k].task # t
  <2>1. rs[k] = review[k]  BY <1>4 DEF Freshened
  <2> QED  BY <1>4, <2>1 DEF Follows, Reviews
<1> QED  BY <1>1, <1>2, <1>3, <1>4 DEF Reviews

\* The review j of t, or another turn, has the result of t recorded.
OwnRecord(j, t) ==
    /\ review[j] \in ReviewType /\ review[j].task = t /\ Settled(j, t)
    /\ UNCHANGED <<failures, astray, spoiled>>

OtherRecord(t) ==
    /\ failures < MaxFailures /\ failures' = failures + 1
    /\ astray' = [astray EXCEPT ![t] = msgs[t]]
    /\ spoiled' = spoiled \cup {t}
    /\ UNCHANGED <<read, passed>>

\* A result is recorded: the tool's call, or the one in its stead.
Records(t, s) ==
    /\ Recorded(t, s)
    /\ review' \in [Jobs -> Reviews]
    /\ \A k \in Jobs :
          /\ review'[k] = NoReview <=> review[k] = NoReview
          /\ Follows(review[k], review'[k], t)
    /\ (\E j \in Jobs : OwnRecord(j, t)) \/ OtherRecord(t)
    /\ UNCHANGED <<active, msgs, card, todo, quiet>>

LEMMA RunningFacts ==
    ASSUME ReviewTyped, NEW j \in Jobs,
           review[j].phase \in {"running", "recorded"}
    PROVE  review[j] \in ReviewType
  BY NoReviewFacts DEF ReviewTyped, Reviews

LEMMA RecordFacts ==
    ASSUME ReviewTyped, NEW j \in Jobs, NEW s \in Decisions, Record(j, s)
    PROVE  review[j].task \in TaskIds /\ Records(review[j].task, s)
<1>1. review[j] \in ReviewType  BY RunningFacts DEF Record
<1>2. review[j].task \in TaskIds  BY <1>1, ReviewFacts
<1>3. PICK t \in TaskIds : t = review[j].task  BY <1>2
<1>4. /\ Recorded(t, s) /\ review' = Freshened(review, t)
      /\ OwnRecord(j, t)
      /\ UNCHANGED <<active, msgs, card, todo, quiet>>
  BY <1>1, <1>3 DEF Record, OwnRecord
<1>5. Records(t, s)  BY <1>4, FreshenedFacts DEF Records
<1> QED  BY <1>3, <1>5

LEMMA ElsewhereFacts ==
    ASSUME ReviewTyped, NEW t \in TaskIds, NEW s \in Decisions,
           RecordElsewhere(t, s)
    PROVE  Records(t, s)
<1>1. /\ Recorded(t, s) /\ review' = Freshened(review, t)
      /\ OtherRecord(t)
      /\ UNCHANGED <<active, msgs, card, todo, quiet>>
  BY DEF RecordElsewhere, OtherRecord
<1> QED  BY <1>1, FreshenedFacts DEF Records

\* The run under way is found recorded, or its task is recorded as blocked.
LEMMA EnsureFacts ==
    ASSUME ReviewTyped, NEW j \in Jobs, Ensure(j)
    PROVE  /\ review[j] \in ReviewType
           /\ \/ /\ review[j].fresh /\ review' \in [Jobs -> Reviews]
                 /\ \A k \in Jobs : k # j => review'[k] = review[k]
                 /\ Alike(review[j], review'[j]) /\ review'[j].fresh
                 /\ UNCHANGED <<active, msgs, order, mark, cool, status, card,
                                todo, failures, read, passed, astray, quiet,
                                spoiled>>
              \/ Records(review[j].task, "blocked")
<1>1. review[j] \in ReviewType  BY RunningFacts DEF Ensure
<1> DEFINE t == review[j].task
<1>2. t \in TaskIds  BY <1>1, ReviewFacts
<1>3. UNCHANGED <<active, msgs, card, todo, failures, astray, quiet, spoiled>>
  BY DEF Ensure
<1>4. ASSUME NEW r \in ReviewType
      PROVE  /\ [r EXCEPT !.phase = "recorded"] =
                   [phase |-> "recorded", task |-> r.task, seen |-> r.seen,
                    fresh |-> r.fresh]
             /\ Alike(r, [r EXCEPT !.phase = "recorded"])
             /\ [r EXCEPT !.phase = "recorded"].fresh = r.fresh
  <2>1. [r EXCEPT !.phase = "recorded"] =
           [phase |-> "recorded", task |-> r.task, seen |-> r.seen,
            fresh |-> r.fresh]
    BY ReviewFacts
  <2>2. [r EXCEPT !.phase = "recorded"] \in ReviewType
    BY <2>1, ReviewFacts DEF ReviewType
  <2> QED  BY <2>1, <2>2 DEF Alike
<1>5. CASE review[j].fresh
  <2>1. /\ review' = [review EXCEPT ![j].phase = "recorded"]
        /\ UNCHANGED <<order, mark, cool, status, read, passed>>
    BY <1>5 DEF Ensure, columns
  <2>2. /\ review'[j] = [review[j] EXCEPT !.phase = "recorded"]
        /\ \A k \in Jobs : k # j => review'[k] = review[k]
        /\ DOMAIN review' = Jobs /\ review' = [k \in Jobs |-> review'[k]]
    BY <2>1 DEF ReviewTyped
  <2>3. Alike(review[j], review'[j]) /\ review'[j].fresh
    BY <1>1, <1>4, <1>5, <2>2
  <2>4. review' \in [Jobs -> Reviews]
    BY <2>2, <2>3 DEF ReviewTyped, Alike, Reviews
  <2> QED  BY <1>1, <1>3, <1>5, <2>1, <2>2, <2>3, <2>4
<1>6. CASE ~review[j].fresh
  <2>1. PICK rs : rs = Freshened(review, t)  OBVIOUS
  <2>2. /\ Recorded(t, "blocked")
        /\ review' = [rs EXCEPT ![j].phase = "recorded"]
        /\ Settled(j, t)
    BY <1>6, <2>1 DEF Ensure
  <2>3. /\ rs \in [Jobs -> Reviews]
        /\ \A k \in Jobs : /\ rs[k] = NoReview <=> review[k] = NoReview
                           /\ Follows(review[k], rs[k], t)
    BY <1>2, <2>1, FreshenedFacts
  <2>4. /\ review'[j] = [rs[j] EXCEPT !.phase = "recorded"]
        /\ \A k \in Jobs : k # j => review'[k] = rs[k]
        /\ review' = [k \in Jobs |-> review'[k]]
    BY <2>2, <2>3
  <2>5. rs[j] \in ReviewType
    BY <1>1, <2>3, NoReviewFacts DEF Reviews
  <2>6. Alike(rs[j], review'[j]) /\ review'[j].fresh = rs[j].fresh
    BY <1>4, <2>4, <2>5
  <2>7. /\ rs[j].task = review[j].task /\ rs[j].seen = review[j].seen
        /\ rs[j].fresh
    <3>1. Follows(review[j], rs[j], t)  BY <2>3
    <3>2. review[j] # NoReview  BY <1>1, NoReviewFacts
    <3> QED  BY <3>1, <3>2 DEF Follows, Alike
  <2>8. /\ Alike(review[j], review'[j]) /\ review'[j] # NoReview
        /\ review'[j].fresh
    BY <1>1, <2>6, <2>7, NoReviewFacts DEF Alike
  <2>9. review' \in [Jobs -> Reviews]
    BY <2>3, <2>4, <2>8 DEF Alike, Reviews
  <2>10. \A k \in Jobs : /\ review'[k] = NoReview <=> review[k] = NoReview
                         /\ Follows(review[k], review'[k], t)
    <3> SUFFICES ASSUME NEW k \in Jobs
                 PROVE  /\ review'[k] = NoReview <=> review[k] = NoReview
                        /\ Follows(review[k], review'[k], t)
      OBVIOUS
    <3>1. CASE k = j
      <4>1. review[j] # NoReview  BY <1>1, ReviewFacts
      <4>2. Follows(review[j], review'[j], t)  BY <2>8 DEF Follows
      <4> QED  BY <2>8, <3>1, <4>1, <4>2
    <3>2. CASE k # j
      <4>1. review'[k] = rs[k]  BY <2>4, <3>2
      <4> QED  BY <2>3, <4>1
    <3> QED  BY <3>1, <3>2
  <2>11. OwnRecord(j, t)  BY <1>1, <1>3, <2>2 DEF OwnRecord
  <2> QED  BY <1>1, <1>3, <2>2, <2>9, <2>10, <2>11 DEF Records
<1> QED  BY <1>5, <1>6

\* A review begins.
LEMMA BeganFacts ==
    ASSUME ReviewTyped, NEW j \in Jobs, NEW t \in TaskIds,
           review' = [review EXCEPT ![j] = Began(t)]
    PROVE  /\ review' \in [Jobs -> Reviews]
           /\ \A k \in Jobs : k # j => review'[k] = review[k]
           /\ review'[j] \in ReviewType
           /\ review'[j].task = t /\ review'[j].seen = msgs[t]
           /\ review'[j].phase = "running" /\ ~review'[j].fresh
  BY ReviewAssumption DEF ReviewTyped, Began, ReviewType, Reviews

\* A review ends.
LEMMA EndsFacts ==
    ASSUME ReviewTyped, NEW j \in Jobs, ReviewEnds(j)
    PROVE  /\ review' \in [Jobs -> Reviews]
           /\ \A k \in Jobs : k # j => review'[k] = review[k]
           /\ review'[j] = NoReview
           /\ UNCHANGED <<active, msgs, order, mark, cool, status, read, passed,
                          astray, quiet>>
  BY DEF ReviewTyped, ReviewEnds, columns, Reviews

\* What every action leaves of the sweep's list.
LEMMA TailFacts ==
    ASSUME ReviewTyped, todo # <<>>
    PROVE  /\ Head(todo) \in TaskIds /\ Tail(todo) \in Seq(TaskIds)
           /\ \A m, n \in DOMAIN Tail(todo) :
                 Tail(todo)[m] = Tail(todo)[n] => m = n
<1>1. todo \in Seq(TaskIds)  BY DEF ReviewTyped
<1>2. Len(todo) \in Nat /\ DOMAIN todo = 1..Len(todo)  BY <1>1
<1>3. Head(todo) \in TaskIds /\ Tail(todo) \in Seq(TaskIds)  BY <1>1
<1>4. /\ DOMAIN Tail(todo) = 1..(Len(todo) - 1)
      /\ \A m \in DOMAIN Tail(todo) :
            m + 1 \in DOMAIN todo /\ Tail(todo)[m] = todo[m + 1]
  BY <1>1, <1>2
<1> QED  BY <1>2, <1>3, <1>4 DEF ReviewTyped

LEMMA DueFacts ==
    ASSUME ReviewTyped, Ordered, NEW s \in DueTasks
    PROVE  s \in Seq(TaskIds) /\ \A m, n \in DOMAIN s : s[m] = s[n] => m = n
<1> DEFINE due == {t \in TaskIds : IsDue(t)}
           size == Cardinality(due)
<1>1. size \in Nat
  <2>1. due \in SUBSET TaskIds  OBVIOUS
  <2>2. IsFiniteSet(TaskIds)  BY ReviewAssumption
  <2> HIDE DEF due
  <2> QED  BY <2>1, <2>2, FS_Subset, FS_CardinalityType
<1>2. /\ s \in [1..size -> due]
      /\ \A m, n \in DOMAIN s : m < n => Before(s[m], s[n])
  BY DEF DueTasks
<1> HIDE DEF size
<1>3. ASSUME NEW t \in TaskIds PROVE ~Before(t, t)
  <2>1. t \in Nat /\ ~(t < t)  BY ReviewAssumption
  <2>2. <<t, t>> \notin order  BY DEF Ordered
  <2> QED  BY <2>1, <2>2 DEF Before
<1>4. ASSUME NEW m \in DOMAIN s, NEW n \in DOMAIN s, s[m] = s[n]
      PROVE  m = n
  <2>1. m \in Nat /\ n \in Nat /\ s[m] \in TaskIds  BY <1>1, <1>2, <1>4
  <2>2. ~(m < n) /\ ~(n < m)  BY <1>2, <1>3, <1>4, <2>1
  <2> QED  BY <2>1, <2>2
<1>5. s \in Seq(due) /\ due \subseteq TaskIds  BY <1>1, <1>2
<1> QED  BY <1>4, <1>5

\* The columns of the recorded task.
LEMMA ColumnFacts ==
    ASSUME ReviewTyped, NEW t \in TaskIds, NEW s \in Statuses, Records(t, s)
    PROVE  /\ mark' \in [TaskIds -> Nat] /\ mark'[t] = msgs[t]
           /\ status' \in [TaskIds -> Statuses \cup {"none"}] /\ status'[t] = s
           /\ cool' \in [TaskIds -> BOOLEAN]
           /\ \A u \in TaskIds : u # t => /\ mark'[u] = mark[u]
                                          /\ status'[u] = status[u]
<1>1. /\ mark' = [mark EXCEPT ![t] = msgs[t]]
      /\ cool' = [cool EXCEPT ![t] = TRUE]
      /\ status' = [status EXCEPT ![t] = s]
  BY DEF Records, Recorded
<1>2. \A u \in TaskIds : msgs[u] \in Nat  BY DEF ReviewTyped
<1> QED  BY <1>1, <1>2 DEF ReviewTyped

\* What the histories tell of the recorded task, and that they leave the others.
LEMMA HistoryFacts ==
    ASSUME ReviewTyped, NEW t \in TaskIds,
           (\E j \in Jobs : OwnRecord(j, t)) \/ OtherRecord(t)
    PROVE  /\ read' \in [TaskIds -> Nat] /\ passed' \in [TaskIds -> Nat]
           /\ astray' \in [TaskIds -> Nat]
           /\ \A u \in TaskIds : /\ read'[u] <= msgs[u] /\ passed'[u] <= msgs[u]
                                 /\ astray'[u] <= msgs[u]
           /\ \A u \in TaskIds : u # t =>
                 UNCHANGED <<read[u], passed[u], astray[u]>>
           /\ \/ msgs[t] <= read'[t] \/ msgs[t] <= passed'[t]
              \/ msgs[t] <= astray'[t]
           /\ (\A k \in Jobs : Sees(review[k])) =>
                 quiet[t] <= read'[t] \/ quiet[t] <= astray'[t]
           /\ failures' \in 0..MaxFailures
           /\ spoiled' \subseteq TaskIds /\ spoiled \subseteq spoiled'
           /\ t \in spoiled' \/ \E j \in Jobs : OwnRecord(j, t)
<1>1. /\ \A u \in TaskIds : /\ msgs[u] \in Nat /\ read[u] \in Nat
                            /\ passed[u] \in Nat /\ astray[u] \in Nat
                            /\ quiet[u] \in Nat /\ quiet[u] <= msgs[u]
                            /\ read[u] <= msgs[u] /\ passed[u] <= msgs[u]
                            /\ astray[u] <= msgs[u]
      /\ read \in [TaskIds -> Nat] /\ passed \in [TaskIds -> Nat]
      /\ astray \in [TaskIds -> Nat]
      /\ failures \in 0..MaxFailures /\ spoiled \subseteq TaskIds
  BY DEF ReviewTyped
<1>2. ASSUME NEW j \in Jobs, OwnRecord(j, t)
      PROVE  /\ read' \in [TaskIds -> Nat] /\ passed' \in [TaskIds -> Nat]
             /\ read'[t] <= msgs[t] /\ passed'[t] <= msgs[t]
             /\ \A u \in TaskIds : u # t => UNCHANGED <<read[u], passed[u]>>
             /\ msgs[t] <= read'[t] \/ msgs[t] <= passed'[t]
             /\ Sees(review[j]) => quiet[t] <= read'[t]
  <2>1. /\ review[j].seen \in Nat /\ review[j].seen <= msgs[t]
        /\ review[j] # NoReview /\ review[j].task = t
    BY <1>2, ReviewFacts DEF OwnRecord, ReviewTyped
  <2>2. PICK n \in Nat : /\ n = Max({read[t], review[j].seen})
                         /\ n <= msgs[t] /\ review[j].seen <= n
    <3>1. PICK l \in Nat, m \in Nat : l = read[t] /\ m = review[j].seen
      BY <1>1, <2>1
    <3>2. Max({l, m}) \in {l, m} /\ m <= Max({l, m})  BY MaxOfTwo
    <3>3. l <= msgs[t] /\ m <= msgs[t]  BY <1>1, <2>1, <3>1
    <3> QED  BY <3>1, <3>2, <3>3
  <2>3. read' = [read EXCEPT ![t] = n]
    BY <1>2, <2>2 DEF OwnRecord, Settled
  <2>4. passed' = IF review[j].seen < msgs[t]
                  THEN [passed EXCEPT ![t] = msgs[t]] ELSE passed
    BY <1>2 DEF OwnRecord, Settled
  <2>5. /\ read' \in [TaskIds -> Nat] /\ read'[t] = n
        /\ \A u \in TaskIds : u # t => read'[u] = read[u]
    BY <1>1, <2>3
  <2>6. /\ passed' \in [TaskIds -> Nat] /\ passed'[t] <= msgs[t]
        /\ \A u \in TaskIds : u # t => passed'[u] = passed[u]
        /\ review[j].seen < msgs[t] => passed'[t] = msgs[t]
    BY <1>1, <2>4
  <2>7. msgs[t] <= n \/ msgs[t] <= passed'[t]
    BY <1>1, <2>1, <2>2, <2>6
  <2>8. Sees(review[j]) => quiet[t] <= review[j].seen
    BY <2>1 DEF Sees
  <2> QED  BY <1>1, <2>1, <2>2, <2>5, <2>6, <2>7, <2>8
<1>3. CASE \E j \in Jobs : OwnRecord(j, t)
  <2>1. PICK j \in Jobs : OwnRecord(j, t)  BY <1>3
  <2>2. UNCHANGED <<failures, astray, spoiled>>  BY <2>1 DEF OwnRecord
  <2> QED  BY <1>1, <1>2, <2>1, <2>2
<1>4. CASE OtherRecord(t)
  <2>1. /\ failures < MaxFailures /\ failures' = failures + 1
        /\ astray' = [astray EXCEPT ![t] = msgs[t]]
        /\ spoiled' = spoiled \cup {t}
        /\ UNCHANGED <<read, passed>>
    BY <1>4 DEF OtherRecord
  <2>2. /\ astray' \in [TaskIds -> Nat] /\ astray'[t] = msgs[t]
        /\ \A u \in TaskIds : u # t => astray'[u] = astray[u]
    BY <1>1, <2>1
  <2>3. failures' \in 0..MaxFailures  BY <1>1, <2>1, ReviewAssumption
  <2> QED  BY <1>1, <2>1, <2>2, <2>3
<1> QED  BY <1>3, <1>4

-----------------------------------------------------------------------------
(* The types.                                                              *)

LEMMA ReviewTypedInit ==
    ASSUME ReviewInit
    PROVE  ReviewTyped /\ Ordered
<1>1. ReviewTyped
  BY ReviewAssumption DEF ReviewInit, ReviewTyped, Reviews, NoReview
<1>2. Ordered
  BY DEF ReviewInit, Ordered, Reviewed
<1> QED  BY <1>1, <1>2

LEMMA TypedRecords ==
    ASSUME ReviewTyped, NEW t \in TaskIds, NEW s \in Statuses, Records(t, s)
    PROVE  ReviewTyped'
<1>1. UNCHANGED <<active, msgs, card, todo, quiet>>  BY DEF Records
<1>2. \A u \in TaskIds : mark'[u] <= msgs[u]
  <2>1. \A u \in TaskIds : mark[u] <= msgs[u] /\ msgs[u] \in Nat
    BY DEF ReviewTyped
  <2>2. mark'[t] = msgs[t] /\ \A u \in TaskIds : u # t => mark'[u] = mark[u]
    BY ColumnFacts
  <2> QED  BY <2>1, <2>2
<1>3. \A k \in Jobs : review'[k] # NoReview =>
         review'[k].seen <= msgs[review'[k].task]
  BY DEF Records, Follows, Alike, ReviewTyped
<1>4. review' \in [Jobs -> Reviews]  BY DEF Records
<1>5. /\ read' \in [TaskIds -> Nat] /\ passed' \in [TaskIds -> Nat]
      /\ astray' \in [TaskIds -> Nat]
      /\ \A u \in TaskIds : /\ read'[u] <= msgs[u] /\ passed'[u] <= msgs[u]
                            /\ astray'[u] <= msgs[u]
      /\ failures' \in 0..MaxFailures /\ spoiled' \subseteq TaskIds
  BY HistoryFacts DEF Records
<1> QED  BY <1>1, <1>2, <1>3, <1>4, <1>5, ColumnFacts DEF ReviewTyped

LEMMA OrderedRecords ==
    ASSUME ReviewTyped, Ordered, NEW t \in TaskIds, NEW s \in Statuses,
           Recorded(t, s)
    PROVE  Ordered'
<1>1. /\ status'[t] = s /\ s # "none"
      /\ \A u \in TaskIds : u # t => status'[u] = status[u]
  BY ReviewAssumption DEF ReviewTyped, Recorded, Statuses
<1> DEFINE done == {u \in TaskIds : Reviewed(u)}
           others == done \ {t}
<1>2. Reviewed(t)' /\ \A u \in TaskIds : u # t => (Reviewed(u)' <=> u \in done)
  BY <1>1 DEF Reviewed
<1>3. {u \in TaskIds : Reviewed(u)'} = others \cup {t}
  BY <1>2
<1>4. order' = {p \in order : t \notin {p[1], p[2]}} \cup (others \X {t})
  BY DEF Recorded
<1>5. order \subseteq done \X done  BY DEF Ordered
<1> HIDE DEF done
<1>6. \A u, v : <<u, v>> \in order' <=>
         \/ <<u, v>> \in order /\ u # t /\ v # t
         \/ u \in others /\ v = t
  BY <1>4
<1>7. \A p \in order' : \E u, v : p = <<u, v>>
  BY <1>4, <1>5
<1>8. order' \subseteq (others \cup {t}) \X (others \cup {t})
  BY <1>5, <1>6, <1>7
<1>9. /\ \A u \in done : <<u, u>> \notin order
      /\ \A u, v \in done :
            u # v => (<<u, v>> \in order <=> <<v, u>> \notin order)
      /\ \A u, v, w \in done :
            <<u, v>> \in order /\ <<v, w>> \in order => <<u, w>> \in order
  BY DEF Ordered, done
<1>10. /\ \A u \in others \cup {t} : <<u, u>> \notin order'
       /\ \A u, v \in others \cup {t} :
             u # v => (<<u, v>> \in order' <=> <<v, u>> \notin order')
       /\ \A u, v, w \in others \cup {t} :
             <<u, v>> \in order' /\ <<v, w>> \in order' => <<u, w>> \in order'
  BY <1>6, <1>9
<1> QED  BY <1>3, <1>8, <1>10 DEF Ordered

\* The sweep and the managers' triggers touch no column.
LEMMA ReviewTypedStep ==
    ASSUME ReviewTyped, Ordered, [ReviewNext]_reviewVars
    PROVE  ReviewTyped' /\ Ordered'
<1>1. ASSUME UNCHANGED <<order, status>> PROVE Ordered'
  BY <1>1 DEF Ordered, Reviewed
<1>2. ASSUME NEW t \in TaskIds, MessageArrives(t) PROVE ReviewTyped' /\ Ordered'
  <2>1. /\ msgs' = [msgs EXCEPT ![t] = @ + 1] /\ msgs[t] < MaxMsgs
        /\ quiet' = quiet \/ quiet' = [quiet EXCEPT ![t] = msgs[t] + 1]
        /\ UNCHANGED <<active, order, mark, cool, status, card, todo, review,
                       failures, read, passed, astray, spoiled>>
    BY <1>2 DEF MessageArrives, columns
  <2>2. MaxMsgs \in Nat  BY ReviewAssumption
  <2>3. /\ msgs' \in [TaskIds -> 0..MaxMsgs] /\ msgs'[t] = msgs[t] + 1
        /\ \A u \in TaskIds : /\ msgs[u] <= msgs'[u]
                              /\ msgs[u] \in Nat /\ msgs'[u] \in Nat
    <3>1. \A u \in TaskIds : msgs[u] \in 0..MaxMsgs  BY DEF ReviewTyped
    <3>2. msgs' \in [TaskIds -> 0..MaxMsgs] /\ msgs'[t] = msgs[t] + 1
      BY <2>1, <2>2, <3>1 DEF ReviewTyped
    <3>3. \A u \in TaskIds : u # t => msgs'[u] = msgs[u]
      BY <2>1 DEF ReviewTyped
    <3>4. \A u \in TaskIds : msgs[u] \in Nat  BY <2>2, <3>1
    <3> QED  BY <3>2, <3>3, <3>4
  <2>4. /\ quiet' \in [TaskIds -> Nat]
        /\ \A u \in TaskIds : quiet'[u] <= msgs'[u] /\ mark'[u] <= msgs'[u]
                             /\ read'[u] <= msgs'[u] /\ passed'[u] <= msgs'[u]
                             /\ astray'[u] <= msgs'[u]
    <3>1. \A u \in TaskIds : /\ {msgs[u], msgs'[u]} \subseteq Nat
                             /\ msgs[u] <= msgs'[u]
                             /\ mark[u] <= msgs[u] /\ read[u] <= msgs[u]
                             /\ passed[u] <= msgs[u] /\ astray[u] <= msgs[u]
                             /\ quiet[u] <= msgs[u]
                             /\ {mark[u], read[u], passed[u], astray[u],
                                 quiet[u]} \subseteq Nat
      BY <2>2, <2>3 DEF ReviewTyped
    <3>2. UNCHANGED <<mark, read, passed, astray>>  BY <2>1
    <3>3. /\ quiet' \in [TaskIds -> Nat]
          /\ \A u \in TaskIds : quiet'[u] = quiet[u] \/ quiet'[u] = msgs'[u]
      BY <2>1, <2>3, <3>1 DEF ReviewTyped
    <3> QED  BY <3>1, <3>2, <3>3
  <2>5. ASSUME NEW k \in Jobs, review[k] # NoReview
        PROVE  review[k].seen <= msgs'[review[k].task]
    <3>1. review[k] \in ReviewType  BY <2>5 DEF ReviewTyped, Reviews
    <3>2. /\ review[k].task \in TaskIds /\ review[k].seen \in Nat
          /\ review[k].seen <= msgs[review[k].task]
      BY <2>2, <2>5, <3>1, ReviewFacts DEF ReviewTyped
    <3>3. PICK u \in TaskIds : u = review[k].task  BY <3>2
    <3>4. msgs[u] <= msgs'[u] /\ msgs[u] \in Nat /\ msgs'[u] \in Nat
      BY <2>3
    <3> QED  BY <3>2, <3>3, <3>4
  <2> QED  BY <1>1, <2>1, <2>3, <2>4, <2>5 DEF ReviewTyped
<1>3. ASSUME NEW t \in TaskIds, Toggle(t) \/ CooldownEnds(t)
      PROVE  ReviewTyped' /\ Ordered'
  BY <1>1, <1>3 DEF Toggle, CooldownEnds, columns, reviewHistory, ReviewTyped
<1>4. ASSUME NEW t \in TaskIds, NEW s \in Statuses, Records(t, s)
      PROVE  ReviewTyped' /\ Ordered'
  BY <1>4, TypedRecords, OrderedRecords DEF Records
<1>14. ASSUME NEW j \in Jobs, NEW s \in Decisions, Record(j, s)
       PROVE  ReviewTyped' /\ Ordered'
  <2>1. s \in Statuses  BY DEF Statuses
  <2> QED  BY <1>4, <1>14, <2>1, RecordFacts
<1>15. ASSUME NEW t \in TaskIds, NEW s \in Decisions, RecordElsewhere(t, s)
       PROVE  ReviewTyped' /\ Ordered'
  <2>1. s \in Statuses  BY DEF Statuses
  <2> QED  BY <1>4, <1>15, <2>1, ElsewhereFacts
<1>5. ASSUME NEW j \in Jobs, Ensure(j) PROVE ReviewTyped' /\ Ordered'
  <2>1. review[j] \in ReviewType  BY <1>5, EnsureFacts
  <2>2. CASE Records(review[j].task, "blocked")
    <3>1. review[j].task \in TaskIds /\ "blocked" \in Statuses
      BY <2>1, ReviewFacts DEF Statuses
    <3> QED  BY <1>4, <2>2, <3>1
  <2>3. CASE ~Records(review[j].task, "blocked")
    <3>1. /\ review' \in [Jobs -> Reviews]
          /\ \A k \in Jobs : k # j => review'[k] = review[k]
          /\ Alike(review[j], review'[j])
          /\ UNCHANGED <<active, msgs, order, mark, cool, status, card, todo,
                         failures, read, passed, astray, quiet, spoiled>>
      BY <1>5, <2>3, EnsureFacts
    <3>2. review[j] # NoReview  BY <2>1, ReviewFacts
    <3>3. ASSUME NEW k \in Jobs, review'[k] # NoReview
          PROVE  review'[k].seen <= msgs[review'[k].task]
      BY <3>1, <3>2, <3>3 DEF Alike, ReviewTyped
    <3> QED  BY <1>1, <3>1, <3>3 DEF ReviewTyped
  <2> QED  BY <2>2, <2>3
<1>6. ASSUME NEW j \in Jobs, Post(j) PROVE ReviewTyped' /\ Ordered'
  <2>1. review[j] \in ReviewType  BY <1>6, RunningFacts DEF Post
  <2>2. card' \in [TaskIds -> Statuses \cup {"none"}]
    BY <1>6, <2>1, ReviewFacts DEF Post, ReviewTyped
  <2>3. /\ ReviewEnds(j) /\ UNCHANGED <<todo, failures>>
        /\ spoiled' = spoiled \ {review[j].task}
    BY <1>6 DEF Post
  <2> QED  BY <1>1, <2>2, <2>3, EndsFacts DEF ReviewTyped
<1>7. ASSUME NEW j \in Jobs, ReviewFails(j) PROVE ReviewTyped' /\ Ordered'
  <2>1. /\ ReviewEnds(j) /\ UNCHANGED <<card, todo>>
        /\ failures < MaxFailures /\ failures' = failures + 1
        /\ spoiled' = spoiled \/ spoiled' = spoiled \cup {review[j].task}
        /\ review[j] # NoReview
    BY <1>7 DEF ReviewFails, Abandons
  <2>2. review[j].task \in TaskIds  BY <2>1, ReviewFacts DEF ReviewTyped, Reviews
  <2>3. failures' \in 0..MaxFailures
    BY <2>1, ReviewAssumption DEF ReviewTyped
  <2>4. spoiled' \subseteq TaskIds  BY <2>1, <2>2 DEF ReviewTyped
  <2> QED  BY <1>1, <2>1, <2>3, <2>4, EndsFacts DEF ReviewTyped
<1>8. ASSUME NEW j \in Jobs, NEW t \in TaskIds, NEW others,
             others \in Seq(TaskIds),
             \A m, n \in DOMAIN others : others[m] = others[n] => m = n,
             review' = [review EXCEPT ![j] = Began(t)], todo' = others,
             UNCHANGED <<active, msgs, order, mark, cool, status, card,
                         failures, read, passed, astray, quiet, spoiled>>
      PROVE  ReviewTyped' /\ Ordered'
  <2>1. /\ review' \in [Jobs -> Reviews]
        /\ \A k \in Jobs : k # j => review'[k] = review[k]
        /\ review'[j].task = t /\ review'[j].seen = msgs[t]
    BY <1>8, BeganFacts
  <2>2. ASSUME NEW k \in Jobs, review'[k] # NoReview
        PROVE  review'[k].seen <= msgs[review'[k].task]
    <3>1. msgs[t] \in Nat /\ msgs[t] <= msgs[t]
      <4>1. MaxMsgs \in Nat  BY ReviewAssumption
      <4>2. msgs[t] \in 0..MaxMsgs  BY DEF ReviewTyped
      <4> QED  BY <4>1, <4>2
    <3> QED  BY <2>1, <2>2, <3>1 DEF ReviewTyped
  <2> QED  BY <1>1, <1>8, <2>1, <2>2 DEF ReviewTyped
<1>9. ASSUME NEW j \in Jobs, NEW t \in TaskIds, Trigger(j, t)
      PROVE  ReviewTyped' /\ Ordered'
  BY <1>8, <1>9 DEF Trigger, columns, reviewHistory, ReviewTyped
<1>10. ASSUME Sweep PROVE ReviewTyped' /\ Ordered'
  <2>1. /\ todo' \in DueTasks
        /\ UNCHANGED <<active, msgs, order, mark, cool, status, card, review,
                       failures, read, passed, astray, quiet, spoiled>>
    BY <1>10 DEF Sweep, columns, reviewHistory
  <2>2. /\ todo' \in Seq(TaskIds)
        /\ \A m, n \in DOMAIN todo' : todo'[m] = todo'[n] => m = n
    BY <2>1, DueFacts
  <2> QED  BY <1>1, <2>1, <2>2 DEF ReviewTyped
<1>11. ASSUME SweepNext PROVE ReviewTyped' /\ Ordered'
  <2>1. /\ todo # <<>> /\ todo' = Tail(todo)
        /\ review' = [review EXCEPT !["sweep"] = Began(Head(todo))]
        /\ UNCHANGED <<active, msgs, order, mark, cool, status, card,
                       failures, read, passed, astray, quiet, spoiled>>
    BY <1>11 DEF SweepNext, columns, reviewHistory
  <2>2. "sweep" \in Jobs  BY DEF Jobs
  <2>3. /\ Head(todo) \in TaskIds /\ Tail(todo) \in Seq(TaskIds)
        /\ \A m, n \in DOMAIN Tail(todo) :
              Tail(todo)[m] = Tail(todo)[n] => m = n
    BY <2>1, TailFacts
  <2> QED  BY <1>8, <2>1, <2>2, <2>3
<1>12. ASSUME Restart PROVE ReviewTyped' /\ Ordered'
  <2>1. /\ ReviewEnds("sweep") /\ todo' = <<>> /\ UNCHANGED card
        /\ failures < MaxFailures /\ failures' = failures + 1
        /\ \/ spoiled' = spoiled
           \/ /\ review["sweep"] # NoReview
              /\ spoiled' = spoiled \cup {review["sweep"].task}
    BY <1>12 DEF Restart, Abandons
  <2>2. "sweep" \in Jobs  BY DEF Jobs
  <2>3. review["sweep"] # NoReview => review["sweep"].task \in TaskIds
    BY <2>2, ReviewFacts DEF ReviewTyped, Reviews
  <2>4. /\ failures' \in 0..MaxFailures
        /\ spoiled' \subseteq TaskIds
    <3>1. failures' \in 0..MaxFailures
      BY <2>1, ReviewAssumption DEF ReviewTyped
    <3>2. spoiled' \subseteq TaskIds  BY <2>1, <2>3 DEF ReviewTyped
    <3> QED  BY <3>1, <3>2
  <2>5. todo' \in Seq(TaskIds) /\ DOMAIN todo' = {}
    BY <2>1
  <2> QED  BY <1>1, <2>1, <2>2, <2>4, <2>5, EndsFacts DEF ReviewTyped
<1>13. CASE UNCHANGED reviewVars
  BY <1>1, <1>13 DEF reviewVars, ReviewTyped
<1> QED
  BY <1>2, <1>3, <1>14, <1>15, <1>5, <1>6, <1>7, <1>9, <1>10, <1>11, <1>12,
     <1>13
     DEF ReviewNext, Concludes, SweepStep

-----------------------------------------------------------------------------
(* What reviews have covered.                                              *)

LEMMA CoveredInit ==
    ASSUME ReviewInit
    PROVE  Covered
  BY DEF ReviewInit, Covered, Sees, Passed, Reviewed, NoReview

LEMMA CoveredRecords ==
    ASSUME ReviewTyped, Covered, NEW t \in TaskIds, NEW s \in Statuses,
           Records(t, s)
    PROVE  Covered'
<1>1. UNCHANGED <<active, msgs, quiet>>  BY DEF Records
<1>2. /\ mark'[t] = msgs[t] /\ Reviewed(t)'
      /\ \A u \in TaskIds : u # t => /\ mark'[u] = mark[u]
                                     /\ Reviewed(u)' <=> Reviewed(u)
  BY ColumnFacts, ReviewAssumption DEF Reviewed, Statuses
<1>3. /\ \A u \in TaskIds : u # t =>
            UNCHANGED <<read[u], passed[u], astray[u]>>
      /\ msgs[t] <= read'[t] \/ msgs[t] <= passed'[t] \/ msgs[t] <= astray'[t]
      /\ quiet[t] <= read'[t] \/ quiet[t] <= astray'[t]
  BY HistoryFacts DEF Records, Covered
<1>4. ASSUME NEW k \in Jobs PROVE Sees(review[k])'
  <2>1. Sees(review[k])  BY DEF Covered
  <2>2. Follows(review[k], review'[k], t)  BY DEF Records
  <2>3. CASE review'[k] # NoReview
    <3> DEFINE u == review[k].task
    <3>1. review[k] \in ReviewType
      BY <2>2, <2>3 DEF Follows, Alike, ReviewTyped, Reviews
    <3>2. review'[k].task = u /\ review'[k].seen = review[k].seen /\ u \in TaskIds
      BY <2>2, <3>1, ReviewFacts DEF Follows, Alike
    <3>3. review[k].seen <= msgs[u] /\ review[k] # NoReview
      BY <3>1, ReviewFacts DEF ReviewTyped
    <3>4. quiet[u] <= review[k].seen  BY <2>1, <3>3 DEF Sees
    <3>5. review'[k].fresh \/ review'[k].phase = "recorded" =>
             u = t \/ review[k].fresh \/ review[k].phase = "recorded"
      BY <2>2 DEF Follows
    <3>6. review'[k].fresh \/ review'[k].phase = "recorded" =>
             Reviewed(u)' /\ review[k].seen <= mark'[u]
      BY <1>2, <2>1, <3>2, <3>3, <3>5 DEF Sees
    <3> QED  BY <1>1, <3>2, <3>4, <3>6 DEF Sees
  <2> QED  BY <2>3 DEF Sees
<1>5. ASSUME NEW u \in TaskIds PROVE Passed(u)'
  <2>1. Passed(u)  BY DEF Covered
  <2>2. CASE u = t  BY <1>1, <1>3, <2>2 DEF Passed
  <2>3. CASE u # t
    <3>1. /\ UNCHANGED <<msgs[u], quiet[u], mark[u], read[u], passed[u], astray[u]>>
          /\ Reviewed(u)' <=> Reviewed(u)
      BY <1>1, <1>2, <1>3, <2>3
    <3> QED  BY <2>1, <3>1 DEF Passed
  <2> QED  BY <2>2, <2>3
<1> QED  BY <1>4, <1>5 DEF Covered

LEMMA CoveredStep ==
    ASSUME ReviewTyped, Ordered, Covered, [ReviewNext]_reviewVars
    PROVE  Covered'
<1>1. MaxMsgs \in Nat /\ \A t \in TaskIds : msgs[t] \in 0..MaxMsgs
  BY ReviewAssumption DEF ReviewTyped
\* The columns stay, and each review stays, ends or began with all there is.
<1>2. ASSUME UNCHANGED <<msgs, mark, status, quiet, read, passed, astray>>,
             \A k \in Jobs :
                \/ review'[k] = review[k]
                \/ review'[k] = NoReview
                \/ /\ Alike(review[k], review'[k])
                   /\ review[k].fresh
                \/ /\ review'[k].task \in TaskIds
                   /\ review'[k].seen = msgs[review'[k].task]
                   /\ ~review'[k].fresh /\ review'[k].phase = "running"
      PROVE  Covered'
  <2>1. ASSUME NEW k \in Jobs PROVE Sees(review'[k])
    <3>1. Sees(review[k])  BY DEF Covered
    <3>2. CASE review'[k] = review[k]  BY <3>1, <3>2
    <3>3. CASE review'[k] = NoReview  BY <3>3 DEF Sees
    <3>4. CASE Alike(review[k], review'[k]) /\ review[k].fresh
      BY <3>1, <3>4, ReviewFacts DEF Sees, Alike
    <3>5. CASE /\ review'[k].task \in TaskIds
               /\ review'[k].seen = msgs[review'[k].task]
               /\ ~review'[k].fresh /\ review'[k].phase = "running"
      BY <3>5 DEF Sees, ReviewTyped
    <3> QED  BY <1>2, <3>2, <3>3, <3>4, <3>5
  <2>2. ASSUME NEW t \in TaskIds PROVE Passed(t)'
    BY <1>2 DEF Covered, Passed, Reviewed
  <2>3. \A k \in Jobs : Sees(review[k])'
    BY <1>2, <2>1 DEF Sees, Reviewed
  <2> QED  BY <2>2, <2>3 DEF Covered
<1>3. ASSUME NEW t \in TaskIds, MessageArrives(t) PROVE Covered'
  <2>1. /\ msgs' = [msgs EXCEPT ![t] = @ + 1]
        /\ UNCHANGED <<mark, status, review, read, passed, astray>>
    BY <1>3 DEF MessageArrives, columns
  <2>2. \/ quiet' = quiet
        \/ ~UnderReview(t) /\ quiet' = [quiet EXCEPT ![t] = msgs[t] + 1]
    BY <1>3 DEF MessageArrives
  <2>3. \A u \in TaskIds : u # t => quiet'[u] = quiet[u] /\ msgs'[u] = msgs[u]
    BY <2>1, <2>2 DEF ReviewTyped
  <2>4. msgs'[t] = msgs[t] + 1 /\ mark[t] <= msgs[t]
    BY <2>1 DEF ReviewTyped
  <2>5. ASSUME NEW k \in Jobs PROVE Sees(review[k])'
    <3>1. review'[k] = review[k] /\ Sees(review[k])  BY <2>1 DEF Covered
    <3>2. CASE review[k] # NoReview
      <4>1. review[k] \in ReviewType  BY <3>2 DEF ReviewTyped, Reviews
      <4>2. review[k].task \in TaskIds /\ review[k].phase # "none"
        BY <4>1, ReviewFacts
      <4>3. review[k].task = t => UnderReview(t)
        BY <4>2 DEF UnderReview
      <4>4. quiet'[review[k].task] = quiet[review[k].task]
        BY <2>2, <2>3, <4>2, <4>3
      <4> QED  BY <2>1, <3>1, <3>2, <4>4 DEF Sees, Reviewed
    <3> QED  BY <3>1, <3>2 DEF Sees
  <2>6. ASSUME NEW u \in TaskIds PROVE Passed(u)'
    <3>1. CASE u = t
      <4>1. mark[t] \in Nat /\ msgs[t] \in Nat  BY <1>1 DEF ReviewTyped
      <4>2. ~(msgs'[t] <= mark[t])  BY <2>4, <4>1
      <4> QED  BY <2>1, <3>1, <4>2 DEF Passed
    <3>2. CASE u # t
      BY <2>1, <2>3, <3>2 DEF Covered, Passed, Reviewed
    <3> QED  BY <3>1, <3>2
  <2> QED  BY <2>5, <2>6 DEF Covered
<1>4. ASSUME NEW t \in TaskIds, Toggle(t) \/ CooldownEnds(t) PROVE Covered'
  BY <1>2, <1>4 DEF Toggle, CooldownEnds, columns, reviewHistory
<1>5. ASSUME NEW j \in Jobs, NEW s \in Decisions, Record(j, s) PROVE Covered'
  <2>1. s \in Statuses  BY DEF Statuses
  <2> QED  BY <1>5, <2>1, RecordFacts, CoveredRecords
<1>16. ASSUME NEW t \in TaskIds, NEW s \in Decisions, RecordElsewhere(t, s)
       PROVE  Covered'
  <2>1. s \in Statuses  BY DEF Statuses
  <2> QED  BY <1>16, <2>1, ElsewhereFacts, CoveredRecords
<1>6. ASSUME NEW j \in Jobs, Ensure(j) PROVE Covered'
  <2>1. review[j] \in ReviewType  BY <1>6, EnsureFacts
  <2>2. CASE Records(review[j].task, "blocked")
    <3>1. review[j].task \in TaskIds /\ "blocked" \in Statuses
      BY <2>1, ReviewFacts DEF Statuses
    <3> QED  BY <2>2, <3>1, CoveredRecords
  <2>3. CASE ~Records(review[j].task, "blocked")
    <3>1. /\ \A k \in Jobs : k # j => review'[k] = review[k]
          /\ Alike(review[j], review'[j]) /\ review[j].fresh
          /\ UNCHANGED <<msgs, mark, status, read, passed, astray, quiet>>
      BY <1>6, <2>3, EnsureFacts
    <3> QED  BY <1>2, <3>1
  <2> QED  BY <2>2, <2>3
<1>7. ASSUME NEW j \in Jobs, ReviewEnds(j) PROVE Covered'
  BY <1>2, <1>7, EndsFacts
<1>8. ASSUME NEW j \in Jobs, Post(j) PROVE Covered'
  BY <1>7, <1>8 DEF Post
<1>9. ASSUME NEW j \in Jobs, ReviewFails(j) PROVE Covered'
  BY <1>7, <1>9 DEF ReviewFails, Abandons
<1>10. ASSUME NEW j \in Jobs, NEW t \in TaskIds,
              review' = [review EXCEPT ![j] = Began(t)],
              UNCHANGED <<msgs, mark, status, quiet, read, passed, astray>>
       PROVE  Covered'
  <2>1. /\ \A k \in Jobs : k # j => review'[k] = review[k]
        /\ review'[j].task = t /\ review'[j].seen = msgs[t]
        /\ review'[j].phase = "running" /\ ~review'[j].fresh
    BY <1>10, BeganFacts
  <2> QED  BY <1>2, <1>10, <2>1
<1>11. ASSUME NEW j \in Jobs, NEW t \in TaskIds, Trigger(j, t) PROVE Covered'
  BY <1>10, <1>11 DEF Trigger, columns, reviewHistory
<1>12. ASSUME Sweep PROVE Covered'
  BY <1>2, <1>12 DEF Sweep, columns, reviewHistory
<1>13. ASSUME SweepNext PROVE Covered'
  <2>1. /\ todo # <<>>
        /\ review' = [review EXCEPT !["sweep"] = Began(Head(todo))]
        /\ UNCHANGED <<msgs, mark, status, quiet, read, passed, astray>>
    BY <1>13 DEF SweepNext, columns, reviewHistory
  <2>2. "sweep" \in Jobs  BY DEF Jobs
  <2> QED  BY <1>10, <2>1, <2>2, TailFacts
<1>14. ASSUME Restart PROVE Covered'
  <2>1. "sweep" \in Jobs  BY DEF Jobs
  <2> QED  BY <1>7, <1>14, <2>1 DEF Restart, Abandons
<1>15. CASE UNCHANGED reviewVars  BY <1>2, <1>15 DEF reviewVars
<1> QED
  BY <1>3, <1>4, <1>5, <1>6, <1>8, <1>9, <1>11, <1>12, <1>13, <1>14, <1>15,
     <1>16
     DEF ReviewNext, Concludes, SweepStep

-----------------------------------------------------------------------------
(* The cards.                                                              *)

\* A review of t whose card is still to come finds a record made since it began.
Pending(t) ==
    \E j \in Jobs :
        review[j].phase # "none" /\ review[j].task = t /\ review[j].fresh

\* A card may differ from its row until such a review posts it.
Shown(t) == t \in spoiled \/ Pending(t) \/ card[t] = status[t]

AllShown == \A t \in TaskIds : Shown(t)

\* No pending review ends, and a row changes only where one is pending.
LEMMA ShownWhilePending ==
    ASSUME AllShown, spoiled \subseteq spoiled', card' = card,
           \A t \in TaskIds : Pending(t) => Pending(t)',
           \A t \in TaskIds :
              status'[t] = status[t] \/ t \in spoiled' \/ Pending(t)'
    PROVE  AllShown'
<1>1. ASSUME NEW t \in TaskIds PROVE Shown(t)'
  BY DEF AllShown, Shown
<1> QED  BY <1>1 DEF AllShown

LEMMA ShownRecords ==
    ASSUME ReviewTyped, AllShown, NEW t \in TaskIds, NEW s \in Statuses,
           Records(t, s)
    PROVE  AllShown'
<1>1. card' = card /\ spoiled \subseteq spoiled'
  BY HistoryFacts DEF Records
<1>2. ASSUME NEW k \in Jobs, review[k] \in ReviewType,
             review[k].fresh \/ review[k].task = t
      PROVE  /\ review'[k].phase # "none" /\ review'[k].task = review[k].task
             /\ review'[k].fresh
  <2>1. review'[k] = review[k] \/ Alike(review[k], review'[k])
    BY DEF Records, Follows
  <2>2. review'[k].phase # "none" /\ review'[k].task = review[k].task
    BY <1>2, <2>1, ReviewFacts DEF Alike
  <2>3. review'[k].fresh
    BY <1>2, NoReviewFacts DEF Records, Follows
  <2> QED  BY <2>2, <2>3
<1>3. ASSUME NEW u \in TaskIds, Pending(u) PROVE Pending(u)'
  <2>1. PICK k \in Jobs :
           review[k].phase # "none" /\ review[k].task = u /\ review[k].fresh
    BY <1>3 DEF Pending
  <2>2. review[k] \in ReviewType
    BY <2>1, NoReviewFacts DEF ReviewTyped, Reviews
  <2> QED  BY <1>2, <2>1, <2>2 DEF Pending
<1>4. ASSUME NEW u \in TaskIds
      PROVE  status'[u] = status[u] \/ u \in spoiled' \/ Pending(u)'
  <2>1. CASE u # t  BY <2>1, ColumnFacts
  <2>2. CASE u = t /\ t \notin spoiled'
    <3>1. PICK j \in Jobs : OwnRecord(j, t)  BY <2>2, HistoryFacts DEF Records
    <3> QED  BY <1>2, <2>2, <3>1 DEF OwnRecord, Pending
  <2> QED  BY <2>1, <2>2
<1> QED  BY <1>1, <1>3, <1>4, ShownWhilePending

LEMMA ShownStep ==
    ASSUME ReviewTyped, AllShown, [ReviewNext]_reviewVars
    PROVE  AllShown'
<1>1. ASSUME UNCHANGED <<card, status, spoiled, review>> PROVE AllShown'
  BY <1>1, ShownWhilePending DEF Pending
<1>2. ASSUME NEW t \in TaskIds,
             MessageArrives(t) \/ Toggle(t) \/ CooldownEnds(t)
      PROVE  AllShown'
  BY <1>1, <1>2 DEF MessageArrives, Toggle, CooldownEnds, columns, reviewHistory
<1>3. ASSUME NEW j \in Jobs, NEW s \in Decisions, Record(j, s) PROVE AllShown'
  <2>1. s \in Statuses  BY DEF Statuses
  <2> QED  BY <1>3, <2>1, RecordFacts, ShownRecords
<1>14. ASSUME NEW t \in TaskIds, NEW s \in Decisions, RecordElsewhere(t, s)
       PROVE  AllShown'
  <2>1. s \in Statuses  BY DEF Statuses
  <2> QED  BY <1>14, <2>1, ElsewhereFacts, ShownRecords
<1>4. ASSUME NEW j \in Jobs, Ensure(j) PROVE AllShown'
  <2>1. review[j] \in ReviewType  BY <1>4, EnsureFacts
  <2>2. CASE Records(review[j].task, "blocked")
    <3>1. review[j].task \in TaskIds /\ "blocked" \in Statuses
      BY <2>1, ReviewFacts DEF Statuses
    <3> QED  BY <2>2, <3>1, ShownRecords
  <2>3. CASE ~Records(review[j].task, "blocked")
    <3>1. /\ \A k \in Jobs : k # j => review'[k] = review[k]
          /\ Alike(review[j], review'[j]) /\ review'[j].fresh
          /\ UNCHANGED <<card, status, spoiled>>
      BY <1>4, <2>3, EnsureFacts
    <3>2. review'[j].phase # "none" /\ review'[j].task = review[j].task
      BY <3>1, ReviewFacts DEF Alike
    <3>3. \A t \in TaskIds : Pending(t) => Pending(t)'
      BY <3>1, <3>2 DEF Pending
    <3> QED  BY <3>1, <3>3, ShownWhilePending
  <2> QED  BY <2>2, <2>3
<1>5. ASSUME NEW j \in Jobs, Post(j) PROVE AllShown'
  <2>1. review[j] \in ReviewType  BY <1>5, RunningFacts DEF Post
  <2>2. /\ card' = [card EXCEPT ![review[j].task] = status[review[j].task]]
        /\ ReviewEnds(j) /\ spoiled' = spoiled \ {review[j].task}
    BY <1>5 DEF Post
  <2>3. ASSUME NEW t \in TaskIds PROVE Shown(t)'
    <3>1. /\ \A k \in Jobs : k # j => review'[k] = review[k]
          /\ status' = status
      BY <2>2, EndsFacts
    <3>2. CASE t = review[j].task  BY <2>2, <3>1, <3>2 DEF Shown, ReviewTyped
    <3>3. CASE t # review[j].task
      <4>1. Pending(t) => Pending(t)'  BY <3>1, <3>3 DEF Pending
      <4>2. card'[t] = card[t]  BY <2>2, <3>3 DEF ReviewTyped
      <4> QED  BY <2>2, <3>1, <3>3, <4>1, <4>2 DEF AllShown, Shown
    <3> QED  BY <3>2, <3>3
  <2> QED  BY <2>3 DEF AllShown
\* A review that has a record to show spoils the card of its task.
<1>6. ASSUME NEW j \in Jobs, Abandons(j), card' = card PROVE AllShown'
  <2>1. /\ \A k \in Jobs : k # j => review'[k] = review[k]
        /\ status' = status
        /\ spoiled' = IF review[j].fresh THEN spoiled \cup {review[j].task}
                      ELSE spoiled
    BY <1>6, EndsFacts DEF Abandons
  <2>2. ASSUME NEW t \in TaskIds PROVE Shown(t)'
    <3>1. CASE review[j].fresh /\ review[j].task = t
      BY <2>1, <3>1 DEF Shown
    <3>2. CASE ~(review[j].fresh /\ review[j].task = t)
      <4>1. Pending(t) => Pending(t)'  BY <2>1, <3>2 DEF Pending
      <4>2. spoiled \subseteq spoiled'  BY <2>1
      <4> QED  BY <1>6, <2>1, <4>1, <4>2 DEF AllShown, Shown
    <3> QED  BY <3>1, <3>2
  <2> QED  BY <2>2 DEF AllShown
<1>7. ASSUME NEW j \in Jobs, ReviewFails(j) PROVE AllShown'
  BY <1>6, <1>7 DEF ReviewFails
<1>8. ASSUME Restart PROVE AllShown'
  <2>1. "sweep" \in Jobs  BY DEF Jobs
  <2>2. CASE review["sweep"] = NoReview
    <3>1. /\ \A k \in Jobs : k # "sweep" => review'[k] = review[k]
          /\ UNCHANGED <<card, status, spoiled>>
      BY <1>8, <2>1, <2>2, EndsFacts DEF Restart
    <3>2. \A t \in TaskIds : Pending(t) => Pending(t)'
      BY <2>2, <3>1, NoReviewFacts DEF Pending
    <3> QED  BY <3>1, <3>2, ShownWhilePending
  <2>3. CASE review["sweep"] # NoReview
    BY <1>6, <1>8, <2>1, <2>3 DEF Restart
  <2> QED  BY <2>2, <2>3
<1>9. ASSUME NEW j \in Jobs, NEW t \in TaskIds, review[j] = NoReview,
             review' = [review EXCEPT ![j] = Began(t)],
             UNCHANGED <<card, status, spoiled>>
      PROVE  AllShown'
  <2>1. /\ \A k \in Jobs : k # j => review'[k] = review[k]
        /\ review[j].phase = "none"
    BY <1>9, BeganFacts, NoReviewFacts
  <2>2. \A u \in TaskIds : Pending(u) => Pending(u)'
    BY <2>1 DEF Pending
  <2> QED  BY <1>9, <2>2, ShownWhilePending
<1>10. ASSUME NEW j \in Jobs, NEW t \in TaskIds, Trigger(j, t) PROVE AllShown'
  BY <1>9, <1>10 DEF Trigger, columns, reviewHistory
<1>11. ASSUME Sweep PROVE AllShown'
  BY <1>1, <1>11 DEF Sweep, columns, reviewHistory
<1>12. ASSUME SweepNext PROVE AllShown'
  <2>1. /\ todo # <<>> /\ review["sweep"] = NoReview
        /\ review' = [review EXCEPT !["sweep"] = Began(Head(todo))]
        /\ UNCHANGED <<card, status, spoiled>>
    BY <1>12 DEF SweepNext, columns, reviewHistory
  <2>2. "sweep" \in Jobs  BY DEF Jobs
  <2> QED  BY <1>9, <2>1, <2>2, TailFacts
<1>13. CASE UNCHANGED reviewVars  BY <1>1, <1>13 DEF reviewVars
<1> QED
  BY <1>2, <1>3, <1>4, <1>5, <1>7, <1>8, <1>10, <1>11, <1>12, <1>13, <1>14
     DEF ReviewNext, Concludes, SweepStep

-----------------------------------------------------------------------------
(* The theorems about reviews.                                             *)

ReviewInv == ReviewTyped /\ Ordered /\ Covered /\ AllShown

LEMMA ReviewInvariant == ReviewSpec => []ReviewInv
<1>1. ReviewInit => ReviewInv
  <2> SUFFICES ASSUME ReviewInit PROVE ReviewInv
    OBVIOUS
  <2>1. AllShown  BY DEF ReviewInit, AllShown, Shown
  <2> QED  BY <2>1, ReviewTypedInit, CoveredInit DEF ReviewInv
<1>2. ReviewInv /\ [ReviewNext]_reviewVars => ReviewInv'
  BY ReviewTypedStep, CoveredStep, ShownStep DEF ReviewInv
<1> QED  BY <1>1, <1>2, PTL DEF ReviewSpec

\* last_reviewed_at orders the reviewed tasks, a sweep holds each due task at
\* most once, and every review, column and count has its type, for any tasks and
\* jobs (_select_due_tasks, record_task_review_result).
THEOREM ReviewTypeCorrect == ReviewSpec => []ReviewTypeOK
<1>1. ReviewInv => ReviewTypeOK
  <2> SUFFICES ASSUME ReviewInv PROVE ReviewTypeOK
    OBVIOUS
  <2>1. ASSUME NEW t \in TaskIds
        PROVE  /\ {mark[t], read[t], passed[t], astray[t]} \subseteq 0..msgs[t]
               /\ quiet[t] \in 0..MaxMsgs
    <3>1. MaxMsgs \in Nat  BY ReviewAssumption
    <3>2. /\ msgs[t] \in 0..MaxMsgs
          /\ {mark[t], read[t], passed[t], astray[t], quiet[t]} \subseteq Nat
          /\ mark[t] <= msgs[t] /\ read[t] <= msgs[t] /\ passed[t] <= msgs[t]
          /\ astray[t] <= msgs[t] /\ quiet[t] <= msgs[t]
      BY DEF ReviewInv, ReviewTyped
    <3> QED  BY <3>1, <3>2
  <2>2. quiet \in [TaskIds -> 0..MaxMsgs]  BY <2>1 DEF ReviewInv, ReviewTyped
  <2> QED  BY <2>1, <2>2 DEF ReviewInv, ReviewTyped, Ordered, ReviewTypeOK, Reviews
<1> QED  BY ReviewInvariant, <1>1, PTL

\* A message keeps its task due until a review that has read it is recorded, or
\* passes over it because it came later, or another turn records the task; one
\* that met no review is not passed over by reviews.  For any tasks, reviews,
\* failures and records (_select_due_tasks, RecordTaskReviewTool).
THEOREM MessagesKeepTasksDue == ReviewSpec => []MessageKeepsDue
<1>1. ReviewInv => MessageKeepsDue
  <2> SUFFICES ASSUME ReviewInv, NEW t \in TaskIds, ~IsDue(t), active[t]
               PROVE  /\ msgs[t] <= Max({read[t], passed[t], astray[t]})
                      /\ quiet[t] <= Max({read[t], astray[t]})
    BY DEF MessageKeepsDue
  <2>1. Reviewed(t) /\ ~(msgs[t] > mark[t])  BY DEF IsDue
  <2>2. mark[t] \in Nat /\ msgs[t] \in Nat /\ quiet[t] \in Nat
        /\ read[t] \in Nat /\ passed[t] \in Nat /\ astray[t] \in Nat
    <3>1. MaxMsgs \in Nat  BY ReviewAssumption
    <3>2. msgs[t] \in 0..MaxMsgs /\ mark[t] \in Nat
          /\ quiet[t] \in Nat /\ read[t] \in Nat /\ passed[t] \in Nat
          /\ astray[t] \in Nat
      BY DEF ReviewInv, ReviewTyped
    <3> QED  BY <3>1, <3>2
  <2>3. /\ msgs[t] <= read[t] \/ msgs[t] <= passed[t] \/ msgs[t] <= astray[t]
        /\ quiet[t] <= read[t] \/ quiet[t] <= astray[t]
    BY <2>1, <2>2 DEF ReviewInv, Covered, Passed
  <2>4. PICK n \in Nat : /\ n = Max({read[t], passed[t], astray[t]})
                         /\ read[t] <= n /\ passed[t] <= n /\ astray[t] <= n
    BY <2>2, MaxOfThree
  <2>5. PICK m \in Nat : /\ m = Max({read[t], astray[t]})
                         /\ read[t] <= m /\ astray[t] <= m
    BY <2>2, MaxOfTwo
  <2> QED  BY <2>2, <2>3, <2>4, <2>5
<1> QED  BY ReviewInvariant, <1>1, PTL

\* When no review of a task is under way its card shows the row's result, in
\* whatever order reviews record and post, unless the last record came from
\* another turn or from a review that failed before its card
\* (_persist_review_summary_to_ai_conversation).
THEOREM CardsShowResults == ReviewSpec => []CardShowsResult
<1>1. ReviewInv => CardShowsResult
  BY DEF ReviewInv, AllShown, Shown, Pending, UnderReview, CardShowsResult
<1> QED  BY ReviewInvariant, <1>1, PTL

\* A review that posts its card has its messages covered by the columns, whether
\* or not the agent recorded a result (_ensure_review_recorded).
THEOREM ReviewsSettle == ReviewSpec => ReviewSettles
<1> DEFINE Settles(j) ==
       (review[j].phase = "recorded" /\ Post(j)) =>
          /\ Reviewed(review[j].task)
          /\ mark[review[j].task] >= review[j].seen
<1>1. ReviewInv => \A j \in Jobs : Settles(j)
  <2> SUFFICES ASSUME ReviewInv, NEW j \in Jobs, review[j].phase = "recorded"
               PROVE  /\ Reviewed(review[j].task)
                      /\ mark[review[j].task] >= review[j].seen
    OBVIOUS
  <2>1. review[j] \in ReviewType  BY RunningFacts DEF ReviewInv
  <2>2. Sees(review[j])  BY DEF ReviewInv, Covered
  <2>3. mark[review[j].task] \in Nat /\ review[j].seen \in Nat
    BY <2>1, ReviewFacts DEF ReviewInv, ReviewTyped
  <2> QED  BY <2>1, <2>2, <2>3, ReviewFacts DEF Sees
<1>2. ReviewInv => [\A j \in Jobs : Settles(j)]_reviewVars
  BY <1>1
<1>3. ReviewSpec => [][\A j \in Jobs : Settles(j)]_reviewVars
  BY ReviewInvariant, <1>2, PTL
<1> QED  BY <1>3, PTL DEF ReviewSettles
=============================================================================

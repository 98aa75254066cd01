------------------------- MODULE BackgroundLoopProofs -------------------------
(***************************************************************************)
(* Proofs about the two loops of the background leader that write to the   *)
(* database: RoutineScheduler, for any routines, requests, limits and      *)
(* bounds, and InboundSms, for any messages, senders, texts and bounds.    *)
(*                                                                         *)
(* The inductive invariant of the routines adds to the checked invariants  *)
(* the shape of a row and of a job, that a row a run has in hand fits the  *)
(* row there, and that an id nobody has been given has no row, no run      *)
(* under way and no recorded run; their type, bounds included, needs the   *)
(* runs under way counted with the recorded ones.                          *)
(* That of the messages says where a message is that the poller has gone   *)
(* past and nobody has stored, and what is known of a message that the     *)
(* poller has in hand.                                                     *)
(***************************************************************************)
EXTENDS RoutineScheduler, InboundSms, FiniteSetTheorems, TLAPS
-----------------------------------------------------------------------------
(* Routines (RoutineScheduler).                                            *)

\* The columns of a row, without the bounds that depend on the clock.
Columns == [expr : Exprs, enabled : BOOLEAN,
            state : {"scheduled", "paused", "completed"},
            repeat : Repeats \cup {Forever}, count : Nat, next : Int,
            simulated : BOOLEAN]

JobShape == [kind : {"run", "simulate"}, routine : Routines,
             loaded : Columns \cup {Absent}] \cup {IdleJob}

Shape ==
    /\ row \in [Routines -> Columns \cup {Absent}]
    /\ spent \in SUBSET Routines
    /\ now \in Nat
    /\ job \in [Requests -> JobShape]
    /\ okRuns \in [Routines -> Nat]

\* An id that was never given to a routine is untouched.
UnspentIsUnused ==
    \A r \in Customs : r \notin spent =>
        /\ ~Exists(r)
        /\ okRuns[r] = 0
        /\ \A m \in Requests : job[m] # IdleJob => job[m].routine # r

\* What holds of a row x of r on its own, after n recorded runs of which two on
\* one count, or not (lost).
RowOK(r, x, n, lost) ==
    /\ x \in Columns
    /\ r \in Defaults /\ x.enabled => x.simulated
    /\ x.count <= n
    /\ r \in Customs /\ ~lost => x.count = n
    /\ x.state = "completed" /\ ~lost => x.repeat # Forever /\ x.count >= x.repeat

RowsOK ==
    \A r \in Routines : Exists(r) => RowOK(r, row[r], okRuns[r], r \in crossed)

\* A row in hand is of the routine that is there, if one is.
LoadedFits ==
    \A m \in Requests :
        (job[m].loaded # Absent /\ Exists(job[m].routine)) =>
            /\ job[m].loaded.repeat = row[job[m].routine].repeat
            /\ job[m].loaded.count <= okRuns[job[m].routine]

IInv == Shape /\ UnspentIsUnused /\ RowsOK /\ LoadedFits

-----------------------------------------------------------------------------
LEMMA AbsentIsNoRow == Absent \notin Columns
  BY DEF Absent, Columns

\* The next occurrence of a schedule is a time.
LEMMA NextRunIsTime ==
    ASSUME NEW expr, NEW t \in Nat PROVE NextRun(expr, t) \in Int
<1>1. CASE expr = "cron"
  <2>1. t \div Period \in Int  BY RoutinesAssumption
  <2>2. Period \in Int  BY RoutinesAssumption
  <2> DEFINE k == t \div Period + 1
  <2>3. k \in Int  BY <2>1
  <2> HIDE DEF k
  <2>4. k * Period \in Int  BY <2>2, <2>3
  <2> QED  BY <1>1, <2>4 DEF NextRun, k
<1>2. CASE expr # "cron"
  BY <1>2, RoutinesAssumption DEF NextRun
<1> QED  BY <1>1, <1>2

-----------------------------------------------------------------------------
(* The operators that make a row from a row.                               *)

LEMMA SeededOK ==
    ASSUME NEW r \in Defaults, NEW t \in Nat, NEW n \in Nat, NEW lost \in BOOLEAN
    PROVE  RowOK(r, Seeded(t), n, lost)
<1>1. NextRun("cron", t) \in Int  BY NextRunIsTime
<1>2. r \notin Customs  BY RoutinesAssumption
<1> QED  BY <1>1, <1>2, RoutinesAssumption DEF RowOK, Seeded, Columns, Exprs

LEMMA RescheduledOK ==
    ASSUME NEW r, NEW x, NEW n, NEW lost, RowOK(r, x, n, lost),
           NEW expr \in Exprs \cup {"keep"}, now \in Nat
    PROVE  /\ RowOK(r, Rescheduled(x, expr), n, lost)
           /\ Rescheduled(x, expr).simulated = x.simulated
           /\ Rescheduled(x, expr).repeat = x.repeat
<1>1. NextRun(expr, now) \in Int  BY NextRunIsTime
<1> QED  BY <1>1 DEF RowOK, Rescheduled, ParseSchedule, Columns, Exprs

LEMMA ToggledOK ==
    ASSUME NEW r, NEW x, NEW n, NEW lost, RowOK(r, x, n, lost),
           NEW flag \in {"keep", "on", "off"}, flag = "on" => x.simulated
    PROVE  /\ RowOK(r, Toggled(x, flag), n, lost)
           /\ Toggled(x, flag).repeat = x.repeat
  BY DEF RowOK, Toggled, Columns

LEMMA SimulatedOK ==
    ASSUME NEW r, NEW x, NEW n, NEW lost, RowOK(r, x, n, lost)
    PROVE  /\ RowOK(r, [x EXCEPT !.simulated = TRUE], n, lost)
           /\ [x EXCEPT !.simulated = TRUE].repeat = x.repeat
<1> DEFINE y == [x EXCEPT !.simulated = TRUE]
<1>1. y \in Columns  BY DEF RowOK, Columns
<1>2. /\ y.state = x.state /\ y.enabled = x.enabled
      /\ y.repeat = x.repeat /\ y.count = x.count
  BY DEF RowOK, Columns
<1>3. y.simulated  BY Zenon DEF RowOK, Columns
<1> HIDE DEF y
<1>4. RowOK(r, y, n, lost)  BY <1>1, <1>2, <1>3 DEF RowOK
<1> QED  BY <1>2, <1>4 DEF y

LEMMA ResyncedOK ==
    ASSUME NEW r \in Defaults, NEW t \in Nat, NEW n \in Nat, NEW lost \in BOOLEAN,
           NEW x, x = Absent \/ RowOK(r, x, n, lost)
    PROVE  /\ RowOK(r, Resynced(x, t), n, lost)
           /\ x # Absent => Resynced(x, t).repeat = x.repeat
<1>1. NextRun("cron", t) \in Int  BY NextRunIsTime
<1>2. RowOK(r, Seeded(t), n, lost)  BY SeededOK
<1>3. CASE x = Absent  BY <1>2, <1>3 DEF Resynced
<1>4. CASE x # Absent /\ RowOK(r, x, n, lost)
  <2>1. CASE x.expr = "cron"  BY <1>4, <2>1 DEF Resynced
  <2>2. CASE x.expr # "cron"
    <3> DEFINE z == [x EXCEPT !.expr = "cron", !.next = NextRun("cron", t)]
    <3>1. Resynced(x, t) = z  BY <1>4, <2>2 DEF Resynced
    <3>2. /\ z \in Columns /\ z.enabled = x.enabled /\ z.count = x.count
          /\ z.repeat = x.repeat /\ z.state = x.state /\ z.simulated = x.simulated
      BY <1>1, <1>4 DEF RowOK, Columns, Exprs
    <3> HIDE DEF z
    <3> QED  BY <1>4, <3>1, <3>2 DEF RowOK
  <2> QED  BY <2>1, <2>2
<1> QED  BY <1>3, <1>4

\* What the end of a run makes of the row it has loaded.
LEMMA CountedIs ==
    ASSUME NEW x \in Columns, now \in Nat
    PROVE  LET c == Counted(x)
           IN  /\ c \in Columns
               /\ c.count = x.count + 1
               /\ ~c.enabled \/ c.enabled = x.enabled
               /\ c.state # x.state =>
                      /\ c.state = "completed"
                      /\ x.repeat # Forever /\ x.count + 1 >= x.repeat
<1> DEFINE y == [x EXCEPT !.count = @ + 1]
<1>1. /\ y \in Columns /\ y.count = x.count + 1
      /\ y.state = x.state /\ y.enabled = x.enabled /\ y.repeat = x.repeat
  BY DEF Columns
<1>2. NextRun(y.expr, now) \in Int  BY NextRunIsTime
<1>3. Counted(x) = IF Completed(y)
                   THEN [y EXCEPT !.state = "completed", !.enabled = FALSE]
                   ELSE [y EXCEPT !.next = NextRun(y.expr, now)]
  BY DEF Counted
<1> HIDE DEF y
<1>4. CASE Completed(y)
  BY <1>1, <1>3, <1>4 DEF Columns, Completed
<1>5. CASE ~Completed(y)
  BY <1>1, <1>2, <1>3, <1>5 DEF Columns
<1> QED  BY <1>4, <1>5

\* One recording more; it is lost on others if the count was no longer the one
\* that was loaded.
LEMMA StoredOverOK ==
    ASSUME NEW r, NEW x, NEW n \in Nat, NEW lost \in BOOLEAN, RowOK(r, x, n, lost),
           NEW loaded \in Columns, now \in Nat,
           loaded.repeat = x.repeat, loaded.count <= n
    PROVE  /\ RowOK(r, StoredOver(loaded, x), n + 1, lost \/ x.count # loaded.count)
           /\ StoredOver(loaded, x).repeat = x.repeat
<1> DEFINE c == Counted(loaded)
           z == StoredOver(loaded, x)
<1>1. /\ c \in Columns /\ c.count = loaded.count + 1
      /\ ~c.enabled \/ c.enabled = loaded.enabled
      /\ c.state # loaded.state =>
             /\ c.state = "completed"
             /\ loaded.repeat # Forever /\ loaded.count + 1 >= loaded.repeat
  BY CountedIs
<1>2. z = [x EXCEPT !.count = c.count,
                    !.next = Written(loaded.next, c.next, @),
                    !.state = Written(loaded.state, c.state, @),
                    !.enabled = Written(loaded.enabled, c.enabled, @)]
  BY DEF StoredOver
<1>3. x \in Columns  BY DEF RowOK
<1> HIDE DEF c, z
<1>4. /\ Written(loaded.next, c.next, x.next) \in Int
      /\ Written(loaded.state, c.state, x.state) \in {"scheduled", "paused", "completed"}
      /\ Written(loaded.enabled, c.enabled, x.enabled) \in BOOLEAN
  BY <1>1, <1>3 DEF Written, Columns
<1>5. /\ z \in Columns /\ z.count = loaded.count + 1 /\ z.repeat = x.repeat
      /\ z.simulated = x.simulated
      /\ z.state = Written(loaded.state, c.state, x.state)
      /\ z.enabled = Written(loaded.enabled, c.enabled, x.enabled)
  BY <1>1, <1>2, <1>3, <1>4 DEF Columns
<1>6. z.enabled => x.enabled
  BY <1>1, <1>3, <1>5, Zenon DEF Written, Columns
<1>7. z.count <= n + 1  BY <1>5 DEF Columns
<1>8. ASSUME ~lost, x.count = loaded.count, r \in Customs PROVE z.count = n + 1
  BY <1>5, <1>8 DEF RowOK
<1>9. ASSUME ~lost, x.count = loaded.count, z.state = "completed"
      PROVE  z.repeat # Forever /\ z.count >= z.repeat
  <2>1. CASE c.state # loaded.state
    BY <1>1, <1>5, <2>1
  <2>2. CASE c.state = loaded.state
    <3>1. x.state = "completed"  BY <1>5, <1>9, <2>2 DEF Written
    <3>2. x.repeat # Forever /\ x.count >= x.repeat  BY <1>9, <3>1 DEF RowOK
    <3>3. x.count \in Nat /\ x.repeat \in Nat
      BY <1>3, <3>2, RoutinesAssumption DEF Columns
    <3> QED  BY <1>5, <1>9, <3>2, <3>3
  <2> QED  BY <2>1, <2>2
<1>10. r \in Defaults /\ z.enabled => z.simulated  BY <1>5, <1>6 DEF RowOK
<1>11. RowOK(r, z, n + 1, lost \/ x.count # loaded.count)
  BY <1>5, <1>7, <1>8, <1>9, <1>10 DEF RowOK
<1> QED  BY <1>5, <1>11 DEF z

-----------------------------------------------------------------------------
LEMMA InitIInv == Init => IInv
<1> SUFFICES ASSUME Init PROVE IInv  OBVIOUS
<1>1. \A r \in Routines : Exists(r) => r \in Defaults /\ row[r] = Seeded(0)
  BY DEF Init, Exists, Routines
<1>2. RowsOK
  <2> SUFFICES ASSUME NEW r \in Routines, Exists(r)
               PROVE  RowOK(r, row[r], okRuns[r], r \in crossed)
    BY DEF RowsOK
  <2>1. okRuns[r] = 0 /\ (r \in crossed) = FALSE  BY DEF Init
  <2>2. RowOK(r, Seeded(0), 0, FALSE)  BY <1>1, SeededOK
  <2> QED  BY <1>1, <2>1, <2>2
<1>3. Shape
  <2>1. \A r \in Routines : row[r] \in Columns \cup {Absent}
    BY <1>2 DEF Exists, RowOK, RowsOK
  <2> QED  BY <2>1 DEF Init, Shape, Routines, JobShape
<1>4. UnspentIsUnused  BY RoutinesAssumption DEF Init, UnspentIsUnused, Exists, Routines
<1>5. LoadedFits  BY DEF Init, LoadedFits, IdleJob
<1> QED  BY <1>2, <1>3, <1>4, <1>5 DEF IInv

\* A step that leaves rows, ids, clock and recorded runs alone; a request keeps
\* its job, loses it, or has one of a routine that exists, and what it has loaded
\* is the row.
LEMMA RowsKept ==
    ASSUME IInv, UNCHANGED <<row, spent, now, okRuns, crossed>>,
           job' \in [Requests -> JobShape],
           \A m \in Requests :
               \/ job'[m] \in {job[m], IdleJob}
               \/ /\ Exists(job'[m].routine)
                  /\ job'[m].loaded \in {Absent, row[job'[m].routine]}
                  /\ job'[m].routine \in Routines
    PROVE  IInv'
<1>1. Shape'  BY DEF IInv, Shape
<1>2. UnspentIsUnused'
  <2> SUFFICES ASSUME NEW r \in Customs, r \notin spent,
                      NEW m \in Requests, job'[m] # IdleJob
               PROVE  ~Exists(r) /\ okRuns[r] = 0 /\ job'[m].routine # r
    BY DEF IInv, UnspentIsUnused, Exists
  <2> QED  BY DEF IInv, UnspentIsUnused
<1>3. RowsOK'  BY DEF IInv, RowsOK, Exists
<1>4. LoadedFits'
  <2> SUFFICES ASSUME NEW m \in Requests, job'[m].loaded # Absent, Exists(job'[m].routine)
               PROVE  /\ job'[m].loaded.repeat = row[job'[m].routine].repeat
                      /\ job'[m].loaded.count <= okRuns[job'[m].routine]
    BY DEF LoadedFits, Exists
  <2>1. CASE job'[m] \in {job[m], IdleJob}
    BY <2>1 DEF IInv, LoadedFits, IdleJob
  <2>2. CASE job'[m].loaded = row[job'[m].routine] /\ job'[m].routine \in Routines
    BY <2>2 DEF IInv, RowsOK, RowOK
  <2> QED  BY <2>1, <2>2
<1> QED
  BY <1>1, <1>2, <1>3, <1>4 DEF IInv

\* A step that may change the row of one routine, and lets requests lose their
\* jobs.
LEMMA OneRowChanges ==
    ASSUME IInv, NEW r \in Routines, NEW x,
           row' = [row EXCEPT ![r] = x],
           x # Absent =>
               /\ RowOK(r, x, okRuns'[r], r \in crossed')
               /\ r \in spent \/ r \notin Customs
               /\ row[r] # Absent => x.repeat = row[r].repeat
               /\ row[r] = Absent => \A m \in Requests : job[m].routine # r,
           UNCHANGED <<spent, now>>,
           \A m \in Requests : job'[m] \in {job[m], IdleJob},
           job' \in [Requests -> JobShape],
           okRuns' \in [Routines -> Nat],
           \A q \in Routines : q # r =>
               okRuns'[q] = okRuns[q] /\ (q \in crossed' <=> q \in crossed),
           okRuns'[r] >= okRuns[r],
           okRuns'[r] # okRuns[r] => r \in spent \/ r \notin Customs
    PROVE  IInv'
<1>1. /\ row'[r] = x /\ \A q \in Routines : q # r => row'[q] = row[q]
  BY DEF IInv, Shape
<1>2. x \in Columns \cup {Absent}  BY DEF RowOK
<1>3. Shape'  BY <1>1, <1>2 DEF IInv, Shape
<1>4. RowsOK'
  <2> SUFFICES ASSUME NEW q \in Routines, Exists(q)'
               PROVE  RowOK(q, row'[q], okRuns'[q], q \in crossed')
    BY DEF RowsOK
  <2>1. CASE q = r  BY <1>1, <2>1 DEF Exists
  <2>2. CASE q # r  BY <1>1, <2>2 DEF Exists, IInv, RowsOK, RowOK
  <2> QED  BY <2>1, <2>2
<1>5. UnspentIsUnused'
  <2> SUFFICES ASSUME NEW q \in Customs, q \notin spent
               PROVE  /\ row'[q] = Absent
                      /\ okRuns'[q] = 0
                      /\ \A m \in Requests : job'[m] # IdleJob => job'[m].routine # q
    BY DEF UnspentIsUnused, Exists
  <2>1. q \in Routines  BY DEF Routines
  <2>2. /\ row[q] = Absent /\ okRuns[q] = 0
        /\ \A m \in Requests : job[m] # IdleJob => job[m].routine # q
    BY DEF IInv, UnspentIsUnused, Exists
  <2>3. row'[q] = Absent  BY <1>1, <2>1, <2>2
  <2>4. okRuns'[q] = okRuns[q]  BY <2>1
  <2> QED  BY <2>2, <2>3, <2>4
<1>6. LoadedFits'
  <2> SUFFICES ASSUME NEW m \in Requests, job'[m].loaded # Absent,
                      row'[job'[m].routine] # Absent
               PROVE  /\ job'[m].loaded.repeat = row'[job'[m].routine].repeat
                      /\ job'[m].loaded.count <= okRuns'[job'[m].routine]
    BY DEF LoadedFits, Exists
  <2>1. job'[m] = job[m] /\ job[m] # IdleJob  BY DEF IdleJob
  <2> DEFINE q == job[m].routine
             l == job[m].loaded
  <2>2. q \in Routines /\ l \in Columns
    BY <2>1 DEF IInv, Shape, JobShape, IdleJob
  <2>3. row[q] # Absent
    <3>1. CASE q = r  BY <1>1, <2>1, <3>1
    <3>2. CASE q # r  BY <1>1, <2>1, <2>2, <3>2
    <3> QED  BY <3>1, <3>2
  <2>4. l.repeat = row[q].repeat /\ l.count <= okRuns[q]
    BY <2>1, <2>3 DEF IInv, LoadedFits, Exists
  <2>5. row'[q].repeat = row[q].repeat
    <3>1. CASE q = r
      <4>1. x # Absent  BY <1>1, <2>1, <3>1
      <4> QED  BY <1>1, <2>3, <3>1, <4>1
    <3>2. CASE q # r  BY <1>1, <2>2, <3>2
    <3> QED  BY <3>1, <3>2
  <2>6. /\ okRuns'[q] >= okRuns[q] /\ okRuns[q] \in Nat /\ okRuns'[q] \in Nat
        /\ l.count \in Nat
    <3>1. okRuns[q] \in Nat /\ okRuns'[q] \in Nat /\ l.count \in Nat
      BY <2>2 DEF IInv, Shape, Columns
    <3> QED  BY <2>2, <3>1
  <2> HIDE DEF q, l
  <2>7. l.count <= okRuns'[q]  BY <2>4, <2>6
  <2> QED  BY <2>1, <2>4, <2>5, <2>7 DEF q, l
<1> QED  BY <1>3, <1>4, <1>5, <1>6 DEF IInv

LEMMA RowsAreOK ==
    ASSUME IInv, NEW r \in Routines, Exists(r)
    PROVE  RowOK(r, row[r], okRuns[r], r \in crossed)
  BY DEF IInv, RowsOK

LEMMA CreatePreserves ==
    ASSUME IInv, NEW r \in Customs, NEW expr \in Exprs, NEW n \in Repeats,
           Create(r, expr, n)
    PROVE  IInv'
<1> USE DEF Create
<1> DEFINE x == [expr |-> ParseSchedule(expr), enabled |-> TRUE,
                 state |-> "scheduled", repeat |-> n, count |-> 0,
                 next |-> NextRun(ParseSchedule(expr), now), simulated |-> FALSE]
<1>1. row' = [row EXCEPT ![r] = x]  OBVIOUS
<1>2. r \in Routines /\ r \notin Defaults  BY RoutinesAssumption DEF Routines
<1>3. /\ ~Exists(r) /\ okRuns[r] = 0
      /\ \A m \in Requests : job[m] # IdleJob => job[m].routine # r
  BY DEF IInv, UnspentIsUnused
<1>4. RowOK(r, x, okRuns[r], r \in crossed)
  <2>1. now \in Nat  BY DEF IInv, Shape
  <2>2. NextRun(expr, now) \in Int  BY <2>1, NextRunIsTime
  <2> QED  BY <1>2, <1>3, <2>2 DEF RowOK, Columns, ParseSchedule
<1> HIDE DEF x
<1>5. Shape'  BY <1>1, <1>2, <1>4 DEF IInv, Shape, RowOK
<1>6. RowsOK'
  BY <1>1, <1>2, <1>4 DEF IInv, Shape, RowsOK, RowOK, Exists
<1>7. UnspentIsUnused'
  BY <1>1, <1>2 DEF IInv, Shape, UnspentIsUnused, Exists, Routines
<1>8. LoadedFits'
  <2> SUFFICES ASSUME NEW m \in Requests, job[m].loaded # Absent,
                      row'[job[m].routine] # Absent
               PROVE  /\ job[m].loaded.repeat = row'[job[m].routine].repeat
                      /\ job[m].loaded.count <= okRuns[job[m].routine]
    BY DEF LoadedFits, Exists
  <2>1. job[m] # IdleJob  BY DEF IdleJob
  <2>2. job[m].routine \in Routines /\ job[m].routine # r
    BY <1>3, <2>1 DEF IInv, Shape, JobShape
  <2>3. row'[job[m].routine] = row[job[m].routine]
    BY <1>1, <2>2 DEF IInv, Shape
  <2> QED  BY <2>3 DEF IInv, LoadedFits, Exists
<1> QED  BY <1>5, <1>6, <1>7, <1>8 DEF IInv

LEMMA UpdatePreserves ==
    ASSUME IInv, NEW r \in Routines, NEW expr \in Exprs \cup {"keep"},
           NEW flag \in {"keep", "on", "off"}, Update(r, expr, flag)
    PROVE  IInv'
<1> USE DEF Update
<1> DEFINE y == Rescheduled(row[r], expr)
           x == Toggled(y, flag)
           n == okRuns[r]
           c == r \in crossed
<1>1. row' = [row EXCEPT ![r] = x]  OBVIOUS
<1>2. RowOK(r, row[r], n, c)  BY RowsAreOK
<1>3. now \in Nat /\ okRuns \in [Routines -> Nat] /\ job \in [Requests -> JobShape]
  BY DEF IInv, Shape
<1> HIDE DEF n, c
<1>4. RowOK(r, y, n, c) /\ y.simulated = row[r].simulated /\ y.repeat = row[r].repeat
  BY <1>2, <1>3, RescheduledOK
<1>5. flag = "on" => y.simulated  BY <1>4 DEF Refused
<1> HIDE DEF y
<1>6. RowOK(r, x, n, c) /\ x.repeat = row[r].repeat  BY <1>4, <1>5, ToggledOK
<1>7. r \in spent \/ r \notin Customs  BY DEF IInv, UnspentIsUnused
<1> HIDE DEF x
<1>8. okRuns'[r] = n /\ (r \in crossed' <=> c)  BY DEF n, c
<1>9. row[r] # Absent  BY DEF Exists
<1>10. RowOK(r, x, okRuns'[r], r \in crossed')  BY <1>6, <1>8 DEF RowOK
<1>11. /\ okRuns' = okRuns /\ crossed' = crossed /\ job' = job
       /\ spent' = spent /\ now' = now
  OBVIOUS
<1>12. okRuns'[r] >= okRuns[r] /\ job' \in [Requests -> JobShape]
       /\ okRuns' \in [Routines -> Nat]
  BY <1>3, <1>11
<1> QED
  BY <1>1, <1>6, <1>7, <1>9, <1>10, <1>11, <1>12, OneRowChanges

LEMMA DeletePreserves ==
    ASSUME IInv, NEW r \in Routines, Delete(r)
    PROVE  IInv'
<1>1. /\ row' = [row EXCEPT ![r] = Absent]
      /\ UNCHANGED <<spent, now, job, okRuns, crossed>>
  BY DEF Delete
<1>2. okRuns \in [Routines -> Nat] /\ job \in [Requests -> JobShape]
  BY DEF IInv, Shape
<1>3. /\ okRuns' = okRuns /\ crossed' = crossed /\ job' = job
      /\ spent' = spent /\ now' = now
  BY <1>1
<1>4. okRuns'[r] >= okRuns[r] /\ job' \in [Requests -> JobShape]
      /\ okRuns' \in [Routines -> Nat]
  BY <1>2, <1>3
<1> DEFINE x == Absent
<1>5. row' = [row EXCEPT ![r] = x] /\ x = Absent  BY <1>1
<1> HIDE DEF x
<1> QED  BY <1>3, <1>4, <1>5, OneRowChanges

\* A run recorded over whatever row is there now.
LEMMA SseStorePreserves ==
    ASSUME IInv, NEW m \in Requests, SseStore(m)
    PROVE  IInv'
<1> DEFINE r == job[m].routine
           loaded == job[m].loaded
<1>1. /\ loaded # Absent
      /\ row' = Recorded(r, loaded)
      /\ job' = [job EXCEPT ![m] = IdleJob]
      /\ UNCHANGED <<spent, now>>
      /\ Exists(r) => /\ okRuns' = [okRuns EXCEPT ![r] = @ + 1]
                      /\ crossed' = IF row[r].count = loaded.count THEN crossed
                                    ELSE crossed \cup {r}
      /\ ~Exists(r) => UNCHANGED <<okRuns, crossed>>
  BY DEF SseStore
<1>2. job[m] # IdleJob  BY <1>1 DEF IdleJob
<1>3. r \in Routines /\ loaded \in Columns /\ now \in Nat
  BY <1>1, <1>2 DEF IInv, Shape, JobShape
<1>4. r \in spent \/ r \notin Customs  BY <1>2 DEF IInv, UnspentIsUnused
<1>5. Exists(r) => loaded.repeat = row[r].repeat /\ loaded.count <= okRuns[r]
  BY <1>1 DEF IInv, LoadedFits
<1>6. /\ okRuns \in [Routines -> Nat] /\ okRuns[r] \in Nat
      /\ job' \in [Requests -> JobShape]
      /\ \A q \in Requests : job'[q] \in {job[q], IdleJob}
  BY <1>1, <1>3 DEF IInv, Shape, JobShape
<1> HIDE DEF r, loaded
<1>7. CASE ~Exists(r)
  <2>1. UNCHANGED <<row, okRuns, crossed>>  BY <1>1, <1>7 DEF Recorded
  <2> QED  BY <1>1, <1>6, <2>1, RowsKept
<1>8. CASE Exists(r)
  <2> DEFINE x == StoredOver(loaded, row[r])
             c == r \in crossed
  <2>1. row' = [row EXCEPT ![r] = x]  BY <1>1, <1>8 DEF Recorded
  <2>2. RowOK(r, row[r], okRuns[r], c)  BY <1>3, <1>8, RowsAreOK
  <2>3. c \in BOOLEAN  OBVIOUS
  <2>4. r \in crossed' <=> c \/ row[r].count # loaded.count  BY <1>1, <1>8
  <2> HIDE DEF c
  <2>5. /\ RowOK(r, x, okRuns[r] + 1, c \/ row[r].count # loaded.count)
        /\ x.repeat = row[r].repeat
    BY <1>3, <1>5, <1>6, <1>8, <2>2, <2>3, StoredOverOK
  <2>6. okRuns'[r] = okRuns[r] + 1 /\ okRuns' \in [Routines -> Nat]
    BY <1>1, <1>3, <1>6, <1>8
  <2>7. \A q \in Routines : q # r =>
            okRuns'[q] = okRuns[q] /\ (q \in crossed' <=> q \in crossed)
    BY <1>1, <1>3, <1>6, <1>8
  <2> HIDE DEF x
  <2>8. RowOK(r, x, okRuns'[r], r \in crossed')  BY <2>4, <2>5, <2>6 DEF RowOK
  <2>9. okRuns'[r] >= okRuns[r] /\ row[r] # Absent  BY <1>6, <1>8, <2>6 DEF Exists
  <2> QED
    BY <1>1, <1>3, <1>4, <1>6, <2>1, <2>5, <2>6, <2>7, <2>8, <2>9, OneRowChanges
<1> QED  BY <1>7, <1>8

LEMMA SseSimulatedPreserves ==
    ASSUME IInv, NEW m \in Requests, SseSimulated(m)
    PROVE  IInv'
<1> DEFINE r == job[m].routine
<1>1. /\ row' = [q \in Routines |-> IF q = r /\ Exists(q)
                                    THEN [row[q] EXCEPT !.simulated = TRUE] ELSE row[q]]
      /\ job[m].kind = "simulate"
      /\ job' = [job EXCEPT ![m] = IdleJob]
      /\ UNCHANGED <<spent, now, okRuns, crossed>>
  BY Zenon DEF SseSimulated
<1>2. job[m] # IdleJob  BY <1>1 DEF IdleJob
<1>3. r \in Routines  BY <1>2 DEF IInv, Shape, JobShape
<1>4. r \in spent \/ r \notin Customs  BY <1>2 DEF IInv, UnspentIsUnused
<1>5. /\ okRuns \in [Routines -> Nat] /\ okRuns[r] \in Nat
      /\ job' \in [Requests -> JobShape]
      /\ \A q \in Requests : job'[q] \in {job[q], IdleJob}
      /\ row \in [Routines -> Columns \cup {Absent}]
  BY <1>1, <1>3 DEF IInv, Shape, JobShape
<1> HIDE DEF r
<1>6. CASE ~Exists(r)
  <2>1. row' = row  BY <1>1, <1>5, <1>6
  <2> QED  BY <1>1, <1>5, <2>1, RowsKept
<1>7. CASE Exists(r)
  <2> DEFINE x == [row[r] EXCEPT !.simulated = TRUE]
             c == r \in crossed
             n == okRuns[r]
  <2>1. row' = [row EXCEPT ![r] = x]  BY <1>1, <1>3, <1>5, <1>7
  <2>2. RowOK(r, row[r], n, c)  BY <1>3, <1>7, RowsAreOK
  <2> HIDE DEF n, c
  <2>3. RowOK(r, x, n, c) /\ x.repeat = row[r].repeat  BY <2>2, SimulatedOK
  <2> HIDE DEF x
  <2>4. okRuns'[r] = n /\ (r \in crossed' <=> c)  BY <1>1 DEF n, c
  <2>5. RowOK(r, x, okRuns'[r], r \in crossed')  BY <2>3, <2>4 DEF RowOK
  <2>6. row[r] # Absent  BY <1>7 DEF Exists
  <2> QED  BY <1>1, <1>3, <1>4, <1>5, <2>1, <2>3, <2>5, <2>6, OneRowChanges
<1> QED  BY <1>6, <1>7

\* Start-up writes to defaults only; the runs that go on find the row they had.
LEMMA RestartPreserves ==
    ASSUME IInv, Restart
    PROVE  IInv'
<1>1. PICK kept \in SUBSET Recordable :
         job' = [m \in Requests |-> IF m \in kept THEN job[m] ELSE IdleJob]
  BY DEF Restart
<1>2. /\ row' = [r \in Routines |-> IF r \in Defaults THEN Resynced(row[r], now)
                                    ELSE row[r]]
      /\ UNCHANGED <<spent, now, okRuns, crossed>>
  BY DEF Restart
<1>3. now \in Nat /\ \A r \in Routines : okRuns[r] \in Nat  BY DEF IInv, Shape
<1>4. ASSUME NEW r \in Defaults
      PROVE  /\ RowOK(r, row'[r], okRuns[r], r \in crossed)
             /\ row[r] # Absent => row'[r].repeat = row[r].repeat
  <2> DEFINE c == r \in crossed
  <2>1. r \in Routines /\ row'[r] = Resynced(row[r], now)  BY <1>2 DEF Routines
  <2>2. c \in BOOLEAN /\ (row[r] # Absent => RowOK(r, row[r], okRuns[r], c))
    BY <2>1, RowsAreOK DEF Exists
  <2> HIDE DEF c
  <2>3. /\ RowOK(r, Resynced(row[r], now), okRuns[r], c)
        /\ row[r] # Absent => Resynced(row[r], now).repeat = row[r].repeat
    BY <1>3, <2>1, <2>2, ResyncedOK
  <2> QED  BY <2>1, <2>3 DEF c
<1>5. \A r \in Customs : row'[r] = row[r]  BY <1>2, RoutinesAssumption DEF Routines
<1>6. RowsOK'
  <2> SUFFICES ASSUME NEW r \in Routines, Exists(r)'
               PROVE  RowOK(r, row'[r], okRuns[r], r \in crossed)
    BY <1>2 DEF RowsOK
  <2>1. CASE r \in Defaults  BY <1>4, <2>1
  <2>2. CASE r \in Customs  BY <1>5, <2>2, RowsAreOK DEF Exists
  <2> QED  BY <2>1, <2>2 DEF Routines
<1>7. Shape'
  <2>1. \A q \in Routines : row'[q] \in Columns \cup {Absent}
    BY <1>6 DEF RowsOK, RowOK, Exists
  <2>2. row' = [q \in Routines |-> row'[q]]  BY <1>2
  <2>3. row' \in [Routines -> Columns \cup {Absent}]  BY <2>1, <2>2
  <2> QED  BY <1>1, <1>2, <2>3 DEF IInv, Shape, JobShape
<1>8. UnspentIsUnused'
  BY <1>1, <1>2, <1>5 DEF IInv, UnspentIsUnused, Exists, IdleJob
<1>9. LoadedFits'
  <2> SUFFICES ASSUME NEW m \in Requests, job'[m].loaded # Absent
               PROVE  /\ job'[m].loaded.repeat = row'[job'[m].routine].repeat
                      /\ job'[m].loaded.count <= okRuns[job'[m].routine]
    BY <1>2 DEF LoadedFits
  <2>1. job'[m] = job[m] /\ m \in Recordable  BY <1>1 DEF IdleJob
  <2> DEFINE r == job[m].routine
  <2>2. r \in Routines /\ row[r] # Absent
    BY <2>1 DEF Recordable, Exists, IInv, Shape, JobShape
  <2>3. row'[r].repeat = row[r].repeat  BY <1>4, <1>5, <2>2 DEF Routines
  <2>4. job[m].loaded.repeat = row[r].repeat /\ job[m].loaded.count <= okRuns[r]
    BY <2>1, <2>2 DEF IInv, LoadedFits, Exists
  <2> HIDE DEF r
  <2> QED  BY <2>1, <2>3, <2>4 DEF r
<1> QED  BY <1>6, <1>7, <1>8, <1>9 DEF IInv

LEMMA ClockPreserves ==
    ASSUME IInv, Clock
    PROVE  IInv'
<1> USE DEF Clock
<1>1. Shape'  BY DEF IInv, Shape
<1> QED
  BY <1>1 DEF IInv, UnspentIsUnused, RowsOK, LoadedFits, Exists

-----------------------------------------------------------------------------
LEMMA NextIInv == IInv /\ [Next]_vars => IInv'
<1> SUFFICES ASSUME IInv, [Next]_vars PROVE IInv'  OBVIOUS
<1>1. ASSUME NEW r \in Customs, NEW expr \in Exprs, NEW n \in Repeats,
             Create(r, expr, n)
      PROVE  IInv'
  BY <1>1, CreatePreserves
<1>2. ASSUME NEW r \in Routines, NEW expr \in Exprs \cup {"keep"},
             NEW flag \in {"keep", "on", "off"}, Update(r, expr, flag)
      PROVE  IInv'
  BY <1>2, UpdatePreserves
<1>3. ASSUME NEW r \in Routines, Delete(r) PROVE IInv'
  BY <1>3, DeletePreserves
<1>4. ASSUME SchedulerStep PROVE IInv'
  <2>1. UNCHANGED <<row, spent, now, job, okRuns, crossed>>
    BY <1>4 DEF SchedulerStep, TickStart, TickRecord, TickNext, Executing
  <2>2. job \in [Requests -> JobShape]  BY DEF IInv, Shape
  <2> QED  BY <2>1, <2>2, RowsKept
<1>5. ASSUME NEW m \in Requests, NEW r \in Routines, NEW kind \in {"run", "simulate"},
             RunStart(m, r, kind)
      PROVE  IInv'
  <2> DEFINE j == [kind |-> kind, routine |-> r, loaded |-> Absent]
  <2>1. /\ UNCHANGED <<row, spent, now, okRuns, crossed>> /\ Exists(r)
        /\ job' = [job EXCEPT ![m] = j]
    BY <1>5 DEF RunStart
  <2>2. j \in JobShape /\ j.routine = r /\ j.loaded = Absent  BY DEF JobShape
  <2> HIDE DEF j
  <2>3. job' \in [Requests -> JobShape]  BY <2>1, <2>2 DEF IInv, Shape
  <2>4. \A q \in Requests : job'[q] \in {job[q], j}
    BY <2>1 DEF IInv, Shape
  <2> QED  BY <2>1, <2>2, <2>3, <2>4, RowsKept
<1>6. ASSUME NEW m \in Requests, SseLoad(m) PROVE IInv'
  <2> DEFINE r == job[m].routine
             j == [job[m] EXCEPT !.loaded = row[r]]
  <2>1. /\ UNCHANGED <<row, spent, now, okRuns, crossed>> /\ Exists(r)
        /\ job' = [job EXCEPT ![m] = j]
        /\ job[m].kind = "run"
    BY <1>6 DEF SseLoad
  <2>2. job[m] \in JobShape \ {IdleJob}  BY <2>1 DEF IInv, Shape, IdleJob
  <2>3. r \in Routines /\ row[r] \in Columns \cup {Absent}
    BY <2>2 DEF JobShape, IInv, Shape
  <2>4. j \in JobShape /\ j.routine = r /\ j.loaded = row[r]
    BY <2>2, <2>3 DEF JobShape
  <2> HIDE DEF r, j
  <2>5. job' \in [Requests -> JobShape]  BY <2>1, <2>4 DEF IInv, Shape
  <2>6. \A q \in Requests : job'[q] \in {job[q], j}
    BY <2>1 DEF IInv, Shape
  <2> QED  BY <2>1, <2>3, <2>4, <2>5, <2>6, RowsKept
<1>7. ASSUME NEW m \in Requests, SseStore(m) PROVE IInv'
  BY <1>7, SseStorePreserves
<1>8. ASSUME NEW m \in Requests, SseSimulated(m) PROVE IInv'
  BY <1>8, SseSimulatedPreserves
<1>9. ASSUME NEW m \in Requests, SseLost(m) PROVE IInv'
  <2>1. /\ UNCHANGED <<row, spent, now, okRuns, crossed>>
        /\ job' = [job EXCEPT ![m] = IdleJob]
    BY <1>9 DEF SseLost
  <2>2. job' \in [Requests -> JobShape]
    BY <2>1 DEF IInv, Shape, JobShape
  <2>3. \A q \in Requests : job'[q] \in {job[q], IdleJob}
    BY <2>1 DEF IInv, Shape
  <2> QED  BY <2>1, <2>2, <2>3, RowsKept
<1>10. CASE Restart  BY <1>10, RestartPreserves
<1>11. CASE Clock  BY <1>11, ClockPreserves
<1>12. CASE UNCHANGED vars
  <2>1. UNCHANGED <<row, spent, now, job, okRuns, crossed>>  BY <1>12 DEF vars
  <2>2. job \in [Requests -> JobShape]  BY DEF IInv, Shape
  <2> QED  BY <2>1, <2>2, RowsKept
<1> QED
  BY <1>1, <1>2, <1>3, <1>4, <1>5, <1>6, <1>7, <1>8, <1>9, <1>10, <1>11, <1>12
  DEF Next

\* The inductive invariant: every row keeps its shape and its promises, whatever
\* the scheduler, overlapping runs, mutations and restarts do in between.
THEOREM RoutineInvariant == Spec => []IInv
<1> QED  BY InitIInv, NextIInv, PTL DEF Spec

\* A default routine is in service only after a simulation, across re-syncs.
THEOREM DefaultsAreSimulated == Spec => []DefaultsRunSimulated
<1>1. IInv => DefaultsRunSimulated
  BY DEF IInv, RowsOK, RowOK, DefaultsRunSimulated, Routines
<1> QED  BY <1>1, RoutineInvariant, PTL

\* No recorded SSE run is counted twice, and none is lost except where two
\* instances have recorded on the same count.
THEOREM CountsAreExact == Spec => []CountIsExact
<1>1. IInv => CountIsExact
  <2> SUFFICES ASSUME IInv, NEW r \in Customs, Exists(r)
               PROVE  /\ row[r].count <= okRuns[r]
                      /\ r \notin crossed => row[r].count = okRuns[r]
    BY DEF CountIsExact
  <2>1. RowOK(r, row[r], okRuns[r], r \in crossed)  BY RowsAreOK DEF Routines
  <2> QED  BY <2>1 DEF RowOK
<1> QED  BY <1>1, RoutineInvariant, PTL

\* Only the limit retires a routine.
THEOREM RetiredAtLimit == Spec => []CompletedAtLimit
<1>1. IInv => CompletedAtLimit
  BY DEF IInv, RowsOK, RowOK, CompletedAtLimit
<1> QED  BY <1>1, RoutineInvariant, PTL

\* A run, a tick or a re-sync does not write a deleted routine back: only Create
\* makes a row for a user's id, and it takes ids nobody had.
THEOREM DeletionsStay == Spec => DeletedStaysDeleted
<1> DEFINE Stays == \A r \in Customs : (r \in spent /\ ~Exists(r)) => row'[r] = Absent
<1>1. IInv /\ [Next]_vars => [Stays]_vars
  <2> SUFFICES ASSUME IInv, [Next]_vars,
                      NEW r \in Customs, r \in spent, ~Exists(r)
               PROVE  row'[r] = Absent
    OBVIOUS
  <2>1. row \in [Routines -> Columns \cup {Absent}] /\ r \in Routines /\ row[r] = Absent
    BY DEF IInv, Shape, Exists, Routines
  <2>2. ASSUME NEW q \in Customs, NEW expr \in Exprs, NEW n \in Repeats,
               Create(q, expr, n)
        PROVE  row'[r] = Absent
    BY <2>1, <2>2 DEF Create
  <2>3. ASSUME NEW q \in Routines, NEW expr \in Exprs \cup {"keep"},
               NEW flag \in {"keep", "on", "off"}, Update(q, expr, flag)
        PROVE  row'[r] = Absent
    BY <2>1, <2>3 DEF Update, Exists
  <2>4. ASSUME NEW q \in Routines, Delete(q) PROVE row'[r] = Absent
    BY <2>1, <2>4 DEF Delete
  <2>5. ASSUME NEW m \in Requests, SseStore(m) PROVE row'[r] = Absent
    BY <2>1, <2>5 DEF SseStore, Recorded, Exists
  <2>6. ASSUME NEW m \in Requests, SseSimulated(m) PROVE row'[r] = Absent
    BY <2>1, <2>6 DEF SseSimulated, Exists
  <2>7. CASE Restart
    BY <2>1, <2>7, RoutinesAssumption DEF Restart
  <2>8. CASE SchedulerStep
    BY <2>1, <2>8 DEF SchedulerStep, TickStart, TickRecord, TickNext, Executing
  <2>9. CASE Clock \/ UNCHANGED vars
    BY <2>1, <2>9 DEF Clock, vars
  <2>10. ASSUME NEW m \in Requests,
                \/ SseLoad(m) \/ SseLost(m)
                \/ \E q \in Routines, kind \in {"run", "simulate"} : RunStart(m, q, kind)
         PROVE  row'[r] = Absent
    BY <2>1, <2>10 DEF SseLoad, SseLost, RunStart
  <2> QED
    BY <2>2, <2>3, <2>4, <2>5, <2>6, <2>7, <2>8, <2>9, <2>10 DEF Next
<1> QED  BY <1>1, RoutineInvariant, PTL DEF Spec, DeletedStaysDeleted

-----------------------------------------------------------------------------
(* The type of the routines' state, bounds included.                       *)

\* Requests at work on r.
Running(r) == Cardinality({m \in Requests : job[m].routine = r})

\* Recorded runs and those under way were all started.
Bounded ==
    /\ TypeOK
    /\ \A r \in Routines : okRuns[r] + Running(r) <= started

LEMMA NextRunInTime ==
    ASSUME NEW expr, NEW t \in 0..MaxTime PROVE NextRun(expr, t) \in Times
<1>1. CASE expr = "cron"
  <2>1. Period \in Nat \ {0} /\ Hour \in Nat /\ MaxTime \in Nat
    BY RoutinesAssumption
  <2> DEFINE k == t \div Period
  <2>2. k \in Nat /\ k * Period <= t  BY <2>1
  <2> HIDE DEF k
  <2>3. (k + 1) * Period = k * Period + Period /\ k * Period \in Nat
    BY <2>1, <2>2
  <2>4. NextRun(expr, t) = (k + 1) * Period  BY <1>1 DEF NextRun, k
  <2> QED  BY <2>1, <2>2, <2>3, <2>4 DEF Times
<1>2. CASE expr # "cron"
  BY <1>2, RoutinesAssumption DEF NextRun, Times
<1> QED  BY <1>1, <1>2

LEMMA SeededWithin ==
    ASSUME NEW t \in 0..MaxTime PROVE Seeded(t) \in RowType
<1>1. NextRun("cron", t) \in Times  BY NextRunInTime
<1>2. 0 \in 0..MaxRuns  BY RoutinesAssumption
<1> QED  BY <1>1, <1>2 DEF Seeded, RowType, Exprs

LEMMA UpdatedWithin ==
    ASSUME now \in 0..MaxTime, NEW x \in RowType,
           NEW expr \in Exprs \cup {"keep"}, NEW flag \in {"keep", "on", "off"}
    PROVE  Toggled(Rescheduled(x, expr), flag) \in RowType
<1> DEFINE y == Rescheduled(x, expr)
<1>1. NextRun(expr, now) \in Times  BY NextRunInTime
<1>2. y \in RowType
  BY <1>1 DEF Rescheduled, ParseSchedule, RowType, Exprs
<1> HIDE DEF y
<1>3. Toggled(y, flag) \in RowType  BY <1>2 DEF Toggled, RowType
<1> QED  BY <1>3 DEF y

LEMMA ResyncedWithin ==
    ASSUME NEW t \in 0..MaxTime, NEW x \in RowType \cup {Absent}
    PROVE  Resynced(x, t) \in RowType
<1>1. NextRun("cron", t) \in Times  BY NextRunInTime
<1>2. Seeded(t) \in RowType  BY SeededWithin
<1> QED  BY <1>1, <1>2 DEF Resynced, RowType, Exprs

LEMMA StoredOverWithin ==
    ASSUME now \in 0..MaxTime, NEW x \in RowType, NEW loaded \in RowType,
           loaded.count + 1 <= MaxRuns
    PROVE  StoredOver(loaded, x) \in RowType
<1> DEFINE y == [loaded EXCEPT !.count = @ + 1]
           c == Counted(loaded)
<1>1. y \in RowType
  <2>1. loaded.count + 1 \in 0..MaxRuns  BY RoutinesAssumption DEF RowType
  <2> QED  BY <2>1 DEF RowType
<1>2. NextRun(y.expr, now) \in Times  BY NextRunInTime
<1>3. c = IF Completed(y)
          THEN [y EXCEPT !.state = "completed", !.enabled = FALSE]
          ELSE [y EXCEPT !.next = NextRun(y.expr, now)]
  BY DEF Counted
<1> HIDE DEF y, c
<1>4. c \in RowType  BY <1>1, <1>2, <1>3 DEF RowType
<1>5. StoredOver(loaded, x) =
        [x EXCEPT !.count = c.count,
                  !.next = Written(loaded.next, c.next, @),
                  !.state = Written(loaded.state, c.state, @),
                  !.enabled = Written(loaded.enabled, c.enabled, @)]
  BY DEF StoredOver, c
<1>6. /\ Written(loaded.next, c.next, x.next) \in Times
      /\ Written(loaded.state, c.state, x.state) \in {"scheduled", "paused", "completed"}
      /\ Written(loaded.enabled, c.enabled, x.enabled) \in BOOLEAN
  BY <1>4 DEF Written, RowType
<1> QED  BY <1>4, <1>5, <1>6 DEF RowType

-----------------------------------------------------------------------------
\* The requests of a routine, as Running counts them.
RunsOf(j, r) == {m \in Requests : j[m].routine = r}

LEMMA RunsAreFinite ==
    ASSUME NEW j, NEW r
    PROVE  IsFiniteSet(RunsOf(j, r)) /\ Cardinality(RunsOf(j, r)) \in Nat
<1>1. IsFiniteSet(Requests) /\ RunsOf(j, r) \subseteq Requests
  BY RoutinesAssumption DEF RunsOf
<1>2. IsFiniteSet(RunsOf(j, r))  BY <1>1, FS_Subset
<1> QED  BY <1>2, FS_CardinalityType

LEMMA RunningIs ==
    ASSUME NEW r
    PROVE  /\ Running(r) = Cardinality(RunsOf(job, r)) /\ Running(r) \in Nat
           /\ Running(r)' = Cardinality(RunsOf(job', r)) /\ Running(r)' \in Nat
<1>1. /\ Running(r) = Cardinality(RunsOf(job, r))
      /\ Running(r)' = Cardinality(RunsOf(job', r))
  BY DEF Running, RunsOf
<1> QED  BY <1>1, RunsAreFinite

\* Ending runs only lowers the count.
LEMMA RunningShrinks ==
    ASSUME NEW r, \A m \in Requests : job'[m].routine = r => job[m].routine = r
    PROVE  Running(r)' <= Running(r)
<1>1. RunsOf(job', r) \subseteq RunsOf(job, r)  BY DEF RunsOf
<1>2. Cardinality(RunsOf(job', r)) <= Cardinality(RunsOf(job, r))
  BY <1>1, RunsAreFinite, FS_Subset
<1> QED  BY <1>2, RunningIs

\* The end of one run of r lowers it by one.
LEMMA RunningEnds ==
    ASSUME NEW r \in Routines, NEW m \in Requests, job[m].routine = r,
           job \in [Requests -> JobType \cup {IdleJob}],
           job' = [job EXCEPT ![m] = IdleJob]
    PROVE  Running(r) = Running(r)' + 1
<1>1. r # Nobody  BY RoutinesAssumption DEF Routines, Nobody
<1>2. /\ RunsOf(job', r) = RunsOf(job, r) \ {m} /\ m \in RunsOf(job, r)
  BY <1>1 DEF RunsOf, IdleJob
<1>3. IsFiniteSet(RunsOf(job, r)) /\ Cardinality(RunsOf(job, r)) \in Nat
  BY RunsAreFinite
<1>4. Cardinality(RunsOf(job, r) \ {m}) = Cardinality(RunsOf(job, r)) - 1
  BY <1>2, <1>3, FS_RemoveElement
<1>5. Cardinality(RunsOf(job', r)) = Cardinality(RunsOf(job, r)) - 1
  BY <1>2, <1>4
<1>6. /\ Running(r) = Cardinality(RunsOf(job, r))
      /\ Running(r)' = Cardinality(RunsOf(job', r))
  BY RunningIs
<1> QED  BY <1>3, <1>5, <1>6

LEMMA RunningStarts ==
    ASSUME NEW r \in Routines, NEW m \in Requests, job[m] = IdleJob,
           NEW j, j.routine = r,
           job \in [Requests -> JobType \cup {IdleJob}],
           job' = [job EXCEPT ![m] = j]
    PROVE  Running(r)' = Running(r) + 1
<1>1. r # Nobody  BY RoutinesAssumption DEF Routines, Nobody
<1>2. RunsOf(job', r) = RunsOf(job, r) \cup {m} /\ m \notin RunsOf(job, r)
  BY <1>1 DEF RunsOf, IdleJob
<1>3. Cardinality(RunsOf(job', r)) = Cardinality(RunsOf(job, r)) + 1
  BY <1>2, RunsAreFinite, FS_AddElement
<1> QED  BY <1>3, RunningIs

-----------------------------------------------------------------------------
LEMMA BoundedInit == Init => Bounded
<1> SUFFICES ASSUME Init PROVE Bounded  OBVIOUS
<1>1. /\ MaxTime \in Nat /\ MaxRuns \in Nat /\ MaxCrashes \in Nat
      /\ 0 \in 0..MaxTime /\ 0 \in 0..MaxRuns /\ 0 \in 0..MaxCrashes
  BY RoutinesAssumption
<1>2. \A r \in Routines : row[r] \in RowType \cup {Absent}
  BY <1>1, SeededWithin DEF Init, Exists
<1>3. tick \in TickType  BY DEF Init, IdleTick, TickType
<1>4. TypeOK  BY <1>1, <1>2, <1>3 DEF Init, TypeOK, Routines
<1>5. \A r \in Routines : Running(r) = 0
  <2> SUFFICES ASSUME NEW r \in Routines PROVE Running(r) = 0  OBVIOUS
  <2>1. RunsOf(job, r) = {}
    BY RoutinesAssumption DEF Init, RunsOf, IdleJob, Routines, Nobody
  <2> QED  BY <2>1, RunningIs, FS_EmptySet
<1> QED  BY <1>1, <1>4, <1>5 DEF Bounded, Init

\* A step that starts and records no run.
LEMMA BoundedRows ==
    ASSUME Bounded, TypeOK', okRuns' = okRuns, started' = started,
           \A m \in Requests : job'[m] = IdleJob \/ job'[m].routine = job[m].routine
    PROVE  Bounded'
<1> SUFFICES ASSUME NEW r \in Routines PROVE okRuns'[r] + Running(r)' <= started'
  BY DEF Bounded
<1>1. r # Nobody  BY RoutinesAssumption DEF Routines, Nobody
<1>2. Running(r)' <= Running(r)  BY <1>1, RunningShrinks DEF IdleJob
<1>3. okRuns[r] \in Nat /\ started \in Nat /\ okRuns[r] + Running(r) <= started
  BY RoutinesAssumption DEF Bounded, TypeOK
<1> QED  BY <1>2, <1>3, RunningIs

\* The run that is recorded is no longer under way.
LEMMA BoundedSseStore ==
    ASSUME Bounded, IInv, NEW m \in Requests, SseStore(m)
    PROVE  Bounded'
<1>0. PICK r \in Routines, loaded \in RowType :
         r = job[m].routine /\ loaded = job[m].loaded
  BY DEF SseStore, Bounded, TypeOK, JobType, IdleJob
<1>1. /\ loaded # Absent
      /\ row' = Recorded(r, loaded)
      /\ job' = [job EXCEPT ![m] = IdleJob]
      /\ UNCHANGED <<spent, now, tick, crashes, started>>
      /\ Exists(r) => /\ okRuns' = [okRuns EXCEPT ![r] = @ + 1]
                      /\ crossed' \in {crossed, crossed \cup {r}}
      /\ ~Exists(r) => UNCHANGED <<okRuns, crossed>>
  BY <1>0 DEF SseStore
<1>2. r \in Routines /\ loaded \in RowType
  OBVIOUS
<1>3. Exists(r) => loaded.count <= okRuns[r]  BY <1>0, <1>1 DEF IInv, LoadedFits
<1>4. MaxRuns \in Nat /\ now \in 0..MaxTime /\ started \in 0..MaxRuns
      /\ okRuns \in [Routines -> 0..MaxRuns]
      /\ row \in [Routines -> RowType \cup {Absent}]
      /\ crossed \subseteq Routines
  BY RoutinesAssumption DEF Bounded, TypeOK
<1>5. job' \in [Requests -> JobType \cup {IdleJob}]
  BY <1>1 DEF Bounded, TypeOK
<1>6. Running(r) = Running(r)' + 1
  <2>1. job \in [Requests -> JobType \cup {IdleJob}]  BY DEF Bounded, TypeOK
  <2>2. job' = [job EXCEPT ![m] = IdleJob] /\ job[m].routine = r  BY <1>0, <1>1
  <2> QED  BY <1>2, <2>1, <2>2, RunningEnds
<1>7. okRuns[r] + Running(r) <= started  BY <1>2 DEF Bounded
<1>8. okRuns[r] + 1 <= MaxRuns  BY <1>2, <1>4, <1>6, <1>7, RunningIs
<1>9. CASE ~Exists(r)
  <2>1. row' = row  BY <1>1, <1>9 DEF Recorded
  <2>2. TypeOK'  BY <1>1, <1>5, <1>9, <2>1 DEF Bounded, TypeOK
  <2>3. \A q \in Requests : job'[q] \in {job[q], IdleJob}
    BY <1>1 DEF Bounded, TypeOK
  <2> QED  BY <1>1, <1>9, <2>2, <2>3, BoundedRows
<1>10. CASE Exists(r)
  <2>1. row[r] \in RowType  BY <1>2, <1>4, <1>10 DEF Exists
  <2>2. loaded.count + 1 <= MaxRuns
    BY <1>2, <1>3, <1>4, <1>8, <1>10 DEF RowType
  <2>3. StoredOver(loaded, row[r]) \in RowType
    BY <1>2, <1>4, <2>1, <2>2, StoredOverWithin
  <2>4. row' = [row EXCEPT ![r] = StoredOver(loaded, row[r])]
    BY <1>1, <1>10 DEF Recorded
  <2>5. row' \in [Routines -> RowType \cup {Absent}]  BY <1>4, <2>3, <2>4
  <2>6. okRuns' \in [Routines -> 0..MaxRuns]
    <3>1. okRuns[r] + 1 \in 0..MaxRuns  BY <1>2, <1>4, <1>8
    <3> QED  BY <1>1, <1>4, <1>10, <3>1
  <2>7. crossed' \subseteq Routines  BY <1>1, <1>2, <1>4, <1>10
  <2>8. TypeOK'  BY <1>1, <1>5, <2>5, <2>6, <2>7 DEF Bounded, TypeOK
  <2>9. ASSUME NEW q \in Routines PROVE okRuns'[q] + Running(q)' <= started'
    <3>1. CASE q = r
      <4>1. okRuns'[r] = okRuns[r] + 1  BY <1>1, <1>2, <1>4, <1>10
      <4>2. Running(r)' \in Nat /\ Running(r) \in Nat  BY RunningIs
      <4>3. okRuns[r] \in Nat /\ started' = started /\ started \in Nat
        BY <1>1, <1>2, <1>4
      <4>4. okRuns'[r] + Running(r)' <= started'
        BY <1>6, <1>7, <4>1, <4>2, <4>3
      <4> QED  BY <3>1, <4>4
    <3>2. CASE q # r
      <4>1. okRuns'[q] = okRuns[q]  BY <1>1, <1>4, <1>10, <3>2
      <4>2. q # Nobody  BY RoutinesAssumption DEF Routines, Nobody
      <4>3. Running(q)' <= Running(q)
        BY <1>1, <4>2, RunningShrinks DEF IdleJob, Bounded, TypeOK
      <4>4. okRuns[q] + Running(q) <= started  BY DEF Bounded
      <4> QED  BY <1>1, <1>4, <4>1, <4>3, <4>4, RunningIs
    <3> QED  BY <3>1, <3>2
  <2> QED  BY <2>8, <2>9 DEF Bounded
<1> QED  BY <1>9, <1>10

LEMMA BoundedStep == Bounded /\ IInv /\ [Next]_vars => Bounded'
<1> SUFFICES ASSUME Bounded, IInv, [Next]_vars PROVE Bounded'
  OBVIOUS
<1>1. /\ now \in 0..MaxTime /\ MaxTime \in Nat /\ MaxRuns \in Nat
      /\ MaxCrashes \in Nat /\ started \in 0..MaxRuns
      /\ row \in [Routines -> RowType \cup {Absent}]
      /\ job \in [Requests -> JobType \cup {IdleJob}]
      /\ \A r \in Routines : okRuns[r] \in 0..MaxRuns
  BY RoutinesAssumption DEF Bounded, TypeOK
<1>2. ASSUME NEW r \in Customs, NEW expr \in Exprs, NEW n \in Repeats,
             Create(r, expr, n)
      PROVE  Bounded'
  <2> DEFINE x == [expr |-> ParseSchedule(expr), enabled |-> TRUE,
                   state |-> "scheduled", repeat |-> n, count |-> 0,
                   next |-> NextRun(ParseSchedule(expr), now),
                   simulated |-> FALSE]
  <2>1. NextRun(expr, now) \in Times  BY <1>1, NextRunInTime
  <2>2. r \in Routines  BY DEF Routines
  <2>3. x \in RowType
    BY <1>1, <2>1, <2>2 DEF RowType, ParseSchedule
  <2>4. row' = [row EXCEPT ![r] = x] /\ spent' = spent \cup {r}
        /\ UNCHANGED <<now, tick, job, crashes, started, okRuns, crossed>>
    BY <1>2 DEF Create
  <2> HIDE DEF x
  <2>5. TypeOK'  BY <2>2, <2>3, <2>4 DEF Bounded, TypeOK
  <2> QED  BY <2>4, <2>5, BoundedRows
<1>3. ASSUME NEW r \in Routines, NEW expr \in Exprs \cup {"keep"},
             NEW flag \in {"keep", "on", "off"}, Update(r, expr, flag)
      PROVE  Bounded'
  <2> DEFINE x == Toggled(Rescheduled(row[r], expr), flag)
  <2>1. /\ row' = [row EXCEPT ![r] = x] /\ Exists(r)
        /\ UNCHANGED <<spent, now, tick, job, crashes, started, okRuns, crossed>>
    BY <1>3 DEF Update
  <2>2. x \in RowType
    BY <1>1, <2>1, UpdatedWithin DEF Exists
  <2> HIDE DEF x
  <2>3. TypeOK'  BY <2>1, <2>2 DEF Bounded, TypeOK
  <2> QED  BY <2>1, <2>3, BoundedRows
<1>4. ASSUME NEW r \in Routines, Delete(r) PROVE Bounded'
  <2>1. /\ row' = [row EXCEPT ![r] = Absent]
        /\ UNCHANGED <<spent, now, tick, job, crashes, started, okRuns, crossed>>
    BY <1>4 DEF Delete
  <2>2. TypeOK'  BY <2>1 DEF Bounded, TypeOK
  <2> QED  BY <2>1, <2>2, BoundedRows
<1>5. ASSUME SchedulerStep PROVE Bounded'
  <2>1. UNCHANGED <<row, spent, now, job, crashes, started, okRuns, crossed>>
    BY <1>5 DEF SchedulerStep, TickStart, TickRecord, TickNext, Executing
  <2>2. tick' \in TickType
    <3>1. tick \in TickType  BY DEF Bounded, TypeOK
    <3>2. IdleTick \in TickType  BY DEF IdleTick, TickType
    <3>3. ASSUME NEW r \in Routines, NEW synced \in BOOLEAN, TickStart(r, synced)
          PROVE  tick' \in TickType
      BY <3>3 DEF TickStart, Executing, TickType
    <3>4. ASSUME TickRecord PROVE tick' \in TickType
      BY <3>1, <3>2, <3>4 DEF TickRecord, TickType
    <3>5. ASSUME NEW r \in Routines, TickNext(r) PROVE tick' \in TickType
      BY <3>1, <3>5 DEF TickNext, Executing, TickType
    <3> QED  BY <1>5, <3>3, <3>4, <3>5 DEF SchedulerStep
  <2>3. TypeOK'  BY <2>1, <2>2 DEF Bounded, TypeOK
  <2> QED  BY <2>1, <2>3, BoundedRows
<1>6. ASSUME NEW m \in Requests, NEW r \in Routines, NEW kind \in {"run", "simulate"},
             RunStart(m, r, kind)
      PROVE  Bounded'
  <2> DEFINE j == [kind |-> kind, routine |-> r, loaded |-> Absent]
  <2>1. /\ job' = [job EXCEPT ![m] = j]
        /\ job[m] = IdleJob /\ started < MaxRuns /\ started' = started + 1
        /\ UNCHANGED <<row, spent, now, tick, crashes, okRuns, crossed>>
    BY <1>6 DEF RunStart
  <2>2. j \in JobType /\ j.routine = r  BY DEF JobType
  <2> HIDE DEF j
  <2>3. started' \in 0..MaxRuns  BY <1>1, <2>1
  <2>4. TypeOK'  BY <2>1, <2>2, <2>3 DEF Bounded, TypeOK
  <2>5. Running(r)' = Running(r) + 1
    BY <1>1, <2>1, <2>2, RunningStarts
  <2>6. ASSUME NEW q \in Routines PROVE okRuns'[q] + Running(q)' <= started'
    <3>1. okRuns[q] + Running(q) <= started  BY DEF Bounded
    <3>2. CASE q = r  BY <1>1, <2>1, <2>5, <3>1, <3>2, RunningIs
    <3>3. CASE q # r
      <4>1. Running(q)' <= Running(q)
        BY <1>1, <2>1, <2>2, <3>3, RunningShrinks
      <4> QED  BY <1>1, <2>1, <3>1, <4>1, RunningIs
    <3> QED  BY <3>2, <3>3
  <2> QED  BY <2>4, <2>6 DEF Bounded
<1>7. ASSUME NEW m \in Requests, SseLoad(m) PROVE Bounded'
  <2> DEFINE j == [job[m] EXCEPT !.loaded = row[job[m].routine]]
  <2>1. /\ job' = [job EXCEPT ![m] = j] /\ job[m] # IdleJob
        /\ UNCHANGED <<row, spent, now, tick, crashes, started, okRuns, crossed>>
    BY <1>7 DEF SseLoad, IdleJob
  <2>2. job[m] \in JobType  BY <1>1, <2>1
  <2>3. j \in JobType /\ j.routine = job[m].routine  BY <1>1, <2>2 DEF JobType
  <2> HIDE DEF j
  <2>4. TypeOK'  BY <2>1, <2>3 DEF Bounded, TypeOK
  <2>5. \A q \in Requests : job'[q].routine = job[q].routine
    BY <1>1, <2>1, <2>3
  <2> QED  BY <2>1, <2>4, <2>5, BoundedRows
<1>8. ASSUME NEW m \in Requests, SseStore(m) PROVE Bounded'
  BY <1>8, BoundedSseStore
<1>9. ASSUME NEW m \in Requests, SseSimulated(m) PROVE Bounded'
  <2>1. /\ job' = [job EXCEPT ![m] = IdleJob]
        /\ row' = [q \in Routines |->
                     IF q = job[m].routine /\ Exists(q)
                     THEN [row[q] EXCEPT !.simulated = TRUE] ELSE row[q]]
        /\ UNCHANGED <<spent, now, tick, crashes, started, okRuns, crossed>>
    BY <1>9, Zenon DEF SseSimulated
  <2>2. \A q \in Routines : Exists(q) => [row[q] EXCEPT !.simulated = TRUE] \in RowType
    BY <1>1 DEF Exists, RowType
  <2>3. row' \in [Routines -> RowType \cup {Absent}]  BY <1>1, <2>1, <2>2
  <2>4. TypeOK'  BY <2>1, <2>3 DEF Bounded, TypeOK
  <2>5. \A q \in Requests : job'[q] \in {job[q], IdleJob}
    BY <1>1, <2>1
  <2> QED  BY <2>1, <2>4, <2>5, BoundedRows
<1>10. ASSUME NEW m \in Requests, SseLost(m) PROVE Bounded'
  <2>1. /\ job' = [job EXCEPT ![m] = IdleJob]
        /\ UNCHANGED <<row, spent, now, tick, crashes, started, okRuns, crossed>>
    BY <1>10 DEF SseLost
  <2>2. TypeOK'  BY <2>1 DEF Bounded, TypeOK
  <2>3. \A q \in Requests : job'[q] \in {job[q], IdleJob}
    BY <1>1, <2>1
  <2> QED  BY <2>1, <2>2, <2>3, BoundedRows
<1>11. CASE Restart
  <2>1. PICK kept \in SUBSET Recordable :
           job' = [m \in Requests |-> IF m \in kept THEN job[m] ELSE IdleJob]
    BY <1>11 DEF Restart
  <2>2. /\ row' = [r \in Routines |-> IF r \in Defaults THEN Resynced(row[r], now)
                                      ELSE row[r]]
        /\ tick' \in {tick, IdleTick}
        /\ crashes' \in 0..MaxCrashes
        /\ UNCHANGED <<spent, now, started, okRuns, crossed>>
    BY <1>1, <1>11 DEF Restart, Bounded, TypeOK
  <2>3. row' \in [Routines -> RowType \cup {Absent}]
    <3>1. ASSUME NEW r \in Routines PROVE row'[r] \in RowType \cup {Absent}
      <4>1. row[r] \in RowType \cup {Absent}  BY <1>1
      <4>2. Resynced(row[r], now) \in RowType  BY <1>1, <4>1, ResyncedWithin
      <4> QED  BY <2>2, <4>1, <4>2
    <3>2. \A r \in Routines : row'[r] \in RowType \cup {Absent}  BY <3>1
    <3>3. row' = [r \in Routines |-> row'[r]]  BY <2>2
    <3> QED  BY <3>2, <3>3
  <2>4. tick' \in TickType
    <3>1. tick \in TickType  BY DEF Bounded, TypeOK
    <3>2. IdleTick \in TickType  BY DEF IdleTick, TickType
    <3> QED  BY <2>2, <3>1, <3>2
  <2>5. job' \in [Requests -> JobType \cup {IdleJob}]  BY <1>1, <2>1
  <2>6. TypeOK'  BY <2>2, <2>3, <2>4, <2>5 DEF Bounded, TypeOK
  <2> QED  BY <2>1, <2>2, <2>6, BoundedRows
<1>12. CASE Clock
  <2>1. /\ now' \in 0..MaxTime
        /\ UNCHANGED <<row, spent, tick, job, crashes, started, okRuns, crossed>>
    BY <1>1, <1>12 DEF Clock
  <2>2. TypeOK'  BY <2>1 DEF Bounded, TypeOK
  <2> QED  BY <2>1, <2>2, BoundedRows
<1>13. CASE UNCHANGED vars
  <2>1. TypeOK'  BY <1>13 DEF Bounded, TypeOK, vars
  <2> QED  BY <1>13, <2>1, BoundedRows DEF vars
<1> QED
  BY <1>2, <1>3, <1>4, <1>5, <1>6, <1>7, <1>8, <1>9, <1>10, <1>11, <1>12, <1>13
  DEF Next

\* Every variable has its type, for any routines, requests and bounds: no clock
\* and no schedule takes a due time out of range, and however many runs overlap
\* their counts stay within the runs that were allowed to start.
THEOREM RoutineTypeCorrect == Spec => []TypeOK
<1>1. Bounded => TypeOK  BY DEF Bounded
<1> QED  BY <1>1, BoundedInit, BoundedStep, RoutineInvariant, PTL DEF Spec

-----------------------------------------------------------------------------
(* The poller of SMS and the webhook (InboundSms).                         *)

InHands == HandlerType \cup {Free}
CycleType == [phase : {"fetching"}, since : Int, now : Nat,
              contacts : SUBSET Contacts, batch : SUBSET Messages]

\* Copies are stored between the sending of their message and now.
RowGood(m) ==
    /\ rows[m] \in Seq(Nat)
    /\ \A i \in DOMAIN rows[m] : created[m] <= rows[m][i] /\ rows[m][i] <= clock
    /\ m \notin Sent => rows[m] = <<>>

\* A message in hand was sent, and flushed after that.
HandGood(h) ==
    /\ handler[h] # Free => handler[h].msg \in Sent
    /\ Has(h, "flushed") =>
          created[handler[h].msg] <= handler[h].at /\ handler[h].at <= clock

PollGood ==
    poll # NoPoll =>
       /\ poll \in CycleType
       /\ -Lookback <= poll.since /\ poll.since <= poll.now /\ poll.now <= clock
       /\ poll.batch \subseteq Sent
       /\ watermark = 0 \/ watermark = poll.since

SmsTyped ==
    /\ clock \in Nat /\ 1 <= clock /\ clock <= MaxClock
    /\ watermark \in Nat /\ watermark <= clock
    /\ faults \in 0..MaxFaults
    /\ created \in [Messages -> Nat]
    /\ \A m \in Messages : created[m] <= clock
    /\ hooks \subseteq Sent /\ excused \subseteq Sent /\ raced \subseteq Sent
    /\ blind \subseteq Sent
    /\ handler \in [Handlers -> InHands]
    /\ \A h \in Handlers : HandGood(h)
    /\ \A m \in Messages : RowGood(m)
    /\ DOMAIN rows = Messages /\ rows = [m \in Messages |-> rows[m]]
    /\ PollGood

\* The poller will come to the message, or is at it.
AtPoller(m) ==
    /\ Has("poller", "routed") \/ Has("poller", "flushed")
    /\ handler["poller"].msg = m
Pending(m) ==
    Due(m) /\ (From[m] \in poll.contacts \/ m \in poll.batch \/ AtPoller(m))
Caught(m) == Kept(m) \/ m \in excused \/ m \in Textless

\* What a cycle has gone past is caught, and so is what the watermark has.
Missed ==
    /\ \A m \in Sent : created[m] <= watermark => Caught(m)
    /\ poll # NoPoll =>
          \A m \in Sent : created[m] <= poll.now => Pending(m) \/ Caught(m)

\* The poller has in hand what it found no copy of, and nobody else has it.
AtWebhook(m) ==
    /\ Has("webhook", "routed") \/ Has("webhook", "flushed")
    /\ handler["webhook"].msg = m
Unrepeated ==
    \A m \in Messages : AtPoller(m) =>
        \/ m \in raced \cup blind \cup Undated
        \/ ~AtWebhook(m) /\ \A i \in DOMAIN rows[m] : ~Near(m, rows[m][i])

-----------------------------------------------------------------------------
(* Messages in hand, and copies.                                           *)

LEMMA HandFacts ==
    ASSUME NEW r \in HandlerType
    PROVE  /\ r # Free /\ r.msg \in Messages
           /\ r.phase \in {"routed", "flushed", "answering"}
           /\ r.phase = "routed" => r.here \in BOOLEAN
           /\ r.phase = "flushed" => r.here \in BOOLEAN /\ r.at \in ClockTimes
  BY DEF HandlerType, Free

LEMMA FreeFacts == Free.phase = "free" /\ Free \notin HandlerType
  BY DEF Free, HandlerType

LEMMA InHandFacts ==
    ASSUME SmsTyped, NEW h \in Handlers, ~Has(h, "free")
    PROVE  /\ handler[h] \in HandlerType /\ handler[h].msg \in Sent
           /\ handler[h].msg \in Messages
  BY HandFacts, FreeFacts DEF SmsTyped, InHands, Has, HandGood, Sent

\* One message in hand changes.
Hand(h, r) == handler' = [handler EXCEPT ![h] = r]

LEMMA HandStep ==
    ASSUME SmsTyped, NEW h \in Handlers, NEW r \in InHands, Hand(h, r)
    PROVE  /\ handler' \in [Handlers -> InHands] /\ handler'[h] = r
           /\ \A k \in Handlers : k # h => handler'[k] = handler[k]
  BY DEF SmsTyped, Hand

LEMMA FlushedFacts ==
    ASSUME SmsTyped, NEW m \in Messages, NEW here \in BOOLEAN
    PROVE  /\ [phase |-> "routed", msg |-> m, here |-> here] \in HandlerType
           /\ [phase |-> "flushed", msg |-> m, here |-> here, at |-> clock]
                 \in HandlerType
           /\ Answering(m) \in HandlerType
<1>1. clock \in ClockTimes  BY SmsAssumption DEF SmsTyped, ClockTimes
<1> QED  BY <1>1 DEF HandlerType, Answering

\* No copy goes.
RowsExtend ==
    \A m \in Messages : \A i \in DOMAIN rows[m] :
        i \in DOMAIN rows'[m] /\ rows'[m][i] = rows[m][i]

\* A copy more.
Stores(m, time) == rows' = [rows EXCEPT ![m] = Append(@, time)]

LEMMA StoreFacts ==
    ASSUME SmsTyped, NEW m \in Sent, NEW time \in Nat, Stores(m, time),
           created[m] <= time, time <= clock, UNCHANGED <<created, clock>>
    PROVE  /\ \A x \in Messages : RowGood(x)'
           /\ DOMAIN rows' = Messages /\ rows' = [x \in Messages |-> rows'[x]]
           /\ RowsExtend /\ rows'[m] # <<>>
           /\ \A x \in Messages : x # m => rows'[x] = rows[x]
<1>1. /\ DOMAIN rows' = Messages /\ rows' = [x \in Messages |-> rows'[x]]
      /\ rows'[m] = Append(rows[m], time)
      /\ \A x \in Messages : x # m => rows'[x] = rows[x]
  BY DEF SmsTyped, Stores, Sent
<1>2. m \in Messages /\ rows[m] \in Seq(Nat)  BY DEF SmsTyped, RowGood, Sent
<1>3. /\ rows'[m] \in Seq(Nat) /\ rows'[m] # <<>>
      /\ DOMAIN rows'[m] = DOMAIN rows[m] \cup {Len(rows[m]) + 1}
      /\ rows'[m][Len(rows[m]) + 1] = time
      /\ \A i \in DOMAIN rows[m] : rows'[m][i] = rows[m][i]
  BY <1>1, <1>2
<1>4. RowsExtend  BY <1>1, <1>3 DEF RowsExtend
<1>5. ASSUME NEW x \in Messages PROVE RowGood(x)'
  <2>1. RowGood(x) /\ RowGood(m)  BY <1>2 DEF SmsTyped
  <2>2. CASE x = m  BY <1>3, <2>1, <2>2 DEF RowGood, Sent
  <2>3. CASE x # m  BY <1>1, <2>1, <2>3 DEF RowGood, Sent
  <2> QED  BY <2>2, <2>3
<1> QED  BY <1>1, <1>3, <1>4, <1>5

\* What is kept stays kept.
LEMMA KeptStays ==
    ASSUME SmsTyped, NEW m \in Messages, Kept(m), RowsExtend,
           created'[m] = created[m]
    PROVE  Kept(m)'
<1>1. CASE rows[m] # <<>>
  <2>1. rows[m] \in Seq(Nat)  BY DEF SmsTyped, RowGood
  <2>2. 1 \in DOMAIN rows[m]  BY <1>1, <2>1
  <2>3. 1 \in DOMAIN rows'[m]  BY <2>2 DEF RowsExtend
  <2>4. rows'[m] # <<>>  BY <2>3
  <2> QED  BY <2>4 DEF Kept
<1>2. ASSUME NEW x \in Messages, Body[x] = Body[m], NEW i \in DOMAIN rows[x],
             Near(m, rows[x][i])
      PROVE  Kept(m)'
  <2>1. i \in DOMAIN rows'[x] /\ rows'[x][i] = rows[x][i]
    BY DEF RowsExtend
  <2>2. rows'[x][i] - created'[m] \in (-Window)..Window
    BY <1>2, <2>1 DEF Near
  <2> QED  BY <1>2, <2>1, <2>2 DEF Kept, Near
<1> QED  BY <1>1, <1>2 DEF Kept

LEMMA CaughtStays ==
    ASSUME SmsTyped, NEW m \in Messages, Caught(m), RowsExtend,
           created'[m] = created[m], excused \subseteq excused'
    PROVE  Caught(m)'
  BY KeptStays DEF Caught

\* A step that takes the watermark nowhere and passes no message by.
LEMMA MissedKept ==
    ASSUME SmsTyped, Missed, RowsExtend, excused \subseteq excused',
           \A m \in Sent' : \/ m \in Sent /\ created'[m] = created[m]
                            \/ created'[m] > clock,
           watermark' \in {watermark, 0},
           created' \in [Messages -> Nat],
           \/ poll' = NoPoll
           \/ /\ poll # NoPoll /\ poll' # NoPoll
              /\ poll'.since = poll.since /\ poll'.now = poll.now
              /\ \A m \in Sent :
                    /\ Pending(m) /\ created[m] <= poll.now
                    /\ created'[m] = created[m]
                    => Pending(m)' \/ Caught(m)'
    PROVE  Missed'
<1>1. ASSUME NEW m \in Sent', created'[m] <= watermark' PROVE Caught(m)'
  <2>1. m \in Messages /\ created'[m] > 0 /\ created'[m] \in Nat
    BY DEF Sent
  <2>2. watermark' = watermark /\ watermark \in Nat /\ watermark <= clock
        /\ clock \in Nat
    BY <1>1, <2>1 DEF SmsTyped
  <2>3. m \in Sent /\ created'[m] = created[m]
    BY <1>1, <2>1, <2>2
  <2>4. Caught(m)  BY <1>1, <2>2, <2>3 DEF Missed
  <2> QED  BY <2>1, <2>3, <2>4, CaughtStays
<1>2. ASSUME poll' # NoPoll, NEW m \in Sent', created'[m] <= poll'.now
      PROVE  Pending(m)' \/ Caught(m)'
  <2>1. m \in Messages /\ created'[m] \in Nat  BY DEF Sent
  <2>2. /\ poll # NoPoll /\ poll'.now = poll.now
        /\ poll.now \in Nat /\ poll.now <= clock /\ clock \in Nat
    BY <1>2 DEF SmsTyped, PollGood, CycleType
  <2>3. m \in Sent /\ created'[m] = created[m]  BY <1>2, <2>1, <2>2
  <2>4. Pending(m) \/ Caught(m)  BY <1>2, <2>2, <2>3 DEF Missed
  <2> QED  BY <1>2, <2>1, <2>3, <2>4, CaughtStays
<1> QED  BY <1>1, <1>2 DEF Missed

-----------------------------------------------------------------------------
(* Types.                                                                  *)

\* What a step leaves alone stays well typed as time goes on.
LEMMA RowsSame ==
    ASSUME SmsTyped, UNCHANGED <<rows, created>>, clock' \in Nat, clock <= clock'
    PROVE  /\ \A m \in Messages : RowGood(m)'
           /\ DOMAIN rows' = Messages /\ rows' = [m \in Messages |-> rows'[m]]
<1>1. ASSUME NEW m \in Messages PROVE RowGood(m)'
  <2>1. RowGood(m) /\ created[m] \in Nat /\ clock \in Nat  BY DEF SmsTyped
  <2> QED  BY <2>1 DEF RowGood, Sent
<1> QED  BY <1>1 DEF SmsTyped

LEMMA HandsSame ==
    ASSUME SmsTyped, UNCHANGED <<handler, created>>,
           clock' \in Nat, clock <= clock'
    PROVE  /\ handler' \in [Handlers -> InHands]
           /\ \A h \in Handlers : HandGood(h)'
<1>1. ASSUME NEW h \in Handlers PROVE HandGood(h)'
  <2>1. HandGood(h) /\ clock \in Nat /\ clock <= MaxClock  BY DEF SmsTyped
  <2>2. ASSUME Has(h, "flushed") PROVE handler[h].at \in Nat
    <3>1. handler[h] \in HandlerType  BY <2>2, InHandFacts DEF Has
    <3> QED  BY <2>2, <3>1, HandFacts DEF Has, ClockTimes
  <2> QED  BY <2>1, <2>2 DEF HandGood, Has, Sent
<1> QED  BY <1>1 DEF SmsTyped

LEMMA PollSame ==
    ASSUME SmsTyped, UNCHANGED <<poll, watermark>>, Sent \subseteq Sent',
           clock' \in Nat, clock <= clock'
    PROVE  PollGood'
<1>1. PollGood /\ clock \in Nat  BY DEF SmsTyped
<1>2. ASSUME poll # NoPoll PROVE poll.now \in Nat
  BY <1>1, <1>2 DEF PollGood, CycleType
<1> QED  BY <1>1, <1>2 DEF PollGood

\* What a handler comes to have in hand.
LEMMA HandTyped ==
    ASSUME SmsTyped, NEW h \in Handlers, NEW r \in InHands, Hand(h, r),
           r # Free => r.msg \in Sent,
           r.phase = "flushed" => created[r.msg] <= r.at /\ r.at <= clock,
           UNCHANGED <<created, clock>>
    PROVE  /\ handler' \in [Handlers -> InHands]
           /\ \A k \in Handlers : HandGood(k)'
<1>1. /\ handler' \in [Handlers -> InHands] /\ handler'[h] = r
      /\ \A k \in Handlers : k # h => handler'[k] = handler[k]
  BY HandStep
<1>2. ASSUME NEW k \in Handlers PROVE HandGood(k)'
  <2>1. HandGood(k)  BY DEF SmsTyped
  <2>2. CASE k = h  BY <1>1, <2>2 DEF HandGood, Has, Sent
  <2>3. CASE k # h  BY <1>1, <2>1, <2>3 DEF HandGood, Has, Sent
  <2> QED  BY <2>2, <2>3
<1> QED  BY <1>1, <1>2

\* A step of the handlers: one of them moves on.
LEMMA HandlerTyped ==
    ASSUME SmsTyped, NEW h \in Handlers, NEW r \in InHands, Hand(h, r),
           r # Free => r.msg \in Sent,
           r.phase = "flushed" => created[r.msg] <= r.at /\ r.at <= clock,
           UNCHANGED <<clock, created, poll, watermark>>,
           hooks' \subseteq Sent, excused' \subseteq Sent, raced' \subseteq Sent,
           blind' \subseteq Sent, faults' \in 0..MaxFaults,
           /\ \A m \in Messages : RowGood(m)'
           /\ DOMAIN rows' = Messages /\ rows' = [m \in Messages |-> rows'[m]]
    PROVE  SmsTyped'
<1>1. Sent' = Sent /\ clock \in Nat /\ clock <= clock  BY DEF Sent, SmsTyped
<1>2. PollGood'  BY <1>1, PollSame
<1>3. /\ handler' \in [Handlers -> InHands] /\ \A k \in Handlers : HandGood(k)'
  BY HandTyped
<1> QED  BY <1>1, <1>2, <1>3 DEF SmsTyped

\* A step that only changes the poll cycle and what goes with it.
LEMMA PollTyped ==
    ASSUME SmsTyped, UNCHANGED <<clock, created, hooks, rows, handler, raced, blind>>,
           PollGood', watermark' \in Nat, watermark' <= clock,
           faults' \in 0..MaxFaults, excused' \subseteq Sent
    PROVE  SmsTyped'
<1>1. Sent' = Sent /\ clock' \in Nat /\ clock <= clock'  BY DEF Sent, SmsTyped
<1>2. /\ \A m \in Messages : RowGood(m)'
      /\ DOMAIN rows' = Messages /\ rows' = [m \in Messages |-> rows'[m]]
  BY <1>1, RowsSame
<1>3. /\ handler' \in [Handlers -> InHands] /\ \A k \in Handlers : HandGood(k)'
  BY <1>1, HandsSame
<1> QED  BY <1>1, <1>2, <1>3 DEF SmsTyped

LEMMA FaultTyped ==
    ASSUME SmsTyped, Fault
    PROVE  faults' \in 0..MaxFaults
<1>1. MaxFaults \in Nat  BY SmsAssumption
<1> QED  BY <1>1 DEF SmsTyped, Fault

LEMMA SmsInitTyped == SmsInit => SmsTyped
<1> SUFFICES ASSUME SmsInit PROVE SmsTyped
  OBVIOUS
<1>1. MaxClock \in Nat \ {0} /\ MaxFaults \in Nat  BY SmsAssumption
<1>2. \A m \in Messages : RowGood(m)  BY DEF SmsInit, RowGood, Sent
<1>3. \A h \in Handlers : HandGood(h) /\ handler[h] = Free
  BY DEF SmsInit, HandGood, Has, Free
<1>4. PollGood  BY DEF SmsInit, PollGood
<1>5. handler \in [Handlers -> InHands]  BY DEF SmsInit, InHands
<1> QED  BY <1>1, <1>2, <1>3, <1>4, <1>5 DEF SmsInit, SmsTyped, Sent

LEMMA ClockStepTyped ==
    SmsTyped /\ (Tick \/ \E m \in Messages : Send(m)) => SmsTyped'
<1>1. ASSUME SmsTyped, Tick PROVE SmsTyped'
  <2>1. /\ Sent' = Sent /\ clock \in Nat /\ clock' \in Nat /\ clock <= clock'
        /\ clock' <= MaxClock /\ MaxClock \in Nat
        /\ UNCHANGED <<rows, created, handler, poll, watermark>>
    BY <1>1, SmsAssumption DEF Tick, provider, Sent, SmsTyped
  <2>2. /\ \A m \in Messages : RowGood(m)'
        /\ DOMAIN rows' = Messages /\ rows' = [m \in Messages |-> rows'[m]]
    BY <1>1, <2>1, RowsSame
  <2>3. /\ handler' \in [Handlers -> InHands] /\ \A k \in Handlers : HandGood(k)'
    BY <1>1, <2>1, HandsSame
  <2>4. PollGood'  BY <1>1, <2>1, PollSame
  <2>5. \A m \in Messages : created'[m] <= clock'
    BY <1>1, <2>1 DEF SmsTyped
  <2> QED  BY <1>1, <2>1, <2>2, <2>3, <2>4, <2>5 DEF SmsTyped, Tick, provider
<1>2. ASSUME SmsTyped, NEW m \in Messages, Send(m) PROVE SmsTyped'
  <2>1. /\ clock \in Nat /\ clock' = clock + 1 /\ clock' <= MaxClock
        /\ MaxClock \in Nat /\ m \notin Sent
        /\ UNCHANGED <<rows, handler, poll, watermark, faults, excused, raced, blind>>
        /\ hooks' \in {hooks, hooks \cup {m}}
    BY <1>2, SmsAssumption DEF Send, SmsTyped
  <2>2. /\ created' \in [Messages -> Nat] /\ created'[m] = clock + 1
        /\ \A x \in Messages : x # m => created'[x] = created[x]
    BY <1>2, <2>1 DEF Send, SmsTyped
  <2>3. Sent' = Sent \cup {m} /\ \A x \in Sent : created'[x] = created[x]
    BY <2>1, <2>2 DEF Sent
  <2>4. ASSUME NEW x \in Messages PROVE RowGood(x)'
    <3>1. RowGood(x) /\ RowGood(m)  BY <1>2 DEF SmsTyped
    <3>2. CASE x = m
      <4>1. rows[x] = <<>>  BY <2>1, <3>1, <3>2 DEF RowGood
      <4>2. rows'[x] = <<>> /\ DOMAIN <<>> = {}  BY <2>1, <4>1
      <4> QED  BY <4>2 DEF RowGood
    <3>3. CASE x # m
      <4>1. created'[x] = created[x] /\ rows' = rows  BY <2>1, <2>2, <3>3
      <4>2. x \notin Sent' => x \notin Sent  BY <2>3
      <4>3. \A i \in DOMAIN rows[x] : rows[x][i] \in Nat
        BY <3>1 DEF RowGood
      <4> QED  BY <2>1, <3>1, <4>1, <4>2, <4>3 DEF RowGood
    <3> QED  BY <3>2, <3>3
  <2>5. ASSUME NEW h \in Handlers PROVE HandGood(h)'
    <3>1. HandGood(h)  BY <1>2 DEF SmsTyped
    <3>2. ASSUME Has(h, "flushed")
          PROVE  /\ handler[h].at \in Nat /\ handler[h] # Free
      <4>1. handler[h] \in HandlerType  BY <1>2, <3>2, InHandFacts DEF Has
      <4> QED  BY <3>2, <4>1, HandFacts DEF Has, ClockTimes
    <3> QED  BY <2>1, <2>3, <3>1, <3>2 DEF HandGood, Has
  <2>6. PollGood'  BY <1>2, <2>1, <2>3, PollSame
  <2>7. \A x \in Messages : created'[x] <= clock'
    <3>1. \A x \in Messages : created[x] \in Nat /\ created[x] <= clock
      BY <1>2 DEF SmsTyped
    <3> QED  BY <2>1, <2>2, <3>1
  <2>8. DOMAIN rows' = Messages /\ rows' = [x \in Messages |-> rows'[x]]
    BY <1>2, <2>1 DEF SmsTyped
  <2> QED
    BY <1>2, <2>1, <2>2, <2>3, <2>4, <2>5, <2>6, <2>7, <2>8 DEF SmsTyped
<1> QED  BY <1>1, <1>2

\* The handlers' own steps.
LEMMA ProcessTyped ==
    ASSUME SmsTyped, NEW h \in Handlers, Process(h)
    PROVE  SmsTyped'
<1> DEFINE m == handler[h].msg
<1>1. SUFFICES ASSUME ~Has(h, "free") PROVE SmsTyped'
  BY FreeFacts DEF Process, StoreVendor, Refuse, Flush, Commit, Answered, Has
<1>2. /\ handler[h] \in HandlerType /\ m \in Sent /\ m \in Messages
  BY <1>1, InHandFacts
<1>3. /\ clock \in Nat /\ created[m] <= clock /\ faults \in 0..MaxFaults
      /\ hooks \subseteq Sent /\ excused \subseteq Sent /\ raced \subseteq Sent
      /\ blind \subseteq Sent /\ HandGood(h)
  BY <1>2 DEF SmsTyped
<1>4. Free \in InHands /\ Answering(m) \in InHands
  BY <1>2, FlushedFacts DEF InHands
<1>5. /\ \A x \in Messages : UNCHANGED <<rows, created, clock>> => RowGood(x)'
      /\ UNCHANGED <<rows, created, clock>> =>
            DOMAIN rows' = Messages /\ rows' = [x \in Messages |-> rows'[x]]
  BY <1>3, RowsSame
<1>6. CASE StoreVendor(h)
  <2>1. Stores(m, clock) /\ Hand(h, Free)
    BY <1>6 DEF StoreVendor, Stores, Hand
  <2>2. /\ UNCHANGED <<clock, created, hooks, poll, watermark, faults, excused, raced, blind>>
    BY <1>6 DEF StoreVendor, provider
  <2>3. /\ \A x \in Messages : RowGood(x)'
        /\ DOMAIN rows' = Messages /\ rows' = [x \in Messages |-> rows'[x]]
    BY <1>2, <1>3, <2>1, <2>2, StoreFacts
  <2> QED  BY <1>3, <1>4, <2>1, <2>2, <2>3, FreeFacts, HandlerTyped
<1>7. CASE Refuse(h)
  <2>1. Hand(h, Free) /\ excused' \subseteq Sent
    BY <1>2, <1>3, <1>7 DEF Refuse, Hand, Excuse
  <2>2. /\ UNCHANGED <<clock, created, hooks, rows, poll, watermark, faults, raced, blind>>
    BY <1>7 DEF Refuse, provider
  <2> QED  BY <1>3, <1>4, <1>5, <2>1, <2>2, FreeFacts, HandlerTyped
<1>8. CASE Flush(h)
  <2> DEFINE r == [phase |-> "flushed", msg |-> m, here |-> handler[h].here,
                   at |-> clock]
  <2>1. handler[h].here \in BOOLEAN  BY <1>2, <1>8, HandFacts DEF Flush, Has
  <2>2. r \in InHands /\ r.msg = m /\ r.at = clock
    BY <1>2, <2>1, FlushedFacts DEF InHands
  <2>3. Hand(h, r)  BY <1>8 DEF Flush, Hand
  <2>4. /\ UNCHANGED <<clock, created, hooks, rows, poll, watermark, faults, excused,
                       raced, blind>>
    BY <1>8 DEF Flush, provider
  <2> HIDE DEF r
  <2> QED  BY <1>2, <1>3, <1>5, <2>2, <2>3, <2>4, HandlerTyped
<1>9. CASE Commit(h)
  <2>1. /\ handler[h].at \in Nat /\ handler[h] # Free
    BY <1>2, <1>9, HandFacts DEF Commit, Has, ClockTimes
  <2>2. created[m] <= handler[h].at /\ handler[h].at <= clock
    BY <1>3, <1>9, <2>1 DEF HandGood, Commit
  <2>3. Stores(m, handler[h].at) /\ Hand(h, Answering(m))
    BY <1>9 DEF Commit, Stores, Hand
  <2>4. /\ UNCHANGED <<clock, created, hooks, poll, watermark, faults, excused, raced, blind>>
    BY <1>9 DEF Commit, provider
  <2>5. /\ \A x \in Messages : RowGood(x)'
        /\ DOMAIN rows' = Messages /\ rows' = [x \in Messages |-> rows'[x]]
    BY <1>2, <2>1, <2>2, <2>3, <2>4, StoreFacts
  <2>6. Answering(m).msg = m /\ Answering(m).phase = "answering"
    BY DEF Answering
  <2> QED  BY <1>2, <1>3, <1>4, <2>3, <2>4, <2>5, <2>6, HandlerTyped
<1>10. CASE Answered(h)
  <2>1. Hand(h, Free)  BY <1>10 DEF Answered, Hand
  <2>2. /\ UNCHANGED <<clock, created, hooks, rows, poll, watermark, faults, excused,
                       raced, blind>>
    BY <1>10 DEF Answered, provider
  <2> QED  BY <1>3, <1>4, <1>5, <2>1, <2>2, FreeFacts, HandlerTyped
<1> QED  BY <1>6, <1>7, <1>8, <1>9, <1>10 DEF Process

\* What goes wrong in a handler, and a message that the webhook takes.
LEMMA TroubleTyped ==
    ASSUME SmsTyped, NEW h \in Handlers, TakenBack(h) \/ Raises(h)
    PROVE  SmsTyped'
<1> DEFINE m == handler[h].msg
<1>1. ~Has(h, "free") /\ Fault
  BY DEF TakenBack, Raises, Has
<1>2. handler[h] \in HandlerType /\ m \in Sent /\ m \in Messages
  BY <1>1, InHandFacts
<1>3. /\ clock \in Nat /\ hooks \subseteq Sent /\ raced \subseteq Sent
      /\ excused' \subseteq Sent /\ blind \subseteq Sent
  BY <1>2 DEF SmsTyped, TakenBack, Raises, Excuse
<1>4. /\ UNCHANGED <<clock, created, hooks, rows, poll, watermark, raced, blind>>
  BY DEF TakenBack, Raises, provider
<1>5. /\ \A x \in Messages : RowGood(x)'
      /\ DOMAIN rows' = Messages /\ rows' = [x \in Messages |-> rows'[x]]
  BY <1>3, <1>4, RowsSame
<1>6. faults' \in 0..MaxFaults  BY <1>1, FaultTyped
<1>7. Free \in InHands /\ Answering(m) \in InHands
  BY <1>2, FlushedFacts DEF InHands
<1>8. Hand(h, Free) \/ Hand(h, Answering(m))
  BY DEF TakenBack, Raises, Hand
<1>9. Answering(m).msg = m /\ Answering(m).phase = "answering"
  BY DEF Answering
<1> QED
  BY <1>2, <1>3, <1>4, <1>5, <1>6, <1>7, <1>8, <1>9, FreeFacts, HandlerTyped

LEMMA WebhookTyped ==
    ASSUME SmsTyped, NEW m \in Messages, NEW here \in BOOLEAN, Webhook(m, here)
    PROVE  SmsTyped'
<1> DEFINE r == [phase |-> "routed", msg |-> m, here |-> here]
<1>1. /\ clock \in Nat /\ hooks' \subseteq Sent /\ m \in Sent
      /\ raced' \subseteq Sent /\ excused' \subseteq Sent /\ blind' \subseteq Sent
      /\ faults' \in 0..MaxFaults /\ "webhook" \in Handlers
  BY DEF SmsTyped, Webhook, Takes, Handlers
<1>2. /\ UNCHANGED <<clock, created, rows, poll, watermark>>
  BY DEF Webhook
<1>3. /\ \A x \in Messages : RowGood(x)'
      /\ DOMAIN rows' = Messages /\ rows' = [x \in Messages |-> rows'[x]]
  BY <1>1, <1>2, RowsSame
<1>4. r \in InHands /\ r.msg = m /\ r.phase = "routed"
  BY FlushedFacts DEF InHands
<1>5. Hand("webhook", r)  BY DEF Webhook, Takes, Hand
<1> HIDE DEF r
<1> QED  BY <1>1, <1>2, <1>3, <1>4, <1>5, HandlerTyped

LEMMA RestartTyped ==
    ASSUME SmsTyped, PollerRestarts
    PROVE  SmsTyped'
<1>1. /\ UNCHANGED <<clock, created, hooks, rows, excused, raced, blind>>
      /\ poll' = NoPoll /\ watermark' = 0 /\ Fault
      /\ Sent' = Sent /\ clock \in Nat
  BY DEF PollerRestarts, provider, Sent, SmsTyped
<1>2. /\ \A x \in Messages : RowGood(x)'
      /\ DOMAIN rows' = Messages /\ rows' = [x \in Messages |-> rows'[x]]
  BY <1>1, RowsSame
<1>3. faults' \in 0..MaxFaults  BY <1>1, FaultTyped
<1>4. ASSUME NEW h \in Handlers
      PROVE  handler'[h] \in InHands /\ HandGood(h)'
  <2>1. handler'[h] = IF Dies(h) THEN Free ELSE handler[h]
    BY DEF PollerRestarts
  <2>2. handler[h] \in InHands /\ HandGood(h)  BY DEF SmsTyped
  <2>3. handler'[h] = Free \/ handler'[h] = handler[h]  BY <2>1
  <2> QED
    BY <1>1, <2>2, <2>3, FreeFacts DEF HandGood, Has, InHands
<1>5. handler' \in [Handlers -> InHands]
  BY <1>4 DEF PollerRestarts
<1>6. PollGood'  BY <1>1 DEF PollGood
<1>7. watermark' \in Nat /\ watermark' <= clock'
  BY <1>1
<1> QED
  BY <1>1, <1>2, <1>3, <1>4, <1>5, <1>6, <1>7 DEF SmsTyped

\* A cycle of the poller.
LEMMA CycleFacts ==
    ASSUME NEW since \in Int, NEW time \in Nat, NEW contacts \in SUBSET Contacts,
           NEW batch \in SUBSET Messages
    PROVE  LET c == Cycle(since, time, contacts, batch)
           IN  /\ c \in CycleType /\ c # NoPoll /\ c.since = since /\ c.now = time
               /\ c.contacts = contacts /\ c.batch = batch /\ c.phase = "fetching"
  BY DEF Cycle, CycleType, NoPoll

LEMMA PollFacts ==
    ASSUME SmsTyped, poll # NoPoll
    PROVE  /\ poll.since \in Int /\ poll.now \in Nat /\ poll.contacts \subseteq Contacts
           /\ poll.batch \subseteq Sent /\ poll.batch \subseteq Messages
           /\ -Lookback <= poll.since /\ poll.since <= poll.now
           /\ poll.now <= clock /\ (watermark = 0 \/ watermark = poll.since)
  BY DEF SmsTyped, PollGood, CycleType, Sent

LEMMA FetchingFacts == poll.phase = "fetching" => poll # NoPoll
  BY DEF NoPoll

\* What the check makes of the messages in hand.
LEMMA CheckFacts ==
    ASSUME SmsTyped, NEW m \in Messages, Check(m)
    PROVE  \E fails \in BOOLEAN, dup \in BOOLEAN :
           /\ dup = IsDuplicate(m, fails)
           /\ blind' = IF fails THEN {m} ELSE {}
           /\ handler' \in [Handlers -> InHands]
           /\ \/ handler'["webhook"] = handler["webhook"]
              \/ /\ Has("webhook", "flushed")
                 /\ handler'["webhook"] = Answering(handler["webhook"].msg)
                 /\ handler["webhook"].msg \in excused'
           /\ dup => handler'["poller"] = handler["poller"]
           /\ ~dup => handler'["poller"] =
                 [phase |-> "routed", msg |-> m, here |-> TRUE]
           /\ dup /\ (\E x \in Messages : Open(x)) => m \in excused'
           /\ ~dup /\ InHand(m) => m \in raced'
           /\ Fault \/ UNCHANGED faults
           /\ excused \subseteq excused'
           /\ excused' \subseteq excused \cup {m} \cup {x \in Messages : Open(x)}
           /\ raced' \subseteq raced \cup {m}
<1>1. "webhook" \in Handlers /\ "poller" \in Handlers /\ Handlers = {"webhook", "poller"}
  BY DEF Handlers
<1>2. PICK fails \in BOOLEAN :
         /\ LookUp(m, fails, IsDuplicate(m, fails))
         /\ blind' = IF fails THEN {m} ELSE {}
  BY DEF Check
<1>3. PICK dup \in BOOLEAN : dup = IsDuplicate(m, fails)
  BY DEF IsDuplicate
<1>4. PICK open \in BOOLEAN : open = (m \notin Undated /\ \E x \in Messages : Open(x))
  OBVIOUS
<1>5. PICK kept :
         /\ kept = IF open THEN [handler EXCEPT !["webhook"] = Answering(@.msg)]
                           ELSE handler
         /\ Fault \/ UNCHANGED faults
         /\ excused' = IF ~open THEN excused
                       ELSE excused \cup {handler["webhook"].msg}
                                    \cup (IF dup THEN {m} ELSE {})
         /\ IF dup THEN handler' = kept /\ UNCHANGED raced
            ELSE /\ handler' = [kept EXCEPT !["poller"] =
                                  [phase |-> "routed", msg |-> m, here |-> TRUE]]
                 /\ raced' = IF InHand(m) THEN {m} ELSE {}
  BY <1>2, <1>3, <1>4 DEF LookUp
<1>6. open => Has("webhook", "flushed") /\ Open(handler["webhook"].msg)
  BY <1>4 DEF Open
<1>7. open => /\ handler["webhook"].msg \in Messages
              /\ Answering(handler["webhook"].msg) \in InHands
  <2>1. SUFFICES ASSUME open
                 PROVE  /\ handler["webhook"].msg \in Messages
                        /\ Answering(handler["webhook"].msg) \in InHands
    OBVIOUS
  <2>2. ~Has("webhook", "free")  BY <1>6, <2>1 DEF Has
  <2>3. handler["webhook"].msg \in Messages  BY <1>1, <2>2, InHandFacts
  <2> QED  BY <2>3, FlushedFacts DEF InHands
<1>8. [phase |-> "routed", msg |-> m, here |-> TRUE] \in InHands
  BY FlushedFacts DEF InHands
<1>9. handler \in [Handlers -> InHands]  BY DEF SmsTyped
<1>10. /\ kept \in [Handlers -> InHands] /\ kept["poller"] = handler["poller"]
       /\ open => kept["webhook"] = Answering(handler["webhook"].msg)
       /\ ~open => kept["webhook"] = handler["webhook"]
  BY <1>1, <1>5, <1>7, <1>9
<1>11. /\ handler' \in [Handlers -> InHands]
       /\ handler'["webhook"] = kept["webhook"]
       /\ dup => handler'["poller"] = handler["poller"]
       /\ ~dup => handler'["poller"] = [phase |-> "routed", msg |-> m, here |-> TRUE]
  <2>1. CASE dup  BY <1>5, <1>10, <2>1
  <2>2. CASE ~dup
    <3>1. handler' = [kept EXCEPT !["poller"] =
                         [phase |-> "routed", msg |-> m, here |-> TRUE]]
      BY <1>5, <2>2
    <3> QED  BY <1>1, <1>8, <1>10, <2>2, <3>1
  <2> QED  BY <2>1, <2>2
<1>12. dup /\ (\E x \in Messages : Open(x)) => m \in excused'
  BY <1>3, <1>4, <1>5 DEF IsDuplicate
<1>13. /\ excused \subseteq excused'
       /\ raced' \subseteq raced \cup {m} /\ ~dup /\ InHand(m) => m \in raced'
       /\ open => handler["webhook"].msg \in excused'
  BY <1>5
<1>14. excused' \subseteq excused \cup {m} \cup {x \in Messages : Open(x)}
  BY <1>5, <1>6, <1>7
<1>15. \/ handler'["webhook"] = handler["webhook"]
       \/ /\ Has("webhook", "flushed")
          /\ handler'["webhook"] = Answering(handler["webhook"].msg)
          /\ handler["webhook"].msg \in excused'
  BY <1>6, <1>10, <1>11, <1>13
<1> QED  BY <1>2, <1>3, <1>5, <1>11, <1>12, <1>13, <1>14, <1>15

LEMMA CheckTyped ==
    ASSUME SmsTyped, NEW m \in Messages, Check(m)
    PROVE  SmsTyped'
<1>1. /\ poll # NoPoll /\ m \in poll.batch
      /\ UNCHANGED <<clock, created, hooks, rows, watermark>>
      /\ poll' = Cycle(poll.since, poll.now, poll.contacts, poll.batch \ {m})
  BY FetchingFacts DEF Check, provider
<1>2. m \in Sent /\ Sent' = Sent /\ clock \in Nat
  BY <1>1, PollFacts DEF Sent, SmsTyped
<1>3. /\ \A x \in Messages : RowGood(x)'
      /\ DOMAIN rows' = Messages /\ rows' = [x \in Messages |-> rows'[x]]
  BY <1>1, <1>2, RowsSame
<1>4. PollGood'
  <2>1. /\ poll' \in CycleType /\ poll'.since = poll.since /\ poll'.now = poll.now
        /\ poll'.batch \subseteq poll.batch
    BY <1>1, PollFacts, CycleFacts
  <2> QED  BY <1>1, <1>2, <2>1, PollFacts DEF PollGood
<1>5. "webhook" \in Handlers /\ "poller" \in Handlers /\ Handlers = {"webhook", "poller"}
  BY DEF Handlers
<1>6. HandGood("webhook")'
  <2>1. HandGood("webhook")  BY <1>5 DEF SmsTyped
  <2>2. CASE handler'["webhook"] = handler["webhook"]
    BY <1>1, <1>2, <2>1, <2>2 DEF HandGood, Has
  <2>3. CASE /\ Has("webhook", "flushed")
             /\ handler'["webhook"] = Answering(handler["webhook"].msg)
    <3>1. handler["webhook"] # Free  BY <2>3, FreeFacts DEF Has
    <3> QED  BY <1>2, <2>1, <2>3, <3>1 DEF HandGood, Has, Answering
  <2> QED  BY <2>2, <2>3, CheckFacts
<1>7. HandGood("poller")'
  <2>1. HandGood("poller")  BY <1>5 DEF SmsTyped
  <2>2. CASE handler'["poller"] = handler["poller"]
    BY <1>1, <1>2, <2>1, <2>2 DEF HandGood, Has
  <2>3. CASE handler'["poller"] = [phase |-> "routed", msg |-> m, here |-> TRUE]
    BY <1>2, <2>3 DEF HandGood, Has
  <2> QED  BY <2>2, <2>3, CheckFacts
<1>8. faults' \in 0..MaxFaults
  <2>1. Fault \/ faults' = faults  BY CheckFacts
  <2> QED  BY <2>1, FaultTyped DEF SmsTyped
<1>9. excused' \subseteq Sent
  <2>1. ASSUME NEW x \in Messages, Open(x) PROVE x \in Sent
    <3>1. ~Has("webhook", "free") /\ handler["webhook"].msg = x
      BY <2>1 DEF Open, Has
    <3> QED  BY <1>5, <3>1, InHandFacts
  <2>2. excused' \subseteq excused \cup {m} \cup {x \in Messages : Open(x)}
    BY CheckFacts
  <2> QED  BY <1>2, <2>1, <2>2 DEF SmsTyped
<1>10. raced' \subseteq Sent /\ blind' \subseteq Sent
  <2>1. raced' \subseteq raced \cup {m} /\ blind' \subseteq blind \cup {m}
    BY CheckFacts
  <2> QED  BY <1>2, <2>1 DEF SmsTyped
<1>11. handler' \in [Handlers -> InHands]  BY CheckFacts
<1> QED
  BY <1>1, <1>2, <1>3, <1>4, <1>5, <1>6, <1>7, <1>8, <1>9, <1>10, <1>11
     DEF SmsTyped

\* The other steps of the poller.
LEMMA PollerTyped ==
    ASSUME SmsTyped,
           \/ PollStart \/ PollEnds \/ ListFails
           \/ \E c \in Contacts : Fetch(c) \/ FetchFails(c)
    PROVE  SmsTyped'
<1>1. /\ clock \in Nat /\ watermark \in Nat /\ watermark <= clock /\ Sent' = Sent
      /\ faults \in 0..MaxFaults /\ excused \subseteq Sent /\ 1 <= clock
      /\ UNCHANGED <<clock, created, hooks, rows, handler, raced, blind>>
  BY DEF SmsTyped, PollStart, PollEnds, ListFails, Fetch, FetchFails, provider, Sent
<1>2. Lookback \in Nat  BY SmsAssumption
<1>3. CASE PollStart
  <2>1. /\ Since \in Int /\ -Lookback <= Since /\ Since <= clock
        /\ watermark = 0 \/ watermark = Since
    BY <1>1, <1>2 DEF Since
  <2>2. poll' = Cycle(Since, clock, Contacts, {})  BY <1>3 DEF PollStart
  <2>3. /\ poll' \in CycleType /\ poll'.since = Since /\ poll'.now = clock
        /\ poll'.batch = {}
    BY <1>1, <2>1, <2>2, CycleFacts
  <2>4. watermark' = watermark /\ faults' = faults /\ excused' \subseteq Sent
    BY <1>1, <1>3 DEF PollStart
  <2>5. PollGood'
    BY <1>1, <2>1, <2>3, <2>4 DEF PollGood
  <2> QED  BY <1>1, <2>4, <2>5, PollTyped
<1>4. CASE PollEnds \/ ListFails
  <2>1. poll # NoPoll /\ poll' = NoPoll /\ watermark' = poll.now
    BY <1>4, FetchingFacts DEF PollEnds, ListFails, Ended
  <2>2. watermark' \in Nat /\ watermark' <= clock  BY <2>1, PollFacts
  <2>3. faults' \in 0..MaxFaults
    BY <1>1, <1>4, FaultTyped DEF PollEnds, ListFails
  <2>4. excused' \subseteq Sent
    BY <1>1, <1>4 DEF PollEnds, ListFails, Passed, Due
  <2>5. PollGood'  BY <2>1 DEF PollGood
  <2> QED  BY <1>1, <2>2, <2>3, <2>4, <2>5, PollTyped
<1>5. ASSUME NEW c \in Contacts, Fetch(c) \/ FetchFails(c) PROVE SmsTyped'
  <2>1. poll # NoPoll /\ watermark' = watermark
    BY <1>5, FetchingFacts DEF Fetch, FetchFails, Fetching
  <2>2. PICK b \in SUBSET Sent :
           poll' = Cycle(poll.since, poll.now, poll.contacts \ {c}, b)
    <3>1. CASE FetchFails(c)  BY <3>1 DEF FetchFails
    <3>2. CASE Fetch(c)
      <4>1. PICK read \in BOOLEAN :
               poll' = Cycle(poll.since, poll.now, poll.contacts \ {c},
                        {m \in Sent \ Textless : From[m] = c /\ (read => Due(m))})
        BY <3>2 DEF Fetch
      <4>2. {m \in Sent \ Textless : From[m] = c /\ (read => Due(m))} \in SUBSET Sent
        OBVIOUS
      <4> QED  BY <4>1, <4>2
    <3> QED  BY <1>5, <3>1, <3>2
  <2>3. b \subseteq Messages /\ poll.contacts \ {c} \subseteq Contacts
    BY <2>1, PollFacts DEF Sent
  <2>4. /\ poll' \in CycleType /\ poll'.since = poll.since /\ poll'.now = poll.now
        /\ poll'.batch = b
    BY <2>1, <2>2, <2>3, PollFacts, CycleFacts
  <2>5. PollGood'  BY <1>1, <2>1, <2>4, PollFacts DEF PollGood
  <2>6. faults' \in 0..MaxFaults
    BY <1>1, <1>5, FaultTyped DEF Fetch, FetchFails
  <2>7. excused' \subseteq Sent
    BY <1>1, <1>5 DEF Fetch, FetchFails, Passed, Due
  <2> QED  BY <1>1, <2>1, <2>5, <2>6, <2>7, PollTyped
<1> QED  BY <1>3, <1>4, <1>5

LEMMA SmsStepTyped == SmsTyped /\ [SmsNext]_smsVars => SmsTyped'
<1> SUFFICES ASSUME SmsTyped, [SmsNext]_smsVars PROVE SmsTyped'
  OBVIOUS
<1>1. CASE UNCHANGED smsVars
  <2>1. UNCHANGED <<clock, created, hooks, rows, handler, raced, blind, poll, watermark,
                    faults, excused>>
    BY <1>1 DEF smsVars
  <2>2. clock \in Nat /\ Sent' = Sent /\ faults \in 0..MaxFaults /\ watermark \in Nat
        /\ watermark <= clock /\ excused \subseteq Sent
    BY <2>1 DEF SmsTyped, Sent
  <2>3. PollGood'  BY <2>1, <2>2, PollSame
  <2> QED  BY <2>1, <2>2, <2>3, PollTyped
<1>2. CASE SmsNext
  BY <1>2, ClockStepTyped, ProcessTyped, TroubleTyped, WebhookTyped, RestartTyped,
     CheckTyped, PollerTyped DEF SmsNext, PollStep
<1> QED  BY <1>1, <1>2

LEMMA SeqNarrows ==
    ASSUME NEW S, NEW T, NEW s \in Seq(S), \A i \in DOMAIN s : s[i] \in T
    PROVE  s \in Seq(T)
<1>1. Len(s) \in Nat /\ DOMAIN s = 1..Len(s) /\ s = [i \in 1..Len(s) |-> s[i]]
  OBVIOUS
<1>2. s \in [1..Len(s) -> T]  BY <1>1
<1> QED  BY <1>1, <1>2

LEMMA TypedIsSmsTypeOK == SmsTyped => SmsTypeOK
<1> SUFFICES ASSUME SmsTyped PROVE SmsTypeOK
  OBVIOUS
<1>1. /\ clock \in Nat /\ MaxClock \in Nat /\ clock \in ClockTimes
      /\ watermark \in 0..clock /\ created \in [Messages -> 0..clock]
  BY SmsAssumption DEF SmsTyped, ClockTimes
<1>2. ASSUME NEW m \in Messages PROVE rows[m] \in Seq(created[m]..clock)
  <2>1. RowGood(m) /\ created[m] \in Nat  BY DEF SmsTyped
  <2>2. \A i \in DOMAIN rows[m] : rows[m][i] \in created[m]..clock
    BY <1>1, <2>1 DEF RowGood
  <2>3. rows[m] \in Seq(Nat)  BY <2>1 DEF RowGood
  <2> QED  BY <2>2, <2>3, SeqNarrows
<1>3. ASSUME NEW h \in Handlers PROVE handler[h] = Free \/ handler[h] \in HandlerType
  BY DEF SmsTyped, InHands
<1>4. ASSUME poll # NoPoll
      PROVE  /\ poll.phase = "fetching" /\ poll.since \in (-Lookback)..poll.now
             /\ poll.now <= clock
             /\ poll.contacts \subseteq Contacts /\ poll.batch \subseteq Sent
             /\ watermark = 0 \/ watermark = poll.since
  <2>1. Lookback \in Nat  BY SmsAssumption
  <2>2. poll.phase = "fetching"  BY <1>4 DEF SmsTyped, PollGood, CycleType
  <2> QED  BY <1>4, <2>1, <2>2, PollFacts
<1> QED  BY <1>1, <1>2, <1>3, <1>4 DEF SmsTyped, SmsTypeOK

-----------------------------------------------------------------------------
(* What the webhook missed is caught.                                      *)

\* A handler stores, drops or takes back what it has in hand, or flushes it.
Moves(h, r) ==
    /\ Hand(h, r)
    /\ r # Free => r.msg = handler[h].msg
    /\ r.phase # "routed"
    /\ r.phase = "flushed" => Has(h, "routed")

LEMMA MovesFacts ==
    ASSUME SmsTyped, NEW h \in Handlers, NEW r \in InHands, Moves(h, r)
    PROVE  \A m \in Messages :
              /\ AtPoller(m)' => AtPoller(m)
              /\ AtWebhook(m)' => AtWebhook(m)
              /\ h = "webhook" => (AtPoller(m) <=> AtPoller(m)')
              /\ r.phase = "flushed" => (AtPoller(m) <=> AtPoller(m)')
              /\ h = "poller" /\ r.phase # "flushed" => ~AtPoller(m)'
<1>1. /\ handler'[h] = r
      /\ \A k \in Handlers : k # h => handler'[k] = handler[k]
  BY HandStep DEF Moves
<1>2. Handlers = {"webhook", "poller"}  BY DEF Handlers
<1>3. CASE h = "poller"
  <2>1. handler'["poller"] = r /\ handler'["webhook"] = handler["webhook"]
    BY <1>1, <1>2, <1>3
  <2> QED
    BY <1>3, <2>1, FreeFacts DEF Moves, AtPoller, AtWebhook, Has
<1>4. CASE h = "webhook"
  <2>1. handler'["webhook"] = r /\ handler'["poller"] = handler["poller"]
    BY <1>1, <1>2, <1>4
  <2> QED
    BY <1>4, <2>1, FreeFacts DEF Moves, AtPoller, AtWebhook, Has
<1> QED  BY <1>2, <1>3, <1>4

\* A step that leaves the cycle alone: the poller catches what it leaves.
LEMMA MissedHand ==
    ASSUME SmsTyped, Missed, RowsExtend, excused \subseteq excused',
           UNCHANGED <<clock, created, poll, watermark>>,
           \A m \in Sent : AtPoller(m) => AtPoller(m)' \/ Caught(m)'
    PROVE  Missed'
<1>1. Sent' = Sent /\ created' \in [Messages -> Nat]
  BY DEF Sent, SmsTyped
<1>2. \A m \in Sent : Pending(m) => Pending(m)' \/ Caught(m)'
  BY <1>1 DEF Pending, Due
<1> QED  BY <1>1, <1>2, MissedKept

\* The handlers' steps: what each makes of what it has in hand.
LEMMA HandlerMoves ==
    ASSUME SmsTyped, NEW h \in Handlers, Process(h) \/ TakenBack(h) \/ Raises(h)
    PROVE  \E r \in InHands :
              /\ Moves(h, r) /\ RowsExtend /\ excused \subseteq excused'
              /\ UNCHANGED <<clock, created, poll, watermark, raced, blind>>
              /\ \A x \in Messages :
                    /\ r.phase # "flushed" /\ h = "poller"
                    /\ AtPoller(x) /\ x = handler[h].msg
                    => Caught(x)'
              /\ \A m \in Messages : m # handler[h].msg => rows'[m] = rows[m]
              /\ \/ rows' = rows
                 \/ r.phase # "flushed" /\ (Has(h, "routed") \/ Has(h, "flushed"))
<1> DEFINE m == handler[h].msg
<1>1. ~Has(h, "free")
  BY FreeFacts
     DEF Process, StoreVendor, Refuse, Flush, Commit, Answered, TakenBack, Raises, Has
<1>2. /\ handler[h] \in HandlerType /\ m \in Sent /\ m \in Messages
      /\ m \in DOMAIN created
  BY <1>1, InHandFacts DEF SmsTyped
<1>3. clock \in Nat /\ created[m] <= clock /\ HandGood(h)
  BY <1>2 DEF SmsTyped
<1>4. Free \in InHands /\ Answering(m) \in InHands
  BY <1>2, FlushedFacts DEF InHands
<1>5. UNCHANGED rows => RowsExtend
  BY DEF RowsExtend
<1>6. Free.phase = "free" /\ Answering(m).phase = "answering" /\ Answering(m).msg = m
  BY DEF Answering, Free
<1>7. CASE StoreVendor(h)
  <2>1. Stores(m, clock) /\ Moves(h, Free)
    BY <1>6, <1>7 DEF StoreVendor, Stores, Moves, Hand
  <2>2. /\ UNCHANGED <<clock, created, poll, watermark, excused, raced, blind>>
        /\ Has(h, "routed")
    BY <1>7 DEF StoreVendor, provider
  <2>3. /\ RowsExtend /\ rows'[m] # <<>>
        /\ \A x \in Messages : x # m => rows'[x] = rows[x]
    BY <1>2, <1>3, <2>1, <2>2, StoreFacts
  <2>4. \A x \in Messages : x = m => Caught(x)'
    BY <2>2, <2>3 DEF Caught, Kept
  <2> QED  BY <1>4, <1>6, <2>1, <2>2, <2>3, <2>4
<1>8. CASE Commit(h)
  <2>1. /\ handler[h].at \in Nat /\ handler[h] # Free
    BY <1>2, <1>8, HandFacts DEF Commit, Has, ClockTimes
  <2>2. created[m] <= handler[h].at /\ handler[h].at <= clock
    BY <1>3, <1>8, <2>1 DEF HandGood, Commit
  <2>3. Stores(m, handler[h].at) /\ Moves(h, Answering(m))
    BY <1>6, <1>8 DEF Commit, Stores, Moves, Hand
  <2>4. /\ UNCHANGED <<clock, created, poll, watermark, excused, raced, blind>>
        /\ Has(h, "flushed")
    BY <1>8 DEF Commit, provider
  <2>5. /\ RowsExtend /\ rows'[m] # <<>>
        /\ \A x \in Messages : x # m => rows'[x] = rows[x]
    BY <1>2, <2>1, <2>2, <2>3, <2>4, StoreFacts
  <2>6. \A x \in Messages : x = m => Caught(x)'
    BY <2>4, <2>5 DEF Caught, Kept
  <2> QED  BY <1>4, <1>6, <2>3, <2>4, <2>5, <2>6
<1>9. CASE Refuse(h) \/ TakenBack(h) \/ Raises(h)
  <2>1. /\ UNCHANGED <<clock, created, rows, poll, watermark, raced, blind>>
        /\ Excuse(h)
    BY <1>9 DEF Refuse, TakenBack, Raises, provider
  <2>2. Moves(h, Free) \/ Moves(h, Answering(m))
    BY <1>6, <1>9 DEF Refuse, TakenBack, Raises, Moves, Hand
  <2>3. excused \subseteq excused' /\ (h = "poller" => m \in excused')
    BY <2>1 DEF Excuse
  <2>4. h = "poller" => \A x \in Messages : x = m => Caught(x)'
    BY <2>1, <2>3 DEF Caught
  <2> QED  BY <1>4, <1>5, <2>1, <2>2, <2>3, <2>4
<1>10. CASE Flush(h)
  <2> DEFINE r == [phase |-> "flushed", msg |-> m, here |-> handler[h].here,
                   at |-> clock]
  <2>1. handler[h].here \in BOOLEAN /\ Has(h, "routed")
    BY <1>2, <1>10, HandFacts DEF Flush, Has
  <2>2. r \in InHands /\ r.msg = m /\ r.phase = "flushed"
    BY <1>2, <2>1, FlushedFacts DEF InHands
  <2>3. Moves(h, r)  BY <1>10, <2>1, <2>2 DEF Flush, Moves, Hand
  <2>4. /\ UNCHANGED <<clock, created, rows, poll, watermark, excused, raced, blind>>
    BY <1>10 DEF Flush, provider
  <2> HIDE DEF r
  <2> QED  BY <1>5, <2>2, <2>3, <2>4
<1>11. CASE Answered(h)
  <2>1. Moves(h, Free) /\ Has(h, "answering")
    BY <1>6, <1>11 DEF Answered, Moves, Hand
  <2>2. /\ UNCHANGED <<clock, created, rows, poll, watermark, excused, raced, blind>>
    BY <1>11 DEF Answered, provider
  <2>3. h = "poller" => ~AtPoller(m)  BY <2>1 DEF AtPoller, Has
  <2> QED  BY <1>4, <1>5, <2>1, <2>2, <2>3
<1> QED  BY <1>7, <1>8, <1>9, <1>10, <1>11 DEF Process

LEMMA MissedHandlers ==
    ASSUME SmsTyped, Missed, NEW h \in Handlers,
           Process(h) \/ TakenBack(h) \/ Raises(h)
    PROVE  Missed'
<1>1. PICK r \in InHands :
              /\ Moves(h, r) /\ RowsExtend /\ excused \subseteq excused'
              /\ UNCHANGED <<clock, created, poll, watermark, raced, blind>>
              /\ \A x \in Messages :
                    /\ r.phase # "flushed" /\ h = "poller"
                    /\ AtPoller(x) /\ x = handler[h].msg
                    => Caught(x)'
  BY HandlerMoves
<1>2. ASSUME NEW m \in Sent, AtPoller(m) PROVE AtPoller(m)' \/ Caught(m)'
  <2>1. m \in Messages  BY DEF Sent
  <2>2. h = "webhook" \/ r.phase = "flushed" => AtPoller(m)'
    BY <1>1, <1>2, <2>1, MovesFacts
  <2>3. h = "poller" => handler[h].msg = m  BY <1>2 DEF AtPoller
  <2>4. h = "poller" /\ r.phase # "flushed" => Caught(m)'
    BY <1>1, <1>2, <2>1, <2>3
  <2> QED  BY <2>2, <2>4 DEF Handlers
<1> QED  BY <1>1, <1>2, MissedHand

\* The steps that leave every handler and every copy alone.
LEMMA MissedSame ==
    ASSUME SmsTyped, Missed, UNCHANGED <<clock, created, rows, handler, watermark>>,
           excused \subseteq excused', poll # NoPoll, poll' # NoPoll,
           poll'.since = poll.since, poll'.now = poll.now,
           \A m \in Sent :
              /\ Due(m) /\ created[m] <= poll.now
              /\ From[m] \in poll.contacts \/ m \in poll.batch
              => From[m] \in poll'.contacts \/ m \in poll'.batch \/ m \in excused'
                 \/ m \in Textless
    PROVE  Missed'
<1>1. Sent' = Sent /\ created' \in [Messages -> Nat] /\ RowsExtend
  BY DEF Sent, SmsTyped, RowsExtend
<1>2. \A m \in Sent : Pending(m) /\ created[m] <= poll.now => Pending(m)' \/ Caught(m)'
  BY <1>1 DEF Pending, Due, Caught, AtPoller, Has
<1> QED  BY <1>1, <1>2, MissedKept

LEMMA MissedPoller ==
    ASSUME SmsTyped, Missed,
           \/ PollStart \/ PollEnds \/ ListFails
           \/ \E c \in Contacts : Fetch(c) \/ FetchFails(c)
    PROVE  Missed'
<1>1. /\ UNCHANGED <<clock, created, rows, handler>>
      /\ clock \in Nat /\ watermark \in Nat /\ watermark <= clock /\ Sent' = Sent
      /\ excused \subseteq excused' /\ \A m \in Sent : created[m] \in Nat /\ m \in Messages
  BY DEF SmsTyped, PollStart, PollEnds, ListFails, Fetch, FetchFails, provider, Sent
<1>2. \A m \in Messages : Kept(m)' <=> Kept(m)
  BY <1>1 DEF Kept, Near
<1>3. \A m \in Sent : Caught(m) => Caught(m)'
  BY <1>1, <1>2 DEF Caught
<1>4. CASE PollStart
  <2>1. Since \in Int /\ (watermark > 0 => Since = watermark)
        /\ (~(watermark > 0) => Since = clock - Lookback)
    BY <1>1, SmsAssumption DEF Since
  <2>2. poll' = Cycle(Since, clock, Contacts, {}) /\ watermark' = watermark
    BY <1>4 DEF PollStart
  <2>3. /\ poll'.since = Since /\ poll'.now = clock /\ poll'.contacts = Contacts
    BY <1>1, <2>1, <2>2, CycleFacts
  <2>4. ASSUME NEW m \in Sent PROVE Pending(m)' \/ Caught(m)'
    <3>1. From[m] \in poll'.contacts  BY <1>1, <2>3 DEF Contacts
    <3>2. CASE created[m] > Since
      BY <1>1, <2>3, <3>1, <3>2 DEF Pending, Due
    <3>3. CASE created[m] <= Since /\ watermark > 0
      BY <1>3, <2>1, <3>3 DEF Missed
    <3>4. CASE created[m] <= Since /\ ~(watermark > 0)
      <4>1. m \in excused'
        BY <1>4, <2>1, <3>4 DEF PollStart
      <4> QED  BY <4>1 DEF Caught
    <3> QED  BY <1>1, <2>1, <3>2, <3>3, <3>4
  <2> QED  BY <1>1, <1>3, <2>2, <2>4 DEF Missed
<1>5. CASE PollEnds \/ ListFails
  <2>1. poll # NoPoll /\ poll' = NoPoll /\ watermark' = poll.now
    BY <1>5, FetchingFacts DEF PollEnds, ListFails, Ended
  <2>2. ASSUME NEW m \in Sent, created[m] <= poll.now PROVE Caught(m)'
    <3>1. Pending(m) \/ Caught(m)  BY <2>1, <2>2 DEF Missed
    <3>2. CASE PollEnds
      BY <1>3, <3>1, <3>2 DEF PollEnds, Pending, AtPoller, Has
    <3>3. CASE ListFails /\ Pending(m)
      <4>1. m \in excused'
        BY <1>1, <2>2, <3>3 DEF ListFails, Passed, Pending
      <4> QED  BY <4>1 DEF Caught
    <3> QED  BY <1>3, <1>5, <3>1, <3>2, <3>3
  <2> QED  BY <1>1, <2>1, <2>2 DEF Missed
<1>6. ASSUME NEW c \in Contacts, Fetch(c) PROVE Missed'
  <2>1. PICK b \in SUBSET Messages :
           /\ \A m \in Sent \ Textless : From[m] = c /\ Due(m) => m \in b
           /\ poll # NoPoll /\ watermark' = watermark /\ poll.batch = {}
           /\ poll' = Cycle(poll.since, poll.now, poll.contacts \ {c}, b)
    <3>1. PICK read \in BOOLEAN :
             poll' = Cycle(poll.since, poll.now, poll.contacts \ {c},
                        {m \in Sent \ Textless : From[m] = c /\ (read => Due(m))})
      BY <1>6 DEF Fetch
    <3>2. {m \in Sent \ Textless : From[m] = c /\ (read => Due(m))} \in SUBSET Messages
      BY DEF Sent
    <3> QED  BY <1>6, <3>1, <3>2, FetchingFacts DEF Fetch, Fetching
  <2>2. /\ poll'.since = poll.since /\ poll'.now = poll.now
        /\ poll'.contacts = poll.contacts \ {c} /\ poll'.batch = b
        /\ poll' # NoPoll
    BY <2>1, PollFacts, CycleFacts
  <2> QED  BY <1>1, <2>1, <2>2, MissedSame
<1>7. ASSUME NEW c \in Contacts, FetchFails(c) PROVE Missed'
  <2>1. /\ poll # NoPoll /\ watermark' = watermark /\ poll.batch = {}
        /\ poll' = Cycle(poll.since, poll.now, poll.contacts \ {c}, {})
        /\ excused' = excused \cup Passed({m \in Messages : From[m] = c})
    BY <1>7, FetchingFacts DEF FetchFails, Fetching
  <2>2. /\ poll'.since = poll.since /\ poll'.now = poll.now
        /\ poll'.contacts = poll.contacts \ {c} /\ poll' # NoPoll
    BY <2>1, PollFacts, CycleFacts
  <2>3. ASSUME NEW m \in Sent, Due(m), created[m] <= poll.now,
               From[m] \in poll.contacts \/ m \in poll.batch
        PROVE  From[m] \in poll'.contacts \/ m \in excused'
    BY <1>1, <2>1, <2>2, <2>3 DEF Passed
  <2> QED  BY <1>1, <2>1, <2>2, <2>3, MissedSame
<1> QED  BY <1>4, <1>5, <1>6, <1>7

LEMMA MissedCheck ==
    ASSUME SmsTyped, Missed, NEW m \in Messages, Check(m)
    PROVE  Missed'
<1>1. /\ poll # NoPoll /\ m \in poll.batch /\ Has("poller", "free")
      /\ UNCHANGED <<clock, created, hooks, rows, watermark>>
      /\ poll' = Cycle(poll.since, poll.now, poll.contacts, poll.batch \ {m})
  BY FetchingFacts DEF Check, provider
<1>2. /\ poll'.since = poll.since /\ poll'.now = poll.now /\ poll' # NoPoll
      /\ poll'.contacts = poll.contacts /\ poll'.batch = poll.batch \ {m}
  BY <1>1, PollFacts, CycleFacts
<1>3. Sent' = Sent /\ created' \in [Messages -> Nat] /\ RowsExtend
      /\ \A x \in Messages : Due(x)' <=> Due(x)
  BY <1>1, <1>2 DEF Sent, SmsTyped, RowsExtend, Due
<1>4. PICK fails \in BOOLEAN, dup \in BOOLEAN :
         /\ dup = IsDuplicate(m, fails) /\ excused \subseteq excused'
         /\ ~dup => handler'["poller"] = [phase |-> "routed", msg |-> m, here |-> TRUE]
         /\ dup /\ (\E x \in Messages : Open(x)) => m \in excused'
  BY CheckFacts
<1>5. Caught(m)' \/ AtPoller(m)'
  <2>1. CASE dup
    <3>1. PICK x \in Messages :
             /\ Body[x] = Body[m]
             /\ \/ \E i \in DOMAIN rows[x] : Near(m, rows[x][i])
                \/ Open(x)
      BY <1>4, <2>1 DEF IsDuplicate
    <3>2. CASE \E i \in DOMAIN rows[x] : Near(m, rows[x][i])
      <4>1. Kept(m)  BY <3>1, <3>2 DEF Kept
      <4> QED  BY <1>1, <4>1 DEF Caught, Kept, Near
    <3>3. CASE Open(x)
      <4>1. m \in excused'  BY <1>4, <2>1, <3>3
      <4> QED  BY <4>1 DEF Caught
    <3> QED  BY <3>1, <3>2, <3>3
  <2>2. CASE ~dup
    <3>1. handler'["poller"] = [phase |-> "routed", msg |-> m, here |-> TRUE]
      BY <1>4, <2>2
    <3> QED  BY <3>1 DEF AtPoller, Has
  <2> QED  BY <2>1, <2>2
<1>6. ASSUME NEW x \in Sent, Pending(x) PROVE Pending(x)' \/ Caught(x)'
  <2>1. ~AtPoller(x) /\ x \in Messages  BY <1>1 DEF AtPoller, Has, Sent
  <2>2. CASE x = m  BY <1>3, <1>5, <1>6, <2>1, <2>2 DEF Pending
  <2>3. CASE x # m  BY <1>2, <1>3, <1>6, <2>1, <2>3 DEF Pending
  <2> QED  BY <2>2, <2>3
<1> QED  BY <1>1, <1>2, <1>3, <1>4, <1>6, MissedKept

LEMMA MissedStep ==
    SmsTyped /\ Missed /\ [SmsNext]_smsVars => Missed'
<1> SUFFICES ASSUME SmsTyped, Missed, [SmsNext]_smsVars PROVE Missed'
  OBVIOUS
<1>1. CASE UNCHANGED smsVars \/ Tick
  <2>1. /\ UNCHANGED <<created, rows, handler, poll, watermark, excused>>
    BY <1>1 DEF smsVars, Tick, provider
  <2> QED
    BY <2>1 DEF Missed, Sent, Pending, Caught, Kept, Near, Due, AtPoller, Has
<1>2. ASSUME NEW m \in Messages, Send(m) PROVE Missed'
  <2>1. /\ UNCHANGED <<rows, handler, poll, watermark, excused>>
        /\ clock \in Nat /\ m \notin Sent /\ created \in [Messages -> Nat]
        /\ created' = [created EXCEPT ![m] = clock + 1]
    BY <1>2 DEF Send, SmsTyped
  <2>2. /\ created' \in [Messages -> Nat] /\ RowsExtend
        /\ \A x \in Sent : created'[x] = created[x]
        /\ \A x \in Sent' : \/ x \in Sent /\ created'[x] = created[x]
                            \/ created'[x] > clock
    BY <2>1 DEF RowsExtend, Sent
  <2>3. \A x \in Sent : Pending(x) => Pending(x)'
    BY <2>1, <2>2 DEF Pending, Due, AtPoller, Has, Sent
  <2> QED  BY <2>1, <2>2, <2>3, MissedKept
<1>3. ASSUME NEW m \in Messages, NEW here \in BOOLEAN, Webhook(m, here)
      PROVE  Missed'
  <2>1. /\ UNCHANGED <<clock, created, rows, poll, watermark, excused>>
        /\ handler'["poller"] = handler["poller"]
    BY <1>3 DEF Webhook, Takes, SmsTyped, Handlers
  <2>2. RowsExtend /\ \A x \in Sent : AtPoller(x) => AtPoller(x)'
    BY <2>1 DEF RowsExtend, AtPoller, Has
  <2> QED  BY <2>1, <2>2, MissedHand
<1>4. ASSUME PollerRestarts PROVE Missed'
  <2>1. /\ UNCHANGED <<clock, created, rows, excused>> /\ watermark' = 0
        /\ poll' = NoPoll /\ Sent' = Sent /\ created' \in [Messages -> Nat]
    BY <1>4 DEF PollerRestarts, provider, Sent, SmsTyped
  <2>2. RowsExtend  BY <2>1 DEF RowsExtend
  <2> QED  BY <2>1, <2>2, MissedKept
<1> QED
  BY <1>1, <1>2, <1>3, <1>4, MissedHandlers, MissedPoller, MissedCheck
     DEF SmsNext, PollStep

-----------------------------------------------------------------------------
(* What the poller repeats.                                                *)

LEMMA UnrepeatedKept ==
    ASSUME Unrepeated, raced \subseteq raced', blind \subseteq blind',
           \A m \in Messages : AtPoller(m)' =>
              /\ AtPoller(m) /\ created'[m] = created[m]
              /\ \/ m \in raced'
                 \/ /\ AtWebhook(m)' => AtWebhook(m)
                    /\ rows'[m] = rows[m] \/ AtWebhook(m)
    PROVE  Unrepeated'
<1>1. ASSUME NEW m \in Messages, AtPoller(m)', m \notin raced' \cup blind' \cup Undated
      PROVE  ~AtWebhook(m)' /\ \A i \in DOMAIN rows'[m] : ~Near(m, rows[m][i])'
  <2>1. /\ AtPoller(m) /\ created'[m] = created[m] /\ m \notin raced \cup blind \cup Undated
        /\ AtWebhook(m)' => AtWebhook(m)
        /\ rows'[m] = rows[m] \/ AtWebhook(m)
    BY <1>1
  <2>2. ~AtWebhook(m) /\ \A i \in DOMAIN rows[m] : ~Near(m, rows[m][i])
    BY <2>1 DEF Unrepeated
  <2> QED  BY <2>1, <2>2 DEF Near
<1> QED  BY <1>1 DEF Unrepeated

LEMMA UnrepeatedHandlers ==
    ASSUME SmsTyped, Unrepeated, NEW h \in Handlers,
           Process(h) \/ TakenBack(h) \/ Raises(h)
    PROVE  Unrepeated'
<1>1. PICK r \in InHands :
              /\ Moves(h, r)
              /\ UNCHANGED <<clock, created, poll, watermark, raced, blind>>
              /\ \A m \in Messages : m # handler[h].msg => rows'[m] = rows[m]
              /\ \/ rows' = rows
                 \/ r.phase # "flushed" /\ (Has(h, "routed") \/ Has(h, "flushed"))
  BY HandlerMoves
<1>2. ASSUME NEW m \in Messages, AtPoller(m)'
      PROVE  /\ AtPoller(m) /\ created'[m] = created[m]
             /\ AtWebhook(m)' => AtWebhook(m)
             /\ rows'[m] = rows[m] \/ AtWebhook(m)
  <2>1. /\ AtPoller(m) /\ AtWebhook(m)' => AtWebhook(m)
        /\ ~(h = "poller" /\ r.phase # "flushed")
    BY <1>1, <1>2, MovesFacts
  <2>2. ASSUME rows'[m] # rows[m] PROVE AtWebhook(m)
    <3>1. m = handler[h].msg /\ r.phase # "flushed"  BY <1>1, <2>2
    <3>2. h = "webhook"  BY <2>1, <3>1 DEF Handlers
    <3> QED  BY <1>1, <2>2, <3>1, <3>2 DEF AtWebhook
  <2> QED  BY <1>1, <1>2, <2>1, <2>2, MovesFacts
<1> QED  BY <1>1, <1>2, UnrepeatedKept

LEMMA UnrepeatedCheck ==
    ASSUME SmsTyped, Unrepeated, NEW m \in Messages, Check(m)
    PROVE  Unrepeated'
<1>1. /\ Has("poller", "free") /\ UNCHANGED <<created, rows>>
  BY DEF Check, provider
<1>2. PICK fails \in BOOLEAN, dup \in BOOLEAN :
         /\ dup = IsDuplicate(m, fails)
         /\ blind' = IF fails THEN {m} ELSE {}
         /\ \/ handler'["webhook"] = handler["webhook"]
            \/ handler'["webhook"] = Answering(handler["webhook"].msg)
         /\ dup => handler'["poller"] = handler["poller"]
         /\ ~dup => handler'["poller"] = [phase |-> "routed", msg |-> m, here |-> TRUE]
         /\ ~dup /\ InHand(m) => m \in raced'
  BY CheckFacts
<1>3. ASSUME NEW x \in Messages, AtPoller(x)' PROVE x = m /\ ~dup
  <2>1. CASE dup
    <3>1. handler'["poller"] = handler["poller"]  BY <1>2, <2>1
    <3> QED  BY <1>1, <1>3, <3>1 DEF AtPoller, Has
  <2>2. CASE ~dup
    <3>1. handler'["poller"] = [phase |-> "routed", msg |-> m, here |-> TRUE]
      BY <1>2, <2>2
    <3> QED  BY <1>3, <2>2, <3>1 DEF AtPoller, Has
  <2> QED  BY <2>1, <2>2
<1>4. ASSUME ~dup, m \notin raced' \cup blind' \cup Undated
      PROVE  ~AtWebhook(m)' /\ \A i \in DOMAIN rows[m] : ~Near(m, rows[m][i])
  <2>1. ~InHand(m)  BY <1>2, <1>4
  <2>2. ~AtWebhook(m)  BY <2>1 DEF InHand, AtWebhook, Has, Handlers
  <2>3. ~fails  BY <1>2, <1>4
  <2>4. \A i \in DOMAIN rows[m] : ~Near(m, rows[m][i])
    BY <1>2, <1>4, <2>3 DEF IsDuplicate
  <2>5. CASE handler'["webhook"] = handler["webhook"]
    BY <2>2, <2>4, <2>5 DEF AtWebhook, Has
  <2>6. CASE handler'["webhook"] = Answering(handler["webhook"].msg)
    BY <2>4, <2>6 DEF AtWebhook, Has, Answering
  <2> QED  BY <1>2, <2>5, <2>6
<1>5. ASSUME NEW x \in Messages, AtPoller(x)', x \notin raced' \cup blind' \cup Undated
      PROVE  ~AtWebhook(x)' /\ \A i \in DOMAIN rows'[x] : ~Near(x, rows[x][i])'
  <2>1. x = m /\ ~dup /\ rows' = rows /\ created' = created
    BY <1>1, <1>3, <1>5
  <2> QED  BY <1>4, <1>5, <2>1 DEF Near
<1> QED  BY <1>5 DEF Unrepeated

LEMMA UnrepeatedStep ==
    SmsTyped /\ Unrepeated /\ [SmsNext]_smsVars => Unrepeated'
<1> SUFFICES ASSUME SmsTyped, Unrepeated, [SmsNext]_smsVars PROVE Unrepeated'
  OBVIOUS
<1>1. CASE \/ UNCHANGED smsVars \/ Tick \/ PollStart \/ PollEnds \/ ListFails
           \/ \E c \in Contacts : Fetch(c) \/ FetchFails(c)
  <2>1. UNCHANGED <<created, rows, handler, raced, blind>>
    BY <1>1 DEF smsVars, Tick, PollStart, PollEnds, ListFails, Fetch, FetchFails,
                provider
  <2> QED  BY <2>1, UnrepeatedKept DEF AtPoller, AtWebhook, Has
<1>2. ASSUME NEW m \in Messages, Send(m) PROVE Unrepeated'
  <2>1. UNCHANGED <<rows, handler, raced, blind>> /\ m \notin Sent
    BY <1>2 DEF Send
  <2>2. \A x \in Messages : x # m => created'[x] = created[x]
    BY <1>2 DEF Send, SmsTyped
  <2>3. ASSUME NEW x \in Messages, AtPoller(x)' PROVE AtPoller(x) /\ x # m
    <3>1. AtPoller(x)  BY <2>1, <2>3 DEF AtPoller, Has
    <3>2. ~Has("poller", "free") /\ "poller" \in Handlers
      BY <3>1 DEF AtPoller, Has, Handlers
    <3>3. x \in Sent  BY <3>1, <3>2, InHandFacts DEF AtPoller
    <3> QED  BY <2>1, <3>1, <3>3
  <2>4. \A x \in Messages : AtWebhook(x)' => AtWebhook(x)
    BY <2>1 DEF AtWebhook, Has
  <2> QED  BY <2>1, <2>2, <2>3, <2>4, UnrepeatedKept
<1>3. ASSUME NEW m \in Messages, NEW here \in BOOLEAN, Webhook(m, here)
      PROVE  Unrepeated'
  <2>1. /\ UNCHANGED <<created, rows, blind>> /\ handler'["poller"] = handler["poller"]
        /\ handler'["webhook"] = [phase |-> "routed", msg |-> m, here |-> here]
        /\ raced' = IF InHand(m) THEN raced \cup {m} ELSE raced
    BY <1>3 DEF Webhook, Takes, SmsTyped, Handlers
  <2>2. \A x \in Messages : AtPoller(x)' => AtPoller(x)
    BY <2>1 DEF AtPoller, Has
  <2>3. \A x \in Messages : AtWebhook(x)' => x = m
    BY <2>1 DEF AtWebhook
  <2>4. AtPoller(m) => m \in raced'
    <3>1. AtPoller(m) => InHand(m)  BY DEF AtPoller, InHand, Has, Handlers
    <3> QED  BY <2>1, <3>1
  <2> QED  BY <2>1, <2>2, <2>3, <2>4, UnrepeatedKept
<1>4. ASSUME PollerRestarts PROVE Unrepeated'
  <2>1. handler'["poller"] = Free
    BY <1>4 DEF PollerRestarts, Dies, Handlers
  <2> QED  BY <2>1 DEF Unrepeated, AtPoller, Has, Free
<1> QED
  BY <1>1, <1>2, <1>3, <1>4, UnrepeatedHandlers, UnrepeatedCheck
     DEF SmsNext, PollStep

\* What the poller stores it had in hand.
LEMMA StoredWasInHand ==
    ASSUME SmsTyped, [SmsNext]_smsVars, NEW m \in Messages, PollerStores(m)
    PROVE  AtPoller(m)
<1>1. /\ handler["poller"].msg = m /\ ~Has("poller", "free")
      /\ handler'["poller"] # handler["poller"] /\ rows'[m] # rows[m]
  BY DEF PollerStores
<1>2. PICK h \in Handlers : Process(h)
  BY <1>1 DEF SmsNext, PollStep, smsVars, Tick, Send, Webhook, TakenBack, Raises,
              PollStart, ListFails, Fetch, FetchFails, Check, PollEnds,
              PollerRestarts, provider
<1>3. StoreVendor(h) \/ Commit(h)
  BY <1>1, <1>2 DEF Process, Refuse, Flush, Answered
<1>4. Has(h, "routed") \/ Has(h, "flushed")
  BY <1>3 DEF StoreVendor, Commit
<1>5. h = "poller"
  <2>1. Hand(h, Free) \/ Hand(h, Answering(handler[h].msg))
    BY <1>3 DEF StoreVendor, Commit, Hand
  <2>2. h = "webhook" => handler'["poller"] = handler["poller"]
    BY <2>1 DEF Hand, SmsTyped, Handlers
  <2> QED  BY <1>1, <2>2 DEF Handlers
<1> QED  BY <1>1, <1>4, <1>5 DEF AtPoller

-----------------------------------------------------------------------------

\* The shape of the state: a cycle looks back no further than it may, a copy is
\* stored after its message was sent, what a handler has in hand was sent.
THEOREM SmsTypeCorrect == SmsSpec => []SmsTypeOK
<1>1. SmsInit => SmsTyped  BY SmsInitTyped
<1>2. SmsTyped /\ [SmsNext]_smsVars => SmsTyped'  BY SmsStepTyped
<1>3. SmsTyped => SmsTypeOK  BY TypedIsSmsTypeOK
<1> QED  BY <1>1, <1>2, <1>3, PTL DEF SmsSpec

LEMMA SmsTypedAlways == SmsSpec => []SmsTyped
  BY SmsInitTyped, SmsStepTyped, PTL DEF SmsSpec

\* What was sent with a text before the poller's watermark is stored, or stands for
\* what is, or a fault of the poller's own kept it out.
THEOREM MissedMessagesAreCaught == SmsSpec => []MissedAreCaught
<1>1. SmsInit => Missed
  BY DEF SmsInit, Missed, Sent
<1>2. SmsTyped /\ Missed /\ [SmsNext]_smsVars => Missed'  BY MissedStep
<1>3. Missed => MissedAreCaught  BY DEF Missed, MissedAreCaught, Caught
<1> QED  BY <1>1, <1>2, <1>3, SmsTypedAlways, PTL DEF SmsSpec

\* The poller repeats only what it could not see, what it could not look up, or what
\* the webhook had meanwhile.
THEOREM PollerRepeatsAreExplained == SmsSpec => RepeatsAreExplained
<1> DEFINE Explained ==
        \A m \in Messages : PollerStores(m)
          => \/ m \in raced \cup blind \cup Undated
             \/ \A i \in DOMAIN rows[m] : ~Near(m, rows[m][i])
<1>1. SmsInit => Unrepeated
  BY DEF SmsInit, Unrepeated, AtPoller, Has, Free, Handlers
<1>2. SmsTyped /\ Unrepeated /\ [SmsNext]_smsVars => Unrepeated'
  BY UnrepeatedStep
<1>3. SmsTyped /\ Unrepeated /\ [SmsNext]_smsVars => Explained
  BY StoredWasInHand DEF Unrepeated
<1>4. SmsTyped /\ Unrepeated /\ [SmsNext]_smsVars => [Explained]_smsVars
  BY <1>3
<1> QED
  BY <1>1, <1>2, <1>4, SmsTypedAlways, PTL DEF SmsSpec, RepeatsAreExplained
=============================================================================

------------------------- MODULE TaskProgressProofs -------------------------
(***************************************************************************)
(* Proofs about TaskProgress, for any keys, plans, requests and bounds.     *)
(* The first part says what a call makes of the list it has loaded; the    *)
(* invariant then says of each list in hand that it is as sound as the     *)
(* stored one, and the same as it until another call has written.          *)
(***************************************************************************)
EXTENDS TaskProgress, SequenceTheorems, TLAPS

-----------------------------------------------------------------------------
(* Lists.                                                                  *)

\* tt is ss with other statuses.
Reworked(ss, tt) ==
    /\ tt \in Seq(Step)
    /\ DOMAIN tt = DOMAIN ss
    /\ \A j \in DOMAIN ss : tt[j].key = ss[j].key

LEMMA ListFacts ==
    ASSUME NEW ss \in Seq(Step)
    PROVE  /\ DOMAIN ss = 1..Len(ss) /\ Len(ss) \in Nat
           /\ \A j \in DOMAIN ss : ss[j] \in Step
  OBVIOUS

LEMMA DoneAreKeys ==
    ASSUME NEW ss \in Seq(Step)
    PROVE  DoneKeys(ss) \subseteq Keys
<1>1. \A i \in DOMAIN ss : ss[i] \in Step  BY ListFacts
<1>2. \A i \in DOMAIN ss : ss[i].key \in Keys  BY <1>1 DEF Step
<1> QED  BY <1>2 DEF DoneKeys

LEMMA ListOfSteps ==
    ASSUME NEW n \in Nat, NEW tt, tt = [j \in 1..n |-> tt[j]],
           \A j \in 1..n : tt[j] \in Step
    PROVE  tt \in Seq(Step) /\ DOMAIN tt = 1..n
<1>1. tt \in [1..n -> Step]  OBVIOUS
<1> QED  BY <1>1, SeqDef

LEMMA MarkedList ==
    ASSUME NEW ss \in Seq(Step), NEW i \in DOMAIN ss, NEW to \in Statuses
    PROVE  /\ Reworked(ss, Marked(ss, i, to))
           /\ Marked(ss, i, to)[i].status = to
           /\ \A j \in DOMAIN ss \ {i} : Marked(ss, i, to)[j] = ss[j]
<1> DEFINE tt == Marked(ss, i, to)
<1>1. DOMAIN ss = 1..Len(ss) /\ Len(ss) \in Nat
  BY ListFacts
<1>2. \A j \in 1..Len(ss) : ss[j] \in Step  BY <1>1, ListFacts
<1>3. tt = [j \in 1..Len(ss) |->
              IF j = i THEN [ss[i] EXCEPT !.status = to] ELSE ss[j]]
  BY <1>1 DEF Marked
<1>4. \A j \in 1..Len(ss) : /\ tt[j] \in Step
                            /\ tt[j].key = ss[j].key
  BY <1>1, <1>2, <1>3 DEF Step
<1>5. tt[i].status = to  BY <1>1, <1>2, <1>3 DEF Step
<1>6. tt = [j \in 1..Len(ss) |-> tt[j]]  BY <1>3
<1> HIDE DEF tt
<1>7. tt \in Seq(Step) /\ DOMAIN tt = 1..Len(ss)
  BY <1>1, <1>4, <1>6, ListOfSteps
<1> QED  BY <1>1, <1>3, <1>4, <1>5, <1>7 DEF Reworked, tt

LEMMA DemotedList ==
    ASSUME NEW ss \in Seq(Step), NEW i \in DOMAIN ss
    PROVE  /\ Reworked(ss, Demoted(ss, i))
           /\ Demoted(ss, i)[i] = ss[i]
           /\ \A j \in DOMAIN ss \ {i} :
                /\ Demoted(ss, i)[j].status # "active"
                /\ Demoted(ss, i)[j].status = "done"
                     <=> ss[j].status = "done"
<1> DEFINE tt == Demoted(ss, i)
<1>1. DOMAIN ss = 1..Len(ss) /\ Len(ss) \in Nat
  BY ListFacts
<1>2. \A j \in 1..Len(ss) : ss[j] \in Step  BY <1>1, ListFacts
<1>3. tt = [j \in 1..Len(ss) |->
              IF j # i /\ ss[j].status = "active"
              THEN [ss[j] EXCEPT !.status = "pending"] ELSE ss[j]]
  BY <1>1 DEF Demoted
<1>4. \A j \in 1..Len(ss) : /\ tt[j] \in Step
                            /\ tt[j].key = ss[j].key
  BY <1>2, <1>3 DEF Step, Statuses
<1>5. \A j \in 1..Len(ss) : j # i =>
         /\ tt[j].status # "active"
         /\ tt[j].status = "done" <=> ss[j].status = "done"
  BY <1>2, <1>3 DEF Step
<1>6. tt = [j \in 1..Len(ss) |-> tt[j]]  BY <1>3
<1>8. tt[i] = ss[i]  BY <1>1, <1>3
<1> HIDE DEF tt
<1>7. tt \in Seq(Step) /\ DOMAIN tt = 1..Len(ss)
  BY <1>1, <1>4, <1>6, ListOfSteps
<1> QED  BY <1>1, <1>4, <1>5, <1>7, <1>8 DEF Reworked, tt

LEMMA PromotedList ==
    ASSUME NEW ss \in Seq(Step)
    PROVE  /\ Reworked(ss, Promoted(ss))
           /\ \A j \in DOMAIN ss :
                /\ Promoted(ss)[j].status = "done"
                     <=> ss[j].status = "done"
                /\ Promoted(ss)[j].status = "active"
                     => ss[j].status = "active" \/ IsFirstPending(ss, j)
<1> DEFINE tt == Promoted(ss)
<1>1. DOMAIN ss = 1..Len(ss) /\ Len(ss) \in Nat
  BY ListFacts
<1>2. \A j \in 1..Len(ss) : ss[j] \in Step  BY <1>1, ListFacts
<1>3. tt = [j \in 1..Len(ss) |->
              IF IsFirstPending(ss, j)
              THEN [ss[j] EXCEPT !.status = "active"] ELSE ss[j]]
  BY <1>1 DEF Promoted
<1>9. \A j \in 1..Len(ss) : IsFirstPending(ss, j) => ss[j].status = "pending"
  BY DEF IsFirstPending
<1>4. \A j \in 1..Len(ss) : /\ tt[j] \in Step
                            /\ tt[j].key = ss[j].key
  BY <1>2, <1>3 DEF Step, Statuses
<1>5. \A j \in 1..Len(ss) :
         /\ tt[j].status = "done" <=> ss[j].status = "done"
         /\ tt[j].status = "active"
              => ss[j].status = "active" \/ IsFirstPending(ss, j)
  BY <1>2, <1>3, <1>9 DEF Step
<1>6. tt = [j \in 1..Len(ss) |-> tt[j]]  BY <1>3
<1> HIDE DEF tt
<1>7. tt \in Seq(Step) /\ DOMAIN tt = 1..Len(ss)
  BY <1>1, <1>4, <1>6, ListOfSteps
<1> QED  BY <1>1, <1>4, <1>5, <1>7 DEF Reworked, tt

\* A call changes what is done at the step it names only, and leaves one
\* step active if it found one.
LEMMA AdvancedList ==
    ASSUME NEW ss \in Seq(Step), NEW i \in DOMAIN ss, NEW to \in Statuses
    PROVE  LET tt == Advanced(ss, i, to) IN
           /\ Reworked(ss, tt)
           /\ \A j \in DOMAIN ss \ {i} :
                tt[j].status = "done" <=> ss[j].status = "done"
           /\ tt[i].status = "done" => to = "done"
           /\ OneActive(ss) => OneActive(tt)
<1> DEFINE mm == Marked(ss, i, to)  dd == Demoted(mm, i)  pp == Promoted(dd)
<1>1. /\ Reworked(ss, mm) /\ mm[i].status = to
      /\ \A j \in DOMAIN ss \ {i} : mm[j] = ss[j]
  BY MarkedList
<1>2. /\ mm \in Seq(Step) /\ i \in DOMAIN mm /\ DOMAIN mm = DOMAIN ss
      /\ \A j \in DOMAIN ss : mm[j].key = ss[j].key
  BY <1>1 DEF Reworked
<1> HIDE DEF mm
<1>3. /\ Reworked(mm, dd) /\ dd[i] = mm[i]
      /\ \A j \in DOMAIN mm \ {i} :
           /\ dd[j].status # "active"
           /\ dd[j].status = "done" <=> mm[j].status = "done"
  BY <1>2, DemotedList
<1>4. /\ dd \in Seq(Step) /\ DOMAIN dd = DOMAIN ss
      /\ \A j \in DOMAIN ss : dd[j].key = ss[j].key
  BY <1>2, <1>3 DEF Reworked
<1> HIDE DEF dd
<1>5. /\ Reworked(dd, pp)
      /\ \A j \in DOMAIN dd :
           /\ pp[j].status = "done" <=> dd[j].status = "done"
           /\ pp[j].status = "active"
                => dd[j].status = "active" \/ IsFirstPending(dd, j)
  BY <1>4, PromotedList
<1> HIDE DEF pp
<1>6. CASE to = "pending"
  <2>1. Advanced(ss, i, to) = mm  BY <1>6 DEF Advanced, mm
  <2>2. OneActive(ss) => OneActive(mm)
    BY <1>1, <1>2, <1>6 DEF OneActive
  <2> QED  BY <2>1, <2>2, <1>1
<1>7. CASE to = "active"
  <2>1. Advanced(ss, i, to) = dd  BY <1>7 DEF Advanced, mm, dd
  <2>2. OneActive(dd)  BY <1>2, <1>3, <1>4 DEF OneActive
  <2>3. dd[i].status = "active"  BY <1>1, <1>3, <1>7
  <2> QED  BY <2>1, <2>2, <2>3, <1>1, <1>2, <1>3, <1>4 DEF Reworked
<1>8. CASE to = "done"
  <2>1. Advanced(ss, i, to) = pp  BY <1>8 DEF Advanced, mm, dd, pp
  <2>2. dd[i].status = "done"  BY <1>1, <1>3, <1>8
  <2>3. \A j \in DOMAIN ss : dd[j].status # "active"
    BY <2>2, <1>2, <1>3
  <2>4. \A j, k \in DOMAIN ss :
          IsFirstPending(dd, j) /\ IsFirstPending(dd, k) => j = k
    <3>1. DOMAIN ss = 1..Len(ss) /\ Len(ss) \in Nat  BY ListFacts
    <3> QED  BY <3>1, <1>4 DEF IsFirstPending
  <2>5. DOMAIN pp = DOMAIN ss  BY <1>4, <1>5 DEF Reworked
  <2>6. OneActive(pp)  BY <2>3, <2>4, <2>5, <1>4, <1>5 DEF OneActive
  <2> QED  BY <2>1, <2>6, <1>1, <1>2, <1>3, <1>4, <1>5, <1>8 DEF Reworked
<1> QED  BY <1>6, <1>7, <1>8 DEF Statuses

LEMMA BlockedList ==
    ASSUME NEW ss \in Seq(Step), NEW hits
    PROVE  LET tt == Blocked(ss, hits) IN
           /\ tt \in Seq(Step)
           /\ DoneKeys(tt) \subseteq DoneKeys(ss)
           /\ \A key \in DoneKeys(ss) \ DoneKeys(tt) :
                \E i \in DOMAIN ss :
                  ss[i].key = key /\ IsAwaiting(ss, i, hits)
           /\ OneActive(ss) => OneActive(tt)
<1> DEFINE tt == Blocked(ss, hits)
           IsMine(j) == IsAwaiting(ss, j, hits)
<1>1. DOMAIN ss = 1..Len(ss) /\ Len(ss) \in Nat
  BY ListFacts
<1>2. \A j \in 1..Len(ss) : ss[j] \in Step  BY <1>1, ListFacts
<1>3. CASE \E i \in DOMAIN ss : Awaits(ss[i].key, hits)
  <2>1. tt = [j \in 1..Len(ss) |->
                IF IsMine(j) THEN [ss[j] EXCEPT !.status = "pending"]
                ELSE ss[j]]
    BY <1>1, <1>3 DEF Blocked
  <2> HIDE DEF IsMine
  <2>2. \A j \in 1..Len(ss) :
          /\ tt[j] \in Step
          /\ tt[j].key = ss[j].key
          /\ tt[j].status = "pending" \/ tt[j].status = ss[j].status
          /\ ~IsMine(j) => tt[j] = ss[j]
    BY <1>2, <2>1 DEF Step, Statuses
  <2>3. tt = [j \in 1..Len(ss) |-> tt[j]]  BY <2>1
  <2> HIDE DEF tt
  <2>4. tt \in Seq(Step) /\ DOMAIN tt = 1..Len(ss)
    BY <1>1, <2>2, <2>3, ListOfSteps
  <2>5. OneActive(ss) => OneActive(tt)
    BY <1>1, <2>2, <2>4 DEF OneActive
  <2>6. DoneKeys(tt) \subseteq DoneKeys(ss)
    BY <1>1, <2>2, <2>4 DEF DoneKeys
  <2>7. ASSUME NEW key \in DoneKeys(ss) \ DoneKeys(tt)
        PROVE  \E i \in DOMAIN ss : ss[i].key = key /\ IsMine(i)
    <3>1. PICK i \in DOMAIN ss : ss[i].key = key /\ ss[i].status = "done"
      BY <2>7 DEF DoneKeys
    <3>2. ~IsMine(i) => key \in DoneKeys(tt)
      BY <3>1, <1>1, <2>2, <2>4 DEF DoneKeys
    <3> QED  BY <2>7, <3>1, <3>2
  <2> QED  BY <2>4, <2>5, <2>6, <2>7 DEF tt, IsMine
<1>4. CASE ~\E i \in DOMAIN ss : Awaits(ss[i].key, hits)
  <2> DEFINE new == [key |-> Upload, status |-> "pending"]
  <2>0. new \in Step  BY ProgressAssumption DEF Step, Statuses
  <2>1. tt = Append(ss, new)  BY <1>4 DEF Blocked
  <2>2. /\ tt \in Seq(Step) /\ Len(tt) = Len(ss) + 1
        /\ \A j \in 1..Len(ss) : tt[j] = ss[j]
        /\ tt[Len(ss) + 1] = new
    BY <2>0, <2>1, AppendProperties
  <2> HIDE DEF tt
  <2>3. DOMAIN tt = 1..(Len(ss) + 1)  BY <2>2
  <2>4. \A j \in DOMAIN tt : \/ j \in DOMAIN ss /\ tt[j] = ss[j]
                             \/ tt[j].status = "pending"
    BY <1>1, <2>2, <2>3
  <2>7. \A j \in DOMAIN ss : j \in DOMAIN tt /\ tt[j] = ss[j]
    BY <1>1, <2>2, <2>3
  <2>5. OneActive(ss) => OneActive(tt)  BY <2>4 DEF OneActive
  <2>6. DoneKeys(tt) = DoneKeys(ss)  BY <2>4, <2>7 DEF DoneKeys
  <2> QED  BY <2>2, <2>5, <2>6 DEF tt
<1> QED  BY <1>3, <1>4

LEMMA ShorterList ==
    ASSUME NEW ss \in Seq(Step), NEW i \in DOMAIN ss
    PROVE  Without(ss, i) \in Seq(Step)
<1>1. DOMAIN ss = 1..Len(ss) /\ Len(ss) \in Nat
  BY ListFacts
<1>2. i \in Int /\ 1 <= i /\ i <= Len(ss)  BY <1>1
<1>3. \A j \in 1..(i - 1) : ss[j] \in Step  BY <1>1, <1>2, ListFacts
<1>4. \A j \in (i + 1)..Len(ss) : ss[j] \in Step
  BY <1>1, <1>2, ListFacts
<1>5. i - 1 \in Int /\ i + 1 \in Int /\ Len(ss) \in Int /\ 1 \in Int
  BY <1>1, <1>2
<1>6. SubSeq(ss, 1, i - 1) \in Seq(Step)
  BY <1>3, <1>5, SubSeqProperties
<1>7. SubSeq(ss, i + 1, Len(ss)) \in Seq(Step)
  BY <1>4, <1>5, SubSeqProperties
<1> QED  BY <1>6, <1>7, ConcatProperties DEF Without

-----------------------------------------------------------------------------
(* The invariant.                                                          *)

\* Whoever had a confirmation done has answered for it.
Sound(ss) == \A key \in DoneKeys(ss) \cap Worded : confirmed \/ key \in given
Tidy(ss) == loose \/ OneActive(ss)

\* What is true of a call or a page.
Good(r) ==
    /\ job[r].op \in {"update", "mark", "page"}
         => Sound(job[r].ss) /\ Tidy(job[r].ss)
    /\ (job[r].op = "update" /\ job[r].to = "done" /\ job[r].key \in Worded)
         => confirmed
    /\ (job[r].op \in {"update", "mark"} /\ ~job[r].stale /\ Exists)
         => job[r].ss = steps
    /\ (job[r].op = "close" /\ ~job[r].stale /\ Exists) => AllDone(steps)
    /\ status = "none" => job[r] = Idle

Inv ==
    /\ TypeOK
    /\ Sound(steps) /\ Tidy(steps)
    /\ word = "yes" => confirmed
    /\ status = "none" => steps = <<>>
    /\ \A r \in Requests : Good(r)

LEMMA JobFacts ==
    ASSUME TypeOK, NEW r \in Requests
    PROVE  /\ job[r] \in Jobs
           /\ job[r].op = "update" =>
                /\ job[r].ss \in Seq(Step) /\ job[r].key \in Keys
                /\ job[r].to \in Statuses /\ job[r].stale \in BOOLEAN
           /\ job[r].op = "mark" =>
                /\ job[r].ss \in Seq(Step) /\ job[r].was \in BOOLEAN
                /\ job[r].hits \in Labels /\ job[r].stale \in BOOLEAN
           /\ job[r].op = "asked" => job[r].hits \in Labels
           /\ job[r].op = "page" => job[r].ss \in Seq(Step)
           /\ job[r].op = "close" => job[r].stale \in BOOLEAN
           /\ job[r].op = "idle" => job[r] = Idle
<1>1. job[r] \in Jobs  BY DEF TypeOK
<1> QED  BY <1>1 DEF Jobs, Idle

\* The history only grows, so a list stays as sound as it was.
Grows ==
    /\ confirmed => confirmed'
    /\ given \subseteq given'
    /\ loose => loose'

LEMMA SoundStays ==
    ASSUME NEW ss, Grows
    PROVE  (Sound(ss) => (\A key \in DoneKeys(ss) \cap Worded :
                             confirmed' \/ key \in given'))
           /\ (Tidy(ss) => (loose' \/ OneActive(ss)))
  BY DEF Grows, Sound, Tidy

\* When a call writes nothing, the others find what they found.
LEMMA KeptIsGood ==
    ASSUME Inv, NEW r \in Requests, job'[r] = job[r], steps' = steps,
           Grows, Exists' => Exists, status # "none" => status' # "none",
           status = "none" => job[r] = Idle
    PROVE  Good(r)'
<1> USE DEF Inv, Good
<1>1. job[r].op \in {"update", "mark", "page"}
        => Sound(job[r].ss)' /\ Tidy(job[r].ss)'
  BY DEF Grows, Sound, Tidy, OneActive, DoneKeys
<1> QED  BY <1>1 DEF Grows, Idle, AllDone

\* An outdated list is marked, and is what it was otherwise.
LEMMA OutdatedJob ==
    ASSUME NEW j \in Jobs
    PROVE  /\ Outdated(j) \in Jobs
           /\ Outdated(j).op = j.op
           /\ j.op \in {"update", "mark", "page"} => Outdated(j).ss = j.ss
           /\ j.op = "update" => Outdated(j).to = j.to
                                 /\ Outdated(j).key = j.key
           /\ j.op \in {"update", "close", "mark"} => Outdated(j).stale
           /\ j = Idle => Outdated(j) = Idle
<1>1. CASE j.op = "update"
  <2>1. j \in [op : {"update"}, ss : Seq(Step), key : Keys, to : Statuses,
               stale : BOOLEAN]
    BY <1>1 DEF Jobs, Idle
  <2>2. Outdated(j) = [j EXCEPT !.stale = TRUE]  BY <1>1 DEF Outdated
  <2> QED  BY <1>1, <2>1, <2>2 DEF Jobs, Idle
<1>2. CASE j.op = "close"
  <2>1. j \in [op : {"close"}, was : {"active", "resolved"},
               stale : BOOLEAN]
    BY <1>2 DEF Jobs, Idle
  <2>2. Outdated(j) = [j EXCEPT !.stale = TRUE]  BY <1>2 DEF Outdated
  <2> QED  BY <1>2, <2>1, <2>2 DEF Jobs, Idle
<1>3. CASE j.op = "mark"
  <2>1. j \in [op : {"mark"}, hits : Labels, ss : Seq(Step),
               was : BOOLEAN, stale : BOOLEAN]
    BY <1>3 DEF Jobs, Idle
  <2>2. Outdated(j) = [j EXCEPT !.stale = TRUE]  BY <1>3 DEF Outdated
  <2> QED  BY <1>3, <2>1, <2>2 DEF Jobs, Idle
<1>4. CASE j.op \notin {"update", "close", "mark"}
  BY <1>4 DEF Outdated, Jobs, Idle
<1> QED  BY <1>1, <1>2, <1>3, <1>4

LEMMA SaveIsGood ==
    ASSUME Inv, NEW r \in Requests, NEW tt, Save(r, tt), Grows,
           status' = status, Exists
    PROVE  \A q \in Requests : Good(q)'
<1> SUFFICES ASSUME NEW q \in Requests PROVE Good(q)'
  OBVIOUS
<1>0. status' # "none"  BY DEF Exists
<1>1. CASE q = r
  <2>1. job'[q] = Idle  BY <1>1 DEF Save
  <2> QED  BY <2>1, <1>0 DEF Good, Idle
<1>2. CASE q # r
  <2>1. job'[q] = Outdated(job[q])  BY <1>2 DEF Save
  <2>2. job[q] \in Jobs  BY JobFacts DEF Inv
  <2>3. Good(q)  BY DEF Inv
  <2>4. /\ job'[q].op = job[q].op
        /\ job[q].op \in {"update", "mark", "page"}
             => job'[q].ss = job[q].ss
        /\ job[q].op = "update" => /\ job'[q].to = job[q].to
                                   /\ job'[q].key = job[q].key
        /\ job[q].op \in {"update", "close", "mark"} => job'[q].stale
    BY <2>1, <2>2, OutdatedJob
  <2>5. job[q].op \in {"update", "mark", "page"}
          => /\ \A key \in DoneKeys(job[q].ss) \cap Worded :
                  confirmed' \/ key \in given'
             /\ loose' \/ OneActive(job[q].ss)
    BY <2>3, SoundStays DEF Good
  <2>6. job'[q].op \in {"update", "mark", "page"}
          => Sound(job[q].ss)' /\ Tidy(job[q].ss)'
    BY <2>4, <2>5 DEF Sound, Tidy, OneActive, DoneKeys
  <2> QED  BY <2>3, <2>4, <2>6, <1>0 DEF Good, Grows
<1> QED  BY <1>1, <1>2

-----------------------------------------------------------------------------
(* The steps.                                                              *)

LEMMA InitInv == Init => Inv
<1> SUFFICES ASSUME Init PROVE Inv
  OBVIOUS
<1>1. TypeOK
  <2>1. job \in [Requests -> Jobs]  BY DEF Init, Jobs
  <2>2. steps \in Seq(Step)  BY EmptySeq DEF Init
  <2> QED  BY <2>1, <2>2 DEF Init, TypeOK, Words
<1>2. Sound(steps) /\ Tidy(steps)
  BY DEF Init, Sound, Tidy, OneActive, DoneKeys
<1>3. \A r \in Requests : Good(r)
  BY DEF Init, Good, Idle
<1> QED  BY <1>1, <1>2, <1>3 DEF Init, Inv

\* A step of one call that writes no list.
LEMMA QuietStep ==
    ASSUME Inv, TypeOK', steps' = steps, UNCHANGED <<word, history>>,
           Exists' => Exists, status # "none", status' # "none",
           NEW r \in Requests,
           \A q \in Requests \ {r} : job'[q] = job[q],
           Good(r)'
    PROVE  Inv'
<1>1. Grows  BY DEF Grows, history
<1>2. \A q \in Requests : Good(q)'  BY <1>1, KeptIsGood
<1>3. Sound(steps)' /\ Tidy(steps)'
  BY DEF Inv, Sound, Tidy, OneActive, DoneKeys, history
<1> QED  BY <1>2, <1>3 DEF Inv, history

LEMMA QuietActions ==
    ASSUME Inv, NEW r \in Requests,
           \/ \E key \in Keys, to \in Statuses : BeginUpdate(r, key, to)
           \/ \E hits \in Labels : AskForFile(r, hits)
           \/ BeginClose(r) \/ EndClose(r) \/ BeginMark(r) \/ LoadPage(r)
           \/ Die(r)
    PROVE  Inv'
<1> USE DEF Inv
<1>0. job[r] # Idle => status # "none"  BY DEF Good
<1>1. ASSUME NEW key \in Keys, NEW to \in Statuses, BeginUpdate(r, key, to)
      PROVE  Inv'
  <2> USE <1>1 DEF BeginUpdate, Open, taskVars
  <2>1. TypeOK'  BY DEF TypeOK, Jobs, history
  <2>2. Good(r)'
    BY DEF TypeOK, Good, Sound, Tidy, OneActive, DoneKeys, Exists,
           Confirmed, history
  <2>3. \A q \in Requests \ {r} : job'[q] = job[q]  BY DEF TypeOK
  <2> QED  BY <2>1, <2>2, <2>3, QuietStep DEF Exists, history
<1>2. CASE BeginClose(r)
  <2> USE <1>2 DEF BeginClose, Open, taskVars
  <2>1. TypeOK'  BY DEF TypeOK, Jobs, Exists, history
  <2>2. Good(r)'  BY DEF TypeOK, Good, Exists, Closable, AllDone
  <2>3. \A q \in Requests \ {r} : job'[q] = job[q]  BY DEF TypeOK
  <2> QED  BY <2>1, <2>2, <2>3, QuietStep DEF Exists, history
<1>3. CASE EndClose(r)
  <2> USE <1>3 DEF EndClose, Gone, Close, taskVars, counters
  <2>1. TypeOK'  BY DEF TypeOK, Jobs, Exists, history
  <2>2. job'[r] = Idle /\ status # "none" /\ status' # "none"
    BY <1>0 DEF TypeOK, Idle, Exists
  <2>3. Good(r)'  BY <2>2 DEF Good, Idle
  <2>4. \A q \in Requests \ {r} : job'[q] = job[q]  BY DEF TypeOK
  <2>5. Exists' => Exists  BY DEF Exists
  <2> QED  BY <2>1, <2>2, <2>3, <2>4, <2>5, QuietStep DEF history
<1>4. ASSUME NEW hits \in Labels, AskForFile(r, hits)
      PROVE  Inv'
  <2> USE <1>4 DEF AskForFile, Open
  <2>1. TypeOK'  BY DEF TypeOK, Jobs, history
  <2>2. Good(r)'  BY DEF TypeOK, Good, Exists
  <2>3. \A q \in Requests \ {r} : job'[q] = job[q]  BY DEF TypeOK
  <2> QED  BY <2>1, <2>2, <2>3, QuietStep DEF Exists, history
<1>5. CASE BeginMark(r)
  <2> USE <1>5 DEF BeginMark, taskVars, counters
  <2>0. job[r].hits \in Labels /\ steps \in Seq(Step) /\ waiting \in BOOLEAN
    BY JobFacts DEF TypeOK
  <2>5. job'[r] \in Jobs  BY <2>0 DEF TypeOK, Jobs
  <2>6. job' \in [Requests -> Jobs]  BY <2>5 DEF TypeOK
  <2>1. TypeOK'  BY <2>6 DEF TypeOK, history
  <2>2. Good(r)'
    BY <1>0 DEF TypeOK, Good, Sound, Tidy, OneActive, DoneKeys, Exists,
                Idle, history
  <2>3. \A q \in Requests \ {r} : job'[q] = job[q]  BY DEF TypeOK
  <2>4. status # "none"  BY <1>0 DEF Idle
  <2> QED  BY <2>1, <2>2, <2>3, <2>4, QuietStep DEF Exists, history
<1>6. CASE LoadPage(r)
  <2> USE <1>6 DEF LoadPage, Open, taskVars
  <2>1. TypeOK'  BY DEF TypeOK, Jobs, history
  <2>2. Good(r)'
    BY DEF TypeOK, Good, Sound, Tidy, OneActive, DoneKeys, Exists, history
  <2>3. \A q \in Requests \ {r} : job'[q] = job[q]  BY DEF TypeOK
  <2> QED  BY <2>1, <2>2, <2>3, QuietStep DEF Exists, history
<1>7. CASE Die(r)
  <2> USE <1>7 DEF Die, Close, taskVars
  <2>1. TypeOK'  BY DEF TypeOK, Jobs, history
  <2>2. job'[r] = Idle /\ status # "none"  BY <1>0 DEF TypeOK
  <2>3. Good(r)'  BY <2>2 DEF Good, Idle
  <2>4. \A q \in Requests \ {r} : job'[q] = job[q]  BY DEF TypeOK
  <2> QED  BY <2>1, <2>2, <2>3, <2>4, QuietStep DEF Exists, history
<1> QED  BY <1>1, <1>2, <1>3, <1>4, <1>5, <1>6, <1>7

LEMMA EndUpdateInv ==
    ASSUME Inv, NEW r \in Requests, EndUpdate(r)
    PROVE  Inv'
<1> USE DEF Inv
<1>0. /\ job[r].op = "update" /\ status # "none"
      /\ job[r].ss \in Seq(Step) /\ job[r].key \in Keys
      /\ job[r].to \in Statuses
  BY JobFacts DEF EndUpdate, Good, Idle
<1>1. CASE Gone(r)
  <2> USE <1>1 DEF EndUpdate, Gone, Close, taskVars, counters
  <2>1. TypeOK'  BY DEF TypeOK, Jobs, history
  <2>2. job'[r] = Idle /\ status' # "none"  BY <1>0 DEF TypeOK
  <2>3. Good(r)'  BY <2>2 DEF Good, Idle
  <2>4. \A q \in Requests \ {r} : job'[q] = job[q]  BY DEF TypeOK
  <2>5. steps' = steps /\ UNCHANGED <<word, history>>
    BY DEF Exists
  <2> QED  BY <1>0, <2>1, <2>2, <2>3, <2>4, <2>5, QuietStep DEF Exists
<1>2. ASSUME Exists,
             NEW i \in DOMAIN job[r].ss, IsNamed(job[r].ss, i, job[r].key),
             Save(r, Advanced(job[r].ss, i, job[r].to)),
             UNCHANGED <<status, waiting, request>>,
             UNCHANGED <<word, counters, history>>
      PROVE  Inv'
  <2> DEFINE ss == job[r].ss  tt == Advanced(job[r].ss, i, job[r].to)
  <2>1. /\ tt \in Seq(Step) /\ DOMAIN tt = DOMAIN ss
        /\ \A j \in DOMAIN ss : tt[j].key = ss[j].key
        /\ \A j \in DOMAIN ss \ {i} :
             tt[j].status = "done" <=> ss[j].status = "done"
        /\ tt[i].status = "done" => job[r].to = "done"
        /\ OneActive(ss) => OneActive(tt)
    BY <1>0, <1>2, AdvancedList DEF Reworked
  <2>2. steps' = tt  BY <1>2 DEF Save
  <2>3. ss[i].key = job[r].key  BY <1>2 DEF IsNamed
  <2>4. Sound(ss) /\ Tidy(ss)  BY <1>0 DEF Good
  <2>5. job[r].to = "done" /\ job[r].key \in Worded => confirmed
    BY <1>0 DEF Good
  <2> HIDE DEF tt, ss
  <2>6. Sound(tt)  BY <2>1, <2>3, <2>4, <2>5 DEF Sound, DoneKeys
  <2>7. Tidy(tt)  BY <2>1, <2>4 DEF Tidy
  <2>8. Sound(steps)' /\ Tidy(steps)'
    BY <1>2, <2>2, <2>6, <2>7
    DEF Sound, Tidy, DoneKeys, OneActive, history
  <2>9. job' \in [Requests -> Jobs]
    BY <1>2, OutdatedJob DEF Save, TypeOK, Jobs
  <2>10. TypeOK'
    BY <1>2, <2>1, <2>2, <2>9 DEF TypeOK, counters, history
  <2>11. Grows /\ status' = status  BY <1>2 DEF Grows, history
  <2>12. \A q \in Requests : Good(q)'  BY <1>2, <2>11, SaveIsGood
  <2> QED  BY <1>0, <1>2, <2>8, <2>10, <2>12 DEF history
<1> QED  BY <1>1, <1>2 DEF EndUpdate

LEMMA EndMarkInv ==
    ASSUME Inv, NEW r \in Requests, EndMark(r)
    PROVE  Inv'
<1> USE DEF Inv
<1>0. /\ job[r].op = "mark" /\ status # "none"
      /\ job[r].ss \in Seq(Step) /\ job[r].was \in BOOLEAN
  BY JobFacts DEF EndMark, Good, Idle
<1>1. CASE Gone(r)
  <2> USE <1>1 DEF EndMark, Gone, Close, taskVars, counters
  <2>1. TypeOK'  BY DEF TypeOK, Jobs, history
  <2>2. job'[r] = Idle /\ status' # "none"  BY <1>0 DEF TypeOK
  <2>3. Good(r)'  BY <2>2 DEF Good, Idle
  <2>4. \A q \in Requests \ {r} : job'[q] = job[q]  BY DEF TypeOK
  <2>5. steps' = steps /\ UNCHANGED <<word, history>>
    BY DEF Exists
  <2> QED  BY <1>0, <2>1, <2>2, <2>3, <2>4, <2>5, QuietStep DEF Exists
<1>2. ASSUME Exists, Save(r, Blocked(job[r].ss, job[r].hits)),
             waiting' = (waiting \/ ~job[r].was),
             UNCHANGED <<status, request>>,
             UNCHANGED <<word, counters, history>>
      PROVE  Inv'
  <2> DEFINE ss == job[r].ss  tt == Blocked(job[r].ss, job[r].hits)
  <2>1. /\ tt \in Seq(Step)
        /\ DoneKeys(tt) \subseteq DoneKeys(ss)
        /\ OneActive(ss) => OneActive(tt)
    BY <1>0, BlockedList
  <2>2. steps' = tt  BY <1>2 DEF Save
  <2>4. Sound(ss) /\ Tidy(ss)  BY <1>0 DEF Good
  <2> HIDE DEF tt, ss
  <2>6. Sound(tt)  BY <2>1, <2>4 DEF Sound
  <2>7. Tidy(tt)  BY <2>1, <2>4 DEF Tidy
  <2>8. Sound(steps)' /\ Tidy(steps)'
    BY <1>2, <2>2, <2>6, <2>7
    DEF Sound, Tidy, DoneKeys, OneActive, history
  <2>9. job' \in [Requests -> Jobs]
    BY <1>2, OutdatedJob DEF Save, TypeOK, Jobs
  <2>10. TypeOK'
    BY <1>2, <2>1, <2>2, <2>9 DEF TypeOK, counters, history
  <2>11. Grows /\ status' = status  BY <1>2 DEF Grows, history
  <2>12. \A q \in Requests : Good(q)'  BY <1>2, <2>11, SaveIsGood
  <2> QED  BY <1>0, <1>2, <2>8, <2>10, <2>12 DEF history
<1> QED  BY <1>1, <1>2 DEF EndMark

LEMMA ReplaceInv ==
    ASSUME Inv, NEW r \in Requests, NEW tt \in Seq(Step), Replace(r, tt),
           Exists, UNCHANGED <<status, waiting, request, confirmed>>,
           UNCHANGED <<word, counters>>
    PROVE  Inv'
<1> USE DEF Inv
<1>1. /\ steps' = tt /\ given' = given \cup DoneKeys(tt)
      /\ loose' = (loose \/ ~OneActive(tt))
  BY DEF Replace, Save
<1>2. DoneKeys(tt) \subseteq Keys
  BY DoneAreKeys
<1>3. Sound(steps)' /\ Tidy(steps)'
  BY <1>1 DEF Sound, Tidy, DoneKeys, OneActive
<1>4. job' \in [Requests -> Jobs]
  BY OutdatedJob DEF Replace, Save, TypeOK, Jobs
<1>5. given' \subseteq Keys /\ loose' \in BOOLEAN
  BY <1>1, <1>2 DEF TypeOK
<1>6. TypeOK'
  BY <1>1, <1>4, <1>5 DEF TypeOK, counters
<1>7. Grows /\ status' = status  BY <1>1 DEF Grows
<1>8. \A q \in Requests : Good(q)'
  BY <1>7, SaveIsGood DEF Replace
<1> QED  BY <1>3, <1>6, <1>8 DEF Exists

LEMMA UpdateTaskStepsInv ==
    ASSUME Inv, NEW r \in Requests, UpdateTaskSteps(r)
    PROVE  Inv'
<1> USE DEF Inv
<1>0. job[r].op = "page" /\ status # "none" /\ job[r].ss \in Seq(Step)
  BY JobFacts DEF UpdateTaskSteps, Good, Idle
<1>1. CASE Gone(r) /\ UNCHANGED history
  <2> USE <1>1 DEF UpdateTaskSteps, Gone, Close, taskVars, counters
  <2>1. TypeOK'  BY DEF TypeOK, Jobs, history
  <2>2. job'[r] = Idle /\ status' # "none"  BY <1>0 DEF TypeOK
  <2>3. Good(r)'  BY <2>2 DEF Good, Idle
  <2>4. \A q \in Requests \ {r} : job'[q] = job[q]  BY DEF TypeOK
  <2>5. steps' = steps /\ UNCHANGED <<word, history>>
    BY DEF Exists
  <2> QED  BY <1>0, <2>1, <2>2, <2>3, <2>4, <2>5, QuietStep DEF Exists
<1>2. ASSUME Exists, NEW i \in DOMAIN job[r].ss, NEW to \in Statuses,
             Replace(r, Marked(job[r].ss, i, to)),
             UNCHANGED <<status, waiting, request, confirmed>>,
             UNCHANGED <<word, counters>>
      PROVE  Inv'
  <2>1. Marked(job[r].ss, i, to) \in Seq(Step)
    BY <1>0, MarkedList DEF Reworked
  <2> QED  BY <1>2, <2>1, ReplaceInv
<1>3. ASSUME Exists, NEW i \in DOMAIN job[r].ss,
             Replace(r, Without(job[r].ss, i)),
             UNCHANGED <<status, waiting, request, confirmed>>,
             UNCHANGED <<word, counters>>
      PROVE  Inv'
  <2>1. Without(job[r].ss, i) \in Seq(Step)  BY <1>0, ShorterList
  <2> QED  BY <1>3, <2>1, ReplaceInv
<1> QED  BY <1>1, <1>2, <1>3 DEF UpdateTaskSteps

LEMMA CreateFromProposalInv ==
    ASSUME Inv, CreateFromProposal
    PROVE  Inv'
<1> USE DEF Inv
<1>0. PICK plan \in Plans : \E f \in [DOMAIN plan -> Statuses] :
        /\ steps' = Planned(plan, f)
        /\ given' = DoneKeys(Planned(plan, f))
        /\ loose' = ~OneActive(Planned(plan, f))
  BY DEF CreateFromProposal
<1>1. PICK f \in [DOMAIN plan -> Statuses] :
        /\ steps' = Planned(plan, f)
        /\ given' = DoneKeys(Planned(plan, f))
        /\ loose' = ~OneActive(Planned(plan, f))
  BY <1>0
<1>2. DOMAIN plan = 1..Len(plan) /\ Len(plan) \in Nat
      /\ \A i \in 1..Len(plan) : plan[i] \in Keys
  BY ProgressAssumption
<1>3. steps' = [j \in 1..Len(plan) |-> steps'[j]]
      /\ \A j \in 1..Len(plan) : steps'[j] \in Step
  BY <1>1, <1>2 DEF Step, Planned
<1>4. steps' \in Seq(Step)  BY <1>2, <1>3, ListOfSteps
<1>5. given' = DoneKeys(steps') /\ loose' = ~OneActive(steps')
  BY <1>1
<1>6. DoneKeys(steps') \subseteq Keys
  BY <1>4, DoneAreKeys
<1>10. loose' \in BOOLEAN
  <2>1. CASE OneActive(steps')  BY <2>1, <1>5
  <2>2. CASE ~OneActive(steps')  BY <2>2, <1>5
  <2> QED  BY <2>1, <2>2
<1>7. TypeOK'
  BY <1>4, <1>5, <1>6, <1>10 DEF CreateFromProposal, TypeOK, counters
<1>8. Sound(steps)' /\ Tidy(steps)'
  BY <1>5 DEF Sound, Tidy, DoneKeys, OneActive
<1>9. \A r \in Requests : Good(r)'
  BY DEF CreateFromProposal, Good, Idle
<1> QED  BY <1>7, <1>8, <1>9 DEF CreateFromProposal

\* A step that no call takes.
LEMMA IdleStep ==
    ASSUME Inv, TypeOK', UNCHANGED <<steps, job>>, Grows,
           Exists' => Exists, status = "none" <=> status' = "none",
           Sound(steps)', Tidy(steps)', word' = "yes" => confirmed'
    PROVE  Inv'
<1>1. ASSUME NEW r \in Requests PROVE Good(r)'
  <2>1. job'[r] = job[r] /\ steps' = steps  OBVIOUS
  <2>2. status # "none" => status' # "none"  OBVIOUS
  <2>3. status = "none" => job[r] = Idle  BY DEF Inv, Good
  <2> QED  BY <2>1, <2>2, <2>3, KeptIsGood
<1> QED  BY <1>1 DEF Inv

LEMMA TaskActions ==
    ASSUME Inv, CreateTask \/ Dismiss \/ UpdateTask \/ DeleteTask
                \/ UNCHANGED vars
    PROVE  Inv'
<1> USE DEF history, counters
<1>1. CASE CreateTask
  <2> USE <1>1 DEF CreateTask, Inv
  <2>1. TypeOK'  BY DEF TypeOK
  <2>2. Sound(steps)' /\ Tidy(steps)'
    BY DEF Sound, Tidy, DoneKeys, OneActive
  <2>3. \A r \in Requests : Good(r)'  BY DEF Good, Idle
  <2> QED  BY <2>1, <2>2, <2>3
<1>2. CASE Dismiss \/ UpdateTask \/ UNCHANGED vars
  <2>1. TypeOK' /\ Sound(steps)' /\ Tidy(steps)'
    BY <1>2 DEF Inv, Dismiss, UpdateTask, vars, taskVars, TypeOK, Sound,
                Tidy, DoneKeys, OneActive
  <2>3. /\ Grows /\ (Exists' => Exists)
        /\ status = "none" <=> status' = "none"
    BY <1>2 DEF Dismiss, UpdateTask, vars, taskVars, Grows, Exists
  <2>4. /\ UNCHANGED <<steps, job>>
        /\ word' = "yes" => confirmed'
    BY <1>2 DEF Inv, Dismiss, UpdateTask, vars, taskVars
  <2> QED  BY <2>1, <2>3, <2>4, IdleStep
<1>3. CASE DeleteTask
  <2> USE <1>3 DEF DeleteTask, Inv
  <2>1. TypeOK'  BY EmptySeq DEF TypeOK
  <2>2. Sound(steps)' /\ Tidy(steps)'
    BY DEF Sound, Tidy, DoneKeys, OneActive
  <2>3. ASSUME NEW r \in Requests PROVE Good(r)'
    <3>1. Good(r)  OBVIOUS
    <3>2. ~Exists' /\ status' # "none"  BY DEF Exists
    <3>3. job'[r].op \in {"update", "mark", "page"}
            => Sound(job[r].ss)' /\ Tidy(job[r].ss)'
      BY <3>1 DEF Good, Sound, Tidy, DoneKeys, OneActive
    <3> QED  BY <3>1, <3>2, <3>3 DEF Good
  <2> QED  BY <2>1, <2>2, <2>3
<1> QED  BY <1>1, <1>2, <1>3

LEMMA ReceiveInv ==
    ASSUME Inv, NEW w \in Words \ {"none"}, Receive(w)
    PROVE  Inv'
<1> USE DEF Receive, taskVars
<1>1. TypeOK' /\ Sound(steps)' /\ Tidy(steps)'
  BY DEF Inv, TypeOK, Sound, Tidy, DoneKeys, OneActive
<1>2. /\ Grows /\ (Exists' => Exists)
      /\ status = "none" <=> status' = "none"
  BY DEF Grows, Exists
<1>3. /\ UNCHANGED <<steps, job>>
        /\ word' = "yes" => confirmed'
  BY DEF Inv, TypeOK
<1> QED  BY <1>1, <1>2, <1>3, IdleStep

LEMMA NextInv == Inv /\ [Next]_vars => Inv'
  BY QuietActions, EndUpdateInv, EndMarkInv, UpdateTaskStepsInv,
     CreateFromProposalInv, TaskActions, ReceiveInv DEF Next

-----------------------------------------------------------------------------
(* Theorems.                                                               *)

THEOREM Invariance == Spec => []Inv
<1>1. Init => Inv  BY InitInv
<1>2. Inv /\ [Next]_vars => Inv'  BY NextInv
<1> QED  BY <1>1, <1>2, PTL DEF Spec

\* Every variable of a task's progress keeps its kind of value.
THEOREM TypeCorrect == Spec => []TypeOK
<1>1. Inv => TypeOK  BY DEF Inv
<1> QED  BY <1>1, Invariance, PTL

\* The gate before a confirmation cannot be got round.
THEOREM Verified == Spec => []VerifiedHasWord
<1>1. Inv => VerifiedHasWord  BY DEF Inv, Sound, VerifiedHasWord
<1> QED  BY <1>1, Invariance, PTL

\* The agent's calls leave one step active at most.
THEOREM OneAtATime == Spec => []AtMostOneActive
<1>1. Inv => AtMostOneActive  BY DEF Inv, Tidy, AtMostOneActive
<1> QED  BY <1>1, Invariance, PTL

\* What a call may do to a step that is done.
KeepsProgress ==
    \A key \in DoneKeys(steps) \ DoneKeys(steps') :
         \/ status' = "gone"
         \/ \E r \in Requests :
              /\ job'[r] = Idle
              /\ \/ job[r].op = "page"
                 \/ job[r].op = "update" /\ (job[r].key = key \/ job[r].stale)
                 \/ /\ job[r].op = "mark"
                    /\ \/ job[r].stale
                       \/ \E i \in DOMAIN steps :
                            /\ steps[i].key = key
                            /\ IsAwaiting(steps, i, job[r].hits)

LEMMA EndUpdateKeeps ==
    ASSUME Inv, NEW r \in Requests, EndUpdate(r)
    PROVE  KeepsProgress
<1> USE DEF Inv
<1>0. /\ job[r].op = "update" /\ job[r].stale \in BOOLEAN
      /\ job[r].ss \in Seq(Step) /\ job[r].to \in Statuses
  BY JobFacts DEF EndUpdate
<1>1. CASE Gone(r)  BY <1>1 DEF Gone, KeepsProgress, taskVars
<1>2. ASSUME Exists,
             NEW i \in DOMAIN job[r].ss, IsNamed(job[r].ss, i, job[r].key),
             Save(r, Advanced(job[r].ss, i, job[r].to))
      PROVE  KeepsProgress
  <2> DEFINE ss == job[r].ss  tt == Advanced(job[r].ss, i, job[r].to)
  <2>1. /\ DOMAIN tt = DOMAIN ss
        /\ \A j \in DOMAIN ss : tt[j].key = ss[j].key
        /\ \A j \in DOMAIN ss \ {i} :
             tt[j].status = "done" <=> ss[j].status = "done"
    BY <1>0, <1>2, AdvancedList DEF Reworked
  <2>2. steps' = tt /\ job'[r] = Idle  BY <1>2 DEF Save
  <2>3. ss[i].key = job[r].key  BY <1>2 DEF IsNamed
  <2>4. ~job[r].stale => ss = steps  BY <1>0, <1>2 DEF Good
  <2> HIDE DEF tt, ss
  <2>5. DoneKeys(ss) \ DoneKeys(tt) \subseteq {job[r].key}
    BY <2>1, <2>3 DEF DoneKeys
  <2> QED  BY <1>0, <2>2, <2>4, <2>5 DEF KeepsProgress
<1> QED  BY <1>1, <1>2 DEF EndUpdate

LEMMA EndMarkKeeps ==
    ASSUME Inv, NEW r \in Requests, EndMark(r)
    PROVE  KeepsProgress
<1> USE DEF Inv
<1>0. /\ job[r].op = "mark" /\ job[r].stale \in BOOLEAN
      /\ job[r].ss \in Seq(Step)
  BY JobFacts DEF EndMark
<1>1. CASE Gone(r)  BY <1>1 DEF Gone, KeepsProgress, taskVars
<1>2. CASE Exists /\ Save(r, Blocked(job[r].ss, job[r].hits))
  <2>1. \A key \in DoneKeys(job[r].ss)
                  \ DoneKeys(Blocked(job[r].ss, job[r].hits)) :
          \E i \in DOMAIN job[r].ss :
            job[r].ss[i].key = key /\ IsAwaiting(job[r].ss, i, job[r].hits)
    BY <1>0, BlockedList
  <2>2. steps' = Blocked(job[r].ss, job[r].hits) /\ job'[r] = Idle
    BY <1>2 DEF Save
  <2>3. ~job[r].stale => job[r].ss = steps  BY <1>0, <1>2 DEF Good
  <2> QED  BY <1>0, <2>1, <2>2, <2>3 DEF KeepsProgress
<1> QED  BY <1>1, <1>2 DEF EndMark

LEMMA PageKeeps ==
    ASSUME Inv, NEW r \in Requests, UpdateTaskSteps(r)
    PROVE  KeepsProgress
<1>1. CASE Gone(r)  BY <1>1 DEF Gone, KeepsProgress, taskVars
<1>2. CASE job'[r] = Idle
  BY <1>2 DEF UpdateTaskSteps, KeepsProgress
<1> QED  BY <1>1, <1>2 DEF UpdateTaskSteps, Replace, Save

\* A done step is set back or lost only by a call that names it, a manager,
\* deletion, the request of a file that it is the first to match, or a call
\* whose list was out of date.
THEOREM Kept == Spec => ProgressIsKept
<1>1. Inv /\ [Next]_vars => [KeepsProgress]_vars
  <2> SUFFICES ASSUME Inv, Next PROVE KeepsProgress
    OBVIOUS
  <2>1. CASE steps' = steps  BY <2>1 DEF KeepsProgress
  <2>2. CASE DeleteTask  BY <2>2 DEF DeleteTask, KeepsProgress
  <2>3. CASE CreateFromProposal
    BY <2>3 DEF CreateFromProposal, KeepsProgress, DoneKeys, Inv
  <2>4. ASSUME NEW r \in Requests,
               EndUpdate(r) \/ EndMark(r) \/ UpdateTaskSteps(r)
        PROVE  KeepsProgress
    BY <2>4, EndUpdateKeeps, EndMarkKeeps, PageKeeps
  <2> QED
    BY <2>1, <2>2, <2>3, <2>4
    DEF Next, CreateTask, Dismiss, UpdateTask, Receive, BeginUpdate,
        BeginClose, EndClose, AskForFile, BeginMark, LoadPage, Die, Gone,
        taskVars
<1> QED  BY <1>1, Invariance, PTL DEF Spec, ProgressIsKept, KeepsProgress

\* close_task finds every step done, unless it looked too early.
THEOREM Closed == Spec => ClosedWasComplete
<1>1. Inv /\ [Next]_vars =>
        [\A r \in Requests :
           /\ job[r].op = "close" /\ job'[r] = Idle
           /\ status # "resolved" /\ status' = "resolved"
           => AllDone(steps) \/ job[r].stale]_vars
  <2> SUFFICES ASSUME Inv, Next, NEW r \in Requests,
                      job[r].op = "close", job'[r] = Idle,
                      status # "resolved", status' = "resolved"
               PROVE  AllDone(steps) \/ job[r].stale
    OBVIOUS
  <2>1. job[r].stale \in BOOLEAN /\ job[r] # Idle
    BY JobFacts DEF Inv, Idle
  <2>2. job' # job  BY <2>1
  <2>3. Exists
    BY <2>2 DEF Next, CreateFromProposal, CreateTask, Dismiss, UpdateTask,
       DeleteTask, Receive, BeginUpdate, EndUpdate, BeginClose, EndClose,
       AskForFile, BeginMark, EndMark, LoadPage, UpdateTaskSteps, Die, Gone,
       taskVars, Exists
  <2> QED  BY <2>1, <2>3 DEF Inv, Good
<1> QED  BY <1>1, Invariance, PTL DEF Spec, ClosedWasComplete
=============================================================================

------------------------ MODULE StreamRegistryProofs ------------------------
(***************************************************************************)
(* Proofs about StreamRegistry for any number of runs, connections and     *)
(* events.  The inductive invariant adds to the checked invariants which   *)
(* connections are in which subscriber list, what a connection that has    *)
(* not started to read holds, and that a run without a terminal event has  *)
(* no terminal event in its log.                                           *)
(***************************************************************************)
EXTENDS StreamRegistry, SequenceTheorems, TLAPS

\* Appending to the last part of a concatenation appends to the whole.
LEMMA ConcatAppend ==
    ASSUME NEW S, NEW s \in Seq(S), NEW t \in Seq(S), NEW e \in S
    PROVE  s \o Append(t, e) = Append(s \o t, e)
<1>1. Append(t, e) = t \o <<e>>  BY AppendIsConcat
<1>2. Append(s \o t, e) = (s \o t) \o <<e>>  BY AppendIsConcat, ConcatProperties
<1>3. <<e>> \in Seq(S)  OBVIOUS
<1> QED  BY <1>1, <1>2, <1>3, ConcatAssociative

\* Moving the head of the second part to the end of the first changes nothing.
LEMMA ConcatPop ==
    ASSUME NEW S, NEW s \in Seq(S), NEW t \in Seq(S), t # <<>>
    PROVE  Append(s, Head(t)) \o Tail(t) = s \o t
<1>1. /\ Head(t) \in S
      /\ Tail(t) \in Seq(S)
      /\ <<Head(t)>> \in Seq(S)
  BY HeadTailProperties
<1>2. Append(s, Head(t)) = s \o <<Head(t)>>  BY <1>1, AppendIsConcat
<1>3. <<Head(t)>> \o Tail(t) = t  BY <1>1, HeadTailProperties, ConcatProperties, SeqEqual
<1> QED  BY <1>1, <1>2, <1>3, ConcatAssociative

\* The first element of the second part sits right after the first part.
LEMMA ConcatHead ==
    ASSUME NEW S, NEW s \in Seq(S), NEW t \in Seq(S), t # <<>>
    PROVE  /\ (s \o t)[Len(s) + 1] = Head(t)
           /\ Len(s) < Len(s \o t)
           /\ Len(s) + 1 \in 1..Len(s \o t)
           /\ Len(s) + 1 = Len(s \o t) => Tail(t) = <<>>
  BY ConcatProperties, EmptySeq, LenProperties, HeadTailProperties

\* A concatenation starts with the head of its first part.
LEMMA ConcatFirst ==
    ASSUME NEW S, NEW s \in Seq(S), NEW t \in Seq(S), s # <<>>
    PROVE  Head(s \o t) = Head(s)
<1>1. /\ Len(s) \in Nat \ {0}
      /\ Len(t) \in Nat
      /\ s \o t \in Seq(S)
  BY EmptySeq, LenProperties, ConcatProperties
<1>2. (s \o t)[1] = s[1]  BY <1>1, ConcatProperties
<1>3. s \o t # <<>>  BY <1>1, ConcatProperties, EmptySeq
<1> QED  BY <1>1, <1>2, <1>3

\* The two facts a feed needs, for events: a live event goes to its end, and
\* sending moves its head to what was received.
LEMMA FeedAppend ==
    \A g, p, q \in Seq(Events), e \in Events :
        g \o (p \o Append(q, e)) = Append(g \o (p \o q), e)
<1> TAKE g, p, q \in Seq(Events), e \in Events
<1>1. p \o Append(q, e) = Append(p \o q, e)  BY ConcatAppend
<1>2. p \o q \in Seq(Events)  BY ConcatProperties
<1>3. g \o Append(p \o q, e) = Append(g \o (p \o q), e)
  BY <1>2, ConcatAppend
<1> QED  BY <1>1, <1>3

\* Concatenation of parts of a feed is associative.
LEMMA FeedAssoc ==
    \A x, y, z \in Seq(Events) : x \o (y \o z) = (x \o y) \o z
<1> TAKE x, y, z \in Seq(Events)
<1> QED  BY ConcatAssociative

LEMMA FeedPop ==
    \A g, p, q \in Seq(Events) : p # <<>> =>
        Append(g, Head(p)) \o (Tail(p) \o q) = g \o (p \o q)
<1> TAKE g, p, q \in Seq(Events)
<1> HAVE p # <<>>
<1> DEFINE g2 == Append(g, Head(p))
           p2 == Tail(p)
<1>1. Head(p) \in Events /\ p2 \in Seq(Events)  BY HeadTailProperties
<1>2. g2 \in Seq(Events)  BY <1>1, AppendProperties
<1>3. g2 \o p2 = g \o p  BY ConcatPop
<1> HIDE DEF g2, p2
<1>4. g2 \o (p2 \o q) = (g2 \o p2) \o q  BY <1>1, <1>2, FeedAssoc
<1>5. g \o (p \o q) = (g \o p) \o q  BY FeedAssoc
<1> QED  BY <1>3, <1>4, <1>5 DEF g2, p2

-----------------------------------------------------------------------------
\* A connection is in the subscriber list of exactly the run it is reading.
Bookkeeping ==
    \A c \in Clients :
        /\ phase[c] = "off" <=> reading[c] = NoRun
        /\ phase[c] \in {"off", "opening"} => got[c] = <<>>
        /\ \A r \in Runs :
              c \in subscribers[r] <=> (phase[c] = "replaying" /\ reading[c] = r)

\* A run has no terminal event before its runner ends, and no event before it
\* starts.
RunsInv ==
    \A r \in Runs :
        /\ runner[r] = "unborn" => (log[r] = <<>> /\ terminal[r] = NoEvent)
        /\ runner[r] = "running" => terminal[r] = NoEvent
        /\ terminal[r] # NoEvent => log[r] # <<>>

IInv ==
    /\ TypeOK
    /\ Bookkeeping
    /\ RunsInv
    /\ FeedIsComplete
    /\ CompleteMeansWhole
    /\ TerminalIsLast
    /\ InFlightIsFindable

LEMMA InitIInv == Init => IInv
<1> SUFFICES ASSUME Init PROVE IInv  OBVIOUS
<1> USE DEF Init
<1>1. TypeOK  BY BoundsAssumption DEF TypeOK
<1>2. Bookkeeping  BY NamesAssumption DEF Bookkeeping
<1>3. RunsInv  BY DEF RunsInv
<1>4. FeedIsComplete /\ CompleteMeansWhole  BY DEF FeedIsComplete, CompleteMeansWhole
<1>5. TerminalIsLast  BY DEF TerminalIsLast
<1>6. InFlightIsFindable  BY DEF InFlightIsFindable
<1> QED  BY <1>1, <1>2, <1>3, <1>4, <1>5, <1>6 DEF IInv

\* What emit() does to the log of its run and to the feed of its subscribers.
LEMMA EmitPreserves ==
    ASSUME IInv, NEW r \in Runs, NEW e \in Events, Emit(r, e),
           UNCHANGED <<subscribers, registered, connVars>>,
           runner' \in [Runs -> {"unborn", "running", "returned", "raised"}]
    PROVE  TypeOK' /\ Bookkeeping' /\ FeedIsComplete' /\ CompleteMeansWhole'
           /\ TerminalIsLast'
<1> USE DEF IInv
<1>1. CASE terminal[r] # NoEvent
  <2>1. UNCHANGED <<log, terminal, age, queue>>  BY <1>1 DEF Emit
  <2> QED
    BY <2>1 DEF connVars, TypeOK, Bookkeeping, FeedIsComplete,
                CompleteMeansWhole, TerminalIsLast
<1>2. CASE terminal[r] = NoEvent
  <2>1. /\ log' = [log EXCEPT ![r] = Append(@, e)]
        /\ terminal' = [terminal EXCEPT ![r] = IF e \in Ends THEN e ELSE @]
        /\ age' = age
        /\ queue' = [c \in Clients |-> IF c \in subscribers[r]
                                       THEN Append(queue[c], e)
                                       ELSE queue[c]]
    BY <1>2 DEF Emit
  <2>2. TypeOK'  BY <2>1 DEF TypeOK, connVars
  <2>3. Bookkeeping'  BY DEF Bookkeeping, connVars
  <2>4. FeedIsComplete'
    <3> SUFFICES ASSUME NEW c \in Clients, phase[c] = "replaying"
                 PROVE  got[c] \o (replay[c] \o queue'[c]) = log'[reading[c]]
      BY DEF FeedIsComplete, connVars
    <3>1. got[c] \o (replay[c] \o queue[c]) = log[reading[c]]  BY DEF FeedIsComplete
    <3>2. got[c] \in Seq(Events) /\ replay[c] \in Seq(Events) /\ queue[c] \in Seq(Events)
      BY DEF TypeOK
    <3>3. CASE c \in subscribers[r]
      <4>1. reading[c] = r  BY <3>3 DEF Bookkeeping
      <4>2. queue'[c] = Append(queue[c], e)  BY <2>1, <3>3
      <4>3. log'[r] = Append(log[r], e)  BY <2>1 DEF TypeOK
      <4>4. got[c] \o (replay[c] \o Append(queue[c], e))
              = Append(got[c] \o (replay[c] \o queue[c]), e)
        BY <3>2, FeedAppend
      <4>5. got[c] \o (replay[c] \o queue'[c])
              = Append(got[c] \o (replay[c] \o queue[c]), e)
        BY <4>2, <4>4
      <4> QED  BY <3>1, <4>1, <4>3, <4>5
    <3>4. CASE c \notin subscribers[r]
      <4>1. reading[c] # r  BY <3>4 DEF Bookkeeping
      <4>2. queue'[c] = queue[c]  BY <2>1, <3>4
      <4>3. log'[reading[c]] = log[reading[c]]
        BY <2>1, <4>1, NamesAssumption DEF TypeOK, Bookkeeping
      <4> QED  BY <3>1, <4>2, <4>3
    <3> QED  BY <3>3, <3>4
  <2>5. CompleteMeansWhole'
    <3> SUFFICES ASSUME NEW c \in Clients, phase[c] = "complete"
                 PROVE  got[c] = log'[reading[c]] /\ terminal'[reading[c]] # NoEvent
      BY DEF CompleteMeansWhole, connVars
    <3>1. got[c] = log[reading[c]] /\ terminal[reading[c]] # NoEvent
      BY DEF CompleteMeansWhole
    <3>2. reading[c] # r /\ reading[c] \in Runs
      BY <1>2, <3>1 DEF TypeOK, Bookkeeping
    <3> QED  BY <2>1, <3>1, <3>2 DEF TypeOK
  <2>6. TerminalIsLast'
    <3> SUFFICES ASSUME NEW q \in Runs, NEW i \in 1..Len(log'[q])
                 PROVE  log'[q][i] \in Ends
                          <=> (i = Len(log'[q]) /\ terminal'[q] # NoEvent)
      BY DEF TerminalIsLast
    <3>1. CASE q # r
      BY <2>1, <3>1 DEF TypeOK, TerminalIsLast
    <3>2. CASE q = r
      <4>1. log[r] \in Seq(Events)  BY DEF TypeOK
      <4>2. log'[r] = Append(log[r], e)  BY <2>1 DEF TypeOK
      <4>3. terminal'[r] # NoEvent <=> e \in Ends
        BY <1>2, <2>1, NamesAssumption DEF TypeOK, Events
      <4>4. CASE i = Len(log[r]) + 1
        BY <3>2, <4>1, <4>2, <4>3, <4>4, AppendProperties
      <4>5. CASE i \in 1..Len(log[r])
        <5>1. log'[r][i] = log[r][i]  BY <4>1, <4>2, <4>5, AppendProperties
        <5>2. log[r][i] \notin Ends  BY <1>2, <4>5 DEF TerminalIsLast
        <5>3. i # Len(log'[r])  BY <4>1, <4>2, <4>5, AppendProperties, LenProperties
        <5> QED  BY <3>2, <5>1, <5>2, <5>3
      <4> QED  BY <3>2, <4>1, <4>2, <4>4, <4>5, AppendProperties, LenProperties
    <3> QED  BY <3>1, <3>2
  <2> QED  BY <2>2, <2>3, <2>4, <2>5, <2>6
<1> QED  BY <1>1, <1>2

\* Sending the next event of a feed keeps it complete; if that event is
\* terminal nothing is left of the feed, so the connection has the whole log.
LEMMA SentPreserves ==
    ASSUME IInv, NEW c \in Clients, phase[c] = "replaying",
           NEW e \in Events, NEW rest \in Seq(Events), Sent(c, e),
           got[c] \o (replay[c] \o queue[c]) = Append(got[c], e) \o rest,
           got[c] \in Seq(Events),
           replay' \in [Clients -> Seq(Events)],
           queue' \in [Clients -> Seq(Events)],
           replay'[c] \o queue'[c] = rest,
           \A d \in Clients \ {c} : replay'[d] = replay[d] /\ queue'[d] = queue[d]
    PROVE  IInv'
<1> USE DEF IInv
<1>1. /\ UNCHANGED <<log, terminal, age, registered, runner, reading>>
      /\ got' = [got EXCEPT ![c] = Append(@, e)]
  BY DEF Sent, runVars
<1>2. reading[c] \in Runs  BY NamesAssumption DEF TypeOK, Bookkeeping
<1>3. log[reading[c]] = Append(got[c], e) \o rest  BY DEF FeedIsComplete
<1>4. got'[c] = Append(got[c], e) /\ got'[c] \in Seq(Events)
  BY <1>1, AppendProperties DEF TypeOK
<1>5. \A d \in Clients \ {c} : got'[d] = got[d]  BY <1>1 DEF TypeOK
<1>6. TypeOK'
  <2>1. got' \in [Clients -> Seq(Events)]  BY <1>1, <1>4 DEF TypeOK
  <2>2. subscribers' \in [Runs -> SUBSET Clients]  
    <3>1. \/ UNCHANGED subscribers
          \/ subscribers' = [subscribers EXCEPT ![reading[c]] = @ \ {c}]
      BY DEF Sent
    <3>2. subscribers \in [Runs -> SUBSET Clients]  BY DEF TypeOK
    <3> QED  BY ONLY <1>2, <3>1, <3>2
  <2>3. phase' \in [Clients -> {"off", "opening", "replaying", "complete"}]
    BY ONLY TypeOK, Sent(c, e) DEF TypeOK, Sent
  <2> QED  BY <1>1, <2>1, <2>2, <2>3 DEF TypeOK
<1>7. RunsInv' /\ TerminalIsLast' /\ InFlightIsFindable'
  BY <1>1 DEF RunsInv, TerminalIsLast, InFlightIsFindable
<1>8. CASE e \notin Ends
  <2>1. UNCHANGED <<phase, subscribers>>  BY <1>8 DEF Sent
  <2>2. Bookkeeping'  BY <1>1, <1>5, <2>1 DEF Bookkeeping
  <2>3. FeedIsComplete'
    <3> SUFFICES ASSUME NEW d \in Clients, phase[d] = "replaying"
                 PROVE  got'[d] \o (replay'[d] \o queue'[d]) = log[reading[d]]
      BY <1>1, <2>1 DEF FeedIsComplete
    <3>1. CASE d = c  BY <1>3, <1>4, <3>1
    <3>2. CASE d # c  BY <1>5, <3>2 DEF FeedIsComplete
    <3> QED  BY <3>1, <3>2
  <2>4. CompleteMeansWhole'
    BY <1>1, <1>5, <2>1 DEF CompleteMeansWhole
  <2> QED  BY <1>6, <1>7, <2>2, <2>3, <2>4
<1>9. CASE e \in Ends
  <2>1. /\ phase' = [phase EXCEPT ![c] = "complete"]
        /\ subscribers' = [subscribers EXCEPT ![reading[c]] = @ \ {c}]
    BY <1>9 DEF Sent
  <2>2. Bookkeeping'
    <3> SUFFICES ASSUME NEW d \in Clients
                 PROVE  /\ phase'[d] = "off" <=> reading[d] = NoRun
                        /\ phase'[d] \in {"off", "opening"} => got'[d] = <<>>
                        /\ \A r \in Runs : d \in subscribers'[r]
                             <=> (phase'[d] = "replaying" /\ reading[d] = r)
      BY <1>1 DEF Bookkeeping
    <3>1. CASE d = c
      <4>1. phase'[c] = "complete" /\ reading[c] # NoRun
        BY <2>1 DEF Bookkeeping, TypeOK
      <4>2. \A r \in Runs : c \notin subscribers'[r]
        BY <1>2, <2>1 DEF Bookkeeping, TypeOK
      <4> QED  BY <3>1, <4>1, <4>2
    <3>2. CASE d # c
      <4>1. phase'[d] = phase[d] /\ got'[d] = got[d]
        BY <1>5, <2>1, <3>2 DEF TypeOK
      <4>2. \A r \in Runs : d \in subscribers'[r] <=> d \in subscribers[r]
        BY <1>2, <2>1, <3>2 DEF TypeOK
      <4> QED  BY <4>1, <4>2 DEF Bookkeeping
    <3> QED  BY <3>1, <3>2
  <2>3. FeedIsComplete'
    BY <1>1, <1>5, <2>1 DEF FeedIsComplete, TypeOK
  <2>4. log[reading[c]] = Append(got[c], e) /\ terminal[reading[c]] # NoEvent
    <3> DEFINE r == reading[c]
               n == Len(got[c]) + 1
    <3> HIDE DEF r, n
    <3>1. log[r] \in Seq(Events)  BY <1>2 DEF TypeOK, r
    <3>2. /\ Append(got[c], e) \in Seq(Events)
          /\ Len(Append(got[c], e)) = n
          /\ Append(got[c], e)[n] = e
          /\ n \in Nat \ {0}
      BY AppendProperties, LenProperties DEF n
    <3>3. /\ Len(log[r]) = n + Len(rest)
          /\ log[r][n] = e
          /\ Len(rest) \in Nat
      <4> DEFINE s == Append(got[c], e)
      <4>1. s \in Seq(Events) /\ Len(s) = n /\ s[n] = e  BY <3>2
      <4> HIDE DEF s
      <4>2. /\ Len(s \o rest) = Len(s) + Len(rest)
            /\ \A i \in 1..(Len(s) + Len(rest)) :
                  (s \o rest)[i] = IF i <= Len(s) THEN s[i] ELSE rest[i - Len(s)]
        BY <4>1, ConcatProperties
      <4>3. Len(rest) \in Nat  BY LenProperties
      <4>4. log[r] = s \o rest  BY <1>3 DEF r, s
      <4>5. n \in 1..(Len(s) + Len(rest)) /\ n <= Len(s)  BY <3>2, <4>1, <4>3
      <4> QED  BY <4>1, <4>2, <4>3, <4>4, <4>5
    <3>4. n \in 1..Len(log[r])  BY <3>2, <3>3
    <3>5. n = Len(log[r]) /\ terminal[r] # NoEvent
      BY <1>2, <1>9, <3>3, <3>4 DEF TerminalIsLast, r
    <3>6. rest = <<>>  BY <3>2, <3>3, <3>5, EmptySeq
    <3>7. Append(got[c], e) \o rest = Append(got[c], e)
      BY <3>2, <3>6, ConcatEmptySeq
    <3> QED  BY <1>3, <3>5, <3>7 DEF r
  <2>5. CompleteMeansWhole'
    <3> SUFFICES ASSUME NEW d \in Clients, phase'[d] = "complete"
                 PROVE  got'[d] = log[reading[d]] /\ terminal[reading[d]] # NoEvent
      BY <1>1 DEF CompleteMeansWhole
    <3>1. CASE d = c  BY <1>4, <2>4, <3>1
    <3>2. CASE d # c  BY <1>5, <2>1, <3>2 DEF CompleteMeansWhole, TypeOK
    <3> QED  BY <3>1, <3>2
  <2> QED  BY <1>6, <1>7, <2>2, <2>3, <2>5
<1> QED  BY <1>8, <1>9

\* No step of a runner, the registry or a connection breaks the invariant.
LEMMA NextIInv == IInv /\ [Next]_vars => IInv'
<1> SUFFICES ASSUME IInv, [Next]_vars PROVE IInv'  OBVIOUS
<1> USE DEF IInv
<1>1. ASSUME NEW r \in Runs, NEW t \in Texts, Progress(r, t) PROVE IInv'
  <2> USE <1>1 DEF Progress
  <2>1. TypeOK' /\ Bookkeeping' /\ FeedIsComplete' /\ CompleteMeansWhole'
        /\ TerminalIsLast'
    BY EmitPreserves DEF TypeOK, Events
  <2>2. RunsInv'
    <3>1. t \notin Ends /\ t # NoEvent  BY NamesAssumption DEF Events
    <3>2. \A q \in Runs : log'[q] = log[q] \/ log'[q] # <<>>
      BY AppendProperties DEF Emit, TypeOK, Events
    <3>3. \A q \in Runs : terminal'[q] = terminal[q]
      BY <3>1 DEF Emit, TypeOK
    <3>4. \A q \in Runs : runner[q] = "unborn" => log'[q] = log[q]
      BY DEF Emit, TypeOK
    <3> QED  BY <3>2, <3>3, <3>4 DEF RunsInv
  <2>3. InFlightIsFindable'  BY DEF InFlightIsFindable
  <2> QED  BY <2>1, <2>2, <2>3
<1>2. ASSUME NEW r \in Runs, NEW e \in Ends, NEW how \in {"returned", "raised"},
             runner[r] = "running", runner' = [runner EXCEPT ![r] = how],
             Emit(r, e), UNCHANGED <<subscribers, registered, connVars>>
      PROVE  IInv'
  <2> USE <1>2
  <2>1. TypeOK' /\ Bookkeeping' /\ FeedIsComplete' /\ CompleteMeansWhole'
        /\ TerminalIsLast'
    BY EmitPreserves DEF TypeOK, Events
  <2>2. RunsInv'
    <3>1. terminal[r] = NoEvent  BY DEF RunsInv
    <3>2. log' = [log EXCEPT ![r] = Append(@, e)]  BY <3>1 DEF Emit
    <3>3. log'[r] # <<>>  BY <3>2, AppendProperties DEF TypeOK, Events
    <3>4. \A q \in Runs \ {r} : log'[q] = log[q] /\ terminal'[q] = terminal[q]
      BY DEF Emit, TypeOK
    <3> QED  BY <3>3, <3>4 DEF RunsInv, TypeOK
  <2>3. InFlightIsFindable'  BY DEF InFlightIsFindable, TypeOK
  <2> QED  BY <2>1, <2>2, <2>3
<1>3. ASSUME NEW r \in Runs, PayloadRaises(r) PROVE IInv'
  <2> USE <1>3 DEF PayloadRaises, runVars, connVars
  <2>1. TypeOK'  BY DEF TypeOK
  <2>2. Bookkeeping' /\ FeedIsComplete' /\ CompleteMeansWhole' /\ TerminalIsLast'
    BY DEF Bookkeeping, FeedIsComplete, CompleteMeansWhole, TerminalIsLast
  <2>3. RunsInv' /\ InFlightIsFindable'  BY DEF RunsInv, InFlightIsFindable, TypeOK
  <2> QED  BY <2>1, <2>2, <2>3
<1>4. ASSUME NEW r \in Runs, NEW c \in Clients, Start(r, c) PROVE IInv'
  <2> USE <1>4 DEF Start, runVars
  <2>1. TypeOK'  BY DEF TypeOK
  <2>2. /\ phase'[c] = "opening" /\ reading'[c] = r /\ got[c] = <<>>
        /\ \A q \in Runs : c \notin subscribers[q]
        /\ \A d \in Clients \ {c} : phase'[d] = phase[d] /\ reading'[d] = reading[d]
        /\ r # NoRun
    BY NamesAssumption DEF Bookkeeping, TypeOK
  <2>3. Bookkeeping'  BY <2>2 DEF Bookkeeping
  <2>4. FeedIsComplete' /\ CompleteMeansWhole' /\ TerminalIsLast'
    BY <2>2 DEF FeedIsComplete, CompleteMeansWhole, TerminalIsLast
  <2>5. RunsInv'  BY DEF RunsInv, TypeOK
  <2>6. InFlightIsFindable'
    BY DEF InFlightIsFindable, RunsInv, Stale, TypeOK
  <2> QED  BY <2>1, <2>3, <2>4, <2>5, <2>6
<1>5. ASSUME NEW r \in Runs, NEW c \in Clients, Reconnect(c, r) PROVE IInv'
  <2> USE <1>5 DEF Reconnect, runVars
  <2>1. TypeOK'  BY DEF TypeOK
  <2>2. RunsInv' /\ InFlightIsFindable' /\ TerminalIsLast'
    BY DEF InFlightIsFindable, RunsInv, Stale, TerminalIsLast
  <2>3. CASE r \in registered'
    <3>1. /\ phase'[c] = "opening" /\ reading'[c] = r /\ got[c] = <<>>
          /\ \A q \in Runs : c \notin subscribers[q]
          /\ \A d \in Clients \ {c} : phase'[d] = phase[d] /\ reading'[d] = reading[d]
          /\ r # NoRun
      BY <2>3, NamesAssumption DEF Bookkeeping, TypeOK
    <3>2. Bookkeeping'  BY <3>1 DEF Bookkeeping
    <3>3. FeedIsComplete' /\ CompleteMeansWhole'
      BY <3>1 DEF FeedIsComplete, CompleteMeansWhole
    <3> QED  BY <2>1, <2>2, <3>2, <3>3
  <2>4. CASE r \notin registered'
    <3>1. UNCHANGED <<phase, reading>>  BY <2>4
    <3> QED
      BY <2>1, <2>2, <3>1 DEF Bookkeeping, FeedIsComplete, CompleteMeansWhole
  <2> QED  BY <2>3, <2>4
<1>6. ASSUME NEW c \in Clients, Subscribe(c) PROVE IInv'
  <2> USE <1>6 DEF Subscribe, runVars
  <2>1. reading[c] \in Runs  BY NamesAssumption DEF TypeOK, Bookkeeping
  <2>2. TypeOK'
    <3>1. queue' \in [Clients -> Seq(Events)] /\ replay' \in [Clients -> Seq(Events)]
      BY <2>1, EmptySeq DEF TypeOK
    <3> QED  BY <2>1, <3>1 DEF TypeOK
  <2>3. Bookkeeping'  BY <2>1 DEF Bookkeeping, TypeOK
  <2>4. FeedIsComplete'
    <3> SUFFICES ASSUME NEW d \in Clients, phase'[d] = "replaying"
                 PROVE  got[d] \o (replay'[d] \o queue'[d]) = log[reading[d]]
      BY DEF FeedIsComplete
    <3>1. CASE d = c
      <4>1. got[c] = <<>> /\ queue'[c] = <<>> /\ replay'[c] = log[reading[c]]
        BY DEF Bookkeeping, TypeOK
      <4>2. log[reading[c]] \in Seq(Events)  BY <2>1 DEF TypeOK
      <4> QED  BY <3>1, <4>1, <4>2, ConcatEmptySeq
    <3>2. CASE d # c  BY <3>2 DEF FeedIsComplete, TypeOK
    <3> QED  BY <3>1, <3>2
  <2>5. CompleteMeansWhole' /\ TerminalIsLast' /\ RunsInv' /\ InFlightIsFindable'
    BY DEF CompleteMeansWhole, TerminalIsLast, RunsInv, InFlightIsFindable, TypeOK
  <2> QED  BY <2>2, <2>3, <2>4, <2>5
<1>7. ASSUME NEW c \in Clients, YieldReplay(c) PROVE IInv'
  <2> USE <1>7 DEF YieldReplay
  <2>1. got[c] \in Seq(Events) /\ replay[c] \in Seq(Events) /\ queue[c] \in Seq(Events)
    BY DEF TypeOK
  <2>2. Head(replay[c]) \in Events /\ Tail(replay[c]) \in Seq(Events)
    BY <2>1, HeadTailProperties
  <2>3. Append(got[c], Head(replay[c])) \o (Tail(replay[c]) \o queue[c])
          = got[c] \o (replay[c] \o queue[c])
    BY <2>1, FeedPop
  <2>4. Tail(replay[c]) \o queue[c] \in Seq(Events)  BY <2>1, <2>2, ConcatProperties
  <2>5. /\ replay' \in [Clients -> Seq(Events)] /\ queue' \in [Clients -> Seq(Events)]
        /\ replay'[c] \o queue'[c] = Tail(replay[c]) \o queue[c]
        /\ \A d \in Clients \ {c} : replay'[d] = replay[d] /\ queue'[d] = queue[d]
    BY <2>2 DEF TypeOK
  <2> QED  BY <2>1, <2>2, <2>3, <2>4, <2>5, SentPreserves
<1>8. ASSUME NEW c \in Clients, YieldLive(c) PROVE IInv'
  <2> USE <1>8 DEF YieldLive
  <2>1. got[c] \in Seq(Events) /\ queue[c] \in Seq(Events)  BY DEF TypeOK
  <2>2. Head(queue[c]) \in Events /\ Tail(queue[c]) \in Seq(Events)
    BY <2>1, HeadTailProperties
  <2>3. Append(got[c], Head(queue[c])) \o Tail(queue[c])
          = got[c] \o (replay[c] \o queue[c])
    BY <2>1, ConcatPop, ConcatEmptySeq
  <2>4. /\ replay' \in [Clients -> Seq(Events)] /\ queue' \in [Clients -> Seq(Events)]
        /\ \A d \in Clients \ {c} : replay'[d] = replay[d] /\ queue'[d] = queue[d]
        /\ replay'[c] = <<>> /\ queue'[c] = Tail(queue[c])
    BY <2>2 DEF TypeOK
  <2>5. replay'[c] \o queue'[c] = Tail(queue[c])  BY <2>2, <2>4, ConcatEmptySeq
  <2> QED  BY <2>1, <2>2, <2>3, <2>4, <2>5, SentPreserves
<1>9. ASSUME NEW c \in Clients, Disconnect(c) PROVE IInv'
  <2> USE <1>9 DEF Disconnect, runVars
  <2>1. reading[c] \in Runs  BY NamesAssumption DEF TypeOK, Bookkeeping
  <2>2. TypeOK'  BY <2>1, EmptySeq DEF TypeOK
  <2>3. Bookkeeping'  BY <2>1, NamesAssumption DEF Bookkeeping, TypeOK
  <2>4. /\ phase'[c] = "off" /\ UNCHANGED <<log, terminal, registered, runner>>
        /\ \A d \in Clients \ {c} : /\ phase'[d] = phase[d]
                                   /\ reading'[d] = reading[d]
                                   /\ replay'[d] = replay[d]
                                   /\ queue'[d] = queue[d]
                                   /\ got'[d] = got[d]
    BY DEF TypeOK
  <2>5. FeedIsComplete' /\ CompleteMeansWhole'
    BY ONLY <2>4, IInv DEF IInv, FeedIsComplete, CompleteMeansWhole
  <2>6. TerminalIsLast' /\ RunsInv' /\ InFlightIsFindable'
    BY ONLY <2>4, IInv DEF IInv, TerminalIsLast, RunsInv, InFlightIsFindable
  <2> QED  BY <2>2, <2>3, <2>5, <2>6
<1>10. ASSUME Tick PROVE IInv'
  <2> USE <1>10 DEF Tick, connVars
  <2>1. TypeOK'  BY BoundsAssumption DEF TypeOK
  <2>2. Bookkeeping' /\ FeedIsComplete' /\ CompleteMeansWhole' /\ TerminalIsLast'
        /\ RunsInv' /\ InFlightIsFindable'
    BY DEF Bookkeeping, FeedIsComplete, CompleteMeansWhole, TerminalIsLast,
           RunsInv, InFlightIsFindable
  <2> QED  BY <2>1, <2>2
<1>11. ASSUME UNCHANGED vars PROVE IInv'
  BY <1>11 DEF vars, TypeOK, Bookkeeping, RunsInv, FeedIsComplete,
               CompleteMeansWhole, TerminalIsLast, InFlightIsFindable
<1>12. ASSUME NEW r \in Runs, RunnerReturns(r) PROVE IInv'
  BY <1>2, <1>12 DEF RunnerReturns, Ends
<1>13. ASSUME NEW r \in Runs, RunnerRaises(r) PROVE IInv'
  BY <1>2, <1>13 DEF RunnerRaises, Ends
<1> QED
  BY <1>1, <1>3, <1>4, <1>5, <1>6, <1>7, <1>8, <1>9, <1>10, <1>11, <1>12, <1>13
     DEF Next, RunStep, ConnStep

\* Every reachable state satisfies the inductive invariant.
THEOREM StreamInvariant == Spec => []IInv
<1> QED  BY InitIInv, NextIInv, PTL DEF Spec

\* The variables of the registry keep their types.
THEOREM TypeCorrect == Spec => []TypeOK
<1>1. IInv => TypeOK  BY DEF IInv
<1> QED  BY <1>1, StreamInvariant, PTL

\* No connection loses, repeats or reorders an event (StreamRun.subscribe).
THEOREM FeedsAreComplete == Spec => []FeedIsComplete
<1>1. IInv => FeedIsComplete  BY DEF IInv
<1> QED  BY <1>1, StreamInvariant, PTL

\* A stream that ended by itself sent the whole log and its terminal event.
THEOREM EndedStreamsAreWhole == Spec => []CompleteMeansWhole
<1>1. IInv => CompleteMeansWhole  BY DEF IInv
<1> QED  BY <1>1, StreamInvariant, PTL

\* A log has at most one terminal event, its last (StreamRun.emit).
THEOREM LogsEndOnce == Spec => []TerminalIsLast
<1>1. IInv => TerminalIsLast  BY DEF IInv
<1> QED  BY <1>1, StreamInvariant, PTL

\* The lazy sweep never evicts a run whose runner is at work.
THEOREM RunningRunsAreFindable == Spec => []InFlightIsFindable
<1>1. IInv => InFlightIsFindable  BY DEF IInv
<1> QED  BY <1>1, StreamInvariant, PTL

-----------------------------------------------------------------------------
(* The registry implements StreamLog.                                      *)

LEMMA EndedIsTerminal ==
    ASSUME IInv, NEW r \in Runs
    PROVE  Readers!Ended(r) <=> terminal[r] # NoEvent
<1> USE DEF IInv
<1>1. log[r] \in Seq(Events)  BY DEF TypeOK
<1>2. terminal[r] # NoEvent => log[r] # <<>>  BY DEF RunsInv
<1>3. CASE log[r] = <<>>  BY <1>2, <1>3 DEF Readers!Ended
<1>4. CASE log[r] # <<>>
  <2>1. Len(log[r]) \in 1..Len(log[r])  BY <1>1, <1>4, EmptySeq
  <2> QED  BY <1>4, <2>1 DEF TerminalIsLast, Readers!Ended, Readers!Ends, Ends
<1> QED  BY <1>3, <1>4

\* A sweep retires only ended runs.
LEMMA SweepRetiresEnded ==
    ASSUME IInv, NEW runs, registered \subseteq runs, runs \subseteq Runs,
           registered' = runs \ Stale(runs)
    PROVE  Readers!RetiresEndedOnly
  BY EndedIsTerminal DEF Readers!RetiresEndedOnly, Stale, IInv, TypeOK

\* An event sent to a client is the next one of the log it reads.
LEMMA SentIsReceive ==
    ASSUME IInv, NEW c \in Clients, phase[c] = "replaying",
           NEW e, Sent(c, e), NEW feed \in Seq(Events),
           feed # <<>>, e = Head(feed),
           got[c] \o feed = log[reading[c]]
    PROVE  Readers!Receive(c)
<1> USE DEF IInv
<1>1. /\ reading[c] # NoRun
      /\ got[c] \in Seq(Events)
  BY DEF Bookkeeping, TypeOK
<1>2. /\ Len(got[c]) < Len(log[reading[c]])
      /\ log[reading[c]][Len(got[c]) + 1] = e
  BY <1>1, ConcatHead
<1> QED  BY <1>1, <1>2 DEF Sent, runVars, Readers!Receive, TypeOK

LEMMA StepSimulation == IInv /\ [Next]_vars => [Readers!LogNext]_(Readers!logVars)
<1> SUFFICES ASSUME IInv, [Next]_vars
             PROVE  [Readers!LogNext]_(Readers!logVars)
  OBVIOUS
<1> USE DEF IInv
<1>1. ASSUME NEW r \in Runs, NEW e \in Events, Emit(r, e),
             UNCHANGED <<registered, connVars>>
      PROVE  [Readers!LogNext]_(Readers!logVars)
  <2>1. CASE terminal[r] # NoEvent
    BY <1>1, <2>1 DEF Emit, connVars, Readers!logVars
  <2>2. CASE terminal[r] = NoEvent
    <3>1. Readers!Extend(r, e)
      BY <1>1, <2>2, EndedIsTerminal DEF Emit, connVars, Readers!Extend
    <3> QED
      BY <3>1 DEF Readers!LogNext, Readers!LogEvents, Readers!Ends, Events, Ends
  <2> QED  BY <2>1, <2>2
<1>2. ASSUME NEW r \in Runs, PayloadRaises(r)
      PROVE  [Readers!LogNext]_(Readers!logVars)
  BY <1>2 DEF PayloadRaises, runVars, connVars, Readers!logVars
<1>3. ASSUME NEW r \in Runs, NEW c \in Clients, Start(r, c)
      PROVE  [Readers!LogNext]_(Readers!logVars)
  <2>1. log[r] = <<>> /\ terminal[r] = NoEvent  BY <1>3 DEF Start, RunsInv
  <2>2. Readers!RetiresEndedOnly
    <3>1. /\ registered \subseteq registered \cup {r}
          /\ registered \cup {r} \subseteq Runs
          /\ registered' = (registered \cup {r}) \ Stale(registered \cup {r})
      BY <1>3 DEF Start, TypeOK
    <3> QED  BY <3>1, SweepRetiresEnded
  <2>3. /\ registered' \in SUBSET (registered \cup {r})
        /\ r \in registered'
    BY <1>3, <2>1 DEF Start, Stale, TypeOK
  <2>4. Readers!Attach(c, r)
    <3>1. reading[c] = NoRun /\ got[c] = <<>>  BY <1>3 DEF Start, Bookkeeping
    <3>2. got' = [got EXCEPT ![c] = <<>>]  BY <1>3, <3>1 DEF Start, TypeOK
    <3> QED  BY <1>3, <3>1, <3>2 DEF Start, Readers!Attach
  <2>5. Readers!Publish(c, r)
    BY <1>3, <2>1, <2>2, <2>3, <2>4 DEF Start, runVars, Readers!Publish
  <2> QED  BY <2>5 DEF Readers!LogNext
<1>4. ASSUME NEW r \in Runs, NEW c \in Clients, Reconnect(c, r)
      PROVE  [Readers!LogNext]_(Readers!logVars)
  <2>1. Readers!RetiresEndedOnly
    BY <1>4, SweepRetiresEnded DEF Reconnect, TypeOK
  <2>2. registered' \in SUBSET registered  BY <1>4 DEF Reconnect
  <2>3. CASE r \in registered'
    <3>1. reading[c] = NoRun /\ got[c] = <<>>  BY <1>4 DEF Reconnect, Bookkeeping
    <3>2. got' = [got EXCEPT ![c] = <<>>]  BY <1>4, <3>1 DEF Reconnect, TypeOK
    <3>3. Readers!Connect(c, r)
      BY <1>4, <2>1, <2>2, <2>3, <3>1, <3>2
         DEF Reconnect, runVars, Readers!Attach, Readers!Connect
    <3> QED  BY <3>3 DEF Readers!LogNext
  <2>4. CASE r \notin registered'
    <3>1. Readers!Retire
      BY <1>4, <2>1, <2>2, <2>4 DEF Reconnect, runVars, Readers!Retire
    <3> QED  BY <3>1 DEF Readers!LogNext
  <2> QED  BY <2>3, <2>4
<1>5. ASSUME NEW c \in Clients, Subscribe(c)
      PROVE  [Readers!LogNext]_(Readers!logVars)
  BY <1>5 DEF Subscribe, runVars, Readers!logVars
<1>6. ASSUME NEW c \in Clients, YieldReplay(c)
      PROVE  [Readers!LogNext]_(Readers!logVars)
  <2>1. replay[c] \in Seq(Events) /\ queue[c] \in Seq(Events)  BY DEF TypeOK
  <2>2. /\ replay[c] \o queue[c] \in Seq(Events)
        /\ replay[c] \o queue[c] # <<>>
    BY <1>6, <2>1, ConcatProperties, ConcatEqualIffEmpty DEF YieldReplay
  <2>3. Head(replay[c] \o queue[c]) = Head(replay[c])
    BY <1>6, <2>1, ConcatFirst DEF YieldReplay
  <2>4. Readers!Receive(c)
    BY <1>6, <2>2, <2>3, SentIsReceive DEF YieldReplay, FeedIsComplete
  <2> QED  BY <2>4 DEF Readers!LogNext
<1>7. ASSUME NEW c \in Clients, YieldLive(c)
      PROVE  [Readers!LogNext]_(Readers!logVars)
  <2>1. queue[c] \in Seq(Events) /\ got[c] \in Seq(Events)  BY DEF TypeOK
  <2>2. replay[c] \o queue[c] = queue[c]
    BY <1>7, <2>1, ConcatEmptySeq DEF YieldLive
  <2>3. Readers!Receive(c)
    BY <1>7, <2>1, <2>2, SentIsReceive DEF YieldLive, FeedIsComplete
  <2> QED  BY <2>3 DEF Readers!LogNext
<1>8. ASSUME NEW c \in Clients, Disconnect(c)
      PROVE  [Readers!LogNext]_(Readers!logVars)
  <2>1. reading[c] # NoRun  BY <1>8 DEF Disconnect, Bookkeeping
  <2>2. Readers!Leave(c)
    BY <1>8, <2>1 DEF Disconnect, runVars, Readers!Leave
  <2> QED  BY <2>2 DEF Readers!LogNext
<1>9. ASSUME Tick PROVE [Readers!LogNext]_(Readers!logVars)
  BY <1>9 DEF Tick, connVars, Readers!logVars
<1>10. ASSUME UNCHANGED vars PROVE [Readers!LogNext]_(Readers!logVars)
  BY <1>10 DEF vars, Readers!logVars
<1>11. ASSUME NEW r \in Runs, RunStep(r)
       PROVE  [Readers!LogNext]_(Readers!logVars)
  <2>1. "done" \in Events /\ "error" \in Events /\ Texts \subseteq Events
    BY DEF Events, Ends
  <2> QED
    BY <1>1, <1>2, <1>11, <2>1 DEF RunStep, Progress, RunnerReturns, RunnerRaises
<1> QED
  BY <1>3, <1>4, <1>5, <1>6, <1>7, <1>8, <1>9, <1>10, <1>11
     DEF Next, ConnStep

\* For any number of runs, connections and events, what the clients of the
\* registry see is an append-only log per run, read from its first event.
THEOREM RegistryImplementsLog == Spec => StreamLogSpec
<1>1. Init => Readers!LogInit  BY DEF Init, Readers!LogInit
<1> QED
  BY <1>1, StepSimulation, StreamInvariant, PTL
     DEF Spec, StreamLogSpec, Readers!LogSpec
=============================================================================

--------------------------- MODULE ChatTurnProofs ---------------------------
(***************************************************************************)
(* Proofs about ChatTurn, for any turns and bounds: what the tools did,    *)
(* the reply, the row of the run and what the client is told agree; the    *)
(* user is greeted once; the process's request context unwinds.  The       *)
(* inductive invariant says of each turn what is true while it is at each  *)
(* phase, of two greetings that one has come to nothing, and of the turns  *)
(* with the agent in which order they replaced the context.                *)
(***************************************************************************)
EXTENDS ChatTurn, SequenceTheorems, FiniteSetTheorems, TLAPS

Shown(t) ==
    /\ pc[t] \in {"idle", "sent"} => effects[t] = <<>> /\ queued[t] = {}
    /\ queued[t] \subseteq Effects(t)
    /\ (pc[t] \in {"model", "replied"} /\ t \notin corrected)
          => queued[t] = Effects(t)
    /\ Stored(t) => pc[t] = "ended"
    /\ ~Stored(t) => cards[t] = {}
    /\ cards[t] \subseteq Effects(t)
    /\ (Stored(t) /\ t \notin corrected) => cards[t] = Effects(t)

Backed(t) ==
    /\ \A n \in Effects(t) : effects[t][n].kind = "document"
                               => effects[t][n].real
    /\ reply[t] # "none" => pc[t] \in {"replied", "ended", "lost"}
    /\ (pc[t] = "replied" /\ reply[t] = "claim") => Card(t, "document")
    /\ (Stored(t) /\ reply[t] = "claim")
          => \E n \in cards[t] : effects[t][n].kind = "document"
    /\ (reply[t] = "denial" /\ t \notin corrected)
          => \A n \in Effects(t) : effects[t][n].kind # "document"

Told(t) ==
    /\ pc[t] = "idle" => reader[t] = "none"
    /\ pc[t] = "sent" => reader[t] \in {"none", "waiting"}
    /\ pc[t] \in {"idle", "sent"} => run[t] = "none"
    /\ pc[t] \in {"idle", "sent", "model"} => reply[t] = "none"
    /\ pc[t] = "model" => run[t] = "running"
    /\ pc[t] = "replied" => reply[t] # "none"
    /\ pc[t] \in {"model", "replied"} => t \in active
    /\ reply[t] = "none" => ~Stored(t) /\ run[t] # "completed"
    /\ (pc[t] = "ended" /\ reply[t] # "none")
          => Stored(t) \/ <<t, "reply">> \in unsaved
    /\ run[t] = "errored" => reply[t] = "none"
    /\ run[t] = "running" => \/ pc[t] \in {"model", "lost"}
                             \/ <<t, "run">> \in unsaved
    /\ reader[t] = "done" => pc[t] = "ended" /\ reply[t] # "none"
    /\ reader[t] = "error" => reply[t] = "none" /\ pc[t] = "ended"
    /\ reader[t] = "idle" => pc[t] \notin Live

Good(t) == Shown(t) /\ Backed(t) /\ Told(t)
Inv == TypeOK /\ \A t \in Turns : Good(t)

-----------------------------------------------------------------------------
(* A step of one turn leaves the others as they are.                       *)

Kept(u) ==
    /\ pc'[u] = pc[u] /\ effects'[u] = effects[u] /\ queued'[u] = queued[u]
    /\ cards'[u] = cards[u] /\ reply'[u] = reply[u] /\ run'[u] = run[u]
    /\ reader'[u] = reader[u]
    /\ Stored(u)' <=> Stored(u)
    /\ u \in active' <=> u \in active
    /\ u \in corrected' <=> u \in corrected
    /\ <<u, "run">> \in unsaved' <=> <<u, "run">> \in unsaved
    /\ <<u, "reply">> \in unsaved' <=> <<u, "reply">> \in unsaved
Others(t) == \A u \in Turns \ {t} : Kept(u)

LEMMA KeptIsGood ==
    ASSUME NEW u \in Turns, Good(u), Kept(u)
    PROVE  Good(u)'
<1>1. Shown(u)'  BY DEF Good, Kept, Shown, Effects
<1>2. Backed(u)'  BY DEF Good, Kept, Backed, Effects, Card
<1>3. Told(u)'  BY DEF Good, Kept, Told, Live
<1> QED  BY <1>1, <1>2, <1>3 DEF Good

LEMMA OneTurn ==
    ASSUME Inv, NEW t \in Turns, Others(t), Good(t)', TypeOK'
    PROVE  Inv'
<1> SUFFICES ASSUME NEW u \in Turns PROVE Good(u)'  BY DEF Inv
<1>1. CASE u = t  BY <1>1
<1>2. CASE u # t  BY <1>2, KeptIsGood DEF Inv, Others
<1> QED  BY <1>1, <1>2

LEMMA DeclineGood ==
    ASSUME Inv, NEW t \in Turns, Decline(t)
    PROVE  Others(t) /\ Good(t)'
<1> USE DEF Decline, Inv, TypeOK, request, loop, agent, context
<1>1. Others(t)  BY DEF Others, Kept, Stored
<1>2. Shown(t)'  BY DEF Good, Shown, Effects, Stored, Live
<1>3. Backed(t)'  BY DEF Good, Backed, Shown, Effects, Stored, Card, Live
<1>4. Told(t)'  BY DEF Good, Told, Stored, Live
<1> QED  BY <1>1, <1>2, <1>3, <1>4 DEF Good

LEMMA SendGood ==
    ASSUME Inv, NEW t \in Turns,
           NEW greets \in BOOLEAN, NEW quotes \in BOOLEAN,
           Send(t, greets, quotes)
    PROVE  Others(t) /\ Good(t)'
<1> USE DEF Send, Inv, TypeOK, request, loop, agent, context
<1>1. Others(t)  BY DEF Others, Kept, Stored
<1>2. Shown(t)'  BY DEF Good, Shown, Effects, Stored, Live
<1>3. Backed(t)'  BY DEF Good, Backed, Shown, Effects, Stored, Card, Live
<1>4. Told(t)'  BY DEF Good, Told, Stored, Live
<1> QED  BY <1>1, <1>2, <1>3, <1>4 DEF Good

LEMMA BeginGood ==
    ASSUME Inv, NEW t \in Turns, NEW written \in BOOLEAN, Begin(t, written)
    PROVE  Others(t) /\ Good(t)'
<1> USE DEF Begin, Inv, TypeOK, request, loop, agent, context
<1>1. Others(t)  BY DEF Others, Kept, Stored
<1>2. Shown(t)'
  <2>1. Stored(t)' <=> Stored(t)  BY DEF Stored
  <2>2. effects'[t] = <<>> /\ queued'[t] = {} /\ pc'[t] = "model"
    BY DEF Good, Shown
  <2>3. Effects(t)' = {}  BY <2>2 DEF Effects
  <2>4. /\ pc[t] = "sent" /\ cards' = cards /\ corrected' = corrected
    OBVIOUS
  <2> QED  BY <2>1, <2>2, <2>3, <2>4 DEF Good, Shown
<1>3. Backed(t)'  BY DEF Good, Backed, Shown, Effects, Stored, Card, Live
<1>4. Told(t)'  BY DEF Good, Told, Stored, Live
<1> QED  BY <1>1, <1>2, <1>3, <1>4 DEF Good

LEMMA BeginFailsGood ==
    ASSUME Inv, NEW t \in Turns, BeginFails(t)
    PROVE  Others(t) /\ Good(t)'
<1> USE DEF BeginFails, Inv, TypeOK, request, loop, agent, context
<1>1. Others(t)  BY DEF Others, Kept, Stored
<1>2. Shown(t)'  BY DEF Good, Shown, Effects, Stored, Live
<1>3. Backed(t)'  BY DEF Good, Backed, Shown, Effects, Stored, Card, Live
<1>4. Told(t)'  BY DEF Good, Told, Stored, Live
<1> QED  BY <1>1, <1>2, <1>3, <1>4 DEF Good

LEMMA ToolDoesNothingGood ==
    ASSUME Inv, NEW t \in Turns, ToolDoesNothing(t)
    PROVE  Others(t) /\ Good(t)'
<1> USE DEF ToolDoesNothing, Inv, TypeOK, request, loop, agent, context
<1>1. Others(t)  BY DEF Others, Kept, Stored
<1>2. Shown(t)'  BY DEF Good, Shown, Effects, Stored, Live
<1>3. Backed(t)'  BY DEF Good, Backed, Shown, Effects, Stored, Card, Live
<1>4. Told(t)'  BY DEF Good, Told, Stored, Live
<1> QED  BY <1>1, <1>2, <1>3, <1>4 DEF Good

LEMMA ToolActsGood ==
    ASSUME Inv, NEW t \in Turns, NEW kind \in Kinds,
           NEW committed \in BOOLEAN, ToolActs(t, kind, committed)
    PROVE  Others(t) /\ Good(t)'
<1> USE DEF ToolActs, Inv, TypeOK, request, loop, agent, context
<1>1. Others(t)  BY DEF Others, Kept, Stored
<1>2. Shown(t)'  BY DEF Good, Shown, Effects, Stored, Live
<1>3. Backed(t)'
  <2> DEFINE x == [kind |-> kind, real |-> committed]
  <2>1. /\ x \in [kind : Kinds, real : BOOLEAN]
        /\ x.kind = "document" => x.real
    BY DEF Fault, Kinds
  <2>2. effects'[t] = Append(effects[t], x)  OBVIOUS
  <2> HIDE DEF x
  <2>3. /\ Effects(t)' = Effects(t) \cup {Len(effects[t]) + 1}
        /\ \A n \in Effects(t) : effects'[t][n] = effects[t][n]
        /\ effects'[t][Len(effects[t]) + 1] = x
    BY <2>1, <2>2, AppendProperties DEF Effects
  <2>4. \A n \in Effects(t)' : effects'[t][n].kind = "document"
                                 => effects'[t][n].real
    BY <2>1, <2>3 DEF Good, Backed
  <2>5. /\ pc'[t] = "model" /\ reply'[t] = reply[t] /\ pc[t] = "model"
        /\ Stored(t)' <=> Stored(t)
    BY DEF Stored
  <2> QED  BY <2>4, <2>5 DEF Good, Backed, Shown
<1>4. Told(t)'  BY DEF Good, Told, Stored, Live
<1> QED  BY <1>1, <1>2, <1>3, <1>4 DEF Good

LEMMA AgentFailsGood ==
    ASSUME Inv, NEW t \in Turns, AgentFails(t)
    PROVE  Others(t) /\ Good(t)'
<1> USE DEF AgentFails, LeaveAgent, Inv, TypeOK, request, loop, agent, context
<1>1. Others(t)  BY DEF Others, Kept, Stored
<1>2. Shown(t)'  BY DEF Good, Shown, Effects, Stored, Live
<1>3. Backed(t)'  BY DEF Good, Backed, Shown, Effects, Stored, Card, Live
<1>4. Told(t)'
  <2>1. run'[t] = "errored" \/ (run'[t] = run[t] /\ <<t, "run">> \in unsaved')
    OBVIOUS
  <2>2. Stored(t)' <=> Stored(t)  BY DEF Stored
  <2>3. reply'[t] = reply[t]  OBVIOUS
  <2>4. /\ pc[t] = "model" /\ pc'[t] = "ended"
        /\ reader'[t] = reader[t]
        /\ active' = active \ {t}
    OBVIOUS
  <2> QED  BY <2>1, <2>2, <2>3, <2>4 DEF Good, Told, Live
<1> QED  BY <1>1, <1>2, <1>3, <1>4 DEF Good

LEMMA CorrectGood ==
    ASSUME Inv, NEW t \in Turns, NEW text \in Texts(t), Correct(t, text)
    PROVE  Others(t) /\ Good(t)'
<1> USE DEF Correct, Inv, TypeOK, request, loop, agent, context
<1>1. Others(t)  BY DEF Others, Kept, Stored
<1>2. Shown(t)'  BY DEF Good, Shown, Effects, Stored, Live
<1>3. Backed(t)'  BY DEF Good, Backed, Shown, Effects, Stored, Card, Live
<1>4. Told(t)'  BY DEF Good, Told, Stored, Live
<1> QED  BY <1>1, <1>2, <1>3, <1>4 DEF Good

LEMMA CompleteGood ==
    ASSUME Inv, NEW t \in Turns, NEW text \in Texts(t), Complete(t, text)
    PROVE  Others(t) /\ Good(t)'
<1> USE DEF Complete, LeaveAgent, Inv, TypeOK, request, loop, agent, context
<1>1. Others(t)  BY DEF Others, Kept, Stored
<1>2. Shown(t)'  BY DEF Good, Shown, Effects, Stored, Live
<1>3. Backed(t)'
  BY DEF Good, Backed, Shown, Effects, Stored, Card, FinalReply, Unbacked,
       Live, Texts
<1>4. Told(t)'
  <2>1. run'[t] = "completed" \/ (run'[t] = run[t] /\ <<t, "run">> \in unsaved')
    OBVIOUS
  <2>2. Stored(t)' <=> Stored(t)  BY DEF Stored
  <2>3. reply'[t] # "none"  BY DEF FinalReply, Texts
  <2>4. /\ pc[t] = "model" /\ pc'[t] = "replied"
        /\ reader'[t] = reader[t]
        /\ active' = active
    OBVIOUS
  <2> QED  BY <2>1, <2>2, <2>3, <2>4 DEF Good, Told, Live
<1> QED  BY <1>1, <1>2, <1>3, <1>4 DEF Good

LEMMA PersistGood ==
    ASSUME Inv, NEW t \in Turns, NEW written \in BOOLEAN, Persist(t, written)
    PROVE  Others(t) /\ Good(t)'
<1> USE DEF Persist, Inv, TypeOK, request, loop, agent, context
<1>1. Others(t)  BY DEF Others, Kept, Stored
<1>2. Shown(t)'  BY DEF Good, Shown, Effects, Stored, Flushed, Live
<1>3. Backed(t)'
  BY DEF Good, Backed, Shown, Effects, Stored, Card, Flushed, Live
<1>4. Told(t)'  BY DEF Good, Told, Stored, Live
<1> QED  BY <1>1, <1>2, <1>3, <1>4 DEF Good

LEMMA TellGood ==
    ASSUME Inv, NEW t \in Turns, Tell(t)
    PROVE  Others(t) /\ Good(t)'
<1> USE DEF Tell, Inv, TypeOK, request, loop, agent, context
<1>1. Others(t)  BY DEF Others, Kept, Stored
<1>2. Shown(t)'  BY DEF Good, Shown, Effects, Stored, Live
<1>3. Backed(t)'  BY DEF Good, Backed, Shown, Effects, Stored, Card, Live
<1>4. Told(t)'  BY DEF Good, Told, Stored, Live, Listening, Verdict, Over
<1> QED  BY <1>1, <1>2, <1>3, <1>4 DEF Good

LEMMA DepartGood ==
    ASSUME Inv, NEW t \in Turns, Depart(t)
    PROVE  Others(t) /\ Good(t)'
<1> USE DEF Depart, Inv, TypeOK, request, loop, agent, context
<1>1. Others(t)  BY DEF Others, Kept, Stored
<1>2. Shown(t)'  BY DEF Good, Shown, Effects, Stored, Live
<1>3. Backed(t)'  BY DEF Good, Backed, Shown, Effects, Stored, Card, Live
<1>4. Told(t)'
  <2>1. /\ reader'[t] \in {"none", "left"}
        /\ reader'[t] = "left" => pc[t] # "sent"
    BY DEF Left
  <2>2. pc'[t] = IF pc[t] = "sent" THEN "ended" ELSE pc[t]  OBVIOUS
  <2>3. /\ UNCHANGED <<run, reply, active, unsaved>>
        /\ Stored(t)' <=> Stored(t)
    BY DEF Stored
  <2> QED  BY <2>1, <2>2, <2>3 DEF Good, Told, Live, Listening
<1> QED  BY <1>1, <1>2, <1>3, <1>4 DEF Good

LEMMA ReconnectGood ==
    ASSUME Inv, NEW t \in Turns, Reconnect(t)
    PROVE  Others(t) /\ Good(t)'
<1> USE DEF Reconnect, Inv, TypeOK, request, loop, agent, context
<1>1. Others(t)  BY DEF Others, Kept, Stored
<1>2. Shown(t)'  BY DEF Good, Shown, Effects, Stored, Live
<1>3. Backed(t)'  BY DEF Good, Backed, Shown, Effects, Stored, Card, Live
<1>4. Told(t)'  BY DEF Good, Told, Stored, Live
<1> QED  BY <1>1, <1>2, <1>3, <1>4 DEF Good

LEMMA CrashGood ==
    ASSUME Inv, Crash
    PROVE  \A t \in Turns : Good(t)'
<1> SUFFICES ASSUME NEW t \in Turns PROVE Good(t)'  OBVIOUS
<1> USE DEF Crash, Inv, TypeOK
<1>0. /\ pc'[t] = IF pc[t] \in Live THEN "lost" ELSE pc[t]
      /\ reader'[t] = IF reader[t] \in Listening THEN Left(t) ELSE reader[t]
      /\ queued'[t] = {} /\ effects' = effects /\ cards' = cards
      /\ reply' = reply /\ run' = run /\ stored' = stored
      /\ corrected' = corrected /\ unsaved' = unsaved
  OBVIOUS
<1>1. Stored(t)' <=> Stored(t)  BY <1>0 DEF Stored
<1>2. Shown(t)'  BY <1>0, <1>1 DEF Good, Shown, Effects, Live
<1>3. Backed(t)'  BY <1>0, <1>1 DEF Good, Backed, Shown, Effects, Live
<1>4. Told(t)'  BY <1>0, <1>1 DEF Good, Told, Live, Listening, Left
<1> QED  BY <1>2, <1>3, <1>4 DEF Good

-----------------------------------------------------------------------------
(* The type.                                                               *)

LEMMA TypeInit == Init => TypeOK
<1> SUFFICES ASSUME Init PROVE TypeOK  OBVIOUS
<1>1. effects \in [Turns -> Seq([kind : Kinds, real : BOOLEAN])]
  BY DEF Init
<1>2. calls \in [Turns -> 0..MaxCalls] /\ faults \in 0..MaxFaults
  BY TurnAssumption DEF Init
<1> QED  BY <1>1, <1>2 DEF Init, TypeOK, Phases, Replies

LEMMA FaultType ==
    ASSUME TypeOK, NEW b \in BOOLEAN, Fault(b), b => MayFail
    PROVE  faults' \in 0..MaxFaults
  BY TurnAssumption DEF TypeOK, Fault, MayFail

LEMMA LeaveAgentType ==
    ASSUME TypeOK, NEW t \in Turns, NEW status \in {"errored", "completed"},
           LeaveAgent(t, status)
    PROVE  /\ stage' \in [Turns -> {"first", "tenant", "document"}]
           /\ calls' \in [Turns -> 0..MaxCalls]
           /\ run' \in [Turns -> {"none", "running", "completed", "errored"}]
           /\ fallback' \in Turns \cup {None}
           /\ token' \in [Turns -> Turns \cup {None}]
           /\ faults' \in 0..MaxFaults
           /\ unsaved' \subseteq Turns \X {"run", "reply"}
           /\ window' \subseteq Turns
           /\ tangled' \in BOOLEAN
<1>1. PICK written \in {TRUE} \cup (IF MayFail THEN {FALSE} ELSE {}) :
        /\ Fault(~written)
        /\ run' = [run EXCEPT ![t] = IF written THEN status ELSE @]
        /\ unsaved' = IF written THEN unsaved ELSE unsaved \cup {<<t, "run">>}
  BY DEF LeaveAgent
<1>2. faults' \in 0..MaxFaults  BY <1>1, FaultType
<1>3. 0 \in 0..MaxCalls  BY TurnAssumption
<1> QED  BY <1>1, <1>2, <1>3 DEF LeaveAgent, TypeOK, Restored

LEMMA DeclineType ==
    ASSUME TypeOK, NEW t \in Turns, Decline(t)
    PROVE  TypeOK'
  BY TurnAssumption DEF Decline, TypeOK, request, loop, agent, context,
       Phases, Kinds, Replies, InBudget, NextStage

LEMMA SendType ==
    ASSUME TypeOK, NEW t \in Turns,
           NEW greets \in BOOLEAN, NEW quotes \in BOOLEAN,
           Send(t, greets, quotes)
    PROVE  TypeOK'
  BY TurnAssumption DEF Send, TypeOK, request, loop, agent, context, Phases,
       Kinds, Replies, InBudget, NextStage

LEMMA BeginType ==
    ASSUME TypeOK, NEW t \in Turns, NEW written \in BOOLEAN, Begin(t, written)
    PROVE  TypeOK'
<1>1. faults' \in 0..MaxFaults  BY FaultType DEF Begin
<1> QED
  BY <1>1 DEF Begin, TypeOK, request, loop, agent, context, Phases, Kinds,
       Replies, InBudget

LEMMA BeginFailsType ==
    ASSUME TypeOK, NEW t \in Turns, BeginFails(t)
    PROVE  TypeOK'
<1>1. faults' \in 0..MaxFaults  BY FaultType DEF BeginFails
<1> QED
  BY <1>1 DEF BeginFails, TypeOK, request, loop, agent, context, Phases,
       Kinds, Replies, InBudget

LEMMA ToolDoesNothingType ==
    ASSUME TypeOK, NEW t \in Turns, ToolDoesNothing(t)
    PROVE  TypeOK'
  BY TurnAssumption DEF ToolDoesNothing, TypeOK, request, loop, agent,
       context, Phases, Kinds, Replies, InBudget, NextStage

LEMMA ToolActsType ==
    ASSUME TypeOK, NEW t \in Turns, NEW kind \in Kinds,
           NEW committed \in BOOLEAN, ToolActs(t, kind, committed)
    PROVE  TypeOK'
<1>1. faults' \in 0..MaxFaults  BY FaultType DEF ToolActs
<1>2. [kind |-> kind, real |-> committed] \in [kind : Kinds, real : BOOLEAN]
  OBVIOUS
<1>3. effects' \in [Turns -> Seq([kind : Kinds, real : BOOLEAN])]
  BY <1>2, AppendProperties DEF ToolActs, TypeOK
<1>4. Len(effects[t]) + 1 \in Nat  BY LenProperties DEF TypeOK
<1>5. queued' \in [Turns -> SUBSET Nat]  BY <1>4 DEF ToolActs, TypeOK
<1>6. calls' \in [Turns -> 0..MaxCalls]
  BY TurnAssumption DEF ToolActs, TypeOK, InBudget
<1> QED  BY <1>1, <1>3, <1>5, <1>6 DEF ToolActs, TypeOK, request, loop, context

LEMMA AgentFailsType ==
    ASSUME TypeOK, NEW t \in Turns, AgentFails(t)
    PROVE  TypeOK'
  BY LeaveAgentType DEF AgentFails, TypeOK, request, loop, agent, context,
       Phases, Kinds, Replies

LEMMA CorrectType ==
    ASSUME TypeOK, NEW t \in Turns, NEW text \in Texts(t), Correct(t, text)
    PROVE  TypeOK'
  BY TurnAssumption DEF Correct, TypeOK, request, loop, agent, context,
       Phases, Kinds, Replies, InBudget, NextStage

LEMMA CompleteType ==
    ASSUME TypeOK, NEW t \in Turns, NEW text \in Texts(t), Complete(t, text)
    PROVE  TypeOK'
  BY LeaveAgentType DEF Complete, TypeOK, request, loop, agent, context,
       Phases, Kinds, Replies, FinalReply, Texts

LEMMA PersistType ==
    ASSUME TypeOK, NEW t \in Turns, NEW written \in BOOLEAN, Persist(t, written)
    PROVE  TypeOK'
<1>1. faults' \in 0..MaxFaults  BY FaultType DEF Persist
<1> QED
  BY <1>1 DEF Persist, TypeOK, request, loop, agent, context, Phases, Kinds,
       Replies, InBudget, Flushed

LEMMA TellType ==
    ASSUME TypeOK, NEW t \in Turns, Tell(t)
    PROVE  TypeOK'
  BY TurnAssumption DEF Tell, TypeOK, request, loop, agent, context, Phases,
       Kinds, Replies, InBudget, NextStage, Verdict

LEMMA DepartType ==
    ASSUME TypeOK, NEW t \in Turns, Depart(t)
    PROVE  TypeOK'
<1>1. faults' \in 0..MaxFaults  BY FaultType DEF Depart
<1> QED
  BY <1>1 DEF Depart, TypeOK, request, loop, agent, context, Phases, Kinds,
       Replies, InBudget, Left

LEMMA ReconnectType ==
    ASSUME TypeOK, NEW t \in Turns, Reconnect(t)
    PROVE  TypeOK'
  BY TurnAssumption DEF Reconnect, TypeOK, request, loop, agent, context,
       Phases, Kinds, Replies, InBudget, NextStage

-----------------------------------------------------------------------------
(* The invariant, and what follows from it.                                *)

LEMMA CrashType == ASSUME TypeOK, Crash PROVE TypeOK'
<1>1. faults' \in 0..MaxFaults  BY FaultType DEF Crash
<1>2. 0 \in 0..MaxCalls  BY TurnAssumption
<1> QED
  BY <1>1, <1>2 DEF Crash, TypeOK, Left, Phases, Replies

LEMMA Start == Init => Inv
<1> SUFFICES ASSUME Init PROVE Inv  OBVIOUS
<1>1. TypeOK  BY TypeInit
<1>2. ASSUME NEW t \in Turns PROVE Good(t)
  BY DEF Init, Good, Shown, Backed, Told, Effects, Stored, Card
<1> QED  BY <1>1, <1>2 DEF Inv

LEMMA Step == ASSUME Inv, Next PROVE Inv'
<1>0. TypeOK  BY DEF Inv
<1>1. CASE Crash  BY <1>0, <1>1, CrashGood, CrashType DEF Inv
<1>2. CASE ~Crash
  <2>1. PICK t \in Turns :
          \/ Decline(t)
          \/ \E greets, quotes \in BOOLEAN : Send(t, greets, quotes)
          \/ \E written \in BOOLEAN : Begin(t, written) \/ Persist(t, written)
          \/ BeginFails(t)
          \/ ModelAnswers(t)
          \/ Tell(t) \/ Depart(t) \/ Reconnect(t)
    BY <1>2 DEF Next
  <2> SUFFICES Others(t) /\ Good(t)' /\ TypeOK'  BY OneTurn
  <2>2. CASE Decline(t)
    BY <1>0, <2>2, DeclineGood, DeclineType
  <2>3. CASE \E greets, quotes \in BOOLEAN : Send(t, greets, quotes)
    BY <1>0, <2>3, SendGood, SendType
  <2>4. CASE \E written \in BOOLEAN : Begin(t, written)
    BY <1>0, <2>4, BeginGood, BeginType
  <2>5. CASE BeginFails(t)
    BY <1>0, <2>5, BeginFailsGood, BeginFailsType
  <2>6. CASE \E written \in BOOLEAN : Persist(t, written)
    BY <1>0, <2>6, PersistGood, PersistType
  <2>7. CASE Tell(t)
    BY <1>0, <2>7, TellGood, TellType
  <2>8. CASE Depart(t)
    BY <1>0, <2>8, DepartGood, DepartType
  <2>9. CASE Reconnect(t)
    BY <1>0, <2>9, ReconnectGood, ReconnectType
  <2>10. CASE ModelAnswers(t)
    <3>1. CASE ToolDoesNothing(t)
      BY <1>0, <3>1, ToolDoesNothingGood, ToolDoesNothingType
    <3>2. CASE \E kind \in Kinds, committed \in BOOLEAN :
                 ToolActs(t, kind, committed)
      BY <1>0, <3>2, ToolActsGood, ToolActsType
    <3>3. CASE AgentFails(t)
      BY <1>0, <3>3, AgentFailsGood, AgentFailsType
    <3>4. CASE \E text \in Texts(t) : Correct(t, text)
      BY <1>0, <3>4, CorrectGood, CorrectType
    <3>5. CASE \E text \in Texts(t) : Complete(t, text)
      BY <1>0, <3>5, CompleteGood, CompleteType
    <3> QED  BY <2>10, <3>1, <3>2, <3>3, <3>4, <3>5 DEF ModelAnswers
  <2> QED  BY <2>1, <2>2, <2>3, <2>4, <2>5, <2>6, <2>7, <2>8, <2>9, <2>10
<1> QED  BY <1>1, <1>2

LEMMA Stutter == ASSUME Inv, UNCHANGED vars PROVE Inv'
<1>1. TypeOK'  BY DEF vars, Inv, TypeOK, request, loop, agent, context
<1>2. ASSUME NEW u \in Turns PROVE Good(u)'
  <2>1. Kept(u)  BY DEF vars, Kept, Stored
  <2> QED  BY <2>1, KeptIsGood DEF Inv
<1> QED  BY <1>1, <1>2 DEF Inv

LEMMA Invariance == Spec => []Inv
<1>1. Inv /\ [Next]_vars => Inv'  BY Step, Stutter
<1> QED  BY Start, <1>1, PTL DEF Spec

\* The state is always of its type.
THEOREM TypeCorrect == Spec => []TypeOK
<1>1. Inv => TypeOK  BY DEF Inv
<1> QED  BY <1>1, Invariance, PTL

\* What the tools of a turn did is shown when its reply is, for any turns, and
\* whatever fails: effects are hidden only by a corrective turn.
THEOREM CardsAlwaysMatch == Spec => []CardsMatchEffects
<1>1. Inv => CardsMatchEffects
  BY DEF Inv, Good, Shown, CardsMatchEffects
<1> QED  BY <1>1, Invariance, PTL

\* No written reply claims a document the turn did not make.
THEOREM ClaimsAlwaysBacked == Spec => []ClaimsAreBacked
<1>1. ASSUME Inv, NEW t \in Turns, Stored(t), reply[t] = "claim"
      PROVE  \E n \in cards[t] :
               effects[t][n] = [kind |-> "document", real |-> TRUE]
  <2>1. PICK n \in cards[t] : effects[t][n].kind = "document"
    BY <1>1 DEF Inv, Good, Backed
  <2>2. n \in Effects(t)  BY <1>1, <2>1 DEF Inv, Good, Shown
  <2>3. effects[t][n] \in [kind : Kinds, real : BOOLEAN]
    <3>1. effects[t] \in Seq([kind : Kinds, real : BOOLEAN])
      BY <1>1 DEF Inv, TypeOK
    <3>2. n \in 1..Len(effects[t])  BY <2>2, <3>1, LenProperties DEF Effects
    <3> QED  BY <3>1, <3>2, ElementOfSeq
  <2>4. effects[t][n].real  BY <1>1, <2>1, <2>2 DEF Inv, Good, Backed
  <2> QED  BY <2>1, <2>3, <2>4
<1>2. Inv => ClaimsAreBacked
  BY <1>1 DEF Inv, Good, Backed, ClaimsAreBacked
<1> QED  BY <1>2, Invariance, PTL

\* The run, the conversation and what the client is told agree, for any turns
\* that overlap, fail, lose their client or their process.
THEOREM OutcomesAlwaysAgree == Spec => []OutcomesAgree
<1>1. Inv => OutcomesAgree
  BY DEF Inv, Good, Shown, Told, OutcomesAgree
<1> QED  BY <1>1, Invariance, PTL

-----------------------------------------------------------------------------
(* Greetings.                                                              *)

\* A turn that is over and has left no reply.
Dead(t) == pc[t] \in {"ended", "lost"} /\ ~Stored(t)

\* Of two greetings that have not overlapped one has come to nothing.
Greetings ==
    /\ IsFiniteSet(greeting) /\ greeting \subseteq Turns
    /\ \A t \in greeting : pc[t] # "idle"
    /\ ~crossed => \A t, u \in greeting : t # u => Dead(t) \/ Dead(u)

LEMMA GreetingsKept ==
    ASSUME Greetings, greeting' = greeting, crossed' = crossed,
           \A u \in Turns : /\ pc[u] # "idle" => pc'[u] # "idle"
                            /\ Dead(u) => Dead(u)'
    PROVE  Greetings'
  BY DEF Greetings

LEMMA SendGreets ==
    ASSUME TypeOK, Greetings, NEW t \in Turns,
           NEW greets \in BOOLEAN, NEW quotes \in BOOLEAN, Send(t, greets, quotes)
    PROVE  Greetings'
<1>1. /\ pc[t] = "idle" /\ pc \in [Turns -> Phases]
      /\ pc' = [pc EXCEPT ![t] = "sent"] /\ stored' = stored
      /\ greeting' = IF greets THEN greeting \cup {t} ELSE greeting
      /\ crossed' = (crossed \/ (greets /\ \E u \in greeting : pc[u] \in Live))
      /\ crossed \in BOOLEAN /\ (greets => stored = {})
  BY DEF Send, Greeted, TypeOK
<1>2. \A u \in Turns : Dead(u) => Dead(u)'
  BY <1>1 DEF Dead, Stored
<1>3. \A u \in Turns : pc'[u] = "idle" => pc[u] = "idle" /\ u # t
  BY <1>1
<1>4. CASE ~greets
  BY <1>1, <1>2, <1>3, <1>4, GreetingsKept
<1>5. CASE greets
  <2>1. IsFiniteSet(greeting') /\ greeting' \subseteq Turns
    BY <1>1, <1>5, FS_AddElement DEF Greetings
  <2>2. \A u \in greeting' : pc'[u] # "idle"
    BY <1>1, <1>3, <1>5 DEF Greetings
  <2>3. ASSUME ~crossed', NEW u \in greeting PROVE Dead(u)'
    <3>1. pc[u] \notin Live /\ pc[u] # "idle" /\ u \in Turns /\ u # t
      BY <1>1, <1>5, <2>3 DEF Greetings
    <3>2. pc'[u] \in {"ended", "lost"}
      BY <1>1, <3>1 DEF Phases, Live
    <3> QED  BY <1>1, <1>5, <3>2 DEF Dead, Stored
  <2>4. ~crossed' => \A u, v \in greeting' : u # v => Dead(u)' \/ Dead(v)'
    BY <1>1, <1>5, <2>3
  <2> QED  BY <2>1, <2>2, <2>4 DEF Greetings
<1> QED  BY <1>4, <1>5

\* The other steps: a dead turn stays dead.
LEMMA DeadStays ==
    ASSUME TypeOK, [Next]_vars,
           ~ \E t \in Turns : \E greets, quotes \in BOOLEAN : Send(t, greets, quotes)
    PROVE  /\ greeting' = greeting /\ crossed' = crossed
           /\ \A u \in Turns : /\ pc[u] # "idle" => pc'[u] # "idle"
                               /\ Dead(u) => Dead(u)'
<1> USE DEF TypeOK, request, loop, agent, context
<1>1. CASE Crash
  BY <1>1 DEF Crash, Dead, Stored, Live
<1>2. CASE UNCHANGED vars
  BY <1>2 DEF vars, Dead, Stored
<1>3. ASSUME NEW t \in Turns, Decline(t) \/ BeginFails(t) \/ Tell(t) \/ Depart(t)
                              \/ Reconnect(t)
      PROVE  /\ greeting' = greeting /\ crossed' = crossed
             /\ \A u \in Turns : /\ pc[u] # "idle" => pc'[u] # "idle"
                                 /\ Dead(u) => Dead(u)'
  BY <1>3 DEF Decline, BeginFails, Tell, Depart, Reconnect, Dead, Stored
<1>4. ASSUME NEW t \in Turns, NEW written \in BOOLEAN,
             Begin(t, written) \/ Persist(t, written)
      PROVE  /\ greeting' = greeting /\ crossed' = crossed
             /\ \A u \in Turns : /\ pc[u] # "idle" => pc'[u] # "idle"
                                 /\ Dead(u) => Dead(u)'
  BY <1>4 DEF Begin, Persist, Dead, Stored
<1>5. ASSUME NEW t \in Turns, ModelAnswers(t)
      PROVE  /\ greeting' = greeting /\ crossed' = crossed
             /\ \A u \in Turns : /\ pc[u] # "idle" => pc'[u] # "idle"
                                 /\ Dead(u) => Dead(u)'
  <2>1. /\ pc[t] = "model" /\ UNCHANGED <<stored, greeting, crossed>>
        /\ pc' = pc \/ \E p \in {"ended", "replied"} : pc' = [pc EXCEPT ![t] = p]
    BY <1>5 DEF ModelAnswers, ToolDoesNothing, ToolActs, AgentFails, Correct,
                Complete
  <2> QED  BY <2>1 DEF Dead, Stored
<1> QED  BY <1>1, <1>2, <1>3, <1>4, <1>5 DEF Next

LEMMA GreetingsAlways == Spec => []Greetings
<1>1. Init => Greetings
  <2>1. IsFiniteSet({})  BY FS_EmptySet
  <2> QED  BY <2>1 DEF Init, Greetings
<1>2. Inv /\ Greetings /\ [Next]_vars => Greetings'
  <2> SUFFICES ASSUME Inv, Greetings, [Next]_vars PROVE Greetings'
    OBVIOUS
  <2>1. TypeOK  BY DEF Inv
  <2>2. ASSUME NEW t \in Turns, NEW greets \in BOOLEAN, NEW quotes \in BOOLEAN,
               Send(t, greets, quotes)
        PROVE  Greetings'
    BY <2>1, <2>2, SendGreets
  <2>3. CASE ~ \E t \in Turns : \E greets, quotes \in BOOLEAN :
                  Send(t, greets, quotes)
    BY <2>1, <2>3, DeadStays, GreetingsKept
  <2> QED  BY <2>2, <2>3
<1> QED  BY <1>1, <1>2, Invariance, PTL DEF Spec

\* The user is welcomed twice only if two requests to start overlapped, for any
\* number of requests, failures and crashes.
THEOREM WelcomedOnce == Spec => []GreetedOnce
<1>1. Greetings => GreetedOnce
  <2> SUFFICES ASSUME Greetings, ~crossed
               PROVE  ~(Cardinality({t \in greeting : Stored(t)}) > 1)
    BY DEF GreetedOnce
  <2> DEFINE W == {t \in greeting : Stored(t)}
  <2>1. IsFiniteSet(W)  BY FS_Subset DEF Greetings
  <2>2. \A t, u \in W : t = u  BY DEF Greetings, Dead
  <2> HIDE DEF W
  <2>3. CASE W = {}  BY <2>3, FS_EmptySet DEF W
  <2>4. ASSUME NEW t \in W PROVE ~(Cardinality(W) > 1)
    <3>1. W = {t}  BY <2>2
    <3>2. Cardinality(W) = 1  BY <3>1, FS_Singleton
    <3> QED  BY <3>2
  <2> QED  BY <2>3, <2>4 DEF W
<1> QED  BY <1>1, GreetingsAlways, PTL

-----------------------------------------------------------------------------
(* The request context.                                                    *)

\* The turns with the agent, in the order they replaced the context: each will
\* restore that of the one below it.
Nested(s) ==
    /\ s \in Seq(Turns)
    /\ \A t \in Turns : t \in InAgent <=> \E i \in DOMAIN s : s[i] = t
    /\ \A i, j \in DOMAIN s : s[i] = s[j] => i = j
    /\ \A i \in DOMAIN s : token[s[i]] = IF i = 1 THEN None ELSE s[i - 1]
    /\ fallback = IF s = <<>> THEN None ELSE s[Len(s)]
Contexts == tangled \/ \E s \in Seq(Turns) : Nested(s)

LEMMA NestedKept ==
    ASSUME Contexts, UNCHANGED <<fallback, token, tangled>>,
           \A t \in Turns : pc'[t] = "model" <=> pc[t] = "model"
    PROVE  Contexts'
  BY DEF Contexts, Nested, InAgent

LEMMA BeginNests ==
    ASSUME TypeOK, Contexts, NEW t \in Turns, NEW written \in BOOLEAN,
           Begin(t, written)
    PROVE  Contexts'
<1>1. /\ pc[t] = "sent" /\ pc' = [pc EXCEPT ![t] = "model"] /\ tangled' = tangled
      /\ token' = [token EXCEPT ![t] = fallback] /\ fallback' = t
      /\ pc \in [Turns -> Phases] /\ token \in [Turns -> Turns \cup {None}]
  BY DEF Begin, TypeOK
<1>2. CASE tangled  BY <1>1, <1>2 DEF Contexts
<1>3. ASSUME NEW s \in Seq(Turns), Nested(s) PROVE Contexts'
  <2>1. PICK r \in Seq(Turns) : r = Append(s, t)
    BY AppendProperties
  <2>2. /\ Len(r) = Len(s) + 1 /\ r[Len(r)] = t /\ r # <<>>
        /\ DOMAIN r = DOMAIN s \cup {Len(r)} /\ Len(r) \notin DOMAIN s
        /\ \A i \in DOMAIN s : r[i] = s[i]
        /\ Len(s) \in Nat /\ DOMAIN s = 1..Len(s)
        /\ s = <<>> <=> Len(s) = 0
    BY <2>1
  <2>3. \A i \in DOMAIN s : s[i] # t /\ s[i] \in Turns
    <3>1. t \notin InAgent  BY <1>1 DEF InAgent
    <3>2. \A i \in DOMAIN s : s[i] \in Turns  BY <2>2
    <3> QED  BY <1>3, <3>1, <3>2 DEF Nested
  <2>4. \A u \in Turns : u \in InAgent' <=> u \in InAgent \/ u = t
    BY <1>1 DEF InAgent
  <2>5. \A u \in Turns : u \in InAgent' <=> \E i \in DOMAIN r : r[i] = u
    BY <1>3, <2>2, <2>4 DEF Nested
  <2>6. \A i, j \in DOMAIN r : r[i] = r[j] => i = j
    BY <1>3, <2>2, <2>3 DEF Nested
  <2>7. ASSUME NEW i \in DOMAIN r
        PROVE  token'[r[i]] = IF i = 1 THEN None ELSE r[i - 1]
    <3>1. CASE i = Len(r)
      <4>1. token'[r[i]] = fallback  BY <1>1, <2>2, <3>1
      <4>2. CASE s = <<>>  BY <1>3, <2>2, <3>1, <4>1, <4>2 DEF Nested
      <4>3. CASE s # <<>>
        <5>1. Len(s) \in DOMAIN s /\ i - 1 = Len(s) /\ i # 1
          BY <2>2, <3>1, <4>3
        <5>2. r[i - 1] = s[Len(s)]  BY <2>2, <5>1
        <5> QED  BY <1>3, <4>1, <4>3, <5>1, <5>2 DEF Nested
      <4> QED  BY <4>2, <4>3
    <3>2. CASE i # Len(r)
      <4>1. i \in DOMAIN s /\ r[i] = s[i]  BY <2>2, <2>7, <3>2
      <4>2. token'[r[i]] = token[s[i]]  BY <1>1, <2>3, <4>1
      <4>3. i # 1 => i - 1 \in DOMAIN s /\ r[i - 1] = s[i - 1]
        BY <2>2, <4>1
      <4> QED  BY <1>3, <4>1, <4>2, <4>3 DEF Nested
    <3> QED  BY <3>1, <3>2
  <2>8. Nested(r)'
    BY <1>1, <2>2, <2>5, <2>6, <2>7 DEF Nested
  <2> QED  BY <2>8 DEF Contexts
<1> QED  BY <1>2, <1>3 DEF Contexts

LEMMA LeaveUnwinds ==
    ASSUME TypeOK, Contexts, NEW t \in Turns, pc[t] = "model",
           NEW p \in {"ended", "replied"}, pc' = [pc EXCEPT ![t] = p],
           fallback' = token[t], tangled' = (tangled \/ fallback # t),
           token' = [token EXCEPT ![t] = None]
    PROVE  Contexts'
<1>1. CASE tangled \/ fallback # t  BY <1>1 DEF Contexts
<1>2. ASSUME fallback = t, NEW s \in Seq(Turns), Nested(s) PROVE Contexts'
  <2>1. s # <<>> /\ s[Len(s)] = t
    BY <1>2, TurnAssumption DEF Nested
  <2>2. PICK r \in Seq(Turns) :
           /\ Len(r) = Len(s) - 1
           /\ \A i \in 1..(Len(s) - 1) : r[i] = s[i]
    <3>1. Len(s) \in Nat \ {0} /\ \A i \in 1..(Len(s) - 1) : s[i] \in Turns
      BY <2>1
    <3>2. PICK n \in Nat : n = Len(s) - 1  BY <3>1
    <3>3. PICK q \in Seq(Turns) : q = [i \in 1..n |-> s[i]]
      <4>1. [i \in 1..n |-> s[i]] \in [1..n -> Turns]  BY <3>1, <3>2
      <4>2. [i \in 1..n |-> s[i]] \in Seq(Turns)
        <5> DEFINE f == [i \in 1..n |-> s[i]]
        <5>1. f \in [1..n -> Turns]  BY <4>1
        <5> HIDE DEF f
        <5> QED  BY <3>2, <5>1, SeqDef
      <4> QED  BY <4>2
    <3>4. DOMAIN q = 1..n /\ \A i \in 1..n : q[i] = s[i]  BY <3>3
    <3>5. Len(q) = n  BY <3>2, <3>4, LenProperties
    <3> QED  BY <3>2, <3>4, <3>5
  <2>3. /\ Len(s) \in Nat \ {0} /\ Len(r) = Len(s) - 1 /\ DOMAIN s = 1..Len(s)
        /\ DOMAIN r = 1..(Len(s) - 1) /\ \A i \in DOMAIN r : r[i] = s[i]
        /\ r = <<>> <=> Len(r) = 0
    BY <2>1, <2>2
  <2>4. \A i \in DOMAIN r : i \in DOMAIN s /\ i # Len(s)
    BY <2>3
  <2>5. Len(s) \in DOMAIN s  BY <2>3
  <2>6. \A i \in DOMAIN r : r[i] # t /\ r[i] \in Turns
    <3>1. \A i \in DOMAIN s : s[i] \in Turns  BY <2>3
    <3> QED  BY <1>2, <2>1, <2>3, <2>4, <2>5, <3>1 DEF Nested
  <2>7. \A u \in Turns : u \in InAgent' <=> u \in InAgent /\ u # t
    BY DEF InAgent, TypeOK
  <2>8. ASSUME NEW u \in Turns
        PROVE  u \in InAgent' <=> \E i \in DOMAIN r : r[i] = u
    <3>1. ASSUME u \in InAgent, u # t PROVE \E i \in DOMAIN r : r[i] = u
      <4>1. PICK i \in DOMAIN s : s[i] = u  BY <1>2, <3>1 DEF Nested
      <4>2. i \in DOMAIN r  BY <2>1, <2>3, <3>1, <4>1
      <4> QED  BY <2>3, <4>1, <4>2
    <3>2. ASSUME NEW i \in DOMAIN r, r[i] = u PROVE u \in InAgent /\ u # t
      BY <1>2, <2>3, <2>4, <2>6, <3>2 DEF Nested
    <3> QED  BY <2>7, <3>1, <3>2
  <2>9. \A i, j \in DOMAIN r : r[i] = r[j] => i = j
    BY <1>2, <2>3, <2>4 DEF Nested
  <2>10. ASSUME NEW i \in DOMAIN r
         PROVE  token'[r[i]] = IF i = 1 THEN None ELSE r[i - 1]
    <3>1. token'[r[i]] = token[s[i]] /\ i \in DOMAIN s
      BY <2>3, <2>4, <2>6 DEF TypeOK
    <3>2. i # 1 => i - 1 \in DOMAIN r  BY <2>3
    <3> QED  BY <1>2, <2>3, <3>1, <3>2 DEF Nested
  <2>11. fallback' = IF r = <<>> THEN None ELSE r[Len(r)]
    <3>1. fallback' = IF Len(s) = 1 THEN None ELSE s[Len(s) - 1]
      BY <1>2, <2>1, <2>5 DEF Nested
    <3>2. Len(s) # 1 => Len(r) \in DOMAIN r /\ Len(r) = Len(s) - 1
      BY <2>3
    <3> QED  BY <2>3, <3>1, <3>2
  <2>12. Nested(r)'  BY <2>8, <2>9, <2>10, <2>11 DEF Nested
  <2> QED  BY <2>12 DEF Contexts
<1> QED  BY <1>1, <1>2 DEF Contexts

LEMMA ContextsStep == ASSUME Inv, Contexts, [Next]_vars PROVE Contexts'
<1> USE DEF request, loop, agent, context
<1>0. TypeOK  BY DEF Inv
<1>1. CASE UNCHANGED vars  BY <1>1, NestedKept DEF vars
<1>2. CASE Crash
  <2>1. /\ fallback' = None /\ \A t \in Turns : t \notin InAgent'
    BY <1>2 DEF Crash, InAgent, Live
  <2>2. DOMAIN <<>> = {} /\ <<>> \in Seq(Turns)  OBVIOUS
  <2>3. Nested(<<>>)'  BY <2>1, <2>2 DEF Nested
  <2> QED  BY <2>2, <2>3 DEF Contexts
<1>3. ASSUME NEW t \in Turns,
             \/ Decline(t) \/ BeginFails(t) \/ Tell(t) \/ Depart(t) \/ Reconnect(t)
             \/ \E greets, quotes \in BOOLEAN : Send(t, greets, quotes)
             \/ \E written \in BOOLEAN : Persist(t, written)
      PROVE  Contexts'
  <2>1. /\ UNCHANGED <<fallback, token, tangled>>
        /\ \E p \in {"sent", "ended"} : pc' = pc \/ pc' = [pc EXCEPT ![t] = p]
        /\ pc[t] = "model" => pc' = pc
    BY <1>0, <1>3
       DEF Decline, BeginFails, Tell, Depart, Reconnect, Send, Persist, TypeOK
  <2>2. \A u \in Turns : pc'[u] = "model" <=> pc[u] = "model"
    BY <1>0, <2>1 DEF TypeOK
  <2> QED  BY <2>1, <2>2, NestedKept
<1>4. ASSUME NEW t \in Turns, NEW written \in BOOLEAN, Begin(t, written)
      PROVE  Contexts'
  BY <1>0, <1>4, BeginNests
<1>5. ASSUME NEW t \in Turns, ModelAnswers(t) PROVE Contexts'
  <2>1. CASE \/ ToolDoesNothing(t)
             \/ \E kind \in Kinds, committed \in BOOLEAN :
                   ToolActs(t, kind, committed)
             \/ \E text \in Texts(t) : Correct(t, text)
    BY <2>1, NestedKept DEF ToolDoesNothing, ToolActs, Correct
  <2>2. CASE AgentFails(t)
    BY <1>0, <2>2, LeaveUnwinds DEF AgentFails, LeaveAgent, Restored
  <2>3. ASSUME NEW text \in Texts(t), Complete(t, text) PROVE Contexts'
    BY <1>0, <2>3, LeaveUnwinds DEF Complete, LeaveAgent, Restored
  <2> QED  BY <1>5, <2>1, <2>2, <2>3 DEF ModelAnswers
<1> QED  BY <1>1, <1>2, <1>3, <1>4, <1>5 DEF Next

\* When no turn is with the agent no request's context is left over, unless a
\* turn has restored it over another's; for any number of overlapping turns.
THEOREM ContextsUnwind == Spec => []ContextUnwinds
<1>1. Init => Contexts
  <2> SUFFICES ASSUME Init PROVE Contexts  OBVIOUS
  <2>1. DOMAIN <<>> = {} /\ <<>> \in Seq(Turns)  OBVIOUS
  <2>2. Nested(<<>>)  BY <2>1 DEF Init, Nested, InAgent
  <2> QED  BY <2>1, <2>2 DEF Contexts
<1>2. Inv /\ Contexts /\ [Next]_vars => Contexts'  BY ContextsStep
<1>3. Contexts => ContextUnwinds
  <2> SUFFICES ASSUME NEW s \in Seq(Turns), Nested(s), InAgent = {}
               PROVE  fallback = None
    BY DEF Contexts, ContextUnwinds
  <2>1. \A i \in DOMAIN s : s[i] \in Turns  OBVIOUS
  <2>2. DOMAIN s = {}  BY <2>1 DEF Nested
  <2>3. s = <<>>  BY <2>2
  <2> QED  BY <2>3 DEF Nested
<1> QED  BY <1>1, <1>2, <1>3, Invariance, PTL DEF Spec

=============================================================================

------------------------------ MODULE ChatTurn ------------------------------
(***************************************************************************)
(* A turn of the agent in a conversation: POST /chat/send and the          *)
(* reconnection of handlers/chat.py, _local_fallback of agent/client.py    *)
(* with its corrective turns, the tool loop of agent/loop.py, the run row  *)
(* of agent/runs.py and the cards of agent/side_effects.py.                *)
(*                                                                         *)
(* All turns are of one conversation and of one process.  A turn gives     *)
(* the loop up only while it waits for the model, so what follows an       *)
(* answer up to the next call is one step; the commits that a crash can    *)
(* separate are steps of their own.                                        *)
(***************************************************************************)
EXTENDS Naturals, Sequences, FiniteSets

CONSTANTS Turns,
          Busy,        \* bound: turns whose model calls tools and claims things
          None,        \* no turn: the fallback context is not set
          MaxCalls,    \* max_iterations of a loop (20 in the code)
          MaxFaults    \* bound: failed writes, departures and crashes

ASSUME TurnAssumption ==
    /\ None \notin Turns
    /\ Busy \subseteq Turns
    /\ MaxCalls \in Nat \ {0}
    /\ MaxFaults \in Nat

VARIABLES
    pc,        \* pc[t]: where the turn is
    greeting,  \* turns started by "[onboarding:start]"
    window,    \* turns whose user message quotes a vendor's appointment
    stage,     \* stage[t]: which corrective turn of the agent is under way
    calls,     \* calls[t]: answers of the model in the loop under way
    effects,   \* effects[t]: what its tools did, in order
    queued,    \* queued[t]: the effects whose card is pending
    reply,     \* reply[t]
    run,       \* run[t]: status of the AgentRun row
    stored,    \* messages of the conversation
    cards,     \* cards[t]: the effects with a card in the conversation
    active,    \* _active_chats
    fallback,  \* the process-wide request context
    token,     \* token[t]: the context the turn will restore
    reader,    \* reader[t]: what the client is told
    faults,    \* faults so far
    unsaved,   \* history: runs and replies that could not be written
    corrected, \* history: turns whose pending cards were discarded
    crossed,   \* history: two greetings have overlapped
    tangled    \* history: a turn has restored a context over another's

vars == <<pc, greeting, window, stage, calls, effects, queued, reply, run,
          stored, cards, active, fallback, token, reader, faults, unsaved,
          corrected, crossed, tangled>>
request == <<greeting, window>>
loop == <<stage, calls>>
agent == <<loop, effects, queued, corrected>>
context == <<fallback, token, tangled>>

Phases == {"idle", "sent", "model", "replied", "ended", "lost"}
Live == {"sent", "model", "replied"}
Listening == {"waiting", "again"}
Kinds == {"document", "record"}
Texts(t) == IF t \in Busy THEN {"plain", "claim"} ELSE {"plain"}
Replies == {"none", "plain", "claim", "summary", "denial"}

InAgent == {t \in Turns : pc[t] = "model"}
Effects(t) == DOMAIN effects[t]
Card(t, kind) == \E n \in queued[t] : effects[t][n].kind = kind
Stored(t) == <<t, "reply">> \in stored
MayFail == faults < MaxFaults
Fault(b) == faults' = IF b THEN faults + 1 ELSE faults

Init ==
    /\ pc = [t \in Turns |-> "idle"]
    /\ greeting = {} /\ window = {}
    /\ stage = [t \in Turns |-> "first"]
    /\ calls = [t \in Turns |-> 0]
    /\ effects = [t \in Turns |-> <<>>]
    /\ queued = [t \in Turns |-> {}]
    /\ reply = [t \in Turns |-> "none"]
    /\ run = [t \in Turns |-> "none"]
    /\ stored = {}
    /\ cards = [t \in Turns |-> {}]
    /\ active = {}
    /\ fallback = None
    /\ token = [t \in Turns |-> None]
    /\ reader = [t \in Turns |-> "none"]
    /\ faults = 0
    /\ unsaved = {} /\ corrected = {}
    /\ crossed = FALSE /\ tangled = FALSE

-----------------------------------------------------------------------------
(* The request.                                                            *)

\* Mutant of Greeted: the conversation is not looked at.
Greeted_Never == FALSE
\* An onboarding conversation with messages is resumed, not started again.
Greeted == stored # {}

\* Answers that start no turn: an onboarding to resume, a conversation with
\* other people in it, no model configured.  Nothing is written.
Decline(t) ==
    /\ pc[t] = "idle"
    /\ pc' = [pc EXCEPT ![t] = "ended"]
    /\ reader' = [reader EXCEPT ![t] = "canned"]
    /\ UNCHANGED <<request, agent, context, reply, run, stored, cards, active,
                   faults, unsaved, crossed>>

Send(t, greets, quotes) ==
    /\ pc[t] = "idle"
    /\ greets => ~Greeted
    /\ quotes => t \in Busy
    /\ pc' = [pc EXCEPT ![t] = "sent"]
    /\ reader' = [reader EXCEPT ![t] = "waiting"]
    /\ greeting' = IF greets THEN greeting \cup {t} ELSE greeting
    /\ window' = IF quotes THEN window \cup {t} ELSE window
    /\ crossed' = (crossed \/ (greets /\ \E u \in greeting : pc[u] \in Live))
    /\ UNCHANGED <<agent, context, reply, run, stored, cards, active, faults,
                   unsaved>>

\* generate, up to the first call of the model: the stream is registered, the
\* user's message is written or the failure ignored (a greeting has none), the
\* context is replaced, and the row of the run is inserted.
Begin(t, written) ==
    /\ pc[t] = "sent"
    /\ ~written => MayFail /\ t \notin greeting
    /\ Fault(~written)
    /\ pc' = [pc EXCEPT ![t] = "model"]
    /\ active' = active \cup {t}
    /\ stored' = IF written /\ t \notin greeting
                 THEN stored \cup {<<t, "user">>} ELSE stored
    /\ token' = [token EXCEPT ![t] = fallback]
    /\ fallback' = t
    /\ run' = [run EXCEPT ![t] = "running"]
    /\ UNCHANGED <<request, agent, reply, cards, reader, unsaved, crossed,
                   tangled>>

\* The row cannot be inserted: start_run raises before the agent is called.
BeginFails(t) ==
    /\ pc[t] = "sent" /\ MayFail
    /\ Fault(TRUE)
    /\ pc' = [pc EXCEPT ![t] = "ended"]
    /\ stored' = IF t \in greeting THEN stored ELSE stored \cup {<<t, "user">>}
    /\ UNCHANGED <<request, agent, context, reply, run, cards, active, reader,
                   unsaved, crossed>>

-----------------------------------------------------------------------------
(* The loop: the model calls a tool or answers.                            *)

InBudget(t) == calls[t] < MaxCalls

\* A tool that changes nothing: it reads, is refused, or finds the suggestion
\* of an earlier call.
ToolDoesNothing(t) ==
    /\ pc[t] = "model" /\ InBudget(t) /\ t \in Busy
    /\ calls' = [calls EXCEPT ![t] = @ + 1]
    /\ UNCHANGED <<pc, request, context, stage, effects, queued, corrected,
                   reply, run, stored, cards, active, reader, faults, unsaved,
                   crossed>>

\* A tool commits in a session of its own and queues a card; a suggestion's
\* card is queued before the commit and stays queued when the commit fails.
ToolActs(t, kind, committed) ==
    /\ pc[t] = "model" /\ InBudget(t) /\ t \in Busy
    /\ ~committed => MayFail /\ kind = "record"
    /\ Fault(~committed)
    /\ calls' = [calls EXCEPT ![t] = @ + 1]
    /\ effects' = [effects EXCEPT ![t] =
                       Append(@, [kind |-> kind, real |-> committed])]
    /\ queued' = [queued EXCEPT ![t] = @ \cup {Len(effects[t]) + 1}]
    /\ UNCHANGED <<pc, request, context, stage, corrected, reply, run, stored,
                   cards, active, reader, unsaved, crossed>>

\* Mutant of Restored: a turn that fails does not restore the context.
Restored_Done(t) == IF reply'[t] = "none" THEN fallback ELSE token[t]
Restored(t) == token[t]

\* start_run and _local_fallback end: the row gets its status, or stays
\* running when that cannot be written, the earlier context comes back, and
\* what the coroutine knew is gone.
LeaveAgent(t, status) ==
    /\ \E written \in {TRUE} \cup (IF MayFail THEN {FALSE} ELSE {}) :
         /\ Fault(~written)
         /\ run' = [run EXCEPT ![t] = IF written THEN status ELSE @]
         /\ unsaved' = IF written THEN unsaved ELSE unsaved \cup {<<t, "run">>}
    /\ fallback' = Restored(t)
    /\ tangled' = (tangled \/ fallback # t)
    /\ token' = [token EXCEPT ![t] = None]
    /\ stage' = [stage EXCEPT ![t] = "first"]
    /\ calls' = [calls EXCEPT ![t] = 0]
    /\ window' = window \ {t}

\* The loop has used its iterations or the model cannot be reached, and its
\* text becomes an exception.
AgentFails(t) ==
    /\ pc[t] = "model"
    /\ pc' = [pc EXCEPT ![t] = "ended"]
    /\ active' = active \ {t}
    /\ queued' = [queued EXCEPT ![t] = {}]
    /\ UNCHANGED reply
    /\ LeaveAgent(t, "errored")
    /\ UNCHANGED <<greeting, effects, corrected, stored, cards, reader,
                   crossed>>

NeedsTenant(t) == stage[t] = "first" /\ t \in window

\* Mutant of Unbacked: any card will do.
Unbacked_Any(t, text) == text = "claim" /\ queued[t] = {}
\* The reply claims a document, and no card of the turn shows one.
Unbacked(t, text) == text = "claim" /\ ~Card(t, "document")

\* What _local_fallback does with an answer: the next corrective turn, if any.
NextStage(t, text) ==
    IF NeedsTenant(t) THEN "tenant"
    ELSE IF /\ Unbacked(t, text)
            /\ stage[t] # "document" /\ ~Card(t, "record") THEN "document"
    ELSE "none"

FinalReply(t, text) ==
    IF ~Unbacked(t, text) THEN text
    ELSE IF stage[t] = "document" THEN "denial" ELSE "summary"

\* A text of the model: its last one, or an earlier one that
\* _select_best_reply prefers, even to the text of an error.  The pending cards
\* are discarded before a corrective turn; what the tools did stays.
Correct(t, text) ==
    /\ pc[t] = "model"
    /\ NextStage(t, text) # "none"
    /\ stage' = [stage EXCEPT ![t] = NextStage(t, text)]
    /\ calls' = [calls EXCEPT ![t] = 0]
    /\ queued' = [queued EXCEPT ![t] = {}]
    /\ corrected' = IF queued[t] = {} THEN corrected ELSE corrected \cup {t}
    /\ UNCHANGED <<pc, request, context, effects, reply, run, stored, cards,
                   active, reader, faults, unsaved, crossed>>

Complete(t, text) ==
    /\ pc[t] = "model"
    /\ NextStage(t, text) = "none"
    /\ pc' = [pc EXCEPT ![t] = "replied"]
    /\ reply' = [reply EXCEPT ![t] = FinalReply(t, text)]
    /\ LeaveAgent(t, "completed")
    /\ UNCHANGED <<greeting, effects, queued, corrected, stored, cards, active,
                   reader, crossed>>

-----------------------------------------------------------------------------
(* The reply and its cards, in one transaction; then the clients.          *)

\* Mutant of Flushed: the cards of a summary are left behind.
Flushed_Text(t) == IF reply[t] = "summary" THEN {} ELSE queued[t]
Flushed(t) == queued[t]

Persist(t, written) ==
    /\ pc[t] = "replied"
    /\ ~written => MayFail
    /\ Fault(~written)
    /\ pc' = [pc EXCEPT ![t] = "ended"]
    /\ active' = active \ {t}
    /\ stored' = IF written THEN stored \cup {<<t, "reply">>} ELSE stored
    /\ cards' = [cards EXCEPT ![t] = IF written THEN Flushed(t) ELSE @]
    /\ queued' = [queued EXCEPT ![t] = {}]
    /\ unsaved' = IF written THEN unsaved ELSE unsaved \cup {<<t, "reply">>}
    /\ UNCHANGED <<request, loop, effects, corrected, context, reply, run,
                   reader, crossed>>

\* Mutant of Verdict: an exception of the turn is not told.
Verdict_Done(t) == "done"
Verdict(t) == IF reply[t] = "none" THEN "error" ELSE "done"

\* Mutant of Over: the stream waits for a reply.
Over_Reply(t) == Stored(t)
\* running.task.done()
Over(t) == pc[t] = "ended"

\* The turn's stream ends with the reply and an id, which is invented when the
\* reply could not be written; a stream reconnected to ends with an error.
Tell(t) ==
    /\ Over(t) /\ reader[t] \in Listening
    /\ reader' = [reader EXCEPT ![t] =
                      IF @ = "waiting" THEN Verdict(t) ELSE "broken"]
    /\ UNCHANGED <<pc, request, agent, context, reply, run, stored, cards,
                   active, faults, unsaved, crossed>>

\* Only a client that was given the stream's id can come back.
Left(t) == IF pc[t] = "sent" THEN "none" ELSE "left"

\* The client goes away: a turn that has begun goes on without it.
Depart(t) ==
    /\ reader[t] \in Listening /\ MayFail
    /\ Fault(TRUE)
    /\ reader' = [reader EXCEPT ![t] = Left(t)]
    /\ pc' = [pc EXCEPT ![t] = IF @ = "sent" THEN "ended" ELSE @]
    /\ UNCHANGED <<request, agent, context, reply, run, stored, cards, active,
                   unsaved, crossed>>

\* chat_stream_reconnect, with a stream id the client was given.
Reconnect(t) ==
    /\ reader[t] = "left"
    /\ reader' = [reader EXCEPT ![t] = IF t \in active THEN "again" ELSE "idle"]
    /\ UNCHANGED <<pc, request, agent, context, reply, run, stored, cards,
                   active, faults, unsaved, crossed>>

Crash ==
    /\ MayFail
    /\ Fault(TRUE)
    /\ pc' = [t \in Turns |-> IF pc[t] \in Live THEN "lost" ELSE pc[t]]
    /\ reader' = [t \in Turns |-> IF reader[t] \in Listening THEN Left(t)
                                  ELSE reader[t]]
    /\ active' = {}
    /\ queued' = [t \in Turns |-> {}]
    /\ stage' = [t \in Turns |-> "first"]
    /\ calls' = [t \in Turns |-> 0]
    /\ window' = {}
    /\ fallback' = None
    /\ token' = [t \in Turns |-> None]
    /\ tangled' = FALSE
    /\ UNCHANGED <<greeting, effects, corrected, reply, run, stored, cards,
                   unsaved, crossed>>

-----------------------------------------------------------------------------
ModelAnswers(t) ==
    \/ ToolDoesNothing(t)
    \/ \E kind \in Kinds, committed \in BOOLEAN : ToolActs(t, kind, committed)
    \/ AgentFails(t)
    \/ \E text \in Texts(t) : Correct(t, text) \/ Complete(t, text)

Next ==
    \/ \E t \in Turns :
        \/ Decline(t)
        \/ \E greets, quotes \in BOOLEAN : Send(t, greets, quotes)
        \/ \E written \in BOOLEAN : Begin(t, written) \/ Persist(t, written)
        \/ BeginFails(t)
        \/ ModelAnswers(t)
        \/ Tell(t) \/ Depart(t) \/ Reconnect(t)
    \/ Crash

Spec == Init /\ [][Next]_vars

\* The event loop runs what is ready, the provider answers or times out, and
\* a stream that is read goes on.
Fairness ==
    \A t \in Turns :
        /\ WF_vars(Begin(t, TRUE))
        /\ WF_vars(ModelAnswers(t))
        /\ WF_vars(Persist(t, TRUE))
        /\ WF_vars(Tell(t))
FairSpec == Spec /\ Fairness

-----------------------------------------------------------------------------
\* The state is of its type.
TypeOK ==
    /\ pc \in [Turns -> Phases]
    /\ greeting \subseteq Turns /\ window \subseteq Turns
    /\ stage \in [Turns -> {"first", "tenant", "document"}]
    /\ calls \in [Turns -> 0..MaxCalls]
    /\ effects \in [Turns -> Seq([kind : Kinds, real : BOOLEAN])]
    /\ queued \in [Turns -> SUBSET Nat]
    /\ reply \in [Turns -> Replies]
    /\ run \in [Turns -> {"none", "running", "completed", "errored"}]
    /\ stored \subseteq Turns \X {"user", "reply"}
    /\ cards \in [Turns -> SUBSET Nat]
    /\ active \subseteq Turns
    /\ fallback \in Turns \cup {None}
    /\ token \in [Turns -> Turns \cup {None}]
    /\ reader \in [Turns -> {"none", "canned", "waiting", "again", "left",
                             "done", "error", "broken", "idle"}]
    /\ faults \in 0..MaxFaults
    /\ unsaved \subseteq Turns \X {"run", "reply"}
    /\ corrected \subseteq Turns
    /\ {crossed, tangled} \subseteq BOOLEAN

\* What the tools of a turn did is shown in the conversation when the turn is
\* over, unless its cards were discarded for a corrective turn (client.py:1077)
\* or no reply of it was written, and then it shows none.
CardsMatchEffects ==
    \A t \in Turns :
        /\ cards[t] \subseteq Effects(t)
        /\ (pc[t] = "ended" /\ Stored(t) /\ t \notin corrected)
              => cards[t] = Effects(t)
        /\ ~Stored(t) => cards[t] = {}

\* A written reply that claims a document has a document's card below it; one
\* that denies it follows a turn in which no document was made, unless a first
\* corrective turn had discarded the card.
ClaimsAreBacked ==
    \A t \in Turns : Stored(t) =>
        /\ reply[t] = "claim" =>
              \E n \in cards[t] : effects[t][n] = [kind |-> "document",
                                                   real |-> TRUE]
        /\ reply[t] = "denial" =>
              \/ t \in corrected
              \/ \A n \in Effects(t) : effects[t][n].kind # "document"

\* The row of the run, the conversation and what the client is told agree: a
\* run that is shown as running is running, was lost with its process or could
\* not be written; a completed one has left its reply; an error leaves none; a
\* client told that nothing is in flight has missed nothing.
OutcomesAgree ==
    \A t \in Turns :
        /\ run[t] = "running" => \/ pc[t] \in {"model", "lost"}
                                 \/ <<t, "run">> \in unsaved
        /\ (run[t] = "completed" /\ pc[t] = "ended")
              => Stored(t) \/ <<t, "reply">> \in unsaved
        /\ run[t] = "errored" => ~Stored(t)
        /\ reader[t] = "done" => Stored(t) \/ <<t, "reply">> \in unsaved
        /\ reader[t] = "error" => ~Stored(t)
        /\ reader[t] = "idle" => pc[t] \notin Live

\* The user is welcomed twice only if two requests to start overlapped.
GreetedOnce ==
    Cardinality({t \in greeting : Stored(t)}) > 1 => crossed

\* When no turn is with the agent the process has no request context left over,
\* unless two turns ended in the order they began (local_auth.py:122).
ContextUnwinds == (InAgent = {} /\ ~tangled) => fallback = None

\* A turn ends, and a client that waits for it is told something.
Pending(t) == pc[t] \in Live \/ reader[t] \in Listening
TurnsEnd == \A t \in Turns : Pending(t) ~> ~Pending(t)
=============================================================================

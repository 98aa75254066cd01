----------------------------- MODULE InboundSms -----------------------------
(***************************************************************************)
(* SMS that come in: the provider calls the webhook (handlers/chat.py) and *)
(* a poller asks it for what the webhook missed (handlers/quo_poller.py).  *)
(* Both end in process_inbound_sms; only the poller looks for duplicates.  *)
(*                                                                         *)
(* The clock's unit is the duplicate check's window.  A message of a       *)
(* tenant is flushed in a worker thread and committed back on the event    *)
(* loop; in between the session, one per event loop, may be closed by      *)
(* anybody else who uses it, which takes the message back.  A webhook's    *)
(* request runs on the poller's instance or on another one.                *)
(***************************************************************************)
EXTENDS Integers, Sequences, FiniteSets

CONSTANTS Messages,
          From,         \* From[m]: the contact that sends m
          Body,         \* Body[m]: m's text
          Vendors,      \* contacts that are vendors, not tenants
          Unlisted,     \* tenants who are not in PHONE_WHITELIST
          Undated,      \* messages the provider lists without their createdAt
          Textless,     \* messages that carry media and no text
          Lookback,     \* how far the first poll after a start looks back
          MaxSends,     \* bound: messages that are sent
          MaxClock,      \* bound: the clock
          MaxFaults     \* bound: failures, restarts, closed sessions

Contacts == {From[m] : m \in Messages}
Window == 1
Handlers == {"webhook", "poller"}

ASSUME SmsAssumption ==
    /\ DOMAIN From = Messages /\ DOMAIN Body = Messages
    /\ Vendors \cap Unlisted = {} /\ Undated \cup Textless \subseteq Messages
    /\ {Lookback, MaxSends} \subseteq Nat /\ MaxClock \in Nat \ {0} /\ MaxFaults \in Nat

VARIABLES
    clock,
    created,    \* created[m]: when m was sent, 0 before
    hooks,      \* messages whose webhook call is on the way
    rows,       \* rows[m]: the times (sent_at) of its committed copies
    handler,    \* handler[h]: the message that process_inbound_sms has in hand
    poll,       \* the poll cycle under way
    watermark,  \* _last_poll, 0 if unset
    faults,     \* faults so far
    excused,    \* history: messages a fault, or a long absence, kept from the poller
    raced,      \* history: the poller's message, if the webhook had it in hand meanwhile
    blind       \* history: the message the poller looked up last, if that failed

smsVars == <<clock, created, hooks, rows, handler, poll, watermark, faults,
             excused, raced, blind>>
provider == <<created, hooks>>

Free == [phase |-> "free"]
NoPoll == [phase |-> "idle"]
Sent == {m \in Messages : created[m] > 0}

SmsInit ==
    /\ clock = 1
    /\ created = [m \in Messages |-> 0]
    /\ hooks = {}
    /\ rows = [m \in Messages |-> <<>>]
    /\ handler = [h \in Handlers |-> Free]
    /\ poll = NoPoll
    /\ watermark = 0
    /\ faults = 0
    /\ excused = {}
    /\ raced = {}
    /\ blind = {}

Fault == faults < MaxFaults /\ faults' = faults + 1

Tick ==
    /\ clock < MaxClock
    /\ clock' = clock + 1
    /\ UNCHANGED <<provider, rows, handler, poll, watermark, faults, excused, raced, blind>>

\* The provider accepts a message.  Its webhook call may never arrive: one that is
\* lost stays on the way.
Send(m) ==
    /\ m \notin Sent /\ Cardinality(Sent) < MaxSends
    /\ clock < MaxClock
    /\ clock' = clock + 1
    /\ created' = [created EXCEPT ![m] = clock + 1]
    /\ hooks' = hooks \cup {m}
    /\ UNCHANGED <<rows, handler, poll, watermark, faults, excused, raced, blind>>

-----------------------------------------------------------------------------
(* process_inbound_sms.                                                    *)

Has(h, phase) == handler[h].phase = phase
InHand(m) == \E h \in Handlers : ~Has(h, "free") /\ handler[h].msg = m

\* Up to its commit or its error the handler of such a message never awaits: what
\* else runs on its instance waits.
Holds(h) == Has(h, "routed") /\ handler[h].here /\ From[handler[h].msg] \in Vendors \cup Unlisted

\* What becomes of a message the poller, for one, did not store.
Excuse(h) == excused' = IF h = "poller" THEN excused \cup {handler[h].msg} ELSE excused

Takes(h, m, here) ==
    /\ handler' = [handler EXCEPT ![h] = [phase |-> "routed", msg |-> m, here |-> here]]
    /\ raced' = IF InHand(m) THEN raced \cup {m} ELSE raced

\* The vendor's message is stored at once; no agent answers it.
StoreVendor(h) ==
    /\ Has(h, "routed") /\ From[handler[h].msg] \in Vendors
    /\ rows' = [rows EXCEPT ![handler[h].msg] = Append(@, clock)]
    /\ handler' = [handler EXCEPT ![h] = Free]
    /\ UNCHANGED <<clock, provider, poll, watermark, faults, excused, raced, blind>>

\* record_sms_from_quo calls the router in a way it does not accept, and raises.
Refuse(h) ==
    /\ Has(h, "routed") /\ From[handler[h].msg] \in Unlisted
    /\ Excuse(h)
    /\ handler' = [handler EXCEPT ![h] = Free]
    /\ UNCHANGED <<clock, provider, rows, poll, watermark, faults, raced, blind>>

\* route_inbound_to_tenant_chat in the worker thread.
Flush(h) ==
    /\ Has(h, "routed") /\ From[handler[h].msg] \notin Vendors \cup Unlisted
    /\ handler' = [handler EXCEPT ![h] =
                     [phase |-> "flushed", msg |-> @.msg, here |-> @.here, at |-> clock]]
    /\ UNCHANGED <<clock, provider, rows, poll, watermark, faults, excused, raced, blind>>

Answering(m) == [phase |-> "answering", msg |-> m]

Commit(h) ==
    /\ Has(h, "flushed")
    /\ rows' = [rows EXCEPT ![handler[h].msg] = Append(@, handler[h].at)]
    /\ handler' = [handler EXCEPT ![h] = Answering(@.msg)]
    /\ UNCHANGED <<clock, provider, poll, watermark, faults, excused, raced, blind>>

\* Somebody on the instance closes the session: a request that ends, the poller
\* after a message or its list of contacts.  Nothing is left to commit, and the
\* agent answers all the same.  (Whose close it was is left open; a commit by
\* somebody else is a Commit that comes early.)
TakenBack(h) ==
    /\ Has(h, "flushed") /\ Fault
    /\ Excuse(h)
    /\ handler' = [handler EXCEPT ![h] = Answering(@.msg)]
    /\ UNCHANGED <<clock, provider, rows, poll, watermark, raced, blind>>

\* The agent has replied, or failed to.
Answered(h) ==
    /\ Has(h, "answering")
    /\ handler' = [handler EXCEPT ![h] = Free]
    /\ UNCHANGED <<clock, provider, rows, poll, watermark, faults, excused, raced, blind>>

\* An error before the commit.
Raises(h) ==
    /\ Has(h, "routed") \/ Has(h, "flushed")
    /\ Fault
    /\ Excuse(h)
    /\ handler' = [handler EXCEPT ![h] = Free]
    /\ UNCHANGED <<clock, provider, rows, poll, watermark, raced, blind>>

\* The webhook does not look for duplicates.
Webhook(m, here) ==
    /\ m \in hooks /\ Has("webhook", "free")
    /\ ~(here /\ Holds("poller"))
    /\ hooks' = hooks \ {m}
    /\ Takes("webhook", m, here)
    /\ UNCHANGED <<clock, created, rows, poll, watermark, faults, excused, blind>>

-----------------------------------------------------------------------------
(* The poller: poll_quo_messages.                                          *)

Since == IF watermark > 0 THEN watermark ELSE clock - Lookback

\* A cycle: since when and until when, contacts to ask, messages to look at.
Cycle(since, now, contacts, batch) ==
    [phase |-> "fetching", since |-> since, now |-> now,
     contacts |-> contacts, batch |-> batch]

\* The loop sleeps for minutes after a cycle.
PollStart ==
    /\ poll = NoPoll /\ watermark < clock
    /\ poll' = Cycle(Since, clock, Contacts, {})
    /\ excused' = IF watermark > 0 THEN excused
                  ELSE excused \cup {m \in Sent : created[m] <= clock - Lookback}
    /\ UNCHANGED <<clock, provider, rows, handler, watermark, faults, raced, blind>>

Due(m) == m \in Sent /\ created[m] > poll.since
Passed(ms) == {m \in ms : Due(m) /\ created[m] <= poll.now}

\* Mutant of Ended: what came in during the cycle counts as polled.
Ended_Late == watermark' = clock /\ poll' = NoPoll

\* Mutant of Ended: the watermark is moved on by the window.
Ended_Ahead == watermark' = poll.now + Window /\ poll' = NoPoll

\* The watermark is the time at which the cycle began, however it ends.
Ended == watermark' = poll.now /\ poll' = NoPoll

\* The phone numbers could not be listed: no contact is asked.
ListFails ==
    /\ poll.phase = "fetching" /\ poll.contacts = Contacts
    /\ Fault
    /\ excused' = excused \cup Passed(Messages)
    /\ Ended
    /\ UNCHANGED <<clock, provider, rows, handler, raced, blind>>

Fetching(c) ==
    /\ poll.phase = "fetching" /\ c \in poll.contacts
    /\ poll.batch = {} /\ Has("poller", "free")

\* The provider is asked for what came after poll.since, in a form of time it may not
\* read ("+00:00Z"): then it lists what it has, or gives an error.  The poller does
\* not look at a message without text.
Fetch(c) ==
    /\ Fetching(c)
    /\ \E read \in BOOLEAN :
          poll' = Cycle(poll.since, poll.now, poll.contacts \ {c},
                        {m \in Sent \ Textless : From[m] = c /\ (read => Due(m))})
    /\ UNCHANGED <<clock, provider, rows, handler, watermark, faults, excused, raced, blind>>

\* An error is an empty answer.
FetchFails(c) ==
    /\ Fetching(c) /\ Fault
    /\ poll' = Cycle(poll.since, poll.now, poll.contacts \ {c}, {})
    /\ excused' = excused \cup Passed({m \in Messages : From[m] = c})
    /\ UNCHANGED <<clock, provider, rows, handler, watermark, raced, blind>>

\* A message the webhook has flushed into the session both share.
Open(m) ==
    Has("webhook", "flushed") /\ handler["webhook"].here /\ handler["webhook"].msg = m

Near(m, time) == time - created[m] \in (-Window)..Window

\* Mutant of IsDuplicate: nothing is a duplicate.
IsDuplicate_Never(m, fails) == FALSE

\* _is_duplicate: any message with m's text, stored about when m was sent.  A look-up
\* that fails, or that lacks the time, finds none.
IsDuplicate(m, fails) ==
    /\ ~fails /\ m \notin Undated
    /\ \E x \in {y \in Messages : Body[y] = Body[m]} :
          \/ \E i \in DOMAIN rows[x] : Near(m, rows[x][i])
          \/ Open(x) /\ Near(m, handler["webhook"].at)

\* The look-up closes the session, and with it takes back what is open there.
LookUp(m, fails, dup) ==
    LET open == m \notin Undated /\ \E x \in Messages : Open(x)
        kept == IF open THEN [handler EXCEPT !["webhook"] = Answering(@.msg)] ELSE handler
    IN  /\ IF open \/ fails THEN Fault ELSE UNCHANGED faults
        /\ excused' = IF ~open THEN excused
                      ELSE excused \cup {handler["webhook"].msg}
                                   \cup (IF dup THEN {m} ELSE {})
        /\ IF dup
           THEN handler' = kept /\ UNCHANGED raced
           ELSE /\ handler' = [kept EXCEPT !["poller"] =
                                 [phase |-> "routed", msg |-> m, here |-> TRUE]]
                /\ raced' = IF InHand(m) THEN {m} ELSE {}

Check(m) ==
    /\ poll.phase = "fetching" /\ m \in poll.batch
    /\ Has("poller", "free") /\ ~Holds("webhook")
    /\ poll' = Cycle(poll.since, poll.now, poll.contacts, poll.batch \ {m})
    /\ \E fails \in BOOLEAN :
          /\ LookUp(m, fails, IsDuplicate(m, fails))
          /\ blind' = IF fails THEN {m} ELSE {}
    /\ UNCHANGED <<clock, provider, rows, watermark>>

PollEnds ==
    /\ poll.phase = "fetching" /\ poll.contacts = {} /\ poll.batch = {}
    /\ Has("poller", "free")
    /\ Ended
    /\ UNCHANGED <<clock, provider, rows, handler, faults, excused, raced, blind>>

\* The poller's instance restarts, with a webhook's request that it serves.
Dies(h) ==
    \/ h = "poller"
    \/ (Has(h, "routed") \/ Has(h, "flushed")) /\ handler[h].here

PollerRestarts ==
    /\ Fault
    /\ poll' = NoPoll /\ watermark' = 0
    /\ handler' = [h \in Handlers |-> IF Dies(h) THEN Free ELSE handler[h]]
    /\ UNCHANGED <<clock, provider, rows, excused, raced, blind>>

-----------------------------------------------------------------------------
Process(h) ==
    StoreVendor(h) \/ Refuse(h) \/ Flush(h) \/ Commit(h) \/ Answered(h)

PollStep ==
    \/ PollStart \/ PollEnds
    \/ \E c \in Contacts : Fetch(c)
    \/ \E m \in Messages : Check(m)

SmsNext ==
    \/ Tick
    \/ \E m \in Messages : Send(m)
    \/ \E m \in Messages, here \in BOOLEAN : Webhook(m, here)
    \/ \E h \in Handlers : Process(h) \/ TakenBack(h) \/ Raises(h)
    \/ PollStep
    \/ ListFails \/ \E c \in Contacts : FetchFails(c)
    \/ PollerRestarts

SmsSpec == SmsInit /\ [][SmsNext]_smsVars
-----------------------------------------------------------------------------
ClockTimes == 1..MaxClock
HandlerType ==
    [phase : {"routed"}, msg : Messages, here : BOOLEAN]
    \cup [phase : {"flushed"}, msg : Messages, here : BOOLEAN, at : ClockTimes]
    \cup [phase : {"answering"}, msg : Messages]

SmsTypeOK ==
    /\ clock \in ClockTimes /\ watermark \in 0..clock /\ faults \in 0..MaxFaults
    /\ created \in [Messages -> 0..clock]
    /\ hooks \subseteq Sent /\ excused \subseteq Sent
    /\ raced \subseteq Sent /\ blind \subseteq Sent
    /\ \A m \in Messages : rows[m] \in Seq(created[m]..clock)
    /\ \A h \in Handlers : handler[h] = Free \/ handler[h] \in HandlerType
    /\ poll # NoPoll => /\ poll.phase = "fetching"
                        /\ poll.since \in (-Lookback)..poll.now /\ poll.now <= clock
                        /\ poll.contacts \subseteq Contacts /\ poll.batch \subseteq Sent
                        /\ watermark = 0 \/ watermark = poll.since

\* m is stored, or another message takes its place in the eyes of the check.
Kept(m) ==
    \/ rows[m] # <<>>
    \/ \E x \in Messages : Body[x] = Body[m] /\ \E i \in DOMAIN rows[x] : Near(m, rows[x][i])

\* "Backup to catch messages the webhook missed" (handlers/quo_poller.py:4): what
\* was sent before the watermark is stored, whatever webhook calls were lost or
\* failed, if it has a text and no fault of the poller's own got in the way.
MissedAreCaught ==
    \A m \in Sent \ Textless : created[m] <= watermark => (Kept(m) \/ m \in excused)

PollerStores(m) ==
    /\ ~Has("poller", "free") /\ handler["poller"].msg = m
    /\ handler'["poller"] # handler["poller"]
    /\ rows'[m] # rows[m]

\* "Deduplicate against messages already in DB (from webhook or prior poll)"
\* (handlers/quo_poller.py:152), as far as the code holds it: the poller repeats a
\* message only if every copy was stored too long after it was sent for the check
\* to see, the check had no time to look at or failed this time, or the webhook
\* had the message in hand meanwhile.
RepeatsAreExplained ==
    [][\A m \in Messages : PollerStores(m) =>
          \/ m \in raced \cup blind \cup Undated
          \/ \A i \in DOMAIN rows[m] : ~Near(m, rows[m][i])]_smsVars
=============================================================================

----------------------------- MODULE StreamLog -----------------------------
(***************************************************************************)
(* What the agent-stream registry promises its clients, without queues,    *)
(* buffers or snapshots: every run is an append-only log that ends with    *)
(* one terminal event, and every connection reads that log from its first  *)
(* event, one event at a time, in order.  agent/streams.py is shown to     *)
(* implement this in StreamRegistry.                                       *)
(***************************************************************************)
EXTENDS Naturals, Sequences

CONSTANTS Runs,      \* logical agent invocations
          Clients,   \* SSE connections of the UI
          Texts,     \* labels of progress events
          NoRun      \* a connection that is not attached to a run

Ends == {"done", "error"}
LogEvents == Texts \cup Ends

VARIABLES log,        \* log[r]: the events of run r so far
          findable,   \* the runs a client may still look up
          reading,    \* reading[c]: the run connection c reads, or NoRun
          got         \* got[c]: what connection c has received

logVars == <<log, findable, reading, got>>

Ended(r) == log[r] # <<>> /\ log[r][Len(log[r])] \in Ends

LogInit ==
    /\ log = [r \in Runs |-> <<>>]
    /\ findable = {}
    /\ reading = [c \in Clients |-> NoRun]
    /\ got = [c \in Clients |-> <<>>]

\* Looking runs up or adding one may retire runs, but only ended ones.
RetiresEndedOnly == \A q \in findable : q \in findable' \/ Ended(q)

\* c attaches to r and reads it from its first event.
Attach(c, r) ==
    /\ reading[c] = NoRun
    /\ reading' = [reading EXCEPT ![c] = r]
    /\ got' = [got EXCEPT ![c] = <<>>]

\* A new run becomes findable, and the connection that asked for it reads it.
Publish(c, r) ==
    /\ log[r] = <<>>
    /\ findable' \in SUBSET (findable \cup {r})
    /\ r \in findable'
    /\ RetiresEndedOnly
    /\ Attach(c, r)
    /\ UNCHANGED log

Extend(r, e) ==
    /\ ~Ended(r)
    /\ log' = [log EXCEPT ![r] = Append(@, e)]
    /\ UNCHANGED <<findable, reading, got>>

\* A client looks up a run by its id.
Connect(c, r) ==
    /\ findable' \in SUBSET findable
    /\ r \in findable'
    /\ RetiresEndedOnly
    /\ Attach(c, r)
    /\ UNCHANGED log

\* A look-up that finds nothing may still retire ended runs.
Retire ==
    /\ findable' \in SUBSET findable
    /\ RetiresEndedOnly
    /\ UNCHANGED <<log, reading, got>>

Receive(c) ==
    /\ reading[c] # NoRun
    /\ Len(got[c]) < Len(log[reading[c]])
    /\ got' = [got EXCEPT ![c] = Append(@, log[reading[c]][Len(@) + 1])]
    /\ UNCHANGED <<log, findable, reading>>

Leave(c) ==
    /\ reading[c] # NoRun
    /\ reading' = [reading EXCEPT ![c] = NoRun]
    /\ got' = [got EXCEPT ![c] = <<>>]
    /\ UNCHANGED <<log, findable>>

LogNext ==
    \/ \E c \in Clients, r \in Runs : Publish(c, r) \/ Connect(c, r)
    \/ \E r \in Runs, e \in LogEvents : Extend(r, e)
    \/ Retire
    \/ \E c \in Clients : Receive(c) \/ Leave(c)

LogSpec == LogInit /\ [][LogNext]_logVars
=============================================================================

--------------------------- MODULE SuggestionLife ---------------------------
(***************************************************************************)
(* What the approval of suggestions promises a manager, without tools,     *)
(* executions and commits: a suggestion is proposed once, it is accepted   *)
(* by its own action only when that action was carried out, and its first  *)
(* verdict is its last.  Only one that two executions had in hand at once  *)
(* may get another.  SuggestionApproval is shown to implement this.        *)
(***************************************************************************)
CONSTANT Ids

VARIABLES verdict,    \* verdict[i], "none" before i is proposed
          done,       \* suggestions that are carried out
          contended   \* suggestions that two executions had in hand at once

lifeVars == <<verdict, done, contended>>

LifeInit ==
    /\ verdict = [i \in Ids |-> "none"]
    /\ done = {}
    /\ contended = {}

Proposed(i) == verdict[i] # "none"

\* What promises nothing is done from the start.
Propose(i) ==
    /\ ~Proposed(i)
    /\ verdict' = [verdict EXCEPT ![i] = "pending"]
    /\ done' \in {done, done \cup {i}}
    /\ UNCHANGED contended

\* A message may be sent whatever the verdict is.
CarryOut(i) ==
    /\ Proposed(i)
    /\ done' = done \cup {i}
    /\ UNCHANGED <<verdict, contended>>

Contend(i) ==
    /\ Proposed(i)
    /\ contended' = contended \cup {i}
    /\ UNCHANGED <<verdict, done>>

\* A task may come with the verdict; "overridden" is an acceptance by an action
\* of another kind of suggestion.
Decide(i, v) ==
    /\ verdict[i] = "pending" \/ (Proposed(i) /\ i \in contended)
    /\ done' \in {done, done \cup {i}}
    /\ v = "accepted" => i \in done'
    /\ verdict' = [verdict EXCEPT ![i] = v]
    /\ UNCHANGED contended

LifeNext ==
    \E i \in Ids : \/ Propose(i) \/ CarryOut(i) \/ Contend(i)
                   \/ \E v \in {"accepted", "overridden", "dismissed"} :
                         Decide(i, v)

LifeSpec == LifeInit /\ [][LifeNext]_lifeVars
=============================================================================

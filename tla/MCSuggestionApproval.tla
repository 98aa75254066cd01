------------------------ MODULE MCSuggestionApproval ------------------------
(* Drafts of every kind; two about the same task, one risky and one safe.  *)
(* The executions differ in nothing but their names.                       *)
EXTENDS SuggestionApproval, TLC

CONSTANTS q1, q2

Interchangeable == Permutations(Requests)

MCKind == [d \in Drafts |->
             CASE d \in {"m1", "m2"} -> "message"
               [] d = "s1" -> "standalone"
               [] d = "c1" -> "create"
               [] d = "a1" -> "assign"
               [] OTHER -> "reply"]
=============================================================================

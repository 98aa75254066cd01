---------------------------- MODULE MCTaskReview ----------------------------
(* Two tasks, the sweep and one manager's review at a time. *)
EXTENDS TaskReview
=============================================================================

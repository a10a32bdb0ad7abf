----------------------------- MODULE JobOutcome -----------------------------
(***************************************************************************)
(* What a GroupJob promises its user about the end of the run.  The        *)
(* launcher finishes at most once, with one result; the job reports that   *)
(* result, at most once and for good, and does report it in the end.  The  *)
(* controller, its caches, retries and restarts are invisible here.        *)
(***************************************************************************)
Results == {"Succeeded", "Failed"}

VARIABLES
    result,     \* how the launcher ended, "none" while it has not
    reported    \* the result the GroupJob status records, "none" before

vars == <<result, reported>>

Init == result = "none" /\ reported = "none"

Finish(r) ==
    /\ result = "none"
    /\ result' = r
    /\ UNCHANGED reported

Report ==
    /\ result # "none"
    /\ reported = "none"
    /\ reported' = result
    /\ UNCHANGED result

Next == (\E r \in Results : Finish(r)) \/ Report

\* A result does not stay unreported: what weak fairness of Report amounts to,
\* since neither of the two is taken back.
EventuallyReported == []<>(result # "none" => reported # "none")

Safety == Init /\ [][Next]_vars

Spec == Safety /\ EventuallyReported
=============================================================================

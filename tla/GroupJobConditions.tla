------------------------- MODULE GroupJobConditions -------------------------
(***************************************************************************)
(* The condition list of a GroupJob status and the functions of            *)
(* pkg/controller/mpi_job_controller_status.go that read and write it.     *)
(*                                                                         *)
(* The Go code keeps a slice with at most one entry per type: setCondition *)
(* filters the type out before it appends.  The order of the slice is      *)
(* never read, so the list is a function from types to entries, an entry   *)
(* whose status is "none" standing for a type that is not in the list.     *)
(* Messages and timestamps are left out.                                   *)
(***************************************************************************)

CondTypes == {"Created", "Running", "Restarting", "Suspended",
              "Succeeded", "Failed"}

Reasons == {"GroupJobCreated", "GroupJobRunning", "GroupJobSuspended",
            "GroupJobResumed", "GroupJobSucceeded", "GroupJobFailed",
            "GroupJobEvicted"}

Condition == [status : {"none", "True", "False"}, reason : Reasons \cup {"none"}]

Conditions == [CondTypes -> Condition]

Unset == [status |-> "none", reason |-> "none"]

NoConditions == [t \in CondTypes |-> Unset]

newCondition(status, reason) == [status |-> status, reason |-> reason]

isPresent(conds, type) == conds[type].status # "none"

hasCondition(conds, type) == conds[type].status = "True"

isSucceeded(conds) == hasCondition(conds, "Succeeded")

isFailed(conds) == hasCondition(conds, "Failed")

isFinished(conds) == isSucceeded(conds) \/ isFailed(conds)

\* The types filterOutCondition drops when a condition of type "type" comes in.
Displaced(type) ==
    {type} \cup (CASE type = "Restarting" -> {"Running"}
                   [] type = "Running"    -> {"Restarting"}
                   [] OTHER               -> {})

\* Mutant of Lowered: the Failed condition keeps its status.
MutLowered(type) == IF type \in {"Failed", "Succeeded"} THEN {"Running"} ELSE {}

\* The types whose status it turns to False.
Lowered(type) ==
    IF type \in {"Failed", "Succeeded"} THEN {"Running", "Failed"} ELSE {}

filterOutCondition(conds, type) ==
    [t \in CondTypes |->
        IF t \in Displaced(type) THEN Unset
        ELSE IF t \in Lowered(type) /\ isPresent(conds, t)
             THEN [conds[t] EXCEPT !.status = "False"]
             ELSE conds[t]]

\* A condition that already has this status and this reason is left alone,
\* and so is every other condition of the list.
setCondition(conds, type, status, reason) ==
    LET condition == newCondition(status, reason) IN
    IF conds[type] = condition
      THEN conds
      ELSE [filterOutCondition(conds, type) EXCEPT ![type] = condition]
=============================================================================

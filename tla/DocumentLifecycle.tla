------------------------- MODULE DocumentLifecycle --------------------------
(***************************************************************************)
(* What the pipeline promises of a Document, without jobs, callers, faults *)
(* or process-local memory: the stages come in order, each begins where    *)
(* the previous one ended or where it failed itself, a failure is always   *)
(* attributed to one stage, and a Document enters or leaves the trash only *)
(* between stages.                                                         *)
(***************************************************************************)
EXTENDS DocumentStages

VARIABLES
    status,     \* the parse status that document:get returns
    origin,     \* the stage a FAILED Document failed in, "NONE" otherwise
    available   \* neither the Document nor its Matter is in the trash

vars == <<status, origin, available>>

TypeOK ==
    /\ status \in Statuses
    /\ origin \in Stages \cup {"NONE"}
    /\ available \in BOOLEAN

Init == status = "IMPORTED" /\ origin = "NONE" /\ available = TRUE

CanEnter(s) ==
    /\ available
    /\ status = Source[s] \/ (status = "FAILED" /\ origin = s)

Begin(s) ==
    /\ CanEnter(s)
    /\ status' = Live[s]
    /\ origin' = "NONE"
    /\ UNCHANGED available

Complete(s) ==
    /\ status = Live[s]
    /\ status' = Done[s]
    /\ UNCHANGED <<origin, available>>

FailedIn(s) ==
    /\ status' = "FAILED"
    /\ origin' = s
    /\ UNCHANGED available

\* The stage was under way: it failed, was abandoned, or its process died.
Fail(s) == status = Live[s] /\ FailedIn(s)

\* An accepted attempt failed before the stage began.
Reject(s) == s \in AnalysisStages /\ CanEnter(s) /\ FailedIn(s)

MoveToOrFromTrash ==
    /\ status \notin LiveStatuses
    /\ available' \in BOOLEAN
    /\ UNCHANGED <<status, origin>>

Next ==
    \/ \E s \in Stages : Begin(s) \/ Complete(s) \/ Fail(s) \/ Reject(s)
    \/ MoveToOrFromTrash

Spec == Init /\ [][Next]_vars

=============================================================================

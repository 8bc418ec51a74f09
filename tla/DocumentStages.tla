--------------------------- MODULE DocumentStages ---------------------------
(* The stages of a Document and the parse statuses around each of them,    *)
(* shared by the pipeline and by the abstract lifecycle.                   *)

Stages == {"PARSE", "DETECT", "RESOLVE", "SANITIZE"}
AnalysisStages == Stages \ {"SANITIZE"}

Source == [PARSE |-> "IMPORTED", DETECT |-> "PARSED",
           RESOLVE |-> "DETECTED", SANITIZE |-> "READY"]
Live   == [PARSE |-> "PARSING", DETECT |-> "DETECTING",
           RESOLVE |-> "RESOLVING", SANITIZE |-> "SANITIZING"]
Done   == [PARSE |-> "PARSED", DETECT |-> "DETECTED",
           RESOLVE |-> "READY", SANITIZE |-> "SANITIZED"]

LiveStatuses == {"PARSING", "DETECTING", "RESOLVING", "SANITIZING"}
RestStatuses == {"IMPORTED", "PARSED", "DETECTED", "READY", "SANITIZED", "FAILED"}
Statuses == LiveStatuses \cup RestStatuses

=============================================================================

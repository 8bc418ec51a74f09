--------------------------- MODULE MCPythonBridge ---------------------------
(* Calls that share a jobId and a Document, and one that shares neither.   *)
EXTENDS PythonBridge

CONSTANTS c1, c2, c3

MCJobId(c) == IF c = c3 THEN "j2" ELSE "j1"
MCDocumentId(c) == IF c = c3 THEN "d2" ELSE "d1"
=============================================================================

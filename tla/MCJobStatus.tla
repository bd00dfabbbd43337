----------------------------- MODULE MCJobStatus -----------------------------
(* The instances of MCJobQueue, with the reports. *)
EXTENDS MCJobQueue, JobStatus
=============================================================================

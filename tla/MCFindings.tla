---------------------------- MODULE MCFindings ----------------------------
(* Instances of FindingsPipeline for TLC. *)
EXTENDS FindingsPipeline

CONSTANTS s0, s1, s2,  \* settings
          r1, r2,      \* refreshes
          a1, a2       \* administrators
=============================================================================

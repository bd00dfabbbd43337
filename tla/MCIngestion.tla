---------------------------- MODULE MCIngestion ----------------------------
(* Instances of Ingestion for TLC: two records under one aggregate key of a *)
(* click date, two of a conversion date, one of which lacks the IP and user *)
(* agent to be aggregated by.                                               *)
EXTENDS Ingestion, TLC

CONSTANTS k1, k2, k3, k4,  \* records
          b1, b2,          \* aggregate keys
          d1, d2,          \* dates
          f1, f2           \* refreshes

MCBucketOf == [c \in Rec |-> IF c \in {k3, k4} THEN b2 ELSE b1]
MCDateOf == [b \in Bucket |-> IF b = b2 THEN d2 ELSE d1]

(* k1 and k2 have the same key and are both counted. *)
SameKey == Permutations({k1, k2})
=============================================================================

----------------------------- MODULE MCJobQueue -----------------------------
(* Instances of JobQueue for TLC: two recomputations of one date (one      *)
(* dedupe key, one date-write lock), an ingestion of that date, a refresh   *)
(* without a lock.                                                         *)
EXTENDS JobQueue

CONSTANTS rec1, rec2, ing, ref,   \* runs
          w1, w2, w3, p1, p2,     \* threads and processes
          dw, dRec, dIng, dRef,   \* the date-write lock, dedupe keys
          c1, c2                  \* clients

MCProcOf == [w \in Worker |-> IF w = w2 THEN p2 ELSE p1]
MCKeyOf == [r \in Run |-> IF r = ref THEN None ELSE dw]
MCDedupeOf == [r \in Run |-> IF r = ref THEN dRef
                             ELSE IF r = ing THEN dIng ELSE dRec]
MCMaxOf == [r \in Run |-> IF r = ing THEN 1 ELSE 2]
MCPrioOf == [r \in Run |-> IF r = ref THEN 10 ELSE IF r = ing THEN 20 ELSE 30]
=============================================================================

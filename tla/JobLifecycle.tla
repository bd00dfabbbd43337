---------------------------- MODULE JobLifecycle ----------------------------
(***************************************************************************)
(* What the job queue promises its users, without workers, leases, locks   *)
(* or clocks: the states a run goes through as GET /job/status and the     *)
(* console see them, and when it may be tried again.  JobQueue implements  *)
(* this as long as workers keep their leases and their lock connections.   *)
(***************************************************************************)
EXTENDS Naturals

CONSTANTS Run, DedupeOf, MaxOf

VARIABLES status, attempts

Active == {"queued", "running"}

Init ==
  /\ status = [r \in Run |-> "absent"]
  /\ attempts = [r \in Run |-> 0]

(* Accepted, unless an active run already stands for the same work. *)
Submit(r) ==
  /\ status[r] = "absent"
  /\ \A q \in Run \ {r} : status[q] \in Active => DedupeOf[q] # DedupeOf[r]
  /\ status' = [status EXCEPT ![r] = "queued"]
  /\ UNCHANGED attempts

Start(r) ==
  /\ status[r] = "queued"
  /\ status' = [status EXCEPT ![r] = "running"]
  /\ UNCHANGED attempts

Succeed(r) ==
  /\ status[r] = "running"
  /\ status' = [status EXCEPT ![r] = "succeeded"]
  /\ UNCHANGED attempts

(* A failed execution costs an attempt, and is final when none is left or  *)
(* the error is not retryable.                                             *)
Fail(r) ==
  /\ status[r] = "running"
  /\ attempts[r] < MaxOf[r]
  /\ attempts' = [attempts EXCEPT ![r] = @ + 1]
  /\ \/ /\ attempts[r] + 1 < MaxOf[r]
        /\ status' = [status EXCEPT ![r] = "queued"]
     \/ status' = [status EXCEPT ![r] = "failed"]

(* Executions that never ran (lock busy) or were lost (worker gone) are    *)
(* handed back without costing an attempt.                                 *)
HandBack(S) ==
  /\ \A r \in S : status[r] = "running"
  /\ status' = [r \in Run |-> IF r \in S THEN "queued" ELSE status[r]]
  /\ UNCHANGED attempts

Forget(r) ==
  /\ status[r] \in {"succeeded", "failed"}
  /\ status' = [status EXCEPT ![r] = "purged"]
  /\ UNCHANGED attempts

Next ==
  \/ \E r \in Run : Submit(r) \/ Start(r) \/ Succeed(r) \/ Fail(r) \/ Forget(r)
  \/ \E S \in SUBSET Run : HandBack(S)

Spec == Init /\ [][Next]_<<status, attempts>>
=============================================================================

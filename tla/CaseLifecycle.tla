---------------------------- MODULE CaseLifecycle ----------------------------
(***************************************************************************)
(* What the review workflow promises about a case, whatever the detector   *)
(* does to its findings meanwhile: a status that only reviews change, a    *)
(* claim that only administrators change, follow-up tasks that appear when *)
(* the fraud is confirmed and are called off when it is withdrawn.  Every  *)
(* operation is one step, also on several cases.  CaseReview implements    *)
(* this with transactions that lock rows one by one.                       *)
(***************************************************************************)
CONSTANTS Case, TaskType, Admin, None

VARIABLES status, tasks, assignee

Status == {"unhandled", "investigating", "confirmed_fraud", "white"}

Init ==
  /\ status = [c \in Case |-> "unhandled"]
  /\ tasks = [c \in Case |-> [t \in TaskType |-> "none"]]
  /\ assignee = [c \in Case |-> None]

(* Confirmed: everything not done yet is to do.  Withdrawn: everything not *)
(* done is called off.  Done stays done.                                   *)
Consequence(s, w) ==
  CASE w = "completed" -> w
    [] s = "confirmed_fraud" /\ w # "completed" -> "open"
    [] s \in {"white", "unhandled"} /\ w \in {"open", "cancelled"} -> "cancelled"
    [] OTHER -> w

Review(S, s) ==
  /\ status' = [c \in Case |-> IF c \in S THEN s ELSE status[c]]
  /\ tasks' = [c \in Case |-> IF c \in S
                              THEN [t \in TaskType |-> Consequence(s, tasks[c][t])]
                              ELSE tasks[c]]
  /\ UNCHANGED assignee

Claim(S, a) ==
  /\ assignee' = [c \in Case |-> IF c \in S THEN a ELSE assignee[c]]
  /\ UNCHANGED <<status, tasks>>

Release(S) ==
  /\ assignee' = [c \in Case |-> IF c \in S THEN None ELSE assignee[c]]
  /\ UNCHANGED <<status, tasks>>

(* A task, once there, is ticked off or taken up again by hand. *)
Work(c, t, w) ==
  /\ tasks[c][t] # "none"
  /\ tasks' = [tasks EXCEPT ![c][t] = w]
  /\ UNCHANGED <<status, assignee>>

Next ==
  \/ \E S \in SUBSET Case :
       \/ \E s \in Status : Review(S, s)
       \/ \E a \in Admin : Claim(S, a)
       \/ Release(S)
  \/ \E c \in Case, t \in TaskType, w \in {"open", "completed"} : Work(c, t, w)

Spec == Init /\ [][Next]_<<status, tasks, assignee>>
=============================================================================

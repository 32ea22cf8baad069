----------------------------- MODULE AsyncWrite -----------------------------
(***************************************************************************)
(* What an asynchronous write promises to the API client that submits it,  *)
(* without rows, queues or workers: a write that was submitted takes       *)
(* effect at most once, it is reported completed only after its effect and *)
(* failed only without one, and a reported outcome never changes unless    *)
(* the client withdraws the job.                                           *)
(***************************************************************************)
EXTENDS Naturals

CONSTANT Job            \* the writes a client may submit

VARIABLES outcome,      \* outcome[j]: what the client can learn by polling
          effects       \* effects[j]: how many times the write took effect

promiseVars == <<outcome, effects>>

Outcome == {"none", "open", "completed", "failed", "withdrawn"}

Init ==
  /\ outcome = [j \in Job |-> "none"]
  /\ effects = [j \in Job |-> 0]

Submit(j) ==
  /\ outcome[j] = "none"
  /\ outcome' = [outcome EXCEPT ![j] = "open"]
  /\ UNCHANGED effects

\* A withdrawn job may still take effect: a worker may already hold it.
TakeEffect(j) ==
  /\ outcome[j] \in {"open", "withdrawn"}
  /\ effects[j] = 0
  /\ effects' = [effects EXCEPT ![j] = 1]
  /\ UNCHANGED outcome

ReportCompleted(j) ==
  /\ outcome[j] = "open"
  /\ effects[j] = 1
  /\ outcome' = [outcome EXCEPT ![j] = "completed"]
  /\ UNCHANGED effects

ReportFailed(j) ==
  /\ outcome[j] = "open"
  /\ effects[j] = 0
  /\ outcome' = [outcome EXCEPT ![j] = "failed"]
  /\ UNCHANGED effects

Withdraw(j) ==
  /\ outcome[j] \in {"open", "completed", "failed"}
  /\ outcome' = [outcome EXCEPT ![j] = "withdrawn"]
  /\ UNCHANGED effects

Next ==
  \E j \in Job : Submit(j) \/ TakeEffect(j) \/ ReportCompleted(j)
                 \/ ReportFailed(j) \/ Withdraw(j)

Spec == Init /\ [][Next]_promiseVars
=============================================================================

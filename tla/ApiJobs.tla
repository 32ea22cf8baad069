------------------------------- MODULE ApiJobs ------------------------------
(***************************************************************************)
(* The asynchronous writes of the REST API.  A controller stores an ApiJob *)
(* row and hands its id to the Active Job adapter; a worker loads the row, *)
(* marks it "processing", runs the command in one database transaction and *)
(* stores the outcome.  Every statement on the row is a database step of   *)
(* its own: the row lock of ApiJob.lock.find is taken outside a            *)
(* transaction, so it ends with the statement.                             *)
(*                                                                         *)
(* The adapter is not part of the repository.  It delivers at least once   *)
(* or at most once depending on which one the host installs; the constant  *)
(* Fault names the ways a deployment may misbehave in a run.               *)
(***************************************************************************)
EXTENDS Naturals

CONSTANTS
  Job,            \* identifiers of ApiJob rows
  Worker,         \* threads that execute ExecuteApiJobJob
  NoJob,          \* what an idle worker holds
  Fault,          \* the misbehaviours this instance admits
  MaxDeliveries   \* bound: how often the adapter hands out one job

FaultKind == {"enqueueLost",  \* the web process stops before perform_later
              "requeue",      \* a worker dies, the adapter delivers again
              "lose",         \* a worker dies, the adapter forgets the job
              "overlap",      \* delivered again while the holder still runs
              "dbError",      \* a statement outside the command's transaction
                              \* raises
              "capChange"}    \* restart with another payload size limit

ASSUME JobAssumption == NoJob \notin Job
ASSUME FaultAssumption == Fault \subseteq FaultKind
ASSUME BoundAssumption == MaxDeliveries \in Nat \ {0}

VARIABLES
  request,     \* request[j]: the HTTP request that submits j
  oversized,   \* jobs whose payload exceeds the configured limit
  row,         \* row[j]: the ApiJob row
  queue,       \* queue[j]: deliveries of j waiting in the adapter
  deliveries,  \* deliveries[j]: deliveries of j handed out so far
  commits,     \* commits[j]: committed executions of the command of j
  pc,          \* pc[w]: the statement of perform that w executes next
  held,        \* held[w]: the job w executes
  loaded,      \* loaded[w]: the row as Active Record last read or wrote it
  returned     \* returned[w]: what the command of w returned

webVars    == <<request, oversized>>
rowVars    == <<row>>
queueVars  == <<queue, deliveries>>
workerVars == <<pc, held, loaded, returned>>
vars == <<request, oversized, row, queue, deliveries, commits,
          pc, held, loaded, returned>>

Status   == {"pending", "processing", "completed", "failed"}
Terminal == {"completed", "failed"}
Gone     == {"absent", "destroyed"}

\* The columns a worker writes.  The result of the n-th committed execution
\* is n; 0 is the empty result.  error stands for error_class and
\* error_message, which are written together.
Row == [status : Status \cup Gone, result : Nat, error : BOOLEAN]

NewRow       == [status |-> "pending", result |-> 0, error |-> FALSE]
AbsentRow    == [status |-> "absent", result |-> 0, error |-> FALSE]
DestroyedRow == [status |-> "destroyed", result |-> 0, error |-> FALSE]

Exists(j) == row[j].status \notin Gone

\* An UPDATE of a row that is gone touches no row and raises nothing.
Write(j, newRow) ==
  row' = IF Exists(j) THEN [row EXCEPT ![j] = newRow] ELSE row

\* Active Record only writes the attributes that differ from what it last
\* read or wrote; the other columns keep what other workers stored in them.
Dirty(new, known, stored) == IF new = known THEN stored ELSE new

Saved(new, known, stored) ==
  [status |-> Dirty(new.status, known.status, stored.status),
   result |-> Dirty(new.result, known.result, stored.result),
   error  |-> Dirty(new.error, known.error, stored.error)]

Deliver(j) ==
  /\ deliveries[j] < MaxDeliveries
  /\ queue' = [queue EXCEPT ![j] = @ + 1]
  /\ deliveries' = [deliveries EXCEPT ![j] = @ + 1]

Goto(w, label) == pc' = [pc EXCEPT ![w] = label]

\* The worker forgets the job it executed.
Release(w) ==
  /\ Goto(w, "idle")
  /\ held' = [held EXCEPT ![w] = NoJob]
  /\ loaded' = [loaded EXCEPT ![w] = AbsentRow]
  /\ returned' = [returned EXCEPT ![w] = 0]

-----------------------------------------------------------------------------
\* The web process and the API client.

\* compat_create!: the payload size is validated, the row is committed.
Create(j) ==
  /\ request[j] = "new"
  /\ j \notin oversized
  /\ request' = [request EXCEPT ![j] = "created"]
  /\ row' = [row EXCEPT ![j] = NewRow]
  /\ UNCHANGED <<oversized, queueVars, commits, workerVars>>

\* The token is not accessible, or the payload exceeds the limit.
Refuse(j) ==
  /\ request[j] = "new"
  /\ request' = [request EXCEPT ![j] = "refused"]
  /\ UNCHANGED <<oversized, rowVars, queueVars, commits, workerVars>>

\* perform_later, then 202 Accepted.
Enqueue(j) ==
  /\ request[j] = "created"
  /\ request' = [request EXCEPT ![j] = "accepted"]
  /\ Deliver(j)
  /\ UNCHANGED <<oversized, rowVars, commits, workerVars>>

\* The row is committed, the delivery is not: the client gets no 202.
EnqueueLost(j) ==
  /\ "enqueueLost" \in Fault
  /\ request[j] = "created"
  /\ request' = [request EXCEPT ![j] = "errored"]
  /\ UNCHANGED <<oversized, rowVars, queueVars, commits, workerVars>>

\* DELETE /jobs/{id}: the row is destroyed whatever its status is.
Destroy(j) ==
  /\ Exists(j)
  /\ row' = [row EXCEPT ![j] = DestroyedRow]
  /\ UNCHANGED <<webVars, queueVars, commits, workerVars>>

\* The limit is read from the environment at boot: it changes with a restart,
\* when no worker executes a job.
Reconfigure(S) ==
  /\ "capChange" \in Fault
  /\ \A w \in Worker : pc[w] = "idle"
  /\ oversized' = S
  /\ UNCHANGED <<request, rowVars, queueVars, commits, workerVars>>

-----------------------------------------------------------------------------
\* ExecuteApiJobJob#perform, one action per statement that can be interleaved.

\* Mutant of Find: a redelivery of a job that is already being processed is
\* taken for a duplicate and skipped.
FindUnlessProcessing(w, j) ==
  /\ pc[w] = "idle"
  /\ queue[j] > 0
  /\ queue' = [queue EXCEPT ![j] = @ - 1]
  /\ held' = [held EXCEPT ![w] = j]
  /\ IF Exists(j) /\ row[j].status # "processing"
       THEN /\ loaded' = [loaded EXCEPT ![w] = row[j]]
            /\ Goto(w, "validate")
       ELSE /\ Goto(w, "ack")
            /\ UNCHANGED loaded
  /\ UNCHANGED <<webVars, rowVars, deliveries, commits, returned>>

\* ApiJob.lock.find: a row that is gone raises RecordNotFound, which perform
\* rescues; fail_job! then returns at once because it has no job.
Find(w, j) ==
  /\ pc[w] = "idle"
  /\ queue[j] > 0
  /\ queue' = [queue EXCEPT ![j] = @ - 1]
  /\ held' = [held EXCEPT ![w] = j]
  /\ IF Exists(j)
       THEN /\ loaded' = [loaded EXCEPT ![w] = row[j]]
            /\ Goto(w, "validate")
       ELSE /\ Goto(w, "ack")
            /\ UNCHANGED loaded
  /\ UNCHANGED <<webVars, rowVars, deliveries, commits, returned>>

\* Any other error of that statement is rescued and forgotten the same way.
FindRaises(w, j) ==
  /\ "dbError" \in Fault
  /\ pc[w] = "idle"
  /\ queue[j] > 0
  /\ queue' = [queue EXCEPT ![j] = @ - 1]
  /\ held' = [held EXCEPT ![w] = j]
  /\ Goto(w, "ack")
  /\ UNCHANGED <<webVars, rowVars, deliveries, commits, loaded, returned>>

\* Mutant of MarkProcessing: update_columns skips the validations, so that a
\* status outside STATUSES goes unnoticed.
MarkRunning(w) ==
  /\ pc[w] = "validate"
  /\ Write(held[w], [row[held[w]] EXCEPT !.status = "running"])
  /\ loaded' = [loaded EXCEPT ![w].status = "running"]
  /\ Goto(w, "run")
  /\ UNCHANGED <<webVars, queueVars, commits, held, returned>>

\* validate_token_for_job!, then update_columns: the status found is not
\* looked at.
MarkProcessing(w) ==
  /\ pc[w] = "validate"
  /\ Write(held[w], [row[held[w]] EXCEPT !.status = "processing"])
  /\ loaded' = [loaded EXCEPT ![w].status = "processing"]
  /\ Goto(w, "run")
  /\ UNCHANGED <<webVars, queueVars, commits, held, returned>>

\* Mutant of RunCommand: the transaction is rolled back silently (a raised
\* ActiveRecord::Rollback, say) and perform goes on.
RunCommandRolledBack(w) ==
  /\ pc[w] = "run"
  /\ returned' = [returned EXCEPT ![w] = commits[held[w]] + 1]
  /\ Goto(w, "complete")
  /\ UNCHANGED <<webVars, rowVars, queueVars, commits, held, loaded>>

\* SyncRunner.call commits the command's transaction.
RunCommand(w) ==
  /\ pc[w] = "run"
  /\ commits' = [commits EXCEPT ![held[w]] = @ + 1]
  /\ returned' = [returned EXCEPT ![w] = commits[held[w]] + 1]
  /\ Goto(w, "complete")
  /\ UNCHANGED <<webVars, rowVars, queueVars, held, loaded>>

\* Mutant of Complete: the error of an earlier execution is not cleared.
CompleteKeepingError(w) ==
  /\ pc[w] = "complete"
  /\ held[w] \notin oversized
  /\ LET outcome == [status |-> "completed", result |-> returned[w],
                     error |-> loaded[w].error]
     IN  Write(held[w], Saved(outcome, loaded[w], row[held[w]]))
  /\ Goto(w, "ack")
  /\ UNCHANGED <<webVars, queueVars, commits, held, loaded, returned>>

\* update!(status: "completed", ...), which validates the payload size again.
Complete(w) ==
  /\ pc[w] = "complete"
  /\ held[w] \notin oversized
  /\ LET outcome == [status |-> "completed", result |-> returned[w],
                     error |-> FALSE]
     IN  Write(held[w], Saved(outcome, loaded[w], row[held[w]]))
  /\ Goto(w, "ack")
  /\ UNCHANGED <<webVars, queueVars, commits, held, loaded, returned>>

\* Mutant of PerformRaises: what follows the commit (a notification, say) may
\* raise too and is reported as a failure of the command.
PerformRaisesLate(w) ==
  /\ pc[w] \in {"validate", "run", "complete"}
  /\ Goto(w, "fail")
  /\ UNCHANGED <<webVars, rowVars, queueVars, commits, held, loaded, returned>>

\* A statement of perform raises StandardError: the token no longer fits the
\* job, the command raises and its transaction is rolled back, or update!
\* finds the payload too large.
PerformRaises(w) ==
  /\ \/ pc[w] \in {"validate", "run"}
     \/ pc[w] = "complete" /\ (held[w] \in oversized \/ "dbError" \in Fault)
  /\ Goto(w, "fail")
  /\ UNCHANGED <<webVars, rowVars, queueVars, commits, held, loaded, returned>>

\* Mutant of FailJob: the error is logged, the row is left as it is.
FailJobLogged(w) ==
  /\ pc[w] = "fail"
  /\ Goto(w, "ack")
  /\ UNCHANGED <<webVars, rowVars, queueVars, commits, held, loaded, returned>>

\* fail_job!: update returns false, and writes nothing, when the row is not
\* valid.
FailJob(w) ==
  /\ pc[w] = "fail"
  /\ LET outcome == [status |-> "failed", result |-> 0, error |-> TRUE]
     IN  IF held[w] \in oversized
           THEN UNCHANGED row
           ELSE Write(held[w], Saved(outcome, loaded[w], row[held[w]]))
  /\ Goto(w, "ack")
  /\ UNCHANGED <<webVars, queueVars, commits, held, loaded, returned>>

\* perform returned: the adapter removes the delivery.
Ack(w) ==
  /\ pc[w] = "ack"
  /\ Release(w)
  /\ UNCHANGED <<webVars, rowVars, queueVars, commits>>

-----------------------------------------------------------------------------
\* The Active Job adapter when something goes wrong.

\* fail_job! raises, so perform does: the adapter retries or gives up.
FailJobRaises(w) ==
  /\ "dbError" \in Fault
  /\ pc[w] = "fail"
  /\ Release(w)
  /\ Deliver(held[w]) \/ UNCHANGED queueVars
  /\ UNCHANGED <<webVars, rowVars, commits>>

\* The worker process is killed; an open transaction is rolled back.
Kill(w) ==
  /\ pc[w] # "idle"
  /\ Release(w)
  /\ \/ "requeue" \in Fault /\ Deliver(held[w])
     \/ "lose" \in Fault /\ UNCHANGED queueVars
  /\ UNCHANGED <<webVars, rowVars, commits>>

\* The adapter takes the worker for dead and delivers the job again.
Overlap(w) ==
  /\ "overlap" \in Fault
  /\ pc[w] # "idle"
  /\ Deliver(held[w])
  /\ UNCHANGED <<webVars, rowVars, commits, workerVars>>

-----------------------------------------------------------------------------
Init ==
  /\ request = [j \in Job |-> "new"]
  /\ oversized \in SUBSET Job
  /\ row = [j \in Job |-> AbsentRow]
  /\ queue = [j \in Job |-> 0]
  /\ deliveries = [j \in Job |-> 0]
  /\ commits = [j \in Job |-> 0]
  /\ pc = [w \in Worker |-> "idle"]
  /\ held = [w \in Worker |-> NoJob]
  /\ loaded = [w \in Worker |-> AbsentRow]
  /\ returned = [w \in Worker |-> 0]

WebStep ==
  \/ \E j \in Job : Create(j) \/ Refuse(j) \/ Enqueue(j) \/ EnqueueLost(j)
                    \/ Destroy(j)
  \/ \E S \in SUBSET Job : Reconfigure(S)

PerformStep(w) ==
  \/ \E j \in Job : Find(w, j) \/ FindRaises(w, j)
  \/ MarkProcessing(w) \/ RunCommand(w) \/ Complete(w)
  \/ PerformRaises(w) \/ FailJob(w) \/ Ack(w)

AdapterStep(w) == FailJobRaises(w) \/ Kill(w) \/ Overlap(w)

Next == WebStep \/ \E w \in Worker : PerformStep(w) \/ AdapterStep(w)

Spec == Init /\ [][Next]_vars

\* A live worker executes the next statement of perform, and an idle one takes
\* a delivery that stays available.  Neither the client nor a fault is fair.
FairSpec ==
  /\ Spec
  /\ \A w \in Worker : WF_vars(PerformStep(w))
  /\ \A j \in Job : WF_vars(\E w \in Worker : Find(w, j))

-----------------------------------------------------------------------------
\* Properties.

\* Every variable has its type, and a worker is idle exactly when it holds no
\* job.
TypeOK ==
  /\ request \in [Job -> {"new", "created", "accepted", "refused", "errored"}]
  /\ oversized \in SUBSET Job
  /\ row \in [Job -> Row]
  /\ queue \in [Job -> Nat]
  /\ deliveries \in [Job -> 0..MaxDeliveries]
  /\ commits \in [Job -> Nat]
  /\ pc \in [Worker -> {"idle", "validate", "run", "complete", "fail", "ack"}]
  /\ held \in [Worker -> Job \cup {NoJob}]
  /\ loaded \in [Worker -> Row]
  /\ returned \in [Worker -> Nat]
  /\ \A w \in Worker : held[w] = NoJob <=> pc[w] = "idle"

\* A client that polls "completed" may rely on the write: its command was
\* committed, whatever the deployment does to the workers
\* (execute_api_job_job.rb stores "completed" after SyncRunner only).
CompletedMeansCommitted ==
  \A j \in Job : row[j].status = "completed" => commits[j] > 0

\* The columns of a settled row belong together: a completed row shows the
\* result of the last committed execution and no error, a failed row shows an
\* error and no result.  perform writes them with partial updates computed
\* from what it loaded, so this needs executions of one job not to overlap.
OutcomeIsLastExecution ==
  \A j \in Job :
    /\ row[j].status = "completed" =>
         row[j].result = commits[j] /\ commits[j] > 0 /\ ~row[j].error
    /\ row[j].status = "failed" => row[j].result = 0 /\ row[j].error

\* The worker w is bound to write a terminal status into the row of j.
Settler(w, j) ==
  /\ held[w] = j
  /\ pc[w] \in {"validate", "run", "complete", "fail"}
  /\ loaded[w].status \notin Terminal

\* No accepted write is forgotten: as long as polling shows it unsettled, a
\* delivery waits or a worker is bound to settle it.
NoForgottenJob ==
  \A j \in Job :
    request[j] = "accepted" /\ row[j].status \in {"pending", "processing"}
      => queue[j] > 0 \/ \E w \in Worker : Settler(w, j)

\* A write that was accepted with 202 ends up settled or dropped for good,
\* although workers die and deliveries are repeated.
AcceptedSettles ==
  \A j \in Job :
    request[j] = "accepted"
      ~> [](row[j].status \in Terminal \cup {"destroyed"})

\* The client's view of the rows, and the promise it is given.
Seen(j) ==
  CASE row[j].status = "absent"                     -> "none"
    [] row[j].status \in {"pending", "processing"} -> "open"
    [] row[j].status = "destroyed"                  -> "withdrawn"
    [] OTHER                                        -> row[j].status

Promise == INSTANCE AsyncWrite WITH
             outcome <- [j \in Job |-> Seen(j)], effects <- commits

\* With an adapter that delivers at most once, the row, the queue and the
\* workers together implement the promise of AsyncWrite.
PromiseKept == Promise!Spec
=============================================================================

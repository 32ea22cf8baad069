--------------------------- MODULE ApiJobsProofs ----------------------------
(***************************************************************************)
(* Theorems about ApiJobs for every set of jobs and workers, every bound   *)
(* on deliveries and, unless a theorem says otherwise, every set of        *)
(* faults.                                                                 *)
(***************************************************************************)
EXTENDS ApiJobs, TLAPS

-----------------------------------------------------------------------------
\* What the helpers of the row do.

\* A partial update keeps the row a row: each column is one of the two values
\* it chooses from.
LEMMA SavedIsRow ==
  ASSUME NEW new \in Row, NEW known \in Row, NEW stored \in Row
  PROVE  Saved(new, known, stored) \in Row
BY DEF Saved, Dirty, Row

\* Writing a row of type Row into the table keeps the table well typed.
LEMMA WriteType ==
  ASSUME row \in [Job -> Row], NEW j \in Job, NEW r \in Row, Write(j, r)
  PROVE  row' \in [Job -> Row]
BY DEF Write

\* The constant rows are rows.
LEMMA ConstantRows == NewRow \in Row /\ AbsentRow \in Row /\ DestroyedRow \in Row
BY DEF NewRow, AbsentRow, DestroyedRow, Row, Status, Gone

\* The initial states are well typed.
LEMMA InitTypeOK == Init => TypeOK
BY ConstantRows, BoundAssumption, JobAssumption DEF Init, TypeOK

\* Every step keeps every variable well typed; the case split follows Next.
LEMMA NextTypeOK == TypeOK /\ [Next]_vars => TypeOK'
<1> SUFFICES ASSUME TypeOK, [Next]_vars PROVE TypeOK'
  OBVIOUS
<1> USE JobAssumption, BoundAssumption, ConstantRows
<1>1. ASSUME NEW j \in Job, Create(j) PROVE TypeOK'
  BY <1>1 DEF TypeOK, Create, queueVars, workerVars
<1>2. ASSUME NEW j \in Job, Refuse(j) PROVE TypeOK'
  BY <1>2 DEF TypeOK, Refuse, rowVars, queueVars, workerVars
<1>3. ASSUME NEW j \in Job, Enqueue(j) PROVE TypeOK'
  BY <1>3 DEF TypeOK, Enqueue, Deliver, rowVars, workerVars
<1>4. ASSUME NEW j \in Job, EnqueueLost(j) PROVE TypeOK'
  BY <1>4 DEF TypeOK, EnqueueLost, rowVars, queueVars, workerVars
<1>5. ASSUME NEW j \in Job, Destroy(j) PROVE TypeOK'
  BY <1>5 DEF TypeOK, Destroy, webVars, queueVars, workerVars
<1>6. ASSUME NEW S \in SUBSET Job, Reconfigure(S) PROVE TypeOK'
  BY <1>6 DEF TypeOK, Reconfigure, rowVars, queueVars, workerVars
<1>7. ASSUME NEW w \in Worker, NEW j \in Job, Find(w, j) PROVE TypeOK'
  BY <1>7 DEF TypeOK, Find, Goto, webVars, rowVars
<1>8. ASSUME NEW w \in Worker, NEW j \in Job, FindRaises(w, j) PROVE TypeOK'
  BY <1>8 DEF TypeOK, FindRaises, Goto, webVars, rowVars
<1>9. ASSUME NEW w \in Worker, MarkProcessing(w) PROVE TypeOK'
  <2>1. held[w] \in Job
    BY <1>9 DEF MarkProcessing, TypeOK
  <2>2. row' \in [Job -> Row]
    <3>1. [row[held[w]] EXCEPT !.status = "processing"] \in Row
      BY <2>1 DEF TypeOK, Row, Status
    <3>2. QED
      BY <1>9, <2>1, <3>1, WriteType DEF TypeOK, MarkProcessing
  <2>3. loaded' \in [Worker -> Row]
    BY <1>9 DEF MarkProcessing, TypeOK, Row, Status
  <2>4. QED
    BY <1>9, <2>1, <2>2, <2>3
    DEF MarkProcessing, TypeOK, Goto, webVars, queueVars
<1>10. ASSUME NEW w \in Worker, RunCommand(w) PROVE TypeOK'
  <2>1. held[w] \in Job
    BY <1>10 DEF RunCommand, TypeOK
  <2>2. QED
    BY <1>10, <2>1 DEF RunCommand, TypeOK, Goto, webVars, rowVars, queueVars
<1>11. ASSUME NEW w \in Worker, Complete(w) PROVE TypeOK'
  <2>1. held[w] \in Job
    BY <1>11 DEF Complete, TypeOK
  <2>2. [status |-> "completed", result |-> returned[w], error |-> FALSE] \in Row
    BY DEF TypeOK, Row, Status
  <2>3. row' \in [Job -> Row]
    BY <1>11, <2>1, <2>2, SavedIsRow, WriteType DEF TypeOK, Complete
  <2>4. QED
    BY <1>11, <2>1, <2>3 DEF Complete, TypeOK, Goto, webVars, queueVars
<1>12. ASSUME NEW w \in Worker, PerformRaises(w) PROVE TypeOK'
  BY <1>12 DEF TypeOK, PerformRaises, Goto, webVars, rowVars, queueVars
<1>13. ASSUME NEW w \in Worker, FailJob(w) PROVE TypeOK'
  <2>1. held[w] \in Job
    BY <1>13 DEF FailJob, TypeOK
  <2>2. [status |-> "failed", result |-> 0, error |-> TRUE] \in Row
    BY DEF Row, Status
  <2>3. row' \in [Job -> Row]
    BY <1>13, <2>1, <2>2, SavedIsRow, WriteType DEF TypeOK, FailJob
  <2>4. QED
    BY <1>13, <2>1, <2>3 DEF FailJob, TypeOK, Goto, webVars, queueVars
<1>14. ASSUME NEW w \in Worker, Ack(w) PROVE TypeOK'
  BY <1>14 DEF TypeOK, Ack, Release, Goto, webVars, rowVars, queueVars
<1>15. ASSUME NEW w \in Worker, AdapterStep(w) PROVE TypeOK'
  <2>1. CASE FailJobRaises(w)
    BY <2>1
    DEF TypeOK, FailJobRaises, Deliver, Release, Goto, webVars, rowVars, queueVars
  <2>2. CASE Kill(w)
    BY <2>2
    DEF TypeOK, Kill, Deliver, Release, Goto, webVars, rowVars, queueVars
  <2>3. CASE Overlap(w)
    BY <2>3 DEF TypeOK, Overlap, Deliver, webVars, rowVars, workerVars
  <2>4. QED
    BY <1>15, <2>1, <2>2, <2>3 DEF AdapterStep
<1>16. CASE UNCHANGED vars
  BY <1>16 DEF TypeOK, vars
<1>17. QED
  BY <1>1, <1>2, <1>3, <1>4, <1>5, <1>6, <1>7, <1>8, <1>9, <1>10, <1>11,
     <1>12, <1>13, <1>14, <1>15, <1>16
  DEF Next, WebStep, PerformStep

\* Type correctness: the variables keep their types, and a worker is idle
\* exactly when it holds no job, under every combination of faults.
THEOREM TypeCorrect == Spec => []TypeOK
BY InitTypeOK, NextTypeOK, PTL DEF Spec

-----------------------------------------------------------------------------
\* "completed" is only stored after a commit.

\* CompletedMeansCommitted is not inductive: nothing in it says that a worker
\* about to store "completed" has committed.
CommittedInv ==
  /\ CompletedMeansCommitted
  /\ \A w \in Worker : pc[w] = "complete" => commits[held[w]] > 0

\* A partial update shows "completed" only if it writes it or found it there.
LEMMA SavedStatus ==
  ASSUME NEW new, NEW known, NEW stored
  PROVE  Saved(new, known, stored).status \in {new.status, stored.status}
BY DEF Saved, Dirty

\* Every step keeps the strengthened invariant; only RunCommand and Complete
\* make either part of it newly matter.
LEMMA NextCommittedInv ==
  TypeOK /\ CommittedInv /\ [Next]_vars => CommittedInv'
<1> SUFFICES ASSUME TypeOK, CommittedInv, [Next]_vars PROVE CommittedInv'
  OBVIOUS
<1> USE DEF CommittedInv, CompletedMeansCommitted, TypeOK
<1>1. ASSUME NEW j \in Job,
             Create(j) \/ Refuse(j) \/ Enqueue(j) \/ EnqueueLost(j) \/ Destroy(j)
      PROVE  CommittedInv'
  BY <1>1 DEF Create, Refuse, Enqueue, EnqueueLost, Destroy, NewRow,
              DestroyedRow, rowVars, workerVars
<1>2. ASSUME NEW S \in SUBSET Job, Reconfigure(S) PROVE CommittedInv'
  BY <1>2 DEF Reconfigure, rowVars, workerVars
<1>3. ASSUME NEW w \in Worker, NEW j \in Job, Find(w, j) \/ FindRaises(w, j)
      PROVE  CommittedInv'
  BY <1>3 DEF Find, FindRaises, Goto, rowVars
<1>4. ASSUME NEW w \in Worker, MarkProcessing(w) PROVE CommittedInv'
  BY <1>4 DEF MarkProcessing, Write, Goto
<1>5. ASSUME NEW w \in Worker, RunCommand(w) PROVE CommittedInv'
  BY <1>5 DEF RunCommand, Goto, rowVars
<1>6. ASSUME NEW w \in Worker, Complete(w) PROVE CommittedInv'
  <2>1. held[w] \in Job /\ commits[held[w]] > 0
    BY <1>6 DEF Complete
  <2>2. \A j \in Job : row'[j].status = "completed"
                        => row[j].status = "completed" \/ j = held[w]
    BY <1>6 DEF Complete, Write
  <2>3. QED
    BY <1>6, <2>1, <2>2 DEF Complete, Goto
<1>7. ASSUME NEW w \in Worker, FailJob(w) PROVE CommittedInv'
  <2> DEFINE outcome == [status |-> "failed", result |-> 0, error |-> TRUE]
  <2>1. row' \in {row, [row EXCEPT ![held[w]] =
                          Saved(outcome, loaded[w], row[held[w]])]}
    BY <1>7 DEF FailJob, Write
  <2>2. \A j \in Job : row'[j].status = "completed"
                        => row[j].status = "completed"
    BY <2>1, SavedStatus
  <2>3. QED
    BY <1>7, <2>2 DEF FailJob, Goto
<1>8. ASSUME NEW w \in Worker, PerformRaises(w) \/ Ack(w) PROVE CommittedInv'
  BY <1>8 DEF PerformRaises, Ack, Release, Goto, rowVars
<1>9. ASSUME NEW w \in Worker, AdapterStep(w) PROVE CommittedInv'
  BY <1>9 DEF AdapterStep, FailJobRaises, Kill, Overlap, Release, Goto, rowVars,
              workerVars
<1>10. CASE UNCHANGED vars
  BY <1>10 DEF vars
<1>11. QED
  BY <1>1, <1>2, <1>3, <1>4, <1>5, <1>6, <1>7, <1>8, <1>9, <1>10
  DEF Next, WebStep, PerformStep

\* A polled "completed" always stands for a committed command, whatever the
\* deployment does to workers, deliveries and statements.
THEOREM CompletedIsCommitted == Spec => []CompletedMeansCommitted
<1>1. Init => CommittedInv
  BY DEF Init, CommittedInv, CompletedMeansCommitted, AbsentRow
<1>2. CommittedInv => CompletedMeansCommitted
  BY DEF CommittedInv
<1>3. QED
  BY <1>1, <1>2, TypeCorrect, NextCommittedInv, PTL DEF Spec

-----------------------------------------------------------------------------
\* An adapter that loses nothing forgets no accepted write.

\* What NoForgottenJob needs to be inductive: a stored row stays within the
\* size limit, and a worker past the mark remembers "processing", so that its
\* partial update will write the terminal status.
RememberedInv ==
  /\ NoForgottenJob
  /\ \A j \in Job : Exists(j) => j \notin oversized
  /\ \A w \in Worker :
       pc[w] \in {"run", "complete"} => loaded[w].status = "processing"

\* Every step keeps the strengthened invariant when nothing is lost.
LEMMA NextRememberedInv ==
  ASSUME Fault \cap {"lose", "dbError", "capChange"} = {}
  PROVE  TypeOK /\ RememberedInv /\ [Next]_vars => RememberedInv'
<1> SUFFICES ASSUME TypeOK, RememberedInv, [Next]_vars PROVE RememberedInv'
  OBVIOUS
<1> USE JobAssumption
    DEF RememberedInv, NoForgottenJob, Settler, TypeOK, Terminal, Exists, Gone
<1>1. ASSUME NEW j \in Job,
             Create(j) \/ Refuse(j) \/ EnqueueLost(j) \/ Destroy(j)
      PROVE  RememberedInv'
  BY <1>1 DEF Create, Refuse, EnqueueLost, Destroy, NewRow, DestroyedRow,
              webVars, rowVars, queueVars, workerVars
<1>2. ASSUME NEW j \in Job, Enqueue(j) PROVE RememberedInv'
  BY <1>2 DEF Enqueue, Deliver, rowVars, workerVars
<1>3. ASSUME NEW S \in SUBSET Job, Reconfigure(S) PROVE FALSE
  BY <1>3 DEF Reconfigure
<1>4. ASSUME NEW w \in Worker, NEW j \in Job, Find(w, j)
      PROVE  RememberedInv'
  <2>1. ASSUME NEW v \in Worker, NEW i \in Job, Settler(v, i)
        PROVE  Settler(v, i)'
    BY <1>4, <2>1 DEF Find, Goto
  <2>2. row[j].status \in {"pending", "processing"} => Settler(w, j)'
    BY <1>4 DEF Find, Goto
  <2>3. QED
    BY <1>4, <2>1, <2>2 DEF Find, Goto, webVars, rowVars
<1>5. ASSUME NEW w \in Worker, NEW j \in Job, FindRaises(w, j) PROVE FALSE
  BY <1>5 DEF FindRaises
<1>6. ASSUME NEW w \in Worker, MarkProcessing(w) PROVE RememberedInv'
  <2>1. held[w] \in Job
    BY <1>6 DEF MarkProcessing
  <2>2. Settler(w, held[w])'
    BY <1>6, <2>1 DEF MarkProcessing, Goto, Row
  <2>3. ASSUME NEW v \in Worker, NEW i \in Job, Settler(v, i)
        PROVE  Settler(v, i)'
    BY <1>6, <2>2, <2>3 DEF MarkProcessing, Goto
  <2>4. \A i \in Job : i # held[w] => row'[i] = row[i]
    BY <1>6, <2>1 DEF MarkProcessing, Write
  <2>5. \A i \in Job : Exists(i)' => Exists(i)
    BY <1>6, <2>1, <2>4 DEF MarkProcessing, Write
  <2>6. loaded'[w].status = "processing"
    BY <1>6 DEF MarkProcessing, Row
  <2>7. QED
    BY <1>6, <2>1, <2>2, <2>3, <2>4, <2>5, <2>6
    DEF MarkProcessing, Goto, webVars, queueVars
<1>7. ASSUME NEW w \in Worker, RunCommand(w) \/ PerformRaises(w)
      PROVE  RememberedInv'
  <2>1. ASSUME NEW v \in Worker, NEW i \in Job, Settler(v, i)
        PROVE  Settler(v, i)'
    BY <1>7, <2>1 DEF RunCommand, PerformRaises, Goto
  <2>2. QED
    BY <1>7, <2>1
    DEF RunCommand, PerformRaises, Goto, webVars, rowVars, queueVars
<1>8. ASSUME NEW w \in Worker, Complete(w) PROVE RememberedInv'
  <2>1. held[w] \in Job
    BY <1>8 DEF Complete
  <2>2. Exists(held[w]) => row'[held[w]].status = "completed"
    BY <1>8, <2>1 DEF Complete, Write, Saved, Dirty
  <2>3. \A i \in Job : i # held[w] => row'[i] = row[i]
    BY <1>8, <2>1 DEF Complete, Write
  <2>4. ~Exists(held[w]) => row' = row
    BY <1>8, <2>1 DEF Complete, Write
  <2>5. ASSUME NEW v \in Worker, NEW i \in Job, i # held[w], Settler(v, i)
        PROVE  Settler(v, i)'
    BY <1>8, <2>5 DEF Complete, Goto
  <2>6. QED
    BY <1>8, <2>1, <2>2, <2>3, <2>4, <2>5
    DEF Complete, Goto, webVars, queueVars
<1>9. ASSUME NEW w \in Worker, FailJob(w) PROVE RememberedInv'
  <2> DEFINE outcome == [status |-> "failed", result |-> 0, error |-> TRUE]
  <2>1. held[w] \in Job
    BY <1>9 DEF FailJob
  <2>a. Exists(held[w]) =>
          row'[held[w]] = Saved(outcome, loaded[w], row[held[w]])
    BY <1>9, <2>1 DEF FailJob, Write
  <2>b. Saved(outcome, loaded[w], row[held[w]]).status =
          IF loaded[w].status = "failed" THEN row[held[w]].status ELSE "failed"
    BY DEF Saved, Dirty
  <2>2. Exists(held[w]) /\ loaded[w].status \notin Terminal
          => row'[held[w]].status = "failed"
    BY <2>a, <2>b
  <2>3. \A i \in Job : i # held[w] => row'[i] = row[i]
    BY <1>9, <2>1 DEF FailJob, Write
  <2>4. Exists(held[w]) =>
          row'[held[w]].status \in {"failed", row[held[w]].status}
    BY <2>a, <2>b
<2>5. ~Exists(held[w]) => row' = row
    BY <1>9, <2>1 DEF FailJob, Write
  <2>6. ASSUME NEW v \in Worker, NEW i \in Job, Settler(v, i), v # w
        PROVE  Settler(v, i)'
    BY <1>9, <2>6 DEF FailJob, Goto
  <2>7. QED
    BY <1>9, <2>1, <2>2, <2>3, <2>4, <2>5, <2>6
    DEF FailJob, Goto, webVars, queueVars
<1>10. ASSUME NEW w \in Worker, Ack(w) PROVE RememberedInv'
  <2>1. ASSUME NEW v \in Worker, NEW i \in Job, Settler(v, i)
        PROVE  Settler(v, i)'
    BY <1>10, <2>1 DEF Ack, Release, Goto
  <2>2. QED
    BY <1>10, <2>1 DEF Ack, Release, Goto, webVars, rowVars, queueVars
<1>11. ASSUME NEW w \in Worker, Kill(w) PROVE RememberedInv'
  <2>1. held[w] \in Job /\ queue'[held[w]] > 0
    BY <1>11 DEF Kill, Deliver
  <2>2. \A i \in Job : queue[i] > 0 => queue'[i] > 0
    BY <1>11, <2>1 DEF Kill, Deliver
  <2>3. ASSUME NEW v \in Worker, NEW i \in Job, Settler(v, i), v # w
        PROVE  Settler(v, i)'
    BY <1>11, <2>3 DEF Kill, Release, Goto
  <2>4. QED
    BY <1>11, <2>1, <2>2, <2>3 DEF Kill, Release, Goto, webVars, rowVars
<1>12. ASSUME NEW w \in Worker, FailJobRaises(w) PROVE FALSE
  BY <1>12 DEF FailJobRaises
<1>13. ASSUME NEW w \in Worker, Overlap(w) PROVE RememberedInv'
  BY <1>13 DEF Overlap, Deliver, webVars, rowVars, workerVars
<1>14. CASE UNCHANGED vars
  BY <1>14 DEF vars
<1>15. QED
  BY <1>1, <1>2, <1>3, <1>4, <1>5, <1>6, <1>7, <1>8, <1>9, <1>10, <1>11,
     <1>12, <1>13, <1>14
  DEF Next, WebStep, PerformStep, AdapterStep

\* When killed workers are always requeued, no statement on the row fails and
\* the size limit is not changed, an accepted write that polling shows
\* unsettled is still queued or in the hands of a worker bound to settle it,
\* however deliveries overlap.
THEOREM NothingForgotten ==
  ASSUME Fault \cap {"lose", "dbError", "capChange"} = {}
  PROVE  Spec => []NoForgottenJob
<1>1. Init => RememberedInv
  BY DEF Init, RememberedInv, NoForgottenJob, AbsentRow, Exists, Gone
<1>2. RememberedInv => NoForgottenJob
  BY DEF RememberedInv
<1>3. TypeOK /\ RememberedInv /\ [Next]_vars => RememberedInv'
  BY NextRememberedInv
<1>4. QED
  BY <1>1, <1>2, <1>3, TypeCorrect, PTL DEF Spec

-----------------------------------------------------------------------------
\* Executions of one job that do not overlap leave a consistent row.

Busy == {"validate", "run", "complete", "fail"}

\* At most one delivery of a job is alive: waiting, or held by one worker.
OneDelivery ==
  /\ \A j \in Job : queue[j] <= 1
  /\ \A w \in Worker : held[w] \in Job => queue[held[w]] = 0
  /\ \A v, w \in Worker : held[v] \in Job /\ held[v] = held[w] => v = w
  /\ \A j \in Job : request[j] \in {"new", "created"} =>
       queue[j] = 0 /\ \A w \in Worker : held[w] # j

\* What a worker remembers is what is stored, and what its command returned is
\* the last commit.
MemoryIsRow ==
  \A w \in Worker :
    /\ pc[w] \in Busy /\ Exists(held[w]) => loaded[w] = row[held[w]]
    /\ pc[w] \in {"run", "complete"} => loaded[w].status = "processing"
    /\ pc[w] = "complete" =>
         returned[w] = commits[held[w]] /\ commits[held[w]] > 0

SequentialInv == OneDelivery /\ MemoryIsRow /\ OutcomeIsLastExecution

\* A partial update against the stored row is a full update.
LEMMA SavedAgainstStored ==
  ASSUME NEW new \in Row, NEW stored \in Row
  PROVE  Saved(new, stored, stored) = new
BY DEF Saved, Dirty, Row

\* Without overlapping deliveries a job keeps at most one live delivery.
LEMMA NextOneDelivery ==
  ASSUME "overlap" \notin Fault
  PROVE  TypeOK /\ OneDelivery /\ [Next]_vars => OneDelivery'
<1> SUFFICES ASSUME TypeOK, OneDelivery, [Next]_vars PROVE OneDelivery'
  OBVIOUS
<1> USE JobAssumption DEF OneDelivery, TypeOK
<1>1. ASSUME NEW j \in Job,
             Create(j) \/ Refuse(j) \/ EnqueueLost(j) \/ Destroy(j)
      PROVE  OneDelivery'
  BY <1>1 DEF Create, Refuse, EnqueueLost, Destroy, webVars, queueVars,
              workerVars
<1>2. ASSUME NEW j \in Job, Enqueue(j) PROVE OneDelivery'
  BY <1>2 DEF Enqueue, Deliver, workerVars
<1>3. ASSUME NEW S \in SUBSET Job, Reconfigure(S) PROVE OneDelivery'
  BY <1>3 DEF Reconfigure, queueVars, workerVars
<1>4. ASSUME NEW w \in Worker, NEW j \in Job, Find(w, j) \/ FindRaises(w, j)
      PROVE  OneDelivery'
  BY <1>4 DEF Find, FindRaises, webVars
<1>5. ASSUME NEW w \in Worker,
             \/ MarkProcessing(w) \/ RunCommand(w) \/ Complete(w)
             \/ PerformRaises(w) \/ FailJob(w)
      PROVE  OneDelivery'
  BY <1>5 DEF MarkProcessing, RunCommand, Complete, PerformRaises, FailJob,
              webVars, queueVars
<1>6. ASSUME NEW w \in Worker, Ack(w) PROVE OneDelivery'
  BY <1>6 DEF Ack, Release, webVars, queueVars
<1>7. ASSUME NEW w \in Worker, FailJobRaises(w) \/ Kill(w) PROVE OneDelivery'
  <2>1. held[w] \in Job /\ held' = [held EXCEPT ![w] = NoJob]
    BY <1>7 DEF FailJobRaises, Kill, Release
  <2>2. \/ queue' = [queue EXCEPT ![held[w]] = @ + 1]
        \/ queue' = queue
    BY <1>7 DEF FailJobRaises, Kill, Deliver, queueVars
  <2>3. UNCHANGED request
    BY <1>7 DEF FailJobRaises, Kill, webVars
  <2>4. QED
    BY <2>1, <2>2, <2>3
<1>8. ASSUME NEW w \in Worker, Overlap(w) PROVE FALSE
  BY <1>8 DEF Overlap
<1>9. CASE UNCHANGED vars
  BY <1>9 DEF vars
<1>10. QED
  BY <1>1, <1>2, <1>3, <1>4, <1>5, <1>6, <1>7, <1>8, <1>9
  DEF Next, WebStep, PerformStep, AdapterStep

\* With at most one live delivery, a worker's memory of the row stays exact
\* and settled rows stay consistent.
LEMMA NextMemoryIsRow ==
  TypeOK /\ SequentialInv /\ [Next]_vars
    => (MemoryIsRow /\ OutcomeIsLastExecution)'
<1> SUFFICES ASSUME TypeOK, SequentialInv, [Next]_vars
             PROVE  (MemoryIsRow /\ OutcomeIsLastExecution)'
  OBVIOUS
<1> USE JobAssumption
    DEF SequentialInv, OneDelivery, MemoryIsRow, OutcomeIsLastExecution,
        TypeOK, Busy, Exists, Gone
<1> DEFINE Goal == (MemoryIsRow /\ OutcomeIsLastExecution)'
<1>1. ASSUME NEW j \in Job,
             \/ Create(j) \/ Refuse(j) \/ Enqueue(j) \/ EnqueueLost(j)
             \/ Destroy(j)
      PROVE  Goal
  BY <1>1 DEF Create, Refuse, Enqueue, EnqueueLost, Destroy, NewRow,
              DestroyedRow, rowVars, workerVars
<1>2. ASSUME NEW S \in SUBSET Job, Reconfigure(S) PROVE Goal
  BY <1>2 DEF Reconfigure, rowVars, workerVars
<1>3. ASSUME NEW w \in Worker, NEW j \in Job, Find(w, j) \/ FindRaises(w, j)
      PROVE  Goal
  BY <1>3 DEF Find, FindRaises, Goto, rowVars
<1>4. ASSUME NEW w \in Worker, MarkProcessing(w) PROVE Goal
  <2> DEFINE marked == [row[held[w]] EXCEPT !.status = "processing"]
  <2>1. held[w] \in Job /\ \A v \in Worker : held[v] = held[w] => v = w
    BY <1>4 DEF MarkProcessing
  <2>2. \A i \in Job : i # held[w] => row'[i] = row[i]
    BY <1>4, <2>1 DEF MarkProcessing, Write
  <2>3. Exists(held[w]) => row'[held[w]] = marked /\ loaded'[w] = marked
    BY <1>4, <2>1 DEF MarkProcessing, Write
  <2>4. ~Exists(held[w]) => row' = row
    BY <1>4, <2>1 DEF MarkProcessing, Write
  <2>5. loaded'[w].status = "processing"
    BY <1>4 DEF MarkProcessing, Row
  <2>6. marked.status = "processing"
    BY <2>1 DEF Row
  <2>7. \A v \in Worker : v # w =>
          pc'[v] = pc[v] /\ loaded'[v] = loaded[v]
    BY <1>4 DEF MarkProcessing, Goto
  <2>8. pc'[w] = "run" /\ UNCHANGED <<held, commits, returned>>
    BY <1>4 DEF MarkProcessing, Goto
  <2>9. QED
    BY <2>1, <2>2, <2>3, <2>4, <2>5, <2>6, <2>7, <2>8
<1>5. ASSUME NEW w \in Worker, RunCommand(w) PROVE Goal
  <2>1. held[w] \in Job /\ \A v \in Worker : held[v] = held[w] => v = w
    BY <1>5 DEF RunCommand
  <2>2. row[held[w]].status # "completed"
    BY <1>5, <2>1 DEF RunCommand
  <2>3. QED
    BY <1>5, <2>1, <2>2 DEF RunCommand, Goto, rowVars
<1>6. ASSUME NEW w \in Worker, Complete(w) PROVE Goal
  <2> DEFINE outcome == [status |-> "completed", result |-> returned[w],
                         error |-> FALSE]
  <2>1. held[w] \in Job /\ \A v \in Worker : held[v] = held[w] => v = w
    BY <1>6 DEF Complete
  <2>2. Exists(held[w]) => row'[held[w]] = outcome
    <3>1. outcome \in Row
      BY DEF Row, Status
    <3>2. QED
      BY <1>6, <2>1, <3>1, SavedAgainstStored DEF Complete, Write
  <2>3. \A i \in Job : i # held[w] => row'[i] = row[i]
    BY <1>6, <2>1 DEF Complete, Write
  <2>4. ~Exists(held[w]) => row' = row
    BY <1>6, <2>1 DEF Complete, Write
  <2>5. QED
    BY <1>6, <2>1, <2>2, <2>3, <2>4 DEF Complete, Goto
<1>7. ASSUME NEW w \in Worker, PerformRaises(w) PROVE Goal
  BY <1>7 DEF PerformRaises, Goto, rowVars
<1>8. ASSUME NEW w \in Worker, FailJob(w) PROVE Goal
  <2> DEFINE outcome == [status |-> "failed", result |-> 0, error |-> TRUE]
  <2>1. held[w] \in Job /\ \A v \in Worker : held[v] = held[w] => v = w
    BY <1>8 DEF FailJob
  <2>2. Exists(held[w]) => row'[held[w]] \in {outcome, row[held[w]]}
    <3>1. outcome \in Row
      BY DEF Row, Status
    <3>2. QED
      BY <1>8, <2>1, <3>1, SavedAgainstStored DEF FailJob, Write
  <2>3. \A i \in Job : i # held[w] => row'[i] = row[i]
    BY <1>8, <2>1 DEF FailJob, Write
  <2>4. ~Exists(held[w]) => row' = row
    BY <1>8, <2>1 DEF FailJob, Write
  <2>5. QED
    BY <1>8, <2>1, <2>2, <2>3, <2>4 DEF FailJob, Goto
<1>9. ASSUME NEW w \in Worker, Ack(w) PROVE Goal
  BY <1>9 DEF Ack, Release, Goto, rowVars
<1>10. ASSUME NEW w \in Worker, AdapterStep(w) PROVE Goal
  BY <1>10 DEF AdapterStep, FailJobRaises, Kill, Overlap, Release, Goto,
               rowVars, workerVars
<1>11. CASE UNCHANGED vars
  BY <1>11 DEF vars
<1>12. QED
  BY <1>1, <1>2, <1>3, <1>4, <1>5, <1>6, <1>7, <1>8, <1>9, <1>10, <1>11
  DEF Next, WebStep, PerformStep

\* When deliveries of one job never overlap, a settled row is consistent
\* however often the job is delivered again: completed with the result of the
\* last commit and no error, or failed with an error and no result.
THEOREM SettledRowsConsistent ==
  ASSUME "overlap" \notin Fault
  PROVE  Spec => []OutcomeIsLastExecution
<1>1. Init => SequentialInv
  BY JobAssumption
  DEF Init, SequentialInv, OneDelivery, MemoryIsRow, OutcomeIsLastExecution,
      AbsentRow, Busy
<1>2. TypeOK /\ SequentialInv /\ [Next]_vars => SequentialInv'
  BY NextOneDelivery, NextMemoryIsRow DEF SequentialInv
<1>3. SequentialInv => OutcomeIsLastExecution
  BY DEF SequentialInv
<1>4. QED
  BY <1>1, <1>2, <1>3, TypeCorrect, PTL DEF Spec

-----------------------------------------------------------------------------
\* An adapter that delivers at most once keeps the promise of AsyncWrite.

Unsettled == {"pending", "processing", "destroyed"}

\* A job not yet executed has no effect and no outcome, and its execution
\* passes from no effect to one effect at RunCommand.
SingleExecution ==
  /\ \A j \in Job : request[j] = "new" => row[j].status = "absent"
  /\ \A j \in Job : request[j] \in {"new", "created"} \/ queue[j] > 0 =>
       commits[j] = 0 /\ row[j].status \notin Terminal
  /\ \A w \in Worker :
       /\ pc[w] \in Busy =>
            /\ row[held[w]].status \in Unsettled
            /\ loaded[w].status \in {"pending", "processing"}
       /\ pc[w] \in {"run", "complete"} => loaded[w].status = "processing"
       /\ pc[w] \in {"validate", "run"} => commits[held[w]] = 0
       /\ pc[w] = "complete" => commits[held[w]] = 1
       /\ pc[w] = "fail" => commits[held[w]] = 0 \/ held[w] \in oversized

PromiseInv == OneDelivery /\ SingleExecution

\* What the final update of a worker does to the row it holds.
LEMMA CompleteStep ==
  ASSUME TypeOK, PromiseInv, NEW w \in Worker, Complete(w)
  PROVE  /\ held[w] \in Job
         /\ \A i \in Job : i # held[w] => row'[i] = row[i]
         /\ Exists(held[w]) => row'[held[w]].status = "completed"
         /\ ~Exists(held[w]) => row' = row
<1> DEFINE outcome == [status |-> "completed", result |-> returned[w],
                       error |-> FALSE]
<1>1. held[w] \in Job /\ loaded[w].status = "processing"
  BY JobAssumption DEF TypeOK, PromiseInv, SingleExecution, Complete
<1>2. Saved(outcome, loaded[w], row[held[w]]).status = "completed"
  BY <1>1 DEF Saved, Dirty
<1>3. Write(held[w], Saved(outcome, loaded[w], row[held[w]]))
  BY DEF Complete
<1>4. QED
  BY <1>1, <1>2, <1>3 DEF Write, TypeOK

\* The same for fail_job!, which writes nothing into an oversized row.
LEMMA FailJobStep ==
  ASSUME TypeOK, PromiseInv, NEW w \in Worker, FailJob(w)
  PROVE  /\ held[w] \in Job
         /\ \A i \in Job : i # held[w] => row'[i] = row[i]
         /\ Exists(held[w]) /\ held[w] \notin oversized
              => row'[held[w]].status = "failed"
         /\ ~Exists(held[w]) \/ held[w] \in oversized => row' = row
<1> DEFINE outcome == [status |-> "failed", result |-> 0, error |-> TRUE]
<1>1. held[w] \in Job /\ loaded[w].status \in {"pending", "processing"}
  BY JobAssumption DEF TypeOK, PromiseInv, SingleExecution, FailJob, Busy
<1>2. Saved(outcome, loaded[w], row[held[w]]).status = "failed"
  BY <1>1 DEF Saved, Dirty
<1>3. IF held[w] \in oversized
        THEN row' = row
        ELSE Write(held[w], Saved(outcome, loaded[w], row[held[w]]))
  BY DEF FailJob
<1>4. QED
  BY <1>1, <1>2, <1>3 DEF Write, TypeOK

\* Every step keeps the invariant when a job is delivered at most once.
LEMMA NextSingleExecution ==
  ASSUME Fault \cap {"requeue", "overlap", "dbError"} = {}
  PROVE  TypeOK /\ PromiseInv /\ [Next]_vars => SingleExecution'
<1> SUFFICES ASSUME TypeOK, PromiseInv, [Next]_vars PROVE SingleExecution'
  OBVIOUS
<1> USE JobAssumption
    DEF PromiseInv, SingleExecution, OneDelivery, TypeOK, Busy, Unsettled,
        Terminal
<1>1. ASSUME NEW j \in Job, Create(j) PROVE SingleExecution'
  <2>1. /\ request[j] = "new" /\ queue[j] = 0 /\ commits[j] = 0
        /\ \A w \in Worker : pc[w] # "idle" => held[w] # j
    BY <1>1 DEF Create
  <2>2. /\ request' = [request EXCEPT ![j] = "created"]
        /\ row' = [row EXCEPT ![j] = NewRow]
        /\ UNCHANGED <<oversized, queue, commits, pc, held, loaded>>
    BY <1>1 DEF Create, queueVars, workerVars
  <2>3. row'[j].status = "pending" /\ request'[j] = "created"
    BY <2>2 DEF NewRow
  <2>4. \A i \in Job : i # j => row'[i] = row[i] /\ request'[i] = request[i]
    BY <2>2
  <2>5. QED
    BY <2>1, <2>2, <2>3, <2>4
<1>2. ASSUME NEW j \in Job, Destroy(j) PROVE SingleExecution'
  <2>1. /\ request[j] # "new"
        /\ row' = [row EXCEPT ![j] = DestroyedRow]
        /\ UNCHANGED <<request, oversized, queue, commits, pc, held, loaded>>
    BY <1>2 DEF Destroy, Exists, Gone, webVars, queueVars, workerVars
  <2>2. row'[j].status = "destroyed"
    BY <2>1 DEF DestroyedRow
  <2>3. \A i \in Job : i # j => row'[i] = row[i]
    BY <2>1
  <2>4. QED
    BY <2>1, <2>2, <2>3
<1>3. ASSUME NEW j \in Job, Refuse(j) \/ EnqueueLost(j)
       PROVE  SingleExecution'
  BY <1>3 DEF Refuse, EnqueueLost, rowVars, queueVars, workerVars
<1>4. ASSUME NEW j \in Job, Enqueue(j) PROVE SingleExecution'
  <2>1. commits[j] = 0 /\ row[j].status \notin Terminal
    BY <1>4 DEF Enqueue
  <2>2. QED
    BY <1>4, <2>1 DEF Enqueue, Deliver, rowVars, workerVars
<1>5. ASSUME NEW S \in SUBSET Job, Reconfigure(S) PROVE SingleExecution'
  BY <1>5 DEF Reconfigure, rowVars, queueVars, workerVars
<1>6. ASSUME NEW w \in Worker, NEW j \in Job, Find(w, j)
      PROVE  SingleExecution'
  BY <1>6 DEF Find, Goto, Exists, Gone, Row, Status, webVars, rowVars
<1>7. ASSUME NEW w \in Worker, NEW j \in Job, FindRaises(w, j) PROVE FALSE
  BY <1>7 DEF FindRaises
<1>8. ASSUME NEW w \in Worker, MarkProcessing(w) PROVE SingleExecution'
  <2>1. held[w] \in Job /\ \A v \in Worker : held[v] = held[w] => v = w
    BY <1>8 DEF MarkProcessing
  <2>2. \A i \in Job : i # held[w] => row'[i] = row[i]
    BY <1>8, <2>1 DEF MarkProcessing, Write
  <2>3. row'[held[w]].status \in {"processing", "destroyed"}
    BY <1>8, <2>1 DEF MarkProcessing, Write, Exists, Gone, Row
  <2>4. loaded'[w].status = "processing"
    BY <1>8 DEF MarkProcessing, Row
  <2>5. queue'[held[w]] = 0 /\ request'[held[w]] \notin {"new", "created"}
    BY <1>8, <2>1 DEF MarkProcessing, queueVars, webVars
  <2>6. QED
    BY <1>8, <2>1, <2>2, <2>3, <2>4, <2>5
    DEF MarkProcessing, Goto, webVars, queueVars
<1>9. ASSUME NEW w \in Worker, RunCommand(w) PROVE SingleExecution'
  <2>1. held[w] \in Job /\ \A v \in Worker : held[v] = held[w] => v = w
    BY <1>9 DEF RunCommand
  <2>2. queue[held[w]] = 0 /\ request[held[w]] \notin {"new", "created"}
    BY <1>9, <2>1 DEF RunCommand
  <2>3. QED
    BY <1>9, <2>1, <2>2 DEF RunCommand, Goto, webVars, rowVars, queueVars
<1>10. ASSUME NEW w \in Worker, Complete(w) \/ FailJob(w)
      PROVE  SingleExecution'
  <2>1. /\ held[w] \in Job
        /\ \A i \in Job : i # held[w] => row'[i] = row[i]
    BY <1>10, CompleteStep, FailJobStep
  <2>2. /\ \A v \in Worker : held[v] = held[w] => v = w
        /\ queue[held[w]] = 0 /\ request[held[w]] \notin {"new", "created"}
    BY <2>1
  <2>3. pc' = [pc EXCEPT ![w] = "ack"]
        /\ UNCHANGED <<request, oversized, queue, commits, held, loaded>>
    BY <1>10 DEF Complete, FailJob, Goto, webVars, queueVars
  <2>4. QED
    BY <2>1, <2>2, <2>3
<1>11. ASSUME NEW w \in Worker, PerformRaises(w) PROVE SingleExecution'
  BY <1>11 DEF PerformRaises, Goto, webVars, rowVars, queueVars
<1>12. ASSUME NEW w \in Worker, Ack(w) \/ Kill(w) PROVE SingleExecution'
  BY <1>12 DEF Ack, Kill, Release, Goto, webVars, rowVars, queueVars
<1>13. ASSUME NEW w \in Worker, FailJobRaises(w) \/ Overlap(w) PROVE FALSE
  BY <1>13 DEF FailJobRaises, Overlap
<1>14. CASE UNCHANGED vars
  BY <1>14 DEF vars
<1>15. QED
  BY <1>1, <1>2, <1>3, <1>4, <1>5, <1>6, <1>7, <1>8, <1>9, <1>10, <1>11,
     <1>12, <1>13, <1>14
  DEF Next, WebStep, PerformStep, AdapterStep

\* Every step of the system is a step of AsyncWrite, or invisible to it.
LEMMA StepSimulation ==
  ASSUME Fault \cap {"requeue", "overlap", "dbError"} = {}
  PROVE  TypeOK /\ PromiseInv /\ [Next]_vars
           => [Promise!Next]_(Promise!promiseVars)
<1> SUFFICES ASSUME TypeOK, PromiseInv, [Next]_vars
             PROVE  [Promise!Next]_(Promise!promiseVars)
  OBVIOUS
<1> DEFINE view == [j \in Job |-> Seen(j)]
           Goal == [Promise!Next]_(Promise!promiseVars)
<1>s. ASSUME \A i \in Job : Seen(i)' = Seen(i), UNCHANGED commits PROVE Goal
  BY <1>s DEF Promise!promiseVars
<1>1. ASSUME NEW j \in Job, Create(j) PROVE Goal
  <2>1. row[j].status = "absent"
    BY <1>1 DEF Create, PromiseInv, SingleExecution
  <2>2. Seen(j) = "none" /\ view' = [view EXCEPT ![j] = "open"]
    BY <1>1, <2>1 DEF Create, Seen, NewRow, TypeOK
  <2>3. Promise!Submit(j)
    BY <1>1, <2>2 DEF Create, Promise!Submit
  <2>4. QED
    BY <2>3 DEF Promise!Next
<1>2. ASSUME NEW j \in Job, Refuse(j) \/ Enqueue(j) \/ EnqueueLost(j) PROVE Goal
  BY <1>2, <1>s DEF Refuse, Enqueue, EnqueueLost, Seen, rowVars
<1>3. ASSUME NEW j \in Job, Destroy(j) PROVE Goal
  <2>1. Seen(j) \in {"open", "completed", "failed"}
    BY <1>3 DEF Destroy, Exists, Gone, Seen, TypeOK, Row, Status
  <2>2. view' = [view EXCEPT ![j] = "withdrawn"]
    BY <1>3 DEF Destroy, Seen, DestroyedRow, TypeOK
  <2>3. Promise!Withdraw(j)
    BY <1>3, <2>1, <2>2 DEF Destroy, Promise!Withdraw
  <2>4. QED
    BY <2>3 DEF Promise!Next
<1>4. ASSUME NEW S \in SUBSET Job, Reconfigure(S) PROVE Goal
  BY <1>4, <1>s DEF Reconfigure, Seen, rowVars
<1>5. ASSUME NEW w \in Worker, NEW j \in Job, Find(w, j) \/ FindRaises(w, j)
      PROVE  Goal
  BY <1>5, <1>s DEF Find, FindRaises, Seen, rowVars
<1>6. ASSUME NEW w \in Worker, MarkProcessing(w) PROVE Goal
  <2>1. held[w] \in Job /\ row[held[w]].status \in Unsettled
    BY <1>6, JobAssumption
    DEF MarkProcessing, TypeOK, PromiseInv, SingleExecution, Busy
  <2>2. \A i \in Job : i # held[w] => row'[i] = row[i]
    BY <1>6, <2>1 DEF MarkProcessing, Write, TypeOK
  <2>3. Exists(held[w]) => row'[held[w]].status = "processing"
    BY <1>6, <2>1 DEF MarkProcessing, Write, TypeOK, Row
  <2>4. ~Exists(held[w]) => row' = row
    BY <1>6 DEF MarkProcessing, Write
  <2>5. \A i \in Job : Seen(i)' = Seen(i)
    BY <2>1, <2>2, <2>3, <2>4 DEF Seen, Unsettled, Exists, Gone
  <2>6. QED
    BY <1>6, <2>5, <1>s DEF MarkProcessing
<1>7. ASSUME NEW w \in Worker, RunCommand(w) PROVE Goal
  <2>1. /\ held[w] \in Job /\ commits[held[w]] = 0
        /\ row[held[w]].status \in Unsettled
    BY <1>7, JobAssumption
    DEF RunCommand, TypeOK, PromiseInv, SingleExecution, Busy
  <2>2. Seen(held[w]) \in {"open", "withdrawn"} /\ view' = view
    BY <1>7, <2>1 DEF RunCommand, Seen, Unsettled, rowVars
  <2>3. commits' = [commits EXCEPT ![held[w]] = 1]
    BY <1>7, <2>1 DEF RunCommand
  <2>4. Promise!TakeEffect(held[w])
    BY <2>1, <2>2, <2>3 DEF Promise!TakeEffect
  <2>5. QED
    BY <2>1, <2>4 DEF Promise!Next
<1>8. ASSUME NEW w \in Worker, Complete(w) PROVE Goal
  <2>1. /\ held[w] \in Job /\ commits[held[w]] = 1 /\ UNCHANGED commits
        /\ row[held[w]].status \in Unsettled
    BY <1>8, CompleteStep DEF Complete, PromiseInv, SingleExecution, Busy
  <2>2. CASE Exists(held[w])
    <3>1. Seen(held[w]) = "open"
      BY <2>1, <2>2 DEF Seen, Exists, Gone, Unsettled
    <3>2. view' = [view EXCEPT ![held[w]] = "completed"]
      BY <1>8, <2>1, <2>2, CompleteStep DEF Seen
    <3>3. Promise!ReportCompleted(held[w])
      BY <2>1, <3>1, <3>2 DEF Promise!ReportCompleted
    <3>4. QED
      BY <2>1, <3>3 DEF Promise!Next
  <2>3. CASE ~Exists(held[w])
    BY <1>8, <2>1, <2>3, CompleteStep, <1>s DEF Seen
  <2>4. QED
    BY <2>2, <2>3
<1>9. ASSUME NEW w \in Worker, FailJob(w) PROVE Goal
  <2>1. /\ held[w] \in Job /\ UNCHANGED commits
        /\ row[held[w]].status \in Unsettled
        /\ commits[held[w]] = 0 \/ held[w] \in oversized
    BY <1>9, FailJobStep DEF FailJob, PromiseInv, SingleExecution, Busy
  <2>2. CASE Exists(held[w]) /\ held[w] \notin oversized
    <3>1. Seen(held[w]) = "open"
      BY <2>1, <2>2 DEF Seen, Exists, Gone, Unsettled
    <3>2. view' = [view EXCEPT ![held[w]] = "failed"]
      BY <1>9, <2>1, <2>2, FailJobStep DEF Seen
    <3>3. Promise!ReportFailed(held[w])
      BY <2>1, <2>2, <3>1, <3>2 DEF Promise!ReportFailed
    <3>4. QED
      BY <2>1, <3>3 DEF Promise!Next
  <2>3. CASE ~Exists(held[w]) \/ held[w] \in oversized
    BY <1>9, <2>1, <2>3, FailJobStep, <1>s DEF Seen
  <2>4. QED
    BY <2>2, <2>3
<1>10. ASSUME NEW w \in Worker, PerformRaises(w) \/ Ack(w) PROVE Goal
  BY <1>10, <1>s DEF PerformRaises, Ack, Seen, rowVars
<1>11. ASSUME NEW w \in Worker, AdapterStep(w) PROVE Goal
  BY <1>11, <1>s DEF AdapterStep, FailJobRaises, Kill, Overlap, Seen, rowVars
<1>12. CASE UNCHANGED vars
  BY <1>12, <1>s DEF vars, Seen
<1>13. QED
  BY <1>1, <1>2, <1>3, <1>4, <1>5, <1>6, <1>7, <1>8, <1>9, <1>10, <1>11,
     <1>12
  DEF Next, WebStep, PerformStep

\* Refinement: with an adapter that delivers a job at most once and a database
\* whose statements do not fail, rows, queue and workers implement AsyncWrite:
\* at most one effect, a truthful and final outcome, whatever the client
\* deletes, whichever workers die and however the size limit is changed.
THEOREM PromiseIsKept ==
  ASSUME Fault \cap {"requeue", "overlap", "dbError"} = {}
  PROVE  Spec => PromiseKept
<1>1. Init => PromiseInv
  BY JobAssumption
  DEF Init, PromiseInv, OneDelivery, SingleExecution, AbsentRow, Terminal, Busy
<1>2. Init => Promise!Init
  BY DEF Init, Promise!Init, Seen, AbsentRow
<1>3. "overlap" \notin Fault
  OBVIOUS
<1>4. TypeOK /\ PromiseInv /\ [Next]_vars => PromiseInv'
  BY <1>3, NextOneDelivery, NextSingleExecution DEF PromiseInv
<1>5. TypeOK /\ PromiseInv /\ [Next]_vars
        => [Promise!Next]_(Promise!promiseVars)
  BY StepSimulation
<1>6. QED
  BY <1>1, <1>2, <1>4, <1>5, TypeCorrect, PTL
  DEF Spec, PromiseKept, Promise!Spec
=============================================================================

----------------------------- MODULE MCApiJobs ------------------------------
(***************************************************************************)
(* Instances of ApiJobs for model checking.                                *)
(***************************************************************************)
EXTENDS ApiJobs, TLC

\* Jobs are interchangeable, and so are workers: sound for the runs that check
\* no liveness property.
Symmetry == Permutations(Job) \cup Permutations(Worker)

\* A delivery happens once at most: what the adapter does not requeue and the
\* database does not break.
AtMostOnce == {"enqueueLost", "lose", "capChange"}

\* Deliveries are repeated, but one worker at a time executes a job.
Sequential == FaultKind \ {"overlap"}

\* Workers die and deliveries are repeated, even too early; nothing is lost.
AtLeastOnce == {"enqueueLost", "requeue", "overlap"}
=============================================================================

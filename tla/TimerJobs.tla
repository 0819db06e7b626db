------------------------------ MODULE TimerJobs ------------------------------
(***************************************************************************)
(* BullMQ's delayed jobs as the auction and the payment service use them:  *)
(* a job per id, one attempt, finished jobs kept (no removeOnComplete, no  *)
(* removeOnFail), a worker that processes one job at a time.               *)
(***************************************************************************)
EXTENDS Integers

\* "active": a worker holds it; "orphaned": the worker that held it died.
JobStates == {"absent", "delayed", "waiting", "active", "orphaned",
              "completed", "failed"}
Job       == [state : JobStates, due : Nat, stalls : Nat]
NoJob     == [state |-> "absent", due |-> 0, stalls |-> 0]

\* queue.add with delay = max(0, at - now) under an id not yet known.
NewJob(at, now) ==
  [state |-> "delayed", due |-> IF at > now THEN at ELSE now, stalls |-> 0]

\* Adding a job under an id that is known, in any state, does nothing.
Added(job, at, now) == IF job.state = "absent" THEN NewJob(at, now) ELSE job

IsDue(job, now) == job.state = "delayed" /\ job.due <= now

\* job.remove() throws while a worker holds the job, and may do so until the
\* lock of a worker that died has run out.
Removable(job)    == job.state # "active"
MayRefuse(job)    == job.state \in {"active", "orphaned"}

\* A stalled job is put back once (maxStalledCount = 1), then failed.
PutBack(job) ==
  [job EXCEPT !.state = IF job.stalls < 1 THEN "waiting" ELSE "failed",
              !.stalls = @ + 1]
=============================================================================

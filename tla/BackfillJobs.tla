---------------------------- MODULE BackfillJobs ----------------------------
(***************************************************************************)
(* The queue of historical-price backfill jobs: the table                  *)
(* historical_data_backfill_jobs, the workers that claim its rows (one     *)
(* goroutine per server process) and the callers that enqueue and retry.   *)
(*                                                                         *)
(* A worker claims a row with FOR UPDATE SKIP LOCKED, keeps a copy of it,  *)
(* fetches prices, rebuilds performance snapshots and writes the whole row *)
(* back.  Its writes use the context of the job: once that context has     *)
(* expired they fail and the error is dropped, so the row stays RUNNING    *)
(* until some worker finds its heartbeat stale and puts it back.           *)
(*                                                                         *)
(* Time is counted in ticks.  A row's age is the time since its heartbeat, *)
(* which is written by the claim and never refreshed; a worker's elapsed   *)
(* is the time since its claim, spent the part of it in the rebuild.       *)
(***************************************************************************)
EXTENDS Integers, FiniteSets

CONSTANTS
  Jobs,            \* ids of the rows, in the order of created_at
  Workers,         \* server processes, each with its backfillWorkerID
  Retriers,        \* concurrent calls of RetryHistoricalDataBackfillJob
  NoWorker,        \* locked_by IS NULL
  MaxDay,          \* bound: the last value of the calendar day
  MaxAttempts,     \* max_attempts of every row
  JobTimeout,      \* jobCtx: 8 minutes
  RebuildTimeout,  \* the context of the snapshot rebuild: 6 minutes
  StaleThreshold,  \* backfillJobStaleRunningThreshold: 20 minutes
  MaxMishaps       \* bound: crashes and writes lost to an expired context

ASSUME JobsAssumption == Jobs \subseteq Nat \ {0}
ASSUME NoWorkerAssumption == NoWorker \notin Workers
ASSUME BoundsAssumption ==
  /\ MaxDay \in Nat \ {0} /\ MaxAttempts \in Nat \ {0} /\ MaxMishaps \in Nat
  /\ JobTimeout \in Nat \ {0} /\ RebuildTimeout \in Nat
ASSUME StaleAssumption ==
  StaleThreshold \in Nat /\ StaleThreshold > JobTimeout + RebuildTimeout

VARIABLES
  jobs,     \* the rows; ABSENT before they are inserted
  worker,   \* what each worker is doing, with its copy of the row
  retrier,  \* what each retry call is doing
  today,    \* the calendar day, requested_to of a new request
  mishaps   \* crashes and lost writes so far

vars == <<jobs, worker, retrier, today, mishaps>>

Status == {"ABSENT", "QUEUED", "RUNNING", "COMPLETE", "ERROR"}
Step   == {"QUEUED", "FETCH_PRICES", "CALCULATE_PERFORMANCE", "DONE", "FAILED"}

Row == [status: Status, step: Step, day: 1 .. MaxDay, attempts: Nat, due: BOOLEAN,
        lockedBy: Workers \cup {NoWorker}, age: 0 .. StaleThreshold]

WorkerState == [pc: {"down", "idle", "fetch", "rebuild"}, job: Jobs \cup {0},
                day: 1 .. MaxDay, attempts: Nat, elapsed: Nat, spent: Nat]

RetrierState == [pc: {"idle", "write"}, job: Jobs \cup {0}]

Resting(pc) == [pc |-> pc, job |-> 0, day |-> 1, attempts |-> 0, elapsed |-> 0, spent |-> 0]
NoRetry     == [pc |-> "idle", job |-> 0]

-----------------------------------------------------------------------------
(* The rows the operations write. *)

Active(row) == row.status \in {"QUEUED", "RUNNING"}

\* The unique index on active requests lets row j be active for a day.
IndexAllows(j, day) == \A k \in Jobs \ {j} : ~(Active(jobs[k]) /\ jobs[k].day = day)

\* Seeded fault: there is no unique index to refuse a write.
StoreUnindexed(j, row) == [jobs EXCEPT ![j] = row]

\* Update writes the whole row; the index may refuse it.
Store(j, row) ==
  IF Active(row) /\ ~IndexAllows(j, row.day) THEN jobs ELSE [jobs EXCEPT ![j] = row]

QueuedRow(day, attempts, due) ==
  [status |-> "QUEUED", step |-> "QUEUED", day |-> day, attempts |-> attempts,
   due |-> due, lockedBy |-> NoWorker, age |-> 0]

RunningRow(step, day, attempts, w, age) ==
  [status |-> "RUNNING", step |-> step, day |-> day, attempts |-> attempts,
   due |-> TRUE, lockedBy |-> w, age |-> age]

FinishedRow(status, step, day, attempts) ==
  [status |-> status, step |-> step, day |-> day, attempts |-> attempts,
   due |-> TRUE, lockedBy |-> NoWorker, age |-> 0]

\* Seeded fault: failBackfillJob forgets to clear the lock.
FailedRowLocked(w, retryable) ==
  IF retryable /\ worker[w].attempts < MaxAttempts
    THEN [QueuedRow(worker[w].day, worker[w].attempts, FALSE) EXCEPT !.lockedBy = w]
    ELSE FinishedRow("ERROR", "FAILED", worker[w].day, worker[w].attempts)

\* Seeded fault: one attempt too many.
FailedRowOnceMore(w, retryable) ==
  IF retryable /\ worker[w].attempts <= MaxAttempts
    THEN QueuedRow(worker[w].day, worker[w].attempts, FALSE)
    ELSE FinishedRow("ERROR", "FAILED", worker[w].day, worker[w].attempts)

\* failBackfillJob on the worker's copy of the row.
FailedRow(w, retryable) ==
  IF retryable /\ worker[w].attempts < MaxAttempts
    THEN QueuedRow(worker[w].day, worker[w].attempts, FALSE)
    ELSE FinishedRow("ERROR", "FAILED", worker[w].day, worker[w].attempts)

-----------------------------------------------------------------------------
Init ==
  /\ jobs = [j \in Jobs |-> FinishedRow("ABSENT", "DONE", 1, 0)]
  /\ worker = [w \in Workers |-> Resting("idle")]
  /\ retrier = [r \in Retriers |-> NoRetry]
  /\ today = 1
  /\ mishaps = 0

Busy(w)    == worker[w].pc \in {"fetch", "rebuild"}
Expired(w) == Busy(w) /\ worker[w].elapsed >= JobTimeout

\* enqueueHistoricalBackfillJob of the instrument and portfolio services: a
\* request with an active row is answered with that row, by the lookup or by
\* the unique index.
Enqueue(j) ==
  /\ jobs[j].status = "ABSENT"
  /\ \A k \in Jobs : k < j => jobs[k].status # "ABSENT"
  /\ IndexAllows(j, today)
  /\ jobs' = [jobs EXCEPT ![j] = QueuedRow(today, 0, TRUE)]
  /\ UNCHANGED <<worker, retrier, today, mishaps>>

\* Seeded fault: the claim does not ask for status QUEUED.
RunnableActive(j) == Active(jobs[j]) /\ jobs[j].due

Runnable(j) == jobs[j].status = "QUEUED" /\ jobs[j].due

\* ClaimNextRunnable: the oldest runnable row.
Claim(w, j) ==
  /\ worker[w].pc = "idle"
  /\ Runnable(j) /\ \A k \in Jobs : Runnable(k) => j <= k
  /\ jobs' = [jobs EXCEPT ![j] =
       RunningRow("FETCH_PRICES", jobs[j].day, jobs[j].attempts + 1, w, 0)]
  /\ worker' = [worker EXCEPT ![w] =
       [pc |-> "fetch", job |-> j, day |-> jobs[j].day,
        attempts |-> jobs[j].attempts + 1, elapsed |-> 0, spent |-> 0]]
  /\ UNCHANGED <<retrier, today, mishaps>>

\* The worker writes row over its job's row and looks for the next one.
Settle(w, row) ==
  /\ Busy(w) /\ ~Expired(w)
  /\ jobs' = Store(worker[w].job, row)
  /\ worker' = [worker EXCEPT ![w] = Resting("idle")]
  /\ UNCHANGED <<retrier, today, mishaps>>

\* completeBackfillJob: nothing to write, or the snapshots are rebuilt.
Complete(w) ==
  Settle(w, FinishedRow("COMPLETE", "DONE", worker[w].day, worker[w].attempts))

\* failBackfillJob after a failed fetch, retryable or not, or a failed
\* rebuild, always retryable.
Fail(w) ==
  \/ Settle(w, FailedRow(w, TRUE))
  \/ worker[w].pc = "fetch" /\ Settle(w, FailedRow(w, FALSE))

\* Prices were written: the row is saved at 70% and the rebuild starts.
StartRebuild(w) ==
  /\ worker[w].pc = "fetch" /\ ~Expired(w)
  /\ jobs' = Store(worker[w].job,
       RunningRow("CALCULATE_PERFORMANCE", worker[w].day, worker[w].attempts, w,
                  worker[w].elapsed))
  /\ worker' = [worker EXCEPT ![w].pc = "rebuild"]
  /\ UNCHANGED <<retrier, today, mishaps>>

\* The job ends after its context: complete or fail, the write is lost.
LoseWrite(w) ==
  /\ Expired(w)
  /\ worker' = [worker EXCEPT ![w] = Resting("idle")]
  /\ mishaps' = mishaps + 1
  /\ UNCHANGED <<jobs, retrier, today>>

\* Seeded fault: a row is stale once the job's own deadline has passed.
RequeueStaleEarly(w) ==
  LET stale == {j \in Jobs : jobs[j].status = "RUNNING" /\ jobs[j].age >= JobTimeout}
  IN  /\ worker[w].pc = "idle"
      /\ stale # {}
      /\ jobs' = [j \in Jobs |->
           IF j \in stale THEN QueuedRow(jobs[j].day, jobs[j].attempts, TRUE) ELSE jobs[j]]
      /\ UNCHANGED <<worker, retrier, today, mishaps>>

\* Seeded fault: only rows with attempts left are put back.
RequeueStaleCapped(w) ==
  LET stale == {j \in Jobs : /\ jobs[j].status = "RUNNING"
                             /\ jobs[j].age >= StaleThreshold
                             /\ jobs[j].attempts < MaxAttempts}
  IN  /\ worker[w].pc = "idle"
      /\ stale # {}
      /\ jobs' = [j \in Jobs |->
           IF j \in stale THEN QueuedRow(jobs[j].day, jobs[j].attempts, TRUE) ELSE jobs[j]]
      /\ UNCHANGED <<worker, retrier, today, mishaps>>

\* RequeueStaleRunning, between two batches of a worker: rows RUNNING with an
\* old heartbeat go back whatever their attempts.
RequeueStale(w) ==
  LET stale == {j \in Jobs : jobs[j].status = "RUNNING" /\ jobs[j].age >= StaleThreshold}
  IN  /\ worker[w].pc = "idle"
      /\ stale # {}
      /\ jobs' = [j \in Jobs |->
           IF j \in stale THEN QueuedRow(jobs[j].day, jobs[j].attempts, TRUE) ELSE jobs[j]]
      /\ UNCHANGED <<worker, retrier, today, mishaps>>

\* Seeded fault: a retry is not refused while the job is active.
ReadForRetryAny(r, j) ==
  /\ retrier[r].pc = "idle"
  /\ jobs[j].status # "ABSENT"
  /\ retrier' = [retrier EXCEPT ![r] = [pc |-> "write", job |-> j]]
  /\ UNCHANGED <<jobs, worker, today, mishaps>>

\* RetryHistoricalDataBackfillJob: the row is read ...
ReadForRetry(r, j) ==
  /\ retrier[r].pc = "idle"
  /\ jobs[j].status \in {"COMPLETE", "ERROR"}
  /\ retrier' = [retrier EXCEPT ![r] = [pc |-> "write", job |-> j]]
  /\ UNCHANGED <<jobs, worker, today, mishaps>>

\* ... and written back whole.
WriteRetry(r) ==
  /\ retrier[r].pc = "write"
  /\ jobs' = Store(retrier[r].job, QueuedRow(today, 0, TRUE))
  /\ retrier' = [retrier EXCEPT ![r] = NoRetry]
  /\ UNCHANGED <<worker, today, mishaps>>

\* next_run_at of a row put back by failBackfillJob has come.
NextRunReached(j) ==
  /\ jobs[j].status = "QUEUED" /\ ~jobs[j].due
  /\ jobs' = [jobs EXCEPT ![j].due = TRUE]
  /\ UNCHANGED <<worker, retrier, today, mishaps>>

\* A server process stops in the middle of a job, and comes back.
Crash(w) ==
  /\ Busy(w)
  /\ mishaps + Cardinality({v \in Workers \ {w} : Expired(v)}) < MaxMishaps
  /\ worker' = [worker EXCEPT ![w] = Resting("down")]
  /\ mishaps' = mishaps + 1
  /\ UNCHANGED <<jobs, retrier, today>>

Restart(w) ==
  /\ worker[w].pc = "down"
  /\ worker' = [worker EXCEPT ![w] = Resting("idle")]
  /\ UNCHANGED <<jobs, retrier, today, mishaps>>

\* A tick of the clock.  The fetch and the rebuild each end by the deadline
\* of their context.
Tick ==
  /\ \A w \in Workers :
       /\ worker[w].pc = "fetch"   => worker[w].elapsed < JobTimeout
       /\ worker[w].pc = "rebuild" => worker[w].spent < RebuildTimeout
  /\ mishaps + Cardinality({w \in Workers : Busy(w) /\ worker[w].elapsed + 1 >= JobTimeout})
       <= MaxMishaps
  /\ jobs' = [j \in Jobs |->
       IF jobs[j].status = "RUNNING" /\ jobs[j].age < StaleThreshold
         THEN [jobs[j] EXCEPT !.age = @ + 1] ELSE jobs[j]]
  /\ worker' = [w \in Workers |->
       IF Busy(w)
         THEN [worker[w] EXCEPT !.elapsed = @ + 1,
                                !.spent = IF worker[w].pc = "rebuild" THEN @ + 1 ELSE @]
         ELSE worker[w]]
  /\ UNCHANGED <<retrier, today, mishaps>>

NextDay ==
  /\ today < MaxDay
  /\ today' = today + 1
  /\ UNCHANGED <<jobs, worker, retrier, mishaps>>

WorkerNext(w) ==
  \/ \E j \in Jobs : Claim(w, j)
  \/ Complete(w) \/ Fail(w) \/ StartRebuild(w) \/ LoseWrite(w)

Next ==
  \/ \E j \in Jobs : Enqueue(j) \/ NextRunReached(j)
  \/ \E w \in Workers : WorkerNext(w) \/ RequeueStale(w) \/ Crash(w) \/ Restart(w)
  \/ \E r \in Retriers : (\E j \in Jobs : ReadForRetry(r, j)) \/ WriteRetry(r)
  \/ Tick
  \/ NextDay

Spec == Init /\ [][Next]_vars

\* The worker loop runs on its own goroutine with a ticker and looks for stale
\* rows before every batch, contexts bound its calls, a stopped server is
\* restarted, and time passes.
FairSpec ==
  /\ Spec
  /\ \A w \in Workers : /\ WF_vars(WorkerNext(w)) /\ SF_vars(RequeueStale(w))
                        /\ WF_vars(Restart(w))
  /\ \A j \in Jobs : WF_vars(NextRunReached(j))
  /\ WF_vars(Tick)

-----------------------------------------------------------------------------
(* Properties. *)

\* What holds of a row whoever wrote it: its columns have values of their
\* types and it is locked exactly while RUNNING.
GoodRow(row) == row \in Row /\ (row.status = "RUNNING" <=> row.lockedBy # NoWorker)

RowsOK == jobs \in [Jobs -> Row] /\ \A j \in Jobs : GoodRow(jobs[j])

WorkersOK ==
  /\ worker \in [Workers -> WorkerState]
  /\ \A w \in Workers : Busy(w) => worker[w].job \in Jobs

RetriersOK ==
  /\ retrier \in [Retriers -> RetrierState]
  /\ \A r \in Retriers : retrier[r].pc = "write" => retrier[r].job \in Jobs

\* Every row is good, and a busy worker or retry call works on a row.
TypeOK == RowsOK /\ WorkersOK /\ RetriersOK /\ today \in 1 .. MaxDay /\ mishaps \in Nat

\* Whatever enqueues, retries and requeues interleave, a request has at most
\* one active row (idx_hdbj_active_request_unique and the writes it judges).
OneActivePerRequest ==
  \A j, k \in Jobs : Active(jobs[j]) /\ Active(jobs[k]) /\ jobs[j].day = jobs[k].day => j = k

\* With one retry call at a time, the row a worker is processing is RUNNING,
\* locked by that worker and as old as its claim: nobody requeues it or
\* claims it again before the worker's contexts have ended.
WorkerOwnsRow ==
  \A w \in Workers : Busy(w) =>
    LET row == jobs[worker[w].job]
    IN  /\ row.status = "RUNNING" /\ row.lockedBy = w
        /\ row.attempts = worker[w].attempts /\ row.day = worker[w].day
        /\ row.age = worker[w].elapsed

\* A job is tried max_attempts times, and once more for every crash and every
\* write lost to an expired context: neither the claim nor the requeue looks
\* at the attempts.
AttemptsBounded == \A j \in Jobs : jobs[j].attempts <= MaxAttempts + mishaps

\* A finished job is left only by a retry, which starts its attempts again:
\* no late write of a worker brings it back or changes its outcome.
FinishedIsFinal ==
  [][\A j \in Jobs : jobs[j].status \in {"COMPLETE", "ERROR"} /\ jobs'[j] # jobs[j] =>
       jobs'[j].status = "QUEUED" /\ jobs'[j].attempts = 0]_vars

\* Once users stop retrying, every job that is queued is finished in the end,
\* through crashes, lost writes, failures and backoff.  (A row retried for ever
\* is older than the rows behind it and is claimed before them each time.)
JobsSettle ==
  <>[][UNCHANGED retrier]_vars =>
    \A j \in Jobs : jobs[j].status = "QUEUED" ~> jobs[j].status \in {"COMPLETE", "ERROR"}

\* The queue as its callers see it: who owns a job is what the workers are
\* doing, not the locked_by column.
Phase(status) ==
  CASE status = "ABSENT"   -> "none"
    [] status = "QUEUED"   -> "waiting"
    [] status = "RUNNING"  -> "taken"
    [] status = "COMPLETE" -> "done"
    [] status = "ERROR"    -> "failed"

Queue == INSTANCE JobQueue WITH
  Requests <- 1 .. MaxDay, NoJob <- 0,
  state    <- [j \in Jobs |-> Phase(jobs[j].status)],
  request  <- [j \in Jobs |-> jobs[j].day],
  owns     <- [w \in Workers |-> worker[w].job]

\* With one retry call at a time the table and its workers keep the promises of
\* JobQueue: a row is put back, finished or claimed again only by the worker
\* that works on it or after that worker has stopped, and never twice for a
\* request.
ImplementsQueue == Queue!Spec

-----------------------------------------------------------------------------
(* The inductive invariant behind the properties, for one retry call at a  *)
(* time: what each part adds to the property it is named after.            *)

\* How long a worker can have been on its job: the fetch ends with the job's
\* context, the rebuild with its own.
Deadlines ==
  \A w \in Workers :
    /\ worker[w].pc = "fetch" => worker[w].elapsed <= JobTimeout /\ worker[w].spent = 0
    /\ worker[w].pc = "rebuild" => /\ worker[w].spent <= RebuildTimeout
                                  /\ worker[w].elapsed <= JobTimeout + worker[w].spent

\* The row a retry call is about to write is still finished.
RetryHoldsFinished ==
  \A r \in Retriers :
    retrier[r].pc = "write" => jobs[retrier[r].job].status \in {"COMPLETE", "ERROR"}

\* A row that no worker is processing has an attempt in hand.
Processed == {j \in Jobs : \E w \in Workers : Busy(w) /\ worker[w].job = j}

AttemptInHand ==
  \A j \in Jobs : Active(jobs[j]) /\ j \notin Processed =>
    jobs[j].attempts < MaxAttempts + mishaps

IInv ==
  /\ TypeOK /\ OneActivePerRequest /\ WorkerOwnsRow /\ AttemptsBounded
  /\ Deadlines /\ RetryHoldsFinished /\ AttemptInHand
=============================================================================

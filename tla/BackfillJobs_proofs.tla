------------------------- MODULE BackfillJobs_proofs -------------------------
(***************************************************************************)
(* Theorems about BackfillJobs, for every number of rows, workers, retry   *)
(* calls and attempts, and every choice of the three delays that satisfies *)
(* StaleAssumption.                                                        *)
(***************************************************************************)
EXTENDS BackfillJobs, TLAPS

USE JobsAssumption, NoWorkerAssumption, BoundsAssumption, StaleAssumption

\* A queued row is a good row.
LEMMA QueuedRowGood ==
  ASSUME NEW day \in 1 .. MaxDay, NEW attempts \in Nat, NEW due \in BOOLEAN
  PROVE  GoodRow(QueuedRow(day, attempts, due))
BY DEF GoodRow, Row, QueuedRow, Status, Step

\* A running row with its lock is a good row.
LEMMA RunningRowGood ==
  ASSUME NEW step \in Step, NEW day \in 1 .. MaxDay, NEW attempts \in Nat,
         NEW w \in Workers, NEW age \in 0 .. StaleThreshold
  PROVE  GoodRow(RunningRow(step, day, attempts, w, age))
BY DEF GoodRow, Row, RunningRow, Status

\* A finished row is a good row.
LEMMA FinishedRowGood ==
  ASSUME NEW status \in Status \ {"RUNNING"}, NEW step \in Step,
         NEW day \in 1 .. MaxDay, NEW attempts \in Nat
  PROVE  GoodRow(FinishedRow(status, step, day, attempts))
BY DEF GoodRow, Row, FinishedRow, Status

\* Writing a good row, whether or not the index refuses it, leaves good rows.
LEMMA StoreGood ==
  ASSUME RowsOK, NEW j \in Jobs, NEW row, GoodRow(row), jobs' = Store(j, row)
  PROVE  RowsOK'
BY DEF RowsOK, GoodRow, Store

\* So does replacing one row by a good one outright.
LEMMA PutGood ==
  ASSUME RowsOK, NEW j \in Jobs, NEW row, GoodRow(row), jobs' = [jobs EXCEPT ![j] = row]
  PROVE  RowsOK'
BY DEF RowsOK, GoodRow

\* What failBackfillJob writes is a good row.
LEMMA FailedRowGood ==
  ASSUME TypeOK, NEW w \in Workers, NEW retryable \in BOOLEAN
  PROVE  GoodRow(FailedRow(w, retryable))
<1>1. worker[w].day \in 1 .. MaxDay /\ worker[w].attempts \in Nat
  BY DEF TypeOK, WorkersOK, WorkerState
<1>2. GoodRow(QueuedRow(worker[w].day, worker[w].attempts, FALSE))
  BY <1>1, QueuedRowGood
<1>3. GoodRow(FinishedRow("ERROR", "FAILED", worker[w].day, worker[w].attempts))
  BY <1>1, FinishedRowGood DEF Status, Step
<1> QED BY <1>2, <1>3 DEF FailedRow

\* A worker that goes to rest is well typed and past its deadlines' reach.
LEMMA RestingGood ==
  ASSUME WorkersOK, Deadlines, NEW w \in Workers, NEW pc \in {"idle", "down"},
         worker' = [worker EXCEPT ![w] = Resting(pc)]
  PROVE  WorkersOK' /\ Deadlines'
BY DEF WorkersOK, WorkerState, Resting, Busy, Deadlines

-----------------------------------------------------------------------------
(* Type correctness.  It needs Deadlines: the age a worker saves with its  *)
(* row at the start of the rebuild is its elapsed time.                    *)

LEMMA SettleType ==
  ASSUME TypeOK, Deadlines, NEW w \in Workers, NEW row, GoodRow(row), Settle(w, row)
  PROVE  TypeOK' /\ Deadlines'
<1>1. worker[w].job \in Jobs /\ jobs' = Store(worker[w].job, row)
  BY DEF TypeOK, WorkersOK, Settle
<1>2. RowsOK' BY <1>1, StoreGood DEF TypeOK
<1>3. WorkersOK' /\ Deadlines' BY RestingGood DEF Settle, TypeOK
<1> QED BY <1>2, <1>3 DEF Settle, RetriersOK, TypeOK

LEMMA TypeStep == TypeOK /\ Deadlines /\ [Next]_vars => TypeOK' /\ Deadlines'
<1> SUFFICES ASSUME TypeOK, Deadlines, [Next]_vars PROVE TypeOK' /\ Deadlines'
  OBVIOUS
<1> USE DEF TypeOK
<1>1. ASSUME NEW j \in Jobs, Enqueue(j) PROVE TypeOK' /\ Deadlines'
  <2>1. GoodRow(QueuedRow(today, 0, TRUE)) BY QueuedRowGood
  <2>2. RowsOK' BY <1>1, <2>1, PutGood DEF Enqueue
  <2> QED BY <1>1, <2>2 DEF Enqueue, WorkersOK, RetriersOK, Busy, Deadlines
<1>2. ASSUME NEW j \in Jobs, NextRunReached(j) PROVE TypeOK' /\ Deadlines'
  <2>1. RowsOK' BY <1>2 DEF NextRunReached, RowsOK, GoodRow, Row
  <2> QED BY <1>2, <2>1 DEF NextRunReached, WorkersOK, RetriersOK, Busy, Deadlines
<1>3. ASSUME NEW w \in Workers, NEW j \in Jobs, Claim(w, j) PROVE TypeOK' /\ Deadlines'
  <2>1. jobs[j].day \in 1 .. MaxDay /\ jobs[j].attempts + 1 \in Nat
    BY DEF RowsOK, Row
  <2>2. GoodRow(RunningRow("FETCH_PRICES", jobs[j].day, jobs[j].attempts + 1, w, 0))
    BY <2>1, RunningRowGood DEF Step
  <2>3. RowsOK' BY <1>3, <2>2, PutGood DEF Claim
  <2>4. WorkersOK' BY <1>3, <2>1 DEF Claim, WorkersOK, WorkerState, Busy
  <2>5. Deadlines' BY <1>3 DEF Claim, WorkersOK, WorkerState, Deadlines
  <2> QED BY <1>3, <2>3, <2>4, <2>5 DEF Claim, RetriersOK
<1>4. ASSUME NEW w \in Workers, Complete(w) PROVE TypeOK' /\ Deadlines'
  <2>1. worker[w].day \in 1 .. MaxDay /\ worker[w].attempts \in Nat
    BY DEF WorkersOK, WorkerState
  <2>2. GoodRow(FinishedRow("COMPLETE", "DONE", worker[w].day, worker[w].attempts))
    BY <2>1, FinishedRowGood DEF Status, Step
  <2> QED BY <1>4, <2>2, SettleType DEF Complete
<1>5. ASSUME NEW w \in Workers, Fail(w) PROVE TypeOK' /\ Deadlines'
  BY <1>5, FailedRowGood, SettleType DEF Fail
<1>6. ASSUME NEW w \in Workers, StartRebuild(w) PROVE TypeOK' /\ Deadlines'
  <2>1. /\ worker[w].day \in 1 .. MaxDay /\ worker[w].attempts \in Nat
        /\ worker[w].elapsed \in 0 .. StaleThreshold /\ worker[w].job \in Jobs
    BY <1>6 DEF StartRebuild, WorkersOK, WorkerState, Busy, Deadlines
  <2>2. GoodRow(RunningRow("CALCULATE_PERFORMANCE", worker[w].day, worker[w].attempts, w,
                           worker[w].elapsed))
    BY <2>1, RunningRowGood DEF Step
  <2>3. RowsOK' BY <1>6, <2>1, <2>2, StoreGood DEF StartRebuild
  <2>4. WorkersOK' BY <1>6 DEF StartRebuild, WorkersOK, WorkerState, Busy
  <2>5. Deadlines' BY <1>6 DEF StartRebuild, Expired, Busy, WorkersOK, WorkerState, Deadlines
  <2> QED BY <1>6, <2>3, <2>4, <2>5 DEF StartRebuild, RetriersOK
<1>7. ASSUME NEW w \in Workers, LoseWrite(w) PROVE TypeOK' /\ Deadlines'
  <2>1. WorkersOK' /\ Deadlines' BY <1>7, RestingGood DEF LoseWrite
  <2> QED BY <1>7, <2>1 DEF LoseWrite, RowsOK, RetriersOK
<1>8. ASSUME NEW w \in Workers, RequeueStale(w) PROVE TypeOK' /\ Deadlines'
  <2>1. \A j \in Jobs : GoodRow(QueuedRow(jobs[j].day, jobs[j].attempts, TRUE))
    BY QueuedRowGood DEF RowsOK, Row
  <2>2. \A j \in Jobs : jobs'[j] \in {jobs[j], QueuedRow(jobs[j].day, jobs[j].attempts, TRUE)}
    BY <1>8 DEF RequeueStale
  <2>3. RowsOK'
    <3>1. \A j \in Jobs : GoodRow(jobs'[j]) BY <2>1, <2>2 DEF RowsOK
    <3>2. jobs' = [j \in Jobs |-> jobs'[j]] BY <1>8 DEF RequeueStale
    <3> QED BY <3>1, <3>2 DEF RowsOK, GoodRow
  <2> QED BY <1>8, <2>3 DEF RequeueStale, WorkersOK, RetriersOK, Busy, Deadlines
<1>9. ASSUME NEW w \in Workers, Crash(w) PROVE TypeOK' /\ Deadlines'
  <2>1. WorkersOK' /\ Deadlines' BY <1>9, RestingGood DEF Crash
  <2> QED BY <1>9, <2>1 DEF Crash, RowsOK, RetriersOK
<1>10. ASSUME NEW w \in Workers, Restart(w) PROVE TypeOK' /\ Deadlines'
  <2>1. WorkersOK' /\ Deadlines' BY <1>10, RestingGood DEF Restart
  <2> QED BY <1>10, <2>1 DEF Restart, RowsOK, RetriersOK
<1>11. ASSUME NEW r \in Retriers, NEW j \in Jobs, ReadForRetry(r, j)
       PROVE  TypeOK' /\ Deadlines'
  <2>1. RetriersOK' BY <1>11 DEF ReadForRetry, RetriersOK, RetrierState
  <2> QED BY <1>11, <2>1 DEF ReadForRetry, RowsOK, WorkersOK, Busy, Deadlines
<1>12. ASSUME NEW r \in Retriers, WriteRetry(r) PROVE TypeOK' /\ Deadlines'
  <2>1. GoodRow(QueuedRow(today, 0, TRUE)) BY QueuedRowGood
  <2>2. RowsOK' BY <1>12, <2>1, StoreGood DEF WriteRetry, RetriersOK
  <2>3. RetriersOK' BY <1>12 DEF WriteRetry, RetriersOK, RetrierState, NoRetry
  <2> QED BY <1>12, <2>2, <2>3 DEF WriteRetry, WorkersOK, Busy, Deadlines
<1>13. ASSUME Tick PROVE TypeOK' /\ Deadlines'
  <2>1. RowsOK'
    <3>1. ASSUME NEW j \in Jobs PROVE GoodRow(jobs'[j])
      <4>1. GoodRow(jobs[j]) BY DEF RowsOK
      <4>2. jobs[j].age < StaleThreshold => GoodRow([jobs[j] EXCEPT !.age = @ + 1])
        BY <4>1 DEF GoodRow, Row
      <4>3. jobs'[j] \in {jobs[j], [jobs[j] EXCEPT !.age = @ + 1]}
              /\ (jobs[j].age < StaleThreshold \/ jobs'[j] = jobs[j])
        BY <1>13 DEF Tick
      <4> QED BY <4>1, <4>2, <4>3
    <3>2. jobs' = [j \in Jobs |-> jobs'[j]] BY <1>13 DEF Tick
    <3> QED BY <3>1, <3>2 DEF RowsOK, GoodRow
  <2>2. worker' = [w \in Workers |->
          IF Busy(w)
            THEN [worker[w] EXCEPT !.elapsed = @ + 1,
                                   !.spent = IF worker[w].pc = "rebuild" THEN @ + 1 ELSE @]
            ELSE worker[w]]
    BY <1>13 DEF Tick
  <2>3. \A w \in Workers : /\ worker[w].pc = "fetch" => worker[w].elapsed < JobTimeout
                           /\ worker[w].pc = "rebuild" => worker[w].spent < RebuildTimeout
    BY <1>13 DEF Tick
  <2>4. ASSUME NEW w \in Workers
        PROVE  /\ worker'[w] \in WorkerState
               /\ worker'[w].pc = worker[w].pc /\ worker'[w].job = worker[w].job
               /\ Busy(w) => worker'[w].elapsed = worker[w].elapsed + 1
               /\ worker'[w].spent = IF worker[w].pc = "rebuild" THEN worker[w].spent + 1
                                                                ELSE worker[w].spent
    <3>1. worker[w] \in WorkerState BY DEF WorkersOK
    <3>2. CASE Busy(w) /\ worker[w].pc = "rebuild"
      <4>1. worker'[w] = [worker[w] EXCEPT !.elapsed = worker[w].elapsed + 1,
                                           !.spent = worker[w].spent + 1]
        BY <2>2, <3>2
      <4>2. worker'[w] = [pc |-> worker[w].pc, job |-> worker[w].job, day |-> worker[w].day,
                           attempts |-> worker[w].attempts,
                           elapsed |-> worker[w].elapsed + 1, spent |-> worker[w].spent + 1]
        BY <3>1, <4>1 DEF WorkerState
      <4> QED BY <3>1, <3>2, <4>2 DEF WorkerState
    <3>3. CASE Busy(w) /\ worker[w].pc # "rebuild"
      <4>1. worker'[w] = [worker[w] EXCEPT !.elapsed = worker[w].elapsed + 1,
                                           !.spent = worker[w].spent]
        BY <2>2, <3>3
      <4>2. worker'[w] = [pc |-> worker[w].pc, job |-> worker[w].job, day |-> worker[w].day,
                           attempts |-> worker[w].attempts,
                           elapsed |-> worker[w].elapsed + 1, spent |-> worker[w].spent]
        BY <3>1, <4>1 DEF WorkerState
      <4> QED BY <3>1, <3>3, <4>2 DEF WorkerState
    <3>4. CASE ~Busy(w) BY <2>2, <3>1, <3>4 DEF Busy
    <3> QED BY <3>2, <3>3, <3>4
  <2>5. WorkersOK'
    <3>1. worker' = [w \in Workers |-> worker'[w]] BY <2>2
    <3> QED BY <2>4, <3>1 DEF WorkersOK, Busy
  <2>6. Deadlines'
    <3> SUFFICES ASSUME NEW w \in Workers
                 PROVE  /\ worker'[w].pc = "fetch" =>
                             worker'[w].elapsed <= JobTimeout /\ worker'[w].spent = 0
                        /\ worker'[w].pc = "rebuild" =>
                             /\ worker'[w].spent <= RebuildTimeout
                             /\ worker'[w].elapsed <= JobTimeout + worker'[w].spent
      BY DEF Deadlines
    <3>1. worker[w].elapsed \in Nat /\ worker[w].spent \in Nat
      BY DEF WorkersOK, WorkerState
    <3>2. worker'[w].pc = worker[w].pc BY <2>4
    <3>3. CASE worker[w].pc = "fetch"
      <4>1. worker'[w].elapsed = worker[w].elapsed + 1 /\ worker'[w].spent = worker[w].spent
        BY <2>4, <3>3 DEF Busy
      <4>2. worker[w].elapsed < JobTimeout /\ worker[w].spent = 0
        BY <2>3, <3>3 DEF Deadlines
      <4> QED BY <3>1, <3>2, <3>3, <4>1, <4>2
    <3>4. CASE worker[w].pc = "rebuild"
      <4>1. worker'[w].elapsed = worker[w].elapsed + 1 /\ worker'[w].spent = worker[w].spent + 1
        BY <2>4, <3>4 DEF Busy
      <4>2. worker[w].spent < RebuildTimeout /\ worker[w].elapsed <= JobTimeout + worker[w].spent
        BY <2>3, <3>4 DEF Deadlines
      <4> QED BY <3>1, <3>2, <3>4, <4>1, <4>2
    <3> QED BY <3>2, <3>3, <3>4
  <2> QED BY <1>13, <2>1, <2>5, <2>6 DEF Tick, RetriersOK
<1>14. ASSUME NextDay PROVE TypeOK' /\ Deadlines'
  BY <1>14 DEF NextDay, RowsOK, WorkersOK, RetriersOK, Busy, Deadlines
<1>15. ASSUME UNCHANGED vars PROVE TypeOK' /\ Deadlines'
  BY <1>15 DEF vars, RowsOK, WorkersOK, RetriersOK, Busy, Deadlines
<1> QED
  BY <1>1, <1>2, <1>3, <1>4, <1>5, <1>6, <1>7, <1>8, <1>9, <1>10, <1>11, <1>12,
     <1>13, <1>14, <1>15 DEF Next, WorkerNext

LEMMA TypeInit == Init => TypeOK /\ Deadlines
<1> SUFFICES ASSUME Init PROVE TypeOK /\ Deadlines
  OBVIOUS
<1>1. \A j \in Jobs : GoodRow(jobs[j]) BY FinishedRowGood DEF Init, Status, Step
<1>2. RowsOK BY <1>1 DEF Init, RowsOK, GoodRow
<1>3. WorkersOK /\ Deadlines
  BY DEF Init, WorkersOK, WorkerState, Resting, Busy, Deadlines
<1>4. RetriersOK BY DEF Init, RetriersOK, RetrierState, NoRetry
<1> QED BY <1>2, <1>3, <1>4 DEF Init, TypeOK

\* The table, the workers and the retry calls stay well typed, a row is locked
\* exactly while RUNNING, and a worker's contexts bound its time on a job.
THEOREM TypeCorrect == Spec => [](TypeOK /\ Deadlines)
<1>1. Init => TypeOK /\ Deadlines BY TypeInit
<1>2. TypeOK /\ Deadlines /\ [Next]_vars => (TypeOK /\ Deadlines)' BY TypeStep
<1> QED BY <1>1, <1>2, PTL DEF Spec

-----------------------------------------------------------------------------
(* At most one active row per request, for any number of retry calls.      *)

\* A whole-row write that the index judges keeps requests unique.
LEMMA StoreUnique ==
  ASSUME RowsOK, OneActivePerRequest, NEW j \in Jobs, NEW row, jobs' = Store(j, row)
  PROVE  OneActivePerRequest'
<1>1. CASE Active(row) /\ ~IndexAllows(j, row.day)
  BY <1>1 DEF Store, OneActivePerRequest, Active
<1>2. CASE ~Active(row) /\ jobs' = [jobs EXCEPT ![j] = row]
  BY <1>2 DEF RowsOK, OneActivePerRequest, Active
<1>3. CASE IndexAllows(j, row.day) /\ jobs' = [jobs EXCEPT ![j] = row]
  BY <1>3 DEF RowsOK, IndexAllows, OneActivePerRequest, Active
<1> QED BY <1>1, <1>2, <1>3 DEF Store

\* So does a step after which only rows active before are active, with their days.
LEMMA KeepUnique ==
  ASSUME OneActivePerRequest,
         \A j \in Jobs : Active(jobs'[j]) =>
           Active(jobs[j]) /\ jobs'[j].day = jobs[j].day
  PROVE  OneActivePerRequest'
BY DEF OneActivePerRequest, Active

LEMMA UniqueStep ==
  TypeOK /\ OneActivePerRequest /\ [Next]_vars => OneActivePerRequest'
<1> SUFFICES ASSUME TypeOK, OneActivePerRequest, [Next]_vars PROVE OneActivePerRequest'
  OBVIOUS
<1> USE DEF TypeOK
<1>1. ASSUME NEW j \in Jobs, Enqueue(j) PROVE OneActivePerRequest'
  <2>1. jobs' = Store(j, QueuedRow(today, 0, TRUE))
    BY <1>1 DEF Enqueue, Store, QueuedRow
  <2> QED BY <2>1, StoreUnique
<1>2. ASSUME NEW j \in Jobs, NextRunReached(j) PROVE OneActivePerRequest'
  <2>1. \A k \in Jobs : jobs'[k].status = jobs[k].status /\ jobs'[k].day = jobs[k].day
    BY <1>2 DEF NextRunReached, RowsOK, Row
  <2> QED BY <2>1, KeepUnique DEF Active
<1>3. ASSUME NEW w \in Workers, NEW j \in Jobs, Claim(w, j) PROVE OneActivePerRequest'
  <2>1. Active(jobs[j]) BY <1>3 DEF Claim, Runnable, Active
  <2>2. jobs'[j].day = jobs[j].day BY <1>3 DEF Claim, RowsOK, RunningRow
  <2>3. \A k \in Jobs \ {j} : jobs'[k] = jobs[k] BY <1>3 DEF Claim, RowsOK
  <2> QED BY <2>1, <2>2, <2>3, KeepUnique
<1>4. ASSUME NEW w \in Workers, NEW row, Settle(w, row) PROVE OneActivePerRequest'
  BY <1>4, StoreUnique DEF Settle, WorkersOK
<1>5. ASSUME NEW w \in Workers, StartRebuild(w) PROVE OneActivePerRequest'
  BY <1>5, StoreUnique DEF StartRebuild, WorkersOK, Busy
<1>6. ASSUME NEW w \in Workers, RequeueStale(w) PROVE OneActivePerRequest'
  <2>1. ASSUME NEW j \in Jobs, Active(jobs'[j])
        PROVE  Active(jobs[j]) /\ jobs'[j].day = jobs[j].day
    <3>1. \/ jobs'[j] = jobs[j]
          \/ jobs[j].status = "RUNNING" /\ jobs'[j] = QueuedRow(jobs[j].day, jobs[j].attempts, TRUE)
      BY <1>6 DEF RequeueStale
    <3> QED BY <2>1, <3>1 DEF Active, QueuedRow
  <2> QED BY <2>1, KeepUnique
<1>7. ASSUME NEW r \in Retriers, WriteRetry(r) PROVE OneActivePerRequest'
  BY <1>7, StoreUnique DEF WriteRetry, RetriersOK
<1>8. ASSUME Tick PROVE OneActivePerRequest'
  <2>1. ASSUME NEW j \in Jobs
        PROVE  jobs'[j].status = jobs[j].status /\ jobs'[j].day = jobs[j].day
    <3>1. jobs'[j] \in {jobs[j], [jobs[j] EXCEPT !.age = @ + 1]} BY <1>8 DEF Tick
    <3>2. jobs[j] \in Row BY DEF RowsOK
    <3> QED BY <3>1, <3>2 DEF Row
  <2> QED BY <2>1, KeepUnique DEF Active
<1>9. ASSUME UNCHANGED jobs PROVE OneActivePerRequest'
  BY <1>9, KeepUnique
<1> QED
  BY <1>1, <1>2, <1>3, <1>4, <1>5, <1>6, <1>7, <1>8, <1>9
  DEF Next, WorkerNext, Complete, Fail, LoseWrite, Crash, Restart, ReadForRetry, NextDay, vars

\* Whatever workers, retries and enqueuers do, a request has at most one
\* active row.
THEOREM OneActive == Spec => []OneActivePerRequest
<1>1. Init => OneActivePerRequest
  BY DEF Init, OneActivePerRequest, Active, FinishedRow
<1>2. (TypeOK /\ Deadlines) /\ OneActivePerRequest /\ [Next]_vars => OneActivePerRequest'
  BY UniqueStep
<1> QED BY <1>1, <1>2, TypeCorrect, PTL DEF Spec

-----------------------------------------------------------------------------
(* A worker owns the row it processes, as long as retry calls do not       *)
(* overlap: a retry that read the row before another one put it back would *)
(* write over a row that a worker has claimed since.                       *)

OneRetrier == \A r, s \in Retriers : r = s

OwnersDistinct ==
  \A v, w \in Workers : Busy(v) /\ Busy(w) /\ worker[v].job = worker[w].job => v = w

Owned == TypeOK /\ Deadlines /\ OneActivePerRequest /\ WorkerOwnsRow /\ RetryHoldsFinished

\* Two workers that own their rows have different rows.
LEMMA OwnersDiffer == TypeOK /\ WorkerOwnsRow => OwnersDistinct
BY DEF TypeOK, WorkersOK, WorkerOwnsRow, OwnersDistinct

\* The index never refuses an owner's write: its row holds the request.
LEMMA OwnerStores ==
  ASSUME Owned, NEW w \in Workers, Busy(w), NEW row, row.day = worker[w].day,
         jobs' = Store(worker[w].job, row)
  PROVE  jobs' = [jobs EXCEPT ![worker[w].job] = row]
<1>1. worker[w].job \in Jobs BY DEF Owned, TypeOK, WorkersOK
<1>2. Active(jobs[worker[w].job]) /\ jobs[worker[w].job].day = row.day
  BY DEF Owned, WorkerOwnsRow, Active
<1>3. IndexAllows(worker[w].job, row.day)
  BY <1>1, <1>2 DEF Owned, OneActivePerRequest, IndexAllows
<1> QED BY <1>3 DEF Store

\* A worker's row stays its own when neither the row nor the worker changes.
LEMMA KeepOwned ==
  ASSUME Owned, worker' = worker,
         \A j \in Jobs : jobs[j].status = "RUNNING" /\ jobs[j].age < StaleThreshold =>
           jobs'[j] = jobs[j]
  PROVE  WorkerOwnsRow'
<1> SUFFICES ASSUME NEW w \in Workers, Busy(w)
             PROVE  jobs'[worker[w].job] = jobs[worker[w].job]
  BY DEF Owned, WorkerOwnsRow, Busy
<1>1. worker[w].job \in Jobs BY DEF Owned, TypeOK, WorkersOK
<1>2. /\ jobs[worker[w].job].status = "RUNNING"
      /\ jobs[worker[w].job].age = worker[w].elapsed
  BY DEF Owned, WorkerOwnsRow
<1>3. worker[w].elapsed < StaleThreshold
  BY DEF Owned, TypeOK, WorkersOK, WorkerState, Deadlines, Busy
<1> QED BY <1>1, <1>2, <1>3

\* A retry call's row stays finished when the step changes no finished row.
LEMMA KeepFinished ==
  ASSUME Owned, retrier' = retrier,
         \A j \in Jobs : jobs[j].status \in {"COMPLETE", "ERROR"} => jobs'[j] = jobs[j]
  PROVE  RetryHoldsFinished'
BY DEF Owned, TypeOK, RetriersOK, RetryHoldsFinished

\* A worker that rests gives up its row; the others keep theirs.
LEMMA RestOwned ==
  ASSUME Owned, NEW w \in Workers, NEW pc \in {"idle", "down"},
         worker' = [worker EXCEPT ![w] = Resting(pc)],
         \A j \in Jobs : (Busy(w) /\ j = worker[w].job) \/ jobs'[j] = jobs[j]
  PROVE  WorkerOwnsRow'
<1> SUFFICES ASSUME NEW v \in Workers, Busy(v)', v # w
             PROVE  jobs'[worker[v].job] = jobs[worker[v].job]
  BY DEF Owned, WorkerOwnsRow, Busy, Resting, TypeOK, WorkersOK
<1>1. Busy(v) /\ worker[v].job \in Jobs
  BY DEF Busy, Owned, TypeOK, WorkersOK
<1>2. Busy(w) => worker[v].job # worker[w].job
  BY <1>1, OwnersDiffer DEF Owned, OwnersDistinct
<1> QED BY <1>1, <1>2

LEMMA SettleOwned ==
  ASSUME Owned, NEW w \in Workers, NEW row, Settle(w, row)
  PROVE  WorkerOwnsRow' /\ RetryHoldsFinished'
<1>1. Busy(w) /\ worker[w].job \in Jobs /\ jobs[worker[w].job].status = "RUNNING"
  BY DEF Settle, Owned, TypeOK, WorkersOK, WorkerOwnsRow
<1>2. \A j \in Jobs : j = worker[w].job \/ jobs'[j] = jobs[j]
  BY DEF Settle, Store, Owned, TypeOK, RowsOK
<1>3. WorkerOwnsRow' BY <1>1, <1>2, RestOwned DEF Settle
<1>4. RetryHoldsFinished' BY <1>1, <1>2, KeepFinished DEF Settle
<1> QED BY <1>3, <1>4

LEMMA OwnedStep ==
  OneRetrier /\ Owned /\ [Next]_vars => WorkerOwnsRow' /\ RetryHoldsFinished'
<1> SUFFICES ASSUME OneRetrier, Owned, [Next]_vars
             PROVE  WorkerOwnsRow' /\ RetryHoldsFinished'
  OBVIOUS
<1> USE DEF Owned, TypeOK
<1>1. ASSUME NEW j \in Jobs, Enqueue(j) PROVE WorkerOwnsRow' /\ RetryHoldsFinished'
  <2>1. \A k \in Jobs : jobs[k].status # "ABSENT" => jobs'[k] = jobs[k]
    BY <1>1 DEF Enqueue, RowsOK
  <2> QED BY <1>1, <2>1, KeepOwned, KeepFinished DEF Enqueue
<1>2. ASSUME NEW j \in Jobs, NextRunReached(j) PROVE WorkerOwnsRow' /\ RetryHoldsFinished'
  <2>1. \A k \in Jobs : jobs[k].status # "QUEUED" => jobs'[k] = jobs[k]
    BY <1>2 DEF NextRunReached, RowsOK
  <2> QED BY <1>2, <2>1, KeepOwned, KeepFinished DEF NextRunReached
<1>3. ASSUME NEW w \in Workers, NEW j \in Jobs, Claim(w, j)
      PROVE  WorkerOwnsRow' /\ RetryHoldsFinished'
  <2>1. \A k \in Jobs : jobs[k].status # "QUEUED" => jobs'[k] = jobs[k]
    BY <1>3 DEF Claim, Runnable, RowsOK
  <2>2. ASSUME NEW v \in Workers, Busy(v)', v # w
        PROVE  worker'[v] = worker[v] /\ jobs'[worker[v].job] = jobs[worker[v].job]
    BY <1>3, <2>1, <2>2 DEF Claim, WorkersOK, Busy, WorkerOwnsRow
  <2>3. /\ jobs'[j] = RunningRow("FETCH_PRICES", jobs[j].day, jobs[j].attempts + 1, w, 0)
        /\ worker'[w] = [pc |-> "fetch", job |-> j, day |-> jobs[j].day,
                         attempts |-> jobs[j].attempts + 1, elapsed |-> 0, spent |-> 0]
    BY <1>3 DEF Claim, RowsOK, WorkersOK
  <2>4. WorkerOwnsRow' BY <2>2, <2>3 DEF WorkerOwnsRow, Busy, RunningRow
  <2>5. RetryHoldsFinished' BY <1>3, <2>1, KeepFinished DEF Claim
  <2> QED BY <2>4, <2>5
<1>4. ASSUME NEW w \in Workers, NEW row, Settle(w, row)
      PROVE  WorkerOwnsRow' /\ RetryHoldsFinished'
  BY <1>4, SettleOwned
<1>5. ASSUME NEW w \in Workers, StartRebuild(w) PROVE WorkerOwnsRow' /\ RetryHoldsFinished'
  <2> DEFINE row == RunningRow("CALCULATE_PERFORMANCE", worker[w].day, worker[w].attempts, w,
                               worker[w].elapsed)
  <2>1. /\ Busy(w) /\ worker[w].job \in Jobs
        /\ jobs[worker[w].job].status = "RUNNING"
    BY <1>5 DEF StartRebuild, Busy, WorkersOK, WorkerOwnsRow
  <2>2. jobs' = [jobs EXCEPT ![worker[w].job] = row]
    BY <1>5, <2>1, OwnerStores DEF StartRebuild, RunningRow
  <2>3. ASSUME NEW v \in Workers, Busy(v)', v # w
        PROVE  worker'[v] = worker[v] /\ jobs'[worker[v].job] = jobs[worker[v].job]
    BY <1>5, <2>1, <2>2, <2>3, OwnersDiffer
    DEF StartRebuild, RowsOK, WorkersOK, Busy, OwnersDistinct
  <2>4. jobs'[worker[w].job] = row BY <2>1, <2>2 DEF RowsOK
  <2>5. /\ worker'[w].job = worker[w].job /\ worker'[w].day = worker[w].day
        /\ worker'[w].attempts = worker[w].attempts
        /\ worker'[w].elapsed = worker[w].elapsed
    BY <1>5 DEF StartRebuild, WorkersOK, WorkerState
  <2>6. WorkerOwnsRow' BY <2>3, <2>4, <2>5 DEF WorkerOwnsRow, Busy, RunningRow
  <2>7. \A j \in Jobs : jobs[j].status # "RUNNING" => jobs'[j] = jobs[j]
    BY <2>1, <2>2 DEF RowsOK
  <2>8. RetryHoldsFinished' BY <1>5, <2>7, KeepFinished DEF StartRebuild
  <2> QED BY <2>6, <2>8
<1>6. ASSUME NEW w \in Workers, LoseWrite(w) \/ Crash(w) \/ Restart(w)
      PROVE  WorkerOwnsRow' /\ RetryHoldsFinished'
  BY <1>6, RestOwned, KeepFinished DEF LoseWrite, Crash, Restart
<1>7. ASSUME NEW w \in Workers, RequeueStale(w) PROVE WorkerOwnsRow' /\ RetryHoldsFinished'
  <2>1. \A j \in Jobs : ~(jobs[j].status = "RUNNING" /\ jobs[j].age >= StaleThreshold) =>
          jobs'[j] = jobs[j]
    BY <1>7 DEF RequeueStale
  <2>2. \A j \in Jobs : jobs[j].age \in Nat BY DEF RowsOK, Row
  <2>3. worker' = worker /\ retrier' = retrier BY <1>7 DEF RequeueStale
  <2>4. \A j \in Jobs : jobs[j].status = "RUNNING" /\ jobs[j].age < StaleThreshold =>
          jobs'[j] = jobs[j]
    <3> SUFFICES ASSUME NEW j \in Jobs, jobs[j].age < StaleThreshold
                 PROVE  ~(jobs[j].age >= StaleThreshold)
      BY <2>1
    <3>1. jobs[j].age \in Nat BY <2>2
    <3> QED BY <3>1
  <2>5. WorkerOwnsRow' BY <2>3, <2>4, KeepOwned
  <2>6. RetryHoldsFinished' BY <2>1, <2>3, KeepFinished
  <2> QED BY <2>5, <2>6
<1>8. ASSUME NEW r \in Retriers, NEW j \in Jobs, ReadForRetry(r, j)
      PROVE  WorkerOwnsRow' /\ RetryHoldsFinished'
  <2>1. WorkerOwnsRow' BY <1>8, KeepOwned DEF ReadForRetry
  <2>2. RetryHoldsFinished' BY <1>8 DEF ReadForRetry, RetriersOK, RetryHoldsFinished
  <2> QED BY <2>1, <2>2
<1>9. ASSUME NEW r \in Retriers, WriteRetry(r) PROVE WorkerOwnsRow' /\ RetryHoldsFinished'
  <2>1. /\ retrier[r].job \in Jobs
        /\ jobs[retrier[r].job].status \in {"COMPLETE", "ERROR"}
    BY <1>9 DEF WriteRetry, RetriersOK, RetryHoldsFinished
  <2>2. \A j \in Jobs : jobs[j].status = "RUNNING" => jobs'[j] = jobs[j]
    BY <1>9, <2>1 DEF WriteRetry, Store, RowsOK
  <2>3. WorkerOwnsRow' BY <1>9, <2>2, KeepOwned DEF WriteRetry
  <2>4. \A s \in Retriers : retrier'[s].pc = "idle"
    BY <1>9 DEF OneRetrier, WriteRetry, RetriersOK, NoRetry
  <2> QED BY <2>3, <2>4 DEF RetryHoldsFinished
<1>10. ASSUME Tick PROVE WorkerOwnsRow' /\ RetryHoldsFinished'
  <2>1. ASSUME NEW w \in Workers, Busy(w)'
        PROVE  LET row == jobs'[worker'[w].job]
               IN  /\ row.status = "RUNNING" /\ row.lockedBy = w
                   /\ row.attempts = worker'[w].attempts /\ row.day = worker'[w].day
                   /\ row.age = worker'[w].elapsed
    <3>1. worker' = [v \in Workers |->
            IF Busy(v)
              THEN [worker[v] EXCEPT !.elapsed = @ + 1,
                                     !.spent = IF worker[v].pc = "rebuild" THEN @ + 1 ELSE @]
              ELSE worker[v]]
      BY <1>10 DEF Tick
    <3>2. worker[w] \in WorkerState BY DEF WorkersOK
    <3>3. Busy(w) BY <2>1, <3>1, <3>2 DEF Busy, WorkerState
    <3>4. worker'[w] = [worker[w] EXCEPT !.elapsed = worker[w].elapsed + 1,
                          !.spent = IF worker[w].pc = "rebuild" THEN worker[w].spent + 1
                                                                ELSE worker[w].spent]
      BY <3>1, <3>3
    <3>5. /\ worker'[w].job = worker[w].job /\ worker'[w].attempts = worker[w].attempts
          /\ worker'[w].day = worker[w].day /\ worker'[w].elapsed = worker[w].elapsed + 1
      BY <3>2, <3>4 DEF WorkerState
    <3> DEFINE row == jobs[worker[w].job]
    <3>6. worker[w].job \in Jobs /\ row \in Row BY <3>3 DEF WorkersOK, RowsOK
    <3>7. /\ row.status = "RUNNING" /\ row.lockedBy = w /\ row.attempts = worker[w].attempts
          /\ row.day = worker[w].day /\ row.age = worker[w].elapsed
      BY <3>3 DEF WorkerOwnsRow
    <3>8. row.age < StaleThreshold
      <4>1. worker[w].elapsed \in Nat /\ worker[w].spent \in Nat BY <3>2 DEF WorkerState
      <4>2. worker[w].elapsed <= JobTimeout + RebuildTimeout
        BY <3>3, <4>1 DEF Busy, Deadlines
      <4> QED BY <3>7, <4>1, <4>2
    <3>9. jobs'[worker[w].job] = [row EXCEPT !.age = row.age + 1]
      BY <1>10, <3>6, <3>7, <3>8 DEF Tick
    <3> QED BY <3>5, <3>6, <3>7, <3>9 DEF Row
  <2>2. \A j \in Jobs : jobs[j].status # "RUNNING" => jobs'[j] = jobs[j]
    BY <1>10 DEF Tick
  <2>3. RetryHoldsFinished' BY <1>10, <2>2, KeepFinished DEF Tick
  <2> QED BY <2>1, <2>3 DEF WorkerOwnsRow
<1>11. ASSUME NextDay \/ UNCHANGED vars PROVE WorkerOwnsRow' /\ RetryHoldsFinished'
  BY <1>11, KeepOwned, KeepFinished DEF NextDay, vars
<1> QED
  BY <1>1, <1>2, <1>3, <1>4, <1>5, <1>6, <1>7, <1>8, <1>9, <1>10, <1>11
  DEF Next, WorkerNext, Complete, Fail

LEMMA OwnedInit == Init => Owned
<1>1. Init => WorkerOwnsRow /\ RetryHoldsFinished
  BY DEF Init, WorkerOwnsRow, RetryHoldsFinished, Busy, Resting, NoRetry
<1>2. Init => OneActivePerRequest
  BY DEF Init, OneActivePerRequest, Active, FinishedRow
<1> QED BY <1>1, <1>2, TypeInit DEF Owned

\* When retry calls do not overlap, the row a worker processes is RUNNING,
\* locked by it and as old as its claim.
THEOREM Ownership == OneRetrier /\ Spec => []WorkerOwnsRow
<1>1. Init => Owned BY OwnedInit
<1>2. OneRetrier /\ Owned /\ [Next]_vars => Owned'
  BY TypeStep, UniqueStep, OwnedStep DEF Owned
<1>3. OneRetrier => OneRetrier' BY DEF OneRetrier
<1>4. Owned => WorkerOwnsRow BY DEF Owned
<1> QED BY <1>1, <1>2, <1>3, <1>4, PTL DEF Spec

-----------------------------------------------------------------------------
(* Attempts.  The claim and the requeue never look at max_attempts, so a   *)
(* row can be tried more often; every such try is paid for by a crash or a *)
(* lost write.  AttemptInHand carries the difference between a row that is *)
(* being processed and one that is not.                                    *)

AttemptsOK ==
  {j \in Jobs :
    /\ jobs[j].attempts <= MaxAttempts + mishaps
    /\ Active(jobs[j]) /\ j \notin Processed => jobs[j].attempts < MaxAttempts + mishaps}

LEMMA AttemptsParts ==
  AttemptsBounded /\ AttemptInHand <=> Jobs \subseteq AttemptsOK
BY DEF AttemptsBounded, AttemptInHand, AttemptsOK

\* The rows that other workers process are still processed when w's record
\* is the only one that changes.
LEMMA StillProcessed ==
  ASSUME WorkersOK, NEW w \in Workers, NEW rec, worker' = [worker EXCEPT ![w] = rec],
         NEW j \in Jobs, j \in Processed, ~(Busy(w) /\ worker[w].job = j)
  PROVE  j \in Processed'
<1>1. PICK v \in Workers : Busy(v) /\ worker[v].job = j BY DEF Processed
<1>2. v # w BY <1>1
<1>3. worker'[v] = worker[v] BY <1>2 DEF WorkersOK
<1> QED BY <1>1, <1>3 DEF Processed, Busy

LEMMA SettleAttempts ==
  ASSUME Owned, Jobs \subseteq AttemptsOK, NEW w \in Workers, NEW row, Settle(w, row),
         row.day = worker[w].day, row.attempts = worker[w].attempts,
         Active(row) => row.attempts < MaxAttempts
  PROVE  Jobs \subseteq AttemptsOK'
<1> USE DEF Owned, TypeOK
<1>1. /\ Busy(w) /\ worker[w].job \in Jobs /\ mishaps' = mishaps
      /\ worker[w].attempts \in Nat
  BY DEF Settle, WorkersOK, WorkerState
<1>2. jobs' = [jobs EXCEPT ![worker[w].job] = row]
  BY <1>1, OwnerStores DEF Settle
<1> SUFFICES ASSUME NEW j \in Jobs PROVE j \in AttemptsOK'
  OBVIOUS
<1>3. CASE j = worker[w].job
  <2>1. jobs'[j] = row BY <1>2, <1>3 DEF RowsOK
  <2>2. row.attempts <= MaxAttempts + mishaps
    BY <1>1, <1>3 DEF WorkerOwnsRow, AttemptsOK
  <2> QED BY <1>1, <2>1, <2>2 DEF AttemptsOK
<1>4. CASE j # worker[w].job
  <2>1. jobs'[j] = jobs[j] BY <1>2, <1>4 DEF RowsOK
  <2>2. j \in Processed => j \in Processed'
    BY <1>1, <1>4, StillProcessed DEF Settle
  <2>3. jobs[j].attempts \in Nat BY DEF RowsOK, Row
  <2> QED BY <1>1, <2>1, <2>2, <2>3 DEF AttemptsOK
<1> QED BY <1>3, <1>4

\* A crash or a lost write lets the row go, and is counted.
LEMMA MishapAttempts ==
  ASSUME Owned, Jobs \subseteq AttemptsOK, NEW w \in Workers, NEW rec, Busy(w),
         worker' = [worker EXCEPT ![w] = rec], mishaps' = mishaps + 1, jobs' = jobs,
         NEW j \in Jobs
  PROVE  j \in AttemptsOK'
<1> USE DEF Owned, TypeOK
<1>1. jobs[j].attempts \in Nat /\ mishaps \in Nat BY DEF RowsOK, Row
<1>2. CASE j = worker[w].job
  BY <1>1, <1>2 DEF AttemptsOK
<1>3. CASE j # worker[w].job
  <2>1. j \in Processed => j \in Processed' BY <1>3, StillProcessed
  <2>2. /\ jobs[j].attempts <= MaxAttempts + mishaps
        /\ Active(jobs[j]) /\ j \notin Processed => jobs[j].attempts < MaxAttempts + mishaps
    BY DEF AttemptsOK
  <2>3. /\ jobs'[j].attempts <= MaxAttempts + mishaps'
        /\ Active(jobs'[j]) /\ j \notin Processed' => jobs'[j].attempts < MaxAttempts + mishaps'
    BY <1>1, <2>1, <2>2
  <2> QED BY <2>3 DEF AttemptsOK
<1> QED BY <1>2, <1>3

LEMMA AttemptsStep ==
  Owned /\ AttemptsBounded /\ AttemptInHand /\ [Next]_vars => AttemptsBounded' /\ AttemptInHand'
<1> SUFFICES ASSUME Owned, Jobs \subseteq AttemptsOK, [Next]_vars
             PROVE  Jobs \subseteq AttemptsOK'
  BY DEF AttemptsBounded, AttemptInHand, AttemptsOK
<1> USE DEF Owned, TypeOK
<1>0. \A k \in Jobs : jobs[k] \in Row /\ jobs[k].attempts \in Nat
  BY DEF RowsOK, Row
<1>1. ASSUME NEW k \in Jobs, Enqueue(k) PROVE Jobs \subseteq AttemptsOK'
  <2>1. jobs'[k] = QueuedRow(today, 0, TRUE) /\ mishaps' = mishaps
    BY <1>1 DEF Enqueue, RowsOK
  <2>2. k \in AttemptsOK' BY <2>1 DEF AttemptsOK, QueuedRow
  <2>3. ASSUME NEW j \in Jobs, j # k PROVE j \in AttemptsOK'
    <3>1. jobs'[j] = jobs[j] BY <1>1, <2>3 DEF Enqueue, RowsOK
    <3>2. j \in Processed => j \in Processed' BY <1>1 DEF Enqueue, Processed, Busy
    <3> QED BY <1>0, <2>1, <3>1, <3>2 DEF AttemptsOK
  <2> QED BY <2>2, <2>3
<1>2. ASSUME NEW k \in Jobs, NextRunReached(k), NEW j \in Jobs PROVE j \in AttemptsOK'
  <2>1. jobs'[j].status = jobs[j].status /\ jobs'[j].attempts = jobs[j].attempts
    BY <1>0, <1>2 DEF NextRunReached, RowsOK, Row
  <2>2. j \in Processed => j \in Processed' BY <1>2 DEF NextRunReached, Processed, Busy
  <2> QED BY <1>0, <1>2, <2>1, <2>2 DEF AttemptsOK, NextRunReached, Active
<1>3. ASSUME NEW w \in Workers, NEW k \in Jobs, Claim(w, k), NEW j \in Jobs
      PROVE  j \in AttemptsOK'
  <2>1. ~Busy(w) /\ mishaps' = mishaps BY <1>3 DEF Claim, Busy
  <2>2. CASE j = k
    <3>1. jobs[k].attempts < MaxAttempts + mishaps
      BY <1>3 DEF Claim, Runnable, Active, Processed, WorkerOwnsRow, AttemptsOK
    <3>2. jobs'[k].attempts = jobs[k].attempts + 1
      BY <1>3 DEF Claim, RowsOK, RunningRow
    <3>3. k \in Processed' BY <1>3 DEF Claim, WorkersOK, Processed, Busy
    <3> QED BY <1>0, <2>1, <2>2, <3>1, <3>2, <3>3 DEF AttemptsOK
  <2>3. CASE j # k
    <3>1. jobs'[j] = jobs[j] BY <1>3, <2>3 DEF Claim, RowsOK
    <3>2. j \in Processed => j \in Processed' BY <1>3, <2>1, StillProcessed DEF Claim
    <3> QED BY <1>0, <2>1, <3>1, <3>2 DEF AttemptsOK
  <2> QED BY <2>2, <2>3
<1>4. ASSUME NEW w \in Workers, Complete(w) PROVE Jobs \subseteq AttemptsOK'
  BY <1>4, SettleAttempts DEF Complete, FinishedRow, Active
<1>5. ASSUME NEW w \in Workers, Fail(w) PROVE Jobs \subseteq AttemptsOK'
  <2>1. ASSUME NEW retryable \in BOOLEAN
        PROVE  /\ FailedRow(w, retryable).day = worker[w].day
               /\ FailedRow(w, retryable).attempts = worker[w].attempts
               /\ Active(FailedRow(w, retryable)) => worker[w].attempts < MaxAttempts
    BY DEF FailedRow, QueuedRow, FinishedRow, Active
  <2> QED BY <1>5, <2>1, SettleAttempts DEF Fail
<1>6. ASSUME NEW w \in Workers, StartRebuild(w), NEW j \in Jobs PROVE j \in AttemptsOK'
  <2> DEFINE row == RunningRow("CALCULATE_PERFORMANCE", worker[w].day, worker[w].attempts, w,
                               worker[w].elapsed)
  <2>1. Busy(w) /\ worker[w].job \in Jobs BY <1>6 DEF StartRebuild, Busy, WorkersOK
  <2>2. jobs' = [jobs EXCEPT ![worker[w].job] = row]
    BY <1>6, <2>1, OwnerStores DEF StartRebuild, RunningRow
  <2>3. /\ jobs'[j].attempts = jobs[j].attempts
        /\ Active(jobs'[j]) => Active(jobs[j])
    BY <2>1, <2>2 DEF RowsOK, WorkerOwnsRow, RunningRow, Active
  <2>4. \A v \in Workers : Busy(v) => Busy(v)' /\ worker'[v].job = worker[v].job
    BY <1>6 DEF StartRebuild, WorkersOK, WorkerState, Busy
  <2>5. j \in Processed => j \in Processed' BY <2>4 DEF Processed
  <2>6. mishaps' = mishaps BY <1>6 DEF StartRebuild
  <2> QED BY <1>0, <2>3, <2>5, <2>6 DEF AttemptsOK, Active
<1>7. ASSUME NEW w \in Workers, LoseWrite(w) \/ Crash(w), NEW j \in Jobs
      PROVE  j \in AttemptsOK'
  BY <1>7, MishapAttempts DEF LoseWrite, Expired, Crash
<1>8. ASSUME NEW w \in Workers, Restart(w), NEW j \in Jobs PROVE j \in AttemptsOK'
  <2>1. ~Busy(w) /\ jobs' = jobs /\ mishaps' = mishaps BY <1>8 DEF Restart, Busy
  <2>2. j \in Processed => j \in Processed' BY <1>8, <2>1, StillProcessed DEF Restart
  <2> QED BY <1>0, <2>1, <2>2 DEF AttemptsOK
<1>9. ASSUME NEW w \in Workers, RequeueStale(w), NEW j \in Jobs PROVE j \in AttemptsOK'
  <2>1. \/ jobs'[j] = jobs[j]
        \/ jobs[j].status = "RUNNING" /\ jobs'[j] = QueuedRow(jobs[j].day, jobs[j].attempts, TRUE)
    BY <1>9 DEF RequeueStale
  <2>2. jobs'[j].attempts = jobs[j].attempts /\ (Active(jobs'[j]) => Active(jobs[j]))
    BY <2>1 DEF QueuedRow, Active
  <2>3. worker' = worker /\ mishaps' = mishaps BY <1>9 DEF RequeueStale
  <2>4. j \in Processed => j \in Processed' BY <2>3 DEF Processed, Busy
  <2> QED BY <1>0, <2>2, <2>3, <2>4 DEF AttemptsOK
<1>10. ASSUME NEW r \in Retriers, WriteRetry(r), NEW j \in Jobs PROVE j \in AttemptsOK'
  <2>1. mishaps' = mishaps /\ worker' = worker BY <1>10 DEF WriteRetry
  <2>2. jobs'[j] = jobs[j] \/ jobs'[j] = QueuedRow(today, 0, TRUE)
    BY <1>10 DEF WriteRetry, Store, RowsOK
  <2>3. j \in Processed => j \in Processed' BY <2>1 DEF Processed, Busy
  <2>4. CASE jobs'[j] = jobs[j] BY <2>1, <2>3, <2>4 DEF AttemptsOK
  <2>5. CASE jobs'[j] = QueuedRow(today, 0, TRUE)
    BY <2>1, <2>5 DEF AttemptsOK, QueuedRow
  <2> QED BY <2>2, <2>4, <2>5
<1>11. ASSUME Tick, NEW j \in Jobs PROVE j \in AttemptsOK'
  <2>1. jobs'[j] \in {jobs[j], [jobs[j] EXCEPT !.age = @ + 1]} BY <1>11 DEF Tick
  <2>2. jobs'[j].status = jobs[j].status /\ jobs'[j].attempts = jobs[j].attempts
    BY <1>0, <2>1 DEF Row
  <2>3. \A v \in Workers : worker'[v].pc = worker[v].pc /\ worker'[v].job = worker[v].job
    <3>1. ASSUME NEW v \in Workers
          PROVE  worker'[v].pc = worker[v].pc /\ worker'[v].job = worker[v].job
      <4>1. worker[v] \in WorkerState BY DEF WorkersOK
      <4>2. \/ worker'[v] = worker[v]
            \/ worker'[v] = [worker[v] EXCEPT !.elapsed = worker[v].elapsed + 1,
                                !.spent = IF worker[v].pc = "rebuild" THEN worker[v].spent + 1
                                                                      ELSE worker[v].spent]
        BY <1>11 DEF Tick
      <4> QED BY <4>1, <4>2 DEF WorkerState
    <3> QED BY <3>1
  <2>4. j \in Processed => j \in Processed' BY <2>3 DEF Processed, Busy
  <2>5. mishaps' = mishaps BY <1>11 DEF Tick
  <2> QED BY <1>0, <2>2, <2>4, <2>5 DEF AttemptsOK, Active
<1>12. ASSUME UNCHANGED <<jobs, worker, mishaps>>, NEW j \in Jobs PROVE j \in AttemptsOK'
  BY <1>12 DEF AttemptsOK, Processed, Busy
<1> QED
  BY <1>1, <1>2, <1>3, <1>4, <1>5, <1>6, <1>7, <1>8, <1>9, <1>10, <1>11, <1>12
  DEF Next, WorkerNext, ReadForRetry, NextDay, vars

\* A row is tried at most max_attempts times, and once more for each crash and
\* each lost write.
THEOREM AttemptsBound == OneRetrier /\ Spec => []AttemptsBounded
<1>1. Init => Owned /\ AttemptsBounded /\ AttemptInHand
  BY OwnedInit DEF Init, AttemptsBounded, AttemptInHand, Active, FinishedRow
<1>2. OneRetrier /\ Owned /\ [Next]_vars => Owned'
  BY TypeStep, UniqueStep, OwnedStep DEF Owned
<1>3. OneRetrier => OneRetrier' BY DEF OneRetrier
<1> QED BY <1>1, <1>2, <1>3, AttemptsStep, PTL DEF Spec

-----------------------------------------------------------------------------
(* Finished jobs.  Workers write only over RUNNING rows, which they own, so *)
(* no step but WriteRetry reaches a finished row.                           *)

FinalStep ==
  \A j \in Jobs : jobs[j].status \in {"COMPLETE", "ERROR"} /\ jobs'[j] # jobs[j] =>
    jobs'[j].status = "QUEUED" /\ jobs'[j].attempts = 0

\* A worker's write over its own row leaves the finished rows alone.
LEMMA OwnerLeavesFinished ==
  ASSUME Owned, NEW w \in Workers, Busy(w), NEW row, jobs' = Store(worker[w].job, row)
  PROVE  FinalStep
<1>1. worker[w].job \in Jobs /\ jobs[worker[w].job].status = "RUNNING"
  BY DEF Owned, TypeOK, WorkersOK, WorkerOwnsRow
<1>2. \A j \in Jobs : j # worker[w].job => jobs'[j] = jobs[j]
  BY <1>1 DEF Store, Owned, TypeOK, RowsOK
<1> QED BY <1>1, <1>2 DEF FinalStep

LEMMA FinalStepOfNext == Owned /\ [Next]_vars => FinalStep
<1> SUFFICES ASSUME Owned, [Next]_vars PROVE FinalStep
  OBVIOUS
<1>1. ASSUME NEW k \in Jobs, Enqueue(k) \/ NextRunReached(k) PROVE FinalStep
  <2>1. jobs[k].status \notin {"COMPLETE", "ERROR"} BY <1>1 DEF Enqueue, NextRunReached
  <2>2. \A j \in Jobs : j # k => jobs'[j] = jobs[j]
    BY <1>1 DEF Enqueue, NextRunReached, Owned, TypeOK, RowsOK
  <2> QED BY <2>1, <2>2 DEF FinalStep
<1>2. ASSUME NEW w \in Workers, NEW k \in Jobs, Claim(w, k) PROVE FinalStep
  <2>1. jobs[k].status = "QUEUED" BY <1>2 DEF Claim, Runnable
  <2>2. \A j \in Jobs : j # k => jobs'[j] = jobs[j]
    BY <1>2 DEF Claim, Owned, TypeOK, RowsOK
  <2> QED BY <2>1, <2>2 DEF FinalStep
<1>3. ASSUME NEW w \in Workers, Complete(w) \/ Fail(w) PROVE FinalStep
  <2>1. PICK row : Settle(w, row) BY <1>3 DEF Complete, Fail
  <2> QED BY <2>1, OwnerLeavesFinished DEF Settle
<1>4. ASSUME NEW w \in Workers, StartRebuild(w) PROVE FinalStep
  BY <1>4, OwnerLeavesFinished DEF StartRebuild, Busy
<1>5. ASSUME NEW w \in Workers, RequeueStale(w) PROVE FinalStep
  <2>1. \A j \in Jobs : jobs[j].status # "RUNNING" => jobs'[j] = jobs[j]
    BY <1>5 DEF RequeueStale
  <2> QED BY <2>1 DEF FinalStep
<1>6. ASSUME NEW r \in Retriers, WriteRetry(r) PROVE FinalStep
  <2>1. \A j \in Jobs : jobs'[j] = jobs[j] \/ jobs'[j] = QueuedRow(today, 0, TRUE)
    BY <1>6 DEF WriteRetry, Store, Owned, TypeOK, RowsOK, RetriersOK
  <2> QED BY <2>1 DEF FinalStep, QueuedRow
<1>7. CASE Tick
  <2>1. \A j \in Jobs : jobs[j].status # "RUNNING" => jobs'[j] = jobs[j] BY <1>7 DEF Tick
  <2> QED BY <2>1 DEF FinalStep
<1>8. CASE jobs' = jobs
  BY <1>8 DEF FinalStep
<1> QED
  BY <1>1, <1>2, <1>3, <1>4, <1>5, <1>6, <1>7, <1>8
  DEF Next, WorkerNext, LoseWrite, Crash, Restart, ReadForRetry, NextDay, vars

\* Only a retry changes a finished job, and it starts its attempts again.
THEOREM Final == OneRetrier /\ Spec => FinishedIsFinal
<1>1. OneRetrier /\ Owned /\ [Next]_vars => Owned'
  BY TypeStep, UniqueStep, OwnedStep DEF Owned
<1>2. OneRetrier => OneRetrier' BY DEF OneRetrier
<1>3. Owned /\ [Next]_vars => [FinalStep]_vars BY FinalStepOfNext
<1>4. Init => Owned BY OwnedInit
<1> QED BY <1>1, <1>2, <1>3, <1>4, PTL DEF Spec, FinishedIsFinal, FinalStep
=============================================================================

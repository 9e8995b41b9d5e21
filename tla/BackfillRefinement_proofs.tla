---------------------- MODULE BackfillRefinement_proofs ----------------------
(***************************************************************************)
(* BackfillJobs implements JobQueue when retry calls do not overlap: each  *)
(* action is an action of the queue or changes nothing the queue shows.    *)
(***************************************************************************)
EXTENDS BackfillJobs_proofs

USE JobsAssumption, BoundsAssumption, StaleAssumption

\* What the queue sees of the table and of the workers.
QState   == [j \in Jobs |-> Phase(jobs[j].status)]
QRequest == [j \in Jobs |-> jobs[j].day]
QOwns    == [w \in Workers |-> worker[w].job]

\* A worker without a job has none in its record either.
RestHoldsNone == \A w \in Workers : ~Busy(w) => worker[w].job = 0

Linked == Owned /\ RestHoldsNone

LEMMA PhaseValues ==
  /\ Phase("ABSENT") = "none" /\ Phase("QUEUED") = "waiting" /\ Phase("RUNNING") = "taken"
  /\ Phase("COMPLETE") = "done" /\ Phase("ERROR") = "failed"
BY DEF Phase

\* The phase tells the statuses apart.
LEMMA PhaseTells ==
  ASSUME NEW s \in Status
  PROVE  /\ Phase(s) = "waiting" <=> s = "QUEUED"
         /\ Phase(s) = "taken" <=> s = "RUNNING"
         /\ Phase(s) \in {"waiting", "taken"} <=> s \in {"QUEUED", "RUNNING"}
BY PhaseValues DEF Status

LEMMA OpenIsActive ==
  ASSUME RowsOK, NEW j \in Jobs
  PROVE  QState[j] \in {"waiting", "taken"} <=> Active(jobs[j])
<1>1. jobs[j].status \in Status BY DEF RowsOK, Row
<1> QED BY <1>1, PhaseTells DEF QState, Active

\* A row that is replaced changes its own phase and request only.
LEMMA PutSeen ==
  ASSUME NEW j \in Jobs, \A k \in Jobs \ {j} : jobs'[k] = jobs[k]
  PROVE  /\ QState' = [QState EXCEPT ![j] = Phase(jobs'[j].status)]
         /\ QRequest' = [QRequest EXCEPT ![j] = jobs'[j].day]
BY DEF QState, QRequest

LEMMA OwnsSeen ==
  ASSUME NEW w \in Workers, \A v \in Workers \ {w} : worker'[v] = worker[v]
  PROVE  QOwns' = [QOwns EXCEPT ![w] = worker'[w].job]
BY DEF QOwns

\* The part of a step that the queue does not see.
LEMMA NothingSeen ==
  ASSUME \A j \in Jobs : jobs'[j].status = jobs[j].status /\ jobs'[j].day = jobs[j].day,
         \A w \in Workers : worker'[w].job = worker[w].job
  PROVE  QState' = QState /\ QRequest' = QRequest /\ QOwns' = QOwns
BY DEF QState, QRequest, QOwns

LEMMA QueueVars ==
  QState' = QState /\ QRequest' = QRequest /\ QOwns' = QOwns => UNCHANGED Queue!vars
BY DEF QState, QRequest, QOwns, Queue!vars

-----------------------------------------------------------------------------
LEMMA RestInit == Init => RestHoldsNone
BY DEF Init, Resting, RestHoldsNone

LEMMA RestStep == TypeOK /\ RestHoldsNone /\ [Next]_vars => RestHoldsNone'
<1> SUFFICES ASSUME TypeOK, RestHoldsNone, [Next]_vars, NEW v \in Workers, ~Busy(v)'
             PROVE  worker'[v].job = 0
  BY DEF RestHoldsNone
<1>1. worker[v] \in WorkerState /\ worker \in [Workers -> WorkerState]
  BY DEF TypeOK, WorkersOK
<1>2. CASE worker'[v] = worker[v] BY <1>2 DEF RestHoldsNone, Busy
<1>3. ASSUME NEW w \in Workers, NEW pc, worker' = [worker EXCEPT ![w] = Resting(pc)]
      PROVE  worker'[v].job = 0
  BY <1>1, <1>2, <1>3 DEF Resting
<1>4. ASSUME NEW w \in Workers, NEW j \in Jobs, Claim(w, j) PROVE worker'[v].job = 0
  BY <1>1, <1>2, <1>4 DEF Claim, Busy
<1>5. ASSUME NEW w \in Workers, StartRebuild(w) PROVE worker'[v].job = 0
  BY <1>1, <1>2, <1>5 DEF StartRebuild, Busy, WorkerState
<1>6. ASSUME Tick PROVE worker'[v].job = 0
  <2>1. \/ worker'[v] = worker[v]
        \/ worker'[v] = [worker[v] EXCEPT !.elapsed = worker[v].elapsed + 1,
                           !.spent = IF worker[v].pc = "rebuild" THEN worker[v].spent + 1
                                                                 ELSE worker[v].spent]
    BY <1>6 DEF Tick
  <2>2. worker'[v].pc = worker[v].pc /\ worker'[v].job = worker[v].job
    BY <1>1, <2>1 DEF WorkerState
  <2> QED BY <2>2 DEF RestHoldsNone, Busy
<1> QED
  BY <1>2, <1>3, <1>4, <1>5, <1>6
  DEF Next, WorkerNext, Complete, Fail, Settle, LoseWrite, Crash, Restart, Enqueue,
      NextRunReached, RequeueStale, ReadForRetry, WriteRetry, NextDay, vars

-----------------------------------------------------------------------------
(* The simulation, one lemma per kind of step. *)

\* A row that becomes queued for a day no other row is active for.
LEMMA AskSeen ==
  ASSUME RowsOK, NEW j \in Jobs, NEW day \in 1 .. MaxDay, ~Active(jobs[j]),
         \A k \in Jobs : ~(Active(jobs[k]) /\ jobs[k].day = day),
         jobs' = [jobs EXCEPT ![j] = QueuedRow(day, 0, TRUE)], worker' = worker
  PROVE  Queue!Next
<1>0. /\ \A k \in Jobs \ {j} : jobs'[k] = jobs[k]
      /\ jobs'[j].day = day /\ jobs'[j].status = "QUEUED"
  BY DEF RowsOK, QueuedRow
<1>1. /\ QState' = [QState EXCEPT ![j] = "waiting"]
      /\ QRequest' = [QRequest EXCEPT ![j] = day] /\ QOwns' = QOwns
  BY <1>0, PutSeen, PhaseValues DEF QOwns
<1>2. \A k \in Jobs : QState[k] \in {"waiting", "taken"} => Active(jobs[k])
  BY OpenIsActive
<1>3. Queue!Ask(j, day)
  BY <1>1, <1>2 DEF Queue!Ask, Queue!Open, QState, QRequest, QOwns
<1> QED BY <1>3 DEF Queue!Next

\* A worker that rests while its row is written with a status that is not
\* RUNNING has released its job.
LEMMA ReleaseSeen ==
  ASSUME Linked, NEW w \in Workers, NEW row, Settle(w, row), row.day = worker[w].day,
         row.status \in {"QUEUED", "COMPLETE", "ERROR"}
  PROVE  Queue!Next
<1> USE DEF Linked, Owned, TypeOK
<1> DEFINE j == worker[w].job
<1>1. Busy(w) /\ j \in Jobs /\ j # 0 BY DEF Settle, WorkersOK
<1>2. jobs' = [jobs EXCEPT ![j] = row] BY <1>1, OwnerStores DEF Settle
<1>3. jobs[j].status = "RUNNING" /\ jobs[j].day = row.day BY <1>1 DEF WorkerOwnsRow
<1>4. /\ QState' = [QState EXCEPT ![j] = Phase(row.status)]
      /\ QRequest' = [QRequest EXCEPT ![j] = row.day]
  <2>1. jobs'[j] = row /\ \A k \in Jobs \ {j} : jobs'[k] = jobs[k]
    BY <1>1, <1>2 DEF RowsOK
  <2> QED BY <1>1, <2>1, PutSeen
<1>5. QRequest' = QRequest BY <1>1, <1>3, <1>4 DEF QRequest
<1>6. QOwns' = [QOwns EXCEPT ![w] = 0]
  <2>1. worker'[w].job = 0 /\ \A v \in Workers \ {w} : worker'[v] = worker[v]
    BY DEF Settle, Resting, WorkersOK
  <2> QED BY <2>1, OwnsSeen
<1>7. QState[j] = "taken" /\ QOwns[w] = j
  BY <1>1, <1>3, PhaseValues DEF QState, QOwns
<1>8. Phase(row.status) \in {"waiting", "done", "failed"} BY PhaseValues
<1>9. Queue!Release(w, Phase(row.status))
  BY <1>1, <1>4, <1>5, <1>6, <1>7 DEF Queue!Release, QState, QRequest, QOwns
<1> QED BY <1>8, <1>9 DEF Queue!Next

LEMMA SimulationStep == OneRetrier /\ Linked /\ [Next]_vars => [Queue!Next]_(Queue!vars)
<1> SUFFICES ASSUME OneRetrier, Linked, [Next]_vars
             PROVE  Queue!Next \/ UNCHANGED Queue!vars
  OBVIOUS
<1> USE DEF Linked, Owned, TypeOK
<1>0. \A j \in Jobs : jobs[j] \in Row /\ jobs[j].status \in Status BY DEF RowsOK, Row
<1>1. ASSUME NEW j \in Jobs, Enqueue(j) PROVE Queue!Next
  <2>1. ~Active(jobs[j]) /\ \A k \in Jobs : ~(Active(jobs[k]) /\ jobs[k].day = today)
    BY <1>1 DEF Enqueue, IndexAllows, Active
  <2> QED BY <1>1, <2>1, AskSeen DEF Enqueue
<1>2. ASSUME NEW j \in Jobs, NextRunReached(j) PROVE UNCHANGED Queue!vars
  BY <1>0, <1>2, NothingSeen, QueueVars DEF NextRunReached, Row, RowsOK
<1>3. ASSUME NEW w \in Workers, NEW j \in Jobs, Claim(w, j) PROVE Queue!Next
  <2>1. jobs[j].status = "QUEUED" /\ worker[w].job = 0
    BY <1>3 DEF Claim, Runnable, RestHoldsNone, Busy
  <2>2. /\ QState' = [QState EXCEPT ![j] = "taken"]
        /\ QRequest' = [QRequest EXCEPT ![j] = jobs[j].day]
    <3>1. /\ \A k \in Jobs \ {j} : jobs'[k] = jobs[k]
          /\ jobs'[j].day = jobs[j].day /\ jobs'[j].status = "RUNNING"
      BY <1>3 DEF Claim, RunningRow, RowsOK
    <3> QED BY <3>1, PutSeen, PhaseValues
  <2>3. QRequest' = QRequest BY <2>2 DEF QRequest
  <2>4. QOwns' = [QOwns EXCEPT ![w] = j]
    <3>1. worker'[w].job = j /\ \A v \in Workers \ {w} : worker'[v] = worker[v]
      BY <1>3 DEF Claim, WorkersOK
    <3> QED BY <3>1, OwnsSeen
  <2>5. QState[j] = "waiting" /\ QOwns[w] = 0 BY <2>1, PhaseValues DEF QState, QOwns
  <2>6. Queue!Take(w, j)
    BY <2>2, <2>3, <2>4, <2>5 DEF Queue!Take, QState, QRequest, QOwns
  <2> QED BY <2>6 DEF Queue!Next
<1>4. ASSUME NEW w \in Workers, Complete(w) \/ Fail(w) PROVE Queue!Next
  BY <1>4, ReleaseSeen DEF Complete, Fail, FailedRow, FinishedRow, QueuedRow
<1>5. ASSUME NEW w \in Workers, StartRebuild(w) PROVE UNCHANGED Queue!vars
  <2> DEFINE row == RunningRow("CALCULATE_PERFORMANCE", worker[w].day, worker[w].attempts, w,
                               worker[w].elapsed)
  <2>1. Busy(w) /\ worker[w].job \in Jobs BY <1>5 DEF StartRebuild, Busy, WorkersOK
  <2>2. jobs' = [jobs EXCEPT ![worker[w].job] = row]
    BY <1>5, <2>1, OwnerStores DEF StartRebuild, RunningRow
  <2>3. \A j \in Jobs : jobs'[j].status = jobs[j].status /\ jobs'[j].day = jobs[j].day
    BY <2>1, <2>2 DEF RowsOK, WorkerOwnsRow, RunningRow
  <2>4. \A v \in Workers : worker'[v].job = worker[v].job
    BY <1>5 DEF StartRebuild, WorkersOK, WorkerState
  <2> QED BY <2>3, <2>4, NothingSeen, QueueVars
<1>6. ASSUME NEW w \in Workers, LoseWrite(w) \/ Crash(w) PROVE Queue!Next
  <2>1. Busy(w) /\ worker[w].job \in Jobs /\ worker[w].job # 0
    BY <1>6 DEF LoseWrite, Expired, Crash, WorkersOK
  <2>2. QOwns' = [QOwns EXCEPT ![w] = 0] /\ QState' = QState /\ QRequest' = QRequest
    <3>1. worker'[w].job = 0 /\ \A v \in Workers \ {w} : worker'[v] = worker[v]
      BY <1>6 DEF LoseWrite, Crash, Resting, WorkersOK
    <3>2. jobs' = jobs BY <1>6 DEF LoseWrite, Crash
    <3> QED BY <3>1, <3>2, OwnsSeen DEF QState, QRequest
  <2>3. Queue!Vanish(w) BY <2>1, <2>2 DEF Queue!Vanish, QState, QRequest, QOwns
  <2> QED BY <2>3 DEF Queue!Next
<1>7. ASSUME NEW w \in Workers, Restart(w) PROVE UNCHANGED Queue!vars
  <2>1. \A v \in Workers : worker'[v].job = worker[v].job
    BY <1>7 DEF Restart, Resting, RestHoldsNone, Busy, WorkersOK
  <2> QED BY <1>7, <2>1, NothingSeen, QueueVars DEF Restart
<1>8. ASSUME NEW w \in Workers, RequeueStale(w) PROVE Queue!Next
  <2> DEFINE stale == {j \in Jobs : jobs[j].status = "RUNNING" /\ jobs[j].age >= StaleThreshold}
  <2>1. ASSUME NEW j \in stale, NEW v \in Workers PROVE worker[v].job # j
    <3> SUFFICES ASSUME worker[v].job = j PROVE FALSE
      OBVIOUS
    <3>1. Busy(v) BY DEF RestHoldsNone
    <3>2. jobs[j].age = worker[v].elapsed BY <3>1 DEF WorkerOwnsRow
    <3>3. worker[v].elapsed < StaleThreshold
      BY <3>1 DEF WorkersOK, WorkerState, Deadlines, Busy
    <3>4. worker[v].elapsed \in Nat BY DEF WorkersOK, WorkerState
    <3> QED BY <3>2, <3>3, <3>4
  <2>2. \A j \in Jobs :
          jobs'[j] = IF j \in stale THEN QueuedRow(jobs[j].day, jobs[j].attempts, TRUE) ELSE jobs[j]
    BY <1>8 DEF RequeueStale
  <2> HIDE DEF stale
  <2>3. ASSUME NEW j \in Jobs
        PROVE  /\ j \in stale => jobs'[j].status = "QUEUED"
               /\ j \notin stale => jobs'[j].status = jobs[j].status
               /\ jobs'[j].day = jobs[j].day
    <3>1. CASE j \in stale
      <4>1. jobs'[j] = QueuedRow(jobs[j].day, jobs[j].attempts, TRUE) BY <2>2, <3>1
      <4> QED BY <3>1, <4>1 DEF QueuedRow
    <3>2. CASE j \notin stale
      <4>1. jobs'[j] = jobs[j] BY <2>2, <3>2
      <4> QED BY <3>2, <4>1
    <3> QED BY <3>1, <3>2
  <2>4. QState' = [j \in Jobs |-> IF j \in stale THEN "waiting" ELSE QState[j]]
    BY <2>3, PhaseValues DEF QState
  <2>5. QRequest' = QRequest BY <2>3 DEF QRequest
  <2>6. QOwns' = QOwns BY <1>8 DEF RequeueStale, QOwns
  <2>7. stale \subseteq Jobs /\ \A j \in stale : QState[j] = "taken"
    BY PhaseValues DEF stale, QState
  <2>8. Queue!Recover(stale)
    BY <2>1, <2>4, <2>5, <2>6, <2>7 DEF Queue!Recover, Queue!Orphan, QState, QRequest, QOwns
  <2> QED BY <2>7, <2>8 DEF Queue!Next
<1>9. ASSUME NEW r \in Retriers, WriteRetry(r) PROVE Queue!Next \/ UNCHANGED Queue!vars
  <2> DEFINE j == retrier[r].job
  <2>1. j \in Jobs /\ ~Active(jobs[j])
    BY <1>9 DEF WriteRetry, RetriersOK, RetryHoldsFinished, Active
  <2>2. CASE IndexAllows(j, today)
    <3>1. jobs' = [jobs EXCEPT ![j] = QueuedRow(today, 0, TRUE)]
      BY <1>9, <2>2 DEF WriteRetry, Store, QueuedRow
    <3>2. \A k \in Jobs : ~(Active(jobs[k]) /\ jobs[k].day = today)
      BY <2>1, <2>2 DEF IndexAllows
    <3> QED BY <1>9, <2>1, <3>1, <3>2, AskSeen DEF WriteRetry
  <2>3. CASE ~IndexAllows(j, today)
    <3>1. jobs' = jobs BY <1>9, <2>3 DEF WriteRetry, Store, QueuedRow, Active
    <3> QED BY <1>9, <3>1, NothingSeen, QueueVars DEF WriteRetry
  <2> QED BY <2>2, <2>3
<1>10. ASSUME Tick PROVE UNCHANGED Queue!vars
  <2>1. ASSUME NEW j \in Jobs
        PROVE  jobs'[j].status = jobs[j].status /\ jobs'[j].day = jobs[j].day
    <3>1. jobs'[j] \in {jobs[j], [jobs[j] EXCEPT !.age = @ + 1]} BY <1>10 DEF Tick
    <3> QED BY <1>0, <3>1 DEF Row
  <2>2. ASSUME NEW v \in Workers PROVE worker'[v].job = worker[v].job
    <3>1. worker[v] \in WorkerState BY DEF WorkersOK
    <3>2. \/ worker'[v] = worker[v]
          \/ worker'[v] = [worker[v] EXCEPT !.elapsed = worker[v].elapsed + 1,
                             !.spent = IF worker[v].pc = "rebuild" THEN worker[v].spent + 1
                                                                   ELSE worker[v].spent]
      BY <1>10 DEF Tick
    <3> QED BY <3>1, <3>2 DEF WorkerState
  <2> QED BY <2>1, <2>2, NothingSeen, QueueVars
<1>11. CASE jobs' = jobs /\ worker' = worker
  BY <1>11, NothingSeen, QueueVars
<1> QED
  BY <1>1, <1>2, <1>3, <1>4, <1>5, <1>6, <1>7, <1>8, <1>9, <1>10, <1>11
  DEF Next, WorkerNext, ReadForRetry, NextDay, vars

LEMMA SimulationInit == Init => Queue!Init
<1> SUFFICES ASSUME Init PROVE Queue!Init
  OBVIOUS
<1>1. QState = [j \in Jobs |-> "none"]
  BY PhaseValues DEF Init, QState, FinishedRow
<1>2. QRequest \in [Jobs -> 1 .. MaxDay] BY DEF Init, QRequest, FinishedRow
<1>3. QOwns = [w \in Workers |-> 0] BY DEF Init, QOwns, Resting
<1> QED BY <1>1, <1>2, <1>3 DEF Queue!Init, QState, QRequest, QOwns

\* With one retry call at a time, the table of jobs and its workers are a queue
\* that gives a job to one worker at a time and leaves it to that worker until
\* it has ended, failed or gone.
THEOREM Refinement == OneRetrier /\ Spec => ImplementsQueue
<1>1. Init => Linked BY OwnedInit, RestInit DEF Linked
<1>2. OneRetrier /\ Linked /\ [Next]_vars => Linked'
  BY TypeStep, UniqueStep, OwnedStep, RestStep DEF Linked, Owned
<1>3. OneRetrier => OneRetrier' BY DEF OneRetrier
<1> QED BY <1>1, <1>2, <1>3, SimulationInit, SimulationStep, PTL DEF Spec, ImplementsQueue, Queue!Spec
=============================================================================

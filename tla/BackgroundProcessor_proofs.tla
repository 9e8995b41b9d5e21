--------------------- MODULE BackgroundProcessor_proofs ---------------------
(***************************************************************************)
(* Theorems about BackgroundProcessor, for pools of every size, queues of  *)
(* every capacity and any number of portfolios and jobs.                   *)
(***************************************************************************)
EXTENDS BackgroundProcessor, FiniteSetTheorems, TLAPS

USE WorkersAssumption, SizesAssumption

\* Every pool is a finite set, so its channel has a capacity.
LEMMA CapsNat == \A k \in Kinds : JobChCap(k) \in Nat /\ QueueCap(k) \in Nat /\ QueueCap(k) > 0
<1>1. Cardinality(CalculationWorkers) \in Nat /\ Cardinality(RefreshWorkers) \in Nat
  BY FS_CardinalityType
<1> QED BY <1>1 DEF JobChCap, QueueCap, Pool, Kinds

\* A call that returns leaves the scheduler with the rest of its list.
LEMMA AfterCallType ==
  ASSUME TypeOK, scheduler.pc \in {"check", "send"}
  PROVE  /\ AfterCall \in [pc : {"select", "check", "send", "done"}, kind : Kinds,
                           todo : Seq(JobIds)]
         /\ AfterCall.pc \in {"check", "send"} <=> AfterCall.todo # <<>>
         /\ Len(AfterCall.todo) = Len(scheduler.todo) - 1
         /\ Head(scheduler.todo) \in JobIds
<1>1. scheduler.todo \in Seq(JobIds) /\ scheduler.todo # <<>> /\ scheduler.kind \in Kinds
  BY DEF TypeOK
<1>2. Len(scheduler.todo) \in Nat /\ Len(scheduler.todo) > 0
  BY <1>1
<1>3. /\ Tail(scheduler.todo) \in Seq(JobIds)
      /\ Len(Tail(scheduler.todo)) = Len(scheduler.todo) - 1
      /\ Head(scheduler.todo) \in JobIds
  BY <1>1
<1>4. CASE Len(scheduler.todo) = 1
  BY <1>3, <1>4 DEF AfterCall, Idle, Kinds
<1>5. CASE Len(scheduler.todo) # 1
  <2>1. Tail(scheduler.todo) # <<>>
    <3>1. Len(Tail(scheduler.todo)) # 0
      BY <1>2, <1>3, <1>5
    <3>2. \A s \in Seq(JobIds) : Len(s) # 0 => s # <<>>
      OBVIOUS
    <3> QED BY <1>3, <3>1, <3>2
  <2>2. AfterCall = [scheduler EXCEPT !.pc = "check", !.todo = Tail(@)]
    BY <1>5 DEF AfterCall
  <2>3. scheduler \in [pc : {"select", "check", "send", "done"}, kind : Kinds, todo : Seq(JobIds)]
    BY DEF TypeOK
  <2>4. /\ AfterCall.pc = "check" /\ AfterCall.todo = Tail(scheduler.todo)
        /\ AfterCall \in [pc : {"select", "check", "send", "done"}, kind : Kinds,
                          todo : Seq(JobIds)]
    BY <1>3, <2>2, <2>3
  <2> QED BY <1>3, <2>1, <2>4
<1> QED BY <1>4, <1>5

-----------------------------------------------------------------------------
(* Type correctness, one lemma per goroutine. *)

LEMMA TypeInit == Init => TypeOK
BY CapsNat DEF Init, TypeOK, Held, Idle, Resting, Kinds

LEMMA TypeTick ==
  ASSUME TypeOK, NEW k \in Kinds, Tick(k)
  PROVE  TypeOK'
<1>1. PICK n \in Batch(k) :
        /\ created' = [created EXCEPT ![k] = @ + n]
        /\ scheduler' = [pc |-> "check", kind |-> k, todo |-> [i \in 1 .. n |-> created[k] + i]]
  BY DEF Tick
<1>2. n \in Nat \ {0}
  BY DEF Batch
<1>3. created[k] \in Nat
  BY DEF TypeOK
<1> DEFINE batch == [i \in 1 .. n |-> created[k] + i]
<1>4. batch \in Seq(JobIds) /\ Len(batch) = n
  BY <1>2, <1>3 DEF JobIds
<1>5. batch # <<>>
  BY <1>2, <1>4
<1>6. scheduler' = [pc |-> "check", kind |-> k, todo |-> batch]
  BY <1>1
<1> HIDE DEF batch
<1>7. /\ scheduler' \in [pc : {"select", "check", "send", "done"}, kind : Kinds, todo : Seq(JobIds)]
      /\ scheduler'.pc \in {"check", "send"} <=> scheduler'.todo # <<>>
  BY <1>4, <1>5, <1>6
<1>8. created' \in [Kinds -> Nat]
  <2>1. created \in [Kinds -> Nat] /\ created[k] + n \in Nat
    BY <1>2, <1>3 DEF TypeOK
  <2>2. created' = [created EXCEPT ![k] = created[k] + n]
    BY <1>1
  <2> QED BY <2>1, <2>2
<1> QED BY <1>7, <1>8 DEF Tick, TypeOK

LEMMA TypeSchedule ==
  ASSUME TypeOK, Schedule
  PROVE  TypeOK'
<1>1. CASE CheckRunning
  <2>1. CASE running
    BY <1>1, <2>1 DEF CheckRunning, TypeOK
  <2>2. CASE ~running
    <3>1. scheduler' = AfterCall /\ refused' = refused + 1 /\ scheduler.pc = "check"
      BY <1>1, <2>2 DEF CheckRunning
    <3>2. refused' \in Nat
      BY <3>1 DEF TypeOK
    <3>3. /\ scheduler' \in [pc : {"select", "check", "send", "done"}, kind : Kinds,
                             todo : Seq(JobIds)]
          /\ scheduler'.pc \in {"check", "send"} <=> scheduler'.todo # <<>>
      BY <3>1, AfterCallType
    <3> QED BY <1>1, <3>2, <3>3 DEF CheckRunning, TypeOK
  <2> QED BY <2>1, <2>2
<1>2. CASE Send
  <2> DEFINE k == scheduler.kind
             j == Head(scheduler.todo)
  <2>1. k \in Kinds /\ j \in JobIds /\ scheduler' = AfterCall
    BY <1>2, AfterCallType DEF Send, TypeOK
  <2>2. /\ scheduler' \in [pc : {"select", "check", "send", "done"}, kind : Kinds,
                           todo : Seq(JobIds)]
        /\ scheduler'.pc \in {"check", "send"} <=> scheduler'.todo # <<>>
    BY <1>2, <2>1, AfterCallType DEF Send
  <2>3. CASE Len(queue[k]) < QueueCap(k)
    <3>1. queue' = [queue EXCEPT ![k] = Append(@, j)] /\ UNCHANGED refused
      BY <1>2, <2>3 DEF Send
    <3>2. queue \in [Kinds -> Seq(JobIds)] /\ queue[k] \in Seq(JobIds)
      BY <2>1 DEF TypeOK
    <3>3. Append(queue[k], j) \in Seq(JobIds) /\ Len(Append(queue[k], j)) = Len(queue[k]) + 1
      BY <2>1, <3>2
    <3>4. queue' \in [Kinds -> Seq(JobIds)]
      BY <3>1, <3>2, <3>3
    <3>5. \A x \in Kinds : Len(queue'[x]) <= QueueCap(x)
      BY <2>1, <2>3, <3>1, <3>2, <3>3, CapsNat DEF TypeOK
    <3> QED BY <1>2, <2>2, <3>1, <3>4, <3>5 DEF Send, TypeOK
  <2>4. CASE ~(Len(queue[k]) < QueueCap(k))
    <3>1. refused' = refused + 1 /\ UNCHANGED queue
      BY <1>2, <2>4 DEF Send
    <3>2. refused' \in Nat
      BY <3>1 DEF TypeOK
    <3> QED BY <1>2, <2>2, <3>1, <3>2 DEF Send, TypeOK
  <2> QED BY <2>3, <2>4
<1>3. CASE SchedulerExits
  BY <1>3 DEF SchedulerExits, TypeOK
<1> QED BY <1>1, <1>2, <1>3 DEF Schedule

LEMMA TypeDispatch ==
  ASSUME TypeOK, NEW k \in Kinds, Dispatch(k) \/ Expire
  PROVE  TypeOK'
<1> USE DEF Held, Resting, Done
<1>1. CASE Receive(k)
  <2>1. queue[k] \in Seq(JobIds) /\ queue[k] # <<>>
    BY <1>1 DEF Receive, TypeOK
  <2>2. /\ Head(queue[k]) \in JobIds /\ Tail(queue[k]) \in Seq(JobIds)
        /\ Len(Tail(queue[k])) = Len(queue[k]) - 1 /\ Len(queue[k]) \in Nat
    BY <2>1
  <2>3. /\ dispatcher' \in [Kinds -> Held({"submit"})]
        /\ queue' \in [Kinds -> Seq(JobIds)]
    BY <1>1, <2>2 DEF Receive, TypeOK
  <2>4. \A x \in Kinds : Len(queue'[x]) <= QueueCap(x)
    BY <1>1, <2>2, CapsNat DEF Receive, TypeOK
  <2> QED BY <1>1, <2>3, <2>4 DEF Receive, TypeOK
<1>2. CASE Submit(k)
  <2>1. dispatcher[k].job \in JobIds /\ jobCh[k] \in Seq(JobIds)
    <3>1. dispatcher[k] \in Held({"submit"}) /\ dispatcher[k].pc = "submit"
      BY <1>2 DEF Submit, TypeOK
    <3>2. dispatcher[k].job \in JobIds
      BY <3>1
    <3> QED BY <3>2 DEF TypeOK
  <2>2. dispatcher' \in [Kinds -> Held({"submit"})]
    BY <1>2 DEF Submit, TypeOK
  <2>3. CASE Len(jobCh[k]) < JobChCap(k)
    <3>1. jobCh' = [jobCh EXCEPT ![k] = Append(@, dispatcher[k].job)] /\ UNCHANGED dropped
      BY <1>2, <2>3 DEF Submit
    <3>2. /\ Append(jobCh[k], dispatcher[k].job) \in Seq(JobIds)
          /\ Len(Append(jobCh[k], dispatcher[k].job)) = Len(jobCh[k]) + 1
      BY <2>1
    <3>3. jobCh' \in [Kinds -> Seq(JobIds)]
      BY <3>1, <3>2 DEF TypeOK
    <3>4. \A x \in Kinds : Len(jobCh'[x]) <= JobChCap(x)
      BY <2>1, <2>3, <3>1, <3>2, CapsNat DEF TypeOK
    <3> QED BY <1>2, <2>2, <3>1, <3>3, <3>4 DEF Submit, TypeOK
  <2>4. CASE ~(Len(jobCh[k]) < JobChCap(k))
    <3>1. dropped' = [dropped EXCEPT ![k] = @ + 1] /\ UNCHANGED jobCh
      BY <1>2, <2>4 DEF Submit
    <3>2. dropped' \in [Kinds -> Nat]
      BY <3>1 DEF TypeOK
    <3> QED BY <1>2, <2>2, <3>1, <3>2 DEF Submit, TypeOK
  <2> QED BY <2>3, <2>4
<1>3. CASE DispatcherExits(k)
  BY <1>3 DEF DispatcherExits, TypeOK
<1>4. CASE Expire
  BY <1>4 DEF Expire, TypeOK, Kinds
<1> QED BY <1>1, <1>2, <1>3, <1>4 DEF Dispatch

LEMMA KindOfType == \A w \in Workers : KindOf(w) \in Kinds
BY DEF KindOf, Kinds

LEMMA TypeWork ==
  ASSUME TypeOK, NEW w \in Workers, Work(w)
  PROVE  TypeOK'
<1> USE DEF Held, Resting, Done
<1>1. CASE Take(w)
  <2> DEFINE k == KindOf(w)
  <2>1. k \in Kinds
    BY KindOfType
  <2>2. jobCh[k] \in Seq(JobIds) /\ jobCh[k] # <<>>
    BY <1>1, <2>1 DEF Take, TypeOK
  <2>3. /\ Head(jobCh[k]) \in JobIds /\ Tail(jobCh[k]) \in Seq(JobIds)
        /\ Len(Tail(jobCh[k])) = Len(jobCh[k]) - 1 /\ Len(jobCh[k]) \in Nat
    BY <2>2
  <2>4. /\ worker' \in [Workers -> Held({"process", "record"})]
        /\ jobCh' \in [Kinds -> Seq(JobIds)]
    BY <1>1, <2>1, <2>3 DEF Take, TypeOK
  <2>5. \A x \in Kinds : Len(jobCh'[x]) <= JobChCap(x)
    BY <1>1, <2>1, <2>3, CapsNat DEF Take, TypeOK
  <2> QED BY <1>1, <2>4, <2>5 DEF Take, TypeOK
<1>2. CASE FinishJob(w)
  <2>1. worker[w].job \in JobIds /\ worker[w] \in [pc : {"process", "record"}, job : JobIds]
    BY <1>2 DEF FinishJob, TypeOK
  <2>2. worker' \in [Workers -> Held({"process", "record"})]
    BY <1>2, <2>1 DEF FinishJob, TypeOK
  <2> QED BY <1>2, <2>2 DEF FinishJob, TypeOK
<1>3. CASE UpdateMetrics(w)
  BY <1>3 DEF UpdateMetrics, TypeOK
<1>4. CASE WorkerExits(w)
  BY <1>4 DEF WorkerExits, TypeOK
<1> QED BY <1>1, <1>2, <1>3, <1>4 DEF Work

LEMMA TypeOther ==
  ASSUME TypeOK, Collect \/ MinutePasses \/ BeginStop \/ ContinueStop \/ UNCHANGED vars
  PROVE  TypeOK'
<1>1. CASE Collect
  BY <1>1 DEF Collect, LogMetrics, CollectorExits, TypeOK
<1>2. CASE MinutePasses
  BY <1>2 DEF MinutePasses, TypeOK
<1>3. CASE BeginStop
  BY <1>3 DEF BeginStop, TypeOK, Kinds
<1>4. CASE ContinueStop
  BY <1>4 DEF ContinueStop, StopRefreshPool, AwaitGoroutines, ReturnFromStop, TypeOK, Kinds
<1>5. CASE UNCHANGED vars
  BY <1>5 DEF vars, TypeOK
<1> QED BY <1>1, <1>2, <1>3, <1>4, <1>5

LEMMA TypeStep == TypeOK /\ [Next]_vars => TypeOK'
<1> SUFFICES ASSUME TypeOK, [Next]_vars PROVE TypeOK'
  OBVIOUS
<1>1. "calculation" \in Kinds
  BY DEF Kinds
<1> QED BY <1>1, TypeTick, TypeSchedule, TypeDispatch, TypeWork, TypeOther DEF Next

(* The processor is well typed and no queue or channel exceeds its capacity, *)
(* whatever the sizes (Send and Submit check the room before they add).      *)
THEOREM TypeCorrect == Spec => []TypeOK
<1>1. Init => TypeOK
  BY TypeInit
<1>2. TypeOK /\ [Next]_vars => TypeOK'
  BY TypeStep
<1> QED BY <1>1, <1>2, PTL DEF Spec

-----------------------------------------------------------------------------
(* What Stop has waited for stays ended: no action starts a goroutine. *)

LEMMA ProgressStep ==
  ASSUME TypeOK, StopProgress, [Next]_vars
  PROVE  StopProgress'
<1> USE DEF StopProgress, PoolDone, GoroutinesDone
<1>0. worker \in [Workers -> Held({"process", "record"})] /\ dispatcher \in [Kinds -> Held({"submit"})]
  BY DEF TypeOK
<1>1. CASE \E k \in Kinds : Tick(k)
  BY <1>1 DEF Tick
<1>2. CASE Schedule
  BY <1>2 DEF Schedule, CheckRunning, Send, SchedulerExits
<1>3. CASE (\E k \in Kinds : Dispatch(k)) \/ Expire
  BY <1>0, <1>3 DEF Dispatch, Receive, Submit, DispatcherExits, Expire, Done, Resting
<1>4. CASE \E w \in Workers : Work(w)
  <2>1. PICK w \in Workers : Work(w)
    BY <1>4
  <2>2. worker[w].pc # "done"
    BY <2>1 DEF Work, Take, FinishJob, UpdateMetrics, WorkerExits
  <2>3. UNCHANGED <<stop, dispatcher, scheduler, collector>>
    BY <2>1 DEF Work, Take, FinishJob, UpdateMetrics, WorkerExits
  <2>4. \A v \in Workers \ {w} : worker'[v] = worker[v]
    BY <1>0, <2>1 DEF Work, Take, FinishJob, UpdateMetrics, WorkerExits
  <2> QED BY <2>2, <2>3, <2>4 DEF Pool, Workers
<1>5. CASE Collect \/ MinutePasses
  BY <1>5 DEF Collect, LogMetrics, CollectorExits, MinutePasses
<1>6. CASE BeginStop \/ ContinueStop
  BY <1>6 DEF BeginStop, ContinueStop, StopRefreshPool, AwaitGoroutines, ReturnFromStop
<1>7. CASE UNCHANGED vars
  BY <1>7 DEF vars
<1> QED BY <1>1, <1>2, <1>3, <1>4, <1>5, <1>6, <1>7 DEF Next

\* Once Stop has returned, every goroutine is done and no action is enabled.
LEMMA NothingAfterStop ==
  ASSUME StopProgress, stop = "returned", Next
  PROVE  FALSE
<1>1. \A w \in Workers : worker[w].pc = "done"
  BY DEF StopProgress, PoolDone, Pool, Workers
<1>2. /\ \A k \in Kinds : dispatcher[k].pc = "done"
      /\ scheduler.pc = "done" /\ collector = "done"
  BY DEF StopProgress, GoroutinesDone
<1>3. ~(\E k \in Kinds : Tick(k) \/ Dispatch(k)) /\ ~Expire
  BY <1>2 DEF Tick, Dispatch, Receive, Submit, DispatcherExits, Expire, Kinds
<1>4. ~Schedule /\ ~Collect /\ ~MinutePasses
  BY <1>2 DEF Schedule, CheckRunning, Send, SchedulerExits, Collect, LogMetrics,
              CollectorExits, MinutePasses
<1>5. ~(\E w \in Workers : Work(w))
  BY <1>1 DEF Work, Take, FinishJob, UpdateMetrics, WorkerExits
<1>6. ~BeginStop /\ ~ContinueStop
  BY DEF BeginStop, ContinueStop, StopRefreshPool, AwaitGoroutines, ReturnFromStop
<1> QED BY <1>3, <1>4, <1>5, <1>6 DEF Next

(* When Stop has returned nothing of the processor moves any more: it has waited *)
(* for every worker and every goroutine, whatever jobs are left in the queues.   *)
THEOREM Quiet == Spec => QuietAfterStop
<1>1. Init => StopProgress
  BY DEF Init, StopProgress
<1>2. TypeOK /\ StopProgress /\ [Next]_vars => StopProgress'
  BY ProgressStep
<1>3. StopProgress /\ [Next]_vars => [stop # "returned"]_vars
  BY NothingAfterStop
<1> QED BY <1>1, <1>2, <1>3, TypeCorrect, PTL DEF Spec, QuietAfterStop

-----------------------------------------------------------------------------
(* A Stop that hangs, hangs for ever. *)

\* Stop keeps the mutex until goroutines have ended that are waiting for it.
Hung == StopHoldsMutex /\ GoroutineAwaitsMutex

\* Nobody who waits for the mutex can move while Stop holds it, and Stop cannot
\* get past a wait for him.
LEMMA HungStays ==
  ASSUME TypeOK, StopProgress, Hung, [Next]_vars
  PROVE  Hung'
<1>1. StopHoldsMutex' \/ stop' = "returned"
  BY DEF Hung, StopHoldsMutex, Next, vars, Tick, Dispatch, Receive, Submit, DispatcherExits, Expire,
         Schedule, CheckRunning, Send, SchedulerExits, Collect, LogMetrics, CollectorExits,
         MinutePasses, Work, Take, FinishJob, UpdateMetrics, WorkerExits,
         BeginStop, ContinueStop, StopRefreshPool, AwaitGoroutines, ReturnFromStop
<1>2. CASE collector = "read"
  <2>1. collector' = "read" /\ stop' # "returned"
    BY <1>2 DEF Hung, StopHoldsMutex, Next, vars, Tick, Dispatch, Receive, Submit, DispatcherExits,
         Expire, Schedule, CheckRunning, Send, SchedulerExits, Collect, LogMetrics, CollectorExits,
         MinutePasses, Work, Take, FinishJob, UpdateMetrics, WorkerExits,
         BeginStop, ContinueStop, StopRefreshPool, AwaitGoroutines, ReturnFromStop, GoroutinesDone
  <2>2. QED
    BY <1>1, <2>1 DEF Hung, GoroutineAwaitsMutex
<1>3. ASSUME NEW w \in Workers, worker[w].pc = "record"
      PROVE  Hung'
  <2>1. worker \in [Workers -> Held({"process", "record"})]
    BY DEF TypeOK
  <2>2. \A v \in Workers : Work(v) => v # w
    BY <1>3 DEF Work, Take, FinishJob, UpdateMetrics, WorkerExits, Hung
  <2>3. worker'[w] = worker[w]
    <3>1. CASE UNCHANGED worker
      BY <3>1
    <3>2. ASSUME NEW v \in Workers, Work(v)
          PROVE  worker'[w] = worker[w]
      BY <2>1, <2>2, <3>2 DEF Work, Take, FinishJob, UpdateMetrics, WorkerExits
    <3>3. UNCHANGED worker \/ \E v \in Workers : Work(v)
      BY DEF Next, vars, Tick, Dispatch, Receive, Submit, DispatcherExits, Expire,
             Schedule, CheckRunning, Send, SchedulerExits, Collect, LogMetrics, CollectorExits,
             MinutePasses, BeginStop, ContinueStop, StopRefreshPool, AwaitGoroutines, ReturnFromStop
    <3>4. QED
      BY <3>1, <3>2, <3>3
  <2>4. StopProgress'
    BY ProgressStep
  <2>5. stop' # "returned"
    BY <1>3, <2>3, <2>4 DEF StopProgress, PoolDone, Pool, Workers
  <2>6. QED
    BY <1>1, <1>3, <2>3, <2>5 DEF Hung, GoroutineAwaitsMutex
<1>4. QED
  BY <1>2, <1>3 DEF Hung, GoroutineAwaitsMutex

\* Once a worker or the collector has come to the mutex that Stop holds, Stop
\* never returns: no step of anybody resolves it (background_processor.go:179),
\* for pools and queues of any size.
THEOREM HungForGood == Spec => [](Hung => [](stop # "returned"))
<1>1. Init => StopProgress
  BY DEF Init, StopProgress
<1>2. TypeOK /\ StopProgress /\ [Next]_vars => StopProgress'
  BY ProgressStep
<1>3. TypeOK /\ StopProgress /\ Hung /\ [Next]_vars => Hung'
  BY HungStays
<1>4. Hung => stop # "returned"
  BY DEF Hung, StopHoldsMutex
<1>5. QED
  BY <1>1, <1>2, <1>3, <1>4, TypeCorrect, PTL DEF Spec

-----------------------------------------------------------------------------
(* The account of jobs.  Each action moves a job from one place to the next; the *)
(* lemmas say what it does to the number of jobs in each of them.                *)

\* A worker holds a job exactly while it processes or records one.
LEMMA WorkerHolds ==
  ASSUME TypeOK, NEW w \in Workers
  PROVE  w \in Busy <=> worker[w].pc \in {"process", "record"}
<1>1. worker[w] \in Held({"process", "record"})
  BY DEF TypeOK
<1>2. CASE worker[w] \in {Resting, Done}
  BY <1>2 DEF Resting, Done, Busy
<1>3. CASE worker[w] \in [pc : {"process", "record"}, job : JobIds]
  BY <1>3 DEF Busy, JobIds
<1> QED BY <1>1, <1>2, <1>3 DEF Held

\* The busy workers are finitely many: one who takes a job adds one, one who
\* records a job takes one away.
LEMMA BusyCount ==
  ASSUME TypeOK
  PROVE  /\ Cardinality(Busy) \in Nat
         /\ \A w \in Workers : worker[w].pc = "select" =>
              Cardinality(Busy \cup {w}) = Cardinality(Busy) + 1
         /\ \A w \in Workers : worker[w].pc = "record" =>
              Cardinality(Busy \ {w}) = Cardinality(Busy) - 1
<1>1. IsFiniteSet(Workers)
  BY FS_Union DEF Workers
<1>2. IsFiniteSet(Busy)
  BY <1>1, FS_Subset DEF Busy
<1> QED BY <1>2, WorkerHolds, FS_AddElement, FS_RemoveElement, FS_CardinalityType

\* The account in numbers: c created, t listed by the scheduler, q queued, h in a
\* dispatcher's hands, j in a pool's channel, b busy, p processed, d dropped, r refused,
\* e expired.
Account(c, t, q, h, j, b, p, d, r, e) == c = t + q + h + j + b + p + d + r + e

\* Each way in which an action moves jobs keeps the account.
LEMMA Moves ==
  ASSUME NEW c \in Int, NEW t \in Int, NEW q \in Int, NEW h \in Int, NEW j \in Int,
         NEW b \in Int, NEW p \in Int, NEW d \in Int, NEW r \in Int, NEW e \in Int,
         Account(c, t, q, h, j, b, p, d, r, e)
  PROVE  /\ \A n \in Int : Account(c + n, t + n, q, h, j, b, p, d, r, e)
         /\ Account(c, t - 1, q + 1, h, j, b, p, d, r, e)
         /\ Account(c, t - 1, q, h, j, b, p, d, r + 1, e)
         /\ Account(c, t, q - 1, h + 1, j, b, p, d, r, e)
         /\ Account(c, t, q, h - 1, j + 1, b, p, d, r, e)
         /\ Account(c, t, q, h - 1, j, b, p, d + 1, r, e)
         /\ Account(c, t, q, h - 1, j, b, p, d, r, e + 1)
         /\ Account(c, t, q, h, j - 1, b + 1, p, d, r, e)
         /\ Account(c, t, q, h, j, b - 1, p + 1, d, r, e)
BY DEF Account

\* A total changes by what one kind of it changes.
LEMMA TotalChange ==
  ASSUME NEW f \in [Kinds -> Int], NEW k \in Kinds, NEW n \in Int
  PROVE  /\ Total([f EXCEPT ![k] = @ + n]) = Total(f) + n
         /\ Total([f EXCEPT ![k] = @ - n]) = Total(f) - n
         /\ Total(f) \in Int
<1>1. f["calculation"] \in Int /\ f["refresh"] \in Int
  BY DEF Kinds
<1>2. CASE k = "calculation"
  BY <1>1, <1>2 DEF Total, Kinds
<1>3. CASE k = "refresh"
  BY <1>1, <1>3 DEF Total, Kinds
<1> QED BY <1>2, <1>3 DEF Kinds

\* Sending to a channel and receiving from it, seen through the lengths.
LEMMA LengthsChange ==
  ASSUME NEW s \in [Kinds -> Seq(JobIds)], NEW k \in Kinds
  PROVE  /\ Lengths(s) \in [Kinds -> Int]
         /\ \A x \in JobIds : Lengths([s EXCEPT ![k] = Append(@, x)]) = [Lengths(s) EXCEPT ![k] = @ + 1]
         /\ s[k] # <<>> => Lengths([s EXCEPT ![k] = Tail(@)]) = [Lengths(s) EXCEPT ![k] = @ - 1]
<1>1. \A x \in Kinds : s[x] \in Seq(JobIds) /\ Len(s[x]) \in Int
  OBVIOUS
<1>2. Lengths(s) \in [Kinds -> Int]
  BY <1>1 DEF Lengths
<1>3. ASSUME NEW x \in JobIds
      PROVE  Lengths([s EXCEPT ![k] = Append(@, x)]) = [Lengths(s) EXCEPT ![k] = @ + 1]
  <2>1. Len(Append(s[k], x)) = Len(s[k]) + 1
    BY <1>1
  <2> QED BY <2>1 DEF Lengths
<1>4. ASSUME s[k] # <<>>
      PROVE  Lengths([s EXCEPT ![k] = Tail(@)]) = [Lengths(s) EXCEPT ![k] = @ - 1]
  <2>1. Len(Tail(s[k])) = Len(s[k]) - 1
    BY <1>1, <1>4
  <2> QED BY <2>1 DEF Lengths
<1> QED BY <1>2, <1>3, <1>4

\* Counting one entry of a function up or down.
LEMMA Counting ==
  ASSUME NEW f \in [Kinds -> Int], NEW k \in Kinds, NEW n \in Int
  PROVE  /\ f[k] + 1 = n => [f EXCEPT ![k] = @ + 1] = [y \in Kinds |-> IF y = k THEN n ELSE f[y]]
         /\ f[k] - 1 = n => [f EXCEPT ![k] = @ - 1] = [y \in Kinds |-> IF y = k THEN n ELSE f[y]]
OBVIOUS

\* A dispatcher that takes a job or puts it down.
LEMMA HandingChange ==
  ASSUME TypeOK, NEW k \in Kinds
  PROVE  /\ Handing \in [Kinds -> Int]
         /\ \A x : dispatcher[k].pc = "select" /\ x.pc = "submit"
                    /\ dispatcher' = [dispatcher EXCEPT ![k] = x]
                 => Handing' = [Handing EXCEPT ![k] = @ + 1]
         /\ \A x : dispatcher[k].pc = "submit" /\ x.pc = "select"
                    /\ dispatcher' = [dispatcher EXCEPT ![k] = x]
                 => Handing' = [Handing EXCEPT ![k] = @ - 1]
<1>1. dispatcher \in [Kinds -> Held({"submit"})]
  BY DEF TypeOK
<1>2. Handing \in [Kinds -> Int]
  BY DEF Handing
<1>3. ASSUME NEW x, dispatcher[k].pc = "select", x.pc = "submit",
             dispatcher' = [dispatcher EXCEPT ![k] = x]
      PROVE  Handing' = [Handing EXCEPT ![k] = @ + 1]
  <2>1. \A y \in Kinds \ {k} : dispatcher'[y] = dispatcher[y]
    BY <1>1, <1>3
  <2>2. Handing[k] = 0 /\ dispatcher'[k].pc = "submit"
    BY <1>1, <1>3 DEF Handing
  <2>3. \A y \in Kinds : (IF dispatcher'[y].pc = "submit" THEN 1 ELSE 0)
                          = (IF y = k THEN 1 ELSE Handing[y])
    BY <2>1, <2>2 DEF Handing
  <2>4. Handing' = [y \in Kinds |-> IF y = k THEN 1 ELSE Handing[y]]
    BY <2>3 DEF Handing
  <2>5. Handing[k] + 1 = 1
    BY <2>2
  <2> QED BY <1>2, <2>4, <2>5, Counting, Zenon
<1>4. ASSUME NEW x, dispatcher[k].pc = "submit", x.pc = "select",
             dispatcher' = [dispatcher EXCEPT ![k] = x]
      PROVE  Handing' = [Handing EXCEPT ![k] = @ - 1]
  <2>1. \A y \in Kinds \ {k} : dispatcher'[y] = dispatcher[y]
    BY <1>1, <1>4
  <2>2. Handing[k] = 1 /\ dispatcher'[k].pc # "submit"
    BY <1>1, <1>4 DEF Handing
  <2>3. \A y \in Kinds : (IF dispatcher'[y].pc = "submit" THEN 1 ELSE 0)
                          = (IF y = k THEN 0 ELSE Handing[y])
    BY <2>1, <2>2 DEF Handing
  <2>4. Handing' = [y \in Kinds |-> IF y = k THEN 0 ELSE Handing[y]]
    BY <2>3 DEF Handing
  <2>5. Handing[k] - 1 = 0
    BY <2>2
  <2> QED BY <1>2, <2>4, <2>5, Counting, Zenon
<1> QED BY <1>2, <1>3, <1>4

\* The account of the present state, and the types of its entries.
LEMMA Entries ==
  ASSUME TypeOK, EveryJobAccounted
  PROVE  /\ Total(created) \in Int /\ Len(scheduler.todo) \in Int
         /\ Total(Lengths(queue)) \in Int /\ Total(Handing) \in Int
         /\ Total(Lengths(jobCh)) \in Int /\ Cardinality(Busy) \in Int
         /\ processed \in Int /\ Total(dropped) \in Int /\ refused \in Int /\ expired \in Int
         /\ Account(Total(created), Len(scheduler.todo), Total(Lengths(queue)), Total(Handing),
                    Total(Lengths(jobCh)), Cardinality(Busy), processed, Total(dropped),
                    refused, expired)
<1>1. "calculation" \in Kinds
  BY DEF Kinds
<1>2. created \in [Kinds -> Int] /\ dropped \in [Kinds -> Int]
  BY DEF TypeOK
<1>3. queue \in [Kinds -> Seq(JobIds)] /\ jobCh \in [Kinds -> Seq(JobIds)]
  BY DEF TypeOK
<1>4. Lengths(queue) \in [Kinds -> Int] /\ Lengths(jobCh) \in [Kinds -> Int]
  BY <1>1, <1>3, LengthsChange
<1>5. Handing \in [Kinds -> Int]
  BY DEF Handing
<1>6. \A f \in [Kinds -> Int] : Total(f) \in Int
  BY <1>1, TotalChange
<1>7. scheduler.todo \in Seq(JobIds)
  BY DEF TypeOK
<1>8. Len(scheduler.todo) \in Int
  BY <1>7
<1>9. Cardinality(Busy) \in Int
  BY BusyCount
<1>10. processed \in Int /\ refused \in Int /\ expired \in Int
  BY DEF TypeOK
<1>11. Account(Total(created), Len(scheduler.todo), Total(Lengths(queue)), Total(Handing),
               Total(Lengths(jobCh)), Cardinality(Busy), processed, Total(dropped),
               refused, expired)
  BY Zenon DEF EveryJobAccounted, Account
<1> QED BY <1>2, <1>4, <1>5, <1>6, <1>8, <1>9, <1>10, <1>11, Zenon

LEMMA AccountedTick ==
  ASSUME TypeOK, EveryJobAccounted, NEW k \in Kinds, Tick(k)
  PROVE  EveryJobAccounted'
<1>1. PICK n \in Batch(k) :
        /\ created' = [created EXCEPT ![k] = @ + n]
        /\ scheduler' = [pc |-> "check", kind |-> k, todo |-> [i \in 1 .. n |-> created[k] + i]]
  BY DEF Tick
<1>2. n \in Int /\ n \in Nat
  BY DEF Batch
<1>3. Total(created') = Total(created) + n
  <2>1. created \in [Kinds -> Int]
    BY DEF TypeOK
  <2>2. Total([created EXCEPT ![k] = @ + n]) = Total(created) + n
    BY <1>2, <2>1, TotalChange
  <2> QED BY <1>1, <2>2
<1>4. Len(scheduler.todo) = 0
  BY DEF Tick, TypeOK
<1>5. Len(scheduler'.todo) = n
  BY <1>1, <1>2
<1>6. Len(scheduler'.todo) = Len(scheduler.todo) + n
  BY <1>2, <1>4, <1>5
<1>7. UNCHANGED <<queue, Handing, jobCh, Busy, processed, dropped, refused, expired>>
  BY DEF Tick, Handing, Busy
<1>8. Account(Total(created) + n, Len(scheduler.todo) + n, Total(Lengths(queue)), Total(Handing),
              Total(Lengths(jobCh)), Cardinality(Busy), processed, Total(dropped),
              refused, expired)
  BY <1>2, Entries, Moves
<1> QED BY <1>3, <1>6, <1>7, <1>8, Zenon DEF EveryJobAccounted, Account

\* The case of one.
LEMMA TotalByOne ==
  ASSUME NEW f \in [Kinds -> Int], NEW k \in Kinds
  PROVE  /\ Total([f EXCEPT ![k] = @ + 1]) = Total(f) + 1
         /\ Total([f EXCEPT ![k] = @ - 1]) = Total(f) - 1
<1>1. 1 \in Int
  OBVIOUS
<1> QED BY <1>1, TotalChange, Zenon

\* The jobs in the queues or channels s, when one is sent to kind k or received from it.
LEMMA TotalLengths ==
  ASSUME NEW s \in [Kinds -> Seq(JobIds)], NEW k \in Kinds
  PROVE  /\ \A x \in JobIds : Total(Lengths([s EXCEPT ![k] = Append(@, x)])) = Total(Lengths(s)) + 1
         /\ s[k] # <<>> => Total(Lengths([s EXCEPT ![k] = Tail(@)])) = Total(Lengths(s)) - 1
<1>1. Lengths(s) \in [Kinds -> Int]
  BY LengthsChange
<1>2. /\ Total([Lengths(s) EXCEPT ![k] = @ + 1]) = Total(Lengths(s)) + 1
      /\ Total([Lengths(s) EXCEPT ![k] = @ - 1]) = Total(Lengths(s)) - 1
  BY <1>1, TotalByOne, Zenon
<1> QED BY <1>2, LengthsChange, Zenon

\* The jobs in the dispatchers' hands, when one takes a job or puts it down.
LEMMA TotalHanding ==
  ASSUME TypeOK, NEW k \in Kinds, NEW x, dispatcher' = [dispatcher EXCEPT ![k] = x]
  PROVE  /\ dispatcher[k].pc = "select" /\ x.pc = "submit" => Total(Handing') = Total(Handing) + 1
         /\ dispatcher[k].pc = "submit" /\ x.pc = "select" => Total(Handing') = Total(Handing) - 1
<1>1. Handing \in [Kinds -> Int]
  BY HandingChange
<1>2. /\ Total([Handing EXCEPT ![k] = @ + 1]) = Total(Handing) + 1
      /\ Total([Handing EXCEPT ![k] = @ - 1]) = Total(Handing) - 1
  BY <1>1, TotalByOne, Zenon
<1>3. dispatcher[k].pc = "select" /\ x.pc = "submit" => Handing' = [Handing EXCEPT ![k] = @ + 1]
  BY HandingChange
<1>4. dispatcher[k].pc = "submit" /\ x.pc = "select" => Handing' = [Handing EXCEPT ![k] = @ - 1]
  BY HandingChange
<1> QED BY <1>2, <1>3, <1>4, Zenon

\* The call for the first listed job takes it off the list.
LEMMA AfterCallListed ==
  ASSUME TypeOK, scheduler.pc \in {"check", "send"}
  PROVE  Len(AfterCall.todo) = Len(scheduler.todo) - 1
<1>1. scheduler.todo \in Seq(JobIds) /\ scheduler.todo # <<>>
  BY DEF TypeOK
<1>2. CASE Len(scheduler.todo) = 1
  <2>1. AfterCall.todo = <<>>
    BY <1>2 DEF AfterCall, Idle
  <2> QED BY <1>2, <2>1
<1>3. CASE Len(scheduler.todo) # 1
  <2>1. AfterCall.todo = Tail(scheduler.todo)
    BY <1>3 DEF AfterCall, TypeOK
  <2> QED BY <1>1, <2>1
<1> QED BY <1>2, <1>3

LEMMA AccountedSchedule ==
  ASSUME TypeOK, EveryJobAccounted, Schedule
  PROVE  EveryJobAccounted'
<1> DEFINE A(t, q, r) == Account(Total(created), t, q, Total(Handing), Total(Lengths(jobCh)),
                                 Cardinality(Busy), processed, Total(dropped), r, expired)
<1>1. UNCHANGED <<created, Handing, jobCh, Busy, processed, dropped, expired>>
  BY DEF Schedule, CheckRunning, Send, SchedulerExits, Handing, Busy
<1>2. SUFFICES A(Len(scheduler'.todo), Total(Lengths(queue')), refused')
  BY <1>1, Zenon DEF EveryJobAccounted, Account
<1>3. /\ A(Len(scheduler.todo), Total(Lengths(queue)), refused)
      /\ A(Len(scheduler.todo) - 1, Total(Lengths(queue)) + 1, refused)
      /\ A(Len(scheduler.todo) - 1, Total(Lengths(queue)), refused + 1)
  BY Entries, Moves
<1>4. CASE scheduler'.todo = scheduler.todo /\ UNCHANGED <<queue, refused>>
  BY <1>3, <1>4, Zenon
<1>5. CASE scheduler.pc \in {"check", "send"} /\ scheduler' = AfterCall
            /\ refused' = refused + 1 /\ UNCHANGED queue
  <2>1. Len(scheduler'.todo) = Len(scheduler.todo) - 1
    BY <1>5, AfterCallListed
  <2> QED BY <1>3, <1>5, <2>1, Zenon
<1>6. CASE /\ scheduler.pc = "send" /\ scheduler' = AfterCall
           /\ queue' = [queue EXCEPT ![scheduler.kind] = Append(@, Head(scheduler.todo))]
           /\ UNCHANGED refused
  <2>1. Len(scheduler'.todo) = Len(scheduler.todo) - 1
    BY <1>6, AfterCallListed
  <2>2. scheduler.kind \in Kinds /\ scheduler.todo \in Seq(JobIds) /\ scheduler.todo # <<>>
    BY <1>6 DEF TypeOK
  <2>3. Head(scheduler.todo) \in JobIds
    BY <2>2
  <2>4. queue \in [Kinds -> Seq(JobIds)]
    BY DEF TypeOK
  <2>5. Total(Lengths(queue')) = Total(Lengths(queue)) + 1
    BY <1>6, <2>2, <2>3, <2>4, TotalLengths, Zenon
  <2> QED BY <1>3, <1>6, <2>1, <2>5, Zenon
<1>7. CASE CheckRunning
  BY <1>4, <1>5, <1>7 DEF CheckRunning, TypeOK
<1>8. CASE Send
  BY <1>5, <1>6, <1>8 DEF Send
<1>9. CASE SchedulerExits
  BY <1>4, <1>9 DEF SchedulerExits, TypeOK
<1> QED BY <1>7, <1>8, <1>9 DEF Schedule

LEMMA AccountedDispatch ==
  ASSUME TypeOK, EveryJobAccounted,
         Expire \/ \E k \in Kinds : Dispatch(k)
  PROVE  EveryJobAccounted'
<1> DEFINE A(q, h, j, d, e) == Account(Total(created), Len(scheduler.todo), q, h, j,
                                       Cardinality(Busy), processed, d, refused, e)
<1>1. UNCHANGED <<created, scheduler, Busy, processed, refused>>
  BY DEF Dispatch, Expire, Receive, Submit, DispatcherExits, Busy
<1>2. SUFFICES A(Total(Lengths(queue')), Total(Handing'), Total(Lengths(jobCh')),
                 Total(dropped'), expired')
  BY <1>1, Zenon DEF EveryJobAccounted, Account
<1> DEFINE Q == Total(Lengths(queue))
           H == Total(Handing)
           J == Total(Lengths(jobCh))
           D == Total(dropped)
<1>3. /\ A(Q, H, J, D, expired)
      /\ A(Q - 1, H + 1, J, D, expired)
      /\ A(Q, H - 1, J + 1, D, expired)
      /\ A(Q, H - 1, J, D + 1, expired)
      /\ A(Q, H - 1, J, D, expired + 1)
  BY Entries, Moves
<1>4. queue \in [Kinds -> Seq(JobIds)] /\ jobCh \in [Kinds -> Seq(JobIds)]
      /\ dropped \in [Kinds -> Int] /\ dispatcher \in [Kinds -> Held({"submit"})]
  BY DEF TypeOK
<1>5. CASE Expire
  <2>1. "calculation" \in Kinds /\ Resting.pc = "select"
    BY DEF Kinds, Resting
  <2>2. /\ dispatcher["calculation"].pc = "submit" /\ expired' = expired + 1
        /\ dispatcher' = [dispatcher EXCEPT !["calculation"] = Resting]
        /\ UNCHANGED <<queue, jobCh, dropped>>
    BY <1>5 DEF Expire
  <2>3. Total(Handing') = H - 1
    BY <2>1, <2>2, TotalHanding
  <2> QED BY <1>3, <2>2, <2>3, Zenon
<1>6. ASSUME NEW k \in Kinds, Receive(k)
      PROVE  A(Total(Lengths(queue')), Total(Handing'), Total(Lengths(jobCh')),
               Total(dropped'), expired')
  <2>1. /\ dispatcher[k].pc = "select" /\ queue[k] # <<>>
        /\ dispatcher' = [dispatcher EXCEPT ![k] = [pc |-> "submit", job |-> Head(queue[k])]]
        /\ queue' = [queue EXCEPT ![k] = Tail(@)]
        /\ UNCHANGED <<jobCh, dropped, expired>>
    BY <1>6, Zenon DEF Receive
  <2>2. [pc |-> "submit", job |-> Head(queue[k])].pc = "submit"
    OBVIOUS
  <2>3. Total(Handing') = H + 1
    BY <2>1, <2>2, TotalHanding
  <2>4. Total(Lengths(queue')) = Q - 1
    BY <1>4, <2>1, TotalLengths, Zenon
  <2> QED BY <1>3, <2>1, <2>3, <2>4, Zenon
<1>7. ASSUME NEW k \in Kinds, Submit(k)
      PROVE  A(Total(Lengths(queue')), Total(Handing'), Total(Lengths(jobCh')),
               Total(dropped'), expired')
  <2>1. /\ dispatcher[k].pc = "submit" /\ dispatcher' = [dispatcher EXCEPT ![k] = Resting]
        /\ UNCHANGED <<queue, expired>>
    BY <1>7, Zenon DEF Submit
  <2>2. Resting.pc = "select"
    BY DEF Resting
  <2>3. Total(Handing') = H - 1
    BY <2>1, <2>2, TotalHanding
  <2>4. CASE jobCh' = [jobCh EXCEPT ![k] = Append(@, dispatcher[k].job)] /\ UNCHANGED dropped
    <3>1. dispatcher[k] \in Held({"submit"})
      BY <1>4
    <3>2. dispatcher[k].job \in JobIds
      BY <2>1, <3>1 DEF Held, Resting, Done
    <3>3. Total(Lengths(jobCh')) = J + 1
      BY <1>4, <2>4, <3>2, TotalLengths, Zenon
    <3> QED BY <1>3, <2>1, <2>3, <2>4, <3>3, Zenon
  <2>5. CASE dropped' = [dropped EXCEPT ![k] = @ + 1] /\ UNCHANGED jobCh
    <3>1. Total([dropped EXCEPT ![k] = @ + 1]) = D + 1
      BY <1>4, TotalByOne, Zenon
    <3> QED BY <1>3, <2>1, <2>3, <2>5, <3>1, Zenon
  <2> QED BY <1>7, <2>4, <2>5, Zenon DEF Submit
<1>8. ASSUME NEW k \in Kinds, DispatcherExits(k)
      PROVE  A(Total(Lengths(queue')), Total(Handing'), Total(Lengths(jobCh')),
               Total(dropped'), expired')
  <2>1. UNCHANGED <<queue, jobCh, dropped, expired>>
    BY <1>8 DEF DispatcherExits
  <2>2. dispatcher[k].pc = "select" /\ dispatcher' = [dispatcher EXCEPT ![k] = Done]
    BY <1>8 DEF DispatcherExits
  <2>3. \A y \in Kinds : dispatcher'[y].pc = "submit" <=> dispatcher[y].pc = "submit"
    BY <1>4, <2>2 DEF Done
  <2>4. Handing' = Handing
    BY <2>3 DEF Handing
  <2> QED BY <1>3, <2>1, <2>4, Zenon
<1> QED BY <1>5, <1>6, <1>7, <1>8, Zenon DEF Dispatch

\* Only the job a worker holds says whether it is busy.
LEMMA BusyChange ==
  ASSUME TypeOK, NEW w \in Workers, NEW x, worker' = [worker EXCEPT ![w] = x]
  PROVE  /\ x.job # 0 => Busy' = Busy \cup {w}
         /\ x.job = 0 => Busy' = Busy \ {w}
<1>1. worker'[w] = x /\ \A v \in Workers \ {w} : worker'[v] = worker[v]
  BY DEF TypeOK
<1> QED BY <1>1 DEF Busy

LEMMA AccountedWork ==
  ASSUME TypeOK, EveryJobAccounted, NEW w \in Workers, Work(w)
  PROVE  EveryJobAccounted'
<1> DEFINE A(j, b, p) == Account(Total(created), Len(scheduler.todo), Total(Lengths(queue)),
                                 Total(Handing), j, b, p, Total(dropped), refused, expired)
<1>1. UNCHANGED <<created, scheduler, queue, Handing, dropped, refused, expired>>
  BY DEF Work, Take, FinishJob, UpdateMetrics, WorkerExits, Handing
<1>2. SUFFICES A(Total(Lengths(jobCh')), Cardinality(Busy'), processed')
  BY <1>1, Zenon DEF EveryJobAccounted, Account
<1> DEFINE J == Total(Lengths(jobCh))
           B == Cardinality(Busy)
<1>3. A(J, B, processed) /\ A(J - 1, B + 1, processed) /\ A(J, B - 1, processed + 1)
  BY Entries, Moves
<1>4. jobCh \in [Kinds -> Seq(JobIds)] /\ worker[w] \in Held({"process", "record"})
      /\ KindOf(w) \in Kinds
  BY DEF TypeOK, KindOf, Kinds
<1>5. Resting.job = 0 /\ Done.job = 0
  BY DEF Resting, Done
<1>6. CASE Take(w)
  <2> DEFINE k == KindOf(w)
             taken == [pc |-> "process", job |-> Head(jobCh[k])]
  <2>1. /\ worker[w].pc = "select" /\ jobCh[k] # <<>>
        /\ worker' = [worker EXCEPT ![w] = taken] /\ jobCh' = [jobCh EXCEPT ![k] = Tail(@)]
        /\ UNCHANGED processed
    BY <1>6, Zenon DEF Take
  <2>2. jobCh[k] \in Seq(JobIds) /\ jobCh[k] # <<>>
    BY <1>4, <2>1
  <2>3. Head(jobCh[k]) \in JobIds
    BY <2>2
  <2>4. taken.job # 0
    BY <2>3 DEF JobIds
  <2>5. Busy' = Busy \cup {w}
    BY <2>1, <2>4, BusyChange, Zenon
  <2>6. Cardinality(Busy') = B + 1
    BY <2>1, <2>5, BusyCount, Zenon
  <2>7. Total(Lengths(jobCh')) = J - 1
    BY <1>4, <2>1, TotalLengths, Zenon
  <2> QED BY <1>3, <2>1, <2>6, <2>7, Zenon
<1>7. CASE FinishJob(w)
  <2>1. worker[w].pc = "process" /\ worker' = [worker EXCEPT ![w].pc = "record"]
        /\ UNCHANGED <<jobCh, processed>>
    BY <1>7, Zenon DEF FinishJob
  <2>2. \A v \in Workers : worker'[v].job # 0 <=> worker[v].job # 0
    BY <1>4, <2>1 DEF TypeOK, Held, Resting, Done
  <2>3. Busy' = Busy
    BY <2>2 DEF Busy
  <2> QED BY <1>3, <2>1, <2>3, Zenon
<1>8. CASE UpdateMetrics(w)
  <2>1. worker[w].pc = "record" /\ worker' = [worker EXCEPT ![w] = Resting]
        /\ processed' = processed + 1 /\ UNCHANGED jobCh
    BY <1>8, Zenon DEF UpdateMetrics
  <2>2. Busy' = Busy \ {w}
    BY <1>5, <2>1, BusyChange, Zenon
  <2>3. Cardinality(Busy') = B - 1
    BY <2>1, <2>2, BusyCount, Zenon
  <2> QED BY <1>3, <2>1, <2>3, Zenon
<1>9. CASE WorkerExits(w)
  <2>1. worker[w].pc = "select" /\ worker' = [worker EXCEPT ![w] = Done]
        /\ UNCHANGED <<jobCh, processed>>
    BY <1>9, Zenon DEF WorkerExits
  <2>2. Busy' = Busy \ {w}
    BY <1>5, <2>1, BusyChange, Zenon
  <2>3. w \notin Busy
    BY <2>1, WorkerHolds
  <2>4. Busy' = Busy
    BY <2>2, <2>3
  <2> QED BY <1>3, <2>1, <2>4, Zenon
<1> QED BY <1>6, <1>7, <1>8, <1>9, Zenon DEF Work

\* The collector and Stop move no job.
LEMMA AccountedOther ==
  ASSUME EveryJobAccounted,
         Collect \/ MinutePasses \/ BeginStop \/ ContinueStop \/ UNCHANGED vars
  PROVE  EveryJobAccounted'
<1>1. UNCHANGED <<created, scheduler, queue, Handing, jobCh, Busy, processed, dropped, refused, expired>>
  BY DEF Collect, LogMetrics, CollectorExits, MinutePasses, BeginStop, ContinueStop,
         StopRefreshPool, AwaitGoroutines, ReturnFromStop, vars, Handing, Busy
<1> QED BY <1>1, Zenon DEF EveryJobAccounted

LEMMA AccountedInit == Init => EveryJobAccounted
<1> SUFFICES ASSUME Init PROVE EveryJobAccounted
  OBVIOUS
<1>1. Total(created) = 0 /\ Total(dropped) = 0 /\ processed = 0 /\ refused = 0 /\ expired = 0
  BY DEF Init, Total, Kinds
<1>2. Len(scheduler.todo) = 0
  BY DEF Init, Idle
<1>3. Total(Lengths(queue)) = 0 /\ Total(Lengths(jobCh)) = 0
  <2>1. \A k \in Kinds : Len(queue[k]) = 0 /\ Len(jobCh[k]) = 0
    BY DEF Init
  <2>2. Lengths(queue) = [k \in Kinds |-> 0] /\ Lengths(jobCh) = [k \in Kinds |-> 0]
    BY <2>1 DEF Lengths
  <2> QED BY <2>2 DEF Total, Kinds
<1>4. Total(Handing) = 0
  <2>1. \A k \in Kinds : dispatcher[k].pc # "submit"
    BY DEF Init, Resting
  <2>2. Handing = [k \in Kinds |-> 0]
    BY <2>1 DEF Handing
  <2> QED BY <2>2 DEF Total, Kinds
<1>5. Cardinality(Busy) = 0
  <2>1. Busy = {}
    BY DEF Init, Resting, Busy
  <2> QED BY <2>1, FS_EmptySet
<1>6. 0 = 0 + 0 + 0 + 0 + 0 + 0 + 0 + 0 + 0
  OBVIOUS
<1> QED BY <1>1, <1>2, <1>3, <1>4, <1>5, <1>6, Zenon DEF EveryJobAccounted

(* Whatever the ticks, the capacities and the moment of Stop, every job a tick created *)
(* is waiting, in some goroutine's hands, recorded, dropped, refused or skipped, once. *)
THEOREM Accounted == Spec => []EveryJobAccounted
<1>1. Init => EveryJobAccounted
  BY AccountedInit
<1>2. TypeOK /\ EveryJobAccounted /\ [Next]_vars => EveryJobAccounted'
  BY AccountedTick, AccountedSchedule, AccountedDispatch, AccountedWork, AccountedOther,
     Zenon DEF Next
<1> QED BY <1>1, <1>2, TypeCorrect, PTL DEF Spec

=============================================================================

------------------------ MODULE BackgroundProcessor ------------------------
(***************************************************************************)
(* The background processor of a server process: a scheduler goroutine     *)
(* turns ticks into jobs, one dispatcher per queue hands them to a pool of *)
(* workers, a collector reads the metrics, and Stop ends all of them.      *)
(*                                                                         *)
(* Every goroutine sits in a select whose last branch is the stop channel; *)
(* Go picks among the ready branches at random.  Sends never block: a job  *)
(* that finds the queue full is refused, one that finds its pool's channel *)
(* full is dropped and counted.  The processor's mutex is held over a      *)
(* blocking call only by Stop, so the other critical sections are single   *)
(* steps that wait until Stop does not hold it.                            *)
(*                                                                         *)
(* What a job computes is left out, and so are the results: the goroutine  *)
(* that receives them only logs, and a full result channel drops them.     *)
(***************************************************************************)
EXTENDS Integers, Sequences, FiniteSets

CONSTANTS
  CalculationWorkers,  \* the workers of each pool
  RefreshWorkers,
  CalculationCap,      \* capacity of calculationQueue
  RefreshCap,          \* capacity of refreshQueue
  Portfolios,          \* number of portfolios in the database
  MaxCalculations,     \* bound: the jobs of each kind that ticks create
  MaxRefreshes

ASSUME WorkersAssumption ==
  /\ IsFiniteSet(CalculationWorkers) /\ IsFiniteSet(RefreshWorkers)
  /\ CalculationWorkers \cap RefreshWorkers = {}
ASSUME SizesAssumption ==
  {CalculationCap, RefreshCap, Portfolios, MaxCalculations, MaxRefreshes} \subseteq Nat \ {0}

VARIABLES
  running,     \* isRunning, read without the mutex by ScheduleCalculation
  closed,      \* the stop channels that are closed
  queue,       \* calculationQueue and refreshQueue
  jobCh,       \* the channel of each pool
  dispatcher,  \* calculationDispatcher and refreshDispatcher
  scheduler,   \* periodicTaskScheduler, with the jobs its tick is to enqueue
  collector,   \* metricsCollector
  worker,      \* the workers of both pools
  stop,        \* how far the call of Stop has come
  created,     \* number of jobs of each kind the ticks created, also their last id
  processed,   \* the metric processedJobs
  dropped,     \* the metric droppedJobs of each pool
  refused,     \* ghost: how many jobs Schedule... returned an error for
  expired      \* ghost: how many the dispatcher skipped, their deadline past

vars == <<running, closed, queue, jobCh, dispatcher, scheduler, collector, worker,
          stop, created, processed, dropped, refused, expired>>

Kinds   == {"calculation", "refresh"}
Workers == CalculationWorkers \cup RefreshWorkers

Pool(k)     == IF k = "calculation" THEN CalculationWorkers ELSE RefreshWorkers
KindOf(w)   == IF w \in CalculationWorkers THEN "calculation" ELSE "refresh"
QueueCap(k) == IF k = "calculation" THEN CalculationCap ELSE RefreshCap
MaxJobs(k)  == IF k = "calculation" THEN MaxCalculations ELSE MaxRefreshes
JobChCap(k) == 2 * Cardinality(Pool(k))

Resting == [pc |-> "select", job |-> 0]
Done    == [pc |-> "done", job |-> 0]
Idle    == [pc |-> "select", kind |-> "calculation", todo |-> <<>>]

\* NewBackgroundProcessor and Start, called once when the application is wired.
Init ==
  /\ running = TRUE /\ closed = {}
  /\ queue = [k \in Kinds |-> <<>>] /\ jobCh = [k \in Kinds |-> <<>>]
  /\ dispatcher = [k \in Kinds |-> Resting]
  /\ scheduler = Idle
  /\ collector = "select"
  /\ worker = [w \in Workers |-> Resting]
  /\ stop = "idle"
  /\ created = [k \in Kinds |-> 0] /\ processed = 0 /\ dropped = [k \in Kinds |-> 0]
  /\ refused = 0 /\ expired = 0

-----------------------------------------------------------------------------
(* The scheduler.  A performance tick lists the portfolios and has a job for each *)
(* (none, when the listing fails), a market-data tick one, a cleanup tick one.    *)

Batch(k) == IF k = "calculation" THEN 1 .. Portfolios ELSE {1}

Tick(k) ==
  /\ scheduler.pc = "select"
  /\ \E n \in Batch(k) :
       /\ created[k] + n <= MaxJobs(k)
       /\ created' = [created EXCEPT ![k] = @ + n]
       /\ scheduler' = [pc |-> "check", kind |-> k, todo |-> [i \in 1 .. n |-> created[k] + i]]
  /\ UNCHANGED <<running, closed, queue, jobCh, dispatcher, collector, worker, stop,
                 processed, dropped, refused, expired>>

\* The scheduler after the call for the first job of its list has returned.
AfterCall ==
  IF Len(scheduler.todo) = 1 THEN Idle
  ELSE [scheduler EXCEPT !.pc = "check", !.todo = Tail(@)]

\* ScheduleCalculation and ScheduleRefresh up to the send: the read of isRunning.
CheckRunning ==
  /\ scheduler.pc = "check"
  /\ IF running
       THEN /\ scheduler' = [scheduler EXCEPT !.pc = "send"]
            /\ UNCHANGED refused
       ELSE /\ scheduler' = AfterCall
            /\ refused' = refused + 1
  /\ UNCHANGED <<running, closed, queue, jobCh, dispatcher, collector, worker, stop,
                 created, processed, dropped, expired>>

\* Mutant: the send is made whether or not the queue has room.
SendUnbounded ==
  /\ scheduler.pc = "send"
  /\ queue' = [queue EXCEPT ![scheduler.kind] = Append(@, Head(scheduler.todo))]
  /\ scheduler' = AfterCall
  /\ UNCHANGED <<running, closed, jobCh, dispatcher, collector, worker, stop,
                 created, processed, dropped, refused, expired>>

\* The send, which does not look at isRunning again.
Send ==
  /\ scheduler.pc = "send"
  /\ LET k == scheduler.kind
         j == Head(scheduler.todo)
     IN IF Len(queue[k]) < QueueCap(k)
          THEN queue' = [queue EXCEPT ![k] = Append(@, j)] /\ UNCHANGED refused
          ELSE refused' = refused + 1 /\ UNCHANGED queue
  /\ scheduler' = AfterCall
  /\ UNCHANGED <<running, closed, jobCh, dispatcher, collector, worker, stop,
                 created, processed, dropped, expired>>

SchedulerExits ==
  /\ scheduler.pc = "select" /\ "processor" \in closed
  /\ scheduler' = [scheduler EXCEPT !.pc = "done"]
  /\ UNCHANGED <<running, closed, queue, jobCh, dispatcher, collector, worker, stop,
                 created, processed, dropped, refused, expired>>

-----------------------------------------------------------------------------
(* A dispatcher: it takes a job off its queue and hands it to the pool, unless *)
(* the job is a calculation whose deadline has passed.                         *)

Receive(k) ==
  /\ dispatcher[k].pc = "select" /\ queue[k] # <<>>
  /\ dispatcher' = [dispatcher EXCEPT ![k] = [pc |-> "submit", job |-> Head(queue[k])]]
  /\ queue' = [queue EXCEPT ![k] = Tail(@)]
  /\ UNCHANGED <<running, closed, jobCh, scheduler, collector, worker, stop,
                 created, processed, dropped, refused, expired>>

Expire ==
  /\ dispatcher["calculation"].pc = "submit"
  /\ expired' = expired + 1
  /\ dispatcher' = [dispatcher EXCEPT !["calculation"] = Resting]
  /\ UNCHANGED <<running, closed, queue, jobCh, scheduler, collector, worker, stop,
                 created, processed, dropped, refused>>

\* Mutant: a dropped job is not counted.
SubmitUncounted(k) ==
  /\ dispatcher[k].pc = "submit"
  /\ dispatcher' = [dispatcher EXCEPT ![k] = Resting]
  /\ IF Len(jobCh[k]) < JobChCap(k)
       THEN jobCh' = [jobCh EXCEPT ![k] = Append(@, dispatcher[k].job)]
       ELSE UNCHANGED jobCh
  /\ UNCHANGED <<running, closed, queue, scheduler, collector, worker, stop,
                 created, processed, dropped, refused, expired>>

Submit(k) ==
  /\ dispatcher[k].pc = "submit"
  /\ dispatcher' = [dispatcher EXCEPT ![k] = Resting]
  /\ IF Len(jobCh[k]) < JobChCap(k)
       THEN jobCh' = [jobCh EXCEPT ![k] = Append(@, dispatcher[k].job)] /\ UNCHANGED dropped
       ELSE dropped' = [dropped EXCEPT ![k] = @ + 1] /\ UNCHANGED jobCh
  /\ UNCHANGED <<running, closed, queue, scheduler, collector, worker, stop,
                 created, processed, refused, expired>>

DispatcherExits(k) ==
  /\ dispatcher[k].pc = "select" /\ "processor" \in closed
  /\ dispatcher' = [dispatcher EXCEPT ![k] = Done]
  /\ UNCHANGED <<running, closed, queue, jobCh, scheduler, collector, worker, stop,
                 created, processed, dropped, refused, expired>>

-----------------------------------------------------------------------------
(* A worker: it takes a job, works on it, and records it under the mutex when *)
(* the deferred call of updateMetrics runs.  A failed job is recorded as well *)
(* (updateMetrics is always given TRUE) and is not tried again.               *)

\* Stop holds the mutex from its first step until it returns.
StopHoldsMutex == stop \in {"calculation", "refresh", "goroutines"}

Take(w) ==
  LET k == KindOf(w)
  IN /\ worker[w].pc = "select" /\ jobCh[k] # <<>>
     /\ worker' = [worker EXCEPT ![w] = [pc |-> "process", job |-> Head(jobCh[k])]]
     /\ jobCh' = [jobCh EXCEPT ![k] = Tail(@)]
     /\ UNCHANGED <<running, closed, queue, dispatcher, scheduler, collector, stop,
                    created, processed, dropped, refused, expired>>

FinishJob(w) ==
  /\ worker[w].pc = "process"
  /\ worker' = [worker EXCEPT ![w].pc = "record"]
  /\ UNCHANGED <<running, closed, queue, jobCh, dispatcher, scheduler, collector, stop,
                 created, processed, dropped, refused, expired>>

\* Mutant: a worker ends after its first job.
UpdateMetricsAndEnd(w) ==
  /\ worker[w].pc = "record" /\ ~StopHoldsMutex
  /\ processed' = processed + 1
  /\ worker' = [worker EXCEPT ![w] = Done]
  /\ UNCHANGED <<running, closed, queue, jobCh, dispatcher, scheduler, collector, stop,
                 created, dropped, refused, expired>>

UpdateMetrics(w) ==
  /\ worker[w].pc = "record" /\ ~StopHoldsMutex
  /\ processed' = processed + 1
  /\ worker' = [worker EXCEPT ![w] = Resting]
  /\ UNCHANGED <<running, closed, queue, jobCh, dispatcher, scheduler, collector, stop,
                 created, dropped, refused, expired>>

WorkerExits(w) ==
  /\ worker[w].pc = "select" /\ KindOf(w) \in closed
  /\ worker' = [worker EXCEPT ![w] = Done]
  /\ UNCHANGED <<running, closed, queue, jobCh, dispatcher, scheduler, collector, stop,
                 created, processed, dropped, refused, expired>>

-----------------------------------------------------------------------------
(* The collector, which takes the mutex for reading once a minute. *)

MinutePasses ==
  /\ collector = "select"
  /\ collector' = "read"
  /\ UNCHANGED <<running, closed, queue, jobCh, dispatcher, scheduler, worker, stop,
                 created, processed, dropped, refused, expired>>

LogMetrics ==
  /\ collector = "read" /\ ~StopHoldsMutex
  /\ collector' = "select"
  /\ UNCHANGED <<running, closed, queue, jobCh, dispatcher, scheduler, worker, stop,
                 created, processed, dropped, refused, expired>>

CollectorExits ==
  /\ collector = "select" /\ "processor" \in closed
  /\ collector' = "done"
  /\ UNCHANGED <<running, closed, queue, jobCh, dispatcher, scheduler, worker, stop,
                 created, processed, dropped, refused, expired>>

-----------------------------------------------------------------------------
(* Stop.  It locks the mutex, closes the processor's channel, clears isRunning, *)
(* then closes each pool's channel and waits for its workers in turn, and at    *)
(* last waits for the other goroutines.  A call while nothing runs does nothing.*)

PoolDone(k) == \A w \in Pool(k) : worker[w].pc = "done"

\* Mutant: the scheduler is not in the wait group.
GoroutinesDoneButScheduler ==
  (\A k \in Kinds : dispatcher[k].pc = "done") /\ collector = "done"

GoroutinesDone ==
  /\ \A k \in Kinds : dispatcher[k].pc = "done"
  /\ scheduler.pc = "done" /\ collector = "done"

BeginStop ==
  /\ stop = "idle" /\ running
  /\ stop' = "calculation" /\ running' = FALSE
  /\ closed' = {"processor", "calculation"}
  /\ UNCHANGED <<queue, jobCh, dispatcher, scheduler, collector, worker,
                 created, processed, dropped, refused, expired>>

\* Mutant: the second pool is awaited with its channel left open.
StopRefreshPoolUnclosed ==
  /\ stop = "calculation" /\ PoolDone("calculation")
  /\ stop' = "refresh"
  /\ UNCHANGED <<running, closed, queue, jobCh, dispatcher, scheduler, collector, worker,
                 created, processed, dropped, refused, expired>>

StopRefreshPool ==
  /\ stop = "calculation" /\ PoolDone("calculation")
  /\ stop' = "refresh" /\ closed' = closed \cup {"refresh"}
  /\ UNCHANGED <<running, queue, jobCh, dispatcher, scheduler, collector, worker,
                 created, processed, dropped, refused, expired>>

AwaitGoroutines ==
  /\ stop = "refresh" /\ PoolDone("refresh")
  /\ stop' = "goroutines"
  /\ UNCHANGED <<running, closed, queue, jobCh, dispatcher, scheduler, collector, worker,
                 created, processed, dropped, refused, expired>>

ReturnFromStop ==
  /\ stop = "goroutines" /\ GoroutinesDone
  /\ stop' = "returned"
  /\ UNCHANGED <<running, closed, queue, jobCh, dispatcher, scheduler, collector, worker,
                 created, processed, dropped, refused, expired>>

-----------------------------------------------------------------------------
Schedule       == CheckRunning \/ Send \/ SchedulerExits
Dispatch(k)    == Receive(k) \/ Submit(k) \/ DispatcherExits(k)
Work(w)        == Take(w) \/ FinishJob(w) \/ UpdateMetrics(w) \/ WorkerExits(w)
Collect        == LogMetrics \/ CollectorExits
ContinueStop   == StopRefreshPool \/ AwaitGoroutines \/ ReturnFromStop

Next ==
  \/ \E k \in Kinds : Tick(k) \/ Dispatch(k)
  \/ Expire \/ Schedule \/ Collect \/ MinutePasses
  \/ \E w \in Workers : Work(w)
  \/ BeginStop \/ ContinueStop

Spec == Init /\ [][Next]_vars

(* Each goroutine gets to run, a job ends within the 30 seconds of its context,   *)
(* and the mutex is handed on.  Nothing makes a tick come or makes Stop be called. *)
FairSpec ==
  /\ Spec
  /\ WF_vars(Schedule) /\ WF_vars(Collect) /\ WF_vars(ContinueStop)
  /\ \A k \in Kinds : WF_vars(Dispatch(k))
  /\ \A w \in Workers : WF_vars(Work(w))

-----------------------------------------------------------------------------
JobIds == Nat \ {0}

\* What a dispatcher or a worker holds: a job exactly in the states pcs.
Held(pcs) == {Resting, Done} \cup [pc : pcs, job : JobIds]

(* Every goroutine is in one of its states, holds a job exactly while it handles *)
(* one, and no channel holds more than its capacity.                            *)
TypeOK ==
  /\ running \in BOOLEAN
  /\ closed \subseteq Kinds \cup {"processor"}
  /\ queue \in [Kinds -> Seq(JobIds)] /\ jobCh \in [Kinds -> Seq(JobIds)]
  /\ \A k \in Kinds : Len(queue[k]) <= QueueCap(k) /\ Len(jobCh[k]) <= JobChCap(k)
  /\ dispatcher \in [Kinds -> Held({"submit"})]
  /\ scheduler \in [pc : {"select", "check", "send", "done"}, kind : Kinds, todo : Seq(JobIds)]
  /\ scheduler.pc \in {"check", "send"} <=> scheduler.todo # <<>>
  /\ collector \in {"select", "read", "done"}
  /\ worker \in [Workers -> Held({"process", "record"})]
  /\ stop \in {"idle", "calculation", "refresh", "goroutines", "returned"}
  /\ created \in [Kinds -> Nat] /\ dropped \in [Kinds -> Nat]
  /\ processed \in Nat /\ refused \in Nat /\ expired \in Nat

Busy == {w \in Workers : worker[w].job # 0}

Lengths(s) == [k \in Kinds |-> Len(s[k])]
Handing    == [k \in Kinds |-> IF dispatcher[k].pc = "submit" THEN 1 ELSE 0]
Total(f)   == f["calculation"] + f["refresh"]

(* No job is lost without a trace or counted twice: what ticks created is in a     *)
(* queue, a channel or a goroutine's hands, or was processed, dropped, refused or  *)
(* skipped, and the metrics processedJobs and droppedJobs say how many.  This is   *)
(* what the operators read off updateMetrics and Submit, across a Stop as well.    *)
EveryJobAccounted ==
  Total(created) =
    Len(scheduler.todo) + Total(Lengths(queue)) + Total(Handing) + Total(Lengths(jobCh))
      + Cardinality(Busy) + processed + Total(dropped) + refused + expired

\* How far Stop has come says who has ended.
StopProgress ==
  /\ stop \in {"refresh", "goroutines", "returned"} => PoolDone("calculation")
  /\ stop \in {"goroutines", "returned"} => PoolDone("refresh")
  /\ stop = "returned" => GoroutinesDone

(* After Stop has returned nothing of the processor runs: no goroutine takes, *)
(* sends or records a job, although queues may still hold some.               *)
QuietAfterStop == [][stop # "returned"]_vars

Waiting(k, j) ==
  \/ \E i \in 1 .. Len(queue[k]) : queue[k][i] = j
  \/ \E i \in 1 .. Len(jobCh[k]) : jobCh[k][i] = j
  \/ dispatcher[k].job = j
  \/ \E w \in Pool(k) : worker[w].job = j

(* While the processor is not stopped, an accepted job does not stay in it for *)
(* ever: some worker records it, or it is dropped or skipped.                  *)
JobsLeave ==
  \A k \in Kinds : \A j \in 1 .. MaxJobs(k) : Waiting(k, j) ~> (~Waiting(k, j) \/ stop # "idle")

GoroutineAwaitsMutex == collector = "read" \/ \E w \in Workers : worker[w].pc = "record"

(* The mutex is the only thing a Stop can hang on: it returns unless a worker that *)
(* finishes a job, or the collector, came to the mutex while Stop holds it.        *)
StopHangsOnlyOnMutex ==
  stop = "calculation" ~> (stop = "returned" \/ (StopHoldsMutex /\ GoroutineAwaitsMutex))

(* "Stop gracefully stops background processing": a call of Stop returns. *)
StopReturns == stop = "calculation" ~> stop = "returned"

=============================================================================

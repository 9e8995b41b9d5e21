---------------------------- MODULE LocalBuilds ----------------------------
(***************************************************************************)
(* A pack that a user builds from the data of a provider: one build job,   *)
(* its items (one per symbol) and the coverage of the pack it registers.   *)
(*                                                                         *)
(* The job is run by a goroutine that StartLocalPackBuild,                 *)
(* RetryFailedLocalPackBuild or, when a server starts,                     *)
(* ResumeQueuedLocalPackBuilds begins; nothing keeps two of them apart.    *)
(* The runner and the calls write whole rows from copies they read some    *)
(* steps earlier, so a cancel can be overwritten.  Candles are kept in the *)
(* memory of the run that fetched them.                                    *)
(*                                                                         *)
(* A task is such a call followed by the run it begins, or a cancel call.  *)
(* A running job may be resumed once it has been running for half an hour; *)
(* a provider's limits can make any run last that long, so Resume is not   *)
(* kept from a live one.  Credentials, dates and files are left out.       *)
(***************************************************************************)
EXTENDS Integers, FiniteSets

CONSTANTS
  Tasks,    \* concurrent calls and runs
  Symbols,  \* the items of the job
  NoSymbol

ASSUME NoSymbolAssumption == NoSymbol \notin Symbols
\* A build without symbols is refused.
ASSUME SymbolsAssumption  == IsFiniteSet(Symbols) /\ Symbols # {}

VARIABLES
  provider,    \* fetches symbol by symbol, or date by date (MarketParquet)
  status,      \* the status column of the job
  items,       \* its items; ABSENT before they are inserted
  coverage,    \* the symbols that the registered pack covers
  task,        \* what each task is doing
  overlapped,  \* two runs, or a run and a retry, were under way at the same time
  fault        \* the worst that has happened to a task

vars == <<provider, status, items, coverage, task, overlapped, fault>>

Final      == {"succeeded", "partial", "failed", "canceled"}
Status     == {"none", "queued", "running"} \cup Final
ItemStatus == {"ABSENT", "queued", "running", "succeeded", "failed", "canceled"}

\* retry: the failure may be retried; later: its next_retry_at is not reached;
\* dated: candles were found.
Item == [status : ItemStatus, retry : BOOLEAN, later : BOOLEAN, dated : BOOLEAN]

Plain(s)   == [status |-> s, retry |-> TRUE, later |-> FALSE, dated |-> FALSE]
Found      == [Plain("succeeded") EXCEPT !.dated = TRUE]
Unmappable == [Plain("failed") EXCEPT !.retry = FALSE]

CallPc == {"configure", "create", "retry", "cancel", "listCancel", "cancelItems"}
RunPc  == {"load", "begin", "list", "next", "touch", "fetch", "mark", "day",
           "dayDone", "settle", "erase", "insert", "report"}

\* todo: items still to be looked at; got: symbols with candles in memory;
\* copy: the status in the run's last copy of the job, or the one to report.
TaskState == [pc : {"idle"} \cup CallPc \cup RunPc, todo : SUBSET Symbols,
              targets : SUBSET Symbols, symbol : Symbols \cup {NoSymbol},
              got : SUBSET Symbols, copy : Status]

Idle == [pc |-> "idle", todo |-> {}, targets |-> {}, symbol |-> NoSymbol, got |-> {},
         copy |-> "none"]

Init ==
  /\ provider \in {"symbols", "dates"}
  /\ status = "none"
  /\ items = [s \in Symbols |-> Plain("ABSENT")]
  /\ coverage = {}
  /\ task = [t \in Tasks |-> Idle]
  /\ overlapped = FALSE
  /\ fault = "none"

With(statuses) == {s \in Symbols : items[s].status \in statuses}
Running(t)     == task[t].pc \in RunPc \cup {"retry"}

Goto(t, pc) == task' = [task EXCEPT ![t].pc = pc]
End(t)      == task' = [task EXCEPT ![t] = Idle]

\* A run that stops can be resumed; a mishap leaves rows that no run puts right.
Worse(f) == IF fault = "none" THEN f ELSE fault

\* A run begins: its call is over.
Launch(t) ==
  /\ task' = [task EXCEPT ![t] = [Idle EXCEPT !.pc = "load"]]
  /\ overlapped' = (overlapped \/ \E u \in Tasks \ {t} : Running(u))

\* An update of an item whose error is dropped.
WriteItem(s, item) ==
  \/ items' = [items EXCEPT ![s] = item] /\ UNCHANGED fault
  \/ UNCHANGED items /\ fault' = "mishap"

-----------------------------------------------------------------------------
(* StartLocalPackBuild: job, configuration (the whole row again), items.   *)

StartBuild(t) ==
  /\ task[t].pc = "idle" /\ status = "none"
  /\ status' = "queued"
  /\ Goto(t, "configure")
  /\ UNCHANGED <<provider, items, coverage, overlapped, fault>>

Configure(t) ==
  /\ task[t].pc = "configure"
  /\ status' = "queued"
  /\ Goto(t, "create")
  /\ UNCHANGED <<provider, items, coverage, overlapped, fault>>

CreateItems(t) ==
  /\ task[t].pc = "create"
  /\ items' = [s \in Symbols |-> Plain("queued")]
  /\ Launch(t)
  /\ UNCHANGED <<provider, status, coverage, fault>>

(* RetryFailedLocalPackBuild, whatever the status of the job. *)

Retry(t) ==
  LET failed == {s \in With({"failed"}) : items[s].retry}
  IN  /\ task[t].pc = "idle" /\ failed # {}
      /\ task' = [task EXCEPT ![t].pc = "retry", ![t].todo = failed]
      /\ overlapped' = (overlapped \/ \E u \in Tasks \ {t} : Running(u))
      /\ UNCHANGED <<provider, status, items, coverage, fault>>

RetryItem(t, s) ==
  /\ task[t].pc = "retry" /\ s \in task[t].todo
  /\ items' = [items EXCEPT ![s] = Plain("queued")]
  /\ task' = [task EXCEPT ![t].todo = @ \ {s}]
  /\ UNCHANGED <<provider, status, coverage, overlapped, fault>>

\* Seeded fault: the job's status is left as it is.
RetryRunUnmarked(t) ==
  /\ task[t].pc = "retry" /\ task[t].todo = {}
  /\ Launch(t)
  /\ UNCHANGED <<provider, status, items, coverage, fault>>

RetryRun(t) ==
  /\ task[t].pc = "retry" /\ task[t].todo = {}
  /\ status' = "queued"
  /\ Launch(t)
  /\ UNCHANGED <<provider, items, coverage, fault>>

(* ResumeQueuedLocalPackBuilds, when a server starts.  Before the items are *)
(* inserted the run finds nothing to do and reports a success: a mishap.    *)

Resume(t) ==
  /\ task[t].pc = "idle" /\ status \in {"queued", "running"}
  /\ Launch(t)
  /\ fault' = IF With({"ABSENT"}) # {} THEN "mishap" ELSE fault
  /\ UNCHANGED <<provider, status, items, coverage>>

(* CancelLocalPackBuild: the job is read and, unless final, written back,  *)
(* then its unfinished items one by one.                                   *)

Cancel(t) ==
  /\ task[t].pc = "idle" /\ status \in {"queued", "running"}
  /\ Goto(t, "cancel")
  /\ UNCHANGED <<provider, status, items, coverage, overlapped, fault>>

WriteCancel(t) ==
  /\ task[t].pc = "cancel"
  /\ status' = "canceled"
  /\ Goto(t, "listCancel")
  /\ UNCHANGED <<provider, items, coverage, overlapped, fault>>

ListCancel(t) ==
  LET open == With({"queued", "running", "failed"})
  IN  /\ task[t].pc = "listCancel"
      /\ task' = [task EXCEPT ![t] = IF open = {} THEN Idle
                                     ELSE [Idle EXCEPT !.pc = "cancelItems", !.todo = open]]
      /\ UNCHANGED <<provider, status, items, coverage, overlapped, fault>>

\* Seeded fault: only the status column is written.
CancelItemStatus(t, s) ==
  /\ task[t].pc = "cancelItems" /\ s \in task[t].todo
  /\ WriteItem(s, [items[s] EXCEPT !.status = "canceled"])
  /\ task' = [task EXCEPT ![t] =
       IF task[t].todo = {s} THEN Idle ELSE [task[t] EXCEPT !.todo = @ \ {s}]]
  /\ UNCHANGED <<provider, status, coverage, overlapped>>

CancelItem(t, s) ==
  /\ task[t].pc = "cancelItems" /\ s \in task[t].todo
  /\ WriteItem(s, Plain("canceled"))
  /\ task' = [task EXCEPT ![t] =
       IF task[t].todo = {s} THEN Idle ELSE [task[t] EXCEPT !.todo = @ \ {s}]]
  /\ UNCHANGED <<provider, status, coverage, overlapped>>

-----------------------------------------------------------------------------
(* runLocalBuildJob up to its list of symbols. *)

\* The job is read; a finished one is left alone ...
Load(t) ==
  /\ task[t].pc = "load"
  /\ IF status \in {"canceled", "succeeded", "partial"} THEN End(t) ELSE Goto(t, "begin")
  /\ UNCHANGED <<provider, status, items, coverage, overlapped, fault>>

\* ... and written back as running.
Begin(t) ==
  /\ task[t].pc = "begin"
  /\ status' = "running"
  /\ Goto(t, "list")
  /\ UNCHANGED <<provider, items, coverage, overlapped, fault>>

\* The items that are not finished, nor failed with a retry to wait for.
Open(s) == items[s].status \notin {"ABSENT", "succeeded", "canceled"} /\ ~items[s].later

\* Seeded fault: with nothing to fetch the run is over.
ListAndLeave(t) ==
  LET open == {s \in Symbols : Open(s)}
  IN  /\ task[t].pc = "list"
      /\ task' = [task EXCEPT ![t] = IF open = {} THEN Idle ELSE
           [task[t] EXCEPT !.todo = open, !.pc = IF provider = "dates" THEN "mark" ELSE "next"]]
      /\ UNCHANGED <<provider, status, items, coverage, overlapped, fault>>

List(t) ==
  /\ task[t].pc = "list"
  /\ task' = [task EXCEPT ![t].todo = {s \in Symbols : Open(s)},
                          ![t].pc = IF provider = "dates" THEN "mark" ELSE "next"]
  /\ UNCHANGED <<provider, status, items, coverage, overlapped, fault>>

\* failLocalBuildJob; f: the fault behind it, if any.
FailRun(t, f) ==
  /\ End(t)
  /\ \/ status' = "failed" /\ fault' = Worse(f)
     \/ UNCHANGED status /\ fault' = Worse("stop")
  /\ UNCHANGED <<provider, items, coverage, overlapped>>

\* There is no credential, or a file or the database fails.
FailEarly(t) ==
  \/ task[t].pc = "list" /\ FailRun(t, "none")
  \/ task[t].pc \in {"list", "day", "settle", "erase", "insert"} /\ FailRun(t, "stop")

-----------------------------------------------------------------------------
(* Symbol by symbol. *)

\* The job is read before each symbol, and the run ends if it is canceled.
Check(t, s) ==
  /\ task[t].pc = "next" /\ s \in task[t].todo
  /\ status # "canceled"
  /\ WriteItem(s, Plain("running"))
  /\ task' = [task EXCEPT ![t].pc = "touch", ![t].todo = @ \ {s}, ![t].symbol = s,
                          ![t].copy = status]
  /\ UNCHANGED <<provider, status, coverage, overlapped>>

LeaveCanceled(t) ==
  /\ (task[t].pc = "next" /\ task[t].todo # {}) \/ task[t].pc = "day"
  /\ status = "canceled"
  /\ End(t)
  /\ UNCHANGED <<provider, status, items, coverage, overlapped, fault>>

\* A symbol without a mapping to the provider's.
SkipUnmapped(t, s) ==
  /\ task[t].pc = "next" /\ s \in task[t].todo
  /\ status # "canceled"
  /\ WriteItem(s, Unmappable)
  /\ task' = [task EXCEPT ![t].todo = @ \ {s}]
  /\ UNCHANGED <<provider, status, coverage, overlapped>>

\* The current symbol is written with the copy of the job; the error is dropped.
Touch(t) ==
  /\ task[t].pc = "touch"
  /\ status' \in {status, task[t].copy}
  /\ Goto(t, "fetch")
  /\ UNCHANGED <<provider, items, coverage, overlapped, fault>>

\* The provider's answer: candles or none, or a failure.
Fetch(t) ==
  LET s == task[t].symbol
  IN  /\ task[t].pc = "fetch"
      /\ \E item \in {Found, Plain("succeeded"), Unmappable, Plain("failed"),
                      [Plain("failed") EXCEPT !.later = TRUE]} :
           /\ WriteItem(s, item)
           /\ task' = [task EXCEPT ![t].pc = "next", ![t].symbol = NoSymbol,
                                   ![t].copy = "none",
                                   ![t].got = IF item.dated THEN @ \cup {s} ELSE @]
      /\ UNCHANGED <<provider, status, coverage, overlapped>>

(* Date by date: every item is marked, the files of the dates are read,    *)
(* and every item is settled.                                              *)

Mark(t, s) ==
  /\ task[t].pc = "mark" /\ s \in task[t].todo
  /\ \/ /\ WriteItem(s, Plain("running"))
        /\ task' = [task EXCEPT ![t].todo = @ \ {s}, ![t].targets = @ \cup {s}]
     \/ /\ WriteItem(s, Unmappable)
        /\ task' = [task EXCEPT ![t].todo = @ \ {s}]
  /\ UNCHANGED <<provider, status, coverage, overlapped>>

\* No item has a mapping, or the provider has no date in the range.
NoDates(t) == task[t].pc = "mark" /\ task[t].todo = {} /\ FailRun(t, "none")

MarkedAll(t) ==
  /\ task[t].pc = "mark" /\ task[t].todo = {} /\ task[t].targets # {}
  /\ status' = "running"
  /\ Goto(t, "day")
  /\ UNCHANGED <<provider, items, coverage, overlapped, fault>>

ReadDay(t) ==
  /\ task[t].pc = "day" /\ status # "canceled"
  /\ Goto(t, "dayDone")
  /\ UNCHANGED <<provider, status, items, coverage, overlapped, fault>>

\* The progress is written with the run's own copy; a day more, or the end.
DayDone(t, pc) ==
  /\ task[t].pc = "dayDone" /\ pc \in {"day", "settle"}
  /\ status' = "running"
  /\ Goto(t, pc)
  /\ UNCHANGED <<provider, items, coverage, overlapped, fault>>

Settle(t, s) ==
  /\ task[t].pc = "settle" /\ s \in task[t].targets
  /\ \E item \in {Found, Unmappable} :
       /\ items' = [items EXCEPT ![s] = item]
       /\ task' = [task EXCEPT ![t].targets = @ \ {s},
                               ![t].got = IF item.dated THEN @ \cup {s} ELSE @]
  /\ UNCHANGED <<provider, status, coverage, overlapped, fault>>

-----------------------------------------------------------------------------
(* The outcome: counted from the items, installed and reported. *)

\* Every item was looked at.
Done(t) ==
  \/ task[t].pc = "next" /\ task[t].todo = {}
  \/ task[t].pc = "settle" /\ task[t].targets = {}

Outcome == IF With({"failed"}) = {} THEN "succeeded" ELSE "partial"

\* Seeded fault: only failures without a retry to come count.
CountFinalFailures(t) ==
  /\ Done(t)
  /\ With({"failed"}) = {} \/ With({"succeeded"}) # {}
  /\ task' = [task EXCEPT ![t].pc = "erase", ![t].copy =
       IF \E s \in With({"failed"}) : ~items[s].later THEN "partial" ELSE "succeeded"]
  /\ UNCHANGED <<provider, status, items, coverage, overlapped, fault>>

Count(t) ==
  /\ Done(t)
  /\ With({"failed"}) = {} \/ With({"succeeded"}) # {}
  /\ task' = [task EXCEPT ![t].pc = "erase", ![t].copy = Outcome]
  /\ UNCHANGED <<provider, status, items, coverage, overlapped, fault>>

AllFailed(t) ==
  /\ Done(t)
  /\ With({"failed"}) # {} /\ With({"succeeded"}) = {}
  /\ FailRun(t, "none")

\* UpsertPack and the first statement of ReplaceCoverage ...
Erase(t) ==
  /\ task[t].pc = "erase"
  /\ coverage' = {}
  /\ Goto(t, "insert")
  /\ UNCHANGED <<provider, status, items, overlapped, fault>>

\* Seeded fault: every symbol that the run was to fetch is registered.
InsertEverySymbol(t) ==
  /\ task[t].pc = "insert" /\ task[t].got \cap coverage = {}
  /\ coverage' = coverage \cup Symbols
  /\ Goto(t, "report")
  /\ UNCHANGED <<provider, status, items, overlapped, fault>>

\* ... and the second, which the primary key may refuse.
Insert(t) ==
  /\ task[t].pc = "insert" /\ task[t].got \cap coverage = {}
  /\ coverage' = coverage \cup task[t].got
  /\ Goto(t, "report")
  /\ UNCHANGED <<provider, status, items, overlapped, fault>>

Report(t) ==
  /\ task[t].pc = "report"
  /\ status' = task[t].copy
  /\ End(t)
  /\ UNCHANGED <<provider, items, coverage, overlapped, fault>>

-----------------------------------------------------------------------------
\* A server stops, the context of a request ends or a read fails.
Stop(t) ==
  /\ task[t].pc # "idle"
  /\ End(t)
  /\ fault' = IF task[t].pc = "retry" THEN "mishap" ELSE Worse("stop")
  /\ UNCHANGED <<provider, status, items, coverage, overlapped>>

\* next_retry_at of a failed item has come.  Nothing starts a run then.
RetryTimeReached(s) ==
  /\ items[s].later
  /\ items' = [items EXCEPT ![s].later = FALSE]
  /\ UNCHANGED <<provider, status, coverage, task, overlapped, fault>>

Proceed(t) ==
  \/ Configure(t) \/ CreateItems(t) \/ RetryRun(t) \/ WriteCancel(t) \/ ListCancel(t)
  \/ Load(t) \/ Begin(t) \/ List(t) \/ FailEarly(t)
  \/ LeaveCanceled(t) \/ Touch(t) \/ Fetch(t)
  \/ NoDates(t) \/ MarkedAll(t) \/ ReadDay(t)
  \/ Count(t) \/ AllFailed(t) \/ Erase(t) \/ Insert(t) \/ Report(t)
  \/ \E pc \in {"day", "settle"} : DayDone(t, pc)
  \/ \E s \in Symbols : RetryItem(t, s) \/ CancelItem(t, s) \/ Check(t, s)
                        \/ SkipUnmapped(t, s) \/ Mark(t, s) \/ Settle(t, s)

Next ==
  \/ \E t \in Tasks : StartBuild(t) \/ Retry(t) \/ Resume(t) \/ Cancel(t)
                      \/ Proceed(t) \/ Stop(t)
  \/ \E s \in Symbols : RetryTimeReached(s)

Spec == Init /\ [][Next]_vars

-----------------------------------------------------------------------------
(* Properties. *)

\* Rows and tasks have their types, only succeeded items have dates, and a run
\* that fetches has a symbol.
TypeOK ==
  /\ provider \in {"symbols", "dates"} /\ status \in Status
  /\ items \in [Symbols -> Item] /\ coverage \subseteq Symbols
  /\ task \in [Tasks -> TaskState]
  /\ overlapped \in BOOLEAN /\ fault \in {"none", "stop", "mishap"}
  /\ \A s \in Symbols : items[s].dated => items[s].status = "succeeded"
  /\ \A t \in Tasks : task[t].pc \in {"touch", "fetch"} => task[t].symbol \in Symbols

AtRest == fault # "mishap" /\ \A t \in Tasks : task[t].pc = "idle"

\* At rest, if no two runs overlapped, a build that is reported as succeeded or
\* partial has no item left in between, however often it was retried, resumed
\* and canceled.
ItemsSettled ==
  AtRest /\ ~overlapped /\ status \in {"succeeded", "partial"} =>
    With({"ABSENT", "queued", "running"}) = {}

\* At rest, if no two runs overlapped, the outcome is that of the items: a
\* succeeded build has no failed item and a partial one has something
\* missing, though a cancel that came too late may have marked it canceled.
OutcomeTrue ==
  AtRest /\ ~overlapped =>
    /\ status = "succeeded" => With({"failed"}) = {}
    /\ status = "partial" => With({"failed", "canceled"}) # {}

\* The pack covers only symbols whose item was fetched, if no two runs
\* overlapped; a cancel may since have overwritten the item.
CoverageEarned ==
  fault # "mishap" /\ ~overlapped => coverage \subseteq With({"succeeded", "canceled"})

\* No build is forgotten: while it is queued or running and no task was
\* stopped and no write lost, some task is at work that ends it.  (After a
\* stop only a server that starts half an hour later resumes it.)
NotForgotten ==
  status \in {"queued", "running"} /\ fault = "none" => \E t \in Tasks : task[t].pc # "idle"

\* Without any fault, a build that has succeeded, perhaps by retrying what had
\* failed, covers every symbol whose item has candles.
SucceededIsCovered ==
  AtRest /\ fault = "none" /\ ~overlapped /\ status = "succeeded" =>
    {s \in With({"succeeded"}) : items[s].dated} \subseteq coverage

-----------------------------------------------------------------------------
(* The inductive invariants behind the properties. *)

Creating(t) == task[t].pc \in {"configure", "create"}
InRun(t)    == task[t].pc \in RunPc

\* What a task holds at which of its steps.
StagesOK ==
  /\ \A t \in Tasks :
       /\ task[t].symbol # NoSymbol =>
            task[t].pc \in {"touch", "fetch"} /\ task[t].symbol \notin task[t].todo
       /\ task[t].targets # {} => task[t].pc \in {"mark", "day", "dayDone", "settle"}
       /\ task[t].todo # {} =>
            task[t].pc \in {"retry", "cancelItems", "next", "touch", "fetch", "mark"}
       /\ task[t].got # {} =>
            task[t].pc \in {"next", "touch", "fetch", "settle", "erase", "insert", "report"}
       /\ task[t].pc \in {"erase", "insert", "report"} => task[t].copy \in {"succeeded", "partial"}
  /\ \A s \in Symbols : items[s].later => items[s].status = "failed"

\* A build that is not over has somebody who will end it.
Attended ==
  status \in {"queued", "running"} /\ fault = "none" => \E t \in Tasks : Creating(t) \/ InRun(t)

\* The job, its items and its first run come one after another.
Births ==
  /\ \A s, r \in Symbols : items[s].status = "ABSENT" => items[r].status = "ABSENT"
  /\ status = "none" => \A s \in Symbols : items[s].status = "ABSENT"
  /\ \A t \in Tasks :
       /\ Creating(t) => \A s \in Symbols : items[s].status = "ABSENT"
       /\ Running(t) \/ task[t].pc = "cancelItems" => \A s \in Symbols : items[s].status # "ABSENT"
       /\ Creating(t) \/ InRun(t) => status \notin {"none", "succeeded", "partial"}
       /\ task[t].pc = "touch" => task[t].copy \notin {"none", "succeeded", "partial"}
  /\ \A t, u \in Tasks : Creating(t) /\ Creating(u) => t = u

OneRunner == \A t, u \in Tasks : Running(t) /\ Running(u) => t = u

\* The symbols that a run or a retry has still to deal with.
Ahead(t) == task[t].todo \cup task[t].targets \cup ({task[t].symbol} \ {NoSymbol})

Listed(t) == InRun(t) /\ task[t].pc \notin {"load", "begin", "list"}

\* How the items tell what outcome o says.
TrueOf(o) ==
  /\ o = "succeeded" => With({"failed"}) = {}
  /\ o = "partial" => With({"failed", "canceled"}) # {}

\* What a run has listed is ahead of it or settled; what it has fetched, or an
\* earlier run has registered, it does not touch again.
RunProgress ==
  \A t \in Tasks :
    /\ Listed(t) => With({"queued", "running"}) \subseteq Ahead(t)
    /\ Running(t) => Ahead(t) \cap (coverage \cup task[t].got) = {}
    /\ Running(t) => task[t].got \subseteq With({"succeeded", "canceled"})
    /\ task[t].pc \in {"erase", "insert", "report"} => TrueOf(task[t].copy)

\* Nobody is between the retry of some items and the run that retries them.
Reported ==
  (\A t \in Tasks : task[t].pc # "retry") /\ status \in {"succeeded", "partial"} =>
    With({"queued", "running"}) = {} /\ TrueOf(status) /\ \A s \in Symbols : items[s].status # "ABSENT"

BuildInv ==
  fault # "mishap" /\ ~overlapped =>
    /\ Births /\ OneRunner /\ RunProgress /\ Reported
    /\ coverage \subseteq With({"succeeded", "canceled"})

IInv == TypeOK /\ StagesOK /\ Attended /\ BuildInv
=============================================================================

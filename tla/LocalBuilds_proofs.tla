------------------------- MODULE LocalBuilds_proofs -------------------------
(***************************************************************************)
(* Theorems about LocalBuilds, for any number of tasks and symbols.        *)
(***************************************************************************)
EXTENDS LocalBuilds, TLAPS

USE NoSymbolAssumption, SymbolsAssumption

-----------------------------------------------------------------------------
(* What the steps do, told task by task and item by item. *)

TasksOK == task \in [Tasks -> TaskState]

ItemOK(item) ==
  /\ item \in Item
  /\ item.dated => item.status = "succeeded"
  /\ item.later => item.status = "failed"

ItemsOK == items \in [Symbols -> Item] /\ \A s \in Symbols : ItemOK(items[s])

\* Only task t has moved.
Moved(t) == TasksOK' /\ \A u \in Tasks : u # t => task'[u] = task[u]

LEMMA MoveTo ==
  ASSUME TasksOK, NEW t \in Tasks, NEW x \in TaskState, task' = [task EXCEPT ![t] = x]
  PROVE  Moved(t) /\ task'[t] = x
BY DEF TasksOK, Moved

LEMMA IdleFx ==
  /\ Idle \in TaskState
  /\ Idle.pc = "idle" /\ Idle.todo = {} /\ Idle.targets = {} /\ Idle.symbol = NoSymbol
  /\ Idle.got = {}
BY DEF Idle, TaskState, Status

LEMMA EndFx ==
  ASSUME TasksOK, NEW t \in Tasks, End(t)
  PROVE  Moved(t) /\ task'[t] = Idle
BY MoveTo, IdleFx DEF End

LEMMA GotoFx ==
  ASSUME TasksOK, NEW t \in Tasks, NEW pc \in CallPc \cup RunPc, Goto(t, pc)
  PROVE  /\ Moved(t) /\ task'[t].pc = pc
         /\ task'[t].todo = task[t].todo /\ task'[t].targets = task[t].targets
         /\ task'[t].symbol = task[t].symbol /\ task'[t].got = task[t].got
         /\ task'[t].copy = task[t].copy
<1>1. task[t] \in TaskState BY DEF TasksOK
<1> DEFINE x == [task[t] EXCEPT !.pc = pc]
<1>2. /\ x \in TaskState /\ x.pc = pc /\ x.todo = task[t].todo /\ x.targets = task[t].targets
      /\ x.symbol = task[t].symbol /\ x.got = task[t].got /\ x.copy = task[t].copy
  BY <1>1 DEF TaskState
<1>3. task' = [task EXCEPT ![t] = x] BY DEF Goto
<1> HIDE DEF x
<1> QED BY <1>2, <1>3, MoveTo

LEMMA LaunchFx ==
  ASSUME TasksOK, NEW t \in Tasks, Launch(t)
  PROVE  /\ Moved(t) /\ task'[t].pc = "load"
         /\ task'[t].todo = {} /\ task'[t].targets = {} /\ task'[t].symbol = NoSymbol
         /\ task'[t].got = {}
         /\ ~overlapped' => ~overlapped /\ \A u \in Tasks : u # t => ~Running(u)
<1> DEFINE x == [Idle EXCEPT !.pc = "load"]
<1>1. /\ x \in TaskState /\ x.pc = "load" /\ x.todo = {} /\ x.targets = {}
      /\ x.symbol = NoSymbol /\ x.got = {}
  BY DEF Idle, TaskState, Status, RunPc
<1>2. task' = [task EXCEPT ![t] = x] BY DEF Launch
<1>3. ~overlapped' => ~overlapped /\ \A u \in Tasks : u # t => ~Running(u)
  BY DEF Launch
<1> HIDE DEF x
<1> QED BY <1>1, <1>2, <1>3, MoveTo

LEMMA ItemFx ==
  /\ \A st \in ItemStatus : Plain(st) \in Item /\ Plain(st).status = st
                            /\ ~Plain(st).later /\ ~Plain(st).dated
  /\ Found \in Item /\ Found.status = "succeeded" /\ ~Found.later
  /\ Unmappable \in Item /\ Unmappable.status = "failed" /\ ~Unmappable.later /\ ~Unmappable.dated
  /\ LET i == [Plain("failed") EXCEPT !.later = TRUE]
     IN  i \in Item /\ i.status = "failed" /\ i.later /\ ~i.dated
BY DEF Plain, Found, Unmappable, Item, ItemStatus

\* Item s has become item, and nothing else has changed among the items.
Became(s, item) == items'[s] = item /\ \A r \in Symbols : r # s => items'[r] = items[r]

LEMMA ItemSet ==
  ASSUME ItemsOK, NEW s \in Symbols, NEW item, ItemOK(item), items' = [items EXCEPT ![s] = item]
  PROVE  ItemsOK' /\ Became(s, item)
<1>1. item \in Item BY DEF ItemOK
<1>2. items' \in [Symbols -> Item] /\ Became(s, item) BY <1>1 DEF ItemsOK, Became
<1>3. \A r \in Symbols : ItemOK(items'[r]) BY <1>2 DEF ItemsOK, Became
<1> QED BY <1>2, <1>3 DEF ItemsOK

LEMMA WriteFx ==
  ASSUME ItemsOK, NEW s \in Symbols, NEW item, ItemOK(item), WriteItem(s, item)
  PROVE  /\ ItemsOK' /\ (fault' = fault \/ fault' = "mishap")
         /\ fault' # "mishap" => fault' = fault /\ Became(s, item)
<1>1. CASE items' = [items EXCEPT ![s] = item] /\ UNCHANGED fault BY <1>1, ItemSet
<1>2. CASE UNCHANGED items /\ fault' = "mishap" BY <1>2 DEF ItemsOK
<1> QED BY <1>1, <1>2 DEF WriteItem

LEMMA FailRunFx ==
  ASSUME TasksOK, NEW t \in Tasks, NEW f \in {"none", "stop"}, FailRun(t, f)
  PROVE  /\ Moved(t) /\ task'[t] = Idle
         /\ status' = "failed" \/ (status' = status /\ fault' # "none")
         /\ fault' = fault \/ (fault = "none" /\ fault' \in {"none", "stop"})
         /\ UNCHANGED <<provider, items, coverage, overlapped>>
BY EndFx DEF FailRun, Worse

(* The actions of a run that do more than go to the next step. *)

LEMMA RetryFx ==
  ASSUME TasksOK, NEW t \in Tasks, Retry(t)
  PROVE  /\ Moved(t) /\ task[t].pc = "idle" /\ task'[t].pc = "retry"
         /\ task'[t].todo # {} /\ task'[t].todo \subseteq With({"failed"})
         /\ task'[t].targets = task[t].targets /\ task'[t].symbol = task[t].symbol
         /\ task'[t].got = task[t].got
         /\ ~overlapped' => ~overlapped /\ \A u \in Tasks : u # t => ~Running(u)
         /\ UNCHANGED <<provider, status, items, coverage, fault>>
<1>1. task[t] \in TaskState BY DEF TasksOK
<1> DEFINE failed == {s \in With({"failed"}) : items[s].retry}
           x == [task[t] EXCEPT !.pc = "retry", !.todo = failed]
<1>2. /\ x \in TaskState /\ x.pc = "retry" /\ x.todo = failed /\ x.targets = task[t].targets
      /\ x.symbol = task[t].symbol /\ x.got = task[t].got
  BY <1>1 DEF TaskState, CallPc, With
<1>3. task' = [task EXCEPT ![t] = x] /\ failed # {} BY DEF Retry
<1>4. Moved(t) /\ task'[t] = x
  <2> HIDE DEF x
  <2> QED BY <1>2, <1>3, MoveTo
<1>5. failed \subseteq With({"failed"}) OBVIOUS
<1> HIDE DEF x, failed
<1> QED BY <1>2, <1>3, <1>4, <1>5 DEF Retry

LEMMA RetryItemFx ==
  ASSUME TasksOK, ItemsOK, NEW t \in Tasks, NEW s \in Symbols, RetryItem(t, s)
  PROVE  /\ Moved(t) /\ task[t].pc = "retry" /\ task'[t].pc = "retry"
         /\ s \in task[t].todo /\ task'[t].todo = task[t].todo \ {s}
         /\ task'[t].targets = task[t].targets /\ task'[t].symbol = task[t].symbol
         /\ task'[t].got = task[t].got
         /\ ItemsOK' /\ Became(s, Plain("queued"))
<1>1. task[t] \in TaskState BY DEF TasksOK
<1> DEFINE x == [task[t] EXCEPT !.todo = task[t].todo \ {s}]
<1>2. /\ x \in TaskState /\ x.pc = "retry" /\ x.todo = task[t].todo \ {s}
      /\ x.targets = task[t].targets /\ x.symbol = task[t].symbol /\ x.got = task[t].got
  BY <1>1 DEF RetryItem, TaskState
<1>3. task' = [task EXCEPT ![t] = x] BY <1>1 DEF RetryItem, TaskState
<1>4. ItemOK(Plain("queued")) BY ItemFx DEF ItemOK, ItemStatus
<1>5. ItemsOK' /\ Became(s, Plain("queued")) BY <1>4, ItemSet DEF RetryItem
<1> HIDE DEF x
<1> QED BY <1>2, <1>3, <1>5, MoveTo DEF RetryItem

LEMMA ListCancelFx ==
  ASSUME TasksOK, NEW t \in Tasks, ListCancel(t)
  PROVE  /\ Moved(t)
         /\ \/ task'[t] = Idle
            \/ /\ task'[t].pc = "cancelItems" /\ task'[t].todo = With({"queued", "running", "failed"})
               /\ task'[t].todo # {} /\ task'[t].targets = {} /\ task'[t].symbol = NoSymbol
               /\ task'[t].got = {}
<1> DEFINE open == With({"queued", "running", "failed"})
           x == [Idle EXCEPT !.pc = "cancelItems", !.todo = open]
<1>1. /\ x \in TaskState /\ x.pc = "cancelItems" /\ x.todo = open /\ x.targets = {}
      /\ x.symbol = NoSymbol /\ x.got = {}
  BY DEF Idle, TaskState, Status, CallPc, With
<1>2. \/ task' = [task EXCEPT ![t] = Idle]
      \/ task' = [task EXCEPT ![t] = x] /\ open # {}
  BY DEF ListCancel
<1> HIDE DEF x, open
<1>3. CASE task' = [task EXCEPT ![t] = Idle] BY <1>3, MoveTo, IdleFx
<1>4. CASE task' = [task EXCEPT ![t] = x] /\ open # {} BY <1>1, <1>4, MoveTo DEF open
<1> QED BY <1>2, <1>3, <1>4

LEMMA CancelItemFx ==
  ASSUME TasksOK, ItemsOK, NEW t \in Tasks, NEW s \in Symbols, CancelItem(t, s)
  PROVE  /\ Moved(t) /\ task[t].pc = "cancelItems"
         /\ \/ task'[t] = Idle
            \/ /\ task'[t].pc = "cancelItems" /\ task'[t].todo \subseteq task[t].todo
               /\ task'[t].targets = task[t].targets /\ task'[t].symbol = task[t].symbol
               /\ task'[t].got = task[t].got
         /\ ItemsOK' /\ (fault' = fault \/ fault' = "mishap")
         /\ fault' # "mishap" => fault' = fault /\ Became(s, Plain("canceled"))
<1>1. task[t] \in TaskState BY DEF TasksOK
<1> DEFINE x == [task[t] EXCEPT !.todo = task[t].todo \ {s}]
<1>2. /\ x \in TaskState /\ x.pc = "cancelItems" /\ x.todo \subseteq task[t].todo
      /\ x.targets = task[t].targets /\ x.symbol = task[t].symbol /\ x.got = task[t].got
  BY <1>1 DEF CancelItem, TaskState
<1>3. task' = [task EXCEPT ![t] = Idle] \/ task' = [task EXCEPT ![t] = x]
  BY <1>1 DEF CancelItem, TaskState
<1>4. ItemOK(Plain("canceled")) BY ItemFx DEF ItemOK, ItemStatus
<1>5. /\ ItemsOK' /\ (fault' = fault \/ fault' = "mishap")
      /\ fault' # "mishap" => fault' = fault /\ Became(s, Plain("canceled"))
  BY <1>4, WriteFx DEF CancelItem
<1>6. task[t].pc = "cancelItems" BY DEF CancelItem
<1> HIDE DEF x
<1>7. CASE task' = [task EXCEPT ![t] = Idle] BY <1>5, <1>6, <1>7, MoveTo, IdleFx
<1>8. CASE task' = [task EXCEPT ![t] = x] BY <1>2, <1>5, <1>6, <1>8, MoveTo
<1> QED BY <1>3, <1>7, <1>8

LEMMA ListFx ==
  ASSUME TasksOK, NEW t \in Tasks, List(t)
  PROVE  /\ Moved(t) /\ task[t].pc = "list" /\ task'[t].pc \in {"mark", "next"}
         /\ task'[t].todo = {s \in Symbols : Open(s)}
         /\ task'[t].targets = task[t].targets /\ task'[t].symbol = task[t].symbol
         /\ task'[t].got = task[t].got
<1>1. task[t] \in TaskState BY DEF TasksOK
<1> DEFINE open == {s \in Symbols : Open(s)}
           pc == IF provider = "dates" THEN "mark" ELSE "next"
           x == [task[t] EXCEPT !.todo = open, !.pc = pc]
<1>2. /\ x \in TaskState /\ x.pc \in {"mark", "next"} /\ x.todo = open
      /\ x.targets = task[t].targets /\ x.symbol = task[t].symbol /\ x.got = task[t].got
  BY <1>1 DEF TaskState, RunPc
<1>3. task' = [task EXCEPT ![t] = x] BY <1>1 DEF List, TaskState
<1>4. task[t].pc = "list" BY DEF List
<1> HIDE DEF x
<1> QED BY <1>2, <1>3, <1>4, MoveTo

LEMMA CheckFx ==
  ASSUME TasksOK, ItemsOK, NEW t \in Tasks, NEW s \in Symbols, Check(t, s), status \in Status
  PROVE  /\ Moved(t) /\ task[t].pc = "next" /\ task'[t].pc = "touch"
         /\ s \in task[t].todo /\ task'[t].todo = task[t].todo \ {s}
         /\ task'[t].targets = task[t].targets /\ task'[t].symbol = s
         /\ task'[t].got = task[t].got /\ task'[t].copy = status
         /\ ItemsOK' /\ (fault' = fault \/ fault' = "mishap")
         /\ fault' # "mishap" => fault' = fault /\ Became(s, Plain("running"))
<1>1. task[t] \in TaskState BY DEF TasksOK
<1> DEFINE x == [task[t] EXCEPT !.pc = "touch", !.todo = task[t].todo \ {s}, !.symbol = s,
                                !.copy = status]
<1>2. /\ x \in TaskState /\ x.pc = "touch" /\ x.todo = task[t].todo \ {s}
      /\ x.targets = task[t].targets /\ x.symbol = s /\ x.got = task[t].got /\ x.copy = status
  BY <1>1 DEF TaskState, RunPc
<1>3. task' = [task EXCEPT ![t] = x] BY <1>1 DEF Check, TaskState
<1>4. ItemOK(Plain("running")) BY ItemFx DEF ItemOK, ItemStatus
<1>5. /\ ItemsOK' /\ (fault' = fault \/ fault' = "mishap")
      /\ fault' # "mishap" => fault' = fault /\ Became(s, Plain("running"))
  BY <1>4, WriteFx DEF Check
<1>6. task[t].pc = "next" /\ s \in task[t].todo BY DEF Check
<1> HIDE DEF x
<1> QED BY <1>2, <1>3, <1>5, <1>6, MoveTo

\* Symbols that are left out: by one run in its loop, by the other when it
\* marks them.
LEMMA SkipFx ==
  ASSUME TasksOK, ItemsOK, NEW t \in Tasks, NEW s \in Symbols, s \in task[t].todo,
         WriteItem(s, Unmappable),
         task' = [task EXCEPT ![t].todo = @ \ {s}]
  PROVE  /\ Moved(t) /\ task'[t].pc = task[t].pc /\ task'[t].todo = task[t].todo \ {s}
         /\ task'[t].targets = task[t].targets /\ task'[t].symbol = task[t].symbol
         /\ task'[t].got = task[t].got /\ task'[t].copy = task[t].copy
         /\ ItemsOK' /\ (fault' = fault \/ fault' = "mishap")
         /\ fault' # "mishap" => fault' = fault /\ Became(s, Unmappable)
<1>1. task[t] \in TaskState BY DEF TasksOK
<1> DEFINE x == [task[t] EXCEPT !.todo = task[t].todo \ {s}]
<1>2. /\ x \in TaskState /\ x.pc = task[t].pc /\ x.todo = task[t].todo \ {s}
      /\ x.targets = task[t].targets /\ x.symbol = task[t].symbol /\ x.got = task[t].got
      /\ x.copy = task[t].copy
  BY <1>1 DEF TaskState
<1>3. task' = [task EXCEPT ![t] = x] BY <1>1 DEF TaskState
<1>4. ItemOK(Unmappable) BY ItemFx DEF ItemOK
<1>5. /\ ItemsOK' /\ (fault' = fault \/ fault' = "mishap")
      /\ fault' # "mishap" => fault' = fault /\ Became(s, Unmappable)
  BY <1>4, WriteFx
<1> HIDE DEF x
<1> QED BY <1>2, <1>3, <1>5, MoveTo

LEMMA MarkFx ==
  ASSUME TasksOK, ItemsOK, NEW t \in Tasks, NEW s \in Symbols, s \in task[t].todo,
         WriteItem(s, Plain("running")),
         task' = [task EXCEPT ![t].todo = @ \ {s}, ![t].targets = @ \cup {s}]
  PROVE  /\ Moved(t) /\ task'[t].pc = task[t].pc /\ task'[t].todo = task[t].todo \ {s}
         /\ task'[t].targets = task[t].targets \cup {s} /\ task'[t].symbol = task[t].symbol
         /\ task'[t].got = task[t].got /\ task'[t].copy = task[t].copy
         /\ ItemsOK' /\ (fault' = fault \/ fault' = "mishap")
         /\ fault' # "mishap" => fault' = fault /\ Became(s, Plain("running"))
<1>1. task[t] \in TaskState BY DEF TasksOK
<1> DEFINE x == [task[t] EXCEPT !.todo = task[t].todo \ {s}, !.targets = task[t].targets \cup {s}]
<1>2. /\ x \in TaskState /\ x.pc = task[t].pc /\ x.todo = task[t].todo \ {s}
      /\ x.targets = task[t].targets \cup {s} /\ x.symbol = task[t].symbol
      /\ x.got = task[t].got /\ x.copy = task[t].copy
  BY <1>1 DEF TaskState
<1>3. task' = [task EXCEPT ![t] = x] BY <1>1 DEF TaskState
<1>4. ItemOK(Plain("running")) BY ItemFx DEF ItemOK, ItemStatus
<1>5. /\ ItemsOK' /\ (fault' = fault \/ fault' = "mishap")
      /\ fault' # "mishap" => fault' = fault /\ Became(s, Plain("running"))
  BY <1>4, WriteFx
<1> HIDE DEF x
<1> QED BY <1>2, <1>3, <1>5, MoveTo

\* The answer to a fetch settles the item; candles are kept if there are any.
LEMMA FetchFx ==
  ASSUME TasksOK, ItemsOK, NEW t \in Tasks, Fetch(t), task[t].symbol \in Symbols
  PROVE  \E item : \E s \in Symbols :
           /\ Moved(t) /\ task[t].pc = "fetch" /\ task'[t].pc = "next"
           /\ s = task[t].symbol /\ task'[t].symbol = NoSymbol
           /\ task'[t].todo = task[t].todo /\ task'[t].targets = task[t].targets
           /\ item.status \in {"succeeded", "failed"}
           /\ \/ task'[t].got = task[t].got
              \/ (task'[t].got = task[t].got \cup {s} /\ item.status = "succeeded")
           /\ ItemsOK' /\ (fault' = fault \/ fault' = "mishap")
           /\ fault' # "mishap" => fault' = fault /\ Became(s, item)
<1>1. task[t] \in TaskState BY DEF TasksOK
<1> DEFINE s == task[t].symbol
           some == {Found, Plain("succeeded"), Unmappable, Plain("failed"),
                    [Plain("failed") EXCEPT !.later = TRUE]}
<1>2. PICK item \in some :
        /\ WriteItem(s, item)
        /\ task' = [task EXCEPT ![t].pc = "next", ![t].symbol = NoSymbol,
                                ![t].copy = "none",
                                ![t].got = IF item.dated THEN @ \cup {s} ELSE @]
  BY DEF Fetch
<1>3. /\ item \in Item /\ item.status \in {"succeeded", "failed"}
      /\ item.dated => item.status = "succeeded"
      /\ item.later => item.status = "failed"
  BY ItemFx DEF ItemStatus
<1> HIDE DEF some
<1> DEFINE g == IF item.dated THEN task[t].got \cup {s} ELSE task[t].got
           x == [task[t] EXCEPT !.pc = "next", !.symbol = NoSymbol, !.copy = "none", !.got = g]
<1>4. /\ x \in TaskState /\ x.pc = "next" /\ x.symbol = NoSymbol /\ x.todo = task[t].todo
      /\ x.targets = task[t].targets /\ x.got = g
  BY <1>1 DEF TaskState, RunPc, Status
<1>5. task' = [task EXCEPT ![t] = x] BY <1>1, <1>2 DEF TaskState
<1>6. Moved(t) /\ task'[t] = x
  <2> HIDE DEF x
  <2> QED BY <1>4, <1>5, MoveTo
<1>7. /\ ItemsOK' /\ (fault' = fault \/ fault' = "mishap")
      /\ fault' # "mishap" => fault' = fault /\ Became(s, item)
  <2>1. ItemOK(item) BY <1>3 DEF ItemOK
  <2> QED BY <1>2, <2>1, WriteFx
<1>8. task[t].pc = "fetch" BY DEF Fetch
<1>9. g = task[t].got \/ (g = task[t].got \cup {s} /\ item.status = "succeeded") BY <1>3
<1> HIDE DEF x, g
<1> QED BY <1>3, <1>4, <1>6, <1>7, <1>8, <1>9

LEMMA SettleFx ==
  ASSUME TasksOK, ItemsOK, NEW t \in Tasks, NEW s \in Symbols, Settle(t, s)
  PROVE  \E item :
           /\ Moved(t) /\ task[t].pc = "settle" /\ task'[t].pc = "settle"
           /\ s \in task[t].targets /\ task'[t].targets = task[t].targets \ {s}
           /\ task'[t].todo = task[t].todo /\ task'[t].symbol = task[t].symbol
           /\ item.status \in {"succeeded", "failed"}
           /\ \/ task'[t].got = task[t].got
              \/ (task'[t].got = task[t].got \cup {s} /\ item.status = "succeeded")
           /\ ItemsOK' /\ Became(s, item)
<1>1. task[t] \in TaskState BY DEF TasksOK
<1>2. PICK item \in {Found, Unmappable} :
        /\ items' = [items EXCEPT ![s] = item]
        /\ task' = [task EXCEPT ![t].targets = @ \ {s},
                                ![t].got = IF item.dated THEN @ \cup {s} ELSE @]
  BY DEF Settle
<1>3. /\ item \in Item /\ item.status \in {"succeeded", "failed"}
      /\ item.dated => item.status = "succeeded"
      /\ item.later => item.status = "failed"
  BY ItemFx
<1> DEFINE g == IF item.dated THEN task[t].got \cup {s} ELSE task[t].got
           x == [task[t] EXCEPT !.targets = task[t].targets \ {s}, !.got = g]
<1>4. /\ x \in TaskState /\ x.pc = "settle" /\ x.symbol = task[t].symbol /\ x.todo = task[t].todo
      /\ x.targets = task[t].targets \ {s} /\ x.got = g
  BY <1>1 DEF TaskState, Settle
<1>5. task' = [task EXCEPT ![t] = x] BY <1>1, <1>2 DEF TaskState
<1>6. Moved(t) /\ task'[t] = x
  <2> HIDE DEF x
  <2> QED BY <1>4, <1>5, MoveTo
<1>7. ItemsOK' /\ Became(s, item)
  <2>1. ItemOK(item) BY <1>3 DEF ItemOK
  <2> QED BY <1>2, <2>1, ItemSet
<1>8. task[t].pc = "settle" /\ s \in task[t].targets BY DEF Settle
<1>9. g = task[t].got \/ (g = task[t].got \cup {s} /\ item.status = "succeeded") BY <1>3
<1> HIDE DEF x, g
<1> QED BY <1>3, <1>4, <1>6, <1>7, <1>8, <1>9

LEMMA CountFx ==
  ASSUME TasksOK, NEW t \in Tasks, Count(t)
  PROVE  /\ Moved(t) /\ task'[t].pc = "erase" /\ Done(t)
         /\ task'[t].todo = task[t].todo /\ task'[t].targets = task[t].targets
         /\ task'[t].symbol = task[t].symbol /\ task'[t].got = task[t].got
         /\ task'[t].copy = Outcome /\ Outcome \in {"succeeded", "partial"}
<1>1. task[t] \in TaskState BY DEF TasksOK
<1>2. Outcome \in {"succeeded", "partial"} BY DEF Outcome
<1> DEFINE x == [task[t] EXCEPT !.pc = "erase", !.copy = Outcome]
<1>3. /\ x \in TaskState /\ x.pc = "erase" /\ x.todo = task[t].todo
      /\ x.targets = task[t].targets /\ x.symbol = task[t].symbol /\ x.got = task[t].got
      /\ x.copy = Outcome
  BY <1>1, <1>2 DEF TaskState, RunPc, Status, Final
<1>4. task' = [task EXCEPT ![t] = x] BY <1>1 DEF Count, TaskState
<1>5. Done(t) BY DEF Count
<1> HIDE DEF x
<1> QED BY <1>2, <1>3, <1>4, <1>5, MoveTo

-----------------------------------------------------------------------------
(* Type correctness. *)

TaskOK(t) ==
  /\ task[t].pc \in {"touch", "fetch"} => task[t].symbol \in Symbols
  /\ task[t].symbol # NoSymbol =>
       task[t].pc \in {"touch", "fetch"} /\ task[t].symbol \notin task[t].todo
  /\ task[t].targets # {} => task[t].pc \in {"mark", "day", "dayDone", "settle"}
  /\ task[t].todo # {} =>
       task[t].pc \in {"retry", "cancelItems", "next", "touch", "fetch", "mark"}
  /\ task[t].got # {} =>
       task[t].pc \in {"next", "touch", "fetch", "settle", "erase", "insert", "report"}
  /\ task[t].pc \in {"erase", "insert", "report"} => task[t].copy \in {"succeeded", "partial"}

RowsOK ==
  /\ provider \in {"symbols", "dates"} /\ status \in Status /\ coverage \subseteq Symbols
  /\ overlapped \in BOOLEAN /\ fault \in {"none", "stop", "mishap"}

Typed == RowsOK /\ ItemsOK /\ TasksOK /\ \A t \in Tasks : TaskOK(t)

LEMMA TypeParts == TypeOK /\ StagesOK <=> Typed
<1>1. ItemsOK => \A s \in Symbols : items[s].later => items[s].status = "failed"
  BY DEF ItemsOK, ItemOK
<1>2. Typed => TypeOK /\ StagesOK
  BY DEF Typed, RowsOK, ItemsOK, ItemOK, TasksOK, TaskOK, TypeOK, StagesOK
<1>3. TypeOK /\ StagesOK => RowsOK /\ ItemsOK /\ TasksOK
  BY DEF RowsOK, ItemsOK, ItemOK, TasksOK, TypeOK, StagesOK
<1>4. TypeOK /\ StagesOK => \A t \in Tasks : TaskOK(t)
  BY DEF TaskOK, TypeOK, StagesOK
<1> QED BY <1>2, <1>3, <1>4 DEF Typed

LEMMA TypeInit == Init => Typed
<1> SUFFICES ASSUME Init PROVE Typed
  OBVIOUS
<1>1. RowsOK BY DEF Init, RowsOK, Status
<1>2. ItemOK(Plain("ABSENT")) BY ItemFx DEF ItemOK, ItemStatus
<1>3. ItemsOK BY <1>2 DEF Init, ItemsOK, ItemOK
<1>4. TasksOK /\ \A t \in Tasks : task[t] = Idle BY IdleFx DEF Init, TasksOK
<1>5. \A t \in Tasks : TaskOK(t) BY <1>4, IdleFx DEF TaskOK
<1> QED BY <1>1, <1>3, <1>4, <1>5 DEF Typed

\* Whoever moves to a place that holds what the task holds keeps the types.
LEMMA StillOK ==
  ASSUME \A u \in Tasks : TaskOK(u), NEW t \in Tasks, Moved(t), TaskOK(t)'
  PROVE  TasksOK' /\ \A u \in Tasks : TaskOK(u)'
BY DEF Moved, TaskOK

LEMMA TypeStep == Typed /\ [Next]_vars => Typed'
<1> SUFFICES ASSUME Typed, [Next]_vars PROVE Typed'
  OBVIOUS
<1>0. /\ RowsOK /\ ItemsOK /\ TasksOK /\ \A t \in Tasks : TaskOK(t)
  BY DEF Typed
<1>a. ASSUME NEW t \in Tasks, Moved(t), TaskOK(t)', ItemsOK', RowsOK' PROVE Typed'
  BY <1>0, <1>a, StillOK DEF Typed
<1>b. ASSUME UNCHANGED items PROVE ItemsOK' BY <1>0, <1>b DEF ItemsOK
<1>c. ASSUME NEW t \in Tasks, task'[t] = Idle PROVE TaskOK(t)'
  BY <1>c, IdleFx DEF TaskOK
<1>d. ASSUME NEW t \in Tasks, Launch(t) PROVE Moved(t) /\ TaskOK(t)' /\ overlapped' \in BOOLEAN
  BY <1>0, <1>d, LaunchFx DEF TaskOK, Launch
<1>1. ASSUME NEW t \in Tasks, StartBuild(t) PROVE Typed'
  <2>1. Moved(t) /\ TaskOK(t)'
    BY <1>0, <1>1, GotoFx DEF StartBuild, TaskOK, CallPc
  <2>2. RowsOK' BY <1>0, <1>1 DEF StartBuild, RowsOK, Status
  <2> QED BY <1>1, <1>a, <1>b, <2>1, <2>2 DEF StartBuild
<1>2. ASSUME NEW t \in Tasks, Configure(t) PROVE Typed'
  <2>1. Moved(t) /\ TaskOK(t)'
    BY <1>0, <1>2, GotoFx DEF Configure, TaskOK, CallPc
  <2>2. RowsOK' BY <1>0, <1>2 DEF Configure, RowsOK, Status
  <2> QED BY <1>2, <1>a, <1>b, <2>1, <2>2 DEF Configure
<1>3. ASSUME NEW t \in Tasks, CreateItems(t) PROVE Typed'
  <2>1. ItemOK(Plain("queued")) BY ItemFx DEF ItemOK, ItemStatus
  <2>2. ItemsOK' BY <1>3, <2>1 DEF CreateItems, ItemsOK, ItemOK
  <2>3. RowsOK' BY <1>0, <1>3, <1>d DEF CreateItems, RowsOK
  <2> QED BY <1>3, <1>a, <1>d, <2>2, <2>3 DEF CreateItems
<1>4. ASSUME NEW t \in Tasks, Retry(t) PROVE Typed'
  <2>1. Moved(t) /\ TaskOK(t)' BY <1>0, <1>4, RetryFx DEF TaskOK
  <2>2. RowsOK' BY <1>0, <1>4 DEF Retry, RowsOK
  <2> QED BY <1>4, <1>a, <1>b, <2>1, <2>2 DEF Retry
<1>5. ASSUME NEW t \in Tasks, NEW s \in Symbols, RetryItem(t, s) PROVE Typed'
  <2>1. Moved(t) /\ TaskOK(t)' /\ ItemsOK' BY <1>0, <1>5, RetryItemFx DEF TaskOK
  <2>2. RowsOK' BY <1>0, <1>5 DEF RetryItem, RowsOK
  <2> QED BY <1>5, <1>a, <2>1, <2>2 DEF RetryItem
<1>6. ASSUME NEW t \in Tasks, RetryRun(t) PROVE Typed'
  <2>1. RowsOK' BY <1>0, <1>6, <1>d DEF RetryRun, RowsOK, Status
  <2> QED BY <1>6, <1>a, <1>b, <1>d, <2>1 DEF RetryRun
<1>7. ASSUME NEW t \in Tasks, Resume(t) PROVE Typed'
  <2>1. RowsOK' BY <1>0, <1>7, <1>d DEF Resume, RowsOK
  <2> QED BY <1>7, <1>a, <1>b, <1>d, <2>1 DEF Resume
<1>8. ASSUME NEW t \in Tasks, Cancel(t) PROVE Typed'
  <2>1. Moved(t) /\ TaskOK(t)'
    BY <1>0, <1>8, GotoFx DEF Cancel, TaskOK, CallPc
  <2>2. RowsOK' BY <1>0, <1>8 DEF Cancel, RowsOK
  <2> QED BY <1>8, <1>a, <1>b, <2>1, <2>2 DEF Cancel
<1>9. ASSUME NEW t \in Tasks, WriteCancel(t) PROVE Typed'
  <2>1. Moved(t) /\ TaskOK(t)'
    BY <1>0, <1>9, GotoFx DEF WriteCancel, TaskOK, CallPc
  <2>2. RowsOK' BY <1>0, <1>9 DEF WriteCancel, RowsOK, Status, Final
  <2> QED BY <1>9, <1>a, <1>b, <2>1, <2>2 DEF WriteCancel
<1>10. ASSUME NEW t \in Tasks, ListCancel(t) PROVE Typed'
  <2>1. Moved(t) /\ TaskOK(t)' BY <1>0, <1>10, <1>c, ListCancelFx DEF TaskOK
  <2>2. RowsOK' BY <1>0, <1>10 DEF ListCancel, RowsOK
  <2> QED BY <1>10, <1>a, <1>b, <2>1, <2>2 DEF ListCancel
<1>11. ASSUME NEW t \in Tasks, NEW s \in Symbols, CancelItem(t, s) PROVE Typed'
  <2>1. Moved(t) /\ TaskOK(t)' BY <1>0, <1>11, <1>c, CancelItemFx DEF TaskOK
  <2>2. ItemsOK' /\ fault' \in {fault, "mishap"} BY <1>0, <1>11, CancelItemFx
  <2>3. RowsOK' BY <1>0, <1>11, <2>2 DEF CancelItem, RowsOK
  <2> QED BY <1>a, <2>1, <2>2, <2>3
<1>12. ASSUME NEW t \in Tasks, Load(t) PROVE Typed'
  <2>1. Moved(t) /\ TaskOK(t)'
    <3>1. CASE End(t) BY <1>0, <1>c, <3>1, EndFx
    <3>2. CASE Goto(t, "begin")
      BY <1>0, <1>12, <3>2, GotoFx DEF Load, TaskOK, RunPc
    <3> QED BY <1>12, <3>1, <3>2 DEF Load
  <2>2. RowsOK' BY <1>0, <1>12 DEF Load, RowsOK
  <2> QED BY <1>12, <1>a, <1>b, <2>1, <2>2 DEF Load
<1>13. ASSUME NEW t \in Tasks, Begin(t) PROVE Typed'
  <2>1. Moved(t) /\ TaskOK(t)' BY <1>0, <1>13, GotoFx DEF Begin, TaskOK, RunPc
  <2>2. RowsOK' BY <1>0, <1>13 DEF Begin, RowsOK, Status
  <2> QED BY <1>13, <1>a, <1>b, <2>1, <2>2 DEF Begin
<1>14. ASSUME NEW t \in Tasks, List(t) PROVE Typed'
  <2>1. Moved(t) /\ TaskOK(t)' BY <1>0, <1>14, ListFx DEF TaskOK
  <2>2. RowsOK' BY <1>0, <1>14 DEF List, RowsOK
  <2> QED BY <1>14, <1>a, <1>b, <2>1, <2>2 DEF List
<1>15. ASSUME NEW t \in Tasks, NEW f \in {"none", "stop"}, FailRun(t, f) PROVE Typed'
  <2>1. Moved(t) /\ task'[t] = Idle BY <1>0, <1>15, FailRunFx
  <2>2. RowsOK' BY <1>0, <1>15, FailRunFx DEF RowsOK, Status, Final
  <2> QED BY <1>15, <1>a, <1>b, <1>c, <2>1, <2>2 DEF FailRun
<1>16. ASSUME NEW t \in Tasks, FailEarly(t) \/ NoDates(t) \/ AllFailed(t) PROVE Typed'
  BY <1>15, <1>16 DEF FailEarly, NoDates, AllFailed
<1>17. ASSUME NEW t \in Tasks, NEW s \in Symbols, Check(t, s) PROVE Typed'
  <2>1. Moved(t) /\ TaskOK(t)'
    BY <1>0, <1>17, CheckFx DEF TaskOK, RowsOK
  <2>2. ItemsOK' /\ fault' \in {fault, "mishap"} BY <1>0, <1>17, CheckFx DEF RowsOK
  <2>3. RowsOK' BY <1>0, <1>17, <2>2 DEF Check, RowsOK
  <2> QED BY <1>a, <2>1, <2>2, <2>3
<1>18. ASSUME NEW t \in Tasks, LeaveCanceled(t) PROVE Typed'
  <2>1. Moved(t) /\ task'[t] = Idle BY <1>0, <1>18, EndFx DEF LeaveCanceled
  <2>2. RowsOK' BY <1>0, <1>18 DEF LeaveCanceled, RowsOK
  <2> QED BY <1>18, <1>a, <1>b, <1>c, <2>1, <2>2 DEF LeaveCanceled
<1>19. ASSUME NEW t \in Tasks, NEW s \in Symbols, SkipUnmapped(t, s) PROVE Typed'
  <2>1. Moved(t) /\ TaskOK(t)' /\ ItemsOK' /\ fault' \in {fault, "mishap"}
    BY <1>0, <1>19, SkipFx DEF SkipUnmapped, TaskOK
  <2>2. RowsOK' BY <1>0, <1>19, <2>1 DEF SkipUnmapped, RowsOK
  <2> QED BY <1>a, <2>1, <2>2
<1>20. ASSUME NEW t \in Tasks, Touch(t) PROVE Typed'
  <2>1. Moved(t) /\ TaskOK(t)' BY <1>0, <1>20, GotoFx DEF Touch, TaskOK, RunPc
  <2>2. task[t].copy \in Status BY <1>0 DEF TasksOK, TaskState
  <2>3. RowsOK' BY <1>0, <1>20, <2>2 DEF Touch, RowsOK
  <2> QED BY <1>20, <1>a, <1>b, <2>1, <2>3 DEF Touch
<1>21. ASSUME NEW t \in Tasks, Fetch(t) PROVE Typed'
  <2>0. task[t].symbol \in Symbols BY <1>0, <1>21 DEF Fetch, TaskOK
  <2>1. PICK item : \E s \in Symbols :
           /\ Moved(t) /\ task[t].pc = "fetch" /\ task'[t].pc = "next"
           /\ task'[t].symbol = NoSymbol
           /\ task'[t].todo = task[t].todo /\ task'[t].targets = task[t].targets
           /\ ItemsOK' /\ (fault' = fault \/ fault' = "mishap")
    BY <1>0, <1>21, <2>0, FetchFx
  <2>2. TaskOK(t)' BY <1>0, <2>1 DEF TaskOK
  <2>3. RowsOK' BY <1>0, <1>21, <2>1 DEF Fetch, RowsOK
  <2> QED BY <1>a, <2>1, <2>2, <2>3
<1>22. ASSUME NEW t \in Tasks, NEW s \in Symbols, Mark(t, s) PROVE Typed'
  <2>1. s \in task[t].todo /\ task[t].pc = "mark" BY <1>22 DEF Mark
  <2>2. \/ /\ WriteItem(s, Plain("running"))
           /\ task' = [task EXCEPT ![t].todo = @ \ {s}, ![t].targets = @ \cup {s}]
        \/ /\ WriteItem(s, Unmappable)
           /\ task' = [task EXCEPT ![t].todo = @ \ {s}]
    BY <1>22 DEF Mark
  <2>3. Moved(t) /\ TaskOK(t)' /\ ItemsOK' /\ fault' \in {fault, "mishap"}
    <3>1. CASE /\ WriteItem(s, Plain("running"))
               /\ task' = [task EXCEPT ![t].todo = @ \ {s}, ![t].targets = @ \cup {s}]
      BY <1>0, <2>1, <3>1, MarkFx DEF TaskOK
    <3>2. CASE /\ WriteItem(s, Unmappable)
               /\ task' = [task EXCEPT ![t].todo = @ \ {s}]
      BY <1>0, <2>1, <3>2, SkipFx DEF TaskOK
    <3> QED BY <2>2, <3>1, <3>2
  <2>4. RowsOK' BY <1>0, <1>22, <2>3 DEF Mark, RowsOK
  <2> QED BY <1>a, <2>3, <2>4
<1>23. ASSUME NEW t \in Tasks, MarkedAll(t) PROVE Typed'
  <2>1. Moved(t) /\ TaskOK(t)' BY <1>0, <1>23, GotoFx DEF MarkedAll, TaskOK, RunPc
  <2>2. RowsOK' BY <1>0, <1>23 DEF MarkedAll, RowsOK, Status
  <2> QED BY <1>23, <1>a, <1>b, <2>1, <2>2 DEF MarkedAll
<1>24. ASSUME NEW t \in Tasks, ReadDay(t) PROVE Typed'
  <2>1. Moved(t) /\ TaskOK(t)' BY <1>0, <1>24, GotoFx DEF ReadDay, TaskOK, RunPc
  <2>2. RowsOK' BY <1>0, <1>24 DEF ReadDay, RowsOK
  <2> QED BY <1>24, <1>a, <1>b, <2>1, <2>2 DEF ReadDay
<1>25. ASSUME NEW t \in Tasks, NEW pc \in {"day", "settle"}, DayDone(t, pc) PROVE Typed'
  <2>1. Moved(t) /\ TaskOK(t)' BY <1>0, <1>25, GotoFx DEF DayDone, TaskOK, RunPc
  <2>2. RowsOK' BY <1>0, <1>25 DEF DayDone, RowsOK, Status
  <2> QED BY <1>25, <1>a, <1>b, <2>1, <2>2 DEF DayDone
<1>26. ASSUME NEW t \in Tasks, NEW s \in Symbols, Settle(t, s) PROVE Typed'
  <2>1. PICK item :
           /\ Moved(t) /\ task[t].pc = "settle" /\ task'[t].pc = "settle"
           /\ task'[t].todo = task[t].todo /\ task'[t].symbol = task[t].symbol
           /\ ItemsOK'
    BY <1>0, <1>26, SettleFx
  <2>2. TaskOK(t)' BY <1>0, <2>1 DEF TaskOK
  <2>3. RowsOK' BY <1>0, <1>26 DEF Settle, RowsOK
  <2> QED BY <1>a, <2>1, <2>2, <2>3
<1>27. ASSUME NEW t \in Tasks, Count(t) PROVE Typed'
  <2>1. Moved(t) /\ TaskOK(t)' BY <1>0, <1>27, CountFx DEF Done, TaskOK
  <2>2. RowsOK' BY <1>0, <1>27 DEF Count, RowsOK
  <2> QED BY <1>27, <1>a, <1>b, <2>1, <2>2 DEF Count
<1>28. ASSUME NEW t \in Tasks, Erase(t) PROVE Typed'
  <2>1. Moved(t) /\ TaskOK(t)' BY <1>0, <1>28, GotoFx DEF Erase, TaskOK, RunPc
  <2>2. RowsOK' BY <1>0, <1>28 DEF Erase, RowsOK
  <2> QED BY <1>28, <1>a, <1>b, <2>1, <2>2 DEF Erase
<1>29. ASSUME NEW t \in Tasks, Insert(t) PROVE Typed'
  <2>1. Moved(t) /\ TaskOK(t)' BY <1>0, <1>29, GotoFx DEF Insert, TaskOK, RunPc
  <2>2. task[t].got \subseteq Symbols BY <1>0 DEF TasksOK, TaskState
  <2>3. RowsOK' BY <1>0, <1>29, <2>2 DEF Insert, RowsOK
  <2> QED BY <1>29, <1>a, <1>b, <2>1, <2>3 DEF Insert
<1>30. ASSUME NEW t \in Tasks, Report(t) PROVE Typed'
  <2>1. Moved(t) /\ task'[t] = Idle BY <1>0, <1>30, EndFx DEF Report
  <2>2. task[t].copy \in Status BY <1>0 DEF TasksOK, TaskState
  <2>3. RowsOK' BY <1>0, <1>30, <2>2 DEF Report, RowsOK
  <2> QED BY <1>30, <1>a, <1>b, <1>c, <2>1, <2>3 DEF Report
<1>31. ASSUME NEW t \in Tasks, Stop(t) PROVE Typed'
  <2>1. Moved(t) /\ task'[t] = Idle BY <1>0, <1>31, EndFx DEF Stop
  <2>2. RowsOK' BY <1>0, <1>31 DEF Stop, Worse, RowsOK
  <2> QED BY <1>31, <1>a, <1>b, <1>c, <2>1, <2>2 DEF Stop
<1>32. ASSUME NEW s \in Symbols, RetryTimeReached(s) PROVE Typed'
  <2>1. ItemsOK' BY <1>0, <1>32 DEF RetryTimeReached, ItemsOK, ItemOK, Item
  <2>2. RowsOK' BY <1>0, <1>32 DEF RetryTimeReached, RowsOK
  <2> QED BY <1>0, <1>32, <2>1, <2>2 DEF RetryTimeReached, Typed, TasksOK, TaskOK
<1>33. CASE UNCHANGED vars
  BY <1>0, <1>33 DEF vars, Typed, RowsOK, ItemsOK, TasksOK, TaskOK
<1> QED
  BY <1>1, <1>2, <1>3, <1>4, <1>5, <1>6, <1>7, <1>8, <1>9, <1>10, <1>11, <1>12, <1>13, <1>14,
     <1>16, <1>17, <1>18, <1>19, <1>20, <1>21, <1>22, <1>23, <1>24, <1>25, <1>26, <1>27, <1>28,
     <1>29, <1>30, <1>31, <1>32, <1>33 DEF Next, Proceed

\* Rows, items and tasks keep their types, and a task holds symbols only at the
\* steps that use them.
THEOREM TypeCorrect == Spec => [](TypeOK /\ StagesOK)
BY TypeInit, TypeStep, TypeParts, PTL DEF Spec

-----------------------------------------------------------------------------
(* No build is forgotten. *)

LEMMA AttendedStep == Typed /\ Attended /\ [Next]_vars => Attended'
<1> SUFFICES ASSUME Typed, Attended, [Next]_vars PROVE Attended'
  OBVIOUS
<1>0. RowsOK /\ ItemsOK /\ TasksOK /\ \A t \in Tasks : TaskOK(t) BY DEF Typed
<1>a. ASSUME NEW t \in Tasks, task'[t].pc \in {"configure", "create"} \cup RunPc PROVE Attended'
  BY <1>a DEF Attended, Creating, InRun
<1>b. ASSUME NEW t \in Tasks, Moved(t), task[t].pc \notin {"configure", "create"} \cup RunPc,
             status' = status, fault' = "none" => fault = "none"
      PROVE  Attended'
  BY <1>b DEF Attended, Creating, InRun, Moved
<1>c. ASSUME status' \in Final \/ fault' # "none" PROVE Attended'
  BY <1>c DEF Attended, Final
<1>1. ASSUME NEW t \in Tasks, StartBuild(t) \/ Configure(t) PROVE Attended'
  BY <1>0, <1>1, <1>a, GotoFx DEF StartBuild, Configure, CallPc
<1>2. ASSUME NEW t \in Tasks, CreateItems(t) \/ RetryRun(t) \/ Resume(t) PROVE Attended'
  BY <1>0, <1>2, <1>a, LaunchFx DEF CreateItems, RetryRun, Resume, RunPc
<1>3. ASSUME NEW t \in Tasks, Retry(t) PROVE Attended'
  BY <1>0, <1>3, <1>b, RetryFx DEF RunPc
<1>4. ASSUME NEW t \in Tasks, NEW s \in Symbols, RetryItem(t, s) PROVE Attended'
  <2>1. Moved(t) /\ task[t].pc = "retry" BY <1>0, <1>4, RetryItemFx
  <2> QED BY <1>4, <1>b, <2>1 DEF RetryItem, RunPc
<1>5. ASSUME NEW t \in Tasks, Cancel(t) PROVE Attended'
  <2>1. Moved(t) /\ task[t].pc = "idle" BY <1>0, <1>5, GotoFx DEF Cancel, CallPc
  <2> QED BY <1>5, <1>b, <2>1 DEF Cancel, RunPc
<1>6. ASSUME NEW t \in Tasks, WriteCancel(t) PROVE Attended'
  BY <1>6, <1>c DEF WriteCancel, Final
<1>7. ASSUME NEW t \in Tasks, ListCancel(t) PROVE Attended'
  <2>1. Moved(t) /\ task[t].pc = "listCancel" BY <1>0, <1>7, ListCancelFx DEF ListCancel
  <2> QED BY <1>7, <1>b, <2>1 DEF ListCancel, RunPc
<1>8. ASSUME NEW t \in Tasks, NEW s \in Symbols, CancelItem(t, s) PROVE Attended'
  <2>1. Moved(t) /\ task[t].pc = "cancelItems" /\ fault' \in {fault, "mishap"}
    BY <1>0, <1>8, CancelItemFx
  <2>2. status' = status BY <1>8 DEF CancelItem
  <2> QED BY <1>b, <2>1, <2>2 DEF RunPc
<1>9. ASSUME NEW t \in Tasks, Load(t) PROVE Attended'
  <2>1. CASE status \in {"canceled", "succeeded", "partial"}
    BY <1>9, <1>c, <2>1 DEF Load, Final
  <2>2. CASE Goto(t, "begin")
    BY <1>0, <1>a, <2>2, GotoFx DEF RunPc
  <2> QED BY <1>9, <2>1, <2>2 DEF Load
<1>10. ASSUME NEW t \in Tasks, NEW pc \in RunPc, Goto(t, pc) PROVE Attended'
  BY <1>0, <1>10, <1>a, GotoFx
<1>11. ASSUME NEW t \in Tasks, NEW pc \in {"day", "settle"}, DayDone(t, pc) PROVE Attended'
  BY <1>10, <1>11 DEF DayDone, RunPc
<1>12. ASSUME NEW t \in Tasks,
              Begin(t) \/ Touch(t) \/ MarkedAll(t) \/ ReadDay(t) \/ Erase(t) \/ Insert(t)
       PROVE  Attended'
  BY <1>10, <1>12 DEF Begin, Touch, MarkedAll, ReadDay, Erase, Insert, RunPc
<1>13. ASSUME NEW t \in Tasks, List(t) \/ Count(t) PROVE Attended'
  BY <1>0, <1>13, <1>a, ListFx, CountFx DEF RunPc
<1>14. ASSUME NEW t \in Tasks, NEW f \in {"none", "stop"}, FailRun(t, f) PROVE Attended'
  <2>1. status' = "failed" \/ fault' # "none" BY <1>0, <1>14, FailRunFx
  <2> QED BY <1>c, <2>1 DEF Final
<1>15. ASSUME NEW t \in Tasks, FailEarly(t) \/ NoDates(t) \/ AllFailed(t) PROVE Attended'
  BY <1>14, <1>15 DEF FailEarly, NoDates, AllFailed
<1>16. ASSUME NEW t \in Tasks, NEW s \in Symbols, Check(t, s) PROVE Attended'
  <2>1. task'[t].pc = "touch" BY <1>0, <1>16, CheckFx DEF RowsOK
  <2> QED BY <1>a, <2>1 DEF RunPc
<1>17. ASSUME NEW t \in Tasks, LeaveCanceled(t) PROVE Attended'
  BY <1>17, <1>c DEF LeaveCanceled, Final
<1>18. ASSUME NEW t \in Tasks, NEW s \in Symbols, SkipUnmapped(t, s) PROVE Attended'
  <2>1. task'[t].pc = "next" BY <1>0, <1>18, SkipFx DEF SkipUnmapped
  <2> QED BY <1>a, <2>1 DEF RunPc
<1>19. ASSUME NEW t \in Tasks, Fetch(t) PROVE Attended'
  <2>0. task[t].symbol \in Symbols BY <1>0, <1>19 DEF Fetch, TaskOK
  <2>1. task'[t].pc = "next" BY <1>0, <1>19, <2>0, FetchFx
  <2> QED BY <1>a, <2>1 DEF RunPc
<1>20. ASSUME NEW t \in Tasks, NEW s \in Symbols, Mark(t, s) PROVE Attended'
  <2>1. s \in task[t].todo /\ task[t].pc = "mark" BY <1>20 DEF Mark
  <2>2. \/ /\ WriteItem(s, Plain("running"))
           /\ task' = [task EXCEPT ![t].todo = @ \ {s}, ![t].targets = @ \cup {s}]
        \/ /\ WriteItem(s, Unmappable)
           /\ task' = [task EXCEPT ![t].todo = @ \ {s}]
    BY <1>20 DEF Mark
  <2>3. task'[t].pc = "mark" BY <1>0, <2>1, <2>2, MarkFx, SkipFx
  <2> QED BY <1>a, <2>3 DEF RunPc
<1>21. ASSUME NEW t \in Tasks, NEW s \in Symbols, Settle(t, s) PROVE Attended'
  <2>1. task'[t].pc = "settle" BY <1>0, <1>21, SettleFx
  <2> QED BY <1>a, <2>1 DEF RunPc
<1>22. ASSUME NEW t \in Tasks, Report(t) PROVE Attended'
  <2>1. status' \in {"succeeded", "partial"} BY <1>0, <1>22 DEF Report, TaskOK
  <2> QED BY <1>c, <2>1 DEF Final
<1>23. ASSUME NEW t \in Tasks, Stop(t) PROVE Attended'
  <2>1. fault' # "none" BY <1>23 DEF Stop, Worse
  <2> QED BY <1>c, <2>1
<1>24. ASSUME NEW s \in Symbols, RetryTimeReached(s) PROVE Attended'
  BY <1>24 DEF RetryTimeReached, Attended, Creating, InRun
<1>25. CASE UNCHANGED vars BY <1>25 DEF vars, Attended, Creating, InRun
<1> QED
  BY <1>1, <1>2, <1>3, <1>4, <1>5, <1>6, <1>7, <1>8, <1>9, <1>11, <1>12, <1>13, <1>15, <1>16,
     <1>17, <1>18, <1>19, <1>20, <1>21, <1>22, <1>23, <1>24, <1>25 DEF Next, Proceed

\* While nothing went wrong, a build that is queued or running has a task that
\* will end it, whatever calls of cancel and retry come in between.
THEOREM Remembered == Spec => []NotForgotten
<1>1. Init => Attended BY DEF Init, Attended
<1>2. Typed /\ Attended => NotForgotten BY DEF Attended, NotForgotten, Creating, InRun, RunPc
<1> QED BY <1>1, <1>2, TypeInit, TypeStep, AttendedStep, PTL DEF Spec

-----------------------------------------------------------------------------
(* The outcome of a build and what its pack covers. *)

Over == {"none", "succeeded", "partial"}

\* The parts of BuildInv, task by task and symbol by symbol.
TaskTrue(t) ==
  /\ Creating(t) => \A s \in Symbols : items[s].status = "ABSENT"
  /\ Running(t) \/ task[t].pc = "cancelItems" => \A s \in Symbols : items[s].status # "ABSENT"
  /\ Creating(t) \/ InRun(t) => status \notin Over
  /\ task[t].pc = "touch" => task[t].copy \notin Over
  /\ Listed(t) => \A s \in Symbols : items[s].status \in {"queued", "running"} => s \in Ahead(t)
  /\ Running(t) => \A s \in Ahead(t) : s \notin coverage /\ s \notin task[t].got
  /\ Running(t) => \A s \in task[t].got : items[s].status \in {"succeeded", "canceled"}
  /\ task[t].pc \in {"erase", "insert", "report"} => TrueOf(task[t].copy)

Apart ==
  \A t, u \in Tasks : (Creating(t) /\ Creating(u)) \/ (Running(t) /\ Running(u)) => t = u

RowsTrue ==
  /\ \A s, r \in Symbols : items[s].status = "ABSENT" => items[r].status = "ABSENT"
  /\ status = "none" => \A s \in Symbols : items[s].status = "ABSENT"
  /\ \A s \in coverage : items[s].status \in {"succeeded", "canceled"}

RestTrue ==
  (\A t \in Tasks : task[t].pc # "retry") /\ status \in {"succeeded", "partial"} =>
    /\ \A s \in Symbols : items[s].status \notin {"ABSENT", "queued", "running"}
    /\ TrueOf(status)

Good == (\A t \in Tasks : TaskTrue(t)) /\ Apart /\ RowsTrue /\ RestTrue

LEMMA GoodParts ==
  ASSUME Typed
  PROVE  Good <=> /\ Births /\ OneRunner /\ RunProgress /\ Reported
                  /\ coverage \subseteq With({"succeeded", "canceled"})
<1>0. coverage \subseteq Symbols /\ \A t \in Tasks : task[t].got \subseteq Symbols
  BY DEF Typed, RowsOK, TasksOK, TaskState
<1>1. Reported <=> RestTrue BY DEF Reported, RestTrue, With
<1>2. RunProgress <=>
        \A t \in Tasks :
          /\ Listed(t) =>
               \A s \in Symbols : items[s].status \in {"queued", "running"} => s \in Ahead(t)
          /\ Running(t) => \A s \in Ahead(t) : s \notin coverage /\ s \notin task[t].got
          /\ Running(t) => \A s \in task[t].got : items[s].status \in {"succeeded", "canceled"}
          /\ task[t].pc \in {"erase", "insert", "report"} => TrueOf(task[t].copy)
  <2>1. ASSUME NEW t \in Tasks
        PROVE  /\ With({"queued", "running"}) \subseteq Ahead(t) <=>
                    \A s \in Symbols : items[s].status \in {"queued", "running"} => s \in Ahead(t)
               /\ Ahead(t) \cap (coverage \cup task[t].got) = {} <=>
                    \A s \in Ahead(t) : s \notin coverage /\ s \notin task[t].got
               /\ task[t].got \subseteq With({"succeeded", "canceled"}) <=>
                    \A s \in task[t].got : items[s].status \in {"succeeded", "canceled"}
    <3>1. With({"queued", "running"}) \subseteq Ahead(t) <=>
            \A s \in Symbols : items[s].status \in {"queued", "running"} => s \in Ahead(t)
      BY DEF With
    <3>2. Ahead(t) \cap (coverage \cup task[t].got) = {} <=>
            \A s \in Ahead(t) : s \notin coverage /\ s \notin task[t].got
      OBVIOUS
    <3>3. task[t].got \subseteq With({"succeeded", "canceled"}) <=>
            \A s \in task[t].got : items[s].status \in {"succeeded", "canceled"}
      BY <1>0 DEF With
    <3> QED BY <3>1, <3>2, <3>3
  <2> QED BY <2>1 DEF RunProgress
<1>3. coverage \subseteq With({"succeeded", "canceled"}) <=>
        \A s \in coverage : items[s].status \in {"succeeded", "canceled"}
  BY <1>0 DEF With
<1>4. Births /\ OneRunner <=>
        /\ \A s, r \in Symbols : items[s].status = "ABSENT" => items[r].status = "ABSENT"
        /\ status = "none" => \A s \in Symbols : items[s].status = "ABSENT"
        /\ \A t \in Tasks :
             /\ Creating(t) => \A s \in Symbols : items[s].status = "ABSENT"
             /\ Running(t) \/ task[t].pc = "cancelItems" =>
                  \A s \in Symbols : items[s].status # "ABSENT"
             /\ Creating(t) \/ InRun(t) => status \notin Over
             /\ task[t].pc = "touch" => task[t].copy \notin Over
        /\ Apart
  BY DEF Births, OneRunner, Apart, Over
<1> HIDE DEF Births, OneRunner
<1> QED BY <1>1, <1>2, <1>3, <1>4 DEF Good, RowsTrue, TaskTrue

LEMMA IdleTrue == ASSUME NEW t \in Tasks, task[t] = Idle PROVE TaskTrue(t)
BY IdleFx DEF TaskTrue, Creating, InRun, Running, Listed, RunPc

\* Task t keeps out of the others' way.
Alone(t) ==
  /\ Creating(t)' => Creating(t) \/ \A u \in Tasks : u # t => ~Creating(u)
  /\ Running(t)' => Running(t) \/ \A u \in Tasks : u # t => ~Running(u)

LEMMA StillApart ==
  ASSUME Apart, NEW t \in Tasks, Moved(t), Alone(t)
  PROVE  Apart'
BY DEF Apart, Moved, Alone, Creating, Running

\* Steps that change no row.
LEMMA OnlyTask ==
  ASSUME Good, NEW t \in Tasks, Moved(t), Alone(t), UNCHANGED <<status, items, coverage>>,
         task[t].pc = "retry" => task'[t].pc = "retry", TaskTrue(t)'
  PROVE  Good'
<1>1. Apart' BY StillApart DEF Good
<1>2. ASSUME NEW u \in Tasks, u # t PROVE TaskTrue(u)'
  <2>1. task'[u] = task[u] /\ TaskTrue(u) BY <1>2 DEF Moved, Good
  <2> QED BY <2>1 DEF TaskTrue, Creating, InRun, Running, Listed, Ahead, TrueOf, With
<1>3. RowsTrue' BY DEF Good, RowsTrue
<1>4. RestTrue' BY DEF Good, RestTrue, Moved, TrueOf, With
<1> QED BY <1>1, <1>2, <1>3, <1>4 DEF Good

\* Steps that only write the job's status, and not as it ends.
LEMMA OnlyStatus ==
  ASSUME Good, NEW t \in Tasks, Moved(t), Alone(t), UNCHANGED <<items, coverage>>,
         status' \notin Over, TaskTrue(t)'
  PROVE  Good'
<1>1. Apart' BY StillApart DEF Good
<1>2. ASSUME NEW u \in Tasks, u # t PROVE TaskTrue(u)'
  <2>1. task'[u] = task[u] /\ TaskTrue(u) BY <1>2 DEF Moved, Good
  <2> QED BY <2>1 DEF TaskTrue, Creating, InRun, Running, Listed, Ahead, TrueOf, With
<1>3. RowsTrue' BY DEF Good, RowsTrue, Over
<1>4. RestTrue' BY DEF RestTrue, Over
<1> QED BY <1>1, <1>2, <1>3, <1>4 DEF Good

\* Steps of a run or a retry that write an item it has before it.
LEMMA OnlyItem ==
  ASSUME Good, coverage \subseteq Symbols, NEW t \in Tasks, Moved(t), Running(t), Running(t)', ~Creating(t)',
         InRun(t) \/ task'[t].pc = "retry",
         NEW s \in Symbols, s \in Ahead(t), NEW item, Became(s, item), item.status # "ABSENT",
         UNCHANGED <<status, coverage>>, TaskTrue(t)'
  PROVE  Good'
<1>1. Apart' BY StillApart DEF Good, Alone
<1>2. \A r \in Symbols : items[r].status # "ABSENT" /\ items'[r].status # "ABSENT"
  BY DEF Good, TaskTrue, Became
<1>3. ASSUME NEW u \in Tasks, u # t PROVE TaskTrue(u)'
  <2>1. task'[u] = task[u] /\ TaskTrue(u) /\ ~Running(u) BY <1>3 DEF Moved, Good, Apart
  <2>2. ~Creating(u) BY <1>2, <2>1 DEF TaskTrue
  <2>3. ~Creating(u)' /\ ~Running(u)' BY <2>1, <2>2 DEF Creating, Running
  <2> QED BY <1>2, <2>3 DEF TaskTrue, Creating, InRun, Running, Listed, RunPc
<1>4. RowsTrue'
  <2>1. s \notin coverage BY DEF Good, TaskTrue
  <2>2. status # "none" BY <1>2 DEF Good, RowsTrue
  <2>3. \A r \in coverage : items'[r] = items[r] BY <2>1 DEF Became
  <2>4. \A r \in coverage : items'[r].status \in {"succeeded", "canceled"}
    BY <2>3 DEF Good, RowsTrue
  <2> QED BY <1>2, <2>2, <2>4 DEF RowsTrue
<1>5. RestTrue'
  <2>1. InRun(t) => status \notin {"succeeded", "partial"} BY DEF Good, TaskTrue, Over
  <2> QED BY <2>1 DEF RestTrue
<1> QED BY <1>1, <1>3, <1>4, <1>5 DEF Good

LEMMA NotOver ==
  ASSUME NEW st \in {"queued", "running", "failed", "canceled"}
  PROVE  st \notin Over
BY DEF Over

\* Steps of a run or a retry that move and change no row keep what is true of
\* the task if what is ahead of it and what it has got stay.
LEMMA StillTrue ==
  ASSUME NEW t \in Tasks, TaskTrue(t), UNCHANGED <<items, coverage>>, InRun(t), InRun(t)',
         Listed(t)' => Listed(t),
         task'[t].todo = task[t].todo, task'[t].targets = task[t].targets,
         task'[t].symbol = task[t].symbol, task'[t].got = task[t].got,
         status' \notin Over, task'[t].pc # "touch",
         task'[t].pc \in {"erase", "insert", "report"} =>
           task[t].pc \in {"erase", "insert", "report"} /\ task'[t].copy = task[t].copy
  PROVE  TaskTrue(t)'
<1>1. Ahead(t)' = Ahead(t) BY DEF Ahead
<1>2. task[t].pc \in RunPc /\ task'[t].pc \in RunPc BY DEF InRun
<1>3. ~Creating(t)' /\ Running(t) /\ Running(t)' /\ task'[t].pc # "cancelItems"
  BY <1>2 DEF Creating, Running, RunPc
<1> QED BY <1>1, <1>3 DEF TaskTrue, TrueOf, With

\* Steps of the calls.
LEMMA CallSteps ==
  ASSUME Typed, Good, NEW t \in Tasks, fault' # "mishap", ~overlapped'
  PROVE  /\ StartBuild(t) \/ Configure(t) \/ CreateItems(t) => Good'
         /\ Retry(t) \/ RetryRun(t) \/ Resume(t) => Good'
         /\ \A s \in Symbols : RetryItem(t, s) => Good'
         /\ Cancel(t) \/ WriteCancel(t) \/ ListCancel(t) => Good'
         /\ \A s \in Symbols : CancelItem(t, s) => Good'
<1>0. /\ RowsOK /\ ItemsOK /\ TasksOK /\ \A u \in Tasks : TaskOK(u)
      /\ TaskTrue(t) /\ Apart /\ RowsTrue /\ RestTrue
  BY DEF Typed, Good
<1>1. ASSUME StartBuild(t) PROVE Good'
  <2>1. /\ Moved(t) /\ task'[t].pc = "configure" /\ status' = "queued"
        /\ UNCHANGED <<items, coverage>> /\ status = "none"
    BY <1>0, <1>1, GotoFx DEF StartBuild, CallPc
  <2>2. \A s \in Symbols : items[s].status = "ABSENT" BY <1>0, <2>1 DEF RowsTrue
  <2>3. \A u \in Tasks : ~Creating(u) BY <2>1 DEF Good, TaskTrue, Over
  <2>4. Alone(t) BY <2>1, <2>3 DEF Alone, Running, RunPc
  <2>5. TaskTrue(t)'
    BY <2>1, <2>2, NotOver DEF TaskTrue, Creating, Running, Listed, InRun, RunPc
  <2> QED BY <2>1, <2>4, <2>5, NotOver, OnlyStatus
<1>2. ASSUME Configure(t) PROVE Good'
  <2>1. /\ Moved(t) /\ task'[t].pc = "create" /\ status' = "queued"
        /\ UNCHANGED <<items, coverage>> /\ Creating(t)
    BY <1>0, <1>2, GotoFx DEF Configure, CallPc, Creating
  <2>2. \A s \in Symbols : items[s].status = "ABSENT" BY <1>0, <2>1 DEF TaskTrue
  <2>4. Alone(t) BY <2>1 DEF Alone, Running, RunPc
  <2>5. TaskTrue(t)'
    BY <2>1, <2>2, NotOver DEF TaskTrue, Creating, Running, Listed, InRun, RunPc
  <2> QED BY <2>1, <2>4, <2>5, NotOver, OnlyStatus
<1>3. ASSUME CreateItems(t) PROVE Good'
  <2>1. /\ Moved(t) /\ task'[t].pc = "load" /\ task'[t].todo = {} /\ task'[t].targets = {}
        /\ task'[t].symbol = NoSymbol /\ task'[t].got = {}
        /\ \A u \in Tasks : u # t => ~Running(u)
        /\ UNCHANGED <<status, coverage>> /\ Creating(t)
        /\ items' = [s \in Symbols |-> Plain("queued")]
    BY <1>0, <1>3, LaunchFx DEF CreateItems, Creating
  <2>2. \A s \in Symbols : items[s].status = "ABSENT" BY <1>0, <2>1 DEF TaskTrue
  <2>3. \A s \in Symbols : items'[s].status = "queued" BY <2>1, ItemFx DEF ItemStatus
  <2>4. coverage = {} BY <1>0, <2>2 DEF RowsTrue, RowsOK
  <2>5. status \notin Over BY <1>0, <2>1 DEF TaskTrue
  <2>6. Apart' BY <1>0, <2>1, StillApart DEF Alone, Creating
  <2>7. TaskTrue(t)'
    BY <2>1, <2>3, <2>5 DEF TaskTrue, Creating, Running, Listed, InRun, RunPc, Ahead
  <2>8. ASSUME NEW u \in Tasks, u # t PROVE TaskTrue(u)'
    <3>1. task'[u] = task[u] /\ ~Running(u) /\ ~Creating(u)
      BY <1>0, <2>1, <2>8 DEF Moved, Apart
    <3> QED BY <2>3, <3>1 DEF TaskTrue, Creating, Running, Listed, InRun, RunPc
  <2>9. RowsTrue' /\ RestTrue' BY <2>1, <2>3, <2>4, <2>5 DEF RowsTrue, RestTrue, Over
  <2> QED BY <2>6, <2>7, <2>8, <2>9 DEF Good
<1>4. ASSUME Retry(t) PROVE Good'
  <2>1. /\ Moved(t) /\ task[t].pc = "idle" /\ task'[t].pc = "retry"
        /\ task'[t].todo # {} /\ task'[t].todo \subseteq With({"failed"})
        /\ task'[t].targets = task[t].targets /\ task'[t].symbol = task[t].symbol
        /\ task'[t].got = task[t].got
        /\ \A u \in Tasks : u # t => ~Running(u)
        /\ UNCHANGED <<status, items, coverage>>
    BY <1>0, <1>4, RetryFx
  <2>2. Ahead(t)' \subseteq With({"failed"}) /\ task'[t].got = {}
    BY <1>0, <2>1 DEF Ahead, TaskOK
  <2>3. \A s \in Symbols : items[s].status # "ABSENT" BY <1>0, <2>1 DEF With, RowsTrue
  <2>4. \A s \in Ahead(t)' : s \notin coverage BY <1>0, <2>2 DEF With, RowsTrue
  <2>5. TaskTrue(t)'
    BY <2>1, <2>2, <2>3, <2>4 DEF TaskTrue, Creating, Running, Listed, InRun, RunPc
  <2>6. Alone(t) BY <2>1 DEF Alone, Creating
  <2> QED BY <2>1, <2>5, <2>6, OnlyTask
<1>5. ASSUME NEW s \in Symbols, RetryItem(t, s) PROVE Good'
  <2>1. /\ Moved(t) /\ task[t].pc = "retry" /\ task'[t].pc = "retry"
        /\ s \in task[t].todo /\ task'[t].todo = task[t].todo \ {s}
        /\ task'[t].targets = task[t].targets /\ task'[t].symbol = task[t].symbol
        /\ task'[t].got = task[t].got /\ Became(s, Plain("queued"))
        /\ UNCHANGED <<status, coverage>>
    BY <1>0, <1>5, RetryItemFx DEF RetryItem
  <2>2. Plain("queued").status = "queued" BY ItemFx DEF ItemStatus
  <2>3. Running(t) /\ Running(t)' /\ ~Creating(t)' BY <2>1 DEF Running, Creating
  <2>4. s \in Ahead(t) /\ Ahead(t)' \subseteq Ahead(t) /\ task'[t].got = {}
    BY <1>0, <2>1 DEF Ahead, TaskOK
  <2>5. \A r \in Symbols : items'[r].status # "ABSENT"
    BY <1>0, <2>1, <2>2, <2>3 DEF TaskTrue, Became
  <2>6. TaskTrue(t)'
    BY <1>0, <2>1, <2>3, <2>4, <2>5 DEF TaskTrue, Creating, Listed, InRun, RunPc
  <2> QED BY <1>0, <2>1, <2>2, <2>3, <2>4, <2>6, OnlyItem DEF RowsOK
<1>6. ASSUME Launch(t), UNCHANGED <<items, coverage>>,
             status' \notin Over, \A s \in Symbols : items[s].status # "ABSENT"
      PROVE  Moved(t) /\ Alone(t) /\ TaskTrue(t)' /\ task'[t].pc = "load"
  <2>1. /\ Moved(t) /\ task'[t].pc = "load" /\ task'[t].todo = {} /\ task'[t].targets = {}
        /\ task'[t].symbol = NoSymbol /\ task'[t].got = {}
        /\ \A u \in Tasks : u # t => ~Running(u)
    BY <1>0, <1>6, LaunchFx
  <2>2. TaskTrue(t)'
    BY <1>6, <2>1 DEF TaskTrue, Creating, Running, Listed, InRun, RunPc, Ahead
  <2>3. Alone(t) BY <2>1 DEF Alone, Creating
  <2> QED BY <2>1, <2>2, <2>3
<1>7. ASSUME RetryRun(t) PROVE Good'
  <2>1. /\ Launch(t) /\ status' = "queued" /\ task[t].pc = "retry"
        /\ UNCHANGED <<items, coverage>>
    BY <1>7 DEF RetryRun
  <2>2. \A s \in Symbols : items[s].status # "ABSENT" BY <1>0, <2>1 DEF TaskTrue, Running
  <2> QED BY <1>6, <2>1, <2>2, NotOver, OnlyStatus
<1>8. ASSUME Resume(t) PROVE Good'
  <2>1. /\ Launch(t) /\ status \in {"queued", "running"} /\ task[t].pc = "idle"
        /\ UNCHANGED <<status, items, coverage>> /\ With({"ABSENT"}) = {}
    BY <1>8 DEF Resume
  <2>2. \A s \in Symbols : items[s].status # "ABSENT" BY <2>1 DEF With
  <2>3. status \notin Over BY <2>1, NotOver
  <2>4. Moved(t) /\ Alone(t) /\ TaskTrue(t)' BY <1>6, <2>1, <2>2, <2>3
  <2> QED BY <2>1, <2>4, OnlyTask
<1>9. ASSUME Cancel(t) PROVE Good'
  <2>1. /\ Moved(t) /\ task'[t].pc = "cancel" /\ task[t].pc = "idle"
        /\ UNCHANGED <<status, items, coverage>>
    BY <1>0, <1>9, GotoFx DEF Cancel, CallPc
  <2>2. Alone(t) /\ TaskTrue(t)'
    BY <2>1 DEF Alone, TaskTrue, Creating, Running, Listed, InRun, RunPc
  <2> QED BY <2>1, <2>2, OnlyTask
<1>10. ASSUME WriteCancel(t) PROVE Good'
  <2>1. /\ Moved(t) /\ task'[t].pc = "listCancel" /\ status' = "canceled"
        /\ UNCHANGED <<items, coverage>>
    BY <1>0, <1>10, GotoFx DEF WriteCancel, CallPc
  <2>2. Alone(t) /\ TaskTrue(t)'
    BY <2>1 DEF Alone, TaskTrue, Creating, Running, Listed, InRun, RunPc
  <2> QED BY <2>1, <2>2, NotOver, OnlyStatus
<1>11. ASSUME ListCancel(t) PROVE Good'
  <2>1. /\ Moved(t) /\ task[t].pc = "listCancel" /\ UNCHANGED <<status, items, coverage>>
        /\ \/ task'[t] = Idle
           \/ /\ task'[t].pc = "cancelItems" /\ task'[t].todo = With({"queued", "running", "failed"})
              /\ task'[t].todo # {}
    BY <1>0, <1>11, ListCancelFx DEF ListCancel
  <2>2. CASE task'[t] = Idle
    <3>1. Alone(t) BY <2>2, IdleFx DEF Alone, Creating, Running, RunPc
    <3>2. TaskTrue(t)' BY <2>2, IdleFx DEF TaskTrue, Creating, Running, Listed, InRun, RunPc
    <3> QED BY <2>1, <3>1, <3>2, OnlyTask
  <2>3. CASE task'[t].pc = "cancelItems" /\ task'[t].todo = With({"queued", "running", "failed"})
             /\ task'[t].todo # {}
    <3>1. \A s \in Symbols : items[s].status # "ABSENT" BY <1>0, <2>3 DEF With, RowsTrue
    <3>2. Alone(t) BY <2>3 DEF Alone, Creating, Running, RunPc
    <3>3. TaskTrue(t)'
      BY <2>1, <2>3, <3>1 DEF TaskTrue, Creating, Running, Listed, InRun, RunPc
    <3> QED BY <2>1, <3>2, <3>3, OnlyTask
  <2> QED BY <2>1, <2>2, <2>3
<1>12. ASSUME NEW s \in Symbols, CancelItem(t, s) PROVE Good'
  <2>1. /\ Moved(t) /\ task[t].pc = "cancelItems" /\ Became(s, Plain("canceled"))
        /\ task'[t] = Idle \/ task'[t].pc = "cancelItems"
        /\ UNCHANGED <<status, coverage>>
    BY <1>0, <1>12, CancelItemFx DEF CancelItem
  <2>2. /\ items'[s].status = "canceled" /\ \A r \in Symbols : r # s => items'[r] = items[r]
    BY <2>1, ItemFx DEF Became, ItemStatus
  <2>3. \A r \in Symbols : items[r].status # "ABSENT" /\ items'[r].status # "ABSENT"
    BY <1>0, <2>1, <2>2 DEF TaskTrue
  <2>4. /\ With({"failed"}) = {} => With({"failed"})' = {}
        /\ With({"failed", "canceled"}) # {} => With({"failed", "canceled"})' # {}
    BY <2>2 DEF With
  <2>5. ASSUME NEW u \in Tasks, u # t PROVE TaskTrue(u)'
    <3>1. task'[u] = task[u] /\ TaskTrue(u) BY <2>1, <2>5 DEF Moved, Good
    <3>2. ~Creating(u) BY <2>3, <3>1 DEF TaskTrue
    <3>3. task[u].got \subseteq Symbols BY <1>0 DEF TasksOK, TaskState
    <3>4. Running(u) => \A r \in task[u].got : items'[r].status \in {"succeeded", "canceled"}
      BY <2>2, <3>1, <3>3 DEF TaskTrue
    <3>5. Listed(u) =>
            \A r \in Symbols : items'[r].status \in {"queued", "running"} => r \in Ahead(u)
      BY <2>2, <3>1 DEF TaskTrue
    <3>6. /\ Ahead(u)' = Ahead(u) /\ Running(u)' = Running(u) /\ Listed(u)' = Listed(u)
          /\ Creating(u)' = Creating(u) /\ InRun(u)' = InRun(u)
      BY <3>1 DEF Ahead, Running, Listed, Creating, InRun
    <3>8. task[u].pc \in {"erase", "insert", "report"} => TrueOf(task[u].copy)'
      BY <2>4, <3>1 DEF TaskTrue, TrueOf
    <3> QED BY <2>1, <2>3, <3>1, <3>2, <3>4, <3>5, <3>6, <3>8 DEF TaskTrue
  <2>6. TaskTrue(t)'
    BY <2>1, <2>3, IdleFx DEF TaskTrue, Creating, Running, Listed, InRun, RunPc
  <2>7. Apart'
    BY <1>0, <2>1, StillApart, IdleFx DEF Alone, Creating, Running, RunPc
  <2>8. RowsTrue'
    <3>1. \A r \in coverage : items'[r].status \in {"succeeded", "canceled"}
      BY <1>0, <2>2 DEF RowsTrue, RowsOK
    <3>2. status # "none" BY <1>0, <2>3 DEF RowsTrue
    <3> QED BY <2>1, <2>3, <3>1, <3>2 DEF RowsTrue
  <2>9. RestTrue'
    <3>1. (\A u \in Tasks : task'[u].pc # "retry") => \A u \in Tasks : task[u].pc # "retry"
      BY <2>1 DEF Moved
    <3>2. TrueOf(status) => TrueOf(status)' BY <2>1, <2>4 DEF TrueOf
    <3>4. (\A r \in Symbols : items[r].status \notin {"ABSENT", "queued", "running"}) =>
            \A r \in Symbols : items'[r].status \notin {"ABSENT", "queued", "running"}
      BY <2>2
    <3> QED BY <1>0, <2>1, <3>1, <3>2, <3>4 DEF RestTrue
  <2> QED BY <2>5, <2>6, <2>7, <2>8, <2>9 DEF Good
<1> QED
  BY <1>1, <1>2, <1>3, <1>4, <1>5, <1>7, <1>8, <1>9, <1>10, <1>11, <1>12

\* Steps of a run that write no item and do not install.
LEMMA RunSteps ==
  ASSUME Typed, Good, NEW t \in Tasks, fault' # "mishap", ~overlapped'
  PROVE  /\ Load(t) \/ Begin(t) \/ List(t) \/ LeaveCanceled(t) \/ Touch(t) => Good'
         /\ MarkedAll(t) \/ ReadDay(t) \/ Count(t) => Good'
         /\ \A pc \in {"day", "settle"} : DayDone(t, pc) => Good'
         /\ FailEarly(t) \/ NoDates(t) \/ AllFailed(t) \/ Stop(t) => Good'
<1>0. /\ RowsOK /\ ItemsOK /\ TasksOK /\ \A u \in Tasks : TaskOK(u)
      /\ TaskTrue(t) /\ Apart /\ RowsTrue /\ RestTrue
  BY DEF Typed, Good
<1>a. ASSUME Moved(t), task'[t] = Idle, task[t].pc # "retry", UNCHANGED <<status, items, coverage>>
      PROVE  Good'
  <2>1. Alone(t) BY <1>a, IdleFx DEF Alone, Creating, Running, RunPc
  <2>2. TaskTrue(t)' BY <1>a, IdleFx DEF TaskTrue, Creating, Running, Listed, InRun, RunPc
  <2> QED BY <1>a, <2>1, <2>2, OnlyTask
<1>b. ASSUME NEW pc \in RunPc, InRun(t), Goto(t, pc), UNCHANGED <<items, coverage>>,
             status' \notin Over, pc # "touch", Listed(t)' => Listed(t),
             pc \notin {"erase", "insert", "report"}
      PROVE  Good'
  <2>1. /\ Moved(t) /\ task'[t].pc = pc
        /\ task'[t].todo = task[t].todo /\ task'[t].targets = task[t].targets
        /\ task'[t].symbol = task[t].symbol /\ task'[t].got = task[t].got
    BY <1>0, <1>b, GotoFx
  <2>2. InRun(t)' BY <2>1 DEF InRun
  <2>3. TaskTrue(t)' BY <1>0, <1>b, <2>1, <2>2, StillTrue
  <2>4. Alone(t) BY <1>b, <2>1 DEF Alone, Creating, Running, InRun, RunPc
  <2> QED BY <1>b, <2>1, <2>3, <2>4, OnlyStatus
<1>1. ASSUME Load(t) PROVE Good'
  <2>1. task[t].pc = "load" /\ UNCHANGED <<status, items, coverage>> BY <1>1 DEF Load
  <2>2. CASE End(t)
    <3>1. Moved(t) /\ task'[t] = Idle BY <1>0, <2>2, EndFx
    <3> QED BY <1>a, <2>1, <3>1
  <2>3. CASE Goto(t, "begin")
    <3>1. InRun(t) BY <2>1 DEF InRun, RunPc
    <3>2. status \notin Over BY <1>0, <3>1 DEF TaskTrue
    <3>3. task'[t].pc = "begin" BY <1>0, <2>3, GotoFx DEF RunPc
    <3> QED BY <1>b, <2>1, <2>3, <3>1, <3>2, <3>3 DEF Listed, RunPc
  <2> QED BY <1>1, <2>2, <2>3 DEF Load
<1>2. ASSUME Begin(t) PROVE Good'
  <2>1. /\ task[t].pc = "begin" /\ UNCHANGED <<items, coverage>> /\ status' = "running"
        /\ Goto(t, "list")
    BY <1>2 DEF Begin
  <2>2. InRun(t) /\ status' \notin Over BY <2>1, NotOver DEF InRun, RunPc
  <2>3. task'[t].pc = "list" BY <1>0, <2>1, GotoFx DEF RunPc
  <2> QED BY <1>b, <2>1, <2>2, <2>3 DEF Listed, RunPc
<1>3. ASSUME List(t) PROVE Good'
  <2>1. /\ Moved(t) /\ task[t].pc = "list" /\ task'[t].pc \in {"mark", "next"}
        /\ task'[t].todo = {s \in Symbols : Open(s)}
        /\ task'[t].targets = task[t].targets /\ task'[t].symbol = task[t].symbol
        /\ task'[t].got = task[t].got
        /\ UNCHANGED <<status, items, coverage>>
    BY <1>0, <1>3, ListFx DEF List
  <2>2. /\ InRun(t) /\ Running(t) /\ InRun(t)' /\ Running(t)' /\ ~Creating(t)'
        /\ task'[t].pc \notin {"cancelItems", "touch", "erase", "insert", "report"}
    BY <2>1 DEF InRun, Running, Creating, RunPc
  <2>3. task'[t].targets = {} /\ task'[t].symbol = NoSymbol /\ task'[t].got = {}
    BY <1>0, <2>1 DEF TaskOK
  <2>4. Ahead(t)' = {s \in Symbols : Open(s)} BY <2>1, <2>3 DEF Ahead
  <2>5. \A s \in Symbols : items[s].status # "ABSENT" BY <1>0, <2>2 DEF TaskTrue
  <2>6. \A s \in Symbols : items[s].status \in {"queued", "running"} => s \in Ahead(t)'
    <3>1. \A s \in Symbols : items[s].later => items[s].status = "failed"
      BY <1>0 DEF ItemsOK, ItemOK
    <3> QED BY <2>4, <3>1 DEF Open
  <2>7. \A s \in Ahead(t)' : s \notin coverage
    BY <1>0, <2>4 DEF Open, RowsTrue
  <2>8. TaskTrue(t)'
    <3>1. status \notin Over BY <1>0, <2>2 DEF TaskTrue
    <3> QED BY <2>1, <2>2, <2>3, <2>5, <2>6, <2>7, <3>1 DEF TaskTrue
  <2>9. Alone(t) BY <2>2 DEF Alone
  <2> QED BY <2>1, <2>8, <2>9, OnlyTask
<1>4. ASSUME LeaveCanceled(t) PROVE Good'
  <2>1. Moved(t) /\ task'[t] = Idle BY <1>0, <1>4, EndFx DEF LeaveCanceled
  <2> QED BY <1>4, <1>a, <2>1 DEF LeaveCanceled
<1>5. ASSUME Touch(t) PROVE Good'
  <2>1. /\ task[t].pc = "touch" /\ UNCHANGED <<items, coverage>> /\ Goto(t, "fetch")
        /\ status' \in {status, task[t].copy}
    BY <1>5 DEF Touch
  <2>2. InRun(t) /\ status' \notin Over BY <1>0, <2>1 DEF InRun, RunPc, TaskTrue
  <2> QED BY <1>b, <2>1, <2>2 DEF Listed, RunPc
<1>6. ASSUME MarkedAll(t) PROVE Good'
  <2>1. /\ task[t].pc = "mark" /\ UNCHANGED <<items, coverage>> /\ status' = "running"
        /\ Goto(t, "day")
    BY <1>6 DEF MarkedAll
  <2>2. InRun(t) /\ status' \notin Over BY <2>1, NotOver DEF InRun, RunPc
  <2> QED BY <1>b, <2>1, <2>2 DEF Listed, RunPc
<1>7. ASSUME ReadDay(t) PROVE Good'
  <2>1. /\ task[t].pc = "day" /\ UNCHANGED <<status, items, coverage>> /\ Goto(t, "dayDone")
    BY <1>7 DEF ReadDay
  <2>2. InRun(t) BY <2>1 DEF InRun, RunPc
  <2>3. status \notin Over BY <1>0, <2>2 DEF TaskTrue
  <2> QED BY <1>b, <2>1, <2>2, <2>3 DEF Listed, RunPc
<1>8. ASSUME NEW pc \in {"day", "settle"}, DayDone(t, pc) PROVE Good'
  <2>1. /\ task[t].pc = "dayDone" /\ UNCHANGED <<items, coverage>> /\ status' = "running"
        /\ Goto(t, pc)
    BY <1>8 DEF DayDone
  <2>2. InRun(t) /\ status' \notin Over BY <2>1, NotOver DEF InRun, RunPc
  <2> QED BY <1>b, <2>1, <2>2 DEF Listed, RunPc
<1>9. ASSUME Count(t) PROVE Good'
  <2>1. /\ Moved(t) /\ task'[t].pc = "erase" /\ Done(t)
        /\ task'[t].todo = task[t].todo /\ task'[t].targets = task[t].targets
        /\ task'[t].symbol = task[t].symbol /\ task'[t].got = task[t].got
        /\ task'[t].copy = Outcome
        /\ UNCHANGED <<status, items, coverage>>
    BY <1>0, <1>9, CountFx DEF Count
  <2>2. task[t].pc \in {"next", "settle"} BY <2>1 DEF Done
  <2>3. /\ InRun(t) /\ Running(t) /\ InRun(t)' /\ Running(t)' /\ ~Creating(t)' /\ Listed(t)
    BY <2>1, <2>2 DEF InRun, Running, Creating, Listed, RunPc
  <2>4. Ahead(t)' = Ahead(t) BY <2>1 DEF Ahead
  <2>5. TrueOf(Outcome) BY DEF TrueOf, Outcome, With
  <2>6. TrueOf(task[t].copy)' BY <2>1, <2>5 DEF TrueOf, With
  <2>7. TaskTrue(t)' BY <1>0, <2>1, <2>3, <2>4, <2>6 DEF TaskTrue
  <2>8. Alone(t) BY <2>3 DEF Alone
  <2> QED BY <2>1, <2>2, <2>7, <2>8, OnlyTask
<1>10. ASSUME NEW f \in {"none", "stop"}, FailRun(t, f), task[t].pc # "retry" PROVE Good'
  <2>1. /\ Moved(t) /\ task'[t] = Idle /\ UNCHANGED <<items, coverage>>
        /\ status' = "failed" \/ status' = status
    BY <1>0, <1>10, FailRunFx
  <2>2. CASE status' = status BY <1>10, <1>a, <2>1, <2>2
  <2>3. CASE status' = "failed"
    <3>1. Alone(t) BY <2>1, IdleFx DEF Alone, Creating, Running, RunPc
    <3>2. TaskTrue(t)' BY <2>1, IdleFx DEF TaskTrue, Creating, Running, Listed, InRun, RunPc
    <3> QED BY <2>1, <2>3, <3>1, <3>2, NotOver, OnlyStatus
  <2> QED BY <2>1, <2>2, <2>3
<1>11. ASSUME FailEarly(t) \/ NoDates(t) \/ AllFailed(t) PROVE Good'
  BY <1>10, <1>11 DEF FailEarly, NoDates, AllFailed, Done
<1>12. ASSUME Stop(t) PROVE Good'
  <2>1. /\ Moved(t) /\ task'[t] = Idle /\ task[t].pc # "retry"
        /\ UNCHANGED <<status, items, coverage>>
    BY <1>0, <1>12, EndFx DEF Stop
  <2> QED BY <1>a, <2>1
<1> QED
  BY <1>1, <1>2, <1>3, <1>4, <1>5, <1>6, <1>7, <1>8, <1>9, <1>11, <1>12

\* Steps of a run that write items.
LEMMA ItemSteps ==
  ASSUME Typed, Good, NEW t \in Tasks, NEW s \in Symbols, fault' # "mishap", ~overlapped'
  PROVE  /\ Check(t, s) \/ SkipUnmapped(t, s) \/ Fetch(t) => Good'
         /\ Mark(t, s) \/ Settle(t, s) => Good'
<1>0. /\ RowsOK /\ ItemsOK /\ TasksOK /\ \A u \in Tasks : TaskOK(u)
      /\ TaskTrue(t) /\ Apart /\ RowsTrue /\ RestTrue
  BY DEF Typed, Good
<1>00. coverage \subseteq Symbols /\ task[t].got \subseteq Symbols
  BY <1>0 DEF RowsOK, TasksOK, TaskState
\* One item r of those ahead is written: it stays ahead if it is marked as
\* running, and does not if its candles are kept.
<1>a. ASSUME NEW r \in Symbols, NEW item, Moved(t), Listed(t), Listed(t)', r \in Ahead(t),
             Became(r, item), item.status \in {"running", "succeeded", "failed"},
             Ahead(t)' \subseteq Ahead(t), Ahead(t) \subseteq Ahead(t)' \cup {r},
             item.status = "running" => r \in Ahead(t)',
             \/ task'[t].got = task[t].got
             \/ /\ task'[t].got = task[t].got \cup {r} /\ item.status = "succeeded"
                /\ r \notin Ahead(t)',
             task'[t].pc = "touch" => task'[t].copy \notin Over,
             task'[t].pc \notin {"erase", "insert", "report"},
             UNCHANGED <<status, coverage>>
      PROVE  Good'
  <2>1. /\ InRun(t) /\ Running(t) /\ InRun(t)' /\ Running(t)' /\ ~Creating(t)'
        /\ task'[t].pc # "cancelItems"
    BY <1>a DEF Listed, InRun, Running, Creating, RunPc
  <2>2. \A q \in Symbols : items'[q].status # "ABSENT"
    BY <1>0, <1>a, <2>1 DEF TaskTrue, Became
  <2>3. status \notin Over BY <1>0, <2>1 DEF TaskTrue
  <2>4. r \notin coverage /\ r \notin task[t].got BY <1>0, <1>a, <2>1 DEF TaskTrue
  <2>5. \A q \in Symbols : items'[q].status \in {"queued", "running"} => q \in Ahead(t)'
    <3>1. ASSUME NEW q \in Symbols, items'[q].status \in {"queued", "running"}
          PROVE  q \in Ahead(t)'
      <4>1. CASE q = r BY <1>a, <3>1, <4>1 DEF Became
      <4>2. CASE q # r BY <1>0, <1>a, <3>1, <4>2 DEF Became, TaskTrue
      <4> QED BY <4>1, <4>2
    <3> QED BY <3>1
  <2>6. \A q \in Ahead(t)' : q \notin coverage /\ q \notin task'[t].got
    <3>1. ASSUME NEW q \in Ahead(t)' PROVE q \notin coverage /\ q \notin task'[t].got
      <4>1. q \notin coverage /\ q \notin task[t].got BY <1>0, <1>a, <2>1, <3>1 DEF TaskTrue
      <4>2. task'[t].got = task[t].got \cup {r} /\ item.status = "succeeded" => q # r
        BY <1>a, <2>4, <3>1
      <4> QED BY <1>a, <4>1, <4>2
    <3> QED BY <3>1
  <2>7. \A q \in task'[t].got : items'[q].status \in {"succeeded", "canceled"}
    <3>1. \A q \in task[t].got : items'[q].status \in {"succeeded", "canceled"}
      BY <1>0, <1>00, <1>a, <2>1, <2>4 DEF TaskTrue, Became
    <3>2. items'[r] = item BY <1>a DEF Became
    <3> QED BY <1>a, <3>1, <3>2
  <2>8. TaskTrue(t)' BY <1>a, <2>1, <2>2, <2>3, <2>5, <2>6, <2>7 DEF TaskTrue
  <2> QED BY <1>00, <1>a, <2>1, <2>8, OnlyItem
<1>1. ASSUME Check(t, s) PROVE Good'
  <2>1. /\ Moved(t) /\ task[t].pc = "next" /\ task'[t].pc = "touch"
        /\ s \in task[t].todo /\ task'[t].todo = task[t].todo \ {s}
        /\ task'[t].targets = task[t].targets /\ task'[t].symbol = s
        /\ task'[t].got = task[t].got /\ task'[t].copy = status
        /\ Became(s, Plain("running")) /\ UNCHANGED <<status, coverage>>
    BY <1>0, <1>1, CheckFx DEF Check, RowsOK
  <2>2. Plain("running").status = "running" BY ItemFx DEF ItemStatus
  <2>3. task[t].symbol = NoSymbol BY <1>0, <2>1 DEF TaskOK
  <2>4. /\ s \in Ahead(t) /\ s \in Ahead(t)' /\ Ahead(t)' \subseteq Ahead(t)
        /\ Ahead(t) \subseteq Ahead(t)' \cup {s}
    BY <2>1, <2>3 DEF Ahead
  <2>5. Listed(t) /\ Listed(t)' /\ InRun(t) BY <2>1 DEF Listed, InRun, RunPc
  <2>6. status \notin Over BY <1>0, <2>5 DEF TaskTrue
  <2> QED BY <1>a, <2>1, <2>2, <2>4, <2>5, <2>6
<1>b. ASSUME s \in task[t].todo, WriteItem(s, Unmappable), task' = [task EXCEPT ![t].todo = @ \ {s}],
             task[t].pc \in {"next", "mark"}, UNCHANGED <<status, coverage>>
      PROVE  Good'
  <2>1. /\ Moved(t) /\ task'[t].pc = task[t].pc /\ task'[t].todo = task[t].todo \ {s}
        /\ task'[t].targets = task[t].targets /\ task'[t].symbol = task[t].symbol
        /\ task'[t].got = task[t].got /\ Became(s, Unmappable)
    BY <1>0, <1>b, SkipFx
  <2>2. Unmappable.status = "failed" BY ItemFx
  <2>3. task[t].symbol = NoSymbol BY <1>0, <1>b DEF TaskOK
  <2>4. s \in Ahead(t) /\ Ahead(t)' \subseteq Ahead(t) /\ Ahead(t) \subseteq Ahead(t)' \cup {s}
    BY <1>b, <2>1 DEF Ahead
  <2>5. Listed(t) /\ Listed(t)' BY <1>b, <2>1 DEF Listed, InRun, RunPc
  <2> QED BY <1>a, <1>b, <2>1, <2>2, <2>4, <2>5
<1>2. ASSUME SkipUnmapped(t, s) PROVE Good'
  BY <1>2, <1>b DEF SkipUnmapped
<1>3. ASSUME Fetch(t) PROVE Good'
  <2>0. task[t].symbol \in Symbols BY <1>0, <1>3 DEF Fetch, TaskOK
  <2>1. PICK item : \E r \in Symbols :
           /\ Moved(t) /\ task[t].pc = "fetch" /\ task'[t].pc = "next"
           /\ r = task[t].symbol /\ task'[t].symbol = NoSymbol
           /\ task'[t].todo = task[t].todo /\ task'[t].targets = task[t].targets
           /\ item.status \in {"succeeded", "failed"}
           /\ \/ task'[t].got = task[t].got
              \/ (task'[t].got = task[t].got \cup {r} /\ item.status = "succeeded")
           /\ Became(r, item)
    BY <1>0, <1>3, <2>0, FetchFx
  <2>2. UNCHANGED <<status, coverage>> BY <1>3 DEF Fetch
  <2> DEFINE r == task[t].symbol
  <2>3. r # NoSymbol /\ r \notin task[t].todo /\ task[t].targets = {}
    BY <1>0, <2>0, <2>1 DEF TaskOK
  <2>4. /\ r \in Ahead(t) /\ r \notin Ahead(t)' /\ Ahead(t)' \subseteq Ahead(t)
        /\ Ahead(t) \subseteq Ahead(t)' \cup {r}
    BY <2>1, <2>3 DEF Ahead
  <2>5. Listed(t) /\ Listed(t)' BY <2>1 DEF Listed, InRun, RunPc
  <2> QED BY <1>a, <2>1, <2>2, <2>4, <2>5
<1>4. ASSUME Mark(t, s) PROVE Good'
  <2>1. s \in task[t].todo /\ task[t].pc = "mark" /\ UNCHANGED <<status, coverage>>
    BY <1>4 DEF Mark
  <2>2. \/ /\ WriteItem(s, Plain("running"))
           /\ task' = [task EXCEPT ![t].todo = @ \ {s}, ![t].targets = @ \cup {s}]
        \/ /\ WriteItem(s, Unmappable)
           /\ task' = [task EXCEPT ![t].todo = @ \ {s}]
    BY <1>4 DEF Mark
  <2>3. CASE /\ WriteItem(s, Unmappable)
             /\ task' = [task EXCEPT ![t].todo = @ \ {s}]
    BY <1>b, <2>1, <2>3
  <2>4. CASE /\ WriteItem(s, Plain("running"))
             /\ task' = [task EXCEPT ![t].todo = @ \ {s}, ![t].targets = @ \cup {s}]
    <3>1. /\ Moved(t) /\ task'[t].pc = task[t].pc /\ task'[t].todo = task[t].todo \ {s}
          /\ task'[t].targets = task[t].targets \cup {s} /\ task'[t].symbol = task[t].symbol
          /\ task'[t].got = task[t].got /\ Became(s, Plain("running"))
      BY <1>0, <2>1, <2>4, MarkFx
    <3>2. Plain("running").status = "running" BY ItemFx DEF ItemStatus
    <3>3. /\ s \in Ahead(t) /\ s \in Ahead(t)' /\ Ahead(t)' \subseteq Ahead(t)
          /\ Ahead(t) \subseteq Ahead(t)' \cup {s}
      BY <2>1, <3>1 DEF Ahead
    <3>4. Listed(t) /\ Listed(t)' BY <2>1, <3>1 DEF Listed, InRun, RunPc
    <3> QED BY <1>a, <2>1, <3>1, <3>2, <3>3, <3>4
  <2> QED BY <2>2, <2>3, <2>4
<1>5. ASSUME Settle(t, s) PROVE Good'
  <2>1. PICK item :
           /\ Moved(t) /\ task[t].pc = "settle" /\ task'[t].pc = "settle"
           /\ s \in task[t].targets /\ task'[t].targets = task[t].targets \ {s}
           /\ task'[t].todo = task[t].todo /\ task'[t].symbol = task[t].symbol
           /\ item.status \in {"succeeded", "failed"}
           /\ \/ task'[t].got = task[t].got
              \/ (task'[t].got = task[t].got \cup {s} /\ item.status = "succeeded")
           /\ Became(s, item)
    BY <1>0, <1>5, SettleFx
  <2>2. UNCHANGED <<status, coverage>> BY <1>5 DEF Settle
  <2>3. task[t].todo = {} /\ task[t].symbol = NoSymbol BY <1>0, <2>1 DEF TaskOK
  <2>4. /\ s \in Ahead(t) /\ s \notin Ahead(t)' /\ Ahead(t)' \subseteq Ahead(t)
        /\ Ahead(t) \subseteq Ahead(t)' \cup {s}
    BY <2>1, <2>3 DEF Ahead
  <2>5. Listed(t) /\ Listed(t)' BY <2>1 DEF Listed, InRun, RunPc
  <2> QED BY <1>a, <2>1, <2>2, <2>4, <2>5
<1> QED BY <1>1, <1>2, <1>3, <1>4, <1>5

\* The installation of what a run has got, and its report.
LEMMA InstallSteps ==
  ASSUME Typed, Good, NEW t \in Tasks, fault' # "mishap", ~overlapped'
  PROVE  Erase(t) \/ Insert(t) \/ Report(t) => Good'
<1>0. /\ RowsOK /\ ItemsOK /\ TasksOK /\ \A u \in Tasks : TaskOK(u)
      /\ TaskTrue(t) /\ Apart /\ RowsTrue /\ RestTrue
  BY DEF Typed, Good
<1>1. ASSUME task[t].pc \in {"erase", "insert", "report"}
      PROVE  /\ InRun(t) /\ Running(t) /\ Listed(t) /\ ~Creating(t)
             /\ task[t].pc # "retry" /\ Ahead(t) = {}
             /\ \A s \in Symbols : items[s].status \notin {"ABSENT", "queued", "running"}
             /\ \A u \in Tasks : u # t => ~Running(u) /\ ~Creating(u)
  <2>1. InRun(t) /\ Running(t) /\ Listed(t) /\ ~Creating(t)
    BY <1>1 DEF InRun, Running, Listed, Creating, RunPc
  <2>2. Ahead(t) = {} BY <1>0, <1>1 DEF TaskOK, Ahead
  <2>3. \A s \in Symbols : items[s].status \notin {"ABSENT", "queued", "running"}
    BY <1>0, <2>1, <2>2 DEF TaskTrue
  <2>4. \A u \in Tasks : u # t => ~Running(u) /\ ~Creating(u)
    BY <2>1, <2>3 DEF Good, Apart, TaskTrue
  <2> QED BY <1>1, <2>1, <2>2, <2>3, <2>4
<1>2. ASSUME task[t].pc \in {"erase", "insert"}, NEW pc \in {"insert", "report"}, Goto(t, pc),
             UNCHANGED <<status, items>>, coverage' \subseteq coverage \cup task[t].got
      PROVE  Good'
  <2>0. /\ InRun(t) /\ Running(t) /\ Listed(t) /\ ~Creating(t)
        /\ task[t].pc # "retry" /\ Ahead(t) = {}
        /\ \A s \in Symbols : items[s].status \notin {"ABSENT", "queued", "running"}
        /\ \A u \in Tasks : u # t => ~Running(u) /\ ~Creating(u)
    BY <1>1, <1>2
  <2>1. /\ Moved(t) /\ task'[t].pc = pc
        /\ task'[t].todo = task[t].todo /\ task'[t].targets = task[t].targets
        /\ task'[t].symbol = task[t].symbol /\ task'[t].got = task[t].got
        /\ task'[t].copy = task[t].copy
    BY <1>0, <1>2, GotoFx DEF RunPc
  <2>2. Ahead(t)' = {} BY <2>0, <2>1 DEF Ahead
  <2>3. InRun(t)' /\ Running(t)' /\ ~Creating(t)' BY <2>1 DEF InRun, Running, Creating, RunPc
  <2>4. TrueOf(task[t].copy) => TrueOf(task[t].copy)' BY <1>2, <2>1 DEF TrueOf, With
  <2>5. TaskTrue(t)' BY <1>0, <1>2, <2>0, <2>1, <2>2, <2>3, <2>4 DEF TaskTrue
  <2>6. ASSUME NEW u \in Tasks, u # t PROVE TaskTrue(u)'
    <3>1. task'[u] = task[u] /\ TaskTrue(u) /\ ~Running(u) /\ ~Creating(u)
      BY <2>0, <2>1, <2>6 DEF Moved, Good
    <3> QED BY <1>2, <2>0, <3>1 DEF TaskTrue, Creating, Running, Listed, InRun, RunPc
  <2>7. Apart' BY <1>0, <2>0, <2>1, <2>3, StillApart DEF Alone
  <2>8. RowsTrue'
    <3>1. \A s \in task[t].got : items[s].status \in {"succeeded", "canceled"}
      BY <1>0, <2>0 DEF TaskTrue
    <3> QED BY <1>0, <1>2, <3>1 DEF RowsTrue
  <2>9. RestTrue' BY <1>0, <1>2, <2>0 DEF RestTrue, TaskTrue, Over
  <2> QED BY <2>5, <2>6, <2>7, <2>8, <2>9 DEF Good
<1>3. ASSUME Erase(t) PROVE Good'
  BY <1>2, <1>3 DEF Erase
<1>4. ASSUME Insert(t) PROVE Good'
  BY <1>2, <1>4 DEF Insert
<1>5. ASSUME Report(t) PROVE Good'
  <2>0. /\ InRun(t) /\ Running(t) /\ Listed(t) /\ ~Creating(t)
        /\ \A s \in Symbols : items[s].status \notin {"ABSENT", "queued", "running"}
        /\ \A u \in Tasks : u # t => ~Running(u) /\ ~Creating(u)
    BY <1>1, <1>5 DEF Report
  <2>1. /\ Moved(t) /\ task'[t] = Idle /\ status' = task[t].copy /\ UNCHANGED <<items, coverage>>
        /\ task[t].pc = "report"
    BY <1>0, <1>5, EndFx DEF Report
  <2>2. TaskTrue(t)' BY <2>1, IdleFx DEF TaskTrue, Creating, Running, Listed, InRun, RunPc
  <2>3. ASSUME NEW u \in Tasks, u # t PROVE TaskTrue(u)'
    <3>1. task'[u] = task[u] /\ TaskTrue(u) /\ ~Running(u) /\ ~Creating(u)
      BY <2>0, <2>1, <2>3 DEF Moved, Good
    <3> QED BY <2>0, <2>1, <3>1 DEF TaskTrue, Creating, Running, Listed, InRun, RunPc
  <2>4. Apart'
    BY <1>0, <2>1, StillApart, IdleFx DEF Alone, Creating, Running, RunPc
  <2>5. status' \in {"succeeded", "partial"} BY <1>0, <2>1 DEF TaskOK
  <2>6. RowsTrue' BY <1>0, <2>1, <2>5 DEF RowsTrue
  <2>7. TrueOf(status)'
    <3>1. TrueOf(task[t].copy) BY <1>0, <2>1 DEF TaskTrue
    <3> QED BY <2>1, <3>1 DEF TrueOf, With
  <2>8. RestTrue' BY <2>0, <2>1, <2>7 DEF RestTrue
  <2> QED BY <2>2, <2>3, <2>4, <2>6, <2>8 DEF Good
<1> QED BY <1>3, <1>4, <1>5

-----------------------------------------------------------------------------

LEMMA BuildInit == Init => BuildInv
<1> SUFFICES ASSUME Init PROVE BuildInv
  OBVIOUS
<1>1. \A t \in Tasks : task[t] = Idle BY DEF Init
<1>2. \A s \in Symbols : items[s].status = "ABSENT" BY ItemFx DEF Init, ItemStatus
<1>3. coverage = {} /\ status = "none" BY DEF Init
<1>4. \A t \in Tasks : TaskTrue(t) BY <1>1, IdleTrue
<1>5. Apart BY <1>1, IdleFx DEF Apart, Creating, Running, RunPc
<1>6. RowsTrue /\ RestTrue BY <1>2, <1>3 DEF RowsTrue, RestTrue
<1>7. Good BY <1>4, <1>5, <1>6 DEF Good
<1> QED BY <1>7, TypeInit, GoodParts DEF BuildInv

LEMMA BuildStep == Typed /\ BuildInv /\ [Next]_vars => BuildInv'
<1> SUFFICES ASSUME Typed, BuildInv, [Next]_vars PROVE BuildInv'
  OBVIOUS
<1>0. Typed' BY TypeStep
<1> SUFFICES ASSUME fault' # "mishap", ~overlapped' PROVE Good'
  <2>1. Good' <=> (/\ Births /\ OneRunner /\ RunProgress /\ Reported
                   /\ coverage \subseteq With({"succeeded", "canceled"}))'
    BY <1>0, GoodParts, PTL
  <2> QED BY <2>1 DEF BuildInv
<1>1. fault # "mishap" /\ ~overlapped
  <2>1. ASSUME NEW t \in Tasks, Launch(t) PROVE ~overlapped BY <2>1 DEF Launch
  <2>2. ASSUME NEW t \in Tasks, NEW f \in {"none", "stop"}, FailRun(t, f)
        PROVE  fault # "mishap" /\ ~overlapped
    BY <2>2 DEF FailRun, Worse
  <2>3. ASSUME NEW s \in Symbols, NEW item, WriteItem(s, item) PROVE fault # "mishap"
    BY <2>3 DEF WriteItem
  <2>4. ASSUME NEW t \in Tasks,
               \/ StartBuild(t) \/ Configure(t) \/ Cancel(t) \/ WriteCancel(t) \/ ListCancel(t)
        PROVE  fault # "mishap" /\ ~overlapped
    BY <2>4 DEF StartBuild, Configure, Cancel, WriteCancel, ListCancel
  <2>11. ASSUME NEW t \in Tasks, CreateItems(t) \/ Retry(t) \/ RetryRun(t) \/ Resume(t)
         PROVE  fault # "mishap" /\ ~overlapped
    <3>1. CASE Retry(t) BY <3>1 DEF Retry
    <3>2. CASE Resume(t) BY <2>1, <3>2 DEF Resume
    <3>3. CASE CreateItems(t) \/ RetryRun(t) BY <2>1, <3>3 DEF CreateItems, RetryRun
    <3> QED BY <2>11, <3>1, <3>2, <3>3
  <2>5. ASSUME NEW t \in Tasks,
               \/ Load(t) \/ Begin(t) \/ List(t) \/ LeaveCanceled(t) \/ Touch(t)
               \/ MarkedAll(t) \/ ReadDay(t) \/ Count(t) \/ Erase(t) \/ Insert(t) \/ Report(t)
               \/ \E pc \in {"day", "settle"} : DayDone(t, pc)
        PROVE  fault # "mishap" /\ ~overlapped
    BY <2>5 DEF Load, Begin, List, LeaveCanceled, Touch, MarkedAll, ReadDay, Count, Erase,
                Insert, Report, DayDone
  <2>6. ASSUME NEW t \in Tasks, FailEarly(t) \/ NoDates(t) \/ AllFailed(t) \/ Stop(t)
        PROVE  fault # "mishap" /\ ~overlapped
    BY <2>2, <2>6 DEF FailEarly, NoDates, AllFailed, Stop, Worse
  <2>7. ASSUME NEW t \in Tasks, NEW s \in Symbols,
               \/ RetryItem(t, s) \/ CancelItem(t, s) \/ Check(t, s) \/ SkipUnmapped(t, s)
               \/ Mark(t, s) \/ Settle(t, s)
        PROVE  fault # "mishap" /\ ~overlapped
    BY <2>3, <2>7 DEF RetryItem, CancelItem, Check, SkipUnmapped, Mark, Settle
  <2>8. ASSUME NEW t \in Tasks, Fetch(t) PROVE fault # "mishap" /\ ~overlapped
    BY <2>8 DEF Fetch, WriteItem
  <2>9. ASSUME NEW s \in Symbols, RetryTimeReached(s) PROVE fault # "mishap" /\ ~overlapped
    BY <2>9 DEF RetryTimeReached
  <2>10. CASE UNCHANGED vars BY <2>10 DEF vars
  <2> QED BY <2>4, <2>5, <2>6, <2>7, <2>8, <2>9, <2>10, <2>11 DEF Next, Proceed
<1>2. Good BY <1>1, GoodParts DEF BuildInv
<1>3. ASSUME NEW s \in Symbols, RetryTimeReached(s) PROVE Good'
  <2>1. /\ \A r \in Symbols : items'[r].status = items[r].status
        /\ UNCHANGED <<status, coverage, task>>
    <3>1. items \in [Symbols -> Item] BY DEF Typed, ItemsOK
    <3> QED BY <1>3, <3>1 DEF RetryTimeReached, Item
  <2>2. coverage \subseteq Symbols /\ \A t \in Tasks : task[t].got \subseteq Symbols
    BY DEF Typed, RowsOK, TasksOK, TaskState
  <2>3. With({"failed"})' = With({"failed"})
        /\ With({"failed", "canceled"})' = With({"failed", "canceled"})
    BY <2>1 DEF With
  <2>4. ASSUME NEW t \in Tasks PROVE TaskTrue(t)'
    <3>1. /\ Ahead(t)' = Ahead(t) /\ Running(t)' = Running(t) /\ Listed(t)' = Listed(t)
          /\ Creating(t)' = Creating(t) /\ InRun(t)' = InRun(t)
      BY <2>1 DEF Ahead, Running, Listed, Creating, InRun
    <3>2. TrueOf(task[t].copy)' = TrueOf(task[t].copy) BY <2>1, <2>3 DEF TrueOf
    <3>3. TaskTrue(t) BY <1>2 DEF Good
    <3>4. Running(t) => \A r \in task[t].got : items'[r].status \in {"succeeded", "canceled"}
      BY <2>1, <2>2, <3>3 DEF TaskTrue
    <3> QED BY <2>1, <3>1, <3>2, <3>3, <3>4 DEF TaskTrue
  <2>5. Apart' BY <1>2, <2>1 DEF Good, Apart, Creating, Running
  <2>6. RowsTrue' BY <1>2, <2>1, <2>2 DEF Good, RowsTrue
  <2>7. RestTrue'
    <3>1. TrueOf(status)' = TrueOf(status) BY <2>1, <2>3 DEF TrueOf
    <3> QED BY <1>2, <2>1, <3>1 DEF Good, RestTrue
  <2> QED BY <2>4, <2>5, <2>6, <2>7 DEF Good
<1>4. CASE UNCHANGED vars
  <2>1. /\ \A t \in Tasks : TaskTrue(t)' = TaskTrue(t)
        /\ Apart' = Apart /\ RowsTrue' = RowsTrue /\ RestTrue' = RestTrue
    BY <1>4 DEF vars, TaskTrue, Apart, RowsTrue, RestTrue, Creating, InRun, Running, Listed,
                Ahead, TrueOf, With
  <2> QED BY <1>2, <2>1 DEF Good
<1> QED
  <2>1. Symbols # {} OBVIOUS
  <2> QED
    BY <1>2, <1>3, <1>4, <2>1, CallSteps, RunSteps, ItemSteps, InstallSteps DEF Next, Proceed

LEMMA Invariants == Spec => [](Typed /\ BuildInv)
BY TypeInit, TypeStep, BuildInit, BuildStep, PTL DEF Spec

\* A build reported as succeeded or partial has no item left in between,
\* however often it was retried, resumed and canceled.
THEOREM Settled == Spec => []ItemsSettled
<1>1. BuildInv => ItemsSettled
  BY DEF BuildInv, ItemsSettled, AtRest, Reported, With
<1> QED BY <1>1, Invariants, PTL

\* The outcome of a build is what its items say.
THEOREM Truthful == Spec => []OutcomeTrue
<1>1. BuildInv => OutcomeTrue
  BY DEF BuildInv, OutcomeTrue, AtRest, Reported, TrueOf
<1> QED BY <1>1, Invariants, PTL

\* A pack covers only symbols that some run has fetched.
THEOREM Earned == Spec => []CoverageEarned
<1>1. BuildInv => CoverageEarned BY DEF BuildInv, CoverageEarned
<1> QED BY <1>1, Invariants, PTL
=============================================================================

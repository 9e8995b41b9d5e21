------------------------------ MODULE JobQueue ------------------------------
(***************************************************************************)
(* What a queue of jobs promises the callers that submit to it: a request  *)
(* has one open job at most, a job is done by one worker at a time, and    *)
(* once a worker has taken a job nobody else touches the job until that    *)
(* worker gives it up, done or not, or has stopped working on it.          *)
(***************************************************************************)
CONSTANTS
  Jobs,
  Workers,
  Requests,  \* what a job can be asked to do
  NoJob      \* a worker's job when it has none; not one of Jobs

VARIABLES
  state,    \* of each job
  request,  \* of each job; of no meaning before the job is submitted
  owns      \* the job each worker is doing

vars == <<state, request, owns>>

State == {"none", "waiting", "taken", "done", "failed"}

Init ==
  /\ state = [j \in Jobs |-> "none"]
  /\ request \in [Jobs -> Requests]
  /\ owns = [w \in Workers |-> NoJob]

Open(j)   == state[j] \in {"waiting", "taken"}
Orphan(j) == state[j] = "taken" /\ \A w \in Workers : owns[w] # j

\* A job is submitted, or a finished one is asked for again.
Ask(j, r) ==
  /\ ~Open(j)
  /\ \A k \in Jobs : ~(Open(k) /\ request[k] = r)
  /\ state' = [state EXCEPT ![j] = "waiting"]
  /\ request' = [request EXCEPT ![j] = r]
  /\ UNCHANGED owns

Take(w, j) ==
  /\ owns[w] = NoJob /\ state[j] = "waiting"
  /\ state' = [state EXCEPT ![j] = "taken"]
  /\ owns' = [owns EXCEPT ![w] = j]
  /\ UNCHANGED request

\* The owner says how its job ended, or that it is to be tried again.
Release(w, outcome) ==
  /\ owns[w] # NoJob /\ state[owns[w]] = "taken"
  /\ state' = [state EXCEPT ![owns[w]] = outcome]
  /\ owns' = [owns EXCEPT ![w] = NoJob]
  /\ UNCHANGED request

\* The owner stops without a word.
Vanish(w) ==
  /\ owns[w] # NoJob
  /\ owns' = [owns EXCEPT ![w] = NoJob]
  /\ UNCHANGED <<state, request>>

\* Jobs that were left so are found.
Recover(found) ==
  /\ \A j \in found : Orphan(j)
  /\ state' = [j \in Jobs |-> IF j \in found THEN "waiting" ELSE state[j]]
  /\ UNCHANGED <<request, owns>>

Next ==
  \/ \E j \in Jobs, r \in Requests : Ask(j, r)
  \/ \E w \in Workers, j \in Jobs : Take(w, j)
  \/ \E w \in Workers :
       Vanish(w) \/ \E outcome \in {"waiting", "done", "failed"} : Release(w, outcome)
  \/ \E found \in SUBSET Jobs : Recover(found)

Spec == Init /\ [][Next]_vars
=============================================================================

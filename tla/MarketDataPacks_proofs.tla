----------------------- MODULE MarketDataPacks_proofs -----------------------
(***************************************************************************)
(* Theorems about MarketDataPacks, for any number of jobs, versions and    *)
(* instruments and every manifest.                                         *)
(***************************************************************************)
EXTENDS MarketDataPacks, TLAPS

USE VersionsAssumption, ManifestAssumption

JobsOK == job \in [Jobs -> JobState]

\* A job that goes on has moved to another step and changed nothing else.
LEMMA GotoOne ==
  ASSUME JobsOK, NEW j \in Jobs, NEW pc \in Pc, Goto(j, pc)
  PROVE  /\ JobsOK' /\ job'[j].pc = pc
         /\ job'[j].kind = job[j].kind /\ job'[j].version = job[j].version
         /\ job'[j].alone = job[j].alone
         /\ \A k \in Jobs : k # j => job'[k] = job[k]
<1>1. job' = [job EXCEPT ![j] = [job[j] EXCEPT !.pc = pc]] BY DEF Goto
<1>2. job[j] \in JobState BY DEF JobsOK
<1>3. [job[j] EXCEPT !.pc = pc] \in JobState BY <1>2 DEF JobState
<1> QED BY <1>1, <1>2, <1>3 DEF JobsOK, JobState

LEMMA CoverageTyped ==
  ASSUME NEW v \in Versions, NEW bridged \in BOOLEAN
  PROVE  CoverageRows(v, bridged) \subseteq CoverageRow
BY DEF CoverageRows, CoverageRow

\* Renaming keeps rows well formed.
LEMMA RenamedTyped ==
  ASSUME coverage \subseteq CoverageRow
  PROVE  (coverage \ ToBridge) \cup Renamed \subseteq CoverageRow
BY DEF ToBridge, Renamed, CoverageRow

-----------------------------------------------------------------------------
(* Type correctness. *)

Versioned(j) ==
  job[j].pc \in {"clear", "move", "upsert", "verify", "erase", "insert"} =>
    job[j].version \in Versions

LEMMA TypeParts ==
  TypeOK <=> /\ latest \in Versions /\ pack \in Versions \cup {NoPack}
             /\ dirs \in [Versions -> Directory]
             /\ coverage \subseteq CoverageRow /\ (coverage # {} => pack # NoPack)
             /\ JobsOK /\ status \in [Jobs -> Status]
             /\ \A j \in Jobs : Versioned(j)
             /\ cancels \subseteq Jobs /\ mishap \in BOOLEAN
BY DEF TypeOK, JobsOK, Versioned

LEMMA TypeInit == Init => TypeOK
<1> SUFFICES ASSUME Init PROVE TypeOK
  OBVIOUS
<1>1. NewJob \in JobState BY DEF NewJob, JobState, Kind, Pc
<1>2. \A j \in Jobs : job[j] = NewJob BY DEF Init
<1>3. JobsOK BY <1>1 DEF Init, JobsOK
<1>4. \A j \in Jobs : Versioned(j) BY <1>2 DEF Versioned, NewJob
<1>5. dirs \in [Versions -> Directory] /\ status \in [Jobs -> Status]
  BY DEF Init, Directory, Status
<1> QED BY <1>3, <1>4, <1>5, TypeParts DEF Init

\* A step after which only j is elsewhere, at a step its version allows.
LEMMA StillVersioned ==
  ASSUME \A k \in Jobs : Versioned(k), NEW j \in Jobs,
         \A k \in Jobs : k # j => job'[k] = job[k], Versioned(j)'
  PROVE  \A k \in Jobs : Versioned(k)'
BY DEF Versioned

LEMMA TypeStep == TypeOK /\ [Next]_vars => TypeOK'
<1> SUFFICES ASSUME TypeOK, [Next]_vars PROVE TypeOK'
  OBVIOUS
<1>0. /\ latest \in Versions /\ pack \in Versions \cup {NoPack}
      /\ dirs \in [Versions -> Directory]
      /\ coverage \subseteq CoverageRow /\ (coverage # {} => pack # NoPack)
      /\ JobsOK /\ status \in [Jobs -> Status]
      /\ \A j \in Jobs : Versioned(j)
      /\ cancels \subseteq Jobs /\ mishap \in BOOLEAN
  BY TypeParts
<1> SUFFICES
      /\ latest' \in Versions /\ pack' \in Versions \cup {NoPack}
      /\ dirs' \in [Versions -> Directory]
      /\ coverage' \subseteq CoverageRow /\ (coverage' # {} => pack' # NoPack)
      /\ JobsOK' /\ status' \in [Jobs -> Status]
      /\ \A j \in Jobs : Versioned(j)'
      /\ cancels' \subseteq Jobs /\ mishap' \in BOOLEAN
  BY DEF TypeOK, JobsOK, Versioned
<1> DEFINE Typed ==
      /\ latest' \in Versions /\ pack' \in Versions \cup {NoPack}
      /\ dirs' \in [Versions -> Directory]
      /\ coverage' \subseteq CoverageRow /\ (coverage' # {} => pack' # NoPack)
      /\ JobsOK' /\ status' \in [Jobs -> Status]
      /\ \A j \in Jobs : Versioned(j)'
      /\ cancels' \subseteq Jobs /\ mishap' \in BOOLEAN
<1>1. ASSUME NEW j \in Jobs, NEW kind \in Kind, Create(j, kind) PROVE Typed
  <2>1. ASSUME NEW k \in Jobs
        PROVE  job'[k] \in JobState /\ Versioned(k)'
    <3>1. job[k] \in JobState /\ Versioned(k) BY <1>0 DEF JobsOK
    <3>2. \/ job'[k] = [NewJob EXCEPT !.kind = kind, !.pc = "queued", !.alone = job'[k].alone]
             /\ job'[k].alone \in BOOLEAN
          \/ job'[k] = [job[k] EXCEPT !.alone = FALSE]
          \/ job'[k] = job[k]
      BY <1>1 DEF Create, NewJob
    <3>3. CASE job'[k] = [NewJob EXCEPT !.kind = kind, !.pc = "queued", !.alone = job'[k].alone]
               /\ job'[k].alone \in BOOLEAN
      BY <3>3 DEF NewJob, JobState, Pc, Versioned
    <3>4. CASE job'[k] = [job[k] EXCEPT !.alone = FALSE]
      BY <3>1, <3>4 DEF JobState, Versioned
    <3>5. CASE job'[k] = job[k] BY <3>1, <3>5 DEF Versioned
    <3> QED BY <3>2, <3>3, <3>4, <3>5
  <2>2. JobsOK'
    <3>1. job' = [k \in Jobs |-> job'[k]] BY <1>1 DEF Create
    <3> QED BY <2>1, <3>1 DEF JobsOK
  <2> QED BY <1>0, <1>1, <2>1, <2>2 DEF Create, Status
<1>2. ASSUME NEW j \in Jobs, NEW pc \in Pc, Goto(j, pc), Versioned(j)'
      PROVE  JobsOK' /\ \A k \in Jobs : Versioned(k)'
  BY <1>0, <1>2, GotoOne, StillVersioned
<1>3. ASSUME NEW j \in Jobs, Start(j) PROVE Typed
  <2>1. Versioned(j)' BY <1>0, <1>3, GotoOne DEF Start, Versioned, Pc
  <2> QED BY <1>0, <1>2, <1>3, <2>1 DEF Start, Pc, Status
<1>4. ASSUME NEW j \in Jobs, EndFailed(j)
      PROVE  JobsOK' /\ (\A k \in Jobs : Versioned(k)') /\ status' \in [Jobs -> Status]
  <2>1. Versioned(j)' BY <1>0, <1>4, GotoOne DEF EndFailed, Versioned, Pc
  <2> QED BY <1>0, <1>2, <1>4, <2>1 DEF EndFailed, Pc, Status
<1>5. ASSUME NEW j \in Jobs, Stop(j) PROVE Typed
  <2>1. mishap' \in BOOLEAN BY <1>0, <1>5 DEF Stop, Committed
  <2> QED BY <1>0, <1>4, <1>5, <2>1 DEF Stop
<1>6. ASSUME NEW j \in Jobs, Report(j) PROVE Typed
  <2>1. Versioned(j)' BY <1>0, <1>6, GotoOne DEF Report, Versioned, Pc
  <2> QED BY <1>0, <1>2, <1>6, <2>1 DEF Report, Pc, Status
<1>7. ASSUME NEW j \in Jobs, Fetch(j) PROVE Typed
  <2>1. job[j] \in JobState BY <1>0 DEF JobsOK
  <2>2. job' = [job EXCEPT ![j] = [job[j] EXCEPT !.pc = "clear", !.version = latest]]
    BY <1>7 DEF Fetch
  <2>3. [job[j] EXCEPT !.pc = "clear", !.version = latest] \in JobState
    BY <1>0, <2>1 DEF JobState, Pc
  <2>4. JobsOK' /\ job'[j].version = latest /\ \A k \in Jobs : k # j => job'[k] = job[k]
    BY <1>0, <2>1, <2>2, <2>3 DEF JobsOK, JobState
  <2>5. Versioned(j)' BY <1>0, <2>4 DEF Versioned
  <2>6. \A k \in Jobs : Versioned(k)' BY <1>0, <2>4, <2>5, StillVersioned
  <2> QED BY <1>0, <1>7, <2>4, <2>6 DEF Fetch, Status
<1>8. ASSUME NEW j \in Jobs, Look(j) PROVE Typed
  <2>1. CASE job[j].kind = "remove" /\ Goto(j, "delete")
    <3>1. Versioned(j)' BY <1>0, <2>1, GotoOne DEF Versioned, Pc
    <3> QED BY <1>0, <1>2, <1>8, <2>1, <3>1 DEF Look, Pc
  <2>2. ASSUME NEW pc \in {"verify", "clear"}, pack # NoPack,
               job' = [job EXCEPT ![j] = [job[j] EXCEPT !.version = pack, !.pc = pc]]
        PROVE  Typed
    <3>1. job[j] \in JobState BY <1>0 DEF JobsOK
    <3>2. [job[j] EXCEPT !.version = pack, !.pc = pc] \in JobState
      BY <1>0, <2>2, <3>1 DEF JobState, Pc
    <3>3. JobsOK' /\ job'[j].version = pack /\ \A k \in Jobs : k # j => job'[k] = job[k]
      BY <1>0, <2>2, <3>1, <3>2 DEF JobsOK, JobState
    <3>4. Versioned(j)' BY <1>0, <2>2, <3>3 DEF Versioned
    <3>5. \A k \in Jobs : Versioned(k)' BY <1>0, <3>3, <3>4, StillVersioned
    <3> QED BY <1>0, <1>8, <3>3, <3>5 DEF Look
  <2> QED BY <1>8, <2>1, <2>2 DEF Look
<1>9. ASSUME NEW j \in Jobs, Clear(j) PROVE Typed
  <2>1. dirs' \in [Versions -> Directory] BY <1>0, <1>9 DEF Clear, Directory
  <2>2. Versioned(j)' BY <1>0, <1>9, GotoOne DEF Clear, Versioned, Pc
  <2> QED BY <1>0, <1>2, <1>9, <2>1, <2>2 DEF Clear, Pc
<1>10. ASSUME NEW j \in Jobs, ClearPartly(j) PROVE Typed
  <2>1. dirs' \in [Versions -> Directory] BY <1>0, <1>10 DEF ClearPartly, Directory
  <2>2. CASE Goto(j, "move") /\ UNCHANGED status
    <3>1. Versioned(j)' BY <1>0, <1>10, <2>2, GotoOne DEF ClearPartly, Versioned, Pc
    <3> QED BY <1>0, <1>2, <1>10, <2>1, <2>2, <3>1 DEF ClearPartly, Pc
  <2>3. CASE EndFailed(j) BY <1>0, <1>4, <1>10, <2>1, <2>3 DEF ClearPartly
  <2> QED BY <1>10, <2>2, <2>3 DEF ClearPartly
<1>11. ASSUME NEW j \in Jobs, Move(j) PROVE Typed
  <2>1. dirs' \in [Versions -> Directory] BY <1>0, <1>11 DEF Move, Directory
  <2>2. Versioned(j)' BY <1>0, <1>11, GotoOne DEF Move, Versioned, Pc
  <2> QED BY <1>0, <1>2, <1>11, <2>1, <2>2 DEF Move, Pc
<1>12. ASSUME NEW j \in Jobs, RefuseMove(j) \/ RefuseInsert(j) PROVE Typed
  BY <1>0, <1>4, <1>12 DEF RefuseMove, RefuseInsert
<1>13. ASSUME NEW j \in Jobs, Upsert(j) PROVE Typed
  <2>1. pack' \in Versions BY <1>0, <1>13 DEF Upsert, Versioned
  <2>2. Versioned(j)' BY <1>0, <1>13, GotoOne DEF Upsert, Versioned, Pc
  <2> QED BY <1>0, <1>2, <1>13, <2>1, <2>2 DEF Upsert, Pc
<1>14. ASSUME NEW j \in Jobs, Delete(j) PROVE Typed
  <2>1. Versioned(j)' BY <1>0, <1>14, GotoOne DEF Delete, Versioned, Pc
  <2> QED BY <1>0, <1>2, <1>14, <2>1 DEF Delete, Pc
<1>15. ASSUME NEW j \in Jobs, Verify(j) PROVE Typed
  <2>1. Versioned(j)' BY <1>0, <1>15, GotoOne DEF Verify, Versioned, Pc
  <2> QED BY <1>0, <1>2, <1>15, <2>1 DEF Verify, Pc
<1>16. ASSUME NEW j \in Jobs, Erase(j) PROVE Typed
  <2>1. Versioned(j)' BY <1>0, <1>16, GotoOne DEF Erase, Versioned, Pc
  <2> QED BY <1>0, <1>2, <1>16, <2>1 DEF Erase, Pc
<1>17. ASSUME NEW j \in Jobs, Insert(j) PROVE Typed
  <2>1. job[j].version \in Versions BY <1>0, <1>17 DEF Insert, Versioned
  <2>2. coverage' \subseteq CoverageRow
    BY <1>0, <1>17, <2>1, CoverageTyped DEF Insert
  <2>3. coverage' # {} => pack # NoPack
    <3>1. CASE Manifest[job[j].version] = {}
      BY <1>0, <1>17, <3>1 DEF Insert, CoverageRows
    <3>2. CASE Manifest[job[j].version] # {}
      BY <1>17, <3>2 DEF Insert, Insertable
    <3> QED BY <3>1, <3>2
  <2>4. Versioned(j)' BY <1>0, <1>17, GotoOne DEF Insert, Versioned, Pc
  <2> QED BY <1>0, <1>2, <1>17, <2>2, <2>3, <2>4 DEF Insert, Pc
<1>18. ASSUME NEW j \in Jobs, Bridge(j) PROVE Typed
  <2>1. coverage' = coverage \/ coverage' = (coverage \ ToBridge) \cup Renamed
    BY <1>18 DEF Bridge
  <2>2. coverage' \subseteq CoverageRow BY <1>0, <2>1, RenamedTyped
  <2>3. coverage' # {} => coverage # {} BY <2>1 DEF ToBridge, Renamed
  <2>4. Versioned(j)' BY <1>0, <1>18, GotoOne DEF Bridge, Versioned, Pc
  <2> QED BY <1>0, <1>2, <1>18, <2>2, <2>3, <2>4 DEF Bridge, Pc
<1>19. ASSUME NEW j \in Jobs, ReadForCancel(j) \/ WriteCancel(j) PROVE Typed
  BY <1>0, <1>19 DEF ReadForCancel, WriteCancel, Status, JobsOK, Versioned
<1>20. ASSUME NEW v \in Versions, Publish(v) PROVE Typed
  BY <1>0, <1>20 DEF Publish, JobsOK, Versioned
<1>21. ASSUME UNCHANGED vars PROVE Typed
  BY <1>0, <1>21 DEF vars, JobsOK, Versioned
<1> QED
  BY <1>1, <1>3, <1>5, <1>6, <1>7, <1>8, <1>9, <1>10, <1>11, <1>12, <1>13, <1>14,
     <1>15, <1>16, <1>17, <1>18, <1>19, <1>20, <1>21 DEF Next, Run

\* Rows, coverage and jobs keep their types, and coverage never outlives the
\* row of its pack.
THEOREM TypeCorrect == Spec => []TypeOK
BY TypeInit, TypeStep, PTL DEF Spec

-----------------------------------------------------------------------------
(* Each kind of job takes the steps of its kind. *)

StepOK(j) ==
  /\ job[j].pc = "new" \/ job[j].pc \in StepsOf(job[j].kind)
  /\ job[j].pc \in {"new", "queued", "fetch", "look"} => job[j].version = NoPack

LEMMA StepsValues ==
  /\ StepsOf("install") = {"queued", "report", "ended", "fetch", "clear", "move", "upsert",
                           "erase", "insert", "bridge"}
  /\ StepsOf("remove") = {"queued", "report", "ended", "look", "clear", "delete"}
  /\ StepsOf("repair") = {"queued", "report", "ended", "look", "verify", "erase", "insert",
                          "bridge"}
BY DEF StepsOf

\* What a step of a job that is under way does to the jobs: j alone changes, it
\* stays of its kind, and its version only when it is looked up.
Moves(j, pc) ==
  /\ UnderWay(j)
  /\ job'[j].pc = pc /\ job'[j].kind = job[j].kind /\ job'[j].alone = job[j].alone
  /\ \A k \in Jobs : k # j => job'[k] = job[k]

LEMMA GotoMoves ==
  ASSUME JobsOK, NEW j \in Jobs, NEW pc \in Pc, Goto(j, pc), UnderWay(j)
  PROVE  Moves(j, pc) /\ job'[j].version = job[j].version
BY GotoOne DEF Moves

LEMMA FetchMoves ==
  ASSUME JobsOK, NEW j \in Jobs, Fetch(j)
  PROVE  Moves(j, "clear") /\ job'[j].version = latest
<1>1. job' = [job EXCEPT ![j] = [job[j] EXCEPT !.pc = "clear", !.version = latest]]
  BY DEF Fetch
<1>2. job[j] \in JobState BY DEF JobsOK
<1> QED BY <1>1, <1>2 DEF Moves, JobsOK, JobState, Fetch, UnderWay

LEMMA LookMoves ==
  ASSUME JobsOK, NEW j \in Jobs, Look(j)
  PROVE  \/ /\ job[j].kind = "remove" /\ Moves(j, "delete")
            /\ job'[j].version = job[j].version
         \/ /\ Moves(j, IF job[j].kind = "repair" THEN "verify" ELSE "clear")
            /\ job'[j].version = pack
<1>1. job[j] \in JobState /\ UnderWay(j) BY DEF JobsOK, Look, UnderWay
<1>2. CASE job[j].kind = "remove" /\ Goto(j, "delete")
  BY <1>1, <1>2, GotoMoves DEF Pc
<1>3. ASSUME NEW pc, job' = [job EXCEPT ![j] = [job[j] EXCEPT !.version = pack, !.pc = pc]]
      PROVE  Moves(j, pc) /\ job'[j].version = pack
  BY <1>1, <1>3 DEF Moves, JobsOK, JobState
<1> QED BY <1>2, <1>3 DEF Look

LEMMA MovesKeepsSteps ==
  ASSUME StepsOK, NEW j \in Jobs, NEW pc \in Pc, Moves(j, pc), pc \in StepsOf(job[j].kind),
         pc \in {"new", "queued", "fetch", "look"} => job'[j].version = NoPack
  PROVE  StepsOK'
BY DEF StepsOK, Moves

LEMMA EndKeepsSteps ==
  ASSUME JobsOK, StepsOK, NEW j \in Jobs, UnderWay(j), Goto(j, "ended")
  PROVE  StepsOK'
<1>1. Moves(j, "ended") BY GotoMoves DEF Pc
<1>2. job[j].kind \in Kind BY DEF JobsOK, JobState
<1>3. "ended" \in StepsOf(job[j].kind) BY <1>2, StepsValues DEF Kind
<1> QED BY <1>1, <1>3, MovesKeepsSteps DEF Pc

LEMMA StepsStep == TypeOK /\ StepsOK /\ [Next]_vars => StepsOK'
<1> SUFFICES ASSUME TypeOK, StepsOK, [Next]_vars PROVE StepsOK'
  OBVIOUS
<1>0. JobsOK BY DEF TypeOK, JobsOK
<1>a. \A j \in Jobs : job[j].kind \in Kind /\ StepOK(j)
  BY <1>0 DEF JobsOK, JobState, StepsOK, StepOK
<1>1. ASSUME NEW j \in Jobs, NEW kind \in Kind, Create(j, kind) PROVE StepsOK'
  <2> SUFFICES ASSUME NEW k \in Jobs PROVE StepOK(k)'
    BY DEF StepsOK, StepOK
  <2>1. CASE k = j
    <3>1. /\ job'[j].pc = "queued" /\ job'[j].kind = kind /\ job'[j].version = NoPack
      BY <1>1 DEF Create, NewJob
    <3> QED BY <2>1, <3>1, StepsValues DEF StepOK, Kind
  <2>2. CASE k # j
    <3>1. job[k] \in JobState BY <1>0 DEF JobsOK
    <3>2. job'[k] = job[k] \/ job'[k] = [job[k] EXCEPT !.alone = FALSE]
      BY <1>1, <2>2 DEF Create
    <3>3. /\ job'[k].pc = job[k].pc /\ job'[k].kind = job[k].kind
          /\ job'[k].version = job[k].version
      BY <3>1, <3>2 DEF JobState
    <3> QED BY <1>a, <3>3 DEF StepOK
  <2> QED BY <2>1, <2>2
<1>2. ASSUME NEW j \in Jobs, NEW pc \in Pc, Goto(j, pc), UnderWay(j),
             pc \notin {"new", "queued", "fetch", "look"}, pc \in StepsOf(job[j].kind)
      PROVE  StepsOK'
  BY <1>0, <1>2, GotoMoves, MovesKeepsSteps
<1>3. ASSUME NEW j \in Jobs, Start(j) PROVE StepsOK'
  <2> DEFINE pc == IF job[j].kind = "install" THEN "fetch" ELSE "look"
  <2>1. pc \in Pc /\ Goto(j, pc) /\ UnderWay(j) /\ job[j].pc = "queued"
    BY <1>3 DEF Start, UnderWay, Pc
  <2>2. Moves(j, pc) /\ job'[j].version = job[j].version BY <1>0, <2>1, GotoMoves
  <2>3. pc \in StepsOf(job[j].kind) /\ job[j].version = NoPack
    BY <1>a, <2>1, StepsValues DEF StepOK, Kind
  <2> HIDE DEF pc
  <2> QED BY <2>1, <2>2, <2>3, MovesKeepsSteps
<1>4. ASSUME NEW j \in Jobs, Stop(j) \/ Report(j) \/ RefuseMove(j) \/ RefuseInsert(j)
      PROVE  StepsOK'
  BY <1>0, <1>4, EndKeepsSteps DEF Stop, EndFailed, Report, RefuseMove, RefuseInsert, UnderWay
<1>5. ASSUME NEW j \in Jobs, Fetch(j) PROVE StepsOK'
  <2>1. "clear" \in StepsOf(job[j].kind)
    BY <1>5, <1>a, StepsValues DEF Fetch, StepOK, Kind
  <2> QED BY <1>0, <1>5, <2>1, FetchMoves, MovesKeepsSteps DEF Pc
<1>6. ASSUME NEW j \in Jobs, Look(j) PROVE StepsOK'
  <2>1. job[j].kind \in {"remove", "repair"}
    BY <1>6, <1>a, StepsValues DEF Look, StepOK, Kind
  <2>2. CASE Moves(j, "delete") /\ job[j].kind = "remove"
    BY <2>2, StepsValues, MovesKeepsSteps DEF Pc
  <2>3. CASE Moves(j, IF job[j].kind = "repair" THEN "verify" ELSE "clear")
    <3>1. CASE job[j].kind = "repair"
      BY <2>3, <3>1, StepsValues, MovesKeepsSteps DEF Pc
    <3>2. CASE job[j].kind = "remove"
      BY <2>3, <3>2, StepsValues, MovesKeepsSteps DEF Pc
    <3> QED BY <2>1, <3>1, <3>2
  <2> QED BY <1>0, <1>6, <2>2, <2>3, LookMoves
<1>7. ASSUME NEW j \in Jobs, Clear(j) PROVE StepsOK'
  BY <1>2, <1>7, <1>a, StepsValues DEF Clear, StepOK, Kind, UnderWay, Pc
<1>8. ASSUME NEW j \in Jobs, ClearPartly(j) PROVE StepsOK'
  <2>1. UnderWay(j) BY <1>8 DEF ClearPartly, UnderWay
  <2>2. CASE EndFailed(j) BY <1>0, <2>1, <2>2, EndKeepsSteps DEF EndFailed
  <2>3. CASE job[j].kind = "install" /\ Goto(j, "move")
    BY <1>2, <2>1, <2>3, StepsValues DEF Pc
  <2> QED BY <1>8, <2>2, <2>3 DEF ClearPartly
<1>9. ASSUME NEW j \in Jobs, Move(j) \/ Upsert(j) PROVE StepsOK'
  BY <1>2, <1>9, <1>a, StepsValues DEF Move, Upsert, StepOK, Kind, UnderWay, Pc
<1>10. ASSUME NEW j \in Jobs, Delete(j) PROVE StepsOK'
  BY <1>2, <1>10, <1>a, StepsValues DEF Delete, StepOK, Kind, UnderWay, Pc
<1>11. ASSUME NEW j \in Jobs, Verify(j) \/ Erase(j) PROVE StepsOK'
  BY <1>2, <1>11, <1>a, StepsValues DEF Verify, Erase, StepOK, Kind, UnderWay, Pc
<1>12. ASSUME NEW j \in Jobs, Insert(j) \/ Bridge(j) PROVE StepsOK'
  BY <1>2, <1>12, <1>a, StepsValues DEF Insert, Bridge, StepOK, Kind, UnderWay, Pc
<1>13. CASE job' = job BY <1>13 DEF StepsOK
<1> QED
  BY <1>1, <1>3, <1>4, <1>5, <1>6, <1>7, <1>8, <1>9, <1>10, <1>11, <1>12, <1>13
  DEF Next, Run, ReadForCancel, WriteCancel, Publish, vars

LEMMA StepsInit == Init => StepsOK
BY DEF Init, StepsOK, NewJob

-----------------------------------------------------------------------------
(* A job that runs alone.  Only its own steps matter, and each one of them *)
(* leaves what LoneProgress says of the next.                              *)

LEMMA RowsOfVersion ==
  ASSUME NEW v
  PROVE  /\ \A i \in Manifest[v] :
              \E c \in CoverageRows(v, FALSE) : c.instrument = i
         /\ \A c \in CoverageRows(v, FALSE) : c.instrument \in Manifest[v]
         /\ \A c, d \in CoverageRows(v, FALSE) : c.instrument = d.instrument => c = d
<1>1. ASSUME NEW i \in Manifest[v]
      PROVE  \E c \in CoverageRows(v, FALSE) : c.instrument = i
  <2>1. [instrument |-> i, bridged |-> FALSE] \in CoverageRows(v, FALSE)
    BY DEF CoverageRows
  <2> QED BY <2>1
<1>2. ASSUME NEW c \in CoverageRows(v, FALSE)
      PROVE  /\ c.instrument \in Manifest[v]
             /\ c = [instrument |-> c.instrument, bridged |-> FALSE]
  <2>1. /\ c.instrument \in Manifest[v] /\ c.bridged \in {FALSE}
        /\ c = [instrument |-> c.instrument, bridged |-> c.bridged]
    BY Zenon DEF CoverageRows
  <2>2. c.bridged = FALSE BY <2>1, Zenon
  <2> QED BY <2>1, <2>2, Zenon
<1> QED BY <1>1, <1>2

LEMMA CoverageCovers ==
  ASSUME NEW v, coverage = CoverageRows(v, FALSE)
  PROVE  Covered = Manifest[v] /\ CoveredOnce
<1>1. ASSUME NEW i \in Manifest[v] PROVE i \in Covered BY RowsOfVersion DEF Covered
<1>2. ASSUME NEW i \in Covered PROVE i \in Manifest[v]
  <2>1. PICK c \in CoverageRows(v, FALSE) : i = c.instrument BY DEF Covered
  <2> QED BY <2>1, RowsOfVersion
<1>3. CoveredOnce BY RowsOfVersion DEF CoveredOnce
<1> QED BY <1>1, <1>2, <1>3

\* The bridge renames rows and neither adds nor drops an instrument.
LEMMA BridgeCovers ==
  ASSUME coverage \subseteq CoverageRow, coverage' = (coverage \ ToBridge) \cup Renamed
  PROVE  Covered' = Covered
<1>1. ASSUME NEW c \in coverage PROVE \E d \in coverage' : d.instrument = c.instrument
  <2>1. CASE c \in ToBridge
    <3>1. [c EXCEPT !.bridged = TRUE] \in coverage' BY <2>1 DEF Renamed
    <3>2. [c EXCEPT !.bridged = TRUE].instrument = c.instrument
      BY DEF CoverageRow
    <3> QED BY <3>1, <3>2
  <2>2. CASE c \notin ToBridge BY <2>2
  <2> QED BY <2>1, <2>2
<1>2. ASSUME NEW d \in coverage' PROVE \E c \in coverage : c.instrument = d.instrument
  <2>1. CASE d \in Renamed
    <3>1. PICK c \in ToBridge : d = [c EXCEPT !.bridged = TRUE] BY <2>1 DEF Renamed
    <3>2. c \in coverage /\ d.instrument = c.instrument BY <3>1 DEF ToBridge, CoverageRow
    <3> QED BY <3>2
  <2>2. CASE d \notin Renamed BY <2>2
  <2> QED BY <2>1, <2>2
<1> QED BY <1>1, <1>2 DEF Covered

\* Renaming one row of each instrument leaves one row of each.
LEMMA BridgeCoversOnce ==
  ASSUME coverage \subseteq CoverageRow, CoveredOnce,
         coverage' = (coverage \ ToBridge) \cup Renamed
  PROVE  CoveredOnce'
<1>1. ASSUME NEW d \in coverage'
      PROVE  \E c \in coverage : /\ c.instrument = d.instrument
                                 /\ d = IF c \in ToBridge THEN [c EXCEPT !.bridged = TRUE] ELSE c
  <2>1. CASE d \in Renamed
    <3>1. PICK c \in ToBridge : d = [c EXCEPT !.bridged = TRUE] BY <2>1 DEF Renamed
    <3>2. c \in coverage /\ d.instrument = c.instrument BY <3>1 DEF ToBridge, CoverageRow
    <3> QED BY <3>1, <3>2
  <2>2. CASE d \notin Renamed BY <2>2
  <2> QED BY <2>1, <2>2
<1> SUFFICES ASSUME NEW d \in coverage', NEW e \in coverage', d.instrument = e.instrument
             PROVE  d = e
  BY DEF CoveredOnce
<1>2. PICK c \in coverage : /\ c.instrument = d.instrument
                            /\ d = IF c \in ToBridge THEN [c EXCEPT !.bridged = TRUE] ELSE c
  BY <1>1
<1>3. PICK b \in coverage : /\ b.instrument = e.instrument
                            /\ e = IF b \in ToBridge THEN [b EXCEPT !.bridged = TRUE] ELSE b
  BY <1>1
<1>4. b = c BY <1>2, <1>3 DEF CoveredOnce
<1> QED BY <1>2, <1>3, <1>4

\* A step of job j keeps the invariant if it leaves j, when j is alone, as far
\* as LoneProgress says.
LEMMA MovesKeepsLone ==
  ASSUME LoneInv, NEW j \in Jobs, NEW pc, Moves(j, pc),
         job[j].alone /\ pc # "ended" => LoneProgress(j)'
  PROVE  LoneInv'
<1>1. ASSUME NEW k \in Jobs, UnderWay(k)' PROVE UnderWay(k) /\ job'[k].alone = job[k].alone
  BY <1>1 DEF Moves, UnderWay
<1>2. LoneIsAlone' BY <1>1 DEF LoneInv, LoneIsAlone, Lone
<1>3. ASSUME NEW k \in Jobs, Lone(k)' PROVE LoneProgress(k)'
  <2>1. Lone(k) /\ k = j BY <1>1, <1>3 DEF Lone, LoneInv, LoneIsAlone, Moves
  <2> QED BY <1>3, <2>1 DEF Moves, Lone, UnderWay
<1> QED BY <1>2, <1>3 DEF LoneInv

LEMMA EndKeepsLone ==
  ASSUME JobsOK, LoneInv, NEW j \in Jobs, UnderWay(j), Goto(j, "ended")
  PROVE  LoneInv'
<1>1. Moves(j, "ended") BY GotoMoves DEF Pc
<1> QED BY <1>1, MovesKeepsLone

LEMMA LoneStep == TypeOK /\ StepsOK /\ LoneInv /\ [Next]_vars => LoneInv'
<1> SUFFICES ASSUME TypeOK, StepsOK, LoneInv, [Next]_vars PROVE LoneInv'
  OBVIOUS
<1>0. JobsOK /\ coverage \subseteq CoverageRow /\ dirs \in [Versions -> Directory]
  BY DEF TypeOK, JobsOK
<1>a. ASSUME NEW j \in Jobs
      PROVE  /\ job[j].kind \in Kind /\ StepOK(j) /\ Versioned(j)
             /\ UnderWay(j) /\ job[j].alone => LoneProgress(j)
  BY <1>0 DEF TypeOK, JobsOK, JobState, StepsOK, StepOK, Versioned, LoneInv, Lone
<1>1. ASSUME NEW j \in Jobs, NEW kind \in Kind, Create(j, kind) PROVE LoneInv'
  <2>1. /\ job'[j].pc = "queued" /\ job[j].pc = "new"
        /\ job'[j].alone <=> \A k \in Jobs : ~UnderWay(k)
    BY <1>1 DEF Create, NewJob
  <2>2. ASSUME NEW k \in Jobs, k # j
        PROVE  /\ UnderWay(k)' <=> UnderWay(k)
               /\ UnderWay(k) => ~job'[k].alone
    <3>1. job[k] \in JobState BY <1>0 DEF JobsOK
    <3>2. job'[k] = IF UnderWay(k) THEN [job[k] EXCEPT !.alone = FALSE] ELSE job[k]
      BY <1>1, <2>2 DEF Create
    <3> QED BY <3>1, <3>2 DEF JobState, UnderWay
  <2>3. \A k \in Jobs : Lone(k)' => k = j /\ \A i \in Jobs : i # j => ~UnderWay(i)'
    BY <2>1, <2>2 DEF Lone, UnderWay
  <2>4. LoneIsAlone' BY <2>3 DEF LoneIsAlone
  <2>5. LoneProgress(j)' BY <2>1 DEF LoneProgress
  <2> QED BY <2>3, <2>4, <2>5 DEF LoneInv
<1>2. ASSUME NEW j \in Jobs, Start(j) PROVE LoneInv'
  <2> DEFINE pc == IF job[j].kind = "install" THEN "fetch" ELSE "look"
  <2>1. Goto(j, pc) /\ pc \in Pc /\ pc \in {"fetch", "look"} /\ UnderWay(j)
    BY <1>2 DEF Start, Pc, UnderWay
  <2>2. Moves(j, pc) BY <1>0, <2>1, GotoMoves
  <2>3. LoneProgress(j)' BY <2>1, <2>2 DEF LoneProgress, Moves
  <2> HIDE DEF pc
  <2> QED BY <2>2, <2>3, MovesKeepsLone
<1>3. ASSUME NEW j \in Jobs, Stop(j) \/ Report(j) \/ RefuseMove(j) \/ RefuseInsert(j)
      PROVE  LoneInv'
  BY <1>0, <1>3, EndKeepsLone DEF Stop, EndFailed, Report, RefuseMove, RefuseInsert, UnderWay
<1>4. ASSUME NEW j \in Jobs, Fetch(j) PROVE LoneInv'
  <2>1. Moves(j, "clear") BY <1>0, <1>4, FetchMoves
  <2>2. LoneProgress(j)' BY <2>1 DEF LoneProgress, Moves
  <2> QED BY <2>1, <2>2, MovesKeepsLone
<1>5. ASSUME NEW j \in Jobs, Look(j) PROVE LoneInv'
  <2>1. ASSUME NEW pc \in {"delete", "clear"}, Moves(j, pc) PROVE LoneInv'
    <3>1. LoneProgress(j)' BY <2>1 DEF LoneProgress, Moves
    <3> QED BY <2>1, <3>1, MovesKeepsLone
  <2>2. ASSUME Moves(j, "verify"), job'[j].version = pack PROVE LoneInv'
    <3>1. LoneProgress(j)' BY <1>5, <2>2 DEF LoneProgress, Moves, Look
    <3> QED BY <2>2, <3>1, MovesKeepsLone
  <2> QED BY <1>0, <1>5, <2>1, <2>2, LookMoves
<1>6. ASSUME NEW j \in Jobs, Clear(j) PROVE LoneInv'
  <2> DEFINE pc == IF job[j].kind = "install" THEN "move" ELSE "delete"
  <2>1. Goto(j, pc) /\ pc \in Pc /\ pc \in {"move", "delete"} /\ UnderWay(j)
    BY <1>6 DEF Clear, Pc, UnderWay
  <2>2. Moves(j, pc) BY <1>0, <2>1, GotoMoves
  <2>3. LoneProgress(j)' BY <2>1, <2>2 DEF LoneProgress, Moves
  <2> HIDE DEF pc
  <2> QED BY <2>2, <2>3, MovesKeepsLone
<1>7. ASSUME NEW j \in Jobs, ClearPartly(j) PROVE LoneInv'
  <2>1. UnderWay(j) BY <1>7 DEF ClearPartly, UnderWay
  <2>2. CASE EndFailed(j) BY <1>0, <2>1, <2>2, EndKeepsLone DEF EndFailed
  <2>3. CASE Goto(j, "move")
    <3>1. Moves(j, "move") BY <1>0, <2>1, <2>3, GotoMoves DEF Pc
    <3>2. LoneProgress(j)' BY <3>1 DEF LoneProgress, Moves
    <3> QED BY <3>1, <3>2, MovesKeepsLone
  <2> QED BY <1>7, <2>2, <2>3 DEF ClearPartly
<1>8. ASSUME NEW j \in Jobs, Move(j) PROVE LoneInv'
  <2>1. Moves(j, "upsert") /\ job'[j].version = job[j].version
    BY <1>0, <1>8, GotoMoves DEF Move, UnderWay, Pc
  <2>2. job[j].version \in Versions BY <1>8, <1>a DEF Move, Versioned
  <2>3. dirs'[job[j].version] = "whole" BY <1>0, <1>8, <2>2 DEF Move
  <2>4. LoneProgress(j)' BY <2>1, <2>3 DEF LoneProgress, Moves
  <2> QED BY <2>1, <2>4, MovesKeepsLone
<1>9. ASSUME NEW j \in Jobs, Upsert(j) PROVE LoneInv'
  <2>1. Moves(j, "erase") /\ job'[j].version = job[j].version
    BY <1>0, <1>9, GotoMoves DEF Upsert, UnderWay, Pc
  <2>2. pack' = job[j].version /\ dirs' = dirs BY <1>9 DEF Upsert
  <2>3. job[j].alone => dirs[job[j].version] = "whole"
    BY <1>9, <1>a DEF Upsert, UnderWay, LoneProgress
  <2>4. job[j].alone => LoneProgress(j)' BY <2>1, <2>2, <2>3 DEF LoneProgress, Moves
  <2> QED BY <2>1, <2>4, MovesKeepsLone
<1>10. ASSUME NEW j \in Jobs, Delete(j) PROVE LoneInv'
  <2>1. Moves(j, "report") /\ job[j].kind = "remove"
    BY <1>0, <1>10, <1>a, GotoMoves, StepsValues DEF Delete, UnderWay, Pc, StepOK, Kind
  <2>2. pack' = NoPack /\ coverage' = {} BY <1>10 DEF Delete
  <2>3. LoneProgress(j)' BY <2>1, <2>2 DEF LoneProgress, Moves
  <2> QED BY <2>1, <2>3, MovesKeepsLone
<1>11. ASSUME NEW j \in Jobs, Verify(j) PROVE LoneInv'
  <2>1. Moves(j, "erase") /\ job'[j].version = job[j].version
    BY <1>0, <1>11, GotoMoves DEF Verify, UnderWay, Pc
  <2>2. pack' = pack /\ dirs' = dirs /\ dirs[job[j].version] = "whole" BY <1>11 DEF Verify
  <2>3. job[j].alone => pack = job[j].version
    BY <1>11, <1>a DEF Verify, UnderWay, LoneProgress
  <2>4. job[j].alone => LoneProgress(j)' BY <2>1, <2>2, <2>3 DEF LoneProgress, Moves
  <2> QED BY <2>1, <2>4, MovesKeepsLone
<1>12. ASSUME NEW j \in Jobs, Erase(j) PROVE LoneInv'
  <2>1. Moves(j, "insert") /\ job'[j].version = job[j].version
    BY <1>0, <1>12, GotoMoves DEF Erase, UnderWay, Pc
  <2>2. pack' = pack /\ dirs' = dirs /\ coverage' = {} BY <1>12 DEF Erase
  <2>3. job[j].alone => pack = job[j].version /\ dirs[job[j].version] = "whole"
    BY <1>12, <1>a DEF Erase, UnderWay, LoneProgress
  <2>4. job[j].alone => LoneProgress(j)' BY <2>1, <2>2, <2>3 DEF LoneProgress, Moves
  <2> QED BY <2>1, <2>4, MovesKeepsLone
<1>13. ASSUME NEW j \in Jobs, Insert(j) PROVE LoneInv'
  <2>1. Moves(j, "bridge") /\ job'[j].version = job[j].version
    BY <1>0, <1>13, GotoMoves DEF Insert, UnderWay, Pc
  <2>2. /\ pack' = pack /\ dirs' = dirs
        /\ coverage' = coverage \cup CoverageRows(job[j].version, FALSE)
    BY <1>13 DEF Insert
  <2>3. job[j].alone => /\ pack = job[j].version /\ dirs[job[j].version] = "whole"
                        /\ coverage = {}
    BY <1>13, <1>a DEF Insert, UnderWay, LoneProgress
  <2>4. CoverageRows(job[j].version, FALSE)' = CoverageRows(job[j].version, FALSE)
    BY <2>1 DEF CoverageRows
  <2>5. job[j].alone => LoneProgress(j)'
    BY <2>1, <2>2, <2>3, <2>4 DEF LoneProgress, Moves
  <2> QED BY <2>1, <2>5, MovesKeepsLone
<1>14. ASSUME NEW j \in Jobs, Bridge(j) PROVE LoneInv'
  <2> DEFINE v == job[j].version
  <2>1. Moves(j, "report") /\ job'[j].version = v /\ job[j].kind # "remove"
    BY <1>0, <1>14, <1>a, GotoMoves, StepsValues DEF Bridge, UnderWay, Pc, StepOK, Kind
  <2>2. /\ pack' = pack /\ dirs' = dirs
        /\ coverage' = coverage \/ coverage' = (coverage \ ToBridge) \cup Renamed
    BY <1>14 DEF Bridge
  <2> SUFFICES ASSUME job[j].alone PROVE LoneProgress(j)'
    BY <2>1, MovesKeepsLone
  <2>3. pack = v /\ dirs[v] = "whole" /\ coverage = CoverageRows(v, FALSE)
    BY <1>14, <1>a DEF Bridge, UnderWay, LoneProgress
  <2>4. Covered = Manifest[v] /\ CoveredOnce BY <2>3, CoverageCovers
  <2>5. Covered' = Manifest[v] /\ CoveredOnce'
    BY <1>0, <2>2, <2>4, BridgeCovers, BridgeCoversOnce DEF Covered, CoveredOnce
  <2> QED BY <2>1, <2>2, <2>3, <2>5 DEF LoneProgress, Moves, Installed
<1>15. CASE UNCHANGED <<dirs, pack, coverage, job>>
  BY <1>15 DEF LoneInv, LoneIsAlone, Lone, UnderWay, LoneProgress, Installed, Covered,
               CoveredOnce, CoverageRows
<1> QED
  BY <1>1, <1>2, <1>3, <1>4, <1>5, <1>6, <1>7, <1>8, <1>9, <1>10, <1>11, <1>12, <1>13,
     <1>14, <1>15 DEF Next, Run, ReadForCancel, WriteCancel, Publish, vars

LEMMA LoneInit == Init => LoneInv
BY DEF Init, LoneInv, LoneIsAlone, Lone, UnderWay, NewJob

\* A job that runs alone and is reported as succeeded has put row, directory
\* and coverage right, whatever it found.
THEOREM LoneRestores == Spec => LoneSuccessRestores
<1> DEFINE Restores ==
      \A j \in Jobs :
        job[j].pc = "report" /\ job'[j].pc = "ended" /\ status'[j] = "succeeded" /\ job[j].alone =>
          IF job[j].kind = "remove" THEN pack = NoPack /\ coverage = {}
          ELSE Installed(job[j].version) /\ CoveredOnce
<1>1. Init => TypeOK /\ StepsOK /\ LoneInv BY TypeInit, StepsInit, LoneInit
<1>2. (TypeOK /\ StepsOK /\ LoneInv) /\ [Next]_vars => (TypeOK /\ StepsOK /\ LoneInv)'
  BY TypeStep, StepsStep, LoneStep
<1>3. LoneInv => Restores BY DEF LoneInv, Lone, UnderWay, LoneProgress
<1> QED BY <1>1, <1>2, <1>3, PTL DEF Spec, LoneSuccessRestores

-----------------------------------------------------------------------------
(* Installs of one version.  In a history of nothing else, without mishap, *)
(* each part of InstallProgress is either true or in the hands of a job    *)
(* that is about to make it true.                                          *)

\* A step of j changes which steps are taken only where j left or came.
LEMMA AtAfter ==
  ASSUME NEW j \in Jobs, NEW pc, Moves(j, pc), NEW pcs
  PROVE  /\ pc \in pcs => At(pcs)'
         /\ At(pcs) /\ job[j].pc \notin pcs => At(pcs)'
         /\ At(pcs)' /\ pc \notin pcs => At(pcs)
BY DEF At, Moves

\* What only installs have done, without mishap, was so a step before.
LEMMA OnlyInstallsBefore ==
  ASSUME TypeOK, StepsOK, [Next]_vars, NEW v \in Versions, OnlyInstallsOf(v)', ~mishap'
  PROVE  OnlyInstallsOf(v) /\ ~mishap
<1>0. JobsOK BY DEF TypeOK, JobsOK
<1>1. ~mishap
  BY DEF Next, Run, vars, Create, Start, Stop, Report, Fetch, Look, Clear, ClearPartly, Move,
         RefuseMove, Upsert, Delete, Verify, Erase, Insert, RefuseInsert, Bridge,
         ReadForCancel, WriteCancel, Publish
<1> SUFFICES ASSUME NEW k \in Jobs, job[k].pc # "new"
             PROVE  job[k].kind = "install" /\ job[k].version \in {v, NoPack}
  BY <1>1 DEF OnlyInstallsOf
<1>2. job[k] \in JobState BY <1>0 DEF JobsOK
<1> SUFFICES /\ job'[k].pc # "new" /\ job'[k].kind = job[k].kind
             /\ job'[k].version = job[k].version \/ job[k].version = NoPack
  BY DEF OnlyInstallsOf
<1>3. CASE job'[k] = job[k] BY <1>3
<1>4. ASSUME NEW j \in Jobs, NEW kind \in Kind, Create(j, kind)
      PROVE  /\ job'[k].pc = job[k].pc /\ job'[k].kind = job[k].kind
             /\ job'[k].version = job[k].version
  <2>1. k # j BY <1>4 DEF Create
  <2>2. job'[k] = job[k] \/ job'[k] = [job[k] EXCEPT !.alone = FALSE]
    BY <1>4, <2>1 DEF Create
  <2> QED BY <1>2, <2>2 DEF JobState
<1>5. ASSUME NEW j \in Jobs, NEW pc \in Pc \ {"new"}, Goto(j, pc)
      PROVE  /\ job'[k].pc # "new" /\ job'[k].kind = job[k].kind
             /\ job'[k].version = job[k].version
  BY <1>0, <1>5, GotoOne
<1>6. ASSUME NEW j \in Jobs, Fetch(j)
      PROVE  /\ job'[k].pc # "new" /\ job'[k].kind = job[k].kind
             /\ job'[k].version = job[k].version \/ job[k].version = NoPack
  <2>1. Moves(j, "clear") BY <1>0, <1>6, FetchMoves
  <2>2. job[j].version = NoPack BY <1>6 DEF Fetch, StepsOK
  <2> QED BY <2>1, <2>2 DEF Moves
<1>7. ASSUME NEW j \in Jobs, Look(j)
      PROVE  /\ job'[k].pc # "new" /\ job'[k].kind = job[k].kind
             /\ job'[k].version = job[k].version \/ job[k].version = NoPack
  <2>1. PICK pc \in {"delete", "verify", "clear"} : Moves(j, pc)
    BY <1>0, <1>7, LookMoves
  <2>2. job[j].version = NoPack BY <1>7 DEF Look, StepsOK
  <2> QED BY <2>1, <2>2 DEF Moves
<1>8. ASSUME NEW j \in Jobs, Start(j)
      PROVE  \E pc \in Pc \ {"new"} : Goto(j, pc)
  <2>1. Goto(j, IF job[j].kind = "install" THEN "fetch" ELSE "look") BY <1>8 DEF Start
  <2>2. CASE job[j].kind = "install"
    <3>1. Goto(j, "fetch") BY <2>1, <2>2
    <3> QED BY <3>1 DEF Pc
  <2>3. CASE job[j].kind # "install"
    <3>1. Goto(j, "look") BY <2>1, <2>3
    <3> QED BY <3>1 DEF Pc
  <2> QED BY <2>2, <2>3
<1>9. ASSUME NEW j \in Jobs, Clear(j)
      PROVE  \E pc \in Pc \ {"new"} : Goto(j, pc)
  <2>1. Goto(j, IF job[j].kind = "install" THEN "move" ELSE "delete") BY <1>9 DEF Clear
  <2>2. CASE job[j].kind = "install"
    <3>1. Goto(j, "move") BY <2>1, <2>2
    <3> QED BY <3>1 DEF Pc
  <2>3. CASE job[j].kind # "install"
    <3>1. Goto(j, "delete") BY <2>1, <2>3
    <3> QED BY <3>1 DEF Pc
  <2> QED BY <2>2, <2>3
<1>10. ASSUME NEW j \in Jobs,
              \/ Stop(j) \/ Report(j) \/ ClearPartly(j) \/ Move(j) \/ RefuseMove(j)
              \/ Upsert(j) \/ Delete(j) \/ Verify(j) \/ Erase(j) \/ Insert(j)
              \/ RefuseInsert(j) \/ Bridge(j)
       PROVE  \E pc \in Pc \ {"new"} : Goto(j, pc)
  <2>1. \E pc \in {"ended", "move", "upsert", "erase", "insert", "bridge", "report"} : Goto(j, pc)
    BY <1>10 DEF Stop, EndFailed, Report, ClearPartly, Move, RefuseMove, Upsert, Delete, Verify,
                 Erase, Insert, RefuseInsert, Bridge
  <2> QED BY <2>1 DEF Pc
<1>11. ASSUME NEW j \in Jobs, \E pc \in Pc \ {"new"} : Goto(j, pc)
       PROVE  /\ job'[k].pc # "new" /\ job'[k].kind = job[k].kind
              /\ job'[k].version = job[k].version
  BY <1>5, <1>11
<1>12. CASE job' = job BY <1>3, <1>12
<1> QED
  BY <1>4, <1>6, <1>7, <1>8, <1>9, <1>10, <1>11, <1>12
  DEF Next, Run, ReadForCancel, WriteCancel, Publish, vars

\* The first part of InstallProgress: some install of v is past its RemoveAll.
Past(v) == \E j \in Jobs : job[j].version = v /\ job[j].pc # "clear"

LEMMA PastAfter ==
  ASSUME NEW v, NEW j \in Jobs, NEW pc, Moves(j, pc), Past(v)'
  PROVE  Past(v) \/ (job'[j].version = v /\ pc # "clear")
BY DEF Past, Moves

\* A step that leaves directories, row and coverage alone, and takes no job to
\* or from a step that InstallProgress speaks of.
LEMMA QuietStep ==
  ASSUME NEW v, InstallProgress(v), UNCHANGED <<dirs, pack, coverage>>,
         Past(v)' => Past(v),
         \A pcs \in {{"move"}, {"upsert"}, {"erase", "insert"}, {"erase", "insert", "bridge"}} :
           At(pcs)' <=> At(pcs)
  PROVE  InstallProgress(v)'
BY DEF InstallProgress, Past, Covered

LEMMA InstallsStep ==
  TypeOK /\ StepsOK /\ InstallsInv /\ [Next]_vars => InstallsInv'
<1> SUFFICES ASSUME TypeOK, StepsOK, InstallsInv, [Next]_vars,
                    NEW v \in Versions, OnlyInstallsOf(v)', ~mishap'
             PROVE  InstallProgress(v)'
  BY DEF InstallsInv
<1>0. JobsOK /\ coverage \subseteq CoverageRow /\ dirs \in [Versions -> Directory]
  BY DEF TypeOK, JobsOK
<1>a. OnlyInstallsOf(v) /\ ~mishap BY OnlyInstallsBefore
<1>b. InstallProgress(v) BY <1>a DEF InstallsInv
<1>c. v # NoPack OBVIOUS
<1>d. ASSUME NEW j \in Jobs
      PROVE  /\ StepOK(j) /\ Versioned(j)
             /\ job[j].pc # "new" => job[j].kind = "install" /\ job[j].version \in {v, NoPack}
  BY <1>0, <1>a DEF TypeOK, StepsOK, StepOK, Versioned, OnlyInstallsOf
<1>1. ASSUME NEW j \in Jobs, NEW kind \in Kind, Create(j, kind) PROVE InstallProgress(v)'
  <2>1. job'[j].pc = "queued" /\ job'[j].version = NoPack /\ job[j].pc = "new"
    BY <1>1 DEF Create, NewJob
  <2>2. ASSUME NEW k \in Jobs, k # j
        PROVE  job'[k].pc = job[k].pc /\ job'[k].version = job[k].version
    <3>1. job[k] \in JobState BY <1>0 DEF JobsOK
    <3>2. job'[k] = job[k] \/ job'[k] = [job[k] EXCEPT !.alone = FALSE]
      BY <1>1, <2>2 DEF Create
    <3> QED BY <3>1, <3>2 DEF JobState
  <2>3. Past(v)' => Past(v) BY <1>c, <2>1, <2>2 DEF Past
  <2>4. \A pcs \in {{"move"}, {"upsert"}, {"erase", "insert"}, {"erase", "insert", "bridge"}} :
          At(pcs)' <=> At(pcs)
    BY <2>1, <2>2 DEF At
  <2> QED BY <1>b, <1>1, <2>3, <2>4, QuietStep DEF Create
<1>2. ASSUME NEW j \in Jobs, NEW pc \in {"fetch", "look", "clear", "ended", "report"},
             Moves(j, pc), UNCHANGED <<dirs, pack, coverage>>,
             job[j].pc \in {"queued", "fetch", "look", "report"},
             job'[j].version = v /\ pc # "clear" => Past(v)
      PROVE  InstallProgress(v)'
  <2>1. Past(v)' => Past(v) BY <1>2, PastAfter
  <2>2. \A pcs \in {{"move"}, {"upsert"}, {"erase", "insert"}, {"erase", "insert", "bridge"}} :
          At(pcs)' <=> At(pcs)
    BY <1>2 DEF At, Moves
  <2> QED BY <1>b, <1>2, <2>1, <2>2, QuietStep
<1>3. ASSUME NEW j \in Jobs, Start(j) PROVE InstallProgress(v)'
  <2>1. /\ Goto(j, "fetch") /\ UnderWay(j) /\ job[j].pc = "queued"
        /\ job[j].version = NoPack
    BY <1>3, <1>d DEF Start, UnderWay, StepOK
  <2>2. Moves(j, "fetch") /\ job'[j].version = job[j].version BY <1>0, <2>1, GotoMoves DEF Pc
  <2> QED BY <1>2, <1>3, <1>c, <2>1, <2>2 DEF Start
<1>4. ASSUME NEW j \in Jobs, Stop(j) PROVE InstallProgress(v)'
  <2>1. UnderWay(j) /\ Goto(j, "ended") /\ ~Committed(j) BY <1>4 DEF Stop, EndFailed
  <2>2. job[j].pc \in {"queued", "fetch"}
    BY <2>1, <1>d, StepsValues DEF UnderWay, Committed, StepOK
  <2>3. job[j].version = NoPack BY <2>2, <1>d DEF StepOK
  <2>4. Moves(j, "ended") /\ job'[j].version = NoPack BY <1>0, <2>1, <2>3, GotoMoves DEF Pc
  <2> QED BY <1>2, <1>4, <1>c, <2>2, <2>4 DEF Stop
<1>5. ASSUME NEW j \in Jobs, Report(j) PROVE InstallProgress(v)'
  <2>1. job[j].pc = "report" /\ Goto(j, "ended") /\ UnderWay(j) BY <1>5 DEF Report, UnderWay
  <2>2. Moves(j, "ended") /\ job'[j].version = job[j].version BY <1>0, <2>1, GotoMoves DEF Pc
  <2>3. job[j].version = v => Past(v) BY <2>1 DEF Past
  <2> QED BY <1>2, <1>5, <2>1, <2>2, <2>3 DEF Report
<1>6. ASSUME NEW j \in Jobs, Fetch(j) PROVE InstallProgress(v)'
  <2>1. Moves(j, "clear") /\ job[j].pc = "fetch" BY <1>0, <1>6, FetchMoves DEF Fetch
  <2> QED BY <1>2, <1>6, <2>1 DEF Fetch
<1>7. ASSUME NEW j \in Jobs, Clear(j) PROVE InstallProgress(v)'
  <2>1. job[j].pc = "clear" /\ job[j].kind = "install" /\ job[j].version = v
    BY <1>7, <1>c, <1>d DEF Clear, Versioned
  <2>2. Moves(j, "move") BY <1>0, <1>7, <2>1, GotoMoves DEF Clear, UnderWay, Pc
  <2>3. /\ dirs'[v] = "none" /\ pack' = pack /\ coverage' = coverage
    BY <1>0, <1>7, <2>1 DEF Clear
  <2>4. At({"move"})' BY <2>2, AtAfter
  <2>5. At({"erase", "insert"}) => At({"erase", "insert"})' BY <2>1, <2>2, AtAfter
  <2>6. At({"erase", "insert", "bridge"})' => At({"erase", "insert", "bridge"})
    BY <2>2, AtAfter
  <2> QED BY <1>b, <2>3, <2>4, <2>5, <2>6 DEF InstallProgress, Covered
<1>8. ASSUME NEW j \in Jobs, Move(j) PROVE InstallProgress(v)'
  <2>1. job[j].pc = "move" /\ job[j].version = v BY <1>8, <1>c, <1>d DEF Move, Versioned
  <2>2. Moves(j, "upsert") BY <1>0, <1>8, GotoMoves DEF Move, UnderWay, Pc
  <2>3. /\ dirs'[v] = "whole" /\ pack' = pack /\ coverage' = coverage
    BY <1>0, <1>8, <2>1 DEF Move
  <2>4. At({"upsert"})' BY <2>2, AtAfter
  <2>5. At({"erase", "insert"}) => At({"erase", "insert"})' BY <2>1, <2>2, AtAfter
  <2>6. At({"erase", "insert", "bridge"})' => At({"erase", "insert", "bridge"})
    BY <2>2, AtAfter
  <2> QED BY <1>b, <2>3, <2>4, <2>5, <2>6 DEF InstallProgress, Covered
<1>9. ASSUME NEW j \in Jobs, RefuseMove(j) PROVE InstallProgress(v)'
  <2>1. job[j].pc = "move" /\ job[j].version = v /\ dirs[v] # "none"
    BY <1>9, <1>c, <1>d DEF RefuseMove, Versioned
  <2>2. Moves(j, "ended")
    BY <1>0, <1>9, GotoMoves DEF RefuseMove, EndFailed, UnderWay, Pc
  <2>3. dirs' = dirs /\ pack' = pack /\ coverage' = coverage BY <1>9 DEF RefuseMove
  <2>4. dirs[v] = "whole" BY <1>0, <1>b, <2>1 DEF InstallProgress, Directory
  <2>5. At({"upsert"}) => At({"upsert"})' BY <2>1, <2>2, AtAfter
  <2>6. At({"erase", "insert"}) => At({"erase", "insert"})' BY <2>1, <2>2, AtAfter
  <2>7. At({"erase", "insert", "bridge"})' => At({"erase", "insert", "bridge"})
    BY <2>2, AtAfter
  <2> QED BY <1>b, <2>3, <2>4, <2>5, <2>6, <2>7 DEF InstallProgress, Covered
<1>10. ASSUME NEW j \in Jobs, Upsert(j) PROVE InstallProgress(v)'
  <2>1. job[j].pc = "upsert" /\ job[j].version = v BY <1>10, <1>c, <1>d DEF Upsert, Versioned
  <2>2. Moves(j, "erase") BY <1>0, <1>10, GotoMoves DEF Upsert, UnderWay, Pc
  <2>3. dirs' = dirs /\ pack' = v /\ coverage' = coverage BY <1>10, <2>1 DEF Upsert
  <2>4. At({"erase", "insert"})' BY <2>2, AtAfter
  <2>5. Past(v) BY <2>1 DEF Past
  <2>6. At({"move"}) => At({"move"})' BY <2>1, <2>2, AtAfter
  <2> QED BY <1>b, <2>3, <2>4, <2>5, <2>6 DEF InstallProgress, Covered, Past
<1>11. ASSUME NEW j \in Jobs, Erase(j) PROVE InstallProgress(v)'
  <2>1. job[j].pc = "erase" /\ job[j].version = v BY <1>11, <1>c, <1>d DEF Erase, Versioned
  <2>2. Moves(j, "insert") BY <1>0, <1>11, GotoMoves DEF Erase, UnderWay, Pc
  <2>3. dirs' = dirs /\ pack' = pack /\ coverage' = {} BY <1>11 DEF Erase
  <2>4. At({"erase", "insert"})' BY <2>2, AtAfter
  <2>5. pack = v BY <1>b, <2>1 DEF InstallProgress, At
  <2>6. Past(v) BY <2>1 DEF Past
  <2>7. At({"move"}) => At({"move"})' BY <2>1, <2>2, AtAfter
  <2> QED BY <1>b, <2>3, <2>4, <2>5, <2>6, <2>7 DEF InstallProgress, Covered, Past
<1>12. ASSUME NEW j \in Jobs, Insert(j) PROVE InstallProgress(v)'
  <2>1. job[j].pc = "insert" /\ job[j].version = v BY <1>12, <1>c, <1>d DEF Insert, Versioned
  <2>2. Moves(j, "bridge") BY <1>0, <1>12, GotoMoves DEF Insert, UnderWay, Pc
  <2>3. dirs' = dirs /\ pack' = pack /\ coverage' = coverage \cup CoverageRows(v, FALSE)
    BY <1>12, <2>1 DEF Insert
  <2>4. pack = v BY <1>b, <2>1 DEF InstallProgress, At
  <2>5. Past(v) BY <2>1 DEF Past
  <2>6. At({"move"}) => At({"move"})' BY <2>1, <2>2, AtAfter
  <2>7. Covered' = Manifest[v]
    <3>1. Covered \subseteq Manifest[v] BY <1>b DEF InstallProgress, Covered
    <3>2. ASSUME NEW i \in Covered' PROVE i \in Manifest[v]
      <4>1. PICK c \in coverage \cup CoverageRows(v, FALSE) : i = c.instrument
        BY <2>3 DEF Covered
      <4>2. CASE c \in coverage BY <3>1, <4>1, <4>2 DEF Covered
      <4>3. CASE c \in CoverageRows(v, FALSE) BY <4>1, <4>3, RowsOfVersion
      <4> QED BY <4>2, <4>3
    <3>3. ASSUME NEW i \in Manifest[v] PROVE i \in Covered'
      <4>1. PICK c \in CoverageRows(v, FALSE) : c.instrument = i BY RowsOfVersion
      <4> QED BY <2>3, <4>1 DEF Covered
    <3> QED BY <3>2, <3>3
  <2> QED BY <1>b, <2>3, <2>4, <2>5, <2>6, <2>7 DEF InstallProgress, Past
<1>13. ASSUME NEW j \in Jobs, RefuseInsert(j) PROVE InstallProgress(v)'
  <2>1. job[j].pc = "insert" /\ job[j].version = v /\ ~Insertable(v)
    BY <1>13, <1>c, <1>d DEF RefuseInsert, Versioned
  <2>2. Moves(j, "ended")
    BY <1>0, <1>13, GotoMoves DEF RefuseInsert, EndFailed, UnderWay, Pc
  <2>3. dirs' = dirs /\ pack' = pack /\ coverage' = coverage BY <1>13 DEF RefuseInsert
  <2>4. pack = v BY <1>b, <2>1 DEF InstallProgress, At
  <2>5. coverage # {} BY <1>c, <2>1, <2>4 DEF Insertable
  <2>6. Covered = Manifest[v] BY <1>b, <2>5 DEF InstallProgress
  <2>7. Past(v) BY <2>1 DEF Past
  <2>8. At({"move"}) => At({"move"})' BY <2>1, <2>2, AtAfter
  <2> QED BY <1>b, <2>3, <2>4, <2>6, <2>7, <2>8 DEF InstallProgress, Covered, Past
<1>14. ASSUME NEW j \in Jobs, Bridge(j) PROVE InstallProgress(v)'
  <2>1. job[j].pc = "bridge" BY <1>14 DEF Bridge
  <2>2. Moves(j, "report") BY <1>0, <1>14, GotoMoves DEF Bridge, UnderWay, Pc
  <2>3. /\ dirs' = dirs /\ pack' = pack
        /\ coverage' = coverage \/ coverage' = (coverage \ ToBridge) \cup Renamed
    BY <1>14 DEF Bridge
  <2>4. Covered' = Covered BY <1>0, <2>3, BridgeCovers DEF Covered
  <2>5. coverage = {} => coverage' = {} BY <2>3 DEF ToBridge, Renamed
  <2>6. pack = v BY <1>b, <2>1 DEF InstallProgress, At
  <2>7. Past(v)' => Past(v) \/ job[j].version = v
    BY <1>0, <1>14, <2>2, PastAfter, GotoOne DEF Bridge, Pc
  <2>8. Past(v)' => Past(v) BY <2>1, <2>7 DEF Past
  <2>9. At({"move"}) => At({"move"})' BY <2>1, <2>2, AtAfter
  <2>10. At({"erase", "insert"}) => At({"erase", "insert"})' BY <2>1, <2>2, AtAfter
  <2> QED BY <1>b, <2>3, <2>4, <2>5, <2>6, <2>8, <2>9, <2>10 DEF InstallProgress, Past
<1>15. ASSUME NEW j \in Jobs, Look(j) \/ ClearPartly(j) \/ Delete(j) \/ Verify(j) PROVE FALSE
  BY <1>15, <1>d, StepsValues DEF Look, ClearPartly, Delete, Verify, StepOK
<1>16. CASE UNCHANGED <<dirs, pack, coverage, job>>
  <2>1. (Past(v)' <=> Past(v)) /\ \A pcs : At(pcs)' <=> At(pcs) BY <1>16 DEF Past, At
  <2> QED BY <1>b, <1>16, <2>1, QuietStep
<1> QED
  BY <1>1, <1>3, <1>4, <1>5, <1>6, <1>7, <1>8, <1>9, <1>10, <1>11, <1>12, <1>13, <1>14, <1>15,
     <1>16 DEF Next, Run, ReadForCancel, WriteCancel, Publish, vars

LEMMA InstallsInit == Init => InstallsInv
<1> SUFFICES ASSUME Init, NEW v \in Versions PROVE InstallProgress(v)
  BY DEF InstallsInv
<1>1. \A j \in Jobs : job[j].pc = "new" /\ job[j].version = NoPack BY DEF Init, NewJob
<1>2. \A pcs : At(pcs) => "new" \in pcs BY <1>1 DEF At
<1> QED BY <1>1, <1>2 DEF Init, InstallProgress, At

\* Installs of one version that run together leave the pack complete, however
\* many there are and however their steps interleave.
THEOREM Converge == Spec => []InstallsConverge
<1>1. Init => TypeOK /\ StepsOK /\ InstallsInv BY TypeInit, StepsInit, InstallsInit
<1>2. (TypeOK /\ StepsOK /\ InstallsInv) /\ [Next]_vars => (TypeOK /\ StepsOK /\ InstallsInv)'
  BY TypeStep, StepsStep, InstallsStep
<1>3. TypeOK /\ StepsOK /\ InstallsInv => InstallsConverge
  <2> SUFFICES ASSUME StepsOK, InstallsInv, NEW v \in Versions, OnlyInstallsOf(v), ~mishap,
                      \A j \in Jobs : ~UnderWay(j), NEW j \in Jobs, job[j].version = v
               PROVE  Installed(v)
    BY DEF InstallsConverge
  <2>1. InstallProgress(v) BY DEF InstallsInv
  <2>2. \A k \in Jobs : job[k].pc \in {"new", "ended"} BY DEF UnderWay
  <2>3. job[j].pc # "clear" BY <2>2
  <2>4. ~At({"move"}) /\ ~At({"upsert"}) /\ ~At({"erase", "insert"}) BY <2>2 DEF At
  <2> QED BY <2>1, <2>3, <2>4 DEF InstallProgress, Installed
<1> QED BY <1>1, <1>2, <1>3, PTL DEF Spec
=============================================================================

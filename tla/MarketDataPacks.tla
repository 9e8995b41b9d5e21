-------------------------- MODULE MarketDataPacks --------------------------
(***************************************************************************)
(* Installing, removing and repairing one pack of market data: the row of  *)
(* market_data_packs, its coverage rows, the directories under the storage *)
(* path (one per version) and the jobs that change them.                   *)
(*                                                                         *)
(* A job runs on a goroutine or in a request and nothing keeps two jobs of *)
(* one pack apart; none is resumed after a crash.  It changes directory,   *)
(* row and coverage one after another, each step able to fail, so a job    *)
(* that stops half-way leaves them in disagreement.                        *)
(*                                                                         *)
(* One instrument stands for one coverage row and the files it names.  A   *)
(* row is inserted with the pack's own instrument id; the bridge renames   *)
(* it to the id of the instrument in the database when there is one.       *)
(***************************************************************************)
EXTENDS Integers, FiniteSets

CONSTANTS
  Jobs,         \* rows of market_data_pack_jobs of this pack
  Versions,     \* versions the registry may offer
  Instruments,  \* instruments that packs cover
  Manifest,     \* the instruments each version covers
  Matched,      \* instruments for which BridgeCoverage finds a database row
  NoPack        \* there is no row of market_data_packs

ASSUME VersionsAssumption ==
  Versions \subseteq Nat /\ Versions # {} /\ NoPack \notin Versions
ASSUME ManifestAssumption ==
  /\ IsFiniteSet(Instruments) /\ Matched \subseteq Instruments
  /\ Manifest \in [Versions -> SUBSET Instruments]

VARIABLES
  latest,    \* the version in the registry
  dirs,      \* the directory of each version
  pack,      \* the version of the row of market_data_packs
  coverage,  \* the rows of market_data_pack_coverage
  job,       \* what each job is doing
  status,    \* the status column of each job
  cancels,   \* jobs that a call of CancelPackJob read as queued
  mishap     \* a job stopped half-way through its changes

vars == <<latest, dirs, pack, coverage, job, status, cancels, mishap>>

\* part: RemoveAll stopped before it had removed every file.
Directory == {"none", "part", "whole"}

CoverageRow == [instrument : Instruments, bridged : BOOLEAN]

Kind   == {"install", "remove", "repair"}
Status == {"none", "queued", "running", "succeeded", "failed", "canceled"}

Pc == {"new", "queued", "fetch", "look", "clear", "move", "upsert", "verify",
       "erase", "insert", "bridge", "delete", "report", "ended"}

\* version: the version whose directory and manifest the job works on;
\* alone: no other job of the pack was under way together with it.
JobState == [kind : Kind, pc : Pc, version : Versions \cup {NoPack}, alone : BOOLEAN]

NewJob == [kind |-> "install", pc |-> "new", version |-> NoPack, alone |-> FALSE]

Init ==
  /\ latest \in Versions
  /\ dirs = [v \in Versions |-> "none"]
  /\ pack = NoPack
  /\ coverage = {}
  /\ job = [j \in Jobs |-> NewJob]
  /\ status = [j \in Jobs |-> "none"]
  /\ cancels = {}
  /\ mishap = FALSE

UnderWay(j) == job[j].pc \notin {"new", "ended"}

\* From here on the job has changed something, or is about to.
Committed(j) ==
  job[j].pc \in {"clear", "move", "upsert", "erase", "insert", "bridge", "delete", "report"}

-----------------------------------------------------------------------------
(* Steps that every job takes. *)

\* createJob.
Create(j, kind) ==
  LET others == {k \in Jobs : UnderWay(k)}
  IN  /\ job[j].pc = "new"
      /\ job' = [k \in Jobs |->
           IF k = j THEN [NewJob EXCEPT !.kind = kind, !.pc = "queued", !.alone = others = {}]
           ELSE IF k \in others THEN [job[k] EXCEPT !.alone = FALSE]
           ELSE job[k]]
      /\ status' = [status EXCEPT ![j] = "queued"]
      /\ UNCHANGED <<latest, dirs, pack, coverage, cancels, mishap>>

Goto(j, pc) == job' = [job EXCEPT ![j].pc = pc]

\* The job is marked running, over whatever a cancel wrote.  Remove and
\* repair go on when this write fails.
Start(j) ==
  /\ job[j].pc = "queued"
  /\ Goto(j, IF job[j].kind = "install" THEN "fetch" ELSE "look")
  /\ \/ status' = [status EXCEPT ![j] = "running"]
     \/ job[j].kind # "install" /\ UNCHANGED status
  /\ UNCHANGED <<latest, dirs, pack, coverage, cancels, mishap>>

\* failJob: the job ends as failed, if that can still be written.
EndFailed(j) ==
  /\ Goto(j, "ended")
  /\ \/ status' = [status EXCEPT ![j] = "failed"]
     \/ UNCHANGED status

\* The job ends early: the server stops, the context of its request ends, or
\* the registry, the file system or the database fails.
Stop(j) ==
  /\ UnderWay(j)
  /\ EndFailed(j)
  /\ mishap' = (mishap \/ Committed(j))
  /\ UNCHANGED <<latest, dirs, pack, coverage, cancels>>

\* The last write of a job that did everything.
Report(j) ==
  /\ job[j].pc = "report"
  /\ Goto(j, "ended")
  /\ status' = [status EXCEPT ![j] = "succeeded"]
  /\ UNCHANGED <<latest, dirs, pack, coverage, cancels, mishap>>

-----------------------------------------------------------------------------
(* Directories and the pack row. *)

\* runInstall up to the validated contents of the archive in a directory of
\* the job's own; progress is written on the way.
Fetch(j) ==
  /\ job[j].pc = "fetch"
  /\ job' = [job EXCEPT ![j].pc = "clear", ![j].version = latest]
  /\ status' = [status EXCEPT ![j] = "running"]
  /\ UNCHANGED <<latest, dirs, pack, coverage, cancels, mishap>>

\* runRemove and runRepair look for the row.  A remove whose lookup finds
\* nothing, or fails, goes on to delete the row.
Look(j) ==
  /\ job[j].pc = "look"
  /\ \/ /\ pack # NoPack
        /\ job' = [job EXCEPT ![j].version = pack,
                              ![j].pc = IF job[j].kind = "repair" THEN "verify" ELSE "clear"]
     \/ job[j].kind = "remove" /\ Goto(j, "delete")
  /\ UNCHANGED <<latest, dirs, pack, coverage, status, cancels, mishap>>

\* RemoveAll of the version's directory.
Clear(j) ==
  /\ job[j].pc = "clear"
  /\ dirs' = [dirs EXCEPT ![job[j].version] = "none"]
  /\ Goto(j, IF job[j].kind = "install" THEN "move" ELSE "delete")
  /\ UNCHANGED <<latest, pack, coverage, status, cancels, mishap>>

\* RemoveAll stops in the middle.  An install ignores its error.
ClearPartly(j) ==
  /\ job[j].pc = "clear" /\ dirs[job[j].version] # "none"
  /\ dirs' = [dirs EXCEPT ![job[j].version] = "part"]
  /\ \/ job[j].kind = "install" /\ Goto(j, "move") /\ UNCHANGED status
     \/ EndFailed(j)
  /\ mishap' = TRUE
  /\ UNCHANGED <<latest, pack, coverage, cancels>>

Move(j) ==
  /\ job[j].pc = "move" /\ dirs[job[j].version] = "none"
  /\ dirs' = [dirs EXCEPT ![job[j].version] = "whole"]
  /\ Goto(j, "upsert")
  /\ UNCHANGED <<latest, pack, coverage, status, cancels, mishap>>

\* Seeded fault: the job that could not rename clears what is in its way.
RefuseMoveCleaning(j) ==
  /\ job[j].pc = "move" /\ dirs[job[j].version] # "none"
  /\ dirs' = [dirs EXCEPT ![job[j].version] = "none"]
  /\ EndFailed(j)
  /\ UNCHANGED <<latest, pack, coverage, cancels, mishap>>

\* Rename fails: another job has put the directory there.
RefuseMove(j) ==
  /\ job[j].pc = "move" /\ dirs[job[j].version] # "none"
  /\ EndFailed(j)
  /\ UNCHANGED <<latest, dirs, pack, coverage, cancels, mishap>>

Upsert(j) ==
  /\ job[j].pc = "upsert"
  /\ pack' = job[j].version
  /\ Goto(j, "erase")
  /\ UNCHANGED <<latest, dirs, coverage, status, cancels, mishap>>

\* Seeded fault: the coverage of a deleted pack stays.
DeleteAlone(j) ==
  /\ job[j].pc = "delete"
  /\ pack' = NoPack
  /\ Goto(j, "report")
  /\ UNCHANGED <<latest, dirs, coverage, status, cancels, mishap>>

\* DeletePack; the foreign key of the coverage cascades.
Delete(j) ==
  /\ job[j].pc = "delete"
  /\ pack' = NoPack
  /\ coverage' = {}
  /\ Goto(j, "report")
  /\ UNCHANGED <<latest, dirs, status, cancels, mishap>>

\* Seeded fault: a repair does not look at the files.
VerifyNothing(j) ==
  /\ job[j].pc = "verify"
  /\ Goto(j, "erase")
  /\ UNCHANGED <<latest, dirs, pack, coverage, status, cancels, mishap>>

\* runRepair: the manifest is read and the checksums of its files compared.
Verify(j) ==
  /\ job[j].pc = "verify" /\ dirs[job[j].version] = "whole"
  /\ Goto(j, "erase")
  /\ UNCHANGED <<latest, dirs, pack, coverage, status, cancels, mishap>>

-----------------------------------------------------------------------------
(* ReplaceCoverage, two statements that are not in one transaction, and    *)
(* BridgeCoverage.                                                         *)

CoverageRows(v, bridged) == [instrument : Manifest[v], bridged : {bridged}]

Erase(j) ==
  /\ job[j].pc = "erase"
  /\ coverage' = {}
  /\ Goto(j, "insert")
  /\ UNCHANGED <<latest, dirs, pack, status, cancels, mishap>>

\* The foreign key and the primary key of the coverage allow the insert.
Insertable(v) ==
  /\ Manifest[v] # {} => pack # NoPack
  /\ CoverageRows(v, FALSE) \cap coverage = {}

Insert(j) ==
  /\ job[j].pc = "insert" /\ Insertable(job[j].version)
  /\ coverage' = coverage \cup CoverageRows(job[j].version, FALSE)
  /\ Goto(j, "bridge")
  /\ UNCHANGED <<latest, dirs, pack, status, cancels, mishap>>

RefuseInsert(j) ==
  /\ job[j].pc = "insert" /\ ~Insertable(job[j].version)
  /\ EndFailed(j)
  /\ UNCHANGED <<latest, dirs, pack, coverage, cancels, mishap>>

ToBridge == {c \in coverage : ~c.bridged /\ c.instrument \in Matched}
Renamed  == {[c EXCEPT !.bridged = TRUE] : c \in ToBridge}

\* The update fails as a whole if a row already has one of the new ids; a
\* failure is not fatal to the job.
Bridge(j) ==
  /\ job[j].pc = "bridge"
  /\ \/ /\ Renamed \cap coverage = {}
        /\ coverage' = (coverage \ ToBridge) \cup Renamed
     \/ UNCHANGED coverage
  /\ Goto(j, "report")
  /\ UNCHANGED <<latest, dirs, pack, status, cancels, mishap>>

-----------------------------------------------------------------------------
(* CancelPackJob and the registry. *)

\* The job is read; nothing happens unless it is queued ...
ReadForCancel(j) ==
  /\ status[j] = "queued"
  /\ cancels' = cancels \cup {j}
  /\ UNCHANGED <<latest, dirs, pack, coverage, job, status, mishap>>

\* ... and the whole row is written back.  The job itself goes on.
WriteCancel(j) ==
  /\ j \in cancels
  /\ cancels' = cancels \ {j}
  /\ status' = [status EXCEPT ![j] = "canceled"]
  /\ UNCHANGED <<latest, dirs, pack, coverage, job, mishap>>

Publish(v) ==
  /\ v > latest
  /\ latest' = v
  /\ UNCHANGED <<dirs, pack, coverage, job, status, cancels, mishap>>

Run(j) ==
  \/ Start(j) \/ Fetch(j) \/ Look(j) \/ Clear(j) \/ ClearPartly(j)
  \/ Move(j) \/ RefuseMove(j) \/ Upsert(j) \/ Delete(j) \/ Verify(j)
  \/ Erase(j) \/ Insert(j) \/ RefuseInsert(j) \/ Bridge(j) \/ Report(j)

Next ==
  \/ \E j \in Jobs, kind \in Kind : Create(j, kind)
  \/ \E j \in Jobs : Run(j) \/ Stop(j) \/ ReadForCancel(j) \/ WriteCancel(j)
  \/ \E v \in Versions : Publish(v)

Spec == Init /\ [][Next]_vars

-----------------------------------------------------------------------------
(* Properties. *)

\* The columns have their types, a coverage row belongs to a pack row, and a
\* job past its lookup has a version.
TypeOK ==
  /\ latest \in Versions /\ pack \in Versions \cup {NoPack}
  /\ dirs \in [Versions -> Directory]
  /\ coverage \subseteq CoverageRow /\ (coverage # {} => pack # NoPack)
  /\ job \in [Jobs -> JobState] /\ status \in [Jobs -> Status]
  /\ \A j \in Jobs :
       job[j].pc \in {"clear", "move", "upsert", "verify", "erase", "insert"} =>
         job[j].version \in Versions
  /\ cancels \subseteq Jobs /\ mishap \in BOOLEAN

Covered == {c.instrument : c \in coverage}

\* The row, the directory and the coverage are those of version v.
Installed(v) == pack = v /\ dirs[v] = "whole" /\ Covered = Manifest[v]

\* No instrument is covered twice, by its own id and by the database's.
CoveredOnce == \A c, d \in coverage : c.instrument = d.instrument => c = d

\* Whatever earlier jobs left behind when they crashed, failed or ran into
\* each other, a job that runs alone and is reported as succeeded has put it
\* right: after an install or a repair row, directory and coverage agree, and
\* after a remove row and coverage are gone.
LoneSuccessRestores ==
  [][\A j \in Jobs :
       job[j].pc = "report" /\ job'[j].pc = "ended" /\ status'[j] = "succeeded" /\ job[j].alone =>
         IF job[j].kind = "remove" THEN pack = NoPack /\ coverage = {}
         ELSE Installed(job[j].version) /\ CoveredOnce]_vars

\* The jobs so far are installs of version v.
OnlyInstallsOf(v) ==
  \A j \in Jobs : job[j].pc # "new" =>
    job[j].kind = "install" /\ job[j].version \in {v, NoPack}

\* Installs of one version started together, as two servers do that install
\* their default packs when they start, leave the pack complete however their
\* steps interleave, though some of them may be refused and fail.
InstallsConverge ==
  \A v \in Versions :
    /\ OnlyInstallsOf(v) /\ ~mishap
    /\ \A j \in Jobs : ~UnderWay(j)
    /\ \E j \in Jobs : job[j].version = v
    => Installed(v)

-----------------------------------------------------------------------------
(* The inductive invariants behind the properties. *)

\* The steps of each kind of job.
StepsOf(kind) ==
  {"queued", "report", "ended"} \cup
    CASE kind = "install" ->
           {"fetch", "clear", "move", "upsert", "erase", "insert", "bridge"}
      [] kind = "remove" -> {"look", "clear", "delete"}
      [] kind = "repair" -> {"look", "verify", "erase", "insert", "bridge"}

StepsOK ==
  \A j \in Jobs :
    /\ job[j].pc = "new" \/ job[j].pc \in StepsOf(job[j].kind)
    /\ job[j].pc \in {"new", "queued", "fetch", "look"} => job[j].version = NoPack

Lone(j) == UnderWay(j) /\ job[j].alone

LoneIsAlone == \A j, k \in Jobs : Lone(j) /\ UnderWay(k) => j = k

\* How far the lone job j has put things right.
LoneProgress(j) ==
  LET v == job[j].version
  IN  /\ job[j].pc = "upsert" => dirs[v] = "whole"
      /\ job[j].pc = "verify" => pack = v
      /\ job[j].pc \in {"erase", "insert", "bridge"} => pack = v /\ dirs[v] = "whole"
      /\ job[j].pc = "insert" => coverage = {}
      /\ job[j].pc = "bridge" => coverage = CoverageRows(v, FALSE)
      /\ job[j].pc = "report" =>
           IF job[j].kind = "remove" THEN pack = NoPack /\ coverage = {}
           ELSE Installed(v) /\ CoveredOnce

LoneInv == LoneIsAlone /\ \A j \in Jobs : Lone(j) => LoneProgress(j)

At(pcs) == \E j \in Jobs : job[j].pc \in pcs

\* How far the installs of version v have come together: whatever one of them
\* has not done yet, another one has done or is about to do.
InstallProgress(v) ==
  /\ (\E j \in Jobs : job[j].version = v /\ job[j].pc # "clear") =>
       dirs[v] = "whole" \/ At({"move"})
  /\ dirs[v] = "whole" => pack = v \/ At({"upsert"})
  /\ pack = v => Covered = Manifest[v] \/ At({"erase", "insert"})
  /\ coverage = {} \/ Covered = Manifest[v]
  /\ At({"erase", "insert", "bridge"}) => pack = v
  /\ dirs[v] # "part"

InstallsInv ==
  \A v \in Versions : OnlyInstallsOf(v) /\ ~mishap => InstallProgress(v)
=============================================================================

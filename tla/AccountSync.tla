---------------------------- MODULE AccountSync ----------------------------
(***************************************************************************)
(* Synchronisation of one account with its provider: TriggerSync of the    *)
(* sync service, the reconciliation it runs in one database transaction,   *)
(* and LinkAccount, for one connection and one security.                   *)
(*                                                                         *)
(* A call reads the connection row, keeps its copy across the calls to the *)
(* provider, and writes the whole copy back at each change of status.  The *)
(* provider goes on trading between any two steps.  Time is counted in     *)
(* trades: trade n happens at time n, and a timestamp taken between trades *)
(* n and n + 1 is n; 0 is a NULL last_sync_at.                             *)
(*                                                                         *)
(* The reconciliation is one step: two transactions on one account wait    *)
(* for each other on the row of the position, or the second one to insert  *)
(* is refused by a unique index and fails (see FailReconcile).             *)
(*                                                                         *)
(* The provider's adapter asks for the trades since an instant it can name *)
(* and takes one page of the answer, the newest trades; the security is    *)
(* found in the catalogue in one of three ways.  Both decide what is lost. *)
(***************************************************************************)
EXTENDS Integers, FiniteSets

CONSTANTS
  Callers,    \* concurrent calls of TriggerSync
  Linkers,    \* concurrent calls of LinkAccount
  Opening,    \* units held before the provider's history begins
  MaxTrades,  \* bound: trades of the provider
  MaxOverlap, \* bound: trades in a history in which calls overlap
  Linked,     \* the connection has an account from the start
  Starts,     \* the instants an adapter can ask to start from: seconds or days
  PageSize,   \* trades of the security a page of the provider holds
  Matches     \* how the provider's security may be found in the catalogue

ASSUME NumbersAssumption == Opening \in Nat /\ MaxTrades \in Nat /\ MaxOverlap \in 0 .. MaxTrades
ASSUME LinkedAssumption  == Linked \in BOOLEAN
ASSUME AdapterAssumption == Starts \subseteq Nat /\ PageSize \in Nat \ {0}
ASSUME MatchAssumption   == Matches \subseteq {"symbol", "isin", "search"}

VARIABLES
  trades,   \* the provider's history: trades[n] is "buy" or "sell" of a unit
  conn,     \* the row of sync_connections
  cred,     \* the status of its credential
  acct,     \* what the account's tables hold
  sync,     \* what each call of TriggerSync is doing
  run,      \* the status of the sync_runs row of its last call
  linker,   \* what each call of LinkAccount is doing
  match,    \* how the security is found: by its symbol (perhaps that of the
            \* placeholder made for it), by its ISIN, or by a search
  overlapped, \* ghost: some call began while another was under way
  late,       \* ghost: the trades booked while a sync was past its fetch
  offPage     \* ghost: the trades asked for that were not on the page

vars == <<trades, conn, cred, acct, sync, run, linker, match, overlapped, late, offPage>>

Now == Cardinality(DOMAIN trades)

Buys(n)  == {t \in 1 .. n : trades[t] = "buy"}
Held(n)  == Opening + 2 * Cardinality(Buys(n)) - n

ConnectionStatus == {"IDLE", "SYNCING", "SUCCESS", "FAILED"}
RunStatus        == {"NONE", "IN_PROGRESS", "COMPLETED", "FAILED"}
CredentialStatus == {"ACTIVE", "REJECTED"}   \* EXPIRED and INVALID are one

\* A connection as a call reads it; fresh: its updated_at is under 5 minutes old.
Copy       == [linked: BOOLEAN, status: ConnectionStatus, lastSync: 0 .. MaxTrades]
Connection == [row: Copy, fresh: BOOLEAN]

NoCopy == [linked |-> FALSE, status |-> "IDLE", lastSync |-> 0]

\* The position, the transactions by their unique external id, the tax lots
\* made from them, and the quantity of the baseline lots, which have no
\* transaction.  (The cash position is overwritten like the quantity, and left
\* out: no lot or transaction depends on it.)
Account == [exists: BOOLEAN, quantity: Nat,
            rows: SUBSET (1 .. MaxTrades), lots: SUBSET (1 .. MaxTrades), baseline: Nat]

SyncPc == {"idle", "admitted", "testing", "holdings", "transactions",
           "reconcile", "finish"}

SyncState == [pc: SyncPc, copy: Copy, quantity: Nat, txs: SUBSET (1 .. MaxTrades)]

NoSync == [pc |-> "idle", copy |-> NoCopy, quantity |-> 0, txs |-> {}]

LinkerState == [pc: {"idle", "write"}, copy: Copy]

NoLink == [pc |-> "idle", copy |-> NoCopy]

Init ==
  /\ trades = <<>>
  /\ conn = [row |-> [NoCopy EXCEPT !.linked = Linked], fresh |-> TRUE]
  /\ cred = "ACTIVE"
  /\ acct = [exists |-> FALSE, quantity |-> 0, rows |-> {}, lots |-> {}, baseline |-> 0]
  /\ sync = [s \in Callers |-> NoSync]
  /\ run = [s \in Callers |-> "NONE"]
  /\ linker = [l \in Linkers |-> NoLink]
  /\ match \in Matches
  /\ overlapped = FALSE /\ late = {} /\ offPage = {}

-----------------------------------------------------------------------------
(* The provider. *)

\* s has its transactions, and has yet to write last_sync_at.
PastFetch(s) == sync[s].pc \in {"reconcile", "finish"}

Trade(kind) ==
  /\ Now < IF overlapped THEN MaxOverlap ELSE MaxTrades
  /\ kind = "sell" => Held(Now) > 0
  /\ trades' = [t \in 1 .. Now + 1 |-> IF t <= Now THEN trades[t] ELSE kind]
  /\ late' = IF \E s \in Callers : PastFetch(s) THEN late \cup {Now + 1} ELSE late
  /\ UNCHANGED <<conn, cred, acct, sync, run, linker, match, overlapped, offPage>>

-----------------------------------------------------------------------------
(* TriggerSync. *)

\* UpdateConnection writes the whole row, and updated_at with it.
Written(row) == [row |-> row, fresh |-> TRUE]

\* A call begins, perhaps while another is under way.
CallBegins ==
  LET overlaps == \/ \E s \in Callers : sync[s].pc # "idle"
                  \/ \E l \in Linkers : linker[l].pc # "idle"
  IN  /\ overlaps => Now <= MaxOverlap
      /\ overlapped' = (overlapped \/ overlaps)

InProgress == conn.row.status = "SYNCING" /\ conn.fresh

\* The row is read and no other sync is seen in progress.
Admit(s) ==
  /\ sync[s].pc = "idle"
  /\ ~InProgress
  /\ sync' = [sync EXCEPT ![s] = [NoSync EXCEPT !.pc = "admitted", !.copy = conn.row]]
  /\ CallBegins
  /\ UNCHANGED <<trades, conn, cred, acct, run, linker, match, late, offPage>>

\* The run is created and the connection marked SYNCING.
Begin(s) ==
  LET copy == [sync[s].copy EXCEPT !.status = "SYNCING"]
  IN  /\ sync[s].pc = "admitted"
      /\ sync' = [sync EXCEPT ![s].pc = "testing", ![s].copy = copy]
      /\ run' = [run EXCEPT ![s] = "IN_PROGRESS"]
      /\ conn' = Written(copy)
      /\ UNCHANGED <<trades, cred, acct, linker, match, overlapped, late, offPage>>

\* Seeded fault: a call that fails moves last_sync_at as well.
FailMovingLastSync(s) ==
  /\ sync' = [sync EXCEPT ![s] = NoSync]
  /\ run' = [run EXCEPT ![s] = "FAILED"]
  /\ conn' = Written([sync[s].copy EXCEPT !.status = "FAILED", !.lastSync = Now])
  /\ UNCHANGED <<trades, acct, linker, match, overlapped, late, offPage>>

\* The run and the connection are marked FAILED, and the call returns.
Fail(s) ==
  /\ sync' = [sync EXCEPT ![s] = NoSync]
  /\ run' = [run EXCEPT ![s] = "FAILED"]
  /\ conn' = Written([sync[s].copy EXCEPT !.status = "FAILED"])
  /\ UNCHANGED <<trades, acct, linker, match, overlapped, late, offPage>>

\* TestConnection fails, because of the credential or for another reason, or
\* FetchBalances does.
FailTest(s) ==
  /\ sync[s].pc = "testing"
  /\ cred' \in {cred, "REJECTED"}
  /\ Fail(s)

\* TestConnection succeeds, but the call's copy has no account.
FailUnlinked(s) ==
  /\ sync[s].pc = "testing" /\ ~sync[s].copy.linked
  /\ Fail(s)
  /\ UNCHANGED cred

\* TestConnection and FetchBalances succeed.
Test(s) ==
  /\ sync[s].pc = "testing" /\ sync[s].copy.linked
  /\ sync' = [sync EXCEPT ![s].pc = "holdings"]
  /\ UNCHANGED <<trades, conn, cred, acct, run, linker, match, overlapped, late, offPage>>

FetchHoldings(s) ==
  /\ sync[s].pc = "holdings"
  /\ sync' = [sync EXCEPT ![s].pc = "transactions", ![s].quantity = Held(Now)]
  /\ UNCHANGED <<trades, conn, cred, acct, run, linker, match, overlapped, late, offPage>>

\* The trades that an adapter does not ask for when last_sync_at is at: those
\* up to the last instant before it that the adapter can name.
Passed(at) == {t \in 1 .. Now : \E start \in Starts : t <= start /\ start <= at}

\* The trades since the last_sync_at of the call's copy, as far as they are on
\* the one page that is fetched.
FetchTransactions(s) ==
  LET asked == (1 .. Now) \ Passed(sync[s].copy.lastSync)
      page  == Now - PageSize + 1 .. Now
  IN  /\ sync[s].pc = "transactions"
      /\ sync' = [sync EXCEPT ![s].pc = "reconcile", ![s].txs = asked \cap page]
      /\ offPage' = offPage \cup (asked \ page)
      /\ UNCHANGED <<trades, conn, cred, acct, run, linker, match, overlapped, late>>

FailFetch(s) ==
  /\ sync[s].pc \in {"holdings", "transactions"}
  /\ Fail(s)
  /\ UNCHANGED cred

\* Seeded fault: a baseline lot also covers the buys that have a lot.
ResidualIgnoringBuys(quantity, baseline, lots) ==
  IF match = "symbol" /\ quantity > baseline THEN quantity - baseline ELSE 0

\* Seeded fault: buys are subtracted whether or not their lot exists, and
\* again with their lot.
ResidualCountingTwice(quantity, baseline, lots) ==
  LET accounted == baseline + 2 * Cardinality(lots)
  IN  IF match = "symbol" /\ quantity > accounted THEN quantity - accounted ELSE 0

\* Seeded fault: earlier baseline lots are not looked at.
ResidualIgnoringBaseline(quantity, baseline, lots) ==
  IF match = "symbol" /\ quantity > Cardinality(lots) THEN quantity - Cardinality(lots) ELSE 0

\* ReconcileResidualTaxLots: what a new baseline lot must cover.  No lot is
\* ever reduced here, and every buy that is tied to the position has its lot.
\* A holding whose asset is not found by its symbol is skipped.
Residual(quantity, baseline, lots) ==
  LET accounted == baseline + Cardinality(lots)
  IN  IF match = "symbol" /\ quantity > accounted THEN quantity - accounted ELSE 0

\* Seeded fault: a lot is made whatever the type of the transaction.
LotsOfEveryTrade(exists, new) == IF exists /\ match # "search" THEN new ELSE {}

\* ReconcileTransactions: a new buy gets a lot once the position exists, if the
\* asset is found by its symbol or its ISIN.
BuyLots(exists, new) ==
  IF exists /\ match # "search" THEN {t \in new : trades[t] = "buy"} ELSE {}

\* The account after the reconciliation of what s fetched: holdings (and the
\* liquidation of what is no longer held), transactions, residual lots.
Reconciled(s) ==
  LET exists == acct.exists \/ sync[s].quantity > 0
      lots   == acct.lots \cup BuyLots(exists, sync[s].txs \ acct.rows)
  IN  [exists   |-> exists,
       quantity |-> sync[s].quantity,
       rows     |-> acct.rows \cup sync[s].txs,
       lots     |-> lots,
       baseline |-> acct.baseline + Residual(sync[s].quantity, acct.baseline, lots)]

Reconcile(s) ==
  /\ sync[s].pc = "reconcile"
  /\ acct' = Reconciled(s)
  /\ sync' = [sync EXCEPT ![s].pc = "finish"]
  /\ UNCHANGED <<trades, conn, cred, run, linker, match, overlapped, late, offPage>>

\* The transaction is rolled back: a statement failed, or a unique index
\* refused an insert because another sync inserted first.
FailReconcile(s) ==
  /\ sync[s].pc = "reconcile"
  /\ Fail(s)
  /\ UNCHANGED cred

\* The run is COMPLETED and the connection SUCCESS, with the current time.
Finish(s) ==
  /\ sync[s].pc = "finish"
  /\ sync' = [sync EXCEPT ![s] = NoSync]
  /\ run' = [run EXCEPT ![s] = "COMPLETED"]
  /\ conn' = Written([sync[s].copy EXCEPT !.status = "SUCCESS", !.lastSync = Now])
  /\ UNCHANGED <<trades, cred, acct, linker, match, overlapped, late, offPage>>

\* The server stops in the middle of the call.
Crash(s) ==
  /\ sync[s].pc # "idle"
  /\ sync' = [sync EXCEPT ![s] = NoSync]
  /\ UNCHANGED <<trades, conn, cred, acct, run, linker, match, overlapped, late, offPage>>

\* Five minutes have passed since the row was marked SYNCING.  TriggerSync has
\* no deadline, so the sync that marked it may still be running.
FiveMinutes ==
  /\ InProgress
  /\ conn' = [conn EXCEPT !.fresh = FALSE]
  /\ UNCHANGED <<trades, cred, acct, sync, run, linker, match, overlapped, late, offPage>>

-----------------------------------------------------------------------------
(* LinkAccount, of an existing account or of one it creates. *)

ReadForLink(l) ==
  /\ linker[l].pc = "idle"
  /\ linker' = [linker EXCEPT ![l] = [pc |-> "write", copy |-> conn.row]]
  /\ CallBegins
  /\ UNCHANGED <<trades, conn, cred, acct, sync, run, match, late, offPage>>

WriteLink(l) ==
  /\ linker[l].pc = "write"
  /\ conn' = Written([linker[l].copy EXCEPT !.linked = TRUE])
  /\ linker' = [linker EXCEPT ![l] = NoLink]
  /\ UNCHANGED <<trades, cred, acct, sync, run, match, overlapped, late, offPage>>

\* The account is not found or belongs to someone else.
RefuseLink(l) ==
  /\ linker[l].pc = "write"
  /\ linker' = [linker EXCEPT ![l] = NoLink]
  /\ UNCHANGED <<trades, conn, cred, acct, sync, run, match, overlapped, late, offPage>>

Sync(s) ==
  \/ Admit(s) \/ Begin(s) \/ Test(s)
  \/ FetchHoldings(s) \/ FetchTransactions(s)
  \/ Reconcile(s) \/ Finish(s)
  \/ FailTest(s) \/ FailUnlinked(s) \/ FailFetch(s) \/ FailReconcile(s)

Next ==
  \/ \E kind \in {"buy", "sell"} : Trade(kind)
  \/ \E s \in Callers : Sync(s) \/ Crash(s)
  \/ \E l \in Linkers : ReadForLink(l) \/ WriteLink(l) \/ RefuseLink(l)
  \/ FiveMinutes

Spec == Init /\ [][Next]_vars

-----------------------------------------------------------------------------
(* Properties. *)

\* Every row and every call's record is well formed, lots belong to imported
\* buys, and a call past the account check has a linked copy.
TypeOK ==
  /\ DOMAIN trades = 1 .. Now /\ Now <= MaxTrades
  /\ \A t \in 1 .. Now : trades[t] \in {"buy", "sell"}
  /\ conn \in Connection /\ cred \in CredentialStatus
  /\ acct \in Account /\ acct.lots \subseteq acct.rows \cap Buys(Now)
  /\ sync \in [Callers -> SyncState]
  /\ \A s \in Callers : sync[s].txs \subseteq 1 .. Now
  /\ \A s \in Callers :
       sync[s].pc \notin {"idle", "admitted", "testing"} => sync[s].copy.linked
  /\ run \in [Callers -> RunStatus]
  /\ linker \in [Linkers -> LinkerState]
  /\ match \in Matches
  /\ overlapped \in BOOLEAN /\ late \subseteq 1 .. Now /\ offPage \subseteq 1 .. Now

OpenLots == acct.baseline + Cardinality(acct.lots)

\* After every reconciliation, in whatever order overlapping and repeated
\* syncs commit, and whatever trades the pages left out, the open lots cover
\* the quantity of a position whose asset is found by its symbol
\* (ReconcileResidualTaxLots keeps the cost basis continuous).
LotsCoverHolding == match = "symbol" => acct.quantity <= OpenLots

\* Each unit the user ever acquired is in at most one lot: no trade is both
\* imported with its lot and covered by a baseline lot, through crashes and
\* failures at every step, as long as syncs and links do not overlap.
UnitsTrackedOnce == ~overlapped => OpenLots <= Opening + Cardinality(Buys(Now))

\* Reconciling a snapshot that shows nothing the account does not hold
\* creates no lot, whoever synced in between.
RepeatCreatesNoLot ==
  [][\A s \in Callers :
       /\ sync[s].pc = "reconcile" /\ sync'[s].pc = "finish"
       /\ sync[s].quantity <= acct.quantity /\ sync[s].txs \subseteq acct.rows
       => acct'.lots = acct.lots /\ acct'.baseline = acct.baseline]_vars

\* Every trade before the last sync of a SUCCESS connection is imported.
TradesIngested ==
  conn.row.status = "SUCCESS" => 1 .. conn.row.lastSync \subseteq acct.rows

\* Where a missed trade can come from: what lies before last_sync_at is
\* imported, or was booked while a sync was past its fetch, or was asked for and
\* was not on the page, however syncs and links overlap, fail, crash, write
\* their copies back and move last_sync_at back and forth.
MissedLateOrOffPage == 1 .. conn.row.lastSync \subseteq acct.rows \cup late \cup offPage

-----------------------------------------------------------------------------
(* The inductive invariant behind the properties. *)

HistoryOK == Now \in Nat /\ Held(Now) \in Nat

\* No last_sync_at lies in the future, in the row or in a copy.
PastSyncs ==
  /\ conn.row.lastSync <= Now
  /\ \A s \in Callers : sync[s].pc # "idle" => sync[s].copy.lastSync <= Now
  /\ \A l \in Linkers : linker[l].pc # "idle" => linker[l].copy.lastSync <= Now

\* The trades older than the newest page.
OffNewestPage == 1 .. Now - PageSize

\* The buys that a call's holding consists of: those it has fetched, those it
\* did not ask for and those it did not get.
Seen(s) == Buys(Now) \cap (Passed(sync[s].copy.lastSync) \cup sync[s].txs \cup OffNewestPage)

SnapshotsOK ==
  \A s \in Callers :
    /\ sync[s].pc = "transactions" => sync[s].quantity <= Opening + Cardinality(Buys(Now))
    /\ sync[s].pc = "reconcile" => sync[s].quantity <= Opening + Cardinality(Seen(s))

\* While nothing overlaps, the one call under way has the last_sync_at of the
\* row in its copy.
OneAtATime ==
  ~overlapped =>
    /\ \A s, u \in Callers : sync[s].pc # "idle" /\ sync[u].pc # "idle" => s = u
    /\ \A l, m \in Linkers : linker[l].pc # "idle" /\ linker[m].pc # "idle" => l = m
    /\ \A s \in Callers, l \in Linkers : sync[s].pc = "idle" \/ linker[l].pc = "idle"
    /\ \A s \in Callers : sync[s].pc # "idle" => sync[s].copy.lastSync = conn.row.lastSync
    /\ \A l \in Linkers : linker[l].pc # "idle" => linker[l].copy.lastSync = conn.row.lastSync

\* The trades that a sync has in its hands and is about to import.
InHand == {t \in 1 .. Now : t \notin acct.rows
                            /\ \E s \in Callers : sync[s].pc = "reconcile" /\ t \in sync[s].txs}

\* The buys that are imported, or that no later sync will import.  Baseline lots
\* cover nothing else but the opening units.
Settled ==
  Buys(Now) \cap ((acct.rows \cup Passed(conn.row.lastSync) \cup OffNewestPage) \ InHand)

BaselineEarned ==
  ~overlapped => acct.baseline <= Opening + Cardinality(Settled \ acct.lots)

\* What a call may write back is true of the known trades (imported, late or off
\* the page): it was when it was read, and they only grow.  Past its fetch a sync
\* has the rest in its hands, or has imported it.
CallTrue(call, known) ==
  /\ call.pc # "idle" => 1 .. call.copy.lastSync \subseteq known
  /\ call.pc = "reconcile" => 1 .. Now \subseteq known \cup call.txs
  /\ call.pc = "finish" => 1 .. Now \subseteq known

CopiesTrue ==
  LET known == acct.rows \cup late \cup offPage
  IN  /\ \A s \in Callers : CallTrue(sync[s], known)
      /\ \A l \in Linkers :
           linker[l].pc # "idle" => 1 .. linker[l].copy.lastSync \subseteq known

IInv ==
  /\ TypeOK /\ HistoryOK /\ PastSyncs /\ LotsCoverHolding
  /\ SnapshotsOK /\ OneAtATime /\ BaselineEarned
=============================================================================

------------------------ MODULE AccountSync_proofs ------------------------
(***************************************************************************)
(* Theorems about AccountSync, for any number of callers and linkers and a *)
(* history of any length.  The argument is in the README.                  *)
(***************************************************************************)
EXTENDS AccountSync, FiniteSetTheorems, TLAPS

USE NumbersAssumption, LinkedAssumption, AdapterAssumption, MatchAssumption

-----------------------------------------------------------------------------
(* The history of the provider. *)

LEMMA BuysFinite ==
  ASSUME HistoryOK
  PROVE  /\ Buys(Now) \subseteq 1 .. Now
         /\ IsFiniteSet(Buys(Now))
         /\ \A S \in SUBSET Buys(Now) :
              /\ IsFiniteSet(S) /\ Cardinality(S) \in Nat
              /\ Cardinality(S) <= Cardinality(Buys(Now))
<1>1. IsFiniteSet(1 .. Now)
  BY FS_Interval DEF HistoryOK
<1>2. Buys(Now) \subseteq 1 .. Now
  BY DEF Buys
<1>3. IsFiniteSet(Buys(Now))
  BY <1>1, <1>2, FS_Subset
<1>4. \A S \in SUBSET Buys(Now) :
        /\ IsFiniteSet(S) /\ Cardinality(S) \in Nat
        /\ Cardinality(S) <= Cardinality(Buys(Now))
  BY <1>3, FS_Subset, FS_CardinalityType
<1>5. QED
  BY <1>2, <1>3, <1>4

\* A trade makes the history one longer and adds at most itself to the buys.
LEMMA TradeExtends ==
  ASSUME TypeOK, HistoryOK, NEW kind \in {"buy", "sell"}, Trade(kind)
  PROVE  /\ Now' = Now + 1
         /\ DOMAIN trades' = 1 .. Now + 1
         /\ \A t \in 1 .. Now : trades'[t] = trades[t]
         /\ trades'[Now + 1] = kind
         /\ Buys(Now)' = IF kind = "buy" THEN Buys(Now) \cup {Now + 1} ELSE Buys(Now)
<1>1. Now \in Nat /\ DOMAIN trades = 1 .. Now
  BY DEF TypeOK, HistoryOK
<1>2. DOMAIN trades' = 1 .. Now + 1
  BY DEF Trade
<1>3. Now' = Now + 1
  <2>1. Cardinality(1 .. Now + 1) = Now + 1
    BY <1>1, FS_Interval
  <2>2. QED
    BY <1>2, <2>1 DEF Now
<1>4. \A t \in 1 .. Now : trades'[t] = trades[t]
  BY <1>1 DEF Trade
<1>5. trades'[Now + 1] = kind
  BY <1>1 DEF Trade
<1>6. Buys(Now)' = {t \in 1 .. Now + 1 : trades'[t] = "buy"}
  BY <1>3 DEF Buys
<1>7. Buys(Now) = {t \in 1 .. Now : trades[t] = "buy"}
  BY DEF Buys
<1>8. Buys(Now)' = IF kind = "buy" THEN Buys(Now) \cup {Now + 1} ELSE Buys(Now)
  BY <1>1, <1>4, <1>5, <1>6, <1>7
<1>9. QED
  BY <1>2, <1>3, <1>4, <1>5, <1>8

\* Nothing but a trade changes the history.
LEMMA NowUnchanged ==
  ASSUME UNCHANGED trades
  PROVE  Now' = Now /\ Buys(Now)' = Buys(Now) /\ Held(Now)' = Held(Now)
BY DEF Now, Buys, Held

LEMMA InitHistory ==
  ASSUME Init
  PROVE  Now = 0 /\ Buys(Now) = {} /\ Held(Now) = Opening /\ DOMAIN trades = 1 .. 0
<1>1. DOMAIN trades = {}
  BY DEF Init
<1>2. Now = 0
  BY <1>1, FS_EmptySet DEF Now
<1>3. Buys(Now) = {}
  BY <1>2 DEF Buys
<1>4. Cardinality(Buys(Now)) = 0
  BY <1>3, FS_EmptySet
<1>5. Held(Now) = Opening
  BY <1>2, <1>4 DEF Held
<1>6. DOMAIN trades = 1 .. 0
  BY <1>1
<1>7. QED
  BY <1>2, <1>3, <1>5, <1>6

\* The steps of the protocol leave the history alone.
LEMMA OnlyTradeTrades ==
  ASSUME [Next]_vars
  PROVE  UNCHANGED trades \/ \E kind \in {"buy", "sell"} : Trade(kind)
BY DEF Next, vars, Sync, Admit, Begin, Test, FetchHoldings, FetchTransactions, Reconcile,
       Finish, FailTest, FailUnlinked, FailFetch, FailReconcile, Fail, Crash, FiveMinutes,
       ReadForLink, WriteLink, RefuseLink

\* The provider never holds less than nothing.
LEMMA HistoryStep ==
  ASSUME TypeOK, HistoryOK, [Next]_vars
  PROVE  HistoryOK'
<1>1. CASE UNCHANGED trades
  BY <1>1, NowUnchanged DEF HistoryOK
<1>2. ASSUME NEW kind \in {"buy", "sell"}, Trade(kind)
      PROVE  HistoryOK'
  <2>1. /\ Now \in Nat /\ Now' = Now + 1
        /\ Buys(Now)' = IF kind = "buy" THEN Buys(Now) \cup {Now + 1} ELSE Buys(Now)
    BY <1>2, TradeExtends DEF HistoryOK
  <2>2. IsFiniteSet(Buys(Now)) /\ Now + 1 \notin Buys(Now) /\ Cardinality(Buys(Now)) \in Nat
    BY <2>1, BuysFinite, FS_CardinalityType
  <2>3. Cardinality(Buys(Now))' =
          IF kind = "buy" THEN Cardinality(Buys(Now)) + 1 ELSE Cardinality(Buys(Now))
    BY <2>1, <2>2, FS_AddElement
  <2>4. Held(Now) = Opening + 2 * Cardinality(Buys(Now)) - Now
    BY DEF Held
  <2>5. Held(Now)' = Opening + 2 * Cardinality(Buys(Now))' - Now'
    BY DEF Held
  <2>6. kind = "sell" => Held(Now) > 0
    BY <1>2 DEF Trade
  <2>7. Held(Now)' \in Nat
    BY <2>1, <2>2, <2>3, <2>4, <2>5, <2>6 DEF HistoryOK
  <2>8. QED
    BY <2>1, <2>7 DEF HistoryOK
<1>3. QED
  BY <1>1, <1>2, OnlyTradeTrades

-----------------------------------------------------------------------------
(* Types. *)

LEMMA CopyTypes ==
  ASSUME NEW copy \in Copy
  PROVE  /\ \A x \in ConnectionStatus : [copy EXCEPT !.status = x] \in Copy
         /\ [copy EXCEPT !.linked = TRUE] \in Copy
         /\ \A x \in ConnectionStatus, n \in 0 .. MaxTrades :
              [copy EXCEPT !.status = x, !.lastSync = n] \in Copy
         /\ Written(copy) \in Connection
<1>1. Written(copy) \in Connection
  BY DEF Written, Connection
<1>2. QED
  BY <1>1 DEF Copy

LEMMA NoCopyType == NoCopy \in Copy /\ NoSync \in SyncState /\ NoLink \in LinkerState
<1>1. NoCopy \in Copy
  BY DEF NoCopy, Copy, ConnectionStatus
<1>2. QED
  BY <1>1 DEF NoSync, SyncState, SyncPc, NoLink, LinkerState

\* What a step that changes the record of one call must show of it.
LEMMA SyncUpdate ==
  ASSUME TypeOK, UNCHANGED trades, NEW s \in Callers, NEW x \in SyncState,
         x.txs \subseteq 1 .. Now,
         x.pc \notin {"idle", "admitted", "testing"} => x.copy.linked,
         sync' = [sync EXCEPT ![s] = x]
  PROVE  /\ sync' \in [Callers -> SyncState]
         /\ \A u \in Callers : sync'[u].txs \subseteq 1 .. Now'
         /\ \A u \in Callers :
              sync'[u].pc \notin {"idle", "admitted", "testing"} => sync'[u].copy.linked
<1>1. sync \in [Callers -> SyncState] /\ Now' = Now
  BY NowUnchanged DEF TypeOK
<1>2. \A u \in Callers : sync'[u] = IF u = s THEN x ELSE sync[u]
  BY <1>1
<1>3. sync' \in [Callers -> SyncState]
  BY <1>1
<1>4. QED
  BY <1>1, <1>2, <1>3 DEF TypeOK

\* The rest of TypeOK, when the history does not change.
LEMMA TypeParts ==
  ASSUME TypeOK, UNCHANGED <<trades, match, late>>, offPage' \subseteq 1 .. Now,
         conn' \in Connection, cred' \in CredentialStatus,
         acct' \in Account, acct'.lots \subseteq acct'.rows \cap Buys(Now),
         sync' \in [Callers -> SyncState],
         \A u \in Callers : sync'[u].txs \subseteq 1 .. Now',
         \A u \in Callers :
           sync'[u].pc \notin {"idle", "admitted", "testing"} => sync'[u].copy.linked,
         run' \in [Callers -> RunStatus], linker' \in [Linkers -> LinkerState],
         overlapped' \in BOOLEAN
  PROVE  TypeOK'
BY NowUnchanged DEF TypeOK

LEMMA SyncUnchanged ==
  ASSUME TypeOK, UNCHANGED <<trades, sync>>
  PROVE  /\ sync' \in [Callers -> SyncState]
         /\ \A u \in Callers : sync'[u].txs \subseteq 1 .. Now'
         /\ \A u \in Callers :
              sync'[u].pc \notin {"idle", "admitted", "testing"} => sync'[u].copy.linked
BY NowUnchanged DEF TypeOK

LEMMA FailTypes ==
  ASSUME TypeOK, NEW s \in Callers, Fail(s), cred' \in {cred, "REJECTED"}
  PROVE  TypeOK'
<1>1. UNCHANGED <<trades, acct, linker, match, overlapped, late, offPage>>
  BY DEF Fail
<1>2. sync[s].copy \in Copy
  BY DEF TypeOK, SyncState
<1>3. conn' \in Connection
  <2>1. [sync[s].copy EXCEPT !.status = "FAILED"] \in Copy
    BY <1>2, CopyTypes DEF ConnectionStatus
  <2>2. QED
    BY <2>1, CopyTypes DEF Fail
<1>4. run' \in [Callers -> RunStatus] /\ cred' \in CredentialStatus
  BY DEF Fail, TypeOK, RunStatus, CredentialStatus
<1>5. /\ sync' \in [Callers -> SyncState]
      /\ \A u \in Callers : sync'[u].txs \subseteq 1 .. Now'
      /\ \A u \in Callers :
           sync'[u].pc \notin {"idle", "admitted", "testing"} => sync'[u].copy.linked
  <2>1. NoSync.pc = "idle" /\ NoSync.txs = {}
    BY DEF NoSync
  <2>2. sync' = [sync EXCEPT ![s] = NoSync]
    BY DEF Fail
  <2>3. QED
    BY <1>1, <2>1, <2>2, NoCopyType, SyncUpdate
<1>6. acct' \in Account /\ acct'.lots \subseteq acct'.rows \cap Buys(Now)
      /\ linker' \in [Linkers -> LinkerState] /\ overlapped' \in BOOLEAN
      /\ offPage' \subseteq 1 .. Now
  BY <1>1 DEF TypeOK
<1>7. QED
  BY <1>1, <1>3, <1>4, <1>5, <1>6, TypeParts

\* What BuyLots and Residual return.
LEMMA BuyLotsType ==
  ASSUME NEW exists \in BOOLEAN, NEW new \in SUBSET (1 .. Now)
  PROVE  BuyLots(exists, new) \subseteq new \cap Buys(Now)
BY DEF BuyLots, Buys

LEMMA ResidualType ==
  ASSUME NEW quantity \in Nat, NEW baseline \in Nat, NEW lots, Cardinality(lots) \in Nat
  PROVE  /\ Residual(quantity, baseline, lots) \in Nat
         /\ match = "symbol" =>
              quantity <= baseline + Residual(quantity, baseline, lots) + Cardinality(lots)
         /\ Residual(quantity, baseline, lots) = 0
            \/ baseline + Residual(quantity, baseline, lots) + Cardinality(lots) = quantity
BY DEF Residual

\* What a reconciliation makes of the account.
LEMMA ReconcileFacts ==
  ASSUME TypeOK, HistoryOK, NEW s \in Callers, Reconcile(s)
  PROVE  /\ acct' \in Account
         /\ acct'.rows = acct.rows \cup sync[s].txs
         /\ acct'.lots \subseteq acct'.rows \cap Buys(Now)
         /\ \E new \in SUBSET (sync[s].txs \ acct.rows) : acct'.lots = acct.lots \cup new
         /\ acct'.quantity = sync[s].quantity
         /\ acct'.baseline = acct.baseline + Residual(sync[s].quantity, acct.baseline, acct'.lots)
         /\ Cardinality(acct'.lots) \in Nat
<1> DEFINE exists == acct.exists \/ sync[s].quantity > 0
           new    == BuyLots(exists, sync[s].txs \ acct.rows)
           lots   == acct.lots \cup new
<1>1. /\ acct'.exists = exists
      /\ acct'.quantity = sync[s].quantity
      /\ acct'.rows = acct.rows \cup sync[s].txs
      /\ acct'.lots = lots
      /\ acct'.baseline = acct.baseline + Residual(sync[s].quantity, acct.baseline, lots)
      /\ acct' = [exists |-> exists, quantity |-> sync[s].quantity,
                  rows |-> acct.rows \cup sync[s].txs, lots |-> lots,
                  baseline |-> acct.baseline + Residual(sync[s].quantity, acct.baseline, lots)]
  BY DEF Reconcile, Reconciled
<1>2. /\ acct \in Account /\ acct.lots \subseteq acct.rows \cap Buys(Now)
      /\ sync[s] \in SyncState /\ sync[s].txs \subseteq 1 .. Now
  BY DEF TypeOK
<1>3. /\ acct.exists \in BOOLEAN /\ acct.rows \in SUBSET (1 .. MaxTrades)
      /\ acct.baseline \in Nat
      /\ sync[s].quantity \in Nat /\ sync[s].txs \in SUBSET (1 .. MaxTrades)
  BY <1>2 DEF Account, SyncState
<1>4. new \subseteq (sync[s].txs \ acct.rows) \cap Buys(Now)
  <2>1. exists \in BOOLEAN
    BY <1>3
  <2>2. sync[s].txs \ acct.rows \in SUBSET (1 .. Now)
    BY <1>2
  <2> HIDE DEF exists
  <2>3. BuyLots(exists, sync[s].txs \ acct.rows)
          \subseteq (sync[s].txs \ acct.rows) \cap Buys(Now)
    BY <2>1, <2>2, BuyLotsType
  <2>4. QED
    BY <2>3
<1>5. lots \subseteq Buys(Now) /\ Cardinality(lots) \in Nat
  <2>1. lots \in SUBSET Buys(Now)
    BY <1>2, <1>4
  <2>2. QED
    BY <2>1, BuysFinite
<1>6. lots \subseteq acct.rows \cup sync[s].txs
  BY <1>2, <1>4
<1>7. acct' \in Account
  <2>1. Residual(sync[s].quantity, acct.baseline, lots) \in Nat
    BY <1>3, <1>5, ResidualType
  <2>2. acct.rows \cup sync[s].txs \in SUBSET (1 .. MaxTrades)
    BY <1>3
  <2>3. lots \in SUBSET (1 .. MaxTrades) /\ exists \in BOOLEAN
    BY <1>3, <1>6, <2>2
  <2>4. acct.baseline + Residual(sync[s].quantity, acct.baseline, lots) \in Nat
    BY <1>3, <2>1
  <2>5. QED
    BY <1>1, <1>3, <2>2, <2>3, <2>4 DEF Account
<1>8. QED
  BY <1>1, <1>4, <1>5, <1>6, <1>7

LEMMA InitTypes ==
  ASSUME Init
  PROVE  TypeOK
<1>1. Now = 0 /\ Buys(Now) = {} /\ DOMAIN trades = 1 .. 0
  BY InitHistory
<1>2. conn \in Connection
  <2>1. [NoCopy EXCEPT !.linked = Linked] \in Copy
    BY DEF NoCopy, Copy, ConnectionStatus
  <2>2. QED
    BY <2>1 DEF Init, Connection
<1>3. acct \in Account /\ acct.lots = {}
  BY DEF Init, Account
<1>4. sync \in [Callers -> SyncState] /\ \A s \in Callers : sync[s] = NoSync
  BY NoCopyType DEF Init
<1>5. NoSync.pc = "idle" /\ NoSync.txs = {}
  BY DEF NoSync
<1>6. run \in [Callers -> RunStatus] /\ linker \in [Linkers -> LinkerState]
      /\ cred \in CredentialStatus /\ overlapped \in BOOLEAN /\ late = {}
      /\ match \in Matches /\ offPage = {}
  BY NoCopyType DEF Init, RunStatus, CredentialStatus
<1>7. QED
  BY <1>1, <1>2, <1>3, <1>4, <1>5, <1>6 DEF TypeOK

LEMMA TradeTypes ==
  ASSUME TypeOK, HistoryOK, NEW kind \in {"buy", "sell"}, Trade(kind)
  PROVE  TypeOK'
<1>1. /\ Now \in Nat /\ Now' = Now + 1 /\ DOMAIN trades' = 1 .. Now + 1
      /\ \A t \in 1 .. Now : trades'[t] = trades[t]
      /\ trades'[Now + 1] = kind
      /\ Buys(Now) \subseteq Buys(Now)'
  BY TradeExtends DEF HistoryOK
<1>2. Now + 1 <= MaxTrades
  BY <1>1 DEF Trade
<1>3. \A t \in 1 .. Now' : trades'[t] \in {"buy", "sell"}
  BY <1>1 DEF TypeOK
<1>4. UNCHANGED <<conn, cred, acct, sync, run, linker, match, overlapped, offPage>>
  BY DEF Trade
<1>5. acct'.lots \subseteq acct'.rows \cap Buys(Now)'
  BY <1>1, <1>4 DEF TypeOK
<1>6. \A s \in Callers : sync'[s].txs \subseteq 1 .. Now'
  BY <1>1, <1>4 DEF TypeOK
<1>7. DOMAIN trades' = 1 .. Now' /\ Now' <= MaxTrades
  BY <1>1, <1>2
<1>8. late' \subseteq 1 .. Now' /\ offPage' \subseteq 1 .. Now'
  <2>1. late' \subseteq late \cup {Now + 1}
    BY DEF Trade
  <2>2. QED
    BY <1>1, <1>4, <2>1 DEF TypeOK
<1>9. QED
  BY <1>3, <1>4, <1>5, <1>6, <1>7, <1>8 DEF TypeOK

LEMMA SyncTypes ==
  ASSUME TypeOK, HistoryOK, NEW s \in Callers, Sync(s) \/ Crash(s)
  PROVE  TypeOK'
<1> DEFINE SyncGoal ==
             /\ sync' \in [Callers -> SyncState]
             /\ \A u \in Callers : sync'[u].txs \subseteq 1 .. Now'
             /\ \A u \in Callers :
                  sync'[u].pc \notin {"idle", "admitted", "testing"} => sync'[u].copy.linked
<1>1. /\ sync[s] \in SyncState /\ sync[s].copy \in Copy /\ sync[s].txs \subseteq 1 .. Now
      /\ conn \in Connection /\ conn.row \in Copy
      /\ acct \in Account /\ acct.lots \subseteq acct.rows \cap Buys(Now)
      /\ cred \in CredentialStatus /\ run \in [Callers -> RunStatus]
      /\ linker \in [Linkers -> LinkerState] /\ overlapped \in BOOLEAN
      /\ Now \in 0 .. MaxTrades /\ offPage \subseteq 1 .. Now
  BY DEF TypeOK, HistoryOK, SyncState, Connection
<1>2. sync[s].pc \notin {"idle", "admitted", "testing"} => sync[s].copy.linked
  BY DEF TypeOK
<1>3. CASE Admit(s)
  <2> DEFINE x == [NoSync EXCEPT !.pc = "admitted", !.copy = conn.row]
  <2>1. x \in SyncState /\ x.txs = {} /\ x.pc = "admitted"
    BY <1>1, NoCopyType DEF NoSync, SyncState, SyncPc
  <2>2. sync' = [sync EXCEPT ![s] = x]
    BY <1>3 DEF Admit
  <2>3. UNCHANGED <<trades, match, late, offPage>>
    BY <1>3 DEF Admit
  <2> HIDE DEF x
  <2>4. SyncGoal
    BY <2>1, <2>2, <2>3, SyncUpdate
  <2>5. overlapped' \in BOOLEAN
    BY <1>3 DEF Admit, CallBegins
  <2>6. QED
    BY <1>1, <1>3, <2>3, <2>4, <2>5, TypeParts DEF Admit
<1>4. CASE Begin(s)
  <2> DEFINE copy == [sync[s].copy EXCEPT !.status = "SYNCING"]
             x    == [sync[s] EXCEPT !.pc = "testing", !.copy = copy]
  <2>1. copy \in Copy /\ Written(copy) \in Connection
    BY <1>1, CopyTypes DEF ConnectionStatus
  <2>2. x \in SyncState /\ x.txs = sync[s].txs /\ x.pc = "testing"
    BY <1>1, <2>1 DEF SyncState, SyncPc
  <2>3. sync' = [sync EXCEPT ![s] = x]
    BY <1>4 DEF Begin
  <2>4. UNCHANGED <<trades, cred, acct, linker, match, overlapped, late, offPage>> /\ conn' = Written(copy)
    BY <1>4 DEF Begin
  <2>5. run' \in [Callers -> RunStatus]
    BY <1>1, <1>4 DEF Begin, RunStatus
  <2> HIDE DEF x, copy
  <2>6. SyncGoal
    BY <1>1, <2>2, <2>3, <2>4, SyncUpdate
  <2>7. QED
    BY <1>1, <2>1, <2>4, <2>5, <2>6, TypeParts
<1>5. CASE Test(s)
  <2> DEFINE x == [sync[s] EXCEPT !.pc = "holdings"]
  <2>1. x \in SyncState /\ x.txs = sync[s].txs /\ x.copy = sync[s].copy
    BY <1>1 DEF SyncState, SyncPc
  <2>2. sync' = [sync EXCEPT ![s] = x] /\ sync[s].copy.linked
    BY <1>5 DEF Test
  <2>3. UNCHANGED <<trades, conn, cred, acct, run, linker, match, overlapped, late, offPage>>
    BY <1>5 DEF Test
  <2> HIDE DEF x
  <2>4. SyncGoal
    BY <1>1, <2>1, <2>2, <2>3, SyncUpdate
  <2>5. QED
    BY <1>1, <2>3, <2>4, TypeParts
<1>6. CASE FetchHoldings(s)
  <2> DEFINE x == [sync[s] EXCEPT !.pc = "transactions", !.quantity = Held(Now)]
  <2>1. x \in SyncState /\ x.txs = sync[s].txs /\ x.copy = sync[s].copy
    BY <1>1 DEF SyncState, SyncPc, HistoryOK
  <2>2. sync' = [sync EXCEPT ![s] = x] /\ sync[s].copy.linked
    BY <1>2, <1>6 DEF FetchHoldings
  <2>3. UNCHANGED <<trades, conn, cred, acct, run, linker, match, overlapped, late, offPage>>
    BY <1>6 DEF FetchHoldings
  <2> HIDE DEF x
  <2>4. SyncGoal
    BY <1>1, <2>1, <2>2, <2>3, SyncUpdate
  <2>5. QED
    BY <1>1, <2>3, <2>4, TypeParts
<1>7. CASE FetchTransactions(s)
  <2> DEFINE asked == (1 .. Now) \ Passed(sync[s].copy.lastSync)
             page  == Now - PageSize + 1 .. Now
             txs   == asked \cap page
             x     == [sync[s] EXCEPT !.pc = "reconcile", !.txs = txs]
  <2>1. txs \in SUBSET (1 .. MaxTrades) /\ txs \subseteq 1 .. Now
    BY <1>1
  <2>2. x \in SyncState /\ x.txs = txs /\ x.copy = sync[s].copy
    BY <1>1, <2>1 DEF SyncState, SyncPc
  <2>3. sync' = [sync EXCEPT ![s] = x] /\ sync[s].copy.linked
    BY <1>2, <1>7 DEF FetchTransactions
  <2>4. /\ UNCHANGED <<trades, conn, cred, acct, run, linker, match, overlapped, late>>
        /\ offPage' \subseteq 1 .. Now
    BY <1>1, <1>7 DEF FetchTransactions
  <2> HIDE DEF x, txs, asked, page
  <2>5. SyncGoal
    BY <1>1, <2>1, <2>2, <2>3, <2>4, SyncUpdate
  <2>6. QED
    BY <1>1, <2>4, <2>5, TypeParts
<1>8. CASE Reconcile(s)
  <2> DEFINE x == [sync[s] EXCEPT !.pc = "finish"]
  <2>1. x \in SyncState /\ x.txs = sync[s].txs /\ x.copy = sync[s].copy
    BY <1>1 DEF SyncState, SyncPc
  <2>2. sync' = [sync EXCEPT ![s] = x] /\ sync[s].copy.linked
    BY <1>2, <1>8 DEF Reconcile
  <2>3. UNCHANGED <<trades, conn, cred, run, linker, match, overlapped, late, offPage>>
    BY <1>8 DEF Reconcile
  <2> HIDE DEF x
  <2>4. SyncGoal
    BY <1>1, <2>1, <2>2, <2>3, SyncUpdate
  <2>5. acct' \in Account /\ acct'.lots \subseteq acct'.rows \cap Buys(Now)
    BY <1>8, ReconcileFacts
  <2>6. QED
    BY <1>1, <2>3, <2>4, <2>5, TypeParts
<1>9. CASE Finish(s)
  <2> DEFINE copy == [sync[s].copy EXCEPT !.status = "SUCCESS", !.lastSync = Now]
  <2>1. copy \in Copy /\ Written(copy) \in Connection
    BY <1>1, CopyTypes DEF ConnectionStatus
  <2>2. sync' = [sync EXCEPT ![s] = NoSync] /\ NoSync.txs = {} /\ NoSync.pc = "idle"
    BY <1>9 DEF Finish, NoSync
  <2>3. UNCHANGED <<trades, cred, acct, linker, match, overlapped, late, offPage>> /\ conn' = Written(copy)
    BY <1>9 DEF Finish
  <2>4. run' \in [Callers -> RunStatus]
    BY <1>1, <1>9 DEF Finish, RunStatus
  <2> HIDE DEF copy
  <2>5. SyncGoal
    BY <2>2, <2>3, NoCopyType, SyncUpdate
  <2>6. QED
    BY <1>1, <2>1, <2>3, <2>4, <2>5, TypeParts
<1>10. CASE FailTest(s) \/ FailUnlinked(s) \/ FailFetch(s) \/ FailReconcile(s)
  <2>1. Fail(s) /\ cred' \in {cred, "REJECTED"}
    BY <1>10 DEF FailTest, FailUnlinked, FailFetch, FailReconcile
  <2>2. QED
    BY <2>1, FailTypes
<1>11. CASE Crash(s)
  <2>1. sync' = [sync EXCEPT ![s] = NoSync] /\ NoSync.txs = {} /\ NoSync.pc = "idle"
    BY <1>11 DEF Crash, NoSync
  <2>2. UNCHANGED <<trades, conn, cred, acct, run, linker, match, overlapped, late, offPage>>
    BY <1>11 DEF Crash
  <2>3. SyncGoal
    BY <2>1, <2>2, NoCopyType, SyncUpdate
  <2>4. QED
    BY <1>1, <2>2, <2>3, TypeParts
<1>12. QED
  BY <1>3, <1>4, <1>5, <1>6, <1>7, <1>8, <1>9, <1>10, <1>11 DEF Sync

LEMMA LinkTypes ==
  ASSUME TypeOK, NEW l \in Linkers, ReadForLink(l) \/ WriteLink(l) \/ RefuseLink(l)
  PROVE  TypeOK'
<1>1. UNCHANGED <<trades, cred, acct, sync, run, match, late, offPage>>
  BY DEF ReadForLink, WriteLink, RefuseLink
<1>2. conn.row \in Copy /\ linker[l].copy \in Copy /\ linker \in [Linkers -> LinkerState]
  BY DEF TypeOK, Connection, LinkerState
<1>3. conn' \in Connection
  <2>1. [linker[l].copy EXCEPT !.linked = TRUE] \in Copy
    BY <1>2, CopyTypes
  <2>2. WriteLink(l) => conn' \in Connection
    BY <2>1, CopyTypes DEF WriteLink
  <2>3. QED
    BY <2>2 DEF ReadForLink, RefuseLink, TypeOK
<1>4. linker' \in [Linkers -> LinkerState]
  <2>1. [pc |-> "write", copy |-> conn.row] \in LinkerState
    BY <1>2 DEF LinkerState
  <2>2. QED
    BY <1>2, <2>1, NoCopyType DEF ReadForLink, WriteLink, RefuseLink
<1>5. overlapped' \in BOOLEAN
  BY DEF ReadForLink, WriteLink, RefuseLink, CallBegins, TypeOK
<1>6. QED
  BY <1>1, <1>3, <1>4, <1>5, NowUnchanged DEF TypeOK

LEMMA TypeStep ==
  ASSUME TypeOK, HistoryOK, [Next]_vars
  PROVE  TypeOK'
<1>1. ASSUME NEW kind \in {"buy", "sell"}, Trade(kind)
      PROVE  TypeOK'
  BY <1>1, TradeTypes
<1>2. ASSUME NEW s \in Callers, Sync(s) \/ Crash(s)
      PROVE  TypeOK'
  BY <1>2, SyncTypes
<1>3. ASSUME NEW l \in Linkers, ReadForLink(l) \/ WriteLink(l) \/ RefuseLink(l)
      PROVE  TypeOK'
  BY <1>3, LinkTypes
<1>4. CASE FiveMinutes
  <2>1. conn' \in Connection
    BY <1>4 DEF FiveMinutes, TypeOK, Connection
  <2>2. UNCHANGED <<trades, cred, acct, sync, run, linker, match, overlapped, late, offPage>>
    BY <1>4 DEF FiveMinutes
  <2>3. QED
    BY <2>1, <2>2, NowUnchanged DEF TypeOK
<1>5. CASE UNCHANGED vars
  BY <1>5, NowUnchanged DEF vars, TypeOK
<1>6. QED
  BY <1>1, <1>2, <1>3, <1>4, <1>5 DEF Next

\* TypeOK: rows and calls are well formed, lots belong to imported buys, and a
\* call past the account check of TriggerSync has a linked copy.
THEOREM TypeCorrect == Spec => [](TypeOK /\ HistoryOK)
<1>1. Init => TypeOK /\ HistoryOK
  BY InitTypes, InitHistory DEF HistoryOK
<1>2. TypeOK /\ HistoryOK /\ [Next]_vars => (TypeOK /\ HistoryOK)'
  BY TypeStep, HistoryStep
<1>3. QED
  BY <1>1, <1>2, PTL DEF Spec

-----------------------------------------------------------------------------
(* Every reconciliation covers the holding. *)

\* Only a reconciliation changes the account.
LEMMA OnlyReconcile ==
  ASSUME [Next]_vars
  PROVE  UNCHANGED acct \/ \E s \in Callers : Reconcile(s)
BY DEF Next, vars, Sync, Admit, Begin, Test, FetchHoldings, FetchTransactions, Trade,
       Finish, FailTest, FailUnlinked, FailFetch, FailReconcile, Fail, Crash, FiveMinutes,
       ReadForLink, WriteLink, RefuseLink

\* Nothing that a step does changes how the security is found.
LEMMA SameMatch ==
  ASSUME [Next]_vars
  PROVE  match' = match
BY DEF Next, vars, Sync, Admit, Begin, Test, FetchHoldings, FetchTransactions, Reconcile,
       Finish, FailTest, FailUnlinked, FailFetch, FailReconcile, Fail, Crash, FiveMinutes,
       ReadForLink, WriteLink, RefuseLink, Trade

\* What the lots come to after a reconciliation.
LEMMA ReconcileCovers ==
  ASSUME TypeOK, HistoryOK, NEW s \in Callers, Reconcile(s)
  PROVE  /\ LotsCoverHolding'
         /\ acct'.baseline = acct.baseline
            \/ acct'.baseline + Cardinality(acct'.lots) = sync[s].quantity
<1> DEFINE lots == acct'.lots
<1>1. /\ acct'.quantity = sync[s].quantity
      /\ acct'.baseline = acct.baseline + Residual(sync[s].quantity, acct.baseline, lots)
      /\ Cardinality(lots) \in Nat
  BY ReconcileFacts
<1>2. sync[s].quantity \in Nat /\ acct.baseline \in Nat
  BY DEF TypeOK, SyncState, Account
<1> HIDE DEF lots
<1>3. /\ Residual(sync[s].quantity, acct.baseline, lots) \in Nat
      /\ match = "symbol" => sync[s].quantity <=
           acct.baseline + Residual(sync[s].quantity, acct.baseline, lots) + Cardinality(lots)
      /\ Residual(sync[s].quantity, acct.baseline, lots) = 0
         \/ acct.baseline + Residual(sync[s].quantity, acct.baseline, lots) + Cardinality(lots)
              = sync[s].quantity
  BY <1>1, <1>2, ResidualType
<1>4. /\ match = "symbol" => sync[s].quantity <= acct'.baseline + Cardinality(lots)
      /\ acct'.baseline = acct.baseline \/ acct'.baseline + Cardinality(lots) = sync[s].quantity
  BY <1>1, <1>2, <1>3
<1>5. LotsCoverHolding' <=>
        (match = "symbol" => acct'.quantity <= acct'.baseline + Cardinality(lots))
  BY DEF Reconcile, LotsCoverHolding, OpenLots, lots
<1>6. QED
  BY <1>1, <1>4, <1>5 DEF lots

LEMMA CoverStep ==
  ASSUME TypeOK, HistoryOK, LotsCoverHolding, [Next]_vars
  PROVE  LotsCoverHolding'
<1>1. CASE UNCHANGED acct
  BY <1>1, SameMatch DEF LotsCoverHolding, OpenLots
<1>2. ASSUME NEW s \in Callers, Reconcile(s)
      PROVE  LotsCoverHolding'
  BY <1>2, ReconcileCovers
<1>3. QED
  BY <1>1, <1>2, OnlyReconcile

LEMMA InitCover ==
  ASSUME Init
  PROVE  LotsCoverHolding
<1>1. acct.quantity = 0 /\ acct.baseline = 0 /\ acct.lots = {}
  BY DEF Init
<1>2. QED
  BY <1>1, FS_EmptySet DEF LotsCoverHolding, OpenLots

\* LotsCoverHolding: whatever syncs overlap, repeat, fail or crash, and whatever
\* trades the provider's pages leave out, the lots that ReconcileResidualTaxLots
\* leaves open cover the quantity of a position found by its symbol (the
\* others it skips, reconciliation.go:376-384).
THEOREM Covered == Spec => []LotsCoverHolding
<1>1. Init => TypeOK /\ HistoryOK /\ LotsCoverHolding
  BY InitTypes, InitHistory, InitCover DEF HistoryOK
<1>2. TypeOK /\ HistoryOK /\ LotsCoverHolding /\ [Next]_vars
        => (TypeOK /\ HistoryOK /\ LotsCoverHolding)'
  BY TypeStep, HistoryStep, CoverStep
<1>3. QED
  BY <1>1, <1>2, PTL DEF Spec

\* A call at "reconcile" that comes to "finish" has reconciled.
LEMMA OnlyReconcileFinishes ==
  ASSUME TypeOK, [Next]_vars, NEW s \in Callers,
         sync[s].pc = "reconcile", sync'[s].pc = "finish"
  PROVE  Reconcile(s)
<1>1. sync \in [Callers -> SyncState] /\ sync'[s] # sync[s]
  BY DEF TypeOK
<1>2. NoSync.pc = "idle"
  BY DEF NoSync
<1>3. ASSUME NEW u \in Callers, Sync(u) \/ Crash(u)
      PROVE  u = s
  BY <1>1, <1>3 DEF Sync, Admit, Begin, Test, FetchHoldings, FetchTransactions, Reconcile,
                    Finish, FailTest, FailUnlinked, FailFetch, FailReconcile, Fail, Crash
<1>4. ASSUME Sync(s) \/ Crash(s)
      PROVE  Reconcile(s)
  <2>1. ~Crash(s) /\ ~Fail(s)
    BY <1>1, <1>2 DEF Crash, Fail
  <2>2. QED
    BY <1>4, <2>1 DEF Sync, Admit, Begin, Test, FetchHoldings, FetchTransactions,
                      Finish, FailTest, FailUnlinked, FailFetch, FailReconcile
<1>5. \E u \in Callers : Sync(u) \/ Crash(u)
  BY <1>1 DEF Next, vars, Trade, FiveMinutes, ReadForLink, WriteLink, RefuseLink
<1>6. QED
  BY <1>3, <1>4, <1>5

LEMMA RepeatStep ==
  ASSUME TypeOK, HistoryOK, LotsCoverHolding, [Next]_vars, NEW s \in Callers,
         sync[s].pc = "reconcile", sync'[s].pc = "finish",
         sync[s].quantity <= acct.quantity, sync[s].txs \subseteq acct.rows
  PROVE  acct'.lots = acct.lots /\ acct'.baseline = acct.baseline
<1>1. Reconcile(s)
  BY OnlyReconcileFinishes
<1>2. /\ acct'.lots = acct.lots
      /\ acct'.baseline = acct.baseline + Residual(sync[s].quantity, acct.baseline, acct.lots)
      /\ Cardinality(acct.lots) \in Nat
  BY <1>1, ReconcileFacts
<1>3. acct.quantity \in Nat /\ acct.baseline \in Nat /\ sync[s].quantity \in Nat
  BY DEF TypeOK, Account, SyncState
<1>4. Residual(sync[s].quantity, acct.baseline, acct.lots) = 0
  BY <1>2, <1>3 DEF Residual, LotsCoverHolding, OpenLots
<1>5. QED
  BY <1>2, <1>3, <1>4

\* RepeatCreatesNoLot: a reconciliation of nothing new creates no lot, whoever
\* synced since the snapshot was taken.
THEOREM RepeatIdempotent == Spec => RepeatCreatesNoLot
<1>1. TypeOK /\ HistoryOK /\ LotsCoverHolding /\ [Next]_vars
        => [\A s \in Callers :
              /\ sync[s].pc = "reconcile" /\ sync'[s].pc = "finish"
              /\ sync[s].quantity <= acct.quantity /\ sync[s].txs \subseteq acct.rows
              => acct'.lots = acct.lots /\ acct'.baseline = acct.baseline]_vars
  BY RepeatStep
<1>2. QED
  BY <1>1, TypeCorrect, Covered, PTL DEF Spec, RepeatCreatesNoLot

-----------------------------------------------------------------------------
(* No unit twice, while nothing overlaps. *)

LEMMA SubsetCardinality ==
  ASSUME NEW T, IsFiniteSet(T), NEW S, S \subseteq T
  PROVE  IsFiniteSet(S) /\ Cardinality(S) \in Nat /\ Cardinality(T) \in Nat
         /\ Cardinality(S) <= Cardinality(T)
BY FS_Subset, FS_CardinalityType

\* The buys only grow, whatever the step.
LEMMA BuysGrow ==
  ASSUME TypeOK, HistoryOK, [Next]_vars
  PROVE  /\ Buys(Now) \subseteq Buys(Now)'
         /\ IsFiniteSet(Buys(Now)') /\ Now' \in Nat /\ Now <= Now'
<1>1. Buys(Now) \subseteq Buys(Now)' /\ Now <= Now'
  <2>1. CASE UNCHANGED trades
    BY <2>1, NowUnchanged DEF HistoryOK
  <2>2. ASSUME NEW kind \in {"buy", "sell"}, Trade(kind)
        PROVE  Buys(Now) \subseteq Buys(Now)' /\ Now <= Now'
    BY <2>2, TradeExtends DEF HistoryOK
  <2>3. QED
    BY <2>1, <2>2, OnlyTradeTrades
<1>2. HistoryOK'
  BY HistoryStep
<1>3. IsFiniteSet(1 .. Now') /\ Now' \in Nat
  BY <1>2, FS_Interval DEF HistoryOK
<1>4. Buys(Now)' \subseteq 1 .. Now'
  BY DEF Buys
<1>5. QED
  BY <1>1, <1>3, <1>4, FS_Subset

\* How a call can come to have fetched its holdings, or its transactions.
LEMMA FetchSteps ==
  ASSUME TypeOK, [Next]_vars, NEW s \in Callers
  PROVE  /\ sync'[s].pc = "transactions" => sync'[s] = sync[s] \/ FetchHoldings(s)
         /\ sync'[s].pc = "reconcile" => sync'[s] = sync[s] \/ FetchTransactions(s)
         /\ sync'[s].pc # "idle" => sync'[s].copy.lastSync = sync[s].copy.lastSync \/ Admit(s)
         /\ sync'[s].pc # "idle" => sync[s].pc # "idle" \/ Admit(s)
<1>1. sync \in [Callers -> SyncState] /\ sync[s] \in SyncState /\ sync[s].copy \in Copy
  BY DEF TypeOK, SyncState
<1>2. NoSync.pc = "idle"
  BY DEF NoSync
<1>3. CASE UNCHANGED sync
  BY <1>3
<1>4. ASSUME NEW u \in Callers, Sync(u) \/ Crash(u), u # s
      PROVE  sync'[s] = sync[s]
  BY <1>1, <1>4 DEF Sync, Admit, Begin, Test, FetchHoldings, FetchTransactions, Reconcile,
                    Finish, FailTest, FailUnlinked, FailFetch, FailReconcile, Fail, Crash
<1>5. CASE Sync(s) \/ Crash(s)
  <2>1. CASE Admit(s)
    BY <1>1, <2>1 DEF Admit, NoSync
  <2>2. CASE Begin(s)
    <3>1. /\ sync'[s].pc = "testing" /\ sync[s].pc = "admitted"
          /\ sync'[s].copy = [sync[s].copy EXCEPT !.status = "SYNCING"]
      BY <1>1, <2>2 DEF Begin, SyncState
    <3>2. sync'[s].copy.lastSync = sync[s].copy.lastSync
      BY <1>1, <3>1 DEF Copy
    <3>3. QED
      BY <3>1, <3>2
  <2>3. CASE Test(s)
    BY <1>1, <2>3 DEF Test, SyncState
  <2>4. CASE FetchHoldings(s)
    BY <1>1, <2>4 DEF FetchHoldings, SyncState
  <2>5. CASE FetchTransactions(s)
    BY <1>1, <2>5 DEF FetchTransactions, SyncState
  <2>6. CASE Reconcile(s)
    BY <1>1, <2>6 DEF Reconcile, SyncState
  <2>7. CASE Finish(s) \/ Crash(s) \/ Fail(s)
    BY <1>1, <1>2, <2>7 DEF Finish, Crash, Fail
  <2>8. QED
    BY <1>5, <2>1, <2>2, <2>3, <2>4, <2>5, <2>6, <2>7
    DEF Sync, FailTest, FailUnlinked, FailFetch, FailReconcile
<1>6. UNCHANGED sync \/ \E u \in Callers : Sync(u) \/ Crash(u)
  BY DEF Next, vars, Trade, FiveMinutes, ReadForLink, WriteLink, RefuseLink
<1>7. QED
  BY <1>3, <1>4, <1>5, <1>6

\* What was passed, or off the newest page, remains so.
LEMMA PassedGrows ==
  ASSUME HistoryOK, Now' \in Nat, Now <= Now'
  PROVE  /\ \A from, to \in Nat : from <= to => Passed(from) \subseteq Passed(to)
         /\ \A at \in Nat : Passed(at) \subseteq
              {t \in 1 .. Now' : \E start \in Starts : t <= start /\ start <= at}
         /\ OffNewestPage \subseteq OffNewestPage'
<1>1. Now \in Nat /\ Starts \subseteq Nat /\ PageSize \in Nat
  BY DEF HistoryOK
<1>2. \A from, to \in Nat : from <= to => Passed(from) \subseteq Passed(to)
  BY <1>1 DEF Passed
<1>3. \A at \in Nat : Passed(at) \subseteq
        {t \in 1 .. Now' : \E start \in Starts : t <= start /\ start <= at}
  BY <1>1 DEF Passed
<1>4. OffNewestPage \subseteq OffNewestPage'
  <2>1. \A m, n \in Nat : m <= n => 1 .. m - PageSize \subseteq 1 .. n - PageSize
    BY <1>1
  <2>2. QED
    BY <1>1, <2>1 DEF OffNewestPage
<1>5. QED
  BY <1>2, <1>3, <1>4

\* What a fetch leaves a call with.
LEMMA FetchFacts ==
  ASSUME TypeOK, HistoryOK, NEW s \in Callers, FetchTransactions(s)
  PROVE  /\ UNCHANGED trades /\ Now' = Now
         /\ sync'[s].quantity = sync[s].quantity /\ sync'[s].copy = sync[s].copy
         /\ sync'[s].txs \cap (Passed(sync[s].copy.lastSync) \cup OffNewestPage) = {}
         /\ 1 .. Now \subseteq Passed(sync[s].copy.lastSync) \cup sync'[s].txs \cup OffNewestPage
<1>1. sync \in [Callers -> SyncState] /\ sync[s] \in SyncState
  BY DEF TypeOK
<1>2. /\ sync'[s].txs = ((1 .. Now) \ Passed(sync[s].copy.lastSync))
                        \cap (Now - PageSize + 1 .. Now)
      /\ sync'[s].quantity = sync[s].quantity /\ sync'[s].copy = sync[s].copy
      /\ UNCHANGED trades
  BY <1>1 DEF FetchTransactions, SyncState
<1>3. Now \in Nat /\ PageSize \in Nat
  BY DEF HistoryOK
<1>4. (Now - PageSize + 1 .. Now) \cap OffNewestPage = {}
      /\ 1 .. Now \subseteq (Now - PageSize + 1 .. Now) \cup OffNewestPage
  BY <1>3 DEF OffNewestPage
<1>5. QED
  BY <1>2, <1>4, NowUnchanged

LEMMA SnapshotStep ==
  ASSUME TypeOK, HistoryOK, SnapshotsOK, [Next]_vars
  PROVE  SnapshotsOK'
<1> SUFFICES ASSUME NEW s \in Callers
             PROVE  /\ sync'[s].pc = "transactions" =>
                         sync'[s].quantity <= Opening + Cardinality(Buys(Now)')
                    /\ sync'[s].pc = "reconcile" =>
                         sync'[s].quantity <= Opening + Cardinality(Seen(s)')
  BY DEF SnapshotsOK
<1>1. /\ Buys(Now) \subseteq Buys(Now)' /\ IsFiniteSet(Buys(Now)') /\ Now' \in Nat /\ Now <= Now'
      /\ Cardinality(Buys(Now)) \in Nat /\ Cardinality(Buys(Now)') \in Nat
      /\ Cardinality(Buys(Now)) <= Cardinality(Buys(Now)')
  BY BuysGrow, SubsetCardinality
<1>2. /\ sync \in [Callers -> SyncState] /\ sync[s] \in SyncState
      /\ sync[s].quantity \in Nat /\ sync[s].copy.lastSync \in Nat
      /\ Now \in Nat
  BY DEF TypeOK, SyncState, Copy, HistoryOK
<1>3. ASSUME sync'[s].pc = "transactions"
      PROVE  sync'[s].quantity <= Opening + Cardinality(Buys(Now)')
  <2>1. CASE sync'[s] = sync[s]
    BY <1>1, <1>2, <1>3, <2>1 DEF SnapshotsOK
  <2>2. CASE FetchHoldings(s)
    <3>1. sync'[s].quantity = Held(Now) /\ UNCHANGED trades
      BY <1>2, <2>2 DEF FetchHoldings, SyncState
    <3>2. Cardinality(Buys(Now)) <= Now
      <4>1. Buys(Now) \subseteq 1 .. Now /\ IsFiniteSet(1 .. Now)
        BY <1>2, BuysFinite, FS_Interval
      <4>2. Cardinality(1 .. Now) = Now
        BY <1>2, FS_Interval
      <4>3. QED
        BY <4>1, <4>2, SubsetCardinality
    <3>3. Held(Now) <= Opening + Cardinality(Buys(Now))
      BY <1>1, <1>2, <3>2 DEF Held
    <3>4. QED
      BY <1>1, <1>2, <3>1, <3>3 DEF HistoryOK
  <2>3. QED
    BY <1>3, <2>1, <2>2, FetchSteps
<1>4. ASSUME sync'[s].pc = "reconcile"
      PROVE  sync'[s].quantity <= Opening + Cardinality(Seen(s)')
  <2>1. CASE sync'[s] = sync[s]
    <3>1. Seen(s) \subseteq Seen(s)' /\ IsFiniteSet(Seen(s)')
      <4>1. Passed(sync[s].copy.lastSync) \subseteq Passed(sync[s].copy.lastSync)'
            /\ OffNewestPage \subseteq OffNewestPage'
        BY <1>1, <1>2, <2>1, PassedGrows DEF Passed
      <4>2. QED
        BY <1>1, <2>1, <4>1, SubsetCardinality DEF Seen
    <3>2. /\ Cardinality(Seen(s)) \in Nat /\ Cardinality(Seen(s)') \in Nat
          /\ Cardinality(Seen(s)) <= Cardinality(Seen(s)')
      BY <3>1, SubsetCardinality
    <3>3. QED
      BY <1>2, <1>4, <2>1, <3>2 DEF SnapshotsOK
  <2>2. CASE FetchTransactions(s)
    <3>1. /\ UNCHANGED trades /\ Now' = Now
          /\ sync'[s].quantity = sync[s].quantity /\ sync'[s].copy = sync[s].copy
          /\ 1 .. Now \subseteq Passed(sync[s].copy.lastSync) \cup sync'[s].txs \cup OffNewestPage
      BY <2>2, FetchFacts
    <3>2. Seen(s)' = Buys(Now)
      <4>1. Passed(sync[s].copy.lastSync)' = Passed(sync[s].copy.lastSync)
            /\ OffNewestPage' = OffNewestPage /\ Buys(Now)' = Buys(Now)
        BY <3>1, NowUnchanged DEF Passed, OffNewestPage
      <4>2. Buys(Now) \subseteq 1 .. Now
        BY BuysFinite
      <4>3. QED
        BY <3>1, <4>1, <4>2 DEF Seen
    <3>3. sync[s].pc = "transactions"
      BY <2>2 DEF FetchTransactions
    <3>4. QED
      BY <3>1, <3>2, <3>3 DEF SnapshotsOK
  <2>3. QED
    BY <1>4, <2>1, <2>2, FetchSteps
<1>5. QED
  BY <1>3, <1>4

LEMMA LinkSteps ==
  ASSUME TypeOK, [Next]_vars, NEW l \in Linkers, linker'[l].pc # "idle"
  PROVE  linker'[l] = linker[l] \/ ReadForLink(l)
<1>1. linker \in [Linkers -> LinkerState] /\ NoLink.pc = "idle"
  BY DEF TypeOK, NoLink
<1>2. CASE UNCHANGED linker
  BY <1>2
<1>3. ASSUME NEW m \in Linkers, ReadForLink(m) \/ WriteLink(m) \/ RefuseLink(m)
      PROVE  linker'[l] = linker[l] \/ ReadForLink(l)
  BY <1>1, <1>3 DEF ReadForLink, WriteLink, RefuseLink
<1>4. QED
  BY <1>2, <1>3 DEF Next, vars, Trade, FiveMinutes, Sync, Admit, Begin, Test, FetchHoldings,
       FetchTransactions, Reconcile, Finish, FailTest, FailUnlinked, FailFetch, FailReconcile,
       Fail, Crash

\* While nothing overlaps, last_sync_at changes only at the end of a sync.
LEMMA LastSyncStep ==
  ASSUME TypeOK, OneAtATime, ~overlapped, [Next]_vars
  PROVE  conn'.row.lastSync = conn.row.lastSync \/ \E s \in Callers : Finish(s)
<1>1. CASE UNCHANGED conn
  BY <1>1
<1>2. ASSUME NEW s \in Callers, Begin(s) \/ Fail(s), sync[s].pc # "idle"
      PROVE  conn'.row.lastSync = conn.row.lastSync
  <2>1. sync[s].copy.lastSync = conn.row.lastSync /\ sync[s].copy \in Copy
    BY <1>2 DEF OneAtATime, TypeOK, SyncState
  <2>2. \A x : [sync[s].copy EXCEPT !.status = x].lastSync = sync[s].copy.lastSync
    BY <2>1 DEF Copy
  <2>3. CASE Begin(s)
    <3>1. conn'.row = [sync[s].copy EXCEPT !.status = "SYNCING"]
      BY <2>3 DEF Begin, Written
    <3>2. QED
      BY <2>1, <2>2, <3>1
  <2>4. CASE Fail(s)
    <3>1. conn'.row = [sync[s].copy EXCEPT !.status = "FAILED"]
      BY <2>4 DEF Fail, Written
    <3>2. QED
      BY <2>1, <2>2, <3>1
  <2>5. QED
    BY <1>2, <2>3, <2>4
<1>3. ASSUME NEW l \in Linkers, WriteLink(l)
      PROVE  conn'.row.lastSync = conn.row.lastSync
  <2>1. linker[l].copy.lastSync = conn.row.lastSync /\ linker[l].copy \in Copy
    BY <1>3 DEF WriteLink, OneAtATime, TypeOK, LinkerState
  <2>2. conn'.row = [linker[l].copy EXCEPT !.linked = TRUE]
    BY <1>3 DEF WriteLink, Written
  <2>3. QED
    BY <2>1, <2>2 DEF Copy
<1>4. CASE FiveMinutes
  BY <1>4 DEF FiveMinutes, TypeOK, Connection
<1>5. QED
  BY <1>1, <1>2, <1>3, <1>4
  DEF Next, vars, Trade, Sync, Admit, Begin, Test, FetchHoldings, FetchTransactions,
      Reconcile, FailTest, FailUnlinked, FailFetch, FailReconcile, Crash,
      ReadForLink, RefuseLink

\* The row only gets a last_sync_at that it or some call had, or the present.
LEMMA RowSteps ==
  ASSUME TypeOK, [Next]_vars
  PROVE  \/ conn'.row.lastSync \in {conn.row.lastSync, Now}
         \/ \E s \in Callers : sync[s].pc # "idle" /\ conn'.row.lastSync = sync[s].copy.lastSync
         \/ \E l \in Linkers : linker[l].pc # "idle" /\ conn'.row.lastSync = linker[l].copy.lastSync
<1>1. CASE UNCHANGED conn
  BY <1>1
<1>2. ASSUME NEW s \in Callers, Begin(s) \/ Fail(s) \/ Finish(s), sync[s].pc # "idle"
      PROVE  conn'.row.lastSync \in {Now, sync[s].copy.lastSync}
  <2>1. sync[s].copy \in Copy
    BY DEF TypeOK, SyncState
  <2>2. conn'.row = [sync[s].copy EXCEPT !.status = "SYNCING"]
        \/ conn'.row = [sync[s].copy EXCEPT !.status = "FAILED"]
        \/ conn'.row = [sync[s].copy EXCEPT !.status = "SUCCESS", !.lastSync = Now]
    BY <1>2 DEF Begin, Fail, Finish, Written
  <2>3. QED
    BY <2>1, <2>2 DEF Copy
<1>3. ASSUME NEW l \in Linkers, WriteLink(l)
      PROVE  linker[l].pc # "idle" /\ conn'.row.lastSync = linker[l].copy.lastSync
  <2>1. linker[l].copy \in Copy /\ conn'.row = [linker[l].copy EXCEPT !.linked = TRUE]
    BY <1>3 DEF WriteLink, TypeOK, LinkerState, Written
  <2>2. QED
    BY <1>3, <2>1 DEF WriteLink, Copy
<1>4. CASE FiveMinutes
  BY <1>4 DEF FiveMinutes, TypeOK, Connection
<1>5. UNCHANGED conn \/ FiveMinutes \/ (\E l \in Linkers : WriteLink(l))
      \/ \E s \in Callers : (Begin(s) \/ Fail(s) \/ Finish(s)) /\ sync[s].pc # "idle"
  BY DEF Next, vars, Trade, Sync, Admit, Begin, Test, FetchHoldings, FetchTransactions,
         Reconcile, Finish, FailTest, FailUnlinked, FailFetch, FailReconcile, Crash,
         ReadForLink, RefuseLink
<1>6. QED
  BY <1>1, <1>2, <1>3, <1>4, <1>5

\* No last_sync_at comes to lie in the future.
LEMMA PastStep ==
  ASSUME TypeOK, HistoryOK, PastSyncs, [Next]_vars
  PROVE  PastSyncs'
<1>1. Now \in Nat /\ Now' \in Nat /\ Now <= Now'
  BY BuysGrow DEF HistoryOK
<1>2. /\ conn.row.lastSync \in Nat
      /\ \A s \in Callers : sync[s].copy.lastSync \in Nat
      /\ \A l \in Linkers : linker[l].copy.lastSync \in Nat
  BY DEF TypeOK, Connection, SyncState, LinkerState, Copy
<1>3. conn'.row.lastSync <= Now'
  BY <1>1, <1>2, RowSteps DEF PastSyncs
<1>4. ASSUME NEW s \in Callers, sync'[s].pc # "idle"
      PROVE  sync'[s].copy.lastSync <= Now'
  <2>1. CASE Admit(s)
    <3>1. sync'[s].copy = conn.row
      BY <2>1 DEF Admit, TypeOK, NoSync
    <3>2. QED
      BY <1>1, <1>2, <3>1 DEF PastSyncs
  <2>2. CASE ~Admit(s)
    <3>1. sync[s].pc # "idle" /\ sync'[s].copy.lastSync = sync[s].copy.lastSync
      BY <1>4, <2>2, FetchSteps
    <3>2. QED
      BY <1>1, <1>2, <3>1 DEF PastSyncs
  <2>3. QED
    BY <2>1, <2>2
<1>5. ASSUME NEW l \in Linkers, linker'[l].pc # "idle"
      PROVE  linker'[l].copy.lastSync <= Now'
  <2>1. CASE ReadForLink(l)
    <3>1. linker'[l].copy = conn.row
      BY <2>1 DEF ReadForLink, TypeOK
    <3>2. QED
      BY <1>1, <1>2, <3>1 DEF PastSyncs
  <2>2. CASE linker'[l] = linker[l]
    BY <1>1, <1>2, <1>5, <2>2 DEF PastSyncs
  <2>3. QED
    BY <1>5, <2>1, <2>2, LinkSteps
<1>6. QED
  BY <1>3, <1>4, <1>5 DEF PastSyncs

LEMMA NeverForgets ==
  ASSUME TypeOK, [Next]_vars, ~overlapped'
  PROVE  ~overlapped
BY DEF TypeOK, Next, vars, Trade, Sync, Admit, Begin, Test, FetchHoldings, FetchTransactions,
       Reconcile, Finish, FailTest, FailUnlinked, FailFetch, FailReconcile, Fail, Crash,
       FiveMinutes, ReadForLink, WriteLink, RefuseLink, CallBegins

\* Everyone is idle when a call begins that overlaps no other.
LEMMA BeginsAlone ==
  ASSUME CallBegins, ~overlapped'
  PROVE  /\ \A s \in Callers : sync[s].pc = "idle"
         /\ \A l \in Linkers : linker[l].pc = "idle"
BY DEF CallBegins

LEMMA OneStep ==
  ASSUME TypeOK, OneAtATime, [Next]_vars
  PROVE  OneAtATime'
<1> SUFFICES ASSUME ~overlapped'
             PROVE  OneAtATime'
  BY DEF OneAtATime
<1>1. ~overlapped
  BY NeverForgets
<1>2. /\ sync \in [Callers -> SyncState] /\ linker \in [Linkers -> LinkerState]
  BY DEF TypeOK
<1>3. ASSUME NEW s \in Callers, Admit(s)
      PROVE  OneAtATime'
  <2>1. /\ \A u \in Callers : sync[u].pc = "idle"
        /\ \A l \in Linkers : linker[l].pc = "idle"
    BY <1>3, BeginsAlone DEF Admit
  <2>2. /\ \A u \in Callers : u # s => sync'[u] = sync[u]
        /\ UNCHANGED <<linker, conn>>
        /\ sync'[s].copy = conn.row
    BY <1>2, <1>3 DEF Admit, NoSync
  <2>3. QED
    BY <2>1, <2>2 DEF OneAtATime
<1>4. ASSUME NEW l \in Linkers, ReadForLink(l)
      PROVE  OneAtATime'
  <2>1. /\ \A u \in Callers : sync[u].pc = "idle"
        /\ \A m \in Linkers : linker[m].pc = "idle"
    BY <1>4, BeginsAlone DEF ReadForLink
  <2>2. /\ \A m \in Linkers : m # l => linker'[m] = linker[m]
        /\ UNCHANGED <<sync, conn>>
        /\ linker'[l].copy = conn.row
    BY <1>2, <1>4 DEF ReadForLink
  <2>3. QED
    BY <2>1, <2>2 DEF OneAtATime
<1>5. ASSUME \A s \in Callers : ~Admit(s), \A l \in Linkers : ~ReadForLink(l)
      PROVE  OneAtATime'
  <2>1. \A u \in Callers : sync'[u].pc # "idle" =>
          sync[u].pc # "idle" /\ sync'[u].copy.lastSync = sync[u].copy.lastSync
    BY <1>5, FetchSteps
  <2>2. \A l \in Linkers : linker'[l].pc # "idle" => linker'[l] = linker[l]
    BY <1>5, LinkSteps
  <2>3. CASE conn'.row.lastSync = conn.row.lastSync
    BY <1>1, <2>1, <2>2, <2>3 DEF OneAtATime
  <2>4. ASSUME NEW s \in Callers, Finish(s)
        PROVE  OneAtATime'
    <3>1. sync[s].pc # "idle" /\ sync'[s].pc = "idle"
      BY <1>2, <2>4 DEF Finish, NoSync
    <3>2. /\ \A u \in Callers : sync'[u].pc = "idle"
          /\ \A l \in Linkers : linker'[l].pc = "idle"
      BY <1>1, <2>1, <2>2, <3>1 DEF OneAtATime
    <3>3. QED
      BY <3>2 DEF OneAtATime
  <2>5. QED
    BY <1>1, <2>3, <2>4, LastSyncStep
<1>6. QED
  BY <1>3, <1>4, <1>5

LEMMA DifferenceBound ==
  ASSUME NEW T, NEW S, IsFiniteSet(T), IsFiniteSet(S)
  PROVE  Cardinality(T) <= Cardinality(T \ S) + Cardinality(S)
<1>1. IsFiniteSet(T \ S) /\ IsFiniteSet((T \ S) \cap S)
  BY FS_Subset
<1>2. /\ IsFiniteSet((T \ S) \cup S)
      /\ Cardinality((T \ S) \cup S) =
           Cardinality(T \ S) + Cardinality(S) - Cardinality((T \ S) \cap S)
  BY <1>1, FS_Union
<1>3. T \subseteq (T \ S) \cup S
  OBVIOUS
<1>4. Cardinality(T) <= Cardinality((T \ S) \cup S)
  BY <1>2, <1>3, FS_Subset
<1>5. /\ Cardinality(T) \in Nat /\ Cardinality(T \ S) \in Nat /\ Cardinality(S) \in Nat
      /\ Cardinality((T \ S) \cap S) \in Nat
  BY <1>1, FS_CardinalityType
<1>6. QED
  BY <1>2, <1>4, <1>5

LEMMA DisjointUnion ==
  ASSUME NEW S, NEW T, IsFiniteSet(S), IsFiniteSet(T), S \cap T = {}
  PROVE  /\ IsFiniteSet(S \cup T)
         /\ Cardinality(S \cup T) = Cardinality(S) + Cardinality(T)
<1>1. Cardinality(S \cap T) = 0
  BY FS_EmptySet
<1>2. Cardinality(S) \in Nat /\ Cardinality(T) \in Nat
  BY FS_CardinalityType
<1>3. IsFiniteSet(S \cup T)
  BY FS_Union
<1>4. Cardinality(S \cup T) = Cardinality(S) + Cardinality(T) - Cardinality(S \cap T)
  BY FS_Union
<1>5. Cardinality(S \cup T) = Cardinality(S) + Cardinality(T)
  BY <1>1, <1>2, <1>4
<1>6. QED
  BY <1>3, <1>5

\* While nothing overlaps, a fetch takes no settled trade into a sync's hands.
LEMMA InHandStep ==
  ASSUME TypeOK, HistoryOK, OneAtATime, ~overlapped, [Next]_vars, NEW t \in Settled
  PROVE  t \notin InHand'
<1> SUFFICES ASSUME t \notin acct'.rows, NEW s \in Callers,
                    sync'[s].pc = "reconcile", t \in sync'[s].txs
             PROVE  FALSE
  BY DEF InHand
<1>1. t \in 1 .. Now /\ t \notin InHand
  BY BuysFinite DEF Settled
<1>2. acct.rows \subseteq acct'.rows
  BY OnlyReconcile, ReconcileFacts
<1>3. t \in Passed(conn.row.lastSync) \cup OffNewestPage
  BY <1>2 DEF Settled
<1>4. CASE sync'[s] = sync[s]
  BY <1>1, <1>2, <1>4 DEF InHand
<1>5. CASE FetchTransactions(s)
  <2>1. sync'[s].txs \cap (Passed(sync[s].copy.lastSync) \cup OffNewestPage) = {}
    BY <1>5, FetchFacts
  <2>2. sync[s].copy.lastSync = conn.row.lastSync
    BY <1>5 DEF FetchTransactions, OneAtATime
  <2>3. QED
    BY <1>3, <2>1, <2>2
<1>6. QED
  BY <1>4, <1>5, FetchSteps

\* Nothing unsettles a trade.
LEMMA SettledGrows ==
  ASSUME TypeOK, HistoryOK, PastSyncs, OneAtATime, ~overlapped, [Next]_vars
  PROVE  Settled \subseteq Settled'
<1>1. /\ Buys(Now) \subseteq Buys(Now)' /\ Now' \in Nat /\ Now <= Now' /\ Now \in Nat
  BY BuysGrow DEF HistoryOK
<1>2. acct.rows \subseteq acct'.rows
  BY OnlyReconcile, ReconcileFacts
<1>3. conn.row.lastSync \in Nat /\ conn.row.lastSync <= Now
  BY DEF PastSyncs, TypeOK, Connection, Copy
<1>4. OffNewestPage \subseteq OffNewestPage'
  BY <1>1, PassedGrows
<1>5. Passed(conn.row.lastSync) \subseteq Passed(conn.row.lastSync)'
  <2>1. CASE conn'.row.lastSync = conn.row.lastSync
    BY <1>1, <1>3, <2>1, PassedGrows DEF Passed
  <2>2. ASSUME NEW s \in Callers, Finish(s)
        PROVE  Passed(conn.row.lastSync) \subseteq Passed(conn.row.lastSync)'
    <3>1. UNCHANGED trades /\ conn'.row = [sync[s].copy EXCEPT !.status = "SUCCESS", !.lastSync = Now]
      BY <2>2 DEF Finish, Written
    <3>2. sync[s].copy \in Copy
      BY DEF TypeOK, SyncState
    <3>3. conn'.row.lastSync = Now
      BY <3>1, <3>2 DEF Copy
    <3>4. Passed(conn.row.lastSync) \subseteq Passed(Now)
      BY <1>1, <1>3, PassedGrows
    <3>5. Passed(conn.row.lastSync)' = Passed(Now)
      BY <3>1, <3>3, NowUnchanged DEF Passed
    <3>6. QED
      BY <3>4, <3>5
  <2>3. QED
    BY <2>1, <2>2, LastSyncStep
<1>6. \A t \in Settled : t \notin InHand'
  BY InHandStep
<1>7. QED
  BY <1>1, <1>2, <1>4, <1>5, <1>6 DEF Settled

LEMMA BaselineStep ==
  ASSUME TypeOK, HistoryOK, PastSyncs, LotsCoverHolding, SnapshotsOK, OneAtATime,
         BaselineEarned, [Next]_vars
  PROVE  BaselineEarned'
<1> SUFFICES ASSUME ~overlapped'
             PROVE  acct'.baseline <= Opening + Cardinality((Settled \ acct.lots)')
  BY DEF BaselineEarned
<1>1. ~overlapped
  BY NeverForgets
<1>2. /\ IsFiniteSet(Buys(Now)') /\ Now' \in Nat /\ Buys(Now) \subseteq Buys(Now)'
  BY BuysGrow
<1>3. /\ acct.baseline \in Nat /\ acct'.baseline \in Nat /\ acct.rows \subseteq acct'.rows
  <2>1. TypeOK'
    BY TypeStep
  <2>2. UNCHANGED acct \/ \E s \in Callers : Reconcile(s)
    BY OnlyReconcile
  <2>3. acct.rows \subseteq acct'.rows
    BY <2>2, ReconcileFacts
  <2>4. QED
    BY <2>1, <2>3 DEF TypeOK, Account
<1>4. Settled \subseteq Settled'
  BY <1>1, SettledGrows
<1>5. /\ IsFiniteSet(Settled') /\ IsFiniteSet((Settled \ acct.lots)')
      /\ Cardinality((Settled \ acct.lots)') \in Nat
  <2>1. Settled' \subseteq Buys(Now)' /\ (Settled \ acct.lots)' \subseteq Buys(Now)'
    BY DEF Settled
  <2>2. QED
    BY <1>2, <2>1, SubsetCardinality
<1>6. ASSUME Settled \ acct.lots \subseteq (Settled \ acct.lots)', acct'.baseline = acct.baseline
      PROVE  acct'.baseline <= Opening + Cardinality((Settled \ acct.lots)')
  <2>1. /\ Cardinality(Settled \ acct.lots) \in Nat
        /\ Cardinality(Settled \ acct.lots) <= Cardinality((Settled \ acct.lots)')
    BY <1>5, <1>6, SubsetCardinality
  <2>2. acct.baseline <= Opening + Cardinality(Settled \ acct.lots)
    BY <1>1 DEF BaselineEarned
  <2>3. QED
    BY <1>3, <1>5, <1>6, <2>1, <2>2
<1>7. CASE UNCHANGED acct
  BY <1>4, <1>6, <1>7
<1>8. ASSUME NEW s \in Callers, Reconcile(s)
      PROVE  acct'.baseline <= Opening + Cardinality((Settled \ acct.lots)')
  <2>1. /\ sync[s].pc = "reconcile" /\ UNCHANGED <<trades, conn>>
        /\ sync[s].copy.lastSync = conn.row.lastSync
    BY <1>1, <1>8 DEF Reconcile, OneAtATime
  <2>2. /\ acct'.rows = acct.rows \cup sync[s].txs
        /\ \E new \in SUBSET (sync[s].txs \ acct.rows) : acct'.lots = acct.lots \cup new
        /\ acct'.lots \subseteq Buys(Now)
    BY <1>8, ReconcileFacts
  <2>3. sync[s].txs \ acct.rows \subseteq InHand
    BY <2>1 DEF InHand, TypeOK
  <2>4. Settled \ acct.lots \subseteq (Settled \ acct.lots)'
    <3>1. PICK new \in SUBSET (sync[s].txs \ acct.rows) : acct'.lots = acct.lots \cup new
      BY <2>2
    <3>2. new \cap Settled = {}
      BY <2>3 DEF Settled
    <3>3. QED
      BY <1>4, <3>1, <3>2
  <2>5. CASE acct'.baseline = acct.baseline
    BY <1>6, <2>4, <2>5
  <2>6. CASE acct'.baseline + Cardinality(acct'.lots) = sync[s].quantity
    <3>1. sync[s].quantity <= Opening + Cardinality(Seen(s))
      BY <2>1 DEF SnapshotsOK
    <3>2. Seen(s) \subseteq Settled'
      <4>1. InHand' = {}
        <5>1. \A u \in Callers : sync'[u].pc # "reconcile"
          BY <1>1, <1>8 DEF OneAtATime, Reconcile, TypeOK
        <5>2. QED
          BY <5>1 DEF InHand
      <4>2. /\ Passed(conn.row.lastSync)' = Passed(sync[s].copy.lastSync)
            /\ OffNewestPage' = OffNewestPage /\ Buys(Now)' = Buys(Now)
        BY <2>1, NowUnchanged DEF Passed, OffNewestPage
      <4>3. QED
        BY <2>2, <4>1, <4>2 DEF Seen, Settled
    <3>3. Cardinality(Seen(s)) \in Nat /\ Cardinality(Seen(s)) <= Cardinality(Settled')
          /\ Cardinality(Settled') \in Nat
      BY <1>5, <3>2, SubsetCardinality
    <3>4. IsFiniteSet(acct'.lots) /\ Cardinality(acct'.lots) \in Nat
      BY <2>2, BuysFinite, SubsetCardinality
    <3>5. Cardinality(Settled') <= Cardinality((Settled \ acct.lots)') + Cardinality(acct'.lots)
      BY <1>5, <3>4, DifferenceBound
    <3>6. sync[s].quantity \in Nat
      BY DEF TypeOK, SyncState
    <3>7. QED
      BY <1>3, <1>5, <2>6, <3>1, <3>3, <3>4, <3>5, <3>6
  <2>7. QED
    BY <1>8, <2>5, <2>6, ReconcileCovers
<1>9. QED
  BY <1>7, <1>8, OnlyReconcile

\* What the lots come to, once the baseline is earned.
LEMMA EarnedOnce ==
  ASSUME TypeOK, HistoryOK, BaselineEarned
  PROVE  UnitsTrackedOnce
<1> SUFFICES ASSUME ~overlapped
             PROVE  OpenLots <= Opening + Cardinality(Buys(Now))
  BY DEF UnitsTrackedOnce
<1>1. acct.lots \subseteq Buys(Now) /\ Settled \subseteq Buys(Now) /\ acct.baseline \in Nat
  BY DEF TypeOK, Account, Settled
<1>2. /\ IsFiniteSet(acct.lots) /\ IsFiniteSet(Settled \ acct.lots)
      /\ Cardinality(acct.lots) \in Nat /\ Cardinality(Settled \ acct.lots) \in Nat
  BY <1>1, BuysFinite, SubsetCardinality
<1>3. /\ IsFiniteSet((Settled \ acct.lots) \cup acct.lots)
      /\ Cardinality((Settled \ acct.lots) \cup acct.lots) =
           Cardinality(Settled \ acct.lots) + Cardinality(acct.lots)
  <2>1. (Settled \ acct.lots) \cap acct.lots = {}
    OBVIOUS
  <2>2. QED
    BY <1>2, <2>1, DisjointUnion
<1>4. (Settled \ acct.lots) \cup acct.lots \in SUBSET Buys(Now)
  BY <1>1
<1>5. Cardinality((Settled \ acct.lots) \cup acct.lots) <= Cardinality(Buys(Now))
      /\ Cardinality(Buys(Now)) \in Nat
  BY <1>4, BuysFinite
<1>6. acct.baseline <= Opening + Cardinality(Settled \ acct.lots)
  BY DEF BaselineEarned
<1>7. QED
  BY <1>1, <1>2, <1>3, <1>5, <1>6 DEF OpenLots

LEMMA InitInv ==
  ASSUME Init
  PROVE  IInv
<1>1. TypeOK /\ HistoryOK /\ LotsCoverHolding
  BY InitTypes, InitHistory, InitCover DEF HistoryOK
<1>2. /\ conn.row.lastSync = 0 /\ Now = 0
      /\ \A s \in Callers : sync[s].pc = "idle"
      /\ \A l \in Linkers : linker[l].pc = "idle"
  BY InitHistory DEF Init, NoSync, NoLink, NoCopy
<1>3. PastSyncs /\ SnapshotsOK /\ OneAtATime
  BY <1>2 DEF PastSyncs, SnapshotsOK, OneAtATime
<1>4. BaselineEarned
  <2>1. acct.baseline = 0
    BY DEF Init
  <2>2. Settled \ acct.lots \in SUBSET Buys(Now)
    BY DEF Settled
  <2>3. Cardinality(Settled \ acct.lots) \in Nat
    BY <1>1, <2>2, BuysFinite
  <2>4. QED
    BY <2>1, <2>3 DEF BaselineEarned
<1>5. QED
  BY <1>1, <1>3, <1>4 DEF IInv

\* UnitsTrackedOnce: as long as syncs and links do not overlap, no trade is
\* both imported with its lot and covered by a baseline lot, through failures
\* and crashes at every step of TriggerSync.
THEOREM TrackedOnce == Spec => []UnitsTrackedOnce
<1>1. Init => IInv
  BY InitInv
<1>2. IInv /\ [Next]_vars => IInv'
  BY TypeStep, HistoryStep, PastStep, CoverStep, SnapshotStep, OneStep, BaselineStep DEF IInv
<1>3. IInv => UnitsTrackedOnce
  BY EarnedOnce DEF IInv
<1>4. QED
  BY <1>1, <1>2, <1>3, PTL DEF Spec
-----------------------------------------------------------------------------
(* A trade is missed only while a sync is past its fetch, or off the page. *)

Known == acct.rows \cup late \cup offPage

\* The invariant behind MissedLateOrOffPage.
MissInv == TypeOK /\ HistoryOK /\ MissedLateOrOffPage /\ CopiesTrue

\* No step forgets a trade that is imported, late or off the page.
LEMMA KnownGrows ==
  ASSUME [Next]_vars
  PROVE  Known \subseteq Known'
<1>1. acct.rows \subseteq acct'.rows
  <2>1. \A s \in Callers : Reconcile(s) => acct'.rows = acct.rows \cup sync[s].txs
    BY DEF Reconcile, Reconciled
  <2>2. QED
    BY <2>1, OnlyReconcile
<1>2. late \subseteq late' /\ offPage \subseteq offPage'
  BY DEF Next, vars, Sync, Admit, Begin, Test, FetchHoldings, FetchTransactions, Reconcile,
         Finish, FailTest, FailUnlinked, FailFetch, FailReconcile, Fail, Crash, FiveMinutes,
         ReadForLink, WriteLink, RefuseLink, Trade
<1>3. QED
  BY <1>1, <1>2 DEF Known

\* A call that does not move stays true while the provider does not trade.
LEMMA CallStays ==
  ASSUME [Next]_vars, UNCHANGED trades, NEW call, CallTrue(call, Known)
  PROVE  /\ call.pc # "idle" => 1 .. call.copy.lastSync \subseteq Known'
         /\ call.pc = "reconcile" => 1 .. Now' \subseteq Known' \cup call.txs
         /\ call.pc = "finish" => 1 .. Now' \subseteq Known'
BY KnownGrows, NowUnchanged DEF CallTrue

\* CopiesTrue after a step, spelled out.
LEMMA CopiesNext ==
  ASSUME \A s \in Callers :
           /\ sync'[s].pc # "idle" => 1 .. sync'[s].copy.lastSync \subseteq Known'
           /\ sync'[s].pc = "reconcile" => 1 .. Now' \subseteq Known' \cup sync'[s].txs
           /\ sync'[s].pc = "finish" => 1 .. Now' \subseteq Known',
         \A l \in Linkers :
           linker'[l].pc # "idle" => 1 .. linker'[l].copy.lastSync \subseteq Known'
  PROVE  CopiesTrue'
BY DEF CopiesTrue, CallTrue, Known

\* What a step that changes the record of one sync must show of it.
LEMMA SyncStays ==
  ASSUME TypeOK, CopiesTrue, [Next]_vars, UNCHANGED <<trades, linker>>,
         NEW s \in Callers, NEW x, sync' = [sync EXCEPT ![s] = x],
         x.pc # "idle" => 1 .. x.copy.lastSync \subseteq Known',
         x.pc = "reconcile" => 1 .. Now \subseteq Known' \cup x.txs,
         x.pc = "finish" => 1 .. Now \subseteq Known'
  PROVE  CopiesTrue'
<1>1. \A u \in Callers : sync'[u] = IF u = s THEN x ELSE sync[u]
  BY DEF TypeOK
<1>2. Now' = Now
  BY NowUnchanged
<1>3. \A u \in Callers : CallTrue(sync[u], Known)
  BY DEF CopiesTrue, Known
<1>4. ASSUME NEW u \in Callers
      PROVE  /\ sync'[u].pc # "idle" => 1 .. sync'[u].copy.lastSync \subseteq Known'
             /\ sync'[u].pc = "reconcile" => 1 .. Now' \subseteq Known' \cup sync'[u].txs
             /\ sync'[u].pc = "finish" => 1 .. Now' \subseteq Known'
  <2>1. CASE u = s
    BY <1>1, <1>2, <2>1
  <2>2. CASE u # s
    BY <1>1, <1>3, <2>2, CallStays
  <2>3. QED
    BY <2>1, <2>2
<1>5. \A l \in Linkers :
        linker'[l].pc # "idle" => 1 .. linker'[l].copy.lastSync \subseteq Known'
  BY KnownGrows DEF CopiesTrue, Known
<1>6. QED
  BY <1>4, <1>5, CopiesNext

\* A trade that finds a sync past its fetch is late.
LEMMA TradeMisses ==
  ASSUME MissInv, NEW kind \in {"buy", "sell"}, Trade(kind)
  PROVE  MissedLateOrOffPage' /\ CopiesTrue'
<1>1. Now \in Nat /\ Now' = Now + 1
  BY TradeExtends DEF MissInv, HistoryOK
<1>2. UNCHANGED <<conn, acct, sync, linker>>
  BY DEF Trade
<1>3. Known \subseteq Known' /\ \A s \in Callers : PastFetch(s) => Now + 1 \in Known'
  BY DEF Trade, Known
<1>4. 1 .. Now' = 1 .. Now \cup {Now + 1}
  BY <1>1
<1>5. MissedLateOrOffPage'
  BY <1>2, <1>3 DEF MissInv, MissedLateOrOffPage, Known
<1>6. \A s \in Callers : CallTrue(sync[s], Known)
  BY DEF MissInv, CopiesTrue, Known
<1>7. \A s \in Callers :
        /\ sync'[s].pc # "idle" => 1 .. sync'[s].copy.lastSync \subseteq Known'
        /\ sync'[s].pc = "reconcile" => 1 .. Now' \subseteq Known' \cup sync'[s].txs
        /\ sync'[s].pc = "finish" => 1 .. Now' \subseteq Known'
  BY <1>2, <1>3, <1>4, <1>6 DEF CallTrue, PastFetch
<1>8. \A l \in Linkers :
        linker'[l].pc # "idle" => 1 .. linker'[l].copy.lastSync \subseteq Known'
  BY <1>2, <1>3 DEF MissInv, CopiesTrue, Known
<1>9. QED
  BY <1>5, <1>7, <1>8, CopiesNext

\* The row only ever gets a last_sync_at that some call held, or the present
\* time from a sync that has imported what it fetched.
LEMMA SyncMisses ==
  ASSUME MissInv, NEW s \in Callers, Sync(s) \/ Crash(s)
  PROVE  MissedLateOrOffPage' /\ CopiesTrue'
<1>1. [Next]_vars
  BY DEF Next
<1>2. TypeOK /\ CopiesTrue /\ Known \subseteq Known' /\ Now \in Nat
  BY <1>1, KnownGrows DEF MissInv, HistoryOK
<1>3. CallTrue(sync[s], Known) /\ 1 .. conn.row.lastSync \subseteq Known
  BY DEF MissInv, CopiesTrue, MissedLateOrOffPage, Known
<1>4. /\ sync[s] \in SyncState /\ sync[s].copy \in Copy /\ conn.row \in Copy
      /\ sync[s].copy.lastSync \in Nat
  BY <1>2 DEF TypeOK, SyncState, Connection, Copy
<1>5. UNCHANGED <<trades, linker>>
  BY DEF Sync, Admit, Begin, Test, FetchHoldings, FetchTransactions, Reconcile,
         Finish, FailTest, FailUnlinked, FailFetch, FailReconcile, Fail, Crash
<1>6. NoSync.pc = "idle"
  BY DEF NoSync
<1>7. CASE Admit(s)
  <2> DEFINE x == [NoSync EXCEPT !.pc = "admitted", !.copy = conn.row]
  <2>1. sync' = [sync EXCEPT ![s] = x] /\ UNCHANGED conn
    BY <1>7 DEF Admit
  <2>2. x.pc = "admitted" /\ x.copy = conn.row
    BY DEF NoSync
  <2> HIDE DEF x
  <2>3. CopiesTrue'
    BY <1>1, <1>2, <1>3, <1>5, <2>1, <2>2, SyncStays
  <2>4. QED
    BY <1>2, <1>3, <2>1, <2>3 DEF MissedLateOrOffPage, Known
<1>8. CASE Begin(s)
  <2> DEFINE copy == [sync[s].copy EXCEPT !.status = "SYNCING"]
             x    == [sync[s] EXCEPT !.pc = "testing", !.copy = copy]
  <2>1. sync' = [sync EXCEPT ![s] = x] /\ conn' = Written(copy) /\ sync[s].pc = "admitted"
    BY <1>8 DEF Begin
  <2>2. x.pc = "testing" /\ x.copy = copy /\ copy.lastSync = sync[s].copy.lastSync
    BY <1>4 DEF SyncState, Copy
  <2>3. conn'.row = copy
    BY <2>1 DEF Written
  <2> HIDE DEF x, copy
  <2>4. 1 .. copy.lastSync \subseteq Known'
    BY <1>2, <1>3, <2>1, <2>2 DEF CallTrue
  <2>5. CopiesTrue'
    BY <1>1, <1>2, <1>5, <2>1, <2>2, <2>4, SyncStays
  <2>6. QED
    BY <2>3, <2>4, <2>5 DEF MissedLateOrOffPage, Known
<1>9. CASE Test(s) \/ FetchHoldings(s)
  <2>1. PICK x : /\ sync' = [sync EXCEPT ![s] = x] /\ x.copy = sync[s].copy
                 /\ x.pc \in {"holdings", "transactions"}
    <3>1. CASE Test(s)
      <4> DEFINE y == [sync[s] EXCEPT !.pc = "holdings"]
      <4>1. y.copy = sync[s].copy /\ y.pc = "holdings" /\ sync' = [sync EXCEPT ![s] = y]
        BY <1>4, <3>1 DEF Test, SyncState
      <4>2. QED
        BY <4>1
    <3>2. CASE FetchHoldings(s)
      <4> DEFINE y == [sync[s] EXCEPT !.pc = "transactions", !.quantity = Held(Now)]
      <4>1. y.copy = sync[s].copy /\ y.pc = "transactions" /\ sync' = [sync EXCEPT ![s] = y]
        BY <1>4, <3>2 DEF FetchHoldings, SyncState
      <4>2. QED
        BY <4>1
    <3>3. QED
      BY <1>9, <3>1, <3>2
  <2>2. UNCHANGED conn /\ sync[s].pc # "idle"
    BY <1>9 DEF Test, FetchHoldings
  <2>3. CopiesTrue'
    BY <1>1, <1>2, <1>3, <1>5, <2>1, <2>2, SyncStays DEF CallTrue
  <2>4. QED
    BY <1>2, <1>3, <2>2, <2>3 DEF MissedLateOrOffPage, Known
<1>10. CASE FetchTransactions(s)
  <2> DEFINE asked == (1 .. Now) \ Passed(sync[s].copy.lastSync)
             page  == Now - PageSize + 1 .. Now
             x     == [sync[s] EXCEPT !.pc = "reconcile", !.txs = asked \cap page]
  <2>1. /\ sync' = [sync EXCEPT ![s] = x] /\ UNCHANGED conn /\ sync[s].pc # "idle"
        /\ offPage' = offPage \cup (asked \ page)
    BY <1>10 DEF FetchTransactions
  <2>2. x.pc = "reconcile" /\ x.copy = sync[s].copy /\ x.txs = asked \cap page
    BY <1>4 DEF SyncState
  <2>3. Passed(sync[s].copy.lastSync) \subseteq 1 .. sync[s].copy.lastSync
    BY <1>2, <1>4 DEF Passed
  <2> HIDE DEF x, page
  <2>4. 1 .. sync[s].copy.lastSync \subseteq Known'
    BY <1>2, <1>3, <2>1 DEF CallTrue
  <2>5. 1 .. Now \subseteq Known' \cup x.txs
    BY <2>1, <2>2, <2>3, <2>4 DEF Known
  <2>6. CopiesTrue'
    BY <1>1, <1>2, <1>5, <2>1, <2>2, <2>4, <2>5, SyncStays
  <2>7. QED
    BY <1>2, <1>3, <2>1, <2>6 DEF MissedLateOrOffPage, Known
<1>11. CASE Reconcile(s)
  <2> DEFINE x == [sync[s] EXCEPT !.pc = "finish"]
  <2>1. sync' = [sync EXCEPT ![s] = x] /\ UNCHANGED <<conn, late, offPage>> /\ sync[s].pc = "reconcile"
    BY <1>11 DEF Reconcile
  <2>2. x.pc = "finish" /\ x.copy = sync[s].copy
    BY <1>4 DEF SyncState
  <2> HIDE DEF x
  <2>3. sync[s].txs \subseteq Known'
    BY <1>11 DEF Reconcile, Reconciled, Known
  <2>4. 1 .. Now \subseteq Known' /\ 1 .. sync[s].copy.lastSync \subseteq Known'
    BY <1>2, <1>3, <2>1, <2>3 DEF CallTrue
  <2>5. CopiesTrue'
    BY <1>1, <1>2, <1>5, <2>1, <2>2, <2>4, SyncStays
  <2>6. QED
    BY <1>2, <1>3, <2>1, <2>5 DEF MissedLateOrOffPage, Known
<1>12. CASE sync' = [sync EXCEPT ![s] = NoSync]
  <2>1. CopiesTrue'
    BY <1>1, <1>2, <1>5, <1>6, <1>12, SyncStays
  <2>2. CASE Finish(s)
    <3>1. conn'.row.lastSync = Now /\ sync[s].pc = "finish"
      BY <1>4, <2>2 DEF Finish, Written, Copy
    <3>2. QED
      BY <1>2, <1>3, <2>1, <3>1 DEF CallTrue, MissedLateOrOffPage, Known
  <2>3. CASE Fail(s) /\ sync[s].pc # "idle"
    <3>1. conn'.row.lastSync = sync[s].copy.lastSync
      BY <1>4, <2>3 DEF Fail, Written, Copy
    <3>2. QED
      BY <1>2, <1>3, <2>1, <2>3, <3>1 DEF CallTrue, MissedLateOrOffPage, Known
  <2>4. CASE UNCHANGED conn
    BY <1>2, <1>3, <2>1, <2>4 DEF MissedLateOrOffPage, Known
  <2>5. Finish(s) \/ (Fail(s) /\ sync[s].pc # "idle") \/ UNCHANGED conn
        \/ Begin(s)
    BY DEF Sync, Admit, Test, FetchHoldings, FetchTransactions, Reconcile,
           FailTest, FailUnlinked, FailFetch, FailReconcile, Crash
  <2>6. QED
    BY <1>8, <2>2, <2>3, <2>4, <2>5
<1>13. QED
  BY <1>7, <1>8, <1>9, <1>10, <1>11, <1>12
     DEF Sync, Finish, FailTest, FailUnlinked, FailFetch, FailReconcile, Fail, Crash

\* A link writes its copy back, with the last_sync_at it has read.
LEMMA LinkMisses ==
  ASSUME MissInv, NEW l \in Linkers, ReadForLink(l) \/ WriteLink(l) \/ RefuseLink(l)
  PROVE  MissedLateOrOffPage' /\ CopiesTrue'
<1>1. UNCHANGED <<trades, sync, acct, late, offPage>>
  BY DEF ReadForLink, WriteLink, RefuseLink
<1>2. Known' = Known /\ Now' = Now
  BY <1>1, NowUnchanged DEF Known
<1>3. /\ linker \in [Linkers -> LinkerState] /\ linker[l].copy \in Copy
      /\ 1 .. conn.row.lastSync \subseteq Known
      /\ \A m \in Linkers : linker[m].pc # "idle" => 1 .. linker[m].copy.lastSync \subseteq Known
      /\ \A s \in Callers : CallTrue(sync[s], Known)
  BY DEF MissInv, TypeOK, LinkerState, CopiesTrue, MissedLateOrOffPage, Known
<1>4. 1 .. conn'.row.lastSync \subseteq Known
  <2>1. CASE WriteLink(l)
    <3>1. conn'.row.lastSync = linker[l].copy.lastSync /\ linker[l].pc = "write"
      BY <1>3, <2>1 DEF WriteLink, Written, Copy
    <3>2. QED
      BY <1>3, <3>1
  <2>2. QED
    BY <1>3, <2>1 DEF ReadForLink, RefuseLink
<1>5. ASSUME NEW m \in Linkers, linker'[m].pc # "idle"
      PROVE  1 .. linker'[m].copy.lastSync \subseteq Known
  <2>1. NoLink.pc = "idle"
    BY DEF NoLink
  <2>2. linker'[m] = linker[m] \/ linker'[m].copy = conn.row
    BY <1>3, <1>5, <2>1 DEF ReadForLink, WriteLink, RefuseLink
  <2>3. QED
    BY <1>3, <1>5, <2>2
<1>6. \A s \in Callers :
        /\ sync'[s].pc # "idle" => 1 .. sync'[s].copy.lastSync \subseteq Known'
        /\ sync'[s].pc = "reconcile" => 1 .. Now' \subseteq Known' \cup sync'[s].txs
        /\ sync'[s].pc = "finish" => 1 .. Now' \subseteq Known'
  BY <1>1, <1>2, <1>3 DEF CallTrue
<1>7. QED
  BY <1>2, <1>4, <1>5, <1>6, CopiesNext DEF MissedLateOrOffPage, Known

\* Every step keeps MissInv.
LEMMA MissStep ==
  ASSUME MissInv, [Next]_vars
  PROVE  MissInv'
<1>1. TypeOK' /\ HistoryOK'
  BY TypeStep, HistoryStep DEF MissInv
<1>2. CASE UNCHANGED <<trades, conn, acct, sync, linker, late, offPage>> \/ FiveMinutes
  <2>1. UNCHANGED <<trades, acct, sync, linker, late, offPage>> /\ conn'.row = conn.row
    BY <1>2 DEF FiveMinutes, MissInv, TypeOK, Connection
  <2>2. Now' = Now
    BY <2>1, NowUnchanged
  <2>3. MissedLateOrOffPage' /\ CopiesTrue'
    BY <2>1, <2>2 DEF MissInv, MissedLateOrOffPage, CopiesTrue, CallTrue
  <2>4. QED
    BY <1>1, <2>3 DEF MissInv
<1>3. QED
  BY <1>1, <1>2, TradeMisses, SyncMisses, LinkMisses DEF Next, vars, MissInv

\* The only trades before last_sync_at that are not imported are those booked
\* between some sync's fetch and the end of that sync (sync/service.go:390) and
\* those that a fetch asked for and that were not on its one page
\* (kraken.go:486-504), however calls overlap, fail or crash and whatever copies
\* they write back.
THEOREM MissedLateOrUnpaged == Spec => []MissedLateOrOffPage
<1>1. Init => MissInv
  <2>1. ASSUME Init PROVE MissedLateOrOffPage /\ CopiesTrue
    BY <2>1, NoCopyType DEF Init, MissedLateOrOffPage, CopiesTrue, CallTrue, NoSync, NoLink, NoCopy
  <2>2. QED
    BY <2>1, InitTypes, InitHistory DEF MissInv, HistoryOK
<1>2. MissInv /\ [Next]_vars => MissInv'
  BY MissStep
<1>3. QED
  BY <1>1, <1>2, PTL DEF Spec, MissInv
=============================================================================

----------------------------- MODULE TradeCache -----------------------------
(***************************************************************************)
(* How one trade record changes the cached valuations: handleTradeRecord of *)
(* internal/kafka/consumer.go, UpdatePortfolioCaches of                     *)
(* internal/service/cache.go, and the scripts with their operation markers  *)
(* of internal/redisstore/idempotent.go.                                    *)
(*                                                                          *)
(* A worker is a trade consumer of any process.  A Redis call that another  *)
(* worker can come between is a step of its own; it may fail, or take       *)
(* effect and lose its reply, and then the handler returns an error and is  *)
(* called again for the same record.                                        *)
(***************************************************************************)
EXTENDS TradeEvents, FiniteSets, FiniteSetsExt

CONSTANTS
  Workers,
  NoTrade,         \* what an idle worker works on
  Nobody,          \* the user of a portfolio without a mapping
  Missing,         \* a scv field that is not in the hash
  CasAttempts,     \* maxCompareAndSetAttempts
  MaxFaults,       \* bound: Redis calls that fail or whose reply is lost
  MaxMisreads,     \* bound: reads whose error is taken for an empty value
  MaxZombies,      \* bound: records taken while an expelled worker has one
  MaxRedeliveries, \* bound: records taken again after they were finished
  MaxCrashes       \* bound: workers that die

ASSUME NamesAssumption ==
  NoTrade \notin Trades /\ Nobody \notin Users /\ Missing \notin Int

ASSUME CasAssumption == CasAttempts \in Nat \ {0}

VARIABLES
  \* Redis, per holding
  quantity,   \* 0 when the key is absent
  turned,     \* per trade: the quantity's marker, with its result
  indexed,    \* holdings in the index the price fan-out follows
  scv,        \* the stock's value in the portfolio hash
  shown,      \* the compatibility projection of scv, 0 when absent
  \* Redis, per portfolio and per user
  pf,         \* purchased value, current value, its snapshot, asset count
  inPf,       \* trades with a marker for the portfolio hash
  usr,        \* purchased value, current value, snapshot, portfolio count
  inUsr,      \* trades with a marker for the user hash
  owner,      \* field u
  pending,    \* portfolios with field ucp
  members,    \* per user: the set of portfolios
  processed,  \* trades with a processed:trade key
  \* per worker
  pc, trade,
  seen,       \* the quantity compareAndSet read, then the one after it
  tries,      \* conflicts met by compareAndSet
  turn,       \* added or removed
  base,       \* the legacy value read, then the value to show
  snap,       \* what the snapshot read
  \* the topic
  returned,   \* trades whose record was finished
  spent       \* how much of each bound is used up

holdingVars == <<quantity, turned, indexed, scv, shown>>
hashVars == <<pf, inPf, usr, inUsr>>
mapVars == <<owner, pending, members>>
localVars == <<seen, tries, turn, base, snap>>
vars == <<holdingVars, hashVars, mapVars, processed, pc, trade, localVars,
          returned, spent>>

Phases == {"idle", "check", "map", "enroll", "read", "cas", "index", "legacy",
           "totals", "project", "user", "mark", "pfread", "pfsave", "usrread", "usrsave"}

Bounds == {"faults", "misreads", "zombies", "redeliveries", "crashes"}

Limit == [faults |-> MaxFaults, misreads |-> MaxMisreads,
          zombies |-> MaxZombies, redeliveries |-> MaxRedeliveries,
          crashes |-> MaxCrashes]

NoSnap == [pv |-> 0, cv |-> 0, n |-> 0]

Init ==
  /\ quantity = [h \in Holdings |-> 0]
  /\ turned = [t \in Trades |-> "none"]
  /\ indexed = {}
  /\ scv = [h \in Holdings |-> Missing]
  /\ shown = [h \in Holdings |-> 0]
  /\ pf = [p \in Portfolios |-> [pv |-> 0, cvp |-> 0, cv |-> 0, ac |-> 0]]
  /\ inPf = {}
  /\ usr = [u \in Users |-> [pv |-> 0, cvp |-> 0, cv |-> 0, count |-> 0]]
  /\ inUsr = {}
  /\ owner = [p \in Portfolios |-> Nobody]
  /\ pending = {}
  /\ members = [u \in Users |-> {}]
  /\ processed = {}
  /\ pc = [w \in Workers |-> "idle"]
  /\ trade = [w \in Workers |-> NoTrade]
  /\ seen = [w \in Workers |-> 0]
  /\ tries = [w \in Workers |-> 0]
  /\ turn = [w \in Workers |-> FALSE]
  /\ base = [w \in Workers |-> 0]
  /\ snap = [w \in Workers |-> NoSnap]
  /\ returned = {}
  /\ spent = [bound \in Bounds |-> 0]

Spend(bound) ==
  /\ spent[bound] < Limit[bound]
  /\ spent' = [spent EXCEPT ![bound] = @ + 1]

Goto(w, phase) == pc' = [pc EXCEPT ![w] = phase]

\* The error of a call makes the handler return; its record is handled again.
Continue(w, phase) ==
  \/ Goto(w, phase) /\ UNCHANGED spent
  \/ Goto(w, "check") /\ Spend("faults")

\* A new call of the handler has new locals.
Fresh(w) ==
  /\ seen' = [seen EXCEPT ![w] = 0]
  /\ tries' = [tries EXCEPT ![w] = 0]
  /\ turn' = [turn EXCEPT ![w] = FALSE]
  /\ base' = [base EXCEPT ![w] = 0]
  /\ snap' = [snap EXCEPT ![w] = NoSnap]

\* A worker is at a record of the partition.
Busy(part) == \E v \in Workers : pc[v] # "idle" /\ trade[v].part = part

\* A record comes after those before it in its partition.  It may come again
\* when its offset was not committed, and to a second worker when the first
\* lost its session and does not know.
Take(w, t) ==
  /\ pc[w] = "idle"
  /\ \A u \in Trades : u.part = t.part /\ u.id < t.id => u \in returned
  /\ \/ t \notin returned /\ ~Busy(t.part) /\ UNCHANGED spent
     \/ t \notin returned /\ Busy(t.part) /\ Spend("zombies")
     \/ t \in returned /\ ~Busy(t.part) /\ Spend("redeliveries")
  /\ Goto(w, "check")
  /\ trade' = [trade EXCEPT ![w] = t]
  /\ UNCHANGED <<holdingVars, hashVars, mapVars, processed, localVars, returned>>

\* Mutant: a processed trade is an error.
CheckRefuses(w) ==
  /\ pc[w] = "check"
  /\ Goto(w, IF trade[w] \in processed THEN "check" ELSE "map")
  /\ Fresh(w)
  /\ UNCHANGED <<holdingVars, hashVars, mapVars, processed, trade, returned,
                 spent>>

\* IsTradeProcessed: what is processed only has its snapshots saved again.
Check(w) ==
  /\ pc[w] = "check"
  /\ Goto(w, IF trade[w] \in processed THEN "pfread" ELSE "map")
  /\ Fresh(w)
  /\ UNCHANGED <<holdingVars, hashVars, mapVars, processed, trade, returned,
                 spent>>

----------------------------------------------------------------------------
(* applyPortfolio *)

\* FindUserIDByPortfolioID drops its error: a mapped portfolio may look unmapped.
FindUser(w) ==
  LET mapped == owner[trade[w].pf]
  IN  /\ pc[w] = "map"
      /\ \/ Goto(w, IF mapped = Nobody THEN "enroll" ELSE "read") /\ UNCHANGED spent
         \/ mapped # Nobody /\ Goto(w, "enroll") /\ Spend("misreads")
      /\ UNCHANGED <<holdingVars, hashVars, mapVars, processed, trade, localVars,
                     returned>>

\* MapPortfolioToUserFromTrade: hash and set are written by one pipeline.
MapUser(w) ==
  LET t == trade[w]
  IN  /\ pc[w] = "enroll"
      /\ owner' = [owner EXCEPT ![t.pf] = t.user]
      /\ pending' = pending \cup {t.pf}
      /\ members' = [members EXCEPT ![t.user] = @ \cup {t.pf}]
      /\ Continue(w, "read")
      /\ UNCHANGED <<holdingVars, hashVars, processed, trade, localVars,
                     returned>>

\* The pipeline fails between its two writes, which are on different nodes.
MapHalf(w) ==
  LET t == trade[w]
  IN  /\ pc[w] = "enroll"
      /\ Spend("faults")
      /\ \/ /\ owner' = [owner EXCEPT ![t.pf] = t.user]
            /\ pending' = pending \cup {t.pf}
            /\ UNCHANGED members
         \/ /\ members' = [members EXCEPT ![t.user] = @ \cup {t.pf}]
            /\ UNCHANGED <<owner, pending>>
      /\ Goto(w, "check")
      /\ UNCHANGED <<holdingVars, hashVars, processed, trade, localVars,
                     returned>>

----------------------------------------------------------------------------
(* compareAndSet on the quantity and syncHoldingIndexes *)

ReadQuantity(w) ==
  /\ pc[w] = "read"
  /\ seen' = [seen EXCEPT ![w] = quantity[Holding(trade[w])]]
  /\ Goto(w, "cas")
  /\ UNCHANGED <<holdingVars, hashVars, mapVars, processed, trade, tries, turn,
                 base, snap, returned, spent>>

\* Mutant: the marker does not keep the result.
CasAppliedForgotten(w) ==
  LET t == trade[w]
  IN  /\ pc[w] = "cas"
      /\ turned[t] # "none"
      /\ turn' = [turn EXCEPT ![w] = FALSE]
      /\ seen' = [seen EXCEPT ![w] = quantity[Holding(t)]]
      /\ Continue(w, "index")
      /\ UNCHANGED <<holdingVars, hashVars, mapVars, processed, trade, tries,
                     base, snap, returned>>

\* The marker is there: its result, and the quantity as it is now.
CasApplied(w) ==
  LET t == trade[w]
  IN  /\ pc[w] = "cas"
      /\ turned[t] # "none"
      /\ turn' = [turn EXCEPT ![w] = turned[t] = "yes"]
      /\ seen' = [seen EXCEPT ![w] = quantity[Holding(t)]]
      /\ Continue(w, "index")
      /\ UNCHANGED <<holdingVars, hashVars, mapVars, processed, trade, tries,
                     base, snap, returned>>

\* Another write came between: the update is computed again from the value
\* found, up to CasAttempts times.
CasConflict(w) ==
  LET t == trade[w]
  IN  /\ pc[w] = "cas"
      /\ turned[t] = "none"
      /\ quantity[Holding(t)] # seen[w]
      /\ seen' = [seen EXCEPT ![w] = quantity[Holding(t)]]
      /\ tries' = [tries EXCEPT ![w] = @ + 1]
      /\ Goto(w, IF tries[w] + 1 = CasAttempts THEN "check" ELSE "cas")
      /\ UNCHANGED <<holdingVars, hashVars, mapVars, processed, trade, turn,
                     base, snap, returned, spent>>

\* Mutant: a set, without the comparison.
CasUncompared(w) ==
  LET t == trade[w]
  IN  /\ pc[w] = "cas"
      /\ turned[t] = "none"
      /\ quantity' = [quantity EXCEPT ![Holding(t)] = After(t, seen[w])]
      /\ turned' = [turned EXCEPT ![t] =
                      IF Turns(t, seen[w]) THEN "yes" ELSE "no"]
      /\ turn' = [turn EXCEPT ![w] = Turns(t, seen[w])]
      /\ seen' = [seen EXCEPT ![w] = After(t, seen[w])]
      /\ Continue(w, "index")
      /\ UNCHANGED <<indexed, scv, shown, hashVars, mapVars, processed, trade,
                     tries, base, snap, returned>>

CasOk(w) ==
  LET t == trade[w]
  IN  /\ pc[w] = "cas"
      /\ turned[t] = "none"
      /\ quantity[Holding(t)] = seen[w]
      /\ quantity' = [quantity EXCEPT ![Holding(t)] = After(t, seen[w])]
      /\ turned' = [turned EXCEPT ![t] =
                      IF Turns(t, seen[w]) THEN "yes" ELSE "no"]
      /\ turn' = [turn EXCEPT ![w] = Turns(t, seen[w])]
      /\ seen' = [seen EXCEPT ![w] = After(t, seen[w])]
      /\ Continue(w, "index")
      /\ UNCHANGED <<indexed, scv, shown, hashVars, mapVars, processed, trade,
                     tries, base, snap, returned>>

\* syncHoldingIndexes goes by the quantity after the write.  The two indexes
\* are written alike; this is the one by stock.
SyncIndex(w) ==
  LET h == Holding(trade[w])
  IN  /\ pc[w] = "index"
      /\ indexed' = IF seen[w] > 0 THEN indexed \cup {h} ELSE indexed \ {h}
      /\ Continue(w, "legacy")
      /\ UNCHANGED <<quantity, turned, scv, shown, hashVars, mapVars, processed,
                     trade, localVars, returned>>

----------------------------------------------------------------------------
(* ApplyPortfolioTradeTotals and ApplyUserTotals *)

\* getDec of the compatibility key, whose error reads as 0.
ReadLegacy(w) ==
  /\ pc[w] = "legacy"
  /\ \/ /\ base' = [base EXCEPT ![w] = shown[Holding(trade[w])]]
        /\ UNCHANGED spent
     \/ /\ base' = [base EXCEPT ![w] = 0]
        /\ Spend("misreads")
  /\ Goto(w, "totals")
  /\ UNCHANGED <<holdingVars, hashVars, mapVars, processed, trade, seen, tries,
                 turn, snap, returned>>

\* The stock's value after t, given the value it is added to.
ValueAfter(t, removed, value) ==
  IF t.type = "SELL" /\ (removed \/ value + Amount(t) <= 0)
    THEN Missing ELSE value + Amount(t)

OrZero(value) == IF value = Missing THEN 0 ELSE value

AssetChange(t, turns) == IF ~turns THEN 0 ELSE IF t.type = "BUY" THEN 1 ELSE -1

\* The increments of the two scripts to a portfolio's and to a user's hash.
PlusTrade(hash, amount, assets) ==
  [hash EXCEPT !.pv = @ + amount, !.cvp = @ + amount, !.ac = @ + assets]

PlusAmount(hash, amount) == [hash EXCEPT !.pv = @ + amount, !.cvp = @ + amount]

\* Mutant: the portfolio hash has no marker.
ApplyTotalsUnmarked(w) ==
  LET t == trade[w]
      h == Holding(t)
      value == ValueAfter(t, turn[w],
                          IF scv[h] = Missing THEN base[w] ELSE scv[h])
  IN  /\ pc[w] = "totals"
      /\ base' = [base EXCEPT ![w] = OrZero(value)]
      /\ scv' = [scv EXCEPT ![h] = value]
      /\ pf' = [pf EXCEPT ![t.pf] =
                   PlusTrade(@, Amount(t), AssetChange(t, turn[w]))]
      /\ inPf' = inPf \cup {t}
      /\ Continue(w, "project")
      /\ UNCHANGED <<quantity, turned, indexed, shown, usr, inUsr, mapVars,
                     processed, trade, seen, tries, turn, snap, returned>>

\* applyPortfolioTradeTotalsScript.
ApplyTotals(w) ==
  LET t == trade[w]
      h == Holding(t)
      value == ValueAfter(t, turn[w],
                          IF scv[h] = Missing THEN base[w] ELSE scv[h])
  IN  /\ pc[w] = "totals"
      /\ IF t \in inPf
           THEN /\ base' = [base EXCEPT ![w] = OrZero(scv[h])]
                /\ UNCHANGED <<scv, pf, inPf>>
           ELSE /\ base' = [base EXCEPT ![w] = OrZero(value)]
                /\ scv' = [scv EXCEPT ![h] = value]
                /\ pf' = [pf EXCEPT ![t.pf] =
                             PlusTrade(@, Amount(t), AssetChange(t, turn[w]))]
                /\ inPf' = inPf \cup {t}
      /\ Continue(w, "project")
      /\ UNCHANGED <<quantity, turned, indexed, shown, usr, inUsr, mapVars,
                     processed, trade, seen, tries, turn, snap, returned>>

Project(w) ==
  /\ pc[w] = "project"
  /\ shown' = [shown EXCEPT ![Holding(trade[w])] = base[w]]
  /\ Continue(w, "user")
  /\ UNCHANGED <<quantity, turned, indexed, scv, hashVars, mapVars, processed,
                 trade, localVars, returned>>

\* Mutant: the user hash has no marker.
ApplyUserUnmarked(w) ==
  LET t == trade[w]
  IN  /\ pc[w] = "user"
      /\ usr' = [usr EXCEPT ![t.user] = PlusAmount(@, Amount(t))]
      /\ inUsr' = inUsr \cup {t}
      /\ Continue(w, "mark")
      /\ UNCHANGED <<holdingVars, pf, inPf, mapVars, processed, trade,
                     localVars, returned>>

\* applyUserTotalsScript.
ApplyUser(w) ==
  LET t == trade[w]
  IN  /\ pc[w] = "user"
      /\ IF t \in inUsr
           THEN UNCHANGED <<usr, inUsr>>
           ELSE /\ usr' = [usr EXCEPT ![t.user] = PlusAmount(@, Amount(t))]
                /\ inUsr' = inUsr \cup {t}
      /\ Continue(w, "mark")
      /\ UNCHANGED <<holdingVars, pf, inPf, mapVars, processed, trade,
                     localVars, returned>>

MarkProcessed(w) ==
  /\ pc[w] = "mark"
  /\ processed' = processed \cup {trade[w]}
  /\ Continue(w, "pfread")
  /\ UNCHANGED <<holdingVars, hashVars, mapVars, trade, localVars, returned>>

----------------------------------------------------------------------------
(* savePortfolioSnapshot and saveUserSnapshot *)

\* What the reads of a hash leave when those of lost fail: their errors are
\* dropped, a field reads as 0 and the current value falls back to the saved
\* one.  The HGETs are taken as one step: each field is written back for
\* itself.
Reading(hash, count, lost) ==
  LET Get(f, value) == IF f \in lost THEN 0 ELSE value
  IN  [pv |-> Get("pv", hash.pv), n |-> Get("n", count),
       cv |-> IF "cvp" \in lost THEN Get("cv", hash.cv) ELSE hash.cvp]

Misread(lost) == IF lost = {} THEN UNCHANGED spent ELSE Spend("misreads")

ReadPortfolio(w, lost) ==
  LET hash == pf[trade[w].pf]
  IN  /\ pc[w] = "pfread"
      /\ snap' = [snap EXCEPT ![w] = Reading(hash, hash.ac, lost)]
      /\ Misread(lost)
      /\ Goto(w, "pfsave")
      /\ UNCHANGED <<holdingVars, hashVars, mapVars, processed, trade, seen,
                     tries, turn, base, returned>>

\* SavePortfolioValuation writes the purchased value and the count back too.
SavePortfolio(w) ==
  /\ pc[w] = "pfsave"
  /\ pf' = [pf EXCEPT ![trade[w].pf] =
              [@ EXCEPT !.pv = snap[w].pv, !.cv = snap[w].cv, !.ac = snap[w].n]]
  /\ Continue(w, "usrread")
  /\ UNCHANGED <<holdingVars, inPf, usr, inUsr, mapVars, processed, trade,
                 localVars, returned>>

ReadUser(w, lost) ==
  LET hash == usr[trade[w].user]
  IN  /\ pc[w] = "usrread"
      /\ snap' = [snap EXCEPT ![w] = Reading(hash, hash.count, lost)]
      /\ Misread(lost)
      /\ Goto(w, "usrsave")
      /\ UNCHANGED <<holdingVars, hashVars, mapVars, processed, trade, seen,
                     tries, turn, base, returned>>

\* SaveUserValuation, and the record is finished; or it failed, and is not.
SaveUser(w) ==
  LET t == trade[w]
  IN  /\ pc[w] = "usrsave"
      /\ usr' = [usr EXCEPT ![t.user] =
              [@ EXCEPT !.pv = snap[w].pv, !.cv = snap[w].cv, !.count = snap[w].n]]
      /\ \/ /\ Goto(w, "check")
            /\ Spend("faults")
            /\ UNCHANGED <<trade, returned, localVars>>
         \/ /\ Goto(w, "idle")
            /\ trade' = [trade EXCEPT ![w] = NoTrade]
            /\ returned' = returned \cup {t}
            /\ Fresh(w)
            /\ UNCHANGED spent
      /\ UNCHANGED <<holdingVars, pf, inPf, inUsr, mapVars, processed>>

----------------------------------------------------------------------------
(* Failures *)

\* A call fails without effect, in a phase whose errors are returned.
CallFails(w) ==
  /\ pc[w] \in {"check", "enroll", "read", "cas", "index", "totals", "project",
                "user", "mark", "pfsave", "usrsave"}
  /\ Spend("faults")
  /\ Goto(w, "check")
  /\ UNCHANGED <<holdingVars, hashVars, mapVars, processed, trade, localVars,
                 returned>>

Crash(w) ==
  /\ pc[w] # "idle"
  /\ Spend("crashes")
  /\ Goto(w, "idle")
  /\ trade' = [trade EXCEPT ![w] = NoTrade]
  /\ Fresh(w)
  /\ UNCHANGED <<holdingVars, hashVars, mapVars, processed, returned>>

Fields == {"pv", "cvp", "cv", "n"}

\* The calls that touch neither the holding indexes nor a portfolio's `del`.
Compute(w) ==
  \/ Check(w) \/ FindUser(w) \/ MapUser(w) \/ ReadQuantity(w)
  \/ CasApplied(w) \/ CasConflict(w) \/ CasOk(w)
  \/ ReadLegacy(w) \/ ApplyTotals(w) \/ Project(w) \/ ApplyUser(w)
  \/ MarkProcessed(w)
  \/ \E lost \in SUBSET Fields : ReadPortfolio(w, lost) \/ ReadUser(w, lost)
  \/ SaveUser(w)

Work(w) == Compute(w) \/ SyncIndex(w) \/ SavePortfolio(w)

Failure(w) == MapHalf(w) \/ CallFails(w) \/ Crash(w)

Next ==
  \E w \in Workers : (\E t \in Trades : Take(w, t)) \/ Work(w) \/ Failure(w)

Spec == Init /\ [][Next]_vars

\* A worker's handler runs on, and what is not finished is delivered again.
Fairness ==
  \A w \in Workers :
    /\ WF_vars(Work(w))
    /\ WF_vars(\E t \in Trades \ returned : Take(w, t))

FairSpec == Spec /\ Fairness

----------------------------------------------------------------------------
(* Properties *)

\* Every variable has its type.
TypeOK ==
  /\ quantity \in [Holdings -> Nat]
  /\ turned \in [Trades -> {"none", "yes", "no"}]
  /\ indexed \subseteq Holdings
  /\ scv \in [Holdings -> Int \cup {Missing}]
  /\ shown \in [Holdings -> Int]
  /\ pf \in [Portfolios -> [pv : Int, cvp : Int, cv : Int, ac : Int]]
  /\ inPf \subseteq Trades
  /\ usr \in [Users -> [pv : Int, cvp : Int, cv : Int, count : Int]]
  /\ inUsr \subseteq Trades
  /\ owner \in [Portfolios -> Users \cup {Nobody}]
  /\ pending \subseteq Portfolios
  /\ members \in [Users -> SUBSET Portfolios]
  /\ processed \subseteq Trades
  /\ pc \in [Workers -> Phases]
  /\ trade \in [Workers -> Trades \cup {NoTrade}]
  /\ \A w \in Workers : (trade[w] = NoTrade) <=> (pc[w] = "idle")
  /\ seen \in [Workers -> Nat]
  /\ tries \in [Workers -> 0..CasAttempts]
  /\ turn \in [Workers -> BOOLEAN]
  /\ base \in [Workers -> Int]
  /\ snap \in [Workers -> [pv : Int, cv : Int, n : Int]]
  /\ returned \subseteq Trades
  /\ spent \in [Bounds -> Nat]

inHolding == {t \in Trades : turned[t] # "none"}

Ledger ==
  INSTANCE TradeLedger WITH
    worth   <- [p \in Portfolios |-> pf[p].cvp],
    wealth  <- [u \in Users |-> usr[u].cvp],
    counted <- [place \in {"holding", "portfolio", "user"} |->
                  CASE place = "holding"   -> inHolding
                    [] place = "portfolio" -> inPf
                    [] place = "user"      -> inUsr],
    told    <- processed

\* The markers make every trade count once, whatever is retried, redelivered
\* or handled by two workers at a time: in the quantity, in the portfolio's
\* and in the user's current value, and all of it before the trade is marked
\* processed.
ImplementsLedger == Ledger!LedgerSpec

Sum(trades) == SumFunctionOnSet([t \in Trades |-> Amount(t)], trades)

Alone == spent["misreads"] = 0 /\ spent["zombies"] = 0

\* Nobody is at work on p.
Quiet(p) == \A w \in Workers : trade[w] # NoTrade => trade[w].pf # p

TradesOf(p) == {t \in Trades : t.pf = p}

\* Its trades are on one partition, and so with one worker at a time.
InOrder(p) == \A t, u \in TradesOf(p) : t.part = u.part

\* A portfolio's purchased value is the sum of its counted trades, though the
\* snapshot writes it back: as long as no read error is dropped and one worker
\* at a time is on the portfolio, crashed or retried as it may be.
PortfolioPurchased ==
  Alone => \A p \in Portfolios : InOrder(p) => pf[p].pv = Sum(inPf \cap TradesOf(p))

\* The quantity that trades make, if each sale finds what it sells.
Net(trades) ==
  SumFunctionOnSet([t \in Trades |-> IF t.type = "BUY" THEN t.qty ELSE -t.qty], trades)

\* No sale of p is short: its holding has as much, from the trades before.
Covered(p) ==
  \A t \in TradesOf(p) : t.type = "SELL" =>
    t.qty <= Net({u \in TradesOf(p) : Holding(u) = Holding(t) /\ u.id < t.id})

Held(p) == {h \in Holdings : h[1] = p /\ quantity[h] > 0}

\* The trades of p that were begun are finished, and nobody is at work on it.
Settled(p) == InOrder(p) /\ Quiet(p) /\ inHolding \cap TradesOf(p) \subseteq returned

\* Then, too, the index is that of the quantities, the saved valuation is the
\* current one, and the asset count is the number of stocks held, if no sale
\* was short.
PortfolioSettled ==
  Alone => \A p \in Portfolios : Settled(p) =>
    /\ {h \in indexed : h[1] = p} = Held(p)
    /\ pf[p].cv = pf[p].cvp
    /\ Covered(p) => pf[p].ac = Cardinality(Held(p))

\* The same for a user, whose portfolios are on several workers.
UserPurchased ==
  Alone => \A u \in Users :
    usr[u].pv = Sum({t \in inUsr : t.user = u})

\* Every trade is finished in the end.
AllTradesReturn == <>(returned = Trades)
=============================================================================

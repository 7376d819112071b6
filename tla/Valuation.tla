------------------------------ MODULE Valuation ------------------------------
(***************************************************************************)
(* What a new price of a stock does to the values the records keep:         *)
(* applyStockPriceChanges of internal/service/profit.go with the bulk reads *)
(* and writes of internal/redisstore/store.go, while trade and              *)
(* portfolio-user records are handled.                                      *)
(*                                                                          *)
(* A pricer is a worker in the fan-out of one accepted price; the locks and *)
(* versions around it are PriceApplication's.  They keep two from being at  *)
(* one stock unless a worker stalls, which counts as an overlap.  The code  *)
(* fans a batch of stocks out at once: here each stock has a pricer, and    *)
(* the commands of a pipeline reach their keys one by one.  A call that     *)
(* fails ends the fan-out; its price was not committed and comes again.     *)
(***************************************************************************)
EXTENDS PortfolioUser

CONSTANTS
  Pricers,
  Prices,
  MaxPrices,  \* bound: prices accepted
  MaxOverlaps, \* bound: misreads, and what is begun while something
               \* else is at work
  MaxTroubles  \* bound: faults, redeliveries, misreads and crashes; an
               \* overlap or misread takes the place of two more

ASSUME PricesAssumption == Prices \subseteq Nat \ {0}

ASSUME StocksAssumption == IsFiniteSet(Stocks)

VARIABLES
  work,     \* per pricer: its fan-out
  started,  \* how many prices were accepted
  cut,      \* stocks whose last fan-out ended early
  \* history
  cleared,  \* portfolios a stock's value was taken from, or sold and missing
  torn,     \* portfolios whose mapping missed the user's set
  overlaps  \* how often something was begun while something was at work

pricerVars == <<work, started, cut>>
\* What no pricer writes.
recordVars == <<quantity, turned, indexed, inPf, inUsr, mapVars, processed, pc,
                trade, localVars, returned, listed, eventVars, keeperVars>>
allVars == <<userVars, pricerVars, cleared, torn, overlaps>>

Idle == [at |-> "idle"]

ValuationInit ==
  /\ UserInit
  /\ work = [r \in Pricers |-> Idle]
  /\ started = 0
  /\ cut = {}
  /\ cleared = {}
  /\ torn = {}
  /\ overlaps = 0

\* r is in a phase with command x to send.
Sends(r, phase, x) == work[r].at = phase /\ x \in work[r].todo

\* Mutant: an empty pipeline follows.
OverNever(r, x, commands) == FALSE

\* x was the last command, and there is nothing to do after it.
Over(r, x, commands) == work[r].todo = {x} /\ commands = {}

\* After the last command of a phase come those of the next.
Advance(r, x, phase, commands, plan, reply) ==
  LET job == work[r]
      last == job.todo = {x}
      over == Over(r, x, commands)
  IN  /\ work' = [work EXCEPT ![r] =
                    IF over THEN Idle
                    ELSE [job EXCEPT !.at = IF last THEN phase ELSE job.at,
                                     !.todo = IF last THEN commands ELSE job.todo \ {x},
                                     !.plan = plan, !.reply = reply]]
      /\ cut' = IF over THEN cut \ {job.stock} ELSE cut
      /\ UNCHANGED started

----------------------------------------------------------------------------
(* The portfolios of the stock *)

\* BulkFindPortfolioIDsByStockIDs.
FindPortfolios(r, s, price) ==
  LET holders == {p \in Portfolios : <<p, s>> \in indexed}
  IN  /\ \/ s \in cut /\ UNCHANGED started
         \/ s \notin cut /\ started < MaxPrices /\ started' = started + 1
      /\ work' = [work EXCEPT ![r] =
                    IF holders = {} THEN Idle
                    ELSE [at |-> "fetch", stock |-> s, price |-> price,
                          todo |-> holders, plan |-> {}, reply |-> {}]]
      /\ cut' = IF holders = {} THEN cut \ {s} ELSE cut
      /\ UNCHANGED <<scv, shown, pf, usr, deleted, spent>>

\* BulkFetchStockHoldings, and the new value of what is held.  Exec returns
\* the first error only: after the Nil of a key or field that some stock or
\* portfolio of the batch lacks, that of a quantity's GET is not seen, and the
\* quantity reads as 0.
Fetch(r, p) ==
  LET h == <<p, work[r].stock>>
      before == IF scv[h] = Missing THEN shown[h] ELSE scv[h]
  IN  /\ Sends(r, "fetch", p)
      /\ \E held \in {quantity[h], 0} :
           LET plan == work[r].plan \cup
                 IF held = 0 THEN {}
                 ELSE {[pf |-> p, new |-> held * work[r].price, before |-> before]}
           IN  Saw(held, quantity[h]) /\ Advance(r, p, "replace", plan, plan, {})
      /\ UNCHANGED <<scv, shown, pf, usr, deleted>>

\* Mutant: the difference is to the value that was fetched.
PreviousFetched(h, i) == i.before

\* The value the script replaces.
Previous(h, i) == IF scv[h] = Missing THEN i.before ELSE scv[h]

\* Mutant: purchased value and asset count change places.
AnswerSwapped(p, hash) ==
  [pf |-> p, user |-> owner[p], pv |-> hash.ac, cv |-> hash.cvp, n |-> hash.pv]

Answer(p, hash) ==
  [pf |-> p, user |-> owner[p], pv |-> hash.pv, cv |-> hash.cvp, n |-> hash.ac]

\* replaceStockCurrentValuesScript.
Replace(r, i) ==
  LET h == <<i.pf, work[r].stock>>
      hash == [pf[i.pf] EXCEPT !.cvp = @ + i.new - Previous(h, i)]
  IN  /\ Sends(r, "replace", i)
      /\ scv' = [scv EXCEPT ![h] = i.new]
      /\ pf' = [pf EXCEPT ![i.pf] = hash]
      /\ Advance(r, i, "show", work[r].plan, work[r].plan,
               work[r].reply \cup {Answer(i.pf, hash)})
      /\ UNCHANGED <<shown, usr, deleted, spent>>

\* BulkSetStockCurrentValues.
Show(r, i) ==
  /\ Sends(r, "show", i)
  /\ shown' = [shown EXCEPT ![<<i.pf, work[r].stock>>] = i.new]
  /\ Advance(r, i, "save", work[r].reply, work[r].plan, work[r].reply)
  /\ UNCHANGED <<scv, pf, usr, deleted, spent>>

\* BulkSavePortfolioValuations.
Save(r, a) ==
  LET users == {b.user : b \in work[r].reply} \ {Nobody}
  IN  /\ Sends(r, "save", a)
      /\ pf' = [pf EXCEPT ![a.pf] =
                  [@ EXCEPT !.pv = a.pv, !.cv = a.cv, !.ac = a.n]]
      /\ deleted' = deleted \ {a.pf}
      /\ Advance(r, a, "members", users, {},
               IF work[r].todo = {a} THEN {} ELSE work[r].reply)
      /\ UNCHANGED <<scv, shown, usr, spent>>

----------------------------------------------------------------------------
(* BulkRecalculateUserCurrentValuesAndFetchMetadata and                     *)
(* BulkSaveUserValuations                                                   *)

\* SMEMBERS, for every user before any portfolio is read.
Members(r, u) ==
  LET plan == work[r].plan \cup ({u} \X members[u])
      totals == work[r].reply \cup {[user |-> u, total |-> 0]}
  IN  /\ Sends(r, "members", u)
      /\ IF plan = {} THEN Advance(r, u, "total", totals, plan, totals)
                      ELSE Advance(r, u, "values", plan, plan, totals)
      /\ UNCHANGED <<scv, shown, pf, usr, deleted, spent>>

\* HMGET of a member's current value.
Value(r, u, p) ==
  LET totals == {IF a.user = u THEN [a EXCEPT !.total = @ + pf[p].cvp] ELSE a :
                   a \in work[r].reply}
  IN  /\ Sends(r, "values", <<u, p>>)
      /\ Advance(r, <<u, p>>, "total", totals, {}, totals)
      /\ UNCHANGED <<scv, shown, pf, usr, deleted, spent>>

\* Mutant: the total is added to the value there is.
NewTotalAdded(hash, total) == hash.cvp + total

NewTotal(hash, total) == total

\* HSET of the total and HMGET of the rest of the user's hash.
Total(r, a) ==
  LET hash == usr[a.user]
      answers == work[r].plan \cup
                   {[user |-> a.user, pv |-> hash.pv, cv |-> a.total,
                     n |-> hash.count]}
  IN  /\ Sends(r, "total", a)
      /\ usr' = [usr EXCEPT ![a.user].cvp = NewTotal(hash, a.total)]
      /\ Advance(r, a, "users", answers, answers, {})
      /\ UNCHANGED <<scv, shown, pf, deleted, spent>>

SaveUsers(r, a) ==
  /\ Sends(r, "users", a)
  /\ usr' = [usr EXCEPT ![a.user] =
               [@ EXCEPT !.pv = a.pv, !.cv = a.cv, !.count = a.n]]
  /\ Advance(r, a, "idle", {}, {}, {})
  /\ UNCHANGED <<scv, shown, pf, deleted, spent>>

\* A call fails, of whose commands some were carried out; or the worker dies.
CutShort(r) ==
  /\ Spend("faults")
  /\ work' = [work EXCEPT ![r] = Idle]
  /\ cut' = cut \cup {work[r].stock}
  /\ UNCHANGED <<scv, shown, pf, usr, deleted, started>>

PricerStep ==
  /\ \E r \in Pricers :
       IF work[r] = Idle
         THEN \E s \in Stocks, price \in Prices : FindPortfolios(r, s, price)
         ELSE \/ \E x \in work[r].todo :
                   \/ Fetch(r, x) \/ Replace(r, x) \/ Show(r, x) \/ Save(r, x)
                   \/ Members(r, x) \/ Total(r, x) \/ SaveUsers(r, x)
              \/ \E u \in Users, p \in Portfolios : Value(r, u, p)
              \/ CutShort(r)
  /\ UNCHANGED recordVars

----------------------------------------------------------------------------
(* All together *)

\* The number of records begun and not finished, and of fan-outs; those that
\* come one after another count as one.
AtWork ==
  Cardinality({t \in Trades : turned[t] # "none" /\ t \notin returned}
                \cup {trade[w] : w \in {w \in Workers : pc[w] # "idle"}})
  + Cardinality({e.pf : e \in ((counted \ done) \cup {event[k] : k \in Keepers})
                                 \ {NoEvent}})
  + Cardinality({work[r].stock : r \in {r \in Pricers : work[r] # Idle}} \cup cut)

\* A trade is handled when its portfolio's deletion has been.
TooLate ==
  \E e \in done, w \in Workers :
    e.type = "DELETED" /\ trade[w] # NoTrade /\ trade[w].pf = e.pf

\* Two fan-outs are at one stock: the worker of one has stalled past its lock.
Twice ==
  \E q, r \in Pricers :
    q # r /\ work[q] # Idle /\ work[r] # Idle /\ work[q].stock = work[r].stock

Begins ==
  \/ \E w \in Workers : pc[w] = "idle" /\ pc'[w] # "idle"
  \/ \E k \in Keepers : step[k] = "idle" /\ step'[k] # "idle"
  \/ \E r \in Pricers : work[r] = Idle /\ work'[r] # Idle
  \/ ~(done \subseteq done')

Overlap ==
  \/ Begins /\ AtWork' > AtWork /\ AtWork > 0
  \/ TooLate' /\ ~TooLate
  \/ Twice' /\ ~Twice

ValuationNext ==
  /\ \/ UserNext /\ UNCHANGED pricerVars
     \/ PricerStep
  /\ overlaps' = overlaps + IF Overlap THEN 1 ELSE 0
  /\ overlaps' + spent'["misreads"] <= MaxOverlaps
  /\ spent'["faults"] + spent'["redeliveries"] + spent'["misreads"]
       + spent'["crashes"] + 2 * (overlaps' + spent'["misreads"]) <= MaxTroubles
  /\ cleared' = cleared
       \cup {h[1] : h \in {h \in Holdings : scv[h] # Missing /\ scv'[h] = Missing}}
       \cup {t.pf : t \in {t \in inPf' \ inPf : scv'[Holding(t)] = Missing}}
  /\ torn' = torn \cup
       {p \in Portfolios : /\ owner[p] = Nobody /\ owner'[p] # Nobody
                          /\ p \notin members'[owner'[p]]}

ValuationSpec == ValuationInit /\ [][ValuationNext]_allVars

----------------------------------------------------------------------------
(* Properties *)

\* Every variable has its type; a quantity, in particular, is never negative,
\* and an idle keeper has no event.
ValuationTypeOK ==
  /\ UserTypeOK
  /\ \A r \in Pricers :
       \/ work[r] = Idle
       \/ /\ work[r].at \in {"fetch", "replace", "show", "save", "members",
                             "values", "total", "users"}
          /\ work[r].todo # {}
          /\ work[r].stock \in Stocks
  /\ cut \subseteq Stocks
  /\ cleared \cup torn \subseteq Portfolios

ValueOfStocks(p) ==
  SumFunctionOnSet([h \in Holdings |-> OrZero(scv[h])], {h \in Holdings : h[1] = p})

\* A portfolio's current value is the sum of its stocks' values, whatever a
\* fan-out, its retries and the trades do at the same time, as long as no
\* stock's value was removed and no sale met one that was missing.
StocksAddUp ==
  \A p \in Portfolios : p \notin cleared => pf[p].cvp = ValueOfStocks(p)

currents == [p \in Portfolios |-> pf[p].cvp]

PortfoliosOf(u) == {p \in Portfolios : owner[p] = u}

\* Nothing was handled at the same time, and no read error was dropped.
Orderly == overlaps = 0 /\ Alone

\* With one record or price at a time, each of them failing and coming again
\* at any step, a portfolio's purchased value is that of its trades.
PurchasedOnce ==
  Orderly => \A p \in Portfolios : pf[p].pv = Sum(inPf \cap TradesOf(p))

\* Then, too, between the records and prices, a user's purchased and current
\* value are the sums of its portfolios', and it has as many as were created
\* and not deleted, unless a pipeline mapped a portfolio by half.  Its set names
\* them, and what else it names has a trade yet to map it.
UserSettled ==
  Orderly /\ AtWork = 0 /\ torn = {} => \A u \in Users :
    LET mine == PortfoliosOf(u)
    IN  /\ usr[u].pv = SumFunctionOnSet([p \in Portfolios |-> pf[p].pv], mine)
        /\ usr[u].cvp = SumFunctionOnSet(currents, mine)
        /\ usr[u].cv = usr[u].cvp
        /\ usr[u].count = Cardinality(mine \ pending)
        /\ mine \subseteq members[u]
        /\ \A p \in members[u] \ mine : \E t \in Trades \ returned : t.pf = p

\* A deleted portfolio is nobody's and holds nothing, the DELETED record being
\* handled alone, as often as it may be, after all the trades there are.
DeletedLeavesNothing ==
  Orderly /\ AtWork = 0 => \A e \in done :
    e.type = "DELETED" =>
      /\ e.pf \in deleted \ pending
      /\ owner[e.pf] = Nobody /\ e.pf \notin members[e.user]
      /\ listed[e.pf] = {}
      /\ \A s \in Stocks :
           LET h == <<e.pf, s>>
           IN  quantity[h] = 0 /\ scv[h] = Missing /\ shown[h] = 0 /\ h \notin indexed

\* A fan-out that nothing came between leaves every holding of the stock at
\* the new price, and the values of its portfolios and their users saved.
FanOutSettles ==
  [][\A r \in Pricers :
       work[r].at = "users" /\ work'[r] = Idle /\ cut' = {} /\ Orderly' =>
         LET s == work[r].stock
         IN  \A p \in Portfolios : <<p, s>> \in indexed =>
               /\ scv[<<p, s>>] = quantity[<<p, s>>] * work[r].price
               /\ shown[<<p, s>>] = scv[<<p, s>>]
               /\ pf[p].cv = pf[p].cvp
               /\ owner[p] # Nobody =>
                    LET hash == usr'[owner[p]]
                    IN  hash.cv = hash.cvp /\ hash.cvp =
                          SumFunctionOnSet(currents, members[owner[p]])]_allVars
=============================================================================

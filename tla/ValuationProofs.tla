--------------------------- MODULE ValuationProofs ---------------------------
(***************************************************************************)
(* Proofs about Valuation, for any stocks, portfolios, prices, records and  *)
(* workers: the fan-out of a price and the handlers of records, whatever    *)
(* comes between their calls.                                               *)
(***************************************************************************)
EXTENDS Valuation, PortfolioUserProofs, SumTheorems

USE DEF holdingVars, hashVars, mapVars, localVars, vars, keeperVars, eventVars,
        tradeOnlyVars, stateVars, userVars, pricerVars, recordVars, allVars

----------------------------------------------------------------------------
(* What a fan-out has at hand *)

\* What it plans for a holding, what the script answered of a portfolio, the
\* total of a user's portfolios, and what the user's hash answered.
Plan == [pf : Portfolios, new : Int, before : Int]
PortfolioAnswer == [pf : Portfolios, user : Users \cup {Nobody}, pv : Int, cv : Int, n : Int]
UserTotal == [user : Users, total : Int]
UserAnswer == [user : Users, pv : Int, cv : Int, n : Int]
Membership == Users \X Portfolios

Things ==
  Portfolios \cup Plan \cup PortfolioAnswer \cup Users \cup Membership \cup UserTotal
    \cup UserAnswer

JobPhases == {"fetch", "replace", "show", "save", "members", "values", "total", "users"}

Jobs == [at : JobPhases, stock : Stocks, price : Nat, todo : SUBSET Things,
         plan : SUBSET Things, reply : SUBSET Things]

\* What the sets of a fan-out hold in a phase.
JobTyped(x) ==
  /\ x.todo # {}
  /\ x.at = "fetch" =>
       x.todo \subseteq Portfolios /\ x.plan \subseteq Plan /\ x.reply = {}
  /\ x.at = "replace" =>
       x.todo \subseteq x.plan /\ x.plan \subseteq Plan /\ x.reply \subseteq PortfolioAnswer
  /\ x.at = "show" =>
       x.todo \subseteq Plan /\ x.plan \subseteq Plan /\ x.reply \subseteq PortfolioAnswer
  /\ x.at = "save" =>
       x.todo \subseteq PortfolioAnswer /\ x.reply \subseteq PortfolioAnswer
  /\ x.at = "members" =>
       x.todo \subseteq Users /\ x.plan \subseteq Membership /\ x.reply \subseteq UserTotal
  /\ x.at = "values" => x.todo \subseteq Membership /\ x.reply \subseteq UserTotal
  /\ x.at = "total" => x.todo \subseteq UserTotal /\ x.plan \subseteq UserAnswer
  /\ x.at = "users" => x.todo \subseteq UserAnswer

Working(r) == work[r] \in Jobs /\ JobTyped(work[r])

PricersTyped ==
  /\ work \in [Pricers -> Jobs \cup {Idle}]
  /\ \A r \in Pricers : work[r] = Idle \/ JobTyped(work[r])
  /\ cut \subseteq Stocks
  /\ started \in Nat

HistoryTyped ==
  /\ cleared \subseteq Portfolios
  /\ torn \subseteq Portfolios
  /\ overlaps \in Nat

TypeInv == UserInv /\ PricersTyped /\ HistoryTyped

\* An idle pricer is in no phase of a fan-out.
LEMMA IdleJob == Idle \notin Jobs /\ \A x \in Jobs : x # Idle /\ x.at # "idle"
<1>1. \A x \in Jobs : x.at \in JobPhases
  BY DEF Jobs
<1>2. Idle.at = "idle"
  BY DEF Idle
<1> QED
  BY <1>1, <1>2 DEF JobPhases

\* A pricer with a command to send has a fan-out, typed as its phase asks.
LEMMA SendsWorking ==
  ASSUME PricersTyped, NEW r \in Pricers, NEW phase \in JobPhases, NEW x,
         Sends(r, phase, x)
  PROVE  Working(r) /\ work[r].at = phase /\ x \in work[r].todo
BY DEF PricersTyped, Sends, Idle, JobPhases, Working

\* A fan-out that advances is typed if its new sets are those of its phase.
LEMMA AdvanceTyped ==
  ASSUME PricersTyped, NEW r \in Pricers, Working(r), NEW x \in work[r].todo,
         NEW phase \in JobPhases, NEW commands \in SUBSET Things,
         NEW plan \in SUBSET Things, NEW reply \in SUBSET Things,
         Advance(r, x, phase, commands, plan, reply),
         work[r].todo # {x} =>
           JobTyped([work[r] EXCEPT !.todo = @ \ {x}, !.plan = plan, !.reply = reply]),
         work[r].todo = {x} /\ commands # {} =>
           JobTyped([work[r] EXCEPT !.at = phase, !.todo = commands, !.plan = plan,
                                    !.reply = reply])
  PROVE  PricersTyped'
<1> DEFINE same == [work[r] EXCEPT !.todo = @ \ {x}, !.plan = plan, !.reply = reply]
           next == [work[r] EXCEPT !.at = phase, !.todo = commands, !.plan = plan,
                                   !.reply = reply]
<1>1. same \in Jobs /\ next \in Jobs
  BY DEF Working, Jobs
<1>2. CASE Over(r, x, commands)
  BY <1>2 DEF Advance, Working, Jobs, PricersTyped
<1>3. CASE ~Over(r, x, commands) /\ work[r].todo = {x}
  <2>1. JobTyped(next)
    BY <1>3 DEF Over
  <2>2. work' = [work EXCEPT ![r] = next] /\ cut' = cut /\ started' = started
    BY <1>3 DEF Advance, Working, Jobs, PricersTyped
  <2> HIDE DEF next
  <2> QED
    BY <1>1, <2>1, <2>2 DEF PricersTyped
<1>4. CASE work[r].todo # {x}
  <2>1. JobTyped(same)
    BY <1>4
  <2>2. work' = [work EXCEPT ![r] = same] /\ cut' = cut /\ started' = started
    <3> DEFINE here == [work[r] EXCEPT !.at = work[r].at, !.todo = work[r].todo \ {x},
                                       !.plan = plan, !.reply = reply]
    <3>1. here = same
      BY DEF Working, Jobs
    <3>2. ~Over(r, x, commands)
      BY <1>4 DEF Over
    <3>3. work' = [work EXCEPT ![r] =
                     [work[r] EXCEPT
                        !.at = IF work[r].todo = {x} THEN phase ELSE work[r].at,
                        !.todo = IF work[r].todo = {x} THEN commands ELSE work[r].todo \ {x},
                        !.plan = plan, !.reply = reply]]
          /\ cut' = cut /\ started' = started
      BY <3>2 DEF Advance
    <3>4. work' = [work EXCEPT ![r] = here]
      BY <1>4, <3>3
    <3> QED
      BY <3>1, <3>3, <3>4
  <2> HIDE DEF same
  <2> QED
    BY <1>1, <2>1, <2>2 DEF PricersTyped
<1> QED
  BY <1>2, <1>3, <1>4

\* What a pricer writes of what the records keep.
PricerSide ==
  /\ scv \in [Holdings -> Int \cup {Missing}]
  /\ shown \in [Holdings -> Int]
  /\ pf \in [Portfolios -> PortfolioHash]
  /\ usr \in [Users -> UserHash]
  /\ deleted \subseteq Portfolios
  /\ spent \in [Bounds -> Nat]

\* It is typed as everything is.
LEMMA PricerParts == UserInv => PricerSide
BY DEF UserInv, UserTypeOK, TypeOK, PricerSide, PortfolioHash, UserHash

\* A pricer's step is typed if what it writes is.
LEMMA PricerFrame ==
  ASSUME UserInv, UNCHANGED recordVars, PricerSide'
  PROVE  UserInv'
<1>1. UserTypeOK'
  BY DEF UserInv, UserTypeOK, TypeOK, PricerSide, PortfolioHash, UserHash
<1>2. TriesLeft' /\ MarkerInv'
  BY DEF UserInv, TriesLeft, MarkerInv, MarkersInOrder, PastMarker, inHolding
<1> QED
  BY <1>1, <1>2 DEF UserInv

----------------------------------------------------------------------------
(* The steps of a pricer *)

\* A fan-out begins with the portfolios that hold the stock.
LEMMA FindPortfoliosTyped ==
  ASSUME UserInv, PricersTyped, NEW r \in Pricers, NEW s \in Stocks, NEW price \in Prices,
         work[r] = Idle, FindPortfolios(r, s, price)
  PROVE  PricersTyped' /\ PricerSide'
<1> DEFINE holders == {p \in Portfolios : <<p, s>> \in indexed}
           job == [at |-> "fetch", stock |-> s, price |-> price,
                   todo |-> holders, plan |-> {}, reply |-> {}]
<1>1. job \in Jobs /\ (holders # {} => JobTyped(job))
  BY PricesAssumption DEF Jobs, JobPhases, Things, JobTyped
<1>2. work' = [work EXCEPT ![r] = IF holders = {} THEN Idle ELSE job]
  BY DEF FindPortfolios
<1>3. work' \in [Pricers -> Jobs \cup {Idle}]
      /\ \A q \in Pricers : work'[q] = Idle \/ JobTyped(work'[q])
  <2> HIDE DEF job
  <2> QED
    BY <1>1, <1>2 DEF PricersTyped
<1>4. cut' \subseteq Stocks /\ started' \in Nat
  BY DEF FindPortfolios, PricersTyped
<1>5. PricerSide'
  BY PricerParts DEF FindPortfolios, PricerSide
<1> QED
  BY <1>3, <1>4, <1>5 DEF PricersTyped

\* What is fetched is planned.
LEMMA FetchTyped ==
  ASSUME UserInv, PricersTyped, NEW r \in Pricers, NEW p, Fetch(r, p)
  PROVE  PricersTyped' /\ PricerSide'
<1> DEFINE h == <<p, work[r].stock>>
           before == IF scv[h] = Missing THEN shown[h] ELSE scv[h]
<1>1. Working(r) /\ work[r].at = "fetch" /\ p \in work[r].todo
  BY SendsWorking DEF Fetch, JobPhases
<1>2. p \in Portfolios /\ h \in Holdings /\ work[r].price \in Nat
      /\ work[r].plan \subseteq Plan /\ work[r].todo \subseteq Portfolios
  BY <1>1 DEF Working, JobTyped, Jobs, Holdings
<1>3. before \in Int /\ quantity[h] \in Nat
  BY <1>2 DEF UserInv, UserTypeOK, TypeOK
<1>4. PICK held \in {quantity[h], 0} :
        LET plan == work[r].plan \cup
              IF held = 0 THEN {}
              ELSE {[pf |-> p, new |-> held * work[r].price, before |-> before]}
        IN  Saw(held, quantity[h]) /\ Advance(r, p, "replace", plan, plan, {})
  BY DEF Fetch
<1> DEFINE plan == work[r].plan \cup
              IF held = 0 THEN {}
              ELSE {[pf |-> p, new |-> held * work[r].price, before |-> before]}
<1>5. plan \subseteq Plan
  <2>1. held * work[r].price \in Int
    BY <1>2, <1>3, ProductType
  <2> QED
    BY <1>2, <1>3, <2>1 DEF Plan
<1>6. PricersTyped'
  <2>1. /\ plan \in SUBSET Things /\ {} \in SUBSET Things
        /\ Advance(r, p, "replace", plan, plan, {})
    BY <1>4, <1>5 DEF Things
  <2> HIDE DEF plan
  <2>2. work[r].todo # {p} =>
          JobTyped([work[r] EXCEPT !.todo = @ \ {p}, !.plan = plan, !.reply = {}])
    BY <1>1, <1>2, <1>5 DEF Working, Jobs, JobTyped
  <2>3. work[r].todo = {p} /\ plan # {} =>
          JobTyped([work[r] EXCEPT !.at = "replace", !.todo = plan, !.plan = plan,
                                   !.reply = {}])
    BY <1>1, <1>5 DEF Working, Jobs, JobTyped
  <2> QED
    BY <1>1, <2>1, <2>2, <2>3, AdvanceTyped DEF JobPhases
<1>7. PricerSide'
  BY <1>4, PricerParts, SawType DEF Fetch, PricerSide
<1> QED
  BY <1>6, <1>7

\* The script replaces a value that is planned, and answers.
LEMMA ReplaceTyped ==
  ASSUME UserInv, PricersTyped, NEW r \in Pricers, NEW i, Replace(r, i)
  PROVE  PricersTyped' /\ PricerSide'
<1> DEFINE h == <<i.pf, work[r].stock>>
           cvp == pf[i.pf].cvp + i.new - Previous(h, i)
           hash == [pf[i.pf] EXCEPT !.cvp = cvp]
           reply == work[r].reply \cup {Answer(i.pf, hash)}
<1>0. PricerSide
  BY PricerParts
<1>1. Working(r) /\ work[r].at = "replace" /\ i \in work[r].todo
  BY SendsWorking DEF Replace, JobPhases
<1>2. /\ i \in Plan /\ i.pf \in Portfolios /\ i.new \in Int /\ i.before \in Int
      /\ h \in Holdings
      /\ work[r].plan \subseteq Plan /\ work[r].todo \subseteq work[r].plan
      /\ work[r].reply \subseteq PortfolioAnswer
  BY <1>1 DEF Working, JobTyped, Jobs, Holdings, Plan
<1>3. cvp \in Int
  <2>1. Previous(h, i) \in Int
    BY <1>0, <1>2 DEF Previous, PricerSide
  <2>2. pf[i.pf].cvp \in Int
    BY <1>0, <1>2 DEF PricerSide, PortfolioHash
  <2> QED
    BY <1>2, <2>1, <2>2
<1>4. hash \in PortfolioHash
  <2> HIDE DEF cvp
  <2> QED
    BY <1>0, <1>2, <1>3 DEF PricerSide, PortfolioHash
<1>5. reply \subseteq PortfolioAnswer
  <2>1. owner[i.pf] \in Users \cup {Nobody}
    BY <1>2 DEF UserInv, UserTypeOK, TypeOK
  <2>2. Answer(i.pf, hash) \in PortfolioAnswer
    <3> HIDE DEF hash
    <3> QED
      BY <1>2, <1>4, <2>1 DEF Answer, PortfolioAnswer, PortfolioHash
  <2> QED
    BY <1>2, <2>2
<1>6. /\ pf' = [pf EXCEPT ![i.pf] = hash] /\ scv' = [scv EXCEPT ![h] = i.new]
      /\ Advance(r, i, "show", work[r].plan, work[r].plan, reply)
      /\ UNCHANGED <<shown, usr, deleted, spent>>
  BY DEF Replace
<1>7. PricerSide'
  <2> HIDE DEF hash, h
  <2> QED
    BY <1>0, <1>2, <1>4, <1>6 DEF PricerSide
<1> HIDE DEF reply, hash
<1>8. PricersTyped'
  <2>1. work[r].plan \in SUBSET Things /\ reply \in SUBSET Things
    BY <1>2, <1>5 DEF Things
  <2>2. work[r].todo # {i} =>
          JobTyped([work[r] EXCEPT !.todo = @ \ {i}, !.plan = work[r].plan, !.reply = reply])
    BY <1>1, <1>2, <1>5 DEF Working, Jobs, JobTyped
  <2>3. work[r].todo = {i} /\ work[r].plan # {} =>
          JobTyped([work[r] EXCEPT !.at = "show", !.todo = work[r].plan,
                                   !.plan = work[r].plan, !.reply = reply])
    BY <1>1, <1>2, <1>5 DEF Working, Jobs, JobTyped
  <2> QED
    BY <1>1, <1>6, <2>1, <2>2, <2>3, AdvanceTyped DEF JobPhases
<1> QED
  BY <1>7, <1>8

\* The projection shows what is planned.
LEMMA ShowTyped ==
  ASSUME UserInv, PricersTyped, NEW r \in Pricers, NEW i, Show(r, i)
  PROVE  PricersTyped' /\ PricerSide'
<1>1. Working(r) /\ work[r].at = "show" /\ i \in work[r].todo
  BY SendsWorking DEF Show, JobPhases
<1>2. /\ i.pf \in Portfolios /\ i.new \in Int /\ <<i.pf, work[r].stock>> \in Holdings
      /\ work[r].plan \subseteq Plan /\ work[r].todo \subseteq Plan
      /\ work[r].reply \subseteq PortfolioAnswer
  BY <1>1 DEF Working, JobTyped, Jobs, Holdings, Plan
<1>3. PricerSide'
  BY <1>2, PricerParts DEF Show, PricerSide
<1>4. PricersTyped'
  <2>1. work[r].plan \in SUBSET Things /\ work[r].reply \in SUBSET Things
    BY <1>2 DEF Things
  <2>2. work[r].todo # {i} =>
          JobTyped([work[r] EXCEPT !.todo = @ \ {i}, !.plan = work[r].plan,
                                   !.reply = work[r].reply])
    BY <1>1, <1>2 DEF Working, Jobs, JobTyped
  <2>3. work[r].todo = {i} /\ work[r].reply # {} =>
          JobTyped([work[r] EXCEPT !.at = "save", !.todo = work[r].reply,
                                   !.plan = work[r].plan, !.reply = work[r].reply])
    BY <1>1, <1>2 DEF Working, Jobs, JobTyped
  <2>4. Advance(r, i, "save", work[r].reply, work[r].plan, work[r].reply)
    BY DEF Show
  <2> QED
    BY <1>1, <2>1, <2>2, <2>3, <2>4, AdvanceTyped DEF JobPhases
<1> QED
  BY <1>3, <1>4

\* The answers are saved, and their users come next.
LEMMA SaveTyped ==
  ASSUME UserInv, PricersTyped, NEW r \in Pricers, NEW a, Save(r, a)
  PROVE  PricersTyped' /\ PricerSide'
<1> DEFINE users == {b.user : b \in work[r].reply} \ {Nobody}
           reply == IF work[r].todo = {a} THEN {} ELSE work[r].reply
<1>1. Working(r) /\ work[r].at = "save" /\ a \in work[r].todo
  BY SendsWorking DEF Save, JobPhases
<1>2. /\ a.pf \in Portfolios /\ a.pv \in Int /\ a.cv \in Int /\ a.n \in Int
      /\ work[r].todo \subseteq PortfolioAnswer /\ work[r].reply \subseteq PortfolioAnswer
      /\ users \subseteq Users
  BY <1>1 DEF Working, JobTyped, PortfolioAnswer
<1>3. PricerSide'
  <2>1. [pf[a.pf] EXCEPT !.pv = a.pv, !.cv = a.cv, !.ac = a.n] \in PortfolioHash
    BY <1>2, PricerParts, PortfolioHashType DEF PricerSide
  <2> QED
    BY <1>2, <2>1, PricerParts DEF Save, PricerSide
<1>4. PricersTyped'
  <2>1. users \in SUBSET Things /\ reply \in SUBSET Things /\ {} \in SUBSET Things
    BY <1>2 DEF Things
  <2>2. Advance(r, a, "members", users, {}, reply)
    BY DEF Save
  <2>3. work[r].todo # {a} =>
          JobTyped([work[r] EXCEPT !.todo = @ \ {a}, !.plan = {}, !.reply = reply])
    BY <1>1, <1>2 DEF Working, Jobs, JobTyped
  <2>4. work[r].todo = {a} /\ users # {} =>
          JobTyped([work[r] EXCEPT !.at = "members", !.todo = users, !.plan = {},
                                   !.reply = reply])
    <3> HIDE DEF users
    <3> QED
      BY <1>1, <1>2 DEF Working, Jobs, JobTyped
  <2> HIDE DEF users, reply
  <2> QED
    BY <1>1, <2>1, <2>2, <2>3, <2>4, AdvanceTyped DEF JobPhases
<1> QED
  BY <1>3, <1>4

\* The members of every user are read before any value.
LEMMA MembersTyped ==
  ASSUME UserInv, PricersTyped, NEW r \in Pricers, NEW u, Members(r, u)
  PROVE  PricersTyped' /\ PricerSide'
<1> DEFINE plan == work[r].plan \cup ({u} \X members[u])
           totals == work[r].reply \cup {[user |-> u, total |-> 0]}
<1>1. Working(r) /\ work[r].at = "members" /\ u \in work[r].todo
  BY SendsWorking DEF Members, JobPhases
<1>2. u \in Users /\ work[r].todo \subseteq Users
  BY <1>1 DEF Working, JobTyped
<1>3. plan \subseteq Membership /\ totals \subseteq UserTotal
  <2>1. members[u] \in SUBSET Portfolios
    BY <1>2 DEF UserInv, UserTypeOK, TypeOK
  <2> QED
    BY <1>1, <1>2, <2>1 DEF Working, JobTyped, Membership, UserTotal
<1>4. IF plan = {} THEN Advance(r, u, "total", totals, plan, totals)
                   ELSE Advance(r, u, "values", plan, plan, totals)
  BY DEF Members
<1>5. PricerSide'
  BY PricerParts DEF Members, PricerSide
<1>6. PricersTyped'
  <2>1. plan \in SUBSET Things /\ totals \in SUBSET Things
    BY <1>3 DEF Things
  <2> HIDE DEF plan, totals
  <2>2. work[r].todo # {u} =>
          JobTyped([work[r] EXCEPT !.todo = @ \ {u}, !.plan = plan, !.reply = totals])
    BY <1>1, <1>2, <1>3 DEF Working, Jobs, JobTyped
  <2>3. plan = {} /\ totals # {} =>
          JobTyped([work[r] EXCEPT !.at = "total", !.todo = totals, !.plan = plan,
                                   !.reply = totals])
    BY <1>1, <1>3 DEF Working, Jobs, JobTyped
  <2>4. plan # {} =>
          JobTyped([work[r] EXCEPT !.at = "values", !.todo = plan, !.plan = plan,
                                   !.reply = totals])
    BY <1>1, <1>3 DEF Working, Jobs, JobTyped
  <2>5. CASE plan = {}
    BY <1>1, <1>4, <2>1, <2>2, <2>3, <2>5, AdvanceTyped DEF JobPhases
  <2>6. CASE plan # {}
    BY <1>1, <1>4, <2>1, <2>2, <2>4, <2>6, AdvanceTyped DEF JobPhases
  <2> QED
    BY <2>5, <2>6
<1> QED
  BY <1>5, <1>6

\* A member's value is added to the total.
LEMMA ValueTyped ==
  ASSUME UserInv, PricersTyped, NEW r \in Pricers, NEW u \in Users, NEW p \in Portfolios,
         Value(r, u, p)
  PROVE  PricersTyped' /\ PricerSide'
<1> DEFINE with(a) == IF a.user = u THEN [a EXCEPT !.total = @ + pf[p].cvp] ELSE a
           totals == {with(a) : a \in work[r].reply}
           x == <<u, p>>
<1>1. Working(r) /\ work[r].at = "values" /\ x \in work[r].todo
  BY SendsWorking DEF Value, JobPhases
<1>2. work[r].todo \subseteq Membership /\ work[r].reply \subseteq UserTotal
  BY <1>1 DEF Working, JobTyped
<1>3. totals \subseteq UserTotal
  <2>1. pf[p].cvp \in Int
    BY PricerParts DEF PricerSide, PortfolioHash
  <2>2. ASSUME NEW a \in UserTotal PROVE with(a) \in UserTotal
    <3>1. a.total + pf[p].cvp \in Int
      BY <2>1, <2>2 DEF UserTotal
    <3> QED
      BY <2>2, <3>1 DEF UserTotal
  <2> QED
    BY <1>2, <2>2
<1>4. Advance(r, x, "total", totals, {}, totals)
  BY DEF Value
<1>5. PricerSide'
  BY PricerParts DEF Value, PricerSide
<1>6. PricersTyped'
  <2>1. {} \in SUBSET Things /\ totals \in SUBSET Things
    BY <1>3 DEF Things
  <2> HIDE DEF totals, x
  <2>2. work[r].todo # {x} =>
          JobTyped([work[r] EXCEPT !.todo = @ \ {x}, !.plan = {}, !.reply = totals])
    BY <1>1, <1>2, <1>3 DEF Working, Jobs, JobTyped
  <2>3. totals # {} =>
          JobTyped([work[r] EXCEPT !.at = "total", !.todo = totals, !.plan = {},
                                   !.reply = totals])
    BY <1>1, <1>3 DEF Working, Jobs, JobTyped
  <2> QED
    BY <1>1, <1>4, <2>1, <2>2, <2>3, AdvanceTyped DEF JobPhases
<1> QED
  BY <1>5, <1>6

\* The total is written, and the rest of the user's hash answered.
LEMMA TotalTyped ==
  ASSUME UserInv, PricersTyped, NEW r \in Pricers, NEW a, Total(r, a)
  PROVE  PricersTyped' /\ PricerSide'
<1> DEFINE hash == usr[a.user]
           answer == [user |-> a.user, pv |-> hash.pv, cv |-> a.total, n |-> hash.count]
           answers == work[r].plan \cup {answer}
<1>1. Working(r) /\ work[r].at = "total" /\ a \in work[r].todo
  BY SendsWorking DEF Total, JobPhases
<1>2. /\ a.user \in Users /\ a.total \in Int
      /\ work[r].todo \subseteq UserTotal /\ work[r].plan \subseteq UserAnswer
  BY <1>1 DEF Working, JobTyped, UserTotal
<1>3. hash \in UserHash
  BY <1>2, PricerParts DEF PricerSide
<1>4. answers \subseteq UserAnswer
  BY <1>2, <1>3 DEF UserHash, UserAnswer
<1>5. PricerSide'
  <2>1. [hash EXCEPT !.cvp = a.total] \in UserHash
    BY <1>2, <1>3 DEF UserHash
  <2>2. usr' = [usr EXCEPT ![a.user] = [hash EXCEPT !.cvp = a.total]]
        /\ UNCHANGED <<scv, shown, pf, deleted, spent>>
    BY DEF Total, NewTotal
  <2> QED
    BY <1>2, <2>1, <2>2, PricerParts DEF PricerSide
<1>6. PricersTyped'
  <2>1. {} \in SUBSET Things /\ answers \in SUBSET Things
    BY <1>4 DEF Things
  <2>2. Advance(r, a, "users", answers, answers, {})
    BY DEF Total
  <2> HIDE DEF answers
  <2>3. work[r].todo # {a} =>
          JobTyped([work[r] EXCEPT !.todo = @ \ {a}, !.plan = answers, !.reply = {}])
    BY <1>1, <1>2, <1>4 DEF Working, Jobs, JobTyped
  <2>4. answers # {} =>
          JobTyped([work[r] EXCEPT !.at = "users", !.todo = answers, !.plan = answers,
                                   !.reply = {}])
    BY <1>1, <1>4 DEF Working, Jobs, JobTyped
  <2> QED
    BY <1>1, <2>1, <2>2, <2>3, <2>4, AdvanceTyped DEF JobPhases
<1> QED
  BY <1>5, <1>6

\* The users are saved, and the fan-out is over.
LEMMA SaveUsersTyped ==
  ASSUME UserInv, PricersTyped, NEW r \in Pricers, NEW a, SaveUsers(r, a)
  PROVE  PricersTyped' /\ PricerSide'
<1>1. Working(r) /\ work[r].at = "users" /\ a \in work[r].todo
  BY SendsWorking DEF SaveUsers, JobPhases
<1>2. /\ a.user \in Users /\ a.pv \in Int /\ a.cv \in Int /\ a.n \in Int
      /\ work[r].todo \subseteq UserAnswer
  BY <1>1 DEF Working, JobTyped, UserAnswer
<1>3. PricerSide'
  <2>1. [usr[a.user] EXCEPT !.pv = a.pv, !.cv = a.cv, !.count = a.n] \in UserHash
    BY <1>2, PricerParts, UserHashType DEF PricerSide
  <2> QED
    BY <1>2, <2>1, PricerParts DEF SaveUsers, PricerSide
<1>4. CASE work[r].todo = {a}
  <2>1. Over(r, a, {})
    BY <1>4 DEF Over
  <2>2. /\ work' = [work EXCEPT ![r] = Idle] /\ cut' = cut \ {work[r].stock}
        /\ started' = started
    BY <2>1 DEF SaveUsers, Advance
  <2>3. PricersTyped'
    BY <2>2 DEF PricersTyped
  <2> QED
    BY <1>3, <2>3
<1>5. CASE work[r].todo # {a}
  <2> DEFINE job == [work[r] EXCEPT !.at = work[r].at, !.todo = work[r].todo \ {a},
                                    !.plan = {}, !.reply = {}]
  <2>1. job \in Jobs /\ JobTyped(job)
    BY <1>1, <1>2, <1>5 DEF Working, Jobs, JobTyped
  <2>2. work' = [work EXCEPT ![r] = job] /\ cut' = cut /\ started' = started
    BY <1>5 DEF SaveUsers, Advance, Over
  <2> HIDE DEF job
  <2> QED
    BY <1>3, <2>1, <2>2 DEF PricersTyped
<1> QED
  BY <1>3, <1>4, <1>5

\* A fan-out ends early, and its stock is cut.
LEMMA CutShortTyped ==
  ASSUME UserInv, PricersTyped, NEW r \in Pricers, work[r] # Idle, CutShort(r)
  PROVE  PricersTyped' /\ PricerSide'
<1>1. PricersTyped'
  BY DEF CutShort, PricersTyped, Jobs
<1>2. PricerSide'
  BY PricerParts, SpendType DEF CutShort, PricerSide, Bounds
<1> QED
  BY <1>1, <1>2

----------------------------------------------------------------------------
(* Types *)

\* A step of a fan-out keeps every type.
LEMMA PricerStepTyped ==
  ASSUME UserInv, PricersTyped, PricerStep
  PROVE  UserInv' /\ PricersTyped'
<1>1. UNCHANGED recordVars
  BY DEF PricerStep
<1>2. PICK r \in Pricers :
        IF work[r] = Idle
          THEN \E s \in Stocks, price \in Prices : FindPortfolios(r, s, price)
          ELSE \/ \E x \in work[r].todo :
                    \/ Fetch(r, x) \/ Replace(r, x) \/ Show(r, x) \/ Save(r, x)
                    \/ Members(r, x) \/ Total(r, x) \/ SaveUsers(r, x)
               \/ \E u \in Users, p \in Portfolios : Value(r, u, p)
               \/ CutShort(r)
  BY DEF PricerStep
<1>3. PricersTyped' /\ PricerSide'
  BY <1>2, FindPortfoliosTyped, FetchTyped, ReplaceTyped, ShowTyped, SaveTyped,
     MembersTyped, ValueTyped, TotalTyped, SaveUsersTyped, CutShortTyped
<1> QED
  BY <1>1, <1>3, PricerFrame

\* The history variables are typed after a step that leaves the store typed.
LEMMA HistoryStep ==
  ASSUME HistoryTyped, ValuationNext, UserInv, UserInv'
  PROVE  HistoryTyped'
<1>1. \A h \in Holdings : h[1] \in Portfolios
  BY DEF Holdings
<1>2. inPf' \subseteq Trades
  BY DEF UserInv, UserTypeOK, TypeOK
<1>3. cleared' \subseteq Portfolios
  BY <1>1, <1>2, TradeParts DEF ValuationNext, HistoryTyped
<1>4. torn' \subseteq Portfolios
  BY DEF ValuationNext, HistoryTyped
<1>5. overlaps' \in Nat
  BY DEF ValuationNext, HistoryTyped
<1> QED
  BY <1>3, <1>4, <1>5 DEF HistoryTyped

\* TypeInv holds at first,
LEMMA TypeInit == ValuationInit => TypeInv
<1> SUFFICES ASSUME ValuationInit PROVE TypeInv
  OBVIOUS
<1>1. UserInv
  BY UserInvInit DEF ValuationInit
<1> QED
  BY <1>1 DEF ValuationInit, TypeInv, PricersTyped, HistoryTyped

\* and after every step.
LEMMA TypeStep == TypeInv /\ [ValuationNext]_allVars => TypeInv'
<1> SUFFICES ASSUME TypeInv, [ValuationNext]_allVars PROVE TypeInv'
  OBVIOUS
<1>1. CASE UNCHANGED allVars
  <2>1. UserInv'
    BY <1>1, UserInvStep DEF TypeInv
  <2> QED
    BY <1>1, <2>1 DEF TypeInv, PricersTyped, HistoryTyped
<1>2. CASE ValuationNext
  <2>1. UserInv' /\ PricersTyped'
    <3>1. CASE UserNext /\ UNCHANGED pricerVars
      <4>1. UserInv'
        BY <3>1, UserInvStep DEF TypeInv
      <4> QED
        BY <3>1, <4>1 DEF TypeInv, PricersTyped
    <3>2. CASE PricerStep
      BY <3>2, PricerStepTyped DEF TypeInv
    <3> QED
      BY <1>2, <3>1, <3>2 DEF ValuationNext
  <2> QED
    BY <1>2, <2>1, HistoryStep DEF TypeInv
<1> QED
  BY <1>1, <1>2

\* Every variable keeps its type while prices fan out beside the records: no
\* quantity is negative, and a fan-out at work has a command to send and, in
\* each phase, portfolios, plans, answers or totals of the right kind.
THEOREM ValuationTypeCorrect == ValuationSpec => []ValuationTypeOK
<1>1. TypeInv => ValuationTypeOK
  BY DEF TypeInv, UserInv, PricersTyped, HistoryTyped, ValuationTypeOK, Jobs, JobTyped,
         JobPhases
<1> QED
  BY <1>1, TypeInit, TypeStep, PTL DEF ValuationSpec

----------------------------------------------------------------------------
(* A portfolio's current value is the sum of its stocks' values *)

\* The holdings without a value, of portfolios that have not lost one.
Unvalued == {h \in Holdings : scv[h] = Missing /\ h[1] \notin cleared}

\* Their projection shows nothing.
Unshown == \A h \in Unvalued : shown[h] = 0

\* A trade adds to nothing, when the script finds no value.
Based ==
  \A w \in Workers :
    pc[w] \in {"totals", "project"} /\ Holding(trade[w]) \in Unvalued => base[w] = 0

\* A fan-out x fetched nothing of a holding of missing, and its script gives
\* every holding a value before one is shown.
PlanOf(x, missing) ==
  /\ x.at \in {"fetch", "replace"} =>
       \A i \in x.plan : <<i.pf, x.stock>> \in missing => i.before = 0
  /\ x.at = "replace" => \A i \in x.plan \ x.todo : <<i.pf, x.stock>> \notin missing
  /\ x.at = "show" => \A i \in x.todo : <<i.pf, x.stock>> \notin missing

Planned == \A r \in Pricers : work[r] # Idle => PlanOf(work[r], Unvalued)

StockInv == StocksAddUp /\ Unshown /\ Based /\ Planned

\* A portfolio has finitely many stocks.
LEMMA StocksFinite == \A p \in Portfolios : IsFiniteSet({h \in Holdings : h[1] = p})
<1> SUFFICES ASSUME NEW p \in Portfolios PROVE IsFiniteSet({h \in Holdings : h[1] = p})
  OBVIOUS
<1>1. IsFiniteSet({p})
  BY FS_Singleton
<1>2. IsFiniteSet({p} \X Stocks)
  BY <1>1, StocksAssumption, FS_Product
<1>3. {h \in Holdings : h[1] = p} = {p} \X Stocks
  BY DEF Holdings
<1> QED
  BY <1>2, <1>3

\* A step takes no value away but of a portfolio that it notes as cleared.
LEMMA Fewer ==
  ASSUME ValuationNext
  PROVE  Unvalued' \subseteq Unvalued /\ cleared \subseteq cleared'
<1>1. cleared \subseteq cleared'
  BY DEF ValuationNext
<1>2. ASSUME NEW h \in Holdings, scv[h] # Missing, scv'[h] = Missing PROVE h[1] \in cleared'
  BY <1>2 DEF ValuationNext
<1> QED
  BY <1>1, <1>2 DEF Unvalued

\* With fewer values missing a plan is as good as it was.
LEMMA PlanLess ==
  ASSUME NEW x, NEW missing, NEW less \in SUBSET missing, PlanOf(x, missing)
  PROVE  PlanOf(x, less)
BY DEF PlanOf

\* Of the portfolios that lost no value, those whose values stay add up still.
LEMMA SumKept ==
  ASSUME StocksAddUp, cleared \subseteq cleared', NEW p \in Portfolios,
         pf'[p].cvp = pf[p].cvp,
         \A h \in Holdings : h[1] = p => scv'[h] = scv[h]
  PROVE  p \notin cleared' => pf'[p].cvp = ValueOfStocks(p)'
<1> DEFINE f == [h \in Holdings |-> OrZero(scv[h])]
           g == [h \in Holdings |-> OrZero(scv'[h])]
           S == {h \in Holdings : h[1] = p}
<1>1. \A h \in S : f[h] = g[h]
  OBVIOUS
<1>2. IsFiniteSet(S)
  BY StocksFinite
<1>3. ValueOfStocks(p) = SumFunctionOnSet(f, S)
  BY DEF ValueOfStocks
<1>4. ValueOfStocks(p)' = SumFunctionOnSet(g, S)
  BY DEF ValueOfStocks, OrZero
<1> HIDE DEF f, g, S
<1>5. SumFunctionOnSet(f, S) = SumFunctionOnSet(g, S)
  BY <1>1, <1>2, SumAgrees
<1> QED
  BY <1>3, <1>4, <1>5 DEF StocksAddUp

\* So do those of which one stock's value changes with the current value.
LEMMA SumMoved ==
  ASSUME StocksAddUp, cleared \subseteq cleared', NEW p \in Portfolios,
         NEW k \in Holdings, k[1] = p,
         scv \in [Holdings -> Int \cup {Missing}], scv' \in [Holdings -> Int \cup {Missing}],
         pf'[p].cvp = pf[p].cvp + (OrZero(scv'[k]) - OrZero(scv[k])),
         \A h \in Holdings : h # k => scv'[h] = scv[h]
  PROVE  p \notin cleared' => pf'[p].cvp = ValueOfStocks(p)'
<1> DEFINE f == [h \in Holdings |-> OrZero(scv[h])]
           g == [h \in Holdings |-> OrZero(scv'[h])]
           S == {h \in Holdings : h[1] = p}
<1>1. \A h \in S : f[h] \in Int /\ g[h] \in Int
  BY OrZeroType
<1>2. \A h \in S \ {k} : g[h] = f[h]
  OBVIOUS
<1>3. k \in S /\ IsFiniteSet(S)
  BY StocksFinite
<1>4. f[k] = OrZero(scv[k]) /\ g[k] = OrZero(scv'[k])
  OBVIOUS
<1>5. ValueOfStocks(p) = SumFunctionOnSet(f, S)
  BY DEF ValueOfStocks
<1>6. ValueOfStocks(p)' = SumFunctionOnSet(g, S)
  BY DEF ValueOfStocks, OrZero
<1> HIDE DEF f, g, S
<1>7. SumFunctionOnSet(g, S) = SumFunctionOnSet(f, S) + (g[k] - f[k])
  BY <1>1, <1>2, <1>3, SumChange
<1> QED
  BY <1>4, <1>5, <1>6, <1>7 DEF StocksAddUp

\* What most steps do: no value is written.
ValuesKept ==
  UNCHANGED <<scv, shown>> /\ \A p \in Portfolios : pf'[p].cvp = pf[p].cvp

\* The others stay where they are, and w is not at the script or after it.
Apart(w) ==
  /\ \A v \in Workers \ {w} : pc'[v] = pc[v] /\ trade'[v] = trade[v] /\ base'[v] = base[v]
  /\ pc'[w] \notin {"totals", "project"}

\* A step apart leaves what the scripts add to.
LEMMA ApartBased ==
  ASSUME Based, ValuationNext, NEW w \in Workers, Apart(w)
  PROVE  Based'
BY Fewer DEF Based, Apart

\* A step that moves no worker leaves it, too.
LEMMA StillBased ==
  ASSUME Based, ValuationNext, UNCHANGED <<pc, trade, base>>
  PROVE  Based'
BY Fewer DEF Based

\* The plans stay good while no pricer moves.
LEMMA StillPlanned ==
  ASSUME Planned, ValuationNext, UNCHANGED work
  PROVE  Planned'
BY Fewer, PlanLess DEF Planned

\* The sums stay right while no value is written.
LEMMA SumsKept ==
  ASSUME StocksAddUp, ValuationNext, UNCHANGED scv,
         \A p \in Portfolios : pf'[p].cvp = pf[p].cvp
  PROVE  StocksAddUp'
<1> SUFFICES ASSUME NEW p \in Portfolios
             PROVE  p \notin cleared' => pf'[p].cvp = ValueOfStocks(p)'
  BY DEF StocksAddUp
<1>1. \A h \in Holdings : h[1] = p => scv'[h] = scv[h]
  OBVIOUS
<1> QED
  BY <1>1, Fewer, SumKept

\* What a worker does outside the script and the projection is apart.
LEMMA CallsApart ==
  ASSUME UserInv, NEW w \in Workers,
         \/ \E t \in Trades : Take(w, t)
         \/ Check(w) \/ FindUser(w) \/ MapUser(w) \/ ReadQuantity(w)
         \/ CasApplied(w) \/ CasConflict(w) \/ CasOk(w) \/ SyncIndex(w)
         \/ ApplyUser(w) \/ MarkProcessed(w)
         \/ \E lost \in SUBSET Fields : ReadPortfolio(w, lost) \/ ReadUser(w, lost)
         \/ SavePortfolio(w) \/ SaveUser(w) \/ Failure(w)
  PROVE  Apart(w) /\ ValuesKept
<1> USE DEF Apart, ValuesKept, Goto, Continue, UserInv, UserTypeOK, TypeOK
<1>1. CASE \E t \in Trades : Take(w, t)
  BY <1>1 DEF Take
<1>2. CASE Check(w)
  BY <1>2 DEF Check, Fresh
<1>3. CASE MapUser(w)
  BY <1>3 DEF MapUser
<1>4. CASE ReadQuantity(w)
  BY <1>4 DEF ReadQuantity
<1>5. CASE CasApplied(w)
  BY <1>5 DEF CasApplied
<1>6. CASE CasConflict(w)
  BY <1>6 DEF CasConflict
<1>7. CASE CasOk(w)
  BY <1>7 DEF CasOk
<1>8. CASE SyncIndex(w)
  BY <1>8 DEF SyncIndex
<1>9. CASE ApplyUser(w)
  BY <1>9 DEF ApplyUser
<1>10. CASE MarkProcessed(w)
  BY <1>10 DEF MarkProcessed
<1>11. CASE \E lost \in SUBSET Fields : ReadPortfolio(w, lost) \/ ReadUser(w, lost)
  BY <1>11 DEF ReadPortfolio, ReadUser
<1>12. CASE SavePortfolio(w)
  BY <1>12 DEF SavePortfolio
<1>13. CASE SaveUser(w)
  BY <1>13 DEF SaveUser, Fresh
<1>14. CASE MapHalf(w)
  BY <1>14 DEF MapHalf
<1>15. CASE FindUser(w)
  BY <1>15 DEF FindUser
<1>16. CASE CallFails(w)
  BY <1>16 DEF CallFails
<1>17. CASE Crash(w)
  BY <1>17 DEF Crash, Fresh
<1> QED
  BY <1>1, <1>2, <1>3, <1>4, <1>5, <1>6, <1>7, <1>8, <1>9, <1>10, <1>11, <1>12,
     <1>13, <1>14, <1>15, <1>16, <1>17 DEF Failure

\* The value that a trade is added to is read where nothing is shown.
LEMMA LegacyBased ==
  ASSUME UserInv, StockInv, ValuationNext, UNCHANGED pricerVars, NEW w \in Workers,
         ReadLegacy(w)
  PROVE  StockInv'
<1>1. Based'
  BY Fewer, HoldingType DEF ReadLegacy, StockInv, Based, Unshown, Unvalued, Goto,
     UserInv, UserTypeOK, TypeOK
<1>2. UNCHANGED <<scv, shown, pf>>
  BY DEF ReadLegacy
<1>3. Unshown'
  BY <1>2, Fewer DEF StockInv, Unshown
<1> QED
  BY <1>1, <1>2, <1>3, SumsKept, StillPlanned DEF StockInv

\* A projection shows nothing of a holding without a value.
LEMMA ProjectShown ==
  ASSUME UserInv, StockInv, ValuationNext, UNCHANGED pricerVars, NEW w \in Workers,
         Project(w)
  PROVE  StockInv'
<1>1. Apart(w)
  BY DEF Project, Apart, Goto, Continue, UserInv, UserTypeOK, TypeOK
<1>2. UNCHANGED <<scv, pf>> /\ shown' = [shown EXCEPT ![Holding(trade[w])] = base[w]]
  BY DEF Project
<1>3. Holding(trade[w]) \in Unvalued => base[w] = 0
  BY DEF Project, StockInv, Based
<1>4. Unshown'
  <2> SUFFICES ASSUME NEW h \in Unvalued' PROVE shown'[h] = 0
    BY DEF Unshown
  <2>1. h \in Unvalued /\ h \in Holdings /\ shown[h] = 0
    BY Fewer DEF StockInv, Unshown, Unvalued
  <2> QED
    BY <1>2, <1>3, <2>1 DEF UserInv, UserTypeOK, TypeOK
<1> QED
  BY <1>1, <1>2, <1>4, ApartBased, SumsKept, StillPlanned DEF StockInv

\* The script adds a trade to the stock's value and to the portfolio's.
LEMMA TotalsAdded ==
  ASSUME UserInv, UserInv', StockInv, ValuationNext, UNCHANGED pricerVars,
         NEW w \in Workers, ApplyTotals(w)
  PROVE  StockInv'
<1>0. PICK t : t = trade[w]
  OBVIOUS
<1> DEFINE h == Holding(t)
           value == ValueAfter(t, turn[w], IF scv[h] = Missing THEN base[w] ELSE scv[h])
<1>1. t \in Trades /\ h \in Holdings /\ h[1] = t.pf /\ t.pf \in Portfolios
  BY <1>0, HoldingType, TradeParts DEF ApplyTotals, Holding, UserInv, UserTypeOK, TypeOK
<1>2. h \in Unvalued => base[w] = 0
  BY <1>0 DEF ApplyTotals, StockInv, Based
<1>3. /\ UNCHANGED <<shown, trade>>
      /\ \A v \in Workers \ {w} : pc'[v] = pc[v] /\ base'[v] = base[v]
  BY DEF ApplyTotals, Continue, Goto, UserInv, UserTypeOK, TypeOK
<1>4. Unshown'
  BY <1>3, Fewer DEF StockInv, Unshown
<1>5. h \in Unvalued' => base'[w] = 0
  <2>1. base'[w] = OrZero(scv'[h])
    BY <1>0, <1>1 DEF ApplyTotals, UserInv, UserTypeOK, TypeOK
  <2> QED
    BY <2>1 DEF Unvalued, OrZero
<1>6. Based'
  BY <1>0, <1>3, <1>5, Fewer DEF StockInv, Based
<1>7. CASE t \in inPf
  BY <1>0, <1>4, <1>6, <1>7, SumsKept, StillPlanned DEF StockInv, ApplyTotals
<1>8. CASE t \notin inPf
  <2>1. /\ scv' = [scv EXCEPT ![h] = value]
        /\ pf' = [pf EXCEPT ![t.pf] = PlusTrade(pf[t.pf], Amount(t), AssetChange(t, turn[w]))]
        /\ inPf' = inPf \cup {t}
    BY <1>0, <1>8 DEF ApplyTotals
  <2>2. scv'[h] = value
    BY <1>1, <2>1 DEF UserInv, UserTypeOK, TypeOK
  <2>3. value = Missing => t.pf \in cleared'
    BY <1>1, <1>8, <2>1, <2>2 DEF ValuationNext
  <2>4. t.pf \notin cleared' =>
          OrZero(scv'[h]) = OrZero(scv[h]) + Amount(t)
    <3>1. SUFFICES ASSUME t.pf \notin cleared'
                   PROVE  OrZero(scv'[h]) = OrZero(scv[h]) + Amount(t)
      OBVIOUS
    <3>2. value # Missing /\ t.pf \notin cleared
      BY <2>3, <3>1, Fewer
    <3>3. value = (IF scv[h] = Missing THEN base[w] ELSE scv[h]) + Amount(t)
      BY <3>2 DEF ValueAfter
    <3>4. scv[h] = Missing => base[w] = 0
      BY <1>1, <1>2, <3>2 DEF Unvalued
    <3> QED
      BY <2>2, <3>2, <3>3, <3>4 DEF OrZero
  <2>5. ASSUME NEW p \in Portfolios, p \notin cleared'
        PROVE  pf'[p].cvp = ValueOfStocks(p)'
    <3>1. CASE p # t.pf
      <4>1. pf'[p] = pf[p] /\ \A k \in Holdings : k[1] = p => scv'[k] = scv[k]
        BY <1>1, <2>1, <3>1 DEF UserInv, UserTypeOK, TypeOK
      <4> QED
        BY <2>5, <4>1, Fewer, SumKept DEF StockInv
    <3>2. CASE p = t.pf
      <4>1. pf'[p].cvp = pf[p].cvp + Amount(t)
        BY <1>1, <2>1, <3>2 DEF PlusTrade, UserInv, UserTypeOK, TypeOK
      <4>2. OrZero(scv[h]) \in Int /\ Amount(t) \in Int /\ pf[p].cvp \in Int
        BY <1>1, OrZeroType, AmountType DEF UserInv, UserTypeOK, TypeOK
      <4>3. pf'[p].cvp = pf[p].cvp + (OrZero(scv'[h]) - OrZero(scv[h]))
        BY <2>4, <2>5, <3>2, <4>1, <4>2
      <4>4. \A k \in Holdings : k # h => scv'[k] = scv[k]
        BY <2>1 DEF UserInv, UserTypeOK, TypeOK
      <4>5. scv \in [Holdings -> Int \cup {Missing}] /\ scv' \in [Holdings -> Int \cup {Missing}]
        BY DEF UserInv, UserTypeOK, TypeOK
      <4> HIDE DEF h
      <4> QED
        BY <1>1, <2>5, <3>2, <4>3, <4>4, <4>5, Fewer, SumMoved DEF StockInv
    <3> QED
      BY <3>1, <3>2
  <2>6. StocksAddUp'
    BY <2>5 DEF StocksAddUp
  <2> QED
    BY <1>4, <1>6, <2>6, StillPlanned DEF StockInv
<1> QED
  BY <1>7, <1>8

\* What a worker does to the values beside the pricers.
LEMMA TradeStock ==
  ASSUME UserInv, UserInv', StockInv, ValuationNext, UNCHANGED pricerVars, TradeStep
  PROVE  StockInv'
<1>1. PICK w \in Workers :
        \/ \E t \in Trades : Take(w, t)
        \/ Compute(w) \/ Failure(w) \/ SyncIndex(w) \/ SavePortfolio(w)
  BY DEF TradeStep
<1>2. CASE Apart(w) /\ ValuesKept
  BY <1>2, ApartBased, SumsKept, StillPlanned, Fewer DEF StockInv, ValuesKept, Unshown
<1> QED
  BY <1>1, <1>2, CallsApart, LegacyBased, ProjectShown, TotalsAdded DEF Compute

\* A keeper only ever takes values away.
LEMMA KeeperStock ==
  ASSUME UserInv, StockInv, ValuationNext, UNCHANGED pricerVars, KeeperStep
  PROVE  StockInv'
<1>1. \/ UNCHANGED <<scv, shown>>
      \/ \E k \in Keepers : Wipe(k)
  <2> SUFFICES ASSUME ~\E k \in Keepers : Wipe(k)
               PROVE  UNCHANGED <<scv, shown>>
    OBVIOUS
  <2> USE DEF stateVars
  <2>1. CASE \E e \in Events : Redeliver(e)
    BY <2>1 DEF Redeliver
  <2>2. ASSUME NEW k \in Keepers,
               (\E e \in Events : TakeEvent(k, e)) \/ KeeperFails(k) \/ KeeperDies(k)
        PROVE  UNCHANGED <<scv, shown>>
    BY <2>2 DEF TakeEvent, KeeperFails, KeeperDies
  <2>3. ASSUME NEW k \in Keepers,
               \/ Look(k) \/ CountPending(k) \/ UncountPending(k)
               \/ \E lost \in SUBSET {"pv", "cvp"} : ReadTotals(k, lost)
               \/ \E lost \in SUBSET Fields : ReadUserOf(k, lost)
        PROVE  UNCHANGED <<scv, shown>>
    BY <2>3 DEF Look, CountPending, UncountPending, ReadTotals, ReadUserOf
  <2>4. ASSUME NEW k \in Keepers,
               \/ ApplyEvent(k, "count", "clear") \/ ApplyEvent(k, "add", "map")
               \/ ApplyEvent(k, "subtract", "unmap") \/ ClearPending(k)
        PROVE  UNCHANGED <<scv, shown>>
    BY <2>4 DEF ApplyEvent, ClearPending
  <2>5. ASSUME NEW k \in Keepers,
               MapPortfolio(k) \/ Unmap(k) \/ MarkDeleted(k) \/ FindStocks(k) \/ SaveUserOf(k)
        PROVE  UNCHANGED <<scv, shown>>
    BY <2>5 DEF MapPortfolio, Unmap, MarkDeleted, FindStocks, SaveUserOf
  <2> QED
    BY <2>1, <2>2, <2>3, <2>4, <2>5 DEF KeeperStep, KeeperWork
<1>2. \A h \in Holdings : scv'[h] \in {scv[h], Missing} /\ shown'[h] \in {shown[h], 0}
  BY <1>1 DEF Wipe, Forget
<1>3. UNCHANGED <<pf, pc, trade, base>>
  BY DEF KeeperStep
<1>4. Unshown'
  BY <1>2, Fewer DEF StockInv, Unshown, Unvalued
<1>5. StocksAddUp'
  <2> SUFFICES ASSUME NEW p \in Portfolios, p \notin cleared'
               PROVE  pf'[p].cvp = ValueOfStocks(p)'
    BY DEF StocksAddUp
  <2>1. \A h \in Holdings : h[1] = p => scv'[h] = scv[h]
    <3> SUFFICES ASSUME NEW h \in Holdings, h[1] = p, scv'[h] = Missing
                 PROVE  scv[h] = Missing
      BY <1>2
    <3>1. h \in Unvalued'
      BY DEF Unvalued
    <3> QED
      BY <3>1, Fewer DEF Unvalued
  <2> QED
    BY <1>3, <2>1, Fewer, SumKept DEF StockInv
<1> QED
  BY <1>3, <1>4, <1>5, StillBased, StillPlanned DEF StockInv

----------------------------------------------------------------------------
(* The values and the steps of a pricer *)

\* Where a fan-out is after the answer to command x.
LEMMA Advanced ==
  ASSUME PricersTyped, NEW r \in Pricers, Working(r), NEW x, NEW phase, NEW commands,
         NEW plan, NEW reply, Advance(r, x, phase, commands, plan, reply)
  PROVE  /\ \A q \in Pricers \ {r} : work'[q] = work[q]
         /\ \/ work'[r] = Idle
            \/ /\ work[r].todo = {x}
               /\ work'[r].at = phase /\ work'[r].todo = commands
               /\ work'[r].plan = plan /\ work'[r].reply = reply
               /\ work'[r].stock = work[r].stock
            \/ /\ work[r].todo # {x}
               /\ work'[r].at = work[r].at /\ work'[r].todo = work[r].todo \ {x}
               /\ work'[r].plan = plan /\ work'[r].reply = reply
               /\ work'[r].stock = work[r].stock
<1>1. \A q \in Pricers \ {r} : work'[q] = work[q]
  BY DEF Advance, PricersTyped
<1>2. CASE Over(r, x, commands)
  BY <1>1, <1>2 DEF Advance, PricersTyped
<1>3. CASE ~Over(r, x, commands)
  <2> DEFINE job == [work[r] EXCEPT !.at = IF work[r].todo = {x} THEN phase ELSE work[r].at,
                                    !.todo = IF work[r].todo = {x} THEN commands
                                             ELSE work[r].todo \ {x},
                                    !.plan = plan, !.reply = reply]
  <2>1. work'[r] = job
    BY <1>3 DEF Advance, PricersTyped
  <2>2. /\ job.at = IF work[r].todo = {x} THEN phase ELSE work[r].at
        /\ job.todo = IF work[r].todo = {x} THEN commands ELSE work[r].todo \ {x}
        /\ job.plan = plan /\ job.reply = reply /\ job.stock = work[r].stock
    BY DEF Working, Jobs
  <2> HIDE DEF job
  <2> QED
    BY <1>1, <2>1, <2>2
<1> QED
  BY <1>2, <1>3

\* The other pricers' plans stay good, so it is about the one that moves.
LEMMA OnePlanned ==
  ASSUME Planned, ValuationNext, NEW r \in Pricers,
         \A q \in Pricers \ {r} : work'[q] = work[q],
         work'[r] # Idle => PlanOf(work'[r], Unvalued')
  PROVE  Planned'
BY Fewer, PlanLess DEF Planned

\* The phases after the projection are not about values of stocks.
LaterPhases == {"idle", "save", "members", "values", "total", "users"}

\* In those phases nothing is asked of a plan.
LEMMA LaterPlanned == \A x, missing : x.at \in LaterPhases => PlanOf(x, missing)
BY DEF LaterPhases, PlanOf

\* Nothing is planned yet, or no longer.
LEMMA FindPlanned ==
  ASSUME Planned, PricersTyped, ValuationNext, NEW r \in Pricers,
         (\E s \in Stocks, price \in Prices : FindPortfolios(r, s, price)) \/ CutShort(r)
  PROVE  Planned'
<1>1. /\ \A q \in Pricers \ {r} : work'[q] = work[q]
      /\ \/ work'[r] = Idle
         \/ work'[r].at = "fetch" /\ work'[r].plan = {}
  BY DEF FindPortfolios, CutShort, PricersTyped
<1>2. work'[r] # Idle => PlanOf(work'[r], Unvalued')
  BY <1>1 DEF PlanOf
<1> QED
  BY <1>1, <1>2, OnePlanned

\* So are the steps after the projection.
LEMMA LaterStock ==
  ASSUME Planned, PricersTyped, ValuationNext, NEW r \in Pricers, work[r] # Idle,
         \/ \E x \in work[r].todo : Save(r, x) \/ Members(r, x) \/ Total(r, x) \/ SaveUsers(r, x)
         \/ \E u \in Users, p \in Portfolios : Value(r, u, p)
  PROVE  Planned'
<1> DEFINE Moves == \E phase \in LaterPhases : \E x, commands, plan, reply :
                     Advance(r, x, phase, commands, plan, reply)
<1>1. Moves /\ work[r].at \in LaterPhases
  <2>1. ASSUME NEW x, Save(r, x) PROVE Moves /\ work[r].at \in LaterPhases
    BY <2>1 DEF Save, Sends, LaterPhases
  <2>2. ASSUME NEW x, Members(r, x) PROVE Moves /\ work[r].at \in LaterPhases
    <3> DEFINE plan == work[r].plan \cup ({x} \X members[x])
               totals == work[r].reply \cup {[user |-> x, total |-> 0]}
    <3>1. \/ Advance(r, x, "total", totals, plan, totals)
          \/ Advance(r, x, "values", plan, plan, totals)
      BY <2>2 DEF Members
    <3>2. work[r].at \in LaterPhases
      BY <2>2 DEF Members, Sends, LaterPhases
    <3> HIDE DEF plan, totals
    <3> QED
      BY <3>1, <3>2 DEF LaterPhases
  <2>3. ASSUME NEW x, Total(r, x) PROVE Moves /\ work[r].at \in LaterPhases
    BY <2>3 DEF Total, Sends, LaterPhases
  <2>4. ASSUME NEW x, SaveUsers(r, x) PROVE Moves /\ work[r].at \in LaterPhases
    BY <2>4 DEF SaveUsers, Sends, LaterPhases
  <2>5. ASSUME NEW u, NEW p, Value(r, u, p) PROVE Moves /\ work[r].at \in LaterPhases
    BY <2>5 DEF Value, Sends, LaterPhases
  <2> HIDE DEF Moves
  <2> QED
    BY <2>1, <2>2, <2>3, <2>4, <2>5
<1>2. Working(r)
  BY DEF PricersTyped, Working
<1>3. /\ \A q \in Pricers \ {r} : work'[q] = work[q]
      /\ work'[r] # Idle => work'[r].at \in LaterPhases
  BY <1>1, <1>2, Advanced DEF LaterPhases, Idle
<1> QED
  BY <1>3, LaterPlanned, OnePlanned

\* What is fetched of a holding without a value is nothing.
LEMMA FetchPlanned ==
  ASSUME UserInv, PricersTyped, StockInv, ValuationNext, NEW r \in Pricers, NEW p,
         Fetch(r, p)
  PROVE  Planned'
<1> DEFINE h == <<p, work[r].stock>>
           before == IF scv[h] = Missing THEN shown[h] ELSE scv[h]
<1>1. Working(r) /\ work[r].at = "fetch" /\ p \in work[r].todo /\ work[r] # Idle
  BY SendsWorking, IdleJob DEF Fetch, JobPhases, Working
<1>2. PICK plan :
        /\ Advance(r, p, "replace", plan, plan, {})
        /\ \A i \in plan : i \in work[r].plan \/ (i.pf = p /\ i.before = before)
  BY DEF Fetch
<1>3. \A i \in plan : <<i.pf, work[r].stock>> \in Unvalued => i.before = 0
  <2> SUFFICES ASSUME NEW i \in plan, <<i.pf, work[r].stock>> \in Unvalued
               PROVE  i.before = 0
    OBVIOUS
  <2>1. CASE i \in work[r].plan
    BY <1>1, <2>1 DEF StockInv, Planned, PlanOf
  <2>2. CASE i.pf = p /\ i.before = before
    BY <2>2 DEF StockInv, Unshown, Unvalued
  <2> QED
    BY <1>2, <2>1, <2>2
<1>4. /\ \A q \in Pricers \ {r} : work'[q] = work[q]
      /\ \/ work'[r] = Idle
         \/ /\ work'[r].at = "replace" /\ work'[r].todo = plan
            /\ work'[r].plan = plan /\ work'[r].stock = work[r].stock
         \/ /\ work'[r].at = "fetch" /\ work'[r].plan = plan
            /\ work'[r].stock = work[r].stock
  BY <1>1, <1>2, Advanced
<1>5. work'[r] # Idle => PlanOf(work'[r], Unvalued')
  BY <1>3, <1>4, Fewer DEF PlanOf
<1> QED
  BY <1>4, <1>5, OnePlanned DEF StockInv

\* What the script replaces has a value, which it adds the difference of.
LEMMA ReplaceStock ==
  ASSUME UserInv, UserInv', PricersTyped, StockInv, ValuationNext, UNCHANGED recordVars,
         NEW r \in Pricers, NEW i, Replace(r, i)
  PROVE  StockInv'
<1>0. PICK s : s = work[r].stock
  OBVIOUS
<1> DEFINE h == <<i.pf, s>>
<1>1. /\ Working(r) /\ work[r].at = "replace" /\ i \in work[r].todo /\ work[r] # Idle
      /\ PlanOf(work[r], Unvalued)
  BY SendsWorking, IdleJob DEF Replace, JobPhases, Working, StockInv, Planned
<1>2. /\ i \in work[r].plan /\ i.pf \in Portfolios /\ i.new \in Int /\ i.before \in Int
      /\ h \in Holdings /\ h[1] = i.pf
  BY <1>0, <1>1 DEF Working, JobTyped, Jobs, Holdings, Plan
<1>3. /\ scv' = [scv EXCEPT ![h] = i.new]
      /\ pf' = [pf EXCEPT ![i.pf] =
                  [pf[i.pf] EXCEPT !.cvp = pf[i.pf].cvp + i.new - Previous(h, i)]]
      /\ Advance(r, i, "show", work[r].plan, work[r].plan,
                 work[r].reply \cup
                   {Answer(i.pf, [pf[i.pf] EXCEPT !.cvp = pf[i.pf].cvp + i.new - Previous(h, i)])})
      /\ UNCHANGED shown
  BY <1>0 DEF Replace
<1>4. h \notin Unvalued' /\ scv'[h] = i.new /\ i.new # Missing
  BY <1>2, <1>3, NamesAssumption DEF Unvalued, UserInv, UserTypeOK, TypeOK
<1>5. Planned'
  <2>1. /\ \A q \in Pricers \ {r} : work'[q] = work[q]
        /\ \/ work'[r] = Idle
           \/ /\ work[r].todo = {i} /\ work'[r].at = "show"
              /\ work'[r].todo = work[r].plan
              /\ work'[r].plan = work[r].plan /\ work'[r].stock = s
           \/ /\ work'[r].at = "replace" /\ work'[r].todo = work[r].todo \ {i}
              /\ work'[r].plan = work[r].plan /\ work'[r].stock = s
    BY <1>0, <1>1, <1>3, Advanced
  <2>2. PlanOf(work[r], Unvalued')
    BY <1>1, Fewer, PlanLess
  <2>3. work'[r] # Idle => PlanOf(work'[r], Unvalued')
    BY <1>0, <1>1, <1>4, <2>1, <2>2 DEF PlanOf
  <2> QED
    BY <2>1, <2>3, OnePlanned DEF StockInv
<1>6. Unshown'
  BY <1>3, Fewer DEF StockInv, Unshown
<1>7. ASSUME NEW p \in Portfolios, p \notin cleared'
      PROVE  pf'[p].cvp = ValueOfStocks(p)'
  <2>1. CASE p # i.pf
    <3>1. pf'[p] = pf[p] /\ \A k \in Holdings : k[1] = p => scv'[k] = scv[k]
      BY <1>2, <1>3, <2>1 DEF UserInv, UserTypeOK, TypeOK
    <3> QED
      BY <1>7, <3>1, Fewer, SumKept DEF StockInv
  <2>2. CASE p = i.pf
    <3>1. Previous(h, i) = OrZero(scv[h])
      <4>1. CASE scv[h] = Missing
        <5>1. h \in Unvalued
          BY <1>2, <1>7, <2>2, <4>1, Fewer DEF Unvalued
        <5>2. i.before = 0
          BY <1>0, <1>1, <1>2, <5>1 DEF PlanOf
        <5> QED
          BY <4>1, <5>2 DEF Previous, OrZero
      <4>2. CASE scv[h] # Missing
        BY <4>2 DEF Previous, OrZero
      <4> QED
        BY <4>1, <4>2
    <3>2. OrZero(scv'[h]) = i.new
      BY <1>4 DEF OrZero
    <3>3. OrZero(scv[h]) \in Int /\ pf[p].cvp \in Int
      BY <1>2, OrZeroType DEF UserInv, UserTypeOK, TypeOK
    <3>4. pf'[p].cvp = pf[p].cvp + i.new - Previous(h, i)
      BY <1>2, <1>3, <2>2 DEF UserInv, UserTypeOK, TypeOK
    <3>5. pf'[p].cvp = pf[p].cvp + (OrZero(scv'[h]) - OrZero(scv[h]))
      BY <1>2, <3>1, <3>2, <3>3, <3>4
    <3>6. \A k \in Holdings : k # h => scv'[k] = scv[k]
      BY <1>3 DEF UserInv, UserTypeOK, TypeOK
    <3>7. scv \in [Holdings -> Int \cup {Missing}] /\ scv' \in [Holdings -> Int \cup {Missing}]
      BY DEF UserInv, UserTypeOK, TypeOK
    <3> HIDE DEF h
    <3> QED
      BY <1>2, <1>7, <2>2, <3>5, <3>6, <3>7, Fewer, SumMoved DEF StockInv
  <2> QED
    BY <2>1, <2>2
<1> QED
  BY <1>5, <1>6, <1>7, StillBased DEF StockInv, StocksAddUp

\* Only what has a value is shown.
LEMMA ShowStock ==
  ASSUME UserInv, PricersTyped, StockInv, ValuationNext, UNCHANGED recordVars,
         NEW r \in Pricers, NEW i, Show(r, i)
  PROVE  StockInv'
<1>1. /\ Working(r) /\ work[r].at = "show" /\ i \in work[r].todo /\ work[r] # Idle
      /\ PlanOf(work[r], Unvalued)
  BY SendsWorking, IdleJob DEF Show, JobPhases, Working, StockInv, Planned
<1>2. /\ shown' = [shown EXCEPT ![<<i.pf, work[r].stock>>] = i.new]
      /\ UNCHANGED <<scv, pf>>
      /\ Advance(r, i, "save", work[r].reply, work[r].plan, work[r].reply)
  BY DEF Show
<1>3. Unshown'
  <2> SUFFICES ASSUME NEW h \in Unvalued' PROVE shown'[h] = 0
    BY DEF Unshown
  <2>1. h \in Unvalued /\ h \in Holdings /\ shown[h] = 0
    BY Fewer DEF StockInv, Unshown, Unvalued
  <2>2. h # <<i.pf, work[r].stock>>
    BY <1>1, <2>1 DEF PlanOf
  <2> QED
    BY <1>2, <2>1, <2>2 DEF UserInv, UserTypeOK, TypeOK
<1>4. Planned'
  <2>1. /\ \A q \in Pricers \ {r} : work'[q] = work[q]
        /\ \/ work'[r] = Idle
           \/ work'[r].at = "save"
           \/ /\ work'[r].at = "show" /\ work'[r].todo = work[r].todo \ {i}
              /\ work'[r].stock = work[r].stock
    BY <1>1, <1>2, Advanced
  <2>2. PlanOf(work[r], Unvalued')
    BY <1>1, Fewer, PlanLess
  <2>3. work'[r] # Idle => PlanOf(work'[r], Unvalued')
    BY <1>1, <2>1, <2>2 DEF PlanOf
  <2> QED
    BY <2>1, <2>3, OnePlanned DEF StockInv
<1> QED
  BY <1>2, <1>3, <1>4, StillBased, SumsKept DEF StockInv

\* What a pricer does to the values.
LEMMA PricerStock ==
  ASSUME UserInv, UserInv', PricersTyped, StockInv, ValuationNext, PricerStep
  PROVE  StockInv'
<1>1. UNCHANGED recordVars
  BY DEF PricerStep
<1>2. PICK r \in Pricers :
        IF work[r] = Idle
          THEN \E s \in Stocks, price \in Prices : FindPortfolios(r, s, price)
          ELSE \/ \E x \in work[r].todo :
                    \/ Fetch(r, x) \/ Replace(r, x) \/ Show(r, x) \/ Save(r, x)
                    \/ Members(r, x) \/ Total(r, x) \/ SaveUsers(r, x)
               \/ \E u \in Users, p \in Portfolios : Value(r, u, p)
               \/ CutShort(r)
  BY DEF PricerStep
<1>3. \/ Unshown' /\ Based' /\ StocksAddUp'
      \/ \E x : Replace(r, x) \/ Show(r, x)
  <2>1. UNCHANGED <<scv, shown>> \/ \E x : Replace(r, x) \/ Show(r, x)
    BY <1>2 DEF FindPortfolios, Fetch, Save, Members, Value, Total, SaveUsers, CutShort
  <2>2. (\A p \in Portfolios : pf'[p].cvp = pf[p].cvp) \/ \E x : Replace(r, x) \/ Show(r, x)
    <3>1. ASSUME NEW a, Save(r, a) PROVE \A p \in Portfolios : pf'[p].cvp = pf[p].cvp
      BY <3>1 DEF Save, UserInv, UserTypeOK, TypeOK
    <3>2. UNCHANGED pf \/ \E x : Replace(r, x) \/ Show(r, x) \/ Save(r, x)
      BY <1>2 DEF FindPortfolios, Fetch, Members, Value, Total, SaveUsers, CutShort
    <3> QED
      BY <3>1, <3>2
  <2>3. Based'
    BY <1>1, StillBased DEF StockInv
  <2> QED
    BY <2>1, <2>2, <2>3, Fewer, SumsKept DEF StockInv, Unshown
<1>4. Planned' \/ \E x : Replace(r, x) \/ Show(r, x)
  BY <1>2, FindPlanned, FetchPlanned, LaterStock DEF StockInv
<1>5. CASE \E x : Replace(r, x) \/ Show(r, x)
  BY <1>1, <1>5, ReplaceStock, ShowStock
<1> QED
  BY <1>3, <1>4, <1>5 DEF StockInv

----------------------------------------------------------------------------
(* The values add up *)

\* At first nothing has a value.
LEMMA StockInit == ValuationInit => StockInv
<1> SUFFICES ASSUME ValuationInit PROVE StockInv
  OBVIOUS
<1>1. Unshown /\ Based /\ Planned
  BY DEF ValuationInit, UserInit, Init, Unshown, Unvalued, Based, Planned
<1>2. ASSUME NEW p \in Portfolios PROVE pf[p].cvp = ValueOfStocks(p)
  <2> DEFINE f == [h \in Holdings |-> OrZero(scv[h])]
             S == {h \in Holdings : h[1] = p}
  <2>1. pf[p].cvp = 0
    BY DEF ValuationInit, UserInit, Init
  <2>2. \A h \in S : f[h] = 0
    BY DEF ValuationInit, UserInit, Init, OrZero
  <2>3. IsFiniteSet(S)
    BY StocksFinite
  <2> HIDE DEF f, S
  <2>4. SumFunctionOnSet(f, S) = 0
    BY <2>2, <2>3, SumZero
  <2> QED
    BY <2>1, <2>4 DEF ValueOfStocks, f, S
<1> QED
  BY <1>1, <1>2 DEF StockInv, StocksAddUp

\* StockInv is inductive beside TypeInv.
LEMMA StockStep == TypeInv /\ TypeInv' /\ StockInv /\ [ValuationNext]_allVars => StockInv'
<1> SUFFICES ASSUME TypeInv, TypeInv', StockInv, [ValuationNext]_allVars PROVE StockInv'
  OBVIOUS
<1>1. CASE UNCHANGED allVars
  BY <1>1 DEF StockInv, StocksAddUp, ValueOfStocks, OrZero, Unshown, Unvalued, Based, Planned
<1>2. CASE ValuationNext
  BY <1>2, TradeStock, KeeperStock, PricerStock DEF TypeInv, ValuationNext, UserNext
<1> QED
  BY <1>1, <1>2

\* Whatever a fan-out, its retries, trades and portfolio-user records do at the
\* same time, and whichever of their calls fail: a portfolio's current value is
\* the sum of its stocks' values, while none of them was removed and no sale
\* met a missing one.
THEOREM ValuesAddUp == ValuationSpec => []StocksAddUp
<1>1. TypeInv /\ StockInv /\ [ValuationNext]_allVars => (TypeInv /\ StockInv)'
  BY TypeStep, StockStep
<1>2. ValuationInit => TypeInv /\ StockInv
  BY TypeInit, StockInit
<1>3. StockInv => StocksAddUp
  BY DEF StockInv
<1> QED
  BY <1>1, <1>2, <1>3, PTL DEF ValuationSpec

----------------------------------------------------------------------------
(* At most one thing is at work while there is no overlap *)

\* What AtWork counts: trades begun and not finished, portfolios with a record
\* begun and not finished, and stocks with a fan-out begun and not finished.
Handled ==
  {t \in Trades : turned[t] # "none" /\ t \notin returned}
    \cup {trade[w] : w \in {w \in Workers : pc[w] # "idle"}}

Kept == {e.pf : e \in ((counted \ done) \cup {event[k] : k \in Keepers}) \ {NoEvent}}

Priced == {work[r].stock : r \in {r \in Pricers : work[r] # Idle}} \cup cut

AtMostOne(S) == \A x, y \in S : x = y

\* Three sets have at most one element together.
OneOf(A, B, C) ==
  /\ AtMostOne(A) /\ AtMostOne(B) /\ AtMostOne(C)
  /\ A = {} \/ B = {}
  /\ A = {} \/ C = {}
  /\ B = {} \/ C = {}

OneAtWork == overlaps = 0 => OneOf(Handled, Kept, Priced)

\* A set of at most one element has none or one.
LEMMA NoneOrOne ==
  ASSUME NEW S, AtMostOne(S)
  PROVE  \/ S = {} /\ Cardinality(S) = 0
         \/ \E x : S = {x} /\ Cardinality(S) = 1
<1>1. CASE S = {}
  BY <1>1, FS_EmptySet
<1>2. CASE S # {}
  <2>1. PICK x : S = {x}
    BY <1>2 DEF AtMostOne
  <2> QED
    BY <2>1, FS_Singleton
<1> QED
  BY <1>1, <1>2

\* Two different elements are two.
LEMMA TwoAreTwo == \A x, y : x # y => Cardinality({x, y}) = 2
<1> SUFFICES ASSUME NEW x, NEW y, x # y PROVE Cardinality({x, y}) = 2
  OBVIOUS
<1>1. IsFiniteSet({x}) /\ Cardinality({x}) = 1
  BY FS_Singleton
<1>2. Cardinality({x} \cup {y}) = 2
  BY <1>1, FS_AddElement
<1>3. {x} \cup {y} = {x, y}
  OBVIOUS
<1> QED
  BY <1>2, <1>3

\* A set that gets one element more makes at most one more than one, which is
\* more than there was, and more than none.
LEMMA Crowded ==
  ASSUME NEW A, NEW B, NEW C, NEW x, NEW D, D \subseteq A \cup {x},
         OneOf(A, B, C), ~OneOf(D, B, C)
  PROVE  /\ Cardinality(D) \in Nat
         /\ Cardinality(A) + Cardinality(B) + Cardinality(C) > 0
         /\ Cardinality(D) + Cardinality(B) + Cardinality(C)
              > Cardinality(A) + Cardinality(B) + Cardinality(C)
<1>1. CASE A = {} /\ B = {} /\ C = {}
  BY <1>1 DEF OneOf, AtMostOne
<1>2. CASE A # {}
  <2>1. PICK a : A = {a} /\ Cardinality(A) = 1
    BY <1>2, NoneOrOne DEF OneOf
  <2>2. B = {} /\ C = {} /\ Cardinality({}) = 0
    BY <1>2, FS_EmptySet DEF OneOf
  <2>3. D = {a, x} /\ a # x
    BY <2>1, <2>2 DEF OneOf, AtMostOne
  <2>4. Cardinality(D) = 2
    BY <2>3, TwoAreTwo
  <2> QED
    BY <2>1, <2>2, <2>4
<1>3. CASE A = {} /\ (B # {} \/ C # {})
  <2>1. D = {x}
    BY <1>3 DEF OneOf, AtMostOne
  <2>2. Cardinality(D) = 1 /\ Cardinality(A) = 0
    BY <1>3, <2>1, FS_Singleton, FS_EmptySet
  <2>3. \/ B = {} /\ Cardinality(B) = 0 /\ Cardinality(C) = 1
        \/ C = {} /\ Cardinality(C) = 0 /\ Cardinality(B) = 1
    BY <1>3, NoneOrOne DEF OneOf
  <2> QED
    BY <2>2, <2>3
<1> QED
  BY <1>1, <1>2, <1>3

\* A step that begins something while nothing overlaps leaves one thing.
LEMMA BeginsAlone ==
  ASSUME overlaps \in Nat, ValuationNext, overlaps' = 0, OneAtWork, Begins,
         NEW x,
         \/ Handled' \subseteq Handled \cup {x} /\ Kept' = Kept /\ Priced' = Priced
         \/ Handled' = Handled /\ Kept' \subseteq Kept \cup {x} /\ Priced' = Priced
         \/ Handled' = Handled /\ Kept' = Kept /\ Priced' \subseteq Priced \cup {x}
  PROVE  OneOf(Handled', Kept', Priced')
<1>1. overlaps = 0 /\ ~Overlap
  BY DEF ValuationNext
<1>2. OneOf(Handled, Kept, Priced)
  BY <1>1 DEF OneAtWork
<1>3. AtWork = Cardinality(Handled) + Cardinality(Kept) + Cardinality(Priced)
  BY DEF AtWork, Handled, Kept, Priced
<1>4. AtWork' = Cardinality(Handled') + Cardinality(Kept') + Cardinality(Priced')
  BY DEF AtWork, Handled, Kept, Priced
<1>5. ~(AtWork' > AtWork /\ AtWork > 0)
  BY <1>1 DEF Overlap
<1>6. ~(/\ Cardinality(Handled) + Cardinality(Kept) + Cardinality(Priced) > 0
        /\ Cardinality(Handled') + Cardinality(Kept') + Cardinality(Priced')
             > Cardinality(Handled) + Cardinality(Kept) + Cardinality(Priced))
  BY <1>3, <1>4, <1>5
<1> DEFINE A == Handled
           B == Kept
           C == Priced
           D == Handled'
           E == Kept'
           F == Priced'
<1>7. \A S, T, U : OneOf(S, T, U) => OneOf(T, S, U) /\ OneOf(U, T, S)
  BY DEF OneOf
<1>8. OneOf(A, B, C) /\ OneOf(B, A, C) /\ OneOf(C, B, A)
  BY <1>2, <1>7
<1>9. \A S : AtMostOne(S) => Cardinality(S) \in Nat
  BY NoneOrOne
<1>10. Cardinality(A) \in Nat /\ Cardinality(B) \in Nat /\ Cardinality(C) \in Nat
  BY <1>8, <1>9 DEF OneOf
<1>11. SUFFICES ASSUME ~OneOf(D, E, F) PROVE FALSE
  OBVIOUS
<1> HIDE DEF A, B, C, D, E, F
<1>12. CASE D \subseteq A \cup {x} /\ E = B /\ F = C
  BY <1>6, <1>8, <1>11, <1>12, Crowded DEF A, B, C, D, E, F
<1>13. CASE D = A /\ E \subseteq B \cup {x} /\ F = C
  <2>1. ~OneOf(E, A, C)
    BY <1>7, <1>11, <1>13
  <2>2. /\ Cardinality(E) \in Nat
        /\ Cardinality(B) + Cardinality(A) + Cardinality(C) > 0
        /\ Cardinality(E) + Cardinality(A) + Cardinality(C)
             > Cardinality(B) + Cardinality(A) + Cardinality(C)
    BY <1>8, <1>13, <2>1, Crowded
  <2>3. ~(/\ Cardinality(A) + Cardinality(B) + Cardinality(C) > 0
          /\ Cardinality(D) + Cardinality(E) + Cardinality(F)
               > Cardinality(A) + Cardinality(B) + Cardinality(C))
    BY <1>6 DEF A, B, C, D, E, F
  <2> QED
    BY <1>10, <1>13, <2>2, <2>3
<1>14. CASE D = A /\ E = B /\ F \subseteq C \cup {x}
  <2>1. ~OneOf(F, B, A)
    BY <1>7, <1>11, <1>14
  <2>2. /\ Cardinality(F) \in Nat
        /\ Cardinality(C) + Cardinality(B) + Cardinality(A) > 0
        /\ Cardinality(F) + Cardinality(B) + Cardinality(A)
             > Cardinality(C) + Cardinality(B) + Cardinality(A)
    BY <1>8, <1>14, <2>1, Crowded
  <2>3. ~(/\ Cardinality(A) + Cardinality(B) + Cardinality(C) > 0
          /\ Cardinality(D) + Cardinality(E) + Cardinality(F)
               > Cardinality(A) + Cardinality(B) + Cardinality(C))
    BY <1>6 DEF A, B, C, D, E, F
  <2> QED
    BY <1>10, <1>14, <2>2, <2>3
<1> QED
  BY <1>12, <1>13, <1>14 DEF A, B, C, D, E, F

\* Two workers at a record are one, unless an expelled one went on.
OneWorker ==
  \A v, w \in Workers : pc[v] # "idle" /\ trade[v] = trade[w] => v = w

\* No two fan-outs are at one stock, without an overlap.
OnePricer == overlaps = 0 => ~Twice

LoneInv == OneAtWork /\ (Alone => OneWorker) /\ OnePricer

\* A step uses up one bound at the most.
SpendsOne == UNCHANGED spent \/ \E bound \in Bounds : Spend(bound)

\* What a step of w that takes no record does to who is at what.
WorkerMoves(w) ==
  /\ \A v \in Workers : pc'[v] # "idle" => pc[v] # "idle" /\ trade'[v] = trade[v]
  /\ returned \subseteq returned'
  /\ \A t \in Trades :
       turned'[t] # "none" => turned[t] # "none" \/ (pc[w] # "idle" /\ trade[w] = t)

\* To which it adds what it does to the portfolio hash and the snapshot of it.
HashMoves(w) ==
  /\ UNCHANGED <<pf, inPf>> \/ ApplyTotals(w) \/ SavePortfolio(w)
  /\ \A v \in Workers :
       pc'[v] = "pfsave" =>
         \/ pc[v] = "pfsave" /\ snap'[v] = snap[v]
         \/ v = w /\ \E lost \in SUBSET Fields : ReadPortfolio(w, lost)

\* Bounds are used up once and for all.
LEMMA SpendsAlone ==
  ASSUME UserInv, SpendsOne, Alone'
  PROVE  Alone
BY DEF SpendsOne, Spend, Alone, Bounds, UserInv, UserTypeOK, TypeOK

\* So it is with every call, and every failure.
LEMMA WorkerFrame ==
  ASSUME UserInv, NEW w \in Workers, Work(w) \/ Failure(w)
  PROVE  WorkerMoves(w) /\ HashMoves(w) /\ SpendsOne
<1> USE DEF WorkerMoves, HashMoves, SpendsOne, Goto, Continue, Bounds, UserInv, UserTypeOK,
            TypeOK
<1>1. CASE Check(w)
  BY <1>1 DEF Check, Fresh
<1>2. CASE MapUser(w)
  BY <1>2 DEF MapUser
<1>3. CASE ReadQuantity(w)
  BY <1>3 DEF ReadQuantity
<1>4. CASE CasApplied(w)
  BY <1>4 DEF CasApplied
<1>5. CASE CasConflict(w)
  BY <1>5 DEF CasConflict
<1>6. CASE CasOk(w)
  BY <1>6 DEF CasOk
<1>7. CASE SyncIndex(w)
  BY <1>7 DEF SyncIndex
<1>8. CASE ReadLegacy(w)
  BY <1>8 DEF ReadLegacy
<1>9. CASE ApplyTotals(w)
  <2>1. UNCHANGED <<turned, returned, trade, snap>>
        /\ Continue(w, "project") /\ pc[w] = "totals"
    BY <1>9 DEF ApplyTotals
  <2> QED
    BY <1>9, <2>1
<1>10. CASE Project(w)
  BY <1>10 DEF Project
<1>11. CASE ApplyUser(w)
  BY <1>11 DEF ApplyUser
<1>12. CASE MarkProcessed(w)
  BY <1>12 DEF MarkProcessed
<1>13. CASE \E lost \in SUBSET Fields : ReadPortfolio(w, lost)
  <2>1. PICK lost \in SUBSET Fields : ReadPortfolio(w, lost)
    BY <1>13
  <2>2. /\ UNCHANGED <<turned, returned, trade, pf, inPf>>
        /\ Misread(lost) /\ Goto(w, "pfsave") /\ pc[w] = "pfread"
        /\ \A v \in Workers \ {w} : snap'[v] = snap[v]
    BY <2>1 DEF ReadPortfolio
  <2>3. UNCHANGED spent \/ Spend("misreads")
    BY <2>2 DEF Misread
  <2> QED
    BY <1>13, <2>2, <2>3
<1>14. CASE \E lost \in SUBSET Fields : ReadUser(w, lost)
  BY <1>14 DEF ReadUser, Misread
<1>15. CASE SavePortfolio(w)
  BY <1>15 DEF SavePortfolio
<1>16. CASE SaveUser(w)
  BY <1>16 DEF SaveUser, Fresh
<1>17. CASE MapHalf(w)
  BY <1>17 DEF MapHalf
<1>18. CASE FindUser(w)
  BY <1>18 DEF FindUser
<1>19. CASE CallFails(w)
  BY <1>19 DEF CallFails
<1>20. CASE Crash(w)
  BY <1>20 DEF Crash, Fresh
<1> QED
  BY <1>1, <1>2, <1>3, <1>4, <1>5, <1>6, <1>7, <1>8, <1>9, <1>10, <1>11, <1>12, <1>13,
     <1>14, <1>15, <1>16, <1>17, <1>18, <1>19, <1>20 DEF Work, Compute, Failure

\* A worker at a record is alone with it, and with everything.
LEMMA TradeAlone ==
  ASSUME UserInv, HistoryTyped, LoneInv, ValuationNext, TradeStep, UNCHANGED pricerVars
  PROVE  LoneInv' /\ SpendsOne
<1>1. PICK w \in Workers : (\E t \in Trades : Take(w, t)) \/ Work(w) \/ Failure(w)
  BY DEF TradeStep, Work
<1>2. overlaps' = 0 => overlaps = 0
  BY DEF ValuationNext, HistoryTyped
<1>3. Kept' = Kept /\ Priced' = Priced /\ OnePricer'
  BY <1>2 DEF TradeStep, Kept, Priced, LoneInv, OnePricer, Twice
<1>4. ASSUME NEW t \in Trades, Take(w, t)
      PROVE  LoneInv' /\ SpendsOne
  <2>1. SpendsOne
    BY <1>4 DEF Take, SpendsOne, Bounds
  <2>2. /\ pc' = [pc EXCEPT ![w] = "check"] /\ trade' = [trade EXCEPT ![w] = t]
        /\ pc[w] = "idle" /\ UNCHANGED <<turned, returned>>
    BY <1>4 DEF Take, Goto
  <2>3. Handled' \subseteq Handled \cup {t}
    BY <2>2 DEF Handled, UserInv, UserTypeOK, TypeOK
  <2>4. Begins
    BY <2>2 DEF Begins, UserInv, UserTypeOK, TypeOK
  <2>5. OneAtWork'
    BY <1>3, <2>3, <2>4, BeginsAlone DEF OneAtWork, LoneInv, HistoryTyped
  <2>6. Alone' => OneWorker'
    <3> SUFFICES ASSUME Alone' PROVE OneWorker'
      OBVIOUS
    <3>1. Alone /\ OneWorker
      BY <2>1, SpendsAlone DEF LoneInv
    <3>2. ~Busy(t.part)
      BY <1>4, <3>1 DEF Take, Spend, Alone, Bounds, UserInv, UserTypeOK, TypeOK
    <3>3. \A v \in Workers : pc[v] # "idle" => trade[v] # t
      BY <3>2 DEF Busy
    <3> QED
      BY <2>2, <3>1, <3>3, NamesAssumption DEF OneWorker, UserInv, UserTypeOK, TypeOK
  <2> QED
    BY <1>3, <2>1, <2>5, <2>6 DEF LoneInv
<1>5. CASE Work(w) \/ Failure(w)
  <2>1. WorkerMoves(w) /\ SpendsOne
    BY <1>5, WorkerFrame
  <2>2. Handled' \subseteq Handled
    BY <2>1 DEF WorkerMoves, Handled
  <2>3. OneAtWork'
    BY <1>3, <1>2, <2>2 DEF LoneInv, OneAtWork, OneOf, AtMostOne
  <2>4. Alone' => OneWorker'
    <3> SUFFICES ASSUME Alone', NEW u \in Workers, NEW v \in Workers,
                        pc'[u] # "idle", trade'[u] = trade'[v]
                 PROVE  u = v
      BY DEF OneWorker
    <3>1. OneWorker
      BY <2>1, SpendsAlone DEF LoneInv
    <3>2. pc[u] # "idle" /\ trade'[u] = trade[u] /\ trade[u] # NoTrade
      BY <2>1 DEF WorkerMoves, UserInv, UserTypeOK, TypeOK
    <3>3. trade'[v] = trade[v] \/ trade'[v] = NoTrade
      BY <1>5 DEF Work, Compute, Failure, Check, MapUser, ReadQuantity, CasApplied,
         CasConflict, CasOk, ReadLegacy, ApplyTotals, Project, ApplyUser, MarkProcessed,
         ReadPortfolio, ReadUser, SaveUser, SyncIndex, SavePortfolio, MapHalf, FindUser,
         CallFails, Crash, UserInv, UserTypeOK, TypeOK
    <3> QED
      BY <3>1, <3>2, <3>3 DEF OneWorker
  <2> QED
    BY <1>3, <2>1, <2>3, <2>4 DEF LoneInv
<1> QED
  BY <1>1, <1>4, <1>5

\* What a step of k that takes no record does to who is at what.
KeeperMoves(k) ==
  /\ \A q \in Keepers : event'[q] = event[q] \/ event'[q] = NoEvent
  /\ counted' \subseteq counted \cup {event[k]}
  /\ done \subseteq done'

\* So it is with every call, and every failure.
LEMMA KeeperWorks ==
  ASSUME UserInv, NEW k \in Keepers, KeeperWork(k) \/ KeeperFails(k) \/ KeeperDies(k)
  PROVE  KeeperMoves(k) /\ SpendsOne
<1> USE DEF KeeperMoves, SpendsOne, Bounds, Saw, Misread, AndThen, UserInv, UserTypeOK
<1>1. CASE Look(k)
  BY <1>1 DEF Look
<1>2. CASE CountPending(k) \/ UncountPending(k)
  BY <1>2 DEF CountPending, UncountPending
<1>3. CASE \E lost \in SUBSET {"pv", "cvp"} : ReadTotals(k, lost)
  BY <1>3 DEF ReadTotals
<1>4. ASSUME NEW from, NEW to, ApplyEvent(k, from, to) PROVE KeeperMoves(k) /\ SpendsOne
  BY <1>4 DEF ApplyEvent
<1>5. CASE ClearPending(k)
  BY <1>5 DEF ClearPending
<1>6. CASE MapPortfolio(k)
  BY <1>6 DEF MapPortfolio, Pipeline
<1>7. CASE Unmap(k)
  BY <1>7 DEF Unmap, Pipeline
<1>8. CASE MarkDeleted(k)
  BY <1>8 DEF MarkDeleted
<1>9. CASE FindStocks(k)
  BY <1>9 DEF FindStocks
<1>10. CASE Wipe(k)
  BY <1>10 DEF Wipe
<1>11. CASE \E lost \in SUBSET Fields : ReadUserOf(k, lost)
  BY <1>11 DEF ReadUserOf
<1>12. CASE SaveUserOf(k)
  <2>1. counted' = counted /\ done \subseteq done' /\ SpendsOne
        /\ (event' = event \/ event' = [event EXCEPT ![k] = NoEvent])
    BY <1>12 DEF SaveUserOf, Leave
  <2> QED
    BY <2>1
<1>13. CASE KeeperFails(k)
  BY <1>13 DEF KeeperFails
<1>14. CASE KeeperDies(k)
  BY <1>14 DEF KeeperDies, Leave
<1> QED
  BY <1>1, <1>2, <1>3, <1>4, <1>5, <1>6, <1>7, <1>8, <1>9, <1>10, <1>11, <1>12, <1>13,
     <1>14 DEF KeeperWork

\* A keeper at a record is alone with it, and with everything.
LEMMA KeeperAlone ==
  ASSUME UserInv, HistoryTyped, LoneInv, ValuationNext, KeeperStep, UNCHANGED pricerVars
  PROVE  LoneInv' /\ SpendsOne
<1>1. /\ UNCHANGED <<turned, returned, pc, trade, work, cut>>
      /\ \/ \E k \in Keepers, e \in Events : TakeEvent(k, e)
         \/ \E k \in Keepers : KeeperWork(k) \/ KeeperFails(k) \/ KeeperDies(k)
         \/ \E e \in Events : Redeliver(e)
  BY DEF KeeperStep
<1>2. Handled' = Handled /\ Priced' = Priced
  BY <1>1 DEF Handled, Priced
<1>3. overlaps' = 0 => overlaps = 0
  BY DEF ValuationNext, HistoryTyped
<1>4. OneWorker' = OneWorker /\ (OnePricer => OnePricer')
  BY <1>1, <1>3 DEF OneWorker, OnePricer, Twice
<1>5. SUFFICES OneAtWork' /\ SpendsOne
  BY <1>4, SpendsAlone DEF LoneInv
<1>6. CASE \E k \in Keepers, e \in Events : TakeEvent(k, e)
  <2>1. PICK k \in Keepers, e \in Events : TakeEvent(k, e)
    BY <1>6
  <2>2. /\ event' = [event EXCEPT ![k] = e] /\ step' = [step EXCEPT ![k] = "look"]
        /\ step[k] = "idle" /\ UNCHANGED <<counted, done>> /\ SpendsOne
    BY <2>1 DEF TakeEvent, Enter, SpendsOne, Bounds
  <2>3. Kept' \subseteq Kept \cup {e.pf}
    BY <2>2 DEF Kept, UserInv, UserTypeOK
  <2>4. Begins
    BY <2>2 DEF Begins, UserInv, UserTypeOK
  <2> QED
    BY <1>2, <2>2, <2>3, <2>4, BeginsAlone DEF OneAtWork, LoneInv, HistoryTyped
<1>7. CASE \E k \in Keepers : KeeperWork(k) \/ KeeperFails(k) \/ KeeperDies(k)
  <2>1. PICK k \in Keepers : KeeperMoves(k) /\ SpendsOne
    BY <1>7, KeeperWorks
  <2>2. Kept' \subseteq Kept
    BY <2>1 DEF KeeperMoves, Kept
  <2> QED
    BY <1>2, <1>3, <2>1, <2>2 DEF LoneInv, OneAtWork, OneOf, AtMostOne
<1>8. CASE \E e \in Events : Redeliver(e)
  <2>1. PICK e \in Events : Redeliver(e)
    BY <1>8
  <2>2. /\ e \in done /\ UNCHANGED <<counted, event>> /\ SpendsOne
        /\ done' = {f \in done : f.pf # e.pf \/ Before(f, e)}
    BY <2>1 DEF Redeliver, SpendsOne, Bounds
  <2>3. Kept' \subseteq Kept \cup {e.pf}
    BY <2>2 DEF Kept
  <2>4. Begins
    BY <2>2 DEF Begins, Before
  <2> QED
    BY <1>2, <2>2, <2>3, <2>4, BeginsAlone DEF OneAtWork, LoneInv, HistoryTyped
<1> QED
  BY <1>1, <1>6, <1>7, <1>8

\* A step of r that begins no fan-out leaves it at its stock, or lets it go.
PricerMoves(r) ==
  /\ \A q \in Pricers \ {r} : work'[q] = work[q]
  /\ work'[r] # Idle => work[r] # Idle /\ work'[r].stock = work[r].stock
  /\ cut' \subseteq cut \/ (work[r] # Idle /\ cut' \subseteq cut \cup {work[r].stock})

\* So it is with every call of a fan-out, and its failure.
LEMMA PricerWorks ==
  ASSUME PricersTyped, NEW r \in Pricers, work[r] # Idle,
         \/ \E x \in work[r].todo :
              \/ Fetch(r, x) \/ Replace(r, x) \/ Show(r, x) \/ Save(r, x)
              \/ Members(r, x) \/ Total(r, x) \/ SaveUsers(r, x)
         \/ \E u \in Users, p \in Portfolios : Value(r, u, p)
         \/ CutShort(r)
  PROVE  PricerMoves(r) /\ SpendsOne
<1>1. Working(r)
  BY DEF PricersTyped, Working
<1>2. ASSUME NEW x, NEW phase, NEW commands, NEW plan, NEW reply,
             Advance(r, x, phase, commands, plan, reply)
      PROVE  PricerMoves(r)
  <2>1. cut' \subseteq cut
    BY <1>2 DEF Advance
  <2> QED
    BY <1>1, <1>2, <2>1, Advanced DEF PricerMoves
<1> DEFINE Moved == \E x, phase, commands, plan, reply :
                      Advance(r, x, phase, commands, plan, reply)
<1>3. ASSUME NEW x, Fetch(r, x) PROVE Moved /\ SpendsOne
  BY <1>3 DEF Fetch, Saw, SpendsOne, Bounds
<1>4. ASSUME NEW x, Replace(r, x) PROVE Moved /\ SpendsOne
  BY <1>4 DEF Replace, SpendsOne
<1>5. ASSUME NEW x, Show(r, x) PROVE Moved /\ SpendsOne
  BY <1>5 DEF Show, SpendsOne
<1>6. ASSUME NEW x, Save(r, x) PROVE Moved /\ SpendsOne
  BY <1>6 DEF Save, SpendsOne
<1>7. ASSUME NEW x, Members(r, x) PROVE Moved /\ SpendsOne
  BY <1>7 DEF Members, SpendsOne
<1>8. ASSUME NEW x, Total(r, x) PROVE Moved /\ SpendsOne
  BY <1>8 DEF Total, SpendsOne
<1>9. ASSUME NEW x, SaveUsers(r, x) PROVE Moved /\ SpendsOne
  BY <1>9 DEF SaveUsers, SpendsOne
<1>10. ASSUME NEW u, NEW p, Value(r, u, p) PROVE Moved /\ SpendsOne
  BY <1>10 DEF Value, SpendsOne
<1>11. CASE CutShort(r)
  BY <1>11 DEF CutShort, PricerMoves, PricersTyped, SpendsOne, Bounds
<1>12. CASE Moved /\ SpendsOne
  BY <1>2, <1>12
<1> HIDE DEF Moved
<1> QED
  BY <1>3, <1>4, <1>5, <1>6, <1>7, <1>8, <1>9, <1>10, <1>11, <1>12

\* A fan-out is alone at its stock, and with everything.
LEMMA PricerAlone ==
  ASSUME UserInv, PricersTyped, HistoryTyped, LoneInv, ValuationNext, PricerStep
  PROVE  LoneInv' /\ SpendsOne
<1>1. UNCHANGED recordVars
  BY DEF PricerStep
<1>2. Handled' = Handled /\ Kept' = Kept /\ OneWorker' = OneWorker
  BY <1>1 DEF Handled, Kept, OneWorker
<1>3. overlaps' = 0 => overlaps = 0
  BY DEF ValuationNext, HistoryTyped
<1>4. SUFFICES OneAtWork' /\ OnePricer' /\ SpendsOne
  BY <1>2, SpendsAlone DEF LoneInv
<1>5. PICK r \in Pricers :
        IF work[r] = Idle
          THEN \E s \in Stocks, price \in Prices : FindPortfolios(r, s, price)
          ELSE \/ \E x \in work[r].todo :
                    \/ Fetch(r, x) \/ Replace(r, x) \/ Show(r, x) \/ Save(r, x)
                    \/ Members(r, x) \/ Total(r, x) \/ SaveUsers(r, x)
               \/ \E u \in Users, p \in Portfolios : Value(r, u, p)
               \/ CutShort(r)
  BY DEF PricerStep
<1>6. ASSUME PricerMoves(r), SpendsOne PROVE OneAtWork' /\ OnePricer' /\ SpendsOne
  <2>1. Priced' \subseteq Priced
    BY <1>6 DEF PricerMoves, Priced
  <2> QED
    BY <1>2, <1>3, <1>6, <2>1
       DEF LoneInv, OneAtWork, OneOf, AtMostOne, OnePricer, Twice, PricerMoves
<1>7. ASSUME work[r] = Idle, NEW s \in Stocks, NEW price \in Prices,
             FindPortfolios(r, s, price)
      PROVE  OneAtWork' /\ OnePricer' /\ SpendsOne
  <2>1. /\ \A q \in Pricers \ {r} : work'[q] = work[q]
        /\ work'[r] # Idle => work'[r].stock = s
        /\ cut' \subseteq cut /\ SpendsOne
    BY <1>7 DEF FindPortfolios, PricersTyped, SpendsOne
  <2>2. OnePricer'
    BY <1>3 DEF LoneInv, OnePricer, ValuationNext, Overlap, HistoryTyped
  <2>3. CASE work'[r] = Idle
    <3>1. Priced' \subseteq Priced
      BY <2>1, <2>3 DEF Priced
    <3> QED
      BY <1>2, <1>3, <2>1, <2>2, <3>1 DEF LoneInv, OneAtWork, OneOf, AtMostOne
  <2>4. CASE work'[r] # Idle
    <3>1. Priced' \subseteq Priced \cup {s}
      BY <2>1, <2>4 DEF Priced
    <3>2. Begins
      BY <1>7, <2>4 DEF Begins
    <3> QED
      BY <1>2, <2>1, <2>2, <3>1, <3>2, BeginsAlone DEF OneAtWork, LoneInv, HistoryTyped
  <2> QED
    BY <2>3, <2>4
<1> QED
  BY <1>5, <1>6, <1>7, PricerWorks

\* At first nothing is at work,
LEMMA LoneInit == ValuationInit => LoneInv
BY DEF ValuationInit, UserInit, Init, LoneInv, OneAtWork, OneOf, AtMostOne, Handled, Kept,
       Priced, OneWorker, OnePricer, Twice

\* and after every step at most one is, but for an overlap.
LEMMA LoneStep == TypeInv /\ LoneInv /\ [ValuationNext]_allVars => LoneInv'
<1> SUFFICES ASSUME TypeInv, LoneInv, [ValuationNext]_allVars PROVE LoneInv'
  OBVIOUS
<1>1. CASE UNCHANGED allVars
  BY <1>1 DEF LoneInv, OneAtWork, Handled, Kept, Priced, OneWorker, OnePricer, Twice, Alone
<1>2. CASE ValuationNext
  BY <1>2, TradeAlone, KeeperAlone, PricerAlone DEF TypeInv, ValuationNext, UserNext
<1> QED
  BY <1>1, <1>2

----------------------------------------------------------------------------
(* A portfolio's purchased value is that of its trades *)

purchaseds == [p \in Portfolios |-> pf[p].pv]

Purchased == \A p \in Portfolios : purchaseds[p] = Sum(inPf \cap TradesOf(p))

\* What a worker is about to write back is what there is.
Snapped ==
  \A w \in Workers : pc[w] = "pfsave" => snap[w].pv = purchaseds[trade[w].pf]

\* What fan-out x was answered by the script, and is about to write back, is
\* what there is.
AnswersOf(x, values) ==
  /\ x.at \in {"replace", "show", "save"} => \A a \in x.reply : a.pv = values[a.pf]
  /\ x.at = "save" => \A a \in x.todo : a.pv = values[a.pf]

Answered == \A r \in Pricers : work[r] # Idle => AnswersOf(work[r], purchaseds)

PurchasedInv ==
  IsFiniteSet(inPf) /\ (Orderly => Purchased /\ Snapped /\ Answered)

\* Of the bounds that Orderly names none is ever given back.
LEMMA OrderlyBefore ==
  ASSUME UserInv, HistoryTyped, ValuationNext, SpendsOne, Orderly'
  PROVE  Orderly
<1>1. overlaps = 0
  BY DEF ValuationNext, HistoryTyped, Orderly
<1>2. Alone
  BY SpendsAlone DEF Orderly
<1> QED
  BY <1>1, <1>2 DEF Orderly

\* Without an overlap, a worker with a trade is the only one, and no price fans out.
LEMMA OnlyWorker ==
  ASSUME TypeInv, LoneInv, Orderly, NEW w \in Workers, pc[w] # "idle"
  PROVE  /\ \A v \in Workers \ {w} : pc[v] = "idle"
         /\ \A r \in Pricers : work[r] = Idle
<1>1. OneOf(Handled, Kept, Priced) /\ OneWorker
  BY DEF LoneInv, OneAtWork, Orderly
<1>2. trade[w] \in Handled
  BY DEF Handled
<1>3. \A v \in Workers : pc[v] # "idle" => trade[v] = trade[w]
  BY <1>1, <1>2 DEF OneOf, AtMostOne, Handled
<1>4. Priced = {}
  BY <1>1, <1>2 DEF OneOf
<1> QED
  BY <1>1, <1>3, <1>4 DEF OneWorker, Priced

\* A trade that is counted is added to the purchased value.
LEMMA PurchasedAdd ==
  ASSUME TypeInv, PurchasedInv, Purchased, NEW w \in Workers, ApplyTotals(w)
  PROVE  Purchased' /\ IsFiniteSet(inPf')
<1>0. PICK t : t = trade[w]
  OBVIOUS
<1>1. t \in Trades /\ t.pf \in Portfolios /\ Amount(t) \in Int
  BY <1>0, TradeParts, AmountType
     DEF ApplyTotals, TypeInv, UserInv, UserTypeOK, TypeOK
<1>2. CASE t \in inPf
  BY <1>0, <1>2 DEF ApplyTotals, Purchased, purchaseds, PurchasedInv
<1>3. CASE t \notin inPf
  <2>1. /\ inPf' = inPf \cup {t}
        /\ pf' = [pf EXCEPT ![t.pf] = PlusTrade(pf[t.pf], Amount(t), AssetChange(t, turn[w]))]
    BY <1>0, <1>3 DEF ApplyTotals
  <2>2. IsFiniteSet(inPf')
    BY <2>1, FS_AddElement DEF PurchasedInv
  <2>3. ASSUME NEW p \in Portfolios
        PROVE  purchaseds'[p] = Sum(inPf' \cap TradesOf(p))
    <3> DEFINE S == inPf \cap TradesOf(p)
               f == [u \in Trades |-> Amount(u)]
    <3>1. IsFiniteSet(S)
      BY FS_Subset DEF PurchasedInv
    <3>2. purchaseds[p] = SumFunctionOnSet(f, S)
      BY DEF Purchased, Sum
    <3>3. CASE p # t.pf
      <4>1. inPf' \cap TradesOf(p) = S
        BY <2>1, <3>3 DEF TradesOf
      <4>2. purchaseds'[p] = purchaseds[p]
        BY <1>1, <2>1, <3>3 DEF purchaseds, TypeInv, UserInv, UserTypeOK, TypeOK
      <4> QED
        BY <3>2, <4>1, <4>2 DEF Sum
    <3>4. CASE p = t.pf
      <4>1. inPf' \cap TradesOf(p) = S \cup {t} /\ t \notin S
        BY <1>1, <1>3, <2>1, <3>4 DEF TradesOf
      <4>2. purchaseds'[p] = purchaseds[p] + Amount(t)
        BY <1>1, <2>1, <3>4 DEF purchaseds, PlusTrade, TypeInv, UserInv, UserTypeOK, TypeOK
      <4>3. \A u \in S \cup {t} : f[u] \in Int
        BY <1>1, AmountType DEF TradesOf
      <4>4. f[t] = Amount(t)
        BY <1>1
      <4> HIDE DEF S, f
      <4>5. SumFunctionOnSet(f, S \cup {t}) = SumFunctionOnSet(f, S) + f[t]
        BY <3>1, <4>1, <4>3, SumAdd
      <4> QED
        BY <3>2, <4>1, <4>2, <4>4, <4>5 DEF Sum, f
    <3> QED
      BY <3>3, <3>4
  <2> QED
    BY <2>2, <2>3 DEF Purchased
<1> QED
  BY <1>2, <1>3

\* What a worker does to the purchased values.
LEMMA TradePurchased ==
  ASSUME TypeInv, LoneInv, PurchasedInv, ValuationNext, TradeStep, UNCHANGED pricerVars
  PROVE  PurchasedInv'
<1>1. PICK w \in Workers : (\E t \in Trades : Take(w, t)) \/ Work(w) \/ Failure(w)
  BY DEF TradeStep, Work
<1>2. SpendsOne
  BY TradeAlone DEF TypeInv
<1>3. Orderly' => Orderly
  BY <1>2, OrderlyBefore DEF TypeInv
<1>4. ASSUME purchaseds' = purchaseds, inPf' = inPf, Orderly' => Snapped'
      PROVE  PurchasedInv'
  BY <1>3, <1>4 DEF PurchasedInv, Purchased, Answered
<1>5. ASSUME NEW t \in Trades, Take(w, t) PROVE PurchasedInv'
  <2>1. UNCHANGED <<pf, inPf, snap>> /\ pc' = [pc EXCEPT ![w] = "check"]
        /\ trade' = [trade EXCEPT ![w] = t]
    BY <1>5 DEF Take, Goto
  <2>2. purchaseds' = purchaseds
    BY <2>1 DEF purchaseds
  <2>3. Orderly' => Snapped'
    BY <1>3, <2>1, <2>2 DEF PurchasedInv, Snapped, TypeInv, UserInv, UserTypeOK, TypeOK
  <2> QED
    BY <1>4, <2>1, <2>2, <2>3
<1>6. CASE Work(w) \/ Failure(w)
  <2>1. WorkerMoves(w) /\ HashMoves(w)
    BY <1>6, WorkerFrame DEF TypeInv
  <2>2. ASSUME Orderly', purchaseds' = purchaseds, NEW v \in Workers, pc'[v] = "pfsave"
        PROVE  snap'[v].pv = purchaseds'[trade'[v].pf]
    <3>1. trade'[v] = trade[v]
      BY <2>1, <2>2 DEF WorkerMoves
    <3>2. CASE pc[v] = "pfsave" /\ snap'[v] = snap[v]
      BY <1>3, <2>2, <3>1, <3>2 DEF PurchasedInv, Snapped
    <3>3. CASE v = w /\ \E lost \in SUBSET Fields : ReadPortfolio(w, lost)
      <4>1. PICK lost \in SUBSET Fields : ReadPortfolio(v, lost)
        BY <3>3
      <4>2. lost = {}
        BY <1>3, <2>2, <4>1 DEF ReadPortfolio, Misread, Spend, Orderly, Alone, Bounds, TypeInv,
           UserInv, UserTypeOK, TypeOK
      <4>3. trade[v].pf \in Portfolios
        BY <4>1, TradeParts DEF ReadPortfolio, TypeInv, UserInv, UserTypeOK, TypeOK
      <4>4. snap'[v].pv = pf[trade[v].pf].pv
        BY <4>1, <4>2 DEF ReadPortfolio, Reading, TypeInv, UserInv, UserTypeOK, TypeOK
      <4> QED
        BY <2>2, <3>1, <4>3, <4>4 DEF purchaseds
    <3> QED
      BY <2>1, <2>2, <3>2, <3>3 DEF HashMoves
  <2>3. CASE UNCHANGED <<pf, inPf>>
    <3>1. purchaseds' = purchaseds
      BY <2>3 DEF purchaseds
    <3> QED
      BY <1>4, <2>2, <2>3, <3>1 DEF Snapped
  <2>4. CASE SavePortfolio(w)
    <3>1. inPf' = inPf
      BY <2>4 DEF SavePortfolio
    <3>2. CASE Orderly'
      <4>1. snap[w].pv = purchaseds[trade[w].pf] /\ trade[w].pf \in Portfolios
        BY <1>3, <2>4, <3>2, TradeParts
           DEF SavePortfolio, PurchasedInv, Snapped, TypeInv, UserInv, UserTypeOK, TypeOK
      <4>2. \A p \in Portfolios : pf'[p].pv = pf[p].pv
        BY <2>4, <4>1 DEF SavePortfolio, purchaseds, TypeInv, UserInv, UserTypeOK, TypeOK
      <4>3. purchaseds' = purchaseds
        BY <4>2 DEF purchaseds
      <4> QED
        BY <1>4, <2>2, <3>1, <4>3 DEF Snapped
    <3> QED
      BY <3>1, <3>2 DEF PurchasedInv
  <2>5. CASE ApplyTotals(w)
    <3>1. pc[w] = "totals" /\ pc'[w] # "pfsave" /\ work' = work
      BY <2>5 DEF ApplyTotals, Continue, Goto, TypeInv, UserInv, UserTypeOK, TypeOK
    <3>2. CASE Orderly'
      <4>1. /\ \A v \in Workers \ {w} : pc[v] = "idle"
            /\ \A r \in Pricers : work[r] = Idle
        BY <1>3, <3>1, <3>2, OnlyWorker
      <4>2. Snapped' /\ Answered'
        BY <2>1, <3>1, <4>1 DEF WorkerMoves, Snapped, Answered
      <4>3. Purchased' /\ IsFiniteSet(inPf')
        BY <1>3, <2>5, <3>2, PurchasedAdd DEF PurchasedInv
      <4> QED
        BY <4>2, <4>3 DEF PurchasedInv
    <3>3. CASE ~Orderly'
      <4>1. inPf' = inPf \/ \E t : inPf' = inPf \cup {t}
        BY <2>5 DEF ApplyTotals
      <4> QED
        BY <3>3, <4>1, FS_AddElement DEF PurchasedInv
    <3> QED
      BY <3>2, <3>3
  <2> QED
    BY <2>1, <2>3, <2>4, <2>5 DEF HashMoves
<1> QED
  BY <1>1, <1>5, <1>6

\* The script's answers, and what is saved of them, are what there is.
LEMMA AnsweredStep ==
  ASSUME TypeInv, PurchasedInv, Orderly, NEW r \in Pricers, work[r] # Idle,
         purchaseds' = purchaseds,
         \/ \E x \in work[r].todo :
              \/ Fetch(r, x) \/ Replace(r, x) \/ Show(r, x) \/ Save(r, x)
              \/ Members(r, x) \/ Total(r, x) \/ SaveUsers(r, x)
         \/ \E u \in Users, p \in Portfolios : Value(r, u, p)
         \/ CutShort(r)
  PROVE  Answered'
<1>1. PricersTyped /\ Working(r)
  BY DEF TypeInv, PricersTyped, Working
<1>2. AnswersOf(work[r], purchaseds)
  BY DEF PurchasedInv, Answered
<1>3. SUFFICES ASSUME (\A q \in Pricers \ {r} : work'[q] = work[q])
                        => work'[r] # Idle /\ ~AnswersOf(work'[r], purchaseds)
               PROVE  FALSE
  BY DEF PurchasedInv, Answered
<1>4. ASSUME NEW x, NEW phase, NEW commands, NEW plan, NEW reply,
             Advance(r, x, phase, commands, plan, reply),
             phase \in {"replace", "show", "save"} =>
               \A a \in reply : a.pv = purchaseds[a.pf],
             phase = "save" => \A a \in commands : a.pv = purchaseds[a.pf],
             work[r].at \in {"replace", "show", "save"} =>
               \A a \in reply : a.pv = purchaseds[a.pf]
      PROVE  FALSE
  BY <1>1, <1>2, <1>3, <1>4, Advanced DEF AnswersOf
<1>5. ASSUME NEW x, Fetch(r, x) PROVE FALSE
  <2>1. work[r].at = "fetch" /\ \E plan : Advance(r, x, "replace", plan, plan, {})
    BY <1>5 DEF Fetch, Sends
  <2> QED
    BY <1>4, <2>1
<1>6. ASSUME NEW i, Replace(r, i) PROVE FALSE
  <2> DEFINE h == <<i.pf, work[r].stock>>
             hash == [pf[i.pf] EXCEPT !.cvp = pf[i.pf].cvp + i.new - Previous(h, i)]
             reply == work[r].reply \cup {Answer(i.pf, hash)}
  <2>1. work[r].at = "replace" /\ i \in work[r].todo
        /\ Advance(r, i, "show", work[r].plan, work[r].plan, reply)
    BY <1>6 DEF Replace, Sends
  <2>2. i.pf \in Portfolios
    BY <1>1, <2>1 DEF Working, JobTyped, Plan
  <2>3. hash.pv = pf[i.pf].pv
    BY <2>2 DEF TypeInv, UserInv, UserTypeOK, TypeOK
  <2>4. \A a \in reply : a.pv = purchaseds[a.pf]
    <3>1. Answer(i.pf, hash).pv = purchaseds[Answer(i.pf, hash).pf]
      BY <2>2, <2>3 DEF Answer, purchaseds
    <3> QED
      BY <1>2, <2>1, <3>1 DEF AnswersOf
  <2> HIDE DEF reply
  <2> QED
    BY <1>4, <2>1, <2>4
<1>7. ASSUME NEW i, Show(r, i) PROVE FALSE
  <2>1. work[r].at = "show" /\ Advance(r, i, "save", work[r].reply, work[r].plan, work[r].reply)
    BY <1>7 DEF Show, Sends
  <2> QED
    BY <1>2, <1>4, <2>1 DEF AnswersOf
<1>8. ASSUME NEW b, Save(r, b) PROVE FALSE
  <2>1. work[r].at = "save"
        /\ \E users, reply : /\ Advance(r, b, "members", users, {}, reply)
                             /\ reply \in {{}, work[r].reply}
    BY <1>8 DEF Save, Sends
  <2> QED
    BY <1>2, <1>4, <2>1 DEF AnswersOf
<1>9. ASSUME NEW u, Members(r, u) PROVE FALSE
  <2> DEFINE plan == work[r].plan \cup ({u} \X members[u])
             totals == work[r].reply \cup {[user |-> u, total |-> 0]}
  <2>1. /\ work[r].at = "members"
        /\ \/ Advance(r, u, "total", totals, plan, totals)
           \/ Advance(r, u, "values", plan, plan, totals)
    BY <1>9 DEF Members, Sends
  <2> HIDE DEF plan, totals
  <2> QED
    BY <1>4, <2>1
<1>10. ASSUME NEW u, NEW p, Value(r, u, p) PROVE FALSE
  <2>1. work[r].at = "values" /\ \E x, totals : Advance(r, x, "total", totals, {}, totals)
    BY <1>10 DEF Value, Sends
  <2> QED
    BY <1>4, <2>1
<1>11. ASSUME NEW a, Total(r, a) PROVE FALSE
  <2>1. work[r].at = "total" /\ \E answers : Advance(r, a, "users", answers, answers, {})
    BY <1>11 DEF Total, Sends
  <2> QED
    BY <1>4, <2>1
<1>12. ASSUME NEW a, SaveUsers(r, a) PROVE FALSE
  <2>1. work[r].at = "users" /\ Advance(r, a, "idle", {}, {}, {})
    BY <1>12 DEF SaveUsers, Sends
  <2> QED
    BY <1>4, <2>1
<1>13. ASSUME CutShort(r) PROVE FALSE
  BY <1>1, <1>3, <1>13 DEF CutShort, PricersTyped
<1> QED
  BY <1>5, <1>6, <1>7, <1>8, <1>9, <1>10, <1>11, <1>12, <1>13

\* What a pricer does to the purchased values.
LEMMA PricerPurchased ==
  ASSUME TypeInv, LoneInv, PurchasedInv, ValuationNext, PricerStep
  PROVE  PurchasedInv'
<1>1. UNCHANGED recordVars /\ SpendsOne
  BY PricerAlone DEF TypeInv, PricerStep
<1>2. inPf' = inPf /\ UNCHANGED <<pc, trade, snap>>
  BY <1>1
<1>3. SUFFICES ASSUME Orderly' PROVE Purchased' /\ Snapped' /\ Answered'
  BY <1>2 DEF PurchasedInv
<1>4. Orderly
  BY <1>1, <1>3, OrderlyBefore DEF TypeInv
<1>5. PICK r \in Pricers :
        IF work[r] = Idle
          THEN \E s \in Stocks, price \in Prices : FindPortfolios(r, s, price)
          ELSE \/ \E x \in work[r].todo :
                    \/ Fetch(r, x) \/ Replace(r, x) \/ Show(r, x) \/ Save(r, x)
                    \/ Members(r, x) \/ Total(r, x) \/ SaveUsers(r, x)
               \/ \E u \in Users, p \in Portfolios : Value(r, u, p)
               \/ CutShort(r)
  BY DEF PricerStep
<1>6. purchaseds' = purchaseds
  <2>1. CASE UNCHANGED pf
    BY <2>1 DEF purchaseds
  <2>2. ASSUME NEW i, Replace(r, i) PROVE purchaseds' = purchaseds
    <3>1. \A p \in Portfolios : pf'[p].pv = pf[p].pv
      BY <2>2 DEF Replace, TypeInv, UserInv, UserTypeOK, TypeOK
    <3> QED
      BY <3>1 DEF purchaseds
  <2>3. ASSUME NEW a, Save(r, a), work[r] # Idle PROVE purchaseds' = purchaseds
    <3>1. a.pf \in Portfolios => a.pv = pf[a.pf].pv
      BY <1>4, <2>3 DEF Save, Sends, PurchasedInv, Answered, AnswersOf, purchaseds
    <3>2. \A p \in Portfolios : pf'[p].pv = pf[p].pv
      BY <2>3, <3>1 DEF Save, TypeInv, UserInv, UserTypeOK, TypeOK
    <3> QED
      BY <3>2 DEF purchaseds
  <2>4. UNCHANGED pf \/ \E x : Replace(r, x) \/ (Save(r, x) /\ work[r] # Idle)
    BY <1>5 DEF FindPortfolios, Fetch, Show, Members, Value, Total, SaveUsers, CutShort
  <2> QED
    BY <2>1, <2>2, <2>3, <2>4
<1>7. Purchased' /\ Snapped'
  BY <1>2, <1>4, <1>6 DEF PurchasedInv, Purchased, Snapped
<1>8. Answered'
  <2>1. CASE work[r] = Idle
    <3>1. /\ \A q \in Pricers \ {r} : work'[q] = work[q]
          /\ work'[r] = Idle \/ work'[r].at = "fetch"
      BY <1>5, <2>1 DEF FindPortfolios, TypeInv, PricersTyped
    <3> QED
      BY <1>4, <1>6, <3>1 DEF PurchasedInv, Answered, AnswersOf
  <2>2. CASE work[r] # Idle
    BY <1>4, <1>5, <1>6, <2>2, AnsweredStep
  <2> QED
    BY <2>1, <2>2
<1> QED
  BY <1>7, <1>8

\* A keeper does nothing to them.
LEMMA KeeperPurchased ==
  ASSUME TypeInv, LoneInv, PurchasedInv, ValuationNext, KeeperStep, UNCHANGED pricerVars
  PROVE  PurchasedInv'
<1>1. UNCHANGED <<pf, inPf, pc, trade, snap, work>>
  BY DEF KeeperStep
<1>2. purchaseds' = purchaseds
  BY <1>1 DEF purchaseds
<1>3. Orderly' => Orderly
  BY KeeperAlone, OrderlyBefore DEF TypeInv
<1> QED
  BY <1>1, <1>2, <1>3 DEF PurchasedInv, Purchased, Snapped, Answered

\* At first nothing is purchased,
LEMMA PurchasedInit == ValuationInit => PurchasedInv
<1> SUFFICES ASSUME ValuationInit PROVE PurchasedInv
  OBVIOUS
<1>1. inPf = {} /\ IsFiniteSet(inPf) /\ Snapped /\ Answered
  BY FS_EmptySet DEF ValuationInit, UserInit, Init, Snapped, Answered
<1>2. ASSUME NEW p \in Portfolios PROVE purchaseds[p] = Sum(inPf \cap TradesOf(p))
  <2>1. Sum({}) = 0
    BY SumEmpty DEF Sum
  <2>2. inPf \cap TradesOf(p) = {}
    BY <1>1
  <2> QED
    BY <2>1, <2>2 DEF ValuationInit, UserInit, Init, purchaseds
<1> QED
  BY <1>1, <1>2 DEF PurchasedInv, Purchased

\* and every step keeps to what the trades add up to.
LEMMA PurchasedStep ==
  TypeInv /\ LoneInv /\ PurchasedInv /\ [ValuationNext]_allVars => PurchasedInv'
<1> SUFFICES ASSUME TypeInv, LoneInv, PurchasedInv, [ValuationNext]_allVars
             PROVE  PurchasedInv'
  OBVIOUS
<1>1. CASE UNCHANGED allVars
  BY <1>1 DEF PurchasedInv, Orderly, Alone, Purchased, Snapped, Answered, purchaseds
<1>2. CASE ValuationNext
  BY <1>2, TradePurchased, KeeperPurchased, PricerPurchased DEF ValuationNext, UserNext
<1> QED
  BY <1>1, <1>2

\* While nothing is handled at the same time and no read error is dropped, at
\* most one record or price is at work: it fails and comes again alone.
THEOREM OneAtATime == ValuationSpec => [](Orderly => OneOf(Handled, Kept, Priced))
<1>1. TypeInv /\ LoneInv /\ [ValuationNext]_allVars => (TypeInv /\ LoneInv)'
  BY TypeStep, LoneStep
<1>2. ValuationInit => TypeInv /\ LoneInv
  BY TypeInit, LoneInit
<1>3. LoneInv => (Orderly => OneOf(Handled, Kept, Priced))
  BY DEF LoneInv, OneAtWork, Orderly
<1> QED
  BY <1>1, <1>2, <1>3, PTL DEF ValuationSpec

\* Then a portfolio's purchased value is that of its trades, each of them once,
\* though snapshots and fan-outs write back what they read of it before.
THEOREM PurchasesCountOnce == ValuationSpec => []PurchasedOnce
<1> DEFINE I == TypeInv /\ LoneInv /\ PurchasedInv
<1>1. I /\ [ValuationNext]_allVars => I'
  BY TypeStep, LoneStep, PurchasedStep
<1>2. ValuationInit => I
  BY TypeInit, LoneInit, PurchasedInit
<1>3. I => PurchasedOnce
  BY DEF PurchasedInv, Purchased, purchaseds, PurchasedOnce
<1> HIDE DEF I
<1> QED
  BY <1>1, <1>2, <1>3, PTL DEF ValuationSpec

----------------------------------------------------------------------------
(* A deletion leaves nothing *)

Listed(h) == h[2] \in listed[h[1]]

Clean(h) == quantity[h] = 0 /\ scv[h] = Missing /\ shown[h] = 0 /\ h \notin indexed

\* Trades that were begun and are not through.
Underway == inHolding \ processed

\* What is not listed has left nothing, but for what a trade is changing.
Tidy == \A h \in Holdings : Listed(h) \/ Clean(h) \/ \E t \in Underway : Holding(t) = h

\* A holding that is empty under a trade was sold out by it.
SoldOut(t) ==
  t \in Underway /\ quantity[Holding(t)] = 0 =>
    /\ t.type = "SELL" /\ turned[t] = "yes"
    /\ t \in inPf => scv[Holding(t)] = Missing

\* The index and the list go by the quantity.
Synced(h) == Listed(h) \/ (quantity[h] = 0 /\ h \notin indexed)

\* The phases up to the mark.
TradePhases ==
  {"map", "enroll", "read", "cas", "index", "legacy", "totals", "project", "user", "mark"}

SyncedPhases == {"legacy", "totals", "project", "user", "mark"}

\* How far w has come with t.
Handling(w, t) ==
  /\ pc[w] \in TradePhases => t \notin processed
  /\ pc[w] \in {"index", "legacy", "totals"} => (turned[t] = "yes" => turn[w])
  /\ pc[w] = "index" => seen[w] = quantity[Holding(t)]
  /\ pc[w] \in SyncedPhases => Synced(Holding(t))
  /\ pc[w] = "project" /\ quantity[Holding(t)] = 0 => base[w] = 0
  /\ pc[w] \in {"user", "mark"} => Listed(Holding(t)) \/ Clean(Holding(t))

\* What is finished was marked.
Marked ==
  /\ returned \subseteq processed
  /\ \A w \in Workers :
       pc[w] \in {"pfread", "pfsave", "usrread", "usrsave"} => trade[w] \in processed

Unmapped(e) == owner[e.pf] = Nobody /\ e.pf \notin pending /\ e.pf \notin members[e.user]

Gone(e) == Unmapped(e) /\ e.pf \in deleted /\ listed[e.pf] = {}

\* The records before e on its partition are done.
InTurn(e) == \A f \in Events : Before(f, e) => f \in done

\* How far k has come with e.
Keeping(k, e) ==
  /\ e \notin done /\ InTurn(e)
  /\ step[k] \in {"count", "add", "clear", "map"} => e.type = "CREATED"
  /\ step[k] \in {"delete", "stocks", "wipe"} => Unmapped(e)
  /\ step[k] \in {"stocks", "wipe"} => e.pf \in deleted
  /\ step[k] = "wipe" => found[k] = listed[e.pf]
  /\ step[k] \in {"usrread", "usrsave"} /\ e.type = "DELETED" => Gone(e)

\* Two keepers at a portfolio are one, unless an expelled one went on.
OneKeeper ==
  \A j, k \in Keepers :
    event[j] # NoEvent /\ event[k] # NoEvent /\ event[j].pf = event[k].pf => j = k

\* Whatever a fan-out has in hand is of portfolios that list its stock.
ListedOf(x, lists) ==
  /\ x.at \in {"fetch", "replace", "show"} => \A i \in x.plan : x.stock \in lists[i.pf]
  /\ x.at \in {"replace", "show"} => \A i \in x.todo : x.stock \in lists[i.pf]
  /\ x.at \in {"replace", "show", "save"} => \A a \in x.reply : x.stock \in lists[a.pf]
  /\ x.at = "save" => \A a \in x.todo : x.stock \in lists[a.pf]

AtTrade == \A w \in Workers : pc[w] # "idle" => Handling(w, trade[w])

AtEvent == \A k \in Keepers : event[k] # NoEvent => Keeping(k, event[k])

AtPrice == \A r \in Pricers : work[r] # Idle => ListedOf(work[r], listed)

DoneDeleted == \A e \in done : e.type = "DELETED" => Gone(e) /\ InTurn(e)

Deleting ==
  /\ ~TooLate /\ Tidy /\ \A t \in Trades : SoldOut(t)
  /\ AtTrade /\ AtEvent /\ AtPrice /\ DoneDeleted

DeletionInv ==
  /\ Marked
  /\ Alone => OneKeeper
  /\ Orderly /\ Cluster = FALSE => Deleting

\* A trade handled too late is an overlap.
LEMMA InTime ==
  ASSUME HistoryTyped, ValuationNext, Orderly', ~TooLate
  PROVE  ~TooLate'
BY DEF ValuationNext, Overlap, HistoryTyped, Orderly

\* A trade under way has the only worker, or none.
LEMMA UnderwayHandled ==
  ASSUME TypeInv, Marked
  PROVE  Underway \subseteq Handled
BY DEF Underway, inHolding, Handled, Marked

\* With a trade at work, nothing else is.
LEMMA TradeAtWork ==
  ASSUME TypeInv, LoneInv, Marked, Orderly, NEW w \in Workers, pc[w] # "idle"
  PROVE  /\ trade[w] \in Trades
         /\ \A v \in Workers \ {w} : pc[v] = "idle"
         /\ \A r \in Pricers : work[r] = Idle
         /\ \A k \in Keepers : event[k] = NoEvent
         /\ \A u \in Underway : u = trade[w]
<1>1. trade[w] \in Trades
  BY DEF TypeInv, UserInv, UserTypeOK, TypeOK
<1>2. trade[w] \in Handled /\ OneOf(Handled, Kept, Priced)
  BY DEF Handled, LoneInv, OneAtWork, Orderly
<1>3. Kept = {} /\ \A u \in Underway : u = trade[w]
  BY <1>2, UnderwayHandled DEF OneOf, AtMostOne
<1>4. \A k \in Keepers : event[k] = NoEvent
  BY <1>3 DEF Kept
<1> QED
  BY <1>1, <1>3, <1>4, OnlyWorker

\* With a portfolio-user record at work, nothing else is.
LEMMA KeeperAtWork ==
  ASSUME TypeInv, LoneInv, Marked, OneKeeper, Orderly, NEW k \in Keepers,
         event[k] # NoEvent
  PROVE  /\ \A w \in Workers : pc[w] = "idle"
         /\ \A r \in Pricers : work[r] = Idle
         /\ \A j \in Keepers \ {k} : event[j] = NoEvent
         /\ Underway = {}
<1>1. event[k].pf \in Kept /\ OneOf(Handled, Kept, Priced)
  BY DEF Kept, LoneInv, OneAtWork, Orderly
<1>2. Handled = {} /\ Priced = {} /\ \A x \in Kept : x = event[k].pf
  BY <1>1 DEF OneOf, AtMostOne
<1>3. \A j \in Keepers : event[j] # NoEvent => event[j].pf \in Kept
  BY DEF Kept
<1>4. \A w \in Workers : pc[w] = "idle"
  BY <1>2 DEF Handled
<1>5. \A r \in Pricers : work[r] = Idle
  BY <1>2 DEF Priced
<1> QED
  BY <1>2, <1>3, <1>4, <1>5, UnderwayHandled DEF OneKeeper

\* With a fan-out at work, nothing else is.
LEMMA PricerAtWork ==
  ASSUME TypeInv, LoneInv, Marked, Orderly, NEW r \in Pricers, work[r] # Idle
  PROVE  /\ \A w \in Workers : pc[w] = "idle"
         /\ \A k \in Keepers : event[k] = NoEvent
         /\ Underway = {}
<1>1. work[r].stock \in Priced /\ OneOf(Handled, Kept, Priced)
  BY DEF Priced, LoneInv, OneAtWork, Orderly
<1>2. Handled = {} /\ Kept = {}
  BY <1>1 DEF OneOf
<1>3. \A w \in Workers : pc[w] = "idle"
  BY <1>2 DEF Handled
<1>4. \A k \in Keepers : event[k] = NoEvent
  BY <1>2 DEF Kept
<1> QED
  BY <1>2, <1>3, <1>4, UnderwayHandled

----------------------------------------------------------------------------
(* A trade tidies its holding *)

\* The second index follows the first.
SyncList(w) ==
  /\ SyncIndex(w)
  /\ listed' = [listed EXCEPT ![trade[w].pf] =
                  IF seen[w] > 0 THEN listed[trade[w].pf] \cup {trade[w].stock}
                  ELSE listed[trade[w].pf] \ {trade[w].stock}]
  /\ UNCHANGED deleted

\* A call of w, with what it does to the second index and to `del`.
TradeCall(w) ==
  \/ (Compute(w) \/ Failure(w)) /\ UNCHANGED <<listed, deleted>>
  \/ SyncList(w)
  \/ SavePortfolio(w) /\ deleted' = deleted \ {trade[w].pf} /\ UNCHANGED listed

\* The index is made to follow the quantity.
LEMMA SyncDone ==
  ASSUME TypeInv, NEW w \in Workers, NEW t \in Trades, t = trade[w], Handling(w, t),
         SyncList(w)
  PROVE  Handling(w, t)'
<1>1. /\ pc[w] = "index" /\ UNCHANGED <<quantity, turned, scv, shown, turn, inPf, processed>>
      /\ pc'[w] \in {"legacy", "check"}
  BY DEF SyncList, SyncIndex, Continue, Goto, TypeInv, UserInv, UserTypeOK, TypeOK
<1>2. seen[w] = quantity[Holding(t)] /\ quantity[Holding(t)] \in Nat
  BY <1>1, HoldingType DEF Handling, TypeInv, UserInv, UserTypeOK, TypeOK
<1>3. Synced(Holding(t))'
  <2>1. t.pf \in Portfolios /\ Holding(t) = <<t.pf, t.stock>>
    BY TradeParts DEF Holding
  <2>2. CASE seen[w] > 0
    BY <2>1, <2>2 DEF SyncList, Synced, Listed, TypeInv, UserInv, UserTypeOK
  <2>3. CASE ~(seen[w] > 0)
    <3>1. indexed' = indexed \ {Holding(t)}
      BY <2>3 DEF SyncList, SyncIndex
    <3> QED
      BY <1>1, <1>2, <2>3, <3>1 DEF Synced
  <2> QED
    BY <2>2, <2>3
<1> QED
  BY <1>1, <1>3 DEF Handling, TradePhases, SyncedPhases

\* The calls that change none of what Handling is about but the worker's own.
LEMMA QuietCall ==
  ASSUME TypeInv, Marked, NEW w \in Workers, NEW t \in Trades, t = trade[w], Handling(w, t),
         UNCHANGED <<listed, deleted>>,
         \/ Check(w) \/ MapUser(w) \/ ReadQuantity(w) \/ CasApplied(w) \/ CasConflict(w)
         \/ ReadLegacy(w) \/ ApplyUser(w) \/ SaveUser(w) \/ MapHalf(w) \/ FindUser(w)
         \/ CallFails(w) \/ Crash(w)
         \/ \E lost \in SUBSET Fields : ReadPortfolio(w, lost) \/ ReadUser(w, lost)
  PROVE  /\ UNCHANGED <<quantity, turned, indexed, scv, shown, inPf, processed>>
         /\ pc'[w] # "idle" => Handling(w, t)'
<1> USE DEF Handling, TradePhases, SyncedPhases, Goto, Continue, Synced, Listed, Clean, TypeInv,
            UserInv, UserTypeOK, TypeOK
<1>1. CASE Check(w)
  BY <1>1 DEF Check, Fresh
<1>2. CASE MapUser(w)
  BY <1>2 DEF MapUser
<1>3. CASE ReadQuantity(w)
  BY <1>3 DEF ReadQuantity
<1>4. CASE CasApplied(w)
  <2>1. /\ UNCHANGED <<mapVars, quantity, turned, indexed, scv, shown, inPf, processed, trade,
                       returned>>
        /\ turned[t] # "none" /\ pc[w] = "cas"
    BY <1>4 DEF CasApplied
  <2>2. pc'[w] \in {"index", "check"}
    BY <1>4 DEF CasApplied
  <2>3. seen'[w] = quantity[Holding(t)] /\ turn'[w] = (turned[t] = "yes")
    BY <1>4 DEF CasApplied
  <2> QED
    BY <2>1, <2>2, <2>3
<1>5. CASE CasConflict(w)
  BY <1>5 DEF CasConflict
<1>6. CASE ReadLegacy(w)
  BY <1>6 DEF ReadLegacy
<1>7. CASE ApplyUser(w)
  BY <1>7 DEF ApplyUser
<1>8. CASE SaveUser(w)
  BY <1>8 DEF SaveUser
<1>9. CASE MapHalf(w) \/ FindUser(w)
  BY <1>9 DEF MapHalf, FindUser
<1>10. CASE CallFails(w) \/ Crash(w)
  BY <1>10 DEF CallFails, Crash
<1>11. CASE \E lost \in SUBSET Fields : ReadPortfolio(w, lost) \/ ReadUser(w, lost)
  BY <1>11 DEF ReadPortfolio, ReadUser
<1> QED
  BY <1>1, <1>2, <1>3, <1>4, <1>5, <1>6, <1>7, <1>8, <1>9, <1>10, <1>11

\* t's holding is tidy, or t is under way.
TidyFor(t) == Listed(Holding(t)) \/ Clean(Holding(t)) \/ t \in Underway

\* The quantity is written under the marker.
LEMMA CasHere ==
  ASSUME TypeInv, Marked, NEW w \in Workers, NEW t \in Trades, t = trade[w], Handling(w, t),
         CasOk(w), UNCHANGED <<listed, deleted>>
  PROVE  SoldOut(t)' /\ t \in Underway' /\ Handling(w, t)'
<1> DEFINE h == Holding(t)
           after == After(t, seen[w])
           marker == IF Turns(t, seen[w]) THEN "yes" ELSE "no"
<1>1. /\ pc[w] = "cas" /\ turned[t] = "none"
      /\ quantity' = [quantity EXCEPT ![h] = after]
      /\ turned' = [turned EXCEPT ![t] = marker]
      /\ turn' = [turn EXCEPT ![w] = Turns(t, seen[w])]
      /\ seen' = [seen EXCEPT ![w] = after]
      /\ UNCHANGED <<scv, inPf, processed>>
      /\ pc'[w] \in {"index", "check"}
  BY DEF CasOk, Continue, Goto, TypeInv, UserInv, UserTypeOK, TypeOK
<1>2. h \in Holdings /\ seen[w] \in Nat /\ t \notin inPf
  BY <1>1, HoldingType
     DEF TypeInv, UserInv, UserTypeOK, TypeOK, MarkerInv, MarkersInOrder, inHolding
<1>3. after = 0 => t.type = "SELL" /\ marker = "yes"
  BY <1>2, TradesAssumption DEF After, Turns
<1>4. quantity'[h] = after /\ turned'[t] = marker /\ seen'[w] = after
  BY <1>1, <1>2 DEF TypeInv, UserInv, UserTypeOK, TypeOK
<1>5. turned'[t] = "yes" => turn'[w]
  BY <1>1, <1>4 DEF TypeInv, UserInv, UserTypeOK, TypeOK
<1>6. t \in Underway'
  BY <1>1, <1>4 DEF Underway, inHolding, Handling, TradePhases
<1> HIDE DEF h, after, marker
<1>7. SoldOut(t)'
  BY <1>1, <1>2, <1>3, <1>4 DEF SoldOut, h
<1>8. Handling(w, t)'
  BY <1>1, <1>4, <1>5 DEF Handling, TradePhases, SyncedPhases, h
<1> QED
  BY <1>6, <1>7, <1>8

\* The holding's value goes with the holding.
LEMMA TotalsHere ==
  ASSUME TypeInv, Marked, NEW w \in Workers, NEW t \in Trades, t = trade[w], Handling(w, t),
         SoldOut(t), ApplyTotals(w), UNCHANGED <<listed, deleted>>
  PROVE  SoldOut(t)' /\ t \in Underway' /\ Handling(w, t)'
<1> DEFINE h == Holding(t)
           value == ValueAfter(t, turn[w], IF scv[h] = Missing THEN base[w] ELSE scv[h])
<1>1. /\ pc[w] = "totals" /\ UNCHANGED <<quantity, turned, indexed, processed>>
      /\ pc'[w] \in {"project", "check"}
      /\ \/ /\ t \in inPf /\ UNCHANGED <<scv, inPf>>
            /\ base' = [base EXCEPT ![w] = OrZero(scv[h])]
         \/ /\ t \notin inPf /\ inPf' = inPf \cup {t}
            /\ scv' = [scv EXCEPT ![h] = value]
            /\ base' = [base EXCEPT ![w] = OrZero(value)]
  BY DEF ApplyTotals, Continue, Goto, TypeInv, UserInv, UserTypeOK, TypeOK
<1>2. t \in Underway /\ h \in Holdings
  BY <1>1, HoldingType
     DEF TypeInv, UserInv, MarkerInv, PastMarker, Underway, Handling, TradePhases
<1>3. t \in Underway'
  BY <1>1, <1>2 DEF Underway, inHolding
<1>4. quantity[h] = 0 => t.type = "SELL" /\ turned[t] = "yes" /\ turn[w]
  BY <1>1, <1>2 DEF SoldOut, Handling, h
<1>5. quantity[h] = 0 => value = Missing
  BY <1>4 DEF ValueAfter
<1>6. quantity[h] = 0 => scv'[h] = Missing /\ base'[w] = 0
  <2>1. CASE t \in inPf
    BY <1>1, <1>2, <2>1 DEF SoldOut, OrZero, TypeInv, UserInv, UserTypeOK, TypeOK
  <2>2. CASE t \notin inPf
    BY <1>1, <1>2, <1>5, <2>2 DEF OrZero, TypeInv, UserInv, UserTypeOK, TypeOK
  <2> QED
    BY <2>1, <2>2
<1> HIDE DEF h, value
<1>7. SoldOut(t)'
  BY <1>1, <1>4, <1>6 DEF SoldOut, h
<1>8. Synced(h)'
  BY <1>1 DEF Handling, SyncedPhases, Synced, Listed, h
<1>9. Handling(w, t)'
  BY <1>1, <1>6, <1>8 DEF Handling, TradePhases, SyncedPhases, h
<1> QED
  BY <1>3, <1>7, <1>9

\* The value shown goes with the value.
LEMMA ProjectHere ==
  ASSUME TypeInv, Marked, NEW w \in Workers, NEW t \in Trades, t = trade[w], Handling(w, t),
         SoldOut(t), Project(w), UNCHANGED <<listed, deleted>>
  PROVE  SoldOut(t)' /\ t \in Underway' /\ Handling(w, t)'
<1>1. /\ pc[w] = "project" /\ UNCHANGED <<quantity, turned, indexed, scv, inPf, processed>>
      /\ pc'[w] \in {"user", "check"}
      /\ shown' = [shown EXCEPT ![Holding(t)] = base[w]]
  BY DEF Project, Continue, Goto, TypeInv, UserInv, UserTypeOK, TypeOK
<1>2. t \in inPf /\ t \in Underway /\ t \in Underway' /\ Holding(t) \in Holdings
  BY <1>1, HoldingType DEF TypeInv, UserInv, MarkerInv, MarkersInOrder, PastMarker,
     Underway, Handling, TradePhases, inHolding
<1>3. shown'[Holding(t)] = base[w]
  BY <1>1, <1>2 DEF TypeInv, UserInv, UserTypeOK, TypeOK
<1>4. SoldOut(t)'
  BY <1>1, <1>2 DEF SoldOut
<1>5. Listed(Holding(t))' \/ Clean(Holding(t))'
  BY <1>1, <1>2, <1>3 DEF SoldOut, Handling, SyncedPhases, Synced, Clean, Listed
<1>6. Synced(Holding(t))'
  BY <1>5 DEF Synced, Clean
<1> QED
  BY <1>1, <1>2, <1>4, <1>5, <1>6 DEF Handling, TradePhases, SyncedPhases

\* A call of w leaves its trade's holding tidy, or the trade under way.
LEMMA TradeHere ==
  ASSUME TypeInv, Marked, NEW w \in Workers, NEW t \in Trades, t = trade[w], pc[w] # "idle",
         Handling(w, t), SoldOut(t), TidyFor(t), TradeCall(w)
  PROVE  SoldOut(t)' /\ TidyFor(t)' /\ (pc'[w] # "idle" => Handling(w, t)')
<1>1. ASSUME UNCHANGED <<quantity, turned, indexed, scv, shown, inPf, processed, listed>>
      PROVE  SoldOut(t)' /\ TidyFor(t)'
  BY <1>1 DEF SoldOut, TidyFor, Listed, Clean, Underway, inHolding
<1>2. CASE CasOk(w) /\ UNCHANGED <<listed, deleted>>
  BY <1>2, CasHere DEF TidyFor
<1>3. CASE ApplyTotals(w) /\ UNCHANGED <<listed, deleted>>
  BY <1>3, TotalsHere DEF TidyFor
<1>4. CASE Project(w) /\ UNCHANGED <<listed, deleted>>
  BY <1>4, ProjectHere DEF TidyFor
<1>5. CASE SyncList(w)
  <2>1. /\ pc[w] = "index"
        /\ UNCHANGED <<quantity, turned, scv, shown, inPf, processed>>
    BY <1>5 DEF SyncList, SyncIndex
  <2>2. t \in Underway
    BY <2>1 DEF TypeInv, UserInv, MarkerInv, PastMarker, Underway, Handling, TradePhases
  <2> QED
    BY <1>5, <2>1, <2>2, SyncDone DEF SoldOut, TidyFor, Underway, inHolding
<1>6. CASE MarkProcessed(w) /\ UNCHANGED <<listed, deleted>>
  <2>1. /\ pc[w] = "mark" /\ pc'[w] \in {"pfread", "check"}
        /\ UNCHANGED <<quantity, turned, indexed, scv, shown, inPf>>
        /\ processed' = processed \cup {t}
    BY <1>6 DEF MarkProcessed, Continue, Goto, TypeInv, UserInv, UserTypeOK, TypeOK
  <2> QED
    BY <1>6, <2>1 DEF Handling, TradePhases, SyncedPhases, SoldOut, TidyFor, Listed, Clean,
       Underway
<1>7. CASE SavePortfolio(w) /\ UNCHANGED listed
  <2>1. /\ pc'[w] \in {"usrread", "check"}
        /\ UNCHANGED <<quantity, turned, indexed, scv, shown, inPf, processed>>
    BY <1>7 DEF SavePortfolio, Continue, Goto, TypeInv, UserInv, UserTypeOK, TypeOK
  <2> QED
    BY <1>1, <1>7, <2>1 DEF Handling, TradePhases, SyncedPhases
<1>8. CASE /\ pc'[w] # "idle" => Handling(w, t)'
           /\ UNCHANGED <<quantity, turned, indexed, scv, shown, inPf, processed, listed>>
  BY <1>1, <1>8
<1> QED
  BY <1>2, <1>3, <1>4, <1>5, <1>6, <1>7, <1>8, QuietCall DEF TradeCall, Compute, Failure

\* What a call for t leaves alone of the other portfolios and holdings.
Elsewhere(t) ==
  /\ \A p \in Portfolios : p # t.pf =>
       /\ owner'[p] = owner[p] /\ (p \in pending' => p \in pending)
       /\ listed'[p] = listed[p] /\ (p \in deleted => p \in deleted')
       /\ \A u \in Users : p \in members'[u] => p \in members[u]
  /\ \A h \in Holdings : h # Holding(t) =>
       /\ Clean(h) => Clean(h)'
       /\ Listed(h) => Listed(h)'
  /\ \A u \in Trades : u # t =>
       turned'[u] = turned[u] /\ (u \in processed' <=> u \in processed)
  /\ UNCHANGED <<eventVars, keeperVars>>

\* So it is with every call.
LEMMA TradeElsewhere ==
  ASSUME TypeInv, NEW w \in Workers, NEW t \in Trades, t = trade[w], TradeCall(w),
         UNCHANGED <<eventVars, keeperVars>>
  PROVE  Elsewhere(t)
<1> USE DEF TypeInv, UserInv, UserTypeOK, TypeOK
<1>1. ASSUME UNCHANGED <<mapVars, listed, deleted>>,
             UNCHANGED <<turned, quantity, indexed, scv, shown, processed>>
      PROVE  Elsewhere(t)
  BY <1>1 DEF Elsewhere, Clean, Listed
<1>2. CASE (MapUser(w) \/ MapHalf(w) \/ FindUser(w)) /\ UNCHANGED <<listed, deleted>>
  <2>1. UNCHANGED <<turned, quantity, indexed, scv, shown, processed>>
    BY <1>2 DEF MapUser, MapHalf, FindUser
  <2>2. /\ owner' \in {owner, [owner EXCEPT ![t.pf] = t.user]}
        /\ pending' \in {pending, pending \cup {t.pf}}
        /\ members' \in {members, [members EXCEPT ![t.user] = members[t.user] \cup {t.pf}]}
    BY <1>2 DEF MapUser, MapHalf, FindUser
  <2>3. \A p \in Portfolios : p # t.pf =>
          /\ owner'[p] = owner[p] /\ (p \in pending' => p \in pending)
          /\ \A u \in Users : p \in members'[u] => p \in members[u]
    BY <2>2, TradeParts
  <2> QED
    BY <1>2, <2>1, <2>3 DEF Elsewhere, Clean, Listed
<1>3. CASE (CasOk(w) \/ ApplyTotals(w) \/ Project(w) \/ MarkProcessed(w))
             /\ UNCHANGED <<listed, deleted>>
  <2>1. UNCHANGED <<mapVars, indexed>>
    BY <1>3 DEF CasOk, ApplyTotals, Project, MarkProcessed
  <2>2. /\ \A h \in Holdings : h # Holding(t) =>
             quantity'[h] = quantity[h] /\ scv'[h] = scv[h] /\ shown'[h] = shown[h]
        /\ \A u \in Trades : u # t =>
             turned'[u] = turned[u] /\ (u \in processed' <=> u \in processed)
    BY <1>3 DEF CasOk, ApplyTotals, Project, MarkProcessed
  <2> QED
    BY <1>3, <2>1, <2>2 DEF Elsewhere, Clean, Listed
<1>4. CASE SyncList(w)
  <2>1. UNCHANGED <<mapVars, turned, quantity, scv, shown, processed, deleted>>
    BY <1>4 DEF SyncList, SyncIndex
  <2>2. \A p \in Portfolios : p # t.pf => listed'[p] = listed[p]
    BY <1>4 DEF SyncList
  <2>3. ASSUME NEW h \in Holdings, h # Holding(t)
        PROVE  (h \in indexed' => h \in indexed) /\ (Listed(h) => Listed(h)')
    <3>1. indexed' \subseteq indexed \cup {Holding(t)}
      BY <1>4 DEF SyncList, SyncIndex
    <3>2. h[1] \in Portfolios /\ (h[1] # t.pf \/ h[2] # t.stock)
      BY <2>3 DEF Holdings, Holding
    <3>3. Listed(h) => Listed(h)'
      BY <1>4, <3>2, TradeParts DEF SyncList, Listed
    <3> QED
      BY <2>3, <3>1, <3>3
  <2> QED
    BY <2>1, <2>2, <2>3 DEF Elsewhere, Clean
<1>5. CASE SavePortfolio(w) /\ deleted' = deleted \ {t.pf} /\ UNCHANGED listed
  BY <1>5 DEF SavePortfolio, Elsewhere, Clean, Listed
<1>6. CASE (Compute(w) \/ Failure(w)) /\ UNCHANGED <<listed, deleted>>
  <2>1. \/ UNCHANGED <<mapVars, turned, quantity, indexed, scv, shown, processed>>
        \/ MapUser(w) \/ MapHalf(w) \/ FindUser(w)
        \/ CasOk(w) \/ ApplyTotals(w) \/ Project(w) \/ MarkProcessed(w)
    BY <1>6 DEF Compute, Failure, Check, ReadQuantity, CasApplied, CasConflict, ReadLegacy,
       ApplyUser, ReadPortfolio, ReadUser, SaveUser, CallFails, Crash
  <2> QED
    BY <1>1, <1>2, <1>3, <1>6, <2>1
<1> QED
  BY <1>4, <1>5, <1>6 DEF TradeCall

\* A trade is finished, and its snapshots saved, after its mark.
LEMMA MarkedStep ==
  ASSUME TypeInv, Marked, NEW w \in Workers,
         (\E t \in Trades : Take(w, t)) \/ Work(w) \/ Failure(w)
  PROVE  Marked'
<1> USE DEF Marked, Goto, Continue, TypeInv, UserInv, UserTypeOK, TypeOK
<1>1. CASE \E t \in Trades : Take(w, t)
  BY <1>1 DEF Take
<1>2. CASE Check(w)
  BY <1>2 DEF Check
<1>3. CASE MapUser(w) \/ MapHalf(w) \/ FindUser(w)
  BY <1>3 DEF MapUser, MapHalf, FindUser
<1>4. CASE ReadQuantity(w) \/ CasApplied(w) \/ CasConflict(w)
  BY <1>4 DEF ReadQuantity, CasApplied, CasConflict
<1>5. CASE CasOk(w) \/ SyncIndex(w) \/ ReadLegacy(w)
  BY <1>5 DEF CasOk, SyncIndex, ReadLegacy
<1>6. CASE ApplyTotals(w)
  <2>1. UNCHANGED <<trade, processed, returned>>
        /\ pc[w] = "totals" /\ Continue(w, "project")
    BY <1>6 DEF ApplyTotals
  <2> QED
    BY <2>1
<1>7. CASE Project(w) \/ ApplyUser(w)
  BY <1>7 DEF Project, ApplyUser
<1>8. CASE MarkProcessed(w)
  BY <1>8 DEF MarkProcessed
<1>9. CASE \E lost \in SUBSET Fields : ReadPortfolio(w, lost) \/ ReadUser(w, lost)
  BY <1>9 DEF ReadPortfolio, ReadUser
<1>10. CASE SavePortfolio(w)
  BY <1>10 DEF SavePortfolio
<1>11. CASE SaveUser(w)
  <2>1. pc[w] = "usrsave" /\ processed' = processed
    BY <1>11 DEF SaveUser
  <2>2. /\ \A v \in Workers : v # w => pc'[v] = pc[v] /\ trade'[v] = trade[v]
        /\ pc'[w] \in {"check", "idle"}
    BY <1>11 DEF SaveUser
  <2>3. returned' \subseteq returned \cup {trade[w]}
    BY <1>11 DEF SaveUser
  <2>4. trade[w] \in processed
    BY <2>1
  <2>5. returned' \subseteq processed'
    BY <2>1, <2>3, <2>4
  <2>6. ASSUME NEW v \in Workers, pc'[v] \in {"pfread", "pfsave", "usrread", "usrsave"}
        PROVE  trade'[v] \in processed'
    BY <2>1, <2>2, <2>6
  <2> QED
    BY <2>5, <2>6
<1>12. CASE CallFails(w) \/ Crash(w)
  BY <1>12 DEF CallFails, Crash
<1> QED
  BY <1>1, <1>2, <1>3, <1>4, <1>5, <1>6, <1>7, <1>8, <1>9, <1>10, <1>11, <1>12
     DEF Work, Compute, Failure

\* What a call of w does to the deletions there were, and to its own holding.
LEMMA CallDeletion ==
  ASSUME TypeInv, LoneInv, DeletionInv, Orderly, ValuationNext, Orderly',
         NEW w \in Workers, TradeCall(w), pc[w] # "idle", WorkerMoves(w),
         UNCHANGED <<eventVars, keeperVars, pricerVars>>, Cluster = FALSE
  PROVE  Deleting'
<1>1. PICK t \in Trades : t = trade[w]
  BY DEF TypeInv, UserInv, UserTypeOK, TypeOK
<1>2. Deleting /\ Marked
  BY DEF DeletionInv
<1>3. /\ \A v \in Workers \ {w} : pc[v] = "idle"
      /\ \A r \in Pricers : work[r] = Idle
      /\ \A k \in Keepers : event[k] = NoEvent
      /\ \A u \in Underway : u = t
  BY <1>1, <1>2, TradeAtWork
<1>4. Elsewhere(t)
  BY <1>1, TradeElsewhere
<1>5. ~TooLate'
  BY <1>2, InTime DEF TypeInv, Deleting
<1>6. SoldOut(t)' /\ TidyFor(t)' /\ (pc'[w] # "idle" => Handling(w, t)')
  <2>1. Handling(w, t) /\ SoldOut(t)
    BY <1>1, <1>2 DEF Deleting, AtTrade
  <2>2. TidyFor(t)
    BY <1>2, <1>3, HoldingType DEF Deleting, Tidy, TidyFor
  <2> QED
    BY <1>1, <1>2, <2>1, <2>2, TradeHere
<1>7. \A u \in Underway' : u = t
  BY <1>3, <1>4 DEF Elsewhere, Underway, inHolding
<1>8. Tidy'
  <2> SUFFICES ASSUME NEW h \in Holdings
               PROVE  Listed(h)' \/ Clean(h)' \/ \E u \in Underway' : Holding(u) = h
    BY DEF Tidy
  <2>1. CASE h = Holding(t)
    BY <1>6, <2>1 DEF TidyFor
  <2>2. CASE h # Holding(t)
    <3>1. Listed(h) \/ Clean(h)
      BY <1>2, <1>3, <2>2 DEF Deleting, Tidy
    <3> QED
      BY <1>4, <2>2, <3>1 DEF Elsewhere
  <2> QED
    BY <2>1, <2>2
<1>9. \A u \in Trades : SoldOut(u)'
  BY <1>6, <1>7 DEF SoldOut
<1>10. AtTrade'
  BY <1>1, <1>3, <1>6 DEF AtTrade, WorkerMoves
<1>11. AtEvent' /\ AtPrice'
  BY <1>3 DEF AtEvent, AtPrice
<1>12. DoneDeleted'
  <2> SUFFICES ASSUME NEW e \in done, e.type = "DELETED" PROVE Gone(e)' /\ InTurn(e)'
    BY DEF DoneDeleted
  <2>1. Gone(e) /\ InTurn(e)
    BY <1>2 DEF Deleting, DoneDeleted
  <2>2. e.pf \in Portfolios /\ e.user \in Users
    BY EventsAssumption DEF TypeInv, UserInv, UserTypeOK
  <2>3. e.pf # t.pf
    BY <1>1, <1>2, NamesAssumption DEF Deleting, TooLate
  <2>4. Gone(e)'
    BY <1>4, <2>1, <2>2, <2>3 DEF Elsewhere, Gone, Unmapped
  <2> QED
    BY <2>1, <2>4 DEF InTurn
<1> QED
  BY <1>5, <1>8, <1>9, <1>10, <1>11, <1>12 DEF Deleting

\* Trades leave the deletions as they are, and their holdings tidy.
LEMMA TradeDeletion ==
  ASSUME TypeInv, LoneInv, DeletionInv, ValuationNext, TradeStep, UNCHANGED pricerVars
  PROVE  DeletionInv'
<1>1. PICK w \in Workers :
        \/ (\E t \in Trades : Take(w, t)) /\ UNCHANGED <<listed, deleted>>
        \/ TradeCall(w)
  BY DEF TradeStep, TradeCall, SyncList
<1>2. UNCHANGED <<eventVars, keeperVars>> /\ SpendsOne
  BY TradeAlone DEF TradeStep, TypeInv
<1>3. (\E t \in Trades : Take(w, t)) \/ Work(w) \/ Failure(w)
  BY <1>1 DEF TradeCall, SyncList, Work
<1>4. Marked' /\ (Alone' => OneKeeper')
  <2>1. Alone' => Alone
    BY <1>2, SpendsAlone DEF TypeInv
  <2> QED
    BY <1>2, <1>3, <2>1, MarkedStep DEF DeletionInv, OneKeeper
<1>5. SUFFICES ASSUME Orderly', Cluster = FALSE PROVE Deleting'
  BY <1>4 DEF DeletionInv
<1>6. Orderly /\ Deleting
  BY <1>2, <1>5, OrderlyBefore DEF TypeInv, DeletionInv
<1>7. CASE (\E t \in Trades : Take(w, t)) /\ UNCHANGED <<listed, deleted>>
  <2>1. PICK t \in Trades : Take(w, t)
    BY <1>7
  <2>2. /\ pc' = [pc EXCEPT ![w] = "check"] /\ trade' = [trade EXCEPT ![w] = t]
        /\ UNCHANGED <<quantity, turned, indexed, scv, shown, inPf, processed, mapVars, turn,
                       seen, base>>
    BY <2>1 DEF Take, Goto
  <2>3. ~TooLate'
    BY <1>5, <1>6, InTime DEF TypeInv, Deleting
  <2>4. Tidy' /\ \A u \in Trades : SoldOut(u)'
    BY <1>6, <1>7, <2>2 DEF Deleting, Tidy, SoldOut, Listed, Clean, Underway, inHolding
  <2>5. AtTrade'
    <3> SUFFICES ASSUME NEW v \in Workers, pc'[v] # "idle" PROVE Handling(v, trade[v])'
      BY DEF AtTrade
    <3>1. CASE v = w
      BY <2>2, <3>1 DEF Handling, TradePhases, SyncedPhases, TypeInv, UserInv, UserTypeOK, TypeOK
    <3>2. CASE v # w
      <4>1. pc'[v] = pc[v] /\ trade'[v] = trade[v]
        BY <2>2, <3>2 DEF TypeInv, UserInv, UserTypeOK, TypeOK
      <4>2. Handling(v, trade[v])
        BY <1>6, <4>1 DEF Deleting, AtTrade
      <4> QED
        BY <1>7, <2>2, <4>1, <4>2 DEF Handling, Synced, Listed, Clean
    <3> QED
      BY <3>1, <3>2
  <2>6. AtEvent' /\ AtPrice' /\ DoneDeleted'
    BY <1>2, <1>6, <1>7, <2>2 DEF Deleting, AtEvent, AtPrice, DoneDeleted, Keeping, Gone, Unmapped,
       InTurn
  <2> QED
    BY <2>3, <2>4, <2>5, <2>6 DEF Deleting
<1>8. CASE TradeCall(w)
  <2>1. (Work(w) \/ Failure(w)) /\ pc[w] # "idle"
    BY <1>8, ZenonT(40) DEF TradeCall, SyncList, Work, Compute, Failure, Check, MapUser, ReadQuantity,
       CasApplied, CasConflict, CasOk, ReadLegacy, ApplyTotals, Project, ApplyUser,
       MarkProcessed, ReadPortfolio, ReadUser, SaveUser, SyncIndex, SavePortfolio, MapHalf,
       FindUser, CallFails, Crash
  <2>2. WorkerMoves(w)
    BY <2>1, WorkerFrame DEF TypeInv
  <2> QED
    BY <1>2, <1>5, <1>6, <1>8, <2>1, <2>2, CallDeletion
<1> QED
  BY <1>1, <1>7, <1>8

----------------------------------------------------------------------------
(* A deletion takes everything away *)

\* The steps of k at a record e, its read errors being returned.
LEMMA KeeperHere ==
  ASSUME TypeInv, NEW k \in Keepers, NEW e \in Events, e = event[k], Keeping(k, e),
         KeeperWork(k) \/ KeeperFails(k) \/ KeeperDies(k), Alone', Cluster = FALSE
  PROVE  /\ event'[k] # NoEvent => event'[k] = e /\ Keeping(k, e)'
         /\ \/ done' = done
            \/ done' = done \cup {e} /\ (e.type = "DELETED" => Gone(e)')
<1> USE DEF Keeping, InTurn, TypeInv, UserInv, UserTypeOK
<1>1. e.type \in {"CREATED", "DELETED"} /\ e.pf \in Portfolios /\ e.user \in Users
  BY EventsAssumption
<1>2. ~Spend("misreads")
  BY DEF Spend, Alone, Bounds, TypeOK
<1>3. ASSUME UNCHANGED <<event, done>>, step' = [step EXCEPT ![k] = "look"]
      PROVE  (event'[k] = e /\ Keeping(k, e)') /\ done' = done
  BY <1>3
<1>4. CASE Look(k)
  <2>1. /\ UNCHANGED <<event, done, mapVars, deleted, listed, found>>
        /\ step' \in {[step EXCEPT ![k] = phase] : phase \in {"pending", "unmap", "totals"}}
    BY <1>4 DEF Look, Enter
  <2> QED
    BY <2>1
<1>5. CASE CountPending(k)
  <2>1. /\ UNCHANGED <<event, done, mapVars, deleted, listed, found>>
        /\ e.type = "CREATED"
        /\ step' \in {[step EXCEPT ![k] = phase] : phase \in {"count", "usrread"}}
    BY <1>5 DEF CountPending, Enter, At
  <2> QED
    BY <2>1
<1>6. CASE UncountPending(k)
  BY <1>6 DEF UncountPending, Enter
<1>7. CASE \E lost \in SUBSET {"pv", "cvp"} : ReadTotals(k, lost)
  <2>1. /\ UNCHANGED <<event, done, mapVars, deleted, listed, found>>
        /\ \/ e.type = "CREATED" /\ step' = [step EXCEPT ![k] = "add"]
           \/ step' = [step EXCEPT ![k] = "pending"]
    BY <1>7 DEF ReadTotals, Enter
  <2> QED
    BY <2>1
<1>8. CASE \/ ApplyEvent(k, "count", "clear") \/ ApplyEvent(k, "add", "map")
           \/ ApplyEvent(k, "subtract", "unmap")
  <2>1. /\ UNCHANGED <<event, done, mapVars, deleted, listed, found>>
        /\ \/ step[k] = "count" /\ AndThen(k, "clear")
           \/ step[k] = "add" /\ AndThen(k, "map")
           \/ step[k] = "subtract" /\ AndThen(k, "unmap")
    BY <1>8 DEF ApplyEvent
  <2> QED
    BY <2>1 DEF AndThen, Enter
<1>9. CASE ClearPending(k) \/ MapPortfolio(k)
  <2>1. /\ UNCHANGED <<event, done, deleted, listed, found>>
        /\ e.type = "CREATED"
        /\ step' \in {[step EXCEPT ![k] = phase] : phase \in {"look", "usrread"}}
    BY <1>9 DEF ClearPending, MapPortfolio, Pipeline, AndThen, Enter
  <2> QED
    BY <2>1
<1>10. CASE Unmap(k)
  <2>1. UNCHANGED <<event, done, deleted, listed, found>>
    BY <1>10 DEF Unmap
  <2>2. \/ step' = [step EXCEPT ![k] = "look"]
        \/ step' = [step EXCEPT ![k] = "delete"] /\ Unmapped(e)'
    <3>1. CASE /\ owner' = [owner EXCEPT ![e.pf] = Nobody] /\ pending' = pending \ {e.pf}
               /\ members' = [members EXCEPT ![e.user] = members[e.user] \ {e.pf}]
               /\ AndThen(k, "delete")
      BY <1>1, <3>1 DEF AndThen, Enter, Unmapped, TypeOK
    <3>2. CASE Enter(k, "look")
      BY <3>2 DEF Enter
    <3> QED
      BY <1>10, <3>1, <3>2 DEF Unmap, Pipeline
  <2> QED
    BY <2>1, <2>2
<1>11. CASE MarkDeleted(k)
  <2>1. /\ UNCHANGED <<event, done, mapVars, listed, found>>
        /\ deleted' = deleted \cup {e.pf} /\ step[k] = "delete"
        /\ step' \in {[step EXCEPT ![k] = phase] : phase \in {"look", "stocks"}}
    BY <1>11 DEF MarkDeleted, AndThen, Enter
  <2> QED
    BY <2>1 DEF Unmapped
<1>12. CASE FindStocks(k)
  <2>1. /\ UNCHANGED <<event, done, mapVars, deleted, listed>> /\ step[k] = "stocks"
        /\ found' = [found EXCEPT ![k] = listed[e.pf]]
        /\ step' = [step EXCEPT ![k] = "wipe"]
    BY <1>2, <1>12 DEF FindStocks, Saw, Enter
  <2> QED
    BY <2>1 DEF Unmapped
<1>13. CASE Wipe(k)
  <2>1. UNCHANGED <<event, done, mapVars, deleted, found>> /\ step[k] = "wipe"
    BY <1>13 DEF Wipe
  <2>2. \/ step' = [step EXCEPT ![k] = "look"]
        \/ step' = [step EXCEPT ![k] = "usrread"]
             /\ listed' = [listed EXCEPT ![e.pf] = {}]
    BY <1>13 DEF Wipe, AndThen, Enter
  <2> QED
    BY <1>1, <2>1, <2>2 DEF Unmapped, Gone
<1>14. CASE \E lost \in SUBSET Fields : ReadUserOf(k, lost)
  <2>1. /\ UNCHANGED <<event, done, mapVars, deleted, listed, found>> /\ step[k] = "usrread"
        /\ step' = [step EXCEPT ![k] = "usrsave"]
    BY <1>14 DEF ReadUserOf, Enter
  <2> QED
    BY <2>1 DEF Gone, Unmapped
<1>15. CASE SaveUserOf(k)
  <2>1. /\ UNCHANGED <<mapVars, deleted, listed>> /\ step[k] = "usrsave"
        /\ \/ event' = [event EXCEPT ![k] = NoEvent] /\ done' = done \cup {e}
           \/ /\ step' = [step EXCEPT ![k] = "look"] /\ UNCHANGED <<event, done>>
    BY <1>15 DEF SaveUserOf, Leave, Enter
  <2> QED
    BY <1>3, <2>1 DEF Gone, Unmapped
<1>16. CASE KeeperFails(k) \/ KeeperDies(k)
  <2>1. /\ UNCHANGED done
        /\ \/ event' = [event EXCEPT ![k] = NoEvent]
           \/ step' = [step EXCEPT ![k] = "look"] /\ UNCHANGED event
    BY <1>16 DEF KeeperFails, KeeperDies, Leave, Enter
  <2> QED
    BY <1>3, <2>1
<1> QED
  BY <1>4, <1>5, <1>6, <1>7, <1>8, <1>9, <1>10, <1>11, <1>12, <1>13, <1>14, <1>15, <1>16
     DEF KeeperWork

\* What a step at e leaves alone of the other portfolios, and of the holdings.
PutAway(e) ==
  /\ \A p \in Portfolios : p # e.pf =>
       /\ owner'[p] = owner[p] /\ (p \in pending' => p \in pending)
       /\ listed'[p] = listed[p] /\ (p \in deleted => p \in deleted')
       /\ \A u \in Users : p \in members'[u] => p \in members[u]
  /\ \A h \in Holdings : Listed(h) \/ Clean(h) => (Listed(h) \/ Clean(h))'

\* So it is with every step, the stocks being wiped as they were listed.
LEMMA KeeperElsewhere ==
  ASSUME TypeInv, NEW k \in Keepers, NEW e \in Events, e = event[k], Keeping(k, e),
         KeeperWork(k) \/ KeeperFails(k) \/ KeeperDies(k), Cluster = FALSE
  PROVE  PutAway(e)
<1> USE DEF TypeInv, UserInv, UserTypeOK, TypeOK
<1>1. e.pf \in Portfolios /\ e.user \in Users
  BY EventsAssumption
<1>2. ASSUME UNCHANGED <<stateVars, deleted, mapVars>> PROVE PutAway(e)
  BY <1>2 DEF PutAway, Listed, Clean
<1>3. CASE ClearPending(k) \/ MarkDeleted(k)
  BY <1>3 DEF ClearPending, MarkDeleted, PutAway, Listed, Clean
<1>4. CASE MapPortfolio(k) \/ Unmap(k)
  <2>1. UNCHANGED <<stateVars, deleted>>
    BY <1>4 DEF MapPortfolio, Unmap
  <2>2. /\ \E u \in Users \cup {Nobody} : owner' \in {owner, [owner EXCEPT ![e.pf] = u]}
        /\ pending' \in {pending, pending \ {e.pf}}
        /\ \/ members' = members
           \/ members' = [members EXCEPT ![e.user] = members[e.user] \cup {e.pf}]
           \/ members' = [members EXCEPT ![e.user] = members[e.user] \ {e.pf}]
    BY <1>1, <1>4 DEF MapPortfolio, Unmap, Pipeline
  <2>3. \A p \in Portfolios : p # e.pf =>
          /\ owner'[p] = owner[p] /\ (p \in pending' => p \in pending)
          /\ \A u \in Users : p \in members'[u] => p \in members[u]
    <3> TAKE p \in Portfolios
    <3> HAVE p # e.pf
    <3>1. owner'[p] = owner[p] /\ (p \in pending' => p \in pending)
      BY <2>2
    <3>2. ASSUME NEW u \in Users, p \in members'[u] PROVE p \in members[u]
      BY <1>1, <2>2, <3>2, SMTT(20)
    <3> QED
      BY <3>1, <3>2
  <2> QED
    BY <2>1, <2>3 DEF PutAway, Listed, Clean
<1>5. CASE Wipe(k)
  <2> DEFINE all == {e.pf} \X found[k]
  <2>1. step[k] = "wipe" /\ found[k] = listed[e.pf] /\ UNCHANGED <<mapVars, deleted>>
    BY <1>5 DEF Wipe, Keeping
  <2>2. \/ Forget(all, all) /\ listed' = [listed EXCEPT ![e.pf] = {}]
        \/ /\ \E valued, held \in SUBSET all : Forget(valued, held)
           /\ listed' = listed
    BY <1>5 DEF Wipe
  <2>3. \A h \in Holdings : h[1] = e.pf /\ Listed(h) => h \in all
    BY <2>1 DEF Listed, Holdings
  <2>4. CASE Forget(all, all) /\ listed' = [listed EXCEPT ![e.pf] = {}]
    <3>1. \A p \in Portfolios : p # e.pf => listed'[p] = listed[p]
      BY <2>4
    <3>2. ASSUME NEW h \in Holdings, h \in all PROVE Clean(h)'
      BY <2>4, <3>2 DEF Forget, Clean
    <3>3. ASSUME NEW h \in Holdings, h \notin all, Clean(h) PROVE Clean(h)'
      BY <2>4, <3>3 DEF Forget, Clean
    <3>4. ASSUME NEW h \in Holdings, h \notin all, Listed(h) PROVE Listed(h)'
      <4>1. h[1] \in Portfolios /\ h[1] # e.pf
        BY <2>3, <3>4 DEF Holdings
      <4> QED
        BY <3>1, <3>4, <4>1 DEF Listed
    <3> QED
      BY <2>1, <3>1, <3>2, <3>3, <3>4 DEF PutAway
  <2>5. CASE listed' = listed /\ \E valued, held \in SUBSET all : Forget(valued, held)
    <3>1. \A h \in Holdings : Clean(h) => Clean(h)'
      BY <2>5 DEF Forget, Clean
    <3> QED
      BY <2>1, <2>5, <3>1 DEF PutAway, Listed
  <2> QED
    BY <2>2, <2>4, <2>5
<1>6. CASE ~(ClearPending(k) \/ MarkDeleted(k) \/ MapPortfolio(k) \/ Unmap(k) \/ Wipe(k))
  <2>1. UNCHANGED <<stateVars, deleted, mapVars>>
    BY <1>6 DEF KeeperWork, Look, CountPending, UncountPending, ReadTotals, ApplyEvent,
       FindStocks, ReadUserOf, SaveUserOf, KeeperFails, KeeperDies
  <2> QED
    BY <1>2, <2>1
<1> QED
  BY <1>3, <1>4, <1>5, <1>6

\* A step of k at its record.
LEMMA RecordDeletion ==
  ASSUME TypeInv, LoneInv, DeletionInv, Orderly, ValuationNext, Orderly',
         UNCHANGED pricerVars, UNCHANGED tradeOnlyVars, NEW k \in Keepers,
         event[k] # NoEvent, KeeperWork(k) \/ KeeperFails(k) \/ KeeperDies(k),
         Cluster = FALSE
  PROVE  Deleting'
<1>1. Deleting /\ Marked /\ OneKeeper
  BY DEF DeletionInv, Orderly
<1>2. /\ \A w \in Workers : pc[w] = "idle"
      /\ \A r \in Pricers : work[r] = Idle
      /\ \A j \in Keepers \ {k} : event[j] = NoEvent
      /\ Underway = {}
  BY <1>1, KeeperAtWork
<1>3. PICK e \in Events : e = event[k]
  BY DEF TypeInv, UserInv, UserTypeOK
<1>4. Keeping(k, e)
  BY <1>1, <1>3 DEF Deleting, AtEvent
<1>5. PutAway(e)
  BY <1>3, <1>4, KeeperElsewhere
<1>6. /\ event'[k] # NoEvent => event'[k] = e /\ Keeping(k, e)'
      /\ \/ done' = done
         \/ done' = done \cup {e} /\ (e.type = "DELETED" => Gone(e)')
  BY <1>3, <1>4, KeeperHere DEF Orderly
<1>7. ~TooLate'
  BY <1>1, InTime DEF TypeInv, Deleting
<1>8. Underway' = {}
  BY <1>2 DEF Underway, inHolding
<1>9. Tidy' /\ \A t \in Trades : SoldOut(t)'
  BY <1>1, <1>2, <1>5, <1>8 DEF Deleting, Tidy, PutAway, SoldOut
<1>10. AtTrade' /\ AtPrice'
  BY <1>2 DEF AtTrade, AtPrice
<1>11. AtEvent'
  <2> SUFFICES ASSUME NEW j \in Keepers, event'[j] # NoEvent PROVE Keeping(j, event[j])'
    BY DEF AtEvent
  <2>1. j = k
    BY <1>2, KeeperWorks DEF TypeInv, KeeperMoves
  <2> QED
    BY <1>6, <2>1 DEF Keeping, InTurn, Gone, Unmapped
<1>12. DoneDeleted'
  <2> SUFFICES ASSUME NEW f \in done', f.type = "DELETED" PROVE Gone(f)' /\ InTurn(f)'
    BY DEF DoneDeleted
  <2>1. done \subseteq done'
    BY <1>6
  <2>2. CASE f \in done
    <3>1. Gone(f) /\ InTurn(f) /\ f \in Events
      BY <1>1, <2>2 DEF Deleting, DoneDeleted, TypeInv, UserInv, UserTypeOK
    <3>2. e \notin done
      BY <1>4 DEF Keeping
    <3>3. f.pf # e.pf
      <4>1. e.type = "CREATED" => ~Before(e, f)
        BY <3>1, <3>2 DEF InTurn
      <4>2. e.type = "CREATED" \/ (e.type = "DELETED" /\ (f.pf = e.pf => f = e))
        BY <2>2, <3>1, EventsAssumption
      <4> QED
        BY <2>2, <3>2, <4>1, <4>2 DEF Before
    <3>4. f.pf \in Portfolios /\ f.user \in Users
      BY <3>1, EventsAssumption
    <3> QED
      BY <1>5, <2>1, <3>1, <3>3, <3>4 DEF PutAway, Gone, Unmapped, InTurn
  <2>3. CASE f \notin done
    <3>1. f = e /\ Gone(e)'
      BY <1>6, <2>3
    <3> QED
      BY <1>4, <2>1, <3>1 DEF Keeping, InTurn, Gone, Unmapped
  <2> QED
    BY <2>2, <2>3
<1> QED
  BY <1>7, <1>9, <1>10, <1>11, <1>12 DEF Deleting

\* Portfolio-user records leave the deletions as they are, or finish one.
LEMMA KeeperDeletion ==
  ASSUME TypeInv, LoneInv, DeletionInv, ValuationNext, KeeperStep, UNCHANGED pricerVars
  PROVE  DeletionInv'
<1>1. UNCHANGED tradeOnlyVars /\ SpendsOne
  BY KeeperAlone DEF KeeperStep, TypeInv
<1>2. Marked'
  BY <1>1 DEF DeletionInv, Marked
<1>3. Alone' => Alone /\ OneKeeper
  BY <1>1, SpendsAlone DEF TypeInv, DeletionInv
<1>4. Orderly' /\ Cluster = FALSE => Orderly /\ Deleting
  BY <1>1, OrderlyBefore DEF TypeInv, DeletionInv
<1>5. ASSUME NEW k \in Keepers, NEW e \in Events, TakeEvent(k, e)
      PROVE  DeletionInv'
  <2>1. /\ step[k] = "idle" /\ e \notin done /\ InTurn(e)
        /\ event' = [event EXCEPT ![k] = e] /\ step' = [step EXCEPT ![k] = "look"]
        /\ UNCHANGED <<stateVars, deleted, mapVars, done, found>>
    BY <1>5 DEF TakeEvent, Enter, InTurn
  <2>2. ASSUME Alone' PROVE OneKeeper'
    <3>1. ~KeeperAt(e.pf)
      BY <1>3, <1>5, <2>2 DEF TakeEvent, Spend, Alone, Bounds, TypeInv, UserInv, UserTypeOK,
         TypeOK
    <3> QED
      BY <1>3, <2>1, <2>2, <3>1 DEF KeeperAt, OneKeeper, TypeInv, UserInv, UserTypeOK
  <2>3. ASSUME Orderly', Cluster = FALSE PROVE Deleting'
    <3>1. ~TooLate'
      BY <1>4, <2>3, InTime DEF TypeInv, Deleting
    <3>2. Tidy' /\ (\A t \in Trades : SoldOut(t)') /\ AtTrade' /\ AtPrice' /\ DoneDeleted'
      BY <1>1, <1>4, <2>1, <2>3 DEF Deleting, Tidy, SoldOut, AtTrade, AtPrice, DoneDeleted,
         Listed, Clean, Underway, inHolding, Handling, Synced, Gone, Unmapped, InTurn
    <3>3. AtEvent'
      <4> SUFFICES ASSUME NEW j \in Keepers, event'[j] # NoEvent
                   PROVE  Keeping(j, event[j])'
        BY DEF AtEvent
      <4>1. CASE j = k
        <5>1. event'[j] = e /\ step'[j] = "look" /\ InTurn(e)'
          BY <2>1, <4>1 DEF TypeInv, UserInv, UserTypeOK, InTurn
        <5> QED
          BY <2>1, <5>1 DEF Keeping
      <4>2. CASE j # k
        <5>1. event'[j] = event[j] /\ step'[j] = step[j]
          BY <2>1, <4>2 DEF TypeInv, UserInv, UserTypeOK
        <5>2. Keeping(j, event[j])
          BY <1>4, <2>3, <5>1 DEF Deleting, AtEvent
        <5> QED
          BY <2>1, <5>1, <5>2 DEF Keeping, InTurn, Unmapped, Gone
      <4> QED
        BY <4>1, <4>2
    <3> QED
      BY <3>1, <3>2, <3>3 DEF Deleting
  <2> QED
    BY <1>2, <2>2, <2>3 DEF DeletionInv
<1>6. ASSUME NEW k \in Keepers, KeeperWork(k) \/ KeeperFails(k) \/ KeeperDies(k)
      PROVE  DeletionInv'
  <2>1. KeeperMoves(k)
    BY <1>6, KeeperWorks DEF TypeInv
  <2>2. Alone' => OneKeeper'
    BY <1>3, <2>1 DEF KeeperMoves, OneKeeper
  <2>3. event[k] # NoEvent
    <3>1. step[k] # "idle"
      BY <1>6 DEF KeeperWork, KeeperFails, KeeperDies, Look, CountPending, UncountPending,
         ReadTotals, ApplyEvent, ClearPending, MapPortfolio, Unmap, MarkDeleted, FindStocks,
         Wipe, ReadUserOf, SaveUserOf, At
    <3> QED
      BY <3>1 DEF TypeInv, UserInv, UserTypeOK
  <2>4. Orderly' /\ Cluster = FALSE => Deleting'
    BY <1>1, <1>4, <1>6, <2>3, RecordDeletion
  <2> QED
    BY <1>2, <2>2, <2>4 DEF DeletionInv
<1>7. ASSUME NEW e \in Events, Redeliver(e) PROVE DeletionInv'
  <2>1. /\ ~KeeperAt(e.pf) /\ UNCHANGED <<stateVars, deleted, mapVars, keeperVars>>
        /\ done' = {f \in done : f.pf # e.pf \/ Before(f, e)}
    BY <1>7 DEF Redeliver
  <2>2. Alone' => OneKeeper'
    BY <1>3, <2>1 DEF OneKeeper
  <2>3. ASSUME Orderly', Cluster = FALSE PROVE Deleting'
    <3>1. ~TooLate'
      BY <1>4, <2>3, InTime DEF TypeInv, Deleting
    <3>2. Tidy' /\ (\A t \in Trades : SoldOut(t)') /\ AtTrade' /\ AtPrice'
      BY <1>1, <1>4, <2>1, <2>3 DEF Deleting, Tidy, SoldOut, AtTrade, AtPrice,
         Listed, Clean, Underway, inHolding, Handling, Synced
    <3>3. ASSUME NEW f \in Events, InTurn(f), f.pf # e.pf \/ (f \in done' /\ f.type = "DELETED")
          PROVE  InTurn(f)'
      BY <2>1, <3>3 DEF InTurn, Before
    <3>4. AtEvent'
      <4> SUFFICES ASSUME NEW j \in Keepers, event'[j] # NoEvent
                   PROVE  Keeping(j, event[j])'
        BY DEF AtEvent
      <4>1. Keeping(j, event[j]) /\ event[j].pf # e.pf /\ event[j] \in Events
        BY <1>4, <2>1, <2>3 DEF Deleting, AtEvent, KeeperAt, TypeInv, UserInv, UserTypeOK
      <4>2. InTurn(event[j])'
        <5>1. PICK g \in Events : g = event[j]
          BY <4>1
        <5>2. event'[j] = g
          BY <2>1, <5>1
        <5>3. InTurn(g) /\ g.pf # e.pf
          BY <4>1, <5>1 DEF Keeping
        <5> QED
          BY <3>3, <5>2, <5>3 DEF InTurn
      <4> QED
        BY <2>1, <4>1, <4>2 DEF Keeping, Unmapped, Gone
    <3>5. DoneDeleted'
      <4> SUFFICES ASSUME NEW f \in done', f.type = "DELETED" PROVE Gone(f)' /\ InTurn(f)'
        BY DEF DoneDeleted
      <4>1. f \in done /\ f \in Events /\ Gone(f) /\ InTurn(f)
        BY <1>4, <2>1, <2>3 DEF Deleting, DoneDeleted, TypeInv, UserInv, UserTypeOK
      <4> QED
        BY <2>1, <3>3, <4>1 DEF Gone, Unmapped
    <3> QED
      BY <3>1, <3>2, <3>4, <3>5 DEF Deleting
  <2> QED
    BY <1>2, <2>2, <2>3 DEF DeletionInv
<1> QED
  BY <1>5, <1>6, <1>7 DEF KeeperStep

----------------------------------------------------------------------------
(* A fan-out keeps to what is listed *)

\* It has nothing in hand but of portfolios that list its stock.
LEMMA ListedStep ==
  ASSUME TypeInv, Deleting, NEW r \in Pricers, work[r] # Idle, Alone', Underway = {},
         \/ \E x \in work[r].todo :
              \/ Fetch(r, x) \/ Replace(r, x) \/ Show(r, x) \/ Save(r, x)
              \/ Members(r, x) \/ Total(r, x) \/ SaveUsers(r, x)
         \/ \E u \in Users, p \in Portfolios : Value(r, u, p)
         \/ CutShort(r)
  PROVE  \A q \in Pricers : work'[q] # Idle => ListedOf(work'[q], listed)
<1>1. PricersTyped /\ Working(r)
  BY DEF TypeInv, PricersTyped, Working
<1>2. ListedOf(work[r], listed)
  BY <1>1 DEF Deleting, AtPrice
<1>3. SUFFICES ASSUME (\A q \in Pricers \ {r} : work'[q] = work[q])
                        => work'[r] # Idle /\ ~ListedOf(work'[r], listed)
               PROVE  FALSE
  BY <1>1 DEF Deleting, AtPrice
<1>4. ASSUME NEW x, NEW phase, NEW commands, NEW plan, NEW reply,
             Advance(r, x, phase, commands, plan, reply),
             {work[r].at, phase} \cap {"fetch", "replace", "show"} # {} =>
               \A i \in plan : work[r].stock \in listed[i.pf],
             phase \in {"replace", "show", "save"} =>
               \A i \in commands : work[r].stock \in listed[i.pf],
             {work[r].at, phase} \cap {"replace", "show", "save"} # {} =>
               \A a \in reply : work[r].stock \in listed[a.pf]
      PROVE  FALSE
  <2>1. work'[r] # Idle /\ ~ListedOf(work'[r], listed)
    BY <1>1, <1>3, <1>4, Advanced
  <2>2. CASE /\ work'[r].at = phase /\ work'[r].todo = commands
             /\ work'[r].plan = plan /\ work'[r].reply = reply
             /\ work'[r].stock = work[r].stock
    BY <1>4, <2>1, <2>2 DEF ListedOf
  <2>3. CASE /\ work'[r].at = work[r].at /\ work'[r].todo = work[r].todo \ {x}
             /\ work'[r].plan = plan /\ work'[r].reply = reply
             /\ work'[r].stock = work[r].stock
    BY <1>2, <1>4, <2>1, <2>3 DEF ListedOf
  <2> QED
    BY <1>1, <1>4, <2>1, <2>2, <2>3, Advanced
<1>5. ASSUME NEW p, Fetch(r, p) PROVE FALSE
  <2> DEFINE h == <<p, work[r].stock>>
  <2>1. work[r].at = "fetch" /\ p \in work[r].todo
    BY <1>5 DEF Fetch, Sends
  <2>2. p \in Portfolios /\ h \in Holdings
    BY <1>1, <2>1 DEF Working, JobTyped, Jobs, Holdings
  <2>3. PICK plan :
          /\ Advance(r, p, "replace", plan, plan, {})
          /\ \A i \in plan : i \in work[r].plan \/ (i.pf = p /\ quantity[h] # 0)
    <3>1. ~Spend("misreads")
      BY DEF Spend, Alone, Bounds, TypeInv, UserInv, UserTypeOK, TypeOK
    <3> QED
      BY <1>5, <3>1 DEF Fetch, Saw
  <2>4. quantity[h] # 0 => work[r].stock \in listed[p]
    BY <1>1, <2>2 DEF Deleting, Tidy, Clean, Listed
  <2>5. \A i \in plan : work[r].stock \in listed[i.pf]
    BY <1>2, <2>1, <2>3, <2>4 DEF ListedOf
  <2> QED
    BY <1>4, <2>1, <2>3, <2>5
<1>6. ASSUME NEW i, Replace(r, i) PROVE FALSE
  <2> DEFINE reply == work[r].reply \cup
               {Answer(i.pf, [pf[i.pf] EXCEPT
                                !.cvp = pf[i.pf].cvp + i.new - Previous(<<i.pf, work[r].stock>>, i)])}
  <2>1. work[r].at = "replace" /\ i \in work[r].todo
        /\ Advance(r, i, "show", work[r].plan, work[r].plan, reply)
    BY <1>6 DEF Replace, Sends
  <2>2. \A a \in reply : work[r].stock \in listed[a.pf]
    BY <1>2, <2>1 DEF ListedOf, Answer
  <2> HIDE DEF reply
  <2> QED
    BY <1>2, <1>4, <2>1, <2>2 DEF ListedOf
<1>7. ASSUME NEW i, Show(r, i) PROVE FALSE
  <2>1. work[r].at = "show" /\ Advance(r, i, "save", work[r].reply, work[r].plan, work[r].reply)
    BY <1>7 DEF Show, Sends
  <2> QED
    BY <1>2, <1>4, <2>1 DEF ListedOf
<1>8. ASSUME NEW b, Save(r, b) PROVE FALSE
  <2>1. work[r].at = "save"
        /\ \E users, reply : /\ Advance(r, b, "members", users, {}, reply)
                             /\ reply \in {{}, work[r].reply}
    BY <1>8 DEF Save, Sends
  <2> QED
    BY <1>2, <1>4, <2>1 DEF ListedOf
<1>9. ASSUME NEW u, Members(r, u) PROVE FALSE
  <2> DEFINE plan == work[r].plan \cup ({u} \X members[u])
             totals == work[r].reply \cup {[user |-> u, total |-> 0]}
  <2>1. /\ work[r].at = "members"
        /\ \/ Advance(r, u, "total", totals, plan, totals)
           \/ Advance(r, u, "values", plan, plan, totals)
    BY <1>9 DEF Members, Sends
  <2> HIDE DEF plan, totals
  <2> QED
    BY <1>4, <2>1
<1>10. ASSUME NEW u, NEW p, Value(r, u, p) PROVE FALSE
  <2>1. work[r].at = "values" /\ \E x, totals : Advance(r, x, "total", totals, {}, totals)
    BY <1>10 DEF Value, Sends
  <2> QED
    BY <1>4, <2>1
<1>11. ASSUME NEW a, Total(r, a) PROVE FALSE
  <2>1. work[r].at = "total" /\ \E answers : Advance(r, a, "users", answers, answers, {})
    BY <1>11 DEF Total, Sends
  <2> QED
    BY <1>4, <2>1
<1>12. ASSUME NEW a, SaveUsers(r, a) PROVE FALSE
  <2>1. work[r].at = "users" /\ Advance(r, a, "idle", {}, {}, {})
    BY <1>12 DEF SaveUsers, Sends
  <2> QED
    BY <1>4, <2>1
<1>13. ASSUME CutShort(r) PROVE FALSE
  BY <1>1, <1>3, <1>13 DEF CutShort, PricersTyped
<1> QED
  BY <1>5, <1>6, <1>7, <1>8, <1>9, <1>10, <1>11, <1>12, <1>13

\* A call of it leaves what is not listed clean, and no hash marked deleted is
\* brought back that lists nothing.
LEMMA PricerElsewhere ==
  ASSUME TypeInv, NEW r \in Pricers, work[r] # Idle, ListedOf(work[r], listed),
         UNCHANGED recordVars,
         \/ \E x \in work[r].todo :
              \/ Fetch(r, x) \/ Replace(r, x) \/ Show(r, x) \/ Save(r, x)
              \/ Members(r, x) \/ Total(r, x) \/ SaveUsers(r, x)
         \/ \E u \in Users, p \in Portfolios : Value(r, u, p)
         \/ CutShort(r)
  PROVE  /\ \A h \in Holdings : Listed(h) \/ Clean(h) => (Listed(h) \/ Clean(h))'
         /\ \A p \in Portfolios : listed[p] = {} /\ p \in deleted => p \in deleted'
<1> USE DEF TypeInv, UserInv, UserTypeOK, TypeOK
<1>1. CASE UNCHANGED <<scv, shown, deleted>>
  BY <1>1 DEF Listed, Clean
<1>2. ASSUME NEW i \in work[r].todo, Replace(r, i) \/ Show(r, i)
      PROVE  /\ \A h \in Holdings : Listed(h) \/ Clean(h) => (Listed(h) \/ Clean(h))'
             /\ deleted' = deleted
  <2>1. work[r].stock \in listed[i.pf] /\ deleted' = deleted
    BY <1>2 DEF Replace, Show, Sends, ListedOf
  <2>2. \A h \in Holdings : h # <<i.pf, work[r].stock>> => scv'[h] = scv[h] /\ shown'[h] = shown[h]
    BY <1>2 DEF Replace, Show
  <2>3. \A h \in Holdings : h = <<i.pf, work[r].stock>> => Listed(h)
    BY <2>1 DEF Listed
  <2> QED
    BY <2>1, <2>2, <2>3 DEF Listed, Clean
<1>3. ASSUME NEW a \in work[r].todo, Save(r, a)
      PROVE  /\ \A h \in Holdings : Listed(h) \/ Clean(h) => (Listed(h) \/ Clean(h))'
             /\ \A p \in Portfolios : listed[p] = {} /\ p \in deleted => p \in deleted'
  <2>1. work[r].stock \in listed[a.pf] /\ deleted' = deleted \ {a.pf} /\ UNCHANGED <<scv, shown>>
    BY <1>3 DEF Save, Sends, ListedOf
  <2> QED
    BY <2>1 DEF Listed, Clean
<1>4. \/ UNCHANGED <<scv, shown, deleted>>
      \/ \E x \in work[r].todo : Replace(r, x) \/ Show(r, x) \/ Save(r, x)
  BY DEF Fetch, Members, Value, Total, SaveUsers, CutShort
<1> QED
  BY <1>1, <1>2, <1>3, <1>4

\* Prices leave the deletions as they are.
LEMMA PricerDeletion ==
  ASSUME TypeInv, LoneInv, DeletionInv, ValuationNext, PricerStep
  PROVE  DeletionInv'
<1>1. UNCHANGED recordVars /\ SpendsOne
  BY PricerAlone DEF TypeInv, PricerStep
<1>2. Marked'
  BY <1>1 DEF DeletionInv, Marked
<1>3. Alone' => OneKeeper'
  BY <1>1, SpendsAlone DEF TypeInv, DeletionInv, OneKeeper
<1>4. SUFFICES ASSUME Orderly', Cluster = FALSE PROVE Deleting'
  BY <1>2, <1>3 DEF DeletionInv
<1>5. Orderly /\ Deleting /\ Marked /\ Alone'
  BY <1>1, <1>4, OrderlyBefore DEF TypeInv, DeletionInv, Orderly
<1>6. ~TooLate'
  BY <1>4, <1>5, InTime DEF TypeInv, Deleting
<1>7. PICK r \in Pricers :
        IF work[r] = Idle
          THEN \E s \in Stocks, price \in Prices : FindPortfolios(r, s, price)
          ELSE \/ \E x \in work[r].todo :
                    \/ Fetch(r, x) \/ Replace(r, x) \/ Show(r, x) \/ Save(r, x)
                    \/ Members(r, x) \/ Total(r, x) \/ SaveUsers(r, x)
               \/ \E u \in Users, p \in Portfolios : Value(r, u, p)
               \/ CutShort(r)
  BY DEF PricerStep
<1>8. AtEvent'
  BY <1>1, <1>5, <1>7, PricerAtWork DEF Deleting, AtEvent, FindPortfolios, Keeping, InTurn,
     Unmapped, Gone
<1>9. \A t \in Trades : SoldOut(t)'
  <2>1. CASE work[r] = Idle
    BY <1>1, <1>5, <1>7, <2>1 DEF FindPortfolios, Deleting, SoldOut, Underway, inHolding
  <2>2. CASE work[r] # Idle
    BY <1>1, <1>5, <2>2, PricerAtWork DEF SoldOut, Underway, inHolding
  <2> QED
    BY <2>1, <2>2
<1>10. CASE work[r] = Idle
  <2>1. PICK s \in Stocks, price \in Prices : FindPortfolios(r, s, price)
    BY <1>7, <1>10
  <2>2. /\ UNCHANGED <<scv, shown, deleted>>
        /\ \A q \in Pricers \ {r} : work'[q] = work[q]
        /\ work'[r] = Idle \/ (/\ work'[r].at = "fetch" /\ work'[r].plan = {})
    BY <2>1 DEF FindPortfolios, TypeInv, PricersTyped
  <2>3. AtPrice'
    BY <1>1, <1>5, <2>2 DEF Deleting, AtPrice, ListedOf
  <2>4. Tidy' /\ AtTrade' /\ DoneDeleted'
    BY <1>1, <1>5, <2>2 DEF Deleting, Tidy, AtTrade, DoneDeleted, Listed, Clean, Underway,
       inHolding, Handling, Synced, Gone, Unmapped, InTurn
  <2> QED
    BY <1>6, <1>8, <1>9, <2>3, <2>4 DEF Deleting
<1>11. CASE work[r] # Idle
  <2>1. (\A w \in Workers : pc[w] = "idle") /\ Underway = {}
    BY <1>5, <1>11, PricerAtWork
  <2>2. AtTrade' /\ Underway' = {}
    BY <1>1, <2>1 DEF AtTrade, Underway, inHolding
  <2>3. AtPrice'
    BY <1>1, <1>5, <1>7, <1>11, <2>1, ListedStep DEF AtPrice
  <2>4. /\ \A h \in Holdings : Listed(h) \/ Clean(h) => (Listed(h) \/ Clean(h))'
        /\ \A p \in Portfolios : listed[p] = {} /\ p \in deleted => p \in deleted'
    BY <1>1, <1>5, <1>7, <1>11, PricerElsewhere DEF Deleting, AtPrice
  <2>5. Tidy'
    BY <1>5, <2>1, <2>4 DEF Deleting, Tidy
  <2>6. DoneDeleted'
    <3> SUFFICES ASSUME NEW e \in done, e.type = "DELETED" PROVE Gone(e)' /\ InTurn(e)'
      BY <1>1 DEF DoneDeleted
    <3>1. Gone(e) /\ InTurn(e) /\ e.pf \in Portfolios
      BY <1>5, EventsAssumption DEF Deleting, DoneDeleted, TypeInv, UserInv, UserTypeOK
    <3> QED
      BY <1>1, <2>4, <3>1 DEF Gone, Unmapped, InTurn
  <2> QED
    BY <1>6, <1>8, <1>9, <2>2, <2>3, <2>5, <2>6 DEF Deleting
<1> QED
  BY <1>10, <1>11

\* Nothing is held, and nothing deleted, at first.
LEMMA DeletionInit == ValuationInit => DeletionInv
<1> SUFFICES ASSUME ValuationInit PROVE DeletionInv
  OBVIOUS
<1> USE DEF ValuationInit, UserInit, Init
<1>1. Marked /\ OneKeeper /\ ~TooLate
  BY DEF Marked, OneKeeper, TooLate
<1>2. \A h \in Holdings : Clean(h)
  BY DEF Clean
<1>3. \A t \in Trades : SoldOut(t)
  BY DEF SoldOut, Underway, inHolding
<1>4. AtTrade /\ AtEvent /\ AtPrice /\ DoneDeleted
  BY DEF AtTrade, AtEvent, AtPrice, DoneDeleted
<1> QED
  BY <1>1, <1>2, <1>3, <1>4 DEF DeletionInv, Deleting, Tidy

\* DeletionInv is inductive.
LEMMA DeletionStep ==
  TypeInv /\ LoneInv /\ DeletionInv /\ [ValuationNext]_allVars => DeletionInv'
<1> SUFFICES ASSUME TypeInv, LoneInv, DeletionInv, [ValuationNext]_allVars
             PROVE  DeletionInv'
  OBVIOUS
<1>1. CASE UNCHANGED allVars
  BY <1>1 DEF DeletionInv, Marked, Alone, OneKeeper, Orderly, Deleting, TooLate, Tidy, SoldOut,
     AtTrade, AtEvent, AtPrice, DoneDeleted, Listed, Clean, Underway, inHolding, Handling, Synced,
     Keeping, Gone, Unmapped, InTurn
<1>2. CASE ValuationNext
  BY <1>2, TradeDeletion, KeeperDeletion, PricerDeletion DEF ValuationNext, UserNext
<1> QED
  BY <1>1, <1>2

\* Between the records and prices nothing is under way.
LEMMA NothingUnderway ==
  ASSUME TypeInv, LoneInv, Marked, Orderly, AtWork = 0
  PROVE  Underway = {}
<1> DEFINE A == Handled
           B == Kept
           C == Priced
<1>1. AtMostOne(A) /\ AtMostOne(B) /\ AtMostOne(C)
  BY DEF LoneInv, OneAtWork, OneOf, Orderly
<1>2. AtWork = Cardinality(A) + Cardinality(B) + Cardinality(C)
  BY DEF AtWork, Handled, Kept, Priced
<1> HIDE DEF A, B, C
<1>3. A = {} \/ Cardinality(A) = 1
  BY <1>1, NoneOrOne
<1>4. Cardinality(B) \in {0, 1} /\ Cardinality(C) \in {0, 1}
  BY <1>1, NoneOrOne
<1>5. A = {}
  BY <1>2, <1>3, <1>4
<1> QED
  BY <1>5, UnderwayHandled DEF A

\* On one node, a portfolio whose deletion is handled alone, after the trades
\* there are, is nobody's and holds nothing, whichever of its steps failed and
\* came again.
THEOREM DeletionLeavesNothing ==
  ASSUME Cluster = FALSE
  PROVE  ValuationSpec => []DeletedLeavesNothing
<1> DEFINE I == TypeInv /\ LoneInv /\ DeletionInv
<1>1. I /\ [ValuationNext]_allVars => I'
  BY TypeStep, LoneStep, DeletionStep
<1>2. ValuationInit => I
  BY TypeInit, LoneInit, DeletionInit
<1>3. I => DeletedLeavesNothing
  <2> SUFFICES ASSUME I, Orderly, AtWork = 0, NEW e \in done, e.type = "DELETED"
               PROVE  /\ e.pf \in deleted \ pending
                      /\ owner[e.pf] = Nobody /\ e.pf \notin members[e.user]
                      /\ listed[e.pf] = {}
                      /\ \A s \in Stocks : Clean(<<e.pf, s>>)
    BY DEF DeletedLeavesNothing, Clean
  <2>1. Gone(e) /\ Tidy
    BY DEF DeletionInv, Deleting, DoneDeleted
  <2>2. Underway = {}
    BY NothingUnderway DEF DeletionInv
  <2>3. e.pf \in Portfolios
    BY EventsAssumption DEF TypeInv, UserInv, UserTypeOK
  <2>4. ASSUME NEW s \in Stocks PROVE Clean(<<e.pf, s>>)
    <3>1. <<e.pf, s>> \in Holdings /\ ~Listed(<<e.pf, s>>)
      BY <2>1, <2>3 DEF Holdings, Listed, Gone
    <3> QED
      BY <2>1, <2>2, <3>1 DEF Tidy
  <2> QED
    BY <2>1, <2>4 DEF Gone, Unmapped
<1> HIDE DEF I
<1> QED
  BY <1>1, <1>2, <1>3, PTL DEF ValuationSpec

----------------------------------------------------------------------------
(* A stock's set of portfolios *)

\* The deletion of h's portfolio has begun and is not through.
Deletes(e, h) == e.type = "DELETED" /\ e.pf = h[1]

\* There is something of h, but for what a trade or a deletion is changing.
Backed(h) ==
  \/ quantity[h] # 0
  \/ \E t \in Underway : Holding(t) = h
  \/ Cluster = FALSE /\ \E e \in counted \ done : Deletes(e, h)

\* A portfolio with a holding has a user, unless its deletion has been counted.
Owned(h) == owner[h[1]] # Nobody \/ \E e \in counted : Deletes(e, h)

MappedPhases == {"read", "cas", "index"} \cup SyncedPhases

\* How far w has come with the index of t's stock.
Indexing(w, t) ==
  /\ pc[w] \in TradePhases => t \notin processed
  /\ pc[w] \in MappedPhases => owner[t.pf] # Nobody
  /\ pc[w] = "index" => seen[w] = quantity[Holding(t)]
  /\ pc[w] \in SyncedPhases /\ Holding(t) \in indexed => quantity[Holding(t)] # 0

\* How far k has come with the mapping of e's portfolio.
Unmapping(k, e) ==
  /\ step[k] \in {"subtract", "unmap"} => e.type = "DELETED"
  /\ step[k] = "unmap" => e \in counted \/ owner[e.pf] = Nobody

Indexes == \A w \in Workers : pc[w] # "idle" => Indexing(w, trade[w])

Unmappings == \A k \in Keepers : event[k] # NoEvent => Unmapping(k, event[k])

Backing == (\A h \in indexed : Backed(h) /\ Owned(h)) /\ Indexes /\ Unmappings

BackedInv == (\A u \in Users : IsFiniteSet(members[u])) /\ (Orderly => Backing)

\* What a call for t leaves alone of the other holdings, and of the owners.
IndexElsewhere(t) ==
  /\ \A h \in Holdings : h # Holding(t) =>
       quantity'[h] = quantity[h] /\ (h \in indexed' => h \in indexed)
  /\ \A p \in Portfolios : owner[p] # Nobody => owner'[p] # Nobody
  /\ indexed' \subseteq Holdings

\* What it does to t's own.
IndexHere(t) ==
  Holding(t) \in indexed' =>
    /\ \/ t \in Underway' \/ quantity'[Holding(t)] # 0
       \/ /\ t \notin Underway /\ Holding(t) \in indexed
          /\ quantity'[Holding(t)] = quantity[Holding(t)]
    /\ Holding(t) \in indexed \/ owner[t.pf] # Nobody

\* The calls that change none of what Indexing is about but the worker's phase.
LEMMA QuietIndex ==
  ASSUME TypeInv, Marked, NEW w \in Workers, NEW t \in Trades, t = trade[w], Indexing(w, t),
         \/ Check(w) \/ ReadQuantity(w) \/ CasApplied(w) \/ CasConflict(w)
         \/ ReadLegacy(w) \/ Project(w) \/ ApplyUser(w) \/ SavePortfolio(w) \/ SaveUser(w)
         \/ CallFails(w) \/ Crash(w)
         \/ \E lost \in SUBSET Fields : ReadPortfolio(w, lost) \/ ReadUser(w, lost)
  PROVE  /\ UNCHANGED <<quantity, turned, indexed, processed, owner, members>>
         /\ pc'[w] # "idle" => Indexing(w, t)'
<1> USE DEF Indexing, TradePhases, MappedPhases, SyncedPhases, Goto, Continue, TypeInv,
            UserInv, UserTypeOK, TypeOK
<1>1. CASE Check(w)
  BY <1>1 DEF Check, Fresh
<1>2. CASE ReadQuantity(w)
  BY <1>2 DEF ReadQuantity
<1>3. CASE CasApplied(w)
  BY <1>3 DEF CasApplied
<1>4. CASE CasConflict(w)
  BY <1>4 DEF CasConflict
<1>5. CASE ReadLegacy(w)
  BY <1>5 DEF ReadLegacy
<1>6. CASE Project(w)
  BY <1>6 DEF Project
<1>7. CASE ApplyUser(w)
  BY <1>7 DEF ApplyUser
<1>8. CASE SavePortfolio(w)
  BY <1>8 DEF SavePortfolio
<1>9. CASE SaveUser(w)
  BY <1>9 DEF SaveUser
<1>10. CASE CallFails(w) \/ Crash(w)
  BY <1>10 DEF CallFails, Crash
<1>11. CASE \E lost \in SUBSET Fields : ReadPortfolio(w, lost) \/ ReadUser(w, lost)
  BY <1>11 DEF ReadPortfolio, ReadUser
<1> QED
  BY <1>1, <1>2, <1>3, <1>4, <1>5, <1>6, <1>7, <1>8, <1>9, <1>10, <1>11

\* A call of w leaves the index of t's stock following the quantity.
LEMMA TradeIndex ==
  ASSUME TypeInv, Marked, NEW w \in Workers, NEW t \in Trades, t = trade[w], Indexing(w, t),
         Work(w) \/ Failure(w)
  PROVE  IndexElsewhere(t) /\ IndexHere(t) /\ (pc'[w] # "idle" => Indexing(w, t)')
<1> USE DEF IndexElsewhere, IndexHere
<1>1. /\ Holding(t) \in Holdings /\ t.pf \in Portfolios /\ t.user \in Users
      /\ indexed \subseteq Holdings /\ Nobody \notin Users
  BY HoldingType, TradeParts, NamesAssumption DEF TypeInv, UserInv, UserTypeOK, TypeOK
<1>2. ASSUME UNCHANGED <<quantity, turned, indexed, processed, owner>>
      PROVE  IndexElsewhere(t) /\ IndexHere(t)
  BY <1>1, <1>2 DEF Underway, inHolding
<1>3. CASE MapUser(w) \/ MapHalf(w) \/ FindUser(w)
  <2>1. /\ UNCHANGED <<quantity, turned, indexed, processed, seen>>
        /\ pc[w] \in {"map", "enroll"}
        /\ owner' \in {owner, [owner EXCEPT ![t.pf] = t.user]}
        /\ pc'[w] \in {"enroll", "check"} \/ (pc'[w] = "read" /\ owner'[t.pf] # Nobody)
    BY <1>1, <1>3 DEF MapUser, MapHalf, FindUser, Goto, Continue, TypeInv, UserInv,
       UserTypeOK, TypeOK
  <2>2. IndexElsewhere(t)
    BY <1>1, <2>1 DEF TypeInv, UserInv, UserTypeOK, TypeOK
  <2>3. IndexHere(t)
    BY <2>1 DEF Underway, inHolding
  <2> QED
    BY <2>1, <2>2, <2>3 DEF Indexing, TradePhases, MappedPhases, SyncedPhases
<1>4. CASE CasOk(w)
  <2>1. /\ pc[w] = "cas" /\ turned[t] = "none" /\ UNCHANGED <<indexed, processed, owner>>
        /\ quantity' = [quantity EXCEPT ![Holding(t)] = After(t, seen[w])]
        /\ seen' = [seen EXCEPT ![w] = After(t, seen[w])]
        /\ turned'[t] \in {"yes", "no"} /\ pc'[w] \in {"index", "check"}
    BY <1>4 DEF CasOk, Goto, Continue, TypeInv, UserInv, UserTypeOK, TypeOK
  <2>2. seen'[w] = quantity'[Holding(t)]
    BY <1>1, <2>1 DEF TypeInv, UserInv, UserTypeOK, TypeOK
  <2>3. t \in Underway'
    BY <2>1 DEF Underway, inHolding, Indexing, TradePhases
  <2> QED
    BY <1>1, <2>1, <2>2, <2>3 DEF Indexing, TradePhases, MappedPhases, SyncedPhases
<1>5. CASE SyncIndex(w)
  <2>1. /\ pc[w] = "index" /\ UNCHANGED <<quantity, turned, processed, owner>>
        /\ indexed' = IF seen[w] > 0 THEN indexed \cup {Holding(t)} ELSE indexed \ {Holding(t)}
        /\ pc'[w] \in {"legacy", "check"}
    BY <1>5 DEF SyncIndex, Goto, Continue, TypeInv, UserInv, UserTypeOK, TypeOK
  <2>2. t \in Underway'
    BY <2>1 DEF Underway, inHolding, Indexing, TradePhases, TypeInv, UserInv, MarkerInv,
       PastMarker
  <2>3. (Holding(t) \in indexed' => quantity[Holding(t)] # 0) /\ owner[t.pf] # Nobody
    BY <2>1 DEF Indexing, MappedPhases
  <2> QED
    BY <1>1, <2>1, <2>2, <2>3 DEF Indexing, TradePhases, MappedPhases, SyncedPhases
<1>6. CASE ApplyTotals(w)
  <2>1. UNCHANGED <<quantity, turned, indexed, processed, owner>> /\ pc[w] = "totals"
        /\ Continue(w, "project")
    BY <1>6 DEF ApplyTotals
  <2> QED
    BY <1>2, <2>1 DEF Indexing, TradePhases, MappedPhases, SyncedPhases, Goto, Continue,
       TypeInv, UserInv, UserTypeOK, TypeOK
<1>7. CASE MarkProcessed(w)
  <2>1. /\ pc[w] = "mark" /\ UNCHANGED <<quantity, turned, indexed, owner>>
        /\ processed' = processed \cup {t} /\ pc'[w] \in {"pfread", "check"}
    BY <1>7 DEF MarkProcessed, Goto, Continue, TypeInv, UserInv, UserTypeOK, TypeOK
  <2> QED
    BY <1>1, <2>1 DEF Indexing, TradePhases, MappedPhases, SyncedPhases
<1>8. CASE ~(MapUser(w) \/ MapHalf(w) \/ FindUser(w) \/ CasOk(w) \/ SyncIndex(w)
               \/ ApplyTotals(w) \/ MarkProcessed(w))
  BY <1>2, <1>8, QuietIndex DEF Work, Compute, Failure
<1> QED
  BY <1>3, <1>4, <1>5, <1>6, <1>7, <1>8

\* With a trade or a price at work, every counted record is done.
LEMMA CountedDone ==
  ASSUME TypeInv, LoneInv, Orderly, Handled # {} \/ Priced # {}
  PROVE  counted \subseteq done
<1>1. Kept = {}
  BY DEF LoneInv, OneAtWork, OneOf, Orderly
<1>2. \A e \in counted : e # NoEvent
  BY EventsAssumption DEF TypeInv, UserInv, UserTypeOK
<1> QED
  BY <1>1, <1>2 DEF Kept

\* A user's set stays finite.
LEMMA MembersStep ==
  ASSUME TypeInv, \A u \in Users : IsFiniteSet(members[u]),
         \/ \E w \in Workers : (\E t \in Trades : Take(w, t)) \/ Work(w) \/ Failure(w)
         \/ KeeperStep \/ PricerStep
  PROVE  \A u \in Users : IsFiniteSet(members'[u])
<1>1. \/ members' = members
      \/ \E u \in Users, p \in Portfolios :
           members' \in {[members EXCEPT ![u] = members[u] \cup {p}],
                         [members EXCEPT ![u] = members[u] \ {p}]}
  <2>1. ASSUME NEW w \in Workers, (\E t \in Trades : Take(w, t)) \/ Work(w) \/ Failure(w)
        PROVE  \/ members' = members
               \/ \E u \in Users, p \in Portfolios :
                    members' = [members EXCEPT ![u] = members[u] \cup {p}]
    <3>1. CASE MapUser(w) \/ MapHalf(w) \/ FindUser(w)
      <4>1. trade[w] \in Trades
        BY <3>1 DEF MapUser, MapHalf, FindUser, TypeInv, UserInv, UserTypeOK, TypeOK
      <4>2. trade[w].pf \in Portfolios /\ trade[w].user \in Users
        BY <4>1, TradeParts
      <4> QED
        BY <3>1, <4>2 DEF MapUser, MapHalf, FindUser
    <3>2. CASE ~(MapUser(w) \/ MapHalf(w) \/ FindUser(w))
      BY <2>1, <3>2 DEF Take, Work, Compute, Failure, Check, ReadQuantity, CasApplied,
         CasConflict, CasOk, SyncIndex, ReadLegacy, ApplyTotals, Project, ApplyUser,
         MarkProcessed, ReadPortfolio, SavePortfolio, ReadUser, SaveUser, CallFails, Crash
    <3> QED
      BY <3>1, <3>2
  <2>2. ASSUME NEW k \in Keepers, KeeperWork(k) \/ KeeperFails(k) \/ KeeperDies(k)
        PROVE  \/ members' = members
               \/ \E u \in Users, p \in Portfolios :
                    members' \in {[members EXCEPT ![u] = members[u] \cup {p}],
                                  [members EXCEPT ![u] = members[u] \ {p}]}
    <3>1. CASE MapPortfolio(k) \/ Unmap(k)
      <4>1. event[k].pf \in Portfolios /\ event[k].user \in Users
        <5>1. step[k] # "idle"
          BY <3>1 DEF MapPortfolio, Unmap
        <5>2. event[k] \in Events
          BY <5>1 DEF TypeInv, UserInv, UserTypeOK
        <5> QED
          BY <5>2, EventsAssumption
      <4> QED
        BY <3>1, <4>1 DEF MapPortfolio, Unmap, Pipeline
    <3>2. CASE ~(MapPortfolio(k) \/ Unmap(k))
      BY <2>2, <3>2 DEF KeeperWork, KeeperFails, KeeperDies, Look, CountPending,
         UncountPending, ReadTotals, ApplyEvent, ClearPending, MarkDeleted, FindStocks, Wipe,
         ReadUserOf, SaveUserOf
    <3> QED
      BY <3>1, <3>2
  <2>3. KeeperStep => \/ members' = members
                      \/ \E k \in Keepers : KeeperWork(k) \/ KeeperFails(k) \/ KeeperDies(k)
    BY DEF KeeperStep, TakeEvent, Redeliver
  <2>4. PricerStep => members' = members
    BY DEF PricerStep
  <2> QED
    BY <2>1, <2>2, <2>3, <2>4
<1> SUFFICES ASSUME NEW u \in Users PROVE IsFiniteSet(members'[u])
  OBVIOUS
<1>2. CASE members' = members
  BY <1>2
<1>3. ASSUME NEW v \in Users, NEW p \in Portfolios,
             members' \in {[members EXCEPT ![v] = members[v] \cup {p}],
                           [members EXCEPT ![v] = members[v] \ {p}]}
      PROVE  IsFiniteSet(members'[u])
  <2>1. IsFiniteSet(members[v] \cup {p}) /\ IsFiniteSet(members[v] \ {p})
    BY FS_AddElement, FS_RemoveElement
  <2>2. members'[u] \in {members[u], members[v] \cup {p}, members[v] \ {p}}
    BY <1>3 DEF TypeInv, UserInv, UserTypeOK, TypeOK
  <2> QED
    BY <2>1, <2>2
<1> QED
  BY <1>1, <1>2, <1>3

\* Trades keep what is indexed backed.
LEMMA TradeBacked ==
  ASSUME TypeInv, LoneInv, DeletionInv, BackedInv, ValuationNext, TradeStep,
         UNCHANGED pricerVars
  PROVE  BackedInv'
<1>1. PICK w \in Workers : (\E t \in Trades : Take(w, t)) \/ Work(w) \/ Failure(w)
  BY DEF TradeStep, Work
<1>2. UNCHANGED <<eventVars, keeperVars>> /\ SpendsOne
  BY TradeAlone DEF TradeStep, TypeInv
<1>3. SUFFICES ASSUME Orderly' PROVE Backing'
  BY <1>1, MembersStep DEF BackedInv
<1>4. Orderly /\ Backing
  BY <1>2, <1>3, OrderlyBefore DEF TypeInv, BackedInv
<1>5. CASE \E t \in Trades : Take(w, t)
  <2>1. PICK t \in Trades : Take(w, t)
    BY <1>5
  <2>2. /\ pc' = [pc EXCEPT ![w] = "check"] /\ trade' = [trade EXCEPT ![w] = t]
        /\ UNCHANGED <<quantity, turned, indexed, processed, owner, seen>>
    BY <2>1 DEF Take, Goto
  <2>3. \A h \in indexed' : Backed(h)' /\ Owned(h)'
    BY <1>2, <1>4, <2>2 DEF Backing, Backed, Owned, Underway, inHolding
  <2>4. Indexes'
    <3> SUFFICES ASSUME NEW v \in Workers, pc'[v] # "idle" PROVE Indexing(v, trade[v])'
      BY DEF Indexes
    <3>1. CASE v = w
      BY <2>2, <3>1 DEF Indexing, TradePhases, MappedPhases, SyncedPhases, TypeInv, UserInv,
         UserTypeOK, TypeOK
    <3>2. CASE v # w
      <4>1. pc'[v] = pc[v] /\ trade'[v] = trade[v]
        BY <2>2, <3>2 DEF TypeInv, UserInv, UserTypeOK, TypeOK
      <4> QED
        BY <1>4, <2>2, <4>1 DEF Backing, Indexes, Indexing
    <3> QED
      BY <3>1, <3>2
  <2>5. Unmappings'
    BY <1>2, <1>4, <2>2 DEF Backing, Unmappings, Unmapping
  <2> QED
    BY <2>3, <2>4, <2>5 DEF Backing
<1>6. CASE Work(w) \/ Failure(w)
  <2>1. pc[w] # "idle"
    BY <1>6 DEF Work, Compute, Failure, Check, MapUser, ReadQuantity, CasApplied, CasConflict,
       CasOk, ReadLegacy, ApplyTotals, Project, ApplyUser, MarkProcessed, ReadPortfolio,
       ReadUser, SaveUser, SyncIndex, SavePortfolio, MapHalf, FindUser, CallFails, Crash
  <2>2. PICK t \in Trades : t = trade[w]
    BY <2>1 DEF TypeInv, UserInv, UserTypeOK, TypeOK
  <2>3. /\ \A v \in Workers \ {w} : pc[v] = "idle"
        /\ \A k \in Keepers : event[k] = NoEvent
        /\ \A u \in Underway : u = t
    BY <1>4, <2>1, <2>2, TradeAtWork DEF DeletionInv
  <2>4. counted \subseteq done
    BY <1>4, <2>1, CountedDone DEF Handled
  <2>5. IndexElsewhere(t) /\ IndexHere(t) /\ (pc'[w] # "idle" => Indexing(w, t)')
    BY <1>4, <1>6, <2>1, <2>2, TradeIndex DEF Backing, Indexes, DeletionInv
  <2>6. \A h \in indexed : Owned(h) /\ (quantity[h] # 0 \/ (t \in Underway /\ h = Holding(t)))
    BY <1>4, <2>3, <2>4 DEF Backing, Backed
  <2>7. ASSUME NEW h \in indexed' PROVE Backed(h)' /\ Owned(h)'
    <3>1. h \in Holdings /\ h[1] \in Portfolios
      BY <2>5 DEF IndexElsewhere, Holdings
    <3>2. CASE h = Holding(t)
      <4>1. Backed(h)'
        BY <2>5, <2>6, <3>2 DEF IndexHere, Backed
      <4>2. owner[h[1]] # Nobody \/ Owned(h)
        BY <2>5, <2>6, <3>2 DEF IndexHere, Holding
      <4> QED
        BY <1>2, <2>5, <3>1, <4>1, <4>2 DEF IndexElsewhere, Owned
    <3>3. CASE h # Holding(t)
      BY <1>2, <2>5, <2>6, <3>1, <3>3 DEF IndexElsewhere, Backed, Owned
    <3> QED
      BY <3>2, <3>3
  <2>8. Indexes'
    BY <1>6, <2>2, <2>3, <2>5, WorkerFrame DEF Indexes, WorkerMoves, TypeInv
  <2>9. Unmappings'
    BY <1>2, <2>3 DEF Unmappings
  <2> QED
    BY <2>7, <2>8, <2>9 DEF Backing
<1> QED
  BY <1>1, <1>5, <1>6

\* A keeper comes to the mapping of a deleted portfolio with its event counted,
\* or with nothing mapped.
LEMMA KeeperUnmapping ==
  ASSUME TypeInv, NEW k \in Keepers, NEW e \in Events, e = event[k], Unmapping(k, e), Alone',
         KeeperWork(k) \/ KeeperFails(k) \/ KeeperDies(k)
  PROVE  event'[k] # NoEvent => event'[k] = e /\ Unmapping(k, e)'
<1> USE DEF Unmapping, TypeInv, UserInv, UserTypeOK
<1>1. e.type \in {"CREATED", "DELETED"} /\ e.pf \in Portfolios /\ e.user \in Users
  BY EventsAssumption
<1>2. ~Spend("misreads")
  BY DEF Spend, Alone, Bounds, TypeOK
<1>3. ASSUME event' = event, step'[k] \notin {"subtract", "unmap"}
      PROVE  event'[k] = e /\ Unmapping(k, e)'
  BY <1>3
<1>4. CASE Look(k)
  BY <1>1, <1>2, <1>4 DEF Look, Enter, Saw
<1>5. CASE UncountPending(k)
  BY <1>5 DEF UncountPending, Enter, At
<1>6. CASE ApplyEvent(k, "subtract", "unmap")
  <2>1. event' = event /\ e \in counted' /\ step[k] = "subtract"
        /\ step' \in {[step EXCEPT ![k] = "unmap"], [step EXCEPT ![k] = "look"]}
    BY <1>6 DEF ApplyEvent, AndThen, Enter
  <2> QED
    BY <2>1
<1>7. CASE ApplyEvent(k, "count", "clear") \/ ApplyEvent(k, "add", "map")
  <2>1. event' = event /\ \E phase \in {"clear", "map", "look"} : step' = [step EXCEPT ![k] = phase]
    BY <1>7 DEF ApplyEvent, AndThen, Enter
  <2> QED
    BY <1>3, <2>1
<1>8. CASE CountPending(k) \/ \E lost \in SUBSET {"pv", "cvp"} : ReadTotals(k, lost)
  <2>1. event' = event /\ \E phase \in {"count", "usrread", "add", "pending"} :
                            step' = [step EXCEPT ![k] = phase]
    BY <1>8 DEF CountPending, ReadTotals, Enter
  <2> QED
    BY <1>3, <2>1
<1>9. CASE ClearPending(k) \/ MapPortfolio(k) \/ Unmap(k) \/ MarkDeleted(k)
  <2>1. event' = event /\ \E phase \in {"usrread", "look", "delete", "stocks"} :
                            step' = [step EXCEPT ![k] = phase]
    BY <1>9 DEF ClearPending, MapPortfolio, Unmap, MarkDeleted, Pipeline, AndThen, Enter
  <2> QED
    BY <1>3, <2>1
<1>10. CASE FindStocks(k) \/ Wipe(k) \/ \E lost \in SUBSET Fields : ReadUserOf(k, lost)
  <2>1. event' = event /\ \E phase \in {"wipe", "look", "usrread", "usrsave"} :
                            step' = [step EXCEPT ![k] = phase]
    BY <1>10 DEF FindStocks, Wipe, ReadUserOf, AndThen, Enter
  <2> QED
    BY <1>3, <2>1
<1>11. CASE SaveUserOf(k) \/ KeeperFails(k) \/ KeeperDies(k)
  <2>1. \/ event' = [event EXCEPT ![k] = NoEvent]
        \/ event' = event /\ step' = [step EXCEPT ![k] = "look"]
    BY <1>11 DEF SaveUserOf, KeeperFails, KeeperDies, Leave, Enter
  <2> QED
    BY <1>3, <2>1
<1> QED
  BY <1>4, <1>5, <1>6, <1>7, <1>8, <1>9, <1>10, <1>11 DEF KeeperWork

\* What a step of k at e does to the stocks' sets, the quantities and the owners.
LEMMA KeeperIndex ==
  ASSUME TypeInv, NEW k \in Keepers, NEW e \in Events, e = event[k],
         KeeperWork(k) \/ KeeperFails(k) \/ KeeperDies(k)
  PROVE  /\ \A h \in indexed' : h \in indexed /\ h \in Holdings
         /\ \A h \in Holdings : quantity'[h] # quantity[h] =>
              Cluster = FALSE /\ step[k] = "wipe" /\ h[1] = e.pf /\ done' = done
         /\ \A p \in Portfolios : owner[p] # Nobody =>
              owner'[p] # Nobody \/ (step[k] = "unmap" /\ p = e.pf)
         /\ counted \subseteq counted'
         /\ done' = done \/ done' = done \cup {e}
<1> USE DEF TypeInv, UserInv, UserTypeOK, TypeOK
<1>1. e.pf \in Portfolios /\ e.user \in Users /\ Nobody \notin Users
  BY EventsAssumption, NamesAssumption
<1>2. CASE MapPortfolio(k)
  BY <1>1, <1>2 DEF MapPortfolio, Pipeline
<1>3. CASE Unmap(k)
  BY <1>1, <1>3 DEF Unmap, Pipeline
<1>4. CASE Wipe(k)
  <2> DEFINE all == {e.pf} \X found[k]
  <2>1. step[k] = "wipe" /\ UNCHANGED <<owner, counted, done>>
    BY <1>4 DEF Wipe
  <2>2. PICK valued, held : /\ Forget(valued, held)
                            /\ held \subseteq IF Cluster THEN {} ELSE all
    BY <1>4 DEF Wipe
  <2>3. indexed' \subseteq indexed /\ \A h \in Holdings : h \notin held => quantity'[h] = quantity[h]
    BY <2>2 DEF Forget
  <2>4. \A h \in held : Cluster = FALSE /\ h[1] = e.pf
    BY <2>2, EventsAssumption
  <2> QED
    BY <2>1, <2>3, <2>4
<1>5. CASE ~(MapPortfolio(k) \/ Unmap(k) \/ Wipe(k))
  <2>1. UNCHANGED <<stateVars, owner>> /\ counted \subseteq counted'
        /\ (done' = done \/ done' = done \cup {e})
    BY <1>5 DEF KeeperWork, Look, CountPending, UncountPending, ReadTotals, ApplyEvent,
       ClearPending, MarkDeleted, FindStocks, ReadUserOf, SaveUserOf, KeeperFails, KeeperDies
  <2> QED
    BY <2>1
<1> QED
  BY <1>2, <1>3, <1>4, <1>5

\* So it is for the holdings of the sets.
LEMMA RecordBacked ==
  ASSUME TypeInv, LoneInv, DeletionInv, DeletionInv', Orderly, Orderly', Backing,
         NEW k \in Keepers, event[k] # NoEvent,
         UNCHANGED tradeOnlyVars, KeeperWork(k) \/ KeeperFails(k) \/ KeeperDies(k)
  PROVE  Backing'
<1>1. Marked /\ OneKeeper
  BY DEF DeletionInv, Orderly
<1>2. /\ \A w \in Workers : pc[w] = "idle"
      /\ \A j \in Keepers \ {k} : event[j] = NoEvent
      /\ Underway = {}
  BY <1>1, KeeperAtWork
<1>3. PICK e \in Events : e = event[k]
  BY DEF TypeInv, UserInv, UserTypeOK
<1>4. Unmapping(k, e)
  BY <1>3 DEF Backing, Unmappings
<1>5. event'[k] # NoEvent => event'[k] = e /\ Unmapping(k, e)'
  BY <1>3, <1>4, KeeperUnmapping DEF Orderly
<1>6. /\ \A h \in indexed' : h \in indexed /\ h \in Holdings
      /\ \A h \in Holdings : quantity'[h] # quantity[h] =>
           Cluster = FALSE /\ step[k] = "wipe" /\ h[1] = e.pf /\ done' = done
      /\ \A p \in Portfolios : owner[p] # Nobody =>
           owner'[p] # Nobody \/ (step[k] = "unmap" /\ p = e.pf)
      /\ counted \subseteq counted'
      /\ done' = done \/ done' = done \cup {e}
  BY <1>3, KeeperIndex
<1>7. Underway' = {} /\ Indexes'
  BY <1>2 DEF Underway, inHolding, Indexes
<1>8. Unmappings'
  <2> SUFFICES ASSUME NEW j \in Keepers, event'[j] # NoEvent PROVE Unmapping(j, event[j])'
    BY DEF Unmappings
  <2>1. j = k
    BY <1>2, KeeperWorks DEF TypeInv, KeeperMoves
  <2> QED
    BY <1>5, <2>1 DEF Unmapping
<1>9. ASSUME NEW h \in indexed' PROVE Backed(h)' /\ Owned(h)'
  <2>1. h \in indexed /\ h \in Holdings /\ h[1] \in Portfolios /\ Backed(h) /\ Owned(h)
    BY <1>6, <1>9 DEF Backing, Holdings
  <2>2. Owned(h)'
    BY <1>4, <1>6, <2>1 DEF Owned, Unmapping, Deletes
  <2>3. CASE quantity'[h] # quantity[h]
    <3>1. Cluster = FALSE /\ step[k] = "wipe" /\ h[1] = e.pf /\ done' = done
      BY <1>6, <2>1, <2>3
    <3>2. Deleting /\ Keeping(k, e)
      BY <1>3, <3>1 DEF DeletionInv, Deleting, AtEvent
    <3>3. PICK f \in counted : Deletes(f, h)
      BY <2>1, <3>1, <3>2 DEF Owned, Keeping, Unmapped
    <3>4. f \notin done
      <4> SUFFICES ASSUME f \in done PROVE FALSE
        OBVIOUS
      <4>1. InTurn(f) /\ f \in Events /\ f.type = "DELETED" /\ f.pf = e.pf /\ e \notin done
        BY <3>1, <3>2, <3>3 DEF Deleting, DoneDeleted, Keeping, Deletes, TypeInv, UserInv,
           UserTypeOK
      <4>2. e.type = "CREATED" \/ e = f
        BY <4>1, EventsAssumption
      <4> QED
        BY <4>1, <4>2 DEF InTurn, Before
    <3> QED
      BY <1>6, <2>2, <3>1, <3>3, <3>4 DEF Backed
  <2>4. CASE quantity'[h] = quantity[h] /\ quantity[h] # 0
    BY <2>2, <2>4 DEF Backed
  <2>5. CASE quantity'[h] = quantity[h] /\ quantity[h] = 0
    <3>1. Cluster = FALSE
      BY <1>2, <2>1, <2>5 DEF Backed
    <3>2. PICK f \in counted : Deletes(f, h) /\ f \notin done
      BY <1>2, <2>1, <2>5 DEF Backed
    <3>3. CASE f \in done'
      <4>1. f = e /\ Deleting'
        BY <1>6, <3>1, <3>2, <3>3 DEF DeletionInv
      <4>2. Gone(e)' /\ h[1] = e.pf
        BY <3>2, <3>3, <4>1 DEF Deleting, DoneDeleted, Deletes
      <4>3. ~Listed(h)'
        BY <4>2 DEF Gone, Listed
      <4>4. Clean(h)'
        BY <1>7, <2>1, <4>1, <4>3 DEF Deleting, Tidy
      <4> QED
        BY <1>9, <4>4 DEF Clean
    <3>4. CASE f \notin done'
      BY <1>6, <2>2, <3>1, <3>2, <3>4 DEF Backed, Deletes
    <3> QED
      BY <3>3, <3>4
  <2> QED
    BY <2>3, <2>4, <2>5
<1> QED
  BY <1>7, <1>8, <1>9 DEF Backing

\* So do the portfolio-user records,
LEMMA KeeperBacked ==
  ASSUME TypeInv, LoneInv, DeletionInv, DeletionInv', BackedInv, ValuationNext, KeeperStep,
         UNCHANGED pricerVars
  PROVE  BackedInv'
<1>1. UNCHANGED tradeOnlyVars /\ SpendsOne
  BY KeeperAlone DEF KeeperStep, TypeInv
<1>2. SUFFICES ASSUME Orderly' PROVE Backing'
  BY MembersStep DEF BackedInv
<1>3. Orderly /\ Backing
  BY <1>1, <1>2, OrderlyBefore DEF TypeInv, BackedInv
<1>4. ASSUME UNCHANGED <<stateVars, mapVars, counted>>, done' \subseteq done,
             \A k \in Keepers : event'[k] # NoEvent =>
               step'[k] = "look" \/ (event'[k] = event[k] /\ step'[k] = step[k])
      PROVE  Backing'
  <2>1. Underway' = Underway /\ Indexes'
    BY <1>1, <1>3, <1>4 DEF Backing, Underway, inHolding, Indexes, Indexing
  <2>2. Unmappings'
    <3> SUFFICES ASSUME NEW k \in Keepers, event'[k] # NoEvent PROVE Unmapping(k, event[k])'
      BY DEF Unmappings
    <3>1. CASE step'[k] = "look"
      BY <3>1 DEF Unmapping
    <3>2. CASE event'[k] = event[k] /\ step'[k] = step[k]
      BY <1>3, <1>4, <3>2 DEF Backing, Unmappings, Unmapping
    <3> QED
      BY <1>4, <3>1, <3>2
  <2>3. ASSUME NEW h \in indexed PROVE Backed(h)' /\ Owned(h)'
    BY <1>3, <1>4, <2>1 DEF Backing, Backed, Owned
  <2> QED
    BY <1>4, <2>1, <2>2, <2>3 DEF Backing
<1>5. CASE \E k \in Keepers, e \in Events : TakeEvent(k, e)
  BY <1>4, <1>5 DEF TakeEvent, Enter, TypeInv, UserInv, UserTypeOK
<1>6. CASE \E e \in Events : Redeliver(e)
  BY <1>4, <1>6 DEF Redeliver
<1>7. ASSUME NEW k \in Keepers, KeeperWork(k) \/ KeeperFails(k) \/ KeeperDies(k)
      PROVE  Backing'
  <2>1. step[k] # "idle"
    BY <1>7 DEF KeeperWork, KeeperFails, KeeperDies, Look, CountPending, UncountPending,
       ReadTotals, ApplyEvent, ClearPending, MapPortfolio, Unmap, MarkDeleted, FindStocks,
       Wipe, ReadUserOf, SaveUserOf, At
  <2>2. event[k] # NoEvent
    BY <2>1 DEF TypeInv, UserInv, UserTypeOK
  <2> QED
    BY <1>1, <1>2, <1>3, <1>7, <2>2, RecordBacked
<1> QED
  BY <1>5, <1>6, <1>7 DEF KeeperStep

\* and the prices.
LEMMA PricerBacked ==
  ASSUME TypeInv, LoneInv, BackedInv, ValuationNext, PricerStep
  PROVE  BackedInv'
<1>1. UNCHANGED recordVars /\ SpendsOne
  BY PricerAlone DEF TypeInv, PricerStep
<1>2. SUFFICES ASSUME Orderly' PROVE Backing'
  BY MembersStep DEF BackedInv
<1>3. Orderly /\ Backing
  BY <1>1, <1>2, OrderlyBefore DEF TypeInv, BackedInv
<1> QED
  BY <1>1, <1>3 DEF Backing, Backed, Owned, Indexes, Indexing, Unmappings, Unmapping, Underway,
     inHolding

----------------------------------------------------------------------------
(* A fan-out that nothing comes between *)

\* The portfolios in the set of s, what a holding of s is worth, and who has one.
Holders(s) == {p \in Portfolios : <<p, s>> \in indexed}

Worth(p, s, price) == quantity[<<p, s>>] * price

Owners(s) == {owner[p] : p \in Holders(s)} \ {Nobody}

TotalOf(u) == SumFunctionOnSet(currents, members[u])

\* Every holder is planned at the new price, and planned once.
PlanFull(x) ==
  /\ \A i \in x.plan : i.pf \in Holders(x.stock) /\ i.new = Worth(i.pf, x.stock, x.price)
  /\ \A i, j \in x.plan : i.pf = j.pf => i = j

Covers(S, s) == \A p \in Holders(s) : \E i \in S : i.pf = p

\* An answer is what the hash has.
AnswerTrue(a) == a.user = owner[a.pf] /\ a.cv = pf[a.pf].cvp

\* Every holding has the new value, and shows it; every holder has it saved.
Revalued(x) ==
  \A p \in Holders(x.stock) :
    LET h == <<p, x.stock>>
    IN  scv[h] = Worth(p, x.stock, x.price) /\ shown[h] = scv[h]

SavedAll(x) == Revalued(x) /\ \A p \in Holders(x.stock) : pf[p].cv = pf[p].cvp

\* How far x has come in each phase.
Fetching(x) ==
  /\ PlanFull(x) /\ x.todo \subseteq Holders(x.stock)
  /\ \A p \in Holders(x.stock) : p \in x.todo \/ \E i \in x.plan : i.pf = p
  /\ \A i \in x.plan : i.pf \notin x.todo

Replacing(x) ==
  /\ PlanFull(x) /\ Covers(x.plan, x.stock)
  /\ \A a \in x.reply : AnswerTrue(a) /\ \E i \in x.plan \ x.todo : i.pf = a.pf
  /\ \A i \in x.plan \ x.todo :
       scv[<<i.pf, x.stock>>] = i.new /\ \E a \in x.reply : a.pf = i.pf

Showing(x) ==
  /\ PlanFull(x) /\ Covers(x.plan, x.stock) /\ x.todo \subseteq x.plan
  /\ \A a \in x.reply : AnswerTrue(a)
  /\ \A i \in x.plan : scv[<<i.pf, x.stock>>] = i.new /\ \E a \in x.reply : a.pf = i.pf
  /\ \A i \in x.plan \ x.todo : shown[<<i.pf, x.stock>>] = i.new

Saving(x) ==
  /\ Revalued(x) /\ Covers(x.reply, x.stock)
  /\ \A a \in x.todo : AnswerTrue(a)
  /\ \A a \in x.reply : AnswerTrue(a) /\ (a \in x.todo \/ pf[a.pf].cv = pf[a.pf].cvp)

Gathering(x) ==
  /\ SavedAll(x)
  /\ \A u \in Owners(x.stock) : u \in x.todo \/ \E a \in x.reply : a.user = u
  /\ \A m \in x.plan : m[2] \in members[m[1]]
  /\ \A a \in x.reply : a.total = 0 /\ {a.user} \X members[a.user] \subseteq x.plan

Summing(x) ==
  /\ SavedAll(x)
  /\ \A u \in Owners(x.stock) : \E a \in x.reply : a.user = u
  /\ \A m \in x.todo : m[2] \in members[m[1]]
  /\ \A a \in x.reply :
       a.total = SumFunctionOnSet(currents,
                                  {p \in members[a.user] : <<a.user, p>> \notin x.todo})

Totalling(x) ==
  /\ SavedAll(x)
  /\ \A u \in Owners(x.stock) : \E a \in x.todo \cup x.plan : a.user = u
  /\ \A a \in x.todo : a.total = TotalOf(a.user)
  /\ \A b \in x.plan : b.cv = TotalOf(b.user) /\ usr[b.user].cvp = b.cv

Closing(x) ==
  /\ SavedAll(x)
  /\ \A u \in Owners(x.stock) :
       usr[u].cvp = TotalOf(u) /\ (usr[u].cv = usr[u].cvp \/ \E b \in x.todo : b.user = u)
  /\ \A b \in x.todo : b.cv = usr[b.user].cvp

FanOf(x) ==
  /\ x.at = "fetch" => Fetching(x)
  /\ x.at = "replace" => Replacing(x)
  /\ x.at = "show" => Showing(x)
  /\ x.at = "save" => Saving(x)
  /\ x.at = "members" => Gathering(x)
  /\ x.at = "values" => Summing(x)
  /\ x.at = "total" => Totalling(x)
  /\ x.at = "users" => Closing(x)

Fanning == \A r \in Pricers : work[r] # Idle => FanOf(work[r])

\* A fan-out that goes on after x is in the same phase, or in the next.
LEMMA AdvancedOn ==
  ASSUME PricersTyped, NEW r \in Pricers, Working(r), NEW x, NEW phase, NEW commands,
         NEW plan, NEW reply, Advance(r, x, phase, commands, plan, reply), work'[r] # Idle
  PROVE  /\ work'[r].stock = work[r].stock /\ work'[r].price = work[r].price
         /\ work'[r].plan = plan /\ work'[r].reply = reply
         /\ \/ /\ work[r].todo = {x}
               /\ work'[r].at = phase /\ work'[r].todo = commands
            \/ /\ work[r].todo # {x}
               /\ work'[r].at = work[r].at /\ work'[r].todo = work[r].todo \ {x}
<1> DEFINE job == [work[r] EXCEPT !.at = IF work[r].todo = {x} THEN phase ELSE work[r].at,
                                  !.todo = IF work[r].todo = {x} THEN commands
                                           ELSE work[r].todo \ {x},
                                  !.plan = plan, !.reply = reply]
<1>1. ~Over(r, x, commands)
  BY DEF Advance, PricersTyped
<1>2. work'[r] = job
  BY <1>1 DEF Advance, PricersTyped
<1>3. /\ job.stock = work[r].stock /\ job.price = work[r].price
      /\ job.plan = plan /\ job.reply = reply
      /\ job.at = IF work[r].todo = {x} THEN phase ELSE work[r].at
      /\ job.todo = IF work[r].todo = {x} THEN commands ELSE work[r].todo \ {x}
  BY DEF Working, Jobs
<1> HIDE DEF job
<1> QED
  BY <1>2, <1>3

\* What a fan-out leaves of what its phases are about.
LEMMA FanFrame ==
  ASSUME UNCHANGED recordVars
  PROVE  /\ \A s : Holders(s)' = Holders(s) /\ Owners(s)' = Owners(s)
         /\ \A p, s, price : Worth(p, s, price)' = Worth(p, s, price)
BY DEF Holders, Owners, Worth

\* The values are fetched of what is held.
LEMMA FetchFan ==
  ASSUME TypeInv, Alone', UNCHANGED recordVars, NEW r \in Pricers, NEW p, Fetch(r, p),
         FanOf(work[r]), \A h \in indexed : quantity[h] # 0, work'[r] # Idle
  PROVE  FanOf(work[r])'
<1> DEFINE s == work[r].stock
           h == <<p, s>>
<1>1. PricersTyped /\ Working(r) /\ work[r].at = "fetch" /\ p \in work[r].todo
  BY SendsWorking DEF Fetch, TypeInv, JobPhases
<1>2. Fetching(work[r])
  BY <1>1 DEF FanOf
<1>3. p \in Holders(s) /\ quantity[h] # 0
  BY <1>1, <1>2 DEF Fetching, Holders
<1>4. PICK i, plan :
        /\ Advance(r, p, "replace", plan, plan, {}) /\ plan = work[r].plan \cup {i}
        /\ i.pf = p /\ i.new = Worth(p, s, work[r].price)
  <2>1. ~Spend("misreads")
    BY DEF Spend, Alone, Bounds, TypeInv, UserInv, UserTypeOK, TypeOK
  <2> DEFINE i == [pf |-> p, new |-> quantity[h] * work[r].price,
                   before |-> IF scv[h] = Missing THEN shown[h] ELSE scv[h]]
             plan == work[r].plan \cup {i}
  <2>2. Advance(r, p, "replace", plan, plan, {})
    BY <1>3, <2>1 DEF Fetch, Saw
  <2>3. i.pf = p /\ i.new = Worth(p, s, work[r].price)
    BY DEF Worth
  <2> HIDE DEF i
  <2> QED
    BY <2>2, <2>3
<1>5. /\ work'[r].stock = s /\ work'[r].price = work[r].price
      /\ work'[r].plan = plan /\ work'[r].reply = {}
      /\ \/ /\ work[r].todo = {p}
            /\ work'[r].at = "replace" /\ work'[r].todo = plan
         \/ /\ work[r].todo # {p}
            /\ work'[r].at = "fetch" /\ work'[r].todo = work[r].todo \ {p}
  BY <1>1, <1>4, AdvancedOn
<1>6. PlanFull(work[r])'
  <2>1. \A j \in plan : j.pf \in Holders(s) /\ j.new = Worth(j.pf, s, work[r].price)
    BY <1>2, <1>3, <1>4 DEF Fetching, PlanFull
  <2>2. \A j, k \in plan : j.pf = k.pf => j = k
    BY <1>1, <1>2, <1>4 DEF Fetching, PlanFull
  <2> QED
    BY <1>5, <2>1, <2>2, FanFrame DEF PlanFull
<1>7. \A q \in Holders(s) : q \in work[r].todo \ {p} \/ \E j \in plan : j.pf = q
  BY <1>2, <1>4 DEF Fetching
<1>8. CASE work[r].todo = {p}
  <2>1. Covers(work[r].plan, work[r].stock)'
    BY <1>5, <1>7, <1>8, FanFrame DEF Covers
  <2> QED
    BY <1>5, <1>6, <1>8, <2>1 DEF FanOf, Replacing
<1>9. CASE work[r].todo # {p}
  <2>1. \A j \in plan : j.pf \notin work[r].todo \ {p}
    BY <1>2, <1>4 DEF Fetching
  <2> QED
    BY <1>2, <1>5, <1>6, <1>7, <1>9, <2>1, FanFrame DEF FanOf, Fetching
<1> QED
  BY <1>8, <1>9

\* The script gives a holding its new value, and answers the truth.
LEMMA ReplaceFan ==
  ASSUME TypeInv, UNCHANGED recordVars, NEW r \in Pricers, NEW i, Replace(r, i),
         FanOf(work[r]), work'[r] # Idle
  PROVE  FanOf(work[r])'
<1> DEFINE s == work[r].stock
           h == <<i.pf, s>>
           hash == [pf[i.pf] EXCEPT !.cvp = pf[i.pf].cvp + i.new - Previous(h, i)]
           reply == work[r].reply \cup {Answer(i.pf, hash)}
<1>1. PricersTyped /\ Working(r) /\ work[r].at = "replace" /\ i \in work[r].todo
  BY SendsWorking DEF Replace, TypeInv, JobPhases
<1>2. Replacing(work[r]) /\ work[r].todo \subseteq work[r].plan /\ i.pf \in Portfolios
      /\ s \in Stocks
  BY <1>1 DEF FanOf, Working, JobTyped, Plan, Jobs
<1>3. /\ Advance(r, i, "show", work[r].plan, work[r].plan, reply)
      /\ scv' = [scv EXCEPT ![h] = i.new] /\ pf' = [pf EXCEPT ![i.pf] = hash]
      /\ UNCHANGED shown
  BY DEF Replace
<1>4. /\ work'[r].stock = s /\ work'[r].price = work[r].price
      /\ work'[r].plan = work[r].plan /\ work'[r].reply = reply
      /\ \/ /\ work[r].todo = {i}
            /\ work'[r].at = "show" /\ work'[r].todo = work[r].plan
         \/ /\ work[r].todo # {i}
            /\ work'[r].at = "replace" /\ work'[r].todo = work[r].todo \ {i}
  <2> HIDE DEF reply
  <2> QED
    BY <1>1, <1>3, AdvancedOn
<1>5. PlanFull(work[r])' /\ Covers(work[r].plan, work[r].stock)'
  BY <1>2, <1>4, FanFrame DEF Replacing, PlanFull, Covers
<1>6. PICK a : reply = work[r].reply \cup {a} /\ a.pf = i.pf /\ AnswerTrue(a)'
  <2>1. PICK a : a = Answer(i.pf, hash)
    OBVIOUS
  <2>2. pf'[i.pf] = hash /\ owner' = owner
    BY <1>2, <1>3 DEF TypeInv, UserInv, UserTypeOK, TypeOK
  <2> HIDE DEF hash
  <2>3. a.pf = i.pf /\ a.user = owner[i.pf] /\ a.cv = hash.cvp
    BY <2>1 DEF Answer
  <2> QED
    BY <2>1, <2>2, <2>3 DEF AnswerTrue
<1> HIDE DEF hash
<1>7. \A b \in reply : AnswerTrue(b)' /\ \E j \in work[r].plan \ (work[r].todo \ {i}) : j.pf = b.pf
  <2> SUFFICES ASSUME NEW b \in work[r].reply
               PROVE  AnswerTrue(b)' /\ \E j \in work[r].plan \ work[r].todo : j.pf = b.pf
    BY <1>1, <1>2, <1>6
  <2>1. AnswerTrue(b) /\ \E j \in work[r].plan \ work[r].todo : j.pf = b.pf
    BY <1>2 DEF Replacing
  <2>2. b.pf # i.pf
    BY <1>1, <1>2, <2>1 DEF Replacing, PlanFull
  <2> QED
    BY <1>3, <2>1, <2>2 DEF AnswerTrue
<1>8. \A j \in work[r].plan \ (work[r].todo \ {i}) :
        scv'[<<j.pf, s>>] = j.new /\ \E b \in reply : b.pf = j.pf
  <2> SUFFICES ASSUME NEW j \in work[r].plan, j \notin work[r].todo \/ j = i
               PROVE  scv'[<<j.pf, s>>] = j.new /\ \E b \in reply : b.pf = j.pf
    OBVIOUS
  <2>1. CASE j = i
    <3>1. h \in Holdings
      BY <1>2 DEF Holdings
    <3> QED
      BY <1>3, <1>6, <2>1, <3>1 DEF TypeInv, UserInv, UserTypeOK, TypeOK
  <2>2. CASE j # i
    <3>1. j.pf # i.pf /\ scv[<<j.pf, s>>] = j.new /\ \E b \in work[r].reply : b.pf = j.pf
      BY <1>1, <1>2, <2>2 DEF Replacing, PlanFull
    <3> QED
      BY <1>3, <3>1
  <2> QED
    BY <2>1, <2>2
<1> HIDE DEF reply
<1>9. CASE work[r].todo = {i}
  BY <1>4, <1>5, <1>7, <1>8, <1>9 DEF FanOf, Showing
<1>10. CASE work[r].todo # {i}
  BY <1>4, <1>5, <1>7, <1>8, <1>10 DEF FanOf, Replacing
<1> QED
  BY <1>9, <1>10

\* The projection shows the new values.
LEMMA ShowFan ==
  ASSUME TypeInv, UNCHANGED recordVars, NEW r \in Pricers, NEW i, Show(r, i),
         FanOf(work[r]), work'[r] # Idle
  PROVE  FanOf(work[r])'
<1> DEFINE s == work[r].stock
<1>1. PricersTyped /\ Working(r) /\ work[r].at = "show" /\ i \in work[r].todo
  BY SendsWorking DEF Show, TypeInv, JobPhases
<1>2. Showing(work[r]) /\ i \in work[r].plan /\ i.pf \in Portfolios /\ s \in Stocks
  BY <1>1 DEF FanOf, Showing, Working, JobTyped, Plan, Jobs
<1>3. /\ Advance(r, i, "save", work[r].reply, work[r].plan, work[r].reply)
      /\ shown' = [shown EXCEPT ![<<i.pf, s>>] = i.new] /\ UNCHANGED <<scv, pf>>
  BY DEF Show
<1>4. /\ work'[r].stock = s /\ work'[r].price = work[r].price
      /\ work'[r].plan = work[r].plan /\ work'[r].reply = work[r].reply
      /\ \/ /\ work[r].todo = {i}
            /\ work'[r].at = "save" /\ work'[r].todo = work[r].reply
         \/ /\ work[r].todo # {i}
            /\ work'[r].at = "show" /\ work'[r].todo = work[r].todo \ {i}
  BY <1>1, <1>3, AdvancedOn
<1>5. PlanFull(work[r])' /\ Covers(work[r].plan, work[r].stock)'
  BY <1>2, <1>4, FanFrame DEF Showing, PlanFull, Covers
<1>6. \A a \in work[r].reply : AnswerTrue(a)'
  BY <1>2, <1>3 DEF Showing, AnswerTrue
<1>7. \A j \in work[r].plan \ (work[r].todo \ {i}) : shown'[<<j.pf, s>>] = j.new
  <2> SUFFICES ASSUME NEW j \in work[r].plan, j \notin work[r].todo \/ j = i
               PROVE  shown'[<<j.pf, s>>] = j.new
    OBVIOUS
  <2>1. CASE j = i
    <3>1. <<i.pf, s>> \in Holdings
      BY <1>2 DEF Holdings
    <3> QED
      BY <1>3, <2>1, <3>1 DEF TypeInv, UserInv, UserTypeOK, TypeOK
  <2>2. CASE j # i
    <3>1. j.pf # i.pf /\ shown[<<j.pf, s>>] = j.new
      BY <1>1, <1>2, <2>2 DEF Showing, PlanFull
    <3> QED
      BY <1>3, <3>1
  <2> QED
    BY <2>1, <2>2
<1>8. CASE work[r].todo = {i}
  <2>1. Covers(work[r].reply, s)
    BY <1>2, ZenonT(40) DEF Showing, Covers
  <2>2. \A p \in Holders(s) :
          scv'[<<p, s>>] = Worth(p, s, work[r].price) /\ shown'[<<p, s>>] = scv'[<<p, s>>]
    <3> SUFFICES ASSUME NEW p \in Holders(s)
                 PROVE  /\ scv'[<<p, s>>] = Worth(p, s, work[r].price)
                        /\ shown'[<<p, s>>] = scv'[<<p, s>>]
      OBVIOUS
    <3>1. PICK j \in work[r].plan : j.pf = p
      BY <1>2 DEF Showing, Covers
    <3>2. scv[<<p, s>>] = j.new /\ j.new = Worth(p, s, work[r].price)
      BY <1>2, <3>1 DEF Showing, PlanFull
    <3>3. shown'[<<p, s>>] = j.new
      BY <1>7, <1>8, <3>1
    <3> QED
      BY <1>3, <3>2, <3>3
  <2>3. Revalued(work[r])'
    BY <1>4, <2>2, FanFrame DEF Revalued
  <2>4. Covers(work[r].reply, work[r].stock)'
    BY <1>4, <2>1, FanFrame DEF Covers
  <2> QED
    BY <1>4, <1>6, <1>8, <2>3, <2>4 DEF FanOf, Saving
<1>9. CASE work[r].todo # {i}
  <2>1. \A j \in work[r].plan :
          scv'[<<j.pf, s>>] = j.new /\ \E a \in work[r].reply : a.pf = j.pf
    BY <1>2, <1>3 DEF Showing
  <2>2. work[r].todo \ {i} \subseteq work[r].plan
    BY <1>2 DEF Showing
  <2> QED
    BY <1>4, <1>5, <1>6, <1>7, <1>9, <2>1, <2>2 DEF FanOf, Showing
<1> QED
  BY <1>8, <1>9

\* The answers are saved.
LEMMA SaveFan ==
  ASSUME TypeInv, UNCHANGED recordVars, NEW r \in Pricers, NEW a, Save(r, a),
         FanOf(work[r]), work'[r] # Idle
  PROVE  FanOf(work[r])'
<1> DEFINE s == work[r].stock
           users == {b.user : b \in work[r].reply} \ {Nobody}
<1>1. PricersTyped /\ Working(r) /\ work[r].at = "save" /\ a \in work[r].todo
  BY SendsWorking DEF Save, TypeInv, JobPhases
<1>2. Saving(work[r]) /\ a.pf \in Portfolios /\ AnswerTrue(a)
  BY <1>1 DEF FanOf, Saving, Working, JobTyped, PortfolioAnswer
<1>3. PICK reply :
        /\ Advance(r, a, "members", users, {}, reply)
        /\ reply = IF work[r].todo = {a} THEN {} ELSE work[r].reply
        /\ pf' = [pf EXCEPT ![a.pf] = [pf[a.pf] EXCEPT !.pv = a.pv, !.cv = a.cv, !.ac = a.n]]
        /\ UNCHANGED <<scv, shown>>
  BY DEF Save
<1>4. /\ work'[r].stock = s /\ work'[r].price = work[r].price
      /\ work'[r].plan = {} /\ work'[r].reply = reply
      /\ \/ /\ work[r].todo = {a}
            /\ work'[r].at = "members" /\ work'[r].todo = users
         \/ /\ work[r].todo # {a}
            /\ work'[r].at = "save" /\ work'[r].todo = work[r].todo \ {a}
  <2> HIDE DEF users
  <2> QED
    BY <1>1, <1>3, AdvancedOn
<1>5. /\ \A p \in Portfolios : pf'[p].cvp = pf[p].cvp /\ (p # a.pf => pf'[p] = pf[p])
      /\ pf'[a.pf].cv = pf'[a.pf].cvp
  BY <1>2, <1>3 DEF AnswerTrue, TypeInv, UserInv, UserTypeOK, TypeOK, PortfolioHash
<1>6. \A b \in work[r].todo \cup work[r].reply : b.pf \in Portfolios /\ AnswerTrue(b)'
  <2>1. \A b \in work[r].todo \cup work[r].reply : b.pf \in Portfolios /\ AnswerTrue(b)
    BY <1>1, <1>2 DEF Saving, Working, JobTyped, PortfolioAnswer
  <2> QED
    BY <1>5, <2>1 DEF AnswerTrue
<1>7. Revalued(work[r])'
  BY <1>2, <1>3, <1>4, FanFrame DEF Saving, Revalued
<1>8. \A b \in work[r].reply :
        b \in work[r].todo \ {a} \/ pf'[b.pf].cv = pf'[b.pf].cvp
  BY <1>2, <1>5, <1>6 DEF Saving
<1>9. CASE work[r].todo = {a}
  <2>1. \A p \in Holders(s) : pf'[p].cv = pf'[p].cvp
    BY <1>2, <1>8, <1>9 DEF Saving, Covers
  <2>2. \A u \in Owners(s) : u \in users
    <3> SUFFICES ASSUME NEW p \in Holders(s), owner[p] # Nobody PROVE owner[p] \in users
      BY DEF Owners
    <3>1. PICK b \in work[r].reply : b.pf = p
      BY <1>2 DEF Saving, Covers
    <3> QED
      BY <1>2, <3>1 DEF Saving, AnswerTrue
  <2> HIDE DEF users
  <2>3. SavedAll(work[r])'
    BY <1>4, <1>7, <2>1, FanFrame DEF SavedAll
  <2>4. work'[r].reply = {} /\ work'[r].plan = {} /\ work'[r].todo = users
        /\ work'[r].at = "members"
    BY <1>3, <1>4, <1>9
  <2>5. Gathering(work[r])'
    BY <1>4, <2>2, <2>3, <2>4, FanFrame DEF Gathering
  <2> QED
    BY <2>4, <2>5 DEF FanOf
<1>10. CASE work[r].todo # {a}
  <2>1. Covers(work[r].reply, work[r].stock)'
    BY <1>2, <1>3, <1>4, <1>10, FanFrame DEF Saving, Covers
  <2>2. work'[r].at = "save" /\ work'[r].reply = work[r].reply
        /\ work'[r].todo = work[r].todo \ {a}
    BY <1>3, <1>4, <1>10
  <2>3. Saving(work[r])'
    BY <1>6, <1>7, <1>8, <2>1, <2>2 DEF Saving
  <2> QED
    BY <2>2, <2>3 DEF FanOf
<1> QED
  BY <1>9, <1>10

\* The later phases leave the holdings and the portfolio hashes.
LEMMA SavedFrame ==
  ASSUME UNCHANGED recordVars, UNCHANGED <<scv, shown, pf>>, NEW r \in Pricers,
         work'[r].stock = work[r].stock, work'[r].price = work[r].price, SavedAll(work[r])
  PROVE  SavedAll(work[r])' /\ currents' = currents /\ \A u \in Users : TotalOf(u)' = TotalOf(u)
<1>1. SavedAll(work[r])'
  BY FanFrame DEF SavedAll, Revalued
<1>2. currents' = currents
  BY DEF currents
<1> QED
  BY <1>1, <1>2 DEF TotalOf

\* Every portfolio of a user is to be read.
LEMMA MembersFan ==
  ASSUME TypeInv, UNCHANGED recordVars, NEW r \in Pricers, NEW u, Members(r, u),
         FanOf(work[r]), work'[r] # Idle
  PROVE  FanOf(work[r])'
<1> DEFINE s == work[r].stock
           plan == work[r].plan \cup ({u} \X members[u])
           totals == work[r].reply \cup {[user |-> u, total |-> 0]}
<1>1. PricersTyped /\ Working(r) /\ work[r].at = "members" /\ u \in work[r].todo
  BY SendsWorking DEF Members, TypeInv, JobPhases
<1>2. Gathering(work[r]) /\ SavedAll(work[r])
  BY <1>1 DEF FanOf, Gathering
<1>3. UNCHANGED <<scv, shown, pf, usr>>
  BY DEF Members
<1>4. /\ work'[r].stock = s /\ work'[r].price = work[r].price
      /\ work'[r].plan = plan /\ work'[r].reply = totals
      /\ \/ /\ work[r].todo = {u} /\ plan = {}
            /\ work'[r].at = "total" /\ work'[r].todo = totals
         \/ /\ work[r].todo = {u} /\ plan # {}
            /\ work'[r].at = "values" /\ work'[r].todo = plan
         \/ /\ work[r].todo # {u}
            /\ work'[r].at = "members" /\ work'[r].todo = work[r].todo \ {u}
  <2>1. \/ plan = {} /\ Advance(r, u, "total", totals, plan, totals)
        \/ plan # {} /\ Advance(r, u, "values", plan, plan, totals)
    BY DEF Members
  <2> HIDE DEF plan, totals
  <2> QED
    BY <1>1, <2>1, AdvancedOn
<1>5. SavedAll(work[r])' /\ currents' = currents
  BY <1>2, <1>3, <1>4, SavedFrame
<1>6. \A v \in Owners(s) : v \in work[r].todo \ {u} \/ \E a \in totals : a.user = v
  <2>1. [user |-> u, total |-> 0].user = u
    OBVIOUS
  <2> QED
    BY <1>2, <2>1 DEF Gathering
<1>7. \A m \in plan : m[2] \in members[m[1]]
  <2>1. \A m \in work[r].plan : m[2] \in members[m[1]]
    BY <1>2 DEF Gathering
  <2>2. \A m \in {u} \X members[u] : m[1] = u /\ m[2] \in members[u]
    OBVIOUS
  <2> QED
    BY <2>1, <2>2
<1>8. \A a \in totals : a.total = 0 /\ {a.user} \X members[a.user] \subseteq plan
  <2>1. ASSUME NEW a \in work[r].reply
        PROVE  a.total = 0 /\ {a.user} \X members[a.user] \subseteq plan
    BY <1>2 DEF Gathering
  <2>2. ASSUME NEW a, a = [user |-> u, total |-> 0]
        PROVE  a.total = 0 /\ {a.user} \X members[a.user] \subseteq plan
    <3>1. a.total = 0 /\ a.user = u
      BY <2>2
    <3> QED
      BY <3>1
  <2> QED
    BY <2>1, <2>2
<1> HIDE DEF plan, totals
<1>9. \A a \in totals : \A T :
        plan \subseteq T =>
          a.total = SumFunctionOnSet(currents, {p \in members[a.user] : <<a.user, p>> \notin T})
  <2> SUFFICES ASSUME NEW a \in totals, NEW T, plan \subseteq T
               PROVE  a.total = SumFunctionOnSet(currents,
                                  {p \in members[a.user] : <<a.user, p>> \notin T})
    OBVIOUS
  <2>1. {p \in members[a.user] : <<a.user, p>> \notin T} = {} /\ a.total = 0
    BY <1>8
  <2>2. SumFunctionOnSet(currents, {}) = 0
    BY FS_EmptySet, SumZero
  <2> QED
    BY <2>1, <2>2
<1>10. CASE work[r].todo # {u}
  <2>1. Gathering(work[r])'
    BY <1>4, <1>5, <1>6, <1>7, <1>8, <1>10, FanFrame DEF Gathering
  <2> QED
    BY <1>4, <1>10, <2>1 DEF FanOf
<1>11. CASE work[r].todo = {u} /\ plan # {}
  <2>1. Summing(work[r])'
    BY <1>4, <1>5, <1>6, <1>7, <1>9, <1>11, FanFrame DEF Summing
  <2> QED
    BY <1>4, <1>11, <2>1 DEF FanOf
<1>12. CASE work[r].todo = {u} /\ plan = {}
  <2>1. \A a \in totals : a.total = TotalOf(a.user)
    <3> SUFFICES ASSUME NEW a \in totals PROVE a.total = TotalOf(a.user)
      OBVIOUS
    <3>1. a.total = SumFunctionOnSet(currents, {p \in members[a.user] : <<a.user, p>> \notin {}})
      BY <1>9, <1>12
    <3>2. {p \in members[a.user] : <<a.user, p>> \notin {}} = members[a.user]
      OBVIOUS
    <3> QED
      BY <3>1, <3>2 DEF TotalOf
  <2>2. \A a \in totals : a.total = TotalOf(a.user)'
    BY <1>5, <2>1 DEF TotalOf
  <2>3. Totalling(work[r])'
    BY <1>4, <1>5, <1>6, <1>12, <2>2, FanFrame DEF Totalling
  <2> QED
    BY <1>4, <1>12, <2>3 DEF FanOf
<1> QED
  BY <1>10, <1>11, <1>12

\* The current values of a user's portfolios are added up.
LEMMA ValueFan ==
  ASSUME TypeInv, UNCHANGED recordVars, NEW r \in Pricers, NEW u \in Users,
         NEW p \in Portfolios, Value(r, u, p), FanOf(work[r]),
         \A v \in Users : IsFiniteSet(members[v]), work'[r] # Idle
  PROVE  FanOf(work[r])'
<1> DEFINE s == work[r].stock
           Plus(a) == IF a.user = u THEN [a EXCEPT !.total = a.total + pf[p].cvp] ELSE a
           totals == {Plus(a) : a \in work[r].reply}
           rest == work[r].todo \ {<<u, p>>}
           Of(v, T) == {q \in members[v] : <<v, q>> \notin T}
<1>1. PricersTyped /\ Working(r) /\ work[r].at = "values" /\ <<u, p>> \in work[r].todo
  BY SendsWorking DEF Value, TypeInv, JobPhases
<1>2. Summing(work[r]) /\ SavedAll(work[r]) /\ work[r].reply \subseteq UserTotal
  BY <1>1 DEF FanOf, Summing, Working, JobTyped
<1>3. UNCHANGED <<scv, shown, pf, usr>>
  BY DEF Value
<1>4. /\ work'[r].stock = s /\ work'[r].price = work[r].price
      /\ work'[r].plan = {} /\ work'[r].reply = totals
      /\ \/ /\ work[r].todo = {<<u, p>>}
            /\ work'[r].at = "total" /\ work'[r].todo = totals
         \/ /\ work[r].todo # {<<u, p>>}
            /\ work'[r].at = "values" /\ work'[r].todo = rest
  <2>1. Advance(r, <<u, p>>, "total", totals, {}, totals)
    BY DEF Value
  <2> HIDE DEF totals
  <2> QED
    BY <1>1, <2>1, AdvancedOn
<1>5. SavedAll(work[r])' /\ currents' = currents
  BY <1>2, <1>3, <1>4, SavedFrame
<1>6. \A v \in Owners(s) : \E a \in totals : a.user = v
  <2> SUFFICES ASSUME NEW v \in Owners(s) PROVE \E a \in totals : a.user = v
    OBVIOUS
  <2>1. PICK a \in work[r].reply : a.user = v
    BY <1>2 DEF Summing
  <2>2. Plus(a).user = v
    BY <1>2, <2>1 DEF UserTotal
  <2> HIDE DEF Plus
  <2> QED
    BY <2>2
<1>7. \A a \in totals : a.total = SumFunctionOnSet(currents, Of(a.user, rest))
  <2> SUFFICES ASSUME NEW a \in work[r].reply
               PROVE  Plus(a).total = SumFunctionOnSet(currents, Of(Plus(a).user, rest))
    OBVIOUS
  <2>1. /\ a.user \in Users /\ a.total \in Int /\ Plus(a).user = a.user
        /\ Plus(a).total = IF a.user = u THEN a.total + pf[p].cvp ELSE a.total
    BY <1>2 DEF UserTotal
  <2>2. a.total = SumFunctionOnSet(currents, Of(a.user, work[r].todo))
    BY <1>2 DEF Summing
  <2> HIDE DEF Plus
  <2>3. CASE a.user # u
    <3>1. Of(a.user, rest) = Of(a.user, work[r].todo)
      BY <2>3
    <3> QED
      BY <2>1, <2>2, <2>3, <3>1
  <2>4. CASE a.user = u
    <3> DEFINE S == Of(u, work[r].todo)
    <3>1. p \in members[u] /\ p \notin S /\ Of(u, rest) = S \cup {p}
      BY <1>1, <1>2 DEF Summing
    <3>2. IsFiniteSet(S)
      BY FS_Subset
    <3>3. \A q \in S \cup {p} : currents[q] \in Int
      BY DEF currents, TypeInv, UserInv, UserTypeOK, TypeOK, PortfolioHash
    <3> HIDE DEF S
    <3>4. SumFunctionOnSet(currents, S \cup {p}) = SumFunctionOnSet(currents, S) + currents[p]
      BY <3>1, <3>2, <3>3, SumAdd
    <3>5. currents[p] = pf[p].cvp
      BY DEF currents
    <3>6. a.total = SumFunctionOnSet(currents, S)
      BY <2>2, <2>4 DEF S
    <3>7. Plus(a).user = u /\ Plus(a).total = a.total + pf[p].cvp
      BY <2>1, <2>4
    <3> HIDE DEF Of
    <3> QED
      BY <3>1, <3>4, <3>5, <3>6, <3>7
  <2> QED
    BY <2>3, <2>4
<1> HIDE DEF totals
<1>8. CASE work[r].todo # {<<u, p>>}
  <2>1. \A m \in rest : m[2] \in members[m[1]]
    BY <1>2 DEF Summing
  <2>2. Summing(work[r])'
    BY <1>4, <1>5, <1>6, <1>7, <1>8, <2>1, FanFrame DEF Summing
  <2> QED
    BY <1>4, <1>8, <2>2 DEF FanOf
<1>9. CASE work[r].todo = {<<u, p>>}
  <2>1. \A a \in totals : a.total = TotalOf(a.user)'
    <3> SUFFICES ASSUME NEW a \in totals PROVE a.total = TotalOf(a.user)'
      OBVIOUS
    <3>1. Of(a.user, rest) = members[a.user]
      BY <1>9
    <3> QED
      BY <1>5, <1>7, <3>1 DEF TotalOf
  <2>2. Totalling(work[r])'
    BY <1>4, <1>5, <1>6, <1>9, <2>1, FanFrame DEF Totalling
  <2> QED
    BY <1>4, <1>9, <2>2 DEF FanOf
<1> QED
  BY <1>8, <1>9

\* A fan-out stands as it does while nothing else is written.
LEMMA SameFan ==
  ASSUME NEW r \in Pricers, UNCHANGED <<quantity, indexed, scv, shown, pf, usr, owner, members>>,
         work'[r] = work[r], FanOf(work[r])
  PROVE  FanOf(work[r])'
<1>1. PICK x : x = work[r]
  OBVIOUS
<1>2. currents' = currents
  BY DEF currents
<1>3. /\ \A s : Holders(s)' = Holders(s) /\ Owners(s)' = Owners(s)
      /\ \A p, s, price : Worth(p, s, price)' = Worth(p, s, price)
      /\ \A u : TotalOf(u)' = TotalOf(u)
  BY <1>2 DEF Holders, Owners, Worth, TotalOf
<1>4. PlanFull(x) => PlanFull(x)'
  BY <1>3 DEF PlanFull
<1>5. \A S, s : Covers(S, s) => Covers(S, s)'
  BY <1>3 DEF Covers
<1>6. SavedAll(x) => SavedAll(x)'
  BY <1>3 DEF SavedAll, Revalued
<1>7. /\ Fetching(x) => Fetching(x)'
      /\ Replacing(x) => Replacing(x)'
      /\ Showing(x) => Showing(x)'
  BY <1>3, <1>4, <1>5 DEF Fetching, Replacing, Showing, AnswerTrue
<1>8. Saving(x) => Saving(x)'
  BY <1>3, <1>5 DEF Saving, AnswerTrue, Revalued
<1>9. (Gathering(x) => Gathering(x)') /\ (Totalling(x) => Totalling(x)')
      /\ (Closing(x) => Closing(x)')
  BY <1>3, <1>6 DEF Gathering, Totalling, Closing
<1>10. Summing(x) => Summing(x)'
  BY <1>2, <1>3, <1>6 DEF Summing
<1>11. FanOf(x)'
  BY <1>1, <1>7, <1>8, <1>9, <1>10 DEF FanOf
<1> QED
  BY <1>1, <1>11

\* A total is the user's current value.
LEMMA TotalFan ==
  ASSUME TypeInv, UNCHANGED recordVars, NEW r \in Pricers, NEW a, Total(r, a),
         FanOf(work[r]), work'[r] # Idle
  PROVE  FanOf(work[r])'
<1> DEFINE s == work[r].stock
<1>1. PricersTyped /\ Working(r) /\ work[r].at = "total" /\ a \in work[r].todo
  BY SendsWorking DEF Total, TypeInv, JobPhases
<1>2. Totalling(work[r]) /\ SavedAll(work[r]) /\ a.user \in Users
      /\ work[r].todo \subseteq UserTotal /\ work[r].plan \subseteq UserAnswer
  BY <1>1 DEF FanOf, Totalling, Working, JobTyped, UserTotal
<1>3. PICK b, answers :
        /\ answers = work[r].plan \cup {b} /\ b.user = a.user /\ b.cv = a.total
        /\ Advance(r, a, "users", answers, answers, {})
        /\ usr' = [usr EXCEPT ![a.user].cvp = a.total]
        /\ UNCHANGED <<scv, shown, pf>>
  <2> DEFINE hash == usr[a.user]
             b == [user |-> a.user, pv |-> hash.pv, cv |-> a.total, n |-> hash.count]
             answers == work[r].plan \cup {b}
  <2>1. /\ Advance(r, a, "users", answers, answers, {})
        /\ usr' = [usr EXCEPT ![a.user].cvp = a.total]
        /\ UNCHANGED <<scv, shown, pf>>
    BY DEF Total, NewTotal
  <2>2. b.user = a.user /\ b.cv = a.total
    OBVIOUS
  <2> HIDE DEF b
  <2> QED
    BY <2>1, <2>2
<1>4. /\ work'[r].stock = s /\ work'[r].price = work[r].price
      /\ work'[r].plan = answers /\ work'[r].reply = {}
      /\ \/ /\ work[r].todo = {a}
            /\ work'[r].at = "users" /\ work'[r].todo = answers
         \/ /\ work[r].todo # {a}
            /\ work'[r].at = "total" /\ work'[r].todo = work[r].todo \ {a}
  BY <1>1, <1>3, AdvancedOn
<1>5. /\ SavedAll(work[r])' /\ currents' = currents
      /\ \A u \in Users : TotalOf(u)' = TotalOf(u)
  BY <1>2, <1>3, <1>4, SavedFrame
<1>6. \A u \in Users : usr'[u].cvp = IF u = a.user THEN a.total ELSE usr[u].cvp
  BY <1>2, <1>3 DEF TypeInv, UserInv, UserTypeOK, TypeOK, UserHash
<1>7. \A u \in Owners(s) : \E c \in (work[r].todo \ {a}) \cup answers : c.user = u
  BY <1>2, <1>3 DEF Totalling
<1>8. \A c \in answers : c.user \in Users /\ c.cv = TotalOf(c.user) /\ usr'[c.user].cvp = c.cv
  <2>1. a.total = TotalOf(a.user)
    BY <1>1, <1>2 DEF Totalling
  <2> SUFFICES ASSUME NEW c \in work[r].plan
               PROVE  /\ c.user \in Users /\ c.cv = TotalOf(c.user)
                      /\ usr'[c.user].cvp = c.cv
    BY <1>2, <1>3, <1>6, <2>1
  <2>2. c.user \in Users /\ c.cv = TotalOf(c.user) /\ usr[c.user].cvp = c.cv
    BY <1>2 DEF Totalling, UserAnswer
  <2> QED
    BY <1>6, <2>1, <2>2
<1>9. CASE work[r].todo # {a}
  <2>1. \A c \in work[r].todo : c.user \in Users /\ c.total = TotalOf(c.user)
    BY <1>2 DEF Totalling, UserTotal
  <2>2. Totalling(work[r])'
    BY <1>4, <1>5, <1>7, <1>8, <1>9, <2>1, FanFrame DEF Totalling
  <2> QED
    BY <1>4, <1>9, <2>2 DEF FanOf
<1>10. CASE work[r].todo = {a}
  <2>1. \A u \in Owners(s) : u \in Users /\ usr'[u].cvp = TotalOf(u) /\ \E c \in answers : c.user = u
    BY <1>7, <1>8, <1>10
  <2>2. Closing(work[r])'
    BY <1>4, <1>5, <1>8, <1>10, <2>1, FanFrame DEF Closing
  <2> QED
    BY <1>4, <1>10, <2>2 DEF FanOf
<1> QED
  BY <1>9, <1>10

\* A user's total is saved, and the others stay as they are.
LEMMA SaveUsersHash ==
  ASSUME TypeInv, NEW r \in Pricers, NEW a, SaveUsers(r, a), Closing(work[r])
  PROVE  /\ UNCHANGED <<scv, shown, pf>> /\ a.user \in Users
         /\ \A u \in Users : usr'[u].cvp = usr[u].cvp /\ (u # a.user => usr'[u] = usr[u])
         /\ usr'[a.user].cv = usr'[a.user].cvp
<1>1. PricersTyped /\ Working(r) /\ work[r].at = "users" /\ a \in work[r].todo
  BY SendsWorking DEF SaveUsers, TypeInv, JobPhases
<1>2. a.user \in Users /\ a.cv = usr[a.user].cvp
  BY <1>1 DEF Closing, Working, JobTyped, UserAnswer
<1> QED
  BY <1>2 DEF SaveUsers, TypeInv, UserInv, UserTypeOK, TypeOK, UserHash

\* The users' answers are saved.
LEMMA SaveUsersFan ==
  ASSUME TypeInv, UNCHANGED recordVars, NEW r \in Pricers, NEW a, SaveUsers(r, a),
         FanOf(work[r]), work'[r] # Idle
  PROVE  FanOf(work[r])'
<1> DEFINE s == work[r].stock
<1>1. PricersTyped /\ Working(r) /\ work[r].at = "users" /\ a \in work[r].todo
  BY SendsWorking DEF SaveUsers, TypeInv, JobPhases
<1>2. Closing(work[r]) /\ SavedAll(work[r]) /\ work[r].todo \subseteq UserAnswer
  BY <1>1 DEF FanOf, Closing, Working, JobTyped
<1>3. Advance(r, a, "idle", {}, {}, {})
  BY DEF SaveUsers
<1>4. work[r].todo # {a}
  BY <1>1, <1>3 DEF Advance, Over, TypeInv, PricersTyped
<1>5. /\ work'[r].stock = s /\ work'[r].price = work[r].price
      /\ work'[r].at = "users" /\ work'[r].todo = work[r].todo \ {a}
  BY <1>1, <1>3, <1>4, AdvancedOn
<1>6. /\ UNCHANGED <<scv, shown, pf>> /\ a.user \in Users
      /\ \A u \in Users : usr'[u].cvp = usr[u].cvp /\ (u # a.user => usr'[u] = usr[u])
      /\ usr'[a.user].cv = usr'[a.user].cvp
  BY <1>2, SaveUsersHash
<1>7. SavedAll(work[r])' /\ \A u \in Users : TotalOf(u)' = TotalOf(u)
  BY <1>2, <1>5, <1>6, SavedFrame
<1>8. Owners(s) \subseteq Users
  <2>1. \A p \in Holders(s) : owner[p] \in Users \cup {Nobody}
    BY DEF Holders, TypeInv, UserInv, UserTypeOK, TypeOK
  <2> QED
    BY <2>1 DEF Owners
<1>9. \A u \in Owners(s) :
        /\ usr'[u].cvp = TotalOf(u)
        /\ usr'[u].cv = usr'[u].cvp \/ \E b \in work[r].todo \ {a} : b.user = u
  BY <1>2, <1>6, <1>8 DEF Closing
<1>10. \A b \in work[r].todo : b.user \in Users /\ b.cv = usr'[b.user].cvp
  BY <1>2, <1>6 DEF Closing, UserAnswer
<1>11. Closing(work[r])'
  BY <1>5, <1>7, <1>8, <1>9, <1>10, FanFrame DEF Closing
<1> QED
  BY <1>5, <1>11 DEF FanOf

\* With a fan-out at work every portfolio in a stock's set holds the stock.
LEMMA HeldBySet ==
  ASSUME TypeInv, LoneInv, DeletionInv, BackedInv, Orderly, NEW r \in Pricers, work[r] # Idle
  PROVE  \A h \in indexed : quantity[h] # 0
<1>1. Underway = {}
  BY PricerAtWork DEF DeletionInv
<1>2. counted \subseteq done
  BY CountedDone DEF Priced
<1> QED
  BY <1>1, <1>2 DEF BackedInv, Backing, Backed

\* A step of a fan-out goes by what it has in hand.
LEMMA PricerFan ==
  ASSUME TypeInv, LoneInv, DeletionInv, BackedInv, Orderly, Fanning, ValuationNext, PricerStep,
         Orderly'
  PROVE  Fanning'
<1>1. UNCHANGED recordVars
  BY DEF PricerStep
<1>2. PICK r \in Pricers :
        IF work[r] = Idle
          THEN \E s \in Stocks, price \in Prices : FindPortfolios(r, s, price)
          ELSE \/ \E x \in work[r].todo :
                    \/ Fetch(r, x) \/ Replace(r, x) \/ Show(r, x) \/ Save(r, x)
                    \/ Members(r, x) \/ Total(r, x) \/ SaveUsers(r, x)
               \/ \E u \in Users, p \in Portfolios : Value(r, u, p)
               \/ CutShort(r)
  BY DEF PricerStep
<1>3. CASE work[r] = Idle
  <2>1. PICK s \in Stocks, price \in Prices : FindPortfolios(r, s, price)
    BY <1>2, <1>3
  <2>2. /\ UNCHANGED <<scv, shown, pf, usr>>
        /\ \A q \in Pricers \ {r} : work'[q] = work[q]
        /\ work'[r] = Idle \/ (/\ work'[r].at = "fetch" /\ work'[r].stock = s
                               /\ work'[r].plan = {} /\ work'[r].todo = Holders(s))
    BY <2>1 DEF FindPortfolios, TypeInv, PricersTyped, Holders
  <2> SUFFICES ASSUME NEW q \in Pricers, work'[q] # Idle PROVE FanOf(work[q])'
    BY DEF Fanning
  <2>3. CASE q = r
    BY <1>1, <2>2, <2>3, FanFrame DEF FanOf, Fetching, PlanFull
  <2>4. CASE q # r
    <3>1. work'[q] = work[q] /\ FanOf(work[q])
      BY <2>2, <2>4 DEF Fanning
    <3> QED
      BY <1>1, <2>2, <3>1, SameFan
  <2> QED
    BY <2>3, <2>4
<1>4. CASE work[r] # Idle
  <2>1. FanOf(work[r]) /\ \A h \in indexed : quantity[h] # 0
    BY <1>4, HeldBySet DEF Fanning
  <2>2. work'[r] # Idle => FanOf(work[r])'
    BY <1>1, <1>2, <1>4, <2>1, FetchFan, ReplaceFan, ShowFan, SaveFan, MembersFan, ValueFan,
       TotalFan, SaveUsersFan DEF Orderly, BackedInv, CutShort, TypeInv, PricersTyped
  <2>3. \A q \in Pricers \ {r} : work'[q] = Idle
    <3>1. \A q \in Pricers : work[q] # Idle => q = r
      BY <1>4 DEF LoneInv, OnePricer, Twice, OneAtWork, OneOf, AtMostOne, Priced, Orderly
    <3>2. PricerMoves(r)
      BY <1>2, <1>4, PricerWorks DEF TypeInv
    <3> QED
      BY <3>1, <3>2 DEF PricerMoves
  <2> QED
    BY <2>2, <2>3 DEF Fanning
<1> QED
  BY <1>3, <1>4

\* While a fan-out is at work, no record is.
LEMMA RecordFan ==
  ASSUME TypeInv, LoneInv, LoneInv', DeletionInv, DeletionInv', Orderly, Orderly', Fanning,
         UserNext, UNCHANGED pricerVars, TypeInv'
  PROVE  Fanning'
<1> SUFFICES ASSUME NEW r \in Pricers, work[r] # Idle PROVE FanOf(work[r])'
  BY DEF Fanning
<1>1. /\ \A w \in Workers : pc[w] = "idle" /\ pc'[w] = "idle"
      /\ \A k \in Keepers : event[k] = NoEvent /\ event'[k] = NoEvent
  <2>1. /\ \A w \in Workers : pc[w] = "idle"
        /\ \A k \in Keepers : event[k] = NoEvent
    BY PricerAtWork DEF DeletionInv
  <2>2. work[r].stock \in Priced' /\ OneOf(Handled', Kept', Priced')
    BY DEF Priced, LoneInv, OneAtWork, Orderly
  <2>3. Handled' = {} /\ Kept' = {}
    BY <2>2 DEF OneOf
  <2>4. \A w \in Workers : pc'[w] = "idle"
    BY <2>3 DEF Handled
  <2>5. \A k \in Keepers : event'[k] = NoEvent
    BY <2>3 DEF Kept
  <2> QED
    BY <2>1, <2>4, <2>5
<1>2. ~TradeStep
  <2>1. ASSUME NEW w \in Workers, NEW t \in Trades, Take(w, t) PROVE FALSE
    BY <1>1, <2>1 DEF Take, Goto, TypeInv, UserInv, UserTypeOK, TypeOK
  <2>2. ASSUME NEW w \in Workers, Work(w) \/ Failure(w) PROVE FALSE
    BY <1>1, <2>2 DEF Work, Compute, Failure, Check, MapUser, ReadQuantity, CasApplied,
       CasConflict, CasOk, ReadLegacy, ApplyTotals, Project, ApplyUser, MarkProcessed,
       ReadPortfolio, ReadUser, SaveUser, SyncIndex, SavePortfolio, MapHalf, FindUser,
       CallFails, Crash
  <2> QED
    BY <2>1, <2>2 DEF TradeStep, Work
<1>3. PICK e \in Events : Redeliver(e)
  <2>1. ASSUME NEW k \in Keepers, NEW e \in Events, TakeEvent(k, e) PROVE FALSE
    BY <1>1, <2>1, EventsAssumption DEF TakeEvent, TypeInv, UserInv, UserTypeOK
  <2>2. ASSUME NEW k \in Keepers, KeeperWork(k) \/ KeeperFails(k) \/ KeeperDies(k) PROVE FALSE
    <3>1. step[k] = "idle"
      BY <1>1 DEF TypeInv, UserInv, UserTypeOK
    <3> QED
      BY <2>2, <3>1 DEF KeeperWork, KeeperFails, KeeperDies, Look, CountPending,
         UncountPending, ReadTotals, ApplyEvent, ClearPending, MapPortfolio, Unmap,
         MarkDeleted, FindStocks, Wipe, ReadUserOf, SaveUserOf, At
  <2> QED
    BY <1>2, <2>1, <2>2 DEF UserNext, KeeperStep
<1>4. UNCHANGED <<quantity, indexed, scv, shown, pf, usr, owner, members>>
  BY <1>2, <1>3 DEF Redeliver, UserNext, KeeperStep
<1> QED
  BY <1>4, SameFan DEF Fanning

\* What a fan-out that nothing comes between is proved from.
FanInv == BackedInv /\ (Orderly => Fanning)

\* No stock has a portfolio in its set at first,
LEMMA FanInit == ValuationInit => FanInv
<1> SUFFICES ASSUME ValuationInit PROVE FanInv
  OBVIOUS
<1> USE DEF ValuationInit, UserInit, Init
<1>1. \A u \in Users : IsFiniteSet(members[u])
  BY FS_EmptySet
<1>2. Backing
  BY DEF Backing, Indexes, Unmappings
<1>3. Fanning
  BY DEF Fanning
<1> QED
  BY <1>1, <1>2, <1>3 DEF FanInv, BackedInv

\* and every step leaves in the sets, and in the fan-outs, what is there.
LEMMA FanStep ==
  TypeInv /\ LoneInv /\ DeletionInv /\ FanInv /\ [ValuationNext]_allVars => FanInv'
<1> SUFFICES ASSUME TypeInv, LoneInv, DeletionInv, FanInv, [ValuationNext]_allVars
             PROVE  FanInv'
  OBVIOUS
<1>1. CASE UNCHANGED allVars
  <2>1. BackedInv'
    BY <1>1 DEF FanInv, BackedInv, Orderly, Alone, Backing, Backed, Owned, Deletes, Indexes,
       Indexing, Unmappings, Unmapping, Underway, inHolding
  <2>2. Orderly' => Fanning'
    BY <1>1, SameFan DEF FanInv, Orderly, Alone, Fanning
  <2> QED
    BY <2>1, <2>2 DEF FanInv
<1>2. CASE ValuationNext
  <2>1. TypeInv' /\ LoneInv' /\ DeletionInv'
    BY <1>2, TypeStep, LoneStep, DeletionStep
  <2>2. BackedInv'
    BY <1>2, <2>1, TradeBacked, KeeperBacked, PricerBacked DEF FanInv, ValuationNext, UserNext
  <2>3. ASSUME Orderly' PROVE Fanning'
    <3>1. SpendsOne
      BY <1>2, TradeAlone, KeeperAlone, PricerAlone DEF TypeInv, ValuationNext, UserNext
    <3>2. Orderly /\ Fanning
      BY <1>2, <2>3, <3>1, OrderlyBefore DEF TypeInv, FanInv
    <3> QED
      BY <1>2, <2>1, <2>3, <3>2, RecordFan, PricerFan DEF FanInv, ValuationNext
  <2> QED
    BY <2>2, <2>3 DEF FanInv
<1> QED
  BY <1>1, <1>2

\* What a fan-out has done when it ends of itself.
LEMMA FanEnds ==
  ASSUME TypeInv, TypeInv', LoneInv, DeletionInv, FanInv, ValuationNext,
         NEW r \in Pricers, work[r].at = "users", work'[r] = Idle, cut' = {}, Orderly'
  PROVE  LET s == work[r].stock
         IN  \A p \in Portfolios : <<p, s>> \in indexed =>
               /\ scv[<<p, s>>] = quantity[<<p, s>>] * work[r].price
               /\ shown[<<p, s>>] = scv[<<p, s>>]
               /\ pf[p].cv = pf[p].cvp
               /\ owner[p] # Nobody =>
                    LET hash == usr'[owner[p]]
                    IN  hash.cv = hash.cvp /\ hash.cvp =
                          SumFunctionOnSet(currents, members[owner[p]])
<1>1. work[r] # Idle /\ Working(r)
  BY DEF Idle, TypeInv, PricersTyped, Working
<1>2. PricerStep
  BY <1>1 DEF ValuationNext
<1>3. Orderly
  <2>1. SpendsOne
    BY <1>2, PricerAlone DEF TypeInv
  <2> QED
    BY <2>1, OrderlyBefore DEF TypeInv
<1>4. Closing(work[r])
  BY <1>1, <1>3 DEF FanInv, Fanning, FanOf
<1>5. PICK q \in Pricers :
        IF work[q] = Idle
          THEN \E s \in Stocks, price \in Prices : FindPortfolios(q, s, price)
          ELSE \/ \E x \in work[q].todo :
                    \/ Fetch(q, x) \/ Replace(q, x) \/ Show(q, x) \/ Save(q, x)
                    \/ Members(q, x) \/ Total(q, x) \/ SaveUsers(q, x)
               \/ \E u \in Users, p \in Portfolios : Value(q, u, p)
               \/ CutShort(q)
  BY <1>2 DEF PricerStep
<1>6. q = r
  <2>1. CASE work[q] = Idle
    BY <1>1, <1>5, <2>1 DEF FindPortfolios, TypeInv, PricersTyped
  <2>2. CASE work[q] # Idle
    BY <1>1, <1>5, <2>2, PricerWorks DEF TypeInv, PricerMoves
  <2> QED
    BY <2>1, <2>2
<1>7. ~CutShort(r)
  BY DEF CutShort
<1>8. PICK a \in work[r].todo : SaveUsers(r, a)
  BY <1>1, <1>5, <1>6, <1>7 DEF Fetch, Replace, Show, Save, Members, Total, Value, Sends
<1>9. work[r].todo = {a}
  <2> SUFFICES ASSUME work[r].todo # {a} PROVE FALSE
    OBVIOUS
  <2> DEFINE job == [work[r] EXCEPT !.at = work[r].at, !.todo = work[r].todo \ {a},
                                    !.plan = {}, !.reply = {}]
  <2>1. job.at = "users"
    BY <1>1 DEF Working, Jobs
  <2>2. work' = [work EXCEPT ![r] = job]
    BY <1>8 DEF SaveUsers, Advance, Over
  <2> HIDE DEF job
  <2>3. job = Idle
    BY <2>2 DEF TypeInv, PricersTyped
  <2> QED
    BY <2>1, <2>3 DEF Idle
<1>10. /\ \A u \in Users : usr'[u].cvp = usr[u].cvp /\ (u # a.user => usr'[u] = usr[u])
       /\ usr'[a.user].cv = usr'[a.user].cvp
  BY <1>4, <1>8, SaveUsersHash
<1>11. SUFFICES ASSUME NEW p \in Portfolios, p \in Holders(work[r].stock)
                PROVE  /\ scv[<<p, work[r].stock>>] = Worth(p, work[r].stock, work[r].price)
                       /\ shown[<<p, work[r].stock>>] = scv[<<p, work[r].stock>>]
                       /\ pf[p].cv = pf[p].cvp
                       /\ owner[p] # Nobody =>
                            /\ usr'[owner[p]].cv = usr'[owner[p]].cvp
                            /\ usr'[owner[p]].cvp = TotalOf(owner[p])
  BY DEF Holders, Worth, TotalOf
<1>12. SavedAll(work[r]) /\ Revalued(work[r])
  BY <1>4 DEF Closing, SavedAll
<1>13. ASSUME owner[p] # Nobody
       PROVE  /\ usr'[owner[p]].cv = usr'[owner[p]].cvp
              /\ usr'[owner[p]].cvp = TotalOf(owner[p])
  <2>1. owner[p] \in Owners(work[r].stock) /\ owner[p] \in Users
    BY <1>11, <1>13 DEF Owners, TypeInv, UserInv, UserTypeOK, TypeOK
  <2>2. /\ usr[owner[p]].cvp = TotalOf(owner[p])
        /\ usr[owner[p]].cv = usr[owner[p]].cvp \/ owner[p] = a.user
    BY <1>4, <1>9, <2>1 DEF Closing
  <2> QED
    BY <1>10, <2>1, <2>2
<1> QED
  BY <1>11, <1>12, <1>13 DEF SavedAll, Revalued

\* A fan-out that nothing came between, and that was not cut short, leaves each
\* holding in the stock's set at the new price, its portfolio's hash and its
\* user's saved, and the user's current value that of all its portfolios.
THEOREM FanOutLeavesSaved == ValuationSpec => FanOutSettles
<1> DEFINE I == TypeInv /\ LoneInv /\ DeletionInv /\ FanInv
           Saved == \A r \in Pricers :
             work[r].at = "users" /\ work'[r] = Idle /\ cut' = {} /\ Orderly' =>
               LET s == work[r].stock
               IN  \A p \in Portfolios : <<p, s>> \in indexed =>
                     /\ scv[<<p, s>>] = quantity[<<p, s>>] * work[r].price
                     /\ shown[<<p, s>>] = scv[<<p, s>>]
                     /\ pf[p].cv = pf[p].cvp
                     /\ owner[p] # Nobody =>
                          LET hash == usr'[owner[p]]
                          IN  hash.cv = hash.cvp /\ hash.cvp =
                                SumFunctionOnSet(currents, members[owner[p]])
<1>1. I /\ [ValuationNext]_allVars => I'
  BY TypeStep, LoneStep, DeletionStep, FanStep
<1>2. ValuationInit => I
  BY TypeInit, LoneInit, DeletionInit, FanInit
<1>3. I /\ I' /\ [ValuationNext]_allVars => [Saved]_allVars
  <2> SUFFICES ASSUME I, I', ValuationNext PROVE Saved
    OBVIOUS
  <2> QED
    BY FanEnds
<1>4. FanOutSettles <=> [][Saved]_allVars
  BY DEF FanOutSettles
<1> HIDE DEF I, Saved
<1> QED
  BY <1>1, <1>2, <1>3, <1>4, PTL DEF ValuationSpec
=============================================================================

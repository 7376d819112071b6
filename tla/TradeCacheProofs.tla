-------------------------- MODULE TradeCacheProofs --------------------------
(***************************************************************************)
(* Proofs about TradeCache for every set of trades, workers, portfolios,    *)
(* stocks and users and for every bound.                                    *)
(* The totals of a portfolio whose trades are on one partition are those of *)
(* the counted trades, though the snapshot writes them back as it read      *)
(* them, whatever fails, crashes or is retried and redelivered.             *)
(***************************************************************************)
EXTENDS TradeCache, SumTheorems, TLAPS

USE DEF holdingVars, hashVars, mapVars, localVars, vars

\* The parts of a trade are of the sets they are drawn from.
LEMMA TradeParts ==
  ASSUME NEW t \in Trades
  PROVE  /\ t.pf \in Portfolios /\ t.user \in Users /\ t.stock \in Stocks
         /\ t.type \in {"BUY", "SELL"}
         /\ t.qty \in Nat /\ t.price \in Nat
BY TradesAssumption

\* A trade is about a holding.
LEMMA HoldingType == \A t \in Trades : Holding(t) \in Holdings
BY TradeParts DEF Holding, Holdings

\* The product of a price and a quantity is a number.
LEMMA ProductType == \A m, n \in Nat : m * n \in Int
OBVIOUS

\* What a trade adds to a value is a number.
LEMMA AmountType == \A t \in Trades : Amount(t) \in Int
<1> SUFFICES ASSUME NEW t \in Trades PROVE Amount(t) \in Int
  OBVIOUS
<1>1. t.price * t.qty \in Int
  BY TradeParts, ProductType
<1> QED BY <1>1 DEF Amount

\* A quantity stays a natural number.
LEMMA AfterType == \A t \in Trades, q \in Nat : After(t, q) \in Nat
<1> SUFFICES ASSUME NEW t \in Trades, NEW q \in Nat PROVE After(t, q) \in Nat
  OBVIOUS
<1> QED BY TradeParts DEF After

\* A stock's value after a trade is a number or missing.
LEMMA ValueAfterType ==
  \A t \in Trades, removed \in BOOLEAN, value \in Int :
    ValueAfter(t, removed, value) \in Int \cup {Missing}
BY AmountType DEF ValueAfter

\* A value to show is a number.
LEMMA OrZeroType == \A value \in Int \cup {Missing} : OrZero(value) \in Int
BY DEF OrZero

\* A step that moves one worker on moves it to a phase.
LEMMA GotoType ==
  ASSUME pc \in [Workers -> Phases], NEW w \in Workers, NEW phase \in Phases,
         Goto(w, phase)
  PROVE  pc' \in [Workers -> Phases]
BY DEF Goto

\* A step that uses a bound up leaves numbers.
LEMMA SpendType ==
  ASSUME spent \in [Bounds -> Nat], NEW bound \in Bounds, Spend(bound)
  PROVE  spent' \in [Bounds -> Nat]
BY DEF Spend

\* A call, answered or not, leaves a phase and numbers.
LEMMA ContinueType ==
  ASSUME TypeOK, NEW w \in Workers, NEW phase \in Phases \ {"idle"},
         pc[w] # "idle", Continue(w, phase)
  PROVE  /\ pc' \in [Workers -> Phases]
         /\ spent' \in [Bounds -> Nat]
         /\ \A v \in Workers : (pc'[v] = "idle") <=> (pc[v] = "idle")
         /\ pc'[w] \in {phase, "check"}
         /\ \A v \in Workers \ {w} : pc'[v] = pc[v]
<1>1. CASE Goto(w, phase) /\ UNCHANGED spent
  BY <1>1 DEF TypeOK, Goto
<1>2. CASE Goto(w, "check") /\ Spend("faults")
  <2>1. spent' \in [Bounds -> Nat]
    BY <1>2, SpendType DEF Bounds, TypeOK
  <2> QED BY <1>2, <2>1 DEF TypeOK, Goto, Phases
<1> QED BY <1>1, <1>2 DEF Continue

\* A worker between calls of the handler has the locals of one.
LEMMA FreshType ==
  ASSUME TypeOK, NEW w \in Workers, Fresh(w)
  PROVE  /\ seen' \in [Workers -> Nat]
         /\ tries' \in [Workers -> 0..CasAttempts]
         /\ turn' \in [Workers -> BOOLEAN]
         /\ base' \in [Workers -> Int]
         /\ snap' \in [Workers -> [pv : Int, cv : Int, n : Int]]
BY CasAssumption DEF TypeOK, Fresh, NoSnap

\* Mapping a portfolio to a user leaves a mapping.
LEMMA MapToType ==
  ASSUME TypeOK, NEW p \in Portfolios, NEW u \in Users
  PROVE  /\ [owner EXCEPT ![p] = u] \in [Portfolios -> Users \cup {Nobody}]
         /\ pending \cup {p} \subseteq Portfolios
         /\ [members EXCEPT ![u] = @ \cup {p}] \in [Users -> SUBSET Portfolios]
<1>1. members[u] \cup {p} \in SUBSET Portfolios
  BY DEF TypeOK
<1> QED BY <1>1 DEF TypeOK

\* The hashes of portfolios and of users.
PortfolioHash == [pv : Int, cvp : Int, cv : Int, ac : Int]
UserHash == [pv : Int, cvp : Int, cv : Int, count : Int]

\* Adding numbers to the fields of a portfolio's hash, or setting them, leaves
\* such a hash.
LEMMA PortfolioHashType ==
  ASSUME NEW hash \in PortfolioHash, NEW a \in Int, NEW b \in Int, NEW c \in Int
  PROVE  /\ PlusTrade(hash, a, b) \in PortfolioHash
         /\ [hash EXCEPT !.pv = a, !.cv = b, !.ac = c] \in PortfolioHash
<1> DEFINE x == hash.pv + a
           y == hash.cvp + a
           z == hash.ac + b
<1>1. x \in Int /\ y \in Int /\ z \in Int
  BY DEF PortfolioHash
<1>2. [hash EXCEPT !.pv = x, !.cvp = y, !.ac = z] \in PortfolioHash
  <2> HIDE DEF x, y, z
  <2> QED BY <1>1 DEF PortfolioHash
<1>3. [hash EXCEPT !.pv = a, !.cv = b, !.ac = c] \in PortfolioHash
  BY DEF PortfolioHash
<1> QED BY <1>2, <1>3 DEF PlusTrade

\* The same for a user's hash.
LEMMA UserHashType ==
  ASSUME NEW hash \in UserHash, NEW a \in Int, NEW b \in Int, NEW c \in Int
  PROVE  /\ PlusAmount(hash, a) \in UserHash
         /\ [hash EXCEPT !.pv = a, !.cv = b, !.count = c] \in UserHash
<1> DEFINE x == hash.pv + a
           y == hash.cvp + a
<1>1. x \in Int /\ y \in Int
  BY DEF UserHash
<1>2. [hash EXCEPT !.pv = x, !.cvp = y] \in UserHash
  <2> HIDE DEF x, y
  <2> QED BY <1>1 DEF UserHash
<1>3. [hash EXCEPT !.pv = a, !.cv = b, !.count = c] \in UserHash
  BY DEF UserHash
<1> QED BY <1>2, <1>3 DEF PlusAmount

\* What a typed state has for one portfolio, user or worker.
LEMMA HashTypes ==
  ASSUME TypeOK
  PROVE  /\ pf \in [Portfolios -> PortfolioHash]
         /\ usr \in [Users -> UserHash]
         /\ \A w \in Workers : snap[w].pv \in Int /\ snap[w].cv \in Int /\ snap[w].n \in Int
BY DEF TypeOK, PortfolioHash, UserHash

----------------------------------------------------------------------------
(* The invariant *)

\* Conflicts are counted up to the last attempt only.
TriesLeft ==
  \A w \in Workers : pc[w] \in {"map", "enroll", "read", "cas"} => tries[w] < CasAttempts

\* Whatever has a marker has those of the places before.
MarkersInOrder ==
  processed \subseteq inUsr /\ inUsr \subseteq inPf /\ inPf \subseteq inHolding

\* A worker past a place is at a trade with the place's marker.
PastMarker ==
  \A w \in Workers :
    /\ pc[w] \in {"index", "legacy", "totals"} => trade[w] \in inHolding
    /\ pc[w] \in {"project", "user"} => trade[w] \in inPf
    /\ pc[w] = "mark" => trade[w] \in inUsr

Inv == TypeOK /\ TriesLeft

\* The initial state is typed.
LEMMA InvInit == Init => Inv
BY CasAssumption DEF Init, Inv, TypeOK, TriesLeft, Phases, NoSnap, Bounds

\* Every step keeps the types.
LEMMA InvStep == Inv /\ [Next]_vars => Inv'
<1> SUFFICES ASSUME Inv, [Next]_vars PROVE Inv'
  OBVIOUS
<1> USE HoldingType, AmountType, TradeParts DEF Inv
<1>1. ASSUME NEW w \in Workers, NEW t \in Trades, Take(w, t) PROVE Inv'
  <2>1. spent' \in [Bounds -> Nat]
    BY <1>1, SpendType DEF Take, TypeOK, Bounds
  <2>2. TypeOK'
    BY <1>1, <2>1, NamesAssumption DEF Take, TypeOK, Goto, Phases
  <2> QED BY <1>1, <2>2 DEF Take, TypeOK, TriesLeft, Goto
<1>2. ASSUME NEW w \in Workers, Check(w) PROVE Inv'
  <2>1. TypeOK'
    BY <1>2, FreshType DEF Check, TypeOK, Phases, Goto
  <2> QED BY <1>2, <2>1, CasAssumption DEF Check, TypeOK, TriesLeft, Goto, Fresh
<1>3. ASSUME NEW w \in Workers, MapUser(w) PROVE Inv'
  <2>1. trade[w] \in Trades
    BY <1>3 DEF MapUser, TypeOK
  <2>2. /\ pc' \in [Workers -> Phases] /\ spent' \in [Bounds -> Nat]
        /\ \A v \in Workers : (pc'[v] = "idle") <=> (pc[v] = "idle")
        /\ pc'[w] \in {"read", "check"}
        /\ \A v \in Workers \ {w} : pc'[v] = pc[v]
    BY <1>3, ContinueType DEF MapUser, Phases
  <2>3. /\ owner' \in [Portfolios -> Users \cup {Nobody}]
        /\ pending' \subseteq Portfolios
        /\ members' \in [Users -> SUBSET Portfolios]
    BY <1>3, <2>1, MapToType DEF MapUser
  <2>4. TypeOK'
    BY <1>3, <2>2, <2>3 DEF MapUser, TypeOK
  <2>5. pc[w] = "enroll" /\ tries' = tries
    BY <1>3 DEF MapUser
  <2> QED BY <2>2, <2>4, <2>5 DEF TriesLeft
<1>4. ASSUME NEW w \in Workers, MapHalf(w) PROVE Inv'
  <2>1. trade[w] \in Trades
    BY <1>4 DEF MapHalf, TypeOK
  <2>2. spent' \in [Bounds -> Nat]
    BY <1>4, SpendType DEF MapHalf, TypeOK, Bounds
  <2>3. /\ owner' \in [Portfolios -> Users \cup {Nobody}]
        /\ pending' \subseteq Portfolios
        /\ members' \in [Users -> SUBSET Portfolios]
    <3>1. trade[w].pf \in Portfolios /\ trade[w].user \in Users
      BY <2>1
    <3> DEFINE p == trade[w].pf
               u == trade[w].user
    <3>2. CASE /\ owner' = [owner EXCEPT ![p] = u]
               /\ pending' = pending \cup {p} /\ UNCHANGED members
      BY <3>1, <3>2, MapToType DEF TypeOK
    <3>3. CASE /\ members' = [members EXCEPT ![u] = @ \cup {p}]
               /\ UNCHANGED <<owner, pending>>
      BY <3>1, <3>3, MapToType DEF TypeOK
    <3> QED BY <1>4, <3>2, <3>3 DEF MapHalf
  <2>4. TypeOK'
    BY <1>4, <2>1, <2>2, <2>3 DEF MapHalf, TypeOK, Phases, Goto
  <2> QED BY <1>4, <2>4 DEF MapHalf, TriesLeft, Goto, TypeOK
<1>5. ASSUME NEW w \in Workers, FindUser(w) PROVE Inv'
  <2>1. spent' \in [Bounds -> Nat]
    BY <1>5, SpendType DEF FindUser, TypeOK, Bounds
  <2>2. TypeOK'
    BY <1>5, <2>1 DEF FindUser, TypeOK, Phases, Goto
  <2> QED BY <1>5, <2>2 DEF FindUser, TriesLeft, Goto, TypeOK
<1>6. ASSUME NEW w \in Workers, ReadQuantity(w) PROVE Inv'
  <2>1. trade[w] \in Trades
    BY <1>6 DEF ReadQuantity, TypeOK
  <2> QED BY <1>6, <2>1 DEF ReadQuantity, TypeOK, Phases, Goto, TriesLeft
<1>7. ASSUME NEW w \in Workers, CasApplied(w) PROVE Inv'
  <2>1. trade[w] \in Trades
    BY <1>7 DEF CasApplied, TypeOK
  <2>2. TypeOK'
    BY <1>7, <2>1, ContinueType DEF CasApplied, TypeOK, Phases
  <2> QED BY <1>7, <2>2, ContinueType DEF CasApplied, TriesLeft, Phases
<1>8. ASSUME NEW w \in Workers, CasConflict(w) PROVE Inv'
  <2>1. trade[w] \in Trades /\ tries[w] < CasAttempts /\ tries[w] \in Nat
    BY <1>8, CasAssumption DEF CasConflict, TypeOK, TriesLeft
  <2>2. tries[w] + 1 \in 0..CasAttempts
    BY <2>1, CasAssumption
  <2>3. TypeOK'
    BY <1>8, <2>1, <2>2 DEF CasConflict, TypeOK, Phases, Goto
  <2>4. TriesLeft'
    <3>1. /\ \A v \in Workers \ {w} : pc'[v] = pc[v] /\ tries'[v] = tries[v]
          /\ tries'[w] = tries[w] + 1
          /\ pc'[w] = "cas" => tries[w] + 1 # CasAttempts
          /\ pc'[w] \in {"check", "cas"}
      BY <1>8 DEF CasConflict, TypeOK, Goto
    <3> QED
      BY <2>2, <3>1, CasAssumption DEF TriesLeft
  <2> QED BY <2>3, <2>4
<1>9. ASSUME NEW w \in Workers, CasOk(w) PROVE Inv'
  <2>1. trade[w] \in Trades
    BY <1>9 DEF CasOk, TypeOK
  <2>2. After(trade[w], seen[w]) \in Nat
    BY <2>1, AfterType DEF TypeOK
  <2>3. Turns(trade[w], seen[w]) \in BOOLEAN
    BY DEF Turns
  <2>4. TypeOK'
    BY <1>9, <2>1, <2>2, <2>3, ContinueType DEF CasOk, TypeOK, Phases
  <2> QED BY <1>9, <2>4, ContinueType DEF CasOk, TriesLeft, Phases
<1>10. ASSUME NEW w \in Workers, SyncIndex(w) PROVE Inv'
  <2>1. trade[w] \in Trades
    BY <1>10 DEF SyncIndex, TypeOK
  <2>2. TypeOK'
    BY <1>10, <2>1, ContinueType DEF SyncIndex, TypeOK, Phases
  <2> QED BY <1>10, <2>2, ContinueType DEF SyncIndex, TriesLeft, Phases
<1>11. ASSUME NEW w \in Workers, ReadLegacy(w) PROVE Inv'
  <2>1. trade[w] \in Trades
    BY <1>11 DEF ReadLegacy, TypeOK
  <2>2. spent' \in [Bounds -> Nat]
    BY <1>11, SpendType DEF ReadLegacy, TypeOK, Bounds
  <2>3. TypeOK'
    BY <1>11, <2>1, <2>2 DEF ReadLegacy, TypeOK, Phases, Goto
  <2> QED BY <1>11, <2>3 DEF ReadLegacy, TriesLeft, Goto, TypeOK
<1>12. ASSUME NEW w \in Workers, ApplyTotals(w) PROVE Inv'
  <2> DEFINE t == trade[w]
             h == Holding(t)
             value == ValueAfter(t, turn[w],
                          IF scv[h] = Missing THEN base[w] ELSE scv[h])
  <2>1. t \in Trades /\ h \in Holdings
    BY <1>12 DEF ApplyTotals, TypeOK
  <2>2. value \in Int \cup {Missing}
    BY <2>1, ValueAfterType DEF TypeOK
  <2>3. OrZero(value) \in Int /\ OrZero(scv[h]) \in Int
    BY <2>1, <2>2, OrZeroType DEF TypeOK
  <2>4. AssetChange(t, turn[w]) \in Int
    BY DEF AssetChange
  <2>5. /\ pc' \in [Workers -> Phases] /\ spent' \in [Bounds -> Nat]
        /\ \A v \in Workers : (pc'[v] = "idle") <=> (pc[v] = "idle")
        /\ pc'[w] \in {"project", "check"}
        /\ \A v \in Workers \ {w} : pc'[v] = pc[v]
    BY <1>12, ContinueType DEF ApplyTotals, Phases
  <2>6. CASE t \in inPf
    <3>0. base' \in [Workers -> Int]
      BY <1>12, <2>3, <2>6 DEF ApplyTotals, TypeOK
    <3>1. TypeOK'
      BY <1>12, <2>1, <2>5, <2>6, <3>0 DEF ApplyTotals, TypeOK
    <3> QED BY <1>12, <2>5, <3>1 DEF ApplyTotals, TriesLeft
  <2>7. CASE t \notin inPf
    <3>1. base' \in [Workers -> Int]
      BY <1>12, <2>3, <2>7 DEF ApplyTotals, TypeOK
    <3>2. scv' \in [Holdings -> Int \cup {Missing}]
      BY <1>12, <2>1, <2>2, <2>7 DEF ApplyTotals, TypeOK
    <3>3. PlusTrade(pf[t.pf], Amount(t), AssetChange(t, turn[w])) \in PortfolioHash
      BY <2>1, <2>4, HashTypes, PortfolioHashType
    <3>4. pf' \in [Portfolios -> PortfolioHash]
      <4>1. t.pf \in Portfolios
        BY <2>1
      <4>2. pf' = [pf EXCEPT ![t.pf] =
                     PlusTrade(pf[t.pf], Amount(t), AssetChange(t, turn[w]))]
        BY <1>12, <2>7, <4>1 DEF ApplyTotals
      <4> QED BY <3>3, <4>1, <4>2, HashTypes
    <3>5. TypeOK'
      BY <1>12, <2>1, <2>5, <2>7, <3>1, <3>2, <3>4
         DEF ApplyTotals, TypeOK, PortfolioHash
    <3> QED BY <1>12, <2>5, <3>5 DEF ApplyTotals, TriesLeft
  <2> QED BY <2>6, <2>7
<1>13. ASSUME NEW w \in Workers, Project(w) PROVE Inv'
  <2>1. trade[w] \in Trades
    BY <1>13 DEF Project, TypeOK
  <2>2. TypeOK'
    BY <1>13, <2>1, ContinueType DEF Project, TypeOK, Phases
  <2> QED BY <1>13, <2>2, ContinueType DEF Project, TriesLeft, Phases
<1>14. ASSUME NEW w \in Workers, ApplyUser(w) PROVE Inv'
  <2>1. trade[w] \in Trades
    BY <1>14 DEF ApplyUser, TypeOK
  <2>2. CASE trade[w] \in inUsr
    <3>1. TypeOK'
      BY <1>14, <2>1, <2>2, ContinueType DEF ApplyUser, TypeOK, Phases
    <3> QED BY <1>14, <3>1, ContinueType DEF ApplyUser, TriesLeft, Phases
  <2>3. CASE trade[w] \notin inUsr
    <3>1. PlusAmount(usr[trade[w].user], Amount(trade[w])) \in UserHash
      BY <2>1, HashTypes, UserHashType
    <3>2. usr' \in [Users -> UserHash]
      <4>1. trade[w].user \in Users
        BY <2>1
      <4>2. usr' = [usr EXCEPT ![trade[w].user] =
                      PlusAmount(usr[trade[w].user], Amount(trade[w]))]
        BY <1>14, <2>3, <4>1 DEF ApplyUser
      <4> QED BY <3>1, <4>1, <4>2, HashTypes
    <3>3. TypeOK'
      BY <1>14, <2>1, <2>3, <3>2, ContinueType
         DEF ApplyUser, TypeOK, Phases, UserHash
    <3> QED BY <1>14, <3>3, ContinueType DEF ApplyUser, TriesLeft, Phases
  <2> QED BY <2>2, <2>3
<1>15. ASSUME NEW w \in Workers, MarkProcessed(w) PROVE Inv'
  <2>1. trade[w] \in Trades
    BY <1>15 DEF MarkProcessed, TypeOK
  <2>2. TypeOK'
    BY <1>15, <2>1, ContinueType DEF MarkProcessed, TypeOK, Phases
  <2> QED BY <1>15, <2>2, ContinueType DEF MarkProcessed, TriesLeft, Phases
<1>16. ASSUME NEW w \in Workers, NEW lost \in SUBSET Fields, ReadPortfolio(w, lost) PROVE Inv'
  <2>1. trade[w] \in Trades
    BY <1>16 DEF ReadPortfolio, TypeOK
  <2>2. Reading(pf[trade[w].pf], pf[trade[w].pf].ac, lost) \in [pv : Int, cv : Int, n : Int]
    BY <2>1 DEF TypeOK, Reading
  <2>3. spent' \in [Bounds -> Nat]
    BY <1>16, SpendType DEF ReadPortfolio, Misread, TypeOK, Bounds
  <2>4. TypeOK'
    BY <1>16, <2>1, <2>2, <2>3 DEF ReadPortfolio, TypeOK, Phases, Goto
  <2> QED BY <1>16, <2>4 DEF ReadPortfolio, TriesLeft, Goto, TypeOK
<1>17. ASSUME NEW w \in Workers, SavePortfolio(w) PROVE Inv'
  <2>1. trade[w] \in Trades
    BY <1>17 DEF SavePortfolio, TypeOK
  <2>2. [pf[trade[w].pf] EXCEPT !.pv = snap[w].pv, !.cv = snap[w].cv,
                                !.ac = snap[w].n] \in PortfolioHash
    BY <2>1, HashTypes, PortfolioHashType
  <2>3. pf' \in [Portfolios -> PortfolioHash]
    BY <1>17, <2>1, <2>2, HashTypes DEF SavePortfolio
  <2>4. TypeOK'
    BY <1>17, <2>1, <2>3, ContinueType DEF SavePortfolio, TypeOK, Phases, PortfolioHash
  <2> QED BY <1>17, <2>4, ContinueType DEF SavePortfolio, TriesLeft, Phases
<1>18. ASSUME NEW w \in Workers, NEW lost \in SUBSET Fields, ReadUser(w, lost) PROVE Inv'
  <2>1. trade[w] \in Trades
    BY <1>18 DEF ReadUser, TypeOK
  <2>2. Reading(usr[trade[w].user], usr[trade[w].user].count, lost) \in [pv : Int, cv : Int, n : Int]
    BY <2>1 DEF TypeOK, Reading
  <2>3. spent' \in [Bounds -> Nat]
    BY <1>18, SpendType DEF ReadUser, Misread, TypeOK, Bounds
  <2>4. TypeOK'
    BY <1>18, <2>1, <2>2, <2>3 DEF ReadUser, TypeOK, Phases, Goto
  <2> QED BY <1>18, <2>4 DEF ReadUser, TriesLeft, Goto, TypeOK
<1>19. ASSUME NEW w \in Workers, SaveUser(w) PROVE Inv'
  <2>1. trade[w] \in Trades
    BY <1>19 DEF SaveUser, TypeOK
  <2> DEFINE hash == [usr[trade[w].user] EXCEPT !.pv = snap[w].pv,
                               !.cv = snap[w].cv, !.count = snap[w].n]
  <2>0. hash \in UserHash
    BY <2>1, HashTypes, UserHashType
  <2>2. usr' \in [Users -> [pv : Int, cvp : Int, cv : Int, count : Int]]
    BY <1>19, <2>1, <2>0, HashTypes DEF SaveUser, UserHash
  <2>3. CASE Goto(w, "check") /\ Spend("faults") /\ UNCHANGED <<trade, returned, localVars>>
    <3>1. spent' \in [Bounds -> Nat]
      BY <2>3, SpendType DEF TypeOK, Bounds
    <3>2. TypeOK'
      BY <1>19, <2>1, <2>2, <2>3, <3>1 DEF SaveUser, TypeOK, Phases, Goto
    <3> QED BY <2>3, <3>2 DEF TriesLeft, Goto, TypeOK
  <2>4. CASE /\ Goto(w, "idle") /\ trade' = [trade EXCEPT ![w] = NoTrade]
             /\ returned' = returned \cup {trade[w]} /\ Fresh(w) /\ UNCHANGED spent
    <3>1. TypeOK'
      BY <1>19, <2>1, <2>2, <2>4, FreshType DEF SaveUser, TypeOK, Phases, Goto
    <3> QED BY <2>4, <3>1 DEF TriesLeft, Goto, TypeOK, Fresh
  <2> QED BY <1>19, <2>3, <2>4 DEF SaveUser
<1>20. ASSUME NEW w \in Workers, CallFails(w) PROVE Inv'
  <2>1. spent' \in [Bounds -> Nat]
    BY <1>20, SpendType DEF CallFails, TypeOK, Bounds
  <2>2. TypeOK'
    BY <1>20, <2>1 DEF CallFails, TypeOK, Phases, Goto
  <2> QED BY <1>20, <2>2 DEF CallFails, TriesLeft, Goto, TypeOK
<1>21. ASSUME NEW w \in Workers, Crash(w) PROVE Inv'
  <2>1. spent' \in [Bounds -> Nat]
    BY <1>21, SpendType DEF Crash, TypeOK, Bounds
  <2>2. TypeOK'
    BY <1>21, <2>1, FreshType DEF Crash, TypeOK, Phases, Goto
  <2> QED BY <1>21, <2>2 DEF Crash, TriesLeft, Goto, TypeOK, Fresh
<1>22. CASE UNCHANGED vars
  BY <1>22 DEF TypeOK, TriesLeft, inHolding
<1> QED
  BY <1>1, <1>2, <1>3, <1>4, <1>5, <1>6, <1>7, <1>8, <1>9, <1>10, <1>11,
     <1>12, <1>13, <1>14, <1>15, <1>16, <1>17, <1>18, <1>19, <1>20, <1>21, <1>22
     DEF Next, Work, Compute, Failure

\* Every variable keeps its type, and no conflict is counted past the last
\* attempt.
THEOREM TypeCorrect == Spec => []TypeOK
<1>1. Inv => TypeOK
  BY DEF Inv
<1> QED BY <1>1, InvInit, InvStep, PTL DEF Spec

----------------------------------------------------------------------------
(* The markers *)

MarkerInv == MarkersInOrder /\ PastMarker

\* Nothing is marked and nobody is at work in the initial state.
LEMMA MarkerInit == Init => MarkerInv
BY DEF Init, MarkerInv, MarkersInOrder, PastMarker

\* A step that leaves every marker keeps the invariant if it moves one worker
\* to a phase that asks for no marker more than the one it leaves.
LEMMA MarkersUnchanged ==
  ASSUME TypeOK, MarkerInv, NEW w \in Workers,
         UNCHANGED <<turned, inPf, inUsr, processed>>,
         \A v \in Workers \ {w} : pc'[v] = pc[v] /\ trade'[v] = trade[v],
         \/ pc'[w] \notin {"index", "legacy", "totals", "project", "user", "mark"}
         \/ /\ trade'[w] = trade[w]
            /\ \/ pc'[w] \in {"index", "legacy", "totals"} /\ trade[w] \in inHolding
               \/ pc'[w] = "user" /\ trade[w] \in inPf
  PROVE  MarkerInv'
<1>1. inHolding' = inHolding
  BY DEF inHolding
<1>2. MarkersInOrder'
  BY <1>1 DEF MarkerInv, MarkersInOrder
<1>3. ASSUME NEW v \in Workers, v # w
      PROVE  /\ pc'[v] \in {"index", "legacy", "totals"} => trade'[v] \in inHolding'
             /\ pc'[v] \in {"project", "user"} => trade'[v] \in inPf'
             /\ pc'[v] = "mark" => trade'[v] \in inUsr'
  BY <1>1, <1>3 DEF MarkerInv, PastMarker
<1>4. /\ pc'[w] \in {"index", "legacy", "totals"} => trade'[w] \in inHolding'
      /\ pc'[w] \in {"project", "user"} => trade'[w] \in inPf'
      /\ pc'[w] = "mark" => trade'[w] \in inUsr'
  BY <1>1
<1> QED BY <1>2, <1>3, <1>4 DEF MarkerInv, PastMarker

\* Every step keeps the order of the markers.
LEMMA MarkerStep == TypeOK /\ MarkerInv /\ [Next]_vars => MarkerInv'
<1> SUFFICES ASSUME TypeOK, MarkerInv, [Next]_vars PROVE MarkerInv'
  OBVIOUS
<1>1. ASSUME NEW w \in Workers, NEW t \in Trades, Take(w, t) PROVE MarkerInv'
  BY <1>1, MarkersUnchanged DEF Take, Goto, TypeOK
<1>2. ASSUME NEW w \in Workers, Check(w) PROVE MarkerInv'
  BY <1>2, MarkersUnchanged DEF Check, Goto, TypeOK
<1>3. ASSUME NEW w \in Workers, MapUser(w) PROVE MarkerInv'
  <2>1. /\ UNCHANGED <<turned, inPf, inUsr, processed, trade>>
        /\ pc' \in {[pc EXCEPT ![w] = "read"], [pc EXCEPT ![w] = "check"]}
    BY <1>3 DEF MapUser, Continue, Goto
  <2>2. pc'[w] \in {"read", "check"} /\ \A v \in Workers \ {w} : pc'[v] = pc[v]
    BY <1>3, <2>1 DEF TypeOK
  <2> QED
    BY <2>1, <2>2, MarkersUnchanged
<1>4. ASSUME NEW w \in Workers, MapHalf(w) PROVE MarkerInv'
  BY <1>4, MarkersUnchanged DEF MapHalf, Goto, TypeOK
<1>5. ASSUME NEW w \in Workers, FindUser(w) PROVE MarkerInv'
  BY <1>5, MarkersUnchanged DEF FindUser, Goto, TypeOK
<1>6. ASSUME NEW w \in Workers, ReadQuantity(w) PROVE MarkerInv'
  BY <1>6, MarkersUnchanged DEF ReadQuantity, Goto, TypeOK
<1>7. ASSUME NEW w \in Workers, CasApplied(w) PROVE MarkerInv'
  <2>1. trade[w] \in inHolding
    BY <1>7 DEF CasApplied, inHolding, TypeOK
  <2> QED BY <1>7, <2>1, MarkersUnchanged DEF CasApplied, Continue, Goto, TypeOK
<1>8. ASSUME NEW w \in Workers, CasConflict(w) PROVE MarkerInv'
  BY <1>8, MarkersUnchanged DEF CasConflict, Goto, TypeOK
<1>9. ASSUME NEW w \in Workers, CasOk(w) PROVE MarkerInv'
  <2>1. trade[w] \in Trades
    BY <1>9 DEF CasOk, TypeOK
  <2>2. inHolding' = inHolding \cup {trade[w]}
    BY <1>9, <2>1 DEF CasOk, inHolding, TypeOK
  <2>3. MarkersInOrder'
    BY <1>9, <2>2 DEF CasOk, MarkerInv, MarkersInOrder
  <2>4. PastMarker'
    BY <1>9, <2>2 DEF CasOk, Continue, Goto, MarkerInv, PastMarker, TypeOK
  <2> QED BY <2>3, <2>4 DEF MarkerInv
<1>10. ASSUME NEW w \in Workers, SyncIndex(w) PROVE MarkerInv'
  <2>1. trade[w] \in inHolding
    BY <1>10 DEF SyncIndex, MarkerInv, PastMarker
  <2> QED BY <1>10, <2>1, MarkersUnchanged DEF SyncIndex, Continue, Goto, TypeOK
<1>11. ASSUME NEW w \in Workers, ReadLegacy(w) PROVE MarkerInv'
  <2>1. trade[w] \in inHolding
    BY <1>11 DEF ReadLegacy, MarkerInv, PastMarker
  <2> QED BY <1>11, <2>1, MarkersUnchanged DEF ReadLegacy, Goto, TypeOK
<1>12. ASSUME NEW w \in Workers, ApplyTotals(w) PROVE MarkerInv'
  <2>1. trade[w] \in inHolding
    BY <1>12 DEF ApplyTotals, MarkerInv, PastMarker
  <2>2. inPf' = inPf \cup {trade[w]}
    BY <1>12 DEF ApplyTotals
  <2>3. inHolding' = inHolding
    BY <1>12 DEF ApplyTotals, inHolding
  <2>4. MarkersInOrder'
    BY <1>12, <2>1, <2>2, <2>3 DEF ApplyTotals, MarkerInv, MarkersInOrder
  <2>5. PastMarker'
    BY <1>12, <2>2, <2>3 DEF ApplyTotals, Continue, Goto, MarkerInv, PastMarker, TypeOK
  <2> QED BY <2>4, <2>5 DEF MarkerInv
<1>13. ASSUME NEW w \in Workers, Project(w) PROVE MarkerInv'
  <2>1. trade[w] \in inPf
    BY <1>13 DEF Project, MarkerInv, PastMarker
  <2> QED BY <1>13, <2>1, MarkersUnchanged DEF Project, Continue, Goto, TypeOK
<1>14. ASSUME NEW w \in Workers, ApplyUser(w) PROVE MarkerInv'
  <2>1. trade[w] \in inPf
    BY <1>14 DEF ApplyUser, MarkerInv, PastMarker
  <2>2. inUsr' = inUsr \cup {trade[w]}
    BY <1>14 DEF ApplyUser
  <2>3. inHolding' = inHolding
    BY <1>14 DEF ApplyUser, inHolding
  <2>4. MarkersInOrder'
    BY <1>14, <2>1, <2>2, <2>3 DEF ApplyUser, MarkerInv, MarkersInOrder
  <2>5. PastMarker'
    BY <1>14, <2>2, <2>3 DEF ApplyUser, Continue, Goto, MarkerInv, PastMarker, TypeOK
  <2> QED BY <2>4, <2>5 DEF MarkerInv
<1>15. ASSUME NEW w \in Workers, MarkProcessed(w) PROVE MarkerInv'
  <2>1. trade[w] \in inUsr
    BY <1>15 DEF MarkProcessed, MarkerInv, PastMarker
  <2>2. inHolding' = inHolding
    BY <1>15 DEF MarkProcessed, inHolding
  <2>3. MarkersInOrder'
    BY <1>15, <2>1, <2>2 DEF MarkProcessed, MarkerInv, MarkersInOrder
  <2>4. PastMarker'
    BY <1>15, <2>2 DEF MarkProcessed, Continue, Goto, MarkerInv, PastMarker, TypeOK
  <2> QED BY <2>3, <2>4 DEF MarkerInv
<1>16. ASSUME NEW w \in Workers, NEW lost \in SUBSET Fields, ReadPortfolio(w, lost) PROVE MarkerInv'
  BY <1>16, MarkersUnchanged DEF ReadPortfolio, Goto, TypeOK
<1>17. ASSUME NEW w \in Workers, SavePortfolio(w) PROVE MarkerInv'
  BY <1>17, MarkersUnchanged DEF SavePortfolio, Continue, Goto, TypeOK
<1>18. ASSUME NEW w \in Workers, NEW lost \in SUBSET Fields, ReadUser(w, lost) PROVE MarkerInv'
  BY <1>18, MarkersUnchanged DEF ReadUser, Goto, TypeOK
<1>19. ASSUME NEW w \in Workers, SaveUser(w) PROVE MarkerInv'
  BY <1>19, MarkersUnchanged DEF SaveUser, Goto, TypeOK
<1>20. ASSUME NEW w \in Workers, CallFails(w) PROVE MarkerInv'
  BY <1>20, MarkersUnchanged DEF CallFails, Goto, TypeOK
<1>21. ASSUME NEW w \in Workers, Crash(w) PROVE MarkerInv'
  BY <1>21, MarkersUnchanged DEF Crash, Goto, TypeOK
<1>22. CASE UNCHANGED vars
  BY <1>22 DEF MarkerInv, MarkersInOrder, PastMarker, inHolding
<1> QED
  BY <1>1, <1>2, <1>3, <1>4, <1>5, <1>6, <1>7, <1>8, <1>9, <1>10, <1>11, <1>12, <1>13, <1>14, <1>15, <1>16, <1>17, <1>18, <1>19, <1>20, <1>21, <1>22
     DEF Next, Work, Compute, Failure

\* A trade marked processed is counted in the holding, in the portfolio and in
\* the user, and in each only after the places before it.
THEOREM MarkersAreInOrder == Spec => []MarkersInOrder
<1>1. Init => Inv /\ MarkerInv
  BY InvInit, MarkerInit
<1>2. (Inv /\ MarkerInv) /\ [Next]_vars => (Inv /\ MarkerInv)'
  BY InvStep, MarkerStep DEF Inv
<1>3. Inv /\ MarkerInv => MarkersInOrder
  BY DEF MarkerInv
<1> QED BY <1>1, <1>2, <1>3, PTL DEF Spec

----------------------------------------------------------------------------
(* The ledger *)

\* The values the ledger sees.
worths == [p \in Portfolios |-> pf[p].cvp]
wealths == [u \in Users |-> usr[u].cvp]
counts == [place \in {"holding", "portfolio", "user"} |->
             CASE place = "holding"   -> inHolding
               [] place = "portfolio" -> inPf
               [] place = "user"      -> inUsr]

\* What a trade adds is the same to the ledger.
LEMMA SameEvents ==
  /\ Ledger!Holdings = Holdings
  /\ \A t : Ledger!Holding(t) = Holding(t) /\ Ledger!Amount(t) = Amount(t)
  /\ \A t, q : Ledger!After(t, q) = After(t, q)
BY DEF Ledger!Holdings, Holdings, Ledger!Holding, Holding, Ledger!Amount, Amount,
       Ledger!After, After

\* Initially the ledger is empty.
LEMMA LedgerInit == Init => Ledger!LedgerInit
<1> SUFFICES ASSUME Init PROVE Ledger!LedgerInit
  OBVIOUS
<1>1. worths = [p \in Portfolios |-> 0] /\ wealths = [u \in Users |-> 0]
  BY DEF Init, worths, wealths
<1>2. inHolding = {}
  BY DEF Init, inHolding
<1>3. counts = [place \in {"holding", "portfolio", "user"} |-> {}]
  BY <1>2 DEF Init, counts
<1> QED BY <1>1, <1>3, SameEvents
        DEF Init, Ledger!LedgerInit, Ledger!Places, worths, wealths, counts

\* The counts after a trade is counted in a place, and the others are as before.
LEMMA CountsAfter ==
  ASSUME NEW place \in {"holding", "portfolio", "user"}, NEW t,
         inHolding' = IF place = "holding" THEN inHolding \cup {t} ELSE inHolding,
         inPf' = IF place = "portfolio" THEN inPf \cup {t} ELSE inPf,
         inUsr' = IF place = "user" THEN inUsr \cup {t} ELSE inUsr
  PROVE  counts' = [counts EXCEPT ![place] = @ \cup {t}]
BY DEF counts

\* A step that leaves markers and current values is a stutter of the ledger.
LEMMA LedgerStutter ==
  ASSUME UNCHANGED <<quantity, turned, pf, inPf, usr, inUsr, processed>>
  PROVE  UNCHANGED Ledger!ledgerVars
<1>1. inHolding' = inHolding
  BY DEF inHolding
<1> QED BY <1>1 DEF Ledger!ledgerVars

\* Every step is one of the ledger or leaves it alone.
LEMMA LedgerStep ==
  ASSUME TypeOK, MarkerInv, [Next]_vars
  PROVE  Ledger!LedgerNext \/ UNCHANGED Ledger!ledgerVars
<1> DEFINE Goal == Ledger!LedgerNext \/ UNCHANGED Ledger!ledgerVars
<1>1. ASSUME NEW w \in Workers, NEW t \in Trades, Take(w, t) PROVE Goal
  BY <1>1, LedgerStutter DEF Take
<1>2. ASSUME NEW w \in Workers, Check(w) PROVE Goal
  BY <1>2, LedgerStutter DEF Check
<1>3. ASSUME NEW w \in Workers, MapUser(w) PROVE Goal
  BY <1>3, LedgerStutter DEF MapUser
<1>4. ASSUME NEW w \in Workers, MapHalf(w) PROVE Goal
  BY <1>4, LedgerStutter DEF MapHalf
<1>5. ASSUME NEW w \in Workers, FindUser(w) PROVE Goal
  BY <1>5, LedgerStutter DEF FindUser
<1>6. ASSUME NEW w \in Workers, ReadQuantity(w) PROVE Goal
  BY <1>6, LedgerStutter DEF ReadQuantity
<1>7. ASSUME NEW w \in Workers, CasApplied(w) PROVE Goal
  BY <1>7, LedgerStutter DEF CasApplied
<1>8. ASSUME NEW w \in Workers, CasConflict(w) PROVE Goal
  BY <1>8, LedgerStutter DEF CasConflict
<1>9. ASSUME NEW w \in Workers, CasOk(w) PROVE Goal
  <2>0. PICK t \in Trades : t = trade[w]
    BY <1>9 DEF CasOk, TypeOK
  <2>1. t \in Trades /\ t \notin inHolding
    BY <1>9, <2>0 DEF CasOk, TypeOK, inHolding
  <2>2. inHolding' = inHolding \cup {t}
    BY <1>9, <2>0, <2>1 DEF CasOk, inHolding, TypeOK
  <2>3. counts' = [counts EXCEPT !["holding"] = @ \cup {t}]
    BY <1>9, <2>0, <2>2, CountsAfter DEF CasOk
  <2>4. quantity' = [quantity EXCEPT ![Ledger!Holding(t)] = Ledger!After(t, @)]
    BY <1>9, <2>0, SameEvents DEF CasOk
  <2>5. Ledger!Count(t, "holding")
    BY <1>9, <2>0, <2>1, <2>3 DEF CasOk, Ledger!Count, counts
  <2>6. Ledger!CountHolding(t)
    BY <1>9, <2>0, <2>4, <2>5 DEF CasOk, Ledger!CountHolding
  <2>7. \E u \in Trades : Ledger!CountHolding(u)
    BY <2>1, <2>6
  <2> QED BY <2>7 DEF Ledger!LedgerNext
<1>10. ASSUME NEW w \in Workers, SyncIndex(w) PROVE Goal
  BY <1>10, LedgerStutter DEF SyncIndex
<1>11. ASSUME NEW w \in Workers, ReadLegacy(w) PROVE Goal
  BY <1>11, LedgerStutter DEF ReadLegacy
<1>12. ASSUME NEW w \in Workers, ApplyTotals(w) PROVE Goal
  <2>0. PICK t \in Trades : t = trade[w]
    BY <1>12 DEF ApplyTotals, TypeOK
  <2>1. t \in Trades /\ t \in inHolding
    BY <1>12, <2>0 DEF ApplyTotals, TypeOK, MarkerInv, PastMarker
  <2>2. CASE t \in inPf
    BY <1>12, <2>0, <2>2, LedgerStutter DEF ApplyTotals
  <2>3. CASE t \notin inPf
    <3>1. inHolding' = inHolding
      BY <1>12, <2>0 DEF ApplyTotals, inHolding
    <3>2. counts' = [counts EXCEPT !["portfolio"] = @ \cup {t}]
      BY <1>12, <2>0, <2>3, <3>1, CountsAfter DEF ApplyTotals
    <3>3. worths' = [worths EXCEPT ![t.pf] = @ + Ledger!Amount(t)]
      <4>1. pf \in [Portfolios -> PortfolioHash] /\ t.pf \in Portfolios
        BY <2>1, HashTypes, TradeParts
      <4>2. pf' = [pf EXCEPT ![t.pf] =
                     PlusTrade(pf[t.pf], Amount(t), AssetChange(t, turn[w]))]
        BY <1>12, <2>0, <2>3, <4>1 DEF ApplyTotals
      <4>3. PlusTrade(pf[t.pf], Amount(t), AssetChange(t, turn[w])).cvp
            = pf[t.pf].cvp + Amount(t)
        BY <4>1 DEF PlusTrade, PortfolioHash
      <4> QED BY <4>1, <4>2, <4>3, SameEvents DEF worths
    <3>4. Ledger!Count(t, "portfolio")
      BY <1>12, <2>0, <2>3, <3>2 DEF ApplyTotals, Ledger!Count, counts
    <3>5. Ledger!CountPortfolio(t)
      BY <1>12, <2>0, <2>1, <3>3, <3>4
         DEF ApplyTotals, Ledger!CountPortfolio, worths
    <3>6. \E u \in Trades : Ledger!CountPortfolio(u)
      BY <2>1, <3>5
    <3> QED BY <3>6 DEF Ledger!LedgerNext
  <2> QED BY <2>2, <2>3
<1>13. ASSUME NEW w \in Workers, Project(w) PROVE Goal
  BY <1>13, LedgerStutter DEF Project
<1>14. ASSUME NEW w \in Workers, ApplyUser(w) PROVE Goal
  <2>0. PICK t \in Trades : t = trade[w]
    BY <1>14 DEF ApplyUser, TypeOK
  <2>1. t \in Trades /\ t \in inPf
    BY <1>14, <2>0 DEF ApplyUser, TypeOK, MarkerInv, PastMarker
  <2>2. CASE t \in inUsr
    BY <1>14, <2>0, <2>2, LedgerStutter DEF ApplyUser
  <2>3. CASE t \notin inUsr
    <3>1. inHolding' = inHolding
      BY <1>14, <2>0 DEF ApplyUser, inHolding
    <3>2. counts' = [counts EXCEPT !["user"] = @ \cup {t}]
      BY <1>14, <2>0, <2>3, <3>1, CountsAfter DEF ApplyUser
    <3>3. wealths' = [wealths EXCEPT ![t.user] = @ + Ledger!Amount(t)]
      <4>1. usr \in [Users -> UserHash] /\ t.user \in Users
        BY <2>1, HashTypes, TradeParts
      <4>2. usr' = [usr EXCEPT ![t.user] = PlusAmount(usr[t.user], Amount(t))]
        BY <1>14, <2>0, <2>3, <4>1 DEF ApplyUser
      <4>3. PlusAmount(usr[t.user], Amount(t)).cvp = usr[t.user].cvp + Amount(t)
        BY <4>1 DEF PlusAmount, UserHash
      <4> QED BY <4>1, <4>2, <4>3, SameEvents DEF wealths
    <3>4. Ledger!Count(t, "user")
      BY <1>14, <2>0, <2>3, <3>2 DEF ApplyUser, Ledger!Count, counts
    <3>5. Ledger!CountUser(t)
      BY <1>14, <2>0, <2>1, <3>3, <3>4 DEF ApplyUser, Ledger!CountUser, wealths
    <3>6. \E u \in Trades : Ledger!CountUser(u)
      BY <2>1, <3>5
    <3> QED BY <3>6 DEF Ledger!LedgerNext
  <2> QED BY <2>2, <2>3
<1>15. ASSUME NEW w \in Workers, MarkProcessed(w) PROVE Goal
  <2> DEFINE t == trade[w]
  <2>1. t \in Trades /\ t \in inUsr /\ t \in inPf /\ t \in inHolding
    BY <1>15 DEF MarkProcessed, TypeOK, MarkerInv, PastMarker, MarkersInOrder
  <2>2. inHolding' = inHolding
    BY <1>15 DEF MarkProcessed, inHolding
  <2>3. Ledger!Tell(t)
    BY <1>15, <2>1, <2>2 DEF MarkProcessed, Ledger!Tell, Ledger!Places
  <2> QED BY <2>1, <2>3 DEF Ledger!LedgerNext
<1>16. ASSUME NEW w \in Workers, NEW lost \in SUBSET Fields, ReadPortfolio(w, lost) PROVE Goal
  BY <1>16, LedgerStutter DEF ReadPortfolio
<1>17. ASSUME NEW w \in Workers, SavePortfolio(w) PROVE Goal
  <2>1. trade[w] \in Trades
    BY <1>17 DEF SavePortfolio, TypeOK
  <2>2. worths' = worths
    <3>1. pf \in [Portfolios -> PortfolioHash] /\ trade[w].pf \in Portfolios
      BY <2>1, HashTypes, TradeParts
    <3> QED BY <1>17, <3>1 DEF SavePortfolio, worths, PortfolioHash
  <2>3. inHolding' = inHolding
    BY <1>17 DEF SavePortfolio, inHolding
  <2> QED BY <1>17, <2>2, <2>3 DEF SavePortfolio, Ledger!ledgerVars, worths
<1>18. ASSUME NEW w \in Workers, NEW lost \in SUBSET Fields, ReadUser(w, lost) PROVE Goal
  BY <1>18, LedgerStutter DEF ReadUser
<1>19. ASSUME NEW w \in Workers, SaveUser(w) PROVE Goal
  <2>1. trade[w] \in Trades
    BY <1>19 DEF SaveUser, TypeOK
  <2>2. wealths' = wealths
    <3>1. usr \in [Users -> UserHash] /\ trade[w].user \in Users
      BY <2>1, HashTypes, TradeParts
    <3> QED BY <1>19, <3>1 DEF SaveUser, wealths, UserHash
  <2>3. inHolding' = inHolding
    BY <1>19 DEF SaveUser, inHolding
  <2> QED BY <1>19, <2>2, <2>3 DEF SaveUser, Ledger!ledgerVars, wealths
<1>20. ASSUME NEW w \in Workers, CallFails(w) PROVE Goal
  BY <1>20, LedgerStutter DEF CallFails
<1>21. ASSUME NEW w \in Workers, Crash(w) PROVE Goal
  BY <1>21, LedgerStutter DEF Crash
<1>22. CASE UNCHANGED vars
  BY <1>22, LedgerStutter
<1> QED
  BY <1>1, <1>2, <1>3, <1>4, <1>5, <1>6, <1>7, <1>8, <1>9, <1>10, <1>11, <1>12, <1>13, <1>14, <1>15, <1>16, <1>17, <1>18, <1>19, <1>20, <1>21, <1>22
     DEF Next, Work, Compute, Failure

\* The trade cache implements the ledger: each trade is counted once in the
\* holding, the portfolio and the user, in that order, and then told to be
\* processed, whatever fails, is retried or is handled twice.
THEOREM LedgerRefinement == Spec => ImplementsLedger
<1>1. Init => Inv /\ MarkerInv
  BY InvInit, MarkerInit
<1>2. (Inv /\ MarkerInv) /\ [Next]_vars => (Inv /\ MarkerInv)'
  BY InvStep, MarkerStep DEF Inv
<1>3. Inv /\ MarkerInv /\ [Next]_vars => [Ledger!LedgerNext]_(Ledger!ledgerVars)
  BY LedgerStep DEF Inv
<1> QED BY <1>1, <1>2, <1>3, LedgerInit, PTL
        DEF Spec, ImplementsLedger, Ledger!LedgerSpec

----------------------------------------------------------------------------
(* The totals of a portfolio *)

\* What comes before t on its partition.
Earlier(t) == {u \in Trades : u.part = t.part /\ u.id < t.id}

\* A worker before its record is marked processed, and after.
ToApply ==
  {"map", "enroll", "read", "cas", "index", "legacy", "totals", "project", "user", "mark"}
ToSave == {"pfread", "pfsave", "usrread", "usrsave"}

TradesIn(h) == {t \in Trades : Holding(t) = h}

\* The index says of a holding what its quantity says.
Indexed(h) == h \in indexed <=> quantity[h] > 0

\* t is counted in the quantity and not in the portfolio's totals.
Open(t) == t \in inHolding /\ t \notin inPf

\* A record is begun when all before it are finished, and finished when it is
\* marked processed; only finitely many are begun.
RecordsInOrder ==
  /\ IsFiniteSet(inHolding)
  /\ returned \subseteq processed
  /\ \A t \in inHolding : Earlier(t) \subseteq returned

\* One worker at a time is on a partition.
Exclusive ==
  \A v, w \in Workers :
    pc[v] # "idle" /\ pc[w] # "idle" /\ trade[v].part = trade[w].part => v = w

\* What the totals of p are between the steps of a record.
Totals(p) ==
  /\ pf[p].pv = Sum(inPf \cap TradesOf(p))
  /\ \A h \in Holdings :
       h[1] = p /\ inHolding \cap TradesIn(h) \subseteq inPf => Indexed(h)
  /\ pf[p].cv # pf[p].cvp => \E t \in inPf \cap TradesOf(p) : t \notin returned

\* What its asset count is, if no sale is short.
Assets(p) ==
  /\ \A h \in Holdings : h[1] = p => quantity[h] = Net(inHolding \cap TradesIn(h))
  /\ (\A t \in TradesOf(p) : ~Open(t)) => pf[p].ac = Cardinality(Held(p))
  /\ \A t \in TradesOf(p) : Open(t) =>
       pf[p].ac + AssetChange(t, turned[t] = "yes") = Cardinality(Held(p))

\* A worker's record comes after those before it; it is processed once the
\* snapshots are saved.
Placed(w) ==
  /\ pc[w] # "idle" => Earlier(trade[w]) \subseteq returned
  /\ pc[w] \in ToSave => trade[w] \in processed

\* What a worker alone on a portfolio knows of it.
Knows(w) ==
  LET t == trade[w]
      h == Holding(t)
  IN  /\ pc[w] = "index" => seen[w] = quantity[h]
      /\ pc[w] \in {"index", "legacy", "totals"} => turn[w] = (turned[t] = "yes")
      /\ pc[w] \in {"legacy", "totals"} => Indexed(h)
      /\ pc[w] = "pfsave" =>
           snap[w] = [pv |-> pf[t.pf].pv, cv |-> pf[t.pf].cvp, n |-> pf[t.pf].ac]
      /\ pc[w] \in {"usrread", "usrsave"} => pf[t.pf].cv = pf[t.pf].cvp

OrderInv == RecordsInOrder /\ \A w \in Workers : Placed(w)

AloneInv ==
  /\ Exclusive
  /\ \A w \in Workers : pc[w] \in ToApply => trade[w] \notin processed

TotalsInv ==
  /\ \A p \in Portfolios : InOrder(p) => Totals(p)
  /\ \A w \in Workers : pc[w] # "idle" /\ InOrder(trade[w].pf) => Knows(w)

AssetsInv ==
  \A p \in Portfolios :
    /\ IsFiniteSet(Held(p))
    /\ Alone /\ InOrder(p) /\ Covered(p) => Assets(p)

TotalInv == OrderInv /\ (Alone => AloneInv /\ TotalsInv) /\ AssetsInv

----------------------------------------------------------------------------
(* Frames *)

\* A bound that is used up once is used up for good.
LEMMA SpendAlone ==
  ASSUME TypeOK, NEW bound \in Bounds, Spend(bound), Alone'
  PROVE  Alone /\ bound \notin {"misreads", "zombies"}
BY DEF TypeOK, Spend, Alone, Bounds

\* A call, answered or not, tells as much.
LEMMA ContinueAlone ==
  ASSUME TypeOK, NEW w \in Workers, NEW phase, Continue(w, phase), Alone'
  PROVE  Alone
BY SpendAlone DEF Continue, Alone, Bounds

\* Alone on the partition of a portfolio is alone on the portfolio.
LEMMA Others ==
  ASSUME TypeOK, Exclusive, NEW v \in Workers, NEW w \in Workers, v # w,
         pc[v] # "idle", pc[w] # "idle", InOrder(trade[v].pf)
  PROVE  trade[w].pf # trade[v].pf
BY DEF TypeOK, Exclusive, InOrder, TradesOf

\* What is Alone, InOrder and Covered only depends on spent and on constants.
Store == <<quantity, turned, indexed, pf, inPf, processed, returned>>

\* A step that leaves the store keeps what is said of the store.
LEMMA StoreKept ==
  ASSUME UNCHANGED Store
  PROVE  /\ RecordsInOrder' = RecordsInOrder
         /\ \A p : Totals(p)' = Totals(p) /\ Assets(p)' = Assets(p) /\ Held(p)' = Held(p)
         /\ inHolding' = inHolding
BY DEF Store, RecordsInOrder, Totals, Assets, Held, Indexed, Open, inHolding

\* A step of w that leaves the store keeps the invariant if it keeps what is
\* said of w.
LEMMA Frame ==
  ASSUME TotalInv, NEW w \in Workers, UNCHANGED Store, Alone' => Alone,
         \A v \in Workers \ {w} :
           /\ pc'[v] = pc[v] /\ trade'[v] = trade[v] /\ snap'[v] = snap[v]
           /\ seen'[v] = seen[v] /\ turn'[v] = turn[v],
         Placed(w)',
         Alone' => Exclusive' /\ (pc'[w] \in ToApply => trade'[w] \notin processed),
         Alone' /\ pc'[w] # "idle" /\ InOrder(trade'[w].pf) => Knows(w)'
  PROVE  TotalInv'
<1>1. OrderInv'
  BY StoreKept DEF TotalInv, OrderInv, Placed, Store
<1>2. ASSUME Alone' PROVE AloneInv'
  BY <1>2 DEF TotalInv, AloneInv, Store
<1>3. ASSUME Alone', NEW v \in Workers, v # w, pc'[v] # "idle", InOrder(trade'[v].pf)
      PROVE  Knows(v)'
  <2>1. Knows(v)
    BY <1>3 DEF TotalInv, TotalsInv
  <2> QED
    BY <1>3, <2>1 DEF Knows, Store, Indexed
<1>4. ASSUME Alone' PROVE TotalsInv'
  <2>1. \A p \in Portfolios : InOrder(p) => Totals(p)'
    BY <1>4, StoreKept DEF TotalInv, TotalsInv
  <2> QED
    BY <1>3, <1>4, <2>1 DEF TotalsInv, InOrder
<1>5. AssetsInv'
  BY StoreKept DEF TotalInv, AssetsInv, InOrder, Covered
<1> QED
  BY <1>1, <1>2, <1>4, <1>5 DEF TotalInv

----------------------------------------------------------------------------
(* The steps that leave the store *)

\* The state in which a step begins.
FullInv == Inv /\ MarkerInv /\ TotalInv

\* A worker takes a record whose predecessors are finished, and without an
\* expelled worker nobody else is on the partition.
LEMMA TakeStep ==
  ASSUME FullInv, NEW w \in Workers, NEW t \in Trades, Take(w, t)
  PROVE  TotalInv'
<1> USE DEF FullInv, Inv, TypeOK
<1>1. UNCHANGED Store
  BY DEF Take, Store
<1>2. ASSUME Alone' PROVE Alone /\ ~Busy(t.part)
  BY <1>2, SpendAlone DEF Take, Alone, Bounds
<1>3. Placed(w)'
  BY DEF Take, Goto, Placed, ToSave, Earlier
<1>4. Alone' => Exclusive' /\ (pc'[w] \in ToApply => trade'[w] \notin processed)
  BY <1>2 DEF Take, Goto, TotalInv, AloneInv, Exclusive, Busy, ToApply
<1>5. Knows(w)'
  BY DEF Take, Goto, Knows
<1>6. \A v \in Workers \ {w} :
        /\ pc'[v] = pc[v] /\ trade'[v] = trade[v] /\ snap'[v] = snap[v]
        /\ seen'[v] = seen[v] /\ turn'[v] = turn[v]
  BY DEF Take, Goto
<1> QED
  BY <1>1, <1>2, <1>3, <1>4, <1>5, <1>6, Frame

\* A worker that stays at its record, alone with it if it was.
LEMMA StayStep ==
  ASSUME FullInv, NEW w \in Workers, UNCHANGED Store, Alone' => Alone,
         UNCHANGED trade, pc[w] # "idle", pc'[w] # "idle",
         \A v \in Workers \ {w} :
           /\ pc'[v] = pc[v] /\ snap'[v] = snap[v]
           /\ seen'[v] = seen[v] /\ turn'[v] = turn[v],
         pc'[w] \in ToSave => pc[w] \in ToSave \/ trade[w] \in processed,
         pc'[w] \in ToApply => pc[w] \in ToApply \/ trade[w] \notin processed,
         Alone' /\ InOrder(trade[w].pf) /\ Knows(w) => Knows(w)'
  PROVE  TotalInv'
<1>1. Placed(w)'
  BY DEF FullInv, TotalInv, OrderInv, Placed, Store
<1>2. Alone' => Exclusive'
  <2> SUFFICES ASSUME Exclusive PROVE Exclusive'
    BY DEF FullInv, TotalInv, AloneInv
  <2>1. \A v \in Workers : pc'[v] # "idle" => pc[v] # "idle"
    OBVIOUS
  <2> QED
    BY <2>1 DEF Exclusive
<1>3. Alone' /\ pc'[w] \in ToApply => trade'[w] \notin processed
  BY DEF FullInv, TotalInv, AloneInv
<1>4. Alone' /\ InOrder(trade'[w].pf) => Knows(w)'
  BY DEF FullInv, TotalInv, TotalsInv
<1> QED
  BY <1>1, <1>2, <1>3, <1>4, Frame DEF FullInv

\* The step of a call that, answered or not, leaves the store.
LEMMA CallStep ==
  ASSUME FullInv, NEW w \in Workers, NEW phase, Continue(w, phase),
         UNCHANGED Store, UNCHANGED <<trade, snap>>, pc[w] # "idle", phase # "idle",
         \A v \in Workers \ {w} : seen'[v] = seen[v] /\ turn'[v] = turn[v],
         phase \notin ToSave, pc[w] \in ToApply, pc'[w] = phase => Knows(w)'
  PROVE  TotalInv'
<1>1. Alone' => Alone
  BY ContinueAlone DEF FullInv, Inv
<1>2. pc'[w] \in {phase, "check"} /\ \A v \in Workers \ {w} : pc'[v] = pc[v]
  BY DEF FullInv, Inv, TypeOK, Continue, Goto
<1>3. pc'[w] = "check" => Knows(w)'
  BY DEF Knows
<1> QED
  BY <1>1, <1>2, <1>3, StayStep DEF ToSave

\* A record that is processed only has its snapshots saved again.
LEMMA CheckStep ==
  ASSUME FullInv, NEW w \in Workers, Check(w)
  PROVE  TotalInv'
<1>1. pc'[w] = IF trade[w] \in processed THEN "pfread" ELSE "map"
  BY DEF Check, Goto, FullInv, Inv, TypeOK
<1>2. Knows(w)'
  BY <1>1 DEF Knows
<1>3. UNCHANGED Store /\ (Alone' => Alone)
  BY DEF Check, Store, Alone
<1>4. \A v \in Workers \ {w} :
        /\ pc'[v] = pc[v] /\ snap'[v] = snap[v]
        /\ seen'[v] = seen[v] /\ turn'[v] = turn[v]
  BY DEF Check, Goto, Fresh, FullInv, Inv, TypeOK
<1> QED
  BY <1>1, <1>2, <1>3, <1>4, StayStep DEF Check, ToSave, ToApply

\* Looking for the user and mapping it, whole or by half, leave the store.
LEMMA MapStep ==
  ASSUME FullInv, NEW w \in Workers, MapUser(w) \/ MapHalf(w) \/ FindUser(w)
  PROVE  TotalInv'
<1>1. pc'[w] \in {"enroll", "read", "check"} /\ \A v \in Workers \ {w} : pc'[v] = pc[v]
  BY DEF MapUser, MapHalf, FindUser, Continue, Goto, FullInv, Inv, TypeOK
<1>2. Knows(w)'
  BY <1>1 DEF Knows
<1>3. UNCHANGED Store /\ UNCHANGED <<trade, localVars>> /\ pc[w] \in {"map", "enroll"}
  BY DEF MapUser, MapHalf, FindUser, Store
<1>4. Alone' => Alone
  BY ContinueAlone, SpendAlone
     DEF MapUser, MapHalf, FindUser, FullInv, Inv, Bounds, Alone
<1> QED
  BY <1>1, <1>2, <1>3, <1>4, StayStep DEF ToSave, ToApply

\* So do the read of the quantity, and a conflict.
LEMMA QuantityStep ==
  ASSUME FullInv, NEW w \in Workers, ReadQuantity(w) \/ CasConflict(w)
  PROVE  TotalInv'
<1>1. pc'[w] \in {"cas", "check"} /\ \A v \in Workers \ {w} : pc'[v] = pc[v]
  BY DEF ReadQuantity, CasConflict, Goto, FullInv, Inv, TypeOK
<1>2. Knows(w)'
  BY <1>1 DEF Knows
<1>3. UNCHANGED Store /\ UNCHANGED <<trade, turn, snap, spent>> /\ pc[w] \in {"read", "cas"}
  BY DEF ReadQuantity, CasConflict, Store
<1>4. \A v \in Workers \ {w} : seen'[v] = seen[v]
  BY DEF ReadQuantity, CasConflict, FullInv, Inv, TypeOK
<1> QED
  BY <1>1, <1>2, <1>3, <1>4, StayStep DEF ToSave, ToApply, Alone

\* The marker gives the result that it keeps, and the quantity.
LEMMA AppliedStep ==
  ASSUME FullInv, NEW w \in Workers, CasApplied(w)
  PROVE  TotalInv'
<1>1. /\ seen'[w] = quantity[Holding(trade[w])]
      /\ turn'[w] = (turned[trade[w]] = "yes")
      /\ \A v \in Workers \ {w} : seen'[v] = seen[v] /\ turn'[v] = turn[v]
  BY DEF CasApplied, FullInv, Inv, TypeOK
<1>2. pc'[w] = "index" => Knows(w)'
  BY <1>1 DEF CasApplied, Knows
<1>3. UNCHANGED Store /\ UNCHANGED <<trade, snap>> /\ pc[w] = "cas"
  BY DEF CasApplied, Store
<1>4. Continue(w, "index")
  BY DEF CasApplied
<1> QED
  BY <1>1, <1>2, <1>3, <1>4, CallStep DEF ToSave, ToApply

\* Reading the legacy value leaves the index as it was synchronised.
LEMMA LegacyStep ==
  ASSUME FullInv, NEW w \in Workers, ReadLegacy(w)
  PROVE  TotalInv'
<1>1. pc'[w] = "totals" /\ \A v \in Workers \ {w} : pc'[v] = pc[v]
  BY DEF ReadLegacy, Goto, FullInv, Inv, TypeOK
<1>2. UNCHANGED Store /\ UNCHANGED <<trade, snap, seen, turn>> /\ pc[w] = "legacy"
  BY DEF ReadLegacy, Store
<1>3. Knows(w) => Knows(w)'
  BY <1>1, <1>2 DEF Knows, Store, Indexed
<1>4. Alone' => Alone
  BY SpendAlone DEF ReadLegacy, FullInv, Inv, Bounds, Alone
<1> QED
  BY <1>1, <1>2, <1>3, <1>4, StayStep DEF ToSave, ToApply

\* The projection and the user's totals are not of the store.
LEMMA UserStep ==
  ASSUME FullInv, NEW w \in Workers, Project(w) \/ ApplyUser(w)
  PROVE  TotalInv'
<1>1. PICK phase \in {"user", "mark"} : Continue(w, phase)
  BY DEF Project, ApplyUser
<1>2. UNCHANGED Store /\ UNCHANGED <<trade, localVars>> /\ pc[w] \in {"project", "user"}
  BY DEF Project, ApplyUser, Store
<1>3. pc'[w] = phase => Knows(w)'
  BY DEF Knows
<1> QED
  BY <1>1, <1>2, <1>3, CallStep DEF ToSave, ToApply

\* Alone, a worker reads the totals as they are.
LEMMA ReadStep ==
  ASSUME FullInv, NEW w \in Workers, NEW lost \in SUBSET Fields, ReadPortfolio(w, lost)
  PROVE  TotalInv'
<1>1. pc'[w] = "pfsave" /\ \A v \in Workers \ {w} : pc'[v] = pc[v]
  BY DEF ReadPortfolio, Goto, FullInv, Inv, TypeOK
<1>2. UNCHANGED Store /\ UNCHANGED <<trade, seen, turn>> /\ pc[w] = "pfread"
  BY DEF ReadPortfolio, Store
<1>3. Alone' => Alone /\ lost = {}
  BY SpendAlone DEF ReadPortfolio, Misread, FullInv, Inv, Bounds, Alone
<1>4. snap'[w] = Reading(pf[trade[w].pf], pf[trade[w].pf].ac, lost)
      /\ \A v \in Workers \ {w} : snap'[v] = snap[v]
  BY DEF ReadPortfolio, FullInv, Inv, TypeOK
<1>5. Alone' => Knows(w)'
  BY <1>1, <1>2, <1>3, <1>4 DEF Knows, Reading, Store
<1> QED
  BY <1>1, <1>2, <1>3, <1>4, <1>5, StayStep DEF ToSave, ToApply

\* Reading a user's hash leaves what was saved for the portfolio.
LEMMA ReadUserStep ==
  ASSUME FullInv, NEW w \in Workers, NEW lost \in SUBSET Fields, ReadUser(w, lost)
  PROVE  TotalInv'
<1>1. pc'[w] = "usrsave" /\ \A v \in Workers \ {w} : pc'[v] = pc[v]
  BY DEF ReadUser, Goto, FullInv, Inv, TypeOK
<1>2. UNCHANGED Store /\ UNCHANGED <<trade, seen, turn>> /\ pc[w] = "usrread"
  BY DEF ReadUser, Store
<1>3. Alone' => Alone
  BY SpendAlone DEF ReadUser, Misread, FullInv, Inv, Bounds, Alone
<1>4. \A v \in Workers \ {w} : snap'[v] = snap[v]
  BY DEF ReadUser, FullInv, Inv, TypeOK
<1>5. Knows(w) => Knows(w)'
  BY <1>1, <1>2 DEF Knows, Store
<1> QED
  BY <1>1, <1>2, <1>3, <1>4, <1>5, StayStep DEF ToSave, ToApply

\* A call that fails leaves the store, and the record is at its beginning.
LEMMA FailStep ==
  ASSUME FullInv, NEW w \in Workers,
         UNCHANGED Store, UNCHANGED <<trade, localVars>>, pc[w] # "idle",
         Goto(w, "check"), Spend("faults")
  PROVE  TotalInv'
<1>1. pc'[w] = "check" /\ \A v \in Workers \ {w} : pc'[v] = pc[v]
  BY DEF Goto, FullInv, Inv, TypeOK
<1>2. Alone' => Alone
  BY SpendAlone DEF FullInv, Inv, Bounds
<1>3. Knows(w)'
  BY <1>1 DEF Knows
<1> QED
  BY <1>1, <1>2, <1>3, StayStep DEF ToSave, ToApply

\* A worker that dies knows nothing.
LEMMA CrashStep ==
  ASSUME FullInv, NEW w \in Workers, Crash(w)
  PROVE  TotalInv'
<1>1. \A v \in Workers \ {w} :
        /\ pc'[v] = pc[v] /\ trade'[v] = trade[v] /\ snap'[v] = snap[v]
        /\ seen'[v] = seen[v] /\ turn'[v] = turn[v]
  BY DEF Crash, Goto, Fresh, FullInv, Inv, TypeOK
<1>2. UNCHANGED Store /\ pc'[w] = "idle"
  BY DEF Crash, Goto, Store, FullInv, Inv, TypeOK
<1>3. Alone' => Alone
  BY SpendAlone DEF Crash, FullInv, Inv, Bounds
<1>4. Placed(w)'
  BY <1>2 DEF Placed, ToSave
<1>5. Alone' => Exclusive'
  BY <1>1, <1>2, <1>3 DEF FullInv, TotalInv, AloneInv, Exclusive
<1> QED
  BY <1>1, <1>2, <1>3, <1>4, <1>5, Frame DEF FullInv, ToApply

----------------------------------------------------------------------------
(* The steps that change the store *)

\* The invariant holds after a step if each of its parts does.
LEMMA Parts ==
  ASSUME OrderInv',
         Alone' => AloneInv' /\ TotalsInv',
         AssetsInv'
  PROVE  TotalInv'
BY DEF TotalInv

\* What is known of another's portfolio a step on t leaves.
LEMMA OthersKnow ==
  ASSUME FullInv, Exclusive, NEW w \in Workers, pc[w] # "idle",
         NEW v \in Workers, v # w, pc[v] # "idle", InOrder(trade[v].pf), Knows(v),
         UNCHANGED <<pc[v], trade[v], seen[v], turn[v], snap[v]>>,
         turned'[trade[v]] = turned[trade[v]] \/ trade[v] = trade[w],
         pf'[trade[v].pf] = pf[trade[v].pf] \/ trade[v].pf = trade[w].pf,
         LET h == Holding(trade[v])
         IN  \/ Indexed(h)' = Indexed(h) /\ quantity'[h] = quantity[h]
             \/ h = Holding(trade[w])
  PROVE  Knows(v)'
<1>1. trade[v].pf # trade[w].pf
  BY Others DEF FullInv, Inv
<1>2. trade[v] # trade[w] /\ Holding(trade[v]) # Holding(trade[w])
  BY <1>1 DEF Holding
<1> QED
  BY <1>1, <1>2 DEF Knows

\* Once markers are in order, what is returned is counted everywhere.
LEMMA ReturnedCounted ==
  ASSUME FullInv
  PROVE  returned \subseteq processed /\ processed \subseteq inPf /\ inPf \subseteq inHolding
BY DEF FullInv, MarkerInv, MarkersInOrder, TotalInv, OrderInv, RecordsInOrder

\* Where the trades of a portfolio are on one partition, one is open at a time.
LEMMA OneOpen ==
  ASSUME FullInv, NEW p \in Portfolios, InOrder(p),
         NEW t \in TradesOf(p), NEW u \in TradesOf(p), t # u,
         t \in inHolding, u \in inHolding
  PROVE  t \in inPf \/ u \in inPf
<1>1. t.id \in Nat /\ u.id \in Nat /\ t.id # u.id
  BY TradesAssumption DEF TradesOf
<1>2. t \in Earlier(u) \/ u \in Earlier(t)
  BY <1>1 DEF Earlier, InOrder, TradesOf
<1> QED
  BY <1>2, ReturnedCounted DEF FullInv, TotalInv, OrderInv, RecordsInOrder

\* FullInv a trade is counted in a quantity, those counted in it are the
\* earlier ones, and all of them are in the portfolio's totals.
LEMMA CountedBefore ==
  ASSUME FullInv, NEW w \in Workers, pc[w] # "idle", InOrder(trade[w].pf),
         trade[w] \notin inHolding
  PROVE  LET t == trade[w]
         IN  /\ inHolding \cap TradesIn(Holding(t))
                = {u \in TradesOf(t.pf) : Holding(u) = Holding(t) /\ u.id < t.id}
             /\ inHolding \cap TradesOf(t.pf) \subseteq inPf
<1> DEFINE t == trade[w]
<1>1. t \in Trades /\ t.id \in Nat
  BY TradesAssumption DEF FullInv, Inv, TypeOK
<1>2. Earlier(t) \subseteq returned
  BY DEF FullInv, TotalInv, OrderInv, Placed
<1>3. ASSUME NEW u \in inHolding \cap TradesOf(t.pf) PROVE u.id < t.id /\ u \in Earlier(t)
  <2>1. u \in Trades /\ u.id \in Nat /\ u.part = t.part /\ u # t
    BY <1>1, TradesAssumption DEF TradesOf, InOrder
  <2>2. t \notin Earlier(u)
    BY ReturnedCounted DEF FullInv, TotalInv, OrderInv, RecordsInOrder
  <2>3. u.id # t.id
    BY <1>1, <2>1, TradesAssumption
  <2> QED
    BY <1>1, <2>1, <2>2, <2>3 DEF Earlier
<1>4. inHolding \subseteq Trades
  BY DEF inHolding
<1>5. \A u \in TradesOf(t.pf) : u.id < t.id => u \in inHolding
  <2>1. \A u \in TradesOf(t.pf) : u.id < t.id => u \in Earlier(t)
    BY <1>1 DEF TradesOf, InOrder, Earlier
  <2> QED
    BY <1>2, <2>1, ReturnedCounted
<1>6. \A u \in Trades : Holding(u) = Holding(t) => u \in TradesOf(t.pf)
  BY <1>1 DEF Holding, TradesOf
<1> HIDE DEF t
<1>7. inHolding \cap TradesIn(Holding(t))
        = {u \in TradesOf(t.pf) : Holding(u) = Holding(t) /\ u.id < t.id}
  BY <1>3, <1>4, <1>5, <1>6 DEF TradesIn, TradesOf
<1>8. inHolding \cap TradesOf(t.pf) \subseteq inPf
  BY <1>2, <1>3, ReturnedCounted
<1> QED
  BY <1>7, <1>8 DEF t

\* The assets of a portfolio are as the quantities and the counted trades are.
LEMMA AssetsKept ==
  ASSUME AssetsInv, Alone' => Alone, UNCHANGED <<quantity, turned, pf, inPf>>
  PROVE  AssetsInv'
<1>1. inHolding' = inHolding
  BY DEF inHolding
<1>2. /\ \A t : Open(t)' = Open(t)
      /\ \A p : Held(p)' = Held(p)
  BY <1>1 DEF Open, Held
<1>3. ASSUME NEW p, Assets(p) PROVE Assets(p)'
  BY <1>1, <1>2, <1>3 DEF Assets
<1> QED
  BY <1>2, <1>3 DEF AssetsInv, InOrder, Covered

\* The trades that a step on the processed marker, on the totals or on the
\* record itself leaves counted.
LEMMA MarkStep ==
  ASSUME FullInv, NEW w \in Workers, MarkProcessed(w)
  PROVE  TotalInv'
<1> DEFINE t == trade[w]
<1> USE DEF FullInv, Inv
<1>1. t \in Trades /\ pc[w] = "mark"
  BY DEF MarkProcessed, TypeOK
<1>2. pc'[w] \in {"pfread", "check"} /\ \A v \in Workers \ {w} : pc'[v] = pc[v]
  BY DEF MarkProcessed, Continue, Goto, TypeOK
<1>3. Alone' => Alone
  BY ContinueAlone DEF MarkProcessed
<1>4. UNCHANGED <<quantity, turned, indexed, pf, inPf, returned, trade, localVars>>
      /\ processed' = processed \cup {t}
  BY DEF MarkProcessed
<1>5. inHolding' = inHolding
  BY <1>4 DEF inHolding
<1>6. OrderInv'
  <2>1. RecordsInOrder'
    BY <1>4, <1>5 DEF TotalInv, OrderInv, RecordsInOrder
  <2>2. ASSUME NEW v \in Workers PROVE Placed(v)'
    BY <1>1, <1>2, <1>4 DEF TotalInv, OrderInv, Placed, ToSave
  <2> QED
    BY <2>1, <2>2 DEF OrderInv
<1>7. ASSUME Alone' PROVE AloneInv'
  <2>1. Exclusive'
    BY <1>1, <1>2, <1>3, <1>4, <1>7 DEF TotalInv, AloneInv, Exclusive
  <2>2. ASSUME NEW v \in Workers, pc'[v] \in ToApply PROVE trade'[v] \notin processed'
    <3>1. v # w
      BY <1>2, <2>2 DEF ToApply
    <3>2. trade[v] \notin processed /\ pc[v] # "idle"
      BY <1>2, <1>3, <1>7, <2>2, <3>1 DEF TotalInv, AloneInv, ToApply
    <3>3. trade[v] # t
      BY <1>1, <1>3, <1>7, <3>1, <3>2 DEF TotalInv, AloneInv, Exclusive
    <3> QED
      BY <1>4, <3>2, <3>3
  <2> QED
    BY <2>1, <2>2 DEF AloneInv
<1>8. ASSUME Alone' PROVE TotalsInv'
  <2>1. \A p \in Portfolios : InOrder(p) => Totals(p)'
    BY <1>3, <1>4, <1>5, <1>8 DEF TotalInv, TotalsInv, Totals, Indexed
  <2>2. ASSUME NEW v \in Workers, pc'[v] # "idle", InOrder(trade'[v].pf) PROVE Knows(v)'
    <3>1. CASE v = w
      BY <1>2, <3>1 DEF Knows
    <3>2. CASE v # w
      <4>1. Knows(v)
        BY <1>2, <1>3, <1>4, <1>8, <2>2, <3>2 DEF TotalInv, TotalsInv
      <4> QED
        BY <1>2, <1>4, <3>2, <4>1 DEF Knows, Indexed
    <3> QED
      BY <3>1, <3>2
  <2> QED
    BY <2>1, <2>2 DEF TotalsInv, InOrder
<1>9. AssetsInv'
  BY <1>3, <1>4, AssetsKept DEF TotalInv
<1> QED
  BY <1>6, <1>7, <1>8, <1>9, Parts

\* The index is set by the quantity the worker wrote or found.
LEMMA IndexStep ==
  ASSUME FullInv, NEW w \in Workers, SyncIndex(w)
  PROVE  TotalInv'
<1> DEFINE h == Holding(trade[w])
<1> USE DEF FullInv, Inv
<1>1. h \in Holdings /\ h[1] = trade[w].pf /\ pc[w] = "index"
  BY HoldingType DEF SyncIndex, TypeOK, Holding
<1>2. pc'[w] \in {"legacy", "check"} /\ \A v \in Workers \ {w} : pc'[v] = pc[v]
  BY DEF SyncIndex, Continue, Goto, TypeOK
<1>3. Alone' => Alone
  BY ContinueAlone DEF SyncIndex
<1>4. UNCHANGED <<quantity, turned, pf, inPf, returned, processed, trade, localVars>>
  BY DEF SyncIndex
<1>5. inHolding' = inHolding
  BY <1>4 DEF inHolding
<1>6. \A g \in Holdings : g # h => Indexed(g)' = Indexed(g)
  BY <1>4 DEF SyncIndex, Indexed
<1>7. seen[w] = quantity[h] => Indexed(h)'
  BY <1>4 DEF SyncIndex, Indexed
<1>8. OrderInv'
  <2>1. RecordsInOrder'
    BY <1>4, <1>5 DEF TotalInv, OrderInv, RecordsInOrder
  <2>2. ASSUME NEW v \in Workers PROVE Placed(v)'
    BY <1>1, <1>2, <1>4 DEF TotalInv, OrderInv, Placed, ToSave
  <2> QED
    BY <2>1, <2>2 DEF OrderInv
<1>9. ASSUME Alone' PROVE AloneInv'
  <2>1. Exclusive'
    BY <1>1, <1>2, <1>3, <1>4, <1>9 DEF TotalInv, AloneInv, Exclusive
  <2> QED
    BY <1>1, <1>2, <1>3, <1>4, <1>9, <2>1 DEF TotalInv, AloneInv, ToApply
<1>10. ASSUME Alone', InOrder(trade[w].pf) PROVE Indexed(h)'
  BY <1>1, <1>3, <1>7, <1>10 DEF TotalInv, TotalsInv, Knows
<1>11. ASSUME Alone' PROVE TotalsInv'
  <2>1. ASSUME NEW p \in Portfolios, InOrder(p) PROVE Totals(p)'
    <3>1. Totals(p)
      BY <1>3, <1>11, <2>1 DEF TotalInv, TotalsInv
    <3>2. \A g \in Holdings :
            g[1] = p /\ inHolding' \cap TradesIn(g) \subseteq inPf' => Indexed(g)'
      BY <1>1, <1>4, <1>5, <1>6, <1>10, <1>11, <2>1, <3>1 DEF Totals
    <3> QED
      BY <1>4, <3>1, <3>2 DEF Totals
  <2>2. ASSUME NEW v \in Workers, pc'[v] # "idle", InOrder(trade'[v].pf) PROVE Knows(v)'
    <3>1. CASE v = w
      <4>1. Knows(w) /\ Indexed(h)'
        BY <1>1, <1>3, <1>4, <1>10, <1>11, <2>2, <3>1 DEF TotalInv, TotalsInv
      <4>2. turn'[w] = (turned'[trade'[w]] = "yes") /\ Holding(trade'[w]) = h
        BY <1>1, <1>4, <4>1 DEF Knows
      <4> QED
        BY <1>2, <3>1, <4>1, <4>2 DEF Knows
    <3>2. CASE v # w
      <4>1. Knows(v) /\ Exclusive /\ pc[v] # "idle" /\ InOrder(trade[v].pf)
        BY <1>2, <1>3, <1>4, <1>11, <2>2, <3>2 DEF TotalInv, TotalsInv, AloneInv
      <4>2. Holding(trade[v]) \in Holdings
        BY <4>1, HoldingType DEF TypeOK
      <4> QED
        BY <1>1, <1>2, <1>4, <1>6, <3>2, <4>1, <4>2, OthersKnow
    <3> QED
      BY <3>1, <3>2
  <2> QED
    BY <2>1, <2>2 DEF TotalsInv, InOrder
<1>12. AssetsInv'
  BY <1>3, <1>4, AssetsKept DEF TotalInv
<1> QED
  BY <1>8, <1>9, <1>11, <1>12, Parts

\* The snapshot writes back what was read, and the current value with it.
LEMMA SaveStep ==
  ASSUME FullInv, NEW w \in Workers, SavePortfolio(w)
  PROVE  TotalInv'
<1> DEFINE p == trade[w].pf
<1> USE DEF FullInv, Inv
<1>1. trade[w] \in Trades /\ p \in Portfolios /\ pc[w] = "pfsave"
  BY TradeParts DEF SavePortfolio, TypeOK
<1>2. pc'[w] \in {"usrread", "check"} /\ \A v \in Workers \ {w} : pc'[v] = pc[v]
  BY DEF SavePortfolio, Continue, Goto, TypeOK
<1>3. Alone' => Alone
  BY ContinueAlone DEF SavePortfolio
<1>4. UNCHANGED <<quantity, turned, indexed, inPf, returned, processed, trade, localVars>>
  BY DEF SavePortfolio
<1>5. inHolding' = inHolding
  BY <1>4 DEF inHolding
<1>6. \A q \in Portfolios : q # p => pf'[q] = pf[q]
  BY DEF SavePortfolio, TypeOK
<1>7. ASSUME Alone', InOrder(p)
      PROVE  pf'[p].pv = pf[p].pv /\ pf'[p].cv = pf'[p].cvp /\ pf'[p].ac = pf[p].ac
  <2>1. snap[w] = [pv |-> pf[p].pv, cv |-> pf[p].cvp, n |-> pf[p].ac]
    BY <1>1, <1>3, <1>7 DEF TotalInv, TotalsInv, Knows
  <2>2. pf[p] \in PortfolioHash
    BY <1>1, HashTypes
  <2>3. pf'[p] = [pf[p] EXCEPT !.pv = snap[w].pv, !.cv = snap[w].cv, !.ac = snap[w].n]
    BY <1>1 DEF SavePortfolio, TypeOK
  <2> QED
    BY <2>1, <2>2, <2>3 DEF PortfolioHash
<1>8. OrderInv'
  <2>1. RecordsInOrder'
    BY <1>4, <1>5 DEF TotalInv, OrderInv, RecordsInOrder
  <2>2. ASSUME NEW v \in Workers PROVE Placed(v)'
    BY <1>1, <1>2, <1>4 DEF TotalInv, OrderInv, Placed, ToSave
  <2> QED
    BY <2>1, <2>2 DEF OrderInv
<1>9. ASSUME Alone' PROVE AloneInv'
  <2>1. Exclusive'
    BY <1>1, <1>2, <1>3, <1>4, <1>9 DEF TotalInv, AloneInv, Exclusive
  <2> QED
    BY <1>1, <1>2, <1>3, <1>4, <1>9, <2>1 DEF TotalInv, AloneInv, ToApply
<1>10. ASSUME Alone' PROVE TotalsInv'
  <2>1. ASSUME NEW q \in Portfolios, InOrder(q) PROVE Totals(q)'
    <3>1. Totals(q)
      BY <1>3, <1>10, <2>1 DEF TotalInv, TotalsInv
    <3>2. pf'[q].pv = pf[q].pv /\ (pf'[q].cv # pf'[q].cvp => pf[q].cv # pf[q].cvp)
      BY <1>6, <1>7, <1>10, <2>1
    <3> QED
      BY <1>4, <1>5, <3>1, <3>2 DEF Totals, Indexed
  <2>2. ASSUME NEW v \in Workers, pc'[v] # "idle", InOrder(trade'[v].pf) PROVE Knows(v)'
    <3>1. CASE v = w
      BY <1>2, <1>4, <1>7, <1>10, <2>2, <3>1 DEF Knows
    <3>2. CASE v # w
      <4>1. Knows(v) /\ Exclusive /\ pc[v] # "idle" /\ InOrder(trade[v].pf)
        BY <1>2, <1>3, <1>4, <1>10, <2>2, <3>2 DEF TotalInv, TotalsInv, AloneInv
      <4>2. trade[v].pf \in Portfolios
        BY <4>1, TradeParts DEF TypeOK
      <4>3. \A g : Indexed(g)' = Indexed(g)
        BY <1>4 DEF Indexed
      <4> QED
        BY <1>1, <1>2, <1>4, <1>6, <3>2, <4>1, <4>2, <4>3, OthersKnow
    <3> QED
      BY <3>1, <3>2
  <2> QED
    BY <2>1, <2>2 DEF TotalsInv, InOrder
<1>11. AssetsInv'
  <2>1. ASSUME NEW q \in Portfolios, Alone', InOrder(q), Covered(q) PROVE Assets(q)'
    <3>1. Assets(q) /\ pf'[q].ac = pf[q].ac
      BY <1>3, <1>6, <1>7, <2>1 DEF TotalInv, AssetsInv
    <3> QED
      BY <1>4, <1>5, <3>1 DEF Assets, Held, Open
  <2> QED
    BY <1>4, <2>1 DEF TotalInv, AssetsInv, Held, InOrder, Covered
<1> QED
  BY <1>8, <1>9, <1>10, <1>11, Parts

\* A record is finished when the snapshots are saved.
LEMMA FinishStep ==
  ASSUME FullInv, NEW w \in Workers, SaveUser(w)
  PROVE  TotalInv'
<1> DEFINE t == trade[w]
<1> USE DEF FullInv, Inv
<1>1. t \in Trades /\ t.pf \in Portfolios /\ pc[w] = "usrsave"
  BY TradeParts DEF SaveUser, TypeOK
<1>2. UNCHANGED <<quantity, turned, indexed, pf, inPf, processed>>
  BY DEF SaveUser
<1>3. CASE Goto(w, "check") /\ Spend("faults") /\ UNCHANGED <<trade, returned, localVars>>
  BY <1>1, <1>2, <1>3, FailStep DEF Store
<1>4. CASE /\ Goto(w, "idle") /\ trade' = [trade EXCEPT ![w] = NoTrade]
           /\ returned' = returned \cup {t} /\ Fresh(w) /\ UNCHANGED spent
  <2>1. /\ pc'[w] = "idle" /\ Alone' = Alone
        /\ \A v \in Workers \ {w} :
             /\ pc'[v] = pc[v] /\ trade'[v] = trade[v] /\ snap'[v] = snap[v]
             /\ seen'[v] = seen[v] /\ turn'[v] = turn[v]
    BY <1>4 DEF Goto, Fresh, TypeOK, Alone
  <2>2. inHolding' = inHolding /\ \A g : Indexed(g)' = Indexed(g)
    BY <1>2 DEF inHolding, Indexed
  <2>3. OrderInv'
    <3>1. t \in processed
      BY <1>1 DEF TotalInv, OrderInv, Placed, ToSave
    <3>2. RecordsInOrder'
      BY <1>2, <1>4, <2>2, <3>1 DEF TotalInv, OrderInv, RecordsInOrder
    <3>3. ASSUME NEW v \in Workers PROVE Placed(v)'
      BY <1>2, <1>4, <2>1 DEF TotalInv, OrderInv, Placed, ToSave
    <3> QED
      BY <3>2, <3>3 DEF OrderInv
  <2>4. ASSUME Alone PROVE AloneInv'
    <3>1. Exclusive'
      BY <2>1, <2>4 DEF TotalInv, AloneInv, Exclusive
    <3> QED
      BY <1>2, <2>1, <2>4, <3>1 DEF TotalInv, AloneInv, ToApply
  <2>5. ASSUME Alone PROVE TotalsInv'
    <3>1. ASSUME NEW q \in Portfolios, InOrder(q) PROVE Totals(q)'
      <4>1. Totals(q)
        BY <2>5, <3>1 DEF TotalInv, TotalsInv
      <4>2. q = t.pf => pf[q].cv = pf[q].cvp
        BY <1>1, <2>5, <3>1 DEF TotalInv, TotalsInv, Knows
      <4>3. pf'[q].cv # pf'[q].cvp => \E u \in inPf' \cap TradesOf(q) : u \notin returned'
        BY <1>2, <1>4, <4>1, <4>2 DEF Totals, TradesOf
      <4> QED
        BY <1>2, <2>2, <4>1, <4>3 DEF Totals
    <3>2. ASSUME NEW v \in Workers, pc'[v] # "idle", InOrder(trade'[v].pf) PROVE Knows(v)'
      <4>1. v # w /\ Knows(v)
        BY <2>1, <2>5, <3>2 DEF TotalInv, TotalsInv
      <4> QED
        BY <1>2, <2>1, <2>2, <4>1 DEF Knows
    <3> QED
      BY <3>1, <3>2 DEF TotalsInv, InOrder
  <2>6. AssetsInv'
    BY <1>2, <2>1, <2>2 DEF TotalInv, AssetsInv, Assets, Held, Open, InOrder, Covered
  <2> QED
    BY <2>1, <2>3, <2>4, <2>5, <2>6, Parts
<1> QED
  BY <1>3, <1>4 DEF SaveUser

\* The totals of a portfolio take a trade up: its amount, and the change of
\* the asset count that was open.
LEMMA TotalsStep ==
  ASSUME FullInv, NEW w \in Workers, ApplyTotals(w)
  PROVE  TotalInv'
<1>0. PICK t \in Trades : t = trade[w]
  BY DEF ApplyTotals, FullInv, Inv, TypeOK
<1> DEFINE p == t.pf
           h == Holding(t)
<1> USE <1>0 DEF FullInv, Inv
<1>1. t \in Trades /\ p \in Portfolios /\ h \in Holdings /\ h[1] = p
      /\ pc[w] = "totals" /\ t \in inHolding
  BY TradeParts, HoldingType
     DEF ApplyTotals, TypeOK, MarkerInv, PastMarker, Holding
<1>2. pc'[w] \in {"project", "check"} /\ \A v \in Workers \ {w} : pc'[v] = pc[v]
  BY DEF ApplyTotals, Continue, Goto, TypeOK
<1>3. Alone' => Alone
  BY ContinueAlone DEF ApplyTotals
<1>4. UNCHANGED <<quantity, turned, indexed, processed, returned, trade, seen, turn, snap>>
  BY DEF ApplyTotals
<1>5. inHolding' = inHolding /\ (\A g : Indexed(g)' = Indexed(g)) /\ \A q : Held(q)' = Held(q)
  BY <1>4 DEF inHolding, Indexed, Held
<1>6. CASE t \in inPf
  <2>1. UNCHANGED Store /\ Continue(w, "project")
    BY <1>4, <1>6 DEF ApplyTotals, Store
  <2>2. pc'[w] = "project" => Knows(w)'
    BY DEF Knows
  <2> QED
    BY <1>1, <1>4, <2>1, <2>2, CallStep DEF ToSave, ToApply
<1>7. CASE t \notin inPf
  <2> DEFINE change == AssetChange(t, turn[w])
  <2>1. /\ inPf' = inPf \cup {t}
        /\ \A q \in Portfolios : q # p => pf'[q] = pf[q]
        /\ pf'[p].pv = pf[p].pv + Amount(t) /\ pf'[p].ac = pf[p].ac + change
    <3>1. pf[p] \in PortfolioHash /\ pf \in [Portfolios -> PortfolioHash]
      BY <1>1, HashTypes
    <3>2. pf' = [pf EXCEPT ![p] = PlusTrade(pf[p], Amount(t), change)]
      BY <1>1, <1>7 DEF ApplyTotals
    <3>3. /\ PlusTrade(pf[p], Amount(t), change).pv = pf[p].pv + Amount(t)
          /\ PlusTrade(pf[p], Amount(t), change).ac = pf[p].ac + change
      BY <3>1 DEF PlusTrade, PortfolioHash
    <3> QED
      BY <1>1, <1>7, <3>1, <3>2, <3>3 DEF ApplyTotals
  <2>2. OrderInv'
    <3>1. RecordsInOrder'
      BY <1>4, <1>5 DEF TotalInv, OrderInv, RecordsInOrder
    <3>2. ASSUME NEW v \in Workers PROVE Placed(v)'
      BY <1>1, <1>2, <1>4 DEF TotalInv, OrderInv, Placed, ToSave
    <3> QED
      BY <3>1, <3>2 DEF OrderInv
  <2>3. ASSUME Alone' PROVE AloneInv'
    <3>1. Exclusive'
      BY <1>1, <1>2, <1>3, <1>4, <2>3 DEF TotalInv, AloneInv, Exclusive
    <3> QED
      BY <1>1, <1>2, <1>3, <1>4, <2>3, <3>1 DEF TotalInv, AloneInv, ToApply
  <2>4. ASSUME Alone', InOrder(p)
        PROVE  turn[w] = (turned[t] = "yes") /\ Indexed(h)
    BY <1>1, <1>3, <2>4 DEF TotalInv, TotalsInv, Knows
  <2>5. ASSUME NEW q \in Portfolios, q # p
        PROVE  /\ inPf' \cap TradesOf(q) = inPf \cap TradesOf(q)
               /\ \A u \in TradesOf(q) : Open(u)' = Open(u)
               /\ \A g \in Holdings : g[1] = q =>
                    (inHolding \cap TradesIn(g) \subseteq inPf'
                       <=> inHolding \cap TradesIn(g) \subseteq inPf)
    BY <1>5, <2>1, <2>5 DEF TradesOf, TradesIn, Open, Holding
  <2>6. ASSUME Alone', InOrder(p) PROVE Totals(p)'
    <3>1. Totals(p)
      BY <1>1, <1>3, <2>6 DEF TotalInv, TotalsInv
    <3>2. pf'[p].pv = Sum(inPf' \cap TradesOf(p))
      <4> DEFINE T == inPf \cap TradesOf(p)
                 f == [u \in Trades |-> Amount(u)]
      <4>1. IsFiniteSet(T) /\ T \subseteq Trades
        <5>1. T \subseteq inHolding
          BY ReturnedCounted
        <5> QED
          BY <5>1, FS_Subset DEF TotalInv, OrderInv, RecordsInOrder, TradesOf
      <4>2. t \notin T /\ inPf' \cap TradesOf(p) = T \cup {t}
        BY <1>1, <1>7, <2>1 DEF TradesOf
      <4>3. \A u \in T \cup {t} : f[u] \in Int
        BY <1>1, <4>1, AmountType
      <4>4. f[t] = Amount(t)
        BY <1>1
      <4> HIDE DEF T, f
      <4>5. SumFunctionOnSet(f, T \cup {t}) = SumFunctionOnSet(f, T) + f[t]
        BY <4>1, <4>2, <4>3, SumAdd
      <4> QED
        BY <2>1, <3>1, <4>2, <4>4, <4>5 DEF Totals, Sum, T, f
    <3>3. ASSUME NEW g \in Holdings, g[1] = p, inHolding' \cap TradesIn(g) \subseteq inPf'
          PROVE  Indexed(g)'
      <4>1. CASE g = h
        BY <1>5, <2>4, <2>6, <4>1
      <4>2. CASE g # h
        <5>1. t \notin TradesIn(g)
          BY <4>2 DEF TradesIn
        <5> QED
          BY <1>5, <2>1, <3>1, <3>3, <5>1 DEF Totals
      <4> QED
        BY <4>1, <4>2
    <3>4. t \in inPf' \cap TradesOf(p) /\ t \notin returned'
      BY <1>1, <1>4, <1>7, <2>1, ReturnedCounted DEF TradesOf
    <3> QED
      BY <3>2, <3>3, <3>4 DEF Totals
  <2>7. ASSUME Alone' PROVE TotalsInv'
    <3>1. ASSUME NEW q \in Portfolios, InOrder(q) PROVE Totals(q)'
      <4>1. CASE q = p
        BY <2>6, <2>7, <3>1, <4>1
      <4>2. CASE q # p
        <5>1. Totals(q)
          BY <1>3, <2>7, <3>1 DEF TotalInv, TotalsInv
        <5> QED
          BY <1>4, <1>5, <2>1, <2>5, <4>2, <5>1 DEF Totals
      <4> QED
        BY <4>1, <4>2
    <3>2. ASSUME NEW v \in Workers, pc'[v] # "idle", InOrder(trade'[v].pf) PROVE Knows(v)'
      <4>1. CASE v = w
        BY <1>2, <4>1 DEF Knows
      <4>2. CASE v # w
        <5>1. Knows(v) /\ Exclusive /\ pc[v] # "idle" /\ InOrder(trade[v].pf)
          BY <1>2, <1>3, <1>4, <2>7, <3>2, <4>2 DEF TotalInv, TotalsInv, AloneInv
        <5>2. trade[v].pf \in Portfolios
          BY <5>1, TradeParts DEF TypeOK
        <5> QED
          BY <1>1, <1>2, <1>4, <1>5, <2>1, <4>2, <5>1, <5>2, OthersKnow
      <4> QED
        BY <4>1, <4>2
    <3> QED
      BY <3>1, <3>2 DEF TotalsInv, InOrder
  <2>8. ASSUME Alone', InOrder(p), Covered(p) PROVE Assets(p)'
    <3>1. Assets(p)
      BY <1>1, <1>3, <2>8 DEF TotalInv, AssetsInv
    <3>2. pf'[p].ac = Cardinality(Held(p))
      <4>1. t \in TradesOf(p) /\ Open(t)
        BY <1>1, <1>7 DEF Open, TradesOf
      <4> QED
        BY <2>1, <2>4, <2>8, <3>1, <4>1 DEF Assets
    <3>3. ASSUME NEW u \in TradesOf(p) PROVE ~Open(u)'
      <4>1. u = t \/ u \notin inHolding \/ u \in inPf
        BY <1>1, <1>7, <2>8, OneOpen DEF TradesOf
      <4> QED
        BY <1>5, <2>1, <4>1 DEF Open
    <3> QED
      BY <1>4, <1>5, <3>1, <3>2, <3>3 DEF Assets
  <2>9. AssetsInv'
    <3>1. ASSUME NEW q \in Portfolios, Alone', InOrder(q), Covered(q) PROVE Assets(q)'
      <4>1. CASE q = p
        BY <2>8, <3>1, <4>1
      <4>2. CASE q # p
        <5>1. Assets(q)
          BY <1>3, <3>1 DEF TotalInv, AssetsInv
        <5> QED
          BY <1>4, <1>5, <2>1, <2>5, <4>2, <5>1 DEF Assets
      <4> QED
        BY <4>1, <4>2
    <3> QED
      BY <1>5, <3>1 DEF TotalInv, AssetsInv, InOrder, Covered
  <2> QED
    BY <2>2, <2>3, <2>7, <2>9, Parts
<1> QED
  BY <1>6, <1>7

\* One value of a function of quantities changes.
signed == [t \in Trades |-> IF t.type = "BUY" THEN t.qty ELSE -t.qty]

\* The quantity after a trade that finds what it sells is the net quantity.
LEMMA AfterCovered ==
  ASSUME NEW t \in Trades, NEW q \in Nat, t.type = "SELL" => t.qty <= q
  PROVE  After(t, q) = q + signed[t] /\ signed[t] \in Int
<1>1. t.qty \in Nat \ {0} /\ t.type \in {"BUY", "SELL"}
  BY TradesAssumption
<1>2. signed[t] = IF t.type = "BUY" THEN t.qty ELSE -t.qty
  BY DEF signed
<1>3. CASE t.type = "BUY"
  BY <1>1, <1>2, <1>3 DEF After
<1>4. CASE t.type = "SELL" /\ q > t.qty
  BY <1>1, <1>2, <1>4 DEF After
<1>5. CASE t.type = "SELL" /\ q = t.qty
  BY <1>1, <1>2, <1>5 DEF After
<1> QED
  BY <1>1, <1>3, <1>4, <1>5

\* The net quantity of the trades with one more.
LEMMA NetAdd ==
  ASSUME NEW T \in SUBSET Trades, IsFiniteSet(T), NEW t \in Trades, t \notin T
  PROVE  Net(T \cup {t}) = Net(T) + signed[t]
<1>1. \A u \in T \cup {t} : signed[u] \in Int
  BY TradesAssumption DEF signed
<1>2. SumFunctionOnSet(signed, T \cup {t}) = SumFunctionOnSet(signed, T) + signed[t]
  <2> HIDE DEF signed
  <2> QED
    BY <1>1, SumAdd
<1> QED
  BY <1>2 DEF Net, signed

\* The number of stocks held changes by what the trade turns, if the sale
\* finds what it sells.
LEMMA HeldAfter ==
  ASSUME TypeOK, NEW t \in Trades, IsFiniteSet(Held(t.pf)),
         quantity' = [quantity EXCEPT ![Holding(t)] = After(t, quantity[Holding(t)])],
         t.type = "SELL" => t.qty <= quantity[Holding(t)]
  PROVE  Cardinality(Held(t.pf)') =
           Cardinality(Held(t.pf)) + AssetChange(t, Turns(t, quantity[Holding(t)]))
<1> DEFINE h == Holding(t)
           q == quantity[h]
           H == Held(t.pf)
<1>1. h \in Holdings /\ h[1] = t.pf /\ q \in Nat
  BY HoldingType DEF TypeOK, Holding
<1>2. t.qty \in Nat \ {0} /\ t.type \in {"BUY", "SELL"}
  BY TradesAssumption
<1>3. /\ quantity'[h] = After(t, q)
      /\ \A g \in Holdings : g # h => quantity'[g] = quantity[g]
  BY <1>1 DEF TypeOK
<1>4. IsFiniteSet(H) /\ Cardinality(H) \in Nat
  BY FS_CardinalityType
<1>5. CASE t.type = "BUY" /\ q = 0
  <2>1. Held(t.pf)' = H \cup {h} /\ h \notin H
    BY <1>1, <1>2, <1>3, <1>5 DEF Held, After
  <2>2. Cardinality(H \cup {h}) = Cardinality(H) + 1
    <3> HIDE DEF H, h
    <3> QED
      BY <1>4, <2>1, FS_AddElement
  <2> QED
    BY <1>5, <2>1, <2>2 DEF AssetChange, Turns
<1>6. CASE t.type = "BUY" /\ q # 0
  <2>1. Held(t.pf)' = H
    BY <1>1, <1>2, <1>3, <1>6 DEF Held, After
  <2> QED
    BY <1>4, <1>6, <2>1 DEF AssetChange, Turns
<1>7. CASE t.type = "SELL" /\ q = t.qty
  <2>1. Held(t.pf)' = H \ {h} /\ h \in H
    BY <1>1, <1>2, <1>3, <1>7 DEF Held, After
  <2>2. Cardinality(H \ {h}) = Cardinality(H) - 1
    <3> HIDE DEF H, h
    <3> QED
      BY <1>4, <2>1, FS_RemoveElement
  <2>3. Turns(t, q) /\ t.type # "BUY"
    BY <1>2, <1>7 DEF Turns, After
  <2> QED
    BY <1>4, <2>1, <2>2, <2>3 DEF AssetChange
<1>8. CASE t.type = "SELL" /\ q > t.qty
  <2>1. Held(t.pf)' = H
    BY <1>1, <1>2, <1>3, <1>8 DEF Held, After
  <2>2. ~Turns(t, q)
    BY <1>1, <1>2, <1>8 DEF Turns, After
  <2> QED
    BY <1>4, <2>1, <2>2 DEF AssetChange
<1> QED
  BY <1>1, <1>2, <1>5, <1>6, <1>7, <1>8

\* A quantity takes a trade up, and leaves its result with the marker: the
\* trade is open.
LEMMA CasStep ==
  ASSUME FullInv, NEW w \in Workers, CasOk(w)
  PROVE  TotalInv'
<1>0. PICK t \in Trades : t = trade[w]
  BY DEF CasOk, FullInv, Inv, TypeOK
<1> DEFINE p == t.pf
           h == Holding(t)
           q == quantity[h]
<1> USE <1>0 DEF FullInv, Inv
<1>1. /\ p \in Portfolios /\ h \in Holdings /\ h[1] = p
      /\ pc[w] = "cas" /\ t \notin inHolding /\ q = seen[w] /\ q \in Nat
  BY TradeParts, HoldingType DEF CasOk, TypeOK, inHolding, Holding
<1>2. pc'[w] \in {"index", "check"} /\ \A v \in Workers \ {w} : pc'[v] = pc[v]
  BY DEF CasOk, Continue, Goto, TypeOK
<1>3. Alone' => Alone
  BY ContinueAlone DEF CasOk
<1>4. UNCHANGED <<indexed, pf, inPf, processed, returned, trade, snap>>
  BY DEF CasOk
<1>5. /\ inHolding' = inHolding \cup {t}
      /\ quantity' = [quantity EXCEPT ![h] = After(t, q)]
      /\ turned'[t] = IF Turns(t, q) THEN "yes" ELSE "no"
      /\ \A u \in Trades : u # t => turned'[u] = turned[u]
      /\ seen'[w] = After(t, q) /\ turn'[w] = Turns(t, q)
      /\ \A v \in Workers \ {w} : seen'[v] = seen[v] /\ turn'[v] = turn[v]
  BY <1>1 DEF CasOk, inHolding, TypeOK
<1>6. \A g \in Holdings : g # h => quantity'[g] = quantity[g] /\ Indexed(g)' = Indexed(g)
  BY <1>4, <1>5 DEF Indexed, TypeOK
<1>7. OrderInv'
  <2>1. RecordsInOrder'
    <3>1. IsFiniteSet(inHolding')
      BY <1>5, FS_AddElement DEF TotalInv, OrderInv, RecordsInOrder
    <3>2. Earlier(t) \subseteq returned
      BY <1>1 DEF TotalInv, OrderInv, Placed
    <3> QED
      BY <1>4, <1>5, <3>1, <3>2 DEF TotalInv, OrderInv, RecordsInOrder
  <2>2. ASSUME NEW v \in Workers PROVE Placed(v)'
    BY <1>1, <1>2, <1>4 DEF TotalInv, OrderInv, Placed, ToSave
  <2> QED
    BY <2>1, <2>2 DEF OrderInv
<1>8. ASSUME Alone' PROVE AloneInv'
  <2>1. Exclusive'
    BY <1>1, <1>2, <1>3, <1>4, <1>8 DEF TotalInv, AloneInv, Exclusive
  <2> QED
    BY <1>1, <1>2, <1>3, <1>4, <1>8, <2>1 DEF TotalInv, AloneInv, ToApply
<1>9. ASSUME Alone' PROVE TotalsInv'
  <2>1. ASSUME NEW r \in Portfolios, InOrder(r) PROVE Totals(r)'
    <3>1. Totals(r)
      BY <1>3, <1>9, <2>1 DEF TotalInv, TotalsInv
    <3>2. t \in inHolding' \cap TradesIn(h) /\ t \notin inPf'
      BY <1>1, <1>4, <1>5, ReturnedCounted DEF TradesIn
    <3>3. ASSUME NEW g \in Holdings, g[1] = r, inHolding' \cap TradesIn(g) \subseteq inPf'
          PROVE  Indexed(g)'
      <4>1. g # h
        BY <3>2, <3>3
      <4> QED
        BY <1>4, <1>5, <1>6, <3>1, <3>3, <4>1 DEF Totals
    <3> QED
      BY <1>4, <3>1, <3>3 DEF Totals
  <2>2. ASSUME NEW v \in Workers, pc'[v] # "idle", InOrder(trade'[v].pf) PROVE Knows(v)'
    <3>1. CASE v = w
      <4>1. seen'[w] = quantity'[h] /\ trade'[w] = t
        BY <1>1, <1>4, <1>5 DEF TypeOK
      <4>2. turn'[w] = (turned'[t] = "yes")
        BY <1>5 DEF Turns
      <4> QED
        BY <1>2, <3>1, <4>1, <4>2 DEF Knows
    <3>2. CASE v # w
      <4>1. Knows(v) /\ Exclusive /\ pc[v] # "idle" /\ InOrder(trade[v].pf)
        BY <1>2, <1>3, <1>4, <1>9, <2>2, <3>2 DEF TotalInv, TotalsInv, AloneInv
      <4>2. trade[v] \in Trades /\ Holding(trade[v]) \in Holdings
        BY <4>1, HoldingType DEF TypeOK
      <4> QED
        BY <1>1, <1>2, <1>4, <1>5, <1>6, <3>2, <4>1, <4>2, OthersKnow
    <3> QED
      BY <3>1, <3>2
  <2> QED
    BY <2>1, <2>2 DEF TotalsInv, InOrder
<1>10. ASSUME NEW r \in Portfolios PROVE IsFiniteSet(Held(r)')
  <2>1. Held(r)' \subseteq Held(r) \cup {h}
    BY <1>6 DEF Held
  <2>2. IsFiniteSet(Held(r) \cup {h})
    BY FS_AddElement DEF TotalInv, AssetsInv
  <2> QED
    BY <2>1, <2>2, FS_Subset
<1>11. ASSUME Alone', InOrder(p), Covered(p) PROVE Assets(p)'
  <2> DEFINE T == inHolding \cap TradesIn(h)
  <2>1. Assets(p)
    BY <1>1, <1>3, <1>11 DEF TotalInv, AssetsInv
  <2>2. /\ T = {u \in TradesOf(p) : Holding(u) = h /\ u.id < t.id}
        /\ inHolding \cap TradesOf(p) \subseteq inPf
    BY <1>1, <1>11, CountedBefore
  <2>3. q = Net(T)
    BY <1>1, <2>1 DEF Assets
  <2>4. t.type = "SELL" => t.qty <= q
    BY <1>11, <2>2, <2>3 DEF Covered, TradesOf
  <2>5. After(t, q) = Net(T \cup {t})
    <3>1. T \in SUBSET Trades /\ IsFiniteSet(T) /\ t \notin T
      BY <1>1, FS_Subset DEF TradesIn, TotalInv, OrderInv, RecordsInOrder
    <3> HIDE DEF T, q
    <3> QED
      BY <1>1, <2>3, <2>4, <3>1, AfterCovered, NetAdd
  <2>6. ASSUME NEW g \in Holdings, g[1] = p
        PROVE  quantity'[g] = Net(inHolding' \cap TradesIn(g))
    <3>1. CASE g = h
      <4>1. inHolding' \cap TradesIn(h) = T \cup {t}
        BY <1>5 DEF TradesIn
      <4>2. quantity'[h] = After(t, q)
        BY <1>1, <1>5 DEF TypeOK
      <4> QED
        BY <2>5, <3>1, <4>1, <4>2
    <3>2. CASE g # h
      <4>1. inHolding' \cap TradesIn(g) = inHolding \cap TradesIn(g)
        BY <1>5, <3>2 DEF TradesIn
      <4> QED
        BY <1>6, <2>1, <2>6, <3>2, <4>1 DEF Assets
    <3> QED
      BY <3>1, <3>2
  <2>7. \A u \in TradesOf(p) : ~Open(u)
    BY <2>2 DEF Open
  <2>8. pf[p].ac + AssetChange(t, Turns(t, q)) = Cardinality(Held(p)')
    <3>1. pf[p].ac = Cardinality(Held(p)) /\ IsFiniteSet(Held(p))
      BY <1>1, <2>1, <2>7 DEF Assets, TotalInv, AssetsInv
    <3> QED
      BY <1>5, <2>4, <3>1, HeldAfter
  <2>9. t \in TradesOf(p) /\ Open(t)'
    BY <1>1, <1>4, <1>5, ReturnedCounted DEF Open, TradesOf
  <2>10. \A u \in TradesOf(p) : u # t => ~Open(u)'
    BY <1>4, <1>5, <2>7 DEF Open
  <2>11. Turns(t, q) = (turned'[t] = "yes")
    BY <1>5 DEF Turns
  <2> QED
    BY <1>4, <2>6, <2>8, <2>9, <2>10, <2>11 DEF Assets
<1>12. ASSUME NEW r \in Portfolios, r # p, Alone', InOrder(r), Covered(r)
       PROVE  Assets(r)'
  <2>1. Assets(r)
    BY <1>3, <1>12 DEF TotalInv, AssetsInv
  <2>2. \A g \in Holdings : g[1] = r =>
          /\ quantity'[g] = quantity[g]
          /\ inHolding' \cap TradesIn(g) = inHolding \cap TradesIn(g)
    BY <1>1, <1>5, <1>6, <1>12 DEF TradesIn
  <2>3. Held(r)' = Held(r)
    BY <2>2 DEF Held
  <2>4. \A u \in TradesOf(r) : Open(u)' = Open(u) /\ turned'[u] = turned[u]
    BY <1>4, <1>5, <1>12 DEF Open, TradesOf
  <2> QED
    BY <1>4, <2>1, <2>2, <2>3, <2>4 DEF Assets
<1>13. AssetsInv'
  BY <1>10, <1>11, <1>12 DEF AssetsInv, InOrder, Covered
<1> QED
  BY <1>7, <1>8, <1>9, <1>13, Parts

----------------------------------------------------------------------------
(* The theorems *)

\* Nothing is counted, held or begun in the initial state.
LEMMA TotalInit == Init => TotalInv
<1> SUFFICES ASSUME Init PROVE TotalInv
  OBVIOUS
<1>1. inHolding = {} /\ inPf = {} /\ \A p : Held(p) = {}
  BY DEF Init, inHolding, Held
<1>2. OrderInv
  BY <1>1, FS_EmptySet DEF Init, OrderInv, RecordsInOrder, Placed, ToSave
<1>3. AloneInv
  BY DEF Init, AloneInv, Exclusive, ToApply
<1>4. Sum({}) = 0 /\ Net({}) = 0
  BY SumEmpty DEF Sum, Net
<1>5. ASSUME NEW p \in Portfolios PROVE Totals(p)
  <2>1. inPf \cap TradesOf(p) = {} /\ pf[p].pv = 0 /\ pf[p].cv = pf[p].cvp
    BY <1>1 DEF Init
  <2>2. \A h \in Holdings : Indexed(h)
    BY DEF Init, Indexed
  <2> QED
    BY <1>4, <2>1, <2>2 DEF Totals
<1>6. TotalsInv
  BY <1>5 DEF Init, TotalsInv
<1>7. ASSUME NEW p \in Portfolios PROVE IsFiniteSet(Held(p)) /\ Assets(p)
  <2>1. pf[p].ac = 0 /\ Cardinality(Held(p)) = 0 /\ IsFiniteSet(Held(p))
    BY <1>1, FS_EmptySet DEF Init
  <2>2. \A h \in Holdings : quantity[h] = Net(inHolding \cap TradesIn(h))
    <3>1. \A h : inHolding \cap TradesIn(h) = {}
      BY <1>1
    <3> QED
      BY <1>4, <3>1 DEF Init
  <2> QED
    BY <1>1, <2>1, <2>2 DEF Assets, Open
<1> QED
  BY <1>2, <1>3, <1>6, <1>7 DEF TotalInv, AssetsInv

\* Every step keeps the invariant.
LEMMA TotalStep == FullInv /\ [Next]_vars => TotalInv'
<1> SUFFICES ASSUME FullInv, [Next]_vars PROVE TotalInv'
  OBVIOUS
<1>1. ASSUME NEW w \in Workers, NEW t \in Trades, Take(w, t) PROVE TotalInv'
  BY <1>1, TakeStep
<1>2. ASSUME NEW w \in Workers, Compute(w) PROVE TotalInv'
  BY <1>2, CheckStep, MapStep, QuantityStep, AppliedStep, CasStep, LegacyStep,
     TotalsStep, UserStep, MarkStep, ReadStep, ReadUserStep, FinishStep
     DEF Compute
<1>3. ASSUME NEW w \in Workers, SyncIndex(w) \/ SavePortfolio(w) PROVE TotalInv'
  BY <1>3, IndexStep, SaveStep
<1>4. ASSUME NEW w \in Workers, CallFails(w) PROVE TotalInv'
  <2>1. UNCHANGED Store /\ UNCHANGED <<trade, localVars>> /\ pc[w] # "idle"
    BY <1>4 DEF CallFails, Store
  <2> QED
    BY <1>4, <2>1, FailStep DEF CallFails
<1>5. ASSUME NEW w \in Workers, MapHalf(w) \/ FindUser(w) \/ Crash(w) PROVE TotalInv'
  BY <1>5, MapStep, CrashStep
<1>6. CASE UNCHANGED vars
  <2>1. inHolding' = inHolding
    BY <1>6 DEF inHolding
  <2>2. RecordsInOrder' /\ \A w \in Workers : Placed(w)'
    BY <1>6, <2>1 DEF FullInv, TotalInv, OrderInv, RecordsInOrder, Placed
  <2>3. /\ \A p : Totals(p)' = Totals(p) /\ Assets(p)' = Assets(p) /\ Held(p)' = Held(p)
        /\ \A w : Knows(w)' = Knows(w)
    BY <1>6, <2>1 DEF Totals, Assets, Held, Indexed, Open, Knows
  <2>4. Alone' => AloneInv'
    BY <1>6 DEF FullInv, TotalInv, AloneInv, Exclusive, Alone
  <2>5. Alone' => TotalsInv'
    BY <1>6, <2>3 DEF FullInv, TotalInv, TotalsInv, Alone, InOrder
  <2>6. AssetsInv'
    BY <1>6, <2>3 DEF FullInv, TotalInv, AssetsInv, Alone, InOrder, Covered
  <2> QED
    BY <2>2, <2>4, <2>5, <2>6, Parts DEF OrderInv
<1> QED
  BY <1>1, <1>2, <1>3, <1>4, <1>5, <1>6 DEF Next, Work, Failure

\* Every behaviour keeps the invariant, with the types and the markers' order.
LEMMA TotalsKept == Spec => []FullInv
<1>1. Init => FullInv
  BY InvInit, MarkerInit, TotalInit DEF FullInv
<1>2. FullInv /\ [Next]_vars => FullInv'
  BY InvStep, MarkerStep, TotalStep DEF FullInv, Inv
<1> QED
  BY <1>1, <1>2, PTL DEF Spec

\* The purchased value of a portfolio whose trades are on one partition is the
\* sum of its counted trades, for any number of trades and workers and any
\* faults, crashes and redeliveries: the snapshot may write it back, because it
\* is what was read and nobody came between.
THEOREM PurchasedIsSum == Spec => []PortfolioPurchased
<1>1. FullInv => PortfolioPurchased
  BY DEF FullInv, TotalInv, TotalsInv, Totals, PortfolioPurchased
<1> QED
  BY <1>1, TotalsKept, PTL

\* A portfolio whose begun trades are finished has the index of its quantities,
\* a saved valuation that is the current one and, if no sale was short, an
\* asset count that is the number of stocks held.
THEOREM SettledIsExact == Spec => []PortfolioSettled
<1>1. ASSUME FullInv, Alone, NEW p \in Portfolios, Settled(p)
      PROVE  /\ {h \in indexed : h[1] = p} = Held(p)
             /\ pf[p].cv = pf[p].cvp
             /\ Covered(p) => pf[p].ac = Cardinality(Held(p))
  <2>1. Totals(p) /\ (Covered(p) => Assets(p))
    BY <1>1 DEF FullInv, TotalInv, TotalsInv, AssetsInv, Settled
  <2>2. inHolding \cap TradesOf(p) \subseteq inPf
    BY <1>1, ReturnedCounted DEF Settled
  <2>3. ASSUME NEW h \in Holdings, h[1] = p PROVE Indexed(h)
    <3>1. TradesIn(h) \subseteq TradesOf(p)
      BY <2>3 DEF TradesIn, TradesOf, Holding
    <3> QED
      BY <2>1, <2>2, <2>3, <3>1 DEF Totals
  <2>4. {h \in indexed : h[1] = p} = Held(p)
    BY <1>1, <2>3 DEF Held, Indexed, FullInv, Inv, TypeOK
  <2>5. pf[p].cv = pf[p].cvp
    <3>1. inPf \cap TradesOf(p) \subseteq returned
      BY <1>1, ReturnedCounted DEF Settled
    <3> QED
      BY <2>1, <3>1 DEF Totals
  <2>6. \A t \in TradesOf(p) : ~Open(t)
    BY <2>2 DEF Open
  <2> QED
    BY <2>1, <2>4, <2>5, <2>6 DEF Assets
<1>2. FullInv => PortfolioSettled
  BY <1>1 DEF PortfolioSettled
<1> QED
  BY <1>2, TotalsKept, PTL
=============================================================================

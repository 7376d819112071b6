------------------------ MODULE PortfolioUserProofs ------------------------
(***************************************************************************)
(* Proofs about PortfolioUser, for any portfolios, trades and portfolio-    *)
(* user records: what is proved of TradeCache alone survives the creation   *)
(* and deletion of portfolios beside the trades.                            *)
(***************************************************************************)
EXTENDS PortfolioUser, TradeCacheProofs

USE DEF holdingVars, hashVars, mapVars, localVars, vars,
        keeperVars, eventVars, tradeOnlyVars, stateVars, userVars

StoreTyped ==
  /\ quantity \in [Holdings -> Nat]
  /\ indexed \subseteq Holdings
  /\ scv \in [Holdings -> Int \cup {Missing}]
  /\ shown \in [Holdings -> Int]
  /\ listed \in [Portfolios -> SUBSET Stocks]
  /\ deleted \subseteq Portfolios

MapTyped ==
  /\ owner \in [Portfolios -> Users \cup {Nobody}]
  /\ pending \subseteq Portfolios
  /\ members \in [Users -> SUBSET Portfolios]

UsersTyped == usr \in [Users -> [pv : Int, cvp : Int, cv : Int, count : Int]]

EventsTyped == counted \subseteq Events /\ done \subseteq Events

KeepersTyped ==
  /\ step \in [Keepers -> KeeperPhases]
  /\ event \in [Keepers -> Events \cup {NoEvent}]
  /\ \A k \in Keepers : (event[k] = NoEvent) <=> (step[k] = "idle")
  /\ change \in [Keepers -> [pv : Int, cv : Int, n : Int]]
  /\ found \in [Keepers -> SUBSET Stocks]

\* What a keeper writes.
KeeperSide ==
  StoreTyped /\ MapTyped /\ UsersTyped /\ EventsTyped /\ KeepersTyped
    /\ spent \in [Bounds -> Nat]

UserInv == UserTypeOK /\ TriesLeft /\ MarkerInv

----------------------------------------------------------------------------
(* Parts of the type *)

\* A keeper's step is typed if what it writes is.
LEMMA KeeperFrame ==
  ASSUME UserInv, UNCHANGED tradeOnlyVars, KeeperSide'
  PROVE  UserInv'
<1>1. UserTypeOK'
  BY DEF UserInv, UserTypeOK, TypeOK, tradeOnlyVars, localVars, KeeperSide, StoreTyped,
         MapTyped, UsersTyped, EventsTyped, KeepersTyped
<1>2. TriesLeft' /\ MarkerInv'
  BY DEF UserInv, tradeOnlyVars, localVars, TriesLeft, MarkerInv, MarkersInOrder,
         PastMarker, inHolding
<1> QED
  BY <1>1, <1>2 DEF UserInv

\* The parts of the type, before a step.
LEMMA KeeperParts == UserInv => KeeperSide
BY DEF UserInv, UserTypeOK, TypeOK, KeeperSide, StoreTyped, MapTyped, UsersTyped,
       EventsTyped, KeepersTyped

\* A keeper at work has an event.
LEMMA EventParts ==
  ASSUME KeepersTyped, NEW k \in Keepers, step[k] # "idle"
  PROVE  /\ event[k] \in Events
         /\ event[k].pf \in Portfolios /\ event[k].user \in Users
         /\ event[k].type \in {"CREATED", "DELETED"}
BY EventsAssumption DEF KeepersTyped

\* A keeper that goes on, or back, with its event.
LEMMA EnterKeeps ==
  ASSUME KeepersTyped, NEW k \in Keepers, step[k] # "idle",
         NEW phase \in KeeperPhases \ {"idle"}, Enter(k, phase), event' = event
  PROVE  /\ step' \in [Keepers -> KeeperPhases]
         /\ \A q \in Keepers : (event'[q] = NoEvent) <=> (step'[q] = "idle")
BY DEF KeepersTyped, Enter

\* The call of a keeper returns or loses its reply.
LEMMA AndThenKeeps ==
  ASSUME KeepersTyped, spent \in [Bounds -> Nat], NEW k \in Keepers, step[k] # "idle",
         NEW phase \in KeeperPhases \ {"idle"}, AndThen(k, phase), event' = event
  PROVE  /\ step' \in [Keepers -> KeeperPhases]
         /\ \A q \in Keepers : (event'[q] = NoEvent) <=> (step'[q] = "idle")
         /\ spent' \in [Bounds -> Nat]
<1>1. CASE Enter(k, phase) /\ UNCHANGED spent
  BY <1>1, EnterKeeps
<1>2. CASE Enter(k, "look") /\ Spend("faults")
  <2>1. spent' \in [Bounds -> Nat]
    BY <1>2, SpendType DEF Bounds
  <2> QED
    BY <1>2, <2>1, EnterKeeps DEF KeeperPhases
<1> QED
  BY <1>1, <1>2 DEF AndThen

\* A read whose error is dropped is counted.
LEMMA SawType ==
  ASSUME spent \in [Bounds -> Nat], NEW value, NEW truth, Saw(value, truth)
  PROVE  spent' \in [Bounds -> Nat]
BY SpendType DEF Saw, Bounds

\* Both parts of a pipeline, or one, and the keeper goes on or back.
LEMMA LookAgain ==
  ASSUME KeepersTyped, spent \in [Bounds -> Nat], NEW k \in Keepers, step[k] # "idle",
         Enter(k, "look"), Spend("faults"), event' = event
  PROVE  /\ step' \in [Keepers -> KeeperPhases]
         /\ \A q \in Keepers : (event'[q] = NoEvent) <=> (step'[q] = "idle")
         /\ spent' \in [Bounds -> Nat]
<1>1. AndThen(k, "look")
  BY DEF AndThen
<1> QED
  BY <1>1, AndThenKeeps DEF KeeperPhases

\* What an action that leaves the store, the mapping and the records leaves
\* typed.
LEMMA SideFrame ==
  ASSUME KeeperSide
  PROVE  /\ UNCHANGED <<stateVars, deleted>> => StoreTyped'
         /\ UNCHANGED mapVars => MapTyped'
         /\ UNCHANGED usr => UsersTyped'
         /\ UNCHANGED eventVars => EventsTyped'
BY DEF KeeperSide, StoreTyped, MapTyped, UsersTyped, EventsTyped

\* What a snapshot read is typed.
LEMMA ReadingType ==
  ASSUME NEW hash, hash.pv \in Int, hash.cv \in Int, hash.cvp \in Int,
         NEW n \in Int, NEW lost
  PROVE  Reading(hash, n, lost) \in [pv : Int, cv : Int, n : Int]
BY DEF Reading

----------------------------------------------------------------------------
(* The steps of a keeper *)

\* A keeper takes a record, which may be another's too.
LEMMA TakeEventTyped ==
  ASSUME KeeperSide, NEW k \in Keepers, NEW e \in Events, TakeEvent(k, e)
  PROVE  KeeperSide'
<1>1. StoreTyped' /\ MapTyped' /\ UsersTyped' /\ EventsTyped'
  BY SideFrame DEF TakeEvent
<1>2. spent' \in [Bounds -> Nat]
  BY SpendType DEF TakeEvent, KeeperSide, Bounds
<1>3. KeepersTyped'
  BY EventsAssumption DEF TakeEvent, KeeperSide, KeepersTyped, Enter, KeeperPhases
<1> QED
  BY <1>1, <1>2, <1>3 DEF KeeperSide

\* A record is delivered again.
LEMMA RedeliverTyped ==
  ASSUME KeeperSide, NEW e \in Events, Redeliver(e)
  PROVE  KeeperSide'
<1>1. StoreTyped' /\ MapTyped' /\ UsersTyped'
  BY SideFrame DEF Redeliver
<1>2. spent' \in [Bounds -> Nat]
  BY SpendType DEF Redeliver, KeeperSide, Bounds
<1>3. KeepersTyped' /\ EventsTyped'
  BY DEF Redeliver, KeeperSide, KeepersTyped, EventsTyped
<1> QED
  BY <1>1, <1>2, <1>3 DEF KeeperSide

\* The reads of a keeper.
LEMMA LookTyped ==
  ASSUME KeeperSide, NEW k \in Keepers, Look(k)
  PROVE  KeeperSide'
<1>1. StoreTyped' /\ MapTyped' /\ UsersTyped' /\ EventsTyped'
  BY SideFrame DEF Look
<1>2. PICK phase \in {"pending", "unmap", "totals"} : Enter(k, phase)
  BY DEF Look
<1>3. spent' \in [Bounds -> Nat]
  BY SawType DEF Look, KeeperSide
<1>4. KeepersTyped'
  BY <1>2, EnterKeeps DEF Look, KeeperSide, KeepersTyped, KeeperPhases
<1> QED
  BY <1>1, <1>3, <1>4 DEF KeeperSide

\* Its answer to a CREATED record is one more portfolio.
LEMMA CountPendingTyped ==
  ASSUME KeeperSide, NEW k \in Keepers, CountPending(k)
  PROVE  KeeperSide'
<1>1. StoreTyped' /\ MapTyped' /\ UsersTyped' /\ EventsTyped'
  BY SideFrame DEF CountPending
<1>2. PICK phase \in {"count", "usrread"} : Enter(k, phase)
  BY DEF CountPending
<1>3. spent' \in [Bounds -> Nat]
  BY SawType DEF CountPending, KeeperSide
<1>4. change' \in [Keepers -> [pv : Int, cv : Int, n : Int]]
  BY DEF CountPending, KeeperSide, KeepersTyped
<1>5. KeepersTyped'
  BY <1>2, <1>4, EnterKeeps DEF CountPending, At, KeeperSide, KeepersTyped, KeeperPhases
<1> QED
  BY <1>1, <1>3, <1>5 DEF KeeperSide

\* Its answer to a DELETED record changes the count alone.
LEMMA UncountPendingTyped ==
  ASSUME KeeperSide, NEW k \in Keepers, UncountPending(k)
  PROVE  KeeperSide'
<1>1. StoreTyped' /\ MapTyped' /\ UsersTyped' /\ EventsTyped'
  BY SideFrame DEF UncountPending
<1>2. Enter(k, "subtract")
  BY DEF UncountPending
<1>3. spent' \in [Bounds -> Nat]
  BY SawType DEF UncountPending, KeeperSide
<1>4. change' \in [Keepers -> [pv : Int, cv : Int, n : Int]]
  BY DEF UncountPending, KeeperSide, KeepersTyped
<1>5. KeepersTyped'
  BY <1>2, <1>4, EnterKeeps DEF UncountPending, At, KeeperSide, KeepersTyped, KeeperPhases
<1> QED
  BY <1>1, <1>3, <1>5 DEF KeeperSide

\* What a portfolio adds to its user, or takes away, are whole numbers.
LEMMA ReadTotalsTyped ==
  ASSUME UserInv, NEW k \in Keepers, NEW lost, ReadTotals(k, lost)
  PROVE  KeeperSide'
<1>0. KeeperSide
  BY KeeperParts
<1>1. StoreTyped' /\ MapTyped' /\ UsersTyped' /\ EventsTyped'
  BY <1>0, SideFrame DEF ReadTotals
<1>2. PICK phase \in {"add", "pending"} : Enter(k, phase)
  BY DEF ReadTotals
<1>3. spent' \in [Bounds -> Nat]
  BY <1>0, SpendType DEF ReadTotals, KeeperSide, Misread, Bounds
<1>4. change' \in [Keepers -> [pv : Int, cv : Int, n : Int]]
  <2> DEFINE totals == Reading(pf[event[k].pf], 1, lost)
  <2>1. event[k].pf \in Portfolios
    BY <1>0, EventParts DEF ReadTotals, KeeperSide
  <2>2. pf[event[k].pf] \in PortfolioHash
    BY <2>1, HashTypes DEF UserInv, UserTypeOK
  <2>3. totals \in [pv : Int, cv : Int, n : Int]
    BY <2>2, ReadingType DEF PortfolioHash
  <2>4. [pv |-> -totals.pv, cv |-> -totals.cv, n |-> 0] \in [pv : Int, cv : Int, n : Int]
    <3> HIDE DEF totals
    <3> QED
      BY <2>3
  <2> QED
    BY <1>0, <2>3, <2>4 DEF ReadTotals, KeeperSide, KeepersTyped
<1>5. KeepersTyped'
  BY <1>0, <1>2, <1>4, EnterKeeps DEF ReadTotals, KeeperSide, KeepersTyped, KeeperPhases
<1> QED
  BY <1>1, <1>3, <1>5 DEF KeeperSide

\* A user's totals with a change.
LEMMA PlusChangeType ==
  ASSUME NEW hash \in UserHash, NEW c \in [pv : Int, cv : Int, n : Int]
  PROVE  PlusChange(hash, c) \in UserHash
<1> DEFINE x == hash.pv + c.pv
           y == hash.cvp + c.cv
           z == hash.count + c.n
<1>1. x \in Int /\ y \in Int /\ z \in Int
  BY DEF UserHash
<1>2. [hash EXCEPT !.pv = x, !.cvp = y, !.count = z] \in UserHash
  <2> HIDE DEF x, y, z
  <2> QED
    BY <1>1 DEF UserHash
<1> QED
  BY <1>2 DEF PlusChange

\* The totals of an event are added, or were.
LEMMA ApplyEventTyped ==
  ASSUME KeeperSide, NEW k \in Keepers, NEW from \in KeeperPhases \ {"idle"},
         NEW to \in KeeperPhases \ {"idle"}, ApplyEvent(k, from, to)
  PROVE  KeeperSide'
<1>1. StoreTyped' /\ MapTyped'
  BY SideFrame DEF ApplyEvent
<1>2. event[k] \in Events /\ event[k].user \in Users /\ change[k] \in [pv : Int, cv : Int, n : Int]
  BY EventParts DEF ApplyEvent, KeeperSide, KeepersTyped
<1>3. UsersTyped'
  <2>1. usr \in [Users -> UserHash]
    BY DEF KeeperSide, UsersTyped, UserHash
  <2>2. PlusChange(usr[event[k].user], change[k]) \in UserHash
    BY <1>2, <2>1, PlusChangeType
  <2>3. usr' = usr \/ usr' = [usr EXCEPT ![event[k].user] = PlusChange(usr[event[k].user], change[k])]
    BY DEF ApplyEvent
  <2> QED
    BY <1>2, <2>1, <2>2, <2>3 DEF UsersTyped, UserHash
<1>4. EventsTyped'
  BY <1>2 DEF ApplyEvent, KeeperSide, EventsTyped
<1>5. step' \in [Keepers -> KeeperPhases] /\ spent' \in [Bounds -> Nat]
      /\ \A q \in Keepers : (event'[q] = NoEvent) <=> (step'[q] = "idle")
  BY AndThenKeeps DEF ApplyEvent, KeeperSide
<1>6. KeepersTyped'
  BY <1>5 DEF ApplyEvent, KeeperSide, KeepersTyped
<1> QED
  BY <1>1, <1>3, <1>4, <1>5, <1>6 DEF KeeperSide

\* A counted portfolio is no longer pending.
LEMMA ClearPendingTyped ==
  ASSUME KeeperSide, NEW k \in Keepers, ClearPending(k)
  PROVE  KeeperSide'
<1>1. StoreTyped' /\ UsersTyped' /\ EventsTyped'
  BY SideFrame DEF ClearPending
<1>2. MapTyped'
  BY DEF ClearPending, KeeperSide, MapTyped
<1>3. step' \in [Keepers -> KeeperPhases] /\ spent' \in [Bounds -> Nat]
      /\ \A q \in Keepers : (event'[q] = NoEvent) <=> (step'[q] = "idle")
  BY AndThenKeeps DEF ClearPending, KeeperSide, KeeperPhases
<1>4. KeepersTyped'
  BY <1>3 DEF ClearPending, KeeperSide, KeepersTyped
<1> QED
  BY <1>1, <1>2, <1>3, <1>4 DEF KeeperSide

\* Both parts of a pipeline, or one of them.
LEMMA MapPortfolioTyped ==
  ASSUME KeeperSide, NEW k \in Keepers, MapPortfolio(k)
  PROVE  KeeperSide'
<1>1. StoreTyped' /\ UsersTyped' /\ EventsTyped'
  BY SideFrame DEF MapPortfolio
<1>2. event[k].pf \in Portfolios /\ event[k].user \in Users
  BY EventParts DEF MapPortfolio, KeeperSide
<1>3. owner' \in [Portfolios -> Users \cup {Nobody}]
  BY <1>2 DEF MapPortfolio, Pipeline, KeeperSide, MapTyped
<1>4. members' \in [Users -> SUBSET Portfolios]
  <2>1. members[event[k].user] \cup {event[k].pf} \in SUBSET Portfolios
    BY <1>2 DEF KeeperSide, MapTyped
  <2> QED
    BY <1>2, <2>1 DEF MapPortfolio, Pipeline, KeeperSide, MapTyped
<1>5. AndThen(k, "usrread") \/ (Enter(k, "look") /\ Spend("faults"))
  BY DEF MapPortfolio, Pipeline
<1>6. step' \in [Keepers -> KeeperPhases] /\ spent' \in [Bounds -> Nat]
      /\ \A q \in Keepers : (event'[q] = NoEvent) <=> (step'[q] = "idle")
  BY <1>5, AndThenKeeps, LookAgain DEF MapPortfolio, KeeperSide, KeeperPhases
<1>7. KeepersTyped' /\ MapTyped'
  BY <1>3, <1>4, <1>6 DEF MapPortfolio, KeeperSide, KeepersTyped, MapTyped
<1> QED
  BY <1>1, <1>6, <1>7 DEF KeeperSide

\* What is unmapped was mapped to a user, or was not.
LEMMA UnmapTyped ==
  ASSUME KeeperSide, NEW k \in Keepers, Unmap(k)
  PROVE  KeeperSide'
<1>1. StoreTyped' /\ UsersTyped' /\ EventsTyped'
  BY SideFrame DEF Unmap
<1>2. event[k].pf \in Portfolios /\ event[k].user \in Users
  BY EventParts DEF Unmap, KeeperSide
<1>3. owner' \in [Portfolios -> Users \cup {Nobody}] /\ pending' \subseteq Portfolios
  BY <1>2 DEF Unmap, Pipeline, KeeperSide, MapTyped
<1>4. members' \in [Users -> SUBSET Portfolios]
  <2>1. members[event[k].user] \ {event[k].pf} \in SUBSET Portfolios
    BY <1>2 DEF KeeperSide, MapTyped
  <2> QED
    BY <1>2, <2>1 DEF Unmap, Pipeline, KeeperSide, MapTyped
<1>5. AndThen(k, "delete") \/ (Enter(k, "look") /\ Spend("faults"))
  BY DEF Unmap, Pipeline
<1>6. step' \in [Keepers -> KeeperPhases] /\ spent' \in [Bounds -> Nat]
      /\ \A q \in Keepers : (event'[q] = NoEvent) <=> (step'[q] = "idle")
  BY <1>5, AndThenKeeps, LookAgain DEF Unmap, KeeperSide, KeeperPhases
<1>7. KeepersTyped' /\ MapTyped'
  BY <1>3, <1>4, <1>6 DEF Unmap, KeeperSide, KeepersTyped, MapTyped
<1> QED
  BY <1>1, <1>6, <1>7 DEF KeeperSide

\* A portfolio is marked deleted.
LEMMA MarkDeletedTyped ==
  ASSUME KeeperSide, NEW k \in Keepers, MarkDeleted(k)
  PROVE  KeeperSide'
<1>1. MapTyped' /\ UsersTyped' /\ EventsTyped'
  BY SideFrame DEF MarkDeleted
<1>2. event[k].pf \in Portfolios
  BY EventParts DEF MarkDeleted, KeeperSide
<1>3. StoreTyped'
  BY <1>2 DEF MarkDeleted, KeeperSide, StoreTyped
<1>4. step' \in [Keepers -> KeeperPhases] /\ spent' \in [Bounds -> Nat]
      /\ \A q \in Keepers : (event'[q] = NoEvent) <=> (step'[q] = "idle")
  BY AndThenKeeps DEF MarkDeleted, KeeperSide, KeeperPhases
<1>5. KeepersTyped'
  BY <1>4 DEF MarkDeleted, KeeperSide, KeepersTyped
<1> QED
  BY <1>1, <1>3, <1>4, <1>5 DEF KeeperSide

\* What the deletion finds are stocks.
LEMMA FindStocksTyped ==
  ASSUME KeeperSide, NEW k \in Keepers, FindStocks(k)
  PROVE  KeeperSide'
<1>1. StoreTyped' /\ MapTyped' /\ UsersTyped' /\ EventsTyped'
  BY SideFrame DEF FindStocks
<1>2. event[k].pf \in Portfolios
  BY EventParts DEF FindStocks, KeeperSide
<1>3. spent' \in [Bounds -> Nat]
  BY SawType DEF FindStocks, KeeperSide
<1>4. found' \in [Keepers -> SUBSET Stocks]
  <2>1. listed[event[k].pf] \in SUBSET Stocks
    BY <1>2 DEF KeeperSide, StoreTyped
  <2> QED
    BY <2>1 DEF FindStocks, KeeperSide, KeepersTyped
<1>5. KeepersTyped'
  BY <1>4, EnterKeeps DEF FindStocks, KeeperSide, KeepersTyped, KeeperPhases
<1> QED
  BY <1>1, <1>3, <1>5 DEF KeeperSide

\* What is taken away of holdings leaves the others.
LEMMA ForgetTyped ==
  ASSUME KeeperSide, NEW valued, NEW held, Forget(valued, held)
  PROVE  /\ quantity' \in [Holdings -> Nat] /\ indexed' \subseteq Holdings
         /\ scv' \in [Holdings -> Int \cup {Missing}] /\ shown' \in [Holdings -> Int]
BY DEF Forget, KeeperSide, StoreTyped

\* What is wiped has no value and the quantity 0.
LEMMA WipeTyped ==
  ASSUME KeeperSide, NEW k \in Keepers, Wipe(k)
  PROVE  KeeperSide'
<1>1. MapTyped' /\ UsersTyped' /\ EventsTyped'
  BY SideFrame DEF Wipe
<1>2. event[k].pf \in Portfolios
  BY EventParts DEF Wipe, KeeperSide
<1>3. listed' \in [Portfolios -> SUBSET Stocks]
  BY <1>2 DEF Wipe, KeeperSide, StoreTyped
<1>4. \E valued, held : Forget(valued, held)
  BY DEF Wipe
<1>5. StoreTyped'
  BY <1>3, <1>4, ForgetTyped DEF Wipe, KeeperSide, StoreTyped
<1>6. \/ Enter(k, "look") /\ UNCHANGED spent
      \/ AndThen(k, "usrread")
      \/ Enter(k, "look") /\ Spend("faults")
  BY DEF Wipe
<1>7. step' \in [Keepers -> KeeperPhases] /\ spent' \in [Bounds -> Nat]
      /\ \A q \in Keepers : (event'[q] = NoEvent) <=> (step'[q] = "idle")
  BY <1>6, AndThenKeeps, LookAgain, EnterKeeps DEF Wipe, KeeperSide, KeeperPhases
<1>8. KeepersTyped'
  BY <1>7 DEF Wipe, KeeperSide, KeepersTyped
<1> QED
  BY <1>1, <1>5, <1>7, <1>8 DEF KeeperSide

\* A user's snapshot holds whole numbers.
LEMMA ReadUserOfTyped ==
  ASSUME KeeperSide, NEW k \in Keepers, NEW lost, ReadUserOf(k, lost)
  PROVE  KeeperSide'
<1>1. StoreTyped' /\ MapTyped' /\ UsersTyped' /\ EventsTyped'
  BY SideFrame DEF ReadUserOf
<1>2. Enter(k, "usrsave")
  BY DEF ReadUserOf
<1>3. spent' \in [Bounds -> Nat]
  BY SpendType DEF ReadUserOf, KeeperSide, Misread, Bounds
<1>4. change' \in [Keepers -> [pv : Int, cv : Int, n : Int]]
  <2>1. usr[event[k].user] \in UserHash
    BY EventParts DEF ReadUserOf, KeeperSide, UsersTyped, UserHash
  <2>2. Reading(usr[event[k].user], usr[event[k].user].count, lost) \in [pv : Int, cv : Int, n : Int]
    BY <2>1, ReadingType DEF UserHash
  <2> QED
    BY <2>2 DEF ReadUserOf, KeeperSide, KeepersTyped
<1>5. KeepersTyped'
  BY <1>2, <1>4, EnterKeeps DEF ReadUserOf, KeeperSide, KeepersTyped, KeeperPhases
<1> QED
  BY <1>1, <1>3, <1>5 DEF KeeperSide

\* A keeper that is done, or dies, has no event.
LEMMA LeaveTyped ==
  ASSUME KeepersTyped, NEW k \in Keepers, Leave(k)
  PROVE  KeepersTyped'
BY EventsAssumption DEF KeepersTyped, Leave, Enter, KeeperPhases, NoSnap

\* It is saved in the user's hash, and the record is done.
LEMMA SaveUserOfTyped ==
  ASSUME KeeperSide, NEW k \in Keepers, SaveUserOf(k)
  PROVE  KeeperSide'
<1>1. StoreTyped' /\ MapTyped'
  BY SideFrame DEF SaveUserOf
<1>2. event[k] \in Events /\ event[k].user \in Users /\ change[k] \in [pv : Int, cv : Int, n : Int]
  BY EventParts DEF SaveUserOf, KeeperSide, KeepersTyped
<1>3. UsersTyped'
  <2> DEFINE hash == [usr[event[k].user] EXCEPT !.pv = change[k].pv,
                               !.cv = change[k].cv, !.count = change[k].n]
  <2>1. usr \in [Users -> UserHash]
    BY DEF KeeperSide, UsersTyped, UserHash
  <2>2. hash \in UserHash
    BY <1>2, <2>1, UserHashType
  <2> QED
    BY <1>2, <2>1, <2>2 DEF SaveUserOf, UsersTyped, UserHash
<1>4. CASE Leave(k) /\ done' = done \cup {event[k]} /\ UNCHANGED spent
  BY <1>1, <1>2, <1>3, <1>4, LeaveTyped DEF SaveUserOf, KeeperSide, EventsTyped
<1>5. CASE Enter(k, "look") /\ Spend("faults") /\ UNCHANGED <<event, change, found, done>>
  <2>1. step' \in [Keepers -> KeeperPhases] /\ spent' \in [Bounds -> Nat]
        /\ \A q \in Keepers : (event'[q] = NoEvent) <=> (step'[q] = "idle")
    BY <1>5, LookAgain DEF SaveUserOf, KeeperSide
  <2> QED
    BY <1>1, <1>3, <1>5, <2>1 DEF SaveUserOf, KeeperSide, EventsTyped, KeepersTyped
<1> QED
  BY <1>4, <1>5 DEF SaveUserOf

\* A call fails, or the keeper dies.
LEMMA KeeperTroubleTyped ==
  ASSUME KeeperSide, NEW k \in Keepers, KeeperFails(k) \/ KeeperDies(k)
  PROVE  KeeperSide'
<1>1. StoreTyped' /\ MapTyped' /\ UsersTyped' /\ EventsTyped'
  BY SideFrame DEF KeeperFails, KeeperDies
<1>2. CASE KeeperFails(k)
  <2>1. step' \in [Keepers -> KeeperPhases] /\ spent' \in [Bounds -> Nat]
        /\ \A q \in Keepers : (event'[q] = NoEvent) <=> (step'[q] = "idle")
    BY <1>2, LookAgain DEF KeeperFails, KeeperSide
  <2> QED
    BY <1>1, <1>2, <2>1 DEF KeeperFails, KeeperSide, KeepersTyped
<1>3. CASE KeeperDies(k)
  <2>1. spent' \in [Bounds -> Nat]
    BY <1>3, SpendType DEF KeeperDies, KeeperSide, Bounds
  <2> QED
    BY <1>1, <1>3, <2>1, LeaveTyped DEF KeeperDies, KeeperSide
<1> QED
  BY <1>2, <1>3

----------------------------------------------------------------------------
(* Trades and keepers together *)

\* A trade's step here is one of TradeCache; what it adds is typed.
LEMMA TradeStepTyped ==
  ASSUME UserInv, TradeStep
  PROVE  UserInv'
<1>1. Next
  BY DEF TradeStep, Next, Work
<1>2. Inv /\ MarkerInv
  BY DEF UserInv, UserTypeOK, Inv
<1>3. Inv' /\ MarkerInv'
  BY <1>1, <1>2, InvStep, MarkerStep DEF Inv
<1>4. listed' \in [Portfolios -> SUBSET Stocks] /\ deleted' \subseteq Portfolios
  <2>1. CASE UNCHANGED <<listed, deleted>>
    BY <2>1 DEF UserInv, UserTypeOK
  <2>2. ASSUME NEW w \in Workers, SyncIndex(w), UNCHANGED deleted,
               listed' = [listed EXCEPT ![trade[w].pf] =
                            IF seen[w] > 0 THEN @ \cup {trade[w].stock}
                                           ELSE @ \ {trade[w].stock}]
        PROVE  listed' \in [Portfolios -> SUBSET Stocks] /\ deleted' \subseteq Portfolios
    <3>1. trade[w].pf \in Portfolios /\ trade[w].stock \in Stocks
      BY <2>2, TradeParts DEF SyncIndex, UserInv, UserTypeOK, TypeOK
    <3> QED
      BY <2>2, <3>1 DEF UserInv, UserTypeOK
  <2>3. CASE \E w \in Workers : deleted' = deleted \ {trade[w].pf} /\ UNCHANGED listed
    BY <2>3 DEF UserInv, UserTypeOK
  <2> QED
    BY <2>1, <2>2, <2>3 DEF TradeStep
<1> QED
  BY <1>3, <1>4 DEF TradeStep, UserInv, UserTypeOK, Inv

\* So is a keeper's.
LEMMA KeeperStepTyped ==
  ASSUME UserInv, KeeperStep
  PROVE  UserInv'
<1>1. KeeperSide /\ UNCHANGED tradeOnlyVars
  BY KeeperParts DEF KeeperStep
<1>2. ASSUME NEW k \in Keepers, KeeperWork(k) PROVE KeeperSide'
  BY <1>1, <1>2, LookTyped, CountPendingTyped, UncountPendingTyped, ReadTotalsTyped,
     ApplyEventTyped, ClearPendingTyped, MapPortfolioTyped, UnmapTyped, MarkDeletedTyped,
     FindStocksTyped, WipeTyped, ReadUserOfTyped, SaveUserOfTyped
     DEF KeeperWork, KeeperPhases
<1>3. KeeperSide'
  BY <1>1, <1>2, TakeEventTyped, RedeliverTyped, KeeperTroubleTyped DEF KeeperStep
<1> QED
  BY <1>1, <1>3, KeeperFrame

\* UserInv holds at first,
LEMMA UserInvInit == UserInit => UserInv
<1> SUFFICES ASSUME UserInit PROVE UserInv
  OBVIOUS
<1>1. Inv /\ MarkerInv
  BY InvInit, MarkerInit DEF UserInit
<1>2. UserTypeOK
  BY <1>1 DEF UserInit, UserTypeOK, Inv, KeeperPhases, NoSnap
<1> QED
  BY <1>1, <1>2 DEF UserInv, Inv

\* and after every step of a worker or a keeper.
LEMMA UserInvStep == UserInv /\ [UserNext]_userVars => UserInv'
<1> SUFFICES ASSUME UserInv, [UserNext]_userVars PROVE UserInv'
  OBVIOUS
<1>1. CASE UNCHANGED userVars
  <2>1. UNCHANGED tradeOnlyVars
    BY <1>1
  <2>2. KeeperSide'
    BY <1>1, KeeperParts DEF KeeperSide, StoreTyped, MapTyped, UsersTyped, EventsTyped,
       KeepersTyped
  <2> QED
    BY <2>1, <2>2, KeeperFrame
<1> QED
  BY <1>1, TradeStepTyped, KeeperStepTyped DEF UserNext

\* With portfolios created and deleted beside the trades, every variable keeps
\* its type: no quantity is negative, and an idle keeper has no event.
THEOREM UserTypeCorrect == UserSpec => []UserTypeOK
<1>1. UserInv => UserTypeOK
  BY DEF UserInv
<1> QED
  BY <1>1, UserInvInit, UserInvStep, PTL DEF UserSpec

\* The markers of trades keep their order.
THEOREM MarkersStayInOrder == UserSpec => []MarkersInOrder
<1>1. UserInv => MarkersInOrder
  BY DEF UserInv, MarkerInv
<1> QED
  BY <1>1, UserInvInit, UserInvStep, PTL DEF UserSpec
=============================================================================

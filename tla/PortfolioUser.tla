---------------------------- MODULE PortfolioUser ----------------------------
(***************************************************************************)
(* Portfolio-user records beside the trades: handlePortfolioUserRecord of   *)
(* internal/kafka/consumer.go, UpdateUserCaches of                          *)
(* internal/service/cache.go and the mapping of                             *)
(* internal/redisstore/store.go.                                            *)
(*                                                                          *)
(* A keeper is a portfolio-user consumer of any process.  The records of a  *)
(* portfolio are on one partition, CREATED before DELETED; its trades are   *)
(* on another topic and come at any time.  An UPDATED record does nothing.  *)
(* Calls fail, lose their reply and misread as in TradeCache.               *)
(***************************************************************************)
EXTENDS TradeCache

CONSTANTS
  Keepers,
  Events,   \* the portfolio-user records
  NoEvent,  \* what an idle keeper works on
  Cluster   \* Redis is a cluster, not one node

ASSUME EventsAssumption ==
  /\ Events \subseteq [type : {"CREATED", "DELETED"}, pf : Portfolios,
                       user : Users]
  /\ \A e, f \in Events : e.pf = f.pf => e.user = f.user
  /\ NoEvent \notin Events
  /\ Cluster \in BOOLEAN

VARIABLES
  listed,   \* per portfolio: the set of its stocks
  deleted,  \* portfolios whose hash has del = 1
  counted,  \* events with a marker for the user hash
  done,     \* events whose offset is stored
  \* per keeper
  step, event,
  change,   \* what to add to the user's totals; then what the snapshot read
  found     \* the stocks DeletePortfolioState read

keeperVars == <<step, event, change, found>>
eventVars == <<counted, done>>
\* What no keeper writes.
tradeOnlyVars == <<turned, pf, inPf, inUsr, processed, pc, trade, localVars,
                   returned>>
stateVars == <<quantity, indexed, scv, shown, listed>>
userVars == <<vars, listed, deleted, eventVars, keeperVars>>

UserInit ==
  /\ Init
  /\ listed = [p \in Portfolios |-> {}]
  /\ deleted = {}
  /\ counted = {}
  /\ done = {}
  /\ step = [k \in Keepers |-> "idle"]
  /\ event = [k \in Keepers |-> NoEvent]
  /\ change = [k \in Keepers |-> NoSnap]
  /\ found = [k \in Keepers |-> {}]

Enter(k, phase) == step' = [step EXCEPT ![k] = phase]

\* The call returns, or its reply is lost and the record is handled again.
AndThen(k, phase) ==
  \/ Enter(k, phase) /\ UNCHANGED spent
  \/ Enter(k, "look") /\ Spend("faults")

\* The dropped error of a read makes what it reads look absent.
Saw(value, truth) == IF value = truth THEN UNCHANGED spent ELSE Spend("misreads")

At(k, phase, type) == step[k] = phase /\ event[k].type = type

\* CREATED comes first on the partition.
Before(f, e) == f.pf = e.pf /\ f.type = "CREATED" /\ e.type = "DELETED"

KeeperAt(p) == \E k \in Keepers : event[k] # NoEvent /\ event[k].pf = p

TakeEvent(k, e) ==
  /\ step[k] = "idle"
  /\ e \notin done
  /\ \A f \in Events : Before(f, e) => f \in done
  /\ IF KeeperAt(e.pf) THEN Spend("zombies") ELSE UNCHANGED spent
  /\ Enter(k, "look")
  /\ event' = [event EXCEPT ![k] = e]
  /\ UNCHANGED <<stateVars, deleted, usr, mapVars, eventVars, change, found>>

\* The partition is read again from e on.
Redeliver(e) ==
  /\ e \in done
  /\ ~KeeperAt(e.pf)
  /\ Spend("redeliveries")
  /\ done' = {f \in done : f.pf # e.pf \/ Before(f, e)}
  /\ UNCHANGED <<stateVars, deleted, usr, mapVars, counted, keeperVars>>

----------------------------------------------------------------------------
(* createPortfolioMapping and deletePortfolioMapping *)

\* FindUserIDByPortfolioID.
Look(k) ==
  LET truth == owner[event[k].pf] # Nobody
  IN  /\ step[k] = "look"
      /\ \E mapped \in {truth, FALSE} :
           /\ Saw(mapped, truth)
           /\ Enter(k, CASE mapped /\ event[k].type = "CREATED" -> "pending"
                         [] ~mapped /\ event[k].type = "DELETED" -> "unmap"
                         [] OTHER -> "totals")
      /\ UNCHANGED <<stateVars, deleted, usr, mapVars, eventVars, event, change,
                     found>>

\* Of CREATED: a portfolio that a trade has mapped is only counted.
CountPending(k) ==
  LET truth == event[k].pf \in pending
  IN  /\ At(k, "pending", "CREATED")
      /\ \E flagged \in {truth, FALSE} :
           /\ Saw(flagged, truth)
           /\ Enter(k, IF flagged THEN "count" ELSE "usrread")
      /\ change' = [change EXCEPT ![k] = [pv |-> 0, cv |-> 0, n |-> 1]]
      /\ UNCHANGED <<stateVars, deleted, usr, mapVars, eventVars, event, found>>

\* Of DELETED: one that was never counted is not counted off.
UncountPending(k) ==
  LET truth == event[k].pf \in pending
  IN  /\ At(k, "pending", "DELETED")
      /\ \E flagged \in {truth, FALSE} :
           /\ Saw(flagged, truth)
           /\ change' = [change EXCEPT ![k].n = IF flagged THEN 0 ELSE -1]
      /\ Enter(k, "subtract")
      /\ UNCHANGED <<stateVars, deleted, usr, mapVars, eventVars, event, found>>

\* FindPortfolioPurchasedValue and FindPortfolioCurrentValue.
ReadTotals(k, lost) ==
  LET totals == Reading(pf[event[k].pf], 1, lost)
  IN  /\ step[k] = "totals"
      /\ Misread(lost)
      /\ IF event[k].type = "CREATED"
           THEN Enter(k, "add") /\ change' = [change EXCEPT ![k] = totals]
           ELSE /\ Enter(k, "pending")
                /\ change' = [change EXCEPT ![k] =
                                [pv |-> -totals.pv, cv |-> -totals.cv, n |-> 0]]
      /\ UNCHANGED <<stateVars, deleted, usr, mapVars, eventVars, event, found>>

PlusChange(hash, c) ==
  [hash EXCEPT !.pv = @ + c.pv, !.cvp = @ + c.cv, !.count = @ + c.n]

\* Mutant: the event has no marker.
IsCountedNever(e) == FALSE

IsCounted(e) == e \in counted

\* ApplyUserTotals under the marker of the event.
ApplyEvent(k, from, to) ==
  LET e == event[k]
  IN  /\ step[k] = from
      /\ usr' = IF IsCounted(e) THEN usr
                ELSE [usr EXCEPT ![e.user] = PlusChange(@, change[k])]
      /\ counted' = counted \cup {e}
      /\ AndThen(k, to)
      /\ UNCHANGED <<stateVars, deleted, mapVars, done, event, change, found>>

ClearPending(k) ==
  /\ step[k] = "clear"
  /\ pending' = pending \ {event[k].pf}
  /\ AndThen(k, "usrread")
  /\ UNCHANGED <<stateVars, deleted, usr, owner, members, eventVars, event,
                 change, found>>

\* The two parts of a pipeline on two nodes, of which a fault may skip either.
Pipeline(k, phase, part1, kept1, part2, kept2) ==
  \/ part1 /\ part2 /\ AndThen(k, phase)
  \/ /\ (part1 /\ kept2) \/ (kept1 /\ part2)
     /\ Enter(k, "look")
     /\ Spend("faults")

MapPortfolio(k) ==
  LET e == event[k]
  IN  /\ step[k] = "map"
      /\ Pipeline(k, "usrread",
           owner' = [owner EXCEPT ![e.pf] = e.user], UNCHANGED owner,
           members' = [members EXCEPT ![e.user] = @ \cup {e.pf}],
           UNCHANGED members)
      /\ UNCHANGED <<stateVars, deleted, usr, pending, eventVars, event,
                     change, found>>

\* RemovePortfolioUserMapping.
Unmap(k) ==
  LET e == event[k]
  IN  /\ step[k] = "unmap"
      /\ Pipeline(k, "delete",
           /\ owner' = [owner EXCEPT ![e.pf] = Nobody]
           /\ pending' = pending \ {e.pf},
           UNCHANGED <<owner, pending>>,
           members' = [members EXCEPT ![e.user] = @ \ {e.pf}],
           UNCHANGED members)
      /\ UNCHANGED <<stateVars, deleted, usr, eventVars, event, change, found>>

\* MarkPortfolioValuationDeleted.
MarkDeleted(k) ==
  /\ step[k] = "delete"
  /\ deleted' = deleted \cup {event[k].pf}
  /\ AndThen(k, "stocks")
  /\ UNCHANGED <<stateVars, usr, mapVars, eventVars, event, change, found>>

\* DeletePortfolioState drops the error of SMEMBERS.
FindStocks(k) ==
  LET truth == listed[event[k].pf]
  IN  /\ step[k] = "stocks"
      /\ \E stocks \in {truth, {}} :
           /\ Saw(stocks, truth)
           /\ found' = [found EXCEPT ![k] = stocks]
      /\ Enter(k, "wipe")
      /\ UNCHANGED <<stateVars, deleted, usr, mapVars, eventVars, event, change>>

\* Mutant: the stock's set keeps the portfolio.
ForgetIndexed(valued, held) ==
  /\ scv' = [h \in Holdings |-> IF h \in valued THEN Missing ELSE scv[h]]
  /\ quantity' = [h \in Holdings |-> IF h \in held THEN 0 ELSE quantity[h]]
  /\ shown' = [h \in Holdings |-> IF h \in held THEN 0 ELSE shown[h]]
  /\ UNCHANGED indexed

\* What HDEL and SREM take away of a holding, and what DEL does.
Forget(valued, held) ==
  /\ scv' = [h \in Holdings |-> IF h \in valued THEN Missing ELSE scv[h]]
  /\ indexed' = indexed \ valued
  /\ quantity' = [h \in Holdings |-> IF h \in held THEN 0 ELSE quantity[h]]
  /\ shown' = [h \in Holdings |-> IF h \in held THEN 0 ELSE shown[h]]

\* Its pipeline takes the stocks' keys away and the set that names them.  On a
\* cluster the one DEL of two keys in two slots is an error; on one node, what
\* comes last is not done without the rest.
Wipe(k) ==
  LET p == event[k].pf
      all == {p} \X found[k]
      unlisted == [listed EXCEPT ![p] = {}]
  IN  /\ step[k] = "wipe"
      /\ \/ /\ Forget(all, IF Cluster THEN {} ELSE all)
            /\ listed' = unlisted
            /\ IF Cluster /\ all # {}
                 THEN Enter(k, "look") /\ UNCHANGED spent
                 ELSE AndThen(k, "usrread")
         \/ \E valued \in SUBSET all, held \in SUBSET (IF Cluster THEN {} ELSE all) :
              /\ Forget(valued, held)
              /\ listed' \in {listed} \cup IF Cluster THEN {unlisted} ELSE {}
              /\ Enter(k, "look")
              /\ Spend("faults")
      /\ UNCHANGED <<deleted, usr, mapVars, eventVars, event, change, found>>

----------------------------------------------------------------------------
(* saveUserSnapshot, and failures *)

ReadUserOf(k, lost) ==
  LET hash == usr[event[k].user]
  IN  /\ step[k] = "usrread"
      /\ Misread(lost)
      /\ change' = [change EXCEPT ![k] = Reading(hash, hash.count, lost)]
      /\ Enter(k, "usrsave")
      /\ UNCHANGED <<stateVars, deleted, usr, mapVars, eventVars, event, found>>

Leave(k) ==
  /\ Enter(k, "idle")
  /\ event' = [event EXCEPT ![k] = NoEvent]
  /\ change' = [change EXCEPT ![k] = NoSnap]
  /\ found' = [found EXCEPT ![k] = {}]

\* SaveUserValuation, and the record is done; or its reply is lost.
SaveUserOf(k) ==
  LET e == event[k]
      c == change[k]
  IN  /\ step[k] = "usrsave"
      /\ usr' = [usr EXCEPT ![e.user] =
                   [@ EXCEPT !.pv = c.pv, !.cv = c.cv, !.count = c.n]]
      /\ \/ Leave(k) /\ done' = done \cup {e} /\ UNCHANGED spent
         \/ /\ Enter(k, "look")
            /\ Spend("faults")
            /\ UNCHANGED <<event, change, found, done>>
      /\ UNCHANGED <<stateVars, deleted, mapVars, counted>>

\* A call whose error is returned fails without effect.
KeeperFails(k) ==
  /\ step[k] \in {"count", "add", "subtract", "clear", "map", "unmap", "delete",
                  "wipe", "usrsave"}
  /\ Spend("faults")
  /\ Enter(k, "look")
  /\ UNCHANGED <<stateVars, deleted, usr, mapVars, eventVars, event, change, found>>

KeeperDies(k) ==
  /\ step[k] # "idle"
  /\ Spend("faults")
  /\ Leave(k)
  /\ UNCHANGED <<stateVars, deleted, usr, mapVars, eventVars>>

KeeperWork(k) ==
  \/ Look(k) \/ CountPending(k) \/ UncountPending(k)
  \/ \E lost \in SUBSET {"pv", "cvp"} : ReadTotals(k, lost)
  \/ ApplyEvent(k, "count", "clear") \/ ApplyEvent(k, "add", "map")
  \/ ApplyEvent(k, "subtract", "unmap")
  \/ ClearPending(k) \/ MapPortfolio(k) \/ Unmap(k) \/ MarkDeleted(k)
  \/ FindStocks(k) \/ Wipe(k)
  \/ \E lost \in SUBSET Fields : ReadUserOf(k, lost)
  \/ SaveUserOf(k)

KeeperStep ==
  /\ \/ \E k \in Keepers :
          \/ \E e \in Events : TakeEvent(k, e)
          \/ KeeperWork(k) \/ KeeperFails(k) \/ KeeperDies(k)
     \/ \E e \in Events : Redeliver(e)
  /\ UNCHANGED tradeOnlyVars

\* A trade's indexes are two, and its snapshot sets del back to 0.
TradeStep ==
  /\ \E w \in Workers :
       \/ /\ (\E t \in Trades : Take(w, t)) \/ Compute(w) \/ Failure(w)
          /\ UNCHANGED <<listed, deleted>>
       \/ /\ SyncIndex(w)
          /\ LET t == trade[w]
             IN  listed' = [listed EXCEPT ![t.pf] =
                    IF seen[w] > 0 THEN @ \cup {t.stock} ELSE @ \ {t.stock}]
          /\ UNCHANGED deleted
       \/ /\ SavePortfolio(w)
          /\ deleted' = deleted \ {trade[w].pf}
          /\ UNCHANGED listed
  /\ UNCHANGED <<eventVars, keeperVars>>

UserNext == TradeStep \/ KeeperStep

UserSpec == UserInit /\ [][UserNext]_userVars

----------------------------------------------------------------------------
(* Properties *)

KeeperPhases ==
  {"idle", "look", "pending", "totals", "count", "add", "subtract", "clear",
   "map", "unmap", "delete", "stocks", "wipe", "usrread", "usrsave"}

\* Every variable has its type; a quantity, in particular, is never negative.
UserTypeOK ==
  /\ TypeOK
  /\ listed \in [Portfolios -> SUBSET Stocks]
  /\ deleted \subseteq Portfolios
  /\ counted \subseteq Events
  /\ done \subseteq Events
  /\ step \in [Keepers -> KeeperPhases]
  /\ event \in [Keepers -> Events \cup {NoEvent}]
  /\ \A k \in Keepers : (event[k] = NoEvent) <=> (step[k] = "idle")
  /\ change \in [Keepers -> [pv : Int, cv : Int, n : Int]]
  /\ found \in [Keepers -> SUBSET Stocks]
=============================================================================

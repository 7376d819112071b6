------------------------- MODULE UserTotalsProofs --------------------------
(***************************************************************************)
(* Proofs about the totals of a user in Valuation, for any stocks,          *)
(* portfolios, prices, records and workers: what the trades, the portfolio- *)
(* user records and the fan-outs each leave of them, between their calls    *)
(* and between the records and prices.                                      *)
(***************************************************************************)
EXTENDS ValuationProofs

----------------------------------------------------------------------------
(* A user's totals are those of its portfolios *)

\* A portfolio's records name one user, whose totals it is in.
Names(p, u) ==
  /\ \A t \in Trades : t.pf = p => t.user = u
  /\ \A e \in Events : e.pf = p => e.user = u

OneUserEach == \A p \in Portfolios : \E u \in Users : Names(p, u)

UserOf(p) == CHOOSE u \in Users : Names(p, u)

\* The user's totals have counted p's creation, and its deletion.
Opened(p) == \E e \in counted : e.type = "CREATED" /\ e.pf = p

Closed(p) == \E e \in counted : e.type = "DELETED" /\ e.pf = p

\* The portfolios whose values are in u's, and those u's number counts.
Accounted(u) ==
  {p \in Portfolios : UserOf(p) = u /\ ~Closed(p) /\ (owner[p] # Nobody \/ Opened(p))}

Created(u) == {p \in Portfolios : UserOf(p) = u /\ ~Closed(p) /\ Opened(p)}

\* What a portfolio's totals have and its user's do not yet.
Owed(u) == Sum({t \in inPf \ inUsr : t.user = u})

\* A fan-out has yet to make up u's current value.
Touched(u) ==
  \E s \in Stocks :
    /\ s \in cut \/ \E r \in Pricers : work[r] # Idle /\ work[r].stock = s
    /\ u \in Owners(s)

\* The snapshot of u is yet to be saved.
Unsaved(u) ==
  \/ Touched(u)
  \/ \E t \in inUsr \ returned : t.user = u
  \/ \E e \in counted \ done : e.user = u

\* The totals of u are its portfolios' but for what is owed, and but for what a
\* fan-out or a snapshot will save.
Account(u) ==
  /\ IsFiniteSet(Accounted(u))
  /\ usr[u].pv + Owed(u) = SumFunctionOnSet(purchaseds, Accounted(u))
  /\ Touched(u) \/ usr[u].cvp + Owed(u) = SumFunctionOnSet(currents, Accounted(u))
  /\ usr[u].count = Cardinality(Created(u))
  /\ Unsaved(u) \/ usr[u].cv = usr[u].cvp

\* No trade has come to p.
Untraded(p) == purchaseds[p] = 0 /\ currents[p] = 0 /\ \A t \in inHolding : t.pf # p

\* A record of p is not finished.
Awaited(p) ==
  \/ \E t \in Trades \ returned : t.pf = p
  \/ \E e \in counted \ done : e.pf = p

\* The mapping of p, by hash and by set, against what was counted.
MappingOf(p) ==
  /\ owner[p] \in {UserOf(p), Nobody}
  /\ owner[p] # Nobody =>
       (p \in members[UserOf(p)] \/ Closed(p)) /\ (p \in pending \/ Opened(p))
  /\ owner[p] = Nobody => p \notin pending /\ (Untraded(p) \/ Closed(p))
  /\ \A u \in Users : p \in members[u] =>
       u = UserOf(p) /\ (owner[p] # Nobody \/ Awaited(p))

Off(p) == owner[p] = Nobody /\ \A u \in Users : p \notin members[u]

Enrolled(p) == owner[p] # Nobody /\ p \notin pending

\* What a record that is done has left.
Finished(e) ==
  IF e.type = "CREATED" THEN e \in counted /\ (Closed(e.pf) \/ Enrolled(e.pf))
                        ELSE Off(e.pf) /\ InTurn(e)

\* The mappings, the records that are done and those that are counted agree.
Registers ==
  /\ \A p \in Portfolios : MappingOf(p)
  /\ \A e \in done : Finished(e)
  /\ \A e \in counted, f \in Events : Before(f, e) => f \in counted

SnapOf(u) == [pv |-> usr[u].pv, cv |-> usr[u].cvp, n |-> usr[u].count]

\* How far w has come with its trade t.
Serving(w, t) ==
  /\ pc[w] \notin {"idle", "check", "map", "enroll"} => owner[t.pf] # Nobody
  /\ pc[w] = "enroll" => owner[t.pf] = Nobody
  /\ pc[w] = "usrsave" => snap[w] = SnapOf(t.user)

\* What the totals of p, new or gone, change its user's by.
Change(p, sign, n) == [pv |-> sign * purchaseds[p], cv |-> sign * currents[p], n |-> n]

\* How far k has come with its record e.
Entering(k, e) ==
  LET p == e.pf
      mapped == owner[p] # Nobody
      now == change[k]
  IN  /\ e \notin done /\ InTurn(e)
      /\ step[k] \in {"count", "add", "clear", "map"} => e.type = "CREATED"
      /\ step[k] \in {"subtract", "unmap", "delete", "stocks", "wipe"} => e.type = "DELETED"
      /\ step[k] \in {"pending", "count", "clear", "subtract"} => mapped
      /\ step[k] = "totals" => (mapped <=> e.type = "DELETED")
      /\ step[k] = "add" => ~mapped /\ now = Change(p, 1, 1)
      /\ step[k] = "count" => p \in pending /\ now = Change(p, 0, 1)
      /\ step[k] = "pending" /\ e.type = "DELETED" => now = Change(p, -1, 0)
      /\ step[k] = "subtract" => now = Change(p, -1, IF p \in pending THEN 0 ELSE -1)
      /\ step[k] \in {"clear", "map"} => e \in counted
      /\ step[k] = "map" => p \notin pending
      /\ step[k] = "unmap" => e \in counted \/ ~mapped
      /\ step[k] \in {"delete", "stocks", "wipe"} => Off(p)
      /\ step[k] \in {"usrread", "usrsave"} =>
           IF e.type = "CREATED" THEN e \in counted /\ Enrolled(p) ELSE Off(p)
      /\ step[k] = "usrsave" => now = SnapOf(e.user)

\* What a fan-out is about to write back of a user.
Right(a) == a.pv = usr[a.user].pv /\ a.n = usr[a.user].count

HasRead(x) ==
  /\ x.at = "total" => \A a \in x.plan : Right(a)
  /\ x.at = "users" => \A a \in x.todo : Right(a)

AllServing == \A w \in Workers : pc[w] # "idle" => Serving(w, trade[w])

AllEntering == \A k \in Keepers : event[k] # NoEvent => Entering(k, event[k])

AllRead == \A r \in Pricers : work[r] # Idle => HasRead(work[r])

\* The invariant, while nothing is handled at the same time.
Accounts ==
  /\ ~TooLate /\ Registers
  /\ AllServing /\ AllEntering /\ AllRead
  /\ \A u \in Users : Account(u)

AccountInv == Orderly /\ torn = {} => Accounts

----------------------------------------------------------------------------
(* What is so of the totals alone *)

\* What two of the parts above depend on.
books == <<owner, pending, members, usr, inPf, inUsr, returned, turned, eventVars, purchaseds,
           currents>>

Booked == Registers /\ \A u \in Users : Account(u)

\* A record is of its portfolio's user, and there is one event of a type.
LEMMA OneUser ==
  ASSUME OneUserEach
  PROVE  /\ \A t \in Trades : t.user = UserOf(t.pf) /\ t.pf \in Portfolios /\ t.user \in Users
         /\ \A e \in Events : e.user = UserOf(e.pf) /\ e.pf \in Portfolios /\ e.user \in Users
         /\ \A e, f \in Events : e.pf = f.pf /\ e.type = f.type => e = f
         /\ \A p \in Portfolios : UserOf(p) \in Users
<1>1. \A p \in Portfolios : UserOf(p) \in Users /\ Names(p, UserOf(p))
  BY DEF OneUserEach, UserOf
<1>2. /\ \A t \in Trades : t.user = UserOf(t.pf) /\ t.pf \in Portfolios /\ t.user \in Users
      /\ \A e \in Events : e.user = UserOf(e.pf) /\ e.pf \in Portfolios /\ e.user \in Users
  BY <1>1, TradeParts, EventsAssumption DEF Names
<1>3. ASSUME NEW e \in Events, NEW f \in Events, e.pf = f.pf, e.type = f.type PROVE e = f
  <2>1. e.user = f.user
    BY <1>3, EventsAssumption
  <2>2. /\ e = [type |-> e.type, pf |-> e.pf, user |-> e.user]
        /\ f = [type |-> f.type, pf |-> f.pf, user |-> f.user]
    BY EventsAssumption
  <2> QED
    BY <1>3, <2>1, <2>2
<1> QED
  BY <1>1, <1>2, <1>3

\* What has a type in the totals.
LEMMA TotalsTyped ==
  ASSUME TypeInv
  PROVE  /\ \A p \in Portfolios : purchaseds[p] \in Int /\ currents[p] \in Int
         /\ \A u \in Users : /\ usr[u].pv \in Int /\ usr[u].cvp \in Int /\ usr[u].cv \in Int
                            /\ usr[u].count \in Int
                            /\ usr[u] = [pv |-> usr[u].pv, cvp |-> usr[u].cvp,
                                         cv |-> usr[u].cv, count |-> usr[u].count]
         /\ counted \subseteq Events /\ done \subseteq Events
BY DEF purchaseds, currents, TypeInv, UserInv, UserTypeOK, TypeOK

\* The totals change with what they depend on.
LEMMA SameBooks ==
  ASSUME UNCHANGED books, \A u \in Users : Touched(u) => Touched(u)', Booked
  PROVE  Booked'
<1> USE DEF books, eventVars
<1>1. inHolding' = inHolding
  BY DEF inHolding
<1>2. \A p : (Opened(p)' <=> Opened(p)) /\ (Closed(p)' <=> Closed(p))
  BY DEF Opened, Closed
<1>3. Registers'
  BY <1>1, <1>2 DEF Booked, Registers, MappingOf, Awaited, Untraded, Finished, Off, Enrolled, InTurn
<1>4. \A u : Accounted(u)' = Accounted(u) /\ Created(u)' = Created(u) /\ Owed(u)' = Owed(u)
  BY <1>2 DEF Accounted, Created, Owed
<1>5. ASSUME NEW u \in Users PROVE Account(u)'
  <2>1. Account(u) /\ (Unsaved(u) => Unsaved(u)')
    BY DEF Booked, Unsaved
  <2> QED
    BY <1>4, <2>1 DEF Account
<1> QED
  BY <1>3, <1>5 DEF Booked

----------------------------------------------------------------------------
(* What a trade leaves of the totals *)

\* No fan-out is at work, or was cut short.
NoFan == cut = {} /\ \A r \in Pricers : work[r] = Idle

\* w alone is at work, at t, whose portfolio's deletion is not done.
OnlyTrade(w, t) ==
  /\ w \in Workers /\ t \in Trades /\ t = trade[w] /\ pc[w] # "idle"
  /\ \A v \in Workers \ {w} : pc[v] = "idle"
  /\ \A k \in Keepers : event[k] = NoEvent
  /\ NoFan /\ NoFan' /\ counted \subseteq done /\ UNCHANGED eventVars
  /\ \A e \in done : e.type = "DELETED" => e.pf # t.pf

\* Without one, no user is touched.
LEMMA Untouched == ASSUME NoFan, NEW u PROVE ~Touched(u)
BY DEF NoFan, Touched

\* Most calls of a trade leave the totals, and where they are kept.
LEMMA CallQuiet ==
  ASSUME TypeInv, Snapped, NEW w \in Workers,
         \/ Check(w) \/ ReadQuantity(w) \/ CasApplied(w) \/ CasConflict(w) \/ SyncIndex(w)
         \/ ReadLegacy(w) \/ Project(w) \/ MarkProcessed(w) \/ SavePortfolio(w)
         \/ CallFails(w) \/ Crash(w)
         \/ \E lost \in SUBSET Fields : ReadPortfolio(w, lost) \/ ReadUser(w, lost)
  PROVE  UNCHANGED <<owner, pending, members, usr, inPf, inUsr, returned, turned, purchaseds,
                     currents>>
<1> USE DEF holdingVars, hashVars, mapVars
<1>1. CASE SavePortfolio(w)
  <2>1. trade[w].pf \in Portfolios /\ snap[w].pv = purchaseds[trade[w].pf]
    BY <1>1, TradeParts DEF SavePortfolio, Snapped, TypeInv, UserInv, UserTypeOK, TypeOK
  <2>2. ASSUME NEW p \in Portfolios PROVE pf'[p].pv = pf[p].pv /\ pf'[p].cvp = pf[p].cvp
    BY <1>1, <2>1 DEF SavePortfolio, purchaseds, TypeInv, UserInv, UserTypeOK, TypeOK
  <2>3. purchaseds' = purchaseds /\ currents' = currents
    BY <2>2 DEF purchaseds, currents
  <2> QED
    BY <1>1, <2>3 DEF SavePortfolio
<1>2. CASE Check(w) \/ ReadQuantity(w) \/ CasApplied(w) \/ CasConflict(w)
  BY <1>2 DEF Check, ReadQuantity, CasApplied, CasConflict, purchaseds, currents
<1>3. CASE SyncIndex(w) \/ ReadLegacy(w) \/ Project(w) \/ MarkProcessed(w)
  BY <1>3 DEF SyncIndex, ReadLegacy, Project, MarkProcessed, purchaseds, currents
<1>4. CASE CallFails(w) \/ Crash(w)
  BY <1>4 DEF CallFails, Crash, purchaseds, currents
<1>5. CASE \E lost \in SUBSET Fields : ReadPortfolio(w, lost) \/ ReadUser(w, lost)
  BY <1>5 DEF ReadPortfolio, ReadUser, purchaseds, currents
<1> QED
  BY <1>1, <1>2, <1>3, <1>4, <1>5

\* The mapping of a new portfolio has nothing to add up.
LEMMA CallMaps ==
  ASSUME OneUserEach, TypeInv, TypeInv', Booked, NEW w, NEW t, OnlyTrade(w, t), t \notin returned,
         MapUser(w) \/ MapHalf(w), owner[t.pf] = Nobody, torn = {}, torn' = {}, ValuationNext
  PROVE  Booked'
<1> DEFINE p == t.pf
           v == t.user
<1>1. /\ p \in Portfolios /\ v \in Users /\ v = UserOf(p) /\ v # Nobody
      /\ t = trade[w] /\ t \in Trades /\ ~Closed(p)
  BY OneUser, NamesAssumption DEF OnlyTrade, Closed
<1>2. /\ UNCHANGED <<usr, inPf, inUsr, returned, turned, counted, done, purchaseds, currents>>
      /\ inHolding' = inHolding /\ \A u \in Users : ~Touched(u) /\ ~Touched(u)'
  BY Untouched DEF OnlyTrade, NoFan, Touched, MapUser, MapHalf, eventVars, holdingVars, hashVars, purchaseds,
     currents, inHolding
<1>3. \/ UNCHANGED mapVars
      \/ /\ owner[p] = Nobody
         /\ \/ UNCHANGED <<owner, pending>>
            \/ /\ owner' = [owner EXCEPT ![p] = v] /\ pending' = pending \cup {p}
               /\ p \in members'[v]
         /\ members' = members \/ members' = [members EXCEPT ![v] = members[v] \cup {p}]
  <2>1. \/ UNCHANGED mapVars
        \/ /\ owner[p] = Nobody
           /\ \/ UNCHANGED <<owner, pending>>
              \/ owner' = [owner EXCEPT ![p] = v] /\ pending' = pending \cup {p}
           /\ members' = members \/ members' = [members EXCEPT ![v] = members[v] \cup {p}]
    BY <1>1 DEF MapUser, MapHalf, mapVars
  <2>2. owner[p] = Nobody /\ owner'[p] = v => p \in members'[v]
    BY <1>1 DEF ValuationNext
  <2>3. owner' = [owner EXCEPT ![p] = v] => owner'[p] = v
    BY <1>1 DEF TypeInv, UserInv, UserTypeOK, TypeOK
  <2> QED
    BY <2>1, <2>2, <2>3
<1>4. CASE UNCHANGED mapVars
  BY <1>2, <1>4, SameBooks DEF books, mapVars, eventVars
<1>5. CASE ~UNCHANGED mapVars
  <2>0. owner[p] = Nobody
    BY <1>3, <1>5
  <2>1. \A q : (Opened(q)' <=> Opened(q)) /\ (Closed(q)' <=> Closed(q))
    BY <1>2 DEF Opened, Closed
  <2>2. MappingOf(p) /\ Untraded(p) /\ p \notin pending /\ ~Opened(p)
    <3>1. MappingOf(p) /\ \A e \in done : Finished(e)
      BY <1>1 DEF Booked, Registers
    <3>2. Untraded(p) /\ p \notin pending
      BY <1>1, <2>0, <3>1 DEF MappingOf
    <3>3. ASSUME NEW e \in counted, e.type = "CREATED", e.pf = p PROVE FALSE
      BY <1>1, <2>0, <3>1, <3>3 DEF Finished, Enrolled, OnlyTrade
    <3> QED
      BY <3>1, <3>2, <3>3 DEF Opened
  <2>3. ASSUME NEW q \in Portfolios, q # p
        PROVE  /\ owner'[q] = owner[q] /\ (q \in pending' <=> q \in pending)
               /\ \A u \in Users : q \in members'[u] <=> q \in members[u]
    <3>1. /\ owner' \in {owner, [owner EXCEPT ![p] = v]}
          /\ pending' \in {pending, pending \cup {p}}
          /\ members' \in {members, [members EXCEPT ![v] = members[v] \cup {p}]}
      BY <1>3, <1>5
    <3>2. owner'[q] = owner[q]
      BY <1>1, <2>3, <3>1 DEF TypeInv, UserInv, UserTypeOK, TypeOK
    <3>3. q \in pending' <=> q \in pending
      BY <2>3, <3>1
    <3>4. \A u \in Users : q \in members'[u] <=> q \in members[u]
      <4>1. members \in [Users -> SUBSET Portfolios]
        BY DEF TypeInv, UserInv, UserTypeOK, TypeOK
      <4>2. ASSUME NEW u \in Users, members' = [members EXCEPT ![v] = members[v] \cup {p}]
            PROVE  members'[u] = members[u] \cup IF u = v THEN {p} ELSE {}
        BY <4>1, <4>2
      <4> QED
        BY <2>3, <3>1, <4>2
    <3> QED
      BY <3>2, <3>3, <3>4
  <2>4. /\ \A u \in Users : p \in members'[u] => p \in members[u] \/ u = v
        /\ \/ owner'[p] = Nobody /\ p \notin pending'
           \/ owner'[p] = v /\ p \in pending' /\ p \in members'[v]
    BY <1>1, <1>3, <2>0, <2>2 DEF mapVars, TypeInv, UserInv, UserTypeOK, TypeOK
  <2>5. Registers'
    <3>1. ASSUME NEW q \in Portfolios, q # p PROVE MappingOf(q)'
      <4>1. MappingOf(q)
        BY DEF Booked, Registers
      <4>2. Untraded(q)' <=> Untraded(q)
        BY <1>2 DEF Untraded
      <4>3. Awaited(q)' <=> Awaited(q)
        BY <1>2 DEF Awaited
      <4> QED
        BY <2>1, <2>3, <3>1, <4>1, <4>2, <4>3, OneUser DEF MappingOf
    <3>2. MappingOf(p)'
      <4>1. Untraded(p)'
        BY <1>2, <2>2 DEF Untraded
      <4>2. Awaited(p)'
        BY <1>1, <1>2 DEF Awaited
      <4>3. \A u \in Users : p \in members'[u] => u = v
        BY <1>1, <2>2, <2>4 DEF MappingOf
      <4>4. owner'[p] # Nobody => p \in members'[UserOf(p)] /\ p \in pending'
        BY <1>1, <2>4
      <4>5. owner'[p] \in {UserOf(p), Nobody} /\ (owner'[p] = Nobody => p \notin pending')
        BY <1>1, <2>4
      <4> QED
        BY <1>1, <4>1, <4>2, <4>3, <4>4, <4>5 DEF MappingOf
    <3>3. ASSUME NEW e \in done' PROVE Finished(e)'
      <4>1. e \in done /\ Finished(e) /\ e \in Events /\ (InTurn(e)' <=> InTurn(e))
        BY <1>2, TotalsTyped DEF Booked, Registers, InTurn
      <4>2. e.pf \in Portfolios
        BY <4>1, OneUser
      <4>3. e.pf # p
        BY <1>1, <2>2, <4>1, EventsAssumption DEF Finished, Opened, OnlyTrade
      <4> QED
        BY <1>2, <2>1, <2>3, <4>1, <4>2, <4>3 DEF Finished, Off, Enrolled
    <3>4. \A e \in counted', f \in Events : Before(f, e) => f \in counted'
      BY <1>2 DEF Booked, Registers
    <3> QED
      BY <3>1, <3>2, <3>3, <3>4 DEF Registers
  <2>6. ASSUME NEW u \in Users PROVE Account(u)'
    <3>1. Account(u) /\ Created(u)' = Created(u) /\ Owed(u)' = Owed(u) /\ (Unsaved(u)' <=> Unsaved(u))
      BY <1>2, <2>1 DEF Booked, Created, Owed, Unsaved
    <3>2. CASE owner'[p] = Nobody \/ u # v
      <4>1. Accounted(u)' = Accounted(u)
        BY <1>1, <2>0, <2>1, <2>3, <3>2 DEF Accounted
      <4> QED
        BY <1>2, <3>1, <4>1 DEF Account
    <3>3. CASE owner'[p] # Nobody /\ u = v
      <4> DEFINE S == Accounted(u)
      <4>1. Accounted(u)' = S \cup {p} /\ p \notin S
        BY <1>1, <2>0, <2>1, <2>2, <2>3, <3>3 DEF Accounted
      <4>2. IsFiniteSet(S) /\ IsFiniteSet(S \cup {p})
        BY <3>1, FS_AddElement DEF Account
      <4>3. \A q \in S \cup {p} : purchaseds[q] \in Int /\ currents[q] \in Int
        BY <1>1, TotalsTyped DEF Accounted
      <4>4. purchaseds[p] = 0 /\ currents[p] = 0
        BY <2>2 DEF Untraded
      <4> HIDE DEF S
      <4>5. SumFunctionOnSet(purchaseds, S \cup {p}) = SumFunctionOnSet(purchaseds, S) + 0
        BY <4>1, <4>2, <4>3, <4>4, SumAdd
      <4>6. SumFunctionOnSet(currents, S \cup {p}) = SumFunctionOnSet(currents, S) + 0
        BY <4>1, <4>2, <4>3, <4>4, SumAdd
      <4>7. SumFunctionOnSet(purchaseds, S) \in Int /\ SumFunctionOnSet(currents, S) \in Int
        BY <4>2, <4>3, SumType
      <4> QED
        BY <1>2, <3>1, <4>1, <4>2, <4>5, <4>6, <4>7 DEF Account, S
    <3> QED
      BY <3>2, <3>3
  <2> QED
    BY <2>5, <2>6 DEF Booked
<1> QED
  BY <1>4, <1>5

\* The portfolio of a trade that is past its mapping is in its user's totals.
LEMMA ServedMapped ==
  ASSUME OneUserEach, TypeInv, Booked, NEW w, NEW t, OnlyTrade(w, t), Serving(w, t)
  PROVE  /\ t.pf \in Portfolios /\ t.user \in Users /\ t.user = UserOf(t.pf)
         /\ pc[w] \notin {"check", "map", "enroll"} =>
              owner[t.pf] # Nobody /\ t.pf \in Accounted(t.user)
BY OneUser DEF OnlyTrade, Serving, Accounted, Closed

\* The quantity counts a trade, of a portfolio that is mapped.
LEMMA CallCas ==
  ASSUME OneUserEach, TypeInv, Booked, NEW w, NEW t, OnlyTrade(w, t), Serving(w, t), CasOk(w)
  PROVE  Booked'
<1>1. /\ UNCHANGED <<owner, pending, members, usr, inPf, inUsr, returned, counted, done,
                     purchaseds, currents>>
      /\ \A u \in Trades : u # t => turned'[u] = turned[u]
      /\ pc[w] = "cas" /\ t \in Trades
  BY DEF CasOk, OnlyTrade, eventVars, hashVars, mapVars, purchaseds, currents, TypeInv, UserInv,
     UserTypeOK, TypeOK
<1>2. owner[t.pf] # Nobody
  BY <1>1, ServedMapped
<1>3. /\ \A u \in Users : ~Touched(u) /\ ~Touched(u)'
      /\ \A q : (Opened(q)' <=> Opened(q)) /\ (Closed(q)' <=> Closed(q))
  BY <1>1, Untouched DEF OnlyTrade, NoFan, Touched, Opened, Closed
<1>4. Registers'
  <2>1. ASSUME NEW p \in Portfolios PROVE MappingOf(p)'
    <3>1. MappingOf(p) /\ UserOf(p) \in Users
      BY OneUser DEF Booked, Registers
    <3>2. Awaited(p)' <=> Awaited(p)
      BY <1>1 DEF Awaited
    <3>3. owner[p] = Nobody /\ Untraded(p) => Untraded(p)'
      BY <1>1, <1>2 DEF Untraded, inHolding
    <3> QED
      BY <1>1, <1>3, <3>1, <3>2, <3>3 DEF MappingOf
  <2>2. \A e \in done' : Finished(e)'
    BY <1>1, <1>3 DEF Booked, Registers, Finished, Off, Enrolled, InTurn
  <2> QED
    BY <1>1, <2>1, <2>2 DEF Booked, Registers
<1>5. ASSUME NEW u \in Users PROVE Account(u)'
  <2>1. /\ Account(u) /\ Accounted(u)' = Accounted(u) /\ Created(u)' = Created(u)
        /\ Owed(u)' = Owed(u)
    BY <1>1, <1>3 DEF Booked, Accounted, Created, Owed
  <2>2. Unsaved(u)' <=> Unsaved(u)
    BY <1>1, <1>3 DEF Unsaved
  <2> QED
    BY <1>1, <1>3, <2>1, <2>2 DEF Account
<1> QED
  BY <1>4, <1>5 DEF Booked

\* What is owed to a user adds up.
LEMMA OwedType ==
  ASSUME TypeInv, IsFiniteSet(inPf), NEW u
  PROVE  IsFiniteSet({t \in inPf \ inUsr : t.user = u}) /\ Owed(u) \in Int
<1> DEFINE S == {t \in inPf \ inUsr : t.user = u}
<1>1. IsFiniteSet(S)
  BY FS_Subset
<1>2. S \subseteq Trades
  BY DEF TypeInv, UserInv, UserTypeOK, TypeOK
<1>3. \A t \in S : [x \in Trades |-> Amount(x)][t] \in Int
  BY <1>2, AmountType
<1> HIDE DEF S
<1>4. Owed(u) \in Int
  BY <1>1, <1>3, SumType DEF Owed, Sum, S
<1> QED
  BY <1>1, <1>4 DEF S

\* A trade more is owed to its user, and to nobody else.
LEMMA OwedMore ==
  ASSUME TypeInv, IsFiniteSet(inPf), NEW t \in Trades, t \notin inUsr, NEW u,
         UNCHANGED inUsr, inPf' = inPf \cup {t}, t \notin inPf
  PROVE  Owed(u)' = IF u = t.user THEN Owed(u) + Amount(t) ELSE Owed(u)
<1> DEFINE S == {x \in inPf \ inUsr : x.user = u}
           f == [x \in Trades |-> Amount(x)]
<1>1. {x \in inPf' \ inUsr' : x.user = u} = IF u = t.user THEN S \cup {t} ELSE S
  OBVIOUS
<1>2. IsFiniteSet(S) /\ t \notin S
  BY OwedType
<1>3. \A x \in S \cup {t} : f[x] \in Int
  <2>1. S \subseteq Trades
    BY DEF TypeInv, UserInv, UserTypeOK, TypeOK
  <2> QED
    BY <2>1, AmountType
<1>4. f[t] = Amount(t)
  OBVIOUS
<1> HIDE DEF S, f
<1>5. SumFunctionOnSet(f, S \cup {t}) = SumFunctionOnSet(f, S) + f[t]
  BY <1>2, <1>3, SumAdd
<1> QED
  BY <1>1, <1>4, <1>5 DEF Owed, Sum, S, f

\* A trade less is.
LEMMA OwedLess ==
  ASSUME TypeInv, IsFiniteSet(inPf), NEW t \in Trades, t \in inPf, NEW u,
         UNCHANGED inPf, inUsr' = inUsr \cup {t}, t \notin inUsr
  PROVE  Owed(u)' = IF u = t.user THEN Owed(u) - Amount(t) ELSE Owed(u)
<1> DEFINE S == {x \in inPf \ inUsr : x.user = u}
           f == [x \in Trades |-> Amount(x)]
<1>1. {x \in inPf' \ inUsr' : x.user = u} = IF u = t.user THEN S \ {t} ELSE S
  OBVIOUS
<1>2. IsFiniteSet(S) /\ (u = t.user => t \in S)
  BY OwedType
<1>3. \A x \in S : f[x] \in Int
  <2>1. S \subseteq Trades
    BY DEF TypeInv, UserInv, UserTypeOK, TypeOK
  <2> QED
    BY <2>1, AmountType
<1>4. f[t] = Amount(t) /\ Amount(t) \in Int
  BY AmountType
<1> HIDE DEF S, f
<1>5. u = t.user => SumFunctionOnSet(f, S) = f[t] + SumFunctionOnSet(f, S \ {t})
  BY <1>2, <1>3, SumRemove
<1>6. SumFunctionOnSet(f, S \ {t}) \in Int
  <2>1. IsFiniteSet(S \ {t})
    BY <1>2, FS_Subset
  <2> QED
    BY <1>3, <2>1, SumType
<1>7. Owed(u) = SumFunctionOnSet(f, S)
  BY DEF Owed, Sum, S, f
<1>8. Owed(u)' = SumFunctionOnSet(f, IF u = t.user THEN S \ {t} ELSE S)
  BY <1>1 DEF Owed, Sum, f
<1> QED
  BY <1>4, <1>5, <1>6, <1>7, <1>8

\* The registers depend on the totals of what is not mapped only.
LEMMA SameRegisters ==
  ASSUME OneUserEach, Booked,
         UNCHANGED <<owner, pending, members, returned, turned, counted, done>>,
         \A p \in Portfolios :
           owner[p] = Nobody /\ ~Closed(p) => purchaseds'[p] = purchaseds[p] /\ currents'[p] = currents[p]
  PROVE  /\ Registers'
         /\ \A u : Accounted(u)' = Accounted(u) /\ Created(u)' = Created(u)
<1>1. \A q : (Opened(q)' <=> Opened(q)) /\ (Closed(q)' <=> Closed(q))
  BY DEF Opened, Closed
<1>2. ASSUME NEW p \in Portfolios PROVE MappingOf(p)'
  <2>1. MappingOf(p) /\ UserOf(p) \in Users
    BY OneUser DEF Booked, Registers
  <2>2. Awaited(p)' <=> Awaited(p)
    BY DEF Awaited
  <2>3. owner[p] = Nobody /\ ~Closed(p) /\ Untraded(p) => Untraded(p)'
    BY DEF Untraded, inHolding
  <2> QED
    BY <1>1, <2>1, <2>2, <2>3 DEF MappingOf
<1>3. \A e \in done' : Finished(e)'
  BY <1>1 DEF Booked, Registers, Finished, Off, Enrolled, InTurn
<1> QED
  BY <1>1, <1>2, <1>3 DEF Booked, Registers, Accounted, Created

\* A portfolio's value changes its user's sum by as much, and nobody else's.
LEMMA AccountAdds ==
  ASSUME OneUserEach, NEW f, NEW g, NEW p \in Portfolios, NEW a,
         \A q \in Portfolios : f[q] \in Int /\ g[q] \in Int,
         \A q \in Portfolios : g[q] = IF q = p THEN f[q] + a ELSE f[q],
         a \in Int, NEW u \in Users, IsFiniteSet(Accounted(u))
  PROVE  /\ SumFunctionOnSet(f, Accounted(u)) \in Int
         /\ SumFunctionOnSet(g, Accounted(u)) =
              IF p \in Accounted(u) THEN SumFunctionOnSet(f, Accounted(u)) + a
                                    ELSE SumFunctionOnSet(f, Accounted(u))
<1> DEFINE S == Accounted(u)
<1>1. S \subseteq Portfolios
  BY DEF Accounted
<1>2. IsFiniteSet(S)
  OBVIOUS
<1> HIDE DEF S
<1>3. SumFunctionOnSet(f, S) \in Int
  BY <1>1, <1>2, SumType
<1>4. CASE p \in S
  <2>1. SumFunctionOnSet(g, S) = SumFunctionOnSet(f, S) + (g[p] - f[p])
    BY <1>1, <1>2, <1>4, SumChange
  <2>2. g[p] - f[p] = a
    OBVIOUS
  <2> QED
    BY <1>3, <1>4, <2>1, <2>2 DEF S
<1>5. CASE p \notin S
  <2>1. SumFunctionOnSet(f, S) = SumFunctionOnSet(g, S)
    BY <1>1, <1>2, <1>5, SumAgrees
  <2> QED
    BY <1>3, <1>5, <2>1 DEF S
<1> QED
  BY <1>4, <1>5

\* The portfolio's totals count a trade: its user is owed it.
LEMMA CallTotals ==
  ASSUME OneUserEach, TypeInv, TypeInv', Booked, IsFiniteSet(inPf), NEW w, NEW t, OnlyTrade(w, t),
         Serving(w, t), ApplyTotals(w)
  PROVE  Booked'
<1>1. /\ t \in Trades /\ t = trade[w] /\ pc[w] = "totals" /\ Amount(t) \in Int
      /\ UNCHANGED <<owner, pending, members, usr, inUsr, returned, turned, counted, done>>
  BY AmountType DEF ApplyTotals, OnlyTrade, eventVars, mapVars
<1>2. t.pf \in Portfolios /\ owner[t.pf] # Nobody /\ t.pf \in Accounted(t.user)
  BY <1>1, ServedMapped
<1>3. \A u \in Users : ~Touched(u) /\ ~Touched(u)'
  BY Untouched DEF OnlyTrade, NoFan, Touched
<1>4. CASE t \in inPf
  <2>1. UNCHANGED <<inPf, purchaseds, currents>>
    BY <1>1, <1>4 DEF ApplyTotals, purchaseds, currents
  <2> QED
    BY <1>1, <1>3, <2>1, SameBooks DEF books, eventVars
<1>5. CASE t \notin inPf
  <2>1. /\ inPf' = inPf \cup {t} /\ t \notin inUsr
        /\ pf' = [pf EXCEPT ![t.pf] = PlusTrade(pf[t.pf], Amount(t), AssetChange(t, turn[w]))]
    BY <1>1, <1>5 DEF ApplyTotals, TypeInv, UserInv, MarkerInv, MarkersInOrder
  <2>2. ASSUME NEW q \in Portfolios
        PROVE  /\ purchaseds'[q] = IF q = t.pf THEN purchaseds[q] + Amount(t) ELSE purchaseds[q]
               /\ currents'[q] = IF q = t.pf THEN currents[q] + Amount(t) ELSE currents[q]
    <3>1. pf[q] \in PortfolioHash /\ DOMAIN pf = Portfolios
      BY DEF TypeInv, UserInv, UserTypeOK, TypeOK, PortfolioHash
    <3>2. CASE q = t.pf
      <4> DEFINE after == PlusTrade(pf[q], Amount(t), AssetChange(t, turn[w]))
      <4>1. after.pv = pf[q].pv + Amount(t) /\ after.cvp = pf[q].cvp + Amount(t)
        BY <3>1 DEF PlusTrade, PortfolioHash
      <4> HIDE DEF after
      <4>2. pf'[q].pv = pf[q].pv + Amount(t) /\ pf'[q].cvp = pf[q].cvp + Amount(t)
        BY <1>2, <2>1, <3>1, <3>2, <4>1 DEF after
      <4> QED
        BY <3>2, <4>2 DEF purchaseds, currents
    <3>3. CASE q # t.pf
      <4>1. pf'[q] = pf[q]
        BY <2>1, <3>1, <3>3
      <4> QED
        BY <3>3, <4>1 DEF purchaseds, currents
    <3> QED
      BY <3>2, <3>3
  <2>3. Registers' /\ \A u : Accounted(u)' = Accounted(u) /\ Created(u)' = Created(u)
    BY <1>1, <1>2, <2>2, SameRegisters
  <2>4. ASSUME NEW u \in Users PROVE Account(u)'
    <3>1. Account(u) /\ (Unsaved(u)' <=> Unsaved(u))
      BY <1>1, <1>3 DEF Booked, Unsaved
    <3>2. Owed(u) \in Int /\ Owed(u)' = IF u = t.user THEN Owed(u) + Amount(t) ELSE Owed(u)
      BY <1>1, <1>5, <2>1, OwedType, OwedMore
    <3>3. t.pf \in Accounted(u) <=> u = t.user
      BY <1>2, ServedMapped DEF Accounted
    <3>4. PICK f, g, h, i : f = purchaseds /\ g = purchaseds' /\ h = currents /\ i = currents'
      OBVIOUS
    <3>5. \A q \in Portfolios : f[q] \in Int /\ g[q] \in Int /\ h[q] \in Int /\ i[q] \in Int
      <4>1. \A q \in Portfolios : g[q] = pf'[q].pv /\ i[q] = pf'[q].cvp
        BY <3>4 DEF purchaseds, currents
      <4>2. \A q \in Portfolios : pf'[q].pv \in Int /\ pf'[q].cvp \in Int
        BY DEF TypeInv, UserInv, UserTypeOK, TypeOK
      <4> QED
        BY <3>4, <4>1, <4>2, TotalsTyped
    <3>6. /\ SumFunctionOnSet(f, Accounted(u)) \in Int
          /\ SumFunctionOnSet(g, Accounted(u)) =
               IF u = t.user THEN SumFunctionOnSet(f, Accounted(u)) + Amount(t)
                             ELSE SumFunctionOnSet(f, Accounted(u))
      <4>1. \A q \in Portfolios : g[q] = IF q = t.pf THEN f[q] + Amount(t) ELSE f[q]
        BY <2>2, <3>4
      <4>2. IsFiniteSet(Accounted(u)) /\ Amount(t) \in Int /\ t.pf \in Portfolios
        BY <1>1, <1>2, <3>1 DEF Account
      <4>3. \A q \in Portfolios : f[q] \in Int /\ g[q] \in Int
        BY <3>5
      <4> QED
        BY <3>3, <4>1, <4>2, <4>3, AccountAdds
    <3>7. /\ SumFunctionOnSet(h, Accounted(u)) \in Int
          /\ SumFunctionOnSet(i, Accounted(u)) =
               IF u = t.user THEN SumFunctionOnSet(h, Accounted(u)) + Amount(t)
                             ELSE SumFunctionOnSet(h, Accounted(u))
      <4>1. \A q \in Portfolios : i[q] = IF q = t.pf THEN h[q] + Amount(t) ELSE h[q]
        BY <2>2, <3>4
      <4>2. IsFiniteSet(Accounted(u)) /\ Amount(t) \in Int /\ t.pf \in Portfolios
        BY <1>1, <1>2, <3>1 DEF Account
      <4>3. \A q \in Portfolios : h[q] \in Int /\ i[q] \in Int
        BY <3>5
      <4> QED
        BY <3>3, <4>1, <4>2, <4>3, AccountAdds
    <3>8. usr[u].pv \in Int /\ usr[u].cvp \in Int
      BY TotalsTyped
    <3>9. /\ usr[u].pv + Owed(u)' = SumFunctionOnSet(g, Accounted(u))
          /\ usr[u].cvp + Owed(u)' = SumFunctionOnSet(i, Accounted(u))
      <4>1. /\ usr[u].pv + Owed(u) = SumFunctionOnSet(f, Accounted(u))
            /\ usr[u].cvp + Owed(u) = SumFunctionOnSet(h, Accounted(u))
        BY <1>3, <3>1, <3>4 DEF Account
      <4> QED
        BY <1>1, <3>2, <3>6, <3>7, <3>8, <4>1
    <3> QED
      BY <1>1, <2>3, <3>1, <3>4, <3>9 DEF Account
  <2> QED
    BY <2>3, <2>4 DEF Booked
<1> QED
  BY <1>4, <1>5

\* The user's totals do too, and its snapshot is to be saved.
LEMMA CallUser ==
  ASSUME OneUserEach, TypeInv, Booked, IsFiniteSet(inPf), NEW w, NEW t, OnlyTrade(w, t),
         t \notin returned, ApplyUser(w)
  PROVE  Booked'
<1>1. /\ t \in Trades /\ t = trade[w] /\ t \in inPf /\ Amount(t) \in Int /\ t.user \in Users
      /\ UNCHANGED <<owner, pending, members, inPf, returned, turned, counted, done, purchaseds,
                     currents>>
  BY AmountType, OneUser DEF ApplyUser, OnlyTrade, eventVars, mapVars, holdingVars, purchaseds, currents,
     TypeInv, UserInv, MarkerInv, PastMarker
<1>2. \A u \in Users : ~Touched(u) /\ ~Touched(u)'
  BY Untouched DEF OnlyTrade, NoFan, Touched
<1>3. CASE t \in inUsr
  <2>1. UNCHANGED <<usr, inUsr>>
    BY <1>1, <1>3 DEF ApplyUser
  <2> QED
    BY <1>1, <1>2, <2>1, SameBooks DEF books, eventVars
<1>4. CASE t \notin inUsr
  <2>1. /\ inUsr' = inUsr \cup {t}
        /\ usr' = [usr EXCEPT ![t.user] = PlusAmount(usr[t.user], Amount(t))]
    BY <1>1, <1>4 DEF ApplyUser
  <2>2. Registers' /\ \A u : Accounted(u)' = Accounted(u) /\ Created(u)' = Created(u)
    BY <1>1, SameRegisters
  <2>3. ASSUME NEW u \in Users PROVE Account(u)'
    <3>1. Account(u)
      BY DEF Booked
    <3>2. Owed(u) \in Int /\ Owed(u)' = IF u = t.user THEN Owed(u) - Amount(t) ELSE Owed(u)
      BY <1>1, <1>4, <2>1, OwedType, OwedLess
    <3>3. usr[u].pv \in Int /\ usr[u].cvp \in Int
      BY TotalsTyped
    <3>4. /\ usr'[u].pv = IF u = t.user THEN usr[u].pv + Amount(t) ELSE usr[u].pv
          /\ usr'[u].cvp = IF u = t.user THEN usr[u].cvp + Amount(t) ELSE usr[u].cvp
          /\ usr'[u].count = usr[u].count /\ usr'[u].cv = usr[u].cv
      BY <1>1, <2>1 DEF PlusAmount, TypeInv, UserInv, UserTypeOK, TypeOK
    <3>5. usr'[u].pv + Owed(u)' = usr[u].pv + Owed(u) /\ usr'[u].cvp + Owed(u)' = usr[u].cvp + Owed(u)
      BY <1>1, <3>2, <3>3, <3>4
    <3>6. Unsaved(u)' \/ (u # t.user /\ ~Unsaved(u))
      <4>1. CASE u = t.user
        BY <1>1, <2>1, <4>1 DEF Unsaved
      <4>2. CASE u # t.user
        <5>1. Unsaved(u) => \/ \E x \in inUsr \ returned : x.user = u
                           \/ \E e \in counted \ done : e.user = u
          BY <1>2 DEF Unsaved
        <5> QED
          BY <1>1, <2>1, <4>2, <5>1 DEF Unsaved
      <4> QED
        BY <4>1, <4>2
    <3> QED
      BY <1>1, <1>2, <2>2, <3>1, <3>4, <3>5, <3>6 DEF Account
  <2> QED
    BY <2>2, <2>3 DEF Booked
<1> QED
  BY <1>3, <1>4

\* The snapshot, when it is what the hash has, changes its last value only.
LEMMA CallSaves ==
  ASSUME OneUserEach, TypeInv, Booked, NEW w, NEW t, OnlyTrade(w, t), Serving(w, t), SaveUser(w)
  PROVE  Booked'
<1>1. /\ t \in Trades /\ t = trade[w] /\ pc[w] = "usrsave" /\ returned' \subseteq returned \cup {t}
      /\ returned \subseteq returned'
      /\ UNCHANGED <<owner, pending, members, inPf, inUsr, turned, counted, done, purchaseds,
                     currents>>
      /\ usr' = [usr EXCEPT ![t.user] = [usr[t.user] EXCEPT !.pv = snap[w].pv, !.cv = snap[w].cv,
                                                           !.count = snap[w].n]]
  BY DEF SaveUser, OnlyTrade, eventVars, mapVars, holdingVars, purchaseds, currents
<1>2. /\ owner[t.pf] # Nobody /\ t.user \in Users /\ snap[w] = SnapOf(t.user)
  BY <1>1, ServedMapped DEF Serving
<1>3. \A u \in Users : /\ usr'[u].pv = usr[u].pv /\ usr'[u].cvp = usr[u].cvp
                       /\ usr'[u].count = usr[u].count
                       /\ usr'[u].cv = IF u = t.user THEN usr[u].cvp ELSE usr[u].cv
  BY <1>1, <1>2 DEF SnapOf, TypeInv, UserInv, UserTypeOK, TypeOK
<1>4. /\ \A u \in Users : ~Touched(u) /\ ~Touched(u)'
      /\ \A q : (Opened(q)' <=> Opened(q)) /\ (Closed(q)' <=> Closed(q))
  BY <1>1, Untouched DEF OnlyTrade, NoFan, Touched, Opened, Closed
<1>5. Registers'
  <2>1. ASSUME NEW p \in Portfolios PROVE MappingOf(p)'
    <3>1. MappingOf(p) /\ UserOf(p) \in Users
      BY OneUser DEF Booked, Registers
    <3>2. Awaited(p) => Awaited(p)' \/ p = t.pf
      BY <1>1 DEF Awaited
    <3>3. Untraded(p)' <=> Untraded(p)
      BY <1>1 DEF Untraded, inHolding
    <3> QED
      BY <1>1, <1>2, <1>4, <3>1, <3>2, <3>3 DEF MappingOf
  <2>2. \A e \in done' : Finished(e)'
    BY <1>1, <1>4 DEF Booked, Registers, Finished, Off, Enrolled, InTurn
  <2> QED
    BY <1>1, <2>1, <2>2 DEF Booked, Registers
<1>6. ASSUME NEW u \in Users PROVE Account(u)'
  <2>1. /\ Account(u) /\ Accounted(u)' = Accounted(u) /\ Created(u)' = Created(u)
        /\ Owed(u)' = Owed(u)
    BY <1>1, <1>4 DEF Booked, Accounted, Created, Owed
  <2>2. u # t.user /\ Unsaved(u) => Unsaved(u)'
    BY <1>1, <1>4 DEF Unsaved
  <2> QED
    BY <1>1, <1>3, <1>4, <2>1, <2>2 DEF Account
<1> QED
  BY <1>5, <1>6 DEF Booked

\* How far a record has come depends on the totals and on what its keeper knows.
LEMMA SameEntry ==
  ASSUME NEW k, NEW e, Entering(k, e), UNCHANGED books, step'[k] = step[k], change'[k] = change[k]
  PROVE  Entering(k, e)'
<1>1. /\ (InTurn(e)' <=> InTurn(e)) /\ (Off(e.pf)' <=> Off(e.pf))
      /\ (Enrolled(e.pf)' <=> Enrolled(e.pf)) /\ SnapOf(e.user)' = SnapOf(e.user)
      /\ \A sign, n : Change(e.pf, sign, n)' = Change(e.pf, sign, n)
  BY DEF books, eventVars, InTurn, Off, Enrolled, SnapOf, Change
<1> QED
  BY <1>1 DEF books, eventVars, Entering

\* So it is of all records.
LEMMA SameEntering ==
  ASSUME AllEntering, UNCHANGED books, UNCHANGED keeperVars
  PROVE  AllEntering'
BY SameEntry DEF AllEntering, keeperVars

\* A worker comes past the mapping of a portfolio that is mapped, and to the
\* saving of a snapshot with what the hash has.
LEMMA CallServing ==
  ASSUME OneUserEach, TypeInv, Booked, NEW w, NEW t, OnlyTrade(w, t), Serving(w, t), Alone',
         Work(w) \/ Failure(w)
  PROVE  pc'[w] # "idle" => Serving(w, t)'
<1>1. /\ w \in Workers /\ t \in Trades /\ t = trade[w] /\ t.pf \in Portfolios /\ t.user \in Users
  BY ServedMapped DEF OnlyTrade
<1>2. ~Spend("misreads") /\ \A lost \in SUBSET Fields : Misread(lost) => lost = {}
  BY DEF Spend, Misread, Alone, TypeInv, UserInv, UserTypeOK, TypeOK, Bounds
<1> USE DEF Serving, Goto, Continue, mapVars, TypeInv, UserInv, UserTypeOK, TypeOK
<1>3. CASE Check(w)
  <2>1. UNCHANGED <<owner, trade>> /\ pc'[w] = IF t \in processed THEN "pfread" ELSE "map"
    BY <1>1, <1>3 DEF Check
  <2>2. t \in processed => owner[t.pf] # Nobody
    <3>1. t \in processed => t \in inHolding
      BY DEF MarkerInv, MarkersInOrder
    <3>2. MappingOf(t.pf) /\ ~Closed(t.pf)
      BY <1>1 DEF Booked, Registers, OnlyTrade, Closed
    <3> QED
      BY <3>1, <3>2 DEF MappingOf, Untraded
  <2> QED
    BY <2>1, <2>2
<1>4. CASE MapUser(w)
  BY <1>1, <1>4, NamesAssumption DEF MapUser
<1>5. CASE MapHalf(w) \/ SaveUser(w) \/ CallFails(w) \/ Crash(w)
  BY <1>1, <1>5 DEF MapHalf, SaveUser, CallFails, Crash
<1>6. CASE FindUser(w)
  <2>1. /\ pc[w] = "map" /\ UNCHANGED <<owner, trade>>
        /\ pc'[w] = IF owner[t.pf] = Nobody THEN "enroll" ELSE "read"
    BY <1>1, <1>2, <1>6 DEF FindUser
  <2> QED
    BY <1>1, <2>1
<1>7. CASE \E lost \in SUBSET Fields : ReadUser(w, lost)
  <2>1. PICK lost \in SUBSET Fields : ReadUser(w, lost)
    BY <1>7
  <2>2. lost = {}
    BY <1>2, <2>1 DEF ReadUser
  <2>3. /\ pc[w] = "usrread" /\ pc'[w] = "usrsave" /\ UNCHANGED <<owner, usr>>
        /\ snap'[w] = Reading(usr[t.user], usr[t.user].count, {})
    BY <1>1, <2>1, <2>2 DEF ReadUser, hashVars
  <2>4. snap'[w] = SnapOf(t.user)
    BY <2>3 DEF Reading, SnapOf
  <2> QED
    BY <2>3, <2>4 DEF SnapOf
<1>8. CASE \E lost \in SUBSET Fields : ReadPortfolio(w, lost)
  BY <1>1, <1>8 DEF ReadPortfolio
<1>9. CASE ReadQuantity(w) \/ CasApplied(w) \/ CasConflict(w) \/ CasOk(w)
  <2>1. pc[w] \in {"read", "cas"} /\ UNCHANGED owner
        /\ pc'[w] \notin {"enroll", "usrsave"}
    BY <1>1, <1>9 DEF ReadQuantity, CasApplied, CasConflict, CasOk
  <2> QED
    BY <1>1, <2>1
<1>10. CASE SyncIndex(w) \/ ReadLegacy(w) \/ ApplyTotals(w) \/ Project(w)
  <2>1. pc[w] \in {"index", "legacy", "totals", "project"} /\ UNCHANGED owner
        /\ pc'[w] \notin {"enroll", "usrsave"}
    BY <1>1, <1>10 DEF SyncIndex, ReadLegacy, ApplyTotals, Project
  <2> QED
    BY <1>1, <2>1
<1>11. CASE ApplyUser(w) \/ MarkProcessed(w) \/ SavePortfolio(w)
  <2>1. pc[w] \in {"user", "mark", "pfsave"} /\ UNCHANGED owner
        /\ pc'[w] \notin {"enroll", "usrsave"}
    BY <1>1, <1>11 DEF ApplyUser, MarkProcessed, SavePortfolio
  <2> QED
    BY <1>1, <2>1
<1> QED
  BY <1>3, <1>4, <1>5, <1>6, <1>7, <1>8, <1>9, <1>10, <1>11 DEF Work, Compute, Failure

\* What is left of the totals by each call of a trade.
LEMMA CallBooked ==
  ASSUME OneUserEach, TypeInv, TypeInv', Booked, IsFiniteSet(inPf), Snapped, ValuationNext,
         NEW w, NEW t, OnlyTrade(w, t), Serving(w, t), Alone', torn = {}, torn' = {},
         pc[w] \in TradePhases => t \notin returned, Work(w) \/ Failure(w)
  PROVE  Booked'
<1>1. w \in Workers /\ \A u \in Users : ~Touched(u) /\ ~Touched(u)'
  BY Untouched DEF OnlyTrade, NoFan, Touched
<1>2. CASE UNCHANGED <<owner, pending, members, usr, inPf, inUsr, returned, turned, purchaseds,
                       currents>>
  BY <1>1, <1>2, SameBooks DEF books, OnlyTrade
<1>3. CASE FindUser(w)
  BY <1>2, <1>3 DEF FindUser, mapVars, hashVars, holdingVars, purchaseds, currents
<1>4. CASE MapUser(w) \/ MapHalf(w)
  <2>1. pc[w] = "enroll"
    BY <1>4 DEF MapUser, MapHalf
  <2> QED
    BY <1>4, <2>1, CallMaps DEF TradePhases, Serving
<1>5. CASE ApplyUser(w)
  <2>1. pc[w] = "user"
    BY <1>5 DEF ApplyUser
  <2> QED
    BY <1>5, <2>1, CallUser DEF TradePhases
<1> QED
  BY <1>1, <1>2, <1>3, <1>4, <1>5, CallQuiet, CallCas, CallTotals, CallSaves DEF Work, Compute, Failure

\* A worker keeps the users' totals.
LEMMA TradeAccounts ==
  ASSUME OneUserEach, TypeInv, TypeInv', LoneInv, DeletionInv, PurchasedInv, BackedInv, AccountInv,
         ValuationNext, TradeStep, UNCHANGED pricerVars
  PROVE  AccountInv'
<1>1. PICK w \in Workers : (\E t \in Trades : Take(w, t)) \/ Work(w) \/ Failure(w)
  BY DEF TradeStep, Work
<1>2. UNCHANGED <<eventVars, keeperVars>> /\ SpendsOne
  BY TradeAlone DEF TradeStep, TypeInv
<1>3. SUFFICES ASSUME Orderly', torn' = {} PROVE Accounts'
  BY DEF AccountInv
<1>4. Orderly /\ torn = {} /\ Accounts
  BY <1>2, <1>3, OrderlyBefore DEF TypeInv, ValuationNext, AccountInv
<1>5. ~TooLate'
  BY <1>3, <1>4, InTime DEF TypeInv, Accounts
<1>6. Booked
  BY <1>4 DEF Accounts, Booked
<1>7. CASE \E t \in Trades : Take(w, t)
  <2>1. PICK t \in Trades : Take(w, t)
    BY <1>7
  <2>2. /\ pc' = [pc EXCEPT ![w] = "check"] /\ trade' = [trade EXCEPT ![w] = t]
        /\ UNCHANGED <<books, snap, indexed, usr, owner>>
    BY <1>2, <2>1 DEF Take, Goto, books, holdingVars, hashVars, mapVars, localVars, purchaseds, currents
  <2>3. Booked'
    <3>1. UNCHANGED <<work, cut, indexed, owner>>
      BY <2>2 DEF pricerVars
    <3>2. \A u : Touched(u)' <=> Touched(u)
      BY <3>1 DEF Touched, Owners, Holders
    <3> QED
      BY <1>6, <2>2, <3>2, SameBooks
  <2>4. AllServing'
    <3> SUFFICES ASSUME NEW v \in Workers, pc'[v] # "idle" PROVE Serving(v, trade[v])'
      BY DEF AllServing
    <3>1. CASE v = w
      BY <2>2, <3>1 DEF Serving, TypeInv, UserInv, UserTypeOK, TypeOK
    <3>2. CASE v # w
      <4>1. pc'[v] = pc[v] /\ trade'[v] = trade[v]
        BY <2>2, <3>2 DEF TypeInv, UserInv, UserTypeOK, TypeOK
      <4>2. Serving(v, trade[v])
        BY <1>4, <4>1 DEF Accounts, AllServing
      <4> QED
        BY <2>2, <4>1, <4>2 DEF Serving, SnapOf
    <3> QED
      BY <3>1, <3>2
  <2>5. AllEntering'
    BY <1>2, <1>4, <2>2, SameEntering DEF Accounts
  <2>6. AllRead'
    BY <1>4, <2>2 DEF Accounts, AllRead, HasRead, Right, pricerVars
  <2> QED
    BY <1>5, <2>3, <2>4, <2>5, <2>6 DEF Accounts, Booked
<1>8. CASE Work(w) \/ Failure(w)
  <2>1. pc[w] # "idle"
    BY <1>8 DEF Work, Compute, Failure, Check, MapUser, ReadQuantity, CasApplied, CasConflict,
       CasOk, ReadLegacy, ApplyTotals, Project, ApplyUser, MarkProcessed, ReadPortfolio,
       ReadUser, SaveUser, SyncIndex, SavePortfolio, MapHalf, FindUser, CallFails, Crash
  <2>2. PICK t \in Trades : t = trade[w]
    BY <2>1 DEF TypeInv, UserInv, UserTypeOK, TypeOK
  <2>3. OnlyTrade(w, t)
    <3>1. /\ \A v \in Workers \ {w} : pc[v] = "idle"
          /\ \A r \in Pricers : work[r] = Idle
          /\ \A k \in Keepers : event[k] = NoEvent
      BY <1>4, <2>1, TradeAtWork DEF DeletionInv
    <3>2. counted \subseteq done /\ cut = {}
      <4>1. Handled # {}
        BY <2>1 DEF Handled
      <4>2. Priced = {}
        BY <1>4, <4>1 DEF LoneInv, OneAtWork, OneOf, Orderly
      <4> QED
        BY <1>4, <4>1, <4>2, CountedDone DEF Priced
    <3>3. \A e \in done : e.type = "DELETED" => e.pf # t.pf
      BY <1>4, <2>2, NamesAssumption DEF Accounts, TooLate
    <3>4. NoFan /\ NoFan'
      BY <3>1, <3>2 DEF NoFan, pricerVars
    <3> QED
      BY <1>2, <2>1, <2>2, <3>1, <3>2, <3>3, <3>4 DEF OnlyTrade
  <2>4. Serving(w, t) /\ Snapped /\ IsFiniteSet(inPf)
    BY <1>4, <2>1, <2>2 DEF Accounts, AllServing, PurchasedInv
  <2>5. pc[w] \in TradePhases => t \notin returned
    BY <1>4, <2>1, <2>2 DEF BackedInv, Backing, Indexes, Indexing, DeletionInv, Marked
  <2>6. Alone'
    BY <1>3 DEF Orderly
  <2>7. Booked'
    BY <1>3, <1>4, <1>6, <1>8, <2>3, <2>4, <2>5, <2>6, CallBooked
  <2>8. AllServing'
    <3>1. \A v \in Workers : pc'[v] # "idle" => pc[v] # "idle" /\ trade'[v] = trade[v]
      BY <1>8, WorkerFrame DEF WorkerMoves, TypeInv
    <3>2. pc'[w] # "idle" => Serving(w, t)'
      BY <1>6, <1>8, <2>3, <2>4, <2>6, CallServing
    <3> QED
      BY <2>2, <2>3, <3>1, <3>2 DEF AllServing, OnlyTrade
  <2>9. AllEntering' /\ AllRead'
    BY <1>2, <2>3 DEF AllEntering, AllRead, OnlyTrade, NoFan, keeperVars
  <2> QED
    BY <1>5, <2>7, <2>8, <2>9 DEF Accounts, Booked
<1> QED
  BY <1>1, <1>7, <1>8

----------------------------------------------------------------------------
(* What a portfolio-user record leaves of them *)

\* k alone is at work, at e.
OnlyEvent(k, e) ==
  /\ k \in Keepers /\ e \in Events /\ e = event[k]
  /\ \A j \in Keepers \ {k} : event[j] = NoEvent
  /\ \A w \in Workers : pc[w] = "idle"
  /\ NoFan /\ NoFan' /\ UNCHANGED tradeOnlyVars

\* What is so of a portfolio-user record at work.
LEMMA EnteringParts ==
  ASSUME OneUserEach, TypeInv, Booked, NEW k, NEW e, OnlyEvent(k, e), Entering(k, e)
  PROVE  /\ k \in Keepers /\ e \in Events /\ e = event[k] /\ e # NoEvent
         /\ e.pf \in Portfolios /\ e.user \in Users /\ e.user = UserOf(e.pf)
         /\ e.type \in {"CREATED", "DELETED"} /\ e \notin done
         /\ \A u \in Users : ~Touched(u) /\ ~Touched(u)'
         /\ UNCHANGED <<inPf, inUsr, returned, turned, purchaseds, currents>>
         /\ e.type = "CREATED" => (e \in counted <=> Opened(e.pf)) /\ (e \notin counted => ~Closed(e.pf))
         /\ e.type = "DELETED" =>
              /\ e \in counted <=> Closed(e.pf)
              /\ e \notin counted => (Opened(e.pf) => Enrolled(e.pf))
<1>1. /\ k \in Keepers /\ e \in Events /\ e = event[k] /\ e # NoEvent
      /\ e.pf \in Portfolios /\ e.user \in Users /\ e.user = UserOf(e.pf)
      /\ e.type \in {"CREATED", "DELETED"} /\ e \notin done /\ counted \subseteq Events
  BY OneUser, EventsAssumption, TotalsTyped DEF OnlyEvent, Entering
<1>2. /\ \A u \in Users : ~Touched(u) /\ ~Touched(u)'
      /\ UNCHANGED <<inPf, inUsr, returned, turned, purchaseds, currents>>
  BY Untouched DEF OnlyEvent, NoFan, Touched, tradeOnlyVars, purchaseds, currents
<1>3. \A f \in counted : f.pf = e.pf /\ f.type = e.type => f = e
  BY <1>1, OneUser
<1>4. ASSUME e.type = "CREATED", e \notin counted, NEW f \in counted, f.type = "DELETED", f.pf = e.pf
      PROVE  FALSE
  BY <1>1, <1>4 DEF Booked, Registers, Before
<1>5. ASSUME e.type = "DELETED", e \notin counted, NEW f \in counted, f.type = "CREATED", f.pf = e.pf
      PROVE  Enrolled(e.pf)
  <2>1. f \in done
    BY <1>1, <1>5 DEF Entering, InTurn, Before
  <2>2. Finished(f) /\ ~Closed(e.pf)
    BY <1>3, <1>5, <2>1 DEF Booked, Registers, Closed
  <2> QED
    BY <1>5, <2>2 DEF Finished
<1> QED
  BY <1>1, <1>2, <1>3, <1>4, <1>5 DEF Opened, Closed

\* What the totals count of a record is in the registers.
LEMMA CountRegisters ==
  ASSUME OneUserEach, TypeInv, Booked, NEW k, NEW e, OnlyEvent(k, e), Entering(k, e),
         UNCHANGED <<owner, pending, members, done>>, counted' = counted \cup {e}
  PROVE  Registers'
<1>1. UNCHANGED <<purchaseds, currents, returned, turned>>
  BY EnteringParts
<1>2. \A q : (Opened(q) => Opened(q)') /\ (Closed(q) => Closed(q)')
  BY DEF Opened, Closed
<1>3. ASSUME NEW q \in Portfolios PROVE MappingOf(q)'
  <2>1. MappingOf(q) /\ UserOf(q) \in Users
    BY OneUser DEF Booked, Registers
  <2>2. Awaited(q) => Awaited(q)'
    BY <1>1 DEF Awaited
  <2>3. Untraded(q) => Untraded(q)'
    BY <1>1 DEF Untraded, inHolding
  <2> QED
    BY <1>2, <2>1, <2>2, <2>3 DEF MappingOf
<1>4. ASSUME NEW f \in done' PROVE Finished(f)'
  <2>1. Finished(f) /\ (InTurn(f)' <=> InTurn(f)) /\ (Off(f.pf)' <=> Off(f.pf))
        /\ (Enrolled(f.pf)' <=> Enrolled(f.pf))
    BY DEF Booked, Registers, InTurn, Off, Enrolled
  <2> QED
    BY <1>2, <2>1 DEF Finished
<1>5. ASSUME NEW g \in counted', NEW f \in Events, Before(f, g) PROVE f \in counted'
  <2>1. CASE g \in counted
    BY <1>5, <2>1 DEF Booked, Registers
  <2>2. CASE g = e
    <3>1. f \in done /\ f.type = "CREATED"
      BY <1>5, <2>2 DEF Entering, InTurn, Before
    <3> QED
      BY <3>1 DEF Booked, Registers, Finished
  <2> QED
    BY <2>1, <2>2
<1> QED
  BY <1>3, <1>4, <1>5 DEF Registers

\* A creation is counted once, with what the portfolio's trades have added.
LEMMA CountsCreated ==
  ASSUME OneUserEach, TypeInv, Booked, IsFiniteSet(inPf), NEW k, NEW e, OnlyEvent(k, e), Entering(k, e),
         e \notin counted, e.type = "CREATED", step[k] \in {"count", "add"},
         UNCHANGED <<owner, done>>, counted' = counted \cup {e},
         usr' = [usr EXCEPT ![e.user] = PlusChange(usr[e.user], change[k])]
  PROVE  \A u \in Users : Account(u)'
<1> DEFINE p == e.pf
           v == e.user
<1>1. /\ p \in Portfolios /\ v \in Users /\ v = UserOf(p) /\ ~Opened(p) /\ ~Closed(p)
      /\ \A u \in Users : ~Touched(u) /\ ~Touched(u)'
      /\ UNCHANGED <<inPf, inUsr, returned, purchaseds, currents>>
  BY EnteringParts
<1>2. \A q : (Opened(q)' <=> Opened(q) \/ q = p) /\ (Closed(q)' <=> Closed(q))
  BY EnteringParts DEF Opened, Closed
<1>3. /\ Accounted(v)' = Accounted(v) \cup {p} /\ Created(v)' = Created(v) \cup {p}
      /\ p \notin Created(v) /\ (p \in Accounted(v) <=> owner[p] # Nobody)
      /\ \A u \in Users \ {v} : Accounted(u)' = Accounted(u) /\ Created(u)' = Created(u)
  BY <1>1, <1>2 DEF Accounted, Created
<1>4. \A u \in Users : Account(u) /\ Owed(u)' = Owed(u) /\ (Unsaved(u) => Unsaved(u)')
  BY <1>1 DEF Booked, Owed, Unsaved
<1>5. \A u \in Users : u # v => usr'[u] = usr[u]
  BY <1>1 DEF TypeInv, UserInv, UserTypeOK, TypeOK
<1>6. Account(v)'
  <2> DEFINE S == Accounted(v)
             x == IF owner[p] = Nobody THEN purchaseds[p] ELSE 0
             y == IF owner[p] = Nobody THEN currents[p] ELSE 0
  <2>1. IsFiniteSet(S) /\ IsFiniteSet(S \cup {p})
    BY <1>1, <1>4, FS_AddElement DEF Account
  <2>2. \A q \in S \cup {p} : purchaseds[q] \in Int /\ currents[q] \in Int
    BY <1>1, TotalsTyped DEF Accounted
  <2>3. /\ x \in Int /\ y \in Int /\ usr[v].pv \in Int /\ usr[v].cvp \in Int /\ usr[v].count \in Int
        /\ usr[v] = [pv |-> usr[v].pv, cvp |-> usr[v].cvp, cv |-> usr[v].cv, count |-> usr[v].count]
    BY <1>1, <2>2, TotalsTyped
  <2>4. change[k] = [pv |-> x, cv |-> y, n |-> 1]
    <3>1. /\ step[k] = "add" => owner[p] = Nobody /\ change[k] = Change(p, 1, 1)
          /\ step[k] = "count" => owner[p] # Nobody /\ change[k] = Change(p, 0, 1)
      BY DEF Entering
    <3>2. purchaseds[p] \in Int /\ currents[p] \in Int
      BY <2>2
    <3>3. Change(p, 1, 1) = [pv |-> purchaseds[p], cv |-> currents[p], n |-> 1]
      BY <3>2 DEF Change
    <3>4. Change(p, 0, 1) = [pv |-> 0, cv |-> 0, n |-> 1]
      BY <3>2 DEF Change
    <3> QED
      BY <3>1, <3>3, <3>4
  <2>5. /\ usr'[v].pv = usr[v].pv + x /\ usr'[v].cvp = usr[v].cvp + y
        /\ usr'[v].count = usr[v].count + 1
    <3>1. usr'[v] = PlusChange(usr[v], change[k])
      BY <1>1 DEF TypeInv, UserInv, UserTypeOK, TypeOK
    <3>2. usr[v] \in [pv : Int, cvp : Int, cv : Int, count : Int]
      BY <1>1 DEF TypeInv, UserInv, UserTypeOK, TypeOK
    <3>3. change[k].pv = x /\ change[k].cv = y /\ change[k].n = 1
      BY <2>4
    <3> HIDE DEF x, y
    <3>4. /\ usr'[v].pv = usr[v].pv + change[k].pv
          /\ usr'[v].cvp = usr[v].cvp + change[k].cv
          /\ usr'[v].count = usr[v].count + change[k].n
      BY <3>1, <3>2 DEF PlusChange
    <3> QED
      BY <3>3, <3>4
  <2>6. /\ SumFunctionOnSet(purchaseds, S \cup {p}) = SumFunctionOnSet(purchaseds, S) + x
        /\ SumFunctionOnSet(currents, S \cup {p}) = SumFunctionOnSet(currents, S) + y
        /\ SumFunctionOnSet(purchaseds, S) \in Int /\ SumFunctionOnSet(currents, S) \in Int
    <3>1. p \in S <=> owner[p] # Nobody
      BY <1>3
    <3> HIDE DEF S
    <3>2. SumFunctionOnSet(purchaseds, S) \in Int /\ SumFunctionOnSet(currents, S) \in Int
      BY <2>1, <2>2, SumType
    <3>3. CASE p \in S
      <4>1. S \cup {p} = S /\ x = 0 /\ y = 0
        BY <3>1, <3>3
      <4> QED
        BY <3>2, <4>1
    <3>4. CASE p \notin S
      <4>1. x = purchaseds[p] /\ y = currents[p]
        BY <3>1, <3>4
      <4>2. SumFunctionOnSet(purchaseds, S \cup {p}) = SumFunctionOnSet(purchaseds, S) + purchaseds[p]
        BY <2>1, <2>2, <3>4, SumAdd
      <4>3. SumFunctionOnSet(currents, S \cup {p}) = SumFunctionOnSet(currents, S) + currents[p]
        BY <2>1, <2>2, <3>4, SumAdd
      <4> QED
        BY <3>2, <4>1, <4>2, <4>3
    <3> QED
      BY <3>3, <3>4
  <2>7. Cardinality(Created(v) \cup {p}) = Cardinality(Created(v)) + 1
    <3>1. Created(v) \subseteq S
      BY DEF Accounted, Created
    <3> HIDE DEF S
    <3> QED
      BY <1>3, <2>1, <3>1, FS_Subset, FS_AddElement
  <2>8. Owed(v) \in Int
    BY OwedType
  <2>9. Unsaved(v)'
    BY EnteringParts DEF Unsaved
  <2>10. /\ usr[v].pv + Owed(v) = SumFunctionOnSet(purchaseds, S)
         /\ usr[v].cvp + Owed(v) = SumFunctionOnSet(currents, S)
         /\ usr[v].count = Cardinality(Created(v))
    BY <1>1, <1>4 DEF Account
  <2> HIDE DEF x, y
  <2>11. /\ usr'[v].pv + Owed(v) = SumFunctionOnSet(purchaseds, S \cup {p})
         /\ usr'[v].cvp + Owed(v) = SumFunctionOnSet(currents, S \cup {p})
         /\ usr'[v].count = Cardinality(Created(v) \cup {p})
    BY <2>3, <2>5, <2>6, <2>7, <2>8, <2>10
  <2> QED
    BY <1>1, <1>3, <1>4, <2>1, <2>9, <2>11 DEF Account
<1>7. ASSUME NEW u \in Users, u # v PROVE Account(u)'
  BY <1>1, <1>3, <1>4, <1>5, <1>7 DEF Account
<1> QED
  BY <1>6, <1>7

\* A keeper handles each call's answer by what there is.
LEMMA KeeperEntering ==
  ASSUME OneUserEach, TypeInv, Booked, NEW k, NEW e, OnlyEvent(k, e), Entering(k, e), Alone',
         KeeperWork(k) \/ KeeperFails(k) \/ KeeperDies(k)
  PROVE  event'[k] # NoEvent => event'[k] = e /\ Entering(k, e)'
<1> DEFINE p == e.pf
<1>1. /\ k \in Keepers /\ e \in Events /\ e = event[k] /\ e # NoEvent
      /\ p \in Portfolios /\ e.user \in Users /\ e.user = UserOf(p)
      /\ e.type \in {"CREATED", "DELETED"} /\ e \notin done
      /\ UNCHANGED <<purchaseds, currents>>
      /\ e.type = "CREATED" => (e \in counted <=> Opened(p))
  BY EnteringParts
<1>2. /\ \A value, truth : Saw(value, truth) => value = truth
      /\ \A lost : Misread(lost) => lost = {}
  BY DEF Saw, Misread, Spend, Alone, TypeInv, UserInv, UserTypeOK, TypeOK, Bounds
<1>3. /\ MappingOf(p) /\ UserOf(p) \in Users /\ e.user # Nobody
      /\ pf[p].pv \in Int /\ pf[p].cvp \in Int
      /\ purchaseds[p] = pf[p].pv /\ currents[p] = pf[p].cvp
      /\ \A sign, n : Change(p, sign, n)' = Change(p, sign, n)
  BY <1>1, NamesAssumption DEF Booked, Registers, purchaseds, currents, Change, TypeInv, UserInv, UserTypeOK, TypeOK
<1>4. /\ InTurn(e)
      /\ step[k] \in {"count", "add", "clear", "map"} => e.type = "CREATED"
      /\ step[k] \in {"subtract", "unmap", "delete", "stocks", "wipe"} => e.type = "DELETED"
      /\ step[k] \in {"pending", "count", "clear", "subtract"} => owner[p] # Nobody
      /\ step[k] \in {"clear", "map"} => e \in counted
      /\ step[k] = "map" => p \notin pending
      /\ step[k] \in {"delete", "stocks", "wipe"} => Off(p)
      /\ step[k] = "totals" => (owner[p] # Nobody <=> e.type = "DELETED")
  BY DEF Entering
<1> USE DEF Enter
<1>5. ASSUME UNCHANGED <<done, event>>, step' = [step EXCEPT ![k] = "look"] PROVE Entering(k, e)'
  <2>1. step'[k] = "look" /\ InTurn(e)'
    BY <1>1, <1>4, <1>5 DEF InTurn, TypeInv, UserInv, UserTypeOK
  <2> QED
    BY <1>1, <1>5, <2>1 DEF Entering
<1>6. ASSUME UNCHANGED <<done, event>>, NEW phase, step' = [step EXCEPT ![k] = phase]
      PROVE  event'[k] = e /\ step'[k] = phase /\ e \notin done' /\ InTurn(e)'
  BY <1>1, <1>4, <1>6 DEF InTurn, TypeInv, UserInv, UserTypeOK
<1>7. CASE Look(k)
  <2>1. PICK mapped \in {owner[p] # Nobody, FALSE} :
          /\ Saw(mapped, owner[p] # Nobody)
          /\ Enter(k, CASE mapped /\ e.type = "CREATED" -> "pending"
                        [] ~mapped /\ e.type = "DELETED" -> "unmap"
                        [] OTHER -> "totals")
          /\ UNCHANGED <<done, event, owner, change>> /\ step[k] = "look"
    BY <1>1, <1>7 DEF Look, eventVars, mapVars
  <2>2. mapped = (owner[p] # Nobody)
    BY <1>2, <2>1
  <2>3. /\ event'[k] = e /\ e \notin done' /\ InTurn(e)'
        /\ step'[k] = CASE mapped /\ e.type = "CREATED" -> "pending"
                        [] ~mapped /\ e.type = "DELETED" -> "unmap"
                        [] OTHER -> "totals"
    BY <1>6, <2>1
  <2>4. CASE owner[p] # Nobody /\ e.type = "CREATED"
    <3>1. step'[k] = "pending"
      BY <2>2, <2>3, <2>4
    <3> QED
      BY <2>1, <2>3, <2>4, <3>1 DEF Entering
  <2>5. CASE owner[p] = Nobody /\ e.type = "DELETED"
    <3>1. step'[k] = "unmap"
      BY <2>2, <2>3, <2>5
    <3> QED
      BY <2>1, <2>3, <2>5, <3>1 DEF Entering
  <2>6. CASE owner[p] # Nobody <=> e.type = "DELETED"
    <3>1. step'[k] = "totals"
      BY <1>1, <2>2, <2>3, <2>6
    <3> QED
      BY <2>1, <2>3, <2>6, <3>1 DEF Entering
  <2> QED
    BY <1>1, <2>4, <2>5, <2>6
<1>8. CASE CountPending(k)
  <2>1. /\ e.type = "CREATED" /\ owner[p] # Nobody
        /\ Enter(k, IF p \in pending THEN "count" ELSE "usrread")
        /\ change' = [change EXCEPT ![k] = [pv |-> 0, cv |-> 0, n |-> 1]]
        /\ UNCHANGED <<owner, pending, members, counted, done, event>>
    BY <1>1, <1>2, <1>4, <1>8 DEF CountPending, At, eventVars, mapVars
  <2>2. /\ event'[k] = e /\ e \notin done' /\ InTurn(e)'
        /\ step'[k] = IF p \in pending THEN "count" ELSE "usrread"
    BY <1>6, <2>1
  <2>3. CASE p \in pending
    <3>1. Change(p, 0, 1) = [pv |-> 0, cv |-> 0, n |-> 1]
      BY <1>3 DEF Change
    <3>2. change'[k] = Change(p, 0, 1)'
      BY <1>1, <1>3, <2>1, <3>1 DEF TypeInv, UserInv, UserTypeOK
    <3> QED
      BY <2>1, <2>2, <2>3, <3>2 DEF Entering
  <2>4. CASE p \notin pending
    <3>1. e \in counted' /\ Enrolled(p)'
      BY <1>1, <1>3, <2>1, <2>4 DEF MappingOf, Enrolled
    <3> QED
      BY <2>1, <2>2, <2>4, <3>1 DEF Entering
  <2> QED
    BY <2>3, <2>4
<1>9. CASE UncountPending(k)
  <2>1. /\ e.type = "DELETED" /\ owner[p] # Nobody /\ step[k] = "pending"
        /\ Enter(k, "subtract")
        /\ change' = [change EXCEPT ![k].n = IF p \in pending THEN 0 ELSE -1]
        /\ UNCHANGED <<owner, pending, done, event>>
    BY <1>1, <1>2, <1>4, <1>9 DEF UncountPending, At, eventVars, mapVars
  <2>2. /\ event'[k] = e /\ e \notin done' /\ InTurn(e)' /\ step'[k] = "subtract"
    BY <1>6, <2>1
  <2>3. change[k] = Change(p, -1, 0)
    BY <2>1 DEF Entering
  <2>4. change'[k] = Change(p, -1, IF p \in pending THEN 0 ELSE -1)
    BY <1>1, <2>1, <2>3 DEF Change, TypeInv, UserInv, UserTypeOK
  <2>5. change'[k] = Change(p, -1, IF p \in pending THEN 0 ELSE -1)'
    BY <1>3, <2>1, <2>4
  <2> QED
    BY <2>1, <2>2, <2>5 DEF Entering
<1>10. CASE \E lost \in SUBSET {"pv", "cvp"} : ReadTotals(k, lost)
  <2>1. PICK lost \in SUBSET {"pv", "cvp"} : ReadTotals(k, lost)
    BY <1>10
  <2>2. lost = {}
    BY <1>2, <2>1 DEF ReadTotals
  <2> DEFINE totals == Reading(pf[p], 1, {})
  <2>3. totals = [pv |-> purchaseds[p], cv |-> currents[p], n |-> 1]
    BY <1>3 DEF Reading
  <2>4. step[k] = "totals" /\ UNCHANGED <<owner, done, event>>
    BY <2>1 DEF ReadTotals, eventVars, mapVars
  <2>5. CASE e.type = "CREATED"
    <3>1. Enter(k, "add") /\ change' = [change EXCEPT ![k] = totals] /\ owner[p] = Nobody
      BY <1>1, <1>4, <2>1, <2>2, <2>4, <2>5 DEF ReadTotals
    <3>2. totals = Change(p, 1, 1)
      BY <1>3, <2>3 DEF Change
    <3> HIDE DEF totals
    <3>3. change'[k] = Change(p, 1, 1)'
      BY <1>1, <1>3, <3>1, <3>2 DEF TypeInv, UserInv, UserTypeOK
    <3>4. event'[k] = e /\ step'[k] = "add" /\ e \notin done' /\ InTurn(e)'
      BY <1>6, <2>4, <3>1
    <3> QED
      BY <2>4, <2>5, <3>1, <3>3, <3>4 DEF Entering
  <2>6. CASE e.type = "DELETED"
    <3>1. Enter(k, "pending") /\ owner[p] # Nobody
          /\ change' = [change EXCEPT ![k] = [pv |-> -totals.pv, cv |-> -totals.cv, n |-> 0]]
      BY <1>1, <1>4, <2>1, <2>2, <2>4, <2>6 DEF ReadTotals
    <3>2. [pv |-> -totals.pv, cv |-> -totals.cv, n |-> 0] = Change(p, -1, 0)
      <4>1. totals.pv = purchaseds[p] /\ totals.cv = currents[p]
        BY <2>3
      <4>2. -totals.pv = (-1) * purchaseds[p] /\ -totals.cv = (-1) * currents[p]
        BY <1>3, <4>1
      <4> HIDE DEF totals
      <4> QED
        BY <4>2 DEF Change
    <3> HIDE DEF totals
    <3>3. change'[k] = Change(p, -1, 0)'
      BY <1>1, <1>3, <3>1, <3>2 DEF TypeInv, UserInv, UserTypeOK
    <3>4. event'[k] = e /\ step'[k] = "pending" /\ e \notin done' /\ InTurn(e)'
      BY <1>6, <2>4, <3>1
    <3> QED
      BY <2>4, <2>6, <3>1, <3>3, <3>4 DEF Entering
  <2> QED
    BY <1>1, <2>5, <2>6
<1>11. ASSUME NEW from, NEW to, ApplyEvent(k, from, to),
              <<from, to>> \in {<<"count", "clear">>, <<"add", "map">>, <<"subtract", "unmap">>}
       PROVE  event'[k] = e /\ Entering(k, e)'
  <2>1. /\ step[k] = from /\ AndThen(k, to) /\ UNCHANGED <<owner, pending, done, event>>
        /\ e \in counted'
    BY <1>1, <1>11 DEF ApplyEvent, mapVars
  <2>2. CASE Enter(k, "look")
    BY <1>1, <1>5, <2>1, <2>2
  <2>3. CASE Enter(k, to)
    <3>1. event'[k] = e /\ step'[k] = to /\ e \notin done' /\ InTurn(e)'
      BY <1>6, <2>1, <2>3
    <3>2. CASE from = "count" /\ to = "clear"
      BY <1>4, <2>1, <3>1, <3>2 DEF Entering
    <3>3. CASE from = "add" /\ to = "map"
      <4>1. p \notin pending
        BY <1>3, <2>1, <3>3 DEF Entering, MappingOf
      <4> QED
        BY <1>4, <2>1, <3>1, <3>3, <4>1 DEF Entering
    <3>4. CASE from = "subtract" /\ to = "unmap"
      BY <1>4, <2>1, <3>1, <3>4 DEF Entering
    <3> QED
      BY <1>11, <3>2, <3>3, <3>4
  <2> QED
    BY <2>1, <2>2, <2>3 DEF AndThen
<1>12. CASE ClearPending(k)
  <2>1. /\ step[k] = "clear" /\ AndThen(k, "usrread") /\ pending' = pending \ {p}
        /\ UNCHANGED <<owner, counted, done, event>>
    BY <1>1, <1>12 DEF ClearPending, eventVars
  <2>2. e.type = "CREATED" /\ e \in counted' /\ Enrolled(p)'
    BY <1>4, <2>1 DEF Enrolled
  <2>3. CASE Enter(k, "look")
    BY <1>1, <1>5, <2>1, <2>3
  <2>4. CASE Enter(k, "usrread")
    <3>1. event'[k] = e /\ step'[k] = "usrread" /\ e \notin done' /\ InTurn(e)'
      BY <1>6, <2>1, <2>4
    <3> QED
      BY <2>2, <3>1 DEF Entering
  <2> QED
    BY <2>1, <2>3, <2>4 DEF AndThen
<1>13. CASE MapPortfolio(k)
  <2>1. /\ step[k] = "map" /\ UNCHANGED <<pending, counted, done, event>>
        /\ \/ owner' = [owner EXCEPT ![p] = e.user] /\ Enter(k, "usrread")
           \/ Enter(k, "look")
    BY <1>1, <1>13 DEF MapPortfolio, Pipeline, AndThen, eventVars
  <2>2. CASE Enter(k, "look")
    BY <1>1, <1>5, <2>1, <2>2
  <2>3. CASE owner' = [owner EXCEPT ![p] = e.user] /\ Enter(k, "usrread")
    <3>1. event'[k] = e /\ step'[k] = "usrread" /\ e \notin done' /\ InTurn(e)'
      BY <1>6, <2>1, <2>3
    <3>2. e.type = "CREATED" /\ e \in counted' /\ Enrolled(p)'
      BY <1>1, <1>3, <1>4, <2>1, <2>3 DEF Enrolled, TypeInv, UserInv, UserTypeOK, TypeOK
    <3> QED
      BY <3>1, <3>2 DEF Entering
  <2> QED
    BY <2>1, <2>2, <2>3
<1>14. CASE Unmap(k)
  <2>1. /\ step[k] = "unmap" /\ UNCHANGED <<counted, done, event>>
        /\ \/ /\ owner' = [owner EXCEPT ![p] = Nobody]
              /\ members' = [members EXCEPT ![e.user] = members[e.user] \ {p}]
              /\ Enter(k, "delete")
           \/ Enter(k, "look")
    BY <1>1, <1>14 DEF Unmap, Pipeline, AndThen, eventVars
  <2>2. CASE Enter(k, "look")
    BY <1>1, <1>5, <2>1, <2>2
  <2>3. CASE /\ owner' = [owner EXCEPT ![p] = Nobody]
             /\ members' = [members EXCEPT ![e.user] = members[e.user] \ {p}]
             /\ Enter(k, "delete")
    <3>1. event'[k] = e /\ step'[k] = "delete" /\ e \notin done' /\ InTurn(e)'
      BY <1>6, <2>1, <2>3
    <3>2. e.type = "DELETED" /\ Off(p)'
      BY <1>1, <1>3, <1>4, <2>1, <2>3 DEF Off, MappingOf, TypeInv, UserInv, UserTypeOK, TypeOK
    <3> QED
      BY <3>1, <3>2 DEF Entering
  <2> QED
    BY <2>1, <2>2, <2>3
<1>15. ASSUME step[k] \in {"delete", "stocks", "wipe"}, UNCHANGED <<owner, members, counted, done, event>>,
              NEW phase \in {"look", "stocks", "wipe", "usrread"}, Enter(k, phase)
       PROVE  event'[k] = e /\ Entering(k, e)'
  <2>1. event'[k] = e /\ step'[k] = phase /\ e \notin done' /\ InTurn(e)'
    BY <1>6, <1>15
  <2>2. e.type = "DELETED" /\ Off(p)'
    BY <1>4, <1>15 DEF Off
  <2> QED
    BY <1>15, <2>1, <2>2 DEF Entering
<1>16. CASE MarkDeleted(k)
  BY <1>15, <1>16 DEF MarkDeleted, AndThen, eventVars, mapVars
<1>17. CASE FindStocks(k)
  BY <1>15, <1>17 DEF FindStocks, eventVars, mapVars
<1>18. CASE Wipe(k)
  <2>1. /\ step[k] = "wipe" /\ UNCHANGED <<owner, members, counted, done, event>>
        /\ Enter(k, "look") \/ Enter(k, "usrread")
    BY <1>18 DEF Wipe, AndThen, eventVars, mapVars
  <2> QED
    BY <1>15, <2>1
<1>19. CASE \E lost \in SUBSET Fields : ReadUserOf(k, lost)
  <2>1. PICK lost \in SUBSET Fields : ReadUserOf(k, lost)
    BY <1>19
  <2>2. lost = {}
    BY <1>2, <2>1 DEF ReadUserOf
  <2>3. /\ step[k] = "usrread" /\ Enter(k, "usrsave")
        /\ UNCHANGED <<usr, owner, pending, members, counted, done, event>>
        /\ change' = [change EXCEPT ![k] = Reading(usr[e.user], usr[e.user].count, {})]
    BY <1>1, <2>1, <2>2 DEF ReadUserOf, eventVars, mapVars
  <2>4. change'[k] = SnapOf(e.user)'
    <3>1. Reading(usr[e.user], usr[e.user].count, {}) = SnapOf(e.user)
      BY DEF Reading, SnapOf
    <3>2. change'[k] = SnapOf(e.user)
      BY <1>1, <2>3, <3>1 DEF TypeInv, UserInv, UserTypeOK
    <3> QED
      BY <2>3, <3>2 DEF SnapOf
  <2>5. event'[k] = e /\ step'[k] = "usrsave" /\ e \notin done' /\ InTurn(e)'
    BY <1>6, <2>3
  <2>6. IF e.type = "CREATED" THEN e \in counted /\ Enrolled(p) ELSE Off(p)
    BY <2>3 DEF Entering
  <2>7. (IF e.type = "CREATED" THEN e \in counted /\ Enrolled(p) ELSE Off(p))'
    BY <2>3, <2>6 DEF Enrolled, Off
  <2> QED
    BY <2>4, <2>5, <2>7 DEF Entering
<1>20. CASE SaveUserOf(k)
  <2>1. \/ event' = [event EXCEPT ![k] = NoEvent]
        \/ Enter(k, "look") /\ UNCHANGED <<event, done>>
    BY <1>20 DEF SaveUserOf, Leave
  <2> QED
    BY <1>1, <1>5, <2>1 DEF TypeInv, UserInv, UserTypeOK
<1>21. CASE KeeperFails(k)
  <2>1. Enter(k, "look") /\ UNCHANGED <<event, done>>
    BY <1>21 DEF KeeperFails, eventVars
  <2> QED
    BY <1>1, <1>5, <2>1
<1>22. CASE KeeperDies(k)
  BY <1>1, <1>22 DEF KeeperDies, Leave, TypeInv, UserInv, UserTypeOK
<1> QED
  BY <1>7, <1>8, <1>9, <1>10, <1>11, <1>12, <1>13, <1>14, <1>16, <1>17, <1>18, <1>19, <1>20, <1>21,
     <1>22 DEF KeeperWork

\* Most calls of a keeper leave the totals, and where they are kept.
LEMMA KeeperQuiet ==
  ASSUME NEW k, UNCHANGED tradeOnlyVars,
         \/ Look(k) \/ CountPending(k) \/ UncountPending(k) \/ MarkDeleted(k) \/ FindStocks(k)
         \/ Wipe(k) \/ KeeperFails(k) \/ KeeperDies(k)
         \/ \E lost \in SUBSET {"pv", "cvp"} : ReadTotals(k, lost)
         \/ \E lost \in SUBSET Fields : ReadUserOf(k, lost)
  PROVE  UNCHANGED books
<1>1. UNCHANGED <<inPf, inUsr, returned, turned, purchaseds, currents>>
  BY DEF tradeOnlyVars, purchaseds, currents
<1>2. UNCHANGED <<owner, pending, members, usr, eventVars>>
  BY DEF mapVars, Look, CountPending, UncountPending, MarkDeleted, FindStocks, Wipe, KeeperFails,
     KeeperDies, ReadTotals, ReadUserOf
<1> QED
  BY <1>1, <1>2 DEF books

\* A deletion takes away, once, what the portfolio was counted with.
LEMMA CountsDeleted ==
  ASSUME OneUserEach, TypeInv, Booked, IsFiniteSet(inPf), NEW k, NEW e, OnlyEvent(k, e), Entering(k, e),
         e \notin counted, e.type = "DELETED", step[k] = "subtract",
         UNCHANGED <<owner, done>>, counted' = counted \cup {e},
         usr' = [usr EXCEPT ![e.user] = PlusChange(usr[e.user], change[k])]
  PROVE  \A u \in Users : Account(u)'
<1> DEFINE p == e.pf
           v == e.user
           S == Accounted(v)
           C == Created(v)
<1>1. /\ p \in Portfolios /\ v \in Users /\ v = UserOf(p) /\ ~Closed(p)
      /\ Opened(p) => Enrolled(p)
      /\ \A u \in Users : ~Touched(u) /\ ~Touched(u)'
      /\ UNCHANGED <<inPf, inUsr, returned, purchaseds, currents>>
  BY EnteringParts
<1>2. \A q : (Opened(q)' <=> Opened(q)) /\ (Closed(q)' <=> Closed(q) \/ q = p)
  BY EnteringParts DEF Opened, Closed
<1>3. owner[p] # Nobody /\ MappingOf(p)
      /\ change[k] = Change(p, -1, IF p \in pending THEN 0 ELSE -1)
  BY <1>1 DEF Entering, Booked, Registers
<1>4. /\ Accounted(v)' = S \ {p} /\ Created(v)' = C \ {p}
      /\ p \in S /\ (p \in C <=> p \notin pending) /\ C \subseteq S
      /\ \A u \in Users \ {v} : Accounted(u)' = Accounted(u) /\ Created(u)' = Created(u)
  BY <1>1, <1>2, <1>3 DEF Accounted, Created, Enrolled, MappingOf
<1>5. \A u \in Users : Account(u) /\ Owed(u)' = Owed(u) /\ (Unsaved(u) => Unsaved(u)')
  BY <1>1 DEF Booked, Owed, Unsaved
<1>6. \A u \in Users : u # v => usr'[u] = usr[u]
  BY <1>1 DEF TypeInv, UserInv, UserTypeOK, TypeOK
<1>7. Account(v)'
  <2>1. IsFiniteSet(S) /\ IsFiniteSet(S \ {p}) /\ IsFiniteSet(C)
    <3>1. IsFiniteSet(S)
      BY <1>1, <1>5 DEF Account
    <3> HIDE DEF S, C
    <3> QED
      BY <1>4, <3>1, FS_Subset, FS_RemoveElement
  <2>2. \A q \in S : purchaseds[q] \in Int /\ currents[q] \in Int
    BY <1>1, TotalsTyped DEF Accounted
  <2>3. /\ SumFunctionOnSet(purchaseds, S) = purchaseds[p] + SumFunctionOnSet(purchaseds, S \ {p})
        /\ SumFunctionOnSet(currents, S) = currents[p] + SumFunctionOnSet(currents, S \ {p})
        /\ SumFunctionOnSet(purchaseds, S \ {p}) \in Int /\ SumFunctionOnSet(currents, S \ {p}) \in Int
    <3> HIDE DEF S
    <3> QED
      BY <1>4, <2>1, <2>2, SumRemove, SumType
  <2>4. Cardinality(C \ {p}) = IF p \in pending THEN Cardinality(C) ELSE Cardinality(C) - 1
    <3> HIDE DEF C
    <3>1. CASE p \in pending
      <4>1. C \ {p} = C
        BY <1>4, <3>1
      <4> QED
        BY <3>1, <4>1
    <3>2. CASE p \notin pending
      BY <1>4, <2>1, <3>2, FS_RemoveElement
    <3> QED
      BY <3>1, <3>2
  <2>5. PICK x, y, n : /\ x = purchaseds[p] /\ y = currents[p] /\ n = IF p \in pending THEN 0 ELSE -1
                       /\ x \in Int /\ y \in Int /\ n \in Int
    BY <1>4, <2>2
  <2>6. change[k].pv = -x /\ change[k].cv = -y /\ change[k].n = n
    BY <1>3, <2>5 DEF Change
  <2>7. /\ usr'[v].pv = usr[v].pv - x /\ usr'[v].cvp = usr[v].cvp - y
        /\ usr'[v].count = usr[v].count + n
    <3>1. usr'[v] = PlusChange(usr[v], change[k])
      BY <1>1 DEF TypeInv, UserInv, UserTypeOK, TypeOK
    <3>2. usr[v] \in [pv : Int, cvp : Int, cv : Int, count : Int]
      BY <1>1 DEF TypeInv, UserInv, UserTypeOK, TypeOK
    <3>3. /\ usr'[v].pv = usr[v].pv + change[k].pv /\ usr'[v].cvp = usr[v].cvp + change[k].cv
          /\ usr'[v].count = usr[v].count + change[k].n
      BY <3>1, <3>2 DEF PlusChange
    <3>4. usr[v].pv \in Int /\ usr[v].cvp \in Int /\ usr[v].count \in Int
      BY <3>2
    <3> HIDE DEF p, v
    <3> QED
      BY <2>5, <2>6, <3>3, <3>4
  <2>8. usr[v].pv \in Int /\ usr[v].cvp \in Int /\ usr[v].count \in Int /\ Owed(v) \in Int
    BY <1>1, TotalsTyped, OwedType
  <2>9. Cardinality(C) \in Int
    BY <2>1, FS_CardinalityType
  <2>10. Unsaved(v)'
    BY EnteringParts DEF Unsaved
  <2>11. /\ usr[v].pv + Owed(v) = SumFunctionOnSet(purchaseds, S)
         /\ usr[v].cvp + Owed(v) = SumFunctionOnSet(currents, S)
         /\ usr[v].count = Cardinality(C)
    BY <1>1, <1>5 DEF Account
  <2>12. /\ usr'[v].pv + Owed(v) = SumFunctionOnSet(purchaseds, S \ {p})
         /\ usr'[v].cvp + Owed(v) = SumFunctionOnSet(currents, S \ {p})
         /\ usr'[v].count = Cardinality(C \ {p})
    <3> HIDE DEF S, C, p, v
    <3>1. usr'[v].count = Cardinality(C \ {p})
      BY <2>4, <2>5, <2>7, <2>8, <2>9, <2>11
    <3>2. usr'[v].pv + Owed(v) = SumFunctionOnSet(purchaseds, S \ {p})
      BY <2>3, <2>5, <2>7, <2>8, <2>11
    <3>3. usr'[v].cvp + Owed(v) = SumFunctionOnSet(currents, S \ {p})
      BY <2>3, <2>5, <2>7, <2>8, <2>11
    <3> QED
      BY <3>1, <3>2, <3>3
  <2> HIDE DEF S, C
  <2> QED
    BY <1>1, <1>4, <1>5, <2>1, <2>10, <2>12 DEF Account
<1>8. ASSUME NEW u \in Users, u # v PROVE Account(u)'
  BY <1>1, <1>4, <1>5, <1>6, <1>8 DEF Account
<1> QED
  BY <1>7, <1>8

\* What a record changes of the user's totals, it changes once.
LEMMA KeeperCounts ==
  ASSUME OneUserEach, TypeInv, Booked, IsFiniteSet(inPf), NEW k, NEW e, OnlyEvent(k, e), Entering(k, e),
         step[k] \in {"count", "add", "subtract"}, NEW to, ApplyEvent(k, step[k], to)
  PROVE  Booked'
<1>1. /\ UNCHANGED <<owner, pending, members, done, inPf, inUsr, returned, turned, purchaseds, currents>>
      /\ counted' = counted \cup {e} /\ e = event[k]
      /\ \A u \in Users : ~Touched(u) /\ ~Touched(u)'
  BY EnteringParts DEF ApplyEvent, mapVars
<1>2. CASE e \in counted
  <2>1. UNCHANGED <<usr, counted>>
    BY <1>1, <1>2 DEF ApplyEvent, IsCounted
  <2> QED
    BY <1>1, <2>1, SameBooks DEF books, eventVars
<1>3. CASE e \notin counted
  <2>1. usr' = [usr EXCEPT ![e.user] = PlusChange(usr[e.user], change[k])]
    BY <1>1, <1>3 DEF ApplyEvent, IsCounted
  <2>2. Registers'
    BY <1>1, CountRegisters
  <2>3. \A u \in Users : Account(u)'
    <3>1. CASE step[k] = "subtract"
      <4>1. e.type = "DELETED"
        BY <3>1 DEF Entering
      <4> QED
        BY <1>1, <1>3, <2>1, <3>1, <4>1, CountsDeleted
    <3>2. CASE step[k] \in {"count", "add"}
      <4>1. e.type = "CREATED"
        BY <3>2 DEF Entering
      <4> QED
        BY <1>1, <1>3, <2>1, <3>2, <4>1, CountsCreated
    <3> QED
      BY <3>1, <3>2
  <2> QED
    BY <2>2, <2>3 DEF Booked
<1> QED
  BY <1>2, <1>3

\* The mapping of a portfolio that has been counted does not matter to the totals.
LEMMA MapAccount ==
  ASSUME Booked, UNCHANGED <<usr, inPf, inUsr, returned, eventVars, purchaseds, currents>>,
         \A u \in Users : ~Touched(u) /\ ~Touched(u)',
         \A q \in Portfolios : owner'[q] = owner[q] \/ Opened(q) \/ Closed(q)
  PROVE  \A u \in Users : Account(u)'
<1> USE DEF eventVars
<1>1. \A q : (Opened(q)' <=> Opened(q)) /\ (Closed(q)' <=> Closed(q))
  BY DEF Opened, Closed
<1>2. \A u \in Users : Accounted(u)' = Accounted(u) /\ Created(u)' = Created(u)
  BY <1>1 DEF Accounted, Created
<1>3. \A u \in Users : Account(u) /\ Owed(u)' = Owed(u) /\ (Unsaved(u)' <=> Unsaved(u))
  BY DEF Booked, Owed, Unsaved
<1> QED
  BY <1>2, <1>3 DEF Account

\* A creation is no longer pending once it is counted.
LEMMA ClearsPending ==
  ASSUME OneUserEach, TypeInv, Booked, NEW k, NEW e, OnlyEvent(k, e), Entering(k, e), ClearPending(k)
  PROVE  Booked'
<1> DEFINE p == e.pf
<1>1. /\ UNCHANGED <<owner, members, usr, eventVars, inPf, inUsr, returned, turned, purchaseds, currents>>
      /\ pending' = pending \ {p} /\ p \in Portfolios
      /\ \A u \in Users : ~Touched(u) /\ ~Touched(u)'
      /\ step[k] = "clear" /\ Opened(p)
  BY EnteringParts DEF ClearPending, Entering
<1>2. \A u \in Users : Account(u)'
  BY <1>1, MapAccount
<1>3. \A q : /\ (Opened(q)' <=> Opened(q)) /\ (Closed(q)' <=> Closed(q))
             /\ (Awaited(q)' <=> Awaited(q)) /\ (Untraded(q)' <=> Untraded(q))
             /\ (Off(q)' <=> Off(q)) /\ (Enrolled(q) => Enrolled(q)')
  BY <1>1 DEF eventVars, Opened, Closed, Awaited, Untraded, inHolding, Off, Enrolled
<1>4. ASSUME NEW q \in Portfolios PROVE MappingOf(q)'
  <2>1. MappingOf(q) /\ (q \notin pending => q \notin pending') /\ (q \in pending /\ q # p => q \in pending')
    BY <1>1 DEF Booked, Registers
  <2> QED
    BY <1>1, <1>3, <2>1 DEF MappingOf
<1>5. ASSUME NEW f \in done' PROVE Finished(f)'
  <2>1. Finished(f) /\ (InTurn(f)' <=> InTurn(f))
    BY <1>1 DEF eventVars, Booked, Registers, InTurn
  <2> QED
    BY <1>1, <1>3, <2>1 DEF Finished, eventVars
<1> QED
  BY <1>1, <1>2, <1>4, <1>5 DEF Booked, Registers, eventVars

\* A creation maps its portfolio after it is counted, or half of it.
LEMMA CreationMaps ==
  ASSUME OneUserEach, TypeInv, TypeInv', Booked, NEW k, NEW e, OnlyEvent(k, e), Entering(k, e),
         MapPortfolio(k), torn = {}, torn' = {}, ValuationNext
  PROVE  Booked'
<1> DEFINE p == e.pf
           v == e.user
<1>1. /\ UNCHANGED <<pending, usr, eventVars, inPf, inUsr, returned, turned, purchaseds, currents>>
      /\ p \in Portfolios /\ v \in Users /\ v = UserOf(p) /\ v # Nobody /\ e \in counted \ done
      /\ \A u \in Users : ~Touched(u) /\ ~Touched(u)'
      /\ step[k] = "map" /\ Opened(p) /\ p \notin pending /\ e.type = "CREATED" /\ e \in Events
      /\ e = event[k]
  BY EnteringParts, NamesAssumption DEF MapPortfolio, Entering
<1>2. /\ \A q \in Portfolios : q # p => owner'[q] = owner[q]
      /\ owner'[p] \in {owner[p], v}
      /\ \A u \in Users, q \in Portfolios : q \in members[u] => q \in members'[u]
      /\ \A u \in Users, q \in Portfolios :
           q \in members'[u] /\ q \notin members[u] => u = v /\ q = p
  <2>1. owner' = [owner EXCEPT ![p] = v] \/ owner' = owner
    BY <1>1 DEF MapPortfolio, Pipeline
  <2>2. members' = [members EXCEPT ![v] = members[v] \cup {p}] \/ members' = members
    BY <1>1 DEF MapPortfolio, Pipeline
  <2> QED
    BY <1>1, <2>1, <2>2 DEF TypeInv, UserInv, UserTypeOK, TypeOK
<1>3. owner[p] = Nobody /\ owner'[p] # Nobody => p \in members'[v]
  <2>1. owner[p] = Nobody /\ owner'[p] # Nobody /\ p \notin members'[owner'[p]] => p \in torn'
    BY <1>1 DEF ValuationNext
  <2> QED
    BY <1>1, <1>2, <2>1
<1>4. \A u \in Users : Account(u)'
  <2>1. \A q \in Portfolios : owner'[q] = owner[q] \/ Opened(q)
    BY <1>1, <1>2
  <2> QED
    BY <1>1, <2>1, MapAccount
<1>5. \A q : /\ (Opened(q)' <=> Opened(q)) /\ (Closed(q)' <=> Closed(q))
             /\ (Awaited(q)' <=> Awaited(q)) /\ (Untraded(q)' <=> Untraded(q))
  BY <1>1 DEF eventVars, Opened, Closed, Awaited, Untraded, inHolding
<1>6. ASSUME NEW q \in Portfolios PROVE MappingOf(q)'
  <2>1. MappingOf(q) /\ UserOf(q) \in Users
    BY OneUser DEF Booked, Registers
  <2>2. CASE q # p
    <3>1. owner'[q] = owner[q] /\ \A u \in Users : q \in members'[u] <=> q \in members[u]
      BY <1>2, <2>2
    <3> QED
      BY <1>1, <1>5, <2>1, <3>1 DEF MappingOf
  <2>3. CASE q = p
    <3>1. /\ owner'[p] \in {v, Nobody}
          /\ owner'[p] # Nobody => p \in members'[v] \/ Closed(p)'
          /\ owner'[p] = Nobody => owner[p] = Nobody
      BY <1>1, <1>2, <1>3, <1>5, <2>1, <2>3 DEF MappingOf
    <3>2. Awaited(p)'
      BY <1>1 DEF Awaited, eventVars
    <3>3. \A u \in Users : p \in members'[u] => u = v
      BY <1>1, <1>2, <2>1, <2>3 DEF MappingOf
    <3> QED
      BY <1>1, <1>5, <2>1, <2>3, <3>1, <3>2, <3>3 DEF MappingOf
  <2> QED
    BY <2>2, <2>3
<1>7. ASSUME NEW f \in done' PROVE Finished(f)'
  <2>1. f \in done /\ Finished(f) /\ (InTurn(f)' <=> InTurn(f)) /\ f \in Events /\ f.pf \in Portfolios
    BY <1>1, OneUser, TotalsTyped DEF eventVars, Booked, Registers, InTurn
  <2>2. CASE f.type = "CREATED"
    <3>1. Enrolled(f.pf) => Enrolled(f.pf)'
      BY <1>1, <1>2, <2>1 DEF Enrolled
    <3> QED
      BY <1>1, <1>5, <2>1, <2>2, <3>1 DEF Finished, eventVars
  <2>3. CASE f.type # "CREATED"
    <3>1. f.pf # p
      <4>1. f.type = "DELETED"
        BY <2>1, <2>3, EventsAssumption
      <4>2. f.pf = p => Before(e, f)
        BY <1>1, <4>1 DEF Before
      <4> QED
        BY <1>1, <2>1, <2>3, <4>2 DEF Finished, InTurn
    <3>2. Off(f.pf)'
      BY <1>2, <2>1, <2>3, <3>1 DEF Finished, Off
    <3> QED
      BY <2>1, <2>3, <3>2 DEF Finished
  <2> QED
    BY <2>2, <2>3
<1> QED
  BY <1>1, <1>4, <1>6, <1>7 DEF Booked, Registers, eventVars

\* A deletion unmaps its portfolio, or half of it, when it is counted or was not mapped.
LEMMA DeletionUnmaps ==
  ASSUME OneUserEach, TypeInv, Booked, NEW k, NEW e, OnlyEvent(k, e), Entering(k, e), Unmap(k)
  PROVE  Booked'
<1> DEFINE p == e.pf
           v == e.user
<1>1. /\ UNCHANGED <<usr, eventVars, inPf, inUsr, returned, turned, purchaseds, currents>>
      /\ p \in Portfolios /\ v \in Users /\ v = UserOf(p) /\ e \notin done
      /\ \A u \in Users : ~Touched(u) /\ ~Touched(u)'
      /\ step[k] = "unmap" /\ e.type = "DELETED" /\ e \in Events /\ e = event[k]
      /\ owner[p] # Nobody => Closed(p) /\ Awaited(p)
  BY EnteringParts DEF Unmap, Entering, Closed, Awaited
<1>2. /\ \A q \in Portfolios : q # p => owner'[q] = owner[q] /\ (q \in pending' <=> q \in pending)
      /\ \/ owner'[p] = owner[p] /\ (p \in pending' <=> p \in pending)
         \/ owner'[p] = Nobody /\ p \notin pending'
      /\ \A u \in Users, q \in Portfolios : q \in members'[u] => q \in members[u]
      /\ \A u \in Users, q \in Portfolios :
           q \in members[u] /\ q \notin members'[u] => u = v /\ q = p
  <2>1. \/ owner' = [owner EXCEPT ![p] = Nobody] /\ pending' = pending \ {p}
        \/ UNCHANGED <<owner, pending>>
    BY <1>1 DEF Unmap, Pipeline, mapVars
  <2>2. members' = [members EXCEPT ![v] = members[v] \ {p}] \/ members' = members
    BY <1>1 DEF Unmap, Pipeline
  <2>3. /\ \A q \in Portfolios : q # p => owner'[q] = owner[q] /\ (q \in pending' <=> q \in pending)
        /\ \/ owner'[p] = owner[p] /\ (p \in pending' <=> p \in pending)
           \/ owner'[p] = Nobody /\ p \notin pending'
    BY <1>1, <2>1 DEF TypeInv, UserInv, UserTypeOK, TypeOK
  <2>4. \A u \in Users : members'[u] = members[u] \/ (u = v /\ members'[u] = members[u] \ {p})
    BY <1>1, <2>2 DEF TypeInv, UserInv, UserTypeOK, TypeOK
  <2> QED
    BY <2>3, <2>4
<1>3. \A u \in Users : Account(u)'
  <2>1. \A q \in Portfolios : owner'[q] = owner[q] \/ Closed(q)
    BY <1>1, <1>2
  <2> QED
    BY <1>1, <2>1, MapAccount
<1>4. \A q : /\ (Opened(q)' <=> Opened(q)) /\ (Closed(q)' <=> Closed(q))
             /\ (Awaited(q)' <=> Awaited(q)) /\ (Untraded(q)' <=> Untraded(q))
  BY <1>1 DEF eventVars, Opened, Closed, Awaited, Untraded, inHolding
<1>5. ASSUME NEW q \in Portfolios PROVE MappingOf(q)'
  <2>1. MappingOf(q) /\ UserOf(q) \in Users
    BY OneUser DEF Booked, Registers
  <2>2. CASE q # p
    <3>1. /\ owner'[q] = owner[q] /\ (q \in pending' <=> q \in pending)
          /\ \A u \in Users : q \in members'[u] <=> q \in members[u]
      BY <1>2, <2>2
    <3> QED
      BY <1>1, <1>4, <2>1, <3>1 DEF MappingOf
  <2>3. CASE q = p
    <3>1. \A u \in Users : p \in members'[u] => u = v /\ Awaited(p)
      BY <1>1, <1>2, <2>1, <2>3 DEF MappingOf
    <3>2. owner'[p] # Nobody => owner'[p] = owner[p] /\ (p \in pending' <=> p \in pending) /\ Closed(p)
      BY <1>1, <1>2
    <3>3. owner'[p] = Nobody => p \notin pending' /\ (Untraded(p) \/ Closed(p))
      BY <1>1, <1>2, <2>1, <2>3 DEF MappingOf
    <3> QED
      BY <1>1, <1>4, <2>1, <2>3, <3>1, <3>2, <3>3 DEF MappingOf
  <2> QED
    BY <2>2, <2>3
<1>6. ASSUME NEW f \in done' PROVE Finished(f)'
  <2>1. f \in done /\ Finished(f) /\ (InTurn(f)' <=> InTurn(f)) /\ f \in Events /\ f.pf \in Portfolios
    BY <1>1, OneUser, TotalsTyped DEF eventVars, Booked, Registers, InTurn
  <2>2. Enrolled(f.pf) => Enrolled(f.pf)' \/ Closed(f.pf)
    BY <1>1, <1>2, <2>1 DEF Enrolled
  <2>3. Off(f.pf) => Off(f.pf)'
    BY <1>1, <1>2, <2>1 DEF Off
  <2> QED
    BY <1>1, <1>4, <2>1, <2>2, <2>3 DEF Finished, eventVars
<1> QED
  BY <1>1, <1>3, <1>5, <1>6 DEF Booked, Registers, eventVars

\* The snapshot of a record, when it is what the hash has, changes its last
\* value only; the record is done.
LEMMA RecordSaves ==
  ASSUME OneUserEach, TypeInv, Booked, NEW k, NEW e, OnlyEvent(k, e), Entering(k, e), SaveUserOf(k)
  PROVE  Booked'
<1> DEFINE p == e.pf
           v == e.user
<1>1. /\ UNCHANGED <<owner, pending, members, counted, inPf, inUsr, returned, turned, purchaseds, currents>>
      /\ p \in Portfolios /\ v \in Users /\ v = UserOf(p) /\ e \in Events
      /\ \A u \in Users : ~Touched(u) /\ ~Touched(u)'
      /\ done' = done \/ done' = done \cup {e}
      /\ step[k] = "usrsave" /\ change[k] = SnapOf(v) /\ InTurn(e)
      /\ IF e.type = "CREATED" THEN e \in counted /\ Enrolled(p) ELSE Off(p)
      /\ usr' = [usr EXCEPT ![v] = [usr[v] EXCEPT !.pv = change[k].pv, !.cv = change[k].cv,
                                                  !.count = change[k].n]]
  BY EnteringParts DEF SaveUserOf, Entering, mapVars
<1>2. \A u \in Users : /\ usr'[u].pv = usr[u].pv /\ usr'[u].cvp = usr[u].cvp
                       /\ usr'[u].count = usr[u].count
                       /\ usr'[u].cv = IF u = v THEN usr[u].cvp ELSE usr[u].cv
  BY <1>1 DEF SnapOf, TypeInv, UserInv, UserTypeOK, TypeOK
<1>3. \A q : /\ (Opened(q)' <=> Opened(q)) /\ (Closed(q)' <=> Closed(q))
             /\ (Untraded(q)' <=> Untraded(q)) /\ (Off(q)' <=> Off(q)) /\ (Enrolled(q)' <=> Enrolled(q))
             /\ (q # p /\ Awaited(q) => Awaited(q)')
  BY <1>1 DEF Opened, Closed, Awaited, Untraded, inHolding, Off, Enrolled
<1>4. ASSUME NEW q \in Portfolios PROVE MappingOf(q)'
  <2>1. MappingOf(q) /\ UserOf(q) \in Users
    BY OneUser DEF Booked, Registers
  <2>2. q = p /\ owner[q] = Nobody => \A u \in Users : q \notin members[u]
    BY <1>1 DEF Enrolled, Off
  <2> QED
    BY <1>1, <1>3, <2>1, <2>2 DEF MappingOf
<1>5. ASSUME NEW f \in done' PROVE Finished(f)'
  <2>1. InTurn(f) => InTurn(f)'
    BY <1>1 DEF InTurn
  <2>2. Finished(f)
    BY <1>1 DEF Booked, Registers, Finished
  <2> QED
    BY <1>1, <1>3, <2>1, <2>2 DEF Finished
<1>6. ASSUME NEW u \in Users PROVE Account(u)'
  <2>1. /\ Account(u) /\ Accounted(u)' = Accounted(u) /\ Created(u)' = Created(u)
        /\ Owed(u)' = Owed(u)
    BY <1>1, <1>3 DEF Booked, Accounted, Created, Owed
  <2>2. u # v /\ Unsaved(u) => Unsaved(u)'
    BY <1>1 DEF Unsaved
  <2> QED
    BY <1>1, <1>2, <2>1, <2>2 DEF Account
<1> QED
  BY <1>1, <1>4, <1>5, <1>6 DEF Booked, Registers

\* What is left of the totals by each call of a portfolio-user record.
LEMMA KeeperBooked ==
  ASSUME OneUserEach, TypeInv, TypeInv', Booked, IsFiniteSet(inPf), NEW k, NEW e, OnlyEvent(k, e),
         Entering(k, e), torn = {}, torn' = {}, ValuationNext,
         KeeperWork(k) \/ KeeperFails(k) \/ KeeperDies(k)
  PROVE  Booked'
<1>1. \A u \in Users : ~Touched(u) /\ ~Touched(u)'
  BY EnteringParts
<1>2. CASE UNCHANGED books
  BY <1>1, <1>2, SameBooks
<1>3. CASE ApplyEvent(k, "count", "clear") \/ ApplyEvent(k, "add", "map")
           \/ ApplyEvent(k, "subtract", "unmap")
  <2>1. PICK from \in {"count", "add", "subtract"}, to \in {"clear", "map", "unmap"} : ApplyEvent(k, from, to)
    BY <1>3
  <2>2. step[k] = from
    BY <2>1 DEF ApplyEvent
  <2> QED
    BY <2>1, <2>2, KeeperCounts
<1>4. UNCHANGED tradeOnlyVars
  BY DEF OnlyEvent
<1>5. CASE ClearPending(k) \/ MapPortfolio(k) \/ Unmap(k) \/ SaveUserOf(k)
  BY <1>5, ClearsPending, CreationMaps, DeletionUnmaps, RecordSaves
<1> QED
  BY <1>2, <1>3, <1>4, <1>5, KeeperQuiet DEF KeeperWork

\* A portfolio-user record's keeper is alone with it.
LEMMA RecordAlone ==
  ASSUME TypeInv, LoneInv, DeletionInv, Orderly, NEW k \in Keepers, event[k] # NoEvent,
         UNCHANGED tradeOnlyVars, UNCHANGED pricerVars
  PROVE  OnlyEvent(k, event[k])
<1>1. OneKeeper /\ Marked
  BY DEF DeletionInv, Orderly
<1>2. /\ \A w \in Workers : pc[w] = "idle"
      /\ \A r \in Pricers : work[r] = Idle
      /\ \A j \in Keepers \ {k} : event[j] = NoEvent
  BY <1>1, KeeperAtWork
<1>3. event[k] \in Events
  BY DEF TypeInv, UserInv, UserTypeOK
<1>4. cut = {}
  <2>1. event[k].pf \in Kept
    BY DEF Kept
  <2>2. Priced = {}
    BY <2>1 DEF LoneInv, OneAtWork, OneOf, Orderly
  <2> QED
    BY <2>2 DEF Priced
<1> QED
  BY <1>2, <1>3, <1>4 DEF OnlyEvent, NoFan, pricerVars

\* A keeper keeps the users' totals.
LEMMA KeeperAccounts ==
  ASSUME OneUserEach, TypeInv, TypeInv', LoneInv, DeletionInv, PurchasedInv, AccountInv,
         ValuationNext, KeeperStep, UNCHANGED pricerVars
  PROVE  AccountInv'
<1>1. UNCHANGED tradeOnlyVars /\ SpendsOne
  BY KeeperAlone DEF KeeperStep, TypeInv
<1>2. SUFFICES ASSUME Orderly', torn' = {} PROVE Accounts'
  BY DEF AccountInv
<1>3. Orderly /\ torn = {} /\ Accounts
  BY <1>1, <1>2, OrderlyBefore DEF TypeInv, ValuationNext, AccountInv
<1>4. ~TooLate'
  BY <1>2, <1>3, InTime DEF TypeInv, Accounts
<1>5. Booked /\ IsFiniteSet(inPf) /\ Alone'
  BY <1>2, <1>3 DEF Accounts, Booked, PurchasedInv, Orderly
<1>6. ASSUME UNCHANGED <<usr, owner>> PROVE AllServing' /\ AllRead'
  BY <1>1, <1>3, <1>6 DEF Accounts, AllServing, AllRead, Serving, SnapOf, HasRead, Right,
     tradeOnlyVars, localVars, pricerVars
<1>7. ASSUME UNCHANGED <<owner, indexed>> PROVE \A u : Touched(u)' <=> Touched(u)
  <2>1. UNCHANGED <<work, cut>>
    BY DEF pricerVars
  <2> QED
    BY <1>7, <2>1 DEF Touched, Owners, Holders
<1>8. ASSUME NEW k \in Keepers, NEW e \in Events, TakeEvent(k, e) PROVE Accounts'
  <2>1. /\ step[k] = "idle" /\ e \notin done /\ InTurn(e)
        /\ event' = [event EXCEPT ![k] = e] /\ step' = [step EXCEPT ![k] = "look"]
        /\ UNCHANGED <<stateVars, deleted, usr, mapVars, eventVars, change>>
    BY <1>8 DEF TakeEvent, Enter, InTurn
  <2>2. UNCHANGED books
    BY <1>1, <2>1 DEF books, tradeOnlyVars, mapVars, purchaseds, currents
  <2>3. Booked'
    <3>1. UNCHANGED <<owner, indexed>>
      BY <2>1 DEF mapVars, stateVars
    <3> QED
      BY <1>5, <1>7, <2>2, <3>1, SameBooks
  <2>4. AllEntering'
    <3> SUFFICES ASSUME NEW j \in Keepers, event'[j] # NoEvent PROVE Entering(j, event[j])'
      BY DEF AllEntering
    <3>1. CASE j = k
      <4>1. event'[j] = e /\ step'[j] = "look" /\ InTurn(e)' /\ e \notin done'
        BY <2>1, <3>1 DEF TypeInv, UserInv, UserTypeOK, InTurn, eventVars
      <4> QED
        BY <4>1 DEF Entering
    <3>2. CASE j # k
      <4>1. event'[j] = event[j] /\ step'[j] = step[j] /\ change'[j] = change[j]
        BY <2>1, <3>2 DEF TypeInv, UserInv, UserTypeOK
      <4>2. PICK f : f = event[j]
        OBVIOUS
      <4>3. Entering(j, f)
        BY <1>3, <4>1, <4>2 DEF Accounts, AllEntering
      <4>4. Entering(j, f)'
        BY <2>2, <4>1, <4>3, SameEntry
      <4> QED
        BY <4>1, <4>2, <4>4
    <3> QED
      BY <3>1, <3>2
  <2>5. UNCHANGED <<usr, owner>>
    BY <2>1 DEF mapVars
  <2> QED
    BY <1>4, <1>6, <2>3, <2>4, <2>5 DEF Accounts, Booked
<1>9. ASSUME NEW k \in Keepers, KeeperWork(k) \/ KeeperFails(k) \/ KeeperDies(k) PROVE Accounts'
  <2>1. KeeperMoves(k)
    BY <1>9, KeeperWorks DEF TypeInv
  <2>2. event[k] # NoEvent
    <3>1. step[k] # "idle"
      BY <1>9 DEF KeeperWork, KeeperFails, KeeperDies, Look, CountPending, UncountPending,
         ReadTotals, ApplyEvent, ClearPending, MapPortfolio, Unmap, MarkDeleted, FindStocks,
         Wipe, ReadUserOf, SaveUserOf, At
    <3> QED
      BY <3>1 DEF TypeInv, UserInv, UserTypeOK
  <2>3. PICK e : e = event[k]
    OBVIOUS
  <2>4. OnlyEvent(k, e) /\ Entering(k, e)
    BY <1>1, <1>3, <2>2, <2>3, RecordAlone DEF Accounts, AllEntering
  <2>5. Booked'
    BY <1>2, <1>3, <1>5, <1>9, <2>4, KeeperBooked
  <2>6. event'[k] # NoEvent => event'[k] = e /\ Entering(k, e)'
    BY <1>5, <1>9, <2>4, KeeperEntering
  <2>7. AllEntering'
    BY <2>1, <2>4, <2>6 DEF AllEntering, OnlyEvent, KeeperMoves
  <2>8. AllServing' /\ AllRead'
    BY <1>1, <2>4 DEF AllServing, AllRead, OnlyEvent, NoFan, tradeOnlyVars
  <2> QED
    BY <1>4, <2>5, <2>7, <2>8 DEF Accounts, Booked
<1>10. ASSUME NEW e \in Events, Redeliver(e) PROVE Accounts'
  <2>1. /\ e \in done /\ ~KeeperAt(e.pf)
        /\ UNCHANGED <<indexed, usr, owner, pending, members, counted, keeperVars>>
        /\ done' = {f \in done : f.pf # e.pf \/ Before(f, e)}
        /\ UNCHANGED <<inPf, inUsr, returned, turned, purchaseds, currents>>
    BY <1>1, <1>10 DEF Redeliver, tradeOnlyVars, stateVars, mapVars, purchaseds, currents
  <2>2. /\ \A q : /\ (Opened(q)' <=> Opened(q)) /\ (Closed(q)' <=> Closed(q))
                  /\ (Off(q)' <=> Off(q)) /\ (Enrolled(q)' <=> Enrolled(q))
                  /\ (Untraded(q)' <=> Untraded(q)) /\ (Awaited(q) => Awaited(q)')
        /\ \A q, sign, n : Change(q, sign, n)' = Change(q, sign, n)
        /\ \A u : Touched(u)' <=> Touched(u)
    BY <1>7, <2>1 DEF Opened, Closed, Off, Enrolled, Untraded, inHolding, Awaited, Change
  <2>3. ASSUME NEW f, InTurn(f), f.pf # e.pf PROVE InTurn(f)'
    BY <2>1, <2>3 DEF InTurn, Before
  <2>4. Registers'
    <3>1. ASSUME NEW q \in Portfolios PROVE MappingOf(q)'
      <4>1. MappingOf(q)
        BY <1>5 DEF Booked, Registers
      <4> QED
        BY <2>1, <2>2, <4>1 DEF MappingOf
    <3>2. ASSUME NEW f \in done' PROVE Finished(f)'
      <4>1. Finished(f) /\ f \in Events
        BY <1>5, <2>1, TotalsTyped DEF Booked, Registers
      <4>2. f.type # "CREATED" => f.pf # e.pf
        BY <2>1 DEF Before
      <4> QED
        BY <2>1, <2>2, <2>3, <4>1, <4>2 DEF Finished
    <3> QED
      BY <1>5, <2>1, <3>1, <3>2 DEF Booked, Registers
  <2>5. ASSUME NEW u \in Users PROVE Account(u)'
    <3>1. /\ Account(u) /\ Accounted(u)' = Accounted(u) /\ Created(u)' = Created(u)
          /\ Owed(u)' = Owed(u) /\ (Unsaved(u) => Unsaved(u)')
      BY <1>5, <2>1, <2>2 DEF Booked, Accounted, Created, Owed, Unsaved
    <3> QED
      BY <2>1, <2>2, <3>1 DEF Account
  <2>6. AllEntering'
    <3> SUFFICES ASSUME NEW j \in Keepers, event'[j] # NoEvent PROVE Entering(j, event[j])'
      BY DEF AllEntering
    <3>1. event[j] # NoEvent /\ event'[j] = event[j] /\ step'[j] = step[j] /\ change'[j] = change[j]
      BY <2>1 DEF keeperVars
    <3>2. PICK f : f = event[j]
      OBVIOUS
    <3>3. Entering(j, f) /\ f.pf # e.pf
      BY <1>3, <2>1, <3>1, <3>2 DEF Accounts, AllEntering, KeeperAt
    <3>4. f \notin done' /\ InTurn(f)' /\ SnapOf(f.user)' = SnapOf(f.user)
      BY <2>1, <2>3, <3>3 DEF Entering, SnapOf
    <3>5. Entering(j, f)'
      BY <2>1, <2>2, <3>1, <3>3, <3>4 DEF Entering
    <3> QED
      BY <3>1, <3>2, <3>5
  <2> QED
    BY <1>4, <1>6, <2>1, <2>4, <2>5, <2>6 DEF Accounts
<1> QED
  BY <1>8, <1>9, <1>10 DEF KeeperStep

----------------------------------------------------------------------------
(* What a fan-out leaves of them *)

\* r alone is at work, and what it fans out is not left from another stock.
OnlyPrice(r) ==
  /\ r \in Pricers /\ work[r] # Idle /\ Working(r)
  /\ \A q \in Pricers \ {r} : work[q] = Idle
  /\ cut \subseteq {work[r].stock}
  /\ \A w \in Workers : pc[w] = "idle"
  /\ \A k \in Keepers : event[k] = NoEvent
  /\ counted \subseteq done /\ inHolding \subseteq returned
  /\ inPf \subseteq inUsr /\ inUsr \subseteq returned
  /\ UNCHANGED recordVars

\* A fan-out is alone.
LEMMA PriceAlone ==
  ASSUME TypeInv, LoneInv, DeletionInv, Orderly, NEW r \in Pricers, work[r] # Idle, UNCHANGED recordVars
  PROVE  OnlyPrice(r)
<1>1. work[r].stock \in Priced /\ OneOf(Handled, Kept, Priced) /\ Working(r)
  BY DEF Priced, LoneInv, OneAtWork, Orderly, TypeInv, PricersTyped, Working
<1>2. Handled = {} /\ Kept = {} /\ Priced \subseteq {work[r].stock}
  BY <1>1 DEF OneOf, AtMostOne
<1>3. \A q \in Pricers \ {r} : work[q] = Idle
  BY <1>2 DEF Priced, LoneInv, OnePricer, Twice, Orderly
<1>4. cut \subseteq {work[r].stock}
  BY <1>2 DEF Priced
<1>5. /\ \A w \in Workers : pc[w] = "idle"
      /\ \A k \in Keepers : event[k] = NoEvent
      /\ Underway = {}
  BY PricerAtWork DEF DeletionInv
<1>6. inHolding \subseteq returned
  BY <1>2 DEF Handled, inHolding
<1>7. inPf \subseteq inUsr /\ inUsr \subseteq returned
  BY <1>5, <1>6 DEF Underway, TypeInv, UserInv, MarkerInv, MarkersInOrder
<1>8. counted \subseteq done
  BY <1>1, CountedDone
<1> QED
  BY <1>1, <1>3, <1>4, <1>5, <1>6, <1>7, <1>8 DEF OnlyPrice

\* Its users are those it has yet to make up, and nothing else is owed.
LEMMA PriceParts ==
  ASSUME TypeInv, NEW r, OnlyPrice(r)
  PROVE  /\ \A u \in Users : Touched(u) => u \in Owners(work[r].stock)
         /\ \A u \in Users : u \in Owners(work[r].stock) => Touched(u)
         /\ \A u \in Users : Unsaved(u) => Touched(u)
         /\ \A u \in Users : Owed(u) = 0
         /\ Owners(work[r].stock) \subseteq Users
<1>1. \A u \in Users : Touched(u) <=> u \in Owners(work[r].stock)
  BY DEF OnlyPrice, Touched, Working, Jobs
<1>2. \A u \in Users : Unsaved(u) => Touched(u)
  BY DEF OnlyPrice, Unsaved
<1>3. ASSUME NEW u \in Users PROVE Owed(u) = 0
  <2>1. {t \in inPf \ inUsr : t.user = u} = {}
    BY DEF OnlyPrice
  <2>2. Sum({}) = 0
    BY SumEmpty DEF Sum
  <2> QED
    BY <2>1, <2>2 DEF Owed
<1>4. Owners(work[r].stock) \subseteq Users
  <2>1. \A p \in Holders(work[r].stock) : owner[p] \in Users \cup {Nobody}
    BY DEF Holders, TypeInv, UserInv, UserTypeOK, TypeOK
  <2> QED
    BY <2>1 DEF Owners
<1> QED
  BY <1>1, <1>2, <1>3, <1>4

\* They are so until it ends.
LEMMA StillTouched ==
  ASSUME TypeInv, NEW r, OnlyPrice(r), NEW x, NEW phase, NEW commands, NEW plan, NEW reply,
         Advance(r, x, phase, commands, plan, reply),
         work'[r] # Idle \/ Owners(work[r].stock) = {}
  PROVE  \A u \in Users : Touched(u) => Touched(u)'
<1>1. \A u \in Users : Touched(u) => u \in Owners(work[r].stock)
  BY PriceParts
<1>2. CASE Owners(work[r].stock) = {}
  BY <1>1, <1>2
<1>3. CASE work'[r] # Idle
  <2>1. work'[r].stock = work[r].stock
    BY <1>3, AdvancedOn DEF OnlyPrice, TypeInv
  <2>2. \A s : Owners(s)' = Owners(s)
    BY FanFrame DEF OnlyPrice
  <2> QED
    BY <1>1, <1>3, <2>1, <2>2 DEF OnlyPrice, Touched, Working, Jobs
<1> QED
  BY <1>2, <1>3

\* Between the records, a user's set has the portfolios its totals count, and
\* others that have none.
LEMMA TotalCounts ==
  ASSUME OneUserEach, TypeInv, Booked, BackedInv, NEW r, OnlyPrice(r), NEW u \in Users
  PROVE  TotalOf(u) = SumFunctionOnSet(currents, Accounted(u))
<1> DEFINE S == members[u]
           T == Accounted(u)
<1>1. ASSUME NEW p \in T PROVE p \in S
  <2>1. p \in Portfolios /\ UserOf(p) = u /\ ~Closed(p) /\ (owner[p] # Nobody \/ Opened(p)) /\ MappingOf(p)
    BY DEF Accounted, Booked, Registers
  <2>2. owner[p] # Nobody
    <3> SUFFICES ASSUME Opened(p) PROVE owner[p] # Nobody
      BY <2>1
    <3>1. PICK e \in counted : e.type = "CREATED" /\ e.pf = p
      BY DEF Opened
    <3>2. Finished(e)
      BY DEF OnlyPrice, Booked, Registers
    <3> QED
      BY <2>1, <3>1, <3>2 DEF Finished, Enrolled
  <2> QED
    BY <2>1, <2>2 DEF MappingOf
<1>2. ASSUME NEW p \in S, p \notin T PROVE currents[p] = 0
  <2>1. p \in Portfolios /\ UserOf(p) = u /\ MappingOf(p)
    BY DEF TypeInv, UserInv, UserTypeOK, TypeOK, Booked, Registers, MappingOf
  <2>2. ~Closed(p)
    <3> SUFFICES ASSUME NEW e \in counted, e.type = "DELETED", e.pf = p PROVE FALSE
      BY DEF Closed
    <3>1. Finished(e)
      BY DEF OnlyPrice, Booked, Registers
    <3> QED
      BY <3>1 DEF Finished, Off
  <2>3. owner[p] = Nobody
    BY <1>2, <2>1, <2>2 DEF Accounted
  <2> QED
    BY <2>1, <2>2, <2>3 DEF MappingOf, Untraded
<1>3. /\ IsFiniteSet(S) /\ T \in SUBSET S
      /\ \A p \in S : currents[p] \in Int
      /\ \A p \in S \ T : currents[p] = 0
  <2>1. S \subseteq Portfolios
    BY DEF TypeInv, UserInv, UserTypeOK, TypeOK
  <2> QED
    BY <1>1, <1>2, <2>1, TotalsTyped DEF BackedInv
<1> HIDE DEF S, T
<1>4. SumFunctionOnSet(currents, S) = SumFunctionOnSet(currents, T)
  BY <1>3, SumRest
<1> QED
  BY <1>4 DEF S, T, TotalOf

\* With commands to follow, a fan-out goes on.
LEMMA GoesOn ==
  ASSUME TypeInv, NEW r, OnlyPrice(r), NEW x, NEW phase, NEW commands, NEW plan, NEW reply,
         Advance(r, x, phase, commands, plan, reply),
         (phase \in JobPhases /\ commands # {}) \/ work[r].todo # {x}
  PROVE  work'[r] # Idle
<1> DEFINE job == [work[r] EXCEPT !.at = IF work[r].todo = {x} THEN phase ELSE work[r].at,
                                  !.todo = IF work[r].todo = {x} THEN commands
                                           ELSE work[r].todo \ {x},
                                  !.plan = plan, !.reply = reply]
<1>1. r \in Pricers /\ work[r] \in Jobs /\ work[r].at \in JobPhases
  BY DEF OnlyPrice, Working, Jobs
<1>2. work'[r] = job
  BY <1>1 DEF Advance, Over, TypeInv, PricersTyped
<1>3. job.at \in JobPhases
  <2>1. job.at = IF work[r].todo = {x} THEN phase ELSE work[r].at
    BY <1>1 DEF Jobs
  <2>2. work[r].todo # {x} \/ phase \in JobPhases
    OBVIOUS
  <2> HIDE DEF job
  <2> QED
    BY <1>1, <2>1, <2>2
<1> HIDE DEF job
<1> QED
  BY <1>2, <1>3 DEF Idle, JobPhases

\* Most calls of a fan-out leave the totals.
LEMMA PriceQuiet ==
  ASSUME TypeInv, Booked, NEW r, OnlyPrice(r), NEW x, NEW phase \in JobPhases, NEW commands, NEW plan,
         NEW reply, Advance(r, x, phase, commands, plan, reply),
         commands # {} \/ Owners(work[r].stock) = {},
         UNCHANGED <<usr, purchaseds, currents>>
  PROVE  Booked'
<1>1. \A u \in Users : Touched(u) => Touched(u)'
  BY GoesOn, StillTouched
<1>2. UNCHANGED books
  BY DEF books, OnlyPrice, recordVars, mapVars
<1> QED
  BY <1>1, <1>2, SameBooks

\* The values are fetched of holders, which hold something.
LEMMA FetchBooked ==
  ASSUME TypeInv, Booked, NEW r, OnlyPrice(r), Alone', NEW p, Fetch(r, p), FanOf(work[r]),
         \A h \in indexed : quantity[h] # 0
  PROVE  Booked'
<1> DEFINE h == <<p, work[r].stock>>
<1>1. work[r].at = "fetch" /\ p \in work[r].todo
  BY DEF Fetch, Sends
<1>2. p \in Holders(work[r].stock)
  BY <1>1 DEF FanOf, Fetching
<1>3. quantity[h] # 0
  BY <1>2 DEF Holders
<1>4. ~Spend("misreads")
  BY DEF Spend, Alone, Bounds, TypeInv, UserInv, UserTypeOK, TypeOK
<1>5. PICK plan : plan # {} /\ Advance(r, p, "replace", plan, plan, {})
  BY <1>3, <1>4 DEF Fetch, Saw
<1>6. UNCHANGED <<usr, purchaseds, currents>>
  BY DEF Fetch, purchaseds, currents
<1>7. "replace" \in JobPhases
  BY DEF JobPhases
<1> QED
  BY <1>5, <1>6, <1>7, PriceQuiet

\* A value that is shown is of a plan that was answered.
LEMMA ShowBooked ==
  ASSUME TypeInv, Booked, NEW r, OnlyPrice(r), NEW i, Show(r, i), FanOf(work[r])
  PROVE  Booked'
<1>1. work[r].at = "show" /\ i \in work[r].todo
  BY DEF Show, Sends
<1>2. work[r].reply # {}
  BY <1>1 DEF FanOf, Showing
<1>3. UNCHANGED <<usr, purchaseds, currents>>
  BY DEF Show, purchaseds, currents
<1>4. "save" \in JobPhases
  BY DEF JobPhases
<1> QED
  BY <1>2, <1>3, <1>4, PriceQuiet DEF Show

\* A portfolio's answer is saved with the purchased value that there is.
LEMMA SaveBooked ==
  ASSUME TypeInv, Booked, NEW r, OnlyPrice(r), NEW a, Save(r, a), FanOf(work[r]),
         AnswersOf(work[r], purchaseds)
  PROVE  Booked'
<1> DEFINE users == {b.user : b \in work[r].reply} \ {Nobody}
           s == work[r].stock
<1>1. work[r].at = "save" /\ a \in work[r].todo
  BY DEF Save, Sends
<1>2. Saving(work[r]) /\ a.pv = purchaseds[a.pf]
  BY <1>1 DEF FanOf, AnswersOf
<1>3. users # {} \/ Owners(s) = {}
  <2> SUFFICES ASSUME NEW p \in Holders(s), owner[p] # Nobody PROVE owner[p] \in users
    BY DEF Owners
  <2>1. PICK b \in work[r].reply : b.pf = p
    BY <1>2 DEF Saving, Covers
  <2>2. b.user = owner[p]
    BY <1>2, <2>1 DEF Saving, AnswerTrue
  <2> QED
    BY <2>1, <2>2
<1>4. UNCHANGED <<usr, purchaseds, currents>>
  <2>1. a.pf \in Portfolios => a.pv = pf[a.pf].pv
    BY <1>2 DEF purchaseds
  <2>2. ASSUME NEW p \in Portfolios PROVE pf'[p].pv = pf[p].pv /\ pf'[p].cvp = pf[p].cvp
    BY <2>1 DEF Save, TypeInv, UserInv, UserTypeOK, TypeOK
  <2>3. purchaseds' = purchaseds /\ currents' = currents
    BY <2>2 DEF purchaseds, currents
  <2> QED
    BY <2>3 DEF Save
<1>5. PICK reply : Advance(r, a, "members", users, {}, reply)
  BY DEF Save
<1>6. "members" \in JobPhases
  BY DEF JobPhases
<1> HIDE DEF users, s
<1> QED
  BY <1>3, <1>4, <1>5, <1>6, PriceQuiet DEF s

\* A user has a total to come.
LEMMA MembersBooked ==
  ASSUME TypeInv, Booked, NEW r, OnlyPrice(r), NEW u, Members(r, u)
  PROVE  Booked' /\ (work'[r] # Idle => HasRead(work[r])')
<1> DEFINE plan == work[r].plan \cup ({u} \X members[u])
           totals == work[r].reply \cup {[user |-> u, total |-> 0]}
<1>1. UNCHANGED <<usr, purchaseds, currents>> /\ work[r].at = "members"
  BY DEF Members, Sends, purchaseds, currents
<1>2. totals # {}
  OBVIOUS
<1>3. \/ Advance(r, u, "values", plan, plan, totals) /\ plan # {}
      \/ Advance(r, u, "total", totals, plan, totals) /\ plan = {}
  BY DEF Members
<1>4. "values" \in JobPhases /\ "total" \in JobPhases
  BY DEF JobPhases
<1> HIDE DEF plan, totals
<1>5. Booked'
  BY <1>1, <1>2, <1>3, <1>4, PriceQuiet
<1>6. CASE Advance(r, u, "values", plan, plan, totals)
  <2>1. work'[r] # Idle => work'[r].at \in {"values", "members"}
    BY <1>1, <1>6, AdvancedOn DEF OnlyPrice, TypeInv
  <2> QED
    BY <1>5, <2>1 DEF HasRead
<1>7. CASE Advance(r, u, "total", totals, plan, totals) /\ plan = {}
  <2>1. work'[r] # Idle => work'[r].at \in {"total", "members"} /\ work'[r].plan = {}
    BY <1>1, <1>7, AdvancedOn DEF OnlyPrice, TypeInv
  <2> QED
    BY <1>5, <2>1 DEF HasRead
<1> QED
  BY <1>3, <1>6, <1>7

\* A portfolio's value is read for the totals there are.
LEMMA ValueBooked ==
  ASSUME TypeInv, Booked, NEW r, OnlyPrice(r), NEW u, NEW p, Value(r, u, p), FanOf(work[r])
  PROVE  Booked' /\ (work'[r] # Idle => HasRead(work[r])')
<1>1. UNCHANGED <<usr, purchaseds, currents>> /\ work[r].at = "values"
  BY DEF Value, Sends, purchaseds, currents
<1>2. PICK totals : /\ Advance(r, <<u, p>>, "total", totals, {}, totals)
                    /\ work[r].reply # {} => totals # {}
  <2> DEFINE more(a) == IF a.user = u THEN [a EXCEPT !.total = @ + pf[p].cvp] ELSE a
             totals == {more(a) : a \in work[r].reply}
  <2>1. Advance(r, <<u, p>>, "total", totals, {}, totals)
    BY DEF Value
  <2> HIDE DEF more
  <2>2. work[r].reply # {} => totals # {}
    OBVIOUS
  <2> HIDE DEF totals
  <2> QED
    BY <2>1, <2>2
<1>3. work[r].reply = {} => Owners(work[r].stock) = {}
  BY <1>1 DEF FanOf, Summing
<1>4. "total" \in JobPhases
  BY DEF JobPhases
<1>5. Booked'
  BY <1>1, <1>2, <1>3, <1>4, PriceQuiet
<1>6. work'[r] # Idle => work'[r].at \in {"total", "values"} /\ work'[r].plan = {}
  BY <1>1, <1>2, AdvancedOn DEF OnlyPrice, TypeInv
<1> QED
  BY <1>5, <1>6 DEF HasRead

\* The script's answer changes the sums of the users that the fan-out is about.
LEMMA ReplaceBooked ==
  ASSUME OneUserEach, TypeInv, TypeInv', Booked, BackedInv, Orderly, NEW r, OnlyPrice(r), NEW i,
         Replace(r, i), FanOf(work[r])
  PROVE  Booked'
<1> DEFINE s == work[r].stock
           p == i.pf
<1>1. work[r].at = "replace" /\ i \in work[r].todo /\ work[r].plan # {}
  BY DEF Replace, Sends, OnlyPrice, Working, JobTyped
<1>2. p \in Holders(s) /\ p \in Portfolios
  BY <1>1 DEF FanOf, Replacing, PlanFull, OnlyPrice, Working, JobTyped, Holders
<1>3. owner[p] # Nobody \/ Closed(p)
  <2>1. Owned(<<p, s>>)
    BY <1>2 DEF BackedInv, Backing, Holders
  <2> QED
    BY <2>1 DEF Owned, Deletes, Closed
<1>4. /\ \A u \in Users : Touched(u) => Touched(u)'
      /\ \A u \in Users : u \in Owners(s) => Touched(u)
  <2>1. PICK reply : Advance(r, i, "show", work[r].plan, work[r].plan, reply)
    BY DEF Replace
  <2>2. "show" \in JobPhases
    BY DEF JobPhases
  <2> QED
    BY <1>1, <2>1, <2>2, GoesOn, StillTouched, PriceParts
<1>5. /\ UNCHANGED <<owner, pending, members, usr, inPf, inUsr, returned, turned, counted, done>>
      /\ purchaseds' = purchaseds
      /\ \A q \in Portfolios : q # p => currents'[q] = currents[q]
  <2>1. ASSUME NEW q \in Portfolios PROVE pf'[q].pv = pf[q].pv /\ (q # p => pf'[q] = pf[q])
    BY <1>2 DEF Replace, TypeInv, UserInv, UserTypeOK, TypeOK
  <2>2. purchaseds' = purchaseds
    BY <2>1 DEF purchaseds
  <2> QED
    BY <2>1, <2>2 DEF currents, OnlyPrice, Replace, mapVars, eventVars, recordVars
<1>6. Registers' /\ \A u : Accounted(u)' = Accounted(u) /\ Created(u)' = Created(u)
  BY <1>3, <1>5, SameRegisters
<1>7. ASSUME NEW u \in Users PROVE Account(u)'
  <2>1. Account(u) /\ Owed(u)' = Owed(u) /\ (Unsaved(u) => Unsaved(u)')
    BY <1>4, <1>5 DEF Booked, Owed, Unsaved
  <2>2. CASE p \in Accounted(u)
    <3>1. owner[p] = u /\ u # Nobody
      BY <1>3, <2>2, NamesAssumption DEF Accounted, Booked, Registers, MappingOf
    <3>2. Touched(u)'
      BY <1>2, <1>4, <3>1 DEF Owners
    <3> QED
      BY <1>5, <1>6, <2>1, <3>2 DEF Account
  <2>3. CASE p \notin Accounted(u)
    <3> DEFINE S == Accounted(u)
    <3>1. \A q \in S : currents[q] = currents'[q]
      BY <1>5, <2>3 DEF Accounted
    <3>2. IsFiniteSet(S)
      BY <2>1 DEF Account
    <3>3. PICK f, g : f = currents /\ g = currents'
      OBVIOUS
    <3> HIDE DEF S
    <3>4. SumFunctionOnSet(f, S) = SumFunctionOnSet(g, S)
      BY <3>1, <3>2, <3>3, SumAgrees
    <3> QED
      BY <1>4, <1>5, <1>6, <2>1, <3>3, <3>4 DEF Account, S
  <2> QED
    BY <2>2, <2>3
<1> QED
  BY <1>6, <1>7 DEF Booked

\* The total is what a user's portfolios are worth, those its totals count.
LEMMA TotalBooked ==
  ASSUME OneUserEach, TypeInv, TypeInv', Booked, BackedInv, NEW r, OnlyPrice(r), NEW a,
         Total(r, a), FanOf(work[r]), HasRead(work[r])
  PROVE  Booked' /\ (work'[r] # Idle => HasRead(work[r])')
<1>1. work[r].at = "total" /\ a \in work[r].todo /\ r \in Pricers
  BY DEF Total, Sends, OnlyPrice
<1>2. /\ Totalling(work[r]) /\ a.user \in Users
      /\ work[r].plan \subseteq UserAnswer
  BY <1>1 DEF FanOf, OnlyPrice, Working, JobTyped, UserTotal
<1>3. PICK b, answers :
        /\ answers = work[r].plan \cup {b} /\ b.user = a.user
        /\ b.pv = usr[a.user].pv /\ b.n = usr[a.user].count
        /\ Advance(r, a, "users", answers, answers, {})
        /\ usr' = [usr EXCEPT ![a.user].cvp = a.total]
        /\ UNCHANGED pf
  <2> DEFINE hash == usr[a.user]
             b == [user |-> a.user, pv |-> hash.pv, cv |-> a.total, n |-> hash.count]
             answers == work[r].plan \cup {b}
  <2>1. /\ Advance(r, a, "users", answers, answers, {})
        /\ usr' = [usr EXCEPT ![a.user].cvp = a.total]
        /\ UNCHANGED pf
    BY DEF Total, NewTotal
  <2>2. b.user = a.user /\ b.pv = usr[a.user].pv /\ b.n = usr[a.user].count
    OBVIOUS
  <2> HIDE DEF b
  <2> QED
    BY <2>1, <2>2
<1>4. \A u \in Users : Touched(u) => Touched(u)'
  <2>1. "users" \in JobPhases /\ answers # {}
    BY <1>3 DEF JobPhases
  <2> QED
    BY <1>3, <2>1, GoesOn, StillTouched
<1>5. /\ UNCHANGED <<owner, pending, members, inPf, inUsr, returned, turned, counted, done,
                     purchaseds, currents>>
      /\ \A u \in Users :
           /\ usr'[u].pv = usr[u].pv /\ usr'[u].cv = usr[u].cv /\ usr'[u].count = usr[u].count
           /\ usr'[u].cvp = IF u = a.user THEN a.total ELSE usr[u].cvp
  <2>1. UNCHANGED <<owner, pending, members, inPf, inUsr, returned, turned, counted, done>>
    BY DEF OnlyPrice, recordVars, mapVars, eventVars
  <2>2. UNCHANGED <<purchaseds, currents>>
    BY <1>3 DEF purchaseds, currents
  <2> QED
    BY <1>2, <1>3, <2>1, <2>2 DEF TypeInv, UserInv, UserTypeOK, TypeOK, UserHash
<1>6. Registers' /\ \A u : Accounted(u)' = Accounted(u) /\ Created(u)' = Created(u)
  BY <1>5, SameRegisters
<1>7. a.total = SumFunctionOnSet(currents, Accounted(a.user))
  BY <1>1, <1>2, TotalCounts DEF Totalling
<1>8. ASSUME NEW u \in Users PROVE Account(u)'
  <2>1. /\ Account(u) /\ Owed(u)' = Owed(u) /\ Owed(u) = 0 /\ (Unsaved(u) => Unsaved(u)')
    BY <1>4, <1>5, PriceParts DEF Booked, Owed, Unsaved
  <2>2. a.total \in Int
    BY <1>1 DEF OnlyPrice, Working, JobTyped, UserTotal
  <2>3. CASE u # a.user
    BY <1>4, <1>5, <1>6, <2>1, <2>3 DEF Account
  <2>4. CASE u = a.user
    <3>1. usr'[u].cvp + Owed(u)' = SumFunctionOnSet(currents, Accounted(u))
      BY <1>5, <1>7, <2>1, <2>2, <2>4
    <3>2. usr'[u].cvp = usr[u].cvp \/ Touched(u)
      <4>1. usr[u].cvp \in Int
        BY TotalsTyped
      <4> QED
        BY <1>5, <1>7, <2>1, <2>4, <4>1 DEF Account
    <3>3. Unsaved(u)' \/ usr'[u].cv = usr'[u].cvp
      BY <1>4, <1>5, <2>1, <3>2 DEF Account, Unsaved
    <3> QED
      BY <1>5, <1>6, <2>1, <3>1, <3>3 DEF Account
  <2> QED
    BY <2>3, <2>4
<1>9. ASSUME work'[r] # Idle PROVE HasRead(work[r])'
  <2>1. /\ work'[r].plan = answers
        /\ \/ work'[r].at = "users" /\ work'[r].todo = answers
           \/ work'[r].at = "total"
    BY <1>1, <1>3, <1>9, AdvancedOn DEF OnlyPrice, TypeInv
  <2>2. \A c \in answers : c.pv = usr'[c.user].pv /\ c.n = usr'[c.user].count
    <3>1. \A c \in work[r].plan : c.user \in Users /\ Right(c)
      BY <1>1, <1>2 DEF HasRead, UserAnswer
    <3> QED
      BY <1>2, <1>3, <1>5, <3>1 DEF Right
  <2> QED
    BY <2>1, <2>2 DEF HasRead, Right
<1> QED
  BY <1>6, <1>8, <1>9 DEF Booked

\* A user that the fan-out leaves has the total it was given, and saved.
LEMMA SaveUsersBooked ==
  ASSUME OneUserEach, TypeInv, TypeInv', Booked, BackedInv, NEW r, OnlyPrice(r), NEW a,
         SaveUsers(r, a), FanOf(work[r]), HasRead(work[r])
  PROVE  Booked' /\ (work'[r] # Idle => HasRead(work[r])')
<1> DEFINE s == work[r].stock
<1>1. work[r].at = "users" /\ a \in work[r].todo /\ r \in Pricers
  BY DEF SaveUsers, Sends, OnlyPrice
<1>2. /\ Closing(work[r]) /\ work[r].todo \subseteq UserAnswer
      /\ Advance(r, a, "idle", {}, {}, {})
  BY <1>1 DEF FanOf, OnlyPrice, Working, JobTyped, SaveUsers
<1>3. /\ UNCHANGED <<scv, shown, pf>> /\ a.user \in Users
      /\ \A u \in Users : usr'[u].cvp = usr[u].cvp /\ (u # a.user => usr'[u] = usr[u])
      /\ usr'[a.user].cv = usr'[a.user].cvp
  BY <1>1, <1>2, SaveUsersHash
<1>4. \A u \in Users : usr'[u].pv = usr[u].pv /\ usr'[u].count = usr[u].count
  <2>1. a.pv = usr[a.user].pv /\ a.n = usr[a.user].count
    BY <1>1 DEF HasRead, Right
  <2>2. usr'[a.user].pv = a.pv /\ usr'[a.user].count = a.n
    BY <1>3 DEF SaveUsers, TypeInv, UserInv, UserTypeOK, TypeOK, UserHash
  <2> QED
    BY <1>3, <2>1, <2>2
<1>5. UNCHANGED <<owner, pending, members, inPf, inUsr, returned, turned, counted, done,
                  purchaseds, currents>>
  <2>1. UNCHANGED <<owner, pending, members, inPf, inUsr, returned, turned, counted, done>>
    BY DEF OnlyPrice, recordVars, mapVars, eventVars
  <2> QED
    BY <1>3, <2>1 DEF purchaseds, currents
<1>6. Registers' /\ \A u : Accounted(u)' = Accounted(u) /\ Created(u)' = Created(u)
  BY <1>5, SameRegisters
<1>7. ASSUME NEW u \in Users, Touched(u), ~Touched(u)'
      PROVE  usr'[u].cvp = TotalOf(u) /\ usr'[u].cv = usr'[u].cvp
  <2>1. u \in Owners(s) /\ work'[r] = Idle
    BY <1>2, <1>7, PriceParts, StillTouched
  <2>2. work[r].todo = {a}
    BY <1>2, <2>1, GoesOn
  <2> QED
    BY <1>2, <1>3, <2>1, <2>2 DEF Closing
<1>8. ASSUME NEW u \in Users PROVE Account(u)'
  <2>1. /\ Account(u) /\ Owed(u)' = Owed(u) /\ Owed(u) = 0 /\ (Unsaved(u) => Touched(u))
    BY <1>5, PriceParts DEF Booked, Owed
  <2>2. Touched(u)' \/ usr'[u].cvp + Owed(u)' = SumFunctionOnSet(currents, Accounted(u))
    <3>1. CASE Touched(u) /\ ~Touched(u)'
      <4>1. usr'[u].cvp = SumFunctionOnSet(currents, Accounted(u))
        BY <1>7, <3>1, TotalCounts
      <4>2. usr'[u].cvp \in Int
        BY <1>3, TotalsTyped
      <4> QED
        BY <2>1, <4>1, <4>2
    <3>2. CASE ~Touched(u)
      BY <1>3, <2>1, <3>2 DEF Account
    <3> QED
      BY <3>1, <3>2
  <2>3. Unsaved(u)' \/ usr'[u].cv = usr'[u].cvp
    <3>1. Touched(u)' => Unsaved(u)'
      BY DEF Unsaved
    <3>2. ~Touched(u) => usr[u].cv = usr[u].cvp
      BY <2>1 DEF Account
    <3> QED
      BY <1>3, <1>7, <3>1, <3>2
  <2>4. usr'[u].pv + Owed(u)' = usr[u].pv + Owed(u) /\ usr'[u].count = usr[u].count
    BY <1>4, <2>1
  <2> QED
    BY <1>5, <1>6, <2>1, <2>2, <2>3, <2>4 DEF Account
<1>9. ASSUME work'[r] # Idle PROVE HasRead(work[r])'
  <2>1. work'[r].at = "users" /\ work'[r].todo = work[r].todo \ {a}
    <3>1. work[r].todo # {a}
      BY <1>1, <1>2, <1>9 DEF Advance, Over, TypeInv, PricersTyped
    <3> QED
      BY <1>1, <1>2, <1>9, <3>1, AdvancedOn DEF OnlyPrice, TypeInv
  <2>2. \A c \in work[r].todo : c.pv = usr'[c.user].pv /\ c.n = usr'[c.user].count
    <3>1. \A c \in work[r].todo : c.user \in Users /\ Right(c)
      BY <1>1, <1>2 DEF HasRead, UserAnswer
    <3> QED
      BY <1>4, <3>1 DEF Right
  <2> QED
    BY <2>1, <2>2 DEF HasRead, Right
<1> QED
  BY <1>6, <1>8, <1>9 DEF Booked

\* A fan-out that is cut short is to come again.
LEMMA CutBooked ==
  ASSUME TypeInv, Booked, NEW r, OnlyPrice(r), CutShort(r)
  PROVE  Booked' /\ work'[r] = Idle
<1>1. work'[r] = Idle /\ cut' = cut \cup {work[r].stock}
  BY DEF CutShort, OnlyPrice, TypeInv, PricersTyped
<1>2. UNCHANGED <<usr, purchaseds, currents>>
  BY DEF CutShort, purchaseds, currents
<1>3. \A u \in Users : Touched(u) => Touched(u)'
  <2>1. \A u \in Users : Touched(u) => u \in Owners(work[r].stock)
    BY PriceParts
  <2>2. \A s : Owners(s)' = Owners(s)
    BY FanFrame DEF OnlyPrice
  <2>3. work[r].stock \in Stocks
    BY DEF OnlyPrice, Working, Jobs
  <2> QED
    BY <1>1, <2>1, <2>2, <2>3 DEF Touched
<1>4. UNCHANGED books
  BY <1>2 DEF books, OnlyPrice, recordVars, mapVars, eventVars
<1> QED
  BY <1>1, <1>3, <1>4, SameBooks

\* A price that comes leaves its stock's users to be made up.
LEMMA FindBooked ==
  ASSUME TypeInv, Booked, NEW r \in Pricers, work[r] = Idle, NEW s \in Stocks, NEW price,
         FindPortfolios(r, s, price), UNCHANGED recordVars
  PROVE  Booked' /\ UNCHANGED books
<1>1. UNCHANGED books
  BY DEF FindPortfolios, books, recordVars, mapVars, eventVars, purchaseds, currents
<1>2. /\ \A q \in Pricers \ {r} : work'[q] = work[q]
      /\ IF Holders(s) = {} THEN cut' = cut \ {s}
         ELSE cut' = cut /\ work'[r] # Idle /\ work'[r].stock = s
  <2> DEFINE job == [at |-> "fetch", stock |-> s, price |-> price, todo |-> Holders(s),
                     plan |-> {}, reply |-> {}]
  <2>1. /\ work' = [work EXCEPT ![r] = IF Holders(s) = {} THEN Idle ELSE job]
        /\ cut' = IF Holders(s) = {} THEN cut \ {s} ELSE cut
    BY DEF FindPortfolios, Holders
  <2>2. job # Idle /\ job.stock = s
    BY DEF Idle
  <2> HIDE DEF job
  <2> QED
    BY <2>1, <2>2 DEF TypeInv, PricersTyped
<1>3. \A z : Owners(z)' = Owners(z)
  BY FanFrame
<1>4. Holders(s) = {} => Owners(s) = {}
  BY DEF Owners
<1>5. ASSUME NEW u \in Users, Touched(u) PROVE Touched(u)'
  <2>1. PICK z \in Stocks : /\ z \in cut \/ \E q \in Pricers : work[q] # Idle /\ work[q].stock = z
                            /\ u \in Owners(z)
    BY <1>5 DEF Touched
  <2>2. CASE z = s
    BY <1>2, <1>3, <1>4, <2>1, <2>2 DEF Touched
  <2>3. CASE z # s
    <3>1. z \in cut => z \in cut'
      BY <1>2, <2>3
    <3>2. \A q \in Pricers : work[q] # Idle => work'[q] = work[q]
      BY <1>2
    <3> QED
      BY <1>3, <2>1, <3>1, <3>2 DEF Touched
  <2> QED
    BY <2>2, <2>3
<1> QED
  BY <1>1, <1>5, SameBooks

\* Before the last phases a fan-out has read nothing of a user.
LEMMA NotRead ==
  ASSUME TypeInv, NEW r, OnlyPrice(r), NEW x, NEW phase, NEW commands, NEW plan, NEW reply,
         Advance(r, x, phase, commands, plan, reply), work'[r] # Idle,
         {work[r].at, phase} \subseteq {"fetch", "replace", "show", "save", "members"}
  PROVE  HasRead(work[r])'
<1>1. work'[r].at \in {"fetch", "replace", "show", "save", "members"}
  BY AdvancedOn DEF OnlyPrice, TypeInv
<1> QED
  BY <1>1 DEF HasRead

\* What is left of the totals by each call of a fan-out.
LEMMA PriceBooked ==
  ASSUME OneUserEach, TypeInv, TypeInv', Booked, BackedInv, Orderly, Alone', NEW r, OnlyPrice(r),
         FanOf(work[r]), HasRead(work[r]), AnswersOf(work[r], purchaseds),
         \A h \in indexed : quantity[h] # 0,
         \/ \E x \in work[r].todo :
              \/ Fetch(r, x) \/ Replace(r, x) \/ Show(r, x) \/ Save(r, x)
              \/ Members(r, x) \/ Total(r, x) \/ SaveUsers(r, x)
         \/ \E u \in Users, p \in Portfolios : Value(r, u, p)
         \/ CutShort(r)
  PROVE  Booked' /\ (work'[r] # Idle => HasRead(work[r])')
<1>1. ASSUME NEW x, Fetch(r, x) PROVE Booked' /\ (work'[r] # Idle => HasRead(work[r])')
  <2>1. work[r].at = "fetch" /\ \E plan : Advance(r, x, "replace", plan, plan, {})
    BY <1>1 DEF Fetch, Sends
  <2> QED
    BY <1>1, <2>1, FetchBooked, NotRead
<1>2. ASSUME NEW x, Replace(r, x) PROVE Booked' /\ (work'[r] # Idle => HasRead(work[r])')
  <2>1. work[r].at = "replace" /\ \E plan, reply : Advance(r, x, "show", plan, plan, reply)
    BY <1>2 DEF Replace, Sends
  <2> QED
    BY <1>2, <2>1, ReplaceBooked, NotRead
<1>3. ASSUME NEW x, Show(r, x) PROVE Booked' /\ (work'[r] # Idle => HasRead(work[r])')
  <2>1. work[r].at = "show" /\ \E plan, reply : Advance(r, x, "save", reply, plan, reply)
    BY <1>3 DEF Show, Sends
  <2> QED
    BY <1>3, <2>1, ShowBooked, NotRead
<1>4. ASSUME NEW x, Save(r, x) PROVE Booked' /\ (work'[r] # Idle => HasRead(work[r])')
  <2>1. work[r].at = "save" /\ \E users, reply : Advance(r, x, "members", users, {}, reply)
    BY <1>4 DEF Save, Sends
  <2> QED
    BY <1>4, <2>1, SaveBooked, NotRead
<1> QED
  BY <1>1, <1>2, <1>3, <1>4, MembersBooked, ValueBooked, TotalBooked, SaveUsersBooked, CutBooked

\* A fan-out keeps the users' totals.
LEMMA PricerAccounts ==
  ASSUME OneUserEach, TypeInv, TypeInv', LoneInv, DeletionInv, PurchasedInv, FanInv, AccountInv,
         ValuationNext, PricerStep
  PROVE  AccountInv'
<1>1. UNCHANGED recordVars /\ SpendsOne
  BY PricerAlone DEF PricerStep, TypeInv
<1>2. SUFFICES ASSUME Orderly', torn' = {} PROVE Accounts'
  BY DEF AccountInv
<1>3. Orderly /\ torn = {} /\ Accounts
  BY <1>1, <1>2, OrderlyBefore DEF TypeInv, ValuationNext, AccountInv
<1>4. ~TooLate'
  BY <1>2, <1>3, InTime DEF TypeInv, Accounts
<1>5. Booked /\ BackedInv /\ Fanning /\ Answered /\ Alone'
  BY <1>2, <1>3 DEF Accounts, Booked, FanInv, PurchasedInv, Orderly
<1>6. PICK r \in Pricers :
        IF work[r] = Idle
          THEN \E s \in Stocks, price \in Prices : FindPortfolios(r, s, price)
          ELSE \/ \E x \in work[r].todo :
                    \/ Fetch(r, x) \/ Replace(r, x) \/ Show(r, x) \/ Save(r, x)
                    \/ Members(r, x) \/ Total(r, x) \/ SaveUsers(r, x)
               \/ \E u \in Users, p \in Portfolios : Value(r, u, p)
               \/ CutShort(r)
  BY DEF PricerStep
<1>7. CASE work[r] = Idle
  <2>1. PICK s \in Stocks, price \in Prices : FindPortfolios(r, s, price)
    BY <1>6, <1>7
  <2>2. Booked' /\ UNCHANGED books
    BY <1>1, <1>5, <1>7, <2>1, FindBooked
  <2>3. UNCHANGED <<usr, owner, pc, trade, snap>> /\ UNCHANGED keeperVars
    BY <1>1, <2>2 DEF books, recordVars, localVars
  <2>4. AllServing'
    BY <1>3, <2>3 DEF Accounts, AllServing, Serving, SnapOf
  <2>5. AllEntering'
    BY <1>3, <2>2, <2>3, SameEntering DEF Accounts
  <2>6. AllRead'
    <3>1. /\ \A q \in Pricers \ {r} : work'[q] = work[q]
          /\ work'[r] = Idle \/ work'[r].at = "fetch"
      BY <2>1 DEF FindPortfolios, TypeInv, PricersTyped
    <3> QED
      BY <1>3, <2>3, <3>1 DEF Accounts, AllRead, HasRead, Right
  <2> QED
    BY <1>4, <2>2, <2>4, <2>5, <2>6 DEF Accounts, Booked
<1>8. CASE work[r] # Idle
  <2>1. OnlyPrice(r)
    BY <1>1, <1>3, <1>8, PriceAlone
  <2>2. /\ FanOf(work[r]) /\ HasRead(work[r]) /\ AnswersOf(work[r], purchaseds)
        /\ \A h \in indexed : quantity[h] # 0
    BY <1>3, <1>5, <1>8, HeldBySet DEF Fanning, Answered, Accounts, AllRead
  <2>3. Booked' /\ (work'[r] # Idle => HasRead(work[r])')
    BY <1>3, <1>5, <1>6, <1>8, <2>1, <2>2, PriceBooked
  <2>4. PricerMoves(r)
    BY <1>6, <1>8, PricerWorks DEF TypeInv
  <2>5. AllRead'
    BY <2>1, <2>3, <2>4 DEF AllRead, OnlyPrice, PricerMoves
  <2>6. AllServing' /\ AllEntering'
    BY <1>1, <2>1 DEF AllServing, AllEntering, OnlyPrice, recordVars, keeperVars
  <2> QED
    BY <1>4, <2>3, <2>5, <2>6 DEF Accounts, Booked
<1> QED
  BY <1>7, <1>8

----------------------------------------------------------------------------
(* The theorem *)

\* At first nothing is counted,
LEMMA AccountInit == ASSUME OneUserEach, ValuationInit PROVE AccountInv
<1> USE DEF ValuationInit, UserInit, Init
<1>1. AllServing /\ AllEntering /\ AllRead /\ ~TooLate
  BY DEF AllServing, AllEntering, AllRead, TooLate
<1>2. Registers
  <2>1. ASSUME NEW p \in Portfolios PROVE MappingOf(p)
    <3>1. Untraded(p)
      BY DEF Untraded, purchaseds, currents, inHolding
    <3> QED
      BY <3>1 DEF MappingOf
  <2> QED
    BY <2>1 DEF Registers
<1>3. ASSUME NEW u \in Users PROVE Account(u)
  <2>1. Accounted(u) = {} /\ Created(u) = {}
    BY DEF Accounted, Created, Opened
  <2>2. Owed(u) = 0
    <3>1. {t \in inPf \ inUsr : t.user = u} = {}
      OBVIOUS
    <3>2. Sum({}) = 0
      BY SumEmpty DEF Sum
    <3> QED
      BY <3>1, <3>2 DEF Owed
  <2>3. \A f : SumFunctionOnSet(f, {}) = 0
    BY SumEmpty
  <2>4. IsFiniteSet({}) /\ Cardinality({}) = 0
    BY FS_EmptySet
  <2>5. usr[u].pv = 0 /\ usr[u].cvp = 0 /\ usr[u].cv = 0 /\ usr[u].count = 0
    OBVIOUS
  <2> QED
    BY <2>1, <2>2, <2>3, <2>4, <2>5 DEF Account
<1> QED
  BY <1>1, <1>2, <1>3 DEF AccountInv, Accounts

\* What the users' totals are proved from.
AllInv == TypeInv /\ LoneInv /\ DeletionInv /\ PurchasedInv /\ FanInv /\ AccountInv

\* and every step keeps the users' totals to what their portfolios' are.
LEMMA AccountStep ==
  ASSUME OneUserEach, AllInv, [ValuationNext]_allVars
  PROVE  AllInv'
<1> USE DEF AllInv
<1>1. TypeInv' /\ LoneInv' /\ DeletionInv' /\ PurchasedInv' /\ FanInv'
  BY TypeStep, LoneStep, DeletionStep, PurchasedStep, FanStep
<1>2. CASE UNCHANGED allVars
  <2>1. UNCHANGED books /\ UNCHANGED keeperVars /\ UNCHANGED <<work, cut, indexed, pc, trade, snap>>
    <3>1. UNCHANGED <<vars, eventVars, keeperVars, pricerVars>>
      BY <1>2 DEF allVars, userVars
    <3>2. UNCHANGED <<pf, usr, inPf, inUsr, owner, pending, members, returned, turned, indexed, pc,
                      trade, snap>>
      BY <3>1 DEF vars, holdingVars, hashVars, mapVars, localVars
    <3>3. UNCHANGED <<purchaseds, currents>>
      BY <3>2 DEF purchaseds, currents
    <3> QED
      BY <3>1, <3>2, <3>3 DEF books, pricerVars
  <2>2. SUFFICES ASSUME Orderly, torn = {} PROVE Accounts'
    <3>1. UNCHANGED <<torn, overlaps, spent>>
      BY <1>2 DEF allVars, userVars, vars
    <3> QED
      BY <1>1, <3>1 DEF AccountInv, Orderly, Alone
  <2>3. Accounts /\ Booked
    BY <2>2 DEF AccountInv, Accounts, Booked
  <2>4. \A u : Touched(u)' <=> Touched(u)
    BY <2>1 DEF books, Touched, Owners, Holders
  <2>5. Booked' /\ AllEntering'
    BY <2>1, <2>3, <2>4, SameBooks, SameEntering DEF Accounts
  <2>6. AllServing' /\ AllRead' /\ ~TooLate'
    BY <2>1, <2>3 DEF Accounts, AllServing, Serving, SnapOf, AllRead, HasRead, Right, TooLate, books,
       eventVars
  <2> QED
    BY <2>5, <2>6 DEF Accounts, Booked
<1>3. CASE ValuationNext
  BY <1>1, <1>3, TradeAccounts, KeeperAccounts, PricerAccounts DEF ValuationNext, UserNext, FanInv
<1> QED
  BY <1>1, <1>2, <1>3

\* Between the records and prices all that was begun is finished.
LEMMA AllFinished ==
  ASSUME TypeInv, LoneInv, Marked, Orderly, AtWork = 0
  PROVE  /\ inPf \subseteq inUsr /\ inUsr \subseteq returned /\ counted \subseteq done
         /\ cut = {} /\ \A r \in Pricers : work[r] = Idle
<1> DEFINE A == Handled
           B == Kept
           C == Priced
<1>1. AtMostOne(A) /\ AtMostOne(B) /\ AtMostOne(C)
  BY DEF LoneInv, OneAtWork, OneOf, Orderly
<1>2. AtWork = Cardinality(A) + Cardinality(B) + Cardinality(C)
  BY DEF AtWork, Handled, Kept, Priced
<1> HIDE DEF A, B, C
<1>3. /\ (A = {} /\ Cardinality(A) = 0) \/ Cardinality(A) = 1
      /\ (B = {} /\ Cardinality(B) = 0) \/ Cardinality(B) = 1
      /\ (C = {} /\ Cardinality(C) = 0) \/ Cardinality(C) = 1
  BY <1>1, NoneOrOne
<1>4. A = {} /\ B = {} /\ C = {}
  BY <1>2, <1>3
<1>5. cut = {} /\ \A r \in Pricers : work[r] = Idle
  BY <1>4 DEF C, Priced
<1>6. counted \subseteq done
  BY <1>4, EventsAssumption DEF B, Kept, TypeInv, UserInv, UserTypeOK
<1>7. inPf \subseteq inUsr /\ inUsr \subseteq returned
  <2>1. inHolding \subseteq returned /\ Underway = {}
    BY <1>4, NothingUnderway DEF A, Handled, inHolding
  <2> QED
    BY <2>1 DEF Underway, TypeInv, UserInv, MarkerInv, MarkersInOrder
<1> QED
  BY <1>5, <1>6, <1>7

\* Then the registers say whose a portfolio is.
LEMMA SettledMapping ==
  ASSUME OneUserEach, Registers, counted \subseteq done, NEW u \in Users
  PROVE  /\ PortfoliosOf(u) = Accounted(u)
         /\ PortfoliosOf(u) \ pending = Created(u)
         /\ PortfoliosOf(u) \subseteq members[u]
<1>1. ASSUME NEW p \in Portfolios
      PROVE  /\ MappingOf(p) /\ (Closed(p) => Off(p))
             /\ Opened(p) /\ ~Closed(p) => Enrolled(p)
  BY DEF Registers, Opened, Closed, Finished
<1>2. u # Nobody
  BY NamesAssumption
<1>3. ASSUME NEW p \in Portfolios
      PROVE  /\ owner[p] = u => p \in Accounted(u) /\ p \in members[u]
             /\ p \in Accounted(u) => owner[p] = u
             /\ owner[p] = u /\ p \notin pending => p \in Created(u)
             /\ p \in Created(u) => owner[p] = u /\ p \notin pending
  <2>1. /\ MappingOf(p) /\ (Closed(p) => owner[p] = Nobody)
        /\ Opened(p) /\ ~Closed(p) => owner[p] # Nobody /\ p \notin pending
    BY <1>1 DEF Off, Enrolled
  <2>2. /\ owner[p] = u => UserOf(p) = u /\ ~Closed(p)
        /\ owner[p] # Nobody => owner[p] = UserOf(p)
    BY <1>2, <2>1 DEF MappingOf
  <2> QED
    BY <1>2, <2>1, <2>2 DEF MappingOf, Accounted, Created
<1> QED
  BY <1>3 DEF PortfoliosOf, Accounted, Created

\* When a portfolio's records name one user, and a record or price is handled
\* after another, each of them failing and coming again at any step, a user's
\* totals between them are its portfolios' sums and their number, and its set
\* names them.
THEOREM UsersSettle ==
  ASSUME OneUserEach
  PROVE  ValuationSpec => []UserSettled
<1>1. AllInv /\ [ValuationNext]_allVars => AllInv'
  BY AccountStep
<1>2. ValuationInit => AllInv
  BY TypeInit, LoneInit, DeletionInit, PurchasedInit, FanInit, AccountInit DEF AllInv
<1>3. AllInv => UserSettled
  <2> SUFFICES ASSUME AllInv, Orderly, AtWork = 0, torn = {}, NEW u \in Users
               PROVE  /\ usr[u].pv = SumFunctionOnSet(purchaseds, PortfoliosOf(u))
                      /\ usr[u].cvp = SumFunctionOnSet(currents, PortfoliosOf(u))
                      /\ usr[u].cv = usr[u].cvp
                      /\ usr[u].count = Cardinality(PortfoliosOf(u) \ pending)
                      /\ PortfoliosOf(u) \subseteq members[u]
                      /\ \A p \in members[u] \ PortfoliosOf(u) :
                           \E t \in Trades \ returned : t.pf = p
    BY DEF UserSettled, purchaseds
  <2>1. TypeInv /\ LoneInv /\ Marked /\ Registers /\ Account(u)
    BY DEF AllInv, DeletionInv, AccountInv, Accounts
  <2>2. /\ inPf \subseteq inUsr /\ inUsr \subseteq returned /\ counted \subseteq done
        /\ cut = {} /\ \A r \in Pricers : work[r] = Idle
    BY <2>1, AllFinished
  <2>3. /\ PortfoliosOf(u) = Accounted(u)
        /\ PortfoliosOf(u) \ pending = Created(u)
        /\ PortfoliosOf(u) \subseteq members[u]
    BY <2>1, <2>2, SettledMapping
  <2>4. Owed(u) = 0
    <3>1. {t \in inPf \ inUsr : t.user = u} = {}
      BY <2>2
    <3>2. Sum({}) = 0
      BY SumEmpty DEF Sum
    <3> QED
      BY <3>1, <3>2 DEF Owed
  <2>5. ~Unsaved(u) /\ ~Touched(u)
    BY <2>2 DEF Unsaved, Touched
  <2>6. usr[u].pv \in Int /\ usr[u].cvp \in Int
    BY <2>1, TotalsTyped
  <2>7. ASSUME NEW p \in members[u], p \notin PortfoliosOf(u)
        PROVE  \E t \in Trades \ returned : t.pf = p
    <3>1. p \in Portfolios /\ MappingOf(p)
      BY <2>1 DEF Registers, TypeInv, UserInv, UserTypeOK, TypeOK
    <3>2. owner[p] = Nobody /\ Awaited(p)
      BY <2>7, <3>1 DEF MappingOf, PortfoliosOf
    <3> QED
      BY <2>2, <3>2 DEF Awaited
  <2>8. /\ usr[u].pv = SumFunctionOnSet(purchaseds, Accounted(u))
        /\ usr[u].cvp = SumFunctionOnSet(currents, Accounted(u))
        /\ usr[u].cv = usr[u].cvp /\ usr[u].count = Cardinality(Created(u))
    <3>1. /\ usr[u].pv + Owed(u) = SumFunctionOnSet(purchaseds, Accounted(u))
          /\ usr[u].cvp + Owed(u) = SumFunctionOnSet(currents, Accounted(u))
          /\ usr[u].cv = usr[u].cvp /\ usr[u].count = Cardinality(Created(u))
      BY <2>1, <2>5 DEF Account
    <3> QED
      BY <2>4, <2>6, <3>1
  <2> QED
    BY <2>3, <2>7, <2>8
<1> QED
  BY <1>1, <1>2, <1>3, PTL DEF ValuationSpec
=============================================================================

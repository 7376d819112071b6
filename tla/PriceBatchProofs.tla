-------------------------- MODULE PriceBatchProofs --------------------------
(***************************************************************************)
(* Proofs about PriceBatch: whatever messages a poll returns, in whatever   *)
(* order, handleStockMessages keeps the newest event of each stock, asks    *)
(* for each stock once and accounts for every message.                      *)
(***************************************************************************)
EXTENDS PriceBatch, TLAPS, SequenceTheorems

\* What `order`, `latest` and `reqs` have to do with each other.
Linked ==
  /\ \A s \in Stocks : latest[s] # None => latest[s].stock = s /\ Valid(latest[s])
  /\ \A i \in 1..Len(order) : latest[order[i]] # None
  /\ \A s \in Stocks : latest[s] # None => \E i \in 1..Len(order) : order[i] = s
  /\ \A i, j \in 1..Len(order) : order[i] = order[j] => i = j
  /\ \A i \in 1..Len(reqs) : \E j \in 1..built : order[j] = reqs[i].stock

SkippedInAll ==
  skipped["invalid"] + skipped["stale"] + skipped["duplicate"] + skipped["conflict"]

\* What the first loop has read is skipped, a request, or yet to be built.
Balanced == SkippedInAll + Len(reqs) + (Len(order) - built) = next - 1

Inv == TypeOK /\ Linked /\ NewestIsKept /\ OneRequestPerStock /\ Balanced

----------------------------------------------------------------------------
(* Versions and requests *)

\* The version of an event that handleStockMessages lets through is positive.
LEMMA VersionPositive ==
  ASSUME NEW m \in Messages, Valid(m)
  PROVE  Version(m) \in Nat \ {0}
<1>1. CASE m.priceVersion > 0
  BY <1>1, MessagesAssumption DEF Version
<1>2. CASE ~(m.priceVersion > 0)
  <2>1. m.at - KST \in Nat \ {0}
    BY MessagesAssumption, UnitsAssumption DEF Valid
  <2>2. \A a, b \in Nat \ {0} : a * b \in Nat \ {0}
    OBVIOUS
  <2>3. (m.at - KST) * PerSecond \in Nat \ {0}
    BY <2>1, <2>2, UnitsAssumption
  <2> QED
    BY <1>2, <2>3 DEF Version, VersionFromWallClock
<1> QED
  BY <1>1, <1>2

\* A request has the type of an accepted price.
LEMMA RequestType ==
  ASSUME NEW m \in Messages, Valid(m)
  PROVE  /\ Request(m) \in [stock : Stocks, price : Nat, ver : Nat \ {0}]
         /\ Request(m).stock = m.stock
<1>1. m.price \in Nat /\ m.stock \in Stocks
  BY MessagesAssumption
<1>2. m.price \div Fraction \in Nat
  BY <1>1, UnitsAssumption
<1>3. Version(m) \in Nat \ {0}
  BY VersionPositive
<1> QED
  BY <1>1, <1>2, <1>3 DEF Request

\* ReasonOf names one of the reasons.
LEMMA ReasonType == \A m, kept : ReasonOf(m, kept) \in Reasons
BY DEF ReasonOf, Reasons

\* One skip more is counted once.
LEMMA SkipCounts ==
  ASSUME TypeOK, NEW reason \in Reasons, Skip(reason)
  PROVE  /\ skipped' \in [Reasons -> Nat]
         /\ SkippedInAll' = SkippedInAll + 1
<1>1. skipped \in [Reasons -> Nat]
  BY DEF TypeOK
<1>2. skipped' = [skipped EXCEPT ![reason] = @ + 1]
  BY DEF Skip
<1>3. \A r \in Reasons : skipped'[r] = IF r = reason THEN skipped[r] + 1 ELSE skipped[r]
  BY <1>1, <1>2
<1>4. skipped' \in [Reasons -> Nat]
  BY <1>1, <1>2
<1> QED
  BY <1>1, <1>3, <1>4 DEF SkippedInAll, Reasons

----------------------------------------------------------------------------
(* What the first loop has seen *)

\* Versions are integers.
LEMMA VersionInt == \A m \in Messages : Version(m) \in Int
<1> SUFFICES ASSUME NEW m \in Messages PROVE Version(m) \in Int
  OBVIOUS
<1>1. m.at - KST \in Int /\ PerSecond \in Int /\ m.priceVersion \in Int
  BY MessagesAssumption, UnitsAssumption
<1>2. \A a, b \in Int : a * b \in Int
  OBVIOUS
<1>3. (m.at - KST) * PerSecond \in Int
  BY <1>1, <1>2
<1> QED
  BY <1>1, <1>3 DEF Version, VersionFromWallClock

\* An iteration of the first loop adds its message to those of its stock.
LEMMA SeenGrows ==
  ASSUME TypeOK, Reading, next' = next + 1, batch' = batch, NEW s
  PROVE  Seen(s)' = Seen(s) \cup
           IF Valid(batch[next]) /\ batch[next].stock = s THEN {next} ELSE {}
BY DEF TypeOK, Reading, Seen

\* A message that is dropped is in no stock's set, and of a message that is
\* not, the other stocks' sets are as they were.
LEMMA OthersAreKept ==
  ASSUME TypeOK, Reading, next' = next + 1, batch' = batch, NewestIsKept,
         NEW s \in Stocks, latest'[s] = latest[s],
         ~(Valid(batch[next]) /\ batch[next].stock = s)
  PROVE  IF latest'[s] = None THEN Seen(s)' = {}
         ELSE \E i \in 1..(next' - 1) : IsNewest(i, s)' /\ latest'[s] = batch'[i]
<1>1. Seen(s)' = Seen(s)
  BY SeenGrows
<1>2. \A i : IsNewest(i, s)' <=> IsNewest(i, s)
  BY <1>1 DEF IsNewest, Version
<1>3. 1..(next - 1) \subseteq 1..(next' - 1)
  BY DEF TypeOK
<1> QED
  BY <1>1, <1>2, <1>3 DEF NewestIsKept

\* A message with the highest version is the newest from then on.
LEMMA NewcomerIsNewest ==
  ASSUME TypeOK, Reading, next' = next + 1, batch' = batch,
         NEW n \in Nat, n = next, NEW m, m = batch[n], Valid(m),
         NEW s, m.stock = s, \A j \in Seen(s) : Version(batch[j]) < Version(m)
  PROVE  IsNewest(n, s)' /\ n \in 1..(next' - 1)
<1>1. Seen(s)' = Seen(s) \cup {n}
  BY SeenGrows
<1>2. n \in 1..(next' - 1)
  BY DEF TypeOK
<1>3. \A j \in Seen(s)' : \/ Version(batch[j]) < Version(batch[n])
                          \/ Version(batch[j]) = Version(batch[n]) /\ n <= j
  BY <1>1
<1> QED
  BY <1>1, <1>2, <1>3 DEF IsNewest, Version

\* The newest one stays it when a message comes that is not newer.
LEMMA NewestStays ==
  ASSUME TypeOK, Reading, next' = next + 1, batch' = batch,
         NEW m, m = batch[next], Valid(m), NEW s, m.stock = s,
         NEW i \in 1..(next - 1), IsNewest(i, s), ~Newer(m, batch[i])
  PROVE  IsNewest(i, s)' /\ i \in 1..(next' - 1)
<1>1. Seen(s)' = Seen(s) \cup {next}
  BY SeenGrows
<1>2. m \in Messages /\ batch[i] \in Messages /\ i \in Nat /\ next \in Nat
  BY DEF TypeOK, Reading
<1>3. Version(m) < Version(batch[i]) \/ Version(m) = Version(batch[i])
  BY <1>2, VersionInt DEF Newer
<1>4. i \in 1..(next' - 1) /\ i <= next
  BY <1>2
<1>5. \A j \in Seen(s)' : \/ Version(batch[j]) < Version(batch[i])
                          \/ Version(batch[j]) = Version(batch[i]) /\ i <= j
  BY <1>1, <1>3, <1>4 DEF IsNewest
<1> QED
  BY <1>1, <1>4, <1>5 DEF IsNewest, Version

----------------------------------------------------------------------------
(* The invariant *)

\* A poll returns messages, and nothing has been done with them yet.
LEMMA InitInv == Init => Inv
<1> SUFFICES ASSUME Init PROVE Inv
  OBVIOUS
<1>1. batch \in Seq(Messages)
  <2>1. PICK n \in 1..MaxPollRecords : batch \in [1..n -> Messages]
    BY DEF Init
  <2> QED
    BY <2>1, UnitsAssumption
<1>2. TypeOK
  BY <1>1 DEF Init, TypeOK
<1>3. Linked
  BY DEF Init, Linked
<1>4. NewestIsKept
  <2>1. \A s \in Stocks : latest[s] = None
    BY DEF Init
  <2>2. 1..(next - 1) = {}
    BY DEF Init
  <2>3. \A s : Seen(s) = {}
    BY <2>2 DEF Seen
  <2> QED
    BY <2>1, <2>3 DEF NewestIsKept
<1>5. OneRequestPerStock
  BY DEF Init, OneRequestPerStock
<1>6. Balanced
  BY DEF Init, Balanced, SkippedInAll, Reasons
<1> QED
  BY <1>2, <1>3, <1>4, <1>5, <1>6 DEF Inv

\* Drop: the message is no event, and only counted.
LEMMA DropInv == Inv /\ Drop => Inv'
<1> SUFFICES ASSUME Inv, Drop PROVE Inv'
  OBVIOUS
<1> USE DEF Inv, Drop
<1>1. SkippedInAll' = SkippedInAll + 1 /\ skipped' \in [Reasons -> Nat]
  BY SkipCounts DEF Reasons
<1>2. TypeOK'
  BY <1>1 DEF TypeOK, Reading
<1>3. Linked'
  BY DEF Linked, Valid
<1>4. NewestIsKept'
  BY OthersAreKept DEF NewestIsKept
<1>5. OneRequestPerStock'
  BY DEF OneRequestPerStock
<1>6. Balanced'
  <2>1. SkippedInAll \in Int /\ next \in Int /\ Len(order) \in Nat /\ Len(reqs) \in Nat
        /\ built \in Int
    BY DEF TypeOK, SkippedInAll, Reasons
  <2> QED
    BY <1>1, <2>1 DEF Balanced
<1> QED
  BY <1>2, <1>3, <1>4, <1>5, <1>6

\* First: the stock is met, and listed for the second loop.
LEMMA FirstInv == Inv /\ First => Inv'
<1> SUFFICES ASSUME Inv, First PROVE Inv'
  OBVIOUS
<1> USE DEF Inv
<1>1. PICK m \in Messages :
        /\ Compared(m, None) /\ Keep(m)
        /\ order' = Append(order, m.stock) /\ next' = next + 1
        /\ UNCHANGED <<batch, built, reqs, skipped>>
  BY DEF First
<1>2. /\ Reading /\ m = batch[next] /\ Valid(m) /\ latest[m.stock] = None
      /\ latest' = [latest EXCEPT ![m.stock] = m]
  BY <1>1 DEF Compared, Keep
<1>3. m.stock \in Stocks /\ m # None
  BY MessagesAssumption, UnitsAssumption
<1>4. TypeOK'
  BY <1>1, <1>2, <1>3 DEF TypeOK, Reading
<1>5. /\ Len(order') = Len(order) + 1 /\ Len(order) \in Nat /\ built \in Nat
      /\ order'[Len(order) + 1] = m.stock
      /\ \A i \in 1..Len(order) : order'[i] = order[i]
      /\ built <= Len(order)
  BY <1>1, <1>3 DEF TypeOK
<1>6. \A i \in 1..Len(order) : order[i] # m.stock /\ order[i] \in Stocks
  BY <1>2 DEF Linked, TypeOK
<1>7. Linked'
  <2>1. \A s \in Stocks : latest'[s] = IF s = m.stock THEN m ELSE latest[s]
    BY <1>2, <1>3 DEF TypeOK
  <2>2. \A s \in Stocks : latest'[s] # None => latest'[s].stock = s /\ Valid(latest'[s])
    BY <1>2, <2>1 DEF Linked, Valid
  <2>3. \A i \in 1..Len(order') : latest'[order'[i]] # None
    BY <1>3, <1>5, <1>6, <2>1 DEF Linked
  <2>4. \A s \in Stocks : latest'[s] # None => \E i \in 1..Len(order') : order'[i] = s
    BY <1>5, <2>1 DEF Linked
  <2>5. \A i, j \in 1..Len(order') : order'[i] = order'[j] => i = j
    BY <1>5, <1>6 DEF Linked
  <2>6. \A i \in 1..Len(reqs') : \E j \in 1..built' : order'[j] = reqs'[i].stock
    BY <1>1, <1>5 DEF Linked
  <2> QED
    BY <2>2, <2>3, <2>4, <2>5, <2>6 DEF Linked, Valid
<1>8. NewestIsKept'
  <2> SUFFICES ASSUME NEW s \in Stocks
               PROVE  IF latest'[s] = None THEN Seen(s)' = {}
                      ELSE \E i \in 1..(next' - 1) :
                             IsNewest(i, s)' /\ latest'[s] = batch'[i]
    BY DEF NewestIsKept
  <2>1. CASE s = m.stock
    <3>1. Seen(s) = {} /\ next \in Nat /\ latest'[s] = m
      BY <1>2, <1>3, <2>1 DEF NewestIsKept, TypeOK
    <3>2. PICK n \in Nat : n = next
      BY <3>1
    <3>3. IsNewest(n, s)' /\ n \in 1..(next' - 1)
      BY <1>1, <1>2, <2>1, <3>1, <3>2, NewcomerIsNewest
    <3> QED
      BY <1>1, <1>2, <1>3, <3>1, <3>2, <3>3
  <2>2. CASE s # m.stock
    BY <1>1, <1>2, <1>3, <2>2, OthersAreKept DEF TypeOK
  <2> QED
    BY <2>1, <2>2
<1>9. OneRequestPerStock'
  BY <1>1 DEF OneRequestPerStock
<1>10. Balanced'
  <2>1. SkippedInAll' = SkippedInAll /\ SkippedInAll \in Int /\ next \in Int
        /\ Len(reqs) \in Nat
    BY <1>1 DEF TypeOK, SkippedInAll, Reasons
  <2> QED
    BY <1>1, <1>5, <2>1 DEF Balanced
<1> QED
  BY <1>4, <1>7, <1>8, <1>9, <1>10

\* Replace: the newer event takes the place of the one kept.
LEMMA ReplaceInv == Inv /\ Replace => Inv'
<1> SUFFICES ASSUME Inv, Replace PROVE Inv'
  OBVIOUS
<1> USE DEF Inv
<1>1. PICK m \in Messages, kept \in Messages :
        /\ Compared(m, kept) /\ Newer(m, kept) /\ Keep(m) /\ Skip("stale")
        /\ next' = next + 1
        /\ UNCHANGED <<batch, order, built, reqs>>
  BY DEF Replace
<1>2. /\ Reading /\ m = batch[next] /\ Valid(m) /\ latest[m.stock] = kept
      /\ latest' = [latest EXCEPT ![m.stock] = m]
  BY <1>1 DEF Compared, Keep
<1>3. m.stock \in Stocks /\ m # None /\ kept # None
  BY MessagesAssumption, UnitsAssumption
<1>4. SkippedInAll' = SkippedInAll + 1 /\ skipped' \in [Reasons -> Nat]
  BY <1>1, SkipCounts DEF Reasons
<1>5. TypeOK'
  BY <1>1, <1>2, <1>3, <1>4 DEF TypeOK, Reading
<1>6. \A s \in Stocks : latest'[s] = IF s = m.stock THEN m ELSE latest[s]
  BY <1>2, <1>3 DEF TypeOK
<1>7. \A i \in 1..Len(order) : order[i] \in Stocks
  BY DEF TypeOK
<1>8. Linked'
  BY <1>1, <1>2, <1>3, <1>6, <1>7 DEF Linked, Valid
<1>9. NewestIsKept'
  <2> SUFFICES ASSUME NEW s \in Stocks
               PROVE  IF latest'[s] = None THEN Seen(s)' = {}
                      ELSE \E i \in 1..(next' - 1) :
                             IsNewest(i, s)' /\ latest'[s] = batch'[i]
    BY DEF NewestIsKept
  <2>1. CASE s = m.stock
    <3>1. PICK n \in Nat : n = next
      BY DEF TypeOK
    <3>2. PICK i \in 1..(next - 1) : IsNewest(i, s) /\ kept = batch[i]
      BY <1>2, <1>3, <2>1 DEF NewestIsKept
    <3>3. \A j \in Seen(s) : batch[j] \in Messages
      BY DEF TypeOK, Seen
    <3>4. \A j \in Seen(s) : Version(batch[j]) < Version(m)
      BY <1>1, <3>2, <3>3, VersionInt DEF IsNewest, Newer
    <3>5. IsNewest(n, s)' /\ n \in 1..(next' - 1)
      BY <1>1, <1>2, <2>1, <3>1, <3>4, NewcomerIsNewest
    <3> QED
      BY <1>1, <1>2, <1>3, <1>6, <2>1, <3>1, <3>5
  <2>2. CASE s # m.stock
    BY <1>1, <1>2, <1>6, <2>2, OthersAreKept
  <2> QED
    BY <2>1, <2>2
<1>10. OneRequestPerStock'
  BY <1>1 DEF OneRequestPerStock
<1>11. Balanced'
  <2>1. SkippedInAll \in Int /\ next \in Int /\ Len(order) \in Nat /\ Len(reqs) \in Nat
        /\ built \in Int
    BY DEF TypeOK, SkippedInAll, Reasons
  <2> QED
    BY <1>1, <1>4, <2>1 DEF Balanced
<1> QED
  BY <1>5, <1>8, <1>9, <1>10, <1>11

\* PassOver: the event kept stays, and the message is counted.
LEMMA PassOverInv == Inv /\ PassOver => Inv'
<1> SUFFICES ASSUME Inv, PassOver PROVE Inv'
  OBVIOUS
<1> USE DEF Inv
<1>1. PICK m \in Messages, kept \in Messages :
        /\ Compared(m, kept) /\ ~Newer(m, kept) /\ Skip(ReasonOf(m, kept))
        /\ next' = next + 1
        /\ UNCHANGED <<batch, latest, order, built, reqs>>
  BY DEF PassOver
<1>2. Reading /\ m = batch[next] /\ Valid(m) /\ latest[m.stock] = kept
  BY <1>1 DEF Compared
<1>3. m.stock \in Stocks /\ kept # None
  BY MessagesAssumption, UnitsAssumption
<1>4. SkippedInAll' = SkippedInAll + 1 /\ skipped' \in [Reasons -> Nat]
  BY <1>1, SkipCounts, ReasonType
<1>5. TypeOK'
  BY <1>1, <1>2, <1>4 DEF TypeOK, Reading
<1>6. Linked'
  BY <1>1 DEF Linked, Valid
<1>7. NewestIsKept'
  <2> SUFFICES ASSUME NEW s \in Stocks
               PROVE  IF latest'[s] = None THEN Seen(s)' = {}
                      ELSE \E i \in 1..(next' - 1) :
                             IsNewest(i, s)' /\ latest'[s] = batch'[i]
    BY DEF NewestIsKept
  <2>1. CASE s = m.stock
    <3>1. PICK i \in 1..(next - 1) : IsNewest(i, s) /\ kept = batch[i]
      BY <1>2, <1>3, <2>1 DEF NewestIsKept
    <3>2. IsNewest(i, s)' /\ i \in 1..(next' - 1)
      BY <1>1, <1>2, <2>1, <3>1, NewestStays
    <3> QED
      BY <1>1, <1>2, <1>3, <2>1, <3>1, <3>2
  <2>2. CASE s # m.stock
    BY <1>1, <1>2, <2>2, OthersAreKept
  <2> QED
    BY <2>1, <2>2
<1>8. OneRequestPerStock'
  BY <1>1 DEF OneRequestPerStock
<1>9. Balanced'
  <2>1. SkippedInAll \in Int /\ next \in Int /\ Len(order) \in Nat /\ Len(reqs) \in Nat
        /\ built \in Int
    BY DEF TypeOK, SkippedInAll, Reasons
  <2> QED
    BY <1>1, <1>4, <2>1 DEF Balanced
<1> QED
  BY <1>5, <1>6, <1>7, <1>8, <1>9

\* Build: the next stock gets its request, or its event is counted as invalid.
LEMMA BuildInv == Inv /\ Build => Inv'
<1> SUFFICES ASSUME Inv, Build PROVE Inv'
  OBVIOUS
<1> USE DEF Inv
<1> DEFINE m == latest[order[built + 1]]
<1>1. /\ ~Reading /\ built < Len(order)
      /\ built' = built + 1
      /\ UNCHANGED <<batch, next, latest, order>>
      /\ IF Whole(m) THEN reqs' = Append(reqs, Request(m)) /\ UNCHANGED skipped
                     ELSE Skip("invalid") /\ UNCHANGED reqs
  BY DEF Build
<1>2. /\ built \in Nat /\ Len(order) \in Nat /\ built + 1 \in 1..Len(order)
      /\ order[built + 1] \in Stocks /\ Len(reqs) \in Nat
  BY <1>1 DEF TypeOK
<1>3. m \in Messages /\ m.stock = order[built + 1] /\ Valid(m)
  BY <1>2 DEF Linked, TypeOK
<1>4. NewestIsKept'
  <2>1. \A s : Seen(s)' = Seen(s)
    BY <1>1 DEF Seen, Valid
  <2>2. \A i, s : IsNewest(i, s)' <=> IsNewest(i, s)
    BY <1>1, <2>1 DEF IsNewest, Version
  <2> QED
    BY <1>1, <2>1, <2>2 DEF NewestIsKept
<1>5. SkippedInAll \in Int /\ next \in Int
  BY DEF TypeOK, SkippedInAll, Reasons
<1>6. CASE Whole(m)
  <2> HIDE DEF m
  <2>1. reqs' = Append(reqs, Request(m)) /\ skipped' = skipped
    BY <1>1, <1>6
  <2>2. /\ Request(m) \in [stock : Stocks, price : Nat, ver : Nat \ {0}]
        /\ Request(m).stock = order[built + 1]
    BY <1>3, RequestType
  <2>3. /\ Len(reqs') = Len(reqs) + 1 /\ reqs'[Len(reqs) + 1] = Request(m)
        /\ \A i \in 1..Len(reqs) : reqs'[i] = reqs[i]
    BY <2>1, <2>2 DEF TypeOK
  <2>4. TypeOK'
    BY <1>1, <1>2, <2>1, <2>2 DEF TypeOK
  <2>5. \A i \in 1..Len(reqs') : \E j \in 1..built' : order'[j] = reqs'[i].stock
    <3> SUFFICES ASSUME NEW i \in 1..Len(reqs')
                 PROVE  \E j \in 1..built' : order'[j] = reqs'[i].stock
      OBVIOUS
    <3>1. CASE i = Len(reqs) + 1
      BY <1>1, <1>2, <2>2, <2>3, <3>1
    <3>2. CASE i # Len(reqs) + 1
      <4>1. i \in 1..Len(reqs)
        BY <1>2, <2>3, <3>2
      <4> QED
        BY <1>1, <1>2, <2>3, <4>1 DEF Linked
    <3> QED
      BY <3>1, <3>2
  <2>6. Linked'
    BY <1>1, <2>5 DEF Linked, Valid
  <2>7. \A i \in 1..Len(reqs) : reqs[i].stock # order[built + 1]
    BY <1>2 DEF Linked
  <2>8. OneRequestPerStock'
    BY <1>2, <2>2, <2>3, <2>7 DEF OneRequestPerStock
  <2>9. Balanced'
    <3>1. SkippedInAll' = SkippedInAll
      BY <2>1 DEF SkippedInAll
    <3> QED
      BY <1>1, <1>2, <1>5, <2>3, <3>1 DEF Balanced
  <2> QED
    BY <1>4, <2>4, <2>6, <2>8, <2>9
<1>7. CASE ~Whole(m)
  <2>1. Skip("invalid") /\ reqs' = reqs
    BY <1>1, <1>7
  <2>2. SkippedInAll' = SkippedInAll + 1 /\ skipped' \in [Reasons -> Nat]
    BY <2>1, SkipCounts DEF Reasons
  <2>3. TypeOK'
    BY <1>1, <1>2, <2>1, <2>2 DEF TypeOK
  <2>4. Linked'
    BY <1>1, <1>2, <2>1 DEF Linked, Valid
  <2>5. OneRequestPerStock'
    BY <2>1 DEF OneRequestPerStock
  <2>6. Balanced'
    BY <1>1, <1>2, <1>5, <2>1, <2>2 DEF Balanced
  <2> QED
    BY <1>4, <2>3, <2>4, <2>5, <2>6
<1> QED
  BY <1>6, <1>7

\* The invariant holds in every state.
THEOREM Invariance == Spec => []Inv
<1>1. Inv /\ UNCHANGED vars => Inv'
  <2> SUFFICES ASSUME Inv, UNCHANGED vars PROVE Inv'
    OBVIOUS
  <2> USE DEF vars
  <2>1. \A s : Seen(s)' = Seen(s)
    BY DEF Seen, Valid
  <2>2. \A i, s : IsNewest(i, s)' <=> IsNewest(i, s)
    BY <2>1 DEF IsNewest, Version
  <2>3. NewestIsKept'
    BY <2>1, <2>2 DEF NewestIsKept, Inv
  <2>4. TypeOK' /\ Linked' /\ OneRequestPerStock' /\ Balanced'
    BY DEF Inv, TypeOK, Linked, OneRequestPerStock, Balanced, SkippedInAll, Valid
  <2> QED
    BY <2>3, <2>4 DEF Inv
<1>2. Inv /\ [Next]_vars => Inv'
  BY <1>1, DropInv, FirstInv, ReplaceInv, PassOverInv, BuildInv DEF Next
<1> QED
  BY InitInv, <1>2, PTL DEF Spec

\* TypeOK, for every poll of any length.
THEOREM TypeCorrect == Spec => []TypeOK
<1>1. Inv => TypeOK
  BY DEF Inv
<1> QED
  BY Invariance, <1>1, PTL

\* handleStockMessages keeps the event with the highest version of each stock,
\* the first polled of several.
THEOREM NewestKept == Spec => []NewestIsKept
<1>1. Inv => NewestIsKept
  BY DEF Inv
<1> QED
  BY Invariance, <1>1, PTL

\* It asks for no stock twice, so the locks of a batch are distinct.
THEOREM OneRequest == Spec => []OneRequestPerStock
<1>1. Inv => OneRequestPerStock
  BY DEF Inv
<1> QED
  BY Invariance, <1>1, PTL

\* When it is through, the skipped messages and the requests are the poll.
THEOREM EveryMessage == Spec => []EveryMessageCounted
<1>1. Inv => EveryMessageCounted
  <2> SUFFICES ASSUME Inv, ~Reading, built = Len(order)
               PROVE  SkippedInAll + Len(reqs) = Len(batch)
    BY DEF EveryMessageCounted, SkippedInAll
  <2>1. next = Len(batch) + 1
    BY DEF Inv, TypeOK, Reading
  <2>2. SkippedInAll \in Int /\ Len(reqs) \in Nat /\ Len(order) \in Nat
        /\ Len(batch) \in Nat
    BY DEF Inv, TypeOK, SkippedInAll, Reasons
  <2> QED
    BY <2>1, <2>2 DEF Inv, Balanced
<1> QED
  BY Invariance, <1>1, PTL

\* Division by a positive number is monotonic, and undoes multiplication.
LEMMA DivMonotonic ==
  ASSUME NEW p \in Nat \ {0}, NEW a \in Int, NEW b \in Int, a <= b
  PROVE  a \div p <= b \div p
<1> DEFINE x == a \div p
           y == b \div p
<1>1. x \in Int /\ y \in Int
  OBVIOUS
<1>2. p * x <= a /\ a < p * x + p /\ p * y <= b /\ b < p * y + p
  OBVIOUS
<1>3. SUFFICES ASSUME y + 1 <= x PROVE FALSE
  BY <1>1
<1> HIDE DEF x, y
<1>4. p * (y + 1) <= p * x
  BY <1>1, <1>3
<1>5. p * (y + 1) = p * y + p
  BY <1>1
<1>6. p * x \in Int /\ p * y \in Int
  BY <1>1
<1> QED
  BY <1>2, <1>4, <1>5, <1>6

\* A quotient recovers the factor of a product.
LEMMA DivOfProduct ==
  ASSUME NEW p \in Nat \ {0}, NEW a \in Int
  PROVE  (a * p) \div p = a
OBVIOUS

\* The second of a trade is that of its version.
LEMMA SecondOfVersion ==
  \A m \in Messages : TradeSecond(m) = Version(m) \div PerSecond
<1> SUFFICES ASSUME NEW m \in Messages
             PROVE  TradeSecond(m) = Version(m) \div PerSecond
  OBVIOUS
<1>1. m.at - KST \in Int /\ PerSecond \in Nat \ {0}
  BY MessagesAssumption, UnitsAssumption
<1>2. ((m.at - KST) * PerSecond) \div PerSecond = m.at - KST
  BY <1>1, DivOfProduct
<1> QED
  BY <1>2 DEF TradeSecond, Version, VersionFromWallClock

\* No event of a later second is given up for one of an earlier second.
THEOREM LatestSecond == Spec => []LatestSecondIsKept
<1>1. Inv => LatestSecondIsKept
  <2> SUFFICES ASSUME Inv, NEW s \in Stocks, NEW i \in Seen(s)
               PROVE  TradeSecond(batch[i]) <= TradeSecond(latest[s])
    BY DEF LatestSecondIsKept
  <2>1. PICK j \in 1..(next - 1) : IsNewest(j, s) /\ latest[s] = batch[j]
    BY DEF Inv, NewestIsKept
  <2>2. batch[i] \in Messages /\ batch[j] \in Messages
    BY DEF Inv, TypeOK, Seen
  <2>3. Version(batch[i]) \in Int /\ Version(batch[j]) \in Int
    BY <2>2, VersionInt
  <2>7. Version(batch[i]) < Version(batch[j]) \/ Version(batch[i]) = Version(batch[j])
    BY <2>1, Zenon DEF IsNewest
  <2>4. Version(batch[i]) <= Version(batch[j])
    BY <2>3, <2>7
  <2>5. Version(batch[i]) \div PerSecond <= Version(batch[j]) \div PerSecond
    BY <2>3, <2>4, DivMonotonic, UnitsAssumption
  <2> QED
    BY <2>1, <2>2, <2>5, SecondOfVersion
<1> QED
  BY Invariance, <1>1, PTL

\* A message that is a conflict with the event kept and has the version of it
\* is of the same second, and one of the two has no version of its own.
LEMMA ConflictPair ==
  ASSUME OneVersionOnePrice, NEW m \in Messages, NEW kept \in Messages,
         m.stock = kept.stock, ~Newer(m, kept), ReasonOf(m, kept) = "conflict"
  PROVE  /\ m.price # kept.price
         /\ m.priceVersion = 0 \/ kept.priceVersion = 0
         /\ TradeSecond(m) = TradeSecond(kept)
<1>1. Version(m) \in Int /\ Version(kept) \in Int
  BY VersionInt
<1>2. Version(m) = Version(kept) /\ m.price # kept.price
  BY <1>1 DEF Newer, ReasonOf
<1>3. TradeSecond(m) = TradeSecond(kept)
  BY <1>2, SecondOfVersion
<1>4. m.priceVersion \in Nat /\ kept.priceVersion \in Nat
  BY MessagesAssumption
<1>5. m.priceVersion = 0 \/ kept.priceVersion = 0
  BY <1>2, <1>4 DEF OneVersionOnePrice, Version
<1> QED
  BY <1>2, <1>3, <1>5

\* If the producer assigns no version to two prices, a conflict is between
\* events of one second, one of them without a version.
THEOREM ConflictIsOld == Spec => []ConflictNeedsOldEvent
<1> DEFINE Pair(i, j) == /\ batch[i].price # batch[j].price
                         /\ batch[i].priceVersion = 0
                         /\ TradeSecond(batch[i]) = TradeSecond(batch[j])
<1>1. Init => ConflictNeedsOldEvent
  BY DEF Init, ConflictNeedsOldEvent, Reasons
<1>2. Inv /\ ConflictNeedsOldEvent /\ [Next]_vars => ConflictNeedsOldEvent'
  <2> SUFFICES ASSUME Inv, ConflictNeedsOldEvent, [Next]_vars, OneVersionOnePrice,
                      skipped'["conflict"] > 0
               PROVE  \E s \in Stocks : \E i, j \in Seen(s)' : Pair(i, j)'
    BY DEF ConflictNeedsOldEvent
  <2>1. batch' = batch /\ \A s : Seen(s) \subseteq Seen(s)'
    <3>1. batch' = batch /\ next' \in {next, next + 1}
      BY DEF Next, Drop, First, Replace, PassOver, Build, vars
    <3>2. PICK n : n = next
      OBVIOUS
    <3>3. n \in Int /\ (next' = n \/ next' = n + 1)
      BY <3>1, <3>2 DEF Inv, TypeOK
    <3>4. ASSUME NEW m, m = n \/ m = n + 1
          PROVE  \A i \in 1..(n - 1) : i \in 1..(m - 1)
      BY <3>3, <3>4
    <3>5. \A i \in 1..(next - 1) : i \in 1..(next' - 1)
      BY <3>2, <3>3, <3>4
    <3> QED
      BY <3>1, <3>5 DEF Seen
  <2>2. CASE skipped["conflict"] > 0
    BY <2>1, <2>2 DEF ConflictNeedsOldEvent
  <2>3. CASE ~(skipped["conflict"] > 0)
    <3>1. skipped \in [Reasons -> Nat]
      BY DEF Inv, TypeOK
    <3>2. PICK m \in Messages, kept \in Messages :
            /\ Compared(m, kept) /\ ~Newer(m, kept) /\ ReasonOf(m, kept) = "conflict"
            /\ next' = next + 1
      <4>1. PassOver
        BY <2>3, <3>1 DEF Next, Drop, First, Replace, Build, vars, Skip, Reasons
      <4> QED
        BY <2>3, <3>1, <4>1 DEF PassOver, Skip, Reasons
    <3>3. /\ Reading /\ m = batch[next] /\ Valid(m) /\ latest[m.stock] = kept
          /\ m.stock \in Stocks /\ kept # None
      BY <3>2, MessagesAssumption, UnitsAssumption DEF Compared
    <3>4. PICK i \in Seen(m.stock) : kept = batch[i]
      BY <3>3 DEF Inv, NewestIsKept, IsNewest
    <3>5. next \in Seen(m.stock)' /\ i \in Seen(m.stock)'
      BY <2>1, <3>2, <3>3, <3>4, SeenGrows DEF Inv
    <3>6. kept.stock = m.stock
      BY <3>4 DEF Seen
    <3>7. /\ m.price # kept.price
          /\ m.priceVersion = 0 \/ kept.priceVersion = 0
          /\ TradeSecond(m) = TradeSecond(kept)
      BY <3>2, <3>6, ConflictPair
    <3>8. PICK n : n = next
      OBVIOUS
    <3>9. Pair(n, i)' \/ Pair(i, n)'
      BY <2>1, <3>3, <3>4, <3>7, <3>8 DEF TradeSecond
    <3> QED
      BY <3>3, <3>5, <3>8, <3>9
  <2> QED
    BY <2>2, <2>3
<1> QED
  BY Invariance, <1>1, <1>2, PTL DEF Spec
============================================================================

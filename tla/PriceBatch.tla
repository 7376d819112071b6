----------------------------- MODULE PriceBatch -----------------------------
(***************************************************************************)
(* How a poll of stock price messages becomes one request per stock:        *)
(* handleStockMessages of internal/kafka/consumer.go with the versions of   *)
(* internal/model/model.go.  Its requests are the batches that              *)
(* PriceApplication applies.  An iteration of either loop is a step.        *)
(***************************************************************************)
EXTENDS Integers, Sequences

CONSTANTS
  Stocks,
  Messages,        \* the messages a poll may return
  MaxPollRecords,
  KST,             \* seconds the market's wall clock is ahead of UTC
  PerSecond,       \* versions to a second, 10^6 in the code
  Fraction,        \* a price is a multiple of 1/Fraction
  None             \* a stock without an entry in `latest`

\* at is updatedAt, a Korean wall clock read as if it were UTC, and 0 when it
\* is missing; priceVersion is 0 in events of the older format.  readable: the
\* payload decodes and names a stock.
ASSUME MessagesAssumption ==
  /\ Messages \subseteq [readable : BOOLEAN, stock : Stocks, price : Nat,
                         at : Nat, priceVersion : Nat]
  /\ \A m \in Messages : m.at = 0 \/ m.at > KST

ASSUME UnitsAssumption ==
  /\ MaxPollRecords \in Nat \ {0}
  /\ KST \in Nat
  /\ {PerSecond, Fraction} \subseteq Nat \ {0}
  /\ None \notin Messages

VARIABLES
  batch,   \* the messages, in the order polled
  next,    \* the message the first loop is at
  latest,  \* per stock: the event kept so far
  order,   \* the stocks with an event, in the order met
  built,   \* entries of order the second loop is through with
  reqs,    \* the requests for UpdateProfitsByStockPriceChanges
  skipped  \* per reason: messages recorded as skipped

vars == <<batch, next, latest, order, built, reqs, skipped>>

Reasons == {"invalid", "stale", "duplicate", "conflict"}

\* Mutants: the Korean wall clock is taken for UTC; it is set back twice.
VersionFromUTC(at) == at * PerSecond

VersionSetBackTwice(at) == (at - 2 * KST) * PerSecond

VersionFromWallClock(at) == (at - KST) * PerSecond

Version(m) ==
  IF m.priceVersion > 0 THEN m.priceVersion ELSE VersionFromWallClock(m.at)

\* Decoded, with a stockId and an updatedAt.
Valid(m) == m.readable /\ m.at # 0

\* Int64Exact.
Whole(m) == m.price % Fraction = 0

Request(m) ==
  [stock |-> m.stock, price |-> m.price \div Fraction, ver |-> Version(m)]

Init ==
  /\ batch \in UNION {[1..n -> Messages] : n \in 1..MaxPollRecords}
  /\ next = 1
  /\ latest = [s \in Stocks |-> None]
  /\ order = <<>>
  /\ built = 0
  /\ reqs = <<>>
  /\ skipped = [reason \in Reasons |-> 0]

Skip(reason) == skipped' = [skipped EXCEPT ![reason] = @ + 1]

Reading == next <= Len(batch)

\* The message the loop is at is an event of a stock, and kept is the event
\* it is compared with.
Compared(m, kept) == Reading /\ m = batch[next] /\ Valid(m) /\ kept = latest[m.stock]

Keep(m) == latest' = [latest EXCEPT ![m.stock] = m]

\* Mutant: the later of two events with one version is kept.
NotOlder(m, kept) == Version(m) >= Version(kept)

Newer(m, kept) == Version(m) > Version(kept)

Drop ==
  /\ Reading
  /\ ~Valid(batch[next])
  /\ Skip("invalid")
  /\ next' = next + 1
  /\ UNCHANGED <<batch, latest, order, built, reqs>>

First ==
  \E m \in Messages :
    /\ Compared(m, None)
    /\ Keep(m)
    /\ order' = Append(order, m.stock)
    /\ next' = next + 1
    /\ UNCHANGED <<batch, built, reqs, skipped>>

\* Mutant: the stock is listed again.
ReplaceListed ==
  \E m, kept \in Messages :
    /\ Compared(m, kept)
    /\ Newer(m, kept)
    /\ Keep(m)
    /\ order' = Append(order, m.stock)
    /\ Skip("stale")
    /\ next' = next + 1
    /\ UNCHANGED <<batch, built, reqs>>

\* The event kept before is the one recorded as stale.
Replace ==
  \E m, kept \in Messages :
    /\ Compared(m, kept)
    /\ Newer(m, kept)
    /\ Keep(m)
    /\ Skip("stale")
    /\ next' = next + 1
    /\ UNCHANGED <<batch, order, built, reqs>>

\* Mutant: the prices of equal versions are not compared.
ReasonByVersion(m, kept) ==
  IF Version(m) < Version(kept) THEN "stale" ELSE "conflict"

ReasonOf(m, kept) ==
  CASE Version(m) < Version(kept) -> "stale"
    [] Version(m) = Version(kept) /\ m.price = kept.price -> "duplicate"
    [] OTHER -> "conflict"

PassOver ==
  \E m, kept \in Messages :
    /\ Compared(m, kept)
    /\ ~Newer(m, kept)
    /\ Skip(ReasonOf(m, kept))
    /\ next' = next + 1
    /\ UNCHANGED <<batch, latest, order, built, reqs>>

\* The second loop: a price that is no whole number drops its stock.
Build ==
  /\ ~Reading
  /\ built < Len(order)
  /\ LET m == latest[order[built + 1]]
     IN  IF Whole(m)
           THEN reqs' = Append(reqs, Request(m)) /\ UNCHANGED skipped
           ELSE Skip("invalid") /\ UNCHANGED reqs
  /\ built' = built + 1
  /\ UNCHANGED <<batch, next, latest, order>>

Next == Drop \/ First \/ Replace \/ PassOver \/ Build

Spec == Init /\ [][Next]_vars

----------------------------------------------------------------------------
(* Properties *)

\* Every variable has its type.
TypeOK ==
  /\ batch \in Seq(Messages)
  /\ next \in 1..(Len(batch) + 1)
  /\ latest \in [Stocks -> Messages \cup {None}]
  /\ order \in Seq(Stocks)
  /\ built \in 0..Len(order)
  /\ reqs \in Seq([stock : Stocks, price : Nat, ver : Nat \ {0}])
  /\ skipped \in [Reasons -> Nat]

\* The messages of s the first loop has seen.
Seen(s) == {i \in 1..(next - 1) : Valid(batch[i]) /\ batch[i].stock = s}

IsNewest(i, s) ==
  /\ i \in Seen(s)
  /\ \A j \in Seen(s) :
       \/ Version(batch[j]) < Version(batch[i])
       \/ Version(batch[j]) = Version(batch[i]) /\ i <= j

\* Of the events of a stock the one with the highest version is kept, the
\* first of them if there are several, whatever the order of the poll and
\* whichever of them carry a version.
NewestIsKept ==
  \A s \in Stocks :
    IF latest[s] = None THEN Seen(s) = {}
    ELSE \E i \in 1..(next - 1) : IsNewest(i, s) /\ latest[s] = batch[i]

\* A stock is asked for once: a batch takes one price to a stock, and which of
\* two would be accepted and fanned out last is left to the order of the poll.
OneRequestPerStock ==
  \A i, j \in 1..Len(reqs) : reqs[i].stock = reqs[j].stock => i = j

\* Every message is a request or is recorded as skipped, once.
EveryMessageCounted ==
  ~Reading /\ built = Len(order) =>
    skipped["invalid"] + skipped["stale"] + skipped["duplicate"]
      + skipped["conflict"] + Len(reqs) = Len(batch)

\* An assigned version is the second of the trade and a sequence in it.
TradeSecond(m) ==
  IF m.priceVersion > 0 THEN m.priceVersion \div PerSecond ELSE m.at - KST

\* No event of a later second is given up for one of an earlier second, though
\* only some of them carry a version.
LatestSecondIsKept ==
  \A s \in Stocks : \A i \in Seen(s) :
    TradeSecond(batch[i]) <= TradeSecond(latest[s])

\* The producer assigns no version of a stock to two prices.
OneVersionOnePrice ==
  \A m, n \in Messages :
    m.stock = n.stock /\ m.priceVersion = n.priceVersion /\ m.priceVersion > 0
      => m.price = n.price

\* A conflict, two prices for one version, needs an event without a version in
\* the second of the other, if the producer assigns no version twice.
ConflictNeedsOldEvent ==
  OneVersionOnePrice /\ skipped["conflict"] > 0 =>
    \E s \in Stocks : \E i, j \in Seen(s) :
      /\ batch[i].price # batch[j].price
      /\ batch[i].priceVersion = 0
      /\ TradeSecond(batch[i]) = TradeSecond(batch[j])
=============================================================================

---------------------------- MODULE PriceEvents ----------------------------
(***************************************************************************)
(* Stock price events and the batches made of them: ProfitCalculationRequest *)
(* (internal/model/model.go) and AppliedStockPrice                           *)
(* (internal/redisstore/price_application.go).                               *)
(***************************************************************************)
EXTENDS Integers

CONSTANTS
  Stocks,
  Versions,   \* the versions an event may carry (EffectiveVersion)
  Prices

\* A version is the trade's epoch second times 10^6 plus a sequence within the
\* second: positive, so the absent state's 0 is below every version.
ASSUME VersionsAssumption == Versions \subseteq Nat \ {0}

\* HGETALL of the application hash found nothing: `exists` is false.
Absent == [ver |-> 0, price |-> 0]

Event == [ver : Versions, price : Prices]

\* A batch holds at most one event for a stock; Absent marks the others.
Batch == [Stocks -> Event \cup {Absent}]

NoBatch == [s \in Stocks |-> Absent]

Asked(b) == {s \in Stocks : b[s] # Absent}

Covers(state, b) == \A s \in Asked(b) : state[s].ver >= b[s].ver
=============================================================================

---------------------------- MODULE TradeEvents ----------------------------
(***************************************************************************)
(* Trade events (PortfolioCacheUpdateRequest of internal/model/model.go)    *)
(* and what one of them adds: the update functions and the amounts of       *)
(* IncreaseStockQuantity, DecreaseStockQuantity, buy and sell.  Quantities, *)
(* prices and amounts are whole numbers, so the rounding of purchased       *)
(* values (RoundToInt64) has nothing to round.                              *)
(***************************************************************************)
EXTENDS Integers

CONSTANTS
  Portfolios,
  Stocks,
  Users,
  Partitions, \* of the trade topic; its producer chooses them
  Trades      \* the records of the topic, by id in the order of a partition

\* What handleTradeRecord lets through, of a producer that numbers its trades
\* and names the user: a tradeId of 0, which switches the duplicate check off,
\* and an empty userId, which is looked up, are not among them.
ASSUME TradesAssumption ==
  /\ Trades \subseteq [id : Nat \ {0}, part : Partitions, pf : Portfolios,
                       stock : Stocks, user : Users, type : {"BUY", "SELL"},
                       qty : Nat \ {0}, price : Nat]
  /\ \A t, u \in Trades : t.id = u.id => t = u

Holdings == Portfolios \X Stocks

Holding(t) == <<t.pf, t.stock>>

Amount(t) == IF t.type = "BUY" THEN t.price * t.qty ELSE -(t.price * t.qty)

\* Mutant: a sale of more than there is leaves a negative quantity.
AfterUnchecked(t, quantity) ==
  IF t.type = "BUY" THEN quantity + t.qty ELSE quantity - t.qty

\* The quantity after t; a sale of all or more removes the key.
After(t, quantity) ==
  CASE t.type = "BUY" -> quantity + t.qty
    [] t.type = "SELL" /\ quantity > t.qty -> quantity - t.qty
    [] OTHER -> 0

\* t makes the portfolio hold the stock, or no longer hold it.
Turns(t, quantity) ==
  IF t.type = "BUY" THEN quantity = 0 ELSE After(t, quantity) = 0
=============================================================================

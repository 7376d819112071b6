--------------------------- MODULE MCTradeCache ---------------------------
(* Model-checking instances of TradeCache. *)
EXTENDS TradeCache

MCStocks == {"s1"}
MCUsers == {"u1"}
MCPortfolios == {"p1", "p2"}
MCPartitions == {1, 2}

Record(id, part, p, type, qty, price) ==
  [id |-> id, part |-> part, pf |-> p, stock |-> "s1", user |-> "u1",
   type |-> type, qty |-> qty, price |-> price]

\* A stock is bought and sold out at a higher price; on the other partition,
\* another portfolio of the same user buys.
TwoPortfolios ==
  {Record(1, 1, "p1", "BUY", 2, 3), Record(2, 1, "p1", "SELL", 2, 4),
   Record(3, 2, "p2", "BUY", 1, 5)}

\* One holding, bought on one partition and sold on the other, which are not
\* keyed by the portfolio: the sale may come first, or between.
OneHolding ==
  {Record(1, 1, "p1", "BUY", 2, 3), Record(2, 2, "p1", "SELL", 1, 3)}
===========================================================================

---------------------------- MODULE MCValuation ----------------------------
(* Model-checking instances of Valuation: two portfolios of one user. *)
EXTENDS Valuation

MCStocks == {"s1"}
MCUsers == {"u1"}
MCPortfolios == {"p1", "p2"}
MCPartitions == {1}

Record(id, p, type, qty, price) ==
  [id |-> id, part |-> 1, pf |-> p, stock |-> "s1", user |-> "u1",
   type |-> type, qty |-> qty, price |-> price]

\* Of the two shares p1 buys it sells one for more than both had cost.
BoughtAndSold ==
  {Record(1, "p1", "BUY", 2, 3), Record(2, "p2", "BUY", 1, 2),
   Record(3, "p1", "SELL", 1, 7)}

OneBought == {Record(1, "p1", "BUY", 2, 3)}

CreatedAndDeleted ==
  [type : {"CREATED", "DELETED"}, pf : {"p1"}, user : {"u1"}]

OnePrice == {5}
============================================================================

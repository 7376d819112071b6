---------------------------- MODULE MCPriceBatch ----------------------------
(* The model-checking instance of PriceBatch: 2 versions to a second, a     *)
(* clock 9 seconds ahead, prices in halves.                                 *)
EXTENDS PriceBatch

MCStocks == {"s1", "s2"}

Event(stock, second, price, version) ==
  [readable |-> TRUE, stock |-> stock, price |-> price, at |-> KST + second,
   priceVersion |-> version]

\* Of one second: both versions, and the older format at both prices.  Of the
\* next: the older format, and a price that is no whole number.
MCMessages ==
  {Event("s1", 1, 10, 2), Event("s1", 1, 20, 3),
   Event("s1", 1, 10, 0), Event("s1", 1, 20, 0),
   Event("s1", 2, 20, 0), Event("s1", 2, 15, 4), Event("s2", 1, 10, 2),
   [Event("s2", 1, 10, 0) EXCEPT !.at = 0],
   [Event("s2", 1, 10, 3) EXCEPT !.readable = FALSE]}

\* What ConflictNeedsOldEvent supposes is so.
ASSUME OneVersionOnePrice
=============================================================================

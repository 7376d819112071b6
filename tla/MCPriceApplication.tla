------------------------ MODULE MCPriceApplication ------------------------
(* Model-checking instances of PriceApplication. *)
EXTENDS PriceApplication, TLC

\* Workers and stocks are interchangeable: no definition orders them.
Symmetry == Permutations(Workers) \cup Permutations(Stocks)
===========================================================================

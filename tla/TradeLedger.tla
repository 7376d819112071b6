---------------------------- MODULE TradeLedger ----------------------------
(***************************************************************************)
(* What the trade cache promises of redelivered, retried and interrupted    *)
(* trade records: each one is counted once in the holding's quantity, once  *)
(* in the portfolio's value and once in the user's, in that order, and is   *)
(* told to be processed only when all three are done.                       *)
(***************************************************************************)
EXTENDS TradeEvents

VARIABLES
  quantity,   \* per holding
  worth,      \* per portfolio
  wealth,     \* per user
  counted,    \* per place: the trades that are counted in it
  told        \* the trades that have been told to be processed

ledgerVars == <<quantity, worth, wealth, counted, told>>

Places == {"holding", "portfolio", "user"}

LedgerInit ==
  /\ quantity = [h \in Holdings |-> 0]
  /\ worth = [p \in Portfolios |-> 0]
  /\ wealth = [u \in Users |-> 0]
  /\ counted = [place \in Places |-> {}]
  /\ told = {}

Count(t, place) ==
  /\ t \notin counted[place]
  /\ counted' = [counted EXCEPT ![place] = @ \cup {t}]
  /\ UNCHANGED told

CountHolding(t) ==
  /\ Count(t, "holding")
  /\ quantity' = [quantity EXCEPT ![Holding(t)] = After(t, @)]
  /\ UNCHANGED <<worth, wealth>>

CountPortfolio(t) ==
  /\ t \in counted["holding"]
  /\ Count(t, "portfolio")
  /\ worth' = [worth EXCEPT ![t.pf] = @ + Amount(t)]
  /\ UNCHANGED <<quantity, wealth>>

CountUser(t) ==
  /\ t \in counted["portfolio"]
  /\ Count(t, "user")
  /\ wealth' = [wealth EXCEPT ![t.user] = @ + Amount(t)]
  /\ UNCHANGED <<quantity, worth>>

Tell(t) ==
  /\ \A place \in Places : t \in counted[place]
  /\ told' = told \cup {t}
  /\ UNCHANGED <<quantity, worth, wealth, counted>>

LedgerNext ==
  \E t \in Trades : CountHolding(t) \/ CountPortfolio(t) \/ CountUser(t) \/ Tell(t)

LedgerSpec == LedgerInit /\ [][LedgerNext]_ledgerVars
=============================================================================

--------------------------- MODULE PriceRegister ---------------------------
(***************************************************************************)
(* What applying stock prices promises, whatever locks, retries and crashes *)
(* it takes: each stock has one applied event; it is only ever replaced by  *)
(* one of a higher version; and a caller that is told "ok" knows that every *)
(* stock it asked about is at its version or past it.                       *)
(***************************************************************************)
EXTENDS PriceEvents

CONSTANT Callers    \* who hands in batches of prices: the stock consumers

VARIABLES applied, batch, answer

regVars == <<applied, batch, answer>>

RegInit ==
  /\ applied = NoBatch
  /\ batch = [c \in Callers |-> NoBatch]
  /\ answer = [c \in Callers |-> "idle"]

Call(c, b) ==
  /\ answer[c] = "idle"
  /\ batch' = [batch EXCEPT ![c] = b]
  /\ answer' = [answer EXCEPT ![c] = "busy"]
  /\ UNCHANGED applied

\* One stock of c's batch is applied; a batch of several is not atomic.
Apply(c, s) ==
  /\ answer[c] = "busy"
  /\ s \in Asked(batch[c])
  /\ batch[c][s].ver > applied[s].ver
  /\ applied' = [applied EXCEPT ![s] = batch[c][s]]
  /\ UNCHANGED <<batch, answer>>

AnswerOk(c) ==
  /\ answer[c] = "busy"
  /\ Covers(applied, batch[c])
  /\ answer' = [answer EXCEPT ![c] = "ok"]
  /\ UNCHANGED <<applied, batch>>

\* The caller goes on, after "ok" or after giving the batch up.
Return(c) ==
  /\ answer[c] # "idle"
  /\ batch' = [batch EXCEPT ![c] = NoBatch]
  /\ answer' = [answer EXCEPT ![c] = "idle"]
  /\ UNCHANGED applied

RegNext ==
  \E c \in Callers :
    \/ \E b \in Batch : Call(c, b)
    \/ \E s \in Stocks : Apply(c, s)
    \/ AnswerOk(c)
    \/ Return(c)

RegSpec == RegInit /\ [][RegNext]_regVars
=============================================================================

-------------------------- MODULE PriceApplication --------------------------
(***************************************************************************)
(* How a stock-price batch is applied: UpdateProfitsByStockPriceChanges of  *)
(* internal/service/profit.go over the lock set of                          *)
(* internal/redisstore/price_application.go, retried by processPriceBatch   *)
(* of internal/kafka/consumer.go.                                           *)
(*                                                                          *)
(* A worker is one consumer of prices: a stock consumer of any process, or  *)
(* the stock DLT consumer.  For each stock Redis holds a lock with a TTL,   *)
(* the applied event (at, price, ver) and the holdings valued by the        *)
(* fan-out (scv, sv).  A pipeline is not atomic: its commands run one by    *)
(* one, in an order a cluster client does not fix, between the commands of  *)
(* other workers.                                                           *)
(***************************************************************************)
EXTENDS PriceEvents

CONSTANTS
  Workers,
  PriceRetries,   \* retryPolicy.priceRetries: attempts after the first
  MaxBatches,     \* bound: batches taken by all workers
  MaxFaults,      \* bound: Redis calls that fail or whose reply is lost
  MaxStalls,      \* bound: locks that expire under a worker still using them
  MaxCrashes      \* bound: workers that die or are shut down in a batch

ASSUME BoundsAssumption ==
  {PriceRetries, MaxBatches, MaxFaults, MaxStalls, MaxCrashes} \subseteq Nat

VARIABLES
  \* Redis
  lock,       \* per stock: {} when free, else the token that holds it
  applied,    \* per stock: the committed event
  value,      \* per stock: the event its holdings were last valued with
  \* per worker
  pc,         \* the phase of the attempt
  batch,      \* the batch being processed
  tries,      \* attempts of this batch that failed
  attempt,    \* attempts ever begun: the token drawn for the current one
  locks,      \* lockSet.locks: the stocks whose SETNX answered true
  seen,       \* appliedStates
  todo,       \* stocks whose command of the current pipeline has not run
  failed,     \* an error has been met in this attempt
  cancelled,  \* applyCtx was cancelled by the renewal goroutine
  \* spent bounds
  batches, faults, stalls, crashes

redisVars == <<lock, applied, value>>
workVars == <<pc, batch, tries, attempt, locks, seen, todo, failed, cancelled>>
boundVars == <<batches, faults, stalls, crashes>>
vars == <<redisVars, workVars, boundVars>>

\* randomToken: no two attempts draw the same one.
Token(w) == [by |-> w, no |-> attempt[w]]

Owns(w, s) == lock[s] = {Token(w)}

\* A version above the applied one, or no applied state at all.
Accepts(e, state) == state = Absent \/ e.ver > state.ver

\* Mutant: the versions are not compared.
AcceptedUnseen(w) == Asked(batch[w])

Accepted(w) == {s \in Asked(batch[w]) : Accepts(batch[w][s], seen[w][s])}

Phases == {"idle", "start", "acquire", "fetch", "fanout", "refresh",
           "commit", "release", "store"}

\* Phases in which the deferred Release is still to come.
InAttempt == {"acquire", "fetch", "fanout", "refresh", "commit", "release"}

\* w still believes it holds the lock of s.
Relies(w, s) == pc[w] \in InAttempt /\ s \in locks[w]

Init ==
  /\ lock = [s \in Stocks |-> {}]
  /\ applied = NoBatch
  /\ value = NoBatch
  /\ pc = [w \in Workers |-> "idle"]
  /\ batch = [w \in Workers |-> NoBatch]
  /\ tries = [w \in Workers |-> 0]
  /\ attempt = [w \in Workers |-> 0]
  /\ locks = [w \in Workers |-> {}]
  /\ seen = [w \in Workers |-> NoBatch]
  /\ todo = [w \in Workers |-> {}]
  /\ failed = [w \in Workers |-> FALSE]
  /\ cancelled = [w \in Workers |-> FALSE]
  /\ batches = 0
  /\ faults = 0
  /\ stalls = 0
  /\ crashes = 0

Enter(w, phase, commands) ==
  /\ pc' = [pc EXCEPT ![w] = phase]
  /\ todo' = [todo EXCEPT ![w] = commands]

\* The error returns: the deferred Release runs over the acquired locks.
Abort(w) ==
  /\ Enter(w, "release", locks[w])
  /\ failed' = [failed EXCEPT ![w] = TRUE]

\* The handler's locals go out of scope.
Forget(w) ==
  /\ locks' = [locks EXCEPT ![w] = {}]
  /\ seen' = [seen EXCEPT ![w] = NoBatch]
  /\ cancelled' = [cancelled EXCEPT ![w] = FALSE]

Fault == faults < MaxFaults /\ faults' = faults + 1

\* A poll returned prices; the newest per stock makes the batch.
Take(w, b) ==
  /\ pc[w] = "idle"
  /\ batches < MaxBatches
  /\ Asked(b) # {}
  /\ batches' = batches + 1
  /\ batch' = [batch EXCEPT ![w] = b]
  /\ pc' = [pc EXCEPT ![w] = "start"]
  /\ UNCHANGED <<redisVars, tries, attempt, locks, seen, todo, failed,
                 cancelled, faults, stalls, crashes>>

\* The handler is called: fresh tokens, a pipeline of SETNX.
Begin(w) ==
  /\ pc[w] = "start"
  /\ attempt' = [attempt EXCEPT ![w] = @ + 1]
  /\ failed' = [failed EXCEPT ![w] = FALSE]
  /\ Enter(w, "acquire", Asked(batch[w]))
  /\ UNCHANGED <<redisVars, batch, tries, locks, seen, cancelled, boundVars>>

Acquire(w, s) ==
  /\ pc[w] = "acquire"
  /\ s \in todo[w]
  /\ todo' = [todo EXCEPT ![w] = @ \ {s}]
  /\ IF lock[s] = {}
       THEN /\ lock' = [lock EXCEPT ![s] = {Token(w)}]
            /\ locks' = [locks EXCEPT ![w] = @ \cup {s}]
            /\ UNCHANGED failed
       ELSE /\ failed' = [failed EXCEPT ![w] = TRUE]
            /\ UNCHANGED <<lock, locks>>
  /\ UNCHANGED <<applied, value, pc, batch, tries, attempt, seen, cancelled,
                 boundVars>>

\* The connection drops: commands of ran took effect, no reply arrives, and
\* the locks they took are in nobody's lock set.
AcquireReplyLost(w, ran) ==
  /\ pc[w] = "acquire"
  /\ todo[w] # {}
  /\ Fault
  /\ lock' = [s \in Stocks |-> IF s \in ran /\ lock[s] = {} THEN {Token(w)}
                                                           ELSE lock[s]]
  /\ todo' = [todo EXCEPT ![w] = {}]
  /\ failed' = [failed EXCEPT ![w] = TRUE]
  /\ UNCHANGED <<applied, value, pc, batch, tries, attempt, locks, seen,
                 cancelled, batches, stalls, crashes>>

\* Mutant: the batch goes on with the locks it got.
AcquireDonePartly(w) ==
  /\ pc[w] = "acquire"
  /\ todo[w] = {}
  /\ Enter(w, "fetch", Asked(batch[w]))
  /\ UNCHANGED <<redisVars, batch, tries, attempt, locks, seen, failed,
                 cancelled, boundVars>>

AcquireDone(w) ==
  /\ pc[w] = "acquire"
  /\ todo[w] = {}
  /\ IF failed[w] THEN Enter(w, "release", locks[w])
                  ELSE Enter(w, "fetch", Asked(batch[w]))
  /\ UNCHANGED <<redisVars, batch, tries, attempt, locks, seen, failed,
                 cancelled, boundVars>>

\* HGETALL of one stock.
Fetch(w, s) ==
  /\ pc[w] = "fetch"
  /\ s \in todo[w]
  /\ seen' = [seen EXCEPT ![w][s] = applied[s]]
  /\ todo' = [todo EXCEPT ![w] = @ \ {s}]
  /\ UNCHANGED <<redisVars, pc, batch, tries, attempt, locks, failed,
                 cancelled, boundVars>>

FetchDone(w) ==
  /\ pc[w] = "fetch"
  /\ todo[w] = {}
  /\ Enter(w, "fanout", Accepted(w))
  /\ UNCHANGED <<redisVars, batch, tries, attempt, locks, seen, failed,
                 cancelled, boundVars>>

\* A cancelled context keeps the pipeline from being sent; one that is already
\* running runs on.
Sent(w) == ~cancelled[w] \/ todo[w] # Accepted(w)

\* The replace script runs for a holding of s.  Its lock is not consulted.
FanOut(w, s) ==
  /\ pc[w] = "fanout"
  /\ s \in todo[w]
  /\ Sent(w)
  /\ value' = [value EXCEPT ![s] = batch[w][s]]
  /\ todo' = [todo EXCEPT ![w] = @ \ {s}]
  /\ UNCHANGED <<lock, applied, pc, batch, tries, attempt, locks, seen,
                 failed, cancelled, boundVars>>

\* The fan-out is over and the renewal goroutine reports no error.
FanOutDone(w) ==
  /\ pc[w] = "fanout"
  /\ todo[w] = {}
  /\ ~cancelled[w]
  /\ Enter(w, "refresh", {})
  /\ UNCHANGED <<redisVars, batch, tries, attempt, locks, seen, failed,
                 cancelled, boundVars>>

\* A tick of the renewal goroutine whose Refresh finds a lock lost, or fails.
RenewalFails(w) ==
  /\ pc[w] \in {"fetch", "fanout"}
  /\ ~cancelled[w]
  /\ \/ \E s \in locks[w] : ~Owns(w, s)
        /\ UNCHANGED faults
     \/ Fault
  /\ cancelled' = [cancelled EXCEPT ![w] = TRUE]
  /\ UNCHANGED <<redisVars, pc, batch, tries, attempt, locks, seen, todo,
                 failed, batches, stalls, crashes>>

\* Mutant: the fan-out does not see the cancelled context.
SeeCancelledInFetch(w) ==
  /\ pc[w] = "fetch"
  /\ cancelled[w]
  /\ Abort(w)
  /\ UNCHANGED <<redisVars, batch, tries, attempt, locks, seen, cancelled,
                 boundVars>>

\* A call or stopAndCheckRenewal returns the cancelled context's error.
SeeCancelled(w) ==
  /\ pc[w] \in {"fetch", "fanout"}
  /\ cancelled[w]
  /\ Abort(w)
  /\ UNCHANGED <<redisVars, batch, tries, attempt, locks, seen, cancelled,
                 boundVars>>

\* Redis fails a call of these phases; some of the scripts may have run.
CallFails(w, ran) ==
  /\ pc[w] \in {"fetch", "fanout", "refresh"}
  /\ Fault
  /\ ran # {} => pc[w] = "fanout" /\ Sent(w)
  /\ value' = [s \in Stocks |-> IF s \in ran THEN batch[w][s] ELSE value[s]]
  /\ Abort(w)
  /\ UNCHANGED <<lock, applied, batch, tries, attempt, locks, seen, cancelled,
                 batches, stalls, crashes>>

\* The last Refresh.  Its scripts run one by one, but a token that is lost
\* never returns, so checking them together meets the same cases.
Refresh(w) ==
  /\ pc[w] = "refresh"
  /\ IF \A s \in locks[w] : Owns(w, s)
       THEN Enter(w, "commit", Accepted(w)) /\ UNCHANGED failed
       ELSE Abort(w)
  /\ UNCHANGED <<redisVars, batch, tries, attempt, locks, seen, cancelled,
                 boundVars>>

\* Mutant: the script does not compare the token.
CommitUnfenced(w, s) ==
  /\ pc[w] = "commit"
  /\ s \in todo[w]
  /\ todo' = [todo EXCEPT ![w] = @ \ {s}]
  /\ applied' = [applied EXCEPT ![s] = batch[w][s]]
  /\ lock' = [lock EXCEPT ![s] = {}]
  /\ UNCHANGED <<value, pc, batch, tries, attempt, locks, seen, failed,
                 cancelled, boundVars>>

\* commitStockPriceApplicationScript for one accepted stock.
Commit(w, s) ==
  /\ pc[w] = "commit"
  /\ s \in todo[w]
  /\ todo' = [todo EXCEPT ![w] = @ \ {s}]
  /\ IF Owns(w, s)
       THEN /\ applied' = [applied EXCEPT ![s] = batch[w][s]]
            /\ lock' = [lock EXCEPT ![s] = {}]
            /\ UNCHANGED failed
       ELSE /\ failed' = [failed EXCEPT ![w] = TRUE]
            /\ UNCHANGED <<applied, lock>>
  /\ UNCHANGED <<value, pc, batch, tries, attempt, locks, seen, cancelled,
                 boundVars>>

\* The script of s runs but its reply is lost; what is left is not sent.
CommitReplyLost(w, s) ==
  /\ pc[w] = "commit"
  /\ s \in todo[w]
  /\ Fault
  /\ IF Owns(w, s)
       THEN /\ applied' = [applied EXCEPT ![s] = batch[w][s]]
            /\ lock' = [lock EXCEPT ![s] = {}]
       ELSE UNCHANGED <<applied, lock>>
  /\ todo' = [todo EXCEPT ![w] = {}]
  /\ failed' = [failed EXCEPT ![w] = TRUE]
  /\ UNCHANGED <<value, pc, batch, tries, attempt, locks, seen, cancelled,
                 batches, stalls, crashes>>

\* The pipeline could not be sent.
CommitFails(w) ==
  /\ pc[w] = "commit"
  /\ Fault
  /\ Abort(w)
  /\ UNCHANGED <<redisVars, batch, tries, attempt, locks, seen, cancelled,
                 batches, stalls, crashes>>

CommitDone(w) ==
  /\ pc[w] = "commit"
  /\ todo[w] = {}
  /\ Enter(w, "release", locks[w])
  /\ UNCHANGED <<redisVars, batch, tries, attempt, locks, seen, failed,
                 cancelled, boundVars>>

\* Mutant: the lock is deleted whoever holds it.
ReleaseAny(w, s) ==
  /\ pc[w] = "release"
  /\ s \in todo[w]
  /\ lock' = [lock EXCEPT ![s] = {}]
  /\ todo' = [todo EXCEPT ![w] = @ \ {s}]
  /\ UNCHANGED <<applied, value, pc, batch, tries, attempt, locks, seen,
                 failed, cancelled, boundVars>>

\* releaseStockPriceLockScript: compare and delete.
Release(w, s) ==
  /\ pc[w] = "release"
  /\ s \in todo[w]
  /\ lock' = [lock EXCEPT ![s] = IF Owns(w, s) THEN {} ELSE @]
  /\ todo' = [todo EXCEPT ![w] = @ \ {s}]
  /\ UNCHANGED <<applied, value, pc, batch, tries, attempt, locks, seen,
                 failed, cancelled, boundVars>>

\* Release gets two seconds and its error is ignored.
ReleaseFails(w) ==
  /\ pc[w] = "release"
  /\ todo[w] # {}
  /\ Fault
  /\ todo' = [todo EXCEPT ![w] = {}]
  /\ UNCHANGED <<redisVars, pc, batch, tries, attempt, locks, seen, failed,
                 cancelled, batches, stalls, crashes>>

\* Mutant: one retry too many.
ReturnOnceMore(w) ==
  /\ pc[w] = "release"
  /\ todo[w] = {}
  /\ Forget(w)
  /\ IF failed[w] /\ tries[w] <= PriceRetries
       THEN /\ tries' = [tries EXCEPT ![w] = @ + 1]
            /\ pc' = [pc EXCEPT ![w] = "start"]
       ELSE /\ pc' = [pc EXCEPT ![w] = "store"]
            /\ UNCHANGED tries
  /\ UNCHANGED <<redisVars, batch, attempt, todo, failed, boundVars>>

\* processPriceBatch: retry a failed attempt, drop the batch after the last.
Return(w) ==
  /\ pc[w] = "release"
  /\ todo[w] = {}
  /\ Forget(w)
  /\ IF failed[w] /\ tries[w] < PriceRetries
       THEN /\ tries' = [tries EXCEPT ![w] = @ + 1]
            /\ pc' = [pc EXCEPT ![w] = "start"]
       ELSE /\ pc' = [pc EXCEPT ![w] = "store"]
            /\ UNCHANGED tries
  /\ UNCHANGED <<redisVars, batch, attempt, todo, failed, boundVars>>

\* The offsets of an applied or dropped batch are stored and committed.
Store(w) ==
  /\ pc[w] = "store"
  /\ pc' = [pc EXCEPT ![w] = "idle"]
  /\ batch' = [batch EXCEPT ![w] = NoBatch]
  /\ tries' = [tries EXCEPT ![w] = 0]
  /\ failed' = [failed EXCEPT ![w] = FALSE]
  /\ UNCHANGED <<redisVars, attempt, locks, seen, todo, cancelled, boundVars>>

\* The process dies, or is shut down between two attempts: no offset is
\* stored, and the same prices may be taken again.
Crash(w) ==
  /\ pc[w] # "idle"
  /\ crashes < MaxCrashes
  /\ crashes' = crashes + 1
  /\ Enter(w, "idle", {})
  /\ Forget(w)
  /\ batch' = [batch EXCEPT ![w] = NoBatch]
  /\ tries' = [tries EXCEPT ![w] = 0]
  /\ failed' = [failed EXCEPT ![w] = FALSE]
  /\ UNCHANGED <<redisVars, attempt, batches, faults, stalls>>

\* Mutant: the locks are set without a TTL.
ExpireNever(s) == FALSE

\* Redis drops a lock nobody renews any more ...
ExpireOrphan(s) ==
  /\ lock[s] # {}
  /\ \A w \in Workers : ~(Owns(w, s) /\ Relies(w, s))
  /\ lock' = [lock EXCEPT ![s] = {}]
  /\ UNCHANGED <<applied, value, workVars, boundVars>>

\* ... or one whose worker is stalled past the TTL.
ExpireHeld(w, s) ==
  /\ Owns(w, s)
  /\ Relies(w, s)
  /\ stalls < MaxStalls
  /\ stalls' = stalls + 1
  /\ lock' = [lock EXCEPT ![s] = {}]
  /\ UNCHANGED <<applied, value, workVars, batches, faults, crashes>>

\* What the program does by itself, with Redis answering.
Work(w) ==
  \/ Begin(w)
  \/ \E s \in Stocks : Acquire(w, s) \/ Fetch(w, s) \/ FanOut(w, s)
                       \/ Commit(w, s) \/ Release(w, s)
  \/ AcquireDone(w) \/ FetchDone(w) \/ FanOutDone(w) \/ SeeCancelled(w)
  \/ Refresh(w) \/ CommitDone(w) \/ Return(w) \/ Store(w)

Failure(w) ==
  \/ \E ran \in SUBSET todo[w] : AcquireReplyLost(w, ran) \/ CallFails(w, ran)
  \/ \E s \in Stocks : CommitReplyLost(w, s)
  \/ RenewalFails(w) \/ CommitFails(w) \/ ReleaseFails(w) \/ Crash(w)

Next ==
  \/ \E w \in Workers :
       \/ \E b \in Batch : Take(w, b)
       \/ Work(w)
       \/ Failure(w)
       \/ \E s \in Stocks : ExpireHeld(w, s)
  \/ \E s \in Stocks : ExpireOrphan(s)

Spec == Init /\ [][Next]_vars

\* A worker's loop never waits for another worker; Redis expires a lock by
\* itself.  No fairness for arriving prices, faults, stalls and crashes.
Fairness ==
  /\ \A w \in Workers : WF_vars(Work(w))
  /\ \A s \in Stocks : WF_vars(ExpireOrphan(s))

FairSpec == Spec /\ Fairness

----------------------------------------------------------------------------
(* Properties *)

Tokens == [by : Workers, no : Nat]

\* Every variable has its type.
TypeOK ==
  /\ lock \in [Stocks -> SUBSET Tokens]
  /\ applied \in Batch
  /\ value \in Batch
  /\ pc \in [Workers -> Phases]
  /\ batch \in [Workers -> Batch]
  /\ tries \in [Workers -> 0..PriceRetries]
  /\ attempt \in [Workers -> Nat]
  /\ locks \in [Workers -> SUBSET Stocks]
  /\ seen \in [Workers -> Batch]
  /\ todo \in [Workers -> SUBSET Stocks]
  /\ failed \in [Workers -> BOOLEAN]
  /\ cancelled \in [Workers -> BOOLEAN]
  /\ {batches, faults, stalls, crashes} \subseteq Nat

\* What a caller of the price service can see.
Answer ==
  [w \in Workers |-> CASE pc[w] = "idle" -> "idle"
                       [] pc[w] = "store" /\ ~failed[w] -> "ok"
                       [] OTHER -> "busy"]

Register == INSTANCE PriceRegister WITH Callers <- Workers, answer <- Answer

\* The lock protocol implements the register: with lost replies, expired
\* locks, crashes and two consumers of one stock, the applied event of a stock
\* is replaced only by one of a higher version, and a batch whose offsets are
\* about to be stored as applied is applied for all of its stocks.
ImplementsRegister == Register!RegSpec

\* A stock's holdings are never valued with an older event than the one
\* recorded as applied.
ValueNeverBehindApplied == \A s \in Stocks : value[s].ver >= applied[s].ver

\* That holds as long as no worker is stalled past the TTL of its lock.
NoRollbackWithoutStall == stalls = 0 => ValueNeverBehindApplied

\* A lock its worker still counts on disappears only when the worker commits
\* or releases it, or by its TTL: another worker's late release or commit
\* never takes it.
LockLostOnlyByOwnStep ==
  [][\A w \in Workers, s \in Stocks :
       Owns(w, s) /\ Relies(w, s) /\ lock'[s] # lock[s]
         => \/ /\ pc[w] \in {"commit", "release"}
               /\ todo'[w] # todo[w]
            \/ stalls' # stalls]_vars

\* Every batch comes to an end: applied, dropped after its retries, or lost
\* with its process.
EveryBatchEnds == \A w \in Workers : pc[w] # "idle" ~> pc[w] = "idle"

\* A lock never stays: not after a lost reply, a failed release or a crash.
LocksAreFreed == \A s \in Stocks : lock[s] # {} ~> lock[s] = {}

----------------------------------------------------------------------------
(* The inductive invariant behind them *)

\* A token in Redis was drawn by its worker, now or earlier.
TokensDrawn == \A s \in Stocks : \A t \in lock[s] : t.no <= attempt[t.by]

\* An attempt past its acquisition has acquired every stock of the batch.
LocksMatchBatch ==
  \A w \in Workers :
    /\ pc[w] \in {"idle", "start", "store"} => locks[w] = {}
    /\ pc[w] = "acquire" /\ ~failed[w] => locks[w] \cup todo[w] = Asked(batch[w])
    /\ pc[w] \in {"fetch", "fanout", "refresh", "commit"}
         => locks[w] = Asked(batch[w])
    /\ pc[w] \in {"fanout", "commit"} => todo[w] \subseteq Accepted(w)

\* What w read as applied is still applied while w owns the lock.
OwnerSeesApplied ==
  \A w \in Workers : \A s \in Asked(batch[w]) :
    /\ Owns(w, s)
    /\ \/ pc[w] = "fetch" /\ s \notin todo[w]
       \/ pc[w] \in {"fanout", "refresh", "commit"}
    => seen[w][s] = applied[s]

\* Owner or not, what w read is not ahead of what is applied.
SeenIsPast ==
  \A w \in Workers, s \in Stocks : seen[w][s].ver <= applied[s].ver

\* As long as no error was met, a stock whose commit ran is covered.
CommitCovers(w) ==
  ~failed[w] =>
    /\ pc[w] = "commit" =>
         \A s \in Accepted(w) \ todo[w] : applied[s].ver >= batch[w][s].ver
    /\ pc[w] \in {"release", "store"} => Covers(applied, batch[w])

\* w has not given the lock of s back.
Needs(w, s) ==
  /\ s \in locks[w]
  /\ \/ pc[w] \in {"acquire", "fetch", "fanout", "refresh"}
     \/ pc[w] = "commit" /\ s \in todo[w]

\* The fan-out of s is done and its commit is not.
Valued(w, s) ==
  /\ s \in Accepted(w)
  /\ \/ pc[w] = "fanout" /\ s \notin todo[w]
     \/ pc[w] = "refresh"
     \/ pc[w] = "commit" /\ s \in todo[w]

\* Without a stall the locks serialise the fan-outs as well.
NoStallInv ==
  stalls = 0 =>
    /\ \A w \in Workers, s \in Stocks :
         /\ Needs(w, s) => Owns(w, s)
         /\ Valued(w, s) => value[s] = batch[w][s]
    /\ ValueNeverBehindApplied

\* The strengthening all the proofs rest on: who owns a lock has read the
\* state it is about to replace.
LockInv ==
  /\ TokensDrawn
  /\ LocksMatchBatch
  /\ OwnerSeesApplied
  /\ SeenIsPast
  /\ \A w \in Workers : CommitCovers(w)
  /\ NoStallInv
=============================================================================

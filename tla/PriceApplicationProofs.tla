----------------------- MODULE PriceApplicationProofs -----------------------
(***************************************************************************)
(* Proofs about PriceApplication for every set of workers, stocks, versions *)
(* and prices and for every bound.                                          *)
(***************************************************************************)
EXTENDS PriceApplication, TLAPS

USE DEF redisVars, workVars, boundVars, vars

\* The batch of no event is a batch.
LEMMA EmptyBatch == NoBatch \in Batch
BY DEF NoBatch, Batch

\* A batch asks only about stocks.
LEMMA BatchSubset == \A b : Asked(b) \subseteq Stocks
BY DEF Asked

\* Replacing one event by one of another batch gives a batch.
LEMMA BatchUpdate ==
  \A a, b \in Batch : \A s \in Stocks : [a EXCEPT ![s] = b[s]] \in Batch
BY DEF Batch

\* A version is above the absent state's 0.
LEMMA VersionsArePositive == \A n \in Versions : n \in Nat /\ n > 0
BY VersionsAssumption

\* The version of each entry of a batch, absent or not, is a number.
LEMMA VersionsAreNat == \A b \in Batch : \A s \in Stocks : b[s].ver \in Nat
<1> SUFFICES ASSUME NEW b \in Batch, NEW s \in Stocks
             PROVE  b[s].ver \in Nat
  OBVIOUS
<1>1. b[s] \in Event \/ b[s] = Absent
  BY DEF Batch
<1>2. CASE b[s] \in Event
  BY <1>2, VersionsAssumption DEF Event
<1>3. CASE b[s] = Absent
  BY <1>3 DEF Absent
<1> QED BY <1>1, <1>2, <1>3

\* The initial state is typed.
LEMMA TypeInit == Init => TypeOK
BY EmptyBatch, BoundsAssumption DEF Init, TypeOK, Phases

\* Every step keeps the types.
LEMMA TypeStep == TypeOK /\ [Next]_vars => TypeOK'
<1> SUFFICES ASSUME TypeOK, [Next]_vars PROVE TypeOK'
  OBVIOUS
<1> USE EmptyBatch, BatchSubset, BoundsAssumption DEF TypeOK, Phases
<1>1. ASSUME NEW w \in Workers, NEW b \in Batch, Take(w, b) PROVE TypeOK'
  BY <1>1 DEF Take
<1>2. ASSUME NEW w \in Workers, Begin(w) PROVE TypeOK'
  BY <1>2 DEF Begin, Enter
<1>3. ASSUME NEW w \in Workers, NEW s \in Stocks, Acquire(w, s) PROVE TypeOK'
  <2>1. CASE lock[s] = {}
    BY <1>3, <2>1 DEF Acquire, Tokens, Token
  <2>2. CASE lock[s] # {}
    BY <1>3, <2>2 DEF Acquire
  <2> QED BY <2>1, <2>2
<1>4. ASSUME NEW w \in Workers, NEW ran \in SUBSET todo[w], AcquireReplyLost(w, ran) PROVE TypeOK'
  BY <1>4 DEF AcquireReplyLost, Fault, Tokens, Token
<1>5. ASSUME NEW w \in Workers, AcquireDone(w) PROVE TypeOK'
  BY <1>5 DEF AcquireDone, Enter
<1>6. ASSUME NEW w \in Workers, NEW s \in Stocks, Fetch(w, s) PROVE TypeOK'
  BY <1>6 DEF Fetch, Batch
<1>7. ASSUME NEW w \in Workers, FetchDone(w) PROVE TypeOK'
  BY <1>7 DEF FetchDone, Enter, Accepted
<1>8. ASSUME NEW w \in Workers, NEW s \in Stocks, FanOut(w, s) PROVE TypeOK'
  BY <1>8 DEF FanOut, Batch
<1>9. ASSUME NEW w \in Workers, FanOutDone(w) PROVE TypeOK'
  BY <1>9 DEF FanOutDone, Enter
<1>10. ASSUME NEW w \in Workers, RenewalFails(w) PROVE TypeOK'
  BY <1>10 DEF RenewalFails, Fault
<1>11. ASSUME NEW w \in Workers, SeeCancelled(w) PROVE TypeOK'
  BY <1>11 DEF SeeCancelled, Abort, Enter
<1>12. ASSUME NEW w \in Workers, NEW ran \in SUBSET todo[w], CallFails(w, ran) PROVE TypeOK'
  BY <1>12 DEF CallFails, Fault, Abort, Enter, Batch
<1>13. ASSUME NEW w \in Workers, Refresh(w) PROVE TypeOK'
  <2>1. CASE \A s \in locks[w] : Owns(w, s)
    BY <1>13, <2>1 DEF Refresh, Enter, Accepted
  <2>2. CASE ~\A s \in locks[w] : Owns(w, s)
    BY <1>13, <2>2 DEF Refresh, Enter, Abort
  <2> QED BY <2>1, <2>2
<1>14. ASSUME NEW w \in Workers, NEW s \in Stocks, Commit(w, s) PROVE TypeOK'
  <2>1. CASE Owns(w, s)
    <3>1. applied' \in Batch
      <4>1. applied' = [applied EXCEPT ![s] = batch[w][s]]
        BY <1>14, <2>1 DEF Commit
      <4>2. applied \in Batch /\ batch[w] \in Batch
        OBVIOUS
      <4> QED BY <4>1, <4>2, BatchUpdate
    <3> QED BY <1>14, <2>1, <3>1 DEF Commit
  <2>2. CASE ~Owns(w, s)
    BY <1>14, <2>2 DEF Commit
  <2> QED BY <2>1, <2>2
<1>15. ASSUME NEW w \in Workers, NEW s \in Stocks, CommitReplyLost(w, s) PROVE TypeOK'
  <2>1. CASE Owns(w, s)
    <3>1. applied' \in Batch
      <4>1. applied' = [applied EXCEPT ![s] = batch[w][s]]
        BY <1>15, <2>1 DEF CommitReplyLost
      <4>2. applied \in Batch /\ batch[w] \in Batch
        OBVIOUS
      <4> QED BY <4>1, <4>2, BatchUpdate
    <3> QED BY <1>15, <2>1, <3>1 DEF CommitReplyLost, Fault
  <2>2. CASE ~Owns(w, s)
    BY <1>15, <2>2 DEF CommitReplyLost, Fault
  <2> QED BY <2>1, <2>2
<1>16. ASSUME NEW w \in Workers, CommitFails(w) PROVE TypeOK'
  BY <1>16 DEF CommitFails, Fault, Abort, Enter
<1>17. ASSUME NEW w \in Workers, CommitDone(w) PROVE TypeOK'
  BY <1>17 DEF CommitDone, Enter
<1>18. ASSUME NEW w \in Workers, NEW s \in Stocks, Release(w, s) PROVE TypeOK'
  BY <1>18 DEF Release
<1>19. ASSUME NEW w \in Workers, ReleaseFails(w) PROVE TypeOK'
  BY <1>19 DEF ReleaseFails, Fault
<1>20. ASSUME NEW w \in Workers, Return(w) PROVE TypeOK'
  BY <1>20 DEF Return, Forget
<1>21. ASSUME NEW w \in Workers, Store(w) PROVE TypeOK'
  BY <1>21 DEF Store
<1>22. ASSUME NEW w \in Workers, Crash(w) PROVE TypeOK'
  BY <1>22 DEF Crash, Enter, Forget
<1>23. ASSUME NEW s \in Stocks, ExpireOrphan(s) PROVE TypeOK'
  BY <1>23 DEF ExpireOrphan
<1>24. ASSUME NEW w \in Workers, NEW s \in Stocks, ExpireHeld(w, s) PROVE TypeOK'
  BY <1>24 DEF ExpireHeld
<1>25. CASE UNCHANGED vars
  BY <1>25
<1> QED
  BY <1>1, <1>2, <1>3, <1>4, <1>5, <1>6, <1>7, <1>8, <1>9, <1>10, <1>11, <1>12, <1>13, <1>14, <1>15, <1>16, <1>17, <1>18, <1>19, <1>20, <1>21, <1>22, <1>23, <1>24, <1>25 DEF Next, Work, Failure

\* Every variable keeps its type.
THEOREM TypeCorrect == Spec => []TypeOK
BY TypeInit, TypeStep, PTL DEF Spec

----------------------------------------------------------------------------
(* The lock invariant *)

\* No token in Redis is newer than its worker's latest.
LEMMA TokensDrawnStep ==
  ASSUME TypeOK, TokensDrawn, [Next]_vars
  PROVE  TokensDrawn'
<1> SUFFICES ASSUME NEW x \in Stocks, NEW t \in lock'[x]
             PROVE  t.no <= attempt'[t.by]
  BY DEF TokensDrawn
<1>0. ASSUME t \in lock[x], attempt' = attempt
      PROVE  t.no <= attempt'[t.by]
  BY <1>0 DEF TokensDrawn
<1> USE <1>0 DEF TypeOK
<1>1. ASSUME NEW w \in Workers, NEW b \in Batch, Take(w, b) PROVE t.no <= attempt'[t.by]
  BY <1>1 DEF Take
<1>2. ASSUME NEW w \in Workers, Begin(w) PROVE t.no <= attempt'[t.by]
  <2>1. t \in lock[x] /\ attempt' = [attempt EXCEPT ![w] = @ + 1]
    BY <1>2 DEF Begin
  <2>2. t \in Tokens /\ t.no <= attempt[t.by]
    BY <2>1 DEF TokensDrawn
  <2> QED BY <2>1, <2>2 DEF Tokens
<1>3. ASSUME NEW w \in Workers, NEW s \in Stocks, Acquire(w, s) PROVE t.no <= attempt'[t.by]
  <2>1. t \in lock[x] \/ t = Token(w)
    BY <1>3 DEF Acquire
  <2>2. attempt' = attempt
    BY <1>3 DEF Acquire
  <2> QED BY <2>1, <2>2 DEF Token
<1>4. ASSUME NEW w \in Workers, NEW ran \in SUBSET todo[w], AcquireReplyLost(w, ran) PROVE t.no <= attempt'[t.by]
  <2>1. t \in lock[x] \/ t = Token(w)
    BY <1>4 DEF AcquireReplyLost
  <2>2. attempt' = attempt
    BY <1>4 DEF AcquireReplyLost
  <2> QED BY <2>1, <2>2 DEF Token
<1>5. ASSUME NEW w \in Workers, AcquireDone(w) PROVE t.no <= attempt'[t.by]
  BY <1>5 DEF AcquireDone, Enter
<1>6. ASSUME NEW w \in Workers, NEW s \in Stocks, Fetch(w, s) PROVE t.no <= attempt'[t.by]
  BY <1>6 DEF Fetch
<1>7. ASSUME NEW w \in Workers, FetchDone(w) PROVE t.no <= attempt'[t.by]
  BY <1>7 DEF FetchDone, Enter
<1>8. ASSUME NEW w \in Workers, NEW s \in Stocks, FanOut(w, s) PROVE t.no <= attempt'[t.by]
  BY <1>8 DEF FanOut
<1>9. ASSUME NEW w \in Workers, FanOutDone(w) PROVE t.no <= attempt'[t.by]
  BY <1>9 DEF FanOutDone, Enter
<1>10. ASSUME NEW w \in Workers, RenewalFails(w) PROVE t.no <= attempt'[t.by]
  BY <1>10 DEF RenewalFails
<1>11. ASSUME NEW w \in Workers, SeeCancelled(w) PROVE t.no <= attempt'[t.by]
  BY <1>11 DEF SeeCancelled, Abort, Enter
<1>12. ASSUME NEW w \in Workers, NEW ran \in SUBSET todo[w], CallFails(w, ran) PROVE t.no <= attempt'[t.by]
  BY <1>12 DEF CallFails, Abort, Enter
<1>13. ASSUME NEW w \in Workers, Refresh(w) PROVE t.no <= attempt'[t.by]
  BY <1>13 DEF Refresh, Enter, Abort
<1>14. ASSUME NEW w \in Workers, NEW s \in Stocks, Commit(w, s) PROVE t.no <= attempt'[t.by]
  BY <1>14 DEF Commit
<1>15. ASSUME NEW w \in Workers, NEW s \in Stocks, CommitReplyLost(w, s) PROVE t.no <= attempt'[t.by]
  BY <1>15 DEF CommitReplyLost
<1>16. ASSUME NEW w \in Workers, CommitFails(w) PROVE t.no <= attempt'[t.by]
  BY <1>16 DEF CommitFails, Abort, Enter
<1>17. ASSUME NEW w \in Workers, CommitDone(w) PROVE t.no <= attempt'[t.by]
  BY <1>17 DEF CommitDone, Enter
<1>18. ASSUME NEW w \in Workers, NEW s \in Stocks, Release(w, s) PROVE t.no <= attempt'[t.by]
  BY <1>18 DEF Release
<1>19. ASSUME NEW w \in Workers, ReleaseFails(w) PROVE t.no <= attempt'[t.by]
  BY <1>19 DEF ReleaseFails
<1>20. ASSUME NEW w \in Workers, Return(w) PROVE t.no <= attempt'[t.by]
  BY <1>20 DEF Return, Forget
<1>21. ASSUME NEW w \in Workers, Store(w) PROVE t.no <= attempt'[t.by]
  BY <1>21 DEF Store
<1>22. ASSUME NEW w \in Workers, Crash(w) PROVE t.no <= attempt'[t.by]
  BY <1>22 DEF Crash, Enter, Forget
<1>23. ASSUME NEW s \in Stocks, ExpireOrphan(s) PROVE t.no <= attempt'[t.by]
  BY <1>23 DEF ExpireOrphan
<1>24. ASSUME NEW w \in Workers, NEW s \in Stocks, ExpireHeld(w, s) PROVE t.no <= attempt'[t.by]
  BY <1>24 DEF ExpireHeld
<1>25. CASE UNCHANGED vars
  BY <1>25
<1> QED
  BY <1>1, <1>2, <1>3, <1>4, <1>5, <1>6, <1>7, <1>8, <1>9, <1>10, <1>11, <1>12,
     <1>13, <1>14, <1>15, <1>16, <1>17, <1>18, <1>19, <1>20, <1>21, <1>22, <1>23, <1>24, <1>25
  DEF Next, Work, Failure

\* An attempt that acquired without an error holds exactly its stocks.
LEMMA LocksMatchStep ==
  ASSUME TypeOK, LocksMatchBatch, [Next]_vars
  PROVE  LocksMatchBatch'
<1> USE BatchSubset DEF TypeOK, LocksMatchBatch, Accepted, Phases
<1>1. ASSUME NEW w \in Workers, NEW b \in Batch, Take(w, b) PROVE LocksMatchBatch'
  BY <1>1 DEF Take
<1>2. ASSUME NEW w \in Workers, Begin(w) PROVE LocksMatchBatch'
  BY <1>2 DEF Begin, Enter
<1>3. ASSUME NEW w \in Workers, NEW s \in Stocks, Acquire(w, s) PROVE LocksMatchBatch'
  BY <1>3 DEF Acquire
<1>4. ASSUME NEW w \in Workers, NEW ran \in SUBSET todo[w], AcquireReplyLost(w, ran) PROVE LocksMatchBatch'
  BY <1>4 DEF AcquireReplyLost, Fault
<1>5. ASSUME NEW w \in Workers, AcquireDone(w) PROVE LocksMatchBatch'
  <2>1. CASE failed[w]
    BY <1>5, <2>1 DEF AcquireDone, Enter
  <2>2. CASE ~failed[w]
    <3>1. locks[w] = Asked(batch[w])
      BY <1>5, <2>2 DEF AcquireDone
    <3> QED BY <1>5, <2>2, <3>1 DEF AcquireDone, Enter
  <2> QED BY <2>1, <2>2
<1>6. ASSUME NEW w \in Workers, NEW s \in Stocks, Fetch(w, s) PROVE LocksMatchBatch'
  BY <1>6 DEF Fetch
<1>7. ASSUME NEW w \in Workers, FetchDone(w) PROVE LocksMatchBatch'
  BY <1>7 DEF FetchDone, Enter
<1>8. ASSUME NEW w \in Workers, NEW s \in Stocks, FanOut(w, s) PROVE LocksMatchBatch'
  BY <1>8 DEF FanOut
<1>9. ASSUME NEW w \in Workers, FanOutDone(w) PROVE LocksMatchBatch'
  BY <1>9 DEF FanOutDone, Enter
<1>10. ASSUME NEW w \in Workers, RenewalFails(w) PROVE LocksMatchBatch'
  BY <1>10 DEF RenewalFails
<1>11. ASSUME NEW w \in Workers, SeeCancelled(w) PROVE LocksMatchBatch'
  BY <1>11 DEF SeeCancelled, Abort, Enter
<1>12. ASSUME NEW w \in Workers, NEW ran \in SUBSET todo[w], CallFails(w, ran) PROVE LocksMatchBatch'
  BY <1>12 DEF CallFails, Abort, Enter
<1>13. ASSUME NEW w \in Workers, Refresh(w) PROVE LocksMatchBatch'
  BY <1>13 DEF Refresh, Enter, Abort
<1>14. ASSUME NEW w \in Workers, NEW s \in Stocks, Commit(w, s) PROVE LocksMatchBatch'
  BY <1>14 DEF Commit
<1>15. ASSUME NEW w \in Workers, NEW s \in Stocks, CommitReplyLost(w, s) PROVE LocksMatchBatch'
  BY <1>15 DEF CommitReplyLost
<1>16. ASSUME NEW w \in Workers, CommitFails(w) PROVE LocksMatchBatch'
  BY <1>16 DEF CommitFails, Abort, Enter
<1>17. ASSUME NEW w \in Workers, CommitDone(w) PROVE LocksMatchBatch'
  BY <1>17 DEF CommitDone, Enter
<1>18. ASSUME NEW w \in Workers, NEW s \in Stocks, Release(w, s) PROVE LocksMatchBatch'
  BY <1>18 DEF Release
<1>19. ASSUME NEW w \in Workers, ReleaseFails(w) PROVE LocksMatchBatch'
  BY <1>19 DEF ReleaseFails
<1>20. ASSUME NEW w \in Workers, Return(w) PROVE LocksMatchBatch'
  BY <1>20 DEF Return, Forget
<1>21. ASSUME NEW w \in Workers, Store(w) PROVE LocksMatchBatch'
  BY <1>21 DEF Store
<1>22. ASSUME NEW w \in Workers, Crash(w) PROVE LocksMatchBatch'
  BY <1>22 DEF Crash, Enter, Forget
<1>23. ASSUME NEW s \in Stocks, ExpireOrphan(s) PROVE LocksMatchBatch'
  BY <1>23 DEF ExpireOrphan
<1>24. ASSUME NEW w \in Workers, NEW s \in Stocks, ExpireHeld(w, s) PROVE LocksMatchBatch'
  BY <1>24 DEF ExpireHeld
<1>25. CASE UNCHANGED vars
  BY <1>25
<1> QED
  BY <1>1, <1>2, <1>3, <1>4, <1>5, <1>6, <1>7, <1>8, <1>9, <1>10, <1>11, <1>12,
     <1>13, <1>14, <1>15, <1>16, <1>17, <1>18, <1>19, <1>20, <1>21, <1>22, <1>23, <1>24, <1>25
  DEF Next, Work, Failure

\* A worker comes to own a lock only while it acquires.
LEMMA OwnershipStep ==
  ASSUME TypeOK, TokensDrawn, [Next]_vars,
         NEW v \in Workers, NEW x \in Stocks, Owns(v, x)'
  PROVE  \/ Owns(v, x)
         \/ pc[v] = "acquire" /\ pc'[v] = "acquire"
<1> DEFINE G == Owns(v, x) \/ (pc[v] = "acquire" /\ pc'[v] = "acquire")
<1> SUFFICES G
  OBVIOUS
<1> USE DEF TypeOK, Tokens, Owns, Token
<1>1. ASSUME NEW w \in Workers, NEW b \in Batch, Take(w, b) PROVE G
  BY <1>1 DEF Take
<1>2. ASSUME NEW w \in Workers, Begin(w) PROVE G
  <2>1. CASE w = v
    <3>1. /\ lock[x] = {[by |-> v, no |-> attempt[v] + 1]}
          /\ attempt[v] \in Nat
      BY <1>2, <2>1 DEF Begin
    <3>2. [by |-> v, no |-> attempt[v] + 1].no
            <= attempt[[by |-> v, no |-> attempt[v] + 1].by]
      BY ONLY <3>1, TokensDrawn, x \in Stocks DEF TokensDrawn
    <3> QED BY <3>1, <3>2
  <2>2. CASE w # v
    BY <1>2, <2>2 DEF Begin, Enter
  <2> QED BY <2>1, <2>2
<1>3. ASSUME NEW w \in Workers, NEW s \in Stocks, Acquire(w, s) PROVE G
  BY <1>3 DEF Acquire
<1>4. ASSUME NEW w \in Workers, NEW ran \in SUBSET todo[w], AcquireReplyLost(w, ran) PROVE G
  BY <1>4 DEF AcquireReplyLost, Fault
<1>5. ASSUME NEW w \in Workers, AcquireDone(w) PROVE G
  BY <1>5 DEF AcquireDone, Enter
<1>6. ASSUME NEW w \in Workers, NEW s \in Stocks, Fetch(w, s) PROVE G
  BY <1>6 DEF Fetch
<1>7. ASSUME NEW w \in Workers, FetchDone(w) PROVE G
  BY <1>7 DEF FetchDone, Enter
<1>8. ASSUME NEW w \in Workers, NEW s \in Stocks, FanOut(w, s) PROVE G
  BY <1>8 DEF FanOut
<1>9. ASSUME NEW w \in Workers, FanOutDone(w) PROVE G
  BY <1>9 DEF FanOutDone, Enter
<1>10. ASSUME NEW w \in Workers, RenewalFails(w) PROVE G
  BY <1>10 DEF RenewalFails
<1>11. ASSUME NEW w \in Workers, SeeCancelled(w) PROVE G
  BY <1>11 DEF SeeCancelled, Abort, Enter
<1>12. ASSUME NEW w \in Workers, NEW ran \in SUBSET todo[w], CallFails(w, ran) PROVE G
  BY <1>12 DEF CallFails, Abort, Enter
<1>13. ASSUME NEW w \in Workers, Refresh(w) PROVE G
  BY <1>13 DEF Refresh, Enter, Abort
<1>14. ASSUME NEW w \in Workers, NEW s \in Stocks, Commit(w, s) PROVE G
  BY <1>14 DEF Commit
<1>15. ASSUME NEW w \in Workers, NEW s \in Stocks, CommitReplyLost(w, s) PROVE G
  BY <1>15 DEF CommitReplyLost
<1>16. ASSUME NEW w \in Workers, CommitFails(w) PROVE G
  BY <1>16 DEF CommitFails, Abort, Enter
<1>17. ASSUME NEW w \in Workers, CommitDone(w) PROVE G
  BY <1>17 DEF CommitDone, Enter
<1>18. ASSUME NEW w \in Workers, NEW s \in Stocks, Release(w, s) PROVE G
  BY <1>18 DEF Release
<1>19. ASSUME NEW w \in Workers, ReleaseFails(w) PROVE G
  BY <1>19 DEF ReleaseFails
<1>20. ASSUME NEW w \in Workers, Return(w) PROVE G
  BY <1>20 DEF Return, Forget
<1>21. ASSUME NEW w \in Workers, Store(w) PROVE G
  BY <1>21 DEF Store
<1>22. ASSUME NEW w \in Workers, Crash(w) PROVE G
  BY <1>22 DEF Crash, Enter, Forget
<1>23. ASSUME NEW s \in Stocks, ExpireOrphan(s) PROVE G
  BY <1>23 DEF ExpireOrphan
<1>24. ASSUME NEW w \in Workers, NEW s \in Stocks, ExpireHeld(w, s) PROVE G
  BY <1>24 DEF ExpireHeld
<1>25. CASE UNCHANGED vars
  BY <1>25
<1> QED
  BY <1>1, <1>2, <1>3, <1>4, <1>5, <1>6, <1>7, <1>8, <1>9, <1>10, <1>11, <1>12,
     <1>13, <1>14, <1>15, <1>16, <1>17, <1>18, <1>19, <1>20, <1>21, <1>22, <1>23, <1>24, <1>25
  DEF Next, Work, Failure

\* Only the script of a committing owner changes an applied event, and it
\* frees the lock in the same step.
LEMMA AppliedStep ==
  ASSUME TypeOK, [Next]_vars, NEW x \in Stocks, applied'[x] # applied[x]
  PROVE  \E v \in Workers :
           /\ pc[v] = "commit" /\ x \in todo[v] /\ Owns(v, x)
           /\ applied' = [applied EXCEPT ![x] = batch[v][x]]
           /\ lock' = [lock EXCEPT ![x] = {}]
           /\ UNCHANGED <<value, stalls>>
<1> DEFINE G == \E v \in Workers :
           /\ pc[v] = "commit" /\ x \in todo[v] /\ Owns(v, x)
           /\ applied' = [applied EXCEPT ![x] = batch[v][x]]
           /\ lock' = [lock EXCEPT ![x] = {}]
           /\ UNCHANGED <<value, stalls>>
<1> SUFFICES G
  OBVIOUS
<1> USE DEF TypeOK, Batch
<1>1. ASSUME NEW w \in Workers, NEW b \in Batch, Take(w, b) PROVE G
  BY <1>1 DEF Take
<1>2. ASSUME NEW w \in Workers, Begin(w) PROVE G
  BY <1>2 DEF Begin, Enter
<1>3. ASSUME NEW w \in Workers, NEW s \in Stocks, Acquire(w, s) PROVE G
  BY <1>3 DEF Acquire
<1>4. ASSUME NEW w \in Workers, NEW ran \in SUBSET todo[w], AcquireReplyLost(w, ran) PROVE G
  BY <1>4 DEF AcquireReplyLost, Fault
<1>5. ASSUME NEW w \in Workers, AcquireDone(w) PROVE G
  BY <1>5 DEF AcquireDone, Enter
<1>6. ASSUME NEW w \in Workers, NEW s \in Stocks, Fetch(w, s) PROVE G
  BY <1>6 DEF Fetch
<1>7. ASSUME NEW w \in Workers, FetchDone(w) PROVE G
  BY <1>7 DEF FetchDone, Enter
<1>8. ASSUME NEW w \in Workers, NEW s \in Stocks, FanOut(w, s) PROVE G
  BY <1>8 DEF FanOut
<1>9. ASSUME NEW w \in Workers, FanOutDone(w) PROVE G
  BY <1>9 DEF FanOutDone, Enter
<1>10. ASSUME NEW w \in Workers, RenewalFails(w) PROVE G
  BY <1>10 DEF RenewalFails
<1>11. ASSUME NEW w \in Workers, SeeCancelled(w) PROVE G
  BY <1>11 DEF SeeCancelled, Abort, Enter
<1>12. ASSUME NEW w \in Workers, NEW ran \in SUBSET todo[w], CallFails(w, ran) PROVE G
  BY <1>12 DEF CallFails, Abort, Enter
<1>13. ASSUME NEW w \in Workers, Refresh(w) PROVE G
  BY <1>13 DEF Refresh, Enter, Abort
<1>14. ASSUME NEW w \in Workers, NEW s \in Stocks, Commit(w, s) PROVE G
  BY <1>14 DEF Commit
<1>15. ASSUME NEW w \in Workers, NEW s \in Stocks, CommitReplyLost(w, s) PROVE G
  BY <1>15 DEF CommitReplyLost
<1>16. ASSUME NEW w \in Workers, CommitFails(w) PROVE G
  BY <1>16 DEF CommitFails, Abort, Enter
<1>17. ASSUME NEW w \in Workers, CommitDone(w) PROVE G
  BY <1>17 DEF CommitDone, Enter
<1>18. ASSUME NEW w \in Workers, NEW s \in Stocks, Release(w, s) PROVE G
  BY <1>18 DEF Release
<1>19. ASSUME NEW w \in Workers, ReleaseFails(w) PROVE G
  BY <1>19 DEF ReleaseFails
<1>20. ASSUME NEW w \in Workers, Return(w) PROVE G
  BY <1>20 DEF Return, Forget
<1>21. ASSUME NEW w \in Workers, Store(w) PROVE G
  BY <1>21 DEF Store
<1>22. ASSUME NEW w \in Workers, Crash(w) PROVE G
  BY <1>22 DEF Crash, Enter, Forget
<1>23. ASSUME NEW s \in Stocks, ExpireOrphan(s) PROVE G
  BY <1>23 DEF ExpireOrphan
<1>24. ASSUME NEW w \in Workers, NEW s \in Stocks, ExpireHeld(w, s) PROVE G
  BY <1>24 DEF ExpireHeld
<1>25. CASE UNCHANGED vars
  BY <1>25
<1> QED
  BY <1>1, <1>2, <1>3, <1>4, <1>5, <1>6, <1>7, <1>8, <1>9, <1>10, <1>11, <1>12,
     <1>13, <1>14, <1>15, <1>16, <1>17, <1>18, <1>19, <1>20, <1>21, <1>22, <1>23, <1>24, <1>25
  DEF Next, Work, Failure

\* What a worker has read stays, until it begins another attempt.
LEMMA SeenStep ==
  ASSUME TypeOK, LocksMatchBatch, [Next]_vars, NEW v \in Workers,
         NEW x \in Asked(batch[v])',
         \/ pc'[v] = "fetch" /\ x \notin todo'[v]
         \/ pc'[v] \in {"fanout", "refresh", "commit"}
  PROVE  /\ batch'[v] = batch[v] /\ attempt'[v] = attempt[v]
         /\ \/ seen'[v][x] = applied[x] /\ UNCHANGED applied
            \/ /\ seen'[v][x] = seen[v][x]
               /\ \/ pc[v] = "fetch" /\ x \notin todo[v]
                  \/ pc[v] \in {"fanout", "refresh", "commit"}
<1> DEFINE G ==
         /\ batch'[v] = batch[v] /\ attempt'[v] = attempt[v]
         /\ \/ seen'[v][x] = applied[x] /\ UNCHANGED applied
            \/ /\ seen'[v][x] = seen[v][x]
               /\ \/ pc[v] = "fetch" /\ x \notin todo[v]
                  \/ pc[v] \in {"fanout", "refresh", "commit"}
<1> SUFFICES G
  OBVIOUS
<1> USE BatchSubset DEF TypeOK, Batch
<1>1. ASSUME NEW w \in Workers, NEW b \in Batch, Take(w, b) PROVE G
  BY <1>1 DEF Take
<1>2. ASSUME NEW w \in Workers, Begin(w) PROVE G
  BY <1>2 DEF Begin, Enter
<1>3. ASSUME NEW w \in Workers, NEW s \in Stocks, Acquire(w, s) PROVE G
  BY <1>3 DEF Acquire
<1>4. ASSUME NEW w \in Workers, NEW ran \in SUBSET todo[w], AcquireReplyLost(w, ran) PROVE G
  BY <1>4 DEF AcquireReplyLost, Fault
<1>5. ASSUME NEW w \in Workers, AcquireDone(w) PROVE G
  BY <1>5 DEF AcquireDone, Enter
<1>6. ASSUME NEW w \in Workers, NEW s \in Stocks, Fetch(w, s) PROVE G
  <2>1. CASE w = v /\ s = x
    BY <1>6, <2>1 DEF Fetch
  <2>2. CASE w = v /\ s # x
    BY <1>6, <2>2 DEF Fetch
  <2>3. CASE w # v
    BY <1>6, <2>3 DEF Fetch
  <2> QED BY <2>1, <2>2, <2>3
<1>7. ASSUME NEW w \in Workers, FetchDone(w) PROVE G
  BY <1>7 DEF FetchDone, Enter
<1>8. ASSUME NEW w \in Workers, NEW s \in Stocks, FanOut(w, s) PROVE G
  BY <1>8 DEF FanOut
<1>9. ASSUME NEW w \in Workers, FanOutDone(w) PROVE G
  BY <1>9 DEF FanOutDone, Enter
<1>10. ASSUME NEW w \in Workers, RenewalFails(w) PROVE G
  BY <1>10 DEF RenewalFails
<1>11. ASSUME NEW w \in Workers, SeeCancelled(w) PROVE G
  BY <1>11 DEF SeeCancelled, Abort, Enter
<1>12. ASSUME NEW w \in Workers, NEW ran \in SUBSET todo[w], CallFails(w, ran) PROVE G
  BY <1>12 DEF CallFails, Abort, Enter
<1>13. ASSUME NEW w \in Workers, Refresh(w) PROVE G
  BY <1>13 DEF Refresh, Enter, Abort
<1>14. ASSUME NEW w \in Workers, NEW s \in Stocks, Commit(w, s) PROVE G
  BY <1>14 DEF Commit
<1>15. ASSUME NEW w \in Workers, NEW s \in Stocks, CommitReplyLost(w, s) PROVE G
  BY <1>15 DEF CommitReplyLost
<1>16. ASSUME NEW w \in Workers, CommitFails(w) PROVE G
  BY <1>16 DEF CommitFails, Abort, Enter
<1>17. ASSUME NEW w \in Workers, CommitDone(w) PROVE G
  BY <1>17 DEF CommitDone, Enter
<1>18. ASSUME NEW w \in Workers, NEW s \in Stocks, Release(w, s) PROVE G
  BY <1>18 DEF Release
<1>19. ASSUME NEW w \in Workers, ReleaseFails(w) PROVE G
  BY <1>19 DEF ReleaseFails
<1>20. ASSUME NEW w \in Workers, Return(w) PROVE G
  BY <1>20 DEF Return, Forget
<1>21. ASSUME NEW w \in Workers, Store(w) PROVE G
  BY <1>21 DEF Store
<1>22. ASSUME NEW w \in Workers, Crash(w) PROVE G
  BY <1>22 DEF Crash, Enter, Forget
<1>23. ASSUME NEW s \in Stocks, ExpireOrphan(s) PROVE G
  BY <1>23 DEF ExpireOrphan
<1>24. ASSUME NEW w \in Workers, NEW s \in Stocks, ExpireHeld(w, s) PROVE G
  BY <1>24 DEF ExpireHeld
<1>25. CASE UNCHANGED vars
  BY <1>25
<1> QED
  BY <1>1, <1>2, <1>3, <1>4, <1>5, <1>6, <1>7, <1>8, <1>9, <1>10, <1>11, <1>12,
     <1>13, <1>14, <1>15, <1>16, <1>17, <1>18, <1>19, <1>20, <1>21, <1>22, <1>23, <1>24, <1>25
  DEF Next, Work, Failure

\* The heart of the argument: nobody commits under an owner, so what the
\* owner read remains the applied event until the owner replaces it.
LEMMA OwnerSeesStep ==
  ASSUME TypeOK, TokensDrawn, LocksMatchBatch, OwnerSeesApplied, [Next]_vars
  PROVE  OwnerSeesApplied'
<1> SUFFICES ASSUME NEW v \in Workers, NEW x \in Asked(batch[v])', Owns(v, x)',
                    \/ pc'[v] = "fetch" /\ x \notin todo'[v]
                    \/ pc'[v] \in {"fanout", "refresh", "commit"}
             PROVE  seen'[v][x] = applied'[x]
  BY DEF OwnerSeesApplied
<1>1. x \in Stocks
  BY BatchSubset
<1>2. Owns(v, x)
  BY <1>1, OwnershipStep
<1>3. applied'[x] = applied[x]
  <2> SUFFICES ASSUME applied'[x] # applied[x] PROVE FALSE
    OBVIOUS
  <2>1. lock'[x] = {}
    BY <1>1, AppliedStep DEF TypeOK
  <2> QED BY <2>1 DEF Owns
<1>4. CASE seen'[v][x] = applied[x]
  BY <1>3, <1>4
<1>5. CASE /\ seen'[v][x] = seen[v][x]
           /\ \/ pc[v] = "fetch" /\ x \notin todo[v]
              \/ pc[v] \in {"fanout", "refresh", "commit"}
  <2>1. x \in Asked(batch[v])
    BY SeenStep DEF Asked
  <2> QED BY <1>2, <1>3, <1>5, <2>1 DEF OwnerSeesApplied
<1> QED BY <1>4, <1>5, SeenStep

\* Hence a commit always raises the version.
LEMMA AppliedGrows ==
  ASSUME TypeOK, LocksMatchBatch, OwnerSeesApplied, [Next]_vars,
         NEW x \in Stocks
  PROVE  /\ applied'[x].ver >= applied[x].ver
         /\ applied'[x] # applied[x] => applied'[x].ver > applied[x].ver
<1>0. applied[x].ver \in Nat /\ applied'[x].ver \in Nat
  BY TypeStep, VersionsAreNat DEF TypeOK
<1> SUFFICES ASSUME applied'[x] # applied[x]
             PROVE  applied'[x].ver > applied[x].ver
  BY <1>0
<1>1. PICK v \in Workers :
           /\ pc[v] = "commit" /\ x \in todo[v] /\ Owns(v, x)
           /\ applied' = [applied EXCEPT ![x] = batch[v][x]]
  BY AppliedStep
<1>2. x \in Accepted(v) /\ x \in Asked(batch[v])
  BY <1>1 DEF LocksMatchBatch, Accepted
<1>3. seen[v][x] = applied[x]
  BY <1>1, <1>2 DEF OwnerSeesApplied
<1>4. applied'[x] = batch[v][x]
  BY <1>1 DEF TypeOK, Batch
<1>5. batch[v][x].ver > 0
  <2>1. batch[v][x] \in Event
    BY <1>2 DEF TypeOK, Batch, Asked
  <2>2. batch[v][x].ver \in Versions
    BY <2>1 DEF Event
  <2> QED BY <2>2, VersionsArePositive
<1> QED BY <1>2, <1>3, <1>4, <1>5 DEF Accepted, Accepts, Absent

\* seen is filled from applied only.
LEMMA SeenValues ==
  ASSUME TypeOK, [Next]_vars, NEW v \in Workers, NEW x \in Stocks
  PROVE  \/ seen'[v][x] = seen[v][x]
         \/ seen'[v][x] = applied[x] /\ UNCHANGED applied
         \/ seen'[v][x] = Absent
<1> DEFINE G == \/ seen'[v][x] = seen[v][x]
                \/ seen'[v][x] = applied[x] /\ UNCHANGED applied
                \/ seen'[v][x] = Absent
<1> SUFFICES G
  OBVIOUS
<1> USE DEF TypeOK, Batch, NoBatch
<1>1. ASSUME NEW w \in Workers, NEW b \in Batch, Take(w, b) PROVE G
  BY <1>1 DEF Take
<1>2. ASSUME NEW w \in Workers, Begin(w) PROVE G
  BY <1>2 DEF Begin, Enter
<1>3. ASSUME NEW w \in Workers, NEW s \in Stocks, Acquire(w, s) PROVE G
  BY <1>3 DEF Acquire
<1>4. ASSUME NEW w \in Workers, NEW ran \in SUBSET todo[w], AcquireReplyLost(w, ran) PROVE G
  BY <1>4 DEF AcquireReplyLost, Fault
<1>5. ASSUME NEW w \in Workers, AcquireDone(w) PROVE G
  BY <1>5 DEF AcquireDone, Enter
<1>6. ASSUME NEW w \in Workers, NEW s \in Stocks, Fetch(w, s) PROVE G
  BY <1>6 DEF Fetch
<1>7. ASSUME NEW w \in Workers, FetchDone(w) PROVE G
  BY <1>7 DEF FetchDone, Enter
<1>8. ASSUME NEW w \in Workers, NEW s \in Stocks, FanOut(w, s) PROVE G
  BY <1>8 DEF FanOut
<1>9. ASSUME NEW w \in Workers, FanOutDone(w) PROVE G
  BY <1>9 DEF FanOutDone, Enter
<1>10. ASSUME NEW w \in Workers, RenewalFails(w) PROVE G
  BY <1>10 DEF RenewalFails
<1>11. ASSUME NEW w \in Workers, SeeCancelled(w) PROVE G
  BY <1>11 DEF SeeCancelled, Abort, Enter
<1>12. ASSUME NEW w \in Workers, NEW ran \in SUBSET todo[w], CallFails(w, ran) PROVE G
  BY <1>12 DEF CallFails, Abort, Enter
<1>13. ASSUME NEW w \in Workers, Refresh(w) PROVE G
  BY <1>13 DEF Refresh, Enter, Abort
<1>14. ASSUME NEW w \in Workers, NEW s \in Stocks, Commit(w, s) PROVE G
  BY <1>14 DEF Commit
<1>15. ASSUME NEW w \in Workers, NEW s \in Stocks, CommitReplyLost(w, s) PROVE G
  BY <1>15 DEF CommitReplyLost
<1>16. ASSUME NEW w \in Workers, CommitFails(w) PROVE G
  BY <1>16 DEF CommitFails, Abort, Enter
<1>17. ASSUME NEW w \in Workers, CommitDone(w) PROVE G
  BY <1>17 DEF CommitDone, Enter
<1>18. ASSUME NEW w \in Workers, NEW s \in Stocks, Release(w, s) PROVE G
  BY <1>18 DEF Release
<1>19. ASSUME NEW w \in Workers, ReleaseFails(w) PROVE G
  BY <1>19 DEF ReleaseFails
<1>20. ASSUME NEW w \in Workers, Return(w) PROVE G
  BY <1>20 DEF Return, Forget
<1>21. ASSUME NEW w \in Workers, Store(w) PROVE G
  BY <1>21 DEF Store
<1>22. ASSUME NEW w \in Workers, Crash(w) PROVE G
  BY <1>22 DEF Crash, Enter, Forget
<1>23. ASSUME NEW s \in Stocks, ExpireOrphan(s) PROVE G
  BY <1>23 DEF ExpireOrphan
<1>24. ASSUME NEW w \in Workers, NEW s \in Stocks, ExpireHeld(w, s) PROVE G
  BY <1>24 DEF ExpireHeld
<1>25. CASE UNCHANGED vars
  BY <1>25
<1> QED
  BY <1>1, <1>2, <1>3, <1>4, <1>5, <1>6, <1>7, <1>8, <1>9, <1>10, <1>11, <1>12,
     <1>13, <1>14, <1>15, <1>16, <1>17, <1>18, <1>19, <1>20, <1>21, <1>22, <1>23, <1>24, <1>25
  DEF Next, Work, Failure

\* Applied versions only grow, so what was read stays behind them.
LEMMA SeenIsPastStep ==
  ASSUME TypeOK, LocksMatchBatch, OwnerSeesApplied, SeenIsPast, [Next]_vars
  PROVE  SeenIsPast'
<1> SUFFICES ASSUME NEW v \in Workers, NEW x \in Stocks
             PROVE  seen'[v][x].ver <= applied'[x].ver
  BY DEF SeenIsPast
<1>1. /\ applied[x].ver \in Nat /\ applied'[x].ver \in Nat
      /\ seen[v][x].ver \in Nat
  BY TypeStep, VersionsAreNat DEF TypeOK
<1>2. seen[v][x].ver <= applied[x].ver /\ applied[x].ver <= applied'[x].ver
  BY <1>1, AppliedGrows DEF SeenIsPast
<1>3. CASE seen'[v][x] = seen[v][x]
  BY <1>1, <1>2, <1>3
<1>4. CASE seen'[v][x] = applied[x] /\ UNCHANGED applied
  BY <1>1, <1>4
<1>5. CASE seen'[v][x] = Absent
  BY <1>1, <1>5 DEF Absent
<1> QED BY <1>3, <1>4, <1>5, SeenValues

\* Without an error, what was committed or skipped stays covered.
LEMMA CommitCoversStep ==
  ASSUME TypeOK, LocksMatchBatch, SeenIsPast, [Next]_vars,
         NEW v \in Workers, CommitCovers(v),
         \A x \in Stocks : applied'[x].ver >= applied[x].ver
  PROVE  CommitCovers(v)'
<1> USE BatchSubset DEF TypeOK, CommitCovers, Covers, Accepted, Phases
<1>0. \A x \in Stocks : /\ applied[x].ver \in Nat /\ applied'[x].ver \in Nat
                        /\ batch[v][x].ver \in Nat /\ seen[v][x].ver \in Nat
  BY TypeStep, VersionsAreNat
<1>1. ASSUME NEW w \in Workers, NEW b \in Batch, Take(w, b) PROVE CommitCovers(v)'
  BY <1>1 DEF Take
<1>2. ASSUME NEW w \in Workers, Begin(w) PROVE CommitCovers(v)'
  BY <1>2 DEF Begin, Enter
<1>3. ASSUME NEW w \in Workers, NEW s \in Stocks, Acquire(w, s) PROVE CommitCovers(v)'
  BY <1>3 DEF Acquire
<1>4. ASSUME NEW w \in Workers, NEW ran \in SUBSET todo[w], AcquireReplyLost(w, ran) PROVE CommitCovers(v)'
  BY <1>4 DEF AcquireReplyLost, Fault
<1>5. ASSUME NEW w \in Workers, AcquireDone(w) PROVE CommitCovers(v)'
  BY <1>5 DEF AcquireDone, Enter
<1>6. ASSUME NEW w \in Workers, NEW s \in Stocks, Fetch(w, s) PROVE CommitCovers(v)'
  BY <1>6 DEF Fetch
<1>7. ASSUME NEW w \in Workers, FetchDone(w) PROVE CommitCovers(v)'
  BY <1>7 DEF FetchDone, Enter
<1>8. ASSUME NEW w \in Workers, NEW s \in Stocks, FanOut(w, s) PROVE CommitCovers(v)'
  BY <1>8 DEF FanOut
<1>9. ASSUME NEW w \in Workers, FanOutDone(w) PROVE CommitCovers(v)'
  BY <1>9 DEF FanOutDone, Enter
<1>10. ASSUME NEW w \in Workers, RenewalFails(w) PROVE CommitCovers(v)'
  BY <1>10 DEF RenewalFails
<1>11. ASSUME NEW w \in Workers, SeeCancelled(w) PROVE CommitCovers(v)'
  BY <1>11 DEF SeeCancelled, Abort, Enter
<1>12. ASSUME NEW w \in Workers, NEW ran \in SUBSET todo[w], CallFails(w, ran) PROVE CommitCovers(v)'
  BY <1>12 DEF CallFails, Abort, Enter
<1>13. ASSUME NEW w \in Workers, Refresh(w) PROVE CommitCovers(v)'
  BY <1>13 DEF Refresh, Enter, Abort
<1>14. ASSUME NEW w \in Workers, NEW s \in Stocks, Commit(w, s) PROVE CommitCovers(v)'
  <2>1. CASE Owns(w, s) /\ w = v
    <3>1. ASSUME ~failed[v], NEW x \in Accepted(v), x \notin todo'[v]
          PROVE  applied'[x].ver >= batch[v][x].ver
      <4>1. CASE x = s
        BY <1>14, <2>1, <4>1, <1>0 DEF Commit, Batch
      <4>2. CASE x # s
        BY <1>14, <2>1, <4>2, <3>1, <1>0 DEF Commit
      <4> QED BY <4>1, <4>2
    <3> QED BY <1>14, <2>1, <3>1 DEF Commit
  <2>2. CASE ~Owns(w, s) /\ w = v
    BY <1>14, <2>2 DEF Commit
  <2>3. CASE w # v
    BY <1>14, <2>3, <1>0 DEF Commit
  <2> QED BY <2>1, <2>2, <2>3
<1>15. ASSUME NEW w \in Workers, NEW s \in Stocks, CommitReplyLost(w, s) PROVE CommitCovers(v)'
  <2>1. CASE w = v
    BY <1>15, <2>1 DEF CommitReplyLost
  <2>2. CASE w # v
    BY <1>15, <2>2, <1>0 DEF CommitReplyLost
  <2> QED BY <2>1, <2>2
<1>16. ASSUME NEW w \in Workers, CommitFails(w) PROVE CommitCovers(v)'
  BY <1>16 DEF CommitFails, Abort, Enter
<1>17. ASSUME NEW w \in Workers, CommitDone(w) PROVE CommitCovers(v)'
  <2>1. ASSUME w = v, ~failed[v], NEW x \in Asked(batch[v])
        PROVE  applied[x].ver >= batch[v][x].ver
    <3>1. CASE x \in Accepted(v)
      BY <1>17, <2>1, <3>1 DEF CommitDone
    <3>2. CASE x \notin Accepted(v)
      <4>1. batch[v][x].ver <= seen[v][x].ver
        BY <3>2, <2>1, <1>0 DEF Accepts
      <4> QED BY <4>1, <2>1, <1>0 DEF SeenIsPast
    <3> QED BY <3>1, <3>2
  <2> QED BY <1>17, <2>1 DEF CommitDone, Enter
<1>18. ASSUME NEW w \in Workers, NEW s \in Stocks, Release(w, s) PROVE CommitCovers(v)'
  BY <1>18 DEF Release
<1>19. ASSUME NEW w \in Workers, ReleaseFails(w) PROVE CommitCovers(v)'
  BY <1>19 DEF ReleaseFails
<1>20. ASSUME NEW w \in Workers, Return(w) PROVE CommitCovers(v)'
  BY <1>20 DEF Return, Forget
<1>21. ASSUME NEW w \in Workers, Store(w) PROVE CommitCovers(v)'
  BY <1>21 DEF Store
<1>22. ASSUME NEW w \in Workers, Crash(w) PROVE CommitCovers(v)'
  BY <1>22 DEF Crash, Enter, Forget
<1>23. ASSUME NEW s \in Stocks, ExpireOrphan(s) PROVE CommitCovers(v)'
  BY <1>23 DEF ExpireOrphan
<1>24. ASSUME NEW w \in Workers, NEW s \in Stocks, ExpireHeld(w, s) PROVE CommitCovers(v)'
  BY <1>24 DEF ExpireHeld
<1>25. CASE UNCHANGED vars
  BY <1>25
<1> QED
  BY <1>1, <1>2, <1>3, <1>4, <1>5, <1>6, <1>7, <1>8, <1>9, <1>10, <1>11, <1>12,
     <1>13, <1>14, <1>15, <1>16, <1>17, <1>18, <1>19, <1>20, <1>21, <1>22, <1>23, <1>24, <1>25
  DEF Next, Work, Failure

----------------------------------------------------------------------------

(* Without stalls the locks serialise the fan-outs *)

\* A token names one worker: a lock has one owner.
LEMMA OneOwner ==
  ASSUME NEW v \in Workers, NEW w \in Workers, NEW x \in Stocks,
         Owns(v, x), Owns(w, x)
  PROVE  v = w
<1>1. Token(v) = Token(w)
  BY DEF Owns
<1> QED BY <1>1 DEF Token

\* A stock in the fan-out, or past it, is one whose lock is still needed.
LEMMA ValuedNeeds ==
  ASSUME LocksMatchBatch, NEW v \in Workers, NEW x \in Stocks,
         Valued(v, x) \/ (pc[v] \in {"fanout", "commit"} /\ x \in todo[v])
  PROVE  Needs(v, x)
BY DEF Valued, Needs, LocksMatchBatch, Accepted

\* A state without a stall had none before it.
LEMMA StallsGrow ==
  ASSUME TypeOK, [Next]_vars, stalls' = 0
  PROVE  stalls = 0
<1> USE DEF TypeOK
<1>1. ASSUME NEW w \in Workers, NEW b \in Batch, Take(w, b) PROVE stalls = 0
  BY <1>1 DEF Take
<1>2. ASSUME NEW w \in Workers, Begin(w) PROVE stalls = 0
  BY <1>2 DEF Begin, Enter
<1>3. ASSUME NEW w \in Workers, NEW s \in Stocks, Acquire(w, s) PROVE stalls = 0
  BY <1>3 DEF Acquire
<1>4. ASSUME NEW w \in Workers, NEW ran \in SUBSET todo[w], AcquireReplyLost(w, ran) PROVE stalls = 0
  BY <1>4 DEF AcquireReplyLost, Fault
<1>5. ASSUME NEW w \in Workers, AcquireDone(w) PROVE stalls = 0
  BY <1>5 DEF AcquireDone, Enter
<1>6. ASSUME NEW w \in Workers, NEW s \in Stocks, Fetch(w, s) PROVE stalls = 0
  BY <1>6 DEF Fetch
<1>7. ASSUME NEW w \in Workers, FetchDone(w) PROVE stalls = 0
  BY <1>7 DEF FetchDone, Enter
<1>8. ASSUME NEW w \in Workers, NEW s \in Stocks, FanOut(w, s) PROVE stalls = 0
  BY <1>8 DEF FanOut
<1>9. ASSUME NEW w \in Workers, FanOutDone(w) PROVE stalls = 0
  BY <1>9 DEF FanOutDone, Enter
<1>10. ASSUME NEW w \in Workers, RenewalFails(w) PROVE stalls = 0
  BY <1>10 DEF RenewalFails
<1>11. ASSUME NEW w \in Workers, SeeCancelled(w) PROVE stalls = 0
  BY <1>11 DEF SeeCancelled, Abort, Enter
<1>12. ASSUME NEW w \in Workers, NEW ran \in SUBSET todo[w], CallFails(w, ran) PROVE stalls = 0
  BY <1>12 DEF CallFails, Abort, Enter
<1>13. ASSUME NEW w \in Workers, Refresh(w) PROVE stalls = 0
  BY <1>13 DEF Refresh, Enter, Abort
<1>14. ASSUME NEW w \in Workers, NEW s \in Stocks, Commit(w, s) PROVE stalls = 0
  BY <1>14 DEF Commit
<1>15. ASSUME NEW w \in Workers, NEW s \in Stocks, CommitReplyLost(w, s) PROVE stalls = 0
  BY <1>15 DEF CommitReplyLost
<1>16. ASSUME NEW w \in Workers, CommitFails(w) PROVE stalls = 0
  BY <1>16 DEF CommitFails, Abort, Enter
<1>17. ASSUME NEW w \in Workers, CommitDone(w) PROVE stalls = 0
  BY <1>17 DEF CommitDone, Enter
<1>18. ASSUME NEW w \in Workers, NEW s \in Stocks, Release(w, s) PROVE stalls = 0
  BY <1>18 DEF Release
<1>19. ASSUME NEW w \in Workers, ReleaseFails(w) PROVE stalls = 0
  BY <1>19 DEF ReleaseFails
<1>20. ASSUME NEW w \in Workers, Return(w) PROVE stalls = 0
  BY <1>20 DEF Return, Forget
<1>21. ASSUME NEW w \in Workers, Store(w) PROVE stalls = 0
  BY <1>21 DEF Store
<1>22. ASSUME NEW w \in Workers, Crash(w) PROVE stalls = 0
  BY <1>22 DEF Crash, Enter, Forget
<1>23. ASSUME NEW s \in Stocks, ExpireOrphan(s) PROVE stalls = 0
  BY <1>23 DEF ExpireOrphan
<1>24. ASSUME NEW w \in Workers, NEW s \in Stocks, ExpireHeld(w, s) PROVE stalls = 0
  BY <1>24 DEF ExpireHeld
<1>25. CASE UNCHANGED vars
  BY <1>25
<1> QED
  BY <1>1, <1>2, <1>3, <1>4, <1>5, <1>6, <1>7, <1>8, <1>9, <1>10, <1>11, <1>12,
     <1>13, <1>14, <1>15, <1>16, <1>17, <1>18, <1>19, <1>20, <1>21, <1>22, <1>23, <1>24, <1>25
  DEF Next, Work, Failure

\* Without a stall a lock that is needed stays owned.
LEMMA NeedsStep ==
  ASSUME TypeOK, LocksMatchBatch, [Next]_vars, stalls' = 0,
         \A w \in Workers, s \in Stocks : Needs(w, s) => Owns(w, s),
         NEW v \in Workers, NEW x \in Stocks, Needs(v, x)'
  PROVE  Owns(v, x)'
<1>0. stalls = 0
  BY StallsGrow
<1> USE BatchSubset DEF TypeOK, Needs, Owns, Token, Phases
<1>1. ASSUME NEW w \in Workers, NEW b \in Batch, Take(w, b) PROVE Owns(v, x)'
  BY <1>1 DEF Take
<1>2. ASSUME NEW w \in Workers, Begin(w) PROVE Owns(v, x)'
  <2>1. CASE w = v
    BY <1>2, <2>1 DEF Begin, Enter, LocksMatchBatch
  <2>2. CASE w # v
    BY <1>2, <2>2 DEF Begin, Enter
  <2> QED BY <2>1, <2>2
<1>3. ASSUME NEW w \in Workers, NEW s \in Stocks, Acquire(w, s) PROVE Owns(v, x)'
  <2>1. CASE lock[s] = {}
    <3>1. CASE w = v /\ s = x
      BY <1>3, <2>1, <3>1 DEF Acquire
    <3>2. CASE s # x
      <4>1. Needs(v, x)
        BY <1>3, <2>1, <3>2 DEF Acquire
      <4> QED BY <1>3, <4>1, <3>2, <2>1, <1>0 DEF Acquire
    <3>3. CASE w # v /\ s = x
      <4>1. Needs(v, x)
        BY <1>3, <2>1, <3>3 DEF Acquire
      <4>2. Owns(v, x)
        BY <4>1
      <4> QED BY <4>2, <2>1, <3>3
    <3> QED BY <3>1, <3>2, <3>3
  <2>2. CASE lock[s] # {}
    BY <1>3, <2>2 DEF Acquire
  <2> QED BY <2>1, <2>2
<1>4. ASSUME NEW w \in Workers, NEW ran \in SUBSET todo[w], AcquireReplyLost(w, ran) PROVE Owns(v, x)'
  BY <1>4 DEF AcquireReplyLost, Fault
<1>5. ASSUME NEW w \in Workers, AcquireDone(w) PROVE Owns(v, x)'
  BY <1>5 DEF AcquireDone, Enter
<1>6. ASSUME NEW w \in Workers, NEW s \in Stocks, Fetch(w, s) PROVE Owns(v, x)'
  BY <1>6 DEF Fetch
<1>7. ASSUME NEW w \in Workers, FetchDone(w) PROVE Owns(v, x)'
  BY <1>7 DEF FetchDone, Enter
<1>8. ASSUME NEW w \in Workers, NEW s \in Stocks, FanOut(w, s) PROVE Owns(v, x)'
  BY <1>8 DEF FanOut
<1>9. ASSUME NEW w \in Workers, FanOutDone(w) PROVE Owns(v, x)'
  BY <1>9 DEF FanOutDone, Enter
<1>10. ASSUME NEW w \in Workers, RenewalFails(w) PROVE Owns(v, x)'
  BY <1>10 DEF RenewalFails
<1>11. ASSUME NEW w \in Workers, SeeCancelled(w) PROVE Owns(v, x)'
  BY <1>11 DEF SeeCancelled, Abort, Enter
<1>12. ASSUME NEW w \in Workers, NEW ran \in SUBSET todo[w], CallFails(w, ran) PROVE Owns(v, x)'
  BY <1>12 DEF CallFails, Abort, Enter
<1>13. ASSUME NEW w \in Workers, Refresh(w) PROVE Owns(v, x)'
  BY <1>13 DEF Refresh, Enter, Abort
<1>14. ASSUME NEW w \in Workers, NEW s \in Stocks, Commit(w, s) PROVE Owns(v, x)'
  BY <1>14 DEF Commit
<1>15. ASSUME NEW w \in Workers, NEW s \in Stocks, CommitReplyLost(w, s) PROVE Owns(v, x)'
  BY <1>15 DEF CommitReplyLost
<1>16. ASSUME NEW w \in Workers, CommitFails(w) PROVE Owns(v, x)'
  BY <1>16 DEF CommitFails, Abort, Enter
<1>17. ASSUME NEW w \in Workers, CommitDone(w) PROVE Owns(v, x)'
  BY <1>17 DEF CommitDone, Enter
<1>18. ASSUME NEW w \in Workers, NEW s \in Stocks, Release(w, s) PROVE Owns(v, x)'
  BY <1>18 DEF Release
<1>19. ASSUME NEW w \in Workers, ReleaseFails(w) PROVE Owns(v, x)'
  BY <1>19 DEF ReleaseFails
<1>20. ASSUME NEW w \in Workers, Return(w) PROVE Owns(v, x)'
  BY <1>20 DEF Return, Forget
<1>21. ASSUME NEW w \in Workers, Store(w) PROVE Owns(v, x)'
  BY <1>21 DEF Store
<1>22. ASSUME NEW w \in Workers, Crash(w) PROVE Owns(v, x)'
  BY <1>22 DEF Crash, Enter, Forget
<1>23. ASSUME NEW s \in Stocks, ExpireOrphan(s) PROVE Owns(v, x)'
  BY <1>23 DEF ExpireOrphan, Relies, InAttempt
<1>24. ASSUME NEW w \in Workers, NEW s \in Stocks, ExpireHeld(w, s) PROVE Owns(v, x)'
  BY <1>24 DEF ExpireHeld
<1>25. CASE UNCHANGED vars
  BY <1>25
<1> QED
  BY <1>1, <1>2, <1>3, <1>4, <1>5, <1>6, <1>7, <1>8, <1>9, <1>10, <1>11, <1>12,
     <1>13, <1>14, <1>15, <1>16, <1>17, <1>18, <1>19, <1>20, <1>21, <1>22, <1>23, <1>24, <1>25
  DEF Next, Work, Failure

\* Holdings are revalued only by a worker in its fan-out, for its event.
LEMMA ValueStep ==
  ASSUME TypeOK, [Next]_vars, NEW x \in Stocks, value'[x] # value[x]
  PROVE  \E v \in Workers : /\ pc[v] = "fanout" /\ x \in todo[v]
                            /\ value'[x] = batch[v][x]
                            /\ UNCHANGED applied
<1> DEFINE G == \E v \in Workers : /\ pc[v] = "fanout" /\ x \in todo[v]
                                   /\ value'[x] = batch[v][x]
                                   /\ UNCHANGED applied
<1> SUFFICES G
  OBVIOUS
<1> USE DEF TypeOK, Batch
<1>1. ASSUME NEW w \in Workers, NEW b \in Batch, Take(w, b) PROVE G
  BY <1>1 DEF Take
<1>2. ASSUME NEW w \in Workers, Begin(w) PROVE G
  BY <1>2 DEF Begin, Enter
<1>3. ASSUME NEW w \in Workers, NEW s \in Stocks, Acquire(w, s) PROVE G
  BY <1>3 DEF Acquire
<1>4. ASSUME NEW w \in Workers, NEW ran \in SUBSET todo[w], AcquireReplyLost(w, ran) PROVE G
  BY <1>4 DEF AcquireReplyLost, Fault
<1>5. ASSUME NEW w \in Workers, AcquireDone(w) PROVE G
  BY <1>5 DEF AcquireDone, Enter
<1>6. ASSUME NEW w \in Workers, NEW s \in Stocks, Fetch(w, s) PROVE G
  BY <1>6 DEF Fetch
<1>7. ASSUME NEW w \in Workers, FetchDone(w) PROVE G
  BY <1>7 DEF FetchDone, Enter
<1>8. ASSUME NEW w \in Workers, NEW s \in Stocks, FanOut(w, s) PROVE G
  BY <1>8 DEF FanOut
<1>9. ASSUME NEW w \in Workers, FanOutDone(w) PROVE G
  BY <1>9 DEF FanOutDone, Enter
<1>10. ASSUME NEW w \in Workers, RenewalFails(w) PROVE G
  BY <1>10 DEF RenewalFails
<1>11. ASSUME NEW w \in Workers, SeeCancelled(w) PROVE G
  BY <1>11 DEF SeeCancelled, Abort, Enter
<1>12. ASSUME NEW w \in Workers, NEW ran \in SUBSET todo[w], CallFails(w, ran) PROVE G
  BY <1>12 DEF CallFails, Abort, Enter
<1>13. ASSUME NEW w \in Workers, Refresh(w) PROVE G
  BY <1>13 DEF Refresh, Enter, Abort
<1>14. ASSUME NEW w \in Workers, NEW s \in Stocks, Commit(w, s) PROVE G
  BY <1>14 DEF Commit
<1>15. ASSUME NEW w \in Workers, NEW s \in Stocks, CommitReplyLost(w, s) PROVE G
  BY <1>15 DEF CommitReplyLost
<1>16. ASSUME NEW w \in Workers, CommitFails(w) PROVE G
  BY <1>16 DEF CommitFails, Abort, Enter
<1>17. ASSUME NEW w \in Workers, CommitDone(w) PROVE G
  BY <1>17 DEF CommitDone, Enter
<1>18. ASSUME NEW w \in Workers, NEW s \in Stocks, Release(w, s) PROVE G
  BY <1>18 DEF Release
<1>19. ASSUME NEW w \in Workers, ReleaseFails(w) PROVE G
  BY <1>19 DEF ReleaseFails
<1>20. ASSUME NEW w \in Workers, Return(w) PROVE G
  BY <1>20 DEF Return, Forget
<1>21. ASSUME NEW w \in Workers, Store(w) PROVE G
  BY <1>21 DEF Store
<1>22. ASSUME NEW w \in Workers, Crash(w) PROVE G
  BY <1>22 DEF Crash, Enter, Forget
<1>23. ASSUME NEW s \in Stocks, ExpireOrphan(s) PROVE G
  BY <1>23 DEF ExpireOrphan
<1>24. ASSUME NEW w \in Workers, NEW s \in Stocks, ExpireHeld(w, s) PROVE G
  BY <1>24 DEF ExpireHeld
<1>25. CASE UNCHANGED vars
  BY <1>25
<1> QED
  BY <1>1, <1>2, <1>3, <1>4, <1>5, <1>6, <1>7, <1>8, <1>9, <1>10, <1>11, <1>12,
     <1>13, <1>14, <1>15, <1>16, <1>17, <1>18, <1>19, <1>20, <1>21, <1>22, <1>23, <1>24, <1>25
  DEF Next, Work, Failure

\* A worker comes to "fan-out done" for a stock only by the fan-out itself.
LEMMA ValuedStep ==
  ASSUME TypeOK, LocksMatchBatch, [Next]_vars,
         NEW v \in Workers, NEW x \in Stocks, Valued(v, x)'
  PROVE  /\ batch'[v] = batch[v]
         /\ Valued(v, x) \/ value'[x] = batch[v][x]
<1> DEFINE G == /\ batch'[v] = batch[v]
                /\ Valued(v, x) \/ value'[x] = batch[v][x]
<1> SUFFICES G
  OBVIOUS
<1> USE DEF TypeOK, Batch, Valued, Accepted, LocksMatchBatch
<1>1. ASSUME NEW w \in Workers, NEW b \in Batch, Take(w, b) PROVE G
  BY <1>1 DEF Take
<1>2. ASSUME NEW w \in Workers, Begin(w) PROVE G
  BY <1>2 DEF Begin, Enter
<1>3. ASSUME NEW w \in Workers, NEW s \in Stocks, Acquire(w, s) PROVE G
  BY <1>3 DEF Acquire
<1>4. ASSUME NEW w \in Workers, NEW ran \in SUBSET todo[w], AcquireReplyLost(w, ran) PROVE G
  BY <1>4 DEF AcquireReplyLost, Fault
<1>5. ASSUME NEW w \in Workers, AcquireDone(w) PROVE G
  BY <1>5 DEF AcquireDone, Enter
<1>6. ASSUME NEW w \in Workers, NEW s \in Stocks, Fetch(w, s) PROVE G
  BY <1>6 DEF Fetch
<1>7. ASSUME NEW w \in Workers, FetchDone(w) PROVE G
  BY <1>7 DEF FetchDone, Enter
<1>8. ASSUME NEW w \in Workers, NEW s \in Stocks, FanOut(w, s) PROVE G
  BY <1>8 DEF FanOut
<1>9. ASSUME NEW w \in Workers, FanOutDone(w) PROVE G
  BY <1>9 DEF FanOutDone, Enter
<1>10. ASSUME NEW w \in Workers, RenewalFails(w) PROVE G
  BY <1>10 DEF RenewalFails
<1>11. ASSUME NEW w \in Workers, SeeCancelled(w) PROVE G
  BY <1>11 DEF SeeCancelled, Abort, Enter
<1>12. ASSUME NEW w \in Workers, NEW ran \in SUBSET todo[w], CallFails(w, ran) PROVE G
  BY <1>12 DEF CallFails, Abort, Enter
<1>13. ASSUME NEW w \in Workers, Refresh(w) PROVE G
  BY <1>13 DEF Refresh, Enter, Abort
<1>14. ASSUME NEW w \in Workers, NEW s \in Stocks, Commit(w, s) PROVE G
  BY <1>14 DEF Commit
<1>15. ASSUME NEW w \in Workers, NEW s \in Stocks, CommitReplyLost(w, s) PROVE G
  BY <1>15 DEF CommitReplyLost
<1>16. ASSUME NEW w \in Workers, CommitFails(w) PROVE G
  BY <1>16 DEF CommitFails, Abort, Enter
<1>17. ASSUME NEW w \in Workers, CommitDone(w) PROVE G
  BY <1>17 DEF CommitDone, Enter
<1>18. ASSUME NEW w \in Workers, NEW s \in Stocks, Release(w, s) PROVE G
  BY <1>18 DEF Release
<1>19. ASSUME NEW w \in Workers, ReleaseFails(w) PROVE G
  BY <1>19 DEF ReleaseFails
<1>20. ASSUME NEW w \in Workers, Return(w) PROVE G
  BY <1>20 DEF Return, Forget
<1>21. ASSUME NEW w \in Workers, Store(w) PROVE G
  BY <1>21 DEF Store
<1>22. ASSUME NEW w \in Workers, Crash(w) PROVE G
  BY <1>22 DEF Crash, Enter, Forget
<1>23. ASSUME NEW s \in Stocks, ExpireOrphan(s) PROVE G
  BY <1>23 DEF ExpireOrphan
<1>24. ASSUME NEW w \in Workers, NEW s \in Stocks, ExpireHeld(w, s) PROVE G
  BY <1>24 DEF ExpireHeld
<1>25. CASE UNCHANGED vars
  BY <1>25
<1> QED
  BY <1>1, <1>2, <1>3, <1>4, <1>5, <1>6, <1>7, <1>8, <1>9, <1>10, <1>11, <1>12,
     <1>13, <1>14, <1>15, <1>16, <1>17, <1>18, <1>19, <1>20, <1>21, <1>22, <1>23, <1>24, <1>25
  DEF Next, Work, Failure

\* Without a stall, who fans a stock out is its owner and nobody else revalues it before the commit.
LEMMA NoStallStep ==
  ASSUME TypeOK, TokensDrawn, LocksMatchBatch, OwnerSeesApplied, NoStallInv,
         [Next]_vars
  PROVE  NoStallInv'
<1> SUFFICES ASSUME stalls' = 0
             PROVE  /\ \A v \in Workers, x \in Stocks :
                         /\ Needs(v, x)' => Owns(v, x)'
                         /\ Valued(v, x)' => value'[x] = batch'[v][x]
                    /\ \A x \in Stocks : value'[x].ver >= applied'[x].ver
  BY DEF NoStallInv, ValueNeverBehindApplied
<1>0. stalls = 0
  BY StallsGrow
<1>1. \A w \in Workers, s \in Stocks : Needs(w, s) => Owns(w, s)
  BY <1>0 DEF NoStallInv
<1>2. ASSUME NEW v \in Workers, NEW x \in Stocks, Needs(v, x)'
      PROVE  Owns(v, x)'
  BY <1>1, <1>2, NeedsStep
<1>3. ASSUME NEW v \in Workers, NEW x \in Stocks, Valued(v, x)'
      PROVE  value'[x] = batch'[v][x]
  <2>1. /\ batch'[v] = batch[v]
        /\ Valued(v, x) \/ value'[x] = batch[v][x]
    BY <1>3, ValuedStep
  <2> SUFFICES ASSUME Valued(v, x), value'[x] # value[x] PROVE FALSE
    BY <1>0, <2>1 DEF NoStallInv
  <2>2. PICK u \in Workers : pc[u] = "fanout" /\ x \in todo[u]
    BY ValueStep
  <2>3. Needs(u, x) /\ Needs(v, x)
    BY <2>2, ValuedNeeds
  <2>4. u = v
    BY <1>1, <2>3, OneOwner
  <2> QED BY <2>2, <2>4 DEF Valued
<1>4. ASSUME NEW x \in Stocks
      PROVE  value'[x].ver >= applied'[x].ver
  <2>0. /\ value[x].ver \in Nat /\ value'[x].ver \in Nat
        /\ applied[x].ver \in Nat /\ applied'[x].ver \in Nat
    BY TypeStep, VersionsAreNat DEF TypeOK
  <2>1. CASE applied'[x] # applied[x]
    <3>1. PICK v \in Workers :
             /\ pc[v] = "commit" /\ x \in todo[v]
             /\ applied' = [applied EXCEPT ![x] = batch[v][x]]
             /\ UNCHANGED value
      BY <2>1, AppliedStep
    <3>2. Valued(v, x)
      BY <3>1 DEF LocksMatchBatch, Valued
    <3>3. value[x] = batch[v][x] /\ applied'[x] = batch[v][x]
      BY <1>0, <3>1, <3>2 DEF NoStallInv, TypeOK, Batch
    <3> QED BY <2>0, <3>1, <3>3
  <2>2. CASE applied'[x] = applied[x] /\ value'[x] # value[x]
    <3>1. PICK v \in Workers : /\ pc[v] = "fanout" /\ x \in todo[v]
                              /\ value'[x] = batch[v][x]
      BY <2>2, ValueStep
    <3>2. Owns(v, x)
      BY <1>1, <3>1, ValuedNeeds
    <3>3. x \in Accepted(v) /\ x \in Asked(batch[v])
      BY <3>1 DEF LocksMatchBatch, Accepted
    <3>4. seen[v][x] = applied[x]
      BY <3>1, <3>2, <3>3 DEF OwnerSeesApplied
    <3> QED BY <2>0, <2>2, <3>1, <3>3, <3>4 DEF Accepted, Accepts, Absent
  <2>3. CASE applied'[x] = applied[x] /\ value'[x] = value[x]
    BY <1>0, <2>3 DEF NoStallInv, ValueNeverBehindApplied
  <2> QED BY <2>1, <2>2, <2>3
<1> QED BY <1>2, <1>3, <1>4

\* The invariant holds at the start.
LEMMA LockInvInit == Init => LockInv
<1> SUFFICES ASSUME Init PROVE LockInv
  OBVIOUS
<1> USE DEF Init, NoBatch, Absent
<1>1. TokensDrawn /\ LocksMatchBatch
  BY DEF TokensDrawn, LocksMatchBatch
<1>2. OwnerSeesApplied /\ SeenIsPast
  BY DEF OwnerSeesApplied, SeenIsPast, Asked
<1>3. \A w \in Workers : CommitCovers(w)
  BY DEF CommitCovers
<1>4. NoStallInv
  BY DEF NoStallInv, ValueNeverBehindApplied, Needs, Valued
<1> QED BY <1>1, <1>2, <1>3, <1>4 DEF LockInv

\* Every step keeps the invariant.
LEMMA LockInvStep == TypeOK /\ LockInv /\ [Next]_vars => LockInv'
<1> SUFFICES ASSUME TypeOK, LockInv, [Next]_vars PROVE LockInv'
  OBVIOUS
<1> USE DEF LockInv
<1>1. TokensDrawn'
  BY TokensDrawnStep
<1>2. LocksMatchBatch'
  BY LocksMatchStep
<1>3. OwnerSeesApplied'
  BY OwnerSeesStep
<1>4. SeenIsPast'
  BY SeenIsPastStep
<1>5. \A x \in Stocks : applied'[x].ver >= applied[x].ver
  BY AppliedGrows
<1>6. ASSUME NEW v \in Workers PROVE CommitCovers(v)'
  BY <1>5, CommitCoversStep
<1>7. NoStallInv'
  BY NoStallStep
<1> QED BY <1>1, <1>2, <1>3, <1>4, <1>6, <1>7

\* A worker that owns a lock has read the applied event it is about to
\* replace, whatever expired, failed or crashed before: the reason why the
\* commit script needs no comparison of versions.
THEOREM LockInvariant == Spec => [](TypeOK /\ LockInv)
<1>1. Init => TypeOK /\ LockInv
  BY TypeInit, LockInvInit
<1>2. TypeOK /\ LockInv /\ [Next]_vars => (TypeOK /\ LockInv)'
  BY TypeStep, LockInvStep
<1> QED BY <1>1, <1>2, PTL DEF Spec

\* As long as no lock expires under its worker, the holdings of a stock are
\* never valued with an event older than the applied one.
THEOREM NoRollback == Spec => []NoRollbackWithoutStall
<1>1. LockInv => NoRollbackWithoutStall
  BY DEF LockInv, NoStallInv, NoRollbackWithoutStall
<1> QED BY <1>1, LockInvariant, PTL

----------------------------------------------------------------------------

(* What the protocol guarantees *)

\* Another worker's commit or release, however late, never takes a lock away
\* from the worker that owns it.
THEOREM LocksAreKept == Spec => LockLostOnlyByOwnStep
<1> DEFINE Kept == \A w \in Workers, s \in Stocks :
       Owns(w, s) /\ Relies(w, s) /\ lock'[s] # lock[s]
         => \/ /\ pc[w] \in {"commit", "release"}
               /\ todo'[w] # todo[w]
            \/ stalls' # stalls
<1>1. TypeOK /\ [Next]_vars => [Kept]_vars
  <2> SUFFICES ASSUME TypeOK, [Next]_vars,
                      NEW v \in Workers, NEW x \in Stocks,
                      Owns(v, x), Relies(v, x), lock'[x] # lock[x]
               PROVE  \/ /\ pc[v] \in {"commit", "release"}
                         /\ todo'[v] # todo[v]
                      \/ stalls' # stalls
    OBVIOUS
  <2> DEFINE G == \/ /\ pc[v] \in {"commit", "release"}
                     /\ todo'[v] # todo[v]
                  \/ stalls' # stalls
  <2> SUFFICES G
    OBVIOUS
  <2> USE DEF TypeOK, Owns
  <2>1. ASSUME NEW w \in Workers, NEW b \in Batch, Take(w, b) PROVE G
    BY <2>1 DEF Take
  <2>2. ASSUME NEW w \in Workers, Begin(w) PROVE G
    BY <2>2 DEF Begin, Enter
  <2>3. ASSUME NEW w \in Workers, NEW s \in Stocks, Acquire(w, s) PROVE G
    BY <2>3 DEF Acquire
  <2>4. ASSUME NEW w \in Workers, NEW ran \in SUBSET todo[w], AcquireReplyLost(w, ran) PROVE G
    BY <2>4 DEF AcquireReplyLost
  <2>5. ASSUME NEW w \in Workers, AcquireDone(w) PROVE G
    BY <2>5 DEF AcquireDone, Enter
  <2>6. ASSUME NEW w \in Workers, NEW s \in Stocks, Fetch(w, s) PROVE G
    BY <2>6 DEF Fetch
  <2>7. ASSUME NEW w \in Workers, FetchDone(w) PROVE G
    BY <2>7 DEF FetchDone, Enter
  <2>8. ASSUME NEW w \in Workers, NEW s \in Stocks, FanOut(w, s) PROVE G
    BY <2>8 DEF FanOut
  <2>9. ASSUME NEW w \in Workers, FanOutDone(w) PROVE G
    BY <2>9 DEF FanOutDone, Enter
  <2>10. ASSUME NEW w \in Workers, RenewalFails(w) PROVE G
    BY <2>10 DEF RenewalFails
  <2>11. ASSUME NEW w \in Workers, SeeCancelled(w) PROVE G
    BY <2>11 DEF SeeCancelled, Abort, Enter
  <2>12. ASSUME NEW w \in Workers, NEW ran \in SUBSET todo[w], CallFails(w, ran) PROVE G
    BY <2>12 DEF CallFails, Abort, Enter
  <2>13. ASSUME NEW w \in Workers, Refresh(w) PROVE G
    BY <2>13 DEF Refresh, Enter, Abort
  <2>14. ASSUME NEW w \in Workers, NEW s \in Stocks, Commit(w, s) PROVE G
    BY <2>14, OneOwner DEF Commit
  <2>15. ASSUME NEW w \in Workers, NEW s \in Stocks, CommitReplyLost(w, s) PROVE G
    BY <2>15, OneOwner DEF CommitReplyLost
  <2>16. ASSUME NEW w \in Workers, CommitFails(w) PROVE G
    BY <2>16 DEF CommitFails, Abort, Enter
  <2>17. ASSUME NEW w \in Workers, CommitDone(w) PROVE G
    BY <2>17 DEF CommitDone, Enter
  <2>18. ASSUME NEW w \in Workers, NEW s \in Stocks, Release(w, s) PROVE G
    BY <2>18, OneOwner DEF Release
  <2>19. ASSUME NEW w \in Workers, ReleaseFails(w) PROVE G
    BY <2>19 DEF ReleaseFails
  <2>20. ASSUME NEW w \in Workers, Return(w) PROVE G
    BY <2>20 DEF Return, Forget
  <2>21. ASSUME NEW w \in Workers, Store(w) PROVE G
    BY <2>21 DEF Store
  <2>22. ASSUME NEW w \in Workers, Crash(w) PROVE G
    BY <2>22 DEF Crash, Enter, Forget
  <2>23. ASSUME NEW s \in Stocks, ExpireOrphan(s) PROVE G
    BY <2>23 DEF ExpireOrphan, Relies, InAttempt
  <2>24. ASSUME NEW w \in Workers, NEW s \in Stocks, ExpireHeld(w, s) PROVE G
    BY <2>24 DEF ExpireHeld
  <2>25. CASE UNCHANGED vars
    BY <2>25
  <2> QED
    BY <2>1, <2>2, <2>3, <2>4, <2>5, <2>6, <2>7, <2>8, <2>9, <2>10, <2>11, <2>12,
       <2>13, <2>14, <2>15, <2>16, <2>17, <2>18, <2>19, <2>20, <2>21, <2>22, <2>23, <2>24, <2>25
    DEF Next, Work, Failure

<1> QED BY <1>1, TypeCorrect, PTL DEF Spec, LockLostOnlyByOwnStep

\* A commit by the owner is the register's Apply: what it read is still what is applied.
LEMMA CommitApplies ==
  ASSUME TypeOK, LockInv, [Next]_vars, NEW w \in Workers, NEW s \in Stocks,
         pc[w] = "commit", s \in todo[w], UNCHANGED <<batch, Answer>>,
         \/ applied' = [applied EXCEPT ![s] = batch[w][s]] /\ Owns(w, s)
         \/ applied' = applied
  PROVE  Register!RegNext \/ UNCHANGED <<applied, batch, Answer>>
<1> SUFFICES ASSUME applied' = [applied EXCEPT ![s] = batch[w][s]], Owns(w, s)
             PROVE  Register!RegNext
  OBVIOUS
<1>1. s \in Accepted(w) /\ s \in Asked(batch[w])
  BY DEF LockInv, LocksMatchBatch, Accepted
<1>2. seen[w][s] = applied[s]
  BY <1>1 DEF LockInv, OwnerSeesApplied
<1>3. batch[w][s].ver > applied[s].ver
  <2>1. batch[w][s] \in Event
    BY <1>1 DEF TypeOK, Batch, Asked
  <2>2. batch[w][s].ver \in Versions
    BY <2>1 DEF Event
  <2>3. batch[w][s].ver > 0
    BY <2>2, VersionsArePositive
  <2> QED BY <1>1, <1>2, <2>3 DEF Accepted, Accepts, Absent
<1>4. Answer[w] = "busy"
  BY DEF Answer
<1>5. Register!Apply(w, s)
  BY <1>1, <1>3, <1>4 DEF Register!Apply, Register!Asked, Asked,
       Register!Absent, Absent
<1> QED BY <1>5 DEF Register!RegNext

\* Every step is a step of the register or leaves it alone.
LEMMA RegisterStep ==
  ASSUME TypeOK, LockInv, [Next]_vars
  PROVE  Register!RegNext \/ UNCHANGED <<applied, batch, Answer>>
<1> DEFINE G == Register!RegNext \/ UNCHANGED <<applied, batch, Answer>>
<1> SUFFICES G
  OBVIOUS
<1> USE DEF TypeOK
<1>1. ASSUME NEW w \in Workers, NEW b \in Batch, Take(w, b) PROVE G
  <2>1. /\ applied' = applied /\ batch' = [batch EXCEPT ![w] = b]
        /\ Answer[w] = "idle" /\ Answer' = [Answer EXCEPT ![w] = "busy"]
    BY <1>1 DEF Take, Answer
  <2> QED BY <2>1 DEF Register!RegNext, Register!Call, Register!Batch,
                      Batch, Register!Event, Event, Register!Absent, Absent
<1>2. ASSUME NEW w \in Workers, Begin(w) PROVE G
  BY <1>2 DEF Begin, Enter, Answer
<1>3. ASSUME NEW w \in Workers, NEW s \in Stocks, Acquire(w, s) PROVE G
  BY <1>3 DEF Acquire, Answer
<1>4. ASSUME NEW w \in Workers, NEW ran \in SUBSET todo[w], AcquireReplyLost(w, ran) PROVE G
  BY <1>4 DEF AcquireReplyLost, Fault, Answer
<1>5. ASSUME NEW w \in Workers, AcquireDone(w) PROVE G
  BY <1>5 DEF AcquireDone, Enter, Answer
<1>6. ASSUME NEW w \in Workers, NEW s \in Stocks, Fetch(w, s) PROVE G
  BY <1>6 DEF Fetch, Answer
<1>7. ASSUME NEW w \in Workers, FetchDone(w) PROVE G
  BY <1>7 DEF FetchDone, Enter, Answer
<1>8. ASSUME NEW w \in Workers, NEW s \in Stocks, FanOut(w, s) PROVE G
  BY <1>8 DEF FanOut, Answer
<1>9. ASSUME NEW w \in Workers, FanOutDone(w) PROVE G
  BY <1>9 DEF FanOutDone, Enter, Answer
<1>10. ASSUME NEW w \in Workers, RenewalFails(w) PROVE G
  BY <1>10 DEF RenewalFails, Answer
<1>11. ASSUME NEW w \in Workers, SeeCancelled(w) PROVE G
  BY <1>11 DEF SeeCancelled, Abort, Enter, Answer
<1>12. ASSUME NEW w \in Workers, NEW ran \in SUBSET todo[w], CallFails(w, ran) PROVE G
  BY <1>12 DEF CallFails, Abort, Enter, Answer
<1>13. ASSUME NEW w \in Workers, Refresh(w) PROVE G
  BY <1>13 DEF Refresh, Enter, Abort, Answer
<1>14. ASSUME NEW w \in Workers, NEW s \in Stocks, Commit(w, s) PROVE G
  <2>1. UNCHANGED <<batch, Answer>>
    BY <1>14 DEF Commit, Answer
  <2> QED BY <2>1, <1>14, CommitApplies DEF Commit
<1>15. ASSUME NEW w \in Workers, NEW s \in Stocks, CommitReplyLost(w, s) PROVE G
  <2>1. UNCHANGED <<batch, Answer>>
    BY <1>15 DEF CommitReplyLost, Answer
  <2> QED BY <2>1, <1>15, CommitApplies DEF CommitReplyLost
<1>16. ASSUME NEW w \in Workers, CommitFails(w) PROVE G
  BY <1>16 DEF CommitFails, Abort, Enter, Answer
<1>17. ASSUME NEW w \in Workers, CommitDone(w) PROVE G
  BY <1>17 DEF CommitDone, Enter, Answer
<1>18. ASSUME NEW w \in Workers, NEW s \in Stocks, Release(w, s) PROVE G
  BY <1>18 DEF Release, Answer
<1>19. ASSUME NEW w \in Workers, ReleaseFails(w) PROVE G
  BY <1>19 DEF ReleaseFails, Answer
<1>20. ASSUME NEW w \in Workers, Return(w) PROVE G
  <2>1. CASE failed[w]
    BY <1>20, <2>1 DEF Return, Answer
  <2>2. CASE ~failed[w]
    <3>1. /\ UNCHANGED <<applied, batch>>
          /\ Answer[w] = "busy" /\ Answer' = [Answer EXCEPT ![w] = "ok"]
      BY <1>20, <2>2 DEF Return, Answer
    <3>2. Covers(applied, batch[w])
      BY <1>20, <2>2 DEF Return, LockInv, CommitCovers
    <3> QED BY <3>1, <3>2 DEF Register!RegNext, Register!AnswerOk,
              Register!Covers, Covers, Register!Asked, Asked,
              Register!Absent, Absent
  <2> QED BY <2>1, <2>2
<1>21. ASSUME NEW w \in Workers, Store(w) PROVE G
  <2>1. /\ applied' = applied /\ batch' = [batch EXCEPT ![w] = NoBatch]
        /\ Answer[w] # "idle" /\ Answer' = [Answer EXCEPT ![w] = "idle"]
    BY <1>21 DEF Store, Answer
  <2> QED BY <2>1 DEF Register!RegNext, Register!Return, Register!NoBatch,
                      NoBatch, Register!Absent, Absent
<1>22. ASSUME NEW w \in Workers, Crash(w) PROVE G
  <2>1. /\ applied' = applied /\ batch' = [batch EXCEPT ![w] = NoBatch]
        /\ Answer[w] # "idle" /\ Answer' = [Answer EXCEPT ![w] = "idle"]
    BY <1>22 DEF Crash, Enter, Answer
  <2> QED BY <2>1 DEF Register!RegNext, Register!Return, Register!NoBatch,
                      NoBatch, Register!Absent, Absent
<1>23. ASSUME NEW s \in Stocks, ExpireOrphan(s) PROVE G
  BY <1>23 DEF ExpireOrphan, Answer
<1>24. ASSUME NEW w \in Workers, NEW s \in Stocks, ExpireHeld(w, s) PROVE G
  BY <1>24 DEF ExpireHeld, Answer
<1>25. CASE UNCHANGED vars
  BY <1>25 DEF Answer
<1> QED
  BY <1>1, <1>2, <1>3, <1>4, <1>5, <1>6, <1>7, <1>8, <1>9, <1>10, <1>11, <1>12,
     <1>13, <1>14, <1>15, <1>16, <1>17, <1>18, <1>19, <1>20, <1>21, <1>22, <1>23, <1>24, <1>25
  DEF Next, Work, Failure

\* The protocol of locks, retries and crashes implements the register.
THEOREM RegisterRefinement == Spec => ImplementsRegister
<1>1. Init => Register!RegInit
  BY DEF Init, Answer, Register!RegInit, Register!NoBatch, NoBatch,
         Register!Absent, Absent
<1>2. TypeOK /\ LockInv /\ [Next]_vars => [Register!RegNext]_(Register!regVars)
  BY RegisterStep DEF Register!regVars
<1> QED BY <1>1, <1>2, LockInvariant, PTL
        DEF Spec, ImplementsRegister, Register!RegSpec

=============================================================================

------------------------ MODULE RecordConsumerProofs ------------------------
(***************************************************************************)
(* Proofs about RecordConsumer, for any consumers, partitions, logs and     *)
(* bounds: what a consumer's loop relies on at each of its steps.           *)
(***************************************************************************)
EXTENDS RecordConsumer, TLAPS, SequenceTheorems, WellFoundedInduction

\* From `handle` to the end of a wait, a consumer is at a record.
AtRecord ==
  \A w \in Workers :
    pc[w] \in {"handle", "publish", "pause", "wait", "rewind"} => batch[w] # <<>>

\* An owner never starts behind the end of the log.
StartsInLog == \A p \in Partitions : from[p] <= end[p]

Inv == TypeOK /\ AtRecord /\ StartsInLog

----------------------------------------------------------------------------
(* Moves and batches *)

\* Offsets are positions, and so is what follows one.
LEMMA OffsetStages ==
  \A o \in Offsets : o \in Stages /\ o + 1 \in Stages
BY LogAssumption DEF Offsets, Stages

\* A record's parts.
LEMMA RecordParts ==
  \A r \in Records : r.part \in Partitions /\ r.off \in Offsets
BY DEF Records

\* The record at hand and those behind it.
LEMMA BatchParts ==
  ASSUME TypeOK, NEW w \in Workers, batch[w] # <<>>
  PROVE  Current(w) \in Records /\ Tail(batch[w]) \in Seq(Records)
<1>1. batch[w] \in Seq(Records)
  BY DEF TypeOK
<1> QED
  BY <1>1, HeadTailProperties DEF Current

\* A consumer that goes on to another phase with its batch.
LEMMA GotoKeeps ==
  ASSUME Inv, NEW w \in Workers, NEW phase \in Phases, Goto(w, phase),
         batch' = batch,
         phase \in {"handle", "publish", "pause", "wait", "rewind"} => batch[w] # <<>>
  PROVE  pc' \in [Workers -> Phases] /\ AtRecord'
BY DEF Inv, TypeOK, AtRecord, Goto

\* The first record leaves the batch and its offset is stored.
LEMMA FinishKeeps ==
  ASSUME Inv, NEW w \in Workers, batch[w] # <<>>, Finish(w)
  PROVE  /\ stored' \in [Workers -> [Partitions -> Stages \cup {0}]]
         /\ batch' \in [Workers -> Seq(Records)]
         /\ pc' \in [Workers -> Phases]
         /\ AtRecord'
<1>1. Current(w) \in Records /\ Tail(batch[w]) \in Seq(Records)
  BY BatchParts DEF Inv
<1>2. Current(w).part \in Partitions /\ Current(w).off + 1 \in Stages
  BY <1>1, RecordParts, OffsetStages
<1>3. stored' \in [Workers -> [Partitions -> Stages \cup {0}]]
  <2>1. stored \in [Workers -> [Partitions -> Stages \cup {0}]]
    BY DEF Inv, TypeOK
  <2> DEFINE p == Current(w).part
             n == Current(w).off + 1
  <2>2. p \in Partitions /\ n \in Stages
    BY <1>2
  <2>3. stored' = stored \/ stored' = [stored EXCEPT ![w][p] = n]
    BY DEF Finish
  <2> HIDE DEF p, n
  <2> QED
    BY <2>1, <2>2, <2>3
<1>4. batch' = [batch EXCEPT ![w] = Tail(@)]
  BY DEF Finish
<1>5. batch' \in [Workers -> Seq(Records)]
  BY <1>1, <1>4 DEF Inv, TypeOK
<1>6. Goto(w, IF Tail(batch[w]) = <<>> THEN "commit" ELSE "handle")
  BY DEF Finish
<1>7. pc' \in [Workers -> Phases]
  BY <1>6 DEF Goto, Inv, TypeOK, Phases
<1>8. AtRecord'
  BY <1>4, <1>6 DEF Goto, Inv, TypeOK, AtRecord
<1> QED
  BY <1>3, <1>5, <1>7, <1>8

\* rewindBatch seeks to an offset of the batch.
LEMMA EarliestStage ==
  ASSUME TypeOK, NEW w \in Workers, NEW p \in Polled(w)
  PROVE  Earliest(w, p) \in Stages
<1> DEFINE S == {batch[w][i].off :
                   i \in {j \in 1..Len(batch[w]) : batch[w][j].part = p}}
<1>1. \A i \in 1..Len(batch[w]) : batch[w][i] \in Records
  <2>1. batch[w] \in Seq(Records)
    BY DEF TypeOK
  <2> QED
    BY <2>1, ElementOfSeq
<1>2. S \subseteq Offsets
  BY <1>1, RecordParts
<1>3. S # {}
  BY DEF Polled
<1>4. \E o \in S : \A q \in S : o <= q
  <2> HIDE DEF S
  <2>1. S \subseteq Nat
    BY <1>2, LogAssumption DEF Offsets
  <2>2. \A a, b \in Nat : <<a, b>> \in OpToRel(<, Nat) <=> a < b
    BY DEF OpToRel
  <2>3. PICK o \in S : \A q \in S : ~(<<q, o>> \in OpToRel(<, Nat))
    BY <1>3, <2>1, NatLessThanWellFounded, WFMin
  <2>4. \A q \in S : ~(q < o)
    BY <2>1, <2>2, <2>3
  <2> QED
    BY <2>1, <2>4
<1>5. Earliest(w, p) = CHOOSE o \in S : \A q \in S : o <= q
  BY DEF Earliest
<1>6. Earliest(w, p) \in S
  BY <1>4, <1>5
<1> QED
  BY <1>2, <1>6, OffsetStages
----------------------------------------------------------------------------
(* The invariant *)

\* A consumer starts without a batch, at its first Poll.
LEMMA InitInv == Init => Inv
<1> SUFFICES ASSUME Init PROVE Inv
  OBVIOUS
<1>1. 1 \in Stages
  BY LogAssumption DEF Stages
<1>2. \A w \in Workers : batch[w] \in Seq(Records)
  BY EmptySeq DEF Init
<1>3. TypeOK
  BY <1>1, <1>2, LogAssumption DEF Init, TypeOK, Phases
<1> QED
  BY <1>3 DEF Init, Inv, AtRecord, StartsInLog

\* A failure is counted.
LEMMA SpendType ==
  ASSUME TypeOK, NEW bound \in Bounds, Spend(bound)
  PROVE  spent' \in [Bounds -> Nat]
BY DEF TypeOK, Spend

\* Clearing leaves no offset for what is gone, and the others as they were.
LEMMA ClearedType ==
  ASSUME NEW offsets \in [Workers -> [Partitions -> Stages \cup {0}]],
         NEW w \in Workers, NEW gone
  PROVE  /\ Cleared(offsets, w, gone) \in [Workers -> [Partitions -> Stages \cup {0}]]
         /\ \A v \in Workers, p \in Partitions :
              Cleared(offsets, w, gone)[v][p] =
                IF v = w /\ p \in gone THEN 0 ELSE offsets[v][p]
BY DEF Cleared

\* A Poll: messages, errors and rebalance events.
LEMMA PollInv ==
  ASSUME Inv, NEW w \in Workers,
         \/ \E p \in Partitions : PollMessage(w, p) \/ PollAssigned(w, p)
         \/ PollError(w) \/ FetchDone(w) \/ PollLost(w)
         \/ \E gone \in SUBSET Partitions : PollRevoked(w, gone)
  PROVE  Inv'
<1> USE DEF brokerVars, logVars, StartsInLog
<1>1. ASSUME NEW p \in Partitions, PollMessage(w, p) PROVE Inv'
  <2>1. position[w][p] \in Offsets
    BY <1>1 DEF PollMessage
  <2> DEFINE m == [part |-> p, off |-> position[w][p]]
  <2>2. m \in Records
    BY <2>1 DEF Records
  <2>3. position[w][p] + 1 \in Stages
    BY <2>1, OffsetStages
  <2> HIDE DEF m
  <2>4. batch[w] \in Seq(Records) /\ Append(batch[w], m) \in Seq(Records)
    BY <2>2, AppendProperties DEF Inv, TypeOK
  <2>5. Append(batch[w], m) # <<>>
    BY <2>2, <2>4, AppendProperties, EmptySeq
  <2>6. batch' = [batch EXCEPT ![w] = Append(@, m)]
    BY <1>1 DEF PollMessage, m
  <2>7. batch' \in [Workers -> Seq(Records)]
    BY <2>4, <2>6 DEF Inv, TypeOK
  <2>8. position' \in [Workers -> [Partitions -> Stages \cup {0}]]
    BY <1>1, <2>3 DEF PollMessage, Inv, TypeOK
  <2>10. end' = [end EXCEPT ![p] = IF position[w][p] < @ THEN @ ELSE position[w][p] + 1]
         /\ from' = from
    BY <1>1 DEF PollMessage
  <2>11. end' \in [Partitions -> Stages] /\ StartsInLog'
    <3>1. \A q \in Partitions : end[q] \in Int /\ from[q] \in Int
      BY LogAssumption DEF Inv, TypeOK, Stages
    <3>2. position[w][p] \in Int
      BY <2>1, LogAssumption DEF Offsets
    <3> QED
      BY <2>3, <2>10, <3>1, <3>2 DEF Inv, TypeOK
  <2>9. AtRecord'
    BY <1>1, <2>5, <2>6 DEF PollMessage, Inv, TypeOK, AtRecord
  <2> QED
    BY <1>1, <2>7, <2>8, <2>9, <2>11 DEF PollMessage, Inv, TypeOK
<1>2. ASSUME NEW p \in Partitions, PollAssigned(w, p) PROVE Inv'
  <2>1. PICK start \in Starts(p) :
          /\ position' = [position EXCEPT ![w][p] = start]
          /\ IF committed[p] = 0
               THEN from' = [from EXCEPT ![p] = start] /\ end' = [end EXCEPT ![p] = start]
               ELSE UNCHANGED logVars
    BY <1>2 DEF PollAssigned
  <2>2. start \in Stages
    BY <2>1, LogAssumption DEF Starts, Stages, Inv, TypeOK
  <2>3. /\ position' \in [Workers -> [Partitions -> Stages \cup {0}]]
        /\ from' \in [Partitions -> Stages \cup {0}]
        /\ end' \in [Partitions -> Stages]
    BY <2>1, <2>2 DEF Inv, TypeOK
  <2>4. StartsInLog'
    <3>1. \A q \in Partitions : end[q] \in Int /\ from[q] \in Int
      BY LogAssumption DEF Inv, TypeOK, Stages
    <3>2. start \in Int
      BY <2>2, LogAssumption DEF Stages
    <3>3. CASE committed[p] = 0
      <4>1. \A q \in Partitions :
              /\ from'[q] = IF q = p THEN start ELSE from[q]
              /\ end'[q] = IF q = p THEN start ELSE end[q]
        BY <2>1, <3>3 DEF Inv, TypeOK
      <4> QED
        BY <3>1, <3>2, <4>1 DEF Inv
    <3>4. CASE committed[p] # 0
      BY <2>1, <3>4 DEF Inv
    <3> QED
      BY <3>3, <3>4
  <2>5. UNCHANGED <<owner, committed, dlt, applied, pc, stored, batch, spent>>
        /\ assigned' = [assigned EXCEPT ![w] = @ \cup {p}]
    BY <1>2 DEF PollAssigned
  <2> QED
    BY <2>3, <2>4, <2>5 DEF Inv, TypeOK, AtRecord
<1>3. CASE PollError(w)
  <2>1. batch' = [batch EXCEPT ![w] = <<>>] /\ pc[w] = "poll"
    BY <1>3 DEF PollError
  <2>2. batch' \in [Workers -> Seq(Records)]
    BY <2>1, EmptySeq DEF Inv, TypeOK
  <2>3. AtRecord'
    BY <1>3, <2>1 DEF PollError, Inv, TypeOK, AtRecord
  <2> QED
    BY <1>3, <2>2, <2>3, SpendType DEF PollError, Inv, TypeOK, Bounds
<1>4. CASE FetchDone(w)
  BY <1>4, GotoKeeps DEF FetchDone, Inv, TypeOK, Phases
<1>5. ASSUME NEW gone \in SUBSET Partitions, Drop(w, gone), batch' = batch
      PROVE  /\ assigned' \in [Workers -> SUBSET Partitions]
             /\ position' \in [Workers -> [Partitions -> Stages \cup {0}]]
             /\ stored' \in [Workers -> [Partitions -> Stages \cup {0}]]
             /\ pc' \in [Workers -> Phases]
             /\ AtRecord'
  <2>1. assigned' \in [Workers -> SUBSET Partitions]
    BY <1>5 DEF Drop, Inv, TypeOK
  <2>2. /\ position' \in [Workers -> [Partitions -> Stages \cup {0}]]
        /\ stored' \in [Workers -> [Partitions -> Stages \cup {0}]]
    BY <1>5, ClearedType DEF Drop, Inv, TypeOK
  <2> QED
    BY <1>5, <2>1, <2>2 DEF Drop, Inv, TypeOK, AtRecord, Phases
<1>6. CASE PollLost(w)
  <2>1. PICK gone \in SUBSET Partitions : Drop(w, gone)
    BY <1>6 DEF PollLost, Inv, TypeOK
  <2> QED
    BY <1>5, <1>6, <2>1 DEF PollLost, Inv, TypeOK
<1>7. ASSUME NEW gone \in SUBSET Partitions, PollRevoked(w, gone) PROVE Inv'
  <2>1. owner' \in [Partitions -> Workers \cup {Nobody}]
    BY <1>7 DEF PollRevoked, Inv, TypeOK
  <2>2. spent' \in [Bounds -> Nat]
    BY <1>7, SpendType DEF PollRevoked, Inv, Bounds
  <2> QED
    BY <1>5, <1>7, <2>1, <2>2 DEF PollRevoked, Inv, TypeOK
<1> QED
  BY <1>1, <1>2, <1>3, <1>4, <1>6, <1>7

\* The handler of the record at hand, and its publication.
LEMMA HandleInv ==
  ASSUME Inv, NEW w \in Workers,
         \/ HandleOk(w) \/ HandleBroken(w) \/ HandleFails(w)
         \/ PublishOk(w) \/ PublishFails(w)
  PROVE  Inv'
<1> USE DEF brokerVars, logVars, StartsInLog
<1>1. batch[w] # <<>>
  BY DEF Inv, AtRecord, HandleOk, HandleBroken, HandleFails, PublishOk, PublishFails
<1>2. Current(w) \in Records
  BY <1>1, BatchParts DEF Inv
<1>3. CASE HandleOk(w)
  <2>1. applied' \subseteq Records \ Broken
    BY <1>2, <1>3 DEF HandleOk, Inv, TypeOK
  <2> QED
    BY <1>1, <1>3, <2>1, FinishKeeps DEF HandleOk, Inv, TypeOK
<1>4. CASE HandleBroken(w)
  BY <1>1, <1>4, GotoKeeps DEF HandleBroken, Inv, TypeOK, Phases
<1>5. CASE HandleFails(w)
  <2>1. applied' \subseteq Records \ Broken
    BY <1>2, <1>5 DEF HandleFails, Inv, TypeOK
  <2>2. spent' \in [Bounds -> Nat]
    BY <1>5, SpendType DEF HandleFails, Inv, Bounds
  <2>3. pc' \in [Workers -> Phases] /\ AtRecord'
    BY <1>1, <1>5, GotoKeeps DEF HandleFails, Phases
  <2> QED
    BY <1>5, <2>1, <2>2, <2>3 DEF HandleFails, Inv, TypeOK
<1>6. CASE PublishOk(w)
  <2>1. dlt' \subseteq Records
    BY <1>2, <1>6 DEF PublishOk, Inv, TypeOK
  <2> QED
    BY <1>1, <1>6, <2>1, FinishKeeps DEF PublishOk, Inv, TypeOK
<1>7. CASE PublishFails(w)
  <2>1. dlt' \subseteq Records
    BY <1>2, <1>7 DEF PublishFails, Inv, TypeOK
  <2>2. spent' \in [Bounds -> Nat]
    BY <1>7, SpendType DEF PublishFails, Inv, Bounds
  <2>3. pc' \in [Workers -> Phases] /\ AtRecord'
    BY <1>1, <1>7, GotoKeeps DEF PublishFails, Phases
  <2> QED
    BY <1>7, <2>1, <2>2, <2>3 DEF PublishFails, Inv, TypeOK
<1> QED
  BY <1>3, <1>4, <1>5, <1>6, <1>7

\* Commits, waits and rewinds.
LEMMA CommitInv ==
  ASSUME Inv, NEW w \in Workers,
         \/ CommitAndWait(w) \/ CommitBatch(w) \/ WaitDone(w)
         \/ \E sought \in SUBSET Partitions : Rewind(w, sought)
  PROVE  Inv'
<1> USE DEF brokerVars, logVars, StartsInLog
<1>1. ASSUME NEW then \in Phases, Commit(w, then) \/ CommitFails(w, then),
             then = "wait" => batch[w] # <<>>, then \in {"wait", "poll"}
      PROVE  Inv'
  <2>1. pc' \in [Workers -> Phases] /\ AtRecord'
    BY <1>1, GotoKeeps DEF Commit, CommitFails
  <2>2. CASE Commit(w, then)
    <3>1. \A p \in Partitions : stored[w][p] # 0 => stored[w][p] \in Stages
      BY DEF Inv, TypeOK
    <3>2. committed' \in [Partitions -> Stages \cup {0}]
      BY <2>2, <3>1 DEF Commit, Inv, TypeOK
    <3> QED
      BY <2>1, <2>2, <3>2 DEF Commit, Inv, TypeOK
  <2>3. CASE CommitFails(w, then)
    BY <2>1, <2>3, SpendType DEF CommitFails, Inv, TypeOK, Bounds
  <2> QED
    BY <1>1, <2>2, <2>3
<1>2. CASE CommitAndWait(w)
  BY <1>1, <1>2 DEF CommitAndWait, Phases, Inv, AtRecord
<1>3. CASE CommitBatch(w)
  BY <1>1, <1>3 DEF CommitBatch, Phases
<1>4. CASE WaitDone(w)
  <2>1. batch[w] # <<>>
    BY <1>4 DEF WaitDone, Inv, AtRecord
  <2> QED
    BY <1>4, <2>1, GotoKeeps DEF WaitDone, Inv, TypeOK, Phases
<1>5. ASSUME NEW sought \in SUBSET Partitions, Rewind(w, sought) PROVE Inv'
  <2>1. \A p \in sought : Earliest(w, p) \in Stages
    BY <1>5, EarliestStage DEF Rewind, Inv
  <2>2. position' \in [Workers -> [Partitions -> Stages \cup {0}]]
    BY <1>5, <2>1 DEF Rewind, Inv, TypeOK
  <2>3. batch' = [batch EXCEPT ![w] = <<>>] /\ Goto(w, "poll")
    BY <1>5 DEF Rewind
  <2>4. batch' \in [Workers -> Seq(Records)]
    BY <2>3, EmptySeq DEF Inv, TypeOK
  <2>5. pc' \in [Workers -> Phases] /\ AtRecord'
    BY <2>3 DEF Goto, Inv, TypeOK, AtRecord, Phases
  <2> QED
    BY <1>5, <2>2, <2>4, <2>5 DEF Rewind, Inv, TypeOK
<1> QED
  BY <1>2, <1>3, <1>4, <1>5

\* The group, and processes that die and come back.
LEMMA GroupInv ==
  ASSUME Inv, NEW w \in Workers, Group(w) \/ Expel(w) \/ Crash(w) \/ Restart(w)
  PROVE  Inv'
<1> USE DEF brokerVars, logVars, StartsInLog
<1>1. CASE Group(w)
  <2>1. PICK p \in Partitions : Assign(w, p)
    BY <1>1 DEF Group
  <2>2. owner' \in [Partitions -> Workers \cup {Nobody}]
    BY <2>1 DEF Assign, Inv, TypeOK
  <2> QED
    BY <2>1, <2>2 DEF Assign, Inv, TypeOK, AtRecord
<1>2. CASE Expel(w)
  <2>1. owner' \in [Partitions -> Workers \cup {Nobody}]
    BY <1>2 DEF Expel, Inv, TypeOK
  <2>2. spent' \in [Bounds -> Nat]
    BY <1>2, SpendType DEF Expel, Inv, TypeOK, Bounds
  <2> QED
    BY <1>2, <2>1, <2>2 DEF Expel, Inv, TypeOK, AtRecord
<1>3. CASE Crash(w)
  <2>1. batch' = [batch EXCEPT ![w] = <<>>] /\ Goto(w, "down")
    BY <1>3 DEF Crash
  <2>2. batch' \in [Workers -> Seq(Records)]
    BY <2>1, EmptySeq DEF Inv, TypeOK
  <2>3. pc' \in [Workers -> Phases] /\ AtRecord'
    BY <2>1 DEF Goto, Inv, TypeOK, AtRecord, Phases
  <2>4. spent' \in [Bounds -> Nat]
    BY <1>3, SpendType DEF Crash, Inv, Bounds
  <2>5. /\ assigned' \in [Workers -> SUBSET Partitions]
        /\ position' \in [Workers -> [Partitions -> Stages \cup {0}]]
        /\ stored' \in [Workers -> [Partitions -> Stages \cup {0}]]
    BY <1>3, ClearedType DEF Crash, Inv, TypeOK
  <2> QED
    BY <1>3, <2>2, <2>3, <2>4, <2>5 DEF Crash, Inv, TypeOK
<1>4. CASE Restart(w)
  <2>1. pc' \in [Workers -> Phases] /\ AtRecord'
    BY <1>4 DEF Restart, Goto, Inv, TypeOK, AtRecord, Phases
  <2> QED
    BY <1>4, <2>1 DEF Restart, Inv, TypeOK
<1> QED
  BY <1>1, <1>2, <1>3, <1>4

\* Every step of every consumer keeps the invariant.
THEOREM Invariance == Spec => []Inv
<1>1. Inv /\ [Next]_vars => Inv'
  <2> SUFFICES ASSUME Inv, [Next]_vars PROVE Inv'
    OBVIOUS
  <2>1. ASSUME NEW w \in Workers, Work(w) PROVE Inv'
    BY <2>1, PollInv, HandleInv, CommitInv, GroupInv DEF Work
  <2>2. ASSUME NEW w \in Workers, Failure(w) PROVE Inv'
    BY <2>2, PollInv, HandleInv, GroupInv DEF Failure
  <2>3. ASSUME NEW w \in Workers, Group(w) PROVE Inv'
    BY <2>3, GroupInv
  <2>4. CASE UNCHANGED vars
    BY <2>4 DEF vars, brokerVars, logVars, Inv, TypeOK, AtRecord, StartsInLog
  <2> QED
    BY <2>1, <2>2, <2>3, <2>4 DEF Next
<1> QED
  BY InitInv, <1>1, PTL DEF Spec

\* Every variable keeps its type: in particular a consumer never looks for a
\* record in an empty batch, and an offset stored or committed is in the log.
THEOREM TypeCorrect == Spec => []TypeOK
BY Invariance, PTL DEF Inv

----------------------------------------------------------------------------
(* No record is lost *)

\* No Poll failed, and no revocation can have left a consumer with some of its
\* partitions: none happened, or there is but one partition.
Whole ==
  /\ spent["errors"] = 0
  /\ spent["rebalances"] = 0 \/ \A p, q \in Partitions : p = q

\* A consumer that has lost a partition unawares has lost all it had.
LostTogether ==
  \A w \in Workers :
    (\E p \in assigned[w] : owner[p] # w) => \A p \in Partitions : owner[p] # w

\* When a consumer rewinds, it has no partition to read on.
EmptyAtRewind == \A w \in Workers : pc[w] = "rewind" => assigned[w] = {}

\* r needs no reading, or is among the first n of w's batch.
InHand(r, w, n) == r \in Passed \/ \E i \in 1..n : batch[w][i] = r

PositionsCovered ==
  \A w \in Workers : \A r \in Records :
    r.part \in assigned[w] /\ r.off < position[w][r.part] => InHand(r, w, Len(batch[w]))

BatchesInOrder ==
  \A w \in Workers : \A i \in 1..Len(batch[w]) : \A r \in Records :
    r.part = batch[w][i].part /\ r.off < batch[w][i].off => InHand(r, w, i - 1)

StoredCovered ==
  \A w \in Workers : \A r \in Records : r.off < stored[w][r.part] => r \in Passed

Covered ==
  /\ PositionsCovered
  /\ BatchesInOrder
  /\ StoredCovered
  /\ NoRecordLost
  /\ AppliedInOrder

Safe == LostTogether /\ EmptyAtRewind /\ Covered

\* What is passed depends on these.
LEMMA PassedKept ==
  ASSUME applied' = applied, dlt' = dlt, from' = from
  PROVE  Passed' = Passed
BY DEF Passed, Accounted, Skipped

\* A step that reads, handles and stores nothing; partitions may go.
LEMMA QuietStep ==
  ASSUME Covered, applied' = applied, dlt' = dlt, from' = from, batch' = batch,
         committed' = committed, \A w \in Workers : assigned'[w] \subseteq assigned[w],
         \A w \in Workers, p \in Partitions :
           /\ p \in assigned'[w] => position'[w][p] = position[w][p]
           /\ stored'[w][p] \in {0, stored[w][p]}
  PROVE  Covered'
<1>1. Passed' = Passed
  BY PassedKept
<1>2. PositionsCovered' /\ StoredCovered'
  BY <1>1, RecordParts, LogAssumption
     DEF Covered, PositionsCovered, StoredCovered, InHand, Offsets
<1> QED
  BY <1>1, <1>2 DEF Covered, BatchesInOrder, NoRecordLost, AppliedInOrder, InHand

\* Everything before the record at hand is done.
LEMMA CurrentIsNext ==
  ASSUME Inv, Covered, NEW w \in Workers, batch[w] # <<>>,
         NEW r \in Records, r.part = Current(w).part, r.off < Current(w).off
  PROVE  r \in Passed
<1>1. Len(batch[w]) \in Nat \ {0} /\ Current(w) = batch[w][1]
  <2>1. batch[w] \in Seq(Records)
    BY DEF Inv, TypeOK
  <2> QED
    BY <2>1, EmptySeq DEF Current
<1>2. InHand(r, w, 1 - 1)
  BY <1>1 DEF Covered, BatchesInOrder
<1> QED
  BY <1>2 DEF InHand

\* A record leaves the batch, done.
LEMMA FinishCovers ==
  ASSUME Inv, Covered, NEW w \in Workers, batch[w] # <<>>, Finish(w),
         position' = position, assigned' = assigned, committed' = committed,
         Passed \subseteq Passed', Current(w) \in Passed'
  PROVE  PositionsCovered' /\ BatchesInOrder' /\ StoredCovered' /\ NoRecordLost'
<1> DEFINE b == batch[w]
           n == Len(b)
<1>1. b \in Seq(Records) /\ n \in Nat \ {0} /\ Current(w) = b[1]
  BY EmptySeq DEF Inv, TypeOK, Current
<1>2. batch' = [batch EXCEPT ![w] = Tail(b)]
  BY DEF Finish
<1>3. /\ Tail(b) \in Seq(Records)
      /\ Len(Tail(b)) = n - 1
      /\ \A i \in 1..(n - 1) : Tail(b)[i] = b[i + 1]
  BY <1>1, HeadTailProperties
<1> HIDE DEF b, n
<1>4. /\ batch'[w] = Tail(b)
      /\ \A v \in Workers : v # w => batch'[v] = batch[v]
  BY <1>2 DEF Inv, TypeOK
<1>5. \A r \in Records, k \in 0..n : InHand(r, w, k) => InHand(r, w, k - 1)'
  <2> SUFFICES ASSUME NEW r \in Records, NEW k \in 0..n,
                      NEW i \in 1..k, b[i] = r, r \notin Passed'
               PROVE  \E j \in 1..(k - 1) : batch'[w][j] = r
    BY DEF InHand, b
  <2>1. i # 1
    BY <1>1
  <2>2. i - 1 \in 1..(k - 1) /\ i - 1 \in 1..(n - 1)
    BY <1>1, <2>1
  <2>3. Tail(b)[i - 1] = b[(i - 1) + 1]
    BY <1>3, <2>2
  <2>4. (i - 1) + 1 = i
    BY <2>2
  <2>5. batch'[w][i - 1] = r
    BY <1>4, <2>3, <2>4
  <2> QED
    BY <2>2, <2>5
<1>6. PositionsCovered'
  <2> SUFFICES ASSUME NEW v \in Workers, NEW r \in Records, r.part \in assigned[v],
                      r.off < position[v][r.part]
               PROVE  InHand(r, v, Len(batch[v]))'
    BY DEF PositionsCovered
  <2>1. InHand(r, v, Len(batch[v]))
    BY DEF Covered, PositionsCovered
  <2>2. CASE v # w
    BY <1>4, <2>1, <2>2 DEF InHand
  <2>3. CASE v = w
    <3> SUFFICES ASSUME NEW m \in Nat, m = n PROVE InHand(r, v, Len(batch[v]))'
      BY <1>1
    <3>1. InHand(r, w, m) /\ m \in 0..n
      BY <2>1, <2>3 DEF b, n
    <3>2. InHand(r, w, m - 1)'
      BY <1>5, <3>1
    <3>3. Len(batch'[w]) = m - 1
      BY <1>3, <1>4
    <3> QED
      BY <2>3, <3>2, <3>3 DEF InHand
  <2> QED
    BY <2>2, <2>3
<1>7. BatchesInOrder'
  <2> SUFFICES ASSUME NEW v \in Workers, NEW i \in 1..Len(batch'[v]), NEW r \in Records,
                      r.part = batch'[v][i].part, r.off < batch'[v][i].off
               PROVE  InHand(r, v, i - 1)'
    BY DEF BatchesInOrder
  <2>1. CASE v # w
    BY <1>4, <2>1 DEF Covered, BatchesInOrder, InHand
  <2>2. CASE v = w
    <3>1. i \in 1..(n - 1) /\ i + 1 \in 1..n /\ i \in 0..n
      BY <1>1, <1>3, <1>4, <2>2
    <3>2. batch'[w][i] = b[i + 1]
      BY <1>3, <1>4, <3>1
    <3>3. InHand(r, w, (i + 1) - 1)
      BY <2>2, <3>1, <3>2 DEF Covered, BatchesInOrder, b, n
    <3>4. (i + 1) - 1 = i
      BY <3>1
    <3>5. InHand(r, w, i - 1)'
      BY <1>5, <3>1, <3>3, <3>4
    <3> QED
      BY <2>2, <3>5
  <2> QED
    BY <2>1, <2>2
<1>8. StoredCovered'
  <2> SUFFICES ASSUME NEW v \in Workers, NEW r \in Records, r.off < stored'[v][r.part]
               PROVE  r \in Passed'
    BY DEF StoredCovered
  <2>1. CASE stored'[v][r.part] = stored[v][r.part]
    BY <2>1 DEF Covered, StoredCovered
  <2>2. CASE stored'[v][r.part] # stored[v][r.part]
    <3>1. /\ v = w /\ r.part = Current(w).part
          /\ stored'[v][r.part] = Current(w).off + 1
      BY <2>2, RecordParts DEF Finish, Inv, TypeOK
    <3>2. Current(w) \in Records /\ Current(w).off \in Int /\ r.off \in Int
      BY BatchParts, RecordParts, LogAssumption DEF Inv, Offsets
    <3>3. CASE r.off < Current(w).off
      BY <3>1, <3>3, CurrentIsNext
    <3>4. CASE r.off = Current(w).off
      BY <3>1, <3>2, <3>4 DEF Records
    <3> QED
      BY <3>1, <3>2, <3>3, <3>4
  <2> QED
    BY <2>1, <2>2
<1>9. NoRecordLost'
  BY DEF Covered, NoRecordLost
<1> QED
  BY <1>6, <1>7, <1>8, <1>9

\* The bounds are only ever used up.
LEMMA WholeBefore ==
  ASSUME TypeOK, Whole',
         spent' = spent \/ \E bound \in Bounds : Spend(bound)
  PROVE  Whole
BY DEF Whole, TypeOK, Spend, Bounds

\* A Poll that returns a message reads on without a gap.
LEMMA PollMessageSafe ==
  ASSUME Inv, Safe, NEW w \in Workers, NEW p \in Partitions, PollMessage(w, p)
  PROVE  Safe'
<1> DEFINE m == [part |-> p, off |-> position[w][p]]
           b == batch[w]
<1>1. m \in Records /\ m.part = p /\ m.off = position[w][p]
  BY DEF PollMessage, Records
<1>2. b \in Seq(Records) /\ Len(b) \in Nat
  BY DEF Inv, TypeOK
<1>3. batch' = [batch EXCEPT ![w] = Append(b, m)]
  BY DEF PollMessage
<1> HIDE DEF m, b
<1>4. /\ Len(Append(b, m)) = Len(b) + 1
      /\ \A i \in 1..Len(b) : Append(b, m)[i] = b[i]
      /\ Append(b, m)[Len(b) + 1] = m
  BY <1>1, <1>2, AppendProperties
<1>5. /\ batch'[w] = Append(b, m)
      /\ \A v \in Workers : v # w => batch'[v] = batch[v]
  BY <1>3 DEF Inv, TypeOK
<1>6. /\ Passed' = Passed /\ assigned' = assigned /\ owner' = owner
      /\ pc' = pc /\ stored' = stored /\ committed' = committed /\ applied' = applied
  BY DEF PollMessage, brokerVars, logVars, Passed, Accounted, Skipped
<1>7. \A v \in Workers, q \in Partitions :
        position'[v][q] = IF v = w /\ q = p THEN position[w][p] + 1 ELSE position[v][q]
  BY DEF PollMessage, Inv, TypeOK
<1>8. \A r \in Records, k \in 0..Len(b) : InHand(r, w, k) => InHand(r, w, k)'
  BY <1>2, <1>4, <1>5, <1>6 DEF InHand, b
<1>9. PositionsCovered'
  <2> SUFFICES ASSUME NEW v \in Workers, NEW r \in Records, r.part \in assigned[v],
                      r.off < position'[v][r.part]
               PROVE  InHand(r, v, Len(batch[v]))'
    BY <1>6 DEF PositionsCovered
  <2>1. CASE v # w
    BY <1>5, <1>6, <1>7, <2>1, RecordParts DEF Safe, Covered, PositionsCovered, InHand
  <2>2. CASE v = w /\ r.off < position[v][r.part]
    <3>1. InHand(r, w, Len(b))
      BY <2>2 DEF Safe, Covered, PositionsCovered, b
    <3> QED
      BY <1>2, <1>4, <1>5, <1>6, <2>2, <3>1 DEF InHand, b
  <2>3. CASE v = w /\ ~(r.off < position[v][r.part])
    <3>1. position[w][p] \in Int /\ r.off \in Int
      BY RecordParts, LogAssumption DEF PollMessage, Offsets
    <3>2. r.part = p /\ r.off = position[w][p]
      BY <1>7, <2>3, <3>1, RecordParts
    <3>3. r = m
      BY <1>1, <3>2 DEF Records, m
    <3> QED
      BY <1>2, <1>4, <1>5, <2>3, <3>3 DEF InHand
  <2> QED
    BY <2>1, <2>2, <2>3
<1>10. BatchesInOrder'
  <2> SUFFICES ASSUME NEW v \in Workers, NEW i \in 1..Len(batch'[v]), NEW r \in Records,
                      r.part = batch'[v][i].part, r.off < batch'[v][i].off
               PROVE  InHand(r, v, i - 1)'
    BY DEF BatchesInOrder
  <2>1. CASE v # w
    BY <1>5, <1>6, <2>1 DEF Safe, Covered, BatchesInOrder, InHand
  <2>2. CASE v = w /\ i \in 1..Len(b)
    <3>1. InHand(r, w, i - 1)
      BY <1>4, <1>5, <2>2 DEF Safe, Covered, BatchesInOrder, b
    <3>2. i - 1 \in 0..Len(b)
      BY <1>2, <2>2
    <3> QED
      BY <1>8, <2>2, <3>1, <3>2
  <2>3. CASE v = w /\ i = Len(b) + 1
    <3>1. r.part = p /\ r.off < position[w][p] /\ p \in assigned[w]
      BY <1>1, <1>4, <1>5, <2>3 DEF PollMessage
    <3>2. InHand(r, w, Len(b))
      BY <3>1 DEF Safe, Covered, PositionsCovered, b
    <3>3. i - 1 = Len(b) /\ i - 1 \in 0..Len(b)
      BY <1>2, <2>3
    <3>4. InHand(r, w, i - 1)
      BY <3>2, <3>3
    <3> QED
      BY <1>8, <2>3, <3>3, <3>4
  <2> QED
    BY <1>2, <1>4, <1>5, <2>1, <2>2, <2>3
<1> QED
  BY <1>6, <1>9, <1>10 DEF Safe, LostTogether, EmptyAtRewind, Covered, StoredCovered,
     NoRecordLost, AppliedInOrder

\* A partition that arrives is read from where all before is done.
LEMMA PollAssignedSafe ==
  ASSUME Inv, Safe, NEW w \in Workers, NEW p \in Partitions, PollAssigned(w, p)
  PROVE  Safe'
<1>1. /\ batch' = batch /\ owner' = owner /\ pc' = pc /\ committed' = committed
      /\ applied' = applied /\ dlt' = dlt /\ stored' = stored
  BY DEF PollAssigned
<1> PICK start \in Starts(p) :
      /\ position' = [position EXCEPT ![w][p] = start]
      /\ IF committed[p] = 0
           THEN from' = [from EXCEPT ![p] = start] /\ end' = [end EXCEPT ![p] = start]
           ELSE UNCHANGED logVars
  BY DEF PollAssigned
<1>9. Passed \subseteq Passed'
  <2>1. \A q \in Partitions : from[q] <= from'[q]
    <3>1. \A q \in Partitions : end[q] \in Int /\ from[q] \in Int /\ from[q] <= end[q]
      BY LogAssumption DEF Inv, TypeOK, Stages, StartsInLog
    <3>2. committed[p] = 0 => start \in Int /\ end[p] <= start
      BY <3>1, LogAssumption DEF Starts
    <3>3. CASE committed[p] = 0
      <4>1. \A q \in Partitions : from'[q] = IF q = p THEN start ELSE from[q]
        BY <3>3 DEF Inv, TypeOK
      <4> QED
        BY <3>1, <3>2, <3>3, <4>1
    <3>4. CASE committed[p] # 0
      <4>1. from' = from
        BY <3>4 DEF logVars
      <4> QED
        BY <3>1, <4>1
    <3> QED
      BY <3>3, <3>4
  <2>2. \A q \in Partitions : from[q] \in Int /\ from'[q] \in Int
    <3>1. Inv'
      BY PollInv
    <3> QED
      BY <3>1, LogAssumption DEF Inv, TypeOK, Stages
  <2>3. \A r \in Records : r.part \in Partitions /\ r.off \in Int
    BY RecordParts, LogAssumption DEF Offsets
  <2> QED
    BY <1>1, <2>1, <2>2, <2>3 DEF Passed, Accounted, Skipped
<1>2. \A v \in Workers, q \in Partitions :
        position'[v][q] = IF v = w /\ q = p THEN start ELSE position[v][q]
  BY DEF Inv, TypeOK
<1>10. \A r \in Records : r.part = p /\ r.off < start => r \in Passed'
  <2>1. CASE committed[p] = 0
    <3>1. from'[p] = start
      BY <2>1 DEF Inv, TypeOK
    <3> QED
      BY <3>1 DEF Passed, Skipped
  <2>2. CASE committed[p] # 0
    <3>1. start = committed[p]
      BY <2>2 DEF Starts
    <3> QED
      BY <1>9, <3>1 DEF Safe, Covered, NoRecordLost
  <2> QED
    BY <2>1, <2>2
<1>3. \A v \in Workers :
        assigned'[v] = IF v = w THEN assigned[v] \cup {p} ELSE assigned[v]
  BY DEF PollAssigned, Inv, TypeOK
<1>4. PositionsCovered'
  <2> SUFFICES ASSUME NEW v \in Workers, NEW r \in Records, r.part \in assigned'[v],
                      r.off < position'[v][r.part]
               PROVE  InHand(r, v, Len(batch[v]))'
    BY DEF PositionsCovered
  <2>1. CASE v = w /\ r.part = p
    BY <1>2, <1>10, <2>1 DEF InHand
  <2>2. CASE ~(v = w /\ r.part = p)
    <3>1. r.part \in assigned[v] /\ r.off < position[v][r.part]
      BY <1>2, <1>3, <2>2, RecordParts
    <3>2. InHand(r, v, Len(batch[v]))
      BY <3>1 DEF Safe, Covered, PositionsCovered
    <3> QED
      BY <1>1, <1>9, <3>2 DEF InHand
  <2> QED
    BY <2>1, <2>2
<1>5. BatchesInOrder'
  BY <1>1, <1>9 DEF Safe, Covered, BatchesInOrder, InHand
<1>6. StoredCovered'
  BY <1>1, <1>9 DEF Safe, Covered, StoredCovered
<1>7. LostTogether'
  BY <1>1, <1>3 DEF PollAssigned, Safe, LostTogether
<1>8. EmptyAtRewind'
  BY <1>1, <1>3 DEF PollAssigned, Safe, EmptyAtRewind
<1> QED
  BY <1>1, <1>4, <1>5, <1>6, <1>7, <1>8, <1>9
     DEF Safe, Covered, NoRecordLost, AppliedInOrder

\* Partitions that go: all of them at once, or none that a rewind would need.
LEMMA DropSafe ==
  ASSUME Inv, Safe, NEW w \in Workers, NEW gone \in SUBSET Partitions, Drop(w, gone),
         \A p \in assigned[w] : p \in gone \/ pc[w] # "wait",
         applied' = applied, dlt' = dlt, from' = from, batch' = batch,
         committed' = committed
  PROVE  Covered' /\ EmptyAtRewind'
<1>1. \A v \in Workers : assigned'[v] = IF v = w THEN assigned[v] \ gone ELSE assigned[v]
  BY DEF Drop, Inv, TypeOK
<1>2. \A v \in Workers : v # w => pc'[v] = pc[v]
  BY DEF Drop, Inv, TypeOK
<1>3. pc'[w] = "rewind" => pc[w] = "wait"
  BY DEF Drop, Inv, TypeOK
<1>4. EmptyAtRewind'
  BY <1>1, <1>2, <1>3 DEF Safe, EmptyAtRewind
<1>5. \A v \in Workers, p \in Partitions :
        /\ position'[v][p] = IF v = w /\ p \in gone THEN 0 ELSE position[v][p]
        /\ stored'[v][p] = IF v = w /\ p \in gone THEN 0 ELSE stored[v][p]
  <2>1. /\ position \in [Workers -> [Partitions -> Stages \cup {0}]]
        /\ stored \in [Workers -> [Partitions -> Stages \cup {0}]]
    BY DEF Inv, TypeOK
  <2>2. position' = Cleared(position, w, gone) /\ stored' = Cleared(stored, w, gone)
    BY DEF Drop
  <2> QED
    BY <2>1, <2>2, ClearedType
<1>6. Covered'
  BY <1>1, <1>5, QuietStep DEF Safe
<1> QED
  BY <1>4, <1>6

\* A Poll.
LEMMA PollSafe ==
  ASSUME Inv, Safe, Whole', NEW w \in Workers,
         \/ \E p \in Partitions : PollMessage(w, p) \/ PollAssigned(w, p)
         \/ PollError(w) \/ FetchDone(w) \/ PollLost(w)
         \/ \E gone \in SUBSET Partitions : PollRevoked(w, gone)
  PROVE  Safe'
<1>1. CASE PollError(w)
  BY <1>1 DEF PollError, Spend, Whole, Inv, TypeOK, Bounds
<1>2. CASE FetchDone(w)
  <2>1. /\ UNCHANGED <<owner, assigned, applied, dlt, from, batch, position, stored,
                     committed>>
        /\ \A v \in Workers : pc'[v] = "rewind" => pc[v] = "rewind"
    BY <1>2 DEF FetchDone, Goto, brokerVars, logVars, Inv, TypeOK
  <2> QED
    BY <2>1, QuietStep DEF Safe, LostTogether, EmptyAtRewind
<1>3. CASE PollLost(w)
  <2> DEFINE gone == {p \in assigned[w] : owner[p] # w}
  <2>1. /\ gone # {} /\ Drop(w, gone)
        /\ UNCHANGED <<owner, applied, dlt, from, batch, committed>>
    BY <1>3 DEF PollLost, brokerVars, logVars
  <2>2. gone \in SUBSET Partitions /\ \A p \in assigned[w] : p \in gone
    BY <2>1 DEF Safe, LostTogether, Inv, TypeOK
  <2> HIDE DEF gone
  <2>3. Covered' /\ EmptyAtRewind'
    BY <2>1, <2>2, DropSafe
  <2>4. LostTogether'
    BY <2>1 DEF Drop, Safe, LostTogether, Inv, TypeOK
  <2> QED
    BY <2>3, <2>4 DEF Safe
<1>4. ASSUME NEW gone \in SUBSET Partitions, PollRevoked(w, gone) PROVE Safe'
  <2>1. /\ Drop(w, gone) /\ gone # {} /\ \A p \in gone : p \in assigned[w] /\ owner[p] = w
        /\ UNCHANGED <<applied, dlt, from, batch, committed>>
    BY <1>4 DEF PollRevoked, logVars
  <2>2. spent["rebalances"] \in Nat /\ spent'["rebalances"] = spent["rebalances"] + 1
    BY <1>4 DEF PollRevoked, Spend, Inv, TypeOK, Bounds
  <2>3. \A p, q \in Partitions : p = q
    BY <2>2 DEF Whole
  <2>4. \A p \in assigned[w] : p \in gone
    BY <2>1, <2>3 DEF Inv, TypeOK
  <2>5. Covered' /\ EmptyAtRewind'
    BY <2>1, <2>4, DropSafe
  <2>6. \A v \in Workers : assigned'[v] = IF v = w THEN assigned[v] \ gone ELSE assigned[v]
    BY <2>1 DEF Drop, Inv, TypeOK
  <2>7. \A p \in Partitions : owner'[p] = IF p \in gone THEN Nobody ELSE owner[p]
    BY <1>4 DEF PollRevoked
  <2>8. LostTogether'
    <3> SUFFICES ASSUME NEW v \in Workers, NEW q \in assigned'[v], owner'[q] # v,
                        NEW p \in Partitions
                 PROVE  owner'[p] # v
      BY DEF LostTogether
    <3>1. v # w /\ q \in assigned[v] /\ q \in Partitions
      BY <2>4, <2>6 DEF Inv, TypeOK
    <3>2. owner[q] # v
      BY <2>1, <2>7, <3>1
    <3>3. owner[p] # v
      BY <3>1, <3>2 DEF Safe, LostTogether
    <3> QED
      BY <2>7, <3>3, NobodyAssumption
  <2> QED
    BY <2>5, <2>8 DEF Safe
<1> QED
  BY <1>1, <1>2, <1>3, <1>4, PollMessageSafe, PollAssignedSafe

\* The record at hand is handled, retried or published: those before it are
\* done, so it takes effect in order.
LEMMA HandleSafe ==
  ASSUME Inv, Safe, NEW w \in Workers,
         \/ HandleOk(w) \/ HandleBroken(w) \/ HandleFails(w)
         \/ PublishOk(w) \/ PublishFails(w)
  PROVE  Safe'
<1>1. batch[w] # <<>> /\ pc[w] \in {"handle", "publish"}
  BY DEF Inv, AtRecord, HandleOk, HandleBroken, HandleFails, PublishOk, PublishFails
<1>2. UNCHANGED <<owner, assigned, position, committed, from>>
  BY DEF HandleOk, HandleBroken, HandleFails, PublishOk, PublishFails, brokerVars,
         logVars
<1>3. \A v \in Workers : pc'[v] = "rewind" => pc[v] = "rewind"
  BY DEF HandleOk, HandleBroken, HandleFails, PublishOk, PublishFails, Finish, Goto,
         Inv, TypeOK
<1>4. /\ applied' \in {applied, applied \cup {Current(w)}}
      /\ dlt' \in {dlt, dlt \cup {Current(w)}}
  BY DEF HandleOk, HandleBroken, HandleFails, PublishOk, PublishFails, brokerVars
<1>5. Passed \subseteq Passed'
  BY <1>2, <1>4 DEF Passed, Accounted, Skipped
<1>6. AppliedInOrder'
  <2> SUFFICES ASSUME NEW r \in Records, NEW q \in Records, q \in applied',
                      r.part = q.part, r.off < q.off
               PROVE  r \in Passed'
    BY DEF AppliedInOrder
  <2>1. CASE q \in applied
    BY <1>5, <2>1 DEF Safe, Covered, AppliedInOrder
  <2>2. CASE q = Current(w)
    BY <1>1, <1>5, <2>2, CurrentIsNext DEF Safe
  <2> QED
    BY <1>4, <2>1, <2>2
<1>7. CASE HandleOk(w) \/ PublishOk(w)
  <2>1. Finish(w) /\ Current(w) \in Passed'
    BY <1>7 DEF HandleOk, PublishOk, Passed, Accounted, Skipped
  <2>2. PositionsCovered' /\ BatchesInOrder' /\ StoredCovered' /\ NoRecordLost'
    BY <1>1, <1>2, <1>5, <2>1, FinishCovers DEF Safe
  <2> QED
    BY <1>2, <1>3, <1>6, <2>2 DEF Safe, Covered, LostTogether, EmptyAtRewind
<1>8. CASE HandleBroken(w) \/ HandleFails(w) \/ PublishFails(w)
  <2>1. batch' = batch /\ stored' = stored
    BY <1>8 DEF HandleBroken, HandleFails, PublishFails
  <2>2. PositionsCovered' /\ BatchesInOrder' /\ StoredCovered' /\ NoRecordLost'
    BY <1>2, <1>5, <2>1 DEF Safe, Covered, PositionsCovered, BatchesInOrder,
       StoredCovered, NoRecordLost, InHand
  <2> QED
    BY <1>2, <1>3, <1>6, <2>2 DEF Safe, Covered, LostTogether, EmptyAtRewind
<1> QED
  BY <1>7, <1>8

\* What is stored is done, so what is committed is; and a rewind gives up
\* nothing, as the consumer has no partition left.
LEMMA CommitSafe ==
  ASSUME Inv, Safe, NEW w \in Workers,
         \/ CommitAndWait(w) \/ CommitBatch(w) \/ WaitDone(w)
         \/ \E sought \in SUBSET Partitions : Rewind(w, sought)
  PROVE  Safe'
<1>1. UNCHANGED <<owner, assigned, applied, dlt, from, stored>>
  BY DEF CommitAndWait, CommitBatch, Commit, CommitFails, WaitDone, Rewind, brokerVars,
         logVars
<1>2. \A v \in Workers : pc'[v] = "rewind" => pc[v] = "rewind"
  BY DEF CommitAndWait, CommitBatch, Commit, CommitFails, WaitDone, Rewind, Goto,
         Inv, TypeOK
<1>3. Passed' = Passed
  BY <1>1 DEF Passed, Accounted, Skipped
<1>4. CASE CommitAndWait(w) \/ CommitBatch(w) \/ WaitDone(w)
  <2>1. UNCHANGED <<batch, position>>
    BY <1>4 DEF CommitAndWait, CommitBatch, Commit, CommitFails, WaitDone
  <2>2. \A p \in Partitions : committed'[p] \in {committed[p], stored[w][p]}
    BY <1>4 DEF CommitAndWait, CommitBatch, Commit, CommitFails, WaitDone, brokerVars
  <2>3. NoRecordLost'
    BY <1>3, <2>2, RecordParts DEF Safe, Covered, NoRecordLost, StoredCovered
  <2> QED
    BY <1>1, <1>2, <1>3, <2>1, <2>3 DEF Safe, Covered, LostTogether, EmptyAtRewind,
       PositionsCovered, BatchesInOrder, StoredCovered, AppliedInOrder, InHand
<1>5. ASSUME NEW sought \in SUBSET Partitions, Rewind(w, sought) PROVE Safe'
  <2>1. assigned[w] = {}
    BY <1>5 DEF Rewind, Safe, EmptyAtRewind
  <2>2. /\ batch' = [batch EXCEPT ![w] = <<>>]
        /\ \A v \in Workers : v # w => position'[v] = position[v]
        /\ committed' = committed
    BY <1>5 DEF Rewind, Inv, TypeOK, brokerVars
  <2>3. /\ batch'[w] = <<>> /\ Len(batch'[w]) = 0
        /\ \A v \in Workers : v # w => batch'[v] = batch[v]
    BY <2>2, EmptySeq DEF Inv, TypeOK
  <2>4. PositionsCovered'
    BY <1>1, <1>3, <2>1, <2>2, <2>3 DEF Safe, Covered, PositionsCovered, InHand
  <2>5. BatchesInOrder'
    BY <1>3, <2>3 DEF Safe, Covered, BatchesInOrder, InHand
  <2> QED
    BY <1>1, <1>2, <1>3, <2>2, <2>4, <2>5 DEF Safe, Covered, LostTogether,
       EmptyAtRewind, StoredCovered, NoRecordLost, AppliedInOrder
<1> QED
  BY <1>4, <1>5

\* The group takes a consumer's partitions away together, and gives a consumer
\* no more before it has let go of those.
LEMMA GroupSafe ==
  ASSUME Inv, Safe, NEW w \in Workers, Group(w) \/ Expel(w) \/ Crash(w) \/ Restart(w)
  PROVE  Safe'
<1>1. CASE Group(w) \/ Expel(w)
  <2>1. UNCHANGED <<assigned, applied, dlt, from, batch, position, stored, committed,
                     pc>>
    BY <1>1 DEF Group, Assign, Expel, logVars
  <2>2. Covered'
    BY <2>1, QuietStep DEF Safe
  <2>3. CASE Group(w)
    <3>1. PICK p \in Partitions : Assign(w, p)
      BY <2>3 DEF Group
    <3>2. \A q \in Partitions : owner'[q] = IF q = p THEN w ELSE owner[q]
      BY <3>1 DEF Assign, Inv, TypeOK
    <3>3. LostTogether'
      BY <2>1, <3>1, <3>2, NobodyAssumption DEF Assign, Safe, LostTogether, Inv, TypeOK
    <3> QED
      BY <2>1, <2>2, <3>3 DEF Safe, EmptyAtRewind
  <2>4. CASE Expel(w)
    <3>1. \A q \in Partitions : owner'[q] = IF owner[q] = w THEN Nobody ELSE owner[q]
      BY <2>4 DEF Expel
    <3>2. LostTogether'
      BY <2>1, <3>1, NobodyAssumption DEF Safe, LostTogether, Inv, TypeOK
    <3> QED
      BY <2>1, <2>2, <3>2 DEF Safe, EmptyAtRewind
  <2> QED
    BY <1>1, <2>3, <2>4
<1>2. CASE Crash(w)
  <2>1. /\ UNCHANGED <<owner, committed, applied, dlt, from>>
        /\ batch' = [batch EXCEPT ![w] = <<>>]
        /\ assigned' = [assigned EXCEPT ![w] = {}]
        /\ position' = Cleared(position, w, Partitions)
        /\ stored' = Cleared(stored, w, Partitions)
    BY <1>2 DEF Crash, brokerVars, logVars
  <2>2. /\ batch'[w] = <<>> /\ Len(batch'[w]) = 0 /\ assigned'[w] = {}
        /\ \A v \in Workers : v # w => batch'[v] = batch[v] /\ assigned'[v] = assigned[v]
    BY <2>1, EmptySeq DEF Inv, TypeOK
  <2>3. \A v \in Workers, p \in Partitions :
          /\ stored'[v][p] \in {0, stored[v][p]}
          /\ v # w => position'[v][p] = position[v][p]
    <3>1. /\ position \in [Workers -> [Partitions -> Stages \cup {0}]]
          /\ stored \in [Workers -> [Partitions -> Stages \cup {0}]]
      BY DEF Inv, TypeOK
    <3> QED
      BY <2>1, <3>1, ClearedType
  <2>4. Passed' = Passed
    BY <2>1, PassedKept
  <2>5. PositionsCovered' /\ BatchesInOrder'
    BY <2>1, <2>2, <2>3, <2>4, RecordParts
       DEF Safe, Covered, PositionsCovered, BatchesInOrder, InHand
  <2>6. StoredCovered'
    BY <2>3, <2>4, RecordParts, LogAssumption DEF Safe, Covered, StoredCovered, Offsets
  <2>7. LostTogether' /\ EmptyAtRewind'
    BY <1>2, <2>1, <2>2 DEF Crash, Goto, Safe, LostTogether, EmptyAtRewind, Inv, TypeOK
  <2> QED
    BY <2>1, <2>4, <2>5, <2>6, <2>7 DEF Safe, Covered, NoRecordLost, AppliedInOrder
<1>3. CASE Restart(w)
  <2>1. /\ UNCHANGED <<owner, assigned, applied, dlt, from, batch, position, stored,
                     committed>>
        /\ \A v \in Workers : pc'[v] = "rewind" => pc[v] = "rewind"
    BY <1>3 DEF Restart, Goto, brokerVars, logVars, Inv, TypeOK
  <2> QED
    BY <2>1, QuietStep DEF Safe, LostTogether, EmptyAtRewind
<1> QED
  BY <1>1, <1>2, <1>3

\* At first nothing is read, stored or committed.
LEMMA InitSafe == Init => Safe
<1> SUFFICES ASSUME Init PROVE Safe
  OBVIOUS
<1>1. \A r \in Records : r.part \in Partitions /\ r.off \in Nat \ {0}
  BY RecordParts, LogAssumption DEF Offsets
<1>2. \A w \in Workers : Len(batch[w]) = 0
  BY EmptySeq DEF Init
<1>3. LostTogether /\ EmptyAtRewind
  BY DEF Init, LostTogether, EmptyAtRewind
<1>4. PositionsCovered
  BY DEF Init, PositionsCovered
<1>5. BatchesInOrder
  BY <1>2 DEF BatchesInOrder
<1>6. StoredCovered
  BY <1>1 DEF Init, StoredCovered
<1>7. NoRecordLost
  <2>1. \A p \in Partitions : committed[p] \in {0, 1}
    BY DEF Init
  <2> QED
    BY <1>1, <2>1 DEF NoRecordLost
<1>8. AppliedInOrder
  BY DEF Init, AppliedInOrder
<1> QED
  BY <1>3, <1>4, <1>5, <1>6, <1>7, <1>8 DEF Safe, Covered

\* While the behaviour is whole, it is safe.
THEOREM Safety == Spec => [](Whole => Safe)
<1>1. Inv /\ (Whole => Safe) /\ [Next]_vars => (Whole => Safe)'
  <2> SUFFICES ASSUME Inv, Whole => Safe, [Next]_vars, Whole' PROVE Safe'
    OBVIOUS
  <2>1. spent' = spent \/ \E bound \in Bounds : Spend(bound)
    BY DEF Next, Work, Failure, Group, vars, PollMessage, PollAssigned, PollError,
       FetchDone, PollLost, PollRevoked, HandleOk, HandleBroken, HandleFails, PublishOk,
       PublishFails, CommitAndWait, CommitBatch, Commit, CommitFails, WaitDone, Rewind,
       Assign, Expel, Crash, Restart, Bounds
  <2>2. Safe
    BY <2>1, WholeBefore DEF Inv
  <2>3. ASSUME NEW w \in Workers, Work(w) \/ Failure(w) \/ Group(w) PROVE Safe'
    BY <2>2, <2>3, PollSafe, HandleSafe, CommitSafe, GroupSafe DEF Work, Failure
  <2>4. CASE UNCHANGED vars
    BY <2>2, <2>4, QuietStep
       DEF vars, brokerVars, logVars, Safe, LostTogether, EmptyAtRewind
  <2> QED
    BY <2>3, <2>4 DEF Next
<1> QED
  BY InitInv, InitSafe, Invariance, <1>1, PTL DEF Spec

\* Beyond those skipped before the first commit, records are lost only if a
\* Poll failed, or a revocation left a consumer some of its partitions.
THEOREM NothingLost ==
  Spec => [](spent["rebalances"] = 0 \/ (\A p, q \in Partitions : p = q)
               => NoRecordLostWithoutErrors)
<1>1. (Whole => Safe) =>
        (spent["rebalances"] = 0 \/ (\A p, q \in Partitions : p = q)
           => NoRecordLostWithoutErrors)
  BY DEF Whole, Safe, Covered, NoRecordLostWithoutErrors
<1> QED
  BY Safety, <1>1, PTL

\* Where no Poll is taken to fail, no other record is lost: the property of
\* the run RecordGroup, for any number of consumers, records and crashes.
THEOREM NothingLostAtAll ==
  ASSUME MaxErrors = 0, MaxRebalances = 0 \/ (\A p, q \in Partitions : p = q)
  PROVE  Spec => []NoRecordLost
<1> DEFINE Kept == /\ spent["errors"] = 0
                   /\ MaxRebalances = 0 => spent["rebalances"] = 0
<1>1. Init => Kept
  BY DEF Init, Bounds
<1>2. Inv /\ Kept /\ [Next]_vars => Kept'
  <2> SUFFICES ASSUME Inv, Kept, [Next]_vars PROVE Kept'
    OBVIOUS
  <2>1. spent' = spent \/ \E bound \in Bounds : Spend(bound)
    BY DEF Next, Work, Failure, Group, vars, PollMessage, PollAssigned, PollError,
       FetchDone, PollLost, PollRevoked, HandleOk, HandleBroken, HandleFails, PublishOk,
       PublishFails, CommitAndWait, CommitBatch, Commit, CommitFails, WaitDone, Rewind,
       Assign, Expel, Crash, Restart, Bounds
  <2>2. CASE spent' = spent
    BY <2>2
  <2>3. ASSUME NEW bound \in Bounds, Spend(bound) PROVE Kept'
    BY <2>3 DEF Spend, Limit, Bounds, Inv, TypeOK
  <2> QED
    BY <2>1, <2>2, <2>3
<1>3. (Whole => Safe) /\ Kept => NoRecordLost
  BY DEF Whole, Safe, Covered
<1> QED
  BY Invariance, Safety, <1>1, <1>2, <1>3, PTL DEF Spec

\* Likewise, records of a partition take effect in their order.
THEOREM InOrder == Spec => [](Whole => AppliedInOrder)
<1>1. (Whole => Safe) => (Whole => AppliedInOrder)
  BY DEF Safe, Covered
<1> QED
  BY Safety, <1>1, PTL

\* Every partition has a committed offset, and had one from the start.
Known == \A p \in Partitions : committed[p] # 0 /\ from[p] <= 1

\* A group that starts with a committed offset for every partition skips
\* nothing: what is behind a commit is applied or dead-lettered, in its order.
THEOREM NothingSkippedOnceCommitted ==
  Spec /\ (\A p \in Partitions : committed[p] # 0) =>
    [](Whole =>
         /\ \A r \in Records : r.off < committed[r.part] => r \in Accounted
         /\ \A r, q \in Records :
              q \in applied /\ r.part = q.part /\ r.off < q.off => r \in Accounted)
<1>1. Init /\ (\A p \in Partitions : committed[p] # 0) => Known
  BY DEF Init, Known
<1>2. Inv /\ Known /\ [Next]_vars => Known'
  <2> SUFFICES ASSUME Inv, Known, [Next]_vars PROVE Known'
    OBVIOUS
  <2> DEFINE Kept == from' = from /\ committed' = committed
  <2>1. CASE UNCHANGED vars
    BY <2>1 DEF Known, vars, brokerVars, logVars
  <2>2. ASSUME NEW w \in Workers, Work(w) PROVE Known'
    <3>1. ASSUME NEW p \in Partitions, PollMessage(w, p) PROVE Kept
      BY <3>1 DEF PollMessage
    <3>2. ASSUME NEW p \in Partitions, PollAssigned(w, p) PROVE Kept
      BY <3>2 DEF PollAssigned, Known, logVars
    <3>3. ASSUME NEW then, Commit(w, then) PROVE Known'
      BY <3>3 DEF Commit, Known, logVars
    <3>4. ASSUME NEW then, CommitFails(w, then) PROVE Kept
      BY <3>4 DEF CommitFails, brokerVars, logVars
    <3>5. CASE FetchDone(w) \/ PollLost(w) \/ HandleOk(w) \/ HandleBroken(w)
               \/ WaitDone(w) \/ Restart(w) \/ \E sought \in SUBSET Partitions : Rewind(w, sought)
      BY <3>5 DEF FetchDone, PollLost, HandleOk, HandleBroken, WaitDone, Restart,
                  Rewind, brokerVars, logVars, Known
    <3>6. CASE PublishOk(w)
      BY <3>6 DEF PublishOk, logVars, Known
    <3> QED
      BY <2>2, <3>1, <3>2, <3>3, <3>4, <3>5, <3>6
         DEF Work, CommitAndWait, CommitBatch, Known
  <2>3. ASSUME NEW w \in Workers, Failure(w) PROVE Known'
    <3>1. CASE PollError(w) \/ HandleFails(w) \/ Crash(w)
      BY <3>1 DEF PollError, HandleFails, Crash, brokerVars, logVars, Known
    <3>2. CASE PublishFails(w) \/ Expel(w)
               \/ \E gone \in SUBSET Partitions : PollRevoked(w, gone)
      BY <3>2 DEF PublishFails, Expel, PollRevoked, logVars, Known
    <3> QED
      BY <2>3, <3>1, <3>2 DEF Failure
  <2>4. ASSUME NEW w \in Workers, Group(w) PROVE Known'
    BY <2>4 DEF Group, Assign, logVars, Known
  <2> QED
    BY <2>1, <2>2, <2>3, <2>4 DEF Next
<1>3. Inv /\ Known => Skipped = {}
  <2> SUFFICES ASSUME Inv, Known, NEW r \in Records PROVE ~(r.off < from[r.part])
    BY DEF Skipped
  <2>1. r.part \in Partitions /\ r.off \in Nat \ {0}
    BY RecordParts, LogAssumption DEF Offsets
  <2>2. from[r.part] \in Int /\ from[r.part] <= 1
    BY <2>1, LogAssumption DEF Known, Inv, TypeOK, Stages
  <2> QED
    BY <2>1, <2>2
<1>4. Skipped = {} /\ (Whole => Safe) =>
        (Whole =>
           /\ \A r \in Records : r.off < committed[r.part] => r \in Accounted
           /\ \A r, q \in Records :
                q \in applied /\ r.part = q.part /\ r.off < q.off => r \in Accounted)
  BY DEF Safe, Covered, NoRecordLost, AppliedInOrder, Passed
<1> QED
  BY Invariance, Safety, <1>1, <1>2, <1>3, <1>4, PTL DEF Spec

=============================================================================

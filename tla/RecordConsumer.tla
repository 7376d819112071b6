--------------------------- MODULE RecordConsumer ---------------------------
(***************************************************************************)
(* How trade and portfolio-user records are taken from Kafka:               *)
(* runGroup, fetchBatch, processRecords, processRecord, waitPaused and      *)
(* rewindBatch of internal/kafka/consumer.go, with the dead-letter          *)
(* publisher of internal/kafka/dlt.go.                                      *)
(*                                                                          *)
(* One consumer group reads one topic.  A worker is one consumer of the     *)
(* group, in any process.  The handler is idempotent (module TradeCache);   *)
(* here a record is accounted for once it is applied or in the DLT topic.   *)
(* Records are written to the topic all the time; the model adds one when a *)
(* Poll returns it or a consumer starts behind it, as nothing tells before. *)
(*                                                                          *)
(* The group protocol is the incremental one the worker is deployed with    *)
(* (KAFKA_GROUP_PROTOCOL=consumer): some of a consumer's partitions may be  *)
(* revoked while it keeps the others, and it learns of it inside Poll.      *)
(***************************************************************************)
EXTENDS Integers, Sequences

CONSTANTS
  Workers,
  Nobody,          \* the owner of a partition between two assignments
  Partitions,
  LogEnd,          \* bound: a partition gets the offsets 1..LogEnd
  Broken,          \* the records the handler finds invalid
  MaxPollRecords,  \* config MaxPollRecords
  MaxFailures,     \* bound: handler calls, publications and commits that fail
  MaxErrors,       \* bound: Kafka error events returned by Poll
  MaxRebalances,   \* bound: partitions moved to another consumer
  MaxExpels,       \* bound: live consumers whose session expires
  MaxCrashes       \* bound: consumers that die or shut down

Offsets == 1..LogEnd

Records == [part : Partitions, off : Offsets]

ASSUME NobodyAssumption == Nobody \notin Workers
ASSUME LogAssumption == LogEnd \in Nat
ASSUME PollAssumption == MaxPollRecords \in Nat \ {0}
ASSUME BrokenAssumption == Broken \subseteq Records

VARIABLES
  \* the broker
  owner,      \* per partition: the consumer the group assigned it to
  committed,  \* per partition: the offset the next owner starts from, 0 for none
  dlt,        \* records in the dead-letter topic
  end,        \* per partition: the end of its log, as far as consumers have seen
  from,       \* history, per partition: the offset an owner last started from
              \* without a committed one, 0 before any did
  \* Redis
  applied,    \* records whose handler took effect
  \* per consumer
  pc,
  assigned,   \* Assignment(): the partitions it believes it has
  position,   \* per partition: the next offset its Poll returns, 0 for none
  stored,     \* per partition: the offset StoreMessage left, 0 for none
  batch,      \* records polled and not yet handled
  spent       \* how much of each bound is used up

logVars == <<end, from>>
brokerVars == <<owner, committed, dlt, logVars>>
vars == <<brokerVars, applied, pc, assigned, position, stored, batch, spent>>

Phases == {"poll", "handle", "publish", "pause", "wait", "rewind", "commit",
           "down"}

Bounds == {"failures", "errors", "rebalances", "expels", "crashes"}

Limit == [failures |-> MaxFailures, errors |-> MaxErrors,
          rebalances |-> MaxRebalances, expels |-> MaxExpels,
          crashes |-> MaxCrashes]

Spend(bound) ==
  /\ spent[bound] < Limit[bound]
  /\ spent' = [spent EXCEPT ![bound] = @ + 1]

Goto(w, phase) == pc' = [pc EXCEPT ![w] = phase]

\* The partitions with a record still in w's batch.
Polled(w) == {batch[w][i].part : i \in 1..Len(batch[w])}

\* The lowest offset of p in w's batch: rewindBatch's earliest.
Earliest(w, p) ==
  LET offsets == {batch[w][i].off :
                    i \in {j \in 1..Len(batch[w]) : batch[w][j].part = p}}
  IN  CHOOSE o \in offsets : \A q \in offsets : o <= q

\* A group that is new has no offsets; another has those of what it did before.
Init ==
  /\ owner = [p \in Partitions |-> Nobody]
  /\ committed \in [Partitions -> {0, 1}]
  /\ dlt = {}
  /\ end = [p \in Partitions |-> 1]
  /\ from = committed
  /\ applied = {}
  /\ pc = [w \in Workers |-> "poll"]
  /\ assigned = [w \in Workers |-> {}]
  /\ position = [w \in Workers |-> [p \in Partitions |-> 0]]
  /\ stored = [w \in Workers |-> [p \in Partitions |-> 0]]
  /\ batch = [w \in Workers |-> <<>>]
  /\ spent = [bound \in Bounds |-> 0]

----------------------------------------------------------------------------
(* Poll: messages, errors and rebalance events *)

\* fetchBatch appends a message, which may be new; the position moves past it.
PollMessage(w, p) ==
  /\ pc[w] = "poll"
  /\ p \in assigned[w]
  /\ position[w][p] \in Offsets
  /\ Len(batch[w]) < MaxPollRecords
  /\ batch' = [batch EXCEPT
       ![w] = Append(@, [part |-> p, off |-> position[w][p]])]
  /\ position' = [position EXCEPT ![w][p] = @ + 1]
  /\ end' = [end EXCEPT ![p] = IF position[w][p] < @ THEN @ ELSE position[w][p] + 1]
  /\ UNCHANGED <<owner, committed, dlt, from, applied, pc, assigned, stored, spent>>

\* fetchBatch returns nil and the error: what it had appended is gone, while
\* the positions stay where they are.
PollError(w) ==
  /\ pc[w] = "poll"
  /\ Spend("errors")
  /\ batch' = [batch EXCEPT ![w] = <<>>]
  /\ UNCHANGED <<brokerVars, applied, pc, assigned, position, stored>>

\* Mutant: a batch that is not full is waited on.
FetchFull(w) ==
  /\ pc[w] = "poll"
  /\ Len(batch[w]) = MaxPollRecords
  /\ Goto(w, "handle")
  /\ UNCHANGED <<brokerVars, applied, assigned, position, stored, batch, spent>>

\* The limit is reached, or the wait is over.
FetchDone(w) ==
  /\ pc[w] = "poll"
  /\ batch[w] # <<>>
  /\ Goto(w, "handle")
  /\ UNCHANGED <<brokerVars, applied, assigned, position, stored, batch, spent>>

\* Mutant: the committed offset is taken for the last record read.
StartsAfter(p) ==
  IF committed[p] = 0 THEN end[p]..(LogEnd + 1) ELSE {committed[p] + 1}

\* Where a new owner of p starts: at the committed offset and, without one, at
\* the end of the log, whatever was written meanwhile (auto.offset.reset is
\* latest).
Starts(p) ==
  IF committed[p] = 0 THEN end[p]..(LogEnd + 1) ELSE {committed[p]}

\* A partition arrives.  While waiting, a message of it that gets polled is
\* sought back and the partition paused.
PollAssigned(w, p) ==
  /\ pc[w] \in {"poll", "wait"}
  /\ owner[p] = w
  /\ p \notin assigned[w]
  /\ assigned' = [assigned EXCEPT ![w] = @ \cup {p}]
  /\ \E start \in Starts(p) :
       /\ position' = [position EXCEPT ![w][p] = start]
       /\ IF committed[p] = 0
            THEN /\ from' = [from EXCEPT ![p] = start]
                 /\ end' = [end EXCEPT ![p] = start]
            ELSE UNCHANGED logVars
  /\ UNCHANGED <<owner, committed, dlt, applied, pc, stored, batch, spent>>

\* w's offsets without those of partitions that are gone.
Cleared(offsets, w, gone) ==
  [offsets EXCEPT ![w] = [p \in Partitions |-> IF p \in gone THEN 0 ELSE @[p]]]

\* Poll drops partitions, with their positions and stored offsets; waitPaused
\* gives up if the current record's is gone.
Drop(w, gone) ==
  /\ pc[w] \in {"poll", "wait"}
  /\ assigned' = [assigned EXCEPT ![w] = @ \ gone]
  /\ position' = Cleared(position, w, gone)
  /\ stored' = Cleared(stored, w, gone)
  /\ pc' = [pc EXCEPT ![w] =
              IF @ = "wait" /\ Head(batch[w]).part \in gone THEN "rewind" ELSE @]

\* The group moves partitions away: they are free once w has let them go.
PollRevoked(w, gone) ==
  /\ Spend("rebalances")
  /\ gone # {}
  /\ \A p \in gone : p \in assigned[w] /\ owner[p] = w
  /\ Drop(w, gone)
  /\ owner' = [p \in Partitions |-> IF p \in gone THEN Nobody ELSE owner[p]]
  /\ UNCHANGED <<committed, dlt, logVars, applied, batch>>

\* w learns that its session expired.
PollLost(w) ==
  LET gone == {p \in assigned[w] : owner[p] # w}
  IN  /\ gone # {}
      /\ Drop(w, gone)
      /\ UNCHANGED <<brokerVars, applied, batch, spent>>

----------------------------------------------------------------------------
(* processRecord, for the first record of the batch *)

Current(w) == Head(batch[w])

\* storeOffset: StoreMessage refuses a partition that is not assigned, and the
\* error is only logged.  Then the next record, or the commit after the last.
Finish(w) ==
  LET p == Current(w).part
  IN  /\ stored' = IF p \in assigned[w]
                     THEN [stored EXCEPT ![w][p] = Current(w).off + 1]
                     ELSE stored
      /\ batch' = [batch EXCEPT ![w] = Tail(@)]
      /\ Goto(w, IF Tail(batch[w]) = <<>> THEN "commit" ELSE "handle")

\* Mutant: the payload is not validated.
HandleUnread(w) ==
  /\ pc[w] = "handle"
  /\ applied' = applied \cup {Current(w)}
  /\ Finish(w)
  /\ UNCHANGED <<brokerVars, assigned, position, spent>>

HandleOk(w) ==
  /\ pc[w] = "handle"
  /\ Current(w) \notin Broken
  /\ applied' = applied \cup {Current(w)}
  /\ Finish(w)
  /\ UNCHANGED <<brokerVars, assigned, position, spent>>

\* Retrying a broken record would not help.
HandleBroken(w) ==
  /\ pc[w] = "handle"
  /\ Current(w) \in Broken
  /\ Goto(w, "publish")
  /\ UNCHANGED <<brokerVars, applied, assigned, position, stored, batch, spent>>

\* The handler fails, its effect made or not: wait and retry, or give up once
\* recordElapsed has passed.
HandleFails(w) ==
  /\ pc[w] = "handle"
  /\ Current(w) \notin Broken
  /\ Spend("failures")
  /\ applied' \in {applied, applied \cup {Current(w)}}
  /\ Goto(w, "pause") \/ Goto(w, "publish")
  /\ UNCHANGED <<brokerVars, assigned, position, stored, batch>>

PublishOk(w) ==
  /\ pc[w] = "publish"
  /\ dlt' = dlt \cup {Current(w)}
  /\ Finish(w)
  /\ UNCHANGED <<owner, committed, logVars, applied, assigned, position, spent>>

\* Mutant: a publication that timed out is taken for done.
PublishFailsDone(w) ==
  /\ pc[w] = "publish"
  /\ Spend("failures")
  /\ Finish(w)
  /\ UNCHANGED <<brokerVars, applied, assigned, position>>

\* A publication that timed out may still be delivered.
PublishFails(w) ==
  /\ pc[w] = "publish"
  /\ Spend("failures")
  /\ dlt' \in {dlt, dlt \cup {Current(w)}}
  /\ Goto(w, "pause")
  /\ UNCHANGED <<owner, committed, logVars, applied, assigned, position, stored,
                 batch>>

\* Commit() sends what is stored for the assigned partitions; the broker
\* refuses those the consumer does not own any more.
Commit(w, then) ==
  /\ committed' = [p \in Partitions |->
       IF p \in assigned[w] /\ owner[p] = w /\ stored[w][p] # 0
         THEN stored[w][p] ELSE committed[p]]
  /\ Goto(w, then)
  /\ UNCHANGED <<owner, dlt, logVars, applied, assigned, position, stored, batch,
                 spent>>

\* A commit that fails is only logged: what is stored goes with the next one.
CommitFails(w, then) ==
  /\ Spend("failures")
  /\ Goto(w, then)
  /\ UNCHANGED <<brokerVars, applied, assigned, position, stored, batch>>

\* The wait may be long, so what precedes the record is committed first.
CommitAndWait(w) ==
  /\ pc[w] = "pause"
  /\ Commit(w, "wait") \/ CommitFails(w, "wait")

CommitBatch(w) ==
  /\ pc[w] = "commit"
  /\ Commit(w, "poll") \/ CommitFails(w, "poll")

\* Mutant: a record to be retried is put behind the rest of the batch.
WaitDoneBehind(w) ==
  /\ pc[w] = "wait"
  /\ batch' = [batch EXCEPT ![w] = Append(Tail(@), Head(@))]
  /\ Goto(w, "handle")
  /\ UNCHANGED <<brokerVars, applied, assigned, position, stored, spent>>

\* The wait is over and the record's partition is still assigned.
WaitDone(w) ==
  /\ pc[w] = "wait"
  /\ Goto(w, "handle")
  /\ UNCHANGED <<brokerVars, applied, assigned, position, stored, batch, spent>>

\* rewindBatch: the partitions of the batch are sought in the order of a map,
\* which is any order, up to the first whose Seek fails.
Rewind(w, sought) ==
  /\ pc[w] = "rewind"
  /\ sought \subseteq Polled(w) \cap assigned[w]
  /\ Polled(w) \subseteq assigned[w] => sought = Polled(w)
  /\ position' = [position EXCEPT ![w] =
       [p \in Partitions |-> IF p \in sought THEN Earliest(w, p) ELSE @[p]]]
  /\ batch' = [batch EXCEPT ![w] = <<>>]
  /\ Goto(w, "poll")
  /\ UNCHANGED <<brokerVars, applied, assigned, stored, spent>>

----------------------------------------------------------------------------
(* The group and the processes *)

\* The coordinator hands a free partition to a live consumer; one that was
\* expelled lets go of what it lost before it joins again.
Assign(w, p) ==
  /\ owner[p] = Nobody
  /\ pc[w] # "down"
  /\ \A q \in assigned[w] : owner[q] = w
  /\ owner' = [owner EXCEPT ![p] = w]
  /\ UNCHANGED <<committed, dlt, logVars, applied, pc, assigned, position, stored,
                 batch, spent>>

\* The session of a consumer expires: at once forgotten by the group, it goes
\* on with what it holds until it polls.
Expel(w) ==
  /\ \E p \in Partitions : owner[p] = w
  /\ IF pc[w] = "down" THEN UNCHANGED spent ELSE Spend("expels")
  /\ owner' = [p \in Partitions |-> IF owner[p] = w THEN Nobody ELSE owner[p]]
  /\ UNCHANGED <<committed, dlt, logVars, applied, pc, assigned, position, stored,
                 batch>>

\* The process dies, or its context is cancelled: the record at hand fails, the
\* batch is left, and Close commits nothing.
Crash(w) ==
  /\ pc[w] # "down"
  /\ Spend("crashes")
  /\ Goto(w, "down")
  /\ assigned' = [assigned EXCEPT ![w] = {}]
  /\ position' = Cleared(position, w, Partitions)
  /\ stored' = Cleared(stored, w, Partitions)
  /\ batch' = [batch EXCEPT ![w] = <<>>]
  /\ UNCHANGED <<brokerVars, applied>>

\* A restarted process joins as a new member, after the old one is forgotten.
Restart(w) ==
  /\ pc[w] = "down"
  /\ \A p \in Partitions : owner[p] # w
  /\ Goto(w, "poll")
  /\ UNCHANGED <<brokerVars, applied, assigned, position, stored, batch, spent>>

\* What the program does by itself.
Work(w) ==
  \/ \E p \in Partitions : PollMessage(w, p) \/ PollAssigned(w, p)
  \/ FetchDone(w) \/ PollLost(w)
  \/ HandleOk(w) \/ HandleBroken(w) \/ PublishOk(w)
  \/ CommitAndWait(w) \/ CommitBatch(w) \/ WaitDone(w)
  \/ \E sought \in SUBSET Partitions : Rewind(w, sought)
  \/ Restart(w)

Failure(w) ==
  \/ PollError(w) \/ HandleFails(w) \/ PublishFails(w) \/ Crash(w) \/ Expel(w)
  \/ \E gone \in SUBSET Partitions : PollRevoked(w, gone)

Group(w) == \E p \in Partitions : Assign(w, p)

Next == \E w \in Workers : Work(w) \/ Failure(w) \/ Group(w)

Spec == Init /\ [][Next]_vars

\* A worker's loop runs on by itself; the coordinator assigns free partitions
\* and forgets consumers that are down.
Fairness ==
  \A w \in Workers :
    /\ WF_vars(Work(w))
    /\ WF_vars(Group(w))
    /\ WF_vars(pc[w] = "down" /\ Expel(w))

FairSpec == Spec /\ Fairness

----------------------------------------------------------------------------
(* Properties *)

Stages == 1..(LogEnd + 1)

\* Every variable has its type.
TypeOK ==
  /\ owner \in [Partitions -> Workers \cup {Nobody}]
  /\ committed \in [Partitions -> Stages \cup {0}]
  /\ dlt \subseteq Records
  /\ end \in [Partitions -> Stages]
  /\ from \in [Partitions -> Stages \cup {0}]
  /\ applied \subseteq Records \ Broken
  /\ pc \in [Workers -> Phases]
  /\ assigned \in [Workers -> SUBSET Partitions]
  /\ position \in [Workers -> [Partitions -> Stages \cup {0}]]
  /\ stored \in [Workers -> [Partitions -> Stages \cup {0}]]
  /\ batch \in [Workers -> Seq(Records)]
  /\ spent \in [Bounds -> Nat]

Accounted == applied \cup dlt

\* What came before an owner that found no committed offset, and started at the
\* end of the log.
Skipped == {r \in Records : r.off < from[r.part]}

Passed == Accounted \cup Skipped

\* No record is lost: whatever the next owner of a partition will not read
\* again has been applied or is in the DLT topic, unless it was skipped before
\* the partition had a committed offset.
NoRecordLost ==
  \A r \in Records : r.off < committed[r.part] => r \in Passed

\* That needs every Poll to go well: fetchBatch forgets what it has polled when
\* a Kafka error comes after it.
NoRecordLostWithoutErrors == spent["errors"] = 0 => NoRecordLost

\* Records of a partition take effect in their order, across retries,
\* rebalances and restarts: one may overtake another only if that one was
\* given up to the DLT, or skipped.
AppliedInOrder ==
  \A r, q \in Records :
    q \in applied /\ r.part = q.part /\ r.off < q.off => r \in Passed

\* However retries, rebalances and restarts fall, every record is applied,
\* dead-lettered or skipped in the end, if no Poll fails.  (That its offset is
\* committed is not promised: a commit that fails is not repeated before the
\* next batch.)
AllRecordsDone == <>(Records \subseteq Passed)
=============================================================================

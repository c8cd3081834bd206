---------------------------- MODULE AsyncPipeline ----------------------------
(***************************************************************************)
(* The asynchronous pipeline: TaskProducerController publishes a batch of  *)
(* tasks to Kafka and answers when all of them are acknowledged; TaskWorker*)
(* consumes them, works each one and publishes a result. A bounded cache   *)
(* in each worker's memory recognises keys that it has seen.               *)
(*                                                                         *)
(* External, from how the code uses them: Kafka (a partitioned log, one    *)
(* consumer of the group per partition, committed offsets) and the Spring  *)
(* listener container in its default configuration: one listener thread    *)
(* works through the records of a poll, offsets are committed after them   *)
(* and on an orderly revocation, and a record whose listener threw is      *)
(* fetched again. That the container gives a record up after ten failed    *)
(* deliveries is beyond MaxFaults.                                         *)
(***************************************************************************)
EXTENDS Naturals, Sequences, FiniteSets

CONSTANTS
  Batches,      \* requests to the producer
  TaskCount,    \* tasks of a request
  Workers,      \* worker processes of the consumer group
  Partitions,   \* partitions of meshperf.tasks.v1
  CacheSize,    \* MAX_KEYS
  MaxPoll,      \* most records of one poll
  MaxFaults,    \* bound: sends that fail, interruptions
  MaxMoves      \* bound: rebalances, expulsions, crashes

ASSUME PipelineAssumption ==
  /\ IsFiniteSet(Workers) /\ Workers # {}
  /\ IsFiniteSet(Partitions)
  /\ TaskCount \in Nat \ {0}
  /\ CacheSize \in Nat \ {0}
  /\ MaxPoll \in Nat \ {0}
  /\ MaxFaults \in Nat
  /\ MaxMoves \in Nat

VARIABLES
  request,    \* request[b]: state and number of tasks handed to the client
  send,       \* send[k]: the producer's future for task k
  log,        \* log[p]: keys in partition p of the task topic
  committed,  \* committed[p]: committed offset of the group
  owner,      \* owner[p]: worker that partition p is assigned to
  position,   \* position[p]: offset up to which its owner has gone
  cache,      \* cache[w]: processed
  batch,      \* batch[w]: records of the last poll still to be consumed
  busy,       \* busy[w]: is the listener working on the first of them?
  member,     \* member[w]: is w still in the consumer group?
  worked,     \* worked[k]: times k was worked to its end or interrupted
  results,    \* results[k]: statuses published to meshperf.task-results.v1
  lost,       \* history: keys a result of which was never published
  evicted,    \* history: evictions from caches
  faults,     \* bound: faults so far
  moves       \* bound: partitions moved so far

producer == <<request, send>>
kafka == <<log, committed, owner, position>>
container == <<batch, busy, member>>
outcomes == <<worked, results, lost>>
worker == <<cache, evicted, container, outcomes>>
vars == <<producer, kafka, worker, faults, moves>>

-----------------------------------------------------------------------------

\* idempotencyKey: the batch id and an index.
Keys == Batches \X (1 .. TaskCount)
KeysOf(b) == {k \in Keys : k[1] = b}

InLog(k) == \E p \in Partitions : \E i \in DOMAIN log[p] : log[p][i] = k

Init ==
  /\ request = [b \in Batches |-> [state |-> "NONE", sent |-> 0]]
  /\ send = [k \in Keys |-> "NONE"]
  /\ log = [p \in Partitions |-> <<>>]
  /\ committed = [p \in Partitions |-> 0]
  /\ owner \in [Partitions -> Workers]
  /\ position = [p \in Partitions |-> 0]
  /\ cache = [w \in Workers |-> {}]
  /\ batch = [w \in Workers |-> <<>>]
  /\ busy = [w \in Workers |-> FALSE]
  /\ member = [w \in Workers |-> TRUE]
  /\ worked = [k \in Keys |-> 0]
  /\ results = [k \in Keys |-> {}]
  /\ lost = {}
  /\ evicted = 0
  /\ faults = 0
  /\ moves = 0

Fault == faults < MaxFaults /\ faults' = faults + 1
Move == moves < MaxMoves /\ moves' = moves + 1

-----------------------------------------------------------------------------
\* TaskProducerController.publish.

\* A batch over the limit of 64 MiB is answered 400 and nothing of it is sent.
Publish(b) ==
  /\ request[b].state = "NONE"
  /\ \E state \in {"SENDING", "FAILED"} : request' = [request EXCEPT ![b].state = state]
  /\ UNCHANGED <<send, kafka, worker, faults, moves>>

MutSendsOneMore(b) ==
  /\ request[b].state = "SENDING"
  /\ request[b].sent <= TaskCount
  /\ request' = [request EXCEPT ![b].sent = @ + 1]
  /\ send' = [send EXCEPT ![<<b, request[b].sent + 1>>] = "PENDING"]
  /\ UNCHANGED <<kafka, worker, faults, moves>>

\* The loop hands the tasks to the Kafka client one by one ...
Send(b) ==
  /\ request[b].state = "SENDING"
  /\ request[b].sent < TaskCount
  /\ request' = [request EXCEPT ![b].sent = @ + 1]
  /\ send' = [send EXCEPT ![<<b, request[b].sent + 1>>] = "PENDING"]
  /\ UNCHANGED <<kafka, worker, faults, moves>>

\* ... which may throw; the tasks before are on their way all the same.
SendThrows(b) ==
  /\ request[b].state = "SENDING"
  /\ request[b].sent < TaskCount
  /\ Fault
  /\ request' = [request EXCEPT ![b].state = "FAILED"]
  /\ UNCHANGED <<send, kafka, worker, moves>>

\* allOf(...).join(): 202 when every send succeeded, an error otherwise.
Join(b) ==
  /\ request[b].state = "SENDING"
  /\ request[b].sent = TaskCount
  /\ \A k \in KeysOf(b) : send[k] \in {"ACKED", "EXPIRED"}
  /\ request' = [request EXCEPT ![b].state =
                   IF \A k \in KeysOf(b) : send[k] = "ACKED"
                     THEN "ACCEPTED" ELSE "FAILED"]
  /\ UNCHANGED <<send, kafka, worker, faults, moves>>

-----------------------------------------------------------------------------
\* Kafka.

\* The key determines the partition; each key is sent once. A record may still be
\* on its way when the client has given its send up.
AppendTask(k, p) ==
  /\ send[k] \in {"PENDING", "EXPIRED"}
  /\ ~InLog(k)
  /\ log' = [log EXCEPT ![p] = Append(@, k)]
  /\ UNCHANGED <<producer, committed, owner, position, worker, faults, moves>>

Ack(k) ==
  /\ send[k] = "PENDING"
  /\ InLog(k)
  /\ send' = [send EXCEPT ![k] = "ACKED"]
  /\ UNCHANGED <<request, kafka, worker, faults, moves>>

\* The client gives a send up, whether or not the broker has the record or gets it.
Expire(k) ==
  /\ send[k] = "PENDING"
  /\ Fault
  /\ send' = [send EXCEPT ![k] = "EXPIRED"]
  /\ UNCHANGED <<request, kafka, worker, moves>>

Owned(w) == {p \in Partitions : owner[p] = w}

\* The records of a poll are consumed: their offsets are committed.
Commit(w) ==
  /\ member[w]
  /\ batch[w] = <<>>
  /\ \E p \in Owned(w) : committed[p] # position[p]
  /\ committed' = [p \in Partitions |-> IF owner[p] = w THEN position[p] ELSE committed[p]]
  /\ UNCHANGED <<producer, log, owner, position, worker, faults, moves>>

\* Then comes the next poll, with some records of a partition.
Poll(w) ==
  /\ member[w]
  /\ batch[w] = <<>>
  /\ \A p \in Owned(w) : committed[p] = position[p]
  /\ \E p \in Owned(w), n \in 1 .. MaxPoll :
       /\ position[p] + n <= Len(log[p])
       /\ batch' = [batch EXCEPT ![w] =
                      [i \in 1 .. n |-> [partition |-> p, key |-> log[p][position[p] + i]]]]
  /\ UNCHANGED <<producer, kafka, cache, evicted, busy, member, outcomes, faults, moves>>

\* A worker that was expelled learns of it when it polls, and joins again.
Rejoin(w) ==
  /\ ~member[w]
  /\ batch[w] = <<>>
  /\ member' = [member EXCEPT ![w] = TRUE]
  /\ UNCHANGED <<producer, kafka, cache, evicted, batch, busy, outcomes, faults, moves>>

\* Partitions P go to other members of the group.
Reassign(P) ==
  /\ owner' \in [Partitions -> Workers]
  /\ \A p \in Partitions : IF p \in P THEN member'[owner'[p]] ELSE owner'[p] = owner[p]

\* An orderly revocation happens in a poll and commits first.
Rebalance(p) ==
  /\ Move
  /\ batch[owner[p]] = <<>>
  /\ member' = member
  /\ Reassign({p})
  /\ owner' # owner
  /\ committed' = [committed EXCEPT ![p] = position[p]]
  /\ UNCHANGED <<producer, log, position, cache, evicted, batch, busy, outcomes, faults>>

\* The new owner starts at the committed offset.
Rewind(P) ==
  position' = [p \in Partitions |-> IF p \in P THEN committed[p] ELSE position[p]]

\* The group does not hear from w in time, say because its records take longer
\* than the interval between polls: w loses its partitions and goes on.
Expel(w) ==
  /\ member[w]
  /\ Move
  /\ member' = [member EXCEPT ![w] = FALSE]
  /\ Reassign(Owned(w))
  /\ Rewind(Owned(w))
  /\ UNCHANGED <<producer, log, committed, cache, evicted, batch, busy, outcomes, faults>>

\* The process is gone, and with it its cache; another one starts.
CrashWorker(w) ==
  /\ Move
  /\ member' = [member EXCEPT ![w] = TRUE]
  /\ Reassign(Owned(w))
  /\ Rewind(Owned(w))
  /\ cache' = [cache EXCEPT ![w] = {}]
  /\ batch' = [batch EXCEPT ![w] = <<>>]
  /\ busy' = [busy EXCEPT ![w] = FALSE]
  /\ UNCHANGED <<producer, log, committed, evicted, outcomes, faults>>

-----------------------------------------------------------------------------
\* TaskWorker.consume.

Task(w) == batch[w][1].key

\* kafka.send of a result: published, or lost without anybody noticing.
PublishResult(k, status) ==
  \/ /\ results' = [results EXCEPT ![k] = @ \cup {status}]
     /\ UNCHANGED <<lost, faults>>
  \/ /\ Fault
     /\ lost' = lost \cup {k}
     /\ UNCHANGED results

\* The listener returns: the container goes on to the next record. What an
\* expelled worker did does not count for the group.
ListenerReturns(w) ==
  /\ batch' = [batch EXCEPT ![w] = Tail(@)]
  /\ busy' = [busy EXCEPT ![w] = FALSE]
  /\ position' = IF member[w]
                   THEN [position EXCEPT ![batch[w][1].partition] = @ + 1]
                   ELSE position
  /\ UNCHANGED <<producer, log, committed, owner, member, moves>>

MutDuplicateThrows(w) ==
  /\ batch[w] # <<>> /\ ~busy[w]
  /\ Task(w) \in cache[w]
  /\ PublishResult(Task(w), "DUPLICATE")
  /\ batch' = [batch EXCEPT ![w] = <<>>]
  /\ UNCHANGED <<producer, kafka, busy, member, moves, cache, evicted, worked>>

\* A key that this process has seen is answered and not worked.
ConsumeDuplicate(w) ==
  /\ batch[w] # <<>> /\ ~busy[w]
  /\ Task(w) \in cache[w]
  /\ PublishResult(Task(w), "DUPLICATE")
  /\ ListenerReturns(w)
  /\ UNCHANGED <<cache, evicted, worked>>

MutForgets(w, k) == UNCHANGED <<cache, evicted>>

\* putIfAbsent; the cache drops some key when it is over its size.
Remember(w, k) ==
  LET keys == cache[w] \cup {k}
  IN IF Cardinality(keys) <= CacheSize
       THEN cache' = [cache EXCEPT ![w] = keys] /\ UNCHANGED evicted
       ELSE /\ \E v \in keys : cache' = [cache EXCEPT ![w] = keys \ {v}]
            /\ evicted' = evicted + 1

MutHandsOver(w) ==
  /\ batch[w] # <<>> /\ ~busy[w]
  /\ Task(w) \notin cache[w]
  /\ Remember(w, Task(w))
  /\ ListenerReturns(w)
  /\ UNCHANGED <<outcomes, faults>>

\* A new key is remembered first; then the listener sleeps, with no lock held.
ConsumeNew(w) ==
  /\ batch[w] # <<>> /\ ~busy[w]
  /\ Task(w) \notin cache[w]
  /\ Remember(w, Task(w))
  /\ busy' = [busy EXCEPT ![w] = TRUE]
  /\ UNCHANGED <<producer, kafka, batch, member, outcomes, faults, moves>>

CountWork(w) == worked' = [worked EXCEPT ![Task(w)] = @ + 1]

MutWrongStatus(w) ==
  /\ busy[w]
  /\ CountWork(w)
  /\ PublishResult(Task(w), "DUPLICATE")
  /\ ListenerReturns(w)
  /\ UNCHANGED <<cache, evicted>>

Finish(w) ==
  /\ busy[w]
  /\ CountWork(w)
  /\ PublishResult(Task(w), "COMPLETED")
  /\ ListenerReturns(w)
  /\ UNCHANGED <<cache, evicted>>

\* InterruptedException: the task is given up and the listener returns. The
\* thread is interrupted when it sends the result, which may be lost.
Interrupt(w) ==
  /\ busy[w]
  /\ Fault
  /\ CountWork(w)
  /\ \/ results' = [results EXCEPT ![Task(w)] = @ \cup {"FAILED"}] /\ UNCHANGED lost
     \/ lost' = lost \cup {Task(w)} /\ UNCHANGED results
  /\ ListenerReturns(w)
  /\ UNCHANGED <<cache, evicted>>

\* kafka.send throws at once, after a task was worked or for a duplicate: so does
\* the listener, and its record and those after it are fetched again.
ListenerThrows(w) ==
  /\ batch[w] # <<>>
  /\ Fault
  /\ IF busy[w]
       THEN CountWork(w) /\ lost' = lost \cup {Task(w)}
       ELSE Task(w) \in cache[w] /\ UNCHANGED <<worked, lost>>
  /\ batch' = [batch EXCEPT ![w] = <<>>]
  /\ busy' = [busy EXCEPT ![w] = FALSE]
  /\ UNCHANGED <<producer, kafka, cache, evicted, member, results, moves>>

-----------------------------------------------------------------------------

ProducerStep(b) == Publish(b) \/ Send(b) \/ Join(b)
BrokerStep(k) == (\E p \in Partitions : AppendTask(k, p)) \/ Ack(k)
WorkerStep(w) ==
  \/ Commit(w) \/ Poll(w) \/ Rejoin(w)
  \/ ConsumeDuplicate(w) \/ ConsumeNew(w) \/ Finish(w)

Failures ==
  \/ \E b \in Batches : SendThrows(b)
  \/ \E k \in Keys : Expire(k)
  \/ \E p \in Partitions : Rebalance(p)
  \/ \E w \in Workers : Expel(w) \/ CrashWorker(w) \/ Interrupt(w) \/ ListenerThrows(w)

Next ==
  \/ \E b \in Batches : ProducerStep(b)
  \/ \E k \in Keys : BrokerStep(k)
  \/ \E w \in Workers : WorkerStep(w)
  \/ Failures

Spec == Init /\ [][Next]_vars

(***************************************************************************)
(* The broker answers and the workers run: a record that was sent is       *)
(* appended and acknowledged or given up, a worker consumes what it owns   *)
(* and finishes what it works on, and offsets are committed. Failures and  *)
(* rebalances are never promised, and neither is what was given up.        *)
(***************************************************************************)
FairSpec ==
  /\ Spec
  /\ \A k \in Keys : WF_vars(send[k] = "PENDING" /\ BrokerStep(k))
  /\ \A w \in Workers : WF_vars(WorkerStep(w))

-----------------------------------------------------------------------------
\* Properties.

\* The shape of the state; offsets are in order, and a worker that was not
\* expelled holds the next records of a partition that it owns.
TypeOK ==
  /\ request \in [Batches -> [state : {"NONE", "SENDING", "ACCEPTED", "FAILED"},
                              sent : 0 .. TaskCount]]
  /\ send \in [Keys -> {"NONE", "PENDING", "ACKED", "EXPIRED"}]
  /\ log \in [Partitions -> Seq(Keys)]
  /\ committed \in [Partitions -> Nat]
  /\ owner \in [Partitions -> Workers]
  /\ position \in [Partitions -> Nat]
  /\ cache \in [Workers -> SUBSET Keys]
  /\ batch \in [Workers -> Seq([partition : Partitions, key : Keys])]
  /\ busy \in [Workers -> BOOLEAN]
  /\ member \in [Workers -> BOOLEAN]
  /\ \A w \in Workers :
       /\ busy[w] => batch[w] # <<>>
       /\ member[w] =>
            \A i \in DOMAIN batch[w] :
              LET p == batch[w][i].partition
              IN owner[p] = w /\ batch[w][i].key = log[p][position[p] + i]
  /\ worked \in [Keys -> Nat]
  /\ results \in [Keys -> SUBSET {"COMPLETED", "FAILED", "DUPLICATE"}]
  /\ lost \subseteq Keys
  /\ evicted \in Nat /\ faults \in Nat /\ moves \in Nat
  /\ \A p \in Partitions : committed[p] <= position[p] /\ position[p] <= Len(log[p])

\* Tasks the group will not see again.
Acknowledged == UNION {{log[p][i] : i \in 1 .. committed[p]} : p \in Partitions}

\* No acknowledged task is without an outcome, although a task is remembered as
\* processed before it is worked: a result other than DUPLICATE was published
\* for it, unless just that result was lost on its way; and whoever reads
\* DUPLICATE may rely on it that the task was worked, and is not being worked.
AcknowledgedHasOutcome ==
  /\ \A k \in Acknowledged : results[k] \cap {"COMPLETED", "FAILED"} # {} \/ k \in lost
  /\ \A k \in Keys : "DUPLICATE" \in results[k] => worked[k] > 0

\* The cache does its work: redelivery alone does not repeat work. How often a task
\* is worked again is bounded by how often partitions moved to another worker, which
\* cannot know the key, and keys were evicted, all of them together (TaskWorker.java:37).
ReworkIsExplained == \A k \in Keys : worked[k] <= 1 + moves + evicted

\* The pipeline implements AtLeastOnceQueue.
Published == {k \in Keys : InLog(k)}
WorkedKeys == {k \in Keys : worked[k] > 0}

Queue ==
  INSTANCE AtLeastOnceQueue WITH
    published <- Published, worked <- WorkedKeys, acknowledged <- Acknowledged

ImplementsQueue == Queue!Spec

\* Whatever fails, moves or is delivered again on the way, every published task is
\* consumed and acknowledged in the end: the backlog drains.
BacklogDrains == <>[](\A p \in Partitions : committed[p] = Len(log[p]))

=============================================================================

--------------------------- MODULE AsyncPipeline_proofs ---------------------------
(***************************************************************************)
(* Proofs about AsyncPipeline: the type of the state, that no acknowledged *)
(* task is without an outcome, what a repetition of work is due to, and    *)
(* that the pipeline implements AtLeastOnceQueue.                          *)
(*                                                                         *)
(* The inductive invariant says where the records of a worker come from,   *)
(* that a key in a cache is worked or being worked by that worker, and     *)
(* that every record before the position of its partition is done. A       *)
(* second one counts, for each task, the places from which it can still be *)
(* worked again against the moves and evictions.                           *)
(***************************************************************************)
EXTENDS AsyncPipeline, FiniteSetTheorems, SequenceTheorems, TLAPS

-----------------------------------------------------------------------------
\* The inductive invariant.

\* Partitions belong to members of the group.
OwnersAreMembers == \A p \in Partitions : member[owner[p]]

\* Each key has one place in the log.
OnePlace ==
  \A p, q \in Partitions :
    \A i \in DOMAIN log[p], j \in DOMAIN log[q] : log[p][i] = log[q][j] => p = q /\ i = j

\* A worker holds records of one partition; a member those after its position.
Held(w) ==
  \A i \in DOMAIN batch[w] :
    LET p == batch[w][1].partition
    IN /\ batch[w][i].partition = p
       /\ \E j \in DOMAIN log[p] : log[p][j] = batch[w][i].key
       /\ member[w] => /\ owner[p] = w
                       /\ position[p] + i \in DOMAIN log[p]
                       /\ batch[w][i].key = log[p][position[p] + i]

HoldsRecords == \A w \in Workers : Held(w)

\* A task is done when it was worked and its outcome published, or lost.
Done(k) == worked[k] > 0 /\ (results[k] \cap {"COMPLETED", "FAILED"} # {} \/ k \in lost)

CacheKnows ==
  \A w \in Workers : \A k \in cache[w] : Done(k) \/ (busy[w] /\ Task(w) = k)

PositionIsDone == \A p \in Partitions : \A i \in 1 .. position[p] : Done(log[p][i])

DuplicateMeansWorked == \A k \in Keys : "DUPLICATE" \in results[k] => worked[k] > 0

Record == [partition : Partitions, key : Keys]

ProducerType ==
  /\ request \in [Batches -> [state : {"NONE", "SENDING", "ACCEPTED", "FAILED"},
                              sent : 0 .. TaskCount]]
  /\ send \in [Keys -> {"NONE", "PENDING", "ACKED", "EXPIRED"}]

KafkaType ==
  /\ log \in [Partitions -> Seq(Keys)]
  /\ committed \in [Partitions -> Nat]
  /\ owner \in [Partitions -> Workers]
  /\ position \in [Partitions -> Nat]
  /\ \A p \in Partitions : committed[p] <= position[p] /\ position[p] <= Len(log[p])

ContainerType ==
  /\ batch \in [Workers -> Seq(Record)]
  /\ busy \in [Workers -> BOOLEAN]
  /\ member \in [Workers -> BOOLEAN]
  /\ \A w \in Workers : busy[w] => batch[w] # <<>>

OutcomeType ==
  /\ cache \in [Workers -> SUBSET Keys]
  /\ worked \in [Keys -> Nat]
  /\ results \in [Keys -> SUBSET {"COMPLETED", "FAILED", "DUPLICATE"}]
  /\ lost \subseteq Keys
  /\ evicted \in Nat /\ faults \in Nat /\ moves \in Nat

Shape ==
  /\ ProducerType
  /\ KafkaType
  /\ ContainerType
  /\ OutcomeType
  /\ OwnersAreMembers
  /\ OnePlace
  /\ HoldsRecords

IInv ==
  /\ Shape
  /\ CacheKnows
  /\ PositionIsDone
  /\ DuplicateMeansWorked

\* Why task k may still be worked once more than it was: a worker is at it, an
\* expelled worker still has it before it and does not know it, or it is yet to
\* come to a partition, or lies in one whose owner does not know it.
WorkingOn(k) == {w \in Workers : busy[w] /\ Task(w) = k}

Has(w, k) == \E i \in DOMAIN batch[w] : batch[w][i].key = k
Strays(k) == {w \in Workers : ~member[w] /\ k \notin cache[w] /\ Has(w, k)}

LiesIn(p, k) == \E i \in DOMAIN log[p] : log[p][i] = k
Unknown(k) == ~InLog(k) \/ \E p \in Partitions : LiesIn(p, k) /\ k \notin cache[owner[p]]

Owes(k) ==
  worked[k] + Cardinality(WorkingOn(k)) + Cardinality(Strays(k)) + (IF Unknown(k) THEN 1 ELSE 0)

DebtIsPaid == \A k \in Keys : Owes(k) <= 1 + moves + evicted

-----------------------------------------------------------------------------

-----------------------------------------------------------------------------
\* What the shape says.

LEMMA TypeOfShape == Shape => TypeOK
<1> SUFFICES ASSUME Shape
             PROVE  TypeOK
  OBVIOUS
<1>1. ASSUME NEW w \in Workers, member[w], NEW i \in DOMAIN batch[w]
      PROVE  LET p == batch[w][i].partition
             IN owner[p] = w /\ batch[w][i].key = log[p][position[p] + i]
  BY <1>1 DEF Shape, HoldsRecords, Held
<1> QED BY <1>1 DEF Shape, ProducerType, KafkaType, ContainerType, OutcomeType, TypeOK, Record

LEMMA LogOf ==
  ASSUME Shape, NEW p \in Partitions
  PROVE  /\ log[p] \in Seq(Keys) /\ Len(log[p]) \in Nat /\ DOMAIN log[p] = 1 .. Len(log[p])
         /\ position[p] \in Nat /\ committed[p] \in Nat /\ owner[p] \in Workers
         /\ committed[p] <= position[p] /\ position[p] <= Len(log[p])
         /\ \A i \in DOMAIN log[p] : log[p][i] \in Keys
<1>1. /\ log[p] \in Seq(Keys) /\ position[p] \in Nat /\ committed[p] \in Nat
      /\ owner[p] \in Workers /\ committed[p] <= position[p] /\ position[p] <= Len(log[p])
  BY DEF Shape, KafkaType
<1> QED BY <1>1, LenProperties, ElementOfSeq

LEMMA BatchOf ==
  ASSUME Shape, NEW w \in Workers
  PROVE  /\ batch[w] \in Seq(Record) /\ Len(batch[w]) \in Nat
         /\ DOMAIN batch[w] = 1 .. Len(batch[w])
         /\ \A i \in DOMAIN batch[w] : /\ batch[w][i] \in Record
                                       /\ batch[w][i].partition \in Partitions
                                       /\ batch[w][i].key \in Keys
         /\ batch[w] # <<>> <=> 1 \in DOMAIN batch[w]
         /\ Held(w)
<1>1. batch[w] \in Seq(Record) /\ Held(w)
  BY DEF Shape, ContainerType, HoldsRecords
<1>2. Len(batch[w]) \in Nat /\ DOMAIN batch[w] = 1 .. Len(batch[w])
  BY <1>1, LenProperties
<1>3. \A i \in DOMAIN batch[w] : batch[w][i] \in Record
  BY <1>1, <1>2, ElementOfSeq
<1>4. batch[w] # <<>> <=> 1 \in DOMAIN batch[w]
  BY <1>1, <1>2, EmptySeq
<1> QED BY <1>1, <1>2, <1>3, <1>4 DEF Record

\* The record at the head of a batch.
LEMMA HeadOf ==
  ASSUME Shape, NEW w \in Workers, batch[w] # <<>>
  PROVE  LET p == batch[w][1].partition
         IN /\ p \in Partitions /\ Task(w) \in Keys
            /\ \E j \in DOMAIN log[p] : log[p][j] = Task(w)
            /\ member[w] => /\ owner[p] = w /\ position[p] + 1 <= Len(log[p])
                            /\ log[p][position[p] + 1] = Task(w)
<1>1. 1 \in DOMAIN batch[w] /\ Held(w) /\ batch[w][1].partition \in Partitions
      /\ batch[w][1].key \in Keys
  BY BatchOf
<1>2. LET p == batch[w][1].partition
      IN /\ \E j \in DOMAIN log[p] : log[p][j] = Task(w)
         /\ member[w] => /\ owner[p] = w /\ position[p] + 1 \in DOMAIN log[p]
                         /\ log[p][position[p] + 1] = Task(w)
  BY <1>1 DEF Held, Task
<1> QED BY <1>1, <1>2, LogOf DEF Task

\* A batch that a step leaves alone stays what it is, if the step leaves its
\* partition with its owner and at its position, or expels the owner.
LEMMA HeldKept ==
  ASSUME Shape, NEW w \in Workers, batch'[w] = batch[w],
         \A p \in Partitions : \A j \in DOMAIN log[p] :
           j \in DOMAIN log'[p] /\ log'[p][j] = log[p][j],
         member'[w] => member[w],
         member'[w] => \A p \in Partitions :
           owner[p] = w /\ batch[w] # <<>> /\ p = batch[w][1].partition =>
             owner'[p] = w /\ position'[p] = position[p]
  PROVE  Held(w)'
<1> SUFFICES ASSUME NEW i \in DOMAIN batch[w]
             PROVE  LET p == batch[w][1].partition
                    IN /\ batch[w][i].partition = p
                       /\ \E j \in DOMAIN log'[p] : log'[p][j] = batch[w][i].key
                       /\ member'[w] => /\ owner'[p] = w
                                        /\ position'[p] + i \in DOMAIN log'[p]
                                        /\ batch[w][i].key = log'[p][position'[p] + i]
  BY DEF Held
<1> DEFINE p == batch[w][1].partition
<1>1. p \in Partitions /\ batch[w] # <<>>
  BY BatchOf, HeadOf
<1>2. /\ batch[w][i].partition = p
      /\ \E j \in DOMAIN log[p] : log[p][j] = batch[w][i].key
      /\ member[w] => /\ owner[p] = w
                      /\ position[p] + i \in DOMAIN log[p]
                      /\ batch[w][i].key = log[p][position[p] + i]
  BY BatchOf DEF Held
<1> QED BY <1>1, <1>2

\* An empty batch holds nothing.
LEMMA HeldEmpty ==
  ASSUME NEW w, batch'[w] = <<>>
  PROVE  Held(w)'
BY DEF Held

-----------------------------------------------------------------------------
\* Each action keeps the shape.

LEMMA CountersKept ==
  ASSUME Shape
  PROVE  /\ Fault => faults' \in Nat
         /\ Move => moves' \in Nat
         /\ faults \in Nat /\ moves \in Nat
BY DEF Shape, OutcomeType, Fault, Move

\* The producer's side of the pipeline is apart from the workers'.
LEMMA ProducerShape ==
  ASSUME Shape, ProducerType', UNCHANGED <<kafka, worker, moves>>,
         faults' \in Nat
  PROVE  Shape'
<1>1. UNCHANGED <<log, committed, owner, position, batch, busy, member, cache, evicted, worked,
                  results, lost, moves>>
  BY DEF kafka, worker, container, outcomes
<1>2. HoldsRecords'
  BY <1>1 DEF Shape, HoldsRecords, Held
<1> QED BY <1>1, <1>2
           DEF Shape, KafkaType, ContainerType, OutcomeType, OwnersAreMembers, OnePlace

LEMMA RequestShape ==
  ASSUME Shape,
         \/ \E b \in Batches : Publish(b) \/ Send(b) \/ SendThrows(b) \/ Join(b)
         \/ \E k \in Keys : Ack(k) \/ Expire(k)
  PROVE  Shape'
<1>1. /\ request \in [Batches -> [state : {"NONE", "SENDING", "ACCEPTED", "FAILED"},
                                  sent : 0 .. TaskCount]]
      /\ send \in [Keys -> {"NONE", "PENDING", "ACKED", "EXPIRED"}]
      /\ faults \in Nat /\ (Fault => faults' \in Nat)
  BY CountersKept DEF Shape, ProducerType
<1>2. ASSUME NEW b \in Batches, NEW s \in {"NONE", "SENDING", "ACCEPTED", "FAILED"},
             request' = [request EXCEPT ![b].state = s]
      PROVE  request' \in [Batches -> [state : {"NONE", "SENDING", "ACCEPTED", "FAILED"},
                                       sent : 0 .. TaskCount]]
  BY <1>1, <1>2
<1>3. ASSUME NEW b \in Batches, Publish(b)
      PROVE  Shape'
  BY <1>1, <1>2, <1>3, ProducerShape DEF Publish, ProducerType
<1>4. ASSUME NEW b \in Batches, Send(b)
      PROVE  Shape'
  <2>1. request[b].sent + 1 \in 0 .. TaskCount
    BY <1>1, <1>4, PipelineAssumption DEF Send
  <2>2. request' \in [Batches -> [state : {"NONE", "SENDING", "ACCEPTED", "FAILED"},
                                  sent : 0 .. TaskCount]]
    BY <1>1, <1>4, <2>1 DEF Send
  <2>3. send' \in [Keys -> {"NONE", "PENDING", "ACKED", "EXPIRED"}]
    BY <1>1, <1>4 DEF Send
  <2> QED BY <1>1, <1>4, <2>2, <2>3, ProducerShape DEF Send, ProducerType
<1>5. ASSUME NEW b \in Batches, SendThrows(b)
      PROVE  Shape'
  BY <1>1, <1>2, <1>5, ProducerShape DEF SendThrows, ProducerType
<1>6. ASSUME NEW b \in Batches, Join(b)
      PROVE  Shape'
  <2> DEFINE s == IF \A k \in KeysOf(b) : send[k] = "ACKED" THEN "ACCEPTED" ELSE "FAILED"
  <2>1. s \in {"NONE", "SENDING", "ACCEPTED", "FAILED"}
    OBVIOUS
  <2>2. request' = [request EXCEPT ![b].state = s]
    BY <1>6 DEF Join
  <2> HIDE DEF s
  <2>3. request' \in [Batches -> [state : {"NONE", "SENDING", "ACCEPTED", "FAILED"},
                                  sent : 0 .. TaskCount]]
    BY <1>2, <2>1, <2>2
  <2> QED BY <1>1, <1>6, <2>3, ProducerShape DEF Join, ProducerType
<1>7. ASSUME NEW k \in Keys, Ack(k) \/ Expire(k)
      PROVE  Shape'
  BY <1>1, <1>7, ProducerShape DEF Ack, Expire, ProducerType
<1> QED BY <1>3, <1>4, <1>5, <1>6, <1>7

\* The broker appends a key that has no place yet.
LEMMA AppendShape ==
  ASSUME Shape, NEW k \in Keys, NEW p \in Partitions, AppendTask(k, p)
  PROVE  Shape'
<1>1. /\ log' = [log EXCEPT ![p] = Append(@, k)] /\ ~InLog(k)
      /\ UNCHANGED <<producer, committed, owner, position, batch, busy, member, cache, evicted,
                     worked, results, lost, faults, moves>>
  BY DEF AppendTask, worker, container, outcomes
<1>2. \A q \in Partitions : log'[q] = IF q = p THEN Append(log[q], k) ELSE log[q]
  BY <1>1 DEF Shape, KafkaType
<1>3. /\ log'[p] \in Seq(Keys) /\ Len(log'[p]) = Len(log[p]) + 1
      /\ \A i \in 1 .. Len(log[p]) : log'[p][i] = log[p][i]
      /\ log'[p][Len(log[p]) + 1] = k
      /\ DOMAIN log'[p] = 1 .. Len(log[p]) + 1
  <2>1. log[p] \in Seq(Keys) /\ log'[p] = Append(log[p], k)
    BY <1>2, LogOf
  <2>2. /\ log'[p] \in Seq(Keys) /\ Len(log'[p]) = Len(log[p]) + 1
        /\ \A i \in 1 .. Len(log[p]) : log'[p][i] = log[p][i]
        /\ log'[p][Len(log[p]) + 1] = k
    BY <2>1, AppendProperties
  <2> QED BY <2>2, LenProperties
<1>4. \A q \in Partitions : \A j \in DOMAIN log[q] :
        j \in DOMAIN log'[q] /\ log'[q][j] = log[q][j]
  BY <1>2, <1>3, LogOf
<1>5. KafkaType'
  <2>1. \A q \in Partitions : log'[q] \in Seq(Keys) /\ Len(log[q]) <= Len(log'[q])
                              /\ Len(log'[q]) \in Nat
    BY <1>2, <1>3, LogOf
  <2>2. log' \in [Partitions -> Seq(Keys)]
    BY <1>1, <2>1 DEF Shape, KafkaType
  <2>3. \A q \in Partitions : committed[q] <= position[q] /\ position[q] <= Len(log'[q])
    BY <2>1, LogOf
  <2> QED BY <1>1, <2>2, <2>3 DEF Shape, KafkaType
<1>6. OnePlace'
  <2>1. ASSUME NEW q \in Partitions, NEW r \in Partitions, NEW i \in DOMAIN log'[q],
               NEW j \in DOMAIN log'[r], log'[q][i] = log'[r][j]
        PROVE  q = r /\ i = j
    <3>1. \A s \in Partitions : \A m \in DOMAIN log'[s] :
            \/ m \in DOMAIN log[s] /\ log'[s][m] = log[s][m] /\ log[s][m] # k
            \/ s = p /\ m = Len(log[p]) + 1 /\ log'[s][m] = k
      BY <1>1, <1>2, <1>3, LogOf DEF InLog
    <3> QED BY <2>1, <3>1 DEF Shape, OnePlace
  <2> QED BY <2>1 DEF OnePlace
<1>7. HoldsRecords'
  BY <1>1, <1>4, HeldKept DEF HoldsRecords
<1> QED BY <1>1, <1>5, <1>6, <1>7 DEF Shape, ProducerType, ContainerType, OutcomeType,
                                      OwnersAreMembers, producer

LEMMA CommitShape ==
  ASSUME Shape, NEW w \in Workers, Commit(w)
  PROVE  Shape'
<1>1. /\ committed' = [p \in Partitions |-> IF owner[p] = w THEN position[p] ELSE committed[p]]
      /\ UNCHANGED <<producer, log, owner, position, batch, busy, member, cache, evicted,
                     worked, results, lost, faults, moves>>
  BY DEF Commit, worker, container, outcomes
<1>2. KafkaType'
  BY <1>1, LogOf DEF Shape, KafkaType
<1>3. HoldsRecords'
  BY <1>1 DEF Shape, HoldsRecords, Held
<1> QED BY <1>1, <1>2, <1>3 DEF Shape, ProducerType, ContainerType, OutcomeType,
                                OwnersAreMembers, OnePlace, producer

LEMMA PollShape ==
  ASSUME Shape, NEW w \in Workers, Poll(w)
  PROVE  Shape'
<1>1. /\ member[w] /\ batch[w] = <<>>
      /\ UNCHANGED <<producer, log, committed, owner, position, busy, member, cache, evicted,
                     worked, results, lost, faults, moves>>
  BY DEF Poll, kafka, outcomes
<1>2. PICK p \in Owned(w), n \in 1 .. MaxPoll :
        /\ position[p] + n <= Len(log[p])
        /\ batch' = [batch EXCEPT ![w] =
                       [i \in 1 .. n |-> [partition |-> p, key |-> log[p][position[p] + i]]]]
  BY DEF Poll
<1>3. p \in Partitions /\ owner[p] = w /\ n \in Nat \ {0}
  BY <1>2, PipelineAssumption DEF Owned
<1> DEFINE new == [i \in 1 .. n |-> [partition |-> p, key |-> log[p][position[p] + i]]]
<1>4. \A i \in 1 .. n : position[p] + i \in DOMAIN log[p] /\ new[i] \in Record
                        /\ new[i].partition = p /\ new[i].key = log[p][position[p] + i]
  BY <1>2, <1>3, LogOf DEF Record
<1>5. new \in Seq(Record) /\ DOMAIN new = 1 .. n
  BY <1>3, <1>4
<1>6. batch' = [batch EXCEPT ![w] = new]
  BY <1>2
<1> HIDE DEF new
<1>7. /\ batch'[w] = new /\ \A v \in Workers \ {w} : batch'[v] = batch[v]
      /\ batch' \in [Workers -> Seq(Record)] /\ new # <<>>
  BY <1>3, <1>5, <1>6 DEF Shape, ContainerType
<1>8. Held(w)'
  BY <1>1, <1>3, <1>4, <1>5, <1>7 DEF Held
<1>9. ASSUME NEW v \in Workers \ {w}
      PROVE  Held(v)'
  BY <1>1, <1>7, HeldKept
<1>10. HoldsRecords'
  BY <1>8, <1>9 DEF HoldsRecords
<1>11. ContainerType'
  BY <1>1, <1>7 DEF Shape, ContainerType
<1> QED BY <1>1, <1>10, <1>11 DEF Shape, ProducerType, KafkaType, OutcomeType,
                                  OwnersAreMembers, OnePlace, producer

LEMMA RejoinShape ==
  ASSUME Shape, NEW w \in Workers, Rejoin(w)
  PROVE  Shape'
<1>1. /\ batch[w] = <<>> /\ member' = [member EXCEPT ![w] = TRUE]
      /\ UNCHANGED <<producer, log, committed, owner, position, batch, busy, cache, evicted,
                     worked, results, lost, faults, moves>>
  BY DEF Rejoin, kafka, outcomes
<1>2. Held(w)'
  BY <1>1, HeldEmpty
<1>3. ASSUME NEW v \in Workers \ {w}
      PROVE  Held(v)'
  BY <1>1, HeldKept DEF Shape, ContainerType
<1>4. HoldsRecords'
  BY <1>2, <1>3 DEF HoldsRecords
<1>5. ContainerType' /\ OwnersAreMembers'
  BY <1>1 DEF Shape, ContainerType, OwnersAreMembers, KafkaType
<1> QED BY <1>1, <1>4, <1>5
           DEF Shape, ProducerType, KafkaType, OutcomeType, OnePlace, producer

LEMMA RebalanceShape ==
  ASSUME Shape, NEW p \in Partitions, Rebalance(p)
  PROVE  Shape'
<1>1. /\ batch[owner[p]] = <<>>
      /\ committed' = [committed EXCEPT ![p] = position[p]]
      /\ UNCHANGED <<producer, log, position, batch, busy, member, cache, evicted,
                     worked, results, lost, faults>>
      /\ moves' \in Nat
  BY CountersKept DEF Rebalance, outcomes
<1>2. /\ owner' \in [Partitions -> Workers] /\ member[owner'[p]]
      /\ \A q \in Partitions \ {p} : owner'[q] = owner[q]
  BY <1>1 DEF Rebalance, Reassign
<1>3. ASSUME NEW v \in Workers
      PROVE  Held(v)'
  <2>1. \A q \in Partitions :
          owner[q] = v /\ batch[v] # <<>> /\ q = batch[v][1].partition =>
            owner'[q] = v /\ position'[q] = position[q]
    BY <1>1, <1>2
  <2> QED BY <1>1, <2>1, HeldKept
<1>4. HoldsRecords'
  BY <1>3 DEF HoldsRecords
<1>5. KafkaType' /\ OwnersAreMembers'
  <2>1. \A q \in Partitions : committed'[q] \in Nat /\ committed'[q] <= position[q]
    BY <1>1, LogOf DEF Shape, KafkaType
  <2> QED BY <1>1, <1>2, <2>1 DEF Shape, KafkaType, OwnersAreMembers
<1>6. OutcomeType'
  BY <1>1 DEF Shape, OutcomeType
<1> QED BY <1>1, <1>4, <1>5, <1>6 DEF Shape, ProducerType, ContainerType, OnePlace, producer

\* The partitions of w go elsewhere, and their new owners start at what is
\* committed.
LEMMA MovedAway ==
  ASSUME Shape, NEW w \in Workers, Reassign(Owned(w)), Rewind(Owned(w)),
         member' \in [Workers -> BOOLEAN], \A v \in Workers \ {w} : member'[v] = member[v],
         UNCHANGED <<log, committed>>
  PROVE  /\ KafkaType' /\ OwnersAreMembers'
         /\ \A q \in Partitions : owner[q] # w => owner'[q] = owner[q] /\ position'[q] = position[q]
<1>1. /\ owner' \in [Partitions -> Workers]
      /\ \A p \in Partitions : IF owner[p] = w THEN member'[owner'[p]] ELSE owner'[p] = owner[p]
  BY DEF Reassign, Owned
<1>2. position' = [p \in Partitions |-> IF owner[p] = w THEN committed[p] ELSE position[p]]
  BY DEF Rewind, Owned
<1>3. KafkaType'
  BY <1>1, <1>2, LogOf DEF Shape, KafkaType
<1>4. OwnersAreMembers'
  BY <1>1 DEF Shape, OwnersAreMembers, KafkaType
<1> QED BY <1>1, <1>2, <1>3, <1>4

LEMMA ExpelShape ==
  ASSUME Shape, NEW w \in Workers, Expel(w)
  PROVE  Shape'
<1>1. /\ member' = [member EXCEPT ![w] = FALSE]
      /\ UNCHANGED <<producer, log, committed, batch, busy, cache, evicted,
                     worked, results, lost, faults>>
      /\ moves' \in Nat /\ Reassign(Owned(w)) /\ Rewind(Owned(w))
  BY CountersKept DEF Expel, outcomes
<1>2. /\ member' \in [Workers -> BOOLEAN] /\ ~member'[w]
      /\ \A v \in Workers \ {w} : member'[v] = member[v]
  BY <1>1 DEF Shape, ContainerType
<1>3. /\ KafkaType' /\ OwnersAreMembers'
      /\ \A q \in Partitions : owner[q] # w => owner'[q] = owner[q] /\ position'[q] = position[q]
  BY <1>1, <1>2, MovedAway
<1>4. ASSUME NEW v \in Workers
      PROVE  Held(v)'
  BY <1>1, <1>2, <1>3, HeldKept
<1>5. HoldsRecords'
  BY <1>4 DEF HoldsRecords
<1>6. OutcomeType' /\ ContainerType'
  BY <1>1, <1>2 DEF Shape, OutcomeType, ContainerType
<1> QED BY <1>1, <1>3, <1>5, <1>6 DEF Shape, ProducerType, OnePlace, producer

LEMMA CrashShape ==
  ASSUME Shape, NEW w \in Workers, CrashWorker(w)
  PROVE  Shape'
<1>1. /\ member' = [member EXCEPT ![w] = TRUE]
      /\ cache' = [cache EXCEPT ![w] = {}]
      /\ batch' = [batch EXCEPT ![w] = <<>>]
      /\ busy' = [busy EXCEPT ![w] = FALSE]
      /\ UNCHANGED <<producer, log, committed, evicted, worked, results, lost, faults>>
      /\ moves' \in Nat /\ Reassign(Owned(w)) /\ Rewind(Owned(w))
  BY CountersKept DEF CrashWorker, outcomes
<1>2. /\ member' \in [Workers -> BOOLEAN] /\ batch'[w] = <<>>
      /\ \A v \in Workers \ {w} : member'[v] = member[v] /\ batch'[v] = batch[v]
  BY <1>1 DEF Shape, ContainerType
<1>3. /\ KafkaType' /\ OwnersAreMembers'
      /\ \A q \in Partitions : owner[q] # w => owner'[q] = owner[q] /\ position'[q] = position[q]
  BY <1>1, <1>2, MovedAway
<1>4. ASSUME NEW v \in Workers \ {w}
      PROVE  Held(v)'
  BY <1>1, <1>2, <1>3, HeldKept
<1>5. HoldsRecords'
  BY <1>2, <1>4, HeldEmpty DEF HoldsRecords
<1>6. ContainerType'
  <2>1. <<>> \in Seq(Record)
    BY EmptySeq
  <2> QED BY <1>1, <2>1 DEF Shape, ContainerType
<1>7. OutcomeType'
  BY <1>1 DEF Shape, OutcomeType
<1> QED BY <1>1, <1>3, <1>5, <1>6, <1>7 DEF Shape, ProducerType, OnePlace, producer

\* What the listener makes of the outcomes.
LEMMA OutcomesTyped ==
  ASSUME Shape, NEW k \in Keys, NEW s \in {"COMPLETED", "FAILED", "DUPLICATE"}
  PROVE  /\ worked' = [worked EXCEPT ![k] = @ + 1] => worked' \in [Keys -> Nat]
         /\ results' = [results EXCEPT ![k] = @ \cup {s}] =>
              results' \in [Keys -> SUBSET {"COMPLETED", "FAILED", "DUPLICATE"}]
         /\ PublishResult(k, s) =>
              /\ results' \in [Keys -> SUBSET {"COMPLETED", "FAILED", "DUPLICATE"}]
              /\ lost' \subseteq Keys /\ faults' \in Nat
<1>1. /\ worked \in [Keys -> Nat]
      /\ results \in [Keys -> SUBSET {"COMPLETED", "FAILED", "DUPLICATE"}]
      /\ lost \subseteq Keys /\ faults \in Nat
  BY DEF Shape, OutcomeType
<1>2. worked' = [worked EXCEPT ![k] = @ + 1] => worked' \in [Keys -> Nat]
  BY <1>1
<1>3. results' = [results EXCEPT ![k] = @ \cup {s}] =>
        results' \in [Keys -> SUBSET {"COMPLETED", "FAILED", "DUPLICATE"}]
  BY <1>1
<1>4. PublishResult(k, s) =>
        /\ results' \in [Keys -> SUBSET {"COMPLETED", "FAILED", "DUPLICATE"}]
        /\ lost' \subseteq Keys /\ faults' \in Nat
  BY <1>1, <1>3, CountersKept DEF PublishResult
<1> QED BY <1>2, <1>3, <1>4

\* The listener goes on to the next record.
LEMMA ReturnEffect ==
  ASSUME Shape, NEW w \in Workers, batch[w] # <<>>, ListenerReturns(w)
  PROVE  LET p == batch[w][1].partition
         IN /\ \A v \in Workers \ {w} : batch'[v] = batch[v] /\ busy'[v] = busy[v]
            /\ ~busy'[w]
            /\ batch'[w] \in Seq(Record) /\ Len(batch'[w]) = Len(batch[w]) - 1
            /\ DOMAIN batch'[w] = 1 .. Len(batch[w]) - 1
            /\ \A i \in DOMAIN batch'[w] : i + 1 \in DOMAIN batch[w] /\ batch'[w][i] = batch[w][i + 1]
            /\ \A q \in Partitions :
                 position'[q] = IF member[w] /\ q = p THEN position[q] + 1 ELSE position[q]
<1>1. batch' = [batch EXCEPT ![w] = Tail(@)] /\ busy' = [busy EXCEPT ![w] = FALSE]
  BY DEF ListenerReturns
<1>2. /\ \A v \in Workers \ {w} : batch'[v] = batch[v] /\ busy'[v] = busy[v]
      /\ ~busy'[w] /\ batch'[w] = Tail(batch[w])
  BY <1>1 DEF Shape, ContainerType
<1>3. batch[w] \in Seq(Record) /\ Len(batch[w]) \in Nat /\ DOMAIN batch[w] = 1 .. Len(batch[w])
  BY BatchOf
<1>4. /\ Tail(batch[w]) \in Seq(Record) /\ Len(Tail(batch[w])) = Len(batch[w]) - 1
      /\ \A i \in 1 .. Len(Tail(batch[w])) : Tail(batch[w])[i] = batch[w][i + 1]
  BY <1>3, HeadTailProperties
<1>5. DOMAIN Tail(batch[w]) = 1 .. Len(batch[w]) - 1
  BY <1>4, LenProperties
<1>6. \A q \in Partitions :
        position'[q] = IF member[w] /\ q = batch[w][1].partition THEN position[q] + 1
                       ELSE position[q]
  BY HeadOf DEF ListenerReturns, Shape, KafkaType
<1> QED BY <1>2, <1>3, <1>4, <1>5, <1>6

LEMMA ReturnShape ==
  ASSUME Shape, NEW w \in Workers, batch[w] # <<>>, ListenerReturns(w), OutcomeType'
  PROVE  Shape'
<1> DEFINE p == batch[w][1].partition
<1>1. /\ UNCHANGED <<producer, log, committed, owner, member, moves>>
      /\ batch' = [batch EXCEPT ![w] = Tail(@)] /\ busy' = [busy EXCEPT ![w] = FALSE]
      /\ position' = IF member[w] THEN [position EXCEPT ![p] = @ + 1] ELSE position
  BY DEF ListenerReturns
<1>2. /\ \A v \in Workers \ {w} : batch'[v] = batch[v] /\ busy'[v] = busy[v]
      /\ ~busy'[w]
      /\ batch'[w] \in Seq(Record) /\ Len(batch'[w]) = Len(batch[w]) - 1
      /\ DOMAIN batch'[w] = 1 .. Len(batch[w]) - 1
      /\ \A i \in DOMAIN batch'[w] : i + 1 \in DOMAIN batch[w] /\ batch'[w][i] = batch[w][i + 1]
      /\ \A q \in Partitions :
           position'[q] = IF member[w] /\ q = p THEN position[q] + 1 ELSE position[q]
  BY ReturnEffect
<1>3. /\ p \in Partitions
      /\ member[w] => owner[p] = w /\ position[p] + 1 <= Len(log[p])
  BY HeadOf
<1>4. KafkaType'
  <2>1. \A q \in Partitions : /\ position'[q] \in Nat /\ committed[q] <= position'[q]
                              /\ position'[q] <= Len(log[q])
    <3>1. ASSUME NEW q \in Partitions
          PROVE  /\ position'[q] \in Nat /\ committed[q] <= position'[q]
                 /\ position'[q] <= Len(log[q])
      <4>1. /\ position[q] \in Nat /\ committed[q] \in Nat /\ Len(log[q]) \in Nat
            /\ committed[q] <= position[q] /\ position[q] <= Len(log[q])
        BY LogOf
      <4>2. position'[q] = IF member[w] /\ q = p THEN position[q] + 1 ELSE position[q]
        BY <1>2
      <4> HIDE DEF p
      <4>3. CASE member[w] /\ q = p
        BY <1>3, <4>1, <4>2, <4>3
      <4> QED BY <4>1, <4>2, <4>3
    <3> QED BY <3>1
  <2>2. position' \in [Partitions -> Nat]
    BY <1>1, <1>3 DEF Shape, KafkaType
  <2> QED BY <1>1, <2>1, <2>2 DEF Shape, KafkaType
<1>5. ContainerType'
  BY <1>1, <1>2 DEF Shape, ContainerType
<1>6. Held(w)'
  <2> SUFFICES ASSUME NEW i \in DOMAIN batch'[w]
               PROVE  LET q == batch'[w][1].partition
                      IN /\ batch'[w][i].partition = q
                         /\ \E j \in DOMAIN log[q] : log[q][j] = batch'[w][i].key
                         /\ member[w] => /\ owner[q] = w
                                         /\ position'[q] + i \in DOMAIN log[q]
                                         /\ batch'[w][i].key = log[q][position'[q] + i]
    BY <1>1 DEF Held
  <2>1. \A j \in DOMAIN batch[w] :
          /\ batch[w][j].partition = p
          /\ \E m \in DOMAIN log[p] : log[p][m] = batch[w][j].key
          /\ member[w] => /\ owner[p] = w
                          /\ position[p] + j \in DOMAIN log[p]
                          /\ batch[w][j].key = log[p][position[p] + j]
    BY BatchOf DEF Held
  <2>2. i + 1 \in DOMAIN batch[w] /\ batch'[w][i] = batch[w][i + 1]
    BY <1>2
  <2>3. 1 \in DOMAIN batch'[w] /\ 1 + 1 \in DOMAIN batch[w] /\ batch'[w][1] = batch[w][1 + 1]
    <3>1. Len(batch[w]) \in Nat /\ i \in 1 .. Len(batch[w]) - 1
      BY <1>2, BatchOf
    <3>2. 1 \in DOMAIN batch'[w]
      BY <1>2, <3>1
    <3> QED BY <1>2, <3>2
  <2>4. batch'[w][1].partition = p
    BY <2>1, <2>3
  <2>5. i \in Nat /\ position[p] \in Nat
    BY <1>2, <1>3, LogOf, BatchOf
  <2>6. member[w] => position'[p] + i = position[p] + (i + 1)
    <3>1. member[w] => position'[p] = position[p] + 1
      BY <1>2, <1>3
    <3> HIDE DEF p
    <3> QED BY <2>5, <3>1
  <2> QED BY <2>1, <2>2, <2>4, <2>6
<1>7. ASSUME NEW v \in Workers \ {w}
      PROVE  Held(v)'
  <2>1. \A q \in Partitions : owner[q] = v => owner'[q] = v /\ position'[q] = position[q]
    BY <1>1, <1>2, <1>3
  <2> QED BY <1>1, <1>2, <2>1, HeldKept
<1>8. HoldsRecords'
  BY <1>6, <1>7 DEF HoldsRecords
<1> QED BY <1>1, <1>4, <1>5, <1>8
           DEF Shape, ProducerType, OwnersAreMembers, OnePlace, producer

LEMMA ConsumeShape ==
  ASSUME Shape, NEW w \in Workers, ConsumeDuplicate(w) \/ Finish(w) \/ Interrupt(w)
  PROVE  Shape'
<1>1. batch[w] # <<>> /\ ListenerReturns(w)
  BY DEF ConsumeDuplicate, Finish, Interrupt, Shape, ContainerType
<1>2. Task(w) \in Keys
  BY <1>1, HeadOf
<1>3. /\ worked' \in [Keys -> Nat] /\ lost' \subseteq Keys /\ faults' \in Nat
      /\ results' \in [Keys -> SUBSET {"COMPLETED", "FAILED", "DUPLICATE"}]
  <2>1. worked \in [Keys -> Nat] /\ lost \subseteq Keys
        /\ results \in [Keys -> SUBSET {"COMPLETED", "FAILED", "DUPLICATE"}]
    BY DEF Shape, OutcomeType
  <2>2. CASE ConsumeDuplicate(w)
    BY <1>2, <2>1, <2>2, OutcomesTyped DEF ConsumeDuplicate
  <2>3. CASE Finish(w)
    BY <1>2, <2>1, <2>3, OutcomesTyped DEF Finish, CountWork
  <2>4. CASE Interrupt(w)
    BY <1>2, <2>1, <2>4, OutcomesTyped, CountersKept DEF Interrupt, CountWork
  <2> QED BY <2>2, <2>3, <2>4
<1>4. UNCHANGED <<cache, evicted, moves>>
  BY DEF ConsumeDuplicate, Finish, Interrupt, ListenerReturns
<1>5. OutcomeType'
  BY <1>3, <1>4 DEF Shape, OutcomeType
<1> QED BY <1>1, <1>5, ReturnShape

LEMMA RememberType ==
  ASSUME Shape, NEW w \in Workers, NEW k \in Keys, Remember(w, k)
  PROVE  /\ cache' \in [Workers -> SUBSET Keys] /\ evicted' \in Nat
         /\ \A v \in Workers \ {w} : cache'[v] = cache[v]
         /\ cache'[w] \subseteq cache[w] \cup {k}
         /\ \/ cache'[w] = cache[w] \cup {k} /\ evicted' = evicted
            \/ \E v \in Keys : cache'[w] = (cache[w] \cup {k}) \ {v} /\ evicted' = evicted + 1
<1>1. cache \in [Workers -> SUBSET Keys] /\ evicted \in Nat
  BY DEF Shape, OutcomeType
<1>2. CASE cache' = [cache EXCEPT ![w] = cache[w] \cup {k}] /\ UNCHANGED evicted
  BY <1>1, <1>2
<1>3. CASE /\ \E v \in cache[w] \cup {k} : cache' = [cache EXCEPT ![w] = (cache[w] \cup {k}) \ {v}]
           /\ evicted' = evicted + 1
  BY <1>1, <1>3
<1> QED BY <1>2, <1>3 DEF Remember

LEMMA ConsumeNewShape ==
  ASSUME Shape, NEW w \in Workers, ConsumeNew(w)
  PROVE  Shape'
<1>1. /\ batch[w] # <<>> /\ Remember(w, Task(w)) /\ busy' = [busy EXCEPT ![w] = TRUE]
      /\ UNCHANGED <<producer, log, committed, owner, position, batch, member,
                     worked, results, lost, faults, moves>>
  BY DEF ConsumeNew, kafka, outcomes
<1>2. Task(w) \in Keys
  BY <1>1, HeadOf
<1>3. cache' \in [Workers -> SUBSET Keys] /\ evicted' \in Nat
  BY <1>1, <1>2, RememberType
<1>4. OutcomeType'
  BY <1>1, <1>3 DEF Shape, OutcomeType
<1>5. ContainerType'
  BY <1>1 DEF Shape, ContainerType
<1>6. HoldsRecords'
  BY <1>1 DEF Shape, HoldsRecords, Held
<1> QED BY <1>1, <1>4, <1>5, <1>6
           DEF Shape, ProducerType, KafkaType, OwnersAreMembers, OnePlace,
                                      producer

LEMMA ThrowShape ==
  ASSUME Shape, NEW w \in Workers, ListenerThrows(w)
  PROVE  Shape'
<1>1. /\ batch[w] # <<>> /\ batch' = [batch EXCEPT ![w] = <<>>]
      /\ busy' = [busy EXCEPT ![w] = FALSE] /\ faults' \in Nat
      /\ UNCHANGED <<producer, log, committed, owner, position, cache, evicted, member,
                     results, moves>>
  BY CountersKept DEF ListenerThrows, kafka
<1>2. Task(w) \in Keys
  BY <1>1, HeadOf
<1>3. worked' \in [Keys -> Nat] /\ lost' \subseteq Keys
  BY <1>2 DEF ListenerThrows, CountWork, Shape, OutcomeType
<1>4. OutcomeType'
  BY <1>1, <1>3 DEF Shape, OutcomeType
<1>5. ContainerType'
  <2>1. <<>> \in Seq(Record)
    BY EmptySeq
  <2> QED BY <1>1, <2>1 DEF Shape, ContainerType
<1>6. Held(w)'
  BY <1>1, HeldEmpty DEF Shape, ContainerType
<1>7. ASSUME NEW v \in Workers \ {w}
      PROVE  Held(v)'
  BY <1>1, HeldKept DEF Shape, ContainerType
<1>8. HoldsRecords'
  BY <1>6, <1>7 DEF HoldsRecords
<1> QED BY <1>1, <1>4, <1>5, <1>8
           DEF Shape, ProducerType, KafkaType, OwnersAreMembers, OnePlace,
                                      producer

LEMMA ShapeStep == Shape /\ [Next]_vars => Shape'
<1> SUFFICES ASSUME Shape, [Next]_vars
             PROVE  Shape'
  OBVIOUS
<1>1. CASE UNCHANGED vars
  <2>1. UNCHANGED <<kafka, worker, moves, producer, faults>>
    BY <1>1 DEF vars
  <2>2. ProducerType' /\ faults' \in Nat
    BY <2>1, CountersKept DEF Shape, ProducerType, producer
  <2> QED BY <2>1, <2>2, ProducerShape
<1>2. CASE \E b \in Batches : ProducerStep(b)
  BY <1>2, RequestShape DEF ProducerStep
<1>3. CASE \E k \in Keys : BrokerStep(k)
  BY <1>3, RequestShape, AppendShape DEF BrokerStep
<1>4. CASE \E w \in Workers : WorkerStep(w)
  BY <1>4, CommitShape, PollShape, RejoinShape, ConsumeShape, ConsumeNewShape DEF WorkerStep
<1>5. CASE Failures
  BY <1>5, RequestShape, RebalanceShape, ExpelShape, CrashShape, ConsumeShape, ThrowShape
     DEF Failures
<1> QED BY <1>1, <1>2, <1>3, <1>4, <1>5 DEF Next

-----------------------------------------------------------------------------
\* What is done stays done.

\* The task a step of a listener gives an outcome.
Gives(w) == ConsumeDuplicate(w) \/ Finish(w) \/ Interrupt(w) \/ ListenerThrows(w)

LEMMA GivesTask ==
  ASSUME Shape, NEW w \in Workers, Gives(w)
  PROVE  /\ batch[w] # <<>> /\ Task(w) \in Keys
         /\ \A k \in Keys : k # Task(w) =>
              worked'[k] = worked[k] /\ results'[k] = results[k] /\ (k \in lost' <=> k \in lost)
         /\ busy[w] => worked'[Task(w)] = worked[Task(w)] + 1
         /\ ~busy[w] => worked' = worked /\ Task(w) \in cache[w]
         /\ results[Task(w)] \subseteq results'[Task(w)] /\ lost \subseteq lost'
         /\ busy[w] => \/ results'[Task(w)] \cap {"COMPLETED", "FAILED"} # {}
                       \/ Task(w) \in lost'
         /\ "DUPLICATE" \in results'[Task(w)] =>
              "DUPLICATE" \in results[Task(w)] \/ Task(w) \in cache[w]
         /\ cache' = cache /\ evicted' = evicted /\ moves' = moves
         /\ UNCHANGED <<log, owner, member, committed>>
<1> DEFINE k == Task(w)
<1>1. batch[w] # <<>>
  BY DEF Gives, ConsumeDuplicate, Finish, Interrupt, ListenerThrows, Shape, ContainerType
<1>2. k \in Keys
  BY <1>1, HeadOf
<1>3. /\ worked \in [Keys -> Nat] /\ lost \subseteq Keys
      /\ results \in [Keys -> SUBSET {"COMPLETED", "FAILED", "DUPLICATE"}]
  BY DEF Shape, OutcomeType
<1>4. UNCHANGED <<log, owner, member, committed, cache, evicted, moves>>
  BY DEF Gives, ConsumeDuplicate, Finish, Interrupt, ListenerThrows, ListenerReturns, kafka
<1> HIDE DEF k
<1>5. ASSUME NEW s, PublishResult(k, s)
      PROVE  /\ \A j \in Keys : j # k => results'[j] = results[j] /\ (j \in lost' <=> j \in lost)
             /\ results[k] \subseteq results'[k] /\ lost \subseteq lost'
             /\ s \in results'[k] \/ k \in lost'
             /\ results'[k] \subseteq results[k] \cup {s}
  BY <1>2, <1>3, <1>5 DEF PublishResult
<1>6. worked' = [worked EXCEPT ![k] = @ + 1] =>
        worked'[k] = worked[k] + 1 /\ \A j \in Keys : j # k => worked'[j] = worked[j]
  BY <1>2, <1>3
<1>7. CASE ConsumeDuplicate(w)
  BY <1>1, <1>2, <1>4, <1>5, <1>7 DEF ConsumeDuplicate, k
<1>8. CASE Finish(w)
  BY <1>1, <1>2, <1>4, <1>5, <1>6, <1>8 DEF Finish, CountWork, k
<1>9. CASE Interrupt(w)
  <2>1. /\ busy[w] /\ worked' = [worked EXCEPT ![k] = @ + 1]
        /\ \/ results' = [results EXCEPT ![k] = @ \cup {"FAILED"}] /\ UNCHANGED lost
           \/ lost' = lost \cup {k} /\ UNCHANGED results
    BY <1>9 DEF Interrupt, CountWork, k
  <2>2. /\ \A j \in Keys : j # k => results'[j] = results[j] /\ (j \in lost' <=> j \in lost)
        /\ results[k] \subseteq results'[k] /\ lost \subseteq lost'
        /\ "FAILED" \in results'[k] \/ k \in lost'
        /\ results'[k] \subseteq results[k] \cup {"FAILED"}
    <3>1. CASE results' = [results EXCEPT ![k] = @ \cup {"FAILED"}] /\ UNCHANGED lost
      BY <1>2, <1>3, <3>1
    <3>2. CASE lost' = lost \cup {k} /\ UNCHANGED results
      BY <1>2, <1>3, <3>2
    <3> QED BY <2>1, <3>1, <3>2
  <2> QED BY <1>1, <1>2, <1>3, <1>4, <1>6, <2>1, <2>2 DEF k
<1>10. CASE ListenerThrows(w)
  <2>1. CASE busy[w]
    <3>1. worked' = [worked EXCEPT ![k] = @ + 1] /\ lost' = lost \cup {k} /\ UNCHANGED results
      BY <1>10, <2>1 DEF ListenerThrows, CountWork, k
    <3> QED BY <1>1, <1>2, <1>3, <1>4, <1>6, <2>1, <3>1 DEF k
  <2>2. CASE ~busy[w]
    <3>1. k \in cache[w] /\ UNCHANGED <<worked, lost, results>>
      BY <1>10, <2>2 DEF ListenerThrows, k
    <3> QED BY <1>1, <1>2, <1>3, <1>4, <2>2, <3>1 DEF k
  <2> QED BY <2>1, <2>2
<1> QED BY <1>7, <1>8, <1>9, <1>10 DEF Gives

\* Done(k)', for a key that is an expression of the state before the step.
DoneAfter(k) ==
  worked'[k] > 0 /\ (results'[k] \cap {"COMPLETED", "FAILED"} # {} \/ k \in lost')

\* All other steps leave the outcomes alone.
LEMMA OthersGiveNothing ==
  ASSUME [Next]_vars, ~\E w \in Workers : Gives(w)
  PROVE  UNCHANGED outcomes
BY DEF Next, ProducerStep, BrokerStep, WorkerStep, Failures, Gives, vars, worker, Publish,
   Send,
       Join, AppendTask, Ack, Commit, Poll, Rejoin, ConsumeNew, SendThrows, Expire, Rebalance,
       Expel, CrashWorker

LEMMA DoneKept ==
  ASSUME Shape, [Next]_vars
  PROVE  \A k \in Keys : /\ Done(k) => DoneAfter(k)
                         /\ worked[k] > 0 => worked'[k] > 0
<1>1. CASE UNCHANGED outcomes
  BY <1>1 DEF outcomes, Done, DoneAfter
<1>2. ASSUME NEW w \in Workers, Gives(w), NEW k \in Keys
      PROVE  /\ Done(k) => DoneAfter(k)
             /\ worked[k] > 0 => worked'[k] > 0
  <2>1. worked[k] \in Nat
    BY DEF Shape, OutcomeType
  <2>3. results[k] \subseteq results'[k] /\ lost \subseteq lost'
    BY <1>2, GivesTask
  <2>4. worked[k] > 0 => worked'[k] > 0
    <3>1. worked'[k] = worked[k] \/ worked'[k] = worked[k] + 1
      BY <1>2, <2>1, GivesTask
    <3> QED BY <2>1, <3>1
  <2> QED BY <2>3, <2>4 DEF Done, DoneAfter
<1> QED BY <1>1, <1>2, OthersGiveNothing

\* What a listener answers or throws away is done.
LEMMA GivenIsDone ==
  ASSUME Shape, CacheKnows, NEW w \in Workers, Gives(w)
  PROVE  DoneAfter(Task(w))
<1>1. Task(w) \in Keys /\ worked[Task(w)] \in Nat
  BY GivesTask DEF Shape, OutcomeType
<1>2. CASE busy[w]
  <2>1. worked'[Task(w)] > 0
    BY <1>1, <1>2, GivesTask
  <2> QED BY <1>2, <2>1, GivesTask DEF DoneAfter
<1>3. CASE ~busy[w]
  <2>1. Done(Task(w))
    BY <1>3, GivesTask DEF CacheKnows
  <2>2. /\ worked' = worked
        /\ results[Task(w)] \subseteq results'[Task(w)] /\ lost \subseteq lost'
    BY <1>3, GivesTask
  <2> QED BY <2>1, <2>2 DEF Done, DoneAfter
<1> QED BY <1>2, <1>3

-----------------------------------------------------------------------------
\* The steps keep what is known of the outcomes.

\* How caches and batches change.
LEMMA CacheChanges ==
  ASSUME Shape, [Next]_vars
  PROVE  \/ UNCHANGED <<cache, busy>> /\ \A v \in Workers : busy[v] => batch'[v] = batch[v]
         \/ \E w \in Workers : ConsumeNew(w)
         \/ \E w \in Workers : Gives(w)
         \/ \E w \in Workers : CrashWorker(w)
<1>1. ASSUME NEW w \in Workers, Poll(w)
      PROVE  UNCHANGED <<cache, busy>> /\ \A v \in Workers : busy[v] => batch'[v] = batch[v]
  BY <1>1 DEF Poll, Shape, ContainerType
<1>2. ASSUME \/ UNCHANGED vars
             \/ \E b \in Batches : ProducerStep(b) \/ SendThrows(b)
             \/ \E k \in Keys : BrokerStep(k) \/ Expire(k)
             \/ \E w \in Workers : Commit(w) \/ Rejoin(w) \/ Expel(w)
             \/ \E p \in Partitions : Rebalance(p)
      PROVE  UNCHANGED <<cache, busy, batch>>
  BY <1>2
     DEF vars, worker, container, ProducerStep, BrokerStep, Publish, Send, Join, SendThrows,
              AppendTask, Ack, Expire, Commit, Rejoin, Expel, Rebalance
<1> QED BY <1>1, <1>2 DEF Next, WorkerStep, Failures, Gives

LEMMA CacheStep ==
  ASSUME Shape, CacheKnows, [Next]_vars
  PROVE  CacheKnows'
<1> SUFFICES ASSUME NEW v \in Workers, NEW k \in cache'[v]
             PROVE  DoneAfter(k) \/ (busy'[v] /\ batch'[v][1].key = k)
  BY DEF CacheKnows, Done, DoneAfter, Task
<1>1. cache \in [Workers -> SUBSET Keys] /\ busy \in [Workers -> BOOLEAN]
  BY DEF Shape, OutcomeType, ContainerType
<1>2. cache' \in [Workers -> SUBSET Keys]
  BY ShapeStep DEF Shape, OutcomeType
<1>3. ASSUME k \in cache[v], busy[v] => busy'[v] /\ batch'[v] = batch[v]
      PROVE  DoneAfter(k) \/ (busy'[v] /\ batch'[v][1].key = k)
  BY <1>1, <1>3, DoneKept DEF CacheKnows, Task
<1>4. CASE UNCHANGED <<cache, busy>> /\ \A u \in Workers : busy[u] => batch'[u] = batch[u]
  BY <1>3, <1>4
<1>5. ASSUME NEW w \in Workers, ConsumeNew(w)
      PROVE  DoneAfter(k) \/ (busy'[v] /\ batch'[v][1].key = k)
  <2>1. /\ Task(w) \in Keys /\ Remember(w, Task(w)) /\ batch' = batch
        /\ busy' = [busy EXCEPT ![w] = TRUE]
    BY <1>5, HeadOf DEF ConsumeNew
  <2>2. /\ \A u \in Workers \ {w} : cache'[u] = cache[u]
        /\ cache'[w] \subseteq cache[w] \cup {Task(w)}
    BY <2>1, RememberType
  <2>3. CASE k \in cache[v]
    BY <1>1, <1>3, <2>1, <2>3
  <2>4. CASE v = w /\ k = Task(w)
    BY <1>1, <2>1, <2>4 DEF Task
  <2> QED BY <2>2, <2>3, <2>4
<1>6. ASSUME NEW w \in Workers, Gives(w)
      PROVE  DoneAfter(k) \/ (busy'[v] /\ batch'[v][1].key = k)
  <2>1. cache' = cache
    BY <1>6, GivesTask
  <2>2. \A u \in Workers \ {w} : busy'[u] = busy[u] /\ batch'[u] = batch[u]
    BY <1>6 DEF Gives, ConsumeDuplicate, Finish, Interrupt, ListenerReturns, ListenerThrows,
                Shape, ContainerType
  <2>3. CASE v # w
    BY <1>3, <2>1, <2>2, <2>3
  <2>4. CASE v = w
    <3>1. CASE k = Task(w)
      BY <1>6, <3>1, GivenIsDone
    <3>2. CASE k # Task(w)
      <4>1. Done(k)
        BY <2>1, <2>4, <3>2 DEF CacheKnows
      <4> QED BY <1>1, <2>1, <4>1, DoneKept
    <3> QED BY <3>1, <3>2
  <2> QED BY <2>3, <2>4
<1>7. ASSUME NEW w \in Workers, CrashWorker(w)
      PROVE  DoneAfter(k) \/ (busy'[v] /\ batch'[v][1].key = k)
  <2>1. /\ cache' = [cache EXCEPT ![w] = {}] /\ batch' = [batch EXCEPT ![w] = <<>>]
        /\ busy' = [busy EXCEPT ![w] = FALSE] /\ batch \in [Workers -> Seq(Record)]
    BY <1>7 DEF CrashWorker, Shape, ContainerType
  <2>2. v # w
    BY <1>1, <2>1
  <2> QED BY <1>1, <1>3, <2>1, <2>2
<1> QED BY <1>4, <1>5, <1>6, <1>7, CacheChanges

\* The position of a partition moves back, or over a record that is done.
LEMMA PositionChanges ==
  ASSUME Shape, [Next]_vars, NEW p \in Partitions
  PROVE  \/ position'[p] <= position[p]
         \/ /\ position'[p] = position[p] + 1
            /\ \E w \in Workers : Gives(w) /\ log[p][position[p] + 1] = Task(w)
<1>1. /\ position \in [Partitions -> Nat] /\ position[p] \in Nat /\ committed[p] \in Nat
      /\ committed[p] <= position[p]
  BY LogOf DEF Shape, KafkaType
<1>2. CASE UNCHANGED position
  BY <1>1, <1>2
<1>3. ASSUME NEW w \in Workers, Expel(w) \/ CrashWorker(w)
      PROVE  position'[p] <= position[p]
  <2>1. position' = [q \in Partitions |-> IF q \in Owned(w) THEN committed[q] ELSE position[q]]
    BY <1>3 DEF Expel, CrashWorker, Rewind
  <2> QED BY <1>1, <2>1
<1>4. ASSUME NEW w \in Workers, ConsumeDuplicate(w) \/ Finish(w) \/ Interrupt(w)
      PROVE  \/ position'[p] <= position[p]
             \/ position'[p] = position[p] + 1 /\ log[p][position[p] + 1] = Task(w)
  <2>1. batch[w] # <<>> /\ ListenerReturns(w)
    BY <1>4 DEF ConsumeDuplicate, Finish, Interrupt, Shape, ContainerType
  <2>2. position'[p] = IF member[w] /\ p = batch[w][1].partition THEN position[p] + 1
                       ELSE position[p]
    BY <2>1, ReturnEffect
  <2>3. member[w] /\ p = batch[w][1].partition => log[p][position[p] + 1] = Task(w)
    BY <2>1, HeadOf
  <2> QED BY <1>1, <2>2, <2>3
<1>5. ASSUME \/ UNCHANGED vars
             \/ \E b \in Batches : ProducerStep(b) \/ SendThrows(b)
             \/ \E k \in Keys : BrokerStep(k) \/ Expire(k)
             \/ \E w \in Workers : Commit(w) \/ Poll(w) \/ Rejoin(w) \/ ConsumeNew(w)
                                   \/ ListenerThrows(w)
             \/ \E q \in Partitions : Rebalance(q)
      PROVE  UNCHANGED position
  BY <1>5
     DEF vars, kafka, ProducerStep, BrokerStep, Publish, Send, Join, SendThrows, AppendTask,
              Ack, Expire, Commit, Poll, Rejoin, ConsumeNew, ListenerThrows, Rebalance
<1> QED BY <1>2, <1>3, <1>4, <1>5 DEF Next, WorkerStep, Failures, Gives

\* The log only grows.
LEMMA LogGrows ==
  ASSUME Shape, [Next]_vars, NEW p \in Partitions
  PROVE  \A i \in DOMAIN log[p] : i \in DOMAIN log'[p] /\ log'[p][i] = log[p][i]
<1>1. ASSUME NEW k \in Keys, NEW q \in Partitions, AppendTask(k, q)
      PROVE  \A i \in DOMAIN log[p] : i \in DOMAIN log'[p] /\ log'[p][i] = log[p][i]
  <2>1. log[p] \in Seq(Keys) /\ DOMAIN log[p] = 1 .. Len(log[p]) /\ Len(log[p]) \in Nat
    BY LogOf
  <2>2. log'[p] = log[p] \/ log'[p] = Append(log[p], k)
    BY <1>1 DEF AppendTask, Shape, KafkaType
  <2>3. CASE log'[p] = Append(log[p], k)
    <3>1. /\ Len(log'[p]) = Len(log[p]) + 1 /\ log'[p] \in Seq(Keys)
          /\ \A i \in 1 .. Len(log[p]) : log'[p][i] = log[p][i]
      BY <2>1, <2>3, AppendProperties
    <3>2. DOMAIN log'[p] = 1 .. Len(log[p]) + 1
      BY <3>1, LenProperties
    <3> QED BY <2>1, <3>1, <3>2
  <2> QED BY <2>2, <2>3
<1>2. ASSUME \/ UNCHANGED vars
             \/ \E b \in Batches : ProducerStep(b) \/ SendThrows(b)
             \/ \E k \in Keys : Ack(k) \/ Expire(k)
             \/ \E w \in Workers : WorkerStep(w) \/ Expel(w) \/ CrashWorker(w) \/ Interrupt(w)
                                   \/ ListenerThrows(w)
             \/ \E q \in Partitions : Rebalance(q)
      PROVE  UNCHANGED log
  BY <1>2
     DEF vars, kafka, ProducerStep, WorkerStep, Publish, Send, Join, SendThrows, Ack,
         Expire,
              Commit, Poll, Rejoin, ConsumeDuplicate, ConsumeNew, Finish, Interrupt,
              ListenerReturns, ListenerThrows, Rebalance, Expel, CrashWorker
<1> QED BY <1>1, <1>2 DEF Next, BrokerStep, Failures

LEMMA PositionStep ==
  ASSUME Shape, CacheKnows, PositionIsDone, [Next]_vars
  PROVE  PositionIsDone'
<1> SUFFICES ASSUME NEW p \in Partitions, NEW i \in 1 .. position'[p]
             PROVE  DoneAfter(log'[p][i])
  BY DEF PositionIsDone, Done, DoneAfter
<1>1. /\ position[p] \in Nat /\ position[p] <= Len(log[p]) /\ Len(log[p]) \in Nat
      /\ DOMAIN log[p] = 1 .. Len(log[p]) /\ \A j \in DOMAIN log[p] : log[p][j] \in Keys
  BY LogOf
<1>2. position'[p] \in Nat
  <2>1. Shape'
    BY ShapeStep
  <2> QED BY <2>1 DEF Shape, KafkaType
<1>3. CASE i <= position[p]
  <2>1. i \in 1 .. position[p] /\ i \in DOMAIN log[p]
    BY <1>1, <1>2, <1>3
  <2>2. log'[p][i] = log[p][i] /\ log[p][i] \in Keys
    BY <1>1, <2>1, LogGrows
  <2>3. Done(log[p][i])
    BY <2>1 DEF PositionIsDone
  <2> QED BY <2>2, <2>3, DoneKept
<1>4. CASE ~(i <= position[p])
  <2>1. PICK w \in Workers : Gives(w) /\ log[p][position[p] + 1] = Task(w)
    BY <1>1, <1>2, <1>4, PositionChanges
  <2>2. i = position[p] + 1
    BY <1>1, <1>2, <1>4, PositionChanges
  <2>3. log' = log
    BY <2>1, GivesTask
  <2> QED BY <2>1, <2>2, <2>3, GivenIsDone
<1> QED BY <1>3, <1>4

LEMMA DuplicateStep ==
  ASSUME Shape, CacheKnows, DuplicateMeansWorked, [Next]_vars
  PROVE  DuplicateMeansWorked'
<1> SUFFICES ASSUME NEW k \in Keys, "DUPLICATE" \in results'[k]
             PROVE  worked'[k] > 0
  BY DEF DuplicateMeansWorked
<1>1. CASE UNCHANGED outcomes
  BY <1>1 DEF outcomes, DuplicateMeansWorked
<1>2. ASSUME NEW w \in Workers, Gives(w)
      PROVE  worked'[k] > 0
  <2>1. CASE "DUPLICATE" \in results[k]
    BY <2>1, DoneKept DEF DuplicateMeansWorked
  <2>2. CASE "DUPLICATE" \notin results[k]
    <3>1. k = Task(w)
      BY <1>2, <2>2, GivesTask
    <3> QED BY <1>2, <3>1, GivenIsDone DEF DoneAfter
  <2> QED BY <2>1, <2>2
<1> QED BY <1>1, <1>2, OthersGiveNothing

-----------------------------------------------------------------------------
\* The invariant.

LEMMA Initially ==
  ASSUME Init
  PROVE  IInv
<1>1. ProducerType
  BY PipelineAssumption DEF Init, ProducerType
<1>2. KafkaType
  <2>1. \A p \in Partitions : log[p] = <<>> /\ Len(log[p]) = 0
    BY DEF Init
  <2> QED BY <2>1 DEF Init, KafkaType
<1>3. ContainerType
  BY DEF Init, ContainerType
<1>4. OutcomeType
  BY DEF Init, OutcomeType
<1>5. OwnersAreMembers
  BY DEF Init, OwnersAreMembers
<1>6. OnePlace
  BY DEF Init, OnePlace
<1>7. HoldsRecords
  BY DEF Init, HoldsRecords, Held
<1>8. CacheKnows
  BY DEF Init, CacheKnows
<1>9. PositionIsDone
  BY DEF Init, PositionIsDone
<1>10. DuplicateMeansWorked
  BY DEF Init, DuplicateMeansWorked
<1> QED BY <1>1, <1>2, <1>3, <1>4, <1>5, <1>6, <1>7, <1>8, <1>9, <1>10 DEF IInv, Shape

LEMMA Inductive ==
  ASSUME IInv, [Next]_vars
  PROVE  IInv'
BY ShapeStep, CacheStep, PositionStep, DuplicateStep DEF IInv

LEMMA Invariant == Spec => []IInv
BY Initially, Inductive, PTL DEF Spec

-----------------------------------------------------------------------------
\* The theorems.

\* The state keeps its shape: offsets stay in order, whoever owns a partition and however
\* often it moved, and a worker that was not expelled holds the next records of a partition
\* that it owns, for every size of the group, the topic, the caches and the polls.
THEOREM TypeCorrect == Spec => []TypeOK
<1>1. IInv => TypeOK
  BY TypeOfShape DEF IInv
<1> QED BY <1>1, Invariant, PTL

LEMMA AcknowledgedIsDone ==
  ASSUME IInv, NEW k \in Acknowledged
  PROVE  k \in Keys /\ InLog(k) /\ Done(k)
<1> PICK p \in Partitions : k \in {log[p][i] : i \in 1 .. committed[p]}
  BY DEF Acknowledged
<1>1. PICK i \in 1 .. committed[p] : k = log[p][i]
  OBVIOUS
<1>2. /\ position[p] \in Nat /\ committed[p] \in Nat /\ Len(log[p]) \in Nat
      /\ committed[p] <= position[p] /\ position[p] <= Len(log[p])
      /\ DOMAIN log[p] = 1 .. Len(log[p]) /\ \A j \in DOMAIN log[p] : log[p][j] \in Keys
  BY LogOf DEF IInv, Shape, KafkaType
<1>3. i \in 1 .. position[p] /\ i \in DOMAIN log[p]
  BY <1>2
<1> QED BY <1>1, <1>2, <1>3 DEF IInv, PositionIsDone, InLog

\* No acknowledged task is without an outcome, and DUPLICATE tells the truth, whatever
\* crashes, is expelled, moves, is evicted or is delivered again in between: what TaskWorker
\* puts into its cache before the work is never taken for the work by anybody else.
THEOREM AcknowledgedTasksHaveOutcomes == Spec => []AcknowledgedHasOutcome
<1>1. IInv => AcknowledgedHasOutcome
  BY AcknowledgedIsDone DEF IInv, AcknowledgedHasOutcome, Done, DuplicateMeansWorked
<1> QED BY <1>1, Invariant, PTL

-----------------------------------------------------------------------------
\* The pipeline implements AtLeastOnceQueue.

LEMMA AcknowledgedWasWorked ==
  IInv => Acknowledged \subseteq WorkedKeys
BY AcknowledgedIsDone DEF Done, WorkedKeys

\* A step that leaves the offsets alone and lets the log grow acknowledges nothing.
LEMMA AcknowledgedKept ==
  ASSUME Shape, [Next]_vars, committed' = committed
  PROVE  Acknowledged' = Acknowledged
<1>1. ASSUME NEW p \in Partitions, NEW i \in 1 .. committed[p]
      PROVE  log'[p][i] = log[p][i]
  <2>1. /\ position[p] \in Nat /\ committed[p] \in Nat /\ Len(log[p]) \in Nat
        /\ committed[p] <= position[p] /\ position[p] <= Len(log[p])
        /\ DOMAIN log[p] = 1 .. Len(log[p])
    BY LogOf DEF Shape, KafkaType
  <2>2. i \in DOMAIN log[p]
    BY <2>1
  <2> QED BY <2>2, LogGrows
<1> QED BY <1>1 DEF Acknowledged

LEMMA AppendPublishes ==
  ASSUME Shape, [Next]_vars, NEW k \in Keys, NEW p \in Partitions, AppendTask(k, p)
  PROVE  Queue!Publish(k)
<1>1. /\ log' = [log EXCEPT ![p] = Append(@, k)] /\ log \in [Partitions -> Seq(Keys)]
      /\ committed' = committed /\ worked' = worked
  BY DEF AppendTask, worker, outcomes, Shape, KafkaType
<1>2. log'[p] = Append(log[p], k) /\ \A q \in Partitions : q # p => log'[q] = log[q]
  BY <1>1
<1>3. /\ Len(log[p]) \in Nat /\ DOMAIN log[p] = 1 .. Len(log[p])
      /\ log'[p] \in Seq(Keys) /\ Len(log'[p]) = Len(log[p]) + 1
      /\ \A i \in 1 .. Len(log[p]) : log'[p][i] = log[p][i]
      /\ log'[p][Len(log[p]) + 1] = k
  BY <1>1, <1>2, LogOf, AppendProperties
<1>4. DOMAIN log'[p] = 1 .. Len(log[p]) + 1
  BY <1>3, LenProperties
<1>5. ASSUME NEW j \in Keys
      PROVE  InLog(j)' <=> InLog(j) \/ j = k
  <2>1. (\E i \in DOMAIN log'[p] : log'[p][i] = j) <=>
        (\E i \in DOMAIN log[p] : log[p][i] = j) \/ j = k
    BY <1>3, <1>4, SMTT(30)
  <2> QED BY <1>2, <2>1 DEF InLog
<1>6. Published' = Published \cup {k}
  BY <1>5 DEF Published
<1>7. Acknowledged' = Acknowledged
  BY <1>1, AcknowledgedKept
<1>8. WorkedKeys' = WorkedKeys
  BY <1>1 DEF WorkedKeys
<1> QED BY <1>6, <1>7, <1>8 DEF Queue!Publish

LEMMA GivesWorks ==
  ASSUME Shape, [Next]_vars, NEW w \in Workers, Gives(w)
  PROVE  Queue!Work(Task(w)) \/ UNCHANGED Queue!vars
<1>1. log' = log /\ committed' = committed /\ Task(w) \in Keys /\ batch[w] # <<>>
  BY GivesTask
<1>2. Published' = Published
  BY <1>1 DEF Published, InLog
<1>3. Acknowledged' = Acknowledged
  BY <1>1, AcknowledgedKept
<1>4. CASE busy[w]
  <2>1. Task(w) \in Published
    BY <1>1, HeadOf DEF Published, InLog
  <2>2. worked'[Task(w)] > 0
    <3>1. worked[Task(w)] \in Nat
      BY <1>1 DEF Shape, OutcomeType
    <3> QED BY <1>4, <3>1, GivesTask
  <2>3. WorkedKeys' = WorkedKeys \cup {Task(w)}
    BY <1>1, <2>2, GivesTask DEF WorkedKeys
  <2> QED BY <1>2, <1>3, <2>1, <2>3 DEF Queue!Work
<1>5. CASE ~busy[w]
  <2>1. WorkedKeys' = WorkedKeys
    BY <1>5, GivesTask DEF WorkedKeys
  <2> QED BY <1>2, <1>3, <2>1 DEF Queue!vars
<1> QED BY <1>4, <1>5

\* Offsets are committed, or nothing of this happens.
LEMMA OthersCommit ==
  ASSUME Shape, [Next]_vars, ~\E w \in Workers : Gives(w),
         ~\E k \in Keys, p \in Partitions : AppendTask(k, p)
  PROVE  log' = log /\ worked' = worked /\ \A p \in Partitions : committed'[p] >= committed[p]
<1>1. worked' = worked
  BY OthersGiveNothing DEF outcomes
<1>2. /\ committed \in [Partitions -> Nat] /\ position \in [Partitions -> Nat]
      /\ \A p \in Partitions : committed[p] <= position[p]
  BY DEF Shape, KafkaType
<1>3. ASSUME \/ UNCHANGED vars
             \/ \E b \in Batches : ProducerStep(b) \/ SendThrows(b)
             \/ \E k \in Keys : Ack(k) \/ Expire(k)
             \/ \E w \in Workers : Poll(w) \/ Rejoin(w) \/ ConsumeNew(w) \/ Expel(w)
                                   \/ CrashWorker(w)
      PROVE  UNCHANGED <<log, committed>>
  BY <1>3 DEF vars, kafka, ProducerStep, Publish, Send, Join, SendThrows, Ack, Expire, Poll,
              Rejoin, ConsumeNew, Expel, CrashWorker
<1>4. ASSUME NEW w \in Workers, Commit(w)
      PROVE  log' = log /\ \A p \in Partitions : committed'[p] >= committed[p]
  BY <1>2, <1>4 DEF Commit
<1>5. ASSUME NEW q \in Partitions, Rebalance(q)
      PROVE  log' = log /\ \A p \in Partitions : committed'[p] >= committed[p]
  BY <1>2, <1>5 DEF Rebalance
<1>6. \A p \in Partitions : committed[p] >= committed[p]
  BY <1>2
<1> QED BY <1>1, <1>3, <1>4, <1>5, <1>6 DEF Next, BrokerStep, WorkerStep, Failures, Gives

LEMMA CommitAcknowledges ==
  ASSUME IInv, IInv', [Next]_vars, ~\E w \in Workers : Gives(w),
         ~\E k \in Keys, p \in Partitions : AppendTask(k, p),
         Acknowledged' \subseteq WorkedKeys'
  PROVE  \E S \in SUBSET Keys : Queue!Acknowledge(S)
<1>1. log' = log /\ worked' = worked /\ \A p \in Partitions : committed'[p] >= committed[p]
  BY OthersCommit DEF IInv
<1>2. Published' = Published /\ WorkedKeys' = WorkedKeys
  BY <1>1 DEF Published, WorkedKeys, InLog
<1>3. \A p \in Partitions : committed[p] \in Nat /\ committed'[p] \in Nat
  BY DEF IInv, Shape, KafkaType
<1>4. Acknowledged \subseteq Acknowledged'
  <2>1. \A p \in Partitions : 1 .. committed[p] \subseteq 1 .. committed'[p]
    BY <1>1, <1>3
  <2> QED BY <1>1, <2>1 DEF Acknowledged
<1>5. Acknowledged' \in SUBSET Keys /\ Acknowledged' \subseteq WorkedKeys
  BY <1>2 DEF WorkedKeys
<1>6. Queue!Acknowledge(Acknowledged')
  BY <1>2, <1>4, <1>5 DEF Queue!Acknowledge
<1> QED BY <1>5, <1>6

\* Every step of the pipeline publishes a task, works a published one or acknowledges worked
\* ones, or does nothing that its clients can see.
THEOREM PipelineImplementsQueue == Spec => ImplementsQueue
<1>1. Init => Queue!Init
  BY DEF Init, Queue!Init, Published, WorkedKeys, Acknowledged, InLog
<1>2. IInv' => (Acknowledged \subseteq WorkedKeys)'
  BY AcknowledgedWasWorked, PTL
<1>3. IInv /\ IInv' /\ [Next]_vars => [Queue!Next]_Queue!vars
  <2> SUFFICES ASSUME IInv, IInv', [Next]_vars
               PROVE  [Queue!Next]_Queue!vars
    OBVIOUS
  <2>1. Shape
    BY DEF IInv
  <2>2. ASSUME NEW k \in Keys, NEW p \in Partitions, AppendTask(k, p)
        PROVE  Queue!Next
    BY <2>1, <2>2, AppendPublishes DEF Queue!Next
  <2>3. ASSUME NEW w \in Workers, Gives(w)
        PROVE  [Queue!Next]_Queue!vars
    BY <2>1, <2>3, GivesTask, GivesWorks DEF Queue!Next
  <2>4. ASSUME ~\E w \in Workers : Gives(w),
               ~\E k \in Keys, p \in Partitions : AppendTask(k, p)
        PROVE  Queue!Next
    BY <1>2, <2>4, CommitAcknowledges DEF Queue!Next
  <2> QED BY <2>2, <2>3, <2>4
<1> QED BY <1>1, <1>3, Invariant, PTL DEF Spec, ImplementsQueue, Queue!Spec

-----------------------------------------------------------------------------
\* What a repetition of work is due to.

LEMMA FewerOf ==
  ASSUME NEW S, NEW T, IsFiniteSet(S), T \subseteq S
  PROVE  Cardinality(S) \in Nat /\ Cardinality(T) \in Nat /\ Cardinality(T) <= Cardinality(S)
BY FS_Subset, FS_CardinalityType

LEMMA OneMoreOf ==
  ASSUME NEW S, NEW T, NEW e, IsFiniteSet(S), T \subseteq S \cup {e}
  PROVE  /\ Cardinality(S) \in Nat /\ Cardinality(T) \in Nat
         /\ Cardinality(T) <= Cardinality(S) + 1
<1>1. /\ IsFiniteSet(S \cup {e}) /\ Cardinality(S \cup {e}) <= Cardinality(S) + 1
      /\ Cardinality(S) \in Nat
  <2>1. Cardinality(S) \in Nat
    BY FS_CardinalityType
  <2>2. /\ IsFiniteSet(S \cup {e})
        /\ Cardinality(S \cup {e}) = IF e \in S THEN Cardinality(S) ELSE Cardinality(S) + 1
    BY FS_AddElement
  <2> QED BY <2>1, <2>2
<1>2. /\ Cardinality(S \cup {e}) \in Nat /\ Cardinality(T) \in Nat
      /\ Cardinality(T) <= Cardinality(S \cup {e})
  BY <1>1, FewerOf
<1> QED BY <1>1, <1>2

LEMMA OneLessOf ==
  ASSUME NEW S, NEW T, NEW e \in S, IsFiniteSet(S), T \subseteq S \ {e}
  PROVE  /\ Cardinality(S) \in Nat /\ Cardinality(T) \in Nat
         /\ Cardinality(T) + 1 <= Cardinality(S)
<1>1. /\ IsFiniteSet(S \ {e}) /\ Cardinality(S \ {e}) = Cardinality(S) - 1
      /\ Cardinality(S) \in Nat
  BY FS_RemoveElement, FS_CardinalityType
<1>2. /\ Cardinality(S \ {e}) \in Nat /\ Cardinality(T) \in Nat
      /\ Cardinality(T) <= Cardinality(S \ {e})
  BY <1>1, FewerOf
<1> QED BY <1>1, <1>2

LEMMA SmallSets ==
  ASSUME NEW k
  PROVE  IsFiniteSet(WorkingOn(k)) /\ IsFiniteSet(Strays(k))
BY PipelineAssumption, FS_Subset DEF WorkingOn, Strays

\* A step settles the debt of k when it
Settles(k) ==
  \* adds nothing to it,
  \/ /\ worked'[k] = worked[k] /\ WorkingOn(k)' \subseteq WorkingOn(k)
     /\ Strays(k)' \subseteq Strays(k) /\ (Unknown(k)' => Unknown(k))
     /\ moves' + evicted' >= moves + evicted
  \* makes a worker or a partition forget it, by a move or an eviction,
  \/ /\ worked'[k] = worked[k] /\ WorkingOn(k)' \subseteq WorkingOn(k)
     /\ \/ Strays(k)' \subseteq Strays(k)
        \/ (\E w \in Workers : Strays(k)' \subseteq Strays(k) \cup {w}) /\ (Unknown(k)' => Unknown(k))
     /\ moves' + evicted' = moves + evicted + 1
  \* works it,
  \/ /\ worked'[k] = worked[k] + 1
     /\ \E w \in WorkingOn(k) : WorkingOn(k)' \subseteq WorkingOn(k) \ {w}
     /\ Strays(k)' \subseteq Strays(k) /\ (Unknown(k)' => Unknown(k))
     /\ moves' + evicted' = moves + evicted
  \* or lets a worker begin it that did not know it.
  \/ /\ worked'[k] = worked[k]
     /\ \E w \in Workers : WorkingOn(k)' \subseteq WorkingOn(k) \cup {w}
     /\ \/ /\ Strays(k)' \subseteq Strays(k) /\ (Unknown(k)' => Unknown(k))
           /\ moves' + evicted' = moves + evicted + 1
        \/ /\ \E w \in Strays(k) : Strays(k)' \subseteq Strays(k) \ {w}
           /\ Unknown(k)' => Unknown(k)
        \/ Strays(k)' \subseteq Strays(k) /\ Unknown(k) /\ ~Unknown(k)'
     /\ moves' + evicted' >= moves + evicted

LEMMA Settled ==
  ASSUME Shape, Shape', NEW k \in Keys, Owes(k) <= 1 + moves + evicted, Settles(k)
  PROVE  Owes(k)' <= 1 + moves' + evicted'
<1> DEFINE W == Cardinality(WorkingOn(k))
           WW == Cardinality(WorkingOn(k)')
           S == Cardinality(Strays(k))
           SS == Cardinality(Strays(k)')
           U == IF Unknown(k) THEN 1 ELSE 0
           UU == IF Unknown(k)' THEN 1 ELSE 0
<1>1. /\ IsFiniteSet(WorkingOn(k)) /\ IsFiniteSet(Strays(k))
  BY SmallSets
<1>2. /\ worked[k] \in Nat /\ worked'[k] \in Nat /\ moves \in Nat /\ moves' \in Nat
      /\ evicted \in Nat /\ evicted' \in Nat
  BY DEF Shape, OutcomeType
<1>3. U \in {0, 1} /\ UU \in {0, 1} /\ ((Unknown(k)' => Unknown(k)) => UU <= U)
      /\ (Unknown(k) /\ ~Unknown(k)' => UU + 1 = U)
  OBVIOUS
<1>4. worked[k] + W + S + U <= 1 + moves + evicted
  BY DEF Owes
<1>5. WorkingOn(k)' \subseteq WorkingOn(k) => W \in Nat /\ WW \in Nat /\ WW <= W
  BY <1>1, FewerOf
<1>6. ASSUME NEW w, WorkingOn(k)' \subseteq WorkingOn(k) \cup {w}
      PROVE  W \in Nat /\ WW \in Nat /\ WW <= W + 1
  BY <1>1, <1>6, OneMoreOf
<1>7. ASSUME NEW w \in WorkingOn(k), WorkingOn(k)' \subseteq WorkingOn(k) \ {w}
      PROVE  W \in Nat /\ WW \in Nat /\ WW + 1 <= W
  BY <1>1, <1>7, OneLessOf
<1>8. Strays(k)' \subseteq Strays(k) => S \in Nat /\ SS \in Nat /\ SS <= S
  BY <1>1, FewerOf
<1>9. ASSUME NEW w, Strays(k)' \subseteq Strays(k) \cup {w}
      PROVE  S \in Nat /\ SS \in Nat /\ SS <= S + 1
  BY <1>1, <1>9, OneMoreOf
<1>10. ASSUME NEW w \in Strays(k), Strays(k)' \subseteq Strays(k) \ {w}
       PROVE  S \in Nat /\ SS \in Nat /\ SS + 1 <= S
  BY <1>1, <1>10, OneLessOf
<1>11. \/ /\ worked'[k] = worked[k] /\ W \in Nat /\ WW \in Nat /\ WW <= W
          /\ S \in Nat /\ SS \in Nat /\ SS <= S /\ UU <= U
          /\ moves' + evicted' >= moves + evicted
       \/ /\ worked'[k] = worked[k] /\ W \in Nat /\ WW \in Nat /\ WW <= W
          /\ S \in Nat /\ SS \in Nat /\ (SS <= S \/ (SS <= S + 1 /\ UU <= U))
          /\ moves' + evicted' = moves + evicted + 1
       \/ /\ worked'[k] = worked[k] + 1 /\ W \in Nat /\ WW \in Nat /\ WW + 1 <= W
          /\ S \in Nat /\ SS \in Nat /\ SS <= S /\ UU <= U
          /\ moves' + evicted' = moves + evicted
       \/ /\ worked'[k] = worked[k] /\ W \in Nat /\ WW \in Nat /\ WW <= W + 1
          /\ S \in Nat /\ SS \in Nat
          /\ \/ SS <= S /\ UU <= U /\ moves' + evicted' = moves + evicted + 1
             \/ SS + 1 <= S /\ UU <= U
             \/ SS <= S /\ UU + 1 = U
          /\ moves' + evicted' >= moves + evicted
  <2> HIDE DEF W, WW, S, SS, U, UU
  <2> QED BY <1>3, <1>5, <1>6, <1>7, <1>8, <1>9, <1>10 DEF Settles
<1>12. worked'[k] + WW + SS + UU <= 1 + moves' + evicted'
  <2> HIDE DEF W, WW, S, SS, U, UU
  <2> QED BY <1>2, <1>3, <1>4, <1>11
<1> QED BY <1>12 DEF Owes

LEMMA HereBelow ==
  /\ UNCHANGED <<batch, busy>> => \A k : WorkingOn(k)' = WorkingOn(k)
  /\ UNCHANGED <<batch, member, cache>> => \A k : Strays(k)' = Strays(k)
  /\ UNCHANGED <<log, owner, cache>> => \A k : Unknown(k)' = Unknown(k)
<1>1. UNCHANGED <<batch, busy>> => \A k : WorkingOn(k)' = WorkingOn(k)
  BY DEF WorkingOn, Task
<1>2. UNCHANGED <<batch, member, cache>> => \A k : Strays(k)' = Strays(k)
  BY DEF Strays, Has
<1>3. UNCHANGED <<log, owner, cache>> => \A k : Unknown(k)' = Unknown(k)
  BY DEF Unknown, InLog, LiesIn
<1> QED BY <1>1, <1>2, <1>3

LEMMA Counters ==
  ASSUME Shape
  PROVE  /\ moves \in Nat /\ evicted \in Nat
         /\ UNCHANGED <<moves, evicted>> => moves' + evicted' = moves + evicted
         /\ UNCHANGED <<moves, evicted>> => moves' + evicted' >= moves + evicted
         /\ Move /\ UNCHANGED evicted => moves' + evicted' = moves + evicted + 1
         /\ evicted' = evicted + 1 /\ UNCHANGED moves => moves' + evicted' = moves + evicted + 1
<1>1. moves \in Nat /\ evicted \in Nat
  BY DEF Shape, OutcomeType
<1>2. Move => moves' = moves + 1
  BY DEF Move
<1> QED BY <1>1, <1>2

\* A member that holds a record owns its partition.
LEMMA HeldLies ==
  ASSUME Shape, NEW w \in Workers, NEW k, Has(w, k)
  PROVE  \E p \in Partitions : LiesIn(p, k) /\ (member[w] => owner[p] = w)
<1>1. PICK i \in DOMAIN batch[w] : batch[w][i].key = k
  BY DEF Has
<1> DEFINE p == batch[w][1].partition
<1>2. p \in Partitions
  BY <1>1, BatchOf, HeadOf
<1>3. /\ \E j \in DOMAIN log[p] : log[p][j] = k
      /\ member[w] => owner[p] = w
  BY <1>1, BatchOf DEF Held
<1> QED BY <1>2, <1>3 DEF LiesIn

LEMMA AppendSettles ==
  ASSUME Shape, [Next]_vars, NEW j \in Keys, NEW p \in Partitions, AppendTask(j, p)
  PROVE  \A k \in Keys : Settles(k)
<1>1. /\ ~InLog(j) /\ log' = [log EXCEPT ![p] = Append(@, j)]
      /\ UNCHANGED <<worked, batch, busy, member, cache, owner, moves, evicted>>
  BY DEF AppendTask, worker, container, outcomes
<1>2. log'[p] = Append(log[p], j) /\ \A q \in Partitions : q # p => log'[q] = log[q]
  BY <1>1 DEF Shape, KafkaType
<1>3. /\ Len(log[p]) \in Nat /\ DOMAIN log[p] = 1 .. Len(log[p])
      /\ log'[p] \in Seq(Keys) /\ Len(log'[p]) = Len(log[p]) + 1
      /\ \A i \in 1 .. Len(log[p]) : log'[p][i] = log[p][i]
      /\ log'[p][Len(log[p]) + 1] = j
  BY <1>2, LogOf, AppendProperties
<1>4. DOMAIN log'[p] = 1 .. Len(log[p]) + 1
  BY <1>3, LenProperties
<1>5. ASSUME NEW k \in Keys, k # j
      PROVE  /\ \A q \in Partitions : LiesIn(q, k)' <=> LiesIn(q, k)
             /\ InLog(k)' <=> InLog(k)
  <2>1. \A q \in Partitions : LiesIn(q, k)' <=> LiesIn(q, k)
    <3>1. LiesIn(p, k)' <=> LiesIn(p, k)
      BY <1>3, <1>4, <1>5, SMTT(30) DEF LiesIn
    <3>2. ASSUME NEW q \in Partitions, q # p
          PROVE  LiesIn(q, k)' <=> LiesIn(q, k)
      <4>1. log'[q] = log[q]
        BY <1>2, <3>2
      <4> QED BY <4>1 DEF LiesIn
    <3> QED BY <3>1, <3>2
  <2> QED BY <2>1 DEF InLog, LiesIn
<1>6. \A k \in Keys : Unknown(k)' => Unknown(k)
  BY <1>1, <1>5 DEF Unknown
<1> QED BY <1>1, <1>6, HereBelow, Counters DEF Settles

LEMMA PollSettles ==
  ASSUME Shape, NEW w \in Workers, Poll(w)
  PROVE  \A k \in Keys : Settles(k)
<1>1. /\ member[w] /\ ~busy[w] /\ \A v \in Workers \ {w} : batch'[v] = batch[v]
      /\ UNCHANGED <<worked, log, owner, busy, member, cache, moves, evicted>>
  BY DEF Poll, kafka, outcomes, Shape, ContainerType
<1>2. \A k : WorkingOn(k)' = WorkingOn(k)
  BY <1>1 DEF WorkingOn, Task
<1>3. \A k : Strays(k)' = Strays(k)
  BY <1>1 DEF Strays, Has
<1> QED BY <1>1, <1>2, <1>3, HereBelow, Counters DEF Settles

LEMMA RejoinSettles ==
  ASSUME Shape, NEW w \in Workers, Rejoin(w)
  PROVE  \A k \in Keys : Settles(k)
<1>1. /\ \A v \in Workers : member[v] => member'[v]
      /\ UNCHANGED <<worked, log, owner, batch, busy, cache, moves, evicted>>
  BY DEF Rejoin, kafka, outcomes, Shape, ContainerType
<1>2. \A k : Strays(k)' \subseteq Strays(k)
  BY <1>1 DEF Strays, Has
<1> QED BY <1>1, <1>2, HereBelow, Counters DEF Settles

LEMMA RebalanceSettles ==
  ASSUME Shape, NEW p \in Partitions, Rebalance(p)
  PROVE  \A k \in Keys : Settles(k)
<1>1. UNCHANGED <<worked, batch, busy, member, cache, evicted>> /\ Move
  BY DEF Rebalance, outcomes
<1> QED BY <1>1, HereBelow, Counters DEF Settles

LEMMA ExpelSettles ==
  ASSUME Shape, NEW w \in Workers, Expel(w)
  PROVE  \A k \in Keys : Settles(k)
<1>1. /\ member[w] /\ Move /\ \A v \in Workers \ {w} : member'[v] = member[v]
      /\ UNCHANGED <<worked, log, batch, busy, cache, evicted>>
  BY DEF Expel, outcomes, Shape, ContainerType
<1>2. ASSUME NEW k \in Keys
      PROVE  \/ Strays(k)' \subseteq Strays(k)
             \/ Strays(k)' \subseteq Strays(k) \cup {w} /\ Unknown(k)
  <2>1. Strays(k)' \subseteq Strays(k) \cup {w}
    BY <1>1 DEF Strays, Has
  <2>2. CASE Has(w, k) /\ k \notin cache[w]
    <3>1. Unknown(k)
      BY <1>1, <2>2, HeldLies DEF Unknown
    <3> QED BY <2>1, <3>1
  <2>3. CASE ~(Has(w, k) /\ k \notin cache[w])
    BY <1>1, <2>3 DEF Strays, Has
  <2> QED BY <2>2, <2>3
<1> QED BY <1>1, <1>2, HereBelow, Counters DEF Settles

LEMMA CrashSettles ==
  ASSUME Shape, NEW w \in Workers, CrashWorker(w)
  PROVE  \A k \in Keys : Settles(k)
<1>1. /\ Move /\ UNCHANGED <<worked, log, evicted>> /\ member'[w] /\ ~busy'[w]
      /\ \A v \in Workers \ {w} : /\ member'[v] = member[v] /\ busy'[v] = busy[v]
                                  /\ batch'[v] = batch[v] /\ cache'[v] = cache[v]
  BY DEF CrashWorker, outcomes, Shape, ContainerType, OutcomeType
<1>2. \A k : WorkingOn(k)' \subseteq WorkingOn(k)
  BY <1>1 DEF WorkingOn, Task
<1>3. \A k : Strays(k)' \subseteq Strays(k)
  BY <1>1 DEF Strays, Has
<1> QED BY <1>1, <1>2, <1>3, Counters DEF Settles

LEMMA GivesSettles ==
  ASSUME Shape, NEW w \in Workers, Gives(w)
  PROVE  \A k \in Keys : Settles(k)
<1>1. /\ batch[w] # <<>> /\ Task(w) \in Keys
      /\ \A k \in Keys : k # Task(w) => worked'[k] = worked[k]
      /\ busy[w] => worked'[Task(w)] = worked[Task(w)] + 1
      /\ ~busy[w] => worked' = worked
      /\ UNCHANGED <<log, owner, member, cache, evicted, moves>>
  BY GivesTask
<1>2. /\ \A v \in Workers \ {w} : batch'[v] = batch[v] /\ busy'[v] = busy[v]
      /\ ~busy'[w]
      /\ \A k : Has(w, k)' => Has(w, k)
  <2>1. CASE ListenerReturns(w)
    BY <1>1, <2>1, ReturnEffect DEF Has
  <2>2. CASE ListenerThrows(w)
    BY <2>2 DEF ListenerThrows, Has, Shape, ContainerType
  <2> QED BY <2>1, <2>2 DEF Gives, ConsumeDuplicate, Finish, Interrupt
<1>3. \A k : Strays(k)' \subseteq Strays(k)
  BY <1>1, <1>2 DEF Strays, Has
<1>4. \A k : WorkingOn(k)' \subseteq WorkingOn(k) \ {w}
  BY <1>2 DEF WorkingOn, Task
<1>5. moves' + evicted' = moves + evicted /\ moves' + evicted' >= moves + evicted
  BY <1>1, Counters
<1>6. ASSUME NEW k \in Keys, busy[w], k = Task(w)
      PROVE  Settles(k)
  <2>1. w \in WorkingOn(k) /\ worked'[k] = worked[k] + 1
    BY <1>1, <1>6 DEF WorkingOn
  <2> QED BY <1>1, <1>3, <1>4, <1>5, <2>1, HereBelow DEF Settles
<1>7. ASSUME NEW k \in Keys, ~(busy[w] /\ k = Task(w))
      PROVE  Settles(k)
  <2>1. worked'[k] = worked[k]
    BY <1>1, <1>7
  <2> QED BY <1>1, <1>3, <1>4, <1>5, <2>1, HereBelow DEF Settles
<1> QED BY <1>6, <1>7

LEMMA ConsumeNewSettles ==
  ASSUME Shape, NEW w \in Workers, ConsumeNew(w), NEW j, j = Task(w)
  PROVE  \A k \in Keys : Settles(k)
<1>1. /\ batch[w] # <<>> /\ ~busy[w] /\ j \notin cache[w] /\ Remember(w, j)
      /\ busy' = [busy EXCEPT ![w] = TRUE] /\ busy \in [Workers -> BOOLEAN]
      /\ UNCHANGED <<log, owner, batch, member, worked, moves>>
  BY DEF ConsumeNew, kafka, outcomes, Shape, ContainerType
<1>2. j \in Keys /\ 1 \in DOMAIN batch[w] /\ Has(w, j)
  BY <1>1, HeadOf, BatchOf DEF Has, Task
<1>3. /\ \A v \in Workers \ {w} : cache'[v] = cache[v]
      /\ \/ cache'[w] = cache[w] \cup {j} /\ evicted' = evicted
         \/ \E v \in Keys : cache'[w] = (cache[w] \cup {j}) \ {v} /\ evicted' = evicted + 1
  BY <1>1, <1>2, RememberType
<1>4. \A k : WorkingOn(k)' \subseteq WorkingOn(k) \cup (IF k = j THEN {w} ELSE {})
  BY <1>1 DEF WorkingOn, Task
<1>5. PICK q \in Partitions : LiesIn(q, j) /\ (member[w] => owner[q] = w)
  BY <1>2, HeldLies
<1>6. \A p \in Partitions : owner[p] \in Workers
  BY DEF Shape, KafkaType
<1>7. moves' + evicted' >= moves + evicted
  BY <1>1, <1>3, Counters
<1>8. ASSUME evicted' # evicted
      PROVE  moves' + evicted' = moves + evicted + 1
  BY <1>1, <1>3, <1>8, Counters
\* What the cache holds that it held before, and what it does not, is known as before.
<1>9. ASSUME NEW k \in Keys, k \in cache[w] => k \in cache'[w]
      PROVE  Strays(k)' \subseteq Strays(k) /\ (Unknown(k)' => Unknown(k))
  <2>1. \A v \in Workers : k \in cache[v] => k \in cache'[v]
    BY <1>3, <1>9
  <2>2. Strays(k)' \subseteq Strays(k)
    BY <1>1, <2>1 DEF Strays, Has
  <2>3. Unknown(k)' => Unknown(k)
    BY <1>1, <1>6, <2>1 DEF Unknown, InLog, LiesIn
  <2> QED BY <2>2, <2>3
<1>10. ASSUME NEW k \in Keys, k # j
       PROVE  Settles(k)
  <2>1. worked'[k] = worked[k] /\ WorkingOn(k)' \subseteq WorkingOn(k)
    BY <1>1, <1>4, <1>10
  <2>2. CASE k \in cache[w] => k \in cache'[w]
    BY <1>7, <1>9, <2>1, <2>2 DEF Settles
  <2>3. CASE k \in cache[w] /\ k \notin cache'[w]
    <3>1. moves' + evicted' = moves + evicted + 1
      BY <1>3, <1>8, <2>3, Counters
    <3>2. CASE member[w]
      <4>1. Strays(k)' \subseteq Strays(k)
        BY <1>1, <1>3, <3>2 DEF Strays, Has
      <4> QED BY <2>1, <3>1, <4>1 DEF Settles
    <3>3. CASE ~member[w]
      <4>1. Strays(k)' \subseteq Strays(k) \cup {w}
        BY <1>1, <1>3 DEF Strays, Has
      <4>2. \A p \in Partitions : cache'[owner[p]] = cache[owner[p]]
        BY <1>3, <1>6, <3>3 DEF Shape, OwnersAreMembers
      <4>3. Unknown(k)' => Unknown(k)
        BY <1>1, <4>2 DEF Unknown, InLog, LiesIn
      <4> QED BY <2>1, <3>1, <4>1, <4>3 DEF Settles
    <3> QED BY <3>2, <3>3
  <2> QED BY <2>2, <2>3
<1>11. Settles(j)
  <2>1. worked'[j] = worked[j] /\ WorkingOn(j)' \subseteq WorkingOn(j) \cup {w}
    BY <1>1, <1>4
  <2>2. Strays(j)' \subseteq Strays(j) /\ (Unknown(j)' => Unknown(j))
    BY <1>1, <1>2, <1>9
  <2>3. CASE j \notin cache'[w]
    <3>1. moves' + evicted' = moves + evicted + 1
      BY <1>3, <1>8, <2>3, Counters
    <3> QED BY <1>7, <2>1, <2>2, <3>1 DEF Settles
  <2>4. CASE j \in cache'[w] /\ ~member[w]
    <3>1. w \in Strays(j) /\ w \notin Strays(j)'
      BY <1>1, <1>2, <2>4 DEF Strays
    <3> QED BY <1>7, <2>1, <2>2, <3>1 DEF Settles
  <2>5. CASE j \in cache'[w] /\ member[w]
    <3>1. Unknown(j)
      BY <1>1, <1>5, <2>5 DEF Unknown
    <3>2. \A p \in Partitions : LiesIn(p, j) => p = q
      BY <1>5 DEF Shape, OnePlace, LiesIn
    <3>3. ~Unknown(j)'
      <4>1. InLog(j)'
        BY <1>1, <1>5 DEF InLog, LiesIn
      <4>2. \A p \in Partitions : LiesIn(p, j)' => p = q
        BY <1>1, <3>2 DEF LiesIn
      <4> QED BY <1>1, <1>5, <2>5, <4>1, <4>2 DEF Unknown
    <3> QED BY <1>7, <2>1, <2>2, <3>1, <3>3 DEF Settles
  <2> QED BY <2>3, <2>4, <2>5
<1> QED BY <1>10, <1>11

LEMMA TakesSettle ==
  ASSUME Shape, NEW w \in Workers, ConsumeNew(w)
  PROVE  \A k \in Keys : Settles(k)
<1>1. \E j : j = Task(w)
  OBVIOUS
<1> QED BY <1>1, ConsumeNewSettles

LEMMA OthersSettle ==
  ASSUME Shape,
         \/ UNCHANGED vars
         \/ \E b \in Batches : ProducerStep(b) \/ SendThrows(b)
         \/ \E k \in Keys : Ack(k) \/ Expire(k)
         \/ \E w \in Workers : Commit(w)
  PROVE  \A k \in Keys : Settles(k)
<1>1. UNCHANGED <<worked, log, owner, batch, busy, member, cache, moves, evicted>>
  BY DEF vars, kafka, worker, container, outcomes, ProducerStep, Publish, Send, Join,
     SendThrows,
         Ack, Expire, Commit
<1> QED BY <1>1, HereBelow, Counters DEF Settles

LEMMA DebtStep ==
  ASSUME Shape, Shape', DebtIsPaid, [Next]_vars
  PROVE  DebtIsPaid'
<1>1. \A k \in Keys : Settles(k)
  BY AppendSettles, PollSettles, RejoinSettles, RebalanceSettles, ExpelSettles, CrashSettles,
     GivesSettles, TakesSettle, OthersSettle
     DEF Next, BrokerStep, WorkerStep, Failures, Gives
<1> QED BY <1>1, Settled DEF DebtIsPaid

LEMMA NothingOwed == Init => DebtIsPaid
<1> SUFFICES ASSUME Init, NEW k \in Keys
             PROVE  Owes(k) <= 1 + moves + evicted
  BY DEF DebtIsPaid
<1>1. WorkingOn(k) = {} /\ Strays(k) = {}
  BY DEF Init, WorkingOn, Strays
<1>2. Cardinality(WorkingOn(k)) = 0 /\ Cardinality(Strays(k)) = 0
  BY <1>1, FS_EmptySet
<1>3. worked[k] = 0 /\ moves = 0 /\ evicted = 0
  BY DEF Init
<1> QED BY <1>2, <1>3 DEF Owes

\* The cache does its work: whatever crashes, is expelled, moves or is delivered again, in a
\* group of any size, each further time a task is worked has a move or an eviction of its own.
THEOREM ReworkHasItsCause == Spec => []ReworkIsExplained
<1>1. IInv /\ DebtIsPaid /\ [Next]_vars => DebtIsPaid'
  BY Inductive, DebtStep DEF IInv
<1>2. Init => DebtIsPaid
  BY NothingOwed
<1>3. IInv /\ DebtIsPaid => ReworkIsExplained
  <2> SUFFICES ASSUME IInv, DebtIsPaid, NEW k \in Keys
               PROVE  worked[k] <= 1 + moves + evicted
    BY DEF ReworkIsExplained
  <2>1. Cardinality(WorkingOn(k)) \in Nat /\ Cardinality(Strays(k)) \in Nat
    BY SmallSets, FS_CardinalityType
  <2>2. worked[k] \in Nat /\ moves \in Nat /\ evicted \in Nat
    BY DEF IInv, Shape, OutcomeType
  <2>3. Owes(k) <= 1 + moves + evicted
    BY DEF DebtIsPaid
  <2> QED BY <2>1, <2>2, <2>3 DEF Owes
<1> QED BY <1>1, <1>2, <1>3, Invariant, PTL DEF Spec

=============================================================================

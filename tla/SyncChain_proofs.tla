-------------------------- MODULE SyncChain_proofs --------------------------
(***************************************************************************)
(* What the client of a chain is told is what happened, no hop begins its  *)
(* work after the deadline, and no service uses more threads than it has,  *)
(* for any number of requests, hops, services, threads and connections     *)
(* that break. The invariant is about one request at a time: Path says     *)
(* where its calls are, Replies what they were answered, and Unbroken what *)
(* a broken connection leaves for the client.                              *)
(***************************************************************************)
EXTENDS SyncChain, FiniteSetTheorems, TLAPS

-----------------------------------------------------------------------------

Specs == [hops : HopIndex, deadline : BOOLEAN, fails : BOOLEAN]
Responses == [code : {0, 200, 500, 504}, completed : HopIndex]
Marks == [begun : HopIndex, worked : HopIndex]

\* TypeOK without the thread pools.
Shape ==
  /\ spec \in [Requests -> Specs]
  /\ stage \in [Requests -> [HopIndex -> Stages]]
  /\ reply \in [Requests -> [HopIndex -> Responses]]
  /\ answer \in [Requests -> Responses]
  /\ expired \in [Requests -> BOOLEAN]
  /\ begun \in [Requests -> HopIndex]
  /\ worked \in [Requests -> HopIndex]
  /\ atExpiry \in [Requests -> Marks]
  /\ broken \subseteq Requests
  /\ faults \in 0 .. MaxFaults

Pools == \A i \in DOMAIN Services : Busy(Services[i]) <= Threads

\* One hop at a time is called or works, and the hops above it have done their work,
\* whoever still waits for them.
PathAt(r, i) ==
  /\ stage[r][i] = "CALLED" => /\ begun[r] = worked[r]
                               /\ IF i = 0 THEN worked[r] = 0 ELSE i = worked[r] + 1
  /\ stage[r][i] = "WORKING" => i > 0 /\ begun[r] = i /\ worked[r] = i - 1
  /\ stage[r][i] = "WAITING" => i < spec[r].hops
  /\ stage[r][i] # "NONE" => i <= spec[r].hops /\ i <= worked[r] + 1
  /\ stage[r][i] \in {"CALLED", "WORKING"} =>
       \A j \in HopIndex : j > i => stage[r][j] = "NONE"

Path(r) ==
  /\ \A i \in HopIndex : PathAt(r, i)
  /\ spec[r].fails => worked[r] = 0

\* A response of a hop or of the gateway says what happened.
Explained(r, response) ==
  /\ response.code \in {200, 500, 504}
  /\ response.code = 200 =>
       /\ response.completed = spec[r].hops
       /\ worked[r] = spec[r].hops
       /\ expired[r] => atExpiry[r].worked = spec[r].hops
  /\ response.code = 504 => expired[r]
  /\ response.code = 500 =>
       r \in broken \/ (spec[r].fails /\ begun[r] = 1) \/ (expired[r] /\ worked[r] > 0)

Replies(r) ==
  /\ \A i \in HopIndex : stage[r][i] = "REPLIED" => Explained(r, reply[r][i])
  /\ answer[r] # NoReply => Explained(r, answer[r])

\* A broken connection ends as a 500 of the gateway or is on its way there: every
\* caller above hop i waits or has failed.
DoomedAt(r, i) ==
  /\ stage[r][i] = "REPLIED" /\ reply[r][i].code = 500
  /\ \A j \in HopIndex : j < i =>
       stage[r][j] = "WAITING" \/ (stage[r][j] = "REPLIED" /\ reply[r][j].code = 500)

Doomed(r) ==
  \/ answer[r].code = 500
  \/ answer[r] = NoReply /\ \E i \in HopIndex : DoomedAt(r, i)

\* As long as none broke, the hops below one that replied are through.
Intact(r) ==
  /\ \A i \in HopIndex : stage[r][i] = "REPLIED" =>
       \A j \in HopIndex : j > i => stage[r][j] \in {"NONE", "REPLIED"}
  /\ \A i \in HopIndex : stage[r][i] # "NONE" =>
       \A j \in HopIndex : j < i => stage[r][j] \in {"WAITING", "REPLIED"}
  /\ answer[r] # NoReply => stage[r][0] = "REPLIED"

Unbroken(r) == IF r \in broken THEN Doomed(r) ELSE Intact(r)

InTime(r) ==
  /\ expired[r] => begun[r] <= atExpiry[r].begun
  /\ ~expired[r] => atExpiry[r].begun = MaxHops

Good(r) == Path(r) /\ Replies(r) /\ Unbroken(r) /\ InTime(r)

IInv == Shape /\ Pools /\ \A r \in Requests : Good(r)

-----------------------------------------------------------------------------
\* The pools.

Held(s) == {h \in Requests \X (1 .. MaxHops) :
              h[2] \in Holds(h[1]) /\ Service(h[2]) = s}

LEMMA HeldFinite == \A s : IsFiniteSet(Held(s)) /\ Busy(s) = Cardinality(Held(s))
<1> TAKE s
<1>1. IsFiniteSet(Requests \X (1 .. MaxHops))
  <2>1. IsFiniteSet(1 .. MaxHops)
    BY ChainAssumption, FS_Interval
  <2> QED BY <2>1, ChainAssumption, FS_Product
<1>2. Held(s) \in SUBSET (Requests \X (1 .. MaxHops))
  BY DEF Held
<1> QED BY <1>1, <1>2, FS_Subset DEF Busy, Held

\* Calls that end or wait make no pool fuller.
LEMMA PoolsShrink ==
  ASSUME Pools, \A r \in Requests : Holds(r)' \subseteq Holds(r)
  PROVE  Pools'
<1> SUFFICES ASSUME NEW i \in DOMAIN Services
             PROVE  Busy(Services[i])' <= Threads
  BY DEF Pools
<1> DEFINE s == Services[i]
<1>1. Held(s)' \in SUBSET Held(s)
  BY DEF Held
<1>2. IsFiniteSet(Held(s)) /\ Busy(s) = Cardinality(Held(s))
  BY HeldFinite
<1>3. Busy(s)' = Cardinality(Held(s)')
  BY DEF Busy, Held
<1>4. Cardinality(Held(s)') <= Cardinality(Held(s)) /\ IsFiniteSet(Held(s)')
  BY <1>1, <1>2, FS_Subset
<1>5. Cardinality(Held(s)') \in Nat /\ Cardinality(Held(s)) \in Nat
  BY <1>2, <1>4, FS_CardinalityType
<1>6. Busy(s) <= Threads
  BY DEF Pools
<1> QED BY <1>2, <1>3, <1>4, <1>5, <1>6, ChainAssumption

\* The one step that takes a thread has found one free.
LEMMA PoolsGrow ==
  ASSUME Pools, NEW q \in Requests, NEW n \in 1 .. MaxHops, ThreadFree(n),
         Holds(q)' \subseteq Holds(q) \cup {n},
         \A r \in Requests \ {q} : Holds(r)' \subseteq Holds(r)
  PROVE  Pools'
<1> SUFFICES ASSUME NEW i \in DOMAIN Services
             PROVE  Busy(Services[i])' <= Threads
  BY DEF Pools
<1> DEFINE s == Services[i]
           h == <<q, n>>
<1>1. IsFiniteSet(Held(s)) /\ Busy(s) = Cardinality(Held(s))
  BY HeldFinite
<1>2. Busy(s)' = Cardinality(Held(s)')
  BY DEF Busy, Held
<1>3. Busy(s) <= Threads
  BY DEF Pools
<1>4. Cardinality(Held(s)) \in Nat
  BY <1>1, FS_CardinalityType
<1>5. CASE Service(n) = s
  <2>1. Busy(s) < Threads
    BY <1>5 DEF ThreadFree
  <2>2. Held(s)' \in SUBSET (Held(s) \cup {h})
    <3> SUFFICES ASSUME NEW x \in Held(s)', x \notin Held(s)
                 PROVE  x = h
      OBVIOUS
    <3>1. x \in Requests \X (1 .. MaxHops) /\ x[2] \in Holds(x[1])' /\ Service(x[2]) = s
      BY DEF Held
    <3>2. x[2] \notin Holds(x[1])
      BY <3>1 DEF Held
    <3>3. x[1] = q /\ x[2] = n
      BY <3>1, <3>2
    <3> QED BY <3>1, <3>3
  <2>3. /\ IsFiniteSet(Held(s) \cup {h})
        /\ Cardinality(Held(s) \cup {h}) <= Cardinality(Held(s)) + 1
        /\ Cardinality(Held(s) \cup {h}) \in Nat
    <3> HIDE DEF s, h
    <3>1. /\ IsFiniteSet(Held(s) \cup {h})
          /\ \/ Cardinality(Held(s) \cup {h}) = Cardinality(Held(s))
             \/ Cardinality(Held(s) \cup {h}) = Cardinality(Held(s)) + 1
      BY <1>1, FS_AddElement
    <3> QED BY <1>4, <3>1
  <2>4. IsFiniteSet(Held(s)') /\ Cardinality(Held(s)') <= Cardinality(Held(s) \cup {h})
    BY <2>2, <2>3, FS_Subset
  <2>5. Cardinality(Held(s)') \in Nat
    BY <2>4, FS_CardinalityType
  <2> QED BY <1>1, <1>2, <1>4, <2>1, <2>3, <2>4, <2>5, ChainAssumption
<1>6. CASE Service(n) # s
  <2>1. Held(s)' \in SUBSET Held(s)
    BY <1>6 DEF Held
  <2>2. IsFiniteSet(Held(s)') /\ Cardinality(Held(s)') <= Cardinality(Held(s))
    BY <1>1, <2>1, FS_Subset
  <2>3. Cardinality(Held(s)') \in Nat
    BY <2>2, FS_CardinalityType
  <2> QED BY <1>1, <1>2, <1>3, <1>4, <2>2, <2>3, ChainAssumption
<1> QED BY <1>5, <1>6

-----------------------------------------------------------------------------
\* A step is about one request.

Untouched(q) ==
  /\ stage'[q] = stage[q] /\ reply'[q] = reply[q] /\ answer'[q] = answer[q]
  /\ expired'[q] = expired[q] /\ begun'[q] = begun[q] /\ worked'[q] = worked[q]
  /\ atExpiry'[q] = atExpiry[q] /\ (q \in broken' <=> q \in broken)

LEMMA UntouchedStays ==
  ASSUME spec' = spec, NEW q, Good(q), Untouched(q)
  PROVE  Good(q)' /\ Holds(q)' = Holds(q)
<1>1. Path(q)'
  BY DEF Good, Untouched, Path, PathAt
<1>2. Replies(q)'
  BY DEF Good, Untouched, Replies, Explained
<1>3. Unbroken(q)' /\ InTime(q)'
  BY DEF Good, Untouched, Unbroken, Doomed, DoomedAt, Intact, InTime
<1> QED BY <1>1, <1>2, <1>3 DEF Good, Untouched, Holds

\* So it is enough to look at the request of the step.
LEMMA OneRequest ==
  ASSUME IInv, NEW r \in Requests, spec' = spec, Shape', Good(r)',
         \A q \in Requests \ {r} : Untouched(q),
         \/ Holds(r)' \subseteq Holds(r)
         \/ \E n \in 1 .. MaxHops : ThreadFree(n) /\ Holds(r)' \subseteq Holds(r) \cup {n}
  PROVE  IInv'
<1>1. \A q \in Requests \ {r} : Good(q)' /\ Holds(q)' = Holds(q)
  BY UntouchedStays DEF IInv
<1>2. Pools'
  <2>1. CASE Holds(r)' \subseteq Holds(r)
    <3>1. \A q \in Requests : Holds(q)' \subseteq Holds(q)
      BY <1>1, <2>1
    <3> QED BY <3>1, PoolsShrink DEF IInv
  <2>2. ASSUME NEW n \in 1 .. MaxHops, ThreadFree(n), Holds(r)' \subseteq Holds(r) \cup {n}
        PROVE  Pools'
    BY <1>1, <2>2, PoolsGrow DEF IInv
  <2> QED BY <2>1, <2>2
<1>3. \A q \in Requests : Good(q)'
  BY <1>1
<1> QED BY <1>2, <1>3 DEF IInv

-----------------------------------------------------------------------------

LEMMA InitIInv == Init => IInv
<1> SUFFICES ASSUME Init
             PROVE  IInv
  OBVIOUS
<1> USE ChainAssumption
<1>0. 0 \in HopIndex /\ MaxHops \in HopIndex
  BY DEF HopIndex
<1>1. Shape
  <2>1. NoReply \in Responses
    BY <1>0 DEF NoReply, Responses
  <2> QED BY <1>0, <2>1 DEF Init, Shape, Specs, Marks, Stages
<1>2. Pools
  <2> SUFFICES ASSUME NEW i \in DOMAIN Services
               PROVE  Busy(Services[i]) <= Threads
    BY DEF Pools
  <2>1. Held(Services[i]) = {}
    BY DEF Init, Held, Holds, HopIndex
  <2>2. Busy(Services[i]) = Cardinality(Held(Services[i]))
    BY HeldFinite
  <2>3. Cardinality({}) = 0
    BY FS_EmptySet
  <2> QED BY <2>1, <2>2, <2>3
<1>3. ASSUME NEW r \in Requests
      PROVE  Good(r)
  <2>1. /\ \A i \in HopIndex : stage[r][i] = IF i = 0 THEN "CALLED" ELSE "NONE"
        /\ begun[r] = 0 /\ worked[r] = 0 /\ answer[r] = NoReply /\ r \notin broken
        /\ ~expired[r] /\ atExpiry[r].begun = MaxHops /\ spec[r].hops \in Nat
    BY DEF Init, HopIndex
  <2>2. Path(r)
    BY <2>1, <1>0 DEF Path, PathAt, HopIndex
  <2>3. Replies(r) /\ InTime(r)
    BY <2>1 DEF Replies, InTime
  <2>4. Unbroken(r)
    BY <2>1 DEF Unbroken, Intact, HopIndex
  <2> QED BY <2>2, <2>3, <2>4 DEF Good
<1> QED BY <1>1, <1>2, <1>3 DEF IInv

-----------------------------------------------------------------------------
\* What a response and a call change, field by field.

LEMMA IndexFacts ==
  /\ 0 \in HopIndex /\ MaxHops \in Nat
  /\ \A i \in HopIndex : i \in Nat
  /\ \A i \in 1 .. MaxHops : i \in HopIndex /\ i - 1 \in HopIndex /\ i > 0
  /\ \A i \in HopIndex : i # 0 => i \in 1 .. MaxHops
  /\ \A i \in HopIndex : i < MaxHops => i + 1 \in HopIndex
BY ChainAssumption DEF HopIndex

LEMMA ResponseTypes ==
  /\ ServerError \in Responses /\ ServerError.code = 500
  /\ \A i \in HopIndex : /\ Completed(i) \in Responses /\ Completed(i).code = 200
                         /\ Completed(i).completed = i
                         /\ DeadlineExceeded(i) \in Responses
                         /\ DeadlineExceeded(i).code = 504
BY IndexFacts DEF ServerError, Completed, DeadlineExceeded, Responses

LEMMA RespondEffect ==
  ASSUME Shape, NEW r \in Requests, NEW i \in HopIndex, NEW p \in Responses, Respond(r, i, p)
  PROVE  /\ stage' \in [Requests -> [HopIndex -> Stages]]
         /\ reply' \in [Requests -> [HopIndex -> Responses]]
         /\ stage'[r][i] = "REPLIED" /\ reply'[r][i] = p
         /\ \A j \in HopIndex \ {i} :
              stage'[r][j] = stage[r][j] /\ reply'[r][j] = reply[r][j]
         /\ \A q \in Requests \ {r} : stage'[q] = stage[q] /\ reply'[q] = reply[q]
         /\ Holds(r)' \subseteq Holds(r)
<1>1. stage[r] \in [HopIndex -> Stages] /\ reply[r] \in [HopIndex -> Responses]
  BY DEF Shape
<1> DEFINE s == [stage[r] EXCEPT ![i] = "REPLIED"]
           t == [reply[r] EXCEPT ![i] = p]
<1>2. stage' = [stage EXCEPT ![r] = s] /\ reply' = [reply EXCEPT ![r] = t]
  BY DEF Respond
<1>3. s \in [HopIndex -> Stages] /\ s[i] = "REPLIED" /\ \A j \in HopIndex \ {i} : s[j] = stage[r][j]
  BY <1>1 DEF Stages
<1>4. t \in [HopIndex -> Responses] /\ t[i] = p /\ \A j \in HopIndex \ {i} : t[j] = reply[r][j]
  BY <1>1
<1> HIDE DEF s, t
<1>5. stage'[r] = s /\ reply'[r] = t
  BY <1>2 DEF Shape
<1>6. /\ stage' \in [Requests -> [HopIndex -> Stages]]
      /\ reply' \in [Requests -> [HopIndex -> Responses]]
      /\ \A q \in Requests \ {r} : stage'[q] = stage[q] /\ reply'[q] = reply[q]
  BY <1>2, <1>3, <1>4 DEF Shape
<1>7. Holds(r)' \subseteq Holds(r)
  BY <1>3, <1>5, IndexFacts DEF Holds
<1> QED BY <1>3, <1>4, <1>5, <1>6, <1>7

LEMMA CallNextEffect ==
  ASSUME Shape, NEW r \in Requests, NEW i \in HopIndex, i + 1 \in HopIndex, CallNext(r, i),
         i = 0 \/ stage[r][i] = "WORKING"
  PROVE  /\ stage' \in [Requests -> [HopIndex -> Stages]]
         /\ reply' = reply
         /\ stage'[r][i] = "WAITING" /\ stage'[r][i + 1] = "CALLED"
         /\ \A j \in HopIndex \ {i, i + 1} : stage'[r][j] = stage[r][j]
         /\ \A q \in Requests \ {r} : stage'[q] = stage[q]
         /\ Holds(r)' \subseteq Holds(r)
<1>0. i + 1 # i /\ i \in Nat
  BY IndexFacts
<1>1. stage[r] \in [HopIndex -> Stages]
  BY DEF Shape
<1> DEFINE s == [stage[r] EXCEPT ![i] = "WAITING", ![i + 1] = "CALLED"]
<1>2. stage' = [stage EXCEPT ![r] = s] /\ reply' = reply
  BY DEF CallNext, Shape
<1>3. /\ s \in [HopIndex -> Stages] /\ s[i] = "WAITING" /\ s[i + 1] = "CALLED"
      /\ \A j \in HopIndex \ {i, i + 1} : s[j] = stage[r][j]
  BY <1>0, <1>1 DEF Stages
<1> HIDE DEF s
<1>4. stage'[r] = s
  BY <1>2 DEF Shape
<1>5. /\ stage' \in [Requests -> [HopIndex -> Stages]]
      /\ \A q \in Requests \ {r} : stage'[q] = stage[q]
  BY <1>2, <1>3 DEF Shape
<1>6. Holds(r)' \subseteq Holds(r)
  <2> SUFFICES ASSUME NEW j \in 1 .. MaxHops, s[j] \in {"WORKING", "WAITING"}
               PROVE  stage[r][j] \in {"WORKING", "WAITING"}
    BY <1>4 DEF Holds
  <2>1. j # 0 /\ j \in HopIndex
    BY IndexFacts
  <2> QED BY <2>1, <1>3
<1> QED BY <1>2, <1>3, <1>4, <1>5, <1>6

-----------------------------------------------------------------------------
\* Responses and calls keep the path of a request, and what its client can expect.

LEMMA RespondKeepsPath ==
  ASSUME IInv, NEW r \in Requests, NEW i \in HopIndex, NEW p \in Responses, Respond(r, i, p),
         spec' = spec, begun' = begun, stage[r][i] # "NONE",
         \/ worked' = worked
         \/ stage[r][i] = "WORKING" /\ ~spec[r].fails /\ worked'[r] = worked[r] + 1
  PROVE  Path(r)'
<1>1. /\ stage'[r][i] = "REPLIED"
      /\ \A j \in HopIndex \ {i} : stage'[r][j] = stage[r][j]
  BY RespondEffect DEF IInv
<1>2. Path(r) /\ worked[r] \in Nat /\ worked'[r] \in Nat /\ i \in Nat
  BY IndexFacts DEF IInv, Good, Shape
<1>3. ASSUME NEW j \in HopIndex
      PROVE  PathAt(r, j)'
  <2>1. PathAt(r, j) /\ PathAt(r, i) /\ j \in Nat
    BY <1>2, IndexFacts DEF Path
  <2>2. CASE j = i
    BY <2>1, <2>2, <1>1, <1>2 DEF PathAt
  <2>3. CASE j # i
    <3>1. stage'[r][j] = stage[r][j] /\ (j > i \/ i > j)
      BY <2>1, <2>3, <1>1, <1>2
    <3>2. ~(stage[r][j] \in {"CALLED", "WORKING"} /\ stage[r][i] \in {"CALLED", "WORKING"})
      BY <3>1, <2>1 DEF PathAt
    <3>3. ASSUME stage[r][j] \in {"CALLED", "WORKING"}, NEW k \in HopIndex, k > j
          PROVE  stage'[r][k] = "NONE"
      BY <3>3, <2>1, <1>1 DEF PathAt
    <3> QED BY <3>1, <3>2, <3>3, <2>1, <1>2 DEF PathAt
  <2> QED BY <2>2, <2>3
<1> QED BY <1>2, <1>3 DEF Path

LEMMA CallNextKeepsPath ==
  ASSUME IInv, NEW r \in Requests, NEW i \in HopIndex, i < spec[r].hops, CallNext(r, i),
         spec' = spec, begun' = begun,
         \/ i = 0 /\ stage[r][i] = "CALLED" /\ worked' = worked
         \/ stage[r][i] = "WORKING" /\ ~spec[r].fails /\ worked'[r] = worked[r] + 1
  PROVE  Path(r)' /\ i + 1 \in HopIndex
<1>1. /\ Path(r) /\ worked[r] \in Nat /\ begun[r] \in Nat /\ worked'[r] \in Nat /\ i \in Nat
      /\ spec[r].hops \in HopIndex /\ spec[r].hops \in Nat
  BY IndexFacts DEF IInv, Good, Shape, Specs
<1>2. i + 1 \in HopIndex
  BY <1>1, IndexFacts DEF HopIndex
<1>3. /\ stage'[r][i] = "WAITING" /\ stage'[r][i + 1] = "CALLED"
      /\ \A j \in HopIndex \ {i, i + 1} : stage'[r][j] = stage[r][j]
  BY <1>2, CallNextEffect DEF IInv
<1>4. PathAt(r, i)
  BY <1>1 DEF Path
<1>5. worked'[r] = i /\ begun'[r] = i /\ (spec[r].fails => worked'[r] = 0)
  BY <1>1, <1>4 DEF PathAt, Path
<1>6. \A j \in HopIndex : j > i => stage[r][j] = "NONE"
  BY <1>4 DEF PathAt
<1>7. ASSUME NEW j \in HopIndex
      PROVE  PathAt(r, j)'
  <2>1. PathAt(r, j) /\ j \in Nat
    BY <1>1, IndexFacts DEF Path
  <2>2. CASE j = i
    BY <2>2, <1>1, <1>3, <1>5 DEF PathAt
  <2>3. CASE j = i + 1
    <3>1. \A k \in HopIndex : k > i + 1 => stage'[r][k] = "NONE"
      BY <1>1, <1>3, <1>6, IndexFacts
    <3> QED BY <2>3, <3>1, <1>1, <1>3, <1>5 DEF PathAt
  <2>4. CASE j > i + 1
    <3>1. stage'[r][j] = "NONE"
      BY <2>4, <2>1, <1>1, <1>3, <1>6
    <3> QED BY <3>1 DEF PathAt
  <2>5. CASE j < i
    <3>1. stage'[r][j] = stage[r][j] /\ stage[r][j] \notin {"CALLED", "WORKING"}
      BY <2>1, <2>5, <1>1, <1>3, <1>4 DEF PathAt
    <3> QED BY <3>1, <2>1, <2>5, <1>1, <1>5 DEF PathAt
  <2> QED BY <2>1, <2>2, <2>3, <2>4, <2>5, <1>1
<1> QED BY <1>2, <1>5, <1>7 DEF Path

\* The hop that responds is the one that is called or works, or one whose callee has
\* responded; a failure stays one.
LEMMA RespondKeepsUnbroken ==
  ASSUME IInv, NEW r \in Requests, NEW i \in HopIndex, NEW p \in Responses, Respond(r, i, p),
         UNCHANGED <<answer, broken>>,
         \/ stage[r][i] \in {"CALLED", "WORKING"}
         \/ /\ i + 1 \in HopIndex /\ stage[r][i] = "WAITING" /\ stage[r][i + 1] = "REPLIED"
            /\ reply[r][i + 1].code = 500 => p.code = 500
  PROVE  Unbroken(r)'
<1>1. /\ stage'[r][i] = "REPLIED" /\ reply'[r][i] = p
      /\ \A j \in HopIndex \ {i} : stage'[r][j] = stage[r][j] /\ reply'[r][j] = reply[r][j]
  BY RespondEffect DEF IInv
<1>2. Path(r) /\ PathAt(r, i) /\ Unbroken(r) /\ \A j \in HopIndex : j \in Nat
  BY IndexFacts DEF IInv, Good, Path
<1>3. CASE r \notin broken
  <2>1. Intact(r)
    BY <1>2, <1>3 DEF Unbroken
  <2>2. ASSUME NEW k \in HopIndex, NEW j \in HopIndex, j > k, stage'[r][k] = "REPLIED"
        PROVE  stage'[r][j] \in {"NONE", "REPLIED"}
    <3>1. CASE j = i
      BY <3>1, <1>1
    <3>2. CASE j # i /\ k # i
      BY <2>1, <2>2, <3>2, <1>1 DEF Intact
    <3>3. CASE j # i /\ k = i
      <4>1. CASE stage[r][i] \in {"CALLED", "WORKING"}
        BY <4>1, <2>2, <3>3, <1>1, <1>2 DEF PathAt
      <4>2. CASE i + 1 \in HopIndex /\ stage[r][i + 1] = "REPLIED"
        <5>1. j = i + 1 \/ j > i + 1
          BY <2>2, <3>3, <1>2
        <5> QED BY <4>2, <5>1, <2>1, <3>3, <1>1 DEF Intact
      <4> QED BY <4>1, <4>2
    <3> QED BY <3>1, <3>2, <3>3
  <2>3. ASSUME NEW k \in HopIndex, NEW j \in HopIndex, j < k, stage'[r][k] # "NONE"
        PROVE  stage'[r][j] \in {"WAITING", "REPLIED"}
    BY <2>1, <2>3, <1>1 DEF Intact
  <2>4. answer'[r] # NoReply => stage'[r][0] = "REPLIED"
    BY <2>1, <1>1, IndexFacts DEF Intact
  <2> QED BY <2>2, <2>3, <2>4, <1>3 DEF Unbroken, Intact
<1>4. CASE r \in broken
  <2>1. CASE answer[r].code = 500
    BY <2>1, <1>4 DEF Unbroken, Doomed
  <2>2. ASSUME answer[r] = NoReply, NEW k \in HopIndex, DoomedAt(r, k)
        PROVE  Unbroken(r)'
    <3>1. i # k /\ k \in Nat /\ i \in Nat
      BY <2>2, <1>2 DEF DoomedAt
    <3>2. i < k => p.code = 500
      <4> SUFFICES ASSUME i < k
                   PROVE  p.code = 500
        OBVIOUS
      <4>1. stage[r][i] = "WAITING" \/ stage[r][i] = "REPLIED"
        BY <2>2 DEF DoomedAt
      <4>2. i + 1 \in HopIndex /\ (i + 1 = k \/ i + 1 < k) /\ stage[r][i + 1] = "REPLIED"
        BY <4>1, <3>1
      <4>3. reply[r][i + 1].code = 500
        BY <4>2, <2>2 DEF DoomedAt
      <4> QED BY <4>1, <4>3
    <3>3. stage'[r][k] = "REPLIED" /\ reply'[r][k].code = 500
      BY <2>2, <3>1, <1>1 DEF DoomedAt
    <3>4. ASSUME NEW j \in HopIndex, j < k
          PROVE  \/ stage'[r][j] = "WAITING"
                 \/ stage'[r][j] = "REPLIED" /\ reply'[r][j].code = 500
      BY <2>2, <3>2, <3>4, <1>1 DEF DoomedAt
    <3>5. DoomedAt(r, k)'
      BY <3>3, <3>4 DEF DoomedAt
    <3> QED BY <2>2, <3>5, <1>4 DEF Unbroken, Doomed
  <2> QED BY <2>1, <2>2, <1>2, <1>4 DEF Unbroken, Doomed
<1> QED BY <1>3, <1>4

LEMMA CallNextKeepsUnbroken ==
  ASSUME IInv, NEW r \in Requests, NEW i \in HopIndex, i + 1 \in HopIndex, CallNext(r, i),
         UNCHANGED <<answer, broken>>, stage[r][i] \in {"CALLED", "WORKING"},
         i = 0 \/ stage[r][i] = "WORKING"
  PROVE  Unbroken(r)'
<1>1. /\ stage'[r][i] = "WAITING" /\ stage'[r][i + 1] = "CALLED"
      /\ \A j \in HopIndex \ {i, i + 1} : stage'[r][j] = stage[r][j]
      /\ reply' = reply
  BY CallNextEffect DEF IInv
<1>2. /\ PathAt(r, i) /\ Unbroken(r) /\ \A j \in HopIndex : j \in Nat
  BY IndexFacts DEF IInv, Good, Path
<1>3. \A j \in HopIndex : j > i => stage[r][j] = "NONE"
  BY <1>2 DEF PathAt
<1>4. CASE r \notin broken
  <2>1. Intact(r)
    BY <1>2, <1>4 DEF Unbroken
  <2>2. \A k \in HopIndex : k < i => stage[r][k] # "REPLIED"
    BY <2>1, <1>2 DEF Intact
  <2>3. \A k \in HopIndex : stage'[r][k] # "REPLIED"
    BY <2>2, <1>1, <1>2, <1>3
  <2>4. ASSUME NEW k \in HopIndex, NEW j \in HopIndex, j < k, stage'[r][k] # "NONE"
        PROVE  stage'[r][j] \in {"WAITING", "REPLIED"}
    <3>1. k <= i + 1
      BY <2>4, <1>1, <1>2, <1>3
    <3>2. j = i \/ j < i
      BY <2>4, <3>1, <1>2
    <3>3. j < i => stage'[r][j] = stage[r][j]
      BY <1>1, <1>2
    <3> QED BY <3>2, <3>3, <2>1, <1>1 DEF Intact
  <2>5. answer'[r] = NoReply
    <3>1. answer[r] # NoReply => stage[r][0] = "REPLIED"
      BY <2>1 DEF Intact
    <3>2. stage[r][0] # "REPLIED"
      BY <2>2, <1>2, IndexFacts
    <3> QED BY <3>1, <3>2
  <2> QED BY <2>3, <2>4, <2>5, <1>4 DEF Unbroken, Intact
<1>5. CASE r \in broken
  <2>1. CASE answer[r].code = 500
    BY <2>1, <1>5 DEF Unbroken, Doomed
  <2>2. ASSUME answer[r] = NoReply, NEW k \in HopIndex, DoomedAt(r, k)
        PROVE  Unbroken(r)'
    <3>1. k < i /\ k \in Nat /\ i \in Nat
      BY <2>2, <1>2, <1>3 DEF DoomedAt
    <3>2. \A j \in HopIndex : j <= k => stage'[r][j] = stage[r][j]
      BY <3>1, <1>1, <1>2
    <3>3. DoomedAt(r, k)'
      BY <2>2, <3>1, <3>2, <1>1 DEF DoomedAt
    <3> QED BY <2>2, <3>3, <1>5 DEF Unbroken, Doomed
  <2> QED BY <2>1, <2>2, <1>2, <1>5 DEF Unbroken, Doomed
<1> QED BY <1>4, <1>5

-----------------------------------------------------------------------------
\* What has been explained stays so when a hop begins or ends its work, when the
\* deadline passes and when nothing of it happens.
LEMMA ExplainedStays ==
  ASSUME IInv, NEW r \in Requests, spec' = spec, r \in broken => r \in broken',
         \/ UNCHANGED <<expired, begun, worked, atExpiry>>
         \/ /\ UNCHANGED <<expired, worked, atExpiry>>
            /\ begun[r] = worked[r] /\ worked[r] < spec[r].hops
         \/ /\ UNCHANGED <<expired, begun, atExpiry>>
            /\ ~spec[r].fails /\ worked[r] < spec[r].hops /\ worked'[r] = worked[r] + 1
         \/ /\ UNCHANGED <<begun, worked>>
            /\ ~expired[r] /\ expired'[r] /\ atExpiry'[r].worked = worked[r]
  PROVE  \A x : Explained(r, x) => Explained(r, x)'
<1>1. /\ worked[r] \in Nat /\ begun[r] \in Nat /\ spec[r].hops \in Nat
      /\ spec[r].fails => worked[r] = 0
  BY IndexFacts DEF IInv, Shape, Specs, Good, Path
<1>2. CASE UNCHANGED <<expired, begun, worked, atExpiry>>
  BY <1>2 DEF Explained
<1>3. CASE /\ UNCHANGED <<expired, worked, atExpiry>>
           /\ begun[r] = worked[r] /\ worked[r] < spec[r].hops
  BY <1>1, <1>3 DEF Explained
<1>4. CASE /\ UNCHANGED <<expired, begun, atExpiry>>
           /\ ~spec[r].fails /\ worked[r] < spec[r].hops /\ worked'[r] = worked[r] + 1
  BY <1>1, <1>4 DEF Explained
<1>5. CASE /\ UNCHANGED <<begun, worked>>
           /\ ~expired[r] /\ expired'[r] /\ atExpiry'[r].worked = worked[r]
  BY <1>1, <1>5 DEF Explained
<1> QED BY <1>2, <1>3, <1>4, <1>5

\* Replies that were explained are so still, and the new ones are.
LEMMA RepliesKept ==
  ASSUME NEW r \in Requests, Replies(r), \A x : Explained(r, x) => Explained(r, x)',
         \A j \in HopIndex : stage'[r][j] = "REPLIED" =>
           \/ stage[r][j] = "REPLIED" /\ reply'[r][j] = reply[r][j]
           \/ \A x : x = reply'[r][j] => Explained(r, x)',
         \/ answer'[r] = answer[r]
         \/ \A x : x = answer'[r] => Explained(r, x)'
  PROVE  Replies(r)'
<1>1. ASSUME NEW j \in HopIndex, stage'[r][j] = "REPLIED"
      PROVE  Explained(r, reply[r][j])'
  <2>1. PICK x : x = reply'[r][j]
    OBVIOUS
  <2>2. CASE stage[r][j] = "REPLIED" /\ reply'[r][j] = reply[r][j]
    <3>1. x = reply[r][j]
      BY <2>1, <2>2
    <3>2. Explained(r, x)
      BY <2>2, <3>1 DEF Replies
    <3>3. Explained(r, x)'
      BY <3>2
    <3> QED BY <2>1, <3>3 DEF Explained
  <2>3. CASE \A y : y = reply'[r][j] => Explained(r, y)'
    <3>1. Explained(r, x)'
      BY <2>1, <2>3
    <3> QED BY <2>1, <3>1 DEF Explained
  <2> QED BY <1>1, <2>2, <2>3
<1>2. ASSUME answer'[r] # NoReply
      PROVE  Explained(r, answer[r])'
  <2>1. PICK x : x = answer'[r]
    OBVIOUS
  <2>2. CASE answer'[r] = answer[r]
    <3>1. x = answer[r] /\ x # NoReply
      BY <1>2, <2>1, <2>2
    <3>2. Explained(r, x)
      BY <3>1 DEF Replies
    <3>3. Explained(r, x)'
      BY <3>2
    <3> QED BY <2>1, <3>3 DEF Explained
  <2>3. CASE \A y : y = answer'[r] => Explained(r, y)'
    <3>1. Explained(r, x)'
      BY <2>1, <2>3
    <3> QED BY <2>1, <3>1 DEF Explained
  <2> QED BY <2>2, <2>3
<1>3. NoReply' = NoReply
  BY DEF NoReply
<1> QED BY <1>1, <1>2, <1>3 DEF Replies

-----------------------------------------------------------------------------

LEMMA RespondKeeps ==
  ASSUME IInv, NEW r \in Requests, NEW i \in HopIndex, NEW p \in Responses, Respond(r, i, p),
         UNCHANGED <<spec, answer, expired, begun, atExpiry, broken, faults>>,
         \/ worked' = worked
         \/ /\ stage[r][i] = "WORKING" /\ ~spec[r].fails
            /\ worked' = [worked EXCEPT ![r] = @ + 1],
         \/ stage[r][i] \in {"CALLED", "WORKING"}
         \/ /\ i + 1 \in HopIndex /\ stage[r][i] = "WAITING" /\ stage[r][i + 1] = "REPLIED"
            /\ reply[r][i + 1].code = 500 => p.code = 500,
         \A x : x = p => Explained(r, x)'
  PROVE  IInv'
<1>1. /\ stage' \in [Requests -> [HopIndex -> Stages]]
      /\ reply' \in [Requests -> [HopIndex -> Responses]]
      /\ stage'[r][i] = "REPLIED" /\ reply'[r][i] = p
      /\ \A j \in HopIndex \ {i} :
           stage'[r][j] = stage[r][j] /\ reply'[r][j] = reply[r][j]
      /\ \A q \in Requests \ {r} : stage'[q] = stage[q] /\ reply'[q] = reply[q]
      /\ Holds(r)' \subseteq Holds(r)
  BY RespondEffect DEF IInv
<1>2. Shape /\ Good(r) /\ PathAt(r, i) /\ i \in Nat /\ worked[r] \in Nat
      /\ spec[r].hops \in HopIndex /\ spec[r].hops \in Nat
  BY IndexFacts DEF IInv, Shape, Specs, Good, Path
<1>3. /\ worked' \in [Requests -> HopIndex]
      /\ \A q \in Requests \ {r} : worked'[q] = worked[q]
      /\ \/ worked' = worked
         \/ /\ stage[r][i] = "WORKING" /\ ~spec[r].fails /\ worked[r] < spec[r].hops
            /\ worked'[r] = worked[r] + 1
  <2>1. CASE worked' = worked
    BY <1>2, <2>1 DEF Shape
  <2>2. CASE /\ stage[r][i] = "WORKING" /\ ~spec[r].fails
             /\ worked' = [worked EXCEPT ![r] = @ + 1]
    <3>1. worked[r] + 1 = i /\ i <= spec[r].hops /\ spec[r].hops \in Nat
      BY <1>2, <2>2, IndexFacts DEF PathAt
    <3> QED BY <1>2, <2>2, <3>1 DEF Shape
  <2> QED BY <2>1, <2>2
<1>4. Shape'
  BY <1>1, <1>2, <1>3 DEF Shape
<1>5. \A q \in Requests \ {r} : Untouched(q)
  BY <1>1, <1>3 DEF Untouched
<1>6. stage[r][i] # "NONE"
  OBVIOUS
<1>7. Path(r)'
  BY <1>3, <1>6, RespondKeepsPath
<1>8. Unbroken(r)'
  BY RespondKeepsUnbroken
<1>9. Replies(r)'
  <2>1. \A x : Explained(r, x) => Explained(r, x)'
    BY <1>3, ExplainedStays
  <2>2. ASSUME NEW j \in HopIndex, stage'[r][j] = "REPLIED"
        PROVE  \/ stage[r][j] = "REPLIED" /\ reply'[r][j] = reply[r][j]
               \/ \A x : x = reply'[r][j] => Explained(r, x)'
    BY <1>1, <2>2
  <2> QED BY <1>2, <2>1, <2>2, RepliesKept DEF Good
<1>10. InTime(r)'
  BY <1>2 DEF Good, InTime
<1> QED BY <1>1, <1>4, <1>5, <1>7, <1>8, <1>9, <1>10, OneRequest DEF Good

LEMMA CallNextKeeps ==
  ASSUME IInv, NEW r \in Requests, NEW i \in HopIndex, i < spec[r].hops, CallNext(r, i),
         UNCHANGED <<spec, answer, expired, begun, atExpiry, broken, faults>>,
         \/ i = 0 /\ stage[r][i] = "CALLED" /\ worked' = worked
         \/ /\ stage[r][i] = "WORKING" /\ ~spec[r].fails
            /\ worked' = [worked EXCEPT ![r] = @ + 1]
  PROVE  IInv'
<1>1. Shape /\ Good(r) /\ PathAt(r, i) /\ i \in Nat /\ worked[r] \in Nat
      /\ spec[r].hops \in HopIndex /\ spec[r].hops \in Nat
  BY IndexFacts DEF IInv, Shape, Specs, Good, Path
<1>2. /\ worked' \in [Requests -> HopIndex]
      /\ \A q \in Requests \ {r} : worked'[q] = worked[q]
      /\ \/ i = 0 /\ stage[r][i] = "CALLED" /\ worked' = worked
         \/ /\ stage[r][i] = "WORKING" /\ ~spec[r].fails /\ worked[r] < spec[r].hops
            /\ worked'[r] = worked[r] + 1
  <2>1. CASE i = 0 /\ stage[r][i] = "CALLED" /\ worked' = worked
    BY <1>1, <2>1 DEF Shape
  <2>2. CASE /\ stage[r][i] = "WORKING" /\ ~spec[r].fails
             /\ worked' = [worked EXCEPT ![r] = @ + 1]
    <3>1. worked[r] + 1 = i /\ i <= spec[r].hops /\ spec[r].hops \in Nat
      BY <1>1, <2>2, IndexFacts DEF PathAt
    <3> QED BY <1>1, <2>2, <3>1 DEF Shape
  <2> QED BY <2>1, <2>2
<1>3. Path(r)' /\ i + 1 \in HopIndex
  BY <1>2, CallNextKeepsPath
<1>4. /\ stage' \in [Requests -> [HopIndex -> Stages]]
      /\ reply' = reply
      /\ stage'[r][i] = "WAITING" /\ stage'[r][i + 1] = "CALLED"
      /\ \A j \in HopIndex \ {i, i + 1} : stage'[r][j] = stage[r][j]
      /\ \A q \in Requests \ {r} : stage'[q] = stage[q]
      /\ Holds(r)' \subseteq Holds(r)
  BY <1>3, CallNextEffect DEF IInv
<1>5. Shape'
  BY <1>1, <1>2, <1>4 DEF Shape
<1>6. \A q \in Requests \ {r} : Untouched(q)
  BY <1>2, <1>4 DEF Untouched
<1>7. Unbroken(r)'
  BY <1>3, CallNextKeepsUnbroken
<1>8. Replies(r)'
  <2>1. \A x : Explained(r, x) => Explained(r, x)'
    BY <1>2, ExplainedStays
  <2>2. \A j \in HopIndex : stage'[r][j] = "REPLIED" =>
          stage[r][j] = "REPLIED" /\ reply'[r][j] = reply[r][j]
    BY <1>4
  <2> QED BY <1>1, <2>1, <2>2, RepliesKept DEF Good
<1>9. InTime(r)'
  BY <1>1 DEF Good, InTime
<1> QED BY <1>3, <1>4, <1>5, <1>6, <1>7, <1>8, <1>9, OneRequest DEF Good

-----------------------------------------------------------------------------

LEMMA ReceiveKeeps == ASSUME IInv, NEW r \in Requests, Receive(r) PROVE IInv'
<1>1. /\ stage[r][0] = "CALLED"
      /\ UNCHANGED <<spec, answer, expired, begun, worked, atExpiry, broken, faults>>
  BY DEF Receive, history
<1>2. 0 \in HopIndex /\ PathAt(r, 0) /\ spec[r].hops \in Nat
  BY IndexFacts DEF IInv, Good, Path, Shape, Specs
<1>3. worked[r] = 0
  BY <1>1, <1>2 DEF PathAt
<1>4. CASE expired[r]
  <2>1. Respond(r, 0, DeadlineExceeded(0))
    BY <1>4 DEF Receive
  <2>2. \A x : x = DeadlineExceeded(0) => Explained(r, x)'
    BY <1>1, <1>2, <1>4, ResponseTypes DEF Explained
  <2> QED BY <1>1, <1>2, <2>1, <2>2, ResponseTypes, RespondKeeps
<1>5. CASE ~expired[r] /\ spec[r].hops = 0
  <2>1. Respond(r, 0, Completed(0))
    BY <1>5 DEF Receive
  <2>2. \A x : x = Completed(0) => Explained(r, x)'
    BY <1>1, <1>2, <1>3, <1>5, ResponseTypes DEF Explained
  <2> QED BY <1>1, <1>2, <2>1, <2>2, ResponseTypes, RespondKeeps
<1>6. CASE ~expired[r] /\ spec[r].hops # 0
  <2>1. CallNext(r, 0)
    BY <1>6 DEF Receive
  <2> QED BY <1>1, <1>2, <1>6, <2>1, CallNextKeeps
<1> QED BY <1>4, <1>5, <1>6

LEMMA ServeKeeps ==
  ASSUME IInv, NEW r \in Requests, NEW i \in 1 .. MaxHops, Serve(r, i)
  PROVE  IInv'
<1>1. /\ stage[r][i] = "CALLED" /\ ThreadFree(i)
      /\ UNCHANGED <<spec, answer, expired, worked, atExpiry, broken, faults>>
  BY DEF Serve
<1>2. /\ i \in HopIndex /\ i - 1 \in HopIndex /\ i \in Nat /\ i > 0
      /\ Shape /\ Good(r) /\ Path(r) /\ PathAt(r, i)
      /\ spec[r].hops \in Nat /\ worked[r] \in Nat /\ begun[r] \in Nat
  BY IndexFacts DEF IInv, Good, Path, Shape, Specs
<1>3. begun[r] = worked[r] /\ i = worked[r] + 1 /\ i <= spec[r].hops
  BY <1>1, <1>2 DEF PathAt
<1>4. CASE expired[r]
  <2>1. Respond(r, i, DeadlineExceeded(i - 1)) /\ begun' = begun
    BY <1>4 DEF Serve
  <2>2. \A x : x = DeadlineExceeded(i - 1) => Explained(r, x)'
    BY <1>1, <1>2, <1>4, ResponseTypes DEF Explained
  <2> QED BY <1>1, <1>2, <2>1, <2>2, ResponseTypes, RespondKeeps
<1>5. CASE ~expired[r]
  <2> DEFINE s == [stage[r] EXCEPT ![i] = "WORKING"]
  <2>1. /\ stage' = [stage EXCEPT ![r] = s] /\ reply' = reply
        /\ begun' = [begun EXCEPT ![r] = @ + 1]
    BY <1>5 DEF Serve
  <2>2. stage[r] \in [HopIndex -> Stages]
    BY <1>2 DEF Shape
  <2>3. s \in [HopIndex -> Stages] /\ s[i] = "WORKING" /\ \A j \in HopIndex \ {i} : s[j] = stage[r][j]
    BY <1>2, <2>2 DEF Stages
  <2> HIDE DEF s
  <2>4. stage'[r] = s /\ begun'[r] = i /\ \A q \in Requests \ {r} : stage'[q] = stage[q]
    BY <1>2, <1>3, <2>1 DEF Shape
  <2>5. Shape'
    BY <1>1, <1>2, <1>3, <2>1, <2>3 DEF Shape
  <2>6. \A q \in Requests \ {r} : Untouched(q)
    BY <1>1, <1>2, <2>1 DEF Untouched, Shape
  <2>7. Holds(r)' \subseteq Holds(r) \cup {i}
    BY <2>3, <2>4, IndexFacts DEF Holds
  <2>8. ASSUME NEW j \in HopIndex
        PROVE  PathAt(r, j)'
    <3>1. PathAt(r, j) /\ j \in Nat
      BY <1>2, IndexFacts DEF Path
    <3>2. CASE j = i
      <4>1. \A k \in HopIndex : k > i => s[k] = "NONE"
        BY <1>1, <1>2, <2>3 DEF PathAt
      <4> QED BY <3>2, <4>1, <1>1, <1>2, <1>3, <2>3, <2>4 DEF PathAt
    <3>3. CASE j > i
      <4>1. s[j] = "NONE"
        BY <3>3, <3>1, <1>1, <1>2, <2>3 DEF PathAt
      <4> QED BY <4>1, <2>4 DEF PathAt
    <3>4. CASE j < i
      <4>1. stage[r][j] \notin {"CALLED", "WORKING"} /\ s[j] = stage[r][j]
        BY <3>4, <3>1, <1>1, <1>2, <2>3 DEF PathAt
      <4> QED BY <4>1, <3>1, <1>1, <2>4 DEF PathAt
    <3> QED BY <3>1, <3>2, <3>3, <3>4, <1>2
  <2>9. Path(r)'
    BY <2>8, <1>1, <1>2 DEF Path
  <2>10. Replies(r)'
    <3>1. begun[r] = worked[r] /\ worked[r] < spec[r].hops
      BY <1>2, <1>3
    <3>2. \A x : Explained(r, x) => Explained(r, x)'
      BY <3>1, <1>1, ExplainedStays
    <3>3. \A j \in HopIndex : stage'[r][j] = "REPLIED" =>
            stage[r][j] = "REPLIED" /\ reply'[r][j] = reply[r][j]
      BY <2>1, <2>3, <2>4
    <3>4. Replies(r) /\ answer'[r] = answer[r]
      BY <1>1, <1>2 DEF Good
    <3> QED BY <3>2, <3>3, <3>4, RepliesKept
  <2>11. Unbroken(r)'
    <3>1. \A j \in HopIndex : (s[j] = "REPLIED" <=> stage[r][j] = "REPLIED")
                             /\ (s[j] = "WAITING" <=> stage[r][j] = "WAITING")
                             /\ (s[j] = "NONE" <=> stage[r][j] = "NONE")
      BY <1>1, <2>3
    <3>2. CASE r \notin broken
      <4>1. Intact(r)
        BY <3>2, <1>2 DEF Good, Unbroken
      <4>2. ASSUME NEW k \in HopIndex, s[k] = "REPLIED", NEW j \in HopIndex, j > k
            PROVE  s[j] \in {"NONE", "REPLIED"}
        BY <3>1, <4>1, <4>2 DEF Intact
      <4>3. ASSUME NEW k \in HopIndex, s[k] # "NONE", NEW j \in HopIndex, j < k
            PROVE  s[j] \in {"WAITING", "REPLIED"}
        BY <3>1, <4>1, <4>3 DEF Intact
      <4>4. answer[r] # NoReply => s[0] = "REPLIED"
        BY <3>1, <4>1, IndexFacts DEF Intact
      <4> QED BY <4>2, <4>3, <4>4, <3>2, <1>1, <2>4 DEF Unbroken, Intact
    <3>3. CASE r \in broken
      <4>1. Doomed(r)
        BY <3>3, <1>2 DEF Good, Unbroken
      <4>2. \A k \in HopIndex : DoomedAt(r, k) => DoomedAt(r, k)'
        BY <3>1, <2>1, <2>4 DEF DoomedAt
      <4> QED BY <4>1, <4>2, <3>3, <1>1 DEF Unbroken, Doomed
    <3> QED BY <3>2, <3>3
  <2>12. InTime(r)'
    <3>1. begun'[r] <= MaxHops
      BY <2>4, <1>2
    <3> QED BY <3>1, <1>1, <1>2, <1>5 DEF Good, InTime
  <2> QED BY <1>1, <2>5, <2>6, <2>7, <2>9, <2>10, <2>11, <2>12, OneRequest DEF Good
<1> QED BY <1>4, <1>5

LEMMA WorkKeeps ==
  ASSUME IInv, NEW r \in Requests, NEW i \in 1 .. MaxHops, WorkFails(r, i) \/ WorkEnds(r, i)
  PROVE  IInv'
<1>1. /\ stage[r][i] = "WORKING"
      /\ UNCHANGED <<spec, answer, expired, begun, atExpiry, broken, faults>>
  BY DEF WorkFails, WorkEnds, Worked, history
<1>2. /\ i \in HopIndex /\ i \in Nat /\ i > 0
      /\ Shape /\ Good(r) /\ Path(r) /\ PathAt(r, i)
      /\ spec[r].hops \in Nat /\ worked[r] \in Nat /\ begun[r] \in Nat
  BY IndexFacts DEF IInv, Good, Path, Shape, Specs
<1>3. begun[r] = i /\ worked[r] = i - 1 /\ i <= spec[r].hops
  BY <1>1, <1>2 DEF PathAt
<1>4. CASE WorkFails(r, i)
  <2>1. Respond(r, i, ServerError) /\ spec[r].fails /\ worked' = worked
    BY <1>4 DEF WorkFails, history
  <2>2. begun[r] = 1
    BY <2>1, <1>2, <1>3 DEF Path
  <2>3. \A x : x = ServerError => Explained(r, x)'
    BY <1>1, <2>1, <2>2, ResponseTypes DEF Explained
  <2> QED BY <1>1, <1>2, <2>1, <2>3, ResponseTypes, RespondKeeps
<1>5. CASE WorkEnds(r, i)
  <2>1. ~spec[r].fails /\ worked' = [worked EXCEPT ![r] = @ + 1]
    BY <1>5 DEF WorkEnds, Worked
  <2>2. worked'[r] = i
    BY <1>2, <1>3, <2>1 DEF Shape
  <2>3. CASE expired[r]
    <3>1. Respond(r, i, DeadlineExceeded(i))
      BY <1>5, <2>3 DEF WorkEnds
    <3>2. \A x : x = DeadlineExceeded(i) => Explained(r, x)'
      BY <1>1, <1>2, <2>3, ResponseTypes DEF Explained
    <3>3. DeadlineExceeded(i) \in Responses
      BY <1>2, ResponseTypes
    <3> QED BY <1>1, <1>2, <2>1, <3>1, <3>2, <3>3, RespondKeeps
  <2>4. CASE ~expired[r] /\ i = spec[r].hops
    <3>1. Respond(r, i, Completed(i))
      BY <1>5, <2>4 DEF WorkEnds
    <3>2. \A x : x = Completed(i) => Explained(r, x)'
      BY <1>1, <1>2, <2>2, <2>4, ResponseTypes DEF Explained
    <3>3. Completed(i) \in Responses
      BY <1>2, ResponseTypes
    <3> QED BY <1>1, <1>2, <2>1, <3>1, <3>2, <3>3, RespondKeeps
  <2>5. CASE ~expired[r] /\ i # spec[r].hops
    <3>1. CallNext(r, i)
      BY <1>5, <2>5 DEF WorkEnds
    <3>2. i < spec[r].hops
      BY <1>2, <1>3, <2>5
    <3> QED BY <1>1, <1>2, <2>1, <3>1, <3>2, CallNextKeeps
  <2> QED BY <2>3, <2>4, <2>5
<1> QED BY <1>4, <1>5

LEMMA ReturnKeeps ==
  ASSUME IInv, NEW r \in Requests,
         ReturnToOrchestrator(r) \/ \E i \in 1 .. MaxHops : ReturnToHop(r, i)
  PROVE  IInv'
<1>1. UNCHANGED <<spec, answer, expired, begun, worked, atExpiry, broken, faults>>
  BY DEF ReturnToOrchestrator, ReturnToHop, history
<1>2. Shape /\ Good(r) /\ Path(r) /\ Replies(r) /\ spec[r].hops \in HopIndex /\ worked[r] \in Nat
  BY IndexFacts DEF IInv, Good, Shape, Specs
<1>3. CASE ReturnToOrchestrator(r)
  <2> DEFINE p == CASE reply[r][1].code = 200 -> reply[r][1]
                    [] reply[r][1].code = 504 -> DeadlineExceeded(0)
                    [] OTHER -> ServerError
  <2>1. stage[r][0] = "WAITING" /\ stage[r][1] = "REPLIED" /\ Respond(r, 0, p)
    BY <1>3 DEF ReturnToOrchestrator
  <2>2. 0 \in HopIndex /\ 1 \in HopIndex
    <3>1. 0 < spec[r].hops
      BY <2>1, <1>2, IndexFacts DEF Path, PathAt
    <3> QED BY <3>1, <1>2, IndexFacts DEF HopIndex
  <2>3. p \in Responses /\ (reply[r][1].code = 500 => p.code = 500)
    BY <2>2, <1>2, ResponseTypes DEF Shape
  <2>4. Explained(r, reply[r][1])
    BY <1>2, <2>1, <2>2 DEF Replies
  <2>5. ASSUME NEW x, x = p
        PROVE  Explained(r, x)'
    <3>1. CASE reply[r][1].code = 200
      <4>1. x = reply[r][1]
        BY <2>5, <3>1
      <4> QED BY <4>1, <2>4, <1>1 DEF Explained
    <3>2. CASE reply[r][1].code = 504
      <4>1. x.code = 504
        BY <2>5, <3>2, <2>2, ResponseTypes
      <4> QED BY <4>1, <3>2, <2>4, <1>1 DEF Explained
    <3>3. CASE reply[r][1].code = 500
      <4>1. x.code = 500
        BY <2>5, <3>3, ResponseTypes
      <4> QED BY <4>1, <3>3, <2>4, <1>1 DEF Explained
    <3> QED BY <3>1, <3>2, <3>3, <2>4 DEF Explained
  <2> HIDE DEF p
  <2>6. \A x : x = p => Explained(r, x)'
    BY <2>5
  <2>7. 0 + 1 = 1
    OBVIOUS
  <2> QED BY <1>1, <2>1, <2>2, <2>3, <2>6, <2>7, RespondKeeps
<1>4. ASSUME NEW i \in 1 .. MaxHops, ReturnToHop(r, i)
      PROVE  IInv'
  <2> DEFINE p == IF reply[r][i].code = 200 THEN reply[r][i] ELSE ServerError
  <2>1. i > 1 /\ stage[r][i - 1] = "WAITING" /\ stage[r][i] = "REPLIED" /\ Respond(r, i - 1, p)
    BY <1>4 DEF ReturnToHop
  <2>2. i \in HopIndex /\ i - 1 \in HopIndex /\ i \in Nat /\ (i - 1) + 1 = i
    BY IndexFacts
  <2>3. p \in Responses /\ (reply[r][i].code = 500 => p.code = 500)
    BY <2>2, <1>2, ResponseTypes DEF Shape
  <2>4. Explained(r, reply[r][i]) /\ PathAt(r, i)
    BY <1>2, <2>1, <2>2 DEF Replies, Path
  <2>5. worked[r] > 0
    BY <2>1, <2>2, <2>4, <1>2 DEF PathAt
  <2>6. ASSUME NEW x, x = p
        PROVE  Explained(r, x)'
    <3>1. CASE reply[r][i].code = 200
      <4>1. x = reply[r][i]
        BY <2>6, <3>1
      <4> QED BY <4>1, <2>4, <1>1 DEF Explained
    <3>2. CASE reply[r][i].code \in {500, 504}
      <4>1. x.code = 500
        BY <2>6, <3>2, ResponseTypes
      <4> QED BY <4>1, <3>2, <2>4, <2>5, <1>1 DEF Explained
    <3> QED BY <3>1, <3>2, <2>4 DEF Explained
  <2> HIDE DEF p
  <2>7. \A x : x = p => Explained(r, x)'
    BY <2>6
  <2> QED BY <1>1, <2>1, <2>2, <2>3, <2>7, RespondKeeps
<1> QED BY <1>3, <1>4

LEMMA RelayKeeps == ASSUME IInv, NEW r \in Requests, Relay(r) PROVE IInv'
<1> DEFINE p == IF reply[r][0].code \in {200, 504} THEN reply[r][0] ELSE ServerError
<1>1. /\ UNCHANGED <<spec, stage, reply, expired, begun, worked, atExpiry, broken, faults>>
      /\ answer[r] = NoReply /\ stage[r][0] = "REPLIED" /\ answer' = [answer EXCEPT ![r] = p]
  BY DEF Relay, history
<1>2. Shape /\ Good(r) /\ Replies(r) /\ Unbroken(r) /\ 0 \in HopIndex
  BY IndexFacts DEF IInv, Good
<1>3. Explained(r, reply[r][0])
  BY <1>1, <1>2 DEF Replies
<1>4. p \in Responses /\ (reply[r][0].code = 500 => p.code = 500)
  BY <1>2, ResponseTypes DEF Shape
<1>5. \A x : x = p => Explained(r, x)'
  BY <1>1, <1>3, ResponseTypes DEF Explained
<1> HIDE DEF p
<1>6. answer'[r] = p /\ \A q \in Requests \ {r} : answer'[q] = answer[q]
  BY <1>1, <1>2 DEF Shape
<1>7. Shape'
  BY <1>1, <1>2, <1>4 DEF Shape
<1>8. \A q \in Requests \ {r} : Untouched(q)
  BY <1>1, <1>6 DEF Untouched
<1>9. Path(r)' /\ InTime(r)' /\ Holds(r)' \subseteq Holds(r)
  BY <1>1, <1>2 DEF Good, Path, PathAt, InTime, Holds
<1>10. Replies(r)'
  <2>1. \A x : Explained(r, x) => Explained(r, x)'
    BY <1>1, ExplainedStays
  <2> QED BY <1>1, <1>2, <1>5, <1>6, <2>1, RepliesKept
<1>11. Unbroken(r)'
  <2>1. CASE r \notin broken
    BY <2>1, <1>1, <1>2 DEF Unbroken, Intact
  <2>2. CASE r \in broken
    <3>1. PICK k \in HopIndex : DoomedAt(r, k)
      <4>1. answer[r].code # 500
        BY <1>1 DEF NoReply
      <4> QED BY <4>1, <2>2, <1>2 DEF Unbroken, Doomed
    <3>2. k = 0 \/ 0 < k
      BY IndexFacts DEF HopIndex
    <3>3. reply[r][0].code = 500
      BY <1>1, <1>2, <3>1, <3>2 DEF DoomedAt
    <3> QED BY <2>2, <3>3, <1>1, <1>4, <1>6 DEF Unbroken, Doomed
  <2> QED BY <2>1, <2>2
<1> QED BY <1>1, <1>7, <1>8, <1>9, <1>10, <1>11, OneRequest DEF Good

\* Calls that are lost, and callers that fail, leave the path as it is.
LEMMA LostKeepsPath ==
  ASSUME Shape, NEW r \in Requests, Path(r), spec' = spec, UNCHANGED <<begun, worked>>,
         \A j \in HopIndex : \/ stage'[r][j] = stage[r][j]
                             \/ stage[r][j] = "CALLED" /\ stage'[r][j] = "LOST"
                             \/ stage[r][j] = "WAITING" /\ stage'[r][j] = "REPLIED"
  PROVE  Path(r)'
<1>1. ASSUME NEW j \in HopIndex
      PROVE  PathAt(r, j)'
  <2>1. PathAt(r, j)
    BY DEF Path
  <2>2. ASSUME stage[r][j] \in {"CALLED", "WORKING"}, NEW k \in HopIndex, k > j
        PROVE  stage'[r][k] = "NONE"
    BY <2>1, <2>2 DEF PathAt
  <2> QED BY <2>1, <2>2 DEF PathAt
<1> QED BY <1>1 DEF Path

\* The clock, and connections that break.
LEMMA ExpireKeeps == ASSUME IInv, NEW r \in Requests, Expire(r) PROVE IInv'
<1>1. /\ UNCHANGED <<spec, stage, reply, answer, begun, worked, broken, faults>>
      /\ ~expired[r] /\ expired' = [expired EXCEPT ![r] = TRUE]
      /\ atExpiry' = [atExpiry EXCEPT ![r] = [begun |-> begun[r], worked |-> worked[r]]]
  BY DEF Expire
<1>2. Shape /\ Good(r) /\ begun[r] \in HopIndex /\ worked[r] \in HopIndex /\ begun[r] \in Nat
  BY IndexFacts DEF IInv, Shape
<1>3. /\ expired'[r] /\ atExpiry'[r].begun = begun[r] /\ atExpiry'[r].worked = worked[r]
      /\ \A q \in Requests \ {r} : expired'[q] = expired[q] /\ atExpiry'[q] = atExpiry[q]
  BY <1>1, <1>2 DEF Shape
<1>4. Shape'
  <2>1. [begun |-> begun[r], worked |-> worked[r]] \in Marks
    BY <1>2 DEF Marks
  <2> QED BY <1>1, <1>2, <2>1 DEF Shape
<1>5. \A q \in Requests \ {r} : Untouched(q)
  BY <1>1, <1>3 DEF Untouched
<1>6. Path(r)' /\ Unbroken(r)' /\ Holds(r)' \subseteq Holds(r)
  BY <1>1, <1>2 DEF Good, Path, PathAt, Unbroken, Doomed, DoomedAt, Intact, Holds
<1>7. Replies(r)'
  <2>1. \A x : Explained(r, x) => Explained(r, x)'
    BY <1>1, <1>3, ExplainedStays
  <2> QED BY <1>1, <1>2, <2>1, RepliesKept DEF Good
<1>8. InTime(r)'
  BY <1>1, <1>2, <1>3 DEF InTime
<1> QED BY <1>1, <1>4, <1>5, <1>6, <1>7, <1>8, OneRequest DEF Good

\* The hop at the far end stays where it is, or is lost before a thread took it.
LEMMA CallBreaksKeeps ==
  ASSUME IInv, NEW r \in Requests, NEW i \in HopIndex, CallBreaks(r, i)
  PROVE  IInv'
<1>1. /\ UNCHANGED <<spec, expired, begun, worked, atExpiry>>
      /\ broken' = broken \cup {r} /\ faults < MaxFaults /\ faults' = faults + 1
  BY DEF CallBreaks
<1>2. /\ Shape /\ Good(r) /\ Path(r) /\ Replies(r) /\ Unbroken(r) /\ InTime(r)
      /\ PathAt(r, i) /\ i \in Nat /\ faults' \in 0 .. MaxFaults
      /\ stage[r] \in [HopIndex -> Stages] /\ reply[r] \in [HopIndex -> Responses]
      /\ stage[r][i] # "NONE" /\ broken' \subseteq Requests
  BY <1>1, IndexFacts, ChainAssumption DEF CallBreaks, IInv, Good, Path, Shape
<1>3. PICK left \in LeftOf(r, i) :
        IF i = 0
          THEN /\ answer[r] = NoReply
               /\ answer' = [answer EXCEPT ![r] = ServerError]
               /\ stage' = [stage EXCEPT ![r][0] = left]
               /\ UNCHANGED reply
          ELSE /\ stage[r][i - 1] = "WAITING"
               /\ stage' = [stage EXCEPT ![r][i - 1] = "REPLIED", ![r][i] = left]
               /\ reply' = [reply EXCEPT ![r][i - 1] = ServerError]
               /\ UNCHANGED answer
  BY DEF CallBreaks
<1>4. left = stage[r][i] \/ (stage[r][i] = "CALLED" /\ left = "LOST")
  BY DEF LeftOf
<1>5. left \in Stages
  BY <1>2, <1>4 DEF Stages
<1>6. \A x : Explained(r, x) => Explained(r, x)'
  BY <1>1, ExplainedStays
<1>7. \A x : x = ServerError => Explained(r, x)'
  BY <1>1, ResponseTypes DEF Explained
<1>8. InTime(r)'
  BY <1>1, <1>2 DEF InTime
<1>9. CASE i = 0
  <2> DEFINE s == [stage[r] EXCEPT ![0] = left]
  <2>1. /\ stage' = [stage EXCEPT ![r] = s] /\ reply' = reply
        /\ answer' = [answer EXCEPT ![r] = ServerError]
    BY <1>3, <1>9
  <2>2. s \in [HopIndex -> Stages] /\ s[0] = left /\ \A j \in HopIndex \ {0} : s[j] = stage[r][j]
    BY <1>2, <1>5, IndexFacts
  <2> HIDE DEF s
  <2>3. /\ stage'[r] = s /\ answer'[r] = ServerError
        /\ \A q \in Requests \ {r} : stage'[q] = stage[q] /\ answer'[q] = answer[q]
    BY <1>2, <2>1 DEF Shape
  <2>4. Shape'
    BY <1>1, <1>2, <2>1, <2>2, ResponseTypes DEF Shape
  <2>5. \A q \in Requests \ {r} : Untouched(q)
    BY <1>1, <2>1, <2>3 DEF Untouched
  <2>6. Holds(r)' \subseteq Holds(r)
    BY <2>2, <2>3, IndexFacts DEF Holds
  <2>7. \A j \in HopIndex : s[j] = stage[r][j] \/ (stage[r][j] = "CALLED" /\ s[j] = "LOST")
    BY <1>4, <1>9, <2>2
  <2>8. Path(r)'
    BY <1>1, <1>2, <2>3, <2>7, LostKeepsPath
  <2>9. Replies(r)'
    <3>1. \A j \in HopIndex : stage'[r][j] = "REPLIED" =>
            stage[r][j] = "REPLIED" /\ reply'[r][j] = reply[r][j]
      BY <2>1, <2>3, <2>7
    <3> QED BY <1>2, <1>6, <1>7, <2>3, <3>1, RepliesKept
  <2>10. Unbroken(r)'
    BY <1>1, <2>3, ResponseTypes DEF Unbroken, Doomed
  <2> QED BY <1>1, <1>8, <2>4, <2>5, <2>6, <2>8, <2>9, <2>10, OneRequest DEF Good
<1>10. CASE i # 0
  <2> DEFINE s == [stage[r] EXCEPT ![i - 1] = "REPLIED", ![i] = left]
             t == [reply[r] EXCEPT ![i - 1] = ServerError]
  <2>0. i - 1 \in HopIndex /\ i - 1 # i /\ i - 1 \in Nat /\ stage[r][i - 1] = "WAITING"
    BY <1>3, <1>10, IndexFacts
  <2>1. /\ stage' = [stage EXCEPT ![r] = s] /\ reply' = [reply EXCEPT ![r] = t]
        /\ answer' = answer
    BY <1>2, <1>3, <1>10 DEF Shape
  <2>2. /\ s \in [HopIndex -> Stages] /\ s[i - 1] = "REPLIED" /\ s[i] = left
        /\ \A j \in HopIndex \ {i - 1, i} : s[j] = stage[r][j]
        /\ t \in [HopIndex -> Responses] /\ t[i - 1] = ServerError
        /\ \A j \in HopIndex \ {i - 1} : t[j] = reply[r][j]
    BY <1>2, <1>5, <2>0, ResponseTypes DEF Stages
  <2> HIDE DEF s, t
  <2>3. /\ stage'[r] = s /\ reply'[r] = t
        /\ \A q \in Requests \ {r} : stage'[q] = stage[q] /\ reply'[q] = reply[q]
    BY <1>2, <2>1 DEF Shape
  <2>4. Shape'
    BY <1>1, <1>2, <2>1, <2>2 DEF Shape
  <2>5. \A q \in Requests \ {r} : Untouched(q)
    BY <1>1, <2>1, <2>3 DEF Untouched
  <2>6. Holds(r)' \subseteq Holds(r)
    BY <1>4, <2>0, <2>2, <2>3, IndexFacts DEF Holds
  <2>7. \A j \in HopIndex : \/ s[j] = stage[r][j]
                            \/ stage[r][j] = "CALLED" /\ s[j] = "LOST"
                            \/ stage[r][j] = "WAITING" /\ s[j] = "REPLIED"
    BY <1>4, <2>0, <2>2
  <2>8. Path(r)'
    BY <1>1, <1>2, <2>3, <2>7, LostKeepsPath
  <2>9. Replies(r)'
    <3>1. ASSUME NEW j \in HopIndex, stage'[r][j] = "REPLIED"
          PROVE  \/ stage[r][j] = "REPLIED" /\ reply'[r][j] = reply[r][j]
                 \/ \A x : x = reply'[r][j] => Explained(r, x)'
      <4>1. CASE j = i - 1
        BY <4>1, <1>7, <2>2, <2>3
      <4>2. CASE j # i - 1
        <5>1. s[j] = stage[r][j]
          BY <4>2, <3>1, <1>4, <2>2, <2>3
        <5> QED BY <4>2, <5>1, <3>1, <2>2, <2>3
      <4> QED BY <4>1, <4>2
    <3> QED BY <1>2, <1>6, <2>1, <3>1, RepliesKept
  <2>10. Unbroken(r)'
    <3>1. CASE r \notin broken
      <4>1. Intact(r)
        BY <3>1, <1>2 DEF Unbroken
      <4>2. ASSUME NEW j \in HopIndex, j < i - 1
            PROVE  s[j] = "WAITING"
        <5>1. stage[r][j] \in {"WAITING", "REPLIED"}
          BY <4>1, <4>2, <2>0 DEF Intact
        <5>2. stage[r][j] # "REPLIED"
          BY <4>1, <4>2, <2>0 DEF Intact
        <5>3. j \in HopIndex \ {i - 1, i}
          BY <4>2, <1>2, <2>0, IndexFacts
        <5> QED BY <5>1, <5>2, <5>3, <2>2
      <4>3. answer[r] = NoReply
        <5>1. stage[r][0] # "REPLIED"
          <6>1. i - 1 = 0 \/ 0 < i - 1
            BY <1>2, <1>10
          <6> QED BY <6>1, <4>1, <2>0, IndexFacts DEF Intact
        <5> QED BY <5>1, <4>1 DEF Intact
      <4>4. DoomedAt(r, i - 1)'
        <5>1. stage'[r][i - 1] = "REPLIED" /\ reply'[r][i - 1].code = 500
          BY <2>2, <2>3, ResponseTypes
        <5>2. \A j \in HopIndex : j < i - 1 => stage'[r][j] = "WAITING"
          BY <4>2, <2>3
        <5>3. (i - 1)' = i - 1
          OBVIOUS
        <5> QED BY <5>1, <5>2, <5>3 DEF DoomedAt
      <4> QED BY <4>3, <4>4, <1>1, <2>0, <2>1 DEF Unbroken, Doomed
    <3>2. CASE r \in broken
      <4>1. CASE answer[r].code = 500
        BY <4>1, <1>1, <2>1 DEF Unbroken, Doomed
      <4>2. ASSUME answer[r] = NoReply, NEW k \in HopIndex, DoomedAt(r, k)
            PROVE  Unbroken(r)'
        <5>1. k # i - 1 /\ stage[r][k] = "REPLIED" /\ reply[r][k].code = 500
          BY <4>2, <2>0 DEF DoomedAt
        <5>2. s[k] = "REPLIED" /\ t[k].code = 500
          BY <5>1, <1>4, <2>2
        <5>3. ASSUME NEW j \in HopIndex, j < k
              PROVE  s[j] = "WAITING" \/ (s[j] = "REPLIED" /\ t[j].code = 500)
          <6>1. stage[r][j] = "WAITING" \/ (stage[r][j] = "REPLIED" /\ reply[r][j].code = 500)
            BY <4>2, <5>3 DEF DoomedAt
          <6>2. CASE j = i - 1
            BY <6>2, <2>2, ResponseTypes
          <6>3. CASE j # i - 1
            BY <6>1, <6>3, <1>4, <2>2
          <6> QED BY <6>2, <6>3
        <5>4. DoomedAt(r, k)'
          BY <5>2, <5>3, <2>3 DEF DoomedAt
        <5> QED BY <4>2, <5>4, <1>1, <2>1 DEF Unbroken, Doomed
      <4> QED BY <4>1, <4>2, <3>2, <1>2 DEF Unbroken, Doomed
    <3> QED BY <3>1, <3>2
  <2> QED BY <1>1, <1>8, <2>4, <2>5, <2>6, <2>8, <2>9, <2>10, OneRequest DEF Good
<1> QED BY <1>9, <1>10

-----------------------------------------------------------------------------

LEMMA NextIInv == IInv /\ [Next]_vars => IInv'
<1> SUFFICES ASSUME IInv, [Next]_vars
             PROVE  IInv'
  OBVIOUS
<1>1. ASSUME NEW r \in Requests, Step(r)
      PROVE  IInv'
  BY <1>1, ReceiveKeeps, ServeKeeps, WorkKeeps, ReturnKeeps, RelayKeeps DEF Step
<1>2. CASE UNCHANGED vars
  <2>1. Shape' /\ spec' = spec /\ \A q \in Requests : Untouched(q)
    BY <1>2 DEF vars, history, IInv, Shape, Untouched
  <2>2. \A q \in Requests : Good(q)' /\ Holds(q)' = Holds(q)
    BY <2>1, UntouchedStays DEF IInv
  <2>3. Pools'
    BY <2>2, PoolsShrink DEF IInv
  <2> QED BY <2>1, <2>2, <2>3 DEF IInv
<1> QED BY <1>1, <1>2, ExpireKeeps, CallBreaksKeeps DEF Next

LEMMA InvariantHolds == Spec => []IInv
BY InitIInv, NextIInv, PTL DEF Spec

-----------------------------------------------------------------------------

\* The state keeps its shape, and no service uses more threads than its pool has
\* (ChainHopController.java:29-43).
THEOREM TypeCorrect == Spec => []TypeOK
<1>1. IInv => TypeOK
  BY DEF IInv, Shape, Specs, Responses, Marks, Pools, TypeOK
<1> QED BY <1>1, InvariantHolds, PTL

\* The client is told what happened, however deep in the chain it happened
\* (ChainHopController.java:32-48, ChainController.java:29).
THEOREM AnswersAreExplained == Spec => []AnswerIsExplained
<1>1. IInv => AnswerIsExplained
  <2> SUFFICES ASSUME IInv, NEW r \in Requests, answer[r] # NoReply
               PROVE  CASE answer[r].code = 200 ->
                             /\ answer[r].completed = spec[r].hops
                             /\ worked[r] = spec[r].hops
                             /\ expired[r] => atExpiry[r].worked = spec[r].hops
                             /\ r \notin broken
                        [] answer[r].code = 504 -> expired[r] /\ r \notin broken
                        [] OTHER -> \/ r \in broken
                                    \/ spec[r].fails /\ begun[r] = 1
                                    \/ expired[r] /\ worked[r] > 0
    BY DEF AnswerIsExplained
  <2>1. Explained(r, answer[r])
    BY DEF IInv, Good, Replies
  <2>2. r \in broken => answer[r].code = 500
    BY DEF IInv, Good, Unbroken, Doomed
  <2> QED BY <2>1, <2>2 DEF Explained
<1> QED BY <1>1, InvariantHolds, PTL

\* A hop that was called in time and served late does not begin its work
\* (ChainHopController.java:31).
THEOREM NoLateWork == Spec => []NoHopBeginsLate
<1>1. IInv => NoHopBeginsLate
  BY IndexFacts DEF IInv, Shape, Good, InTime, NoHopBeginsLate
<1> QED BY <1>1, InvariantHolds, PTL

=============================================================================

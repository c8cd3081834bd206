------------------------------ MODULE SyncChain ------------------------------
(***************************************************************************)
(* The synchronous chain: the gateway forwards a request to the            *)
(* orchestrator, the orchestrator calls hop 1, and each hop does its work  *)
(* and calls the next one, holding its server thread until the answer is   *)
(* back. A request may carry an absolute deadline, which every hop looks   *)
(* at when it begins and when its work is done. A hop knows nothing of its *)
(* caller: when the connection between them breaks, the caller throws and  *)
(* the hop works and calls on, in its thread, for nobody.                  *)
(*                                                                         *)
(* External, from the deployment the code runs in: every workload service  *)
(* has a pool of server threads, and its base-url names the service of the *)
(* next hop; the last service names itself. No client has a timeout; a     *)
(* call ends with its answer or with its connection, and at most MaxFaults *)
(* of them break. No pod dies. The gateway and the orchestrator have no    *)
(* part in a cycle, so their threads are left out. Work fails or succeeds  *)
(* by the seed of the request, which is the same at every hop.             *)
(*                                                                         *)
(* All pods share one clock here, and a hop that finds time left begins    *)
(* its work in the same step: what is checked is the test of the deadline, *)
(* not the moment on the wall clock at which the work begins.              *)
(***************************************************************************)
EXTENDS Naturals, Sequences, FiniteSets

CONSTANTS
  Requests,   \* chain requests of the clients
  MaxHops,    \* largest hopCount
  Services,   \* workload services in the order of their base-urls
  Threads,    \* server threads of each workload service
  MaxFaults   \* bound: connections that break

ASSUME ChainAssumption ==
  /\ IsFiniteSet(Requests)
  /\ MaxHops \in Nat
  /\ Services \in Seq(STRING) /\ Services # <<>>
  /\ Threads \in Nat \ {0}
  /\ MaxFaults \in Nat

VARIABLES
  spec,      \* spec[r]: hopCount, whether it has a deadline, whether its work fails
  stage,     \* stage[r][i]: where the call of hop i is; hop 0 is the orchestrator
  reply,     \* reply[r][i]: response of hop i
  answer,    \* answer[r]: response of the gateway
  expired,   \* expired[r]: the deadline has passed
  begun,     \* begun[r]: hops that began their work
  worked,    \* worked[r]: hops that did their work
  atExpiry,  \* history: begun[r] and worked[r] when the deadline passed, or MaxHops
  broken,    \* history: requests one of whose connections broke
  faults     \* bound: broken connections so far

history == <<begun, worked, atExpiry, broken>>
vars == <<spec, stage, reply, answer, expired, history, faults>>

-----------------------------------------------------------------------------

HopIndex == 0 .. MaxHops

\* A call that was made waits for a thread, works, waits for the next hop and is
\* replied to; a call that no thread has taken may be lost with its connection.
Stages == {"NONE", "CALLED", "WORKING", "WAITING", "REPLIED", "LOST"}

\* Responses: HTTP code and completedHops.
NoReply == [code |-> 0, completed |-> 0]
Completed(n) == [code |-> 200, completed |-> n]
DeadlineExceeded(n) == [code |-> 504, completed |-> n]
ServerError == [code |-> 500, completed |-> 0]

\* The service that hop i runs in.
Service(i) == Services[IF i <= Len(Services) THEN i ELSE Len(Services)]

\* A thread is held from the begin of a hop to its response, whether its caller is
\* still there or not.
Holds(r) == {i \in 1 .. MaxHops : stage[r][i] \in {"WORKING", "WAITING"}}
Busy(s) == Cardinality({h \in Requests \X (1 .. MaxHops) :
                          h[2] \in Holds(h[1]) /\ Service(h[2]) = s})

MutThreadFree(i) == Busy(Service(i)) <= Threads

ThreadFree(i) == Busy(Service(i)) < Threads

Init ==
  /\ spec \in [Requests -> [hops : HopIndex, deadline : BOOLEAN, fails : BOOLEAN]]
  /\ stage = [r \in Requests |-> [i \in HopIndex |-> IF i = 0 THEN "CALLED" ELSE "NONE"]]
  /\ reply = [r \in Requests |-> [i \in HopIndex |-> NoReply]]
  /\ answer = [r \in Requests |-> NoReply]
  /\ expired = [r \in Requests |-> FALSE]
  /\ begun = [r \in Requests |-> 0]
  /\ worked = [r \in Requests |-> 0]
  /\ atExpiry = [r \in Requests |-> [begun |-> MaxHops, worked |-> MaxHops]]
  /\ broken = {}
  /\ faults = 0

\* The clock passes the deadline of r.
Expire(r) ==
  /\ spec[r].deadline /\ ~expired[r]
  /\ expired' = [expired EXCEPT ![r] = TRUE]
  /\ atExpiry' = [atExpiry EXCEPT ![r] = [begun |-> begun[r], worked |-> worked[r]]]
  /\ UNCHANGED <<spec, stage, reply, answer, begun, worked, broken, faults>>

Respond(r, i, response) ==
  /\ stage' = [stage EXCEPT ![r][i] = "REPLIED"]
  /\ reply' = [reply EXCEPT ![r][i] = response]

CallNext(r, i) ==
  /\ stage' = [stage EXCEPT ![r][i] = "WAITING", ![r][i + 1] = "CALLED"]
  /\ UNCHANGED reply

-----------------------------------------------------------------------------

\* ChainController.chain, behind the gateway.
Receive(r) ==
  /\ stage[r][0] = "CALLED"
  /\ CASE expired[r] -> Respond(r, 0, DeadlineExceeded(0))
       [] ~expired[r] /\ spec[r].hops = 0 -> Respond(r, 0, Completed(0))
       [] OTHER -> CallNext(r, 0)
  /\ UNCHANGED <<spec, answer, expired, history, faults>>

MutChecksAfterOnly(r, i) ==
  /\ stage[r][i] = "CALLED"
  /\ ThreadFree(i)
  /\ stage' = [stage EXCEPT ![r][i] = "WORKING"]
  /\ begun' = [begun EXCEPT ![r] = @ + 1]
  /\ UNCHANGED <<spec, reply, answer, expired, worked, atExpiry, broken, faults>>

MutDropsExpired(r, i) ==
  /\ stage[r][i] = "CALLED"
  /\ ThreadFree(i)
  /\ ~expired[r]
  /\ stage' = [stage EXCEPT ![r][i] = "WORKING"]
  /\ begun' = [begun EXCEPT ![r] = @ + 1]
  /\ UNCHANGED <<spec, reply, answer, expired, worked, atExpiry, broken, faults>>

\* ChainHopController.hop: a thread takes the call of hop i, and looks at the
\* deadline before it begins the work.
Serve(r, i) ==
  /\ stage[r][i] = "CALLED"
  /\ ThreadFree(i)
  /\ IF expired[r]
       THEN Respond(r, i, DeadlineExceeded(i - 1)) /\ UNCHANGED begun
       ELSE /\ stage' = [stage EXCEPT ![r][i] = "WORKING"]
            /\ begun' = [begun EXCEPT ![r] = @ + 1]
            /\ UNCHANGED reply
  /\ UNCHANGED <<spec, answer, expired, worked, atExpiry, broken, faults>>

\* engine.execute throws for errorRate: no handler of the hop, so the answer is 500.
WorkFails(r, i) ==
  /\ stage[r][i] = "WORKING"
  /\ spec[r].fails
  /\ Respond(r, i, ServerError)
  /\ UNCHANGED <<spec, answer, expired, history, faults>>

Worked(r, i) ==
  /\ stage[r][i] = "WORKING"
  /\ ~spec[r].fails
  /\ worked' = [worked EXCEPT ![r] = @ + 1]

MutChecksOnce(r, i) ==
  /\ Worked(r, i)
  /\ IF i = spec[r].hops THEN Respond(r, i, Completed(i)) ELSE CallNext(r, i)
  /\ UNCHANGED <<spec, answer, expired, begun, atExpiry, broken, faults>>

\* The deadline again; then the last hop answers and any other calls the next one.
WorkEnds(r, i) ==
  /\ Worked(r, i)
  /\ CASE expired[r] -> Respond(r, i, DeadlineExceeded(i))
       [] ~expired[r] /\ i = spec[r].hops -> Respond(r, i, Completed(i))
       [] OTHER -> CallNext(r, i)
  /\ UNCHANGED <<spec, answer, expired, begun, atExpiry, broken, faults>>

\* retrieve() in hop i - 1 gets the response of hop i: any but 200 is an exception
\* that nobody catches.
ReturnToHop(r, i) ==
  /\ i > 1
  /\ stage[r][i - 1] = "WAITING" /\ stage[r][i] = "REPLIED"
  /\ Respond(r, i - 1, IF reply[r][i].code = 200 THEN reply[r][i] ELSE ServerError)
  /\ UNCHANGED <<spec, answer, expired, history, faults>>

\* In the orchestrator a 504 is caught, and becomes one without completed hops.
ReturnToOrchestrator(r) ==
  /\ stage[r][0] = "WAITING" /\ stage[r][1] = "REPLIED"
  /\ Respond(r, 0, CASE reply[r][1].code = 200 -> reply[r][1]
                     [] reply[r][1].code = 504 -> DeadlineExceeded(0)
                     [] OTHER -> ServerError)
  /\ UNCHANGED <<spec, answer, expired, history, faults>>

\* WorkloadProxyController.chain: 200 and 504 are relayed, all else is an exception.
Relay(r) ==
  /\ answer[r] = NoReply /\ stage[r][0] = "REPLIED"
  /\ answer' = [answer EXCEPT ![r] =
                  IF reply[r][0].code \in {200, 504} THEN reply[r][0] ELSE ServerError]
  /\ UNCHANGED <<spec, stage, reply, expired, history, faults>>

\* What a break leaves of the call at the other end.
LeftOf(r, i) == IF stage[r][i] = "CALLED" THEN {"CALLED", "LOST"} ELSE {stage[r][i]}

\* The connection to hop i breaks, anywhere on the way from the gateway to the hop
\* that works: the caller throws, and hop i does not notice.
CallBreaks(r, i) ==
  /\ faults < MaxFaults
  /\ stage[r][i] # "NONE"
  /\ \E left \in LeftOf(r, i) :
       IF i = 0
         THEN /\ answer[r] = NoReply
              /\ answer' = [answer EXCEPT ![r] = ServerError]
              /\ stage' = [stage EXCEPT ![r][0] = left]
              /\ UNCHANGED reply
         ELSE /\ stage[r][i - 1] = "WAITING"
              /\ stage' = [stage EXCEPT ![r][i - 1] = "REPLIED", ![r][i] = left]
              /\ reply' = [reply EXCEPT ![r][i - 1] = ServerError]
              /\ UNCHANGED answer
  /\ faults' = faults + 1
  /\ broken' = broken \cup {r}
  /\ UNCHANGED <<spec, expired, begun, worked, atExpiry>>

-----------------------------------------------------------------------------

Step(r) ==
  \/ Receive(r) \/ ReturnToOrchestrator(r) \/ Relay(r)
  \/ \E i \in 1 .. MaxHops :
       Serve(r, i) \/ WorkFails(r, i) \/ WorkEnds(r, i) \/ ReturnToHop(r, i)

Next ==
  \E r \in Requests :
    Step(r) \/ Expire(r) \/ \E i \in HopIndex : CallBreaks(r, i)

Spec == Init /\ [][Next]_vars

\* The chain goes on as long as some call can: work ends, and a free thread takes a
\* waiting call. Neither the clock nor a broken connection is counted on, and no
\* request is preferred: each has only so many steps to take.
FairSpec == Spec /\ WF_vars(\E r \in Requests : Step(r))

-----------------------------------------------------------------------------
\* Properties.

\* The shape of the state; no service uses more threads than it has.
TypeOK ==
  /\ spec \in [Requests -> [hops : HopIndex, deadline : BOOLEAN, fails : BOOLEAN]]
  /\ stage \in [Requests -> [HopIndex -> Stages]]
  /\ reply \in [Requests -> [HopIndex -> [code : {0, 200, 500, 504}, completed : HopIndex]]]
  /\ answer \in [Requests -> [code : {0, 200, 500, 504}, completed : HopIndex]]
  /\ expired \in [Requests -> BOOLEAN]
  /\ begun \in [Requests -> HopIndex]
  /\ worked \in [Requests -> HopIndex]
  /\ atExpiry \in [Requests -> [begun : HopIndex, worked : HopIndex]]
  /\ broken \subseteq Requests
  /\ faults \in 0 .. MaxFaults
  /\ \A i \in DOMAIN Services : Busy(Services[i]) <= Threads

\* What the client is told is what happened: 200 when every hop did its work, no
\* connection broke and the deadline passed after the last hop, if it did; 504 only
\* when the deadline has passed and no connection broke; and 500 only when work
\* failed, a connection broke, or the deadline passed further down the chain.
AnswerIsExplained ==
  \A r \in Requests : answer[r] # NoReply =>
    CASE answer[r].code = 200 ->
           /\ answer[r].completed = spec[r].hops
           /\ worked[r] = spec[r].hops
           /\ expired[r] => atExpiry[r].worked = spec[r].hops
           /\ r \notin broken
      [] answer[r].code = 504 -> expired[r] /\ r \notin broken
      [] OTHER ->
           r \in broken \/ (spec[r].fails /\ begun[r] = 1) \/ (expired[r] /\ worked[r] > 0)

\* When the deadline has passed no further hop begins its work, however long its
\* call has been waiting for a thread and whether its caller is still there or not.
NoHopBeginsLate == \A r \in Requests : begun[r] <= atExpiry[r].begun

\* The call of hop i of r waits, through the hops below it, for a thread of s.
WaitsFor(r, i, s) ==
  \E k \in i + 1 .. MaxHops :
    /\ \A j \in i .. k - 1 : stage[r][j] = "WAITING"
    /\ stage[r][k] = "CALLED" /\ Service(k) = s

\* Every thread of s is held by a call that waits for a further thread of s.
Exhausted(s) ==
  /\ Busy(s) = Threads
  /\ \A r \in Requests : \A i \in Holds(r) : Service(i) = s => WaitsFor(r, i, s)

\* Every request is answered, whoever it has to wait for, abandoned calls included,
\* and whatever breaks further down, unless chains that call one service twice have
\* taken all its threads: the last workload calls itself (values.yaml:71), and no
\* client has a timeout.
ChainAnswered ==
  \A r \in Requests :
    stage[r][0] = "CALLED" ~>
      answer[r] # NoReply \/ \E i \in DOMAIN Services : Exhausted(Services[i])

\* What the checkpoint says of a request whose deadline passes before its work
\* is done: it is answered with 504.
DeadlineReported ==
  \A r \in Requests :
    /\ answer[r] # NoReply /\ expired[r]
    /\ atExpiry[r].worked < spec[r].hops
    /\ r \notin broken /\ ~spec[r].fails
    => answer[r].code = 504

=============================================================================

------------------------- MODULE FakeRegistryProofs -------------------------
(***************************************************************************)
(* Proofs about FakeRegistry, for any number of handlers and any bounds.   *)
(***************************************************************************)
EXTENDS FakeRegistry, TLAPS

(* A longer order of a larger set.                                         *)
LEMMA SeqMonotone ==
  ASSUME NEW S, NEW T, S \subseteq T, NEW s \in Seq(S)
  PROVE  s \in Seq(T)
<1>1. /\ Len(s) \in Nat
      /\ s \in [1 .. Len(s) -> S]
  OBVIOUS
<1>2. s \in [1 .. Len(s) -> T]
  BY <1>1
<1> QED
  BY <1>1, <1>2

LEMMA AppendTyped ==
  ASSUME NEW S, NEW T, S \subseteq T, NEW s \in Seq(S), NEW x \in T
  PROVE  Append(s, x) \in Seq(T)
  BY SeqMonotone

(* What the daemon can send is a request of the wire format.               *)
LEMMA RequestsTyped ==
  ASSUME IdentityTypeOK, StoreTypeOK
  PROVE  PossibleRequests \subseteq Request
<1>2. 0 .. sequence \subseteq Nat
  BY DEF IdentityTypeOK
<1>3. /\ AttestationRefs \subseteq Nat /\ Leases \subseteq Nat
      /\ AskedInstances \subseteq Nat /\ AskedWorkloads \subseteq Nat
  BY DataAssumption
<1>4. ListRequests \subseteq Request
  BY DEF ListRequests, Ask, Request, AllOps, Lists
<1>5. ContextRequests \subseteq Request
  BY <1>2, <1>3 DEF ContextRequests, Ids, Ask, Request, AllOps, Lists
<1>6. InstanceRequests \subseteq Request
  BY <1>2, <1>3 DEF InstanceRequests, Ids, Ask, Request, AllOps, Lists
<1> QED
  BY <1>4, <1>5, <1>6 DEF PossibleRequests

(* A handler that answers in the right type keeps the threads' types.      *)
LEMMA AnswerTyped ==
  ASSUME ThreadTypeOK, NEW h \in Handlers, NEW reply \in Reply,
         Answer(h, reply), mu' \in {mu, "free"}, rpc' = rpc
  PROVE  ThreadTypeOK'
<1>1. NoRequest \in Request
  BY DEF NoRequest, Ask, Request, AllOps, Lists
<1>2. NoAgent \in Agent
  BY DEF NoAgent, Agent, AgentState
<1> QED
  BY <1>1, <1>2 DEF ThreadTypeOK, Answer

LEMMA DeliverTyped ==
  ASSUME ThreadTypeOK, NEW h \in Handlers, Deliver(h)
  PROVE  ThreadTypeOK'
<1>1. replies \cup ready[h] \subseteq Reply /\ {} \in SUBSET Reply
  BY DEF ThreadTypeOK
<1> QED
  BY <1>1 DEF ThreadTypeOK, Deliver

LEMMA ContextReplyTyped ==
  ASSUME TypeOK, NEW h \in Handlers
  PROVE  ContextReply(h) \in Reply
<1> DEFINE r == req[h]
<1>1. r \in Request /\ held[h] \in Agent /\ identity \in Identity
  BY DEF TypeOK, ThreadTypeOK, IdentityTypeOK
<1>2. Refusal(h, "unknown instance") \in Reply
  BY <1>1 DEF Refusal, Reply
<1>3. Refusal(h, "unknown workload registration") \in Reply
  BY <1>1 DEF Refusal, Reply
<1>4. ASSUME r.instanceID # 0 => r.instanceID \in DOMAIN instances
      PROVE  [kind |-> "context", agent |-> held[h], identity |-> identity,
              instance |-> IF r.instanceID = 0 THEN NoInstance
                                               ELSE instances[r.instanceID],
              registrationID |-> Registration(r)] \in Reply
  <2>1. NoInstance \in Instance
    BY DEF NoInstance, Instance, InstanceState
  <2>2. r.instanceID # 0 => instances[r.instanceID] \in Instance
    BY <1>4 DEF TypeOK, StoreTypeOK
  <2>3. Registration(r) \in Nat
    BY <1>1, <2>2 DEF Registration, Request, Instance
  <2> QED
    BY <1>1, <2>1, <2>2, <2>3 DEF Reply
<1> QED
  BY <1>2, <1>3, <1>4 DEF ContextReply

(* The types of the maps survive a step that leaves the maps alone.        *)
LEMMA StoreFrame ==
  ASSUME IdentityTypeOK, StoreTypeOK, sequence' \in {sequence, sequence + 1},
         UNCHANGED storeVars
  PROVE  StoreTypeOK'
  BY DEF IdentityTypeOK, StoreTypeOK, storeVars

-----------------------------------------------------------------------------
LEMMA Successor == \A n \in Nat : n + 1 \in Nat
  OBVIOUS

(* What the mutators write into the Agent, the Identity and an instance.   *)
LEMMA AgentUpdates ==
  /\ \A n \in Nat : [ref |-> n, state |-> "active", epoch |-> 1] \in Agent
  /\ \A a \in Agent :
       /\ a.ref \in Nat /\ a.epoch \in Nat
       /\ \A e \in Nat : [a EXCEPT !.epoch = e] \in Agent
       /\ \A s \in AgentState : [a EXCEPT !.state = s] \in Agent
       /\ \A s \in AgentState, e \in Nat :
            [a EXCEPT !.state = s, !.epoch = e] \in Agent
  BY DEF Agent, AgentState

LEMMA IdentityUpdates ==
  /\ \A n \in Nat : [id |-> n, state |-> "active", epoch |-> 1,
                     subject |-> 0, root |-> n] \in Identity
  /\ \A v \in Identity :
       /\ v.id \in Nat /\ v.epoch \in Nat
       /\ \A e \in Nat : [v EXCEPT !.epoch = e] \in Identity
       /\ \A n \in Nat : [v EXCEPT !.subject = n] \in Identity
       /\ \A s \in IdentityState : [v EXCEPT !.state = s] \in Identity
       /\ \A s \in IdentityState, e \in Nat :
            [v EXCEPT !.state = s, !.epoch = e] \in Identity
  BY DEF Identity, IdentityState

LEMMA InstanceUpdates ==
  \A v \in Instance :
    /\ v.generation \in Nat
    /\ \A g \in Nat :
         [v EXCEPT !.state = "terminated", !.generation = g] \in Instance
    /\ \A t \in Nat : [v EXCEPT !.lease = t] \in Instance
  BY DEF Instance, InstanceState

-----------------------------------------------------------------------------
(* The fields always have their types: every mutator writes one of the     *)
(* states the wire format knows and counts its epoch on.                   *)
LEMMA IdentityTypeStep ==
  ASSUME TypeOK, [Next]_vars
  PROVE  IdentityTypeOK'
<1>0. IdentityTypeOK
  BY DEF TypeOK
<1> USE AgentUpdates, IdentityUpdates, Successor DEF IdentityTypeOK
<1>1. CASE SeedAgentBegin
  BY <1>0, <1>1 DEF SeedAgentBegin
<1>2. CASE SeedAgentEnd
  BY <1>0, <1>2 DEF SeedAgentEnd
<1>3. CASE SetIdentityAttributes
  BY <1>0, <1>3 DEF SetIdentityAttributes
<1>4. CASE AddWorkload
  BY <1>0, <1>4 DEF AddWorkload, identityVars
<1>5. CASE SuspendAgentBegin
  BY <1>0, <1>5 DEF SuspendAgentBegin, AgentState
<1>6. CASE SuspendAgentEnd
  BY <1>0, <1>6 DEF SuspendAgentEnd
<1>7. CASE RevokeAgentBegin
  BY <1>0, <1>7 DEF RevokeAgentBegin, AgentState
<1>8. CASE RevokeAgentEnd
  BY <1>0, <1>8 DEF RevokeAgentEnd, IdentityState
<1>9. CASE SuspendIdentityBegin
  BY <1>0, <1>9 DEF SuspendIdentityBegin, IdentityState
<1>10. CASE SuspendIdentityEnd
  BY <1>0, <1>10 DEF SuspendIdentityEnd
<1>11. ASSUME NEW i, TerminateInstance(i) \/ \E t : LeaseInstance(i, t)
       PROVE  UNCHANGED <<sequence, agent, identity>>
  BY <1>11 DEF TerminateInstance, LeaseInstance, identityVars
<1>12. ASSUME NEW h \in Handlers,
              ServeHTTP(h) \/ \E r \in PossibleRequests : Send(h, r)
       PROVE  UNCHANGED <<agent, identity>> /\ sequence' \in Nat
  BY <1>0, <1>12 DEF ServeHTTP, Send, ListNamespaces, ListAgents,
       ListIdentities, ListWorkloads, ListInstances, ContextBegin,
       ContextUnknownAgent, ContextEnd, CommitInstance, CommitRefused, Deliver,
       identityVars
<1>13. CASE UNCHANGED vars
  BY <1>0, <1>13 DEF vars, identityVars
<1> QED
  BY <1>0, <1>1, <1>2, <1>3, <1>4, <1>5, <1>6, <1>7, <1>8, <1>9, <1>10,
     <1>11, <1>12, <1>13 DEF Next, Runner

(* The counter stands still or makes one more id.                          *)
LEMMA SequenceStep ==
  ASSUME [Next]_vars
  PROVE  sequence' \in {sequence, sequence + 1}
  BY DEF Next, Runner, ServeHTTP, vars, SeedAgentBegin, SeedAgentEnd,
     SetIdentityAttributes, AddWorkload, SuspendAgentBegin, SuspendAgentEnd,
     RevokeAgentBegin, RevokeAgentEnd, SuspendIdentityBegin,
     SuspendIdentityEnd, TerminateInstance, LeaseInstance, Send,
     ListNamespaces, ListAgents, ListIdentities, ListWorkloads,
     ListInstances, ContextBegin, ContextUnknownAgent, ContextEnd,
     CommitInstance, CommitRefused, Deliver

(* The maps and their orders always have their types.                      *)
LEMMA StoreTypeStep ==
  ASSUME TypeOK, [Next]_vars
  PROVE  StoreTypeOK'
<1>0. IdentityTypeOK /\ StoreTypeOK
  BY DEF TypeOK
<1>1. sequence' \in {sequence, sequence + 1}
  BY SequenceStep
<1>2. CASE UNCHANGED storeVars
  BY <1>0, <1>1, <1>2, StoreFrame
<1>3. CASE AddWorkload
  <2>1. workloadOrder' \in Seq(workloads')
    BY <1>0, <1>3, AppendTyped DEF AddWorkload, StoreTypeOK
  <2> QED
    BY <1>0, <1>3, <2>1 DEF AddWorkload, StoreTypeOK, IdentityTypeOK
<1>4. ASSUME NEW i \in DOMAIN instances,
             TerminateInstance(i) \/ \E t \in Leases : LeaseInstance(i, t)
      PROVE  StoreTypeOK'
  <2>1. /\ instances' \in [DOMAIN instances -> Instance]
        /\ DOMAIN instances' = DOMAIN instances
    <3>0. instances[i] \in Instance
      BY <1>0 DEF StoreTypeOK
    <3>1. CASE TerminateInstance(i)
      BY <1>0, <3>0, <3>1, InstanceUpdates, Successor
         DEF TerminateInstance, StoreTypeOK
    <3>2. ASSUME NEW t \in Leases, LeaseInstance(i, t)
          PROVE  /\ instances' \in [DOMAIN instances -> Instance]
                 /\ DOMAIN instances' = DOMAIN instances
      BY <1>0, <3>0, <3>2, InstanceUpdates, DataAssumption
         DEF LeaseInstance, StoreTypeOK
    <3> QED
      BY <1>4, <3>1, <3>2
  <2>2. UNCHANGED <<sequence, workloads, workloadOrder, instanceOrder>>
    BY <1>4 DEF TerminateInstance, LeaseInstance
  <2> QED
    BY <1>0, <2>1, <2>2 DEF StoreTypeOK
<1>5. ASSUME NEW h \in Handlers, CommitInstance(h)
      PROVE  StoreTypeOK'
  <2> DEFINE new == [id |-> sequence + 1, agentID |-> req[h].agentID,
                     registrationID |-> req[h].registrationID,
                     attestationRef |-> req[h].attestationRef,
                     lease |-> req[h].lease, state |-> "active",
                     generation |-> 1]
  <2>1. new \in Instance
    BY DEF TypeOK, IdentityTypeOK, ThreadTypeOK, Instance, InstanceState,
           Request
  <2>2. /\ instances' = [i \in DOMAIN instances \cup {new.id} |->
                           IF i = new.id THEN new ELSE instances[i]]
        /\ instanceOrder' = Append(instanceOrder, new.id)
        /\ sequence' = sequence + 1 /\ new.id = sequence + 1
        /\ UNCHANGED <<workloads, workloadOrder>>
    BY <1>5 DEF CommitInstance
  <2> HIDE DEF new
  <2>3. DOMAIN instances' = DOMAIN instances \cup {new.id}
    BY <2>2
  <2>4. instances' \in [DOMAIN instances' -> Instance]
    <3>1. \A i \in DOMAIN instances : instances[i] \in Instance
      BY <1>0 DEF StoreTypeOK
    <3> QED
      BY <2>1, <2>2, <2>3, <3>1
  <2>5. instanceOrder' \in Seq(DOMAIN instances')
    BY <1>0, <2>2, <2>3, AppendTyped DEF StoreTypeOK
  <2>6. DOMAIN instances' \subseteq 1 .. sequence' /\ workloads' \subseteq 1 .. sequence'
    BY <1>0, <2>2, <2>3 DEF StoreTypeOK, IdentityTypeOK
  <2> QED
    BY <1>0, <2>2, <2>4, <2>5, <2>6 DEF StoreTypeOK
<1> QED
  BY <1>2, <1>3, <1>4, <1>5
     DEF Next, Runner, ServeHTTP, vars, SeedAgentBegin, SeedAgentEnd,
         SetIdentityAttributes, SuspendAgentBegin, SuspendAgentEnd,
         RevokeAgentBegin, RevokeAgentEnd, SuspendIdentityBegin,
         SuspendIdentityEnd, Send, ListNamespaces, ListAgents, ListIdentities,
         ListWorkloads, ListInstances, ContextBegin, ContextUnknownAgent,
         ContextEnd, CommitRefused, Deliver

(* The threads and the replies always have their types: a handler only     *)
(* sends what the wire format has.                                         *)
LEMMA ThreadTypeStep ==
  ASSUME TypeOK, [Next]_vars
  PROVE  ThreadTypeOK'
<1>0. ThreadTypeOK /\ StoreTypeOK /\ IdentityTypeOK
  BY DEF TypeOK
<1>1. ASSUME Runner
      PROVE  ThreadTypeOK'
  <2>1. /\ mu' \in {mu, "free", "runner"}
        /\ rpc' \in {rpc, "idle", "seed", "suspend", "revoke", "suspendIdentity"}
        /\ UNCHANGED handlerVars
    BY <1>1 DEF Runner, SeedAgentBegin, SeedAgentEnd, SetIdentityAttributes,
         AddWorkload, SuspendAgentBegin, SuspendAgentEnd, RevokeAgentBegin,
         RevokeAgentEnd, SuspendIdentityBegin, SuspendIdentityEnd,
         TerminateInstance, LeaseInstance, Begin, End, Atomically
  <2> QED
    BY <1>0, <2>1 DEF ThreadTypeOK, handlerVars
<1>2. ASSUME NEW h \in Handlers, NEW r \in PossibleRequests, Send(h, r)
      PROVE  ThreadTypeOK'
  <2>1. r \in Request
    BY <1>0, RequestsTyped
  <2> QED
    BY <1>0, <1>2, <2>1 DEF Send, ThreadTypeOK
<1>3. ASSUME NEW h \in Handlers, ListNamespaces(h)
      PROVE  ThreadTypeOK'
  <2>1. PICK root \in RootsRead :
          Answer(h, [kind |-> "namespaces", root |-> root])
    BY <1>3 DEF ListNamespaces
  <2>2. [kind |-> "namespaces", root |-> root] \in Reply
    BY <1>0 DEF RootsRead, Reply, IdentityTypeOK, Identity
  <2> QED
    BY <1>0, <1>3, <2>1, <2>2, AnswerTyped DEF ListNamespaces
<1>4. ASSUME NEW h \in Handlers, ListAgents(h)
      PROVE  ThreadTypeOK'
  <2>1. [kind |-> "agents", agent |-> agent] \in Reply
    BY <1>0 DEF Reply, IdentityTypeOK
  <2> QED
    BY <1>0, <1>4, <2>1, AnswerTyped DEF ListAgents
<1>5. ASSUME NEW h \in Handlers, ListIdentities(h)
      PROVE  ThreadTypeOK'
  <2>1. [kind |-> "identities", identity |-> identity] \in Reply
    BY <1>0 DEF Reply, IdentityTypeOK
  <2> QED
    BY <1>0, <1>5, <2>1, AnswerTyped DEF ListIdentities
<1>6. ASSUME NEW h \in Handlers, ListWorkloads(h)
      PROVE  ThreadTypeOK'
  <2>1. workloadOrder \in Seq(Nat)
    BY <1>0, SeqMonotone DEF StoreTypeOK
  <2>2. [kind |-> "workloads", order |-> workloadOrder] \in Reply
    BY <2>1 DEF Reply
  <2> QED
    BY <1>0, <1>6, <2>2, AnswerTyped DEF ListWorkloads
<1>7. ASSUME NEW h \in Handlers, ListInstances(h)
      PROVE  ThreadTypeOK'
  <2> DEFINE listed == {instances[i] : i \in Range(instanceOrder)}
             items  == {v \in listed : v.agentID = req[h].agentID}
  <2>1. Range(instanceOrder) \subseteq DOMAIN instances
    BY <1>0 DEF Range, StoreTypeOK
  <2>2. items \subseteq Instance
    BY <1>0, <2>1 DEF StoreTypeOK
  <2>3. [kind |-> "instances", items |-> items] \in Reply
    BY <2>2 DEF Reply
  <2> QED
    BY <1>0, <1>7, <2>3, AnswerTyped DEF ListInstances
<1>8. ASSUME NEW h \in Handlers, ContextBegin(h)
      PROVE  ThreadTypeOK'
  BY <1>0, <1>8 DEF ContextBegin, ThreadTypeOK, IdentityTypeOK
<1>9. ASSUME NEW h \in Handlers, ContextUnknownAgent(h) \/ CommitRefused(h)
      PROVE  ThreadTypeOK'
  <2>1. \A why \in {"invalid_request", "unknown agent",
                    "unknown workload registration"} :
           Refusal(h, why) \in Reply
    BY <1>0 DEF Refusal, Reply, ThreadTypeOK
  <2> QED
    BY <1>0, <1>9, <2>1, AnswerTyped DEF ContextUnknownAgent, CommitRefused
<1>10. ASSUME NEW h \in Handlers, ContextEnd(h)
       PROVE  ThreadTypeOK'
  BY <1>0, <1>10, ContextReplyTyped, AnswerTyped DEF ContextEnd
<1>11. ASSUME NEW h \in Handlers, CommitInstance(h)
       PROVE  ThreadTypeOK'
  <2>1. PICK new : /\ Answer(h, [kind |-> "created", instance |-> new])
                   /\ new = [id |-> sequence + 1, agentID |-> req[h].agentID,
                             registrationID |-> req[h].registrationID,
                             attestationRef |-> req[h].attestationRef,
                             lease |-> req[h].lease, state |-> "active",
                             generation |-> 1]
    BY <1>11 DEF CommitInstance
  <2>2. new \in Instance
    BY <1>0, <2>1 DEF IdentityTypeOK, ThreadTypeOK, Instance, InstanceState,
                      Request
  <2>3. [kind |-> "created", instance |-> new] \in Reply
    BY <2>2 DEF Reply
  <2> QED
    BY <1>0, <1>11, <2>1, <2>3, AnswerTyped DEF CommitInstance
<1>12. ASSUME NEW h \in Handlers, Deliver(h)
       PROVE  ThreadTypeOK'
  BY <1>0, <1>12, DeliverTyped
<1>13. CASE UNCHANGED vars
  BY <1>0, <1>13 DEF vars, handlerVars, ThreadTypeOK
<1> QED
  BY <1>1, <1>2, <1>3, <1>4, <1>5, <1>6, <1>7, <1>8, <1>9, <1>10, <1>11,
     <1>12, <1>13 DEF Next, ServeHTTP

(* Types are an invariant, whatever the bounds and however many handlers.  *)
THEOREM TypeCorrect == Spec => []TypeOK
<1>1. Init => TypeOK
  <2>1. /\ NoAgent \in Agent /\ NoIdentity \in Identity
        /\ NoRequest \in Request
    BY DEF NoAgent, NoIdentity, NoRequest, Ask, Agent, Identity,
           AgentState, IdentityState, Request, AllOps, Lists
  <2>2. /\ <<>> \in Seq({})
        /\ DOMAIN <<>> = {}
        /\ <<>> \in [{} -> Instance]
    OBVIOUS
  <2>3. Init => IdentityTypeOK
    BY <2>1 DEF Init, IdentityTypeOK
  <2>4. Init => StoreTypeOK
    BY <2>2 DEF Init, StoreTypeOK
  <2>5. Init => ThreadTypeOK
    BY <2>1 DEF Init, ThreadTypeOK
  <2> QED
    BY <2>3, <2>4, <2>5 DEF TypeOK
<1>2. TypeOK /\ [Next]_vars => TypeOK'
  BY IdentityTypeStep, StoreTypeStep, ThreadTypeStep DEF TypeOK
<1> QED
  BY <1>1, <1>2, PTL DEF Spec

-----------------------------------------------------------------------------
(* The replies grow only by what a handler answers, and what it answers    *)
(* about the Agent or the Identity is the current value of a registry no   *)
(* mutator is in the middle of.                                            *)
ReadsCurrent ==
  /\ UNCHANGED <<agent, identity, rpc>>
  /\ \/ /\ AgentsShown' = AgentsShown
        /\ IdentitiesShown' = IdentitiesShown
        /\ Contexts' = Contexts
     \/ /\ rpc = "idle"
        /\ AgentsShown' \subseteq AgentsShown \cup {agent}
        /\ IdentitiesShown' \subseteq IdentitiesShown \cup {identity}
        /\ \A c \in Contexts' \ Contexts :
              c.agent = agent /\ c.identity = identity

LEMMA AnswerDecides ==
  ASSUME TypeOK, ReplyInv, NEW h \in Handlers, NEW reply,
         pc[h] # "sending", Answer(h, reply)
  PROVE  Decided' = Decided \cup {reply}
<1>1. ready \in [Handlers -> SUBSET Reply] /\ ready[h] = {}
  BY DEF TypeOK, ThreadTypeOK, ReplyInv
<1>2. /\ ready'[h] = {reply} /\ replies' = replies
      /\ \A g \in Handlers \ {h} : ready'[g] = ready[g]
  BY <1>1 DEF Answer
<1> QED
  BY <1>1, <1>2 DEF Decided

LEMMA DeliverDecides ==
  ASSUME TypeOK, NEW h \in Handlers, Deliver(h)
  PROVE  Decided' = Decided
<1>1. ready \in [Handlers -> SUBSET Reply]
  BY DEF TypeOK, ThreadTypeOK
<1>2. /\ ready'[h] = {} /\ replies' = replies \cup ready[h]
      /\ \A g \in Handlers \ {h} : ready'[g] = ready[g]
  BY <1>1 DEF Deliver
<1> QED
  BY <1>1, <1>2 DEF Decided

LEMMA DecidedKept ==
  ASSUME UNCHANGED <<ready, replies>>
  PROVE  Decided' = Decided
  BY DEF Decided

LEMMA DecidedShows ==
  ASSUME NEW reply, Decided' = Decided \cup {reply}
  PROVE  /\ reply.kind \notin {"agents", "context"} => AgentsShown' = AgentsShown
         /\ AgentsShown' \subseteq AgentsShown \cup {reply.agent}
         /\ reply.kind \notin {"identities", "context"} =>
              IdentitiesShown' = IdentitiesShown
         /\ IdentitiesShown' \subseteq IdentitiesShown \cup {reply.identity}
         /\ reply.kind # "context" => Contexts' = Contexts
         /\ Contexts' \subseteq Contexts \cup {reply}
  BY DEF AgentsShown, IdentitiesShown, AgentsIn, IdentitiesIn, Contexts

(* The reply a handler makes.                                              *)
Current(reply) ==
  /\ reply.kind \in {"agents", "identities", "context"} => rpc = "idle"
  /\ reply.kind \in {"agents", "context"} => reply.agent = agent
  /\ reply.kind \in {"identities", "context"} => reply.identity = identity

LEMMA HandlersAnswerCurrent ==
  ASSUME MutexInv, NEW h \in Handlers, ServeHTTP(h),
         ~ ContextBegin(h), ~ Deliver(h)
  PROVE  pc[h] # "sending" /\ \E reply : Answer(h, reply) /\ Current(reply)
<1>0. pc[h] # "sending"
  BY DEF ServeHTTP, Serving, ListNamespaces, ListAgents, ListIdentities,
     ListWorkloads, ListInstances, ContextUnknownAgent, ContextEnd,
     CommitInstance, CommitRefused
<1> DEFINE Answers == \E reply : Answer(h, reply) /\ Current(reply)
<1>a. ASSUME NEW reply, Answer(h, reply), Current(reply)
      PROVE  Answers
  BY <1>a
<1> HIDE DEF Answers
<1>1. ASSUME NEW reply, Answer(h, reply),
             reply.kind \notin {"agents", "identities", "context"}
      PROVE  Answers
  BY <1>a, <1>1 DEF Current
<1>2. ASSUME ListAgents(h) PROVE Answers
  <2>1. rpc = "idle"
    BY <1>2, ThreadsAssumption DEF ListAgents, MutexInv
  <2>2. Current([kind |-> "agents", agent |-> agent])
    BY <2>1 DEF Current
  <2> QED
    BY <1>a, <1>2, <2>2 DEF ListAgents
<1>3. ASSUME ListIdentities(h) PROVE Answers
  <2>1. rpc = "idle"
    BY <1>3, ThreadsAssumption DEF ListIdentities, MutexInv
  <2>2. Current([kind |-> "identities", identity |-> identity])
    BY <2>1 DEF Current
  <2> QED
    BY <1>a, <1>3, <2>2 DEF ListIdentities
<1>4. ASSUME ContextEnd(h) PROVE Answers
  <2>1. rpc = "idle" /\ held[h] = agent
    BY <1>4, ThreadsAssumption DEF ContextEnd, MutexInv
  <2>2. \/ ContextReply(h).kind = "refused"
        \/ /\ ContextReply(h).kind = "context"
           /\ ContextReply(h).agent = agent
           /\ ContextReply(h).identity = identity
    BY <2>1 DEF ContextReply, Refusal
  <2>3. Current(ContextReply(h))
    BY <2>1, <2>2 DEF Current
  <2> QED
    BY <1>a, <1>4, <2>3 DEF ContextEnd
<1>5. ASSUME ListNamespaces(h) PROVE Answers
  BY <1>1, <1>5 DEF ListNamespaces
<1>6. ASSUME ListWorkloads(h) PROVE Answers
  BY <1>1, <1>6 DEF ListWorkloads
<1>7. ASSUME ListInstances(h) PROVE Answers
  BY <1>1, <1>7 DEF ListInstances
<1>8. ASSUME ContextUnknownAgent(h) \/ CommitRefused(h) PROVE Answers
  <2>1. \A why : Refusal(h, why).kind = "refused"
    BY DEF Refusal
  <2> QED
    BY <1>1, <1>8, <2>1 DEF ContextUnknownAgent, CommitRefused
<1>9. ASSUME CommitInstance(h) PROVE Answers
  BY <1>1, <1>9 DEF CommitInstance
<1>10. Answers
  BY <1>2, <1>3, <1>4, <1>5, <1>6, <1>7, <1>8, <1>9 DEF ServeHTTP
<1> QED
  BY <1>0, <1>10 DEF Answers

LEMMA HandlersReadCurrent ==
  ASSUME TypeOK, MutexInv, ReplyInv, NEW h \in Handlers,
         ServeHTTP(h) \/ \E r \in PossibleRequests : Send(h, r)
  PROVE  ReadsCurrent
<1>0. UNCHANGED <<agent, identity, rpc>>
  BY DEF ServeHTTP, Send, ListNamespaces, ListAgents, ListIdentities,
     ListWorkloads, ListInstances, ContextBegin, ContextUnknownAgent,
     ContextEnd, CommitInstance, CommitRefused, Deliver, identityVars
<1>1. ASSUME Decided' = Decided
      PROVE  ReadsCurrent
  BY <1>0, <1>1 DEF ReadsCurrent, AgentsShown, IdentitiesShown, Contexts
<1>2. CASE ContextBegin(h) \/ \E r \in PossibleRequests : Send(h, r)
  BY <1>1, <1>2, DecidedKept DEF ContextBegin, Send
<1>3. CASE Deliver(h)
  BY <1>1, <1>3, DeliverDecides
<1>4. CASE ServeHTTP(h) /\ ~ ContextBegin(h) /\ ~ Deliver(h)
  <2>1. pc[h] # "sending"
    BY <1>4, HandlersAnswerCurrent
  <2>2. PICK reply : Answer(h, reply) /\ Current(reply)
    BY <1>4, HandlersAnswerCurrent
  <2>3. Decided' = Decided \cup {reply}
    BY <2>1, <2>2, AnswerDecides
  <2> QED
    BY <1>0, <2>2, <2>3, DecidedShows DEF ReadsCurrent, Current
<1> QED
  BY <1>2, <1>3, <1>4

(* A step of the runner sends nothing.                                     *)
LEMMA RunnerSendsNothing ==
  ASSUME Runner
  PROVE  /\ UNCHANGED <<pc, req, held, ready, known, replies>>
         /\ Decided' = Decided
         /\ AgentsShown' = AgentsShown
         /\ IdentitiesShown' = IdentitiesShown
         /\ Contexts' = Contexts
<1>1. UNCHANGED <<pc, req, held, ready, known, replies>>
  BY DEF Runner, SeedAgentBegin, SeedAgentEnd, SetIdentityAttributes,
     AddWorkload, SuspendAgentBegin, SuspendAgentEnd, RevokeAgentBegin,
     RevokeAgentEnd, SuspendIdentityBegin, SuspendIdentityEnd,
     TerminateInstance, LeaseInstance, handlerVars
<1>2. Decided' = Decided
  BY <1>1, DecidedKept
<1> QED
  BY <1>1, <1>2 DEF AgentsShown, IdentitiesShown, Contexts

(* What one step of the runner does to the mutex, the Agent and the        *)
(* Identity.                                                               *)
MutatorEffect ==
  \/ UNCHANGED <<mu, rpc, agent, identity>>
  \/ /\ mu = "free" /\ rpc = "idle" /\ UNCHANGED <<mu, rpc, agent>>
     /\ identity' = [identity EXCEPT !.subject = identity.id]
  \/ /\ Begin("seed") /\ UNCHANGED identity /\ sequence' = sequence + 1
     /\ agent' = [ref |-> sequence + 1, state |-> "active", epoch |-> 1]
  \/ /\ End("seed") /\ UNCHANGED <<agent, sequence>>
     /\ identity' = [id |-> sequence, state |-> "active", epoch |-> 1,
                     subject |-> 0, root |-> sequence]
  \/ /\ Begin("suspend") /\ UNCHANGED identity
     /\ agent' = [agent EXCEPT !.state = "suspended"]
  \/ /\ End("suspend") /\ UNCHANGED identity
     /\ agent' = [agent EXCEPT !.epoch = @ + 1]
  \/ /\ Begin("revoke") /\ UNCHANGED identity
     /\ agent' = [agent EXCEPT !.state = "retired", !.epoch = @ + 1]
  \/ /\ End("revoke") /\ UNCHANGED agent
     /\ identity' = [identity EXCEPT !.state = "revoked", !.epoch = @ + 1]
  \/ /\ Begin("suspendIdentity") /\ UNCHANGED agent
     /\ identity' = [identity EXCEPT !.state = "suspended"]
  \/ /\ End("suspendIdentity") /\ UNCHANGED agent
     /\ identity' = [identity EXCEPT !.epoch = @ + 1]

LEMMA RunnerEffect == Runner => MutatorEffect
  BY DEF Runner, SeedAgentBegin, SeedAgentEnd, SetIdentityAttributes,
     AddWorkload, SuspendAgentBegin, SuspendAgentEnd, RevokeAgentBegin,
     RevokeAgentEnd, SuspendIdentityBegin, SuspendIdentityEnd,
     TerminateInstance, LeaseInstance, MutatorEffect, Atomically, identityVars

-----------------------------------------------------------------------------
(* The mutex excludes: a mutator and a context handler are never inside    *)
(* their critical sections at once, nor are two handlers.                  *)
LEMMA MutexStep ==
  ASSUME TypeOK, MutexInv, [Next]_vars
  PROVE  MutexInv'
<1>0. \A h \in Handlers : h \notin {"free", "runner"}
  BY ThreadsAssumption
<1>1. pc \in [Handlers -> {"idle", "serving", "context", "sending"}]
      /\ held \in [Handlers -> Agent]
  BY DEF TypeOK, ThreadTypeOK
<1>2. CASE Runner
  <2>1. UNCHANGED <<pc, held>>
    BY <1>2, RunnerSendsNothing
  <2>2. /\ mu' = "runner" <=> rpc' # "idle"
        /\ \A h \in Handlers : mu = h <=> mu' = h
        /\ (\E h \in Handlers : mu = h) => UNCHANGED agent
    BY <1>0, <1>2, RunnerEffect DEF MutatorEffect, Begin, End, MutexInv
  <2> QED
    BY <2>1, <2>2 DEF MutexInv
<1>3. ASSUME NEW h \in Handlers, ContextBegin(h)
      PROVE  MutexInv'
  BY <1>0, <1>1, <1>3 DEF ContextBegin, Serving, MutexInv, identityVars
<1>4. ASSUME NEW h \in Handlers, ContextEnd(h)
      PROVE  MutexInv'
  BY <1>0, <1>1, <1>4 DEF ContextEnd, Answer, MutexInv, identityVars
<1>5. ASSUME NEW h \in Handlers, NEW reply, Answer(h, reply),
             pc[h] = "serving", UNCHANGED <<mu, rpc, agent>>
      PROVE  MutexInv'
  BY <1>0, <1>1, <1>5 DEF Answer, MutexInv
<1>6. ASSUME NEW h \in Handlers,
             \/ ListNamespaces(h) \/ ListAgents(h) \/ ListIdentities(h)
             \/ ListWorkloads(h) \/ ListInstances(h)
             \/ ContextUnknownAgent(h) \/ CommitInstance(h) \/ CommitRefused(h)
      PROVE  MutexInv'
  <2>1. \E reply : Answer(h, reply)
    BY <1>6 DEF ListNamespaces, ListAgents, ListIdentities, ListWorkloads,
       ListInstances, ContextUnknownAgent, CommitInstance, CommitRefused
  <2>2. pc[h] = "serving" /\ UNCHANGED <<mu, rpc, agent>>
    BY <1>6 DEF ListNamespaces, ListAgents, ListIdentities, ListWorkloads,
       ListInstances, ContextUnknownAgent, CommitInstance, CommitRefused,
       Serving, identityVars
  <2> QED
    BY <1>5, <2>1, <2>2
<1>7. ASSUME NEW h \in Handlers,
             Deliver(h) \/ \E r \in PossibleRequests : Send(h, r)
      PROVE  MutexInv'
  BY <1>0, <1>1, <1>7 DEF Deliver, Send, MutexInv, identityVars
<1>8. CASE UNCHANGED vars
  BY <1>8 DEF vars, identityVars, handlerVars, MutexInv
<1> QED
  BY <1>2, <1>3, <1>4, <1>6, <1>7, <1>8 DEF Next, ServeHTTP

(* The counter, the Agent and the Identity seen by arithmetic.             *)
LEMMA ViewTypes ==
  ASSUME TypeOK
  PROVE  /\ sequence \in Nat
         /\ agent.ref \in Nat /\ agent.epoch \in Nat
         /\ identity.id \in Nat /\ identity.epoch \in Nat
         /\ DOMAIN agent = {"ref", "state", "epoch"}
         /\ DOMAIN identity = {"id", "state", "epoch", "subject", "root"}
  BY DEF TypeOK, IdentityTypeOK, Agent, Identity

(* Each mutator leaves an Agent and an Identity that belong together.      *)
LEMMA WholeStep ==
  ASSUME TypeOK, MutexInv, WholeInv, ReplyInv, [Next]_vars
  PROVE  WholeInv'
<1>0. /\ agent \in Agent /\ identity \in Identity /\ sequence \in Nat
      /\ sequence' \in {sequence, sequence + 1}
  BY SequenceStep DEF TypeOK, IdentityTypeOK
<1>1. CASE UNCHANGED <<rpc, agent, identity>> /\ (sequence' = sequence \/ rpc # "seed")
  BY <1>0, <1>1, ViewTypes DEF WholeInv
<1>2. CASE Runner
  <2> USE <1>0, ViewTypes DEF WholeInv, Begin, End, Agent, Identity
  <2>1. CASE /\ rpc = "idle" /\ UNCHANGED <<rpc, agent>>
             /\ identity' = [identity EXCEPT !.subject = identity.id]
    BY <2>1
  <2>2. CASE /\ Begin("seed") /\ UNCHANGED identity
             /\ sequence' = sequence + 1
             /\ agent' = [ref |-> sequence + 1, state |-> "active", epoch |-> 1]
    BY <2>2
  <2>3. CASE /\ End("seed") /\ UNCHANGED <<agent, sequence>>
             /\ identity' = [id |-> sequence, state |-> "active", epoch |-> 1,
                             subject |-> 0, root |-> sequence]
    BY <2>3
  <2>4. CASE /\ Begin("suspend") /\ UNCHANGED identity
             /\ agent' = [agent EXCEPT !.state = "suspended"]
    BY <2>4
  <2>5. CASE /\ End("suspend") /\ UNCHANGED identity
             /\ agent' = [agent EXCEPT !.epoch = @ + 1]
    BY <2>5
  <2>6. CASE /\ Begin("revoke") /\ UNCHANGED identity
             /\ agent' = [agent EXCEPT !.state = "retired", !.epoch = @ + 1]
    BY <2>6
  <2>7. CASE /\ End("revoke") /\ UNCHANGED agent
             /\ identity' = [identity EXCEPT !.state = "revoked", !.epoch = @ + 1]
    BY <2>7
  <2>8. CASE /\ Begin("suspendIdentity") /\ UNCHANGED agent
             /\ identity' = [identity EXCEPT !.state = "suspended"]
    BY <2>8
  <2>9. CASE /\ End("suspendIdentity") /\ UNCHANGED agent
             /\ identity' = [identity EXCEPT !.epoch = @ + 1]
    BY <2>9
  <2>10. CASE UNCHANGED <<mu, rpc, agent, identity>>
    <3>1. rpc = "seed" => sequence' = sequence
      BY <1>2, <2>10 DEF Runner, SeedAgentBegin, SeedAgentEnd,
         SetIdentityAttributes, AddWorkload, SuspendAgentBegin,
         SuspendAgentEnd, RevokeAgentBegin, RevokeAgentEnd,
         SuspendIdentityBegin, SuspendIdentityEnd, TerminateInstance,
         LeaseInstance, Atomically
    <3> QED
      BY <1>1, <2>10, <3>1
  <2> QED
    BY <1>2, <2>1, <2>2, <2>3, <2>4, <2>5, <2>6, <2>7, <2>8, <2>9, <2>10,
       RunnerEffect DEF MutatorEffect
<1>3. ASSUME NEW h \in Handlers,
             ServeHTTP(h) \/ \E r \in PossibleRequests : Send(h, r)
      PROVE  WholeInv'
  <2>1. UNCHANGED <<agent, identity, rpc>>
    BY <1>3, HandlersReadCurrent DEF ReadsCurrent
  <2>2. rpc = "seed" => sequence' = sequence
    BY <1>3 DEF ServeHTTP, Send, ListNamespaces, ListAgents, ListIdentities,
       ListWorkloads, ListInstances, ContextBegin, ContextUnknownAgent,
       ContextEnd, CommitInstance, CommitRefused, Deliver, MutexInv
  <2> QED
    BY <1>1, <2>1, <2>2
<1>4. CASE UNCHANGED vars
  BY <1>1, <1>4 DEF vars, identityVars
<1> QED
  BY <1>2, <1>3, <1>4 DEF Next

(* What was shown are Agents and Identities.                               *)
LEMMA InTyped ==
  ASSUME NEW rs \in SUBSET Reply
  PROVE  AgentsIn(rs) \subseteq Agent /\ IdentitiesIn(rs) \subseteq Identity
  BY DEF Reply, AgentsIn, IdentitiesIn

LEMMA ShownTyped ==
  ASSUME TypeOK
  PROVE  /\ Decided \subseteq Reply
         /\ AgentsShown \subseteq Agent /\ IdentitiesShown \subseteq Identity
<1>1. Decided \subseteq Reply
  BY DEF TypeOK, ThreadTypeOK, Decided
<1> QED
  BY <1>1, InTyped DEF AgentsShown, IdentitiesShown

(* No mutator makes what was sent before look newer than what is current,  *)
(* and a handler sends what is current.                                    *)
LEMMA SentStep ==
  ASSUME TypeOK, MutexInv, WholeInv, SentInv, ReplyInv, [Next]_vars
  PROVE  SentInv'
<1>0. /\ \A a \in AgentsShown : a.ref \in Nat /\ a.epoch \in Nat
      /\ \A v \in IdentitiesShown : v.id \in Nat /\ v.epoch \in Nat
  BY ShownTyped DEF Agent, Identity
<1>1. ASSUME ReadsCurrent
      PROVE  SentInv'
  BY <1>0, <1>1, ViewTypes DEF ReadsCurrent, SentInv
<1>2. CASE Runner
  <2>0. AgentsShown' = AgentsShown /\ IdentitiesShown' = IdentitiesShown
    BY <1>2, RunnerSendsNothing
  <2> USE <1>0, <2>0, ViewTypes DEF WholeInv, SentInv, Begin, End
  <2>1. CASE /\ rpc = "idle" /\ UNCHANGED <<rpc, agent>>
             /\ identity' = [identity EXCEPT !.subject = identity.id]
    BY <2>1
  <2>2. CASE /\ Begin("seed") /\ UNCHANGED identity
             /\ sequence' = sequence + 1
             /\ agent' = [ref |-> sequence + 1, state |-> "active", epoch |-> 1]
    BY <2>2
  <2>3. CASE /\ End("seed") /\ UNCHANGED <<agent, sequence>>
             /\ identity' = [id |-> sequence, state |-> "active", epoch |-> 1,
                             subject |-> 0, root |-> sequence]
    BY <2>3
  <2>4. CASE /\ Begin("suspend") /\ UNCHANGED identity
             /\ agent' = [agent EXCEPT !.state = "suspended"]
    BY <2>4
  <2>5. CASE /\ End("suspend") /\ UNCHANGED identity
             /\ agent' = [agent EXCEPT !.epoch = @ + 1]
    BY <2>5
  <2>6. CASE /\ Begin("revoke") /\ UNCHANGED identity
             /\ agent' = [agent EXCEPT !.state = "retired", !.epoch = @ + 1]
    BY <2>6
  <2>7. CASE /\ End("revoke") /\ UNCHANGED agent
             /\ identity' = [identity EXCEPT !.state = "revoked", !.epoch = @ + 1]
    BY <2>7
  <2>8. CASE /\ Begin("suspendIdentity") /\ UNCHANGED agent
             /\ identity' = [identity EXCEPT !.state = "suspended"]
    BY <2>8
  <2>9. CASE /\ End("suspendIdentity") /\ UNCHANGED agent
             /\ identity' = [identity EXCEPT !.epoch = @ + 1]
    BY <2>9
  <2>10. CASE UNCHANGED <<mu, rpc, agent, identity>>
    BY <2>10
  <2> QED
    BY <1>2, <2>1, <2>2, <2>3, <2>4, <2>5, <2>6, <2>7, <2>8, <2>9, <2>10,
       RunnerEffect DEF MutatorEffect
<1>3. CASE UNCHANGED vars
  BY <1>1, <1>3, DecidedKept
     DEF vars, identityVars, handlerVars, ReadsCurrent, AgentsShown,
         IdentitiesShown, Contexts
<1> QED
  BY <1>1, <1>2, <1>3, HandlersReadCurrent DEF Next

(* What one step does to one handler's reply and to what it knew.          *)
LEMMA ReplyMoves ==
  ASSUME TypeOK, MutexInv, ReplyInv, [Next]_vars, NEW h \in Handlers
  PROVE  /\ replies \subseteq replies'
         /\ \/ UNCHANGED <<ready[h], known[h]>> /\ pc[h] = pc'[h]
            \/ UNCHANGED <<ready[h], known[h]>> /\ pc[h] # "sending"
            \/ UNCHANGED ready[h] /\ pc[h] # "sending" /\ known'[h] = replies
            \/ ready'[h] = {} /\ known'[h] = {}
            \/ /\ pc'[h] = "sending" /\ UNCHANGED known[h]
               /\ \E reply : ready'[h] = {reply} /\ Current(reply)
<1> DEFINE Moves ==
             /\ replies \subseteq replies'
             /\ \/ UNCHANGED <<ready[h], known[h]>> /\ pc[h] = pc'[h]
                \/ UNCHANGED <<ready[h], known[h]>> /\ pc[h] # "sending"
                \/ UNCHANGED ready[h] /\ pc[h] # "sending" /\ known'[h] = replies
                \/ ready'[h] = {} /\ known'[h] = {}
                \/ /\ pc'[h] = "sending" /\ UNCHANGED known[h]
                   /\ \E reply : ready'[h] = {reply} /\ Current(reply)
<1>0. DOMAIN pc = Handlers /\ DOMAIN ready = Handlers /\ DOMAIN known = Handlers
  BY DEF TypeOK, ThreadTypeOK
<1>1. CASE UNCHANGED <<pc, ready, known, replies>>
  BY <1>1
<1>2. ASSUME NEW g \in Handlers, NEW r \in PossibleRequests, Send(g, r)
      PROVE  Moves
  BY <1>0, <1>2 DEF Send
<1>3. ASSUME NEW g \in Handlers, ContextBegin(g)
      PROVE  Moves
  BY <1>0, <1>3 DEF ContextBegin, Serving
<1>4. ASSUME NEW g \in Handlers, Deliver(g)
      PROVE  Moves
  BY <1>0, <1>4 DEF Deliver
<1>5. ASSUME NEW g \in Handlers, ServeHTTP(g), ~ ContextBegin(g), ~ Deliver(g)
      PROVE  Moves
  <2>1. PICK reply : Answer(g, reply) /\ Current(reply)
    BY <1>5, HandlersAnswerCurrent
  <2> QED
    BY <1>0, <2>1 DEF Answer
<1> QED
  BY <1>1, <1>2, <1>3, <1>4, <1>5, RunnerSendsNothing DEF Next, vars, handlerVars

LEMMA ReplyStep ==
  ASSUME TypeOK, MutexInv, ReplyInv, [Next]_vars
  PROVE  ReplyInv'
<1> SUFFICES ASSUME NEW h \in Handlers
             PROVE  /\ pc'[h] # "sending" => ready'[h] = {}
                    /\ known'[h] \subseteq replies'
  BY DEF ReplyInv
<1>1. /\ pc[h] # "sending" => ready[h] = {}
      /\ known[h] \subseteq replies
  BY DEF ReplyInv
<1> QED
  BY <1>1, ReplyMoves

(* A reply shows what is current when it is made, and nothing sent before  *)
(* is newer; so it stays fresh for its reader however late it is sent.     *)
LEMMA FreshStep ==
  ASSUME TypeOK, MutexInv, SentInv, ReplyInv, NoStaleAnswer, [Next]_vars
  PROVE  NoStaleAnswer'
<1> DEFINE Fresh(rs, ks) ==
             /\ \A new \in AgentsIn(rs), old \in AgentsIn(ks) :
                  NotOlder(new, old, "ref")
             /\ \A new \in IdentitiesIn(rs), old \in IdentitiesIn(ks) :
                  NotOlder(new, old, "id")
<1> SUFFICES ASSUME NEW h \in Handlers
             PROVE  Fresh(ready'[h], known'[h])
  BY DEF NoStaleAnswer, AgentsIn, IdentitiesIn, NotOlder
<1>1. Fresh(ready[h], known[h])
  BY DEF NoStaleAnswer
<1>2. \A ks : Fresh({}, ks)
  BY DEF AgentsIn, IdentitiesIn
<1>3. ASSUME NEW reply, Current(reply)
      PROVE  Fresh({reply}, known[h])
  <2>1. known[h] \subseteq Decided
    BY DEF ReplyInv, Decided
  <2>2. AgentsIn(known[h]) \subseteq AgentsShown
        /\ IdentitiesIn(known[h]) \subseteq IdentitiesShown
    BY <2>1 DEF AgentsShown, IdentitiesShown, AgentsIn, IdentitiesIn
  <2>3. ASSUME NEW new \in AgentsIn({reply}), NEW old \in AgentsIn(known[h])
        PROVE  NotOlder(new, old, "ref")
    <3>1. new = agent /\ rpc = "idle"
      BY <1>3 DEF AgentsIn, Current
    <3>2. old \in AgentsShown /\ old \in Agent
      BY <2>2, ShownTyped
    <3> QED
      BY <3>1, <3>2, ViewTypes DEF SentInv, NotOlder, Agent
  <2>4. ASSUME NEW new \in IdentitiesIn({reply}),
               NEW old \in IdentitiesIn(known[h])
        PROVE  NotOlder(new, old, "id")
    <3>1. new = identity /\ rpc = "idle"
      BY <1>3 DEF IdentitiesIn, Current
    <3>2. old \in IdentitiesShown /\ old \in Identity
      BY <2>2, ShownTyped
    <3> QED
      BY <3>1, <3>2, ViewTypes DEF SentInv, NotOlder, Identity
  <2> QED
    BY <2>3, <2>4
<1> HIDE DEF Fresh
<1>4. pc[h] # "sending" => ready[h] = {}
  BY DEF ReplyInv
<1> QED
  BY <1>1, <1>2, <1>3, <1>4, ReplyMoves

-----------------------------------------------------------------------------
LEMMA InitShowsNothing ==
  Init => /\ AgentsShown = {} /\ IdentitiesShown = {} /\ Contexts = {}
<1>1. Init => Decided = {}
  BY DEF Init, Decided
<1> QED
  BY <1>1 DEF AgentsShown, IdentitiesShown, AgentsIn, IdentitiesIn, Contexts

(* The inductive invariant holds: the mutex excludes, the Agent and the    *)
(* Identity belong together outside it, nothing shown is ahead of them,    *)
(* and no answer is staler than what was known when it was asked for.      *)
THEOREM ViewsCorrect == Spec => []ViewsInv
<1>1. Init => ViewsInv
  <2>1. Init => MutexInv
    BY ThreadsAssumption DEF Init, MutexInv
  <2>2. Init => WholeInv
    <3>1. /\ NoAgent.ref = 0 /\ NoAgent.state = ""
          /\ NoIdentity.id = 0 /\ NoIdentity.root = 0 /\ NoIdentity.subject = 0
      BY DEF NoAgent, NoIdentity
    <3>2. 0 <= 0
      OBVIOUS
    <3>3. Init => /\ rpc = "idle" /\ agent.ref <= sequence
                  /\ agent.ref = 0 /\ agent.state = ""
                  /\ identity.id = 0 /\ identity.root = 0 /\ identity.subject = 0
      BY <3>1, <3>2, Zenon DEF Init
    <3> QED
      BY <3>3 DEF WholeInv
  <2>3. Init => SentInv
    BY InitShowsNothing DEF SentInv
  <2>4. Init => ReplyInv
    BY DEF Init, ReplyInv
  <2>5. Init => NoStaleAnswer
    BY DEF Init, NoStaleAnswer, AgentsIn, IdentitiesIn
  <2> QED
    BY <2>1, <2>2, <2>3, <2>4, <2>5 DEF ViewsInv
<1>2. TypeOK /\ ViewsInv /\ [Next]_vars => ViewsInv'
  BY MutexStep, WholeStep, SentStep, ReplyStep, FreshStep DEF ViewsInv
<1> QED
  BY <1>1, <1>2, TypeCorrect, PTL DEF Spec

(* What a step adds to the replies, seen from any of them.                 *)
LEMMA StepReadsCurrent ==
  ASSUME TypeOK, MutexInv, ReplyInv, [Next]_vars
  PROVE  \/ ReadsCurrent
         \/ /\ AgentsShown' = AgentsShown
            /\ IdentitiesShown' = IdentitiesShown
            /\ Contexts' = Contexts
<1>1. CASE UNCHANGED vars
  BY <1>1, DecidedKept DEF vars, handlerVars, AgentsShown, IdentitiesShown, Contexts
<1> QED
  BY <1>1, HandlersReadCurrent, RunnerSendsNothing DEF Next

(* Two replies that name the same Agent, or Identity, at the same epoch    *)
(* agree on its state: both were sent between mutators, and a state does   *)
(* not change without its epoch.                                           *)
THEOREM EpochsDetermineStates == Spec => []EpochDeterminesState
<1>1. Init => EpochDeterminesState
  BY InitShowsNothing DEF EpochDeterminesState
<1>2. ASSUME TypeOK, ViewsInv, EpochDeterminesState, [Next]_vars
      PROVE  EpochDeterminesState'
  <2>1. CASE ReadsCurrent
    BY <1>2, <2>1 DEF ReadsCurrent, ViewsInv, SentInv, EpochDeterminesState
  <2>2. CASE AgentsShown' = AgentsShown /\ IdentitiesShown' = IdentitiesShown
    BY <1>2, <2>2 DEF EpochDeterminesState
  <2> QED
    BY <1>2, <2>1, <2>2, StepReadsCurrent DEF ViewsInv
<1> QED
  BY <1>1, <1>2, TypeCorrect, ViewsCorrect, PTL DEF Spec

(* Every Registry Context (registry.go:276-318) shows an Agent, an         *)
(* Identity, a root and a subject of one seeding, and never a retired      *)
(* Agent with an active Identity: a mutator is seen as a whole or not at   *)
(* all.                                                                    *)
THEOREM ContextsOfOneView == Spec => []ContextOfOneView
<1>1. Init => ContextOfOneView
  BY InitShowsNothing DEF ContextOfOneView
<1>2. ASSUME TypeOK, ViewsInv, ContextOfOneView, [Next]_vars
      PROVE  ContextOfOneView'
  <2>1. CASE ReadsCurrent
    BY <1>2, <2>1 DEF ReadsCurrent, ViewsInv, WholeInv, ContextOfOneView
  <2>2. CASE Contexts' = Contexts
    BY <1>2, <2>2 DEF ContextOfOneView
  <2> QED
    BY <1>2, <2>1, <2>2, StepReadsCurrent DEF ViewsInv
<1> QED
  BY <1>1, <1>2, TypeCorrect, ViewsCorrect, PTL DEF Spec

(* No answer is older than what had been sent when it was asked for, or    *)
(* shows as active what had been shown stopped: the lists are sent after   *)
(* the mutex is free (registry.go:228-229), but what they say was read     *)
(* after the request came.                                                 *)
THEOREM AnswersAreFresh == Spec => []NoStaleAnswer
<1>1. ViewsInv => NoStaleAnswer
  BY DEF ViewsInv
<1> QED
  BY <1>1, ViewsCorrect, PTL

=============================================================================

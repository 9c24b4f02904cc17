------------------------ MODULE AtomicRegistryProofs ------------------------
(***************************************************************************)
(* FakeRegistry implements AtomicRegistry, for any number of handlers and  *)
(* any bounds, and what follows for its instances.                         *)
(*                                                                         *)
(* FakeRegistryProofs is about the Agent and the Identity; here are the    *)
(* maps.  Three facts about them carry the rest: the orders list the maps  *)
(* (OrderInv), an instance is stored under its own id with a registration  *)
(* that exists (StoredInv), and what was shown of an instance is not ahead *)
(* of it (ShownInv).                                                       *)
(***************************************************************************)
EXTENDS FakeRegistryProofs

(* The order slices list the maps, each entry once.                        *)
OrderInv ==
  /\ IsInjective(workloadOrder)
  /\ Range(workloadOrder) = workloads
  /\ Range(instanceOrder) = DOMAIN instances

StoredInv ==
  \A i \in DOMAIN instances :
    /\ instances[i].id = i
    /\ instances[i].registrationID \in workloads
    /\ instances[i].state # ""

(* While a context is read the agent asked for is the current one.         *)
ServedInv ==
  \A h \in Handlers : pc[h] = "context" => req[h].agentID = identity.id

(* What was shown of an instance is an earlier generation of it, or the    *)
(* current one but for the lease.                                          *)
Unleased(v) == [v EXCEPT !.lease = 0]

ShownInv ==
  \A v \in InstancesShown \ {NoInstance} :
    /\ v.id \in DOMAIN instances
    /\ v.generation <= instances[v.id].generation
    /\ v.generation = instances[v.id].generation =>
         Unleased(v) = Unleased(instances[v.id])

-----------------------------------------------------------------------------
(* What one step does to the maps.                                         *)

(* An instance terminated, leased anew or left alone.                      *)
Terminated(v) == [v EXCEPT !.state = "terminated", !.generation = @ + 1]

Aged(v, w) ==
  \/ w = v
  \/ w = Terminated(v)
  \/ v.state # "terminated" /\ \E t \in Leases : w = [v EXCEPT !.lease = t]

LEMMA TerminateEffect ==
  ASSUME TypeOK, NEW i \in DOMAIN instances, TerminateInstance(i)
  PROVE  instances' = [instances EXCEPT ![i] = Terminated(instances[i])]
<1>1. instances[i] \in Instance
  BY DEF TypeOK, StoreTypeOK
<1> QED
  BY <1>1 DEF TerminateInstance, Terminated, Instance

LEMMA LeaseEffect ==
  ASSUME TypeOK, NEW i \in DOMAIN instances, NEW t \in Leases, LeaseInstance(i, t)
  PROVE  /\ instances' = [instances EXCEPT ![i] = [instances[i] EXCEPT !.lease = t]]
         /\ instances[i].state # "terminated"
  BY DEF LeaseInstance

(* The instance a commit makes.                                            *)
Made(h) ==
  [id |-> sequence + 1, agentID |-> req[h].agentID,
   registrationID |-> req[h].registrationID,
   attestationRef |-> req[h].attestationRef,
   lease |-> req[h].lease, state |-> "active", generation |-> 1]

LEMMA CommitEffect ==
  ASSUME TypeOK, NEW h \in Handlers, CommitInstance(h)
  PROVE  /\ Made(h) \in Instance
         /\ Made(h).registrationID \in workloads
         /\ Made(h).agentID = identity.id
         /\ sequence' = sequence + 1
         /\ instances' = [i \in DOMAIN instances \cup {sequence + 1} |->
                            IF i = sequence + 1 THEN Made(h) ELSE instances[i]]
         /\ instanceOrder' = Append(instanceOrder, sequence + 1)
         /\ sequence + 1 \notin DOMAIN instances
<1>1. Made(h) \in Instance
  BY DEF TypeOK, IdentityTypeOK, ThreadTypeOK, Made, Instance, InstanceState,
         Request
<1>2. sequence + 1 \notin DOMAIN instances
  BY DEF TypeOK, IdentityTypeOK, StoreTypeOK
<1>3. Made(h).id = sequence + 1
  BY DEF Made
<1> QED
  BY <1>1, <1>2, <1>3 DEF CommitInstance, Made

(* The steps that leave the maps alone.                                    *)
LEMMA StoreKept ==
  ASSUME [Next]_vars,
         ~ AddWorkload,
         \A i \in DOMAIN instances : ~ TerminateInstance(i)
                                    /\ \A t \in Leases : ~ LeaseInstance(i, t),
         \A h \in Handlers : ~ CommitInstance(h)
  PROVE  UNCHANGED storeVars
  BY DEF Next, Runner, ServeHTTP, vars, SeedAgentBegin, SeedAgentEnd,
     SetIdentityAttributes, SuspendAgentBegin, SuspendAgentEnd,
     RevokeAgentBegin, RevokeAgentEnd, SuspendIdentityBegin,
     SuspendIdentityEnd, Send, ListNamespaces, ListAgents, ListIdentities,
     ListWorkloads, ListInstances, ContextBegin, ContextUnknownAgent,
     ContextEnd, CommitRefused, Deliver

LEMMA InstancesStep ==
  ASSUME TypeOK, [Next]_vars
  PROVE  /\ \A i \in DOMAIN instances :
              i \in DOMAIN instances' /\ Aged(instances[i], instances'[i])
         /\ \/ DOMAIN instances' = DOMAIN instances
            \/ \E h \in Handlers : CommitInstance(h)
<1> DEFINE Age == \A i \in DOMAIN instances :
                    i \in DOMAIN instances' /\ Aged(instances[i], instances'[i])
<1>1. ASSUME NEW i \in DOMAIN instances, TerminateInstance(i)
      PROVE  Age /\ DOMAIN instances' = DOMAIN instances
  BY <1>1, TerminateEffect DEF Aged
<1>2. ASSUME NEW i \in DOMAIN instances, NEW t \in Leases, LeaseInstance(i, t)
      PROVE  Age /\ DOMAIN instances' = DOMAIN instances
  BY <1>2, LeaseEffect DEF Aged
<1>3. ASSUME NEW h \in Handlers, CommitInstance(h)
      PROVE  Age
  BY <1>3, CommitEffect DEF Aged
<1>4. ASSUME UNCHANGED instances
      PROVE  Age /\ DOMAIN instances' = DOMAIN instances
  BY <1>4 DEF Aged
<1>5. CASE AddWorkload
  BY <1>4, <1>5 DEF AddWorkload
<1> QED
  BY <1>1, <1>2, <1>3, <1>4, <1>5, StoreKept DEF storeVars

(* What age leaves of an instance.                                         *)
Bare(v) == [v EXCEPT !.generation = 0, !.state = "", !.lease = 0]

LEMMA TerminatedFields ==
  ASSUME NEW v \in Instance
  PROVE  /\ Terminated(v) \in Instance
         /\ Terminated(v).id = v.id /\ Terminated(v).agentID = v.agentID
         /\ Terminated(v).registrationID = v.registrationID
         /\ Terminated(v).lease = v.lease
         /\ Terminated(v).state = "terminated"
         /\ Terminated(v).generation = v.generation + 1
         /\ Bare(Terminated(v)) = Bare(v)
<1>1. Terminated(v) \in Instance
  BY InstanceUpdates, Successor DEF Terminated
<1>2. /\ Terminated(v).id = v.id /\ Terminated(v).agentID = v.agentID
      /\ Terminated(v).registrationID = v.registrationID
      /\ Terminated(v).lease = v.lease
      /\ Terminated(v).state = "terminated"
      /\ Terminated(v).generation = v.generation + 1
  BY DEF Terminated, Instance
<1>3. Bare(Terminated(v)) = Bare(v)
  BY DEF Terminated, Bare, Instance
<1> QED
  BY <1>1, <1>2, <1>3, Zenon

LEMMA LeasedFields ==
  ASSUME NEW v \in Instance, NEW t \in Leases, NEW w, w = [v EXCEPT !.lease = t]
  PROVE  /\ w \in Instance
         /\ w.id = v.id /\ w.agentID = v.agentID
         /\ w.registrationID = v.registrationID
         /\ w.state = v.state /\ w.generation = v.generation
         /\ Unleased(w) = Unleased(v)
         /\ Bare(w) = Bare(v)
<1>1. w \in Instance
  BY InstanceUpdates, DataAssumption
<1>2. /\ w.id = v.id /\ w.agentID = v.agentID
      /\ w.registrationID = v.registrationID
      /\ w.state = v.state /\ w.generation = v.generation
  BY DEF Instance
<1>3. Unleased(w) = Unleased(v)
  BY DEF Unleased, Instance
<1>4. Bare(w) = Bare(v)
  BY DEF Bare, Instance
<1> QED
  BY <1>1, <1>2, <1>3, <1>4, Zenon

LEMMA AgedFields ==
  ASSUME NEW v \in Instance, NEW w, Aged(v, w)
  PROVE  /\ w \in Instance
         /\ w.id = v.id /\ w.agentID = v.agentID
         /\ w.registrationID = v.registrationID
         /\ w.generation \in Nat /\ v.generation \in Nat
         /\ w.generation >= v.generation
         /\ v.state # "" => w.state # ""
         /\ w.generation = v.generation => Unleased(w) = Unleased(v)
         /\ v.state = "terminated" => w.state = "terminated" /\ w.lease = v.lease
         /\ Bare(w) = Bare(v)
<1>1. v.generation \in Nat
  BY InstanceUpdates
<1>2. \A n \in Nat : n >= n /\ n + 1 >= n /\ n + 1 # n /\ n + 1 \in Nat
  OBVIOUS
<1> DEFINE Fields ==
             /\ w \in Instance
             /\ w.id = v.id /\ w.agentID = v.agentID
             /\ w.registrationID = v.registrationID
             /\ w.generation \in Nat /\ v.generation \in Nat
             /\ w.generation >= v.generation
             /\ v.state # "" => w.state # ""
             /\ w.generation = v.generation => Unleased(w) = Unleased(v)
             /\ v.state = "terminated" => w.state = "terminated" /\ w.lease = v.lease
             /\ Bare(w) = Bare(v)
<1>3. ASSUME w = v PROVE Fields
  BY <1>1, <1>2, <1>3, Zenon
<1>4. ASSUME w = Terminated(v) PROVE Fields
  BY <1>1, <1>2, <1>4, TerminatedFields, Zenon
<1>5. ASSUME NEW t \in Leases, v.state # "terminated", w = [v EXCEPT !.lease = t]
      PROVE  Fields
  <2>1. /\ w \in Instance
        /\ w.id = v.id /\ w.agentID = v.agentID
        /\ w.registrationID = v.registrationID
        /\ w.state = v.state /\ w.generation = v.generation
        /\ Unleased(w) = Unleased(v)
        /\ Bare(w) = Bare(v)
    BY <1>5, LeasedFields
  <2>2. w.generation \in Nat /\ v.generation \in Nat /\ w.generation >= v.generation
    BY <1>1, <1>2, <2>1, Zenon
  <2>3. v.state # "" => w.state # ""
    BY <2>1, Zenon
  <2>4. w.generation = v.generation => Unleased(w) = Unleased(v)
    BY <2>1, Zenon
  <2>5. v.state = "terminated" => w.state = "terminated" /\ w.lease = v.lease
    BY <1>5, Zenon
  <2> QED
    BY <2>1, <2>2, <2>3, <2>4, <2>5, Zenon
<1>6. Aged(v, w) => Fields
  <2> HIDE DEF Fields
  <2> QED
    BY <1>3, <1>4, <1>5, Zenon DEF Aged
<1> QED
  BY <1>6

(* No step of the registry brings an instance back, takes its lease after  *)
(* the end or gives it to another agent or registration: LeaseInstance and *)
(* TerminateInstance are all that change a stored one.                     *)
THEOREM InstancesAge == Spec => InstancesOnlyAge
<1>1. ASSUME TypeOK, [Next]_vars, NEW i \in DOMAIN instances
      PROVE  /\ i \in DOMAIN instances'
             /\ instances'[i].generation >= instances[i].generation
             /\ Bare(instances'[i]) = Bare(instances[i])
             /\ instances[i].state = "terminated" =>
                  /\ instances'[i].state = "terminated"
                  /\ instances'[i].lease = instances[i].lease
  <2>1. instances[i] \in Instance
    BY <1>1 DEF TypeOK, StoreTypeOK
  <2>2. i \in DOMAIN instances' /\ Aged(instances[i], instances'[i])
    BY <1>1, InstancesStep
  <2> QED
    BY <2>1, <2>2, AgedFields
<1>2. TypeOK /\ [Next]_vars =>
        [\A i \in DOMAIN instances :
           /\ i \in DOMAIN instances'
           /\ instances'[i].generation >= instances[i].generation
           /\ [instances'[i] EXCEPT !.generation = 0, !.state = "", !.lease = 0]
                = [instances[i] EXCEPT !.generation = 0, !.state = "", !.lease = 0]
           /\ instances[i].state = "terminated" =>
                /\ instances'[i].state = "terminated"
                /\ instances'[i].lease = instances[i].lease]_vars
  BY <1>1, Zenon DEF Bare
<1> QED
  BY <1>2, TypeCorrect, PTL DEF Spec, InstancesOnlyAge

-----------------------------------------------------------------------------
(* The order slices: an id that is new goes to their end.                  *)
LEMMA AppendRange ==
  ASSUME NEW S, NEW s \in Seq(S), NEW x
  PROVE  /\ Range(Append(s, x)) = Range(s) \cup {x}
         /\ IsInjective(s) /\ x \notin Range(s) => IsInjective(Append(s, x))
<1> DEFINE t == Append(s, x)
<1>1. /\ Len(s) \in Nat /\ DOMAIN s = 1 .. Len(s)
      /\ DOMAIN t = 1 .. Len(s) + 1
      /\ \A i \in 1 .. Len(s) : t[i] = s[i]
      /\ t[Len(s) + 1] = x
  OBVIOUS
<1>2. DOMAIN t = DOMAIN s \cup {Len(s) + 1} /\ Len(s) + 1 \notin DOMAIN s
  BY <1>1
<1> HIDE DEF t
<1>3. Range(t) = Range(s) \cup {x}
  BY <1>1, <1>2 DEF Range
<1>4. IsInjective(s) /\ x \notin Range(s) => IsInjective(t)
  BY <1>1, <1>2 DEF Range, IsInjective
<1> QED
  BY <1>3, <1>4 DEF t

LEMMA OrderStep ==
  ASSUME TypeOK, OrderInv, [Next]_vars
  PROVE  OrderInv'
<1>0. /\ workloadOrder \in Seq(workloads) /\ instanceOrder \in Seq(DOMAIN instances)
      /\ sequence + 1 \notin workloads
  BY DEF TypeOK, StoreTypeOK, IdentityTypeOK
<1>1. CASE AddWorkload
  BY <1>0, <1>1, AppendRange DEF AddWorkload, OrderInv
<1>2. ASSUME NEW h \in Handlers, CommitInstance(h)
      PROVE  OrderInv'
  <2>1. /\ instanceOrder' = Append(instanceOrder, sequence + 1)
        /\ DOMAIN instances' = DOMAIN instances \cup {sequence + 1}
    BY <1>2, CommitEffect
  <2>2. UNCHANGED <<workloads, workloadOrder>>
    BY <1>2 DEF CommitInstance
  <2> QED
    BY <1>0, <2>1, <2>2, AppendRange DEF OrderInv
<1>3. ASSUME NEW i \in DOMAIN instances,
             TerminateInstance(i) \/ \E t \in Leases : LeaseInstance(i, t)
      PROVE  OrderInv'
  BY <1>3 DEF TerminateInstance, LeaseInstance, OrderInv
<1>4. CASE UNCHANGED storeVars
  BY <1>4 DEF storeVars, OrderInv
<1> QED
  BY <1>1, <1>2, <1>3, <1>4, StoreKept

(* An instance is stored under its id and keeps its registration.          *)
LEMMA StoredStep ==
  ASSUME TypeOK, StoredInv, [Next]_vars
  PROVE  StoredInv'
<1>1. workloads \subseteq workloads'
  BY DEF Next, Runner, ServeHTTP, vars, storeVars, SeedAgentBegin, SeedAgentEnd,
     SetIdentityAttributes, AddWorkload, SuspendAgentBegin, SuspendAgentEnd,
     RevokeAgentBegin, RevokeAgentEnd, SuspendIdentityBegin,
     SuspendIdentityEnd, TerminateInstance, LeaseInstance, Send,
     ListNamespaces, ListAgents, ListIdentities, ListWorkloads,
     ListInstances, ContextBegin, ContextUnknownAgent, ContextEnd,
     CommitInstance, CommitRefused, Deliver
<1>2. ASSUME NEW i \in DOMAIN instances
      PROVE  /\ instances'[i].id = i
             /\ instances'[i].registrationID \in workloads'
             /\ instances'[i].state # ""
  <2>1. instances[i] \in Instance /\ Aged(instances[i], instances'[i])
    BY InstancesStep DEF TypeOK, StoreTypeOK
  <2> QED
    <3>1. /\ instances'[i].id = instances[i].id
          /\ instances'[i].registrationID = instances[i].registrationID
          /\ instances[i].state # "" => instances'[i].state # ""
      BY <2>1, AgedFields, Zenon
    <3> QED
      BY <1>1, <3>1 DEF StoredInv
<1>3. ASSUME NEW h \in Handlers, CommitInstance(h)
      PROVE  StoredInv'
  <2>1. /\ Made(h).id = sequence + 1 /\ Made(h).state = "active"
        /\ Made(h).registrationID \in workloads
    BY <1>3, CommitEffect DEF Made
  <2>2. instances'[sequence + 1] = Made(h)
    BY <1>3, CommitEffect
  <2>3. DOMAIN instances' = DOMAIN instances \cup {sequence + 1}
    BY <1>3, CommitEffect
  <2> QED
    BY <1>1, <1>2, <2>1, <2>2, <2>3 DEF StoredInv
<1> QED
  BY <1>2, <1>3, InstancesStep DEF StoredInv

-----------------------------------------------------------------------------
(* What one step does to one handler.                                      *)
HandlerMoves(h) ==
  \/ UNCHANGED <<pc[h], req[h]>>
  \/ pc'[h] # "context"
  \/ UNCHANGED <<req[h], identity>> /\ req[h].agentID = identity.id

LEMMA HandlersMove ==
  ASSUME TypeOK, [Next]_vars, NEW h \in Handlers
  PROVE  HandlerMoves(h)
<1>0. DOMAIN pc = Handlers /\ DOMAIN req = Handlers
  BY DEF TypeOK, ThreadTypeOK
<1>1. CASE UNCHANGED <<pc, req>>
  BY <1>1 DEF HandlerMoves
<1>2. ASSUME NEW g \in Handlers, NEW reply, Answer(g, reply)
      PROVE  HandlerMoves(h)
  BY <1>0, <1>2, Zenon DEF Answer, HandlerMoves
<1>3. ASSUME NEW g \in Handlers,
             Deliver(g) \/ \E r \in PossibleRequests : Send(g, r)
      PROVE  HandlerMoves(h)
  BY <1>0, <1>3, Zenon DEF Deliver, Send, HandlerMoves
<1>4. ASSUME NEW g \in Handlers, ContextBegin(g)
      PROVE  HandlerMoves(h)
  BY <1>0, <1>4, Zenon DEF ContextBegin, HandlerMoves, identityVars
<1>5. ASSUME NEW g \in Handlers, ServeHTTP(g), ~ ContextBegin(g), ~ Deliver(g)
      PROVE  \E reply : Answer(g, reply)
  BY <1>5 DEF ServeHTTP, ListNamespaces, ListAgents, ListIdentities,
     ListWorkloads, ListInstances, ContextUnknownAgent, ContextEnd,
     CommitInstance, CommitRefused
<1> QED
  BY <1>1, <1>2, <1>3, <1>4, <1>5, RunnerSendsNothing
     DEF Next, vars, handlerVars

LEMMA ServedStep ==
  ASSUME TypeOK, MutexInv, ReplyInv, ServedInv, [Next]_vars
  PROVE  ServedInv'
<1>1. ASSUME NEW h \in Handlers, pc[h] = "context"
      PROVE  identity' = identity
  <2>1. mu = h /\ mu \notin {"free", "runner"}
    BY <1>1, ThreadsAssumption DEF MutexInv
  <2>2. rpc = "idle"
    BY <2>1 DEF MutexInv
  <2>3. CASE Runner
    BY <2>1, <2>2, <2>3, RunnerEffect DEF MutatorEffect, Begin, End
  <2>4. CASE \E g \in Handlers :
               ServeHTTP(g) \/ \E r \in PossibleRequests : Send(g, r)
    BY <2>4, HandlersReadCurrent DEF ReadsCurrent
  <2>5. CASE UNCHANGED vars
    BY <2>5 DEF vars, identityVars
  <2> QED
    BY <2>3, <2>4, <2>5 DEF Next
<1>2. ASSUME NEW h \in Handlers
      PROVE  pc'[h] = "context" => req'[h].agentID = identity'.id
  BY <1>1, HandlersMove DEF HandlerMoves, ServedInv
<1> QED
  BY <1>2 DEF ServedInv

StoreInv == OrderInv /\ StoredInv /\ ServedInv

(* The three are invariants: the order slices list the maps, each key once *)
(* (AddWorkload and commitInstance append where they insert), an instance  *)
(* has its registration, and from its check of the agent to its reply the  *)
(* context handler serves the current one (registry.go:285-317).           *)
THEOREM StoreCorrect == Spec => []StoreInv
<1>1. Init => StoreInv
  <2>1. Init => OrderInv
    BY DEF Init, OrderInv, IsInjective, Range
  <2>2. Init => StoredInv
    BY DEF Init, StoredInv
  <2>3. Init => ServedInv
    BY DEF Init, ServedInv
  <2> QED
    BY <2>1, <2>2, <2>3 DEF StoreInv
<1>2. TypeOK /\ ViewsInv /\ StoreInv /\ [Next]_vars => StoreInv'
  BY OrderStep, StoredStep, ServedStep DEF StoreInv, ViewsInv
<1> QED
  BY <1>1, <1>2, TypeCorrect, ViewsCorrect, PTL DEF Spec

-----------------------------------------------------------------------------
(* What a reply shows of the instances.                                    *)
LEMMA AnswerShows ==
  ASSUME TypeOK, ReplyInv, NEW h \in Handlers, NEW reply,
         pc[h] # "sending", Answer(h, reply)
  PROVE  /\ reply.kind \notin {"created", "context", "instances"} =>
              InstancesShown' \subseteq InstancesShown
         /\ reply.kind \in {"created", "context"} =>
              InstancesShown' \subseteq InstancesShown \cup {reply.instance}
         /\ reply.kind = "instances" =>
              InstancesShown' \subseteq InstancesShown \cup reply.items
  BY AnswerDecides DEF InstancesShown

LEMMA ShownTypes ==
  ASSUME TypeOK
  PROVE  InstancesShown \subseteq Instance
<1>1. Decided \subseteq Reply
  BY ShownTyped
<1>2. \A r \in Reply : r.kind \in {"created", "context"} => r.instance \in Instance
  BY DEF Reply
<1>3. \A r \in Reply : r.kind = "instances" => r.items \subseteq Instance
  BY DEF Reply
<1> QED
  BY <1>1, <1>2, <1>3 DEF InstancesShown

(* A reply shows an instance as it is when the reply is made.              *)
LEMMA ShowsCurrent ==
  ASSUME TypeOK, MutexInv, ReplyInv, StoredInv, [Next]_vars,
         NEW v \in InstancesShown' \ InstancesShown, v # NoInstance
  PROVE  v.id \in DOMAIN instances' /\ v = instances'[v.id]
<1> DEFINE IsStored == v.id \in DOMAIN instances' /\ v = instances'[v.id]
<1>1. CASE Decided' = Decided
  BY <1>1 DEF InstancesShown
<1>2. ASSUME NEW h \in Handlers, NEW reply, Answer(h, reply),
             pc[h] # "sending",
             reply.kind \notin {"created", "context", "instances"}
      PROVE  IsStored
  BY <1>2, AnswerShows
<1>3. ASSUME NEW h \in Handlers, CommitInstance(h)
      PROVE  IsStored
  <2>1. Answer(h, [kind |-> "created", instance |-> Made(h)]) /\ pc[h] # "sending"
    BY <1>3 DEF CommitInstance, Made, Serving
  <2>2. v = Made(h)
    BY <2>1, AnswerShows
  <2>3. Made(h).id = sequence + 1
    BY DEF Made
  <2> QED
    BY <1>3, <2>2, <2>3, CommitEffect
<1>4. ASSUME NEW h \in Handlers, ListInstances(h)
      PROVE  IsStored
  <2>1. v \in {instances[i] : i \in Range(instanceOrder)} /\ instances' = instances
    BY <1>4, AnswerShows DEF ListInstances, storeVars, Serving
  <2>2. Range(instanceOrder) \subseteq DOMAIN instances
    BY DEF TypeOK, StoreTypeOK, Range
  <2>3. PICK i \in DOMAIN instances : v = instances[i]
    BY <2>1, <2>2
  <2> QED
    BY <2>1, <2>3 DEF StoredInv
<1>5. ASSUME NEW h \in Handlers, ContextEnd(h)
      PROVE  IsStored
  <2>1. Answer(h, ContextReply(h)) /\ instances' = instances /\ pc[h] # "sending"
    BY <1>5 DEF ContextEnd, storeVars
  <2>2. \/ ContextReply(h).kind = "refused"
        \/ /\ ContextReply(h).kind = "context"
           /\ \/ ContextReply(h).instance = NoInstance
              \/ \E i \in DOMAIN instances : ContextReply(h).instance = instances[i]
    BY DEF ContextReply, Refusal
  <2>3. v = ContextReply(h).instance
    <3> HIDE DEF IsStored
    <3> QED
      BY <2>1, <2>2, AnswerShows
  <2>4. PICK i \in DOMAIN instances : v = instances[i]
    <3> HIDE DEF IsStored
    <3>1. ContextReply(h).kind # "refused"
      BY <2>1, AnswerShows
    <3> QED
      BY <2>2, <2>3, <3>1
  <2> QED
    BY <2>1, <2>4 DEF StoredInv
<1>6. ASSUME NEW h \in Handlers,
             \/ ListNamespaces(h) \/ ListAgents(h) \/ ListIdentities(h)
             \/ ListWorkloads(h) \/ ContextUnknownAgent(h) \/ CommitRefused(h)
      PROVE  IsStored
  <2>1. \A why : Refusal(h, why).kind = "refused"
    BY DEF Refusal
  <2> QED
    BY <1>2, <1>6, <2>1 DEF ListNamespaces, ListAgents, ListIdentities,
       ListWorkloads, ContextUnknownAgent, CommitRefused, Serving
<1>7. ASSUME NEW h \in Handlers,
             \/ ContextBegin(h) \/ Deliver(h)
             \/ \E r \in PossibleRequests : Send(h, r)
      PROVE  IsStored
  BY <1>1, <1>7, DecidedKept, DeliverDecides DEF ContextBegin, Send
<1> QED
  BY <1>1, <1>3, <1>4, <1>5, <1>6, <1>7, RunnerSendsNothing, DecidedKept
     DEF Next, ServeHTTP, vars, handlerVars

LEMMA ShownStep ==
  ASSUME TypeOK, TypeOK', MutexInv, ReplyInv, StoredInv, ShownInv, [Next]_vars
  PROVE  ShownInv'
<1> SUFFICES ASSUME NEW v \in InstancesShown' \ {NoInstance}
             PROVE  /\ v.id \in DOMAIN instances'
                    /\ v.generation <= instances'[v.id].generation
                    /\ v.generation = instances'[v.id].generation =>
                         Unleased(v) = Unleased(instances'[v.id])
  BY DEF ShownInv
<1>2. CASE v \in InstancesShown
  <2> DEFINE u == instances[v.id]
             w == instances'[v.id]
  <2>1. /\ v.id \in DOMAIN instances
        /\ v.generation <= u.generation
        /\ v.generation = u.generation => Unleased(v) = Unleased(u)
    BY <1>2 DEF ShownInv
  <2>2. u \in Instance /\ v.id \in DOMAIN instances' /\ Aged(u, w)
    BY <2>1, InstancesStep DEF TypeOK, StoreTypeOK
  <2>5. v.generation \in Nat
    BY <1>2, ShownTypes, InstanceUpdates
  <2> HIDE DEF u, w
  <2>3. /\ u.generation \in Nat /\ w.generation \in Nat
        /\ w.generation >= u.generation
        /\ w.generation = u.generation => Unleased(w) = Unleased(u)
    BY <2>2, AgedFields
  <2>4. /\ v.generation <= w.generation
        /\ v.generation = w.generation => Unleased(v) = Unleased(w)
    BY <2>1, <2>3, <2>5
  <2> QED
    BY <2>2, <2>4 DEF w
<1>3. CASE v \notin InstancesShown
  <2>1. v.id \in DOMAIN instances' /\ v = instances'[v.id]
    BY <1>3, ShowsCurrent
  <2>2. v.generation \in Nat
    BY <2>1, InstanceUpdates DEF TypeOK, StoreTypeOK
  <2> QED
    BY <2>1, <2>2
<1> QED
  BY <1>2, <1>3

(* Two replies that name the same instance at the same generation agree on *)
(* it but for its lease: an id is used once, what is shown is current, and *)
(* only a new generation changes more than the lease.                      *)
THEOREM GenerationsDetermineInstances == Spec => []GenerationDeterminesInstance
<1> DEFINE Inv == ShownInv /\ GenerationDeterminesInstance
<1>1. Init => Inv
  <2>1. Init => Decided = {}
    BY DEF Init, Decided
  <2> QED
    BY <2>1 DEF InstancesShown, ShownInv, GenerationDeterminesInstance
<1>2. ASSUME TypeOK, TypeOK', ViewsInv, StoreInv, Inv, [Next]_vars
      PROVE  Inv'
  <2>1. ShownInv'
    BY <1>2, ShownStep DEF StoreInv, ViewsInv
  <2>2. \A v \in InstancesShown' : v # NoInstance => v.id # NoInstance.id
    <3>1. 0 \notin DOMAIN instances'
      BY <1>2 DEF TypeOK, StoreTypeOK, IdentityTypeOK
    <3>2. NoInstance.id = 0
      BY DEF NoInstance
    <3> QED
      BY <2>1, <3>1, <3>2 DEF ShownInv
  <2>3. ASSUME NEW v \in InstancesShown', NEW w \in InstancesShown',
               v.id = w.id, v.generation = w.generation, v \notin InstancesShown
        PROVE  Unleased(v) = Unleased(w)
    <3>1. CASE v = NoInstance
      BY <2>2, <2>3, <3>1
    <3>2. CASE v # NoInstance
      <4>1. w # NoInstance
        BY <2>2, <2>3, <3>2
      <4>2. v.id \in DOMAIN instances' /\ v = instances'[v.id]
        BY <1>2, <2>3, <3>2, ShowsCurrent DEF StoreInv, ViewsInv
      <4> QED
        BY <2>1, <2>3, <4>1, <4>2 DEF ShownInv
    <3> QED
      BY <3>1, <3>2
  <2>4. ASSUME NEW v \in InstancesShown, NEW w \in InstancesShown,
               v.id = w.id, v.generation = w.generation
        PROVE  Unleased(v) = Unleased(w)
    BY <1>2, <2>4 DEF GenerationDeterminesInstance, Unleased
  <2>5. GenerationDeterminesInstance'
    BY <2>3, <2>4 DEF GenerationDeterminesInstance, Unleased
  <2> QED
    BY <2>1, <2>5
<1>3. Inv => GenerationDeterminesInstance
  OBVIOUS
<1> HIDE DEF Inv
<1> QED
  BY <1>1, <1>2, <1>3, TypeCorrect, ViewsCorrect, StoreCorrect, PTL DEF Spec

-----------------------------------------------------------------------------
(* The registry the other threads may see, by what the runner is doing.    *)
LEMMA Effective ==
  /\ rpc # "suspend" => EffectiveAgent = agent
  /\ rpc = "suspend" => EffectiveAgent = [agent EXCEPT !.epoch = @ + 1]
  /\ rpc \notin {"seed", "revoke", "suspendIdentity"} =>
       EffectiveIdentity = identity
  /\ rpc = "seed" =>
       EffectiveIdentity = [id |-> sequence, state |-> "active", epoch |-> 1,
                            subject |-> 0, root |-> sequence]
  /\ rpc = "revoke" =>
       EffectiveIdentity = [identity EXCEPT !.state = "revoked", !.epoch = @ + 1]
  /\ rpc = "suspendIdentity" =>
       EffectiveIdentity = [identity EXCEPT !.epoch = @ + 1]
  BY DEF EffectiveAgent, EffectiveIdentity

LEMMA EffectiveNext ==
  /\ rpc' # "suspend" => EffectiveAgent' = agent'
  /\ rpc' = "suspend" => EffectiveAgent' = [agent' EXCEPT !.epoch = @ + 1]
  /\ rpc' \notin {"seed", "revoke", "suspendIdentity"} =>
       EffectiveIdentity' = identity'
  /\ rpc' = "seed" =>
       EffectiveIdentity' = [id |-> sequence', state |-> "active", epoch |-> 1,
                             subject |-> 0, root |-> sequence']
  /\ rpc' = "revoke" =>
       EffectiveIdentity' = [identity' EXCEPT !.state = "revoked", !.epoch = @ + 1]
  /\ rpc' = "suspendIdentity" =>
       EffectiveIdentity' = [identity' EXCEPT !.epoch = @ + 1]
  BY DEF EffectiveAgent, EffectiveIdentity

LEMMA EffectiveKept ==
  ASSUME UNCHANGED <<rpc, agent, identity>>, rpc # "seed" \/ sequence' = sequence
  PROVE  UNCHANGED <<EffectiveAgent, EffectiveIdentity>>
  BY DEF EffectiveAgent, EffectiveIdentity

(* A mutator is its abstract action when it takes the mutex, and nothing   *)
(* more when it gives it back.                                             *)
LEMMA RunnerImplements ==
  ASSUME TypeOK, StoreInv, Runner
  PROVE  [Atomic!Next]_Atomic!vars
<1>0. UNCHANGED Decided
  BY RunnerSendsNothing
<1> USE <1>0, Effective, EffectiveNext DEF storeVars
<1>1. CASE SeedAgentBegin
  <2>1. Atomic!SeedAgent
    BY <1>1 DEF SeedAgentBegin, Begin, Atomic!SeedAgent
  <2> QED
    BY <2>1 DEF Atomic!Next
<1>2. CASE SeedAgentEnd
  <2>1. UNCHANGED Atomic!vars
    BY <1>2 DEF SeedAgentEnd, End, Atomic!vars
  <2> QED
    BY <2>1
<1>3. CASE SetIdentityAttributes
  <2>1. Atomic!SetIdentityAttributes
    BY <1>3 DEF SetIdentityAttributes, Atomically, Atomic!SetIdentityAttributes
  <2> QED
    BY <2>1 DEF Atomic!Next
<1>4. CASE AddWorkload
  <2>1. Atomic!AddWorkload
    BY <1>4 DEF AddWorkload, Atomically, identityVars, Atomic!AddWorkload
  <2> QED
    BY <2>1 DEF Atomic!Next
<1>5. CASE SuspendAgentBegin
  <2>1. Atomic!SuspendAgent
    BY <1>5 DEF SuspendAgentBegin, Begin, Atomic!SuspendAgent
  <2> QED
    BY <2>1 DEF Atomic!Next
<1>6. CASE SuspendAgentEnd
  <2>1. UNCHANGED Atomic!vars
    BY <1>6 DEF SuspendAgentEnd, End, Atomic!vars
  <2> QED
    BY <2>1
<1>7. CASE RevokeAgentBegin
  <2>1. Atomic!RevokeAgent
    BY <1>7 DEF RevokeAgentBegin, Begin, Atomic!RevokeAgent
  <2> QED
    BY <2>1 DEF Atomic!Next
<1>8. CASE RevokeAgentEnd
  <2>1. UNCHANGED Atomic!vars
    BY <1>8 DEF RevokeAgentEnd, End, Atomic!vars
  <2> QED
    BY <2>1
<1>9. CASE SuspendIdentityBegin
  <2>1. Atomic!SuspendIdentity
    BY <1>9 DEF SuspendIdentityBegin, Begin, Atomic!SuspendIdentity
  <2> QED
    BY <2>1 DEF Atomic!Next
<1>10. CASE SuspendIdentityEnd
  <2>1. UNCHANGED Atomic!vars
    BY <1>10 DEF SuspendIdentityEnd, End, Atomic!vars
  <2> QED
    BY <2>1
<1>11. ASSUME NEW i \in DOMAIN instances, TerminateInstance(i)
       PROVE  [Atomic!Next]_Atomic!vars
  <2>1. Atomic!TerminateInstance(i)
    BY <1>11 DEF TerminateInstance, Atomically, identityVars,
                 Atomic!TerminateInstance
  <2> QED
    BY <2>1 DEF Atomic!Next
<1>12. ASSUME NEW i \in DOMAIN instances, NEW t \in Leases, LeaseInstance(i, t)
       PROVE  [Atomic!Next]_Atomic!vars
  <2>1. instances[i].state = "active"
    BY <1>12 DEF LeaseInstance, StoreInv, StoredInv, TypeOK, StoreTypeOK,
                 Instance, InstanceState
  <2>2. instances'[i].lease = t
    <3>1. instances[i] \in Instance
      BY DEF TypeOK, StoreTypeOK
    <3> QED
      BY <1>12, <3>1 DEF LeaseInstance, Instance
  <2>3. Atomic!LeaseInstance(i)
    BY <1>12, <2>1, <2>2 DEF LeaseInstance, Atomically, identityVars,
                             Atomic!LeaseInstance
  <2> QED
    BY <2>3 DEF Atomic!Next
<1> QED
  BY <1>1, <1>2, <1>3, <1>4, <1>5, <1>6, <1>7, <1>8, <1>9, <1>10, <1>11,
     <1>12 DEF Runner

-----------------------------------------------------------------------------
(* A handler that has the mutex, or waits for nobody, sees no mutator.     *)
LEMMA FreeIsIdle ==
  ASSUME MutexInv, NEW h \in Handlers, mu = "free" \/ pc[h] = "context"
  PROVE  rpc = "idle"
  BY ThreadsAssumption DEF MutexInv

(* The abstract registry's records are the registry's.                     *)
LEMMA SameData ==
  /\ \A f : Atomic!Range(f) = Range(f)
  /\ \A f : Atomic!IsInjective(f) <=> IsInjective(f)
  /\ Atomic!Instance = Instance
  /\ Atomic!NoAgent = NoAgent
  /\ Atomic!NoIdentity = NoIdentity
  /\ Atomic!NoInstance = NoInstance
<1>1. Atomic!Instance = Instance
  BY DEF Atomic!Instance, Instance, Atomic!InstanceState, InstanceState
<1>2. /\ \A f : Atomic!Range(f) = Range(f)
      /\ \A f : Atomic!IsInjective(f) <=> IsInjective(f)
  BY Zenon DEF Atomic!Range, Range, Atomic!IsInjective, IsInjective
<1>3. /\ Atomic!NoAgent = NoAgent
      /\ Atomic!NoIdentity = NoIdentity
      /\ Atomic!NoInstance = NoInstance
  BY DEF Atomic!NoAgent, NoAgent, Atomic!NoIdentity, NoIdentity,
         Atomic!NoInstance, NoInstance
<1> QED
  BY <1>1, <1>2, <1>3, Zenon

(* An answer is an abstract read if it is faithful.                        *)
LEMMA AnswerReads ==
  ASSUME TypeOK, ReplyInv, NEW h \in Handlers, NEW reply, Answer(h, reply),
         pc[h] # "sending", UNCHANGED <<sequence, identityVars, storeVars, rpc>>,
         Atomic!Faithful(reply)
  PROVE  [Atomic!Next]_Atomic!vars
<1>1. UNCHANGED <<EffectiveAgent, EffectiveIdentity>>
  BY EffectiveKept DEF identityVars
<1>2. Decided' = Decided \cup {reply}
  BY AnswerDecides
<1>3. Atomic!Read
  BY <1>1, <1>2 DEF storeVars, Atomic!Read
<1> QED
  BY <1>3 DEF Atomic!Next

(* A refusal is faithful when it says what is so.                          *)
LEMMA RefusalFaithful ==
  ASSUME NEW h \in Handlers, NEW why,
         \/ /\ why = "unknown agent"
            /\ req[h].agentID # EffectiveIdentity.id
         \/ /\ why = "unknown instance"
            /\ req[h].agentID = EffectiveIdentity.id
            /\ req[h].instanceID \notin DOMAIN instances
         \/ /\ why = "unknown workload registration"
            /\ req[h].agentID = EffectiveIdentity.id
            /\ req[h].registrationID \notin workloads
            /\ req[h].op = "context" => req[h].instanceID = 0
         \/ why = "invalid_request" /\ req[h].op = "malformed"
  PROVE  Atomic!Faithful(Refusal(h, why))
  BY DEF Refusal, Atomic!Faithful

LEMMA ListsImplement ==
  ASSUME TypeOK, MutexInv, ReplyInv, StoreInv, NEW h \in Handlers,
         ListNamespaces(h) \/ ListAgents(h) \/ ListIdentities(h)
           \/ ListWorkloads(h) \/ ListInstances(h)
  PROVE  [Atomic!Next]_Atomic!vars
<1>1. CASE ListNamespaces(h)
  <2>1. \A root : Atomic!Faithful([kind |-> "namespaces", root |-> root])
    BY DEF Atomic!Faithful
  <2> QED
    BY <1>1, <2>1, AnswerReads DEF ListNamespaces, Serving
<1>2. CASE ListAgents(h)
  <2>1. Atomic!Faithful([kind |-> "agents", agent |-> agent])
    BY <1>2, FreeIsIdle, Effective DEF ListAgents, Atomic!Faithful
  <2> QED
    BY <1>2, <2>1, AnswerReads DEF ListAgents, Serving
<1>3. CASE ListIdentities(h)
  <2>1. Atomic!Faithful([kind |-> "identities", identity |-> identity])
    BY <1>3, FreeIsIdle, Effective DEF ListIdentities, Atomic!Faithful
  <2> QED
    BY <1>3, <2>1, AnswerReads DEF ListIdentities, Serving
<1>4. CASE ListWorkloads(h)
  <2>1. Atomic!Faithful([kind |-> "workloads", order |-> workloadOrder])
    BY SameData DEF Atomic!Faithful, StoreInv, OrderInv
  <2> QED
    BY <1>4, <2>1, AnswerReads DEF ListWorkloads, Serving
<1>5. CASE ListInstances(h)
  <2> DEFINE listed == {instances[i] : i \in Range(instanceOrder)}
             items  == {v \in listed : v.agentID = req[h].agentID}
  <2>1. listed = Range(instances)
    BY DEF StoreInv, OrderInv, Range
  <2>2. \A v \in items : items = {w \in Range(instances) : w.agentID = v.agentID}
    BY <2>1
  <2>3. Atomic!Faithful([kind |-> "instances", items |-> items])
    BY <2>2, SameData DEF Atomic!Faithful
  <2> QED
    BY <1>5, <2>3, AnswerReads DEF ListInstances, Serving
<1> QED
  BY <1>1, <1>2, <1>3, <1>4, <1>5

(* The Registry Context is of one instant: the agent is the one held, and  *)
(* an instance is shown with the registration it was committed to.         *)
LEMMA ContextImplements ==
  ASSUME TypeOK, MutexInv, ReplyInv, StoreInv, NEW h \in Handlers, ContextEnd(h)
  PROVE  [Atomic!Next]_Atomic!vars
<1> DEFINE r == req[h]
<1>1. /\ pc[h] = "context" /\ pc[h] # "sending" /\ Answer(h, ContextReply(h))
      /\ UNCHANGED <<sequence, identityVars, storeVars, rpc>>
  BY DEF ContextEnd
<1>2. /\ held[h] = EffectiveAgent /\ identity = EffectiveIdentity
      /\ r.agentID = EffectiveIdentity.id
  BY <1>1, FreeIsIdle, Effective DEF MutexInv, StoreInv, ServedInv
<1>3. r.instanceID \in DOMAIN instances =>
        instances[r.instanceID].registrationID \in workloads
  BY DEF StoreInv, StoredInv
<1>4. CASE r.instanceID # 0 /\ r.instanceID \notin DOMAIN instances
  <2>1. ContextReply(h) = Refusal(h, "unknown instance")
    BY <1>4 DEF ContextReply
  <2> QED
    BY <1>1, <1>2, <1>4, <2>1, RefusalFaithful, AnswerReads
<1>5. CASE /\ r.instanceID # 0 => r.instanceID \in DOMAIN instances
           /\ Registration(r) \notin workloads \cup {0}
  <2>1. r.instanceID = 0 /\ r.registrationID \notin workloads
    BY <1>3, <1>5 DEF Registration
  <2>2. ContextReply(h) = Refusal(h, "unknown workload registration")
    BY <1>5, <2>1 DEF ContextReply
  <2> QED
    BY <1>1, <1>2, <2>1, <2>2, RefusalFaithful, AnswerReads
<1>6. CASE /\ r.instanceID # 0 => r.instanceID \in DOMAIN instances
           /\ Registration(r) \in workloads \cup {0}
  <2> DEFINE shown == IF r.instanceID = 0 THEN NoInstance
                                          ELSE instances[r.instanceID]
             reply == [kind |-> "context", agent |-> held[h],
                       identity |-> identity, instance |-> shown,
                       registrationID |-> Registration(r)]
  <2>1. ContextReply(h) = reply
    BY <1>6 DEF ContextReply
  <2>2. \/ shown = NoInstance
        \/ /\ shown \in Range(instances)
           /\ shown.registrationID = Registration(r)
    BY <1>6 DEF Registration, Range
  <2> HIDE DEF shown
  <2>3. Atomic!Faithful(reply)
    BY <1>2, <1>6, <2>2, SameData DEF Atomic!Faithful
  <2> QED
    BY <1>1, <2>1, <2>3, AnswerReads
<1> QED
  BY <1>4, <1>5, <1>6

(* A commit is the abstract commit of the instance it makes.               *)
LEMMA CommitImplements ==
  ASSUME TypeOK, MutexInv, ReplyInv, StoreInv, NEW h \in Handlers,
         CommitInstance(h) \/ CommitRefused(h)
  PROVE  [Atomic!Next]_Atomic!vars
<1>1. CASE CommitInstance(h)
  <2> DEFINE reply == [kind |-> "created", instance |-> Made(h)]
  <2>1. rpc = "idle" /\ rpc' = "idle" /\ UNCHANGED <<agent, identity, workloads>>
    BY <1>1, FreeIsIdle DEF CommitInstance, identityVars
  <2>2. /\ EffectiveIdentity = identity
        /\ UNCHANGED <<EffectiveAgent, EffectiveIdentity>>
    BY <2>1, Effective, EffectiveNext
  <2>3. Decided' = Decided \cup {reply}
    BY <1>1, AnswerDecides DEF CommitInstance, Serving, Made
  <2>4. /\ Made(h).id = sequence + 1 /\ Made(h).state = "active"
        /\ Made(h).generation = 1
    BY DEF Made
  <2>5. Atomic!CommitInstance(Made(h))
    BY <1>1, <2>1, <2>2, <2>3, <2>4, CommitEffect, SameData
       DEF Atomic!CommitInstance
  <2>6. reply \in Decided' /\ reply.kind = "created" /\ reply.instance = Made(h)
    BY <2>3
  <2> QED
    BY <2>5, <2>6 DEF Atomic!Next
<1>2. CASE CommitRefused(h)
  <2>1. UNCHANGED <<sequence, identityVars, storeVars, rpc>>
    BY <1>2 DEF CommitRefused
  <2>2. pc[h] # "sending"
    BY <1>2 DEF CommitRefused, Serving
  <2>3. mu = "free" => EffectiveIdentity = identity
    BY FreeIsIdle, Effective
  <2>4. PICK why : Answer(h, Refusal(h, why)) /\ Atomic!Faithful(Refusal(h, why))
    BY <1>2, <2>3, RefusalFaithful DEF CommitRefused, Serving
  <2> QED
    BY <2>1, <2>2, <2>4, AnswerReads
<1> QED
  BY <1>1, <1>2

(* Every step of a handler is an abstract one or is not seen.              *)
LEMMA HandlerImplements ==
  ASSUME TypeOK, MutexInv, ReplyInv, StoreInv, NEW h \in Handlers,
         ServeHTTP(h) \/ \E r \in PossibleRequests : Send(h, r)
  PROVE  [Atomic!Next]_Atomic!vars
<1>1. CASE ContextBegin(h) \/ Deliver(h) \/ \E r \in PossibleRequests : Send(h, r)
  <2>1. UNCHANGED <<sequence, identityVars, storeVars, rpc, Decided>>
    BY <1>1, DecidedKept, DeliverDecides DEF ContextBegin, Deliver, Send
  <2>2. UNCHANGED <<EffectiveAgent, EffectiveIdentity>>
    BY <2>1, EffectiveKept DEF identityVars
  <2> QED
    BY <2>1, <2>2 DEF storeVars, Atomic!vars
<1>2. CASE ContextUnknownAgent(h)
  <2>1. req[h].agentID # EffectiveIdentity.id
    BY <1>2, FreeIsIdle, Effective DEF ContextUnknownAgent
  <2> QED
    BY <1>2, <2>1, RefusalFaithful, AnswerReads DEF ContextUnknownAgent, Serving
<1> QED
  BY <1>1, <1>2, ListsImplement, ContextImplements, CommitImplements DEF ServeHTTP

(* The registry with its mutex implements the registry without threads:    *)
(* mutators take effect at one instant and replies but the namespace list  *)
(* show one instant between their request and their sending, for any       *)
(* number of handlers.                                                     *)
THEOREM RegistryIsAtomic == Spec => ImplementsAtomicRegistry
<1>1. Init => Atomic!Init
  <2>1. Init => Decided = {}
    BY DEF Init, Decided
  <2> QED
    BY <2>1, Effective, SameData DEF Init, Atomic!Init
<1>2. ASSUME TypeOK, ViewsInv, StoreInv, [Next]_vars
      PROVE  [Atomic!Next]_Atomic!vars
  <2>1. CASE UNCHANGED vars
    <3>1. UNCHANGED <<EffectiveAgent, EffectiveIdentity>>
      BY <2>1, EffectiveKept DEF vars, identityVars
    <3> QED
      BY <2>1, <3>1, DecidedKept DEF vars, storeVars, handlerVars, Atomic!vars
  <2> QED
    BY <1>2, <2>1, RunnerImplements, HandlerImplements DEF Next, ViewsInv
<1> QED
  BY <1>1, <1>2, TypeCorrect, ViewsCorrect, StoreCorrect, PTL
     DEF Spec, ImplementsAtomicRegistry, Atomic!Spec

=============================================================================

---------------------------- MODULE FakeRegistry ----------------------------
(***************************************************************************)
(* The in-process NOMIVELA registry of conformance/runner/registry.go: one *)
(* Agent, one Agent Identity, the approved workloads and the committed     *)
(* instances, all guarded by one mutex.  Two kinds of thread enter it:     *)
(* the runner goroutine, which calls the exported mutators, and one        *)
(* handler goroutine per HTTP request of the daemon.                       *)
(*                                                                         *)
(* A mutator that writes several fields holds the mutex over two steps,    *)
(* and so does the Registry Context handler over its reads, so that an     *)
(* access outside the mutex would be seen half way.  A reply is made with  *)
(* the mutex held and leaves later: the list handlers write it after       *)
(* Unlock, and net/http keeps what the others write until they return.     *)
(*                                                                         *)
(* RegistryData defines the records, the requests and the replies.         *)
(***************************************************************************)
EXTENDS RegistryData

CONSTANTS
  Handlers,        (* HTTP handler goroutines.                             *)
  AttestationRefs, (* The attestations, one per enrollment, that instances *)
                   (* are committed for.                                   *)
  Leases,          (* Instance expiry times.                               *)
  Mutators,        (* The mutators the runner calls besides SeedAgent.     *)
  Ops,             (* The operations the daemon requests.                  *)
  AskedInstances,  (* Bounds the instances a request names; 0 is none.     *)
  AskedWorkloads,  (* Bounds the registrations a request names.            *)
  MaxSequence,     (* Bounds the sequence counter.                         *)
  MaxChanges,      (* Bounds the sum of the counter and the two epochs.    *)
  MaxGeneration,   (* Bounds an instance's generation.                     *)
  MaxReplies       (* Bounds the number of different replies sent.         *)

ASSUME ThreadsAssumption == {"free", "runner"} \cap Handlers = {}
ASSUME DataAssumption    == /\ AttestationRefs \subseteq Nat \ {0}
                            /\ Leases \subseteq Nat \ {0}
                            /\ AskedInstances \subseteq Nat
                            /\ AskedWorkloads \subseteq Nat

VARIABLES
  mu,            (* The holder of the mutex: a thread, or "free".          *)
  sequence,      (* The counter every id is formatted from.                *)
  agent,         (* agentRef, agentState and agentEpoch.                   *)
  identity,      (* agentID, identityState, identityEpoch, subjectRef and  *)
                 (* authorityRootRef.                                      *)
  workloads,     (* The keys of the workloads map; entries never change.   *)
  workloadOrder,
  instances,     (* The instances map.                                     *)
  instanceOrder,
  rpc,           (* The mutator the runner is in the middle of.            *)
  pc,            (* Where each handler is.                                 *)
  req,           (* The request each handler serves.                       *)
  held,          (* The Agent a Registry Context handler has read so far.  *)
  ready,         (* The reply a handler has made and not sent, if any.     *)
  known,         (* History: what had been sent when the request was.      *)
  replies        (* Every reply sent; the network may deliver it late,     *)
                 (* repeatedly or never.                                   *)

identityVars == <<agent, identity>>
storeVars    == <<workloads, workloadOrder, instances, instanceOrder>>
handlerVars  == <<pc, req, held, ready, known, replies>>
vars == <<mu, sequence, identityVars, storeVars, rpc, handlerVars>>

-----------------------------------------------------------------------------
(* The requests.  Nothing ties the ids in one to each other: it may name   *)
(* an agent that was replaced, an instance of another agent, or what was   *)
(* never made.                                                             *)
Ids == 0 .. sequence

ListRequests ==
  {Ask(op, 0, 0, 0, 0, 0) : op \in Lists \cup {"malformed"}}

ContextRequests ==
  {Ask("context", a, i, w, 0, 0) :
     a \in Ids, i \in AskedInstances, w \in AskedWorkloads}

InstanceRequests ==
       {Ask("instances", a, 0, 0, 0, 0) : a \in Ids}
  \cup {Ask("commit", a, 0, w, ref, lease) : a \in Ids, w \in AskedWorkloads,
          ref \in AttestationRefs, lease \in Leases \cup {0}}

PossibleRequests ==
  {r \in ListRequests \cup ContextRequests \cup InstanceRequests : r.op \in Ops}

IdentityTypeOK ==
  /\ sequence \in Nat
  /\ agent \in Agent
  /\ identity \in Identity

StoreTypeOK ==
  /\ workloads \subseteq 1 .. sequence
  /\ workloadOrder \in Seq(workloads)
  /\ DOMAIN instances \subseteq 1 .. sequence
  /\ instances \in [DOMAIN instances -> Instance]
  /\ instanceOrder \in Seq(DOMAIN instances)

ThreadTypeOK ==
  /\ mu \in {"free", "runner"} \cup Handlers
  /\ rpc \in {"idle", "seed", "suspend", "revoke", "suspendIdentity"}
  /\ pc \in [Handlers -> {"idle", "serving", "context", "sending"}]
  /\ req \in [Handlers -> Request]
  /\ held \in [Handlers -> Agent]
  /\ ready \in [Handlers -> SUBSET Reply]
  /\ known \in [Handlers -> SUBSET Reply]
  /\ replies \subseteq Reply

TypeOK == IdentityTypeOK /\ StoreTypeOK /\ ThreadTypeOK

Init ==
  /\ mu = "free"
  /\ sequence = 0
  /\ agent = NoAgent
  /\ identity = NoIdentity
  /\ workloads = {}
  /\ workloadOrder = <<>>
  /\ instances = <<>>
  /\ instanceOrder = <<>>
  /\ rpc = "idle"
  /\ pc = [h \in Handlers |-> "idle"]
  /\ req = [h \in Handlers |-> NoRequest]
  /\ held = [h \in Handlers |-> NoAgent]
  /\ ready = [h \in Handlers |-> {}]
  /\ known = [h \in Handlers |-> {}]
  /\ replies = {}

-----------------------------------------------------------------------------
(* The runner.  Begin takes the mutex and leaves it taken: the mutator has *)
(* written its first fields.  End writes the others and releases it.       *)

Begin(op) ==
  /\ mu = "free" /\ rpc = "idle"
  /\ mu' = "runner" /\ rpc' = op

End(op) ==
  /\ rpc = op
  /\ mu' = "free" /\ rpc' = "idle"

CanChange(n) == sequence + agent.epoch + identity.epoch + n <= MaxChanges

(* A mutator whose writes are one map or field update.                     *)
Atomically ==
  /\ mu = "free" /\ rpc = "idle"
  /\ UNCHANGED <<mu, rpc>>

-----------------------------------------------------------------------------
(* Variants of the mutators as a slip in the code would make them.  No     *)
(* specification uses them; each breaks one of the properties below.       *)

(* A new agent takes the name of the one before it.                        *)
SeedAgentReusingName ==
  /\ Begin("seed")
  /\ sequence' = IF sequence = 0 THEN 1 ELSE sequence
  /\ agent' = [ref |-> sequence', state |-> "active", epoch |-> 1]
  /\ UNCHANGED <<identity, storeVars, handlerVars>>

(* The subject of the identity seeded before is not cleared.               *)
SeedAgentKeepingSubject ==
  /\ End("seed")
  /\ identity' = [id |-> sequence, state |-> "active", epoch |-> 1,
                  subject |-> identity.subject, root |-> sequence]
  /\ UNCHANGED <<sequence, agent, storeVars, handlerVars>>

SuspendAgentSameEpoch ==
  /\ End("suspend")
  /\ UNCHANGED <<sequence, identityVars, storeVars, handlerVars>>

(* The identity gets the Agent's word for the end of its life.             *)
RevokeAgentRetiringIdentity ==
  /\ End("revoke")
  /\ identity' = [identity EXCEPT !.state = "retired", !.epoch = @ + 1]
  /\ UNCHANGED <<sequence, agent, storeVars, handlerVars>>

TerminateSameGeneration(i) ==
  /\ Atomically
  /\ i \in DOMAIN instances
  /\ instances' = [instances EXCEPT ![i].state = "terminated"]
  /\ UNCHANGED <<sequence, identityVars, workloads, workloadOrder,
                 instanceOrder, handlerVars>>

LeaseTerminatedInstance(i, expiresAt) ==
  /\ Atomically
  /\ i \in DOMAIN instances
  /\ instances' = [instances EXCEPT ![i].lease = expiresAt]
  /\ UNCHANGED <<sequence, identityVars, workloads, workloadOrder,
                 instanceOrder, handlerVars>>

-----------------------------------------------------------------------------

SeedAgentBegin ==
  /\ sequence < MaxSequence
  /\ Begin("seed")
  /\ sequence' = sequence + 1
  /\ agent' = [ref |-> sequence + 1, state |-> "active", epoch |-> 1]
  /\ UNCHANGED <<identity, storeVars, handlerVars>>

SeedAgentEnd ==
  /\ End("seed")
  /\ identity' = [id |-> sequence, state |-> "active", epoch |-> 1,
                  subject |-> 0, root |-> sequence]
  /\ UNCHANGED <<sequence, agent, storeVars, handlerVars>>

SetIdentityAttributes ==
  /\ Atomically
  /\ identity' = [identity EXCEPT !.subject = identity.id]
  /\ UNCHANGED <<sequence, agent, storeVars, handlerVars>>

AddWorkload ==
  /\ Atomically
  /\ sequence < MaxSequence
  /\ sequence' = sequence + 1
  /\ workloads' = workloads \cup {sequence + 1}
  /\ workloadOrder' = Append(workloadOrder, sequence + 1)
  /\ UNCHANGED <<identityVars, instances, instanceOrder, handlerVars>>

SuspendAgentBegin ==
  /\ CanChange(1)
  /\ Begin("suspend")
  /\ agent' = [agent EXCEPT !.state = "suspended"]
  /\ UNCHANGED <<sequence, identity, storeVars, handlerVars>>

SuspendAgentEnd ==
  /\ End("suspend")
  /\ agent' = [agent EXCEPT !.epoch = @ + 1]
  /\ UNCHANGED <<sequence, identity, storeVars, handlerVars>>

RevokeAgentBegin ==
  /\ CanChange(2)
  /\ Begin("revoke")
  /\ agent' = [agent EXCEPT !.state = "retired", !.epoch = @ + 1]
  /\ UNCHANGED <<sequence, identity, storeVars, handlerVars>>

RevokeAgentEnd ==
  /\ End("revoke")
  /\ identity' = [identity EXCEPT !.state = "revoked", !.epoch = @ + 1]
  /\ UNCHANGED <<sequence, agent, storeVars, handlerVars>>

SuspendIdentityBegin ==
  /\ CanChange(1)
  /\ Begin("suspendIdentity")
  /\ identity' = [identity EXCEPT !.state = "suspended"]
  /\ UNCHANGED <<sequence, agent, storeVars, handlerVars>>

SuspendIdentityEnd ==
  /\ End("suspendIdentity")
  /\ identity' = [identity EXCEPT !.epoch = @ + 1]
  /\ UNCHANGED <<sequence, agent, storeVars, handlerVars>>

(* An unknown instance is left alone, a terminated one is terminated again.*)
TerminateInstance(i) ==
  /\ Atomically
  /\ i \in DOMAIN instances
  /\ instances[i].generation < MaxGeneration
  /\ instances' = [instances EXCEPT ![i].state = "terminated",
                                    ![i].generation = @ + 1]
  /\ UNCHANGED <<sequence, identityVars, workloads, workloadOrder,
                 instanceOrder, handlerVars>>

(* An unknown or terminated instance is an error and changes nothing.      *)
LeaseInstance(i, expiresAt) ==
  /\ Atomically
  /\ i \in DOMAIN instances
  /\ instances[i].state # "terminated"
  /\ instances' = [instances EXCEPT ![i].lease = expiresAt]
  /\ UNCHANGED <<sequence, identityVars, workloads, workloadOrder,
                 instanceOrder, handlerVars>>

Called(mutator) == mutator \in Mutators

(* Every scenario seeds its agent before it calls another mutator.         *)
Runner ==
  \/ SeedAgentBegin \/ SeedAgentEnd
  \/ /\ agent.ref # 0
     /\ \/ Called("SetIdentityAttributes") /\ SetIdentityAttributes
        \/ Called("AddWorkload") /\ AddWorkload
        \/ Called("SuspendAgent") /\ SuspendAgentBegin
        \/ Called("RevokeAgent") /\ RevokeAgentBegin
        \/ Called("SuspendIdentity") /\ SuspendIdentityBegin
        \/ SuspendAgentEnd \/ RevokeAgentEnd \/ SuspendIdentityEnd
        \/ \E i \in DOMAIN instances :
              \/ Called("TerminateInstance") /\ TerminateInstance(i)
              \/ Called("LeaseInstance") /\ \E t \in Leases : LeaseInstance(i, t)

-----------------------------------------------------------------------------
(* The HTTP side.  The daemon sends any request at any time; sending the   *)
(* same request again is its retry after a lost reply.                     *)

Send(h, r) ==
  /\ pc[h] = "idle"
  /\ r.op = "commit" => sequence < MaxSequence
  /\ Cardinality(replies)
       + Cardinality({g \in Handlers : pc[g] # "idle"}) < MaxReplies
  /\ pc' = [pc EXCEPT ![h] = "serving"]
  /\ req' = [req EXCEPT ![h] = r]
  /\ known' = [known EXCEPT ![h] = replies]
  /\ UNCHANGED <<mu, sequence, identityVars, storeVars, rpc, held, ready,
                 replies>>

Serving(h, op) == pc[h] = "serving" /\ req[h].op = op

(* The reply is made ...                                                   *)
Answer(h, reply) ==
  /\ ready' = [ready EXCEPT ![h] = {reply}]
  /\ pc' = [pc EXCEPT ![h] = "sending"]
  /\ req' = [req EXCEPT ![h] = NoRequest]
  /\ held' = [held EXCEPT ![h] = NoAgent]
  /\ UNCHANGED <<known, replies>>

(* ... and sent, whoever has the mutex by then; the handler is gone.       *)
Deliver(h) ==
  /\ pc[h] = "sending"
  /\ replies' = replies \cup ready[h]
  /\ ready' = [ready EXCEPT ![h] = {}]
  /\ known' = [known EXCEPT ![h] = {}]
  /\ pc' = [pc EXCEPT ![h] = "idle"]
  /\ UNCHANGED <<mu, sequence, identityVars, storeVars, rpc, req, held>>

Refusal(h, why) == [kind |-> "refused", req |-> req[h], why |-> why]

(* Variants of the handlers, as above.                                     *)

ListAgentsUnlocked(h) ==
  /\ Serving(h, "agents")
  /\ Answer(h, [kind |-> "agents", agent |-> agent])
  /\ UNCHANGED <<mu, sequence, identityVars, storeVars, rpc>>

ContextUnlocked(h) ==
  /\ Serving(h, "context")
  /\ req[h].agentID = identity.id
  /\ pc' = [pc EXCEPT ![h] = "context"]
  /\ held' = [held EXCEPT ![h] = agent]
  /\ UNCHANGED <<mu, sequence, identityVars, storeVars, rpc, req, ready, known,
                 replies>>

ContextUnknownAgentLocked(h) ==
  /\ Serving(h, "context")
  /\ mu = "free"
  /\ req[h].agentID # identity.id
  /\ mu' = h
  /\ Answer(h, Refusal(h, "unknown agent"))
  /\ UNCHANGED <<sequence, identityVars, storeVars, rpc>>

CommitUnregistered(h) ==
  LET new == [id |-> sequence + 1, agentID |-> req[h].agentID,
              registrationID |-> req[h].registrationID,
              attestationRef |-> req[h].attestationRef,
              lease |-> req[h].lease, state |-> "active", generation |-> 1]
  IN /\ Serving(h, "commit")
     /\ mu = "free"
     /\ req[h].agentID = identity.id
     /\ sequence' = sequence + 1
     /\ instances' = [i \in DOMAIN instances \cup {new.id} |->
                        IF i = new.id THEN new ELSE instances[i]]
     /\ instanceOrder' = Append(instanceOrder, new.id)
     /\ Answer(h, [kind |-> "created", instance |-> new])
     /\ UNCHANGED <<mu, identityVars, workloads, workloadOrder, rpc>>

-----------------------------------------------------------------------------

(* GET /v1/namespaces reads authorityRootRef without the mutex: while      *)
(* SeedAgent is overwriting the string the reader may see the old one, the *)
(* new one, or the pointer of one with the length of the other.            *)
RootsRead ==
  IF rpc = "seed" THEN {identity.root, sequence, Torn} ELSE {identity.root}

ListNamespaces(h) ==
  /\ Serving(h, "namespaces")
  /\ \E root \in RootsRead : Answer(h, [kind |-> "namespaces", root |-> root])
  /\ UNCHANGED <<mu, sequence, identityVars, storeVars, rpc>>

ListAgents(h) ==
  /\ Serving(h, "agents")
  /\ mu = "free"
  /\ Answer(h, [kind |-> "agents", agent |-> agent])
  /\ UNCHANGED <<mu, sequence, identityVars, storeVars, rpc>>

ListIdentities(h) ==
  /\ Serving(h, "identities")
  /\ mu = "free"
  /\ Answer(h, [kind |-> "identities", identity |-> identity])
  /\ UNCHANGED <<mu, sequence, identityVars, storeVars, rpc>>

ListWorkloads(h) ==
  /\ Serving(h, "workloads")
  /\ mu = "free"
  /\ Answer(h, [kind |-> "workloads", order |-> workloadOrder])
  /\ UNCHANGED <<mu, sequence, identityVars, storeVars, rpc>>

(* The instances of the agent in the path, whoever the current agent is.   *)
ListInstances(h) ==
  /\ Serving(h, "instances")
  /\ mu = "free"
  /\ LET listed == {instances[i] : i \in Range(instanceOrder)}
     IN Answer(h, [kind |-> "instances",
                   items |-> {v \in listed : v.agentID = req[h].agentID}])
  /\ UNCHANGED <<mu, sequence, identityVars, storeVars, rpc>>

(* The Registry Context: check the agent and read it, with the mutex held  *)
(* from here on ...                                                        *)
ContextBegin(h) ==
  /\ Serving(h, "context")
  /\ mu = "free"
  /\ req[h].agentID = identity.id
  /\ mu' = h
  /\ pc' = [pc EXCEPT ![h] = "context"]
  /\ held' = [held EXCEPT ![h] = agent]
  /\ UNCHANGED <<sequence, identityVars, storeVars, rpc, req, ready, known,
                 replies>>

(* ... or answer 404 at once for an agent that is not the current one.     *)
ContextUnknownAgent(h) ==
  /\ Serving(h, "context")
  /\ mu = "free"
  /\ req[h].agentID # identity.id
  /\ Answer(h, Refusal(h, "unknown agent"))
  /\ UNCHANGED <<mu, sequence, identityVars, storeVars, rpc>>

(* An instance selects its own registration, whatever the query says.      *)
Registration(r) ==
  IF r.instanceID # 0 THEN instances[r.instanceID].registrationID
                      ELSE r.registrationID

ContextReply(h) ==
  LET r == req[h] IN
  IF r.instanceID # 0 /\ r.instanceID \notin DOMAIN instances
  THEN Refusal(h, "unknown instance")
  ELSE IF Registration(r) \notin workloads \cup {0}
  THEN Refusal(h, "unknown workload registration")
  ELSE [kind |-> "context", agent |-> held[h], identity |-> identity,
        instance |-> IF r.instanceID = 0 THEN NoInstance
                                         ELSE instances[r.instanceID],
        registrationID |-> Registration(r)]

ContextEnd(h) ==
  /\ pc[h] = "context"
  /\ mu' = "free"
  /\ Answer(h, ContextReply(h))
  /\ UNCHANGED <<sequence, identityVars, storeVars, rpc>>

(* POST .../instances.  Nothing of the request says that it is a retry, so *)
(* every accepted one makes a new instance, active, in its generation 1.   *)
CommitInstance(h) ==
  LET new == [id |-> sequence + 1, agentID |-> req[h].agentID,
              registrationID |-> req[h].registrationID,
              attestationRef |-> req[h].attestationRef,
              lease |-> req[h].lease, state |-> "active", generation |-> 1]
  IN /\ Serving(h, "commit")
     /\ mu = "free"
     /\ req[h].agentID = identity.id
     /\ req[h].registrationID \in workloads
     /\ sequence' = sequence + 1
     /\ instances' = [i \in DOMAIN instances \cup {new.id} |->
                        IF i = new.id THEN new ELSE instances[i]]
     /\ instanceOrder' = Append(instanceOrder, new.id)
     /\ Answer(h, [kind |-> "created", instance |-> new])
     /\ UNCHANGED <<mu, identityVars, workloads, workloadOrder, rpc>>

CommitRefused(h) ==
  /\ \/ /\ Serving(h, "malformed")
        /\ Answer(h, Refusal(h, "invalid_request"))
     \/ /\ Serving(h, "commit") /\ mu = "free"
        /\ req[h].agentID # identity.id
        /\ Answer(h, Refusal(h, "unknown agent"))
     \/ /\ Serving(h, "commit") /\ mu = "free"
        /\ req[h].agentID = identity.id
        /\ req[h].registrationID \notin workloads
        /\ Answer(h, Refusal(h, "unknown workload registration"))
  /\ UNCHANGED <<mu, sequence, identityVars, storeVars, rpc>>

(* One handler goroutine; ServeHTTP routes a request to one of these.      *)
ServeHTTP(h) ==
  \/ ListNamespaces(h) \/ ListAgents(h) \/ ListIdentities(h)
  \/ ListWorkloads(h) \/ ListInstances(h)
  \/ ContextBegin(h) \/ ContextUnknownAgent(h) \/ ContextEnd(h)
  \/ CommitInstance(h) \/ CommitRefused(h)
  \/ Deliver(h)

Next ==
  \/ Runner
  \/ \E h \in Handlers : ServeHTTP(h) \/ \E r \in PossibleRequests : Send(h, r)

(* The runner finishes a mutator it has begun.  A handler that is waiting  *)
(* for the mutex gets it if it is freed again and again: sync.Mutex hands  *)
(* the lock to a waiter it has starved for a millisecond.                  *)
FinishMutator ==
  SeedAgentEnd \/ SuspendAgentEnd \/ RevokeAgentEnd \/ SuspendIdentityEnd

Fairness ==
  /\ WF_vars(FinishMutator)
  /\ \A h \in Handlers : SF_vars(ServeHTTP(h))

Spec     == Init /\ [][Next]_vars
FairSpec == Spec /\ Fairness

-----------------------------------------------------------------------------
(* What replies tell the daemon.                                           *)

AgentsIn(rs)     == {r.agent : r \in {q \in rs : q.kind \in {"agents", "context"}}}
IdentitiesIn(rs) == {r.identity :
                       r \in {q \in rs : q.kind \in {"identities", "context"}}}

(* The replies that were sent or are going to be.                          *)
Decided == replies \cup UNION {ready[h] : h \in Handlers}

Contexts        == {r \in Decided : r.kind = "context"}
AgentsShown     == AgentsIn(Decided)
IdentitiesShown == IdentitiesIn(Decided)
InstancesShown  == {r.instance : r \in {q \in Decided : q.kind \in {"created", "context"}}}
                     \cup UNION {r.items : r \in {q \in Decided : q.kind = "instances"}}

(* The daemon may key what it concludes about an Agent or an Identity by   *)
(* the epoch it was told (a token carries both): two replies that name the *)
(* same Agent at the same epoch agree on its state, and so for Identities. *)
(* A mutator that forgets an epoch, an id used twice, or a read in the     *)
(* middle of SuspendAgent or SuspendIdentity would break it.               *)
EpochDeterminesState ==
  /\ \A a, b \in AgentsShown :
       a.ref = b.ref /\ a.epoch = b.epoch => a.state = b.state
  /\ \A a, b \in IdentitiesShown :
       a.id = b.id /\ a.epoch = b.epoch => a.state = b.state

(* The Registry Context is "from one consistent view": its Agent, its      *)
(* Identity and its authority root were seeded together, and the subject,  *)
(* if it has one, was set for this Identity and not for one seeded before; *)
(* and since RevokeAgent retires the Agent and revokes its Identity in one *)
(* critical section, no retired Agent is paired with an active Identity.   *)
(* A context read without the mutex, or a field SeedAgent forgets to       *)
(* reset, would mix two agents or two moments.                             *)
ContextOfOneView ==
  \A c \in Contexts :
    /\ c.agent.ref = c.identity.id
    /\ c.identity.root = c.identity.id
    /\ c.identity.subject \in {0, c.identity.id}
    /\ c.agent.state = "retired" => c.identity.state # "active"

(* The generation of an instance determines its state and whom and what it *)
(* was committed for, in every reply of commit, listing and context: an id *)
(* is never given to a second instance, and termination is a new           *)
(* generation.                                                             *)
GenerationDeterminesInstance ==
  \A v, w \in InstancesShown :
    v.id = w.id /\ v.generation = w.generation =>
      [v EXCEPT !.lease = 0] = [w EXCEPT !.lease = 0]

(* A terminated instance stays terminated with the lease it had, whatever  *)
(* is called later; generations only grow; no instance disappears or is    *)
(* taken over by another agent, registration or attestation.               *)
InstancesOnlyAge ==
  [][\A i \in DOMAIN instances :
       /\ i \in DOMAIN instances'
       /\ instances'[i].generation >= instances[i].generation
       /\ [instances'[i] EXCEPT !.generation = 0, !.state = "", !.lease = 0]
            = [instances[i] EXCEPT !.generation = 0, !.state = "", !.lease = 0]
       /\ instances[i].state = "terminated" =>
            /\ instances'[i].state = "terminated"
            /\ instances'[i].lease = instances[i].lease]_vars

(* No answer is staler than what its reader knew when it asked: of an      *)
(* Agent or an Identity it is not older, by seeding and then by epoch,     *)
(* than anything that had been sent before the request was, and it never   *)
(* brings back what was shown stopped by then, by whichever mutators in    *)
(* whichever order.  So a daemon that asks again after a suspension it was *)
(* told of is not told otherwise.  Answers to requests in flight at once   *)
(* have no order: the one made first may be sent last.                     *)
NotOlder(new, old, id) ==
  \/ new[id] > old[id]
  \/ /\ new[id] = old[id] /\ new.epoch >= old.epoch
     /\ new.state = "active" => old.state = "active"

NoStaleAnswer ==
  \A h \in Handlers :
    /\ \A new \in AgentsIn(ready[h]), old \in AgentsIn(known[h]) :
         NotOlder(new, old, "ref")
    /\ \A new \in IdentitiesIn(ready[h]), old \in IdentitiesIn(known[h]) :
         NotOlder(new, old, "id")

(* What the claim has the daemon rely on: a commit repeated for the same   *)
(* agent, registration and attestation, after its 201 was lost, makes no   *)
(* second instance ("committed to NOMIVELA with a stable idempotency key", *)
(* docs/conformance-claim-v2.md:22; "idempotent commit", line 41).  The    *)
(* handler reads no key.                                                   *)
CommitIsIdempotent ==
  \A i, j \in DOMAIN instances :
    /\ instances[i].agentID = instances[j].agentID
    /\ instances[i].registrationID = instances[j].registrationID
    /\ instances[i].attestationRef = instances[j].attestationRef
    => i = j

(* Every request is answered: no path of a handler or a mutator leaves     *)
(* with the mutex held.                                                    *)
EveryRequestAnswered ==
  \A h \in Handlers : pc[h] # "idle" ~> pc[h] = "idle"

(* Why the view properties hold.  Whoever is inside a critical section has *)
(* the mutex, and a context handler's first half is still current.         *)
MutexInv ==
  /\ mu = "runner" <=> rpc # "idle"
  /\ \A h \in Handlers :
       /\ pc[h] = "context" <=> mu = h
       /\ pc[h] = "context" => held[h] = agent

(* Between critical sections the Agent and the Identity belong together.   *)
WholeInv ==
  /\ rpc # "seed" => agent.ref = identity.id
  /\ rpc = "seed" => agent.state = "active" /\ identity.id < sequence
                     /\ agent.ref = sequence
  /\ agent.ref <= sequence
  /\ identity.root = identity.id
  /\ identity.subject \in {0, identity.id}
  /\ agent.state = "retired" /\ rpc # "revoke" => identity.state # "active"

(* Nothing shown is newer than what is current, what was shown of the      *)
(* current epoch is current, except while that epoch is being ended, and   *)
(* what is active was never shown otherwise.                               *)
SentInv ==
  /\ \A a \in AgentsShown :
       /\ a.ref <= agent.ref
       /\ a.ref = agent.ref => a.epoch <= agent.epoch
       /\ a.ref = agent.ref /\ a.epoch = agent.epoch /\ rpc # "suspend" =>
            a.state = agent.state
       /\ a.ref = agent.ref /\ agent.state = "active" => a.state = "active"
  /\ \A v \in IdentitiesShown :
       /\ v.id <= identity.id
       /\ v.id = identity.id => v.epoch <= identity.epoch
       /\ v.id = identity.id /\ v.epoch = identity.epoch
            /\ rpc # "suspendIdentity" => v.state = identity.state
       /\ v.id = identity.id /\ identity.state = "active" => v.state = "active"

(* Only a handler that is sending has a reply made, and what was known to  *)
(* be sent when its request was had been sent.                             *)
ReplyInv ==
  \A h \in Handlers :
    /\ pc[h] # "sending" => ready[h] = {}
    /\ known[h] \subseteq replies

ViewsInv == MutexInv /\ WholeInv /\ SentInv /\ ReplyInv /\ NoStaleAnswer

(* The registry the other threads are allowed to see: a mutator takes      *)
(* effect as a whole when it takes the mutex.                              *)
EffectiveAgent ==
  IF rpc = "suspend" THEN [agent EXCEPT !.epoch = @ + 1] ELSE agent

EffectiveIdentity ==
  CASE rpc = "seed" -> [id |-> sequence, state |-> "active", epoch |-> 1,
                        subject |-> 0, root |-> sequence]
    [] rpc = "revoke" -> [identity EXCEPT !.state = "revoked", !.epoch = @ + 1]
    [] rpc = "suspendIdentity" -> [identity EXCEPT !.epoch = @ + 1]
    [] OTHER -> identity

Atomic == INSTANCE AtomicRegistry
            WITH agent <- EffectiveAgent, identity <- EffectiveIdentity,
                 replies <- Decided

(* The registry with its mutex implements the registry without threads:    *)
(* every mutator looks as if it took effect at one instant, every reply    *)
(* but the unguarded namespace list shows the state of one instant while   *)
(* its request was served, and a 201 is made exactly when the instance is  *)
(* recorded.                                                               *)
ImplementsAtomicRegistry == Atomic!Spec

=============================================================================

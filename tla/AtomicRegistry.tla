--------------------------- MODULE AtomicRegistry ---------------------------
(***************************************************************************)
(* What conformance/runner/registry.go promises its callers, without       *)
(* threads and without a mutex: every mutator takes effect at one instant, *)
(* and every reply shows the registry as it is at one instant - "the       *)
(* Agent, Agent Identity, and the selected Workload Registration and Agent *)
(* Instance from one consistent view".  FakeRegistry implements it.        *)
(***************************************************************************)
EXTENDS RegistryData

VARIABLES sequence, agent, identity, workloads, instances, replies

vars == <<sequence, agent, identity, workloads, instances, replies>>

Init ==
  /\ sequence = 0
  /\ agent = NoAgent
  /\ identity = NoIdentity
  /\ workloads = {}
  /\ instances = <<>>
  /\ replies = {}

-----------------------------------------------------------------------------

SeedAgent ==
  /\ sequence' = sequence + 1
  /\ agent' = [ref |-> sequence + 1, state |-> "active", epoch |-> 1]
  /\ identity' = [id |-> sequence + 1, state |-> "active", epoch |-> 1,
                  subject |-> 0, root |-> sequence + 1]
  /\ UNCHANGED <<workloads, instances, replies>>

SetIdentityAttributes ==
  /\ identity' = [identity EXCEPT !.subject = identity.id]
  /\ UNCHANGED <<sequence, agent, workloads, instances, replies>>

AddWorkload ==
  /\ sequence' = sequence + 1
  /\ workloads' = workloads \cup {sequence + 1}
  /\ UNCHANGED <<agent, identity, instances, replies>>

SuspendAgent ==
  /\ agent' = [agent EXCEPT !.state = "suspended", !.epoch = @ + 1]
  /\ UNCHANGED <<sequence, identity, workloads, instances, replies>>

RevokeAgent ==
  /\ agent' = [agent EXCEPT !.state = "retired", !.epoch = @ + 1]
  /\ identity' = [identity EXCEPT !.state = "revoked", !.epoch = @ + 1]
  /\ UNCHANGED <<sequence, workloads, instances, replies>>

SuspendIdentity ==
  /\ identity' = [identity EXCEPT !.state = "suspended", !.epoch = @ + 1]
  /\ UNCHANGED <<sequence, agent, workloads, instances, replies>>

TerminateInstance(i) ==
  /\ instances' = [instances EXCEPT ![i].state = "terminated",
                                    ![i].generation = @ + 1]
  /\ UNCHANGED <<sequence, agent, identity, workloads, replies>>

LeaseInstance(i) ==
  /\ instances[i].state = "active"
  /\ instances' = [instances EXCEPT ![i].lease = instances'[i].lease]
  /\ UNCHANGED <<sequence, agent, identity, workloads, replies>>

(* A commit is for the current agent and a registered workload; its reply  *)
(* is the instance as it was made.                                         *)
CommitInstance(new) ==
  /\ sequence' = sequence + 1
  /\ new \in Instance
  /\ new.id = sequence + 1 /\ new.agentID = identity.id
  /\ new.registrationID \in workloads
  /\ new.state = "active" /\ new.generation = 1
  /\ instances' = [i \in DOMAIN instances \cup {new.id} |->
                     IF i = new.id THEN new ELSE instances[i]]
  /\ replies' = replies \cup {[kind |-> "created", instance |-> new]}
  /\ UNCHANGED <<agent, identity, workloads>>

-----------------------------------------------------------------------------
(* The replies a reader may get now.  The namespace list is read without   *)
(* the mutex and promises nothing.  A context is of the current agent, and *)
(* an instance in it is shown with its own registration; that it is an     *)
(* instance of this agent is not promised.  A refusal is true: what was    *)
(* named does not exist, or not for the current agent.                     *)
Faithful(r) ==
  CASE r.kind = "agents"     -> r.agent = agent
    [] r.kind = "identities" -> r.identity = identity
    [] r.kind = "workloads"  -> IsInjective(r.order) /\ Range(r.order) = workloads
    [] r.kind = "instances"  ->
         \A v \in r.items :
           r.items = {w \in Range(instances) : w.agentID = v.agentID}
    [] r.kind = "context"    ->
         /\ r.agent = agent /\ r.identity = identity
         /\ r.registrationID \in workloads \cup {0}
         /\ \/ r.instance = NoInstance
            \/ /\ r.instance \in Range(instances)
               /\ r.instance.registrationID = r.registrationID
    [] r.kind = "created"    -> FALSE
    [] r.kind = "refused"    ->
         CASE r.why = "unknown agent" -> r.req.agentID # identity.id
           [] r.why = "unknown instance" ->
                /\ r.req.agentID = identity.id
                /\ r.req.instanceID \notin DOMAIN instances
           [] r.why = "unknown workload registration" ->
                /\ r.req.agentID = identity.id
                /\ r.req.registrationID \notin workloads
                /\ r.req.op = "context" => r.req.instanceID = 0
           [] OTHER -> r.req.op = "malformed"
    [] OTHER                 -> TRUE

Read ==
  /\ \A r \in replies' \ replies : Faithful(r)
  /\ replies \subseteq replies'
  /\ UNCHANGED <<sequence, agent, identity, workloads, instances>>

Next ==
  \/ SeedAgent \/ SetIdentityAttributes \/ AddWorkload
  \/ SuspendAgent \/ RevokeAgent \/ SuspendIdentity
  \/ \E i \in DOMAIN instances : TerminateInstance(i) \/ LeaseInstance(i)
  \/ \E r \in replies' : r.kind = "created" /\ CommitInstance(r.instance)
  \/ Read

Spec == Init /\ [][Next]_vars

=============================================================================

------------------------------ MODULE Scenario ------------------------------
(***************************************************************************)
(* What the fixtures' steps do: conformance/runner/executor.go with the    *)
(* registry it writes to and the daemon it talks to.                       *)
(*                                                                         *)
(* One executor runs fixture after fixture.  Each begins with a new        *)
(* scenario state and a newly seeded Agent, but the registry and the       *)
(* daemon are those of the fixtures before it, with their workloads,       *)
(* instances, tokens and trusts.  A fixture is any sequence of steps;      *)
(* whether a step meets its expectation only decides whether the fixture   *)
(* goes on, and the next one may begin at any time.                        *)
(*                                                                         *)
(* The registry is AtomicRegistry, which FakeRegistry implements.  The     *)
(* daemon is external: it may refuse anything, it may do what it was asked *)
(* and its answer be lost, and it grants only what the contracts allow.    *)
(* It knows an Agent's life only by the epochs, as its tokens do.          *)
(*                                                                         *)
(* Steps that only read change nothing and are predicates: what the step   *)
(* accepts, given what the daemon shows of the registry and of its own     *)
(* enrollments.                                                            *)
(***************************************************************************)
EXTENDS RegistryData

CONSTANTS
    Audience,          \* the audiences tokens are made for
    PeerIssuer,        \* the issuers of peer tokens
    NoIssuer,          \* the issuer of a local token
    MaxSequence,       \* bounds the registry's sequence counter
    MaxAgentEpoch,     \* bounds the Agent's epoch
    MaxIdentityEpoch,  \* bounds the Agent Identity's epoch
    MaxGeneration      \* bounds an instance's generation

ASSUME ScenarioAssumption ==
    /\ NoIssuer \notin PeerIssuer
    /\ "" \notin Audience
    /\ MaxSequence \in Nat
    /\ MaxAgentEpoch \in Nat /\ MaxIdentityEpoch \in Nat
    /\ MaxGeneration \in Nat

VARIABLES
    sequence, agent, identity, workloads, instances, replies,  \* the registry
    challenges,  \* the daemon: open enrollment challenges, by their registration
    tokens,      \* the daemon: every registry-bound token it has issued
    trusts,      \* the daemon: federation trusts
    dead,        \* history: tokens whose agent or instance was stopped since
    s,           \* the executor: scenarioState
    waiting      \* the executor waits for the answer to a completion that was committed

registryVars == <<sequence, agent, identity, workloads, instances, replies>>
daemonVars == <<challenges, tokens, trusts>>
vars == <<registryVars, daemonVars, dead, s, waiting>>

Registry == INSTANCE AtomicRegistry

-----------------------------------------------------------------------------
(* Records.                                                                *)

\* A token is bound to the main key of the scenario that asked for it, which the
\* agent's number stands for: every scenario makes its keys and its agent.
NoToken == [kind |-> "none", agent |-> 0, instance |-> 0, agentEpoch |-> 0, identityEpoch |-> 0,
            aud |-> "", key |-> 0, issuer |-> NoIssuer, expired |-> FALSE]

LocalToken(agentID, instanceID, aud) ==
    [kind |-> "local", agent |-> agentID, instance |-> instanceID,
     agentEpoch |-> agent.epoch, identityEpoch |-> identity.epoch,
     aud |-> aud, key |-> agentID, issuer |-> NoIssuer, expired |-> FALSE]

PeerToken(issuer, aud, expired) ==
    [NoToken EXCEPT !.kind = "peer", !.aud = aud, !.key = s.agentID, !.issuer = issuer, !.expired = expired]

BrokeredToken(aud) ==
    [NoToken EXCEPT !.kind = "brokered", !.aud = aud, !.key = s.agentID, !.issuer = s.issuedToken.issuer]

NoTrust == [status |-> "none", audiences |-> {}, mapped |-> FALSE]

NoScenario == [agentID |-> 0, regID |-> 0, challengeID |-> 0, instanceID |-> 0, issuedToken |-> NoToken]

Init ==
    /\ Registry!Init
    /\ challenges = {}
    /\ tokens = {}
    /\ trusts = [i \in PeerIssuer |-> NoTrust]
    /\ dead = {}
    /\ s = NoScenario
    /\ waiting = FALSE

-----------------------------------------------------------------------------
(* What the daemon allows.                                                 *)

\* The Registry Context of a token's agent and instance says what the token says.
LocalActive(t) ==
    /\ t.agent = identity.id
    /\ t.agentEpoch = agent.epoch
    /\ t.identityEpoch = identity.epoch
    /\ instances[t.instance].state = "active"

\* The trust in a peer covers a token for an audience.
Trusted(t, aud) ==
    /\ trusts[t.issuer].status = "active"
    /\ aud \in trusts[t.issuer].audiences

Active(t, aud, key) ==
    /\ t.aud = aud
    /\ t.key = key
    /\ \/ t.kind = "local" /\ LocalActive(t)
       \/ t.kind = "peer" /\ Trusted(t, aud) /\ trusts[t.issuer].mapped /\ ~t.expired
       \/ t.kind = "brokered" /\ trusts[t.issuer].status = "active"

\* Issuance needs an active Agent, an active Agent Identity and an active instance.
Eligible ==
    /\ agent.state = "active"
    /\ identity.state = "active"
    /\ instances[s.instanceID].state = "active"

-----------------------------------------------------------------------------
(* Steps that change the registry.                                         *)

Running == s.agentID # 0

Bury(stopped) == dead' = dead \cup stopped

CanCount == sequence < MaxSequence

(* Faulty variants: what the code would be with one plausible error.  No   *)
(* specification uses them.                                                *)

\* The scenario state lives in the Executor and is not made anew.
BeginKeepingState ==
    /\ CanCount
    /\ Registry!SeedAgent
    /\ s' = [s EXCEPT !.agentID = identity'.id]
    /\ Bury(tokens)
    /\ UNCHANGED <<daemonVars, waiting>>

\* The suspension leaves the epoch.
SuspendSameEpoch ==
    /\ Running
    /\ agent' = [agent EXCEPT !.state = "suspended"]
    /\ Bury({t \in tokens : t.agent = s.agentID})
    /\ UNCHANGED <<sequence, identity, workloads, instances, replies, daemonVars, s, waiting>>

\* The instance is announced before the registry has it.
CompleteEnrollmentUncommitted ==
    /\ CanCount
    /\ s.challengeID \in challenges
    /\ s' = [s EXCEPT !.instanceID = sequence + 1]
    /\ UNCHANGED <<registryVars, daemonVars, dead, waiting>>

Begin ==
    /\ CanCount
    /\ Registry!SeedAgent
    /\ s' = [NoScenario EXCEPT !.agentID = identity'.id]
    /\ Bury(tokens)
    /\ UNCHANGED <<daemonVars, waiting>>

Suspend ==
    /\ Running
    /\ agent.epoch < MaxAgentEpoch
    /\ Registry!SuspendAgent
    /\ Bury({t \in tokens : t.agent = s.agentID})
    /\ UNCHANGED <<daemonVars, s, waiting>>

Revoke ==
    /\ Running
    /\ agent.epoch < MaxAgentEpoch /\ identity.epoch < MaxIdentityEpoch
    /\ Registry!RevokeAgent
    /\ Bury({t \in tokens : t.agent = s.agentID})
    /\ UNCHANGED <<daemonVars, s, waiting>>

SuspendIdentity ==
    /\ Running
    /\ identity.epoch < MaxIdentityEpoch
    /\ Registry!SuspendIdentity
    /\ Bury({t \in tokens : t.agent = s.agentID})
    /\ UNCHANGED <<daemonVars, s, waiting>>

\* Without an enrolled instance the registry finds nothing to terminate.
InstanceTerminate ==
    /\ s.instanceID # 0
    /\ instances[s.instanceID].generation < MaxGeneration
    /\ Registry!TerminateInstance(s.instanceID)
    /\ Bury({t \in tokens : t.instance = s.instanceID})
    /\ UNCHANGED <<daemonVars, s, waiting>>

InstanceLease ==
    /\ s.instanceID # 0
    /\ instances' = [instances EXCEPT ![s.instanceID].lease = 1]
    /\ Registry!LeaseInstance(s.instanceID)
    /\ UNCHANGED <<daemonVars, dead, s, waiting>>

-----------------------------------------------------------------------------
(* Enrollment.                                                             *)

\* regID is set before the daemon is asked; challengeID only when it answers, so
\* the two may be of different registrations.
RegisterWorkload ==
    /\ Running
    /\ CanCount
    /\ Registry!AddWorkload
    /\ \/ /\ challenges' = challenges \cup {sequence'}
          /\ \/ s' = [s EXCEPT !.regID = sequence', !.challengeID = sequence']
             \/ s' = [s EXCEPT !.regID = sequence']
       \/ /\ s' = [s EXCEPT !.regID = sequence']
          /\ UNCHANGED challenges
    /\ UNCHANGED <<tokens, trusts, dead, waiting>>

Enrolled(agentID, registrationID) ==
    [id |-> sequence + 1, agentID |-> agentID, registrationID |-> registrationID,
     attestationRef |-> 0, lease |-> 0, state |-> "active", generation |-> 1]

\* The challenge is spent and an instance committed.  The executor learns of it, or
\* its step fails, or it still waits, as when the registry's answer to the daemon
\* was lost.
CompleteEnrollment ==
    /\ CanCount
    /\ s.regID # 0
    /\ s.challengeID \in challenges
    /\ Registry!CommitInstance(Enrolled(s.agentID, s.challengeID))
    /\ challenges' = challenges \ {s.challengeID}
    /\ \/ s' = [s EXCEPT !.instanceID = sequence'] /\ UNCHANGED waiting
       \/ UNCHANGED s /\ waiting' \in BOOLEAN
    /\ UNCHANGED <<tokens, trusts, dead>>

\* A commit that is repeated makes another instance: the registry does not know that
\* it made one.  The repetition may bring the answer the executor waits for, or come
\* when nobody waits any more; once the next fixture has seeded its Agent, it is
\* refused.
CommitAgain ==
    /\ CanCount
    /\ \E i \in DOMAIN instances :
          /\ Registry!CommitInstance(Enrolled(instances[i].agentID, instances[i].registrationID))
          /\ \/ /\ waiting /\ instances[i].registrationID = s.challengeID
                /\ s' = [s EXCEPT !.instanceID = sequence']
                /\ waiting' = FALSE
             \/ UNCHANGED <<s, waiting>>
    /\ UNCHANGED <<daemonVars, dead>>

\* The client's timeout.
GiveUp ==
    /\ waiting
    /\ waiting' = FALSE
    /\ UNCHANGED <<registryVars, daemonVars, dead, s>>

-----------------------------------------------------------------------------
(* Tokens.  A step that fails leaves the token of an earlier step.         *)

\* The answer that brings the token may be lost.
ObtainToken(t) ==
    /\ tokens' = tokens \cup {t}
    /\ \/ s' = [s EXCEPT !.issuedToken = t]
       \/ UNCHANGED s
    /\ UNCHANGED <<registryVars, challenges, trusts, dead, waiting>>

IssueToken ==
    /\ s.instanceID # 0
    /\ Eligible
    /\ \E aud \in Audience : ObtainToken(LocalToken(s.agentID, s.instanceID, aud))

\* An active token is exchanged for one that binds the same instance and key and,
\* as an audience is never widened, has the same audience.
Exchange ==
    /\ s.issuedToken.kind = "local"
    /\ Active(s.issuedToken, s.issuedToken.aud, s.agentID)
    /\ ObtainToken(LocalToken(s.issuedToken.agent, s.issuedToken.instance, s.issuedToken.aud))

IssuePeerToken ==
    /\ Running
    /\ \E issuer \in PeerIssuer, aud \in Audience, expired \in BOOLEAN :
          s' = [s EXCEPT !.issuedToken = PeerToken(issuer, aud, expired)]
    /\ UNCHANGED <<registryVars, daemonVars, dead, waiting>>

BrokerIssue ==
    /\ s.issuedToken.kind = "peer"
    /\ \E aud \in Audience :
          /\ Active(s.issuedToken, aud, s.agentID)
          /\ s' = [s EXCEPT !.issuedToken = BrokeredToken(aud)]
    /\ UNCHANGED <<registryVars, daemonVars, dead, waiting>>

-----------------------------------------------------------------------------
(* Federation trusts: create or replace, and disable; there is no delete.  *)

RegisterFederationTrust ==
    /\ Running
    /\ \E issuer \in PeerIssuer, status \in {"active", "disabled"},
          audiences \in SUBSET Audience, mapped \in BOOLEAN :
          trusts' = [trusts EXCEPT ![issuer] =
                       [status |-> status, audiences |-> audiences, mapped |-> mapped]]
    /\ UNCHANGED <<registryVars, challenges, tokens, dead, s, waiting>>

DisableFederationTrust ==
    /\ Running
    /\ \E issuer \in PeerIssuer :
          /\ trusts[issuer].status # "none"
          /\ trusts' = [trusts EXCEPT ![issuer].status = "disabled"]
    /\ UNCHANGED <<registryVars, challenges, tokens, dead, s, waiting>>

-----------------------------------------------------------------------------
(* Steps that only read.  The daemon shows the registry's Agent and the    *)
(* registry's instances.  Evidence events and outbox rows it keeps itself, *)
(* one for each enrollment it knows to be complete, in their order.        *)

OwnRows == {i \in DOMAIN instances : instances[i].agentID = s.agentID}

First(rows) == CHOOSE i \in rows : \A j \in rows : i <= j

\* Faulty variant: the first row is taken for the scenario's.
OutboxEventsOfAny(rows, published) ==
    /\ rows # {}
    /\ First(rows) \in OwnRows
    /\ First(rows) \notin published

ListAgents == s.agentID = identity.id /\ agent.epoch >= 1

AgentDetail == s.agentID = identity.id /\ agent.epoch >= 1 /\ identity.epoch >= 1

\* evidence_events and evidence_since take an enrollment of any Agent.
EvidenceEvents(rows) == rows # {}

InstancesLeaseProjection == s.instanceID \in OwnRows /\ Eligible

\* The first row of the scenario's Agent decides.
OutboxEventsList(rows, published) ==
    /\ rows \cap OwnRows # {}
    /\ First(rows \cap OwnRows) \notin published

-----------------------------------------------------------------------------

Lifecycle == Suspend \/ Revoke \/ SuspendIdentity \/ InstanceTerminate \/ InstanceLease

ExecStep ==
    \/ RegisterWorkload \/ CompleteEnrollment
    \/ Lifecycle
    \/ IssueToken \/ Exchange \/ IssuePeerToken \/ BrokerIssue
    \/ RegisterFederationTrust \/ DisableFederationTrust

\* The executor does nothing while it waits.
Next ==
    \/ ~waiting /\ (Begin \/ ExecStep)
    \/ CommitAgain
    \/ GiveUp

Spec == Init /\ [][Next]_vars

-----------------------------------------------------------------------------
(* Properties.                                                             *)

Token == [kind : {"none", "local", "peer", "brokered"}, agent : Nat, instance : Nat,
          agentEpoch : Nat, identityEpoch : Nat, aud : Audience \cup {""}, key : Nat,
          issuer : PeerIssuer \cup {NoIssuer}, expired : BOOLEAN]

Trust == [status : {"none", "active", "disabled"}, audiences : SUBSET Audience, mapped : BOOLEAN]

\* Every variable has its type, and names point to what exists: the scenario's
\* instance and those of the tokens are in the registry, the challenges are for
\* registered workloads.
TypeOK ==
    /\ sequence \in Nat /\ agent \in Agent /\ identity \in Identity
    /\ workloads \subseteq Nat
    /\ DOMAIN instances \subseteq Nat /\ \A i \in DOMAIN instances : instances[i] \in Instance
    /\ challenges \subseteq workloads
    /\ tokens \subseteq Token /\ \A t \in tokens : t.kind = "local" /\ t.instance \in DOMAIN instances
    /\ dead \subseteq tokens
    /\ trusts \in [PeerIssuer -> Trust]
    /\ s \in [agentID : Nat, regID : Nat, challengeID : Nat, instanceID : {0} \cup DOMAIN instances, issuedToken : Token]
    /\ waiting \in BOOLEAN

\* A lifecycle change is final for the tokens of before.  Once the Agent or its
\* identity was suspended or revoked, its instance terminated or the next Agent
\* seeded, no token issued before is ever active again: not in a later fixture, not
\* after further lifecycle changes, for no audience and no key.
StoppedNeverActive ==
    \A t \in dead : ~LocalActive(t)

\* What a scenario has in hand is its own: its challenge and its instance were made
\* after its Agent was seeded, for that Agent; its token is bound to its own key and,
\* when it is local, speaks for that Agent.
ScenarioOwnsItsState ==
    Running =>
        /\ s.agentID = identity.id
        /\ s.challengeID # 0 => s.challengeID > s.agentID
        /\ s.instanceID # 0 =>
              /\ instances[s.instanceID].agentID = s.agentID
              /\ instances[s.instanceID].registrationID > s.agentID
        /\ s.issuedToken.kind = "local" => s.issuedToken.agent = s.agentID
        /\ s.issuedToken.kind # "none" => s.issuedToken.key = s.agentID

\* The read steps "expose the scenario" (conformance/README.md:136-138), whatever
\* fixtures ran before it, however often it enrolled and however often a commit was
\* repeated: the steps that only read accept what the daemon shows of its Agent, and,
\* once it learned its instance, of its enrollment; the outbox as long as no row of
\* its Agent was published.  The daemon need not know of every instance, but knows
\* of the one it announced.
ReadsShowScenario ==
    Running =>
        /\ ListAgents /\ AgentDetail
        /\ s.instanceID # 0 =>
              /\ Eligible => InstancesLeaseProjection
              /\ \A rows \in SUBSET DOMAIN instances : s.instanceID \in rows =>
                    /\ EvidenceEvents(rows)
                    /\ \A published \in SUBSET (rows \ OwnRows) : OutboxEventsList(rows, published)
=============================================================================

--------------------------- MODULE ScenarioProofs ---------------------------
(***************************************************************************)
(* Proofs about Scenario, for any audiences, peers and bounds: a lifecycle *)
(* change is final for every token issued before it (StoppedNeverActive),  *)
(* what a scenario has in hand is its own (ScenarioOwnsItsState), the      *)
(* steps that only read show it (ReadsShowScenario), and TypeOK.           *)
(*                                                                         *)
(* The registry's counters do the work.  Agents are numbered by a sequence *)
(* that only grows, epochs only grow while the Agent is the same, and a    *)
(* terminated instance stays terminated.  A token that was stopped is      *)
(* behind one of the three, and stays behind.                              *)
(***************************************************************************)
EXTENDS Scenario, TLAPS

\* The registry's own types and numbering.
StoreInv ==
    /\ sequence \in Nat /\ agent \in Agent /\ identity \in Identity
    /\ identity.id <= sequence
    /\ DOMAIN instances \subseteq 1 .. sequence
    /\ \A i \in DOMAIN instances : instances[i] \in Instance

\* The scenario in hand is of the current Agent.
HandInv ==
    /\ DOMAIN s = {"agentID", "regID", "challengeID", "instanceID", "issuedToken"}
    /\ s.agentID # 0 => s.agentID = identity.id
    /\ s.regID # 0 => s.agentID # 0
    /\ waiting => s.regID # 0
    /\ s.instanceID # 0 => s.instanceID \in DOMAIN instances /\ s.agentID # 0
    /\ s.issuedToken.kind = "local" => s.issuedToken.instance \in DOMAIN instances

\* No token is ahead of the registry.
Covered(t) ==
    /\ t.agent \in Nat /\ t.agentEpoch \in Nat /\ t.identityEpoch \in Nat
    /\ t.agent <= identity.id
    /\ t.agent = identity.id => t.agentEpoch <= agent.epoch /\ t.identityEpoch <= identity.epoch
    /\ t.instance \in DOMAIN instances

TokenInv == \A t \in tokens : Covered(t)

Behind(t) ==
    \/ t.agent < identity.id
    \/ t.agentEpoch < agent.epoch
    \/ t.identityEpoch < identity.epoch
    \/ instances[t.instance].state = "terminated"

DeadInv == dead \subseteq tokens /\ \A t \in dead : Behind(t)

LifeInv == StoreInv /\ HandInv /\ TokenInv /\ DeadInv

-----------------------------------------------------------------------------
(* The registry's records.                                                 *)

LEMMA AgentRecords ==
    /\ NoAgent \in Agent
    /\ \A n \in Nat : [ref |-> n, state |-> "active", epoch |-> 1] \in Agent
    /\ \A a \in Agent : a.epoch \in Nat
    /\ \A a \in Agent, x \in AgentState, e \in Nat :
         [a EXCEPT !.state = x, !.epoch = e] \in Agent /\ [a EXCEPT !.state = x, !.epoch = e].epoch = e
BY DEF Agent, AgentState, NoAgent

LEMMA IdentityRecords ==
    /\ NoIdentity \in Identity
    /\ \A n \in Nat : [id |-> n, state |-> "active", epoch |-> 1, subject |-> 0, root |-> n] \in Identity
    /\ \A v \in Identity : v.id \in Nat /\ v.epoch \in Nat
    /\ \A v \in Identity, x \in IdentityState, e \in Nat :
         LET w == [v EXCEPT !.state = x, !.epoch = e] IN w \in Identity /\ w.epoch = e /\ w.id = v.id
BY DEF Identity, IdentityState, NoIdentity

LEMMA InstanceRecords ==
    \A v \in Instance :
        /\ v.generation \in Nat
        /\ \A g \in Nat : LET w == [v EXCEPT !.state = "terminated", !.generation = g]
                          IN  w \in Instance /\ w.state = "terminated"
        /\ \A l \in Nat : LET w == [v EXCEPT !.lease = l] IN w \in Instance /\ w.state = v.state
BY DEF Instance, InstanceState

LEMMA Successor == \A n \in Nat : n + 1 \in Nat /\ n < n + 1
OBVIOUS

-----------------------------------------------------------------------------
(* What a step does to the Agent and to the instances.                     *)

\* The same Agent, later in its life.
LaterLife ==
    /\ agent' \in Agent /\ identity' \in Identity
    /\ identity'.id = identity.id
    /\ agent'.epoch >= agent.epoch /\ identity'.epoch >= identity.epoch

\* Another Agent, with the next number.
NextLife ==
    /\ agent' \in Agent /\ identity' \in Identity
    /\ sequence' = sequence + 1 /\ identity'.id = sequence'
    /\ agent'.epoch = 1 /\ identity'.epoch = 1

\* Instances are added, leased and terminated, never taken away or brought back.
StoreGrows ==
    /\ DOMAIN instances' \subseteq 1 .. sequence'
    /\ \A i \in DOMAIN instances' : instances'[i] \in Instance
    /\ \A i \in DOMAIN instances :
          /\ i \in DOMAIN instances'
          /\ instances[i].state = "terminated" => instances'[i].state = "terminated"

\* What every step keeps, whatever else it does.
GoesOn == sequence' \in Nat /\ sequence <= sequence' /\ (LaterLife \/ NextLife) /\ StoreGrows

LEMMA BeginLife == ASSUME StoreInv, Registry!SeedAgent PROVE NextLife
<1>1. sequence + 1 \in Nat
  BY Successor DEF StoreInv
<1>2. agent' \in Agent
  BY <1>1, AgentRecords, Zenon DEF Registry!SeedAgent
<1>3. identity' \in Identity
  BY <1>1, IdentityRecords, Zenon DEF Registry!SeedAgent
<1>. QED BY <1>2, <1>3 DEF NextLife, Registry!SeedAgent

LEMMA SuspendLife ==
    ASSUME StoreInv, Registry!SuspendAgent
    PROVE  LaterLife /\ agent.epoch < agent'.epoch
<1>1. agent.epoch \in Nat /\ identity.epoch \in Nat
  BY AgentRecords, IdentityRecords DEF StoreInv
<1>2. agent' \in Agent /\ agent'.epoch = agent.epoch + 1
  BY <1>1, AgentRecords, Successor DEF StoreInv, Registry!SuspendAgent, AgentState
<1>3. identity' = identity /\ identity \in Identity
  BY DEF StoreInv, Registry!SuspendAgent
<1>. QED BY <1>1, <1>2, <1>3 DEF LaterLife

LEMMA SuspendIdentityLife ==
    ASSUME StoreInv, Registry!SuspendIdentity
    PROVE  LaterLife /\ identity.epoch < identity'.epoch
<1>1. agent.epoch \in Nat /\ identity.epoch \in Nat
  BY AgentRecords, IdentityRecords DEF StoreInv
<1>2. identity' \in Identity /\ identity'.epoch = identity.epoch + 1 /\ identity'.id = identity.id
  BY <1>1, IdentityRecords, Successor DEF StoreInv, Registry!SuspendIdentity, IdentityState
<1>3. agent' = agent /\ agent \in Agent
  BY DEF StoreInv, Registry!SuspendIdentity
<1>. QED BY <1>1, <1>2, <1>3 DEF LaterLife

LEMMA RevokeLife ==
    ASSUME StoreInv, Registry!RevokeAgent
    PROVE  LaterLife /\ agent.epoch < agent'.epoch
<1>1. agent.epoch \in Nat /\ identity.epoch \in Nat
  BY AgentRecords, IdentityRecords DEF StoreInv
<1>2. agent' \in Agent /\ agent'.epoch = agent.epoch + 1
  BY <1>1, AgentRecords, Successor DEF StoreInv, Registry!RevokeAgent, AgentState
<1>3. identity' \in Identity /\ identity'.epoch = identity.epoch + 1 /\ identity'.id = identity.id
  BY <1>1, IdentityRecords, Successor DEF StoreInv, Registry!RevokeAgent, IdentityState
<1>. QED BY <1>1, <1>2, <1>3 DEF LaterLife

LEMMA SameLife == ASSUME StoreInv, UNCHANGED <<agent, identity>> PROVE LaterLife
<1>1. agent.epoch \in Nat /\ identity.epoch \in Nat
  BY AgentRecords, IdentityRecords DEF StoreInv
<1>. QED BY <1>1 DEF StoreInv, LaterLife

LEMMA SameStore == ASSUME StoreInv, UNCHANGED <<sequence, instances>> PROVE StoreGrows
BY DEF StoreInv, StoreGrows

LEMMA CountStore ==
    ASSUME StoreInv, sequence' = sequence + 1, UNCHANGED instances
    PROVE  StoreGrows
BY DEF StoreInv, StoreGrows

LEMMA TerminateStore ==
    ASSUME StoreInv, NEW i \in DOMAIN instances, Registry!TerminateInstance(i)
    PROVE  StoreGrows /\ instances'[i].state = "terminated"
<1> DEFINE w == [[instances[i] EXCEPT !.state = "terminated"] EXCEPT !.generation = instances[i].generation + 1]
<1>1. instances[i] \in Instance /\ instances[i].generation \in Nat
  BY InstanceRecords DEF StoreInv
<1>2. w \in Instance /\ w.state = "terminated"
  BY <1>1, InstanceRecords, Successor
<1>3. DOMAIN instances' = DOMAIN instances /\ instances'[i] = w /\ \A j \in DOMAIN instances : j # i => instances'[j] = instances[j]
  BY <1>1 DEF Registry!TerminateInstance
<1>. HIDE DEF w
<1>. QED BY <1>2, <1>3 DEF StoreInv, StoreGrows, Registry!TerminateInstance

LEMMA LeaseStore ==
    ASSUME StoreInv, HandInv, InstanceLease
    PROVE  StoreGrows /\ UNCHANGED <<sequence, agent, identity>>
<1> DEFINE i == s.instanceID
           w == [instances[i] EXCEPT !.lease = 1]
<1>1. i \in DOMAIN instances
  BY DEF InstanceLease, HandInv
<1>2. w \in Instance /\ w.state = instances[i].state
  BY <1>1, InstanceRecords DEF StoreInv
<1>3. instances' = [instances EXCEPT ![i] = w] /\ UNCHANGED <<sequence, agent, identity>>
  BY DEF InstanceLease, Registry!LeaseInstance
<1>. HIDE DEF i, w
<1>4. DOMAIN instances' = DOMAIN instances /\ instances'[i] = w /\ \A j \in DOMAIN instances : j # i => instances'[j] = instances[j]
  BY <1>1, <1>3
<1>. QED BY <1>1, <1>2, <1>3, <1>4 DEF StoreInv, StoreGrows

LEMMA CommitStore ==
    ASSUME StoreInv, NEW new, Registry!CommitInstance(new)
    PROVE  StoreGrows
<1> DEFINE n == new.id
<1>0. Registry!Instance = Instance
  BY DEF Registry!Instance, Registry!InstanceState, Instance, InstanceState
<1>1. sequence' = sequence + 1 /\ new \in Instance /\ n = sequence + 1
  BY <1>0, Zenon DEF Registry!CommitInstance
<1>2. instances' = [j \in DOMAIN instances \cup {n} |-> IF j = n THEN new ELSE instances[j]]
  BY DEF Registry!CommitInstance
<1>. HIDE DEF n
<1>3. /\ DOMAIN instances' = DOMAIN instances \cup {n}
      /\ instances'[n] = new
      /\ \A j \in DOMAIN instances : j # n => instances'[j] = instances[j]
  BY <1>2
<1>4. n \notin DOMAIN instances
  BY <1>1 DEF StoreInv
<1>. QED BY <1>1, <1>3, <1>4 DEF StoreInv, StoreGrows

-----------------------------------------------------------------------------
(* Every step of the scenario lets the registry go on.                     *)

LEMMA StepGoesOn == ASSUME StoreInv, HandInv, Next PROVE GoesOn
<1>1. sequence \in Nat /\ sequence + 1 \in Nat /\ sequence <= sequence + 1
  BY Successor DEF StoreInv
<1>2. CASE Begin
  <2>1. Registry!SeedAgent /\ sequence' = sequence + 1 /\ UNCHANGED instances
    BY <1>2 DEF Begin, Registry!SeedAgent
  <2>. QED BY <1>1, <2>1, BeginLife, CountStore DEF GoesOn
<1>3. CASE Suspend
  <2>1. Registry!SuspendAgent /\ UNCHANGED <<sequence, instances>>
    BY <1>3 DEF Suspend, Registry!SuspendAgent
  <2>. QED BY <1>1, <2>1, SuspendLife, SameStore DEF GoesOn
<1>4. CASE Revoke
  <2>1. Registry!RevokeAgent /\ UNCHANGED <<sequence, instances>>
    BY <1>4 DEF Revoke, Registry!RevokeAgent
  <2>. QED BY <1>1, <2>1, RevokeLife, SameStore DEF GoesOn
<1>5. CASE SuspendIdentity
  <2>1. Registry!SuspendIdentity /\ UNCHANGED <<sequence, instances>>
    BY <1>5 DEF SuspendIdentity, Registry!SuspendIdentity
  <2>. QED BY <1>1, <2>1, SuspendIdentityLife, SameStore DEF GoesOn
<1>6. CASE InstanceTerminate
  <2>1. s.instanceID \in DOMAIN instances
    BY <1>6 DEF InstanceTerminate, HandInv
  <2>2. Registry!TerminateInstance(s.instanceID) /\ UNCHANGED <<sequence, agent, identity>>
    BY <1>6 DEF InstanceTerminate, Registry!TerminateInstance
  <2>. QED BY <1>1, <2>1, <2>2, SameLife, TerminateStore DEF GoesOn
<1>7. CASE InstanceLease
  BY <1>1, <1>7, LeaseStore, SameLife DEF GoesOn
<1>8. CASE RegisterWorkload
  <2>1. sequence' = sequence + 1 /\ UNCHANGED <<agent, identity, instances>>
    BY <1>8 DEF RegisterWorkload, Registry!AddWorkload
  <2>. QED BY <1>1, <2>1, SameLife, CountStore DEF GoesOn
<1>9. CASE CompleteEnrollment \/ CommitAgain
  <2>1. PICK new : Registry!CommitInstance(new)
    BY <1>9 DEF CompleteEnrollment, CommitAgain
  <2>2. sequence' = sequence + 1 /\ UNCHANGED <<agent, identity>>
    BY <2>1 DEF Registry!CommitInstance
  <2>. QED BY <1>1, <2>1, <2>2, SameLife, CommitStore DEF GoesOn
<1>10. ASSUME UNCHANGED registryVars PROVE GoesOn
  <2>1. UNCHANGED <<sequence, agent, identity, instances>>
    BY <1>10 DEF registryVars
  <2>. QED BY <1>1, <2>1, SameLife, SameStore DEF GoesOn
<1>11. CASE IssueToken \/ Exchange \/ IssuePeerToken \/ BrokerIssue
  BY <1>10, <1>11 DEF IssueToken, Exchange, ObtainToken, IssuePeerToken, BrokerIssue
<1>12. CASE RegisterFederationTrust \/ DisableFederationTrust
  BY <1>10, <1>12 DEF RegisterFederationTrust, DisableFederationTrust
<1>13. CASE GiveUp
  BY <1>10, <1>13 DEF GiveUp
<1>. QED BY <1>2, <1>3, <1>4, <1>5, <1>6, <1>7, <1>8, <1>9, <1>11, <1>12, <1>13 DEF Next, ExecStep, Lifecycle

LEMMA StoreKept == ASSUME StoreInv, GoesOn PROVE StoreInv'
<1>1. sequence \in Nat /\ identity.id <= sequence /\ identity.id \in Nat
  BY IdentityRecords DEF StoreInv
<1>2. CASE LaterLife
  BY <1>1, <1>2 DEF GoesOn, StoreGrows, LaterLife, StoreInv
<1>3. CASE NextLife
  BY <1>1, <1>3 DEF GoesOn, StoreGrows, NextLife, StoreInv
<1>. QED BY <1>2, <1>3 DEF GoesOn

-----------------------------------------------------------------------------
(* The scenario's hand.                                                    *)

LEMMA HandUnchanged ==
    ASSUME StoreInv, HandInv, GoesOn, UNCHANGED s, waiting' => waiting, identity'.id = identity.id
    PROVE  HandInv'
BY DEF HandInv, GoesOn, StoreGrows

LEMMA HandKept == ASSUME StoreInv, HandInv, Next, GoesOn PROVE HandInv'
<1>1. CASE ~waiting /\ Begin
  BY <1>1 DEF Begin, NoScenario, NoToken, HandInv
<1>2. CASE Lifecycle
  <2>1. UNCHANGED <<s, waiting>>
    BY <1>2 DEF Lifecycle, Suspend, Revoke, SuspendIdentity, InstanceTerminate, InstanceLease
  <2>2. identity'.id = identity.id
    BY <1>2, SuspendLife, RevokeLife, SuspendIdentityLife
    DEF Lifecycle, Suspend, Revoke, SuspendIdentity, InstanceTerminate, InstanceLease,
        LaterLife, Registry!TerminateInstance, Registry!LeaseInstance
  <2>. QED BY <2>1, <2>2, HandUnchanged
<1>3. CASE RegisterWorkload
  <2>1. UNCHANGED <<identity, instances, waiting>> /\ Running
    BY <1>3 DEF RegisterWorkload, Registry!AddWorkload
  <2>2. \/ s' = [s EXCEPT !.regID = sequence', !.challengeID = sequence']
        \/ s' = [s EXCEPT !.regID = sequence']
    BY <1>3 DEF RegisterWorkload
  <2>3. sequence' # 0
    BY <1>3 DEF RegisterWorkload, Registry!AddWorkload, StoreInv
  <2>. QED BY <2>1, <2>2, <2>3 DEF HandInv, Running
<1>4. CASE CompleteEnrollment \/ CommitAgain
  <2>1. PICK new : Registry!CommitInstance(new)
    BY <1>4 DEF CompleteEnrollment, CommitAgain
  <2>2. /\ identity' = identity /\ sequence' = new.id
        /\ instances' = [j \in DOMAIN instances \cup {new.id} |-> IF j = new.id THEN new ELSE instances[j]]
    BY <2>1 DEF Registry!CommitInstance
  <2>3. DOMAIN instances' = DOMAIN instances \cup {sequence'}
    BY <2>2
  <2>4. /\ (s' = [s EXCEPT !.instanceID = sequence'] /\ s.regID # 0) \/ s' = s
        /\ waiting' => s.regID # 0
    <3>1. CASE CompleteEnrollment
      BY <3>1 DEF CompleteEnrollment
    <3>2. CASE CommitAgain
      BY <3>2 DEF CommitAgain, HandInv
    <3>. QED BY <1>4, <3>1, <3>2
  <2>5. identity' = identity
    BY <2>2
  <2>. QED BY <2>3, <2>4, <2>5 DEF HandInv
<1>5. CASE IssueToken \/ Exchange \/ IssuePeerToken \/ BrokerIssue
  <2>1. UNCHANGED <<identity, instances, waiting>>
    BY <1>5 DEF IssueToken, Exchange, ObtainToken, IssuePeerToken, BrokerIssue, registryVars
  <2>2. \A a, i, aud : LocalToken(a, i, aud).instance = i
    BY DEF LocalToken
  <2>3. ASSUME NEW t, t.kind = "local" => t.instance \in DOMAIN instances,
               s' = s \/ s' = [s EXCEPT !.issuedToken = t]
        PROVE  HandInv'
    BY <2>1, <2>3 DEF HandInv
  <2>4. CASE IssueToken
    <3>1. PICK aud : ObtainToken(LocalToken(s.agentID, s.instanceID, aud)) /\ s.instanceID # 0
      BY <2>4 DEF IssueToken
    <3>. QED BY <3>1, <2>2, <2>3 DEF ObtainToken, HandInv
  <2>5. CASE Exchange
    BY <2>5, <2>2, <2>3 DEF Exchange, ObtainToken, HandInv
  <2>6. CASE IssuePeerToken
    <3>1. PICK issuer, aud, expired : s' = [s EXCEPT !.issuedToken = PeerToken(issuer, aud, expired)]
      BY <2>6 DEF IssuePeerToken
    <3>2. PeerToken(issuer, aud, expired).kind = "peer"
      BY DEF PeerToken, NoToken
    <3>. QED BY <3>1, <3>2, <2>3
  <2>7. CASE BrokerIssue
    <3>1. PICK aud : s' = [s EXCEPT !.issuedToken = BrokeredToken(aud)]
      BY <2>7 DEF BrokerIssue
    <3>2. BrokeredToken(aud).kind = "brokered"
      BY DEF BrokeredToken, NoToken
    <3>. QED BY <3>1, <3>2, <2>3
  <2>. QED BY <1>5, <2>4, <2>5, <2>6, <2>7
<1>6. CASE RegisterFederationTrust \/ DisableFederationTrust \/ GiveUp
  <2>1. UNCHANGED <<s, identity>> /\ (waiting' => waiting)
    BY <1>6 DEF RegisterFederationTrust, DisableFederationTrust, GiveUp, registryVars
  <2>. QED BY <2>1, HandUnchanged
<1>. QED BY <1>1, <1>2, <1>3, <1>4, <1>5, <1>6 DEF Next, ExecStep

-----------------------------------------------------------------------------
(* The tokens.                                                             *)

LEMMA RegistryNumbers ==
    ASSUME StoreInv
    PROVE  agent.epoch \in Nat /\ identity.epoch \in Nat /\ identity.id \in Nat /\ sequence \in Nat
BY AgentRecords, IdentityRecords DEF StoreInv

LEMMA CoveredStays ==
    ASSUME StoreInv, StoreInv', GoesOn, NEW t, Covered(t)
    PROVE  Covered(t)'
<1>1. /\ agent.epoch \in Nat /\ identity.epoch \in Nat /\ identity.id \in Nat /\ sequence \in Nat
      /\ identity.id <= sequence
  BY RegistryNumbers DEF StoreInv
<1>2. agent'.epoch \in Nat /\ identity'.epoch \in Nat /\ identity'.id \in Nat
  BY AgentRecords, IdentityRecords DEF StoreInv
<1>3. CASE LaterLife
  BY <1>1, <1>2, <1>3 DEF Covered, LaterLife, GoesOn, StoreGrows
<1>4. CASE NextLife
  BY <1>1, <1>2, <1>4 DEF Covered, NextLife, GoesOn, StoreGrows
<1>. QED BY <1>3, <1>4 DEF GoesOn

LEMMA BehindStays ==
    ASSUME StoreInv, StoreInv', GoesOn, NEW t, Covered(t), Behind(t)
    PROVE  Behind(t)'
<1>1. /\ agent.epoch \in Nat /\ identity.epoch \in Nat /\ identity.id \in Nat /\ sequence \in Nat
      /\ identity.id <= sequence
  BY RegistryNumbers DEF StoreInv
<1>2. agent'.epoch \in Nat /\ identity'.epoch \in Nat /\ identity'.id \in Nat
  BY AgentRecords, IdentityRecords DEF StoreInv
<1>3. CASE LaterLife
  BY <1>1, <1>2, <1>3 DEF Covered, Behind, LaterLife, GoesOn, StoreGrows
<1>4. CASE NextLife
  BY <1>1, <1>2, <1>4 DEF Covered, Behind, NextLife
<1>. QED BY <1>3, <1>4 DEF GoesOn

LEMMA TokensKept ==
    ASSUME StoreInv, StoreInv', HandInv, TokenInv, Next, GoesOn
    PROVE  TokenInv'
<1>1. \A t \in tokens : Covered(t)'
  BY CoveredStays DEF TokenInv
<1>2. ASSUME NEW i, NEW aud, ObtainToken(LocalToken(identity.id, i, aud)), i \in DOMAIN instances
      PROVE  TokenInv'
  <2> DEFINE new == LocalToken(identity.id, i, aud)
  <2>1. tokens' = tokens \cup {new} /\ UNCHANGED <<agent, identity, instances>>
    BY <1>2 DEF ObtainToken, registryVars
  <2>2. /\ new.agent = identity.id /\ new.instance = i
        /\ new.agentEpoch = agent.epoch /\ new.identityEpoch = identity.epoch
    BY DEF LocalToken
  <2>3. Covered(new)
    BY <1>2, <2>2, RegistryNumbers DEF Covered
  <2>4. \A t : Covered(t) => Covered(t)'
    BY <2>1 DEF Covered
  <2>. QED BY <1>1, <2>1, <2>3, <2>4 DEF TokenInv
<1>3. CASE IssueToken
  <2>1. s.agentID = identity.id /\ s.instanceID \in DOMAIN instances
    BY <1>3 DEF IssueToken, HandInv
  <2>. QED BY <1>2, <1>3, <2>1 DEF IssueToken
<1>4. CASE Exchange
  <2>1. s.issuedToken.instance \in DOMAIN instances
    BY <1>4 DEF Exchange, HandInv
  <2>2. s.issuedToken.agent = identity.id
    BY <1>4 DEF Exchange, Active, LocalActive
  <2>. QED BY <1>2, <1>4, <2>1, <2>2 DEF Exchange
<1>5. CASE ~IssueToken /\ ~Exchange
  <2>1. tokens' = tokens
    BY <1>5 DEF Next, ExecStep, Lifecycle, Begin, Suspend, Revoke, SuspendIdentity, InstanceTerminate,
                InstanceLease, RegisterWorkload, CompleteEnrollment, IssuePeerToken, BrokerIssue,
                RegisterFederationTrust, DisableFederationTrust, CommitAgain, GiveUp, daemonVars
  <2>. QED BY <1>1, <2>1 DEF TokenInv
<1>. QED BY <1>3, <1>4, <1>5

LEMMA DeadKept ==
    ASSUME StoreInv, StoreInv', HandInv, TokenInv, DeadInv, Next, GoesOn
    PROVE  DeadInv'
<1>1. \A t \in dead : Behind(t)'
  BY BehindStays DEF TokenInv, DeadInv
<1>2. tokens \subseteq tokens'
  BY DEF Next, ExecStep, Lifecycle, Begin, Suspend, Revoke, SuspendIdentity, InstanceTerminate,
         InstanceLease, RegisterWorkload, CompleteEnrollment, IssueToken, Exchange, ObtainToken, IssuePeerToken, BrokerIssue,
         RegisterFederationTrust, DisableFederationTrust, CommitAgain, GiveUp, daemonVars
<1>3. ASSUME NEW buried \in SUBSET tokens, dead' = dead \cup buried, \A t \in buried : Behind(t)'
      PROVE  DeadInv'
  BY <1>1, <1>2, <1>3 DEF DeadInv
<1>4. /\ agent.epoch \in Nat /\ identity.epoch \in Nat /\ identity.id \in Nat /\ sequence \in Nat
      /\ identity.id <= sequence
  BY RegistryNumbers DEF StoreInv
<1>5. agent'.epoch \in Nat /\ identity'.epoch \in Nat
  BY AgentRecords, IdentityRecords DEF StoreInv
<1>6. CASE Begin
  <2>1. NextLife /\ dead' = dead \cup tokens
    BY <1>6, BeginLife DEF Begin, Bury
  <2>2. \A t \in tokens : Behind(t)'
    BY <2>1, <1>4 DEF TokenInv, Covered, Behind, NextLife
  <2>. QED BY <2>1, <2>2, <1>3
<1>7. CASE Suspend \/ Revoke \/ SuspendIdentity
  <2> DEFINE mine == {t \in tokens : t.agent = s.agentID}
  <2>1. dead' = dead \cup mine /\ s.agentID = identity.id
    BY <1>7 DEF Suspend, Revoke, SuspendIdentity, Bury, Running, HandInv
  <2>2. LaterLife /\ (agent.epoch < agent'.epoch \/ identity.epoch < identity'.epoch)
    BY <1>7, SuspendLife, RevokeLife, SuspendIdentityLife DEF Suspend, Revoke, SuspendIdentity
  <2>3. \A t \in mine : Behind(t)'
    BY <1>4, <1>5, <2>1, <2>2 DEF TokenInv, Covered, Behind, LaterLife
  <2>. QED BY <2>1, <2>3, <1>3
<1>8. CASE InstanceTerminate
  <2> DEFINE its == {t \in tokens : t.instance = s.instanceID}
  <2>1. dead' = dead \cup its /\ s.instanceID \in DOMAIN instances /\ Registry!TerminateInstance(s.instanceID)
    BY <1>8 DEF InstanceTerminate, Bury, HandInv
  <2>2. \A t \in its : Behind(t)'
    BY <2>1, TerminateStore DEF Behind
  <2>. QED BY <2>1, <2>2, <1>3
<1>9. ASSUME UNCHANGED dead PROVE DeadInv'
  BY <1>1, <1>2, <1>9 DEF DeadInv
<1>. QED BY <1>6, <1>7, <1>8, <1>9
         DEF Next, ExecStep, Lifecycle, InstanceLease, RegisterWorkload, CompleteEnrollment, IssueToken, Exchange,
             ObtainToken, IssuePeerToken, BrokerIssue, RegisterFederationTrust, DisableFederationTrust,
             CommitAgain, GiveUp

-----------------------------------------------------------------------------
(* The theorem.                                                            *)

LEMMA LifeInit == Init => LifeInv
<1> SUFFICES ASSUME Init PROVE LifeInv
  OBVIOUS
<1>1. /\ sequence = 0 /\ agent = NoAgent /\ identity = NoIdentity /\ instances = <<>>
      /\ tokens = {} /\ dead = {} /\ s = NoScenario /\ waiting = FALSE
  BY DEF Init, Registry!Init, Registry!NoAgent, Registry!NoIdentity, NoAgent, NoIdentity
<1>2. DOMAIN instances = {}
  BY <1>1
<1>3. identity.id = 0
  BY <1>1 DEF NoIdentity
<1>4. agent \in Agent /\ identity \in Identity
  BY <1>1, AgentRecords, IdentityRecords
<1>5. StoreInv
  BY <1>1, <1>2, <1>3, <1>4 DEF StoreInv
<1>6. HandInv
  BY <1>1 DEF HandInv, NoScenario, NoToken
<1>. QED BY <1>1, <1>5, <1>6 DEF LifeInv, TokenInv, DeadInv

LEMMA LifeStep == LifeInv /\ [Next]_vars => LifeInv'
<1> SUFFICES ASSUME LifeInv, [Next]_vars PROVE LifeInv'
  OBVIOUS
<1>1. CASE Next
  <2>1. GoesOn
    BY <1>1, StepGoesOn DEF LifeInv
  <2>2. StoreInv'
    BY <2>1, StoreKept DEF LifeInv
  <2>. QED BY <1>1, <2>1, <2>2, HandKept, TokensKept, DeadKept DEF LifeInv
<1>2. CASE UNCHANGED vars
  BY <1>2 DEF LifeInv, StoreInv, HandInv, TokenInv, Covered, DeadInv, Behind, vars, registryVars, daemonVars
<1>. QED BY <1>1, <1>2

LEMMA BehindIsInactive == LifeInv => StoppedNeverActive
<1> SUFFICES ASSUME LifeInv, NEW t \in dead PROVE ~LocalActive(t)
  BY DEF StoppedNeverActive
<1>1. Covered(t) /\ Behind(t)
  BY DEF LifeInv, TokenInv, DeadInv
<1>. QED BY <1>1, RegistryNumbers DEF LifeInv, Covered, Behind, LocalActive

\* A lifecycle change is final: no token issued before the Agent or its identity was
\* suspended or revoked, its instance terminated or the next Agent seeded is active
\* again, in this fixture or a later one (executor.go:108-210 over the registry's
\* mutators, registry.go:108-204).
THEOREM LifecycleIsFinal == Spec => []StoppedNeverActive
<1>1. Spec => []LifeInv
  BY LifeInit, LifeStep, PTL DEF Spec
<1>. QED BY <1>1, BehindIsInactive, PTL

-----------------------------------------------------------------------------
(* Whose things are whose.  A challenge is open until its enrollment is    *)
(* completed and never again, so every instance, those of repeated commits *)
(* included, is of a registration whose challenge is spent; and what a     *)
(* scenario holds was numbered after its Agent.                            *)

EnrollInv ==
    /\ workloads \subseteq 1 .. sequence
    /\ challenges \subseteq workloads
    /\ \A i \in DOMAIN instances : instances[i].registrationID \in workloads \ challenges

OwnInv ==
    /\ s.agentID \in Nat /\ s.agentID <= sequence
    /\ s.challengeID # 0 => s.challengeID > s.agentID
    /\ s.instanceID # 0 =>
          /\ instances[s.instanceID].agentID = s.agentID
          /\ instances[s.instanceID].registrationID > s.agentID
    /\ s.issuedToken.kind = "local" => s.issuedToken.agent = s.agentID
    /\ s.issuedToken.kind # "none" => s.issuedToken.key = s.agentID

\* No instance is added, or changes hands.
SameOwners ==
    /\ DOMAIN instances' = DOMAIN instances
    /\ \A i \in DOMAIN instances :
          /\ instances'[i].agentID = instances[i].agentID
          /\ instances'[i].registrationID = instances[i].registrationID

LEMMA Owners ==
    \A v \in Instance :
        /\ v.agentID \in Nat /\ v.registrationID \in Nat
        /\ \A g : LET w == [v EXCEPT !.state = "terminated", !.generation = g]
                  IN  w.agentID = v.agentID /\ w.registrationID = v.registrationID
        /\ \A l : LET w == [v EXCEPT !.lease = l]
                  IN  w.agentID = v.agentID /\ w.registrationID = v.registrationID
BY DEF Instance

LEMMA TerminateOwners ==
    ASSUME StoreInv, NEW i \in DOMAIN instances, Registry!TerminateInstance(i)
    PROVE  SameOwners
<1> DEFINE w == [[instances[i] EXCEPT !.state = "terminated"] EXCEPT !.generation = instances[i].generation + 1]
<1>1. w.agentID = instances[i].agentID /\ w.registrationID = instances[i].registrationID
  BY Owners DEF StoreInv
<1>2. DOMAIN instances' = DOMAIN instances /\ instances'[i] = w /\ \A j \in DOMAIN instances : j # i => instances'[j] = instances[j]
  BY DEF Registry!TerminateInstance
<1>. HIDE DEF w
<1>. QED BY <1>1, <1>2 DEF SameOwners

LEMMA LeaseOwners ==
    ASSUME StoreInv, HandInv, InstanceLease
    PROVE  SameOwners
<1> DEFINE i == s.instanceID
           w == [instances[i] EXCEPT !.lease = 1]
<1>1. i \in DOMAIN instances
  BY DEF InstanceLease, HandInv
<1>2. w.agentID = instances[i].agentID /\ w.registrationID = instances[i].registrationID
  BY <1>1, Owners DEF StoreInv
<1>3. instances' = [instances EXCEPT ![i] = w]
  BY DEF InstanceLease
<1>. HIDE DEF i, w
<1>. QED BY <1>1, <1>2, <1>3 DEF SameOwners

LEMMA OtherOwners == ASSUME StoreInv, HandInv, Next, ~CompleteEnrollment, ~CommitAgain PROVE SameOwners
<1>1. CASE InstanceTerminate
  BY <1>1, TerminateOwners DEF InstanceTerminate, HandInv
<1>2. CASE InstanceLease
  BY <1>2, LeaseOwners
<1>3. CASE ~InstanceTerminate /\ ~InstanceLease
  <2>1. UNCHANGED instances
    BY <1>3 DEF Next, ExecStep, Lifecycle, Begin, Suspend, Revoke, SuspendIdentity, RegisterWorkload,
                IssueToken, Exchange, ObtainToken, IssuePeerToken, BrokerIssue, RegisterFederationTrust,
                DisableFederationTrust, GiveUp, registryVars, Registry!SeedAgent, Registry!SuspendAgent,
                Registry!RevokeAgent, Registry!SuspendIdentity, Registry!AddWorkload
  <2>. QED BY <2>1 DEF SameOwners
<1>. QED BY <1>1, <1>2, <1>3

\* The instance a commit makes, and what the executor may learn of it.
Commits(n) ==
    /\ n = sequence' /\ n = sequence + 1 /\ n \notin DOMAIN instances /\ n # 0
    /\ DOMAIN instances' = DOMAIN instances \cup {n}
    /\ instances'[n].agentID = identity.id
    /\ instances'[n].registrationID \in workloads \ challenges'
    /\ \A j \in DOMAIN instances : instances'[j] = instances[j]
    /\ UNCHANGED <<workloads, identity>> /\ challenges' \subseteq challenges
    /\ \/ s' = s
       \/ /\ s' = [s EXCEPT !.instanceID = n]
          /\ instances'[n].agentID = s.agentID /\ instances'[n].registrationID = s.challengeID

LEMMA CommitEffect ==
    ASSUME StoreInv, NEW a, NEW g, Registry!CommitInstance(Enrolled(a, g))
    PROVE  LET n == sequence + 1
           IN  /\ sequence' = n /\ n \notin DOMAIN instances /\ n # 0
               /\ a = identity.id /\ g \in workloads
               /\ DOMAIN instances' = DOMAIN instances \cup {n}
               /\ instances'[n].agentID = a /\ instances'[n].registrationID = g
               /\ \A j \in DOMAIN instances : instances'[j] = instances[j]
               /\ UNCHANGED <<workloads, identity>>
<1> DEFINE new == Enrolled(a, g)
           n == sequence + 1
<1>1. Registry!CommitInstance(new)
  OBVIOUS
<1>2. new.id = n /\ new.agentID = a /\ new.registrationID = g
  BY DEF Enrolled
<1>. HIDE DEF new
<1>3. /\ sequence' = n /\ UNCHANGED <<workloads, identity>>
      /\ new.agentID = identity.id /\ new.registrationID \in workloads
      /\ instances' = [j \in DOMAIN instances \cup {n} |-> IF j = n THEN new ELSE instances[j]]
  BY <1>1, <1>2 DEF Registry!CommitInstance
<1>4. n \notin DOMAIN instances /\ n # 0
  BY DEF StoreInv
<1>. HIDE DEF n
<1>5. /\ DOMAIN instances' = DOMAIN instances \cup {n}
      /\ instances'[n] = new
      /\ \A j \in DOMAIN instances : instances'[j] = instances[j]
  BY <1>3, <1>4
<1>. QED BY <1>2, <1>3, <1>4, <1>5 DEF n

LEMMA CommitMakesOne ==
    ASSUME StoreInv, HandInv, EnrollInv, CompleteEnrollment \/ CommitAgain
    PROVE  \E n : Commits(n)
<1>1. CASE CompleteEnrollment
  <2>1. s.agentID = identity.id
    BY <1>1 DEF CompleteEnrollment, HandInv
  <2>2. /\ Registry!CommitInstance(Enrolled(s.agentID, s.challengeID))
        /\ challenges' = challenges \ {s.challengeID}
        /\ s' = s \/ s' = [s EXCEPT !.instanceID = sequence']
    BY <1>1 DEF CompleteEnrollment
  <2>3. Commits(sequence + 1)
    BY <2>1, <2>2, CommitEffect DEF Commits
  <2>. QED BY <2>3
<1>2. CASE CommitAgain
  <2>1. PICK i \in DOMAIN instances :
          /\ Registry!CommitInstance(Enrolled(instances[i].agentID, instances[i].registrationID))
          /\ \/ /\ waiting /\ instances[i].registrationID = s.challengeID
                /\ s' = [s EXCEPT !.instanceID = sequence']
             \/ s' = s
    BY <1>2 DEF CommitAgain
  <2>2. challenges' = challenges
    BY <1>2 DEF CommitAgain, daemonVars
  <2>3. instances[i].registrationID \in workloads \ challenges
    BY DEF EnrollInv
  <2>4. waiting => s.agentID = identity.id
    BY DEF HandInv
  <2>5. Commits(sequence + 1)
    BY <2>1, <2>2, <2>3, <2>4, CommitEffect DEF Commits
  <2>. QED BY <2>5
<1>. QED BY <1>1, <1>2

LEMMA EnrollKept == ASSUME StoreInv, HandInv, EnrollInv, Next PROVE EnrollInv'
<1>1. CASE CompleteEnrollment \/ CommitAgain
  <2>1. PICK n : Commits(n)
    BY <1>1, CommitMakesOne
  <2>2. workloads' \subseteq 1 .. sequence'
    BY <2>1 DEF Commits, EnrollInv, StoreInv
  <2>. QED BY <2>1, <2>2 DEF Commits, EnrollInv
<1>2. CASE ~CompleteEnrollment /\ ~CommitAgain
  <2>1. SameOwners
    BY <1>2, OtherOwners
  <2>2. \/ UNCHANGED <<workloads, challenges>> /\ (sequence' = sequence \/ sequence' = sequence + 1)
        \/ /\ sequence' = sequence + 1 /\ workloads' = workloads \cup {sequence'}
           /\ challenges' \in {challenges, challenges \cup {sequence'}}
    <3>1. CASE RegisterWorkload
      BY <3>1 DEF RegisterWorkload, Registry!AddWorkload
    <3>2. CASE Begin \/ Lifecycle
      BY <3>2 DEF Lifecycle, Begin, Suspend, Revoke, SuspendIdentity, InstanceTerminate, InstanceLease, daemonVars,
                  Registry!SeedAgent, Registry!SuspendAgent, Registry!RevokeAgent, Registry!SuspendIdentity,
                  Registry!TerminateInstance, Registry!LeaseInstance
    <3>3. CASE \/ IssueToken \/ Exchange \/ IssuePeerToken \/ BrokerIssue
               \/ RegisterFederationTrust \/ DisableFederationTrust \/ GiveUp
      BY <3>3 DEF IssueToken, Exchange, ObtainToken, IssuePeerToken, BrokerIssue, RegisterFederationTrust,
                  DisableFederationTrust, GiveUp, registryVars, daemonVars
    <3>. QED BY <1>2, <3>1, <3>2, <3>3 DEF Next, ExecStep
  <2>3. sequence \in Nat /\ sequence + 1 \notin workloads
    BY DEF StoreInv, EnrollInv
  <2>4. workloads' \subseteq 1 .. sequence' /\ challenges' \subseteq workloads'
    <3>1. \A x : x \in workloads => x \in Nat /\ 1 <= x /\ x <= sequence
      BY <2>3 DEF EnrollInv
    <3>2. sequence' \in Nat /\ 1 <= sequence + 1 /\ sequence <= sequence'
      BY <2>2, <2>3
    <3>3. \A x : x \in workloads' => x \in workloads \/ (x = sequence + 1 /\ sequence' = sequence + 1)
      BY <2>2
    <3>4. workloads' \subseteq 1 .. sequence'
      BY <2>3, <3>1, <3>2, <3>3
    <3>5. challenges' \subseteq workloads'
      BY <2>2 DEF EnrollInv
    <3>. QED BY <3>4, <3>5
  <2>5. \A i \in DOMAIN instances' : instances'[i].registrationID \in workloads' \ challenges'
    BY <2>1, <2>2, <2>3 DEF EnrollInv, SameOwners
  <2>. QED BY <2>4, <2>5 DEF EnrollInv
<1>. QED BY <1>1, <1>2

\* What a scenario has in hand survives every step of its own, and a new scenario
\* has nothing in hand.
LEMMA OwnKept ==
    ASSUME StoreInv, HandInv, EnrollInv, OwnInv, Next, GoesOn
    PROVE  OwnInv'
<1>1. sequence \in Nat /\ sequence' \in Nat /\ sequence <= sequence' /\ s.agentID \in Nat
  BY DEF StoreInv, GoesOn, OwnInv
<1>2. CASE Begin
  <2>1. /\ s'.agentID = identity'.id /\ s'.challengeID = 0 /\ s'.instanceID = 0 /\ s'.issuedToken.kind = "none"
        /\ identity'.id = sequence'
    BY <1>2 DEF Begin, NoScenario, NoToken, Registry!SeedAgent
  <2>. QED BY <1>1, <2>1 DEF OwnInv
<1>3. CASE CompleteEnrollment \/ CommitAgain
  <2>1. PICK n : Commits(n)
    BY <1>3, CommitMakesOne
  <2>2. CASE s' = s
    BY <1>1, <2>1, <2>2 DEF Commits, OwnInv, HandInv
  <2>3. CASE s' # s
    <3>1. /\ s' = [s EXCEPT !.instanceID = n] /\ n # 0
          /\ instances'[n].agentID = s.agentID /\ instances'[n].registrationID = s.challengeID
          /\ s.challengeID \in workloads
      BY <2>1, <2>3 DEF Commits
    <3>2. s.challengeID # 0
      BY <1>1, <3>1 DEF EnrollInv
    <3>3. s.challengeID > s.agentID
      BY <3>2 DEF OwnInv
    <3>4. /\ s'.agentID = s.agentID /\ s'.challengeID = s.challengeID /\ s'.instanceID = n
          /\ s'.issuedToken = s.issuedToken
      BY <3>1 DEF HandInv
    <3>. QED BY <1>1, <3>1, <3>3, <3>4 DEF OwnInv
  <2>. QED BY <2>2, <2>3
<1>4. CASE ~Begin /\ ~CompleteEnrollment /\ ~CommitAgain
  <2>1. SameOwners
    BY <1>4, OtherOwners
  <2>2. ASSUME s' = s PROVE OwnInv'
    BY <1>1, <2>1, <2>2 DEF OwnInv, SameOwners, HandInv
  <2>3. CASE RegisterWorkload
    <3>1. sequence' = sequence + 1
      BY <2>3 DEF RegisterWorkload, Registry!AddWorkload
    <3>2. \/ s' = [s EXCEPT !.regID = sequence', !.challengeID = sequence']
          \/ s' = [s EXCEPT !.regID = sequence']
      BY <2>3 DEF RegisterWorkload
    <3>3. /\ s'.agentID = s.agentID /\ s'.instanceID = s.instanceID /\ s'.issuedToken = s.issuedToken
          /\ s'.challengeID \in {s.challengeID, sequence + 1}
      BY <3>1, <3>2 DEF HandInv
    <3>4. s'.challengeID # 0 => s'.challengeID > s'.agentID
      BY <1>1, <3>3 DEF OwnInv
    <3>. QED BY <1>1, <2>1, <3>3, <3>4 DEF OwnInv, SameOwners, HandInv
  <2>4. ASSUME NEW t, s' = [s EXCEPT !.issuedToken = t],
               t.kind = "local" => t.agent = s.agentID, t.kind # "none" => t.key = s.agentID
        PROVE  OwnInv'
    BY <1>1, <2>1, <2>4 DEF OwnInv, SameOwners, HandInv
  <2>5. \A a, i, aud : LET t == LocalToken(a, i, aud) IN t.agent = a /\ t.key = a
    BY DEF LocalToken
  <2>6. CASE IssueToken
    <3>1. PICK aud : ObtainToken(LocalToken(s.agentID, s.instanceID, aud))
      BY <2>6 DEF IssueToken
    <3>. QED BY <3>1, <2>2, <2>4, <2>5 DEF ObtainToken
  <2>7. CASE Exchange
    <3>1. s.issuedToken.agent = s.agentID
      BY <2>7 DEF Exchange, OwnInv
    <3>2. ObtainToken(LocalToken(s.agentID, s.issuedToken.instance, s.issuedToken.aud))
      BY <2>7, <3>1 DEF Exchange
    <3>. QED BY <3>2, <2>2, <2>4, <2>5 DEF ObtainToken
  <2>8. CASE IssuePeerToken
    <3>1. PICK issuer, aud, expired : s' = [s EXCEPT !.issuedToken = PeerToken(issuer, aud, expired)]
      BY <2>8 DEF IssuePeerToken
    <3>2. PeerToken(issuer, aud, expired).kind = "peer" /\ PeerToken(issuer, aud, expired).key = s.agentID
      BY DEF PeerToken, NoToken
    <3>. QED BY <3>1, <3>2, <2>4
  <2>9. CASE BrokerIssue
    <3>1. PICK aud : s' = [s EXCEPT !.issuedToken = BrokeredToken(aud)]
      BY <2>9 DEF BrokerIssue
    <3>2. BrokeredToken(aud).kind = "brokered" /\ BrokeredToken(aud).key = s.agentID
      BY DEF BrokeredToken, NoToken
    <3>. QED BY <3>1, <3>2, <2>4
  <2>10. CASE Lifecycle \/ RegisterFederationTrust \/ DisableFederationTrust \/ GiveUp
    BY <2>2, <2>10 DEF Lifecycle, Suspend, Revoke, SuspendIdentity, InstanceTerminate, InstanceLease,
                       RegisterFederationTrust, DisableFederationTrust, GiveUp
  <2>. QED BY <1>4, <2>3, <2>6, <2>7, <2>8, <2>9, <2>10 DEF Next, ExecStep
<1>. QED BY <1>2, <1>3, <1>4

-----------------------------------------------------------------------------
(* What the reads rest on: the Agent shown has an epoch, and rows have a   *)
(* first one.                                                              *)

EpochInv == identity.id # 0 => agent.epoch >= 1 /\ identity.epoch >= 1

RowsInv ==
    \A rows \in SUBSET DOMAIN instances : rows # {} => \E i \in rows : \A j \in rows : i <= j

LEMMA EpochKept == ASSUME StoreInv, StoreInv', EpochInv, GoesOn PROVE EpochInv'
<1>1. agent.epoch \in Nat /\ identity.epoch \in Nat /\ agent'.epoch \in Nat /\ identity'.epoch \in Nat
  BY AgentRecords, IdentityRecords DEF StoreInv
<1>2. CASE LaterLife
  BY <1>1, <1>2 DEF LaterLife, EpochInv
<1>3. CASE NextLife
  BY <1>3 DEF NextLife, EpochInv
<1>. QED BY <1>2, <1>3 DEF GoesOn

LEMMA RowsKept ==
    ASSUME StoreInv, HandInv, EnrollInv, RowsInv, Next
    PROVE  RowsInv'
<1>1. CASE CompleteEnrollment \/ CommitAgain
  <2>1. PICK n : n = sequence + 1 /\ DOMAIN instances' = DOMAIN instances \cup {n}
    BY <1>1, CommitMakesOne DEF Commits
  <2>2. n \in Nat /\ \A i \in DOMAIN instances : i \in Nat /\ i <= n
    BY <2>1 DEF StoreInv
  <2>3. ASSUME NEW rows \in SUBSET DOMAIN instances', rows # {}
        PROVE  \E i \in rows : \A j \in rows : i <= j
    <3> DEFINE old == rows \ {n}
    <3>1. old \in SUBSET DOMAIN instances /\ rows \subseteq old \cup {n} /\ n <= n
      BY <2>1, <2>2, <2>3
    <3>2. CASE old = {}
      BY <2>3, <3>1, <3>2
    <3>3. CASE old # {}
      <4>1. PICK i \in old : \A j \in old : i <= j
        BY <3>1, <3>3 DEF RowsInv
      <4>. QED BY <2>2, <3>1, <4>1
    <3>. QED BY <3>2, <3>3
  <2>. QED BY <2>3 DEF RowsInv
<1>2. CASE ~CompleteEnrollment /\ ~CommitAgain
  <2>1. SameOwners
    BY <1>2, OtherOwners
  <2>. QED BY <2>1 DEF RowsInv, SameOwners
<1>. QED BY <1>1, <1>2

-----------------------------------------------------------------------------
(* The theorems.                                                           *)

Inv == LifeInv /\ EnrollInv /\ OwnInv /\ EpochInv /\ RowsInv

LEMMA InvInit == Init => Inv
<1> SUFFICES ASSUME Init PROVE Inv
  OBVIOUS
<1>1. /\ sequence = 0 /\ identity = NoIdentity /\ workloads = {} /\ instances = <<>>
      /\ challenges = {} /\ s = NoScenario
  BY DEF Init, Registry!Init, Registry!NoIdentity, NoIdentity
<1>2. DOMAIN instances = {}
  BY <1>1
<1>3. identity.id = 0
  BY <1>1 DEF NoIdentity
<1>4. EnrollInv
  BY <1>1, <1>2 DEF EnrollInv
<1>5. s.agentID = 0 /\ s.challengeID = 0 /\ s.instanceID = 0 /\ s.issuedToken.kind = "none"
  BY <1>1 DEF NoScenario, NoToken
<1>6. OwnInv
  BY <1>1, <1>5 DEF OwnInv
<1>. QED BY <1>2, <1>3, <1>4, <1>6, LifeInit DEF Inv, EpochInv, RowsInv

LEMMA InvStep == Inv /\ [Next]_vars => Inv'
<1> SUFFICES ASSUME Inv, [Next]_vars PROVE Inv'
  OBVIOUS
<1>1. LifeInv'
  BY LifeStep DEF Inv
<1>2. CASE Next
  <2>1. GoesOn
    BY <1>2, StepGoesOn DEF Inv, LifeInv
  <2>. QED BY <1>1, <1>2, <2>1, EnrollKept, OwnKept, EpochKept, RowsKept DEF Inv, LifeInv
<1>3. CASE UNCHANGED vars
  <2>1. UNCHANGED <<sequence, agent, identity, workloads, instances, challenges, s>>
    BY <1>3 DEF vars, registryVars, daemonVars
  <2>2. EnrollInv' /\ OwnInv'
    BY <2>1 DEF Inv, EnrollInv, OwnInv
  <2>3. EpochInv' /\ RowsInv'
    BY <2>1 DEF Inv, EpochInv, RowsInv
  <2>. QED BY <1>1, <2>2, <2>3 DEF Inv
<1>. QED BY <1>2, <1>3

LEMMA InvOwns == Inv => ScenarioOwnsItsState
BY DEF Inv, LifeInv, HandInv, OwnInv, ScenarioOwnsItsState, Running

LEMMA InvShows == Inv => ReadsShowScenario
<1> SUFFICES ASSUME Inv, Running PROVE ReadsShowScenario
  BY DEF ReadsShowScenario
<1>1. s.agentID = identity.id /\ identity.id # 0
  BY DEF Inv, LifeInv, HandInv, Running
<1>2. ListAgents /\ AgentDetail
  BY <1>1 DEF Inv, EpochInv, ListAgents, AgentDetail
<1>3. ASSUME s.instanceID # 0, NEW rows \in SUBSET DOMAIN instances, s.instanceID \in rows,
             NEW published \in SUBSET (rows \ OwnRows)
      PROVE  EvidenceEvents(rows) /\ OutboxEventsList(rows, published)
  <2> DEFINE own == rows \cap OwnRows
  <2>1. s.instanceID \in own /\ own \in SUBSET DOMAIN instances
    BY <1>3 DEF Inv, OwnInv, OwnRows
  <2>2. rows # {} /\ \A x \in own : x \in OwnRows
    BY <1>3
  <2>. HIDE DEF own
  <2>3. First(own) \in own
    BY <2>1, Zenon DEF Inv, RowsInv, First
  <2>4. First(own) \notin published
    BY <1>3, <2>2, <2>3
  <2>. QED BY <2>1, <2>2, <2>4 DEF EvidenceEvents, OutboxEventsList, own
<1>4. s.instanceID # 0 => s.instanceID \in OwnRows
  BY DEF Inv, LifeInv, HandInv, OwnInv, OwnRows
<1>. QED BY <1>2, <1>3, <1>4, Zenon DEF ReadsShowScenario, InstancesLeaseProjection, EvidenceEvents

LEMMA InvAlways == Spec => []Inv
BY InvInit, InvStep, PTL DEF Spec

\* What a scenario has in hand, its challenge, its instance and its token, was made
\* for its own Agent (execFixture's fresh state, executor.go:56-69).
THEOREM OwnState == Spec => []ScenarioOwnsItsState
BY InvAlways, InvOwns, PTL

\* The steps that only read accept what the daemon shows of the scenario's Agent and
\* enrollment, whatever fixtures ran before it (executor.go:382-511).
THEOREM ReadsShow == Spec => []ReadsShowScenario
BY InvAlways, InvShows, PTL

-----------------------------------------------------------------------------
(* The types that the registry's and the scenario's invariants leave.      *)

HandType == [agentID : Nat, regID : Nat, challengeID : Nat, instanceID : Nat, issuedToken : Token]

RestTypeOK ==
    /\ tokens \subseteq Token /\ \A t \in tokens : t.kind = "local"
    /\ trusts \in [PeerIssuer -> Trust]
    /\ s \in HandType
    /\ waiting \in BOOLEAN

LEMMA TokenTypes ==
    ASSUME StoreInv, RestTypeOK
    PROVE  /\ NoToken \in Token
           /\ \A a, i \in Nat, aud \in Audience \cup {""} :
                LocalToken(a, i, aud) \in Token /\ LocalToken(a, i, aud).kind = "local"
           /\ \A issuer \in PeerIssuer, aud \in Audience, expired \in BOOLEAN :
                PeerToken(issuer, aud, expired) \in Token
           /\ \A aud \in Audience : BrokeredToken(aud) \in Token
<1>1. NoToken \in Token
  BY DEF NoToken, Token
<1>2. agent.epoch \in Nat /\ identity.epoch \in Nat
  BY RegistryNumbers
<1>3. ASSUME NEW a \in Nat, NEW i \in Nat, NEW aud \in Audience \cup {""}
      PROVE  LocalToken(a, i, aud) \in Token /\ LocalToken(a, i, aud).kind = "local"
  BY <1>2 DEF LocalToken, Token
<1>4. s.agentID \in Nat /\ s.issuedToken.issuer \in PeerIssuer \cup {NoIssuer}
  BY DEF RestTypeOK, HandType, Token
<1>5. ASSUME NEW issuer \in PeerIssuer, NEW aud \in Audience, NEW expired \in BOOLEAN
      PROVE  PeerToken(issuer, aud, expired) \in Token
  BY <1>4 DEF PeerToken, NoToken, Token
<1>6. ASSUME NEW aud \in Audience PROVE BrokeredToken(aud) \in Token
  BY <1>4 DEF BrokeredToken, NoToken, Token
<1>. QED BY <1>1, <1>3, <1>5, <1>6

\* What a step writes into the scenario's hand.
LEMMA HandTypes ==
    \A h \in HandType :
        /\ h.agentID \in Nat /\ h.instanceID \in Nat /\ h.issuedToken \in Token
        /\ \A n \in Nat : /\ [h EXCEPT !.regID = n] \in HandType
                          /\ [h EXCEPT !.regID = n, !.challengeID = n] \in HandType
                          /\ [h EXCEPT !.instanceID = n] \in HandType
                          /\ [h EXCEPT !.agentID = n] \in HandType
        /\ \A t \in Token : [h EXCEPT !.issuedToken = t] \in HandType
BY DEF HandType

LEMMA RestKept ==
    ASSUME StoreInv, StoreInv', RestTypeOK, Next
    PROVE  RestTypeOK'
<1>1. s \in HandType /\ sequence' \in Nat /\ identity'.id \in Nat
  BY IdentityRecords DEF RestTypeOK, StoreInv
<1>2. CASE Begin
  <2>1. NoScenario \in HandType
    BY TokenTypes DEF NoScenario, HandType
  <2>2. s' \in HandType
    BY <1>1, <1>2, <2>1, HandTypes, Zenon DEF Begin
  <2>. QED BY <1>2, <2>2 DEF Begin, daemonVars, RestTypeOK
<1>3. CASE Lifecycle
  <2>1. UNCHANGED <<tokens, trusts, s, waiting>>
    BY <1>3 DEF Lifecycle, Suspend, Revoke, SuspendIdentity, InstanceTerminate, InstanceLease, daemonVars
  <2>. QED BY <2>1 DEF RestTypeOK
<1>4. CASE RegisterWorkload \/ CompleteEnrollment \/ CommitAgain \/ GiveUp
  <2>1. UNCHANGED <<tokens, trusts>> /\ (waiting' = waiting \/ waiting' \in BOOLEAN)
    BY <1>4 DEF RegisterWorkload, CompleteEnrollment, CommitAgain, GiveUp, daemonVars
  <2>2. \/ s' = s \/ s' = [s EXCEPT !.regID = sequence']
        \/ s' = [s EXCEPT !.regID = sequence', !.challengeID = sequence']
        \/ s' = [s EXCEPT !.instanceID = sequence']
    BY <1>4, Zenon DEF RegisterWorkload, CompleteEnrollment, CommitAgain, GiveUp
  <2>3. s' \in HandType
    BY <1>1, <2>2, HandTypes, Zenon
  <2>. QED BY <2>1, <2>3 DEF RestTypeOK
<1>5. ASSUME NEW t \in Token, t.kind = "local", ObtainToken(t)
      PROVE  RestTypeOK'
  <2>1. s' \in HandType
    BY <1>1, <1>5, HandTypes, Zenon DEF ObtainToken
  <2>. QED BY <1>5, <2>1 DEF ObtainToken, RestTypeOK
<1>6. CASE IssueToken
  <2>1. PICK aud \in Audience : ObtainToken(LocalToken(s.agentID, s.instanceID, aud))
    BY <1>6 DEF IssueToken
  <2>. QED BY <1>1, <1>5, <2>1, HandTypes, TokenTypes
<1>7. CASE Exchange
  <2>1. ObtainToken(LocalToken(s.issuedToken.agent, s.issuedToken.instance, s.issuedToken.aud))
    BY <1>7 DEF Exchange
  <2>2. /\ s.issuedToken.agent \in Nat /\ s.issuedToken.instance \in Nat
        /\ s.issuedToken.aud \in Audience \cup {""}
    BY <1>1, HandTypes DEF Token
  <2>. QED BY <1>5, <2>1, <2>2, TokenTypes
<1>8. CASE IssuePeerToken \/ BrokerIssue
  <2>1. UNCHANGED <<tokens, trusts, waiting>>
    BY <1>8 DEF IssuePeerToken, BrokerIssue, daemonVars
  <2>2. \E t \in Token : s' = [s EXCEPT !.issuedToken = t]
    BY <1>8, TokenTypes, Zenon DEF IssuePeerToken, BrokerIssue
  <2>3. s' \in HandType
    BY <1>1, <2>2, HandTypes, Zenon
  <2>. QED BY <2>1, <2>3 DEF RestTypeOK
<1>9. CASE RegisterFederationTrust
  <2>1. PICK issuer \in PeerIssuer, status \in {"active", "disabled"}, audiences \in SUBSET Audience,
             mapped \in BOOLEAN :
          trusts' = [trusts EXCEPT ![issuer] = [status |-> status, audiences |-> audiences, mapped |-> mapped]]
    BY <1>9 DEF RegisterFederationTrust
  <2>2. [status |-> status, audiences |-> audiences, mapped |-> mapped] \in Trust
    BY DEF Trust
  <2>3. UNCHANGED <<tokens, s, waiting>>
    BY <1>9 DEF RegisterFederationTrust
  <2>. QED BY <2>1, <2>2, <2>3 DEF RestTypeOK
<1>10. CASE DisableFederationTrust
  <2>1. PICK issuer \in PeerIssuer : trusts' = [trusts EXCEPT ![issuer].status = "disabled"]
    BY <1>10 DEF DisableFederationTrust
  <2>2. [trusts[issuer] EXCEPT !.status = "disabled"] \in Trust
    BY DEF RestTypeOK, Trust
  <2>3. UNCHANGED <<tokens, s, waiting>>
    BY <1>10 DEF DisableFederationTrust
  <2>. QED BY <2>1, <2>2, <2>3 DEF RestTypeOK
<1>. QED BY <1>2, <1>3, <1>4, <1>6, <1>7, <1>8, <1>9, <1>10 DEF Next, ExecStep

\* Types, and what they point to, are an invariant for any audiences, peers and
\* bounds: the scenario's instance and those of the tokens exist, and no challenge is
\* open for a registration that does not.
THEOREM TypeCorrect == Spec => []TypeOK
<1>1. Init => RestTypeOK
  <2>1. NoToken \in Token
    BY DEF NoToken, Token
  <2>2. Init => s \in HandType
    BY <2>1 DEF Init, NoScenario, HandType
  <2>3. NoTrust \in Trust
    BY DEF NoTrust, Trust
  <2>. QED BY <2>2, <2>3 DEF Init, RestTypeOK
<1>2. Inv /\ Inv' /\ RestTypeOK /\ [Next]_vars => RestTypeOK'
  <2>1. UNCHANGED vars /\ RestTypeOK => RestTypeOK'
    BY DEF vars, daemonVars, RestTypeOK
  <2>. QED BY <2>1, RestKept DEF Inv, LifeInv
<1>3. Inv /\ RestTypeOK => TypeOK
  <2> SUFFICES ASSUME Inv, RestTypeOK PROVE TypeOK
    OBVIOUS
  <2> USE DEF Inv, LifeInv
  <2>1. /\ sequence \in Nat /\ agent \in Agent /\ identity \in Identity
        /\ DOMAIN instances \subseteq Nat /\ \A i \in DOMAIN instances : instances[i] \in Instance
    BY DEF StoreInv
  <2>2. workloads \subseteq Nat /\ challenges \subseteq workloads
    BY <2>1 DEF EnrollInv
  <2>3. \A t \in tokens : t.instance \in DOMAIN instances
    BY DEF TokenInv, Covered
  <2>4. s \in [agentID : Nat, regID : Nat, challengeID : Nat, instanceID : {0} \cup DOMAIN instances, issuedToken : Token]
    BY DEF HandInv, RestTypeOK, HandType
  <2>. QED BY <2>1, <2>2, <2>3, <2>4 DEF DeadInv, RestTypeOK, TypeOK
<1>. QED BY <1>1, <1>2, <1>3, InvAlways, PTL DEF Spec
=============================================================================

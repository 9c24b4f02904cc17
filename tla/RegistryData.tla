---------------------------- MODULE RegistryData ----------------------------
(***************************************************************************)
(* The records the fake registry keeps and the requests and replies of its *)
(* HTTP interface (conformance/runner/registry.go).                        *)
(*                                                                         *)
(* Names are abstracted to the value of the sequence counter they are      *)
(* formatted from, the empty name to 0.  What SeedAgent's caller passes    *)
(* (the authority root) and what SetIdentityAttributes' caller passes (the *)
(* subject) are abstracted to the agent they were passed for.  Expiry      *)
(* times are naturals; 0 is Go's zero time, "no lease".                    *)
(***************************************************************************)
EXTENDS Integers, FiniteSets, Sequences, Functions

AgentState    == {"", "active", "suspended", "retired"}
IdentityState == {"", "active", "suspended", "revoked"}
InstanceState == {"", "active", "terminated"}

Torn == -1   \* a string read while it was being written

Agent    == [ref : Nat, state : AgentState, epoch : Nat]
Identity == [id : Nat, state : IdentityState, epoch : Nat,
             subject : Nat, root : Nat]
Instance == [id : Nat, agentID : Nat, registrationID : Nat,
             attestationRef : Nat, lease : Nat,
             state : InstanceState, generation : Nat]

NoAgent    == [ref |-> 0, state |-> "", epoch |-> 0]
NoIdentity == [id |-> 0, state |-> "", epoch |-> 0, subject |-> 0, root |-> 0]
NoInstance == [id |-> 0, agentID |-> 0, registrationID |-> 0,
               attestationRef |-> 0, lease |-> 0, state |-> "",
               generation |-> 0]

Lists  == {"namespaces", "agents", "identities", "workloads"}
AllOps == Lists \cup {"context", "instances", "commit", "malformed"}

Request == [op : AllOps,
            agentID : Nat, instanceID : Nat, registrationID : Nat,
            attestationRef : Nat, lease : Nat]

Ask(op, agentID, instanceID, registrationID, attestationRef, lease) ==
  [op |-> op, agentID |-> agentID, instanceID |-> instanceID,
   registrationID |-> registrationID, attestationRef |-> attestationRef,
   lease |-> lease]

NoRequest == Ask("namespaces", 0, 0, 0, 0, 0)

Reply ==
       [kind : {"namespaces"}, root : Nat \cup {Torn}]
  \cup [kind : {"agents"}, agent : Agent]
  \cup [kind : {"identities"}, identity : Identity]
  \cup [kind : {"workloads"}, order : Seq(Nat)]
  \cup [kind : {"instances"}, items : SUBSET Instance]
  \cup [kind : {"context"}, agent : Agent, identity : Identity,
        instance : Instance, registrationID : Nat]
  \cup [kind : {"created"}, instance : Instance]
  \cup [kind : {"refused"}, req : Request,
        why : {"invalid_request", "unknown agent", "unknown instance",
               "unknown workload registration"}]

=============================================================================

------------------------------ MODULE SdkClient ------------------------------
(***************************************************************************)
(* The API clients of the two Go SDKs, sdk/go/eidovela/client.go and       *)
(* sdk/go/eidovela/v3/client.go: every method is one HTTP exchange made by *)
(* post or get, which neither retry nor remember anything.                 *)
(*                                                                         *)
(* The network, net/http and the authority are external.  A request or an  *)
(* answer may be lost or late, the caller may give up while its request is *)
(* under way, a request whose caller is gone may still be carried out, and *)
(* an answer may be cut short.  net/http follows redirects to wherever     *)
(* they lead, with the body after 307 and 308 and as a GET without one     *)
(* after 301, 302 and 303, since no client sets CheckRedirect, and repeats *)
(* an exchange on a broken connection only for a GET.                      *)
(***************************************************************************)
EXTENDS Naturals

CONSTANTS
    Call,          \* the calls the callers make
    Challenge,     \* the enrollment challenges they complete
    Sdk,           \* the package each call is made with: "v2" or "v3"
    Used,          \* the methods they call
    Bounded,       \* the calls whose context has a deadline
    Redirects,     \* the redirect statuses something on the way answers with
    MaxRedirects   \* the redirects net/http follows for one call (10 in net/http)

ASSUME SdkClientAssumption ==
    /\ Sdk \in [Call -> {"v2", "v3"}]
    /\ Call \cap Challenge = {}
    /\ Challenge # {}
    /\ Bounded \subseteq Call
    /\ Redirects \subseteq {"301", "302", "303", "307", "308"}
    /\ MaxRedirects \in Nat

VARIABLES
    method,     \* the method of each call
    challenge,  \* the challenge a call of CompleteEnrollment completes
    stage,      \* what the caller of each call knows
    exchange,   \* the HTTP exchange of each call
    done,       \* how often the authority has carried out each call
    spent       \* the authority's record of the proof identifiers it has accepted

vars == <<method, challenge, stage, exchange, done, spent>>

-----------------------------------------------------------------------------
(* The methods: the verb and the path of the request each one makes.       *)

Post(name, path) == [name |-> name, verb |-> "POST", path |-> path]
Get(name, path) == [name |-> name, verb |-> "GET", path |-> path]

V2Blueprints == {
    Post("RegisterBlueprint", "blueprints"), Post("PublishBlueprint", "blueprints/id/publish"),
    Post("DeprecateBlueprint", "blueprints/id/deprecate"), Get("ListBlueprints", "blueprints")}

V2Enrollment == {
    Post("RegisterAgent", "agents"), Post("RegisterWorkload", "workload-registrations"),
    Post("CreateChallenge", "enrollments"), Post("CompleteEnrollment", "enrollments/complete")}

V2Lifecycle == {
    Post("Activate", "agents/id/activate"), Post("LeaseInstance", "instances/id/lease"),
    Post("TerminateInstance", "instances/id/terminate"), Post("Suspend", "agents/id/suspend"),
    Post("Revoke", "agents/id/revoke")}

V2Tokens == {
    Post("Token", "oauth2/token"), Post("Exchange", "token/exchange"), Post("Introspect", "introspect")}

V2Federation == {
    Post("CreateFederationTrust", "federation/trusts"),
    Get("ListFederationTrusts", "federation/trusts"), Get("GetFederationTrust", "federation/trusts"),
    Post("EnableFederationTrust", "federation/trusts/enable"),
    Post("DisableFederationTrust", "federation/trusts/disable")}

V2Reads == {
    Get("ListAgents", "agents"), Get("ListAgentInstances", "agents/id/instances"),
    Get("ListEvidence", "evidence"), Get("AgentDetail", "agents/id"), Get("OutboxStatus", "ops/outbox")}

V2Operations == {
    Post("BrokerIssue", "broker/issue"), Get("KeyStatus", "ops/keys"),
    Post("RotateSigningKey", "ops/keys/rotate"), Get("ListOutboxEvents", "ops/outbox/events"),
    Post("RedriveOutboxEvent", "ops/outbox/events/id/redrive"),
    Get("FederationTrustStatuses", "federation/trusts/status")}

V3Enrollment == {
    Post("CreateChallenge", "enrollments"), Post("CompleteEnrollment", "enrollments/complete")}

V3Tokens == {
    Post("Token", "oauth2/token"), Post("Exchange", "token/exchange"),
    Post("Introspect", "introspect"), Post("BrokerIssue", "broker/issue")}

V3Registry == {
    Get("VerifiedContext", "verified-agent-context"), Get("ListRegistryAgents", "registry/agents"),
    Get("GetRegistryAgent", "registry/agents/id"),
    Get("ListRegistryInstances", "registry/agents/id/instances"), Get("EvidenceEvents", "evidence")}

V3Operations == {
    Get("OutboxStatus", "ops/outbox"), Get("OutboxEvents", "ops/outbox/events"),
    Post("RedriveOutboxEvent", "ops/outbox/events/id/redrive"),
    Get("KeyStatus", "ops/keys"), Post("RotateSigningKey", "ops/keys/rotate")}

V3Federation == {
    Post("CreateFederationTrust", "federation/trusts"), Get("FederationTrusts", "federation/trusts"),
    Post("SetFederationTrustStatus", "federation/trusts/enable"),
    Post("SetFederationTrustStatus", "federation/trusts/disable"),
    Get("FederationTrustStatuses", "federation/trusts/status")}

V3Credentials == {
    Get("ListCredentials", "credentials"), Post("RevokeCredential", "credential-revocations"),
    Post("SetAuthenticationState", "authentication-state/id/op"), Get("GetAttestation", "attestations/ref")}

V2Method == UNION {V2Blueprints, V2Enrollment, V2Lifecycle, V2Tokens, V2Federation, V2Reads, V2Operations}

V3Method == UNION {V3Enrollment, V3Tokens, V3Registry, V3Operations, V3Federation, V3Credentials}

Method == V2Method \cup V3Method

Methods(sdk) == IF sdk = "v2" THEN V2Method ELSE V3Method

-----------------------------------------------------------------------------
(* Proofs of possession.  Two methods sign one, with the identifier (jti)  *)
(* the authority accepts once; the other requests carry none.              *)

Writes(c) == method[c].verb = "POST"

Enrolls(c) == method[c].name = "CompleteEnrollment"

Proves(c) == Enrolls(c) \/ method[c].name = "Token"

\* Faulty variant: a token proof is named for what it asks, as an enrollment's is.
JtiOfRequest(c) == challenge[c]

\* Faulty variant: an enrollment proof gets a random identifier, as a token's does.
JtiRandom(c) == c

\* tokenProof draws 16 random bytes for every call; enrollmentProof takes the
\* identifier of the challenge.
Jti(c) == IF Enrolls(c) THEN challenge[c] ELSE c

-----------------------------------------------------------------------------

\* A request goes to the method's own operation, at home, or elsewhere: to another
\* operation, or to whatever else a redirect may name.
NoExchange == [at |-> "none", verb |-> "none", place |-> "none", hops |-> 0, answer |-> "none"]

Request(verb, place, hops) == [at |-> "request", verb |-> verb, place |-> place, hops |-> hops, answer |-> "none"]

Init ==
    /\ method \in [Call -> {m \in Method : m.name \in Used}]
    /\ \A c \in Call : method[c] \in Methods(Sdk[c])
    /\ challenge \in [Call -> Challenge]
    /\ stage = [c \in Call |-> "idle"]
    /\ exchange = [c \in Call |-> NoExchange]
    /\ done = [c \in Call |-> 0]
    /\ spent = {}

\* The method builds its request and sends it.
Begin(c) ==
    /\ stage[c] = "idle"
    /\ stage' = [stage EXCEPT ![c] = "waiting"]
    /\ exchange' = [exchange EXCEPT ![c] = Request(method[c].verb, "home", 0)]
    /\ UNCHANGED <<method, challenge, done, spent>>

\* The proof cannot be signed or the URL does not parse: nothing is sent.
BeginFails(c) ==
    /\ stage[c] = "idle"
    /\ stage' = [stage EXCEPT ![c] = "unsent"]
    /\ UNCHANGED <<method, challenge, exchange, done, spent>>

-----------------------------------------------------------------------------
(* The authority and the way to it.  None of this waits for the caller.    *)

Arrived(c, answer) ==
    exchange' = [exchange EXCEPT ![c].at = "answer", ![c].answer = answer]

\* The proof of a request that is out.
Presents(c) == exchange[c].at = "request" /\ exchange[c].verb = "POST" /\ Proves(c)

Record(c) == spent' = IF Presents(c) THEN spent \cup {Jti(c)} ELSE spent

\* The statuses after which net/http sends the same request again.
Again == {"307", "308"}

\* A write is carried out.  Its answer may be cut short or empty, may point to a page
\* to look at, and a gateway that gave up may have put an error in its place.
Perform(c) ==
    /\ exchange[c].at = "request" /\ exchange[c].place = "home"
    /\ exchange[c].verb = "POST"
    /\ Proves(c) => Jti(c) \notin spent
    /\ done' = [done EXCEPT ![c] = @ + 1]
    /\ Record(c)
    /\ \E answer \in {"own", "cut", "refused"} \cup (Redirects \ Again) : Arrived(c, answer)
    /\ UNCHANGED <<method, challenge, stage>>

\* A proof that was used before is refused.
RefuseSpent(c) ==
    /\ Presents(c)
    /\ Jti(c) \in spent
    /\ Arrived(c, "spent")
    /\ UNCHANGED <<method, challenge, stage, done, spent>>

\* A GET answers what is to be read at the path, whoever asks.
Read(c) ==
    /\ exchange[c].at = "request" /\ exchange[c].place = "home"
    /\ exchange[c].verb = "GET"
    /\ \E answer \in {"cut", IF Writes(c) THEN "foreign" ELSE "own"} : Arrived(c, answer)
    /\ UNCHANGED <<method, challenge, stage, done, spent>>

\* Elsewhere any answer is possible.  Another operation of the authority may take the
\* proof that comes with the request.
AnswerElsewhere(c) ==
    /\ exchange[c].at = "request" /\ exchange[c].place = "elsewhere"
    /\ \E answer \in {"foreign", "cut"} : Arrived(c, answer)
    /\ Record(c) \/ UNCHANGED spent
    /\ UNCHANGED <<method, challenge, stage, done>>

\* Anything may be refused, and is then not carried out; the proof is used up when it
\* was the request that was at fault and not the proof.
Refuse(c) ==
    /\ exchange[c].at = "request"
    /\ Arrived(c, "refused")
    /\ Record(c) \/ UNCHANGED spent
    /\ UNCHANGED <<method, challenge, stage, done>>

\* Something on the way redirects a request before it is carried out.
Redirect(c) ==
    /\ exchange[c].at = "request"
    /\ \E status \in Redirects : Arrived(c, status)
    /\ UNCHANGED <<method, challenge, stage, done, spent>>

\* The connection breaks, before or after the authority has the request.
Break(c) ==
    /\ exchange[c].at \in {"request", "answer"}
    /\ exchange' = [exchange EXCEPT ![c].at = "broken", ![c].answer = "none"]
    /\ UNCHANGED <<method, challenge, stage, done, spent>>

-----------------------------------------------------------------------------
(* The caller's side of the exchange: client.Do and what do makes of the   *)
(* answer.                                                                 *)

Return(c, s) ==
    /\ stage' = [stage EXCEPT ![c] = s]
    /\ UNCHANGED <<method, challenge, done, spent>>

HasAnswer(c) == stage[c] = "waiting" /\ exchange[c].at = "answer"

\* Faulty variant: whatever the broken exchange was, it is made again.
RepeatAny(c) ==
    /\ stage[c] = "waiting"
    /\ exchange[c].at = "broken"
    /\ exchange' = [exchange EXCEPT ![c] = Request(@.verb, @.place, @.hops)]
    /\ UNCHANGED <<method, challenge, stage, done, spent>>

\* Faulty variant: the limit is checked after the redirect is followed.
FollowOneMore(c) ==
    /\ HasAnswer(c)
    /\ exchange[c].answer \in Redirects
    /\ exchange[c].hops <= MaxRedirects
    /\ exchange' = [exchange EXCEPT ![c] = Request(@.verb, @.place, @.hops + 1)]
    /\ UNCHANGED <<method, challenge, stage, done, spent>>

\* Faulty variant: the status of the answer is not looked at.
SucceedAnyStatus(c) ==
    /\ HasAnswer(c)
    /\ exchange[c].answer \in {"own", "foreign", "refused", "spent"}
    /\ Return(c, "ok")
    /\ UNCHANGED exchange

\* Faulty variant: a caller that gave up is told that nothing was sent.
GiveUpUnsent(c) ==
    /\ c \in Bounded
    /\ stage[c] = "waiting"
    /\ Return(c, "unsent")
    /\ UNCHANGED exchange

\* Faulty variant: the request is made without the caller's context.
GiveUpNever(c) == FALSE

\* net/http makes a GET again when its connection broke.
Repeat(c) ==
    /\ stage[c] = "waiting"
    /\ exchange[c].at = "broken"
    /\ exchange[c].verb = "GET"
    /\ exchange' = [exchange EXCEPT ![c] = Request(@.verb, @.place, @.hops)]
    /\ UNCHANGED <<method, challenge, stage, done, spent>>

\* net/http follows a redirect, up to its limit, to wherever it leads.
Follow(c) ==
    /\ HasAnswer(c)
    /\ exchange[c].answer \in Redirects
    /\ exchange[c].hops < MaxRedirects
    /\ \E place \in {"home", "elsewhere"} :
          LET verb == IF exchange[c].answer \in Again THEN exchange[c].verb ELSE "GET"
          IN  exchange' = [exchange EXCEPT ![c] = Request(verb, place, @.hops + 1)]
    /\ UNCHANGED <<method, challenge, stage, done, spent>>

\* A 2xx answer whose body decodes.  Any JSON object decodes: a field it lacks keeps
\* its zero value.
Succeed(c) ==
    /\ HasAnswer(c)
    /\ exchange[c].answer \in {"own", "foreign"}
    /\ Return(c, "ok")
    /\ UNCHANGED exchange

\* Everything else the caller sees as an error: a broken connection, a redirect too
\* many, a status that is not 2xx, a body that does not decode.
Fail(c) ==
    /\ \/ stage[c] = "waiting" /\ exchange[c].at = "broken"
       \/ HasAnswer(c) /\ exchange[c].answer \in {"cut", "refused", "spent"}
       \/ HasAnswer(c) /\ exchange[c].answer \in Redirects /\ exchange[c].hops = MaxRedirects
    /\ Return(c, "error")
    /\ UNCHANGED exchange

\* The context's deadline ends the wait; a request that is out stays out.
GiveUp(c) ==
    /\ c \in Bounded
    /\ stage[c] = "waiting"
    /\ Return(c, "error")
    /\ UNCHANGED exchange

-----------------------------------------------------------------------------

Client(c) == Begin(c) \/ BeginFails(c) \/ Repeat(c) \/ Follow(c) \/ Succeed(c) \/ Fail(c) \/ GiveUp(c)

Authority(c) ==
    \/ Perform(c) \/ RefuseSpent(c) \/ Read(c) \/ AnswerElsewhere(c)
    \/ Refuse(c) \/ Redirect(c) \/ Break(c)

Next == \E c \in Call : Client(c) \/ Authority(c)

Spec == Init /\ [][Next]_vars

\* A context's deadline expires.  Nothing is assumed of the network or the authority.
FairSpec == Spec /\ \A c \in Call : WF_vars(GiveUp(c))

-----------------------------------------------------------------------------
(* Properties.                                                             *)

Stage == {"idle", "waiting", "ok", "error", "unsent"}

Exchange == [at : {"none", "request", "answer", "broken"}, verb : {"none", "GET", "POST"},
             place : {"none", "home", "elsewhere"}, hops : 0 .. MaxRedirects,
             answer : {"none", "own", "foreign", "cut", "refused", "spent"} \cup Redirects]

\* Every variable has its type.
TypeOK ==
    /\ method \in [Call -> Method]
    /\ challenge \in [Call -> Challenge]
    /\ stage \in [Call -> Stage]
    /\ exchange \in [Call -> Exchange]
    /\ done \in [Call -> Nat]
    /\ spent \subseteq Call \cup Challenge

\* However a call ends, and whatever was redirected, lost, late or cut short on the
\* way, the authority carries it out at most once: an error is never followed by a
\* second attempt the caller did not make (post, get, do).
AtMostOnce == \A c \in Call : done[c] <= 1

\* Where a redirect has led a call away from the request its method made.
Astray(c) ==
    /\ exchange[c].at # "none"
    /\ exchange[c].verb # method[c].verb \/ exchange[c].place = "elsewhere"

\* Calls that complete the same enrollment, one after the other timed out, say, make
\* one instance between them, and at most one of them is told so by the authority
\* (enrollmentProof).
OneEnrollmentPerChallenge ==
    \A c, d \in Call :
        /\ Enrolls(c) /\ Enrolls(d) /\ challenge[c] = challenge[d]
        /\ done[c] > 0 /\ (done[d] > 0 \/ (stage[d] = "ok" /\ ~Astray(d)))
        => c = d

\* A caller is told its proof was used before only when another call with the same
\* challenge was sent: its own request uses its proof once, wherever redirects lead
\* it.  A token may always be asked for again, since every request has a proof of its
\* own (tokenProof).  That the other call enrolled is not promised: it may have been
\* refused with its proof used up.
SpentByAnother ==
    \A c \in Call :
        exchange[c].answer = "spent" =>
            /\ Enrolls(c)
            /\ \E d \in Call \ {c} : Enrolls(d) /\ challenge[d] = challenge[c] /\ exchange[d].at # "none"

\* A write that returned without an error was carried out, as the SDK says of
\* CreateFederationTrust ("creates or replaces a trust anchor for a peer issuer"),
\* unless redirects led it astray: do then takes any JSON object for its answer.
SuccessMeansDone ==
    \A c \in Call : Writes(c) /\ stage[c] = "ok" /\ ~Astray(c) => done[c] = 1

\* The promise to callers.
Calls == INSTANCE RemoteCall
         WITH writes <- [c \in Call |-> Writes(c)], astray <- [c \in Call |-> Astray(c)]

ImplementsRemoteCall == Calls!Spec

\* A call whose context has a deadline returns, though nothing ever answers or every
\* answer is a redirect.
BoundedCallsReturn ==
    \A c \in Bounded : stage[c] = "waiting" ~> stage[c] # "waiting"

=============================================================================

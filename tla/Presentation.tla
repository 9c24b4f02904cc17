---------------------------- MODULE Presentation ----------------------------
(***************************************************************************)
(* Federated presentation: SignDPoP and IntrospectContext of               *)
(* sdk/go/eidovela/v3/presentation.go, which differ from those of the      *)
(* frozen sdk/go/eidovela/presentation.go only in comments.                *)
(*                                                                         *)
(* A workload signs proofs for its token; gateways relay them to the       *)
(* deployment's /v1/introspect and check the context that comes back.  The *)
(* deployment, with its ledger of used proofs, the network and the clock   *)
(* are external: answers are late, lost, redirected or incomplete, and     *)
(* tokens are stopped while calls run.                                     *)
(*                                                                         *)
(* A context is whole when it has its names, its class, both epochs and    *)
(* an identity type whose rule on the subject it keeps; none of these is   *)
(* compared with anything else.                                            *)
(*                                                                         *)
(* Time is counted in ticks.  A call that is overdue ends before the clock *)
(* ticks again, as long as it waits for the network.                       *)
(***************************************************************************)
EXTENDS Naturals, Sequences

CONSTANTS
    Gateway,        \* callers of IntrospectContext
    Key,            \* proof keys
    Audience,
    Holder, Served, \* the keys and audiences tokens are issued for
    NoKey, NoAudience,  \* what a context without these fields has
    ClientTimeouts, \* timeouts of the callers' http.Clients; 0 is none
    Cap,            \* the timeout IntrospectContext allows at most, 10 s
    ProofAge,       \* the deployment refuses older proofs
    Lifetime,       \* of a token
    MaxToken, MaxProof, MaxTime  \* bound the tokens, the proofs and the clock

ASSUME PresentationAssumption ==
    /\ NoKey \notin Key /\ NoAudience \notin Audience
    /\ Holder \subseteq Key /\ Served \subseteq Audience
    /\ ClientTimeouts \subseteq Nat
    /\ Cap \in Nat \ {0} /\ ProofAge \in Nat /\ Lifetime \in Nat \ {0}
    /\ MaxToken \in Nat /\ MaxProof \in Nat /\ MaxTime \in Nat

VARIABLES
    now,
    minted,     \* the tokens, in the order they were issued
    proofs,     \* the signed proofs
    used,       \* the deployment's ledger: consumed jtis
    lateProofs, \* proofs of calls that gave up; the deployment may still see them
    carried,    \* where tokens and proofs were sent
    clientTimeout,  \* of each gateway's http.Client
    pc, call,   \* IntrospectContext: where it is and what it was called with
    reply,      \* what came back
    answer,     \* what it returned; "other" is a transport error or a status
    entitled    \* history: the deployment got a good, never relayed proof of a live token

externalVars == <<now, minted, proofs, used, lateProofs>>
callVars == <<pc, call, reply, answer, entitled>>
vars == <<externalVars, carried, clientTimeout, callVars>>

NoContext == [token |-> 0, jkt |-> NoKey, audience |-> NoAudience, expiresAt |-> 0, whole |-> FALSE]
NoReply == [kind |-> "none", context |-> NoContext]
NoCall == [token |-> 0, audience |-> NoAudience, proof |-> 0, presenter |-> NoKey,
           began |-> 0, sole |-> FALSE]

Init ==
    /\ now = 0
    /\ minted = << >> /\ proofs = << >>
    /\ used = {} /\ lateProofs = {} /\ carried = {}
    /\ clientTimeout \in [Gateway -> ClientTimeouts]
    /\ pc = [g \in Gateway |-> "idle"]
    /\ call = [g \in Gateway |-> NoCall]
    /\ reply = [g \in Gateway |-> NoReply]
    /\ answer = [g \in Gateway |-> "none"]
    /\ entitled = [g \in Gateway |-> FALSE]

-----------------------------------------------------------------------------
(* Timers: http.Client.Timeout runs until the body is read.                *)

\* Faulty variant: the caller's timeout is kept, whatever it is.
TimeoutOfClient(g) ==
    IF clientTimeout[g] = 0 THEN MaxTime + 1 ELSE clientTimeout[g]

Timeout(g) == IF clientTimeout[g] \in 1..Cap THEN clientTimeout[g] ELSE Cap

Waiting(g) == pc[g] \in {"sent", "answered"}
Overdue(g) == Waiting(g) /\ now >= call[g].began + Timeout(g)

Tick ==
    /\ now < MaxTime
    /\ \A g \in Gateway : ~Overdue(g)
    /\ now' = now + 1
    /\ UNCHANGED <<minted, proofs, used, lateProofs, carried, clientTimeout, callVars>>

-----------------------------------------------------------------------------
(* Tokens are issued and stopped, by suspension, revocation or termination. *)

Mint ==
    /\ Len(minted) < MaxToken
    /\ \E k \in Holder, a \in Served :
          minted' = Append(minted, [jkt |-> k, audience |-> a, expiresAt |-> now + Lifetime,
                                    live |-> TRUE, stoppedAt |-> 0])
    /\ UNCHANGED <<now, proofs, used, lateProofs, carried, clientTimeout, callVars>>

Stop(t) ==
    /\ minted[t].live
    /\ minted' = [minted EXCEPT ![t].live = FALSE, ![t].stoppedAt = now]
    /\ UNCHANGED <<now, proofs, used, lateProofs, carried, clientTimeout, callVars>>

-----------------------------------------------------------------------------
(* SignDPoP.                                                               *)

\* A target that is not absolute, has no host or has user information is refused.
Targets == {"introspect", "introspect?query", "resource", "relative"}
Signable(target) == target # "relative"

\* Query and fragment are dropped.
Htu(target) == IF target = "introspect?query" THEN "introspect" ELSE target

Signed(jti, target, t, k) ==
    proofs' = Append(proofs, [jti |-> jti, htu |-> Htu(target), ath |-> t, key |-> k, iat |-> now])

\* Faulty variant: the jti is derived from the token.
SignDPoPOncePerToken(t, target, k) ==
    /\ Len(proofs) < MaxProof /\ Signable(target)
    /\ Signed(t, target, t, k)
    /\ UNCHANGED <<now, minted, used, lateProofs, carried, clientTimeout, callVars>>

\* The jti is random, so it is new.  What fails returns no proof and changes nothing.
SignDPoP(t, target, k) ==
    /\ Len(proofs) < MaxProof /\ Signable(target)
    /\ Signed(Len(proofs) + 1, target, t, k)
    /\ UNCHANGED <<now, minted, used, lateProofs, carried, clientTimeout, callVars>>

-----------------------------------------------------------------------------
(* The deployment.                                                         *)

Token(g) == minted[call[g].token]
Proof(g) == proofs[call[g].proof]

GoodProof(g) ==
    /\ Proof(g).htu = "introspect"
    /\ Proof(g).ath = call[g].token
    /\ Proof(g).key = Token(g).jkt
    /\ now < Proof(g).iat + ProofAge

Eligible(g) ==
    Token(g).live /\ now < Token(g).expiresAt /\ call[g].audience = Token(g).audience

TrueContext(t) ==
    [token |-> t, jkt |-> minted[t].jkt, audience |-> minted[t].audience,
     expiresAt |-> minted[t].expiresAt, whole |-> TRUE]

\* Contexts with one field missing.
Incomplete(c) ==
    {[c EXCEPT !.token = 0], [c EXCEPT !.jkt = NoKey], [c EXCEPT !.audience = NoAudience],
     [c EXCEPT !.expiresAt = 0], [c EXCEPT !.whole = FALSE]}

Reply(g, kind, context) ==
    /\ reply' = [reply EXCEPT ![g] = [kind |-> kind, context |-> context]]
    /\ pc' = [pc EXCEPT ![g] = "answered"]

\* A proof is consumed before the token is looked at.
Introspect(g) ==
    /\ pc[g] = "sent"
    /\ IF GoodProof(g) /\ Proof(g).jti \notin used
       THEN /\ used' = used \cup {Proof(g).jti}
            /\ IF Eligible(g) THEN Reply(g, "context", TrueContext(call[g].token))
                              ELSE Reply(g, "inactive", NoContext)
       ELSE /\ Reply(g, "status", NoContext)
            /\ UNCHANGED used
    /\ entitled' = [entitled EXCEPT ![g] = GoodProof(g) /\ Eligible(g) /\ call[g].sole]
    /\ UNCHANGED <<now, minted, proofs, lateProofs, carried, clientTimeout, call, answer>>

\* An older registry record, another version or a proxy: no context, an incomplete
\* one, no JSON or too much of it, another status, or a redirect to another host.
Misanswer(g) ==
    /\ pc[g] = "sent"
    /\ \/ \E kind \in {"garbage", "status", "redirect"} : Reply(g, kind, NoContext)
       \/ Eligible(g) /\ \E c \in Incomplete(TrueContext(call[g].token)) : Reply(g, "context", c)
    /\ used' \in {used, used \cup {Proof(g).jti}}
    /\ UNCHANGED <<now, minted, proofs, lateProofs, carried, clientTimeout, call, answer, entitled>>

\* The request of a call that gave up arrives.
IntrospectLate(p) ==
    /\ p \in lateProofs
    /\ used' = used \cup {proofs[p].jti}
    /\ lateProofs' = lateProofs \ {p}
    /\ UNCHANGED <<now, minted, proofs, carried, clientTimeout, callVars>>

-----------------------------------------------------------------------------
(* IntrospectContext.                                                      *)

Return(g, result) ==
    /\ answer' = [answer EXCEPT ![g] = result]
    /\ pc' = [pc EXCEPT ![g] = "idle"]
    /\ call' = [call EXCEPT ![g] = NoCall]
    /\ reply' = [reply EXCEPT ![g] = NoReply]
    /\ entitled' = [entitled EXCEPT ![g] = FALSE]

\* The client's base URL: the deployment by TLS or on the loopback, or by plain HTTP.
Endpoints == {"deployment", "http"}
Secure(endpoint) == endpoint # "http"

\* Faulty variant: the request goes out without a token and a proof.
RefuseGoesOn(g) ==
    /\ pc[g] = "idle"
    /\ pc' = [pc EXCEPT ![g] = "sent"]
    /\ UNCHANGED <<externalVars, carried, clientTimeout, call, reply, answer, entitled>>

\* An empty argument, a URL with more than host and path, or HTTP to another host.
Refuse(g) ==
    /\ pc[g] = "idle"
    /\ Return(g, "invalid")
    /\ UNCHANGED <<externalVars, carried, clientTimeout>>

\* The request goes out.  Nothing keeps a caller from relaying a proof twice; sole is
\* history: no other call has relayed this proof so far.
Send(g) ==
    /\ pc[g] = "idle"
    /\ now + Cap <= MaxTime
    /\ \E t \in DOMAIN minted, a \in Audience, p \in DOMAIN proofs, k \in Key :
          call' = [h \in Gateway |->
                     IF h = g
                     THEN [token |-> t, audience |-> a, proof |-> p, presenter |-> k, began |-> now,
                           sole |-> p \notin lateProofs /\ proofs[p].jti \notin used
                                    /\ \A i \in Gateway : Waiting(i) => call[i].proof # p]
                     ELSE [call[h] EXCEPT !.sole = @ /\ call[h].proof # p]]
    /\ \E endpoint \in Endpoints : Secure(endpoint) /\ carried' = carried \cup {endpoint}
    /\ pc' = [pc EXCEPT ![g] = "sent"]
    /\ answer' = [answer EXCEPT ![g] = "none"]
    /\ UNCHANGED <<externalVars, clientTimeout, reply, entitled>>

GiveUp(g) ==
    /\ Return(g, "other")
    /\ lateProofs' = IF pc[g] = "sent" THEN lateProofs \cup {call[g].proof} ELSE lateProofs
    /\ UNCHANGED <<now, minted, proofs, used, carried, clientTimeout>>

\* The connection fails, before or after the deployment has the request.
TransportFails(g) == Waiting(g) /\ GiveUp(g)

TimeOut(g) == Overdue(g) /\ GiveUp(g)

Fail(g, kinds, error) ==
    /\ pc[g] = "answered" /\ reply[g].kind \in kinds
    /\ Return(g, error)
    /\ UNCHANGED <<externalVars, carried, clientTimeout>>

\* Faulty variant: a redirect is followed, as http.Client does by itself.
FollowRedirect(g) ==
    \/ Fail(g, {"status"}, "other")
    \/ /\ pc[g] = "answered" /\ reply[g].kind = "redirect"
       /\ carried' = carried \cup {"elsewhere"}
       /\ pc' = [pc EXCEPT ![g] = "sent"]
       /\ UNCHANGED <<externalVars, clientTimeout, call, reply, answer, entitled>>

\* A redirect is an answer with another status.
NotOK(g) == Fail(g, {"status", "redirect"}, "other")
NotRead(g) == Fail(g, {"garbage"}, "invalid")
Inactive(g) == Fail(g, {"inactive"}, "inactive")

\* The body is read; the timer no longer runs.
Read(g) ==
    /\ pc[g] = "answered" /\ reply[g].kind = "context"
    /\ pc' = [pc EXCEPT ![g] = "check"]
    /\ UNCHANGED <<externalVars, carried, clientTimeout, call, reply, answer, entitled>>

Bound(g) ==
    LET c == reply[g].context
    IN /\ c.token = call[g].token
       /\ c.jkt = call[g].presenter
       /\ c.audience = call[g].audience
       /\ c.whole

\* Faulty variant: the clock was read before the request was sent.
CheckWithEarlyClock(g) ==
    /\ pc[g] = "check"
    /\ Return(g, IF Bound(g) /\ call[g].began < reply[g].context.expiresAt THEN "" ELSE "invalid")
    /\ UNCHANGED <<externalVars, carried, clientTimeout>>

Check(g) ==
    /\ pc[g] = "check"
    /\ Return(g, IF Bound(g) /\ now < reply[g].context.expiresAt THEN "" ELSE "invalid")
    /\ UNCHANGED <<externalVars, carried, clientTimeout>>

-----------------------------------------------------------------------------
(* The specification.                                                      *)

Environment ==
    \/ Tick \/ Mint
    \/ \E t \in DOMAIN minted : Stop(t)
    \/ \E p \in DOMAIN proofs : IntrospectLate(p)
    \/ \E g \in Gateway : Introspect(g) \/ Misanswer(g)

Presenting == \E t \in DOMAIN minted, target \in Targets, k \in Key : SignDPoP(t, target, k)

IntrospectContext(g) ==
    \/ Refuse(g) \/ Send(g) \/ TransportFails(g) \/ TimeOut(g)
    \/ NotOK(g) \/ NotRead(g) \/ Inactive(g) \/ Read(g) \/ Check(g)

Next == Environment \/ Presenting \/ \E g \in Gateway : IntrospectContext(g)

Spec == Init /\ [][Next]_vars

\* Time passes, timers fire and what was read is checked; nobody owes an answer.
FairSpec ==
    Spec /\ WF_vars(Tick) /\ \A g \in Gateway : WF_vars(TimeOut(g)) /\ WF_vars(Check(g))

-----------------------------------------------------------------------------
(* Properties.                                                             *)

MintedToken == [jkt : Key, audience : Audience, expiresAt : Nat, live : BOOLEAN, stoppedAt : Nat]
SignedProof == [jti : Nat, htu : Targets, ath : Nat, key : Key, iat : Nat]
Context == [token : Nat, jkt : Key \cup {NoKey}, audience : Audience \cup {NoAudience}, expiresAt : Nat,
            whole : BOOLEAN]

\* Every variable has its type, and a call that runs has a token and a proof.
TypeOK ==
    /\ now \in Nat
    /\ minted \in Seq(MintedToken) /\ proofs \in Seq(SignedProof)
    /\ used \subseteq Nat /\ lateProofs \subseteq DOMAIN proofs
    /\ carried \subseteq Endpoints \cup {"elsewhere"}
    /\ clientTimeout \in [Gateway -> ClientTimeouts]
    /\ pc \in [Gateway -> {"idle", "sent", "answered", "check"}]
    /\ call \in [Gateway -> [token : Nat, audience : Audience \cup {NoAudience}, proof : Nat,
                             presenter : Key \cup {NoKey}, began : Nat, sole : BOOLEAN]]
    /\ \A g \in Gateway : pc[g] # "idle" => call[g].token \in DOMAIN minted /\ call[g].proof \in DOMAIN proofs
    /\ reply \in [Gateway -> [kind : {"none", "status", "redirect", "garbage", "inactive", "context"},
                              context : Context]]
    /\ answer \in [Gateway -> {"none", "", "invalid", "inactive", "other"}]
    /\ entitled \in [Gateway -> BOOLEAN]

Returned(g) == pc[g] # "idle" /\ pc'[g] = "idle"

\* A context that IntrospectContext returns is the whole context of the token that was
\* presented, held by that presenter, for that audience, and not expired when it
\* returns, however long the answer took.
AcceptsOnlyBound ==
    [][\A g \in Gateway : Returned(g) /\ answer'[g] = "" =>
          /\ reply[g].context = TrueContext(call[g].token)
          /\ call[g].presenter = Token(g).jkt
          /\ call[g].audience = Token(g).audience
          /\ now < Token(g).expiresAt]_vars

\* The context of a stopped token is read at most Cap after the token was stopped,
\* whatever timeout the caller's client has: the window of a revocation is bounded.
StaleAtMostCap ==
    [][\A g \in Gateway : pc[g] = "answered" /\ pc'[g] = "check" =>
          Token(g).live \/ now <= Token(g).stoppedAt + Cap]_vars

\* The context is on its way when the call ends.
Lost(g) == answer'[g] = "other" /\ reply[g].kind = "context"

\* A new proof is enough: when the deployment gets, for the first time, a good proof of
\* a live token, and its answer arrives, the call succeeds.  Proofs that were used,
\* lost or still on their way, of the same token and key, do not matter.
NewProofSuffices ==
    [][\A g \in Gateway :
          /\ Returned(g) /\ entitled[g] /\ ~Lost(g)
          /\ call[g].presenter = Token(g).jkt /\ now < Token(g).expiresAt
          => answer'[g] = ""]_vars

\* "Provider transport uses operator-controlled TLS endpoints [and] rejects redirects"
\* (contracts/v3.0/federated-presentation.md:191): tokens and proofs go to the
\* configured deployment only, over TLS or the loopback.
StaysWithDeployment == carried \subseteq {"deployment"}

\* Every call returns, with a client that has no timeout too.
EveryCallReturns == \A g \in Gateway : pc[g] # "idle" ~> pc[g] = "idle"
=============================================================================

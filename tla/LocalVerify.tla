----------------------------- MODULE LocalVerify -----------------------------
(***************************************************************************)
(* Local verification of tokens: Verify of sdk/go/eidovela/v3/verify.go    *)
(* and of its frozen predecessor sdk/go/eidovela/verify.go.  The two take  *)
(* the same steps and differ in the epochs they ask of a token.            *)
(*                                                                         *)
(* A call fetches the key set of the deployment that the token names and   *)
(* then checks signature, audience, expiry and key binding.  Between the   *)
(* call, the fetch and the checks time passes and the deployment rotates   *)
(* its keys, with an overlap, and retires old ones.  The deployments, the  *)
(* network and the http.Client's timeout are external.                     *)
(*                                                                         *)
(* A key is the deployment that made it and its number.  Its kid is any    *)
(* number the deployment gives it: two deployments use the same kids, and  *)
(* nothing keeps a deployment from giving two of its keys one kid.  An     *)
(* issuer is abstracted to its deployment, what precedes "/t/": the        *)
(* tenants of a deployment share its keys.                                 *)
(***************************************************************************)
EXTENDS Naturals, SequencesExt

CONSTANTS
    Verifier,       \* callers of Verify
    SDK,            \* the packages whose Verify they call: "v2", the frozen one, or "v3"
    Deployment,     \* EIDOVELA deployments
    Audience,
    Presenter,      \* proof keys
    NoKey,          \* Go's nil public key
    ClientTimeout,  \* whether the caller's http.Client has a timeout; the default one has none
    Profile,        \* the epochs tokens carry: "v3" both, "legacy" and "v2" one, "zero" a
                    \* frozen package's of 0, "brokered" none
    Lifetime,       \* of a token
    MaxKey,         \* bounds the keys of each deployment
    MaxToken,       \* bounds the tokens
    MaxTime         \* bounds the clock

ASSUME LocalVerifyAssumption ==
    /\ SDK \subseteq {"v2", "v3"}
    /\ NoKey \notin Deployment \X Nat
    /\ ClientTimeout \in BOOLEAN
    /\ Profile \subseteq {"v3", "legacy", "v2", "zero", "brokered"}
    /\ Lifetime \in Nat \ {0}
    /\ MaxKey \in [Deployment -> Nat]
    /\ MaxToken \in Nat /\ MaxTime \in Nat

VARIABLES
    now,
    made,       \* how many keys each deployment has made
    published,  \* each deployment's JWKS
    minted,     \* the tokens, in the order they were signed
    sdk,        \* which Verify it is
    pc, token, audience, proofKey, keys,  \* Verify: its arguments and the fetched JWKS
    answer,     \* Verify: what it returned
    seen,       \* history: entries the token's issuer published at some moment of the call
    always      \* history: entries it published at every moment of the call

clockVars == <<now, made, published, minted>>
callVars == <<sdk, token, audience, proofKey>>
watchVars == <<seen, always>>
vars == <<clockVars, pc, callVars, keys, answer, watchVars>>

\* An entry of a JWKS is usable when it is OKP, Ed25519 and of the right size.
Entry(kid, d, n) == [kid |-> kid, x |-> <<d, n>>]
OtherEntry(kid) == [kid |-> kid, x |-> NoKey]

Usable(jwks) == {e \in Range(jwks) : e.x # NoKey}

Keys(d) == Usable(published[d])

None == [error |-> "none", agentEpoch |-> 0, identityEpoch |-> 0, epoch |-> 0]

Fail(error) == [None EXCEPT !.error = error]

Init ==
    /\ now = 0
    /\ made = [d \in Deployment |-> 1]
    /\ published = [d \in Deployment |-> <<Entry(1, d, 1)>>]
    /\ minted = << >>
    /\ sdk \in [Verifier -> SDK]
    /\ pc = [v \in Verifier |-> "idle"]
    /\ token = [v \in Verifier |-> 0]
    /\ audience \in [Verifier -> Audience]
    /\ proofKey \in [Verifier -> Presenter]
    /\ keys = [v \in Verifier |-> << >>]
    /\ answer = [v \in Verifier |-> None]
    /\ seen = [v \in Verifier |-> {}]
    /\ always = [v \in Verifier |-> {}]

-----------------------------------------------------------------------------
(* The deployments and the clock.                                          *)

Tick ==
    /\ now < MaxTime
    /\ now' = now + 1
    /\ UNCHANGED <<made, published, minted, pc, callVars, keys, answer, watchVars>>

\* The token of a call; a malformed one is number 0.
Arg(v) == minted[token[v]]

Busy(v) == pc[v] \in {"fetch", "check"}

Watch ==
    /\ seen' = [v \in Verifier |-> IF Busy(v) THEN seen[v] \cup Keys(Arg(v).iss)' ELSE seen[v]]
    /\ always' = [v \in Verifier |-> IF Busy(v) THEN always[v] \cap Keys(Arg(v).iss)' ELSE always[v]]

WatchFor(v, d) ==
    /\ seen' = [seen EXCEPT ![v] = Keys(d)]
    /\ always' = [always EXCEPT ![v] = Keys(d)]

\* A new key under a new kid or one already used, perhaps in a second form under the
\* same kid, which precedes it.
Rotate(d) ==
    /\ made[d] < MaxKey[d]
    /\ made' = [made EXCEPT ![d] = @ + 1]
    /\ \E kid \in 1 .. made[d] + 1 : \E twin \in {<< >>, <<OtherEntry(kid)>>} :
          published' = [published EXCEPT ![d] = @ \o twin \o <<Entry(kid, d, made[d] + 1)>>]
    /\ UNCHANGED <<now, minted, pc, callVars, keys, answer>>
    /\ Watch

\* The overlap of a rotation ends: the newest key is left.
Retire(d) ==
    /\ Len(published[d]) > 1
    /\ published' = [published EXCEPT ![d] = <<Last(@)>>]
    /\ UNCHANGED <<now, made, minted, pc, callVars, keys, answer>>
    /\ Watch

\* The claims agentEpoch, identityEpoch, lifecycleEpoch and lifecycle_epoch.  One that
\* is absent is 0; of the last, "claimed" tells which it is.
Claims == [v3 |-> <<1, 1, 0, 0>>, legacy |-> <<0, 0, 1, 0>>, v2 |-> <<0, 0, 0, 1>>,
           zero |-> <<0, 0, 0, 0>>, brokered |-> <<0, 0, 0, 0>>]

\* Signed with the newest key.  The issuer is the one the deployment is configured
\* to write.  "sub" is whether the subject is there and a string.
Mint(d) ==
    /\ Len(minted) < MaxToken
    /\ \E iss \in Deployment, aud \in (SUBSET Audience) \ {{}}, jkt \in Presenter, sub \in BOOLEAN, p \in Profile :
          minted' = Append(minted,
                       [iss |-> iss, kid |-> Last(published[d]).kid, signer |-> Last(published[d]).x,
                        aud |-> aud, exp |-> now + Lifetime, jkt |-> jkt, sub |-> sub,
                        agentEpoch |-> Claims[p][1], identityEpoch |-> Claims[p][2], lifecycleEpoch |-> Claims[p][3],
                        lifecycle_epoch |-> Claims[p][4], claimed |-> p \in {"v2", "zero"}])
    /\ UNCHANGED <<now, made, published, pc, callVars, keys, answer, watchVars>>

-----------------------------------------------------------------------------
(* Verify.                                                                 *)

Return(v, result) ==
    /\ answer' = [answer EXCEPT ![v] = result]
    /\ pc' = [pc EXCEPT ![v] = "idle"]

(* Faulty variants: what Verify would be with one plausible error.  No     *)
(* specification uses them.                                                *)

\* The token's parse error is ignored.
MalformedGoesOn(v) ==
    /\ pc[v] = "idle"
    /\ token' = [token EXCEPT ![v] = 0]
    /\ pc' = [pc EXCEPT ![v] = "fetch"]
    /\ UNCHANGED <<clockVars, sdk, audience, proofKey, keys, answer, watchVars>>

\* The key set of an earlier call is kept.
FetchCached(v) ==
    /\ pc[v] = "fetch"
    /\ keys' = [keys EXCEPT ![v] = IF @ = << >> THEN published[Arg(v).iss] ELSE @]
    /\ pc' = [pc EXCEPT ![v] = "check"]
    /\ UNCHANGED <<clockVars, callVars, answer, watchVars>>

\* The search ends at the first entry with the kid, usable or not.
MatchesByKid(v) == {i \in DOMAIN keys[v] : keys[v][i].kid = Arg(v).kid}

\* The kid is not compared.
MatchesAnyKid(v) == {i \in DOMAIN keys[v] : keys[v][i].x # NoKey}

\* A transport error is logged and the request repeated.
TimeOutAgain(v) ==
    /\ ClientTimeout
    /\ pc[v] = "fetch"
    /\ UNCHANGED vars

\* The segments, the algorithm and the issuer are looked at before anything is sent.
Malformed(v) ==
    /\ pc[v] = "idle"
    /\ Return(v, Fail("invalid"))
    /\ UNCHANGED <<clockVars, callVars, keys, watchVars>>

Call(v) ==
    /\ pc[v] = "idle"
    /\ \E n \in DOMAIN minted, a \in Audience, k \in Presenter :
          /\ token' = [token EXCEPT ![v] = n]
          /\ audience' = [audience EXCEPT ![v] = a]
          /\ proofKey' = [proofKey EXCEPT ![v] = k]
          /\ WatchFor(v, minted[n].iss)
    /\ pc' = [pc EXCEPT ![v] = "fetch"]
    /\ answer' = [answer EXCEPT ![v] = None]
    /\ UNCHANGED <<clockVars, sdk, keys>>

\* The issuer's deployment answers with its key set.
Fetch(v) ==
    /\ pc[v] = "fetch"
    /\ keys' = [keys EXCEPT ![v] = published[Arg(v).iss]]
    /\ pc' = [pc EXCEPT ![v] = "check"]
    /\ UNCHANGED <<clockVars, callVars, answer, watchVars>>

\* It answers with another status, which Verify calls an unknown key, or with
\* what is no key set, or the connection fails.
FetchFails(v) ==
    /\ pc[v] = "fetch"
    /\ \E error \in {"unknown key", "transport"} : Return(v, Fail(error))
    /\ UNCHANGED <<clockVars, callVars, keys, watchVars>>

\* It does not answer.
TimeOut(v) ==
    /\ ClientTimeout
    /\ pc[v] = "fetch"
    /\ Return(v, Fail("transport"))
    /\ UNCHANGED <<clockVars, callVars, keys, watchVars>>

Matches(v) == {i \in DOMAIN keys[v] : keys[v][i].kid = Arg(v).kid /\ keys[v][i].x # NoKey}

\* The first entry that matches.
Public(v) ==
    IF Matches(v) = {} THEN NoKey
    ELSE keys[v][CHOOSE i \in Matches(v) : \A j \in Matches(v) : i <= j].x

\* The principal's epochs are the claims.  In v3 one that is absent is 0, and without
\* either a single epoch stands in; in v2 there is one, which may be 0 but must be
\* there.
PrincipalV3(t) ==
    [error |-> "",
     agentEpoch |-> IF t.agentEpoch = 0 /\ t.identityEpoch = 0 THEN t.lifecycleEpoch ELSE t.agentEpoch,
     identityEpoch |-> t.identityEpoch, epoch |-> 0]

PrincipalV2(t) == [error |-> "", agentEpoch |-> 0, identityEpoch |-> 0, epoch |-> t.lifecycle_epoch]

Principal(v) == IF sdk[v] = "v2" THEN PrincipalV2(Arg(v)) ELSE PrincipalV3(Arg(v))

Epochless(v) == sdk[v] = "v2" /\ ~Arg(v).claimed

\* The checks in their order; the first that fails decides.
Errors == <<"unknown key", "invalid", "audience", "inactive", "key binding", "invalid", "invalid">>

Faults(v) ==
    {i \in DOMAIN Errors :
        \/ i = 1 /\ Public(v) = NoKey
        \/ i = 2 /\ Public(v) # Arg(v).signer
        \/ i = 3 /\ audience[v] \notin Arg(v).aud
        \/ i = 4 /\ now >= Arg(v).exp
        \/ i = 5 /\ Arg(v).jkt # proofKey[v]
        \/ i = 6 /\ ~Arg(v).sub
        \/ i = 7 /\ Epochless(v)}

Verdict(v) ==
    IF Faults(v) = {} THEN Principal(v)
    ELSE Fail(Errors[CHOOSE i \in Faults(v) : \A j \in Faults(v) : i <= j])

Check(v) ==
    /\ pc[v] = "check"
    /\ Return(v, Verdict(v))
    /\ UNCHANGED <<clockVars, callVars, keys, watchVars>>

-----------------------------------------------------------------------------
(* The specification.                                                      *)

External == Tick \/ \E d \in Deployment : Rotate(d) \/ Retire(d) \/ Mint(d)

Verify(v) == Malformed(v) \/ Call(v) \/ Fetch(v) \/ FetchFails(v) \/ TimeOut(v) \/ Check(v)

Next == External \/ \E v \in Verifier : Verify(v)

Spec == Init /\ [][Next]_vars

\* A call goes on when it can; nobody owes it an answer.
FairSpec == Spec /\ \A v \in Verifier : WF_vars(TimeOut(v)) /\ WF_vars(Check(v))

-----------------------------------------------------------------------------
(* Properties.                                                             *)

Token == [iss : Deployment, kid : Nat, signer : Deployment \X Nat, aud : SUBSET Audience, exp : Nat,
          jkt : Presenter, sub : BOOLEAN, agentEpoch : Nat, identityEpoch : Nat, lifecycleEpoch : Nat,
          lifecycle_epoch : Nat, claimed : BOOLEAN]

JWK == [kid : Nat, x : (Deployment \X Nat) \cup {NoKey}]

\* Every variable has its type, and a call that runs has a token.
TypeOK ==
    /\ now \in Nat
    /\ made \in [Deployment -> Nat \ {0}]
    /\ published \in [Deployment -> Seq(JWK)] /\ \A d \in Deployment : published[d] # << >> /\ Last(published[d]).x # NoKey
    /\ minted \in Seq(Token)
    /\ sdk \in [Verifier -> SDK]
    /\ pc \in [Verifier -> {"idle", "fetch", "check"}]
    /\ token \in [Verifier -> Nat] /\ \A v \in Verifier : Busy(v) => token[v] \in DOMAIN minted
    /\ audience \in [Verifier -> Audience] /\ proofKey \in [Verifier -> Presenter]
    /\ keys \in [Verifier -> Seq(JWK)]
    /\ answer \in [Verifier -> [error : {"none", "", "transport"} \cup {Errors[i] : i \in DOMAIN Errors},
                                agentEpoch : Nat, identityEpoch : Nat, epoch : Nat]]
    /\ seen \in [Verifier -> SUBSET JWK] /\ always \in [Verifier -> SUBSET JWK]

Returned(v) == Busy(v) /\ pc'[v] = "idle"

\* The entry that verifies a token.
Signer(t) == [kid |-> t.kid, x |-> t.signer]

\* What Verify accepts was valid: signed with a key that the token's issuer published
\* under the token's kid at some moment of the call, for that audience and proof key,
\* with a subject, and not expired when Verify returns.  In particular a key retired
\* before the call signs nothing.  What the frozen package accepts has an epoch
\* besides.
AcceptsOnlyValid ==
    [][\A v \in Verifier : Returned(v) /\ answer'[v].error = "" =>
          /\ Signer(Arg(v)) \in seen[v]
          /\ audience[v] \in Arg(v).aud
          /\ proofKey[v] = Arg(v).jkt
          /\ now < Arg(v).exp
          /\ Arg(v).sub
          /\ sdk[v] = "v2" => Arg(v).claimed]_vars

\* What was valid all through the call is accepted, unless the issuer did not answer
\* with its keys or showed another usable key under the same kid during the call; the
\* frozen package wants the epoch of its profile too, be it 0.  Rotations during the
\* call and unusable entries under the same kid do not matter.
AcceptsEveryValid ==
    [][\A v \in Verifier : Returned(v) /\ pc[v] = "check"
          /\ Signer(Arg(v)) \in always[v] /\ (\A e \in seen[v] : e.kid = Arg(v).kid => e = Signer(Arg(v)))
          /\ audience[v] \in Arg(v).aud /\ proofKey[v] = Arg(v).jkt
          /\ now < Arg(v).exp /\ Arg(v).sub /\ ~Epochless(v)
          => answer'[v].error = ""]_vars

\* What a call has shown its caller.
Told(v) ==
    CASE answer[v].error = "none" -> "none"
      [] answer[v].error = "" -> "accepted"
      [] answer[v].error = "transport" -> "unavailable"
      [] OTHER -> "refused"

Genuine(v) == pc[v] = "check" /\ Public(v) = Arg(v).signer

Promise == INSTANCE VerifyPromise
             WITH published <- [d \in Deployment |-> Keys(d)],
                  genuine <- [v \in Verifier |-> Genuine(v)],
                  answer <- [v \in Verifier |-> Told(v)]

\* A call is one look at the issuer's set of keys and one decision: it accepts exactly
\* when the signer was found in that set, the audience and the proof key are the
\* token's, the token has not expired at the decision and has a subject, and, for the
\* frozen package, its epoch.  What else is in the key set, in which order, and in
\* which order the checks are made, cannot be told, unless two keys have one kid: then
\* the signer may be found or not.
ImplementsPromise == Promise!Spec

\* Every call returns.
EveryCallReturns == \A v \in Verifier : Busy(v) ~> ~Busy(v)
=============================================================================

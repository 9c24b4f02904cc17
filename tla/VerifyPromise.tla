--------------------------- MODULE VerifyPromise ---------------------------
(***************************************************************************)
(* What Verify of either package promises its caller, without JWKS entries,*)
(* kids and an order of checks (sdk/go/eidovela/v3/verify.go and           *)
(* sdk/go/eidovela/verify.go).                                             *)
(*                                                                         *)
(* An issuer has a set of keys with their kids, which may become any other *)
(* set at any time.  A call asks once, at one instant, whether the token's *)
(* signer is the one with the token's kid; what it answers when it returns *)
(* depends on that, on the clock then and on its arguments, and on nothing *)
(* else.  LocalVerify implements it.                                       *)
(***************************************************************************)
EXTENDS Naturals, Sequences

CONSTANTS Verifier, Audience, Presenter

VARIABLES
    now,
    published,  \* each issuer's set of keys: records of a kid and a key
    minted,     \* the tokens
    sdk, pc, token, audience, proofKey,  \* the calls and their arguments
    genuine,    \* whether the signer was found among the issuer's keys
    answer      \* "accepted", "refused", "unavailable", or "none" yet

worldVars == <<now, published, minted>>
argVars == <<sdk, token, audience, proofKey>>
vars == <<worldVars, argVars, pc, genuine, answer>>

Arg(v) == minted[token[v]]

Init ==
    /\ minted = << >>
    /\ pc = [v \in Verifier |-> "idle"]
    /\ genuine = [v \in Verifier |-> FALSE]
    /\ answer = [v \in Verifier |-> "none"]

\* Time passes, keys come and go, tokens are signed; a token never changes.
World ==
    /\ now' >= now
    /\ \A n \in DOMAIN minted : n \in DOMAIN minted' /\ minted'[n] = minted[n]
    /\ UNCHANGED <<argVars, pc, genuine, answer>>

Return(v, told) ==
    /\ pc' = [pc EXCEPT ![v] = "idle"]
    /\ answer' = [answer EXCEPT ![v] = told]
    /\ genuine' = [genuine EXCEPT ![v] = FALSE]
    /\ UNCHANGED <<worldVars, argVars>>

\* What is no token of a known shape is refused at once.
Malformed(v) == pc[v] = "idle" /\ Return(v, "refused")

Call(v) ==
    /\ pc[v] = "idle"
    /\ \E n \in DOMAIN minted : token' = [token EXCEPT ![v] = n]
    /\ \E a \in Audience : audience' = [audience EXCEPT ![v] = a]
    /\ \E k \in Presenter : proofKey' = [proofKey EXCEPT ![v] = k]
    /\ pc' = [pc EXCEPT ![v] = "fetch"]
    /\ answer' = [answer EXCEPT ![v] = "none"]
    /\ UNCHANGED <<worldVars, sdk, genuine>>

\* The keys under the token's kid decide.  One key is the signer or is not; of several
\* any may be taken.
Found(t) ==
    LET candidates == {e \in published[t.iss] : e.kid = t.kid}
    IN  IF candidates = {} THEN {FALSE} ELSE {e.x = t.signer : e \in candidates}

\* The one instant at which the call looks at the issuer.
Ask(v) ==
    /\ pc[v] = "fetch"
    /\ \E found \in Found(Arg(v)) : genuine' = [genuine EXCEPT ![v] = found]
    /\ pc' = [pc EXCEPT ![v] = "check"]
    /\ UNCHANGED <<worldVars, argVars, answer>>

\* Nobody there, or nobody who knows the keys.
NotAnswered(v) == pc[v] = "fetch" /\ \E told \in {"refused", "unavailable"} : Return(v, told)

Valid(v) ==
    /\ genuine[v]
    /\ audience[v] \in Arg(v).aud
    /\ proofKey[v] = Arg(v).jkt
    /\ now < Arg(v).exp
    /\ Arg(v).sub
    /\ sdk[v] = "v2" => Arg(v).claimed

Decide(v) == pc[v] = "check" /\ Return(v, IF Valid(v) THEN "accepted" ELSE "refused")

Next == World \/ \E v \in Verifier : Malformed(v) \/ Call(v) \/ Ask(v) \/ NotAnswered(v) \/ Decide(v)

Spec == Init /\ [][Next]_vars
=============================================================================

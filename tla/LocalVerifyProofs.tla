-------------------------- MODULE LocalVerifyProofs --------------------------
(***************************************************************************)
(* What Verify accepts was valid, and what was valid all through a call is *)
(* accepted, for any deployments, keys, callers and bounds: Spec implies   *)
(* AcceptsOnlyValid and AcceptsEveryValid.                                 *)
(*                                                                         *)
(* The keys in hand were published during the call: that is inductive,     *)
(* because a call begins with nothing in hand and every publication during *)
(* it is seen.  A call that finds no fault found the signer among them.    *)
(*                                                                         *)
(* Conversely the keys published all through the call are in hand.  When   *)
(* no other usable key had the token's kid during the call, the first      *)
(* entry that matches holds the signer's.                                  *)
(***************************************************************************)
EXTENDS LocalVerify, TLAPS, WellFoundedInduction

LEMMA Least == ASSUME NEW S \in SUBSET Nat, S # {} PROVE \E x \in S : \A y \in S : x <= y
<1> DEFINE R == {ss \in Nat \X Nat : ss[1] < ss[2]}
<1>1. IsWellFoundedOn(R, Nat)
  BY NatLessThanWellFounded DEF OpToRel
<1>2. PICK x \in S : \A y \in S : ~(<<y, x>> \in R)
  <2>. HIDE DEF R
  <2>. QED BY <1>1, WFMin
<1>3. ASSUME NEW y \in S PROVE x <= y
  <2>1. <<y, x>> \in Nat \X Nat /\ ~(<<y, x>> \in R)
    BY <1>2
  <2>2. ~(y < x)
    BY <2>1
  <2>. QED BY <2>2
<1>. QED BY <1>3

-----------------------------------------------------------------------------
(* Types.  The deployments' part and the calls' part are kept apart.       *)

WorldTypes ==
    /\ now \in Nat
    /\ made \in [Deployment -> Nat \ {0}]
    /\ published \in [Deployment -> Seq(JWK)]
    /\ \A d \in Deployment : published[d] # << >> /\ Last(published[d]).x # NoKey
    /\ minted \in Seq(Token)

Outcome == [error : {"none", "", "transport"} \cup {Errors[i] : i \in DOMAIN Errors}, agentEpoch : Nat, identityEpoch : Nat, epoch : Nat]

CallTypes ==
    /\ sdk \in [Verifier -> SDK]
    /\ pc \in [Verifier -> {"idle", "fetch", "check"}]
    /\ token \in [Verifier -> Nat] /\ \A v \in Verifier : Busy(v) => token[v] \in DOMAIN minted
    /\ audience \in [Verifier -> Audience] /\ proofKey \in [Verifier -> Presenter]
    /\ keys \in [Verifier -> Seq(JWK)]
    /\ answer \in [Verifier -> Outcome]

WatchTypes ==
    /\ seen \in [Verifier -> SUBSET JWK]
    /\ always \in [Verifier -> SUBSET JWK]

LEMMA TypeParts == TypeOK <=> WorldTypes /\ CallTypes /\ WatchTypes
BY DEF TypeOK, WorldTypes, CallTypes, WatchTypes, Outcome

LEMMA EntryTypes ==
    /\ \A kid \in Nat, d \in Deployment, n \in Nat : Entry(kid, d, n) \in JWK /\ Entry(kid, d, n).x = <<d, n>>
    /\ \A kid \in Nat : OtherEntry(kid) \in JWK
BY DEF Entry, OtherEntry, JWK

LEMMA KeyTypes == ASSUME NEW jwks \in Seq(JWK) PROVE Usable(jwks) \subseteq JWK
<1>1. \A i \in DOMAIN jwks : jwks[i] \in JWK
  OBVIOUS
<1>. QED BY <1>1, Zenon DEF Usable, Range

LEMMA OneEntry == \A e \in JWK : <<e>> \in Seq(JWK) /\ <<e>> # << >> /\ Last(<<e>>) = e
BY DEF Last

LEMMA LastOfAppended ==
    ASSUME NEW S, NEW a \in Seq(S), NEW b \in Seq(S), NEW e \in S
    PROVE  LET c == a \o b \o <<e>> IN c \in Seq(S) /\ c # << >> /\ Last(c) = e
<1> DEFINE ab == a \o b
<1>1. ab \in Seq(S)
  OBVIOUS
<1>. HIDE DEF ab
<1>2. ab \o <<e>> \in Seq(S) /\ Len(ab \o <<e>>) = Len(ab) + 1 /\ (ab \o <<e>>)[Len(ab) + 1] = e
  BY <1>1
<1>3. ab \o <<e>> # << >>
  BY <1>1, <1>2
<1>. QED BY <1>2, <1>3 DEF Last, ab

LEMMA LastEntry ==
    ASSUME WorldTypes, NEW d \in Deployment
    PROVE  Last(published[d]) \in JWK /\ Last(published[d]).x \in Deployment \X Nat /\ Last(published[d]).kid \in Nat
<1>1. published[d] \in Seq(JWK) /\ published[d] # << >> /\ Last(published[d]).x # NoKey
  BY DEF WorldTypes
<1>2. Last(published[d]) \in JWK
  BY <1>1 DEF Last
<1>. QED BY <1>1, <1>2 DEF JWK

LEMMA PublishTypes ==
    ASSUME LocalVerifyAssumption, WorldTypes, NEW d \in Deployment, Rotate(d) \/ Retire(d)
    PROVE  WorldTypes'
<1>1. made[d] \in Nat /\ made[d] + 1 \in Nat \ {0} /\ published[d] \in Seq(JWK)
  BY DEF WorldTypes
<1>2. ASSUME NEW jwks \in Seq(JWK), jwks # << >>, Last(jwks).x # NoKey, published' = [published EXCEPT ![d] = jwks],
             made' = made \/ made' = [made EXCEPT ![d] = made[d] + 1], UNCHANGED <<now, minted>>
      PROVE  WorldTypes'
  BY <1>1, <1>2 DEF WorldTypes
<1>3. CASE Rotate(d)
  <2>1. PICK kid \in 1 .. made[d] + 1 : \E twin \in {<< >>, <<OtherEntry(kid)>>} :
          published' = [published EXCEPT ![d] = @ \o twin \o <<Entry(kid, d, made[d] + 1)>>]
    BY <1>3 DEF Rotate
  <2>2. PICK twin \in {<< >>, <<OtherEntry(kid)>>} :
          published' = [published EXCEPT ![d] = @ \o twin \o <<Entry(kid, d, made[d] + 1)>>]
    BY <2>1
  <2>3. kid \in Nat
    BY <1>1
  <2>4. /\ OtherEntry(kid) \in JWK /\ Entry(kid, d, made[d] + 1) \in JWK
        /\ Entry(kid, d, made[d] + 1).x # NoKey
    <3>1. made[d] + 1 \in Nat
      BY <1>1
    <3>2. <<d, made[d] + 1>> \in Deployment \X Nat
      BY <3>1
    <3>3. <<d, made[d] + 1>> # NoKey
      BY <3>2, Zenon DEF LocalVerifyAssumption
    <3>4. Entry(kid, d, made[d] + 1) \in JWK /\ Entry(kid, d, made[d] + 1).x = <<d, made[d] + 1>>
      BY <2>3, <3>1, EntryTypes
    <3>5. OtherEntry(kid) \in JWK
      BY <2>3, EntryTypes
    <3>. QED BY <3>3, <3>4, <3>5
  <2>5. twin \in Seq(JWK)
    <3>1. << >> \in Seq(JWK) /\ <<OtherEntry(kid)>> \in Seq(JWK)
      BY <2>4, OneEntry
    <3>. QED BY <3>1
  <2>. DEFINE jwks == published[d] \o twin \o <<Entry(kid, d, made[d] + 1)>>
  <2>6. jwks \in Seq(JWK) /\ jwks # << >> /\ Last(jwks) = Entry(kid, d, made[d] + 1)
    BY <1>1, <2>4, <2>5, LastOfAppended
  <2>7. published' = [published EXCEPT ![d] = jwks]
    BY <2>2 DEF WorldTypes
  <2>8. made' = [made EXCEPT ![d] = made[d] + 1] /\ UNCHANGED <<now, minted>>
    BY <1>3 DEF Rotate
  <2>. HIDE DEF jwks
  <2>. QED BY <1>2, <2>4, <2>6, <2>7, <2>8
<1>4. CASE Retire(d)
  <2>1. published' = [published EXCEPT ![d] = <<Last(published[d])>>] /\ UNCHANGED <<now, made, minted>>
    BY <1>4 DEF Retire
  <2>2. Last(published[d]) \in JWK /\ Last(published[d]).x # NoKey
    BY LastEntry DEF WorldTypes
  <2>. QED BY <1>2, <2>1, <2>2, OneEntry
<1>. QED BY <1>3, <1>4

LEMMA ClaimTypes ==
    \A p \in {"v3", "legacy", "v2", "zero", "brokered"} :
        Claims[p][1] \in Nat /\ Claims[p][2] \in Nat /\ Claims[p][3] \in Nat /\ Claims[p][4] \in Nat
BY DEF Claims

LEMMA MintTypes ==
    ASSUME WorldTypes, LocalVerifyAssumption, NEW d \in Deployment, Mint(d)
    PROVE  WorldTypes' /\ \A n \in DOMAIN minted : n \in DOMAIN minted' /\ minted'[n] = minted[n]
<1>1. PICK t : minted' = Append(minted, t) /\ t \in Token
  <2>1. PICK iss \in Deployment, aud \in (SUBSET Audience) \ {{}}, jkt \in Presenter, sub \in BOOLEAN, p \in Profile :
          minted' = Append(minted,
             [iss |-> iss, kid |-> Last(published[d]).kid, signer |-> Last(published[d]).x,
              aud |-> aud, exp |-> now + Lifetime, jkt |-> jkt, sub |-> sub,
              agentEpoch |-> Claims[p][1], identityEpoch |-> Claims[p][2], lifecycleEpoch |-> Claims[p][3],
              lifecycle_epoch |-> Claims[p][4], claimed |-> p \in {"v2", "zero"}])
    BY DEF Mint
  <2>2. now + Lifetime \in Nat
    BY DEF WorldTypes, LocalVerifyAssumption
  <2>3. Last(published[d]).x \in Deployment \X Nat /\ Last(published[d]).kid \in Nat
    BY LastEntry
  <2>4. Claims[p][1] \in Nat /\ Claims[p][2] \in Nat /\ Claims[p][3] \in Nat /\ Claims[p][4] \in Nat
    BY ClaimTypes DEF LocalVerifyAssumption
  <2>. DEFINE claimed == p \in {"v2", "zero"}
  <2>. DEFINE t == [iss |-> iss, kid |-> Last(published[d]).kid, signer |-> Last(published[d]).x,
              aud |-> aud, exp |-> now + Lifetime, jkt |-> jkt, sub |-> sub,
              agentEpoch |-> Claims[p][1], identityEpoch |-> Claims[p][2], lifecycleEpoch |-> Claims[p][3],
              lifecycle_epoch |-> Claims[p][4], claimed |-> claimed]
  <2>5. t \in Token
    BY <2>2, <2>3, <2>4 DEF Token
  <2>. QED BY <2>1, <2>5
<1>2. minted \in Seq(Token) /\ UNCHANGED <<now, made, published>>
  BY DEF WorldTypes, Mint
<1>3. minted' \in Seq(Token) /\ \A n \in DOMAIN minted : n \in DOMAIN minted' /\ minted'[n] = minted[n]
  BY <1>1, <1>2
<1>. QED BY <1>2, <1>3 DEF WorldTypes

-----------------------------------------------------------------------------
(* What Verify returns.                                                    *)

LEMMA FailTypes == \A e \in {"transport"} \cup {Errors[i] : i \in DOMAIN Errors} : Fail(e) \in Outcome /\ Fail(e).error = e
BY DEF Fail, None, Outcome

LEMMA ErrorNames ==
    /\ DOMAIN Errors = 1 .. 7
    /\ \A i \in DOMAIN Errors : Errors[i] \notin {"", "none", "transport"}
    /\ {"unknown key", "invalid"} \subseteq {Errors[i] : i \in DOMAIN Errors}
<1>1. DOMAIN Errors = 1 .. 7 /\ Errors[1] = "unknown key" /\ Errors[2] = "invalid" /\ Errors[3] = "audience"
      /\ Errors[4] = "inactive" /\ Errors[5] = "key binding" /\ Errors[6] = "invalid" /\ Errors[7] = "invalid"
  BY DEF Errors
<1>2. \A i \in 1 .. 7 : i = 1 \/ i = 2 \/ i = 3 \/ i = 4 \/ i = 5 \/ i = 6 \/ i = 7
  OBVIOUS
<1>3. \A i \in DOMAIN Errors : Errors[i] \notin {"", "none", "transport"}
  BY <1>1, <1>2
<1>4. DOMAIN Errors = 1 .. 7 => 1 \in DOMAIN Errors /\ 2 \in DOMAIN Errors
  OBVIOUS
<1>5. {"unknown key", "invalid"} \subseteq {Errors[i] : i \in DOMAIN Errors}
  BY <1>1, <1>4, Zenon
<1>. QED BY <1>1, <1>3, <1>5

LEMMA ErrorNumbers == DOMAIN Errors \subseteq Nat /\ {1, 2, 3, 4, 5, 6, 7} \subseteq DOMAIN Errors
<1>1. DOMAIN Errors = 1 .. 7
  BY ErrorNames
<1>. QED BY <1>1

LEMMA PrincipalTypes ==
    ASSUME NEW v \in Verifier, Arg(v) \in Token
    PROVE  Principal(v) \in Outcome /\ Principal(v).error = ""
BY DEF Token, Principal, PrincipalV2, PrincipalV3, Outcome

LEMMA VerdictTypes ==
    ASSUME NEW v \in Verifier, Arg(v) \in Token
    PROVE  /\ Verdict(v) \in Outcome /\ (Verdict(v).error = "" => Faults(v) = {})
           /\ Faults(v) # {} => Verdict(v).error \notin {"", "none", "transport"}
<1>1. CASE Faults(v) = {}
  BY <1>1, PrincipalTypes DEF Verdict
<1>2. CASE Faults(v) # {}
  <2> DEFINE i == CHOOSE i \in Faults(v) : \A j \in Faults(v) : i <= j
  <2>1. Faults(v) \subseteq DOMAIN Errors /\ DOMAIN Errors \subseteq Nat
    <3>1. Faults(v) \subseteq DOMAIN Errors
      BY Zenon DEF Faults
    <3>. QED BY <3>1, ErrorNumbers
  <2>2. \E x \in Faults(v) : \A j \in Faults(v) : x <= j
    BY <1>2, <2>1, Least
  <2>3. i \in Faults(v)
    BY <2>2
  <2>4. Verdict(v) = Fail(Errors[i])
    BY <1>2 DEF Verdict
  <2>. HIDE DEF i
  <2>5. Errors[i] \in {Errors[k] : k \in DOMAIN Errors} /\ Errors[i] \notin {"", "none", "transport"}
    BY <2>1, <2>3, ErrorNames
  <2>. QED BY <2>4, <2>5, FailTypes
<1>. QED BY <1>1, <1>2

LEMMA ReturnTypes ==
    ASSUME CallTypes, NEW v \in Verifier, NEW result \in Outcome, Return(v, result),
           UNCHANGED <<minted, callVars, keys>>
    PROVE  CallTypes'
<1>1. /\ pc' = [pc EXCEPT ![v] = "idle"] /\ answer' = [answer EXCEPT ![v] = result]
      /\ UNCHANGED <<minted, sdk, token, audience, proofKey, keys>>
  BY DEF Return, callVars
<1>. QED BY <1>1 DEF CallTypes, Busy

LEMMA ArgTypes ==
    ASSUME WorldTypes, CallTypes, NEW v \in Verifier, Busy(v)
    PROVE  Arg(v) \in Token
BY DEF WorldTypes, CallTypes, Arg

LEMMA CallTypesStep ==
    ASSUME WorldTypes, CallTypes, LocalVerifyAssumption, Next
    PROVE  CallTypes'
<1>1. CASE \E d \in Deployment : Mint(d)
  <2>1. PICK d \in Deployment : Mint(d)
    BY <1>1
  <2>2. \A n \in DOMAIN minted : n \in DOMAIN minted'
    BY <2>1, MintTypes
  <2>3. UNCHANGED <<sdk, pc, token, audience, proofKey, keys, answer>>
    BY <2>1 DEF Mint, callVars
  <2>. QED BY <2>2, <2>3 DEF CallTypes, Busy
<1>2. CASE Tick \/ \E d \in Deployment : Rotate(d) \/ Retire(d)
  <2>1. UNCHANGED <<minted, sdk, pc, token, audience, proofKey, keys, answer>>
    BY <1>2 DEF Tick, Rotate, Retire, callVars
  <2>. QED BY <2>1 DEF CallTypes, Busy
<1>3. ASSUME NEW v \in Verifier, Malformed(v) \/ FetchFails(v) \/ TimeOut(v) PROVE CallTypes'
  <2>1. PICK e \in {"invalid", "unknown key", "transport"} : Return(v, Fail(e)) /\ UNCHANGED <<minted, callVars, keys>>
    BY <1>3 DEF Malformed, FetchFails, TimeOut, clockVars
  <2>2. Fail(e) \in Outcome
    BY FailTypes, ErrorNames
  <2>. QED BY <2>1, <2>2, ReturnTypes
<1>4. ASSUME NEW v \in Verifier, Check(v) PROVE CallTypes'
  <2>1. Arg(v) \in Token
    BY <1>4, ArgTypes DEF Check, Busy
  <2>2. Return(v, Verdict(v)) /\ UNCHANGED <<minted, callVars, keys>>
    BY <1>4 DEF Check, clockVars
  <2>. QED BY <2>1, <2>2, VerdictTypes, ReturnTypes
<1>5. ASSUME NEW v \in Verifier, Call(v) PROVE CallTypes'
  <2>1. PICK n \in DOMAIN minted, a \in Audience, k \in Presenter :
          token' = [token EXCEPT ![v] = n] /\ audience' = [audience EXCEPT ![v] = a] /\ proofKey' = [proofKey EXCEPT ![v] = k]
    BY <1>5 DEF Call
  <2>2. pc' = [pc EXCEPT ![v] = "fetch"] /\ answer' = [answer EXCEPT ![v] = None] /\ UNCHANGED <<minted, sdk, keys>>
    BY <1>5 DEF Call, clockVars
  <2>3. n \in Nat
    BY DEF WorldTypes
  <2>4. None \in Outcome
    BY DEF None, Outcome
  <2>. QED BY <2>1, <2>2, <2>3, <2>4 DEF CallTypes, Busy
<1>6. ASSUME NEW v \in Verifier, Fetch(v) PROVE CallTypes'
  <2>1. Arg(v) \in Token /\ Arg(v).iss \in Deployment
    BY <1>6, ArgTypes DEF Fetch, Busy, Token
  <2>2. published[Arg(v).iss] \in Seq(JWK)
    BY <2>1 DEF WorldTypes
  <2>3. /\ pc[v] = "fetch" /\ pc' = [pc EXCEPT ![v] = "check"] /\ keys' = [keys EXCEPT ![v] = published[Arg(v).iss]]
        /\ UNCHANGED <<minted, sdk, token, audience, proofKey, answer>>
    BY <1>6 DEF Fetch, clockVars, callVars
  <2>. QED BY <2>2, <2>3 DEF CallTypes, Busy
<1>. QED BY <1>1, <1>2, <1>3, <1>4, <1>5, <1>6 DEF Next, External, Verify

-----------------------------------------------------------------------------
(* What a call sees.                                                       *)

LEMMA PublishedKeys ==
    ASSUME WorldTypes, NEW d \in Deployment
    PROVE  Keys(d) \subseteq JWK
<1>1. published[d] \in Seq(JWK)
  BY DEF WorldTypes
<1>. QED BY <1>1, KeyTypes DEF Keys

\* During a publication every running call watches its issuer.
LEMMA Watched ==
    ASSUME WorldTypes, WorldTypes', CallTypes, NEW d \in Deployment, Rotate(d) \/ Retire(d), NEW v \in Verifier
    PROVE  /\ ~Busy(v) => seen'[v] = seen[v] /\ always'[v] = always[v]
           /\ Busy(v) => /\ Keys(Arg(v).iss)' \subseteq JWK
                         /\ seen'[v] = seen[v] \cup Keys(Arg(v).iss)'
                         /\ always'[v] = always[v] \cap Keys(Arg(v).iss)'
<1>1. Watch /\ UNCHANGED <<minted, token>>
  BY DEF Rotate, Retire, callVars
<1>2. ASSUME Busy(v) PROVE Keys(Arg(v).iss)' \subseteq JWK
  <2>1. Arg(v)' \in Token
    BY <1>1, <1>2, ArgTypes DEF Arg
  <2>2. Arg(v).iss' \in Deployment
    BY <2>1 DEF Token
  <2>3. published'[Arg(v).iss'] \in Seq(JWK)
    BY <2>2 DEF WorldTypes
  <2>. QED BY <2>3, KeyTypes DEF Keys
<1>. QED BY <1>1, <1>2 DEF Watch

LEMMA WatchTypesStep ==
    ASSUME WorldTypes, WorldTypes', CallTypes, WatchTypes, Next
    PROVE  WatchTypes'
<1> DEFINE Pair == JWK
<1>1. ASSUME NEW d \in Deployment, Rotate(d) \/ Retire(d) PROVE WatchTypes'
  <2>1. seen' = [v \in Verifier |-> seen'[v]] /\ always' = [v \in Verifier |-> always'[v]]
    BY <1>1 DEF Rotate, Retire, Watch
  <2>2. \A v \in Verifier : seen'[v] \subseteq Pair /\ always'[v] \subseteq Pair
    BY <1>1, Watched DEF WatchTypes
  <2>. HIDE DEF Pair
  <2>3. seen' \in [Verifier -> SUBSET Pair] /\ always' \in [Verifier -> SUBSET Pair]
    BY <2>1, <2>2
  <2>. QED BY <2>3 DEF WatchTypes, Pair
<1>2. ASSUME NEW v \in Verifier, Call(v) PROVE WatchTypes'
  <2>1. PICK n \in DOMAIN minted : WatchFor(v, minted[n].iss)
    BY <1>2 DEF Call
  <2>2. minted[n].iss \in Deployment
    <3>1. minted[n] \in Token
      BY DEF WorldTypes
    <3>. QED BY <3>1 DEF Token
  <2>3. Keys(minted[n].iss) \in SUBSET Pair
    BY <2>2, PublishedKeys
  <2>. HIDE DEF Pair
  <2>4. seen \in [Verifier -> SUBSET Pair] /\ always \in [Verifier -> SUBSET Pair]
    BY DEF WatchTypes, Pair
  <2>5. seen' \in [Verifier -> SUBSET Pair] /\ always' \in [Verifier -> SUBSET Pair]
    BY <2>1, <2>3, <2>4 DEF WatchFor
  <2>. QED BY <2>5 DEF WatchTypes, Pair
<1>3. ASSUME UNCHANGED watchVars PROVE WatchTypes'
  BY <1>3 DEF WatchTypes, watchVars
<1>. QED BY <1>1, <1>2, <1>3 DEF Next, External, Tick, Mint, Verify, Malformed, Fetch, FetchFails, TimeOut, Check

-----------------------------------------------------------------------------
(* Type correctness.                                                       *)

LEMMA InitTypes == LocalVerifyAssumption /\ Init => TypeOK
<1> SUFFICES ASSUME LocalVerifyAssumption, Init PROVE TypeOK
  OBVIOUS
<1>1. \A d \in Deployment : LET jwks == <<Entry(1, d, 1)>>
                          IN  jwks \in Seq(JWK) /\ jwks # << >> /\ Last(jwks).x # NoKey
  <2> SUFFICES ASSUME NEW d \in Deployment
               PROVE  LET jwks == <<Entry(1, d, 1)>>
                      IN  jwks \in Seq(JWK) /\ jwks # << >> /\ Last(jwks).x # NoKey
    OBVIOUS
  <2>1. <<d, 1>> \in Deployment \X Nat /\ 1 \in Nat
    OBVIOUS
  <2>2. <<d, 1>> # NoKey
    BY <2>1, Zenon DEF LocalVerifyAssumption
  <2>3. Entry(1, d, 1) \in JWK /\ Entry(1, d, 1).x = <<d, 1>>
    BY <2>1, EntryTypes
  <2>. QED BY <2>2, <2>3, OneEntry, Zenon
<1>2. WorldTypes
  BY <1>1 DEF Init, WorldTypes
<1>3. None \in Outcome
  BY DEF None, Outcome
<1>4. CallTypes
  BY <1>3 DEF Init, CallTypes, Busy
<1>5. WatchTypes
  BY DEF Init, WatchTypes
<1>. QED BY <1>2, <1>4, <1>5, TypeParts

LEMMA WorldTypesStep == ASSUME LocalVerifyAssumption, WorldTypes, Next PROVE WorldTypes'
<1>1. CASE Tick
  BY <1>1 DEF Tick, WorldTypes
<1>2. CASE \E d \in Deployment : Rotate(d) \/ Retire(d) \/ Mint(d)
  BY <1>2, PublishTypes, MintTypes
<1>3. ASSUME UNCHANGED clockVars PROVE WorldTypes'
  BY <1>3 DEF clockVars, WorldTypes
<1>. QED BY <1>1, <1>2, <1>3
         DEF Next, External, Verify, Malformed, Call, Fetch, FetchFails, TimeOut, Check

LEMMA StepTypes == LocalVerifyAssumption /\ TypeOK /\ [Next]_vars => TypeOK'
<1> SUFFICES ASSUME LocalVerifyAssumption, TypeOK, [Next]_vars PROVE TypeOK'
  OBVIOUS
<1>1. CASE Next
  <2>1. WorldTypes' /\ CallTypes'
    BY <1>1, WorldTypesStep, CallTypesStep, TypeParts
  <2>2. WatchTypes'
    BY <1>1, <2>1, WatchTypesStep, TypeParts
  <2>. QED BY <2>1, <2>2 DEF TypeOK, WorldTypes, CallTypes, WatchTypes, Outcome
<1>2. CASE UNCHANGED vars
  BY <1>2 DEF TypeOK, vars, clockVars, callVars, watchVars, Busy
<1>. QED BY <1>1, <1>2

\* The arguments, the fetched key sets, the answers and the tokens of Verify have
\* their types, and a call that runs has a token (verify.go:55-157).
THEOREM TypeCorrect == Spec => []TypeOK
<1>1. LocalVerifyAssumption
  BY LocalVerifyAssumption
<1>. QED BY <1>1, InitTypes, StepTypes, PTL DEF Spec

-----------------------------------------------------------------------------
(* The keys in hand were published during the call.                        *)

SeenInv ==
    \A v \in Verifier : Busy(v) =>
        /\ Keys(Arg(v).iss) \subseteq seen[v]
        /\ pc[v] = "check" => Usable(keys[v]) \subseteq seen[v]

LEMMA SeenStep ==
    ASSUME LocalVerifyAssumption, TypeOK, TypeOK', SeenInv, Next
    PROVE  SeenInv'
<1>0. /\ WorldTypes /\ WorldTypes' /\ CallTypes /\ WatchTypes
  BY TypeParts DEF TypeOK, WorldTypes
<1>1. CASE Tick
  BY <1>1 DEF Tick, SeenInv, Busy, Arg, Keys, callVars, watchVars
<1>2. ASSUME NEW d \in Deployment, Rotate(d) \/ Retire(d) PROVE SeenInv'
  <2>1. UNCHANGED <<pc, keys>>
    BY <1>2 DEF Rotate, Retire
  <2>. QED BY <1>0, <1>2, <2>1, Watched DEF SeenInv, Busy
<1>3. ASSUME NEW d \in Deployment, Mint(d) PROVE SeenInv'
  <2>1. UNCHANGED <<pc, keys, token, published, seen>>
    BY <1>3 DEF Mint, callVars, watchVars
  <2>2. \A n \in DOMAIN minted : minted'[n] = minted[n]
    BY <1>0, <1>3, MintTypes
  <2>3. \A v \in Verifier : Busy(v) => Arg(v)' = Arg(v)
    BY <1>0, <2>1, <2>2 DEF CallTypes, Arg
  <2>. QED BY <2>1, <2>3 DEF SeenInv, Busy, Keys
<1>4. ASSUME NEW w \in Verifier, Malformed(w) \/ FetchFails(w) \/ TimeOut(w) \/ Check(w) PROVE SeenInv'
  <2>1. pc' = [pc EXCEPT ![w] = "idle"] /\ UNCHANGED <<keys, token, minted, published, seen>>
    BY <1>4 DEF Malformed, FetchFails, TimeOut, Check, Return, clockVars, callVars, watchVars
  <2>. QED BY <1>0, <2>1 DEF SeenInv, CallTypes, Busy, Arg, Keys
<1>5. ASSUME NEW w \in Verifier, Call(w) PROVE SeenInv'
  <2>1. PICK n \in DOMAIN minted : token' = [token EXCEPT ![w] = n] /\ WatchFor(w, minted[n].iss)
    BY <1>5 DEF Call
  <2>2. pc' = [pc EXCEPT ![w] = "fetch"] /\ UNCHANGED <<keys, minted, published>>
    BY <1>5 DEF Call, clockVars
  <2>3. seen' = [seen EXCEPT ![w] = Keys(minted[n].iss)]
    BY <2>1 DEF WatchFor
  <2>4. Arg(w)' = minted[n] /\ \A v \in Verifier : v # w => Arg(v)' = Arg(v)
    BY <1>0, <2>1, <2>2 DEF CallTypes, Arg
  <2>5. pc'[w] = "fetch" /\ \A v \in Verifier : v # w => pc'[v] = pc[v]
    BY <1>0, <2>2 DEF CallTypes
  <2>6. seen'[w] = Keys(minted[n].iss) /\ \A v \in Verifier : v # w => seen'[v] = seen[v]
    BY <1>0, <2>3 DEF WatchTypes
  <2>. QED BY <2>2, <2>4, <2>5, <2>6 DEF SeenInv, Busy, Keys
<1>6. ASSUME NEW w \in Verifier, Fetch(w) PROVE SeenInv'
  <2>1. /\ pc[w] = "fetch" /\ pc' = [pc EXCEPT ![w] = "check"]
        /\ keys' = [keys EXCEPT ![w] = published[Arg(w).iss]]
        /\ UNCHANGED <<token, minted, published, seen>>
    BY <1>6 DEF Fetch, clockVars, callVars, watchVars
  <2>2. keys'[w] = published[Arg(w).iss] /\ \A v \in Verifier : v # w => keys'[v] = keys[v] /\ pc'[v] = pc[v]
    BY <1>0, <2>1 DEF CallTypes
  <2>3. Usable(keys'[w]) = Keys(Arg(w).iss)
    BY <2>2 DEF Keys
  <2>4. \A v : Arg(v)' = Arg(v)
    BY <2>1 DEF Arg
  <2>. QED BY <2>1, <2>2, <2>3, <2>4 DEF SeenInv, Busy, Keys
<1>. QED BY <1>1, <1>2, <1>3, <1>4, <1>5, <1>6 DEF Next, External, Verify

LEMMA SeenAlways == Spec => []SeenInv
<1>1. LocalVerifyAssumption
  BY LocalVerifyAssumption
<1>2. Init => SeenInv
  BY DEF Init, SeenInv, Busy
<1>3. LocalVerifyAssumption /\ TypeOK /\ TypeOK' /\ SeenInv /\ [Next]_vars => SeenInv'
  <2>1. ASSUME UNCHANGED vars, SeenInv PROVE SeenInv'
    BY <2>1 DEF SeenInv, vars, clockVars, callVars, watchVars, Busy, Arg, Keys
  <2>. QED BY <2>1, SeenStep
<1>. QED BY <1>1, <1>2, <1>3, TypeCorrect, PTL DEF Spec

-----------------------------------------------------------------------------
(* What is accepted.                                                       *)

\* The key that verifies is the first of those that match.
\* The search through any key set, for any kid.
Candidates(jwks, kid) == {i \in DOMAIN jwks : jwks[i].kid = kid /\ jwks[i].x # NoKey}

Taken(jwks, kid) ==
    IF Candidates(jwks, kid) = {} THEN NoKey
    ELSE jwks[CHOOSE i \in Candidates(jwks, kid) : \A j \in Candidates(jwks, kid) : i <= j].x

LEMMA Search ==
    ASSUME NEW jwks \in Seq(JWK), NEW kid
    PROVE  /\ Candidates(jwks, kid) = {} => Taken(jwks, kid) = NoKey
           /\ Candidates(jwks, kid) # {} => \E i \in Candidates(jwks, kid) : Taken(jwks, kid) = jwks[i].x
           /\ \A i \in Candidates(jwks, kid) : jwks[i] \in Usable(jwks) /\ jwks[i].kid = kid
           /\ \A e \in Usable(jwks) : e.kid = kid => Candidates(jwks, kid) # {}
<1> DEFINE M == Candidates(jwks, kid)
           i == CHOOSE i \in M : \A j \in M : i <= j
<1>1. M \subseteq Nat
  <2>1. DOMAIN jwks \subseteq Nat
    OBVIOUS
  <2>. QED BY <2>1 DEF Candidates
<1>2. ASSUME M # {} PROVE i \in M
  <2>1. \E x \in M : \A j \in M : x <= j
    BY <1>1, <1>2, Least
  <2>. QED BY <2>1
<1>3. Taken(jwks, kid) = IF M = {} THEN NoKey ELSE jwks[i].x
  BY Zenon DEF Taken
<1>. HIDE DEF i
<1>4. \A k \in M : jwks[k] \in Usable(jwks) /\ jwks[k].kid = kid
  BY Zenon DEF Candidates, Usable, Range
<1>5. \A e \in Usable(jwks) : e.kid = kid => M # {}
  BY Zenon DEF Candidates, Usable, Range
<1>. QED BY <1>2, <1>3, <1>4, <1>5

LEMMA FirstMatch ==
    ASSUME NEW v \in Verifier, keys[v] \in Seq(JWK)
    PROVE  /\ Matches(v) = {} => Public(v) = NoKey
           /\ Matches(v) # {} => \E i \in Matches(v) : Public(v) = keys[v][i].x
           /\ \A i \in Matches(v) : keys[v][i] \in Usable(keys[v]) /\ keys[v][i].kid = Arg(v).kid
           /\ \A e \in Usable(keys[v]) : e.kid = Arg(v).kid => Matches(v) # {}
<1>1. Matches(v) = Candidates(keys[v], Arg(v).kid) /\ Public(v) = Taken(keys[v], Arg(v).kid)
  BY Zenon DEF Matches, Public, Candidates, Taken
<1>. QED BY <1>1, Search

\* A key in hand that verifies the token is in hand under the token's kid.
LEMMA SignerInHand ==
    ASSUME NEW v \in Verifier, keys[v] \in Seq(JWK), Arg(v) \in Token, Public(v) = Arg(v).signer, Public(v) # NoKey
    PROVE  Signer(Arg(v)) \in Usable(keys[v])
<1>1. PICK i \in Matches(v) : Public(v) = keys[v][i].x
  BY FirstMatch
<1>2. keys[v][i] \in Usable(keys[v]) /\ keys[v][i].kid = Arg(v).kid
  BY <1>1, FirstMatch
<1>3. keys[v][i] \in JWK
  BY <1>2, KeyTypes
<1>4. \A e \in JWK : e = [kid |-> e.kid, x |-> e.x]
  BY DEF JWK
<1>5. keys[v][i] = Signer(Arg(v))
  BY <1>1, <1>2, <1>3, <1>4, Zenon DEF Signer
<1>. QED BY <1>2, <1>5

LEMMA NotLater == \A a, b \in Nat : ~(a >= b) => a < b
OBVIOUS

LEMMA AcceptedIsValid ==
    ASSUME TypeOK, SeenInv, NEW v \in Verifier, Check(v), Verdict(v).error = ""
    PROVE  /\ Signer(Arg(v)) \in seen[v]
           /\ audience[v] \in Arg(v).aud
           /\ proofKey[v] = Arg(v).jkt
           /\ now < Arg(v).exp
           /\ Arg(v).sub
           /\ sdk[v] = "v2" => Arg(v).claimed
<1>0. WorldTypes /\ CallTypes
  BY TypeParts
<1>1. Arg(v) \in Token
  BY <1>0, ArgTypes DEF Check, Busy
<1>2. Faults(v) = {}
  BY <1>1, VerdictTypes
<1>3. /\ Public(v) # NoKey /\ Public(v) = Arg(v).signer /\ audience[v] \in Arg(v).aud
      /\ ~(now >= Arg(v).exp) /\ Arg(v).jkt = proofKey[v] /\ Arg(v).sub /\ ~Epochless(v)
  <2>1. /\ 1 \in DOMAIN Errors /\ 2 \in DOMAIN Errors /\ 3 \in DOMAIN Errors /\ 4 \in DOMAIN Errors
        /\ 5 \in DOMAIN Errors /\ 6 \in DOMAIN Errors /\ 7 \in DOMAIN Errors
    BY ErrorNumbers, Zenon
  <2>. QED BY <1>2, <2>1, Zenon DEF Faults
<1>4. now \in Nat /\ Arg(v).exp \in Nat
  BY <1>0, <1>1 DEF WorldTypes, Token
<1>5. Signer(Arg(v)) \in Usable(keys[v])
  BY <1>0, <1>1, <1>3, SignerInHand DEF CallTypes
<1>6. Usable(keys[v]) \subseteq seen[v]
  BY DEF SeenInv, Check, Busy
<1>7. now < Arg(v).exp
  BY <1>3, <1>4, NotLater, Zenon
<1>8. Signer(Arg(v)) \in seen[v]
  BY <1>5, <1>6, Zenon
<1>9. sdk[v] = "v2" => Arg(v).claimed
  BY <1>3, Zenon DEF Epochless
<1>. QED BY <1>3, <1>7, <1>8, <1>9

Accepted(v) == Returned(v) /\ answer'[v].error = ""

Valid(v) ==
    /\ Signer(Arg(v)) \in seen[v]
    /\ audience[v] \in Arg(v).aud
    /\ proofKey[v] = Arg(v).jkt
    /\ now < Arg(v).exp
    /\ Arg(v).sub
    /\ sdk[v] = "v2" => Arg(v).claimed

LEMMA OnlyCheckAccepts ==
    ASSUME TypeOK, SeenInv, Next, NEW v \in Verifier, Accepted(v)
    PROVE  Valid(v)
<1>0. CallTypes
  BY TypeParts
<1>1. pc[v] # "idle" /\ pc'[v] = "idle" /\ answer'[v].error = ""
  BY DEF Accepted, Returned, Busy
<1>2. CASE External
  BY <1>1, <1>2 DEF External, Tick, Rotate, Retire, Mint
<1>3. ASSUME NEW w \in Verifier, Malformed(w) \/ Call(w) \/ Fetch(w) PROVE FALSE
  <2>1. \/ pc[w] = "idle" /\ pc' = [pc EXCEPT ![w] = "idle"]
        \/ pc' = [pc EXCEPT ![w] = "fetch"]
        \/ pc' = [pc EXCEPT ![w] = "check"]
    BY <1>3 DEF Malformed, Call, Fetch, Return
  <2>. QED BY <1>0, <1>1, <2>1 DEF CallTypes
<1>4. ASSUME NEW w \in Verifier, FetchFails(w) \/ TimeOut(w) PROVE FALSE
  <2>1. PICK e \in {"unknown key", "transport"} : Return(w, Fail(e))
    BY <1>4 DEF FetchFails, TimeOut
  <2>2. pc' = [pc EXCEPT ![w] = "idle"] /\ answer' = [answer EXCEPT ![w] = Fail(e)]
    BY <2>1 DEF Return
  <2>3. v = w
    BY <1>0, <1>1, <2>2 DEF CallTypes
  <2>4. Fail(e).error = e
    BY FailTypes, ErrorNames
  <2>5. answer'[v] = Fail(e)
    BY <1>0, <2>2, <2>3 DEF CallTypes
  <2>. QED BY <1>1, <2>4, <2>5
<1>5. ASSUME NEW w \in Verifier, Check(w) PROVE Valid(v)
  <2>1. pc' = [pc EXCEPT ![w] = "idle"] /\ answer' = [answer EXCEPT ![w] = Verdict(w)]
    BY <1>5 DEF Check, Return
  <2>2. v = w
    BY <1>0, <1>1, <2>1 DEF CallTypes
  <2>3. answer'[v] = Verdict(v)
    BY <1>0, <2>1, <2>2 DEF CallTypes
  <2>. QED BY <1>1, <1>5, <2>2, <2>3, AcceptedIsValid DEF Valid
<1>. QED BY <1>2, <1>3, <1>4, <1>5 DEF Next, Verify

\* Verify accepts only what was valid: signed with a key the issuer published under the
\* token's kid during the call, for the audience and the proof key asked about, not
\* expired when it returns, with a subject (v3/verify.go:88-138), and in the frozen
\* package with an epoch (verify.go:112-115).
THEOREM AcceptedWasValid == Spec => AcceptsOnlyValid
<1> DEFINE Sound == \A v \in Verifier : Returned(v) /\ answer'[v].error = "" =>
          /\ Signer(Arg(v)) \in seen[v]
          /\ audience[v] \in Arg(v).aud
          /\ proofKey[v] = Arg(v).jkt
          /\ now < Arg(v).exp
          /\ Arg(v).sub
          /\ sdk[v] = "v2" => Arg(v).claimed
<1>1. TypeOK /\ SeenInv /\ [Next]_vars => [Sound]_vars
  BY OnlyCheckAccepts DEF Accepted, Valid
<1>. QED BY <1>1, SeenAlways, TypeCorrect, PTL DEF Spec, AcceptsOnlyValid

-----------------------------------------------------------------------------
(* The keys published all through a call are in hand.                      *)

AlwaysInv ==
    \A v \in Verifier : Busy(v) =>
        /\ always[v] \subseteq Keys(Arg(v).iss)
        /\ pc[v] = "check" => always[v] \subseteq Usable(keys[v])

LEMMA AlwaysStep ==
    ASSUME LocalVerifyAssumption, TypeOK, TypeOK', AlwaysInv, Next
    PROVE  AlwaysInv'
<1>0. /\ WorldTypes /\ WorldTypes' /\ CallTypes /\ WatchTypes
  BY TypeParts DEF TypeOK, WorldTypes
<1>1. CASE Tick
  BY <1>1 DEF Tick, AlwaysInv, Busy, Arg, Keys, callVars, watchVars
<1>2. ASSUME NEW d \in Deployment, Rotate(d) \/ Retire(d) PROVE AlwaysInv'
  <2>1. UNCHANGED <<pc, keys>>
    BY <1>2 DEF Rotate, Retire
  <2>. QED BY <1>0, <1>2, <2>1, Watched DEF AlwaysInv, Busy
<1>3. ASSUME NEW d \in Deployment, Mint(d) PROVE AlwaysInv'
  <2>1. UNCHANGED <<pc, keys, token, published, always>>
    BY <1>3 DEF Mint, callVars, watchVars
  <2>2. \A n \in DOMAIN minted : minted'[n] = minted[n]
    BY <1>0, <1>3, MintTypes
  <2>3. \A v \in Verifier : Busy(v) => Arg(v)' = Arg(v)
    BY <1>0, <2>1, <2>2 DEF CallTypes, Arg
  <2>. QED BY <2>1, <2>3 DEF AlwaysInv, Busy, Keys
<1>4. ASSUME NEW w \in Verifier, Malformed(w) \/ FetchFails(w) \/ TimeOut(w) \/ Check(w) PROVE AlwaysInv'
  <2>1. pc' = [pc EXCEPT ![w] = "idle"] /\ UNCHANGED <<keys, token, minted, published, always>>
    BY <1>4 DEF Malformed, FetchFails, TimeOut, Check, Return, clockVars, callVars, watchVars
  <2>. QED BY <1>0, <2>1 DEF AlwaysInv, CallTypes, Busy, Arg, Keys
<1>5. ASSUME NEW w \in Verifier, Call(w) PROVE AlwaysInv'
  <2>1. PICK n \in DOMAIN minted : token' = [token EXCEPT ![w] = n] /\ WatchFor(w, minted[n].iss)
    BY <1>5 DEF Call
  <2>2. pc' = [pc EXCEPT ![w] = "fetch"] /\ UNCHANGED <<keys, minted, published>>
    BY <1>5 DEF Call, clockVars
  <2>3. always' = [always EXCEPT ![w] = Keys(minted[n].iss)]
    BY <2>1 DEF WatchFor
  <2>4. Arg(w)' = minted[n] /\ \A v \in Verifier : v # w => Arg(v)' = Arg(v)
    BY <1>0, <2>1, <2>2 DEF CallTypes, Arg
  <2>5. pc'[w] = "fetch" /\ \A v \in Verifier : v # w => pc'[v] = pc[v]
    BY <1>0, <2>2 DEF CallTypes
  <2>6. always'[w] = Keys(minted[n].iss) /\ \A v \in Verifier : v # w => always'[v] = always[v]
    BY <1>0, <2>3 DEF WatchTypes
  <2>. QED BY <2>2, <2>4, <2>5, <2>6 DEF AlwaysInv, Busy, Keys
<1>6. ASSUME NEW w \in Verifier, Fetch(w) PROVE AlwaysInv'
  <2>1. /\ pc[w] = "fetch" /\ pc' = [pc EXCEPT ![w] = "check"]
        /\ keys' = [keys EXCEPT ![w] = published[Arg(w).iss]]
        /\ UNCHANGED <<token, minted, published, always>>
    BY <1>6 DEF Fetch, clockVars, callVars, watchVars
  <2>2. keys'[w] = published[Arg(w).iss] /\ \A v \in Verifier : v # w => keys'[v] = keys[v] /\ pc'[v] = pc[v]
    BY <1>0, <2>1 DEF CallTypes
  <2>3. Usable(keys'[w]) = Keys(Arg(w).iss)
    BY <2>2 DEF Keys
  <2>4. \A v : Arg(v)' = Arg(v)
    BY <2>1 DEF Arg
  <2>. QED BY <2>1, <2>2, <2>3, <2>4 DEF AlwaysInv, Busy, Keys
<1>. QED BY <1>1, <1>2, <1>3, <1>4, <1>5, <1>6 DEF Next, External, Verify

-----------------------------------------------------------------------------
(* What was valid throughout is accepted.                                  *)

\* When the signer's key is in hand, and no other under its kid, it is found.
LEMMA SignerFound ==
    ASSUME TypeOK, NEW v \in Verifier, pc[v] = "check", Signer(Arg(v)) \in Usable(keys[v]),
           \A e \in Usable(keys[v]) : e.kid = Arg(v).kid => e = Signer(Arg(v))
    PROVE  Public(v) = Arg(v).signer
<1>0. keys[v] \in Seq(JWK)
  BY TypeParts DEF CallTypes
<1>1. Signer(Arg(v)).kid = Arg(v).kid /\ Signer(Arg(v)).x = Arg(v).signer
  BY DEF Signer
<1>2. Matches(v) # {}
  BY <1>0, <1>1, FirstMatch
<1>3. PICK i \in Matches(v) : Public(v) = keys[v][i].x
  BY <1>0, <1>2, FirstMatch
<1>4. keys[v][i] = Signer(Arg(v))
  BY <1>0, <1>3, FirstMatch
<1>. QED BY <1>1, <1>3, <1>4

ValidThroughout(v) ==
    /\ pc[v] = "check"
    /\ Signer(Arg(v)) \in always[v] /\ (\A e \in seen[v] : e.kid = Arg(v).kid => e = Signer(Arg(v)))
    /\ audience[v] \in Arg(v).aud /\ proofKey[v] = Arg(v).jkt
    /\ now < Arg(v).exp /\ Arg(v).sub /\ ~Epochless(v)

LEMMA NotYet == \A a, b \in Nat : a < b => ~(a >= b)
OBVIOUS

LEMMA ValidIsAccepted ==
    ASSUME LocalVerifyAssumption, TypeOK, SeenInv, AlwaysInv, NEW v \in Verifier, ValidThroughout(v)
    PROVE  Verdict(v).error = ""
<1>0. WorldTypes /\ CallTypes
  BY TypeParts
<1>1. Arg(v) \in Token
  BY <1>0, ArgTypes DEF ValidThroughout, Busy
<1>2. now \in Nat /\ Arg(v).exp \in Nat
  BY <1>0, <1>1 DEF WorldTypes, Token
<1>3. ~(now >= Arg(v).exp)
  BY <1>2, NotYet, Zenon DEF ValidThroughout
<1>4. Public(v) = Arg(v).signer /\ Public(v) # NoKey
  <2>1. pc[v] = "check" /\ Signer(Arg(v)) \in Usable(keys[v]) /\ Usable(keys[v]) \subseteq seen[v]
    BY DEF ValidThroughout, AlwaysInv, SeenInv, Busy
  <2>2. Public(v) = Arg(v).signer
    BY <2>1, SignerFound DEF ValidThroughout
  <2>3. Arg(v).signer # NoKey
    BY <1>1 DEF Token, LocalVerifyAssumption
  <2>. QED BY <2>2, <2>3
<1>5. Faults(v) = {}
  BY <1>3, <1>4, Zenon DEF Faults, ValidThroughout
<1>6. Verdict(v) = Principal(v)
  BY <1>5 DEF Verdict
<1>. QED BY <1>1, <1>6, PrincipalTypes

\* Only a check returns from the state in which a call has its keys.
LEMMA CheckReturns ==
    ASSUME TypeOK, Next, NEW v \in Verifier, pc[v] = "check", pc'[v] = "idle"
    PROVE  answer'[v] = Verdict(v)
<1>0. CallTypes
  BY TypeParts
<1>1. CASE External
  BY <1>1 DEF External, Tick, Rotate, Retire, Mint
<1>2. ASSUME NEW w \in Verifier, Malformed(w) \/ Call(w) \/ Fetch(w) \/ FetchFails(w) \/ TimeOut(w) PROVE FALSE
  <2>1. pc[w] # "check" /\ \E s \in {"idle", "fetch", "check"} : pc' = [pc EXCEPT ![w] = s]
    BY <1>2 DEF Malformed, Call, Fetch, FetchFails, TimeOut, Return
  <2>. QED BY <1>0, <2>1 DEF CallTypes
<1>3. ASSUME NEW w \in Verifier, Check(w) PROVE answer'[v] = Verdict(v)
  <2>1. pc' = [pc EXCEPT ![w] = "idle"] /\ answer' = [answer EXCEPT ![w] = Verdict(w)]
    BY <1>3 DEF Check, Return
  <2>2. v = w
    BY <1>0, <2>1 DEF CallTypes
  <2>. QED BY <1>0, <2>1, <2>2 DEF CallTypes
<1>. QED BY <1>1, <1>2, <1>3 DEF Next, Verify

\* A token signed with a key that its issuer published all through the call, and no
\* other under its kid, for that audience and proof key, unexpired when Verify looks
\* and with a subject (v3/verify.go:105-138), is accepted, whatever unusable entries
\* the key set holds under the same kid; the frozen package wants an epoch besides
\* (verify.go:112-115).
THEOREM ValidWasAccepted == Spec => AcceptsEveryValid
<1> DEFINE Complete == \A v \in Verifier : Returned(v) /\ pc[v] = "check"
          /\ Signer(Arg(v)) \in always[v] /\ (\A e \in seen[v] : e.kid = Arg(v).kid => e = Signer(Arg(v)))
          /\ audience[v] \in Arg(v).aud /\ proofKey[v] = Arg(v).jkt
          /\ now < Arg(v).exp /\ Arg(v).sub /\ ~Epochless(v)
          => answer'[v].error = ""
<1>1. LocalVerifyAssumption
  BY LocalVerifyAssumption
<1>2. Init => AlwaysInv
  BY DEF Init, AlwaysInv, Busy
<1>3. LocalVerifyAssumption /\ TypeOK /\ TypeOK' /\ AlwaysInv /\ [Next]_vars => AlwaysInv'
  <2>1. ASSUME UNCHANGED vars, AlwaysInv PROVE AlwaysInv'
    BY <2>1 DEF AlwaysInv, vars, clockVars, callVars, watchVars, Busy, Arg, Keys
  <2>. QED BY <2>1, AlwaysStep
<1>4. LocalVerifyAssumption /\ TypeOK /\ SeenInv /\ AlwaysInv /\ [Next]_vars => [Complete]_vars
  <2> SUFFICES ASSUME LocalVerifyAssumption, TypeOK, SeenInv, AlwaysInv, Next PROVE Complete
    OBVIOUS
  <2>1. ASSUME NEW v \in Verifier, Returned(v), ValidThroughout(v) PROVE answer'[v].error = ""
    <3>1. pc[v] = "check" /\ pc'[v] = "idle"
      BY <2>1 DEF Returned, ValidThroughout
    <3>. QED BY <2>1, <3>1, CheckReturns, ValidIsAccepted
  <2>. QED BY <2>1 DEF ValidThroughout
<1>5. Spec => []AlwaysInv
  BY <1>1, <1>2, <1>3, TypeCorrect, PTL DEF Spec
<1>. QED BY <1>1, <1>4, <1>5, SeenAlways, TypeCorrect, PTL DEF Spec, AcceptsEveryValid

-----------------------------------------------------------------------------
(* The promise.                                                            *)

\* What a call's error is called there.
Names(e, told) ==
    \/ e = "" /\ told = "accepted"
    \/ e = "transport" /\ told = "unavailable"
    \/ e \notin {"none", "", "transport"} /\ told = "refused"

LEMMA FailNames ==
    /\ \A e \in {"invalid", "unknown key"} : Names(Fail(e).error, "refused")
    /\ Names(Fail("transport").error, "unavailable")
<1>1. \A e : Fail(e).error = e
  BY DEF Fail, None
<1>. QED BY <1>1 DEF Names

\* The search depends on the keys in hand and on the token alone.
LEMMA SameSearch ==
    ASSUME NEW v \in Verifier, keys'[v] = keys[v], pc'[v] = pc[v], pc[v] = "check" => Arg(v)' = Arg(v)
    PROVE  Genuine(v)' = Genuine(v)
<1>1. CASE pc[v] # "check"
  BY <1>1 DEF Genuine
<1>2. CASE pc[v] = "check"
  <2>1. Matches(v)' = Matches(v)
    BY <1>2, Zenon DEF Matches
  <2>2. Public(v)' = Public(v)
    BY <2>1 DEF Public
  <2>. QED BY <1>2, <2>2 DEF Genuine
<1>. QED BY <1>1, <1>2

\* A call that returns, for whatever reason, returns there.
LEMMA ReturnsPromised ==
    ASSUME TypeOK, NEW w \in Verifier, NEW result, Return(w, result), NEW told, Names(result.error, told),
           UNCHANGED <<clockVars, callVars, keys>>
    PROVE  Promise!Return(w, told)
<1>0. CallTypes
  BY TypeParts
<1>1. pc' = [pc EXCEPT ![w] = "idle"] /\ answer' = [answer EXCEPT ![w] = result]
  BY DEF Return
<1>2. pc'[w] = "idle" /\ answer'[w] = result
      /\ \A v \in Verifier : v # w => pc'[v] = pc[v] /\ answer'[v] = answer[v]
  BY <1>0, <1>1 DEF CallTypes
<1>3. UNCHANGED <<now, made, published, minted, sdk, token, audience, proofKey, keys>>
  BY DEF clockVars, callVars
<1>4. [v \in Verifier |-> Told(v)]' = [[v \in Verifier |-> Told(v)] EXCEPT ![w] = told]
  <2>1. Told(w)' = told
    BY <1>2 DEF Names, Told
  <2>2. \A v \in Verifier : v # w => Told(v)' = Told(v)
    BY <1>2 DEF Told
  <2>. QED BY <2>1, <2>2
<1>5. [v \in Verifier |-> Genuine(v)]' = [[v \in Verifier |-> Genuine(v)] EXCEPT ![w] = FALSE]
  <2>1. Genuine(w)' = FALSE
    BY <1>2 DEF Genuine
  <2>2. ASSUME NEW v \in Verifier, v # w PROVE Genuine(v)' = Genuine(v)
    <3>1. pc'[v] = pc[v] /\ keys'[v] = keys[v] /\ Arg(v)' = Arg(v)
      BY <1>2, <1>3, <2>2 DEF Arg
    <3>. QED BY <3>1, SameSearch
  <2>. QED BY <2>1, <2>2
<1>6. \A d : Keys(d)' = Keys(d)
  BY <1>3 DEF Keys
<1>. QED BY <1>1, <1>3, <1>4, <1>5, <1>6 DEF Promise!Return, Promise!worldVars, Promise!argVars

\* Verify accepts exactly what is valid there: the signer was found, and every other
\* check is one of its conditions.
LEMMA AcceptsTheValid ==
    ASSUME LocalVerifyAssumption, TypeOK, NEW v \in Verifier, pc[v] = "check"
    PROVE  Names(Verdict(v).error, IF Promise!Valid(v) THEN "accepted" ELSE "refused")
<1>0. WorldTypes /\ CallTypes /\ Busy(v)
  BY TypeParts DEF Busy
<1>1. Arg(v) \in Token
  BY <1>0, ArgTypes
<1>2. now \in Nat /\ Arg(v).exp \in Nat /\ Arg(v).signer # NoKey
  BY <1>0, <1>1 DEF WorldTypes, Token, LocalVerifyAssumption
<1>3. Promise!Valid(v) <=> /\ Public(v) = Arg(v).signer
                           /\ audience[v] \in Arg(v).aud /\ proofKey[v] = Arg(v).jkt
                           /\ now < Arg(v).exp /\ Arg(v).sub /\ ~Epochless(v)
  BY DEF Promise!Valid, Promise!Arg, Genuine, Epochless, Arg
<1>4. CASE Faults(v) = {}
  <2>1. /\ 1 \in DOMAIN Errors /\ 2 \in DOMAIN Errors /\ 3 \in DOMAIN Errors /\ 4 \in DOMAIN Errors
        /\ 5 \in DOMAIN Errors /\ 6 \in DOMAIN Errors /\ 7 \in DOMAIN Errors
    BY ErrorNumbers, Zenon
  <2>2. /\ Public(v) = Arg(v).signer /\ audience[v] \in Arg(v).aud
        /\ ~(now >= Arg(v).exp) /\ Arg(v).jkt = proofKey[v] /\ Arg(v).sub /\ ~Epochless(v)
    BY <1>4, <2>1, Zenon DEF Faults
  <2>3. now < Arg(v).exp
    BY <1>2, <2>2, NotLater, Zenon
  <2>4. Promise!Valid(v)
    BY <1>3, <2>2, <2>3, Zenon
  <2>5. Verdict(v).error = ""
    <3>1. Verdict(v) = Principal(v)
      BY <1>4 DEF Verdict
    <3>. QED BY <1>1, <3>1, PrincipalTypes
  <2>. QED BY <2>4, <2>5 DEF Names
<1>5. CASE Faults(v) # {}
  <2>1. ~Promise!Valid(v)
    <3> SUFFICES ASSUME Promise!Valid(v) PROVE FALSE
      OBVIOUS
    <3>1. ~(now >= Arg(v).exp)
      BY <1>2, <1>3, NotYet, Zenon
    <3>2. Faults(v) = {}
      BY <1>2, <1>3, <3>1, Zenon DEF Faults
    <3>. QED BY <1>5, <3>2
  <2>2. Verdict(v).error \notin {"", "none", "transport"}
    BY <1>1, <1>5, VerdictTypes
  <2>. QED BY <2>1, <2>2 DEF Names
<1>. QED BY <1>4, <1>5

\* The deployments and the clock are the world there.
LEMMA WorldPromised ==
    ASSUME LocalVerifyAssumption, TypeOK, External
    PROVE  Promise!World
<1>0. WorldTypes /\ CallTypes
  BY TypeParts
<1>1. UNCHANGED <<sdk, token, audience, proofKey, pc, keys, answer>>
  BY DEF External, Tick, Rotate, Retire, Mint, callVars
<1>2. now' >= now
  <2>1. now \in Nat /\ (now' = now \/ now' = now + 1)
    BY <1>0 DEF External, Tick, Rotate, Retire, Mint, WorldTypes
  <2>. QED BY <2>1
<1>3. \A n \in DOMAIN minted : n \in DOMAIN minted' /\ minted'[n] = minted[n]
  <2>1. CASE UNCHANGED minted
    BY <2>1
  <2>2. ASSUME NEW d \in Deployment, Mint(d)
        PROVE  \A n \in DOMAIN minted : n \in DOMAIN minted' /\ minted'[n] = minted[n]
    BY <1>0, <2>2, MintTypes
  <2>. QED BY <2>1, <2>2 DEF External, Tick, Rotate, Retire
<1>4. \A v \in Verifier : Genuine(v)' = Genuine(v)
  <2>1. ASSUME NEW v \in Verifier, pc[v] = "check" PROVE Arg(v)' = Arg(v)
    BY <1>0, <1>1, <1>3, <2>1 DEF CallTypes, Busy, Arg
  <2>. QED BY <1>1, <2>1, SameSearch
<1>5. \A v \in Verifier : Told(v)' = Told(v)
  BY <1>1 DEF Told
<1>6. [v \in Verifier |-> Genuine(v)]' = [v \in Verifier |-> Genuine(v)]
      /\ [v \in Verifier |-> Told(v)]' = [v \in Verifier |-> Told(v)]
  BY <1>4, <1>5
<1>. QED BY <1>1, <1>2, <1>3, <1>6 DEF Promise!World, Promise!argVars

LEMMA CallPromised == ASSUME TypeOK, NEW w \in Verifier, Call(w) PROVE Promise!Call(w)
<1>0. CallTypes
  BY TypeParts
<1>1. /\ pc[w] = "idle" /\ pc' = [pc EXCEPT ![w] = "fetch"] /\ answer' = [answer EXCEPT ![w] = None]
      /\ UNCHANGED <<now, made, published, minted, sdk, keys>>
  BY DEF Call, clockVars
<1>2. /\ \E n \in DOMAIN minted : token' = [token EXCEPT ![w] = n]
      /\ \E a \in Audience : audience' = [audience EXCEPT ![w] = a]
      /\ \E k \in Presenter : proofKey' = [proofKey EXCEPT ![w] = k]
  BY DEF Call
<1>3. [v \in Verifier |-> Told(v)]' = [[v \in Verifier |-> Told(v)] EXCEPT ![w] = "none"]
  <2>1. answer'[w] = None /\ \A v \in Verifier : v # w => answer'[v] = answer[v]
    BY <1>0, <1>1 DEF CallTypes
  <2>2. Told(w)' = "none"
    BY <2>1 DEF Told, None
  <2>3. \A v \in Verifier : v # w => Told(v)' = Told(v)
    BY <2>1 DEF Told
  <2>. QED BY <2>2, <2>3
<1>4. [v \in Verifier |-> Genuine(v)]' = [v \in Verifier |-> Genuine(v)]
  <2>1. pc'[w] = "fetch" /\ \A v \in Verifier : v # w => pc'[v] = pc[v]
    BY <1>0, <1>1 DEF CallTypes
  <2>2. \A v \in Verifier : v # w => token'[v] = token[v]
    BY <1>0, <1>2 DEF CallTypes
  <2>3. Genuine(w)' = Genuine(w)
    BY <1>1, <2>1 DEF Genuine
  <2>4. ASSUME NEW v \in Verifier, v # w PROVE Genuine(v)' = Genuine(v)
    <3>1. Arg(v)' = Arg(v)
      BY <1>1, <2>2, <2>4 DEF Arg
    <3>. QED BY <1>1, <2>1, <2>4, <3>1, SameSearch
  <2>. QED BY <2>3, <2>4
<1>5. \A d : Keys(d)' = Keys(d)
  BY <1>1 DEF Keys
<1>. QED BY <1>1, <1>2, <1>3, <1>4, <1>5 DEF Promise!Call, Promise!worldVars

LEMMA AskPromised == ASSUME LocalVerifyAssumption, TypeOK, NEW w \in Verifier, Fetch(w) PROVE Promise!Ask(w)
<1>0. WorldTypes /\ CallTypes
  BY TypeParts
<1>1. /\ pc[w] = "fetch" /\ pc' = [pc EXCEPT ![w] = "check"]
      /\ keys' = [keys EXCEPT ![w] = published[Arg(w).iss]]
      /\ UNCHANGED <<now, made, published, minted, sdk, token, audience, proofKey, answer>>
  BY DEF Fetch, clockVars, callVars
<1>2. Arg(w).iss \in Deployment
  <2>1. Arg(w) \in Token
    BY <1>0, <1>1, ArgTypes DEF Busy
  <2>. QED BY <2>1 DEF Token
<1>3. /\ pc'[w] = "check" /\ keys'[w] = published[Arg(w).iss]
      /\ \A v \in Verifier : v # w => pc'[v] = pc[v] /\ keys'[v] = keys[v]
  BY <1>0, <1>1 DEF CallTypes
<1>4. \A v : Arg(v)' = Arg(v)
  BY <1>1 DEF Arg
<1>5. (\A d : Keys(d)' = Keys(d)) /\ (\A v : Told(v)' = Told(v))
  BY <1>1 DEF Keys, Told
<1>6. \A v \in Verifier : v # w => Genuine(v)' = Genuine(v)
  BY <1>3, <1>4, SameSearch
<1>7. Arg(w) \in Token /\ Arg(w).signer # NoKey
  BY <1>0, <1>1, ArgTypes DEF Busy, Token, LocalVerifyAssumption
<1> DEFINE candidates == {e \in Keys(Arg(w).iss) : e.kid = Arg(w).kid}
<1>8. keys'[w] \in Seq(JWK) /\ Usable(keys'[w]) = Keys(Arg(w).iss)
  BY <1>0, <1>2, <1>3 DEF WorldTypes, Keys
<1>9. /\ Matches(w)' = {} => Public(w)' = NoKey
      /\ Matches(w)' # {} => \E i \in Matches(w)' : Public(w)' = keys'[w][i].x
      /\ \A i \in Matches(w)' : keys'[w][i] \in Usable(keys'[w]) /\ keys'[w][i].kid = Arg(w).kid
      /\ \A e \in Usable(keys'[w]) : e.kid = Arg(w).kid => Matches(w)' # {}
  <2>1. Arg(w)'.kid = Arg(w).kid
    BY <1>4
  <2>2. Matches(w)' = Candidates(keys'[w], Arg(w)'.kid) /\ Public(w)' = Taken(keys'[w], Arg(w)'.kid)
    BY Zenon DEF Matches, Public, Candidates, Taken
  <2>. QED BY <1>8, <2>1, <2>2, Search
<1>10. Genuine(w)' = (Public(w)' = Arg(w).signer)
  BY <1>3, <1>4 DEF Genuine
<1>11. Genuine(w)' \in IF candidates = {} THEN {FALSE} ELSE {e.x = Arg(w).signer : e \in candidates}
  <2>1. CASE candidates = {}
    <3>1. Matches(w)' = {}
      BY <1>4, <1>8, <1>9, <2>1
    <3>. QED BY <1>7, <1>9, <1>10, <2>1, <3>1
  <2>2. CASE candidates # {}
    <3>1. PICK i \in Matches(w)' : Public(w)' = keys'[w][i].x
      BY <1>4, <1>8, <1>9, <2>2
    <3>2. keys'[w][i] \in candidates
      BY <1>4, <1>8, <1>9, <3>1
    <3>. QED BY <1>10, <2>2, <3>1, <3>2
  <2>. QED BY <2>1, <2>2
<1>12. [d \in Deployment |-> Keys(d)][Arg(w).iss] = Keys(Arg(w).iss) /\ Promise!Arg(w) = Arg(w)
  BY <1>2 DEF Promise!Arg, Arg
<1>13. Promise!Found(Promise!Arg(w)) =
          IF candidates = {} THEN {FALSE} ELSE {e.x = Arg(w).signer : e \in candidates}
  <2>1. {e \in [d \in Deployment |-> Keys(d)][Promise!Arg(w).iss] : e.kid = Promise!Arg(w).kid} = candidates
    BY <1>12
  <2>. HIDE DEF candidates
  <2>2. Promise!Found(Promise!Arg(w)) =
          IF candidates = {} THEN {FALSE} ELSE {e.x = Promise!Arg(w).signer : e \in candidates}
    BY <2>1, Zenon DEF Promise!Found
  <2>. QED BY <1>12, <2>2
<1>14. [v \in Verifier |-> Genuine(v)]' = [[v \in Verifier |-> Genuine(v)] EXCEPT ![w] = Genuine(w)']
  BY <1>6
<1>15. Genuine(w)' \in Promise!Found(Promise!Arg(w))
  BY <1>11, <1>13
<1>. QED BY <1>1, <1>5, <1>14, <1>15 DEF Promise!Ask, Promise!worldVars, Promise!argVars

LEMMA StepPromised ==
    ASSUME LocalVerifyAssumption, TypeOK, Next
    PROVE  Promise!Next
<1>1. CASE External
  BY <1>1, WorldPromised DEF Promise!Next
<1>2. ASSUME NEW w \in Verifier, Malformed(w) PROVE Promise!Next
  <2>1. pc[w] = "idle" /\ Return(w, Fail("invalid")) /\ UNCHANGED <<clockVars, callVars, keys>>
    BY <1>2 DEF Malformed
  <2>2. Promise!Return(w, "refused")
    BY <2>1, FailNames, ReturnsPromised
  <2>. QED BY <2>1, <2>2 DEF Promise!Next, Promise!Malformed
<1>3. ASSUME NEW w \in Verifier, Call(w) PROVE Promise!Next
  BY <1>3, CallPromised DEF Promise!Next
<1>4. ASSUME NEW w \in Verifier, Fetch(w) PROVE Promise!Next
  BY <1>4, AskPromised DEF Promise!Next
<1>5. ASSUME NEW w \in Verifier, FetchFails(w) \/ TimeOut(w) PROVE Promise!Next
  <2>1. PICK e \in {"unknown key", "transport"} : Return(w, Fail(e))
    BY <1>5 DEF FetchFails, TimeOut
  <2>2. pc[w] = "fetch" /\ UNCHANGED <<clockVars, callVars, keys>>
    BY <1>5 DEF FetchFails, TimeOut
  <2>3. \E told \in {"refused", "unavailable"} : Names(Fail(e).error, told)
    BY FailNames
  <2>4. \E told \in {"refused", "unavailable"} : Promise!Return(w, told)
    BY <2>1, <2>2, <2>3, ReturnsPromised
  <2>. QED BY <2>2, <2>4 DEF Promise!Next, Promise!NotAnswered
<1>6. ASSUME NEW w \in Verifier, Check(w) PROVE Promise!Next
  <2>1. pc[w] = "check" /\ Return(w, Verdict(w)) /\ UNCHANGED <<clockVars, callVars, keys>>
    BY <1>6 DEF Check
  <2>2. Promise!Return(w, IF Promise!Valid(w) THEN "accepted" ELSE "refused")
    BY <2>1, AcceptsTheValid, ReturnsPromised
  <2>. QED BY <2>1, <2>2 DEF Promise!Next, Promise!Decide
<1>. QED BY <1>1, <1>2, <1>3, <1>4, <1>5, <1>6 DEF Next, Verify

\* Verify of either package (v3/verify.go:55-157, verify.go:31-122) is one look at the
\* issuer's keys and one decision: every step is a step of VerifyPromise or a stutter.
THEOREM CallsKeepPromise == Spec => ImplementsPromise
<1>1. LocalVerifyAssumption
  BY LocalVerifyAssumption
<1>2. Init => Promise!Init
  <2> SUFFICES ASSUME Init PROVE Promise!Init
    OBVIOUS
  <2>1. minted = << >> /\ pc = [v \in Verifier |-> "idle"] /\ answer = [v \in Verifier |-> None]
    BY DEF Init
  <2>2. \A v \in Verifier : Genuine(v) = FALSE /\ Told(v) = "none"
    BY <2>1 DEF Genuine, Told, None
  <2>3. [v \in Verifier |-> Genuine(v)] = [v \in Verifier |-> FALSE]
    BY <2>2, Zenon
  <2>4. [v \in Verifier |-> Told(v)] = [v \in Verifier |-> "none"]
    BY <2>2, Zenon
  <2>. QED BY <2>1, <2>3, <2>4 DEF Promise!Init
<1>3. LocalVerifyAssumption /\ TypeOK /\ [Next]_vars => [Promise!Next]_(Promise!vars)
  <2>1. ASSUME UNCHANGED vars PROVE UNCHANGED Promise!vars
    <3>1. UNCHANGED <<now, published, minted, sdk, token, audience, proofKey, pc, keys, answer>>
      BY <2>1 DEF vars, clockVars, callVars
    <3>2. /\ \A d : Keys(d)' = Keys(d)
          /\ \A v : Told(v)' = Told(v)
          /\ \A v : Genuine(v)' = Genuine(v)
      BY <3>1 DEF Keys, Told, Genuine, Public, Matches, Arg
    <3>. QED BY <3>1, <3>2 DEF Promise!vars, Promise!worldVars, Promise!argVars
  <2>. QED BY <2>1, StepPromised
<1>. QED BY <1>1, <1>2, <1>3, TypeCorrect, PTL DEF Spec, ImplementsPromise, Promise!Spec
=============================================================================

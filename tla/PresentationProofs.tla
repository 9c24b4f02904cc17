------------------------- MODULE PresentationProofs -------------------------
(***************************************************************************)
(* What IntrospectContext returns, for any gateways, keys, timeouts and    *)
(* bounds: Spec implies AcceptsOnlyBound, StaleAtMostCap, NewProofSuffices *)
(* and that tokens and proofs stay with the deployment.                    *)
(*                                                                         *)
(* The invariant is about the calls that run.  A call waits at most Cap,   *)
(* because the clock does not pass its deadline and no deadline is later;  *)
(* a context that came back was true when the deployment answered, and so  *)
(* its token was alive at some moment since the call began.                *)
(***************************************************************************)
EXTENDS Presentation, TLAPS

(* Types: what is shared and what belongs to the calls.                    *)

Kinds == {"none", "status", "redirect", "garbage", "inactive", "context"}
Arguments == [token : Nat, audience : Audience \cup {NoAudience}, proof : Nat,
              presenter : Key \cup {NoKey}, began : Nat, sole : BOOLEAN]

WorldTypes ==
    /\ now \in Nat
    /\ minted \in Seq(MintedToken) /\ proofs \in Seq(SignedProof)
    /\ used \subseteq Nat /\ lateProofs \subseteq DOMAIN proofs
    /\ carried \subseteq Endpoints \cup {"elsewhere"}
    /\ clientTimeout \in [Gateway -> ClientTimeouts]

CallTypes ==
    /\ pc \in [Gateway -> {"idle", "sent", "answered", "check"}]
    /\ call \in [Gateway -> Arguments]
    /\ reply \in [Gateway -> [kind : Kinds, context : Context]]
    /\ answer \in [Gateway -> {"none", "", "invalid", "inactive", "other"}]
    /\ entitled \in [Gateway -> BOOLEAN]

Given(g) == pc[g] # "idle" => call[g].token \in DOMAIN minted /\ call[g].proof \in DOMAIN proofs

LEMMA TypeParts == TypeOK <=> WorldTypes /\ CallTypes /\ \A g \in Gateway : Given(g)
BY DEF TypeOK, WorldTypes, CallTypes, Given, Kinds, Arguments

LEMMA TypePartsNext == TypeOK' <=> WorldTypes' /\ CallTypes' /\ \A g \in Gateway : Given(g)'
BY DEF TypeOK, WorldTypes, CallTypes, Given, Kinds, Arguments

(* A call that runs was made with a key and an audience, and one that      *)
(* waits is not older than Cap.                                            *)
InTime(g) ==
    /\ pc[g] # "idle" => call[g].presenter \in Key /\ call[g].audience \in Audience /\ call[g].began <= now
    /\ Waiting(g) => now <= call[g].began + Cap

\* The token was alive at some moment since the call began.
AliveSince(g) == Token(g).live \/ Token(g).stoppedAt >= call[g].began

(* A context that came back is the token's, perhaps incomplete.            *)
Truthful(g) ==
    /\ pc[g] \in {"answered", "check"} /\ reply[g].kind = "context" =>
          /\ AliveSince(g)
          /\ \/ reply[g].context = TrueContext(call[g].token)
             \/ reply[g].context \in Incomplete(TrueContext(call[g].token))
    /\ pc[g] = "check" => reply[g].kind = "context"

CallInv == \A g \in Gateway : InTime(g) /\ Truthful(g)

Inv == TypeOK /\ CallInv

-----------------------------------------------------------------------------
LEMMA NothingTypes ==
    NoContext \in Context /\ NoReply \in [kind : Kinds, context : Context] /\ NoCall \in Arguments
BY DEF NoContext, NoReply, NoCall, Context, Kinds, Arguments

LEMMA InitInv == Init => Inv
<1>. SUFFICES ASSUME Init PROVE Inv
  OBVIOUS
<1>1. WorldTypes
  <2>1. << >> \in Seq(MintedToken) /\ << >> \in Seq(SignedProof)
    OBVIOUS
  <2>. QED BY <2>1 DEF Init, WorldTypes
<1>2. CallTypes
  <2>. HIDE DEF NoContext, NoReply, NoCall
  <2>. QED BY NothingTypes DEF Init, CallTypes
<1>3. \A g \in Gateway : pc[g] = "idle"
  BY DEF Init
<1>4. CallInv
  BY <1>3 DEF CallInv, InTime, Truthful, Waiting
<1>. QED BY <1>1, <1>2, <1>3, <1>4, TypeParts DEF Inv, Given

LEMMA TimeoutAtMostCap == PresentationAssumption => \A g \in Gateway : Timeout(g) \in Nat /\ Timeout(g) <= Cap
BY DEF Timeout, PresentationAssumption

-----------------------------------------------------------------------------
(* The world moves on and the calls do not.                                *)

\* Tokens and proofs are only added, and a token keeps its binding; one that is
\* stopped is stopped now.
WorldGrows ==
    /\ now' \in Nat /\ now <= now'
    /\ DOMAIN minted \subseteq DOMAIN minted' /\ DOMAIN proofs \subseteq DOMAIN proofs'
    /\ \A t \in DOMAIN minted :
          /\ TrueContext(t)' = TrueContext(t)
          /\ \/ minted'[t].live = minted[t].live /\ minted'[t].stoppedAt = minted[t].stoppedAt
             \/ minted'[t].stoppedAt = now

LEMMA MintedTypes ==
    ASSUME WorldTypes, NEW t \in DOMAIN minted
    PROVE  /\ minted[t] \in MintedToken
           /\ minted[t].stoppedAt \in Nat /\ minted[t].live \in BOOLEAN
<1>1. minted[t] \in MintedToken
  BY DEF WorldTypes
<1>. QED BY <1>1 DEF MintedToken

LEMMA CallsStand ==
    ASSUME Inv, PresentationAssumption, WorldTypes', WorldGrows, UNCHANGED callVars,
           \A g \in Gateway : Waiting(g) => now' <= call[g].began + Cap
    PROVE  Inv'
<1>1. WorldTypes /\ CallTypes /\ \A g \in Gateway : Given(g) /\ InTime(g) /\ Truthful(g)
  BY TypeParts DEF Inv, CallInv
<1>2. pc' = pc /\ call' = call /\ reply' = reply /\ answer' = answer /\ entitled' = entitled
  BY DEF callVars
<1>3. CallTypes'
  BY <1>1, <1>2 DEF CallTypes
<1>4. \A g \in Gateway : Given(g)'
  BY <1>1, <1>2 DEF Given, WorldGrows
<1>5. ASSUME NEW g \in Gateway PROVE InTime(g)'
  <2>1. call[g].began \in Nat /\ now \in Nat /\ now' \in Nat
    BY <1>1 DEF CallTypes, Arguments, WorldTypes, WorldGrows
  <2>. QED BY <1>1, <1>2, <2>1 DEF InTime, WorldGrows, Waiting
<1>6. ASSUME NEW g \in Gateway PROVE Truthful(g)'
  <2>. SUFFICES ASSUME pc[g] \in {"answered", "check"}, reply[g].kind = "context"
                PROVE  AliveSince(g)' /\ TrueContext(call[g].token)' = TrueContext(call[g].token)
    <3>1. ASSUME TrueContext(call[g].token)' = TrueContext(call[g].token)
          PROVE  Incomplete(TrueContext(call[g].token))' = Incomplete(TrueContext(call[g].token))
      BY <1>2, <3>1 DEF Incomplete
    <3>. QED BY <1>1, <1>2, <3>1 DEF Truthful
  <2>. DEFINE t == call[g].token
  <2>1. t \in DOMAIN minted /\ AliveSince(g) /\ call[g].began <= now
    BY <1>1 DEF Truthful, Given, InTime
  <2>2. call[g].began \in Nat /\ now \in Nat
    BY <1>1 DEF CallTypes, Arguments, WorldTypes
  <2>3. TrueContext(t)' = TrueContext(t)
    BY <1>2, <2>1 DEF WorldGrows
  <2>4. (minted'[t].live = minted[t].live /\ minted'[t].stoppedAt = minted[t].stoppedAt)
       \/ minted'[t].stoppedAt = now
    BY <2>1 DEF WorldGrows
  <2>5. AliveSince(g)'
    BY <1>2, <2>1, <2>2, <2>4 DEF AliveSince, Token
  <2>. QED BY <1>2, <2>3, <2>5
<1>. QED BY <1>3, <1>4, <1>5, <1>6, TypePartsNext DEF Inv, CallInv

LEMMA TickInv == ASSUME Inv, PresentationAssumption, Tick PROVE Inv'
<1>1. WorldTypes /\ CallTypes /\ CallInv
  BY TypeParts DEF Inv
<1>2. now \in Nat /\ now' = now + 1 /\ UNCHANGED <<minted, proofs, used, lateProofs, carried, clientTimeout>> /\ UNCHANGED callVars
  BY <1>1 DEF Tick, WorldTypes
<1>3. WorldTypes'
  BY <1>1, <1>2 DEF WorldTypes
<1>4. WorldGrows
  BY <1>2 DEF WorldGrows, TrueContext
<1>5. ASSUME NEW g \in Gateway, Waiting(g) PROVE now' <= call[g].began + Cap
  <2>1. call[g].began \in Nat
    BY <1>1 DEF CallTypes, Arguments
  <2>2. ~(now >= call[g].began + Timeout(g))
    BY <1>5 DEF Tick, Overdue
  <2>3. Timeout(g) \in Nat /\ Timeout(g) <= Cap /\ Cap \in Nat
    BY TimeoutAtMostCap DEF PresentationAssumption
  <2>. HIDE DEF Timeout
  <2>. QED BY <1>2, <2>1, <2>2, <2>3
<1>. QED BY <1>2, <1>3, <1>4, <1>5, CallsStand

LEMMA ClockStands ==
    ASSUME Inv, now' = now, NEW g \in Gateway, Waiting(g)
    PROVE  now' <= call[g].began + Cap
BY DEF Inv, CallInv, InTime

LEMMA MintInv == ASSUME Inv, PresentationAssumption, Mint PROVE Inv'
<1>1. WorldTypes
  BY TypeParts DEF Inv
<1>2. PICK t : t \in MintedToken /\ minted' = Append(minted, t)
  <2>1. PICK k \in Holder, a \in Served :
          minted' = Append(minted, [jkt |-> k, audience |-> a, expiresAt |-> now + Lifetime,
                                    live |-> TRUE, stoppedAt |-> 0])
    BY DEF Mint
  <2>2. k \in Key /\ a \in Audience /\ now + Lifetime \in Nat
    BY <1>1 DEF PresentationAssumption, WorldTypes
  <2>. DEFINE t == [jkt |-> k, audience |-> a, expiresAt |-> now + Lifetime, live |-> TRUE, stoppedAt |-> 0]
  <2>3. t \in MintedToken
    BY <2>2 DEF MintedToken
  <2>. QED BY <2>1, <2>3
<1>3. UNCHANGED <<now, proofs, used, lateProofs, carried, clientTimeout>> /\ UNCHANGED callVars
  BY DEF Mint
<1>4. minted' \in Seq(MintedToken) /\ \A n \in DOMAIN minted : n \in DOMAIN minted' /\ minted'[n] = minted[n]
  BY <1>1, <1>2 DEF WorldTypes
<1>5. WorldTypes'
  BY <1>1, <1>3, <1>4 DEF WorldTypes
<1>6. WorldGrows
  <2>1. \A n \in DOMAIN minted : TrueContext(n)' = TrueContext(n)
    BY <1>4 DEF TrueContext
  <2>2. now \in Nat /\ now' = now /\ proofs' = proofs
    BY <1>1, <1>3 DEF WorldTypes
  <2>3. DOMAIN minted \subseteq DOMAIN minted'
    BY <1>4
  <2>4. \A n \in DOMAIN minted : minted'[n].live = minted[n].live /\ minted'[n].stoppedAt = minted[n].stoppedAt
    BY <1>4
  <2>. QED BY <2>1, <2>2, <2>3, <2>4 DEF WorldGrows
<1>. QED BY <1>3, <1>5, <1>6, ClockStands, CallsStand

LEMMA StopInv == ASSUME Inv, PresentationAssumption, NEW t \in DOMAIN minted, Stop(t) PROVE Inv'
<1>1. WorldTypes
  BY TypeParts DEF Inv
<1>2. UNCHANGED <<now, proofs, used, lateProofs, carried, clientTimeout>> /\ UNCHANGED callVars
  BY DEF Stop
<1>. DEFINE w == [minted[t] EXCEPT !.live = FALSE, !.stoppedAt = now]
<1>3. minted' = [minted EXCEPT ![t] = w]
  BY DEF Stop
<1>4. w \in MintedToken /\ w.jkt = minted[t].jkt /\ w.audience = minted[t].audience
      /\ w.expiresAt = minted[t].expiresAt /\ w.stoppedAt = now
  <2>1. minted[t] \in MintedToken /\ now \in Nat
    BY <1>1, MintedTypes DEF WorldTypes
  <2>. QED BY <2>1 DEF MintedToken
<1>. HIDE DEF w
<1>5. minted' \in Seq(MintedToken) /\ DOMAIN minted' = DOMAIN minted
  BY <1>1, <1>3, <1>4 DEF WorldTypes
<1>6. \A n \in DOMAIN minted : minted'[n] = IF n = t THEN w ELSE minted[n]
  BY <1>1, <1>3 DEF WorldTypes
<1>7. WorldTypes'
  BY <1>1, <1>2, <1>5 DEF WorldTypes
<1>8. WorldGrows
  <2>1. \A n \in DOMAIN minted : TrueContext(n)' = TrueContext(n)
    BY <1>4, <1>6 DEF TrueContext
  <2>. QED BY <1>1, <1>2, <1>4, <1>5, <1>6, <2>1 DEF WorldGrows, WorldTypes
<1>. QED BY <1>2, <1>7, <1>8, ClockStands, CallsStand

LEMMA SignInv ==
    ASSUME Inv, PresentationAssumption, NEW t \in DOMAIN minted, NEW target \in Targets, NEW k \in Key,
           SignDPoP(t, target, k)
    PROVE  Inv'
<1>1. WorldTypes
  BY TypeParts DEF Inv
<1>2. UNCHANGED <<now, minted, used, lateProofs, carried, clientTimeout>> /\ UNCHANGED callVars
  BY DEF SignDPoP
<1>3. PICK p : p \in SignedProof /\ proofs' = Append(proofs, p)
  <2>. DEFINE p == [jti |-> Len(proofs) + 1, htu |-> Htu(target), ath |-> t, key |-> k, iat |-> now]
  <2>1. Len(proofs) + 1 \in Nat /\ t \in Nat /\ now \in Nat
    BY <1>1 DEF WorldTypes
  <2>2. Htu(target) \in Targets
    BY DEF Htu, Targets
  <2>3. p \in SignedProof
    BY <2>1, <2>2 DEF SignedProof
  <2>. QED BY <2>3 DEF SignDPoP, Signed
<1>4. proofs' \in Seq(SignedProof) /\ DOMAIN proofs \subseteq DOMAIN proofs'
  BY <1>1, <1>3 DEF WorldTypes
<1>5. WorldTypes'
  BY <1>1, <1>2, <1>4 DEF WorldTypes
<1>6. WorldGrows
  BY <1>1, <1>2, <1>4 DEF WorldGrows, TrueContext, WorldTypes
<1>. QED BY <1>2, <1>5, <1>6, ClockStands, CallsStand

LEMMA JtiTypes == ASSUME WorldTypes, NEW p \in DOMAIN proofs PROVE proofs[p].jti \in Nat
<1>1. proofs[p] \in SignedProof
  BY DEF WorldTypes
<1>. QED BY <1>1 DEF SignedProof

LEMMA LateInv ==
    ASSUME Inv, PresentationAssumption, NEW p \in DOMAIN proofs, IntrospectLate(p)
    PROVE  Inv'
<1>1. WorldTypes
  BY TypeParts DEF Inv
<1>2. UNCHANGED <<now, minted, proofs, carried, clientTimeout>> /\ UNCHANGED callVars
  BY DEF IntrospectLate
<1>3. used' = used \cup {proofs[p].jti} /\ lateProofs' = lateProofs \ {p}
  BY DEF IntrospectLate
<1>4. WorldTypes'
  BY <1>1, <1>2, <1>3, JtiTypes DEF WorldTypes
<1>5. WorldGrows
  BY <1>1, <1>2 DEF WorldGrows, TrueContext, WorldTypes
<1>. QED BY <1>2, <1>4, <1>5, ClockStands, CallsStand

-----------------------------------------------------------------------------
(* One call moves on and the world does not.                               *)

\* A call keeps its arguments; that its proof is relayed by another is no change of them.
SameCall(h) ==
    /\ call'[h].token = call[h].token /\ call'[h].audience = call[h].audience /\ call'[h].proof = call[h].proof
    /\ call'[h].presenter = call[h].presenter /\ call'[h].began = call[h].began

LEMMA OthersStand ==
    ASSUME Inv, UNCHANGED <<now, minted, proofs>>, NEW h \in Gateway,
           pc'[h] = pc[h], SameCall(h), reply'[h] = reply[h]
    PROVE  Given(h)' /\ InTime(h)' /\ Truthful(h)'
<1>1. Given(h) /\ InTime(h) /\ Truthful(h)
  BY TypeParts DEF Inv, CallInv
<1>2. Given(h)'
  BY <1>1 DEF Given, SameCall
<1>3. InTime(h)'
  BY <1>1 DEF InTime, Waiting, SameCall
<1>4. AliveSince(h)' = AliveSince(h) /\ TrueContext(call[h].token)' = TrueContext(call[h].token)
  BY DEF AliveSince, Token, TrueContext, SameCall
<1>5. Incomplete(TrueContext(call[h].token))' = Incomplete(TrueContext(call[h].token))
  BY <1>4 DEF Incomplete
<1>6. Truthful(h)'
  BY <1>1, <1>4, <1>5 DEF Truthful
<1>. QED BY <1>2, <1>3, <1>6

LEMMA CallMoves ==
    ASSUME Inv, NEW g \in Gateway, WorldTypes', CallTypes', UNCHANGED <<now, minted, proofs>>,
           \A h \in Gateway \ {g} : pc'[h] = pc[h] /\ SameCall(h) /\ reply'[h] = reply[h],
           Given(g)', InTime(g)', Truthful(g)'
    PROVE  Inv'
<1>1. ASSUME NEW h \in Gateway PROVE Given(h)' /\ InTime(h)' /\ Truthful(h)'
  <2>1. CASE h = g
    BY <2>1
  <2>2. CASE h # g
    BY <2>2, OthersStand
  <2>. QED BY <2>1, <2>2
<1>. QED BY <1>1, TypePartsNext DEF Inv, CallInv

LEMMA ReturnInv ==
    ASSUME Inv, NEW g \in Gateway, NEW r \in {"", "invalid", "inactive", "other"}, Return(g, r),
           UNCHANGED <<now, minted, proofs, used, carried, clientTimeout>>, lateProofs' \subseteq DOMAIN proofs
    PROVE  Inv'
<1>1. WorldTypes /\ CallTypes
  BY TypeParts DEF Inv
<1>2. WorldTypes'
  BY <1>1 DEF WorldTypes
<1>3. CallTypes'
  <2>. HIDE DEF NoReply, NoCall
  <2>1. pc' = [pc EXCEPT ![g] = "idle"] /\ call' = [call EXCEPT ![g] = NoCall]
        /\ reply' = [reply EXCEPT ![g] = NoReply] /\ entitled' = [entitled EXCEPT ![g] = FALSE]
        /\ answer' = [answer EXCEPT ![g] = r]
    BY DEF Return
  <2>. QED BY <1>1, <2>1, NothingTypes DEF CallTypes
<1>4. pc'[g] = "idle" /\ \A h \in Gateway \ {g} : pc'[h] = pc[h] /\ SameCall(h) /\ reply'[h] = reply[h]
  BY <1>1 DEF Return, CallTypes, SameCall
<1>5. Given(g)' /\ InTime(g)' /\ Truthful(g)'
  BY <1>4 DEF Given, InTime, Waiting, Truthful
<1>. QED BY <1>2, <1>3, <1>4, <1>5, CallMoves

LEMMA GiveUpInv == ASSUME Inv, NEW g \in Gateway, pc[g] # "idle", GiveUp(g) PROVE Inv'
<1>1. lateProofs \subseteq DOMAIN proofs /\ call[g].proof \in DOMAIN proofs
  BY TypeParts DEF Inv, WorldTypes, Given
<1>. QED BY <1>1, ReturnInv DEF GiveUp

LEMMA ReturnsInv ==
    ASSUME Inv, NEW g \in Gateway,
           \/ Refuse(g) \/ TransportFails(g) \/ TimeOut(g)
           \/ NotOK(g) \/ NotRead(g) \/ Inactive(g) \/ Check(g)
    PROVE  Inv'
<1>1. lateProofs \subseteq DOMAIN proofs
  BY TypeParts DEF Inv, WorldTypes
<1>2. CASE Refuse(g)
  BY <1>1, <1>2, ReturnInv DEF Refuse, externalVars
<1>3. CASE TransportFails(g) \/ TimeOut(g)
  BY <1>3, GiveUpInv DEF TransportFails, TimeOut, Overdue, Waiting
<1>4. CASE NotOK(g) \/ NotRead(g) \/ Inactive(g)
  BY <1>1, <1>4, ReturnInv DEF NotOK, NotRead, Inactive, Fail, externalVars
<1>5. CASE Check(g)
  <2>1. PICK r \in {"", "invalid"} : Return(g, r)
    BY <1>5 DEF Check
  <2>. QED BY <1>1, <1>5, <2>1, ReturnInv DEF Check, externalVars
<1>. QED BY <1>2, <1>3, <1>4, <1>5

\* What a request is, and what it does to the calls of others.
Sends(g, p, c) ==
    /\ c \in Arguments /\ c.token \in DOMAIN minted /\ c.audience \in Audience /\ c.proof = p /\ c.presenter \in Key
    /\ c.began = now
    /\ c.sole => p \notin lateProofs /\ proofs[p].jti \notin used /\ \A h \in Gateway : Waiting(h) => call[h].proof # p
    /\ call' \in [Gateway -> Arguments] /\ call'[g] = c
    /\ \A h \in Gateway \ {g} : SameCall(h) /\ (call'[h].sole => call[h].sole /\ call[h].proof # p)

\* Send makes such a request.
LEMMA SendSends ==
    ASSUME WorldTypes, CallTypes, NEW g \in Gateway, Send(g)
    PROVE  \E p \in DOMAIN proofs : \E c : Sends(g, p, c)
<1>1. PICK t \in DOMAIN minted, a \in Audience, p \in DOMAIN proofs, k \in Key :
        call' = [h \in Gateway |->
                   IF h = g
                   THEN [token |-> t, audience |-> a, proof |-> p, presenter |-> k, began |-> now,
                         sole |-> p \notin lateProofs /\ proofs[p].jti \notin used
                                  /\ \A i \in Gateway : Waiting(i) => call[i].proof # p]
                   ELSE [call[h] EXCEPT !.sole = @ /\ call[h].proof # p]]
  BY Zenon DEF Send
<1>. DEFINE b == p \notin lateProofs /\ proofs[p].jti \notin used /\ \A i \in Gateway : Waiting(i) => call[i].proof # p
            c == [token |-> t, audience |-> a, proof |-> p, presenter |-> k, began |-> now, sole |-> b]
            d(h) == [call[h] EXCEPT !.sole = call[h].sole /\ call[h].proof # p]
<1>2. t \in Nat /\ p \in Nat /\ now \in Nat
  BY DEF WorldTypes
<1>3. b \in BOOLEAN
  OBVIOUS
<1>4. c.sole <=> b
  OBVIOUS
<1>5. c \in Arguments /\ c.token = t /\ c.audience = a /\ c.proof = p /\ c.presenter = k /\ c.began = now
  <2>. HIDE DEF b
  <2>. QED BY <1>2, <1>3 DEF Arguments
<1>6. ASSUME NEW h \in Gateway
      PROVE  /\ d(h) \in Arguments /\ d(h).token = call[h].token /\ d(h).audience = call[h].audience
             /\ d(h).proof = call[h].proof /\ d(h).presenter = call[h].presenter /\ d(h).began = call[h].began
             /\ d(h).sole <=> call[h].sole /\ call[h].proof # p
  <2>1. call[h] \in Arguments
    BY DEF CallTypes
  <2>. QED BY <2>1 DEF Arguments
<1>7. call' = [h \in Gateway |-> IF h = g THEN c ELSE d(h)]
  BY <1>1
<1>. HIDE DEF c, d
<1>8. call' \in [Gateway -> Arguments] /\ call'[g] = c /\ \A h \in Gateway \ {g} : call'[h] = d(h)
  BY <1>5, <1>6, <1>7
<1>9. \A h \in Gateway \ {g} : SameCall(h) /\ (call'[h].sole => call[h].sole /\ call[h].proof # p)
  BY <1>6, <1>8, Zenon DEF SameCall
<1>10. Sends(g, p, c)
  BY <1>4, <1>5, <1>8, <1>9, Zenon DEF Sends
<1>. QED BY <1>10

LEMMA SendInv == ASSUME Inv, PresentationAssumption, NEW g \in Gateway, Send(g) PROVE Inv'
<1>1. WorldTypes /\ CallTypes
  BY TypeParts DEF Inv
<1>2. PICK p \in DOMAIN proofs : \E c : Sends(g, p, c)
  BY <1>1, SendSends
<1>3. PICK c : Sends(g, p, c)
  BY <1>2
<1>4. pc' = [pc EXCEPT ![g] = "sent"] /\ answer' = [answer EXCEPT ![g] = "none"]
      /\ UNCHANGED <<externalVars, clientTimeout, reply, entitled>>
  BY DEF Send
<1>5. CallTypes'
  BY <1>1, <1>3, <1>4 DEF CallTypes, Sends
<1>6. WorldTypes'
  <2>1. carried' \subseteq Endpoints \cup {"elsewhere"}
    BY <1>1 DEF Send, WorldTypes
  <2>. QED BY <1>1, <1>4, <2>1 DEF WorldTypes, externalVars
<1>7. pc'[g] = "sent" /\ now' = now /\ minted' = minted /\ proofs' = proofs
      /\ \A h \in Gateway \ {g} : pc'[h] = pc[h] /\ reply'[h] = reply[h]
  BY <1>1, <1>4 DEF CallTypes, externalVars
<1>8. call'[g].token \in DOMAIN minted /\ call'[g].proof = p /\ call'[g].audience \in Audience
      /\ call'[g].presenter \in Key /\ call'[g].began = now /\ \A h \in Gateway \ {g} : SameCall(h)
  BY <1>3, Zenon DEF Sends
<1>9. Given(g)' /\ Truthful(g)'
  BY <1>7, <1>8 DEF Given, Truthful
<1>10. InTime(g)'
  BY <1>1, <1>7, <1>8 DEF InTime, PresentationAssumption, WorldTypes
<1>. QED BY <1>5, <1>6, <1>7, <1>8, <1>9, <1>10, CallMoves

LEMMA ReadInv == ASSUME Inv, NEW g \in Gateway, Read(g) PROVE Inv'
<1>1. WorldTypes /\ CallTypes /\ Given(g) /\ InTime(g) /\ Truthful(g)
  BY TypeParts DEF Inv, CallInv
<1>2. pc[g] = "answered" /\ reply[g].kind = "context" /\ pc' = [pc EXCEPT ![g] = "check"]
      /\ UNCHANGED <<externalVars, carried, clientTimeout, call, reply, answer, entitled>>
  BY DEF Read
<1>3. WorldTypes' /\ CallTypes'
  BY <1>1, <1>2 DEF WorldTypes, CallTypes, externalVars
<1>4. pc'[g] = "check" /\ call' = call /\ reply' = reply /\ now' = now /\ minted' = minted /\ proofs' = proofs
      /\ \A h \in Gateway \ {g} : pc'[h] = pc[h]
  BY <1>1, <1>2 DEF CallTypes, externalVars
<1>5. Given(g)' /\ InTime(g)'
  BY <1>1, <1>2, <1>4 DEF Given, InTime, Waiting
<1>6. AliveSince(g)' = AliveSince(g) /\ TrueContext(call[g].token)' = TrueContext(call[g].token)
  BY <1>4 DEF AliveSince, Token, TrueContext
<1>7. Incomplete(TrueContext(call[g].token))' = Incomplete(TrueContext(call[g].token))
  BY <1>6, <1>4 DEF Incomplete
<1>8. Truthful(g)'
  BY <1>1, <1>2, <1>4, <1>6, <1>7 DEF Truthful
<1>. QED BY <1>3, <1>4, <1>5, <1>8, CallMoves DEF SameCall

-----------------------------------------------------------------------------
(* The deployment answers.                                                 *)

LEMMA ContextTypes ==
    ASSUME WorldTypes, NEW t \in DOMAIN minted
    PROVE  TrueContext(t) \in Context /\ Incomplete(TrueContext(t)) \subseteq Context
<1>1. minted[t] \in MintedToken /\ t \in Nat
  BY MintedTypes DEF WorldTypes
<1>2. TrueContext(t) \in Context
  BY <1>1 DEF TrueContext, Context, MintedToken
<1>3. ASSUME NEW c \in Context PROVE Incomplete(c) \subseteq Context
  <2>1. /\ [c EXCEPT !.token = 0] \in Context
        /\ [c EXCEPT !.jkt = NoKey] \in Context
        /\ [c EXCEPT !.audience = NoAudience] \in Context
        /\ [c EXCEPT !.expiresAt = 0] \in Context
        /\ [c EXCEPT !.whole = FALSE] \in Context
    BY DEF Context
  <2>2. ASSUME NEW d \in Incomplete(c) PROVE d \in Context
    BY <2>1, <2>2, Zenon DEF Incomplete
  <2>. QED BY <2>2
<1>. QED BY <1>2, <1>3

LEMMA AnswerInv ==
    ASSUME Inv, NEW g \in Gateway, pc[g] = "sent", NEW kind \in Kinds, NEW c \in Context, Reply(g, kind, c),
           kind = "context" => /\ Token(g).live
                               /\ c = TrueContext(call[g].token) \/ c \in Incomplete(TrueContext(call[g].token)),
           used' \subseteq Nat, entitled' \in [Gateway -> BOOLEAN],
           UNCHANGED <<now, minted, proofs, lateProofs, carried, clientTimeout, call, answer>>
    PROVE  Inv'
<1>1. WorldTypes /\ CallTypes /\ Given(g) /\ InTime(g)
  BY TypeParts DEF Inv, CallInv
<1>2. WorldTypes'
  BY <1>1 DEF WorldTypes
<1>. DEFINE w == [kind |-> kind, context |-> c]
<1>3. w \in [kind : Kinds, context : Context] /\ w.kind = kind /\ w.context = c
  OBVIOUS
<1>4. reply' = [reply EXCEPT ![g] = w] /\ pc' = [pc EXCEPT ![g] = "answered"]
  BY DEF Reply
<1>. HIDE DEF w
<1>5. CallTypes'
  BY <1>1, <1>3, <1>4 DEF CallTypes
<1>6. pc'[g] = "answered" /\ reply'[g] = w /\ \A h \in Gateway \ {g} : pc'[h] = pc[h] /\ reply'[h] = reply[h]
  BY <1>1, <1>4 DEF CallTypes
<1>7. Given(g)' /\ InTime(g)'
  BY <1>1, <1>6 DEF Given, InTime, Waiting
<1>8. TrueContext(call[g].token)' = TrueContext(call[g].token)
  BY DEF TrueContext
<1>9. Incomplete(TrueContext(call[g].token))' = Incomplete(TrueContext(call[g].token))
  BY <1>8 DEF Incomplete
<1>10. kind = "context" => AliveSince(g)'
  BY DEF AliveSince, Token
<1>11. Truthful(g)'
  BY <1>3, <1>6, <1>8, <1>9, <1>10 DEF Truthful
<1>. QED BY <1>2, <1>5, <1>6, <1>7, <1>11, CallMoves DEF SameCall

LEMMA IntrospectInv == ASSUME Inv, NEW g \in Gateway, Introspect(g) PROVE Inv'
<1>1. WorldTypes /\ CallTypes /\ Given(g)
  BY TypeParts DEF Inv
<1>2. pc[g] = "sent" /\ UNCHANGED <<now, minted, proofs, lateProofs, carried, clientTimeout, call, answer>>
  BY DEF Introspect
<1>3. call[g].token \in DOMAIN minted /\ call[g].proof \in DOMAIN proofs
  BY <1>1, <1>2 DEF Given
<1>4. used' \subseteq Nat
  <2>1. used' = used \/ used' = used \cup {Proof(g).jti}
    BY Zenon DEF Introspect
  <2>2. Proof(g).jti \in Nat
    BY <1>1, <1>3, JtiTypes DEF Proof
  <2>. QED BY <1>1, <2>1, <2>2 DEF WorldTypes
<1>5. entitled' \in [Gateway -> BOOLEAN]
  <2>1. call[g].sole \in BOOLEAN
    <3>1. call[g] \in Arguments
      BY <1>1 DEF CallTypes
    <3>. QED BY <3>1 DEF Arguments
  <2>2. GoodProof(g) \in BOOLEAN /\ Eligible(g) \in BOOLEAN
    <3>1. Token(g).live \in BOOLEAN
      BY <1>1, <1>3, MintedTypes DEF Token
    <3>. QED BY <3>1 DEF GoodProof, Eligible
  <2>. DEFINE b == GoodProof(g) /\ Eligible(g) /\ call[g].sole
  <2>3. b \in BOOLEAN
    BY <2>1, <2>2
  <2>4. entitled' = [entitled EXCEPT ![g] = b]
    BY DEF Introspect
  <2>. HIDE DEF b
  <2>. QED BY <1>1, <2>3, <2>4 DEF CallTypes
<1>6. (Token(g).live /\ Reply(g, "context", TrueContext(call[g].token)))
      \/ Reply(g, "inactive", NoContext) \/ Reply(g, "status", NoContext)
  BY Zenon DEF Introspect, Eligible
<1>7. CASE Token(g).live /\ Reply(g, "context", TrueContext(call[g].token))
  <2>1. TrueContext(call[g].token) \in Context
    BY <1>1, <1>3, ContextTypes
  <2>. QED BY <1>2, <1>4, <1>5, <1>7, <2>1, AnswerInv DEF Kinds
<1>8. CASE Reply(g, "inactive", NoContext)
  BY <1>2, <1>4, <1>5, <1>8, NothingTypes, AnswerInv DEF Kinds
<1>9. CASE Reply(g, "status", NoContext)
  BY <1>2, <1>4, <1>5, <1>9, NothingTypes, AnswerInv DEF Kinds
<1>. QED BY <1>6, <1>7, <1>8, <1>9

LEMMA MisanswerInv == ASSUME Inv, NEW g \in Gateway, Misanswer(g) PROVE Inv'
<1>1. WorldTypes /\ CallTypes /\ Given(g)
  BY TypeParts DEF Inv
<1>2. pc[g] = "sent" /\ UNCHANGED <<now, minted, proofs, lateProofs, carried, clientTimeout, call, answer, entitled>>
  BY DEF Misanswer
<1>3. call[g].token \in DOMAIN minted /\ call[g].proof \in DOMAIN proofs
  BY <1>1, <1>2 DEF Given
<1>4. used' \subseteq Nat
  BY <1>1, <1>3, JtiTypes DEF Misanswer, WorldTypes, Proof
<1>5. entitled' \in [Gateway -> BOOLEAN]
  BY <1>1, <1>2 DEF CallTypes
<1>6. CASE \E kind \in {"garbage", "status", "redirect"} : Reply(g, kind, NoContext)
  <2>1. PICK kind \in {"garbage", "status", "redirect"} : Reply(g, kind, NoContext)
    BY <1>6
  <2>. QED BY <1>2, <1>4, <1>5, <2>1, NothingTypes, AnswerInv DEF Kinds
<1>7. CASE Eligible(g) /\ \E c \in Incomplete(TrueContext(call[g].token)) : Reply(g, "context", c)
  <2>1. PICK c \in Incomplete(TrueContext(call[g].token)) : Reply(g, "context", c)
    BY <1>7
  <2>2. c \in Context /\ Token(g).live
    BY <1>1, <1>3, <1>7, ContextTypes DEF Eligible
  <2>. QED BY <1>2, <1>4, <1>5, <2>1, <2>2, AnswerInv DEF Kinds
<1>. QED BY <1>6, <1>7 DEF Misanswer

-----------------------------------------------------------------------------
LEMMA NextInv == Inv /\ [Next]_vars => Inv'
<1>. SUFFICES ASSUME Inv, [Next]_vars PROVE Inv'
  OBVIOUS
<1>. USE PresentationAssumption
<1>1. CASE Tick \/ Mint
  BY <1>1, TickInv, MintInv
<1>2. ASSUME NEW t \in DOMAIN minted, Stop(t) PROVE Inv'
  BY <1>2, StopInv
<1>3. ASSUME NEW p \in DOMAIN proofs, IntrospectLate(p) PROVE Inv'
  BY <1>3, LateInv
<1>4. ASSUME NEW g \in Gateway, Introspect(g) \/ Misanswer(g) PROVE Inv'
  BY <1>4, IntrospectInv, MisanswerInv
<1>5. CASE Presenting
  BY <1>5, SignInv DEF Presenting
<1>6. ASSUME NEW g \in Gateway, IntrospectContext(g) PROVE Inv'
  BY <1>6, SendInv, ReadInv, ReturnsInv DEF IntrospectContext
<1>7. CASE UNCHANGED vars
  <2>1. WorldTypes' /\ WorldGrows
    <3>1. WorldTypes
      BY TypeParts DEF Inv
    <3>2. WorldTypes'
      BY <1>7, <3>1 DEF vars, externalVars, WorldTypes
    <3>3. WorldGrows
      BY <1>7, <3>1 DEF vars, externalVars, WorldGrows, WorldTypes, TrueContext
    <3>. QED BY <3>2, <3>3
  <2>2. now' = now /\ UNCHANGED callVars
    BY <1>7 DEF vars, externalVars
  <2>. QED BY <2>1, <2>2, ClockStands, CallsStand
<1>. QED BY <1>1, <1>2, <1>3, <1>4, <1>5, <1>6, <1>7 DEF Next, Environment

THEOREM InvCorrect == Spec => []Inv
BY InitInv, NextInv, PTL DEF Spec

(* Every variable has its type, and a call that runs has the token and the *)
(* proof it was made with (IntrospectContext, presentation.go:73-153).     *)
THEOREM TypeCorrect == Spec => []TypeOK
<1>1. Inv => TypeOK
  BY DEF Inv
<1>. QED BY <1>1, InvCorrect, PTL

-----------------------------------------------------------------------------
(* Which step moves a call.                                                *)

LEMMA OtherSteps ==
    ASSUME CallTypes, NEW g \in Gateway,
           \/ Tick \/ Mint \/ Presenting
           \/ \E t \in DOMAIN minted : Stop(t)
           \/ \E p \in DOMAIN proofs : IntrospectLate(p)
           \/ \E h \in Gateway : Introspect(h) \/ Misanswer(h) \/ Send(h)
           \/ \E h \in Gateway \ {g} : IntrospectContext(h)
           \/ UNCHANGED vars
    PROVE  pc'[g] = pc[g] \/ (pc'[g] \in {"sent", "answered"} /\ pc[g] \in {"idle", "sent"})
<1>1. CASE \/ Tick \/ Mint \/ Presenting \/ UNCHANGED vars
           \/ \E t \in DOMAIN minted : Stop(t)
           \/ \E p \in DOMAIN proofs : IntrospectLate(p)
  BY <1>1 DEF Tick, Mint, Presenting, SignDPoP, Stop, IntrospectLate, vars, callVars
<1>2. ASSUME NEW h \in Gateway, Introspect(h) \/ Misanswer(h)
      PROVE  pc[h] = "sent" /\ pc' = [pc EXCEPT ![h] = "answered"]
  BY <1>2, Zenon DEF Introspect, Misanswer, Reply
<1>3. ASSUME NEW h \in Gateway, Send(h)
      PROVE  pc[h] = "idle" /\ pc' = [pc EXCEPT ![h] = "sent"]
  BY <1>3 DEF Send
<1>4. ASSUME NEW h \in Gateway \ {g}, IntrospectContext(h) PROVE pc'[g] = pc[g]
  <2>1. \E s \in {"idle", "sent", "check"} : pc' = [pc EXCEPT ![h] = s]
    BY <1>4, Zenon DEF IntrospectContext, Refuse, Send, TransportFails, TimeOut, GiveUp, NotOK, NotRead, Inactive, Fail,
                Read, Check, Return
  <2>. QED BY <2>1 DEF CallTypes
<1>. QED BY <1>1, <1>2, <1>3, <1>4 DEF CallTypes

LEMMA OwnStep ==
    ASSUME CallTypes, [Next]_vars, NEW g \in Gateway,
           ~(pc'[g] = pc[g] \/ (pc'[g] \in {"sent", "answered"} /\ pc[g] \in {"idle", "sent"}))
    PROVE  IntrospectContext(g)
BY OtherSteps DEF Next, Environment

LEMMA OnlyCheckAccepts ==
    ASSUME CallTypes, [Next]_vars, NEW g \in Gateway, Returned(g), answer'[g] = ""
    PROVE  Check(g)
<1>1. IntrospectContext(g)
  BY OwnStep DEF Returned
<1>2. ASSUME NEW r \in {"invalid", "inactive", "other"}, Return(g, r) PROVE FALSE
  BY <1>2 DEF Return, CallTypes
<1>3. ~Send(g) /\ ~Read(g)
  BY DEF Send, Read, Returned, CallTypes
<1>4. ~Refuse(g) /\ ~TransportFails(g) /\ ~TimeOut(g) /\ ~NotOK(g) /\ ~NotRead(g) /\ ~Inactive(g)
  BY <1>2 DEF Refuse, TransportFails, TimeOut, GiveUp, NotOK, NotRead, Inactive, Fail
<1>. QED BY <1>1, <1>3, <1>4 DEF IntrospectContext

LEMMA OnlyReadReads ==
    ASSUME CallTypes, [Next]_vars, NEW g \in Gateway, pc[g] = "answered", pc'[g] = "check"
    PROVE  Read(g)
<1>1. IntrospectContext(g)
  BY OwnStep
<1>2. ASSUME NEW r \in {"", "invalid", "inactive", "other"}, Return(g, r) PROVE FALSE
  BY <1>2 DEF Return, CallTypes
<1>3. ~Send(g)
  BY DEF Send
<1>4. ~Refuse(g) /\ ~TransportFails(g) /\ ~TimeOut(g) /\ ~NotOK(g) /\ ~NotRead(g) /\ ~Inactive(g) /\ ~Check(g)
  BY <1>2 DEF Refuse, TransportFails, TimeOut, GiveUp, NotOK, NotRead, Inactive, Fail, Check
<1>. QED BY <1>1, <1>3, <1>4 DEF IntrospectContext

-----------------------------------------------------------------------------
LEMMA BoundIsTrue ==
    ASSUME Inv, PresentationAssumption, NEW g \in Gateway, pc[g] = "check", Bound(g), now < reply[g].context.expiresAt
    PROVE  reply[g].context = TrueContext(call[g].token)
<1>1. WorldTypes /\ CallTypes /\ Given(g) /\ Truthful(g) /\ InTime(g)
  BY TypeParts DEF Inv, CallInv
<1>. DEFINE t == call[g].token
            c == reply[g].context
            d == TrueContext(t)
<1>2. t \in DOMAIN minted /\ t \in Nat \ {0} /\ (c = d \/ c \in Incomplete(d))
  BY <1>1 DEF Given, Truthful, WorldTypes
<1>3. d \in Context
  BY <1>1, <1>2, ContextTypes
<1>4. c.token # 0 /\ c.jkt # NoKey /\ c.audience # NoAudience /\ c.whole
  BY <1>1, <1>2 DEF Bound, InTime, PresentationAssumption
<1>5. c.expiresAt # 0
  BY <1>1 DEF WorldTypes
<1>. HIDE DEF c, d
<1>6. c \notin Incomplete(d)
  <2>1. [d EXCEPT !.token = 0].token = 0 /\ [d EXCEPT !.jkt = NoKey].jkt = NoKey
        /\ [d EXCEPT !.audience = NoAudience].audience = NoAudience
        /\ [d EXCEPT !.expiresAt = 0].expiresAt = 0 /\ [d EXCEPT !.whole = FALSE].whole = FALSE
    BY <1>3 DEF Context
  <2>. QED BY <1>4, <1>5, <2>1 DEF Incomplete
<1>. QED BY <1>2, <1>6 DEF c, d

(* Whatever IntrospectContext returns (presentation.go:134-152) is the     *)
(* whole context of the token presented, for that presenter and audience,  *)
(* and not expired, for any gateways, keys, timeouts and bounds.           *)
THEOREM AcceptedContextsBound == Spec => AcceptsOnlyBound
<1>. DEFINE Step == \A g \in Gateway : Returned(g) /\ answer'[g] = "" =>
                       /\ reply[g].context = TrueContext(call[g].token)
                       /\ call[g].presenter = Token(g).jkt
                       /\ call[g].audience = Token(g).audience
                       /\ now < Token(g).expiresAt
<1>1. ASSUME Inv, [Next]_vars PROVE Step
  <2>. SUFFICES ASSUME NEW g \in Gateway, Returned(g), answer'[g] = ""
                PROVE  /\ reply[g].context = TrueContext(call[g].token)
                       /\ call[g].presenter = Token(g).jkt
                       /\ call[g].audience = Token(g).audience
                       /\ now < Token(g).expiresAt
    OBVIOUS
  <2>1. CallTypes
    BY <1>1, TypeParts DEF Inv
  <2>2. Check(g)
    BY <1>1, <2>1, OnlyCheckAccepts
  <2>3. pc[g] = "check" /\ Bound(g) /\ now < reply[g].context.expiresAt
    BY <2>1, <2>2 DEF Check, Return, CallTypes
  <2>4. reply[g].context = TrueContext(call[g].token)
    BY <1>1, <2>3, PresentationAssumption, BoundIsTrue
  <2>5. reply[g].context.jkt = call[g].presenter /\ reply[g].context.audience = call[g].audience
    BY <2>3 DEF Bound
  <2>6. /\ TrueContext(call[g].token).jkt = Token(g).jkt
        /\ TrueContext(call[g].token).audience = Token(g).audience
        /\ TrueContext(call[g].token).expiresAt = Token(g).expiresAt
    BY DEF TrueContext, Token
  <2>7. call[g].presenter = Token(g).jkt /\ call[g].audience = Token(g).audience /\ now < Token(g).expiresAt
    BY <2>3, <2>4, <2>5, <2>6, Zenon
  <2>. QED BY <2>4, <2>7
<1>2. Inv /\ [Next]_vars => [Step]_vars
  BY <1>1
<1>3. AcceptsOnlyBound <=> [][Step]_vars
  BY DEF AcceptsOnlyBound
<1>. QED BY <1>2, <1>3, InvCorrect, PTL DEF Spec

(* The context of a stopped token is read at most Cap after the stop:      *)
(* IntrospectContext bounds the timeout of any client it is given          *)
(* (presentation.go:98-101).                                               *)
THEOREM StalenessBounded == Spec => StaleAtMostCap
<1>. DEFINE Step == \A g \in Gateway : pc[g] = "answered" /\ pc'[g] = "check" =>
                       Token(g).live \/ now <= Token(g).stoppedAt + Cap
<1>1. ASSUME Inv, [Next]_vars PROVE Step
  <2>. SUFFICES ASSUME NEW g \in Gateway, pc[g] = "answered", pc'[g] = "check", ~Token(g).live
                PROVE  now <= Token(g).stoppedAt + Cap
    OBVIOUS
  <2>1. WorldTypes /\ CallTypes /\ Given(g) /\ InTime(g) /\ Truthful(g)
    BY <1>1, TypeParts DEF Inv, CallInv
  <2>2. Read(g)
    BY <1>1, <2>1, OnlyReadReads
  <2>3. Token(g).stoppedAt >= call[g].began
    BY <2>1, <2>2 DEF Read, Truthful, AliveSince
  <2>4. now <= call[g].began + Cap
    BY <2>1 DEF InTime, Waiting
  <2>5. now \in Nat /\ Cap \in Nat /\ call[g].began \in Nat
    <3>1. call[g] \in Arguments
      BY <2>1 DEF CallTypes
    <3>. QED BY <2>1, <3>1, PresentationAssumption DEF WorldTypes, Arguments, PresentationAssumption
  <2>6. Token(g).stoppedAt \in Nat
    BY <2>1, MintedTypes DEF Token, Given
  <2>. QED BY <2>3, <2>4, <2>5, <2>6
<1>2. Inv /\ [Next]_vars => [Step]_vars
  BY <1>1
<1>3. StaleAtMostCap <=> [][Step]_vars
  BY DEF StaleAtMostCap
<1>. QED BY <1>2, <1>3, InvCorrect, PTL DEF Spec

-----------------------------------------------------------------------------
(* Where tokens and proofs go.                                             *)

\* Tokens and proofs go to the configured deployment over TLS or the loopback
\* (presentation.go:81-84), and nowhere else: a redirect ends the call
\* (presentation.go:102).
THEOREM NothingGoesElsewhere == Spec => []StaysWithDeployment
<1>1. Init => StaysWithDeployment
  BY DEF Init, StaysWithDeployment
<1>2. StaysWithDeployment /\ [Next]_vars => StaysWithDeployment'
  <2>. SUFFICES ASSUME StaysWithDeployment, [Next]_vars PROVE StaysWithDeployment'
    OBVIOUS
  <2>1. ASSUME UNCHANGED carried PROVE StaysWithDeployment'
    BY <2>1 DEF StaysWithDeployment
  <2>2. CASE Environment \/ Presenting \/ UNCHANGED vars
    <3>1. UNCHANGED carried
      BY <2>2, Zenon DEF Environment, Tick, Mint, Stop, IntrospectLate, Introspect, Misanswer, Presenting, SignDPoP, vars
    <3>. QED BY <2>1, <3>1
  <2>3. ASSUME NEW g \in Gateway, Send(g) PROVE StaysWithDeployment'
    <3>1. PICK endpoint \in Endpoints : Secure(endpoint) /\ carried' = carried \cup {endpoint}
      BY <2>3, Zenon DEF Send
    <3>2. endpoint = "deployment"
      BY <3>1 DEF Endpoints, Secure
    <3>. QED BY <3>1, <3>2 DEF StaysWithDeployment
  <2>4. ASSUME NEW g \in Gateway, IntrospectContext(g), ~Send(g) PROVE StaysWithDeployment'
    <3>1. UNCHANGED carried
      BY <2>4, Zenon DEF IntrospectContext, Refuse, TransportFails, TimeOut, GiveUp, NotOK, NotRead, Inactive, Fail, Read, Check
    <3>. QED BY <2>1, <3>1
  <2>. QED BY <2>2, <2>3, <2>4 DEF Next
<1>. QED BY <1>1, <1>2, PTL DEF Spec

-----------------------------------------------------------------------------
(* A new proof is enough.                                                  *)

(* The jti of a proof is its own, the proof of a request that nobody else  *)
(* relayed is unused until the deployment gets it, and what the deployment *)
(* then answers is the context.                                            *)

Numbered == \A p \in DOMAIN proofs : proofs[p].jti = p

Unused(g) ==
    pc[g] = "sent" /\ call[g].sole =>
        /\ call[g].proof \notin used \cup lateProofs
        /\ \A h \in Gateway \ {g} : pc[h] = "sent" => call[h].proof # call[g].proof

Promised(g) ==
    entitled[g] =>
        /\ pc[g] \in {"answered", "check"}
        /\ reply[g].kind = "context" /\ reply[g].context = TrueContext(call[g].token)
        /\ call[g].audience = Token(g).audience

NewInv == Numbered /\ \A g \in Gateway : Unused(g) /\ Promised(g)

\* While the calls stand, the ledger may grow by a proof that was late.
LEMMA NewCallsStand ==
    ASSUME Inv, NewInv, UNCHANGED callVars, Numbered',
           NEW P \in SUBSET lateProofs, used' = used \cup P, lateProofs' \subseteq lateProofs,
           \A t \in DOMAIN minted : TrueContext(t)' = TrueContext(t)
    PROVE  NewInv'
<1>1. \A g \in Gateway : Given(g) /\ Unused(g) /\ Promised(g)
  BY TypeParts DEF Inv, NewInv
<1>2. pc' = pc /\ call' = call /\ reply' = reply /\ entitled' = entitled
  BY DEF callVars
<1>3. ASSUME NEW g \in Gateway PROVE Unused(g)'
  BY <1>1, <1>2 DEF Unused
<1>4. ASSUME NEW g \in Gateway PROVE Promised(g)'
  <2>1. CASE ~entitled[g]
    BY <1>2, <2>1 DEF Promised
  <2>2. CASE entitled[g]
    <3>1. pc[g] # "idle" /\ Promised(g) /\ call[g].token \in DOMAIN minted
      BY <1>1, <2>2 DEF Promised, Given
    <3>2. TrueContext(call[g].token)' = TrueContext(call[g].token)
      BY <1>2, <3>1
    <3>3. TrueContext(call[g].token).audience = Token(g).audience /\ TrueContext(call[g].token)'.audience = Token(g)'.audience
      BY DEF TrueContext, Token
    <3>. QED BY <1>2, <2>2, <3>1, <3>2, <3>3 DEF Promised
  <2>. QED BY <2>1, <2>2
<1>. QED BY <1>3, <1>4 DEF NewInv

LEMMA NumberedStands == ASSUME Numbered, UNCHANGED proofs PROVE Numbered'
BY DEF Numbered

\* What the deployment does to the tokens is no change of their binding.
LEMMA ContextsStand ==
    ASSUME WorldTypes, Tick \/ Mint \/ Presenting \/ (\E t \in DOMAIN minted : Stop(t)) \/ UNCHANGED minted
    PROVE  \A n \in DOMAIN minted : TrueContext(n)' = TrueContext(n)
<1>1. CASE UNCHANGED minted
  BY <1>1 DEF TrueContext
<1>2. CASE Tick \/ Presenting
  BY <1>2 DEF Tick, Presenting, SignDPoP, TrueContext
<1>3. CASE Mint
  <2>1. PICK x : minted' = Append(minted, x)
    BY <1>3 DEF Mint
  <2>2. \A n \in DOMAIN minted : minted'[n] = minted[n]
    BY <2>1 DEF WorldTypes
  <2>. QED BY <2>2 DEF TrueContext
<1>4. ASSUME NEW t \in DOMAIN minted, Stop(t) PROVE \A n \in DOMAIN minted : TrueContext(n)' = TrueContext(n)
  <2>. DEFINE w == [minted[t] EXCEPT !.live = FALSE, !.stoppedAt = now]
  <2>1. minted' = [minted EXCEPT ![t] = w]
    BY <1>4 DEF Stop
  <2>2. w.jkt = minted[t].jkt /\ w.audience = minted[t].audience /\ w.expiresAt = minted[t].expiresAt
    <3>1. minted[t] \in MintedToken
      BY MintedTypes
    <3>. QED BY <3>1 DEF MintedToken
  <2>. HIDE DEF w
  <2>3. \A n \in DOMAIN minted : minted'[n] = IF n = t THEN w ELSE minted[n]
    BY <2>1 DEF WorldTypes
  <2>. QED BY <2>2, <2>3 DEF TrueContext
<1>. QED BY <1>1, <1>2, <1>3, <1>4

LEMMA NewWorld ==
    ASSUME Inv, NewInv,
           \/ Tick \/ Mint \/ Presenting \/ UNCHANGED vars
           \/ \E t \in DOMAIN minted : Stop(t)
    PROVE  NewInv'
<1>1. WorldTypes
  BY TypeParts DEF Inv
<1>2. UNCHANGED callVars /\ UNCHANGED <<used, lateProofs>>
  BY Zenon DEF Tick, Mint, Presenting, SignDPoP, Stop, vars, externalVars
<1>3. \A n \in DOMAIN minted : TrueContext(n)' = TrueContext(n)
  BY <1>1, ContextsStand DEF vars, externalVars
<1>4. Numbered'
  <2>1. CASE UNCHANGED proofs
    BY <2>1, NumberedStands DEF NewInv
  <2>2. CASE Presenting
    <3>1. PICK x : proofs' = Append(proofs, x) /\ x.jti = Len(proofs) + 1
      BY <2>2 DEF Presenting, SignDPoP, Signed
    <3>2. proofs \in Seq(SignedProof)
      BY <1>1 DEF WorldTypes
    <3>3. \A n \in DOMAIN proofs' : (n \in DOMAIN proofs /\ proofs'[n] = proofs[n]) \/ (n = Len(proofs) + 1 /\ proofs'[n] = x)
      BY <3>1, <3>2
    <3>. QED BY <3>1, <3>3 DEF NewInv, Numbered
  <2>. QED BY <2>1, <2>2 DEF Tick, Mint, Stop, vars, externalVars
<1>5. {} \in SUBSET lateProofs /\ used' = used \cup {} /\ lateProofs' \subseteq lateProofs
  BY <1>2
<1>. QED BY <1>2, <1>3, <1>4, <1>5, NewCallsStand

LEMMA NewLate == ASSUME Inv, NewInv, NEW p \in DOMAIN proofs, IntrospectLate(p) PROVE NewInv'
<1>1. WorldTypes
  BY TypeParts DEF Inv
<1>2. p \in lateProofs /\ used' = used \cup {proofs[p].jti} /\ lateProofs' = lateProofs \ {p}
      /\ UNCHANGED <<minted, proofs>> /\ UNCHANGED callVars
  BY DEF IntrospectLate
<1>3. proofs[p].jti = p
  BY DEF NewInv, Numbered
<1>4. \A n \in DOMAIN minted : TrueContext(n)' = TrueContext(n)
  BY <1>1, <1>2, ContextsStand
<1>5. Numbered'
  BY <1>2, NumberedStands DEF NewInv
<1>6. {p} \in SUBSET lateProofs /\ used' = used \cup {p} /\ lateProofs' \subseteq lateProofs
  BY <1>2, <1>3
<1>. QED BY <1>2, <1>4, <1>5, <1>6, NewCallsStand

\* A call moves, and what it used or left behind is the proof it carried.
LEMMA NewCallMoves ==
    ASSUME Inv, NewInv, NEW g \in Gateway, UNCHANGED <<minted, proofs>>, Unused(g)', Promised(g)',
           \/ used' = used /\ lateProofs' = lateProofs
           \/ /\ pc[g] = "sent"
              /\ used' \subseteq used \cup {call[g].proof} /\ lateProofs' \subseteq lateProofs \cup {call[g].proof},
           pc'[g] = "sent" => call'[g] = call[g] /\ pc[g] = "sent",
           \A h \in Gateway \ {g} : pc'[h] = pc[h] /\ call'[h] = call[h] /\ reply'[h] = reply[h] /\ entitled'[h] = entitled[h]
    PROVE  NewInv'
<1>1. \A h \in Gateway : Unused(h) /\ Promised(h)
  BY DEF NewInv
<1>2. ASSUME NEW h \in Gateway \ {g} PROVE Unused(h)'
  <2>. SUFFICES ASSUME pc[h] = "sent", call[h].sole
                PROVE  /\ call[h].proof \notin used' \cup lateProofs'
                       /\ \A i \in Gateway \ {h} : pc'[i] = "sent" => call'[i].proof # call[h].proof
    BY DEF Unused
  <2>1. /\ call[h].proof \notin used \cup lateProofs
        /\ \A i \in Gateway \ {h} : pc[i] = "sent" => call[i].proof # call[h].proof
    BY <1>1 DEF Unused
  <2>2. pc[g] = "sent" => call[h].proof # call[g].proof
    BY <2>1
  <2>3. call[h].proof \notin used' \cup lateProofs'
    BY <2>1, <2>2
  <2>. QED BY <2>1, <2>3
<1>3. ASSUME NEW h \in Gateway \ {g} PROVE Promised(h)'
  BY <1>1 DEF Promised, TrueContext, Token
<1>4. Numbered'
  BY NumberedStands DEF NewInv
<1>. QED BY <1>2, <1>3, <1>4 DEF NewInv

LEMMA NewReturns ==
    ASSUME Inv, NewInv, NEW g \in Gateway,
           \/ Refuse(g) \/ TransportFails(g) \/ TimeOut(g)
           \/ NotOK(g) \/ NotRead(g) \/ Inactive(g) \/ Check(g)
    PROVE  NewInv'
<1>1. CallTypes
  BY TypeParts DEF Inv
<1>2. \E r : Return(g, r)
  BY Zenon DEF Refuse, TransportFails, TimeOut, GiveUp, NotOK, NotRead, Inactive, Fail, Check
<1>3. /\ pc'[g] = "idle" /\ entitled'[g] = FALSE
      /\ \A h \in Gateway \ {g} : pc'[h] = pc[h] /\ call'[h] = call[h] /\ reply'[h] = reply[h] /\ entitled'[h] = entitled[h]
  BY <1>1, <1>2 DEF Return, CallTypes
<1>4. UNCHANGED <<minted, proofs, used>>
  BY Zenon DEF Refuse, TransportFails, TimeOut, GiveUp, NotOK, NotRead, Inactive, Fail, Check, externalVars
<1>5. lateProofs' = lateProofs \/ (pc[g] = "sent" /\ lateProofs' = lateProofs \cup {call[g].proof})
  BY Zenon DEF Refuse, TransportFails, TimeOut, GiveUp, NotOK, NotRead, Inactive, Fail, Check, externalVars
<1>6. Unused(g)' /\ Promised(g)'
  BY <1>3 DEF Unused, Promised
<1>. QED BY <1>3, <1>4, <1>5, <1>6, NewCallMoves

LEMMA NewRead == ASSUME Inv, NewInv, NEW g \in Gateway, Read(g) PROVE NewInv'
<1>1. CallTypes /\ Promised(g)
  BY TypeParts DEF Inv, NewInv
<1>2. pc' = [pc EXCEPT ![g] = "check"] /\ UNCHANGED <<externalVars, call, reply, entitled>>
  BY DEF Read
<1>3. pc'[g] = "check" /\ \A h \in Gateway \ {g} : pc'[h] = pc[h]
  BY <1>1, <1>2 DEF CallTypes
<1>4. UNCHANGED <<minted, proofs, used, lateProofs, call, reply, entitled>>
  BY <1>2 DEF externalVars
<1>5. Unused(g)' /\ Promised(g)'
  BY <1>1, <1>3, <1>4 DEF Unused, Promised, TrueContext, Token
<1>. QED BY <1>3, <1>4, <1>5, NewCallMoves

\* The deployment's answers, right and wrong ones.
LEMMA NewAnswers == ASSUME Inv, NewInv, NEW g \in Gateway, Introspect(g) \/ Misanswer(g) PROVE NewInv'
<1>1. CallTypes /\ Given(g) /\ Unused(g) /\ Promised(g)
  BY TypeParts DEF Inv, NewInv
<1>2. pc[g] = "sent" /\ UNCHANGED <<minted, proofs, lateProofs, call>>
  BY DEF Introspect, Misanswer
<1>3. Proof(g).jti = call[g].proof
  BY <1>1, <1>2 DEF NewInv, Numbered, Given, Proof
<1>4. used' \subseteq used \cup {call[g].proof}
  <2>1. used' = used \/ used' = used \cup {Proof(g).jti}
    BY Zenon DEF Introspect, Misanswer
  <2>. QED BY <1>3, <2>1
<1>5. PICK kind, c : Reply(g, kind, c)
  BY Zenon DEF Introspect, Misanswer
<1>6. pc'[g] = "answered" /\ reply'[g].kind = kind /\ reply'[g].context = c
      /\ \A h \in Gateway \ {g} : pc'[h] = pc[h] /\ reply'[h] = reply[h]
  BY <1>1, <1>5 DEF Reply, CallTypes
<1>7. \A h \in Gateway \ {g} : entitled'[h] = entitled[h]
  BY <1>1 DEF Introspect, Misanswer, CallTypes
<1>8. Unused(g)'
  BY <1>6 DEF Unused
<1>9. Promised(g)'
  <2>1. CASE Misanswer(g)
    <3>1. ~entitled[g]
      BY <1>1, <1>2 DEF Promised
    <3>. QED BY <2>1, <3>1 DEF Misanswer, Promised
  <2>2. CASE Introspect(g)
    <3>. SUFFICES ASSUME entitled'[g]
                  PROVE  /\ reply'[g].kind = "context" /\ reply'[g].context = TrueContext(call[g].token)
                         /\ call[g].audience = Token(g).audience
      BY <1>2, <1>6 DEF Promised, TrueContext, Token
    <3>1. GoodProof(g) /\ Eligible(g) /\ call[g].sole
      BY <1>1, <2>2, Zenon DEF Introspect, CallTypes
    <3>2. Proof(g).jti \notin used
      BY <1>1, <1>2, <1>3, <3>1 DEF Unused
    <3>3. Reply(g, "context", TrueContext(call[g].token))
      BY <2>2, <3>1, <3>2, Zenon DEF Introspect
    <3>4. reply'[g].kind = "context" /\ reply'[g].context = TrueContext(call[g].token)
      BY <1>1, <3>3 DEF Reply, CallTypes
    <3>. QED BY <3>1, <3>4 DEF Eligible
  <2>. QED BY <2>1, <2>2
<1>. QED BY <1>2, <1>4, <1>6, <1>7, <1>8, <1>9, NewCallMoves

LEMMA NewSends == ASSUME Inv, NewInv, NEW g \in Gateway, Send(g) PROVE NewInv'
<1>1. WorldTypes /\ CallTypes /\ \A h \in Gateway : Unused(h) /\ Promised(h)
  BY TypeParts DEF Inv, NewInv
<1>2. PICK p \in DOMAIN proofs : \E c : Sends(g, p, c)
  BY <1>1, SendSends
<1>3. PICK c : Sends(g, p, c)
  BY <1>2
<1>4. pc[g] = "idle" /\ pc' = [pc EXCEPT ![g] = "sent"]
      /\ UNCHANGED <<minted, proofs, used, lateProofs, reply, entitled>>
  BY DEF Send, externalVars
<1>5. pc'[g] = "sent" /\ \A h \in Gateway \ {g} : pc'[h] = pc[h]
  BY <1>1, <1>4 DEF CallTypes
<1>6. proofs[p].jti = p
  BY DEF NewInv, Numbered
<1>7. call'[g] = c /\ c.proof = p /\ (c.sole => p \notin used \cup lateProofs /\ \A h \in Gateway : Waiting(h) => call[h].proof # p)
  BY <1>3, <1>6 DEF Sends
<1>8. \A h \in Gateway \ {g} : SameCall(h) /\ (call'[h].sole => call[h].sole /\ call[h].proof # p)
  BY <1>3 DEF Sends
<1>9. \A h \in Gateway \ {g} : call'[h].proof = call[h].proof
  BY <1>8 DEF SameCall
<1>10. Unused(g)'
  BY <1>4, <1>5, <1>7, <1>9 DEF Unused, Waiting
<1>11. ASSUME NEW h \in Gateway \ {g} PROVE Unused(h)'
  <2>. SUFFICES ASSUME pc[h] = "sent", call'[h].sole
                PROVE  /\ call[h].proof \notin used \cup lateProofs
                       /\ \A i \in Gateway \ {h} : pc'[i] = "sent" => call'[i].proof # call[h].proof
    BY <1>4, <1>5, <1>9 DEF Unused
  <2>1. call[h].sole /\ call[h].proof # p
    BY <1>8
  <2>2. /\ call[h].proof \notin used \cup lateProofs
        /\ \A i \in Gateway \ {h} : pc[i] = "sent" => call[i].proof # call[h].proof
    BY <1>1, <2>1 DEF Unused
  <2>. QED BY <1>5, <1>7, <1>9, <2>1, <2>2
<1>12. Promised(g)'
  BY <1>1, <1>4 DEF Promised
<1>13. ASSUME NEW h \in Gateway \ {g} PROVE Promised(h)'
  <2>1. call'[h].token = call[h].token /\ call'[h].audience = call[h].audience
    BY <1>8 DEF SameCall
  <2>. QED BY <1>1, <1>4, <1>5, <2>1 DEF Promised, TrueContext, Token
<1>14. Numbered'
  BY <1>4, NumberedStands DEF NewInv
<1>. QED BY <1>10, <1>11, <1>12, <1>13, <1>14 DEF NewInv

LEMMA NewStep == Inv /\ NewInv /\ [Next]_vars => NewInv'
<1>. SUFFICES ASSUME Inv, NewInv, [Next]_vars PROVE NewInv'
  OBVIOUS
<1>1. CASE Environment
  BY <1>1, NewWorld, NewLate, NewAnswers DEF Environment
<1>2. CASE Presenting \/ UNCHANGED vars
  BY <1>2, NewWorld
<1>3. ASSUME NEW g \in Gateway, IntrospectContext(g) PROVE NewInv'
  BY <1>3, NewSends, NewRead, NewReturns DEF IntrospectContext
<1>. QED BY <1>1, <1>2, <1>3 DEF Next

LEMMA NewInvCorrect == Spec => []NewInv
<1>1. Init => NewInv
  BY DEF Init, NewInv, Numbered, Unused, Promised
<1>. QED BY <1>1, NewStep, InvCorrect, PTL DEF Spec

\* A promised context, presented by its holder and unexpired, passes every check.
LEMMA PromisedIsBound ==
    ASSUME NEW g \in Gateway, Promised(g), entitled[g], call[g].presenter = Token(g).jkt, now < Token(g).expiresAt
    PROVE  Bound(g) /\ now < reply[g].context.expiresAt
<1>. DEFINE d == TrueContext(call[g].token)
<1>1. reply[g].context = d /\ call[g].audience = Token(g).audience
  BY DEF Promised
<1>2. d.token = call[g].token /\ d.jkt = Token(g).jkt /\ d.audience = Token(g).audience
      /\ d.expiresAt = Token(g).expiresAt /\ d.whole
  BY DEF TrueContext, Token
<1>. HIDE DEF d
<1>. QED BY <1>1, <1>2, Zenon DEF Bound

\* A call whose proof is good and new for the deployment, and whose answer arrives,
\* returns the context (presentation.go:102-152), however many other proofs of the
\* token were used, lost or are on their way: SignDPoP makes every jti anew
\* (presentation.go:51-54), so no other proof consumes this one.
THEOREM NewProofIsEnough == Spec => NewProofSuffices
<1>. DEFINE Step == \A g \in Gateway :
                       /\ Returned(g) /\ entitled[g] /\ ~Lost(g)
                       /\ call[g].presenter = Token(g).jkt /\ now < Token(g).expiresAt
                       => answer'[g] = ""
<1>1. ASSUME Inv, NewInv, [Next]_vars PROVE Step
  <2>. SUFFICES ASSUME NEW g \in Gateway, Returned(g), entitled[g], ~Lost(g),
                       call[g].presenter = Token(g).jkt, now < Token(g).expiresAt
                PROVE  answer'[g] = ""
    OBVIOUS
  <2>1. CallTypes /\ Promised(g)
    BY <1>1, TypeParts DEF Inv, NewInv
  <2>2. IntrospectContext(g)
    BY <1>1, <2>1, OwnStep DEF Returned
  <2>3. pc[g] \in {"answered", "check"} /\ reply[g].kind = "context" /\ pc'[g] = "idle"
    BY <2>1 DEF Promised, Returned
  <2>4. ~Refuse(g) /\ ~Send(g) /\ ~Read(g) /\ ~NotOK(g) /\ ~NotRead(g) /\ ~Inactive(g)
    BY <2>1, <2>3 DEF Refuse, Send, Read, NotOK, NotRead, Inactive, Fail, CallTypes
  <2>5. ~TransportFails(g) /\ ~TimeOut(g)
    <3>1. ASSUME GiveUp(g) PROVE FALSE
      <4>1. answer'[g] = "other"
        BY <2>1, <3>1 DEF GiveUp, Return, CallTypes
      <4>. QED BY <2>3, <4>1 DEF Lost
    <3>. QED BY <3>1 DEF TransportFails, TimeOut
  <2>6. Check(g)
    BY <2>2, <2>4, <2>5 DEF IntrospectContext
  <2>7. Bound(g) /\ now < reply[g].context.expiresAt
    BY <2>1, PromisedIsBound
  <2>8. Return(g, "")
    BY <2>6, <2>7, Zenon DEF Check
  <2>. QED BY <2>1, <2>8 DEF Return, CallTypes
<1>2. Inv /\ NewInv /\ [Next]_vars => [Step]_vars
  BY <1>1
<1>3. NewProofSuffices <=> [][Step]_vars
  BY DEF NewProofSuffices
<1>. QED BY <1>2, <1>3, InvCorrect, NewInvCorrect, PTL DEF Spec

=============================================================================

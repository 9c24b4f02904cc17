-------------------------- MODULE SdkClientProofs --------------------------
(***************************************************************************)
(* What the API clients promise, for any calls, challenges and redirects:  *)
(* Spec implies AtMostOnce, OneEnrollmentPerChallenge, SuccessMeansDone    *)
(* and SpentByAnother, and implements RemoteCall.                          *)
(*                                                                         *)
(* The invariant is about one call at a time.  As long as its POST is out, *)
(* or redirected and to be sent again, the call has not been carried out   *)
(* and its proof not been taken; nothing sends a second POST for it; and   *)
(* what was carried out with a proof has its identifier on the authority's *)
(* record.                                                                 *)
(***************************************************************************)
EXTENDS SdkClient, TLAPS

\* A POST that may still be carried out.
Pending(c) ==
    /\ exchange[c].verb = "POST"
    /\ \/ exchange[c].at = "request"
       \/ exchange[c].at = "answer" /\ exchange[c].answer \in Again

Sent(c) ==
    /\ stage[c] \in {"idle", "unsent"} => exchange[c].at = "none" /\ done[c] = 0
    /\ stage[c] = "waiting" => exchange[c].at # "none"
    /\ stage[c] = "ok" => exchange[c].at \in {"answer", "broken"}
    /\ exchange[c].at # "none" => /\ exchange[c].verb \in {"GET", "POST"}
                                  /\ exchange[c].place \in {"home", "elsewhere"}
                                  /\ exchange[c].verb = "POST" => Writes(c)

Once(c) ==
    /\ done[c] <= 1
    /\ Pending(c) => done[c] = 0

\* The call's own request, answered.
Answers(c) ==
    exchange[c].verb = "POST" /\ exchange[c].place = "home" /\ exchange[c].answer \in {"own", "foreign"}
        => done[c] = 1

Recorded(c) ==
    /\ Proves(c) /\ done[c] > 0 => Jti(c) \in spent
    /\ Writes(c) /\ stage[c] = "ok" /\ ~Astray(c) => done[c] = 1

CallInv(c) == Sent(c) /\ Once(c) /\ Answers(c) /\ Recorded(c)

EnrolledOnce ==
    \A c, d \in Call :
        Enrolls(c) /\ Enrolls(d) /\ challenge[c] = challenge[d] /\ done[c] > 0 /\ done[d] > 0 => c = d

Inv == TypeOK /\ EnrolledOnce /\ \A c \in Call : CallInv(c)

-----------------------------------------------------------------------------
(* Types.                                                                  *)

LEMMA MethodVerbs ==
    ASSUME NEW m \in Method
    PROVE  m.verb \in {"GET", "POST"}
<1>1. \A n \in UNION {V2Blueprints, V2Enrollment, V2Lifecycle, V2Tokens} : n.verb \in {"GET", "POST"}
  BY DEF V2Blueprints, V2Enrollment, V2Lifecycle, V2Tokens, Post, Get
<1>2. \A n \in UNION {V2Federation, V2Reads, V2Operations} : n.verb \in {"GET", "POST"}
  BY DEF V2Federation, V2Reads, V2Operations, Post, Get
<1>3. \A n \in UNION {V3Enrollment, V3Tokens, V3Registry} : n.verb \in {"GET", "POST"}
  BY DEF V3Enrollment, V3Tokens, V3Registry, Post, Get
<1>4. \A n \in UNION {V3Operations, V3Federation, V3Credentials} : n.verb \in {"GET", "POST"}
  BY DEF V3Operations, V3Federation, V3Credentials, Post, Get
<1>. QED BY <1>1, <1>2, <1>3, <1>4 DEF Method, V2Method, V3Method

LEMMA CompletionPosts ==
    ASSUME NEW m \in Method, m.name = "CompleteEnrollment"
    PROVE  m.verb = "POST"
<1> DEFINE Posts(n) == n.name = "CompleteEnrollment" => n.verb = "POST"
<1>1. \A n \in UNION {V2Blueprints, V2Enrollment, V2Lifecycle, V2Tokens} : Posts(n)
  BY DEF V2Blueprints, V2Enrollment, V2Lifecycle, V2Tokens, Post, Get
<1>2. \A n \in UNION {V2Federation, V2Reads, V2Operations} : Posts(n)
  BY DEF V2Federation, V2Reads, V2Operations, Post, Get
<1>3. \A n \in UNION {V3Enrollment, V3Tokens, V3Registry} : Posts(n)
  BY DEF V3Enrollment, V3Tokens, V3Registry, Post, Get
<1>4. \A n \in UNION {V3Operations, V3Federation, V3Credentials} : Posts(n)
  BY DEF V3Operations, V3Federation, V3Credentials, Post, Get
<1>. HIDE DEF Posts
<1>5. Posts(m)
  BY <1>1, <1>2, <1>3, <1>4 DEF Method, V2Method, V3Method
<1>. QED BY <1>5 DEF Posts

LEMMA ExchangeFields ==
    ASSUME TypeOK, NEW c \in Call
    PROVE  /\ exchange[c] \in Exchange
           /\ exchange[c].at \in {"none", "request", "answer", "broken"}
           /\ exchange[c].verb \in {"none", "GET", "POST"}
           /\ exchange[c].place \in {"none", "home", "elsewhere"}
           /\ exchange[c].hops \in 0 .. MaxRedirects
           /\ done[c] \in Nat /\ stage[c] \in Stage /\ method[c] \in Method
<1>1. exchange[c] \in Exchange
  BY DEF TypeOK
<1>. QED BY <1>1 DEF TypeOK, Exchange

LEMMA InitInv == SdkClientAssumption /\ Init => Inv
<1>. SUFFICES ASSUME SdkClientAssumption, Init PROVE Inv
  OBVIOUS
<1>1. NoExchange \in Exchange
  BY DEF NoExchange, Exchange, SdkClientAssumption
<1>2. TypeOK
  <2>1. method \in [Call -> Method] /\ challenge \in [Call -> Challenge]
    BY Zenon DEF Init
  <2>2. exchange \in [Call -> Exchange]
    BY <1>1, Zenon DEF Init
  <2>3. stage \in [Call -> Stage]
    BY DEF Init, Stage
  <2>4. done \in [Call -> Nat] /\ spent \subseteq Call \cup Challenge
    BY DEF Init
  <2>. QED BY <2>1, <2>2, <2>3, <2>4 DEF TypeOK
<1>3. \A c \in Call : stage[c] = "idle" /\ exchange[c] = NoExchange /\ done[c] = 0
  BY DEF Init
<1>4. \A c \in Call : CallInv(c)
  <2>1. NoExchange.at = "none" /\ NoExchange.verb = "none" /\ NoExchange.answer = "none"
    BY DEF NoExchange
  <2>. SUFFICES ASSUME NEW c \in Call PROVE CallInv(c)
    OBVIOUS
  <2>2. /\ stage[c] = "idle" /\ done[c] = 0
        /\ exchange[c].at = "none" /\ exchange[c].verb = "none" /\ exchange[c].answer = "none"
    BY <1>3, <2>1
  <2>. QED BY <2>2 DEF CallInv, Sent, Once, Pending, Answers, Recorded
<1>5. EnrolledOnce
  BY <1>3 DEF EnrolledOnce
<1>. QED BY <1>2, <1>4, <1>5 DEF Inv

-----------------------------------------------------------------------------
(* A step of one call leaves the others alone.                             *)

Step(c) ==
    /\ c \in Call
    /\ method' = method /\ challenge' = challenge
    /\ \A d \in Call \ {c} : stage'[d] = stage[d] /\ exchange'[d] = exchange[d] /\ done'[d] = done[d]
    /\ spent \subseteq spent'

LEMMA OthersKeep ==
    ASSUME NEW c, Step(c), NEW d \in Call, d # c, CallInv(d)
    PROVE  CallInv(d)'
BY DEF Step, CallInv, Sent, Once, Pending, Answers, Recorded, Astray, Writes, Enrolls, Proves, Jti

\* A step that carries nothing out.
LEMMA QuietStep ==
    ASSUME Inv, TypeOK', NEW c \in Call, Step(c), done' = done, CallInv(c)'
    PROVE  Inv'
<1>1. \A d \in Call : CallInv(d)'
  BY OthersKeep DEF Inv
<1>2. EnrolledOnce'
  BY DEF Inv, EnrolledOnce, Step, Enrolls
<1>. QED BY <1>1, <1>2 DEF Inv

\* A step that changes an exchange gives it fields of their types.
Answer == {"none", "own", "foreign", "cut", "refused", "spent"} \cup Redirects

LEMMA NewExchange ==
    ASSUME TypeOK, NEW c \in Call, NEW e \in Exchange, exchange' = [exchange EXCEPT ![c] = e]
    PROVE  /\ exchange' \in [Call -> Exchange]
           /\ exchange'[c] = e
           /\ \A d \in Call \ {c} : exchange'[d] = exchange[d]
BY Zenon DEF TypeOK

LEMMA Fields ==
    ASSUME NEW r \in Exchange
    PROVE  \E p, q, l, h, s : r = [at |-> p, verb |-> q, place |-> l, hops |-> h, answer |-> s]
BY DEF Exchange

LEMMA TwoFields ==
    ASSUME NEW r \in Exchange, NEW x, NEW a
    PROVE  [[r EXCEPT !.at = x] EXCEPT !.answer = a]
             = [at |-> x, verb |-> r.verb, place |-> r.place, hops |-> r.hops, answer |-> a]
<1>1. PICK p, q, l, h, s : r = [at |-> p, verb |-> q, place |-> l, hops |-> h, answer |-> s]
  BY Fields
<1>2. [r EXCEPT !.at = x] = [at |-> x, verb |-> q, place |-> l, hops |-> h, answer |-> s]
  BY <1>1
<1>3. [[at |-> x, verb |-> q, place |-> l, hops |-> h, answer |-> s] EXCEPT !.answer = a]
        = [at |-> x, verb |-> q, place |-> l, hops |-> h, answer |-> a]
  OBVIOUS
<1>4. r.verb = q /\ r.place = l /\ r.hops = h
  BY <1>1
<1>. QED BY <1>2, <1>3, <1>4, Zenon

LEMMA TwoUpdates ==
    ASSUME exchange \in [Call -> Exchange], NEW c \in Call, NEW x, NEW a
    PROVE  [exchange EXCEPT ![c].at = x, ![c].answer = a]
             = [exchange EXCEPT ![c] = [at |-> x, verb |-> exchange[c].verb, place |-> exchange[c].place,
                                        hops |-> exchange[c].hops, answer |-> a]]
<1>1. exchange[c] \in Exchange
  OBVIOUS
<1>. QED BY <1>1, TwoFields, Zenon

\* An answer or a broken connection.
LEMMA AnsweredFields ==
    ASSUME TypeOK, NEW c \in Call, NEW x \in {"answer", "broken"}, NEW a \in Answer,
           exchange' = [exchange EXCEPT ![c].at = x, ![c].answer = a]
    PROVE  /\ exchange' \in [Call -> Exchange]
           /\ exchange'[c].at = x /\ exchange'[c].answer = a
           /\ exchange'[c].verb = exchange[c].verb /\ exchange'[c].place = exchange[c].place
           /\ \A d \in Call \ {c} : exchange'[d] = exchange[d]
<1>. DEFINE e == [at |-> x, verb |-> exchange[c].verb, place |-> exchange[c].place,
                  hops |-> exchange[c].hops, answer |-> a]
<1>1. exchange[c] \in Exchange /\ exchange \in [Call -> Exchange]
  BY DEF TypeOK
<1>2. e \in Exchange
  BY <1>1 DEF Exchange, Answer
<1>3. exchange' = [exchange EXCEPT ![c] = e]
  BY <1>1, TwoUpdates
<1>4. e.at = x /\ e.answer = a /\ e.verb = exchange[c].verb /\ e.place = exchange[c].place
  OBVIOUS
<1>. HIDE DEF e
<1>. QED BY <1>2, <1>3, <1>4, NewExchange

LEMMA ArrivedFields ==
    ASSUME TypeOK, NEW c \in Call, NEW a \in Answer, Arrived(c, a)
    PROVE  /\ exchange' \in [Call -> Exchange]
           /\ exchange'[c].at = "answer" /\ exchange'[c].answer = a
           /\ exchange'[c].verb = exchange[c].verb /\ exchange'[c].place = exchange[c].place
           /\ \A d \in Call \ {c} : exchange'[d] = exchange[d]
BY AnsweredFields DEF Arrived

LEMMA RequestFields ==
    ASSUME TypeOK, NEW c \in Call, NEW v \in {"GET", "POST"}, NEW l \in {"home", "elsewhere"}, NEW h \in 0 .. MaxRedirects,
           exchange' = [exchange EXCEPT ![c] = Request(v, l, h)]
    PROVE  /\ exchange' \in [Call -> Exchange]
           /\ exchange'[c].at = "request" /\ exchange'[c].answer = "none"
           /\ exchange'[c].verb = v /\ exchange'[c].place = l
           /\ \A d \in Call \ {c} : exchange'[d] = exchange[d]
<1>1. Request(v, l, h) \in Exchange
  BY DEF Request, Exchange
<1>2. /\ Request(v, l, h).at = "request" /\ Request(v, l, h).answer = "none"
      /\ Request(v, l, h).verb = v /\ Request(v, l, h).place = l
  BY DEF Request
<1>. QED BY <1>1, <1>2, NewExchange

LEMMA StageFields ==
    ASSUME TypeOK, NEW c \in Call, NEW s \in Stage, stage' = [stage EXCEPT ![c] = s]
    PROVE  /\ stage' \in [Call -> Stage]
           /\ stage'[c] = s
           /\ \A d \in Call \ {c} : stage'[d] = stage[d]
BY DEF TypeOK

\* The types after a step follow from those of what it changes.
LEMMA TypesAfter ==
    ASSUME TypeOK, method' = method, challenge' = challenge, stage' \in [Call -> Stage],
           exchange' \in [Call -> Exchange], done' \in [Call -> Nat], spent' \subseteq Call \cup Challenge
    PROVE  TypeOK'
BY DEF TypeOK, Stage, Exchange

-----------------------------------------------------------------------------
(* The authority and the way to it.                                        *)

LEMMA PerformInv ==
    ASSUME SdkClientAssumption, Inv, NEW c \in Call, Perform(c)
    PROVE  Inv'
<1>. TypeOK /\ CallInv(c) /\ EnrolledOnce
  BY DEF Inv
<1>1. PICK a \in {"own", "cut", "refused"} \cup (Redirects \ Again) : Arrived(c, a)
  BY DEF Perform
<1>2. a \in Answer /\ a \notin Again /\ a # "foreign"
  BY DEF Answer, Again, SdkClientAssumption
<1>3. /\ exchange' \in [Call -> Exchange]
      /\ exchange'[c].at = "answer" /\ exchange'[c].answer = a
      /\ exchange'[c].verb = exchange[c].verb /\ exchange'[c].place = exchange[c].place
      /\ \A d \in Call \ {c} : exchange'[d] = exchange[d]
  BY <1>1, <1>2, ArrivedFields
<1>4. /\ stage' = stage /\ method' = method /\ challenge' = challenge
      /\ exchange[c].at = "request" /\ exchange[c].verb = "POST"
      /\ Proves(c) => Jti(c) \notin spent
  BY DEF Perform
<1>5. done[c] = 0
  BY <1>4 DEF CallInv, Once, Pending
<1>6. done' \in [Call -> Nat] /\ done'[c] = 1 /\ \A d \in Call \ {c} : done'[d] = done[d]
  BY <1>5 DEF Perform, TypeOK
<1>7. spent \subseteq spent' /\ spent' \subseteq Call \cup Challenge /\ (Proves(c) => Jti(c) \in spent')
  BY <1>4 DEF Perform, Record, Presents, TypeOK, Jti
<1>8. TypeOK'
  BY <1>3, <1>4, <1>6, <1>7, TypesAfter DEF TypeOK
<1>9. Step(c)
  BY <1>3, <1>4, <1>6, <1>7 DEF Step
<1>10. CallInv(c)'
  <2>1. Sent(c)'
    BY <1>3, <1>4 DEF CallInv, Sent, Writes
  <2>2. Once(c)'
    BY <1>2, <1>3, <1>6 DEF Once, Pending
  <2>3. Answers(c)'
    BY <1>3, <1>4, <1>6 DEF Answers
  <2>4. Recorded(c)'
    BY <1>4, <1>6, <1>7 DEF Recorded, Proves, Enrolls, Jti
  <2>. QED BY <2>1, <2>2, <2>3, <2>4 DEF CallInv
<1>11. \A d \in Call : CallInv(d)'
  BY <1>9, <1>10, OthersKeep DEF Inv
<1>12. EnrolledOnce'
  <2>1. \A d \in Call \ {c} : Enrolls(c) /\ Enrolls(d) /\ challenge[c] = challenge[d] => done[d] = 0
    <3>. SUFFICES ASSUME NEW d \in Call \ {c}, Enrolls(c), Enrolls(d), challenge[c] = challenge[d]
                  PROVE  done[d] = 0
      OBVIOUS
    <3>1. Jti(d) = Jti(c) /\ Jti(c) \notin spent /\ Proves(d)
      BY <1>4 DEF Proves, Jti
    <3>2. Recorded(d) /\ done[d] \in Nat
      BY DEF Inv, CallInv, TypeOK
    <3>. QED BY <3>1, <3>2 DEF Recorded
  <2>. QED BY <1>4, <1>6, <2>1 DEF EnrolledOnce, Enrolls
<1>. QED BY <1>8, <1>11, <1>12 DEF Inv

\* An answer that carries nothing out and does not come from a write.
LEMMA AnswerInv ==
    ASSUME SdkClientAssumption, Inv, NEW c \in Call, NEW a \in Answer, Arrived(c, a),
           exchange[c].at = "request",
           a \in {"own", "foreign"} => exchange[c].verb = "GET" \/ exchange[c].place = "elsewhere",
           UNCHANGED <<method, challenge, stage, done>>, spent \subseteq spent', spent' \subseteq Call \cup Challenge
    PROVE  Inv'
<1>. TypeOK /\ CallInv(c)
  BY DEF Inv
<1>1. /\ exchange' \in [Call -> Exchange]
      /\ exchange'[c].at = "answer" /\ exchange'[c].answer = a
      /\ exchange'[c].verb = exchange[c].verb /\ exchange'[c].place = exchange[c].place
      /\ \A d \in Call \ {c} : exchange'[d] = exchange[d]
  BY ArrivedFields
<1>2. TypeOK'
  BY <1>1, TypesAfter DEF TypeOK
<1>3. Step(c)
  BY <1>1 DEF Step
<1>4. CallInv(c)'
  <2>1. Sent(c)'
    BY <1>1 DEF CallInv, Sent, Writes
  <2>2. Once(c)'
    BY <1>1 DEF CallInv, Once, Pending
  <2>3. Answers(c)'
    BY <1>1 DEF Answers
  <2>4. Recorded(c)'
    BY <1>1 DEF CallInv, Sent, Recorded, Writes, Proves, Enrolls, Jti
  <2>. QED BY <2>1, <2>2, <2>3, <2>4 DEF CallInv
<1>. QED BY <1>2, <1>3, <1>4, QuietStep

LEMMA ReadInv ==
    ASSUME SdkClientAssumption, Inv, NEW c \in Call, Read(c)
    PROVE  Inv'
<1>1. PICK a \in {"cut", IF Writes(c) THEN "foreign" ELSE "own"} : Arrived(c, a)
  BY DEF Read
<1>2. a \in Answer
  BY DEF Answer
<1>3. exchange[c].verb = "GET" /\ exchange[c].at = "request" /\ UNCHANGED <<method, challenge, stage, done, spent>>
  BY DEF Read
<1>4. spent' \subseteq Call \cup Challenge
  BY <1>3 DEF Inv, TypeOK
<1>. QED BY <1>1, <1>2, <1>3, <1>4, AnswerInv

LEMMA BreakInv ==
    ASSUME SdkClientAssumption, Inv, NEW c \in Call, Break(c)
    PROVE  Inv'
<1>. TypeOK /\ CallInv(c)
  BY DEF Inv
<1>1. "none" \in Answer
  BY DEF Answer
<1>2. /\ exchange' \in [Call -> Exchange]
      /\ exchange'[c].at = "broken" /\ exchange'[c].answer = "none"
      /\ exchange'[c].verb = exchange[c].verb /\ exchange'[c].place = exchange[c].place
      /\ \A d \in Call \ {c} : exchange'[d] = exchange[d]
  BY <1>1, AnsweredFields DEF Break
<1>3. stage' = stage /\ method' = method /\ challenge' = challenge /\ done' = done /\ spent' = spent
      /\ exchange[c].at \in {"request", "answer"}
  BY DEF Break
<1>4. TypeOK'
  BY <1>2, <1>3, TypesAfter DEF TypeOK
<1>5. Step(c)
  BY <1>2, <1>3 DEF Step
<1>6. CallInv(c)'
  <2>1. Sent(c)'
    BY <1>2, <1>3 DEF CallInv, Sent, Writes
  <2>2. Once(c)'
    BY <1>2, <1>3 DEF CallInv, Once, Pending
  <2>3. Answers(c)'
    BY <1>2 DEF Answers
  <2>4. Recorded(c)'
    BY <1>2, <1>3 DEF CallInv, Recorded, Astray, Writes, Proves, Enrolls, Jti
  <2>. QED BY <2>1, <2>2, <2>3, <2>4 DEF CallInv
<1>. QED BY <1>3, <1>4, <1>5, <1>6, QuietStep

\* The record grows by the proof of the request alone.
LEMMA RecordGrows ==
    ASSUME TypeOK, NEW c \in Call, Record(c) \/ UNCHANGED spent
    PROVE  spent \subseteq spent' /\ spent' \subseteq Call \cup Challenge
BY DEF Record, TypeOK, Jti

LEMMA AuthorityInv ==
    ASSUME SdkClientAssumption, Inv, NEW c \in Call, Authority(c)
    PROVE  Inv'
<1>0. TypeOK
  BY DEF Inv
<1>1. ASSUME RefuseSpent(c) PROVE Inv'
  <2>1. exchange[c].at = "request" /\ Arrived(c, "spent") /\ UNCHANGED <<method, challenge, stage, done, spent>>
    BY <1>1 DEF RefuseSpent, Presents
  <2>. QED BY <1>0, <2>1, RecordGrows, AnswerInv DEF Answer
<1>2. ASSUME Refuse(c) PROVE Inv'
  BY <1>0, <1>2, RecordGrows, AnswerInv DEF Refuse, Answer
<1>3. ASSUME Redirect(c) PROVE Inv'
  <2>1. PICK a \in Redirects : Arrived(c, a)
    BY <1>3 DEF Redirect
  <2>2. a \in Answer /\ a \notin {"own", "foreign"}
    BY DEF Answer, SdkClientAssumption
  <2>3. exchange[c].at = "request" /\ UNCHANGED <<method, challenge, stage, done, spent>>
    BY <1>3 DEF Redirect
  <2>. QED BY <1>0, <2>1, <2>2, <2>3, RecordGrows, AnswerInv
<1>4. ASSUME AnswerElsewhere(c) PROVE Inv'
  <2>1. PICK a \in {"foreign", "cut"} : Arrived(c, a)
    BY <1>4 DEF AnswerElsewhere
  <2>2. a \in Answer
    BY DEF Answer
  <2>3. /\ exchange[c].at = "request" /\ exchange[c].place = "elsewhere"
        /\ Record(c) \/ UNCHANGED spent
        /\ UNCHANGED <<method, challenge, stage, done>>
    BY <1>4 DEF AnswerElsewhere
  <2>. QED BY <1>0, <2>1, <2>2, <2>3, RecordGrows, AnswerInv
<1>. QED BY <1>1, <1>2, <1>3, <1>4, PerformInv, ReadInv, BreakInv DEF Authority

-----------------------------------------------------------------------------
(* The caller's side.                                                      *)

LEMMA RequestInv ==
    ASSUME SdkClientAssumption, Inv, NEW c \in Call, NEW v \in {"GET", "POST"}, NEW l \in {"home", "elsewhere"}, NEW h \in 0 .. MaxRedirects,
           exchange' = [exchange EXCEPT ![c] = Request(v, l, h)],
           v = "POST" => done[c] = 0 /\ Writes(c),
           stage' \in [Call -> Stage], stage'[c] = "waiting", \A d \in Call \ {c} : stage'[d] = stage[d],
           UNCHANGED <<method, challenge, done, spent>>
    PROVE  Inv'
<1>. TypeOK /\ CallInv(c)
  BY DEF Inv
<1>1. /\ exchange' \in [Call -> Exchange]
      /\ exchange'[c].at = "request" /\ exchange'[c].answer = "none"
      /\ exchange'[c].verb = v /\ exchange'[c].place = l
      /\ \A d \in Call \ {c} : exchange'[d] = exchange[d]
  BY RequestFields
<1>2. TypeOK'
  BY <1>1, TypesAfter DEF TypeOK
<1>3. Step(c)
  BY <1>1 DEF Step
<1>4. CallInv(c)'
  <2>1. Sent(c)'
    BY <1>1 DEF Sent, Writes
  <2>2. Once(c)'
    BY <1>1 DEF CallInv, Once, Pending
  <2>3. Answers(c)'
    BY <1>1 DEF Answers
  <2>4. Recorded(c)'
    BY DEF CallInv, Recorded, Proves, Enrolls, Jti
  <2>. QED BY <2>1, <2>2, <2>3, <2>4 DEF CallInv
<1>. QED BY <1>2, <1>3, <1>4, QuietStep

LEMMA ReturnInv ==
    ASSUME SdkClientAssumption, Inv, NEW c \in Call, NEW s \in {"ok", "error"}, Return(c, s),
           stage[c] = "waiting", exchange' = exchange,
           s = "ok" => exchange[c].at = "answer" /\ exchange[c].answer \in {"own", "foreign"}
    PROVE  Inv'
<1>. TypeOK /\ CallInv(c)
  BY DEF Inv
<1>1. /\ stage' \in [Call -> Stage] /\ stage'[c] = s
      /\ \A d \in Call \ {c} : stage'[d] = stage[d]
  BY StageFields DEF Return, Stage
<1>2. method' = method /\ challenge' = challenge /\ done' = done /\ spent' = spent
  BY DEF Return
<1>3. TypeOK'
  BY <1>1, <1>2, TypesAfter DEF TypeOK
<1>4. Step(c)
  BY <1>1, <1>2 DEF Step
<1>5. CallInv(c)'
  <2>1. Sent(c)'
    BY <1>1, <1>2 DEF CallInv, Sent, Writes
  <2>2. Once(c)'
    BY <1>2 DEF CallInv, Once, Pending
  <2>3. Answers(c)'
    BY <1>2 DEF CallInv, Answers
  <2>4. Recorded(c)'
    <3>1. Writes(c) /\ s = "ok" /\ ~Astray(c) => done[c] = 1
      <4>. SUFFICES ASSUME Writes(c), s = "ok", ~Astray(c) PROVE done[c] = 1
        OBVIOUS
      <4>1. exchange[c].answer \in {"own", "foreign"} /\ exchange[c].at = "answer"
        OBVIOUS
      <4>2. exchange[c].verb = "POST" /\ exchange[c].place = "home"
        BY <4>1 DEF CallInv, Sent, Astray, Writes
      <4>. QED BY <4>1, <4>2 DEF CallInv, Answers
    <3>. QED BY <1>1, <1>2, <3>1 DEF CallInv, Recorded, Astray, Writes, Proves, Enrolls, Jti
  <2>. QED BY <2>1, <2>2, <2>3, <2>4 DEF CallInv
<1>. QED BY <1>2, <1>3, <1>4, <1>5, QuietStep

LEMMA BeginInv ==
    ASSUME SdkClientAssumption, Inv, NEW c \in Call, Begin(c)
    PROVE  Inv'
<1>1. method[c] \in Method /\ TypeOK /\ CallInv(c)
  BY DEF Inv, TypeOK
<1>2. method[c].verb \in {"GET", "POST"} /\ 0 \in 0 .. MaxRedirects
  BY <1>1, MethodVerbs DEF SdkClientAssumption
<1>3. /\ stage' \in [Call -> Stage] /\ stage'[c] = "waiting"
      /\ \A d \in Call \ {c} : stage'[d] = stage[d]
  BY <1>1, StageFields DEF Begin, Stage
<1>4. done[c] = 0 /\ (method[c].verb = "POST" => Writes(c))
  BY <1>1 DEF Begin, CallInv, Sent, Writes
<1>. QED BY <1>2, <1>3, <1>4, RequestInv DEF Begin

LEMMA BeginFailsInv ==
    ASSUME SdkClientAssumption, Inv, NEW c \in Call, BeginFails(c)
    PROVE  Inv'
<1>. TypeOK /\ CallInv(c)
  BY DEF Inv
<1>1. /\ stage' \in [Call -> Stage] /\ stage'[c] = "unsent"
      /\ \A d \in Call \ {c} : stage'[d] = stage[d]
  BY StageFields DEF BeginFails, Stage
<1>2. /\ method' = method /\ challenge' = challenge /\ exchange' = exchange
      /\ done' = done /\ spent' = spent /\ stage[c] = "idle"
  BY DEF BeginFails
<1>3. TypeOK'
  BY <1>1, <1>2, TypesAfter DEF TypeOK
<1>4. Step(c)
  BY <1>1, <1>2 DEF Step
<1>5. CallInv(c)'
  BY <1>1, <1>2 DEF CallInv, Sent, Once, Pending, Answers, Recorded, Astray, Writes, Enrolls, Proves, Jti
<1>. QED BY <1>2, <1>3, <1>4, <1>5, QuietStep

LEMMA RepeatInv ==
    ASSUME SdkClientAssumption, Inv, NEW c \in Call, Repeat(c)
    PROVE  Inv'
<1>1. /\ exchange[c].hops \in 0 .. MaxRedirects /\ exchange[c].verb = "GET"
      /\ exchange[c].place \in {"home", "elsewhere"}
  BY ExchangeFields DEF Inv, Repeat, CallInv, Sent
<1>2. exchange' = [exchange EXCEPT ![c] = Request(exchange[c].verb, exchange[c].place, exchange[c].hops)]
  BY DEF Repeat
<1>3. /\ stage' \in [Call -> Stage] /\ stage'[c] = "waiting"
      /\ \A d \in Call \ {c} : stage'[d] = stage[d]
  BY DEF Repeat, Inv, TypeOK
<1>4. UNCHANGED <<method, challenge, done, spent>>
  BY DEF Repeat
<1>. QED BY <1>1, <1>2, <1>3, <1>4, RequestInv

LEMMA FollowInv ==
    ASSUME SdkClientAssumption, Inv, NEW c \in Call, Follow(c)
    PROVE  Inv'
<1>. DEFINE v == IF exchange[c].answer \in Again THEN exchange[c].verb ELSE "GET"
<1>1. /\ TypeOK /\ CallInv(c) /\ exchange[c].hops \in 0 .. MaxRedirects
      /\ exchange[c].hops < MaxRedirects /\ exchange[c].at = "answer" /\ exchange[c].answer \in Redirects
  BY ExchangeFields DEF Inv, Follow, HasAnswer
<1>2. v \in {"GET", "POST"} /\ (v = "POST" => exchange[c].verb = "POST")
  BY <1>1 DEF CallInv, Sent
<1>3. exchange[c].hops + 1 \in 0 .. MaxRedirects
  BY <1>1 DEF SdkClientAssumption
<1>4. v = "POST" => done[c] = 0 /\ Writes(c)
  BY <1>1, <1>2 DEF CallInv, Once, Pending, Sent
<1>5. PICK l \in {"home", "elsewhere"} : exchange' = [exchange EXCEPT ![c] = Request(v, l, exchange[c].hops + 1)]
  BY DEF Follow
<1>6. /\ stage' \in [Call -> Stage] /\ stage'[c] = "waiting"
      /\ \A d \in Call \ {c} : stage'[d] = stage[d]
  BY <1>1 DEF Follow, HasAnswer, TypeOK
<1>7. UNCHANGED <<method, challenge, done, spent>>
  BY DEF Follow
<1>. HIDE DEF v
<1>. QED BY <1>2, <1>3, <1>4, <1>5, <1>6, <1>7, RequestInv

LEMMA ClientInv ==
    ASSUME SdkClientAssumption, Inv, NEW c \in Call, Client(c)
    PROVE  Inv'
<1>1. ASSUME Succeed(c) PROVE Inv'
  BY <1>1, ReturnInv DEF Succeed, HasAnswer
<1>2. ASSUME Fail(c) PROVE Inv'
  BY <1>2, ReturnInv DEF Fail, HasAnswer
<1>3. ASSUME GiveUp(c) PROVE Inv'
  BY <1>3, ReturnInv DEF GiveUp
<1>. QED BY <1>1, <1>2, <1>3, BeginInv, BeginFailsInv, RepeatInv, FollowInv DEF Client

LEMMA NextInv == SdkClientAssumption /\ Inv /\ [Next]_vars => Inv'
<1>. SUFFICES ASSUME SdkClientAssumption, Inv, [Next]_vars PROVE Inv'
  OBVIOUS
<1>1. CASE Next
  BY <1>1, ClientInv, AuthorityInv DEF Next
<1>2. CASE UNCHANGED vars
  BY <1>2 DEF vars, Inv, TypeOK, Stage, Exchange, CallInv, Sent, Once, Pending, Answers, Recorded,
              EnrolledOnce, Astray, Writes, Enrolls, Proves, Jti
<1>. QED BY <1>1, <1>2

LEMMA Always == SdkClientAssumption /\ Spec => []Inv
<1>1. SdkClientAssumption /\ Inv /\ [Next]_vars => Inv'
  BY NextInv
<1>. QED BY <1>1, InitInv, SdkClientAssumption, PTL DEF Spec

-----------------------------------------------------------------------------
(* What the authority's record says.                                       *)

Another(c) ==
    /\ Enrolls(c)
    /\ \E d \in Call \ {c} : Enrolls(d) /\ challenge[d] = challenge[c] /\ exchange[d].at # "none"

\* A call whose proof has not been looked at.
Unjudged(c) == exchange[c].at = "none" \/ Pending(c)

UsedInv == \A c \in Call : Proves(c) /\ Jti(c) \in spent /\ Unjudged(c) => Another(c)

\* A step of call c adds to the record only the proof of its request, which is out no
\* more, gives no other call an answer, and takes back no request.
Marks(c) ==
    /\ method' = method /\ challenge' = challenge
    /\ spent' = spent \/ (spent' = spent \cup {Jti(c)} /\ Proves(c) /\ exchange[c].at # "none" /\ ~Unjudged(c)')
    /\ \A d \in Call : /\ exchange[d].at # "none" => exchange'[d].at # "none"
                       /\ Unjudged(d)' => Unjudged(d)
                       /\ exchange'[d].answer = "spent" => exchange[d].answer = "spent" \/ (d = c /\ RefuseSpent(c))

LEMMA AnswerMarks ==
    ASSUME SdkClientAssumption, TypeOK, NEW c \in Call, NEW a \in Answer, Arrived(c, a), exchange[c].at = "request",
           UNCHANGED <<method, challenge>>, Record(c) \/ UNCHANGED spent,
           a \in Again => UNCHANGED spent, a = "spent" => RefuseSpent(c)
    PROVE  Marks(c)
<1>1. /\ exchange'[c].at = "answer" /\ exchange'[c].answer = a
      /\ exchange'[c].verb = exchange[c].verb
      /\ \A d \in Call \ {c} : exchange'[d] = exchange[d]
  BY ArrivedFields
<1>2. Unjudged(c)' => Unjudged(c) /\ a \in Again
  BY <1>1 DEF Unjudged, Pending
<1>3. \A d \in Call \ {c} : Unjudged(d)' = Unjudged(d)
  BY <1>1 DEF Unjudged, Pending
<1>4. spent' = spent \/ (spent' = spent \cup {Jti(c)} /\ Proves(c))
  BY DEF Record, Presents
<1>. QED BY <1>1, <1>2, <1>3, <1>4 DEF Marks

LEMMA AuthorityMarks ==
    ASSUME SdkClientAssumption, Inv, NEW c \in Call, Authority(c)
    PROVE  Marks(c)
<1>. TypeOK
  BY DEF Inv
<1>1. ASSUME Perform(c) PROVE Marks(c)
  <2>1. PICK a \in {"own", "cut", "refused"} \cup (Redirects \ Again) : Arrived(c, a)
    BY <1>1 DEF Perform
  <2>2. a \in Answer /\ a \notin Again /\ a # "spent"
    BY DEF Answer, Again, SdkClientAssumption
  <2>. QED BY <1>1, <2>1, <2>2, AnswerMarks DEF Perform
<1>2. ASSUME RefuseSpent(c) PROVE Marks(c)
  <2>1. exchange[c].at = "request" /\ Arrived(c, "spent") /\ UNCHANGED <<method, challenge, spent>>
    BY <1>2 DEF RefuseSpent, Presents
  <2>. QED BY <1>2, <2>1, AnswerMarks DEF Answer
<1>3. ASSUME Read(c) PROVE Marks(c)
  <2>1. PICK a \in {"cut", IF Writes(c) THEN "foreign" ELSE "own"} : Arrived(c, a)
    BY <1>3 DEF Read
  <2>2. a \in Answer /\ a # "spent"
    BY DEF Answer
  <2>. QED BY <1>3, <2>1, <2>2, AnswerMarks DEF Read
<1>4. ASSUME AnswerElsewhere(c) PROVE Marks(c)
  <2>1. PICK a \in {"foreign", "cut"} : Arrived(c, a)
    BY <1>4 DEF AnswerElsewhere
  <2>2. a \in Answer /\ a \notin Again /\ a # "spent"
    BY DEF Answer, Again
  <2>. QED BY <1>4, <2>1, <2>2, AnswerMarks DEF AnswerElsewhere
<1>5. ASSUME Refuse(c) PROVE Marks(c)
  <2>1. "refused" \in Answer /\ "refused" \notin Again
    BY DEF Answer, Again
  <2>. QED BY <1>5, <2>1, AnswerMarks DEF Refuse
<1>6. ASSUME Redirect(c) PROVE Marks(c)
  <2>1. PICK a \in Redirects : Arrived(c, a)
    BY <1>6 DEF Redirect
  <2>2. a \in Answer /\ a # "spent"
    BY DEF Answer, SdkClientAssumption
  <2>. QED BY <1>6, <2>1, <2>2, AnswerMarks DEF Redirect
<1>7. ASSUME Break(c) PROVE Marks(c)
  <2>1. "none" \in Answer
    BY DEF Answer
  <2>2. /\ exchange'[c].at = "broken" /\ exchange'[c].answer = "none"
        /\ \A d \in Call \ {c} : exchange'[d] = exchange[d]
    BY <1>7, <2>1, AnsweredFields DEF Break
  <2>3. ~Unjudged(c)' /\ \A d \in Call \ {c} : Unjudged(d)' = Unjudged(d)
    BY <2>2 DEF Unjudged, Pending
  <2>. QED BY <1>7, <2>2, <2>3 DEF Marks, Break
<1>. QED BY <1>1, <1>2, <1>3, <1>4, <1>5, <1>6, <1>7 DEF Authority

LEMMA ClientMarks ==
    ASSUME SdkClientAssumption, Inv, NEW c \in Call, Client(c)
    PROVE  Marks(c)
<1>. TypeOK /\ CallInv(c)
  BY DEF Inv
<1>1. ASSUME NEW v \in {"GET", "POST"}, NEW l \in {"home", "elsewhere"}, NEW h \in 0 .. MaxRedirects,
             exchange' = [exchange EXCEPT ![c] = Request(v, l, h)],
             v = "POST" => Unjudged(c), UNCHANGED <<method, challenge, spent>>
      PROVE  Marks(c)
  <2>1. /\ exchange'[c].at = "request" /\ exchange'[c].answer = "none" /\ exchange'[c].verb = v
        /\ \A d \in Call \ {c} : exchange'[d] = exchange[d]
    BY <1>1, RequestFields
  <2>2. (Unjudged(c)' => Unjudged(c)) /\ \A d \in Call \ {c} : Unjudged(d)' = Unjudged(d)
    BY <1>1, <2>1 DEF Unjudged, Pending
  <2>. QED BY <1>1, <2>1, <2>2 DEF Marks
<1>2. ASSUME Begin(c) PROVE Marks(c)
  <2>1. method[c].verb \in {"GET", "POST"} /\ 0 \in 0 .. MaxRedirects
    BY MethodVerbs DEF TypeOK, SdkClientAssumption
  <2>2. Unjudged(c)
    BY <1>2 DEF Begin, CallInv, Sent, Unjudged
  <2>. QED BY <1>1, <1>2, <2>1, <2>2 DEF Begin
<1>3. ASSUME Repeat(c) PROVE Marks(c)
  <2>1. /\ exchange[c].hops \in 0 .. MaxRedirects /\ exchange[c].verb = "GET"
        /\ exchange[c].place \in {"home", "elsewhere"}
    BY <1>3, ExchangeFields DEF Repeat, CallInv, Sent
  <2>2. exchange' = [exchange EXCEPT ![c] = Request(exchange[c].verb, exchange[c].place, exchange[c].hops)]
    BY <1>3 DEF Repeat
  <2>. QED BY <1>1, <1>3, <2>1, <2>2 DEF Repeat
<1>4. ASSUME Follow(c) PROVE Marks(c)
  <2>. DEFINE v == IF exchange[c].answer \in Again THEN exchange[c].verb ELSE "GET"
  <2>1. /\ exchange[c].hops \in 0 .. MaxRedirects /\ exchange[c].hops < MaxRedirects
        /\ exchange[c].at = "answer"
    BY <1>4, ExchangeFields DEF Follow, HasAnswer
  <2>2. v \in {"GET", "POST"} /\ (v = "POST" => Unjudged(c))
    BY <2>1 DEF CallInv, Sent, Unjudged, Pending
  <2>3. exchange[c].hops + 1 \in 0 .. MaxRedirects
    BY <2>1 DEF SdkClientAssumption
  <2>4. PICK l \in {"home", "elsewhere"} : exchange' = [exchange EXCEPT ![c] = Request(v, l, exchange[c].hops + 1)]
    BY <1>4 DEF Follow
  <2>. HIDE DEF v
  <2>. QED BY <1>1, <1>4, <2>2, <2>3, <2>4 DEF Follow
<1>5. ASSUME BeginFails(c) \/ Succeed(c) \/ Fail(c) \/ GiveUp(c) PROVE Marks(c)
  <2>1. UNCHANGED <<method, challenge, spent, exchange>>
    BY <1>5 DEF BeginFails, Succeed, Fail, GiveUp, Return
  <2>. QED BY <2>1 DEF Marks, Unjudged, Pending
<1>. QED BY <1>2, <1>3, <1>4, <1>5 DEF Client

LEMMA NextSpent ==
    SdkClientAssumption /\ Inv /\ UsedInv /\ SpentByAnother /\ [Next]_vars => UsedInv' /\ SpentByAnother'
<1>. SUFFICES ASSUME SdkClientAssumption, Inv, UsedInv, SpentByAnother, [Next]_vars
              PROVE  UsedInv' /\ SpentByAnother'
  OBVIOUS
<1>1. ASSUME NEW c \in Call, Client(c) \/ Authority(c) PROVE UsedInv' /\ SpentByAnother'
  <2>1. Marks(c)
    BY <1>1, ClientMarks, AuthorityMarks
  <2>2. \A d \in Call : Proves(d)' = Proves(d) /\ Jti(d)' = Jti(d) /\ Enrolls(d)' = Enrolls(d)
    BY <2>1 DEF Marks, Proves, Jti, Enrolls
  <2>3. ASSUME NEW d \in Call, Another(d) PROVE Another(d)'
    BY <2>1, <2>2, <2>3 DEF Another, Marks
  <2>4. UsedInv'
    <3>. SUFFICES ASSUME NEW d \in Call, Proves(d), Jti(d) \in spent', Unjudged(d)' PROVE Another(d)'
      BY <2>2 DEF UsedInv
    <3>1. Unjudged(d)
      BY <2>1 DEF Marks
    <3>2. CASE Jti(d) \in spent
      BY <2>3, <3>1, <3>2 DEF UsedInv
    <3>3. CASE Jti(d) \notin spent
      <4>1. Jti(d) = Jti(c) /\ Proves(c) /\ exchange[c].at # "none" /\ d # c
        BY <2>1, <3>3 DEF Marks
      <4>2. challenge[d] \in Challenge /\ challenge[c] \in Challenge
        BY DEF Inv, TypeOK
      <4>3. Enrolls(d) /\ Enrolls(c) /\ challenge[c] = challenge[d]
        BY <4>1, <4>2 DEF Jti, SdkClientAssumption
      <4>. QED BY <2>3, <4>1, <4>3 DEF Another
    <3>. QED BY <3>2, <3>3
  <2>5. SpentByAnother'
    <3>. SUFFICES ASSUME NEW d \in Call, exchange'[d].answer = "spent" PROVE Another(d)'
      BY DEF SpentByAnother, Another
    <3>1. CASE exchange[d].answer = "spent"
      BY <2>3, <3>1 DEF SpentByAnother, Another
    <3>2. CASE RefuseSpent(d)
      BY <2>3, <3>2 DEF RefuseSpent, Presents, UsedInv, Unjudged, Pending
    <3>. QED BY <2>1, <3>1, <3>2 DEF Marks
  <2>. QED BY <2>4, <2>5
<1>2. CASE UNCHANGED vars
  BY <1>2 DEF vars, UsedInv, SpentByAnother, Another, Unjudged, Pending, Proves, Enrolls, Jti
<1>. QED BY <1>1, <1>2 DEF Next

-----------------------------------------------------------------------------
(* Results.                                                                *)

\* The types, for any calls: the hops in particular stay below net/http's limit.
THEOREM TypeCorrect == Spec => []TypeOK
<1>1. Inv => TypeOK
  BY DEF Inv
<1>. QED BY <1>1, Always, SdkClientAssumption, PTL

\* No call is carried out twice: neither post, get nor do sends a write again, and
\* net/http repeats only a GET, whatever is redirected, lost or late.
THEOREM CarriedOutAtMostOnce == Spec => []AtMostOnce
<1>1. Inv => AtMostOnce
  BY DEF Inv, AtMostOnce, CallInv, Once
<1>. QED BY <1>1, Always, SdkClientAssumption, PTL

\* Any number of calls with one challenge make one instance and at most one of them is
\* told so by the authority, because enrollmentProof names every proof for its challenge.
THEOREM OneInstancePerChallenge == Spec => []OneEnrollmentPerChallenge
<1>1. Inv => OneEnrollmentPerChallenge
  <2>. SUFFICES ASSUME Inv, NEW c \in Call, NEW d \in Call,
                       Enrolls(c), Enrolls(d), challenge[c] = challenge[d],
                       done[c] > 0, done[d] > 0 \/ (stage[d] = "ok" /\ ~Astray(d))
                PROVE  c = d
    BY DEF OneEnrollmentPerChallenge
  <2>1. done[d] > 0
    <3>1. method[d] \in Method /\ Recorded(d)
      BY DEF Inv, TypeOK, CallInv
    <3>2. Writes(d)
      BY <3>1, CompletionPosts DEF Enrolls, Writes
    <3>. QED BY <3>1, <3>2 DEF Recorded
  <2>. QED BY <2>1 DEF Inv, EnrolledOnce
<1>. QED BY <1>1, Always, SdkClientAssumption, PTL

\* A proof is refused as used only when another call with that challenge was sent:
\* wherever redirects lead a call, its own proof is looked at once, and asking for a
\* token again is never refused for that (tokenProof, enrollmentProof).
THEOREM RefusedOnlyForAnother == Spec => []SpentByAnother
<1>1. Init => UsedInv /\ SpentByAnother
  <2>1. NoExchange.answer = "none"
    BY DEF NoExchange
  <2>2. Init => \A c \in Call : exchange[c].answer = "none"
    BY <2>1 DEF Init
  <2>. QED BY <2>2 DEF Init, UsedInv, SpentByAnother
<1>. QED BY <1>1, NextSpent, Always, SdkClientAssumption, PTL DEF Spec

\* No error means that it was done, unless a redirect led the call astray: the write a
\* caller was told of was carried out, once (post, do).
THEOREM SuccessIsTrue == Spec => []SuccessMeansDone
<1>1. Inv => SuccessMeansDone
  BY DEF Inv, CallInv, Recorded, SuccessMeansDone
<1>. QED BY <1>1, Always, SdkClientAssumption, PTL

-----------------------------------------------------------------------------
(* SdkClient implements RemoteCall.                                        *)

\* Only a redirect that is followed leads a call astray, or back.
LEMMA SameWay ==
    ASSUME NEW c \in Call, method' = method, \A d \in Call \ {c} : exchange'[d] = exchange[d],
           exchange[c].at # "none" /\ exchange'[c].at # "none",
           exchange'[c].verb = exchange[c].verb /\ exchange'[c].place = exchange[c].place
    PROVE  [d \in Call |-> Astray(d)]' = [d \in Call |-> Astray(d)]
<1>1. \A d \in Call : Astray(d)' = Astray(d)
  BY DEF Astray
<1>. QED BY <1>1

LEMMA AnsweredWay ==
    ASSUME TypeOK, NEW c \in Call, NEW a \in Answer, Arrived(c, a), exchange[c].at = "request", method' = method
    PROVE  [d \in Call |-> Astray(d)]' = [d \in Call |-> Astray(d)]
BY ArrivedFields, SameWay

LEMMA AuthorityStep ==
    ASSUME SdkClientAssumption, Inv, NEW c \in Call, Authority(c)
    PROVE  [Calls!Next]_Calls!vars
<1>. TypeOK
  BY DEF Inv
<1>0. method' = method /\ stage' = stage /\ [d \in Call |-> Writes(d)]' = [d \in Call |-> Writes(d)]
  BY DEF Authority, Perform, RefuseSpent, Read, AnswerElsewhere, Refuse, Redirect, Break, Writes
<1>1. ASSUME Perform(c) PROVE Calls!CarryOut(c)
  <2>1. /\ exchange[c].at = "request" /\ exchange[c].verb = "POST" /\ exchange[c].place = "home"
        /\ done' = [done EXCEPT ![c] = done[c] + 1]
    BY <1>1 DEF Perform
  <2>2. Writes(c) /\ done[c] = 0 /\ ~Astray(c)
    BY <2>1 DEF Inv, CallInv, Sent, Once, Pending, Writes, Astray
  <2>3. stage[c] \in {"waiting", "error"}
    BY <2>1, ExchangeFields DEF Inv, CallInv, Sent, Stage
  <2>4. PICK a \in {"own", "cut", "refused"} \cup (Redirects \ Again) : Arrived(c, a)
    BY <1>1 DEF Perform
  <2>5. [d \in Call |-> Astray(d)]' = [d \in Call |-> Astray(d)]
    BY <1>0, <2>1, <2>4, AnsweredWay DEF Answer
  <2>. QED BY <1>0, <2>1, <2>2, <2>3, <2>5 DEF Calls!CarryOut
<1>2. ASSUME ~Perform(c) PROVE UNCHANGED Calls!vars
  <2>1. done' = done
    BY <1>2 DEF Authority, RefuseSpent, Read, AnswerElsewhere, Refuse, Redirect, Break
  <2>2. CASE Break(c)
    <3>1. "none" \in Answer
      BY DEF Answer
    <3>2. [d \in Call |-> Astray(d)]' = [d \in Call |-> Astray(d)]
      BY <1>0, <2>2, <3>1, AnsweredFields, SameWay DEF Break
    <3>. QED BY <1>0, <2>1, <3>2 DEF Calls!vars
  <2>3. CASE ~Break(c)
    <3>1. exchange[c].at = "request" /\ \E a \in Answer : Arrived(c, a)
      BY <1>2, <2>3 DEF Authority, RefuseSpent, Presents, Read, AnswerElsewhere, Refuse, Redirect, Answer
    <3>2. [d \in Call |-> Astray(d)]' = [d \in Call |-> Astray(d)]
      BY <1>0, <3>1, AnsweredWay
    <3>. QED BY <1>0, <2>1, <3>2 DEF Calls!vars
  <2>. QED BY <2>2, <2>3
<1>. QED BY <1>1, <1>2 DEF Calls!Next

LEMMA ClientStep ==
    ASSUME SdkClientAssumption, Inv, NEW c \in Call, Client(c)
    PROVE  [Calls!Next]_Calls!vars
<1>. TypeOK /\ CallInv(c)
  BY DEF Inv
<1>0. method' = method /\ done' = done /\ [d \in Call |-> Writes(d)]' = [d \in Call |-> Writes(d)]
  BY DEF Client, Begin, BeginFails, Repeat, Follow, Succeed, Fail, GiveUp, Return, Writes
<1>1. ASSUME Begin(c) PROVE Calls!Invoke(c)
  <2>1. method[c].verb \in {"GET", "POST"} /\ 0 \in 0 .. MaxRedirects
    BY MethodVerbs DEF TypeOK, SdkClientAssumption
  <2>2. /\ exchange'[c].verb = method[c].verb /\ exchange'[c].place = "home"
        /\ \A d \in Call \ {c} : exchange'[d] = exchange[d]
    BY <1>1, <2>1, RequestFields DEF Begin
  <2>3. exchange[c].at = "none"
    BY <1>1 DEF Begin, CallInv, Sent
  <2>4. \A d \in Call : Astray(d)' = Astray(d)
    BY <1>0, <2>2, <2>3 DEF Astray
  <2>5. [d \in Call |-> Astray(d)]' = [d \in Call |-> Astray(d)]
    BY <2>4
  <2>. QED BY <1>0, <1>1, <2>5 DEF Begin, Calls!Invoke
<1>2. ASSUME BeginFails(c) \/ Succeed(c) \/ Fail(c) \/ GiveUp(c)
      PROVE  [d \in Call |-> Astray(d)]' = [d \in Call |-> Astray(d)]
  <2>1. exchange' = exchange
    BY <1>2 DEF BeginFails, Succeed, Fail, GiveUp
  <2>. QED BY <1>0, <2>1 DEF Astray
<1>3. ASSUME BeginFails(c) PROVE Calls!Invoke(c)
  BY <1>0, <1>2, <1>3 DEF BeginFails, Calls!Invoke
<1>4. ASSUME Repeat(c) PROVE UNCHANGED Calls!vars
  <2>1. /\ exchange[c].at # "none" /\ exchange[c].verb = "GET" /\ exchange[c].place \in {"home", "elsewhere"}
        /\ exchange[c].hops \in 0 .. MaxRedirects
    BY <1>4, ExchangeFields DEF Repeat, CallInv, Sent
  <2>2. exchange' = [exchange EXCEPT ![c] = Request(exchange[c].verb, exchange[c].place, exchange[c].hops)]
    BY <1>4 DEF Repeat
  <2>3. [d \in Call |-> Astray(d)]' = [d \in Call |-> Astray(d)]
    <3>1. /\ exchange'[c].at = "request" /\ exchange'[c].verb = exchange[c].verb
          /\ exchange'[c].place = exchange[c].place /\ \A d \in Call \ {c} : exchange'[d] = exchange[d]
      BY <2>1, <2>2, RequestFields
    <3>. QED BY <1>0, <2>1, <3>1, SameWay
  <2>. QED BY <1>0, <1>4, <2>3 DEF Repeat, Calls!vars
<1>5. ASSUME Follow(c) PROVE Calls!Redirected(c)
  <2>1. \A d \in Call \ {c} : exchange'[d] = exchange[d]
    BY <1>5 DEF Follow, TypeOK
  <2>2. \A d \in Call \ {c} : Astray(d)' = Astray(d)
    BY <1>0, <2>1 DEF Astray
  <2>3. Astray(c)' \in BOOLEAN
    BY DEF Astray
  <2>4. [d \in Call |-> Astray(d)]' = [[d \in Call |-> Astray(d)] EXCEPT ![c] = Astray(c)']
    BY <2>2
  <2>5. stage[c] = "waiting" /\ stage' = stage
    BY <1>5 DEF Follow, HasAnswer
  <2>6. \E a \in BOOLEAN : [d \in Call |-> Astray(d)]' = [[d \in Call |-> Astray(d)] EXCEPT ![c] = a]
    BY <2>3, <2>4, Zenon
  <2>. QED BY <1>0, <2>5, <2>6 DEF Calls!Redirected
<1>6. ASSUME Succeed(c) PROVE Calls!Succeed(c)
  <2>1. /\ stage[c] = "waiting" /\ exchange[c].at = "answer" /\ exchange[c].answer \in {"own", "foreign"}
        /\ stage' = [stage EXCEPT ![c] = "ok"]
    BY <1>6 DEF Succeed, HasAnswer, Return
  <2>2. Writes(c) /\ ~Astray(c) => done[c] = 1
    BY <2>1 DEF CallInv, Sent, Answers, Writes, Astray
  <2>. QED BY <1>0, <1>2, <1>6, <2>1, <2>2 DEF Calls!Succeed
<1>7. ASSUME Fail(c) \/ GiveUp(c) PROVE Calls!Fail(c)
  BY <1>0, <1>2, <1>7 DEF Fail, GiveUp, HasAnswer, Return, Calls!Fail
<1>. QED BY <1>1, <1>3, <1>4, <1>5, <1>6, <1>7 DEF Client, Calls!Next

\* The SDKs' calls implement RemoteCall, whatever is redirected and wherever to: every
\* step of a call, of the network or of the authority is one of RemoteCall or changes
\* nothing a caller can tell (post, get, do).
THEOREM ImplementsCalls == Spec => ImplementsRemoteCall
<1>1. Init => Calls!Init
  <2>. SUFFICES ASSUME Init PROVE Calls!Init
    OBVIOUS
  <2>1. \A c \in Call : Astray(c) = FALSE
    BY DEF Init, Astray, NoExchange
  <2>2. [c \in Call |-> Astray(c)] = [c \in Call |-> FALSE]
    BY <2>1
  <2>. QED BY <2>2 DEF Init, Calls!Init, Writes
<1>2. SdkClientAssumption /\ Inv /\ [Next]_vars => [Calls!Next]_Calls!vars
  <2>. SUFFICES ASSUME SdkClientAssumption, Inv, [Next]_vars PROVE [Calls!Next]_Calls!vars
    OBVIOUS
  <2>1. CASE Next
    BY <2>1, ClientStep, AuthorityStep DEF Next
  <2>2. CASE UNCHANGED vars
    BY <2>2 DEF vars, Calls!vars, Writes, Astray
  <2>. QED BY <2>1, <2>2
<1>. QED BY <1>1, <1>2, Always, SdkClientAssumption, PTL DEF Spec, Calls!Spec, ImplementsRemoteCall
=============================================================================

---------------------------- MODULE AnswersProofs ----------------------------
(***************************************************************************)
(* What other systems answer, for any constants the models allow.           *)
(* Enrichment: a result of enrich is guarded, and the summary of an         *)
(* evaluation adds up.  Adapters: an outcome tells the truth about the      *)
(* answers of its execution.                                                *)
(***************************************************************************)
EXTENDS Adapters, Enrichment, FiniteSetTheorems, TLAPS

TallyType ==
  /\ tally \in [completed : Nat, failures : Nat, types : Nat,
                checks : Nat, found : Nat, reviews : Nat]
  /\ at \in 0 .. Len(Case)

(* The outcome of the last call is what enrich makes of the last answer.   *)
CallIsEnrich ==
  \/ call.outcome = Rejected
  \/ /\ answer \in ModelAnswer /\ call.threshold \in Int
     /\ call.outcome = Enriched(answer, call.threshold)

IInv == TallyType /\ RatesAreFractions /\ CallIsEnrich

(* Required fields that were found are required fields.                    *)
LEMMA FoundAreRequired ==
  ASSUME NEW R \in SUBSET Field, NEW F
  PROVE  /\ Cardinality(R) \in Nat /\ Cardinality(R \cap F) \in Nat
         /\ Cardinality(R \cap F) <= Cardinality(R)
<1>1. IsFiniteSet(R) /\ IsFiniteSet(R \cap F)
  BY EnrichmentAssumption, FS_Subset DEF EnrichmentAssumption
<1> QED
  BY <1>1, FS_CardinalityType, FS_Subset

(* A result comes from a well-formed answer of a configured model only.    *)
LEMMA OutcomeIsGuarded ==
  ASSUME NEW a \in ModelAnswer, NEW th \in Int, Enriched(a, th).kind = "result"
  PROVE  /\ Configured /\ a.form = "number" /\ a.confidence \in 0 .. 100
         /\ Enriched(a, th) = Result(a, th) /\ a.type \in DocumentType
<1>1. Configured /\ Exception(a) = "none" /\ Valid(a) /\ Enriched(a, th) = Result(a, th)
  <2>1. CASE ~Configured \/ Exception(a) \in Converted
    BY <2>1 DEF Enriched, Rejected
  <2>2. CASE ~(~Configured \/ Exception(a) \in Converted) /\ Exception(a) # "none"
    <3>1. Exception(a) # "result"
      BY DEF Exception
    <3> QED
      BY <2>2, <3>1 DEF Enriched, Raised
  <2>3. CASE ~(~Configured \/ Exception(a) \in Converted) /\ Exception(a) = "none"
    BY <2>3 DEF Enriched, Rejected
  <2> QED
    BY <2>1, <2>2, <2>3
<1>2. a.shape = "object" /\ a.form = "number" /\ a.type # "absent"
  BY <1>1 DEF Exception, ModelAnswer, Broken, Object
<1> QED
  BY <1>1, <1>2, EnrichmentAssumption DEF EnrichmentAssumption, Valid, ModelAnswer, Broken, Object

LEMMA ElementOf ==
  ASSUME NEW S, NEW s \in Seq(S)
  PROVE  Len(s) \in Nat /\ \A i \in 1 .. Len(s) : s[i] \in S
OBVIOUS

LEMMA CaseLength ==
  /\ Len(Case) \in Nat
  /\ \A i \in 1 .. Len(Case) : Case[i].required \in SUBSET Field
<1>1. Case \in Seq([expected : DocumentType, required : SUBSET Field])
  BY EnrichmentAssumption DEF EnrichmentAssumption
<1>2. /\ Len(Case) \in Nat
      /\ \A i \in 1 .. Len(Case) : Case[i] \in [expected : DocumentType, required : SUBSET Field]
  BY <1>1, ElementOf
<1> QED
  BY <1>2

LEMMA InitHolds == EnrichmentInit => IInv
<1> SUFFICES ASSUME EnrichmentInit PROVE IInv
  OBVIOUS
<1>1. Len(Case) \in Nat
  BY CaseLength
<1>2. TallyType /\ RatesAreFractions
  BY <1>1 DEF EnrichmentInit, TallyType, NoTally, RatesAreFractions
<1>3. CallIsEnrich
  BY DEF EnrichmentInit, CallIsEnrich
<1> QED
  BY <1>2, <1>3 DEF IInv

LEMMA EnrichKeeps ==
  ASSUME NEW th \in Int, Enrich(th)
  PROVE  CallIsEnrich'
BY DEF Enrich, CallIsEnrich

-----------------------------------------------------------------------------
Tally == [completed : Nat, failures : Nat, types : Nat, checks : Nat, found : Nat, reviews : Nat]

(* What a case adds keeps the inequalities.                                *)
LEMMA Sums ==
  ASSUME NEW c \in Nat, NEW f \in Nat, NEW ty \in Nat, NEW ch \in Nat, NEW fo \in Nat,
         NEW re \in Nat, NEW n \in Nat, NEW dt \in 0 .. 1, NEW dr \in 0 .. 1,
         NEW req \in Nat, NEW fnd \in Nat, fnd <= req,
         c + f = n, ty <= c, re <= c, fo <= ch
  PROVE  /\ c + 1 \in Nat /\ ty + dt \in Nat /\ ch + req \in Nat
         /\ fo + fnd \in Nat /\ re + dr \in Nat
         /\ (c + 1) + f = n + 1 /\ ty + dt <= c + 1 /\ re + dr <= c + 1
         /\ fo + fnd <= ch + req
OBVIOUS

(* A case with a result adds to the counters what they can bear.           *)
LEMMA Added ==
  ASSUME NEW t \in Tally, NEW ty \in 0 .. 1, NEW rev \in 0 .. 1,
         NEW req \in Nat, NEW fnd \in Nat, fnd <= req,
         NEW n \in Nat, t.completed + t.failures = n, t.types <= t.completed,
         t.reviews <= t.completed, t.found <= t.checks,
         NEW u, u = [completed |-> t.completed + 1, failures |-> t.failures,
                     types |-> t.types + ty, checks |-> t.checks + req,
                     found |-> t.found + fnd, reviews |-> t.reviews + rev]
  PROVE  /\ u \in Tally
         /\ u.completed + u.failures = n + 1
         /\ u.types <= u.completed /\ u.reviews <= u.completed /\ u.found <= u.checks
<1>1. /\ t.completed \in Nat /\ t.failures \in Nat /\ t.types \in Nat
      /\ t.checks \in Nat /\ t.found \in Nat /\ t.reviews \in Nat
  BY DEF Tally
<1>2. /\ u.completed = t.completed + 1 /\ u.failures = t.failures
      /\ u.types = t.types + ty /\ u.checks = t.checks + req
      /\ u.found = t.found + fnd /\ u.reviews = t.reviews + rev
  BY Zenon
<1>3. /\ t.completed + 1 \in Nat /\ t.types + ty \in Nat /\ t.checks + req \in Nat
      /\ t.found + fnd \in Nat /\ t.reviews + rev \in Nat
      /\ (t.completed + 1) + t.failures = n + 1 /\ t.types + ty <= t.completed + 1
      /\ t.reviews + rev <= t.completed + 1 /\ t.found + fnd <= t.checks + req
  BY <1>1, Sums
<1>4. u \in Tally
  BY <1>1, <1>3, Zenon DEF Tally
<1> QED
  BY <1>2, <1>3, <1>4, Zenon

(* A case with a result adds to both sides of every inequality alike.      *)
LEMMA CountKeeps ==
  ASSUME IInv, state = "evaluating", at < Len(Case),
         NEW r, tally' = Count(tally, Case[at + 1], r),
         at' = at + 1, UNCHANGED state
  PROVE  TallyType' /\ RatesAreFractions'
<1>0. PICK c : c = Case[at + 1]
  OBVIOUS
<1>1. c.required \in SUBSET Field
  BY <1>0, CaseLength DEF IInv, TallyType
<1>2. PICK req, fnd : req = Cardinality(c.required) /\ fnd = Cardinality(c.required \cap r.fields)
  OBVIOUS
<1>3. req \in Nat /\ fnd \in Nat /\ fnd <= req
  BY <1>1, <1>2, FoundAreRequired
<1>4. PICK ty \in 0 .. 1, rev \in 0 .. 1 : /\ ty = IF r.type = c.expected THEN 1 ELSE 0
                                       /\ rev = IF r.review THEN 1 ELSE 0
  OBVIOUS
<1>5. PICK t, u, n : t \in Tally /\ n \in Nat /\ t = tally /\ u = tally' /\ n = at
  <2>1. tally \in Tally
    BY DEF IInv, TallyType, Tally
  <2>2. at \in Nat
    BY CaseLength DEF IInv, TallyType
  <2> QED
    BY <2>1, <2>2, Zenon
<1>6. u = [completed |-> t.completed + 1, failures |-> t.failures,
           types |-> t.types + ty, checks |-> t.checks + req,
           found |-> t.found + fnd, reviews |-> t.reviews + rev]
  BY <1>0, <1>2, <1>4, <1>5, Zenon DEF Count
<1>7. /\ t.completed + t.failures = n /\ t.types <= t.completed
      /\ t.reviews <= t.completed /\ t.found <= t.checks
  BY <1>5 DEF IInv, RatesAreFractions
<1>8. /\ u \in Tally
      /\ u.completed + u.failures = n + 1
      /\ u.types <= u.completed /\ u.reviews <= u.completed /\ u.found <= u.checks
  BY <1>3, <1>5, <1>6, <1>7, Added
<1>9. at' \in 0 .. Len(Case)
  BY CaseLength DEF IInv, TallyType
<1>10. TallyType'
  BY <1>5, <1>8, <1>9 DEF TallyType, Tally
<1>11. state' # "summary" /\ at' = n + 1
  BY <1>5
<1>12. RatesAreFractions'
  BY <1>5, <1>8, <1>11 DEF RatesAreFractions
<1> QED
  BY <1>10, <1>12

LEMMA EvaluateKeeps == IInv /\ Evaluate => IInv'
<1> SUFFICES ASSUME IInv, Evaluate PROVE IInv'
  OBVIOUS
<1>1. DefaultThreshold \in Int /\ Enrich(DefaultThreshold)
  BY DEF Evaluate, DefaultThreshold
<1>2. CallIsEnrich'
  BY <1>1, EnrichKeeps
<1>3. /\ answer' \in ModelAnswer /\ call'.outcome = Enriched(answer', DefaultThreshold)
      /\ state = "evaluating" /\ at < Len(Case)
  BY <1>1 DEF Enrich, Evaluate
<1>4. TallyType' /\ RatesAreFractions'
  <2>1. CASE call'.outcome.kind = "result"
    <3>1. /\ at' = at + 1 /\ UNCHANGED state
          /\ tally' = Count(tally, Case[at + 1], call'.outcome)
      BY <2>1 DEF Evaluate
    <3>2. PICK r : r = call'.outcome
      OBVIOUS
    <3>3. tally' = Count(tally, Case[at + 1], r)
      BY <3>1, <3>2
    <3> QED
      BY <3>1, <3>3, <1>3, CountKeeps
  <2>2. CASE call'.outcome.kind = "EnrichmentError"
    <3>1. at' = at + 1 /\ UNCHANGED state /\ tally' = CountFailure(tally)
      BY <2>2 DEF Evaluate
    <3> QED
      BY <3>1, <1>3, SMTT(30) DEF IInv, TallyType, RatesAreFractions, CountFailure
  <2>3. CASE call'.outcome.kind \notin {"result", "EnrichmentError"}
    <3>1. state' = "aborted" /\ UNCHANGED <<at, tally>>
      BY <2>3 DEF Evaluate
    <3> QED
      BY <3>1 DEF IInv, TallyType, RatesAreFractions
  <2> QED
    BY <2>1, <2>2, <2>3
<1> QED
  BY <1>2, <1>4 DEF IInv

LEMMA StepKeeps == IInv /\ [EnrichmentNext]_enrichmentVars => IInv'
<1> SUFFICES ASSUME IInv, [EnrichmentNext]_enrichmentVars PROVE IInv'
  OBVIOUS
<1>1. CASE UNCHANGED enrichmentVars
  BY <1>1 DEF enrichmentVars, IInv, TallyType, RatesAreFractions, CallIsEnrich
<1>2. CASE Ask
  <2>1. PICK th \in Threshold : Enrich(th)
    BY <1>2 DEF Ask
  <2>2. CallIsEnrich'
    BY <2>1, EnrichKeeps, EnrichmentAssumption DEF EnrichmentAssumption
  <2>3. TallyType' /\ RatesAreFractions'
    BY <1>2 DEF Ask, IInv, TallyType, RatesAreFractions
  <2> QED
    BY <2>2, <2>3 DEF IInv
<1>3. CASE Evaluate
  BY <1>3, EvaluateKeeps
<1>4. CASE Summarise
  BY <1>4 DEF Summarise, IInv, TallyType, RatesAreFractions, CallIsEnrich
<1> QED
  BY <1>1, <1>2, <1>3, <1>4 DEF EnrichmentNext

LEMMA Guarded == CallIsEnrich => ResultsAreGuarded
<1> SUFFICES ASSUME CallIsEnrich, call.outcome.kind = "result"
             PROVE  ResultsAreGuarded
  BY DEF ResultsAreGuarded
<1>1. /\ answer \in ModelAnswer /\ call.threshold \in Int
      /\ call.outcome = Enriched(answer, call.threshold)
  BY DEF CallIsEnrich, Rejected
<1>2. /\ Configured /\ answer.form = "number" /\ answer.confidence \in 0 .. 100
      /\ call.outcome = Result(answer, call.threshold) /\ answer.type \in DocumentType
  BY <1>1, OutcomeIsGuarded
<1>3. call.outcome.type \in DocumentType /\ call.outcome.confidence \in 0 .. 100
  BY <1>2 DEF Result
<1>4. call.outcome.review <=> answer.confidence < call.threshold
  <2>1. Result(answer, call.threshold).review <=> answer.confidence < call.threshold
    BY Zenon DEF Result
  <2> QED
    BY <1>2, <2>1, Zenon
<1> QED
  BY <1>2, <1>3, <1>4 DEF ResultsAreGuarded

(* enrich fails closed: a result comes from a configured model and a       *)
(* well-formed answer.                                                     *)
THEOREM EnrichmentIsGuarded == EnrichmentSpec => []ResultsAreGuarded
<1>1. IInv => ResultsAreGuarded
  BY Guarded DEF IInv
<1> QED
  BY <1>1, InitHolds, StepKeeps, PTL DEF EnrichmentSpec

(* main's summary counts every case once, and its rates are fractions.     *)
THEOREM SummaryAddsUp == EnrichmentSpec => []RatesAreFractions
<1>1. IInv => RatesAreFractions
  BY DEF IInv
<1> QED
  BY <1>1, InitHolds, StepKeeps, PTL DEF EnrichmentSpec

-----------------------------------------------------------------------------
(* Adapters: what an execution that waits for an answer has received.      *)
Awaited ==
  /\ stage \in {"token", "target", "gateway"} => answers = <<>>
  /\ stage = "jobs" => answers = << <<"token", "accepted">> >>
  /\ stage # "ready" => effects < executions

AdaptersInv ==
  /\ TypeOK /\ Awaited
  /\ OutcomeIsTruthful /\ JobNeedsToken /\ EffectPerExecution

Reply == {"throttled", "refused", "unreachable", "unusable", "accepted"}

LEMMA NoHeaderIsOne == NoHeader \in RetryAfter
BY DEF NoHeader, RetryAfter

LEMMA AdaptersInit == Init => AdaptersInv
BY NoHeaderIsOne, AdaptersAssumption DEF AdaptersAssumption, Init, AdaptersInv, TypeOK, Awaited,
   Outcome, OutcomeIsTruthful, JobNeedsToken, EffectPerExecution

(* An appended answer is the last, and leaves the earlier ones as they are.*)
LEMMA LastOfAppended ==
  ASSUME NEW S, NEW s \in Seq(S), NEW e \in S, NEW t, t = Append(s, e)
  PROVE  /\ t \in Seq(S) /\ Len(t) = Len(s) + 1 /\ t[Len(t)] = e /\ t # <<>>
         /\ DOMAIN t = 1 .. Len(s) + 1
         /\ \A i \in 1 .. Len(s) : t[i] = s[i]
OBVIOUS

(* An answer of an endpoint: it is the last one, a job's is the second and *)
(* follows the token, and the work was done at most as often as asked for. *)
LEMMA AnswerExtends ==
  ASSUME AdaptersInv, NEW a \in Reply, NEW h, NEW done \in BOOLEAN,
         Answer(a, h, done)
  PROVE  /\ answers' \in Seq(Endpoints \X Reply) /\ answers' # <<>>
         /\ LastAnswer' = <<stage, a>> /\ asked' = h
         /\ stage \in Endpoints
         /\ JobNeedsToken'
         /\ effects' \in Nat /\ effects' <= executions'
         /\ executions' \in 0 .. MaxExecutions
         /\ (stage = "token" => effects' < executions')
         /\ (done => effects' > 0)
<1>1. /\ answers \in Seq(Endpoints \X Reply) /\ stage \in Endpoints
      /\ effects \in Nat /\ executions \in 0 .. MaxExecutions /\ effects < executions
  BY DEF AdaptersInv, TypeOK, Awaited, Answer, Reply
<1>2. /\ answers' = Append(answers, <<stage, a>>) /\ executions' = executions
      /\ asked' = h
      /\ effects' = effects + (IF done THEN 1 ELSE 0) /\ (done => stage # "token")
  BY DEF Answer
<1>3. <<stage, a>> \in Endpoints \X Reply
  BY <1>1
<1>4. /\ answers' \in Seq(Endpoints \X Reply) /\ Len(answers') = Len(answers) + 1
      /\ answers'[Len(answers')] = <<stage, a>> /\ answers' # <<>>
      /\ DOMAIN answers' = 1 .. Len(answers) + 1
      /\ \A i \in 1 .. Len(answers) : answers'[i] = answers[i]
  BY <1>1, <1>2, <1>3, LastOfAppended
<1>5. JobNeedsToken'
  <2>1. CASE stage = "jobs"
    <3>1. answers = << <<"token", "accepted">> >>
      BY <2>1 DEF AdaptersInv, Awaited
    <3>2. Len(answers) = 1 /\ answers[1] = <<"token", "accepted">>
      BY <3>1
    <3> QED
      BY <1>4, <3>2 DEF JobNeedsToken
  <2>2. CASE stage # "jobs"
    <3>1. answers = <<>>
      BY <1>1, <2>2 DEF AdaptersInv, Awaited, Endpoints
    <3>2. Len(answers) = 0
      BY <3>1
    <3> QED
      BY <1>4, <2>2, <3>2 DEF JobNeedsToken
  <2> QED
    BY <2>1, <2>2
<1> QED
  BY <1>1, <1>2, <1>4, <1>5, AdaptersAssumption DEF LastAnswer, AdaptersAssumption

(* An execution that ends is truthful if its kind fits its last answer.    *)
LEMMA EndKeeps ==
  ASSUME AdaptersInv, NEW a \in Reply, NEW h \in RetryAfter,
         NEW done \in BOOLEAN, Answer(a, h, done),
         NEW kind \in {"returned", "retryable", "adapter", "other"},
         NEW hint \in Nat \cup {NoHint}, End(kind, hint),
         kind = "returned" => stage # "token" /\ a = "accepted" /\ done,
         kind = "retryable" => a = "throttled" /\ HintFits(h, hint),
         a = "throttled" /\ Convertible(h) => kind = "retryable"
  PROVE  AdaptersInv'
<1>1. /\ answers' \in Seq(Endpoints \X Reply) /\ answers' # <<>>
      /\ LastAnswer' = <<stage, a>> /\ asked' = h /\ stage \in Endpoints
      /\ JobNeedsToken'
      /\ effects' \in Nat /\ effects' <= executions'
      /\ executions' \in 0 .. MaxExecutions
      /\ (done => effects' > 0)
  BY AnswerExtends
<1>2. stage' = "ready" /\ outcome'.kind = kind /\ outcome'.hint = hint
  BY DEF End, Outcome
<1>3. channel' \in Channels
  BY DEF AdaptersInv, TypeOK, Answer
<1>4. TypeOK'
  BY <1>1, <1>2, <1>3 DEF TypeOK, Reply
<1>5. Awaited'
  BY <1>2 DEF Awaited
<1>6. LastAnswer'[2] = a
  BY <1>1
<1>7. kind = "returned" => LastAnswer' \in {"target", "gateway", "jobs"} \X {"accepted"}
  BY <1>1 DEF Endpoints
<1>8. OutcomeIsTruthful'
  BY <1>1, <1>2, <1>6, <1>7 DEF OutcomeIsTruthful
<1> QED
  BY <1>1, <1>4, <1>5, <1>8 DEF AdaptersInv, EffectPerExecution

LEMMA SubmitKeeps == AdaptersInv /\ Submit => AdaptersInv'
<1> SUFFICES ASSUME AdaptersInv, Submit PROVE AdaptersInv'
  OBVIOUS
<1>1. /\ executions' = executions + 1 /\ executions' <= MaxExecutions /\ answers' = <<>>
      /\ channel' = channel /\ effects' = effects /\ asked' = NoHeader
      /\ stage' = FirstEndpoint[channel] /\ outcome' = Outcome("none", NoHint)
  BY AdaptersAssumption DEF Submit, Execute, AdaptersInv, TypeOK, AdaptersAssumption
<1>2. /\ channel \in Channels /\ effects \in Nat /\ executions \in Nat
      /\ effects <= executions
  BY DEF AdaptersInv, TypeOK, EffectPerExecution
<1>3. stage' \in {"token", "target", "gateway"}
  BY <1>1, <1>2, AdaptersAssumption DEF AdaptersAssumption, FirstEndpoint
<1>4. outcome'.kind = "none" /\ outcome'.hint = NoHint
  BY <1>1 DEF Outcome
<1>5. TypeOK'
  BY <1>1, <1>2, <1>3, <1>4, NoHeaderIsOne, AdaptersAssumption DEF TypeOK, Endpoints, AdaptersAssumption
<1>6. Awaited' /\ EffectPerExecution'
  BY <1>1, <1>2, <1>3 DEF Awaited, EffectPerExecution
<1>7. OutcomeIsTruthful' /\ JobNeedsToken'
  BY <1>1, <1>3 DEF OutcomeIsTruthful, JobNeedsToken
<1> QED
  BY <1>5, <1>6, <1>7 DEF AdaptersInv

LEMMA NotConfiguredKeeps == AdaptersInv /\ NotConfigured => AdaptersInv'
<1> SUFFICES ASSUME AdaptersInv, NotConfigured PROVE AdaptersInv'
  OBVIOUS
<1>1. /\ executions' = executions + 1 /\ executions' <= MaxExecutions /\ answers' = <<>>
      /\ channel' = channel /\ effects' = effects /\ asked' = NoHeader
      /\ stage' = "ready"
  BY AdaptersAssumption DEF NotConfigured, Execute, AdaptersInv, TypeOK, AdaptersAssumption
<1>2. /\ channel \in Channels /\ effects \in Nat /\ executions \in Nat
      /\ effects <= executions
  BY DEF AdaptersInv, TypeOK, EffectPerExecution
<1>3. outcome'.kind \in {"configuration", "other"} /\ outcome'.hint = NoHint
  BY DEF NotConfigured, Outcome
<1>4. TypeOK'
  BY <1>1, <1>2, <1>3, NoHeaderIsOne, AdaptersAssumption DEF TypeOK, AdaptersAssumption
<1>5. Awaited' /\ EffectPerExecution'
  BY <1>1, <1>2 DEF Awaited, EffectPerExecution
<1>6. OutcomeIsTruthful' /\ JobNeedsToken'
  BY <1>1, <1>3 DEF OutcomeIsTruthful, JobNeedsToken
<1> QED
  BY <1>4, <1>5, <1>6 DEF AdaptersInv

(* The client refuses to build a call: the execution ends, and what it has *)
(* received so far is what it ends with.                                   *)
LEMMA NotSentKeeps == AdaptersInv /\ NotSent => AdaptersInv'
<1> SUFFICES ASSUME AdaptersInv, NotSent PROVE AdaptersInv'
  OBVIOUS
<1>1. PICK kind \in {"adapter", "other"} : End(kind, NoHint)
  BY DEF NotSent
<1>2. /\ stage # "ready" /\ stage' = "ready"
      /\ outcome'.kind = kind /\ outcome'.hint = NoHint
      /\ UNCHANGED <<channel, answers, asked, executions, effects>>
  BY <1>1 DEF NotSent, End, Outcome
<1>3. TypeOK'
  BY <1>2 DEF AdaptersInv, TypeOK
<1>4. Awaited' /\ JobNeedsToken' /\ EffectPerExecution'
  BY <1>2 DEF AdaptersInv, Awaited, JobNeedsToken, EffectPerExecution
<1>5. answers # <<>> => LastAnswer' # <<stage, "throttled">> /\ LastAnswer'[2] # "throttled"
  <2>1. CASE stage = "jobs"
    <3>1. answers' = << <<"token", "accepted">> >>
      BY <1>2, <2>1 DEF AdaptersInv, Awaited
    <3>2. Len(answers') = 1 /\ answers'[1] = <<"token", "accepted">>
      BY <3>1
    <3> QED
      BY <3>2 DEF LastAnswer
  <2>2. CASE stage # "jobs"
    BY <1>2, <2>2 DEF AdaptersInv, TypeOK, Awaited, Endpoints
  <2> QED
    BY <2>1, <2>2
<1>6. OutcomeIsTruthful'
  BY <1>1, <1>2, <1>5 DEF OutcomeIsTruthful
<1> QED
  BY <1>3, <1>4, <1>6 DEF AdaptersInv

(* A usable Retry-After is a whole number of seconds that is not negative, *)
(* and the delay the header asks for.                                      *)
LEMMA HintIsKept ==
  ASSUME NEW h \in RetryAfter
  PROVE  /\ ParseRetryAfter(h) \in Nat \cup {NoHint}
         /\ Convertible(h) => HintFits(h, ParseRetryAfter(h))
<1>1. CASE h \in [form : {"seconds"}, value : Seconds]
  BY <1>1, AdaptersAssumption DEF AdaptersAssumption, ParseRetryAfter, HintFits
<1>2. CASE h \in [form : {"date"}, value : HalfSeconds]
  <2>1. h.form = "date" /\ h.value \in Int
    BY <1>2, AdaptersAssumption DEF AdaptersAssumption
  <2>2. h.value > 0 => h.value \div 2 \in Nat /\ h.value - 2 * (h.value \div 2) \in {0, 1}
    BY <2>1
  <2>3. ParseRetryAfter(h) = IF h.value > 0 THEN h.value \div 2 ELSE 0
    BY <2>1 DEF ParseRetryAfter
  <2> QED
    BY <2>1, <2>2, <2>3 DEF HintFits
<1>3. CASE h \in [form : {"absent", "malformed", "unconvertible"}, value : {0}]
  BY <1>3 DEF ParseRetryAfter, HintFits
<1> QED
  BY <1>1, <1>2, <1>3 DEF RetryAfter

LEMMA TokenIssuedKeeps == AdaptersInv /\ TokenIssued => AdaptersInv'
<1> SUFFICES ASSUME AdaptersInv, TokenIssued PROVE AdaptersInv'
  OBVIOUS
<1>1. /\ Answer("accepted", NoHeader, FALSE)
      /\ stage = "token" /\ stage' = "jobs" /\ outcome' = outcome
  BY DEF TokenIssued
<1>2. /\ answers' \in Seq(Endpoints \X Reply) /\ JobNeedsToken'
      /\ effects' \in Nat /\ effects' < executions'
      /\ executions' \in 0 .. MaxExecutions /\ asked' \in RetryAfter
  BY <1>1, AnswerExtends, NoHeaderIsOne DEF Reply
<1>3. answers' = << <<"token", "accepted">> >>
  <2>1. answers = <<>> /\ answers' = Append(answers, <<"token", "accepted">>)
    BY <1>1 DEF AdaptersInv, Awaited, Answer
  <2> QED
    BY <2>1
<1>4. TypeOK'
  BY <1>1, <1>2 DEF AdaptersInv, TypeOK, Answer, Reply, Endpoints
<1>5. Awaited' /\ OutcomeIsTruthful'
  BY <1>1, <1>2, <1>3 DEF Awaited, OutcomeIsTruthful
<1> QED
  BY <1>2, <1>4, <1>5, AdaptersAssumption
  DEF AdaptersInv, EffectPerExecution, AdaptersAssumption

LEMMA AdaptersKeep == AdaptersInv /\ [Next]_vars => AdaptersInv'
<1> SUFFICES ASSUME AdaptersInv, [Next]_vars PROVE AdaptersInv'
  OBVIOUS
<1>1. CASE UNCHANGED vars
  BY <1>1 DEF vars, AdaptersInv, TypeOK, Awaited, OutcomeIsTruthful, LastAnswer,
              JobNeedsToken, EffectPerExecution
<1>2. CASE Submit \/ NotConfigured \/ NotSent
  BY <1>2, SubmitKeeps, NotConfiguredKeeps, NotSentKeeps
<1>3. ASSUME NEW h \in RetryAfter, Throttled(h) PROVE AdaptersInv'
  <2>1. Answer("throttled", h, FALSE)
    BY <1>3 DEF Throttled
  <2>2. CASE Convertible(h)
    <3>1. PICK hint : hint = ParseRetryAfter(h)
      OBVIOUS
    <3>2. End("retryable", hint)
      BY <1>3, <2>2, <3>1 DEF Throttled
    <3>3. hint \in Nat \cup {NoHint} /\ HintFits(h, hint)
      BY <2>2, <3>1, HintIsKept
    <3> QED
      BY <2>1, <3>2, <3>3, EndKeeps DEF Reply
  <2>3. CASE ~Convertible(h)
    <3>1. PICK kind \in {"adapter", "other"} : End(kind, NoHint)
      BY <1>3, <2>3 DEF Throttled
    <3> QED
      BY <2>1, <2>3, <3>1, EndKeeps DEF Reply
  <2> QED
    BY <2>2, <2>3
<1>4. ASSUME NEW done \in BOOLEAN, Refused(done) \/ Unreachable(done) PROVE AdaptersInv'
  <2>1. PICK a \in {"refused", "unreachable"} :
          Answer(a, NoHeader, done) /\ End("adapter", NoHint)
    BY <1>4 DEF Refused, Unreachable
  <2> QED
    BY <2>1, EndKeeps, NoHeaderIsOne DEF Reply
<1>5. CASE TokenUnusable
  <2>1. PICK kind \in {"adapter", "other"} :
          Answer("unusable", NoHeader, FALSE) /\ End(kind, NoHint)
    BY <1>5 DEF TokenUnusable
  <2> QED
    BY <2>1, EndKeeps, NoHeaderIsOne DEF Reply
<1>6. CASE TokenIssued
  BY <1>6, TokenIssuedKeeps
<1>7. CASE Accepted
  <2>1. PICK kind \in {"returned", "other"} :
          stage # "token" /\ Answer("accepted", NoHeader, TRUE) /\ End(kind, NoHint)
    BY <1>7 DEF Accepted
  <2> QED
    BY <2>1, EndKeeps, NoHeaderIsOne DEF Reply
<1> QED
  BY <1>1, <1>2, <1>3, <1>4, <1>5, <1>6, <1>7 DEF Next

(* What execute() ends with is what the target said last: returned only    *)
(* after an accepted call that did the work; retryable only after a 429,   *)
(* with the delay its header asks for, and after each 429 whose header can *)
(* be converted; a configuration error only when nothing was sent.         *)
THEOREM OutcomesAreTruthful == Spec => []OutcomeIsTruthful
<1>1. AdaptersInv => OutcomeIsTruthful
  BY DEF AdaptersInv
<1> QED
  BY <1>1, AdaptersInit, AdaptersKeep, PTL DEF Spec

(* UiPathOrchestratorAdapter posts a job only under the token that the     *)
(* same execution was issued.                                              *)
THEOREM JobsNeedTokens == Spec => []JobNeedsToken
<1>1. AdaptersInv => JobNeedsToken
  BY DEF AdaptersInv
<1> QED
  BY <1>1, AdaptersInit, AdaptersKeep, PTL DEF Spec

(* However answers are lost, the target does the work at most once per     *)
(* execution: no adapter repeats a call on its own.                        *)
THEOREM EffectsAreCounted == Spec => []EffectPerExecution
<1>1. AdaptersInv => EffectPerExecution
  BY DEF AdaptersInv
<1> QED
  BY <1>1, AdaptersInit, AdaptersKeep, PTL DEF Spec
=============================================================================

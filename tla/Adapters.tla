------------------------------ MODULE Adapters ------------------------------
(***************************************************************************)
(* app/adapters.py: how the executions of one request turn the answers of  *)
(* a target system into the outcome AutomationWorker reacts to.  The       *)
(* target is external: it may answer anything, fail to answer, and do the  *)
(* work of a call that was not confirmed.                                  *)
(***************************************************************************)
EXTENDS Integers, Sequences

CONSTANTS
  Channels,       \* of "api", "gateway" (RpaAdapter) and "uipath"
  MaxExecutions,  \* bound on the executions of the request
  Seconds,        \* values of a Retry-After given as a number
  HalfSeconds,    \* ... as a date: half seconds from now
  NoHint

ASSUME AdaptersAssumption ==
  /\ Channels \subseteq {"api", "gateway", "uipath"}
  /\ MaxExecutions \in Nat
  /\ Seconds \subseteq Nat
  /\ HalfSeconds \subseteq Int
  /\ NoHint \notin Nat

VARIABLES
  channel,     \* which execute() serves the request
  stage,       \* the endpoint whose answer is awaited, "ready" for none
  answers,     \* history: <<endpoint, answer>> of this execution
  asked,       \* history: the Retry-After header of its last answer
  outcome,     \* what the last execute() ended with
  executions,  \* execute() calls so far
  effects      \* history: how often the target did the work

vars == <<channel, stage, answers, asked, outcome, executions, effects>>

Endpoints == {"target", "gateway", "token", "jobs"}

(* Mutant: the token of an earlier execution is used again.                *)
FirstEndpointCached == [api |-> "target", gateway |-> "gateway", uipath |-> "jobs"]

FirstEndpoint == [api |-> "target", gateway |-> "gateway", uipath |-> "token"]

Outcome(kind, hint) == [kind |-> kind, hint |-> hint]

(* The Retry-After headers: absent (or blank), not a date (or a date       *)
(* without zone), digits int() does not convert (superscripts); usable.    *)
RetryAfter ==
  [form : {"absent", "malformed", "unconvertible"}, value : {0}]
    \cup [form : {"seconds"}, value : Seconds]
    \cup [form : {"date"}, value : HalfSeconds]

NoHeader == [form |-> "absent", value |-> 0]

Convertible(h) == h.form # "unconvertible"

(* int() drops the fraction of a second, max() what has passed.            *)
ParseRetryAfter(h) ==
  IF h.form = "seconds" THEN h.value
  ELSE IF h.form = "date" THEN IF h.value > 0 THEN h.value \div 2 ELSE 0
  ELSE NoHint

TypeOK ==
  /\ channel \in Channels
  /\ stage \in Endpoints \cup {"ready"}
  /\ answers \in Seq(Endpoints \X
       {"throttled", "refused", "unreachable", "unusable", "accepted"})
  /\ asked \in RetryAfter
  /\ outcome.kind \in {"none", "returned", "retryable", "adapter",
                       "configuration", "other"}
  /\ outcome.hint \in Nat \cup {NoHint}
  /\ executions \in 0..MaxExecutions
  /\ effects \in Nat

Init ==
  /\ channel \in Channels
  /\ stage = "ready"
  /\ answers = <<>>
  /\ asked = NoHeader
  /\ outcome = Outcome("none", NoHint)
  /\ executions = 0
  /\ effects = 0

-----------------------------------------------------------------------------
(* The worker calls execute() until it returns.                            *)
Execute ==
  /\ stage = "ready"
  /\ outcome.kind # "returned"
  /\ executions < MaxExecutions
  /\ executions' = executions + 1
  /\ answers' = <<>>
  /\ asked' = NoHeader
  /\ UNCHANGED <<channel, effects>>

Submit ==
  /\ Execute
  /\ stage' = FirstEndpoint[channel]
  /\ outcome' = Outcome("none", NoHint)

(* A setting is missing; or *_TIMEOUT_SECONDS is no number, and float()    *)
(* raises ValueError before any try.                                       *)
NotConfigured ==
  /\ Execute
  /\ stage' = "ready"
  /\ \E kind \in {"configuration", "other"} : outcome' = Outcome(kind, NoHint)

(* The endpoint answers, with the header h if that matters; the work is    *)
(* done, if at all, by a final endpoint.                                   *)
Answer(a, h, done) ==
  /\ stage # "ready"
  /\ done => stage # "token"
  /\ answers' = Append(answers, <<stage, a>>)
  /\ asked' = h
  /\ effects' = effects + (IF done THEN 1 ELSE 0)
  /\ UNCHANGED <<channel, executions>>

End(kind, hint) == stage' = "ready" /\ outcome' = Outcome(kind, hint)

(* The client refuses to build the call: httpx.UnsupportedProtocol is an   *)
(* HTTPError, httpx.InvalidURL is none.  A header that cannot be encoded   *)
(* raises ValueError, which UiPathOrchestratorAdapter alone converts.      *)
NotSent ==
  /\ stage # "ready"
  /\ \E kind \in {"adapter", "other"} : End(kind, NoHint)
  /\ UNCHANGED <<channel, answers, asked, executions, effects>>

(* 429, for any of the four calls.  A header int() rejects raises          *)
(* ValueError, which only UiPathOrchestratorAdapter turns into its own.    *)
Throttled(h) ==
  /\ Answer("throttled", h, FALSE)
  /\ IF Convertible(h)
       THEN End("retryable", ParseRetryAfter(h))
       ELSE End(IF channel = "uipath" THEN "adapter" ELSE "other", NoHint)

(* Mutant: no raise_for_status().                                          *)
RefusedIgnored(done) ==
  /\ Answer("refused", NoHeader, done)
  /\ End("returned", NoHint)

(* Any other status that is no success.                                    *)
Refused(done) ==
  /\ Answer("refused", NoHeader, done)
  /\ End("adapter", NoHint)

(* Mutant: the call is repeated within the execution.                      *)
UnreachableRetried(done) ==
  /\ Answer("unreachable", NoHeader, done)
  /\ Len(answers) < 2
  /\ UNCHANGED <<stage, outcome>>

(* No answer: a connection error or a timeout.                             *)
Unreachable(done) ==
  /\ Answer("unreachable", NoHeader, done)
  /\ End("adapter", NoHint)

(* The token answer is no JSON or lacks the key; or is no object at all,   *)
(* and indexing it raises TypeError, which nothing converts.               *)
TokenUnusable ==
  /\ stage = "token"
  /\ Answer("unusable", NoHeader, FALSE)
  /\ \E kind \in {"adapter", "other"} : End(kind, NoHint)

TokenIssued ==
  /\ stage = "token"
  /\ Answer("accepted", NoHeader, FALSE)
  /\ stage' = "jobs"
  /\ UNCHANGED outcome

(* A success ends the execution whatever its body, which a job's answer is *)
(* not asked for; response.json() raises RecursionError for one nested too *)
(* deeply, and _response_detail catches only ValueError.                   *)
Accepted ==
  /\ stage # "token"
  /\ Answer("accepted", NoHeader, TRUE)
  /\ \/ End("returned", NoHint)
     \/ stage # "jobs" /\ End("other", NoHint)

Next ==
  \/ Submit \/ NotConfigured \/ NotSent
  \/ \E h \in RetryAfter : Throttled(h)
  \/ \E done \in BOOLEAN : Refused(done) \/ Unreachable(done)
  \/ TokenUnusable \/ TokenIssued \/ Accepted

Spec == Init /\ [][Next]_vars

-----------------------------------------------------------------------------
LastAnswer == answers[Len(answers)]

(* A hint is the number the header gave, or the whole seconds to its date, *)
(* 0 for one that has passed; there is none for a header that says nothing.*)
HintFits(h, hint) ==
  CASE h.form = "seconds" -> hint = h.value
    [] h.form = "date" /\ h.value > 0 -> hint \in Nat /\ h.value - 2 * hint \in {0, 1}
    [] h.form = "date" /\ h.value <= 0 -> hint = 0
    [] OTHER -> hint = NoHint

(* The outcome says what the target said last (ADRs 004, 009): success     *)
(* only if the call that does the work was accepted, a retry only after a  *)
(* 429 and with the delay it asked for, and after every 429 whose header   *)
(* can be read; a configuration error only if nothing was sent.            *)
OutcomeIsTruthful ==
  stage = "ready" /\ executions > 0 =>
    /\ outcome.kind = "returned" =>
         LastAnswer \in {"target", "gateway", "jobs"} \X {"accepted"} /\ effects > 0
    /\ outcome.kind = "retryable" =>
         LastAnswer[2] = "throttled" /\ HintFits(asked, outcome.hint)
    /\ answers # <<>> /\ LastAnswer[2] = "throttled" /\ Convertible(asked) =>
         outcome.kind = "retryable"
    /\ outcome.kind = "configuration" => answers = <<>>

(* A UiPath job is posted under a token of the same execution only.        *)
JobNeedsToken ==
  \A i \in DOMAIN answers :
    answers[i][1] = "jobs" => i = 2 /\ answers[1] = <<"token", "accepted">>

(* One execution does the target's work at most once, so all repetitions   *)
(* of the work are attempts the audit trail shows, whatever was lost.      *)
EffectPerExecution == effects <= executions

-----------------------------------------------------------------------------
(* Stated by docs/decisions/009-downstream-throttling.md:15, and not true  *)
(* of every 429: HTTP adapters detect it before generic status handling    *)
(* and raise a retryable adapter error.                                    *)
ThrottlingIsDistinguished ==
  stage = "ready" /\ answers # <<>> /\ LastAnswer[2] = "throttled"
    => outcome.kind = "retryable"

=============================================================================

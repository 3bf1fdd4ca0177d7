------------------------------- MODULE HttpApi -------------------------------
(***************************************************************************)
(* app/main.py behind its two middlewares.  A request goes through          *)
(* CorrelationIdMiddleware, which counts it on the way out whatever         *)
(* happens, ApiKeyMiddleware, and the handler of its path.  The database    *)
(* and Redis go down and come back between any two steps.                   *)
(*                                                                          *)
(* A row is a request of the table reduced to what a handler asks of it;    *)
(* the workers that settle rows, and FastAPI's check of bodies, are         *)
(* external.  The tables themselves are AutomationRepository's, the calls   *)
(* of AutomationService are Submission's and Orchestrator's.                *)
(***************************************************************************)
EXTENDS HttpMetrics

CONSTANTS Row,         \* rows a call may name or create
          Path,        \* paths that are called in a run
          Backend,     \* DISPATCH_BACKEND: "database", "redis" or another word
          UrlIsValid,  \* the Redis client takes REDIS_URL for a URL
          KeyIsSet,    \* ORCHESTRATOR_API_KEY is configured
          MaxOutages   \* bound on the changes of a dependency

PublicPath == {"/health", "/ready"}
PlainRoute == {"/health", "/ready", "/metrics", "/metrics/prometheus"}
RouteOf(path) == IF path \in PlainRoute THEN path ELSE "application"

Codes == {200, 202, 401, 404, 409, 422, 500, 503}

ASSUME HttpAssumption ==
    /\ {RouteOf(p) : p \in Path} \subseteq Route
    /\ Codes = Code
    /\ UrlIsValid \in BOOLEAN /\ KeyIsSet \in BOOLEAN /\ MaxOutages \in Nat

VARIABLES
    pc,        \* of a request, in the middlewares and the handler
    call,      \* what the request is: [path, key, valid, row]
    code,      \* status code of its answer, 0 before there is one
    carries,   \* the answer carries X-Correlation-ID
    row,       \* status of a row
    up,        \* the dependencies that answer
    outages,   \* changes of up so far
    probed,    \* dependencies a /ready call has found up
    did,       \* history: what the request has changed
    ups,       \* history: dependencies that were up since a /ready call arrived
    downs,     \* history: dependencies that were down since it arrived
    earlier    \* history: requests answered before it arrived

apiVars == <<pc, call, code, carries, row, up, outages, probed, did, ups, downs, earlier>>
vars == <<metricsVars, apiVars>>

Dependency == {"database"} \cup (IF Backend = "redis" THEN {"redis"} ELSE {})

\* get_dispatch_queue knows the word, and Redis.from_url reads the URL.
DispatchIsConfigured == Backend = "database" \/ (Backend = "redis" /\ UrlIsValid)

\* Dependencies that can answer: nobody reaches Redis by a malformed URL.
Reachable == IF UrlIsValid THEN Dependency ELSE Dependency \ {"redis"}

Call == [path : Path, key : {"right", "wrong", "unreadable"}, valid : BOOLEAN, row : Row]
NoCall == [path |-> "none", key |-> "right", valid |-> TRUE, row |-> CHOOSE x \in Row : TRUE]

Init ==
    /\ MetricsInit
    /\ pc = [r \in Caller |-> "new"]
    /\ call = [r \in Caller |-> NoCall]
    /\ code = [r \in Caller |-> 0]
    /\ carries = [r \in Caller |-> FALSE]
    /\ row = [x \in Row |-> "none"]
    /\ up = Reachable
    /\ outages = 0
    /\ probed = [r \in Caller |-> {}]
    /\ did = [r \in Caller |-> {}]
    /\ ups = [r \in Caller |-> {}]
    /\ downs = [r \in Caller |-> {}]
    /\ earlier = [r \in Caller |-> 0]

-----------------------------------------------------------------------------
(* How a step of a request ends. *)

GoTo(r, label) == pc' = [pc EXCEPT ![r] = label] /\ UNCHANGED <<code, carries>>

\* The handler, or a middleware, returns a response.
Return(r, k) ==
    /\ pc' = [pc EXCEPT ![r] = "count"]
    /\ code' = [code EXCEPT ![r] = k]
    /\ carries' = [carries EXCEPT ![r] = TRUE]

\* Mutant: no finally clause.
RaiseUncounted(r) ==
    /\ pc' = [pc EXCEPT ![r] = "answer"]
    /\ code' = [code EXCEPT ![r] = 500]
    /\ UNCHANGED carries

\* An exception nobody catches: call_next raises, response stays None, and
\* the server answers 500 after the finally clause.
Raise(r) ==
    /\ pc' = [pc EXCEPT ![r] = "count"]
    /\ code' = [code EXCEPT ![r] = 500]
    /\ UNCHANGED carries

KeepWorld == UNCHANGED <<metricsVars, call, up, outages, ups, downs, earlier>>
ReadOnly == KeepWorld /\ UNCHANGED <<row, did, probed>>

At(r, label, paths) == pc[r] = label /\ call[r].path \in paths
IsUp(d) == d \in up

-----------------------------------------------------------------------------
Arrive(r) ==
    /\ pc[r] = "new"
    /\ \E c \in Call :
          /\ call' = [call EXCEPT ![r] = c]
          /\ (c.path \notin {"submit", "enrich"} => c.valid)  \* they have a body
          /\ (~KeyIsSet \/ c.path \in PublicPath => c.key = "right")  \* nobody reads it
          /\ ups' = [ups EXCEPT ![r] = IF c.path = "/ready" THEN up ELSE {}]
          /\ downs' = [downs EXCEPT ![r] = IF c.path = "/ready" THEN Dependency \ up ELSE {}]
    /\ earlier' = [earlier EXCEPT ![r] = Cardinality({q \in Caller : pc[q] = "done"})]
    /\ GoTo(r, "authorise")
    /\ UNCHANGED <<metricsVars, row, up, outages, probed, did>>

\* ApiKeyMiddleware.dispatch; compare_digest raises for a key that is not ASCII.
Authorise(r) ==
    /\ pc[r] = "authorise"
    /\ IF ~KeyIsSet \/ call[r].path \in PublicPath \/ call[r].key = "right"
          THEN GoTo(r, "handle")
          ELSE IF call[r].key = "wrong" THEN Return(r, 401) ELSE Raise(r)
    /\ ReadOnly

Health(r) == At(r, "handle", {"/health"}) /\ Return(r, 200) /\ ReadOnly

-----------------------------------------------------------------------------
(* readiness *)

\* Mutant: one dependency is enough.
IsReadyLast(found) == found # {}

IsReady(found) == Dependency \subseteq found

Conclude(r, found) == Return(r, IF IsReady(found) THEN 200 ELSE 503)

ProbeDatabase(r) ==
    /\ At(r, "handle", {"/ready"})
    /\ probed' = [probed EXCEPT ![r] = up \cap {"database"}]
    /\ IF Backend = "redis" THEN GoTo(r, "redis") ELSE Conclude(r, probed'[r])
    /\ KeepWorld /\ UNCHANGED <<row, did>>

ProbeRedis(r) ==
    /\ pc[r] = "redis"
    /\ probed' = [probed EXCEPT ![r] = @ \cup (up \cap {"redis"})]
    /\ Conclude(r, probed'[r])
    /\ KeepWorld /\ UNCHANGED <<row, did>>

-----------------------------------------------------------------------------
(* create_automation_request, replay_dead_letter_request *)

\* The body is no AutomationRequest, or no DocumentEnrichmentRequest.
Invalid(r) ==
    /\ At(r, "handle", {"submit", "enrich"}) /\ ~call[r].valid
    /\ Return(r, 422) /\ ReadOnly

\* Any step that needs the database and does not reach it.
DatabaseError(r) ==
    /\ \/ At(r, "handle", {"get", "audit", "replay", "/metrics", "/metrics/prometheus"})
       \/ At(r, "handle", {"submit"}) /\ call[r].valid
       \/ pc[r] = "reread"
    /\ ~IsUp("database")
    /\ Raise(r) /\ ReadOnly

Write(r, s, what) ==
    /\ row' = [row EXCEPT ![call[r].row] = s]
    /\ did' = [did EXCEPT ![r] = @ \cup {what}]
    /\ KeepWorld /\ UNCHANGED probed

Create(r) ==
    /\ At(r, "handle", {"submit"}) /\ call[r].valid /\ IsUp("database")
    /\ GoTo(r, "publish")
    /\ IF row[call[r].row] = "none"
          THEN Write(r, "queued", "created")
          ELSE ReadOnly  \* the idempotency key leads to the row

Replay(r) ==
    /\ At(r, "handle", {"replay"}) /\ IsUp("database")
    /\ CASE row[call[r].row] = "dead_letter" ->
               GoTo(r, "publish") /\ Write(r, "queued", "replayed")
         [] row[call[r].row] = "none" -> Return(r, 404) /\ ReadOnly
         [] OTHER -> Return(r, 409) /\ ReadOnly

Proceed(r) == IF call[r].path = "submit" THEN GoTo(r, "reread") ELSE Return(r, 200)

\* Mutant: an outage of Redis, too, is taken for a refusal.
PublishErrorCaught(r) == IF call[r].path = "replay" THEN Return(r, 409) ELSE Raise(r)

\* get_dispatch_queue raises ValueError for a word it does not know, and
\* Redis.from_url for a malformed REDIS_URL, which the handler of a replay takes
\* for the repository's refusal.  An outage of Redis is another exception.
PublishError(r) ==
    IF call[r].path = "replay" /\ ~DispatchIsConfigured
       THEN Return(r, 409) ELSE Raise(r)

\* Mutant: a failed push is ignored.
PublishAnyway(r) ==
    /\ pc[r] = "publish"
    /\ IF Backend = "redis" /\ IsUp("redis")
          THEN did' = [did EXCEPT ![r] = @ \cup {"published"}]
          ELSE UNCHANGED did
    /\ Proceed(r)
    /\ KeepWorld /\ UNCHANGED <<row, probed>>

Publish(r) ==
    /\ pc[r] = "publish"
    /\ CASE Backend = "database" -> Proceed(r) /\ UNCHANGED did
         [] Backend = "redis" /\ IsUp("redis") ->
               Proceed(r) /\ did' = [did EXCEPT ![r] = @ \cup {"published"}]
         [] OTHER -> PublishError(r) /\ UNCHANGED did
    /\ KeepWorld /\ UNCHANGED <<row, probed>>

Reread(r) ==
    /\ pc[r] = "reread" /\ IsUp("database")
    /\ Return(r, 202) /\ ReadOnly

-----------------------------------------------------------------------------
(* Handlers that only read. *)

Get(r) ==
    /\ At(r, "handle", {"get", "audit"}) /\ IsUp("database")
    /\ Return(r, IF row[call[r].row] = "none" THEN 404 ELSE 200)
    /\ ReadOnly

Snapshot(r) ==
    /\ At(r, "handle", {"/metrics", "/metrics/prometheus"}) /\ IsUp("database")
    /\ IF call[r].path = "/metrics" THEN Return(r, 200) ELSE GoTo(r, "render")
    /\ ReadOnly

BeginRender(r) ==
    /\ pc[r] = "render" /\ RenderCounts(r)
    /\ GoTo(r, "rendering")
    /\ UNCHANGED <<call, row, up, outages, probed, did, ups, downs, earlier>>

EndRender(r) ==
    /\ pc[r] = "rendering" /\ RenderSamples(r)
    /\ Return(r, 200)
    /\ UNCHANGED <<call, row, up, outages, probed, did, ups, downs, earlier>>

\* The enrichment answers, refuses (EnrichmentError) or raises something else.
Enrich(r) ==
    /\ At(r, "handle", {"enrich"}) /\ call[r].valid
    /\ Return(r, 200) \/ Return(r, 503) \/ Raise(r)
    /\ ReadOnly

-----------------------------------------------------------------------------
(* The finally clause of CorrelationIdMiddleware.dispatch, then the answer. *)

BeginObserve(r) ==
    /\ pc[r] = "count" /\ Count(r, RouteOf(call[r].path), code[r])
    /\ GoTo(r, "sample")
    /\ UNCHANGED <<call, row, up, outages, probed, did, ups, downs, earlier>>

EndObserve(r) ==
    /\ pc[r] = "sample" /\ Sample(r, RouteOf(call[r].path))
    /\ GoTo(r, "answer")
    /\ UNCHANGED <<call, row, up, outages, probed, did, ups, downs, earlier>>

Answer(r) == pc[r] = "answer" /\ GoTo(r, "done") /\ ReadOnly

-----------------------------------------------------------------------------
(* The world around. *)

Asking(r) == call[r].path = "/ready" /\ pc[r] \in {"authorise", "handle", "redis"}

\* A dependency stops or starts to answer.
Toggle(d) ==
    /\ outages < MaxOutages /\ outages' = outages + 1
    /\ up' = IF d \in up THEN up \ {d} ELSE up \cup {d}
    /\ ups' = [r \in Caller |-> IF Asking(r) THEN ups[r] \cup up' ELSE ups[r]]
    /\ downs' = [r \in Caller |-> IF Asking(r) THEN downs[r] \cup (Dependency \ up') ELSE downs[r]]
    /\ UNCHANGED <<metricsVars, pc, call, code, carries, row, probed, did, earlier>>

\* A worker ends a request.
Settle(x) ==
    /\ row[x] = "queued" /\ row' = [row EXCEPT ![x] = "dead_letter"]
    /\ UNCHANGED <<metricsVars, pc, call, code, carries, up, outages, probed, did, ups, downs, earlier>>

Handle(r) ==
    \/ Authorise(r) \/ Health(r) \/ ProbeDatabase(r) \/ ProbeRedis(r)
    \/ Invalid(r) \/ DatabaseError(r) \/ Create(r) \/ Replay(r) \/ Publish(r) \/ Reread(r)
    \/ Get(r) \/ Snapshot(r) \/ BeginRender(r) \/ EndRender(r) \/ Enrich(r)
    \/ BeginObserve(r) \/ EndObserve(r) \/ Answer(r)

Next ==
    \/ \E r \in Caller : Arrive(r) \/ Handle(r)
    \/ \E d \in Reachable : Toggle(d)
    \/ \E x \in Row : Settle(x)

Spec == Init /\ [][Next]_vars

\* A request that has arrived is worked on; the metrics lock is held for a few
\* statements only, so who waits for it may rely on its being free in the end.
FairSpec == Spec /\ \A r \in Caller : WF_vars(Handle(r))

-----------------------------------------------------------------------------
Answered(r) == pc[r] = "done"

TypeOK ==
    /\ MetricsTypeOK
    /\ pc \in [Caller -> {"new", "authorise", "handle", "redis", "publish", "reread",
                          "render", "rendering", "count", "sample", "answer", "done"}]
    /\ call \in [Caller -> Call \cup {NoCall}]
    /\ code \in [Caller -> Code \cup {0}]
    /\ carries \in [Caller -> BOOLEAN]
    /\ row \in [Row -> {"none", "queued", "dead_letter"}]
    /\ up \subseteq Dependency /\ outages \in 0 .. MaxOutages
    /\ probed \in [Caller -> SUBSET Dependency]
    /\ did \in [Caller -> SUBSET {"created", "replayed", "published"}]
    /\ \A r \in Caller : Answered(r) => code[r] # 0

\* What a 2xx of a call that changes state says: the row is there, and with
\* Redis a message was sent (create_automation_request, replay).
AcceptedIsDone ==
    \A r \in Caller : Answered(r) /\ call[r].path \in {"submit", "replay"} /\ code[r] \in {200, 202} =>
        /\ row[call[r].row] # "none"
        /\ Backend = "redis" => "published" \in did[r]
        /\ call[r].path = "replay" => "replayed" \in did[r]

\* ADR 008: a refused call (no key, unknown, conflict, invalid) has changed
\* nothing, whichever step of it failed.
RefusedChangesNothing ==
    \A r \in Caller : Answered(r) /\ code[r] \in 400 .. 499 => did[r] = {}

\* /ready says 200 only if each dependency answered while the call was under
\* way, and 503 only if one did not, although the probes are not simultaneous.
ReadyIsTrue ==
    \A r \in Caller : Answered(r) /\ call[r].path = "/ready" =>
        IF code[r] = 200 THEN Dependency \subseteq ups[r] ELSE downs[r] # {}

\* A report shows as many samples of a route as requests, up to the cap:
\* render_http_metrics never sees half of an observe_request.
ReportsAgree ==
    \A r \in Caller : Answered(r) /\ call[r].path = "/metrics/prometheus" /\ code[r] = 200 =>
        Agree(report[r].counts, report[r].samples)

\* A client that has its answer finds it counted in a report it asks for
\* afterwards, also when the answer was an unexpected 500.
AnsweredIsCounted ==
    \A r \in Caller : Answered(r) /\ call[r].path = "/metrics/prometheus" /\ code[r] = 200 =>
        Requests(report[r].counts) >= earlier[r]

\* Every call is answered: no handler waits for ever for the metrics lock.
EveryCallIsAnswered ==
    \A r \in Caller : pc[r] # "new" ~> Answered(r)

\* docs/architecture.md: correlation IDs go with HTTP responses.
AnswersCarryCorrelation ==
    \A r \in Caller : Answered(r) => carries[r]
=============================================================================

---------------------------- MODULE Orchestrator ----------------------------
(***************************************************************************)
(* The deployed system: API threads, the database, the dispatch list and   *)
(* the workers, with the passing of time.  One disjunct of Next is one     *)
(* step of one of them.                                                    *)
(***************************************************************************)
EXTENDS AutomationWorker, AutomationService

vars == <<repositoryVars, dispatchVars, workerVars, serviceVars>>

Init == RepositoryInit /\ DispatchInit /\ WorkerInit /\ ServiceInit

(* One second passes for every timer that runs.                            *)
CountDown(k) == IF k = 0 THEN 0 ELSE k - 1

SomeTimerRuns ==
  \/ \E r \in Requests : next_attempt_in[r] > 0 \/ hint_left[r] > 0
  \/ \E w \in Workers, t \in Targets : target_cooldowns[w][t] > 0

Tick ==
  /\ SomeTimerRuns
  /\ next_attempt_in' = [r \in Requests |-> CountDown(next_attempt_in[r])]
  /\ hint_left' = [r \in Requests |-> CountDown(hint_left[r])]
  /\ target_cooldowns' =
       [w \in Workers |->
          [t \in Targets |-> CountDown(target_cooldowns[w][t])]]
  /\ UNCHANGED <<status, attempt_count, created_at, events, dispatchVars, pc,
                 held, retry_delay, calls, deaths, serviceVars>>

Work(w) == RunOnce(w) /\ UNCHANGED serviceVars

LifeOf(w) == (Crash(w) \/ Restart(w)) /\ UNCHANGED serviceVars

(* A replay is a new decision: no earlier Retry-After binds it.             *)
Replayed(r) == status[r] = "dead_letter" /\ status'[r] = "queued"

Serve(a) ==
  /\ ServiceCall(a)
  /\ hint_left' = [r \in Requests |-> IF Replayed(r) THEN 0 ELSE hint_left[r]]
  /\ UNCHANGED <<processVars, calls, deaths>>

Broker ==
  /\ BrokerLoses \/ \E r \in Requests : Persisted(r) /\ BrokerRedelivers(r)
  /\ UNCHANGED <<repositoryVars, workerVars, serviceVars>>

Next ==
  \/ \E w \in Workers : Work(w) \/ LifeOf(w)
  \/ \E a \in Callers : Serve(a)
  \/ Broker
  \/ Tick

Spec == Init /\ [][Next]_vars

(* run_forever never stops taking steps, every adapter call ends (each has *)
(* a timeout) and time passes.  Nothing obliges a client to call, an API   *)
(* thread to reach its publish, a dead worker to be restarted, or anything *)
(* to fail.                                                                *)
Fairness == WF_vars(Tick) /\ \A w \in Workers : WF_vars(Work(w))

FairSpec == Spec /\ Fairness

-----------------------------------------------------------------------------
TypeOK ==
  /\ RepositoryTypeOK
  /\ queue \in Seq(Requests)
  /\ broker_faults \in 0..MaxBrokerFaults
  /\ WorkerTypeOK
  /\ ServiceTypeOK

Owns(w, r) == pc[w] \in Owning /\ held[w] = r

(* A request is executed by at most one worker, and is running as long as  *)
(* it is: duplicate or stale messages, resubmissions, replays and polling  *)
(* never create a second claim (README.md:48), although no write that ends *)
(* an attempt checks who owns the row.                                     *)
ExclusiveClaim ==
  \A w \in Workers, r \in Requests :
    Owns(w, r) => /\ status[r] = "running"
                  /\ \A v \in Workers : Owns(v, r) => v = w

(* The attempts spent agree with the status, although _claim_row never     *)
(* looks at max_attempts: a retry is only pending while budget is left and *)
(* a dead letter has spent exactly its budget.                             *)
AttemptBudget ==
  \A r \in Requests :
    /\ status[r] \in {"absent", "queued"} => attempt_count[r] = 0
    /\ status[r] = "retrying" => attempt_count[r] \in 1..(MaxAttempts[r] - 1)
    /\ status[r] = "running" => attempt_count[r] \in 1..MaxAttempts[r]
    /\ status[r] = "dead_letter" => attempt_count[r] = MaxAttempts[r]

(* Between a pop and the end of its attempt a worker has a request in      *)
(* hand, and so has every API call between its steps.                      *)
WorkerInHand ==
  \A w \in Workers : pc[w] \in Owning \cup {"claim"} => held[w] \in Requests

CallInHand == \A a \in Callers : api_pc[a] # "idle" => api_id[a] \in Requests

InHand == WorkerInHand /\ CallInHand

(* An id create() has drawn but not stored is in one call's hands and has  *)
(* no row; an id nobody has drawn has none either.                         *)
FreshIds ==
  /\ \A r \in Requests : created_at[r] = 0 => ~Persisted(r)
  /\ \A a \in Callers : api_pc[a] = "create" =>
       /\ created_at[api_id[a]] # 0
       /\ ~Persisted(api_id[a])
       /\ \A b \in Callers :
            api_pc[b] = "create" /\ api_id[b] = api_id[a] => b = a

(* The inductive invariant behind the theorems of OrchestratorProofs: the  *)
(* properties above are inductive together with what is in hand.           *)
IInv == TypeOK /\ InHand /\ FreshIds /\ ExclusiveClaim /\ AttemptBudget

(* f may follow e in the audit trail of one request.                       *)
Follows(e, f) ==
  \/ /\ f.status = "running"
     /\ \/ e.status = "queued" /\ f.attempt = 1
        \/ e.status = "retrying" /\ f.attempt = e.attempt + 1
  \/ /\ f.status \in {"retrying", "dead_letter"}
     /\ e.status = "running" /\ f.attempt = e.attempt
  \/ f.status = "completed" /\ e.status = "running"
  \/ f.status = "queued" /\ e.status = "dead_letter"

(* The audit trail is a complete account of the row (ADR 008:39): it is    *)
(* empty exactly when there is no row, it starts with the submission,      *)
(* every event continues the one before, and the last one agrees with the  *)
(* status and the attempt count.                                           *)
AuditTrail ==
  \A r \in Requests :
    LET trail == events[r]
        last == trail[Len(trail)]
    IN  /\ Persisted(r) <=> trail # <<>>
        /\ Persisted(r) =>
             /\ trail[1].status = "queued"
             /\ last.status = status[r]
             /\ status[r] # "completed" => last.attempt = attempt_count[r]
        /\ \A i \in 1..(Len(trail) - 1) : Follows(trail[i], trail[i + 1])

(* The database is authoritative: every id in the list, about to be        *)
(* published or being claimed names a stored request.                      *)
PublishedIsPersisted ==
  /\ \A i \in DOMAIN queue : Persisted(queue[i])
  /\ \A a \in Callers : api_pc[a] = "publish" => Persisted(api_id[a])
  /\ \A w \in Workers : pc[w] = "claim" => Persisted(held[w])

Marked(r, s) == Cardinality({i \in DOMAIN events[r] : events[r][i].status = s})

(* No target is called without an audit event that starts the attempt, and *)
(* the trail accounts for each of them: every decision to queue a request, *)
(* the submission and each replay, pays for max_attempts and no more, and  *)
(* a replayed request had spent all that was paid for.                     *)
CallsAreAudited ==
  \A r \in Requests :
    /\ calls[r] <= Marked(r, "running")
    /\ Persisted(r) =>
         Marked(r, "running") =
           MaxAttempts[r] * (Marked(r, "queued") - 1) + attempt_count[r]

Stranded == {r \in Requests : status[r] = "running" /\ \A w \in Workers : ~Owns(w, r)}

(* The death of a worker leaves at most the one request in its hands       *)
(* running without an owner, and nothing else ever does.                   *)
OneStrandedPerDeath == Cardinality(Stranded) <= deaths

(* Between a rate limit and the end of its Retry-After the request is not  *)
(* sent again, by whichever worker, message or poll (ADR 009:17), unless   *)
(* an operator has replayed it since; and what a target asks after a       *)
(* replay is respected like what it asked before.                          *)
RetryAfterHonoured ==
  [][\A r \in Requests : calls'[r] > calls[r] => hint_left[r] = 0]_vars

(* As long as one worker lives, every stored request ends completed or in  *)
(* dead letter, even if its message was never published or was lost        *)
(* (architecture.md:34), or it is one of those a death stranded.           *)
SettledOrStranded ==
  \A r \in Requests :
    Persisted(r) ~> status[r] \in {"completed", "dead_letter"} \/ r \in Stranded

(* The orchestrator implements the lifecycle with exclusive owners.        *)
Owners == [r \in Requests |-> {w \in Workers : Owns(w, r)}]

Promise == INSTANCE Lifecycle WITH owners <- Owners

LifecyclePromise == Promise!Spec

-----------------------------------------------------------------------------
(* Stated by the documentation, and not true of the code.                  *)

(* docs/adr/010-backoff-and-backpressure.md:10: work for a cooling target  *)
(* is deferred; so a dead letter has been tried at least once.             *)
DeadLetterWasTried ==
  \A r \in Requests : status[r] = "dead_letter" => calls[r] > 0

(* docs/architecture.md:36: the worker records completion, retry or dead-  *)
(* letter state for the work it claims.                                    *)
ClaimIsRecorded ==
  \A r \in Requests : status[r] = "running" ~> status[r] # "running"

=============================================================================

-------------------------- MODULE AutomationWorker --------------------------
(***************************************************************************)
(* app/worker.py: processes that run run_once() for ever.  Each database   *)
(* transaction, broker call and adapter call of run_once is a step of its  *)
(* own; between two steps every other process may run, time may pass and   *)
(* the worker may die.                                                     *)
(***************************************************************************)
EXTENDS AutomationRepository, DispatchQueue

CONSTANTS
  Workers, Targets,
  Target,           \* request.target
  NoRequest,        \* no message and no claim in hand
  RetryDelay,       \* RETRY_DELAY_SECONDS
  MaxRetryDelay,    \* MAX_RETRY_DELAY_SECONDS
  JitterPercent,    \* RETRY_JITTER_RATIO in percent
  Hints,            \* the retry_after_seconds a rate-limited call may carry
  MaxCrashes        \* bound on the deaths a kill may add to

ASSUME WorkerAssumption ==
  /\ Target \in [Requests -> Targets]
  /\ NoRequest \notin Requests
  /\ RetryDelay \in Nat /\ MaxRetryDelay \in Nat /\ JitterPercent \in Nat
  /\ Hints \subseteq Nat
  /\ MaxCrashes \in Nat

VARIABLES
  pc,                \* where run_once stands
  held,              \* the message popped, then the request claimed
  retry_delay,       \* the delay fail_or_retry is about to be given
  target_cooldowns,  \* seconds left of _target_cooldowns, 0 when absent
  calls,             \* history: adapter calls made for each request
  hint_left,         \* history: seconds left of its last Retry-After, if
                     \* no replay has come after it
  deaths             \* history: worker processes that died

processVars == <<pc, held, retry_delay, target_cooldowns>>
historyVars == <<calls, hint_left, deaths>>
workerVars == <<processVars, historyVars>>

(* A worker past its claim and not yet done with it.                       *)
Owning == {"claimed", "executing", "completing", "failing"}

WorkerTypeOK ==
  /\ pc \in [Workers -> {"dead", "idle", "claim", "claim_next"} \cup Owning]
  /\ held \in [Workers -> Requests \cup {NoRequest}]
  /\ retry_delay \in [Workers -> Nat]
  /\ target_cooldowns \in [Workers -> [Targets -> Nat]]
  /\ calls \in [Requests -> Nat]
  /\ hint_left \in [Requests -> Nat]
  /\ deaths \in Nat

WorkerInit ==
  /\ pc = [w \in Workers |-> "idle"]
  /\ held = [w \in Workers |-> NoRequest]
  /\ retry_delay = [w \in Workers |-> 0]
  /\ target_cooldowns = [w \in Workers |-> [t \in Targets |-> 0]]
  /\ calls = [r \in Requests |-> 0]
  /\ hint_left = [r \in Requests |-> 0]
  /\ deaths = 0

-----------------------------------------------------------------------------
(* The share of base that jitter may add.  random() is below 1, but the    *)
(* sum it is added to may round up to its bound.                           *)
Jitter(base) == (base * JitterPercent) \div 100

(* _backoff: exponential growth capped by MaxRetryDelay, then jitter on    *)
(* top of the cap.                                                         *)
Backoff(attempt) ==
  LET growth == RetryDelay * 2 ^ (attempt - 1)
      base == IF growth < MaxRetryDelay THEN growth ELSE MaxRetryDelay
  IN  {d \in 0 .. MaxRetryDelay + Jitter(MaxRetryDelay) :
         base <= d /\ d <= base + Jitter(base)}

(* max(1, int(cooldown_until - monotonic())).  A timer showing k seconds   *)
(* has between k - 1 and k left, so int() may drop one.                    *)
CooldownDelays(k) == IF k <= 1 THEN {1} ELSE {k - 1, k}

Cooldown(w, r) == target_cooldowns[w][Target[r]]

GoTo(w, label) == pc' = [pc EXCEPT ![w] = label]

Hold(w, r) == held' = [held EXCEPT ![w] = r]

SetDelay(w, d) == retry_delay' = [retry_delay EXCEPT ![w] = d]

SetCooldown(w, t, k) ==
  target_cooldowns' = [target_cooldowns EXCEPT ![w][t] = k]

(* run_once returned: its locals are gone, the cooldowns stay.             *)
Return(w) ==
  /\ GoTo(w, "idle") /\ Hold(w, NoRequest) /\ SetDelay(w, 0)
  /\ UNCHANGED target_cooldowns

(* An exception left run_once, or the process was killed: cooldowns and    *)
(* locals are gone, the database keeps what was committed.                 *)
Die(w) ==
  /\ GoTo(w, "dead") /\ Hold(w, NoRequest) /\ SetDelay(w, 0)
  /\ deaths' = deaths + 1
  /\ target_cooldowns' =
       [target_cooldowns EXCEPT ![w] = [t \in Targets |-> 0]]

-----------------------------------------------------------------------------
(* Only a brokered worker pops; an empty list, like no broker, sends it to *)
(* claim_next.                                                             *)
ConsumeMessage(w) ==
  /\ pc[w] = "idle"
  /\ Brokered
  /\ \E r \in Requests : Consume(r) /\ Hold(w, r)
  /\ GoTo(w, "claim")
  /\ UNCHANGED <<repositoryVars, retry_delay, target_cooldowns,
                 historyVars>>

(* Mutant: the broker is the only source of work of a brokered worker.     *)
PollDatabaseUnbrokered(w) ==
  /\ pc[w] = "idle"
  /\ ~Brokered
  /\ GoTo(w, "claim_next")
  /\ UNCHANGED <<repositoryVars, dispatchVars, held, retry_delay,
                 target_cooldowns, historyVars>>

PollDatabase(w) ==
  /\ pc[w] = "idle"
  /\ Brokered => queue = <<>>
  /\ GoTo(w, "claim_next")
  /\ UNCHANGED <<repositoryVars, dispatchVars, held, retry_delay,
                 target_cooldowns, historyVars>>

ClaimMessage(w) ==
  /\ pc[w] = "claim"
  /\ Eligible(held[w])
  /\ ClaimRow(held[w])
  /\ GoTo(w, "claimed")
  /\ UNCHANGED <<dispatchVars, held, retry_delay, target_cooldowns,
                 historyVars>>

StaleMessage(w) ==
  /\ pc[w] = "claim"
  /\ ~Eligible(held[w])
  /\ GoTo(w, "claim_next")
  /\ Hold(w, NoRequest)
  /\ UNCHANGED <<repositoryVars, dispatchVars, retry_delay,
                 target_cooldowns, historyVars>>

ClaimNext(w) ==
  /\ pc[w] = "claim_next"
  /\ \E r \in Requests : OldestEligible(r) /\ ClaimRow(r) /\ Hold(w, r)
  /\ GoTo(w, "claimed")
  /\ UNCHANGED <<dispatchVars, retry_delay, target_cooldowns,
                 historyVars>>

NothingEligible(w) ==
  /\ pc[w] = "claim_next"
  /\ \A r \in Requests : ~Eligible(r)
  /\ Return(w)
  /\ UNCHANGED <<repositoryVars, dispatchVars, historyVars>>

(* Mutant: work for a cooling target is put down without a new status.     *)
DeferForgets(w) ==
  /\ pc[w] = "claimed"
  /\ Cooldown(w, held[w]) > 0
  /\ Return(w)
  /\ UNCHANGED <<repositoryVars, dispatchVars, historyVars>>

(* The claim has been paid for with an attempt; the target is not called.  *)
Defer(w) ==
  /\ pc[w] = "claimed"
  /\ Cooldown(w, held[w]) > 0
  /\ \E d \in CooldownDelays(Cooldown(w, held[w])) : SetDelay(w, d)
  /\ GoTo(w, "failing")
  /\ UNCHANGED <<repositoryVars, dispatchVars, held, target_cooldowns,
                 historyVars>>

Execute(w) ==
  /\ pc[w] = "claimed"
  /\ Cooldown(w, held[w]) = 0
  /\ GoTo(w, "executing")
  /\ calls' = [calls EXCEPT ![held[w]] = @ + 1]
  /\ UNCHANGED <<repositoryVars, dispatchVars, held, retry_delay,
                 target_cooldowns, hint_left, deaths>>

Succeed(w) ==
  /\ pc[w] = "executing"
  /\ SetCooldown(w, Target[held[w]], 0)
  /\ GoTo(w, "completing")
  /\ UNCHANGED <<repositoryVars, dispatchVars, held, retry_delay, historyVars>>

RateLimited(w) ==
  /\ pc[w] = "executing"
  /\ \E h \in Hints :
       /\ SetDelay(w, h)
       /\ SetCooldown(w, Target[held[w]], h)
       /\ hint_left' = [hint_left EXCEPT ![held[w]] = h]
  /\ GoTo(w, "failing")
  /\ UNCHANGED <<repositoryVars, dispatchVars, held, calls, deaths>>

(* Mutant: the call is repeated under the same claim.                      *)
FailRetriesInPlace(w) ==
  /\ pc[w] = "executing"
  /\ GoTo(w, "claimed")
  /\ UNCHANGED <<repositoryVars, dispatchVars, held, retry_delay,
                 target_cooldowns, historyVars>>

(* Any other exception, and a rate limit without a usable hint.            *)
Fail(w) ==
  /\ pc[w] = "executing"
  /\ \E d \in Backoff(attempt_count[held[w]]) : SetDelay(w, d)
  /\ GoTo(w, "failing")
  /\ UNCHANGED <<repositoryVars, dispatchVars, held, target_cooldowns,
                 historyVars>>

RecordCompletion(w) ==
  /\ pc[w] = "completing"
  /\ Complete(held[w])
  /\ Return(w)
  /\ UNCHANGED <<dispatchVars, historyVars>>

RecordFailure(w) ==
  /\ pc[w] = "failing"
  /\ FailOrRetry(held[w], retry_delay[w])
  /\ Return(w)
  /\ UNCHANGED <<dispatchVars, historyVars>>

(* fail_or_retry raised: its transaction rolled back and run_forever ends. *)
RecordFailureRaises(w) ==
  /\ pc[w] = "failing"
  /\ ~Schedulable(held[w], retry_delay[w])
  /\ Die(w)
  /\ UNCHANGED <<repositoryVars, dispatchVars, calls, hint_left>>

RunOnce(w) ==
  \/ ConsumeMessage(w) \/ PollDatabase(w)
  \/ ClaimMessage(w) \/ StaleMessage(w) \/ ClaimNext(w) \/ NothingEligible(w)
  \/ Defer(w) \/ Execute(w) \/ Succeed(w) \/ RateLimited(w) \/ Fail(w)
  \/ RecordCompletion(w) \/ RecordFailure(w) \/ RecordFailureRaises(w)

(* A kill, or a database or broker call that raises.                       *)
Crash(w) ==
  /\ pc[w] # "dead"
  /\ deaths < MaxCrashes
  /\ Die(w)
  /\ UNCHANGED <<repositoryVars, dispatchVars, calls, hint_left>>

(* main(): nothing in the repository restarts a worker, an operator may.   *)
Restart(w) ==
  /\ pc[w] = "dead"
  /\ GoTo(w, "idle")
  /\ UNCHANGED <<repositoryVars, dispatchVars, held, retry_delay,
                 target_cooldowns, historyVars>>

=============================================================================

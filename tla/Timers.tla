------------------------------- MODULE Timers -------------------------------
(***************************************************************************)
(* The timers of a worker with the fractions of a second Orchestrator      *)
(* leaves out: cooldowns on the monotonic clock, their remainder cut to    *)
(* whole seconds, Retry-After as seconds or as a date, and next_attempt_at *)
(* stored and compared as text.  Time is counted in ticks; any step of any *)
(* worker may take any number of them.                                     *)
(***************************************************************************)
EXTENDS Naturals

CONSTANTS
  Second,       \* ticks in a second, at least 2
  Requests,     \* all for one target
  MaxAttempts,
  Workers,
  Hints,        \* Retry-After values in seconds
  Dates,        \* Retry-After dates, in seconds since the start
  Backoffs,     \* delays of other failures, in seconds
  Nobody,
  MaxTime,      \* bound on time
  MaxDeaths     \* bound on the workers that die

TimersAssumption ==
  /\ Second \in Nat /\ Second >= 2
  /\ MaxAttempts \in Nat \ {0}
  /\ Hints \subseteq Nat /\ Dates \subseteq Nat /\ Backoffs \subseteq Nat
  /\ Nobody \notin Requests
  /\ MaxTime \in Nat /\ MaxDeaths \in Nat

VARIABLES
  time,
  status, attempt_count,
  next_attempt_at,   \* the instant the column's text stands for
  pc, held,
  retry_delay,       \* seconds about to be given to fail_or_retry
  target_cooldowns,  \* until when this worker leaves the target alone
  asked_request,     \* history: until when the target asked not to get it
  asked_worker,      \* history: until when it asked this worker to wait
  deferrals,         \* history: times a worker put a request off, this cooldown
  deaths

rowVars == <<status, attempt_count, next_attempt_at>>
workerVars == <<pc, held, retry_delay, target_cooldowns>>
historyVars == <<asked_request, asked_worker, deferrals, deaths>>
vars == <<time, rowVars, workerVars, historyVars>>

TypeOK ==
  /\ time \in 0..MaxTime
  /\ status \in [Requests -> {"queued", "running", "retrying", "completed", "dead_letter"}]
  /\ attempt_count \in [Requests -> 0..MaxAttempts]
  /\ next_attempt_at \in [Requests -> Nat]
  /\ pc \in [Workers -> {"idle", "claimed", "deferring", "executing", "limited",
                         "failing"}]
  /\ held \in [Workers -> Requests \cup {Nobody}]
  /\ retry_delay \in [Workers -> Nat]
  /\ target_cooldowns \in [Workers -> Nat]
  /\ asked_request \in [Requests -> Nat] /\ asked_worker \in [Workers -> Nat]
  /\ deferrals \in [Workers -> [Requests -> Nat]]
  /\ deaths \in 0..MaxDeaths

NoDeferrals == [r \in Requests |-> 0]

Init ==
  /\ time = 0
  /\ status = [r \in Requests |-> "queued"]
  /\ attempt_count = [r \in Requests |-> 0]
  /\ next_attempt_at = [r \in Requests |-> 0]
  /\ pc = [w \in Workers |-> "idle"]
  /\ held = [w \in Workers |-> Nobody]
  /\ retry_delay = [w \in Workers |-> 0]
  /\ target_cooldowns = [w \in Workers |-> 0]
  /\ asked_request = [r \in Requests |-> 0]
  /\ asked_worker = [w \in Workers |-> 0]
  /\ deferrals = [w \in Workers |-> NoDeferrals]
  /\ deaths = 0

-----------------------------------------------------------------------------
(* int() of a difference of two instants: towards zero, so 0 for a small   *)
(* negative one; max(0, ..) covers the others.                             *)
WholeSeconds(later, earlier) ==
  IF later <= earlier THEN 0 ELSE (later - earlier) \div Second

(* isoformat() writes the fraction only when there is one.  What follows   *)
(* the seconds is "+00:00" or ".ffffff+00:00", and bytewise + sorts before *)
(* the dot.                                                                *)
Isoformat(t) ==
  [seconds |-> t \div Second, mark |-> IF t % Second = 0 THEN "+" ELSE ".",
   fraction |-> t % Second]

(* Mutant: UTC is written as Z, which sorts after the dot.                 *)
MarkOrderZ(m, n) == m = "." /\ n = "+"

MarkOrder(m, n) == m = "+" /\ n = "."

(* a <= b as texts.                                                        *)
TextNotAfter(a, b) ==
  \/ a.seconds < b.seconds
  \/ /\ a.seconds = b.seconds
     /\ \/ MarkOrder(a.mark, b.mark)
        \/ a.mark = b.mark /\ a.fraction <= b.fraction

Eligible(r) ==
  /\ status[r] \in {"queued", "retrying"}
  /\ TextNotAfter(Isoformat(next_attempt_at[r]), Isoformat(time))

GoTo(w, label) == pc' = [pc EXCEPT ![w] = label]

SetDelay(w, d) == retry_delay' = [retry_delay EXCEPT ![w] = d]

Tick ==
  /\ time < MaxTime
  /\ time' = time + 1
  /\ UNCHANGED <<rowVars, workerVars, historyVars>>

Claim(w, r) ==
  /\ pc[w] = "idle"
  /\ Eligible(r)
  /\ status' = [status EXCEPT ![r] = "running"]
  /\ attempt_count' = [attempt_count EXCEPT ![r] = @ + 1]
  /\ held' = [held EXCEPT ![w] = r]
  /\ GoTo(w, "claimed")
  /\ UNCHANGED <<time, next_attempt_at, retry_delay, target_cooldowns, historyVars>>

(* The cooldown is compared with one reading of the clock ...              *)
NoticeCooldown(w) ==
  /\ pc[w] = "claimed"
  /\ target_cooldowns[w] > time
  /\ GoTo(w, "deferring")
  /\ UNCHANGED <<time, rowVars, held, retry_delay, target_cooldowns, historyVars>>

(* Mutant: the remainder cut to whole seconds is taken as it is.           *)
DeferCut(w) ==
  /\ pc[w] = "deferring"
  /\ SetDelay(w, WholeSeconds(target_cooldowns[w], time))
  /\ deferrals' = [deferrals EXCEPT ![w][held[w]] = @ + 1]
  /\ GoTo(w, "failing")
  /\ UNCHANGED <<time, rowVars, held, target_cooldowns, asked_request,
                 asked_worker, deaths>>

(* ... and its remainder computed from a second one, when it may be over.  *)
Defer(w) ==
  /\ pc[w] = "deferring"
  /\ LET left == WholeSeconds(target_cooldowns[w], time)
     IN  SetDelay(w, IF left = 0 THEN 1 ELSE left)
  /\ deferrals' = [deferrals EXCEPT ![w][held[w]] = @ + 1]
  /\ GoTo(w, "failing")
  /\ UNCHANGED <<time, rowVars, held, target_cooldowns, asked_request,
                 asked_worker, deaths>>

Execute(w) ==
  /\ pc[w] = "claimed"
  /\ target_cooldowns[w] <= time
  /\ GoTo(w, "executing")
  /\ UNCHANGED <<time, rowVars, held, retry_delay, target_cooldowns, historyVars>>

Asked(w, instant) ==
  /\ asked_request' = [asked_request EXCEPT ![held[w]] = instant]
  /\ asked_worker' = [asked_worker EXCEPT ![w] = instant]

(* Mutant: a hint is capped like the backoff.                              *)
ParseCapped(w) ==
  \/ \E h \in Hints : SetDelay(w, IF h > 1 THEN 1 ELSE h) /\ Asked(w, time + h * Second)
  \/ \E d \in Dates : SetDelay(w, WholeSeconds(d * Second, time)) /\ Asked(w, d * Second)

(* _parse_retry_after: seconds from now, or a date.                        *)
ParseRetryAfter(w) ==
  \/ \E h \in Hints : SetDelay(w, h) /\ Asked(w, time + h * Second)
  \/ \E d \in Dates : SetDelay(w, WholeSeconds(d * Second, time)) /\ Asked(w, d * Second)

RateLimited(w) ==
  /\ pc[w] = "executing"
  /\ ParseRetryAfter(w)
  /\ GoTo(w, "limited")
  /\ UNCHANGED <<time, rowVars, held, target_cooldowns, deferrals, deaths>>

(* The cooldown starts when the exception is handled.                      *)
StartCooldown(w) ==
  /\ pc[w] = "limited"
  /\ target_cooldowns' = [target_cooldowns EXCEPT ![w] = time + retry_delay[w] * Second]
  /\ deferrals' = [deferrals EXCEPT ![w] = NoDeferrals]
  /\ GoTo(w, "failing")
  /\ UNCHANGED <<time, rowVars, held, retry_delay, asked_request, asked_worker, deaths>>

Fail(w) ==
  /\ pc[w] = "executing"
  /\ \E d \in Backoffs : SetDelay(w, d)
  /\ GoTo(w, "failing")
  /\ UNCHANGED <<time, rowVars, held, target_cooldowns, historyVars>>

Return(w) ==
  /\ GoTo(w, "idle")
  /\ held' = [held EXCEPT ![w] = Nobody]
  /\ SetDelay(w, 0)

Succeed(w) ==
  /\ pc[w] = "executing"
  /\ status' = [status EXCEPT ![held[w]] = "completed"]
  /\ target_cooldowns' = [target_cooldowns EXCEPT ![w] = 0]
  /\ Return(w)
  /\ UNCHANGED <<time, attempt_count, next_attempt_at, historyVars>>

Exhausted(r) == attempt_count[r] >= MaxAttempts

(* fail_or_retry adds the delay to a later now.                            *)
RecordFailure(w) ==
  /\ pc[w] = "failing"
  /\ LET r == held[w]
     IN  /\ status' = [status EXCEPT ![r] =
                         IF Exhausted(r) THEN "dead_letter" ELSE "retrying"]
         /\ next_attempt_at' = [next_attempt_at EXCEPT ![r] =
              IF Exhausted(r) THEN @ ELSE time + retry_delay[w] * Second]
  /\ Return(w)
  /\ UNCHANGED <<time, attempt_count, target_cooldowns, historyVars>>

(* A worker that dies forgets its cooldowns (ADR 010 says so); the next    *)
(* process knows nothing of what the target asked of it.                   *)
Die(w) ==
  /\ deaths < MaxDeaths
  /\ deaths' = deaths + 1
  /\ Return(w)
  /\ target_cooldowns' = [target_cooldowns EXCEPT ![w] = 0]
  /\ asked_worker' = [asked_worker EXCEPT ![w] = 0]
  /\ deferrals' = [deferrals EXCEPT ![w] = NoDeferrals]
  /\ UNCHANGED <<time, rowVars, asked_request>>

Next ==
  \/ Tick
  \/ \E w \in Workers :
       \/ \E r \in Requests : Claim(w, r)
       \/ NoticeCooldown(w) \/ Defer(w) \/ Execute(w) \/ RateLimited(w)
       \/ StartCooldown(w) \/ Fail(w) \/ Succeed(w) \/ RecordFailure(w) \/ Die(w)

Spec == Init /\ [][Next]_vars

-----------------------------------------------------------------------------
(* next_attempt_at and now order as texts as the instants they stand for,  *)
(* whole seconds included, although their texts differ in length.          *)
EligibleWhenDue ==
  \A r \in Requests :
    status[r] \in {"queued", "retrying"} => (Eligible(r) <=> next_attempt_at[r] <= time)

(* One cooldown costs a request at most two attempts of one worker: the    *)
(* cut remainder may wake it up once while the target is still cooling,    *)
(* and the second deferral of at least a second outlasts the rest.         *)
DeferredAtMostTwice == \A w \in Workers, r \in Requests : deferrals[w][r] <= 2

Calls(w) == pc[w] = "claimed" /\ pc'[w] = "executing"

(* Nobody sends a rate-limited request, and the worker that was limited    *)
(* sends nothing to that target, a second or more before the instant the   *)
(* target asked for; only the fraction a date loses may be missing.        *)
RetryAfterKept ==
  [][\A w \in Workers : Calls(w) =>
       /\ time + Second > asked_request[held[w]]
       /\ time + Second > asked_worker[w]]_vars

=============================================================================

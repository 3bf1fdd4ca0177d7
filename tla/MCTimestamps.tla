----------------------------- MODULE MCTimestamps -----------------------------
(***************************************************************************)
(* The two views of time: clocks of many processes in whole seconds         *)
(* (AuditClock) and one clock in fractions of a second (Timers).  They share *)
(* nothing, so one of them at a time is enough.                             *)
(***************************************************************************)
EXTENDS AuditClock, TLC

CONSTANTS Second, TimedRequests, TimedAttempts, TimedWorkers, Hints, Dates,
          Backoffs, MaxTicks, MaxDeaths

VARIABLES
    part,
    time, status, timed_attempts, due_at, stage, in_hand, retry_delay,
    target_cooldowns, asked_request, asked_worker, deferrals, deaths

timedVars == <<time, status, timed_attempts, due_at, stage, in_hand, retry_delay,
               target_cooldowns, asked_request, asked_worker, deferrals, deaths>>

Timed == INSTANCE Timers WITH
    Requests <- TimedRequests, MaxAttempts <- TimedAttempts,
    Workers <- TimedWorkers, MaxTime <- MaxTicks,
    attempt_count <- timed_attempts, next_attempt_at <- due_at,
    pc <- stage, held <- in_hand

ASSUME TimedAssumption == Timed!TimersAssumption

TwoAttempts == [r \in Requests |-> 2]

Symmetry == Permutations(Workers) \cup Permutations(TimedRequests)

TimestampsInit == part \in {"clocks", "timers"} /\ Init /\ Timed!Init

TimestampsNext ==
    \/ part = "clocks" /\ Next /\ UNCHANGED <<part, timedVars>>
    \/ part = "timers" /\ Timed!Next /\ UNCHANGED <<part, vars>>

TimestampsSpec == TimestampsInit /\ [][TimestampsNext]_<<part, vars, timedVars>>

-----------------------------------------------------------------------------
(* Of Timers: text comparison, deferrals and Retry-After.                   *)

\* Stored times compare as the instants they stand for (see Timers).
EligibleWhenDue == Timed!EligibleWhenDue

\* One cooldown costs a request two attempts of one worker at most.
DeferredAtMostTwice == Timed!DeferredAtMostTwice

\* No call comes a second or more before the target asked for it.
RetryAfterKept == Timed!RetryAfterKept
=============================================================================

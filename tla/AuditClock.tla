----------------------------- MODULE AuditClock -----------------------------
(***************************************************************************)
(* The instants in the audit trail.  Every process stamps what it writes   *)
(* with a clock of its own: utc_now() before the transaction opens in      *)
(* create, claim, update_status and replay_dead_letter, inside it in       *)
(* fail_or_retry.  A clock never runs backwards; nothing else is assumed,  *)
(* so clocks may differ by any amount and a transaction may wait any time  *)
(* for a lock after its now was read.                                      *)
(***************************************************************************)
EXTENDS Naturals, Sequences

CONSTANTS
  Requests,
  MaxAttempts,
  Workers,
  Callers,     \* API threads
  Delays,      \* retry delays: hints, backoffs and cooldowns
  Nobody,
  MaxTime,     \* bound on the clocks
  MaxReplays   \* bound on replays

ASSUME ClockAssumption ==
  /\ MaxAttempts \in [Requests -> Nat \ {0}]
  /\ Workers \cap Callers = {}
  /\ Delays \subseteq Nat
  /\ Nobody \notin Requests
  /\ MaxTime \in Nat /\ MaxReplays \in Nat

VARIABLES
  clock,            \* of each process
  now,              \* what it has read last
  pc, held,         \* where it stands, and the request it owns
  attempt_count,
  next_attempt_at,
  trail,            \* the audit events of each request; status is the last
  replays

vars == <<clock, now, pc, held, attempt_count, next_attempt_at, trail, replays>>

Processes == Workers \cup Callers

(* An event, the instant it is stamped with, and the instant before which  *)
(* the row it leaves is not to be touched again.                           *)
Event ==
  [status : {"queued", "running", "retrying", "completed", "dead_letter"},
   at : Nat, due : Nat]

TypeOK ==
  /\ clock \in [Processes -> Nat]
  /\ now \in [Processes -> Nat]
  /\ pc \in [Processes -> {"idle", "opening", "owner", "completing"}]
  /\ held \in [Processes -> Requests \cup {Nobody}]
  /\ attempt_count \in [Requests -> Nat]
  /\ \A r \in Requests : attempt_count[r] <= MaxAttempts[r]
  /\ next_attempt_at \in [Requests -> Nat]
  /\ trail \in [Requests -> Seq(Event)]
  /\ replays \in Nat

Init ==
  /\ clock = [p \in Processes |-> 0]
  /\ now = [p \in Processes |-> 0]
  /\ pc = [p \in Processes |-> "idle"]
  /\ held = [p \in Processes |-> Nobody]
  /\ attempt_count = [r \in Requests |-> 0]
  /\ next_attempt_at = [r \in Requests |-> 0]
  /\ trail = [r \in Requests |-> <<>>]
  /\ replays = 0

-----------------------------------------------------------------------------
Last(r) == trail[r][Len(trail[r])]

HasStatus(r, S) == trail[r] # <<>> /\ Last(r).status \in S

AppendEvent(r, s, at, due) ==
  trail' = [trail EXCEPT ![r] = Append(@, [status |-> s, at |-> at, due |-> due])]

Move(p, label, r) ==
  /\ pc' = [pc EXCEPT ![p] = label]
  /\ held' = [held EXCEPT ![p] = r]

Tick(p) ==
  /\ clock[p] < MaxTime
  /\ clock' = [clock EXCEPT ![p] = @ + 1]
  /\ UNCHANGED <<now, pc, held, attempt_count, next_attempt_at, trail, replays>>

(* now = utc_now(), with the transaction still to be opened; in the middle *)
(* of an execution it is complete() that reads it.                         *)
ReadNow(p) ==
  /\ now' = [now EXCEPT ![p] = clock[p]]
  /\ \/ pc[p] = "idle" /\ Move(p, "opening", Nobody)
     \/ pc[p] = "owner" /\ Move(p, "completing", held[p])
  /\ UNCHANGED <<clock, attempt_count, next_attempt_at, trail, replays>>

Create(a, r) ==
  /\ pc[a] = "opening"
  /\ trail[r] = <<>>
  /\ next_attempt_at' = [next_attempt_at EXCEPT ![r] = now[a]]
  /\ AppendEvent(r, "queued", now[a], now[a])
  /\ Move(a, "idle", Nobody)
  /\ UNCHANGED <<clock, now, attempt_count, replays>>

Replay(a, r) ==
  /\ pc[a] = "opening"
  /\ replays < MaxReplays
  /\ HasStatus(r, {"dead_letter"})
  /\ attempt_count' = [attempt_count EXCEPT ![r] = 0]
  /\ next_attempt_at' = [next_attempt_at EXCEPT ![r] = now[a]]
  /\ AppendEvent(r, "queued", now[a], now[a])
  /\ Move(a, "idle", Nobody)
  /\ replays' = replays + 1
  /\ UNCHANGED <<clock, now>>

(* Mutant: a message is claimed whenever it arrives.                       *)
EligibleAnyTime(r, instant) == HasStatus(r, {"queued", "retrying"})

Eligible(r, instant) ==
  HasStatus(r, {"queued", "retrying"}) /\ next_attempt_at[r] <= instant

Claim(w, r) ==
  /\ pc[w] = "opening"
  /\ Eligible(r, now[w])
  /\ attempt_count' = [attempt_count EXCEPT ![r] = @ + 1]
  /\ AppendEvent(r, "running", now[w], now[w])
  /\ Move(w, "owner", r)
  /\ UNCHANGED <<clock, now, next_attempt_at, replays>>

(* Nothing was eligible, the row was not there, or the transaction failed. *)
GiveUp(p) ==
  /\ pc[p] = "opening"
  /\ Move(p, "idle", Nobody)
  /\ UNCHANGED <<clock, now, attempt_count, next_attempt_at, trail, replays>>

Complete(w) ==
  /\ pc[w] = "completing"
  /\ AppendEvent(held[w], "completed", now[w], now[w])
  /\ Move(w, "idle", Nobody)
  /\ UNCHANGED <<clock, now, attempt_count, next_attempt_at, replays>>

Exhausted(r) == attempt_count[r] >= MaxAttempts[r]

(* now is read inside the transaction; delay was computed before.          *)
FailOrRetry(w, delay) ==
  /\ pc[w] = "owner"
  /\ LET r == held[w]
         instant == clock[w]
     IN  /\ IF Exhausted(r)
              THEN /\ AppendEvent(r, "dead_letter", instant, instant)
                   /\ UNCHANGED next_attempt_at
              ELSE /\ AppendEvent(r, "retrying", instant, instant + delay)
                   /\ next_attempt_at' = [next_attempt_at EXCEPT ![r] = instant + delay]
         /\ now' = [now EXCEPT ![w] = instant]
  /\ Move(w, "idle", Nobody)
  /\ UNCHANGED <<clock, attempt_count, replays>>

(* The worker dies; another one with its own clock takes its place.        *)
Die(w) ==
  /\ pc[w] \in {"owner", "completing"}
  /\ Move(w, "idle", Nobody)
  /\ UNCHANGED <<clock, now, attempt_count, next_attempt_at, trail, replays>>

Next ==
  \/ \E p \in Processes : Tick(p) \/ ReadNow(p) \/ GiveUp(p)
  \/ \E a \in Callers, r \in Requests : Create(a, r) \/ Replay(a, r)
  \/ \E w \in Workers :
       \/ \E r \in Requests : Claim(w, r)
       \/ \E delay \in Delays : FailOrRetry(w, delay)
       \/ Complete(w) \/ Die(w)

Spec == Init /\ [][Next]_vars

-----------------------------------------------------------------------------
(* Whatever the skew of the clocks and however long a transaction waits    *)
(* after reading now, no event is stamped earlier than the one before it   *)
(* and no attempt is stamped before the retry was due; only an operator's  *)
(* replay may seem to precede the dead letter it replays.                  *)
TrailInTimeOrder ==
  \A r \in Requests : \A i \in 1..(Len(trail[r]) - 1) :
    trail[r][i + 1].status # "queued" => trail[r][i].due <= trail[r][i + 1].at

=============================================================================

------------------------ MODULE AutomationRepository ------------------------
(***************************************************************************)
(* app/repository.py over the tables of app/database.py.  Every operator   *)
(* below that primes a variable is one committed transaction.              *)
(*                                                                         *)
(* Time is relative: the code stores the instant next_attempt_at and       *)
(* compares it with now; the model stores the whole seconds left until     *)
(* that instant, and 0 stands for NULL or an instant already passed, which *)
(* _eligible_clause treats alike.                                          *)
(***************************************************************************)
EXTENDS Naturals, Sequences, FiniteSets

CONSTANTS
  Requests,     \* the ids a submission may draw (uuid4)
  MaxAttempts,  \* max_attempts of the request submitted under each id
  Key,          \* its idempotency_key
  NoKey,        \* ... when it has none
  DateLimit     \* the longest delay for which now + timedelta(..) is a date

ASSUME RepositoryAssumption ==
  /\ IsFiniteSet(Requests)
  /\ MaxAttempts \in [Requests -> Nat \ {0}]
  /\ DateLimit \in Nat

VARIABLES
  status,           \* column status, "absent" while there is no row
  attempt_count,    \* column attempt_count
  next_attempt_in,  \* seconds until column next_attempt_at
  created_at,       \* column created_at as a rank; 0 before it is drawn
  events            \* the rows of automation_events of each request

repositoryVars == <<status, attempt_count, next_attempt_in, created_at, events>>

AutomationStatus == {"queued", "running", "retrying", "completed", "dead_letter"}

(* An audit row: its status and the attempt number its detail quotes (0    *)
(* when the detail quotes none).                                           *)
AutomationEvent == [status : AutomationStatus, attempt : Nat]

RepositoryTypeOK ==
  /\ status \in [Requests -> AutomationStatus \cup {"absent"}]
  /\ attempt_count \in [Requests -> Nat]
  /\ next_attempt_in \in [Requests -> Nat]
  /\ created_at \in [Requests -> Nat]
  /\ events \in [Requests -> Seq(AutomationEvent)]

RepositoryInit ==
  /\ status = [r \in Requests |-> "absent"]
  /\ attempt_count = [r \in Requests |-> 0]
  /\ next_attempt_in = [r \in Requests |-> 0]
  /\ created_at = [r \in Requests |-> 0]
  /\ events = [r \in Requests |-> <<>>]

-----------------------------------------------------------------------------
Persisted(r) == status[r] # "absent"

(* Mutant: a claim that does not look at the status.                       *)
EligibleRunning(r) ==
  status[r] \in {"queued", "retrying", "running"} /\ next_attempt_in[r] = 0

(* Mutant: a claim that does not wait for next_attempt_at.                 *)
EligibleEarly(r) == status[r] \in {"queued", "retrying"}

Eligible(r) == status[r] \in {"queued", "retrying"} /\ next_attempt_in[r] = 0

(* ORDER BY created_at LIMIT 1 among the eligible rows.                    *)
OldestEligible(r) ==
  /\ Eligible(r)
  /\ \A q \in Requests : Eligible(q) => created_at[r] <= created_at[q]

(* The row the unique index on idempotency_key keeps r from duplicating.   *)
SameKey(r) ==
  {q \in Requests : Persisted(q) /\ Key[r] # NoKey /\ Key[q] = Key[r]}

(* Mutant: one attempt too many.                                           *)
ExhaustedLate(r) == attempt_count[r] > MaxAttempts[r]

Exhausted(r) == attempt_count[r] >= MaxAttempts[r]

(* Mutant: the terminal status the enum also offers.                       *)
OutcomeFailed(r) == IF Exhausted(r) THEN "failed" ELSE "retrying"

Outcome(r) == IF Exhausted(r) THEN "dead_letter" ELSE "retrying"

AppendEvent(r, s, n) ==
  events' = [events EXCEPT ![r] = Append(@, [status |-> s, attempt |-> n])]

-----------------------------------------------------------------------------
(* The two clock readings of create(): the id's created_at is read before  *)
(* the transaction that stores it.                                         *)
DrawCreatedAt(r) ==
  created_at' = [created_at EXCEPT
    ![r] = Cardinality({q \in Requests : created_at[q] # 0}) + 1]

(* The column values create() and replay_dead_letter() write alike.        *)
SetQueued(r) ==
  /\ status' = [status EXCEPT ![r] = "queued"]
  /\ attempt_count' = [attempt_count EXCEPT ![r] = 0]
  /\ next_attempt_in' = [next_attempt_in EXCEPT ![r] = 0]
  /\ AppendEvent(r, "queued", 0)
  /\ UNCHANGED created_at

(* Mutant: the caller is always handed its own candidate id.               *)
CreateReturnsCandidate(r, id) ==
  /\ id = r
  /\ IF SameKey(r) = {} THEN SetQueued(r) ELSE UNCHANGED repositoryVars

(* create() with an idempotency key already stored returns the stored id   *)
(* and writes nothing; so does losing the race for the unique index.       *)
Create(r, id) ==
  \/ /\ SameKey(r) = {}
     /\ id = r
     /\ SetQueued(r)
  \/ /\ id \in SameKey(r)
     /\ UNCHANGED repositoryVars

ClaimRow(r) ==
  /\ status' = [status EXCEPT ![r] = "running"]
  /\ attempt_count' = [attempt_count EXCEPT ![r] = @ + 1]
  /\ AppendEvent(r, "running", attempt_count[r] + 1)
  /\ UNCHANGED <<next_attempt_in, created_at>>

Complete(r) ==
  /\ status' = [status EXCEPT ![r] = "completed"]
  /\ next_attempt_in' = [next_attempt_in EXCEPT ![r] = 0]
  /\ AppendEvent(r, "completed", 0)
  /\ UNCHANGED <<attempt_count, created_at>>

(* fail_or_retry computes the date of the next attempt before it writes;   *)
(* past DateLimit the addition raises OverflowError.                       *)
Schedulable(r, delay) == Exhausted(r) \/ delay <= DateLimit

FailOrRetry(r, delay) ==
  /\ Schedulable(r, delay)
  /\ status' = [status EXCEPT ![r] = Outcome(r)]
  /\ next_attempt_in' =
       [next_attempt_in EXCEPT ![r] = IF Exhausted(r) THEN 0 ELSE delay]
  /\ AppendEvent(r, Outcome(r), attempt_count[r])
  /\ UNCHANGED <<attempt_count, created_at>>

(* Mutant: a replay that keeps the spent budget.                           *)
ReplayWithoutReset(r) ==
  /\ status[r] = "dead_letter"
  /\ status' = [status EXCEPT ![r] = "queued"]
  /\ next_attempt_in' = [next_attempt_in EXCEPT ![r] = 0]
  /\ AppendEvent(r, "queued", 0)
  /\ UNCHANGED <<attempt_count, created_at>>

(* Any other status answers 404 or 409 and changes nothing.                *)
ReplayDeadLetter(r) ==
  /\ status[r] = "dead_letter"
  /\ SetQueued(r)

=============================================================================

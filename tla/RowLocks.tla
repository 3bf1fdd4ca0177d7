------------------------------ MODULE RowLocks ------------------------------
(***************************************************************************)
(* The transactions of app/repository.py statement by statement: which     *)
(* rows a statement sees, which it locks, and what happens between its     *)
(* locks and its commit.  AutomationRepository takes each transaction as   *)
(* one step; this module shows that the request lifecycle survives the     *)
(* steps in between, and what SKIP LOCKED gives and costs.                 *)
(*                                                                         *)
(* PostgreSQL (read committed) locks rows; SQLite has one write lock, which*)
(* BEGIN IMMEDIATE takes at once and an UPDATE takes when it runs.         *)
(***************************************************************************)
EXTENDS Naturals

CONSTANTS
  Requests,     \* numbered in the order of created_at
  MaxAttempts,
  Workers,
  Operators,    \* API threads that replay dead letters
  Dialects,     \* of "postgresql" and "sqlite"
  QueueBackend, \* "database" or "redis": claim_next only, or claim as well
  Database,     \* SQLite's only lock
  Nobody,
  MaxFaults,    \* bound on transactions and attempts that end in an error
  MaxReplays    \* bound on calls of replay

ASSUME RowLocksAssumption ==
  /\ Requests \subseteq Nat
  /\ MaxAttempts \in [Requests -> Nat \ {0}]
  /\ Workers \cap Operators = {}
  /\ Dialects \subseteq {"postgresql", "sqlite"}
  /\ QueueBackend \in {"database", "redis"}
  /\ Database \notin Requests
  /\ Nobody \notin Workers \cup Operators \cup Requests
  /\ MaxFaults \in Nat /\ MaxReplays \in Nat

VARIABLES
  dialect,                \* of the database, for good
  status, attempt_count,  \* the committed columns
  lock,                   \* who holds the lock on a row, or on the database
  pc,                     \* where a session stands
  future,                 \* rows whose next_attempt_at some clock has yet to reach
  due,                    \* rows that are eligible at the now of a session's claim
                          \* whatever the clocks, and have been since it was read
  snapshot,               \* rows the open SELECT of a claim has still to visit
  held,                   \* the row a session claims, owns or replays
  seen,                   \* attempt_count as the session last read it
  faults, replays

tableVars == <<status, attempt_count>>
sessionVars == <<pc, due, snapshot, held, seen>>
vars == <<dialect, tableVars, future, lock, sessionVars, faults, replays>>

Sessions == Workers \cup Operators
Lockable == Requests \cup {Database}
Owning == {"owner", "failing", "completing", "record_failure",
           "record_completion"}

(* Where a session is in a transaction that may hold locks.                *)
InTransaction == {"scan", "update", "record_failure", "record_completion",
                  "replay", "refuse"}

TypeOK ==
  /\ dialect \in Dialects
  /\ status \in [Requests -> {"absent", "queued", "running", "retrying",
                              "completed", "dead_letter"}]
  /\ \A r \in Requests : attempt_count[r] \in 0..MaxAttempts[r]
  /\ lock \in [Lockable -> Sessions \cup {Nobody}]
  /\ future \subseteq Requests
  /\ pc \in [Sessions -> {"idle", "begin"} \cup InTransaction \cup Owning]
  /\ due \in [Sessions -> SUBSET Requests]
  /\ snapshot \in [Sessions -> SUBSET Requests]
  /\ held \in [Sessions -> Requests \cup {Nobody}]
  /\ seen \in [Sessions -> Nat]
  /\ faults \in 0..MaxFaults /\ replays \in 0..MaxReplays

Init ==
  /\ dialect \in Dialects
  /\ status = [r \in Requests |-> "absent"]
  /\ attempt_count = [r \in Requests |-> 0]
  /\ lock = [l \in Lockable |-> Nobody]
  /\ future = {}
  /\ pc = [s \in Sessions |-> "idle"]
  /\ due = [s \in Sessions |-> {}]
  /\ snapshot = [s \in Sessions |-> {}]
  /\ held = [s \in Sessions |-> Nobody]
  /\ seen = [s \in Sessions |-> 0]
  /\ faults = 0 /\ replays = 0

-----------------------------------------------------------------------------
LockOf(r) == IF dialect = "sqlite" THEN Database ELSE r

(* Mutant: SELECT without FOR UPDATE, BEGIN without IMMEDIATE.             *)
FreeUnchecked(s, l) == TRUE

Free(s, l) == lock[l] \in {Nobody, s}

CanLock(s, r) == Free(s, LockOf(r))

Lock(s, r) == lock' = [lock EXCEPT ![LockOf(r)] = s]

Release(s) == lock' = [l \in Lockable |-> IF lock[l] = s THEN Nobody ELSE lock[l]]

GoTo(s, label) == pc' = [pc EXCEPT ![s] = label]

Read(s, r) == /\ held' = [held EXCEPT ![s] = r]
              /\ seen' = [seen EXCEPT ![s] = attempt_count[r]]

(* The session forgets its request.                                        *)
Leave(s) ==
  /\ GoTo(s, "idle")
  /\ due' = [due EXCEPT ![s] = {}]
  /\ snapshot' = [snapshot EXCEPT ![s] = {}]
  /\ held' = [held EXCEPT ![s] = Nobody]
  /\ seen' = [seen EXCEPT ![s] = 0]

(* Mutant: the recheck accepts what another claim has made of the row.     *)
ClaimableAgain(r) == status[r] \in {"queued", "retrying", "running"}

Claimable(r) == status[r] \in {"queued", "retrying"}

ClaimableRows == {r \in Requests : Claimable(r)}

(* What _eligible_clause may hold of: of the rows that are not surely due  *)
(* at the now of the claim, any, for the clocks of hosts differ.           *)
Eligible(w) == {rows \in SUBSET ClaimableRows : due[w] \subseteq rows}

(* What the SELECT of a claim sees when it starts: all that is eligible,   *)
(* or the one row of a message.  (A message that is stale finds nothing,   *)
(* and run_once goes on with claim_next.)                                  *)
Visible(w) ==
  Eligible(w) \cup
  IF QueueBackend = "redis" THEN {rows \cap {q} : rows \in Eligible(w), q \in ClaimableRows}
                            ELSE {}

IsNext(w, r) == r \in snapshot[w] /\ \A q \in snapshot[w] : r <= q

PassOver(w, r) == snapshot' = [snapshot EXCEPT ![w] = @ \ {r}]

-----------------------------------------------------------------------------
(* create() commits (Submission has the details); next_attempt_at is now.  *)
Insert(r) ==
  /\ status[r] = "absent"
  /\ dialect = "sqlite" => lock[Database] = Nobody
  /\ status' = [status EXCEPT ![r] = "queued"]
  /\ future' = future \cup {r}
  /\ UNCHANGED <<attempt_count, lock, sessionVars, faults, replays>>

(* Time passes, on every host.                                             *)
ComesDue(r) ==
  /\ r \in future
  /\ future' = future \ {r}
  /\ UNCHANGED <<tableVars, lock, sessionVars, faults, replays>>

(* claim and claim_next read the clock before their transaction begins.    *)
ReadNow(w) ==
  /\ pc[w] = "idle"
  /\ GoTo(w, "begin")
  /\ due' = [due EXCEPT ![w] = ClaimableRows \ future]
  /\ UNCHANGED <<tableVars, future, lock, snapshot, held, seen, faults, replays>>

(* The SELECT starts; under SQLite BEGIN IMMEDIATE waits for the lock.     *)
StartClaim(w) ==
  /\ pc[w] = "begin"
  /\ IF dialect = "sqlite"
       THEN /\ Free(w, Database)
            /\ lock' = [lock EXCEPT ![Database] = w]
       ELSE UNCHANGED lock
  /\ \E rows \in Visible(w) :
       /\ snapshot' = [snapshot EXCEPT ![w] = rows]
       /\ due' = [due EXCEPT ![w] = rows]
  /\ GoTo(w, "scan")
  /\ UNCHANGED <<tableVars, future, held, seen, faults, replays>>

(* SKIP LOCKED: the next row is locked by another transaction.             *)
SkipRow(w, r) ==
  /\ pc[w] = "scan"
  /\ IsNext(w, r)
  /\ ~CanLock(w, r)
  /\ PassOver(w, r)
  /\ UNCHANGED <<tableVars, future, lock, pc, due, held, seen, faults, replays>>

(* The next row is locked and looked at again, for another transaction may *)
(* have changed it since the SELECT started: it may have been taken, or    *)
(* have failed since, or been replayed, and be due after the now of this   *)
(* claim.  LIMIT 1 ends the scan; a row passed over stays locked until     *)
(* this transaction ends.                                                  *)
LockRow(w, r) ==
  /\ pc[w] = "scan"
  /\ IsNext(w, r)
  /\ CanLock(w, r)
  /\ Lock(w, r)
  /\ \/ /\ Claimable(r)
        /\ GoTo(w, "update") /\ Read(w, r)
        /\ due' = [due EXCEPT ![w] = {}]
        /\ snapshot' = [snapshot EXCEPT ![w] = {}]
     \/ /\ r \notin due[w]
        /\ PassOver(w, r)
        /\ UNCHANGED <<pc, due, held, seen>>
  /\ UNCHANGED <<tableVars, future, faults, replays>>

NothingToClaim(w) ==
  /\ pc[w] = "scan"
  /\ snapshot[w] = {}
  /\ Leave(w) /\ Release(w)
  /\ UNCHANGED <<tableVars, future, faults, replays>>

WriteClaim(w) ==
  /\ pc[w] = "update"
  /\ status' = [status EXCEPT ![held[w]] = "running"]
  /\ attempt_count' = [attempt_count EXCEPT ![held[w]] = seen[w] + 1]
  /\ due' = [s \in Sessions |-> due[s] \ {held[w]}]
  /\ GoTo(w, "owner")
  /\ UNCHANGED <<future, snapshot, held, seen, faults, replays>>

(* Mutant: the attempt is executed before the transaction is committed.    *)
CommitClaimHolds(w) == WriteClaim(w) /\ UNCHANGED lock

(* _claim_row writes the attempt number it computed from the row it read.  *)
CommitClaim(w) == WriteClaim(w) /\ Release(w)

(* fail_or_retry's SELECT locks nothing.                                   *)
ReadAttempts(w) ==
  /\ pc[w] = "owner"
  /\ Read(w, held[w])
  /\ GoTo(w, "failing")
  /\ UNCHANGED <<tableVars, future, lock, due, snapshot, faults, replays>>

(* complete() reads nothing.                                               *)
StartCompletion(w) ==
  /\ pc[w] = "owner"
  /\ GoTo(w, "completing")
  /\ UNCHANGED <<tableVars, future, lock, due, snapshot, held, seen, faults, replays>>

(* Either UPDATE waits for the row.                                        *)
UpdateOutcome(w) ==
  /\ \/ pc[w] = "failing" /\ GoTo(w, "record_failure")
     \/ pc[w] = "completing" /\ GoTo(w, "record_completion")
  /\ CanLock(w, held[w])
  /\ Lock(w, held[w])
  /\ UNCHANGED <<tableVars, future, due, snapshot, held, seen, faults, replays>>

CommitOutcome(w) ==
  /\ \/ /\ pc[w] = "record_failure"
        /\ seen[w] >= MaxAttempts[held[w]]
        /\ status' = [status EXCEPT ![held[w]] = "dead_letter"]
        /\ UNCHANGED future
     \/ /\ pc[w] = "record_failure"
        /\ seen[w] < MaxAttempts[held[w]]
        /\ status' = [status EXCEPT ![held[w]] = "retrying"]
        /\ future' = future \cup {held[w]}
     \/ /\ pc[w] = "record_completion"
        /\ status' = [status EXCEPT ![held[w]] = "completed"]
        /\ UNCHANGED future
  /\ Leave(w) /\ Release(w)
  /\ UNCHANGED <<attempt_count, faults, replays>>

(* SELECT ... FOR UPDATE waits, locks the row whatever its status, and     *)
(* sees it as it then is.  (Where there is no row PostgreSQL locks none.)  *)
StartReplay(a, r) ==
  /\ pc[a] = "idle"
  /\ replays < MaxReplays
  /\ status[r] # "absent" \/ dialect = "sqlite"
  /\ CanLock(a, r)
  /\ Lock(a, r)
  /\ Read(a, r)
  /\ GoTo(a, IF status[r] = "dead_letter" THEN "replay" ELSE "refuse")
  /\ replays' = replays + 1
  /\ UNCHANGED <<tableVars, future, due, snapshot, faults>>

CommitReplay(a) ==
  /\ pc[a] = "replay"
  /\ status' = [status EXCEPT ![held[a]] = "queued"]
  /\ attempt_count' = [attempt_count EXCEPT ![held[a]] = 0]
  /\ future' = future \cup {held[a]}
  /\ Leave(a) /\ Release(a)
  /\ UNCHANGED <<faults, replays>>

(* Not a dead letter, or no request: the exception rolls back.             *)
RefuseReplay(a) ==
  /\ pc[a] = "refuse"
  /\ Leave(a) /\ Release(a)
  /\ UNCHANGED <<tableVars, future, faults, replays>>

(* Mutant: a failed transaction is neither rolled back nor closed; its row *)
(* locks stay with a connection that only an operator might still use.     *)
AbortLeaks(s) ==
  /\ pc[s] # "idle"
  /\ faults < MaxFaults
  /\ Leave(s)
  /\ lock' = [l \in Lockable |->
                IF lock[l] # s THEN lock[l]
                ELSE IF l = Database THEN Nobody
                ELSE CHOOSE a \in Operators : TRUE]
  /\ faults' = faults + 1
  /\ UNCHANGED <<tableVars, future, replays>>

(* The statement fails, the wait for SQLite's lock is too long, or the     *)
(* process dies: nothing of the transaction remains, and no claim either.  *)
Abort(s) ==
  /\ pc[s] # "idle"
  /\ faults < MaxFaults
  /\ Leave(s) /\ Release(s)
  /\ faults' = faults + 1
  /\ UNCHANGED <<tableVars, future, replays>>

WorkerStep(w) ==
  /\ UNCHANGED dialect
  /\ \/ ReadNow(w) \/ StartClaim(w) \/ NothingToClaim(w) \/ CommitClaim(w)
     \/ \E r \in Requests : SkipRow(w, r) \/ LockRow(w, r)
     \/ ReadAttempts(w) \/ StartCompletion(w) \/ UpdateOutcome(w)
     \/ CommitOutcome(w)

EndReplay(a) == CommitReplay(a) \/ RefuseReplay(a)

OperatorStep(a) == EndReplay(a) \/ \E r \in Requests : StartReplay(a, r)

Next ==
  \/ \E w \in Workers : WorkerStep(w)
  \/ /\ UNCHANGED dialect
     /\ \/ \E r \in Requests : Insert(r) \/ ComesDue(r)
        \/ \E a \in Operators : OperatorStep(a)
        \/ \E s \in Sessions : Abort(s)

Spec == Init /\ [][Next]_vars

(* A worker's loop goes on, a replay that holds its lock is not paused for *)
(* ever, and time passes; nobody is obliged to submit, to replay or to fail*)
FairSpec ==
  /\ Spec
  /\ \A w \in Workers : WF_vars(WorkerStep(w))
  /\ \A a \in Operators : WF_vars(EndReplay(a) /\ UNCHANGED dialect)
  /\ \A r \in Requests : WF_vars(ComesDue(r) /\ UNCHANGED dialect)

-----------------------------------------------------------------------------
(* Statement by statement the transactions still implement the lifecycle   *)
(* with exclusive owners (ADR 007:33): atomic claims are no assumption.    *)
Promise == INSTANCE Lifecycle WITH
  owners <- [r \in Requests |->
               {w \in Workers : pc[w] \in Owning /\ held[w] = r}]

LifecyclePromise == Promise!Spec

(* What a session computes with is what the row holds when it writes,      *)
(* although fail_or_retry reads without a lock: no update is lost.         *)
NoLostUpdate ==
  \A s \in Sessions :
    pc[s] \in {"update", "failing", "record_failure", "replay"} =>
      seen[s] = attempt_count[held[s]]

(* ADR 007:24, without waiting for one another: a claim passes over a      *)
(* locked row only while a transaction of another session is open that has *)
(* locked it.  No lock outlives its transaction, however that ends, nor is *)
(* one held while an attempt is executed; and on SQLite, where the clause  *)
(* means nothing, no claim ever skips.                                     *)
InWorkOfAnother(w, r) ==
  \E s \in Sessions \ {w} : lock[r] = s /\ pc[s] \in InTransaction

SkipsOnlyRowsInWork ==
  [][\A w \in Workers, r \in Requests :
       SkipRow(w, r) => dialect = "postgresql" /\ InWorkOfAnother(w, r)]_vars

(* A row passed over because it was locked, or was not due by the clock of *)
(* the claim, is not lost: whatever ended the transaction that held it, a  *)
(* request that waits, for its first attempt or for a retry, is claimed in *)
(* the end.                                                                *)
EventuallyClaimed ==
  \A r \in Requests : Claimable(r) ~> ~Claimable(r)

=============================================================================

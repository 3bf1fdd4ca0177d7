----------------------------- MODULE Submission -----------------------------
(***************************************************************************)
(* AutomationService.submit with AutomationRepository.create taken apart:  *)
(* the look-up of the idempotency key, the insert, its commit or its       *)
(* IntegrityError, the second look-up, the publish and the final read are  *)
(* steps of their own, of as many API threads as there are calls.  A call  *)
(* that a client repeats is another call with the same key.  With          *)
(* DISPATCH_BACKEND=redis: without a broker (dispatcher.brokered is false) *)
(* nothing is published, and submit goes from create to get.               *)
(***************************************************************************)
EXTENDS Naturals

CONSTANTS
  Calls,     \* also the request id each call draws
  Keys,      \* idempotency keys
  NoKey,
  KeyOf,     \* the key of a call, or NoKey
  Dialect,   \* "postgresql" or "sqlite"
  NoId,
  MaxFaults  \* bound on the calls that end in an exception from outside

ASSUME SubmissionAssumption ==
  /\ NoKey \notin Keys /\ NoId \notin Calls
  /\ KeyOf \in [Calls -> Keys \cup {NoKey}]
  /\ Dialect \in {"postgresql", "sqlite"}
  /\ MaxFaults \in Nat

VARIABLES
  row,         \* the row each call may insert: absent, inserted, committed
  pc,          \* where a call stands
  request_id,  \* the canonical id it has found
  published,   \* ids that have been pushed to the list
  faults

vars == <<row, pc, request_id, published, faults>>

Steps == {"look_up", "insert", "commit", "look_again", "publish", "get"}
WithId == {"publish", "get", "answered"}
Ends == {"answered", "failed", "conflict_raised", "runtime_error"}

TypeOK ==
  /\ row \in [Calls -> {"absent", "inserted", "committed"}]
  /\ pc \in [Calls -> Steps \cup Ends]
  /\ request_id \in [Calls -> Calls \cup {NoId}]
  /\ \A c \in Calls : pc[c] \in WithId => request_id[c] \in Calls
  /\ published \subseteq Calls
  /\ faults \in 0..MaxFaults

Init ==
  /\ row = [c \in Calls |-> "absent"]
  /\ pc = [c \in Calls |-> IF KeyOf[c] = NoKey THEN "insert" ELSE "look_up"]
  /\ request_id = [c \in Calls |-> NoId]
  /\ published = {}
  /\ faults = 0

Committed == {c \in Calls : row[c] = "committed"}

(* Mutant: no unique index on idempotency_key, only the primary key.       *)
SameUniqueNone(c, d) == c = d

(* The unique index lets only one of the two rows in.                      *)
SameUnique(c, d) == c = d \/ (KeyOf[c] \in Keys /\ KeyOf[c] = KeyOf[d])

(* The uncommitted rows an insert has to wait for: of the same key, or any *)
(* with SQLite's one write lock.                                           *)
Blocking(c) ==
  {d \in Calls : row[d] = "inserted" /\ (Dialect = "sqlite" \/ SameUnique(c, d))}

GoTo(c, label) == pc' = [pc EXCEPT ![c] = label]

(* The id the call goes on with.                                           *)
Found(c, d) == request_id' = [request_id EXCEPT ![c] = d]

-----------------------------------------------------------------------------
LookUp(c) ==
  /\ pc[c] = "look_up"
  /\ \/ \E d \in Committed : SameUnique(c, d) /\ Found(c, d) /\ GoTo(c, "publish")
     \/ /\ \A d \in Committed : ~SameUnique(c, d)
        /\ GoTo(c, "insert")
        /\ UNCHANGED request_id
  /\ UNCHANGED <<row, published, faults>>

Insert(c) ==
  /\ pc[c] = "insert"
  /\ Blocking(c) = {}
  /\ \A d \in Committed : ~SameUnique(c, d)
  /\ row' = [row EXCEPT ![c] = "inserted"]
  /\ GoTo(c, "commit")
  /\ UNCHANGED <<request_id, published, faults>>

(* IntegrityError; the transaction is rolled back.                         *)
Conflict(c) ==
  /\ pc[c] = "insert"
  /\ Blocking(c) = {}
  /\ \E d \in Committed : SameUnique(c, d)
  /\ GoTo(c, IF KeyOf[c] = NoKey THEN "conflict_raised" ELSE "look_again")
  /\ UNCHANGED <<row, request_id, published, faults>>

Commit(c) ==
  /\ pc[c] = "commit"
  /\ row' = [row EXCEPT ![c] = "committed"]
  /\ Found(c, c)
  /\ GoTo(c, "publish")
  /\ UNCHANGED <<published, faults>>

(* Mutant: the loser of the race answers with the id it drew.              *)
LookAgainKeepsOwn(c) ==
  /\ pc[c] = "look_again"
  /\ Found(c, c)
  /\ GoTo(c, "publish")
  /\ UNCHANGED <<row, published, faults>>

LookAgain(c) ==
  /\ pc[c] = "look_again"
  /\ \/ \E d \in Committed : SameUnique(c, d) /\ Found(c, d) /\ GoTo(c, "publish")
     \/ /\ \A d \in Committed : ~SameUnique(c, d)
        /\ GoTo(c, "conflict_raised")
        /\ UNCHANGED request_id
  /\ UNCHANGED <<row, published, faults>>

(* Mutant: only the call that created the row publishes it.                *)
PublishOwn(c) ==
  /\ pc[c] = "publish"
  /\ published' = published \cup ({request_id[c]} \cap {c})
  /\ GoTo(c, "get")
  /\ UNCHANGED <<row, request_id, faults>>

(* Found or created, the id is published.                                  *)
Publish(c) ==
  /\ pc[c] = "publish"
  /\ published' = published \cup {request_id[c]}
  /\ GoTo(c, "get")
  /\ UNCHANGED <<row, request_id, faults>>

Get(c) ==
  /\ pc[c] = "get"
  /\ GoTo(c, IF request_id[c] \in Committed THEN "answered" ELSE "runtime_error")
  /\ UNCHANGED <<row, request_id, published, faults>>

(* Mutant: the transaction of a dead call stays open.                      *)
FaultKeepsInsert(c) ==
  /\ pc[c] \in Steps
  /\ faults < MaxFaults
  /\ faults' = faults + 1
  /\ GoTo(c, "failed")
  /\ UNCHANGED <<row, request_id, published>>

(* A statement or the broker fails, a lock is waited for too long, or the  *)
(* process dies.  An insert is rolled back, or was committed although the  *)
(* commit's answer never arrived; an id may have been pushed likewise.     *)
Fault(c) ==
  /\ pc[c] \in Steps
  /\ faults < MaxFaults
  /\ faults' = faults + 1
  /\ GoTo(c, "failed")
  /\ \/ /\ row[c] # "inserted"
        /\ UNCHANGED row
     \/ /\ row[c] = "inserted"
        /\ \E outcome \in {"absent", "committed"} : row' = [row EXCEPT ![c] = outcome]
  /\ \/ UNCHANGED published
     \/ pc[c] = "publish" /\ published' = published \cup {request_id[c]}
  /\ UNCHANGED request_id

Call(c) ==
  \/ LookUp(c) \/ Insert(c) \/ Conflict(c) \/ Commit(c) \/ LookAgain(c)
  \/ Publish(c) \/ Get(c)

Next == \E c \in Calls : Call(c) \/ Fault(c)

Spec == Init /\ [][Next]_vars

(* The threads of the API's pool are all scheduled.                        *)
FairSpec == Spec /\ \A c \in Calls : WF_vars(Call(c))

-----------------------------------------------------------------------------
(* However the look-ups, inserts, commits and rollbacks of concurrent and  *)
(* repeated calls interleave, they behave as if each call stored or found  *)
(* its request in one step.                                                *)
Promise == INSTANCE IdempotentSubmission WITH
  NoAnswer <- NoId,
  stored <- Committed,
  answer <- [c \in Calls |-> IF pc[c] = "answered" THEN request_id[c] ELSE NoId]

SubmissionPromise == Promise!Spec

(* The two raises that guard against a missing row (repository.py:73 and   *)
(* service.py:25) are never reached, nor is a collision of two drawn ids.  *)
NoSpuriousError == \A c \in Calls : pc[c] \notin {"conflict_raised", "runtime_error"}

(* A client whose first call stored the row but failed to publish it has   *)
(* the id published by repeating the call: nobody is answered 202 for an   *)
(* id no call has pushed.                                                  *)
AnsweredIsPublished ==
  \A c \in Calls : pc[c] = "answered" => request_id[c] \in published

(* Calls that wait for one another's inserts all end.                      *)
CallsEnd == \A c \in Calls : <>(pc[c] \in Ends)

=============================================================================

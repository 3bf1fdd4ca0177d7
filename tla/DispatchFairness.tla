-------------------------- MODULE DispatchFairness --------------------------
(***************************************************************************)
(* Who is served, and when, under a load that never ends.  Orchestrator     *)
(* bounds the number of submissions; here a settled request makes room for  *)
(* a new one for ever, so that AutomationWorker.run_once, which looks at    *)
(* the table only when its message did not lead to a claim, can be asked    *)
(* whether every waiting request is served.                                 *)
(*                                                                          *)
(* A slot stands for a request; when it is settled and no message names it, *)
(* the slot stands for a new one.  A retry is due at once, transactions are *)
(* atomic and no worker dies: RowLocks, Timers and Orchestrator have those. *)
(***************************************************************************)
EXTENDS Naturals, Sequences, SequencesExt

CONSTANTS Slot, Worker,
          Brokered,      \* DISPATCH_BACKEND is redis
          MaxAttempts,   \* max_attempts of every request
          MaxQueue       \* bound on the length of the list

ASSUME FairnessAssumption ==
    /\ Brokered \in BOOLEAN
    /\ MaxAttempts \in Nat \ {0}
    /\ MaxQueue \in Nat

VARIABLES
    status,     \* status of the row of a slot, "settled" when it needs no more work
    attempts,   \* attempt_count
    order,      \* the unsettled slots by created_at
    sending,    \* slots whose submit has committed and not yet published
    queue,      \* the Redis list
    pc,         \* of a worker, in run_once
    held        \* the slots a worker's message names, or that it has claimed

vars == <<status, attempts, order, sending, queue, pc, held>>

Waiting == {s \in Slot : status[s] \in {"queued", "retrying"}}

Init ==
    /\ status = [s \in Slot |-> "settled"]
    /\ attempts = [s \in Slot |-> 0]
    /\ order = <<>>
    /\ sending = {}
    /\ queue = <<>>
    /\ pc = [w \in Worker |-> "idle"]
    /\ held = [w \in Worker |-> {}]

-----------------------------------------------------------------------------
(* AutomationService.submit *)

\* A slot is taken by a new request when nothing names the old one any more.
Create(s) ==
    /\ status[s] = "settled" /\ s \notin sending \cup ToSet(queue)
    /\ \A w \in Worker : s \notin held[w]
    /\ status' = [status EXCEPT ![s] = "queued"]
    /\ attempts' = [attempts EXCEPT ![s] = 0]
    /\ order' = Append(order, s)
    /\ sending' = IF Brokered THEN sending \cup {s} ELSE sending
    /\ UNCHANGED <<queue, pc, held>>

Publish(s) ==
    /\ s \in sending /\ Len(queue) < MaxQueue
    /\ queue' = Append(queue, s)
    /\ sending' = sending \ {s}
    /\ UNCHANGED <<status, attempts, order, pc, held>>

\* Redis refuses the push, or the API process dies before it.
FailToPublish(s) ==
    /\ s \in sending
    /\ sending' = sending \ {s}
    /\ UNCHANGED <<status, attempts, order, queue, pc, held>>

-----------------------------------------------------------------------------
(* AutomationWorker.run_once *)

GoTo(w, label, slots) ==
    /\ pc' = [pc EXCEPT ![w] = label]
    /\ held' = [held EXCEPT ![w] = slots]

\* Mutant: the list as a stack.
LatestMessage == Last(queue)

\* rpush appends and blpop takes the first element.
FirstMessage == Head(queue)

Consume(w) ==
    /\ Brokered /\ pc[w] = "idle" /\ queue # <<>>
    /\ GoTo(w, "claim", {FirstMessage})
    /\ queue' = Remove(queue, FirstMessage)
    /\ UNCHANGED <<status, attempts, order, sending>>

\* There is no broker, or blpop timed out.
ConsumeNothing(w) ==
    /\ pc[w] = "idle" /\ (Brokered => queue = <<>>)
    /\ GoTo(w, "claim_next", {})
    /\ UNCHANGED <<status, attempts, order, sending, queue>>

ClaimRow(w, s) ==
    /\ GoTo(w, "execute", {s})
    /\ status' = [status EXCEPT ![s] = "running"]
    /\ attempts' = [attempts EXCEPT ![s] = @ + 1]
    /\ UNCHANGED <<order, sending, queue>>

Claim(w) ==
    /\ pc[w] = "claim"
    /\ \E s \in held[w] \cap Waiting : ClaimRow(w, s)

\* The message is stale: the worker looks at the table.
StaleMessage(w) ==
    /\ pc[w] = "claim" /\ held[w] \cap Waiting = {}
    /\ GoTo(w, "claim_next", {})
    /\ UNCHANGED <<status, attempts, order, sending, queue>>

\* Mutant: ORDER BY created_at DESC.
NewestWaiting == Last(SelectSeq(order, LAMBDA s : s \in Waiting))

\* ORDER BY created_at LIMIT 1.
OldestWaiting == Head(SelectSeq(order, LAMBDA s : s \in Waiting))

ClaimNext(w) ==
    /\ pc[w] = "claim_next" /\ Waiting # {}
    /\ ClaimRow(w, OldestWaiting)

NothingToClaim(w) ==
    /\ pc[w] = "claim_next" /\ Waiting = {}
    /\ GoTo(w, "idle", {})
    /\ UNCHANGED <<status, attempts, order, sending, queue>>

Settle(w, s) ==
    /\ status' = [status EXCEPT ![s] = "settled"]
    /\ order' = Remove(order, s)

Complete(w) ==
    /\ pc[w] = "execute"
    /\ \E s \in held[w] : Settle(w, s)
    /\ GoTo(w, "idle", {})
    /\ UNCHANGED <<attempts, sending, queue>>

Exhausted(s) == attempts[s] >= MaxAttempts

FailOrRetry(w) ==
    /\ pc[w] = "execute"
    /\ \E s \in held[w] :
          IF Exhausted(s)
             THEN Settle(w, s)
             ELSE /\ status' = [status EXCEPT ![s] = "retrying"]
                  /\ UNCHANGED order
    /\ GoTo(w, "idle", {})
    /\ UNCHANGED <<attempts, sending, queue>>

-----------------------------------------------------------------------------
Step(w) ==
    \/ Consume(w) \/ ConsumeNothing(w) \/ Claim(w) \/ StaleMessage(w)
    \/ ClaimNext(w) \/ NothingToClaim(w) \/ Complete(w) \/ FailOrRetry(w)

Next ==
    \/ \E s \in Slot : Create(s) \/ Publish(s) \/ FailToPublish(s)
    \/ \E w \in Worker : Step(w)

Spec == Init /\ [][Next]_vars

\* run_forever never stops calling run_once, and no call waits for ever.
FairSpec == Spec /\ \A w \in Worker : WF_vars(Step(w))

-----------------------------------------------------------------------------
TypeOK ==
    /\ status \in [Slot -> {"settled", "queued", "running", "retrying"}]
    /\ attempts \in [Slot -> 0 .. MaxAttempts]
    /\ ToSet(order) = {s \in Slot : status[s] # "settled"} /\ IsInjective(order)
    /\ ToSet(queue) \subseteq Slot /\ IsInjective(queue) /\ Len(queue) <= MaxQueue
    /\ sending \subseteq Slot \ ToSet(queue)
    /\ pc \in [Worker -> {"idle", "claim", "claim_next", "execute"}]
    /\ held \in [Worker -> SUBSET Slot]

\* docs/architecture.md: a request whose message was lost, or whose retry is
\* due, is found in the table.  It is claimed in the end, however many requests
\* are submitted after it (AutomationWorker.run_once).
WaitingIsServed ==
    \A s \in Slot : s \in Waiting ~> s \notin Waiting

\* A message that reached the list is taken from it, whatever is published
\* later and however many retries are found in the table (consume).
PublishedIsConsumed ==
    \A s \in Slot : s \in ToSet(queue) ~> s \notin ToSet(queue)

\* What the code gives with a broker: if time and again a worker comes to look
\* at the table (the list is empty, or a message is stale), then every waiting
\* request is served, oldest first.
FallbackServes ==
    ([]<>(\E w \in Worker : pc[w] = "claim_next")) => WaitingIsServed
=============================================================================

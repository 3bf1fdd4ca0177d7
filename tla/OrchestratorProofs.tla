------------------------- MODULE OrchestratorProofs -------------------------
(***************************************************************************)
(* Type correctness, safety and refinement of Orchestrator, for every set  *)
(* of requests, workers, targets and callers and every attempt budget,     *)
(* delay and bound; and what the reports of AuditReads show of it.         *)
(*                                                                         *)
(* TypeOK is inductive together with InHand: a row is written, and an id   *)
(* is published, only for the request a worker or an API call has in hand. *)
(* The inductive invariant IInv adds what makes claims exclusive and keeps *)
(* them within the budget of attempts, and that the id create() is about   *)
(* to store has no row yet.  Every later proof takes IInv for granted and  *)
(* adds what its own property needs: a step is first reduced to what it    *)
(* does to one row, one worker or one call.                                *)
(***************************************************************************)
EXTENDS AuditReads, Sums

-----------------------------------------------------------------------------
(* Types.  First the operators of the repository, each one transaction.    *)

(* A row written by create() or a replay is well typed.                    *)
LEMMA SetQueuedType ==
  ASSUME RepositoryTypeOK, NEW r \in Requests, SetQueued(r)
  PROVE  RepositoryTypeOK'
<1>1. [status |-> "queued", attempt |-> 0] \in AutomationEvent
  BY DEF AutomationEvent, AutomationStatus
<1>2. events' \in [Requests -> Seq(AutomationEvent)]
  BY <1>1 DEF RepositoryTypeOK, SetQueued, AppendEvent
<1> QED
  BY <1>2 DEF RepositoryTypeOK, SetQueued, AutomationStatus

(* The same for a claim,                                                   *)
LEMMA ClaimRowType ==
  ASSUME RepositoryTypeOK, NEW r \in Requests, ClaimRow(r)
  PROVE  RepositoryTypeOK'
<1>1. [status |-> "running", attempt |-> attempt_count[r] + 1] \in AutomationEvent
  BY DEF RepositoryTypeOK, AutomationEvent, AutomationStatus
<1>2. events' \in [Requests -> Seq(AutomationEvent)]
  BY <1>1 DEF RepositoryTypeOK, ClaimRow, AppendEvent
<1>3. attempt_count' \in [Requests -> Nat]
  BY DEF RepositoryTypeOK, ClaimRow
<1>4. status' \in [Requests -> AutomationStatus \cup {"absent"}]
  BY DEF RepositoryTypeOK, ClaimRow, AutomationStatus
<1> QED
  BY <1>2, <1>3, <1>4 DEF RepositoryTypeOK, ClaimRow

(* a completion,                                                           *)
LEMMA CompleteType ==
  ASSUME RepositoryTypeOK, NEW r \in Requests, Complete(r)
  PROVE  RepositoryTypeOK'
<1>1. [status |-> "completed", attempt |-> 0] \in AutomationEvent
  BY DEF AutomationEvent, AutomationStatus
<1>2. events' \in [Requests -> Seq(AutomationEvent)]
  BY <1>1 DEF RepositoryTypeOK, Complete, AppendEvent
<1> QED
  BY <1>2 DEF RepositoryTypeOK, Complete, AutomationStatus

(* and a recorded failure.                                                 *)
LEMMA FailOrRetryType ==
  ASSUME RepositoryTypeOK, NEW r \in Requests, NEW d \in Nat, FailOrRetry(r, d)
  PROVE  RepositoryTypeOK'
<1>1. Outcome(r) \in AutomationStatus
  BY DEF Outcome, AutomationStatus
<1>2. [status |-> Outcome(r), attempt |-> attempt_count[r]] \in AutomationEvent
  BY <1>1 DEF RepositoryTypeOK, AutomationEvent
<1>3. events' \in [Requests -> Seq(AutomationEvent)]
  BY <1>2 DEF RepositoryTypeOK, FailOrRetry, AppendEvent
<1> QED
  BY <1>1, <1>3 DEF RepositoryTypeOK, FailOrRetry

(* The rank of a new submission is a number, because the ids are finite.   *)
LEMMA DrawCreatedAtRank ==
  ASSUME NEW r \in Requests, DrawCreatedAt(r)
  PROVE  \E n \in Nat \ {0} : created_at' = [created_at EXCEPT ![r] = n]
<1> DEFINE Drawn == {q \in Requests : created_at[q] # 0}
<1>1. IsFiniteSet(Drawn)
  BY RepositoryAssumption, FS_Subset DEF RepositoryAssumption
<1>2. Cardinality(Drawn) \in Nat
  BY <1>1, FS_CardinalityType
<1> HIDE DEF Drawn
<1>3. PICK n \in Nat \ {0} : n = Cardinality(Drawn) + 1
  BY <1>2
<1> QED
  BY <1>3 DEF Drawn, DrawCreatedAt

-----------------------------------------------------------------------------
(* Types of the whole state, with what is in hand: the initial states.     *)
LEMMA TypeInit == Init => TypeOK /\ InHand
<1> SUFFICES ASSUME Init PROVE TypeOK /\ InHand
  OBVIOUS
<1> USE RepositoryAssumption, DispatchAssumption, WorkerAssumption,
        ServiceAssumption
<1>1. RepositoryTypeOK
  BY DEF Init, RepositoryInit, RepositoryTypeOK
<1>2. queue \in Seq(Requests) /\ broker_faults \in 0..MaxBrokerFaults
  BY DEF Init, DispatchInit, DispatchAssumption
<1>3. WorkerTypeOK
  BY DEF Init, WorkerInit, WorkerTypeOK
<1>4. ServiceTypeOK
  BY DEF Init, ServiceInit, ServiceTypeOK, ServiceAssumption
<1>5. InHand
  BY DEF Init, WorkerInit, ServiceInit, InHand, WorkerInHand, CallInHand,
         Owning
<1> QED
  BY <1>1, <1>2, <1>3, <1>4, <1>5 DEF TypeOK

(* Delays and cooldowns are whole numbers of seconds.                      *)
LEMMA BackoffType ==
  ASSUME NEW n PROVE Backoff(n) \subseteq Nat
<1>1. Jitter(MaxRetryDelay) \in Nat
  BY WorkerAssumption DEF WorkerAssumption, Jitter
<1>2. 0 .. MaxRetryDelay + Jitter(MaxRetryDelay) \subseteq Nat
  BY <1>1, WorkerAssumption DEF WorkerAssumption
<1> QED
  BY <1>2 DEF Backoff

LEMMA CooldownType ==
  ASSUME NEW k \in Nat PROVE CooldownDelays(k) \subseteq Nat
BY DEF CooldownDelays

(* A step that leaves the rows alone leaves them well typed; likewise the  *)
(* list.                                                                   *)
LEMMA RowsUntouched ==
  ASSUME RepositoryTypeOK, UNCHANGED repositoryVars PROVE RepositoryTypeOK'
BY DEF RepositoryTypeOK, repositoryVars

DispatchTypeOK ==
  queue \in Seq(Requests) /\ broker_faults \in 0..MaxBrokerFaults

LEMMA ListUntouched ==
  ASSUME DispatchTypeOK, UNCHANGED dispatchVars PROVE DispatchTypeOK'
BY DEF DispatchTypeOK, dispatchVars

(* Every step of run_once keeps the types, and leaves in the hands of a    *)
(* worker a request.                                                       *)
LEMMA RunOnceTypes ==
  ASSUME RepositoryTypeOK, DispatchTypeOK, WorkerTypeOK, WorkerInHand,
         NEW w \in Workers, RunOnce(w)
  PROVE  RepositoryTypeOK' /\ DispatchTypeOK' /\ WorkerTypeOK' /\ WorkerInHand'
<1> USE WorkerAssumption DEF Owning
<1>1. CASE ConsumeMessage(w)
  <2>1. RepositoryTypeOK'
    BY <1>1, RowsUntouched DEF ConsumeMessage
  <2>2. DispatchTypeOK'
    BY <1>1 DEF ConsumeMessage, Consume, DispatchTypeOK
  <2>5. WorkerTypeOK'
    BY <1>1 DEF ConsumeMessage, GoTo, Hold, historyVars, WorkerTypeOK
  <2>6. WorkerInHand'
    BY <1>1 DEF ConsumeMessage, GoTo, Hold, historyVars, WorkerTypeOK, WorkerInHand
  <2> QED
    BY <2>1, <2>2, <2>5, <2>6
<1>2. CASE PollDatabase(w)
  <2>1. RepositoryTypeOK'
    BY <1>2, RowsUntouched DEF PollDatabase
  <2>2. DispatchTypeOK'
    BY <1>2, ListUntouched DEF PollDatabase
  <2>5. WorkerTypeOK'
    BY <1>2 DEF PollDatabase, GoTo, historyVars, WorkerTypeOK
  <2>6. WorkerInHand'
    BY <1>2 DEF PollDatabase, GoTo, historyVars, WorkerTypeOK, WorkerInHand
  <2> QED
    BY <2>1, <2>2, <2>5, <2>6
<1>3. CASE ClaimMessage(w)
  <2>1. RepositoryTypeOK'
    BY <1>3, ClaimRowType DEF ClaimMessage, WorkerInHand
  <2>2. DispatchTypeOK'
    BY <1>3, ListUntouched DEF ClaimMessage
  <2>5. WorkerTypeOK'
    BY <1>3 DEF ClaimMessage, GoTo, historyVars, WorkerTypeOK
  <2>6. WorkerInHand'
    BY <1>3 DEF ClaimMessage, GoTo, historyVars, WorkerTypeOK, WorkerInHand
  <2> QED
    BY <2>1, <2>2, <2>5, <2>6
<1>4. CASE StaleMessage(w)
  <2>1. RepositoryTypeOK'
    BY <1>4, RowsUntouched DEF StaleMessage
  <2>2. DispatchTypeOK'
    BY <1>4, ListUntouched DEF StaleMessage
  <2>5. WorkerTypeOK'
    BY <1>4 DEF StaleMessage, GoTo, Hold, historyVars, WorkerTypeOK
  <2>6. WorkerInHand'
    BY <1>4 DEF StaleMessage, GoTo, Hold, historyVars, WorkerTypeOK, WorkerInHand
  <2> QED
    BY <2>1, <2>2, <2>5, <2>6
<1>5. CASE ClaimNext(w)
  <2>1. RepositoryTypeOK'
    BY <1>5, ClaimRowType DEF ClaimNext
  <2>2. DispatchTypeOK'
    BY <1>5, ListUntouched DEF ClaimNext
  <2>5. WorkerTypeOK'
    BY <1>5 DEF ClaimNext, GoTo, Hold, historyVars, WorkerTypeOK
  <2>6. WorkerInHand'
    BY <1>5 DEF ClaimNext, GoTo, Hold, historyVars, WorkerTypeOK, WorkerInHand
  <2> QED
    BY <2>1, <2>2, <2>5, <2>6
<1>6. CASE NothingEligible(w)
  <2>1. RepositoryTypeOK'
    BY <1>6, RowsUntouched DEF NothingEligible
  <2>2. DispatchTypeOK'
    BY <1>6, ListUntouched DEF NothingEligible
  <2>5. WorkerTypeOK'
    BY <1>6 DEF NothingEligible, Return, GoTo, Hold, SetDelay, historyVars, WorkerTypeOK
  <2>6. WorkerInHand'
    BY <1>6 DEF NothingEligible, Return, GoTo, Hold, SetDelay, historyVars, WorkerTypeOK, WorkerInHand
  <2> QED
    BY <2>1, <2>2, <2>5, <2>6
<1>7. CASE Defer(w)
  <2>1. RepositoryTypeOK'
    BY <1>7, RowsUntouched DEF Defer
  <2>2. DispatchTypeOK'
    BY <1>7, ListUntouched DEF Defer
  <2>3. Cooldown(w, held[w]) \in Nat
    BY <1>7 DEF Defer, Cooldown, WorkerTypeOK, WorkerInHand, WorkerAssumption
  <2>4. PICK d \in Nat : SetDelay(w, d)
    BY <1>7, <2>3, CooldownType DEF Defer
  <2>5. WorkerTypeOK'
    BY <1>7, <2>4 DEF Defer, GoTo, SetDelay, historyVars, WorkerTypeOK
  <2>6. WorkerInHand'
    BY <1>7 DEF Defer, GoTo, SetDelay, historyVars, WorkerTypeOK, WorkerInHand
  <2> QED
    BY <2>1, <2>2, <2>5, <2>6
<1>8. CASE Execute(w)
  <2>1. RepositoryTypeOK'
    BY <1>8, RowsUntouched DEF Execute
  <2>2. DispatchTypeOK'
    BY <1>8, ListUntouched DEF Execute
  <2>3. held[w] \in Requests
    BY <1>8 DEF Execute, WorkerInHand
  <2>4. calls' \in [Requests -> Nat]
    BY <1>8, <2>3 DEF Execute, WorkerTypeOK
  <2>5. WorkerTypeOK'
    BY <1>8, <2>4 DEF Execute, GoTo, WorkerTypeOK
  <2>6. WorkerInHand'
    BY <1>8 DEF Execute, GoTo, WorkerTypeOK, WorkerInHand
  <2> QED
    BY <2>1, <2>2, <2>5, <2>6
<1>9. CASE Succeed(w)
  <2>1. RepositoryTypeOK'
    BY <1>9, RowsUntouched DEF Succeed
  <2>2. DispatchTypeOK'
    BY <1>9, ListUntouched DEF Succeed
  <2>5. WorkerTypeOK'
    BY <1>9 DEF Succeed, GoTo, SetCooldown, historyVars, WorkerTypeOK
  <2>6. WorkerInHand'
    BY <1>9 DEF Succeed, GoTo, SetCooldown, historyVars, WorkerTypeOK, WorkerInHand
  <2> QED
    BY <2>1, <2>2, <2>5, <2>6
<1>10. CASE RateLimited(w)
  <2>1. RepositoryTypeOK'
    BY <1>10, RowsUntouched DEF RateLimited
  <2>2. DispatchTypeOK'
    BY <1>10, ListUntouched DEF RateLimited
  <2>3. PICK h \in Nat :
           /\ SetDelay(w, h)
           /\ SetCooldown(w, Target[held[w]], h)
           /\ hint_left' = [hint_left EXCEPT ![held[w]] = h]
    BY <1>10 DEF RateLimited, WorkerAssumption
  <2>4. target_cooldowns' \in [Workers -> [Targets -> Nat]]
    BY <2>3 DEF SetCooldown, WorkerTypeOK
  <2>5. WorkerTypeOK'
    BY <1>10, <2>3, <2>4 DEF RateLimited, GoTo, SetDelay, WorkerTypeOK
  <2>6. WorkerInHand'
    BY <1>10 DEF RateLimited, GoTo, SetDelay, SetCooldown, WorkerAssumption, WorkerTypeOK, WorkerInHand
  <2> QED
    BY <2>1, <2>2, <2>5, <2>6
<1>11. CASE Fail(w)
  <2>1. RepositoryTypeOK'
    BY <1>11, RowsUntouched DEF Fail
  <2>2. DispatchTypeOK'
    BY <1>11, ListUntouched DEF Fail
  <2>3. PICK d \in Nat : SetDelay(w, d)
    BY <1>11, BackoffType DEF Fail
  <2>5. WorkerTypeOK'
    BY <1>11, <2>3 DEF Fail, GoTo, SetDelay, historyVars, WorkerTypeOK
  <2>6. WorkerInHand'
    BY <1>11 DEF Fail, GoTo, SetDelay, historyVars, WorkerTypeOK, WorkerInHand
  <2> QED
    BY <2>1, <2>2, <2>5, <2>6
<1>12. CASE RecordCompletion(w)
  <2>1. RepositoryTypeOK'
    BY <1>12, CompleteType DEF RecordCompletion, WorkerInHand
  <2>2. DispatchTypeOK'
    BY <1>12, ListUntouched DEF RecordCompletion
  <2>5. WorkerTypeOK'
    BY <1>12 DEF RecordCompletion, Return, GoTo, Hold, SetDelay, historyVars, WorkerTypeOK
  <2>6. WorkerInHand'
    BY <1>12 DEF RecordCompletion, Return, GoTo, Hold, SetDelay, historyVars, WorkerTypeOK, WorkerInHand
  <2> QED
    BY <2>1, <2>2, <2>5, <2>6
<1>13. CASE RecordFailure(w)
  <2>1. RepositoryTypeOK'
    BY <1>13, FailOrRetryType DEF RecordFailure, WorkerInHand, WorkerTypeOK
  <2>2. DispatchTypeOK'
    BY <1>13, ListUntouched DEF RecordFailure
  <2>5. WorkerTypeOK'
    BY <1>13 DEF RecordFailure, Return, GoTo, Hold, SetDelay, historyVars, WorkerTypeOK
  <2>6. WorkerInHand'
    BY <1>13 DEF RecordFailure, Return, GoTo, Hold, SetDelay, historyVars, WorkerTypeOK, WorkerInHand
  <2> QED
    BY <2>1, <2>2, <2>5, <2>6
<1>14. CASE RecordFailureRaises(w)
  <2>1. RepositoryTypeOK'
    BY <1>14, RowsUntouched DEF RecordFailureRaises
  <2>2. DispatchTypeOK'
    BY <1>14, ListUntouched DEF RecordFailureRaises
  <2>5. WorkerTypeOK'
    BY <1>14 DEF RecordFailureRaises, Die, GoTo, Hold, SetDelay, WorkerTypeOK
  <2>6. WorkerInHand'
    BY <1>14 DEF RecordFailureRaises, Die, GoTo, Hold, SetDelay, WorkerTypeOK, WorkerInHand
  <2> QED
    BY <2>1, <2>2, <2>5, <2>6
<1> QED
  BY <1>1, <1>2, <1>3, <1>4, <1>5, <1>6, <1>7, <1>8, <1>9, <1>10, <1>11, <1>12, <1>13, <1>14 DEF RunOnce

(* So do the death of a worker and its restart.                            *)
LEMMA LifeTypes ==
  ASSUME RepositoryTypeOK, DispatchTypeOK, WorkerTypeOK, WorkerInHand,
         NEW w \in Workers, Crash(w) \/ Restart(w)
  PROVE  RepositoryTypeOK' /\ DispatchTypeOK' /\ WorkerTypeOK' /\ WorkerInHand'
<1>1. RepositoryTypeOK'
  BY RowsUntouched DEF Crash, Restart
<1>2. DispatchTypeOK'
  BY ListUntouched DEF Crash, Restart
<1>3. WorkerTypeOK'
  <2>1. CASE Crash(w)
    BY <2>1 DEF Crash, Die, GoTo, Hold, SetDelay, WorkerTypeOK
  <2>2. CASE Restart(w)
    BY <2>2 DEF Restart, GoTo, historyVars, WorkerTypeOK
  <2> QED
    BY <2>1, <2>2
<1>4. WorkerInHand'
  BY DEF Crash, Restart, Die, GoTo, Hold, SetDelay, historyVars, WorkerTypeOK,
         WorkerInHand, Owning
<1> QED
  BY <1>1, <1>2, <1>3, <1>4

(* Every step of an API call keeps the types and what calls have in hand.  *)
LEMMA ServiceCallTypes ==
  ASSUME RepositoryTypeOK, DispatchTypeOK, ServiceTypeOK, CallInHand,
         NEW a \in Callers, ServiceCall(a)
  PROVE  RepositoryTypeOK' /\ DispatchTypeOK' /\ ServiceTypeOK' /\ CallInHand'
<1> USE ServiceAssumption DEF ServiceAssumption
<1>1. ASSUME NEW r \in Requests, Submit(a, r)
      PROVE  RepositoryTypeOK' /\ DispatchTypeOK' /\ ServiceTypeOK' /\ CallInHand'
  <2>1. created_at' \in [Requests -> Nat]
    BY <1>1, DrawCreatedAtRank DEF Submit, RepositoryTypeOK
  <2>2. RepositoryTypeOK'
    BY <1>1, <2>1 DEF Submit, RepositoryTypeOK
  <2>3. DispatchTypeOK'
    BY <1>1, ListUntouched DEF Submit
  <2>4. ServiceTypeOK' /\ CallInHand'
    BY <1>1 DEF Submit, Proceed, ServiceTypeOK, CallInHand
  <2> QED
    BY <2>2, <2>3, <2>4
<1>2. ASSUME NEW r \in Requests, Replay(a, r)
      PROVE  RepositoryTypeOK' /\ DispatchTypeOK' /\ ServiceTypeOK' /\ CallInHand'
  <2>1. RepositoryTypeOK'
    BY <1>2, SetQueuedType DEF Replay, ReplayDeadLetter
  <2>2. DispatchTypeOK'
    BY <1>2, ListUntouched DEF Replay
  <2>3. ServiceTypeOK' /\ CallInHand'
    BY <1>2 DEF Replay, AfterCommit, Proceed, ServiceTypeOK, CallInHand
  <2> QED
    BY <2>1, <2>2, <2>3
<1>3. CASE CreateRow(a)
  <2>1. api_id[a] \in Requests
    BY <1>3 DEF CreateRow, CallInHand
  <2>2. PICK id \in Requests : Create(api_id[a], id) /\ AfterCommit(a, id)
    BY <1>3 DEF CreateRow
  <2>3. RepositoryTypeOK'
    BY <2>1, <2>2, SetQueuedType, RowsUntouched DEF Create
  <2>4. DispatchTypeOK'
    BY <1>3, ListUntouched DEF CreateRow
  <2>5. ServiceTypeOK' /\ CallInHand'
    BY <1>3, <2>2 DEF CreateRow, AfterCommit, Proceed, ServiceTypeOK, CallInHand
  <2> QED
    BY <2>3, <2>4, <2>5
<1>4. CASE PublishId(a)
  <2>1. api_id[a] \in Requests
    BY <1>4 DEF PublishId, CallInHand
  <2>2. RepositoryTypeOK'
    BY <1>4, RowsUntouched DEF PublishId
  <2>3. DispatchTypeOK'
    BY <1>4, <2>1 DEF PublishId, Publish, DispatchTypeOK
  <2>4. ServiceTypeOK' /\ CallInHand'
    BY <1>4 DEF PublishId, Proceed, ServiceTypeOK, CallInHand
  <2> QED
    BY <2>2, <2>3, <2>4
<1>5. CASE CallFails(a)
  <2>1. RepositoryTypeOK'
    BY <1>5, RowsUntouched DEF CallFails
  <2>2. DispatchTypeOK'
    BY <1>5, ListUntouched DEF CallFails
  <2>3. ServiceTypeOK' /\ CallInHand'
    BY <1>5 DEF CallFails, Proceed, ServiceTypeOK, CallInHand
  <2> QED
    BY <2>1, <2>2, <2>3
<1> QED
  BY <1>1, <1>2, <1>3, <1>4, <1>5 DEF ServiceCall

(* A disturbed list still holds ids of requests.                           *)
LEMMA BrokerTypes ==
  ASSUME DispatchTypeOK, Broker PROVE DispatchTypeOK'
<1> USE DispatchAssumption DEF DispatchAssumption, DispatchTypeOK, BrokerFault
<1>1. CASE BrokerLoses
  BY <1>1 DEF BrokerLoses
<1>2. ASSUME NEW r \in Requests, BrokerRedelivers(r) PROVE DispatchTypeOK'
  BY <1>2 DEF BrokerRedelivers
<1> QED
  BY <1>1, <1>2 DEF Broker

(* A second less on every timer is a number of seconds.                    *)
LEMMA TickTypes ==
  ASSUME RepositoryTypeOK, WorkerTypeOK, Tick
  PROVE  RepositoryTypeOK' /\ WorkerTypeOK'
<1>1. \A k \in Nat : CountDown(k) \in Nat
  BY DEF CountDown
<1>2. RepositoryTypeOK'
  BY <1>1 DEF Tick, RepositoryTypeOK
<1>3. WorkerTypeOK'
  BY <1>1 DEF Tick, WorkerTypeOK
<1> QED
  BY <1>2, <1>3

(* Every step of the system keeps the types and what is in hand.           *)
LEMMA TypeStep ==
  ASSUME TypeOK, InHand, [Next]_vars PROVE TypeOK' /\ InHand'
<1> USE DEF TypeOK, DispatchTypeOK, InHand
<1>1. ASSUME NEW w \in Workers, Work(w) PROVE TypeOK' /\ InHand'
  BY <1>1, RunOnceTypes DEF Work, serviceVars, ServiceTypeOK, CallInHand
<1>2. ASSUME NEW w \in Workers, LifeOf(w) PROVE TypeOK' /\ InHand'
  BY <1>2, LifeTypes DEF LifeOf, serviceVars, ServiceTypeOK, CallInHand
<1>3. ASSUME NEW a \in Callers, Serve(a) PROVE TypeOK' /\ InHand'
  BY <1>3, ServiceCallTypes DEF Serve, processVars, WorkerTypeOK, WorkerInHand
<1>4. CASE Broker
  BY <1>4, BrokerTypes, RowsUntouched
     DEF Broker, workerVars, processVars, historyVars, WorkerTypeOK,
         WorkerInHand, serviceVars, ServiceTypeOK, CallInHand
<1>5. CASE Tick
  BY <1>5, TickTypes, ListUntouched
     DEF Tick, dispatchVars, serviceVars, ServiceTypeOK, CallInHand, WorkerInHand
<1>6. CASE UNCHANGED vars
  BY <1>6, RowsUntouched, ListUntouched
     DEF vars, workerVars, processVars, historyVars, WorkerTypeOK,
         WorkerInHand, serviceVars, ServiceTypeOK, CallInHand
<1> QED
  BY <1>1, <1>2, <1>3, <1>4, <1>5, <1>6 DEF Next

(* The columns, messages, locals and timers of a running system always     *)
(* have the values the code can store in them; in particular no status     *)
(* outside the lifecycle is ever written.                                  *)
THEOREM TypeCorrectness == Spec => []TypeOK
<1>1. Init => TypeOK /\ InHand
  BY TypeInit
<1>2. TypeOK /\ InHand /\ [Next]_vars => (TypeOK /\ InHand)'
  BY TypeStep
<1> QED
  BY <1>1, <1>2, PTL DEF Spec

-----------------------------------------------------------------------------
(* The budget, one repository transaction at a time.                       *)

LEMMA BudgetUntouched ==
  ASSUME AttemptBudget, UNCHANGED <<status, attempt_count>>
  PROVE  AttemptBudget'
BY DEF AttemptBudget

(* A claim spends an attempt that queued and retrying rows still have.     *)
LEMMA BudgetClaimed ==
  ASSUME RepositoryTypeOK, AttemptBudget,
         NEW r \in Requests, Eligible(r), ClaimRow(r)
  PROVE  AttemptBudget'
<1>1. attempt_count[r] \in 0 .. MaxAttempts[r] - 1
  BY RepositoryAssumption
     DEF RepositoryAssumption, AttemptBudget, Eligible
<1>2. attempt_count'[r] = attempt_count[r] + 1 /\ status'[r] = "running"
  BY DEF RepositoryTypeOK, ClaimRow
<1>3. \A q \in Requests \ {r} :
        status'[q] = status[q] /\ attempt_count'[q] = attempt_count[q]
  BY DEF RepositoryTypeOK, ClaimRow
<1> QED
  BY <1>1, <1>2, <1>3, RepositoryAssumption
     DEF RepositoryAssumption, AttemptBudget

LEMMA BudgetCompleted ==
  ASSUME RepositoryTypeOK, AttemptBudget, NEW r \in Requests, Complete(r)
  PROVE  AttemptBudget'
BY DEF RepositoryTypeOK, AttemptBudget, Complete

(* A failure is a retry while an attempt is left and a dead letter when    *)
(* none is.                                                                *)
LEMMA BudgetFailed ==
  ASSUME RepositoryTypeOK, AttemptBudget,
         NEW r \in Requests, NEW d, status[r] = "running", FailOrRetry(r, d)
  PROVE  AttemptBudget'
<1>1. attempt_count[r] \in 1 .. MaxAttempts[r] /\ MaxAttempts[r] \in Nat
  BY RepositoryAssumption DEF RepositoryAssumption, AttemptBudget
<1>2. attempt_count' = attempt_count /\ status' = [status EXCEPT ![r] = Outcome(r)]
  BY DEF FailOrRetry
<1>3. CASE Exhausted(r)
  BY <1>1, <1>2, <1>3 DEF RepositoryTypeOK, AttemptBudget, Exhausted, Outcome
<1>4. CASE ~Exhausted(r)
  BY <1>1, <1>2, <1>4 DEF RepositoryTypeOK, AttemptBudget, Exhausted, Outcome
<1> QED
  BY <1>3, <1>4

LEMMA BudgetQueued ==
  ASSUME RepositoryTypeOK, AttemptBudget, NEW r \in Requests, SetQueued(r)
  PROVE  AttemptBudget'
BY DEF RepositoryTypeOK, AttemptBudget, SetQueued

-----------------------------------------------------------------------------
(* Exclusive claims, for the three ways a worker may move: it keeps or     *)
(* drops what it owns, it claims, or it records how its attempt ended.     *)

LEMMA ExclusiveKept ==
  ASSUME ExclusiveClaim, UNCHANGED status,
         \A v \in Workers :
           pc'[v] \in Owning => pc[v] \in Owning /\ held'[v] = held[v]
  PROVE  ExclusiveClaim'
BY DEF ExclusiveClaim, Owns

(* Nobody owns an eligible row, since it is not running.                   *)
LEMMA ExclusiveClaimed ==
  ASSUME RepositoryTypeOK, WorkerTypeOK, ExclusiveClaim,
         NEW w \in Workers, NEW r \in Requests, Eligible(r), ClaimRow(r),
         GoTo(w, "claimed"), Hold(w, r)
  PROVE  ExclusiveClaim'
<1>1. \A v \in Workers : ~Owns(v, r)
  BY DEF ExclusiveClaim, Eligible
<1>2. \A v \in Workers, q \in Requests :
        Owns(v, q)' => (v = w /\ q = r) \/ (v # w /\ Owns(v, q))
  BY DEF WorkerTypeOK, GoTo, Hold, Owns, Owning
<1>3. status'[r] = "running"
  BY DEF RepositoryTypeOK, ClaimRow
<1>4. \A q \in Requests \ {r} : status'[q] = status[q]
  BY DEF RepositoryTypeOK, ClaimRow
<1> QED
  BY <1>1, <1>2, <1>3, <1>4 DEF ExclusiveClaim

(* The row written is the one the worker owned, so nobody else's.          *)
LEMMA ExclusiveReleased ==
  ASSUME RepositoryTypeOK, WorkerTypeOK, ExclusiveClaim,
         NEW w \in Workers, NEW r \in Requests, Owns(w, r),
         GoTo(w, "idle"), Hold(w, NoRequest),
         NEW s, status' = [status EXCEPT ![r] = s]
  PROVE  ExclusiveClaim'
<1>1. \A v \in Workers, q \in Requests :
        Owns(v, q)' => v # w /\ Owns(v, q)
  BY DEF WorkerTypeOK, GoTo, Hold, Owns, Owning
<1>2. \A v \in Workers : Owns(v, r) => v = w
  BY DEF ExclusiveClaim
<1>3. \A q \in Requests \ {r} : status'[q] = status[q]
  BY DEF RepositoryTypeOK
<1> QED
  BY <1>1, <1>2, <1>3 DEF ExclusiveClaim

(* Nor does anybody own the row create() or a replay puts in the queue.    *)
LEMMA ExclusiveQueued ==
  ASSUME RepositoryTypeOK, ExclusiveClaim, UNCHANGED <<pc, held>>,
         NEW r \in Requests, status[r] # "running", SetQueued(r)
  PROVE  ExclusiveClaim'
<1>1. \A v \in Workers : ~Owns(v, r)
  BY DEF ExclusiveClaim
<1>2. \A q \in Requests \ {r} : status'[q] = status[q]
  BY DEF RepositoryTypeOK, SetQueued
<1> QED
  BY <1>1, <1>2 DEF ExclusiveClaim, Owns

(* Neither a claim nor the end of an attempt stores a row or an id.        *)
LEMMA FreshIdsKept ==
  ASSUME FreshIds, UNCHANGED <<created_at, api_pc, api_id>>,
         CallInHand, \A r \in Requests : Persisted(r)' <=> Persisted(r)
  PROVE  FreshIds'
BY DEF FreshIds, CallInHand

-----------------------------------------------------------------------------
(* What a step leaves of the invariant once its types are known.           *)
Safety == FreshIds /\ ExclusiveClaim /\ AttemptBudget

(* Every step of run_once keeps the safety part of the invariant.          *)
LEMMA RunOnceSafety ==
  ASSUME IInv, NEW w \in Workers, RunOnce(w), UNCHANGED <<api_pc, api_id>>
  PROVE  Safety'
<1> USE DEF IInv, TypeOK, InHand
<1>1. CASE ConsumeMessage(w)
  <2>1. ExclusiveClaim'
    BY <1>1, ExclusiveKept DEF ConsumeMessage, GoTo, Hold, repositoryVars, WorkerTypeOK, Owning
  <2>2. AttemptBudget'
    BY <1>1, BudgetUntouched DEF ConsumeMessage, repositoryVars
  <2>3. FreshIds'
    BY <1>1, FreshIdsKept DEF ConsumeMessage, repositoryVars, Persisted
  <2> QED
    BY <2>1, <2>2, <2>3 DEF Safety
<1>2. CASE PollDatabase(w)
  <2>1. ExclusiveClaim'
    BY <1>2, ExclusiveKept DEF PollDatabase, GoTo, repositoryVars, WorkerTypeOK, Owning
  <2>2. AttemptBudget'
    BY <1>2, BudgetUntouched DEF PollDatabase, repositoryVars
  <2>3. FreshIds'
    BY <1>2, FreshIdsKept DEF PollDatabase, repositoryVars, Persisted
  <2> QED
    BY <2>1, <2>2, <2>3 DEF Safety
<1>3. CASE StaleMessage(w)
  <2>1. ExclusiveClaim'
    BY <1>3, ExclusiveKept DEF StaleMessage, GoTo, Hold, repositoryVars, WorkerTypeOK, Owning
  <2>2. AttemptBudget'
    BY <1>3, BudgetUntouched DEF StaleMessage, repositoryVars
  <2>3. FreshIds'
    BY <1>3, FreshIdsKept DEF StaleMessage, repositoryVars, Persisted
  <2> QED
    BY <2>1, <2>2, <2>3 DEF Safety
<1>4. CASE NothingEligible(w)
  <2>1. ExclusiveClaim'
    BY <1>4, ExclusiveKept DEF NothingEligible, Return, GoTo, Hold, repositoryVars, WorkerTypeOK, Owning
  <2>2. AttemptBudget'
    BY <1>4, BudgetUntouched DEF NothingEligible, repositoryVars
  <2>3. FreshIds'
    BY <1>4, FreshIdsKept DEF NothingEligible, repositoryVars, Persisted
  <2> QED
    BY <2>1, <2>2, <2>3 DEF Safety
<1>5. CASE Defer(w)
  <2>1. ExclusiveClaim'
    BY <1>5, ExclusiveKept DEF Defer, GoTo, repositoryVars, WorkerTypeOK, Owning
  <2>2. AttemptBudget'
    BY <1>5, BudgetUntouched DEF Defer, repositoryVars
  <2>3. FreshIds'
    BY <1>5, FreshIdsKept DEF Defer, repositoryVars, Persisted
  <2> QED
    BY <2>1, <2>2, <2>3 DEF Safety
<1>6. CASE Execute(w)
  <2>1. ExclusiveClaim'
    BY <1>6, ExclusiveKept DEF Execute, GoTo, repositoryVars, WorkerTypeOK, Owning
  <2>2. AttemptBudget'
    BY <1>6, BudgetUntouched DEF Execute, repositoryVars
  <2>3. FreshIds'
    BY <1>6, FreshIdsKept DEF Execute, repositoryVars, Persisted
  <2> QED
    BY <2>1, <2>2, <2>3 DEF Safety
<1>7. CASE Succeed(w)
  <2>1. ExclusiveClaim'
    BY <1>7, ExclusiveKept DEF Succeed, GoTo, repositoryVars, WorkerTypeOK, Owning
  <2>2. AttemptBudget'
    BY <1>7, BudgetUntouched DEF Succeed, repositoryVars
  <2>3. FreshIds'
    BY <1>7, FreshIdsKept DEF Succeed, repositoryVars, Persisted
  <2> QED
    BY <2>1, <2>2, <2>3 DEF Safety
<1>8. CASE RateLimited(w)
  <2>1. ExclusiveClaim'
    BY <1>8, ExclusiveKept DEF RateLimited, GoTo, repositoryVars, WorkerTypeOK, Owning
  <2>2. AttemptBudget'
    BY <1>8, BudgetUntouched DEF RateLimited, repositoryVars
  <2>3. FreshIds'
    BY <1>8, FreshIdsKept DEF RateLimited, repositoryVars, Persisted
  <2> QED
    BY <2>1, <2>2, <2>3 DEF Safety
<1>9. CASE Fail(w)
  <2>1. ExclusiveClaim'
    BY <1>9, ExclusiveKept DEF Fail, GoTo, repositoryVars, WorkerTypeOK, Owning
  <2>2. AttemptBudget'
    BY <1>9, BudgetUntouched DEF Fail, repositoryVars
  <2>3. FreshIds'
    BY <1>9, FreshIdsKept DEF Fail, repositoryVars, Persisted
  <2> QED
    BY <2>1, <2>2, <2>3 DEF Safety
<1>10. CASE RecordFailureRaises(w)
  <2>1. ExclusiveClaim'
    BY <1>10, ExclusiveKept DEF RecordFailureRaises, Die, GoTo, Hold, repositoryVars, WorkerTypeOK, Owning
  <2>2. AttemptBudget'
    BY <1>10, BudgetUntouched DEF RecordFailureRaises, repositoryVars
  <2>3. FreshIds'
    BY <1>10, FreshIdsKept DEF RecordFailureRaises, repositoryVars, Persisted
  <2> QED
    BY <2>1, <2>2, <2>3 DEF Safety
<1>11. CASE ClaimMessage(w)
  <2>1. PICK r \in Requests : r = held[w] /\ Eligible(r) /\ ClaimRow(r)
    BY <1>11 DEF ClaimMessage, WorkerInHand
  <2>2. GoTo(w, "claimed") /\ Hold(w, r)
    BY <1>11, <2>1 DEF ClaimMessage, Hold, WorkerTypeOK
  <2>3. ExclusiveClaim' /\ AttemptBudget'
    BY <2>1, <2>2, ExclusiveClaimed, BudgetClaimed
  <2>4. FreshIds'
    BY <2>1, FreshIdsKept
       DEF ClaimRow, Eligible, Persisted, RepositoryTypeOK
  <2> QED
    BY <2>3, <2>4 DEF Safety
<1>12. CASE ClaimNext(w)
  <2>1. PICK r \in Requests : Eligible(r) /\ ClaimRow(r) /\ Hold(w, r)
    BY <1>12 DEF ClaimNext, OldestEligible
  <2>2. ExclusiveClaim' /\ AttemptBudget'
    BY <1>12, <2>1, ExclusiveClaimed, BudgetClaimed DEF ClaimNext
  <2>3. FreshIds'
    BY <2>1, FreshIdsKept
       DEF ClaimRow, Eligible, Persisted, RepositoryTypeOK
  <2> QED
    BY <2>2, <2>3 DEF Safety
<1>13. CASE RecordCompletion(w)
  <2>1. PICK r \in Requests : r = held[w] /\ Complete(r)
    BY <1>13 DEF RecordCompletion, WorkerInHand, Owning
  <2>2. Owns(w, r) /\ status[r] = "running"
    BY <1>13, <2>1 DEF RecordCompletion, Owns, Owning, ExclusiveClaim
  <2>3. ExclusiveClaim'
    BY <1>13, <2>1, <2>2, ExclusiveReleased, ZenonT(60)
       DEF RecordCompletion, Return, Complete
  <2>4. AttemptBudget'
    BY <2>1, BudgetCompleted
  <2>5. FreshIds'
    BY <2>1, <2>2, FreshIdsKept DEF Complete, Persisted, RepositoryTypeOK
  <2> QED
    BY <2>3, <2>4, <2>5 DEF Safety
<1>14. CASE RecordFailure(w)
  <2>1. PICK r \in Requests : r = held[w] /\ FailOrRetry(r, retry_delay[w])
    BY <1>14 DEF RecordFailure, WorkerInHand, Owning
  <2>2. Owns(w, r) /\ status[r] = "running"
    BY <1>14, <2>1 DEF RecordFailure, Owns, Owning, ExclusiveClaim
  <2>3. ExclusiveClaim'
    BY <1>14, <2>1, <2>2, ExclusiveReleased, ZenonT(60)
       DEF RecordFailure, Return, FailOrRetry
  <2>4. AttemptBudget'
    BY <2>1, <2>2, BudgetFailed
  <2>5. FreshIds'
    BY <2>1, <2>2, FreshIdsKept
       DEF FailOrRetry, Outcome, Persisted, RepositoryTypeOK
  <2> QED
    BY <2>3, <2>4, <2>5 DEF Safety
<1> QED
  BY <1>1, <1>2, <1>3, <1>4, <1>5, <1>6, <1>7, <1>8, <1>9, <1>10, <1>11,
     <1>12, <1>13, <1>14
     DEF RunOnce

(* A death drops what the worker owned; a restart has nothing in hand.     *)
LEMMA LifeSafety ==
  ASSUME IInv, NEW w \in Workers, LifeOf(w) PROVE Safety'
<1> USE DEF IInv, TypeOK, InHand, LifeOf
<1>1. ExclusiveClaim'
  BY ExclusiveKept
     DEF Crash, Restart, Die, GoTo, Hold, repositoryVars, WorkerTypeOK, Owning
<1>2. AttemptBudget'
  BY BudgetUntouched DEF Crash, Restart, repositoryVars
<1>3. FreshIds'
  BY FreshIdsKept DEF Crash, Restart, repositoryVars, serviceVars, Persisted
<1> QED
  BY <1>1, <1>2, <1>3 DEF Safety

(* A row is stored only under a fresh id, and only a dead letter, which    *)
(* nobody owns, is replayed.                                               *)
LEMMA ServiceCallSafety ==
  ASSUME IInv, NEW a \in Callers, Serve(a) PROVE Safety'
<1> USE DEF IInv, TypeOK, InHand
<1>0. UNCHANGED <<pc, held>>
  BY DEF Serve, processVars
<1>1. ASSUME NEW r \in Requests, Submit(a, r) PROVE Safety'
  <2>1. ExclusiveClaim' /\ AttemptBudget'
    BY <1>0, <1>1, ExclusiveKept, BudgetUntouched DEF Submit
  <2>2. created_at'[r] # 0 /\ \A q \in Requests \ {r} : created_at'[q] = created_at[q]
    BY <1>1, DrawCreatedAtRank DEF Submit, RepositoryTypeOK
  <2>3. FreshIds'
    BY <1>1, <2>2
       DEF Submit, Proceed, FreshIds, Persisted, CallInHand, ServiceTypeOK
  <2> QED
    BY <2>1, <2>3 DEF Safety
<1>2. ASSUME NEW r \in Requests, Replay(a, r) PROVE Safety'
  <2>1. SetQueued(r) /\ status[r] = "dead_letter"
    BY <1>2 DEF Replay, ReplayDeadLetter
  <2>2. ExclusiveClaim'
    BY <1>0, <2>1, ExclusiveQueued
  <2>3. AttemptBudget'
    BY <2>1, BudgetQueued
  <2>4. created_at' = created_at /\ \A q \in Requests : Persisted(q)' <=> Persisted(q)
    BY <2>1 DEF SetQueued, Persisted, RepositoryTypeOK
  <2>5. \A b \in Callers : api_pc'[b] = "create" =>
          api_pc[b] = "create" /\ api_id'[b] = api_id[b]
    BY <1>2 DEF Replay, AfterCommit, Proceed, ServiceTypeOK
  <2>6. FreshIds'
    BY <2>4, <2>5 DEF FreshIds, CallInHand
  <2> QED
    BY <2>2, <2>3, <2>6 DEF Safety
<1>3. CASE CreateRow(a)
  <2> DEFINE r == api_id[a]
  <2>1. r \in Requests /\ status[r] = "absent" /\ created_at[r] # 0
    BY <1>3 DEF CreateRow, CallInHand, FreshIds, Persisted
  <2>2. PICK id \in Requests : Create(r, id) /\ AfterCommit(a, id)
    BY <1>3 DEF CreateRow
  <2>3. CASE SetQueued(r)
    <3>1. ExclusiveClaim'
      BY <1>0, <2>1, <2>3, ExclusiveQueued
    <3>2. AttemptBudget'
      BY <2>1, <2>3, BudgetQueued
    <3>3. /\ created_at' = created_at
          /\ \A q \in Requests \ {r} : Persisted(q)' <=> Persisted(q)
      BY <2>1, <2>3 DEF SetQueued, Persisted, RepositoryTypeOK
    <3>4. \A b \in Callers : api_pc'[b] = "create" =>
            b # a /\ api_pc[b] = "create" /\ api_id'[b] = api_id[b]
      BY <2>2 DEF AfterCommit, Proceed, ServiceTypeOK
    <3>5. \A b \in Callers : api_pc'[b] = "create" => api_id[b] # r
      BY <1>3, <3>4 DEF CreateRow, FreshIds
    <3>6. FreshIds'
      BY <2>1, <3>3, <3>4, <3>5 DEF FreshIds, CallInHand
    <3> QED
      BY <3>1, <3>2, <3>6 DEF Safety
  <2>4. CASE UNCHANGED repositoryVars
    <3>1. ExclusiveClaim' /\ AttemptBudget'
      BY <1>0, <2>4, ExclusiveKept, BudgetUntouched DEF repositoryVars
    <3>2. FreshIds'
      BY <2>2, <2>4
         DEF AfterCommit, Proceed, FreshIds, Persisted, repositoryVars,
             CallInHand, ServiceTypeOK
    <3> QED
      BY <3>1, <3>2 DEF Safety
  <2> QED
    BY <2>2, <2>3, <2>4 DEF Create
<1>4. CASE PublishId(a) \/ CallFails(a)
  <2>1. ExclusiveClaim' /\ AttemptBudget'
    BY <1>0, <1>4, ExclusiveKept, BudgetUntouched
       DEF PublishId, CallFails, repositoryVars
  <2>2. FreshIds'
    BY <1>4
       DEF PublishId, CallFails, Proceed, FreshIds, Persisted, repositoryVars,
           CallInHand, ServiceTypeOK
  <2> QED
    BY <2>1, <2>2 DEF Safety
<1> QED
  BY <1>1, <1>2, <1>3, <1>4 DEF Serve, ServiceCall

(* IInv is inductive.                                                      *)
LEMMA InvariantInit == Init => IInv
<1> SUFFICES ASSUME Init PROVE IInv
  OBVIOUS
<1>1. FreshIds
  BY DEF Init, RepositoryInit, ServiceInit, FreshIds, Persisted
<1>2. ExclusiveClaim
  BY DEF Init, WorkerInit, ExclusiveClaim, Owns, Owning
<1>3. AttemptBudget
  BY DEF Init, RepositoryInit, AttemptBudget
<1> QED
  BY <1>1, <1>2, <1>3, TypeInit DEF IInv

LEMMA InvariantStep == IInv /\ [Next]_vars => IInv'
<1> SUFFICES ASSUME IInv, [Next]_vars PROVE IInv'
  OBVIOUS
<1>1. TypeOK' /\ InHand'
  BY TypeStep DEF IInv
<1>2. ASSUME NEW w \in Workers, Work(w) PROVE Safety'
  BY <1>2, RunOnceSafety DEF Work, serviceVars
<1>3. ASSUME NEW w \in Workers, LifeOf(w) PROVE Safety'
  BY <1>3, LifeSafety
<1>4. ASSUME NEW a \in Callers, Serve(a) PROVE Safety'
  BY <1>4, ServiceCallSafety
<1>5. ASSUME Broker \/ Tick \/ UNCHANGED vars PROVE Safety'
  <2>1. UNCHANGED <<status, attempt_count, created_at, pc, held, api_pc, api_id>>
    BY <1>5
       DEF Broker, Tick, vars, repositoryVars, workerVars, processVars,
           serviceVars
  <2> QED
    BY <2>1, ExclusiveKept, BudgetUntouched, FreshIdsKept
       DEF IInv, InHand, Persisted, Safety
<1>6. Safety'
  BY <1>2, <1>3, <1>4, <1>5 DEF Next
<1> QED
  BY <1>1, <1>6 DEF IInv, Safety

LEMMA InductiveInvariant == Spec => []IInv
BY InvariantInit, InvariantStep, PTL DEF Spec

(* At no time do two workers execute one request, and a request in         *)
(* execution is running: whatever messages are duplicated, redelivered or  *)
(* lost, whoever resubmits or replays, and whichever workers die.          *)
THEOREM ClaimsAreExclusive == Spec => []ExclusiveClaim
<1>1. IInv => ExclusiveClaim
  BY DEF IInv
<1> QED
  BY <1>1, InductiveInvariant, PTL

(* A request never starts more than max_attempts attempts between two      *)
(* decisions of a client or an operator, and is in dead letter only once   *)
(* it has spent exactly those.                                             *)
THEOREM AttemptsAreBounded == Spec => []AttemptBudget
<1>1. IInv => AttemptBudget
  BY DEF IInv
<1> QED
  BY <1>1, InductiveInvariant, PTL

-----------------------------------------------------------------------------
(* Orchestrator implements Lifecycle: each of its steps is one step of the *)
(* lifecycle of one request, or none, with the set of workers that own a   *)
(* request as its owners.                                                  *)

(* How the owners of a request change when one worker moves.               *)

LEMMA OwnersKept ==
  ASSUME \A v \in Workers, q \in Requests : Owns(v, q)' <=> Owns(v, q)
  PROVE  Owners' = Owners
BY DEF Owners

LEMMA OwnersExcept ==
  ASSUME NEW r \in Requests, NEW S,
         Owners'[r] = S, \A q \in Requests \ {r} : Owners'[q] = Owners[q]
  PROVE  Owners' = [Owners EXCEPT ![r] = S]
BY DEF Owners

(* A worker that owned nothing takes an eligible request.                  *)
LEMMA OwnersTaken ==
  ASSUME WorkerTypeOK, ExclusiveClaim,
         NEW w \in Workers, pc[w] \notin Owning,
         NEW r \in Requests, status[r] # "running",
         GoTo(w, "claimed"), Hold(w, r)
  PROVE  Owners[r] = {} /\ Owners' = [Owners EXCEPT ![r] = {w}]
<1>1. \A v \in Workers : ~Owns(v, r)
  BY DEF ExclusiveClaim
<1>2. \A v \in Workers, q \in Requests :
        Owns(v, q)' <=> (v = w /\ q = r) \/ Owns(v, q)
  BY DEF WorkerTypeOK, GoTo, Hold, Owns, Owning
<1>3. Owners'[r] = {w}
  BY <1>1, <1>2 DEF Owners
<1>4. \A q \in Requests \ {r} : Owners'[q] = Owners[q]
  BY <1>2 DEF Owners
<1> QED
  BY <1>1, <1>3, <1>4, OwnersExcept DEF Owners

(* The owner of a request lets go of it.                                   *)
LEMMA OwnersReleased ==
  ASSUME WorkerTypeOK, ExclusiveClaim,
         NEW w \in Workers, NEW r \in Requests, Owns(w, r),
         NEW label \in {"idle", "dead"}, GoTo(w, label), Hold(w, NoRequest)
  PROVE  Owners[r] = {w} /\ Owners' = [Owners EXCEPT ![r] = {}]
<1>1. \A v \in Workers : Owns(v, r) <=> v = w
  BY DEF ExclusiveClaim
<1>2. \A v \in Workers, q \in Requests :
        Owns(v, q)' <=> v # w /\ Owns(v, q)
  BY DEF WorkerTypeOK, GoTo, Hold, Owns, Owning
<1>3. \A q \in Requests \ {r} : ~Owns(w, q)
  BY DEF Owns
<1>4. Owners'[r] = {}
  BY <1>1, <1>2 DEF Owners
<1>5. \A q \in Requests \ {r} : Owners'[q] = Owners[q]
  BY <1>2, <1>3 DEF Owners
<1> QED
  BY <1>1, <1>4, <1>5, OwnersExcept DEF Owners

-----------------------------------------------------------------------------
(* Steps that are none of the lifecycle.                                   *)
LEMMA Stutters ==
  ASSUME UNCHANGED <<status, attempt_count>>,
         \A v \in Workers, q \in Requests : Owns(v, q)' <=> Owns(v, q)
  PROVE  UNCHANGED Promise!vars
BY OwnersKept DEF Promise!vars

(* The claim of an eligible row is Start.                                  *)
LEMMA ClaimStarts ==
  ASSUME IInv, NEW w \in Workers, pc[w] \notin Owning,
         NEW r \in Requests, Eligible(r), ClaimRow(r),
         GoTo(w, "claimed"), Hold(w, r)
  PROVE  Promise!Next
<1>1. status[r] \in {"queued", "retrying"}
  BY DEF Eligible
<1>2. attempt_count[r] < MaxAttempts[r]
  BY <1>1, RepositoryAssumption
     DEF RepositoryAssumption, IInv, AttemptBudget
<1>3. Owners[r] = {} /\ Owners' = [Owners EXCEPT ![r] = {w}]
  BY <1>1, OwnersTaken DEF IInv, TypeOK
<1>4. Promise!Start(r, w)
  BY <1>1, <1>2, <1>3 DEF ClaimRow, Promise!Start, Promise!Move
<1> QED
  BY <1>4 DEF Promise!Next

(* Recording a completion is Finish.                                       *)
LEMMA CompletionFinishes ==
  ASSUME IInv, NEW w \in Workers, RecordCompletion(w) PROVE Promise!Next
<1>1. PICK r \in Requests : r = held[w] /\ Complete(r)
  BY DEF RecordCompletion, IInv, InHand, WorkerInHand, Owning
<1>2. Owns(w, r)
  BY <1>1 DEF RecordCompletion, Owns, Owning
<1>3. status[r] = "running"
  BY <1>2 DEF IInv, ExclusiveClaim
<1>4. Owners[r] = {w} /\ Owners' = [Owners EXCEPT ![r] = {}]
  BY <1>2, OwnersReleased DEF IInv, TypeOK, RecordCompletion, Return
<1>5. Promise!Finish(r, w)
  BY <1>1, <1>3, <1>4
     DEF Complete, Promise!Finish, Promise!Move, Promise!Release
<1> QED
  BY <1>5 DEF Promise!Next

(* Recording a failure is Reschedule while the budget lasts, then Bury.    *)
LEMMA FailureReschedulesOrBuries ==
  ASSUME IInv, NEW w \in Workers, RecordFailure(w) PROVE Promise!Next
<1>1. PICK r \in Requests : r = held[w] /\ FailOrRetry(r, retry_delay[w])
  BY DEF RecordFailure, IInv, InHand, WorkerInHand, Owning
<1>2. Owns(w, r)
  BY <1>1 DEF RecordFailure, Owns, Owning
<1>3. status[r] = "running"
  BY <1>2 DEF IInv, ExclusiveClaim
<1>4. attempt_count[r] \in 1 .. MaxAttempts[r] /\ MaxAttempts[r] \in Nat
  BY <1>3, RepositoryAssumption
     DEF RepositoryAssumption, IInv, AttemptBudget
<1>5. Owners[r] = {w} /\ Owners' = [Owners EXCEPT ![r] = {}]
  BY <1>2, OwnersReleased DEF IInv, TypeOK, RecordFailure, Return
<1>6. Promise!Release(r, w)
  BY <1>1, <1>5 DEF FailOrRetry, Promise!Release
<1>7. CASE Exhausted(r)
  <2>1. attempt_count[r] = MaxAttempts[r]
    BY <1>4, <1>7 DEF Exhausted
  <2>2. Promise!Bury(r, w)
    BY <1>1, <1>3, <1>6, <1>7, <2>1
       DEF FailOrRetry, Outcome, Promise!Bury, Promise!Move
  <2> QED
    BY <2>2 DEF Promise!Next
<1>8. CASE ~Exhausted(r)
  <2>1. attempt_count[r] < MaxAttempts[r]
    BY <1>4, <1>8 DEF Exhausted
  <2>2. Promise!Reschedule(r, w)
    BY <1>1, <1>3, <1>6, <1>8, <2>1
       DEF FailOrRetry, Outcome, Promise!Reschedule, Promise!Move
  <2> QED
    BY <2>2 DEF Promise!Next
<1> QED
  BY <1>7, <1>8

(* The death of a worker is Abandon when it owned a request, nothing       *)
(* otherwise.                                                              *)
LEMMA DeathAbandons ==
  ASSUME IInv, NEW w \in Workers, Die(w), UNCHANGED repositoryVars
  PROVE  Promise!Next \/ UNCHANGED Promise!vars
<1>1. CASE pc[w] \in Owning
  <2>1. PICK r \in Requests : Owns(w, r)
    BY <1>1 DEF IInv, InHand, WorkerInHand, Owns
  <2>2. Owners[r] = {w} /\ Owners' = [Owners EXCEPT ![r] = {}]
    BY <2>1, OwnersReleased DEF IInv, TypeOK, Die
  <2>3. Promise!Abandon(r, w)
    BY <2>2 DEF repositoryVars, Promise!Abandon, Promise!Release
  <2> QED
    BY <2>3 DEF Promise!Next
<1>2. CASE pc[w] \notin Owning
  <2>1. \A v \in Workers, q \in Requests : Owns(v, q)' <=> Owns(v, q)
    BY <1>2 DEF IInv, TypeOK, WorkerTypeOK, Die, GoTo, Hold, Owns, Owning
  <2> QED
    BY <2>1, Stutters DEF repositoryVars
<1> QED
  BY <1>1, <1>2

-----------------------------------------------------------------------------
(* Every step of run_once is one step of the lifecycle or none.            *)
LEMMA RunOnceMaps ==
  ASSUME IInv, NEW w \in Workers, RunOnce(w)
  PROVE  Promise!Next \/ UNCHANGED Promise!vars
<1> DEFINE SameOwners == \A v \in Workers, q \in Requests : Owns(v, q)' <=> Owns(v, q)
<1> USE DEF IInv, TypeOK, InHand
<1>1. CASE ConsumeMessage(w)
  <2>1. SameOwners
    BY <1>1 DEF ConsumeMessage, GoTo, Hold, WorkerTypeOK, Owns, Owning
  <2> QED
    BY <1>1, <2>1, Stutters DEF ConsumeMessage, repositoryVars
<1>2. CASE PollDatabase(w)
  <2>1. SameOwners
    BY <1>2 DEF PollDatabase, GoTo, WorkerTypeOK, Owns, Owning
  <2> QED
    BY <1>2, <2>1, Stutters DEF PollDatabase, repositoryVars
<1>3. CASE StaleMessage(w)
  <2>1. SameOwners
    BY <1>3 DEF StaleMessage, GoTo, Hold, WorkerTypeOK, Owns, Owning
  <2> QED
    BY <1>3, <2>1, Stutters DEF StaleMessage, repositoryVars
<1>4. CASE NothingEligible(w)
  <2>1. SameOwners
    BY <1>4 DEF NothingEligible, Return, GoTo, Hold, WorkerTypeOK, Owns, Owning
  <2> QED
    BY <1>4, <2>1, Stutters DEF NothingEligible, repositoryVars
<1>5. CASE Defer(w)
  <2>1. SameOwners
    BY <1>5 DEF Defer, GoTo, WorkerTypeOK, Owns, Owning
  <2> QED
    BY <1>5, <2>1, Stutters DEF Defer, repositoryVars
<1>6. CASE Execute(w)
  <2>1. SameOwners
    BY <1>6 DEF Execute, GoTo, WorkerTypeOK, Owns, Owning
  <2> QED
    BY <1>6, <2>1, Stutters DEF Execute, repositoryVars
<1>7. CASE Succeed(w)
  <2>1. SameOwners
    BY <1>7 DEF Succeed, GoTo, WorkerTypeOK, Owns, Owning
  <2> QED
    BY <1>7, <2>1, Stutters DEF Succeed, repositoryVars
<1>8. CASE RateLimited(w)
  <2>1. SameOwners
    BY <1>8 DEF RateLimited, GoTo, WorkerTypeOK, Owns, Owning
  <2> QED
    BY <1>8, <2>1, Stutters DEF RateLimited, repositoryVars
<1>9. CASE Fail(w)
  <2>1. SameOwners
    BY <1>9 DEF Fail, GoTo, WorkerTypeOK, Owns, Owning
  <2> QED
    BY <1>9, <2>1, Stutters DEF Fail, repositoryVars
<1>10. CASE RecordFailureRaises(w)
  BY <1>10, DeathAbandons DEF RecordFailureRaises
<1>11. CASE ClaimMessage(w)
  <2>1. PICK r \in Requests : r = held[w] /\ Eligible(r) /\ ClaimRow(r)
    BY <1>11 DEF ClaimMessage, WorkerInHand
  <2>2. pc[w] \notin Owning /\ GoTo(w, "claimed") /\ Hold(w, r)
    BY <1>11, <2>1 DEF ClaimMessage, Hold, WorkerTypeOK, Owning
  <2> QED
    BY <2>1, <2>2, ClaimStarts
<1>12. CASE ClaimNext(w)
  <2>1. PICK r \in Requests : Eligible(r) /\ ClaimRow(r) /\ Hold(w, r)
    BY <1>12 DEF ClaimNext, OldestEligible
  <2>2. pc[w] \notin Owning /\ GoTo(w, "claimed")
    BY <1>12 DEF ClaimNext, Owning
  <2> QED
    BY <2>1, <2>2, ClaimStarts
<1>13. CASE RecordCompletion(w)
  BY <1>13, CompletionFinishes
<1>14. CASE RecordFailure(w)
  BY <1>14, FailureReschedulesOrBuries
<1> QED
  BY <1>1, <1>2, <1>3, <1>4, <1>5, <1>6, <1>7, <1>8, <1>9, <1>10, <1>11,
     <1>12, <1>13, <1>14
     DEF RunOnce

(* A call stores a row, replays a dead letter, or changes nothing here.    *)
LEMMA ServiceCallMaps ==
  ASSUME IInv, NEW a \in Callers, Serve(a)
  PROVE  Promise!Next \/ UNCHANGED Promise!vars
<1> USE DEF IInv, TypeOK, InHand
<1>1. Owners' = Owners
  BY DEF Serve, processVars, Owners, Owns
<1>2. ASSUME NEW r \in Requests, Submit(a, r) PROVE UNCHANGED Promise!vars
  BY <1>1, <1>2 DEF Submit, Promise!vars
<1>3. ASSUME NEW r \in Requests, Replay(a, r) PROVE Promise!Next
  <2>1. Promise!Replay(r)
    BY <1>1, <1>3
       DEF Replay, ReplayDeadLetter, SetQueued, Promise!Replay, Promise!Move
  <2> QED
    BY <2>1 DEF Promise!Next
<1>4. CASE CreateRow(a)
  <2> DEFINE r == api_id[a]
  <2>1. r \in Requests /\ status[r] = "absent" /\ attempt_count[r] = 0
    BY <1>4 DEF CreateRow, CallInHand, FreshIds, Persisted, AttemptBudget
  <2>2. CASE SetQueued(r)
    <3>1. attempt_count' = attempt_count
      BY <2>1, <2>2 DEF SetQueued, RepositoryTypeOK
    <3>2. Promise!Accept(r)
      BY <1>1, <2>1, <2>2, <3>1 DEF SetQueued, Promise!Accept, Promise!Move
    <3> QED
      BY <2>1, <3>2 DEF Promise!Next
  <2>3. CASE UNCHANGED repositoryVars
    BY <1>1, <2>3 DEF repositoryVars, Promise!vars
  <2> QED
    BY <1>4, <2>2, <2>3 DEF CreateRow, Create
<1>5. CASE PublishId(a) \/ CallFails(a)
  BY <1>1, <1>5 DEF PublishId, CallFails, repositoryVars, Promise!vars
<1> QED
  BY <1>2, <1>3, <1>4, <1>5 DEF Serve, ServiceCall

LEMMA InitMaps == Init => Promise!Init
BY DEF Init, RepositoryInit, WorkerInit, Owners, Owns, Owning, Promise!Init

LEMMA StepMaps ==
  ASSUME IInv, [Next]_vars
  PROVE  Promise!Next \/ UNCHANGED Promise!vars
<1>1. ASSUME NEW w \in Workers, Work(w)
      PROVE  Promise!Next \/ UNCHANGED Promise!vars
  BY <1>1, RunOnceMaps DEF Work
<1>2. ASSUME NEW w \in Workers, LifeOf(w)
      PROVE  Promise!Next \/ UNCHANGED Promise!vars
  <2>1. CASE Crash(w)
    BY <2>1, DeathAbandons DEF Crash
  <2>2. CASE Restart(w)
    <3>1. \A v \in Workers, q \in Requests : Owns(v, q)' <=> Owns(v, q)
      BY <2>2 DEF IInv, TypeOK, WorkerTypeOK, Restart, GoTo, Owns, Owning
    <3> QED
      BY <2>2, <3>1, Stutters DEF Restart, repositoryVars
  <2> QED
    BY <1>2, <2>1, <2>2 DEF LifeOf
<1>3. ASSUME NEW a \in Callers, Serve(a)
      PROVE  Promise!Next \/ UNCHANGED Promise!vars
  BY <1>3, ServiceCallMaps
<1>4. ASSUME Broker \/ Tick \/ UNCHANGED vars
      PROVE  UNCHANGED Promise!vars
  <2>1. UNCHANGED <<status, attempt_count, pc, held>>
    BY <1>4 DEF Broker, Tick, vars, repositoryVars, workerVars, processVars
  <2> QED
    BY <2>1, Stutters DEF Owns
<1> QED
  BY <1>1, <1>2, <1>3, <1>4 DEF Next

(* The program keeps its promise: whatever the interleaving of callers,    *)
(* messages, workers, deaths and timers, what happens to a request is its  *)
(* documented lifecycle, one owner per attempt.                            *)
THEOREM ImplementsLifecycle == Spec => LifecyclePromise
<1>1. Init => Promise!Init
  BY InitMaps
<1>2. IInv /\ [Next]_vars => [Promise!Next]_(Promise!vars)
  BY StepMaps
<1> QED
  BY <1>1, <1>2, InductiveInvariant, PTL DEF Spec, LifecyclePromise, Promise!Spec

-----------------------------------------------------------------------------
(* A step of the system writes at most one row, and only in four ways.     *)
RowStep ==
  \/ UNCHANGED <<status, attempt_count, events>>
  \/ \E r \in Requests : Eligible(r) /\ ClaimRow(r)
  \/ \E r \in Requests : status[r] = "running" /\ Complete(r)
  \/ \E r \in Requests :
       status[r] = "running" /\ \E d \in Nat : FailOrRetry(r, d)
  \/ \E r \in Requests : status[r] \in {"absent", "dead_letter"} /\ SetQueued(r)

(* A worker writes the row it holds: one it may claim, or owns.            *)
LEMMA RunOnceRow ==
  ASSUME IInv, NEW w \in Workers, RunOnce(w) PROVE RowStep
<1> USE DEF IInv, TypeOK, InHand
<1>1. CASE ConsumeMessage(w) \/ PollDatabase(w) \/ StaleMessage(w)
           \/ NothingEligible(w) \/ Defer(w) \/ Execute(w) \/ Succeed(w)
           \/ RateLimited(w) \/ Fail(w) \/ RecordFailureRaises(w)
  <2>1. UNCHANGED repositoryVars
    BY <1>1
       DEF ConsumeMessage, PollDatabase, StaleMessage, NothingEligible, Defer,
           Execute, Succeed, RateLimited, Fail, RecordFailureRaises
  <2> QED
    BY <2>1 DEF RowStep, repositoryVars
<1>2. CASE ClaimMessage(w)
  <2>1. held[w] \in Requests /\ Eligible(held[w]) /\ ClaimRow(held[w])
    BY <1>2 DEF ClaimMessage, WorkerInHand
  <2> QED
    BY <2>1 DEF RowStep
<1>3. CASE ClaimNext(w)
  BY <1>3 DEF ClaimNext, OldestEligible, RowStep
<1>4. CASE RecordCompletion(w)
  <2>1. held[w] \in Requests /\ Complete(held[w])
    BY <1>4 DEF RecordCompletion, WorkerInHand, Owning
  <2>2. status[held[w]] = "running"
    BY <1>4, <2>1 DEF RecordCompletion, Owns, Owning, ExclusiveClaim
  <2> QED
    BY <2>1, <2>2 DEF RowStep
<1>5. CASE RecordFailure(w)
  <2>1. /\ held[w] \in Requests /\ retry_delay[w] \in Nat
        /\ FailOrRetry(held[w], retry_delay[w])
    BY <1>5 DEF RecordFailure, WorkerInHand, WorkerTypeOK, Owning
  <2>2. status[held[w]] = "running"
    BY <1>5, <2>1 DEF RecordFailure, Owns, Owning, ExclusiveClaim
  <2> QED
    BY <2>1, <2>2 DEF RowStep
<1> QED
  BY <1>1, <1>2, <1>3, <1>4, <1>5 DEF RunOnce

(* A call stores a fresh row or queues a dead letter again.                *)
LEMMA ServiceCallRow ==
  ASSUME IInv, NEW a \in Callers, ServiceCall(a) PROVE RowStep
<1> USE DEF IInv, TypeOK, InHand
<1>1. CASE \E r \in Requests : Submit(a, r)
  BY <1>1 DEF Submit, RowStep
<1>2. CASE \E r \in Requests : Replay(a, r)
  BY <1>2 DEF Replay, ReplayDeadLetter, RowStep
<1>3. CASE CreateRow(a)
  <2>1. api_id[a] \in Requests /\ status[api_id[a]] = "absent"
    BY <1>3 DEF CreateRow, CallInHand, FreshIds, Persisted
  <2>2. SetQueued(api_id[a]) \/ UNCHANGED repositoryVars
    BY <1>3 DEF CreateRow, Create
  <2> QED
    BY <2>1, <2>2 DEF RowStep, repositoryVars
<1>4. CASE PublishId(a) \/ CallFails(a)
  BY <1>4 DEF PublishId, CallFails, repositoryVars, RowStep
<1> QED
  BY <1>1, <1>2, <1>3, <1>4 DEF ServiceCall

LEMMA EveryRowStep == IInv /\ [Next]_vars => RowStep
<1> SUFFICES ASSUME IInv, [Next]_vars PROVE RowStep
  OBVIOUS
<1>1. ASSUME NEW w \in Workers, Work(w) PROVE RowStep
  BY <1>1, RunOnceRow DEF Work
<1>2. ASSUME NEW w \in Workers, LifeOf(w) PROVE RowStep
  BY <1>2 DEF LifeOf, Crash, Restart, repositoryVars, RowStep
<1>3. ASSUME NEW a \in Callers, Serve(a) PROVE RowStep
  BY <1>3, ServiceCallRow DEF Serve
<1>4. CASE Broker \/ Tick \/ UNCHANGED vars
  BY <1>4 DEF Broker, Tick, vars, repositoryVars, RowStep
<1> QED
  BY <1>1, <1>2, <1>3, <1>4 DEF Next

(* No step ever removes a row.                                             *)
LEMMA RowsStay ==
  ASSUME RepositoryTypeOK, RowStep, NEW r \in Requests, Persisted(r)
  PROVE  Persisted(r)'
<1>1. CASE UNCHANGED <<status, attempt_count, events>>
  BY <1>1 DEF Persisted
<1>2. ASSUME NEW q \in Requests, ClaimRow(q) PROVE Persisted(r)'
  BY <1>2 DEF RepositoryTypeOK, ClaimRow, Persisted
<1>3. ASSUME NEW q \in Requests, Complete(q) PROVE Persisted(r)'
  BY <1>3 DEF RepositoryTypeOK, Complete, Persisted
<1>4. ASSUME NEW q \in Requests, NEW d, FailOrRetry(q, d) PROVE Persisted(r)'
  BY <1>4 DEF RepositoryTypeOK, FailOrRetry, Outcome, Persisted
<1>5. ASSUME NEW q \in Requests, SetQueued(q) PROVE Persisted(r)'
  BY <1>5 DEF RepositoryTypeOK, SetQueued, Persisted
<1> QED
  BY <1>1, <1>2, <1>3, <1>4, <1>5 DEF RowStep

-----------------------------------------------------------------------------
(* The audit trail of one row: what AuditTrail says of it.                 *)
Account(trail, s, n) ==
  /\ s # "absent" <=> trail # <<>>
  /\ s # "absent" =>
       /\ trail[1].status = "queued"
       /\ trail[Len(trail)].status = s
       /\ s # "completed" => trail[Len(trail)].attempt = n
  /\ \A i \in 1..(Len(trail) - 1) : Follows(trail[i], trail[i + 1])

LEMMA AuditTrailByRow ==
  AuditTrail <=>
    \A r \in Requests : Account(events[r], status[r], attempt_count[r])
BY Zenon DEF AuditTrail, Account, Persisted

(* A trail stays an account when the event appended to it may follow its   *)
(* last one, and says what the row says.                                   *)
LEMMA AccountExtended ==
  ASSUME NEW trail \in Seq(AutomationEvent), NEW s, NEW n,
         Account(trail, s, n), s # "absent",
         NEW e \in AutomationEvent, Follows(trail[Len(trail)], e),
         NEW m, e.status # "completed" => e.attempt = m
  PROVE  Account(Append(trail, e), e.status, m)
<1>1. Len(trail) \in Nat \ {0}
  BY DEF Account
<1>2. PICK longer : longer = Append(trail, e)
  OBVIOUS
<1>3. /\ longer \in Seq(AutomationEvent)
      /\ Len(longer) = Len(trail) + 1
      /\ longer[Len(longer)] = e
      /\ \A i \in 1..Len(trail) : longer[i] = trail[i]
  BY <1>2
<1>4. longer # <<>> /\ longer[1].status = "queued"
  BY <1>1, <1>3 DEF Account
<1>5. \A i \in 1..(Len(longer) - 1) : Follows(longer[i], longer[i + 1])
  <2> TAKE i \in 1..(Len(longer) - 1)
  <2>1. CASE i = Len(trail)
    BY <1>1, <1>3, <2>1
  <2>2. CASE i # Len(trail)
    <3>1. i \in 1..(Len(trail) - 1)
      BY <1>1, <1>3, <2>2
    <3>2. longer[i] = trail[i] /\ longer[i + 1] = trail[i + 1]
      BY <1>1, <1>3, <3>1
    <3> QED
      BY <3>1, <3>2 DEF Account
  <2> QED
    BY <2>1, <2>2
<1>6. e.status # "absent"
  BY DEF AutomationEvent, AutomationStatus
<1> QED
  BY <1>2, <1>3, <1>4, <1>5, <1>6 DEF Account

(* A submission opens the trail.                                           *)
LEMMA AccountOpened ==
  Account(Append(<<>>, [status |-> "queued", attempt |-> 0]), "queued", 0)
<1>1. PICK e : e = [status |-> "queued", attempt |-> 0]
  OBVIOUS
<1>2. e.status = "queued" /\ e.attempt = 0
  BY <1>1
<1>3. Append(<<>>, e) = <<e>> /\ Len(<<e>>) = 1 /\ <<e>>[1] = e /\ <<e>> # <<>>
  OBVIOUS
<1> QED
  BY <1>1, <1>2, <1>3 DEF Account

(* A transaction that appends to the trail of r leaves the other accounts. *)
LEMMA AccountWritten ==
  ASSUME RepositoryTypeOK, AuditTrail, NEW r \in Requests, NEW e, NEW s, NEW n,
         events' = [events EXCEPT ![r] = Append(@, e)],
         status' = [status EXCEPT ![r] = s],
         attempt_count' = [attempt_count EXCEPT ![r] = n],
         Account(Append(events[r], e), s, n)
  PROVE  AuditTrail'
<1>1. \A q \in Requests : Account(events[q], status[q], attempt_count[q])
  BY AuditTrailByRow
<1>2. Account(events'[r], status'[r], attempt_count'[r])
  BY DEF RepositoryTypeOK
<1>3. \A q \in Requests \ {r} :
        Account(events'[q], status'[q], attempt_count'[q])
  BY <1>1 DEF RepositoryTypeOK
<1>4. \A q \in Requests : Account(events'[q], status'[q], attempt_count'[q])
  BY <1>2, <1>3
<1>5. AuditTrail' <=>
        \A q \in Requests : Account(events'[q], status'[q], attempt_count'[q])
  BY Zenon DEF AuditTrail, Account, Persisted
<1> QED
  BY <1>4, <1>5

(* Each of the four transactions appends the event its row calls for.      *)
LEMMA AuditTrailStep ==
  ASSUME RepositoryTypeOK, AttemptBudget, AuditTrail, RowStep PROVE AuditTrail'
<1>0. ASSUME NEW r \in Requests
      PROVE  /\ events[r] \in Seq(AutomationEvent)
             /\ status[r] \in AutomationStatus \cup {"absent"}
             /\ attempt_count[r] \in Nat
             /\ Account(events[r], status[r], attempt_count[r])
  BY AuditTrailByRow DEF RepositoryTypeOK
<1>1. CASE UNCHANGED <<status, attempt_count, events>>
  BY <1>1 DEF AuditTrail, Persisted
<1>2. ASSUME NEW r \in Requests, Eligible(r), ClaimRow(r) PROVE AuditTrail'
  <2>1. PICK e : e = [status |-> "running", attempt |-> attempt_count[r] + 1]
    OBVIOUS
  <2>2. /\ e \in AutomationEvent
        /\ e.status = "running" /\ e.attempt = attempt_count[r] + 1
    BY <1>0, <2>1 DEF AutomationEvent, AutomationStatus
  <2>3. status[r] \in {"queued", "retrying"}
    BY <1>2 DEF Eligible
  <2>4. Follows(events[r][Len(events[r])], e)
    BY <1>0, <2>2, <2>3 DEF Account, AttemptBudget, Follows
  <2>5. Account(Append(events[r], e), "running", attempt_count[r] + 1)
    BY <1>0, <2>2, <2>3, <2>4, AccountExtended
  <2> QED
    BY <1>2, <2>1, <2>5, AccountWritten DEF ClaimRow, AppendEvent, RepositoryTypeOK
<1>3. ASSUME NEW r \in Requests, status[r] = "running", Complete(r)
      PROVE  AuditTrail'
  <2>1. PICK e : e = [status |-> "completed", attempt |-> 0]
    OBVIOUS
  <2>2. e \in AutomationEvent /\ e.status = "completed"
    BY <2>1 DEF AutomationEvent, AutomationStatus
  <2>3. Follows(events[r][Len(events[r])], e)
    BY <1>0, <1>3, <2>2 DEF Account, Follows
  <2>4. Account(Append(events[r], e), "completed", attempt_count[r])
    BY <1>0, <1>3, <2>2, <2>3, AccountExtended
  <2>5. attempt_count' = [attempt_count EXCEPT ![r] = attempt_count[r]]
    BY <1>3 DEF Complete, RepositoryTypeOK
  <2> QED
    BY <1>3, <2>1, <2>4, <2>5, AccountWritten DEF Complete, AppendEvent
<1>4. ASSUME NEW r \in Requests, status[r] = "running",
             NEW d \in Nat, FailOrRetry(r, d)
      PROVE  AuditTrail'
  <2>1. PICK e : e = [status |-> Outcome(r), attempt |-> attempt_count[r]]
    OBVIOUS
  <2>2. /\ e \in AutomationEvent
        /\ e.status = Outcome(r) /\ e.attempt = attempt_count[r]
        /\ Outcome(r) \in {"retrying", "dead_letter"}
    BY <1>0, <2>1 DEF AutomationEvent, AutomationStatus, Outcome
  <2>3. Follows(events[r][Len(events[r])], e)
    BY <1>0, <1>4, <2>2 DEF Account, Follows
  <2>4. Account(Append(events[r], e), Outcome(r), attempt_count[r])
    BY <1>0, <1>4, <2>2, <2>3, AccountExtended
  <2>5. attempt_count' = [attempt_count EXCEPT ![r] = attempt_count[r]]
    BY <1>4 DEF FailOrRetry, RepositoryTypeOK
  <2> QED
    BY <1>4, <2>1, <2>4, <2>5, AccountWritten DEF FailOrRetry, AppendEvent
<1>5. ASSUME NEW r \in Requests, status[r] \in {"absent", "dead_letter"},
             SetQueued(r)
      PROVE  AuditTrail'
  <2>1. PICK e : e = [status |-> "queued", attempt |-> 0]
    OBVIOUS
  <2>2. e \in AutomationEvent /\ e.status = "queued" /\ e.attempt = 0
    BY <2>1 DEF AutomationEvent, AutomationStatus
  <2>3. Account(Append(events[r], e), "queued", 0)
    <3>1. CASE status[r] = "absent"
      BY <1>0, <2>1, <3>1, AccountOpened DEF Account
    <3>2. CASE status[r] = "dead_letter"
      <4>1. Follows(events[r][Len(events[r])], e)
        BY <1>0, <3>2, <2>2 DEF Account, Follows
      <4> QED
        BY <1>0, <3>2, <2>2, <4>1, AccountExtended
    <3> QED
      BY <1>5, <3>1, <3>2
  <2> QED
    BY <1>5, <2>1, <2>3, AccountWritten DEF SetQueued, AppendEvent
<1> QED
  BY <1>1, <1>2, <1>3, <1>4, <1>5 DEF RowStep

(* Whatever calls, messages, polls, replays, deaths and delays happen in   *)
(* whatever order, the audit events of a request account for every status  *)
(* it has had: no transaction writes a row without the event that belongs  *)
(* to it, and none writes one for a row another process has moved on.      *)
THEOREM AuditTrailIsComplete == Spec => []AuditTrail
<1>1. Init => AuditTrail
  BY DEF Init, RepositoryInit, AuditTrail, Persisted
<1>2. IInv /\ AuditTrail /\ [Next]_vars => AuditTrail'
  BY EveryRowStep, AuditTrailStep DEF IInv, TypeOK
<1> QED
  BY <1>1, <1>2, InductiveInvariant, PTL DEF Spec

-----------------------------------------------------------------------------
(* Published ids: rows stay, so what the list, the calls and the workers   *)
(* name keeps its row; every new name is looked at below.                  *)
LEMMA PublishedKept ==
  ASSUME RepositoryTypeOK, RowStep, (DispatchTypeOK /\ InHand)',
         \A i \in DOMAIN queue' : Persisted(queue'[i]),
         \A w \in Workers : pc'[w] = "claim" => Persisted(held'[w]),
         \A a \in Callers : api_pc'[a] = "publish" =>
           Persisted(api_id'[a]) \/ Persisted(api_id[a])'
  PROVE  PublishedIsPersisted'
<1>1. \A i \in DOMAIN queue' : Persisted(queue[i])'
  <2>1. \A i \in DOMAIN queue' : queue'[i] \in Requests
    BY DEF DispatchTypeOK
  <2> QED
    BY <2>1, RowsStay DEF Persisted
<1>2. \A w \in Workers : pc'[w] = "claim" => Persisted(held[w])'
  BY RowsStay DEF Persisted, InHand, WorkerInHand
<1>3. \A a \in Callers : api_pc'[a] = "publish" => Persisted(api_id[a])'
  BY RowsStay DEF Persisted, InHand, CallInHand
<1> QED
  BY <1>1, <1>2, <1>3 DEF PublishedIsPersisted

(* A worker pops what the list holds; a claim by polling needs no message. *)
LEMMA RunOncePublished ==
  ASSUME IInv, PublishedIsPersisted, RowStep, (DispatchTypeOK /\ InHand)',
         NEW w \in Workers, RunOnce(w), UNCHANGED <<api_pc, api_id>>
  PROVE  PublishedIsPersisted'
<1> USE DEF IInv, TypeOK, PublishedIsPersisted
<1>1. \A a \in Callers : api_pc'[a] = "publish" => Persisted(api_id'[a])
  OBVIOUS
<1>2. CASE ConsumeMessage(w)
  <2>1. PICK r \in Requests : Consume(r) /\ Hold(w, r)
    BY <1>2 DEF ConsumeMessage
  <2>2. r = queue[1] /\ queue # <<>> /\ queue' = Tail(queue)
    BY <2>1 DEF Consume
  <2>3. Persisted(r) /\ \A i \in DOMAIN queue' : Persisted(queue'[i])
    BY <2>2 DEF Persisted
  <2>4. \A v \in Workers : pc'[v] = "claim" => Persisted(held'[v])
    BY <1>2, <2>1, <2>3 DEF ConsumeMessage, GoTo, Hold, WorkerTypeOK
  <2> QED
    BY <1>1, <2>3, <2>4, PublishedKept
<1>3. CASE ~ConsumeMessage(w)
  <2>1. queue' = queue
    BY <1>3
       DEF RunOnce, dispatchVars, PollDatabase, ClaimMessage, StaleMessage,
           ClaimNext, NothingEligible, Defer, Execute, Succeed, RateLimited,
           Fail, RecordCompletion, RecordFailure, RecordFailureRaises
  <2>2. pc'[w] # "claim"
    BY <1>3
       DEF RunOnce, WorkerTypeOK, GoTo, Return, Die, PollDatabase,
           ClaimMessage, StaleMessage, ClaimNext, NothingEligible, Defer,
           Execute, Succeed, RateLimited, Fail, RecordCompletion,
           RecordFailure, RecordFailureRaises
  <2>3. \A v \in Workers \ {w} : pc'[v] = pc[v] /\ held'[v] = held[v]
    BY <1>3
       DEF RunOnce, WorkerTypeOK, GoTo, Hold, Return, Die, PollDatabase,
           ClaimMessage, StaleMessage, ClaimNext, NothingEligible, Defer,
           Execute, Succeed, RateLimited, Fail, RecordCompletion,
           RecordFailure, RecordFailureRaises
  <2> QED
    BY <1>1, <2>1, <2>2, <2>3, PublishedKept
<1> QED
  BY <1>2, <1>3

(* A call publishes what it has just committed, or a row it found.         *)
LEMMA ServiceCallPublished ==
  ASSUME IInv, PublishedIsPersisted, RowStep, (DispatchTypeOK /\ InHand)',
         NEW a \in Callers, ServiceCall(a), UNCHANGED <<pc, held>>
  PROVE  PublishedIsPersisted'
<1> USE DEF IInv, TypeOK, PublishedIsPersisted
<1>1. \A w \in Workers : pc'[w] = "claim" => Persisted(held'[w])
  OBVIOUS
<1>2. \A i \in DOMAIN queue' : Persisted(queue'[i])
  <2>1. CASE PublishId(a)
    <3>1. PICK id \in Requests : id = api_id[a] /\ Persisted(id)
      BY <2>1 DEF PublishId, InHand, CallInHand
    <3>2. queue' = Append(queue, id)
      BY <2>1, <3>1 DEF PublishId, Publish
    <3> QED
      BY <3>1, <3>2 DEF Persisted
  <2>2. CASE ~PublishId(a)
    <3>1. queue' = queue
      BY <2>2 DEF ServiceCall, Submit, Replay, CreateRow, CallFails, dispatchVars
    <3> QED
      BY <3>1
  <2> QED
    BY <2>1, <2>2
<1>3. ASSUME NEW b \in Callers, api_pc'[b] = "publish"
      PROVE  Persisted(api_id'[b]) \/ Persisted(api_id[b])'
  <2>1. CASE b # a
    BY <1>3, <2>1
       DEF ServiceCall, Submit, Replay, CreateRow, PublishId, CallFails,
           AfterCommit, Proceed, ServiceTypeOK
  <2>2. CASE b = a
    <3>1. CASE \E r \in Requests : Replay(a, r)
      <4>1. PICK r \in Requests : ReplayDeadLetter(r) /\ AfterCommit(a, r)
        BY <3>1 DEF Replay
      <4>2. Persisted(r)
        BY <4>1 DEF ReplayDeadLetter, Persisted
      <4> QED
        BY <1>3, <2>2, <4>1, <4>2 DEF AfterCommit, Proceed, ServiceTypeOK
    <3>2. CASE CreateRow(a)
      <4>1. PICK id \in Requests : Create(api_id[a], id) /\ AfterCommit(a, id)
        BY <3>2 DEF CreateRow
      <4>2. Persisted(id) \/ Persisted(id)'
        BY <4>1 DEF Create, SetQueued, SameKey, Persisted, RepositoryTypeOK
      <4>3. api_id'[a] = id
        BY <1>3, <2>2, <4>1 DEF AfterCommit, Proceed, ServiceTypeOK
      <4> QED
        BY <2>2, <4>2, <4>3 DEF Persisted
    <3>3. CASE (\E r \in Requests : Submit(a, r)) \/ PublishId(a) \/ CallFails(a)
      BY <1>3, <2>2, <3>3 DEF Submit, PublishId, CallFails, Proceed, ServiceTypeOK
    <3> QED
      BY <3>1, <3>2, <3>3 DEF ServiceCall
  <2> QED
    BY <2>1, <2>2
<1> QED
  BY <1>1, <1>2, <1>3, PublishedKept

LEMMA PublishedStep ==
  ASSUME IInv, IInv', PublishedIsPersisted, [Next]_vars
  PROVE  PublishedIsPersisted'
<1>0. RowStep /\ (DispatchTypeOK /\ InHand)'
  BY EveryRowStep DEF IInv, TypeOK, DispatchTypeOK
<1>1. ASSUME NEW w \in Workers, Work(w) PROVE PublishedIsPersisted'
  BY <1>0, <1>1, RunOncePublished DEF Work, serviceVars
<1>2. ASSUME NEW a \in Callers, Serve(a) PROVE PublishedIsPersisted'
  BY <1>0, <1>2, ServiceCallPublished DEF Serve, processVars
<1>3. ASSUME NEW w \in Workers, LifeOf(w) PROVE PublishedIsPersisted'
  <2>1. UNCHANGED <<status, queue, api_pc, api_id>>
    BY <1>3 DEF LifeOf, Crash, Restart, repositoryVars, dispatchVars, serviceVars
  <2>2. \A v \in Workers : pc'[v] = "claim" => pc[v] = "claim" /\ held'[v] = held[v]
    BY <1>3 DEF LifeOf, Crash, Restart, Die, GoTo, Hold, IInv, TypeOK, WorkerTypeOK
  <2> QED
    BY <2>1, <2>2 DEF PublishedIsPersisted, Persisted
<1>4. CASE Broker
  <2>1. UNCHANGED <<status, pc, held, api_pc, api_id>>
    BY <1>4 DEF Broker, repositoryVars, workerVars, processVars, serviceVars
  <2>2. \A i \in DOMAIN queue' : Persisted(queue'[i])
    <3>1. CASE BrokerLoses
      BY <3>1 DEF BrokerLoses
    <3>2. ASSUME NEW r \in Requests, Persisted(r), BrokerRedelivers(r)
          PROVE  \A i \in DOMAIN queue' : Persisted(queue'[i])
      BY <3>2 DEF BrokerRedelivers, PublishedIsPersisted, IInv, TypeOK
    <3> QED
      BY <1>4, <3>1, <3>2 DEF Broker
  <2> QED
    BY <2>1, <2>2 DEF PublishedIsPersisted, Persisted
<1>5. CASE Tick \/ UNCHANGED vars
  BY <1>5
     DEF Tick, vars, repositoryVars, dispatchVars, workerVars, processVars,
         serviceVars, PublishedIsPersisted, Persisted
<1> QED
  BY <1>1, <1>2, <1>3, <1>4, <1>5 DEF Next

(* An id reaches the dispatch list, and a worker, only after the           *)
(* transaction that stored its row, and no row is ever taken back: a       *)
(* message never names a request the database does not know, however       *)
(* messages are lost, repeated or late.                                    *)
THEOREM MessagesNameRows == Spec => []PublishedIsPersisted
<1>1. Init => PublishedIsPersisted
  BY DEF Init, DispatchInit, ServiceInit, WorkerInit, PublishedIsPersisted
<1>2. IInv /\ IInv' /\ PublishedIsPersisted /\ [Next]_vars => PublishedIsPersisted'
  BY PublishedStep
<1> QED
  BY <1>1, <1>2, InductiveInvariant, PTL DEF Spec

-----------------------------------------------------------------------------
(* Calls and the audit events that start an attempt.                       *)
At(trail, s) == {i \in DOMAIN trail : trail[i].status = s}

(* The events of a trail with a status can be counted, and an event more   *)
(* makes them one more exactly when it has that status.                    *)
LEMMA MarksCounted ==
  ASSUME NEW trail \in Seq(AutomationEvent), NEW s
  PROVE  IsFiniteSet(At(trail, s)) /\ Cardinality(At(trail, s)) \in Nat
<1>1. DOMAIN trail = 1..Len(trail) /\ Len(trail) \in Nat
  OBVIOUS
<1>2. IsFiniteSet(DOMAIN trail)
  BY <1>1, FS_Interval
<1>3. IsFiniteSet(At(trail, s))
  BY <1>2, FS_Subset DEF At
<1> QED
  BY <1>3, FS_CardinalityType

LEMMA MarksAppended ==
  ASSUME NEW trail \in Seq(AutomationEvent), NEW e \in AutomationEvent, NEW s
  PROVE  Cardinality(At(Append(trail, e), s)) =
           Cardinality(At(trail, s)) + (IF e.status = s THEN 1 ELSE 0)
<1>1. PICK longer : longer = Append(trail, e)
  OBVIOUS
<1>2. /\ DOMAIN longer = 1..(Len(trail) + 1) /\ DOMAIN trail = 1..Len(trail)
      /\ longer[Len(trail) + 1] = e /\ Len(trail) \in Nat
      /\ \A i \in 1..Len(trail) : longer[i] = trail[i]
  BY <1>1
<1>3. IsFiniteSet(At(trail, s)) /\ Cardinality(At(trail, s)) \in Nat
  BY MarksCounted
<1>4. Len(trail) + 1 \notin At(trail, s)
  BY <1>2 DEF At
<1>5. CASE e.status = s
  <2>1. At(longer, s) = At(trail, s) \cup {Len(trail) + 1}
    BY <1>2, <1>5 DEF At
  <2>2. Cardinality(At(longer, s)) = Cardinality(At(trail, s)) + 1
    <3>1. PICK T, x : T = At(trail, s) /\ x = Len(trail) + 1
      OBVIOUS
    <3>2. Cardinality(T \cup {x}) = Cardinality(T) + 1
      BY <1>3, <1>4, <3>1, FS_AddElement
    <3> QED
      BY <2>1, <3>1, <3>2, Zenon
  <2>3. Cardinality(At(trail, s)) + (IF e.status = s THEN 1 ELSE 0)
          = Cardinality(At(trail, s)) + 1
    BY <1>5
  <2> QED
    BY <1>1, <2>2, <2>3, Zenon
<1>6. CASE e.status # s
  <2>1. At(longer, s) = At(trail, s)
    BY <1>2, <1>6 DEF At
  <2> QED
    BY <1>1, <1>3, <1>6, <2>1
<1> QED
  BY <1>5, <1>6

LEMMA MarkedByTrail ==
  ASSUME RepositoryTypeOK, NEW r \in Requests, NEW s
  PROVE  Marked(r, s) = Cardinality(At(events[r], s)) /\ Marked(r, s) \in Nat
<1>1. events[r] \in Seq(AutomationEvent)
  BY DEF RepositoryTypeOK
<1> QED
  BY <1>1, MarksCounted DEF Marked, At

Appends(q, e) == events' = [events EXCEPT ![q] = Append(@, e)]

(* An event more is counted once, for its request and its status.          *)
LEMMA MarkedAfter ==
  ASSUME RepositoryTypeOK, NEW q \in Requests, NEW e \in AutomationEvent,
         Appends(q, e),
         NEW r \in Requests, NEW s
  PROVE  Marked(r, s)' = Marked(r, s) + (IF r = q /\ e.status = s THEN 1 ELSE 0)
<1>1. events[r] \in Seq(AutomationEvent)
  BY DEF RepositoryTypeOK
<1>2. /\ Marked(r, s) = Cardinality(At(events[r], s)) /\ Marked(r, s) \in Nat
      /\ Marked(r, s)' = Cardinality(At(events'[r], s))
  BY MarkedByTrail DEF Marked, At
<1>3. CASE r = q
  <2>1. events'[r] = Append(events[r], e)
    BY <1>3 DEF Appends, RepositoryTypeOK
  <2> QED
    BY <1>1, <1>2, <1>3, <2>1, MarksAppended
<1>4. CASE r # q
  <2>1. events'[r] = events[r]
    BY <1>4 DEF Appends, RepositoryTypeOK
  <2> QED
    BY <1>2, <1>4, <2>1
<1> QED
  BY <1>3, <1>4

(* The event each transaction appends.                                     *)
LEMMA EventOfRowStep ==
  ASSUME RepositoryTypeOK
  PROVE  /\ \A q \in Requests : ClaimRow(q) =>
              \E e \in AutomationEvent :
                e.status = "running" /\ Appends(q, e)
         /\ \A q \in Requests : SetQueued(q) =>
              \E e \in AutomationEvent :
                e.status = "queued" /\ Appends(q, e)
         /\ \A q \in Requests : Complete(q) \/ (\E d \in Nat : FailOrRetry(q, d)) =>
              \E e \in AutomationEvent :
                /\ e.status \notin {"queued", "running"}
                /\ Appends(q, e)
<1>1. ASSUME NEW q \in Requests, NEW s \in AutomationStatus, NEW n \in Nat,
             AppendEvent(q, s, n)
      PROVE  \E e \in AutomationEvent :
               e.status = s /\ Appends(q, e)
  <2>1. PICK e : e = [status |-> s, attempt |-> n]
    OBVIOUS
  <2>2. e \in AutomationEvent /\ e.status = s
    BY <2>1 DEF AutomationEvent
  <2> QED
    BY <1>1, <2>1, <2>2 DEF AppendEvent, Appends
<1>2. \A q \in Requests : /\ Outcome(q) \in AutomationStatus \ {"queued", "running"}
                         /\ attempt_count[q] \in Nat
                         /\ attempt_count[q] + 1 \in Nat
  BY DEF Outcome, AutomationStatus, RepositoryTypeOK
<1>3. {"running", "completed", "queued"} \subseteq AutomationStatus
  BY DEF AutomationStatus
<1>4. ASSUME NEW q \in Requests, ClaimRow(q)
      PROVE  \E e \in AutomationEvent :
               e.status = "running" /\ Appends(q, e)
  BY <1>1, <1>2, <1>3, <1>4 DEF ClaimRow
<1>5. ASSUME NEW q \in Requests, SetQueued(q)
      PROVE  \E e \in AutomationEvent :
               e.status = "queued" /\ Appends(q, e)
  BY <1>1, <1>3, <1>5 DEF SetQueued
<1>6. ASSUME NEW q \in Requests, Complete(q) \/ (\E d \in Nat : FailOrRetry(q, d))
      PROVE  \E e \in AutomationEvent :
               /\ e.status \notin {"queued", "running"}
               /\ Appends(q, e)
  <2>1. PICK s \in AutomationStatus \ {"queued", "running"}, n \in Nat : AppendEvent(q, s, n)
    BY <1>2, <1>3, <1>6 DEF Complete, FailOrRetry
  <2> QED
    BY <1>1, <2>1
<1> QED
  BY <1>4, <1>5, <1>6

(* No transaction drops an event, and a claim adds one that starts an      *)
(* attempt.                                                                *)
LEMMA StartsGrow ==
  ASSUME RepositoryTypeOK, RowStep, NEW r \in Requests
  PROVE  /\ Marked(r, "running") \in Nat /\ Marked(r, "running")' \in Nat
         /\ Marked(r, "running")' >= Marked(r, "running")
         /\ ClaimRow(r) => Marked(r, "running")' = Marked(r, "running") + 1
<1>1. Marked(r, "running") \in Nat
  BY MarkedByTrail
<1>2. ClaimRow(r) => Marked(r, "running")' = Marked(r, "running") + 1
  BY EventOfRowStep, MarkedAfter
<1>3. CASE UNCHANGED events
  BY <1>1, <1>2, <1>3 DEF Marked
<1>4. CASE \E q \in Requests, e \in AutomationEvent :
             Appends(q, e)
  <2>1. PICK n \in {0, 1} : Marked(r, "running")' = Marked(r, "running") + n
    BY <1>4, MarkedAfter
  <2> QED
    BY <1>1, <1>2, <2>1
<1> QED
  BY <1>3, <1>4, EventOfRowStep DEF RowStep

(* What the trail says was paid for, and what of it has been spent.        *)
Balanced(starts, decisions, spent, budget) ==
  starts = budget * (decisions - 1) + spent

EveryStartIsPaid ==
  \A r \in Requests :
    Persisted(r) =>
      Balanced(Marked(r, "running"), Marked(r, "queued"), attempt_count[r], MaxAttempts[r])

LEMMA Balance ==
  ASSUME NEW n \in Nat, NEW d \in Nat, NEW k \in Nat, NEW b \in Nat, Balanced(n, d, k, b)
  PROVE  Balanced(n + 1, d, k + 1, b) /\ (k = b => Balanced(n, d + 1, 0, b))
<1>1. b * ((d + 1) - 1) = b * (d - 1) + b
  OBVIOUS
<1> QED
  BY <1>1 DEF Balanced

LEMMA PaidStep ==
  ASSUME RepositoryTypeOK, AttemptBudget, AuditTrail, EveryStartIsPaid, RowStep
  PROVE  EveryStartIsPaid'
<1> SUFFICES ASSUME NEW r \in Requests, Persisted(r)'
             PROVE  Balanced(Marked(r, "running")', Marked(r, "queued")',
                             attempt_count'[r], MaxAttempts[r])
  BY DEF EveryStartIsPaid
<1>1. PICK n, d, k, b : /\ n = Marked(r, "running") /\ d = Marked(r, "queued")
                        /\ k = attempt_count[r] /\ b = MaxAttempts[r]
  OBVIOUS
<1>2. n \in Nat /\ d \in Nat /\ k \in Nat /\ b \in Nat
  BY <1>1, MarkedByTrail, RepositoryAssumption DEF RepositoryTypeOK
<1>3. Persisted(r) => Balanced(n, d, k, b)
  BY <1>1 DEF EveryStartIsPaid
<1>4. ASSUME NEW q \in Requests, q # r, NEW e \in AutomationEvent,
             Appends(q, e),
             status'[r] = status[r], attempt_count'[r] = attempt_count[r]
      PROVE  Balanced(Marked(r, "running")', Marked(r, "queued")', attempt_count'[r], b)
  <2>1. Marked(r, "running")' = n /\ Marked(r, "queued")' = d
    BY <1>1, <1>2, <1>4, MarkedAfter
  <2> QED
    BY <1>1, <1>3, <1>4, <2>1 DEF Persisted
<1>5. CASE UNCHANGED <<status, attempt_count, events>>
  BY <1>1, <1>3, <1>5 DEF Marked, Persisted
<1>6. ASSUME NEW q \in Requests, Eligible(q), ClaimRow(q)
      PROVE  Balanced(Marked(r, "running")', Marked(r, "queued")', attempt_count'[r], b)
  <2>1. PICK e \in AutomationEvent :
          e.status = "running" /\ Appends(q, e)
    BY <1>6, EventOfRowStep
  <2>2. CASE q = r
    <3>1. Persisted(r) /\ attempt_count'[r] = k + 1
      BY <1>1, <1>6, <2>2 DEF Eligible, ClaimRow, Persisted, RepositoryTypeOK
    <3>2. Marked(r, "running")' = n + 1 /\ Marked(r, "queued")' = d
      BY <1>1, <1>2, <2>1, <2>2, MarkedAfter
    <3> QED
      BY <1>2, <1>3, <3>1, <3>2, Balance
  <2>3. CASE q # r
    <3>1. status'[r] = status[r] /\ attempt_count'[r] = attempt_count[r]
      BY <1>6, <2>3 DEF ClaimRow, RepositoryTypeOK
    <3> QED
      BY <1>4, <2>1, <2>3, <3>1
  <2> QED
    BY <2>2, <2>3
<1>7. ASSUME NEW q \in Requests, status[q] = "running",
             Complete(q) \/ (\E x \in Nat : FailOrRetry(q, x))
      PROVE  Balanced(Marked(r, "running")', Marked(r, "queued")', attempt_count'[r], b)
  <2>1. PICK e \in AutomationEvent :
          /\ e.status \notin {"queued", "running"}
          /\ Appends(q, e)
    BY <1>7, EventOfRowStep
  <2>2. attempt_count'[r] = k
    BY <1>1, <1>7 DEF Complete, FailOrRetry
  <2>3. CASE q = r
    <3>1. Marked(r, "running")' = n /\ Marked(r, "queued")' = d
      BY <1>1, <1>2, <2>1, <2>3, MarkedAfter
    <3> QED
      BY <1>3, <1>7, <2>2, <2>3, <3>1 DEF Persisted
  <2>4. CASE q # r
    <3>1. status'[r] = status[r]
      BY <1>7, <2>4 DEF Complete, FailOrRetry, RepositoryTypeOK
    <3> QED
      BY <1>1, <1>4, <2>1, <2>2, <2>4, <3>1
  <2> QED
    BY <2>3, <2>4
<1>8. ASSUME NEW q \in Requests, status[q] \in {"absent", "dead_letter"}, SetQueued(q)
      PROVE  Balanced(Marked(r, "running")', Marked(r, "queued")', attempt_count'[r], b)
  <2>1. PICK e \in AutomationEvent :
          e.status = "queued" /\ Appends(q, e)
    BY <1>8, EventOfRowStep
  <2>2. CASE q = r
    <3>1. attempt_count'[r] = 0
      BY <1>8, <2>2 DEF SetQueued, RepositoryTypeOK
    <3>2. Marked(r, "running")' = n /\ Marked(r, "queued")' = d + 1
      BY <1>1, <1>2, <2>1, <2>2, MarkedAfter
    <3>3. CASE status[r] = "dead_letter"
      <4>1. Persisted(r) /\ k = b
        BY <1>1, <3>3 DEF AttemptBudget, Persisted
      <4> QED
        BY <1>2, <1>3, <3>1, <3>2, <4>1, Balance
    <3>4. CASE status[r] = "absent"
      <4>1. events[r] = <<>>
        BY <3>4 DEF AuditTrail, Persisted
      <4>2. At(events[r], "running") = {} /\ At(events[r], "queued") = {}
        BY <4>1 DEF At
      <4>3. n = 0 /\ d = 0
        BY <1>1, <4>2, MarkedByTrail, FS_EmptySet
      <4> QED
        BY <1>2, <3>1, <3>2, <4>3 DEF Balanced
    <3> QED
      BY <1>8, <2>2, <3>3, <3>4
  <2>3. CASE q # r
    <3>1. status'[r] = status[r] /\ attempt_count'[r] = attempt_count[r]
      BY <1>8, <2>3 DEF SetQueued, RepositoryTypeOK
    <3> QED
      BY <1>4, <2>1, <2>3, <3>1
  <2> QED
    BY <2>2, <2>3
<1> QED
  BY <1>1, <1>5, <1>6, <1>7, <1>8 DEF RowStep

(* A step calls a target, or leaves every count of calls; a worker is past *)
(* its claim only because it was, or because it has just made it.          *)
LEMMA CallMoves ==
  ASSUME IInv, [Next]_vars
  PROVE  \/ \E w \in Workers : Execute(w)
         \/ /\ calls' = calls
            /\ \A w \in Workers : pc'[w] = "claimed" =>
                 \/ pc[w] = "claimed" /\ held'[w] = held[w]
                 \/ held'[w] \in Requests /\ ClaimRow(held'[w])
<1> USE DEF IInv, TypeOK, WorkerTypeOK
<1>1. ASSUME NEW w \in Workers, RunOnce(w), ~Execute(w)
      PROVE  /\ calls' = calls
             /\ \A v \in Workers : pc'[v] = "claimed" =>
                  \/ pc[v] = "claimed" /\ held'[v] = held[v]
                  \/ held'[v] \in Requests /\ ClaimRow(held'[v])
  <2>1. calls' = calls
    BY <1>1
       DEF RunOnce, historyVars, ConsumeMessage, PollDatabase, ClaimMessage,
           StaleMessage, ClaimNext, NothingEligible, Defer, Succeed,
           RateLimited, Fail, RecordCompletion, RecordFailure,
           RecordFailureRaises
  <2>2. \A v \in Workers \ {w} : pc'[v] = pc[v] /\ held'[v] = held[v]
    BY <1>1
       DEF RunOnce, GoTo, Hold, Return, Die, ConsumeMessage, PollDatabase,
           ClaimMessage, StaleMessage, ClaimNext, NothingEligible, Defer,
           Succeed, RateLimited, Fail, RecordCompletion, RecordFailure,
           RecordFailureRaises
  <2>3. CASE ClaimMessage(w)
    <3>1. held'[w] = held[w] /\ held[w] \in Requests /\ ClaimRow(held[w])
      BY <2>3 DEF ClaimMessage, InHand, WorkerInHand
    <3> QED
      BY <2>1, <2>2, <3>1
  <2>4. CASE ClaimNext(w)
    <3>1. held'[w] \in Requests /\ ClaimRow(held'[w])
      BY <2>4 DEF ClaimNext, Hold
    <3> QED
      BY <2>1, <2>2, <3>1
  <2>5. CASE ~ClaimMessage(w) /\ ~ClaimNext(w)
    <3>1. pc'[w] # "claimed"
      BY <1>1, <2>5
         DEF RunOnce, GoTo, Return, Die, ConsumeMessage, PollDatabase,
             StaleMessage, NothingEligible, Defer, Succeed, RateLimited, Fail,
             RecordCompletion, RecordFailure, RecordFailureRaises
    <3> QED
      BY <2>1, <2>2, <3>1
  <2> QED
    BY <2>3, <2>4, <2>5
<1>2. ASSUME NEW w \in Workers, LifeOf(w)
      PROVE  /\ calls' = calls
             /\ \A v \in Workers : pc'[v] = "claimed" =>
                  pc[v] = "claimed" /\ held'[v] = held[v]
  BY <1>2 DEF LifeOf, Crash, Restart, Die, GoTo, Hold, historyVars
<1>3. ASSUME (\E a \in Callers : Serve(a)) \/ Broker \/ Tick \/ UNCHANGED vars
      PROVE  UNCHANGED <<calls, pc, held>>
  BY <1>3 DEF Serve, Broker, Tick, vars, workerVars, processVars, historyVars
<1> QED
  BY <1>1, <1>2, <1>3 DEF Next, Work

(* Between its claim and its call a worker is one event ahead.             *)
ClaimIsAhead ==
  \A w \in Workers : pc[w] = "claimed" => calls[held[w]] < Marked(held[w], "running")

CallsAreAnnounced == \A r \in Requests : calls[r] <= Marked(r, "running")

(* A call is made by the only worker past its claim of that request, and   *)
(* uses up the event by which it was ahead.                                *)
LEMMA CallsCounted ==
  ASSUME IInv, CallsAreAnnounced, ClaimIsAhead, NEW w \in Workers, Execute(w)
  PROVE  (CallsAreAnnounced /\ ClaimIsAhead)'
<1> USE DEF IInv, TypeOK, WorkerTypeOK
<1>1. PICK r \in Requests : r = held[w]
  BY DEF Execute, InHand, WorkerInHand, Owning
<1>2. /\ calls' = [calls EXCEPT ![r] = @ + 1] /\ UNCHANGED <<events, held>>
      /\ \A v \in Workers : pc'[v] = "claimed" => v # w /\ pc[v] = "claimed"
  BY <1>1 DEF Execute, GoTo, repositoryVars
<1>3. \A q \in Requests : /\ Marked(q, "running")' = Marked(q, "running")
                         /\ Marked(q, "running") \in Nat
  BY <1>2, MarkedByTrail DEF Marked
<1>4. CallsAreAnnounced'
  <2>1. calls[r] < Marked(r, "running")
    BY <1>1 DEF Execute, ClaimIsAhead
  <2>2. calls[r] + 1 <= Marked(r, "running")
    BY <1>3, <2>1
  <2> QED
    BY <1>2, <1>3, <2>2 DEF CallsAreAnnounced
<1>5. ASSUME NEW v \in Workers, pc'[v] = "claimed"
      PROVE  calls'[held'[v]] < Marked(held[v], "running")'
  <2>1. v # w /\ pc[v] = "claimed" /\ held[v] \in Requests
    BY <1>2, <1>5 DEF InHand, WorkerInHand, Owning
  <2>2. held[v] # r
    BY <1>1, <2>1 DEF Execute, ExclusiveClaim, Owns, Owning
  <2>3. calls'[held[v]] = calls[held[v]] /\ held'[v] = held[v]
    BY <1>2, <2>1, <2>2
  <2>4. calls[held[v]] < Marked(held[v], "running")
    BY <2>1 DEF ClaimIsAhead
  <2>5. PICK q \in Requests : q = held[v]
    BY <2>1
  <2>6. Marked(q, "running")' = Marked(q, "running") /\ held'[v] = q
    BY <1>3, <2>3, <2>5
  <2>7. Marked(held[v], "running")' = Marked(q, "running")
    BY <2>6 DEF Marked
  <2> QED
    BY <2>3, <2>4, <2>5, <2>7
<1> QED
  BY <1>4, <1>5 DEF ClaimIsAhead

LEMMA CallsStep ==
  ASSUME IInv, IInv', CallsAreAnnounced, ClaimIsAhead, [Next]_vars
  PROVE  (CallsAreAnnounced /\ ClaimIsAhead)'
<1>1. CASE \E w \in Workers : Execute(w)
  BY <1>1, CallsCounted
<1>2. ASSUME calls' = calls,
             \A w \in Workers : pc'[w] = "claimed" =>
               \/ pc[w] = "claimed" /\ held'[w] = held[w]
               \/ held'[w] \in Requests /\ ClaimRow(held'[w])
      PROVE  (CallsAreAnnounced /\ ClaimIsAhead)'
  <2>1. RowStep /\ RepositoryTypeOK
    BY EveryRowStep DEF IInv, TypeOK
  <2>2. ASSUME NEW r \in Requests
        PROVE  /\ calls[r] \in Nat /\ calls'[r] = calls[r]
               /\ calls[r] <= Marked(r, "running")
               /\ Marked(r, "running") \in Nat /\ Marked(r, "running")' \in Nat
               /\ Marked(r, "running")' >= Marked(r, "running")
               /\ ClaimRow(r) => Marked(r, "running")' = Marked(r, "running") + 1
    BY <1>2, <2>1, StartsGrow DEF IInv, TypeOK, WorkerTypeOK, CallsAreAnnounced
  <2>3. CallsAreAnnounced'
    <3>1. \A r \in Requests : calls'[r] <= Marked(r, "running")'
      BY <2>2
    <3> QED
      BY <3>1 DEF CallsAreAnnounced
  <2>4. ASSUME NEW w \in Workers, pc'[w] = "claimed"
        PROVE  calls'[held'[w]] < Marked(held[w], "running")'
    <3>1. PICK r \in Requests : r = held'[w]
      BY <2>4 DEF IInv, InHand, WorkerInHand, Owning
    <3>2. Marked(held[w], "running")' = Marked(r, "running")'
      BY <3>1 DEF Marked
    <3>3. CASE pc[w] = "claimed" /\ r = held[w]
      BY <2>2, <3>1, <3>2, <3>3 DEF ClaimIsAhead
    <3>4. CASE ClaimRow(r)
      BY <2>2, <3>1, <3>2, <3>4
    <3> QED
      BY <1>2, <2>4, <3>1, <3>3, <3>4
  <2> QED
    BY <2>3, <2>4 DEF ClaimIsAhead
<1> QED
  BY <1>1, <1>2, CallMoves

(* No target system is ever called for a request without an audit event    *)
(* that announced the attempt, every announcement is good for one call     *)
(* (claims are exclusive, and a worker that dies takes its claim with it), *)
(* and however often a request is replayed, its trail shows max_attempts   *)
(* starts for each decision to queue it but the last, and for that one as  *)
(* many as the row has counted.                                            *)
THEOREM CallsNeedAudit == Spec => []CallsAreAudited
<1>1. Init => CallsAreAnnounced /\ ClaimIsAhead /\ EveryStartIsPaid
  <2> SUFFICES ASSUME Init PROVE CallsAreAnnounced /\ ClaimIsAhead /\ EveryStartIsPaid
    OBVIOUS
  <2>1. ClaimIsAhead
    BY DEF Init, WorkerInit, ClaimIsAhead
  <2>2. ASSUME NEW r \in Requests PROVE calls[r] <= Marked(r, "running")
    <3>1. calls[r] = 0
      BY DEF Init, WorkerInit
    <3>2. Marked(r, "running") \in Nat
      BY TypeInit, MarkedByTrail DEF TypeOK
    <3> QED
      BY <3>1, <3>2
  <2>3. EveryStartIsPaid
    BY DEF Init, RepositoryInit, EveryStartIsPaid, Persisted
  <2> QED
    BY <2>1, <2>2, <2>3 DEF CallsAreAnnounced
<1>2. IInv /\ IInv' /\ CallsAreAnnounced /\ ClaimIsAhead /\ [Next]_vars
        => (CallsAreAnnounced /\ ClaimIsAhead)'
  BY CallsStep
<1>3. IInv /\ AuditTrail /\ EveryStartIsPaid /\ [Next]_vars => EveryStartIsPaid'
  BY PaidStep, EveryRowStep DEF IInv, TypeOK
<1>4. CallsAreAnnounced /\ EveryStartIsPaid => CallsAreAudited
  BY DEF CallsAreAnnounced, EveryStartIsPaid, CallsAreAudited, Balanced
<1> QED
  BY <1>1, <1>2, <1>3, <1>4, InductiveInvariant, AuditTrailIsComplete, PTL DEF Spec

-----------------------------------------------------------------------------
(* Requests left running: only a death can add one, the one in hand.       *)
LEMMA StrandedByWork ==
  ASSUME IInv, NEW w \in Workers, RunOnce(w), ~RecordFailureRaises(w)
  PROVE  UNCHANGED deaths /\ Stranded' \subseteq Stranded
<1> USE DEF IInv, TypeOK, WorkerTypeOK
<1>1. UNCHANGED deaths
  BY DEF RunOnce, historyVars, ConsumeMessage, PollDatabase, ClaimMessage,
         StaleMessage, ClaimNext, NothingEligible, Defer, Execute, Succeed,
         RateLimited, Fail, RecordCompletion, RecordFailure
<1>2. CASE ConsumeMessage(w) \/ PollDatabase(w) \/ StaleMessage(w)
           \/ NothingEligible(w) \/ Defer(w) \/ Execute(w) \/ Succeed(w)
           \/ RateLimited(w) \/ Fail(w)
  <2>1. UNCHANGED status
    BY <1>2
       DEF repositoryVars, ConsumeMessage, PollDatabase, StaleMessage,
           NothingEligible, Defer, Execute, Succeed, RateLimited, Fail
  <2>2. \A v \in Workers, q \in Requests : Owns(v, q) => Owns(v, q)'
    BY <1>2
       DEF ConsumeMessage, PollDatabase, StaleMessage, NothingEligible, Defer,
           Execute, Succeed, RateLimited, Fail, Return, GoTo, Hold, Owns, Owning
  <2> QED
    BY <1>1, <2>1, <2>2 DEF Stranded
<1>3. ASSUME NEW r \in Requests, pc[w] \notin Owning, ClaimRow(r),
             GoTo(w, "claimed"), Hold(w, r)
      PROVE  Stranded' \subseteq Stranded
  <2>1. \A q \in Requests \ {r} : status'[q] = status[q]
    BY <1>3 DEF ClaimRow, RepositoryTypeOK
  <2>2. Owns(w, r)'
    BY <1>3 DEF GoTo, Hold, Owns, Owning
  <2>3. \A v \in Workers, q \in Requests : Owns(v, q) => Owns(v, q)'
    BY <1>3 DEF GoTo, Hold, Owns
  <2> QED
    BY <2>1, <2>2, <2>3 DEF Stranded
<1>4. CASE ClaimMessage(w)
  <2>1. /\ held[w] \in Requests /\ pc[w] \notin Owning /\ ClaimRow(held[w])
        /\ GoTo(w, "claimed") /\ Hold(w, held[w])
    BY <1>4 DEF ClaimMessage, InHand, WorkerInHand, Hold, Owning
  <2> QED
    BY <1>1, <1>3, <2>1
<1>5. CASE ClaimNext(w)
  <2>1. PICK r \in Requests : ClaimRow(r) /\ Hold(w, r)
    BY <1>5 DEF ClaimNext
  <2>2. pc[w] \notin Owning /\ GoTo(w, "claimed")
    BY <1>5 DEF ClaimNext, Owning
  <2> QED
    BY <1>1, <1>3, <2>1, <2>2
<1>6. CASE RecordCompletion(w) \/ RecordFailure(w)
  <2>1. PICK r \in Requests : r = held[w]
    BY <1>6 DEF RecordCompletion, RecordFailure, InHand, WorkerInHand, Owning
  <2>2. status'[r] # "running" /\ \A q \in Requests \ {r} : status'[q] = status[q]
    BY <1>6, <2>1
       DEF RecordCompletion, RecordFailure, Complete, FailOrRetry, Outcome,
           RepositoryTypeOK
  <2>3. \A v \in Workers, q \in Requests \ {r} : Owns(v, q) => Owns(v, q)'
    BY <1>6, <2>1 DEF RecordCompletion, RecordFailure, Return, GoTo, Hold, Owns
  <2> QED
    BY <1>1, <2>2, <2>3 DEF Stranded
<1> QED
  BY <1>2, <1>4, <1>5, <1>6 DEF RunOnce

LEMMA StrandedByDeath ==
  ASSUME IInv, NEW w \in Workers, Die(w), UNCHANGED repositoryVars
  PROVE  deaths' = deaths + 1 /\ Stranded' \subseteq Stranded \cup {held[w]}
<1>1. UNCHANGED status /\ deaths' = deaths + 1
  BY DEF Die, repositoryVars
<1>2. \A v \in Workers, q \in Requests :
        Owns(v, q) /\ q # held[w] => Owns(v, q)'
  BY DEF Die, GoTo, Hold, Owns, IInv, TypeOK, WorkerTypeOK
<1> QED
  BY <1>1, <1>2 DEF Stranded

LEMMA StrandedByCall ==
  ASSUME IInv, NEW a \in Callers, Serve(a)
  PROVE  UNCHANGED deaths /\ Stranded' \subseteq Stranded
<1>1. UNCHANGED <<pc, held, deaths>>
  BY DEF Serve, processVars
<1>2. \A q \in Requests : status'[q] = "running" => status[q] = "running"
  BY DEF Serve, ServiceCall, Submit, Replay, ReplayDeadLetter, CreateRow,
         Create, PublishId, CallFails, SetQueued, repositoryVars, IInv, TypeOK,
         RepositoryTypeOK
<1> QED
  BY <1>1, <1>2 DEF Stranded, Owns

(* The requests left running are finitely many, and at most as many as     *)
(* before when no worker died, one more when one did.                      *)
LEMMA StrandedStep ==
  ASSUME IInv, OneStrandedPerDeath, [Next]_vars PROVE OneStrandedPerDeath'
<1>0. deaths \in Nat
  BY DEF IInv, TypeOK, WorkerTypeOK
<1>1. IsFiniteSet(Stranded) /\ Cardinality(Stranded) \in Nat
  BY RepositoryAssumption, FS_Subset, FS_CardinalityType
     DEF RepositoryAssumption, Stranded
<1>2. ASSUME UNCHANGED deaths, Stranded' \subseteq Stranded
      PROVE  OneStrandedPerDeath'
  <2>1. Cardinality(Stranded') \in Nat /\ Cardinality(Stranded') <= Cardinality(Stranded)
    BY <1>1, <1>2, FS_Subset, FS_CardinalityType
  <2> QED
    BY <1>0, <1>1, <1>2, <2>1 DEF OneStrandedPerDeath
<1>3. ASSUME NEW w \in Workers, Die(w), UNCHANGED repositoryVars
      PROVE  OneStrandedPerDeath'
  <2>1. PICK r : r = held[w]
    OBVIOUS
  <2>2. PICK T : T = Stranded \cup {r}
    OBVIOUS
  <2>3. deaths' = deaths + 1 /\ Stranded' \subseteq T
    BY <1>3, <2>1, <2>2, StrandedByDeath
  <2>4. /\ IsFiniteSet(T)
        /\ Cardinality(T) =
             IF r \in Stranded THEN Cardinality(Stranded) ELSE Cardinality(Stranded) + 1
    BY <1>1, <2>2, FS_AddElement
  <2>5. Cardinality(Stranded') \in Nat /\ Cardinality(Stranded') <= Cardinality(T)
    BY <2>3, <2>4, FS_Subset, FS_CardinalityType
  <2> QED
    BY <1>0, <1>1, <2>3, <2>4, <2>5 DEF OneStrandedPerDeath
<1>4. ASSUME NEW w \in Workers, Work(w) PROVE OneStrandedPerDeath'
  <2>1. CASE RecordFailureRaises(w)
    BY <1>3, <2>1 DEF RecordFailureRaises
  <2>2. CASE ~RecordFailureRaises(w)
    BY <1>2, <1>4, <2>2, StrandedByWork DEF Work
  <2> QED
    BY <2>1, <2>2
<1>5. ASSUME NEW w \in Workers, LifeOf(w) PROVE OneStrandedPerDeath'
  <2>1. CASE Crash(w)
    BY <1>3, <2>1 DEF Crash
  <2>2. CASE Restart(w)
    <3>1. UNCHANGED <<status, deaths>>
      BY <2>2 DEF Restart, repositoryVars, historyVars
    <3>2. \A v \in Workers, q \in Requests : Owns(v, q) => Owns(v, q)'
      BY <2>2 DEF Restart, GoTo, Owns, Owning, IInv, TypeOK, WorkerTypeOK
    <3> QED
      BY <1>2, <3>1, <3>2 DEF Stranded
  <2> QED
    BY <1>5, <2>1, <2>2 DEF LifeOf
<1>6. ASSUME NEW a \in Callers, Serve(a) PROVE OneStrandedPerDeath'
  BY <1>2, <1>6, StrandedByCall
<1>7. CASE Broker \/ Tick \/ UNCHANGED vars
  <2>1. UNCHANGED <<status, pc, held, deaths>>
    BY <1>7
       DEF Broker, Tick, vars, repositoryVars, workerVars, processVars,
           historyVars
  <2> QED
    BY <1>2, <2>1 DEF Stranded, Owns
<1> QED
  BY <1>4, <1>5, <1>6, <1>7 DEF Next

(* A request is left running for ever only by the death of the worker that *)
(* owned it, and each death leaves at most one.  Nothing a client, the     *)
(* broker, a timer or another worker does leaves any.                      *)
THEOREM DeathStrandsAtMostOne == Spec => []OneStrandedPerDeath
<1>1. Init => OneStrandedPerDeath
  <2> SUFFICES ASSUME Init PROVE OneStrandedPerDeath
    OBVIOUS
  <2>1. Stranded = {} /\ deaths = 0
    BY DEF Init, RepositoryInit, WorkerInit, Stranded
  <2> QED
    BY <2>1, FS_EmptySet DEF OneStrandedPerDeath
<1>2. IInv /\ OneStrandedPerDeath /\ [Next]_vars => OneStrandedPerDeath'
  BY StrandedStep
<1> QED
  BY <1>1, <1>2, InductiveInvariant, PTL DEF Spec

-----------------------------------------------------------------------------
(* A rate limit's Retry-After: whoever may call next waits at least as     *)
(* long, be it the row, until its next attempt, or the worker that is      *)
(* about to write the row.                                                 *)
RowWaits(r) ==
  /\ status[r] \in {"absent", "queued"} => hint_left[r] = 0
  /\ status[r] = "retrying" => hint_left[r] <= next_attempt_in[r]

WorkerWaits(w) ==
  /\ pc[w] \in {"claimed", "executing"} => hint_left[held[w]] = 0
  /\ pc[w] = "failing" => hint_left[held[w]] <= retry_delay[w]

HintCovered ==
  (\A r \in Requests : RowWaits(r)) /\ (\A w \in Workers : WorkerWaits(w))

(* What a transaction does to its row when no hint is given or forgotten.  *)
LEMMA HintKeptByRow ==
  ASSUME RepositoryTypeOK, WorkerTypeOK, UNCHANGED hint_left,
         \A r \in Requests : RowWaits(r),
         \/ UNCHANGED <<status, next_attempt_in>>
         \/ \E r \in Requests : ClaimRow(r) \/ Complete(r)
         \/ \E r \in Requests, d \in Nat : hint_left[r] <= d /\ FailOrRetry(r, d)
  PROVE  \A r \in Requests : RowWaits(r)'
<1>1. CASE UNCHANGED <<status, next_attempt_in>>
  BY <1>1 DEF RowWaits
<1>2. ASSUME NEW q \in Requests, ClaimRow(q) \/ Complete(q)
      PROVE  \A r \in Requests : RowWaits(r)'
  BY <1>2 DEF RowWaits, ClaimRow, Complete, RepositoryTypeOK
<1>3. ASSUME NEW q \in Requests, NEW d \in Nat, hint_left[q] <= d, FailOrRetry(q, d)
      PROVE  \A r \in Requests : RowWaits(r)'
  BY <1>3 DEF RowWaits, FailOrRetry, Outcome, RepositoryTypeOK
<1> QED
  BY <1>1, <1>2, <1>3

(* A worker claims what need not wait, and passes on what must.            *)
LEMMA RunOnceHints ==
  ASSUME IInv, IInv', HintCovered, NEW w \in Workers, RunOnce(w)
  PROVE  HintCovered'
<1> USE DEF IInv, TypeOK, WorkerTypeOK, HintCovered
<1>0. \A v \in Workers \ {w} :
        pc'[v] = pc[v] /\ held'[v] = held[v] /\ retry_delay'[v] = retry_delay[v]
  BY DEF RunOnce, GoTo, Hold, SetDelay, Return, Die, ConsumeMessage,
         PollDatabase, ClaimMessage, StaleMessage, ClaimNext, NothingEligible,
         Defer, Execute, Succeed, RateLimited, Fail, RecordCompletion,
         RecordFailure, RecordFailureRaises
<1>1. ASSUME UNCHANGED hint_left, WorkerWaits(w)'
      PROVE  \A v \in Workers : WorkerWaits(v)'
  BY <1>0, <1>1 DEF WorkerWaits
<1>2. CASE ConsumeMessage(w) \/ PollDatabase(w) \/ StaleMessage(w)
           \/ NothingEligible(w) \/ Execute(w) \/ Succeed(w)
           \/ RecordFailureRaises(w)
  <2>1. UNCHANGED <<status, next_attempt_in, hint_left>>
    BY <1>2
       DEF ConsumeMessage, PollDatabase, StaleMessage, NothingEligible,
           Execute, Succeed, RecordFailureRaises, repositoryVars, historyVars
  <2>2. WorkerWaits(w)'
    <3>1. CASE Execute(w)
      <4>1. pc[w] = "claimed" /\ pc'[w] = "executing" /\ held'[w] = held[w]
        BY <3>1 DEF Execute, GoTo
      <4>2. hint_left[held[w]] = 0
        BY <4>1 DEF WorkerWaits
      <4> QED
        BY <2>1, <4>1, <4>2 DEF WorkerWaits
    <3>2. CASE ~Execute(w)
      <4>1. pc'[w] \notin {"claimed", "executing", "failing"}
        BY <1>2, <3>2
           DEF ConsumeMessage, PollDatabase, StaleMessage, NothingEligible,
               Succeed, RecordFailureRaises, Return, Die, GoTo
      <4> QED
        BY <4>1 DEF WorkerWaits
    <3> QED
      BY <3>1, <3>2
  <2> QED
    BY <1>1, <2>1, <2>2, HintKeptByRow
<1>3. CASE Defer(w) \/ Fail(w)
  <2>1. UNCHANGED <<status, next_attempt_in, hint_left, held>>
    BY <1>3 DEF Defer, Fail, repositoryVars, historyVars
  <2>2. pc[w] \in {"claimed", "executing"} /\ pc'[w] = "failing"
    BY <1>3 DEF Defer, Fail, GoTo
  <2>3. hint_left[held[w]] = 0 /\ retry_delay'[w] \in Nat
    BY <2>2 DEF WorkerWaits
  <2>4. WorkerWaits(w)'
    BY <2>1, <2>2, <2>3 DEF WorkerWaits
  <2> QED
    BY <1>1, <2>1, <2>4, HintKeptByRow
<1>4. CASE RateLimited(w)
  <2>1. PICK h \in Nat : /\ SetDelay(w, h)
                         /\ hint_left' = [hint_left EXCEPT ![held[w]] = h]
    BY <1>4, WorkerAssumption DEF RateLimited, WorkerAssumption
  <2>2. PICK r \in Requests : r = held[w] /\ Owns(w, r)
    BY <1>4 DEF RateLimited, InHand, WorkerInHand, Owns, Owning
  <2>3. /\ status[r] = "running" /\ UNCHANGED <<status, next_attempt_in, held>>
        /\ \A q \in Requests \ {r} : hint_left'[q] = hint_left[q]
    BY <1>4, <2>1, <2>2 DEF RateLimited, ExclusiveClaim, repositoryVars
  <2>4. WorkerWaits(w)'
    BY <1>4, <2>1, <2>2, <2>3 DEF RateLimited, GoTo, SetDelay, WorkerWaits
  <2>5. ASSUME NEW v \in Workers \ {w} PROVE WorkerWaits(v)'
    <3>1. CASE pc[v] \in Owning
      <4>1. held[v] \in Requests /\ held[v] # r
        BY <2>2, <2>5, <3>1 DEF InHand, WorkerInHand, ExclusiveClaim, Owns
      <4> QED
        BY <1>0, <2>3, <4>1 DEF WorkerWaits
    <3>2. CASE pc[v] \notin Owning
      BY <1>0, <3>2 DEF WorkerWaits, Owning
    <3> QED
      BY <3>1, <3>2
  <2>6. \A q \in Requests : RowWaits(q)'
    BY <2>3 DEF RowWaits
  <2> QED
    BY <2>4, <2>5, <2>6
<1>5. ASSUME NEW r \in Requests, Eligible(r), ClaimRow(r), held'[w] = r,
             GoTo(w, "claimed"), UNCHANGED hint_left
      PROVE  HintCovered'
  <2>1. hint_left[r] = 0
    BY <1>5 DEF Eligible, RowWaits
  <2>2. WorkerWaits(w)'
    BY <1>5, <2>1 DEF GoTo, WorkerWaits
  <2> QED
    BY <1>1, <1>5, <2>2, HintKeptByRow
<1>6. CASE ClaimMessage(w)
  BY <1>5, <1>6 DEF ClaimMessage, InHand, WorkerInHand, historyVars
<1>7. CASE ClaimNext(w)
  BY <1>5, <1>7 DEF ClaimNext, OldestEligible, Hold, historyVars
<1>8. CASE RecordCompletion(w)
  <2>1. held[w] \in Requests /\ Complete(held[w]) /\ UNCHANGED hint_left
    BY <1>8 DEF RecordCompletion, InHand, WorkerInHand, Owning, historyVars
  <2>2. WorkerWaits(w)'
    BY <1>8 DEF RecordCompletion, Return, GoTo, WorkerWaits
  <2> QED
    BY <1>1, <2>1, <2>2, HintKeptByRow
<1>9. CASE RecordFailure(w)
  <2>1. /\ held[w] \in Requests /\ retry_delay[w] \in Nat
        /\ FailOrRetry(held[w], retry_delay[w]) /\ UNCHANGED hint_left
    BY <1>9 DEF RecordFailure, InHand, WorkerInHand, Owning, historyVars
  <2>2. hint_left[held[w]] <= retry_delay[w]
    BY <1>9 DEF RecordFailure, WorkerWaits
  <2>3. WorkerWaits(w)'
    BY <1>9 DEF RecordFailure, Return, GoTo, WorkerWaits
  <2> QED
    BY <1>1, <2>1, <2>2, <2>3, HintKeptByRow
<1> QED
  BY <1>2, <1>3, <1>4, <1>6, <1>7, <1>8, <1>9 DEF RunOnce

(* Time counts a hint and the wait that covers it down together.           *)
LEMMA TickHints ==
  ASSUME IInv, HintCovered, Tick PROVE HintCovered'
<1> USE DEF IInv, TypeOK, WorkerTypeOK, RepositoryTypeOK
<1>1. \A m, n \in Nat :
        /\ CountDown(m) \in Nat /\ CountDown(m) <= m
        /\ m <= n => CountDown(m) <= CountDown(n)
  BY DEF CountDown
<1>2. ASSUME NEW r \in Requests PROVE RowWaits(r)'
  <2>1. /\ hint_left[r] \in Nat /\ next_attempt_in[r] \in Nat
        /\ hint_left'[r] = CountDown(hint_left[r])
        /\ next_attempt_in'[r] = CountDown(next_attempt_in[r])
        /\ status'[r] = status[r]
    BY DEF Tick
  <2>2. CountDown(0) = 0
    BY DEF CountDown
  <2> QED
    BY <1>1, <2>1, <2>2 DEF HintCovered, RowWaits
<1>3. ASSUME NEW w \in Workers PROVE WorkerWaits(w)'
  <2>1. CASE pc[w] \in Owning
    <3>1. PICK r \in Requests : r = held[w]
      BY <2>1 DEF InHand, WorkerInHand
    <3>2. /\ hint_left[r] \in Nat /\ retry_delay[w] \in Nat
          /\ hint_left'[r] = CountDown(hint_left[r])
          /\ UNCHANGED <<pc, held, retry_delay>>
      BY DEF Tick
    <3>3. CountDown(0) = 0
      BY DEF CountDown
    <3>4. CASE pc[w] \in {"claimed", "executing"}
      <4>1. hint_left[r] = 0
        BY <3>1, <3>4 DEF HintCovered, WorkerWaits
      <4> QED
        BY <3>1, <3>2, <3>3, <3>4, <4>1 DEF WorkerWaits
    <3>5. CASE pc[w] = "failing"
      <4>1. hint_left[r] <= retry_delay[w]
        BY <3>1, <3>5 DEF HintCovered, WorkerWaits
      <4>2. PICK h \in Nat, d \in Nat : h = hint_left[r] /\ d = retry_delay[w]
        BY <3>2
      <4>3. CountDown(h) \in Nat /\ CountDown(h) <= h
        BY <1>1
      <4>4. CountDown(h) <= d
        BY <4>1, <4>2, <4>3
      <4> QED
        BY <3>1, <3>2, <3>5, <4>2, <4>4 DEF WorkerWaits
    <3>6. CASE pc[w] = "completing"
      BY <3>2, <3>6 DEF WorkerWaits
    <3> QED
      BY <2>1, <3>4, <3>5, <3>6 DEF Owning
  <2>2. CASE pc[w] \notin Owning
    BY <2>2 DEF Tick, WorkerWaits, Owning
  <2> QED
    BY <2>1, <2>2
<1> QED
  BY <1>2, <1>3 DEF HintCovered

(* A call queues a request that has no hint, or that loses it to a replay; *)
(* nobody owns either.                                                     *)
LEMMA ServeHints ==
  ASSUME IInv, HintCovered, NEW a \in Callers, Serve(a) PROVE HintCovered'
<1> USE DEF IInv, TypeOK, RepositoryTypeOK, WorkerTypeOK
<1>1. /\ UNCHANGED <<pc, held, retry_delay>>
      /\ \A r \in Requests : hint_left'[r] = IF Replayed(r) THEN 0 ELSE hint_left[r]
  BY DEF Serve, processVars
<1>2. ASSUME NEW r \in Requests PROVE RowWaits(r)'
  <2>1. CASE status'[r] = status[r] /\ next_attempt_in'[r] = next_attempt_in[r]
    <3>1. ~Replayed(r)
      BY <2>1 DEF Replayed
    <3> QED
      BY <1>1, <2>1, <3>1 DEF HintCovered, RowWaits
  <2>2. CASE status[r] \in {"absent", "dead_letter"} /\ status'[r] = "queued"
    <3>1. hint_left'[r] = 0
      BY <1>1, <2>2 DEF Replayed, HintCovered, RowWaits
    <3> QED
      BY <2>2, <3>1 DEF RowWaits
  <2>3. ASSUME NEW q \in Requests, SetQueued(q), status[q] \in {"absent", "dead_letter"}
        PROVE  RowWaits(r)'
    BY <2>1, <2>2, <2>3 DEF SetQueued
  <2>4. \/ UNCHANGED <<status, next_attempt_in>>
        \/ \E q \in Requests : SetQueued(q) /\ status[q] \in {"absent", "dead_letter"}
    <3>1. CASE CreateRow(a)
      <4>1. api_id[a] \in Requests /\ status[api_id[a]] = "absent"
        BY <3>1 DEF CreateRow, InHand, CallInHand, FreshIds, Persisted
      <4>2. SetQueued(api_id[a]) \/ UNCHANGED repositoryVars
        BY <3>1 DEF CreateRow, Create
      <4> QED
        BY <4>1, <4>2 DEF repositoryVars
    <3>2. CASE ~CreateRow(a)
      BY <3>2
         DEF Serve, ServiceCall, Submit, Replay, ReplayDeadLetter, PublishId,
             CallFails, repositoryVars
    <3> QED
      BY <3>1, <3>2
  <2> QED
    BY <2>1, <2>3, <2>4
<1>3. ASSUME NEW w \in Workers PROVE WorkerWaits(w)'
  <2>1. CASE pc[w] \in Owning
    <3>1. held[w] \in Requests /\ status[held[w]] = "running"
      BY <2>1 DEF InHand, WorkerInHand, ExclusiveClaim, Owns
    <3>2. hint_left'[held[w]] = hint_left[held[w]]
      BY <1>1, <3>1 DEF Replayed
    <3> QED
      BY <1>1, <3>2 DEF HintCovered, WorkerWaits
  <2>2. CASE pc[w] \notin Owning
    BY <1>1, <2>2 DEF WorkerWaits, Owning
  <2> QED
    BY <2>1, <2>2
<1> QED
  BY <1>2, <1>3 DEF HintCovered

LEMMA HintsStep ==
  ASSUME IInv, IInv', HintCovered, [Next]_vars PROVE HintCovered'
<1>1. ASSUME NEW w \in Workers, Work(w) PROVE HintCovered'
  BY <1>1, RunOnceHints DEF Work
<1>2. ASSUME NEW w \in Workers, LifeOf(w) PROVE HintCovered'
  <2>1. UNCHANGED <<status, next_attempt_in, hint_left>>
    BY <1>2 DEF LifeOf, Crash, Restart, repositoryVars, historyVars
  <2>2. \A v \in Workers : pc'[v] \in Owning =>
          /\ pc'[v] = pc[v] /\ held'[v] = held[v]
          /\ retry_delay'[v] = retry_delay[v]
    BY <1>2
       DEF LifeOf, Crash, Restart, Die, GoTo, Hold, SetDelay, IInv, TypeOK,
           WorkerTypeOK, Owning
  <2> QED
    BY <2>1, <2>2 DEF HintCovered, RowWaits, WorkerWaits, Owning
<1>3. ASSUME NEW a \in Callers, Serve(a) PROVE HintCovered'
  BY <1>3, ServeHints
<1>4. CASE Tick
  BY <1>4, TickHints
<1>5. CASE Broker \/ UNCHANGED vars
  BY <1>5
     DEF Broker, vars, repositoryVars, workerVars, processVars, historyVars,
         HintCovered, RowWaits, WorkerWaits
<1> QED
  BY <1>1, <1>2, <1>3, <1>4, <1>5 DEF Next

(* Only a worker whose wait is over calls a target.                        *)
LEMMA CallAfterHint ==
  ASSUME IInv, HintCovered, [Next]_vars
  PROVE  \A r \in Requests : calls'[r] > calls[r] => hint_left[r] = 0
<1>1. CASE calls' = calls
  BY <1>1 DEF IInv, TypeOK, WorkerTypeOK
<1>2. ASSUME NEW w \in Workers, Execute(w)
      PROVE  \A r \in Requests : calls'[r] > calls[r] => hint_left[r] = 0
  <2>1. hint_left[held[w]] = 0 /\ calls' = [calls EXCEPT ![held[w]] = @ + 1]
    BY <1>2 DEF Execute, HintCovered, WorkerWaits
  <2>2. \A r \in Requests : r # held[w] => calls'[r] = calls[r]
    BY <2>1 DEF IInv, TypeOK, WorkerTypeOK
  <2>3. \A r \in Requests : calls[r] \in Nat
    BY DEF IInv, TypeOK, WorkerTypeOK
  <2> QED
    BY <2>1, <2>2, <2>3
<1> QED
  BY <1>1, <1>2, CallMoves

(* A Retry-After is honoured whatever the delays, cooldowns, deaths and    *)
(* messages, and however often operators replay: only the replay of the    *)
(* request itself lifts what was asked before it.                          *)
THEOREM RetryAfterIsHonoured == Spec => RetryAfterHonoured
<1>1. Init => HintCovered
  BY DEF Init, RepositoryInit, WorkerInit, HintCovered, RowWaits, WorkerWaits
<1>2. IInv /\ IInv' /\ HintCovered /\ [Next]_vars => HintCovered'
  BY HintsStep
<1>3. IInv /\ HintCovered /\ [Next]_vars =>
        [\A r \in Requests : calls'[r] > calls[r] => hint_left[r] = 0]_vars
  BY CallAfterHint
<1> QED
  BY <1>1, <1>2, <1>3, InductiveInvariant, PTL DEF Spec, RetryAfterHonoured

-----------------------------------------------------------------------------
(* A reader next to the system.  What it reads in two transactions coheres *)
(* because a trail only grows: the event that accounted for the row when   *)
(* the row was read is still in the trail when the events are read.        *)
LEMMA TrailsGrow ==
  ASSUME RepositoryTypeOK, RowStep, NEW r \in Requests, NEW i \in DOMAIN events[r]
  PROVE  i \in DOMAIN events'[r] /\ events'[r][i] = events[r][i]
<1>1. events[r] \in Seq(AutomationEvent)
  BY DEF RepositoryTypeOK
<1>2. ASSUME NEW q \in Requests, NEW e, events' = [events EXCEPT ![q] = Append(@, e)]
      PROVE  i \in DOMAIN events'[r] /\ events'[r][i] = events[r][i]
  <2>1. CASE q # r
    BY <1>2, <2>1 DEF RepositoryTypeOK
  <2>2. CASE q = r
    <3>1. events'[r] = Append(events[r], e)
      BY <1>2, <2>2 DEF RepositoryTypeOK
    <3> QED
      BY <1>1, <3>1
  <2> QED
    BY <2>1, <2>2
<1> QED
  BY <1>2 DEF RowStep, ClaimRow, Complete, FailOrRetry, SetQueued, AppendEvent

(* An event of the trail says what was read of the row.                    *)
Accounted(trail, s, n) ==
  \E i \in DOMAIN trail :
    trail[i].status = s /\ (s # "completed" => trail[i].attempt = n)

Chained(trail) == \A i \in 1..(Len(trail) - 1) : Follows(trail[i], trail[i + 1])

RowRead(s, n) == [NoAnswer EXCEPT !.status = s, !.attempt_count = n]

(* Between the two transactions the event is in the trail; after the       *)
(* second one it is in the report.                                         *)
DetailsFollow ==
  subject \in Requests =>
    /\ todo \in {<<>>, GetDetails, <<"events">>}
    /\ todo = GetDetails => answer = NoAnswer
    /\ todo = <<"events">> =>
         /\ answer = RowRead(answer.status, answer.attempt_count)
         /\ Accounted(events[subject], answer.status, answer.attempt_count)
    /\ todo = <<>> /\ answer.status # "absent" =>
         /\ answer.events \in Seq(AutomationEvent)
         /\ Accounted(answer.events, answer.status, answer.attempt_count)
         /\ Chained(answer.events)

LEMMA StatementsInOrder ==
  /\ GetDetails # <<>> /\ GetDetails # <<"events">> /\ <<"events">> # <<>>
  /\ Head(GetDetails) = "row" /\ Tail(GetDetails) = <<"events">>
  /\ Head(<<"events">>) = "events" /\ Tail(<<"events">>) = <<>>
BY DEF GetDetails

LEMMA RowAccounted ==
  ASSUME RepositoryTypeOK, AuditTrail, NEW r \in Requests
  PROVE  /\ events[r] \in Seq(AutomationEvent) /\ Chained(events[r])
         /\ status[r] # "absent" => Accounted(events[r], status[r], attempt_count[r])
<1>1. Account(events[r], status[r], attempt_count[r]) /\ events[r] \in Seq(AutomationEvent)
  BY AuditTrailByRow DEF RepositoryTypeOK
<1>2. events[r] # <<>> => Len(events[r]) \in DOMAIN events[r]
  BY <1>1
<1> QED
  BY <1>1, <1>2 DEF Account, Accounted, Chained

LEMMA ReadFollows ==
  ASSUME RepositoryTypeOK, AuditTrail, DetailsFollow, Read, NoRequest \notin Requests
  PROVE  DetailsFollow'
<1> SUFFICES ASSUME subject' \in Requests
             PROVE  /\ todo' \in {<<>>, GetDetails, <<"events">>}
                    /\ todo' = GetDetails => answer' = NoAnswer
                    /\ todo' = <<"events">> =>
                         /\ answer' = RowRead(answer'.status, answer'.attempt_count)
                         /\ Accounted(events[subject'], answer'.status, answer'.attempt_count)
                    /\ todo' = <<>> /\ answer'.status # "absent" =>
                         /\ answer'.events \in Seq(AutomationEvent)
                         /\ Accounted(answer'.events, answer'.status, answer'.attempt_count)
                         /\ Chained(answer'.events)
  BY DEF DetailsFollow, Read, vars, repositoryVars
<1> USE StatementsInOrder
<1>1. CASE \E r \in Requests : Ask(r, GetDetails)
  BY <1>1 DEF Ask
<1>2. CASE Ask(NoRequest, Metrics)
  BY <1>2 DEF Ask
<1>3. CASE RunStatement
  <2>1. subject' = subject /\ todo # <<>> /\ answer' = Returned
    BY <1>3 DEF RunStatement
  <2>2. CASE todo = GetDetails
    <3>1. /\ answer' = [NoAnswer EXCEPT !.status = status[subject],
                                        !.attempt_count = attempt_count[subject]]
          /\ todo' = IF status[subject] = "absent" THEN <<>> ELSE <<"events">>
      BY <1>3, <2>1, <2>2 DEF DetailsFollow, Returned, RunStatement
    <3>2. answer'.status = status[subject] /\ answer'.attempt_count = attempt_count[subject]
      BY <3>1 DEF NoAnswer
    <3>3. answer' = RowRead(answer'.status, answer'.attempt_count)
      BY <3>1, <3>2 DEF RowRead
    <3> QED
      BY <2>1, <3>1, <3>2, <3>3, RowAccounted
  <2>3. CASE todo = <<"events">>
    <3>1. answer' = [answer EXCEPT !.events = events[subject]] /\ todo' = <<>>
      BY <1>3, <2>1, <2>3 DEF Returned, RunStatement
    <3>2. PICK s, n : answer = RowRead(s, n) /\ answer.status = s /\ answer.attempt_count = n
      BY <2>1, <2>3 DEF DetailsFollow
    <3>3. /\ answer'.events = events[subject]
          /\ answer'.status = answer.status /\ answer'.attempt_count = answer.attempt_count
      BY <3>1, <3>2 DEF RowRead, NoAnswer
    <3> QED
      BY <2>1, <2>3, <3>1, <3>3, RowAccounted DEF DetailsFollow
  <2> QED
    BY <2>1, <2>2, <2>3 DEF DetailsFollow
<1> QED
  BY <1>1, <1>2, <1>3 DEF Read

LEMMA OthersFollow ==
  ASSUME RepositoryTypeOK, RowStep, DetailsFollow, UNCHANGED readerVars
  PROVE  DetailsFollow'
<1>1. subject' = subject /\ todo' = todo /\ answer' = answer
  BY DEF readerVars
<1>2. ASSUME NEW s, NEW n, subject \in Requests, Accounted(events[subject], s, n)
      PROVE  Accounted(events'[subject], s, n)
  BY <1>2, TrailsGrow DEF Accounted
<1> QED
  BY <1>1, <1>2 DEF DetailsFollow

LEMMA DetailsFollowAlways == ReadsSpec => Spec /\ []DetailsFollow
<1>1. ReadsInit => Init /\ DetailsFollow
  BY WorkerAssumption DEF ReadsInit, DetailsFollow
<1>2. [ReadsNext]_<<vars, readerVars>> => [Next]_vars
  BY DEF ReadsNext, Read
<1>3. IInv /\ AuditTrail /\ DetailsFollow /\ [ReadsNext]_<<vars, readerVars>>
        => DetailsFollow'
  <2> SUFFICES ASSUME IInv, AuditTrail, DetailsFollow, [ReadsNext]_<<vars, readerVars>>
               PROVE  DetailsFollow'
    OBVIOUS
  <2>1. CASE Read
    BY <2>1, ReadFollows, WorkerAssumption DEF IInv, TypeOK
  <2>2. CASE [Next]_vars /\ UNCHANGED readerVars
    BY <2>2, EveryRowStep, OthersFollow DEF IInv, TypeOK
  <2> QED
    BY <2>1, <2>2 DEF ReadsNext
<1> QED
  BY <1>1, <1>2, <1>3, InductiveInvariant, AuditTrailIsComplete, PTL DEF ReadsSpec, Spec

(* get_details: whatever happens between its two transactions, a report    *)
(* lists the event behind the status and the attempt it shows, and a       *)
(* finished request only moves on by a replay.                             *)
THEOREM DetailsAreCoherent == ReadsSpec => []DetailsCohere
<1>1. ASSUME NEW trail \in Seq(AutomationEvent), Chained(trail), NEW i \in DOMAIN trail,
             trail[i].status \in {"completed", "dead_letter"}, i # Len(trail)
      PROVE  trail[i + 1].status = "queued"
  <2>1. i \in 1..(Len(trail) - 1)
    BY <1>1
  <2> QED
    BY <1>1, <2>1 DEF Chained, Follows
<1>2. DetailsFollow => DetailsCohere
  BY <1>1 DEF DetailsFollow, DetailsCohere, Answered, Accounted
<1> QED
  BY <1>2, DetailsFollowAlways, PTL

-----------------------------------------------------------------------------
(* What the gauges show: the total is counted before the statuses, and     *)
(* rows are only added.                                                    *)
Gauges(n, f) == [NoAnswer EXCEPT !.total_requests = n, !.by_status = f]

Summed(f) == Total(f, DOMAIN f)

TotalFollows ==
  subject = NoRequest =>
    /\ todo \in {<<>>, Metrics, <<"by_status", "oldest">>, <<"oldest">>}
    /\ todo = Metrics => answer = NoAnswer
    /\ todo = <<"by_status", "oldest">> =>
         \E n \in Nat : answer = Gauges(n, NoAnswer.by_status) /\ n <= Cardinality(Stored)
    /\ todo = <<"oldest">> =>
         \E n, f : answer = Gauges(n, f) /\ n <= Summed(f)
    /\ todo = <<>> => answer.total_requests <= Summed(answer.by_status)

LEMMA StatusesAreFinite == IsFiniteSet(AutomationStatus)
<1>1. AutomationStatus =
        {"queued"} \cup {"running"} \cup {"retrying"} \cup {"completed"} \cup {"dead_letter"}
  BY DEF AutomationStatus
<1> QED
  BY <1>1, FS_Singleton, FS_Union

(* Every row has one of the five statuses.                                 *)
LEMMA StatusesAddUp ==
  ASSUME RepositoryTypeOK
  PROVE  Cardinality(Stored) =
           Summed([s \in AutomationStatus |-> Cardinality(WithStatus(s))])
<1>1. PICK f : f = [s \in AutomationStatus |-> Cardinality(WithStatus(s))]
  OBVIOUS
<1>2. PICK D, S, g : D = Requests /\ S = AutomationStatus /\ g = status
  OBVIOUS
<1>3. IsFiniteSet(D) /\ IsFiniteSet(S)
  BY <1>2, StatusesAreFinite, RepositoryAssumption
<1>4. \A s \in S : f[s] = Cardinality(Group(D, g, {s}))
  <2> SUFFICES ASSUME NEW s \in S PROVE f[s] = Cardinality(Group(D, g, {s}))
    OBVIOUS
  <2>1. Group(D, g, {s}) = WithStatus(s)
    BY <1>2 DEF Group, WithStatus
  <2> QED
    BY <1>1, <1>2, <2>1
<1>5. Total(f, S) = Cardinality(Group(D, g, S))
  BY <1>3, <1>4, CountsAdd
<1>6. Group(D, g, S) = Stored
  BY <1>2 DEF Group, Stored, Persisted, RepositoryTypeOK, AutomationStatus
<1> QED
  BY <1>1, <1>2, <1>5, <1>6 DEF Summed

LEMMA StoredGrows ==
  ASSUME RepositoryTypeOK, RowStep
  PROVE  Cardinality(Stored) \in Nat /\ Cardinality(Stored) <= Cardinality(Stored')
<1>1. PICK C, D : C = Stored /\ D = Stored'
  OBVIOUS
<1>2. C \subseteq D
  BY <1>1, RowsStay DEF Stored
<1>3. IsFiniteSet(C) /\ IsFiniteSet(D)
  BY <1>1, FS_Subset, RepositoryAssumption DEF Stored
<1>4. Cardinality(C) <= Cardinality(D) /\ Cardinality(C) \in Nat
  BY <1>2, <1>3, FS_Subset, FS_CardinalityType
<1> QED
  BY <1>1, <1>4

LEMMA GaugesInOrder ==
  /\ Metrics # <<>> /\ Metrics # <<"by_status", "oldest">> /\ Metrics # <<"oldest">>
  /\ <<"by_status", "oldest">> # <<>> /\ <<"by_status", "oldest">> # <<"oldest">>
  /\ <<"oldest">> # <<>>
  /\ Head(Metrics) = "total_requests" /\ Tail(Metrics) = <<"by_status", "oldest">>
  /\ Head(<<"by_status", "oldest">>) = "by_status"
  /\ Tail(<<"by_status", "oldest">>) = <<"oldest">>
  /\ Head(<<"oldest">>) = "oldest" /\ Tail(<<"oldest">>) = <<>>
BY DEF Metrics

LEMMA NoAnswerCoheres ==
  NoAnswer.total_requests <= Summed(NoAnswer.by_status)
<1>1. PICK f : f = [s \in AutomationStatus |-> 0]
  OBVIOUS
<1>2. \A s \in AutomationStatus : f[s] = 0
  BY <1>1
<1>3. Total(f, AutomationStatus) = 0
  BY <1>2, StatusesAreFinite, TotalZero
<1> QED
  BY <1>1, <1>3 DEF NoAnswer, Summed

LEMMA ReadSumsUp ==
  ASSUME RepositoryTypeOK, TotalFollows, Read, NoRequest \notin Requests
  PROVE  TotalFollows'
<1> SUFFICES ASSUME subject' = NoRequest PROVE TotalFollows'
  BY DEF TotalFollows
<1>1. UNCHANGED status /\ Stored' = Stored
  BY DEF Read, vars, repositoryVars, Stored, Persisted
<1>2. CASE Ask(NoRequest, Metrics)
  BY <1>2, GaugesInOrder DEF Ask, TotalFollows
<1>3. CASE RunStatement
  <2>1. /\ subject = NoRequest /\ todo # <<>> /\ answer' = Returned
        /\ Head(todo) # "row" => todo' = Tail(todo)
    BY <1>3 DEF RunStatement
  <2>2. CASE todo = Metrics
    <3>1. PICK n : n = Cardinality(Stored)
      OBVIOUS
    <3>2. todo' = <<"by_status", "oldest">> /\ answer' = [NoAnswer EXCEPT !.total_requests = n]
      BY <2>1, <2>2, <3>1, GaugesInOrder DEF TotalFollows, Returned
    <3>3. answer' = Gauges(n, NoAnswer.by_status)
      BY <3>2 DEF Gauges, NoAnswer
    <3>4. n \in Nat /\ n <= Cardinality(Stored')
      <4>1. IsFiniteSet(Stored)
        BY FS_Subset, RepositoryAssumption DEF Stored
      <4> QED
        BY <1>1, <3>1, <4>1, FS_CardinalityType
    <3> QED
      BY <3>2, <3>3, <3>4, GaugesInOrder DEF TotalFollows
  <2>3. CASE todo = <<"by_status", "oldest">>
    <3>1. PICK n \in Nat : answer = Gauges(n, NoAnswer.by_status) /\ n <= Cardinality(Stored)
      BY <2>1, <2>3 DEF TotalFollows
    <3>2. PICK f : f = [s \in AutomationStatus |-> Cardinality(WithStatus(s))]
      OBVIOUS
    <3>3. todo' = <<"oldest">> /\ answer' = [answer EXCEPT !.by_status = f]
      BY <2>1, <2>3, <3>2, GaugesInOrder DEF Returned
    <3>4. answer' = Gauges(n, f)
      BY <3>1, <3>3 DEF Gauges, NoAnswer
    <3>5. n <= Summed(f)
      BY <3>1, <3>2, StatusesAddUp
    <3> QED
      BY <3>3, <3>4, <3>5, GaugesInOrder DEF TotalFollows
  <2>4. CASE todo = <<"oldest">>
    <3>1. PICK n, f : answer = Gauges(n, f) /\ n <= Summed(f)
      BY <2>1, <2>4 DEF TotalFollows
    <3>2. todo' = <<>> /\ answer' = [answer EXCEPT !.oldest = OldestWaiting]
      BY <2>1, <2>4, GaugesInOrder DEF Returned
    <3>3. answer'.total_requests = n /\ answer'.by_status = f
      BY <3>1, <3>2 DEF Gauges, NoAnswer
    <3> QED
      BY <3>1, <3>2, <3>3, GaugesInOrder DEF TotalFollows
  <2> QED
    BY <2>1, <2>2, <2>3, <2>4 DEF TotalFollows
<1>4. ASSUME NEW r \in Requests, Ask(r, GetDetails) PROVE FALSE
  BY <1>4 DEF Ask
<1> QED
  BY <1>2, <1>3, <1>4 DEF Read

LEMMA OthersAdd ==
  ASSUME RepositoryTypeOK, RowStep, TotalFollows, UNCHANGED readerVars
  PROVE  TotalFollows'
<1>1. subject' = subject /\ todo' = todo /\ answer' = answer
  BY DEF readerVars
<1>2. PICK c, d : c = Cardinality(Stored) /\ d = Cardinality(Stored')
  OBVIOUS
<1>3. c <= d /\ c \in Nat /\ d \in Nat
  <2>1. IsFiniteSet(Stored')
    BY FS_Subset, RepositoryAssumption DEF Stored
  <2> QED
    BY <1>2, <2>1, StoredGrows, FS_CardinalityType
<1>4. \A n \in Nat : n <= c => n <= d
  BY <1>3
<1> QED
  BY <1>1, <1>2, <1>4 DEF TotalFollows

LEMMA TotalFollowsAlways == ReadsSpec => []TotalFollows
<1>1. ReadsInit => Init /\ TotalFollows
  BY GaugesInOrder, NoAnswerCoheres DEF ReadsInit, TotalFollows
<1>2. [ReadsNext]_<<vars, readerVars>> => [Next]_vars
  BY DEF ReadsNext, Read
<1>3. IInv /\ TotalFollows /\ [ReadsNext]_<<vars, readerVars>> => TotalFollows'
  <2> SUFFICES ASSUME IInv, TotalFollows, [ReadsNext]_<<vars, readerVars>>
               PROVE  TotalFollows'
    OBVIOUS
  <2>1. CASE Read
    BY <2>1, ReadSumsUp, WorkerAssumption DEF IInv, TypeOK
  <2>2. CASE [Next]_vars /\ UNCHANGED readerVars
    BY <2>2, EveryRowStep, OthersAdd DEF IInv, TypeOK
  <2> QED
    BY <2>1, <2>2 DEF ReadsNext
<1> QED
  BY <1>1, <1>2, <1>3, InductiveInvariant, PTL DEF ReadsSpec, Spec

(* metrics: whatever is submitted, settled or replayed between its three   *)
(* statements, the statuses it reports account for the total it reports.   *)
THEOREM MetricsAreCoherent == ReadsSpec => []MetricsCohere
<1>1. TotalFollows => (todo = <<>> /\ subject = NoRequest =>
                         answer.total_requests <= Summed(answer.by_status))
  BY DEF TotalFollows
<1>2. FoldFunction(+, 0, answer.by_status) = Summed(answer.by_status)
  BY FoldIsTotal DEF Summed
<1>3. TotalFollows => MetricsCohere
  BY <1>1, <1>2 DEF MetricsCohere, Answered
<1> QED
  BY <1>3, TotalFollowsAlways, PTL

=============================================================================

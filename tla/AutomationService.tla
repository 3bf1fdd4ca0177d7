-------------------------- MODULE AutomationService --------------------------
(***************************************************************************)
(* app/service.py: submit() and replay_dead_letter(), run by API threads.  *)
(* Both commit to the database first and publish afterwards, so a call may *)
(* end between the two.                                                    *)
(***************************************************************************)
EXTENDS AutomationRepository, DispatchQueue

CONSTANTS
  Callers,      \* API threads
  NoId,         \* no call in hand
  MaxReplays    \* bound on the replays operators ask for

ASSUME ServiceAssumption == MaxReplays \in Nat /\ NoId \notin Requests

VARIABLES api_pc, api_id, replays

serviceVars == <<api_pc, api_id, replays>>

ServiceTypeOK ==
  /\ api_pc \in [Callers -> {"idle", "create", "publish"}]
  /\ api_id \in [Callers -> Requests \cup {NoId}]
  /\ replays \in 0..MaxReplays

ServiceInit ==
  /\ api_pc = [a \in Callers |-> "idle"]
  /\ api_id = [a \in Callers |-> NoId]
  /\ replays = 0

-----------------------------------------------------------------------------
Proceed(a, label, id) ==
  /\ api_pc' = [api_pc EXCEPT ![a] = label]
  /\ api_id' = [api_id EXCEPT ![a] = id]

(* Publishing is the step left to a brokered call; the get() that builds   *)
(* the answer changes nothing.                                             *)
AfterCommit(a, id) ==
  IF Brokered THEN Proceed(a, "publish", id) ELSE Proceed(a, "idle", NoId)

(* uuid4 draws an id nobody has drawn before.                              *)
Submit(a, r) ==
  /\ api_pc[a] = "idle"
  /\ created_at[r] = 0
  /\ DrawCreatedAt(r)
  /\ Proceed(a, "create", r)
  /\ UNCHANGED <<status, attempt_count, next_attempt_in, events,
                 dispatchVars, replays>>

CreateRow(a) ==
  /\ api_pc[a] = "create"
  /\ \E id \in Requests : Create(api_id[a], id) /\ AfterCommit(a, id)
  /\ UNCHANGED <<dispatchVars, replays>>

Replay(a, r) ==
  /\ api_pc[a] = "idle"
  /\ replays < MaxReplays
  /\ ReplayDeadLetter(r)
  /\ AfterCommit(a, r)
  /\ replays' = replays + 1
  /\ UNCHANGED dispatchVars

PublishId(a) ==
  /\ api_pc[a] = "publish"
  /\ Publish(api_id[a])
  /\ Proceed(a, "idle", NoId)
  /\ UNCHANGED <<repositoryVars, replays>>

(* The call ends in an error, or its process dies, wherever it stands.     *)
CallFails(a) ==
  /\ api_pc[a] # "idle"
  /\ Proceed(a, "idle", NoId)
  /\ UNCHANGED <<repositoryVars, dispatchVars, replays>>

ServiceCall(a) ==
  \/ \E r \in Requests : Submit(a, r) \/ Replay(a, r)
  \/ CreateRow(a) \/ PublishId(a) \/ CallFails(a)

=============================================================================

------------------------------ MODULE Lifecycle ------------------------------
(***************************************************************************)
(* What the orchestrator promises about each request, without rows,        *)
(* messages or clocks: the reliability model of README.md and              *)
(* docs/decisions/002-async-resilience.md, with the worker that owns each  *)
(* running request.                                                        *)
(***************************************************************************)
EXTENDS Naturals

CONSTANTS Requests, Workers, MaxAttempts

VARIABLES status, attempt_count, owners

vars == <<status, attempt_count, owners>>

Init ==
  /\ status = [r \in Requests |-> "absent"]
  /\ attempt_count = [r \in Requests |-> 0]
  /\ owners = [r \in Requests |-> {}]

(* A request moves from one of the statuses in from to the status to.      *)
Move(r, from, to) ==
  /\ status[r] \in from
  /\ status' = [status EXCEPT ![r] = to]

Accept(r) ==
  /\ Move(r, {"absent"}, "queued")
  /\ UNCHANGED <<attempt_count, owners>>

(* Execution starts within the attempt budget, and only when nobody else   *)
(* is executing the request.                                               *)
Start(r, w) ==
  /\ Move(r, {"queued", "retrying"}, "running")
  /\ attempt_count[r] < MaxAttempts[r]
  /\ attempt_count' = [attempt_count EXCEPT ![r] = @ + 1]
  /\ owners[r] = {}
  /\ owners' = [owners EXCEPT ![r] = {w}]

(* The owner, and nobody else, records how its attempt ended.              *)
Release(r, w) ==
  /\ owners[r] = {w}
  /\ owners' = [owners EXCEPT ![r] = {}]
  /\ UNCHANGED attempt_count

Finish(r, w) == Move(r, {"running"}, "completed") /\ Release(r, w)

Reschedule(r, w) ==
  /\ Move(r, {"running"}, "retrying")
  /\ attempt_count[r] < MaxAttempts[r]
  /\ Release(r, w)

Bury(r, w) ==
  /\ Move(r, {"running"}, "dead_letter")
  /\ attempt_count[r] = MaxAttempts[r]
  /\ Release(r, w)

Abandon(r, w) == Release(r, w) /\ UNCHANGED status

Replay(r) ==
  /\ Move(r, {"dead_letter"}, "queued")
  /\ attempt_count' = [attempt_count EXCEPT ![r] = 0]
  /\ UNCHANGED owners

Next ==
  \E r \in Requests :
    \/ Accept(r) \/ Replay(r)
    \/ \E w \in Workers :
         \/ Start(r, w) \/ Finish(r, w) \/ Reschedule(r, w)
         \/ Bury(r, w) \/ Abandon(r, w)

Spec == Init /\ [][Next]_vars

=============================================================================

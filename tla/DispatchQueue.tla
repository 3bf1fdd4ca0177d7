---------------------------- MODULE DispatchQueue ----------------------------
(***************************************************************************)
(* app/dispatch.py.  DISPATCH_BACKEND selects a Redis list of request ids  *)
(* (Brokered) or no broker at all, in which case publish does nothing.     *)
(* The list is external: it may lose what was pushed and hand out again    *)
(* what was popped, as a restart from an older append-only file does.      *)
(***************************************************************************)
EXTENDS Naturals, Sequences

CONSTANTS Brokered, MaxBrokerFaults

ASSUME DispatchAssumption ==
  /\ Brokered \in BOOLEAN
  /\ MaxBrokerFaults \in Nat

VARIABLES
  queue,          \* the Redis list, head popped first
  broker_faults   \* how often the list was disturbed (bounded)

dispatchVars == <<queue, broker_faults>>

DispatchInit == queue = <<>> /\ broker_faults = 0

Publish(id) == queue' = Append(queue, id) /\ UNCHANGED broker_faults

Consume(id) ==
  /\ queue # <<>>
  /\ id = Head(queue)
  /\ queue' = Tail(queue)
  /\ UNCHANGED broker_faults

BrokerFault ==
  /\ Brokered
  /\ broker_faults < MaxBrokerFaults
  /\ broker_faults' = broker_faults + 1

BrokerLoses == BrokerFault /\ queue # <<>> /\ queue' = <<>>

BrokerRedelivers(id) == BrokerFault /\ queue' = <<id>> \o queue

=============================================================================

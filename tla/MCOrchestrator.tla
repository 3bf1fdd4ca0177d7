--------------------------- MODULE MCOrchestrator ---------------------------
(***************************************************************************)
(* Small instances of Orchestrator for TLC.  r1 and r2 are submissions     *)
(* with the same idempotency key, r3 has none.                             *)
(***************************************************************************)
EXTENDS Orchestrator, TLC

CONSTANTS r1, r2, r3, k1

MCKey == [r \in Requests |-> IF r = r3 THEN NoKey ELSE k1]

(* One or two attempts for the keyed request; two for the other one.       *)
OneAttempt == [r \in Requests |-> 1]
TwoAttempts == [r \in Requests |-> 2]
MixedAttempts == [r \in Requests |-> IF r = r3 THEN 2 ELSE 1]

(* Every request goes to the same target.                                  *)
MCTarget == [r \in Requests |-> CHOOSE t \in Targets : TRUE]

(* Workers are interchangeable, and so are the API threads.                *)
Symmetry == Permutations(Workers) \cup Permutations(Callers)

=============================================================================

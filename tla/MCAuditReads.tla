---------------------------- MODULE MCAuditReads ----------------------------
(* One worker and one operator's thread next to one reader.                *)
EXTENDS AuditReads, TLC

CONSTANTS r1, r2

MCKey == [r \in Requests |-> NoKey]

MCAttempts == [r \in Requests |-> IF r = r1 THEN 2 ELSE 1]

MCTarget == [r \in Requests |-> CHOOSE t \in Targets : TRUE]

=============================================================================

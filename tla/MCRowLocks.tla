----------------------------- MODULE MCRowLocks -----------------------------
(* Small instances of RowLocks for TLC.                                    *)
EXTENDS RowLocks, TLC

TwoThenOne == [r \in Requests |-> IF r = 1 THEN 2 ELSE 1]

=============================================================================

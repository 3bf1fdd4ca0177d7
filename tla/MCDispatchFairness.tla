------------------------ MODULE MCDispatchFairness ------------------------
(* Three slots: one that waits and two that keep the workers busy. *)
EXTENDS DispatchFairness, TLC

OneWorker == {1}
TwoWorkers == {1, 2}
=============================================================================

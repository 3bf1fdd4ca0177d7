---------------------------- MODULE MCSubmission ----------------------------
(* Four calls, three of them with one idempotency key.                     *)
EXTENDS Submission, TLC

CONSTANTS c1, c2, c3, c4, k1

ThreeSharedOneBare == c1 :> k1 @@ c2 :> k1 @@ c3 :> k1 @@ c4 :> NoKey

=============================================================================

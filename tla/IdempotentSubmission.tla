------------------------ MODULE IdempotentSubmission ------------------------
(***************************************************************************)
(* What POST /automation-requests promises about idempotency keys          *)
(* (README.md, "idempotency keys to prevent duplicate submissions"): one   *)
(* stored request per key, and every answer to a call with that key names  *)
(* it.  How calls look it up, insert and collide is left to Submission.    *)
(***************************************************************************)

CONSTANTS
  Calls,   \* each draws a request id of its own, named as the call
  Keys,
  KeyOf,   \* the idempotency key a call carries, if any
  NoAnswer

VARIABLES
  stored,  \* the ids of the stored requests
  answer   \* the id each call has been answered with

vars == <<stored, answer>>

Init == stored = {} /\ answer = [c \in Calls |-> NoAnswer]

(* Two calls are about one request.                                        *)
SameRequest(c, d) == c = d \/ (KeyOf[c] \in Keys /\ KeyOf[c] = KeyOf[d])

Store(c) ==
  /\ \A d \in stored : ~SameRequest(c, d)
  /\ stored' = stored \cup {c}
  /\ UNCHANGED answer

Answer(c) ==
  /\ answer[c] = NoAnswer
  /\ \E d \in stored : SameRequest(c, d) /\ answer' = [answer EXCEPT ![c] = d]
  /\ UNCHANGED stored

Next == \E c \in Calls : Store(c) \/ Answer(c)

Spec == Init /\ [][Next]_vars

=============================================================================

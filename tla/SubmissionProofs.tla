-------------------------- MODULE SubmissionProofs --------------------------
(***************************************************************************)
(* Submission implements IdempotentSubmission for any number of calls and  *)
(* keys, and never raises the two errors its code guards against.          *)
(***************************************************************************)
EXTENDS Submission, TLAPS

(* A row is open while, and only while, its call is about to commit, and a *)
(* call that has still to insert has no row.                               *)
RowsFollowCalls ==
  \A c \in Calls :
    /\ row[c] = "inserted" <=> pc[c] = "commit"
    /\ pc[c] \in {"look_up", "insert", "look_again"} => row[c] = "absent"

(* Of the rows that the unique index considers equal one is in the table,  *)
(* committed or not.                                                       *)
OneRowPerKey ==
  \A c, d \in Calls :
    row[c] # "absent" /\ row[d] # "absent" /\ SameUnique(c, d) => c = d

(* An id a call goes on with is that of its own request, and committed.    *)
FoundIsCommitted ==
  \A c \in Calls : pc[c] \in WithId =>
    request_id[c] \in Committed /\ SameUnique(c, request_id[c])

(* A conflict is with a row that stays.                                    *)
ConflictIsCommitted ==
  \A c \in Calls : pc[c] = "look_again" => \E d \in Committed : SameUnique(c, d)

PublishedOnceFound ==
  \A c \in Calls : pc[c] \in {"get", "answered"} => request_id[c] \in published

IInv ==
  /\ TypeOK /\ RowsFollowCalls /\ OneRowPerKey /\ FoundIsCommitted
  /\ ConflictIsCommitted /\ PublishedOnceFound /\ NoSpuriousError

USE SubmissionAssumption DEF SubmissionAssumption, Steps, WithId, Ends

-----------------------------------------------------------------------------
(* The index relates calls as an equivalence.                              *)
LEMMA SameUniqueIsEquivalence ==
  /\ \A c \in Calls : SameUnique(c, c)
  /\ \A c, d \in Calls : SameUnique(c, d) => SameUnique(d, c)
  /\ \A c, d, e \in Calls : SameUnique(c, d) /\ SameUnique(d, e) => SameUnique(c, e)
BY DEF SameUnique

(* No call has done anything yet.                                          *)
LEMMA InitEstablishesIInv == Init => IInv
BY DEF Init, IInv, TypeOK, RowsFollowCalls, OneRowPerKey, FoundIsCommitted,
       ConflictIsCommitted, PublishedOnceFound, NoSpuriousError

(* Steps that touch no row: look-ups, conflicts, publish and get.          *)
LEMMA ReadersKeepIInv ==
  ASSUME IInv, NEW c \in Calls,
         \/ LookUp(c) \/ Conflict(c) \/ LookAgain(c) \/ Publish(c) \/ Get(c)
  PROVE  IInv'
<1>0. USE SameUniqueIsEquivalence DEF IInv, TypeOK, GoTo, Found, Committed
<1>1. CASE LookUp(c)
  BY <1>1 DEF LookUp, RowsFollowCalls, OneRowPerKey, FoundIsCommitted,
     ConflictIsCommitted, PublishedOnceFound, NoSpuriousError
<1>2. CASE Conflict(c)
  <2>1. KeyOf[c] # NoKey
    BY <1>2 DEF Conflict, RowsFollowCalls, SameUnique
  <2> QED
    BY <1>2, <2>1 DEF Conflict, RowsFollowCalls, OneRowPerKey, 
       FoundIsCommitted, ConflictIsCommitted, PublishedOnceFound, NoSpuriousError
<1>3. CASE LookAgain(c)
  BY <1>3 DEF LookAgain, RowsFollowCalls, OneRowPerKey, FoundIsCommitted,
     ConflictIsCommitted, PublishedOnceFound, NoSpuriousError
<1>4. CASE Publish(c)
  BY <1>4 DEF Publish, RowsFollowCalls, OneRowPerKey, FoundIsCommitted,
     ConflictIsCommitted, PublishedOnceFound, NoSpuriousError
<1>5. CASE Get(c)
  BY <1>5 DEF Get, RowsFollowCalls, OneRowPerKey, FoundIsCommitted,
     ConflictIsCommitted, PublishedOnceFound, NoSpuriousError
<1> QED BY <1>1, <1>2, <1>3, <1>4, <1>5

(* Steps that write a row.                                                 *)
LEMMA WritersKeepIInv ==
  ASSUME IInv, NEW c \in Calls, Insert(c) \/ Commit(c) \/ Fault(c)
  PROVE  IInv'
<1>0. USE SameUniqueIsEquivalence DEF IInv, TypeOK, GoTo, Found, Committed
<1>1. CASE Insert(c)
  BY <1>1 DEF Insert, Blocking, RowsFollowCalls, OneRowPerKey, FoundIsCommitted,
     ConflictIsCommitted, PublishedOnceFound, NoSpuriousError
<1>2. CASE Commit(c)
  BY <1>2 DEF Commit, RowsFollowCalls, OneRowPerKey, FoundIsCommitted,
     ConflictIsCommitted, PublishedOnceFound, NoSpuriousError
<1>3. CASE Fault(c)
  BY <1>3 DEF Fault, RowsFollowCalls, OneRowPerKey, FoundIsCommitted,
     ConflictIsCommitted, PublishedOnceFound, NoSpuriousError
<1> QED BY <1>1, <1>2, <1>3

LEMMA NextKeepsIInv == IInv /\ [Next]_vars => IInv'
<1> SUFFICES ASSUME IInv, [Next]_vars PROVE IInv'
  OBVIOUS
<1>1. CASE UNCHANGED vars
  BY <1>1 DEF vars, IInv, TypeOK, RowsFollowCalls, OneRowPerKey, FoundIsCommitted,
     ConflictIsCommitted, PublishedOnceFound, NoSpuriousError, Committed
<1>2. ASSUME NEW c \in Calls, Call(c) \/ Fault(c) PROVE IInv'
  BY <1>2, ReadersKeepIInv, WritersKeepIInv DEF Call
<1> QED BY <1>1, <1>2 DEF Next

(* The inductive invariant holds throughout.                               *)
LEMMA Invariance == Spec => []IInv
BY InitEstablishesIInv, NextKeepsIInv, PTL DEF Spec

(* The raises of create() and submit() for a row that is missing although  *)
(* it was inserted or found are never reached.                             *)
THEOREM NothingIsRaised == Spec => []NoSpuriousError
BY Invariance, PTL DEF IInv

(* Who is answered 202 is told an id that some call has published.         *)
THEOREM PublishedBeforeAnswered == Spec => []AnsweredIsPublished
<1>1. IInv => AnsweredIsPublished
  BY DEF IInv, PublishedOnceFound, AnsweredIsPublished
<1> QED BY <1>1, Invariance, PTL

-----------------------------------------------------------------------------
(* The answers the abstract specification sees.                            *)
Answers == [c \in Calls |-> IF pc[c] = "answered" THEN request_id[c] ELSE NoId]

(* A row that becomes visible is one the promise lets in.                  *)
LEMMA CommittingStores ==
  ASSUME IInv, NEW c \in Calls, pc[c] = "commit",
         row' = [row EXCEPT ![c] = "committed"], Answers' = Answers
  PROVE  Promise!Store(c)
<1>1. row[c] = "inserted"
  BY DEF IInv, RowsFollowCalls
<1>2. \A d \in Committed : ~SameUnique(c, d)
  BY <1>1 DEF IInv, OneRowPerKey, Committed
<1>3. Committed' = Committed \cup {c}
  BY DEF IInv, TypeOK, Committed
<1> QED
  BY <1>2, <1>3 DEF Promise!Store, Promise!SameRequest, SameUnique, Answers

(* Other moves of a call that is not answering change no answer.           *)
LEMMA AnswersKept ==
  ASSUME TypeOK, NEW c \in Calls, pc[c] # "answered",
         NEW label, label # "answered", GoTo(c, label),
         \A d \in Calls \ {c} : request_id'[d] = request_id[d]
  PROVE  Answers' = Answers
BY DEF TypeOK, GoTo, Answers

LEMMA StepImplements ==
  ASSUME IInv, [Next]_vars
  PROVE  [Promise!Next]_(Promise!vars)
<1>0. USE DEF Answers
<1>1. CASE UNCHANGED vars
  BY <1>1 DEF vars, Promise!vars, Committed
<1>2. ASSUME NEW c \in Calls, Committed' = Committed, Answers' = Answers
      PROVE  UNCHANGED Promise!vars
  BY <1>2 DEF Promise!vars
<1>3. ASSUME NEW c \in Calls, LookUp(c) \/ Conflict(c) \/ LookAgain(c) \/ Publish(c)
      PROVE  UNCHANGED Promise!vars
  <2>1. /\ pc[c] # "answered" /\ Committed' = Committed
        /\ \A d \in Calls \ {c} : request_id'[d] = request_id[d]
    BY <1>3 DEF IInv, TypeOK, LookUp, Conflict, LookAgain, Publish, Found, Committed
  <2>2. \E label \in Steps \cup {"conflict_raised"} : GoTo(c, label)
    BY <1>3 DEF LookUp, Conflict, LookAgain, Publish
  <2> QED BY <1>2, <2>1, <2>2, AnswersKept DEF IInv
<1>4. ASSUME NEW c \in Calls, Insert(c)
      PROVE  UNCHANGED Promise!vars
  <2>1. Committed' = Committed
    BY <1>4 DEF IInv, TypeOK, RowsFollowCalls, Insert, Committed
  <2>2. Answers' = Answers
    BY <1>4, AnswersKept DEF IInv, Insert
  <2> QED BY <1>2, <2>1, <2>2
<1>5. ASSUME NEW c \in Calls, Commit(c)
      PROVE  Promise!Next
  <2>1. pc[c] = "commit" /\ Answers' = Answers
    BY <1>5, AnswersKept DEF IInv, TypeOK, Commit, Found
  <2> QED BY <1>5, <2>1, CommittingStores DEF Commit, Promise!Next
<1>6. ASSUME NEW c \in Calls, Get(c)
      PROVE  Promise!Next
  <2>1. request_id[c] \in Committed /\ SameUnique(c, request_id[c])
    BY <1>6 DEF IInv, FoundIsCommitted, Get
  <2>2. GoTo(c, "answered") /\ Committed' = Committed
    BY <1>6, <2>1 DEF Get, Committed
  <2>3. Answers[c] = NoId /\ Answers' = [Answers EXCEPT ![c] = request_id[c]]
    BY <1>6, <2>2, ZenonT(60) DEF IInv, TypeOK, Get, GoTo
  <2> QED
    BY <2>1, <2>2, <2>3 DEF Promise!Next, Promise!Answer, Promise!SameRequest, SameUnique
<1>7. ASSUME NEW c \in Calls, Fault(c)
      PROVE  [Promise!Next]_(Promise!vars)
  <2>1. Answers' = Answers
    BY <1>7, AnswersKept DEF IInv, Fault
  <2>2. CASE row' = [row EXCEPT ![c] = "committed"] /\ row[c] = "inserted"
    BY <1>7, <2>1, <2>2, CommittingStores
       DEF IInv, RowsFollowCalls, Promise!Next
  <2>3. CASE row' = row \/ (row[c] = "inserted" /\ row' = [row EXCEPT ![c] = "absent"])
    <3>1. Committed' = Committed
      BY <2>3 DEF IInv, TypeOK, Committed
    <3> QED BY <1>2, <2>1, <3>1
  <2> QED BY <1>7, <2>2, <2>3 DEF Fault
<1> QED
  BY <1>1, <1>3, <1>4, <1>5, <1>6, <1>7 DEF Next, Call

(* Concurrent and repeated submissions behave like atomic ones.            *)
THEOREM ImplementsSubmission == Spec => SubmissionPromise
<1>1. Init => Promise!Init
  BY DEF Init, Promise!Init, Committed
<1>2. IInv /\ [Next]_vars => [Promise!Next]_(Promise!vars)
  BY StepImplements
<1> QED BY <1>1, <1>2, Invariance, PTL DEF Spec, SubmissionPromise, Promise!Spec

=============================================================================

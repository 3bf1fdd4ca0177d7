-------------------------- MODULE TimestampProofs --------------------------
(***************************************************************************)
(* Timers: for any clock resolution, requests, workers and delays, stored  *)
(* times compare as instants, Retry-After is kept and a cooldown costs a   *)
(* request two deferrals at most.  AuditClock: the audit trail is in the   *)
(* order of its timestamps for any number of processes, any skew of their  *)
(* clocks and any delays.                                                  *)
(***************************************************************************)
EXTENDS MCTimestamps, Integers, TLAPS

-----------------------------------------------------------------------------
(* Timers.  Arithmetic first.                                              *)

LEMMA Resolution == Second \in Nat /\ Second >= 2
BY TimedAssumption DEF Timed!TimersAssumption

LEMMA Division ==
  ASSUME NEW x \in Nat, NEW s \in Nat, s >= 1
  PROVE  /\ x \div s \in Nat /\ x % s \in Nat /\ x % s < s
         /\ x = s * (x \div s) + (x % s)
OBVIOUS

LEMMA Product ==
  ASSUME NEW n \in Nat, NEW s \in Nat
  PROVE  n * s \in Nat /\ (n >= 1 => n * s >= s)
OBVIOUS

(* A remainder cut to whole seconds falls short by less than a second.     *)
LEMMA CutRemainder ==
  ASSUME NEW later \in Nat, NEW earlier \in Nat
  PROVE  /\ Timed!WholeSeconds(later, earlier) \in Nat
         /\ earlier + Timed!WholeSeconds(later, earlier) * Second + Second > later
<1>1. CASE later <= earlier
  BY <1>1, Resolution DEF Timed!WholeSeconds
<1>2. CASE ~(later <= earlier)
  <2>1. PICK x \in Nat : x = later - earlier
    BY <1>2
  <2>2. PICK q : q = x \div Second
    OBVIOUS
  <2>3. q \in Nat /\ x = Second * q + (x % Second) /\ x % Second < Second /\ x % Second \in Nat
    BY <2>2, Division, Resolution
  <2>4. Second * q = q * Second /\ q * Second \in Nat
    BY <2>3, Resolution
  <2>5. Timed!WholeSeconds(later, earlier) = q
    BY <1>2, <2>1, <2>2 DEF Timed!WholeSeconds
  <2> QED
    BY <2>1, <2>3, <2>4, <2>5, Resolution
<1> QED
  BY <1>1, <1>2

(* isoformat(): of two instants the earlier has the smaller number of      *)
(* seconds, or the same and the smaller fraction.                          *)
LEMMA Lexicographic ==
  ASSUME NEW a \in Nat, NEW b \in Nat, NEW s \in Nat, s >= 1
  PROVE  a <= b <=> \/ a \div s < b \div s
                    \/ a \div s = b \div s /\ a % s <= b % s
<1>1. PICK p, q, m, n : p = a \div s /\ q = b \div s /\ m = a % s /\ n = b % s
  OBVIOUS
<1>2. /\ p \in Nat /\ q \in Nat /\ m \in Nat /\ n \in Nat /\ m < s /\ n < s
      /\ a = s * p + m /\ b = s * q + n
  BY <1>1, Division
<1>3. CASE p = q
  BY <1>1, <1>2, <1>3
<1>4. CASE p < q
  <2>1. PICK k \in Nat : q = p + 1 + k
    BY <1>2, <1>4
  <2>2. s * q = s * p + s + s * k /\ s * k \in Nat /\ s * p \in Nat
    BY <1>2, <2>1
  <2> QED
    BY <1>1, <1>2, <1>4, <2>2
<1>5. CASE q < p
  <2>1. PICK k \in Nat : p = q + 1 + k
    BY <1>2, <1>5
  <2>2. s * p = s * q + s + s * k /\ s * k \in Nat /\ s * q \in Nat
    BY <1>2, <2>1
  <2> QED
    BY <1>1, <1>2, <1>5, <2>2
<1> QED
  BY <1>2, <1>3, <1>4, <1>5

LEMMA TextsOrderAsInstants ==
  ASSUME NEW a \in Nat, NEW b \in Nat
  PROVE  Timed!TextNotAfter(Timed!Isoformat(a), Timed!Isoformat(b)) <=> a <= b
<1>1. PICK p, q, m, n : /\ p = a \div Second /\ q = b \div Second
                        /\ m = a % Second /\ n = b % Second
  OBVIOUS
<1>2. m \in Nat /\ n \in Nat
  BY <1>1, Division, Resolution
<1>3. a <= b <=> p < q \/ (p = q /\ m <= n)
  <2>1. Second \in Nat /\ Second >= 1
    BY Resolution
  <2>2. a <= b <=> \/ a \div Second < b \div Second
                   \/ a \div Second = b \div Second /\ a % Second <= b % Second
    BY <2>1, Lexicographic, Zenon
  <2> QED
    BY <1>1, <2>2, Zenon
<1>4. Timed!TextNotAfter(Timed!Isoformat(a), Timed!Isoformat(b)) <=>
        \/ p < q
        \/ p = q /\ (\/ m = 0 /\ n # 0
                     \/ (m = 0 <=> n = 0) /\ m <= n)
  BY <1>1 DEF Timed!TextNotAfter, Timed!Isoformat, Timed!MarkOrder
<1> QED
  BY <1>2, <1>3, <1>4

-----------------------------------------------------------------------------
(* The state of the timers.  TimedTypes leaves out the attempts, which     *)
(* only decide whether a failed request is tried again.                    *)
Stage == {"idle", "claimed", "deferring", "executing", "limited", "failing"}

TimedTypes ==
    /\ time \in Nat
    /\ status \in [TimedRequests ->
                     {"queued", "running", "retrying", "completed", "dead_letter"}]
    /\ due_at \in [TimedRequests -> Nat]
    /\ stage \in [TimedWorkers -> Stage]
    /\ in_hand \in [TimedWorkers -> TimedRequests \cup {Nobody}]
    /\ retry_delay \in [TimedWorkers -> Nat]
    /\ target_cooldowns \in [TimedWorkers -> Nat]
    /\ asked_request \in [TimedRequests -> Nat]
    /\ asked_worker \in [TimedWorkers -> Nat]
    /\ deferrals \in [TimedWorkers -> [TimedRequests -> Nat]]

(* A worker that is not idle has a running request, and has it alone.      *)
Holding ==
    \A u \in TimedWorkers : stage[u] # "idle" =>
        /\ in_hand[u] \in TimedRequests
        /\ status[in_hand[u]] = "running"
        /\ \A v \in TimedWorkers :
              stage[v] # "idle" /\ in_hand[v] = in_hand[u] => v = u

(* A request is not called before the instant x: who waits for it is told  *)
(* a later one, who has it has read a later one, and who is about to store *)
(* its failure will store a later one.                                     *)
NotBefore(r, x) ==
    /\ status[r] \in {"queued", "retrying"} => due_at[r] >= x
    /\ \A u \in TimedWorkers : in_hand[u] = r =>
          /\ stage[u] \in {"claimed", "deferring", "executing"} => time >= x
          /\ stage[u] \in {"limited", "failing"} => time + retry_delay[u] * Second >= x

(* What the target asked of a request is kept, but for a fraction.         *)
RequestWaits ==
    \A r \in TimedRequests : NotBefore(r, asked_request[r] + 1 - Second)

(* What it asked of a worker is covered by the delay the worker has read,  *)
(* by the cooldown it has started, or is in the past.                      *)
WorkerWaits(w) ==
    IF stage[w] = "limited"
      THEN time + retry_delay[w] * Second + Second > asked_worker[w]
      ELSE \/ target_cooldowns[w] + Second > asked_worker[w]
           \/ time + Second > asked_worker[w]

(* Who calls a target leaves it no longer alone.                           *)
CallIsFree(w) == stage[w] = "executing" => target_cooldowns[w] <= time

(* After one deferral a request comes back in the last second of the       *)
(* cooldown or later, after two when it is over.                           *)
DeferralsLast(w) ==
    \A r \in TimedRequests :
        /\ deferrals[w][r] <= 2
        /\ deferrals[w][r] >= 1 => NotBefore(r, target_cooldowns[w] + 1 - Second)
        /\ deferrals[w][r] = 2 => NotBefore(r, target_cooldowns[w])
        /\ stage[w] = "deferring" /\ in_hand[w] = r => deferrals[w][r] <= 1

TimedInv ==
    /\ TimedTypes /\ Holding /\ RequestWaits
    /\ \A w \in TimedWorkers : WorkerWaits(w) /\ CallIsFree(w) /\ DeferralsLast(w)

Waiting == {"queued", "retrying"}

(* A step of w and of no other worker.                                     *)
Moves(w) ==
    /\ time' = time
    /\ \A u \in TimedWorkers \ {w} :
          /\ stage'[u] = stage[u] /\ in_hand'[u] = in_hand[u]
          /\ retry_delay'[u] = retry_delay[u]
          /\ target_cooldowns'[u] = target_cooldowns[u]
          /\ asked_worker'[u] = asked_worker[u] /\ deferrals'[u] = deferrals[u]

(* No step brings a request's next call forward.                           *)
NoneEarlier ==
    \A r \in TimedRequests, x \in Int : NotBefore(r, x) => NotBefore(r, x)'

-----------------------------------------------------------------------------
(* A worker stores a failure later than it has waited for, takes what is   *)
(* due, and otherwise goes on with what it has in hand.                    *)
LEMMA MovesKeepWaiting ==
  ASSUME TimedInv, NEW w \in TimedWorkers, Moves(w), TimedTypes',
         \A r \in TimedRequests : status'[r] \in Waiting =>
            \/ status[r] \in Waiting /\ due_at'[r] = due_at[r]
            \/ /\ in_hand[w] = r /\ stage[w] = "failing"
               /\ due_at'[r] = time + retry_delay[w] * Second,
         \A r \in TimedRequests :
            in_hand'[w] = r /\ stage'[w] \in {"claimed", "deferring", "executing"} =>
              \/ in_hand[w] = r /\ stage[w] \in {"claimed", "deferring", "executing"}
              \/ status[r] \in Waiting /\ due_at[r] <= time,
         \A r \in TimedRequests :
            in_hand'[w] = r /\ stage'[w] \in {"limited", "failing"} =>
              /\ in_hand[w] = r
              /\ \/ stage[w] \in {"claimed", "deferring", "executing"}
                 \/ stage[w] = "limited" /\ retry_delay'[w] = retry_delay[w]
  PROVE  NoneEarlier
<1> SUFFICES ASSUME NEW r \in TimedRequests, NEW x \in Int, NotBefore(r, x)
             PROVE  NotBefore(r, x)'
  BY DEF NoneEarlier
<1>1. /\ time \in Nat /\ time' = time /\ Second \in Nat /\ due_at \in [TimedRequests -> Nat]
      /\ due_at' \in [TimedRequests -> Nat]
      /\ retry_delay'[w] \in Nat /\ retry_delay'[w] * Second \in Nat
  BY Resolution, Product DEF TimedInv, TimedTypes, Moves
<1>2. (status[r] \in {"queued", "retrying"})' => due_at'[r] >= x
  BY <1>1 DEF NotBefore, Waiting
<1>3. ASSUME NEW u \in TimedWorkers, in_hand'[u] = r
      PROVE  /\ (stage'[u] \in {"claimed", "deferring", "executing"} => time' >= x)
             /\ (stage'[u] \in {"limited", "failing"} =>
                   time' + retry_delay'[u] * Second >= x)
  <2>1. CASE u # w
    BY <1>1, <1>3, <2>1 DEF NotBefore, Moves
  <2>2. CASE u = w
    <3>1. stage'[w] \in {"claimed", "deferring", "executing"} => time >= x
      BY <1>1, <1>3, <2>2 DEF NotBefore, Waiting
    <3>2. stage'[w] \in {"limited", "failing"} => time + retry_delay'[w] * Second >= x
      <4>1. CASE stage[w] \in {"claimed", "deferring", "executing"} /\ in_hand[w] = r
        <5>1. time >= x
          BY <4>1 DEF NotBefore
        <5> QED
          BY <1>1, <5>1
      <4>2. CASE stage[w] = "limited" /\ retry_delay'[w] = retry_delay[w] /\ in_hand[w] = r
        BY <4>2 DEF NotBefore
      <4> QED
        BY <1>3, <2>2, <4>1, <4>2
    <3> QED
      BY <1>1, <2>2, <3>1, <3>2
  <2> QED
    BY <2>1, <2>2
<1> QED
  BY <1>2, <1>3 DEF NotBefore

(* What concerns the other workers stays with them.                        *)
LEMMA OneMoves ==
  ASSUME TimedInv, NEW w \in TimedWorkers, Moves(w), TimedTypes', Holding', NoneEarlier,
         RequestWaits', WorkerWaits(w)', CallIsFree(w)', DeferralsLast(w)'
  PROVE  TimedInv'
<1>1. ASSUME NEW v \in TimedWorkers \ {w} PROVE WorkerWaits(v)' /\ CallIsFree(v)' /\ DeferralsLast(v)'
  <2>1. /\ time' = time /\ stage'[v] = stage[v] /\ in_hand'[v] = in_hand[v]
        /\ retry_delay'[v] = retry_delay[v]
        /\ target_cooldowns'[v] = target_cooldowns[v]
        /\ asked_worker'[v] = asked_worker[v] /\ deferrals'[v] = deferrals[v]
    BY DEF Moves
  <2>2. WorkerWaits(v) /\ CallIsFree(v) /\ DeferralsLast(v)
    BY DEF TimedInv
  <2>3. WorkerWaits(v)' /\ CallIsFree(v)'
    BY <2>1, <2>2 DEF WorkerWaits, CallIsFree
  <2>4. PICK c \in Int : c = target_cooldowns[v] /\ c + 1 - Second \in Int
    BY Resolution DEF TimedInv, TimedTypes
  <2>5. \A r \in TimedRequests : /\ NotBefore(r, c) => NotBefore(r, c)'
                                 /\ NotBefore(r, c + 1 - Second) => NotBefore(r, c + 1 - Second)'
    BY <2>4 DEF NoneEarlier
  <2>6. ASSUME NEW r \in TimedRequests
        PROVE  /\ deferrals'[v][r] <= 2
               /\ deferrals'[v][r] >= 1 => NotBefore(r, target_cooldowns[v] + 1 - Second)'
               /\ deferrals'[v][r] = 2 => NotBefore(r, target_cooldowns[v])'
               /\ stage'[v] = "deferring" /\ in_hand'[v] = r => deferrals'[v][r] <= 1
    <3>1. /\ deferrals[v][r] <= 2
          /\ deferrals[v][r] >= 1 => NotBefore(r, c + 1 - Second)
          /\ deferrals[v][r] = 2 => NotBefore(r, c)
          /\ stage[v] = "deferring" /\ in_hand[v] = r => deferrals[v][r] <= 1
      BY <2>2, <2>4 DEF DeferralsLast
    <3>2. /\ deferrals[v][r] >= 1 => NotBefore(r, c + 1 - Second)'
          /\ deferrals[v][r] = 2 => NotBefore(r, c)'
      BY <2>5, <3>1
    <3>3. c = target_cooldowns'[v]
      BY <2>1, <2>4
    <3> QED
      BY <2>1, <3>1, <3>2, <3>3 DEF NotBefore
  <2>7. DeferralsLast(v)'
    BY <2>6 DEF DeferralsLast
  <2> QED
    BY <2>3, <2>7
<1> QED
  BY <1>1 DEF TimedInv

LEMMA RequestsStillWait ==
  ASSUME TimedInv, NoneEarlier, asked_request' = asked_request
  PROVE  RequestWaits'
<1> SUFFICES ASSUME NEW r \in TimedRequests
             PROVE  NotBefore(r, asked_request[r] + 1 - Second)'
  BY DEF RequestWaits
<1>1. PICK x \in Int : x = asked_request[r] + 1 - Second
  BY Resolution DEF TimedInv, TimedTypes
<1>2. NotBefore(r, x)
  BY <1>1 DEF TimedInv, RequestWaits
<1>3. NotBefore(r, x)'
  BY <1>2 DEF NoneEarlier
<1> QED
  BY <1>1, <1>3 DEF NotBefore

(* Deferrals last while w starts no cooldown and defers nothing.           *)
LEMMA DeferralsStillLast ==
  ASSUME TimedInv, NEW w \in TimedWorkers, NoneEarlier,
         target_cooldowns'[w] = target_cooldowns[w], deferrals'[w] = deferrals[w],
         stage'[w] = "deferring" => deferrals[w][in_hand'[w]] <= 1
  PROVE  DeferralsLast(w)'
<1>1. PICK c \in Int : c = target_cooldowns[w] /\ c + 1 - Second \in Int
  BY Resolution DEF TimedInv, TimedTypes
<1>2. ASSUME NEW r \in TimedRequests
      PROVE  /\ deferrals'[w][r] <= 2
             /\ deferrals'[w][r] >= 1 => NotBefore(r, target_cooldowns[w] + 1 - Second)'
             /\ deferrals'[w][r] = 2 => NotBefore(r, target_cooldowns[w])'
             /\ stage'[w] = "deferring" /\ in_hand'[w] = r => deferrals'[w][r] <= 1
  <2>1. /\ deferrals[w][r] <= 2
        /\ deferrals[w][r] >= 1 => NotBefore(r, c + 1 - Second)
        /\ deferrals[w][r] = 2 => NotBefore(r, c)
    BY <1>1 DEF TimedInv, DeferralsLast
  <2>2. /\ deferrals[w][r] >= 1 => NotBefore(r, c + 1 - Second)'
        /\ deferrals[w][r] = 2 => NotBefore(r, c)'
    BY <1>1, <2>1 DEF NoneEarlier
  <2>3. c = target_cooldowns'[w]
    BY <1>1
  <2> QED
    BY <2>1, <2>2, <2>3 DEF NotBefore
<1> QED
  BY <1>2 DEF DeferralsLast

(* Nothing is called before the beginning of time.                         *)
LEMMA NothingIsEarly ==
  ASSUME TimedTypes, NEW r \in TimedRequests, NEW x \in Int, x <= 0
  PROVE  NotBefore(r, x)
<1>1. time \in Nat /\ due_at[r] \in Nat
  BY DEF TimedTypes
<1>2. \A u \in TimedWorkers : retry_delay[u] * Second \in Nat
  BY Resolution, Product DEF TimedTypes
<1> QED
  BY <1>1, <1>2 DEF NotBefore

(* A worker that keeps its request, and no step of another, keep Holding.  *)
LEMMA StillHolding ==
  ASSUME TimedInv, NEW w \in TimedWorkers, Moves(w), stage[w] # "idle",
         \/ stage'[w] = "idle"
         \/ in_hand'[w] = in_hand[w] /\ status' = status,
         \A r \in TimedRequests : r # in_hand[w] => status'[r] = status[r]
  PROVE  Holding'
<1> SUFFICES ASSUME NEW u \in TimedWorkers, stage'[u] # "idle"
             PROVE  /\ in_hand'[u] \in TimedRequests
                    /\ status'[in_hand'[u]] = "running"
                    /\ \A v \in TimedWorkers :
                         stage'[v] # "idle" /\ in_hand'[v] = in_hand'[u] => v = u
  BY DEF Holding
<1>1. stage[u] # "idle" /\ in_hand'[u] = in_hand[u]
  BY DEF Moves
<1>2. /\ in_hand[u] \in TimedRequests /\ status[in_hand[u]] = "running"
      /\ \A v \in TimedWorkers : stage[v] # "idle" /\ in_hand[v] = in_hand[u] => v = u
  BY <1>1 DEF TimedInv, Holding
<1>3. status'[in_hand[u]] = "running"
  BY <1>2 DEF Moves
<1>4. \A v \in TimedWorkers : stage'[v] # "idle" => stage[v] # "idle" /\ in_hand'[v] = in_hand[v]
  BY DEF Moves
<1> QED
  BY <1>1, <1>2, <1>3, <1>4

-----------------------------------------------------------------------------
(* The steps of a worker, one by one.                                      *)

LEMMA DueIsEligible ==
  ASSUME TimedTypes, NEW r \in TimedRequests
  PROVE  Timed!Eligible(r) <=> status[r] \in Waiting /\ due_at[r] <= time
BY TextsOrderAsInstants DEF TimedTypes, Timed!Eligible, Waiting

LEMMA ClaimKeeps ==
  ASSUME TimedInv, NEW w \in TimedWorkers, NEW r \in TimedRequests, Timed!Claim(w, r)
  PROVE  TimedInv'
<1>1. /\ stage[w] = "idle" /\ status[r] \in Waiting /\ due_at[r] <= time
      /\ status' = [status EXCEPT ![r] = "running"]
      /\ in_hand' = [in_hand EXCEPT ![w] = r]
      /\ stage' = [stage EXCEPT ![w] = "claimed"]
      /\ UNCHANGED <<time, due_at, retry_delay, target_cooldowns, asked_request,
                     asked_worker, deferrals, deaths>>
  BY DueIsEligible DEF Timed!Claim, Timed!GoTo, Timed!historyVars, TimedInv
<1>2. TimedTypes' /\ Moves(w) /\ stage'[w] = "claimed" /\ in_hand'[w] = r
  BY <1>1 DEF TimedInv, TimedTypes, Stage, Moves
<1>3. Holding'
  <2> SUFFICES ASSUME NEW u \in TimedWorkers, stage'[u] # "idle"
               PROVE  /\ in_hand'[u] \in TimedRequests
                      /\ status'[in_hand'[u]] = "running"
                      /\ \A v \in TimedWorkers :
                           stage'[v] # "idle" /\ in_hand'[v] = in_hand'[u] => v = u
    BY DEF Holding
  <2>1. \A v \in TimedWorkers \ {w} :
          /\ stage'[v] = stage[v] /\ in_hand'[v] = in_hand[v]
          /\ stage[v] # "idle" => /\ in_hand[v] \in TimedRequests \ {r}
                                  /\ status[in_hand[v]] = "running"
    BY <1>1, <1>2 DEF TimedInv, Holding, Moves, Waiting
  <2>2. \A q \in TimedRequests : status'[q] = IF q = r THEN "running" ELSE status[q]
    BY <1>1 DEF TimedInv, TimedTypes
  <2> QED
    BY <1>2, <2>1, <2>2 DEF TimedInv, Holding
<1>4. NoneEarlier
  <2>1. \A q \in TimedRequests : status'[q] \in Waiting =>
            status[q] \in Waiting /\ due_at'[q] = due_at[q]
    BY <1>1 DEF TimedInv, TimedTypes, Waiting
  <2> QED
    BY <1>1, <1>2, <2>1, MovesKeepWaiting
<1>5. WorkerWaits(w)'
  BY <1>1, <1>2 DEF TimedInv, WorkerWaits
<1>6. DeferralsLast(w)'
  BY <1>1, <1>2, <1>4, DeferralsStillLast
<1>7. CallIsFree(w)'
  BY <1>2 DEF CallIsFree
<1> QED
  BY <1>1, <1>2, <1>3, <1>4, <1>5, <1>6, <1>7, RequestsStillWait, OneMoves

(* A worker goes on with its request, having read a delay or not.          *)
LEMMA GoesOn ==
  ASSUME TimedInv, NEW w \in TimedWorkers, NEW label \in Stage \ {"idle"},
         stage' = [stage EXCEPT ![w] = label],
         UNCHANGED <<time, status, due_at, in_hand>>,
         TimedTypes', stage[w] # "idle",
         \A u \in TimedWorkers \ {w} :
            /\ retry_delay'[u] = retry_delay[u]
            /\ target_cooldowns'[u] = target_cooldowns[u]
            /\ asked_worker'[u] = asked_worker[u] /\ deferrals'[u] = deferrals[u],
         label \in {"claimed", "deferring", "executing"} =>
            stage[w] \in {"claimed", "deferring", "executing"},
         label \in {"limited", "failing"} =>
            \/ stage[w] \in {"claimed", "deferring", "executing"}
            \/ stage[w] = "limited" /\ retry_delay'[w] = retry_delay[w]
  PROVE  Moves(w) /\ Holding' /\ NoneEarlier /\ stage'[w] = label
<1>1. Moves(w) /\ stage'[w] = label
  BY DEF TimedInv, TimedTypes, Moves
<1>2. Holding'
  BY <1>1, StillHolding
<1>3. NoneEarlier
  BY <1>1, MovesKeepWaiting DEF Stage
<1> QED
  BY <1>1, <1>2, <1>3

LEMMA NoticeKeeps ==
  ASSUME TimedInv, NEW w \in TimedWorkers, Timed!NoticeCooldown(w)
  PROVE  TimedInv'
<1>1. /\ stage[w] = "claimed" /\ target_cooldowns[w] > time
      /\ stage' = [stage EXCEPT ![w] = "deferring"]
      /\ UNCHANGED <<time, status, due_at, in_hand, retry_delay, target_cooldowns,
                     asked_request, asked_worker, deferrals, deaths>>
  BY DEF Timed!NoticeCooldown, Timed!GoTo, Timed!rowVars, Timed!historyVars
<1>2. TimedTypes'
  BY <1>1 DEF TimedInv, TimedTypes, Stage
<1>3. Moves(w) /\ Holding' /\ NoneEarlier /\ stage'[w] = "deferring"
  BY <1>1, <1>2, GoesOn DEF Stage
<1>4. PICK r \in TimedRequests : r = in_hand[w]
  BY <1>1 DEF TimedInv, Holding
<1>5. deferrals[w][r] <= 1
  <2>1. /\ deferrals[w][r] \in Nat /\ deferrals[w][r] <= 2
        /\ deferrals[w][r] = 2 => NotBefore(r, target_cooldowns[w])
    BY DEF TimedInv, TimedTypes, DeferralsLast
  <2>2. NotBefore(r, target_cooldowns[w]) => time >= target_cooldowns[w]
    BY <1>1, <1>4 DEF NotBefore
  <2>3. ~(time >= target_cooldowns[w])
    BY <1>1 DEF TimedInv, TimedTypes
  <2> QED
    BY <2>1, <2>2, <2>3
<1>6. WorkerWaits(w)'
  BY <1>1, <1>3 DEF TimedInv, WorkerWaits
<1>7. DeferralsLast(w)'
  BY <1>1, <1>3, <1>4, <1>5, DeferralsStillLast
<1>8. CallIsFree(w)'
  BY <1>3 DEF CallIsFree
<1> QED
  BY <1>1, <1>2, <1>3, <1>6, <1>7, <1>8, RequestsStillWait, OneMoves

LEMMA ExecuteKeeps ==
  ASSUME TimedInv, NEW w \in TimedWorkers, Timed!Execute(w) \/ Timed!Fail(w)
  PROVE  TimedInv'
<1>1. PICK label \in {"executing", "failing"} :
        /\ stage' = [stage EXCEPT ![w] = label]
        /\ label = "executing" => stage[w] = "claimed"
        /\ label = "failing" => stage[w] = "executing"
        /\ label = "executing" => target_cooldowns[w] <= time
  BY DEF Timed!Execute, Timed!Fail, Timed!GoTo
<1>2. UNCHANGED <<time, status, due_at, in_hand, target_cooldowns,
                  asked_request, asked_worker, deferrals, deaths>>
  BY DEF Timed!Execute, Timed!Fail, Timed!rowVars, Timed!historyVars
<1>3. PICK d \in Nat : retry_delay' = [retry_delay EXCEPT ![w] = d]
  <2>1. CASE Timed!Execute(w)
    <3>1. retry_delay' = [retry_delay EXCEPT ![w] = retry_delay[w]] /\ retry_delay[w] \in Nat
      BY <2>1 DEF Timed!Execute, TimedInv, TimedTypes
    <3> QED
      BY <3>1
  <2>2. CASE Timed!Fail(w)
    BY <2>2, TimedAssumption DEF Timed!Fail, Timed!SetDelay, Timed!TimersAssumption
  <2> QED
    BY <2>1, <2>2
<1>4. TimedTypes'
  BY <1>1, <1>2, <1>3 DEF TimedInv, TimedTypes, Stage
<1>5. Moves(w) /\ Holding' /\ NoneEarlier /\ stage'[w] = label
  <2>1. \A u \in TimedWorkers \ {w} : retry_delay'[u] = retry_delay[u]
    BY <1>3 DEF TimedInv, TimedTypes
  <2> QED
    BY <1>1, <1>2, <1>4, <2>1, GoesOn DEF Stage
<1>6. WorkerWaits(w)'
  BY <1>1, <1>2, <1>5 DEF TimedInv, WorkerWaits
<1>7. DeferralsLast(w)'
  BY <1>1, <1>2, <1>5, DeferralsStillLast
<1>8. CallIsFree(w)'
  BY <1>1, <1>2, <1>5 DEF CallIsFree
<1> QED
  BY <1>2, <1>4, <1>5, <1>6, <1>7, <1>8, RequestsStillWait, OneMoves

(* The delay of a deferral reaches into the last second of the cooldown,   *)
(* and that of a second deferral beyond it.                                *)
LEMMA DeferKeeps ==
  ASSUME TimedInv, NEW w \in TimedWorkers, Timed!Defer(w)
  PROVE  TimedInv'
<1>1. PICK left : left = Timed!WholeSeconds(target_cooldowns[w], time)
  OBVIOUS
<1>2. PICK d : d = IF left = 0 THEN 1 ELSE left
  OBVIOUS
<1>3. PICK c \in Nat, t \in Nat : c = target_cooldowns[w] /\ t = time
  BY DEF TimedInv, TimedTypes
<1>4. left \in Nat /\ t + left * Second + Second > c
  BY <1>1, <1>3, CutRemainder
<1>5. d \in Nat /\ d >= 1 /\ t + d * Second + Second > c /\ d * Second \in Nat
      /\ d * Second >= Second
  BY <1>2, <1>3, <1>4, Resolution, Product
<1>6. /\ stage[w] = "deferring"
      /\ stage' = [stage EXCEPT ![w] = "failing"]
      /\ retry_delay' = [retry_delay EXCEPT ![w] = d]
      /\ deferrals' = [deferrals EXCEPT ![w][in_hand[w]] = @ + 1]
      /\ UNCHANGED <<time, status, due_at, in_hand, target_cooldowns,
                     asked_request, asked_worker, deaths>>
  BY <1>1, <1>2 DEF Timed!Defer, Timed!SetDelay, Timed!GoTo, Timed!rowVars
<1>7. PICK r \in TimedRequests : r = in_hand[w]
  BY <1>6 DEF TimedInv, Holding
<1>8. PICK n \in Nat : n = deferrals[w][r]
  BY DEF TimedInv, TimedTypes
<1>9. /\ deferrals' \in [TimedWorkers -> [TimedRequests -> Nat]]
      /\ deferrals'[w][r] = n + 1
      /\ \A q \in TimedRequests \ {r} : deferrals'[w][q] = deferrals[w][q]
      /\ \A u \in TimedWorkers \ {w} : deferrals'[u] = deferrals[u]
      /\ retry_delay'[w] = d
      /\ \A u \in TimedWorkers \ {w} : retry_delay'[u] = retry_delay[u]
  <2>1. deferrals \in [TimedWorkers -> [TimedRequests -> Nat]]
    BY DEF TimedInv, TimedTypes
  <2>2. deferrals' = [deferrals EXCEPT ![w] = [deferrals[w] EXCEPT ![r] = n + 1]]
    BY <1>6, <1>7, <1>8, <2>1
  <2>3. [deferrals[w] EXCEPT ![r] = n + 1] \in [TimedRequests -> Nat]
    BY <2>1
  <2> QED
    BY <1>5, <1>6, <2>1, <2>2, <2>3, ZenonT(60) DEF TimedInv, TimedTypes
<1>10. TimedTypes'
  BY <1>5, <1>6, <1>9 DEF TimedInv, TimedTypes, Stage
<1>11. Moves(w) /\ Holding' /\ NoneEarlier /\ stage'[w] = "failing"
  BY <1>6, <1>9, <1>10, GoesOn DEF Stage
<1>12. WorkerWaits(w)'
  BY <1>6, <1>11 DEF TimedInv, WorkerWaits
<1>13. status[r] = "running" /\ \A u \in TimedWorkers :
         stage[u] # "idle" /\ in_hand[u] = r => u = w
  BY <1>6, <1>7 DEF TimedInv, Holding
<1>14. ASSUME NEW x \in Int, t + d * Second >= x PROVE NotBefore(r, x)'
  <2>1. status'[r] = "running"
    BY <1>6, <1>13
  <2>2. \A u \in TimedWorkers : in_hand'[u] = r /\ stage'[u] # "idle" => u = w
    BY <1>6, <1>11, <1>13 DEF Moves
  <2>3. time' = t
    BY <1>3, <1>6
  <2> QED
    BY <1>9, <1>11, <1>14, <2>1, <2>2, <2>3 DEF NotBefore
<1>15. n <= 1 /\ (n = 1 => t + Second > c)
  <2>1. deferrals[w][r] >= 1 => NotBefore(r, target_cooldowns[w] + 1 - Second)
    BY DEF TimedInv, DeferralsLast
  <2>2. n = 1 => t >= c + 1 - Second
    BY <1>3, <1>6, <1>7, <1>8, <2>1 DEF NotBefore
  <2>3. n <= 1
    BY <1>6, <1>7, <1>8 DEF TimedInv, DeferralsLast
  <2> QED
    BY <1>3, <2>2, <2>3, Resolution
<1>16. NotBefore(r, c + 1 - Second)' /\ (n = 1 => NotBefore(r, c)')
  <2>1. c + 1 - Second \in Int /\ t + d * Second >= c + 1 - Second
    BY <1>3, <1>5, Resolution
  <2>2. n = 1 => t + d * Second >= c
    BY <1>3, <1>5, <1>15, Resolution
  <2>3. NotBefore(r, c + 1 - Second)'
    BY <1>14, <2>1
  <2>4. n = 1 => NotBefore(r, c)'
    BY <1>14, <2>2
  <2> QED
    BY <2>3, <2>4
<1>17. DeferralsLast(w)'
  <2> SUFFICES ASSUME NEW q \in TimedRequests
               PROVE  /\ deferrals'[w][q] <= 2
                      /\ deferrals'[w][q] >= 1 => NotBefore(q, c + 1 - Second)'
                      /\ deferrals'[w][q] = 2 => NotBefore(q, c)'
                      /\ stage'[w] = "deferring" /\ in_hand'[w] = q => deferrals'[w][q] <= 1
    <3>1. target_cooldowns'[w] = c
      BY <1>3, <1>6
    <3> QED
      BY <3>1 DEF DeferralsLast, NotBefore
  <2>1. CASE q = r
    BY <1>9, <1>11, <1>15, <1>16, <2>1
  <2>2. CASE q # r
    <3>1. /\ deferrals[w][q] <= 2
          /\ deferrals[w][q] >= 1 => NotBefore(q, c + 1 - Second)
          /\ deferrals[w][q] = 2 => NotBefore(q, c)
      BY <1>3 DEF TimedInv, DeferralsLast
    <3>2. c + 1 - Second \in Int
      BY <1>3, Resolution
    <3> QED
      BY <1>9, <1>11, <2>2, <3>1, <3>2 DEF NoneEarlier
  <2> QED
    BY <2>1, <2>2
<1>18. CallIsFree(w)'
  BY <1>11 DEF CallIsFree
<1> QED
  BY <1>6, <1>10, <1>11, <1>12, <1>17, <1>18, RequestsStillWait, OneMoves

(* _parse_retry_after: what the worker is told to wait reaches into the    *)
(* last second before the instant the target asked for.                    *)
LEMMA RateLimitedKeeps ==
  ASSUME TimedInv, NEW w \in TimedWorkers, Timed!RateLimited(w)
  PROVE  TimedInv'
<1>1. /\ stage[w] = "executing"
      /\ stage' = [stage EXCEPT ![w] = "limited"]
      /\ UNCHANGED <<time, status, due_at, in_hand, target_cooldowns, deferrals, deaths>>
  BY DEF Timed!RateLimited, Timed!GoTo, Timed!rowVars
<1>2. PICK r \in TimedRequests, t \in Nat : r = in_hand[w] /\ t = time
  BY <1>1 DEF TimedInv, TimedTypes, Holding
<1>3. PICK d \in Nat, x \in Nat :
        /\ retry_delay' = [retry_delay EXCEPT ![w] = d]
        /\ asked_request' = [asked_request EXCEPT ![r] = x]
        /\ asked_worker' = [asked_worker EXCEPT ![w] = x]
        /\ t + d * Second + Second > x
  <2>1. Hints \subseteq Nat /\ Dates \subseteq Nat
    BY TimedAssumption DEF Timed!TimersAssumption
  <2>2. ASSUME NEW h \in Hints, Timed!SetDelay(w, h), Timed!Asked(w, time + h * Second)
        PROVE  \E d \in Nat, x \in Nat :
                 /\ retry_delay' = [retry_delay EXCEPT ![w] = d]
                 /\ asked_request' = [asked_request EXCEPT ![r] = x]
                 /\ asked_worker' = [asked_worker EXCEPT ![w] = x]
                 /\ t + d * Second + Second > x
    <3>1. h \in Nat /\ h * Second \in Nat
      BY <2>1, Resolution, Product
    <3>2. PICK x \in Nat : x = t + h * Second
      BY <1>2, <3>1
    <3>3. t + h * Second + Second > x
      BY <1>2, <3>1, <3>2, Resolution
    <3> QED
      BY <1>2, <2>2, <3>1, <3>2, <3>3 DEF Timed!SetDelay, Timed!Asked
  <2>3. ASSUME NEW e \in Dates, Timed!SetDelay(w, Timed!WholeSeconds(e * Second, time)),
               Timed!Asked(w, e * Second)
        PROVE  \E d \in Nat, x \in Nat :
                 /\ retry_delay' = [retry_delay EXCEPT ![w] = d]
                 /\ asked_request' = [asked_request EXCEPT ![r] = x]
                 /\ asked_worker' = [asked_worker EXCEPT ![w] = x]
                 /\ t + d * Second + Second > x
    <3>1. PICK x \in Nat : x = e * Second
      BY <2>1, Resolution, Product
    <3>2. PICK d : d = Timed!WholeSeconds(x, t)
      OBVIOUS
    <3>3. d \in Nat /\ t + d * Second + Second > x
      BY <1>2, <3>1, <3>2, CutRemainder
    <3> QED
      BY <1>2, <2>3, <3>1, <3>2, <3>3 DEF Timed!SetDelay, Timed!Asked
  <2> QED
    BY <2>2, <2>3 DEF Timed!RateLimited, Timed!ParseRetryAfter
<1>4. /\ TimedTypes'
      /\ \A u \in TimedWorkers \ {w} :
           retry_delay'[u] = retry_delay[u] /\ asked_worker'[u] = asked_worker[u]
      /\ retry_delay'[w] = d /\ asked_worker'[w] = x
      /\ asked_request'[r] = x
      /\ \A q \in TimedRequests \ {r} : asked_request'[q] = asked_request[q]
  BY <1>1, <1>3 DEF TimedInv, TimedTypes, Stage
<1>5. Moves(w) /\ Holding' /\ NoneEarlier /\ stage'[w] = "limited"
  BY <1>1, <1>4, GoesOn DEF Stage
<1>6. WorkerWaits(w)'
  BY <1>1, <1>2, <1>3, <1>4, <1>5 DEF WorkerWaits
<1>7. DeferralsLast(w)'
  BY <1>1, <1>5, DeferralsStillLast
<1>8. RequestWaits'
  <2> SUFFICES ASSUME NEW q \in TimedRequests
               PROVE  NotBefore(q, asked_request[q] + 1 - Second)'
    BY DEF RequestWaits
  <2>1. PICK y \in Int : y = asked_request'[q] + 1 - Second
    BY <1>4, Resolution DEF TimedTypes
  <2>2. CASE q # r
    <3>1. NotBefore(q, y)
      BY <1>4, <2>1, <2>2 DEF TimedInv, RequestWaits
    <3>2. NotBefore(q, y)'
      BY <1>5, <3>1 DEF NoneEarlier
    <3> QED
      BY <2>1, <3>2 DEF NotBefore
  <2>3. CASE q = r
    <3>1. /\ status'[r] = "running"
          /\ \A u \in TimedWorkers : in_hand'[u] = r /\ stage'[u] # "idle" => u = w
      BY <1>1, <1>2, <1>5 DEF TimedInv, Holding, Moves
    <3>2. time' + retry_delay'[w] * Second >= y
      <4>1. d * Second \in Nat
        BY Resolution, Product
      <4> QED
        BY <1>1, <1>2, <1>3, <1>4, <2>1, <2>3, <4>1, Resolution
    <3> QED
      BY <1>5, <2>1, <2>3, <3>1, <3>2 DEF NotBefore
  <2> QED
    BY <2>2, <2>3
<1>9. CallIsFree(w)'
  BY <1>5 DEF CallIsFree
<1> QED
  BY <1>4, <1>5, <1>6, <1>7, <1>8, <1>9, OneMoves

(* A worker without deferrals has nothing to account for.                  *)
LEMMA NothingDeferred ==
  ASSUME NEW w, \A r \in TimedRequests : deferrals'[w][r] = 0
  PROVE  DeferralsLast(w)'
BY DEF DeferralsLast

LEMMA StartCooldownKeeps ==
  ASSUME TimedInv, NEW w \in TimedWorkers, Timed!StartCooldown(w)
  PROVE  TimedInv'
<1>1. PICK t \in Nat, d \in Nat : t = time /\ d = retry_delay[w] /\ d * Second \in Nat
  BY Resolution, Product DEF TimedInv, TimedTypes
<1>2. /\ stage[w] = "limited"
      /\ stage' = [stage EXCEPT ![w] = "failing"]
      /\ target_cooldowns' = [target_cooldowns EXCEPT ![w] = t + d * Second]
      /\ deferrals' = [deferrals EXCEPT ![w] = [r \in TimedRequests |-> 0]]
      /\ UNCHANGED <<time, status, due_at, in_hand, retry_delay, asked_request,
                     asked_worker, deaths>>
  BY <1>1 DEF Timed!StartCooldown, Timed!GoTo, Timed!rowVars, Timed!NoDeferrals
<1>3. /\ TimedTypes'
      /\ target_cooldowns'[w] = t + d * Second
      /\ \A r \in TimedRequests : deferrals'[w][r] = 0
      /\ \A u \in TimedWorkers \ {w} :
           target_cooldowns'[u] = target_cooldowns[u] /\ deferrals'[u] = deferrals[u]
  BY <1>1, <1>2 DEF TimedInv, TimedTypes, Stage
<1>4. Moves(w) /\ Holding' /\ NoneEarlier /\ stage'[w] = "failing"
  BY <1>2, <1>3, GoesOn DEF Stage
<1>5. WorkerWaits(w)'
  BY <1>1, <1>2, <1>3, <1>4 DEF TimedInv, WorkerWaits
<1>6. CallIsFree(w)'
  BY <1>4 DEF CallIsFree
<1> QED
  BY <1>2, <1>3, <1>4, <1>5, NothingDeferred, <1>6, RequestsStillWait, OneMoves

(* A worker that returns has nothing in hand, and its delay is forgotten.  *)
LEMMA Returning ==
  ASSUME TimedInv, NEW w \in TimedWorkers, Timed!Return(w)
  PROVE  /\ stage' \in [TimedWorkers -> Stage] /\ stage'[w] = "idle"
         /\ in_hand' \in [TimedWorkers -> TimedRequests \cup {Nobody}]
         /\ in_hand'[w] = Nobody /\ Nobody \notin TimedRequests
         /\ retry_delay' \in [TimedWorkers -> Nat]
         /\ \A u \in TimedWorkers \ {w} :
              /\ stage'[u] = stage[u] /\ in_hand'[u] = in_hand[u]
              /\ retry_delay'[u] = retry_delay[u]
BY TimedAssumption DEF TimedInv, TimedTypes, Stage, Timed!Return, Timed!GoTo, Timed!SetDelay,
   Timed!TimersAssumption

(* A success ends the cooldown: what the target asked for is past.         *)
LEMMA SucceedKeeps ==
  ASSUME TimedInv, NEW w \in TimedWorkers, Timed!Succeed(w)
  PROVE  TimedInv'
<1>1. /\ stage[w] = "executing" /\ Timed!Return(w)
      /\ status' = [status EXCEPT ![in_hand[w]] = "completed"]
      /\ target_cooldowns' = [target_cooldowns EXCEPT ![w] = 0]
      /\ UNCHANGED <<time, due_at, asked_request, asked_worker, deferrals, deaths>>
  BY DEF Timed!Succeed, Timed!historyVars
<1>2. PICK r \in TimedRequests : r = in_hand[w]
  BY <1>1 DEF TimedInv, Holding
<1>3. /\ TimedTypes' /\ Moves(w) /\ stage'[w] = "idle" /\ in_hand'[w] \notin TimedRequests
      /\ target_cooldowns'[w] = 0
      /\ status'[r] = "completed"
      /\ \A q \in TimedRequests \ {r} : status'[q] = status[q]
  BY <1>1, <1>2, Returning DEF TimedInv, TimedTypes, Moves
<1>4. Holding'
  BY <1>1, <1>2, <1>3, StillHolding
<1>5. NoneEarlier
  <2>1. \A q \in TimedRequests : status'[q] \in Waiting =>
           status[q] \in Waiting /\ due_at'[q] = due_at[q]
    BY <1>1, <1>3 DEF Waiting
  <2> QED
    BY <1>3, <2>1, MovesKeepWaiting
<1>6. WorkerWaits(w)'
  <2>1. target_cooldowns[w] + Second > asked_worker[w] \/ time + Second > asked_worker[w]
    BY <1>1 DEF TimedInv, WorkerWaits
  <2>2. time + Second > asked_worker[w]
    BY <1>1, <2>1, Resolution DEF TimedInv, TimedTypes, CallIsFree
  <2> QED
    BY <1>1, <1>3, <2>2 DEF WorkerWaits
<1>7. DeferralsLast(w)'
  <2>1. \A q \in TimedRequests : NotBefore(q, 0)' /\ NotBefore(q, 0 + 1 - Second)'
    <3>1. 0 + 1 - Second \in Int /\ 0 + 1 - Second <= 0
      BY Resolution
    <3> SUFFICES ASSUME NEW q \in TimedRequests
                 PROVE  NotBefore(q, 0)' /\ NotBefore(q, 0 + 1 - Second)'
      OBVIOUS
    <3>2. time' \in Nat /\ due_at'[q] \in Nat
      BY <1>3 DEF TimedTypes
    <3>3. \A u \in TimedWorkers : retry_delay'[u] * Second \in Nat
      BY <1>3, Resolution, Product DEF TimedTypes
    <3> QED
      BY <3>1, <3>2, <3>3 DEF NotBefore
  <2>2. \A q \in TimedRequests : deferrals'[w][q] <= 2
    BY <1>1 DEF TimedInv, DeferralsLast
  <2> QED
    BY <1>3, <2>1, <2>2 DEF DeferralsLast
<1>8. CallIsFree(w)'
  BY <1>3 DEF CallIsFree
<1> QED
  BY <1>1, <1>3, <1>4, <1>5, <1>6, <1>7, <1>8, RequestsStillWait, OneMoves

LEMMA RecordFailureKeeps ==
  ASSUME TimedInv, NEW w \in TimedWorkers, Timed!RecordFailure(w)
  PROVE  TimedInv'
<1>1. /\ stage[w] = "failing" /\ Timed!Return(w)
      /\ UNCHANGED <<time, target_cooldowns, asked_request, asked_worker, deferrals, deaths>>
  BY DEF Timed!RecordFailure, Timed!historyVars
<1>2. PICK r \in TimedRequests : r = in_hand[w]
  BY <1>1 DEF TimedInv, Holding
<1>3. PICK x \in Nat, st \in {"dead_letter", "retrying"} :
        /\ status' = [status EXCEPT ![r] = st]
        /\ due_at' = [due_at EXCEPT ![r] = x]
        /\ st = "retrying" => x = time + retry_delay[w] * Second
  <2>1. time + retry_delay[w] * Second \in Nat /\ due_at[r] \in Nat
    <3>1. time \in Nat /\ retry_delay[w] * Second \in Nat /\ due_at[r] \in Nat
      BY Resolution, Product DEF TimedInv, TimedTypes
    <3> QED
      BY <3>1
  <2>2. CASE Timed!Exhausted(r)
    <3>1. /\ status' = [status EXCEPT ![r] = "dead_letter"]
          /\ due_at' = [due_at EXCEPT ![r] = due_at[r]]
      BY <1>2, <2>2 DEF Timed!RecordFailure
    <3> QED
      BY <2>1, <3>1
  <2>3. CASE ~Timed!Exhausted(r)
    <3>1. /\ status' = [status EXCEPT ![r] = "retrying"]
          /\ due_at' = [due_at EXCEPT ![r] = time + retry_delay[w] * Second]
      BY <1>2, <2>3 DEF Timed!RecordFailure
    <3> QED
      BY <2>1, <3>1
  <2> QED
    BY <2>2, <2>3
<1>4. /\ TimedTypes' /\ Moves(w) /\ stage'[w] = "idle" /\ in_hand'[w] \notin TimedRequests
      /\ status'[r] = st /\ due_at'[r] = x
      /\ \A q \in TimedRequests \ {r} : status'[q] = status[q] /\ due_at'[q] = due_at[q]
  BY <1>1, <1>3, Returning DEF TimedInv, TimedTypes, Moves
<1>5. Holding'
  BY <1>1, <1>2, <1>4, StillHolding
<1>6. NoneEarlier
  <2>1. \A q \in TimedRequests : status'[q] \in Waiting =>
            \/ status[q] \in Waiting /\ due_at'[q] = due_at[q]
            \/ /\ in_hand[w] = q /\ stage[w] = "failing"
               /\ due_at'[q] = time + retry_delay[w] * Second
    BY <1>1, <1>2, <1>3, <1>4 DEF Waiting
  <2> QED
    BY <1>4, <2>1, MovesKeepWaiting
<1>7. WorkerWaits(w)'
  BY <1>1, <1>4 DEF TimedInv, WorkerWaits
<1>8. DeferralsLast(w)'
  BY <1>1, <1>4, <1>6, DeferralsStillLast
<1>9. CallIsFree(w)'
  BY <1>4 DEF CallIsFree
<1> QED
  BY <1>1, <1>4, <1>5, <1>6, <1>7, <1>8, <1>9, RequestsStillWait, OneMoves

LEMMA DieKeeps ==
  ASSUME TimedInv, NEW w \in TimedWorkers, Timed!Die(w)
  PROVE  TimedInv'
<1>1. /\ Timed!Return(w)
      /\ target_cooldowns' = [target_cooldowns EXCEPT ![w] = 0]
      /\ asked_worker' = [asked_worker EXCEPT ![w] = 0]
      /\ deferrals' = [deferrals EXCEPT ![w] = [r \in TimedRequests |-> 0]]
      /\ UNCHANGED <<time, status, due_at, asked_request>>
  BY DEF Timed!Die, Timed!rowVars, Timed!NoDeferrals
<1>2. /\ TimedTypes' /\ Moves(w) /\ stage'[w] = "idle" /\ in_hand'[w] \notin TimedRequests
      /\ target_cooldowns'[w] = 0 /\ asked_worker'[w] = 0
      /\ \A r \in TimedRequests : deferrals'[w][r] = 0
  BY <1>1, Returning DEF TimedInv, TimedTypes, Moves
<1>3. Holding'
  BY <1>1, <1>2 DEF TimedInv, Holding, Moves
<1>4. NoneEarlier
  BY <1>1, <1>2, MovesKeepWaiting
<1>5. WorkerWaits(w)'
  BY <1>2, Resolution DEF WorkerWaits
<1>6. CallIsFree(w)'
  BY <1>2 DEF CallIsFree
<1> QED
  BY <1>1, <1>2, <1>3, <1>4, <1>5, NothingDeferred, <1>6, RequestsStillWait, OneMoves

(* Time passes.                                                            *)
LEMMA TickKeeps ==
  ASSUME TimedInv, Timed!Tick
  PROVE  TimedInv'
<1>1. /\ time' = time + 1
      /\ UNCHANGED <<status, due_at, stage, in_hand, retry_delay, target_cooldowns,
                     asked_request, asked_worker, deferrals>>
  BY DEF Timed!Tick, Timed!rowVars, Timed!workerVars, Timed!historyVars
<1>2. TimedTypes' /\ Holding'
  BY <1>1 DEF TimedInv, TimedTypes, Holding
<1>3. NoneEarlier
  <2> SUFFICES ASSUME NEW r \in TimedRequests, NEW x \in Int, NotBefore(r, x)
               PROVE  NotBefore(r, x)'
    BY DEF NoneEarlier
  <2>1. time \in Nat /\ \A u \in TimedWorkers : retry_delay[u] * Second \in Nat
    BY Resolution, Product DEF TimedInv, TimedTypes
  <2> QED
    BY <1>1, <2>1 DEF NotBefore
<1>4. ASSUME NEW w \in TimedWorkers PROVE WorkerWaits(w)' /\ CallIsFree(w)' /\ DeferralsLast(w)'
  <2>1. WorkerWaits(w)'
    <3>1. /\ time \in Nat /\ retry_delay[w] * Second \in Nat /\ Second \in Nat
          /\ asked_worker[w] \in Nat /\ WorkerWaits(w)
      BY Resolution, Product DEF TimedInv, TimedTypes
    <3> QED
      BY <1>1, <3>1 DEF WorkerWaits
  <2>2. stage'[w] = "deferring" => deferrals[w][in_hand'[w]] <= 1
    BY <1>1 DEF TimedInv, Holding, DeferralsLast
  <2>3. DeferralsLast(w)'
    BY <1>1, <1>3, <2>2, DeferralsStillLast
  <2>4. CallIsFree(w)'
    BY <1>1 DEF TimedInv, TimedTypes, CallIsFree
  <2> QED
    BY <2>1, <2>3, <2>4
<1> QED
  BY <1>1, <1>2, <1>3, <1>4, RequestsStillWait DEF TimedInv

LEMMA TimedInit == Timed!Init => TimedInv
<1> SUFFICES ASSUME Timed!Init PROVE TimedInv
  OBVIOUS
<1>1. TimedTypes
  BY DEF Timed!Init, TimedTypes, Stage, Timed!NoDeferrals
<1>2. Holding
  BY DEF Timed!Init, Holding
<1>3. RequestWaits
  <2>1. 0 + 1 - Second \in Int /\ 0 + 1 - Second <= 0
    BY Resolution
  <2>2. \A r \in TimedRequests : NotBefore(r, 0 + 1 - Second)
    BY <1>1, <2>1, NothingIsEarly
  <2> QED
    BY <2>2 DEF RequestWaits, Timed!Init
<1>4. \A w \in TimedWorkers : WorkerWaits(w) /\ CallIsFree(w) /\ DeferralsLast(w)
  BY Resolution DEF Timed!Init, WorkerWaits, CallIsFree, DeferralsLast, Timed!NoDeferrals
<1> QED
  BY <1>1, <1>2, <1>3, <1>4 DEF TimedInv

LEMMA TimedStep == TimedInv /\ [Timed!Next]_Timed!vars => TimedInv'
<1> SUFFICES ASSUME TimedInv, [Timed!Next]_Timed!vars PROVE TimedInv'
  OBVIOUS
<1>1. CASE UNCHANGED Timed!vars
  BY <1>1 DEF Timed!vars, Timed!rowVars, Timed!workerVars, Timed!historyVars,
     TimedInv, TimedTypes, Holding, RequestWaits, WorkerWaits, CallIsFree, DeferralsLast, NotBefore
<1>2. CASE Timed!Tick
  BY <1>2, TickKeeps
<1>3. ASSUME NEW w \in TimedWorkers,
             \/ \E r \in TimedRequests : Timed!Claim(w, r)
             \/ Timed!NoticeCooldown(w) \/ Timed!Defer(w) \/ Timed!Execute(w)
             \/ Timed!RateLimited(w) \/ Timed!StartCooldown(w) \/ Timed!Fail(w)
             \/ Timed!Succeed(w) \/ Timed!RecordFailure(w) \/ Timed!Die(w)
      PROVE  TimedInv'
  BY <1>3, ClaimKeeps, NoticeKeeps, DeferKeeps, ExecuteKeeps, RateLimitedKeeps,
     StartCooldownKeeps, SucceedKeeps, RecordFailureKeeps, DieKeeps
<1> QED
  BY <1>1, <1>2, <1>3 DEF Timed!Next

(* Only Execute makes a claimed request an executing one.                  *)
LEMMA CallsChangeNoTimer ==
  ASSUME TimedInv, [Timed!Next]_Timed!vars, NEW w \in TimedWorkers,
         stage[w] = "claimed", stage'[w] = "executing"
  PROVE  target_cooldowns' = target_cooldowns /\ time' = time
<1>1. CASE Timed!Tick \/ UNCHANGED Timed!vars
  BY <1>1 DEF Timed!Tick, Timed!vars, Timed!workerVars
<1>2. ASSUME NEW u \in TimedWorkers, Timed!Execute(u)
      PROVE  target_cooldowns' = target_cooldowns /\ time' = time
  BY <1>2 DEF Timed!Execute
<1>3. ASSUME NEW u \in TimedWorkers,
             \/ \E r \in TimedRequests : Timed!Claim(u, r)
             \/ Timed!NoticeCooldown(u) \/ Timed!Defer(u) \/ Timed!RateLimited(u)
             \/ Timed!StartCooldown(u) \/ Timed!Fail(u) \/ Timed!Succeed(u)
             \/ Timed!RecordFailure(u) \/ Timed!Die(u)
      PROVE  FALSE
  <2>1. PICK label \in Stage \ {"executing"} : stage' = [stage EXCEPT ![u] = label]
    BY <1>3 DEF Stage, Timed!Claim, Timed!NoticeCooldown, Timed!Defer, Timed!RateLimited,
       Timed!StartCooldown, Timed!Fail, Timed!Succeed, Timed!RecordFailure, Timed!Die,
       Timed!Return, Timed!GoTo
  <2> QED
    BY <2>1 DEF TimedInv, TimedTypes
<1> QED
  BY <1>1, <1>2, <1>3 DEF Timed!Next

LEMMA TimedInvariance == Timed!Spec => []TimedInv
BY TimedInit, TimedStep, PTL DEF Timed!Spec

(* next_attempt_at and now compare as texts as the instants they stand     *)
(* for, at any resolution of the clock: claims take what is due.           *)
THEOREM DueRowsAreEligible == Timed!Spec => []EligibleWhenDue
<1>1. TimedInv => EligibleWhenDue
  BY DueIsEligible DEF TimedInv, EligibleWhenDue, Timed!EligibleWhenDue, Waiting
<1> QED
  BY <1>1, TimedInvariance, PTL

(* _defer_rate_limited_target: one cooldown costs a request at most two    *)
(* attempts of one worker, whatever other workers and the clock do.        *)
THEOREM DeferralsAreFew == Timed!Spec => []DeferredAtMostTwice
<1>1. TimedInv => DeferredAtMostTwice
  BY DEF TimedInv, DeferralsLast, DeferredAtMostTwice, Timed!DeferredAtMostTwice
<1> QED
  BY <1>1, TimedInvariance, PTL

(* No request is sent a second or more before the target asked for it, nor *)
(* by a worker the target asked to wait, as long as that worker lives.     *)
THEOREM RetryAfterIsKept == Timed!Spec => RetryAfterKept
<1>1. ASSUME TimedInv, [Timed!Next]_Timed!vars, NEW w \in TimedWorkers, Timed!Calls(w)
      PROVE  time + Second > asked_request[in_hand[w]] /\ time + Second > asked_worker[w]
  <2>1. stage[w] = "claimed" /\ stage'[w] = "executing"
    BY <1>1 DEF Timed!Calls
  <2>2. PICK r \in TimedRequests : r = in_hand[w]
    BY <1>1, <2>1 DEF TimedInv, Holding
  <2>3. time + Second > asked_request[r]
    <3>1. NotBefore(r, asked_request[r] + 1 - Second)
      BY <1>1 DEF TimedInv, RequestWaits
    <3>2. time >= asked_request[r] + 1 - Second
      BY <2>1, <2>2, <3>1 DEF NotBefore
    <3> QED
      BY <1>1, <3>2, Resolution DEF TimedInv, TimedTypes
  <2>4. target_cooldowns[w] <= time
    <3>1. TimedInv'
      BY <1>1, TimedStep
    <3>2. target_cooldowns'[w] <= time'
      BY <2>1, <3>1 DEF TimedInv, CallIsFree
    <3>3. target_cooldowns' = target_cooldowns /\ time' = time
      BY <1>1, <2>1, CallsChangeNoTimer
    <3> QED
      BY <3>2, <3>3
  <2>5. time + Second > asked_worker[w]
    BY <1>1, <2>1, <2>4, Resolution DEF TimedInv, TimedTypes, WorkerWaits
  <2> QED
    BY <2>2, <2>3, <2>5
<1>2. TimedInv /\ [Timed!Next]_Timed!vars =>
        [\A w \in TimedWorkers : Timed!Calls(w) =>
           /\ time + Second > asked_request[in_hand[w]]
           /\ time + Second > asked_worker[w]]_Timed!vars
  BY <1>1
<1> QED
  BY <1>2, TimedInvariance, PTL DEF Timed!Spec, RetryAfterKept, Timed!RetryAfterKept

-----------------------------------------------------------------------------
(* The clocks of many processes.                                           *)

(* What a process has read is not ahead of its clock.                      *)
ReadsArePast == \A p \in Processes : now[p] <= clock[p]

Owns(p, r) == pc[p] \in {"owner", "completing"} /\ held[p] = r

(* An owner's request is running, of nobody else, since an instant the     *)
(* owner has read from its own clock.                                      *)
OwnersAreLate ==
  \A p \in Processes : pc[p] \in {"owner", "completing"} =>
    /\ p \in Workers /\ held[p] \in Requests
    /\ HasStatus(held[p], {"running"})
    /\ Last(held[p]).due <= now[p]
    /\ \A q \in Processes : Owns(q, held[p]) => q = p

(* The row waits for the instant its last event names, within its budget.  *)
DueIsStored ==
  \A r \in Requests :
    /\ HasStatus(r, {"queued", "retrying"}) => Last(r).due = next_attempt_at[r]
    /\ HasStatus(r, {"retrying"}) => attempt_count[r] < MaxAttempts[r]
    /\ trail[r] = <<>> \/ HasStatus(r, {"queued"}) => attempt_count[r] = 0

IInv == TypeOK /\ ReadsArePast /\ OwnersAreLate /\ DueIsStored /\ TrailInTimeOrder

USE ClockAssumption DEF ClockAssumption, Processes

-----------------------------------------------------------------------------
(* What appending one event does to a trail.                               *)
LEMMA Appended ==
  ASSUME TypeOK, NEW r \in Requests, NEW e \in Event,
         trail' = [trail EXCEPT ![r] = Append(@, e)]
  PROVE  /\ trail' \in [Requests -> Seq(Event)]
         /\ trail'[r] # <<>> /\ Last(r)' = e
         /\ \A q \in Requests \ {r} : trail'[q] = trail[q]
<1>1. trail'[r] = Append(trail[r], e) /\ trail[r] \in Seq(Event)
  BY DEF TypeOK
<1>2. /\ trail'[r] \in Seq(Event)
      /\ Len(trail'[r]) = Len(trail[r]) + 1 /\ trail'[r][Len(trail[r]) + 1] = e
  BY <1>1
<1>3. Last(r)' = e /\ trail'[r] # <<>>
  BY <1>1, <1>2 DEF Last
<1> QED
  BY <1>2, <1>3 DEF TypeOK

LEMMA LastIsEvent ==
  ASSUME TypeOK, NEW r \in Requests, trail[r] # <<>>
  PROVE  Last(r) \in Event
BY DEF TypeOK, Last

(* An event that is not due too early keeps the trail in order.            *)
LEMMA AppendKeepsOrder ==
  ASSUME TypeOK, TrailInTimeOrder, NEW r \in Requests, NEW e \in Event,
         trail' = [trail EXCEPT ![r] = Append(@, e)],
         trail[r] = <<>> \/ e.status = "queued" \/ Last(r).due <= e.at
  PROVE  TrailInTimeOrder'
<1> SUFFICES ASSUME NEW q \in Requests, NEW i \in 1..(Len(trail'[q]) - 1),
                    trail'[q][i + 1].status # "queued"
             PROVE  trail'[q][i].due <= trail'[q][i + 1].at
  BY DEF TrailInTimeOrder
<1>1. CASE q # r
  BY <1>1 DEF TypeOK, TrailInTimeOrder
<1>2. CASE q = r
  <2>1. trail'[r] = Append(trail[r], e) /\ trail[r] \in Seq(Event)
    BY DEF TypeOK
  <2>2. CASE i < Len(trail[r])
    <3>1. trail'[r][i] = trail[r][i] /\ trail'[r][i + 1] = trail[r][i + 1]
      BY <1>2, <2>1, <2>2
    <3> QED BY <1>2, <2>1, <2>2, <3>1 DEF TrailInTimeOrder
  <2>3. CASE i = Len(trail[r])
    <3>1. trail'[r][i] = Last(r) /\ trail'[r][i + 1] = e /\ trail[r] # <<>>
      BY <1>2, <2>1, <2>3 DEF Last
    <3> QED BY <1>2, <3>1
  <2> QED BY <1>2, <2>1, <2>2, <2>3
<1> QED BY <1>1, <1>2

LEMMA InitEstablishesIInv == Init => IInv
BY DEF Init, IInv, TypeOK, ReadsArePast, OwnersAreLate, DueIsStored,
       TrailInTimeOrder, HasStatus

-----------------------------------------------------------------------------
(* Steps that append nothing.                                              *)
LEMMA SilentStepsKeepIInv ==
  ASSUME IInv, NEW p \in Processes,
         Tick(p) \/ ReadNow(p) \/ GiveUp(p) \/ (p \in Workers /\ Die(p))
  PROVE  IInv'
<1>1. TypeOK' /\ ReadsArePast'
  <2>1. CASE Tick(p)
    BY <2>1 DEF IInv, TypeOK, ReadsArePast, Tick
  <2>2. CASE ReadNow(p)
    <3>1. ReadsArePast'
      BY <2>2 DEF IInv, TypeOK, ReadsArePast, ReadNow
    <3>2. PICK label \in {"opening", "completing"}, r \in Requests \cup {Nobody} :
            Move(p, label, r)
      BY <2>2 DEF IInv, TypeOK, ReadNow
    <3> QED BY <2>2, <3>1, <3>2 DEF IInv, TypeOK, ReadNow, Move
  <2>3. CASE GiveUp(p) \/ Die(p)
    BY <2>3 DEF IInv, TypeOK, ReadsArePast, GiveUp, Die, Move
  <2> QED BY <2>1, <2>2, <2>3
<1>2. UNCHANGED <<trail, next_attempt_at, attempt_count>>
  BY DEF Tick, ReadNow, GiveUp, Die
<1>3. DueIsStored' /\ TrailInTimeOrder'
  BY <1>2 DEF IInv, DueIsStored, TrailInTimeOrder, HasStatus, Last
<1>4. OwnersAreLate'
  <2>1. \A r \in Requests : HasStatus(r, {"running"}) => Last(r)'.due \in Nat
    BY <1>2, LastIsEvent DEF IInv, HasStatus, Last, Event
  <2>2. \A q \in Processes : pc'[q] \in {"owner", "completing"} =>
          /\ pc[q] \in {"owner", "completing"} /\ held'[q] = held[q]
          /\ now[q] <= now'[q]
    BY DEF IInv, TypeOK, ReadsArePast, Tick, ReadNow, GiveUp, Die, Move
  <2>3. \A q \in Processes : now[q] \in Nat /\ now'[q] \in Nat
    BY <1>1 DEF IInv, TypeOK
  <2>4. \A r \in Requests : (HasStatus(r, {"running"}) <=> HasStatus(r, {"running"})')
                              /\ Last(r)' = Last(r)
    BY <1>2 DEF HasStatus, Last
  <2> QED BY <2>1, <2>2, <2>3, <2>4 DEF IInv, OwnersAreLate, Owns
<1> QED BY <1>1, <1>3, <1>4 DEF IInv

-----------------------------------------------------------------------------
(* The steps that append an event: the process moves to an idle state or,  *)
(* after a claim, owns the row it has just written.                        *)
LEMMA OthersStillOwn ==
  ASSUME IInv, NEW p \in Processes, NEW r \in Requests,
         NEW label \in {"idle", "owner"}, NEW held_by_p \in Requests \cup {Nobody},
         Move(p, label, held_by_p), now' \in [Processes -> Nat],
         \A q \in Processes \ {p} : now'[q] = now[q],
         \A q \in Processes \ {p} : ~Owns(q, r),
         \A q \in Requests \ {r} : trail'[q] = trail[q],
         label = "owner" =>
           /\ p \in Workers /\ held_by_p = r
           /\ HasStatus(r, {"running"})' /\ Last(r)'.due <= now'[p]
  PROVE  OwnersAreLate'
<1> SUFFICES ASSUME NEW q \in Processes, pc'[q] \in {"owner", "completing"}
             PROVE  /\ q \in Workers /\ held'[q] \in Requests
                    /\ HasStatus(held[q], {"running"})'
                    /\ Last(held[q])'.due <= now'[q]
                    /\ \A s \in Processes : Owns(s, held[q])' => s = q
  BY DEF OwnersAreLate, Owns
<1>1. \A s \in Processes \ {p} : pc'[s] = pc[s] /\ held'[s] = held[s]
  BY DEF IInv, TypeOK, Move
<1>2. pc'[p] = label /\ held'[p] = held_by_p
  BY DEF IInv, TypeOK, Move
<1>3. CASE q = p
  BY <1>1, <1>2, <1>3 DEF Owns, HasStatus, Last
<1>4. CASE q # p
  <2>1. /\ pc[q] \in {"owner", "completing"} /\ held[q] \in Requests \ {r}
        /\ q \in Workers /\ held'[q] = held[q] /\ now'[q] = now[q]
    BY <1>1, <1>4 DEF IInv, OwnersAreLate, Owns
  <2>2. HasStatus(held[q], {"running"})' /\ Last(held[q])'.due <= now'[q]
    BY <2>1 DEF IInv, OwnersAreLate, HasStatus, Last
  <2>3. \A s \in Processes : Owns(s, held[q])' => s = q
    BY <1>1, <1>2, <2>1 DEF IInv, OwnersAreLate, Owns
  <2> QED BY <2>1, <2>2, <2>3
<1> QED BY <1>3, <1>4

(* Only a running request has an owner.                                    *)
LEMMA NobodyOwnsWaiting ==
  ASSUME IInv, NEW r \in Requests,
         trail[r] = <<>> \/ HasStatus(r, {"queued", "retrying", "dead_letter"})
  PROVE  \A q \in Processes : ~Owns(q, r)
BY DEF IInv, OwnersAreLate, Owns, HasStatus

LEMMA QueueingKeepsIInv ==
  ASSUME IInv, NEW a \in Callers, NEW r \in Requests, Create(a, r) \/ Replay(a, r)
  PROVE  IInv'
<1> DEFINE e == [status |-> "queued", at |-> now[a], due |-> now[a]]
<1>1. e \in Event /\ now[a] \in Nat
  BY DEF IInv, TypeOK, Event
<1>2. /\ trail' = [trail EXCEPT ![r] = Append(@, e)] /\ Move(a, "idle", Nobody)
      /\ next_attempt_at' = [next_attempt_at EXCEPT ![r] = now[a]]
      /\ UNCHANGED <<clock, now>>
  BY DEF Create, Replay, AppendEvent
<1>3. attempt_count' = [attempt_count EXCEPT ![r] = 0]
  BY DEF IInv, TypeOK, DueIsStored, Create, Replay
<1>4. /\ trail' \in [Requests -> Seq(Event)] /\ trail'[r] # <<>> /\ Last(r)' = e
      /\ \A q \in Requests \ {r} : trail'[q] = trail[q]
  <2> HIDE DEF e
  <2> QED BY <1>1, <1>2, Appended DEF IInv
<1>5. TypeOK'
  BY <1>1, <1>2, <1>3, <1>4 DEF IInv, TypeOK, Move, Create, Replay
<1>6. ReadsArePast'
  BY <1>2 DEF IInv, ReadsArePast
<1>7. OwnersAreLate'
  <2>1. trail[r] = <<>> \/ HasStatus(r, {"queued", "retrying", "dead_letter"})
    BY DEF Create, Replay, HasStatus
  <2> QED BY <1>2, <1>4, <2>1, NobodyOwnsWaiting, OthersStillOwn DEF IInv, TypeOK
<1>8. DueIsStored'
  BY <1>2, <1>3, <1>4 DEF IInv, TypeOK, DueIsStored, HasStatus, Last
<1>9. TrailInTimeOrder'
  BY <1>1, <1>2, AppendKeepsOrder DEF IInv
<1> QED BY <1>5, <1>6, <1>7, <1>8, <1>9 DEF IInv

LEMMA ClaimKeepsIInv ==
  ASSUME IInv, NEW w \in Workers, NEW r \in Requests, Claim(w, r)
  PROVE  IInv'
<1> DEFINE e == [status |-> "running", at |-> now[w], due |-> now[w]]
<1>1. e \in Event /\ now[w] \in Nat
  BY DEF IInv, TypeOK, Event
<1>2. /\ trail' = [trail EXCEPT ![r] = Append(@, e)] /\ Move(w, "owner", r)
      /\ UNCHANGED <<clock, now, next_attempt_at, replays>>
      /\ attempt_count' = [attempt_count EXCEPT ![r] = @ + 1]
  BY DEF Claim, AppendEvent
<1>3. HasStatus(r, {"queued", "retrying"}) /\ next_attempt_at[r] <= now[w]
  BY DEF Claim, Eligible
<1>4. /\ trail' \in [Requests -> Seq(Event)] /\ trail'[r] # <<>> /\ Last(r)' = e
      /\ \A q \in Requests \ {r} : trail'[q] = trail[q]
  <2> HIDE DEF e
  <2> QED BY <1>1, <1>2, Appended DEF IInv
<1>5. attempt_count[r] < MaxAttempts[r]
  BY <1>3 DEF IInv, TypeOK, DueIsStored, HasStatus
<1>6. TypeOK'
  BY <1>2, <1>4, <1>5 DEF IInv, TypeOK, Move
<1>7. ReadsArePast'
  BY <1>2 DEF IInv, ReadsArePast
<1>8. OwnersAreLate'
  <2>1. \A q \in Processes : ~Owns(q, r)
    BY <1>3, NobodyOwnsWaiting DEF HasStatus
  <2>2. HasStatus(r, {"running"})' /\ Last(r)'.due <= now'[w]
    BY <1>1, <1>2, <1>4 DEF HasStatus
  <2> QED BY <1>2, <1>4, <2>1, <2>2, OthersStillOwn DEF IInv, TypeOK
<1>9. DueIsStored'
  BY <1>2, <1>4, SMTT(30) DEF IInv, TypeOK, DueIsStored, HasStatus, Last
<1>10. TrailInTimeOrder'
  <2>1. Last(r).due <= e.at
    BY <1>3 DEF IInv, DueIsStored
  <2> QED BY <1>1, <1>2, <2>1, AppendKeepsOrder DEF IInv
<1> QED BY <1>6, <1>7, <1>8, <1>9, <1>10 DEF IInv

LEMMA OutcomeKeepsIInv ==
  ASSUME IInv, NEW w \in Workers, NEW delay \in Nat,
         Complete(w) \/ FailOrRetry(w, delay)
  PROVE  IInv'
<1>1. PICK r \in Requests :
        /\ r = held[w] /\ HasStatus(r, {"running"}) /\ Last(r).due <= now[w]
        /\ \A q \in Processes \ {w} : ~Owns(q, r)
  BY DEF IInv, OwnersAreLate, Complete, FailOrRetry
<1>2. /\ now[w] \in Nat /\ clock[w] \in Nat /\ now[w] <= clock[w] /\ delay \in Nat
      /\ Last(r).due \in Nat
  BY <1>1, LastIsEvent DEF IInv, TypeOK, ReadsArePast, HasStatus, Event
<1>3. PICK e \in Event :
        /\ trail' = [trail EXCEPT ![r] = Append(@, e)]
        /\ e.status \in {"completed", "dead_letter", "retrying"} /\ now[w] <= e.at
        /\ e.status = "retrying" =>
             /\ attempt_count[r] < MaxAttempts[r]
             /\ next_attempt_at' = [next_attempt_at EXCEPT ![r] = e.due]
        /\ e.status # "retrying" => UNCHANGED next_attempt_at
  <2>1. CASE Complete(w)
    <3> [status |-> "completed", at |-> now[w], due |-> now[w]] \in Event
      BY <1>2 DEF Event
    <3> WITNESS [status |-> "completed", at |-> now[w], due |-> now[w]] \in Event
    <3> QED BY <1>1, <1>2, <2>1 DEF Complete, AppendEvent
  <2>2. CASE FailOrRetry(w, delay) /\ Exhausted(r)
    <3> [status |-> "dead_letter", at |-> clock[w], due |-> clock[w]] \in Event
      BY <1>2 DEF Event
    <3> WITNESS [status |-> "dead_letter", at |-> clock[w], due |-> clock[w]] \in Event
    <3> QED BY <1>1, <1>2, <2>2 DEF FailOrRetry, AppendEvent
  <2>3. CASE FailOrRetry(w, delay) /\ ~Exhausted(r)
    <3> [status |-> "retrying", at |-> clock[w], due |-> clock[w] + delay] \in Event
      BY <1>2 DEF Event
    <3> WITNESS [status |-> "retrying", at |-> clock[w], due |-> clock[w] + delay] \in Event
    <3>1. attempt_count[r] < MaxAttempts[r]
      BY <1>1, <2>3 DEF IInv, TypeOK, Exhausted
    <3> QED BY <1>1, <1>2, <2>3, <3>1 DEF FailOrRetry, AppendEvent
  <2> QED BY <2>1, <2>2, <2>3
<1>4. /\ trail' \in [Requests -> Seq(Event)] /\ trail'[r] # <<>> /\ Last(r)' = e
      /\ \A q \in Requests \ {r} : trail'[q] = trail[q]
  BY <1>3, Appended DEF IInv
<1>5. Move(w, "idle", Nobody) /\ UNCHANGED <<clock, attempt_count, replays>>
  BY DEF Complete, FailOrRetry
<1>6. /\ now' \in [Processes -> Nat] /\ now'[w] <= clock[w]
      /\ \A q \in Processes \ {w} : now'[q] = now[q]
  <2>1. now' = now \/ now' = [now EXCEPT ![w] = clock[w]]
    BY DEF Complete, FailOrRetry
  <2>2. CASE now' = now
    BY <1>2, <2>2 DEF IInv, TypeOK
  <2>3. CASE now' = [now EXCEPT ![w] = clock[w]]
    BY <1>2, <2>3 DEF IInv, TypeOK
  <2> QED BY <2>1, <2>2, <2>3
<1>7. TypeOK'
  <2>1. next_attempt_at' \in [Requests -> Nat]
    BY <1>3 DEF IInv, TypeOK, Event
  <2> QED BY <1>4, <1>5, <1>6, <2>1 DEF IInv, TypeOK, Move
<1>8. ReadsArePast'
  BY <1>5, <1>6 DEF IInv, TypeOK, ReadsArePast
<1>9. OwnersAreLate'
  BY <1>1, <1>4, <1>5, <1>6, OthersStillOwn
<1>10. DueIsStored'
  <2>1. \A q \in Requests \ {r} :
          next_attempt_at'[q] = next_attempt_at[q] /\ trail'[q] = trail[q]
    BY <1>3, <1>4 DEF IInv, TypeOK
  <2>2. ~HasStatus(r, {"queued"})' /\ trail'[r] # <<>>
    BY <1>3, <1>4 DEF HasStatus
  <2>3. HasStatus(r, {"retrying"})' =>
          e.due = next_attempt_at'[r] /\ attempt_count[r] < MaxAttempts[r]
    BY <1>1, <1>3, <1>4 DEF IInv, TypeOK, HasStatus
  <2>4. HasStatus(r, {"queued", "retrying"})' => HasStatus(r, {"retrying"})'
    BY <2>2 DEF HasStatus
  <2> QED BY <1>4, <1>5, <2>1, <2>2, <2>3, <2>4 DEF IInv, DueIsStored, HasStatus, Last
<1>11. TrailInTimeOrder'
  <2>1. Last(r).due <= e.at
    BY <1>1, <1>2, <1>3 DEF Event
  <2> QED BY <1>3, <2>1, AppendKeepsOrder DEF IInv
<1> QED BY <1>7, <1>8, <1>9, <1>10, <1>11 DEF IInv

LEMMA NextKeepsIInv == IInv /\ [Next]_vars => IInv'
<1> SUFFICES ASSUME IInv, [Next]_vars PROVE IInv'
  OBVIOUS
<1>1. CASE UNCHANGED vars
  BY <1>1 DEF vars, IInv, TypeOK, ReadsArePast, OwnersAreLate, DueIsStored,
              TrailInTimeOrder, Owns, HasStatus, Last
<1>2. ASSUME NEW p \in Processes, Tick(p) \/ ReadNow(p) \/ GiveUp(p) PROVE IInv'
  BY <1>2, SilentStepsKeepIInv
<1>3. ASSUME NEW a \in Callers, NEW r \in Requests, Create(a, r) \/ Replay(a, r)
      PROVE  IInv'
  BY <1>3, QueueingKeepsIInv
<1>4. ASSUME NEW w \in Workers, NEW r \in Requests, Claim(w, r) PROVE IInv'
  BY <1>4, ClaimKeepsIInv
<1>5. ASSUME NEW w \in Workers, NEW delay \in Delays, FailOrRetry(w, delay) PROVE IInv'
  BY <1>5, OutcomeKeepsIInv
<1>6. ASSUME NEW w \in Workers, Die(w) PROVE IInv'
  BY <1>6, SilentStepsKeepIInv
<1>7. ASSUME NEW w \in Workers, Complete(w) PROVE IInv'
  BY <1>7, OutcomeKeepsIInv
<1> QED BY <1>1, <1>2, <1>3, <1>4, <1>5, <1>6, <1>7 DEF Next

LEMMA Invariance == Spec => []IInv
BY InitEstablishesIInv, NextKeepsIInv, PTL DEF Spec

(* The audit events of a request are in the order of their timestamps,     *)
(* replays excepted, with whatever clocks the processes have.              *)
THEOREM TrailsAreInTimeOrder == Spec => []TrailInTimeOrder
BY Invariance, PTL DEF IInv

=============================================================================
